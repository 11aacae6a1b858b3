---------------------------- MODULE VolumeStats -----------------------------
(***************************************************************************)
(* GetVolumeStats of pkg/mounter/mount.go and the answer NodeGetVolumeStats*)
(* builds from it, in words of 2 * Half values: products wrap there, and   *)
(* values above MaxInt would turn negative in an int64.                    *)
(***************************************************************************)
EXTENDS Integers

CONSTANTS
  Half,        \* half the number of values of a word; 2^63 in the code
  BlockSizes   \* the block sizes, signed numbers, that file systems may report

ASSUME StatsAssumption == Half \in Nat \ {0} /\ BlockSizes \subseteq Int

MaxUint == 2 * Half - 1
MaxInt == Half - 1

\* What statfs(2) may report.
Statfs ==
  [bsize : BlockSizes, bavail : 0..MaxUint, blocks : 0..MaxUint, bfree : 0..MaxUint]
Inodes == [files : 0..MaxUint, ffree : 0..MaxUint]

Product(n, bsize) == (n * bsize) % (2 * Half)

\* Mutant of Fits: the product is looked at after it wrapped.
FitsWrapped(n, bsize) == Product(n, bsize) <= MaxInt

\* The two guards before a value is used: no wrap, and no more than an int64.
Fits(n, bsize) == n <= MaxUint \div bsize /\ Product(n, bsize) <= MaxInt

UsedBlocks(fs) == IF fs.blocks > fs.bfree THEN fs.blocks - fs.bfree ELSE 0

\* The outcome: an error, a panic (the guard divides by a block size of zero), or
\* the byte counts.
GetVolumeStats(fs) ==
  IF fs.bsize < 0 THEN [kind |-> "error"]
  ELSE IF fs.bsize = 0 THEN [kind |-> "panic"]
  ELSE IF \E n \in {fs.bavail, fs.blocks, UsedBlocks(fs)} : ~Fits(n, fs.bsize)
  THEN [kind |-> "error"]
  ELSE [kind |-> "ok", available |-> Product(fs.bavail, fs.bsize),
        total |-> Product(fs.blocks, fs.bsize),
        used |-> Product(UsedBlocks(fs), fs.bsize)]

\* The inode counts; a file system without inodes reports none of them.
InodeStats(i) ==
  IF i.ffree > MaxInt \/ i.files > MaxInt \/ i.files < i.ffree THEN [kind |-> "error"]
  ELSE IF i.files = 0 THEN [kind |-> "none"]
  ELSE [kind |-> "ok", available |-> i.ffree, total |-> i.files,
        used |-> i.files - i.ffree]

\* The answer for a volume path: an error where it is absent or a system call
\* (stat, the look at its type, the block device's size, statfs) fails, else the
\* numbers of the block device or the file system; a single bad number fails the
\* whole answer.
NodeGetVolumeStats(path) ==
  CASE path.type \in {"absent", "no stat", "no type", "no size", "no statfs"} ->
         [kind |-> "error"]
    [] path.type = "block" -> [kind |-> "ok", bytes |-> [total |-> path.size]]
    [] path.type = "fs" ->
         LET bytes == GetVolumeStats(path.fs)
             inodes == InodeStats(path.inodes)
         IN IF bytes.kind # "ok" THEN bytes
            ELSE IF inodes.kind = "error" THEN inodes
            ELSE [kind |-> "ok", bytes |-> bytes, inodes |-> inodes]

FileSystems == [type : {"fs"}, fs : Statfs, inodes : Inodes]

StatsMayPanic == \E path \in FileSystems : NodeGetVolumeStats(path).kind = "panic"

\* A reported number is the true one: whatever the file system says, no answer
\* holds a product that wrapped or a count that does not fit, used never exceeds
\* the total, and an answer is refused only when one of its numbers cannot be
\* represented or the inode counts contradict each other.
StatsExact ==
  \A path \in FileSystems :
    LET answer == NodeGetVolumeStats(path)
        fs == path.fs
        i == path.inodes
        used == IF fs.bfree < fs.blocks THEN fs.blocks - fs.bfree ELSE 0
    IN /\ answer.kind = "ok" =>
            /\ answer.bytes.available = fs.bavail * fs.bsize
            /\ answer.bytes.total = fs.blocks * fs.bsize
            /\ answer.bytes.used = used * fs.bsize
            /\ answer.bytes.used <= answer.bytes.total
            /\ answer.inodes.kind = "ok" =>
                 answer.inodes.used + answer.inodes.available = i.files
       /\ answer.kind = "error" /\ fs.bsize >= 0 =>
            \/ \E n \in {fs.bavail * fs.bsize, fs.blocks * fs.bsize, i.files, i.ffree} :
                 n > MaxInt
            \/ i.files < i.ffree
=============================================================================
