-------------------------- MODULE VolumeStatsProofs -------------------------
(***************************************************************************)
(* Proofs about VolumeStats for every word size and every number a file    *)
(* system may report.                                                      *)
(***************************************************************************)
EXTENDS VolumeStats, TLAPS

\* How large the words are.
LEMMA Words ==
  MaxInt \in Nat /\ MaxUint \in Nat /\ 2 * Half \in Nat /\ MaxUint < 2 * Half
    /\ MaxInt <= MaxUint
  BY StatsAssumption DEF MaxInt, MaxUint

\* The guard in front of a multiplication, n <= MaxUint / bsize, is exactly that the
\* product does not wrap.
LEMMA NoWrap ==
  ASSUME NEW n \in Nat, NEW b \in Nat \ {0}
  PROVE  n <= MaxUint \div b <=> n * b <= MaxUint
  <1> DEFINE q == MaxUint \div b
  <1>1. q \in Nat /\ q * b <= MaxUint /\ MaxUint < (q + 1) * b
    BY Words
  <1>2. ASSUME n <= q PROVE n * b <= MaxUint
    <2>1. n * b <= q * b
      BY <1>1, <1>2
    <2> QED
      BY <1>1, <2>1, Words
  <1>3. ASSUME ~(n <= q) PROVE ~(n * b <= MaxUint)
    <2>1. q + 1 <= n
      BY <1>1, <1>3
    <2>2. (q + 1) * b <= n * b
      BY <1>1, <2>1
    <2> QED
      BY <1>1, <2>2, Words
  <1> QED
    BY <1>2, <1>3

\* What passes both guards is the true product, and what does not pass them is too
\* large for an int64.
LEMMA FitsExactly ==
  ASSUME NEW n \in Nat, NEW b \in Nat \ {0}
  PROVE  /\ Fits(n, b) => Product(n, b) = n * b
         /\ ~Fits(n, b) => n * b > MaxInt
  <1>1. n * b \in Nat
    OBVIOUS
  <1>2. n * b <= MaxUint => Product(n, b) = n * b
    <2>1. ASSUME NEW x \in Nat, NEW k \in Nat, x < k PROVE x % k = x
      BY <2>1
    <2>2. n * b <= MaxUint => n * b < 2 * Half
      BY <1>1, Words
    <2> QED
      BY <1>1, <2>1, <2>2, Words DEF Product
  <1>3. Fits(n, b) <=> n * b <= MaxUint /\ Product(n, b) <= MaxInt
    BY NoWrap DEF Fits
  <1> QED
    BY <1>1, <1>2, <1>3, Words

\* The blocks in use are at most all of them.
LEMMA UsedWithinTotal ==
  ASSUME NEW s \in Statfs
  PROVE  UsedBlocks(s) \in Nat /\ UsedBlocks(s) <= s.blocks /\ s.blocks \in Nat
           /\ s.bavail \in Nat /\ s.bsize \in Int
  <1>1. s.blocks \in Nat /\ s.bfree \in Nat /\ s.bavail \in Nat /\ s.bsize \in Int
    <2>1. /\ s.blocks \in 0..MaxUint /\ s.bfree \in 0..MaxUint /\ s.bavail \in 0..MaxUint
          /\ s.bsize \in BlockSizes
      BY DEF Statfs
    <2>2. 0..MaxUint \subseteq Nat
      BY Words
    <2>3. s.bsize \in Int
      BY <2>1, StatsAssumption
    <2> QED
      BY <2>1, <2>2, <2>3
  <1> QED
    BY <1>1 DEF UsedBlocks

\* The byte counts of GetVolumeStats.
LEMMA BytesExact ==
  ASSUME NEW s \in Statfs
  PROVE  /\ GetVolumeStats(s).kind = "ok" =>
              /\ GetVolumeStats(s).available = s.bavail * s.bsize
              /\ GetVolumeStats(s).total = s.blocks * s.bsize
              /\ GetVolumeStats(s).used = UsedBlocks(s) * s.bsize
              /\ GetVolumeStats(s).used <= GetVolumeStats(s).total
         /\ GetVolumeStats(s).kind = "error" /\ s.bsize >= 0 =>
              s.bavail * s.bsize > MaxInt \/ s.blocks * s.bsize > MaxInt
  <1> DEFINE u == UsedBlocks(s)
             b == s.bsize
  <1>0. /\ u \in Nat /\ u <= s.blocks /\ s.blocks \in Nat /\ s.bavail \in Nat
        /\ b \in Int
    BY UsedWithinTotal
  <1>1. CASE b < 0
    BY <1>0, <1>1 DEF GetVolumeStats
  <1>2. CASE b = 0
    BY <1>0, <1>2 DEF GetVolumeStats
  <1>3. CASE b > 0 /\ Fits(s.bavail, b) /\ Fits(s.blocks, b) /\ Fits(u, b)
    <2>1. GetVolumeStats(s) =
            [kind |-> "ok", available |-> Product(s.bavail, b),
             total |-> Product(s.blocks, b), used |-> Product(u, b)]
      BY <1>0, <1>3 DEF GetVolumeStats
    <2>2. /\ Product(s.bavail, b) = s.bavail * b /\ Product(s.blocks, b) = s.blocks * b
          /\ Product(u, b) = u * b
      BY <1>0, <1>3, FitsExactly
    <2>3. u * b <= s.blocks * b
      BY <1>0, <1>3
    <2> QED
      BY <2>1, <2>2, <2>3
  <1>4. CASE b > 0 /\ ~(Fits(s.bavail, b) /\ Fits(s.blocks, b) /\ Fits(u, b))
    <2>1. GetVolumeStats(s) = [kind |-> "error"]
      BY <1>0, <1>4 DEF GetVolumeStats
    <2>2. u * b <= s.blocks * b /\ u * b \in Nat /\ s.blocks * b \in Nat
      BY <1>0, <1>4
    <2>3. s.bavail * b > MaxInt \/ s.blocks * b > MaxInt \/ u * b > MaxInt
      BY <1>0, <1>4, FitsExactly
    <2>4. s.bavail * b > MaxInt \/ s.blocks * b > MaxInt
      BY <2>2, <2>3, Words
    <2> QED
      BY <2>1, <2>4
  <1> QED
    BY <1>0, <1>1, <1>2, <1>3, <1>4

\* The inode counts.
LEMMA InodesExact ==
  ASSUME NEW i \in Inodes
  PROVE  /\ InodeStats(i).kind = "ok" =>
              InodeStats(i).used + InodeStats(i).available = i.files
         /\ InodeStats(i).kind = "error" =>
              i.files > MaxInt \/ i.ffree > MaxInt \/ i.files < i.ffree
         /\ InodeStats(i).kind \in {"ok", "error", "none"}
  <1>1. i.files \in Nat /\ i.ffree \in Nat
    BY Words DEF Inodes
  <1> QED
    BY <1>1 DEF InodeStats

\* What NodeGetVolumeStats reports about a file system is exact, and refused only
\* when it cannot be represented, for every word size and every file system.
THEOREM Exact == StatsExact
  <1> SUFFICES ASSUME NEW p \in FileSystems
        PROVE  LET answer == NodeGetVolumeStats(p)
                   fs == p.fs
                   i == p.inodes
                   used == IF fs.bfree < fs.blocks THEN fs.blocks - fs.bfree ELSE 0
               IN /\ answer.kind = "ok" =>
                       /\ answer.bytes.available = fs.bavail * fs.bsize
                       /\ answer.bytes.total = fs.blocks * fs.bsize
                       /\ answer.bytes.used = used * fs.bsize
                       /\ answer.bytes.used <= answer.bytes.total
                       /\ answer.inodes.kind = "ok" =>
                            answer.inodes.used + answer.inodes.available = i.files
                  /\ answer.kind = "error" /\ fs.bsize >= 0 =>
                       \/ \E n \in {fs.bavail * fs.bsize, fs.blocks * fs.bsize, i.files,
                                    i.ffree} : n > MaxInt
                       \/ i.files < i.ffree
    BY DEF StatsExact
  <1> DEFINE answer == NodeGetVolumeStats(p)
             bytes == GetVolumeStats(p.fs)
             inodes == InodeStats(p.inodes)
  <1>1. p.type = "fs" /\ p.fs \in Statfs /\ p.inodes \in Inodes
    BY DEF FileSystems
  <1>2. answer = IF bytes.kind # "ok" THEN bytes
                 ELSE IF inodes.kind = "error" THEN inodes
                 ELSE [kind |-> "ok", bytes |-> bytes, inodes |-> inodes]
    BY <1>1 DEF NodeGetVolumeStats
  <1>3. (IF p.fs.bfree < p.fs.blocks THEN p.fs.blocks - p.fs.bfree ELSE 0)
          = UsedBlocks(p.fs)
    <2>1. p.fs.bfree \in Nat /\ p.fs.blocks \in Nat
      BY <1>1, Words DEF Statfs
    <2> QED
      BY <2>1 DEF UsedBlocks
  <1> HIDE DEF answer, bytes, inodes
  <1>4. CASE bytes.kind # "ok"
    BY <1>1, <1>2, <1>3, <1>4, BytesExact DEF answer, bytes
  <1>5. CASE bytes.kind = "ok" /\ inodes.kind = "error"
    BY <1>1, <1>2, <1>3, <1>5, InodesExact DEF answer, inodes
  <1>6. CASE bytes.kind = "ok" /\ inodes.kind # "error"
    <2>1. /\ answer.kind = "ok" /\ answer.bytes = bytes /\ answer.inodes = inodes
      BY <1>2, <1>6
    <2> QED
      BY <1>1, <1>3, <1>6, <2>1, BytesExact, InodesExact DEF answer, bytes, inodes
  <1> QED
    BY <1>4, <1>5, <1>6
=============================================================================
