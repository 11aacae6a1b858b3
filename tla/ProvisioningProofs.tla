------------------------ MODULE ProvisioningProofs ------------------------
(***************************************************************************)
(* Proofs about Provisioning for every set of names, sizes and classes and *)
(* every storage class policy.                                             *)
(***************************************************************************)
EXTENDS Provisioning, TLAPS

CreatePCs == {"c_validate", "c_src", "c_get", "c_post"}
DeletePCs == {"d_get", "d_del"}
PCs == {"idle"} \union CreatePCs \union DeletePCs
ExpandPCs == {"idle", "x_get", "x_patch", "x_read", "x_poll"}
Phases == {"free", "wanted", "bound", "releasing", "gone"}
AllSizes == Sizes \union GrownSizes \union {0}

DataVolumes ==
  [uid : 1..MaxUid, labelled : BOOLEAN, storage : BOOLEAN, size : Sizes \union {0},
   class : Classes \union {NoClass}, rwx : BOOLEAN,
   src : Names \union Snapshots \union {Blank}]
PVs == [serial : 0..MaxUid, size : AllSizes]
Disks == [req : AllSizes, labelled : BOOLEAN, cap : Sizes \union GrownSizes]
Expansions == [pc : ExpandPCs, want : GrownSizes \union {0}, size : AllSizes]

\* A handler runs only in the phase it serves; past the validation its request is
\* valid; what it is about to delete it has seen to be its own.
CallOK(n) ==
  /\ pc[n] \in CreatePCs => phase[n] = "wanted"
  /\ pc[n] \in DeletePCs => phase[n] = "releasing"
  /\ pc[n] \in {"c_src", "c_get", "c_post"} => Valid(req[n])
  /\ pc[n] = "d_del" => Mine(n)
  /\ phase[n] # "free" => req[n] \in Requests

\* Until the volume is released, an infra PVC under its name belongs to the
\* DataVolume of that name and its PV is no smaller than that asks for.
ClaimOK(n) ==
  phase[n] \in {"free", "wanted", "bound"} /\ disk[n] # NoDisk =>
    Exists(n) /\ dv[n].size <= disk[n].cap

\* What holds of a PV the tenant may use. Before there is an infra PVC it has its
\* first size; afterwards that of the disk at most.
PVOK(n) ==
  phase[n] = "bound" =>
    /\ Mine(n)
    /\ dv[n].storage =>
         /\ pv[n].serial = dv[n].uid /\ dv[n].size <= pv[n].size
         /\ IF disk[n] = NoDisk THEN pv[n].size = dv[n].size
                                ELSE pv[n].size <= disk[n].cap

\* ControllerExpandVolume runs for bound volumes, for more than the PV records;
\* once past the patch the claim asks for it, and so does the size it waits for.
ExpandOK(n) ==
  /\ phase[n] \in {"free", "wanted"} => rs[n].pc = "idle"
  /\ phase[n] = "bound" =>
       /\ rs[n].pc # "idle" => pv[n].size < rs[n].want
       /\ rs[n].pc = "x_read" => disk[n] # NoDisk /\ rs[n].want <= disk[n].req
       /\ rs[n].pc = "x_poll" => disk[n] # NoDisk /\ rs[n].want <= rs[n].size

\* The driver's DataVolumes.
OwnOK(n) ==
  /\ phase[n] = "gone" => ~Mine(n)
  /\ Mine(n) /\ n \notin AdminNames => ClassAllowed(dv[n].class)

NameOK(n) == CallOK(n) /\ ClaimOK(n) /\ PVOK(n) /\ ExpandOK(n) /\ OwnOK(n)

\* The inductive invariant.
IInv == TypeOK /\ \A n \in Names : NameOK(n)

-----------------------------------------------------------------------------
(* Steps of one name.                                                      *)

\* The variables indexed by names have their types.
NamesOK ==
  /\ dv \in [Names -> {NoDV} \union DataVolumes]
  /\ req \in [Names -> {NoReq} \union Requests]
  /\ phase \in [Names -> Phases]
  /\ pv \in [Names -> PVs]
  /\ pc \in [Names -> PCs]
  /\ disk \in [Names -> {NoDisk} \union Disks]
  /\ rs \in [Names -> Expansions]

GlobalsOK == snaps \subseteq Snapshots /\ uids \in 1..MaxUid

\* Only the name n is concerned.
OthersSame(n) ==
  \A t \in Names \ {n} :
    /\ dv'[t] = dv[t] /\ req'[t] = req[t] /\ phase'[t] = phase[t] /\ pv'[t] = pv[t]
    /\ pc'[t] = pc[t] /\ disk'[t] = disk[t] /\ rs'[t] = rs[t]

\* TypeOK, name by name.
LEMMA TypeParts == TypeOK <=> GlobalsOK /\ NamesOK
  BY DEF TypeOK, GlobalsOK, NamesOK, PCs, CreatePCs, DeletePCs, ExpandPCs, Phases,
     AllSizes, DataVolumes, PVs, Disks, Expansions

\* The same of the next state.
LEMMA TypePartsNext == GlobalsOK' /\ NamesOK' => TypeOK'
  BY DEF TypeOK, GlobalsOK, NamesOK, PCs, CreatePCs, DeletePCs, ExpandPCs, Phases,
     AllSizes, DataVolumes, PVs, Disks, Expansions

\* A step of one name that keeps that name in order keeps the invariant.
LEMMA LocalStep ==
  ASSUME IInv, NEW n \in Names, NamesOK', GlobalsOK', OthersSame(n), NameOK(n)'
  PROVE  IInv'
  <1>1. ASSUME NEW t \in Names PROVE NameOK(t)'
    BY DEF IInv, NameOK, CallOK, ClaimOK, PVOK, ExpandOK, OwnOK, OthersSame, Mine, Exists
  <1> QED
    BY <1>1, TypePartsNext DEF IInv

\* What the current state says of the name a step concerns.
LEMMA Current ==
  ASSUME IInv, NEW n \in Names
  PROVE  /\ NamesOK /\ GlobalsOK /\ NameOK(n)
         /\ Exists(n) => dv[n] \in DataVolumes
         /\ disk[n] # NoDisk => disk[n] \in Disks
         /\ phase[n] # "free" => req[n] \in Requests
         /\ req[n] \in {NoReq} \union Requests /\ phase[n] \in Phases
         /\ pv[n] \in PVs /\ pc[n] \in PCs /\ rs[n] \in Expansions
  BY TypeParts DEF IInv, NamesOK, NameOK, CallOK, Exists

\* Sizes are numbers.
LEMMA SizesAreNat == AllSizes \subseteq Nat /\ Sizes \subseteq Nat /\ MaxUid \in Nat \ {0}
  BY ProvisioningAssumption DEF AllSizes

\* What a missing object is not.
LEMMA Missing == NoDV \notin DataVolumes /\ NoDisk \notin Disks
  BY DEF NoDV, DataVolumes, NoDisk, Disks

-----------------------------------------------------------------------------
(* One lemma per action, or per group of actions of one kind.              *)

\* Calls that only read move the handler on.
LEMMA ReadStep ==
  ASSUME IInv, NEW n \in Names, NEW p \in PCs, Goto(n, p),
         UNCHANGED <<dv, snaps, uids, req, disk, rs>>,
         p \in CreatePCs => phase[n] = "wanted",
         p \in DeletePCs => phase[n] = "releasing",
         p \in {"c_src", "c_get", "c_post"} => Valid(req[n]),
         p = "d_del" => Mine(n)
  PROVE  IInv'
  <1>0. NamesOK /\ GlobalsOK /\ NameOK(n)
    BY Current
  <1>1. phase' = phase /\ pv' = pv /\ pc' = [pc EXCEPT ![n] = p]
    BY DEF Goto
  <1>2. NamesOK' /\ GlobalsOK' /\ OthersSame(n) /\ pc'[n] = p
    BY <1>0, <1>1 DEF NamesOK, GlobalsOK, OthersSame
  <1>3. NameOK(n)'
    BY <1>0, <1>1, <1>2 DEF NameOK, CallOK, ClaimOK, PVOK, ExpandOK, OwnOK, Mine, Exists
  <1> QED
    BY <1>2, <1>3, LocalStep

\* The DataVolume that CreateDataVolume posts is the driver's, of the size asked
\* for and in a class the policy admits.
LEMMA Posted ==
  ASSUME IInv, NEW n \in Names, pc[n] = "c_post", Creatable(n), Post(n)
  PROVE  /\ dv'[n] \in DataVolumes /\ dv' \in [Names -> {NoDV} \union DataVolumes]
         /\ \A t \in Names \ {n} : dv'[t] = dv[t]
         /\ uids' = uids + 1 /\ uids' \in 1..MaxUid /\ dv'[n].uid = uids'
         /\ dv'[n].size = req[n].size /\ req[n].size \in Sizes
         /\ dv'[n].storage /\ Mine(n)' /\ ClassAllowed(dv'[n].class)
         /\ phase[n] = "wanted" /\ disk[n] = NoDisk /\ rs[n].pc = "idle"
  <1>0. NamesOK /\ GlobalsOK /\ CallOK(n) /\ ClaimOK(n) /\ ExpandOK(n)
    BY Current DEF NameOK
  <1>1. /\ phase[n] = "wanted" /\ Valid(req[n]) /\ req[n] \in Requests
        /\ disk[n] = NoDisk /\ rs[n].pc = "idle"
    BY <1>0 DEF CallOK, ClaimOK, ExpandOK, Creatable, CreatePCs
  <1>2. uids + 1 \in 1..MaxUid
    BY <1>0, ProvisioningAssumption DEF GlobalsOK, Creatable
  <1> DEFINE new == [uid |-> uids + 1, labelled |-> TRUE, storage |-> TRUE,
                     size |-> req[n].size, class |-> req[n].class,
                     rwx |-> IsRWX(req[n].caps), src |-> req[n].src]
  <1>3. IsRWX(req[n].caps) \in BOOLEAN
    BY DEF IsRWX
  <1>4. new \in DataVolumes
    BY <1>1, <1>2, <1>3 DEF DataVolumes, Requests
  <1>5. dv' = [dv EXCEPT ![n] = new] /\ uids' = uids + 1
    BY DEF Post
  <1>6. dv'[n] = new
    BY <1>0, <1>5 DEF NamesOK
  <1>7. Mine(n)'
    <2>1. dv'[n] \in DataVolumes /\ dv'[n].labelled /\ n \in Prefixed
      BY <1>4, <1>6 DEF Creatable
    <2> QED
      BY <2>1, Missing DEF Mine, Exists
  <1>8. ClassAllowed(new.class)
    BY <1>1 DEF Valid
  <1>9. req[n].size \in Sizes
    BY <1>1 DEF Requests
  <1> QED
    BY <1>0, <1>1, <1>2, <1>4, <1>5, <1>6, <1>7, <1>8, <1>9 DEF NamesOK

\* A volume whose DataVolume is the driver's and, if it has a spec.storage, of the
\* size asked for may be handed out.
LEMMA AdoptStep ==
  ASSUME IInv, NEW n \in Names, pc[n] = "c_get", Mine(n),
         UNCHANGED <<dv, snaps, uids, req, disk, rs>>,
         NEW serial \in 0..MaxUid, Created(n, serial),
         dv[n].storage => serial = dv[n].uid /\ dv[n].size = req[n].size
  PROVE  IInv'
  <1>0. /\ NamesOK /\ GlobalsOK /\ NameOK(n) /\ req[n] \in Requests
        /\ phase[n] = "wanted" /\ dv[n] \in DataVolumes
    BY Current DEF NameOK, CallOK, CreatePCs, Mine, Exists
  <1>1. req[n].size \in Sizes
    BY <1>0 DEF Requests
  <1>2. [serial |-> serial, size |-> req[n].size] \in PVs
    BY <1>1 DEF PVs, AllSizes
  <1>3. /\ pv' = [pv EXCEPT ![n] = [serial |-> serial, size |-> req[n].size]]
        /\ pc' = [pc EXCEPT ![n] = "idle"] /\ phase' = [phase EXCEPT ![n] = "bound"]
    BY DEF Created
  <1>4. NamesOK' /\ GlobalsOK' /\ OthersSame(n)
    BY <1>0, <1>2, <1>3 DEF NamesOK, GlobalsOK, OthersSame, PCs, Phases
  <1>5. /\ pv'[n].serial = serial /\ pv'[n].size = req[n].size
        /\ pc'[n] = "idle" /\ phase'[n] = "bound"
    BY <1>0, <1>3 DEF NamesOK
  <1>6. PVOK(n)'
    <2>1. req[n].size \in Nat
      BY <1>1, SizesAreNat
    <2>2. disk[n] # NoDisk => dv[n].size <= disk[n].cap
      BY <1>0 DEF NameOK, ClaimOK
    <2>3. Mine(n)' /\ dv'[n] = dv[n] /\ disk'[n] = disk[n]
      BY DEF Mine, Exists
    <2> QED
      BY <1>5, <2>1, <2>2, <2>3 DEF PVOK
  <1>7. NameOK(n)'
    BY <1>0, <1>5, <1>6 DEF NameOK, CallOK, ClaimOK, ExpandOK, OwnOK, Mine, Exists,
       CreatePCs, DeletePCs
  <1> QED
    BY <1>4, <1>7, LocalStep

\* A posted DataVolume is handed out, or its answer is lost.
LEMMA PostStep ==
  ASSUME IInv, NEW n \in Names, pc[n] = "c_post", Creatable(n), Post(n),
         Created(n, uids + 1) \/ Fail(n), UNCHANGED <<snaps, req, disk, rs>>
  PROVE  IInv'
  <1>0. /\ NamesOK /\ GlobalsOK /\ NameOK(n) /\ req[n] \in Requests
        /\ uids + 1 \in 0..MaxUid
    BY Current, Posted DEF NameOK, CallOK, CreatePCs, GlobalsOK
  <1>1. [serial |-> uids + 1, size |-> req[n].size] \in PVs
    BY <1>0, Posted DEF PVs, AllSizes
  <1>2. \/ /\ phase' = [phase EXCEPT ![n] = "bound"]
           /\ pv' = [pv EXCEPT ![n] = [serial |-> uids + 1, size |-> req[n].size]]
        \/ phase' = phase /\ pv' = pv
    BY DEF Created, Fail, Goto
  <1>3. pc' = [pc EXCEPT ![n] = "idle"]
    BY DEF Created, Fail, Goto
  <1>4. NamesOK' /\ GlobalsOK' /\ OthersSame(n)
    BY <1>0, <1>1, <1>2, <1>3, Posted DEF NamesOK, GlobalsOK, OthersSame, PCs, Phases
  <1>5. /\ pc'[n] = "idle"
        /\ \/ /\ phase'[n] = "bound" /\ pv'[n].serial = uids + 1
              /\ pv'[n].size = req[n].size
           \/ phase'[n] = "wanted"
    BY <1>0, <1>2, <1>3, Posted DEF NamesOK
  <1>6. /\ req[n].size <= req[n].size /\ Mine(n)' /\ disk'[n] = NoDisk
        /\ dv'[n].uid = uids + 1 /\ dv'[n].size = req[n].size
    <2>1. req[n].size \in Nat
      BY <1>0, ProvisioningAssumption DEF Requests
    <2> QED
      BY <2>1, Posted
  <1>7. PVOK(n)'
    BY <1>5, <1>6 DEF PVOK
  <1>8. NameOK(n)'
    BY <1>0, <1>5, <1>7, Posted DEF NameOK, CallOK, ClaimOK, ExpandOK, OwnOK,
       CreatePCs, DeletePCs
  <1> QED
    BY <1>4, <1>8, LocalStep

\* A DeleteVolume ends, or has its answer lost, with the DataVolume gone.
LEMMA DeleteStep ==
  ASSUME IInv, NEW n \in Names, pc[n] \in DeletePCs, Deleted(n) \/ Fail(n),
         UNCHANGED <<snaps, uids, req, disk, rs>>,
         \/ ~Exists(n) /\ dv' = dv
         \/ dv' = [dv EXCEPT ![n] = NoDV]
  PROVE  IInv'
  <1>0. NamesOK /\ GlobalsOK /\ NameOK(n) /\ phase[n] = "releasing"
    BY Current DEF NameOK, CallOK
  <1>1. NoPV \in PVs
    BY ProvisioningAssumption DEF NoPV, PVs, AllSizes
  <1>2. ~Exists(n)' /\ dv' \in [Names -> {NoDV} \union DataVolumes]
    BY <1>0 DEF NamesOK, Exists
  <1>3. NamesOK' /\ GlobalsOK' /\ OthersSame(n)
    BY <1>0, <1>1, <1>2 DEF NamesOK, GlobalsOK, OthersSame, PCs, Phases, Deleted, Fail,
       Goto
  <1>4. pc'[n] = "idle" /\ phase'[n] \in {"releasing", "gone"}
    BY <1>0 DEF NamesOK, Deleted, Fail, Goto
  <1>5. NameOK(n)'
    BY <1>0, <1>2, <1>4 DEF NameOK, CallOK, ClaimOK, PVOK, ExpandOK, OwnOK, Mine,
       CreatePCs, DeletePCs
  <1> QED
    BY <1>3, <1>5, LocalStep

\* Every step of CreateVolume, DeleteVolume and of their faults.
LEMMA CallStep ==
  ASSUME IInv, NEW n \in Names,
         \/ CValidate(n) \/ CSource(n) \/ CGet(n) \/ CPost(n) \/ CPostLost(n)
         \/ DGet(n) \/ DDelete(n) \/ DDeleteLost(n) \/ Abort(n)
  PROVE  IInv'
  <1> USE DEF PCs, CreatePCs, DeletePCs, Fail, storage
  <1>0. NamesOK /\ CallOK(n) /\ (Exists(n) => dv[n] \in DataVolumes)
    BY Current DEF NameOK
  <1>1. CASE CValidate(n)
    BY <1>0, <1>1, ReadStep DEF CValidate, CallOK
  <1>2. CASE CSource(n)
    BY <1>0, <1>2, ReadStep DEF CSource, CallOK
  <1>3. CASE CGet(n)
    <2>1. Exists(n) => dv[n].uid \in 0..MaxUid
      BY <1>0 DEF DataVolumes
    <2>2. 0 \in 0..MaxUid
      BY SizesAreNat
    <2>3. CASE ~Mine(n) \/ (dv[n].storage /\ dv[n].size # req[n].size)
      BY <1>0, <1>3, <2>3, ReadStep DEF CGet, CallOK, Mine
    <2>4. CASE Mine(n) /\ ~dv[n].storage
      BY <1>3, <2>2, <2>4, AdoptStep DEF CGet, Mine
    <2>5. CASE Mine(n) /\ dv[n].storage /\ dv[n].size = req[n].size
      BY <1>3, <2>1, <2>5, AdoptStep DEF CGet, Mine
    <2> QED
      BY <2>3, <2>4, <2>5
  <1>4. CASE CPost(n) \/ CPostLost(n)
    BY <1>4, ReadStep, PostStep DEF CPost, CPostLost
  <1>5. CASE DGet(n)
    BY <1>0, <1>5, ReadStep, DeleteStep DEF DGet, CallOK
  <1>6. CASE DDelete(n) \/ DDeleteLost(n)
    BY <1>6, ReadStep, DeleteStep DEF DDelete, DDeleteLost
  <1>7. CASE Abort(n)
    BY <1>7, ReadStep DEF Abort
  <1> QED
    BY <1>1, <1>2, <1>3, <1>4, <1>5, <1>6, <1>7

\* Steps of ControllerExpandVolume and of the infra PVC concern the PVC, the size
\* the PV records and the position of the handler.
LEMMA StorageStep ==
  ASSUME IInv, NEW n \in Names, UNCHANGED <<dv, snaps, uids, req, phase, pc>>,
         pv' \in [Names -> PVs], disk' \in [Names -> {NoDisk} \union Disks],
         rs' \in [Names -> Expansions],
         \A t \in Names \ {n} : pv'[t] = pv[t] /\ disk'[t] = disk[t] /\ rs'[t] = rs[t],
         ClaimOK(n)', PVOK(n)', ExpandOK(n)'
  PROVE  IInv'
  <1>0. NamesOK /\ GlobalsOK /\ NameOK(n)
    BY Current
  <1>1. NamesOK' /\ GlobalsOK' /\ OthersSame(n)
    BY <1>0 DEF NamesOK, GlobalsOK, OthersSame
  <1>2. NameOK(n)'
    BY <1>0 DEF NameOK, CallOK, OwnOK, Mine, Exists
  <1> QED
    BY <1>1, <1>2, LocalStep

\* How ControllerExpandVolume moves on to another call.
LEMMA XGotoMoves ==
  ASSUME IInv, NEW n \in Names, NEW p \in ExpandPCs, NEW size \in AllSizes,
         XGoto(n, p, size)
  PROVE  /\ rs' \in [Names -> Expansions]
         /\ rs'[n].pc = p /\ rs'[n].size = size /\ rs'[n].want = rs[n].want
         /\ \A t \in Names \ {n} : rs'[t] = rs[t]
  <1>1. rs \in [Names -> Expansions]
    BY Current DEF NamesOK
  <1> QED
    BY <1>1 DEF XGoto, Expansions

\* How it ends.
LEMMA XFailMoves ==
  ASSUME IInv, NEW n \in Names, XFail(n)
  PROVE  /\ rs' \in [Names -> Expansions] /\ rs'[n].pc = "idle"
         /\ \A t \in Names \ {n} : rs'[t] = rs[t]
  <1>1. rs \in [Names -> Expansions]
    BY Current DEF NamesOK
  <1>2. NoExpand \in Expansions /\ NoExpand.pc = "idle"
    BY DEF NoExpand, Expansions, ExpandPCs, AllSizes
  <1> QED
    BY <1>1, <1>2 DEF XFail

\* The calls of ControllerExpandVolume that leave PVC and PV alone.
LEMMA ExpandReadStep ==
  ASSUME IInv, NEW n \in Names, XGet(n) \/ XRead(n) \/ XAbort(n)
  PROVE  IInv'
  <1>0. /\ NamesOK /\ ClaimOK(n) /\ PVOK(n) /\ ExpandOK(n) /\ rs[n] \in Expansions
        /\ disk[n] # NoDisk => disk[n] \in Disks
    BY Current DEF NameOK
  <1>1. UNCHANGED <<dv, snaps, uids, req, phase, pc, pv, disk>>
    BY DEF XGet, XRead, XAbort
  <1>2. ClaimOK(n)' /\ PVOK(n)'
    BY <1>0, <1>1 DEF ClaimOK, PVOK, Mine, Exists
  <1>3. CASE XFail(n)
    <2>1. ExpandOK(n)'
      BY <1>1, <1>3, XGotoMoves, XFailMoves DEF ExpandOK
    <2> QED
      BY <1>0, <1>1, <1>2, <1>3, <2>1, XGotoMoves, XFailMoves, StorageStep DEF NamesOK
  <1>4. CASE XGet(n) /\ MyClaim(n)
    <2>1. PICK p \in {"x_read", "x_patch"} :
            XGoto(n, p, 0) /\ (p = "x_read" => disk[n].req >= rs[n].want)
      BY <1>4 DEF XGet
    <2>2. /\ rs' \in [Names -> Expansions] /\ \A t \in Names \ {n} : rs'[t] = rs[t]
          /\ rs'[n].pc = p /\ rs'[n].want = rs[n].want
      BY <2>1, XGotoMoves, XFailMoves DEF ExpandPCs, AllSizes
    <2>3. rs[n].want \in Nat /\ disk[n].req \in Nat /\ disk[n] # NoDisk
      BY <1>0, <1>4, SizesAreNat DEF MyClaim, Expansions, Disks, AllSizes
    <2>4. ExpandOK(n)'
      BY <1>0, <1>1, <1>4, <2>1, <2>2, <2>3 DEF ExpandOK, XGet
    <2> QED
      BY <1>0, <1>1, <1>2, <2>2, <2>4, StorageStep DEF NamesOK
  <1>5. CASE XRead(n) /\ MyClaim(n)
    <2>1. disk[n].req \in AllSizes /\ disk[n] # NoDisk
      BY <1>0, <1>5 DEF MyClaim, Disks
    <2>2. /\ rs' \in [Names -> Expansions] /\ \A t \in Names \ {n} : rs'[t] = rs[t]
          /\ rs'[n].pc = "x_poll" /\ rs'[n].want = rs[n].want
          /\ rs'[n].size = disk[n].req
      BY <1>5, <2>1, XGotoMoves, XFailMoves DEF ExpandPCs, XRead
    <2>3. ExpandOK(n)'
      BY <1>0, <1>1, <1>5, <2>1, <2>2 DEF ExpandOK, XRead
    <2> QED
      BY <1>0, <1>1, <1>2, <2>2, <2>3, StorageStep DEF NamesOK
  <1> QED
    BY <1>3, <1>4, <1>5 DEF XGet, XRead, XAbort

\* The patch makes the PVC ask for the size wanted, answered or not.
LEMMA PatchStep ==
  ASSUME IInv, NEW n \in Names, XPatch(n) \/ XPatchLost(n)
  PROVE  IInv'
  <1>0. /\ NamesOK /\ ClaimOK(n) /\ PVOK(n) /\ ExpandOK(n) /\ rs[n] \in Expansions
        /\ disk[n] # NoDisk => disk[n] \in Disks
    BY Current DEF NameOK
  <1>1. UNCHANGED <<dv, snaps, uids, req, phase, pc, pv>>
    BY DEF XPatch, XPatchLost
  <1>2. CASE ~Patchable(n)
    <2>1. XFail(n) /\ disk' = disk
      BY <1>2 DEF XPatch, XPatchLost
    <2>2. ClaimOK(n)' /\ PVOK(n)' /\ ExpandOK(n)'
      BY <1>0, <1>1, <2>1, XGotoMoves, XFailMoves DEF ClaimOK, PVOK, ExpandOK, Mine, Exists
    <2> QED
      BY <1>0, <1>1, <2>1, <2>2, XGotoMoves, XFailMoves, StorageStep DEF NamesOK
  <1>3. CASE Patchable(n)
    <2>1. /\ disk[n] \in Disks /\ rs[n].want \in AllSizes
          /\ disk' = [disk EXCEPT ![n].req = rs[n].want]
          /\ XGoto(n, "x_read", 0) \/ XFail(n)
      BY <1>0, <1>3 DEF Patchable, XPatch, XPatchLost, Expansions, AllSizes
    <2>2. /\ disk' \in [Names -> {NoDisk} \union Disks]
          /\ \A t \in Names \ {n} : disk'[t] = disk[t]
          /\ disk'[n] \in Disks /\ disk'[n].cap = disk[n].cap
          /\ disk'[n].req = rs[n].want
      BY <1>0, <2>1 DEF NamesOK, Disks
    <2>3. disk[n] # NoDisk /\ disk'[n] # NoDisk /\ rs[n].want \in Nat
      BY <1>3, <2>1, <2>2, Missing, SizesAreNat DEF Patchable
    <2>4. /\ rs' \in [Names -> Expansions] /\ \A t \in Names \ {n} : rs'[t] = rs[t]
          /\ rs'[n].pc \in {"x_read", "idle"}
          /\ rs'[n].pc # "idle" => rs'[n].want = rs[n].want
      BY <2>1, XGotoMoves, XFailMoves DEF ExpandPCs, AllSizes
    <2>5. ClaimOK(n)' /\ PVOK(n)'
      BY <1>0, <1>1, <2>2, <2>3 DEF ClaimOK, PVOK, Mine, Exists
    <2>6. ExpandOK(n)'
      BY <1>0, <1>1, <2>2, <2>3, <2>4 DEF ExpandOK, XPatch, XPatchLost
    <2> QED
      BY <1>0, <1>1, <2>2, <2>4, <2>5, <2>6, StorageStep DEF NamesOK
  <1> QED
    BY <1>2, <1>3

\* The size recorded at the end of an expansion is one the disk has.
LEMMA PollStep ==
  ASSUME IInv, NEW n \in Names, XPoll(n)
  PROVE  IInv'
  <1>0. /\ NamesOK /\ ClaimOK(n) /\ PVOK(n) /\ ExpandOK(n)
        /\ rs[n] \in Expansions /\ pv[n] \in PVs
        /\ disk[n] # NoDisk => disk[n] \in Disks
        /\ Exists(n) => dv[n] \in DataVolumes
    BY Current DEF NameOK
  <1>1. /\ UNCHANGED <<dv, snaps, uids, req, phase, pc, disk>>
        /\ XFail(n) /\ rs[n].pc = "x_poll"
    BY DEF XPoll
  <1>2. /\ rs' \in [Names -> Expansions] /\ \A t \in Names \ {n} : rs'[t] = rs[t]
        /\ rs'[n].pc = "idle"
    BY <1>1, XGotoMoves, XFailMoves
  <1>3. ClaimOK(n)' /\ ExpandOK(n)'
    BY <1>0, <1>1, <1>2 DEF ClaimOK, ExpandOK, Exists
  <1>4. CASE phase[n] # "bound" \/ disk[n] = NoDisk
    <2>1. pv' = pv
      BY <1>4 DEF XPoll
    <2>2. PVOK(n)'
      BY <1>0, <1>1, <2>1 DEF PVOK, Mine, Exists
    <2> QED
      BY <1>0, <1>1, <1>2, <1>3, <2>1, <2>2, StorageStep DEF NamesOK
  <1>5. CASE phase[n] = "bound" /\ disk[n] # NoDisk
    <2>1. /\ pv' = [pv EXCEPT ![n].size = rs[n].want] /\ rs[n].want \in AllSizes
          /\ disk[n].cap >= rs[n].size
      BY <1>0, <1>5 DEF XPoll, Expansions, AllSizes
    <2>2. /\ pv' \in [Names -> PVs] /\ \A t \in Names \ {n} : pv'[t] = pv[t]
          /\ pv'[n].serial = pv[n].serial /\ pv'[n].size = rs[n].want
      BY <1>0, <2>1 DEF NamesOK, PVs
    <2>3. /\ rs[n].want \in Nat /\ rs[n].size \in Nat /\ disk[n].cap \in Nat
          /\ pv[n].size \in Nat
      BY <1>0, <1>5, SizesAreNat DEF Expansions, Disks, PVs, AllSizes
    <2>4. pv[n].size < rs[n].want /\ rs[n].want <= disk[n].cap
      BY <1>0, <1>1, <1>5, <2>1, <2>3 DEF ExpandOK
    <2>5. Mine(n) /\ dv[n].size \in Nat
      <3>1. Mine(n)
        BY <1>0, <1>5 DEF PVOK
      <3>2. dv[n].size \in AllSizes
        BY <1>0, <3>1 DEF Mine, DataVolumes, AllSizes
      <3> QED
        BY <3>1, <3>2, SizesAreNat
    <2>6. PVOK(n)'
      BY <1>0, <1>1, <1>5, <2>2, <2>3, <2>4, <2>5 DEF PVOK, Mine, Exists
    <2> QED
      BY <1>0, <1>1, <1>2, <1>3, <2>2, <2>6, StorageStep DEF NamesOK
  <1> QED
    BY <1>4, <1>5

\* The resizer's call, for more than the PV records.
LEMMA COExpandStep ==
  ASSUME IInv, NEW n \in Names, COExpand(n)
  PROVE  IInv'
  <1>0. NamesOK /\ ClaimOK(n) /\ PVOK(n) /\ pv[n] \in PVs
    BY Current DEF NameOK
  <1>1. /\ UNCHANGED <<dv, snaps, uids, req, phase, pc, pv, disk>>
        /\ phase[n] = "bound"
    BY DEF COExpand
  <1>2. PICK s \in GrownSizes :
          s > pv[n].size /\ rs' = [rs EXCEPT ![n] = [pc |-> "x_get", want |-> s, size |-> 0]]
    BY DEF COExpand
  <1>3. [pc |-> "x_get", want |-> s, size |-> 0] \in Expansions
    BY DEF Expansions, ExpandPCs, AllSizes
  <1>4. /\ rs' \in [Names -> Expansions] /\ \A t \in Names \ {n} : rs'[t] = rs[t]
        /\ rs'[n].pc = "x_get" /\ rs'[n].want = s
    BY <1>0, <1>2, <1>3 DEF NamesOK
  <1>5. s \in Nat /\ pv[n].size \in Nat
    BY <1>0, SizesAreNat DEF PVs, AllSizes
  <1>6. ClaimOK(n)' /\ PVOK(n)' /\ ExpandOK(n)'
    BY <1>0, <1>1, <1>2, <1>4, <1>5 DEF ClaimOK, PVOK, ExpandOK, Mine, Exists
  <1> QED
    BY <1>0, <1>1, <1>4, <1>6, StorageStep DEF NamesOK

\* The infra PVC is bound, grows and is collected.
LEMMA ClaimStep ==
  ASSUME IInv, NEW n \in Names, Bind(n) \/ Grow(n) \/ Collect(n)
  PROVE  IInv'
  <1>0. /\ NamesOK /\ ClaimOK(n) /\ PVOK(n) /\ ExpandOK(n) /\ pv[n] \in PVs
        /\ disk[n] # NoDisk => disk[n] \in Disks
        /\ Exists(n) => dv[n] \in DataVolumes
    BY Current DEF NameOK
  <1>1. UNCHANGED <<dv, snaps, uids, req, phase, pc, pv, rs>>
    BY DEF Bind, Grow, Collect
  <1>2. CASE Bind(n)
    <2>1. PICK s \in Sizes \union GrownSizes :
            /\ s >= dv[n].size
            /\ disk' = [disk EXCEPT ![n] =
                 [req |-> dv[n].size, cap |-> s, labelled |-> dv[n].labelled]]
      BY <1>2 DEF Bind
    <2>2. Exists(n) /\ disk[n] = NoDisk /\ s \in Nat /\ dv[n].size \in Nat
      BY <1>0, <1>2, SizesAreNat DEF Bind, AllSizes, DataVolumes
    <2>3. [req |-> dv[n].size, cap |-> s, labelled |-> dv[n].labelled] \in Disks
      BY <1>0, <2>2 DEF DataVolumes, Disks, AllSizes
    <2>4. /\ disk' \in [Names -> {NoDisk} \union Disks]
          /\ \A t \in Names \ {n} : disk'[t] = disk[t]
          /\ disk'[n] \in Disks /\ disk'[n].cap = s
      BY <1>0, <2>1, <2>3 DEF NamesOK
    <2>5. dv[n].size <= disk'[n].cap
      BY <2>1, <2>2, <2>4
    <2>6. ClaimOK(n)' /\ PVOK(n)'
      BY <1>0, <1>1, <2>2, <2>4, <2>5, Missing DEF ClaimOK, PVOK, Mine, Exists
    <2>7. ExpandOK(n)'
      BY <1>0, <1>1, <2>2 DEF ExpandOK
    <2> QED
      BY <1>0, <1>1, <2>4, <2>6, <2>7, StorageStep DEF NamesOK
  <1>3. CASE Grow(n)
    <2>1. /\ disk[n] # NoDisk /\ disk[n] \in Disks /\ disk[n].cap < disk[n].req
          /\ disk' = [disk EXCEPT ![n].cap = disk[n].req]
      BY <1>0, <1>3 DEF Grow
    <2>2. disk[n].cap \in Nat /\ disk[n].req \in Nat
      BY <2>1, SizesAreNat DEF Disks, AllSizes
    <2>3. disk[n].req \in Sizes \union GrownSizes
      BY <2>1, <2>2 DEF Disks, AllSizes
    <2>4. /\ disk' \in [Names -> {NoDisk} \union Disks]
          /\ \A t \in Names \ {n} : disk'[t] = disk[t]
          /\ disk'[n] \in Disks /\ disk'[n].cap = disk[n].req
          /\ disk'[n].req = disk[n].req
      BY <1>0, <2>1, <2>3 DEF NamesOK, Disks
    <2>5. disk'[n] # NoDisk
      BY <2>4, Missing
    <2>6. pv[n].size \in Nat /\ (Exists(n) => dv[n].size \in Nat)
      BY <1>0, SizesAreNat DEF PVs, AllSizes, DataVolumes
    <2>7. ClaimOK(n)'
      BY <1>0, <1>1, <2>1, <2>2, <2>4, <2>5, <2>6 DEF ClaimOK, Exists
    <2>8. PVOK(n)'
      BY <1>0, <1>1, <2>1, <2>2, <2>4, <2>5, <2>6 DEF PVOK, Mine, Exists
    <2>9. ExpandOK(n)'
      BY <1>0, <1>1, <2>4, <2>5 DEF ExpandOK
    <2> QED
      BY <1>0, <1>1, <2>4, <2>7, <2>8, <2>9, StorageStep DEF NamesOK
  <1>4. CASE Collect(n)
    <2>1. /\ disk' \in [Names -> {NoDisk} \union Disks]
          /\ \A t \in Names \ {n} : disk'[t] = disk[t]
          /\ disk'[n] = NoDisk /\ disk[n] # NoDisk /\ ~Exists(n)
      BY <1>0, <1>4 DEF Collect, NamesOK
    <2>2. phase[n] \notin {"free", "wanted", "bound"}
      BY <1>0, <2>1 DEF ClaimOK
    <2>3. ClaimOK(n)' /\ PVOK(n)' /\ ExpandOK(n)'
      BY <1>1, <2>1, <2>2 DEF ClaimOK, PVOK, ExpandOK
    <2> QED
      BY <1>0, <1>1, <2>1, <2>3, StorageStep DEF NamesOK
  <1> QED
    BY <1>2, <1>3, <1>4

\* The external-provisioner and other users of the infra namespace.
LEMMA WorldStep ==
  ASSUME IInv, NEW n \in Names,
         COClaim(n) \/ COCreate(n) \/ CORelease(n) \/ CODelete(n) \/ Foreign(n)
  PROVE  IInv'
  <1>0. NamesOK /\ GlobalsOK /\ NameOK(n)
    BY Current
  <1>1. CASE COClaim(n)
    <2>1. PICK r \in Requests : req' = [req EXCEPT ![n] = r]
      BY <1>1 DEF COClaim
    <2>2. /\ UNCHANGED <<dv, snaps, uids, pv, pc, disk, rs>> /\ pc[n] = "idle"
          /\ phase' = [phase EXCEPT ![n] = "wanted"] /\ phase[n] \in {"free", "wanted"}
      BY <1>1 DEF COClaim, storage
    <2>3. NamesOK' /\ GlobalsOK' /\ OthersSame(n)
      BY <1>0, <2>1, <2>2 DEF NamesOK, GlobalsOK, OthersSame, Phases
    <2>4. req'[n] \in Requests /\ phase'[n] = "wanted"
      BY <1>0, <2>1, <2>2 DEF NamesOK
    <2>5. NameOK(n)'
      BY <1>0, <2>2, <2>4 DEF NameOK, CallOK, ClaimOK, PVOK, ExpandOK, OwnOK, Mine,
         Exists, CreatePCs, DeletePCs
    <2> QED
      BY <2>3, <2>5, LocalStep
  <1>2. CASE COCreate(n) \/ CODelete(n)
    BY <1>2, ReadStep DEF COCreate, CODelete, PCs, CreatePCs, DeletePCs, storage
  <1>3. CASE CORelease(n)
    <2>1. /\ UNCHANGED <<dv, snaps, uids, req, pv, pc, disk, rs>> /\ phase[n] = "bound"
          /\ phase' = [phase EXCEPT ![n] = "releasing"]
      BY <1>3 DEF CORelease, storage
    <2>2. NamesOK' /\ GlobalsOK' /\ OthersSame(n) /\ phase'[n] = "releasing"
      BY <1>0, <2>1 DEF NamesOK, GlobalsOK, OthersSame, Phases
    <2>3. NameOK(n)'
      BY <1>0, <2>1, <2>2 DEF NameOK, CallOK, ClaimOK, PVOK, ExpandOK, OwnOK, Mine,
         Exists, CreatePCs, DeletePCs
    <2> QED
      BY <2>2, <2>3, LocalStep
  <1>4. CASE Foreign(n)
    <2>1. PICK s \in Sizes :
            dv' = [dv EXCEPT ![n] =
              [uid |-> uids + 1, labelled |-> FALSE, storage |-> TRUE, size |-> s,
               class |-> NoClass, rwx |-> FALSE, src |-> Blank]]
      BY <1>4 DEF Foreign
    <2>2. /\ UNCHANGED <<snaps, req, phase, pv, pc, disk, rs>> /\ ~Exists(n)
          /\ uids' = uids + 1 /\ uids < MaxUid
      BY <1>4 DEF Foreign, storage
    <2>3. uids' \in 1..MaxUid
      BY <1>0, <2>2, SizesAreNat DEF GlobalsOK
    <2>4. [uid |-> uids + 1, labelled |-> FALSE, storage |-> TRUE, size |-> s,
           class |-> NoClass, rwx |-> FALSE, src |-> Blank] \in DataVolumes
      BY <2>2, <2>3 DEF DataVolumes
    <2>5. NamesOK' /\ GlobalsOK' /\ OthersSame(n)
      BY <1>0, <2>1, <2>2, <2>3, <2>4 DEF NamesOK, GlobalsOK, OthersSame
    <2>6. ~dv'[n].labelled
      BY <1>0, <2>1 DEF NamesOK
    <2>7. /\ phase[n] # "bound" /\ pc[n] # "d_del"
          /\ phase[n] \in {"free", "wanted"} => disk[n] = NoDisk
      BY <1>0, <2>2 DEF NameOK, PVOK, CallOK, ClaimOK, Mine
    <2>8. NameOK(n)'
      BY <1>0, <2>2, <2>6, <2>7 DEF NameOK, CallOK, ClaimOK, PVOK, ExpandOK, OwnOK, Mine
    <2> QED
      BY <2>5, <2>8, LocalStep
  <1> QED
    BY <1>1, <1>2, <1>3, <1>4

\* Initially nothing is asked for; only the admin's DataVolumes exist.
LEMMA InitIInv == Init => IInv
  <1> SUFFICES ASSUME Init PROVE IInv
    OBVIOUS
  <1> DEFINE admin == [uid |-> 1, labelled |-> TRUE, storage |-> FALSE, size |-> 0,
                       class |-> NoClass, rwx |-> FALSE, src |-> Blank]
  <1>1. admin \in DataVolumes
    BY SizesAreNat DEF DataVolumes
  <1>2. dv = [n \in Names |-> IF n \in AdminNames THEN admin ELSE NoDV]
    BY DEF Init
  <1>3. NoPV \in PVs /\ NoExpand \in Expansions /\ NoExpand.pc = "idle"
    BY SizesAreNat DEF NoPV, PVs, NoExpand, Expansions, ExpandPCs, AllSizes
  <1>4. NamesOK /\ GlobalsOK
    <2> HIDE DEF admin
    <2>1. dv \in [Names -> {NoDV} \union DataVolumes]
      BY <1>1, <1>2
    <2>2. GlobalsOK
      BY SizesAreNat DEF Init, GlobalsOK
    <2> QED
      BY <1>3, <2>1, <2>2 DEF Init, NamesOK, PCs, Phases
  <1>5. ASSUME NEW n \in Names PROVE NameOK(n)
    <2> HIDE DEF admin
    <2>1. Mine(n) => n \in AdminNames
      BY <1>2 DEF Mine, Exists
    <2> QED
      BY <1>3, <2>1 DEF Init, NameOK, CallOK, ClaimOK, PVOK, ExpandOK, OwnOK,
         CreatePCs, DeletePCs
  <1> QED
    BY <1>4, <1>5, TypeParts DEF IInv

\* Every step, of any actor, keeps the invariant.
LEMMA NextIInv == IInv /\ [Next]_vars => IInv'
  <1> SUFFICES ASSUME IInv, [Next]_vars PROVE IInv'
    OBVIOUS
  <1>1. ASSUME NEW s \in Snapshots, SnapshotGone(s) PROVE IInv'
    BY <1>1 DEF SnapshotGone, storage, IInv, TypeOK, NameOK, CallOK, ClaimOK, PVOK,
       ExpandOK, OwnOK, Mine, Exists
  <1>2. CASE UNCHANGED vars
    BY <1>2 DEF vars, IInv, TypeOK, NameOK, CallOK, ClaimOK, PVOK, ExpandOK, OwnOK, Mine,
       Exists
  <1> QED
    BY <1>1, <1>2, CallStep, ExpandReadStep, PatchStep, PollStep, COExpandStep,
       ClaimStep, WorldStep DEF Next

-----------------------------------------------------------------------------
(* The theorems.                                                           *)

\* The inductive invariant holds in every reachable state.
THEOREM Invariance == Spec => []IInv
  BY InitIInv, NextIInv, PTL DEF Spec

\* Type correctness of the state of CreateVolume, DeleteVolume and
\* ControllerExpandVolume.
THEOREM TypeCorrect == Spec => []TypeOK
  <1>1. IInv => TypeOK
    BY DEF IInv
  <1> QED
    BY <1>1, Invariance, PTL

\* The PV that CreateVolume's answer leads to names, by its serial, the DataVolume
\* that is there, and is no smaller than that, also when an earlier call's answer
\* was lost and this one adopted its DataVolume.
THEOREM Backed == Spec => []BoundIsBacked
  <1>1. IInv => BoundIsBacked
    <2> SUFFICES ASSUME IInv, NEW n \in Names, phase[n] = "bound"
                 PROVE  Mine(n) /\ (dv[n].storage =>
                          pv[n].serial = dv[n].uid /\ pv[n].size >= dv[n].size)
      BY DEF BoundIsBacked
    <2>1. PVOK(n) /\ pv[n] \in PVs /\ (Exists(n) => dv[n] \in DataVolumes)
      BY Current DEF NameOK
    <2>2. Mine(n) /\ Exists(n)
      BY <2>1 DEF PVOK, Mine
    <2>3. pv[n].size \in AllSizes /\ dv[n].size \in AllSizes
      BY <2>1, <2>2 DEF PVs, DataVolumes, AllSizes
    <2>4. pv[n].size \in Nat /\ dv[n].size \in Nat
      BY <2>3, SizesAreNat
    <2> QED
      BY <2>1, <2>2, <2>4 DEF PVOK
  <1> QED
    BY <1>1, Invariance, PTL

\* The size a PV records is there in the infra cluster, for every sequence of
\* expansions, timeouts, repetitions and lost answers.
THEOREM Provisioned == Spec => []RecordedIsProvisioned
  <1>1. IInv => RecordedIsProvisioned
    BY DEF IInv, NameOK, PVOK, RecordedIsProvisioned
  <1> QED
    BY <1>1, Invariance, PTL

\* A DeleteVolume that reported success has left no DataVolume of the driver.
THEOREM NothingLeft == Spec => []GoneIsDeleted
  <1>1. IInv => GoneIsDeleted
    BY DEF IInv, NameOK, OwnOK, GoneIsDeleted
  <1> QED
    BY <1>1, Invariance, PTL

\* The driver's DataVolumes are in classes that storageClassEnforcement admits, for
\* every configuration of it.
THEOREM PolicyKept == Spec => []PolicyHolds
  <1>1. IInv => PolicyHolds
    BY ProvisioningAssumption DEF IInv, NameOK, OwnOK, PolicyHolds, ClassAllowed
  <1> QED
    BY <1>1, Invariance, PTL

\* The step by which a DataVolume disappears is one of a DeleteVolume that has seen
\* the driver's labels on it.
THEOREM ForeignSafe == Spec => ForeignUntouched
  <1>1. IInv /\ [Next]_vars =>
          \A n \in Names : Exists(n) /\ ~dv[n].labelled => dv'[n] = dv[n]
    <2> SUFFICES ASSUME IInv, [Next]_vars, NEW n \in Names, Exists(n), ~dv[n].labelled
                 PROVE  dv'[n] = dv[n]
      OBVIOUS
    <2>0. NamesOK
      BY Current
    <2>1. ASSUME NEW t \in Names, CPost(t) \/ CPostLost(t) \/ Foreign(t)
          PROVE  dv'[n] = dv[n]
      BY <2>0, <2>1 DEF CPost, CPostLost, Post, Creatable, Foreign, Exists, NamesOK
    <2>2. ASSUME NEW t \in Names, DDelete(t) \/ DDeleteLost(t)
          PROVE  dv'[n] = dv[n]
      BY <2>0, <2>2 DEF DDelete, DDeleteLost, NamesOK, IInv, NameOK, CallOK, Mine
    <2>3. ASSUME NEW t \in Names,
                 \/ CValidate(t) \/ CSource(t) \/ CGet(t) \/ DGet(t) \/ Abort(t)
                 \/ COClaim(t) \/ COCreate(t) \/ CORelease(t) \/ CODelete(t)
          PROVE  dv'[n] = dv[n]
      BY <2>3 DEF CValidate, CSource, CGet, DGet, Abort, COClaim, COCreate, CORelease,
         CODelete
    <2>4. ASSUME NEW t \in Names,
                 \/ XGet(t) \/ XPatch(t) \/ XPatchLost(t) \/ XRead(t) \/ XPoll(t)
                 \/ XAbort(t) \/ COExpand(t) \/ Bind(t) \/ Grow(t) \/ Collect(t)
          PROVE  dv'[n] = dv[n]
      BY <2>4 DEF XGet, XPatch, XPatchLost, XRead, XPoll, XAbort, COExpand, Bind, Grow,
         Collect
    <2>5. ASSUME NEW s \in Snapshots, SnapshotGone(s) PROVE dv'[n] = dv[n]
      BY <2>5 DEF SnapshotGone
    <2>6. CASE UNCHANGED vars
      BY <2>6 DEF vars
    <2> QED
      BY <2>1, <2>2, <2>3, <2>4, <2>5, <2>6 DEF Next
  <1> QED
    BY <1>1, Invariance, PTL DEF Spec, ForeignUntouched
=============================================================================
