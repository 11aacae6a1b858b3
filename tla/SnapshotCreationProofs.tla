----------------------- MODULE SnapshotCreationProofs -----------------------
(***************************************************************************)
(* Proofs about SnapshotCreation for every set of snapshot names, volumes  *)
(* and classes, and every class policy.                                    *)
(***************************************************************************)
EXTENDS SnapshotCreation, TLAPS

CreatePCs == {"s_get", "s_src", "s_dv", "s_class", "s_post", "s_wait", "s_reget"}
DeletePCs == {"x_get", "x_del"}
PCs == {"idle"} \union CreatePCs \union DeletePCs
Phases == {"wanted", "cut", "releasing", "gone"}

VolumeSnapshots ==
  [src : Vols, labelled : BOOLEAN, ready : BOOLEAN,
   class : SnapClasses \union {None}]
Reports == [src : Vols \union {None}, ready : BOOLEAN, size : {0, Size}]

\* The snapshot called s is the driver's and of the volume asked for.
AsWanted(s) == Mine(s) /\ snap[s].src = want[s].src

Mapped(s) ==
  \E i \in DOMAIN Mapping : /\ ClassOf[snap[s].src] \in Mapping[i].storage
                            /\ snap[s].class \in Mapping[i].snap

\* What holds of one name: a handler runs only in the phase it serves; a request
\* that reached the Create was admitted by the policy; what the handler created
\* is still there when it waits for it and reads it again, and what it found to
\* be its own when it deletes it; what was reported is what was asked for; and
\* the driver's snapshots are of mapped classes.
NameOK(s) ==
  /\ pc[s] \in CreatePCs => phase[s] = "wanted"
  /\ pc[s] \in DeletePCs => phase[s] = "releasing"
  /\ pc[s] = "s_post" => Chosen(s) # Reject
  /\ pc[s] \in {"s_wait", "s_reget"} => AsWanted(s)
  /\ pc[s] = "x_del" => Mine(s)
  /\ phase[s] = "cut" => AsWanted(s) /\ report[s].src = want[s].src
  /\ ~AllowAll /\ ~AllowDefault /\ Mine(s) => Mapped(s)

\* The inductive invariant.
IInv == TypeOK /\ \A s \in Snaps : NameOK(s)

-----------------------------------------------------------------------------
(* Steps of one name.                                                      *)

\* The variables indexed by names have their types.
NamesOK ==
  /\ snap \in [Snaps -> {NoSnap} \union VolumeSnapshots]
  /\ want \in [Snaps -> Wants]
  /\ phase \in [Snaps -> Phases]
  /\ report \in [Snaps -> Reports]
  /\ pc \in [Snaps -> PCs]

\* Only the name s is concerned.
OthersSame(s) ==
  \A t \in Snaps \ {s} :
    /\ snap'[t] = snap[t] /\ want'[t] = want[t] /\ phase'[t] = phase[t]
    /\ report'[t] = report[t] /\ pc'[t] = pc[t]

\* TypeOK, name by name.
LEMMA TypeParts == TypeOK <=> dvs \subseteq Vols /\ NamesOK
  BY DEF TypeOK, NamesOK, PCs, CreatePCs, DeletePCs, Phases, VolumeSnapshots, Reports

\* A step of one name that keeps that name in order keeps the invariant.
LEMMA LocalStep ==
  ASSUME IInv, NEW s \in Snaps, NamesOK', dvs' \subseteq Vols, OthersSame(s), NameOK(s)'
  PROVE  IInv'
  <1>1. ASSUME NEW t \in Snaps PROVE NameOK(t)'
    BY DEF IInv, NameOK, OthersSame, AsWanted, Mine, Exists, Chosen, Mapped
  <1> QED
    BY <1>1, TypeParts DEF IInv, TypeOK, NamesOK, PCs, CreatePCs, DeletePCs, Phases,
       VolumeSnapshots, Reports

\* What a missing snapshot is not.
LEMMA NoSnapDiffers == NoSnap \notin VolumeSnapshots
  BY DEF NoSnap, VolumeSnapshots

\* Going on to another API call changes the handler's position only.
LEMMA GotoMoves ==
  ASSUME NamesOK, NEW s \in Snaps, NEW p \in PCs, Goto(s, p)
  PROVE  /\ phase' = phase /\ report' = report /\ pc' \in [Snaps -> PCs]
         /\ pc'[s] = p /\ \A t \in Snaps \ {s} : pc'[t] = pc[t]
  BY DEF NamesOK, Goto

\* The class the policy chooses is one of the infra cluster or none, and with
\* neither allowAll nor allowDefault one that is grouped with the storage class.
LEMMA ChosenClass ==
  ASSUME NamesOK, NEW s \in Snaps, Chosen(s) # Reject
  PROVE  /\ Chosen(s) \in SnapClasses \union {None}
         /\ ~AllowAll /\ ~AllowDefault =>
              \E i \in DOMAIN Mapping :
                /\ ClassOf[want[s].src] \in Mapping[i].storage
                /\ Chosen(s) \in Mapping[i].snap
  <1> DEFINE class == ClassOf[want[s].src]
             asked == want[s].class
  <1>1. \A x \in MappedClasses(class) :
          \E i \in DOMAIN Mapping : class \in Mapping[i].storage /\ x \in Mapping[i].snap
    BY DEF MappedClasses
  <1>2. MappedClasses(class) \subseteq SnapClasses
    BY <1>1, SnapshotAssumption
  <1>3. \/ Chosen(s) = None /\ (AllowDefault \/ AllowAll)
        \/ Chosen(s) = asked /\ asked \in MappedClasses(class)
    BY SnapshotAssumption DEF Chosen, SnapshotClass
  <1> QED
    BY <1>1, <1>2, <1>3

-----------------------------------------------------------------------------
(* One lemma per action, or per group of actions of one kind.              *)

\* Calls that only read move the handler on.
LEMMA ReadStep ==
  ASSUME IInv, NEW s \in Snaps, NEW p \in PCs, Goto(s, p), UNCHANGED <<infra, want>>,
         p \in CreatePCs => phase[s] = "wanted",
         p \in DeletePCs => phase[s] = "releasing",
         p = "s_post" => Chosen(s) # Reject,
         p \in {"s_wait", "s_reget"} => AsWanted(s),
         p = "x_del" => Mine(s)
  PROVE  IInv'
  <1>0. NamesOK /\ dvs \subseteq Vols /\ NameOK(s)
    BY TypeParts DEF IInv
  <1>1. /\ phase' = phase /\ report' = report /\ pc' \in [Snaps -> PCs]
        /\ pc'[s] = p /\ \A t \in Snaps \ {s} : pc'[t] = pc[t]
    BY <1>0, GotoMoves
  <1>2. NamesOK' /\ dvs' \subseteq Vols /\ OthersSame(s)
    BY <1>0, <1>1 DEF NamesOK, OthersSame, infra
  <1>3. NameOK(s)'
    BY <1>0, <1>1 DEF NameOK, infra, AsWanted, Mine, Exists, Chosen, Mapped
  <1> QED
    BY <1>2, <1>3, LocalStep

\* A snapshot that is as wanted may be reported.
LEMMA RespondStep ==
  ASSUME IInv, NEW s \in Snaps, Respond(s), AsWanted(s), UNCHANGED <<infra, want>>
  PROVE  IInv'
  <1>0. NamesOK /\ dvs \subseteq Vols /\ NameOK(s)
    BY TypeParts DEF IInv
  <1>1. snap[s] \in VolumeSnapshots /\ snap[s].src \in Vols /\ snap[s].ready \in BOOLEAN
    BY <1>0 DEF NamesOK, AsWanted, Mine, Exists, VolumeSnapshots
  <1>2. /\ report' = [report EXCEPT ![s] =
             [src |-> snap[s].src, ready |-> snap[s].ready,
              size |-> IF snap[s].ready THEN Size ELSE 0]]
        /\ [src |-> snap[s].src, ready |-> snap[s].ready,
            size |-> IF snap[s].ready THEN Size ELSE 0] \in Reports
    BY <1>1 DEF Respond, Reports
  <1>3. /\ report' \in [Snaps -> Reports] /\ report'[s].src = snap[s].src
        /\ \A t \in Snaps \ {s} : report'[t] = report[t]
    BY <1>0, <1>2 DEF NamesOK
  <1>4. NamesOK' /\ dvs' \subseteq Vols /\ OthersSame(s)
    BY <1>0, <1>3 DEF NamesOK, OthersSame, Respond, infra, PCs, Phases
  <1>5. NameOK(s)'
    BY <1>0, <1>3 DEF NamesOK, NameOK, infra, AsWanted, Mine, Exists, Mapped, Respond,
       CreatePCs, DeletePCs
  <1> QED
    BY <1>4, <1>5, LocalStep

\* A name without a snapshot ends its DeleteSnapshot, whoever removed it.
LEMMA DeletedStep ==
  ASSUME IInv, NEW s \in Snaps, Deleted(s), UNCHANGED <<dvs, want>>,
         snap' = snap \/ snap' = [snap EXCEPT ![s] = NoSnap]
  PROVE  IInv'
  <1>0. NamesOK /\ dvs \subseteq Vols /\ NameOK(s)
    BY TypeParts DEF IInv
  <1>1. NoReport \in Reports
    BY DEF NoReport, Reports
  <1>2. NamesOK' /\ dvs' \subseteq Vols /\ OthersSame(s)
    BY <1>0, <1>1 DEF NamesOK, OthersSame, Deleted, PCs, Phases
  <1>3. NameOK(s)'
    BY <1>0 DEF NamesOK, NameOK, Mine, Exists, Mapped, Deleted, CreatePCs, DeletePCs
  <1> QED
    BY <1>2, <1>3, LocalStep

\* The snapshot that CreateVolumeSnapshot posts is as wanted and of a mapped class.
LEMMA PostStep ==
  ASSUME IInv, NEW s \in Snaps, pc[s] = "s_post", Post(s), NEW p \in {"s_wait", "idle"},
         Goto(s, p), want' = want
  PROVE  IInv'
  <1>0. NamesOK /\ dvs \subseteq Vols /\ NameOK(s)
    BY TypeParts DEF IInv
  <1> DEFINE new == [src |-> want[s].src, labelled |-> TRUE, class |-> Chosen(s),
                     ready |-> FALSE]
  <1>1. Chosen(s) # Reject /\ phase[s] = "wanted"
    BY <1>0 DEF NameOK, CreatePCs
  <1>2. /\ new \in VolumeSnapshots
        /\ new.src = want[s].src /\ new.labelled /\ new.class = Chosen(s)
    BY <1>0, <1>1, ChosenClass DEF NamesOK, Wants, VolumeSnapshots
  <1>3. snap' = [snap EXCEPT ![s] = new] /\ dvs' = dvs
    BY DEF Post
  <1>4. /\ phase' = phase /\ report' = report /\ pc' \in [Snaps -> PCs]
        /\ pc'[s] = p /\ \A t \in Snaps \ {s} : pc'[t] = pc[t]
    BY <1>0, GotoMoves DEF PCs, CreatePCs
  <1>5. NamesOK' /\ dvs' \subseteq Vols /\ OthersSame(s)
    BY <1>0, <1>2, <1>3, <1>4 DEF NamesOK, OthersSame
  <1>6. snap'[s] = new
    BY <1>0, <1>3 DEF NamesOK
  <1>7. Mine(s)' /\ AsWanted(s)'
    BY <1>2, <1>6, NoSnapDiffers DEF Mine, Exists, AsWanted
  <1>8. ~AllowAll /\ ~AllowDefault => Mapped(s)'
    BY <1>0, <1>1, <1>2, <1>6, ChosenClass DEF Mapped
  <1>9. NameOK(s)'
    BY <1>1, <1>4, <1>7, <1>8 DEF NameOK, CreatePCs, DeletePCs
  <1> QED
    BY <1>5, <1>9, LocalStep

\* Every step of CreateSnapshot, DeleteSnapshot and of their faults.
LEMMA CallStep ==
  ASSUME IInv, NEW s \in Snaps, Handler(s) \/ Fault(s)
  PROVE  IInv'
  <1> USE DEF PCs, CreatePCs, DeletePCs, Fail
  <1>0. NamesOK /\ NameOK(s)
    BY TypeParts DEF IInv
  <1>1. CASE SGet(s)
    BY <1>0, <1>1, ReadStep, RespondStep DEF SGet, NameOK, AsWanted
  <1>2. CASE SSource(s) \/ SGetDV(s)
    BY <1>0, <1>2, ReadStep DEF SSource, SGetDV, NameOK
  <1>3. CASE SClass(s)
    BY <1>0, <1>3, ReadStep DEF SClass, NameOK
  <1>4. CASE SPost(s) \/ SPostLost(s)
    BY <1>0, <1>4, ReadStep, PostStep DEF SPost, SPostLost
  <1>5. CASE SWait(s)
    BY <1>0, <1>5, ReadStep DEF SWait, NameOK
  <1>6. CASE SReget(s)
    BY <1>0, <1>6, ReadStep, RespondStep DEF SReget, NameOK
  <1>7. CASE SWaitTimeout(s) \/ Abort(s)
    BY <1>7, ReadStep DEF SWaitTimeout, Abort
  <1>8. CASE XGet(s)
    BY <1>0, <1>8, ReadStep, DeletedStep DEF XGet, NameOK, infra
  <1>9. CASE XDelete(s)
    BY <1>0, <1>9, ReadStep, DeletedStep DEF XDelete, infra
  <1>10. CASE XDeleteLost(s)
    <2>1. /\ phase' = phase /\ report' = report /\ pc' \in [Snaps -> PCs]
          /\ pc'[s] = "idle" /\ \A t \in Snaps \ {s} : pc'[t] = pc[t]
      BY <1>0, <1>10, GotoMoves DEF XDeleteLost
    <2>2. NamesOK' /\ dvs' \subseteq Vols /\ OthersSame(s)
      BY <1>0, <1>10, <2>1, TypeParts DEF XDeleteLost, NamesOK, OthersSame, IInv
    <2>3. NameOK(s)'
      BY <1>0, <1>10, <2>1 DEF XDeleteLost, NamesOK, NameOK, Mine, Exists
    <2> QED
      BY <2>2, <2>3, LocalStep
  <1> QED
    BY <1>1, <1>2, <1>3, <1>4, <1>5, <1>6, <1>7, <1>8, <1>9, <1>10 DEF Handler, Fault

\* The csi-snapshotter, the infra cluster and other users of the namespace.
LEMMA WorldStep ==
  ASSUME IInv, NEW s \in Snaps,
         \/ COCall(s) \/ COChange(s) \/ CORelease(s) \/ Cut(s)
         \/ \E v \in Vols : Foreign(s, v)
  PROVE  IInv'
  <1>0. NamesOK /\ NameOK(s) /\ dvs \subseteq Vols
    BY TypeParts DEF IInv
  <1>1. CASE COCall(s)
    BY <1>0, <1>1, ReadStep DEF COCall, COCreate, CODelete, PCs, CreatePCs, DeletePCs
  <1>2. CASE COChange(s)
    <2>1. NamesOK' /\ dvs' \subseteq Vols /\ OthersSame(s)
      BY <1>0, <1>2 DEF COChange, NamesOK, OthersSame, infra
    <2>2. NameOK(s)'
      BY <1>0, <1>2 DEF COChange, NamesOK, NameOK, infra, Mine, Exists, Mapped,
         CreatePCs, DeletePCs
    <2> QED
      BY <2>1, <2>2, LocalStep
  <1>3. CASE CORelease(s)
    <2>1. NamesOK' /\ dvs' \subseteq Vols /\ OthersSame(s)
      BY <1>0, <1>3 DEF CORelease, NamesOK, OthersSame, infra, Phases
    <2>2. NameOK(s)'
      BY <1>0, <1>3 DEF CORelease, NamesOK, NameOK, infra, Mine, Exists, Mapped,
         AsWanted, Chosen, CreatePCs, DeletePCs, PCs
    <2> QED
      BY <2>1, <2>2, LocalStep
  <1>4. CASE Cut(s)
    <2>1. snap[s] \in VolumeSnapshots
      BY <1>0, <1>4 DEF Cut, NamesOK, Exists
    <2>2. /\ snap'[s] \in VolumeSnapshots
          /\ snap'[s].src = snap[s].src /\ snap'[s].class = snap[s].class
          /\ snap'[s].labelled = snap[s].labelled
      BY <1>0, <1>4, <2>1 DEF Cut, NamesOK, VolumeSnapshots
    <2>3. NamesOK' /\ dvs' \subseteq Vols /\ OthersSame(s)
      BY <1>0, <1>4, <2>2 DEF Cut, NamesOK, OthersSame
    <2>4. NameOK(s)'
      BY <1>0, <1>4, <2>1, <2>2, NoSnapDiffers
         DEF Cut, NameOK, Mine, Exists, Mapped, AsWanted, Chosen
    <2> QED
      BY <2>3, <2>4, LocalStep
  <1>5. ASSUME NEW v \in Vols, Foreign(s, v) PROVE IInv'
    <2> DEFINE new == [src |-> v, labelled |-> FALSE, class |-> None, ready |-> FALSE]
    <2>1. new \in VolumeSnapshots /\ ~new.labelled
      BY DEF VolumeSnapshots
    <2>2. snap' = [snap EXCEPT ![s] = new] /\ snap'[s] = new /\ ~Exists(s)
      BY <1>0, <1>5 DEF Foreign, NamesOK
    <2>3. NamesOK' /\ dvs' \subseteq Vols /\ OthersSame(s)
      BY <1>0, <1>5, <2>1, <2>2 DEF Foreign, NamesOK, OthersSame
    <2>4. NameOK(s)'
      BY <1>0, <1>5, <2>1, <2>2 DEF Foreign, NameOK, Mine, AsWanted, Chosen
    <2> QED
      BY <2>3, <2>4, LocalStep
  <1> QED
    BY <1>1, <1>2, <1>3, <1>4, <1>5

\* Initially nothing has been asked for or created.
LEMMA InitIInv == Init => IInv
  <1> SUFFICES ASSUME Init PROVE IInv
    OBVIOUS
  <1>1. NoReport \in Reports
    BY DEF NoReport, Reports
  <1>2. TypeOK
    BY <1>1, TypeParts DEF Init, NamesOK, PCs, Phases
  <1>3. ASSUME NEW s \in Snaps PROVE NameOK(s)
    BY DEF Init, NameOK, CreatePCs, DeletePCs, Mine, Exists
  <1> QED
    BY <1>2, <1>3 DEF IInv

\* Every step, of any actor, keeps the invariant.
LEMMA NextIInv == IInv /\ [Next]_vars => IInv'
  <1> SUFFICES ASSUME IInv, [Next]_vars PROVE IInv'
    OBVIOUS
  <1>1. ASSUME NEW v \in Vols, VolumeGone(v) PROVE IInv'
    BY <1>1 DEF VolumeGone, IInv, TypeOK, NameOK, AsWanted, Mine, Exists, Chosen, Mapped
  <1>2. CASE UNCHANGED vars
    BY <1>2 DEF vars, IInv, TypeOK, NameOK, AsWanted, Mine, Exists, Chosen, Mapped
  <1> QED
    BY <1>1, <1>2, CallStep, WorldStep DEF Next

\* The inductive invariant holds in every reachable state.
THEOREM Invariance == Spec => []IInv
  BY InitIInv, NextIInv, PTL DEF Spec

\* Type correctness of CreateSnapshot's and DeleteSnapshot's state.
THEOREM TypeCorrect == Spec => []TypeOK
  <1>1. IInv => TypeOK
    BY DEF IInv
  <1> QED
    BY <1>1, Invariance, PTL

\* A snapshot CreateSnapshot has reported exists, is the driver's and is of the
\* volume asked for, through lost answers, changed requests and foreign objects.
THEOREM Faithful == Spec => []CutIsFaithful
  <1>1. IInv => CutIsFaithful
    BY DEF IInv, NameOK, AsWanted, CutIsFaithful
  <1> QED
    BY <1>1, Invariance, PTL

\* No snapshot of the driver has a class the configuration does not group with
\* the storage class of its volume, for every configuration.
THEOREM PolicyKept == Spec => []ClassIsMapped
  <1>1. IInv => ClassIsMapped
    BY DEF IInv, NameOK, Mapped, ClassIsMapped
  <1> QED
    BY <1>1, Invariance, PTL

\* The step by which a VolumeSnapshot disappears is one of a DeleteSnapshot that
\* has seen the driver's labels on it.
THEOREM ForeignSafe == Spec => ForeignUntouched
  <1>1. IInv /\ [Next]_vars =>
          \A s \in Snaps : Exists(s) /\ ~snap[s].labelled
                             => Exists(s)' /\ ~snap'[s].labelled
    <2> SUFFICES ASSUME IInv, [Next]_vars, NEW s \in Snaps, Exists(s), ~snap[s].labelled
                 PROVE  Exists(s)' /\ ~snap'[s].labelled
      OBVIOUS
    <2>0. NamesOK
      BY TypeParts DEF IInv
    <2>1. ASSUME NEW t \in Snaps, Post(t) \/ \E v \in Vols : Foreign(t, v)
          PROVE  snap'[s] = snap[s]
      BY <2>0, <2>1 DEF Post, Foreign, Exists, NamesOK
    <2>2. ASSUME NEW t \in Snaps, XDelete(t) \/ XDeleteLost(t)
          PROVE  snap'[s] = snap[s]
      BY <2>0, <2>2 DEF XDelete, XDeleteLost, NamesOK, IInv, NameOK, Mine
    <2>3. ASSUME NEW t \in Snaps, Cut(t)
          PROVE  Exists(s)' /\ ~snap'[s].labelled
      <3>1. CASE t = s
        <4>1. snap[s] \in VolumeSnapshots
          BY <2>0 DEF NamesOK, Exists
        <4>2. snap'[s] \in VolumeSnapshots /\ snap'[s].labelled = snap[s].labelled
          BY <2>0, <2>3, <3>1, <4>1 DEF Cut, NamesOK, VolumeSnapshots
        <4> QED
          BY <4>2, NoSnapDiffers DEF Exists
      <3>2. CASE t # s
        BY <2>0, <2>3, <3>2 DEF Cut, NamesOK, Exists
      <3> QED
        BY <3>1, <3>2
    <2>4. ASSUME NEW t \in Snaps, Handler(t) \/ Fault(t) PROVE snap'[s] = snap[s]
      BY <2>1, <2>2, <2>4 DEF Handler, Fault, SGet, SSource, SGetDV, SClass, SPost,
         SPostLost, SWait, SWaitTimeout, SReget, XGet, Abort, infra
    <2>5. ASSUME NEW t \in Snaps, COCall(t) \/ COChange(t) \/ CORelease(t)
          PROVE  snap'[s] = snap[s]
      BY <2>5 DEF COCall, COCreate, CODelete, COChange, CORelease, infra
    <2>6. ASSUME NEW v \in Vols, VolumeGone(v) PROVE snap'[s] = snap[s]
      BY <2>6 DEF VolumeGone
    <2>7. snap'[s] = snap[s] => Exists(s)' /\ ~snap'[s].labelled
      BY DEF Exists
    <2>8. CASE UNCHANGED vars
      BY <2>7, <2>8 DEF vars
    <2> QED
      BY <2>1, <2>3, <2>4, <2>5, <2>6, <2>7, <2>8 DEF Next
  <1> QED
    BY <1>1, Invariance, PTL DEF Spec, ForeignUntouched
=============================================================================
