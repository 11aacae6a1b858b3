------------------------- MODULE NodeServiceProofs -------------------------
(***************************************************************************)
(* Proofs about NodeService for every set of volumes and targets and any   *)
(* number of overlapping calls: no target has more mounts than calls can   *)
(* overlap, and what the handlers promise holds wherever the calls for the *)
(* same object have not been mixed.                                        *)
(***************************************************************************)
EXTENDS NodeService, FiniteSetTheorems, TLAPS

VolPhases == {"none", "staging", "staged", "unstaging"}
TargetPhases == {"none", "publishing", "published", "expanding", "unpublishing"}
ActivePhases == {"staging", "unstaging", "publishing", "expanding", "unpublishing"}
PhasesOf(o) == IF o \in Vols THEN VolPhases ELSE TargetPhases
StepsOf(o) == {"idle"} \union (IF o \in Vols THEN StageSteps ELSE TargetSteps)
AllSteps == {"idle"} \union StageSteps \union TargetSteps

DisksOK ==
  /\ plugged \subseteq Vols /\ data \subseteq Vols
  /\ size \in [Vols -> 1..MaxSize] /\ fs \in [Vols -> 0..MaxSize]
  /\ path \subseteq Targets
  /\ mnt \in [Targets -> Nat]

\* The kubelet waits for a call only while it wants something done.
CallsOK ==
  /\ grow \subseteq Targets /\ mixed \subseteq Objects
  /\ phase \in [Objects -> VolPhases \union TargetPhases]
  /\ cur \in [Objects -> Calls \union {NoCall}]
  /\ pc \in [Objects -> [Calls -> AllSteps]]
  /\ \A o \in Objects :
       /\ phase[o] \in PhasesOf(o)
       /\ cur[o] # NoCall => phase[o] \in ActivePhases
       /\ \A c \in Calls : pc[o][c] \in StepsOf(o)

\* The calls that have found t not mounted and will mount it.
Mounting(t) == {c \in Calls : pc[t][c] \in {"p_path", "p_mount"}}

\* The mounts there are and those to come.
MountsOK ==
  \A t \in Targets : mnt[t] + Cardinality(Mounting(t)) <= Cardinality(Calls)

TypeInv == DisksOK /\ CallsOK /\ MountsOK

-----------------------------------------------------------------------------
(* Type correctness, for any number of overlapping calls.                  *)

\* Sets of calls are finite.
LEMMA CallSets ==
  /\ Cardinality(Calls) \in Nat
  /\ \A t : IsFiniteSet(Mounting(t)) /\ Cardinality(Mounting(t)) \in Nat
              /\ Cardinality(Mounting(t)) <= Cardinality(Calls)
  <1>1. IsFiniteSet(Calls) /\ Cardinality(Calls) \in Nat
    BY NodeAssumption, FS_CardinalityType
  <1>2. ASSUME NEW t
        PROVE  /\ IsFiniteSet(Mounting(t)) /\ Cardinality(Mounting(t)) \in Nat
               /\ Cardinality(Mounting(t)) <= Cardinality(Calls)
    <2>1. Mounting(t) \subseteq Calls
      BY DEF Mounting
    <2> QED
      BY <1>1, <2>1, FS_Subset, FS_CardinalityType
  <1> QED
    BY <1>1, <1>2

\* The same of the next state.
LEMMA CallSetsNext ==
  \A t : IsFiniteSet(Mounting(t)') /\ Cardinality(Mounting(t)') \in Nat
           /\ Cardinality(Mounting(t)') <= Cardinality(Calls)
  <1>1. IsFiniteSet(Calls) /\ Cardinality(Calls) \in Nat
    BY NodeAssumption, FS_CardinalityType
  <1> SUFFICES ASSUME NEW t
        PROVE  /\ IsFiniteSet(Mounting(t)') /\ Cardinality(Mounting(t)') \in Nat
               /\ Cardinality(Mounting(t)') <= Cardinality(Calls)
    OBVIOUS
  <1>2. Mounting(t)' \subseteq Calls
    BY DEF Mounting
  <1> QED
    BY <1>1, <1>2, FS_Subset, FS_CardinalityType

\* The invariant is what TypeOK says and more.
LEMMA TypeInvImplies == TypeInv => TypeOK
  <1> SUFFICES ASSUME TypeInv PROVE TypeOK
    OBVIOUS
  <1>1. ASSUME NEW t \in Targets PROVE mnt[t] \in 0..Cardinality(Calls)
    <2>1. mnt[t] \in Nat /\ mnt[t] + Cardinality(Mounting(t)) <= Cardinality(Calls)
      BY DEF TypeInv, DisksOK, MountsOK
    <2> QED
      BY <2>1, CallSets
  <1>2. mnt \in [Targets -> 0..Cardinality(Calls)]
    BY <1>1 DEF TypeInv, DisksOK
  <1>3. \A t \in Targets : t \in Objects /\ t \notin Vols
    BY NodeAssumption DEF Objects
  <1> QED
    BY <1>2, <1>3 DEF TypeInv, TypeOK, DisksOK, CallsOK, Objects, PhasesOf, StepsOf,
       VolPhases, TargetPhases

\* Where a successful call takes the kubelet.
LEMMA DoneIs ==
  /\ Done["staging"] = "staged" /\ Done["unstaging"] = "none"
  /\ Done["publishing"] = "published" /\ Done["expanding"] = "published"
  /\ Done["unpublishing"] = "none"
  BY DEF Done

\* A call moves on: the object it is for, and no other.
LEMMA GotoMoves ==
  ASSUME CallsOK, NEW o \in Objects, NEW c \in Calls, NEW p \in StepsOf(o), Goto(o, c, p)
  PROVE  /\ CallsOK' /\ phase' = phase /\ cur' = cur /\ grow' = grow /\ mixed' = mixed
         /\ pc'[o][c] = p
         /\ \A d \in Calls \ {c} : pc'[o][d] = pc[o][d]
         /\ \A u \in Objects \ {o} : pc'[u] = pc[u]
  <1>1. p \in AllSteps
    BY DEF StepsOf, AllSteps
  <1>2. /\ pc' = [pc EXCEPT ![o][c] = p] /\ phase' = phase /\ cur' = cur /\ grow' = grow
        /\ mixed' = mixed
    BY DEF Goto, kubelet
  <1>3. /\ pc' \in [Objects -> [Calls -> AllSteps]]
        /\ pc'[o][c] = p
        /\ \A d \in Calls \ {c} : pc'[o][d] = pc[o][d]
        /\ \A u \in Objects \ {o} : pc'[u] = pc[u]
    BY <1>1, <1>2 DEF CallsOK
  <1>4. \A u \in Objects, d \in Calls : pc'[u][d] \in StepsOf(u)
    BY <1>3 DEF CallsOK
  <1> QED
    BY <1>2, <1>3, <1>4 DEF CallsOK

\* A call ends without success.
LEMMA FailMoves ==
  ASSUME CallsOK, NEW o \in Objects, NEW c \in Calls, Fail(o, c)
  PROVE  /\ CallsOK' /\ phase' = phase /\ grow' = grow /\ mixed' = mixed
         /\ pc'[o][c] = "idle" /\ cur'[o] = IF cur[o] = c THEN NoCall ELSE cur[o]
         /\ \A d \in Calls \ {c} : pc'[o][d] = pc[o][d]
         /\ \A u \in Objects \ {o} : pc'[u] = pc[u] /\ cur'[u] = cur[u]
  <1>1. /\ pc' = [pc EXCEPT ![o][c] = "idle"] /\ phase' = phase /\ grow' = grow
        /\ mixed' = mixed
        /\ cur' = [cur EXCEPT ![o] = IF cur[o] = c THEN NoCall ELSE cur[o]]
    BY DEF Fail
  <1>2. /\ cur' \in [Objects -> Calls \union {NoCall}]
        /\ cur'[o] = IF cur[o] = c THEN NoCall ELSE cur[o]
        /\ \A u \in Objects \ {o} : cur'[u] = cur[u]
    BY <1>1 DEF CallsOK
  <1>3. /\ pc' \in [Objects -> [Calls -> AllSteps]]
        /\ pc'[o][c] = "idle"
        /\ \A d \in Calls \ {c} : pc'[o][d] = pc[o][d]
        /\ \A u \in Objects \ {o} : pc'[u] = pc[u]
    BY <1>1 DEF CallsOK, AllSteps
  <1>4. \A u \in Objects, d \in Calls : pc'[u][d] \in StepsOf(u)
    BY <1>3 DEF CallsOK, StepsOf
  <1> QED
    BY <1>1, <1>2, <1>3, <1>4 DEF CallsOK

\* A call succeeds; the kubelet hears of it only while it waits for this one.
LEMMA SucceedMoves ==
  ASSUME CallsOK, NEW o \in Objects, NEW c \in Calls, Succeed(o, c)
  PROVE  /\ CallsOK' /\ grow' \subseteq grow /\ grow \ {o} \subseteq grow'
         /\ pc'[o][c] = "idle" /\ cur'[o] = IF cur[o] = c THEN NoCall ELSE cur[o]
         /\ phase'[o] = IF cur[o] = c THEN Done[phase[o]] ELSE phase[o]
         /\ cur[o] # c \/ phase[o] # "unpublishing" => grow' = grow
         /\ mixed' \subseteq mixed /\ mixed \ {o} \subseteq mixed'
         /\ o \in mixed /\ o \notin mixed' => phase'[o] = "none" /\ Alone(o, c)
         /\ \A d \in Calls \ {c} : pc'[o][d] = pc[o][d]
         /\ \A u \in Objects \ {o} :
              pc'[u] = pc[u] /\ cur'[u] = cur[u] /\ phase'[u] = phase[u]
  <1>1. /\ pc' = [pc EXCEPT ![o][c] = "idle"]
        /\ cur' = [cur EXCEPT ![o] = IF cur[o] = c THEN NoCall ELSE cur[o]]
        /\ phase' = [phase EXCEPT ![o] = IF cur[o] = c THEN Done[phase[o]] ELSE phase[o]]
    BY DEF Succeed
  <1>2. /\ cur' \in [Objects -> Calls \union {NoCall}]
        /\ cur'[o] = IF cur[o] = c THEN NoCall ELSE cur[o]
        /\ \A u \in Objects \ {o} : cur'[u] = cur[u]
    BY <1>1 DEF CallsOK
  <1>3. /\ pc' \in [Objects -> [Calls -> AllSteps]]
        /\ pc'[o][c] = "idle"
        /\ \A d \in Calls \ {c} : pc'[o][d] = pc[o][d]
        /\ \A u \in Objects \ {o} : pc'[u] = pc[u]
    BY <1>1 DEF CallsOK, AllSteps
  <1>4. \A u \in Objects, d \in Calls : pc'[u][d] \in StepsOf(u)
    BY <1>3 DEF CallsOK, StepsOf
  <1>5. c # NoCall
    BY NodeAssumption
  <1>6. /\ phase'[o] = IF cur[o] = c THEN Done[phase[o]] ELSE phase[o]
        /\ \A u \in Objects \ {o} : phase'[u] = phase[u]
    BY <1>1 DEF CallsOK
  <1>7. cur[o] = c => Done[phase[o]] \in PhasesOf(o)
    BY <1>5, DoneIs DEF CallsOK, PhasesOf, VolPhases, TargetPhases, ActivePhases
  <1>8. /\ phase' \in [Objects -> VolPhases \union TargetPhases]
        /\ \A u \in Objects : phase'[u] \in PhasesOf(u)
    <2>1. \A u \in Objects : phase'[u] \in PhasesOf(u)
      BY <1>6, <1>7 DEF CallsOK
    <2> QED
      BY <1>1, <2>1 DEF CallsOK, PhasesOf
  <1>9. /\ grow' \subseteq grow /\ grow \ {o} \subseteq grow'
        /\ cur[o] # c \/ phase[o] # "unpublishing" => grow' = grow
        /\ mixed' \subseteq mixed /\ mixed \ {o} \subseteq mixed'
    BY DEF Succeed
  <1>10. \A u \in Objects : cur'[u] # NoCall => phase'[u] \in ActivePhases
    BY <1>2, <1>6 DEF CallsOK
  <1>11. o \in mixed /\ o \notin mixed' => phase'[o] = "none" /\ Alone(o, c)
    BY <1>6 DEF Succeed
  <1> QED
    BY <1>2, <1>3, <1>4, <1>6, <1>8, <1>9, <1>10, <1>11 DEF CallsOK

\* Mounts stay within the bound as long as no call is about to add one.
LEMMA FewerMounts ==
  ASSUME TypeInv, mnt' \in [Targets -> Nat],
         \A t \in Targets : mnt'[t] <= mnt[t] /\ Mounting(t)' \subseteq Mounting(t)
  PROVE  MountsOK'
  <1> SUFFICES ASSUME NEW t \in Targets
               PROVE  mnt'[t] + Cardinality(Mounting(t)') <= Cardinality(Calls)
    BY DEF MountsOK
  <1>1. Cardinality(Mounting(t)') <= Cardinality(Mounting(t))
    BY CallSets, FS_Subset
  <1>2. mnt[t] + Cardinality(Mounting(t)) <= Cardinality(Calls)
    BY DEF TypeInv, MountsOK
  <1>3. mnt[t] \in Nat /\ mnt'[t] \in Nat
    BY DEF TypeInv, DisksOK
  <1> QED
    BY <1>1, <1>2, <1>3, CallSets, CallSetsNext

\* A call that moves on, but not to a mount, adds no mount to come.
LEMMA QuietMove ==
  ASSUME TypeInv, NEW o \in Objects, NEW c \in Calls,
         \/ Fail(o, c) \/ Succeed(o, c)
         \/ \E p \in StepsOf(o) \ {"p_path", "p_mount"} : Goto(o, c, p)
  PROVE  CallsOK' /\ \A t \in Targets : Mounting(t)' \subseteq Mounting(t)
  <1>0. CallsOK
    BY DEF TypeInv
  <1>1. /\ CallsOK' /\ pc'[o][c] \notin {"p_path", "p_mount"}
        /\ \A d \in Calls \ {c} : pc'[o][d] = pc[o][d]
        /\ \A u \in Objects \ {o} : pc'[u] = pc[u]
    BY <1>0, FailMoves, SucceedMoves, GotoMoves
  <1> QED
    BY <1>1 DEF Mounting, Objects

\* A handler's step keeps the types.
LEMMA HandlerTypes ==
  ASSUME TypeInv, NEW o \in Objects, NEW c \in Calls, Handler(o, c) \/ StepError(o, c)
  PROVE  TypeInv'
  <1>0. DisksOK /\ CallsOK /\ MountsOK
    BY DEF TypeInv
  <1>1. ASSUME UNCHANGED mnt, DisksOK',
               \/ Fail(o, c) \/ Succeed(o, c)
               \/ \E p \in StepsOf(o) \ {"p_path", "p_mount"} : Goto(o, c, p)
        PROVE  TypeInv'
    <2>1. \A t \in Targets : mnt'[t] <= mnt[t]
      BY <1>0, <1>1 DEF DisksOK
    <2>2. mnt' \in [Targets -> Nat]
      BY <1>1 DEF DisksOK
    <2> QED
      BY <1>1, <2>1, <2>2, QuietMove, FewerMounts DEF TypeInv
  <1>2. UNCHANGED node => DisksOK' /\ UNCHANGED mnt
    BY <1>0 DEF node, disks, DisksOK
  <1>3. CASE StepError(o, c)
    BY <1>1, <1>2, <1>3 DEF StepError
  <1>4. CASE o \in Vols
    <2>0. {"idle", "s_mkfs"} \subseteq StepsOf(o) \ {"p_path", "p_mount"}
      BY <1>4 DEF StepsOf, StageSteps
    <2>1. CASE SList(o, c) \/ Unstage(o, c)
      BY <1>1, <1>2, <2>0, <2>1 DEF SList, Unstage
    <2>2. CASE SMkfs(o, c)
      <3>1. DisksOK' /\ UNCHANGED mnt
        BY <1>0, <1>4, <2>2 DEF SMkfs, DisksOK
      <3> QED
        BY <1>1, <2>2, <3>1 DEF SMkfs
    <2> QED
      BY <1>3, <1>4, <2>1, <2>2, NodeAssumption DEF Handler
  <1>5. CASE o \in Targets
    <2>0. /\ TargetSteps \subseteq StepsOf(o) /\ o \notin Vols /\ VolOf[o] \in Vols
          /\ mnt[o] \in Nat
      BY <1>0, <1>5, NodeAssumption DEF StepsOf, DisksOK
    <2>1. CASE PList(o, c) \/ RNeed(o, c) \/ EFind(o, c)
      BY <1>1, <1>2, <2>0, <2>1 DEF PList, RNeed, EFind, TargetSteps
    <2>2. CASE RGrow(o, c)
      <3>1. size[VolOf[o]] \in 0..MaxSize
        BY <1>0, <2>0, NodeAssumption DEF DisksOK
      <3>2. DisksOK' /\ UNCHANGED mnt
        BY <1>0, <2>2, <3>1 DEF RGrow, DisksOK
      <3> QED
        BY <1>1, <2>2, <3>2 DEF RGrow
    <2>3. CASE URemove(o, c)
      <3>1. DisksOK' /\ UNCHANGED mnt
        BY <1>0, <2>3 DEF URemove, DisksOK
      <3> QED
        BY <1>1, <2>3, <3>1 DEF URemove
    <2>4. CASE UUmount(o, c)
      <3>1. mnt' \in [Targets -> Nat] /\ \A t \in Targets : mnt'[t] <= mnt[t]
        <4>1. CASE mnt' = mnt
          BY <1>0, <4>1 DEF DisksOK
        <4>2. CASE mnt' = [mnt EXCEPT ![o] = IF mnt[o] > 0 THEN mnt[o] - 1 ELSE 0]
          <5>1. mnt'[o] \in Nat /\ mnt'[o] <= mnt[o]
            BY <1>0, <1>5, <2>0, <4>2 DEF DisksOK
          <5>2. \A t \in Targets \ {o} : mnt'[t] = mnt[t] /\ mnt[t] \in Nat
            BY <1>0, <4>2 DEF DisksOK
          <5>3. mnt' \in [Targets -> Nat]
            BY <1>0, <4>2, <5>1, <5>2 DEF DisksOK
          <5> QED
            BY <5>1, <5>2, <5>3
        <4> QED
          BY <2>4, <4>1, <4>2 DEF UUmount
      <3>2. DisksOK'
        BY <1>0, <2>4, <3>1 DEF UUmount, DisksOK, disks
      <3>3. "u_remove" \in StepsOf(o) \ {"p_path", "p_mount"}
        BY <2>0 DEF TargetSteps
      <3>4. CallsOK' /\ \A t \in Targets : Mounting(t)' \subseteq Mounting(t)
        BY <2>4, <3>3, QuietMove DEF UUmount
      <3> QED
        BY <3>1, <3>2, <3>4, FewerMounts DEF TypeInv
    <2>5. CASE PCheck(o, c)
      <3>1. CASE mnt[o] # 0
        BY <1>1, <1>2, <2>0, <2>5, <3>1 DEF PCheck, Mounted, TargetSteps
      <3>2. CASE mnt[o] = 0
        <4>1. Goto(o, c, "p_path") /\ DisksOK' /\ mnt' = mnt
          BY <1>2, <2>5, <3>2 DEF PCheck
        <4>2. CallsOK' /\ \A u \in Objects \ {o} : pc'[u] = pc[u]
          BY <1>0, <2>0, <4>1, GotoMoves DEF TargetSteps
        <4>3. ASSUME NEW t \in Targets
              PROVE  mnt'[t] + Cardinality(Mounting(t)') <= Cardinality(Calls)
          <5>1. CASE t = o
            BY <3>2, <4>1, <5>1, CallSets, CallSetsNext
          <5>2. CASE t # o
            <6>1. Mounting(t)' = Mounting(t)
              BY <4>2, <5>2 DEF Mounting, Objects
            <6> QED
              BY <1>0, <4>1, <6>1 DEF MountsOK
          <5> QED
            BY <5>1, <5>2
        <4> QED
          BY <4>1, <4>2, <4>3 DEF TypeInv, MountsOK
      <3> QED
        BY <3>1, <3>2
    <2>6. CASE PPath(o, c)
      <3>1. Goto(o, c, "p_mount") /\ mnt' = mnt /\ DisksOK' /\ pc[o][c] = "p_path"
        BY <1>0, <1>5, <2>6 DEF PPath, DisksOK, disks
      <3>2. /\ CallsOK' /\ \A u \in Objects \ {o} : pc'[u] = pc[u]
            /\ \A d \in Calls \ {c} : pc'[o][d] = pc[o][d]
        BY <1>0, <2>0, <3>1, GotoMoves DEF TargetSteps
      <3>3. \A t \in Targets : Mounting(t)' \subseteq Mounting(t)
        BY <3>1, <3>2 DEF Mounting, Objects
      <3>4. mnt' \in [Targets -> Nat] /\ \A t \in Targets : mnt'[t] <= mnt[t]
        BY <1>0, <3>1 DEF DisksOK
      <3> QED
        BY <3>1, <3>2, <3>3, <3>4, FewerMounts DEF TypeInv
    <2>7. CASE PMount(o, c)
      <3>1. CASE mnt' = mnt /\ Fail(o, c)
        <4>1. DisksOK'
          BY <1>0, <2>7, <3>1 DEF PMount, DisksOK, disks
        <4> QED
          BY <1>1, <3>1, <4>1
      <3>2. CASE mnt' = [mnt EXCEPT ![o] = mnt[o] + 1] /\ Mounted(o, c)
        <4>1. "r_need" \in StepsOf(o) /\ pc[o][c] = "p_mount"
          BY <2>0, <2>7 DEF PMount, TargetSteps
        <4>2. /\ CallsOK' /\ \A u \in Objects \ {o} : pc'[u] = pc[u]
              /\ \A d \in Calls \ {c} : pc'[o][d] = pc[o][d]
              /\ pc'[o][c] \notin {"p_path", "p_mount"}
          BY <1>0, <3>2, <4>1, GotoMoves, SucceedMoves DEF Mounted
        <4>3. DisksOK'
          <5>1. mnt[o] + 1 \in Nat
            BY <2>0
          <5>2. mnt' \in [Targets -> Nat]
            BY <1>0, <3>2, <5>1 DEF DisksOK
          <5> QED
            BY <1>0, <2>7, <5>2 DEF PMount, DisksOK, disks
        <4>4. ASSUME NEW t \in Targets
              PROVE  mnt'[t] + Cardinality(Mounting(t)') <= Cardinality(Calls)
          <5>0. mnt[t] \in Nat /\ mnt[t] + Cardinality(Mounting(t)) <= Cardinality(Calls)
            BY <1>0 DEF DisksOK, MountsOK
          <5>1. CASE t = o
            <6>1. Mounting(o)' = Mounting(o) \ {c} /\ c \in Mounting(o)
              BY <4>1, <4>2 DEF Mounting
            <6>2. Cardinality(Mounting(o)') = Cardinality(Mounting(o)) - 1
              BY <6>1, CallSets, FS_RemoveElement
            <6>3. mnt'[o] = mnt[o] + 1
              BY <1>0, <1>5, <3>2 DEF DisksOK
            <6> QED
              BY <5>0, <5>1, <6>2, <6>3, CallSets
          <5>2. CASE t # o
            <6>1. Mounting(t)' = Mounting(t) /\ mnt'[t] = mnt[t]
              BY <1>0, <3>2, <4>2, <5>2 DEF Mounting, Objects, DisksOK
            <6> QED
              BY <5>0, <6>1
          <5> QED
            BY <5>1, <5>2
        <4> QED
          BY <4>2, <4>3, <4>4 DEF TypeInv, MountsOK
      <3> QED
        BY <2>7, <3>1, <3>2 DEF PMount
    <2> QED
      BY <1>3, <2>0, <2>1, <2>2, <2>3, <2>4, <2>5, <2>6, <2>7 DEF Handler
  <1> QED
    BY <1>4, <1>5 DEF Objects

\* The kubelet, the fault steps and the world keep the types.
LEMMA OtherTypes ==
  ASSUME TypeInv,
         \/ \E o \in Objects :
              (\E c \in Calls : KubeletCall(o, c)) \/ KubeletDecide(o) \/ Abandon(o)
         \/ Crash
         \/ \E v \in Vols : DiskAppears(v) \/ DiskLeaves(v) \/ DiskGrows(v)
         \/ \E t \in Targets : PodWrites(t) \/ KubeletExpand(t)
  PROVE  TypeInv'
  <1>0. DisksOK /\ CallsOK /\ MountsOK
    BY DEF TypeInv
  <1>1. ASSUME DisksOK', CallsOK', mnt' = mnt,
               \A t \in Targets : Mounting(t)' \subseteq Mounting(t)
        PROVE  TypeInv'
    <2>1. mnt' \in [Targets -> Nat] /\ \A t \in Targets : mnt'[t] <= mnt[t]
      BY <1>0, <1>1 DEF DisksOK
    <2> QED
      BY <1>1, <2>1, FewerMounts DEF TypeInv
  <1>2. UNCHANGED node => DisksOK' /\ mnt' = mnt
    BY <1>0 DEF node, disks, DisksOK
  <1>3. pc' = pc => \A t \in Targets : Mounting(t)' \subseteq Mounting(t)
    BY DEF Mounting
  <1>4. ASSUME NEW o \in Objects, NEW c \in Calls, KubeletCall(o, c) PROVE TypeInv'
    <2>1. PICK first \in {"s_list", "x_done", "p_list", "e_find", "u_umount"} :
            /\ Call(o, c, first) /\ first \in StepsOf(o) /\ phase[o] \in ActivePhases
      <3>1. phase[o] \in PhasesOf(o)
        BY <1>0 DEF CallsOK
      <3> QED
        BY <1>4, <3>1 DEF KubeletCall, PhasesOf, StepsOf, VolPhases, TargetPhases,
           ActivePhases, StageSteps, TargetSteps
    <2>2. /\ cur' = [cur EXCEPT ![o] = c] /\ pc' = [pc EXCEPT ![o][c] = first]
          /\ phase' = phase /\ grow' = grow /\ UNCHANGED node /\ mixed' \subseteq Objects
      BY <1>0, <2>1 DEF Call, CallsOK
    <2>3. /\ pc' \in [Objects -> [Calls -> AllSteps]]
          /\ pc'[o][c] = first
          /\ \A d \in Calls \ {c} : pc'[o][d] = pc[o][d]
          /\ \A u \in Objects \ {o} : pc'[u] = pc[u]
      BY <1>0, <2>1, <2>2 DEF CallsOK, AllSteps, StepsOf
    <2>4. \A u \in Objects, d \in Calls : pc'[u][d] \in StepsOf(u)
      BY <1>0, <2>1, <2>3 DEF CallsOK
    <2>5. CallsOK'
      BY <1>0, <2>1, <2>2, <2>3, <2>4 DEF CallsOK
    <2>6. \A t \in Targets : Mounting(t)' \subseteq Mounting(t)
      BY <2>1, <2>3 DEF Mounting, Objects
    <2> QED
      BY <1>1, <1>2, <2>2, <2>5, <2>6
  <1>5. ASSUME NEW o \in Objects, NEW next \in PhasesOf(o), Decide(o, next),
               grow' \subseteq grow
        PROVE  TypeInv'
    <2>1. /\ cur[o] = NoCall /\ phase' = [phase EXCEPT ![o] = next]
          /\ cur' = cur /\ pc' = pc /\ mixed' = mixed /\ UNCHANGED node
      BY <1>5 DEF Decide
    <2>2. CallsOK'
      BY <1>0, <1>5, <2>1 DEF CallsOK, PhasesOf
    <2> QED
      BY <1>1, <1>2, <1>3, <2>1, <2>2
  <1>6. ASSUME NEW o \in Objects, KubeletDecide(o) PROVE TypeInv'
    BY <1>5, <1>6, NodeAssumption DEF KubeletDecide, PhasesOf, VolPhases, TargetPhases
  <1>7. ASSUME NEW t \in Targets, KubeletExpand(t) PROVE TypeInv'
    BY <1>5, <1>7, NodeAssumption DEF KubeletExpand, PhasesOf, TargetPhases, Objects
  <1>8. ASSUME NEW o \in Objects, Abandon(o) PROVE TypeInv'
    <2>1. CallsOK' /\ pc' = pc /\ UNCHANGED node
      BY <1>0, <1>8 DEF Abandon, CallsOK
    <2> QED
      BY <1>1, <1>2, <1>3, <2>1
  <1>9. CASE Crash
    <2>1. CallsOK' /\ UNCHANGED node
      BY <1>0, <1>9 DEF Crash, CallsOK, AllSteps, StepsOf
    <2>2. \A t \in Targets : Mounting(t)' \subseteq Mounting(t)
      BY <1>9 DEF Crash, Mounting, Objects
    <2> QED
      BY <1>1, <1>2, <2>1, <2>2
  <1>10. ASSUME NEW v \in Vols, DiskAppears(v) \/ DiskLeaves(v) \/ DiskGrows(v)
         PROVE  TypeInv'
    <2>1. pc' = pc /\ mnt' = mnt /\ phase' = phase /\ cur' = cur /\ mixed' = mixed
      BY <1>10 DEF DiskAppears, DiskLeaves, DiskGrows, kubelet
    <2>2. grow' \subseteq Targets
      BY <1>0, <1>10 DEF DiskAppears, DiskLeaves, DiskGrows, kubelet, CallsOK, TargetsOf
    <2>3. CallsOK'
      BY <1>0, <2>1, <2>2 DEF CallsOK
    <2>4. size' \in [Vols -> 1..MaxSize]
      BY <1>0, <1>10, NodeAssumption DEF DiskAppears, DiskLeaves, DiskGrows, DisksOK
    <2>5. DisksOK'
      BY <1>0, <1>10, <2>4 DEF DiskAppears, DiskLeaves, DiskGrows, DisksOK
    <2> QED
      BY <1>1, <1>3, <2>1, <2>3, <2>5
  <1>11. ASSUME NEW t \in Targets, PodWrites(t) PROVE TypeInv'
    <2>1. pc' = pc /\ mnt' = mnt /\ CallsOK'
      BY <1>0, <1>11 DEF PodWrites, kubelet, CallsOK
    <2>2. DisksOK'
      BY <1>0, <1>11, NodeAssumption DEF PodWrites, DisksOK
    <2> QED
      BY <1>1, <1>3, <2>1, <2>2
  <1> QED
    BY <1>4, <1>6, <1>7, <1>8, <1>9, <1>10, <1>11

\* The types are inductive.
LEMMA NextTypes == TypeInv /\ [Next]_vars => TypeInv'
  <1>1. TypeInv /\ UNCHANGED vars => TypeInv'
    BY DEF TypeInv, DisksOK, CallsOK, MountsOK, Mounting, vars
  <1> QED
    BY <1>1, HandlerTypes, OtherTypes DEF Next, Fault

\* Nothing is mounted at first.
LEMMA InitTypes == Init => TypeInv
  <1> SUFFICES ASSUME Init PROVE TypeInv
    OBVIOUS
  <1>1. DisksOK
    BY NodeAssumption DEF Init, DisksOK
  <1>2. CallsOK
    BY DEF Init, CallsOK, AllSteps, StepsOf, PhasesOf, VolPhases, TargetPhases
  <1>3. ASSUME NEW t \in Targets
        PROVE  mnt[t] + Cardinality(Mounting(t)) <= Cardinality(Calls)
    <2>1. mnt[t] = 0
      BY DEF Init
    <2> QED
      BY <2>1, CallSets
  <1> QED
    BY <1>1, <1>2, <1>3 DEF TypeInv, MountsOK

\* Type correctness of the node service: at no time, whatever is retried, abandoned
\* or killed, are more mounts stacked on a target than calls can overlap.
THEOREM TypeCorrect == Spec => []TypeOK
  BY InitTypes, NextTypes, TypeInvImplies, PTL DEF Spec


-----------------------------------------------------------------------------
(* What the handlers promise, wherever calls have not been mixed.          *)

PSteps == {"p_list", "p_check", "p_path", "p_mount"}
RSteps == {"r_need", "r_grow"}
USteps == {"u_umount", "u_remove"}

\* No two calls for o run.
Single(o) ==
  \A c, d \in Calls : pc[o][c] # "idle" /\ pc[o][d] # "idle" => c = d

\* What holds of every call for t, mixed or not: the one the kubelet waits for is
\* the one it wants, and a file system about to be resized is there.
CallOK(t, c) ==
  /\ cur[t] = c =>
       /\ pc[t][c] \in PSteps => phase[t] = "publishing"
       /\ pc[t][c] \in RSteps => phase[t] \in {"publishing", "expanding"}
       /\ pc[t][c] = "e_find" => phase[t] = "expanding"
       /\ pc[t][c] \in USteps => phase[t] = "unpublishing"
  /\ pc[t][c] \in RSteps => VolOf[t] \notin Block /\ fs[VolOf[t]] # 0

\* What a call for t that runs alone knows at each of its steps. The kubelet may
\* have given up on it and gone on to unpublish.
StepOK(t, c) ==
  /\ pc[t][c] \in PSteps => phase[t] \in {"publishing", "unpublishing"}
  /\ pc[t][c] \in {"p_path", "p_mount"} => mnt[t] = 0
  /\ pc[t][c] \in RSteps =>
       mnt[t] = 1 /\ phase[t] \in {"publishing", "expanding", "unpublishing"}
  /\ pc[t][c] = "e_find" => phase[t] \in {"expanding", "unpublishing"}
  /\ pc[t][c] \in USteps => phase[t] = "unpublishing"
  /\ pc[t][c] = "u_remove" => mnt[t] = 0

\* What the kubelet's view of t says of its mount, its path and its file system.
ShapeOK(t) ==
  /\ mnt[t] \in {0, 1}
  /\ phase[t] = "none" => mnt[t] = 0 /\ t \notin path
  /\ phase[t] \in {"published", "expanding"} => mnt[t] = 1
  /\ phase[t] = "published" /\ t \notin grow /\ VolOf[t] \notin Block =>
       fs[VolOf[t]] = size[VolOf[t]]

TargetOK(t) ==
  /\ mnt[t] > 0 => VolOf[t] \in Block \/ fs[VolOf[t]] # 0
  /\ \A c \in Calls : CallOK(t, c)
  /\ t \notin mixed => ShapeOK(t) /\ Single(t) /\ \A c \in Calls : StepOK(t, c)

\* A volume with data has a file system; one that a single call is about to format
\* has none.
VolOK(v) ==
  /\ fs[v] <= size[v]
  /\ v \in data /\ v \notin Block => fs[v] # 0
  /\ \A c \in Calls : pc[v][c] = "s_mkfs" => v \notin Block
  /\ v \notin mixed => Single(v) /\ \A c \in Calls : pc[v][c] = "s_mkfs" => fs[v] = 0

\* The inductive invariant.
IInv == TypeInv /\ (\A v \in Vols : VolOK(v)) /\ (\A t \in Targets : TargetOK(t))

\* What a step may destroy: data of volumes for which calls have overlapped.
LossOK ==
  \A v \in data : v \in data' \/ mixed \intersect ({v} \union TargetsOf(v)) # {}

\* A step leaves everything but o alone, as far as the kubelet and its calls go.
Others(o) ==
  \A u \in Objects \ {o} :
    /\ phase'[u] = phase[u] /\ cur'[u] = cur[u] /\ pc'[u] = pc[u]
    /\ u \in mixed' <=> u \in mixed

\* What the current state says of a target and its volume.
LEMMA AtTarget ==
  ASSUME IInv, NEW t \in Targets
  PROVE  /\ DisksOK /\ CallsOK /\ TargetOK(t) /\ t \in Objects /\ t \notin Vols
         /\ VolOf[t] \in Vols /\ VolOf[t] \in Objects /\ VolOK(VolOf[t])
         /\ size[VolOf[t]] \in Nat \ {0} /\ fs[VolOf[t]] \in Nat /\ mnt[t] \in Nat
         /\ fs[VolOf[t]] <= size[VolOf[t]]
         /\ phase[t] \in TargetPhases /\ TargetSteps \subseteq StepsOf(t)
         /\ \A c \in Calls : pc[t][c] \in {"idle"} \union TargetSteps
         /\ t \notin mixed => \A c \in Calls :
              pc[t][c] # "idle" => phase[t] \notin {"none", "published"}
  <1>1. DisksOK /\ CallsOK /\ TargetOK(t) /\ t \in Objects /\ t \notin Vols
    BY NodeAssumption DEF IInv, TypeInv, Objects
  <1>2. VolOf[t] \in Vols /\ VolOf[t] \in Objects /\ VolOK(VolOf[t])
    BY NodeAssumption DEF IInv, Objects
  <1>3. size[VolOf[t]] \in Nat \ {0} /\ fs[VolOf[t]] \in Nat /\ mnt[t] \in Nat
    BY <1>1, <1>2 DEF DisksOK
  <1>4. \A c \in Calls : pc[t][c] \in {"idle"} \union TargetSteps
    BY <1>1 DEF CallsOK, StepsOf
  <1>5. t \notin mixed => \A c \in Calls :
          pc[t][c] # "idle" => phase[t] \notin {"none", "published"}
    BY <1>1, <1>4 DEF TargetOK, StepOK, TargetSteps, PSteps, RSteps, USteps
  <1>6. phase[t] \in TargetPhases /\ TargetSteps \subseteq StepsOf(t)
    BY <1>1 DEF CallsOK, PhasesOf, StepsOf
  <1>7. fs[VolOf[t]] <= size[VolOf[t]]
    BY <1>2 DEF VolOK
  <1> QED
    BY <1>1, <1>2, <1>3, <1>4, <1>5, <1>6, <1>7

\* A step that concerns one target, and at most fills its volume's disk, keeps the
\* invariant if it keeps that target in order.
LEMMA TargetLocal ==
  ASSUME IInv, NEW t \in Targets, TypeInv', size' = size, data' \subseteq data,
         \/ fs' = fs
         \/ /\ fs[VolOf[t]] # 0
            /\ fs' = [fs EXCEPT ![VolOf[t]] = size[VolOf[t]]],
         Others(t),
         \A u \in Targets \ {t} :
           /\ mnt'[u] = mnt[u] /\ (u \in path' <=> u \in path)
           /\ u \in grow' <=> u \in grow,
         TargetOK(t)'
  PROVE  IInv'
  <1>1. ASSUME NEW v \in Vols
        PROVE  /\ v # t /\ v \in Objects /\ size[v] \in Nat \ {0} /\ fs[v] \in Nat
               /\ fs'[v] = fs[v] \/ (fs'[v] = size[v] /\ fs[v] # 0)
    <2>1. v # t /\ v \in Objects
      BY NodeAssumption DEF Objects
    <2> QED
      BY <2>1 DEF IInv, TypeInv, DisksOK
  <1>2. ASSUME NEW v \in Vols PROVE VolOK(v)'
    <2>0. VolOK(v)
      BY DEF IInv
    <2>1. phase'[v] = phase[v] /\ pc'[v] = pc[v] /\ (v \in mixed' <=> v \in mixed)
      BY <1>1 DEF Others
    <2>2. fs'[v] <= size'[v]
      BY <1>1, <2>0 DEF VolOK
    <2>3. v \in data' /\ v \notin Block => fs'[v] # 0
      BY <1>1, <2>0 DEF VolOK
    <2>4. fs[v] = 0 => fs'[v] = 0
      BY <1>1
    <2> QED
      BY <2>0, <2>1, <2>2, <2>3, <2>4 DEF VolOK, Single
  <1>3. ASSUME NEW u \in Targets \ {t} PROVE TargetOK(u)'
    <2>0. TargetOK(u) /\ u \in Objects /\ VolOf[u] \in Vols /\ VolOK(VolOf[u])
      BY NodeAssumption DEF IInv, Objects
    <2>1. /\ phase'[u] = phase[u] /\ cur'[u] = cur[u] /\ pc'[u] = pc[u]
          /\ mnt'[u] = mnt[u] /\ (u \in path' <=> u \in path)
          /\ (u \in grow' <=> u \in grow) /\ (u \in mixed' <=> u \in mixed)
      BY <2>0 DEF Others
    <2>2. /\ fs[VolOf[u]] # 0 => fs'[VolOf[u]] # 0
          /\ fs[VolOf[u]] = size[VolOf[u]] => fs'[VolOf[u]] = size'[VolOf[u]]
      BY <1>1, <2>0
    <2>3. \A c \in Calls : CallOK(u, c)'
      BY <2>0, <2>1, <2>2 DEF TargetOK, CallOK
    <2>4. u \notin mixed => ShapeOK(u)' /\ Single(u)' /\ \A c \in Calls : StepOK(u, c)'
      BY <2>0, <2>1, <2>2 DEF TargetOK, ShapeOK, Single, StepOK
    <2> QED
      BY <2>0, <2>1, <2>2, <2>3, <2>4 DEF TargetOK
  <1> QED
    BY <1>2, <1>3 DEF IInv

\* A step that concerns one volume, and at most formats it, keeps the invariant if
\* it keeps that volume in order.
LEMMA VolLocal ==
  ASSUME IInv, NEW v \in Vols, TypeInv', size' = size, path' = path, mnt' = mnt,
         grow' = grow, data' \subseteq data,
         fs' = fs \/ fs' = [fs EXCEPT ![v] = size[v]],
         Others(v), VolOK(v)'
  PROVE  IInv'
  <1>0. \A u \in Vols : /\ size[u] \in Nat \ {0} /\ fs[u] \in Nat
                        /\ fs'[u] = fs[u] \/ (u = v /\ fs'[u] = size[u])
    BY DEF IInv, TypeInv, DisksOK
  <1>1. ASSUME NEW u \in Vols \ {v} PROVE VolOK(u)'
    <2>0. VolOK(u) /\ u \in Objects \ {v}
      BY DEF IInv, Objects
    <2>1. fs'[u] = fs[u] /\ pc'[u] = pc[u] /\ (u \in mixed' <=> u \in mixed)
      BY <1>0, <2>0 DEF Others
    <2> QED
      BY <2>0, <2>1 DEF VolOK, Single
  <1>2. ASSUME NEW t \in Targets PROVE TargetOK(t)'
    <2>0. TargetOK(t) /\ t \in Objects \ {v} /\ VolOf[t] \in Vols
      BY NodeAssumption DEF IInv, Objects
    <2>1. /\ phase'[t] = phase[t] /\ cur'[t] = cur[t] /\ pc'[t] = pc[t]
          /\ (t \in mixed' <=> t \in mixed)
      BY <2>0 DEF Others
    <2>2. /\ fs[VolOf[t]] # 0 => fs'[VolOf[t]] # 0
          /\ fs[VolOf[t]] = size[VolOf[t]] => fs'[VolOf[t]] = size'[VolOf[t]]
      BY <1>0, <2>0
    <2>3. \A c \in Calls : CallOK(t, c)'
      BY <2>0, <2>1, <2>2 DEF TargetOK, CallOK
    <2>4. t \notin mixed => ShapeOK(t)' /\ Single(t)' /\ \A c \in Calls : StepOK(t, c)'
      BY <2>0, <2>1, <2>2 DEF TargetOK, ShapeOK, Single, StepOK
    <2> QED
      BY <2>0, <2>1, <2>2, <2>3, <2>4 DEF TargetOK
  <1> QED
    BY <1>1, <1>2 DEF IInv

\* A running call for a target moves on. If no calls are mixed after its step, none
\* ran beside it, so that what it knows itself is all there is to know.
LEMMA TargetMoves ==
  ASSUME IInv, TypeInv', NEW t \in Targets, NEW c \in Calls, pc[t][c] # "idle",
         size' = size, data' \subseteq data,
         \/ fs' = fs
         \/ /\ fs[VolOf[t]] # 0
            /\ fs' = [fs EXCEPT ![VolOf[t]] = size[VolOf[t]]],
         \A u \in Targets \ {t} : mnt'[u] = mnt[u] /\ (u \in path' <=> u \in path),
         Fail(t, c) \/ Succeed(t, c) \/ \E p \in TargetSteps : Goto(t, c, p),
         mnt'[t] > 0 => VolOf[t] \in Block \/ fs'[VolOf[t]] # 0,
         CallOK(t, c)',
         t \notin mixed' => ShapeOK(t)' /\ StepOK(t, c)'
  PROVE  IInv'
  <1>0. /\ DisksOK /\ CallsOK /\ TargetOK(t) /\ t \in Objects /\ VolOf[t] \in Vols
        /\ TargetSteps \subseteq StepsOf(t) /\ size[VolOf[t]] \in Nat \ {0}
    BY AtTarget
  <1>1. /\ \A d \in Calls \ {c} : pc'[t][d] = pc[t][d]
        /\ \A u \in Objects \ {t} :
             pc'[u] = pc[u] /\ cur'[u] = cur[u] /\ phase'[u] = phase[u]
        /\ grow' \subseteq grow /\ grow \ {t} \subseteq grow'
        /\ mixed' \subseteq mixed /\ mixed \ {t} \subseteq mixed'
        /\ t \in mixed /\ t \notin mixed' => Alone(t, c)
    BY <1>0, FailMoves, SucceedMoves, GotoMoves
  <1>2. \A d \in Calls \ {c} : cur'[t] = d => cur[t] = d /\ phase'[t] = phase[t]
    BY <1>0, FailMoves, SucceedMoves, GotoMoves, NodeAssumption
  <1>3. Others(t)
    BY <1>1 DEF Others
  <1>4. fs[VolOf[t]] # 0 => fs'[VolOf[t]] # 0
    BY <1>0 DEF DisksOK
  <1>5. \A d \in Calls \ {c} : CallOK(t, d)'
    BY <1>0, <1>1, <1>2, <1>4 DEF TargetOK, CallOK
  <1>6. t \notin mixed' => \A d \in Calls \ {c} : pc'[t][d] = "idle"
    <2>1. t \notin mixed => \A d \in Calls \ {c} : pc[t][d] = "idle"
      BY <1>0 DEF TargetOK, Single
    <2> QED
      BY <1>1, <2>1 DEF Alone
  <1>7. t \notin mixed' => Single(t)' /\ \A d \in Calls : StepOK(t, d)'
    <2>1. \A d \in Calls : pc'[t][d] = "idle" => StepOK(t, d)'
      BY DEF StepOK, PSteps, RSteps, USteps
    <2>2. t \notin mixed' => Single(t)'
      BY <1>6 DEF Single
    <2> QED
      BY <1>6, <2>1, <2>2
  <1>8. TargetOK(t)'
    BY <1>5, <1>7 DEF TargetOK
  <1> QED
    BY <1>1, <1>3, <1>8, TargetLocal

\* A call for a target fails, or goes on with what its next step requires; the disks
\* and the mounts stay.
LEMMA TargetReadStep ==
  ASSUME IInv, TypeInv', NEW t \in Targets, NEW c \in Calls, pc[t][c] # "idle",
         UNCHANGED <<size, fs, mnt>>, data' \subseteq data,
         \A u \in Targets \ {t} : u \in path' <=> u \in path,
         \/ Fail(t, c)
         \/ \E p \in TargetSteps :
              Goto(t, c, p) /\ CallOK(t, c)' /\ (t \notin mixed => StepOK(t, c)')
  PROVE  IInv'
  <1>0. /\ DisksOK /\ CallsOK /\ TargetOK(t) /\ t \in Objects
        /\ TargetSteps \subseteq StepsOf(t)
        /\ t \notin mixed => phase[t] \notin {"none", "published"}
    BY AtTarget
  <1>1. phase' = phase /\ grow' = grow /\ mixed' = mixed
    BY <1>0, FailMoves, GotoMoves
  <1>2. CallOK(t, c)' /\ (t \notin mixed => StepOK(t, c)')
    <2>1. CASE Fail(t, c)
      <3>1. pc'[t][c] = "idle"
        BY <1>0, <2>1, FailMoves
      <3> QED
        BY <3>1 DEF StepOK, CallOK, PSteps, RSteps, USteps
    <2> QED
      BY <2>1
  <1>3. t \notin mixed' => ShapeOK(t)'
    BY <1>0, <1>1 DEF TargetOK, ShapeOK
  <1>4. mnt'[t] > 0 => VolOf[t] \in Block \/ fs'[VolOf[t]] # 0
    BY <1>0 DEF TargetOK
  <1> QED
    BY <1>1, <1>2, <1>3, <1>4, TargetMoves

\* A publish or an expansion succeeds: where the kubelet hears of it, the volume is
\* mounted and, unless it is a block volume, fills its disk.
LEMMA TargetDoneStep ==
  ASSUME IInv, TypeInv', NEW t \in Targets, NEW c \in Calls,
         pc[t][c] \in {"p_check", "p_mount", "r_need", "r_grow", "e_find"},
         Succeed(t, c), size' = size, data' = data, path' = path,
         \A u \in Targets \ {t} : mnt'[u] = mnt[u],
         \/ fs' = fs
         \/ /\ fs[VolOf[t]] # 0
            /\ fs' = [fs EXCEPT ![VolOf[t]] = size[VolOf[t]]],
         mnt'[t] > 0 => VolOf[t] \in Block \/ fs'[VolOf[t]] # 0,
         t \notin mixed => /\ mnt'[t] \in {0, 1}
                           /\ cur[t] = c \/ phase[t] = "expanding" => mnt'[t] = 1,
         t \notin mixed /\ cur[t] = c =>
           VolOf[t] \in Block \/ fs'[VolOf[t]] = size[VolOf[t]]
  PROVE  IInv'
  <1>0. /\ CallsOK /\ TargetOK(t) /\ t \in Objects /\ phase[t] \in TargetPhases
        /\ t \notin mixed => phase[t] \notin {"none", "published"}
    BY AtTarget
  <1>1. /\ pc'[t][c] = "idle"
        /\ phase'[t] = IF cur[t] = c THEN Done[phase[t]] ELSE phase[t]
        /\ t \in mixed /\ t \notin mixed' => phase'[t] = "none"
        /\ t \in mixed' => t \in mixed
    BY <1>0, SucceedMoves
  <1>2. cur[t] = c => phase'[t] = "published"
    <2>1. cur[t] = c => phase[t] \in {"publishing", "expanding"}
      BY <1>0 DEF TargetOK, CallOK, PSteps, RSteps
    <2> QED
      BY <1>1, <2>1, DoneIs
  <1>3. t \notin mixed' => t \notin mixed
    <2>1. ASSUME t \in mixed, t \notin mixed' PROVE FALSE
      <3>1. cur[t] = c
        BY <2>1 DEF Succeed
      <3> QED
        BY <1>1, <1>2, <2>1, <3>1
    <2> QED
      BY <2>1
  <1>4. t \notin mixed => ShapeOK(t)'
    BY <1>0, <1>1, <1>2 DEF ShapeOK
  <1>5. CallOK(t, c)' /\ StepOK(t, c)'
    BY <1>1 DEF CallOK, StepOK, PSteps, RSteps, USteps
  <1> QED
    BY <1>3, <1>4, <1>5, TargetMoves

\* Every step of NodePublishVolume, NodeExpandVolume and NodeUnpublishVolume. Only
\* RemoveAll on a path that is still mounted, which takes an overlap, loses data.
LEMMA TargetStep ==
  ASSUME IInv, TypeInv', NEW t \in Targets, NEW c \in Calls,
         \/ PList(t, c) \/ PCheck(t, c) \/ PPath(t, c) \/ PMount(t, c) \/ RNeed(t, c)
         \/ RGrow(t, c) \/ EFind(t, c) \/ UUmount(t, c) \/ URemove(t, c)
         \/ StepError(t, c)
  PROVE  IInv' /\ (data' = data \/ (data' = data \ {VolOf[t]} /\ t \in mixed))
  <1> USE DEF PSteps, RSteps, USteps
  <1>0. /\ DisksOK /\ CallsOK /\ TargetOK(t) /\ CallOK(t, c) /\ t \in Objects
        /\ VolOf[t] \in Vols /\ VolOK(VolOf[t]) /\ TargetSteps \subseteq StepsOf(t)
        /\ size[VolOf[t]] \in Nat \ {0} /\ fs[VolOf[t]] \in Nat
        /\ phase[t] \in TargetPhases /\ mnt[t] \in Nat
        /\ fs[VolOf[t]] <= size[VolOf[t]]
        /\ t \notin mixed => ShapeOK(t) /\ StepOK(t, c)
    BY AtTarget DEF TargetOK
  <1>1. ASSUME NEW p \in TargetSteps, Goto(t, c, p)
        PROVE  /\ pc'[t][c] = p /\ phase'[t] = phase[t] /\ cur'[t] = cur[t]
               /\ mixed' = mixed
    BY <1>0, <1>1, GotoMoves
  <1>2. UNCHANGED node => UNCHANGED <<size, fs, data, mnt, path>>
    BY DEF node, disks
  <1>3. CASE StepError(t, c)
    BY <1>2, <1>3, TargetReadStep DEF StepError
  <1>4. CASE PList(t, c)
    <2>1. ASSUME Goto(t, c, "p_check")
          PROVE  CallOK(t, c)' /\ (t \notin mixed => StepOK(t, c)')
      BY <1>0, <1>1, <1>4, <2>1 DEF PList, StepOK, CallOK, TargetSteps
    <2> QED
      BY <1>2, <1>4, <2>1, TargetReadStep DEF PList, TargetSteps
  <1>5. CASE PCheck(t, c)
    <2>1. CASE mnt[t] = 0
      <3>1. Goto(t, c, "p_path") /\ UNCHANGED node /\ pc[t][c] = "p_check"
        BY <1>5, <2>1 DEF PCheck
      <3>2. CallOK(t, c)' /\ (t \notin mixed => StepOK(t, c)')
        BY <1>0, <1>1, <1>2, <2>1, <3>1 DEF StepOK, CallOK, TargetSteps
      <3> QED
        BY <1>2, <3>1, <3>2, TargetReadStep DEF TargetSteps
    <2>2. CASE mnt[t] # 0
      <3>1. Mounted(t, c) /\ UNCHANGED node /\ pc[t][c] = "p_check"
        BY <1>5, <2>2 DEF PCheck
      <3>2. VolOf[t] \in Block \/ fs[VolOf[t]] # 0
        BY <1>0, <2>2 DEF TargetOK
      <3>3. t \notin mixed => mnt[t] = 1
        BY <1>0, <2>2 DEF ShapeOK
      <3>4. CASE VolOf[t] \in Block
        BY <1>2, <3>1, <3>3, <3>4, TargetDoneStep DEF Mounted
      <3>5. CASE VolOf[t] \notin Block
        <4>1. Goto(t, c, "r_need")
          BY <3>1, <3>5 DEF Mounted
        <4>2. CallOK(t, c)' /\ (t \notin mixed => StepOK(t, c)')
          BY <1>0, <1>1, <1>2, <3>1, <3>2, <3>3, <3>5, <4>1 DEF StepOK, CallOK, TargetSteps
        <4> QED
          BY <1>2, <3>1, <4>1, <4>2, TargetReadStep DEF TargetSteps
      <3> QED
        BY <3>4, <3>5
    <2> QED
      BY <2>1, <2>2
  <1>6. CASE PPath(t, c)
    <2>1. Goto(t, c, "p_mount") /\ pc[t][c] = "p_path" /\ UNCHANGED <<size, fs, data, mnt>>
      BY <1>6 DEF PPath, disks
    <2>2. CallOK(t, c)' /\ (t \notin mixed => StepOK(t, c)')
      BY <1>0, <1>1, <2>1 DEF StepOK, CallOK, TargetSteps
    <2>3. \A u \in Targets \ {t} : u \in path' <=> u \in path
      BY <1>6 DEF PPath
    <2> QED
      BY <2>1, <2>2, <2>3, TargetReadStep DEF TargetSteps
  <1>7. CASE PMount(t, c)
    <2>0. /\ pc[t][c] = "p_mount" /\ UNCHANGED <<size, fs, data, path>>
          /\ t \notin mixed => mnt[t] = 0
      BY <1>0, <1>7 DEF PMount, StepOK, disks
    <2>1. CASE mnt' = mnt /\ Fail(t, c)
      BY <2>0, <2>1, TargetReadStep
    <2>2. CASE mnt' = [mnt EXCEPT ![t] = @ + 1] /\ Mounted(t, c)
               /\ (VolOf[t] \in Block \/ fs[VolOf[t]] # 0)
      <3>1. mnt'[t] = mnt[t] + 1 /\ \A u \in Targets \ {t} : mnt'[u] = mnt[u]
        BY <1>0, <2>2 DEF DisksOK
      <3>2. t \notin mixed => mnt'[t] = 1
        BY <2>0, <3>1
      <3>3. CASE VolOf[t] \in Block
        BY <2>0, <2>2, <3>1, <3>2, <3>3, TargetDoneStep DEF Mounted
      <3>4. CASE VolOf[t] \notin Block
        <4>1. Goto(t, c, "r_need")
          BY <2>2, <3>4 DEF Mounted
        <4>2. CallOK(t, c)' /\ (t \notin mixed => StepOK(t, c)')
          BY <1>0, <1>1, <2>0, <2>2, <3>2, <3>4, <4>1 DEF StepOK, CallOK, TargetSteps
        <4>3. phase' = phase /\ grow' = grow /\ mixed' = mixed
          BY <1>0, <4>1, GotoMoves DEF TargetSteps
        <4>4. t \notin mixed => phase[t] \notin {"none", "published"}
          BY <2>0, AtTarget
        <4>5. t \notin mixed' => ShapeOK(t)'
          BY <2>0, <3>2, <4>3, <4>4 DEF ShapeOK
        <4> QED
          BY <2>0, <2>2, <3>1, <4>1, <4>2, <4>3, <4>5, TargetMoves DEF TargetSteps
      <3> QED
        BY <3>3, <3>4
    <2> QED
      BY <1>7, <2>1, <2>2 DEF PMount
  <1>8. CASE RNeed(t, c)
    <2>0. /\ pc[t][c] = "r_need" /\ UNCHANGED node
          /\ VolOf[t] \notin Block /\ fs[VolOf[t]] # 0
          /\ t \notin mixed => mnt[t] = 1
      BY <1>0, <1>8 DEF RNeed, StepOK, CallOK
    <2>1. ASSUME Goto(t, c, "r_grow")
          PROVE  CallOK(t, c)' /\ (t \notin mixed => StepOK(t, c)')
      BY <1>0, <1>1, <1>2, <2>0, <2>1 DEF StepOK, CallOK, TargetSteps
    <2>2. CASE Fail(t, c) \/ Goto(t, c, "r_grow")
      BY <1>2, <2>0, <2>1, <2>2, TargetReadStep DEF TargetSteps
    <2>3. CASE Succeed(t, c) /\ ~(size[VolOf[t]] > fs[VolOf[t]])
      <3>1. fs[VolOf[t]] = size[VolOf[t]]
        BY <1>0, <2>3
      <3> QED
        BY <1>2, <2>0, <2>3, <3>1, TargetDoneStep
    <2> QED
      BY <1>8, <2>2, <2>3 DEF RNeed
  <1>9. CASE RGrow(t, c)
    <2>0. /\ pc[t][c] = "r_grow" /\ UNCHANGED <<plugged, size, data, path, mnt>>
          /\ VolOf[t] \notin Block /\ fs[VolOf[t]] # 0
          /\ t \notin mixed => mnt[t] = 1
      BY <1>0, <1>9 DEF RGrow, StepOK, CallOK
    <2>1. CASE fs' = fs /\ Fail(t, c)
      BY <2>0, <2>1, TargetReadStep
    <2>2. CASE fs' = [fs EXCEPT ![VolOf[t]] = size[VolOf[t]]] /\ Succeed(t, c)
      <3>1. fs'[VolOf[t]] = size[VolOf[t]]
        BY <1>0, <2>2 DEF DisksOK
      <3> QED
        BY <1>0, <2>0, <2>2, <3>1, TargetDoneStep
    <2> QED
      BY <1>9, <2>1, <2>2 DEF RGrow
  <1>10. CASE EFind(t, c)
    <2>0. pc[t][c] = "e_find" /\ UNCHANGED node
      BY <1>10 DEF EFind
    <2>1. CASE Fail(t, c)
      BY <1>2, <2>0, <2>1, TargetReadStep
    <2>2. CASE mnt[t] > 0 /\ Goto(t, c, "r_need") /\ VolOf[t] \notin Block
      <3>1. fs[VolOf[t]] # 0 /\ (t \notin mixed => mnt[t] = 1)
        BY <1>0, <2>2 DEF TargetOK, ShapeOK
      <3>2. CallOK(t, c)' /\ (t \notin mixed => StepOK(t, c)')
        BY <1>0, <1>1, <1>2, <2>0, <2>2, <3>1 DEF StepOK, CallOK, TargetSteps
      <3> QED
        BY <1>2, <2>0, <2>2, <3>2, TargetReadStep DEF TargetSteps
    <2>3. CASE Succeed(t, c) /\ (VolOf[t] \in Block \/ mnt[t] = 0)
      <3>1. t \notin mixed => phase[t] = "expanding" \/ cur[t] # c
        BY <1>0, <2>0 DEF CallOK
      <3>2. t \notin mixed => /\ mnt[t] \in {0, 1}
                              /\ cur[t] = c \/ phase[t] = "expanding" => mnt[t] = 1
        BY <1>0, <3>1 DEF ShapeOK
      <3>3. mnt[t] > 0 => VolOf[t] \in Block \/ fs[VolOf[t]] # 0
        BY <1>0 DEF TargetOK
      <3>4. t \notin mixed /\ cur[t] = c => VolOf[t] \in Block
        BY <2>3, <3>2
      <3> QED
        BY <1>2, <2>0, <2>3, <3>2, <3>3, <3>4, TargetDoneStep
    <2> QED
      BY <1>0, <1>10, <2>1, <2>2, <2>3 DEF EFind
  <1>11. CASE UUmount(t, c)
    <2>0. pc[t][c] = "u_umount" /\ UNCHANGED <<size, fs, data, path>>
      BY <1>11 DEF UUmount, disks
    <2>1. CASE mnt' = mnt /\ Fail(t, c)
      BY <2>0, <2>1, TargetReadStep
    <2>2. CASE mnt' = [mnt EXCEPT ![t] = IF @ > 0 THEN @ - 1 ELSE 0]
               /\ Goto(t, c, "u_remove")
      <3>1. /\ mnt'[t] = (IF mnt[t] > 0 THEN mnt[t] - 1 ELSE 0)
            /\ \A u \in Targets \ {t} : mnt'[u] = mnt[u]
        BY <1>0, <2>2 DEF DisksOK
      <3>2. /\ mnt'[t] > 0 => mnt[t] > 0
            /\ mnt[t] \in {0, 1} => mnt'[t] = 0
        BY <1>0, <3>1
      <3>3. t \notin mixed => mnt'[t] = 0 /\ phase[t] = "unpublishing"
        BY <1>0, <2>0, <3>2 DEF StepOK, ShapeOK
      <3>4. CallOK(t, c)' /\ (t \notin mixed => StepOK(t, c)')
        BY <1>0, <1>1, <2>0, <2>2, <3>3 DEF StepOK, CallOK, TargetSteps
      <3>5. phase' = phase /\ grow' = grow /\ mixed' = mixed
        BY <1>0, <2>2, GotoMoves DEF TargetSteps
      <3>6. t \notin mixed' => ShapeOK(t)'
        BY <2>0, <3>3, <3>5 DEF ShapeOK
      <3>7. mnt'[t] > 0 => VolOf[t] \in Block \/ fs'[VolOf[t]] # 0
        BY <1>0, <2>0, <3>2 DEF TargetOK
      <3> QED
        BY <2>0, <2>2, <3>1, <3>4, <3>5, <3>6, <3>7, TargetMoves DEF TargetSteps
    <2> QED
      BY <1>11, <2>1, <2>2 DEF UUmount
  <1>12. CASE URemove(t, c)
    <2>0. pc[t][c] = "u_remove" /\ UNCHANGED <<size, fs, mnt>>
      BY <1>12 DEF URemove
    <2>1. CASE mnt[t] = 0
      <3>1. path' = path \ {t} /\ data' = data /\ Succeed(t, c)
        BY <1>12, <2>1 DEF URemove
      <3>2. /\ pc'[t][c] = "idle"
            /\ phase'[t] = IF cur[t] = c THEN Done[phase[t]] ELSE phase[t]
            /\ t \in mixed /\ t \notin mixed' => phase'[t] = "none"
        BY <1>0, <3>1, SucceedMoves
      <3>3. t \notin mixed' => phase'[t] \in {"none", "unpublishing"}
        BY <1>0, <2>0, <3>2, DoneIs DEF StepOK
      <3>4. t \notin mixed' => ShapeOK(t)'
        BY <2>0, <2>1, <3>1, <3>3 DEF ShapeOK
      <3>5. CallOK(t, c)' /\ StepOK(t, c)'
        BY <3>2 DEF CallOK, StepOK
      <3>6. \A u \in Targets \ {t} : u \in path' <=> u \in path
        BY <3>1
      <3> QED
        BY <2>0, <2>1, <3>1, <3>4, <3>5, <3>6, TargetMoves
    <2>2. CASE mnt[t] # 0
      <3>1. /\ path' = path /\ Fail(t, c)
            /\ data' = data \/ data' = data \ {VolOf[t]}
        BY <1>12, <2>2 DEF URemove
      <3>2. t \in mixed
        BY <1>0, <2>0, <2>2 DEF StepOK
      <3> QED
        BY <2>0, <3>1, <3>2, TargetReadStep
    <2> QED
      BY <2>1, <2>2
  <1> QED
    BY <1>3, <1>4, <1>5, <1>6, <1>7, <1>8, <1>9, <1>10, <1>11, <1>12

\* Every step of NodeStageVolume and NodeUnstageVolume; mkfs meets data only where
\* stage calls have overlapped.
LEMMA VolStep ==
  ASSUME IInv, TypeInv', NEW v \in Vols, NEW c \in Calls,
         SList(v, c) \/ SMkfs(v, c) \/ Unstage(v, c) \/ StepError(v, c)
  PROVE  IInv' /\ (data' = data \/ (data' = data \ {v} /\ v \in mixed))
  <1>0. /\ DisksOK /\ CallsOK /\ VolOK(v) /\ v \in Objects /\ v \notin grow
        /\ size[v] \in Nat \ {0} /\ fs[v] \in Nat /\ fs[v] <= size[v]
    BY NodeAssumption DEF IInv, TypeInv, Objects, DisksOK, VolOK, CallsOK
  <1>1. pc[v][c] # "idle"
    BY DEF SList, SMkfs, Unstage, StepError
  <1>2. ASSUME Fail(v, c) \/ Succeed(v, c)
        PROVE  /\ Others(v) /\ grow' = grow /\ pc'[v][c] = "idle"
               /\ \A d \in Calls \ {c} : pc'[v][d] = pc[v][d]
               /\ v \notin mixed' => \A d \in Calls : pc'[v][d] = "idle"
    <2>1. /\ \A u \in Objects \ {v} :
               pc'[u] = pc[u] /\ cur'[u] = cur[u] /\ phase'[u] = phase[u]
          /\ pc'[v][c] = "idle" /\ \A d \in Calls \ {c} : pc'[v][d] = pc[v][d]
          /\ grow' \subseteq grow /\ grow \ {v} \subseteq grow'
          /\ mixed' \subseteq mixed /\ mixed \ {v} \subseteq mixed'
          /\ v \in mixed /\ v \notin mixed' => Alone(v, c)
      BY <1>0, <1>2, FailMoves, SucceedMoves
    <2>2. grow' = grow
      BY <1>0, <2>1
    <2>3. Others(v)
      BY <2>1 DEF Others
    <2>4. v \notin mixed' => \A d \in Calls : pc'[v][d] = "idle"
      BY <1>0, <1>1, <2>1 DEF VolOK, Single, Alone
    <2> QED
      BY <2>1, <2>2, <2>3, <2>4
  <1>3. ASSUME Fail(v, c) \/ Succeed(v, c), UNCHANGED <<size, path, mnt>>,
               data' \subseteq data,
               fs' = fs \/ (fs' = [fs EXCEPT ![v] = size[v]] /\ fs'[v] = size[v])
        PROVE  IInv'
    <2>0. /\ Others(v) /\ grow' = grow /\ pc'[v][c] = "idle"
          /\ \A d \in Calls \ {c} : pc'[v][d] = pc[v][d]
          /\ v \notin mixed' => \A d \in Calls : pc'[v][d] = "idle"
      BY <1>2, <1>3
    <2>1. fs'[v] <= size'[v] /\ (v \in data' /\ v \notin Block => fs'[v] # 0)
      BY <1>0, <1>3 DEF VolOK
    <2>2. \A d \in Calls : pc'[v][d] = "s_mkfs" => v \notin Block
      BY <1>0, <2>0 DEF VolOK
    <2>3. VolOK(v)'
      BY <2>0, <2>1, <2>2 DEF VolOK, Single
    <2> QED
      BY <1>3, <2>0, <2>3, VolLocal
  <1>4. ASSUME UNCHANGED node, Fail(v, c) \/ Succeed(v, c)
        PROVE  IInv' /\ data' = data
    BY <1>3, <1>4 DEF node, disks
  <1>5. CASE Unstage(v, c) \/ StepError(v, c)
    BY <1>4, <1>5 DEF Unstage, StepError
  <1>6. CASE SList(v, c)
    <2>1. CASE Fail(v, c) \/ Succeed(v, c)
      BY <1>4, <1>6, <2>1 DEF SList
    <2>2. CASE Goto(v, c, "s_mkfs") /\ v \notin Block /\ fs[v] = 0
      <3>1. "s_mkfs" \in StepsOf(v)
        BY DEF StepsOf, StageSteps
      <3>2. /\ phase' = phase /\ cur' = cur /\ grow' = grow /\ mixed' = mixed
            /\ \A u \in Objects \ {v} : pc'[u] = pc[u]
            /\ \A d \in Calls \ {c} : pc'[v][d] = pc[v][d]
        BY <1>0, <2>2, <3>1, GotoMoves
      <3>3. UNCHANGED <<plugged, size, fs, data, path, mnt>>
        BY <1>6 DEF SList, node, disks
      <3>4. VolOK(v)'
        <4>1. v \notin mixed => Single(v)'
          BY <1>0, <1>1, <3>2 DEF VolOK, Single
        <4> QED
          BY <1>0, <2>2, <3>2, <3>3, <4>1 DEF VolOK
      <3>5. Others(v)
        BY <3>2 DEF Others
      <3> QED
        BY <3>2, <3>3, <3>4, <3>5, VolLocal
    <2> QED
      BY <1>6, <2>1, <2>2 DEF SList
  <1>7. CASE SMkfs(v, c)
    <2>0. /\ v \notin Block /\ (v \notin mixed => v \notin data)
          /\ UNCHANGED <<plugged, size, path, mnt>>
      BY <1>0, <1>7 DEF SMkfs, VolOK
    <2>1. CASE UNCHANGED <<fs, data>> /\ Fail(v, c)
      BY <1>3, <2>0, <2>1
    <2>2. CASE fs' = [fs EXCEPT ![v] = size[v]] /\ data' = data \ {v} /\ Succeed(v, c)
      <3>1. fs'[v] = size[v] /\ data' \subseteq data
        BY <1>0, <2>2 DEF DisksOK
      <3>2. data' = data \/ v \in mixed
        BY <2>0, <2>2
      <3> QED
        BY <1>3, <2>0, <2>2, <3>1, <3>2
    <2> QED
      BY <1>7, <2>1, <2>2 DEF SMkfs
  <1> QED
    BY <1>5, <1>6, <1>7

\* The kubelet calls, decides and gives up. A call started beside a running one
\* makes the object a mixed one.
LEMMA KubeletStep ==
  ASSUME IInv, TypeInv', NEW o \in Objects,
         \/ \E c \in Calls : KubeletCall(o, c)
         \/ KubeletDecide(o) \/ Abandon(o) \/ (o \in Targets /\ KubeletExpand(o))
  PROVE  IInv' /\ data' = data
  <1> USE DEF PSteps, RSteps, USteps
  <1>0. DisksOK /\ CallsOK
    BY DEF IInv, TypeInv
  <1>1. UNCHANGED <<size, fs, data, path, mnt>>
    BY DEF KubeletCall, Call, KubeletDecide, KubeletExpand, Decide, Abandon, node, disks
  <1>2. Others(o)
    BY <1>0 DEF KubeletCall, Call, KubeletDecide, KubeletExpand, Decide, Abandon, CallsOK,
       Others
  <1>3. ASSUME NEW c \in Calls, NEW first, Call(o, c, first)
        PROVE  /\ pc[o][c] = "idle" /\ pc'[o][c] = first /\ cur'[o] = c
               /\ phase' = phase /\ grow' = grow
               /\ \A d \in Calls \ {c} : pc'[o][d] = pc[o][d]
               /\ o \in mixed => o \in mixed'
               /\ o \notin mixed' => \A d \in Calls \ {c} : pc'[o][d] = "idle"
    <2>1. /\ pc[o][c] = "idle" /\ pc'[o][c] = first /\ cur'[o] = c
          /\ phase' = phase /\ grow' = grow
          /\ \A d \in Calls \ {c} : pc'[o][d] = pc[o][d]
      BY <1>0, <1>3 DEF Call, CallsOK
    <2>2. /\ o \in mixed => o \in mixed'
          /\ o \notin mixed' => Alone(o, c)
      BY <1>3 DEF Call
    <2> QED
      BY <2>1, <2>2 DEF Alone
  <1>4. CASE o \in Vols
    <2>0. VolOK(o) /\ o \notin Targets /\ phase[o] \in VolPhases
      BY <1>0, <1>4, NodeAssumption DEF IInv, CallsOK, PhasesOf
    <2>1. grow' = grow
      BY <1>3, <2>0 DEF KubeletCall, KubeletDecide, Abandon
    <2>2. VolOK(o)'
      <3>1. ASSUME NEW c \in Calls, KubeletCall(o, c) PROVE VolOK(o)'
        <4>1. PICK first \in {"s_list", "x_done"} : Call(o, c, first)
          BY <2>0, <3>1 DEF KubeletCall, VolPhases
        <4>2. /\ pc'[o][c] # "s_mkfs" /\ \A d \in Calls \ {c} : pc'[o][d] = pc[o][d]
              /\ o \in mixed => o \in mixed'
              /\ o \notin mixed' => \A d \in Calls \ {c} : pc'[o][d] = "idle"
          BY <1>3, <4>1
        <4> QED
          BY <1>1, <2>0, <4>2 DEF VolOK, Single
      <3>2. CASE KubeletDecide(o) \/ Abandon(o)
        <4>1. pc' = pc /\ mixed' = mixed
          BY <3>2 DEF KubeletDecide, Decide, Abandon
        <4> QED
          BY <1>1, <2>0, <4>1 DEF VolOK, Single
      <3> QED
        BY <2>0, <3>1, <3>2
    <2> QED
      BY <1>1, <1>2, <1>4, <2>1, <2>2, VolLocal
  <1>5. CASE o \in Targets
    <2>0. /\ TargetOK(o) /\ o \notin Vols /\ phase[o] \in TargetPhases
          /\ o \notin mixed => \A c \in Calls :
               phase[o] \in {"none", "published"} => pc[o][c] = "idle"
          /\ \A c \in Calls : CallOK(o, c)
          /\ o \notin mixed => /\ ShapeOK(o) /\ Single(o)
                               /\ \A c \in Calls : StepOK(o, c)
      BY <1>5, AtTarget DEF TargetOK
    <2>1. \A u \in Targets \ {o} : u \in grow' <=> u \in grow
      BY <1>3 DEF KubeletCall, KubeletDecide, KubeletExpand, Abandon
    <2>2. TargetOK(o)'
      <3>1. ASSUME NEW c \in Calls, KubeletCall(o, c) PROVE TargetOK(o)'
        <4>1. PICK first \in {"p_list", "e_find", "u_umount"} :
                /\ Call(o, c, first)
                /\ first = "p_list" => phase[o] = "publishing"
                /\ first = "e_find" => phase[o] = "expanding"
                /\ first = "u_umount" => phase[o] = "unpublishing"
          BY <2>0, <3>1 DEF KubeletCall, TargetPhases
        <4>2. /\ pc'[o][c] = first /\ cur'[o] = c /\ phase' = phase /\ grow' = grow
              /\ \A d \in Calls \ {c} : pc'[o][d] = pc[o][d]
              /\ o \in mixed => o \in mixed'
              /\ o \notin mixed' => \A d \in Calls \ {c} : pc'[o][d] = "idle"
          BY <1>3, <4>1
        <4>3. CallOK(o, c)' /\ StepOK(o, c)'
          BY <4>1, <4>2 DEF CallOK, StepOK
        <4>4. \A d \in Calls : CallOK(o, d)'
          BY <1>1, <2>0, <4>2, <4>3 DEF CallOK
        <4>5. o \notin mixed' => Single(o)'
          BY <4>2 DEF Single
        <4>6. \A d \in Calls : pc'[o][d] = "idle" => StepOK(o, d)'
          BY DEF StepOK
        <4>7. o \notin mixed' => ShapeOK(o)'
          BY <1>1, <2>0, <4>2 DEF ShapeOK
        <4> QED
          BY <1>1, <2>0, <4>2, <4>3, <4>4, <4>5, <4>6, <4>7 DEF TargetOK
      <3>2. CASE Abandon(o)
        <4>1. /\ phase' = phase /\ pc' = pc /\ grow' = grow /\ mixed' = mixed
              /\ cur'[o] = NoCall
          BY <1>0, <3>2 DEF Abandon, CallsOK
        <4>2. \A d \in Calls : CallOK(o, d)'
          BY <1>1, <2>0, <4>1, NodeAssumption DEF CallOK
        <4> QED
          BY <1>1, <2>0, <4>1, <4>2 DEF TargetOK, ShapeOK, Single, StepOK
      <3>3. CASE KubeletDecide(o) \/ KubeletExpand(o)
        <4>1. /\ pc' = pc /\ cur' = cur /\ cur[o] = NoCall /\ mixed' = mixed
              /\ \/ phase[o] = "none" /\ phase'[o] = "publishing"
                 \/ phase[o] = "published" /\ phase'[o] = "expanding"
                 \/ /\ phase[o] \in {"publishing", "published", "expanding"}
                    /\ phase'[o] = "unpublishing"
          BY <1>0, <2>0, <3>3 DEF KubeletDecide, KubeletExpand, Decide, CallsOK
        <4>2. \A d \in Calls : CallOK(o, d)'
          BY <1>1, <2>0, <4>1, NodeAssumption DEF CallOK
        <4>3. o \notin mixed => \A d \in Calls : StepOK(o, d)'
          BY <1>1, <2>0, <4>1 DEF StepOK
        <4>4. o \notin mixed => ShapeOK(o)' /\ Single(o)'
          BY <1>1, <2>0, <4>1 DEF ShapeOK, Single
        <4> QED
          BY <1>1, <2>0, <4>1, <4>2, <4>3, <4>4 DEF TargetOK
      <3> QED
        BY <2>0, <3>1, <3>2, <3>3
    <2> QED
      BY <1>1, <1>2, <1>5, <2>1, <2>2, TargetLocal
  <1> QED
    BY <1>1, <1>4, <1>5 DEF Objects

\* A crash, disks that come, go and grow, and pods that write.
LEMMA WorldStep ==
  ASSUME IInv, TypeInv',
         \/ Crash \/ \E v \in Vols : DiskAppears(v) \/ DiskLeaves(v) \/ DiskGrows(v)
         \/ \E t \in Targets : PodWrites(t)
  PROVE  IInv' /\ data \subseteq data'
  <1> USE DEF PSteps, RSteps, USteps
  <1>0. DisksOK /\ CallsOK
    BY DEF IInv, TypeInv
  <1>1. CASE Crash
    <2>1. /\ phase' = phase /\ grow' = grow /\ mixed' = mixed /\ UNCHANGED node
          /\ \A o \in Objects, c \in Calls : pc'[o][c] = "idle"
      BY <1>1 DEF Crash
    <2>2. UNCHANGED <<size, fs, data, path, mnt>>
      BY <2>1 DEF node, disks
    <2>3. ASSUME NEW v \in Vols PROVE VolOK(v)'
      BY <2>1, <2>2 DEF IInv, VolOK, Single, Objects
    <2>4. ASSUME NEW t \in Targets PROVE TargetOK(t)'
      <3>1. \A c \in Calls : StepOK(t, c)' /\ CallOK(t, c)'
        BY <2>1 DEF StepOK, CallOK, Objects
      <3>2. Single(t)'
        BY <2>1 DEF Single, Objects
      <3> QED
        BY <2>1, <2>2, <3>1, <3>2 DEF IInv, TargetOK, ShapeOK
    <2> QED
      BY <2>2, <2>3, <2>4 DEF IInv
  <1>2. ASSUME NEW v \in Vols, DiskAppears(v) \/ DiskLeaves(v)
        PROVE  IInv' /\ data \subseteq data'
    <2>1. UNCHANGED <<size, fs, data, path, mnt, phase, grow, cur, pc, mixed>>
      BY <1>2 DEF DiskAppears, DiskLeaves, kubelet
    <2> QED
      BY <2>1 DEF IInv, VolOK, TargetOK, ShapeOK, Single, CallOK, StepOK
  <1>3. ASSUME NEW v \in Vols, DiskGrows(v) PROVE IInv' /\ data \subseteq data'
    <2>1. /\ UNCHANGED <<fs, data, path, mnt, phase, cur, pc, mixed>>
          /\ size' = [size EXCEPT ![v] = @ + 1]
          /\ grow' = grow \union {t \in TargetsOf(v) : phase[t] # "none"}
      BY <1>3 DEF DiskGrows
    <2>2. ASSUME NEW u \in Vols PROVE VolOK(u)'
      <3>1. size[u] \in Nat /\ fs[u] \in Nat
        BY <1>0 DEF DisksOK
      <3>2. fs'[u] <= size'[u]
        BY <1>0, <2>1, <3>1 DEF DisksOK, IInv, VolOK
      <3> QED
        BY <2>1, <3>2 DEF IInv, VolOK, Single
    <2>3. ASSUME NEW t \in Targets PROVE TargetOK(t)'
      <3>0. TargetOK(t)
        BY DEF IInv
      <3>1. \A c \in Calls : CallOK(t, c)'
        BY <2>1, <3>0 DEF TargetOK, CallOK
      <3>2. phase[t] = "published" /\ t \notin grow' =>
              t \notin grow /\ size'[VolOf[t]] = size[VolOf[t]]
        BY <1>0, <2>1, NodeAssumption DEF TargetsOf, DisksOK
      <3>3. t \notin mixed => ShapeOK(t)' /\ Single(t)' /\ \A c \in Calls : StepOK(t, c)'
        BY <2>1, <3>0, <3>2 DEF TargetOK, ShapeOK, Single, StepOK
      <3> QED
        BY <2>1, <3>0, <3>1, <3>3 DEF TargetOK
    <2> QED
      BY <2>1, <2>2, <2>3 DEF IInv
  <1>4. ASSUME NEW t \in Targets, PodWrites(t) PROVE IInv' /\ data \subseteq data'
    <2>1. /\ UNCHANGED <<size, fs, path, mnt, phase, grow, cur, pc, mixed>>
          /\ data' = data \union {VolOf[t]} /\ mnt[t] > 0
      BY <1>4 DEF PodWrites, kubelet
    <2>2. VolOf[t] \in Block \/ fs[VolOf[t]] # 0
      BY <2>1 DEF IInv, TargetOK
    <2>3. ASSUME NEW u \in Vols PROVE VolOK(u)'
      BY <2>1, <2>2 DEF IInv, VolOK, Single
    <2>4. ASSUME NEW u \in Targets PROVE TargetOK(u)'
      BY <2>1 DEF IInv, TargetOK, ShapeOK, Single, CallOK, StepOK
    <2> QED
      BY <2>1, <2>3, <2>4 DEF IInv
  <1> QED
    BY <1>1, <1>2, <1>3, <1>4

\* Every step keeps the invariant, and the data of volumes whose calls have not
\* overlapped.
LEMMA NextIInv == IInv /\ [Next]_vars => IInv' /\ LossOK
  <1> SUFFICES ASSUME IInv, [Next]_vars PROVE IInv' /\ LossOK
    OBVIOUS
  <1>0. TypeInv'
    BY NextTypes DEF IInv
  <1>1. data \subseteq data' => LossOK
    BY DEF LossOK
  <1>2. ASSUME NEW v \in Vols, NEW c \in Calls,
               SList(v, c) \/ SMkfs(v, c) \/ Unstage(v, c) \/ StepError(v, c)
        PROVE  IInv' /\ LossOK
    <2>1. IInv' /\ (data' = data \/ (data' = data \ {v} /\ v \in mixed))
      BY <1>0, <1>2, VolStep
    <2> QED
      BY <2>1 DEF LossOK
  <1>3. ASSUME NEW t \in Targets, NEW c \in Calls, Handler(t, c) \/ StepError(t, c)
        PROVE  IInv' /\ LossOK
    <2>1. IInv' /\ (data' = data \/ (data' = data \ {VolOf[t]} /\ t \in mixed))
      BY <1>0, <1>3, TargetStep, NodeAssumption DEF Handler
    <2> QED
      BY <2>1 DEF LossOK, TargetsOf
  <1>4. ASSUME NEW o \in Objects, NEW c \in Calls, Handler(o, c) \/ StepError(o, c)
        PROVE  IInv' /\ LossOK
    BY <1>2, <1>3, <1>4 DEF Handler, Objects
  <1>5. ASSUME NEW o \in Objects,
               (\E c \in Calls : KubeletCall(o, c)) \/ KubeletDecide(o) \/ Abandon(o)
        PROVE  IInv' /\ LossOK
    BY <1>0, <1>1, <1>5, KubeletStep
  <1>6. ASSUME NEW t \in Targets, KubeletExpand(t) PROVE IInv' /\ LossOK
    BY <1>0, <1>1, <1>6, KubeletStep DEF Objects
  <1>7. CASE UNCHANGED vars
    BY <1>0, <1>1, <1>7 DEF vars, IInv, VolOK, TargetOK, ShapeOK, Single, CallOK, StepOK
  <1> QED
    BY <1>0, <1>1, <1>4, <1>5, <1>6, <1>7, WorldStep DEF Next, Fault

\* Nothing runs and nothing is mounted at first.
LEMMA InitIInv == Init => IInv
  <1> SUFFICES ASSUME Init PROVE IInv
    OBVIOUS
  <1>1. \A v \in Vols : VolOK(v)
    BY DEF Init, VolOK, Single, Objects
  <1>2. \A t \in Targets : TargetOK(t)
    BY DEF Init, TargetOK, ShapeOK, Single, CallOK, StepOK, Objects, PSteps, RSteps, USteps
  <1> QED
    BY <1>1, <1>2, InitTypes DEF IInv

\* The inductive invariant holds in every reachable state, for any number of calls
\* that run at a time.
THEOREM Invariance == Spec => []IInv
  <1>1. IInv /\ [Next]_vars => IInv'
    BY NextIInv
  <1> QED
    BY <1>1, InitIInv, PTL DEF Spec

\* After a successful NodePublishVolume the volume is mounted at its target,
\* whatever earlier calls that failed, died or were given up left behind, unless one
\* of them was still running when the next was started.
THEOREM Published == Spec => []PublishedIsMounted
  <1>1. IInv => PublishedIsMounted
    BY DEF IInv, TargetOK, ShapeOK, PublishedIsMounted
  <1> QED
    BY <1>1, Invariance, PTL

\* After a NodeUnpublishVolume that has succeeded with no call beside it nothing is
\* mounted at the target and its path is gone, whatever ran before.
THEOREM Unpublished == Spec => []UnpublishedIsClean
  <1>1. IInv => UnpublishedIsClean
    BY DEF IInv, TargetOK, ShapeOK, UnpublishedIsClean
  <1> QED
    BY <1>1, Invariance, PTL

\* A published file system with no expansion owed fills its disk, also when the
\* disk has grown during the publish or the expansion.
THEOREM Full == Spec => []FullSize
  <1>1. IInv => FullSize
    BY DEF IInv, TargetOK, ShapeOK, FullSize
  <1> QED
    BY <1>1, Invariance, PTL

\* The driver destroys a pod's data, by mkfs or by RemoveAll, only where calls for the
\* volume or one of its targets have overlapped.
THEOREM Kept == Spec => LossNeedsOverlap
  <1>1. IInv /\ [Next]_vars => LossOK
    BY NextIInv
  <1>2. IInv /\ [Next]_vars =>
          [\A v \in data :
             v \in data' \/ mixed \intersect ({v} \union TargetsOf(v)) # {}]_vars
    BY <1>1 DEF LossOK
  <1> QED
    BY <1>2, Invariance, PTL DEF Spec, LossNeedsOverlap
=============================================================================
