-------------------------- MODULE SnapshotListing ---------------------------
(***************************************************************************)
(* ListSnapshots of pkg/service/controller.go: a client walks the list page*)
(* by page while snapshots come and go in the infra cluster. The driver    *)
(* keeps nothing between pages: the token is a position in a list that is  *)
(* fetched anew each time, in the API server's order, by name.             *)
(***************************************************************************)
EXTENDS Integers, FiniteSets

CONSTANTS
  Ids,        \* snapshot names, numbered in the order they are listed
  Sources,    \* PVC names snapshots are taken of
  NoPVC,      \* source of a snapshot made from a VolumeSnapshotContent
  Shapes,     \* Shapes[n]: the snapshots that may be created under name n
  PageSizes   \* max_entries of the clients; 0 means no limit

Snapshot == [src : Sources \union {NoPVC}, labelled : BOOLEAN]

ASSUME ListingAssumption ==
  /\ Ids \subseteq Nat \ {0} /\ IsFiniteSet(Ids)
  /\ NoPVC \notin Sources
  /\ Shapes \in [Ids -> SUBSET Snapshot]
  /\ PageSizes \subseteq Nat

VARIABLES
  snapshots,  \* source and labels of the snapshots in the infra namespace
  walk        \* the walk in progress: its request, the token, what it has returned
              \* and whether the list is still the one it began with

listVars == <<snapshots, walk>>

NoWalk == [on |-> FALSE]
AnyId == 0    \* no snapshot_id in the request; NoPVC: no source_volume_id

ListInit == snapshots = <<>> /\ walk = NoWalk

-----------------------------------------------------------------------------
(* What a request w asks for.                                              *)

\* GetVolumeSnapshot refuses a snapshot without the driver's labels.
Refused(w) ==
  w.id \in DOMAIN snapshots /\ ~snapshots[w.id].labelled

\* One snapshot by name, or those ListVolumeSnapshots selects by the driver's
\* labels, reduced to the source asked for.
Items(w) ==
  IF w.id # AnyId THEN {w.id} \intersect DOMAIN snapshots
  ELSE {n \in DOMAIN snapshots :
          snapshots[n].labelled /\ (w.src # NoPVC => snapshots[n].src = w.src)}

Rank(items, n) == Cardinality({m \in items : m <= n})

\* Tokens "" and "0" mean "1"; a token is one more than the entries before it.
Start(token) == IF token = 0 THEN 0 ELSE token - 1

End(items, token, max) ==
  LET len == Cardinality(items)
      end == Start(token) + (IF max = 0 THEN len ELSE max)
  IN IF end > len THEN len ELSE end

Page(items, token, max) ==
  {n \in items : Rank(items, n) \in Start(token) + 1..End(items, token, max)}

\* Mutant of NextToken: the next page begins at the last entry of this one.
NextTokenOverlap(items, token, max) ==
  IF End(items, token, max) < Cardinality(items) - 1
  THEN End(items, token, max) ELSE 0

\* Mutant of NextToken: the token follows the request, not the list.
NextTokenUnclamped(items, token, max) ==
  Start(token) + (IF max = 0 THEN Cardinality(items) ELSE max) + 1

\* The test leaves out the case of one remaining entry.
NextToken(items, token, max) ==
  IF End(items, token, max) < Cardinality(items) - 1
  THEN End(items, token, max) + 1 ELSE 0

\* items[start:end] with start beyond the end of the list, or createCsiSnapshot
\* on a snapshot without a PVC, takes the process down.
SlicePanics(items, token, max) ==
  items # {} /\ Start(token) > End(items, token, max)
SourcePanics(items, token, max) ==
  \E n \in Page(items, token, max) : snapshots[n].src = NoPVC

Panics(items, token, max) ==
  SlicePanics(items, token, max) \/ SourcePanics(items, token, max)

-----------------------------------------------------------------------------
(* A client's walk.                                                        *)

BeginWalk ==
  /\ ~walk.on
  /\ \E max \in PageSizes, src \in Sources \union {NoPVC}, id \in Ids \union {AnyId} :
       /\ id # AnyId => src = NoPVC /\ max = 0
       /\ walk' = [on |-> TRUE, id |-> id, src |-> src, max |-> max, token |-> 0,
                   seen |-> {}, same |-> TRUE, over |-> FALSE]
  /\ UNCHANGED snapshots

ListSnapshots ==
  /\ walk.on /\ ~walk.over /\ ~Refused(walk)
  /\ LET items == Items(walk)
         next == NextToken(items, walk.token, walk.max)
     IN /\ ~Panics(items, walk.token, walk.max)
        /\ walk' = [walk EXCEPT
             !.seen = @ \union Page(items, walk.token, walk.max),
             !.token = next, !.over = next = 0]
  /\ UNCHANGED snapshots

\* The process dies; the caller has lost its connection and begins anew.
ListPanics ==
  /\ walk.on /\ ~walk.over /\ ~Refused(walk)
  /\ Panics(Items(walk), walk.token, walk.max)
  /\ walk' = NoWalk
  /\ UNCHANGED snapshots

\* The caller is done, or gives up on an error.
EndWalk == walk.on /\ walk' = NoWalk /\ UNCHANGED snapshots

Changed == walk' = IF walk.on THEN [walk EXCEPT !.same = FALSE] ELSE walk

Appears(n) ==
  /\ n \notin DOMAIN snapshots
  /\ \E s \in Shapes[n] :
       snapshots' = [m \in DOMAIN snapshots \union {n} |->
                       IF m = n THEN s ELSE snapshots[m]]
  /\ Changed

Vanishes(n) ==
  /\ n \in DOMAIN snapshots
  /\ snapshots' = [m \in DOMAIN snapshots \ {n} |-> snapshots[m]]
  /\ Changed

ListNext ==
  \/ BeginWalk \/ ListSnapshots \/ ListPanics \/ EndWalk
  \/ \E n \in Ids : Appears(n) \/ Vanishes(n)

ListSpec == ListInit /\ [][ListNext]_listVars

-----------------------------------------------------------------------------
(* Properties                                                              *)

ListTypeOK ==
  /\ DOMAIN snapshots \subseteq Ids
  /\ \A n \in DOMAIN snapshots : snapshots[n] \in Shapes[n]
  /\ walk.on => walk \in [on : {TRUE}, id : Ids \union {AnyId},
                          src : Sources \union {NoPVC}, max : PageSizes, token : Nat,
                          seen : SUBSET Ids, same : BOOLEAN, over : BOOLEAN]

\* On a list nobody changes the pages fit together: before each page the walk has
\* returned exactly the entries ahead of its token, so none comes twice or is
\* skipped in between, and when no token is left at most the last entry is missing.
PagesFitTogether ==
  walk.on /\ walk.same =>
    IF walk.over
    THEN \A n \in Items(walk) \ walk.seen :
           Rank(Items(walk), n) = Cardinality(Items(walk))
    ELSE walk.seen = {n \in Items(walk) : Rank(Items(walk), n) <= Start(walk.token)}

\* A page takes the process down only if the list has changed since the walk
\* began or holds a snapshot of the driver's labels that has no PVC: the token
\* of an earlier page alone never points beyond the list.
PanicsExplained ==
  walk.on /\ ~walk.over /\ ~Refused(walk) /\ walk.same
    /\ Panics(Items(walk), walk.token, walk.max)
  => \E n \in Items(walk) : snapshots[n].src = NoPVC

\* A walk that ends without a next_token has returned the whole list.
PagesCoverList ==
  walk.on /\ walk.over /\ walk.same => walk.seen = Items(walk)
=============================================================================
