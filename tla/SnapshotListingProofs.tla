----------------------- MODULE SnapshotListingProofs ------------------------
(***************************************************************************)
(* Proofs about SnapshotListing for every finite set of snapshots, every   *)
(* set of page sizes and every history of the list.                        *)
(***************************************************************************)
EXTENDS SnapshotListing, FiniteSetTheorems, TLAPS

\* The token of a walk on a list nobody changed does not point beyond it.
TokenWithinList ==
  walk.on /\ walk.same /\ ~walk.over =>
    Start(walk.token) <= Cardinality(Items(walk))

\* The inductive invariant.
PagesInv == ListTypeOK /\ PagesFitTogether /\ TokenWithinList

Walks == [on : {TRUE}, id : Ids \union {AnyId}, src : Sources \union {NoPVC},
          max : PageSizes, token : Nat, seen : SUBSET Ids, same : BOOLEAN,
          over : BOOLEAN]

-----------------------------------------------------------------------------
(* Lists, ranks and pages.                                                 *)

\* What a request selects are finitely many of the snapshots there are.
LEMMA ItemsFinite ==
  ASSUME DOMAIN snapshots \subseteq Ids, NEW w
  PROVE  Items(w) \subseteq Ids /\ IsFiniteSet(Items(w)) /\ Cardinality(Items(w)) \in Nat
  <1>1. Items(w) \subseteq Ids
    BY DEF Items
  <1> QED
    BY <1>1, ListingAssumption, FS_Subset, FS_CardinalityType

\* The rank of an entry is between one and the length of the list.
LEMMA RankBounds ==
  ASSUME NEW items \in SUBSET Ids, NEW n \in items
  PROVE  /\ Rank(items, n) \in Nat /\ 1 <= Rank(items, n)
         /\ Rank(items, n) <= Cardinality(items)
  <1> DEFINE upto == {m \in items : m <= n}
  <1>1. IsFiniteSet(items) /\ n \in Nat
    BY ListingAssumption, FS_Subset
  <1>2. upto \subseteq items /\ n \in upto
    BY <1>1
  <1>3. IsFiniteSet(upto) /\ Cardinality(upto) <= Cardinality(items)
    BY <1>1, <1>2, FS_Subset
  <1>4. Cardinality(upto) \in Nat /\ Cardinality(upto) # 0
    BY <1>2, <1>3, FS_CardinalityType, FS_EmptySet
  <1> QED
    BY <1>3, <1>4 DEF Rank

\* A page of a list ends between its start and the end of the list, wherever in
\* the list it starts.
LEMMA PageEnd ==
  ASSUME NEW items \in SUBSET Ids, NEW token \in Nat, NEW max \in PageSizes
  PROVE  /\ Start(token) \in Nat /\ End(items, token, max) \in Nat
         /\ End(items, token, max) <= Cardinality(items)
         /\ Start(token) <= Cardinality(items) => Start(token) <= End(items, token, max)
  <1>1. IsFiniteSet(items) /\ max \in Nat
    BY ListingAssumption, FS_Subset
  <1>2. Cardinality(items) \in Nat
    BY <1>1, FS_CardinalityType
  <1>3. Start(token) \in Nat
    BY DEF Start
  <1> QED
    BY <1>1, <1>2, <1>3 DEF End

\* One page further: the walk has returned all up to the page's end, and if that
\* leaves no token at most the last entry is missing.
LEMMA NextPage ==
  ASSUME NEW items \in SUBSET Ids, NEW token \in Nat, NEW max \in PageSizes,
         Start(token) <= Cardinality(items)
  PROVE  LET next == NextToken(items, token, max)
             seen == {n \in items : Rank(items, n) <= Start(token)}
                       \union Page(items, token, max)
         IN /\ next \in Nat
            /\ next # 0 => /\ seen = {n \in items : Rank(items, n) <= Start(next)}
                           /\ Start(next) <= Cardinality(items)
            /\ next = 0 => \A n \in items \ seen : Rank(items, n) = Cardinality(items)
  <1> DEFINE end == End(items, token, max)
             len == Cardinality(items)
             next == NextToken(items, token, max)
             seen == {n \in items : Rank(items, n) <= Start(token)}
                       \union Page(items, token, max)
  <1>1. /\ Start(token) \in Nat /\ end \in Nat /\ end <= len
        /\ Start(token) <= end /\ len \in Nat
    BY PageEnd, ListingAssumption, FS_Subset, FS_CardinalityType
  <1>2. \A n \in items : Rank(items, n) \in Nat /\ Rank(items, n) <= len
    BY RankBounds
  <1>3. Page(items, token, max) = {n \in items : Rank(items, n) \in Start(token) + 1..end}
    BY DEF Page
  <1>4. seen = {n \in items : Rank(items, n) <= end}
    BY <1>1, <1>2, <1>3
  <1>5. next = IF end < len - 1 THEN end + 1 ELSE 0
    BY DEF NextToken
  <1>6. next # 0 => Start(next) = end
    BY <1>1, <1>5 DEF Start
  <1>7. ASSUME next = 0, NEW n \in items \ seen PROVE Rank(items, n) = len
    <2>1. ~(end < len - 1)
      BY <1>1, <1>5, <1>7
    <2>2. ~(Rank(items, n) <= end)
      BY <1>4, <1>7
    <2>3. Rank(items, n) \in Nat /\ Rank(items, n) <= len
      BY <1>2, <1>7
    <2> QED
      BY <1>1, <2>1, <2>2, <2>3
  <1>8. next \in Nat
    BY <1>1, <1>5
  <1> QED
    BY <1>1, <1>4, <1>6, <1>7, <1>8

-----------------------------------------------------------------------------
(* Steps.                                                                  *)

\* A walk that is over, given up or lost with its connection.
LEMMA WalkEnds ==
  ASSUME PagesInv, walk' = NoWalk, snapshots' = snapshots
  PROVE  PagesInv'
  <1>1. ~walk'.on
    BY DEF NoWalk
  <1> QED
    BY <1>1 DEF PagesInv, ListTypeOK, PagesFitTogether, TokenWithinList

\* Nothing is selected twice or skipped by one page.
LEMMA PageStep ==
  ASSUME PagesInv, ListSnapshots
  PROVE  PagesInv'
  <1> DEFINE items == Items(walk)
             next == NextToken(items, walk.token, walk.max)
             page == Page(items, walk.token, walk.max)
  <1>1. /\ walk.on /\ ~walk.over /\ walk \in Walks /\ snapshots' = snapshots
        /\ walk' = [walk EXCEPT !.seen = walk.seen \union page, !.token = next,
                                !.over = next = 0]
    BY DEF ListSnapshots, PagesInv, ListTypeOK, Walks
  <1>2. /\ walk.token \in Nat /\ walk.max \in PageSizes
        /\ items \in SUBSET Ids /\ IsFiniteSet(items) /\ Cardinality(items) \in Nat
    BY <1>1, ItemsFinite DEF Walks, PagesInv, ListTypeOK
  <1>3. page \subseteq items
    BY DEF Page
  <1>4. next \in Nat
    BY <1>2, PageEnd DEF NextToken
  <1>5. /\ walk' \in Walks /\ walk'.id = walk.id /\ walk'.src = walk.src
        /\ walk'.same = walk.same /\ walk'.token = next
        /\ walk'.seen = walk.seen \union page /\ (walk'.over <=> next = 0)
    <2> HIDE DEF items, next, page
    <2> QED
      BY <1>1, <1>2, <1>3, <1>4 DEF Walks
  <1>6. Items(walk)' = items
    BY <1>1, <1>5 DEF Items
  <1>7. ListTypeOK'
    BY <1>1, <1>5 DEF PagesInv, ListTypeOK, Walks
  <1>8. ASSUME walk.same
        PROVE  PagesFitTogether' /\ TokenWithinList'
    <2>1. /\ walk.seen = {n \in items : Rank(items, n) <= Start(walk.token)}
          /\ Start(walk.token) <= Cardinality(items)
      BY <1>1, <1>8 DEF PagesInv, PagesFitTogether, TokenWithinList
    <2>2. /\ next # 0 => /\ walk'.seen = {n \in items : Rank(items, n) <= Start(next)}
                         /\ Start(next) <= Cardinality(items)
          /\ next = 0 => \A n \in items \ walk'.seen : Rank(items, n) = Cardinality(items)
      BY <1>2, <1>5, <2>1, NextPage
    <2> QED
      BY <1>5, <1>6, <2>2 DEF PagesFitTogether, TokenWithinList
  <1>9. CASE ~walk.same
    BY <1>5, <1>7, <1>9 DEF PagesInv, PagesFitTogether, TokenWithinList
  <1> QED
    BY <1>7, <1>8, <1>9 DEF PagesInv

\* A walk begins before the first entry.
LEMMA BeginStep ==
  ASSUME PagesInv, BeginWalk
  PROVE  PagesInv'
  <1>1. PICK max \in PageSizes, src \in Sources \union {NoPVC}, id \in Ids \union {AnyId} :
          walk' = [on |-> TRUE, id |-> id, src |-> src, max |-> max, token |-> 0,
                   seen |-> {}, same |-> TRUE, over |-> FALSE]
    BY DEF BeginWalk
  <1>2. /\ snapshots' = snapshots /\ walk' \in Walks
        /\ walk'.token = 0 /\ walk'.seen = {} /\ ~walk'.over
    BY <1>1 DEF BeginWalk, Walks
  <1>3. DOMAIN snapshots' \subseteq Ids
    BY <1>2 DEF PagesInv, ListTypeOK
  <1>4. Items(walk)' \subseteq Ids /\ Cardinality(Items(walk)') \in Nat
    <2>1. Items(walk') \subseteq Ids /\ Cardinality(Items(walk')) \in Nat
      BY ItemsFinite DEF PagesInv, ListTypeOK
    <2>2. Items(walk)' = Items(walk')
      BY <1>2 DEF Items
    <2> QED
      BY <2>1, <2>2
  <1>5. Start(walk'.token) = 0
    BY <1>2 DEF Start
  <1>6. \A n \in Items(walk)' : ~(Rank(Items(walk)', n) <= 0)
    BY <1>4, RankBounds
  <1>7. ListTypeOK'
    BY <1>2 DEF PagesInv, ListTypeOK, Walks
  <1>8. PagesFitTogether'
    BY <1>2, <1>5, <1>6 DEF PagesFitTogether
  <1>9. TokenWithinList'
    BY <1>4, <1>5 DEF TokenWithinList
  <1> QED
    BY <1>7, <1>8, <1>9 DEF PagesInv

\* Snapshots come and go; the walk is then on a changed list.
LEMMA ChangeStep ==
  ASSUME PagesInv, NEW n \in Ids, Appears(n) \/ Vanishes(n)
  PROVE  PagesInv'
  <1>1. walk.on => walk' \in Walks /\ ~walk'.same
    BY DEF Appears, Vanishes, Changed, PagesInv, ListTypeOK, Walks
  <1>2. ~walk.on => ~walk'.on
    BY DEF Appears, Vanishes, Changed
  <1>3. DOMAIN snapshots' \subseteq Ids
    BY DEF Appears, Vanishes, PagesInv, ListTypeOK
  <1>4. \A m \in DOMAIN snapshots' : snapshots'[m] \in Shapes[m]
    BY DEF Appears, Vanishes, PagesInv, ListTypeOK
  <1> QED
    BY <1>1, <1>2, <1>3, <1>4 DEF PagesInv, ListTypeOK, PagesFitTogether, TokenWithinList,
       Walks

\* Every step of the listing keeps the invariant.
LEMMA PagesNext == PagesInv /\ [ListNext]_listVars => PagesInv'
  <1> SUFFICES ASSUME PagesInv, [ListNext]_listVars PROVE PagesInv'
    OBVIOUS
  <1>1. CASE UNCHANGED listVars
    BY <1>1 DEF listVars, PagesInv, ListTypeOK, PagesFitTogether, TokenWithinList, Items
  <1> QED
    BY <1>1, WalkEnds, PageStep, BeginStep, ChangeStep DEF ListNext, ListPanics, EndWalk

\* No walk is in progress at first.
LEMMA PagesInit == ListInit => PagesInv
  <1> SUFFICES ASSUME ListInit PROVE PagesInv
    OBVIOUS
  <1>1. ~walk.on /\ DOMAIN snapshots = {}
    BY DEF ListInit, NoWalk
  <1> QED
    BY <1>1 DEF PagesInv, ListTypeOK, PagesFitTogether, TokenWithinList

\* The invariant explains the panics.
LEMMA TokensAreSafe == PagesInv => PanicsExplained
  <1> SUFFICES ASSUME PagesInv, walk.on, ~walk.over, walk.same,
                      Panics(Items(walk), walk.token, walk.max)
               PROVE  \E n \in Items(walk) : snapshots[n].src = NoPVC
    BY DEF PanicsExplained
  <1>1. walk.token \in Nat /\ walk.max \in PageSizes /\ Items(walk) \in SUBSET Ids
    BY ItemsFinite DEF PagesInv, ListTypeOK
  <1>2. Start(walk.token) \in Nat /\ End(Items(walk), walk.token, walk.max) \in Nat
    BY <1>1, PageEnd
  <1>3. Start(walk.token) <= End(Items(walk), walk.token, walk.max)
    BY <1>1, PageEnd DEF PagesInv, TokenWithinList
  <1>4. SourcePanics(Items(walk), walk.token, walk.max)
    BY <1>2, <1>3 DEF Panics, SlicePanics
  <1> QED
    BY <1>4 DEF SourcePanics, Page

-----------------------------------------------------------------------------
(* The theorems.                                                           *)

\* On a list nobody changes the pages of ListSnapshots fit together, for every
\* length of the list and every page size.
THEOREM PagesFit == ListSpec => []PagesFitTogether
  <1>1. PagesInv => PagesFitTogether
    BY DEF PagesInv
  <1> QED
    BY <1>1, PagesInit, PagesNext, PTL DEF ListSpec

\* A token that an earlier page of an unchanged list returned never makes
\* ListSnapshots slice beyond it.
THEOREM TokensSafe == ListSpec => []PanicsExplained
  BY TokensAreSafe, PagesInit, PagesNext, PTL DEF ListSpec
=============================================================================
