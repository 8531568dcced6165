---------------------------- MODULE ClientProofs ----------------------------
(***************************************************************************)
(* For every inbox, page size, number of mutations in flight and of        *)
(* faults: at rest a connected client shows the server's first page and    *)
(* counts, and its status tells the truth.  The argument follows what the  *)
(* client holds: a validator that is still current vouches for the list,   *)
(* but for a pending mutation that will age it; and while the stream is    *)
(* open, whatever is out of date is announced, hinted at or being fetched. *)
(***************************************************************************)
EXTENDS ClientSync, FiniteSetTheorems, WellFoundedInduction, TLAPS

\* A set of natural numbers has a least element, and one below a bound a greatest.
LEMMA HasLeast ==
    ASSUME NEW S \in SUBSET Nat, S # {}
    PROVE  \E x \in S : \A y \in S : x <= y
<1>1. PICK x \in S : \A y \in S : <<y, x>> \notin OpToRel(<, Nat)
  BY NatLessThanWellFounded, WFMin
<1>2. \A y \in S : ~(y < x)
  BY <1>1 DEF OpToRel
<1> QED
  BY <1>2

LEMMA HasGreatest ==
    ASSUME NEW n \in Nat, NEW S \in SUBSET Nat, S # {}, \A x \in S : x <= n
    PROVE  \E x \in S : \A y \in S : y <= x
<1> DEFINE T == {n - x : x \in S}
<1>1. \A x \in S : n - x \in Nat
  OBVIOUS
<1>2. T \in SUBSET Nat /\ T # {}
  BY <1>1
<1>3. PICK t \in T : \A u \in T : t <= u
  <2> HIDE DEF T
  <2> QED
    BY <1>2, HasLeast
<1>4. PICK x \in S : t = n - x
  OBVIOUS
<1>5. \A y \in S : n - y \in T
  OBVIOUS
<1>6. \A y \in S : y <= x
  <2> HIDE DEF T
  <2> QED
    BY <1>3, <1>4, <1>5
<1> QED
  BY <1>6

\* What has fewer than k above it comes before the rest, and is k if anything is left.
LEMMA TopPart ==
    ASSUME NEW n \in Nat, NEW R \in SUBSET Nat, \A x \in R : x <= n, NEW k \in Nat \ {0}
    PROVE  LET top == {i \in R : Cardinality({j \in R : j > i}) < k}
           IN  /\ \A i \in R \ top, j \in top : i < j
               /\ R # top => Cardinality(top) = k
<1> DEFINE Above(i) == {j \in R : j > i}
           top == {i \in R : Cardinality(Above(i)) < k}
<1>1. IsFiniteSet(R)
  BY FS_BoundedSetOfNaturals
<1>2. ASSUME NEW i \in R
      PROVE  /\ Above(i) \in SUBSET R /\ IsFiniteSet(Above(i))
             /\ Cardinality(Above(i)) \in Nat
             /\ i \in top <=> Cardinality(Above(i)) < k
  <2>1. Above(i) \in SUBSET R
    OBVIOUS
  <2>2. IsFiniteSet(Above(i))
    BY <1>1, <2>1, FS_Subset
  <2> HIDE DEF Above
  <2> QED
    BY <2>1, <2>2, FS_CardinalityType
<1>3. \A i \in R : \A j \in R : j \in Above(i) <=> j > i
  OBVIOUS
<1>4. top \in SUBSET R
  OBVIOUS
<1>5. IsFiniteSet(top) /\ Cardinality(top) \in Nat
  <2>1. IsFiniteSet(top)
    <3> HIDE DEF top
    <3> QED
      BY <1>1, <1>4, FS_Subset
  <2> HIDE DEF top
  <2> QED
    BY <2>1, FS_CardinalityType
<1> HIDE DEF Above, top
<1>6. ASSUME NEW i \in R, NEW j \in R, i \notin top, j \in top
      PROVE  i < j
  <2> SUFFICES ASSUME j <= i
               PROVE  FALSE
    OBVIOUS
  <2>1. ASSUME NEW x \in R, x \in Above(i)
        PROVE  x \in Above(j)
    BY <1>3, <2>1
  <2>2. Above(i) \in SUBSET Above(j)
    BY <1>2, <2>1
  <2>3. Cardinality(Above(i)) <= Cardinality(Above(j))
    BY <1>2, <2>2, FS_Subset
  <2> QED
    BY <1>2, <1>6, <2>3
<1>7. ASSUME R # top
      PROVE  Cardinality(top) = k
  <2>1. R \ top # {} /\ R \ top \in SUBSET Nat /\ \A x \in R \ top : x <= n
    BY <1>4, <1>7
  <2>2. PICK i \in R \ top : \A y \in R \ top : y <= i
    BY <2>1, HasGreatest
  <2>3. Above(i) = top
    <3>1. ASSUME NEW x \in R
          PROVE  x \in Above(i) <=> x \in top
      BY <1>3, <1>6, <2>2, <3>1
    <3> QED
      BY <1>2, <1>4, <3>1
  <2>4. Cardinality(top) >= k
    BY <1>2, <2>3
  <2>5. top # {} /\ top \in SUBSET Nat
    BY <1>4, <2>4, FS_EmptySet
  <2>6. PICK j \in top : \A y \in top : j <= y
    BY <2>5, HasLeast
  <2>7. j \in R
    BY <1>4
  <2>8. Above(j) = top \ {j}
    <3>1. ASSUME NEW x \in R
          PROVE  x \in Above(j) <=> x \in top /\ x # j
      <4>1. CASE x \in top
        BY <1>3, <2>6, <2>7, <4>1
      <4>2. CASE x \notin top
        BY <1>3, <1>6, <2>7, <4>2
      <4> QED
        BY <4>1, <4>2
    <3> QED
      BY <1>2, <1>4, <2>7, <3>1
  <2>9. Cardinality(Above(j)) = Cardinality(top) - 1
    BY <1>5, <2>8, FS_RemoveElement
  <2> QED
    BY <1>2, <1>5, <2>4, <2>7, <2>9
<1> QED
  BY <1>4, <1>6, <1>7 DEF top, Above

----------------------------------------------------------------------------
(* What the server answers *)

ServerForm == [n : 0..MaxItems, read : SUBSET Items, archived : SUBSET Items,
               seen : 0..MaxItems]

LEMMA ServedType ==
    ASSUME NEW s \in ServerForm, NEW view
    PROVE  /\ InView(s, view) \subseteq Items /\ InView(s, view) \in SUBSET Nat
           /\ \A i \in InView(s, view) : i <= MaxItems /\ i # 0
<1>1. s.n \in 0..MaxItems /\ MaxItems \in Nat
  BY ClientAssumption DEF ServerForm
<1> QED
  BY <1>1 DEF InView, Items

\* A page is the top of what is below the cursor; one with a successor is cut off
\* at its last item (inbox.rs, list_items).
LEMMA PageFacts ==
    ASSUME NEW s \in ServerForm, NEW view, NEW below \in Nat
    PROVE  LET rest == {i \in InView(s, view) : below = 0 \/ i < below}
               page == Page(s, view, below)
           IN  /\ page \in PageForm
               /\ page.items \subseteq rest /\ page.read = page.items \cap s.read
               /\ page.next = 0 => page.items = rest
               /\ page.next # 0 => /\ page.items # {} /\ page.next = Min(page.items)
                                   /\ page.next \in page.items
                                   /\ \A i \in page.items : page.next <= i
                                   /\ \A i \in rest \ page.items : i < page.next
<1> DEFINE rest == {i \in InView(s, view) : below = 0 \/ i < below}
           top == {i \in rest : Cardinality({j \in rest : j > i}) < PageSize}
           page == Page(s, view, below)
<1>1. page = [items |-> top, read |-> top \cap s.read,
              next |-> IF Cardinality(top) = PageSize THEN Min(top) ELSE 0]
  BY DEF Page
<1>2. /\ MaxItems \in Nat /\ PageSize \in Nat \ {0}
      /\ rest \in SUBSET Nat /\ rest \subseteq Items /\ \A i \in rest : i <= MaxItems /\ i # 0
  BY ServedType, ClientAssumption
<1>3. (\A i \in rest \ top, j \in top : i < j) /\ (rest # top => Cardinality(top) = PageSize)
  <2> HIDE DEF rest
  <2> QED
    BY <1>2, TopPart
<1>4. top \subseteq rest
  OBVIOUS
<1> HIDE DEF top, rest
<1>5. CASE Cardinality(top) = PageSize
  <2>1. top # {} /\ top \in SUBSET Nat
    BY <1>2, <1>4, <1>5, FS_EmptySet
  <2>2. PICK x \in top : \A y \in top : x <= y
    BY <2>1, HasLeast
  <2>3. Min(top) \in top /\ \A y \in top : Min(top) <= y
    BY <2>2 DEF Min
  <2>4. PICK m : m = Min(top)
    OBVIOUS
  <2>5. m \in rest /\ m \in Nat /\ m # 0 /\ m <= MaxItems
    BY <1>2, <1>4, <2>3, <2>4
  <2>6. \A i \in rest \ top : i < m
    BY <1>3, <2>3, <2>4
  <2>7. page = [items |-> top, read |-> top \cap s.read, next |-> m]
    BY <1>1, <1>5, <2>4
  <2>8. m \in 0..MaxItems
    BY <1>2, <2>5
  <2>9. top \in SUBSET Items /\ top \cap s.read \in SUBSET Items
    BY <1>2, <1>4
  <2>10. page \in PageForm
    BY <2>7, <2>8, <2>9 DEF PageForm
  <2> HIDE DEF page
  <2>11. page.items = top /\ page.read = top \cap s.read /\ page.next = m
    BY <2>7
  <2>12. page.next = Min(page.items) /\ page.next \in page.items
    BY <2>3, <2>4, <2>11
  <2> QED
    BY <1>4, <2>1, <2>3, <2>4, <2>5, <2>6, <2>10, <2>11, <2>12 DEF rest, page
<1>6. CASE Cardinality(top) # PageSize
  <2>1. page = [items |-> top, read |-> top \cap s.read, next |-> 0]
    BY <1>1, <1>6
  <2>2. top \in SUBSET Items /\ top \cap s.read \in SUBSET Items
    BY <1>2, <1>4
  <2>3. page \in PageForm
    <3>1. 0 \in 0..MaxItems
      BY <1>2
    <3> QED
      BY <2>1, <2>2, <3>1 DEF PageForm
  <2> HIDE DEF page
  <2>4. page.items = top /\ page.read = top \cap s.read /\ page.next = 0
    BY <2>1
  <2> QED
    BY <1>3, <1>4, <1>6, <2>3, <2>4 DEF rest, page
<1> QED
  BY <1>5, <1>6

LEMMA CountsType ==
    ASSUME NEW s \in ServerForm, s.seen <= s.n
    PROVE  Counts(s) \in CountsForm
<1>1. s.n \in Nat /\ s.seen \in Nat
  BY ClientAssumption DEF ServerForm
<1>2. IsFiniteSet(1..s.n \ (s.read \cup s.archived))
  <2>1. IsFiniteSet(1..s.n)
    BY <1>1, FS_Interval
  <2> QED
    BY <2>1, FS_Difference
<1>3. Cardinality(1..s.n \ (s.read \cup s.archived)) \in Nat
  BY <1>2, FS_CardinalityType
<1>4. s.n - s.seen \in Nat
  BY <1>1
<1> QED
  BY <1>3, <1>4 DEF Counts, CountsForm

LEMMA EffectType ==
    ASSUME NEW s \in ServerForm, s.seen <= s.n, NEW op \in Ops \cup DeviceOps, NEW i \in Items
    PROVE  Effect(s, op, i) \in ServerForm /\ Effect(s, op, i).seen <= Effect(s, op, i).n
<1>1. op \in {"read", "unread", "archive", "unarchive", "readAll", "archiveAll", "seenAll"}
  BY ClientAssumption
<1>2. /\ s = [n |-> s.n, read |-> s.read, archived |-> s.archived, seen |-> s.seen]
      /\ s.n \in 0..MaxItems /\ s.seen \in 0..MaxItems
      /\ s.read \subseteq Items /\ s.archived \subseteq Items /\ 1..s.n \subseteq Items
  BY ClientAssumption DEF ServerForm, Items
<1>3. ASSUME NEW read \in SUBSET Items, NEW archived \in SUBSET Items,
             NEW seen \in 0..MaxItems, seen <= s.n,
             Effect(s, op, i) = [n |-> s.n, read |-> read, archived |-> archived,
                                 seen |-> seen]
      PROVE  Effect(s, op, i) \in ServerForm /\ Effect(s, op, i).seen <= Effect(s, op, i).n
  BY <1>2, <1>3 DEF ServerForm
<1>4. CASE op = "read"
  <2>1. Effect(s, op, i) = [s EXCEPT !.read = s.read \cup {i}]
    BY <1>4 DEF Effect
  <2> QED
    BY <1>2, <1>3, <2>1
<1>5. CASE op = "unread"
  <2>1. Effect(s, op, i) = [s EXCEPT !.read = s.read \ {i}]
    BY <1>5 DEF Effect
  <2> QED
    BY <1>2, <1>3, <2>1
<1>6. CASE op = "archive"
  <2>1. Effect(s, op, i) = [s EXCEPT !.archived = s.archived \cup {i}]
    BY <1>6 DEF Effect
  <2> QED
    BY <1>2, <1>3, <2>1
<1>7. CASE op = "unarchive"
  <2>1. Effect(s, op, i) = [s EXCEPT !.archived = s.archived \ {i}]
    BY <1>7 DEF Effect
  <2> QED
    BY <1>2, <1>3, <2>1
<1>8. CASE op = "readAll"
  <2>1. Effect(s, op, i) = [s EXCEPT !.read = 1..s.n]
    BY <1>8 DEF Effect
  <2> QED
    BY <1>2, <1>3, <2>1
<1>9. CASE op = "archiveAll"
  <2>1. Effect(s, op, i) = [s EXCEPT !.archived = 1..s.n]
    BY <1>9 DEF Effect
  <2> QED
    BY <1>2, <1>3, <2>1
<1>10. CASE op = "seenAll"
  <2>1. Effect(s, op, i) = [s EXCEPT !.seen = s.n]
    BY <1>10 DEF Effect
  <2>2. s.n <= s.n
    BY <1>2, ClientAssumption
  <2> QED
    BY <1>2, <1>3, <2>1, <2>2
<1> QED
  BY <1>1, <1>4, <1>5, <1>6, <1>7, <1>8, <1>9, <1>10

\* The first page is the whole view, or the part of it from its last item up.
LEMMA FirstPage ==
    ASSUME NEW s \in ServerForm, NEW view
    PROVE  LET page == Page(s, view, 0)
           IN  /\ page \in PageForm
               /\ page.items \subseteq InView(s, view) /\ page.read = page.items \cap s.read
               /\ page.next = 0 => page.items = InView(s, view)
               /\ page.next # 0 =>
                     /\ page.items # {} /\ page.next = Min(page.items)
                     /\ page.next \in page.items
                     /\ \A i \in page.items : page.next <= i
                     /\ \A i \in InView(s, view) \ page.items : i < page.next
<1>1. {i \in InView(s, view) : 0 = 0 \/ i < 0} = InView(s, view) /\ 0 \in Nat
  OBVIOUS
<1> QED
  BY <1>1, PageFacts

\* What a list owes to the server's first page depends on its items alone.
LEMMA ListFacts ==
    ASSUME NEW s \in ServerForm, NEW shown \in SnapForm
    PROVE  LET page == Page(s, shown.filter, 0)
               Fetched(i) == page.next = 0 \/ i >= page.next
           IN  ListInSync(s, shown) <=>
                  \A i \in Items :
                     /\ i \in shown.items /\ Fetched(i) <=> i \in page.items
                     /\ i \in page.items => (i \in shown.read <=> i \in s.read)
<1> DEFINE page == Page(s, shown.filter, 0)
<1>1. page \in PageForm /\ page.read = page.items \cap s.read
  BY FirstPage
<1>2. shown.items \subseteq Items /\ page.items \subseteq Items
  BY <1>1 DEF SnapForm, PageForm
<1>3. ListInSync(s, shown) <=>
         /\ page.items = IF page.next = 0 THEN shown.items
                         ELSE {i \in shown.items : i >= page.next}
         /\ page.read = shown.read \cap page.items
  BY DEF ListInSync
<1> HIDE DEF page
<1> DEFINE Fetched(i) == page.next = 0 \/ i >= page.next
           Agrees(i) == /\ i \in shown.items /\ Fetched(i) <=> i \in page.items
                        /\ i \in page.items => (i \in shown.read <=> i \in s.read)
<1>4. ListInSync(s, shown) => \A i \in Items : Agrees(i)
  BY <1>1, <1>3
<1>5. ASSUME \A i \in Items : Agrees(i)
      PROVE  ListInSync(s, shown)
  <2>1. page.items = IF page.next = 0 THEN shown.items
                     ELSE {i \in shown.items : i >= page.next}
    BY <1>2, <1>5
  <2>2. page.read = shown.read \cap page.items
    BY <1>1, <1>2, <1>5
  <2> QED
    BY <1>3, <2>1, <2>2
<1> QED
  BY <1>4, <1>5 DEF page

LEMMA SameList ==
    ASSUME NEW s, NEW shown, NEW new,
           new.items = shown.items, new.read = shown.read, new.filter = shown.filter
    PROVE  ListInSync(s, new) <=> ListInSync(s, shown)
BY DEF ListInSync

\* A fresh page leaves the list in sync, with or without its tail (client.ts,
\* mergeFirstPage).
LEMMA MergedList ==
    ASSUME TypeOK, NEW page \in PageForm, page.read \subseteq page.items
    PROVE  /\ Merged(page) \in SnapForm /\ Merged(page).read \subseteq Merged(page).items
           /\ Merged(page).filter = snap.filter
           /\ page = Page(srv, snap.filter, 0) => ListInSync(srv, Merged(page))
<1>1. /\ srv \in ServerForm /\ snap \in SnapForm
      /\ page.items \subseteq Items /\ page.next \in Nat /\ Items \subseteq Nat
  BY ClientAssumption DEF TypeOK, ServerForm, PageForm, Items
<1>2. /\ snap.items \subseteq Items /\ snap.read \subseteq Items
      /\ snap = [items |-> snap.items, read |-> snap.read, unread |-> snap.unread,
                 unseen |-> snap.unseen, hasMore |-> snap.hasMore, filter |-> snap.filter]
      /\ snap.unread \in Nat /\ snap.unseen \in Nat /\ snap.hasMore \in BOOLEAN
      /\ snap.filter \in Views
  BY <1>1 DEF SnapForm
<1>3. Tail(page) \subseteq snap.items
  BY DEF Tail
<1>4. CASE KeepsTail(page)
  <2>1. Merged(page) = [items |-> page.items \cup Tail(page),
                        read |-> page.read \cup (snap.read \cap Tail(page)),
                        unread |-> snap.unread, unseen |-> snap.unseen,
                        hasMore |-> snap.hasMore, filter |-> snap.filter]
    BY <1>2, <1>4 DEF Merged
  <2>2. Merged(page) \in SnapForm /\ Merged(page).read \subseteq Merged(page).items
    BY <1>1, <1>2, <1>3, <2>1 DEF SnapForm
  <2>3. ASSUME page = Page(srv, snap.filter, 0)
        PROVE  ListInSync(srv, Merged(page))
    <3>1. /\ page.read = page.items \cap srv.read
          /\ page.next = Min(page.items)
          /\ \A i \in page.items : page.next <= i
      BY <1>1, <1>4, <2>3, FirstPage DEF KeepsTail
    <3>2. \A i \in Tail(page) : i \notin page.items /\ i < page.next
      BY <3>1 DEF Tail
    <3>3. page = Page(srv, Merged(page).filter, 0) /\ page.next # 0
      BY <1>4, <2>1, <2>3 DEF KeepsTail
    <3>4. Merged(page).items = page.items \cup Tail(page)
      BY <2>1
    <3>5. Merged(page).read = page.read \cup (snap.read \cap Tail(page))
      BY <2>1
    <3>6. ASSUME NEW i \in Items
          PROVE  /\ i \in Merged(page).items /\ i >= page.next <=> i \in page.items
                 /\ i \in page.items => (i \in Merged(page).read <=> i \in srv.read)
      BY <1>1, <1>3, <3>1, <3>2, <3>4, <3>5
    <3> QED
      BY <1>1, <2>2, <3>3, <3>6, ListFacts
  <2> QED
    BY <2>1, <2>2, <2>3
<1>5. CASE ~KeepsTail(page)
  <2>1. Merged(page) = [items |-> page.items, read |-> page.read,
                        unread |-> snap.unread, unseen |-> snap.unseen,
                        hasMore |-> page.next # 0, filter |-> snap.filter]
    BY <1>2, <1>5 DEF Merged
  <2>2. Merged(page) \in SnapForm /\ Merged(page).read \subseteq Merged(page).items
    BY <1>1, <1>2, <2>1 DEF SnapForm
  <2>3. ASSUME page = Page(srv, snap.filter, 0)
        PROVE  ListInSync(srv, Merged(page))
    <3>1. /\ page.read = page.items \cap srv.read
          /\ page.next # 0 => \A i \in page.items : page.next <= i
      BY <1>1, <2>3, FirstPage
    <3>2. page = Page(srv, Merged(page).filter, 0)
      BY <2>1, <2>3
    <3>3. Merged(page).items = page.items /\ Merged(page).read = page.read
      BY <2>1
    <3>4. ASSUME NEW i \in Items
          PROVE  /\ i \in Merged(page).items /\ (page.next = 0 \/ i >= page.next)
                       <=> i \in page.items
                 /\ i \in page.items => (i \in Merged(page).read <=> i \in srv.read)
      BY <1>1, <3>1, <3>3
    <3> QED
      BY <1>1, <2>2, <3>2, <3>4, ListFacts
  <2> QED
    BY <2>1, <2>2, <2>3
<1> QED
  BY <1>4, <1>5

\* A page of what the view holds adds nothing to the first one (doFetchMore).
LEMMA AppendedList ==
    ASSUME NEW s \in ServerForm, NEW shown \in SnapForm, NEW new \in SnapForm,
           NEW items, items \subseteq InView(s, shown.filter),
           new.items = shown.items \cup items,
           new.read = shown.read \cup ((items \cap s.read) \ shown.items),
           new.filter = shown.filter,
           ListInSync(s, shown)
    PROVE  ListInSync(s, new)
<1> DEFINE page == Page(s, shown.filter, 0)
<1>1. /\ page \in PageForm /\ page.items \subseteq InView(s, shown.filter)
      /\ page.next = 0 => page.items = InView(s, shown.filter)
      /\ page.next # 0 => \A i \in page.items : page.next <= i
      /\ page.next # 0 => \A i \in InView(s, shown.filter) \ page.items : i < page.next
  BY FirstPage
<1>2. InView(s, shown.filter) \subseteq Items /\ Items \subseteq Nat /\ page.next \in Nat
  BY <1>1, ServedType, ClientAssumption DEF Items, PageForm
<1>3. \A i \in Items :
         /\ i \in shown.items /\ (page.next = 0 \/ i >= page.next) <=> i \in page.items
         /\ i \in page.items => (i \in shown.read <=> i \in s.read)
  BY ListFacts
<1> HIDE DEF page
<1>4. ASSUME NEW i \in Items
      PROVE  /\ i \in new.items /\ (page.next = 0 \/ i >= page.next) <=> i \in page.items
             /\ i \in page.items => (i \in new.read <=> i \in s.read)
  <2>1. i \in items /\ (page.next = 0 \/ i >= page.next) => i \in page.items
    BY <1>1, <1>2
  <2>2. i \in page.items => i \in shown.items
    BY <1>3
  <2> QED
    BY <1>3, <2>1, <2>2
<1>5. page = Page(s, new.filter, 0)
  BY DEF page
<1> QED
  BY <1>4, <1>5, ListFacts

\* What the client shows of an action before the server answers is a list again.
LEMMA OptimisticType ==
    ASSUME TypeOK, NEW op \in Ops, NEW i \in Items
    PROVE  /\ Optimistic(op, i) \in SnapForm
           /\ Optimistic(op, i).read \subseteq Optimistic(op, i).items
           /\ Optimistic(op, i).filter = snap.filter
<1>1. op \in {"read", "unread", "archive", "unarchive", "readAll", "archiveAll", "seenAll"}
  BY ClientAssumption
<1>2. /\ snap.items \subseteq Items /\ snap.read \subseteq snap.items
      /\ snap = [items |-> snap.items, read |-> snap.read, unread |-> snap.unread,
                 unseen |-> snap.unseen, hasMore |-> snap.hasMore, filter |-> snap.filter]
      /\ snap.unread \in Nat /\ snap.unseen \in Nat /\ snap.hasMore \in BOOLEAN
      /\ snap.filter \in Views
  BY DEF TypeOK, SnapForm
<1>3. ASSUME NEW new, NEW items \in SUBSET Items, NEW read \in SUBSET items,
             NEW unread \in Nat, NEW unseen \in Nat,
             new = [items |-> items, read |-> read, unread |-> unread,
                    unseen |-> unseen, hasMore |-> snap.hasMore, filter |-> snap.filter]
      PROVE  new \in SnapForm /\ new.read \subseteq new.items /\ new.filter = snap.filter
  BY <1>2, <1>3 DEF SnapForm
<1>4. CASE Optimistic(op, i) = snap
  BY <1>2, <1>4 DEF TypeOK
<1>5. /\ Less(snap.unread, TRUE) \in Nat /\ snap.unread + 1 \in Nat
      /\ Less(snap.unread, i \notin snap.read) \in Nat
  BY <1>2 DEF Less
<1>6. CASE op = "read" /\ i \in snap.items \ snap.read
  <2>1. Optimistic(op, i) = [snap EXCEPT !.read = snap.read \cup {i},
                                         !.unread = Less(snap.unread, TRUE)]
    BY <1>6 DEF Optimistic
  <2>2. snap.read \cup {i} \subseteq snap.items
    BY <1>2, <1>6
  <2> QED
    BY <1>2, <1>3, <1>5, <2>1, <2>2
<1>7. CASE op = "unread" /\ i \in snap.read
  <2>1. Optimistic(op, i) = [snap EXCEPT !.read = snap.read \ {i},
                                         !.unread = snap.unread + 1]
    BY <1>7 DEF Optimistic
  <2> QED
    BY <1>2, <1>3, <1>5, <2>1
<1>8. CASE op = "archive" /\ i \in snap.items /\ snap.filter # "archived"
  <2>1. Optimistic(op, i) =
           [snap EXCEPT !.items = snap.items \ {i}, !.read = snap.read \ {i},
                        !.unread = Less(snap.unread, i \notin snap.read)]
    BY <1>2, <1>8 DEF Optimistic
  <2>2. snap.items \ {i} \subseteq Items /\ snap.read \ {i} \subseteq snap.items \ {i}
    BY <1>2
  <2>3. PICK unread \in Nat : unread = Less(snap.unread, i \notin snap.read)
    BY <1>5
  <2>4. Optimistic(op, i) = [items |-> snap.items \ {i}, read |-> snap.read \ {i},
                             unread |-> unread, unseen |-> snap.unseen,
                             hasMore |-> snap.hasMore, filter |-> snap.filter]
    BY <1>2, <2>1, <2>3
  <2> QED
    BY <1>2, <1>3, <2>2, <2>4
<1>9. CASE op = "unarchive" /\ i \in snap.items /\ snap.filter = "archived"
  <2>1. PICK unread \in Nat : unread = IF i \in snap.read THEN snap.unread
                                       ELSE snap.unread + 1
    BY <1>2, <1>5
  <2>2. Optimistic(op, i) =
           [snap EXCEPT !.items = snap.items \ {i}, !.read = snap.read \ {i},
                        !.unread = unread]
    BY <1>2, <1>9, <2>1 DEF Optimistic
  <2>3. snap.items \ {i} \subseteq Items /\ snap.read \ {i} \subseteq snap.items \ {i}
    BY <1>2
  <2>4. Optimistic(op, i) = [items |-> snap.items \ {i}, read |-> snap.read \ {i},
                             unread |-> unread, unseen |-> snap.unseen,
                             hasMore |-> snap.hasMore, filter |-> snap.filter]
    BY <1>2, <2>2
  <2> QED
    BY <1>2, <1>3, <2>3, <2>4
<1>10. CASE op = "readAll"
  <2>1. Optimistic(op, i) = [snap EXCEPT !.read = snap.items, !.unread = 0]
    BY <1>10 DEF Optimistic
  <2> QED
    BY <1>2, <1>3, <2>1
<1>11. CASE op = "archiveAll"
  <2>1. \/ Optimistic(op, i) = [snap EXCEPT !.unread = 0]
        \/ Optimistic(op, i) = [snap EXCEPT !.items = {}, !.read = {}, !.unread = 0]
    BY <1>11 DEF Optimistic
  <2> QED
    BY <1>2, <1>3, <2>1
<1>12. CASE op = "seenAll"
  <2>1. Optimistic(op, i) = [snap EXCEPT !.unseen = 0]
    BY <1>12 DEF Optimistic
  <2> QED
    BY <1>2, <1>3, <2>1
<1>13. \/ op = "read" /\ i \in snap.items \ snap.read
       \/ op = "unread" /\ i \in snap.read
       \/ op = "archive" /\ i \in snap.items /\ snap.filter # "archived"
       \/ op = "unarchive" /\ i \in snap.items /\ snap.filter = "archived"
       \/ op \in {"readAll", "archiveAll", "seenAll"}
       \/ Optimistic(op, i) = snap
  BY <1>1 DEF Optimistic
<1> QED
  BY <1>4, <1>6, <1>7, <1>8, <1>9, <1>10, <1>11, <1>12, <1>13

\* An action the server has nothing to do for changes nothing of its first page:
\* the item it was shown for is further down (client.ts, markRead, archive).
LEMMA OptimisticVoid ==
    ASSUME TypeOK, NEW op \in Ops, NEW i \in Items,
           op \notin WholeInbox, Effect(srv, op, i) = srv,
           ListInSync(srv, snap)
    PROVE  ListInSync(srv, Optimistic(op, i))
<1> DEFINE page == Page(srv, snap.filter, 0)
           new == Optimistic(op, i)
           Fetched(j) == page.next = 0 \/ j >= page.next
<1>1. op \in {"read", "unread", "archive", "unarchive"}
  BY ClientAssumption DEF WholeInbox
<1>2. /\ srv \in ServerForm /\ snap \in SnapForm /\ new \in SnapForm
      /\ new.filter = snap.filter /\ snap.read \subseteq snap.items
  BY OptimisticType DEF TypeOK, ServerForm
<1>3. /\ \A j \in Items :
            /\ j \in snap.items /\ Fetched(j) <=> j \in page.items
            /\ j \in page.items => (j \in snap.read <=> j \in srv.read)
      /\ page.items \subseteq InView(srv, snap.filter)
  BY <1>2, ListFacts, FirstPage
<1>4. /\ \A j \in page.items : j \in srv.archived <=> snap.filter = "archived"
      /\ page = Page(srv, new.filter, 0)
  BY <1>2, <1>3 DEF InView
<1>5. /\ srv = [n |-> srv.n, read |-> srv.read, archived |-> srv.archived,
                seen |-> srv.seen]
      /\ snap = [items |-> snap.items, read |-> snap.read, unread |-> snap.unread,
                 unseen |-> snap.unseen, hasMore |-> snap.hasMore, filter |-> snap.filter]
  BY <1>2 DEF ServerForm, SnapForm
<1> SUFFICES ASSUME NEW j \in Items
             PROVE  /\ j \in new.items /\ Fetched(j) <=> j \in page.items
                    /\ j \in page.items => (j \in new.read <=> j \in srv.read)
  BY <1>2, <1>4, ListFacts
<1> HIDE DEF page, new
<1>6. CASE new.items = snap.items /\ new.read = snap.read
  BY <1>3, <1>6
<1>7. CASE op = "read" /\ i \in snap.items \ snap.read
  <2>1. new.items = snap.items /\ new.read = snap.read \cup {i}
    BY <1>5, <1>7 DEF Optimistic, new
  <2>2. i \in srv.read
    BY <1>5, <1>7 DEF Effect
  <2>3. i \notin page.items
    BY <1>3, <1>7, <2>2
  <2> QED
    BY <1>3, <2>1, <2>3
<1>8. CASE op = "unread" /\ i \in snap.read
  <2>1. new.items = snap.items /\ new.read = snap.read \ {i}
    BY <1>5, <1>8 DEF Optimistic, new
  <2>2. i \notin srv.read
    BY <1>5, <1>8 DEF Effect
  <2>3. i \notin page.items
    BY <1>3, <1>8, <2>2
  <2> QED
    BY <1>3, <2>1, <2>3
<1>9. CASE op = "archive" /\ i \in snap.items /\ snap.filter # "archived"
  <2>1. new.items = snap.items \ {i} /\ new.read = snap.read \ {i}
    BY <1>5, <1>9 DEF Optimistic, new
  <2>2. i \in srv.archived
    BY <1>5, <1>9 DEF Effect
  <2>3. i \notin page.items
    BY <1>4, <1>9, <2>2
  <2> QED
    BY <1>3, <2>1, <2>3
<1>10. CASE op = "unarchive" /\ i \in snap.items /\ snap.filter = "archived"
  <2>1. new.items = snap.items \ {i} /\ new.read = snap.read \ {i}
    BY <1>5, <1>10 DEF Optimistic, new
  <2>2. i \notin srv.archived
    BY <1>5, <1>10 DEF Effect
  <2>3. i \notin page.items
    BY <1>4, <1>10, <2>2
  <2> QED
    BY <1>3, <2>1, <2>3
<1>11. \/ op = "read" /\ i \in snap.items \ snap.read
       \/ op = "unread" /\ i \in snap.read
       \/ op = "archive" /\ i \in snap.items /\ snap.filter # "archived"
       \/ op = "unarchive" /\ i \in snap.items /\ snap.filter = "archived"
       \/ new = snap
  BY <1>1 DEF Optimistic, new
<1> QED
  BY <1>6, <1>7, <1>8, <1>9, <1>10, <1>11

----------------------------------------------------------------------------
(* The invariant *)

\* A read item of a page or of a snapshot kept for a rollback is one of its items.
WellRead(list) == list.read \subseteq list.items

HeldType ==
    /\ refreshing # None /\ refreshing.page \notin {None, NotModified}
          => WellRead(refreshing.page)
    /\ more # None /\ more.page # None => WellRead(more.page)
    /\ \A s \in Slots : pending[s] # None => WellRead(pending[s].prev)

\* Hints come down an open stream only, and who has failed MaxAttempts times in a
\* row has given up.
StreamInv ==
    /\ StatusTellsTruth
    /\ hint => source = "open"
    /\ attempts = MaxAttempts => status = "closed"

\* A refresh that runs is one of this view, or another comes after it; it holds an
\* answer exactly when it holds the validator of the answer, and a validator that
\* is still current goes with the page the server would answer now.
RefreshShape ==
    /\ refreshAgain => refreshing # None
    /\ refreshing # None =>
          /\ IF refreshing.stale THEN refreshAgain /\ etag \notin Views
             ELSE refreshing.view = snap.filter
          /\ refreshing.tag \in {None, Old, refreshing.view}
          /\ refreshing.tag = None <=> refreshing.page = None
          /\ refreshing.page \notin {None, NotModified} /\ refreshing.tag = refreshing.view
                => refreshing.page = Page(srv, refreshing.view, 0)
          /\ etag \in Views /\ refreshing.page # None => refreshing.tag = refreshing.view
    /\ etag \in Views => etag = snap.filter

ToApply(s) == pending[s] # None /\ pending[s].counts = None

Effective(s) == \/ pending[s].op \in WholeInbox
                \/ Effect(srv, pending[s].op, pending[s].item) # srv

\* A validator that is still current vouches for the list, unless a pending action
\* is about to age it.
TagTruthful ==
    etag \in Views => \/ "page" \in adrift
                      \/ ListInSync(srv, snap)
                      \/ \E s \in Slots : ToApply(s) /\ Effective(s)

\* The same of a page that fetchMore is about to append.
MoreTruthful ==
    more # None /\ ~more.stale =>
       /\ more.view = snap.filter
       /\ more.page # None /\ ~more.late /\ etag \in Views =>
             /\ more.page.items \subseteq InView(srv, snap.filter)
             /\ more.page.read = more.page.items \cap srv.read

\* Another refresh is sure to come.
Covered == unannounced \/ hint \/ refreshAgain

\* While the stream is open, a list that is out of date is announced, hinted at or
\* being fetched, unless the last refresh failed.
ListComing ==
    source = "open" => \/ Covered
                       \/ IF refreshing # None
                          THEN /\ ~refreshing.stale
                               /\ \/ /\ refreshing.page = None
                                     /\ refreshing.sent # refreshing.view
                                  \/ /\ refreshing.page \notin {None, NotModified}
                                     /\ refreshing.tag = refreshing.view
                                  \/ etag = snap.filter
                          ELSE failed \/ etag = snap.filter

\* And so are the counts, unless they were moved for nothing.
CountsComing ==
    source = "open" => \/ Covered
                       \/ IF refreshing # None
                          THEN refreshing.counts \in {None, Counts(srv)}
                          ELSE \/ failed \/ "counts" \in adrift
                               \/ WithCounts(snap, Counts(srv)) = snap
                               \/ \E s \in Slots : ToApply(s) /\ pending[s].changed

\* The answer of a whole-inbox action that no refresh has overtaken is followed by
\* one.
AnswersLate ==
    source = "open" =>
       \A s \in Slots :
          pending[s] # None =>
             (pending[s].counts # None /\ pending[s].op \in WholeInbox /\ ~pending[s].late
                 => Covered \/ refreshing # None \/ failed)

SyncInv ==
    /\ TypeOK /\ HeldType /\ StreamInv /\ RefreshShape /\ TagTruthful /\ MoreTruthful
    /\ ListComing /\ CountsComing /\ AnswersLate

----------------------------------------------------------------------------
(* What the steps have in common *)

LEMMA TagsApart ==
    /\ None \notin Views /\ Old \notin Views /\ NotModified \notin Views
    /\ None # Old /\ None # NotModified /\ None \notin PageForm /\ NotModified \notin PageForm
    /\ None \notin CountsForm /\ None \notin RequestForm
    /\ None \notin MoreForm /\ None \notin MutationForm
BY ClientAssumption

LEMMA RequestFacts ==
    ASSUME NEW view \in Views, NEW tag \in Views \cup {None, Old}
    PROVE  LET r == Request(view, tag)
           IN  /\ r \in RequestForm /\ r # None
               /\ r.view = view /\ r.sent = tag /\ r.tag = None /\ r.page = None
               /\ r.counts = None /\ ~r.stale
<1>1. Request(view, tag) \in RequestForm
  BY DEF Request, RequestForm
<1> QED
  BY <1>1, TagsApart DEF Request

\* A refresh starts, or is noted for later.
LEMMA RefreshFacts ==
    ASSUME TypeOK, NEW view \in Views, NEW tag \in Views \cup {None, Old}, Refresh(view, tag)
    PROVE  /\ refreshing' \in RequestForm /\ refreshing' # None /\ refreshAgain' \in BOOLEAN
           /\ IF refreshing = None
              THEN refreshing' = Request(view, tag) /\ ~refreshAgain'
              ELSE refreshing' = refreshing /\ refreshAgain'
<1>1. CASE refreshing = None
  <2>1. refreshing' = Request(view, tag) /\ refreshAgain' = FALSE
    BY <1>1 DEF Refresh
  <2>2. Request(view, tag) \in RequestForm /\ Request(view, tag) # None
    BY RequestFacts
  <2> QED
    BY <1>1, <2>1, <2>2
<1>2. CASE refreshing # None
  <2>1. refreshing' = refreshing /\ refreshAgain' = TRUE
    BY <1>2 DEF Refresh
  <2>2. refreshing \in RequestForm
    BY <1>2 DEF TypeOK
  <2> QED
    BY <1>2, <2>1, <2>2
<1> QED
  BY <1>1, <1>2

LEMMA RerunFacts ==
    ASSUME TypeOK, NEW view \in Views, NEW tag \in Views \cup {None, Old}, Rerun(view, tag)
    PROVE  /\ refreshing' \in RequestForm \cup {None} /\ ~refreshAgain'
           /\ refreshAgain' \in BOOLEAN
           /\ IF refreshAgain THEN refreshing' = Request(view, tag) ELSE refreshing' = None
BY RequestFacts DEF Rerun, TypeOK

\* A change ages every validator that was handed out.
LEMMA ChangeFacts ==
    ASSUME TypeOK, NEW new \in ServerForm, new.seen <= new.n, Change(new)
    PROVE  /\ srv' \in ServerForm /\ srv'.seen <= srv'.n /\ unannounced'
           /\ unannounced' \in BOOLEAN
           /\ etag' \in {None, Old}
           /\ refreshing = None => refreshing' = None
           /\ refreshing # None =>
                 /\ refreshing' \in RequestForm /\ refreshing' # None
                 /\ refreshing'.view = refreshing.view /\ refreshing'.page = refreshing.page
                 /\ refreshing'.counts = refreshing.counts
                 /\ refreshing'.stale = refreshing.stale
                 /\ refreshing'.tag \in {None, Old}
                 /\ refreshing'.tag = None <=> refreshing.tag = None
<1>1. srv' = new /\ unannounced' = TRUE /\ etag' = Aged(etag)
  BY DEF Change
<1>2. \A tag \in Views \cup {None, Old} :
         /\ Aged(tag) \in {None, Old}
         /\ Aged(tag) = None <=> tag = None
  BY TagsApart DEF Aged
<1>3. CASE refreshing = None
  BY <1>1, <1>2, <1>3 DEF Change, TypeOK
<1>4. CASE refreshing # None
  <2>1. refreshing \in RequestForm
    BY <1>4 DEF TypeOK
  <2>2. refreshing' = [refreshing EXCEPT !.sent = Aged(refreshing.sent),
                                         !.tag = Aged(refreshing.tag)]
    BY <1>4 DEF Change
  <2>3. refreshing.sent \in Views \cup {None, Old} /\ refreshing.tag \in Views \cup {None, Old}
    BY <2>1 DEF RequestForm
  <2>4. refreshing' \in RequestForm
    BY <1>2, <2>1, <2>2, <2>3 DEF RequestForm
  <2>5. /\ refreshing'.view = refreshing.view /\ refreshing'.page = refreshing.page
        /\ refreshing'.counts = refreshing.counts /\ refreshing'.stale = refreshing.stale
        /\ refreshing'.tag = Aged(refreshing.tag)
    BY <2>1, <2>2 DEF RequestForm
  <2>6. refreshing' # None
    BY <2>4, TagsApart
  <2> QED
    BY <1>1, <1>2, <1>4, <2>3, <2>4, <2>5, <2>6 DEF TypeOK
<1> QED
  BY <1>3, <1>4

\* The server's own news, other devices and the client's actions, when they have an
\* effect, are such changes.
LEMMA ArriveChanges ==
    ASSUME TypeOK, Arrive
    PROVE  \E new \in ServerForm : new.seen <= new.n /\ Change(new)
<1> DEFINE new == [srv EXCEPT !.n = srv.n + 1]
<1>1. srv \in ServerForm /\ srv.n < MaxItems /\ srv.seen <= srv.n /\ MaxItems \in Nat
  BY ClientAssumption DEF Arrive, TypeOK, ServerForm
<1>2. srv.n + 1 \in 0..MaxItems /\ srv.seen <= srv.n + 1
  BY <1>1 DEF ServerForm
<1>3. new \in ServerForm /\ new.seen <= new.n
  BY <1>1, <1>2 DEF ServerForm
<1>4. Change(new)
  BY DEF Arrive
<1> QED
  BY <1>3, <1>4

LEMMA OtherDeviceChanges ==
    ASSUME TypeOK, NEW op \in DeviceOps, NEW i \in Items, OtherDevice(op, i)
    PROVE  \E new \in ServerForm : new.seen <= new.n /\ Change(new)
<1>1. srv \in ServerForm /\ srv.seen <= srv.n
  BY DEF TypeOK, ServerForm
<1> QED
  BY <1>1, EffectType DEF OtherDevice

LEMMA ServeChanges ==
    ASSUME TypeOK, NEW op \in Ops, NEW i \in Items, Serve(op, i)
    PROVE  \/ /\ op \notin WholeInbox /\ Effect(srv, op, i) = srv
              /\ UNCHANGED <<srv, unannounced, etag, refreshing>>
           \/ /\ op \in WholeInbox \/ srv' # srv
              /\ \E new \in ServerForm : new.seen <= new.n /\ Change(new)
<1>1. srv \in ServerForm /\ srv.seen <= srv.n
  BY DEF TypeOK, ServerForm
<1>2. Effect(srv, op, i) \in ServerForm /\ Effect(srv, op, i).seen <= Effect(srv, op, i).n
  BY <1>1, EffectType
<1>3. CASE Effect(srv, op, i) = srv /\ op \notin WholeInbox
  BY <1>3 DEF Serve
<1>4. CASE ~(Effect(srv, op, i) = srv /\ op \notin WholeInbox)
  <2>1. Change(Effect(srv, op, i))
    BY <1>4 DEF Serve
  <2>2. srv' = Effect(srv, op, i)
    BY <2>1 DEF Change
  <2> QED
    BY <1>2, <1>4, <2>1, <2>2
<1> QED
  BY <1>3, <1>4

----------------------------------------------------------------------------
(* Types *)

LEMMA ServerStep ==
    ASSUME TypeOK, [Next]_vars
    PROVE  srv' \in ServerForm /\ srv'.seen <= srv'.n /\ unannounced' \in BOOLEAN
<1> USE DEF TypeOK, ServerForm
<1>1. CASE Arrive
  BY <1>1, ArriveChanges, ChangeFacts
<1>2. ASSUME NEW op \in DeviceOps, NEW i \in Items, OtherDevice(op, i)
      PROVE  srv' \in ServerForm /\ srv'.seen <= srv'.n /\ unannounced' \in BOOLEAN
  BY <1>2, OtherDeviceChanges, ChangeFacts
<1>3. ASSUME NEW slot \in Slots, ServerApplies(slot)
      PROVE  srv' \in ServerForm /\ srv'.seen <= srv'.n /\ unannounced' \in BOOLEAN
  <2>1. /\ pending[slot] \in MutationForm
        /\ Serve(pending[slot].op, pending[slot].item)
    BY <1>3 DEF ServerApplies
  <2>2. pending[slot].op \in Ops /\ pending[slot].item \in Items
    BY <2>1 DEF MutationForm
  <2> QED
    BY <2>1, <2>2, ServeChanges, ChangeFacts
<1>4. CASE UNCHANGED <<srv, unannounced>>
  BY <1>4
<1>5. CASE Announce
  BY <1>5 DEF Announce
<1>6. CASE Lists
  <2>1. UNCHANGED <<srv, unannounced>>
    BY <1>6 DEF Lists, PageRead, CountsRead, RefreshDone, RefreshFails, FetchMore,
                MoreRead, MoreDone, MoreFails, SetFilter
  <2> QED
    BY <2>1
<1>7. CASE Stream
  <2>1. UNCHANGED <<srv, unannounced>>
    BY <1>7 DEF Stream, Connect, Close, SetCredentials, Open, HintEvent, StreamFails,
                TimerFires
  <2> QED
    BY <2>1
<1>8. ASSUME NEW slot \in Slots,
             \/ \E op \in Ops, i \in Items : Mutate(slot, op, i)
             \/ MutationDone(slot) \/ MutationFails(slot)
      PROVE  UNCHANGED <<srv, unannounced>>
  BY <1>8 DEF Mutate, MutationDone, MutationFails
<1>9. CASE UNCHANGED vars
  BY <1>9 DEF vars
<1> QED
  BY <1>1, <1>2, <1>3, <1>4, <1>5, <1>6, <1>7, <1>8, <1>9 DEF Next, Server, Mutations

LEMMA StreamStep ==
    ASSUME TypeOK, StreamInv, [Next]_vars
    PROVE  /\ source' \in {"none", "opening", "open"}
           /\ status' \in {"idle", "connecting", "connected", "reconnecting", "closed"}
           /\ attempts' \in 0..MaxAttempts
           /\ hint' \in BOOLEAN /\ timer' \in BOOLEAN
           /\ StreamInv'
<1> USE DEF StreamInv, StatusTellsTruth
<1>1. /\ MaxAttempts \in Nat \ {0} /\ attempts \in Nat /\ attempts <= MaxAttempts
      /\ 0 \in 0..MaxAttempts /\ attempts \in 0..MaxAttempts /\ 0 # MaxAttempts
      /\ hint \in BOOLEAN /\ timer \in BOOLEAN
      /\ source \in {"none", "opening", "open"}
      /\ status \in {"idle", "connecting", "connected", "reconnecting", "closed"}
  BY ClientAssumption DEF TypeOK
<1>2. CASE UNCHANGED streamVars
  BY <1>1, <1>2 DEF streamVars
<1>3. CASE Announce
  BY <1>1, <1>3 DEF Announce
<1>4. CASE Connect
  BY <1>1, <1>4 DEF Connect
<1>5. CASE Close
  BY <1>1, <1>5 DEF Close, DisarmTimer
<1>6. CASE SetCredentials
  BY <1>1, <1>6 DEF SetCredentials, DisarmTimer
<1>7. CASE Open
  BY <1>1, <1>7 DEF Open
<1>8. CASE HintEvent
  BY <1>1, <1>8 DEF HintEvent
<1>9. CASE StreamFails
  <2>1. attempts < MaxAttempts
    BY <1>1, <1>9 DEF StreamFails
  <2>2. attempts' = attempts + 1 /\ attempts' \in 0..MaxAttempts
    BY <1>1, <1>9, <2>1 DEF StreamFails
  <2>3. CASE attempts' >= MaxAttempts
    BY <1>1, <1>9, <2>1, <2>2, <2>3 DEF StreamFails
  <2>4. CASE ~(attempts' >= MaxAttempts)
    <3>1. /\ status' = "reconnecting" /\ timer' = TRUE
          /\ source' = "none" /\ hint' = FALSE
      BY <1>9, <2>4 DEF StreamFails
    <3>2. attempts' # MaxAttempts
      BY <1>1, <2>2, <2>4
    <3> QED
      BY <2>2, <3>1, <3>2
  <2> QED
    BY <2>3, <2>4
<1>10. CASE TimerFires
  BY <1>1, <1>10 DEF TimerFires
<1>11. CASE Lists
  <2>1. UNCHANGED streamVars
    BY <1>11 DEF Lists, PageRead, CountsRead, RefreshDone, RefreshFails, FetchMore,
                 MoreRead, MoreDone, MoreFails, SetFilter
  <2> QED
    BY <1>2, <2>1
<1>12. CASE Mutations
  <2>1. UNCHANGED streamVars
    BY <1>12 DEF Mutations, Mutate, ServerApplies, MutationDone, MutationFails
  <2> QED
    BY <1>2, <2>1
<1>13. CASE Arrive \/ \E op \in DeviceOps, i \in Items : OtherDevice(op, i)
  <2>1. UNCHANGED streamVars
    BY <1>13 DEF Arrive, OtherDevice
  <2> QED
    BY <1>2, <2>1
<1>14. CASE UNCHANGED vars
  BY <1>2, <1>14 DEF vars
<1> QED
  BY <1>3, <1>4, <1>5, <1>6, <1>7, <1>8, <1>9, <1>10, <1>11, <1>12, <1>13, <1>14
  DEF Next, Server, Stream

LEMMA WithCountsFacts ==
    ASSUME NEW shown \in SnapForm, NEW counts, counts.unread \in Nat, counts.unseen \in Nat
    PROVE  LET new == WithCounts(shown, counts)
           IN  /\ new \in SnapForm
               /\ new.items = shown.items /\ new.read = shown.read
               /\ new.filter = shown.filter
               /\ new.unread = counts.unread /\ new.unseen = counts.unseen
BY DEF WithCounts, SnapForm

\* A rollback brings back what the failed action had moved (client.ts, archiveAll).
LEMMA RolledBackType ==
    ASSUME TypeOK, NEW m \in MutationForm, WellRead(m.prev)
    PROVE  /\ RolledBack(m) \in SnapForm /\ WellRead(RolledBack(m))
           /\ RolledBack(m).filter = snap.filter
<1>1. m.prev \in SnapForm /\ snap \in SnapForm /\ WellRead(snap)
  BY DEF MutationForm, TypeOK, WellRead
<1>2. m.prev.unread \in Nat /\ m.prev.unseen \in Nat
  BY <1>1 DEF SnapForm
<1>3. PICK new \in SnapForm : /\ new = WithCounts(snap, m.prev)
                              /\ new.items = snap.items /\ new.read = snap.read
                              /\ new.filter = snap.filter
  BY <1>1, <1>2, WithCountsFacts
<1>4. CASE ~m.changed
  BY <1>1, <1>4 DEF RolledBack
<1>5. CASE m.changed /\ m.op = "seenAll"
  BY <1>1, <1>3, <1>5 DEF RolledBack, WellRead
<1>6. CASE m.changed /\ m.op # "seenAll"
  <2>1. RolledBack(m) = [new EXCEPT !.items = m.prev.items, !.read = m.prev.read]
    BY <1>3, <1>6 DEF RolledBack
  <2> QED
    BY <1>1, <1>3, <2>1 DEF SnapForm, WellRead
<1> QED
  BY <1>4, <1>5, <1>6

\* What a refresh makes of the snapshot (doRefresh).
LEMMA RefreshDoneSnap ==
    ASSUME TypeOK, HeldType, RefreshDone, ~refreshing.stale
    PROVE  /\ snap' \in SnapForm /\ WellRead(snap') /\ snap'.filter = snap.filter
           /\ snap'.unread = refreshing.counts.unread
           /\ snap'.unseen = refreshing.counts.unseen
           /\ refreshing.counts \in CountsForm
           /\ refreshing.page = NotModified => snap'.items = snap.items
                                               /\ snap'.read = snap.read
           /\ refreshing.page # NotModified =>
                 /\ refreshing.page \in PageForm
                 /\ refreshing.page = Page(srv, snap.filter, 0) => ListInSync(srv, snap')
<1>1. /\ refreshing \in RequestForm /\ snap \in SnapForm /\ WellRead(snap)
      /\ refreshing # None /\ refreshing.counts # None /\ refreshing.page # None
  BY DEF RefreshDone, TypeOK, WellRead
<1>2. /\ refreshing.counts \in CountsForm
      /\ refreshing.counts.unread \in Nat /\ refreshing.counts.unseen \in Nat
  BY <1>1 DEF RequestForm, CountsForm
<1>3. CASE refreshing.page = NotModified
  <2>1. snap' = WithCounts(snap, refreshing.counts)
    BY <1>3 DEF RefreshDone
  <2> QED
    BY <1>1, <1>2, <1>3, <2>1, WithCountsFacts DEF WellRead
<1>4. CASE refreshing.page # NotModified
  <2>1. snap' = WithCounts(Merged(refreshing.page), refreshing.counts)
    BY <1>4 DEF RefreshDone
  <2>2. refreshing.page \in PageForm /\ WellRead(refreshing.page)
    BY <1>1, <1>4 DEF RequestForm, HeldType
  <2>3. PICK list : list = Merged(refreshing.page)
    OBVIOUS
  <2>4. /\ list \in SnapForm /\ WellRead(list) /\ list.filter = snap.filter
        /\ refreshing.page = Page(srv, snap.filter, 0) => ListInSync(srv, list)
    BY <2>2, <2>3, MergedList DEF WellRead
  <2>5. /\ snap' \in SnapForm /\ snap'.items = list.items /\ snap'.read = list.read
        /\ snap'.filter = list.filter
        /\ snap'.unread = refreshing.counts.unread
        /\ snap'.unseen = refreshing.counts.unseen
    BY <1>2, <2>1, <2>3, <2>4, WithCountsFacts
  <2>6. ListInSync(srv, list) => ListInSync(srv, snap')
    BY <2>5, SameList
  <2> QED
    BY <1>2, <1>4, <2>2, <2>4, <2>5, <2>6 DEF WellRead
<1> QED
  BY <1>3, <1>4

\* What fetchMore appends.
LEMMA MoreDoneSnap ==
    ASSUME TypeOK, HeldType, MoreDone, ~more.stale
    PROVE  /\ more.page \in PageForm
           /\ snap' \in SnapForm /\ WellRead(snap') /\ snap'.filter = snap.filter
           /\ snap'.unread = snap.unread /\ snap'.unseen = snap.unseen
           /\ snap'.items = snap.items \cup more.page.items
           /\ snap'.read = snap.read \cup (more.page.read \ snap.items)
<1>1. more \in MoreForm /\ snap \in SnapForm /\ WellRead(snap) /\ more.page # None
  BY DEF MoreDone, TypeOK, WellRead
<1>2. /\ more.page \in PageForm /\ WellRead(more.page)
      /\ more.page.items \subseteq Items /\ more.page.read \subseteq Items
      /\ (more.page.next # 0) \in BOOLEAN
  BY <1>1, TagsApart DEF MoreForm, PageForm, HeldType
<1>3. snap' = [items |-> snap.items \cup more.page.items,
               read |-> snap.read \cup (more.page.read \ snap.items),
               unread |-> snap.unread, unseen |-> snap.unseen,
               hasMore |-> more.page.next # 0, filter |-> snap.filter]
  BY <1>1 DEF MoreDone, SnapForm
<1> QED
  BY <1>1, <1>2, <1>3 DEF SnapForm, WellRead

\* The answer of a mutation moves a count at most.
LEMMA MutationDoneSnap ==
    ASSUME TypeOK, NEW slot \in Slots, MutationDone(slot)
    PROVE  /\ pending[slot] \in MutationForm
           /\ snap' \in SnapForm /\ WellRead(snap') /\ snap'.filter = snap.filter
           /\ snap'.items = snap.items /\ snap'.read = snap.read
           /\ pending[slot].op \notin WholeInbox => snap' = snap
<1>1. /\ pending[slot] \in MutationForm /\ pending[slot].counts # None
      /\ snap \in SnapForm /\ WellRead(snap)
  BY DEF MutationDone, TypeOK, WellRead
<1>2. pending[slot].counts.unread \in Nat /\ pending[slot].counts.unseen \in Nat
  BY <1>1 DEF MutationForm, CountsForm
<1>3. CASE pending[slot].op \in {"readAll", "archiveAll"}
  <2>1. snap' = [snap EXCEPT !.unread = pending[slot].counts.unread]
    BY <1>3 DEF MutationDone
  <2> QED
    BY <1>1, <1>2, <1>3, <2>1 DEF SnapForm, WellRead, WholeInbox
<1>4. CASE pending[slot].op = "seenAll"
  <2>1. snap' = [snap EXCEPT !.unseen = pending[slot].counts.unseen]
    BY <1>4 DEF MutationDone
  <2> QED
    BY <1>1, <1>2, <1>4, <2>1 DEF SnapForm, WellRead, WholeInbox
<1>5. CASE pending[slot].op \notin {"readAll", "archiveAll", "seenAll"}
  <2>1. snap' = snap
    BY <1>5 DEF MutationDone
  <2> QED
    BY <1>1, <2>1 DEF WellRead
<1> QED
  BY <1>3, <1>4, <1>5

LEMMA SnapStep ==
    ASSUME TypeOK, HeldType, [Next]_vars
    PROVE  snap' \in SnapForm /\ WellRead(snap')
<1>1. CASE UNCHANGED snap
  BY <1>1 DEF TypeOK, WellRead
<1>2. CASE RefreshDone
  <2>1. CASE refreshing.stale
    BY <1>1, <1>2, <2>1 DEF RefreshDone, listVars
  <2> QED
    BY <1>2, <2>1, RefreshDoneSnap
<1>3. CASE MoreDone
  <2>1. CASE more.stale
    BY <1>1, <1>3, <2>1 DEF MoreDone
  <2> QED
    BY <1>3, <2>1, MoreDoneSnap
<1>4. ASSUME NEW view \in Views, SetFilter(view)
      PROVE  snap' \in SnapForm /\ WellRead(snap')
  <2>1. snap' = [snap EXCEPT !.filter = view, !.items = {}, !.read = {}, !.hasMore = TRUE]
    BY <1>4 DEF SetFilter
  <2> QED
    BY <2>1 DEF TypeOK, SnapForm, WellRead
<1>5. ASSUME NEW slot \in Slots, NEW op \in Ops, NEW i \in Items, Mutate(slot, op, i)
      PROVE  snap' \in SnapForm /\ WellRead(snap')
  BY <1>5, OptimisticType DEF Mutate, WellRead
<1>6. ASSUME NEW slot \in Slots, ServerApplies(slot)
      PROVE  UNCHANGED snap
  BY <1>6 DEF ServerApplies
<1>7. ASSUME NEW slot \in Slots, MutationDone(slot)
      PROVE  snap' \in SnapForm /\ WellRead(snap')
  BY <1>7, MutationDoneSnap
<1>8. ASSUME NEW slot \in Slots, MutationFails(slot)
      PROVE  snap' \in SnapForm /\ WellRead(snap')
  <2>1. pending[slot] \in MutationForm /\ WellRead(pending[slot].prev)
    BY <1>8 DEF MutationFails, TypeOK, HeldType
  <2> QED
    BY <1>8, <2>1, RolledBackType DEF MutationFails
<1>9. CASE Server
  <2>1. UNCHANGED snap
    BY <1>9 DEF Server, Arrive, Announce, OtherDevice, listVars
  <2> QED
    BY <1>1, <2>1
<1>10. CASE PageRead \/ CountsRead \/ RefreshFails \/ FetchMore \/ MoreRead \/ MoreFails
  <2>1. UNCHANGED snap
    BY <1>10 DEF PageRead, CountsRead, RefreshFails, FetchMore, MoreRead, MoreFails,
                 listVars
  <2> QED
    BY <1>1, <2>1
<1>11. CASE Stream
  <2>1. UNCHANGED snap
    BY <1>11 DEF Stream, Connect, Close, SetCredentials, Open, HintEvent, StreamFails,
                 TimerFires, listVars
  <2> QED
    BY <1>1, <2>1
<1>12. CASE UNCHANGED vars
  BY <1>1, <1>12 DEF vars, listVars
<1> QED
  BY <1>1, <1>2, <1>3, <1>4, <1>5, <1>6, <1>7, <1>8, <1>9, <1>10, <1>11, <1>12
  DEF Next, Lists, Mutations

LEMMA HistoryStep ==
    ASSUME TypeOK, [Next]_vars
    PROVE  /\ cursor' \in 0..MaxItems /\ failed' \in BOOLEAN
           /\ adrift' \subseteq {"page", "counts"}
<1>1. CASE UNCHANGED <<cursor, failed, adrift>>
  BY <1>1 DEF TypeOK
<1>2. CASE RefreshDone
  <2>1. CASE refreshing.stale
    BY <1>1, <1>2, <2>1 DEF RefreshDone, listVars
  <2>2. CASE ~refreshing.stale /\ refreshing.page = NotModified
    BY <1>2, <2>2 DEF RefreshDone, TypeOK
  <2>3. CASE ~refreshing.stale /\ refreshing.page # NotModified
    <3>1. refreshing.page \in PageForm
      BY <1>2, <2>3 DEF RefreshDone, TypeOK, RequestForm
    <3>2. refreshing.page.next \in 0..MaxItems
      BY <3>1 DEF PageForm
    <3>3. adrift' = {} /\ failed' = FALSE /\ cursor' \in {cursor, refreshing.page.next}
      BY <1>2, <2>3 DEF RefreshDone
    <3> QED
      BY <3>2, <3>3 DEF TypeOK
  <2> QED
    BY <2>1, <2>2, <2>3
<1>3. CASE MoreDone
  <2>1. CASE more.stale
    BY <1>1, <1>3, <2>1 DEF MoreDone
  <2>2. CASE ~more.stale
    <3>1. more.page \in PageForm
      BY <1>3 DEF MoreDone, TypeOK, MoreForm
    <3>2. more.page.next \in 0..MaxItems
      BY <3>1 DEF PageForm
    <3>3. adrift' \in {adrift, adrift \cup {"page"}} /\ failed' = failed
          /\ cursor' = more.page.next
      BY <1>3, <2>2 DEF MoreDone
    <3> QED
      BY <3>2, <3>3 DEF TypeOK
  <2> QED
    BY <2>1, <2>2
<1>4. CASE RefreshFails
  BY <1>4 DEF RefreshFails, TypeOK
<1>5. ASSUME NEW view \in Views, SetFilter(view)
      PROVE  cursor' = 0 /\ failed' = FALSE /\ adrift' = adrift \ {"page"}
  BY <1>5 DEF SetFilter
<1>6. 0 \in 0..MaxItems
  BY ClientAssumption
<1>7. ASSUME NEW slot \in Slots,
             \/ \E op \in Ops, i \in Items : Mutate(slot, op, i)
             \/ ServerApplies(slot) \/ MutationDone(slot) \/ MutationFails(slot)
      PROVE  UNCHANGED <<cursor, failed>> /\ adrift' \in {adrift, adrift \cup {"counts"}}
  BY <1>7 DEF Mutate, ServerApplies, MutationDone, MutationFails
<1>8. CASE Server
  <2>1. UNCHANGED <<cursor, failed, adrift>>
    BY <1>8 DEF Server, Arrive, Announce, OtherDevice, listVars
  <2> QED
    BY <1>1, <2>1
<1>9. CASE PageRead \/ CountsRead \/ FetchMore \/ MoreRead \/ MoreFails
  <2>1. UNCHANGED <<cursor, failed, adrift>>
    BY <1>9 DEF PageRead, CountsRead, FetchMore, MoreRead, MoreFails, listVars
  <2> QED
    BY <1>1, <2>1
<1>10. CASE Stream
  <2>1. UNCHANGED <<cursor, failed, adrift>>
    BY <1>10 DEF Stream, Connect, Close, SetCredentials, Open, HintEvent, StreamFails,
                 TimerFires, listVars
  <2> QED
    BY <1>1, <2>1
<1>11. CASE UNCHANGED vars
  BY <1>1, <1>11 DEF vars, listVars
<1>12. CASE \E view \in Views : SetFilter(view)
  BY <1>5, <1>6, <1>12 DEF TypeOK
<1>13. CASE Mutations
  BY <1>7, <1>13 DEF Mutations, TypeOK
<1> QED
  BY <1>2, <1>3, <1>4, <1>8, <1>9, <1>10, <1>11, <1>12, <1>13 DEF Next, Lists

----------------------------------------------------------------------------
(* The refresh in flight and the validator *)

FetchType ==
    /\ refreshing \in RequestForm \cup {None} /\ refreshAgain \in BOOLEAN
    /\ etag \in Views \cup {None, Old}
    /\ refreshing # None /\ refreshing.page \notin {None, NotModified}
          => WellRead(refreshing.page)
    /\ RefreshShape

LEMMA FetchTypeNow ==
    ASSUME TypeOK, HeldType, RefreshShape
    PROVE  FetchType
BY DEF FetchType, TypeOK, HeldType

\* A refresh is asked for, with the validator in hand or without one.
LEMMA FetchAsked ==
    ASSUME TypeOK, HeldType, RefreshShape, NEW tag \in {etag, None},
           Refresh(snap.filter, tag), UNCHANGED srv, etag' = tag, snap'.filter = snap.filter
    PROVE  FetchType'
<1>1. snap.filter \in Views /\ tag \in Views \cup {None, Old}
  BY DEF TypeOK, SnapForm
<1>2. CASE refreshing = None
  <2>1. refreshing' = Request(snap.filter, tag) /\ ~refreshAgain' /\ refreshAgain' \in BOOLEAN
    BY <1>1, <1>2, RefreshFacts
  <2>2. /\ refreshing' \in RequestForm /\ refreshing' # None
        /\ refreshing'.view = snap.filter /\ refreshing'.tag = None
        /\ refreshing'.page = None /\ ~refreshing'.stale
    BY <1>1, <2>1, RequestFacts
  <2> QED
    BY <1>1, <2>1, <2>2, TagsApart DEF FetchType, RefreshShape
<1>3. CASE refreshing # None
  <2>1. /\ refreshing' = refreshing /\ refreshAgain' /\ refreshAgain' \in BOOLEAN
        /\ refreshing \in RequestForm
    BY <1>1, <1>3, RefreshFacts
  <2> QED
    BY <1>1, <1>3, <2>1, TagsApart, FetchTypeNow DEF FetchType, RefreshShape
<1> QED
  BY <1>2, <1>3

LEMMA FetchChanged ==
    ASSUME TypeOK, HeldType, RefreshShape,
           \E new \in ServerForm : new.seen <= new.n /\ Change(new),
           UNCHANGED <<snap, refreshAgain>>
    PROVE  FetchType'
<1>1. /\ etag' \in {None, Old}
      /\ refreshing = None => refreshing' = None
      /\ refreshing # None =>
            /\ refreshing' \in RequestForm /\ refreshing' # None
            /\ refreshing'.view = refreshing.view /\ refreshing'.page = refreshing.page
            /\ refreshing'.stale = refreshing.stale
            /\ refreshing'.tag \in {None, Old}
            /\ refreshing'.tag = None <=> refreshing.tag = None
  BY ChangeFacts
<1>2. etag' \notin Views /\ snap' = snap /\ refreshAgain' = refreshAgain
  BY <1>1, TagsApart
<1>3. CASE refreshing = None
  BY <1>1, <1>2, <1>3, FetchTypeNow DEF FetchType, RefreshShape
<1>4. CASE refreshing # None
  <2>1. refreshing'.tag # refreshing'.view
    <3>1. refreshing'.view \in Views
      BY <1>1, <1>4 DEF RequestForm
    <3> QED
      BY <1>1, <1>4, <3>1, TagsApart
  <2> QED
    BY <1>1, <1>2, <1>4, <2>1, FetchTypeNow DEF FetchType, RefreshShape
<1> QED
  BY <1>3, <1>4

LEMMA FetchRead ==
    ASSUME TypeOK, HeldType, RefreshShape, PageRead
    PROVE  FetchType'
<1>1. /\ refreshing \in RequestForm /\ refreshing # None /\ refreshing.page = None
      /\ UNCHANGED <<srv, snap, etag, refreshAgain>> /\ srv \in ServerForm
      /\ refreshing.view \in Views
  BY DEF PageRead, listVars, TypeOK, RequestForm, ServerForm
<1>2. PICK page : page = IF refreshing.sent = refreshing.view THEN NotModified
                         ELSE Page(srv, refreshing.view, 0)
  OBVIOUS
<1>3. refreshing' = [refreshing EXCEPT !.tag = refreshing.view, !.page = page]
  BY <1>2 DEF PageRead
<1>4. Page(srv, refreshing.view, 0) \in PageForm /\ WellRead(Page(srv, refreshing.view, 0))
  BY <1>1, FirstPage DEF WellRead
<1>5. page \in PageForm \cup {NotModified} /\ page # None
  BY <1>2, <1>4, TagsApart
<1>6. /\ refreshing' \in RequestForm
      /\ refreshing'.tag = refreshing.view /\ refreshing'.page = page
      /\ refreshing'.view = refreshing.view /\ refreshing'.stale = refreshing.stale
  BY <1>1, <1>3, <1>5 DEF RequestForm
<1>7. refreshing' # None /\ refreshing.view # None
  BY <1>1, <1>6, TagsApart
<1> QED
  BY <1>1, <1>2, <1>4, <1>5, <1>6, <1>7, FetchTypeNow DEF FetchType, RefreshShape

LEMMA FetchCounted ==
    ASSUME TypeOK, HeldType, RefreshShape, CountsRead
    PROVE  FetchType'
<1>1. /\ refreshing \in RequestForm /\ refreshing # None
      /\ UNCHANGED <<srv, snap, etag, refreshAgain>>
      /\ refreshing' = [refreshing EXCEPT !.counts = Counts(srv)]
      /\ Counts(srv) \in CountsForm
  BY CountsType DEF CountsRead, listVars, TypeOK, ServerForm
<1>2. /\ refreshing' \in RequestForm
      /\ refreshing'.tag = refreshing.tag /\ refreshing'.page = refreshing.page
      /\ refreshing'.view = refreshing.view /\ refreshing'.stale = refreshing.stale
  BY <1>1 DEF RequestForm
<1>3. refreshing' # None
  BY <1>2, TagsApart
<1> QED
  BY <1>1, <1>2, <1>3, FetchTypeNow DEF FetchType, RefreshShape

\* What follows a refresh: the one that was asked for meanwhile, or nothing.
LEMMA FetchRerun ==
    ASSUME TypeOK, NEW tag \in Views \cup {None, Old}, Rerun(snap.filter, tag),
           etag' = tag, snap'.filter = snap.filter, tag \in Views => tag = snap.filter
    PROVE  FetchType'
<1>1. snap.filter \in Views
  BY DEF TypeOK, SnapForm
<1>2. CASE refreshAgain
  <2>1. refreshing' = Request(snap.filter, tag) /\ ~refreshAgain' /\ refreshAgain' \in BOOLEAN
    BY <1>1, <1>2, RerunFacts
  <2>2. /\ refreshing' \in RequestForm /\ refreshing' # None
        /\ refreshing'.view = snap.filter /\ refreshing'.tag = None
        /\ refreshing'.page = None /\ ~refreshing'.stale
    BY <1>1, <2>1, RequestFacts
  <2> QED
    BY <2>1, <2>2, TagsApart DEF FetchType, RefreshShape
<1>3. CASE ~refreshAgain
  BY <1>1, <1>3, RerunFacts DEF FetchType, RefreshShape
<1> QED
  BY <1>2, <1>3

LEMMA FetchDone ==
    ASSUME TypeOK, HeldType, RefreshShape, RefreshDone
    PROVE  FetchType'
<1>1. /\ refreshing \in RequestForm /\ refreshing # None /\ refreshing.page # None
      /\ Rerun(snap.filter, etag')
      /\ refreshing.tag \in Views \cup {None, Old} /\ refreshing.tag # None
  BY DEF RefreshDone, TypeOK, RequestForm, RefreshShape
<1>2. etag' \in Views \cup {None, Old} /\ (etag' \in Views => etag' = snap.filter)
      /\ snap'.filter = snap.filter
  <2>1. CASE refreshing.stale
    BY <1>1, <2>1 DEF RefreshDone, listVars, TypeOK, RefreshShape
  <2>2. CASE ~refreshing.stale
    <3>1. snap'.filter = snap.filter /\ refreshing.view = snap.filter
      BY <1>1, <2>2, RefreshDoneSnap DEF RefreshShape
    <3>2. etag' \in {etag, refreshing.tag}
      BY <2>2 DEF RefreshDone
    <3> QED
      BY <1>1, <3>1, <3>2, TagsApart DEF TypeOK, RefreshShape
  <2> QED
    BY <2>1, <2>2
<1> QED
  BY <1>1, <1>2, FetchRerun

LEMMA FetchFiltered ==
    ASSUME TypeOK, HeldType, RefreshShape, NEW view \in Views, SetFilter(view)
    PROVE  FetchType'
<1>1. /\ snap'.filter = view /\ etag' = None /\ srv' = srv
  BY DEF SetFilter, TypeOK, SnapForm
<1>2. CASE refreshing = None
  <2>1. refreshing' = Request(view, None) /\ refreshAgain' = FALSE
    BY <1>2 DEF SetFilter
  <2>2. /\ refreshing' \in RequestForm /\ refreshing' # None
        /\ refreshing'.view = view /\ refreshing'.tag = None
        /\ refreshing'.page = None /\ ~refreshing'.stale
    BY <2>1, RequestFacts
  <2> QED
    BY <1>1, <2>1, <2>2, TagsApart DEF FetchType, RefreshShape
<1>3. CASE refreshing # None
  <2>1. /\ refreshing' = [refreshing EXCEPT !.stale = TRUE] /\ refreshAgain' = TRUE
        /\ refreshing \in RequestForm
    BY <1>3 DEF SetFilter, TypeOK
  <2>2. /\ refreshing' \in RequestForm
        /\ refreshing'.view = refreshing.view /\ refreshing'.tag = refreshing.tag
        /\ refreshing'.page = refreshing.page /\ refreshing'.stale = TRUE
    BY <2>1 DEF RequestForm
  <2>3. refreshing' # None
    BY <2>2, TagsApart
  <2> QED
    BY <1>1, <1>3, <2>1, <2>2, <2>3, TagsApart, FetchTypeNow DEF FetchType, RefreshShape
<1> QED
  BY <1>2, <1>3

\* The same fetch, the same validator.
LEMMA FetchSame ==
    ASSUME TypeOK, HeldType, RefreshShape,
           UNCHANGED <<srv, refreshing, refreshAgain, etag>>, snap'.filter = snap.filter
    PROVE  FetchType'
BY FetchTypeNow DEF FetchType, RefreshShape

LEMMA FetchStep ==
    ASSUME TypeOK, HeldType, RefreshShape, [Next]_vars
    PROVE  FetchType'
<1>1. CASE Arrive
  BY <1>1, ArriveChanges, FetchChanged DEF Arrive
<1>2. ASSUME NEW op \in DeviceOps, NEW i \in Items, OtherDevice(op, i)
      PROVE  FetchType'
  BY <1>2, OtherDeviceChanges, FetchChanged DEF OtherDevice
<1>3. ASSUME NEW slot \in Slots, ServerApplies(slot)
      PROVE  FetchType'
  <2>1. /\ pending[slot] \in MutationForm
        /\ Serve(pending[slot].op, pending[slot].item)
        /\ UNCHANGED <<snap, refreshAgain>>
    BY <1>3 DEF ServerApplies, TypeOK
  <2>2. pending[slot].op \in Ops /\ pending[slot].item \in Items
    BY <2>1 DEF MutationForm
  <2>3. CASE UNCHANGED <<srv, unannounced, etag, refreshing>>
    BY <2>1, <2>3, FetchSame
  <2>4. CASE \E new \in ServerForm : new.seen <= new.n /\ Change(new)
    BY <2>1, <2>4, FetchChanged
  <2> QED
    BY <2>1, <2>2, <2>3, <2>4, ServeChanges
<1>4. ASSUME NEW slot \in Slots, MutationFails(slot)
      PROVE  FetchType'
  <2>1. /\ pending[slot] \in MutationForm /\ WellRead(pending[slot].prev)
        /\ snap' = RolledBack(pending[slot])
        /\ Refresh(snap.filter, None) /\ etag' = None /\ UNCHANGED srv
    BY <1>4 DEF MutationFails, Reconcile, TypeOK, HeldType
  <2> QED
    BY <2>1, RolledBackType, FetchAsked
<1>5. ASSUME NEW slot \in Slots, MutationDone(slot)
      PROVE  FetchType'
  BY <1>5, MutationDoneSnap, FetchSame DEF MutationDone
<1>6. ASSUME NEW slot \in Slots, NEW op \in Ops, NEW i \in Items, Mutate(slot, op, i)
      PROVE  FetchType'
  BY <1>6, OptimisticType, FetchSame DEF Mutate
<1>7. CASE PageRead
  BY <1>7, FetchRead
<1>8. CASE CountsRead
  BY <1>8, FetchCounted
<1>9. CASE RefreshDone
  BY <1>9, FetchDone
<1>10. CASE RefreshFails
  <2>1. Rerun(snap.filter, etag) /\ UNCHANGED <<snap, etag>>
    BY <1>10 DEF RefreshFails
  <2> QED
    BY <2>1, FetchRerun DEF TypeOK, RefreshShape
<1>11. CASE MoreDone
  <2>1. snap'.filter = snap.filter
    BY <1>11, MoreDoneSnap DEF MoreDone
  <2> QED
    BY <1>11, <2>1, FetchSame DEF MoreDone
<1>12. ASSUME NEW view \in Views, SetFilter(view)
       PROVE  FetchType'
  BY <1>12, FetchFiltered
<1>13. CASE FetchMore \/ MoreRead \/ MoreFails
  <2>1. UNCHANGED <<srv, refreshing, refreshAgain, etag, snap>>
    BY <1>13 DEF FetchMore, MoreRead, MoreFails, listVars
  <2> QED
    BY <2>1, FetchSame
<1>14. CASE Announce \/ Close \/ StreamFails \/ TimerFires
  <2>1. UNCHANGED <<srv, refreshing, refreshAgain, etag, snap>>
    BY <1>14 DEF Announce, Close, StreamFails, TimerFires, listVars
  <2> QED
    BY <2>1, FetchSame
<1>15. CASE Connect \/ SetCredentials \/ Open \/ HintEvent
  <2>1. UNCHANGED <<srv, etag, snap>> /\ Refresh(snap.filter, etag)
    BY <1>15 DEF Connect, SetCredentials, Open, HintEvent, listVars
  <2> QED
    BY <2>1, FetchAsked
<1>16. CASE UNCHANGED vars
  BY <1>16, FetchSame DEF vars, listVars
<1> QED
  BY <1>1, <1>2, <1>3, <1>4, <1>5, <1>6, <1>7, <1>8, <1>9, <1>10, <1>11, <1>12, <1>13,
     <1>14, <1>15, <1>16 DEF Next, Server, Lists, Mutations, Stream

----------------------------------------------------------------------------
(* The page that fetchMore is about to append *)

MoreType ==
    /\ more \in MoreForm \cup {None}
    /\ more # None /\ more.page # None => WellRead(more.page)
    /\ MoreTruthful

LEMMA MoreKept ==
    ASSUME TypeOK, HeldType, MoreTruthful,
           more' = more, snap'.filter = snap.filter,
           etag' \notin Views \/ UNCHANGED <<srv, etag>>
    PROVE  MoreType'
BY DEF MoreType, MoreTruthful, TypeOK, HeldType

LEMMA MoreAfterRefresh ==
    ASSUME TypeOK, HeldType, RefreshShape, MoreTruthful, RefreshDone
    PROVE  MoreType'
<1>1. /\ refreshing \in RequestForm /\ refreshing # None /\ srv' = srv
  BY DEF RefreshDone, TypeOK
<1>2. CASE refreshing.stale
  BY <1>2, MoreKept DEF RefreshDone, listVars
<1>3. CASE ~refreshing.stale
  <2>1. snap'.filter = snap.filter /\ Late
    BY <1>3, RefreshDoneSnap DEF RefreshDone
  <2>2. CASE more = None \/ more.page = None
    <3>1. more' = more
      BY <2>1, <2>2 DEF Late
    <3> QED
      BY <1>1, <2>1, <2>2, <3>1 DEF MoreType, MoreTruthful, TypeOK, HeldType
  <2>3. CASE more # None /\ more.page # None /\ refreshing.page = NotModified
    <3>1. more' = more /\ etag' = etag
      BY <1>3, <2>1, <2>3 DEF Late, RefreshDone
    <3> QED
      BY <1>1, <2>1, <3>1, MoreKept
  <2>4. CASE more # None /\ more.page # None /\ refreshing.page # NotModified
    <3>1. more' = [more EXCEPT !.late = TRUE] /\ more \in MoreForm
      BY <2>1, <2>4 DEF Late, TypeOK
    <3>2. /\ more' \in MoreForm /\ more'.late = TRUE
          /\ more'.page = more.page /\ more'.view = more.view /\ more'.stale = more.stale
      BY <3>1 DEF MoreForm
    <3> QED
      BY <2>1, <2>4, <3>2, TagsApart DEF MoreType, MoreTruthful, HeldType
  <2> QED
    BY <2>2, <2>3, <2>4
<1> QED
  BY <1>2, <1>3

LEMMA MoreStep ==
    ASSUME TypeOK, HeldType, RefreshShape, MoreTruthful, [Next]_vars
    PROVE  MoreType'
<1>1. CASE FetchMore
  <2>1. /\ more' = [view |-> snap.filter, after |-> cursor, page |-> None,
                    stale |-> FALSE, late |-> FALSE]
        /\ UNCHANGED <<srv, snap, etag>>
    BY <1>1 DEF FetchMore, listVars
  <2>2. more' \in MoreForm
    BY <2>1 DEF MoreForm, TypeOK, SnapForm
  <2>3. more'.view = snap.filter /\ more'.page = None
    BY <2>1
  <2> QED
    BY <2>1, <2>2, <2>3 DEF MoreType, MoreTruthful
<1>2. CASE MoreRead
  <2>1. /\ more \in MoreForm /\ more # None /\ UNCHANGED <<srv, snap, etag>>
        /\ srv \in ServerForm /\ more.after \in Nat /\ more.view \in Views
    BY <1>2, ClientAssumption DEF MoreRead, listVars, TypeOK, ServerForm, MoreForm
  <2>2. PICK page : page = Page(srv, more.view, more.after)
    OBVIOUS
  <2>3. /\ page \in PageForm /\ page.items \subseteq InView(srv, more.view)
        /\ page.read = page.items \cap srv.read /\ WellRead(page)
    BY <2>1, <2>2, PageFacts DEF WellRead
  <2>4. more' = [more EXCEPT !.page = page]
    BY <1>2, <2>2 DEF MoreRead
  <2>5. /\ more' \in MoreForm /\ more'.page = page /\ more'.view = more.view
        /\ more'.stale = more.stale
    BY <2>1, <2>3, <2>4 DEF MoreForm
  <2> QED
    BY <2>1, <2>3, <2>5, TagsApart DEF MoreType, MoreTruthful
<1>3. CASE MoreDone \/ MoreFails
  BY <1>3 DEF MoreDone, MoreFails, MoreType, MoreTruthful
<1>4. CASE RefreshDone
  BY <1>4, MoreAfterRefresh
<1>5. ASSUME NEW view \in Views, SetFilter(view)
      PROVE  MoreType'
  <2>1. CASE more = None
    BY <1>5, <2>1 DEF SetFilter, MoreType, MoreTruthful
  <2>2. CASE more # None
    <3>1. more' = [more EXCEPT !.stale = TRUE] /\ more \in MoreForm
      BY <1>5, <2>2 DEF SetFilter, TypeOK
    <3>2. more' \in MoreForm /\ more'.stale = TRUE /\ more'.page = more.page
      BY <3>1 DEF MoreForm
    <3> QED
      BY <2>2, <3>2, TagsApart DEF MoreType, MoreTruthful, HeldType
  <2> QED
    BY <2>1, <2>2
<1>6. CASE Arrive
  BY <1>6, ArriveChanges, ChangeFacts, TagsApart, MoreKept DEF Arrive
<1>7. ASSUME NEW op \in DeviceOps, NEW i \in Items, OtherDevice(op, i)
      PROVE  MoreType'
  BY <1>7, OtherDeviceChanges, ChangeFacts, TagsApart, MoreKept DEF OtherDevice
<1>8. ASSUME NEW slot \in Slots, ServerApplies(slot)
      PROVE  MoreType'
  <2>1. /\ pending[slot] \in MutationForm
        /\ Serve(pending[slot].op, pending[slot].item)
        /\ UNCHANGED <<snap, more>>
    BY <1>8 DEF ServerApplies, TypeOK
  <2>2. pending[slot].op \in Ops /\ pending[slot].item \in Items
    BY <2>1 DEF MutationForm
  <2> QED
    BY <2>1, <2>2, ServeChanges, ChangeFacts, TagsApart, MoreKept
<1>9. ASSUME NEW slot \in Slots, MutationFails(slot)
      PROVE  MoreType'
  <2>1. /\ pending[slot] \in MutationForm /\ WellRead(pending[slot].prev)
        /\ snap' = RolledBack(pending[slot]) /\ etag' = None /\ UNCHANGED more
    BY <1>9 DEF MutationFails, Reconcile, TypeOK, HeldType
  <2> QED
    BY <2>1, RolledBackType, TagsApart, MoreKept
<1>10. ASSUME NEW slot \in Slots, MutationDone(slot)
       PROVE  MoreType'
  BY <1>10, MutationDoneSnap, MoreKept DEF MutationDone
<1>11. ASSUME NEW slot \in Slots, NEW op \in Ops, NEW i \in Items, Mutate(slot, op, i)
       PROVE  MoreType'
  BY <1>11, OptimisticType, MoreKept DEF Mutate
<1>12. CASE Announce \/ PageRead \/ CountsRead \/ RefreshFails
  <2>1. UNCHANGED <<srv, snap, etag, more>>
    BY <1>12 DEF Announce, PageRead, CountsRead, RefreshFails, listVars
  <2> QED
    BY <2>1, MoreKept
<1>13. CASE Stream
  <2>1. UNCHANGED <<srv, snap, etag, more>>
    BY <1>13 DEF Stream, Connect, Close, SetCredentials, Open, HintEvent, StreamFails,
                 TimerFires, listVars
  <2> QED
    BY <2>1, MoreKept
<1>14. CASE UNCHANGED vars
  BY <1>14, MoreKept DEF vars, listVars
<1> QED
  BY <1>1, <1>2, <1>3, <1>4, <1>5, <1>6, <1>7, <1>8, <1>9, <1>10, <1>11, <1>12, <1>13,
     <1>14 DEF Next, Server, Lists, Mutations

----------------------------------------------------------------------------
(* The mutations in flight *)

PendingType ==
    /\ pending \in [Slots -> MutationForm \cup {None}]
    /\ \A s \in Slots : pending[s] # None => WellRead(pending[s].prev)

\* A refresh only notes which answers it has overtaken.
LEMMA LateFacts ==
    ASSUME TypeOK, Late
    PROVE  /\ pending' \in [Slots -> MutationForm \cup {None}]
           /\ \A s \in Slots :
                 \/ /\ pending[s] = None \/ pending[s].counts = None
                    /\ pending'[s] = pending[s]
                 \/ /\ pending[s] # None /\ pending[s].counts # None
                    /\ pending'[s] \in MutationForm /\ pending'[s] # None
                    /\ pending'[s].late = TRUE
                    /\ pending'[s].op = pending[s].op /\ pending'[s].item = pending[s].item
                    /\ pending'[s].prev = pending[s].prev
                    /\ pending'[s].changed = pending[s].changed
                    /\ pending'[s].counts = pending[s].counts
<1>1. ASSUME NEW s \in Slots
      PROVE  /\ pending'[s] \in MutationForm \cup {None}
             /\ \/ /\ pending[s] = None \/ pending[s].counts = None
                   /\ pending'[s] = pending[s]
                \/ /\ pending[s] # None /\ pending[s].counts # None
                   /\ pending'[s] \in MutationForm /\ pending'[s] # None
                   /\ pending'[s].late = TRUE
                   /\ pending'[s].op = pending[s].op /\ pending'[s].item = pending[s].item
                   /\ pending'[s].prev = pending[s].prev
                   /\ pending'[s].changed = pending[s].changed
                   /\ pending'[s].counts = pending[s].counts
  <2>1. CASE pending[s] = None \/ pending[s].counts = None
    BY <2>1 DEF Late, TypeOK
  <2>2. CASE pending[s] # None /\ pending[s].counts # None
    <3>1. pending[s] \in MutationForm /\ pending'[s] = [pending[s] EXCEPT !.late = TRUE]
      BY <2>2 DEF Late, TypeOK
    <3>2. /\ pending'[s] \in MutationForm /\ pending'[s].late = TRUE
          /\ pending'[s].op = pending[s].op /\ pending'[s].item = pending[s].item
          /\ pending'[s].prev = pending[s].prev
          /\ pending'[s].changed = pending[s].changed
          /\ pending'[s].counts = pending[s].counts
      BY <3>1 DEF MutationForm
    <3> QED
      BY <2>2, <3>2, TagsApart
  <2> QED
    BY <2>1, <2>2
<1>2. pending' = [s \in Slots |-> pending'[s]]
  BY DEF Late
<1> QED
  BY <1>1, <1>2

LEMMA PendingStep ==
    ASSUME TypeOK, HeldType, [Next]_vars
    PROVE  PendingType'
<1>1. CASE UNCHANGED pending
  BY <1>1 DEF PendingType, TypeOK, HeldType
<1>2. ASSUME NEW slot \in Slots, NEW op \in Ops, NEW i \in Items, Mutate(slot, op, i)
      PROVE  PendingType'
  <2>1. PICK m : m = [op |-> op, item |-> i, prev |-> snap,
                      changed |-> op \in WholeInbox \/ snap' # snap,
                      counts |-> None, late |-> FALSE]
    OBVIOUS
  <2>2. m \in MutationForm /\ m.prev = snap
    BY <2>1 DEF MutationForm, TypeOK
  <2>3. pending' = [pending EXCEPT ![slot] = m]
    BY <1>2, <2>1 DEF Mutate
  <2> QED
    BY <2>2, <2>3 DEF PendingType, TypeOK, HeldType, WellRead
<1>3. ASSUME NEW slot \in Slots, ServerApplies(slot)
      PROVE  PendingType'
  <2>1. /\ pending[slot] \in MutationForm /\ pending[slot] # None
        /\ pending' = [pending EXCEPT ![slot] = [pending[slot] EXCEPT !.counts = Counts(srv')]]
    BY <1>3 DEF ServerApplies, TypeOK
  <2>2. Counts(srv') \in CountsForm
    BY ServerStep, CountsType
  <2>3. PICK m : m = [pending[slot] EXCEPT !.counts = Counts(srv')]
    OBVIOUS
  <2>4. m \in MutationForm /\ m.prev = pending[slot].prev
    BY <2>1, <2>2, <2>3 DEF MutationForm
  <2>5. pending' = [pending EXCEPT ![slot] = m]
    BY <2>1, <2>3
  <2> QED
    BY <2>1, <2>4, <2>5 DEF PendingType, TypeOK, HeldType
<1>4. ASSUME NEW slot \in Slots, MutationDone(slot) \/ MutationFails(slot)
      PROVE  PendingType'
  <2>1. pending' = [pending EXCEPT ![slot] = None]
    BY <1>4 DEF MutationDone, MutationFails
  <2> QED
    BY <2>1 DEF PendingType, TypeOK, HeldType
<1>5. CASE RefreshDone
  <2>1. CASE refreshing.stale
    BY <1>1, <1>5, <2>1 DEF RefreshDone
  <2>2. CASE ~refreshing.stale
    <3>1. Late
      BY <1>5, <2>2 DEF RefreshDone
    <3> QED
      BY <3>1, LateFacts DEF PendingType, HeldType
  <2> QED
    BY <2>1, <2>2
<1>6. CASE Server
  <2>1. UNCHANGED pending
    BY <1>6 DEF Server, Arrive, Announce, OtherDevice
  <2> QED
    BY <1>1, <2>1
<1>7. CASE \/ PageRead \/ CountsRead \/ RefreshFails \/ FetchMore \/ MoreRead \/ MoreDone
           \/ MoreFails \/ \E view \in Views : SetFilter(view)
  <2>1. UNCHANGED pending
    BY <1>7 DEF PageRead, CountsRead, RefreshFails, FetchMore, MoreRead, MoreDone,
                MoreFails, SetFilter
  <2> QED
    BY <1>1, <2>1
<1>8. CASE Stream
  <2>1. UNCHANGED pending
    BY <1>8 DEF Stream, Connect, Close, SetCredentials, Open, HintEvent, StreamFails,
                TimerFires
  <2> QED
    BY <1>1, <2>1
<1>9. CASE UNCHANGED vars
  BY <1>1, <1>9 DEF vars
<1> QED
  BY <1>2, <1>3, <1>4, <1>5, <1>6, <1>7, <1>8, <1>9 DEF Next, Lists, Mutations

----------------------------------------------------------------------------
(* What a current validator vouches for *)

LEMMA TagKept ==
    ASSUME TagTruthful, UNCHANGED srv, etag' \in Views => etag' = etag,
           "page" \in adrift => "page" \in adrift',
           ListInSync(srv, snap) => ListInSync(srv, snap'),
           \A s \in Slots : ToApply(s) /\ Effective(s)
              => /\ pending'[s] # None /\ pending'[s].counts = None
                 /\ pending'[s].op = pending[s].op /\ pending'[s].item = pending[s].item
    PROVE  TagTruthful'
<1> SUFFICES ASSUME etag' \in Views
             PROVE  \/ "page" \in adrift'
                    \/ ListInSync(srv', snap')
                    \/ \E s \in Slots : ToApply(s)' /\ Effective(s)'
  BY DEF TagTruthful
<1>1. CASE "page" \in adrift \/ ListInSync(srv, snap)
  BY <1>1
<1>2. ASSUME NEW s \in Slots, ToApply(s) /\ Effective(s)
      PROVE  ToApply(s)' /\ Effective(s)'
  BY <1>2 DEF ToApply, Effective
<1> QED
  BY <1>1, <1>2 DEF TagTruthful

LEMMA TagSame ==
    ASSUME TagTruthful, UNCHANGED <<srv, etag, snap, adrift, pending>>
    PROVE  TagTruthful'
BY TagKept DEF ToApply

LEMMA TagGone ==
    ASSUME etag' \notin Views
    PROVE  TagTruthful'
BY DEF TagTruthful

LEMMA TagAfterRefresh ==
    ASSUME TypeOK, HeldType, RefreshShape, TagTruthful, RefreshDone
    PROVE  TagTruthful'
<1>1. refreshing \in RequestForm /\ refreshing # None /\ refreshing.page # None
      /\ srv' = srv /\ snap \in SnapForm
  BY DEF RefreshDone, TypeOK
<1>2. CASE refreshing.stale
  BY <1>1, <1>2, TagSame DEF RefreshDone, listVars
<1>3. CASE ~refreshing.stale /\ refreshing.page = NotModified
  <2>1. ListInSync(srv, snap) => ListInSync(srv, snap')
    BY <1>3, RefreshDoneSnap, SameList
  <2>2. etag' = etag /\ adrift' = adrift \ {"counts"} /\ Late
    BY <1>3 DEF RefreshDone
  <2>3. \A s \in Slots : ToApply(s) => pending'[s] = pending[s]
    BY <2>2, LateFacts DEF ToApply
  <2> QED
    BY <1>1, <2>1, <2>2, <2>3, TagKept DEF ToApply
<1>4. CASE ~refreshing.stale /\ refreshing.page # NotModified
  <2>1. etag' = refreshing.tag /\ refreshing.view = snap.filter
    BY <1>1, <1>4 DEF RefreshDone, RefreshShape
  <2>2. ASSUME etag' \in Views
        PROVE  ListInSync(srv, snap')
    <3>1. refreshing.tag = refreshing.view
      BY <1>1, <2>1, <2>2, TagsApart DEF RefreshShape
    <3>2. refreshing.page = Page(srv, snap.filter, 0)
      BY <1>1, <1>4, <2>1, <3>1 DEF RefreshShape
    <3> QED
      BY <1>4, <3>2, RefreshDoneSnap
  <2> QED
    BY <1>1, <2>2 DEF TagTruthful
<1> QED
  BY <1>2, <1>3, <1>4

LEMMA TagAfterMore ==
    ASSUME TypeOK, HeldType, TagTruthful, MoreTruthful, MoreDone
    PROVE  TagTruthful'
<1>1. more # None /\ more.page # None /\ UNCHANGED <<srv, etag, pending>>
      /\ srv \in ServerForm /\ snap \in SnapForm
  BY DEF MoreDone, TypeOK, ServerForm
<1>2. CASE more.stale
  BY <1>1, <1>2, TagSame DEF MoreDone
<1>3. CASE ~more.stale /\ more.late
  <2>1. "page" \in adrift'
    BY <1>3 DEF MoreDone
  <2> QED
    BY <2>1 DEF TagTruthful
<1>4. CASE ~more.stale /\ ~more.late
  <2>1. adrift' = adrift
    BY <1>4 DEF MoreDone
  <2>2. ASSUME ListInSync(srv, snap), etag \in Views
        PROVE  ListInSync(srv, snap')
    <3>1. /\ more.page.items \subseteq InView(srv, snap.filter)
          /\ more.page.read = more.page.items \cap srv.read
      BY <1>1, <1>4, <2>2 DEF MoreTruthful
    <3>2. /\ snap' \in SnapForm /\ snap'.filter = snap.filter
          /\ snap'.items = snap.items \cup more.page.items
          /\ snap'.read = snap.read \cup (more.page.read \ snap.items)
      BY <1>4, MoreDoneSnap
    <3> QED
      BY <1>1, <2>2, <3>1, <3>2, AppendedList
  <2>3. CASE etag \in Views
    BY <1>1, <2>1, <2>2, <2>3, TagKept DEF ToApply
  <2>4. CASE etag \notin Views
    BY <1>1, <2>4, TagGone
  <2> QED
    BY <2>3, <2>4
<1> QED
  BY <1>2, <1>3, <1>4

\* A mutation in flight remembers what it was for (client.ts, archiveAll).
LEMMA MutateFacts ==
    ASSUME TypeOK, NEW slot \in Slots, NEW op \in Ops, NEW i \in Items,
           Mutate(slot, op, i)
    PROVE  /\ pending'[slot] \in MutationForm /\ pending'[slot] # None
           /\ pending'[slot].op = op /\ pending'[slot].item = i
           /\ pending'[slot].counts = None
           /\ pending'[slot].changed <=> op \in WholeInbox \/ snap' # snap
           /\ \A s \in Slots : s # slot => pending'[s] = pending[s]
<1>1. PICK m : m = [op |-> op, item |-> i, prev |-> snap,
                    changed |-> op \in WholeInbox \/ snap' # snap,
                    counts |-> None, late |-> FALSE]
  OBVIOUS
<1>2. /\ m \in MutationForm /\ m.op = op /\ m.item = i /\ m.counts = None
      /\ m.changed <=> op \in WholeInbox \/ snap' # snap
  BY <1>1 DEF MutationForm, TypeOK
<1>3. pending' = [pending EXCEPT ![slot] = m] /\ pending \in [Slots -> MutationForm \cup {None}]
  BY <1>1 DEF Mutate, TypeOK
<1> QED
  BY <1>2, <1>3, TagsApart

LEMMA TagAfterMutate ==
    ASSUME TypeOK, TagTruthful, NEW slot \in Slots, NEW op \in Ops, NEW i \in Items,
           Mutate(slot, op, i)
    PROVE  TagTruthful'
<1>1. /\ UNCHANGED <<srv, etag, adrift>> /\ snap' = Optimistic(op, i)
      /\ pending[slot] = None /\ pending \in [Slots -> MutationForm \cup {None}]
  BY DEF Mutate, TypeOK
<1>2. /\ pending'[slot] # None /\ pending'[slot].op = op /\ pending'[slot].item = i
      /\ pending'[slot].counts = None
      /\ \A s \in Slots : s # slot => pending'[s] = pending[s]
  BY MutateFacts
<1>3. CASE op \in WholeInbox \/ Effect(srv, op, i) # srv
  <2>1. ToApply(slot)' /\ Effective(slot)'
    BY <1>1, <1>2, <1>3 DEF ToApply, Effective
  <2> QED
    BY <2>1 DEF TagTruthful
<1>4. CASE op \notin WholeInbox /\ Effect(srv, op, i) = srv
  <2>1. ListInSync(srv, snap) => ListInSync(srv, snap')
    BY <1>1, <1>4, OptimisticVoid
  <2> QED
    BY <1>1, <1>2, <2>1, TagKept DEF ToApply
<1> QED
  BY <1>3, <1>4

LEMMA TagAfterServe ==
    ASSUME TypeOK, TagTruthful, NEW slot \in Slots, ServerApplies(slot)
    PROVE  TagTruthful'
<1>1. /\ pending[slot] \in MutationForm /\ pending \in [Slots -> MutationForm \cup {None}]
      /\ Serve(pending[slot].op, pending[slot].item)
      /\ UNCHANGED snap /\ adrift \subseteq adrift'
      /\ \A s \in Slots : s # slot => pending'[s] = pending[s]
  BY DEF ServerApplies, TypeOK
<1>2. pending[slot].op \in Ops /\ pending[slot].item \in Items
  BY <1>1 DEF MutationForm
<1>3. CASE \E new \in ServerForm : new.seen <= new.n /\ Change(new)
  BY <1>3, ChangeFacts, TagsApart, TagGone
<1>4. CASE /\ pending[slot].op \notin WholeInbox
           /\ Effect(srv, pending[slot].op, pending[slot].item) = srv
           /\ UNCHANGED <<srv, unannounced, etag, refreshing>>
  BY <1>1, <1>4, TagKept DEF ToApply, Effective
<1> QED
  BY <1>1, <1>2, <1>3, <1>4, ServeChanges

LEMMA TagStep ==
    ASSUME TypeOK, HeldType, RefreshShape, TagTruthful, MoreTruthful, [Next]_vars
    PROVE  TagTruthful'
<1>1. CASE Arrive
  BY <1>1, ArriveChanges, ChangeFacts, TagsApart, TagGone
<1>2. ASSUME NEW op \in DeviceOps, NEW i \in Items, OtherDevice(op, i)
      PROVE  TagTruthful'
  BY <1>2, OtherDeviceChanges, ChangeFacts, TagsApart, TagGone
<1>3. ASSUME NEW slot \in Slots, MutationFails(slot)
      PROVE  TagTruthful'
  BY <1>3, TagsApart, TagGone DEF MutationFails, Reconcile
<1>4. ASSUME NEW view \in Views, SetFilter(view)
      PROVE  TagTruthful'
  BY <1>4, TagsApart, TagGone DEF SetFilter
<1>5. ASSUME NEW slot \in Slots, MutationDone(slot)
      PROVE  TagTruthful'
  <2>1. /\ UNCHANGED <<srv, etag>> /\ adrift \subseteq adrift'
        /\ pending[slot].counts # None /\ pending \in [Slots -> MutationForm \cup {None}]
        /\ \A s \in Slots : s # slot => pending'[s] = pending[s]
    BY <1>5 DEF MutationDone, TypeOK
  <2>2. ListInSync(srv, snap) => ListInSync(srv, snap')
    BY <1>5, MutationDoneSnap, SameList
  <2> QED
    BY <2>1, <2>2, TagKept DEF ToApply
<1>6. CASE \/ Announce \/ PageRead \/ CountsRead \/ RefreshFails \/ FetchMore \/ MoreRead
           \/ MoreFails
  <2>1. UNCHANGED <<srv, etag, snap, adrift, pending>>
    BY <1>6 DEF Announce, PageRead, CountsRead, RefreshFails, FetchMore, MoreRead,
                MoreFails, listVars
  <2> QED
    BY <2>1, TagSame
<1>7. CASE Stream
  <2>1. UNCHANGED <<srv, etag, snap, adrift, pending>>
    BY <1>7 DEF Stream, Connect, Close, SetCredentials, Open, HintEvent, StreamFails,
                TimerFires, listVars
  <2> QED
    BY <2>1, TagSame
<1>8. CASE UNCHANGED vars
  BY <1>8, TagSame DEF vars, listVars
<1> QED
  BY <1>1, <1>2, <1>3, <1>4, <1>5, <1>6, <1>7, <1>8, TagAfterRefresh, TagAfterMore,
     TagAfterMutate, TagAfterServe DEF Next, Server, Lists, Mutations

----------------------------------------------------------------------------
(* What is out of date is announced, hinted at or being fetched *)

Coming == ListComing /\ CountsComing /\ AnswersLate

LEMMA ComingCovered ==
    ASSUME source' # "open" \/ Covered'
    PROVE  Coming'
BY DEF Coming, ListComing, CountsComing, AnswersLate

LEMMA ComingSame ==
    ASSUME Coming,
           UNCHANGED <<srv, unannounced, hint, source, snap, etag, refreshing, refreshAgain,
                       adrift, pending>>,
           failed => failed'
    PROVE  Coming'
<1>1. Covered' <=> Covered
  BY DEF Covered
<1>2. ListComing'
  BY <1>1 DEF Coming, ListComing
<1>3. CountsComing'
  BY <1>1 DEF Coming, CountsComing, ToApply
<1>4. AnswersLate'
  BY <1>1 DEF Coming, AnswersLate
<1> QED
  BY <1>2, <1>3, <1>4 DEF Coming

\* A new request is asked for everything: the page, with the validator in hand, and
\* the counts.
LEMMA ComingRequest ==
    ASSUME TypeOK, NEW view \in Views, NEW tag \in Views \cup {None, Old},
           refreshing' = Request(view, tag), etag' = tag, snap'.filter = view
    PROVE  Coming'
<1>1. /\ refreshing' # None /\ refreshing'.view = view /\ refreshing'.sent = tag
      /\ refreshing'.page = None /\ refreshing'.counts = None /\ ~refreshing'.stale
  BY RequestFacts
<1>2. ListComing'
  BY <1>1 DEF ListComing
<1>3. CountsComing' /\ AnswersLate'
  BY <1>1 DEF CountsComing, AnswersLate
<1> QED
  BY <1>2, <1>3 DEF Coming

LEMMA ComingAsked ==
    ASSUME TypeOK, NEW tag \in {etag, None}, Refresh(snap.filter, tag), etag' = tag,
           snap'.filter = snap.filter
    PROVE  Coming'
<1>1. snap.filter \in Views /\ tag \in Views \cup {None, Old}
  BY DEF TypeOK, SnapForm
<1>2. CASE refreshing = None
  BY <1>1, <1>2, RefreshFacts, ComingRequest
<1>3. CASE refreshing # None
  BY <1>1, <1>3, RefreshFacts, ComingCovered DEF Covered
<1> QED
  BY <1>2, <1>3

\* The answer of the server is right when it is computed.
LEMMA ComingRead ==
    ASSUME TypeOK, HeldType, Coming, PageRead
    PROVE  Coming'
<1>1. /\ refreshing \in RequestForm /\ refreshing # None /\ refreshing.page = None
      /\ UNCHANGED <<srv, unannounced, hint, source, snap, etag, failed, adrift, pending,
                     refreshAgain>>
      /\ srv \in ServerForm
  BY DEF PageRead, listVars, streamVars, TypeOK, ServerForm
<1>2. PICK page : page = IF refreshing.sent = refreshing.view THEN NotModified
                         ELSE Page(srv, refreshing.view, 0)
  OBVIOUS
<1>3. refreshing' = [refreshing EXCEPT !.tag = refreshing.view, !.page = page]
  BY <1>2 DEF PageRead
<1>4. /\ refreshing'.tag = refreshing.view /\ refreshing'.page = page
      /\ refreshing'.view = refreshing.view /\ refreshing'.stale = refreshing.stale
      /\ refreshing'.counts = refreshing.counts
  BY <1>1, <1>3 DEF RequestForm
<1>5. refreshing' # None
  <2>1. page \in PageForm \cup {NotModified}
    BY <1>1, <1>2, FirstPage
  <2>2. refreshing' \in RequestForm
    BY <1>1, <1>3, <2>1 DEF RequestForm
  <2> QED
    BY <2>2, TagsApart
<1>6. Covered' <=> Covered
  BY <1>1 DEF Covered
<1>7. ListComing'
  <2>1. CASE refreshing.sent = refreshing.view
    BY <1>1, <1>4, <1>5, <1>6, <2>1 DEF Coming, ListComing
  <2>2. CASE refreshing.sent # refreshing.view
    <3>1. page \in PageForm
      BY <1>1, <1>2, <2>2, FirstPage
    <3> QED
      BY <1>1, <1>4, <1>5, <1>6, <3>1, TagsApart DEF Coming, ListComing
  <2> QED
    BY <2>1, <2>2
<1>8. CountsComing'
  BY <1>1, <1>4, <1>5, <1>6 DEF Coming, CountsComing
<1>9. AnswersLate'
  BY <1>5 DEF AnswersLate
<1> QED
  BY <1>7, <1>8, <1>9 DEF Coming

LEMMA ComingCounted ==
    ASSUME TypeOK, Coming, CountsRead
    PROVE  Coming'
<1>1. /\ refreshing \in RequestForm /\ refreshing # None
      /\ UNCHANGED <<srv, unannounced, hint, source, snap, etag, refreshAgain>>
      /\ refreshing' = [refreshing EXCEPT !.counts = Counts(srv)]
      /\ Counts(srv) \in CountsForm
  BY CountsType DEF CountsRead, listVars, streamVars, TypeOK, ServerForm
<1>2. /\ refreshing' \in RequestForm /\ refreshing'.counts = Counts(srv)
      /\ refreshing'.tag = refreshing.tag /\ refreshing'.page = refreshing.page
      /\ refreshing'.sent = refreshing.sent
      /\ refreshing'.view = refreshing.view /\ refreshing'.stale = refreshing.stale
  BY <1>1 DEF RequestForm
<1>3. refreshing' # None /\ (Covered' <=> Covered)
  BY <1>1, <1>2, TagsApart DEF Covered
<1>4. ListComing'
  BY <1>1, <1>2, <1>3 DEF Coming, ListComing
<1>5. CountsComing' /\ AnswersLate'
  BY <1>1, <1>2, <1>3 DEF CountsComing, AnswersLate
<1> QED
  BY <1>4, <1>5 DEF Coming

\* A refresh that nothing has overtaken leaves the list and the counts in sync.
LEMMA ComingDone ==
    ASSUME TypeOK, HeldType, RefreshShape, Coming, RefreshDone
    PROVE  Coming'
<1>1. /\ refreshing \in RequestForm /\ refreshing # None /\ refreshing.page # None
      /\ refreshing.counts # None
      /\ UNCHANGED <<srv, unannounced, hint, source>>
      /\ Rerun(snap.filter, etag') /\ etag' \in Views \cup {None, Old}
      /\ snap.filter \in Views
  BY FetchDone DEF RefreshDone, TypeOK, streamVars, FetchType, SnapForm
<1>2. CASE refreshAgain
  <2>1. snap'.filter = snap.filter
    <3>1. CASE refreshing.stale
      BY <3>1 DEF RefreshDone, listVars
    <3>2. CASE ~refreshing.stale
      BY <3>2, RefreshDoneSnap
    <3> QED
      BY <3>1, <3>2
  <2> QED
    BY <1>1, <1>2, <2>1, RerunFacts, ComingRequest
<1>3. CASE ~refreshAgain
  <2>1. ~refreshing.stale /\ refreshing' = None /\ failed' = FALSE /\ Late
        /\ refreshing.view = snap.filter
    BY <1>1, <1>3, RerunFacts DEF RefreshDone, RefreshShape
  <2>2. /\ snap' \in SnapForm /\ snap'.filter = snap.filter
        /\ snap'.unread = refreshing.counts.unread
        /\ snap'.unseen = refreshing.counts.unseen
        /\ refreshing.counts \in CountsForm
    BY <2>1, RefreshDoneSnap
  <2>3. source = "open" /\ ~unannounced /\ ~hint
           => \/ /\ refreshing.page \notin {None, NotModified}
                 /\ refreshing.tag = refreshing.view
              \/ etag = snap.filter
    BY <1>1, <1>3 DEF Coming, ListComing, Covered
  <2>4. etag' = IF refreshing.page = NotModified THEN etag ELSE refreshing.tag
    BY <2>1 DEF RefreshDone
  <2>5. source = "open" /\ ~unannounced /\ ~hint => etag' = snap'.filter
    BY <1>1, <2>1, <2>2, <2>3, <2>4 DEF RefreshShape
  <2>6. ListComing'
    BY <1>1, <2>1, <2>5 DEF ListComing, Covered
  <2>7. source = "open" /\ ~unannounced /\ ~hint
           => WithCounts(snap', Counts(srv')) = snap'
    <3>1. SUFFICES ASSUME source = "open", ~unannounced, ~hint
                   PROVE  WithCounts(snap', Counts(srv')) = snap'
      OBVIOUS
    <3>2. refreshing.counts = Counts(srv')
      BY <1>1, <1>3, <3>1 DEF Coming, CountsComing, Covered
    <3> QED
      BY <2>2, <3>2 DEF WithCounts, SnapForm
  <2>8. CountsComing'
    BY <1>1, <2>1, <2>7 DEF CountsComing, Covered
  <2>9. AnswersLate'
    BY <2>1, LateFacts DEF AnswersLate
  <2> QED
    BY <2>6, <2>8, <2>9 DEF Coming
<1> QED
  BY <1>2, <1>3

LEMMA ComingFailed ==
    ASSUME TypeOK, RefreshShape, Coming, RefreshFails
    PROVE  Coming'
<1>1. /\ refreshing # None /\ Rerun(snap.filter, etag) /\ UNCHANGED <<snap, etag>>
      /\ snap.filter \in Views /\ etag \in Views \cup {None, Old}
      /\ failed' = (failed \/ ~refreshing.stale)
  BY DEF RefreshFails, TypeOK, SnapForm
<1>2. CASE refreshAgain
  BY <1>1, <1>2, RerunFacts, ComingRequest
<1>3. CASE ~refreshAgain
  <2>1. refreshing' = None /\ failed'
    BY <1>1, <1>3, RerunFacts DEF RefreshShape
  <2> QED
    BY <2>1 DEF Coming, ListComing, CountsComing, AnswersLate
<1> QED
  BY <1>2, <1>3

LEMMA CountsShown ==
    ASSUME NEW shown \in SnapForm, NEW counts
    PROVE  WithCounts(shown, counts) = shown
              <=> shown.unread = counts.unread /\ shown.unseen = counts.unseen
BY DEF WithCounts, SnapForm

LEMMA ComingFiltered ==
    ASSUME TypeOK, NEW view \in Views, SetFilter(view)
    PROVE  Coming'
<1>1. snap'.filter = view /\ etag' = None
  BY DEF SetFilter, TypeOK, SnapForm
<1>2. CASE refreshing = None
  BY <1>1, <1>2, ComingRequest DEF SetFilter
<1>3. CASE refreshing # None
  BY <1>3, ComingCovered DEF SetFilter, Covered
<1> QED
  BY <1>2, <1>3

LEMMA ComingAfterMore ==
    ASSUME TypeOK, HeldType, Coming, MoreDone
    PROVE  Coming'
<1>1. /\ UNCHANGED <<srv, unannounced, hint, source, etag, failed, refreshing, refreshAgain,
                     pending>>
      /\ adrift \subseteq adrift' /\ snap \in SnapForm
  BY DEF MoreDone, streamVars, TypeOK
<1>2. Covered' <=> Covered
  BY <1>1 DEF Covered
<1>3. /\ snap' \in SnapForm /\ snap'.filter = snap.filter
      /\ snap'.unread = snap.unread /\ snap'.unseen = snap.unseen
  BY <1>1, MoreDoneSnap DEF MoreDone
<1>4. WithCounts(snap, Counts(srv)) = snap => WithCounts(snap', Counts(srv')) = snap'
  BY <1>1, <1>3, CountsShown
<1>5. ListComing'
  BY <1>1, <1>2, <1>3 DEF Coming, ListComing
<1>6. CountsComing'
  BY <1>1, <1>2, <1>4 DEF Coming, CountsComing, ToApply
<1>7. AnswersLate'
  BY <1>1, <1>2 DEF Coming, AnswersLate
<1> QED
  BY <1>5, <1>6, <1>7 DEF Coming

\* The counts that the client moves itself are those of an action still to be
\* applied.
LEMMA ComingMutated ==
    ASSUME TypeOK, Coming, NEW slot \in Slots, NEW op \in Ops, NEW i \in Items,
           Mutate(slot, op, i)
    PROVE  Coming'
<1>1. /\ UNCHANGED <<srv, unannounced, hint, source, etag, failed, adrift, refreshing,
                     refreshAgain>>
      /\ pending[slot] = None /\ snap'.filter = snap.filter
  BY OptimisticType DEF Mutate, streamVars
<1>2. /\ pending'[slot] # None /\ pending'[slot].counts = None
      /\ pending'[slot].changed <=> op \in WholeInbox \/ snap' # snap
      /\ \A s \in Slots : s # slot => pending'[s] = pending[s]
  BY MutateFacts
<1>3. Covered' <=> Covered
  BY <1>1 DEF Covered
<1>4. ListComing'
  BY <1>1, <1>3 DEF Coming, ListComing
<1>5. CountsComing'
  <2>1. CASE snap' = snap
    <3>1. \A s \in Slots : ToApply(s) /\ pending[s].changed
             => ToApply(s)' /\ pending'[s].changed
      BY <1>1, <1>2 DEF ToApply
    <3> QED
      BY <1>1, <1>3, <2>1, <3>1 DEF Coming, CountsComing
  <2>2. CASE snap' # snap
    <3>1. ToApply(slot)' /\ pending'[slot].changed
      BY <1>2, <2>2 DEF ToApply
    <3> QED
      BY <1>1, <1>3, <3>1 DEF Coming, CountsComing
  <2> QED
    BY <2>1, <2>2
<1>6. AnswersLate'
  BY <1>1, <1>2, <1>3 DEF Coming, AnswersLate
<1> QED
  BY <1>4, <1>5, <1>6 DEF Coming

\* An action that turns out to be void leaves its count behind.
LEMMA ComingServed ==
    ASSUME TypeOK, HeldType, Coming, NEW slot \in Slots, ServerApplies(slot)
    PROVE  Coming'
<1>1. /\ pending[slot] \in MutationForm /\ pending[slot] # None
      /\ Serve(pending[slot].op, pending[slot].item)
      /\ UNCHANGED <<hint, source, snap, failed, refreshAgain>> /\ adrift \subseteq adrift'
      /\ pending' = [pending EXCEPT ![slot] = [pending[slot] EXCEPT !.counts = Counts(srv')]]
      /\ pending \in [Slots -> MutationForm \cup {None}]
  BY DEF ServerApplies, TypeOK, streamVars
<1>2. pending[slot].op \in Ops /\ pending[slot].item \in Items
  BY <1>1 DEF MutationForm
<1>3. CASE \E new \in ServerForm : new.seen <= new.n /\ Change(new)
  BY <1>3, ChangeFacts, ComingCovered DEF Covered
<1>4. CASE /\ pending[slot].op \notin WholeInbox
           /\ Effect(srv, pending[slot].op, pending[slot].item) = srv
           /\ UNCHANGED <<srv, unannounced, etag, refreshing>>
  <2>1. Covered' <=> Covered
    BY <1>1, <1>4 DEF Covered
  <2>2. \A s \in Slots : s # slot => pending'[s] = pending[s]
    BY <1>1
  <2>3. pending[slot].changed => "counts" \in adrift'
    BY <1>1, <1>4 DEF ServerApplies
  <2>4. ListComing'
    BY <1>1, <1>4, <2>1 DEF Coming, ListComing
  <2>5. \A s \in Slots : ToApply(s) /\ pending[s].changed
           => "counts" \in adrift' \/ (ToApply(s)' /\ pending'[s].changed)
    BY <2>2, <2>3 DEF ToApply
  <2>6. CountsComing'
    BY <1>1, <1>4, <2>1, <2>5 DEF Coming, CountsComing
  <2>7. pending'[slot].op = pending[slot].op
    BY <1>1 DEF MutationForm
  <2>8. AnswersLate'
    BY <1>1, <1>4, <2>1, <2>2, <2>7 DEF Coming, AnswersLate
  <2> QED
    BY <2>4, <2>6, <2>8 DEF Coming
<1> QED
  BY <1>1, <1>2, <1>3, <1>4, ServeChanges

LEMMA ComingAnswered ==
    ASSUME TypeOK, Coming, NEW slot \in Slots, MutationDone(slot)
    PROVE  Coming'
<1>1. /\ UNCHANGED <<srv, unannounced, hint, source, etag, failed, refreshing,
                     refreshAgain>>
      /\ adrift \subseteq adrift'
      /\ pending[slot] # None /\ pending[slot].counts # None
      /\ pending' = [pending EXCEPT ![slot] = None]
      /\ pending \in [Slots -> MutationForm \cup {None}]
      /\ pending[slot].late /\ pending[slot].op \in WholeInbox => "counts" \in adrift'
  BY DEF MutationDone, TypeOK, streamVars
<1>2. /\ snap'.filter = snap.filter
      /\ pending[slot].op \notin WholeInbox => snap' = snap
  BY MutationDoneSnap
<1>3. Covered' <=> Covered
  BY <1>1 DEF Covered
<1>4. /\ pending'[slot] = None
      /\ \A s \in Slots : s # slot => pending'[s] = pending[s]
  BY <1>1
<1>5. ListComing'
  BY <1>1, <1>2, <1>3 DEF Coming, ListComing
<1>6. AnswersLate'
  BY <1>1, <1>3, <1>4 DEF Coming, AnswersLate
<1>7. CountsComing'
  <2>1. CASE pending[slot].op \notin WholeInbox
    <3>1. \A s \in Slots : ToApply(s) /\ pending[s].changed
             => ToApply(s)' /\ pending'[s].changed
      BY <1>1, <1>4 DEF ToApply
    <3> QED
      BY <1>1, <1>2, <1>3, <2>1, <3>1 DEF Coming, CountsComing
  <2>2. CASE pending[slot].op \in WholeInbox
    BY <1>1, <1>3, <2>2 DEF Coming, CountsComing, AnswersLate
  <2> QED
    BY <2>1, <2>2
<1> QED
  BY <1>5, <1>6, <1>7 DEF Coming

LEMMA ComingStep ==
    ASSUME TypeOK, HeldType, RefreshShape, Coming, [Next]_vars
    PROVE  Coming'
<1>1. CASE Arrive
  BY <1>1, ArriveChanges, ChangeFacts, ComingCovered DEF Covered
<1>2. ASSUME NEW op \in DeviceOps, NEW i \in Items, OtherDevice(op, i)
      PROVE  Coming'
  BY <1>2, OtherDeviceChanges, ChangeFacts, ComingCovered DEF Covered
<1>3. CASE Announce
  BY <1>3, ComingCovered DEF Announce, Covered
<1>4. CASE FetchMore \/ MoreRead \/ MoreFails
  <2>1. UNCHANGED <<srv, unannounced, hint, source, snap, etag, refreshing, refreshAgain,
                    adrift, pending, failed>>
    BY <1>4 DEF FetchMore, MoreRead, MoreFails, listVars, streamVars
  <2> QED
    BY <2>1, ComingSame
<1>5. ASSUME NEW slot \in Slots, MutationFails(slot)
      PROVE  Coming'
  <2>1. /\ pending[slot] \in MutationForm /\ WellRead(pending[slot].prev)
        /\ snap' = RolledBack(pending[slot])
        /\ Refresh(snap.filter, None) /\ etag' = None
    BY <1>5 DEF MutationFails, Reconcile, TypeOK, HeldType
  <2> QED
    BY <2>1, RolledBackType, ComingAsked
<1>6. CASE Connect \/ Close \/ SetCredentials \/ StreamFails \/ TimerFires
  <2>1. source' # "open"
    BY <1>6 DEF Connect, Close, SetCredentials, StreamFails, TimerFires
  <2> QED
    BY <2>1, ComingCovered
<1>7. CASE Open \/ HintEvent
  <2>1. UNCHANGED <<etag, snap>> /\ Refresh(snap.filter, etag)
    BY <1>7 DEF Open, HintEvent, listVars
  <2> QED
    BY <2>1, ComingAsked
<1>8. CASE UNCHANGED vars
  BY <1>8, ComingSame DEF vars, listVars, streamVars
<1> QED
  BY <1>1, <1>2, <1>3, <1>4, <1>5, <1>6, <1>7, <1>8, ComingRead, ComingCounted, ComingDone,
     ComingFailed, ComingFiltered, ComingAfterMore, ComingMutated, ComingServed,
     ComingAnswered DEF Next, Server, Lists, Mutations, Stream

----------------------------------------------------------------------------
(* The theorems *)

LEMMA SyncInit ==
    ASSUME Init
    PROVE  SyncInv
<1>1. 0 \in 0..MaxItems /\ 0 \in 0..MaxAttempts /\ 0 # MaxAttempts /\ 0 <= FirstItems
  BY ClientAssumption
<1>2. snap \in SnapForm /\ snap.read \subseteq snap.items
  BY ClientAssumption DEF Init, SnapForm
<1>3. srv \in ServerForm /\ srv.seen <= srv.n
  BY <1>1, ClientAssumption DEF Init, ServerForm
<1>4. pending \in [Slots -> MutationForm \cup {None}] /\ \A s \in Slots : pending[s] = None
  BY DEF Init
<1>5. TypeOK
  BY <1>1, <1>2, <1>3, <1>4 DEF Init, TypeOK, ServerForm
<1>6. HeldType /\ StreamInv
  BY <1>1, <1>4 DEF Init, HeldType, StreamInv, StatusTellsTruth
<1>7. RefreshShape /\ TagTruthful /\ MoreTruthful
  BY TagsApart DEF Init, RefreshShape, TagTruthful, MoreTruthful
<1>8. ListComing /\ CountsComing /\ AnswersLate
  BY DEF Init, ListComing, CountsComing, AnswersLate
<1> QED
  BY <1>5, <1>6, <1>7, <1>8 DEF SyncInv

LEMMA SyncStep ==
    ASSUME SyncInv, [Next]_vars
    PROVE  SyncInv'
<1>1. /\ TypeOK /\ HeldType /\ StreamInv /\ RefreshShape /\ TagTruthful /\ MoreTruthful
      /\ Coming
  BY DEF SyncInv, Coming
<1>2. FetchType' /\ MoreType' /\ PendingType' /\ TagTruthful' /\ Coming'
  BY <1>1, FetchStep, MoreStep, PendingStep, TagStep, ComingStep
<1>3. TypeOK'
  BY <1>1, <1>2, ServerStep, StreamStep, SnapStep, HistoryStep
  DEF TypeOK, ServerForm, FetchType, MoreType, PendingType, WellRead
<1>4. HeldType' /\ StreamInv'
  BY <1>1, <1>2, StreamStep DEF HeldType, FetchType, MoreType, PendingType
<1> QED
  BY <1>2, <1>3, <1>4 DEF SyncInv, FetchType, MoreType, Coming

\* Every reachable state: what the client holds of the server is current, announced,
\* or on its way (client.ts, refresh, doRefresh).
THEOREM ClientInvariant == Spec => []SyncInv
<1> QED
  BY SyncInit, SyncStep, PTL DEF Spec

\* What the client's own counting and the answers leave in the snapshot is always a
\* snapshot: the counts never go below zero (client.ts, every optimistic mutation).
THEOREM ClientTypes == Spec => []TypeOK
<1>1. SyncInv => TypeOK
  BY DEF SyncInv
<1> QED
  BY <1>1, ClientInvariant, PTL

\* The status tells what the stream does, and a timer never survives its stream
\* (client.ts, openStream, handleStreamFailure, close).
THEOREM StatusTruth == Spec => []StatusTellsTruth
<1>1. SyncInv => StatusTellsTruth
  BY DEF SyncInv, StreamInv
<1> QED
  BY <1>1, ClientInvariant, PTL

\* A connected client with nothing in flight shows the server's first page and
\* counts (client.ts, refresh, doRefresh, reconcileAfterFailedMutation).
THEOREM RestInSync == Spec => []AtRestInSync
<1>1. ASSUME SyncInv
      PROVE  AtRestInSync
  <2> SUFFICES ASSUME status = "connected", Idle, ~failed, adrift = {}
               PROVE  InSync
    BY DEF AtRestInSync
  <2>1. /\ source = "open" /\ ~unannounced /\ ~hint /\ refreshing = None /\ ~refreshAgain
        /\ \A s \in Slots : pending[s] = None
    BY <1>1 DEF SyncInv, StreamInv, StatusTellsTruth, Idle, RefreshShape
  <2>2. etag = snap.filter /\ snap.filter \in Views
    BY <1>1, <2>1 DEF SyncInv, ListComing, Covered, TypeOK, SnapForm
  <2>3. ListInSync(srv, snap)
    BY <1>1, <2>1, <2>2 DEF SyncInv, TagTruthful, ToApply
  <2>4. WithCounts(snap, Counts(srv)) = snap
    BY <1>1, <2>1 DEF SyncInv, CountsComing, Covered, ToApply
  <2> QED
    BY <2>3, <2>4 DEF InSync
<1> QED
  BY <1>1, ClientInvariant, PTL

=============================================================================
