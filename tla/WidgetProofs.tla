---------------------------- MODULE WidgetProofs ----------------------------
(***************************************************************************)
(* For every number of items, tabs, rows to a page and calls in flight:    *)
(* what the widget shows is true.  The pill follows from what a render     *)
(* makes of the list; the badge and the empty state from what the client   *)
(* holds of the server: unless a hole is left, a row of the view is loaded,*)
(* or below the cursor of a list with more to come, or on its way out by a *)
(* mutation in flight, or announced and newer than all that is loaded or   *)
(* may come back with a failed one.  The panel shows the newest answer, for*)
(* one that is not has been crossed by a newer one; the credential is that *)
(* of the prop by induction over the life of the client.                   *)
(***************************************************************************)
EXTENDS InboxWidget, FiniteSetTheorems, WellFoundedInduction, TLAPS

\* A set of natural numbers has a least element, and one below a bound a greatest.
LEMMA HasLeast ==
    ASSUME NEW S \in SUBSET Nat, S # {}
    PROVE  \E x \in S : \A y \in S : x <= y
<1>1. PICK x \in S : \A y \in S : <<y, x>> \notin OpToRel(<, Nat)
  BY NatLessThanWellFounded, WFMin
<1>2. \A y \in S : ~(y < x)
  BY <1>1 DEF OpToRel
<1> QED
  BY <1>2

LEMMA HasGreatest ==
    ASSUME NEW n \in Nat, NEW S \in SUBSET Nat, S # {}, \A x \in S : x <= n
    PROVE  \E x \in S : \A y \in S : y <= x
<1> DEFINE T == {n - x : x \in S}
<1>1. \A x \in S : n - x \in Nat
  OBVIOUS
<1>2. T \in SUBSET Nat /\ T # {}
  BY <1>1
<1>3. PICK t \in T : \A u \in T : t <= u
  <2> HIDE DEF T
  <2> QED
    BY <1>2, HasLeast
<1>4. PICK x \in S : t = n - x
  OBVIOUS
<1>5. \A y \in S : n - y \in T
  OBVIOUS
<1>6. \A y \in S : y <= x
  <2> HIDE DEF T
  <2> QED
    BY <1>3, <1>4, <1>5
<1> QED
  BY <1>6

\* What has fewer than k above it comes before the rest, and is k if anything is left.
LEMMA TopPart ==
    ASSUME NEW n \in Nat, NEW R \in SUBSET Nat, \A x \in R : x <= n, NEW k \in Nat \ {0}
    PROVE  LET top == {i \in R : Cardinality({j \in R : j > i}) < k}
           IN  /\ \A i \in R \ top, j \in top : i < j
               /\ R # top => Cardinality(top) = k
<1> DEFINE Above(i) == {j \in R : j > i}
           top == {i \in R : Cardinality(Above(i)) < k}
<1>1. IsFiniteSet(R)
  BY FS_BoundedSetOfNaturals
<1>2. ASSUME NEW i \in R
      PROVE  /\ Above(i) \in SUBSET R /\ IsFiniteSet(Above(i))
             /\ Cardinality(Above(i)) \in Nat
             /\ i \in top <=> Cardinality(Above(i)) < k
  <2>1. Above(i) \in SUBSET R
    OBVIOUS
  <2>2. IsFiniteSet(Above(i))
    BY <1>1, <2>1, FS_Subset
  <2> HIDE DEF Above
  <2> QED
    BY <2>1, <2>2, FS_CardinalityType
<1>3. \A i \in R : \A j \in R : j \in Above(i) <=> j > i
  OBVIOUS
<1>4. top \in SUBSET R
  OBVIOUS
<1>5. IsFiniteSet(top) /\ Cardinality(top) \in Nat
  <2>1. IsFiniteSet(top)
    <3> HIDE DEF top
    <3> QED
      BY <1>1, <1>4, FS_Subset
  <2> HIDE DEF top
  <2> QED
    BY <2>1, FS_CardinalityType
<1> HIDE DEF Above, top
<1>6. ASSUME NEW i \in R, NEW j \in R, i \notin top, j \in top
      PROVE  i < j
  <2> SUFFICES ASSUME j <= i
               PROVE  FALSE
    OBVIOUS
  <2>1. ASSUME NEW x \in R, x \in Above(i)
        PROVE  x \in Above(j)
    BY <1>3, <2>1
  <2>2. Above(i) \in SUBSET Above(j)
    BY <1>2, <2>1
  <2>3. Cardinality(Above(i)) <= Cardinality(Above(j))
    BY <1>2, <2>2, FS_Subset
  <2> QED
    BY <1>2, <1>6, <2>3
<1>7. ASSUME R # top
      PROVE  Cardinality(top) = k
  <2>1. R \ top # {} /\ R \ top \in SUBSET Nat /\ \A x \in R \ top : x <= n
    BY <1>4, <1>7
  <2>2. PICK i \in R \ top : \A y \in R \ top : y <= i
    BY <2>1, HasGreatest
  <2>3. Above(i) = top
    <3>1. ASSUME NEW x \in R
          PROVE  x \in Above(i) <=> x \in top
      BY <1>3, <1>6, <2>2, <3>1
    <3> QED
      BY <1>2, <1>4, <3>1
  <2>4. Cardinality(top) >= k
    BY <1>2, <2>3
  <2>5. top # {} /\ top \in SUBSET Nat
    BY <1>4, <2>4, FS_EmptySet
  <2>6. PICK j \in top : \A y \in top : j <= y
    BY <2>5, HasLeast
  <2>7. j \in R
    BY <1>4
  <2>8. Above(j) = top \ {j}
    <3>1. ASSUME NEW x \in R
          PROVE  x \in Above(j) <=> x \in top /\ x # j
      <4>1. CASE x \in top
        BY <1>3, <2>6, <2>7, <4>1
      <4>2. CASE x \notin top
        BY <1>3, <1>6, <2>7, <4>2
      <4> QED
        BY <4>1, <4>2
    <3> QED
      BY <1>2, <1>4, <2>7, <3>1
  <2>9. Cardinality(Above(j)) = Cardinality(top) - 1
    BY <1>5, <2>8, FS_RemoveElement
  <2> QED
    BY <1>2, <1>5, <2>4, <2>7, <2>9
<1> QED
  BY <1>4, <1>6, <1>7 DEF top, Above

----------------------------------------------------------------------------
(* The life of the client *)

\* A stream is signed with the credential of the client, which is that of the
\* prop, and one with it has been tried as long as the owner is mounted.
OwnInv ==
    /\ stream \in {config, NoStream}
    /\ mounted => config \in tried
    /\ host = "standalone" /\ hash # NoHash => config = hash
    /\ ~mounted => stream = NoStream /\ status \in {"idle", "closed"}

LEMMA OwnStep ==
    ASSUME OwnInv, OwnNext
    PROVE  OwnInv'
<1> USE DEF OwnInv
<1>1. ASSUME NEW h \in Hashes \cup {NoHash}, MountOwner(h)
      PROVE  OwnInv'
  BY <1>1 DEF MountOwner
<1>2. ASSUME NEW h \in Hashes \cup {NoHash}, NewHash(h)
      PROVE  OwnInv'
  BY <1>2 DEF NewHash, Replace, OpenStream
<1>3. CASE RunEffectsAgain
  BY <1>3 DEF RunEffectsAgain, Connect, OpenStream
<1>4. CASE UnmountOwner
  BY <1>4 DEF UnmountOwner
<1>5. CASE StreamOpens \/ StreamDrops \/ StreamReconnects
  BY <1>5 DEF StreamOpens, StreamDrops, StreamReconnects
<1> QED
  BY <1>1, <1>2, <1>3, <1>4, <1>5 DEF OwnNext

\* Nothing else in the widget touches the credential or the stream.
LEMMA OthersLeaveOwner ==
    ASSUME [Next]_vars
    PROVE  OwnNext \/ UNCHANGED ownVars
<1>1. CASE World
  BY <1>1 DEF World, Arrive, JobArchives, OtherDeviceReads
<1>2. CASE Client
  BY <1>2 DEF Client, RefreshDone, RefreshFails, FetchDone, FetchFails, Serve, Answered,
              Fails, Settled
<1>3. CASE ListEvents
  BY <1>3 DEF ListEvents, Observe, FillEffect, ScrollEvent, DismissPill, Scroll, FlipRead,
              FlipArchived, ItemClick, Act, Mutate
<1>4. CASE Header
  BY <1>4 DEF Header, ToggleMenu, SelectTab, MenuItem, HostTabs, Gear, Back, SetFilter,
              GoToTab, Act, Mutate
<1>5. CASE Popover
  BY <1>5 DEF Popover, BellClick, PressOutside, Escape, HostOpens, Intent, ShowPopover,
              Mutate
<1>6. CASE PanelToggle \/ PanelAnswer \/ PanelFault
  BY <1>6 DEF PanelToggle, PanelAnswer, PanelFault, PanelStep
<1>7. CASE OwnerStep
  BY <1>7 DEF OwnerStep
<1>8. CASE UNCHANGED vars
  BY <1>8 DEF vars
<1> QED
  BY <1>1, <1>2, <1>3, <1>4, <1>5, <1>6, <1>7, <1>8 DEF Next

\* However props, effects run again, drops and reconnects follow each other, a
\* standalone widget never goes on under an old credential, and one that is gone
\* has no stream (Inbox.tsx, the effects of Inbox; client.ts, setCredentials).
THEOREM CredentialAlways == Spec => []CredentialInForce
<1>1. Init => OwnInv
  BY DEF Init, OwnInit, OwnInv
<1>2. OwnInv /\ [Next]_vars => OwnInv'
  <2> SUFFICES ASSUME OwnInv, [Next]_vars
               PROVE  OwnInv'
    OBVIOUS
  <2>1. CASE OwnNext
    BY <2>1, OwnStep
  <2>2. CASE UNCHANGED ownVars
    BY <2>2 DEF ownVars, OwnInv
  <2> QED
    BY <2>1, <2>2, OthersLeaveOwner
<1>3. OwnInv => CredentialInForce
  BY DEF OwnInv, CredentialInForce
<1> QED
  BY <1>1, <1>2, <1>3, PTL DEF Spec

----------------------------------------------------------------------------
(* The preferences panel *)

\* An answer says which rows the server had, and the latest says which it has.
Told(answer) ==
    answer # None => /\ answer \in Answers /\ answer.version <= version
                     /\ answer.version = version => answer.rows = muted

AnswersTrue ==
    /\ load # None => Told(load.answer)
    /\ \A w \in Calls : writes[w] # None => Told(writes[w].answer)

Mine(w) == writes[w] # None /\ writes[w].mine

\* The latest answer has been handled, or is on its way to this panel.
LatestComes ==
    \/ passed = version
    \/ \E w \in Calls : Mine(w) /\ writes[w].answer # None
                                /\ writes[w].answer.version = version

\* Until a first write is answered, the load brings the latest, or has failed.
LoadComes ==
    /\ \A w \in Calls : Mine(w) => writes[w].answer = None
    /\ load = None => prefError
    /\ load # None /\ load.answer # None => load.answer.version = version

PanelInv ==
    /\ PanelTypeOK
    /\ AnswersTrue
    /\ ~panel => \A w \in Calls : ~Mine(w)
    /\ panel => LatestComes \/ LoadComes
    /\ panel /\ load = None /\ ~prefError /\ ~crossed /\ passed = version
             /\ (\A w \in Calls : ~Mine(w)) => rows = muted

LEMMA PanelInvTells == PanelInv => PanelTellsTruth
BY DEF PanelInv, PanelTellsTruth, LatestComes, LoadComes, Mine

PanelChange ==
    \/ Mount /\ ~panel
    \/ Unmount \/ LoadRead \/ LoadDone \/ LoadFails
    \/ \E w \in Calls : \/ \E c \in Categories : Toggle(w, c)
                        \/ WriteRead(w) \/ WriteDone(w) \/ WriteFails(w)


\* An answer of the server: the newest there is.
LEMMA AnswerIsTrue ==
    ASSUME muted \in Rows, version \in Nat
    PROVE  Answer \in Answers /\ Answer.version = version /\ Answer.rows = muted
BY DEF Answer, Answers

LEMMA MountStep ==
    ASSUME PanelInv, Mount, ~panel
    PROVE  PanelInv'
<1> USE DEF Mount, serverRows
<1>1. load' \in Loads /\ load'.answer = None /\ load' # None
  BY PanelAssumption DEF Loads
<1>2. PanelTypeOK'
  <2>1. (muted \in Rows /\ version \in Nat /\ passed \in 0..version)'
    BY DEF PanelInv, PanelTypeOK
  <2>2. panel' \in BOOLEAN /\ prefError' \in BOOLEAN /\ crossed' \in BOOLEAN
    OBVIOUS
  <2>3. rows' \in Rows \cup {None} /\ writes' \in [Calls -> Writes \cup {None}]
    BY DEF PanelInv, PanelTypeOK
  <2> QED
    BY <1>1, <2>1, <2>2, <2>3 DEF PanelTypeOK
<1>3. AnswersTrue'
  BY <1>1 DEF PanelInv, AnswersTrue, Told
<1>4. LoadComes'
  BY <1>1 DEF PanelInv, LoadComes, Mine
<1> QED
  BY <1>1, <1>2, <1>3, <1>4 DEF PanelInv

LEMMA UnmountStep ==
    ASSUME PanelInv, Unmount
    PROVE  PanelInv'
<1> USE DEF Unmount, serverRows
<1>1. ASSUME NEW w \in Calls
      PROVE  /\ writes'[w] \in Writes \cup {None}
             /\ writes'[w] # None => writes[w] # None /\ writes'[w].answer = writes[w].answer
                                                      /\ ~writes'[w].mine
  BY PanelAssumption DEF PanelInv, PanelTypeOK, Writes
<1>2. PanelTypeOK'
  <2>1. (muted \in Rows /\ version \in Nat /\ passed \in 0..version)'
    BY DEF PanelInv, PanelTypeOK
  <2>2. panel' \in BOOLEAN /\ prefError' \in BOOLEAN /\ crossed' \in BOOLEAN
    OBVIOUS
  <2>3. writes' \in [Calls -> Writes \cup {None}]
    BY <1>1
  <2> QED
    BY <2>1, <2>2, <2>3 DEF PanelTypeOK
<1>3. AnswersTrue'
  BY <1>1 DEF PanelInv, AnswersTrue, Told
<1> QED
  BY <1>1, <1>2, <1>3 DEF PanelInv, Mine

LEMMA LoadReadStep ==
    ASSUME PanelInv, LoadRead
    PROVE  PanelInv'
<1> USE DEF LoadRead, serverRows
<1>1. Answer \in Answers /\ Answer.version = version /\ Answer.rows = muted
  BY AnswerIsTrue DEF PanelInv, PanelTypeOK
<1>2. load' \in Loads /\ load'.answer = Answer
  BY <1>1 DEF PanelInv, PanelTypeOK, Loads
<1>3. load' # None
  BY <1>2, PanelAssumption
<1>4. PanelTypeOK'
  BY <1>2, <1>3 DEF PanelInv, PanelTypeOK
<1>5. version \in Nat
  BY DEF PanelInv, PanelTypeOK
<1>6. AnswersTrue'
  BY <1>1, <1>2, <1>5 DEF PanelInv, AnswersTrue, Told
<1>7. (LatestComes \/ LoadComes) => (LatestComes \/ LoadComes)'
  BY <1>1, <1>2, <1>3 DEF LatestComes, LoadComes, Mine
<1> QED
  BY <1>3, <1>4, <1>6, <1>7 DEF PanelInv, Mine

LEMMA LoadFailsStep ==
    ASSUME PanelInv, LoadFails
    PROVE  PanelInv'
<1> USE DEF LoadFails, serverRows
<1>1. PanelTypeOK'
  BY DEF PanelInv, PanelTypeOK
<1>2. AnswersTrue'
  BY DEF PanelInv, AnswersTrue, Told
<1>3. (LatestComes \/ LoadComes) => (LatestComes \/ LoadComes)'
  BY DEF LatestComes, LoadComes, Mine
<1> QED
  BY <1>1, <1>2, <1>3 DEF PanelInv, Mine

\* What is shown counts as handled, and what is older is known to be.
LEMMA Shows ==
    ASSUME PanelTypeOK, NEW answer \in Answers, answer.version <= version, Show(answer)
    PROVE  /\ rows' = answer.rows /\ rows' \in Rows /\ prefError' = FALSE
           /\ crossed' \in BOOLEAN
           /\ ~crossed' => passed' = answer.version
           /\ passed' \in 0..version
           /\ passed = version \/ answer.version = version => passed' = version
<1> answer.version \in Nat /\ version \in Nat /\ passed \in Nat /\ passed <= version
  BY DEF PanelTypeOK, Answers
<1>1. crossed' <=> answer.version < passed
  BY DEF Show
<1>2. passed' = (IF crossed' THEN passed ELSE answer.version)
  BY DEF Show
<1>3. passed' \in 0..version
  BY <1>1, <1>2
<1>4. passed = version \/ answer.version = version => passed' = version
  BY <1>1, <1>2
<1>5. crossed' \in BOOLEAN
  BY DEF Show
<1> QED
  BY <1>1, <1>2, <1>3, <1>4, <1>5 DEF Show, Answers

LEMMA LoadDoneStep ==
    ASSUME PanelInv, LoadDone
    PROVE  PanelInv'
<1> USE DEF LoadDone, serverRows
<1> DEFINE a == load.answer
<1>1. a \in Answers /\ a.version <= version /\ (a.version = version => a.rows = muted) /\ panel
  BY DEF PanelInv, PanelTypeOK, AnswersTrue, Told
<1>2. /\ rows' = a.rows /\ rows' \in Rows /\ prefError' = FALSE /\ crossed' \in BOOLEAN
      /\ ~crossed' => passed' = a.version
      /\ passed' \in 0..version
      /\ passed = version \/ a.version = version => passed' = version
  BY <1>1, Shows DEF PanelInv
<1>3. PanelTypeOK'
  BY <1>1, <1>2 DEF PanelInv, PanelTypeOK
<1>4. AnswersTrue'
  BY DEF PanelInv, AnswersTrue, Told
<1>5. LatestComes'
  BY <1>1, <1>2 DEF PanelInv, LatestComes, LoadComes, Mine
<1> QED
  BY <1>1, <1>2, <1>3, <1>4, <1>5 DEF PanelInv, Mine

LEMMA ToggleStep ==
    ASSUME PanelInv, NEW w \in Calls, NEW c \in Categories, Toggle(w, c)
    PROVE  PanelInv'
<1> USE DEF Toggle, serverRows
<1> DEFINE new == [category |-> c, mute |-> c \notin Known, previous |-> rows,
                   answer |-> None, mine |-> TRUE]
<1>1. new \in Writes
  BY DEF PanelInv, PanelTypeOK, Writes
<1>2. /\ new # None /\ writes' \in [Calls -> Writes \cup {None}] /\ writes'[w] = new
      /\ \A v \in Calls : v # w => writes'[v] = writes[v]
  BY <1>1, PanelAssumption DEF PanelInv, PanelTypeOK
<1>3. rows' \in Rows
  BY DEF PanelInv, PanelTypeOK, Write, Known, Rows
<1>4. PanelTypeOK'
  BY <1>2, <1>3 DEF PanelInv, PanelTypeOK
<1>5. AnswersTrue'
  BY <1>2 DEF PanelInv, AnswersTrue, Told
<1>6. (LatestComes \/ LoadComes) => (LatestComes \/ LoadComes)'
  BY <1>2 DEF LatestComes, LoadComes, Mine
<1> QED
  BY <1>2, <1>4, <1>5, <1>6 DEF PanelInv, Mine

LEMMA WriteReadStep ==
    ASSUME PanelInv, NEW w \in Calls, WriteRead(w)
    PROVE  PanelInv'
<1> USE DEF WriteRead
<1> DEFINE a == [rows |-> muted', version |-> version']
<1>1. muted' \in Rows /\ version' \in Nat /\ version < version' /\ version \in Nat
  BY DEF PanelInv, PanelTypeOK, Write, Rows, Writes
<1>2. a \in Answers /\ a # None /\ a.version = version' /\ a.rows = muted'
  BY <1>1, PanelAssumption DEF Answers
<1>3. writes[w] \in Writes
  BY DEF PanelInv, PanelTypeOK
<1>4. /\ writes'[w] \in Writes /\ writes'[w].answer = a /\ writes'[w].mine = writes[w].mine
      /\ \A v \in Calls : v # w => writes'[v] = writes[v]
      /\ DOMAIN writes' = Calls
      /\ writes' \in [Calls -> Writes \cup {None}]
  BY <1>2, <1>3 DEF PanelInv, PanelTypeOK, Writes
<1>5. writes'[w] # None
  BY <1>4, PanelAssumption
<1>6. PanelTypeOK'
  <2>1. passed \in 0..version /\ crossed \in BOOLEAN
    BY DEF PanelInv, PanelTypeOK
  <2>2. crossed' \in BOOLEAN
    BY <2>1
  <2>3. passed' \in 0..version'
    BY <1>1, <2>1
  <2> QED
    BY <1>1, <1>4, <2>2, <2>3 DEF PanelInv, PanelTypeOK
<1>7. AnswersTrue'
  <2>1. ASSUME NEW b, Told(b)
        PROVE  Told(b)'
    BY <1>1, <2>1 DEF Told, Answers
  <2>2. ASSUME NEW b, b = a
        PROVE  Told(b)'
    BY <1>1, <1>2, <2>2 DEF Told
  <2>3. \A v \in Calls : writes'[v] # None => \E b : b = writes'[v].answer /\ Told(b)'
    BY <1>4, <2>1, <2>2 DEF PanelInv, AnswersTrue
  <2>4. load' # None => \E b : b = load'.answer /\ Told(b)'
    BY <2>1 DEF PanelInv, AnswersTrue
  <2> QED
    BY <2>3, <2>4 DEF AnswersTrue, Told
<1>8. panel => LatestComes'
  <2>1. CASE panel /\ ~writes[w].mine
    BY <2>1 DEF LatestComes
  <2>2. CASE writes[w].mine
    BY <1>2, <1>4, <1>5, <2>2 DEF LatestComes, Mine
  <2> QED
    BY <2>1, <2>2
<1>9. ~panel => \A v \in Calls : ~Mine(v)'
  BY <1>4, <1>5 DEF PanelInv, Mine
<1>10. panel => crossed' \/ Mine(w)'
  BY <1>4, <1>5 DEF Mine
<1> QED
  BY <1>6, <1>7, <1>8, <1>9, <1>10 DEF PanelInv

LEMMA WriteDoneStep ==
    ASSUME PanelInv, NEW w \in Calls, WriteDone(w)
    PROVE  PanelInv'
<1> USE DEF WriteDone, serverRows
<1> DEFINE a == writes[w].answer
<1>1. a \in Answers /\ a.version <= version /\ (a.version = version => a.rows = muted)
  BY DEF PanelInv, AnswersTrue, Told
<1>2. /\ writes'[w] = None /\ writes' \in [Calls -> Writes \cup {None}]
      /\ \A v \in Calls : v # w => writes'[v] = writes[v]
  BY DEF PanelInv, PanelTypeOK
<1>3. AnswersTrue'
  BY <1>2 DEF PanelInv, AnswersTrue, Told
<1>4. CASE writes[w].mine
  <2>1. /\ rows' = a.rows /\ rows' \in Rows /\ prefError' = FALSE /\ crossed' \in BOOLEAN
        /\ ~crossed' => passed' = a.version
        /\ passed' \in 0..version
        /\ passed = version \/ a.version = version => passed' = version
    BY <1>1, <1>4, Shows DEF PanelInv
  <2>2. panel
    BY <1>4 DEF PanelInv, Mine
  <2>3. PanelTypeOK'
    BY <1>2, <2>1, <2>2 DEF PanelInv, PanelTypeOK
  <2>4. LatestComes'
    BY <1>2, <1>4, <2>1, <2>2 DEF PanelInv, LatestComes, LoadComes, Mine
  <2> QED
    BY <1>1, <1>2, <1>3, <2>1, <2>2, <2>3, <2>4 DEF PanelInv, Mine
<1>5. CASE ~writes[w].mine
  <2>1. PanelTypeOK'
    BY <1>2, <1>5 DEF PanelInv, PanelTypeOK
  <2>2. (LatestComes \/ LoadComes) => (LatestComes \/ LoadComes)'
    BY <1>2, <1>5 DEF LatestComes, LoadComes, Mine
  <2>3. \A v \in Calls : Mine(v)' <=> Mine(v)
    BY <1>2, <1>5 DEF Mine
  <2> QED
    BY <1>3, <1>5, <2>1, <2>2, <2>3 DEF PanelInv
<1> QED
  BY <1>4, <1>5

LEMMA WriteFailsStep ==
    ASSUME PanelInv, NEW w \in Calls, WriteFails(w)
    PROVE  PanelInv'
<1> USE DEF WriteFails, serverRows
<1>1. /\ writes'[w] = None /\ writes' \in [Calls -> Writes \cup {None}]
      /\ \A v \in Calls : v # w => writes'[v] = writes[v]
      /\ writes[w] \in Writes
  BY DEF PanelInv, PanelTypeOK
<1>2. writes[w].answer # None =>
          writes[w].answer.version \in Nat /\ writes[w].answer.version <= version
  BY DEF PanelInv, AnswersTrue, Told, Answers
<1>3. AnswersTrue'
  BY <1>1 DEF PanelInv, AnswersTrue, Told
<1>4. /\ passed' \in 0..version
      /\ passed = version => passed' = version
      /\ writes[w].mine /\ writes[w].answer # None /\ writes[w].answer.version = version
            => passed' = version
  BY <1>1, <1>2 DEF PanelInv, PanelTypeOK
<1>5. rows' \in Rows \cup {None} /\ prefError' \in BOOLEAN
  BY <1>1 DEF PanelInv, PanelTypeOK, Writes
<1>6. writes[w].mine => panel
  BY DEF PanelInv, Mine
<1>7. PanelTypeOK'
  BY <1>1, <1>4, <1>5, <1>6 DEF PanelInv, PanelTypeOK
<1>8. (LatestComes \/ LoadComes) => (LatestComes \/ LoadComes)'
  BY <1>1, <1>4 DEF LatestComes, LoadComes, Mine
<1>9. CASE writes[w].mine
  BY <1>1, <1>3, <1>6, <1>7, <1>8, <1>9 DEF PanelInv, Mine
<1>10. CASE ~writes[w].mine
  <2>1. \A v \in Calls : Mine(v)' <=> Mine(v)
    BY <1>1, <1>10 DEF Mine
  <2> QED
    BY <1>3, <1>7, <1>8, <1>10, <2>1 DEF PanelInv
<1> QED
  BY <1>9, <1>10

LEMMA PanelStepKeeps ==
    ASSUME PanelInv, PanelChange
    PROVE  PanelInv'
BY MountStep, UnmountStep, LoadReadStep, LoadDoneStep, LoadFailsStep, ToggleStep,
   WriteReadStep, WriteDoneStep, WriteFailsStep DEF PanelChange


----------------------------------------------------------------------------
(* The shape of the state *)

Server == [n : Nat, read : SUBSET Items, archived : SUBSET Items, seen : Nat,
           job : BOOLEAN]
Snapshot == [items : SUBSET Items, read : SUBSET Items, archived : SUBSET Items,
             hasMore : BOOLEAN, error : BOOLEAN, filter : Views, unseen : Int]
Fetch == [after : Nat, stale : BOOLEAN, reset : BOOLEAN]

USE DEF Server, Snapshot, Fetch

\* What is put back are rows of the server; archive-read puts nothing back.
OnOne == {"read", "unread", "archive", "unarchive"}

CallsType ==
    /\ calls \in [Calls -> CallForm \cup {None}]
    /\ \A w \in Calls :
          /\ calls[w] # None /\ calls[w].op \in OnOne => calls[w].item \in Items
          /\ calls[w] # None /\ calls[w].op = "archiveRead" => calls[w].prev = None
          /\ Restores(calls[w]) => /\ calls[w].prev.items \subseteq 1..srv.n
                                   /\ calls[w].prev.read \subseteq calls[w].prev.items
                                   /\ calls[w].prev.archived \subseteq calls[w].prev.items

ClientType ==
    /\ CallsType
    /\ srv \in Server
    /\ srv.n <= MaxItems
    /\ snap \in Snapshot
    /\ snap.items \subseteq 1..srv.n /\ snap.read \subseteq snap.items
    /\ snap.archived \subseteq snap.items
    /\ cursor \in Nat
    /\ fetching \in Fetch \cup {None}

\* The panel takes the place of the list.
PanelPlace ==
    /\ isOpen \in BOOLEAN /\ showPreferences \in BOOLEAN /\ panel \in BOOLEAN
    /\ panel <=> isOpen /\ showPreferences

LEMMA ServedType ==
    ASSUME ClientType, NEW view
    PROVE  Served(view) \in SUBSET Nat /\ \A i \in Served(view) : i \in 1..srv.n /\ i <= srv.n
BY DEF ClientType, Served

\* A page is the top of what is below the cursor; one with a successor is cut off
\* at its last item.
LEMMA PageFacts ==
    ASSUME ClientType, NEW below \in Nat
    PROVE  LET rest == {i \in Served(snap.filter) : below = 0 \/ i < below}
               page == Page(below)
           IN  /\ page.items \subseteq rest /\ page.next \in Nat
               /\ page.next = 0 => page.items = rest
               /\ page.next # 0 => /\ page.items # {}
                                   /\ \A i \in page.items : page.next <= i
                                   /\ \A i \in rest \ page.items : i < page.next
<1> DEFINE rest == {i \in Served(snap.filter) : below = 0 \/ i < below}
           top == {i \in rest : Cardinality({j \in rest : j > i}) < PageSize}
<1>1. /\ Page(below).items = top
      /\ Page(below).next = IF Cardinality(top) = PageSize THEN Min(top) ELSE 0
  BY DEF Page
<1>2. /\ srv.n \in Nat /\ PageSize \in Nat \ {0}
      /\ rest \in SUBSET Nat /\ \A i \in rest : i <= srv.n /\ i # 0
  BY ServedType, WidgetAssumption DEF ClientType
<1>3. (\A i \in rest \ top, j \in top : i < j) /\ (rest # top => Cardinality(top) = PageSize)
  <2> HIDE DEF rest
  <2> QED
    BY <1>2, TopPart
<1>4. top \subseteq rest
  OBVIOUS
<1> HIDE DEF top, rest
<1>5. CASE Cardinality(top) = PageSize
  <2>1. top # {} /\ top \in SUBSET Nat
    BY <1>2, <1>4, <1>5, FS_EmptySet
  <2>2. PICK x \in top : \A y \in top : x <= y
    BY <2>1, HasLeast
  <2>3. Min(top) \in top /\ \A y \in top : Min(top) <= y
    BY <2>2 DEF Min
  <2>4. Page(below).next = Min(top)
    BY <1>1, <1>5
  <2>5. Min(top) \in rest /\ Min(top) # 0
    BY <1>2, <1>4, <2>3
  <2>6. \A i \in rest \ top : i < Min(top)
    BY <1>3, <2>3
  <2> QED
    BY <1>1, <1>2, <1>4, <2>1, <2>3, <2>4, <2>5, <2>6 DEF rest
<1>6. CASE Cardinality(top) # PageSize
  BY <1>1, <1>3, <1>4, <1>6 DEF rest
<1> QED
  BY <1>5, <1>6

LEMMA PageType ==
    ASSUME ClientType, NEW below \in Nat
    PROVE  Page(below).items \in SUBSET (1..srv.n) /\ Page(below).next \in Nat
<1>1. Page(below).items \subseteq Served(snap.filter) /\ Page(below).next \in Nat
  BY PageFacts
<1> QED
  BY <1>1, ServedType

\* A list has the fields of a list, and nothing pending while there is none.
ListForm ==
    /\ list = [scroll |-> list.scroll, sentinel |-> list.sentinel, pending |-> list.pending,
               count |-> list.count, due |-> list.due, waiting |-> list.waiting]
    /\ list.count = Cardinality(list.pending)
    /\ ~ListShown => list.pending = {}
    /\ list.pending \subseteq Visible

\* What a step may make of the list: it is new, it is rendered with the next
\* snapshot, or it is what it was over the same rows.
Emptied ==
    /\ list' = [scroll |-> list'.scroll, sentinel |-> list'.sentinel, pending |-> {},
                count |-> 0, due |-> list'.due, waiting |-> list'.waiting]

\* What a refresh that succeeds has just put in the list.
Merged == {i \in snap'.items \ snap.items : hintDue /\ ~hintDue'}

Rendered ==
    /\ ListShown
    /\ list' = [scroll |-> list'.scroll, sentinel |-> list'.sentinel,
                pending |-> list'.pending, count |-> Cardinality(list'.pending),
                due |-> list'.due, waiting |-> list'.waiting]
    /\ list'.pending \subseteq Visible'
    /\ list'.pending \subseteq list.pending \cup Merged

Same ==
    /\ list' = [scroll |-> list'.scroll, sentinel |-> list'.sentinel,
                pending |-> list.pending, count |-> list.count,
                due |-> list'.due, waiting |-> list'.waiting]
    /\ ListShown' = ListShown
    /\ Visible' = Visible \/ ~ListShown

ListChange == Emptied \/ (Rendered /\ ListShown') \/ Same

LEMMA RenderFacts ==
    ASSUME ListForm, NEW n, NEW arrived, NEW ticked, Render(n, arrived, ticked), ListShown,
           arrived \subseteq Merged,
           tabs' = n, activeTab' = activeTab
    PROVE  Rendered
<1> DEFINE p == Present(list.pending \cup (IF list.scroll = "top" THEN {} ELSE arrived),
                        VisibleIn(n, snap'))
           scroll == IF Fits(VisibleIn(n, snap')) THEN "top"
                     ELSE IF list.scroll = "end" /\ VisibleIn(n, snap') # Visible
                          THEN "middle" ELSE list.scroll
           due == list.due \/ ticked \/ snap'.hasMore # snap.hasMore
                           \/ snap'.error # snap.error
           waiting == list.waiting /\ ~ticked
<1>1. list' = [list EXCEPT !.pending = p, !.count = Cardinality(p), !.scroll = scroll,
                           !.due = due, !.waiting = waiting]
  BY Zenon DEF Render
<1>2. p \subseteq VisibleIn(n, snap') /\ p \subseteq list.pending \cup Merged
  BY DEF Present
<1>3. VisibleIn(n, snap') = Visible'
  BY DEF Visible, VisibleIn, FilterIn, IndexIn, Matches
<1> HIDE DEF p, scroll, due, waiting
<1>4. /\ list' = [scroll |-> list'.scroll, sentinel |-> list'.sentinel,
                  pending |-> p, count |-> Cardinality(p),
                  due |-> list'.due, waiting |-> list'.waiting]
  BY <1>1 DEF ListForm
<1> QED
  BY <1>2, <1>3, <1>4 DEF Rendered

LEMMA ListKept ==
    ASSUME ListForm, ListChange
    PROVE  ListForm'
<1>1. CASE Emptied
  BY <1>1, FS_EmptySet DEF Emptied, ListForm
<1>2. CASE Rendered /\ ListShown'
  BY <1>2 DEF Rendered, ListForm
<1>3. CASE Same
  BY <1>3 DEF Same, ListForm
<1> QED
  BY <1>1, <1>2, <1>3 DEF ListChange

\* A render over the same tab, with nothing new.
LEMMA RerenderStep ==
    ASSUME ListForm, NEW ticked, Rerender({}, ticked),
           UNCHANGED <<isOpen, showPreferences, tabs, activeTab>>
    PROVE  ListChange
<1>1. CASE ~ListShown
  BY <1>1 DEF Rerender, Render, ListForm, ListShown, ListChange, Same
<1>2. CASE ListShown
  <2>1. PICK n : n = tabs /\ Render(n, {}, ticked)
    BY DEF Rerender
  <2>2. Rendered
    BY <1>2, <2>1, RenderFacts
  <2> QED
    BY <1>2, <2>2 DEF ListChange, ListShown
<1> QED
  BY <1>1, <1>2

LEMMA SettleStep ==
    ASSUME ListForm, Settle, UNCHANGED <<isOpen, showPreferences, tabs, activeTab>>
    PROVE  ListChange
<1>1. PICK ticked : Rerender({}, ticked)
  BY DEF Settle, Rerender, Render
<1> QED
  BY <1>1, RerenderStep

\* The rows of the list stand as they were.
LEMMA SameList ==
    ASSUME ListForm, UNCHANGED <<list, snap, isOpen, showPreferences, tabs, activeTab>>
    PROVE  ListChange
BY DEF ListForm, ListShown, Visible, VisibleIn, FilterIn, IndexIn, Matches, ListChange, Same

LEMMA RemountStep ==
    ASSUME Remount
    PROVE  ListChange
BY DEF Remount, FreshList, ListChange, Emptied

LEMMA ActList ==
    ASSUME ListForm, NEW kind, NEW op, NEW i, NEW link, NEW patched, NEW changed,
           Act(kind, op, i, link, patched, changed),
           UNCHANGED <<isOpen, showPreferences, tabs, activeTab>>
    PROVE  ListChange
BY RerenderStep DEF Act

LEMMA PanelStepList ==
    ASSUME ListForm, NEW error, NEW refresh, PanelStep(error, refresh)
    PROVE  ListChange
BY RerenderStep DEF PanelStep, viewVars

LEMMA RefreshList ==
    ASSUME ClientType, ListForm, RefreshDone
    PROVE  ListChange
<1> DEFINE page == Page(0)
           arrived == Arrived(page.items)
<1>1. snap'.items = page.items \/ page.items \subseteq snap'.items
  BY DEF RefreshDone, ClientType
<1>2. arrived \subseteq Merged
  BY <1>1 DEF Arrived, Merged, RefreshDone
<1>3. Render(tabs, arrived, FALSE) /\ UNCHANGED <<isOpen, showPreferences, tabs, activeTab>>
  BY DEF RefreshDone, Rerender, viewVars
<1> HIDE DEF arrived, page
<1>4. CASE ListShown
  <2>1. PICK n, new : n = tabs /\ new = arrived /\ Render(n, new, FALSE)
    BY <1>3
  <2>2. Rendered
    BY <1>2, <1>3, <1>4, <2>1, RenderFacts
  <2> QED
    BY <1>3, <1>4, <2>2 DEF ListChange, ListShown
<1>5. CASE ~ListShown
  BY <1>3, <1>5 DEF Render, ListForm, ListShown, ListChange, Same
<1> QED
  BY <1>4, <1>5

LEMMA ClientList ==
    ASSUME ClientType, ListForm, Client
    PROVE  ListChange
<1>1. CASE RefreshFails
  BY <1>1, RerenderStep DEF RefreshFails, viewVars
<1>2. CASE FetchDone \/ FetchFails
  BY <1>2, SettleStep DEF FetchDone, FetchFails, viewVars
<1>3. ASSUME NEW w, Answered(w) \/ Fails(w)
      PROVE  ListChange
  BY <1>3, RerenderStep DEF Answered, Fails, Settled, viewVars
<1>4. ASSUME NEW w, Serve(w)
      PROVE  ListChange
  BY <1>4, SameList DEF Serve, viewVars
<1> QED
  BY <1>1, <1>2, <1>3, <1>4, RefreshList DEF Client

LEMMA EventList ==
    ASSUME ListForm, ListEvents
    PROVE  ListChange
<1>1. CASE Observe \/ FillEffect
  <2>1. UNCHANGED <<snap, isOpen, showPreferences, tabs, activeTab>>
    BY <1>1 DEF Observe, FillEffect, clientVars, viewVars
  <2>2. ListShown' = ListShown /\ Visible' = Visible
    BY <2>1 DEF ListShown, Visible, VisibleIn, FilterIn, IndexIn, Matches
  <2>3. CASE Observe
    BY <2>2, <2>3 DEF Observe, ListForm, ListChange, Same
  <2>4. CASE FillEffect
    <3> DEFINE w == list.waiting \/ Fills
    <3>1. list' = [list EXCEPT !.due = FALSE, !.waiting = w]
      BY <2>4, Zenon DEF FillEffect
    <3> HIDE DEF w
    <3> QED
      BY <2>2, <3>1 DEF ListForm, ListChange, Same
  <2> QED
    BY <1>1, <2>3, <2>4
<1>2. CASE ScrollEvent \/ DismissPill
  BY <1>2 DEF ScrollEvent, DismissPill, ListForm, ListChange, Emptied
<1>3. ASSUME NEW to \in {"top", "middle", "end"}, Scroll(to)
      PROVE  ListChange
  <2>1. CASE to = "top"
    BY <1>3, <2>1 DEF Scroll, ListForm, ListChange, Emptied
  <2>2. CASE to # "top"
    BY <1>3, <2>2 DEF Scroll, clientVars, viewVars, ListForm, ListShown, Visible,
                      VisibleIn, FilterIn, IndexIn, Matches, ListChange, Same
  <2> QED
    BY <2>1, <2>2
<1>4. ASSUME NEW i \in Items, FlipRead(i) \/ FlipArchived(i)
      PROVE  ListChange
  <2>1. \E kind, op, link, patched, changed : Act(kind, op, i, link, patched, changed)
    BY <1>4 DEF FlipRead, FlipArchived
  <2> QED
    BY <1>4, <2>1, ActList DEF FlipRead, FlipArchived, viewVars
<1>5. ASSUME NEW i \in Items, ItemClick(i)
      PROVE  ListChange
  BY <1>5, RerenderStep DEF ItemClick, Act, viewVars
<1> QED
  BY <1>1, <1>2, <1>3, <1>4, <1>5 DEF ListEvents

LEMMA HeaderList ==
    ASSUME ListForm, Header
    PROVE  ListChange
<1>1. CASE ToggleMenu
  BY <1>1, SameList DEF ToggleMenu, clientVars
<1>2. ASSUME NEW k, NEW via, ListShown, tabs > 0, GoToTab(k, via)
      PROVE  ListChange
  <2>1. CASE IndexIn(tabs) = Min({k, tabs})
    <3>1. UNCHANGED <<list, snap, isOpen, showPreferences, tabs>> /\ activeTab' = k
      BY <1>2, <2>1 DEF GoToTab, clientVars
    <3>2. FilterIn(tabs)' = FilterIn(tabs)
      BY <2>1, <3>1 DEF FilterIn, IndexIn
    <3>3. Visible' = Visible
      BY <3>1, <3>2 DEF Visible, VisibleIn, Matches
    <3> QED
      BY <3>1, <3>3 DEF ListForm, ListShown, ListChange, Same
  <2>2. CASE IndexIn(tabs) # Min({k, tabs})
    BY <1>2, <2>2, RemountStep DEF GoToTab
  <2> QED
    BY <2>1, <2>2
<1>3. ASSUME NEW op, MenuItem(op), op \in {"readAll", "archiveRead", "archiveAll"}
      PROVE  ListChange
  <2>1. \E kind, i, link, patched, changed : Act(kind, op, i, link, patched, changed)
    BY <1>3 DEF MenuItem
  <2> QED
    BY <1>3, <2>1, ActList DEF MenuItem
<1>4. ASSUME NEW n, HostTabs(n)
      PROVE  ListChange
  <2>1. UNCHANGED <<snap, isOpen, showPreferences, activeTab>> /\ tabs' = n
    BY <1>4 DEF HostTabs
  <2>2. CASE ~ListShown
    BY <1>4, <2>1, <2>2 DEF HostTabs, Render, ListForm, ListShown, ListChange, Same
  <2>3. CASE ListShown /\ IndexIn(n) = IndexIn(tabs)
    <3>1. PICK new, ticked : new = {} /\ ticked = FALSE /\ Render(n, new, ticked)
      BY <1>4, <2>3 DEF HostTabs
    <3>2. Rendered
      BY <2>1, <2>3, <3>1, RenderFacts
    <3> QED
      BY <2>1, <2>3, <3>2 DEF ListChange, ListShown
  <2>4. CASE ListShown /\ IndexIn(n) # IndexIn(tabs)
    BY <1>4, <2>4, RemountStep DEF HostTabs
  <2> QED
    BY <2>2, <2>3, <2>4
<1>5. ASSUME NEW via, Gear(via) \/ Back(via)
      PROVE  ListChange
  BY <1>5, RemountStep DEF Gear, Back
<1>6. ASSUME NEW via, NEW view, SetFilter(view, via)
      PROVE  ListChange
  BY <1>6, RerenderStep DEF SetFilter
<1>7. CASE SelectTab
  BY <1>2, <1>7 DEF SelectTab
<1> QED
  BY <1>1, <1>3, <1>4, <1>5, <1>6, <1>7 DEF Header

LEMMA PopoverList ==
    ASSUME ListForm, Popover
    PROVE  ListChange
<1>1. ASSUME NEW open, ShowPopover(open)
      PROVE  ListChange
  <2>1. CASE open = isOpen
    BY <1>1, <2>1, SameList DEF ShowPopover, SeenNow
  <2>2. CASE open # isOpen
    BY <1>1, <2>2, RemountStep DEF ShowPopover
  <2> QED
    BY <2>1, <2>2
<1>2. \/ \E open : ShowPopover(open)
      \/ UNCHANGED <<clientVars, isOpen, showPreferences, tabs, activeTab, list>>
  BY DEF Popover, BellClick, PressOutside, Escape, HostOpens, Intent
<1> QED
  BY <1>1, <1>2, SameList DEF clientVars

LEMMA ListStep ==
    ASSUME ClientType, ListForm, [Next]_vars
    PROVE  ListChange
<1>1. CASE World
  BY <1>1, SameList DEF World, Arrive, JobArchives, OtherDeviceReads, viewVars
<1>2. CASE PanelToggle \/ PanelAnswer \/ PanelFault
  <2>1. \E error, refresh : PanelStep(error, refresh)
    BY <1>2 DEF PanelToggle, PanelAnswer, PanelFault
  <2> QED
    BY <2>1, PanelStepList
<1>3. CASE OwnerStep
  BY <1>3, SameList DEF OwnerStep, clientVars, viewVars
<1>4. CASE UNCHANGED vars
  BY <1>4, SameList DEF vars, clientVars, viewVars
<1> QED
  BY <1>1, <1>2, <1>3, <1>4, ClientList, EventList, HeaderList, PopoverList DEF Next

----------------------------------------------------------------------------
(* What the client holds of the server *)

TellingUnserved == \E w \in Calls : calls[w] # None /\ calls[w].op = "seenAll"
                                                   /\ ~calls[w].served

BadgeInv ==
    /\ srv.seen <= srv.n
    /\ news = "some" => srv.seen < srv.n /\ ~TellingSeen
    /\ srv.seen < srv.n => news # "none" \/ missed \/ TellingUnserved
    /\ ~hintDue /\ ~behind => \/ snap.unseen = srv.n - srv.seen
                              \/ snap.unseen = 0 /\ news # "some"

\* Read here and not there is a mutation that has not been served.
Pending(w) == Restores(calls[w]) /\ ~calls[w].served

Reading(i) == \E w \in Calls : /\ Pending(w)
                               /\ \/ calls[w].op = "read" /\ calls[w].item = i
                                  \/ calls[w].op = "readAll" /\ i \in calls[w].prev.items

ReadInv == ~hole => \A i \in snap.read : i \in srv.read \/ Reading(i)

\* So is what has left the view here and not there.
Removes(w, i) ==
    /\ Pending(w)
    /\ i \in calls[w].prev.items
    /\ \/ calls[w].op = "archive" /\ calls[w].item = i /\ snap.filter # "archived"
       \/ calls[w].op = "unarchive" /\ calls[w].item = i /\ snap.filter = "archived"
       \/ calls[w].op = "archiveAll" /\ snap.filter # "archived"

Leaving(i) == \E w \in Calls : Removes(w, i)

\* The page in flight starts where the list ends, unless it has been reset.
CursorInv ==
    /\ cursor # 0 => snap.hasMore
    /\ fetching # None /\ ~fetching.stale /\ ~fetching.reset => fetching.after = cursor

Reached(i) == snap.hasMore /\ (cursor = 0 \/ i < cursor)

\* The rows that are loaded or may be put back.
Held == snap.items \cup Restorable

Announced(i) == (hintDue \/ behind) /\ \A j \in Held : j <= i

\* Unless there is a hole, what belongs to the view is loaded, or a page to
\* come brings it, or it is on its way out, or it is news a refresh fetches.
CoverInv ==
    ~hole => \A i \in Served(snap.filter) :
                 i \in snap.items \/ Reached(i) \/ Leaving(i) \/ Announced(i)

ClientInv == ClientType /\ BadgeInv /\ ReadInv /\ CursorInv /\ CoverInv

LEMMA EmptyHolds ==
    ASSUME ClientInv
    PROVE  EmptyMeansEmpty
<1> SUFFICES ASSUME EmptyShown, ActiveFilter # "all", ~hintDue, ~behind, ~hole, Free = Calls
             PROVE  Matches(ActiveFilter, Served(snap.filter), srv.read) = {}
  BY DEF EmptyMeansEmpty
<1>1. Matches(ActiveFilter, snap.items, snap.read) = {} /\ ~snap.hasMore
  BY DEF EmptyShown, DeferEmpty, Visible, VisibleIn, ActiveFilter
<1>2. \A w \in Calls : ~Pending(w)
  BY DEF Free, Pending, Restores
<1>3. Served(snap.filter) \subseteq snap.items
  BY <1>1, <1>2 DEF ClientInv, CoverInv, Reached, Leaving, Removes, Announced
<1>4. snap.read \subseteq srv.read
  BY <1>2 DEF ClientInv, ReadInv, Reading
<1>5. CASE ActiveFilter = "unread"
  <2>1. snap.items \ snap.read = {}
    BY <1>1, <1>5 DEF Matches
  <2>2. Served(snap.filter) \ srv.read = {}
    BY <1>3, <1>4, <2>1
  <2> QED
    BY <1>5, <2>2 DEF Matches
<1>6. CASE ActiveFilter # "unread"
  BY <1>1, <1>3, <1>6 DEF Matches
<1> QED
  BY <1>5, <1>6

LEMMA BadgeHolds ==
    ASSUME ClientInv
    PROVE  BadgeMeansNews
<1> SUFFICES ASSUME ~hintDue, ~behind, ~TellingSeen
             PROVE  /\ news = "some" => snap.unseen > 0
                    /\ snap.unseen > 0 => news # "none" \/ missed
  BY DEF BadgeMeansNews, Badge
<1>1. ~TellingUnserved
  BY DEF TellingSeen, TellingUnserved
<1>2. srv.n \in Nat /\ srv.seen \in Nat
  BY DEF ClientInv, ClientType
<1> QED
  BY <1>1, <1>2 DEF ClientInv, BadgeInv

\* The mutations in flight stay what they are, and the view what it is.
LEMMA SameCalls ==
    ASSUME ClientType, calls' = calls, srv'.n = srv.n
    PROVE  /\ CallsType' /\ Restorable' = Restorable
           /\ TellingSeen' <=> TellingSeen
           /\ TellingUnserved' <=> TellingUnserved
           /\ \A i : Reading(i)' <=> Reading(i)
           /\ snap'.filter = snap.filter => \A i : Leaving(i)' <=> Leaving(i)
<1>1. CallsType'
  BY DEF ClientType, CallsType, Restores
<1>2. Restorable' = Restorable
  BY DEF Restorable, Restores
<1>3. (TellingSeen' <=> TellingSeen) /\ (TellingUnserved' <=> TellingUnserved)
  BY DEF TellingSeen, TellingUnserved
<1>4. \A i : Reading(i)' <=> Reading(i)
  BY DEF Reading, Pending, Restores
<1>5. snap'.filter = snap.filter => \A i : Leaving(i)' <=> Leaving(i)
  BY DEF Leaving, Removes, Pending, Restores
<1> QED
  BY <1>1, <1>2, <1>3, <1>4, <1>5

LEMMA HeldType ==
    ASSUME ClientType
    PROVE  Held \subseteq 1..srv.n
<1>1. ASSUME NEW i \in Restorable
      PROVE  i \in 1..srv.n
  <2>1. PICK w \in Calls : Restores(calls[w]) /\ i \in calls[w].prev.items
    BY <1>1 DEF Restorable
  <2> QED
    BY <2>1 DEF ClientType, CallsType
<1> QED
  BY <1>1 DEF Held, ClientType

\* A step that moves no boundary of the list: what it drops from the list is on its
\* way out of the view or announced, and what it brings back is loaded or makes a
\* hole.
Minor ==
    /\ srv' \in Server
    /\ srv'.n = srv.n
    /\ snap' \in Snapshot
    /\ snap'.items \subseteq 1..srv.n /\ snap'.read \subseteq snap'.items
    /\ snap'.archived \subseteq snap'.items
    /\ snap'.hasMore = snap.hasMore
    /\ cursor' = cursor
    /\ \/ fetching' \in {fetching, None}
       \/ fetching' = [after |-> cursor, stale |-> FALSE, reset |-> FALSE]
    /\ hintDue \/ behind => hintDue' \/ behind'
    /\ CallsType'
    /\ Held' \subseteq Held
    /\ hole => hole'
    /\ ~hole' => \A i \in Served(snap.filter)' :
                    /\ i \in Served(snap.filter) \/ i \in snap'.items
                    /\ i \in snap.items \/ Leaving(i)
                          => i \in snap'.items \/ Leaving(i)' \/ Announced(i)'

LEMMA MinorKeeps ==
    ASSUME ClientType, CursorInv, CoverInv, Minor
    PROVE  ClientType' /\ CursorInv' /\ CoverInv'
<1>1. ClientType'
  <2>1. cursor' \in Nat /\ srv'.n <= MaxItems
    BY DEF ClientType, Minor
  <2>2. snap'.items \subseteq 1..srv'.n
    BY DEF Minor
  <2>3. fetching' \in Fetch \cup {None}
    <3>1. CASE fetching' \in {fetching, None}
      BY <3>1 DEF ClientType
    <3>2. CASE fetching' = [after |-> cursor, stale |-> FALSE, reset |-> FALSE]
      BY <3>2 DEF ClientType
    <3> QED
      BY <3>1, <3>2 DEF Minor
  <2>4. /\ srv' \in Server
        /\ snap' \in Snapshot
    BY DEF Minor
  <2> QED
    BY <2>1, <2>2, <2>3, <2>4 DEF ClientType, Minor
<1>2. CursorInv'
  <2>1. cursor' # 0 => snap'.hasMore
    BY DEF CursorInv, Minor
  <2>2. ASSUME fetching' # None, ~fetching'.stale, ~fetching'.reset
        PROVE  fetching'.after = cursor'
    <3>1. CASE fetching' = fetching
      BY <2>2, <3>1 DEF CursorInv, Minor
    <3>2. CASE fetching' = [after |-> cursor, stale |-> FALSE, reset |-> FALSE]
      BY <3>2 DEF Minor
    <3> QED
      BY <2>2, <3>1, <3>2 DEF Minor
  <2> QED
    BY <2>1, <2>2 DEF CursorInv
<1>3. CoverInv'
  <2> SUFFICES ASSUME ~hole', NEW i \in Served(snap.filter)'
               PROVE  (i \in snap.items \/ Reached(i) \/ Leaving(i) \/ Announced(i))'
    BY DEF CoverInv
  <2>1. CASE i \in snap.items \/ i \in snap'.items \/ Leaving(i)
    BY <2>1 DEF Minor
  <2>2. CASE Reached(i)
    BY <2>2 DEF Minor, Reached
  <2>3. CASE Announced(i)
    BY <2>3 DEF Minor, Announced
  <2>4. ~hole /\ (i \in Served(snap.filter) \/ i \in snap'.items)
    BY DEF Minor
  <2> QED
    BY <2>1, <2>2, <2>3, <2>4 DEF CoverInv
<1> QED
  BY <1>1, <1>2, <1>3

----------------------------------------------------------------------------
(* A mutation is called *)

\* A patch takes items out of the list, marks them or unmarks them.
Patches(t) ==
    /\ t \in Snapshot
    /\ t.items \subseteq snap.items /\ t.read \subseteq t.items
    /\ t.archived \subseteq t.items
    /\ t.hasMore = snap.hasMore /\ t.filter = snap.filter

\* The call is one more, and what it may put back is what was loaded.
Called(w, op, i, changed) ==
    /\ calls[w] = None
    /\ calls'[w] # None
    /\ calls'[w].op = op /\ calls'[w].item = i /\ ~calls'[w].served
    /\ ~changed => calls'[w].prev = None
    /\ changed => /\ calls'[w].prev # None
                  /\ calls'[w].prev.items = snap.items
                  /\ calls'[w].prev.read = snap.read
                  /\ calls'[w].prev.archived = snap.archived
    /\ \A v \in Calls \ {w} : calls'[v] = calls[v]

LEMMA CallFacts ==
    ASSUME ClientType, NEW op \in Ops, NEW i \in Nat, NEW link \in BOOLEAN, NEW t,
           NEW changed \in BOOLEAN, Mutate(op, i, link, t, changed), Patches(t),
           op \in OnOne => i \in Items, op = "archiveRead" => ~changed
    PROVE  /\ CallsType' /\ Held' \subseteq Held
           /\ \E w \in Calls : Called(w, op, i, changed)
           /\ \A j : Reading(j) => Reading(j)'
           /\ \A j : Leaving(j) => Leaving(j)'
<1>1. PICK w \in Free : w = CHOOSE v \in Free : TRUE
  BY DEF Mutate
<1>2. w \in Calls /\ calls[w] = None
  BY <1>1 DEF Free
<1>3. PICK p : p = IF changed THEN Captured ELSE None
  OBVIOUS
<1>4. Captured \in PrevForm
  BY DEF Captured, PrevForm, ClientType
<1>5. PICK c : c = [op |-> op, item |-> i, link |-> link, served |-> FALSE, prev |-> p]
  OBVIOUS
<1>6. c \in CallForm /\ c # None
  <2>1. p \in PrevForm \cup {None}
    BY <1>3, <1>4
  <2>2. c \in CallForm
    BY <1>5, <2>1 DEF CallForm
  <2> QED
    BY <2>2, WidgetAssumption
<1>7. calls' = [calls EXCEPT ![w] = c] /\ snap' = t /\ srv' = srv
  BY <1>1, <1>3, <1>5 DEF Mutate
<1>8. /\ calls' \in [Calls -> CallForm \cup {None}]
      /\ calls'[w] = c /\ \A v \in Calls \ {w} : calls'[v] = calls[v]
  BY <1>2, <1>6, <1>7 DEF ClientType, CallsType
<1>9. Captured # None
  BY <1>4, WidgetAssumption
<1>10. Called(w, op, i, changed)
  BY <1>2, <1>3, <1>5, <1>6, <1>8, <1>9 DEF Called, Captured
<1>11. Restores(c) => c.prev.items = snap.items /\ c.prev.read = snap.read
                         /\ c.prev.archived = snap.archived
  BY <1>3, <1>5 DEF Restores, Captured
<1>12. CallsType'
  <2>1. /\ c.op \in OnOne => c.item \in Items
        /\ c.op = "archiveRead" => c.prev = None
        /\ Restores(c) => /\ c.prev.items \subseteq 1..srv.n
                          /\ c.prev.read \subseteq c.prev.items
                          /\ c.prev.archived \subseteq c.prev.items
    BY <1>3, <1>5, <1>11 DEF ClientType
  <2>2. ASSUME NEW v \in Calls
        PROVE  /\ calls'[v] # None /\ calls'[v].op \in OnOne => calls'[v].item \in Items
               /\ calls'[v] # None /\ calls'[v].op = "archiveRead" => calls'[v].prev = None
               /\ Restores(calls'[v]) => /\ calls'[v].prev.items \subseteq 1..srv.n
                                         /\ calls'[v].prev.read \subseteq calls'[v].prev.items
                                         /\ calls'[v].prev.archived
                                                \subseteq calls'[v].prev.items
    <3>1. CASE v = w
      BY <1>8, <2>1, <3>1
    <3>2. CASE v # w
      BY <1>8, <3>2 DEF ClientType, CallsType
    <3> QED
      BY <3>1, <3>2
  <2> QED
    BY <1>7, <1>8, <2>2 DEF CallsType, Restores
<1>13. Held' \subseteq Held
  <2>1. ASSUME NEW j \in Restorable'
        PROVE  j \in Held
    <3>1. PICK v \in Calls : Restores(calls'[v]) /\ j \in calls'[v].prev.items
      BY <2>1 DEF Restorable, Restores
    <3>2. CASE v = w
      BY <1>8, <1>11, <3>1, <3>2 DEF Held
    <3>3. CASE v # w
      BY <1>8, <3>1, <3>3 DEF Held, Restorable
    <3> QED
      BY <3>2, <3>3
  <2>2. snap'.items \subseteq snap.items
    BY <1>7 DEF Patches
  <2> QED
    BY <2>1, <2>2 DEF Held
<1>14. \A v \in Calls : Pending(v) => v # w /\ calls'[v] = calls[v]
  BY <1>2, <1>8 DEF Pending, Restores
<1>15. snap'.filter = snap.filter
  BY <1>7 DEF Patches
<1>16. \A j : Reading(j) => Reading(j)'
  BY <1>14 DEF Reading, Pending, Restores
<1>17. \A j : Leaving(j) => Leaving(j)'
  BY <1>14, <1>15 DEF Leaving, Removes, Pending, Restores
<1> QED
  BY <1>2, <1>10, <1>12, <1>13, <1>16, <1>17

\* A call of the list or its header: what the patch marks read is being read, what
\* it drops is on its way out.
LEMMA ActStep ==
    ASSUME ClientInv, NEW kind, NEW op \in Ops, NEW i \in Nat, NEW link \in BOOLEAN, NEW t,
           NEW changed \in BOOLEAN, Act(kind, op, i, link, t, changed), Patches(t),
           op \in OnOne => i \in Items, op = "archiveRead" => ~changed, op # "seenAll",
           t.unseen = snap.unseen,
           \A j \in t.read \ snap.read : changed /\ \/ op = "read" /\ i = j
                                                    \/ op = "readAll",
           \A j \in snap.items \ t.items :
               /\ changed
               /\ \/ op = "archive" /\ i = j /\ snap.filter # "archived"
                  \/ op = "unarchive" /\ i = j /\ snap.filter = "archived"
                  \/ op = "archiveAll" /\ snap.filter # "archived"
    PROVE  ClientInv'
<1>1. /\ Mutate(op, i, link, t, changed)
      /\ UNCHANGED <<srv, cursor, hintDue, fetching, behind, hole, news, missed, muted>>
      /\ snap' = t
  BY DEF Act, Mutate, panelVars, serverRows
<1>2. /\ CallsType' /\ Held' \subseteq Held
      /\ \A j : Reading(j) => Reading(j)'
      /\ \A j : Leaving(j) => Leaving(j)'
  BY <1>1, CallFacts DEF ClientInv
<1>3. PICK w \in Calls : Called(w, op, i, changed)
  BY <1>1, CallFacts DEF ClientInv
<1>4. changed => Pending(w)'
  BY <1>3 DEF Called, Pending, Restores
<1>5. ASSUME NEW j \in snap.items, j \notin snap'.items
      PROVE  Leaving(j)'
  <2>1. Removes(w, j)'
    BY <1>1, <1>3, <1>4, <1>5 DEF Removes, Called, Patches
  <2> QED
    BY <2>1 DEF Leaving
<1>6. \A j \in Served(snap.filter)' : j \in Served(snap.filter)
  BY <1>1 DEF Served, Patches
<1>7. Minor
  BY <1>1, <1>2, <1>5, <1>6 DEF Minor, Patches, ClientInv, ClientType
<1>8. ReadInv'
  <2> SUFFICES ASSUME ~hole, NEW j \in t.read
               PROVE  j \in srv.read \/ Reading(j)'
    BY <1>1 DEF ReadInv
  <2>1. CASE j \in snap.read
    BY <1>2, <2>1 DEF ClientInv, ReadInv
  <2>2. CASE j \notin snap.read
    <3>1. j \in snap.items
      BY DEF Patches
    <3>2. /\ Pending(w)'
          /\ \/ calls'[w].op = "read" /\ calls'[w].item = j
             \/ calls'[w].op = "readAll" /\ j \in calls'[w].prev.items
      BY <1>3, <1>4, <2>2, <3>1 DEF Called
    <3> QED
      BY <3>2 DEF Reading
  <2> QED
    BY <2>1, <2>2
<1>9. BadgeInv'
  <2>1. TellingSeen' => TellingSeen
    BY <1>3 DEF TellingSeen, Called
  <2>2. TellingUnserved => TellingUnserved'
    BY <1>3 DEF TellingUnserved, Called
  <2>3. snap'.unseen = snap.unseen
    BY <1>1
  <2> QED
    BY <1>1, <2>1, <2>2, <2>3 DEF ClientInv, BadgeInv
<1> QED
  BY <1>7, <1>8, <1>9, MinorKeeps DEF ClientInv

LEMMA VisibleItems == Visible \subseteq snap.items
BY DEF Visible, VisibleIn, Matches

LEMMA ItemIsNat == ASSUME NEW i \in Items PROVE i \in Nat
BY WidgetAssumption DEF Items

LEMMA FlipReadStep ==
    ASSUME ClientInv, NEW i \in Items, FlipRead(i)
    PROVE  ClientInv'
<1>1. i \in snap.items /\ i \in Nat
  BY VisibleItems, ItemIsNat DEF FlipRead
<1>2. CASE i \in snap.read
  <2>1. PICK t : t = [snap EXCEPT !.read = @ \ {i}]
    OBVIOUS
  <2>2. Act("list", "unread", i, FALSE, t, TRUE)
    BY <1>2, <2>1 DEF FlipRead
  <2>3. Patches(t) /\ t.unseen = snap.unseen
    BY <2>1 DEF Patches, ClientInv, ClientType
  <2>4. t.read \subseteq snap.read /\ t.items = snap.items
    BY <2>1 DEF ClientInv, ClientType
  <2>5. "unread" \in Ops
    BY DEF Ops
  <2> QED
    BY <1>1, <2>2, <2>3, <2>4, <2>5, ActStep
<1>3. CASE i \notin snap.read
  <2>1. PICK t : t = [snap EXCEPT !.read = @ \cup {i}]
    OBVIOUS
  <2>2. Act("list", "read", i, FALSE, t, TRUE)
    BY <1>3, <2>1 DEF FlipRead
  <2>3. Patches(t) /\ t.unseen = snap.unseen
    BY <1>1, <2>1 DEF Patches, ClientInv, ClientType
  <2>4. t.read \subseteq snap.read \cup {i} /\ t.items = snap.items
    BY <2>1 DEF ClientInv, ClientType
  <2>5. "read" \in Ops
    BY DEF Ops
  <2> QED
    BY <1>1, <2>2, <2>3, <2>4, <2>5, ActStep
<1> QED
  BY <1>2, <1>3

LEMMA ItemClickStep ==
    ASSUME ClientInv, NEW i \in Items, ItemClick(i)
    PROVE  ClientInv'
<1>1. i \in snap.items /\ i \in Nat
  BY VisibleItems, ItemIsNat DEF ItemClick
<1>2. PICK t, changed : /\ t = [snap EXCEPT !.read = @ \cup {i}]
                        /\ changed = (i \notin snap.read)
  OBVIOUS
<1>3. Act("list", "read", i, TRUE, t, changed)
  BY <1>2 DEF ItemClick
<1>4. changed \in BOOLEAN /\ (changed <=> i \notin snap.read)
  BY <1>2
<1>5. Patches(t) /\ t.unseen = snap.unseen
  BY <1>1, <1>2 DEF Patches, ClientInv, ClientType
<1>6. t.read \subseteq snap.read \cup {i} /\ t.items = snap.items
  BY <1>2 DEF ClientInv, ClientType
<1>7. "read" \in Ops
  BY DEF Ops
<1> QED
  BY <1>1, <1>3, <1>4, <1>5, <1>6, <1>7, ActStep

LEMMA FlipArchivedStep ==
    ASSUME ClientInv, NEW i \in Items, FlipArchived(i)
    PROVE  ClientInv'
<1>1. i \in Nat
  BY ItemIsNat
<1>2. PICK op : op = IF i \in snap.archived THEN "unarchive" ELSE "archive"
  OBVIOUS
<1>3. PICK gone : gone = (op = "unarchive" <=> snap.filter = "archived")
  OBVIOUS
<1>4. PICK t : t = IF gone THEN Without(i) ELSE snap
  OBVIOUS
<1>5. Act("list", op, i, FALSE, t, gone)
  BY <1>2, <1>3, <1>4 DEF FlipArchived
<1>6. gone \in BOOLEAN /\ op \in Ops /\ op \in {"archive", "unarchive"}
  BY <1>2, <1>3 DEF Ops
<1>7. Patches(t) /\ t.unseen = snap.unseen
  BY <1>4 DEF Without, Patches, ClientInv, ClientType
<1>8. t.read \subseteq snap.read
  BY <1>4 DEF Without, ClientInv, ClientType
<1>9. ASSUME NEW j \in snap.items, j \notin t.items
      PROVE  gone /\ i = j
  BY <1>4, <1>6, <1>9 DEF Without, ClientInv, ClientType
<1> QED
  BY <1>1, <1>3, <1>5, <1>6, <1>7, <1>8, <1>9, ActStep

LEMMA MenuItemStep ==
    ASSUME ClientInv, NEW op \in {"readAll", "archiveRead", "archiveAll"}, MenuItem(op)
    PROVE  ClientInv'
<1>1. op \in Ops /\ op \notin OnOne /\ 1 \in Nat
  BY DEF Ops, OnOne
<1>2. CASE op = "readAll"
  <2>1. PICK t : t = [snap EXCEPT !.read = snap.items]
    OBVIOUS
  <2>2. Act("header", op, 1, FALSE, t, TRUE)
    BY <1>2, <2>1 DEF MenuItem
  <2>3. Patches(t) /\ t.unseen = snap.unseen /\ t.items = snap.items
    BY <2>1 DEF Patches, ClientInv, ClientType
  <2> QED
    BY <1>1, <1>2, <2>2, <2>3, ActStep
<1>3. CASE op = "archiveRead"
  <2>1. Act("header", op, 1, FALSE, snap, FALSE)
    BY <1>3 DEF MenuItem
  <2>2. Patches(snap)
    BY DEF Patches, ClientInv, ClientType
  <2> QED
    BY <1>1, <1>3, <2>1, <2>2, ActStep
<1>4. CASE op = "archiveAll"
  <2>1. PICK t : t = IF snap.filter = "archived" THEN snap
                     ELSE [snap EXCEPT !.items = {}, !.read = {}, !.archived = {}]
    OBVIOUS
  <2>2. Act("header", op, 1, FALSE, t, TRUE)
    BY <1>4, <2>1 DEF MenuItem
  <2>3. Patches(t) /\ t.unseen = snap.unseen
    BY <2>1 DEF Patches, ClientInv, ClientType
  <2>4. t.read \subseteq snap.read /\ (t.items = snap.items \/ snap.filter # "archived")
    BY <2>1 DEF ClientInv, ClientType
  <2> QED
    BY <1>1, <1>4, <2>2, <2>3, <2>4, ActStep
<1> QED
  BY <1>2, <1>3, <1>4

----------------------------------------------------------------------------
(* A mutation is served, and ends *)

\* What a call does to the rows.
LEMMA EffectFacts ==
    ASSUME ClientType, NEW w \in Calls, calls[w] # None, srv' = Effect(calls[w].op, calls[w].item)
    PROVE  LET c == calls[w]
           IN  /\ srv' \in Server /\ srv'.n = srv.n
               /\ srv'.seen = IF c.op = "seenAll" THEN srv.n ELSE srv.seen
               /\ c.op = "read" => c.item \in srv'.read
               /\ c.op = "readAll" => srv'.read = 1..srv.n
               /\ \A j \in srv.read \cap (1..srv.n) :
                      j \in srv'.read \/ (c.op = "unread" /\ j = c.item)
               /\ c.op = "archive" => c.item \in srv'.archived
               /\ c.op = "unarchive" => c.item \notin srv'.archived
               /\ c.op = "archiveAll" => srv'.archived = 1..srv.n
<1>1. PICK op, i : op = calls[w].op /\ i = calls[w].item
  OBVIOUS
<1>2. srv' = Effect(op, i) /\ op \in Ops /\ (op \in OnOne => i \in Items)
  <2>1. calls[w] \in CallForm
    BY DEF ClientType, CallsType
  <2> QED
    BY <1>1, <2>1 DEF ClientType, CallsType, CallForm
<1>3. srv \in Server /\ 1..srv.n \in SUBSET Items /\ srv.n \in Nat
  BY WidgetAssumption DEF ClientType, Items
<1>4. CASE op = "read"
  BY <1>1, <1>2, <1>3, <1>4 DEF Effect, OnOne
<1>5. CASE op = "unread"
  BY <1>1, <1>2, <1>3, <1>5 DEF Effect, OnOne
<1>6. CASE op = "archive"
  BY <1>1, <1>2, <1>3, <1>6 DEF Effect, OnOne
<1>7. CASE op = "unarchive"
  BY <1>1, <1>2, <1>3, <1>7 DEF Effect, OnOne
<1>8. CASE op = "readAll"
  BY <1>1, <1>2, <1>3, <1>8 DEF Effect
<1>9. CASE op = "archiveAll"
  BY <1>1, <1>2, <1>3, <1>9 DEF Effect
<1>10. CASE op = "archiveRead"
  BY <1>1, <1>2, <1>3, <1>10 DEF Effect
<1>11. CASE op = "seenAll"
  BY <1>1, <1>2, <1>3, <1>11 DEF Effect
<1> QED
  BY <1>2, <1>4, <1>5, <1>6, <1>7, <1>8, <1>9, <1>10, <1>11 DEF Ops

LEMMA ServeStep ==
    ASSUME ClientInv, NEW w \in Calls, Serve(w)
    PROVE  ClientInv'
<1> DEFINE c == calls[w]
<1>1. /\ c # None /\ ~c.served /\ srv' = Effect(c.op, c.item)
      /\ calls' = [calls EXCEPT ![w].served = TRUE]
      /\ UNCHANGED <<snap, cursor, fetching, news, missed, behind, muted>>
      /\ hintDue => hintDue'
      /\ c.op = "seenAll" => hintDue'
  BY DEF Serve, panelVars, serverRows
<1>2. /\ hole => hole'
      /\ ~hole' => /\ Served(snap.filter)' \ Served(snap.filter) \subseteq snap.items
                   /\ ~(c.op = "unread" /\ c.item \in snap.read)
  BY <1>1 DEF Serve, HoleAfter
<1>3. /\ srv' \in Server /\ srv'.n = srv.n
      /\ srv'.seen = IF c.op = "seenAll" THEN srv.n ELSE srv.seen
      /\ c.op = "read" => c.item \in srv'.read
      /\ c.op = "readAll" => srv'.read = 1..srv.n
      /\ \A j \in srv.read \cap (1..srv.n) :
             j \in srv'.read \/ (c.op = "unread" /\ j = c.item)
      /\ c.op = "archive" => c.item \in srv'.archived
      /\ c.op = "unarchive" => c.item \notin srv'.archived
      /\ c.op = "archiveAll" => srv'.archived = 1..srv.n
  BY <1>1, EffectFacts DEF ClientInv
<1>4. /\ c \in CallForm
      /\ calls \in [Calls -> CallForm \cup {None}]
  BY <1>1 DEF ClientInv, ClientType, CallsType
<1>5. PICK d : d = [c EXCEPT !.served = TRUE]
  OBVIOUS
<1>6. /\ d \in CallForm /\ d # None /\ d.op = c.op /\ d.item = c.item /\ d.prev = c.prev
      /\ d.served
  BY <1>4, <1>5, WidgetAssumption DEF CallForm
<1>7. /\ calls' \in [Calls -> CallForm \cup {None}] /\ calls'[w] = d
      /\ \A v \in Calls \ {w} : calls'[v] = calls[v]
  BY <1>1, <1>4, <1>5, <1>6
<1> HIDE DEF c
<1>8. calls[w] = c
  BY DEF c
<1>9. /\ \A v \in Calls : Restores(calls'[v]) <=> Restores(calls[v])
      /\ \A v \in Calls : calls'[v] # None => /\ calls[v] # None
                                              /\ calls'[v].op = calls[v].op
                                              /\ calls'[v].item = calls[v].item
                                              /\ calls'[v].prev = calls[v].prev
  BY <1>1, <1>6, <1>7, <1>8 DEF Restores
<1>10. CallsType'
  BY <1>3, <1>7, <1>9 DEF ClientInv, ClientType, CallsType, Restores
<1>11. Held' = Held
  <2>1. Restorable' = UNION {calls'[v].prev.items : v \in {u \in Calls : Restores(calls'[u])}}
    BY DEF Restorable, Restores
  <2>2. \A v \in Calls : Restores(calls'[v]) => calls'[v].prev = calls[v].prev
    BY <1>9 DEF Restores
  <2>3. Restorable' = Restorable
    BY <1>9, <2>1, <2>2 DEF Restorable
  <2> QED
    BY <1>1, <2>3 DEF Held
<1>12. ASSUME NEW v \in Calls, v # w, Pending(v)
       PROVE  Pending(v)' /\ calls'[v] = calls[v]
  BY <1>7, <1>12 DEF Pending, Restores
<1>13. ASSUME NEW i, i \in Served(snap.filter)', Leaving(i)
       PROVE  Leaving(i)'
  <2>1. PICK v \in Calls : Removes(v, i)
    BY <1>13 DEF Leaving
  <2>2. v # w
    <3> SUFFICES ASSUME v = w
                 PROVE  FALSE
      OBVIOUS
    <3>1. i \in 1..srv.n
      BY <1>3, <1>13 DEF Served
    <3>2. i \in srv'.archived <=> snap.filter = "archived"
      BY <1>1, <1>13 DEF Served
    <3> QED
      BY <1>3, <1>8, <2>1, <3>1, <3>2 DEF Removes
  <2>3. Removes(v, i)'
    BY <1>1, <1>12, <2>1, <2>2 DEF Removes
  <2> QED
    BY <2>3 DEF Leaving
<1>14. Minor
  BY <1>1, <1>2, <1>3, <1>10, <1>11, <1>13 DEF Minor, ClientInv, ClientType
<1>15. ReadInv'
  <2> SUFFICES ASSUME ~hole', NEW j \in snap.read
               PROVE  j \in srv'.read \/ Reading(j)'
    BY <1>1 DEF ReadInv
  <2>1. j \in 1..srv.n
    BY DEF ClientInv, ClientType
  <2>2. CASE j \in srv.read
    BY <1>2, <1>3, <2>1, <2>2
  <2>3. CASE Reading(j)
    <3>1. PICK v \in Calls : /\ Pending(v)
                             /\ \/ calls[v].op = "read" /\ calls[v].item = j
                                \/ calls[v].op = "readAll" /\ j \in calls[v].prev.items
      BY <2>3 DEF Reading
    <3>2. CASE v = w
      BY <1>3, <1>8, <2>1, <3>1, <3>2
    <3>3. CASE v # w
      BY <1>12, <3>1, <3>3 DEF Reading
    <3> QED
      BY <3>2, <3>3
  <2> QED
    BY <1>2, <2>2, <2>3 DEF ClientInv, ReadInv
<1>16. BadgeInv'
  <2>1. TellingSeen' => TellingSeen
    BY <1>9 DEF TellingSeen
  <2>2. CASE c.op = "seenAll"
    <3>1. TellingSeen
      BY <1>1, <1>8, <2>2 DEF TellingSeen
    <3>2. srv'.seen = srv.n /\ srv.n \in Nat
      BY <1>3, <2>2 DEF ClientInv, ClientType
    <3> QED
      BY <1>1, <1>3, <2>2, <3>1, <3>2 DEF ClientInv, BadgeInv
  <2>3. CASE c.op # "seenAll"
    <3>1. TellingUnserved => TellingUnserved'
      BY <1>7, <1>8, <2>3 DEF TellingUnserved
    <3> QED
      BY <1>1, <1>3, <2>1, <2>3, <3>1 DEF ClientInv, BadgeInv
  <2> QED
    BY <2>2, <2>3
<1> QED
  BY <1>14, <1>15, <1>16, MinorKeeps DEF ClientInv

\* A call ends: the others stay.
LEMMA SettledFacts ==
    ASSUME ClientInv, NEW w \in Calls, calls[w] # None, Settled(w)
    PROVE  /\ UNCHANGED <<srv, cursor, fetching, news, behind>>
           /\ CallsType' /\ Restorable' \subseteq Restorable
           /\ \A v \in Calls : v # w => calls'[v] = calls[v]
           /\ calls'[w] = None
           /\ TellingSeen' => TellingSeen
<1>1. /\ calls' = [calls EXCEPT ![w] = None]
      /\ UNCHANGED <<srv, cursor, fetching, news, behind>>
  BY DEF Settled
<1>2. /\ \A v \in Calls : v # w => calls'[v] = calls[v]
      /\ calls'[w] = None /\ calls' \in [Calls -> CallForm \cup {None}]
  BY <1>1 DEF ClientInv, ClientType, CallsType
<1>3. CallsType'
  <2>1. ASSUME NEW v \in Calls
        PROVE  /\ calls'[v] # None /\ calls'[v].op \in OnOne => calls'[v].item \in Items
               /\ calls'[v] # None /\ calls'[v].op = "archiveRead" => calls'[v].prev = None
               /\ Restores(calls'[v]) => /\ calls'[v].prev.items \subseteq 1..srv.n
                                         /\ calls'[v].prev.read \subseteq calls'[v].prev.items
                                         /\ calls'[v].prev.archived
                                                \subseteq calls'[v].prev.items
    <3>1. CASE v = w
      BY <1>2, <3>1 DEF Restores
    <3>2. CASE v # w
      BY <1>2, <3>2 DEF ClientInv, ClientType, CallsType
    <3> QED
      BY <3>1, <3>2
  <2> QED
    BY <1>1, <1>2, <2>1 DEF CallsType, Restores
<1>4. ASSUME NEW j \in Restorable'
      PROVE  j \in Restorable
  <2>1. PICK v \in Calls : Restores(calls'[v]) /\ j \in calls'[v].prev.items
    BY <1>4 DEF Restorable, Restores
  <2>2. v # w
    BY <1>2, <2>1 DEF Restores
  <2> QED
    BY <1>2, <2>1, <2>2 DEF Restorable
<1>5. TellingSeen' => TellingSeen
  BY <1>2 DEF TellingSeen
<1> QED
  BY <1>1, <1>2, <1>3, <1>4, <1>5

LEMMA AnsweredStep ==
    ASSUME ClientInv, NEW w \in Calls, Answered(w)
    PROVE  ClientInv'
<1>1. /\ calls[w] # None /\ calls[w].served
      /\ Settled(w)
      /\ UNCHANGED <<hintDue, missed, hole>>
  BY DEF Answered
<1>2. PICK u : u = IF calls[w].op = "seenAll" THEN 0 ELSE snap.unseen
  OBVIOUS
<1>3. snap' = [snap EXCEPT !.error = FALSE, !.unseen = u]
  BY <1>2 DEF Answered
<1>4. /\ UNCHANGED <<srv, cursor, fetching, news, behind>>
      /\ CallsType' /\ Restorable' \subseteq Restorable
      /\ \A v \in Calls : v # w => calls'[v] = calls[v]
      /\ calls'[w] = None
      /\ TellingSeen' => TellingSeen
  BY <1>1, SettledFacts
<1>5. u \in Int
  BY <1>2 DEF ClientInv, ClientType
<1>6. /\ snap' \in Snapshot /\ snap'.items = snap.items /\ snap'.read = snap.read
      /\ snap'.archived = snap.archived /\ snap'.filter = snap.filter
      /\ snap'.hasMore = snap.hasMore /\ snap'.unseen = u
  BY <1>3, <1>5 DEF ClientInv, ClientType
<1>7. ASSUME NEW v \in Calls, Pending(v)
      PROVE  Pending(v)' /\ calls'[v] = calls[v]
  BY <1>1, <1>4, <1>7 DEF Pending, Restores
<1>8. \A j : Reading(j) => Reading(j)'
  BY <1>7 DEF Reading
<1>9. \A j : Leaving(j) => Leaving(j)'
  BY <1>6, <1>7 DEF Leaving, Removes
<1>10. muted' = muted
  BY <1>1 DEF Settled, panelVars, serverRows
<1>11. \A i \in Served(snap.filter)' : i \in Served(snap.filter)
  BY <1>4, <1>6, <1>10 DEF Served
<1>12. Held' \subseteq Held
  BY <1>4, <1>6 DEF Held
<1>13. Minor
  BY <1>1, <1>4, <1>6, <1>9, <1>11, <1>12 DEF Minor, ClientInv, ClientType
<1>14. ReadInv'
  BY <1>1, <1>4, <1>6, <1>8 DEF ClientInv, ReadInv
<1>15. BadgeInv'
  <2>1. TellingUnserved => TellingUnserved'
    BY <1>1, <1>4 DEF TellingUnserved
  <2>2. calls[w].op = "seenAll" => TellingSeen
    BY <1>1 DEF TellingSeen
  <2> QED
    BY <1>1, <1>2, <1>4, <1>6, <2>1, <2>2 DEF ClientInv, BadgeInv
<1> QED
  BY <1>13, <1>14, <1>15, MinorKeeps DEF ClientInv

\* What comes back of the list: the rows captured at the call, or what is there.
LEMMA RollbackFacts ==
    ASSUME ClientInv, NEW w \in Calls, calls[w] # None,
           snap' = [RolledBack(calls[w]) EXCEPT !.error = TRUE]
    PROVE  /\ snap' \in Snapshot /\ snap'.filter = snap.filter
           /\ snap'.hasMore = snap.hasMore
           /\ snap'.items \subseteq 1..srv.n /\ snap'.read \subseteq snap'.items
           /\ snap'.archived \subseteq snap'.items
           /\ ~Restores(calls[w]) => snap'.items = snap.items /\ snap'.read = snap.read
           /\ Restores(calls[w]) => /\ snap'.items = calls[w].prev.items
                                    /\ snap'.read = calls[w].prev.read
           /\ calls[w].prev = None => snap'.unseen = snap.unseen
<1>1. PICK r : r = RolledBack(calls[w])
  OBVIOUS
<1>2. calls[w] \in CallForm
  BY DEF ClientInv, ClientType, CallsType
<1>3. CASE calls[w].prev = None
  <2>1. r = snap
    BY <1>1, <1>3 DEF RolledBack, Restores
  <2> QED
    BY <1>1, <1>3, <2>1 DEF Restores, ClientInv, ClientType
<1>4. CASE calls[w].prev # None /\ calls[w].op = "seenAll"
  <2>1. r = [snap EXCEPT !.unseen = calls[w].prev.unseen]
    BY <1>1, <1>4 DEF RolledBack, Restores
  <2>2. calls[w].prev.unseen \in Int
    BY <1>2, <1>4 DEF CallForm, PrevForm
  <2> QED
    BY <1>1, <1>4, <2>1, <2>2 DEF Restores, ClientInv, ClientType
<1>5. CASE Restores(calls[w])
  <2>1. PICK p : p = calls[w].prev
    OBVIOUS
  <2>2. p \in PrevForm
    BY <1>2, <1>5, <2>1 DEF CallForm, Restores
  <2>3. p.items \subseteq 1..srv.n /\ p.read \subseteq p.items /\ p.archived \subseteq p.items
    BY <1>5, <2>1 DEF ClientInv, ClientType, CallsType
  <2>4. r = [snap EXCEPT !.items = p.items, !.read = p.read, !.archived = p.archived,
                         !.unseen = p.unseen]
    BY <1>1, <1>5, <2>1 DEF RolledBack, Restores
  <2>5. snap' = [snap EXCEPT !.items = p.items, !.read = p.read, !.archived = p.archived,
                             !.unseen = p.unseen, !.error = TRUE]
    BY <1>1, <2>4 DEF ClientInv, ClientType
  <2>6. /\ p.items \in SUBSET Items /\ p.read \in SUBSET Items
        /\ p.archived \in SUBSET Items /\ p.unseen \in Int
    BY <2>2 DEF PrevForm
  <2> QED
    BY <1>5, <2>1, <2>3, <2>5, <2>6 DEF Restores, ClientInv, ClientType
<1> QED
  BY <1>3, <1>4, <1>5 DEF Restores

\* What was loaded since the call is gone, and announced, or it makes a hole.
LEMMA FailsStep ==
    ASSUME ClientInv, NEW w \in Calls, Fails(w)
    PROVE  ClientInv'
<1>1. /\ calls[w] # None
      /\ snap' = [RolledBack(calls[w]) EXCEPT !.error = TRUE]
      /\ Settled(w)
      /\ hintDue' = (hintDue \/ calls[w].op # "archiveRead")
      /\ missed' = (missed \/ calls[w].op = "seenAll")
      /\ hole' = (hole \/ Overwritten(calls[w]))
  BY DEF Fails
<1>2. /\ UNCHANGED <<srv, cursor, fetching, news, behind>>
      /\ CallsType' /\ Restorable' \subseteq Restorable
      /\ \A v \in Calls : v # w => calls'[v] = calls[v]
      /\ calls'[w] = None
      /\ TellingSeen' => TellingSeen
  BY <1>1, SettledFacts
<1>3. /\ snap' \in Snapshot /\ snap'.filter = snap.filter
      /\ snap'.hasMore = snap.hasMore
      /\ snap'.items \subseteq 1..srv.n /\ snap'.read \subseteq snap'.items
      /\ snap'.archived \subseteq snap'.items
      /\ ~Restores(calls[w]) => snap'.items = snap.items /\ snap'.read = snap.read
      /\ Restores(calls[w]) => /\ snap'.items = calls[w].prev.items
                               /\ snap'.read = calls[w].prev.read
      /\ calls[w].prev = None => snap'.unseen = snap.unseen
  BY <1>1, RollbackFacts
<1>4. Restores(calls[w]) => calls[w].prev.items \subseteq Restorable
  BY DEF Restorable
<1>5. Held' \subseteq Held
  BY <1>2, <1>3, <1>4 DEF Held
<1>6. muted' = muted
  BY <1>1 DEF Settled, panelVars, serverRows
<1>7. \A i \in Served(snap.filter)' : i \in Served(snap.filter)
  BY <1>2, <1>3, <1>6 DEF Served
<1>8. Restores(calls[w]) => hintDue'
  BY <1>1 DEF ClientInv, ClientType, CallsType, Restores
<1>9. ASSUME NEW v \in Calls, v # w, Pending(v)
      PROVE  Pending(v)' /\ calls'[v] = calls[v]
  BY <1>2, <1>9 DEF Pending, Restores
<1>10. ASSUME ~hole', NEW i \in Served(snap.filter)', i \in snap.items, i \notin snap'.items
       PROVE  Announced(i)'
  <2>1. Restores(calls[w]) /\ ~Overwritten(calls[w])
    BY <1>1, <1>3, <1>10
  <2>2. \A j \in Restorable : ~(i < j)
    BY <1>3, <1>10, <2>1 DEF Overwritten
  <2>3. Held' \subseteq Restorable
    BY <1>2, <1>3, <1>4, <2>1 DEF Held
  <2>4. Held \subseteq Nat /\ i \in Nat
    BY <1>10, HeldType DEF ClientInv, ClientType
  <2>5. \A j \in Held' : j <= i
    BY <1>5, <2>2, <2>3, <2>4
  <2> QED
    BY <1>8, <2>1, <2>5 DEF Announced
<1>11. ASSUME NEW i, Leaving(i)
       PROVE  i \in snap'.items \/ Leaving(i)'
  <2>1. PICK v \in Calls : Removes(v, i)
    BY <1>11 DEF Leaving
  <2>2. CASE v = w
    BY <1>3, <2>1, <2>2 DEF Removes, Pending
  <2>3. CASE v # w
    BY <1>3, <1>9, <2>1, <2>3 DEF Leaving, Removes
  <2> QED
    BY <2>2, <2>3
<1>12. Minor
  BY <1>1, <1>2, <1>3, <1>5, <1>7, <1>10, <1>11 DEF Minor, ClientInv, ClientType
<1>13. ReadInv'
  <2> SUFFICES ASSUME ~hole', NEW j \in snap'.read
               PROVE  j \in srv.read \/ Reading(j)'
    BY <1>2 DEF ReadInv
  <2>1. CASE Restores(calls[w])
    BY <1>1, <1>3, <2>1 DEF Overwritten
  <2>2. CASE ~Restores(calls[w])
    <3>1. j \in srv.read \/ Reading(j)
      BY <1>1, <1>3, <2>2 DEF ClientInv, ReadInv
    <3>2. \A v \in Calls : Pending(v) => v # w
      BY <2>2 DEF Pending
    <3> QED
      BY <1>9, <3>1, <3>2 DEF Reading
  <2> QED
    BY <2>1, <2>2
<1>14. BadgeInv'
  <2>1. TellingUnserved => TellingUnserved' \/ missed'
    BY <1>1, <1>2 DEF TellingUnserved
  <2>2. ~hintDue' => calls[w].prev = None /\ ~hintDue
    BY <1>1 DEF ClientInv, ClientType, CallsType
  <2>3. missed => missed'
    BY <1>1
  <2> QED
    BY <1>2, <1>3, <2>1, <2>2, <2>3 DEF ClientInv, BadgeInv
<1> QED
  BY <1>12, <1>13, <1>14, MinorKeeps DEF ClientInv

----------------------------------------------------------------------------
(* What the others do *)

LEMMA ArriveStep ==
    ASSUME ClientInv, Arrive
    PROVE  ClientInv'
<1>1. /\ srv' = [srv EXCEPT !.n = @ + 1] /\ srv.n < MaxItems
      /\ hintDue' /\ news' = (IF TellingSeen THEN "crossing" ELSE "some")
      /\ UNCHANGED <<snap, cursor, fetching, behind, hole, calls, missed, muted>>
  BY DEF Arrive, panelVars, serverRows
<1>2. /\ srv' \in Server
      /\ srv'.n = srv.n + 1 /\ srv'.seen = srv.seen /\ srv'.read = srv.read
      /\ srv'.archived = srv.archived /\ srv.n \in Nat /\ MaxItems \in Nat /\ srv.seen \in Nat
  <2>1. srv.n \in Nat /\ srv.n + 1 \in Nat /\ srv.seen \in Nat
    BY DEF ClientInv, ClientType
  <2>2. MaxItems \in Nat
    BY WidgetAssumption
  <2>3. srv' \in Server
    BY <1>1, <2>1 DEF ClientInv, ClientType
  <2> QED
    BY <1>1, <2>1, <2>2, <2>3 DEF ClientInv, ClientType
<1>3. CallsType' /\ Restorable' = Restorable /\ (TellingSeen' <=> TellingSeen)
  <2>1. 1..srv.n \subseteq 1..srv'.n
    BY <1>2
  <2>2. CallsType'
    BY <1>1, <2>1 DEF ClientInv, ClientType, CallsType, Restores
  <2> QED
    BY <1>1, <2>2 DEF Restorable, Restores, TellingSeen
<1>4. (\A i : Reading(i)' <=> Reading(i)) /\ (\A i : Leaving(i)' <=> Leaving(i))
  BY <1>1 DEF Reading, Leaving, Removes, Pending, Restores
<1>5. ClientType'
  BY <1>1, <1>2, <1>3 DEF ClientInv, ClientType
<1>6. BadgeInv'
  <2>1. srv'.seen < srv'.n
    BY <1>2 DEF ClientInv, BadgeInv
  <2> QED
    BY <1>1, <1>2, <1>3, <2>1 DEF BadgeInv
<1>7. ReadInv' /\ CursorInv'
  BY <1>1, <1>2, <1>4 DEF ClientInv, ReadInv, CursorInv
<1>8. CoverInv'
  <2> SUFFICES ASSUME ~hole, NEW i \in Served(snap.filter)'
               PROVE  (i \in snap.items \/ Reached(i) \/ Leaving(i) \/ Announced(i))'
    BY <1>1 DEF CoverInv
  <2>1. Held' = Held
    BY <1>1, <1>3 DEF Held
  <2>2. CASE i \in Served(snap.filter)
    <3>1. i \in snap.items \/ Reached(i) \/ Leaving(i) \/ Announced(i)
      BY <2>2 DEF ClientInv, CoverInv
    <3> QED
      BY <1>1, <1>4, <2>1, <3>1 DEF Reached, Announced
  <2>3. CASE i \notin Served(snap.filter)
    <3>1. i > srv.n /\ i \in Nat
      BY <1>1, <1>2, <2>3 DEF Served
    <3>2. \A j \in Held : j \in Nat /\ j <= srv.n
      BY <1>2, HeldType DEF ClientInv
    <3>3. \A j \in Held : j <= i
      BY <1>2, <3>1, <3>2
    <3> QED
      BY <1>1, <2>1, <3>3 DEF Announced
  <2> QED
    BY <2>2, <2>3
<1> QED
  BY <1>5, <1>6, <1>7, <1>8 DEF ClientInv

\* A row that is read or unread, here or there, is where it was.
LEMMA ServedWhenRead ==
    ASSUME srv'.n = srv.n, srv'.archived = srv.archived, srv.read \subseteq srv'.read,
           muted' = muted, snap'.filter = snap.filter
    PROVE  \A i \in Served(snap.filter)' : i \in Served(snap.filter)
BY DEF Served

LEMMA OtherDeviceReadsStep ==
    ASSUME ClientInv, NEW i \in Items, OtherDeviceReads(i)
    PROVE  ClientInv'
<1>1. /\ srv' = [srv EXCEPT !.read = @ \cup {i}] /\ hintDue'
      /\ UNCHANGED <<snap, cursor, fetching, behind, hole, calls, muted, news, missed>>
  BY DEF OtherDeviceReads, panelVars, serverRows, history
<1>2. /\ srv' \in Server
      /\ srv'.n = srv.n /\ srv'.seen = srv.seen
      /\ srv'.archived = srv.archived /\ srv'.read = srv.read \cup {i}
  BY <1>1 DEF ClientInv, ClientType
<1>3. /\ CallsType' /\ Restorable' = Restorable
      /\ TellingSeen' <=> TellingSeen
      /\ TellingUnserved' <=> TellingUnserved
      /\ \A j : Reading(j)' <=> Reading(j)
      /\ \A j : Leaving(j)' <=> Leaving(j)
  BY <1>1, <1>2, SameCalls DEF ClientInv
<1>4. Held' = Held
  BY <1>1, <1>3 DEF Held
<1>5. \A j \in Served(snap.filter)' : j \in Served(snap.filter)
  BY <1>1, <1>2, ServedWhenRead
<1>6. Minor
  BY <1>1, <1>2, <1>3, <1>4, <1>5 DEF ClientInv, ClientType, Minor
<1>7. BadgeInv' /\ ReadInv'
  BY <1>1, <1>2, <1>3 DEF ClientInv, BadgeInv, ReadInv
<1> QED
  BY <1>6, <1>7, MinorKeeps DEF ClientInv

LEMMA JobStep ==
    ASSUME ClientInv, JobArchives
    PROVE  ClientInv'
<1>1. /\ srv' = [srv EXCEPT !.archived = @ \cup srv.read, !.job = FALSE] /\ hintDue'
      /\ UNCHANGED <<snap, cursor, fetching, behind, calls, muted, news, missed>>
      /\ hole' = HoleAfter
  BY DEF JobArchives, panelVars, serverRows
<1>2. /\ srv' \in Server
      /\ srv'.n = srv.n /\ srv'.seen = srv.seen /\ srv'.read = srv.read
  BY <1>1 DEF ClientInv, ClientType
<1>3. /\ CallsType' /\ Restorable' = Restorable
      /\ TellingSeen' <=> TellingSeen
      /\ TellingUnserved' <=> TellingUnserved
      /\ \A j : Reading(j)' <=> Reading(j)
      /\ \A j : Leaving(j)' <=> Leaving(j)
  BY <1>1, <1>2, SameCalls DEF ClientInv
<1>4. Held' = Held
  BY <1>1, <1>3 DEF Held
<1>5. /\ hole => hole'
      /\ ~hole' => \A j \in Served(snap.filter)' :
                      j \in Served(snap.filter) \/ j \in snap'.items
  BY <1>1 DEF HoleAfter
<1>6. Minor
  BY <1>1, <1>2, <1>3, <1>4, <1>5 DEF ClientInv, ClientType, Minor
<1>7. BadgeInv' /\ ReadInv'
  BY <1>1, <1>2, <1>3, <1>5 DEF ClientInv, BadgeInv, ReadInv
<1> QED
  BY <1>6, <1>7, MinorKeeps DEF ClientInv

\* Nothing but the error, or which page is in flight.
LEMMA QuietStep ==
    ASSUME ClientInv,
           \E error \in BOOLEAN : snap' = [snap EXCEPT !.error = error],
           UNCHANGED <<srv, cursor, news, missed, calls>>,
           \/ fetching' \in {fetching, None}
           \/ fetching' = [after |-> cursor, stale |-> FALSE, reset |-> FALSE],
           hintDue \/ behind => hintDue' \/ behind',
           hole' = HoleAfter \/ (hole' = hole /\ muted' = muted)
    PROVE  ClientInv'
<1>1. /\ snap' \in Snapshot
      /\ snap'.items = snap.items /\ snap'.read = snap.read
      /\ snap'.archived = snap.archived
      /\ snap'.hasMore = snap.hasMore /\ snap'.unseen = snap.unseen
      /\ snap'.filter = snap.filter
  BY DEF ClientInv, ClientType
<1>2. /\ hole => hole'
      /\ ~hole' => \A i \in Served(snap.filter)' :
                      i \in Served(snap.filter) \/ i \in snap'.items
  <2>1. CASE hole' = HoleAfter
    BY <1>1, <2>1 DEF HoleAfter
  <2>2. CASE hole' = hole /\ muted' = muted
    BY <1>1, <2>2, ServedWhenRead
  <2> QED
    BY <2>1, <2>2
<1>3. /\ CallsType' /\ Restorable' = Restorable
      /\ TellingSeen' <=> TellingSeen
      /\ TellingUnserved' <=> TellingUnserved
      /\ \A j : Reading(j)' <=> Reading(j)
      /\ \A j : Leaving(j)' <=> Leaving(j)
  BY <1>1, SameCalls DEF ClientInv
<1>4. Held' = Held
  BY <1>1, <1>3 DEF Held
<1>5. Minor
  BY <1>1, <1>2, <1>3, <1>4 DEF ClientInv, ClientType, Minor
<1>6. BadgeInv' /\ ReadInv'
  BY <1>1, <1>2, <1>3 DEF ClientInv, BadgeInv, ReadInv
<1> QED
  BY <1>5, <1>6, MinorKeeps DEF ClientInv

LEMMA FailureStep ==
    ASSUME ClientInv, RefreshFails \/ FetchFails
    PROVE  ClientInv'
<1>1. \E error \in BOOLEAN : snap' = [snap EXCEPT !.error = error]
  <2>1. snap = [snap EXCEPT !.error = snap.error] /\ snap.error \in BOOLEAN
    BY DEF ClientInv, ClientType
  <2> QED
    BY <2>1 DEF RefreshFails, FetchFails
<1>2. /\ UNCHANGED <<srv, cursor, news, missed, calls, hole, muted>>
      /\ fetching' \in {fetching, None}
  BY DEF RefreshFails, FetchFails, panelVars, serverRows, history
<1>3. hintDue \/ behind => hintDue' \/ behind'
  <2>1. CASE RefreshFails
    BY <2>1 DEF RefreshFails
  <2>2. CASE FetchFails
    BY <2>2 DEF FetchFails, history
  <2> QED
    BY <2>1, <2>2
<1> QED
  BY <1>1, <1>2, <1>3, QuietStep

LEMMA FillStep ==
    ASSUME ClientInv, FillEffect
    PROVE  ClientInv'
<1>1. snap' = [snap EXCEPT !.error = snap.error] /\ snap.error \in BOOLEAN
  BY DEF FillEffect, ClientInv, ClientType
<1>2. /\ UNCHANGED <<srv, cursor, news, missed, calls, hole, muted, hintDue, behind>>
      /\ \/ fetching' = fetching
         \/ fetching' = [after |-> cursor, stale |-> FALSE, reset |-> FALSE]
  BY DEF FillEffect, panelVars, serverRows, history
<1> QED
  BY <1>1, <1>2, QuietStep

LEMMA PanelClientStep ==
    ASSUME ClientInv, NEW error \in BOOLEAN, NEW refresh, PanelStep(error, refresh)
    PROVE  ClientInv'
<1>1. snap' = [snap EXCEPT !.error = error]
  BY DEF PanelStep
<1>2. /\ UNCHANGED <<srv, cursor, fetching, news, missed, behind, calls>>
      /\ hole' = HoleAfter
  BY DEF PanelStep
<1>3. hintDue => hintDue'
  BY DEF PanelStep
<1> QED
  BY <1>1, <1>2, <1>3, QuietStep

\* Nothing of the client changes.
LEMMA IdleStep ==
    ASSUME ClientInv, UNCHANGED <<clientVars, calls, muted>>
    PROVE  ClientInv'
<1>1. snap' = [snap EXCEPT !.error = snap.error] /\ snap.error \in BOOLEAN
  BY DEF ClientInv, ClientType, clientVars
<1> QED
  BY <1>1, QuietStep DEF clientVars, history

\* The popover opens: the badge goes, and the server is being told.
LEMMA ShowPopoverStep ==
    ASSUME ClientInv, NEW open, ShowPopover(open)
    PROVE  ClientInv'
<1>1. muted' = muted
  BY DEF ShowPopover, Unmount, serverRows, panelVars
<1>2. CASE SeenNow(open)
  <2>1. PICK t : t = [snap EXCEPT !.unseen = 0]
    OBVIOUS
  <2>2. /\ Mutate("seenAll", 1, FALSE, t, TRUE)
        /\ news' = "none" /\ missed' = FALSE
    BY <1>2, <2>1 DEF ShowPopover, SeenNow
  <2>3. UNCHANGED <<srv, cursor, hintDue, fetching, behind, hole>> /\ snap' = t
    BY <2>2 DEF Mutate
  <2>4. /\ t \in Snapshot
        /\ t.items = snap.items /\ t.read = snap.read /\ t.archived = snap.archived
        /\ t.hasMore = snap.hasMore /\ t.unseen = 0 /\ t.filter = snap.filter
    <3>1. 0 \in Int
      OBVIOUS
    <3> QED
      BY <2>1, <3>1 DEF ClientInv, ClientType
  <2>5. Patches(t)
    BY <2>4 DEF Patches, ClientInv, ClientType
  <2>6. "seenAll" \in Ops /\ "seenAll" \notin OnOne /\ 1 \in Nat
    BY DEF Ops, OnOne
  <2>7. /\ CallsType' /\ Held' \subseteq Held
        /\ \E w \in Calls : Called(w, "seenAll", 1, TRUE)
        /\ \A j : Reading(j) => Reading(j)'
        /\ \A j : Leaving(j) => Leaving(j)'
    BY <2>2, <2>5, <2>6, CallFacts DEF ClientInv
  <2>8. TellingUnserved'
    BY <2>7 DEF TellingUnserved, Called
  <2>9. \A i \in Served(snap.filter)' : i \in Served(snap.filter)
    BY <1>1, <2>3, <2>4, ServedWhenRead
  <2>10. Minor
    BY <2>3, <2>4, <2>7, <2>9 DEF Minor, ClientInv, ClientType
  <2>11. BadgeInv'
    BY <2>2, <2>3, <2>4, <2>8 DEF ClientInv, BadgeInv
  <2>12. ReadInv'
    BY <2>3, <2>4, <2>7 DEF ClientInv, ReadInv
  <2> QED
    BY <2>10, <2>11, <2>12, MinorKeeps DEF ClientInv
<1>3. CASE ~SeenNow(open)
  <2>1. UNCHANGED <<srv, snap, cursor, hintDue, fetching, behind, hole, calls>>
    BY <1>3 DEF ShowPopover
  <2>2. UNCHANGED <<news, missed>>
    BY <1>3 DEF ShowPopover, SeenNow
  <2> QED
    BY <1>1, <2>1, <2>2, IdleStep DEF clientVars, history
<1> QED
  BY <1>2, <1>3

LEMMA SetFilterStep ==
    ASSUME ClientInv, NEW view \in Views, NEW via, SetFilter(view, via)
    PROVE  ClientInv'
<1>1. /\ snap' = [snap EXCEPT !.filter = view, !.items = {}, !.read = {}, !.archived = {},
                               !.hasMore = TRUE]
      /\ cursor' = 0 /\ hintDue'
      /\ fetching' = IF fetching = None THEN None ELSE [fetching EXCEPT !.stale = TRUE]
      /\ UNCHANGED <<srv, news, missed, calls>>
  BY DEF SetFilter
<1>2. /\ snap' \in Snapshot
      /\ snap'.items = {} /\ snap'.read = {} /\ snap'.archived = {} /\ snap'.hasMore
  BY <1>1 DEF ClientInv, ClientType
<1>3. /\ fetching' \in Fetch \cup {None}
      /\ fetching' # None => fetching'.stale
  BY <1>1 DEF ClientInv, ClientType
<1>4. CallsType' /\ (TellingSeen' <=> TellingSeen) /\ (TellingUnserved' <=> TellingUnserved)
  BY <1>1, SameCalls DEF ClientInv
<1>5. ClientType' /\ CursorInv'
  BY <1>1, <1>2, <1>3, <1>4 DEF ClientInv, ClientType, CursorInv
<1>6. BadgeInv' /\ ReadInv'
  BY <1>1, <1>2, <1>4 DEF ClientInv, BadgeInv, ReadInv
<1>7. CoverInv'
  BY <1>1, <1>2 DEF CoverInv, Reached
<1> QED
  BY <1>5, <1>6, <1>7 DEF ClientInv

\* A page is merged below what is loaded.
LEMMA FetchDoneStep ==
    ASSUME ClientInv, FetchDone
    PROVE  ClientInv'
<1>1. /\ UNCHANGED <<srv, hintDue, news, missed, behind, calls, muted>>
      /\ fetching # None /\ fetching' = None
      /\ fetching \in Fetch
  BY DEF FetchDone, panelVars, serverRows, ClientInv, ClientType
<1>2. CASE fetching.stale
  <2>1. UNCHANGED <<snap, cursor, hole>>
    BY <1>2 DEF FetchDone
  <2>2. snap' = [snap EXCEPT !.error = snap.error] /\ snap.error \in BOOLEAN
    BY <2>1 DEF ClientInv, ClientType
  <2> QED
    BY <1>1, <2>1, <2>2, QuietStep
<1>3. CASE ~fetching.stale
  <2> DEFINE page == Page(fetching.after)
             new == page.items \ snap.items
             more == page.next # 0
  <2>1. /\ snap' = [snap EXCEPT !.items = @ \cup new, !.read = @ \cup (srv.read \cap new),
                                !.archived = @ \cup (srv.archived \cap new),
                                !.hasMore = more, !.error = FALSE]
        /\ cursor' = page.next
    BY <1>3, Zenon DEF FetchDone
  <2>2. hole' = (hole \/ fetching.reset)
    BY <1>3 DEF FetchDone
  <2>3. /\ page.items \in SUBSET (1..srv.n) /\ page.next \in Nat
        /\ page.items \in SUBSET Items
    <3>1. page.items \in SUBSET (1..srv.n) /\ page.next \in Nat
      BY <1>1, PageType DEF ClientInv
    <3>2. 1..srv.n \in SUBSET Items
      BY WidgetAssumption DEF ClientInv, ClientType, Items
    <3> QED
      BY <3>1, <3>2
  <2>4. /\ page.next = 0 => \A i \in Served(snap.filter) :
                                fetching.after = 0 \/ i < fetching.after => i \in page.items
        /\ page.next # 0 => \A i \in Served(snap.filter) :
                                (fetching.after = 0 \/ i < fetching.after)
                                    => i \in page.items \/ i < page.next
        /\ fetching.after # 0 => \A i \in page.items : i < fetching.after
    BY <1>1, PageFacts DEF ClientInv
  <2> HIDE DEF page
  <2>5. more \in BOOLEAN /\ (more <=> page.next # 0)
    OBVIOUS
  <2> HIDE DEF more
  <2>6. snap' \in Snapshot
    BY <2>1, <2>3, <2>5 DEF ClientInv, ClientType
  <2>7. /\ snap'.items = snap.items \cup page.items
        /\ snap'.read = snap.read \cup (srv.read \cap new)
        /\ snap'.archived = snap.archived \cup (srv.archived \cap new)
        /\ snap'.hasMore = more /\ snap'.filter = snap.filter /\ snap'.unseen = snap.unseen
    BY <2>1 DEF ClientInv, ClientType
  <2>8. /\ CallsType' /\ Restorable' = Restorable
        /\ TellingSeen' <=> TellingSeen
        /\ TellingUnserved' <=> TellingUnserved
        /\ \A j : Reading(j)' <=> Reading(j)
        /\ \A j : Leaving(j)' <=> Leaving(j)
    BY <1>1, <2>7, SameCalls DEF ClientInv
  <2>9. ClientType'
    BY <1>1, <2>1, <2>3, <2>6, <2>7, <2>8 DEF ClientInv, ClientType
  <2>10. BadgeInv' /\ ReadInv'
    <3>1. hole => hole'
      BY <2>2
    <3> QED
      BY <1>1, <2>7, <2>8, <3>1 DEF ClientInv, BadgeInv, ReadInv
  <2>11. CursorInv'
    BY <1>1, <2>1, <2>5, <2>7 DEF CursorInv
  <2>12. CoverInv'
    <3> SUFFICES ASSUME ~hole', NEW i \in Served(snap.filter)'
                 PROVE  (i \in snap.items \/ Reached(i) \/ Leaving(i) \/ Announced(i))'
      BY DEF CoverInv
    <3>1. ~hole /\ fetching.after = cursor
      BY <1>1, <1>3, <2>2 DEF ClientInv, CursorInv
    <3>2. i \in Served(snap.filter)
      BY <1>1, <2>7 DEF Served
    <3>3. i \in Nat /\ cursor \in Nat
      BY <3>2, ServedType DEF ClientInv, ClientType
    <3>4. CASE cursor = 0 \/ i < cursor
      BY <2>1, <2>4, <2>5, <2>7, <3>1, <3>2, <3>4 DEF Reached
    <3>5. CASE cursor # 0 /\ ~(i < cursor)
      <4>1. i \in snap.items \/ Leaving(i) \/ Announced(i)
        BY <3>1, <3>2, <3>5 DEF ClientInv, CoverInv, Reached
      <4>2. \A j \in page.items : j \in Nat /\ j <= i
        BY <2>3, <2>4, <3>1, <3>3, <3>5
      <4>3. Held' \subseteq Held \cup page.items
        BY <2>7, <2>8 DEF Held
      <4> QED
        BY <1>1, <2>7, <2>8, <4>1, <4>2, <4>3 DEF Announced
    <3> QED
      BY <3>4, <3>5
  <2> QED
    BY <2>9, <2>10, <2>11, <2>12 DEF ClientInv
<1> QED
  BY <1>2, <1>3

\* The first page is merged into what is loaded where they overlap, and takes
\* its place otherwise.
LEMMA RefreshDoneStep ==
    ASSUME ClientInv, RefreshDone
    PROVE  ClientInv'
<1> DEFINE page == Page(0)
           older == {i \in snap.items \ page.items : i < Min(page.items)}
           keeps == page.next # 0 /\ older # {} /\ snap.items \cap page.items # {}
           items == IF keeps THEN page.items \cup older ELSE page.items
           read == (srv.read \cap page.items) \cup (snap.read \cap (items \ page.items))
           gone == (srv.archived \cap page.items)
                       \cup (snap.archived \cap (items \ page.items))
           more == IF keeps THEN snap.hasMore ELSE page.next # 0
           badge == srv.n - srv.seen
<1>1. /\ snap' = [snap EXCEPT !.items = items, !.read = read, !.archived = gone,
                              !.hasMore = more, !.unseen = badge, !.error = FALSE]
      /\ cursor' = IF keeps THEN cursor ELSE page.next
      /\ fetching' = IF keeps \/ fetching = None THEN fetching
                     ELSE [fetching EXCEPT !.reset = TRUE]
  BY Zenon DEF RefreshDone
<1>2. hole' = (hole /\ keeps)
  BY Zenon DEF RefreshDone
<1>3. UNCHANGED <<srv, news, missed, calls, muted>> /\ ~hintDue' /\ ~behind'
  BY DEF RefreshDone, panelVars, serverRows
<1>4. page.items \in SUBSET (1..srv.n) /\ page.next \in Nat
  BY PageType DEF ClientInv
<1>5. 1..srv.n \in SUBSET Items /\ srv.n \in Nat /\ badge \in Int
  BY WidgetAssumption DEF ClientInv, ClientType, Items
<1>6. /\ page.next = 0 => \A i \in Served(snap.filter) : i \in page.items
      /\ page.next # 0 => /\ page.items # {}
                          /\ \A i \in page.items : page.next <= i
                          /\ \A i \in Served(snap.filter) :
                                 i \in page.items \/ i < page.next
  BY PageFacts DEF ClientInv
<1>7. page.next # 0 => Min(page.items) = page.next
  BY DEF Page
<1> HIDE DEF page
<1>8. /\ more \in BOOLEAN /\ items \in SUBSET (1..srv.n) /\ read \in SUBSET items
      /\ gone \in SUBSET items
  BY <1>4 DEF ClientInv, ClientType
<1>9. /\ keeps => /\ page.next # 0 /\ more = snap.hasMore
                  /\ \A i \in snap.items : i < page.next => i \in items
                  /\ \E i \in snap.items : page.next <= i
      /\ ~keeps => items = page.items /\ (more <=> page.next # 0)
      /\ page.items \subseteq items
      /\ \A i \in read : i \in srv.read \/ i \in snap.read
      /\ keeps => \A i \in items : i \in snap.items \/ i \in page.items
      /\ keeps => snap.items # {}
  BY <1>6, <1>7
<1>10. ~keeps => read \subseteq srv.read
  OBVIOUS
<1> HIDE DEF keeps, items, read, more, gone
<1>11. /\ snap' \in Snapshot
       /\ snap'.items = items /\ snap'.read = read /\ snap'.archived = gone
       /\ snap'.hasMore = more
       /\ snap'.filter = snap.filter /\ snap'.unseen = badge
  <2> HIDE DEF badge
  <2>1. items \in SUBSET Items /\ read \in SUBSET Items /\ gone \in SUBSET Items
    BY <1>5, <1>8
  <2> QED
    BY <1>1, <1>5, <1>8, <2>1 DEF ClientInv, ClientType
<1>12. fetching' \in Fetch \cup {None}
  BY <1>1 DEF ClientInv, ClientType
<1>13. /\ CallsType' /\ Restorable' = Restorable
       /\ TellingSeen' <=> TellingSeen
       /\ TellingUnserved' <=> TellingUnserved
       /\ \A j : Reading(j)' <=> Reading(j)
       /\ \A j : Leaving(j)' <=> Leaving(j)
  BY <1>3, <1>11, SameCalls DEF ClientInv
<1>14. ClientType'
  BY <1>1, <1>3, <1>4, <1>8, <1>11, <1>12, <1>13 DEF ClientInv, ClientType
<1>15. BadgeInv' /\ ReadInv'
  <2>1. BadgeInv'
    <3>1. snap'.unseen = srv'.n - srv'.seen
      BY <1>3, <1>11
    <3> QED
      BY <1>3, <1>13, <3>1 DEF ClientInv, BadgeInv
  <2>2. CASE keeps
    <3>1. ~hole' => ~hole
      BY <1>2, <2>2
    <3>2. \A i \in snap.read : ~hole => i \in srv.read \/ Reading(i)
      BY DEF ClientInv, ReadInv
    <3> QED
      BY <1>3, <1>9, <1>11, <1>13, <2>1, <3>1, <3>2 DEF ReadInv
  <2>3. CASE ~keeps
    BY <1>3, <1>11, <1>10, <2>1, <2>3 DEF ReadInv
  <2> QED
    BY <2>1, <2>2, <2>3
<1>16. CursorInv'
  <2>1. CASE keeps
    BY <1>1, <1>9, <1>11, <2>1 DEF ClientInv, CursorInv
  <2>2. CASE ~keeps
    <3>1. fetching' # None => fetching'.reset
      BY <1>1, <2>2 DEF ClientInv, ClientType
    <3> QED
      BY <1>1, <1>9, <1>11, <2>2, <3>1 DEF CursorInv
  <2> QED
    BY <2>1, <2>2
<1>17. CoverInv'
  <2> SUFFICES ASSUME ~hole', NEW i \in Served(snap.filter)'
               PROVE  (i \in snap.items \/ Reached(i) \/ Leaving(i) \/ Announced(i))'
    BY DEF CoverInv
  <2>1. i \in Served(snap.filter)
    BY <1>3, <1>11 DEF Served
  <2>2. i \in Nat
    BY <2>1, ServedType DEF ClientInv
  <2>3. CASE keeps
    <3>1. ~hole /\ cursor' = cursor
      BY <1>1, <1>2, <2>3
    <3>2. i \in snap.items \/ Reached(i) \/ Leaving(i) \/ Announced(i)
      BY <2>1, <3>1 DEF ClientInv, CoverInv
    <3>3. CASE i \in page.items
      BY <1>9, <1>11, <3>3
    <3>4. CASE i < page.next
      <4>1. ~Announced(i)
        BY <1>4, <1>9, <2>2, <2>3, <3>4 DEF Announced, Held, ClientInv, ClientType
      <4> QED
        BY <1>9, <1>11, <1>13, <2>3, <3>1, <3>2, <3>4, <4>1 DEF Reached
    <3> QED
      BY <1>6, <1>9, <2>1, <2>3, <3>3, <3>4
  <2>4. CASE ~keeps
    BY <1>1, <1>6, <1>9, <1>11, <2>1, <2>4 DEF Reached
  <2> QED
    BY <2>3, <2>4
<1> QED
  BY <1>14, <1>15, <1>16, <1>17 DEF ClientInv

LEMMA ClientStep ==
    ASSUME ClientInv, [Next]_vars
    PROVE  ClientInv'
<1> USE DEF panelVars, serverRows
<1>1. CASE World
  BY <1>1, ArriveStep, JobStep, OtherDeviceReadsStep DEF World
<1>2. CASE Client
  BY <1>2, RefreshDoneStep, FetchDoneStep, FailureStep, ServeStep, AnsweredStep, FailsStep
  DEF Client
<1>3. CASE ListEvents
  <2>1. CASE \/ Observe \/ ScrollEvent \/ DismissPill
             \/ \E to \in {"top", "middle", "end"} : Scroll(to)
    BY <2>1, IdleStep DEF Observe, ScrollEvent, DismissPill, Scroll
  <2> QED
    BY <1>3, <2>1, FillStep, FlipReadStep, FlipArchivedStep, ItemClickStep
    DEF ListEvents
<1>4. CASE Header
  <2>1. CASE ToggleMenu \/ SelectTab
    BY <2>1, IdleStep DEF ToggleMenu, SelectTab, GoToTab
  <2>2. ASSUME NEW n, HostTabs(n)
        PROVE  ClientInv'
    BY <2>2, IdleStep DEF HostTabs
  <2>3. ASSUME NEW via, Gear(via) \/ Back(via)
        PROVE  ClientInv'
    BY <2>3, IdleStep DEF Gear, Back, Mount, Unmount
  <2> QED
    BY <1>4, <2>1, <2>2, <2>3, MenuItemStep, SetFilterStep DEF Header
<1>5. CASE Popover
  <2>1. \/ \E open : ShowPopover(open)
        \/ UNCHANGED <<clientVars, calls, muted>>
    BY <1>5 DEF Popover, BellClick, PressOutside, Escape, HostOpens, Intent
  <2> QED
    BY <2>1, ShowPopoverStep, IdleStep
<1>6. CASE PanelToggle \/ PanelAnswer \/ PanelFault
  <2>1. snap.error \in BOOLEAN
    BY DEF ClientInv, ClientType
  <2>2. \E error \in BOOLEAN : \E refresh : PanelStep(error, refresh)
    BY <1>6, <2>1 DEF PanelToggle, PanelAnswer, PanelFault
  <2> QED
    BY <2>2, PanelClientStep
<1>7. CASE OwnerStep
  BY <1>7, IdleStep DEF OwnerStep
<1>8. CASE UNCHANGED vars
  BY <1>8, IdleStep DEF vars
<1> QED
  BY <1>1, <1>2, <1>3, <1>4, <1>5, <1>6, <1>7, <1>8 DEF Next


\* The panel takes the place of the list: nothing mounts it twice, and what its
\* toggles write are categories.
LEMMA OthersLeavePanel ==
    ASSUME ClientType, PanelTypeOK, PanelPlace, [Next]_vars
    PROVE  PanelChange \/ UNCHANGED panelVars
<1>1. CASE World \/ Client
  BY <1>1 DEF World, Arrive, JobArchives, OtherDeviceReads, Client, RefreshDone,
              RefreshFails, FetchDone, FetchFails, Serve, Answered, Fails, Settled
<1>2. CASE ListEvents
  BY <1>2 DEF ListEvents, Observe, FillEffect, ScrollEvent, DismissPill, Scroll, FlipRead,
              FlipArchived, ItemClick, Act
<1>3. CASE Header
  <2>1. ASSUME NEW via, Gear(via)
        PROVE  Mount /\ ~panel
    BY <2>1 DEF Gear, ListShown, PanelPlace
  <2>2. ASSUME NEW via, Back(via)
        PROVE  Unmount
    BY <2>2 DEF Back
  <2>3. ASSUME NEW op \in {"readAll", "archiveRead", "archiveAll"}, MenuItem(op)
        PROVE  UNCHANGED panelVars
    BY <2>3 DEF MenuItem, Act
  <2>4. CASE ToggleMenu \/ SelectTab \/ \E n \in 0..Len(Tabs) : HostTabs(n)
    BY <2>4 DEF ToggleMenu, SelectTab, GoToTab, HostTabs
  <2>5. ASSUME NEW via, NEW view, SetFilter(view, via)
        PROVE  UNCHANGED panelVars
    BY <2>5 DEF SetFilter
  <2> QED
    BY <1>3, <2>1, <2>2, <2>3, <2>4, <2>5 DEF Header, PanelChange
<1>4. CASE Popover
  <2>1. \/ \E open : ShowPopover(open)
        \/ UNCHANGED panelVars
    BY <1>4 DEF Popover, BellClick, PressOutside, Escape, HostOpens, Intent
  <2> QED
    BY <2>1 DEF ShowPopover, PanelChange
<1>5. CASE PanelToggle
  <2>1. PICK w \in Calls, c \in Toggles({Category[i] : i \in snap.items}) : Toggle(w, c)
    BY <1>5 DEF PanelToggle
  <2>2. c \in Categories
    <3>1. \A i \in snap.items : Category[i] \in Categories
      BY WidgetAssumption DEF ClientType
    <3> QED
      BY <2>1, <3>1 DEF Toggles, Known, PanelTypeOK, Rows
  <2> QED
    BY <2>1, <2>2 DEF PanelChange
<1>6. CASE PanelAnswer \/ PanelFault
  BY <1>6 DEF PanelAnswer, PanelFault, PanelChange
<1>7. CASE OwnerStep
  BY <1>7 DEF OwnerStep
<1>8. CASE UNCHANGED vars
  BY <1>8 DEF vars
<1> QED
  BY <1>1, <1>2, <1>3, <1>4, <1>5, <1>6, <1>7, <1>8 DEF Next

\* A step leaves popover, view and panel alone, or moves them together.
LEMMA PlaceStep ==
    ASSUME PanelPlace, [Next]_vars
    PROVE  PanelPlace'
<1> DEFINE Still == UNCHANGED <<isOpen, showPreferences, panel>>
<1> USE DEF viewVars, panelVars, hookVars
<1>1. CASE World \/ Client
  <2>1. Still
    BY <1>1 DEF World, Arrive, JobArchives, OtherDeviceReads, Client, RefreshDone,
                RefreshFails, FetchDone, FetchFails, Serve, Answered, Fails, Settled
  <2> QED
    BY <2>1 DEF PanelPlace
<1>2. CASE ListEvents
  <2>1. Still
    BY <1>2 DEF ListEvents, Observe, FillEffect, ScrollEvent, DismissPill, Scroll, FlipRead,
                FlipArchived, ItemClick, Act
  <2> QED
    BY <2>1 DEF PanelPlace
<1>3. CASE Header
  <2>1. ASSUME NEW via, Gear(via)
        PROVE  PanelPlace'
    BY <2>1 DEF Gear, ListShown, Mount, PanelPlace
  <2>2. ASSUME NEW via, Back(via)
        PROVE  PanelPlace'
    BY <2>2 DEF Back, Unmount, PanelPlace
  <2>3. ASSUME NEW op \in {"readAll", "archiveRead", "archiveAll"}, MenuItem(op)
        PROVE  Still
    BY <2>3 DEF MenuItem, Act
  <2>4. CASE ToggleMenu \/ SelectTab \/ \E n \in 0..Len(Tabs) : HostTabs(n)
    <3>1. Still
      BY <2>4 DEF ToggleMenu, SelectTab, GoToTab, HostTabs
    <3> QED
      BY <3>1 DEF PanelPlace
  <2>5. ASSUME NEW via, NEW view, SetFilter(view, via)
        PROVE  Still
    BY <2>5 DEF SetFilter
  <2>6. Still => PanelPlace'
    BY DEF PanelPlace
  <2> QED
    BY <1>3, <2>1, <2>2, <2>3, <2>4, <2>5, <2>6 DEF Header
<1>4. CASE Popover
  <2>1. ASSUME NEW open \in BOOLEAN, ShowPopover(open)
        PROVE  PanelPlace'
    <3>1. CASE open = isOpen
      BY <2>1, <3>1 DEF ShowPopover, Unmount, PanelPlace
    <3>2. CASE open # isOpen
      <4>1. isOpen' = open /\ showPreferences' = FALSE
        BY <2>1, <3>2 DEF ShowPopover
      <4>2. ~panel' /\ panel' \in BOOLEAN
        <5>1. CASE panel /\ ~open
          BY <2>1, <5>1 DEF ShowPopover, Unmount
        <5>2. CASE ~(panel /\ ~open)
          BY <2>1, <3>2, <5>2 DEF ShowPopover, PanelPlace
        <5> QED
          BY <5>1, <5>2
      <4> QED
        BY <4>1, <4>2 DEF PanelPlace
    <3> QED
      BY <3>1, <3>2
  <2>2. \/ \E open \in BOOLEAN : ShowPopover(open)
        \/ Still
    BY <1>4 DEF Popover, BellClick, PressOutside, Escape, HostOpens, Intent, PanelPlace
  <2> QED
    BY <2>1, <2>2 DEF PanelPlace
<1>5. CASE PanelToggle \/ PanelAnswer \/ PanelFault
  <2>1. UNCHANGED <<isOpen, showPreferences>>
    BY <1>5 DEF PanelToggle, PanelAnswer, PanelFault, PanelStep
  <2>2. panel' = panel
    BY <1>5 DEF PanelToggle, PanelAnswer, PanelFault, Toggle, LoadRead, LoadDone, LoadFails,
                WriteRead, WriteDone, WriteFails
  <2> QED
    BY <2>1, <2>2 DEF PanelPlace
<1>6. CASE OwnerStep \/ UNCHANGED vars
  <2>1. Still
    BY <1>6 DEF OwnerStep, vars
  <2> QED
    BY <2>1 DEF PanelPlace
<1> QED
  BY <1>1, <1>2, <1>3, <1>4, <1>5, <1>6 DEF Next

----------------------------------------------------------------------------
(* The widget *)

WidgetInv == ClientInv /\ ListForm /\ PanelPlace /\ PanelInv

LEMMA InitHolds == Init => WidgetInv
<1> SUFFICES ASSUME Init
             PROVE  WidgetInv
  OBVIOUS
<1>1. FirstItems \in Nat /\ FirstItems <= MaxItems /\ MaxItems \in Nat
  BY WidgetAssumption
<1>2. srv \in Server /\ srv.n \in 0..FirstItems /\ srv.seen = 0
  <2>1. PICK n \in 0..FirstItems : srv = [n |-> n, read |-> {}, archived |-> {}, seen |-> 0,
                                          job |-> FALSE]
    BY DEF Init
  <2> QED
    BY <1>1, <2>1
<1>3. ClientInv
  <2>1. ClientType
    <3>1. "default" \in Views /\ 0 \in Int
      BY WidgetAssumption
    <3>2. snap \in Snapshot
      BY <3>1 DEF Init
    <3>3. CallsType
      BY DEF Init, CallsType, Restores
    <3>4. srv.n <= MaxItems
      BY <1>1, <1>2
    <3> QED
      BY <1>2, <3>2, <3>3, <3>4 DEF Init, ClientType
  <2>2. BadgeInv /\ ReadInv /\ CursorInv
    <3>1. ReadInv /\ CursorInv
      BY DEF Init, ReadInv, CursorInv
    <3>2. news = IF srv.n > 0 THEN "some" ELSE "none"
      BY Zenon DEF Init
    <3>3. ~TellingSeen /\ hintDue
      BY DEF Init, TellingSeen
    <3> QED
      BY <1>1, <1>2, <3>1, <3>2, <3>3 DEF BadgeInv
  <2>3. CoverInv
    BY DEF Init, CoverInv, Reached
  <2> QED
    BY <2>1, <2>2, <2>3 DEF ClientInv
<1>4. ListForm
  <2>1. Cardinality({}) = 0
    BY FS_EmptySet
  <2> QED
    BY <2>1 DEF Init, FreshList, ListForm
<1>5. PanelPlace
  BY DEF Init, PanelInit, PanelPlace
<1>6. PanelInv
  <2>1. muted \in Rows /\ version = 0 /\ ~panel /\ panel \in BOOLEAN
    BY DEF Init, PanelInit, Rows
  <2>2. rows = None /\ load = None /\ passed = 0
    BY DEF Init, PanelInit
  <2>3. prefError \in BOOLEAN /\ crossed \in BOOLEAN
    BY DEF Init, PanelInit
  <2>4. writes \in [Calls -> Writes \cup {None}] /\ \A w \in Calls : writes[w] = None
    BY DEF Init, PanelInit
  <2>5. PanelTypeOK
    BY <2>1, <2>2, <2>3, <2>4 DEF PanelTypeOK
  <2> QED
    BY <2>1, <2>2, <2>4, <2>5 DEF PanelInv, AnswersTrue, Mine
<1> QED
  BY <1>3, <1>4, <1>5, <1>6 DEF WidgetInv

LEMMA StepHolds == WidgetInv /\ [Next]_vars => WidgetInv'
<1> SUFFICES ASSUME WidgetInv, [Next]_vars
             PROVE  WidgetInv'
  OBVIOUS
<1>1. ClientInv'
  BY ClientStep DEF WidgetInv
<1>2. ListForm'
  BY ListStep, ListKept DEF WidgetInv, ClientInv
<1>3. PanelPlace'
  BY PlaceStep DEF WidgetInv
<1>4. PanelInv'
  <2>1. CASE PanelChange
    BY <2>1, PanelStepKeeps DEF WidgetInv
  <2>2. CASE UNCHANGED panelVars
    BY <2>2 DEF WidgetInv, PanelInv, PanelTypeOK, AnswersTrue, Told, LatestComes, LoadComes,
                Mine, panelVars, serverRows, hookVars
  <2> QED
    BY <2>1, <2>2, OthersLeavePanel DEF WidgetInv, ClientInv, PanelInv
<1> QED
  BY <1>1, <1>2, <1>3, <1>4 DEF WidgetInv

\* In every state the pill counts rows of the list it hangs over; once what is
\* announced is fetched and every mutation answered, the empty state of a tab is shown
\* for a tab that is empty on the server, and the badge stands for what has arrived
\* since the popover opened, however many mutations are served, fail and put back
\* what they captured meanwhile; the exceptions are those of EmptyMeansEmpty and
\* BadgeMeansNews (NotificationList.tsx, client.ts, Inbox.tsx).
THEOREM WidgetTruth == Spec => []WidgetTellsTruth
<1>1. WidgetInv => WidgetTellsTruth
  <2> SUFFICES ASSUME WidgetInv
               PROVE  WidgetTellsTruth
    OBVIOUS
  <2>1. PillTruth
    <3>1. list.pending \cap Visible = list.pending
      BY DEF WidgetInv, ListForm
    <3> QED
      BY <3>1 DEF WidgetInv, ListForm, PillTruth
  <2> QED
    BY <2>1, EmptyHolds, BadgeHolds DEF WidgetInv, WidgetTellsTruth
<1> QED
  BY <1>1, InitHolds, StepHolds, PTL DEF Spec

\* Once nothing is in flight, the toggles show what the server holds, for any
\* number of toggles in flight at once (hooks.ts, usePreferences).
THEOREM PanelTruth == Spec => []PanelTellsTruth
<1>1. WidgetInv => PanelTellsTruth
  BY PanelInvTells DEF WidgetInv
<1> QED
  BY <1>1, InitHolds, StepHolds, PTL DEF Spec

\* No step but a refresh puts an item behind the pill, and then only one that was not
\* in the list before it, whatever mutations in flight have put back or are about to
\* (InboxContent.tsx, lastRefreshNewItemIds; NotificationList.tsx; client.ts, refresh).
THEOREM PillArrivals == Spec => PillCountsArrivals
<1>1. WidgetInv /\ [Next]_vars
          => [list'.pending \ list.pending
                  \subseteq {i \in snap'.items \ snap.items : hintDue /\ ~hintDue'}]_vars
  <2> SUFFICES ASSUME WidgetInv, [Next]_vars
               PROVE  list'.pending \ list.pending
                          \subseteq {i \in snap'.items \ snap.items : hintDue /\ ~hintDue'}
    OBVIOUS
  <2>1. ListChange
    BY ListStep DEF WidgetInv, ClientInv
  <2> QED
    BY <2>1 DEF ListChange, Emptied, Rendered, Same, Merged
<1> QED
  BY <1>1, InitHolds, StepHolds, PTL DEF Spec, PillCountsArrivals
=============================================================================
