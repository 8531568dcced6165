--------------------------- MODULE SseStreamProofs ---------------------------
(***************************************************************************)
(* For any numbers of tabs, replicas and changes, any cap and any capacity *)
(* of a channel: the slots of a replica are its streams, and an idle stream *)
(* has told its tab of everything but the named exceptions.  The argument  *)
(* for the second: once the resume check is done, every published change   *)
(* that a tab has not fetched is on its way to it.                         *)
(***************************************************************************)
EXTENDS SseStream, FiniteSetTheorems, TLAPS

ShapeInv ==
    /\ clock \in Nat
    /\ stamp \in [Changes -> Nat]
    /\ committed \subseteq Changes /\ published \subseteq committed
    /\ \A c \in committed : stamp[c] # 0
    /\ updated_at \in Nat
    /\ connections \in [Replicas -> Nat] /\ ghosts \in [Replicas -> Nat]
    /\ pc \in [Tabs -> {"away", "subscribed", "checked", "open"}]
    /\ DOMAIN at = Tabs
    /\ \A t \in Tabs : Live(t) => at[t] \in Replicas
    /\ rx \in [Tabs -> Seq(Changes)]
    /\ token \in [Tabs -> Nat]
    /\ stale \in [Tabs -> SUBSET (committed \cap Ours)]

LiveAt(r) == {t \in Tabs : Live(t) /\ at[t] = r}

Slots(r) ==
    /\ connections[r] = Cardinality(LiveAt(r)) + ghosts[r]
    /\ connections[r] <= Cap

SlotInv == \A r \in Replicas : Slots(r)

\* What wrote the counters row last is in the way of a tab that lacks a change
\* of that row: a fetch takes both.
LastWriteInv ==
    \A t \in Tabs : \A c \in stale[t] : KindOf[c] \in {"item", "flip"} =>
        \E last \in stale[t] : updated_at = stamp[last]

Queued(c, t) == \E i \in 1 .. Len(rx[t]) : rx[t][i] = c

\* The tab fetches when its connection opens.
FetchesAnyway(t) == pc[t] = "checked" /\ (t \notin Plain \/ token[t] = 0)

OnItsWay(c, t) ==
    \/ t \in resume \cup lagged \cup gap
    \/ Queued(c, t)
    \/ Overtaken(t)
    \/ FetchesAnyway(t)

DueInv ==
    \A t \in Tabs : pc[t] \in {"checked", "open"} =>
        \A c \in stale[t] \cap published : OnItsWay(c, t)

StreamInv == ShapeInv /\ SlotInv /\ LastWriteInv /\ DueInv

----------------------------------------------------------------------------
(* The shape of the state *)

LEMMA EnqueueType ==
    ASSUME NEW q \in Seq(Changes), NEW c \in Changes
    PROVE  Enqueue(q, c) \in Seq(Changes)
<1>1. Capacity \in Nat \ {0}
  BY StreamAssumption
<1>2. Len(q) = Capacity => Tail(q) \in Seq(Changes)
  BY <1>1
<1> QED
  BY <1>2 DEF Enqueue

\* A change that was in the queue is still there, or the oldest was dropped; the
\* new one is in it.
LEMMA EnqueueKeeps ==
    ASSUME NEW q \in Seq(Changes), NEW c \in Changes
    PROVE  /\ \E i \in 1 .. Len(Enqueue(q, c)) : Enqueue(q, c)[i] = c
           /\ \A d : Len(q) # Capacity /\ (\E i \in 1 .. Len(q) : q[i] = d)
                => \E i \in 1 .. Len(Enqueue(q, c)) : Enqueue(q, c)[i] = d
<1>1. Capacity \in Nat \ {0}
  BY StreamAssumption
<1>2. CASE Len(q) = Capacity
  <2>1. Tail(q) \in Seq(Changes)
    BY <1>1, <1>2
  <2>2. /\ Len(Append(Tail(q), c)) = Len(Tail(q)) + 1
        /\ Append(Tail(q), c)[Len(Tail(q)) + 1] = c
        /\ Len(Tail(q)) \in Nat
    BY <2>1
  <2> QED
    BY <1>2, <2>2 DEF Enqueue
<1>3. CASE Len(q) # Capacity
  <2>1. /\ Len(Append(q, c)) = Len(q) + 1 /\ Len(q) \in Nat
        /\ Append(q, c)[Len(q) + 1] = c
        /\ \A i \in 1 .. Len(q) : Append(q, c)[i] = q[i]
    OBVIOUS
  <2> QED
    BY <1>3, <2>1 DEF Enqueue
<1> QED
  BY <1>2, <1>3

LEMMA OutOfQueue ==
    ASSUME NEW q \in Seq(Changes), q # << >>, NEW d, d # Head(q),
           \E i \in 1 .. Len(q) : q[i] = d
    PROVE  \E i \in 1 .. Len(Tail(q)) : Tail(q)[i] = d
<1>1. PICK i \in 1 .. Len(q) : q[i] = d
  OBVIOUS
<1>2. i # 1 /\ Len(Tail(q)) = Len(q) - 1 /\ Len(q) \in Nat
  BY <1>1
<1>3. i - 1 \in 1 .. Len(Tail(q)) /\ Tail(q)[i - 1] = q[i]
  BY <1>2
<1> QED
  BY <1>1, <1>3

LEMMA ForgetShape ==
    ASSUME ShapeInv, NEW t \in Tabs, Forget(t)
    PROVE  /\ pc' = [pc EXCEPT ![t] = "away"]
           /\ at' = [at EXCEPT ![t] = "nowhere"]
           /\ pc' \in [Tabs -> {"away", "subscribed", "checked", "open"}]
           /\ DOMAIN at' = Tabs
           /\ \A i \in Tabs : Live(i)' => at'[i] \in Replicas
           /\ rx' \in [Tabs -> Seq(Changes)]
           /\ UNCHANGED <<token, stale>>
<1>1. << >> \in Seq(Changes)
  OBVIOUS
<1> QED
  BY <1>1 DEF ShapeInv, Forget, Live

LEMMA ShapeStep ==
    ASSUME ShapeInv, SlotInv, [Next]_vars
    PROVE  ShapeInv'
<1> USE DEF Live
<1>1. ASSUME NEW c \in Changes, Begin(c)
      PROVE  ShapeInv'
  <2>1. /\ clock' \in Nat /\ clock' # 0
        /\ stamp' = [stamp EXCEPT ![c] = clock'] /\ stamp[c] = 0
        /\ stamp \in [Changes -> Nat]
    BY <1>1 DEF Begin, ShapeInv
  <2>2. stamp' \in [Changes -> Nat] /\ \A d \in committed : stamp'[d] # 0
    BY <2>1 DEF ShapeInv
  <2> QED
    BY <1>1, <2>1, <2>2 DEF Begin, ShapeInv, slotVars, streamVars, tabVars
<1>2. ASSUME NEW c \in Changes, Commit(c)
      PROVE  ShapeInv'
  <2>1. /\ stamp[c] # 0 /\ committed' = committed \cup {c}
        /\ updated_at' \in Nat /\ UNCHANGED stamp
    BY <1>2 DEF Commit, ShapeInv
  <2>2. stale' \in [Tabs -> SUBSET (committed' \cap Ours)]
    BY <1>2, <2>1 DEF Commit, ShapeInv
  <2>3. committed' \subseteq Changes /\ \A d \in committed' : stamp'[d] # 0
    BY <2>1 DEF ShapeInv
  <2> QED
    BY <1>2, <2>1, <2>2, <2>3 DEF Commit, ShapeInv, slotVars, streamVars
<1>3. ASSUME NEW c \in Changes, Publish(c)
      PROVE  ShapeInv'
  <2>1. rx' \in [Tabs -> Seq(Changes)]
    BY <1>3, EnqueueType DEF Publish, ShapeInv
  <2> QED
    BY <1>3, <2>1 DEF Publish, ShapeInv, slotVars
<1>4. ASSUME NEW r \in Replicas, Detach(r) \/ Attach(r) \/ Shutdown(r)
      PROVE  ShapeInv'
  BY <1>4 DEF Detach, Attach, Shutdown, ShapeInv, changeVars, slotVars, streamVars, tabVars
<1>5. ASSUME NEW r \in Replicas, Notice(r)
      PROVE  ShapeInv'
  <2>1. /\ connections[r] = Cardinality(LiveAt(r)) + ghosts[r]
        /\ IsFiniteSet(LiveAt(r))
    <3>1. LiveAt(r) \in SUBSET Tabs
      BY DEF LiveAt
    <3> QED
      BY <3>1, FS_Subset, StreamAssumption DEF SlotInv, Slots
  <2>2. ghosts[r] \in Nat /\ ghosts[r] > 0 /\ Cardinality(LiveAt(r)) \in Nat
    BY <1>5, <2>1, FS_CardinalityType DEF Notice, ShapeInv
  <2>3. ghosts[r] - 1 \in Nat /\ connections[r] - 1 \in Nat
    BY <2>1, <2>2
  <2>4. ghosts' = [ghosts EXCEPT ![r] = ghosts[r] - 1]
        /\ connections' = [connections EXCEPT ![r] = connections[r] - 1]
    BY <1>5 DEF Notice, DropGuard
  <2>5. ghosts' \in [Replicas -> Nat] /\ connections' \in [Replicas -> Nat]
    BY <2>3, <2>4 DEF ShapeInv
  <2> QED
    BY <1>5, <2>5 DEF Notice, ShapeInv, changeVars, streamVars, tabVars
<1>6. ASSUME NEW t \in Tabs, NEW r \in Replicas, Connect(t, r)
      PROVE  ShapeInv'
  <2>1. connections' \in [Replicas -> Nat]
    BY <1>6 DEF Connect, ShapeInv
  <2>2. /\ pc' \in [Tabs -> {"away", "subscribed", "checked", "open"}]
        /\ DOMAIN at' = Tabs
        /\ \A i \in Tabs : pc'[i] # "away" => at'[i] \in Replicas
    BY <1>6 DEF Connect, ShapeInv
  <2> QED
    BY <1>6, <2>1, <2>2 DEF Connect, ShapeInv, changeVars, tabVars
<1>7. ASSUME NEW t \in Tabs, Check(t)
      PROVE  ShapeInv'
  <2>1. /\ pc' \in [Tabs -> {"away", "subscribed", "checked", "open"}]
        /\ \A i \in Tabs : pc'[i] # "away" => pc[i] # "away"
    BY <1>7 DEF Check, ShapeInv
  <2> QED
    BY <1>7, <2>1 DEF Check, ShapeInv, changeVars, slotVars, tabVars
<1>8. ASSUME NEW t \in Tabs, Open(t)
      PROVE  ShapeInv'
  <2>1. /\ pc' \in [Tabs -> {"away", "subscribed", "checked", "open"}]
        /\ \A i \in Tabs : pc'[i] # "away" => pc[i] # "away"
    BY <1>8 DEF Open, ShapeInv
  <2>2. stale' \in [Tabs -> SUBSET (committed \cap Ours)]
    BY <1>8 DEF Open, Fetch, ShapeInv
  <2> QED
    BY <1>8, <2>1, <2>2 DEF Open, ShapeInv, changeVars, slotVars
<1>9. ASSUME NEW t \in Tabs, HintEvent(t)
      PROVE  /\ clock' \in Nat /\ token' \in [Tabs -> Nat]
             /\ stale' \in [Tabs -> SUBSET (committed \cap Ours)]
  BY <1>9 DEF HintEvent, Fetch, ShapeInv
<1>10. ASSUME NEW t \in Tabs, SendResume(t)
       PROVE  ShapeInv'
  BY <1>9, <1>10 DEF SendResume, ShapeInv, slotVars
<1>11. ASSUME NEW t \in Tabs, Receive(t)
       PROVE  ShapeInv'
  <2>1. rx' \in [Tabs -> Seq(Changes)]
    <3>1. CASE UNCHANGED rx
      BY <3>1 DEF ShapeInv
    <3>2. CASE rx[t] # << >> /\ rx' = [rx EXCEPT ![t] = Tail(rx[t])]
      <4>1. Tail(rx[t]) \in Seq(Changes)
        BY <3>2 DEF ShapeInv
      <4> QED
        BY <3>2, <4>1 DEF ShapeInv
    <3> QED
      BY <1>11, <3>1, <3>2 DEF Receive, ReportLagged
  <2>2. /\ clock' \in Nat /\ token' \in [Tabs -> Nat]
        /\ stale' \in [Tabs -> SUBSET (committed \cap Ours)]
    <3>1. CASE HintEvent(t)
      BY <1>9, <3>1
    <3>2. CASE UNCHANGED <<clock, token, stale, gap>>
      BY <3>2 DEF ShapeInv
    <3> QED
      BY <1>11, <3>1, <3>2 DEF Receive, ReportLagged
  <2> QED
    BY <1>11, <2>1, <2>2 DEF Receive, ShapeInv, slotVars
<1>12. ASSUME NEW t \in Tabs, Forget(t), DropGuard(at[t]), Live(t), UNCHANGED <<changeVars, ghosts>>
       PROVE  ShapeInv'
  <2>1. at[t] \in Replicas
    BY <1>12 DEF ShapeInv
  <2>2. /\ connections[at[t]] = Cardinality(LiveAt(at[t])) + ghosts[at[t]]
        /\ IsFiniteSet(LiveAt(at[t])) /\ t \in LiveAt(at[t])
    <3>1. LiveAt(at[t]) \in SUBSET Tabs
      BY DEF LiveAt
    <3>2. t \in LiveAt(at[t])
      BY <1>12 DEF LiveAt
    <3>3. connections[at[t]] = Cardinality(LiveAt(at[t])) + ghosts[at[t]]
      BY <2>1 DEF SlotInv, Slots
    <3> QED
      BY <3>1, <3>2, <3>3, FS_Subset, StreamAssumption
  <2>3. Cardinality(LiveAt(at[t])) \in Nat \ {0} /\ ghosts[at[t]] \in Nat
    BY <2>1, <2>2, FS_CardinalityType, FS_EmptySet DEF ShapeInv
  <2>4. connections[at[t]] - 1 \in Nat
    BY <2>2, <2>3
  <2>5. connections' = [connections EXCEPT ![at[t]] = connections[at[t]] - 1]
    BY <1>12 DEF DropGuard
  <2>6. connections' \in [Replicas -> Nat]
    BY <2>4, <2>5 DEF ShapeInv
  <2> QED
    BY <1>12, <2>6, ForgetShape DEF ShapeInv, changeVars
<1>13. ASSUME NEW t \in Tabs, CheckFails(t) \/ End(t)
       PROVE  ShapeInv'
  BY <1>12, <1>13 DEF CheckFails, End
<1>14. ASSUME NEW t \in Tabs, Leave(t)
       PROVE  ShapeInv'
  <2>1. at[t] \in Replicas /\ ghosts[at[t]] + 1 \in Nat
    BY <1>14 DEF Leave, ShapeInv
  <2>2. ghosts' = [ghosts EXCEPT ![at[t]] = ghosts[at[t]] + 1] /\ Forget(t)
    BY <1>14 DEF Leave
  <2>3. ghosts' \in [Replicas -> Nat]
    BY <2>1, <2>2 DEF ShapeInv
  <2> QED
    BY <1>14, <2>2, <2>3, ForgetShape DEF Leave, ShapeInv, changeVars
<1>15. CASE UNCHANGED vars
  BY <1>15 DEF vars, ShapeInv, changeVars, slotVars, streamVars, tabVars
<1> QED
  BY <1>1, <1>2, <1>3, <1>4, <1>5, <1>6, <1>7, <1>8, <1>10, <1>11, <1>13, <1>14, <1>15 DEF Next

----------------------------------------------------------------------------
(* The slots *)

LEMMA LiveFinite ==
    ASSUME NEW r
    PROVE  IsFiniteSet(LiveAt(r)) /\ Cardinality(LiveAt(r)) \in Nat
<1>1. LiveAt(r) \in SUBSET Tabs
  BY DEF LiveAt
<1> QED
  BY <1>1, FS_Subset, FS_CardinalityType, StreamAssumption

LEMMA SlotsKept ==
    ASSUME SlotInv, UNCHANGED <<slotVars, at>>, \A t \in Tabs : Live(t)' <=> Live(t)
    PROVE  SlotInv'
<1>1. ASSUME NEW r \in Replicas
      PROVE  Slots(r)'
  <2>1. LiveAt(r)' = LiveAt(r)
    BY Zenon DEF LiveAt
  <2>2. connections'[r] = connections[r] /\ ghosts'[r] = ghosts[r]
    BY DEF slotVars
  <2> QED
    BY <2>1, <2>2 DEF SlotInv, Slots
<1> QED
  BY <1>1 DEF SlotInv

\* A stream that ends leaves its own replica's set, by one.
LEMMA ForgetLeaves ==
    ASSUME ShapeInv, NEW t \in Tabs, Live(t), Forget(t), NEW r \in Replicas
    PROVE  Cardinality(LiveAt(r))' =
             IF at[t] = r THEN Cardinality(LiveAt(r)) - 1 ELSE Cardinality(LiveAt(r))
<1>1. /\ pc' = [pc EXCEPT ![t] = "away"] /\ at' = [at EXCEPT ![t] = "nowhere"]
      /\ DOMAIN pc = Tabs /\ DOMAIN at = Tabs
  BY ForgetShape DEF ShapeInv
<1>2. \A i : i \in LiveAt(r)' <=> i \in LiveAt(r) /\ i # t
  BY <1>1 DEF LiveAt, Live
<1>3. LiveAt(r)' = LiveAt(r) \ {t}
  BY <1>2, Zenon
<1>4. CASE at[t] = r
  <2>1. t \in LiveAt(r)
    BY <1>4 DEF LiveAt
  <2> QED
    BY <1>3, <1>4, <2>1, LiveFinite, FS_RemoveElement
<1>5. CASE at[t] # r
  <2>1. LiveAt(r)' = LiveAt(r)
    BY <1>3, <1>5 DEF LiveAt
  <2> QED
    BY <1>5, <2>1
<1> QED
  BY <1>4, <1>5

LEMMA ConnectEnters ==
    ASSUME ShapeInv, NEW t \in Tabs, NEW q \in Replicas, Connect(t, q), NEW r \in Replicas
    PROVE  Cardinality(LiveAt(r))' =
             IF q = r THEN Cardinality(LiveAt(r)) + 1 ELSE Cardinality(LiveAt(r))
<1>1. /\ pc' = [pc EXCEPT ![t] = "subscribed"] /\ at' = [at EXCEPT ![t] = q]
      /\ DOMAIN pc = Tabs /\ DOMAIN at = Tabs /\ pc[t] = "away"
  BY DEF Connect, ShapeInv
<1>2. t \notin LiveAt(r)
  BY <1>1 DEF LiveAt, Live
<1>3. \A i : i \in LiveAt(r)' <=> i \in LiveAt(r) \/ (i = t /\ q = r)
  BY <1>1 DEF LiveAt, Live
<1>4. CASE q = r
  <2>1. LiveAt(r)' = LiveAt(r) \cup {t}
    BY <1>3, <1>4, Zenon
  <2> QED
    BY <1>2, <1>4, <2>1, LiveFinite, FS_AddElement
<1>5. CASE q # r
  <2>1. LiveAt(r)' = LiveAt(r)
    BY <1>3, <1>5, Zenon
  <2> QED
    BY <1>5, <2>1
<1> QED
  BY <1>4, <1>5

LEMMA SlotStep ==
    ASSUME ShapeInv, SlotInv, [Next]_vars
    PROVE  SlotInv'
<1>0. \A r \in Replicas :
        /\ connections[r] = Cardinality(LiveAt(r)) + ghosts[r] /\ connections[r] <= Cap
        /\ connections[r] \in Nat /\ ghosts[r] \in Nat /\ Cardinality(LiveAt(r)) \in Nat
        /\ Cap \in Nat
  BY LiveFinite, StreamAssumption DEF SlotInv, Slots, ShapeInv
<1>1. ASSUME NEW r \in Replicas, Notice(r)
      PROVE  SlotInv'
  <2>1. /\ ghosts' = [ghosts EXCEPT ![r] = ghosts[r] - 1] /\ ghosts[r] > 0
        /\ connections' = [connections EXCEPT ![r] = connections[r] - 1]
        /\ DOMAIN ghosts = Replicas /\ DOMAIN connections = Replicas
    BY <1>1 DEF Notice, DropGuard, ShapeInv
  <2>2. \A q : Cardinality(LiveAt(q))' = Cardinality(LiveAt(q))
    BY <1>1 DEF Notice, streamVars, LiveAt, Live
  <2>3. ASSUME NEW q \in Replicas
        PROVE  connections'[q] = Cardinality(LiveAt(q))' + ghosts'[q] /\ connections'[q] <= Cap
    <3>1. CASE q = r
      BY <1>0, <2>1, <2>2, <3>1
    <3>2. CASE q # r
      BY <1>0, <2>1, <2>2, <3>2
    <3> QED
      BY <3>1, <3>2
  <2> QED
    BY <2>3 DEF SlotInv, Slots
<1>2. ASSUME NEW t \in Tabs, NEW r \in Replicas, Connect(t, r)
      PROVE  SlotInv'
  <2>1. /\ connections' = [connections EXCEPT ![r] = connections[r] + 1]
        /\ connections[r] < Cap /\ ghosts' = ghosts /\ DOMAIN connections = Replicas
    BY <1>2 DEF Connect, ShapeInv
  <2>2. ASSUME NEW q \in Replicas
        PROVE  connections'[q] = Cardinality(LiveAt(q))' + ghosts'[q] /\ connections'[q] <= Cap
    <3>1. CASE q = r
      BY <1>0, <1>2, <2>1, <3>1, ConnectEnters
    <3>2. CASE q # r
      BY <1>0, <1>2, <2>1, <3>2, ConnectEnters
    <3> QED
      BY <3>1, <3>2
  <2> QED
    BY <2>2 DEF SlotInv, Slots
<1>3. ASSUME NEW t \in Tabs, Forget(t), Live(t), DropGuard(at[t]), UNCHANGED ghosts
      PROVE  SlotInv'
  <2>1. /\ connections' = [connections EXCEPT ![at[t]] = connections[at[t]] - 1]
        /\ DOMAIN connections = Replicas /\ at[t] \in Replicas
    BY <1>3 DEF DropGuard, ShapeInv
  <2>2. ASSUME NEW q \in Replicas
        PROVE  connections'[q] = Cardinality(LiveAt(q))' + ghosts'[q] /\ connections'[q] <= Cap
    <3>1. CASE q = at[t]
      BY <1>0, <1>3, <2>1, <3>1, ForgetLeaves
    <3>2. CASE q # at[t]
      BY <1>0, <1>3, <2>1, <3>2, ForgetLeaves
    <3> QED
      BY <3>1, <3>2
  <2> QED
    BY <2>2 DEF SlotInv, Slots
<1>4. ASSUME NEW t \in Tabs, CheckFails(t) \/ End(t)
      PROVE  SlotInv'
  BY <1>3, <1>4 DEF CheckFails, End, Live
<1>5. ASSUME NEW t \in Tabs, Leave(t)
      PROVE  SlotInv'
  <2>1. /\ ghosts' = [ghosts EXCEPT ![at[t]] = ghosts[at[t]] + 1] /\ Forget(t) /\ Live(t)
        /\ DOMAIN ghosts = Replicas /\ at[t] \in Replicas /\ connections' = connections
    BY <1>5 DEF Leave, ShapeInv
  <2>2. ASSUME NEW q \in Replicas
        PROVE  connections'[q] = Cardinality(LiveAt(q))' + ghosts'[q] /\ connections'[q] <= Cap
    <3>1. CASE q = at[t]
      BY <1>0, <2>1, <3>1, ForgetLeaves
    <3>2. CASE q # at[t]
      BY <1>0, <2>1, <3>2, ForgetLeaves
    <3> QED
      BY <3>1, <3>2
  <2> QED
    BY <2>2 DEF SlotInv, Slots
<1>6. ASSUME NEW t \in Tabs, Check(t) \/ Open(t) \/ SendResume(t) \/ Receive(t)
      PROVE  UNCHANGED <<slotVars, at>> /\ \A i \in Tabs : Live(i)' <=> Live(i)
  BY <1>6 DEF Check, Open, SendResume, Receive, Live, ShapeInv
<1>7. ASSUME NEW c \in Changes, Begin(c) \/ Commit(c) \/ Publish(c)
      PROVE  UNCHANGED <<slotVars, at>> /\ \A i \in Tabs : Live(i)' <=> Live(i)
  BY <1>7 DEF Begin, Commit, Publish, Live, streamVars
<1>8. ASSUME NEW r \in Replicas, Detach(r) \/ Attach(r) \/ Shutdown(r)
      PROVE  UNCHANGED <<slotVars, at>> /\ \A i \in Tabs : Live(i)' <=> Live(i)
  BY <1>8 DEF Detach, Attach, Shutdown, Live, streamVars
<1>9. CASE UNCHANGED vars
  BY <1>9, SlotsKept DEF vars, Live, streamVars
<1> QED
  BY <1>1, <1>2, <1>4, <1>5, <1>6, <1>7, <1>8, <1>9, SlotsKept DEF Next

----------------------------------------------------------------------------
(* What is on its way *)

\* Either a tab fetches, or it keeps what it lacks and its last event's id.
LEMMA TabStep ==
    ASSUME ShapeInv, [Next]_vars, NEW t \in Tabs
    PROVE  \/ stale'[t] = {}
           \/ /\ stale'[t] = stale[t] /\ token'[t] = token[t]
              /\ UNCHANGED <<stamp, updated_at>>
           \/ \E c \in Changes : Begin(c) \/ Commit(c)
<1> USE DEF ShapeInv
<1>1. ASSUME NEW i \in Tabs, HintEvent(i)
      PROVE  stale'[t] = {} \/ (stale'[t] = stale[t] /\ token'[t] = token[t])
  BY <1>1 DEF HintEvent, Fetch
<1>2. ASSUME NEW i \in Tabs, SendResume(i)
      PROVE  /\ stale'[t] = {} \/ (stale'[t] = stale[t] /\ token'[t] = token[t])
             /\ UNCHANGED <<stamp, updated_at>>
  BY <1>1, <1>2 DEF SendResume
<1>3. ASSUME NEW i \in Tabs, Receive(i)
      PROVE  /\ stale'[t] = {} \/ (stale'[t] = stale[t] /\ token'[t] = token[t])
             /\ UNCHANGED <<stamp, updated_at>>
  BY <1>1, <1>3 DEF Receive, ReportLagged
<1>4. ASSUME NEW i \in Tabs, Open(i)
      PROVE  /\ stale'[t] = {} \/ (stale'[t] = stale[t] /\ token'[t] = token[t])
             /\ UNCHANGED <<stamp, updated_at>>
  BY <1>4 DEF Open, Fetch, changeVars
<1>5. ASSUME NEW i \in Tabs, CheckFails(i) \/ End(i) \/ Leave(i)
      PROVE  UNCHANGED <<stale, token, stamp, updated_at>>
  BY <1>5 DEF CheckFails, End, Leave, Forget, changeVars
<1>6. ASSUME NEW i \in Tabs, Check(i)
      PROVE  UNCHANGED <<stale, token, stamp, updated_at>>
  BY <1>6 DEF Check, tabVars, changeVars
<1>7. ASSUME NEW i \in Tabs, NEW r \in Replicas, Connect(i, r)
      PROVE  UNCHANGED <<stale, token, stamp, updated_at>>
  BY <1>7 DEF Connect, tabVars, changeVars
<1>8. ASSUME NEW c \in Changes, Publish(c)
      PROVE  UNCHANGED <<stale, token, stamp, updated_at>>
  BY <1>8 DEF Publish
<1>9. ASSUME NEW r \in Replicas, Detach(r) \/ Attach(r) \/ Shutdown(r) \/ Notice(r)
      PROVE  UNCHANGED <<stale, token, stamp, updated_at>>
  BY <1>9 DEF Detach, Attach, Shutdown, Notice, tabVars, changeVars
<1>10. CASE UNCHANGED vars
  BY <1>10 DEF vars, tabVars, changeVars
<1> QED
  BY <1>2, <1>3, <1>4, <1>5, <1>6, <1>7, <1>8, <1>9, <1>10 DEF Next

\* A change that is under way leaves the stamps of the committed ones alone.
LEMMA StampsStay ==
    ASSUME ShapeInv, NEW c \in Changes, Begin(c) \/ Commit(c)
    PROVE  \A d \in committed : stamp'[d] = stamp[d]
BY DEF Begin, Commit, ShapeInv

LEMMA LastWriteStep ==
    ASSUME ShapeInv, LastWriteInv, [Next]_vars
    PROVE  LastWriteInv'
<1> SUFFICES ASSUME NEW t \in Tabs, NEW c \in stale'[t], KindOf[c] \in {"item", "flip"}
             PROVE  \E last \in stale'[t] : updated_at' = stamp'[last]
  BY DEF LastWriteInv
<1>0. stale[t] \subseteq committed
  BY DEF ShapeInv
<1>1. CASE stale'[t] = stale[t] /\ UNCHANGED <<stamp, updated_at>>
  BY <1>1 DEF LastWriteInv
<1>2. ASSUME NEW d \in Changes, Begin(d)
      PROVE  \E last \in stale'[t] : updated_at' = stamp'[last]
  <2>1. UNCHANGED <<stale, updated_at>>
    BY <1>2 DEF Begin, tabVars
  <2>2. PICK last \in stale[t] : updated_at = stamp[last]
    BY <2>1 DEF LastWriteInv
  <2> QED
    BY <1>0, <1>2, <2>1, <2>2, StampsStay
<1>3. ASSUME NEW d \in Changes, Commit(d)
      PROVE  \E last \in stale'[t] : updated_at' = stamp'[last]
  <2>1. /\ UNCHANGED stamp /\ stale'[t] = stale[t] \cup ({d} \cap Ours)
        /\ updated_at' = IF KindOf[d] \in {"item", "flip"} THEN stamp[d] ELSE updated_at
    BY <1>3 DEF Commit
  <2>2. CASE KindOf[d] \in {"item", "flip"}
    <3>1. d \in Ours
      BY <2>2 DEF Ours
    <3> QED
      BY <2>1, <2>2, <3>1
  <2>3. CASE KindOf[d] \notin {"item", "flip"}
    <3>1. c \in stale[t]
      BY <2>1, <2>3
    <3>2. PICK last \in stale[t] : updated_at = stamp[last]
      BY <3>1 DEF LastWriteInv
    <3> QED
      BY <2>1, <2>3, <3>2
  <2> QED
    BY <2>2, <2>3
<1> QED
  BY <1>1, <1>2, <1>3, TabStep

\* What was on its way stays so, unless the step takes it away.
LEMMA WayKept ==
    ASSUME ShapeInv, NEW t \in Tabs, NEW c, OnItsWay(c, t),
           t \in resume => t \in resume', t \in lagged => t \in lagged',
           t \in gap => t \in gap', Queued(c, t) => Queued(c, t)' \/ t \in lagged',
           FetchesAnyway(t) => FetchesAnyway(t)',
           stale[t] \subseteq stale'[t], token'[t] = token[t],
           \A d \in committed : stamp'[d] = stamp[d]
    PROVE  OnItsWay(c, t)'
<1>1. stale[t] \subseteq committed
  BY DEF ShapeInv
<1>2. Overtaken(t) => Overtaken(t)'
  BY <1>1 DEF Overtaken
<1> QED
  BY <1>2 DEF OnItsWay

\* The resume check misses nothing that is not overtaken.
LEMMA CheckSees ==
    ASSUME ShapeInv, LastWriteInv, NEW t \in Tabs, Check(t), NEW c \in stale[t]
    PROVE  OnItsWay(c, t)'
<1>1. /\ pc'[t] = "checked" /\ UNCHANGED <<stamp, stale, token>>
      /\ token[t] # 0 /\ ChangedSince(token[t]) => t \in resume'
  BY DEF Check, changeVars, tabVars, ShapeInv
<1>2. /\ c \in committed /\ c \in Changes /\ KindOf[c] \in {"item", "flip", "broadcast"}
      /\ stamp[c] \in Nat /\ token[t] \in Nat /\ updated_at \in Nat
  BY StreamAssumption DEF ShapeInv, Ours
<1>3. CASE t \notin Plain \/ token[t] = 0
  BY <1>1, <1>3 DEF OnItsWay, FetchesAnyway
<1>4. CASE t \in Plain /\ token[t] # 0 /\ ChangedSince(token[t])
  BY <1>1, <1>4 DEF OnItsWay
<1>5. CASE t \in Plain /\ ~ChangedSince(token[t])
  <2>1. \E d \in stale[t] : stamp[d] <= token[t]
    <3>1. CASE KindOf[c] \in {"item", "broadcast"}
      BY <1>2, <1>5, <3>1 DEF ChangedSince
    <3>2. CASE KindOf[c] = "flip"
      <4>1. PICK last \in stale[t] : updated_at = stamp[last]
        BY <3>2 DEF LastWriteInv
      <4>2. updated_at <= token[t]
        BY <1>2, <1>5 DEF ChangedSince
      <4> QED
        BY <4>1, <4>2
    <3> QED
      BY <1>2, <3>1, <3>2
  <2>2. Overtaken(t)'
    BY <1>1, <1>5, <2>1 DEF Overtaken
  <2> QED
    BY <2>2 DEF OnItsWay
<1> QED
  BY <1>3, <1>4, <1>5

LEMMA PublishReaches ==
    ASSUME ShapeInv, NEW d \in Changes, Publish(d), NEW t \in Tabs, NEW c
    PROVE  /\ Reaches(t) => Queued(d, t)'
           /\ Queued(c, t) => Queued(c, t)' \/ t \in lagged'
<1>1. /\ rx'[t] = IF Reaches(t) THEN Enqueue(rx[t], d) ELSE rx[t]
      /\ Reaches(t) /\ Len(rx[t]) = Capacity => t \in lagged'
      /\ rx[t] \in Seq(Changes)
  BY DEF Publish, ShapeInv
<1>2. CASE Reaches(t)
  <2>1. rx'[t] = Enqueue(rx[t], d)
    BY <1>1, <1>2
  <2>2. Queued(d, t)'
    <3>1. \E i \in 1 .. Len(rx'[t]) : rx'[t][i] = d
      BY <1>1, <2>1, EnqueueKeeps
    <3> QED
      BY <3>1 DEF Queued
  <2>3. ASSUME Queued(c, t), Len(rx[t]) # Capacity
        PROVE  Queued(c, t)'
    <3>1. \E i \in 1 .. Len(rx[t]) : rx[t][i] = c
      BY <2>3 DEF Queued
    <3>2. \A e : Len(rx[t]) # Capacity /\ (\E i \in 1 .. Len(rx[t]) : rx[t][i] = e)
            => \E i \in 1 .. Len(Enqueue(rx[t], d)) : Enqueue(rx[t], d)[i] = e
      BY <1>1, EnqueueKeeps
    <3>3. \E i \in 1 .. Len(Enqueue(rx[t], d)) : Enqueue(rx[t], d)[i] = c
      BY <2>3, <3>1, <3>2, Zenon
    <3>4. \E i \in 1 .. Len(rx'[t]) : rx'[t][i] = c
      BY <2>1, <3>3
    <3> QED
      BY <3>4 DEF Queued
  <2> QED
    BY <1>1, <1>2, <2>2, <2>3
<1>3. CASE ~Reaches(t)
  BY <1>1, <1>3 DEF Queued
<1> QED
  BY <1>2, <1>3

LEMMA DueStep ==
    ASSUME ShapeInv, LastWriteInv, DueInv, [Next]_vars
    PROVE  DueInv'
<1> SUFFICES ASSUME NEW t \in Tabs, pc'[t] \in {"checked", "open"},
                    NEW c \in stale'[t], c \in published'
             PROVE  OnItsWay(c, t)'
  BY DEF DueInv
<1>0. stale[t] \subseteq committed /\ stale[t] \subseteq Ours /\ published \subseteq committed
  BY DEF ShapeInv
<1>1. ASSUME NEW d \in Changes, Begin(d)
      PROVE  OnItsWay(c, t)'
  <2>1. UNCHANGED <<published, stale, token, gap, pc, rx, lagged, resume>>
    BY <1>1 DEF Begin, streamVars, tabVars
  <2>2. OnItsWay(c, t)
    BY <2>1 DEF DueInv
  <2>3. (Queued(c, t) => Queued(c, t)') /\ (FetchesAnyway(t) => FetchesAnyway(t)')
    BY <2>1 DEF Queued, FetchesAnyway
  <2> QED
    BY <1>1, <2>1, <2>2, <2>3, WayKept, StampsStay
<1>2. ASSUME NEW d \in Changes, Commit(d)
      PROVE  OnItsWay(c, t)'
  <2>1. /\ UNCHANGED <<published, token, gap, pc, rx, lagged, resume>>
        /\ d \notin committed /\ stale'[t] = stale[t] \cup ({d} \cap Ours)
    BY <1>2 DEF Commit, streamVars
  <2>2. c \in stale[t]
    BY <1>0, <2>1
  <2>3. OnItsWay(c, t)
    BY <2>1, <2>2 DEF DueInv
  <2>4. (Queued(c, t) => Queued(c, t)') /\ (FetchesAnyway(t) => FetchesAnyway(t)')
    BY <2>1 DEF Queued, FetchesAnyway
  <2> QED
    BY <1>2, <2>1, <2>3, <2>4, WayKept, StampsStay
<1>3. ASSUME NEW d \in Changes, Publish(d)
      PROVE  OnItsWay(c, t)'
  <2>1. /\ UNCHANGED <<stamp, stale, token, pc, resume>> /\ published' = published \cup {d}
        /\ lagged \subseteq lagged' /\ gap \subseteq gap'
        /\ Receives(t) /\ ~Reaches(t) /\ d \in stale[t] => t \in gap'
    BY <1>3 DEF Publish
  <2>2. CASE c = d
    <3>1. Receives(t)
      BY <2>1 DEF Receives
    <3>2. CASE Reaches(t)
      <4>1. Queued(d, t)'
        BY <1>3, <3>2, PublishReaches
      <4> QED
        BY <2>2, <4>1 DEF OnItsWay
    <3>3. CASE ~Reaches(t)
      BY <2>1, <2>2, <3>1, <3>3 DEF OnItsWay
    <3> QED
      BY <3>2, <3>3
  <2>3. CASE c # d
    <3>1. OnItsWay(c, t)
      BY <2>1, <2>3 DEF DueInv
    <3>2. Queued(c, t) => Queued(c, t)' \/ t \in lagged'
      BY <1>3, PublishReaches
    <3>3. FetchesAnyway(t) => FetchesAnyway(t)'
      BY <2>1 DEF FetchesAnyway
    <3> QED
      BY <2>1, <3>1, <3>2, <3>3, WayKept
  <2> QED
    BY <2>2, <2>3
<1>4. ASSUME UNCHANGED <<published, stamp>>,
             pc'[t] = pc[t], stale'[t] = stale[t], token'[t] = token[t], rx'[t] = rx[t],
             t \in resume => t \in resume', t \in lagged => t \in lagged',
             t \in gap => t \in gap'
      PROVE  OnItsWay(c, t)'
  <2>1. OnItsWay(c, t)
    BY <1>4 DEF DueInv
  <2>2. (Queued(c, t) => Queued(c, t)') /\ (FetchesAnyway(t) => FetchesAnyway(t)')
    BY <1>4 DEF Queued, FetchesAnyway
  <2> QED
    BY <1>4, <2>1, <2>2, WayKept
<1>5. ASSUME NEW r \in Replicas, Detach(r) \/ Attach(r) \/ Shutdown(r) \/ Notice(r)
      PROVE  OnItsWay(c, t)'
  BY <1>4, <1>5 DEF Detach, Attach, Shutdown, Notice, changeVars, streamVars, tabVars
<1>6. ASSUME NEW i \in Tabs, NEW r \in Replicas, Connect(i, r)
      PROVE  OnItsWay(c, t)'
  <2>1. i # t /\ pc'[t] = pc[t]
    BY <1>6 DEF Connect, ShapeInv
  <2> QED
    BY <1>4, <1>6, <2>1 DEF Connect, changeVars, tabVars
<1>7. ASSUME NEW i \in Tabs, Check(i)
      PROVE  OnItsWay(c, t)'
  <2>1. UNCHANGED <<stamp, published, stale, token, gap, rx, lagged>> /\ resume \subseteq resume'
    BY <1>7 DEF Check, changeVars, tabVars
  <2>2. CASE i = t
    BY <1>7, <2>1, <2>2, CheckSees
  <2>3. CASE i # t
    <3>1. pc'[t] = pc[t]
      BY <1>7, <2>3 DEF Check, ShapeInv
    <3> QED
      BY <1>4, <2>1, <3>1
  <2> QED
    BY <2>2, <2>3
<1>8. ASSUME NEW i \in Tabs, Open(i)
      PROVE  OnItsWay(c, t)'
  <2>1. UNCHANGED <<stamp, published, token, rx, lagged, resume>> /\ pc[i] = "checked"
        /\ pc' = [pc EXCEPT ![i] = "open"]
    BY <1>8 DEF Open, changeVars
  <2>2. CASE i = t
    <3>1. i \in Plain /\ token[i] # 0 /\ UNCHANGED <<stale, gap>>
      BY <1>8, <2>2 DEF Open, Fetch, ShapeInv
    <3>2. OnItsWay(c, t) /\ ~FetchesAnyway(t)
      BY <2>1, <2>2, <3>1 DEF DueInv, FetchesAnyway
    <3>3. Queued(c, t) => Queued(c, t)'
      BY <2>1 DEF Queued
    <3> QED
      BY <2>1, <3>1, <3>2, <3>3, WayKept
  <2>3. CASE i # t
    <3>1. pc'[t] = pc[t] /\ stale'[t] = stale[t] /\ (t \in gap => t \in gap')
      BY <1>8, <2>1, <2>3 DEF Open, Fetch, ShapeInv
    <3> QED
      BY <1>4, <2>1, <3>1
  <2> QED
    BY <2>2, <2>3
<1>9. ASSUME NEW i \in Tabs, HintEvent(i)
      PROVE  i # t /\ stale'[t] = stale[t] /\ token'[t] = token[t] /\ (t \in gap => t \in gap')
  BY <1>9 DEF HintEvent, Fetch, ShapeInv
<1>10. ASSUME NEW i \in Tabs, SendResume(i)
       PROVE  OnItsWay(c, t)'
  <2>1. /\ UNCHANGED <<stamp, published, pc, rx, lagged>> /\ resume' = resume \ {i}
        /\ HintEvent(i)
    BY <1>10 DEF SendResume
  <2> QED
    BY <1>4, <1>9, <2>1
<1>11. ASSUME NEW i \in Tabs, Receive(i)
       PROVE  OnItsWay(c, t)'
  <2>1. UNCHANGED <<stamp, published, pc, resume>>
    BY <1>11 DEF Receive
  <2>2. CASE ReportLagged(i)
    <3>1. UNCHANGED rx /\ lagged' = lagged \ {i} /\ HintEvent(i)
      BY <2>2 DEF ReportLagged
    <3> QED
      BY <1>4, <1>9, <2>1, <3>1
  <2>3. CASE HintEvent(i) /\ lagged' = lagged /\ rx' = [rx EXCEPT ![i] = Tail(rx[i])]
    <3>1. i # t /\ rx'[t] = rx[t]
      BY <1>9, <2>3 DEF ShapeInv
    <3> QED
      BY <1>4, <1>9, <2>1, <2>3, <3>1
  <2>4. CASE /\ Head(rx[i]) \notin Ours /\ rx[i] # << >> /\ lagged' = lagged
             /\ rx' = [rx EXCEPT ![i] = Tail(rx[i])]
             /\ UNCHANGED <<clock, token, stale, gap>>
    <3>1. OnItsWay(c, t)
      BY <2>1, <2>4 DEF DueInv
    <3>2. Queued(c, t) => Queued(c, t)'
      <4>1. CASE i # t
        BY <2>4, <4>1 DEF Queued, ShapeInv
      <4>2. CASE i = t
        <5>1. rx'[t] = Tail(rx[t]) /\ rx[t] \in Seq(Changes) /\ rx[t] # << >>
          BY <2>4, <4>2 DEF ShapeInv
        <5>2. c # Head(rx[t])
          BY <1>0, <2>4, <4>2
        <5> QED
          BY <5>1, <5>2, OutOfQueue DEF Queued
      <4> QED
        BY <4>1, <4>2
    <3>3. FetchesAnyway(t) => FetchesAnyway(t)'
      BY <2>1, <2>4 DEF FetchesAnyway
    <3> QED
      BY <2>1, <2>4, <3>1, <3>2, <3>3, WayKept
  <2> QED
    BY <1>11, <2>2, <2>3, <2>4 DEF Receive
<1>12. ASSUME NEW i \in Tabs, Forget(i), UNCHANGED <<stamp, published>>
       PROVE  OnItsWay(c, t)'
  <2>1. i # t
    BY <1>12 DEF Forget, ShapeInv
  <2>2. pc'[t] = pc[t] /\ rx'[t] = rx[t] /\ UNCHANGED <<stale, token>>
    BY <1>12, <2>1 DEF Forget, ShapeInv
  <2> QED
    BY <1>4, <1>12, <2>1, <2>2 DEF Forget
<1>13. ASSUME NEW i \in Tabs, CheckFails(i) \/ End(i) \/ Leave(i)
       PROVE  OnItsWay(c, t)'
  BY <1>12, <1>13 DEF CheckFails, End, Leave, changeVars
<1>14. CASE UNCHANGED vars
  BY <1>4, <1>14 DEF vars, changeVars, streamVars, tabVars
<1> QED
  BY <1>1, <1>2, <1>3, <1>5, <1>6, <1>7, <1>8, <1>10, <1>11, <1>13, <1>14 DEF Next

LEMMA StreamInvariant == Spec => []StreamInv
<1>1. Init => StreamInv
  <2> SUFFICES ASSUME Init
               PROVE  StreamInv
    OBVIOUS
  <2>1. ShapeInv
    BY DEF Init, ShapeInv, Live
  <2>2. SlotInv
    <3>1. \A r : LiveAt(r) = {}
      BY DEF Init, LiveAt, Live
    <3>2. ASSUME NEW r \in Replicas
          PROVE  Slots(r)
      <4>1. Cardinality(LiveAt(r)) = 0 /\ connections[r] = 0 /\ ghosts[r] = 0 /\ Cap \in Nat
        BY <3>1, FS_EmptySet, StreamAssumption DEF Init
      <4> QED
        BY <4>1 DEF Slots
    <3> QED
      BY <3>2 DEF SlotInv
  <2>3. LastWriteInv /\ DueInv
    BY DEF Init, LastWriteInv, DueInv
  <2> QED
    BY <2>1, <2>2, <2>3 DEF StreamInv
<1>2. StreamInv /\ [Next]_vars => StreamInv'
  BY ShapeStep, SlotStep, LastWriteStep, DueStep DEF StreamInv
<1> QED
  BY <1>1, <1>2, PTL DEF Spec

\* Neither a slot nor a change is lost, on whatever a stream ends: the slots of a
\* replica are its live streams and the dead ones it has not noticed, within the
\* cap, and a stream that rests has told its tab of every published change but
\* those slower than its last event or published past a detached replica (sse.rs,
\* stream, ConnectionGuard and changed_since).
THEOREM AccountKept == Spec => []StreamsKeepAccount
<1>1. StreamInv => StreamsKeepAccount
  <2> SUFFICES ASSUME StreamInv
               PROVE  SlotsAreStreams /\ RestsUpToDate
    BY DEF StreamsKeepAccount
  <2>1. SlotsAreStreams
    BY DEF StreamInv, SlotInv, Slots, LiveAt, SlotsAreStreams
  <2>2. ASSUME NEW t \in Tabs, pc[t] = "open", t \notin resume \cup lagged, rx[t] = << >>
        PROVE  stale[t] \cap published = {} \/ Overtaken(t) \/ t \in gap
    <3>1. \A c : ~Queued(c, t)
      BY <2>2 DEF Queued
    <3>2. ~FetchesAnyway(t)
      BY <2>2 DEF FetchesAnyway
    <3> QED
      BY <2>2, <3>1, <3>2 DEF StreamInv, DueInv, OnItsWay
  <2> QED
    BY <2>1, <2>2 DEF RestsUpToDate
<1> QED
  BY <1>1, StreamInvariant, PTL
=============================================================================
