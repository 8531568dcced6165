----------------------------- MODULE SseStream -----------------------------
(***************************************************************************)
(* GET /v1/inbox/stream and the fan-in behind it: the replicas' channels of*)
(* published hints, the streams one subscriber's tabs hold on them, the    *)
(* per-replica connection cap, the resume check after Last-Event-ID, and   *)
(* the ends of a stream (a client that leaves, a failed check, an expired  *)
(* credential, a shutdown).                                                *)
(*                                                                         *)
(* A change stamps what it writes with the instant its transaction began   *)
(* (now() in Postgres) and commits later; its hint is published later      *)
(* still, once (HintPipeline shows how).  A tab that gets an event fetches *)
(* the inbox.  The clock moves whenever an instant is taken, so that no two*)
(* are equal.                                                              *)
(***************************************************************************)
EXTENDS Integers, Sequences, FiniteSets

CONSTANTS
    Tabs,        \* event sources of one subscriber
    Plain,       \* those that do not fetch by themselves when they reconnect
    Replicas,    \* server processes
    Changes,     \* transactions that queue a hint
    KindOf,      \* "item", "flip", "broadcast", or "other": not this subscriber's
    Cap,         \* streams one subscriber may hold on a replica
    Capacity,    \* hints a channel keeps for a slow receiver
    MaxFaults    \* bound: clients that leave, failures, expiries and outages

ASSUME StreamAssumption ==
    /\ IsFiniteSet(Tabs) /\ Plain \subseteq Tabs
    /\ KindOf \in [Changes -> {"item", "flip", "broadcast", "other"}]
    /\ Cap \in Nat \ {0}
    /\ Capacity \in Nat \ {0}
    /\ MaxFaults \in Nat

VARIABLES
    clock,
    stamp,       \* the instant each change began, 0 before
    committed,
    published,   \* changes whose hint has been published
    updated_at,  \* of the subscriber's counters row
    attached,    \* replicas whose fan-in is subscribed to the hint channel
    down,        \* replicas that are shutting down
    connections, \* sse_connections: the slots taken on each replica
    ghosts,      \* streams whose client is gone and the server has not noticed
    pc, at,      \* where each tab's stream stands, and on which replica
    rx,          \* the hints its receiver holds
    lagged,      \* tabs whose receiver lost the oldest of them
    resume,      \* tabs that are owed a resume event
    token,       \* the id of the last event each tab got, 0 without one
    stale,       \* history: committed changes a tab has not fetched
    gap,         \* history: tabs past whose detached replica a hint went
    faults

changeVars == <<clock, stamp, committed, published, updated_at>>
planeVars == <<attached, down>>
slotVars == <<connections, ghosts>>
streamVars == <<pc, at, rx, lagged, resume>>
tabVars == <<token, stale, gap>>
vars == <<changeVars, planeVars, slotVars, streamVars, tabVars, faults>>

Ours == {c \in Changes : KindOf[c] # "other"}

Init ==
    /\ clock = 0
    /\ stamp = [c \in Changes |-> 0]
    /\ committed = {} /\ published = {}
    /\ updated_at = 0
    /\ attached = Replicas /\ down = {}
    /\ connections = [r \in Replicas |-> 0]
    /\ ghosts = [r \in Replicas |-> 0]
    /\ pc = [t \in Tabs |-> "away"]
    /\ at = [t \in Tabs |-> "nowhere"]
    /\ rx = [t \in Tabs |-> << >>]
    /\ lagged = {} /\ resume = {}
    /\ token = [t \in Tabs |-> 0]
    /\ stale = [t \in Tabs |-> {}]
    /\ gap = {}
    /\ faults = 0

Live(t) == pc[t] # "away"

\* Mutant: the receiver is taken after the resume check.
ReceivesOnceOpen(t) == pc[t] = "open"

\* The receiver is taken before the resume check and lives with the stream.
Receives(t) == pc[t] \in {"subscribed", "checked", "open"}

Fault == faults < MaxFaults /\ faults' = faults + 1

----------------------------------------------------------------------------
(* The changes and their hints *)

Begin(c) ==
    /\ stamp[c] = 0
    /\ clock' = clock + 1
    /\ stamp' = [stamp EXCEPT ![c] = clock + 1]
    /\ UNCHANGED <<committed, published, updated_at, planeVars, slotVars, streamVars,
                   tabVars, faults>>

\* Items and flips write the counters row, with the instant they began.
Commit(c) ==
    /\ stamp[c] # 0
    /\ c \notin committed
    /\ committed' = committed \cup {c}
    /\ updated_at' = IF KindOf[c] \in {"item", "flip"} THEN stamp[c] ELSE updated_at
    /\ stale' = [t \in Tabs |-> stale[t] \cup ({c} \cap Ours)]
    /\ UNCHANGED <<clock, stamp, published, planeVars, slotVars, streamVars, token, gap,
                   faults>>

Reaches(t) == Receives(t) /\ at[t] \in attached

\* The channel drops the oldest hint of a receiver that is too slow.
Enqueue(q, c) == IF Len(q) = Capacity THEN Append(Tail(q), c) ELSE Append(q, c)

\* Publishing to no subscriber at all fails the job, which tries again.  Every
\* replica whose fan-in is attached hands the hint to all its streams.
Publish(c) ==
    /\ c \in committed \ published
    /\ attached # {}
    /\ published' = published \cup {c}
    /\ rx' = [t \in Tabs |-> IF Reaches(t) THEN Enqueue(rx[t], c) ELSE rx[t]]
    /\ lagged' = lagged \cup {t \in Tabs : Reaches(t) /\ Len(rx[t]) = Capacity}
    /\ gap' = gap \cup {t \in Tabs : Receives(t) /\ ~Reaches(t) /\ c \in stale[t]}
    /\ UNCHANGED <<clock, stamp, committed, updated_at, planeVars, slotVars, pc, at,
                   resume, token, stale, faults>>

\* A replica's subscription is lost and comes back (manage_subscriptions).
Detach(r) ==
    /\ Fault
    /\ r \in attached
    /\ attached' = attached \ {r}
    /\ UNCHANGED <<changeVars, down, slotVars, streamVars, tabVars>>

Attach(r) ==
    /\ r \notin attached
    /\ attached' = attached \cup {r}
    /\ UNCHANGED <<changeVars, down, slotVars, streamVars, tabVars, faults>>

----------------------------------------------------------------------------
(* A stream *)

\* Take a slot, then the receiver.
Connect(t, r) ==
    /\ pc[t] = "away"
    /\ r \notin down
    /\ connections[r] < Cap
    /\ connections' = [connections EXCEPT ![r] = @ + 1]
    /\ pc' = [pc EXCEPT ![t] = "subscribed"]
    /\ at' = [at EXCEPT ![t] = r]
    /\ UNCHANGED <<changeVars, planeVars, ghosts, rx, lagged, resume, tabVars, faults>>

\* changed_since: the counters row, or a row of the subscriber's own, is newer
\* than the last event.
ChangedSince(since) ==
    \/ updated_at > since
    \/ \E c \in committed : KindOf[c] \in {"item", "broadcast"} /\ stamp[c] > since

\* The resume check; without a token there is nothing to resume.
Check(t) ==
    /\ pc[t] = "subscribed"
    /\ pc' = [pc EXCEPT ![t] = "checked"]
    /\ resume' = IF token[t] # 0 /\ ChangedSince(token[t]) THEN resume \cup {t} ELSE resume
    /\ UNCHANGED <<changeVars, planeVars, slotVars, at, rx, lagged, tabVars, faults>>

Fetch(t) ==
    /\ stale' = [stale EXCEPT ![t] = {}]
    /\ gap' = gap \ {t}

\* The response's headers arrive.  A tab that loads, and the SDK on every
\* connection, fetches now; a plain event source waits for an event.
Open(t) ==
    /\ pc[t] = "checked"
    /\ pc' = [pc EXCEPT ![t] = "open"]
    /\ IF t \notin Plain \/ token[t] = 0 THEN Fetch(t) ELSE UNCHANGED <<stale, gap>>
    /\ UNCHANGED <<changeVars, planeVars, slotVars, at, rx, lagged, resume, token, faults>>

\* A hint event arrives, with the instant it was sent at as its id.
HintEvent(t) ==
    /\ clock' = clock + 1
    /\ token' = [token EXCEPT ![t] = clock + 1]
    /\ Fetch(t)

SendResume(t) ==
    /\ pc[t] = "open" /\ t \in resume
    /\ HintEvent(t)
    /\ resume' = resume \ {t}
    /\ UNCHANGED <<stamp, committed, published, updated_at, planeVars, slotVars, pc, at,
                   rx, lagged, faults>>

\* Mutant: a lagged receiver is read on as if nothing had been lost.
IgnoreLagged(t) ==
    /\ lagged' = lagged \ {t}
    /\ UNCHANGED <<clock, token, stale, gap, rx>>

ReportLagged(t) ==
    /\ lagged' = lagged \ {t}
    /\ HintEvent(t)
    /\ UNCHANGED rx

\* The loop, once the resume event is out: what was lost first, then a hint.
\* A hint and the shutdown may be ready at once; select takes either.
Receive(t) ==
    /\ pc[t] = "open" /\ t \notin resume
    /\ \/ t \in lagged /\ ReportLagged(t)
       \/ /\ t \notin lagged /\ rx[t] # << >>
          /\ rx' = [rx EXCEPT ![t] = Tail(@)]
          /\ lagged' = lagged
          /\ IF Head(rx[t]) \in Ours THEN HintEvent(t) ELSE UNCHANGED <<clock, token, stale, gap>>
    /\ UNCHANGED <<stamp, committed, published, updated_at, planeVars, slotVars, pc, at,
                   resume, faults>>

Forget(t) ==
    /\ pc' = [pc EXCEPT ![t] = "away"]
    /\ rx' = [rx EXCEPT ![t] = << >>]
    /\ lagged' = lagged \ {t}
    /\ resume' = resume \ {t}
    /\ gap' = gap \ {t}
    /\ at' = [at EXCEPT ![t] = "nowhere"]
    /\ UNCHANGED <<token, stale>>

\* ConnectionGuard::drop.
DropGuard(r) == connections' = [connections EXCEPT ![r] = @ - 1]

\* The resume check fails: the handler returns early.
CheckFails(t) ==
    /\ Fault
    /\ pc[t] = "subscribed" /\ token[t] # 0
    /\ Forget(t)
    /\ DropGuard(at[t])
    /\ UNCHANGED <<changeVars, planeVars, ghosts>>

EndsForShutdown(t) == at[t] \in down

\* The retry event, because of the shutdown or the credential's expiry.
End(t) ==
    /\ pc[t] = "open" /\ t \notin resume
    /\ \/ EndsForShutdown(t) /\ faults' = faults
       \/ at[t] \notin down /\ Fault
    /\ Forget(t)
    /\ DropGuard(at[t])
    /\ UNCHANGED <<changeVars, planeVars, ghosts>>

\* The client goes away; the server notices when it next writes.
Leave(t) ==
    /\ Fault
    /\ Live(t)
    /\ Forget(t)
    /\ ghosts' = [ghosts EXCEPT ![at[t]] = @ + 1]
    /\ UNCHANGED <<changeVars, planeVars, connections>>

Notice(r) ==
    /\ ghosts[r] > 0
    /\ ghosts' = [ghosts EXCEPT ![r] = @ - 1]
    /\ DropGuard(r)
    /\ UNCHANGED <<changeVars, planeVars, streamVars, tabVars, faults>>

Shutdown(r) ==
    /\ Fault
    /\ r \notin down
    /\ down' = down \cup {r}
    /\ UNCHANGED <<changeVars, attached, slotVars, streamVars, tabVars>>

Next ==
    \/ \E c \in Changes : Begin(c) \/ Commit(c) \/ Publish(c)
    \/ \E r \in Replicas : Detach(r) \/ Attach(r) \/ Notice(r) \/ Shutdown(r)
    \/ \E t \in Tabs : \/ \E r \in Replicas : Connect(t, r)
                       \/ Check(t) \/ Open(t) \/ SendResume(t) \/ Receive(t)
                       \/ CheckFails(t) \/ End(t) \/ Leave(t)

Spec == Init /\ [][Next]_vars

\* Tasks that can run do, the worker retries, a lost subscription is renewed
\* and a dead connection fails at the next ping.
Fairness ==
    /\ \A c \in Changes : WF_vars(Publish(c))
    /\ \A r \in Replicas : WF_vars(Attach(r)) /\ WF_vars(Notice(r))
    /\ \A t \in Tabs : WF_vars(Check(t) \/ Open(t) \/ SendResume(t) \/ Receive(t)
                               \/ (EndsForShutdown(t) /\ End(t)))

FairSpec == Spec /\ Fairness

----------------------------------------------------------------------------

TypeOK ==
    /\ clock \in Nat
    /\ stamp \in [Changes -> 0 .. clock]
    /\ published \subseteq committed /\ committed \subseteq Changes
    /\ updated_at \in 0 .. clock
    /\ attached \subseteq Replicas /\ down \subseteq Replicas
    /\ connections \in [Replicas -> Nat] /\ ghosts \in [Replicas -> Nat]
    /\ pc \in [Tabs -> {"away", "subscribed", "checked", "open"}]
    /\ at \in [Tabs -> Replicas \cup {"nowhere"}]
    /\ \A t \in Tabs : Live(t) <=> at[t] \in Replicas
    /\ \A t \in Tabs : rx[t] \in Seq(Changes) /\ Len(rx[t]) <= Capacity
    /\ lagged \subseteq Tabs /\ resume \subseteq Tabs /\ gap \subseteq Tabs
    /\ token \in [Tabs -> 0 .. clock]
    /\ stale \in [Tabs -> SUBSET Ours]

\* The cap counts streams: the slots taken on a replica are those of its live
\* streams and of the dead ones it has not noticed, never more than Cap,
\* however a stream came to its end (sse.rs, stream and ConnectionGuard).
SlotsAreStreams ==
    \A r \in Replicas :
        /\ connections[r] = Cardinality({t \in Tabs : Live(t) /\ at[t] = r}) + ghosts[r]
        /\ connections[r] <= Cap

\* A plain tab's resume check does not see a change that began before the
\* tab's last event.
Overtaken(t) == t \in Plain /\ \E c \in stale[t] : stamp[c] <= token[t]

\* No stream rests on an old inbox: when it has nothing left to send, every
\* change its tab has not fetched is still to be published, but for a change
\* slower than the tab's last event and a hint published past a replica that
\* was not subscribed (sse.rs, stream: the receiver is taken before the resume
\* check, and a lagged receiver sends one event for all it lost).
RestsUpToDate ==
    \A t \in Tabs :
        (pc[t] = "open" /\ t \notin resume \cup lagged /\ rx[t] = << >>)
            => \/ stale[t] \cap published = {}
               \/ Overtaken(t)
               \/ t \in gap

\* Neither a slot nor a change is lost, on whatever a stream ends (sse.rs).
StreamsKeepAccount == SlotsAreStreams /\ RestsUpToDate

\* An open stream's tab comes to fetch every change, with the same exceptions.
EveryChangeFetched ==
    \A t \in Tabs, c \in Ours :
        (pc[t] = "open" /\ c \in stale[t])
            ~> (pc[t] # "open" \/ c \notin stale[t] \/ Overtaken(t) \/ t \in gap)
=============================================================================
