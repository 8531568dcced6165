--------------------------- MODULE PreferencePanel ---------------------------
(***************************************************************************)
(* The preferences panel of the React widget: usePreferences (hooks.ts),   *)
(* the toggles of Preferences.tsx, getPreferences and setPreferences of    *)
(* the client and the server's rows behind them.                           *)
(*                                                                         *)
(* An explicit row exists for a disabled category only (`enabled=true'     *)
(* deletes it), so a list of rows is the set of disabled categories.       *)
(* Nobody else writes this subscriber's preferences.                       *)
(***************************************************************************)
EXTENDS Naturals

CONSTANTS
    Categories,
    Calls,          \* one per setPreferences in flight
    None

Rows == SUBSET Categories
Answers == [rows : Rows, version : Nat]
Loads == [answer : Answers \cup {None}]
Writes == [category : Categories, mute : BOOLEAN, previous : Rows \cup {None},
           answer : Answers \cup {None}, mine : BOOLEAN]

ASSUME PanelAssumption == None \notin Answers /\ None \notin Loads /\ None \notin Writes

VARIABLES
    muted,          \* the server's rows
    version,        \* history: how often they have been written or rewritten
    panel,          \* the panel is mounted
    rows,           \* the hook's state; None is null
    prefError,      \* the hook's error
    load,           \* the getPreferences of this mount
    writes,         \* the setPreferences in flight, with their closures
    passed,         \* history: the newest version whose answer this panel has
                    \* handled, or will never see
    crossed         \* history: what the panel shows is older than that

serverRows == <<muted, version>>
hookVars == <<panel, rows, prefError, load, passed, crossed>>
panelVars == <<serverRows, hookVars, writes>>

Answer == [rows |-> muted, version |-> version]

\* applyWrites: of one write.
Write(set, c, mute) == IF mute THEN set \cup {c} ELSE set \ {c}

Known == IF rows = None THEN {} ELSE rows

\* The toggles: the categories of the loaded items and of the explicit rows.
Toggles(itemCategories) == itemCategories \cup Known

----------------------------------------------------------------------------
(* The hook's mount effect *)

Mount ==
    /\ panel' = TRUE
    /\ rows' = None /\ prefError' = FALSE
    /\ load' = [answer |-> None]
    /\ passed' = 0 /\ crossed' = FALSE
    /\ UNCHANGED <<serverRows, writes>>

\* The cleanup: answers still to come are for nobody.
Unmount ==
    /\ panel' = FALSE
    /\ rows' = None /\ prefError' = FALSE /\ load' = None
    /\ passed' = 0 /\ crossed' = FALSE
    /\ writes' = [w \in Calls |-> IF writes[w] = None THEN None
                                  ELSE [writes[w] EXCEPT !.mine = FALSE]]
    /\ UNCHANGED serverRows

\* setRows with an answer of the server.
Show(answer) ==
    /\ rows' = answer.rows /\ prefError' = FALSE
    /\ crossed' = (answer.version < passed)
    /\ passed' = IF crossed' THEN passed ELSE answer.version

LoadRead ==
    /\ load # None /\ load.answer = None
    /\ load' = [load EXCEPT !.answer = Answer]
    /\ UNCHANGED <<serverRows, panel, rows, prefError, passed, crossed, writes>>

LoadDone ==
    /\ load # None /\ load.answer # None
    /\ Show(load.answer)
    /\ load' = None
    /\ UNCHANGED <<serverRows, panel, writes>>

LoadFails ==
    /\ load # None
    /\ load' = None /\ prefError' = TRUE
    /\ UNCHANGED <<serverRows, panel, rows, passed, crossed, writes>>

----------------------------------------------------------------------------
(* A toggle *)

\* The checkbox shows `isEnabled'; its change writes the opposite, shown at
\* once.  The call remembers the rows of the render it was made in.
Toggle(w, c) ==
    /\ panel /\ writes[w] = None
    /\ writes' = [writes EXCEPT ![w] = [category |-> c, mute |-> c \notin Known,
                                        previous |-> rows, answer |-> None,
                                        mine |-> TRUE]]
    /\ rows' = Write(Known, c, c \notin Known)
    /\ UNCHANGED <<serverRows, panel, prefError, load, passed, crossed>>

\* The server writes, and answers with all explicit rows.
WriteRead(w) ==
    /\ writes[w] # None /\ writes[w].answer = None
    /\ muted' = Write(muted, writes[w].category, writes[w].mute)
    /\ version' = version + 1
    /\ writes' = [writes EXCEPT ![w].answer = [rows |-> muted', version |-> version']]
    /\ IF panel /\ ~writes[w].mine THEN passed' = version' /\ crossed' = TRUE
       ELSE UNCHANGED <<passed, crossed>>
    /\ UNCHANGED <<panel, rows, prefError, load>>

\* Mutant: the optimistic rows are kept.
WriteTrusted(w) ==
    /\ writes[w] # None /\ writes[w].answer # None
    /\ prefError' = IF writes[w].mine THEN FALSE ELSE prefError
    /\ writes' = [writes EXCEPT ![w] = None]
    /\ UNCHANGED <<serverRows, panel, rows, load, passed, crossed>>

WriteDone(w) ==
    /\ writes[w] # None /\ writes[w].answer # None
    /\ IF writes[w].mine THEN Show(writes[w].answer)
       ELSE UNCHANGED <<rows, prefError, passed, crossed>>
    /\ writes' = [writes EXCEPT ![w] = None]
    /\ UNCHANGED <<serverRows, panel, load>>

\* The request or its answer is lost: the rows before it come back.
WriteFails(w) ==
    /\ writes[w] # None
    /\ IF writes[w].mine THEN rows' = writes[w].previous /\ prefError' = TRUE
       ELSE UNCHANGED <<rows, prefError>>
    /\ writes' = [writes EXCEPT ![w] = None]
    /\ passed' = IF writes[w].mine /\ writes[w].answer # None
                    /\ writes[w].answer.version > passed
                 THEN writes[w].answer.version ELSE passed
    /\ UNCHANGED <<serverRows, panel, load, crossed>>

PanelInit ==
    /\ muted \in SUBSET Categories /\ version = 0
    /\ panel = FALSE /\ rows = None /\ prefError = FALSE /\ load = None
    /\ writes = [w \in Calls |-> None]
    /\ passed = 0 /\ crossed = FALSE

PanelTypeOK ==
    /\ muted \in Rows /\ version \in Nat /\ rows \in Rows \cup {None}
    /\ panel \in BOOLEAN /\ prefError \in BOOLEAN /\ crossed \in BOOLEAN
    /\ load \in Loads \cup {None} /\ writes \in [Calls -> Writes \cup {None}]
    /\ passed \in 0..version
    /\ ~panel => load = None /\ rows = None

\* Once nothing is in flight, the toggles show what the server holds, however
\* the load and several toggles overlapped and whichever failed before the
\* last answer.  Excepted are an error on display and answers that were handled
\* in another order than the server computed them: nothing orders them, and the
\* older rows stay (hooks.ts, usePreferences).
PanelTellsTruth ==
    panel /\ load = None /\ (\A w \in Calls : writes[w] = None) /\ ~prefError /\ ~crossed
        => rows = muted
=============================================================================
