--------------------------- MODULE SummaryLedger ---------------------------
(***************************************************************************)
(* What herdash promises every agent of the list about its summary, with   *)
(* nothing said of how: no poller, no channel, no tasks, no clocks. The    *)
(* comments of src/src/orchestrator.rs and src/src/summary/policy.rs make  *)
(* these promises, and Orchestrator is shown to keep them.                 *)
(*                                                                         *)
(*   A call is paid for only if it can tell something new, or the user     *)
(*   asked, or the last one failed; one at a time.                         *)
(*   What asks for a call is answered by a call, and by nothing else.      *)
(*   A text on screen makes way only for a text as new.                    *)
(*   An agent that leaves the list takes everything with it.               *)
(***************************************************************************)
EXTENDS Naturals

CONSTANTS
    Agent,
    Revision,     \* counts of what an agent has printed: numbers
    BlankAgent,   \* agents whose transcript may be empty
    None          \* no number

VARIABLE ledger   \* an entry for each agent of the list, Unlisted for the others

-----------------------------------------------------------------------------
Trigger == {"refresh", "urgent"}

Entry ==
    [due     : SUBSET Trigger,            \* what asks for a call
     call    : Revision \cup {None},      \* the output a call under way is for
     covered : Revision \cup {None},      \* that of the last call that ended
     failed  : BOOLEAN,                   \* did that one fail?
     shown   : Revision \cup {None}]      \* the output the text on screen is of

Unlisted == None

NewEntry == [due |-> {}, call |-> None, covered |-> None, failed |-> FALSE, shown |-> None]

(* The call under way ends: it failed, or found a blank pane, or brought a *)
(* text of all its output and perhaps of more.                             *)
Outcomes(a, e) ==
    LET ended   == [e EXCEPT !.call = None, !.covered = e.call]
        settled == [ended EXCEPT !.failed = FALSE]
        texts   == {t \in Revision : t >= e.call /\ (e.shown # None => t >= e.shown)}
    IN IF e.call = None THEN {}
       ELSE {[ended EXCEPT !.failed = TRUE]}
              \cup (IF a \in BlankAgent THEN {settled} ELSE {})
              \cup {[settled EXCEPT !.shown = t] : t \in texts}

(* Is a call for output r worth its price? *)
Worth(e, r) ==
    \/ e.covered = None
    \/ e.covered < r
    \/ e.covered = r /\ ("refresh" \in e.due \/ e.failed)

Begins(e, g) ==
    /\ e.call = None
    /\ g.call \in Revision
    /\ Worth(e, g.call)
    /\ g = [e EXCEPT !.call = g.call, !.due = {}]

(* The user asks for a refresh, the agent turns urgent, both or neither;   *)
(* and a call may begin.                                                   *)
AskedAndBegun(e, g) ==
    \E d \in SUBSET Trigger :
       LET asked == [e EXCEPT !.due = @ \cup d]
       IN g = asked \/ Begins(asked, g)

(* One turn may end a call, hear what is asked, and begin the next call.   *)
Turned(a, e, g) ==
    \/ AskedAndBegun(e, g)
    \/ \E f \in Outcomes(a, e) : AskedAndBegun(f, g)

(* What may become of an agent's entry in a turn. *)
Moves(a, e, g) ==
    \/ g = Unlisted
    \/ /\ g # Unlisted
       /\ IF e = Unlisted THEN AskedAndBegun(NewEntry, g) ELSE Turned(a, e, g)

(* Every entry is one. *)
TypeOK == ledger \in [Agent -> Entry \cup {Unlisted}]

-----------------------------------------------------------------------------
Init == ledger = [a \in Agent |-> Unlisted]

(* e and g are what each entry is before and after the turn. *)
Next ==
    /\ DOMAIN ledger' = Agent
    /\ \A a \in Agent : \E e \in {ledger[a]}, g \in {ledger'[a]} : Moves(a, e, g)

Spec == Init /\ [][Next]_ledger
=============================================================================
