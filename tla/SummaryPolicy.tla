--------------------------- MODULE SummaryPolicy ---------------------------
(***************************************************************************)
(* When herdash spends a provider call on an agent: the pure functions of  *)
(* src/src/summary/policy.rs, which take the clock as an argument and      *)
(* touch nothing but the record they are given.                            *)
(*                                                                         *)
(* The code compares Instants and never stores a duration, so the two      *)
(* Instants of a record become what the comparisons can see of them:       *)
(*   generatedAge  now - generated_at, saturating at Cooldown;             *)
(*   retryIn       retry_after - now, never below 0.                       *)
(* Both count in units of the constants below (seconds in the code).       *)
(***************************************************************************)
EXTENDS Naturals

CONSTANTS
    Cooldown,       \* Cfg.cooldown
    Enabled,        \* Cfg.enabled
    BackoffBase,    \* BACKOFF_BASE, 5
    BackoffCap,     \* BACKOFF_CAP, 300
    MaxFailures,    \* where failures.saturating_add stops: u32::MAX
    None            \* Option::None

ASSUME PolicyAssumption ==
    /\ Cooldown \in Nat
    /\ Enabled \in BOOLEAN
    /\ BackoffBase \in Nat \ {0}
    /\ BackoffCap \in Nat \ {0}
    /\ MaxFailures \in Nat \ {0}

AgentStatus == {"Blocked", "Done", "Working", "Idle", "Unknown"}

(* The bookkeeping of one agent that the policy reads. *)
SummaryState ==
    [inFlight      : BOOLEAN,
     fromRevision  : Nat \cup {None},
     generatedAge  : 0..Cooldown \cup {None},
     lastStatus    : AgentStatus \cup {None},
     pendingBypass : BOOLEAN,
     failures      : 0..MaxFailures,
     retryIn       : 0..BackoffCap \cup {None},
     forced        : BOOLEAN]

(* SummaryState::default() *)
DefaultState ==
    [inFlight |-> FALSE, fromRevision |-> None, generatedAge |-> None,
     lastStatus |-> None, pendingBypass |-> FALSE, failures |-> 0,
     retryIn |-> None, forced |-> FALSE]

-----------------------------------------------------------------------------
Lesser(a, b) == IF a < b THEN a ELSE b

(* 3^0 to 3^10: backoff holds the exponent, failures - 1, at 10. *)
PowersOf3 == <<1, 3, 9, 27, 81, 243, 729, 2187, 6561, 19683, 59049>>

(* Mutated form: the ceiling forgotten. *)
BackoffUncapped(failures) ==
    IF failures = 0 THEN 0 ELSE BackoffBase * PowersOf3[Lesser(failures, 11)]

(* BACKOFF_BASE * 3^(failures - 1) up to the ceiling; no failure, no wait. *)
Backoff(failures) ==
    IF failures = 0
    THEN 0
    ELSE Lesser(BackoffBase * PowersOf3[Lesser(failures, 11)], BackoffCap)

(* A transition urgent enough to ignore the cooldown: the edge, not the    *)
(* level, and never the first observation.                                 *)
IsBypass(new, old) ==
    /\ old # None
    /\ new # old
    /\ \/ new = "Blocked"
       \/ old = "Working" /\ new \in {"Done", "Idle"}

(* Latch an urgent edge, and remember the status for the next one. *)
ObserveStatus(st, new) ==
    [st EXCEPT !.pendingBypass = @ \/ IsBypass(new, st.lastStatus),
               !.lastStatus    = new]

(* The gates of decide, in its order: each applies only where the ones     *)
(* before it have not answered.                                            *)
BackoffOver(st)  == st.retryIn \in {None, 0}
CooldownOver(st) == st.generatedAge \in {None, Cooldown}

(* Mutated forms of Summarize, each a gate lost or out of its place:       *)
(* a refresh that outranks in_flight,                                      *)
SummarizeTwice(revision, st) ==
    /\ Enabled
    /\ \/ st.forced
       \/ ~st.inFlight /\ st.fromRevision = None
       \/ ~st.inFlight /\ revision # st.fromRevision /\ CooldownOver(st)

(* a refresh that still waits for new output,                              *)
SummarizeForcedIfNew(revision, st) ==
    /\ Enabled
    /\ ~st.inFlight
    /\ IF st.failures > 0
       THEN BackoffOver(st)
       ELSE \/ st.fromRevision = None
            \/ /\ revision # st.fromRevision
               /\ st.forced \/ st.pendingBypass \/ CooldownOver(st)

(* a failure that waits for new output like a success does,                *)
SummarizeFailureIfNew(revision, st) ==
    /\ Enabled
    /\ ~st.inFlight
    /\ \/ st.forced
       \/ st.fromRevision = None
       \/ revision # st.fromRevision /\ (st.pendingBypass \/ CooldownOver(st))

(* a cooldown that never ends where no summary was ever made.              *)
SummarizeIfGenerated(revision, st) ==
    /\ Enabled
    /\ ~st.inFlight
    /\ \/ st.forced
       \/ IF st.failures > 0
          THEN BackoffOver(st)
          ELSE \/ st.fromRevision = None
               \/ /\ revision # st.fromRevision
                  /\ st.pendingBypass \/ st.generatedAge = Cooldown

Summarize(revision, st) ==
    /\ Enabled
    /\ ~st.inFlight
    /\ \/ st.forced
       \/ IF st.failures > 0
          THEN BackoffOver(st)
          ELSE \/ st.fromRevision = None
               \/ /\ revision # st.fromRevision
                  /\ st.pendingBypass \/ CooldownOver(st)

(* One unit of time passes for the two clocks of a record. *)
Age(st) ==
    [st EXCEPT
       !.generatedAge = IF @ \in {None, Cooldown} THEN @ ELSE @ + 1,
       !.retryIn      = IF @ \in {None, 0} THEN @ ELSE @ - 1]
=============================================================================
