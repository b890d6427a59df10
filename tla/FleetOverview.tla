--------------------------- MODULE FleetOverview ---------------------------
(***************************************************************************)
(* The one-line overview of the whole fleet: plan_fleet, the Fleet arm of  *)
(* apply_update (src/src/orchestrator.rs) and the task summarize_fleet     *)
(* (src/src/main.rs).                                                      *)
(*                                                                         *)
(* What the agents are doing reaches this part only as the list of         *)
(* headlines plan_fleet builds from the summarised agents, one line for    *)
(* each: any turn of the loop may change it, by a snapshot or by a         *)
(* summary. An overview is known by the headlines it was made from.        *)
(*                                                                         *)
(* last_attempt is an Instant of which the code asks only whether          *)
(* FLEET_COOLDOWN has gone by: here it is the time since, saturating there.*)
(***************************************************************************)
EXTENDS Naturals, FiniteSets

CONSTANTS
    Headlines,      \* the headline lists the fleet can produce
    Size,           \* Size[h]: how many lines h has
    Hash,           \* Hash[h]: hash_of, a 64-bit hash that may collide
    Task,           \* task ids of the fleet JoinSet
    FleetCooldown,  \* FLEET_COOLDOWN
    None            \* Option::None

ASSUME FleetAssumption ==
    /\ Size \in [Headlines -> Nat]
    /\ None \notin {Hash[h] : h \in Headlines}
    /\ None \notin Headlines
    /\ FleetCooldown \in Nat

VARIABLES
    headlines,  \* what plan_fleet would collect now
    job,        \* FleetJob
    overview,   \* App.fleet_summary
    task        \* the fleet JoinSet and the updates its tasks have queued

vars == <<headlines, job, overview, task>>

-----------------------------------------------------------------------------
HashValue == {Hash[h] : h \in Headlines}

FleetJob ==
    [inFlight        : BOOLEAN,
     activeHash      : HashValue \cup {None},
     lastAttempt     : 0..FleetCooldown \cup {None},
     lastSuccessHash : HashValue \cup {None}]

(* FleetJob::default() *)
DefaultJob ==
    [inFlight |-> FALSE, activeHash |-> None, lastAttempt |-> None, lastSuccessHash |-> None]

(* A task asks the provider about some headlines; "answered" and "failed"  *)
(* are updates on their way to the loop.                                   *)
TaskState == [phase : {"calling", "answered", "failed"}, of : Headlines]
               \cup [phase : {"idle"}]

IdleTask == [phase |-> "idle"]

Outstanding == {t \in Task : task[t].phase # "idle"}

TypeOK ==
    /\ headlines \in Headlines
    /\ job \in FleetJob
    /\ overview \in Headlines \cup {None}
    /\ task \in [Task -> TaskState]

-----------------------------------------------------------------------------
(* What plan_fleet does to the job.                                        *)

(* Mutated form: the hash of the last success outlives its overview. *)
ClearedButTheHash(j) == [j EXCEPT !.activeHash = None]

(* Fewer than two headlines: the overview goes, and its hash with it. *)
Cleared(j) == [j EXCEPT !.lastSuccessHash = None, !.activeHash = None]

(* Mutated form: the call is not marked. *)
DispatchedUnmarked(j, h) == [j EXCEPT !.activeHash = Hash[h], !.lastAttempt = 0]

Dispatched(j, h) ==
    [j EXCEPT !.inFlight = TRUE, !.activeHash = Hash[h], !.lastAttempt = 0]

(* Nothing new to say, or too soon to say it. *)
NothingNew(j, h) == j.lastSuccessHash = Hash[h]

(* Mutated form: one attempt holds off all later ones. *)
CoolingDownForever(j) == j.lastAttempt # None

CoolingDown(j) == j.lastAttempt \notin {None, FleetCooldown}

(* Mutated form: the fleet still counts as a fleet with one agent. *)
TooFewAlone(h) == Size[h] < 1

TooFew(h) == Size[h] < 2

(* The planning pass that ends a turn: h are the headlines of the moment,  *)
(* j, ov and tk what the branch has left of the job, overview and tasks.   *)
PlanFleet(h, j, ov, tk) ==
    /\ headlines' = h
    /\ \/ /\ \/ j.inFlight
             \/ ~TooFew(h) /\ (NothingNew(j, h) \/ CoolingDown(j))
          /\ job' = j /\ overview' = ov /\ task' = tk
       \/ /\ ~j.inFlight /\ TooFew(h)
          /\ job' = Cleared(j) /\ overview' = None /\ task' = tk
       \/ /\ ~j.inFlight /\ ~TooFew(h) /\ ~NothingNew(j, h) /\ ~CoolingDown(j)
          /\ job' = Dispatched(j, h) /\ overview' = ov
          /\ \E t \in Task : /\ tk[t] = IdleTask
                             /\ task' = [tk EXCEPT ![t] = [phase |-> "calling", of |-> h]]

-----------------------------------------------------------------------------
(* summarize_fleet. *)

CallAnswered(t) ==
    /\ task[t].phase = "calling"
    /\ task' = [task EXCEPT ![t].phase = "answered"]
    /\ UNCHANGED <<headlines, job, overview>>

CallFails(t) ==
    /\ task[t].phase = "calling"
    /\ task' = [task EXCEPT ![t].phase = "failed"]
    /\ UNCHANGED <<headlines, job, overview>>

-----------------------------------------------------------------------------
(* Turns of the loop. *)

(* A branch that takes no fleet update: it may have changed any agent. *)
Turn(h) == PlanFleet(h, job, overview, task)

(* Mutated form: the slot of the call is not given back on a failure.      *)
FinishedIfAnswered(j, u) ==
    IF u.phase = "answered"
    THEN [j EXCEPT !.inFlight = FALSE, !.activeHash = None, !.lastSuccessHash = Hash[u.of]]
    ELSE j

(* What a fleet update does to the job: an answer to another request than  *)
(* the active one is discarded, and only a success commits its hash.       *)
Finished(j, u) ==
    LET free == [j EXCEPT !.inFlight = FALSE]
    IN IF j.activeHash # Hash[u.of]
       THEN free
       ELSE [free EXCEPT
               !.activeHash      = None,
               !.lastSuccessHash = IF u.phase = "answered" THEN Hash[u.of] ELSE @]

Shown(j, ov, u) ==
    IF j.activeHash = Hash[u.of] /\ u.phase = "answered" THEN u.of ELSE ov

ReceiveFleet(t) ==
    /\ task[t].phase \in {"answered", "failed"}
    /\ PlanFleet(headlines, Finished(job, task[t]), Shown(job, overview, task[t]),
                 [task EXCEPT ![t] = IdleTask])

(* A unit of time passes. *)
Elapse ==
    /\ CoolingDown(job)
    /\ job' = [job EXCEPT !.lastAttempt = @ + 1]
    /\ UNCHANGED <<headlines, overview, task>>

-----------------------------------------------------------------------------
Init ==
    /\ headlines \in {h \in Headlines : Size[h] = 0}   \* no agent is summarised yet
    /\ job = DefaultJob
    /\ overview = None
    /\ task = [t \in Task |-> IdleTask]

Next ==
    \/ \E h \in Headlines : Turn(h)
    \/ \E t \in Task : CallAnswered(t) \/ CallFails(t) \/ ReceiveFleet(t)
    \/ Elapse

Spec == Init /\ [][Next]_vars

(* Turns come with every tick of the redraw timer, calls end by their      *)
(* timeout, updates are received, time passes. That the provider answers   *)
(* some call again and again is assumed of the provider.                   *)
Fairness ==
    /\ WF_vars(Turn(headlines))
    /\ WF_vars(Elapse)
    /\ \A t \in Task : /\ WF_vars(CallAnswered(t) \/ CallFails(t))
                       /\ SF_vars(CallAnswered(t))
                       /\ WF_vars(ReceiveFleet(t))

FairSpec == Spec /\ Fairness

-----------------------------------------------------------------------------
(* Properties. *)

(* in_flight is set exactly while one call, and no second, is outstanding, *)
(* and active_hash is the hash of that call's headlines.                   *)
OneFleetCall ==
    /\ job.inFlight <=> Outstanding # {}
    /\ job.inFlight <=> job.activeHash # None
    /\ \A t, u \in Outstanding : t = u
    /\ \A t \in Outstanding : Hash[task[t].of] = job.activeHash

(* The hash that suppresses a new call is the hash of the overview on      *)
(* screen: were it to outlive the overview, the header would stay empty    *)
(* for as long as the fleet does not change.                               *)
SuccessIsOnScreen ==
    job.lastSuccessHash = IF overview = None THEN None ELSE Hash[overview]

(* "An overview describing agents that have since departed is worse than   *)
(* no overview at all": below two agents none is shown, but for the one    *)
(* that a call in flight still keeps.                                      *)
NoProseForNoFleet == overview # None => job.inFlight \/ Size[headlines] >= 2

(* "A response that arrives after the fleet has moved on can be discarded  *)
(* rather than displayed" (FleetJob.active_hash).                          *)
StaleAnswerDiscarded ==
    [][overview' \notin {None, overview} => overview' = headlines]_vars

(* When the fleet stops changing, the header comes to describe it, however *)
(* many calls failed before.                                               *)
OverviewCatchesUp ==
    \A h \in Headlines :
       <>[](headlines = h)
         => <>[](IF Size[h] < 2 THEN overview = None
                 ELSE overview # None /\ Hash[overview] = Hash[h])
=============================================================================
