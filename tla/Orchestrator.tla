---------------------------- MODULE Orchestrator ----------------------------
(***************************************************************************)
(* The summary half of herdash's main loop (src/src/main.rs, run) with the *)
(* functions it folds results and starts work with                         *)
(* (src/src/orchestrator.rs, src/src/app.rs).                              *)
(*                                                                         *)
(* Four kinds of process meet here:                                        *)
(*   herdr     the multiplexer: agents start, print, change status, leave; *)
(*   poller    asks herdr for a snapshot and queues what it was told;      *)
(*   workers   one task per summary call: read the agent's transcript,     *)
(*             ask the provider, queue the result;                         *)
(*   the loop  one select! branch at a time, then a planning pass.         *)
(* The poller and the workers reach the loop only through the bounded FIFO *)
(* channel. A worker that has queued its result keeps its place in the     *)
(* JoinSet until the loop reaps it.                                        *)
(*                                                                         *)
(* A summary is known by the revision of the transcript it was made from.  *)
(***************************************************************************)
EXTENDS SummaryPolicy, FiniteSets, Sequences, Functions

CONSTANTS
    Pane,             \* pane ids herdr may ever hand out
    Rank,             \* where the list has an agent, while its status stays
    Worker,           \* task ids of the JoinSet
    MaxSummaryTasks,  \* MAX_SUMMARY_TASKS
    ChanCap,          \* capacity of the mpsc channel, 128 in the code
    ReportedStatus,   \* the statuses herdr reports
    BlankPane,        \* panes whose transcript may be empty when it is read
    PanesReturn,      \* may an agent come back under the pane id it left?
    MaxRevision,      \* bound: herdr stops counting output there
    Empty,            \* the result Ok(None)
    Failed            \* the result Err(_)

ASSUME OrchestratorAssumption ==
    /\ IsFiniteSet(Pane)
    /\ Rank \in [Pane -> Nat]
    /\ IsFiniteSet(Worker)
    /\ MaxSummaryTasks \in Nat
    /\ Cardinality(Worker) > MaxSummaryTasks
    /\ ChanCap \in Nat \ {0}
    /\ ReportedStatus \subseteq AgentStatus
    /\ BlankPane \subseteq Pane
    /\ PanesReturn \in BOOLEAN
    /\ MaxRevision \in Nat
    /\ None \notin Pane \cup Nat \cup {Empty, Failed}
    /\ Empty \notin Nat \cup {Failed}
    /\ Failed \notin Nat

VARIABLES
    panes,     \* herdr: the agents, as they are now
    poll,      \* poller: the update it is about to queue, or None
    chan,      \* the channel
    worker,    \* the JoinSet
    snapshot,  \* App.last_snapshot
    slots      \* App.slots

loopVars == <<snapshot, slots, worker>>
vars == <<panes, poll, chan, worker, snapshot, slots>>

-----------------------------------------------------------------------------
(* Data. *)

Revision == 0..MaxRevision
Result   == Revision \cup {Empty, Failed}

PaneState == [life : {"unborn", "live", "gone"}, status : AgentStatus, revision : Revision]

(* What a snapshot says of an agent. *)
Agent == [status : AgentStatus, revision : Revision]

(* SummarySlot: the policy's record and the summary on screen. *)
Slot == [state : SummaryState, summary : Revision \cup {None}]

DefaultSlot == [state |-> DefaultState, summary |-> None]

(* A snapshot lists the agents of some panes. *)
Snapshots == UNION {[D -> Agent] : D \in SUBSET Pane}

Update ==
    [kind : {"Snapshot"}, agents : Snapshots]
      \cup [kind : {"Summary"}, pane : Pane, revision : Revision, result : Result]
      \cup [kind : {"Status"}]   \* Connection and Notice

Task ==
    [phase : {"idle", "done"}, pane : {None}, revision : {None}, result : {None}]
      \cup [phase : {"reading"}, pane : Pane, revision : Revision, result : {None}]
      \cup [phase : {"calling", "sending"}, pane : Pane, revision : Revision, result : Result]

IdleTask == [phase |-> "idle", pane |-> None, revision |-> None, result |-> None]
DoneTask == [phase |-> "done", pane |-> None, revision |-> None, result |-> None]

(* A task that still has to queue the result of its call. *)
Active(t) == t.phase \in {"reading", "calling", "sending"}

TypeOK ==
    /\ panes \in [Pane -> PaneState]
    /\ poll \in Update \cup {None}
    /\ chan \in Seq(Update) /\ Len(chan) <= ChanCap
    /\ worker \in [Worker -> Task]
    /\ snapshot \in Snapshots
    /\ DOMAIN slots \subseteq Pane /\ slots \in [DOMAIN slots -> Slot]

-----------------------------------------------------------------------------
(* herdr, as the loop and the workers see it. *)

Live == {p \in Pane : panes[p].life = "live"}

(* session.snapshot *)
Reported == [p \in Live |-> [status |-> panes[p].status, revision |-> panes[p].revision]]

AgentStarts(p, s) ==
    /\ \/ panes[p].life = "unborn"
       \/ panes[p].life = "gone" /\ PanesReturn
    /\ panes' = [panes EXCEPT ![p].life = "live", ![p].status = s]
    /\ UNCHANGED <<poll, chan, loopVars>>

AgentPrints(p) ==
    /\ panes[p].life = "live"
    /\ panes[p].revision < MaxRevision
    /\ panes' = [panes EXCEPT ![p].revision = @ + 1]
    /\ UNCHANGED <<poll, chan, loopVars>>

AgentTurns(p, s) ==
    /\ panes[p].life = "live"
    /\ panes[p].status # s
    /\ panes' = [panes EXCEPT ![p].status = s]
    /\ UNCHANGED <<poll, chan, loopVars>>

AgentLeaves(p) ==
    /\ panes[p].life = "live"
    /\ panes' = [panes EXCEPT ![p].life = "gone"]
    /\ UNCHANGED <<poll, chan, loopVars>>

Herdr ==
    \E p \in Pane :
       \/ AgentPrints(p)
       \/ AgentLeaves(p)
       \/ \E s \in ReportedStatus : AgentStarts(p, s) \/ AgentTurns(p, s)

-----------------------------------------------------------------------------
(* The poller: poll_snapshots. It holds one update until the channel has   *)
(* room, and asks again only then.                                         *)

PollAnswered ==
    /\ poll = None
    /\ poll' = [kind |-> "Snapshot", agents |-> Reported]
    /\ UNCHANGED <<panes, chan, loopVars>>

(* A transport failure, or herdr answering oddly: the update changes what  *)
(* the header says and nothing that is modelled here.                      *)
PollFailed ==
    /\ poll = None
    /\ poll' = [kind |-> "Status"]
    /\ UNCHANGED <<panes, chan, loopVars>>

PollSend ==
    /\ poll # None
    /\ Len(chan) < ChanCap
    /\ chan' = Append(chan, poll)
    /\ poll' = None
    /\ UNCHANGED <<panes, loopVars>>

Poller == PollAnswered \/ PollFailed \/ PollSend

-----------------------------------------------------------------------------
(* A worker: summarize_agent. herdr answers the read at some moment after  *)
(* the dispatch, so the text may be newer than the revision of the job.    *)

Becomes(w, t) == worker' = [worker EXCEPT ![w] = t]

ReadText(w) ==
    /\ worker[w].phase = "reading"
    /\ panes[worker[w].pane].life = "live"
    /\ Becomes(w, [worker[w] EXCEPT !.phase  = "calling",
                                    !.result = panes[worker[w].pane].revision])
    /\ UNCHANGED <<panes, poll, chan, snapshot, slots>>

ReadNothing(w) ==
    /\ worker[w].phase = "reading"
    /\ panes[worker[w].pane].life = "live"
    /\ worker[w].pane \in BlankPane
    /\ Becomes(w, [worker[w] EXCEPT !.phase = "sending", !.result = Empty])
    /\ UNCHANGED <<panes, poll, chan, snapshot, slots>>

(* herdr refused, vanished or did not answer in time. *)
ReadFails(w) ==
    /\ worker[w].phase = "reading"
    /\ Becomes(w, [worker[w] EXCEPT !.phase = "sending", !.result = Failed])
    /\ UNCHANGED <<panes, poll, chan, snapshot, slots>>

CallAnswered(w) ==
    /\ worker[w].phase = "calling"
    /\ Becomes(w, [worker[w] EXCEPT !.phase = "sending"])
    /\ UNCHANGED <<panes, poll, chan, snapshot, slots>>

CallFails(w) ==
    /\ worker[w].phase = "calling"
    /\ Becomes(w, [worker[w] EXCEPT !.phase = "sending", !.result = Failed])
    /\ UNCHANGED <<panes, poll, chan, snapshot, slots>>

(* The update a worker queues names the revision of its job, not of its read. *)
SummaryOf(t) ==
    [kind |-> "Summary", pane |-> t.pane, revision |-> t.revision, result |-> t.result]

WorkerSend(w) ==
    /\ worker[w].phase = "sending"
    /\ Len(chan) < ChanCap
    /\ chan' = Append(chan, SummaryOf(worker[w]))
    /\ Becomes(w, DoneTask)
    /\ UNCHANGED <<panes, poll, snapshot, slots>>

Reads(w) == ReadText(w) \/ ReadNothing(w) \/ ReadFails(w)
Calls(w) == CallAnswered(w) \/ CallFails(w)

-----------------------------------------------------------------------------
(* The planning pass, which ends every turn of the loop: plan_summaries    *)
(* over the snapshot, slots and tasks the branch has left, and one task    *)
(* spawned per job.                                                        *)

SlotOf(sl, p) == IF p \in DOMAIN sl THEN sl[p] ELSE DefaultSlot

(* Mutated form: an agent with a call in flight is skipped unobserved. *)
ObservedIfFree(snap, sl) ==
    [p \in DOMAIN sl \cup DOMAIN snap |->
        IF p \in DOMAIN snap /\ ~SlotOf(sl, p).state.inFlight
        THEN [SlotOf(sl, p) EXCEPT !.state = ObserveStatus(@, snap[p].status)]
        ELSE SlotOf(sl, p)]

(* Every agent of the snapshot is observed, the skipped ones too. *)
Observed(snap, sl) ==
    [p \in DOMAIN sl \cup DOMAIN snap |->
        IF p \in DOMAIN snap
        THEN [SlotOf(sl, p) EXCEPT !.state = ObserveStatus(@, snap[p].status)]
        ELSE sl[p]]

Wanting(snap, seen) == {p \in DOMAIN snap : Summarize(snap[p].revision, seen[p].state)}

Idle(tasks) == {w \in Worker : tasks[w].phase = "idle"}

(* Mutated form: a task counts only until it has sent its result. *)
CapacityOfActive(tasks) ==
    LET active == Cardinality({w \in Worker : Active(tasks[w])})
    IN IF active < MaxSummaryTasks THEN MaxSummaryTasks - active ELSE 0

(* Tasks are counted until they are reaped. *)
Capacity(tasks) ==
    LET running == Cardinality(Worker \ Idle(tasks))
    IN IF running < MaxSummaryTasks THEN MaxSummaryTasks - running ELSE 0

(* The jobs of a pass: as many of the wanting agents as there is capacity  *)
(* for, each with a task of its own. Agents are taken in the order of the  *)
(* list: none is passed over for one of a higher rank. Between agents of   *)
(* one rank any order may be that of the list, and it may change.          *)
Hires(want, tasks) ==
    LET staffs == {S \in SUBSET Idle(tasks) :
                     Cardinality(S) = Lesser(Capacity(tasks), Cardinality(want))}
    IN {hire \in UNION {Injection(S, want) : S \in staffs} :
          \A p \in Range(hire), q \in want \ Range(hire) : Rank[p] <= Rank[q]}

(* The one-shot triggers are consumed when work starts, not before. *)
Dispatched(slot) ==
    [slot EXCEPT !.state = [@ EXCEPT !.inFlight      = TRUE,
                                     !.forced        = FALSE,
                                     !.pendingBypass = FALSE]]

Plan(snap, sl, tasks) ==
    LET seen == Observed(snap, sl)
    IN \E hire \in Hires(Wanting(snap, seen), tasks) :
          LET hired == Range(hire)
          IN /\ snapshot' = snap
             /\ slots' = [p \in DOMAIN seen |->
                            IF p \in hired THEN Dispatched(seen[p]) ELSE seen[p]]
             /\ worker' = [w \in Worker |->
                             IF w \in DOMAIN hire
                             THEN [phase |-> "reading", pane |-> hire[w],
                                   revision |-> snap[hire[w]].revision, result |-> None]
                             ELSE tasks[w]]

-----------------------------------------------------------------------------
(* The branches of select!. *)

(* What a result does to a slot. Mutated forms: a failure leaves in_flight *)
(* set; any result clears a refresh asked for meanwhile.                   *)
WithResultStuck(slot, revision, result) ==
    IF result = Failed
    THEN [slot EXCEPT !.state = [@ EXCEPT !.fromRevision = revision, !.failures = 1, !.retryIn = 1]]
    ELSE [slot EXCEPT !.summary = result,
                      !.state = [@ EXCEPT !.inFlight = FALSE, !.fromRevision = revision,
                                          !.generatedAge = 0]]
WithResultUnforced(slot, revision, result) ==
    [slot EXCEPT !.state = [@ EXCEPT !.inFlight = FALSE, !.fromRevision = revision,
                                     !.forced = FALSE]]

WithResult(slot, revision, result) ==
    LET answered == [slot.state EXCEPT !.inFlight = FALSE, !.fromRevision = revision]
        settled  == [answered EXCEPT !.failures = 0, !.retryIn = None]
        failures == Lesser(slot.state.failures + 1, MaxFailures)
    IN CASE result = Empty  -> [slot EXCEPT !.state = settled]
         [] result = Failed -> [slot EXCEPT !.state = [answered EXCEPT
                                                         !.failures = failures,
                                                         !.retryIn  = Backoff(failures)]]
         [] OTHER -> [state |-> [settled EXCEPT !.generatedAge = 0], summary |-> result]

(* Mutated form: entry().or_default() on a late result. *)
ApplySummaryAnyway(sl, u) ==
    [p \in DOMAIN sl \cup {u.pane} |->
        IF p = u.pane THEN WithResult(SlotOf(sl, p), u.revision, u.result) ELSE sl[p]]

(* apply_update on a summary: a slot that is gone is not made again. *)
ApplySummary(sl, u) ==
    IF u.pane \in DOMAIN sl
    THEN [sl EXCEPT ![u.pane] = WithResult(@, u.revision, u.result)]
    ELSE sl

(* apply_snapshot: slots of agents the snapshot does not list are dropped. *)
Pruned(sl, snap) == Restrict(sl, DOMAIN sl \cap DOMAIN snap)

Receive ==
    /\ chan # <<>>
    /\ LET u == Head(chan)
       IN CASE u.kind = "Snapshot" -> Plan(u.agents, Pruned(slots, u.agents), worker)
            [] u.kind = "Summary"  -> Plan(snapshot, ApplySummary(slots, u), worker)
            [] OTHER               -> Plan(snapshot, slots, worker)
    /\ chan' = Tail(chan)
    /\ UNCHANGED <<panes, poll>>

(* Keys reach agents of the snapshot: the selected one, or all of them. *)
Forced(sl, P) ==
    [p \in DOMAIN sl \cup P |->
        IF p \in P THEN [SlotOf(sl, p) EXCEPT !.state = [@ EXCEPT !.forced = TRUE]] ELSE sl[p]]

ForceOne(p) ==
    /\ p \in DOMAIN snapshot
    /\ Plan(snapshot, Forced(slots, {p}), worker)
    /\ UNCHANGED <<panes, poll, chan>>

ForceAll ==
    /\ Plan(snapshot, Forced(slots, DOMAIN snapshot), worker)
    /\ UNCHANGED <<panes, poll, chan>>

(* The ticker, and every key or mouse event that touches none of this. *)
Tick ==
    /\ Plan(snapshot, slots, worker)
    /\ UNCHANGED <<panes, poll, chan>>

Reap(w) ==
    /\ worker[w].phase = "done"
    /\ Plan(snapshot, slots, [worker EXCEPT ![w] = IdleTask])
    /\ UNCHANGED <<panes, poll, chan>>

Loop ==
    \/ Receive
    \/ ForceAll
    \/ Tick
    \/ \E p \in Pane : ForceOne(p)
    \/ \E w \in Worker : Reap(w)

(* A unit of time passes. *)
Elapse ==
    /\ slots' = [p \in DOMAIN slots |-> [slots[p] EXCEPT !.state = Age(@)]]
    /\ UNCHANGED <<panes, poll, chan, worker, snapshot>>

-----------------------------------------------------------------------------
(* run applies the snapshot main took before it, and starts the poller. *)
Init ==
    /\ panes \in [Pane -> {[life |-> l, status |-> s, revision |-> 0] :
                             l \in {"unborn", "live"}, s \in ReportedStatus}]
    /\ snapshot = Reported
    /\ slots = [p \in {} |-> DefaultSlot]
    /\ worker = [w \in Worker |-> IdleTask]
    /\ chan = <<>>
    /\ poll = None

Work == \E w \in Worker : Reads(w) \/ Calls(w) \/ WorkerSend(w)

Next == Herdr \/ Poller \/ Work \/ Loop \/ Elapse

Spec == Init /\ [][Next]_vars

(* Every call to herdr and to the provider has a timeout, so reads and     *)
(* calls end; select! picks among the ready branches at random, so none    *)
(* that stays ready is passed over for ever; the channel serves its        *)
(* waiting senders in order; time passes. That herdr answers a snapshot    *)
(* again and again is assumed of herdr: the poller asks for ever.          *)
Fairness ==
    /\ SF_vars(PollAnswered)
    /\ SF_vars(PollSend)
    /\ WF_vars(Receive)
    /\ WF_vars(Tick)
    /\ WF_vars(Elapse)
    /\ \A w \in Worker : /\ WF_vars(Reads(w))
                         /\ WF_vars(Calls(w))
                         /\ SF_vars(WorkerSend(w))
                         /\ WF_vars(Reap(w))

FairSpec == Spec /\ Fairness

-----------------------------------------------------------------------------
(* Properties. *)

(* A call for p has been made whose result the loop has not taken yet: a   *)
(* task is at work on it, or its update is in the channel.                 *)
Working(p) == {w \in Worker : Active(worker[w]) /\ worker[w].pane = p}
Queued(p)  == {i \in DOMAIN chan : chan[i].kind = "Summary" /\ chan[i].pane = p}
Outstanding(p) == Working(p) # {} \/ Queued(p) # {}

(* Slots belong to agents of the last snapshot: a worker that outlives its *)
(* agent does not bring it back (apply_update and apply_snapshot).         *)
NoResurrection == DOMAIN slots \subseteq DOMAIN snapshot

(* "A call is outstanding; never start a second": at most one call for a   *)
(* pane is anywhere between its dispatch and its result being applied.     *)
OneCallPerPane == \A p \in Pane : Cardinality(Working(p)) + Cardinality(Queued(p)) <= 1

(* in_flight is the truth: were it ever left set with no call behind it,   *)
(* the agent would never be summarised again.                              *)
InFlightIsOutstanding ==
    \A p \in DOMAIN slots : slots[p].state.inFlight <=> Outstanding(p)

(* MAX_SUMMARY_TASKS bounds the JoinSet, unreaped tasks included.          *)
TaskBound == Cardinality(Worker \ Idle(worker)) <= MaxSummaryTasks

(* A call for p starts in this step. *)
Started(p) ==
    \E w \in Worker : /\ ~Active(worker[w])
                      /\ worker'[w].phase = "reading"
                      /\ worker'[w].pane = p

(* An urgent edge between two snapshots the loop applied is latched or     *)
(* acted on at once, whatever else the agent is waiting for.               *)
UrgentEdgeSeen ==
    [][\A p \in DOMAIN slots \cap DOMAIN snapshot' :
          p \in DOMAIN snapshot /\ IsBypass(snapshot'[p].status, snapshot[p].status)
          => Started(p) \/ slots'[p].state.pendingBypass]_vars

(* Once an agent stops printing, a call for its last output is made.       *)
LatestOutputTried ==
    \A p \in Pane :
       panes[p].life = "live"
         ~> \/ panes[p].life = "gone"
            \/ p \in DOMAIN slots /\ slots[p].state.fromRevision = panes[p].revision

(* A refresh the user asked for is started, unless the agent goes away.    *)
RefreshHonoured ==
    \A p \in Pane :
       (p \in DOMAIN slots /\ slots[p].state.forced)
         ~> (p \in DOMAIN slots => ~slots[p].state.forced)

(* A failed summary is retried, whatever the revision and cooldown gates   *)
(* would say.                                                              *)
FailureRetried ==
    \A p \in Pane :
       (p \in DOMAIN slots /\ slots[p].state.failures > 0)
         ~> (p \in DOMAIN slots => slots[p].state.inFlight \/ slots[p].state.failures = 0)

-----------------------------------------------------------------------------
(* The ledger the loop keeps for an agent. *)

(* The output a call is under way for. *)
CallFor(p) ==
    LET called == {worker[w].revision : w \in Working(p)}
                    \cup {chan[i].revision : i \in Queued(p)}
    IN IF called = {} THEN None ELSE CHOOSE r \in called : TRUE

EntryOf(p) ==
    IF p \notin DOMAIN slots THEN None
    ELSE LET st == slots[p].state
         IN [due     |-> (IF st.forced THEN {"refresh"} ELSE {})
                           \cup (IF st.pendingBypass THEN {"urgent"} ELSE {}),
             call    |-> CallFor(p),
             covered |-> st.fromRevision,
             failed  |-> st.failures > 0,
             shown   |-> slots[p].summary]

Ledger ==
    INSTANCE SummaryLedger
       WITH Agent <- Pane, BlankAgent <- BlankPane, ledger <- [p \in Pane |-> EntryOf(p)]

ASSUME UnlistedAssumption == Ledger!Unlisted \notin Ledger!Entry

(* The loop, with its poller, channel, tasks and clocks, keeps the promises *)
(* of SummaryLedger to every agent.                                        *)
PromisesKept == Ledger!Spec
=============================================================================
