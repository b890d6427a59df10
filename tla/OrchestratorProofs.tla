------------------------ MODULE OrchestratorProofs -------------------------
(***************************************************************************)
(* What is proved of Orchestrator for every set of panes and tasks, every  *)
(* bound and every policy constant, whether or not herdr uses a pane id    *)
(* again: its types, what a turn of the loop may do, what slots and the    *)
(* JoinSet are bounded by, and that no urgent edge is lost. What rests on  *)
(* pane ids being used once is in LedgerProofs.                            *)
(***************************************************************************)
EXTENDS Orchestrator, FiniteSetTheorems, SequenceTheorems, TLAPS

-----------------------------------------------------------------------------
(* The functions of SummaryPolicy, and the backoff schedule that the       *)
(* code's constants give.                                                  *)

LEMMA LesserType ==
    ASSUME NEW a \in Nat, NEW b \in Nat
    PROVE  /\ Lesser(a, b) \in Nat
           /\ Lesser(a, b) <= a /\ Lesser(a, b) <= b
BY DEF Lesser

LEMMA PowersType == \A e \in 1..11 : PowersOf3[e] \in Nat \ {0}
<1>1. \A e \in 1..11 : \/ e = 1 \/ e = 2 \/ e = 3 \/ e = 4 \/ e = 5 \/ e = 6
                       \/ e = 7 \/ e = 8 \/ e = 9 \/ e = 10 \/ e = 11
  OBVIOUS
<1> QED
  BY <1>1 DEF PowersOf3

(* A wait is never negative and never longer than the ceiling. *)
LEMMA BackoffType == \A n \in Nat : Backoff(n) \in 0..BackoffCap
<1> SUFFICES ASSUME NEW n \in Nat, n # 0
             PROVE  Lesser(BackoffBase * PowersOf3[Lesser(n, 11)], BackoffCap) \in 0..BackoffCap
  BY PolicyAssumption DEF Backoff
<1>1. Lesser(n, 11) \in 1..11
  BY DEF Lesser
<1>2. PowersOf3[Lesser(n, 11)] \in Nat
  BY <1>1, PowersType
<1>3. BackoffBase * PowersOf3[Lesser(n, 11)] \in Nat
  BY <1>2, PolicyAssumption
<1> QED
  BY <1>3, PolicyAssumption DEF Lesser

(* "5s, 15s, 45s, 135s, then capped at 300s" (policy.rs:54), for every     *)
(* number of failures.                                                     *)
THEOREM BackoffSchedule ==
    ASSUME BackoffBase = 5, BackoffCap = 300
    PROVE  /\ Backoff(1) = 5 /\ Backoff(2) = 15 /\ Backoff(3) = 45 /\ Backoff(4) = 135
           /\ \A n \in Nat : n >= 5 => Backoff(n) = 300
<1>1. /\ Backoff(1) = 5 /\ Backoff(2) = 15 /\ Backoff(3) = 45 /\ Backoff(4) = 135
  BY DEF Backoff, Lesser, PowersOf3
<1>2. ASSUME NEW n \in Nat, n >= 5 PROVE Backoff(n) = 300
  <2>1. \/ Lesser(n, 11) = 5 \/ Lesser(n, 11) = 6 \/ Lesser(n, 11) = 7 \/ Lesser(n, 11) = 8
        \/ Lesser(n, 11) = 9 \/ Lesser(n, 11) = 10 \/ Lesser(n, 11) = 11
    BY <1>2 DEF Lesser
  <2>2. PowersOf3[Lesser(n, 11)] \in Nat /\ PowersOf3[Lesser(n, 11)] >= 81
    BY <2>1 DEF PowersOf3
  <2> QED
    BY <1>2, <2>2 DEF Backoff, Lesser
<1> QED
  BY <1>1, <1>2

(* The policy's record keeps its type when a status is observed and when   *)
(* time passes.                                                            *)
LEMMA ObserveStatusType ==
    ASSUME NEW st \in SummaryState, NEW new \in AgentStatus
    PROVE  ObserveStatus(st, new) \in SummaryState
BY DEF ObserveStatus, SummaryState, IsBypass

LEMMA AgeType ==
    ASSUME NEW st \in SummaryState
    PROVE  Age(st) \in SummaryState
<1>1. (IF st.generatedAge \in {None, Cooldown} THEN st.generatedAge ELSE st.generatedAge + 1)
        \in 0..Cooldown \cup {None}
  BY PolicyAssumption DEF SummaryState
<1>2. (IF st.retryIn \in {None, 0} THEN st.retryIn ELSE st.retryIn - 1)
        \in 0..BackoffCap \cup {None}
  BY PolicyAssumption DEF SummaryState
<1> QED
  BY <1>1, <1>2 DEF Age, SummaryState

LEMMA DefaultStateType == DefaultState \in SummaryState
BY PolicyAssumption DEF DefaultState, SummaryState

-----------------------------------------------------------------------------
(* Channels. *)

(* The messages behind the first. *)
LEMMA TailFacts ==
    ASSUME NEW S, NEW c \in Seq(S), c # <<>>
    PROVE  /\ Len(c) \in Nat /\ Len(c) >= 1
           /\ Len(Tail(c)) = Len(c) - 1
           /\ Head(c) = c[1]
           /\ \A i \in 1..Len(Tail(c)) : i + 1 \in 1..Len(c) /\ Tail(c)[i] = c[i + 1]
BY HeadTailProperties, LenProperties, EmptySeq

LEMMA AppendFacts ==
    ASSUME NEW S, NEW c \in Seq(S), NEW m \in S
    PROVE  /\ Len(c) \in Nat
           /\ Len(Append(c, m)) = Len(c) + 1
           /\ \A i \in 1..Len(c) : Append(c, m)[i] = c[i]
           /\ Append(c, m)[Len(c) + 1] = m
BY AppendProperties, LenProperties

-----------------------------------------------------------------------------
(* Types of the functions the actions are built from. *)

Slots == UNION {[D -> Slot] : D \in SUBSET Pane}

LEMMA SnapshotsType ==
    \A s : s \in Snapshots <=> DOMAIN s \subseteq Pane /\ s \in [DOMAIN s -> Agent]
BY DEF Snapshots

LEMMA SlotsType ==
    \A sl : sl \in Slots <=> DOMAIN sl \subseteq Pane /\ sl \in [DOMAIN sl -> Slot]
BY DEF Slots

LEMMA SlotOfType ==
    ASSUME NEW sl \in Slots, NEW p \in Pane
    PROVE  SlotOf(sl, p) \in Slot
BY DefaultStateType, SlotsType DEF SlotOf, DefaultSlot, Slot

LEMMA ObservedType ==
    ASSUME NEW snap \in Snapshots, NEW sl \in Slots
    PROVE  /\ Observed(snap, sl) \in Slots
           /\ DOMAIN Observed(snap, sl) = DOMAIN sl \cup DOMAIN snap
<1> DEFINE D == DOMAIN sl \cup DOMAIN snap
<1>1. D \subseteq Pane
  BY SnapshotsType, SlotsType
<1>2. ASSUME NEW p \in D
      PROVE  (IF p \in DOMAIN snap
              THEN [SlotOf(sl, p) EXCEPT !.state = ObserveStatus(@, snap[p].status)]
              ELSE sl[p]) \in Slot
  <2>1. CASE p \in DOMAIN snap
    <3>1. SlotOf(sl, p) \in Slot /\ snap[p].status \in AgentStatus
      BY <2>1, <1>1, SlotOfType, SnapshotsType DEF Agent
    <3>2. ObserveStatus(SlotOf(sl, p).state, snap[p].status) \in SummaryState
      BY <3>1, ObserveStatusType DEF Slot
    <3> QED
      BY <2>1, <3>1, <3>2 DEF Slot
  <2>2. CASE p \notin DOMAIN snap
    BY <2>2, SlotsType
  <2> QED
    BY <2>1, <2>2
<1> QED
  BY <1>1, <1>2, SlotsType DEF Observed

LEMMA DispatchedType ==
    ASSUME NEW slot \in Slot
    PROVE  Dispatched(slot) \in Slot
BY DEF Dispatched, Slot, SummaryState

LEMMA WithResultType ==
    ASSUME NEW slot \in Slot, NEW revision \in Revision, NEW result \in Result
    PROVE  WithResult(slot, revision, result) \in Slot
<1> DEFINE answered == [slot.state EXCEPT !.inFlight = FALSE, !.fromRevision = revision]
           settled  == [answered EXCEPT !.failures = 0, !.retryIn = None]
           failures == Lesser(slot.state.failures + 1, MaxFailures)
<1>1. slot.state \in SummaryState /\ revision \in Nat
  BY OrchestratorAssumption DEF Slot, Revision
<1>0. 0 \in 0..MaxFailures /\ 0 \in 0..Cooldown
  BY PolicyAssumption
<1>2. answered \in SummaryState
  BY <1>1 DEF SummaryState
<1>3. settled \in SummaryState
  BY <1>2, <1>0 DEF SummaryState
<1>4. failures \in 0..MaxFailures /\ Backoff(failures) \in 0..BackoffCap
  <2>1. failures \in 0..MaxFailures
    BY <1>1, PolicyAssumption DEF SummaryState, Lesser
  <2> QED
    BY <2>1, BackoffType
<1>5. [answered EXCEPT !.failures = failures, !.retryIn = Backoff(failures)] \in SummaryState
  BY <1>2, <1>4 DEF SummaryState
<1>6. [settled EXCEPT !.generatedAge = 0] \in SummaryState
  BY <1>3, <1>0 DEF SummaryState
<1> HIDE DEF answered, settled, failures
<1> QED
  BY <1>3, <1>5, <1>6 DEF WithResult, Slot, Result, answered, settled, failures

LEMMA ApplySummaryType ==
    ASSUME NEW sl \in Slots, NEW u \in Update, u.kind = "Summary"
    PROVE  ApplySummary(sl, u) \in Slots
<1>1. u.pane \in Pane /\ u.revision \in Revision /\ u.result \in Result
  BY DEF Update
<1>2. CASE u.pane \in DOMAIN sl
  <2>1. WithResult(sl[u.pane], u.revision, u.result) \in Slot
    BY <1>1, <1>2, SlotsType, WithResultType
  <2> QED
    BY <1>2, <2>1, SlotsType DEF ApplySummary
<1>3. CASE u.pane \notin DOMAIN sl
  BY <1>3 DEF ApplySummary
<1> QED
  BY <1>2, <1>3

LEMMA PrunedType ==
    ASSUME NEW sl \in Slots, NEW snap
    PROVE  /\ Pruned(sl, snap) \in Slots
           /\ DOMAIN Pruned(sl, snap) = DOMAIN sl \cap DOMAIN snap
BY SlotsType DEF Pruned, Restrict

LEMMA ForcedType ==
    ASSUME NEW sl \in Slots, NEW P \in SUBSET Pane
    PROVE  /\ Forced(sl, P) \in Slots
           /\ DOMAIN Forced(sl, P) = DOMAIN sl \cup P
<1>1. ASSUME NEW p \in P
      PROVE  [SlotOf(sl, p) EXCEPT !.state = [@ EXCEPT !.forced = TRUE]] \in Slot
  <2>1. SlotOf(sl, p) \in Slot
    BY SlotOfType
  <2>2. SlotOf(sl, p).state \in SummaryState
    BY <2>1 DEF Slot
  <2>3. [SlotOf(sl, p).state EXCEPT !.forced = TRUE] \in SummaryState
    BY <2>2 DEF SummaryState
  <2> QED
    BY <2>1, <2>3 DEF Slot
<1> QED
  BY <1>1, SlotsType DEF Forced

-----------------------------------------------------------------------------
(* What a planning pass may do. *)

LEMMA HiresFacts ==
    ASSUME NEW want, NEW tasks, NEW hire \in Hires(want, tasks)
    PROVE  /\ DOMAIN hire \subseteq Idle(tasks)
           /\ hire \in [DOMAIN hire -> want]
           /\ \A v, w \in DOMAIN hire : hire[v] = hire[w] => v = w
           /\ Cardinality(DOMAIN hire) = Lesser(Capacity(tasks), Cardinality(want))
<1>1. PICK H \in SUBSET Idle(tasks) :
         /\ Cardinality(H) = Lesser(Capacity(tasks), Cardinality(want))
         /\ hire \in Injection(H, want)
  BY DEF Hires
<1>2. hire \in [H -> want] /\ IsInjective(hire) /\ DOMAIN hire = H
  BY <1>1 DEF Injection
<1> QED
  BY <1>1, <1>2 DEF IsInjective

(* The task that does a job. *)
Hired(snap, p) ==
    [phase |-> "reading", pane |-> p, revision |-> snap[p].revision, result |-> None]

(* A call for an agent with record st whose output is r has its price: it  *)
(* was asked for, or the last one failed, or it tells something new.       *)
Due(r, st) ==
    \/ st.forced
    \/ st.failures > 0
    \/ st.fromRevision = None
    \/ st.fromRevision # r

(* What a pass makes of a slot: the triggers seen are kept until a call    *)
(* starts, and starting one sets in_flight.                                *)
Seen(new, old, snap, p) ==
    /\ new.summary = old.summary
    /\ new.state.fromRevision = old.state.fromRevision
    /\ new.state.failures = old.state.failures
    /\ new.state.inFlight <=> old.state.inFlight
    /\ new.state.forced <=> old.state.forced
    /\ new.state.pendingBypass <=>
         \/ old.state.pendingBypass
         \/ p \in DOMAIN snap /\ IsBypass(snap[p].status, old.state.lastStatus)
    /\ p \in DOMAIN snap => new.state.lastStatus = snap[p].status

Planned(new, old, snap, p, starts) ==
    IF starts
    THEN /\ new.summary = old.summary
         /\ new.state.fromRevision = old.state.fromRevision
         /\ new.state.failures = old.state.failures
         /\ new.state.inFlight
         /\ ~new.state.forced
         /\ ~new.state.pendingBypass
         /\ p \in DOMAIN snap => new.state.lastStatus = snap[p].status
    ELSE Seen(new, old, snap, p)

(* The outcome of a pass that spawned the tasks `hire` on the panes it maps *)
(* them to: tasks that were idle, no two for one agent, each for an agent   *)
(* of the snapshot with no call in flight and one due.                      *)
Outcome(hire, snap, sl, tasks) ==
    /\ DOMAIN hire \subseteq Idle(tasks)
    /\ hire \in [DOMAIN hire -> DOMAIN snap]
    /\ \A v, w \in DOMAIN hire : hire[v] = hire[w] => v = w
    /\ Cardinality(DOMAIN hire) <= Capacity(tasks)
    /\ \A w \in DOMAIN hire :
          /\ ~SlotOf(sl, hire[w]).state.inFlight
          /\ Due(snap[hire[w]].revision, SlotOf(sl, hire[w]).state)
    /\ snapshot' = snap
    /\ slots' \in Slots
    /\ DOMAIN slots' = DOMAIN sl \cup DOMAIN snap
    /\ \A p \in DOMAIN slots' :
          Planned(slots'[p], SlotOf(sl, p), snap, p, p \in Range(hire))
    /\ worker' = [w \in Worker |-> IF w \in DOMAIN hire THEN Hired(snap, hire[w]) ELSE tasks[w]]

LEMMA CapacityFacts ==
    ASSUME NEW tasks
    PROVE  /\ Capacity(tasks) \in Nat
           /\ Cardinality(Worker \ Idle(tasks)) \in Nat
           /\ \/ Capacity(tasks) = 0
              \/ Cardinality(Worker \ Idle(tasks)) + Capacity(tasks) = MaxSummaryTasks
<1>1. IsFiniteSet(Worker \ Idle(tasks)) /\ MaxSummaryTasks \in Nat
  BY OrchestratorAssumption, FS_Subset
<1>2. Cardinality(Worker \ Idle(tasks)) \in Nat
  BY <1>1, FS_CardinalityType
<1> QED
  BY <1>1, <1>2 DEF Capacity

LEMMA ObservedFacts ==
    ASSUME NEW snap \in Snapshots, NEW sl \in Slots, NEW p \in DOMAIN Observed(snap, sl)
    PROVE  Seen(Observed(snap, sl)[p], SlotOf(sl, p), snap, p)
<1> DEFINE old == SlotOf(sl, p)
<1>1. p \in DOMAIN sl \cup DOMAIN snap /\ p \in Pane
  BY ObservedType, SlotsType, SnapshotsType
<1>2. old \in Slot /\ old.state \in SummaryState
  BY <1>1, SlotOfType DEF Slot
<1>3. CASE p \in DOMAIN snap
  <2>1. Observed(snap, sl)[p] = [old EXCEPT !.state = ObserveStatus(@, snap[p].status)]
    BY <1>1, <1>3 DEF Observed
  <2> DEFINE new == Observed(snap, sl)[p]
  <2>2. /\ new.summary = old.summary
        /\ new.state = ObserveStatus(old.state, snap[p].status)
    BY <1>2, <2>1 DEF Slot
  <2> HIDE DEF new
  <2>3. /\ new.state.fromRevision = old.state.fromRevision
        /\ new.state.failures = old.state.failures
        /\ new.state.inFlight <=> old.state.inFlight
        /\ new.state.forced <=> old.state.forced
        /\ new.state.pendingBypass <=>
             (old.state.pendingBypass \/ IsBypass(snap[p].status, old.state.lastStatus))
        /\ new.state.lastStatus = snap[p].status
    BY <1>2, <2>2 DEF ObserveStatus, SummaryState
  <2> HIDE DEF old
  <2>4. Seen(new, old, snap, p)
    BY <1>3, <2>2, <2>3, Zenon DEF Seen
  <2> QED
    BY <2>4 DEF new, old
<1>4. CASE p \notin DOMAIN snap
  <2>1. Observed(snap, sl)[p] = old
    BY <1>1, <1>4 DEF Observed, SlotOf
  <2> QED
    BY <1>4, <2>1 DEF Seen
<1> QED
  BY <1>3, <1>4

LEMMA DispatchedFacts ==
    ASSUME NEW snap, NEW p, NEW slot \in Slot, NEW old, Seen(slot, old, snap, p)
    PROVE  Planned(Dispatched(slot), old, snap, p, TRUE)
<1>1. slot.state \in SummaryState
  BY DEF Slot
<1>2. /\ Dispatched(slot).summary = slot.summary
      /\ Dispatched(slot).state = [slot.state EXCEPT !.inFlight = TRUE, !.forced = FALSE,
                                                     !.pendingBypass = FALSE]
  BY DEF Dispatched, Slot
<1>3. LET new == [slot.state EXCEPT !.inFlight = TRUE, !.forced = FALSE, !.pendingBypass = FALSE]
      IN /\ new.fromRevision = slot.state.fromRevision
         /\ new.failures = slot.state.failures
         /\ new.lastStatus = slot.state.lastStatus
         /\ new.inFlight /\ ~new.forced /\ ~new.pendingBypass
  BY <1>1 DEF SummaryState
<1> QED
  BY <1>2, <1>3 DEF Seen, Planned

LEMMA PlanFacts ==
    ASSUME NEW snap \in Snapshots, NEW sl \in Slots, NEW tasks,
           Plan(snap, sl, tasks)
    PROVE  \E hire : Outcome(hire, snap, sl, tasks)
<1> DEFINE seen == Observed(snap, sl)
           want == Wanting(snap, seen)
<1>1. PICK hire \in Hires(want, tasks) :
         /\ snapshot' = snap
         /\ slots' = [p \in DOMAIN seen |->
                        IF p \in Range(hire) THEN Dispatched(seen[p]) ELSE seen[p]]
         /\ worker' = [w \in Worker |-> IF w \in DOMAIN hire
                                        THEN Hired(snap, hire[w]) ELSE tasks[w]]
  BY DEF Plan, Hired
<1>2. seen \in Slots /\ DOMAIN seen = DOMAIN sl \cup DOMAIN snap
  BY ObservedType
<1>3. want \subseteq DOMAIN snap /\ IsFiniteSet(want)
  <2>1. want \subseteq DOMAIN snap /\ want \subseteq Pane
    BY SnapshotsType DEF Wanting
  <2> QED
    BY <2>1, OrchestratorAssumption, FS_Subset
<1>4. /\ DOMAIN hire \subseteq Idle(tasks)
      /\ hire \in [DOMAIN hire -> want]
      /\ \A v, w \in DOMAIN hire : hire[v] = hire[w] => v = w
      /\ Cardinality(DOMAIN hire) = Lesser(Capacity(tasks), Cardinality(want))
  BY <1>1, HiresFacts
<1>5. Cardinality(DOMAIN hire) <= Capacity(tasks)
  BY <1>3, <1>4, CapacityFacts, FS_CardinalityType, LesserType
<1>6. ASSUME NEW w \in DOMAIN hire
      PROVE  /\ ~SlotOf(sl, hire[w]).state.inFlight
             /\ Due(snap[hire[w]].revision, SlotOf(sl, hire[w]).state)
  <2>1. hire[w] \in want
    BY <1>4
  <2>2. hire[w] \in DOMAIN seen /\ Summarize(snap[hire[w]].revision, seen[hire[w]].state)
    BY <1>2, <1>3, <2>1 DEF Wanting
  <2>3. Seen(seen[hire[w]], SlotOf(sl, hire[w]), snap, hire[w])
    BY <2>2, ObservedFacts
  <2> HIDE DEF seen
  <2> QED
    BY <2>2, <2>3 DEF Seen, Summarize, Due
<1>7. slots' \in Slots /\ DOMAIN slots' = DOMAIN sl \cup DOMAIN snap
  <2>1. \A p \in DOMAIN seen : seen[p] \in Slot /\ Dispatched(seen[p]) \in Slot
    BY <1>2, SlotsType, DispatchedType
  <2> QED
    BY <1>1, <1>2, <2>1, SlotsType
<1>8. ASSUME NEW p \in DOMAIN slots'
      PROVE  Planned(slots'[p], SlotOf(sl, p), snap, p, p \in Range(hire))
  <2>1. p \in DOMAIN seen /\ seen[p] \in Slot
    BY <1>2, <1>7, SlotsType
  <2>2. Seen(seen[p], SlotOf(sl, p), snap, p)
    BY <2>1, ObservedFacts
  <2> HIDE DEF seen
  <2>3. CASE p \in Range(hire)
    <3>1. slots'[p] = Dispatched(seen[p])
      BY <1>1, <2>1, <2>3
    <3>2. Planned(Dispatched(seen[p]), SlotOf(sl, p), snap, p, TRUE)
      BY <2>1, <2>2, DispatchedFacts
    <3> QED
      BY <2>3, <3>1, <3>2, Zenon DEF Planned
  <2>4. CASE p \notin Range(hire)
    BY <1>1, <2>1, <2>2, <2>4 DEF Planned
  <2> QED
    BY <2>3, <2>4
<1>9. hire \in [DOMAIN hire -> DOMAIN snap]
  BY <1>3, <1>4
<1> HIDE DEF seen, want
<1>10. Outcome(hire, snap, sl, tasks)
  BY <1>1, <1>4, <1>5, <1>6, <1>7, <1>8, <1>9 DEF Outcome
<1> QED
  BY <1>10

LEMMA PlanTypes ==
    ASSUME NEW snap \in Snapshots, NEW sl \in Slots, NEW tasks \in [Worker -> Task],
           Plan(snap, sl, tasks)
    PROVE  /\ snapshot' \in Snapshots
           /\ slots' \in Slots
           /\ worker' \in [Worker -> Task]
<1>1. PICK hire : Outcome(hire, snap, sl, tasks)
  BY PlanFacts
<1>2. ASSUME NEW w \in DOMAIN hire
      PROVE  Hired(snap, hire[w]) \in Task
  <2>1. hire[w] \in DOMAIN snap
    BY <1>1 DEF Outcome
  <2>2. hire[w] \in Pane /\ snap[hire[w]].revision \in Revision
    BY <2>1, SnapshotsType DEF Agent
  <2> QED
    BY <2>2 DEF Hired, Task
<1>3. worker' \in [Worker -> Task]
  BY <1>1, <1>2 DEF Outcome
<1> QED
  BY <1>1, <1>3 DEF Outcome

-----------------------------------------------------------------------------
(* The branches of select!, each by what it hands to the pass after it.    *)

GetsList(snap, sl, tasks) ==
    /\ chan # <<>> /\ Head(chan).kind = "Snapshot" /\ chan' = Tail(chan)
    /\ snap = Head(chan).agents
    /\ sl = Pruned(slots, snap)
    /\ tasks = worker

GetsResult(snap, sl, tasks) ==
    /\ chan # <<>> /\ Head(chan).kind = "Summary" /\ chan' = Tail(chan)
    /\ snap = snapshot
    /\ sl = ApplySummary(slots, Head(chan))
    /\ tasks = worker

GetsStatus(snap, sl, tasks) ==
    /\ chan # <<>> /\ Head(chan).kind = "Status" /\ chan' = Tail(chan)
    /\ snap = snapshot /\ sl = slots /\ tasks = worker

GetsKey(snap, sl, tasks) ==
    /\ \E P \in SUBSET DOMAIN snapshot : sl = Forced(slots, P)
    /\ snap = snapshot /\ tasks = worker /\ chan' = chan

GetsTick(snap, sl, tasks) ==
    snap = snapshot /\ sl = slots /\ tasks = worker /\ chan' = chan

GetsTask(snap, sl, tasks) ==
    /\ \E w \in Worker : /\ worker[w].phase = "done"
                         /\ tasks = [worker EXCEPT ![w] = IdleTask]
    /\ snap = snapshot /\ sl = slots /\ chan' = chan

Branch(snap, sl, tasks) ==
    \/ GetsList(snap, sl, tasks)
    \/ GetsResult(snap, sl, tasks)
    \/ GetsStatus(snap, sl, tasks)
    \/ GetsKey(snap, sl, tasks)
    \/ GetsTick(snap, sl, tasks)
    \/ GetsTask(snap, sl, tasks)

LEMMA HeadType ==
    ASSUME TypeOK, chan # <<>>
    PROVE  /\ Head(chan) \in Update
           /\ Tail(chan) \in Seq(Update) /\ Len(Tail(chan)) <= ChanCap
BY OrchestratorAssumption, HeadTailProperties, LenProperties DEF TypeOK

LEMMA LoopBranches ==
    ASSUME TypeOK, Loop
    PROVE  /\ \E snap, sl, tasks : Branch(snap, sl, tasks) /\ Plan(snap, sl, tasks)
           /\ UNCHANGED <<panes, poll>>
<1>1. CASE Receive
  <2> DEFINE u == Head(chan)
  <2>1. u.kind \in {"Snapshot", "Summary", "Status"} /\ chan # <<>> /\ chan' = Tail(chan)
    BY <1>1, HeadType DEF Receive, Update
  <2>2. CASE u.kind = "Snapshot"
    BY <1>1, <2>1, <2>2 DEF Receive, Branch, GetsList
  <2>3. CASE u.kind = "Summary"
    BY <1>1, <2>1, <2>3 DEF Receive, Branch, GetsResult
  <2>4. CASE u.kind = "Status"
    BY <1>1, <2>1, <2>4 DEF Receive, Branch, GetsStatus
  <2> QED
    BY <1>1, <2>1, <2>2, <2>3, <2>4 DEF Receive
<1>2. CASE ForceAll
  BY <1>2 DEF ForceAll, Branch, GetsKey
<1>3. CASE Tick
  BY <1>3 DEF Tick, Branch, GetsTick
<1>4. CASE \E p \in Pane : ForceOne(p)
  BY <1>4 DEF ForceOne, Branch, GetsKey
<1>5. CASE \E w \in Worker : Reap(w)
  BY <1>5 DEF Reap, Branch, GetsTask
<1> QED
  BY <1>1, <1>2, <1>3, <1>4, <1>5 DEF Loop

LEMMA BranchTypes ==
    ASSUME TypeOK, NEW snap, NEW sl, NEW tasks, Branch(snap, sl, tasks)
    PROVE  /\ snap \in Snapshots /\ sl \in Slots /\ tasks \in [Worker -> Task]
           /\ chan' \in Seq(Update) /\ Len(chan') <= ChanCap
           /\ Idle(worker) \subseteq Idle(tasks)
           /\ NoResurrection => DOMAIN sl \subseteq DOMAIN snap
           /\ \/ GetsList(snap, sl, tasks)
              \/ snap = snapshot /\ DOMAIN slots \subseteq DOMAIN sl
<1>1. /\ snapshot \in Snapshots /\ slots \in Slots /\ worker \in [Worker -> Task]
      /\ DOMAIN slots \subseteq Pane /\ DOMAIN snapshot \subseteq Pane
      /\ chan \in Seq(Update) /\ Len(chan) <= ChanCap
  BY SlotsType, SnapshotsType DEF TypeOK
<1>2. CASE GetsList(snap, sl, tasks)
  <2>1. snap \in Snapshots
    BY <1>2, HeadType DEF GetsList, Update
  <2> QED
    BY <1>1, <1>2, <2>1, HeadType, PrunedType DEF GetsList
<1>3. CASE GetsResult(snap, sl, tasks)
  <2>1. sl \in Slots /\ DOMAIN sl = DOMAIN slots
    BY <1>1, <1>3, HeadType, ApplySummaryType DEF GetsResult, ApplySummary
  <2> QED
    BY <1>1, <1>3, <2>1, HeadType DEF GetsResult, NoResurrection
<1>4. CASE GetsStatus(snap, sl, tasks)
  BY <1>1, <1>4, HeadType DEF GetsStatus, NoResurrection
<1>5. CASE GetsKey(snap, sl, tasks)
  <2>1. PICK P \in SUBSET DOMAIN snapshot : sl = Forced(slots, P)
    BY <1>5 DEF GetsKey
  <2>2. sl \in Slots /\ DOMAIN sl = DOMAIN slots \cup P
    BY <1>1, <2>1, ForcedType
  <2> QED
    BY <1>1, <1>5, <2>1, <2>2 DEF GetsKey, NoResurrection
<1>6. CASE GetsTick(snap, sl, tasks)
  BY <1>1, <1>6 DEF GetsTick, NoResurrection
<1>7. CASE GetsTask(snap, sl, tasks)
  <2>1. tasks \in [Worker -> Task] /\ Idle(worker) \subseteq Idle(tasks)
    BY <1>1, <1>7 DEF GetsTask, IdleTask, Task, Idle
  <2> QED
    BY <1>1, <1>7, <2>1 DEF GetsTask, NoResurrection
<1> QED
  BY <1>2, <1>3, <1>4, <1>5, <1>6, <1>7 DEF Branch

(* What every turn of the loop has in common. *)
LEMMA LoopTurn ==
    ASSUME TypeOK, Loop
    PROVE  /\ \E snap, sl, tasks, hire :
                 /\ snap \in Snapshots /\ sl \in Slots /\ tasks \in [Worker -> Task]
                 /\ Branch(snap, sl, tasks)
                 /\ Plan(snap, sl, tasks)
                 /\ Outcome(hire, snap, sl, tasks)
           /\ chan' \in Seq(Update) /\ Len(chan') <= ChanCap
           /\ UNCHANGED <<panes, poll>>
<1>1. PICK snap, sl, tasks : Branch(snap, sl, tasks) /\ Plan(snap, sl, tasks)
  BY LoopBranches
<1> QED
  BY <1>1, BranchTypes, LoopBranches, PlanFacts

-----------------------------------------------------------------------------
(* Type correctness. *)

LEMMA InitTypes == Init => TypeOK
<1> SUFFICES ASSUME Init PROVE TypeOK
  OBVIOUS
<1>1. panes \in [Pane -> PaneState]
  BY OrchestratorAssumption DEF Init, PaneState, Revision
<1>2. snapshot \in Snapshots
  <2>1. Live \subseteq Pane /\ Reported \in [Live -> Agent]
    BY <1>1 DEF Live, Reported, PaneState, Agent
  <2> QED
    BY <2>1 DEF Init, Snapshots
<1>3. DOMAIN slots \subseteq Pane /\ slots \in [DOMAIN slots -> Slot]
  BY DEF Init
<1>4. worker \in [Worker -> Task]
  BY DEF Init, IdleTask, Task
<1>5. chan \in Seq(Update) /\ Len(chan) <= ChanCap
  BY EmptySeq, OrchestratorAssumption DEF Init
<1> QED
  BY <1>1, <1>2, <1>3, <1>4, <1>5 DEF Init, TypeOK

LEMMA HerdrTypes == TypeOK /\ Herdr => TypeOK'
<1> SUFFICES ASSUME TypeOK, Herdr PROVE TypeOK'
  OBVIOUS
<1>1. PICK p \in Pane : \/ AgentPrints(p) \/ AgentLeaves(p)
                        \/ \E s \in ReportedStatus : AgentStarts(p, s) \/ AgentTurns(p, s)
  BY DEF Herdr
<1>2. UNCHANGED <<poll, chan, loopVars>>
  BY <1>1 DEF AgentPrints, AgentLeaves, AgentStarts, AgentTurns
<1>3. panes \in [Pane -> PaneState]
  BY DEF TypeOK
<1>4. panes' \in [Pane -> PaneState]
  <2>1. CASE AgentPrints(p)
    BY <1>3, <2>1, OrchestratorAssumption DEF AgentPrints, PaneState, Revision
  <2>2. CASE AgentLeaves(p)
    BY <1>3, <2>2 DEF AgentLeaves, PaneState
  <2>3. CASE \E s \in ReportedStatus : AgentStarts(p, s) \/ AgentTurns(p, s)
    BY <1>3, <2>3, OrchestratorAssumption DEF AgentStarts, AgentTurns, PaneState
  <2> QED
    BY <1>1, <2>1, <2>2, <2>3
<1> QED
  BY <1>2, <1>4 DEF TypeOK, loopVars

LEMMA ReportedType == TypeOK => Reported \in Snapshots
<1> SUFFICES ASSUME TypeOK PROVE Reported \in Snapshots
  OBVIOUS
<1>1. Live \subseteq Pane /\ Reported \in [Live -> Agent]
  BY DEF TypeOK, Live, Reported, PaneState, Agent
<1> QED
  BY <1>1 DEF Snapshots

LEMMA PollerTypes == TypeOK /\ Poller => TypeOK'
<1> SUFFICES ASSUME TypeOK, Poller PROVE TypeOK'
  OBVIOUS
<1>1. CASE PollAnswered
  BY <1>1, ReportedType DEF PollAnswered, TypeOK, loopVars, Update
<1>2. CASE PollFailed
  BY <1>2 DEF PollFailed, TypeOK, loopVars, Update
<1>3. CASE PollSend
  <2>1. poll \in Update /\ chan \in Seq(Update) /\ Len(chan) < ChanCap /\ ChanCap \in Nat
    BY <1>3, OrchestratorAssumption DEF PollSend, TypeOK
  <2>2. Append(chan, poll) \in Seq(Update) /\ Len(Append(chan, poll)) <= ChanCap
    BY <2>1, AppendProperties, LenProperties
  <2> QED
    BY <1>3, <2>2 DEF PollSend, TypeOK, loopVars
<1> QED
  BY <1>1, <1>2, <1>3 DEF Poller

(* A step of a task changes the JoinSet and, when it sends, the channel. *)
LEMMA WorkTypes == TypeOK /\ Work => TypeOK'
<1> SUFFICES ASSUME TypeOK, NEW w \in Worker, Reads(w) \/ Calls(w) \/ WorkerSend(w)
             PROVE  TypeOK'
  BY DEF Work
<1>1. worker \in [Worker -> Task] /\ worker[w] \in Task
  BY DEF TypeOK
<1>2. CASE ReadText(w)
  <2>1. worker[w].pane \in Pane /\ worker[w].revision \in Revision
    BY <1>1, <1>2 DEF ReadText, Task
  <2>2. panes[worker[w].pane].revision \in Result
    BY <2>1 DEF TypeOK, PaneState, Result
  <2>3. worker' \in [Worker -> Task]
    BY <1>1, <1>2, <2>1, <2>2 DEF ReadText, Becomes, Task
  <2> QED
    BY <1>2, <2>3 DEF ReadText, TypeOK
<1>3. CASE ReadNothing(w) \/ ReadFails(w)
  <2> DEFINE sent(r) == [worker[w] EXCEPT !.phase = "sending", !.result = r]
  <2>1. worker[w].pane \in Pane /\ worker[w].revision \in Revision
    BY <1>1, <1>3 DEF ReadNothing, ReadFails, Task
  <2>2. \A r \in Result : sent(r) \in Task
    BY <1>1, <2>1 DEF Task
  <2>3. worker' = [worker EXCEPT ![w] = sent(Empty)] \/ worker' = [worker EXCEPT ![w] = sent(Failed)]
    BY <1>3 DEF ReadNothing, ReadFails, Becomes
  <2>4. worker' \in [Worker -> Task]
    BY <1>1, <2>2, <2>3 DEF Result
  <2> QED
    BY <1>3, <2>4 DEF ReadNothing, ReadFails, TypeOK
<1>4. CASE Calls(w)
  <2> DEFINE sent(r) == [worker[w] EXCEPT !.phase = "sending", !.result = r]
  <2>1. worker[w].pane \in Pane /\ worker[w].revision \in Revision /\ worker[w].result \in Result
    BY <1>1, <1>4 DEF Calls, CallAnswered, CallFails, Task
  <2>2. \A r \in Result : sent(r) \in Task
    BY <1>1, <2>1 DEF Task
  <2>3. [worker[w] EXCEPT !.phase = "sending"] \in Task
    BY <1>1, <2>1 DEF Task
  <2>4. worker' \in [Worker -> Task]
    BY <1>1, <1>4, <2>2, <2>3 DEF Calls, CallAnswered, CallFails, Becomes, Result
  <2> QED
    BY <1>4, <2>4 DEF Calls, CallAnswered, CallFails, TypeOK
<1>5. CASE WorkerSend(w)
  <2>1. chan \in Seq(Update) /\ Len(chan) < ChanCap /\ ChanCap \in Nat
    BY <1>5, OrchestratorAssumption DEF WorkerSend, TypeOK
  <2>2. SummaryOf(worker[w]) \in Update
    BY <1>1, <1>5 DEF WorkerSend, SummaryOf, Task, Update
  <2>3. Append(chan, SummaryOf(worker[w])) \in Seq(Update)
        /\ Len(Append(chan, SummaryOf(worker[w]))) <= ChanCap
    BY <2>1, <2>2, AppendProperties, LenProperties
  <2>4. worker' \in [Worker -> Task]
    BY <1>1, <1>5 DEF WorkerSend, Becomes, DoneTask, Task
  <2> QED
    BY <1>5, <2>3, <2>4 DEF WorkerSend, TypeOK
<1> QED
  BY <1>2, <1>3, <1>4, <1>5 DEF Reads

LEMMA ElapseTypes == TypeOK /\ Elapse => TypeOK'
<1> SUFFICES ASSUME TypeOK, Elapse PROVE TypeOK'
  OBVIOUS
<1>1. ASSUME NEW p \in DOMAIN slots
      PROVE  [slots[p] EXCEPT !.state = Age(@)] \in Slot
  BY AgeType DEF TypeOK, Slot
<1> QED
  BY <1>1 DEF Elapse, TypeOK

(* Every variable stays in its type, whatever the panes, tasks and bounds. *)
THEOREM TypeCorrect == Spec => []TypeOK
<1>1. TypeOK /\ [Next]_vars => TypeOK'
  <2> SUFFICES ASSUME TypeOK, [Next]_vars PROVE TypeOK'
    OBVIOUS
  <2>1. CASE Loop
    <3>1. PICK snap, sl, tasks :
             /\ snap \in Snapshots /\ sl \in Slots /\ tasks \in [Worker -> Task]
             /\ Plan(snap, sl, tasks)
      BY <2>1, LoopTurn
    <3>3. /\ snapshot' \in Snapshots /\ slots' \in Slots
          /\ worker' \in [Worker -> Task]
      BY <3>1, PlanTypes
    <3> QED
      BY <2>1, <3>3, LoopTurn, SlotsType DEF TypeOK
  <2>2. CASE UNCHANGED vars
    BY <2>2 DEF vars, TypeOK
  <2> QED
    BY <2>1, <2>2, HerdrTypes, PollerTypes, WorkTypes, ElapseTypes DEF Next
<1> QED
  BY <1>1, InitTypes, PTL DEF Spec

-----------------------------------------------------------------------------
(* A slot belongs to an agent of the last snapshot (NoResurrection): a     *)
(* pass makes slots for the agents of the snapshot it plans over, and no   *)
(* branch leaves it one for another.                                       *)
THEOREM SlotsOfTheLiving == Spec => []NoResurrection
<1>1. Init => NoResurrection
  BY DEF Init, NoResurrection
<1>2. TypeOK /\ NoResurrection /\ [Next]_vars => NoResurrection'
  <2> SUFFICES ASSUME TypeOK, NoResurrection, [Next]_vars PROVE NoResurrection'
    OBVIOUS
  <2>1. CASE Loop
    <3>1. PICK snap, sl, tasks, hire : Branch(snap, sl, tasks) /\ Outcome(hire, snap, sl, tasks)
      BY <2>1, LoopTurn
    <3>2. DOMAIN sl \subseteq DOMAIN snap
      BY <3>1, BranchTypes
    <3> QED
      BY <3>1, <3>2 DEF Outcome, NoResurrection
  <2>2. CASE Herdr
    BY <2>2 DEF Herdr, AgentPrints, AgentLeaves, AgentStarts, AgentTurns, loopVars, NoResurrection
  <2>3. CASE Poller
    BY <2>3 DEF Poller, PollAnswered, PollFailed, PollSend, loopVars, NoResurrection
  <2>4. CASE Work
    BY <2>4 DEF Work, Reads, Calls, ReadText, ReadNothing, ReadFails, CallAnswered, CallFails,
                WorkerSend, NoResurrection
  <2>5. CASE Elapse
    BY <2>5 DEF Elapse, NoResurrection
  <2>6. CASE UNCHANGED vars
    BY <2>6 DEF vars, NoResurrection
  <2> QED
    BY <2>1, <2>2, <2>3, <2>4, <2>5, <2>6 DEF Next
<1> QED
  BY <1>1, <1>2, TypeCorrect, PTL DEF Spec

-----------------------------------------------------------------------------
(* What a step of a task does. *)

LEMMA WorkFacts ==
    ASSUME TypeOK, NEW w \in Worker, Reads(w) \/ Calls(w) \/ WorkerSend(w)
    PROVE  /\ Active(worker[w])
           /\ \E t : /\ worker' = [worker EXCEPT ![w] = t]
                     /\ \/ /\ Active(t)
                           /\ t.pane = worker[w].pane /\ t.revision = worker[w].revision
                           /\ \/ t.result = worker[w].result
                              \/ t.result = Failed
                              \/ t.result = Empty /\ worker[w].pane \in BlankPane
                              \/ t.result = panes[worker[w].pane].revision
                           /\ chan' = chan
                        \/ /\ t = DoneTask
                           /\ SummaryOf(worker[w]) \in Update
                           /\ chan' = Append(chan, SummaryOf(worker[w]))
           /\ UNCHANGED <<panes, poll, snapshot, slots>>
<1>1. worker[w] \in Task
  BY DEF TypeOK
<1>2. CASE Reads(w)
  <2> DEFINE calling == [worker[w] EXCEPT !.phase  = "calling",
                                          !.result = panes[worker[w].pane].revision]
             empty  == [worker[w] EXCEPT !.phase = "sending", !.result = Empty]
             failed == [worker[w] EXCEPT !.phase = "sending", !.result = Failed]
  <2>1. /\ \A t \in {calling, empty, failed} :
              Active(t) /\ t.pane = worker[w].pane /\ t.revision = worker[w].revision
        /\ calling.result = panes[worker[w].pane].revision
        /\ empty.result = Empty
        /\ failed.result = Failed
    BY <1>1 DEF Active, Task
  <2>2. \/ worker' = [worker EXCEPT ![w] = calling]
        \/ worker' = [worker EXCEPT ![w] = empty] /\ worker[w].pane \in BlankPane
        \/ worker' = [worker EXCEPT ![w] = failed]
    BY <1>2 DEF Reads, ReadText, ReadNothing, ReadFails, Becomes
  <2> HIDE DEF calling, empty, failed
  <2>3. UNCHANGED <<panes, poll, chan, snapshot, slots>> /\ Active(worker[w])
    BY <1>2 DEF Reads, ReadText, ReadNothing, ReadFails, Active
  <2> QED
    BY <2>1, <2>2, <2>3
<1>3. CASE Calls(w)
  <2> DEFINE answered == [worker[w] EXCEPT !.phase = "sending"]
             failed == [worker[w] EXCEPT !.phase = "sending", !.result = Failed]
  <2>1. /\ \A t \in {answered, failed} :
              Active(t) /\ t.pane = worker[w].pane /\ t.revision = worker[w].revision
        /\ answered.result = worker[w].result
        /\ failed.result = Failed
    BY <1>1 DEF Active, Task
  <2>2. \E t \in {answered, failed} : worker' = [worker EXCEPT ![w] = t]
    BY <1>3 DEF Calls, CallAnswered, CallFails, Becomes
  <2> HIDE DEF answered, failed
  <2>3. UNCHANGED <<panes, poll, chan, snapshot, slots>> /\ Active(worker[w])
    BY <1>3 DEF Calls, CallAnswered, CallFails, Active
  <2> QED
    BY <2>1, <2>2, <2>3
<1>4. CASE WorkerSend(w)
  <2>1. SummaryOf(worker[w]) \in Update
    BY <1>1, <1>4 DEF WorkerSend, SummaryOf, Task, Update
  <2> QED
    BY <1>4, <2>1 DEF WorkerSend, Becomes, Active
<1> QED
  BY <1>2, <1>3, <1>4

(* No task is hired or reaped outside the loop. *)
LEMMA IdleInWork == TypeOK /\ Work => Idle(worker') = Idle(worker)
<1> SUFFICES ASSUME TypeOK, NEW w \in Worker, Reads(w) \/ Calls(w) \/ WorkerSend(w)
             PROVE  Idle(worker') = Idle(worker)
  BY DEF Work
<1>1. PICK t : worker' = [worker EXCEPT ![w] = t] /\ (Active(t) \/ t = DoneTask)
  BY WorkFacts
<1>2. t.phase # "idle" /\ worker[w].phase # "idle"
  BY <1>1, WorkFacts DEF Active, DoneTask
<1>3. worker \in [Worker -> Task]
  BY DEF TypeOK
<1> QED
  BY <1>1, <1>2, <1>3 DEF Idle

(* A pass hires within its capacity, and Capacity counts the unreaped.     *)
LEMMA TaskBoundInLoop == TypeOK /\ TaskBound /\ Loop => TaskBound'
<1> SUFFICES ASSUME TypeOK, TaskBound, Loop PROVE TaskBound'
  OBVIOUS
<1>1. PICK snap, sl, tasks, hire : Branch(snap, sl, tasks) /\ Outcome(hire, snap, sl, tasks)
  BY LoopTurn
<1>2. Outcome(hire, snap, sl, tasks) /\ Idle(worker) \subseteq Idle(tasks)
  BY <1>1, BranchTypes
<1> DEFINE busy == Worker \ Idle(tasks)
           busier == Worker \ Idle(worker')
<1>3. busier \subseteq busy \cup DOMAIN hire
  BY <1>2 DEF Outcome, Idle
<1>4. DOMAIN hire \subseteq Worker /\ IsFiniteSet(Worker) /\ busy \subseteq Worker \ Idle(worker)
  BY <1>1, <1>2, OrchestratorAssumption DEF Outcome, Idle
<1>5. IsFiniteSet(busy) /\ IsFiniteSet(DOMAIN hire) /\ IsFiniteSet(Worker \ Idle(worker))
  BY <1>4, FS_Subset
<1>6. /\ Cardinality(busy) \in Nat /\ Cardinality(DOMAIN hire) \in Nat
      /\ Cardinality(Worker \ Idle(worker)) \in Nat /\ MaxSummaryTasks \in Nat
  BY <1>5, FS_CardinalityType, OrchestratorAssumption
<1>7. Cardinality(busy) <= MaxSummaryTasks
  <2>1. Cardinality(busy) <= Cardinality(Worker \ Idle(worker))
    BY <1>4, <1>5, FS_Subset
  <2> QED
    BY <2>1, <1>6 DEF TaskBound
<1>8. Cardinality(busy) + Cardinality(DOMAIN hire) <= MaxSummaryTasks
  <2>1. Cardinality(DOMAIN hire) <= Capacity(tasks) /\ Capacity(tasks) \in Nat
    BY <1>2, CapacityFacts DEF Outcome
  <2>2. Capacity(tasks) = 0 \/ Cardinality(busy) + Capacity(tasks) = MaxSummaryTasks
    BY CapacityFacts
  <2> QED
    BY <2>1, <2>2, <1>6, <1>7
<1>9. Cardinality(busy \cup DOMAIN hire) <= Cardinality(busy) + Cardinality(DOMAIN hire)
  <2>1. /\ IsFiniteSet(busy \cup DOMAIN hire) /\ IsFiniteSet(busy \cap DOMAIN hire)
        /\ Cardinality(busy \cup DOMAIN hire)
             = Cardinality(busy) + Cardinality(DOMAIN hire) - Cardinality(busy \cap DOMAIN hire)
    BY <1>5, FS_Union, FS_Subset
  <2>2. Cardinality(busy \cap DOMAIN hire) \in Nat
    BY <2>1, FS_CardinalityType
  <2> QED
    BY <2>1, <2>2, <1>6
<1>10. /\ Cardinality(busier) <= Cardinality(busy \cup DOMAIN hire)
       /\ Cardinality(busier) \in Nat /\ Cardinality(busy \cup DOMAIN hire) \in Nat
  <2>1. IsFiniteSet(busy \cup DOMAIN hire)
    BY <1>5, FS_Union
  <2>2. IsFiniteSet(busier) /\ Cardinality(busier) <= Cardinality(busy \cup DOMAIN hire)
    BY <1>3, <2>1, FS_Subset
  <2> QED
    BY <2>1, <2>2, FS_CardinalityType
<1> HIDE DEF busy
<1> QED
  BY <1>6, <1>8, <1>9, <1>10 DEF TaskBound

(* The JoinSet never holds more than MAX_SUMMARY_TASKS tasks, those that    *)
(* have sent their result and wait to be reaped included (TaskBound).       *)
THEOREM TasksBounded == Spec => []TaskBound
<1>1. Init => TaskBound
  <2> SUFFICES ASSUME Init PROVE TaskBound
    OBVIOUS
  <2>1. Worker \ Idle(worker) = {}
    BY DEF Init, Idle, IdleTask
  <2> QED
    BY <2>1, FS_EmptySet, OrchestratorAssumption DEF TaskBound
<1>2. TypeOK /\ TaskBound /\ [Next]_vars => TaskBound'
  <2> SUFFICES ASSUME TypeOK, TaskBound, [Next]_vars PROVE TaskBound'
    OBVIOUS
  <2>1. CASE Loop
    BY <2>1, TaskBoundInLoop
  <2>2. CASE Work
    BY <2>2, IdleInWork DEF TaskBound
  <2>3. CASE UNCHANGED worker
    BY <2>3 DEF TaskBound, Idle
  <2>4. Herdr \/ Poller \/ Elapse \/ UNCHANGED vars => UNCHANGED worker
    BY DEF Herdr, AgentPrints, AgentLeaves, AgentStarts, AgentTurns, Poller, PollAnswered,
           PollFailed, PollSend, Elapse, vars, loopVars
  <2> QED
    BY <2>1, <2>2, <2>3, <2>4 DEF Next
<1> QED
  BY <1>1, <1>2, TypeCorrect, PTL DEF Spec

-----------------------------------------------------------------------------
(* What a branch makes of a slot, before the pass. *)

(* Nothing but a refresh may have been asked for. *)
Kept(new, old) ==
    /\ new.summary = old.summary
    /\ new.state.fromRevision = old.state.fromRevision
    /\ new.state.failures = old.state.failures
    /\ new.state.pendingBypass <=> old.state.pendingBypass
    /\ new.state.lastStatus = old.state.lastStatus

(* A result has been taken. *)
Answered(new, old, u) ==
    /\ new.state.fromRevision = u.revision
    /\ new.state.forced <=> old.state.forced
    /\ new.state.pendingBypass <=> old.state.pendingBypass
    /\ new.state.lastStatus = old.state.lastStatus
    /\ \/ u.result = Failed /\ new.state.failures > 0 /\ new.summary = old.summary
       \/ u.result = Empty /\ new.state.failures = 0 /\ new.summary = old.summary
       \/ u.result \in Revision /\ new.state.failures = 0 /\ new.summary = u.result

LEMMA WithResultFacts ==
    ASSUME NEW slot \in Slot, NEW u, u.revision \in Revision, u.result \in Result
    PROVE  Answered(WithResult(slot, u.revision, u.result), slot, u)
<1> DEFINE answered == [slot.state EXCEPT !.inFlight = FALSE, !.fromRevision = u.revision]
           settled  == [answered EXCEPT !.failures = 0, !.retryIn = None]
           failures == Lesser(slot.state.failures + 1, MaxFailures)
           failed   == [answered EXCEPT !.failures = failures, !.retryIn = Backoff(failures)]
           told     == [settled EXCEPT !.generatedAge = 0]
           new      == WithResult(slot, u.revision, u.result)
<1>1. slot.state \in SummaryState
  BY DEF Slot
<1>2. /\ new.state.fromRevision = u.revision
      /\ new.state.forced <=> slot.state.forced
      /\ new.state.pendingBypass <=> slot.state.pendingBypass
      /\ new.state.lastStatus = slot.state.lastStatus
  <2>1. ASSUME NEW st \in {settled, failed, told}
        PROVE  /\ st.fromRevision = u.revision
               /\ st.forced <=> slot.state.forced
               /\ st.pendingBypass <=> slot.state.pendingBypass
               /\ st.lastStatus = slot.state.lastStatus
    BY <1>1 DEF SummaryState
  <2>2. new.state \in {settled, failed, told}
    BY DEF WithResult, Slot, Result
  <2> HIDE DEF new, settled, failed, told
  <2> QED
    BY <2>1, <2>2
<1>3. failures > 0 /\ failed.failures = failures /\ settled.failures = 0 /\ told.failures = 0
  BY <1>1, PolicyAssumption DEF Lesser, SummaryState
<1>4. \/ u.result = Failed /\ new.state = failed /\ new.summary = slot.summary
      \/ u.result = Empty /\ new.state = settled /\ new.summary = slot.summary
      \/ u.result \in Revision /\ new.state = told /\ new.summary = u.result
  <2>1. Failed # Empty
    BY OrchestratorAssumption
  <2>2. CASE u.result = Failed
    BY <2>1, <2>2 DEF WithResult, Slot
  <2>3. CASE u.result = Empty
    BY <2>1, <2>3 DEF WithResult, Slot
  <2>4. CASE u.result \notin {Empty, Failed}
    BY <2>4 DEF WithResult, Slot, Result
  <2> QED
    BY <2>2, <2>3, <2>4
<1> HIDE DEF new, failed, settled, told, failures
<1> QED
  BY <1>2, <1>3, <1>4 DEF Answered, new

LEMMA BranchSlots ==
    ASSUME TypeOK, NEW snap, NEW sl, NEW tasks, Branch(snap, sl, tasks), NEW p \in Pane,
           p \in DOMAIN slots => p \in DOMAIN sl
    PROVE  \/ /\ Kept(SlotOf(sl, p), SlotOf(slots, p))
              /\ \/ SlotOf(sl, p).state.forced <=> SlotOf(slots, p).state.forced
                 \/ SlotOf(sl, p).state.forced
              /\ ~(GetsResult(snap, sl, tasks) /\ p \in DOMAIN slots /\ Head(chan).pane = p)
           \/ /\ GetsResult(snap, sl, tasks) /\ p \in DOMAIN slots /\ Head(chan).pane = p
              /\ Answered(SlotOf(sl, p), SlotOf(slots, p), Head(chan))
<1>1. slots \in Slots /\ SlotOf(slots, p) \in Slot /\ SlotOf(slots, p).state \in SummaryState
  BY SlotsType, SlotOfType DEF TypeOK, Slot
<1>2. CASE GetsList(snap, sl, tasks)
  <2>1. SlotOf(sl, p) = SlotOf(slots, p)
    BY <1>2 DEF GetsList, Pruned, Restrict, SlotOf
  <2> QED
    BY <1>2, <2>1 DEF Kept, GetsList, GetsResult
<1>3. CASE GetsResult(snap, sl, tasks)
  <2> DEFINE u == Head(chan)
  <2>1. u.revision \in Revision /\ u.result \in Result
    BY <1>3, HeadType DEF GetsResult, Update
  <2>2. CASE p \in DOMAIN slots /\ u.pane = p
    <3>1. SlotOf(sl, p) = WithResult(SlotOf(slots, p), u.revision, u.result)
      BY <1>3, <2>2 DEF GetsResult, ApplySummary, SlotOf
    <3> QED
      BY <1>1, <1>3, <2>1, <2>2, <3>1, WithResultFacts
  <2>3. CASE ~(p \in DOMAIN slots /\ u.pane = p)
    <3>1. SlotOf(sl, p) = SlotOf(slots, p)
      BY <1>3, <2>3 DEF GetsResult, ApplySummary, SlotOf
    <3> QED
      BY <2>3, <3>1 DEF Kept
  <2> QED
    BY <2>2, <2>3
<1>4. CASE GetsStatus(snap, sl, tasks) \/ GetsTick(snap, sl, tasks) \/ GetsTask(snap, sl, tasks)
  <2>1. /\ SlotOf(sl, p) = SlotOf(slots, p)
        /\ ~(GetsResult(snap, sl, tasks) /\ p \in DOMAIN slots /\ Head(chan).pane = p)
    <3>1. sl = slots
      BY <1>4 DEF GetsStatus, GetsTick, GetsTask
    <3>2. CASE GetsStatus(snap, sl, tasks)
      BY <3>1, <3>2 DEF GetsStatus, GetsResult
    <3>3. CASE chan' = chan
      <4>1. ~GetsResult(snap, sl, tasks)
        BY <3>3, TailFacts DEF GetsResult, TypeOK
      <4> QED
        BY <3>1, <4>1
    <3> QED
      BY <1>4, <3>2, <3>3 DEF GetsTick, GetsTask
  <2> QED
    BY <2>1 DEF Kept
<1>5. CASE GetsKey(snap, sl, tasks)
  <2>1. PICK P \in SUBSET DOMAIN snapshot : sl = Forced(slots, P)
    BY <1>5 DEF GetsKey
  <2>2. ~GetsResult(snap, sl, tasks)
    BY <1>5, TailFacts DEF GetsKey, GetsResult, TypeOK
  <2>3. CASE p \in P
    <3>1. SlotOf(sl, p) = [SlotOf(slots, p) EXCEPT !.state = [@ EXCEPT !.forced = TRUE]]
      BY <2>1, <2>3 DEF Forced, SlotOf
    <3>2. /\ SlotOf(sl, p).summary = SlotOf(slots, p).summary
          /\ SlotOf(sl, p).state = [SlotOf(slots, p).state EXCEPT !.forced = TRUE]
      BY <1>1, <3>1 DEF Slot
    <3>3. Kept(SlotOf(sl, p), SlotOf(slots, p)) /\ SlotOf(sl, p).state.forced
      BY <1>1, <3>2 DEF SummaryState, Kept
    <3> QED
      BY <2>2, <3>3
  <2>4. CASE p \notin P
    <3>1. SlotOf(sl, p) = SlotOf(slots, p)
      BY <2>1, <2>4 DEF Forced, SlotOf
    <3> QED
      BY <2>2, <3>1 DEF Kept
  <2> QED
    BY <2>3, <2>4
<1> QED
  BY <1>2, <1>3, <1>4, <1>5 DEF Branch

-----------------------------------------------------------------------------
(* The status a slot remembers is the one the loop has last applied. *)
Remembered ==
    \A p \in DOMAIN slots \cap DOMAIN snapshot : slots[p].state.lastStatus = snapshot[p].status

LEMMA StatusesRemembered == Spec => []Remembered
<1>1. Init => Remembered
  BY DEF Init, Remembered
<1>2. TypeOK /\ Remembered /\ [Next]_vars => Remembered'
  <2> SUFFICES ASSUME TypeOK, Remembered, [Next]_vars PROVE Remembered'
    OBVIOUS
  <2>1. CASE Loop
    <3>1. PICK snap, sl, tasks, hire : Outcome(hire, snap, sl, tasks)
      BY <2>1, LoopTurn
    <3>2. ASSUME NEW p \in DOMAIN slots', p \in DOMAIN snap
          PROVE  slots'[p].state.lastStatus = snap[p].status
      BY <3>1, <3>2 DEF Outcome, Planned, Seen
    <3> QED
      BY <3>1, <3>2 DEF Outcome, Remembered
  <2>2. CASE Elapse
    <3>1. snapshot' = snapshot /\ DOMAIN slots' = DOMAIN slots
      BY <2>2 DEF Elapse
    <3>2. ASSUME NEW p \in DOMAIN slots
          PROVE  slots'[p].state.lastStatus = slots[p].state.lastStatus
      <4>1. slots[p] \in Slot /\ slots[p].state \in SummaryState
        BY DEF TypeOK, Slot
      <4>2. slots'[p].state = Age(slots[p].state)
        BY <2>2, <4>1 DEF Elapse, Slot
      <4> QED
        BY <4>1, <4>2 DEF Age, SummaryState
    <3> QED
      BY <3>1, <3>2 DEF Remembered
  <2>3. CASE UNCHANGED <<slots, snapshot>>
    BY <2>3 DEF Remembered
  <2>4. Herdr \/ Poller \/ UNCHANGED vars => UNCHANGED <<slots, snapshot>>
    BY DEF Herdr, AgentPrints, AgentLeaves, AgentStarts, AgentTurns, Poller, PollAnswered,
           PollFailed, PollSend, vars, loopVars
  <2>5. Work => UNCHANGED <<slots, snapshot>>
    BY WorkFacts DEF Work
  <2> QED
    BY <2>1, <2>2, <2>3, <2>4, <2>5 DEF Next
<1> QED
  BY <1>1, <1>2, TypeCorrect, PTL DEF Spec

(* Between two turns of the loop there is no edge to see. *)
LEMMA SnapshotKept ==
    ASSUME TypeOK, [Next]_vars, ~Loop
    PROVE  snapshot' = snapshot
<1>1. Work => snapshot' = snapshot
  BY WorkFacts DEF Work
<1> QED
  BY <1>1 DEF Next, Herdr, AgentPrints, AgentLeaves, AgentStarts, AgentTurns, Poller, PollAnswered,
         PollFailed, PollSend, Elapse, vars, loopVars

LEMMA EdgeInLoop ==
    ASSUME TypeOK, Remembered, Loop,
           NEW p \in DOMAIN slots \cap DOMAIN snapshot', p \in DOMAIN snapshot,
           IsBypass(snapshot'[p].status, snapshot[p].status)
    PROVE  Started(p) \/ slots'[p].state.pendingBypass
<1>1. PICK snap, sl, tasks, hire :
         /\ snap \in Snapshots /\ sl \in Slots
         /\ Branch(snap, sl, tasks) /\ Outcome(hire, snap, sl, tasks)
  BY LoopTurn
<1>2. p \in Pane /\ p \in DOMAIN snap /\ snapshot' = snap /\ slots \in Slots
  BY <1>1, SlotsType DEF TypeOK, Outcome
<1>3. p \in DOMAIN sl /\ p \in DOMAIN slots'
  <2>1. CASE GetsList(snap, sl, tasks)
    BY <1>1, <1>2, <2>1, PrunedType DEF GetsList, Outcome
  <2>2. CASE DOMAIN slots \subseteq DOMAIN sl
    BY <1>1, <2>2 DEF Outcome
  <2> QED
    BY <1>1, <2>1, <2>2, BranchTypes
<1>4. SlotOf(sl, p).state.lastStatus = snapshot[p].status
  <2>1. SlotOf(sl, p).state.lastStatus = SlotOf(slots, p).state.lastStatus
    BY <1>1, <1>2, <1>3, BranchSlots DEF Kept, Answered
  <2> QED
    BY <2>1 DEF Remembered, SlotOf
<1>5. Planned(slots'[p], SlotOf(sl, p), snap, p, p \in Range(hire))
  BY <1>1, <1>3 DEF Outcome
<1>6. CASE p \in Range(hire)
  <2>1. PICK w \in DOMAIN hire : hire[w] = p
    BY <1>6 DEF Range
  <2>2. w \in Worker /\ tasks[w].phase = "idle" /\ worker'[w] = Hired(snap, p)
    BY <1>1, <2>1 DEF Outcome, Idle
  <2>3. ~Active(worker[w])
    <3>1. CASE tasks = worker
      BY <2>2, <3>1 DEF Active
    <3>2. CASE GetsTask(snap, sl, tasks)
      BY <2>2, <3>2 DEF GetsTask, Active, TypeOK
    <3> QED
      BY <1>1, <3>1, <3>2 DEF Branch, GetsList, GetsResult, GetsStatus, GetsKey, GetsTick
  <2> QED
    BY <2>2, <2>3 DEF Started, Hired
<1>7. CASE p \notin Range(hire)
  <2>1. Seen(slots'[p], SlotOf(sl, p), snap, p)
    BY <1>5, <1>7 DEF Planned
  <2>2. IsBypass(snap[p].status, SlotOf(sl, p).state.lastStatus)
    BY <1>2, <1>4
  <2> QED
    BY <1>2, <2>1, <2>2 DEF Seen
<1> QED
  BY <1>6, <1>7

(* An urgent edge between two snapshots the loop applied is latched or     *)
(* acted on at once (ObserveStatus in plan_summaries): the status that a   *)
(* slot remembers is that of the snapshot before.                          *)
THEOREM UrgentEdgesCount == Spec => UrgentEdgeSeen
<1> DEFINE Counts == \A p \in DOMAIN slots \cap DOMAIN snapshot' :
                        p \in DOMAIN snapshot /\ IsBypass(snapshot'[p].status, snapshot[p].status)
                        => Started(p) \/ slots'[p].state.pendingBypass
<1>1. TypeOK /\ Remembered /\ [Next]_vars => [Counts]_vars
  <2> SUFFICES ASSUME TypeOK, Remembered, [Next]_vars PROVE Counts
    OBVIOUS
  <2>1. CASE Loop
    BY <2>1, EdgeInLoop
  <2>2. CASE ~Loop
    BY <2>2, SnapshotKept DEF IsBypass
  <2> QED
    BY <2>1, <2>2
<1> QED
  BY <1>1, TypeCorrect, StatusesRemembered, PTL DEF Spec, UrgentEdgeSeen
=============================================================================
