--------------------------- MODULE LedgerProofs ----------------------------
(***************************************************************************)
(* What is proved of Orchestrator where herdr does not use a pane id again *)
(* (PanesReturn = FALSE): one call at a time, in_flight true, and every    *)
(* promise of SummaryLedger kept. The argument, from the bottom up:        *)
(*   ListInv   the lists of agents on their way to the loop are a history: *)
(*             whoever left one is in none that follows, and no revision   *)
(*             runs backwards from one to the next;                        *)
(*   CallInv   a call is out for a pane just while its slot says so, one   *)
(*             at most; a call that is out for no slot is of an agent that *)
(*             every list on its way has left;                             *)
(*   RevInv    what calls and slots know of an agent's output is not ahead *)
(*             of any list on its way;                                     *)
(* and with them a turn of the loop, branch and pass, is a step of the     *)
(* ledger, and every other step leaves the ledger as it is.                *)
(***************************************************************************)
EXTENDS OrchestratorProofs

-----------------------------------------------------------------------------
(* The lists of agents on their way to the loop, oldest first: the one it   *)
(* works with, those in the channel, the one the poller holds, and the one  *)
(* herdr would give now.                                                    *)

IsView(k) ==
    \/ k = 0
    \/ k \in 1..Len(chan) /\ chan[k].kind = "Snapshot"
    \/ k = Len(chan) + 1 /\ poll # None /\ poll.kind = "Snapshot"
    \/ k = Len(chan) + 2

Moments == {k \in 0..(Len(chan) + 2) : IsView(k)}

View(k) ==
    IF k = 0 THEN snapshot
    ELSE IF k \in 1..Len(chan) THEN chan[k].agents
    ELSE IF k = Len(chan) + 1 THEN poll.agents
    ELSE Reported

(* An agent that has left the list does not come back to it. *)
NoReturn ==
    \A i, j, k \in Moments : i <= j /\ j <= k =>
       \A p \in DOMAIN View(i) : p \in DOMAIN View(k) => p \in DOMAIN View(j)

(* Whoever is listed was born, and has printed at least what the list says. *)
Born ==
    \A k \in Moments : \A p \in DOMAIN View(k) :
       /\ p \in Pane
       /\ panes[p].life # "unborn"
       /\ View(k)[p].revision <= panes[p].revision

Growing ==
    \A i, k \in Moments : i <= k =>
       \A p \in DOMAIN View(i) : p \in DOMAIN View(k) => View(i)[p].revision <= View(k)[p].revision

ListInv == NoReturn /\ Born /\ Growing

(* What every list but herdr's own shows was on its way before.            *)
Shifts(f) ==
    /\ \A k \in Moments' : f[k] \in Moments /\ View(k)' = View(f[k])
    /\ \A i, k \in Moments' : i <= k => f[i] <= f[k]

-----------------------------------------------------------------------------
(* Steps that leave the lists alone, or queue one, or take one: each list  *)
(* on its way after the step was on its way before it, in the same order.  *)

LEMMA ShiftsIfStill ==
    ASSUME TypeOK, UNCHANGED <<snapshot, chan, poll, panes>>
    PROVE  \E f : Shifts(f)
<1>1. Reported' = Reported
  BY DEF Reported, Live
<1>2. Moments' = Moments /\ \A k \in Moments : View(k)' = View(k)
  BY <1>1 DEF Moments, IsView, View
<1> DEFINE f == [k \in Moments |-> k]
<1>3. Shifts(f)
  BY <1>2 DEF Shifts
<1> QED
  BY <1>3

LEMMA ShiftsAtPoll ==
    ASSUME TypeOK, PollAnswered \/ PollFailed
    PROVE  \E f : Shifts(f)
<1>1. Len(chan) \in Nat
  BY LenProperties DEF TypeOK
<1>2. UNCHANGED <<panes, chan, snapshot>> /\ Reported' = Reported
  BY DEF PollAnswered, PollFailed, loopVars, Reported, Live
<1>3. poll'.kind = "Snapshot" => poll'.agents = Reported
  BY DEF PollAnswered, PollFailed
<1> DEFINE f == [k \in Moments' |-> IF k = Len(chan) + 1 THEN Len(chan) + 2 ELSE k]
<1>4. \A k \in Moments' : f[k] \in Moments /\ View(k)' = View(f[k])
  BY <1>1, <1>2, <1>3 DEF Moments, IsView, View
<1>5. \A i, k \in Moments' : i <= k => f[i] <= f[k]
  BY <1>1, <1>2 DEF Moments
<1> HIDE DEF f
<1>6. Shifts(f)
  BY <1>4, <1>5 DEF Shifts
<1> QED
  BY <1>6

LEMMA ShiftsAtPollSend ==
    ASSUME TypeOK, PollSend
    PROVE  \E f : Shifts(f)
<1>1. chan \in Seq(Update) /\ poll \in Update /\ poll # None
  BY DEF PollSend, TypeOK
<1>2. /\ Len(chan) \in Nat
      /\ Len(chan') = Len(chan) + 1
      /\ \A i \in 1..Len(chan) : chan'[i] = chan[i]
      /\ chan'[Len(chan) + 1] = poll
  BY <1>1, AppendFacts DEF PollSend
<1>3. UNCHANGED <<panes, snapshot>> /\ Reported' = Reported /\ poll' = None
  BY DEF PollSend, loopVars, Reported, Live
<1> DEFINE f == [k \in Moments' |-> IF k = Len(chan) + 3 THEN Len(chan) + 2 ELSE k]
<1>4. \A k \in Moments' : k \in 0..(Len(chan) + 1) \/ k = Len(chan) + 3
  BY <1>2, <1>3 DEF Moments, IsView
<1>5. \A k \in Moments' : f[k] \in Moments /\ View(k)' = View(f[k])
  BY <1>1, <1>2, <1>3, <1>4 DEF Moments, IsView, View
<1>6. \A i, k \in Moments' : i <= k => f[i] <= f[k]
  BY <1>2, <1>4
<1> HIDE DEF f
<1>7. Shifts(f)
  BY <1>5, <1>6 DEF Shifts
<1> QED
  BY <1>7

LEMMA ShiftsAtWork ==
    ASSUME TypeOK, Work
    PROVE  \E f : Shifts(f)
<1>1. PICK w \in Worker : Reads(w) \/ Calls(w) \/ WorkerSend(w)
  BY DEF Work
<1>2. UNCHANGED <<panes, poll, snapshot>>
  BY <1>1, WorkFacts
<1>3. CASE chan' = chan
  BY <1>2, <1>3, ShiftsIfStill
<1>4. CASE WorkerSend(w)
  <2> DEFINE m == SummaryOf(worker[w])
  <2>1. chan \in Seq(Update) /\ m \in Update /\ m.kind = "Summary"
    BY <1>4 DEF WorkerSend, SummaryOf, Task, Update, TypeOK
  <2>2. chan' = Append(chan, m)
    BY <1>4 DEF WorkerSend
  <2> HIDE DEF m
  <2>3. /\ Len(chan) \in Nat
        /\ Len(chan') = Len(chan) + 1
        /\ \A i \in 1..Len(chan) : chan'[i] = chan[i]
        /\ chan'[Len(chan) + 1].kind = "Summary"
    BY <2>1, <2>2, AppendFacts
  <2>4. Reported' = Reported
    BY <1>2 DEF Reported, Live
  <2> DEFINE f == [k \in Moments' |-> IF k >= Len(chan) + 2 THEN k - 1 ELSE k]
  <2>5. \A k \in Moments' : k \in 0..(Len(chan) + 3) /\ k # Len(chan) + 1
    BY <2>3 DEF Moments, IsView
  <2>6. \A k \in Moments' : f[k] \in Moments /\ View(k)' = View(f[k])
    BY <1>2, <2>3, <2>4, <2>5 DEF Moments, IsView, View
  <2>7. \A i, k \in Moments' : i <= k => f[i] <= f[k]
    BY <2>3, <2>5
  <2> HIDE DEF f
  <2>8. Shifts(f)
    BY <2>6, <2>7 DEF Shifts
  <2> QED
    BY <2>8
<1> QED
  BY <1>1, <1>3, <1>4, WorkFacts DEF Reads, Calls, ReadText, ReadNothing, ReadFails, CallAnswered, CallFails

(* The list the loop takes was the first one on its way. *)
LEMMA ShiftsInList ==
    ASSUME TypeOK, NEW snap, NEW sl, NEW tasks, NEW hire, GetsList(snap, sl, tasks),
           Outcome(hire, snap, sl, tasks), UNCHANGED <<panes, poll>>
    PROVE  /\ \E f : Shifts(f) /\ \A k \in Moments' : f[k] >= 1
           /\ {0, 1, Len(chan) + 2} \subseteq Moments /\ Len(chan) + 2 >= 1
           /\ View(0) = snapshot /\ View(1) = snap /\ View(Len(chan) + 2) = Reported
<1>1. /\ Len(chan) \in Nat /\ Len(chan) >= 1
      /\ Len(chan') = Len(chan) - 1
      /\ \A i \in 1..Len(chan') : i + 1 \in 1..Len(chan) /\ chan'[i] = chan[i + 1]
      /\ Head(chan) = chan[1]
  BY TailFacts DEF TypeOK, GetsList
<1>2. Reported' = Reported /\ snapshot' = snap
  BY DEF Reported, Live, Outcome
<1>3. chan[1].kind = "Snapshot" /\ snap = chan[1].agents
  BY <1>1 DEF GetsList
<1> DEFINE f == [k \in Moments' |-> k + 1]
<1>4. \A k \in Moments' : f[k] \in Moments /\ View(k)' = View(f[k])
  BY <1>1, <1>2, <1>3 DEF Moments, IsView, View
<1>5. /\ \A i, k \in Moments' : i <= k => f[i] <= f[k]
      /\ \A k \in Moments' : f[k] >= 1
  BY <1>1 DEF Moments
<1> HIDE DEF f
<1>6. Shifts(f)
  BY <1>4, <1>5 DEF Shifts
<1>7. /\ {0, 1, Len(chan) + 2} \subseteq Moments /\ Len(chan) + 2 >= 1
      /\ View(0) = snapshot /\ View(1) = snap /\ View(Len(chan) + 2) = Reported
  BY <1>1, <1>3 DEF Moments, IsView, View
<1> QED
  BY <1>5, <1>6, <1>7

LEMMA ShiftsInLoop ==
    ASSUME TypeOK, Loop
    PROVE  \E f : Shifts(f)
<1>1. PICK snap, sl, tasks, hire : Branch(snap, sl, tasks) /\ Outcome(hire, snap, sl, tasks)
  BY LoopTurn
<1>2. UNCHANGED <<panes, poll>> /\ Reported' = Reported /\ snapshot' = snap
  BY <1>1, LoopTurn DEF Reported, Live, Outcome
<1>3. CASE chan' = chan
  <2>1. snap = snapshot
    BY <1>1, <1>3, HeadTailProperties
       DEF Branch, GetsList, GetsResult, GetsStatus, GetsKey, GetsTick, GetsTask, TypeOK
  <2> QED
    BY <1>2, <1>3, <2>1, ShiftsIfStill
<1>4. CASE chan # <<>> /\ chan' = Tail(chan)
  <2>1. /\ Len(chan) \in Nat /\ Len(chan) >= 1
        /\ Len(chan') = Len(chan) - 1
        /\ \A i \in 1..Len(chan') : i + 1 \in 1..Len(chan) /\ chan'[i] = chan[i + 1]
        /\ Head(chan) = chan[1]
    BY <1>4, TailFacts DEF TypeOK
  <2>2. CASE GetsList(snap, sl, tasks)
    BY <1>1, <1>2, <2>2, ShiftsInList
  <2>3. CASE snap = snapshot
    <3> DEFINE f == [k \in Moments' |-> IF k = 0 THEN 0 ELSE k + 1]
    <3>2. \A k \in Moments' : f[k] \in Moments /\ View(k)' = View(f[k])
      BY <1>2, <2>1, <2>3 DEF Moments, IsView, View
    <3>3. \A i, k \in Moments' : i <= k => f[i] <= f[k]
      BY <2>1 DEF Moments
    <3> HIDE DEF f
    <3>4. Shifts(f)
      BY <3>2, <3>3 DEF Shifts
    <3> QED
      BY <3>4
  <2> QED
    BY <1>1, <2>2, <2>3, BranchTypes
<1> QED
  BY <1>1, <1>3, <1>4 DEF Branch, GetsList, GetsResult, GetsStatus, GetsKey, GetsTick, GetsTask

(* So does every step but one of herdr. *)
LEMMA StepShifts ==
    ASSUME TypeOK, [Next]_vars, ~Herdr
    PROVE  (\E f : Shifts(f)) /\ panes' = panes
<1>1. CASE Poller
  BY <1>1, ShiftsAtPoll, ShiftsAtPollSend DEF Poller, PollAnswered, PollFailed, PollSend
<1>2. CASE Work
  BY <1>2, ShiftsAtWork, WorkFacts DEF Work
<1>3. CASE Loop
  BY <1>3, ShiftsInLoop, LoopTurn
<1>4. CASE Elapse \/ UNCHANGED vars
  BY <1>4, ShiftsIfStill DEF Elapse, vars
<1> QED
  BY <1>1, <1>2, <1>3, <1>4 DEF Next

-----------------------------------------------------------------------------
(* The lists are a history. *)

LEMMA ViewType ==
    ASSUME TypeOK, NEW k \in Moments
    PROVE  View(k) \in Snapshots
<1>1. CASE k \in 1..Len(chan)
  <2>1. chan[k] \in Update /\ chan[k].kind = "Snapshot" /\ k # 0
    BY <1>1, ElementOfSeq DEF TypeOK, Moments, IsView
  <2> QED
    BY <1>1, <2>1 DEF View, Update
<1>2. CASE k \notin 1..Len(chan)
  <2>1. Len(chan) \in Nat
    BY LenProperties DEF TypeOK
  <2>2. CASE k = Len(chan) + 1
    <3>1. poll \in Update /\ poll.kind = "Snapshot"
      BY <1>2, <2>1, <2>2 DEF TypeOK, Moments, IsView
    <3> QED
      BY <1>2, <2>1, <2>2, <3>1 DEF View, Update
  <2> QED
    BY <1>2, <2>1, <2>2, ReportedType DEF View, TypeOK
<1> QED
  BY <1>1, <1>2

LEMMA HerdrFacts ==
    ASSUME TypeOK, Herdr, PanesReturn = FALSE
    PROVE  /\ UNCHANGED <<poll, chan, snapshot, slots, worker>>
           /\ panes \in [Pane -> PaneState] /\ panes' \in [Pane -> PaneState]
           /\ \A q \in Pane :
                 /\ panes[q].revision <= panes'[q].revision
                 /\ panes'[q].life = "unborn" => panes[q].life = "unborn"
                 /\ panes[q].life = "gone" => panes'[q].life = "gone"
<1>1. PICK p \in Pane : \/ AgentPrints(p) \/ AgentLeaves(p)
                        \/ \E s \in ReportedStatus : AgentStarts(p, s) \/ AgentTurns(p, s)
  BY DEF Herdr
<1>2. UNCHANGED <<poll, chan, loopVars>>
  BY <1>1 DEF AgentPrints, AgentLeaves, AgentStarts, AgentTurns
<1>3. panes \in [Pane -> PaneState] /\ panes' \in [Pane -> PaneState]
  BY HerdrTypes DEF TypeOK
<1>4. \A q \in Pane : panes[q].revision \in Nat /\ panes[q].revision <= panes[q].revision
  BY <1>3, OrchestratorAssumption DEF PaneState, Revision
<1>5. CASE AgentPrints(p)
  BY <1>2, <1>3, <1>4, <1>5 DEF AgentPrints, PaneState, loopVars
<1>6. CASE AgentLeaves(p)
  BY <1>2, <1>3, <1>4, <1>6 DEF AgentLeaves, PaneState, loopVars
<1>7. CASE \E s \in ReportedStatus : AgentStarts(p, s) \/ AgentTurns(p, s)
  BY <1>2, <1>3, <1>4, <1>7 DEF AgentStarts, AgentTurns, PaneState, loopVars
<1> QED
  BY <1>1, <1>5, <1>6, <1>7

(* What herdr's step does to the lists: only its own changes. *)
LEMMA HerdrViews ==
    ASSUME TypeOK, Herdr, PanesReturn = FALSE, Born
    PROVE  /\ Moments' = Moments
           /\ \E N \in Moments :
                 /\ N \in Int
                 /\ \A k \in Moments : k \in Int /\ k <= N
                 /\ \A k \in Moments : k # N => View(k)' = View(k)
                 /\ View(N)' = Reported' /\ View(N) = Reported
           /\ \A k \in Moments : \A q : q \in DOMAIN View(k) /\ q \in DOMAIN Reported' =>
                 /\ q \in DOMAIN Reported
                 /\ Reported[q].revision <= Reported'[q].revision
<1>1. UNCHANGED <<poll, chan, snapshot>> /\ Len(chan) \in Nat
  BY HerdrFacts, LenProperties DEF TypeOK
<1>2. Moments' = Moments
  BY <1>1 DEF Moments, IsView
<1>4. \E N \in Moments :
         /\ N \in Int
         /\ \A k \in Moments : k \in Int /\ k <= N
         /\ \A k \in Moments : k # N => View(k)' = View(k)
         /\ View(N)' = Reported' /\ View(N) = Reported
  <2>1. PICK N : N = Len(chan) + 2
    OBVIOUS
  <2>2. N \in Moments /\ N \in Int /\ \A k \in Moments : k \in Int /\ k <= N
    BY <1>1, <2>1 DEF Moments, IsView
  <2>3. \A k \in Moments : k # N => View(k)' = View(k)
    BY <1>1, <2>1 DEF View, Moments
  <2>4. View(N)' = Reported' /\ View(N) = Reported
    BY <1>1, <2>1 DEF View
  <2> QED
    BY <2>2, <2>3, <2>4
<1>5. ASSUME NEW k \in Moments, NEW q, q \in DOMAIN View(k), q \in DOMAIN Reported'
      PROVE  q \in DOMAIN Reported /\ Reported[q].revision <= Reported'[q].revision
  <2>1. q \in Pane /\ panes[q].life # "unborn" /\ panes'[q].life = "live"
    BY <1>5 DEF Born, Reported, Live
  <2>2. panes[q].life = "live"
    BY <2>1, HerdrFacts DEF PaneState
  <2>3. panes[q].revision <= panes'[q].revision
    BY <2>1, HerdrFacts
  <2> QED
    BY <1>5, <2>1, <2>2, <2>3 DEF Reported, Live
<1> QED
  BY <1>2, <1>4, <1>5

LEMMA ListInvAtHerdr ==
    ASSUME TypeOK, Herdr, PanesReturn = FALSE, ListInv
    PROVE  ListInv'
<1>0. NoReturn /\ Born /\ Growing
  BY DEF ListInv
<1>10. /\ Moments' = Moments
      /\ \A k \in Moments : \A q : q \in DOMAIN View(k) /\ q \in DOMAIN Reported' =>
            /\ q \in DOMAIN Reported
            /\ Reported[q].revision <= Reported'[q].revision
  BY <1>0, HerdrViews
<1>11. PICK N \in Moments :
         /\ N \in Int
         /\ \A k \in Moments : k \in Int /\ k <= N
         /\ \A k \in Moments : k # N => View(k)' = View(k)
         /\ View(N)' = Reported' /\ View(N) = Reported
  BY <1>0, HerdrViews
<1>3. ASSUME NEW i \in Moments, NEW j \in Moments, NEW k \in Moments, i <= j, j <= k,
             NEW p, p \in DOMAIN View(i)', p \in DOMAIN View(k)'
      PROVE  p \in DOMAIN View(j)'
  <2>1. CASE j = N
    BY <1>11, <1>3, <2>1
  <2>2. CASE j # N
    <3>1. i # N /\ p \in DOMAIN View(i)
      BY <1>11, <1>3, <2>2
    <3>2. p \in DOMAIN View(k)
      BY <1>10, <1>11, <1>3, <3>1
    <3> QED
      BY <1>0, <1>10, <1>11, <1>3, <2>2, <3>1, <3>2 DEF NoReturn
  <2> QED
    BY <2>1, <2>2
<1>4. NoReturn'
  BY <1>10, <1>11, <1>3 DEF NoReturn
<1>5. ASSUME NEW k \in Moments, NEW p, p \in DOMAIN View(k)'
      PROVE  /\ p \in Pane
             /\ panes'[p].life # "unborn"
             /\ View(k)'[p].revision <= panes'[p].revision
  <2>0. panes \in [Pane -> PaneState] /\ panes' \in [Pane -> PaneState]
    BY HerdrFacts
  <2>1. CASE k = N
    <3>1. p \in Live' /\ Reported'[p].revision = panes'[p].revision
      BY <1>10, <1>11, <1>5, <2>1 DEF Reported
    <3>2. panes'[p].revision \in Nat
      BY <2>0, <3>1, OrchestratorAssumption DEF Live, PaneState, Revision
    <3> QED
      BY <1>11, <2>1, <3>1, <3>2 DEF Live
  <2>2. CASE k # N
    <3>1. p \in DOMAIN View(k) /\ View(k)'[p] = View(k)[p]
      BY <1>11, <1>5, <2>2
    <3>2. p \in Pane /\ panes[p].life # "unborn" /\ View(k)[p].revision <= panes[p].revision
      BY <1>0, <3>1 DEF Born
    <3>3. panes'[p].life # "unborn" /\ panes[p].revision <= panes'[p].revision
      BY <3>2, HerdrFacts
    <3>4. View(k)[p].revision \in Nat /\ panes[p].revision \in Nat /\ panes'[p].revision \in Nat
      <4>1. View(k)[p] \in Agent
        BY <3>1, ViewType, SnapshotsType
      <4> QED
        BY <2>0, <3>2, <4>1, OrchestratorAssumption DEF Agent, PaneState, Revision
    <3> QED
      BY <3>1, <3>2, <3>3, <3>4
  <2> QED
    BY <2>1, <2>2
<1>6. Born'
  BY <1>10, <1>11, <1>5 DEF Born
<1>7. ASSUME NEW i \in Moments, NEW k \in Moments, i <= k,
             NEW p, p \in DOMAIN View(i)', p \in DOMAIN View(k)'
      PROVE  View(i)'[p].revision <= View(k)'[p].revision
  <2>1. CASE k # N
    <3>1. i # N
      BY <1>11, <1>7, <2>1
    <3> QED
      BY <1>0, <1>10, <1>11, <1>7, <2>1, <3>1 DEF Growing
  <2>2. CASE k = N /\ i # N
    <3>1. /\ p \in DOMAIN View(i) /\ p \in DOMAIN Reported
          /\ Reported[p].revision <= Reported'[p].revision
      BY <1>10, <1>11, <1>7, <2>2
    <3>2. View(i)[p].revision <= Reported[p].revision
      BY <1>0, <1>10, <1>11, <1>7, <2>2, <3>1 DEF Growing
    <3>3. /\ View(i)[p].revision \in Nat /\ Reported[p].revision \in Nat
          /\ Reported'[p].revision \in Nat
      <4>1. View(i) \in Snapshots /\ Reported \in Snapshots
        BY ViewType, ReportedType
      <4>2. p \in DOMAIN Reported' /\ p \in Pane /\ panes' \in [Pane -> PaneState]
        BY <1>5, <1>7, <1>11, <2>2, HerdrFacts
      <4>3. Reported'[p].revision \in Revision
        BY <4>2 DEF Reported, Live, PaneState
      <4> QED
        BY <3>1, <4>1, <4>3, SnapshotsType, OrchestratorAssumption DEF Agent, Revision
    <3> QED
      BY <1>10, <1>11, <2>2, <3>1, <3>2, <3>3
  <2>3. CASE k = N /\ i = N
    <3>1. p \in Pane /\ panes' \in [Pane -> PaneState]
      BY <1>5, <1>7, HerdrFacts
    <3>2. Reported'[p].revision \in Nat
      BY <1>10, <1>11, <1>7, <2>3, <3>1, OrchestratorAssumption DEF Reported, Live, PaneState, Revision
    <3> QED
      BY <1>10, <1>11, <2>3, <3>2
  <2> QED
    BY <2>1, <2>2, <2>3
<1>9. Growing'
  BY <1>10, <1>11, <1>7 DEF Growing
<1> QED
  BY <1>4, <1>6, <1>9 DEF ListInv

(* What holds of all the lists holds of those that are left. *)
LEMMA ListInvShifted ==
    ASSUME ListInv, panes' = panes, NEW f, Shifts(f)
    PROVE  ListInv'
<1>1. NoReturn'
  BY DEF ListInv, NoReturn, Shifts
<1>2. Born'
  BY DEF ListInv, Born, Shifts
<1>3. Growing'
  BY DEF ListInv, Growing, Shifts
<1> QED
  BY <1>1, <1>2, <1>3 DEF ListInv

LEMMA ListInvInit == Init => ListInv
<1> SUFFICES ASSUME Init PROVE ListInv
  OBVIOUS
<1>1. TypeOK
  BY InitTypes
<1>2. Len(chan) = 0 /\ poll = None /\ snapshot = Reported
  BY EmptySeq DEF Init
<1>3. Moments = {0, 2} /\ View(0) = Reported /\ View(2) = Reported
  BY <1>2 DEF Moments, IsView, View
<1>4. Reported \in Snapshots
  BY <1>1, ReportedType
<1>5. \A p \in DOMAIN Reported : /\ p \in Pane /\ panes[p].life # "unborn"
                                 /\ Reported[p].revision \in Nat
                                 /\ Reported[p].revision = panes[p].revision
  BY <1>4, SnapshotsType, OrchestratorAssumption DEF Agent, Revision, Reported, Live
<1>6. \A p \in DOMAIN Reported : Reported[p].revision <= Reported[p].revision
  BY <1>5
<1> QED
  BY <1>3, <1>5, <1>6 DEF ListInv, NoReturn, Born, Growing

(* Panes are not used again: the lists on their way are a history. *)
LEMMA ListsOrdered ==
    ASSUME PanesReturn = FALSE
    PROVE  Spec => []ListInv
<1>1. TypeOK /\ ListInv /\ [Next]_vars => ListInv'
  BY ListInvAtHerdr, ListInvShifted, StepShifts
<1> QED
  BY <1>1, ListInvInit, TypeCorrect, PTL DEF Spec

-----------------------------------------------------------------------------
(* The tasks at work for p, and the results of p in a channel.             *)
Doing(tasks, p) == {w \in Worker : Active(tasks[w]) /\ tasks[w].pane = p}
Sent(c, p) == {i \in DOMAIN c : c[i].kind = "Summary" /\ c[i].pane = p}
Out(tasks, c, p) == Doing(tasks, p) # {} \/ Sent(c, p) # {}

Single(tasks, c, p) ==
    /\ \A v, w \in Doing(tasks, p) : v = w
    /\ \A i, j \in Sent(c, p) : i = j
    /\ Doing(tasks, p) = {} \/ Sent(c, p) = {}

(* The agent is gone, and no list on its way to the loop still shows it.   *)
Departed(p) == panes[p].life = "gone" /\ \A k \in Moments : p \notin DOMAIN View(k)

CallInv ==
    /\ poll = None \/ poll.kind # "Summary"
    /\ \A p \in Pane : Single(worker, chan, p)
    /\ \A p \in DOMAIN slots : slots[p].state.inFlight <=> Out(worker, chan, p)
    /\ \A p \in Pane \ DOMAIN slots : Out(worker, chan, p) => Departed(p)

(* The same between the branch and the pass. *)
CallMid(snap, sl, tasks) ==
    /\ \A p \in Pane : Single(tasks, chan', p)
    /\ \A p \in DOMAIN sl : sl[p].state.inFlight <=> Out(tasks, chan', p)
    /\ \A p \in Pane \ DOMAIN sl : Out(tasks, chan', p) => Departed(p)'

(* What a message less, or more, does to the calls that are out. *)
LEMMA TailCalls ==
    ASSUME NEW c \in Seq(Update), c # <<>>, NEW tasks, NEW p, Single(tasks, c, p)
    PROVE  /\ Single(tasks, Tail(c), p)
           /\ Head(c).kind = "Summary" /\ Head(c).pane = p =>
                Out(tasks, c, p) /\ ~Out(tasks, Tail(c), p)
           /\ ~(Head(c).kind = "Summary" /\ Head(c).pane = p) =>
                (Out(tasks, Tail(c), p) <=> Out(tasks, c, p))
<1>1. /\ Len(c) \in Nat /\ Len(c) >= 1
      /\ DOMAIN c = 1..Len(c) /\ DOMAIN Tail(c) = 1..(Len(c) - 1)
      /\ Head(c) = c[1]
      /\ \A i \in 1..(Len(c) - 1) : Tail(c)[i] = c[i + 1]
  BY TailFacts, HeadTailProperties, LenProperties
<1>2. \A i \in Sent(Tail(c), p) : i \in Int /\ i >= 1 /\ i + 1 \in Sent(c, p)
  BY <1>1 DEF Sent
<1>3. \A i \in Sent(c, p) : i = 1 \/ i - 1 \in Sent(Tail(c), p)
  <2> SUFFICES ASSUME NEW i \in Sent(c, p), i # 1 PROVE i - 1 \in Sent(Tail(c), p)
    OBVIOUS
  <2>1. i \in 2..Len(c) /\ i - 1 \in 1..(Len(c) - 1)
    BY <1>1 DEF Sent
  <2>2. Tail(c)[i - 1] = c[i]
    BY <1>1, <2>1
  <2> QED
    BY <1>1, <2>1, <2>2 DEF Sent
<1>4. Single(tasks, Tail(c), p)
  <2>1. \A i, j \in Sent(Tail(c), p) : i = j
    BY <1>2 DEF Single
  <2>2. Sent(c, p) = {} => Sent(Tail(c), p) = {}
    BY <1>2
  <2> QED
    BY <2>1, <2>2 DEF Single
<1>5. ASSUME Head(c).kind = "Summary", Head(c).pane = p
      PROVE  Out(tasks, c, p) /\ ~Out(tasks, Tail(c), p)
  <2>1. 1 \in Sent(c, p)
    BY <1>1, <1>5 DEF Sent
  <2>2. Sent(Tail(c), p) = {}
    BY <1>2, <2>1 DEF Single
  <2> QED
    BY <2>1, <2>2 DEF Single, Out
<1>6. ASSUME ~(Head(c).kind = "Summary" /\ Head(c).pane = p)
      PROVE  Out(tasks, Tail(c), p) <=> Out(tasks, c, p)
  <2>1. 1 \notin Sent(c, p)
    BY <1>1, <1>6 DEF Sent
  <2> QED
    BY <1>2, <1>3, <2>1 DEF Out
<1> QED
  BY <1>4, <1>5, <1>6

LEMMA AppendCalls ==
    ASSUME NEW c \in Seq(Update), NEW m \in Update, NEW p
    PROVE  IF m.kind = "Summary" /\ m.pane = p
           THEN Sent(Append(c, m), p) = Sent(c, p) \cup {Len(c) + 1}
           ELSE Sent(Append(c, m), p) = Sent(c, p)
<1>1. /\ Len(c) \in Nat /\ DOMAIN c = 1..Len(c) /\ DOMAIN Append(c, m) = 1..(Len(c) + 1)
      /\ \A i \in 1..Len(c) : Append(c, m)[i] = c[i]
      /\ Append(c, m)[Len(c) + 1] = m
  BY AppendProperties, LenProperties
<1> QED
  BY <1>1 DEF Sent

(* A pass adds the tasks it spawns and leaves the others at their work.    *)
LEMMA OutcomeCalls ==
    ASSUME NEW hire, NEW snap, NEW sl, NEW tasks, Outcome(hire, snap, sl, tasks), NEW p
    PROVE  Doing(worker', p) = Doing(tasks, p) \cup {w \in DOMAIN hire : hire[w] = p}
<1>1. ASSUME NEW w \in Worker
      PROVE  w \in Doing(worker', p) <=> w \in Doing(tasks, p) \/ (w \in DOMAIN hire /\ hire[w] = p)
  <2>1. CASE w \in DOMAIN hire
    <3>1. worker'[w] = Hired(snap, hire[w]) /\ tasks[w].phase = "idle"
      BY <2>1 DEF Outcome, Idle
    <3> QED
      BY <2>1, <3>1 DEF Doing, Hired, Active
  <2>2. CASE w \notin DOMAIN hire
    <3>1. worker'[w] = tasks[w]
      BY <2>2 DEF Outcome
    <3> QED
      BY <2>2, <3>1 DEF Doing
  <2> QED
    BY <2>1, <2>2
<1>2. DOMAIN hire \subseteq Worker
  BY DEF Outcome, Idle
<1> QED
  BY <1>1, <1>2 DEF Doing

(* Who has left every list stays away. *)
LEMMA DepartedStays ==
    ASSUME TypeOK, [Next]_vars, PanesReturn = FALSE, ListInv, NEW p \in Pane, Departed(p)
    PROVE  Departed(p)'
<1>1. CASE Herdr
  <2>1. panes'[p].life = "gone"
    BY <1>1, HerdrFacts DEF Departed
  <2>2. Moments' = Moments
    BY <1>1, HerdrViews DEF ListInv
  <2>3. \A k \in Moments : p \notin DOMAIN View(k)'
    <3>1. PICK N \in Moments : /\ \A k \in Moments : k # N => View(k)' = View(k)
                               /\ View(N)' = Reported'
      BY <1>1, HerdrViews DEF ListInv
    <3>2. p \notin DOMAIN Reported'
      BY <2>1 DEF Reported, Live
    <3> QED
      BY <3>1, <3>2 DEF Departed
  <2> QED
    BY <2>1, <2>2, <2>3 DEF Departed
<1>2. CASE ~Herdr
  <2>1. PICK f : Shifts(f) /\ panes' = panes
    BY <1>2, StepShifts
  <2> QED
    BY <2>1 DEF Departed, Shifts
<1> QED
  BY <1>1, <1>2

LEMMA WithResultAnswers ==
    ASSUME NEW slot \in Slot, NEW revision \in Revision, NEW result \in Result
    PROVE  ~WithResult(slot, revision, result).state.inFlight
<1>1. slot.state \in SummaryState
  BY DEF Slot
<1> QED
  BY <1>1 DEF WithResult, Slot, Result, SummaryState

-----------------------------------------------------------------------------
(* Each branch of select! leaves the calls and in_flight in agreement. *)

LEMMA CallsInList ==
    ASSUME TypeOK, NoResurrection, ListInv, PanesReturn = FALSE, CallInv, Loop,
           NEW snap, NEW sl, NEW tasks, NEW hire, GetsList(snap, sl, tasks),
           Outcome(hire, snap, sl, tasks)
    PROVE  CallMid(snap, sl, tasks)
<1>1. chan \in Seq(Update) /\ chan # <<>> /\ slots \in Slots /\ DOMAIN slots \subseteq Pane
  BY SlotsType DEF TypeOK, GetsList
<1>2. /\ \A p \in Pane : Single(tasks, chan', p)
      /\ \A p \in Pane : Out(tasks, chan', p) <=> Out(worker, chan, p)
  BY <1>1, TailCalls DEF GetsList, CallInv
<1>3. /\ DOMAIN sl = DOMAIN slots \cap DOMAIN snap
      /\ \A p \in DOMAIN sl : sl[p] = slots[p]
  BY <1>1, PrunedType DEF GetsList, Pruned, Restrict
<1>4. ASSUME NEW p \in Pane \ DOMAIN sl, Out(tasks, chan', p)
      PROVE  Departed(p)'
  <2>1. CASE p \notin DOMAIN slots
    <3>1. Departed(p)
      BY <1>2, <1>4, <2>1 DEF CallInv
    <3> QED
      BY <3>1, DepartedStays DEF Next
  <2>2. CASE p \in DOMAIN slots
    <3>1. p \in DOMAIN snapshot /\ p \notin DOMAIN snap
      BY <1>3, <1>4, <2>2 DEF NoResurrection
    <3>2. /\ \E f : Shifts(f) /\ \A k \in Moments' : f[k] >= 1
          /\ {0, 1, Len(chan) + 2} \subseteq Moments /\ Len(chan) + 2 >= 1
          /\ View(0) = snapshot /\ View(1) = snap /\ View(Len(chan) + 2) = Reported
          /\ UNCHANGED <<panes, poll>>
      BY LoopTurn, ShiftsInList
    <3>3. \A k \in Moments : k >= 1 => p \notin DOMAIN View(k)
      BY <3>1, <3>2 DEF ListInv, NoReturn, Moments
    <3>4. \A k \in Moments' : p \notin DOMAIN View(k)'
      BY <3>2, <3>3 DEF Shifts
    <3>5. panes[p].life = "gone"
      <4>2. p \notin Live
        BY <3>2, <3>3 DEF Reported
      <4>3. panes[p].life # "unborn"
        BY <3>1, <3>2 DEF ListInv, Born
      <4> QED
        BY <4>2, <4>3 DEF Live, TypeOK, PaneState
    <3> QED
      BY <3>2, <3>4, <3>5 DEF Departed
  <2> QED
    BY <2>1, <2>2
<1> QED
  BY <1>1, <1>2, <1>3, <1>4 DEF CallMid, CallInv

LEMMA CallsInResult ==
    ASSUME TypeOK, ListInv, PanesReturn = FALSE, CallInv, Loop,
           NEW snap, NEW sl, NEW tasks, GetsResult(snap, sl, tasks)
    PROVE  CallMid(snap, sl, tasks)
<1> DEFINE u == Head(chan)
<1>1. /\ chan \in Seq(Update) /\ chan # <<>> /\ slots \in Slots /\ DOMAIN slots \subseteq Pane
      /\ chan' = Tail(chan) /\ tasks = worker
      /\ sl = ApplySummary(slots, u)
      /\ u.kind = "Summary" /\ u.pane \in Pane /\ u.revision \in Revision /\ u.result \in Result
  BY SlotsType, HeadType DEF TypeOK, GetsResult, Update
<1> HIDE DEF u
<1>2. /\ \A p \in Pane : Single(tasks, chan', p)
      /\ ~Out(tasks, chan', u.pane)
      /\ \A p \in Pane \ {u.pane} : Out(tasks, chan', p) <=> Out(worker, chan, p)
  <2>1. \A p \in Pane : Single(worker, chan, p)
    BY DEF CallInv
  <2> QED
    BY <1>1, <2>1, TailCalls DEF u
<1>3. \A p \in DOMAIN sl \ {u.pane} : sl[p] = slots[p]
  BY <1>1 DEF ApplySummary
<1>4. DOMAIN sl = DOMAIN slots
  BY <1>1 DEF ApplySummary
<1>5. u.pane \in DOMAIN sl => ~sl[u.pane].state.inFlight
  <2> SUFFICES ASSUME u.pane \in DOMAIN slots PROVE ~sl[u.pane].state.inFlight
    BY <1>4
  <2>1. slots[u.pane] \in Slot
    BY <1>1, SlotsType
  <2>2. sl[u.pane] = WithResult(slots[u.pane], u.revision, u.result)
    BY <1>1 DEF ApplySummary
  <2> QED
    BY <1>1, <2>1, <2>2, WithResultAnswers
<1>6. \A p \in DOMAIN sl : sl[p].state.inFlight <=> Out(tasks, chan', p)
  <2>1. \A p \in DOMAIN slots : slots[p].state.inFlight <=> Out(worker, chan, p)
    BY DEF CallInv
  <2> QED
    BY <1>1, <1>2, <1>3, <1>4, <1>5, <2>1
<1>7. ASSUME NEW p \in Pane \ DOMAIN sl, Out(tasks, chan', p)
      PROVE  Departed(p)'
  <2>1. Departed(p)
    BY <1>2, <1>4, <1>7 DEF CallInv
  <2> QED
    BY <2>1, DepartedStays DEF Next
<1> QED
  BY <1>2, <1>6, <1>7 DEF CallMid

LEMMA CallsInStatus ==
    ASSUME TypeOK, ListInv, PanesReturn = FALSE, CallInv, Loop,
           NEW snap, NEW sl, NEW tasks, GetsStatus(snap, sl, tasks)
    PROVE  CallMid(snap, sl, tasks)
<1>1. /\ chan \in Seq(Update) /\ chan # <<>> /\ DOMAIN slots \subseteq Pane
      /\ chan' = Tail(chan) /\ tasks = worker /\ sl = slots /\ Head(chan).kind = "Status"
  BY DEF TypeOK, GetsStatus
<1>2. /\ \A p \in Pane : Single(tasks, chan', p)
      /\ \A p \in Pane : Out(tasks, chan', p) <=> Out(worker, chan, p)
  <2>1. \A p \in Pane : Single(worker, chan, p)
    BY DEF CallInv
  <2> QED
    BY <1>1, <2>1, TailCalls
<1>3. ASSUME NEW p \in Pane \ DOMAIN sl, Out(tasks, chan', p)
      PROVE  Departed(p)'
  <2>1. Departed(p)
    BY <1>1, <1>2, <1>3 DEF CallInv
  <2> QED
    BY <2>1, DepartedStays DEF Next
<1> QED
  BY <1>1, <1>2, <1>3 DEF CallMid, CallInv

LEMMA CallsInKey ==
    ASSUME TypeOK, ListInv, PanesReturn = FALSE, CallInv, Loop,
           NEW snap, NEW sl, NEW tasks, GetsKey(snap, sl, tasks)
    PROVE  CallMid(snap, sl, tasks)
<1>1. PICK P \in SUBSET DOMAIN snapshot : sl = Forced(slots, P)
  BY DEF GetsKey
<1>2. /\ DOMAIN slots \subseteq Pane /\ P \subseteq Pane /\ slots \in Slots
      /\ tasks = worker /\ chan' = chan
  BY SlotsType, SnapshotsType DEF TypeOK, GetsKey
<1>3. DOMAIN sl = DOMAIN slots \cup P
  BY <1>1, <1>2, ForcedType
<1>4. ASSUME NEW p \in DOMAIN sl
      PROVE  sl[p].state.inFlight <=> Out(tasks, chan', p)
  <2>1. p \in Pane
    BY <1>2, <1>3, <1>4
  <2>2. SlotOf(slots, p) \in Slot /\ SlotOf(slots, p).state \in SummaryState
    BY <1>2, <2>1, SlotOfType DEF Slot
  <2>3. sl[p].state.inFlight <=> SlotOf(slots, p).state.inFlight
    <3>1. CASE p \in P
      <4>1. sl[p].state = [SlotOf(slots, p).state EXCEPT !.forced = TRUE]
        BY <1>1, <1>3, <2>2, <3>1 DEF Forced, Slot
      <4> QED
        BY <2>2, <4>1 DEF SummaryState
    <3>2. CASE p \notin P
      BY <1>1, <1>3, <3>2 DEF Forced, SlotOf
    <3> QED
      BY <3>1, <3>2
  <2>4. CASE p \in DOMAIN slots
    BY <1>2, <2>3, <2>4 DEF SlotOf, CallInv
  <2>5. CASE p \notin DOMAIN slots
    <3>1. ~SlotOf(slots, p).state.inFlight
      BY <2>5 DEF SlotOf, DefaultSlot, DefaultState
    <3>2. p \in DOMAIN snapshot
      BY <1>3, <2>5
    <3>3. 0 \in Moments /\ View(0) = snapshot
      BY LenProperties DEF Moments, IsView, View, TypeOK
    <3>4. ~Out(worker, chan, p)
      BY <2>1, <2>5, <3>2, <3>3 DEF CallInv, Departed
    <3> QED
      BY <1>2, <2>3, <3>1, <3>4
  <2> QED
    BY <2>4, <2>5
<1>5. ASSUME NEW p \in Pane \ DOMAIN sl, Out(tasks, chan', p)
      PROVE  Departed(p)'
  <2>1. Departed(p)
    BY <1>2, <1>3, <1>5 DEF CallInv
  <2> QED
    BY <2>1, DepartedStays DEF Next
<1> QED
  BY <1>2, <1>4, <1>5 DEF CallMid, CallInv

LEMMA CallsInTick ==
    ASSUME TypeOK, ListInv, PanesReturn = FALSE, CallInv, Loop,
           NEW snap, NEW sl, NEW tasks, GetsTick(snap, sl, tasks) \/ GetsTask(snap, sl, tasks)
    PROVE  CallMid(snap, sl, tasks)
<1>1. sl = slots /\ chan' = chan /\ DOMAIN slots \subseteq Pane
  BY DEF GetsTick, GetsTask, TypeOK
<1>2. \A p : Doing(tasks, p) = Doing(worker, p)
  <2>1. CASE tasks = worker
    BY <2>1
  <2>2. CASE GetsTask(snap, sl, tasks)
    <3>1. PICK w \in Worker : worker[w].phase = "done" /\ tasks = [worker EXCEPT ![w] = IdleTask]
      BY <2>2 DEF GetsTask
    <3> QED
      BY <3>1 DEF Doing, Active, IdleTask, TypeOK
  <2> QED
    BY <2>1, <2>2 DEF GetsTick
<1>3. /\ \A p \in Pane : Single(tasks, chan', p)
      /\ \A p \in Pane : Out(tasks, chan', p) <=> Out(worker, chan, p)
  BY <1>1, <1>2 DEF CallInv, Single, Out
<1>4. ASSUME NEW p \in Pane \ DOMAIN sl, Out(tasks, chan', p)
      PROVE  Departed(p)'
  <2>1. Departed(p)
    BY <1>1, <1>3, <1>4 DEF CallInv
  <2> QED
    BY <2>1, DepartedStays DEF Next
<1> QED
  BY <1>1, <1>3, <1>4 DEF CallMid, CallInv

(* The pass that follows asks in_flight, and gets the truth. *)
LEMMA BranchCalls ==
    ASSUME TypeOK, NoResurrection, ListInv, PanesReturn = FALSE, CallInv, Loop,
           NEW snap, NEW sl, NEW tasks, NEW hire, Branch(snap, sl, tasks),
           snap \in Snapshots, sl \in Slots, Outcome(hire, snap, sl, tasks)
    PROVE  /\ CallMid(snap, sl, tasks)
           /\ \A p \in DOMAIN slots' :
                 SlotOf(sl, p).state.inFlight <=> Out(tasks, chan', p)
<1>1. CallMid(snap, sl, tasks)
  BY CallsInList, CallsInResult, CallsInStatus, CallsInKey, CallsInTick DEF Branch
<1>2. ASSUME NEW p \in DOMAIN slots'
      PROVE  SlotOf(sl, p).state.inFlight <=> Out(tasks, chan', p)
  <2>0. /\ DOMAIN slots' = DOMAIN sl \cup DOMAIN snap /\ DOMAIN slots' \subseteq Pane
        /\ snapshot' = snap
    BY SlotsType, SnapshotsType DEF Outcome
  <2>1. CASE p \in DOMAIN sl
    BY <1>1, <2>1 DEF CallMid, SlotOf
  <2>2. CASE p \notin DOMAIN sl
    <3>1. ~SlotOf(sl, p).state.inFlight
      BY <2>2 DEF SlotOf, DefaultSlot, DefaultState
    <3>2. p \in DOMAIN snap
      BY <2>0, <1>2, <2>2
    <3>3. ~Departed(p)'
      <4>1. Len(chan') \in Nat
        BY LoopTurn, LenProperties
      <4>2. 0 \in Moments' /\ View(0)' = snapshot'
        BY <4>1 DEF Moments, IsView, View
      <4> QED
        BY <2>0, <3>2, <4>2 DEF Departed
    <3> QED
      BY <1>1, <1>2, <2>0, <2>2, <3>1, <3>3 DEF CallMid
  <2> QED
    BY <2>1, <2>2
<1> QED
  BY <1>1, <1>2

(* A call begins only where none is out, so a turn keeps them counted.     *)
LEMMA CallsInLoop ==
    ASSUME TypeOK, NoResurrection, ListInv, PanesReturn = FALSE, CallInv, Loop
    PROVE  CallInv'
<1>1. PICK snap, sl, tasks, hire :
         /\ snap \in Snapshots /\ sl \in Slots /\ tasks \in [Worker -> Task]
         /\ Branch(snap, sl, tasks) /\ Outcome(hire, snap, sl, tasks)
  BY LoopTurn
<1>2. CallMid(snap, sl, tasks)
  BY <1>1, BranchCalls
<1>3. /\ DOMAIN slots' = DOMAIN sl \cup DOMAIN snap /\ DOMAIN slots' \subseteq Pane
      /\ DOMAIN hire \subseteq Worker
      /\ \A v, w \in DOMAIN hire : hire[v] = hire[w] => v = w
      /\ \A w \in DOMAIN hire : ~SlotOf(sl, hire[w]).state.inFlight /\ hire[w] \in DOMAIN snap
  BY <1>1, SlotsType, SnapshotsType DEF Outcome, Idle
<1>4. ASSUME NEW p \in DOMAIN slots'
      PROVE  SlotOf(sl, p).state.inFlight <=> Out(tasks, chan', p)
  BY <1>1, BranchCalls
<1>5. ASSUME NEW p \in Pane, p \in Range(hire)
      PROVE  /\ Single(worker', chan', p) /\ Out(worker', chan', p)
             /\ p \in DOMAIN slots' /\ slots'[p].state.inFlight
  <2>1. PICK w \in DOMAIN hire : p = hire[w]
    BY <1>5 DEF Range
  <2>2. p \in DOMAIN slots' /\ ~Out(tasks, chan', p)
    BY <1>3, <1>4, <2>1
  <2>3. Doing(worker', p) = {w} /\ Sent(chan', p) = {}
    <3>1. Doing(worker', p) = Doing(tasks, p) \cup {v \in DOMAIN hire : hire[v] = p}
      BY <1>1, OutcomeCalls
    <3>2. {v \in DOMAIN hire : hire[v] = p} = {w}
      BY <1>3, <2>1
    <3> QED
      BY <2>2, <3>1, <3>2 DEF Out
  <2>4. slots'[p].state.inFlight
    BY <1>1, <1>5, <2>2 DEF Outcome, Planned
  <2> QED
    BY <2>2, <2>3, <2>4 DEF Single, Out
<1>6. ASSUME NEW p \in Pane, p \notin Range(hire)
      PROVE  /\ Single(worker', chan', p)
             /\ Out(worker', chan', p) <=> Out(tasks, chan', p)
             /\ p \in DOMAIN slots' =>
                  (slots'[p].state.inFlight <=> SlotOf(sl, p).state.inFlight)
  <2>1. Doing(worker', p) = Doing(tasks, p)
    <3>1. {v \in DOMAIN hire : hire[v] = p} = {}
      BY <1>6 DEF Range
    <3>2. Doing(worker', p) = Doing(tasks, p) \cup {v \in DOMAIN hire : hire[v] = p}
      BY <1>1, OutcomeCalls
    <3> QED
      BY <3>1, <3>2
  <2>2. p \in DOMAIN slots' => (slots'[p].state.inFlight <=> SlotOf(sl, p).state.inFlight)
    BY <1>1, <1>6 DEF Outcome, Planned, Seen
  <2>3. Single(tasks, chan', p)
    BY <1>2 DEF CallMid
  <2> QED
    BY <2>1, <2>2, <2>3 DEF Single, Out
<1>7. poll' = poll
  BY LoopTurn
<1>8. \A p \in Pane : Single(worker', chan', p)
  BY <1>5, <1>6
<1>9. \A p \in DOMAIN slots' : slots'[p].state.inFlight <=> Out(worker', chan', p)
  BY <1>3, <1>4, <1>5, <1>6
<1>10. \A p \in Pane \ DOMAIN slots' : Out(worker', chan', p) => Departed(p)'
  BY <1>2, <1>3, <1>5, <1>6 DEF CallMid
<1> QED
  BY <1>7, <1>8, <1>9, <1>10 DEF CallInv

(* No other step makes a call or forgets one. *)
LEMMA CallsAtWork ==
    ASSUME TypeOK, ListInv, PanesReturn = FALSE, CallInv, Work
    PROVE  CallInv'
<1>1. PICK w \in Worker : Reads(w) \/ Calls(w) \/ WorkerSend(w)
  BY DEF Work
<1>2. PICK t : /\ worker' = [worker EXCEPT ![w] = t]
               /\ \/ /\ Active(t) /\ t.pane = worker[w].pane /\ chan' = chan
                  \/ /\ t = DoneTask /\ SummaryOf(worker[w]) \in Update
                     /\ chan' = Append(chan, SummaryOf(worker[w]))
  BY <1>1, WorkFacts
<1>3. /\ Active(worker[w]) /\ UNCHANGED <<panes, poll, snapshot, slots>>
      /\ worker \in [Worker -> Task] /\ chan \in Seq(Update) /\ DOMAIN slots \subseteq Pane
  BY <1>1, WorkFacts DEF TypeOK
<1>4. ASSUME NEW p \in Pane
      PROVE  Single(worker', chan', p) /\ (Out(worker', chan', p) <=> Out(worker, chan, p))
  <2>0. Single(worker, chan, p)
    BY DEF CallInv
  <2>1. CASE Active(t) /\ t.pane = worker[w].pane /\ chan' = chan
    <3>1. Doing(worker', p) = Doing(worker, p)
      BY <1>2, <1>3, <2>1 DEF Doing
    <3> QED
      BY <2>0, <2>1, <3>1 DEF Single, Out
  <2>2. CASE /\ t = DoneTask /\ SummaryOf(worker[w]) \in Update
             /\ chan' = Append(chan, SummaryOf(worker[w]))
    <3>1. /\ SummaryOf(worker[w]) \in Update
          /\ SummaryOf(worker[w]).kind = "Summary" /\ SummaryOf(worker[w]).pane = worker[w].pane
      BY <2>2 DEF SummaryOf
    <3>2. Doing(worker', p) = Doing(worker, p) \ {w}
      BY <1>2, <1>3, <2>2 DEF Doing, DoneTask, Active
    <3>3. CASE worker[w].pane = p
      <4>1. w \in Doing(worker, p)
        BY <1>3, <3>3 DEF Doing
      <4>2. Doing(worker', p) = {} /\ Sent(chan, p) = {}
        BY <2>0, <3>2, <4>1 DEF Single
      <4>3. Sent(chan', p) = {Len(chan) + 1}
        BY <1>3, <2>2, <3>1, <3>3, <4>2, AppendCalls
      <4> QED
        BY <4>1, <4>2, <4>3 DEF Single, Out
    <3>4. CASE worker[w].pane # p
      <4>0. w \notin Doing(worker, p)
        BY <3>4 DEF Doing
      <4>1. Doing(worker', p) = Doing(worker, p)
        BY <3>2, <4>0
      <4>2. Sent(chan', p) = Sent(chan, p)
        BY <1>3, <2>2, <3>1, <3>4, AppendCalls
      <4> QED
        BY <2>0, <4>1, <4>2 DEF Single, Out
    <3> QED
      BY <3>3, <3>4
  <2> QED
    BY <1>2, <2>1, <2>2
<1>5. \A p \in Pane : Departed(p) => Departed(p)'
  BY DepartedStays DEF Next
<1> QED
  BY <1>3, <1>4, <1>5 DEF CallInv

LEMMA CallsAtPoll ==
    ASSUME TypeOK, ListInv, PanesReturn = FALSE, CallInv, Poller
    PROVE  CallInv'
<1>1. UNCHANGED <<worker, slots>> /\ DOMAIN slots \subseteq Pane
  BY DEF Poller, PollAnswered, PollFailed, PollSend, loopVars, TypeOK
<1>2. ASSUME NEW p \in Pane PROVE Sent(chan', p) = Sent(chan, p)
  <2>1. CASE PollSend
    <3>0. poll # None /\ poll.kind # "Summary"
      BY <2>1 DEF PollSend, CallInv
    <3>1. poll \in Update /\ chan \in Seq(Update)
      BY <3>0 DEF TypeOK
    <3> QED
      BY <2>1, <3>0, <3>1, AppendCalls DEF PollSend
  <2> QED
    BY <2>1 DEF Poller, PollAnswered, PollFailed
<1>3. poll' = None \/ poll'.kind # "Summary"
  BY DEF Poller, PollAnswered, PollFailed, PollSend
<1>4. \A p \in Pane : Departed(p) => Departed(p)'
  BY DepartedStays DEF Next
<1>5. \A p \in Pane : /\ Single(worker', chan', p)
                      /\ Out(worker', chan', p) <=> Out(worker, chan, p)
  BY <1>1, <1>2 DEF CallInv, Single, Out
<1> QED
  BY <1>1, <1>3, <1>4, <1>5 DEF CallInv

LEMMA CallsAtElapse ==
    ASSUME TypeOK, ListInv, PanesReturn = FALSE, CallInv, Elapse
    PROVE  CallInv'
<1>1. UNCHANGED <<worker, chan, poll>> /\ DOMAIN slots' = DOMAIN slots /\ DOMAIN slots \subseteq Pane
  BY DEF Elapse, TypeOK
<1>2. ASSUME NEW p \in DOMAIN slots
      PROVE  slots'[p].state.inFlight <=> slots[p].state.inFlight
  <2>1. slots[p] \in Slot /\ slots[p].state \in SummaryState
    BY DEF TypeOK, Slot
  <2>2. slots'[p].state = Age(slots[p].state)
    BY <2>1 DEF Elapse, Slot
  <2> QED
    BY <2>1, <2>2 DEF Age, SummaryState
<1>3. \A p \in Pane : Departed(p) => Departed(p)'
  BY DepartedStays DEF Next
<1> QED
  BY <1>1, <1>2, <1>3 DEF CallInv

LEMMA CallsAtHerdr ==
    ASSUME TypeOK, ListInv, PanesReturn = FALSE, CallInv, Herdr
    PROVE  CallInv'
<1>1. UNCHANGED <<poll, chan, slots, worker>>
  BY HerdrFacts
<1>2. \A p \in Pane : Departed(p) => Departed(p)'
  BY DepartedStays DEF Next
<1> QED
  BY <1>1, <1>2 DEF CallInv

LEMMA CallsCounted ==
    ASSUME PanesReturn = FALSE
    PROVE  Spec => []CallInv
<1>1. Init => CallInv
  <2> SUFFICES ASSUME Init PROVE CallInv
    OBVIOUS
  <2>1. \A p : Doing(worker, p) = {} /\ Sent(chan, p) = {}
    BY DEF Init, Doing, Sent, IdleTask, Active
  <2> QED
    BY <2>1 DEF Init, CallInv, Single, Out
<1>2. TypeOK /\ NoResurrection /\ ListInv /\ CallInv /\ [Next]_vars => CallInv'
  <2> SUFFICES ASSUME TypeOK, NoResurrection, ListInv, CallInv, [Next]_vars PROVE CallInv'
    OBVIOUS
  <2>1. CASE UNCHANGED vars
    <3>1. UNCHANGED <<panes, poll, chan, worker, slots, snapshot>>
      BY <2>1 DEF vars
    <3>2. \A p \in Pane : Departed(p) => Departed(p)'
      BY DepartedStays
    <3> QED
      BY <3>1, <3>2 DEF CallInv
  <2> QED
    BY <2>1, CallsInLoop, CallsAtWork, CallsAtPoll, CallsAtElapse, CallsAtHerdr DEF Next
<1> QED
  BY <1>1, <1>2, TypeCorrect, SlotsOfTheLiving, ListsOrdered, PTL DEF Spec

(* At most one call for a pane is anywhere between its dispatch and its    *)
(* result being applied, when herdr does not use a pane id again           *)
(* (plan_summaries, apply_update, apply_snapshot).                         *)
THEOREM OneCallEach ==
    ASSUME PanesReturn = FALSE
    PROVE  Spec => []OneCallPerPane
<1>1. CallInv => OneCallPerPane
  <2> SUFFICES ASSUME CallInv, NEW p \in Pane
               PROVE  Cardinality(Working(p)) + Cardinality(Queued(p)) <= 1
    BY DEF OneCallPerPane
  <2>1. Single(worker, chan, p) /\ Working(p) = Doing(worker, p) /\ Queued(p) = Sent(chan, p)
    BY DEF CallInv, Working, Queued, Doing, Sent
  <2>2. \A S : (\A x, y \in S : x = y) => Cardinality(S) = 0 \/ Cardinality(S) = 1
    <3> SUFFICES ASSUME NEW S, \A x, y \in S : x = y, S # {} PROVE Cardinality(S) = 1
      BY FS_EmptySet
    <3>1. PICK x \in S : S = {x}
      OBVIOUS
    <3> QED
      BY <3>1, FS_Singleton
  <2>3. /\ Cardinality(Working(p)) = 0 \/ Cardinality(Working(p)) = 1
        /\ Cardinality(Queued(p)) = 0 \/ Cardinality(Queued(p)) = 1
        /\ Cardinality(Working(p)) = 0 \/ Cardinality(Queued(p)) = 0
    BY <2>1, <2>2, FS_EmptySet DEF Single
  <2> QED
    BY <2>3
<1> QED
  BY <1>1, CallsCounted, PTL

(* in_flight is set just while a call for the agent is outstanding, when   *)
(* herdr does not use a pane id again.                                     *)
THEOREM InFlightTrue ==
    ASSUME PanesReturn = FALSE
    PROVE  Spec => []InFlightIsOutstanding
<1>1. CallInv => InFlightIsOutstanding
  BY DEF CallInv, InFlightIsOutstanding, Outstanding, Working, Queued, Out, Doing, Sent
<1> QED
  BY <1>1, CallsCounted, PTL

-----------------------------------------------------------------------------
(* The calls that are out, each as the update it is or will be.            *)
Jobs(tasks, c) ==
    {SummaryOf(tasks[w]) : w \in {v \in Worker : Active(tasks[v])}}
      \cup {c[i] : i \in {j \in DOMAIN c : c[j].kind = "Summary"}}

LEMMA JobsFacts ==
    ASSUME NEW tasks, NEW c, NEW p
    PROVE  /\ Out(tasks, c, p) <=> \E j \in Jobs(tasks, c) : j.pane = p
           /\ Single(tasks, c, p) => \A j, k \in Jobs(tasks, c) : j.pane = p /\ k.pane = p => j = k
<1>1. \A w \in Worker : Active(tasks[w]) /\ SummaryOf(tasks[w]).pane = p <=> w \in Doing(tasks, p)
  BY DEF Doing, SummaryOf
<1>2. \A i \in DOMAIN c : c[i].kind = "Summary" /\ c[i].pane = p <=> i \in Sent(c, p)
  BY DEF Sent
<1>3. \A j : j \in Jobs(tasks, c) /\ j.pane = p <=>
          \/ \E w \in Doing(tasks, p) : j = SummaryOf(tasks[w])
          \/ \E i \in Sent(c, p) : j = c[i]
  BY <1>1, <1>2 DEF Jobs, Doing, Sent
<1>4. Out(tasks, c, p) <=> \E j \in Jobs(tasks, c) : j.pane = p
  BY <1>3 DEF Out
<1>5. Single(tasks, c, p) => \A j, k \in Jobs(tasks, c) : j.pane = p /\ k.pane = p => j = k
  BY <1>3 DEF Single
<1> QED
  BY <1>4, <1>5

(* What a message less, or more, does to them. *)
LEMMA TailJobs ==
    ASSUME NEW c \in Seq(Update), c # <<>>, NEW tasks
    PROVE  Jobs(tasks, c) =
             IF Head(c).kind = "Summary" THEN Jobs(tasks, Tail(c)) \cup {Head(c)}
                                         ELSE Jobs(tasks, Tail(c))
<1>1. /\ Len(c) \in Nat /\ Len(c) >= 1
      /\ DOMAIN c = 1..Len(c) /\ DOMAIN Tail(c) = 1..(Len(c) - 1)
      /\ Head(c) = c[1]
      /\ \A i \in 1..(Len(c) - 1) : Tail(c)[i] = c[i + 1]
  BY TailFacts, HeadTailProperties, LenProperties
<1>2. ASSUME NEW m
      PROVE  (\E i \in DOMAIN c : c[i].kind = "Summary" /\ m = c[i]) <=>
               \/ \E i \in DOMAIN Tail(c) : Tail(c)[i].kind = "Summary" /\ m = Tail(c)[i]
               \/ Head(c).kind = "Summary" /\ m = Head(c)
  <2>1. ASSUME NEW i \in DOMAIN Tail(c), Tail(c)[i].kind = "Summary", m = Tail(c)[i]
        PROVE  \E k \in DOMAIN c : c[k].kind = "Summary" /\ m = c[k]
    <3>1. i + 1 \in DOMAIN c /\ Tail(c)[i] = c[i + 1]
      BY <1>1
    <3> QED
      BY <2>1, <3>1
  <2>2. ASSUME NEW i \in DOMAIN c, c[i].kind = "Summary", m = c[i], i # 1
        PROVE  \E k \in DOMAIN Tail(c) : Tail(c)[k].kind = "Summary" /\ m = Tail(c)[k]
    <3>1. i - 1 \in DOMAIN Tail(c) /\ i = (i - 1) + 1
      BY <1>1, <2>2
    <3>2. Tail(c)[i - 1] = c[i]
      BY <1>1, <3>1
    <3> QED
      BY <2>2, <3>1, <3>2
  <2>3. 1 \in DOMAIN c
    BY <1>1
  <2> QED
    BY <1>1, <2>1, <2>2, <2>3
<1> QED
  BY <1>2 DEF Jobs

LEMMA AppendJobs ==
    ASSUME NEW c \in Seq(Update), NEW m \in Update, NEW tasks
    PROVE  Jobs(tasks, Append(c, m)) =
             IF m.kind = "Summary" THEN Jobs(tasks, c) \cup {m} ELSE Jobs(tasks, c)
<1>1. /\ Len(c) \in Nat /\ DOMAIN c = 1..Len(c) /\ DOMAIN Append(c, m) = 1..(Len(c) + 1)
      /\ \A i \in 1..Len(c) : Append(c, m)[i] = c[i]
      /\ Append(c, m)[Len(c) + 1] = m
  BY AppendProperties, LenProperties
<1>2. DOMAIN Append(c, m) = DOMAIN c \cup {Len(c) + 1} /\ Len(c) + 1 \notin DOMAIN c
  BY <1>1
<1> QED
  BY <1>1, <1>2 DEF Jobs

(* A branch takes at most the result at the head of the channel.           *)
LEMMA BranchJobs ==
    ASSUME TypeOK, NEW snap, NEW sl, NEW tasks, Branch(snap, sl, tasks)
    PROVE  Jobs(worker, chan) =
             IF GetsResult(snap, sl, tasks) THEN Jobs(tasks, chan') \cup {Head(chan)}
                                            ELSE Jobs(tasks, chan')
<1>1. chan \in Seq(Update)
  BY DEF TypeOK
<1>2. CASE GetsResult(snap, sl, tasks)
  BY <1>1, <1>2, TailJobs DEF GetsResult
<1>3. CASE GetsList(snap, sl, tasks) \/ GetsStatus(snap, sl, tasks)
  BY <1>1, <1>3, TailJobs DEF GetsList, GetsStatus, GetsResult
<1>4. CASE GetsKey(snap, sl, tasks) \/ GetsTick(snap, sl, tasks) \/ GetsTask(snap, sl, tasks)
  <2>1. chan' = chan /\ ~GetsResult(snap, sl, tasks)
    BY <1>1, <1>4, TailFacts DEF GetsKey, GetsTick, GetsTask, GetsResult
  <2>2. Jobs(tasks, chan) = Jobs(worker, chan)
    <3>1. CASE tasks = worker
      BY <3>1
    <3>2. CASE GetsTask(snap, sl, tasks)
      <4>1. PICK w \in Worker : worker[w].phase = "done" /\ tasks = [worker EXCEPT ![w] = IdleTask]
        BY <3>2 DEF GetsTask
      <4>2. \A v \in Worker : /\ Active(tasks[v]) <=> Active(worker[v])
                              /\ Active(tasks[v]) => tasks[v] = worker[v]
        BY <4>1 DEF Active, IdleTask, TypeOK
      <4> QED
        BY <4>2 DEF Jobs
    <3> QED
      BY <1>4, <3>1, <3>2 DEF GetsKey, GetsTick
  <2> QED
    BY <2>1, <2>2
<1> QED
  BY <1>2, <1>3, <1>4 DEF Branch

(* A pass adds a call for each task it spawns. *)
LEMMA OutcomeJobs ==
    ASSUME NEW hire, NEW snap, NEW sl, NEW tasks, Outcome(hire, snap, sl, tasks), NEW c
    PROVE  Jobs(worker', c) = Jobs(tasks, c) \cup {SummaryOf(Hired(snap, hire[w])) : w \in DOMAIN hire}
<1>1. \A w \in Worker :
         IF w \in DOMAIN hire
         THEN worker'[w] = Hired(snap, hire[w]) /\ Active(worker'[w]) /\ ~Active(tasks[w])
         ELSE worker'[w] = tasks[w]
  BY DEF Outcome, Idle, Hired, Active
<1>2. DOMAIN hire \subseteq Worker
  BY DEF Outcome, Idle
<1> QED
  BY <1>1, <1>2 DEF Jobs

(* A step of a task hands its call on: the same agent, the same revision.  *)
LEMMA WorkJobs ==
    ASSUME TypeOK, NEW w \in Worker, Reads(w) \/ Calls(w) \/ WorkerSend(w)
    PROVE  \E j, k :
              /\ j \in Jobs(worker, chan) /\ k \in Jobs(worker', chan')
              /\ k.pane = j.pane /\ k.revision = j.revision
              /\ \/ k.result = j.result
                 \/ k.result = Failed
                 \/ k.result = Empty /\ j.pane \in BlankPane
                 \/ k.result = panes[j.pane].revision
              /\ Jobs(worker', chan') \subseteq Jobs(worker, chan) \cup {k}
              /\ Jobs(worker, chan) \subseteq Jobs(worker', chan') \cup {j}
<1>1. PICK t : /\ worker' = [worker EXCEPT ![w] = t]
               /\ \/ /\ Active(t)
                     /\ t.pane = worker[w].pane /\ t.revision = worker[w].revision
                     /\ \/ t.result = worker[w].result
                        \/ t.result = Failed
                        \/ t.result = Empty /\ worker[w].pane \in BlankPane
                        \/ t.result = panes[worker[w].pane].revision
                     /\ chan' = chan
                  \/ /\ t = DoneTask
                     /\ SummaryOf(worker[w]) \in Update
                     /\ chan' = Append(chan, SummaryOf(worker[w]))
  BY WorkFacts
<1>2. Active(worker[w]) /\ worker \in [Worker -> Task] /\ chan \in Seq(Update)
  BY WorkFacts DEF TypeOK
<1> DEFINE j == SummaryOf(worker[w])
<1>3. j \in Jobs(worker, chan)
  BY <1>2 DEF Jobs
<1>4. worker'[w] = t /\ \A v \in Worker \ {w} : worker'[v] = worker[v]
  BY <1>1, <1>2
<1>5. CASE Active(t) /\ chan' = chan
  <2> DEFINE k == SummaryOf(t)
  <2>1. /\ Jobs(worker', chan') \subseteq Jobs(worker, chan) \cup {k}
        /\ Jobs(worker, chan) \subseteq Jobs(worker', chan') \cup {j}
        /\ k \in Jobs(worker', chan')
    BY <1>4, <1>5 DEF Jobs
  <2>2. /\ k.pane = t.pane /\ k.revision = t.revision /\ k.result = t.result
        /\ j.pane = worker[w].pane /\ j.revision = worker[w].revision /\ j.result = worker[w].result
    BY DEF SummaryOf
  <2> HIDE DEF k, j
  <2>3. t # DoneTask
    BY <1>5 DEF Active, DoneTask
  <2> QED
    BY <1>1, <1>3, <2>1, <2>2, <2>3
<1>6. CASE t = DoneTask /\ j \in Update /\ chan' = Append(chan, j)
  <2>1. j.kind = "Summary"
    BY DEF SummaryOf
  <2> HIDE DEF j
  <2>2. Jobs(worker', chan') = Jobs(worker', chan) \cup {j}
    BY <1>2, <1>6, <2>1, AppendJobs
  <2>3. ~Active(t)
    BY <1>6 DEF Active, DoneTask
  <2>4. /\ Jobs(worker', chan) \subseteq Jobs(worker, chan)
        /\ Jobs(worker, chan) \subseteq Jobs(worker', chan) \cup {j}
    BY <1>4, <2>3 DEF Jobs, j
  <2> QED
    BY <1>3, <2>2, <2>4
<1> QED
  BY <1>1, <1>5, <1>6

-----------------------------------------------------------------------------
(* Output r of p is no news to anyone: the agent has printed as much, and   *)
(* so says every list on its way that shows it.                            *)
Below(p, r) ==
    /\ r <= panes[p].revision
    /\ \A k \in Moments : p \in DOMAIN View(k) => r <= View(k)[p].revision

JobOK(j) ==
    /\ Below(j.pane, j.revision)
    /\ j.result = Empty => j.pane \in BlankPane
    /\ j.result \in Revision =>
         /\ j.revision <= j.result /\ j.result <= panes[j.pane].revision
         /\ j.pane \in DOMAIN slots =>
              slots[j.pane].summary = None \/ slots[j.pane].summary <= j.result

SlotOK(p) ==
    /\ slots[p].summary # None => slots[p].summary <= panes[p].revision
    /\ slots[p].state.fromRevision # None => Below(p, slots[p].state.fromRevision)

RevInv ==
    /\ \A j \in Jobs(worker, chan) : JobOK(j)
    /\ \A p \in DOMAIN slots : SlotOK(p)

LEMMA JobsType ==
    ASSUME TypeOK, NEW j \in Jobs(worker, chan)
    PROVE  j.pane \in Pane /\ j.revision \in Revision /\ j.result \in Result \cup {None}
<1>1. CASE \E w \in Worker : Active(worker[w]) /\ j = SummaryOf(worker[w])
  BY <1>1 DEF TypeOK, Task, Active, SummaryOf
<1>2. CASE \E i \in DOMAIN chan : chan[i].kind = "Summary" /\ j = chan[i]
  <2>1. j \in Update /\ j.kind = "Summary"
    BY <1>2, ElementOfSeq, LenProperties DEF TypeOK
  <2> QED
    BY <2>1 DEF Update
<1> QED
  BY <1>1, <1>2 DEF Jobs

(* What an agent has printed stays printed, and the lists learn of it in   *)
(* their order.                                                            *)
LEMMA HerdrGrows ==
    ASSUME TypeOK, Herdr, PanesReturn = FALSE, NEW p \in Pane
    PROVE  /\ panes[p].revision \in Nat /\ panes'[p].revision \in Nat
           /\ panes[p].revision <= panes'[p].revision
<1>1. /\ panes \in [Pane -> PaneState] /\ panes' \in [Pane -> PaneState]
      /\ panes[p].revision <= panes'[p].revision
  BY HerdrFacts
<1> QED
  BY <1>1, OrchestratorAssumption DEF PaneState, Revision

LEMMA PanesGrow ==
    ASSUME TypeOK, [Next]_vars, PanesReturn = FALSE, NEW p \in Pane, NEW r \in Nat,
           r <= panes[p].revision
    PROVE  r <= panes'[p].revision
<1>1. CASE Herdr
  <2>1. /\ panes[p].revision \in Nat /\ panes'[p].revision \in Nat
        /\ panes[p].revision <= panes'[p].revision
    BY <1>1, HerdrGrows
  <2> QED
    BY <2>1
<1>2. CASE ~Herdr
  BY <1>2, StepShifts
<1> QED
  BY <1>1, <1>2

LEMMA BelowStays ==
    ASSUME TypeOK, [Next]_vars, PanesReturn = FALSE, ListInv,
           NEW p \in Pane, NEW r \in Nat, Below(p, r)
    PROVE  Below(p, r)'
<1>1. CASE Herdr
  <2>0. r <= panes[p].revision
    BY DEF Below
  <2>1. r <= panes'[p].revision
    BY <1>1, <2>0, PanesGrow
  <2>2. ASSUME NEW k \in Moments, p \in DOMAIN View(k)'
        PROVE  r <= View(k)'[p].revision
    <3>1. PICK N \in Moments : /\ \A i \in Moments : i # N => View(i)' = View(i)
                               /\ View(N)' = Reported'
      BY <1>1, HerdrViews DEF ListInv
    <3>2. CASE k = N
      BY <2>1, <2>2, <3>1, <3>2 DEF Reported
    <3> QED
      BY <2>2, <3>1, <3>2 DEF Below
  <2>3. Moments' = Moments
    BY <1>1, HerdrViews DEF ListInv
  <2> QED
    BY <2>1, <2>2, <2>3 DEF Below
<1>2. CASE ~Herdr
  <2>1. PICK f : Shifts(f) /\ panes' = panes
    BY <1>2, StepShifts
  <2> QED
    BY <2>1 DEF Below, Shifts
<1> QED
  BY <1>1, <1>2

(* Where no slot is told anything, jobs and slots stay as good as they are. *)
LEMMA JobStays ==
    ASSUME TypeOK, [Next]_vars, PanesReturn = FALSE, ListInv,
           NEW j, JobOK(j), j.pane \in Pane, j.revision \in Revision,
           j.pane \in DOMAIN slots' =>
              \/ slots'[j.pane].summary = None
              \/ j.pane \in DOMAIN slots /\ slots'[j.pane].summary = slots[j.pane].summary
    PROVE  JobOK(j)'
<1>1. j.revision \in Nat /\ \A r \in Revision : r \in Nat
  BY OrchestratorAssumption DEF Revision
<1>2. Below(j.pane, j.revision)'
  BY <1>1, BelowStays DEF JobOK
<1>3. j.result \in Revision => j.result <= panes'[j.pane].revision
  BY <1>1, PanesGrow DEF JobOK
<1> QED
  BY <1>2, <1>3 DEF JobOK

LEMMA SlotStays ==
    ASSUME TypeOK, [Next]_vars, PanesReturn = FALSE, ListInv,
           NEW p \in Pane, p \in DOMAIN slots, SlotOK(p),
           slots'[p].summary = slots[p].summary,
           slots'[p].state.fromRevision = slots[p].state.fromRevision
    PROVE  SlotOK(p)'
<1>1. slots[p] \in Slot
  BY DEF TypeOK
<1>2. /\ slots[p].summary \in Nat \cup {None}
      /\ slots[p].state.fromRevision \in Nat \cup {None}
  BY <1>1, OrchestratorAssumption DEF Slot, SummaryState, Revision
<1>3. slots[p].summary # None => slots[p].summary <= panes'[p].revision
  BY <1>2, PanesGrow DEF SlotOK
<1>4. PICK r : r = slots[p].state.fromRevision
  OBVIOUS
<1>5. r # None => Below(p, r)'
  BY <1>2, <1>4, BelowStays DEF SlotOK
<1> QED
  BY <1>3, <1>4, <1>5 DEF SlotOK, Below

(* What leaves the calls and what the slots know as they are. *)
LEMMA RevStays ==
    ASSUME TypeOK, [Next]_vars, PanesReturn = FALSE, ListInv, RevInv,
           Jobs(worker', chan') = Jobs(worker, chan),
           DOMAIN slots' = DOMAIN slots,
           \A p \in DOMAIN slots : /\ slots'[p].summary = slots[p].summary
                                   /\ slots'[p].state.fromRevision = slots[p].state.fromRevision
    PROVE  RevInv'
<1>1. ASSUME NEW j \in Jobs(worker, chan) PROVE JobOK(j)'
  BY JobsType, JobStays DEF RevInv
<1>2. ASSUME NEW p \in DOMAIN slots PROVE SlotOK(p)'
  BY SlotStays DEF RevInv, TypeOK
<1> QED
  BY <1>1, <1>2 DEF RevInv

(* The steps outside the loop. *)
LEMMA RevAtWork ==
    ASSUME TypeOK, PanesReturn = FALSE, ListInv, NoResurrection, RevInv, Work
    PROVE  RevInv'
<1>1. PICK w \in Worker : Reads(w) \/ Calls(w) \/ WorkerSend(w)
  BY DEF Work
<1>2. UNCHANGED <<panes, slots>> /\ panes \in [Pane -> PaneState] /\ DOMAIN slots \subseteq Pane
  BY <1>1, WorkFacts DEF TypeOK
<1>3. PICK j, k :
         /\ j \in Jobs(worker, chan)
         /\ k.pane = j.pane /\ k.revision = j.revision
         /\ \/ k.result = j.result
            \/ k.result = Failed
            \/ k.result = Empty /\ j.pane \in BlankPane
            \/ k.result = panes[j.pane].revision
         /\ Jobs(worker', chan') \subseteq Jobs(worker, chan) \cup {k}
  BY <1>1, WorkJobs
<1>4. ASSUME NEW i \in Jobs(worker, chan) PROVE JobOK(i)'
  BY <1>2, JobsType, JobStays DEF RevInv, Next
<1>5. JobOK(k)
  <2>0. \/ k.result = j.result
        \/ k.result = Failed \/ (k.result = Empty /\ j.pane \in BlankPane)
        \/ k.result = panes[j.pane].revision
    BY <1>3
  <2>1. JobOK(j) /\ j.pane \in Pane
    BY <1>3, JobsType DEF RevInv
  <2>2. CASE k.result = j.result
    BY <1>3, <2>1, <2>2 DEF JobOK
  <2>3. CASE k.result = Failed \/ (k.result = Empty /\ j.pane \in BlankPane)
    <3>1. Failed \notin Revision /\ Empty \notin Revision /\ Failed # Empty
      BY OrchestratorAssumption DEF Revision
    <3> QED
      BY <1>3, <2>1, <2>3, <3>1 DEF JobOK
  <2>4. CASE k.result = panes[j.pane].revision
    <3>1. k.result \in Revision /\ k.result \in Nat /\ k.result # Empty
      BY <1>2, <2>1, <2>4, OrchestratorAssumption DEF PaneState, Revision
    <3>2. j.revision <= k.result /\ k.result <= panes[j.pane].revision
      BY <2>1, <2>4, <3>1 DEF JobOK, Below
    <3>3. j.pane \in DOMAIN slots => slots[j.pane].summary = None \/ slots[j.pane].summary <= k.result
      BY <2>4 DEF RevInv, SlotOK
    <3> QED
      BY <1>3, <2>1, <3>1, <3>2, <3>3 DEF JobOK
  <2> QED
    BY <2>0, <2>2, <2>3, <2>4
<1>6. JobOK(k)'
  BY <1>2, <1>3, <1>5, JobsType, JobStays DEF Next
<1>7. ASSUME NEW p \in DOMAIN slots PROVE SlotOK(p)'
  BY <1>2, SlotStays DEF RevInv, Next
<1> QED
  BY <1>2, <1>3, <1>4, <1>6, <1>7 DEF RevInv

LEMMA PollKeepsJobs ==
    ASSUME TypeOK, CallInv, Poller
    PROVE  Jobs(worker', chan') = Jobs(worker, chan)
<1>1. UNCHANGED <<worker, slots>>
  BY DEF Poller, PollAnswered, PollFailed, PollSend, loopVars
<1>2. CASE PollSend
  <2>0. poll # None /\ poll.kind # "Summary"
    BY <1>2 DEF PollSend, CallInv
  <2>1. poll \in Update /\ chan \in Seq(Update)
    BY <2>0 DEF TypeOK
  <2> QED
    BY <1>1, <1>2, <2>0, <2>1, AppendJobs DEF PollSend
<1> QED
  BY <1>1, <1>2 DEF Poller, PollAnswered, PollFailed

LEMMA RevAtPoll ==
    ASSUME TypeOK, PanesReturn = FALSE, ListInv, CallInv, RevInv, Poller
    PROVE  RevInv'
<1>1. slots' = slots
  BY DEF Poller, PollAnswered, PollFailed, PollSend, loopVars
<1> QED
  BY <1>1, PollKeepsJobs, RevStays DEF Next

LEMMA ElapseKeeps ==
    ASSUME TypeOK, Elapse, NEW p \in DOMAIN slots
    PROVE  /\ slots'[p].summary = slots[p].summary
           /\ slots'[p].state = Age(slots[p].state)
           /\ slots[p].state \in SummaryState
<1>1. slots[p] \in Slot /\ slots[p].state \in SummaryState
  BY DEF TypeOK, Slot
<1> QED
  BY <1>1 DEF Elapse, Slot

LEMMA RevAtElapse ==
    ASSUME TypeOK, PanesReturn = FALSE, ListInv, RevInv, Elapse
    PROVE  RevInv'
<1>1. UNCHANGED <<worker, chan>> /\ DOMAIN slots' = DOMAIN slots
  BY DEF Elapse
<1>2. ASSUME NEW p \in DOMAIN slots
      PROVE  /\ slots'[p].summary = slots[p].summary
             /\ slots'[p].state.fromRevision = slots[p].state.fromRevision
  BY ElapseKeeps DEF Age, SummaryState
<1> QED
  BY <1>1, <1>2, RevStays DEF Next

LEMMA RevAtHerdr ==
    ASSUME TypeOK, PanesReturn = FALSE, ListInv, RevInv, Herdr
    PROVE  RevInv'
BY HerdrFacts, RevStays DEF Next

-----------------------------------------------------------------------------
(* The turn of the loop, as one pane sees it. *)

(* A slot that is there before and after was there for the pass. *)
LEMMA SlotThroughout ==
    ASSUME TypeOK, NEW snap, NEW sl, NEW tasks, NEW hire, Branch(snap, sl, tasks),
           Outcome(hire, snap, sl, tasks), NEW p \in DOMAIN slots'
    PROVE  p \in DOMAIN slots => p \in DOMAIN sl
<1>1. CASE GetsList(snap, sl, tasks)
  <2>1. DOMAIN sl = DOMAIN slots \cap DOMAIN snap
    BY <1>1, PrunedType, SlotsType DEF GetsList, TypeOK
  <2> QED
    BY <2>1 DEF Outcome
<1> QED
  BY <1>1, BranchTypes

(* Once its result is taken, no call of an agent is out. *)
LEMMA ResultTaken ==
    ASSUME TypeOK, CallInv, NEW snap, NEW sl, NEW tasks, GetsResult(snap, sl, tasks)
    PROVE  /\ Head(chan) \in Jobs(worker, chan)
           /\ Head(chan).pane \in Pane
           /\ Head(chan).revision \in Revision /\ Head(chan).result \in Result
           /\ \A j \in Jobs(tasks, chan') : j.pane # Head(chan).pane
<1>1. /\ chan \in Seq(Update) /\ chan # <<>> /\ Head(chan).kind = "Summary"
      /\ Head(chan) \in Update /\ tasks = worker /\ chan' = Tail(chan)
  BY HeadType DEF TypeOK, GetsResult
<1>2. /\ Head(chan).pane \in Pane
      /\ Head(chan).revision \in Revision /\ Head(chan).result \in Result
  BY <1>1 DEF Update
<1>3. ~Out(tasks, chan', Head(chan).pane)
  BY <1>1, <1>2, TailCalls DEF CallInv
<1> QED
  BY <1>1, <1>2, <1>3, JobsFacts, TailJobs

(* A result taken is no newer than any list on its way, and a call that    *)
(* begins is for what the list at hand says.                               *)
LEMMA RevInLoop ==
    ASSUME TypeOK, TypeOK', PanesReturn = FALSE, ListInv, ListInv', CallInv, RevInv, Loop
    PROVE  RevInv'
<1>1. PICK snap, sl, tasks, hire :
         /\ snap \in Snapshots /\ sl \in Slots /\ tasks \in [Worker -> Task]
         /\ Branch(snap, sl, tasks) /\ Outcome(hire, snap, sl, tasks)
  BY LoopTurn
<1>2. panes' = panes /\ snapshot' = snap /\ [Next]_vars
  BY <1>1, LoopTurn DEF Outcome, Next
<1>3. Jobs(worker', chan') = Jobs(tasks, chan') \cup {SummaryOf(Hired(snap, hire[w])) : w \in DOMAIN hire}
  BY <1>1, OutcomeJobs
<1>4. Jobs(tasks, chan') \subseteq Jobs(worker, chan)
  BY <1>1, BranchJobs
<1>5. ASSUME NEW p \in DOMAIN slots'
      PROVE  /\ p \in Pane
             /\ slots'[p].summary = SlotOf(sl, p).summary
             /\ slots'[p].state.fromRevision = SlotOf(sl, p).state.fromRevision
             /\ p \in DOMAIN slots => p \in DOMAIN sl
  <2>1. p \in Pane
    BY DEF TypeOK
  <2>2. p \in DOMAIN slots => p \in DOMAIN sl
    BY <1>1, SlotThroughout
  <2>3. Planned(slots'[p], SlotOf(sl, p), snap, p, p \in Range(hire))
    BY <1>1 DEF Outcome
  <2> QED
    BY <2>1, <2>2, <2>3 DEF Planned, Seen
<1>6. ASSUME NEW p \in DOMAIN slots', p \notin DOMAIN slots
      PROVE  slots'[p].summary = None /\ slots'[p].state.fromRevision = None
  <2>1. Kept(SlotOf(sl, p), SlotOf(slots, p))
    BY <1>1, <1>5, <1>6, BranchSlots
  <2>2. SlotOf(slots, p) = DefaultSlot
    BY <1>6 DEF SlotOf
  <2> QED
    BY <1>5, <2>1, <2>2 DEF Kept, DefaultSlot, DefaultState
<1>7. ASSUME NEW p \in DOMAIN slots', p \in DOMAIN slots,
             ~(GetsResult(snap, sl, tasks) /\ Head(chan).pane = p)
      PROVE  /\ slots'[p].summary = slots[p].summary
             /\ slots'[p].state.fromRevision = slots[p].state.fromRevision
  <2>1. Kept(SlotOf(sl, p), SlotOf(slots, p))
    BY <1>1, <1>5, <1>7, BranchSlots
  <2> QED
    BY <1>5, <1>7, <2>1 DEF Kept, SlotOf
<1>8. ASSUME NEW j \in Jobs(tasks, chan') PROVE JobOK(j)'
  <2>1. JobOK(j) /\ j.pane \in Pane /\ j.revision \in Revision
    BY <1>4, JobsType DEF RevInv
  <2>2. GetsResult(snap, sl, tasks) => Head(chan).pane # j.pane
    BY ResultTaken
  <2>3. j.pane \in DOMAIN slots' =>
           \/ slots'[j.pane].summary = None
           \/ j.pane \in DOMAIN slots /\ slots'[j.pane].summary = slots[j.pane].summary
    BY <1>6, <1>7, <2>2
  <2> QED
    BY <1>2, <2>1, <2>3, JobStays
<1>9. ASSUME NEW w \in DOMAIN hire PROVE JobOK(SummaryOf(Hired(snap, hire[w])))'
  <2>1. hire[w] \in DOMAIN snap
    BY <1>1 DEF Outcome
  <2>2. PICK j : j = SummaryOf(Hired(snap, hire[w]))
    OBVIOUS
  <2>3. j.pane = hire[w] /\ j.revision = snap[hire[w]].revision /\ j.result = None
    BY <2>2 DEF SummaryOf, Hired
  <2>4. 0 \in Moments' /\ View(0)' = snap /\ \A k \in Moments' : 0 <= k
    <3>1. Len(chan') \in Nat
      BY LoopTurn, LenProperties
    <3> QED
      BY <1>2, <3>1 DEF Moments, IsView, View
  <2>5. Below(j.pane, j.revision)'
    BY <2>1, <2>3, <2>4 DEF Below, ListInv, Growing, Born
  <2>6. None # Empty /\ None \notin Revision
    BY OrchestratorAssumption DEF Revision
  <2>7. JobOK(j)'
    BY <2>3, <2>5, <2>6 DEF JobOK
  <2> QED
    BY <2>2, <2>7 DEF JobOK, Below
<1>10. ASSUME NEW p \in DOMAIN slots' PROVE SlotOK(p)'
  <2>1. CASE p \notin DOMAIN slots
    BY <1>6, <2>1 DEF SlotOK
  <2>2. CASE p \in DOMAIN slots /\ ~(GetsResult(snap, sl, tasks) /\ Head(chan).pane = p)
    BY <1>2, <1>5, <1>7, <2>2, SlotStays DEF RevInv
  <2>3. CASE p \in DOMAIN slots /\ GetsResult(snap, sl, tasks) /\ Head(chan).pane = p
    <3> DEFINE u == Head(chan)
    <3>1. JobOK(u) /\ u.revision \in Revision /\ u.result \in Result /\ u.pane = p
      BY <2>3, ResultTaken DEF RevInv
    <3>2. Answered(SlotOf(sl, p), SlotOf(slots, p), u)
      BY <1>1, <1>5, <2>3, BranchSlots
    <3>3. PICK r : r = u.revision
      OBVIOUS
    <3>4. Below(p, r)' /\ slots'[p].state.fromRevision = r
      <4>1. r \in Nat /\ Below(p, r)
        BY <3>1, <3>3, OrchestratorAssumption DEF JobOK, Revision
      <4>2. slots'[p].state.fromRevision = r
        BY <1>5, <3>2, <3>3 DEF Answered
      <4> QED
        BY <1>2, <1>5, <4>1, <4>2, BelowStays
    <3>5. slots'[p].summary = None \/ slots'[p].summary <= panes'[p].revision
      <4>1. CASE slots'[p].summary = slots[p].summary
        BY <1>2, <2>3, <4>1 DEF RevInv, SlotOK
      <4>2. CASE u.result \in Revision /\ slots'[p].summary = u.result
        BY <1>2, <3>1, <4>2 DEF JobOK
      <4> QED
        BY <1>5, <2>3, <3>2, <4>1, <4>2 DEF Answered, SlotOf
    <3> QED
      BY <3>4, <3>5 DEF SlotOK, Below
  <2> QED
    BY <2>1, <2>2, <2>3
<1> QED
  BY <1>3, <1>8, <1>9, <1>10 DEF RevInv

LEMMA RevisionsAgree ==
    ASSUME PanesReturn = FALSE
    PROVE  Spec => []RevInv
<1>1. Init => RevInv
  <2> SUFFICES ASSUME Init PROVE RevInv
    OBVIOUS
  <2>1. Jobs(worker, chan) = {}
    BY DEF Init, Jobs, IdleTask, Active
  <2> QED
    BY <2>1 DEF Init, RevInv
<1>2. TypeOK /\ TypeOK' /\ NoResurrection /\ ListInv /\ ListInv' /\ CallInv /\ RevInv /\ [Next]_vars
        => RevInv'
  <2> SUFFICES ASSUME TypeOK, TypeOK', NoResurrection, ListInv, ListInv', CallInv, RevInv,
                      [Next]_vars
               PROVE  RevInv'
    OBVIOUS
  <2>1. CASE UNCHANGED vars
    BY <2>1, RevStays DEF vars
  <2> QED
    BY <2>1, RevInLoop, RevAtWork, RevAtPoll, RevAtElapse, RevAtHerdr DEF Next
<1> QED
  BY <1>1, <1>2, TypeCorrect, SlotsOfTheLiving, ListsOrdered, CallsCounted, PTL DEF Spec

-----------------------------------------------------------------------------
(* The entry the mapping makes of a slot and the output of a call. *)
DueOf(st) == (IF st.forced THEN {"refresh"} ELSE {})
               \cup (IF st.pendingBypass THEN {"urgent"} ELSE {})
FailedOf(st) == st.failures > 0

Record(due, call, covered, failed, shown) ==
    [due |-> due, call |-> call, covered |-> covered, failed |-> failed, shown |-> shown]

EntryWith(slot, call) ==
    Record(DueOf(slot.state), call, slot.state.fromRevision, FailedOf(slot.state), slot.summary)

LEMMA RecordFields ==
    ASSUME NEW d, NEW c, NEW v, NEW f, NEW s, NEW r, r = Record(d, c, v, f, s)
    PROVE  r.due = d /\ r.call = c /\ r.covered = v /\ r.failed = f /\ r.shown = s
<1>1. r.due = d /\ r.call = c /\ r.covered = v /\ r.shown = s
  BY DEF Record
<1>2. r.failed = f
  BY DEF Record
<1> QED
  BY <1>1, <1>2

(* How a call may end. TRUE and FALSE are kept from the provers, which do  *)
(* not see that a field may hold them.                                     *)
LEMMA Ended ==
    ASSUME NEW d, NEW c, NEW v, NEW f, NEW s, NEW e, e = Record(d, c, v, f, s), c # None,
           NEW p
    PROVE  /\ Record(d, None, c, TRUE, s) \in Ledger!Outcomes(p, e)
           /\ p \in BlankPane => Record(d, None, c, FALSE, s) \in Ledger!Outcomes(p, e)
           /\ \A t \in Revision : t >= c /\ (s # None => t >= s) =>
                 Record(d, None, c, FALSE, t) \in Ledger!Outcomes(p, e)
<1> DEFINE yes     == TRUE
           no      == FALSE
           ended   == [e EXCEPT !.call = None, !.covered = e.call]
           settled == [ended EXCEPT !.failed = no]
           texts   == {t \in Revision : t >= e.call /\ (e.shown # None => t >= e.shown)}
<1>1. Ledger!Outcomes(p, e) =
        IF e.call = None THEN {}
        ELSE {[ended EXCEPT !.failed = yes]}
               \cup (IF p \in BlankPane THEN {settled} ELSE {})
               \cup {[settled EXCEPT !.shown = t] : t \in texts}
  BY DEF Ledger!Outcomes
<1> HIDE DEF yes, no
<1>2. e.call = c /\ e.shown = s
  BY RecordFields
<1>3. ended = Record(d, None, c, f, s)
  <2>1. PICK g : g = [e EXCEPT !.call = None]
    OBVIOUS
  <2>2. g = Record(d, None, v, f, s)
    BY <2>1 DEF Record
  <2>3. [g EXCEPT !.covered = c] = Record(d, None, c, f, s)
    BY <2>2 DEF Record
  <2> QED
    BY <1>2, <2>1, <2>3, Zenon
<1> HIDE DEF ended
<1>4. [ended EXCEPT !.failed = yes] = Record(d, None, c, yes, s)
  BY <1>3 DEF Record
<1>5. settled = Record(d, None, c, no, s)
  BY <1>3 DEF Record, settled
<1> HIDE DEF settled
<1>6. \A t : [settled EXCEPT !.shown = t] = Record(d, None, c, no, t)
  BY <1>5 DEF Record
<1>7. Record(d, None, c, yes, s) \in Ledger!Outcomes(p, e)
  BY <1>1, <1>2, <1>4
<1>8. p \in BlankPane => Record(d, None, c, no, s) \in Ledger!Outcomes(p, e)
  BY <1>1, <1>2, <1>5
<1>9. \A t \in Revision : t >= c /\ (s # None => t >= s) =>
         Record(d, None, c, no, t) \in Ledger!Outcomes(p, e)
  BY <1>1, <1>2, <1>6
<1> QED
  BY <1>7, <1>8, <1>9 DEF yes, no

LEMMA DueFacts ==
    ASSUME NEW st
    PROVE  /\ DueOf(st) \subseteq {"refresh", "urgent"}
           /\ "refresh" \in DueOf(st) <=> st.forced
           /\ "urgent" \in DueOf(st) <=> st.pendingBypass
BY DEF DueOf

LEMMA FailedFacts ==
    ASSUME NEW st
    PROVE  /\ FailedOf(st) \in BOOLEAN /\ (FailedOf(st) <=> st.failures > 0)
           /\ st.failures > 0 => FailedOf(st) = TRUE
           /\ ~(st.failures > 0) => FailedOf(st) = FALSE
BY DEF FailedOf

CallAmong(tasks, c, p) ==
    LET called == {tasks[w].revision : w \in Doing(tasks, p)} \cup {c[i].revision : i \in Sent(c, p)}
    IN IF called = {} THEN None ELSE CHOOSE r \in called : TRUE

LEMMA EntryOfFacts ==
    ASSUME NEW p
    PROVE  /\ EntryOf(p) = IF p \in DOMAIN slots
                           THEN EntryWith(slots[p], CallAmong(worker, chan, p)) ELSE None
           /\ EntryOf(p)' = IF p \in DOMAIN slots'
                            THEN EntryWith(slots'[p], CallAmong(worker', chan', p)) ELSE None
<1>1. CallFor(p) = CallAmong(worker, chan, p) /\ CallFor(p)' = CallAmong(worker', chan', p)
  BY DEF CallFor, CallAmong, Working, Queued, Doing, Sent
<1> QED
  BY <1>1 DEF EntryOf, EntryWith, Record, DueOf, FailedOf

LEMMA CallAmongFacts ==
    ASSUME NEW tasks, NEW c, NEW p, Single(tasks, c, p)
    PROVE  /\ \A j \in Jobs(tasks, c) : j.pane = p => CallAmong(tasks, c, p) = j.revision
           /\ (\A j \in Jobs(tasks, c) : j.pane # p) => CallAmong(tasks, c, p) = None
<1> DEFINE called == {tasks[w].revision : w \in Doing(tasks, p)} \cup {c[i].revision : i \in Sent(c, p)}
<1>1. \A r : r \in called <=> \E j \in Jobs(tasks, c) : j.pane = p /\ r = j.revision
  <2>1. \A w \in Doing(tasks, p) : /\ SummaryOf(tasks[w]) \in Jobs(tasks, c)
                                   /\ SummaryOf(tasks[w]).pane = p
                                   /\ SummaryOf(tasks[w]).revision = tasks[w].revision
    BY DEF Doing, Jobs, SummaryOf
  <2>2. \A i \in Sent(c, p) : c[i] \in Jobs(tasks, c) /\ c[i].pane = p
    BY DEF Sent, Jobs
  <2>3. ASSUME NEW j \in Jobs(tasks, c), j.pane = p PROVE j.revision \in called
    <3>1. CASE \E w \in Worker : Active(tasks[w]) /\ j = SummaryOf(tasks[w])
      BY <2>3, <3>1 DEF Doing, SummaryOf
    <3>2. CASE \E i \in DOMAIN c : c[i].kind = "Summary" /\ j = c[i]
      BY <2>3, <3>2 DEF Sent
    <3> QED
      BY <3>1, <3>2 DEF Jobs
  <2> QED
    BY <2>1, <2>2, <2>3
<1>2. CallAmong(tasks, c, p) = IF called = {} THEN None ELSE CHOOSE r \in called : TRUE
  BY DEF CallAmong
<1> HIDE DEF called
<1>3. ASSUME NEW j \in Jobs(tasks, c), j.pane = p PROVE CallAmong(tasks, c, p) = j.revision
  <2>1. called = {j.revision}
    BY <1>1, <1>3, JobsFacts
  <2> QED
    BY <1>2, <2>1
<1>4. ASSUME \A j \in Jobs(tasks, c) : j.pane # p PROVE CallAmong(tasks, c, p) = None
  BY <1>1, <1>2, <1>4
<1> QED
  BY <1>3, <1>4

(* No call that is out changes, so none changes its output. *)
LEMMA SameCall ==
    ASSUME NEW p, NEW tasks, NEW c, NEW after, NEW d, Single(tasks, c, p), Single(after, d, p),
           \A j, k : /\ j \in Jobs(tasks, c) /\ j.pane = p =>
                          \E i \in Jobs(after, d) : i.pane = p /\ i.revision = j.revision
                     /\ k \in Jobs(after, d) /\ k.pane = p =>
                          \E i \in Jobs(tasks, c) : i.pane = p
    PROVE  CallAmong(after, d, p) = CallAmong(tasks, c, p)
<1>1. CASE \E j \in Jobs(tasks, c) : j.pane = p
  BY <1>1, CallAmongFacts
<1>2. CASE \A j \in Jobs(tasks, c) : j.pane # p
  BY <1>2, CallAmongFacts
<1> QED
  BY <1>1, <1>2

LEMMA EntryType ==
    ASSUME NEW slot \in Slot, slot.state.fromRevision \in Revision \cup {None},
           NEW call \in Revision \cup {None}
    PROVE  EntryWith(slot, call) \in Ledger!Entry /\ EntryWith(slot, call) # None
<1>1. EntryWith(slot, call) \in Ledger!Entry
  BY DueFacts, FailedFacts DEF EntryWith, Record, Slot, Ledger!Entry, Ledger!Trigger
<1> QED
  BY <1>1, UnlistedAssumption DEF Ledger!Unlisted

LEMMA EntryOfNew == EntryWith(DefaultSlot, None) = Ledger!NewEntry
<1>1. /\ ~DefaultSlot.state.forced /\ ~DefaultSlot.state.pendingBypass
      /\ DefaultSlot.state.fromRevision = None /\ DefaultSlot.summary = None
      /\ ~(DefaultSlot.state.failures > 0)
  BY DEF DefaultSlot, DefaultState
<1>2. DueOf(DefaultSlot.state) = {} /\ FailedOf(DefaultSlot.state) = FALSE
  BY <1>1, DueFacts, FailedFacts
<1> QED
  BY <1>1, <1>2 DEF EntryWith, Record, Ledger!NewEntry

(* The branch ends a call, or hears what is asked. *)
EndsOrAsks(p, old, new) ==
    \/ new = old
    \/ new = [old EXCEPT !.due = @ \cup {"refresh"}]
    \/ new \in Ledger!Outcomes(p, old)

LEMMA BranchEntry ==
    ASSUME TypeOK, NoResurrection, NoResurrection', ListInv, PanesReturn = FALSE, CallInv, RevInv,
           Loop, NEW snap, NEW sl, NEW tasks, NEW hire, Branch(snap, sl, tasks),
           snap \in Snapshots, sl \in Slots, Outcome(hire, snap, sl, tasks),
           NEW p \in DOMAIN slots',
           NEW old, old = EntryWith(SlotOf(slots, p), CallAmong(worker, chan, p)),
           NEW new, new = EntryWith(SlotOf(sl, p), CallAmong(tasks, chan', p))
    PROVE  /\ p \in DOMAIN slots => old = EntryOf(p)
           /\ p \notin DOMAIN slots => CallAmong(worker, chan, p) = None
           /\ EndsOrAsks(p, old, new)
           /\ p \notin DOMAIN slots => new \notin Ledger!Outcomes(p, old)
<1> DEFINE u   == Head(chan)
           hit == GetsResult(snap, sl, tasks) /\ p \in DOMAIN slots /\ u.pane = p
<1>1. p \in Pane /\ (p \in DOMAIN slots => p \in DOMAIN sl)
  BY SlotsType, SlotThroughout DEF Outcome
<1>2. Single(worker, chan, p) /\ Single(tasks, chan', p)
  BY <1>1, BranchCalls DEF CallInv, CallMid
<1>3. p \in DOMAIN slots => old = EntryOf(p)
  BY EntryOfFacts DEF SlotOf
<1>4. p \notin DOMAIN slots => ~Out(worker, chan, p)
  <2>1. p \in DOMAIN snapshot'
    BY DEF NoResurrection
  <2>2. 0 \in Moments' /\ View(0)' = snapshot'
    BY LoopTurn, LenProperties DEF Moments, IsView, View
  <2>3. Departed(p) => Departed(p)'
    BY <1>1, DepartedStays DEF Next
  <2> QED
    BY <1>1, <2>1, <2>2, <2>3 DEF CallInv, Departed
<1>5. p \notin DOMAIN slots => old = EntryWith(DefaultSlot, None)
  <2> SUFFICES ASSUME p \notin DOMAIN slots PROVE old = EntryWith(DefaultSlot, None)
    OBVIOUS
  <2>1. SlotOf(slots, p) = DefaultSlot
    BY DEF SlotOf
  <2>2. CallAmong(worker, chan, p) = None
    BY <1>2, <1>4, CallAmongFacts, JobsFacts
  <2> QED
    BY <2>1, <2>2
<1>6. ASSUME ~hit PROVE EndsOrAsks(p, old, new)
  <2>1. CallAmong(tasks, chan', p) = CallAmong(worker, chan, p)
    <3>1. \A j : j.pane = p => (j \in Jobs(worker, chan) <=> j \in Jobs(tasks, chan'))
      <4>1. CASE ~GetsResult(snap, sl, tasks)
        BY <4>1, BranchJobs
      <4>2. CASE GetsResult(snap, sl, tasks)
        <5>1. Jobs(worker, chan) = Jobs(tasks, chan') \cup {u} /\ u \in Jobs(worker, chan)
          BY <4>2, BranchJobs, ResultTaken
        <5>2. u.pane # p
          BY <1>4, <1>6, <4>2, <5>1, JobsFacts
        <5> QED
          BY <5>1, <5>2
      <4> QED
        BY <4>1, <4>2
    <3> QED
      BY <1>2, <3>1, SameCall
  <2>2. /\ Kept(SlotOf(sl, p), SlotOf(slots, p))
        /\ \/ SlotOf(sl, p).state.forced <=> SlotOf(slots, p).state.forced
           \/ SlotOf(sl, p).state.forced
    BY <1>1, <1>6, BranchSlots
  <2>3. FailedOf(SlotOf(sl, p).state) = FailedOf(SlotOf(slots, p).state)
    BY <2>2 DEF Kept, FailedOf
  <2>4. \/ DueOf(SlotOf(sl, p).state) = DueOf(SlotOf(slots, p).state)
        \/ DueOf(SlotOf(sl, p).state) = DueOf(SlotOf(slots, p).state) \cup {"refresh"}
    <3>1. SlotOf(sl, p).state.pendingBypass <=> SlotOf(slots, p).state.pendingBypass
      BY <2>2 DEF Kept
    <3>2. CASE SlotOf(sl, p).state.forced <=> SlotOf(slots, p).state.forced
      BY <3>1, <3>2 DEF DueOf
    <3>3. CASE SlotOf(sl, p).state.forced
      BY <3>1, <3>3 DEF DueOf
    <3> QED
      BY <2>2, <3>2, <3>3
  <2>5. new = old \/ new = [old EXCEPT !.due = @ \cup {"refresh"}]
    <3> DEFINE due == DueOf(SlotOf(slots, p).state)
               call == CallAmong(worker, chan, p)
               from == SlotOf(slots, p).state.fromRevision
               failed == FailedOf(SlotOf(slots, p).state)
               shown == SlotOf(slots, p).summary
    <3>1. old = Record(due, call, from, failed, shown)
      BY DEF EntryWith
    <3>2. new = Record(DueOf(SlotOf(sl, p).state), call, from, failed, shown)
      BY <2>1, <2>2, <2>3 DEF EntryWith, Kept
    <3> HIDE DEF due, call, from, failed, shown
    <3>3. [old EXCEPT !.due = @ \cup {"refresh"}] = Record(due \cup {"refresh"}, call, from, failed, shown)
      BY <3>1 DEF Record
    <3> QED
      BY <2>4, <3>1, <3>2, <3>3 DEF due
  <2> QED
    BY <2>5 DEF EndsOrAsks
<1>7. ASSUME hit PROVE EndsOrAsks(p, old, new)
  <2>1. /\ u \in Jobs(worker, chan) /\ u.revision \in Revision /\ u.result \in Result
        /\ \A j \in Jobs(tasks, chan') : j.pane # p
    BY <1>7, ResultTaken
  <2>2. CallAmong(worker, chan, p) = u.revision /\ CallAmong(tasks, chan', p) = None
    BY <1>2, <1>7, <2>1, CallAmongFacts
  <2>3. Answered(SlotOf(sl, p), SlotOf(slots, p), u)
    BY <1>1, <1>7, BranchSlots
  <2>4. JobOK(u)
    BY <2>1 DEF RevInv
  <2>5. new \in Ledger!Outcomes(p, old)
    <3>1. PICK d, c, v, f, s :
             /\ d = DueOf(SlotOf(slots, p).state) /\ c = u.revision
             /\ v = SlotOf(slots, p).state.fromRevision
             /\ f = FailedOf(SlotOf(slots, p).state) /\ s = slots[p].summary
      OBVIOUS
    <3>2. old = Record(d, c, v, f, s)
      BY <1>7, <2>2, <3>1 DEF EntryWith, SlotOf
    <3>3. c # None
      BY <2>1, <3>1, OrchestratorAssumption DEF Revision
    <3>4. /\ DueOf(SlotOf(sl, p).state) = d
          /\ SlotOf(sl, p).state.fromRevision = c
      BY <2>3, <3>1, DueFacts DEF Answered
    <3>5. new = Record(d, None, c, FailedOf(SlotOf(sl, p).state), SlotOf(sl, p).summary)
      BY <2>2, <3>4 DEF EntryWith
    <3> DEFINE yes == TRUE
               no  == FALSE
    <3>6. SlotOf(sl, p).state.failures > 0 => FailedOf(SlotOf(sl, p).state) = yes
      BY FailedFacts
    <3>7. SlotOf(sl, p).state.failures = 0 => FailedOf(SlotOf(sl, p).state) = no
      <4>1. SlotOf(sl, p).state.failures = 0 => ~(SlotOf(sl, p).state.failures > 0)
        OBVIOUS
      <4> QED
        BY <4>1, FailedFacts
    <3>8. /\ Record(d, None, c, yes, s) \in Ledger!Outcomes(p, old)
          /\ p \in BlankPane => Record(d, None, c, no, s) \in Ledger!Outcomes(p, old)
          /\ \A t \in Revision : t >= c /\ (s # None => t >= s) =>
                Record(d, None, c, no, t) \in Ledger!Outcomes(p, old)
      BY <3>2, <3>3, Ended
    <3> HIDE DEF yes, no
    <3>9. CASE u.result = Failed /\ SlotOf(sl, p).state.failures > 0
               /\ SlotOf(sl, p).summary = SlotOf(slots, p).summary
      BY <1>7, <3>1, <3>5, <3>6, <3>8, <3>9 DEF SlotOf
    <3>10. CASE u.result = Empty /\ SlotOf(sl, p).state.failures = 0
                /\ SlotOf(sl, p).summary = SlotOf(slots, p).summary
      <4>1. p \in BlankPane
        BY <1>7, <2>4, <3>10 DEF JobOK
      <4> QED
        BY <1>7, <3>1, <3>5, <3>7, <3>8, <3>10, <4>1 DEF SlotOf
    <3>11. CASE u.result \in Revision /\ SlotOf(sl, p).state.failures = 0
                /\ SlotOf(sl, p).summary = u.result
      <4>1. u.result >= c /\ (s # None => u.result >= s)
        BY <1>7, <2>4, <3>1, <3>11 DEF JobOK
      <4> QED
        BY <3>5, <3>7, <3>8, <3>11, <4>1
    <3> QED
      BY <2>3, <3>9, <3>10, <3>11 DEF Answered
  <2> QED
    BY <2>5 DEF EndsOrAsks
<1>9. p \notin DOMAIN slots => CallAmong(worker, chan, p) = None
  BY <1>2, <1>4, CallAmongFacts, JobsFacts
<1>8. p \notin DOMAIN slots => new \notin Ledger!Outcomes(p, old)
  <2>1. p \notin DOMAIN slots => old.call = None
    BY <1>5, EntryOfNew DEF Ledger!NewEntry
  <2> QED
    BY <2>1 DEF Ledger!Outcomes
<1> QED
  BY <1>3, <1>6, <1>7, <1>8, <1>9

-----------------------------------------------------------------------------
(* The pass hears of an urgent edge, or begins a call. *)
LEMMA PassEntry ==
    ASSUME TypeOK, NoResurrection, ListInv, PanesReturn = FALSE, CallInv, CallInv', RevInv',
           Loop, NEW snap, NEW sl, NEW tasks, NEW hire, Branch(snap, sl, tasks),
           snap \in Snapshots, sl \in Slots, Outcome(hire, snap, sl, tasks),
           NEW p \in DOMAIN slots'
    PROVE  LET old == EntryWith(SlotOf(sl, p), CallAmong(tasks, chan', p))
               new == EntryWith(slots'[p], CallAmong(worker', chan', p))
           IN \/ \E d \in SUBSET {"urgent"} : new = [old EXCEPT !.due = @ \cup d]
              \/ Ledger!Begins(old, new)
<1> DEFINE old    == EntryWith(SlotOf(sl, p), CallAmong(tasks, chan', p))
           new    == EntryWith(slots'[p], CallAmong(worker', chan', p))
           st     == SlotOf(sl, p).state
           due    == DueOf(st)
           from   == st.fromRevision
           failed == FailedOf(st)
           shown  == SlotOf(sl, p).summary
<1>1. p \in Pane /\ Planned(slots'[p], SlotOf(sl, p), snap, p, p \in Range(hire))
  BY SlotsType DEF Outcome
<1>2. Single(tasks, chan', p) /\ Single(worker', chan', p)
  BY <1>1, BranchCalls DEF CallInv, CallMid
<1>3. Jobs(worker', chan') = Jobs(tasks, chan') \cup {SummaryOf(Hired(snap, hire[w])) : w \in DOMAIN hire}
  BY OutcomeJobs
<1>4. \A w \in DOMAIN hire : /\ SummaryOf(Hired(snap, hire[w])).pane = hire[w]
                             /\ SummaryOf(Hired(snap, hire[w])).revision = snap[hire[w]].revision
                             /\ hire[w] \in Range(hire) /\ hire[w] \in DOMAIN snap
  BY DEF SummaryOf, Hired, Range, Outcome
<1>5. old = Record(due, CallAmong(tasks, chan', p), from, failed, shown)
  BY DEF EntryWith
<1>6. /\ slots'[p].state.fromRevision = from
      /\ FailedOf(slots'[p].state) = failed
      /\ slots'[p].summary = shown
  BY <1>1 DEF Planned, Seen, FailedOf
<1>7. CASE p \notin Range(hire)
  <2>1. CallAmong(worker', chan', p) = CallAmong(tasks, chan', p)
    BY <1>2, <1>3, <1>4, <1>7, SameCall
  <2>2. \E d \in SUBSET {"urgent"} : DueOf(slots'[p].state) = due \cup d
    <3>1. /\ slots'[p].state.forced <=> st.forced
          /\ \/ slots'[p].state.pendingBypass <=> st.pendingBypass
             \/ slots'[p].state.pendingBypass
      BY <1>1, <1>7 DEF Planned, Seen
    <3>2. CASE slots'[p].state.pendingBypass <=> st.pendingBypass
      <4>1. DueOf(slots'[p].state) = due \cup {}
        BY <3>1, <3>2 DEF DueOf
      <4> QED
        BY <4>1
    <3>3. CASE slots'[p].state.pendingBypass
      <4>1. DueOf(slots'[p].state) = due \cup {"urgent"}
        BY <3>1, <3>3 DEF DueOf
      <4> QED
        BY <4>1
    <3> QED
      BY <3>1, <3>2, <3>3
  <2>3. PICK d \in SUBSET {"urgent"} : DueOf(slots'[p].state) = due \cup d
    BY <2>2
  <2>4. new = Record(due \cup d, CallAmong(tasks, chan', p), from, failed, shown)
    BY <1>6, <2>1, <2>3 DEF EntryWith
  <2> HIDE DEF old, new, due, from, failed, shown
  <2>5. [old EXCEPT !.due = @ \cup d] = Record(due \cup d, CallAmong(tasks, chan', p), from, failed, shown)
    BY <1>5 DEF Record
  <2>6. \E x \in SUBSET {"urgent"} : new = [old EXCEPT !.due = @ \cup x]
    BY <2>4, <2>5
  <2> QED
    BY <2>6 DEF old, new
<1>8. CASE p \in Range(hire)
  <2>1. PICK w \in DOMAIN hire : p = hire[w]
    BY <1>8 DEF Range
  <2>2. PICK r : r = snap[p].revision
    OBVIOUS
  <2>3. r \in Revision /\ r \in Nat /\ p \in DOMAIN snap
    BY <1>4, <2>1, <2>2, SnapshotsType, OrchestratorAssumption DEF Agent, Revision
  <2>4. ~st.inFlight /\ Due(r, st)
    BY <2>1, <2>2 DEF Outcome
  <2>5. CallAmong(tasks, chan', p) = None
    <3>1. ~Out(tasks, chan', p)
      BY <2>4, BranchCalls
    <3> QED
      BY <1>2, <3>1, CallAmongFacts, JobsFacts
  <2>6. CallAmong(worker', chan', p) = r
    BY <1>2, <1>3, <1>4, <2>1, <2>2, CallAmongFacts
  <2>7. DueOf(slots'[p].state) = {}
    <3>1. ~slots'[p].state.forced /\ ~slots'[p].state.pendingBypass
      BY <1>1, <1>8 DEF Planned
    <3> QED
      BY <3>1 DEF DueOf
  <2>8. old = Record(due, None, from, failed, shown) /\ new = Record({}, r, from, failed, shown)
    BY <1>5, <1>6, <2>5, <2>6, <2>7 DEF EntryWith
  <2>9. \/ from = None
        \/ from < r
        \/ from = r /\ ("refresh" \in due \/ failed)
    <3>1. from = None \/ from # r \/ st.forced \/ st.failures > 0
      BY <2>4 DEF Due
    <3>2. st.forced => "refresh" \in due
      BY DueFacts
    <3>3. st.failures > 0 => failed
      BY FailedFacts
    <3>4. from # None => from \in Nat /\ from <= r
      <4>1. PICK v : v = from
        OBVIOUS
      <4>2. v # None => Below(p, v)'
        <5>1. SlotOK(p)' /\ slots'[p].state.fromRevision = v
          BY <1>6, <4>1 DEF RevInv
        <5> QED
          BY <5>1 DEF SlotOK, Below
      <4>3. 0 \in Moments' /\ View(0)' = snap
        BY LoopTurn, LenProperties DEF Moments, IsView, View, Outcome
      <4>4. v # None => v <= r
        BY <2>2, <2>3, <4>2, <4>3 DEF Below
      <4>5. v \in Nat \cup {None}
        <5>1. SlotOf(sl, p) \in Slot
          BY <1>1, SlotOfType
        <5> QED
          BY <4>1, <5>1 DEF Slot, SummaryState
      <4> QED
        BY <4>1, <4>4, <4>5
    <3> HIDE DEF due, from, failed
    <3>5. CASE from = None \/ from = r
      BY <3>1, <3>2, <3>3, <3>5
    <3>6. CASE from # None /\ from # r
      BY <2>3, <3>4, <3>6
    <3> QED
      BY <3>5, <3>6
  <2> HIDE DEF old, new, due, from, failed, shown
  <2>10. old.call = None /\ old.covered = from /\ old.due = due /\ new.call = r
    BY <2>8, RecordFields
  <2>11. old.failed = failed
    BY <2>8, RecordFields
  <2>12. Ledger!Worth(old, new.call)
    BY <2>9, <2>10, <2>11 DEF Ledger!Worth
  <2>13. new = [old EXCEPT !.call = new.call, !.due = {}]
    <3>1. PICK e : e = [old EXCEPT !.call = r]
      OBVIOUS
    <3>2. e = Record(due, r, from, failed, shown)
      BY <2>8, <3>1 DEF Record
    <3>3. [e EXCEPT !.due = {}] = Record({}, r, from, failed, shown)
      BY <3>2 DEF Record
    <3> QED
      BY <2>8, <2>10, <3>1, <3>3, Zenon
  <2>14. Ledger!Begins(old, new)
    BY <2>3, <2>10, <2>12, <2>13, Zenon DEF Ledger!Begins
  <2> QED
    BY <2>14 DEF old, new
<1> QED
  BY <1>7, <1>8

(* A branch and the pass after it are one turn of the ledger. *)
LEMMA TurnComposed ==
    ASSUME NEW p, NEW e, NEW m, NEW g,
           NEW d, NEW c, NEW v, NEW f, NEW s, e = Record(d, c, v, f, s),
           NEW d2, NEW c2, NEW v2, NEW f2, NEW s2, m = Record(d2, c2, v2, f2, s2),
           EndsOrAsks(p, e, m),
           \/ \E x \in SUBSET {"urgent"} : g = [m EXCEPT !.due = @ \cup x]
           \/ Ledger!Begins(m, g)
    PROVE  /\ Ledger!Turned(p, e, g)
           /\ m \notin Ledger!Outcomes(p, e) => Ledger!AskedAndBegun(e, g)
<1>1. Ledger!AskedAndBegun(m, g)
  <2>1. CASE \E x \in SUBSET {"urgent"} : g = [m EXCEPT !.due = @ \cup x]
    BY <2>1 DEF Ledger!AskedAndBegun, Ledger!Trigger
  <2>2. CASE Ledger!Begins(m, g)
    <3>1. PICK a : a = [m EXCEPT !.due = @ \cup {}]
      OBVIOUS
    <3>2. a = Record(d2 \cup {}, c2, v2, f2, s2) /\ d2 \cup {} = d2
      BY <3>1 DEF Record
    <3>3. Ledger!Begins(a, g)
      BY <2>2, <3>2, Zenon
    <3> QED
      BY <3>1, <3>3 DEF Ledger!AskedAndBegun
  <2> QED
    BY <2>1, <2>2
<1>2. CASE m = e
  BY <1>1, <1>2 DEF Ledger!Turned
<1>3. CASE m \in Ledger!Outcomes(p, e)
  BY <1>1, <1>3 DEF Ledger!Turned
<1>4. CASE m = [e EXCEPT !.due = @ \cup {"refresh"}]
  <2>1. Ledger!AskedAndBegun(e, g)
    <3>1. CASE \E x \in SUBSET {"urgent"} : g = [m EXCEPT !.due = @ \cup x]
      <4>1. PICK x \in SUBSET {"urgent"} : g = [m EXCEPT !.due = @ \cup x]
        BY <3>1
      <4>2. m = Record(d \cup {"refresh"}, c, v, f, s)
        BY <1>4 DEF Record
      <4>3. g = Record((d \cup {"refresh"}) \cup x, c, v, f, s)
        BY <4>1, <4>2 DEF Record
      <4>4. PICK y : y = {"refresh"} \cup x
        OBVIOUS
      <4>5. [e EXCEPT !.due = @ \cup y] = Record(d \cup y, c, v, f, s)
        BY DEF Record
      <4>6. (d \cup {"refresh"}) \cup x = d \cup y /\ y \in SUBSET {"refresh", "urgent"}
        BY <4>4
      <4>7. g = [e EXCEPT !.due = @ \cup y]
        BY <4>3, <4>5, <4>6
      <4> QED
        BY <4>6, <4>7 DEF Ledger!AskedAndBegun, Ledger!Trigger
    <3>2. CASE Ledger!Begins(m, g)
      BY <1>4, <3>2 DEF Ledger!AskedAndBegun, Ledger!Trigger
    <3> QED
      BY <3>1, <3>2
  <2> QED
    BY <2>1 DEF Ledger!Turned
<1> QED
  BY <1>1, <1>2, <1>3, <1>4 DEF EndsOrAsks

(* The entry of a slot is an entry, never the mark of an agent not listed. *)
Listed == \A p \in DOMAIN slots : EntryOf(p) # None

LEMMA AlwaysListed ==
    ASSUME PanesReturn = FALSE
    PROVE  Spec => []Listed
<1>1. TypeOK /\ CallInv /\ RevInv => Listed
  <2> SUFFICES ASSUME TypeOK, CallInv, RevInv, NEW p \in DOMAIN slots PROVE EntryOf(p) # None
    BY DEF Listed
  <2>1. p \in Pane /\ slots[p] \in Slot /\ panes[p].revision \in Revision /\ Single(worker, chan, p)
    BY DEF TypeOK, PaneState, CallInv
  <2>2. slots[p].state.fromRevision \in Revision \cup {None}
    <3>1. PICK v : v = slots[p].state.fromRevision
      OBVIOUS
    <3>2. v \in Nat \cup {None}
      BY <2>1, <3>1 DEF Slot, SummaryState
    <3>3. v # None => v <= panes[p].revision
      BY <3>1 DEF RevInv, SlotOK, Below
    <3>4. v # None => v \in Revision
      BY <2>1, <3>2, <3>3, OrchestratorAssumption DEF Revision
    <3> QED
      BY <3>1, <3>4
  <2>3. CallAmong(worker, chan, p) \in Revision \cup {None}
    <3>1. CASE \E j \in Jobs(worker, chan) : j.pane = p
      BY <2>1, <3>1, CallAmongFacts, JobsType
    <3>2. CASE \A j \in Jobs(worker, chan) : j.pane # p
      BY <2>1, <3>2, CallAmongFacts
    <3> QED
      BY <3>1, <3>2
  <2> QED
    BY <2>1, <2>2, <2>3, EntryType, EntryOfFacts
<1> QED
  BY <1>1, TypeCorrect, CallsCounted, RevisionsAgree, PTL

(* A turn of the loop is a step of the ledger for every agent. *)
LEMMA MovesInLoop ==
    ASSUME TypeOK, NoResurrection, NoResurrection', ListInv, PanesReturn = FALSE,
           CallInv, CallInv', RevInv, RevInv', Listed, Listed', Loop, NEW p \in Pane
    PROVE  Ledger!Moves(p, EntryOf(p), EntryOf(p)')
<1>1. PICK snap, sl, tasks, hire :
         /\ snap \in Snapshots /\ sl \in Slots /\ tasks \in [Worker -> Task]
         /\ Branch(snap, sl, tasks) /\ Outcome(hire, snap, sl, tasks)
  BY LoopTurn
<1>2. CASE p \notin DOMAIN slots'
  BY <1>2, EntryOfFacts DEF Ledger!Moves, Ledger!Unlisted
<1>3. CASE p \in DOMAIN slots'
  <2>1. PICK e, m, g :
           /\ e = EntryWith(SlotOf(slots, p), CallAmong(worker, chan, p))
           /\ m = EntryWith(SlotOf(sl, p), CallAmong(tasks, chan', p))
           /\ g = EntryWith(slots'[p], CallAmong(worker', chan', p))
    OBVIOUS
  <2>2. /\ p \in DOMAIN slots => e = EntryOf(p)
        /\ p \notin DOMAIN slots => e = Ledger!NewEntry
        /\ EndsOrAsks(p, e, m)
        /\ p \notin DOMAIN slots => m \notin Ledger!Outcomes(p, e)
    <3>1. EndsOrAsks(p, e, m)
      BY <1>1, <1>3, <2>1, BranchEntry
    <3>2. p \in DOMAIN slots => e = EntryOf(p)
      BY <1>1, <1>3, <2>1, BranchEntry
    <3>3. p \notin DOMAIN slots => e = EntryWith(DefaultSlot, None)
      <4>1. p \notin DOMAIN slots => CallAmong(worker, chan, p) = None
        BY <1>1, <1>3, BranchEntry
      <4> QED
        BY <2>1, <4>1 DEF SlotOf
    <3>4. p \notin DOMAIN slots => m \notin Ledger!Outcomes(p, e)
      BY <1>1, <1>3, <2>1, BranchEntry
    <3> QED
      BY <3>1, <3>2, <3>3, <3>4, EntryOfNew
  <2>3. \/ \E x \in SUBSET {"urgent"} : g = [m EXCEPT !.due = @ \cup x]
        \/ Ledger!Begins(m, g)
    BY <1>1, <1>3, <2>1, PassEntry
  <2>4. /\ \E d, c, v, f, s : e = Record(d, c, v, f, s)
        /\ \E d, c, v, f, s : m = Record(d, c, v, f, s)
    BY <2>1 DEF EntryWith
  <2>5. /\ Ledger!Turned(p, e, g)
        /\ m \notin Ledger!Outcomes(p, e) => Ledger!AskedAndBegun(e, g)
    BY <2>2, <2>3, <2>4, TurnComposed
  <2>6. g = EntryOf(p)' /\ g # None
    BY <1>3, <2>1, EntryOfFacts DEF Listed
  <2>7. CASE p \in DOMAIN slots
    BY <2>2, <2>5, <2>6, <2>7 DEF Ledger!Moves, Ledger!Unlisted, Listed
  <2>8. CASE p \notin DOMAIN slots
    <3>1. EntryOf(p) = None
      BY <2>8, EntryOfFacts
    <3> QED
      BY <2>2, <2>5, <2>6, <2>8, <3>1 DEF Ledger!Moves, Ledger!Unlisted
  <2> QED
    BY <2>7, <2>8
<1> QED
  BY <1>2, <1>3

-----------------------------------------------------------------------------
(* Outside the loop no entry moves. *)
LEMMA CallKept ==
    ASSUME TypeOK, CallInv, CallInv', [Next]_vars, ~Loop, NEW p \in Pane
    PROVE  CallAmong(worker', chan', p) = CallAmong(worker, chan, p)
<1>1. Single(worker, chan, p) /\ Single(worker', chan', p)
  BY DEF CallInv
<1>2. CASE Work
  <2>1. PICK w \in Worker : Reads(w) \/ Calls(w) \/ WorkerSend(w)
    BY <1>2 DEF Work
  <2>2. PICK j, k :
           /\ j \in Jobs(worker, chan) /\ k \in Jobs(worker', chan')
           /\ k.pane = j.pane /\ k.revision = j.revision
           /\ Jobs(worker', chan') \subseteq Jobs(worker, chan) \cup {k}
           /\ Jobs(worker, chan) \subseteq Jobs(worker', chan') \cup {j}
    BY <2>1, WorkJobs
  <2>3. ASSUME NEW i, i.pane = p
        PROVE  /\ i \in Jobs(worker, chan) =>
                    \E l \in Jobs(worker', chan') : l.pane = p /\ l.revision = i.revision
               /\ i \in Jobs(worker', chan') => \E l \in Jobs(worker, chan) : l.pane = p
    BY <2>2, <2>3
  <2> QED
    BY <1>1, <2>3, SameCall
<1>3. CASE ~Work
  <2>1. Jobs(worker', chan') = Jobs(worker, chan)
    <3>1. CASE Herdr \/ Elapse \/ UNCHANGED vars
      BY <3>1 DEF Herdr, AgentPrints, AgentLeaves, AgentStarts, AgentTurns, Elapse, vars, loopVars
    <3> QED
      BY <1>3, <3>1, PollKeepsJobs DEF Next
  <2> QED
    BY <1>1, <2>1, SameCall
<1> QED
  BY <1>2, <1>3

LEMMA SlotsKept ==
    ASSUME TypeOK, [Next]_vars, ~Loop
    PROVE  /\ DOMAIN slots' = DOMAIN slots
           /\ \A p \in DOMAIN slots :
                 /\ slots'[p].summary = slots[p].summary
                 /\ slots'[p].state.fromRevision = slots[p].state.fromRevision
                 /\ DueOf(slots'[p].state) = DueOf(slots[p].state)
                 /\ FailedOf(slots'[p].state) = FailedOf(slots[p].state)
<1>1. CASE Elapse
  <2>1. DOMAIN slots' = DOMAIN slots
    BY <1>1 DEF Elapse
  <2>2. ASSUME NEW p \in DOMAIN slots
        PROVE  /\ slots'[p].summary = slots[p].summary
               /\ slots'[p].state.fromRevision = slots[p].state.fromRevision
               /\ DueOf(slots'[p].state) = DueOf(slots[p].state)
               /\ FailedOf(slots'[p].state) = FailedOf(slots[p].state)
    <3>1. /\ slots'[p].summary = slots[p].summary
          /\ slots'[p].state = Age(slots[p].state)
          /\ slots[p].state \in SummaryState
      BY <1>1, ElapseKeeps
    <3>2. /\ slots'[p].state.fromRevision = slots[p].state.fromRevision
          /\ slots'[p].state.failures = slots[p].state.failures
          /\ slots'[p].state.forced <=> slots[p].state.forced
          /\ slots'[p].state.pendingBypass <=> slots[p].state.pendingBypass
      BY <3>1 DEF Age, SummaryState
    <3> QED
      BY <3>1, <3>2 DEF DueOf, FailedOf
  <2> QED
    BY <2>1, <2>2
<1>2. CASE ~Elapse
  <2>1. Work => slots' = slots
    BY WorkFacts DEF Work
  <2>2. slots' = slots
    BY <1>2, <2>1 DEF Next, Herdr, AgentPrints, AgentLeaves, AgentStarts, AgentTurns,
                      Poller, PollAnswered, PollFailed, PollSend, vars, loopVars
  <2> QED
    BY <2>2
<1> QED
  BY <1>1, <1>2

LEMMA EntriesKept ==
    ASSUME TypeOK, CallInv, CallInv', [Next]_vars, ~Loop, NEW p \in Pane
    PROVE  EntryOf(p)' = EntryOf(p)
<1>1. CallAmong(worker', chan', p) = CallAmong(worker, chan, p)
  BY CallKept
<1>2. DOMAIN slots' = DOMAIN slots
  BY SlotsKept
<1>3. CASE p \in DOMAIN slots
  <2>1. EntryWith(slots'[p], CallAmong(worker', chan', p)) = EntryWith(slots[p], CallAmong(worker, chan, p))
    BY <1>1, <1>3, SlotsKept DEF EntryWith
  <2> QED
    BY <1>2, <1>3, <2>1, EntryOfFacts
<1>4. CASE p \notin DOMAIN slots
  BY <1>2, <1>4, EntryOfFacts
<1> QED
  BY <1>3, <1>4

(* The loop, with its poller, channel, tasks and clocks, keeps the promises *)
(* of SummaryLedger to every agent, when herdr does not use a pane id      *)
(* again (plan_summaries, apply_update, apply_snapshot, decide).           *)
THEOREM LoopKeepsPromises ==
    ASSUME PanesReturn = FALSE
    PROVE  Spec => PromisesKept
<1> DEFINE ledger == [p \in Pane |-> EntryOf(p)]
<1>1. Init => Ledger!Init
  <2> SUFFICES ASSUME Init PROVE Ledger!Init
    OBVIOUS
  <2>1. DOMAIN slots = {}
    BY DEF Init
  <2>2. \A p \in Pane : EntryOf(p) = None
    BY <2>1 DEF EntryOf
  <2> QED
    BY <2>2 DEF Ledger!Init, Ledger!Unlisted
<1>2. /\ TypeOK /\ NoResurrection /\ NoResurrection' /\ ListInv
      /\ CallInv /\ CallInv' /\ RevInv /\ RevInv' /\ Listed /\ Listed'
      /\ [Next]_vars
      => [Ledger!Next]_ledger
  <2> SUFFICES ASSUME TypeOK, NoResurrection, NoResurrection', ListInv,
                      CallInv, CallInv', RevInv, RevInv', Listed, Listed', [Next]_vars
               PROVE  [Ledger!Next]_ledger
    OBVIOUS
  <2>1. CASE Loop
    <3>1. \A p \in Pane : Ledger!Moves(p, EntryOf(p), EntryOf(p)')
      BY <2>1, MovesInLoop
    <3>2. Ledger!Next
      BY <3>1 DEF Ledger!Next
    <3> QED
      BY <3>2
  <2>2. CASE ~Loop
    <3>1. \A p \in Pane : EntryOf(p)' = EntryOf(p)
      BY <2>2, EntriesKept
    <3>2. ledger' = ledger
      BY <3>1
    <3> QED
      BY <3>2
  <2> QED
    BY <2>1, <2>2
<1> QED
  BY <1>1, <1>2, TypeCorrect, SlotsOfTheLiving, ListsOrdered, CallsCounted, RevisionsAgree, AlwaysListed,
     PTL DEF Spec, PromisesKept, Ledger!Spec
=============================================================================
