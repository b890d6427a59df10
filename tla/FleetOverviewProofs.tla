------------------------ MODULE FleetOverviewProofs ------------------------
(***************************************************************************)
(* What is proved of FleetOverview for every set of headline lists, every  *)
(* hash (colliding ones included), every set of tasks and every cooldown.  *)
(*                                                                         *)
(* The three safety invariants are inductive together once the types are   *)
(* known: OneFleetCall needs no other, SuccessIsOnScreen uses it to know   *)
(* that the update being received is the one active_hash names, and        *)
(* NoProseForNoFleet to know that in_flight ends only with a planning pass.*)
(***************************************************************************)
EXTENDS FleetOverview, TLAPS

(* A planning pass keeps the types, whatever the branch before it left. *)
LEMMA PlanFleetTypes ==
    ASSUME NEW h \in Headlines, NEW j \in FleetJob, NEW ov \in Headlines \cup {None},
           NEW tk \in [Task -> TaskState],
           PlanFleet(h, j, ov, tk)
    PROVE  TypeOK'
<1> USE FleetAssumption
<1>1. headlines' \in Headlines
  BY DEF PlanFleet
<1>2. job' \in FleetJob
  <2>1. Cleared(j) \in FleetJob
    BY DEF Cleared, FleetJob
  <2>2. Dispatched(j, h) \in FleetJob
    <3>1. Hash[h] \in HashValue /\ 0 \in 0..FleetCooldown
      BY DEF HashValue
    <3> QED
      BY <3>1 DEF Dispatched, FleetJob
  <2> QED
    BY <2>1, <2>2 DEF PlanFleet
<1>3. overview' \in Headlines \cup {None}
  BY DEF PlanFleet
<1>4. task' \in [Task -> TaskState]
  BY DEF PlanFleet, TaskState
<1> QED
  BY <1>1, <1>2, <1>3, <1>4 DEF TypeOK

(* The variables stay in their types. *)
THEOREM TypeCorrect == Spec => []TypeOK
<1>1. Init => TypeOK
  BY FleetAssumption DEF Init, TypeOK, FleetJob, DefaultJob, TaskState, IdleTask
<1>2. TypeOK /\ [Next]_vars => TypeOK'
  <2> SUFFICES ASSUME TypeOK, [Next]_vars PROVE TypeOK'
    OBVIOUS
  <2>1. CASE \E h \in Headlines : Turn(h)
    BY <2>1, PlanFleetTypes DEF Turn, TypeOK
  <2>2. CASE \E t \in Task : CallAnswered(t)
    BY <2>2 DEF CallAnswered, TypeOK, TaskState
  <2>3. CASE \E t \in Task : CallFails(t)
    BY <2>3 DEF CallFails, TypeOK, TaskState
  <2>4. CASE \E t \in Task : ReceiveFleet(t)
    <3> PICK t \in Task : ReceiveFleet(t)
      BY <2>4
    <3>1. task[t].phase \in {"answered", "failed"} /\ task[t].of \in Headlines
      BY DEF ReceiveFleet, TypeOK, TaskState
    <3>2. Finished(job, task[t]) \in FleetJob
      BY <3>1 DEF TypeOK, FleetJob, HashValue, Finished
    <3>3. Shown(job, overview, task[t]) \in Headlines \cup {None}
      BY <3>1 DEF TypeOK, Shown
    <3>4. [task EXCEPT ![t] = IdleTask] \in [Task -> TaskState]
      BY DEF TypeOK, TaskState, IdleTask
    <3> QED
      BY <3>2, <3>3, <3>4, PlanFleetTypes DEF ReceiveFleet, TypeOK
  <2>5. CASE Elapse
    BY <2>5, FleetAssumption DEF Elapse, CoolingDown, TypeOK, FleetJob
  <2>6. CASE UNCHANGED vars
    BY <2>6 DEF vars, TypeOK
  <2> QED
    BY <2>1, <2>2, <2>3, <2>4, <2>5, <2>6 DEF Next
<1> QED
  BY <1>1, <1>2, PTL DEF Spec

-----------------------------------------------------------------------------
(* The safety invariants. *)

(* What OneFleetCall says of any job and tasks. *)
OneCall(j, tk) ==
    LET out == {t \in Task : tk[t].phase # "idle"}
    IN /\ j.inFlight <=> out # {}
       /\ j.inFlight <=> j.activeHash # None
       /\ \A t, u \in out : t = u
       /\ \A t \in out : Hash[tk[t].of] = j.activeHash

(* What SuccessIsOnScreen says of any job and overview. *)
OnScreen(j, ov) == j.lastSuccessHash = IF ov = None THEN None ELSE Hash[ov]

SafetyInv == OneFleetCall /\ SuccessIsOnScreen /\ NoProseForNoFleet

(* A planning pass leaves the invariants true if the branch before it left *)
(* the first two so; it is what makes the third true.                      *)
LEMMA PlanFleetSafe ==
    ASSUME NEW h \in Headlines, NEW j \in FleetJob, NEW ov \in Headlines \cup {None},
           NEW tk \in [Task -> TaskState],
           OneCall(j, tk), OnScreen(j, ov), PlanFleet(h, j, ov, tk)
    PROVE  SafetyInv'
<1>1. Size[h] \in Nat /\ Hash[h] # None
  BY FleetAssumption
<1>2. CASE /\ j.inFlight \/ ~TooFew(h)
           /\ job' = j /\ overview' = ov /\ task' = tk /\ headlines' = h
  BY <1>1, <1>2 DEF SafetyInv, OneFleetCall, SuccessIsOnScreen, NoProseForNoFleet, OneCall,
                    OnScreen, Outstanding, TooFew
<1>3. CASE /\ ~j.inFlight
           /\ job' = Cleared(j) /\ overview' = None /\ task' = tk
  BY <1>3 DEF SafetyInv, OneFleetCall, SuccessIsOnScreen, NoProseForNoFleet, OneCall,
              Outstanding, Cleared, FleetJob
<1>4. ASSUME ~j.inFlight, job' = Dispatched(j, h), overview' = ov, NEW t \in Task,
             task' = [tk EXCEPT ![t] = [phase |-> "calling", of |-> h]]
      PROVE  SafetyInv'
  <2>1. \A u \in Task : tk[u].phase = "idle"
    BY <1>4 DEF OneCall
  <2>2. Outstanding' = {t} /\ task'[t].of = h
    BY <1>4, <2>1 DEF Outstanding
  <2>3. /\ job'.inFlight /\ job'.activeHash = Hash[h]
        /\ job'.lastSuccessHash = j.lastSuccessHash
    BY <1>4 DEF Dispatched, FleetJob
  <2> QED
    BY <1>1, <1>4, <2>2, <2>3 DEF SafetyInv, OneFleetCall, SuccessIsOnScreen, NoProseForNoFleet,
                                  OnScreen
<1> QED
  BY <1>2, <1>3, <1>4 DEF PlanFleet

LEMMA ReceiveFleetSafe ==
    ASSUME TypeOK, SafetyInv, NEW t \in Task, ReceiveFleet(t)
    PROVE  SafetyInv'
<1> DEFINE j == Finished(job, task[t])
           ov == Shown(job, overview, task[t])
           tk == [task EXCEPT ![t] = IdleTask]
<1>1. task[t].phase \in {"answered", "failed"} /\ task[t].of \in Headlines
  BY DEF ReceiveFleet, TypeOK, TaskState
<1>2. Outstanding = {t} /\ job.activeHash = Hash[task[t].of]
  BY <1>1 DEF SafetyInv, OneFleetCall, Outstanding
<1>3. OneCall(j, tk)
  <2>1. \A u \in Task : tk[u].phase = "idle"
    BY <1>2 DEF Outstanding, IdleTask, TypeOK
  <2>2. j.inFlight = FALSE /\ j.activeHash = None
    BY <1>2 DEF Finished, TypeOK, FleetJob
  <2> QED
    BY <2>1, <2>2 DEF OneCall
<1>4. OnScreen(j, ov)
  <2>1. CASE task[t].phase = "answered"
    BY <1>1, <1>2, <2>1, FleetAssumption DEF Finished, Shown, OnScreen, TypeOK, FleetJob
  <2>2. CASE task[t].phase = "failed"
    BY <1>2, <2>2 DEF Finished, Shown, OnScreen, TypeOK, FleetJob, SafetyInv, SuccessIsOnScreen
  <2> QED
    BY <1>1, <2>1, <2>2
<1>5. j \in FleetJob
  BY <1>1 DEF TypeOK, FleetJob, HashValue, Finished
<1>6. ov \in Headlines \cup {None} /\ tk \in [Task -> TaskState]
  BY <1>1 DEF TypeOK, Shown, TaskState, IdleTask
<1>7. headlines \in Headlines /\ PlanFleet(headlines, j, ov, tk)
  BY DEF TypeOK, ReceiveFleet
<1> HIDE DEF j, ov, tk
<1> QED
  BY <1>3, <1>4, <1>5, <1>6, <1>7, PlanFleetSafe

LEMMA SafetyStep == TypeOK /\ SafetyInv /\ [Next]_vars => SafetyInv'
<1> SUFFICES ASSUME TypeOK, SafetyInv, [Next]_vars PROVE SafetyInv'
  OBVIOUS
<1>1. CASE \E h \in Headlines : Turn(h)
  <2>1. OneCall(job, task) /\ OnScreen(job, overview)
    BY DEF SafetyInv, OneFleetCall, SuccessIsOnScreen, OneCall, OnScreen, Outstanding
  <2> QED
    BY <1>1, <2>1, PlanFleetSafe DEF Turn, TypeOK
<1>2. CASE \E t \in Task : CallAnswered(t) \/ CallFails(t)
  <2>1. PICK t \in Task : CallAnswered(t) \/ CallFails(t)
    BY <1>2
  <2>2. \A u \in Task : /\ task'[u].phase = "idle" <=> task[u].phase = "idle"
                        /\ task[u].phase # "idle" => task'[u].of = task[u].of
    BY <2>1 DEF CallAnswered, CallFails, TypeOK, TaskState
  <2>3. UNCHANGED <<headlines, job, overview>>
    BY <2>1 DEF CallAnswered, CallFails
  <2> QED
    BY <2>2, <2>3 DEF SafetyInv, OneFleetCall, SuccessIsOnScreen, NoProseForNoFleet, Outstanding
<1>3. CASE \E t \in Task : ReceiveFleet(t)
  BY <1>3, ReceiveFleetSafe
<1>4. CASE Elapse
  <2>1. /\ job'.inFlight = job.inFlight /\ job'.activeHash = job.activeHash
        /\ job'.lastSuccessHash = job.lastSuccessHash
    BY <1>4 DEF Elapse, TypeOK, FleetJob
  <2>2. UNCHANGED <<headlines, overview, task>>
    BY <1>4 DEF Elapse
  <2> QED
    BY <2>1, <2>2 DEF SafetyInv, OneFleetCall, SuccessIsOnScreen, NoProseForNoFleet, Outstanding
<1>5. CASE UNCHANGED vars
  BY <1>5 DEF vars, SafetyInv, OneFleetCall, SuccessIsOnScreen, NoProseForNoFleet, Outstanding
<1> QED
  BY <1>1, <1>2, <1>3, <1>4, <1>5 DEF Next

LEMMA Safety == Spec => []SafetyInv
<1>1. Init => SafetyInv
  BY FleetAssumption DEF Init, SafetyInv, OneFleetCall, SuccessIsOnScreen, NoProseForNoFleet,
     Outstanding, DefaultJob, IdleTask
<1> QED
  BY <1>1, SafetyStep, TypeCorrect, PTL DEF Spec

(* At most one fleet call is outstanding, in_flight says whether one is,   *)
(* and active_hash is always the hash of its request: the guard of         *)
(* apply_update that discards the answer to another request never does.    *)
THEOREM AtMostOneCall == Spec => []OneFleetCall
BY Safety, PTL DEF SafetyInv

(* The hash that suppresses calls is always that of the overview shown.    *)
THEOREM SuppressionIsJustified == Spec => []SuccessIsOnScreen
BY Safety, PTL DEF SafetyInv

(* No overview outlives the fleet it describes by more than one call.      *)
THEOREM OverviewNeedsAFleet == Spec => []NoProseForNoFleet
BY Safety, PTL DEF SafetyInv
=============================================================================
