------------------------- MODULE HerdrPollingProofs -------------------------
(***************************************************************************)
(* Types of the exchange with herdr, and that a read refused because the   *)
(* agent is at work is read again: for any number of tasks of each kind    *)
(* and any capacity of the channel.                                        *)
(***************************************************************************)
EXTENDS HerdrPolling, TLAPS

-----------------------------------------------------------------------------
LEMMA InitTyped == Init => TypeOK
<1> SUFFICES ASSUME Init PROVE TypeOK
  OBVIOUS
<1>1. call \in [Caller -> Call]
  BY DEF Init, Call, Rest, Source
<1>2. chan \in Seq(Update) /\ Len(chan) <= ChanCap
  BY PollingAssumption DEF Init
<1> QED
  BY <1>1, <1>2 DEF Init, TypeOK

(* A call of one task set to another keeps the calls typed. *)
LEMMA CallTyped ==
    ASSUME TypeOK, NEW c \in Caller, NEW k \in Call, call' = [call EXCEPT ![c] = k]
    PROVE  call' \in [Caller -> Call]
  BY DEF TypeOK

LEMMA SendTyped ==
    ASSUME TypeOK, NEW update \in Update, Send(update)
    PROVE  chan' \in Seq(Update) /\ Len(chan') <= ChanCap
  BY PollingAssumption DEF TypeOK, Send

LEMMA AnsweredTyped ==
    ASSUME TypeOK, NEW c \in Caller, NEW answer \in Answer, Answered(c, answer)
    PROVE  TypeOK'
<1>1. call[c] \in Call
  BY DEF TypeOK
<1>2. [call[c] EXCEPT !.phase = "answered", !.answer = answer] \in Call
  BY <1>1 DEF Call
<1>3. call' = [call EXCEPT ![c] = [call[c] EXCEPT !.phase = "answered", !.answer = answer]]
  BY DEF Answered, TypeOK
<1>4. call' \in [Caller -> Call]
  BY <1>2, <1>3, CallTyped
<1> QED
  BY <1>4 DEF TypeOK, Answered, screen

LEMMA HeardIsAnswer == TypeOK => \A c : Heard(c) \subseteq Answer
  BY DEF TypeOK, Mood, Heard, HeardWell, Answer, Error

LEMMA StepTyped == TypeOK /\ [Next]_vars => TypeOK'
<1> SUFFICES ASSUME TypeOK, [Next]_vars PROVE TypeOK'
  OBVIOUS
<1>0. Rest \in Call
  BY DEF Rest, Call, Source
<1>1. ASSUME NEW c \in Caller, Start(c) PROVE TypeOK'
  <2>1. [call[c] EXCEPT !.phase = "connecting"] \in Call
    BY DEF TypeOK, Call
  <2>2. call' = [call EXCEPT ![c] = [call[c] EXCEPT !.phase = "connecting"]]
    BY <1>1 DEF Start, TypeOK
  <2> QED
    BY <1>1, <2>1, <2>2, CallTyped DEF Start, TypeOK, screen
<1>2. ASSUME NEW c \in Caller, Connect(c) PROVE TypeOK'
  <2>1. CASE Answered(c, "Connect")
    BY <2>1, AnsweredTyped DEF Answer, Error
  <2>2. CASE ~Answered(c, "Connect")
    <3>1. [call[c] EXCEPT !.phase = "waiting"] \in Call
      BY DEF TypeOK, Call
    <3>2. /\ call' = [call EXCEPT ![c] = [call[c] EXCEPT !.phase = "waiting"]]
          /\ UNCHANGED <<herdr, busy, chan, screen>>
      BY <1>2, <2>2 DEF Connect, TypeOK
    <3> QED
      BY <3>1, <3>2, CallTyped DEF TypeOK, screen
  <2> QED
    BY <2>1, <2>2
<1>3. ASSUME NEW c \in Caller, Hear(c) PROVE TypeOK'
  BY <1>3, AnsweredTyped, HeardIsAnswer DEF Hear
<1>4. ASSUME NEW c \in Caller, Timeout(c) PROVE TypeOK'
  BY <1>4, AnsweredTyped DEF Timeout, Answer, Error
<1>5. CASE Polled
  <2>1. PollUpdate(call[Poller].answer) \in Update
    BY DEF PollUpdate, Update
  <2>2. Poller \in Caller
    BY DEF Caller
  <2> QED
    BY <1>0, <1>5, <2>1, <2>2, CallTyped, SendTyped DEF Polled, TypeOK, screen
<1>6. ASSUME NEW f \in Focuser, Focused(f) PROVE TypeOK'
  <2>1. f \in Caller /\ "Notice" \in Update
    BY DEF Caller, Update
  <2>2. chan' \in Seq(Update) /\ Len(chan') <= ChanCap
    BY <1>6, <2>1, SendTyped DEF Focused, TypeOK
  <2> QED
    BY <1>0, <1>6, <2>1, <2>2, CallTyped DEF Focused, TypeOK, screen
<1>7. ASSUME NEW r \in Reader, ReadAgain(r) PROVE TypeOK'
  <2>1. r \in Caller
    BY DEF Caller
  <2>2. [phase |-> "connecting", answer |-> None, source |-> "visible"] \in Call
    BY DEF Call, Source
  <2> QED
    BY <1>7, <2>1, <2>2, CallTyped DEF ReadAgain, TypeOK, screen
<1>8. ASSUME NEW r \in Reader, Read(r) PROVE TypeOK'
  <2>1. r \in Caller
    BY DEF Caller
  <2>2. ReadUpdate(call[r].answer) \in Update
    BY DEF ReadUpdate, Update
  <2> QED
    BY <1>0, <1>8, <2>1, <2>2, CallTyped, SendTyped DEF Read, TypeOK, screen
<1>9. CASE Receive
  <2>1. chan \in Seq(Update) /\ chan # <<>>
    BY <1>9 DEF Receive, TypeOK
  <2>2. Tail(chan) \in Seq(Update) /\ Len(Tail(chan)) = Len(chan) - 1
    BY <2>1
  <2>3. chan' \in Seq(Update) /\ Len(chan') <= ChanCap
    BY <1>9, <2>2, PollingAssumption DEF Receive, TypeOK
  <2>4. conn' \in {"Connected", "Reconnecting"}
    BY <1>9 DEF Receive, TypeOK
  <2>5. notice' \in BOOLEAN
    BY <1>9, Zenon DEF Receive, TypeOK
  <2> QED
    BY <1>9, <2>3, <2>4, <2>5 DEF Receive, TypeOK
<1>10. CASE HerdrChanges
  BY <1>10 DEF HerdrChanges, TypeOK, tasks, screen
<1>11. CASE UNCHANGED vars
  BY <1>11 DEF vars, tasks, screen, TypeOK
<1> QED
  BY <1>1, <1>2, <1>3, <1>4, <1>5, <1>6, <1>7, <1>8, <1>9, <1>10, <1>11 DEF Next

(* Every task's call, the channel and the screen keep their types, and the *)
(* channel its capacity.                                                   *)
THEOREM TypeCorrect == Spec => []TypeOK
  BY InitTyped, StepTyped, PTL DEF Spec

-----------------------------------------------------------------------------
(* A refusal for being at work only ever answers the first of the two      *)
(* reads, so the second is always tried, and its answer is the one that    *)
(* counts.                                                                 *)
RefusedOnce ==
    \A c \in Caller :
       call[c].answer = "NotIdle" => c \in Reader /\ call[c].source = "recent_unwrapped"

IInv == TypeOK /\ RefusedOnce /\ BusyAgentsAreRead

LEMMA InitIInv == Init => IInv
<1>1. Init => RefusedOnce
  BY NoneIsNoAnswer DEF Init, RefusedOnce, Rest, Answer, Error
<1>2. Init => BusyAgentsAreRead
  BY DEF Init, BusyAgentsAreRead, Range
<1> QED
  BY <1>1, <1>2, InitTyped DEF IInv

LEMMA AnsweredRefusedOnce ==
    ASSUME TypeOK, RefusedOnce, NEW c \in Caller, NEW answer \in Heard(c) \cup {"Connect", "Timeout"},
           Answered(c, answer)
    PROVE  RefusedOnce'
<1>1. answer = "NotIdle" => c \in Reader /\ call[c].source = "recent_unwrapped"
  BY DEF TypeOK, Mood, Heard, HeardWell
<1>2. /\ call'[c].answer = answer /\ call'[c].source = call[c].source
      /\ \A d \in Caller \ {c} : call'[d] = call[d]
  BY DEF Answered, TypeOK, Call
<1> QED
  BY <1>1, <1>2 DEF RefusedOnce

(* What a task sends, or asks next, is no refusal. *)
LEMMA SendKeepsReading ==
    ASSUME TypeOK, BusyAgentsAreRead, NEW update \in Update \ {"Refused"}, Send(update)
    PROVE  BusyAgentsAreRead'
<1>1. chan \in Seq(Update) /\ chan' = Append(chan, update)
  BY DEF TypeOK, Send
<1>2. \A i \in DOMAIN chan' : chan'[i] # "Refused"
  BY <1>1 DEF BusyAgentsAreRead, Range
<1> QED
  BY <1>2 DEF BusyAgentsAreRead, Range

LEMMA StepIInv == IInv /\ [Next]_vars => IInv'
<1> SUFFICES ASSUME TypeOK, RefusedOnce, BusyAgentsAreRead, [Next]_vars
             PROVE  RefusedOnce' /\ BusyAgentsAreRead'
  BY StepTyped DEF IInv
<1>q. ASSUME UNCHANGED chan PROVE BusyAgentsAreRead'
  BY <1>q DEF BusyAgentsAreRead, Range
<1>r. ASSUME UNCHANGED call PROVE RefusedOnce'
  BY <1>r DEF RefusedOnce
<1>s. ASSUME NEW c \in Caller, NEW k \in Call, call' = [call EXCEPT ![c] = k], k.answer # "NotIdle"
      PROVE  RefusedOnce'
  BY <1>s DEF RefusedOnce, TypeOK
<1>0. Rest \in Call /\ Rest.answer # "NotIdle"
  BY NoneIsNoAnswer DEF Rest, Call, Source, Answer, Error
<1>1. ASSUME NEW c \in Caller, Start(c) PROVE RefusedOnce'
  <2>1. \A d \in Caller : call'[d].answer = call[d].answer /\ call'[d].source = call[d].source
    BY <1>1 DEF Start, TypeOK, Call
  <2> QED
    BY <2>1 DEF RefusedOnce
<1>2. ASSUME NEW c \in Caller, Connect(c) PROVE RefusedOnce'
  <2>1. CASE Answered(c, "Connect")
    BY <2>1, AnsweredRefusedOnce
  <2>2. CASE ~Answered(c, "Connect")
    <3>1. \A d \in Caller : call'[d].answer = call[d].answer /\ call'[d].source = call[d].source
      BY <1>2, <2>2 DEF Connect, TypeOK, Call
    <3> QED
      BY <3>1 DEF RefusedOnce
  <2> QED
    BY <2>1, <2>2
<1>3. ASSUME NEW c \in Caller, Hear(c) PROVE RefusedOnce'
  BY <1>3, AnsweredRefusedOnce DEF Hear
<1>4. ASSUME NEW c \in Caller, Timeout(c) PROVE RefusedOnce'
  BY <1>4, AnsweredRefusedOnce DEF Timeout
<1>5. CASE Polled
  <2>1. Poller \in Caller
    BY DEF Caller
  <2>2. PollUpdate(call[Poller].answer) \in Update \ {"Refused"}
    BY DEF PollUpdate, Update
  <2> QED
    BY <1>0, <1>5, <1>s, <2>1, <2>2, SendKeepsReading DEF Polled
<1>6. ASSUME NEW f \in Focuser, Focused(f) PROVE RefusedOnce' /\ BusyAgentsAreRead'
  <2>1. f \in Caller /\ "Notice" \in Update \ {"Refused"}
    BY DEF Caller, Update
  <2> QED
    BY <1>0, <1>6, <1>q, <1>s, <2>1, SendKeepsReading DEF Focused
<1>7. ASSUME NEW r \in Reader, ReadAgain(r) PROVE RefusedOnce' /\ BusyAgentsAreRead'
  <2>1. r \in Caller
    BY DEF Caller
  <2>2. [phase |-> "connecting", answer |-> None, source |-> "visible"] \in Call
    BY DEF Call, Source
  <2>3. None # "NotIdle"
    BY NoneIsNoAnswer DEF Answer, Error
  <2> QED
    BY <1>7, <1>q, <1>s, <2>1, <2>2, <2>3 DEF ReadAgain
<1>8. ASSUME NEW r \in Reader, Read(r) PROVE RefusedOnce' /\ BusyAgentsAreRead'
  <2>1. r \in Caller
    BY DEF Caller
  <2>2. call[r].answer # "NotIdle"
    BY <1>8, <2>1 DEF Read, FallsBack, RefusedOnce
  <2>3. ReadUpdate(call[r].answer) \in Update \ {"Refused"}
    BY <2>2 DEF ReadUpdate, Update
  <2> QED
    BY <1>0, <1>8, <1>s, <2>1, <2>3, SendKeepsReading DEF Read
<1>9. CASE Receive
  <2>1. chan \in Seq(Update) /\ chan # <<>> /\ chan' = Tail(chan)
    BY <1>9 DEF Receive, TypeOK
  <2>2. \A i \in DOMAIN chan' : \E j \in DOMAIN chan : chan'[i] = chan[j]
    BY <2>1
  <2>3. BusyAgentsAreRead'
    BY <2>2 DEF BusyAgentsAreRead, Range
  <2> QED
    BY <1>9, <1>r, <2>3 DEF Receive
<1>10. CASE HerdrChanges
  BY <1>10, <1>q, <1>r DEF HerdrChanges, tasks
<1>11. CASE UNCHANGED vars
  BY <1>11, <1>q, <1>r DEF vars, tasks
<1>12. ASSUME NEW c \in Caller, Start(c) \/ Connect(c) \/ Hear(c) \/ Timeout(c)
       PROVE  BusyAgentsAreRead'
  BY <1>12, <1>q DEF Start, Connect, Hear, Timeout, Answered
<1> QED
  BY <1>1, <1>2, <1>3, <1>4, <1>5, <1>6, <1>7, <1>8, <1>9, <1>10, <1>11, <1>12 DEF Next

(* No read comes to nothing because the agent is at work, however the      *)
(* agent's work and herdr's moods change between its two requests.         *)
THEOREM BusyAgentsRead == Spec => []BusyAgentsAreRead
<1>1. IInv => BusyAgentsAreRead
  BY DEF IInv
<1> QED
  BY <1>1, InitIInv, StepIInv, PTL DEF Spec
=============================================================================
