---------------------------- MODULE HerdrPolling ----------------------------
(***************************************************************************)
(* herdash asking herdr, and what the screen says of it: Connection and    *)
(* Client (src/src/herdr/client.rs), poll_snapshots, spawn_focus and the   *)
(* read of summarize_agent (src/src/main.rs), and the arms of apply_update *)
(* that set conn and notice (src/src/orchestrator.rs).                     *)
(*                                                                         *)
(* Every request has a connection of its own, and request_within bounds    *)
(* connection and exchange together. An answer is modelled by what the     *)
(* code makes of it; a line that is blank or has another id is read and    *)
(* skipped, which changes nothing here.                                    *)
(***************************************************************************)
EXTENDS Naturals, Sequences, Functions

CONSTANTS
    Poller,   \* the task that runs poll_snapshots
    Focuser,  \* tasks of spawn_focus
    Reader,   \* summary workers, here for their reads
    ChanCap,  \* capacity of the update channel (128 in run)
    None

ASSUME PollingAssumption ==
    /\ Poller \notin Focuser \cup Reader
    /\ Focuser \cap Reader = {}
    /\ ChanCap \in Nat \ {0}

VARIABLES
    herdr,   \* how the server behaves, see Mood
    busy,    \* does the agent read draw on the alternate screen?
    call,    \* the request each task has under way
    chan,    \* the mpsc channel of updates
    conn,    \* App.conn
    notice   \* App.notice

tasks == <<call, chan>>
screen == <<conn, notice>>
vars == <<herdr, busy, tasks, screen>>

-----------------------------------------------------------------------------
(* Well: every request is answered in time, with a result or an error that *)
(* fits it. Odd: answered with what is no answer. Mute: accepted, and no   *)
(* answer. Gone: refused, closed or broken.                                *)
Mood == {"well", "odd", "mute", "gone"}

Caller == {Poller} \cup Focuser \cup Reader

(* ClientError, "NotIdle" for the Remote error of code agent_not_idle, and  *)
(* "Eof" for Io too: a connection that breaks off is one that ends.        *)
Error  == {"Connect", "Eof", "Timeout", "Remote", "NotIdle", "Protocol"}
Answer == Error \cup {"Ok"}

ASSUME NoneIsNoAnswer == None \notin Answer

Source == {"recent_unwrapped", "visible"}

Call == [phase : {"rest", "connecting", "waiting", "answered"},
         answer : Answer \cup {None},
         source : Source]

Rest == [phase |-> "rest", answer |-> None, source |-> "recent_unwrapped"]

Update == {"Snapshot", "Reconnecting", "Notice", "Text", "NoText", "Refused"}

TypeOK ==
    /\ herdr \in Mood
    /\ busy \in BOOLEAN
    /\ call \in [Caller -> Call]
    /\ chan \in Seq(Update) /\ Len(chan) <= ChanCap
    /\ conn \in {"Connected", "Reconnecting"}
    /\ notice \in BOOLEAN

-----------------------------------------------------------------------------
(* Mutated form: a timeout is an answer of sorts. *)
IsTransportNoTimeout(error) == error \in {"Connect", "Eof"}

(* is_transport *)
IsTransport(error) == error \in {"Connect", "Eof", "Timeout"}

(* The update poll_snapshots makes of an answer. *)
PollUpdate(answer) ==
    CASE answer = "Ok" -> "Snapshot"
      [] answer \in Error /\ IsTransport(answer) -> "Reconnecting"
      [] OTHER -> "Notice"

ReadUpdate(answer) ==
    CASE answer = "Ok" -> "Text" [] answer = "NotIdle" -> "Refused" [] OTHER -> "NoText"

(* What herdr can make a request that waits hear: a pane may have gone     *)
(* since it was chosen, and a busy agent is read only as far as it shows.  *)
HeardWell(c) ==
    IF c \in Focuser THEN {"Ok", "Remote"}
    ELSE IF c \in Reader /\ busy /\ call[c].source = "recent_unwrapped" THEN {"NotIdle"}
    ELSE {"Ok"}

Heard(c) ==
    CASE herdr = "well" -> HeardWell(c)
      [] herdr = "odd"  -> {"Remote", "Protocol"}
      [] herdr = "mute" -> {}
      [] herdr = "gone" -> {"Eof"}

-----------------------------------------------------------------------------
(* The exchange. *)

Answered(c, answer) ==
    /\ call' = [call EXCEPT ![c].phase = "answered", ![c].answer = answer]
    /\ UNCHANGED <<herdr, busy, chan, screen>>

Start(c) ==
    /\ call[c].phase = "rest"
    /\ call' = [call EXCEPT ![c].phase = "connecting"]
    /\ UNCHANGED <<herdr, busy, chan, screen>>

(* UnixStream::connect, and the request written. *)
Connect(c) ==
    /\ call[c].phase = "connecting"
    /\ IF herdr = "gone"
       THEN Answered(c, "Connect")
       ELSE /\ call' = [call EXCEPT ![c].phase = "waiting"]
            /\ UNCHANGED <<herdr, busy, chan, screen>>

Hear(c) ==
    /\ call[c].phase = "waiting"
    /\ \E answer \in Heard(c) : Answered(c, answer)

(* Mutated form: only the connection is bounded. *)
TimeoutConnecting(c) ==
    /\ herdr = "mute" /\ call[c].phase = "connecting"
    /\ Answered(c, "Timeout")

Timeout(c) ==
    /\ herdr = "mute" /\ call[c].phase \in {"connecting", "waiting"}
    /\ Answered(c, "Timeout")

-----------------------------------------------------------------------------
(* What the tasks do with an answer. *)

Send(update) == Len(chan) < ChanCap /\ chan' = Append(chan, update)

(* Mutated form: the channel is taken to be unbounded. *)
PolledUnbounded ==
    /\ call[Poller].phase = "answered"
    /\ chan' = Append(chan, PollUpdate(call[Poller].answer))
    /\ call' = [call EXCEPT ![Poller] = Rest]
    /\ UNCHANGED <<herdr, busy, screen>>

(* poll_snapshots, to its next tick *)
Polled ==
    /\ call[Poller].phase = "answered"
    /\ Send(PollUpdate(call[Poller].answer))
    /\ call' = [call EXCEPT ![Poller] = Rest]
    /\ UNCHANGED <<herdr, busy, screen>>

(* spawn_focus *)
Focused(f) ==
    /\ call[f].phase = "answered"
    /\ IF call[f].answer = "Ok" THEN UNCHANGED chan ELSE Send("Notice")
    /\ call' = [call EXCEPT ![f] = Rest]
    /\ UNCHANGED <<herdr, busy, screen>>

(* read_agent asks again for what the agent shows, with a time limit of    *)
(* its own. Mutated form: herdr's word is final.                           *)
FallsBackNever(r) == FALSE

FallsBack(r) == call[r].answer = "NotIdle" /\ call[r].source = "recent_unwrapped"

ReadAgain(r) ==
    /\ call[r].phase = "answered"
    /\ FallsBack(r)
    /\ call' = [call EXCEPT ![r] = [phase |-> "connecting", answer |-> None, source |-> "visible"]]
    /\ UNCHANGED <<herdr, busy, chan, screen>>

(* summarize_agent, which sends one Summary update, whatever came of it.   *)
Read(r) ==
    /\ call[r].phase = "answered"
    /\ ~FallsBack(r)
    /\ Send(ReadUpdate(call[r].answer))
    /\ call' = [call EXCEPT ![r] = Rest]
    /\ UNCHANGED <<herdr, busy, screen>>

(* apply_update, as far as conn and notice go; a Summary touches neither.  *)
(* Mutated form: a snapshot does not set conn.                             *)
ReceiveKeepsConn ==
    /\ chan # <<>>
    /\ chan' = Tail(chan)
    /\ conn' = IF Head(chan) = "Reconnecting" THEN "Reconnecting" ELSE conn
    /\ notice' = CASE Head(chan) = "Snapshot" -> FALSE
                   [] Head(chan) = "Notice"   -> TRUE
                   [] OTHER                   -> notice
    /\ UNCHANGED <<herdr, busy, call>>

Receive ==
    /\ chan # <<>>
    /\ chan' = Tail(chan)
    /\ conn' = CASE Head(chan) = "Snapshot"     -> "Connected"
                 [] Head(chan) = "Reconnecting" -> "Reconnecting"
                 [] OTHER                       -> conn
    /\ notice' = CASE Head(chan) = "Snapshot" -> FALSE
                   [] Head(chan) = "Notice"   -> TRUE
                   [] OTHER                   -> notice
    /\ UNCHANGED <<herdr, busy, call>>

(* The world outside, at any time. *)
HerdrChanges ==
    /\ \/ herdr' \in Mood /\ UNCHANGED busy
       \/ busy' = ~busy /\ UNCHANGED herdr
    /\ UNCHANGED <<tasks, screen>>

-----------------------------------------------------------------------------
(* run starts with a snapshot in hand. *)
Init ==
    /\ herdr \in Mood
    /\ busy \in BOOLEAN
    /\ call = [c \in Caller |-> Rest]
    /\ chan = <<>>
    /\ conn = "Connected"
    /\ notice = FALSE

Next ==
    \/ \E c \in Caller : Start(c) \/ Connect(c) \/ Hear(c) \/ Timeout(c)
    \/ Polled
    \/ \E f \in Focuser : Focused(f)
    \/ \E r \in Reader : ReadAgain(r) \/ Read(r)
    \/ Receive
    \/ HerdrChanges

(* tokio's interval ticks, its timers fire and its tasks run; the channel  *)
(* gives room to the senders that wait in turn.                            *)
Fairness ==
    /\ WF_vars(Start(Poller))
    /\ \A c \in Caller : WF_vars(Connect(c) \/ Hear(c) \/ Timeout(c))
    /\ SF_vars(Polled)
    /\ \A f \in Focuser : SF_vars(Focused(f))
    /\ \A r \in Reader : WF_vars(ReadAgain(r)) /\ SF_vars(Read(r))
    /\ WF_vars(Receive)

Spec == Init /\ [][Next]_vars /\ Fairness

-----------------------------------------------------------------------------
(* Properties. *)

(* A herdr that is gone or no longer answers is shown as such, and no      *)
(* request to it hangs for ever: "a connected-but-unresponsive server      *)
(* would wedge the poller forever and the dashboard would silently freeze  *)
(* on stale data while claiming to be connected" (REQUEST_TIMEOUT).        *)
SilenceIsShown ==
    <>[](herdr \in {"mute", "gone"}) => <>[](conn = "Reconnecting")

(* However long it was away, and whatever was under way when it came back, *)
(* a herdr that is well again is shown connected, with no notice left to   *)
(* stand (apply_update).                                                   *)
RecoveryIsShown ==
    <>[](herdr = "well") => <>[](conn = "Connected") /\ []<>(~notice)

(* No read fails for the agent being at work, even when the agent gets to  *)
(* work, or stops, between one read and the next: "without this fallback   *)
(* the agents you most want summarized are the only ones that never get a  *)
(* summary" (read_agent).                                                  *)
BusyAgentsAreRead == "Refused" \notin Range(chan)

(* The poller asks again and again, whatever herdr does to it and however  *)
(* full the channel is.                                                    *)
PollingGoesOn == []<>(call[Poller].phase = "connecting")
=============================================================================
