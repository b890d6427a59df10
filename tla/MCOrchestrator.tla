--------------------------- MODULE MCOrchestrator ---------------------------
(* Small instances of Orchestrator for TLC; the cfg files say which panes,  *)
(* tasks and bounds each run has.                                           *)
EXTENDS Orchestrator, TLC

CONSTANTS p1, p2, p3

WorkerSymmetry == Permutations(Worker)

AnyOrder == [p \in Pane |-> 0]

(* The agents of one group, p1 first; all keep their status. *)
ListOrder == (p1 :> 0) @@ (p2 :> 1) @@ (p3 :> 2)

-----------------------------------------------------------------------------
(* A smooth session: nothing fails; p1 and p2 print again and again, each  *)
(* time once what they printed is listed and the channel is empty; polls   *)
(* that bring nothing new are left out; the one refresh the user ever asks *)
(* for is of p3. What an agent has printed is folded at its bound: it      *)
(* comes round, and differs from what it was.                              *)
Others == {p1, p2}

OthersPrint ==
    /\ snapshot = Reported
    /\ poll = None /\ chan = <<>>
    /\ panes' = [p \in Pane |->
                   IF p \in Others
                   THEN [panes[p] EXCEPT !.revision = IF @ < MaxRevision THEN @ + 1 ELSE 0]
                   ELSE panes[p]]
    /\ UNCHANGED <<poll, chan, loopVars>>

SmoothInit == Init /\ Live = Pane

SmoothNext ==
    \/ OthersPrint
    \/ snapshot # Reported /\ chan = <<>> /\ PollAnswered
    \/ PollSend
    \/ \E w \in Worker : ReadText(w) \/ CallAnswered(w) \/ WorkerSend(w) \/ Reap(w)
    \/ Receive \/ Tick \/ ForceOne(p3)
    \/ Elapse

(* select! throws dice where two of its branches are ready: a task at its  *)
(* end is not reaped after its result is received every time.              *)
Dice == \A w \in Worker : SF_vars(Reap(w) /\ "Summary" \in {chan[i].kind : i \in DOMAIN chan})

SmoothSpec == SmoothInit /\ [][SmoothNext]_vars /\ Fairness /\ Dice
=============================================================================
