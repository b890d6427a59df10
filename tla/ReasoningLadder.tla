-------------------------- MODULE ReasoningLadder --------------------------
(***************************************************************************)
(* How LlmClient finds the cheapest reasoning setting its provider takes   *)
(* (src/src/summary/client.rs, src/src/summary/provider.rs).               *)
(*                                                                         *)
(* Every summary task and the fleet task call one shared LlmClient. A call *)
(* starts at the cached rung, climbs one rung each time the provider       *)
(* refuses the setting, and leaves the cache no lower than it got. Calls   *)
(* overlap freely; they share nothing but the cache, an atomic.            *)
(*                                                                         *)
(* A rung is its ReasoningMode::index.                                     *)
(***************************************************************************)
EXTENDS Naturals, FiniteSets

CONSTANT Caller     \* the tasks that may have a call open

ASSUME CallerAssumption == IsFiniteSet(Caller)

VARIABLES
    provider,  \* its dialect, and the rungs it refuses
    cache,     \* LlmClient.reasoning
    call,      \* the open calls: the rung of the request on the wire
    paid       \* history: how often each rung was refused, up to PaidBound

vars == <<provider, cache, call, paid>>

-----------------------------------------------------------------------------
Disabled == 0
LowEffort == 1
ProviderDefault == 2
Rung == Disabled..ProviderDefault

Dialect == {"OpenRouter", "OpenAiDirect", "OpenAiGeneric", "Anthropic"}

StartRung(dialect) ==
    CASE dialect \in {"OpenRouter", "Anthropic"} -> Disabled
      [] dialect = "OpenAiDirect"                -> LowEffort
      [] OTHER                                   -> ProviderDefault

(* Does a request at this rung carry a reasoning field? *)
SendsReasoning(dialect, rung) ==
    \/ dialect \in {"OpenRouter", "Anthropic"} /\ rung # ProviderDefault
    \/ dialect = "OpenAiDirect" /\ rung = LowEffort

(* Mutated forms: the middle rung leads back to the first; a rung is       *)
(* skipped.                                                                *)
EscalateBack(rung) == IF rung = Disabled THEN LowEffort ELSE Disabled
EscalateSkips(rung) == rung + 2

(* ReasoningMode::escalate, for the rungs that have a next one. *)
Escalate(rung) == rung + 1

(* What comes back: the HTTP status, 0 where there is none, and whether    *)
(* the error message speaks of refusing a reasoning field.                 *)
Response == [status : {0, 200, 400, 429, 500}, blamesField : BOOLEAN]
Refusal  == [status |-> 400, blamesField |-> TRUE]

(* Mutated form: a rate limit taken for a refusal. *)
IsRejectionThrottled(r, sent) == r.status \in 400..499 /\ sent /\ r.blamesField

(* is_reasoning_rejection *)
IsRejection(r, sent) ==
    r.status \in 400..499 \ {429} /\ sent /\ r.blamesField

(* Mutated form: a plain store. *)
AdvanceStored(c, rung) == rung

(* advance_rung: fetch_max. *)
AdvanceRung(c, rung) == IF c < rung THEN rung ELSE c

-----------------------------------------------------------------------------
(* The provider. It refuses some of the settings it can be sent, by the    *)
(* error the client looks for, and takes the others; a failure of another  *)
(* kind, with any wording, may come instead of either.                     *)

Provider ==
    {p \in [dialect : Dialect, refuses : SUBSET Rung] :
        \A r \in p.refuses : SendsReasoning(p.dialect, r)}

MayAnswer(r, rung) ==
    /\ r.status = 200 => rung \notin provider.refuses /\ ~r.blamesField
    /\ r = Refusal /\ SendsReasoning(provider.dialect, rung) => rung \in provider.refuses

-----------------------------------------------------------------------------
Open == {c \in Caller : call[c].open}

(* Bound: the history counts to one more than it may reach. *)
PaidBound == Cardinality(Caller) + 1

Idle == [open |-> FALSE, rung |-> Disabled]

TypeOK ==
    /\ provider \in Provider
    /\ cache \in Rung
    /\ call \in [Caller -> [open : BOOLEAN, rung : Rung]]
    /\ paid \in [Rung -> 0..PaidBound]

(* call: the first request goes out at the cached rung. *)
Begin(c) ==
    /\ c \notin Open
    /\ call' = [call EXCEPT ![c] = [open |-> TRUE, rung |-> cache]]
    /\ UNCHANGED <<provider, cache, paid>>

Rejected(c, r) == IsRejection(r, SendsReasoning(provider.dialect, call[c].rung))

(* Refused below the top rung: climb, advance the cache, ask again. *)
Climb(c, r) ==
    /\ c \in Open
    /\ MayAnswer(r, call[c].rung)
    /\ Rejected(c, r)
    /\ call[c].rung # ProviderDefault
    /\ call' = [call EXCEPT ![c].rung = Escalate(@)]
    /\ cache' = AdvanceRung(cache, Escalate(call[c].rung))
    /\ paid' = [paid EXCEPT ![call[c].rung] = IF @ < PaidBound THEN @ + 1 ELSE @]
    /\ UNCHANGED provider

(* An answer, a failure of another kind, or nowhere left to climb. *)
Return(c, r) ==
    /\ c \in Open
    /\ MayAnswer(r, call[c].rung)
    /\ ~Rejected(c, r) \/ call[c].rung = ProviderDefault
    /\ call' = [call EXCEPT ![c] = Idle]
    /\ UNCHANGED <<provider, cache, paid>>

Replied(c) == \E r \in Response : Climb(c, r) \/ Return(c, r)

-----------------------------------------------------------------------------
Init ==
    /\ provider \in Provider
    /\ cache = StartRung(provider.dialect)
    /\ call = [c \in Caller |-> Idle]
    /\ paid = [r \in Rung |-> 0]

Next == \E c \in Caller : Begin(c) \/ Replied(c)

Spec == Init /\ [][Next]_vars

(* Every request ends, by an answer or by the 45 s timeout; a provider     *)
(* that refuses a setting says so again and again, if it is asked for ever.*)
FairSpec ==
    /\ Spec
    /\ \A c \in Caller : WF_vars(Replied(c)) /\ SF_vars(Climb(c, Refusal))

-----------------------------------------------------------------------------
(* Properties. *)

(* The climb never skips a setting the provider would have taken: each     *)
(* rung between the dialect's first and the one in use was refused. A rate *)
(* limit, an outage or a bad model name must not raise the price of every  *)
(* later call (is_reasoning_rejection).                                    *)
CheapestAccepted ==
    /\ StartRung(provider.dialect)..(cache - 1) \subseteq provider.refuses
    /\ \A c \in Open : StartRung(provider.dialect)..(call[c].rung - 1) \subseteq provider.refuses

(* A refused setting is paid for at most once by each task, however the    *)
(* calls overlap and however many follow: the ladder does not oscillate    *)
(* (advance_rung, "re-pay for a refused call on every lap").               *)
RefusalsBounded == \A r \in Rung : paid[r] <= Cardinality(Caller)

(* Every call returns. *)
CallReturns == \A c \in Caller : c \in Open ~> c \notin Open
=============================================================================
