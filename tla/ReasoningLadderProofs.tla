----------------------- MODULE ReasoningLadderProofs -----------------------
(***************************************************************************)
(* The ladder, for every number of tasks: no rung is skipped that the      *)
(* provider would have taken, and no refused rung is paid for more often   *)
(* than there are tasks.                                                   *)
(***************************************************************************)
EXTENDS ReasoningLadder, FiniteSetTheorems, TLAPS

USE DEF Disabled, LowEffort, ProviderDefault, Rung

(* A step leaves the provider alone, and the cache never falls. *)
LEMMA CacheRises ==
    ASSUME TypeOK, NEW c \in Caller, NEW r \in Response, Climb(c, r)
    PROVE  /\ call[c].rung \in {0, 1}
           /\ Escalate(call[c].rung) = call[c].rung + 1
           /\ cache' \in Rung /\ cache <= cache' /\ call[c].rung < cache'
           /\ cache' = cache \/ cache' = call[c].rung + 1
  <1>1. call[c].rung \in {0, 1}
    BY DEF TypeOK, Climb, Open
  <1>2. cache \in {0, 1, 2}
    BY DEF TypeOK
  <1> QED
    BY <1>1, <1>2 DEF Climb, AdvanceRung, Escalate

(* A refusal the client acts on comes from a provider that refuses the rung. *)
LEMMA RejectionIsReal ==
    ASSUME TypeOK, NEW c \in Caller, NEW r \in Response, Climb(c, r)
    PROVE  call[c].rung \in provider.refuses
  <1>1. r.status = 400 /\ r.blamesField = TRUE /\ SendsReasoning(provider.dialect, call[c].rung)
    BY DEF Climb, Rejected, IsRejection, Response
  <1>2. r = Refusal
    BY <1>1 DEF Response, Refusal
  <1> QED
    BY <1>1, <1>2 DEF Climb, MayAnswer

-----------------------------------------------------------------------------
(* Type correctness.                                                       *)
LEMMA TypeStep ==
    ASSUME TypeOK, [Next]_vars
    PROVE  TypeOK'
  <1> USE DEF TypeOK
  <1>0. PaidBound \in Nat /\ PaidBound' = PaidBound
    BY FS_CardinalityType, CallerAssumption DEF PaidBound
  <1>1. ASSUME NEW c \in Caller, Begin(c) PROVE TypeOK'
    BY <1>0, <1>1 DEF Begin
  <1>2. ASSUME NEW c \in Caller, NEW r \in Response, Climb(c, r) PROVE TypeOK'
    <2>1. cache' \in Rung
      BY <1>2, CacheRises
    <2>2. call[c].rung + 1 \in Rung /\ call' = [call EXCEPT ![c].rung = Escalate(@)]
      BY <1>2, CacheRises DEF Climb
    <2>3. call' \in [Caller -> [open : BOOLEAN, rung : Rung]]
      BY <2>2 DEF Escalate
    <2>4. paid' \in [Rung -> 0..PaidBound]
      BY <1>0, <1>2 DEF Climb
    <2> QED
      BY <1>0, <1>2, <2>1, <2>3, <2>4 DEF Climb
  <1>3. ASSUME NEW c \in Caller, NEW r \in Response, Return(c, r) PROVE TypeOK'
    BY <1>0, <1>3 DEF Return, Idle
  <1>4. CASE UNCHANGED vars
    BY <1>0, <1>4 DEF vars
  <1> QED
    BY <1>1, <1>2, <1>3, <1>4 DEF Next, Replied

LEMMA TypeInit ==
    ASSUME Init PROVE TypeOK
  <1>1. PaidBound \in Nat
    BY FS_CardinalityType, CallerAssumption DEF PaidBound
  <1> QED
    BY <1>1 DEF Init, TypeOK, StartRung, Idle

(* The variables keep their types, the rungs among them: no call climbs    *)
(* past ProviderDefault.                                                   *)
THEOREM TypeCorrect == Spec => []TypeOK
  <1>1. Init => TypeOK
    BY TypeInit
  <1>2. TypeOK /\ [Next]_vars => TypeOK'
    BY TypeStep
  <1> QED
    BY <1>1, <1>2, PTL DEF Spec

-----------------------------------------------------------------------------
(* No rung in use lies above one the provider would have taken             *)
(* (LlmClient::call, is_reasoning_rejection).                              *)
THEOREM NoRungSkipped == Spec => []CheapestAccepted
  <1> DEFINE IInv == TypeOK /\ CheapestAccepted
  <1>1. Init => IInv
    <2> SUFFICES ASSUME Init PROVE CheapestAccepted
      BY TypeInit
    <2>1. Open = {}
      BY DEF Init, Open, Idle
    <2> QED
      BY <2>1 DEF Init, CheapestAccepted, StartRung
  <1>2. IInv /\ [Next]_vars => IInv'
    <2> SUFFICES ASSUME IInv, [Next]_vars PROVE CheapestAccepted'
      BY TypeStep
    <2> DEFINE start == StartRung(provider.dialect)
    <2>0. start \in Rung
      BY DEF StartRung
    <2>1. ASSUME NEW c \in Caller, Begin(c) PROVE CheapestAccepted'
      BY <2>1 DEF Begin, CheapestAccepted, Open, TypeOK
    <2>2. ASSUME NEW c \in Caller, NEW r \in Response, Climb(c, r) PROVE CheapestAccepted'
      <3>1. provider' = provider /\ c \in Open /\ Open' = Open
        BY <2>2 DEF Climb, Open, TypeOK
      <3>2. call'[c].rung = call[c].rung + 1 /\ \A d \in Caller \ {c} : call'[d] = call[d]
        BY <2>2, CacheRises DEF Climb, TypeOK
      <3>3. start..call[c].rung \subseteq provider.refuses
        <4>1. start..(call[c].rung - 1) \subseteq provider.refuses
          BY <3>1 DEF CheapestAccepted
        <4>2. call[c].rung \in provider.refuses /\ call[c].rung \in {0, 1}
          BY <2>2, RejectionIsReal, CacheRises
        <4> QED
          BY <2>0, <4>1, <4>2
      <3>4. start..(call'[c].rung - 1) \subseteq provider.refuses
        <4>1. call'[c].rung - 1 = call[c].rung
          BY <2>2, <3>2, CacheRises
        <4> QED
          BY <3>3, <4>1
      <3>5. start..(cache' - 1) \subseteq provider.refuses
        <4>1. CASE cache' = cache
          BY <4>1 DEF CheapestAccepted
        <4>2. CASE cache' = call[c].rung + 1
          <5>1. cache' - 1 = call[c].rung
            BY <2>2, <4>2, CacheRises
          <5> QED
            BY <3>3, <5>1
        <4> QED
          BY <2>2, <4>1, <4>2, CacheRises
      <3>6. ASSUME NEW d \in Open' PROVE start..(call'[d].rung - 1) \subseteq provider.refuses
        BY <3>1, <3>2, <3>4, <3>6 DEF CheapestAccepted, Open
      <3> QED
        BY <3>1, <3>5, <3>6 DEF CheapestAccepted
    <2>3. ASSUME NEW c \in Caller, NEW r \in Response, Return(c, r) PROVE CheapestAccepted'
      BY <2>3 DEF Return, CheapestAccepted, Open, Idle, TypeOK
    <2>4. CASE UNCHANGED vars
      BY <2>4 DEF vars, CheapestAccepted, Open
    <2> QED
      BY <2>1, <2>2, <2>3, <2>4 DEF Next, Replied
  <1> QED
    BY <1>1, <1>2, PTL DEF Spec

-----------------------------------------------------------------------------
(* The calls that may still be refused at r. *)
AtOrBelow(r) == {c \in Open : call[c].rung <= r}

(* What has been paid at r, and what may still be, never exceeds the       *)
(* number of tasks; and while the cache is not past r, nothing was paid.   *)
Budget ==
    \A r \in Rung :
       /\ paid[r] + Cardinality(AtOrBelow(r)) <= Cardinality(Caller)
       /\ cache <= r => paid[r] = 0

LEMMA SomeCallers ==
    ASSUME NEW S, S \subseteq Caller
    PROVE  /\ IsFiniteSet(S)
           /\ Cardinality(S) \in Nat /\ Cardinality(Caller) \in Nat
           /\ Cardinality(S) <= Cardinality(Caller)
  BY FS_Subset, FS_CardinalityType, CallerAssumption

LEMMA BudgetStep ==
    ASSUME TypeOK, Budget, [Next]_vars
    PROVE  Budget'
  <1> SUFFICES ASSUME NEW r \in Rung
               PROVE  /\ paid'[r] + Cardinality(AtOrBelow(r)') <= Cardinality(Caller)
                      /\ cache' <= r => paid'[r] = 0
    BY DEF Budget
  <1>0. /\ AtOrBelow(r) \subseteq Caller /\ AtOrBelow(r)' \subseteq Caller
        /\ paid[r] \in Nat /\ r \in 0..2 /\ cache \in 0..2
        /\ paid[r] + Cardinality(AtOrBelow(r)) <= Cardinality(Caller)
        /\ cache <= r => paid[r] = 0
    <2>1. AtOrBelow(r) \subseteq Caller /\ AtOrBelow(r)' \subseteq Caller
      BY DEF AtOrBelow, Open
    <2>2. paid[r] \in 0..PaidBound
      BY DEF TypeOK
    <2> QED
      BY <2>1, <2>2 DEF Budget, TypeOK
  <1>c. /\ Cardinality(AtOrBelow(r)) \in Nat /\ Cardinality(AtOrBelow(r)') \in Nat
        /\ Cardinality(Caller) \in Nat
        /\ Cardinality(AtOrBelow(r)') <= Cardinality(Caller)
        /\ IsFiniteSet(AtOrBelow(r))
    BY <1>0, SomeCallers
  <1>1. ASSUME NEW c \in Caller, Begin(c)
        PROVE  paid'[r] + Cardinality(AtOrBelow(r)') <= Cardinality(Caller)
                 /\ (cache' <= r => paid'[r] = 0)
    <2>1. paid' = paid /\ cache' = cache
      BY <1>1 DEF Begin
    <2>2. CASE cache <= r
      BY <1>0, <1>c, <2>1, <2>2
    <2>3. CASE ~(cache <= r)
      <3>1. AtOrBelow(r)' = AtOrBelow(r)
        BY <1>1, <2>3 DEF AtOrBelow, Begin, Open, TypeOK
      <3> QED
        BY <1>0, <2>1, <3>1
    <2> QED
      BY <2>2, <2>3
  <1>2. ASSUME NEW c \in Caller, NEW q \in Response, Climb(c, q)
        PROVE  paid'[r] + Cardinality(AtOrBelow(r)') <= Cardinality(Caller)
                 /\ (cache' <= r => paid'[r] = 0)
    <2>0. /\ call[c].rung \in {0, 1} /\ cache <= cache' /\ call[c].rung < cache' /\ cache' \in 0..2
          /\ Escalate(call[c].rung) = call[c].rung + 1 /\ c \in Open
      BY <1>2, CacheRises DEF Climb
    <2>1. call' = [call EXCEPT ![c] = [call[c] EXCEPT !.rung = call[c].rung + 1]]
      BY <1>2, <2>0 DEF Climb, TypeOK
    <2>2. CASE r = call[c].rung
      <3>1. c \in AtOrBelow(r)
        BY <2>0, <2>2 DEF AtOrBelow
      <3>2. AtOrBelow(r)' = AtOrBelow(r) \ {c}
        BY <2>0, <2>1, <2>2 DEF AtOrBelow, Open, TypeOK
      <3>3. Cardinality(AtOrBelow(r)') = Cardinality(AtOrBelow(r)) - 1
        BY <1>c, <3>1, <3>2, FS_RemoveElement
      <3>4. paid'[r] = paid[r] + 1
        BY <1>0, <1>2, <1>c, <2>2 DEF Climb, PaidBound, TypeOK
      <3>5. ~(cache' <= r)
        BY <2>0, <2>2, <1>0
      <3> QED
        BY <1>0, <1>c, <3>3, <3>4, <3>5
    <2>3. CASE r # call[c].rung
      <3>1. AtOrBelow(r)' = AtOrBelow(r)
        BY <1>0, <2>0, <2>1, <2>3 DEF AtOrBelow, Open, TypeOK
      <3>2. paid'[r] = paid[r]
        BY <1>2, <2>3 DEF Climb, TypeOK
      <3> QED
        BY <1>0, <2>0, <3>1, <3>2
    <2> QED
      BY <2>2, <2>3
  <1>3. ASSUME NEW c \in Caller, NEW q \in Response, Return(c, q)
        PROVE  paid'[r] + Cardinality(AtOrBelow(r)') <= Cardinality(Caller)
                 /\ (cache' <= r => paid'[r] = 0)
    <2>1. paid' = paid /\ cache' = cache
      BY <1>3 DEF Return
    <2>2. AtOrBelow(r)' \subseteq AtOrBelow(r)
      BY <1>3 DEF AtOrBelow, Open, Return, Idle, TypeOK
    <2>3. Cardinality(AtOrBelow(r)') <= Cardinality(AtOrBelow(r))
      BY <1>c, <2>2, FS_Subset
    <2> QED
      BY <1>0, <1>c, <2>1, <2>3
  <1>4. CASE UNCHANGED vars
    <2>1. AtOrBelow(r)' = AtOrBelow(r) /\ paid' = paid /\ cache' = cache
      BY <1>4 DEF AtOrBelow, Open, vars
    <2> QED
      BY <1>0, <2>1
  <1> QED
    BY <1>1, <1>2, <1>3, <1>4 DEF Next, Replied

(* However the calls overlap, a refused rung costs at most one request for *)
(* each task, over the whole run (advance_rung's fetch_max).               *)
THEOREM NoOscillation == Spec => []RefusalsBounded
  <1> DEFINE IInv == TypeOK /\ Budget
  <1>1. Init => IInv
    <2> SUFFICES ASSUME Init, NEW r \in Rung
                 PROVE  paid[r] = 0 /\ Cardinality(AtOrBelow(r)) <= Cardinality(Caller)
                          /\ Cardinality(AtOrBelow(r)) \in Nat
      BY TypeInit DEF Budget
    <2>1. AtOrBelow(r) \subseteq Caller
      BY DEF AtOrBelow, Open
    <2> QED
      BY <2>1, SomeCallers DEF Init
  <1>2. IInv /\ [Next]_vars => IInv'
    BY TypeStep, BudgetStep
  <1>3. IInv => RefusalsBounded
    <2> SUFFICES ASSUME TypeOK, Budget, NEW r \in Rung PROVE paid[r] <= Cardinality(Caller)
      BY DEF RefusalsBounded
    <2>1. AtOrBelow(r) \subseteq Caller /\ paid[r] \in 0..PaidBound
      BY DEF AtOrBelow, Open, TypeOK
    <2>2. Cardinality(AtOrBelow(r)) \in Nat /\ Cardinality(Caller) \in Nat
      BY <2>1, SomeCallers
    <2>3. paid[r] + Cardinality(AtOrBelow(r)) <= Cardinality(Caller)
      BY DEF Budget
    <2> QED
      BY <2>1, <2>2, <2>3
  <1> QED
    BY <1>1, <1>2, <1>3, PTL DEF Spec
=============================================================================
