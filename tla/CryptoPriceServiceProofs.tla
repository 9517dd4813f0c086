------------------------ MODULE CryptoPriceServiceProofs ------------------------
(* Proofs about CryptoPriceService, for any providers, any list of         *)
(* fallbacks and any answers.                                              *)
EXTENDS CryptoPriceService, TLAPS

(* A list only gains providers when one is appended to it.                 *)
LEMMA AppendKeeps ==
  ASSUME NEW S, NEW s \in Seq(S), NEW e \in S
  PROVE  /\ Append(s, e) \in Seq(S) /\ Append(s, e) # <<>>
         /\ \A i \in 1..Len(s) : i \in 1..Len(Append(s, e)) /\ Append(s, e)[i] = s[i]
  OBVIOUS

(* The first provider of a list that is not empty is in the list.          *)
LEMMA HeadIsAvailable ==
  ASSUME available \in Seq(Provider), available # <<>>
  PROVE  Head(available) \in Provider /\ \E i \in 1..Len(available) : available[i] = Head(available)
  <1>1. Len(available) \in Nat /\ Len(available) # 0
    OBVIOUS
  <1>2. 1 \in 1..Len(available) /\ available[1] = Head(available)
    BY <1>1
  <1> QED
    BY <1>2

(* An index into the fallbacks that is not past the end is one of theirs.  *)
LEMMA FallbackIndex ==
  ASSUME ServiceTypeOK, FallbackLeft
  PROVE  /\ next \in 1..Len(Fallbacks) /\ Fallbacks[next] \in Provider
         /\ next + 1 \in 1..(Len(Fallbacks) + 1)
         /\ 1..((next + 1) - 1) = 1..(next - 1) \cup {next}
         /\ Len(Fallbacks) + 1 \in 1..(Len(Fallbacks) + 1)
  <1>1. Len(Fallbacks) \in Nat
    BY ProviderAssumption
  <1>2. next \in 1..Len(Fallbacks)
    BY <1>1 DEF ServiceTypeOK, FallbackLeft
  <1> QED
    BY <1>1, <1>2, ProviderAssumption

-------------------------------------------------------------------------------
LEMMA InitInv == ASSUME ServiceInit PROVE ServiceInv
  <1>1. Len(Fallbacks) \in Nat
    BY ProviderAssumption
  <1>2. <<>> \in Seq(Provider) /\ 1 \in 1..(Len(Fallbacks) + 1)
    BY <1>1
  <1>3. ServiceTypeOK
    BY <1>2, ProviderAssumption DEF ServiceInit, ServiceTypeOK
  <1> QED
    BY <1>3 DEF ServiceInit, ServiceInv, CurrentIsAvailable, RefusedSoFar

LEMMA GetInstanceInv == ASSUME ServiceInv, GetInstance PROVE ServiceInv'
  <1>1. Len(Fallbacks) \in Nat
    BY ProviderAssumption
  <1>2. <<>> \in Seq(Provider) /\ 1 \in 1..(Len(Fallbacks) + 1)
    BY <1>1
  <1>3. ServiceTypeOK'
    BY <1>2, ProviderAssumption DEF ServiceInv, ServiceTypeOK, GetInstance
  <1>4. CurrentIsAvailable' /\ RefusedSoFar'
    BY DEF ServiceInv, ServiceTypeOK, CurrentIsAvailable, RefusedSoFar, GetInstance, IsAvailable
  <1> QED
    BY <1>3, <1>4 DEF ServiceInv

LEMMA ProbeReturnsInv ==
  ASSUME ServiceInv, NEW p \in Provider, NEW ok \in BOOLEAN, ProbeReturns(p, ok)
  PROVE  ServiceInv'
  <1>1. available' \in Seq(Provider)
    BY AppendKeeps DEF ServiceInv, ServiceTypeOK, ProbeReturns
  <1>2. ServiceTypeOK'
    BY <1>1 DEF ServiceInv, ServiceTypeOK, ProbeReturns
  <1>3. CurrentIsAvailable' /\ RefusedSoFar'
    BY DEF ServiceInv, CurrentIsAvailable, RefusedSoFar, ProbeReturns
  <1> QED
    BY <1>2, <1>3 DEF ServiceInv

LEMMA InitializeEndsInv == ASSUME ServiceInv, InitializeEnds PROVE ServiceInv'
  <1>1. CASE available = <<>>
    BY <1>1 DEF InitializeEnds, ServiceInv, ServiceTypeOK, CurrentIsAvailable, RefusedSoFar
  <1>2. CASE available # <<>>
    <2>1. Head(available) \in Provider /\ \E i \in 1..Len(available) : available[i] = Head(available)
      BY <1>2, HeadIsAvailable DEF ServiceInv, ServiceTypeOK
    <2>2. ServiceTypeOK'
      BY <1>2, <2>1 DEF InitializeEnds, ServiceInv, ServiceTypeOK
    <2>3. CurrentIsAvailable' /\ RefusedSoFar'
      BY <1>2, <2>1 DEF ServiceInv, InitializeEnds, CurrentIsAvailable, RefusedSoFar, IsAvailable
    <2> QED
      BY <2>2, <2>3 DEF ServiceInv
  <1> QED
    BY <1>1, <1>2

LEMMA RequestInv == ASSUME ServiceInv, Request PROVE ServiceInv'
  BY DEF Request, ServiceInv, ServiceTypeOK, CurrentIsAvailable, RefusedSoFar, IsAvailable

LEMMA TryCurrentInv ==
  ASSUME ServiceInv, NEW ok \in BOOLEAN, TryCurrent(ok)
  PROVE  ServiceInv'
  <1>1. ServiceTypeOK'
    BY DEF TryCurrent, ServiceInv, ServiceTypeOK
  <1>2. CurrentIsAvailable'
    BY DEF TryCurrent, ServiceInv, CurrentIsAvailable, IsAvailable
  <1>3. RefusedSoFar'
    BY DEF TryCurrent, ServiceInv, RefusedSoFar
  <1> QED
    BY <1>1, <1>2, <1>3 DEF ServiceInv

LEMMA SkipFallbackInv == ASSUME ServiceInv, SkipFallback PROVE ServiceInv'
  <1>1. /\ next + 1 \in 1..(Len(Fallbacks) + 1)
        /\ 1..((next + 1) - 1) = 1..(next - 1) \cup {next}
    BY FallbackIndex DEF ServiceInv, SkipFallback
  <1>2. ServiceTypeOK'
    BY <1>1 DEF SkipFallback, ServiceInv, ServiceTypeOK
  <1>3. CurrentIsAvailable'
    BY DEF SkipFallback, ServiceInv, CurrentIsAvailable, IsAvailable
  <1>4. RefusedSoFar'
    <2>1. pc = "fallback" /\ next' = next + 1 /\ ~IsAvailable(Fallbacks[next])
      BY DEF SkipFallback, FallbackLeft
    <2>2. UNCHANGED <<pc, current, refused, available, answer>>
      BY DEF SkipFallback
    <2> QED
      BY <1>1, <2>1, <2>2 DEF ServiceInv, RefusedSoFar, IsAvailable
  <1> QED
    BY <1>2, <1>3, <1>4 DEF ServiceInv

LEMMA TryFallbackInv ==
  ASSUME ServiceInv, NEW ok \in BOOLEAN, TryFallback(ok)
  PROVE  ServiceInv'
  <1> DEFINE p == Fallbacks[next]
  <1>1. /\ p \in Provider
        /\ next + 1 \in 1..(Len(Fallbacks) + 1)
        /\ 1..((next + 1) - 1) = 1..(next - 1) \cup {next}
    BY FallbackIndex DEF ServiceInv, TryFallback
  <1>2. pc = "fallback" /\ IsAvailable(p)
    BY DEF TryFallback, FallbackLeft
  <1>3. ServiceTypeOK'
    <2>1. CASE ok
      BY <1>1, <1>2, <2>1 DEF TryFallback, ServiceInv, ServiceTypeOK
    <2>2. CASE ~ok
      BY <1>1, <1>2, <2>2 DEF TryFallback, ServiceInv, ServiceTypeOK
    <2> QED
      BY <2>1, <2>2
  <1>4. CurrentIsAvailable'
    BY <1>2 DEF TryFallback, ServiceInv, CurrentIsAvailable, IsAvailable
  <1>5. RefusedSoFar'
    <2>1. CASE ok
      BY <2>1 DEF TryFallback, RefusedSoFar
    <2>2. CASE ~ok
      <3>1. /\ next' = next + 1 /\ refused' = refused \cup {p}
            /\ UNCHANGED <<pc, current, available, answer>>
        BY <2>2 DEF TryFallback
      <3> QED
        BY <1>1, <1>2, <3>1 DEF ServiceInv, RefusedSoFar, IsAvailable
    <2> QED
      BY <2>1, <2>2
  <1> QED
    BY <1>3, <1>4, <1>5 DEF ServiceInv

LEMMA GiveUpInv == ASSUME ServiceInv, GiveUp PROVE ServiceInv'
  BY DEF GiveUp, ServiceInv, ServiceTypeOK, CurrentIsAvailable, RefusedSoFar, IsAvailable

LEMMA RestartInv == ASSUME ServiceInv, Restart PROVE ServiceInv'
  <1>1. Len(Fallbacks) \in Nat
    BY ProviderAssumption
  <1>2. <<>> \in Seq(Provider) /\ 1 \in 1..(Len(Fallbacks) + 1)
    BY <1>1
  <1>3. ServiceTypeOK'
    BY <1>2, ProviderAssumption DEF Restart, ServiceTypeOK
  <1> QED
    BY <1>3 DEF Restart, ServiceInv, CurrentIsAvailable, RefusedSoFar

-------------------------------------------------------------------------------
(* Every step of the service, whatever its providers answer, keeps the     *)
(* invariant.                                                              *)
LEMMA StepInv == ASSUME ServiceInv, [ServiceNext]_serviceVars PROVE ServiceInv'
  <1>1. CASE GetInstance
    BY <1>1, GetInstanceInv
  <1>2. CASE \E p \in Provider, ok \in BOOLEAN : ProbeReturns(p, ok)
    BY <1>2, ProbeReturnsInv
  <1>3. CASE \E ok \in BOOLEAN : Answers(ok)
    BY <1>3, TryCurrentInv, TryFallbackInv DEF Answers
  <1>4. CASE OwnStep
    BY <1>4, InitializeEndsInv, RequestInv, SkipFallbackInv, GiveUpInv DEF OwnStep
  <1>5. CASE Restart
    BY <1>5, RestartInv
  <1>6. CASE UNCHANGED serviceVars
    BY <1>6 DEF serviceVars, ServiceInv, ServiceTypeOK, CurrentIsAvailable, RefusedSoFar, IsAvailable
  <1> QED
    BY <1>1, <1>2, <1>3, <1>4, <1>5, <1>6 DEF ServiceNext

(* For any providers, fallbacks and answers: the service is well typed,    *)
(* asks only providers found available, and has noted the refusals of all  *)
(* it has passed (CryptoPriceService.ts:49-92).                            *)
THEOREM ServiceInvCorrect == ServiceSpec => []ServiceInv
  <1>1. ServiceInit => ServiceInv
    BY InitInv
  <1>2. ServiceInv /\ [ServiceNext]_serviceVars => ServiceInv'
    BY StepInv
  <1> QED
    BY <1>1, <1>2, PTL DEF ServiceSpec

(* Only a provider that the probe found available is ever asked            *)
(* (CryptoPriceService.ts:50-59, :81).                                     *)
THEOREM CurrentStaysAvailable == ServiceSpec => []CurrentIsAvailable
  <1>1. ServiceInv => CurrentIsAvailable
    BY DEF ServiceInv
  <1> QED
    BY <1>1, ServiceInvCorrect, PTL

(* A call that fails has been refused by the provider it began with and by *)
(* every fallback found available (CryptoPriceService.ts:75-95).           *)
THEOREM FailuresAreThorough == ServiceSpec => FailureIsThorough
  <1> DEFINE Thorough ==
        pc = "fallback" /\ answer' = "failed" =>
          /\ current \in refused
          /\ \A i \in 1..Len(Fallbacks) : IsAvailable(Fallbacks[i]) => Fallbacks[i] \in refused
  <1>1. ASSUME ServiceInv, [ServiceNext]_serviceVars PROVE [Thorough]_serviceVars
    <2>1. SUFFICES ASSUME ServiceNext, pc = "fallback", answer' = "failed" PROVE Thorough
      BY <1>1
    <2>2. answer = "none"
      BY <1>1, <2>1 DEF ServiceInv, RefusedSoFar
    <2>3. GiveUp
      BY <2>1, <2>2 DEF ServiceNext, GetInstance, ProbeReturns, Answers, TryCurrent,
           TryFallback, OwnStep, InitializeEnds, Request, SkipFallback, Restart
    <2>4. next > Len(Fallbacks) /\ next \in Nat /\ Len(Fallbacks) \in Nat
      BY <1>1, <2>3, ProviderAssumption DEF GiveUp, ServiceInv, ServiceTypeOK
    <2>5. 1..Len(Fallbacks) \subseteq 1..(next - 1)
      BY <2>4
    <2> QED
      BY <1>1, <2>1, <2>5 DEF ServiceInv, RefusedSoFar
  <1> QED
    BY <1>1, ServiceInvCorrect, PTL DEF ServiceSpec, FailureIsThorough
===============================================================================
