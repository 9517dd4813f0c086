-------------------------- MODULE CryptoPriceService --------------------------
(***************************************************************************)
(* services/cryptoPrice: the process-wide CryptoPriceService, created by   *)
(* getCryptoPriceService on first use, its one-time probe of the providers *)
(* and getPrices with its fallback.  The caller is PriceAlertChecker, one  *)
(* call at a time.  Whether a provider succeeds is a parameter here and    *)
(* PriceLookup's matter.                                                   *)
(***************************************************************************)
EXTENDS Naturals, Sequences

CONSTANTS
  Provider,     \* the keys of config.providers
  Default,      \* config.defaultProvider
  Fallbacks     \* config.fallbackProviders, in order

ASSUME ProviderAssumption == Default \in Provider /\ Fallbacks \in Seq(Provider)

VARIABLES
  created,      \* cryptoPriceServiceInstance is not null
  available,    \* availableProviders, in the order the probes returned
  current,      \* currentProvider
  probing,      \* providers whose isAvailable has not returned
  pc,           \* where the caller stands
  next,         \* index into Fallbacks
  answer,       \* what the last call of the caller gave
  refused       \* history: providers that failed the call under way

serviceVars == <<created, available, current, probing, pc, next, answer, refused>>

IsAvailable(p) == \E i \in 1..Len(available) : available[i] = p

-------------------------------------------------------------------------------
ServiceInit == /\ created = FALSE
               /\ available = <<>> /\ current = Default /\ probing = {}
               /\ pc = "idle" /\ next = 1 /\ answer = "none" /\ refused = {}

(* The instance is stored before initialize has run.                       *)
GetInstance ==
  /\ pc = "idle"
  /\ created' = TRUE /\ refused' = {} /\ next' = 1 /\ answer' = "none"
  /\ IF created
     THEN pc' = "request" /\ UNCHANGED <<available, current, probing>>
     ELSE /\ pc' = "initialize"
          /\ available' = <<>> /\ current' = Default /\ probing' = Provider

(* One of the probes of Promise.allSettled returns.                        *)
ProbeReturns(p, ok) ==
  /\ pc = "initialize" /\ p \in probing
  /\ probing' = probing \ {p}
  /\ available' = IF ok THEN Append(available, p) ELSE available
  /\ UNCHANGED <<created, current, pc, next, answer, refused>>

(* Mutants: not all probes are awaited; the default is kept regardless. *)
InitializeEndsEarly ==
  /\ pc = "initialize" /\ available # <<>>
  /\ pc' = "request"
  /\ current' = IF IsAvailable(current) THEN current ELSE Head(available)
  /\ UNCHANGED <<created, available, probing, next, refused, answer>>

InitializeEndsOnDefault ==
  /\ pc = "initialize" /\ probing = {}
  /\ IF available = <<>> THEN pc' = "idle" /\ answer' = "error"
                         ELSE pc' = "request" /\ UNCHANGED answer
  /\ UNCHANGED <<created, available, current, probing, next, refused>>

(* Keep the default if it answered, else take the first that did, else     *)
(* throw: the caller fails, the instance stays.                            *)
InitializeEnds ==
  /\ pc = "initialize" /\ probing = {}
  /\ IF available = <<>>
     THEN pc' = "idle" /\ answer' = "error" /\ UNCHANGED current
     ELSE /\ pc' = "request"
          /\ current' = IF IsAvailable(current) THEN current ELSE Head(available)
          /\ UNCHANGED answer
  /\ UNCHANGED <<created, available, probing, next, refused>>

(* getPrices on an instance without providers throws.  What validateRequest*)
(* refuses is PriceAlertChecker's RequestAccepted.                         *)
Request ==
  /\ pc = "request"
  /\ IF available = <<>> THEN pc' = "idle" /\ answer' = "error"
                         ELSE pc' = "current" /\ UNCHANGED answer
  /\ UNCHANGED <<created, available, current, probing, next, refused>>

(* Mutant: no fallback. *)
TryCurrentOnly(ok) ==
  /\ pc = "current"
  /\ pc' = "idle" /\ answer' = IF ok THEN "prices" ELSE "failed"
  /\ UNCHANGED <<created, available, current, probing, next, refused>>

TryCurrent(ok) ==
  /\ pc = "current"
  /\ IF ok THEN pc' = "idle" /\ answer' = "prices" /\ UNCHANGED refused
     ELSE pc' = "fallback" /\ refused' = refused \cup {current} /\ UNCHANGED answer
  /\ UNCHANGED <<created, available, current, probing, next>>

FallbackLeft == pc = "fallback" /\ next <= Len(Fallbacks)

SkipFallback ==
  /\ FallbackLeft /\ ~IsAvailable(Fallbacks[next])
  /\ next' = next + 1
  /\ UNCHANGED <<created, available, current, probing, pc, answer, refused>>

(* Mutant: the loop breaks whatever the fallback answered. *)
TryFirstFallback(ok) ==
  /\ FallbackLeft /\ IsAvailable(Fallbacks[next])
  /\ IF ok
     THEN /\ current' = Fallbacks[next] /\ pc' = "idle" /\ answer' = "prices"
          /\ UNCHANGED <<next, refused>>
     ELSE /\ next' = Len(Fallbacks) + 1 /\ refused' = refused \cup {Fallbacks[next]}
          /\ UNCHANGED <<current, pc, answer>>
  /\ UNCHANGED <<created, available, probing>>

(* The fallback that answers becomes the current provider.                 *)
TryFallback(ok) ==
  /\ FallbackLeft /\ IsAvailable(Fallbacks[next])
  /\ IF ok
     THEN /\ current' = Fallbacks[next] /\ pc' = "idle" /\ answer' = "prices"
          /\ UNCHANGED <<next, refused>>
     ELSE /\ next' = next + 1 /\ refused' = refused \cup {Fallbacks[next]}
          /\ UNCHANGED <<current, pc, answer>>
  /\ UNCHANGED <<created, available, probing>>

GiveUp ==
  /\ pc = "fallback" /\ next > Len(Fallbacks)
  /\ pc' = "idle" /\ answer' = "failed"
  /\ UNCHANGED <<created, available, current, probing, next, refused>>

(* The process is restarted.                                               *)
Restart == /\ created' = FALSE /\ available' = <<>> /\ current' = Default
           /\ probing' = {} /\ pc' = "idle" /\ next' = 1
           /\ answer' = "none" /\ refused' = {}

(* Provider p has been asked for prices and has not answered yet.          *)
Asked(p) == \/ pc = "current" /\ current = p
            \/ FallbackLeft /\ Fallbacks[next] = p /\ IsAvailable(p)

Answers(ok) == TryCurrent(ok) \/ TryFallback(ok)

(* What the service does without the answer of a provider.                 *)
OwnStep == InitializeEnds \/ Request \/ SkipFallback \/ GiveUp

ServiceNext ==
  \/ GetInstance
  \/ \E p \in Provider, ok \in BOOLEAN : ProbeReturns(p, ok)
  \/ \E ok \in BOOLEAN : Answers(ok)
  \/ OwnStep
  \/ Restart

ServiceSpec == ServiceInit /\ [][ServiceNext]_serviceVars

-------------------------------------------------------------------------------
ServiceTypeOK ==
  /\ created \in BOOLEAN
  /\ available \in Seq(Provider) /\ current \in Provider
  /\ probing \subseteq Provider /\ (pc # "initialize" => probing = {})
  /\ pc \in {"idle", "initialize", "request", "current", "fallback"}
  /\ next \in 1..(Len(Fallbacks) + 1)
  /\ answer \in {"none", "prices", "failed", "error"}
  /\ refused \subseteq Provider

(* Outside initialize, an instance with providers asks one of them; one    *)
(* without providers never asks any.                                       *)
CurrentIsAvailable ==
  /\ pc # "initialize" /\ available # <<>> => IsAvailable(current)
  /\ pc \in {"current", "fallback"} => available # <<>>

(* A call that ends with success: false has been refused by the provider   *)
(* it started with and by every fallback found available.                  *)
FailureIsThorough ==
  [][pc = "fallback" /\ answer' = "failed" =>
       /\ current \in refused
       /\ \A i \in 1..Len(Fallbacks) : IsAvailable(Fallbacks[i]) => Fallbacks[i] \in refused]_serviceVars

(* What FailureIsThorough rests on: the fallbacks passed so far, and the   *)
(* provider tried first, have refused.                                     *)
RefusedSoFar ==
  /\ pc # "idle" => answer = "none"
  /\ pc \notin {"idle", "fallback"} => next = 1
  /\ pc = "fallback" =>
       /\ current \in refused
       /\ \A i \in 1..(next - 1) : IsAvailable(Fallbacks[i]) => Fallbacks[i] \in refused

ServiceInv == ServiceTypeOK /\ CurrentIsAvailable /\ RefusedSoFar
===============================================================================
