----------------------------- MODULE ModelGateway -----------------------------
(***************************************************************************)
(* The gateway through which agents call the model: a semaphore bounds the  *)
(* requests under way, a lock spaces their starts, a request that fails     *)
(* with a transient error is retried and then given to a fallback client.   *)
(* The metadata of the last answer is kept in the gateway, which a parent   *)
(* shares with its children, and read by the caller after the request       *)
(* returned.                                                                *)
(*                                                                          *)
(* Time is a countdown: a sleeping caller has a timer, and "gap" is the     *)
(* time since the last start, as far as it matters.  A sleep may last       *)
(* longer than asked for, never shorter.                                    *)
(***************************************************************************)
EXTENDS Naturals, FiniteSets

CONSTANTS
  Callers,        \* threads that run an agent on the shared gateway
  MaxConcurrency, \* max_concurrency, at least 1
  MaxRetries,     \* max_retries
  MinInterval,    \* min_interval_seconds
  RetryBase,      \* retry_base_seconds
  HasFallback,    \* a fallback client is configured
  MaxRequests,    \* bound: requests of a caller
  NoCaller

ASSUME PolicyAssumption ==
  /\ MaxConcurrency \in Nat \ {0} /\ MaxRetries \in Nat /\ MinInterval \in Nat
  /\ HasFallback \in BOOLEAN /\ MaxRequests \in Nat
ASSUME CallerAssumption == NoCaller \notin Callers /\ IsFiniteSet(Callers)

(* The sleep before a retry.                                                *)
Delay(n) == RetryBase * 2 ^ n
ASSUME DelayAssumption == \A n \in 0..MaxRetries : Delay(n) \in Nat

Clients == IF HasFallback THEN {"primary", "fallback"} ELSE {"primary"}

Requests == [by : Callers, number : 1..MaxRequests]
NoRequest == [by |-> NoCaller, number |-> 0]

VARIABLES
  permits,  \* the semaphore
  mutex,    \* the holder of _interval_lock
  gap,      \* time since _last_start, up to MinInterval
  place,    \* per caller, where it is in _invoke
  timer,    \* per caller, what is left of its sleep
  client,   \* per caller, the client it calls
  attempt,  \* per caller, attempt
  kept,     \* per client, the request its last_completion_metadata is of
  metadata, \* last_completion_metadata of the gateway: the request its usage
            \* is of and the request its retry counts are of
  number,   \* per caller, requests made
  calls,    \* history: per caller, calls its request made to each client
  error,    \* history: per caller, the kind of the last error
  alone     \* history: per caller, no other request was under way meanwhile

timeVars == <<gap, timer>>
requestVars == <<client, attempt, number, calls, error, alone>>
vars == <<permits, mutex, place, timeVars, kept, metadata, requestVars>>

Init ==
  /\ permits = MaxConcurrency /\ mutex = NoCaller /\ gap = MinInterval
  /\ place = [t \in Callers |-> "idle"]
  /\ timer = [t \in Callers |-> 0]
  /\ client = [t \in Callers |-> "primary"]
  /\ attempt = [t \in Callers |-> 0]
  /\ kept = [c \in Clients |-> NoRequest]
  /\ metadata = [usage |-> NoRequest, counts |-> NoRequest]
  /\ number = [t \in Callers |-> 0]
  /\ calls = [t \in Callers |-> [c \in Clients |-> 0]]
  /\ error = [t \in Callers |-> "none"]
  /\ alone = [t \in Callers |-> TRUE]

Go(t, from, to) == place[t] = from /\ place' = [place EXCEPT ![t] = to]

Current(t) == [by |-> t, number |-> number[t]]

(* An agent calls complete, complete_with_tools or stream_complete.         *)
Request(t) ==
  /\ Go(t, "idle", "waiting")
  /\ number[t] < MaxRequests
  /\ number' = [number EXCEPT ![t] = @ + 1]
  /\ client' = [client EXCEPT ![t] = "primary"]
  /\ attempt' = [attempt EXCEPT ![t] = 0]
  /\ calls' = [calls EXCEPT ![t] = [c \in Clients |-> 0]]
  /\ error' = [error EXCEPT ![t] = "none"]
  /\ LET others == {u \in Callers \ {t} : place[u] # "idle"}
     IN  alone' = [u \in Callers |-> IF u = t THEN others = {} ELSE alone[u] /\ u \notin others]
  /\ UNCHANGED <<permits, mutex, timeVars, kept, metadata>>

(* _start_request: a permit, then the interval lock, which is held while    *)
(* the caller sleeps.                                                       *)
Acquire(t) ==
  /\ Go(t, "waiting", "permitted")
  /\ permits > 0
  /\ permits' = permits - 1
  /\ UNCHANGED <<mutex, timeVars, kept, metadata, requestVars>>

(* Mutant of EnterInterval: the delay is computed outside the lock.         *)
EnterUnlocked(t) ==
  /\ Go(t, "permitted", "spacing")
  /\ timer' = [timer EXCEPT ![t] = MinInterval - gap]
  /\ UNCHANGED <<permits, mutex, gap, kept, metadata, requestVars>>

EnterInterval(t) ==
  /\ Go(t, "permitted", "spacing")
  /\ mutex = NoCaller
  /\ mutex' = t
  /\ timer' = [timer EXCEPT ![t] = MinInterval - gap]
  /\ UNCHANGED <<permits, gap, kept, metadata, requestVars>>

StartRequest(t) ==
  /\ Go(t, "spacing", "calling")
  /\ timer[t] = 0
  /\ gap' = 0
  /\ mutex' = NoCaller
  /\ UNCHANGED <<permits, timer, kept, metadata, requestVars>>

CountCall(t) == calls' = [calls EXCEPT ![t][client[t]] = @ + 1]

(* The client answers, and keeps the metadata of the answer.                *)
ClientAnswers(t) ==
  /\ Go(t, "calling", "answered")
  /\ CountCall(t)
  /\ kept' = [kept EXCEPT ![client[t]] = Current(t)]
  /\ UNCHANGED <<permits, mutex, timeVars, metadata, client, attempt, number, error, alone>>

(* Mutant of CopyMetadata: the metadata of the primary client is copied.    *)
CopyPrimary(t) ==
  /\ Go(t, "answered", "copied")
  /\ metadata' = [usage |-> kept["primary"], counts |-> NoRequest]
  /\ UNCHANGED <<permits, mutex, timeVars, kept, requestVars>>

(* The metadata is copied from the client, and then given the counts.       *)
CopyMetadata(t) ==
  /\ Go(t, "answered", "copied")
  /\ metadata' = [usage |-> kept[client[t]], counts |-> NoRequest]
  /\ UNCHANGED <<permits, mutex, timeVars, kept, requestVars>>

UpdateMetadata(t) ==
  /\ Go(t, "copied", "returning")
  /\ metadata' = [usage |-> metadata.usage, counts |-> Current(t)]
  /\ UNCHANGED <<permits, mutex, timeVars, kept, requestVars>>

(* Mutant of MayRetry: the first call counts as a retry.                    *)
MayRetryFewer(t) == attempt[t] + 1 < MaxRetries

MayRetry(t) == attempt[t] < MaxRetries

(* A transient error: the client is tried again after a sleep, up to        *)
(* MaxRetries times; then the fallback client is, with retries of its own;  *)
(* then the error is raised.                                                *)
FailTransient(t) ==
  /\ place[t] = "calling"
  /\ CountCall(t)
  /\ error' = [error EXCEPT ![t] = "transient"]
  /\ UNCHANGED <<permits, mutex, gap, kept, metadata, number, alone>>

Retry(t) ==
  /\ FailTransient(t)
  /\ MayRetry(t)
  /\ timer' = [timer EXCEPT ![t] = Delay(attempt[t])]
  /\ place' = [place EXCEPT ![t] = "resting"]
  /\ UNCHANGED <<client, attempt>>

FallBack(t) ==
  /\ FailTransient(t)
  /\ ~MayRetry(t) /\ client[t] = "primary" /\ HasFallback
  /\ client' = [client EXCEPT ![t] = "fallback"]
  /\ attempt' = [attempt EXCEPT ![t] = 0]
  /\ UNCHANGED <<timer, place>>

GiveUp(t) ==
  /\ FailTransient(t)
  /\ ~MayRetry(t) /\ (client[t] = "fallback" \/ ~HasFallback)
  /\ place' = [place EXCEPT ![t] = "raising"]
  /\ UNCHANGED <<client, attempt, timer>>

EndRest(t) ==
  /\ Go(t, "resting", "calling")
  /\ timer[t] = 0
  /\ attempt' = [attempt EXCEPT ![t] = @ + 1]
  /\ UNCHANGED <<permits, mutex, timeVars, kept, metadata, client, number, calls, error,
                 alone>>

(* Any other error is raised at once.                                       *)
FailPermanent(t) ==
  /\ Go(t, "calling", "raising")
  /\ CountCall(t)
  /\ error' = [error EXCEPT ![t] = "permanent"]
  /\ UNCHANGED <<permits, mutex, timeVars, kept, metadata, client, attempt, number, alone>>

(* Mutant of Leave: an exception does not release the permit.               *)
LeaveOnReturn(t) ==
  /\ \/ Go(t, "returning", "reading") /\ permits' = permits + 1
     \/ Go(t, "raising", "idle") /\ UNCHANGED permits
  /\ UNCHANGED <<mutex, timeVars, kept, metadata, requestVars>>

(* However _invoke ends, the permit is released; the caller of a request    *)
(* that returned goes on to read the metadata.                              *)
Leave(t) ==
  /\ Go(t, "returning", "reading") \/ Go(t, "raising", "idle")
  /\ permits' = permits + 1
  /\ UNCHANGED <<mutex, timeVars, kept, metadata, requestVars>>

ReadMetadata(t) ==
  /\ Go(t, "reading", "idle")
  /\ UNCHANGED <<permits, mutex, timeVars, kept, metadata, requestVars>>

Tick ==
  /\ gap < MinInterval \/ \E t \in Callers : timer[t] > 0
  /\ gap' = IF gap < MinInterval THEN gap + 1 ELSE gap
  /\ timer' = [t \in Callers |-> IF timer[t] > 0 THEN timer[t] - 1 ELSE 0]
  /\ UNCHANGED <<permits, mutex, place, kept, metadata, requestVars>>

Serve(t) ==
  \/ Acquire(t) \/ EnterInterval(t) \/ StartRequest(t) \/ ClientAnswers(t)
  \/ CopyMetadata(t) \/ UpdateMetadata(t) \/ Retry(t) \/ EndRest(t) \/ FallBack(t)
  \/ GiveUp(t) \/ FailPermanent(t) \/ Leave(t) \/ ReadMetadata(t)

Next == (\E t \in Callers : Request(t) \/ Serve(t)) \/ Tick

(* Threads are scheduled, clients time out, and time passes.                *)
Fairness == (\A t \in Callers : WF_vars(Serve(t))) /\ WF_vars(Tick)

Spec == Init /\ [][Next]_vars /\ Fairness

-----------------------------------------------------------------------------

Holding == {"permitted", "spacing", "calling", "resting", "answered", "copied",
            "returning", "raising"}

(* The requests under way.                                                  *)
Holders == {t \in Callers : place[t] \in Holding}

TypeOK ==
  /\ permits \in 0..MaxConcurrency
  /\ mutex \in Callers \cup {NoCaller}
  /\ gap \in 0..MinInterval
  /\ place \in [Callers -> Holding \cup {"idle", "waiting", "reading"}]
  /\ timer \in [Callers -> Nat]
  /\ client \in [Callers -> Clients]
  /\ attempt \in [Callers -> 0..MaxRetries]
  /\ kept \in [Clients -> Requests \cup {NoRequest}]
  /\ metadata \in [usage : Requests \cup {NoRequest}, counts : Requests \cup {NoRequest}]
  /\ number \in [Callers -> 0..MaxRequests]
  /\ calls \in [Callers -> [Clients -> 0..(MaxRetries + 1)]]
  /\ error \in [Callers -> {"none", "transient", "permanent"}]
  /\ alone \in [Callers -> BOOLEAN]

(* No permit is lost or made up, whatever way a request ends: the requests  *)
(* under way and the permits left add up to the limit.                      *)
PermitsKept == permits + Cardinality(Holders) = MaxConcurrency

(* Between the starts of any two requests at least the minimum interval     *)
(* passes, whoever makes them.                                              *)
StartsSpaced ==
  [][\A t \in Callers : place[t] = "spacing" /\ place'[t] = "calling" => gap = MinInterval]_vars

(* A request gives up over a transient error only after every client had    *)
(* its call and all its retries, the fallback after the primary; an error   *)
(* that is permanent is never retried.                                      *)
ChancesTaken ==
  \A t \in Callers :
    /\ client[t] = "fallback" => calls[t]["primary"] = MaxRetries + 1
    /\ place[t] = "raising" /\ error[t] = "transient" =>
         \A c \in Clients : calls[t][c] = MaxRetries + 1
    /\ error[t] = "permanent" => place[t] \in {"raising", "idle"}

(* A caller reads the metadata of its own request, with its own counts,     *)
(* unless another request was under way before it read.                     *)
MetadataOwn ==
  \A t \in Callers :
    place[t] = "reading" /\ alone[t] =>
      metadata = [usage |-> Current(t), counts |-> Current(t)]

(* Every request ends: nobody waits for a permit or the lock for ever.      *)
RequestsEnd == \A t \in Callers : place[t] = "waiting" ~> place[t] = "idle"

-----------------------------------------------------------------------------

(* Why these hold.  Types: a caller that is not idle has made a request, and *)
(* one that rests has a retry left.                                         *)
TypeInv ==
  /\ permits \in Nat
  /\ mutex \in Callers \cup {NoCaller}
  /\ gap \in 0..MinInterval
  /\ place \in [Callers -> Holding \cup {"idle", "waiting", "reading"}]
  /\ timer \in [Callers -> Nat]
  /\ client \in [Callers -> Clients]
  /\ attempt \in [Callers -> 0..MaxRetries]
  /\ kept \in [Clients -> Requests \cup {NoRequest}]
  /\ metadata \in [usage : Requests \cup {NoRequest}, counts : Requests \cup {NoRequest}]
  /\ number \in [Callers -> 0..MaxRequests]
  /\ calls \in [Callers -> [Clients -> Nat]]
  /\ error \in [Callers -> {"none", "transient", "permanent"}]
  /\ alone \in [Callers -> BOOLEAN]
  /\ \A t \in Callers : place[t] # "idle" => number[t] > 0
  /\ \A t \in Callers : place[t] = "resting" => attempt[t] < MaxRetries

(* The lock is held by whoever spaces its start, and what is left of its    *)
(* sleep makes up for what is missing of the interval.                      *)
SpacingInv ==
  \A t \in Callers :
    place[t] = "spacing" => mutex = t /\ timer[t] + gap >= MinInterval

(* The attempts are the calls made to the current client, the one under way *)
(* not counted; the primary had all of its calls before the fallback.       *)
CallsInv ==
  \A t \in Callers :
    /\ client[t] = "fallback" => calls[t]["primary"] = MaxRetries + 1
    /\ client[t] = "primary" /\ HasFallback => calls[t]["fallback"] = 0
    /\ place[t] \in {"waiting", "permitted", "spacing", "calling"} =>
         calls[t][client[t]] = attempt[t] /\ error[t] # "permanent"
    /\ place[t] \in {"resting", "answered", "copied", "returning", "reading"} =>
         calls[t][client[t]] = attempt[t] + 1 /\ error[t] # "permanent"
    /\ place[t] \in {"raising", "idle"} => calls[t][client[t]] <= MaxRetries + 1
    /\ place[t] = "raising" /\ error[t] = "transient" =>
         /\ calls[t][client[t]] = MaxRetries + 1
         /\ HasFallback => client[t] = "fallback"

(* While a caller is alone, nobody overwrites the metadata of its request.  *)
AloneInv ==
  \A t \in Callers :
    place[t] # "idle" /\ alone[t] =>
      /\ \A u \in Callers \ {t} : place[u] = "idle"
      /\ place[t] = "answered" => kept[client[t]] = Current(t)
      /\ place[t] = "copied" => metadata.usage = Current(t)
      /\ place[t] \in {"returning", "reading"} =>
           metadata = [usage |-> Current(t), counts |-> Current(t)]
=============================================================================
