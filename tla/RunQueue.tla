------------------------------- MODULE RunQueue -------------------------------
(***************************************************************************)
(* The queue of agent runs on a Redis stream, and the workers that execute  *)
(* whole runs from it.  A producer sets the idempotency key of a run, then  *)
(* adds the run to the stream; the consumer group delivers an entry to one  *)
(* consumer, where it stays pending until it is acknowledged; a stale       *)
(* pending entry can be claimed by another consumer.                        *)
(*                                                                          *)
(* The stream, its group and the pending list are Redis, modelled from the  *)
(* calls the queue makes.  A run has one entry, the run itself.             *)
(***************************************************************************)
EXTENDS Naturals, Sequences, Functions

CONSTANTS
  Runs,          \* run ids
  Consumers,     \* worker processes, each a consumer of the group
  MaxDeliveries, \* max_deliveries
  MaxStarts,     \* bound: executions of a run, MaxCrashes: crashes
  MaxCrashes,
  NoConsumer, NoRun

ASSUME BoundAssumption ==
  /\ MaxDeliveries \in Nat \ {0} /\ MaxStarts \in Nat /\ MaxCrashes \in Nat
ASSUME NoneAssumption == NoConsumer \notin Consumers /\ NoRun \notin Runs

VARIABLES
  key,        \* per run, the value of its idempotency key
  adding,     \* runs whose key is set and that are not yet in the stream
  stream,     \* entries the group has not delivered
  owner,      \* per run, the consumer its entry is pending for
  dead,       \* the dead letter stream
  deliveries, \* per consumer and run, self.deliveries
  inflight,   \* per consumer, self.inflight
  job,        \* per consumer, the run it works on
  stage,      \* per consumer, where run_once is
  starts,     \* history: per run, executions started
  reclaims,   \* history: per run, how often its entry was reclaimed
  accepted,   \* history: runs for which enqueue returned True
  ended,      \* history: runs whose ask() returned
  crashes

vars == <<key, adding, stream, owner, dead, deliveries, inflight, job, stage,
          accepted, starts, reclaims, ended, crashes>>

Init ==
  /\ key = [r \in Runs |-> "none"]
  /\ adding = {} /\ stream = <<>>
  /\ owner = [r \in Runs |-> NoConsumer]
  /\ dead = {}
  /\ deliveries = [c \in Consumers |-> [r \in Runs |-> 0]]
  /\ inflight = [c \in Consumers |-> {}]
  /\ job = [c \in Consumers |-> NoRun]
  /\ stage = [c \in Consumers |-> "idle"]
  /\ starts = [r \in Runs |-> 0] /\ reclaims = [r \in Runs |-> 0]
  /\ accepted = {} /\ ended = {}
  /\ crashes = 0

redisVars == <<key, adding, stream, owner, dead>>
historyVars == <<accepted, starts, reclaims, ended>>
workVars == <<deliveries, inflight, job, stage>>

(* Mutant of SetKey: without NX, a run that is queued is queued again.      *)
SetKeyAlways(r) ==
  /\ r \notin adding
  /\ key' = [key EXCEPT ![r] = "queued"]
  /\ adding' = adding \cup {r}
  /\ UNCHANGED <<stream, owner, dead, workVars, historyVars, crashes>>

(* enqueue: SET NX, and then XADD.                                          *)
SetKey(r) ==
  /\ key[r] = "none"
  /\ key' = [key EXCEPT ![r] = "queued"]
  /\ adding' = adding \cup {r}
  /\ UNCHANGED <<stream, owner, dead, workVars, historyVars, crashes>>

AddEntry(r) ==
  /\ r \in adding
  /\ adding' = adding \ {r}
  /\ stream' = Append(stream, r)
  /\ accepted' = accepted \cup {r}
  /\ UNCHANGED <<key, owner, dead, workVars, starts, reclaims, ended, crashes>>

(* The producer dies between the two: the key stays set without an entry.   *)
LeaveKey(r) ==
  /\ r \in adding
  /\ adding' = adding \ {r}
  /\ UNCHANGED <<key, stream, owner, dead, workVars, historyVars, crashes>>

Deliver(c, r) ==
  /\ owner' = [owner EXCEPT ![r] = c]
  /\ inflight' = [inflight EXCEPT ![c] = @ \cup {r}]
  /\ job' = [job EXCEPT ![c] = r]
  /\ stage' = [stage EXCEPT ![c] = "executing"]
  /\ starts' = [starts EXCEPT ![r] = @ + 1]

CountDelivery(c, r) ==
  deliveries' = [deliveries EXCEPT ![c][r] = IF @ > MaxDeliveries THEN @ ELSE @ + 1]

(* dequeue: a new entry is delivered; past max_deliveries it goes to the    *)
(* dead letter stream and is acknowledged.                                  *)
Dequeue(c) ==
  /\ stage[c] = "idle"
  /\ stream # <<>>
  /\ LET r == Head(stream)
     IN  /\ stream' = Tail(stream)
         /\ CountDelivery(c, r)
         /\ IF deliveries[c][r] >= MaxDeliveries
            THEN dead' = dead \cup {r} /\ UNCHANGED <<owner, inflight, job, stage, starts>>
            ELSE starts[r] < MaxStarts /\ Deliver(c, r) /\ UNCHANGED dead
  /\ UNCHANGED <<key, adding, accepted, reclaims, ended, crashes>>

(* reclaim_stale_pending: an entry that was idle for long is delivered      *)
(* again, whether its consumer died, failed or is slow.  Deliveries are     *)
(* compared with max_deliveries in dequeue alone.  The source offers the    *)
(* call to an operator or a worker; the run it returns is then executed the *)
(* way run_once executes a dequeued one.                                    *)
Reclaim(c, r) ==
  /\ stage[c] = "idle"
  /\ owner[r] # NoConsumer
  /\ starts[r] < MaxStarts
  /\ reclaims' = [reclaims EXCEPT ![r] = @ + 1]
  /\ CountDelivery(c, r)
  /\ Deliver(c, r)
  /\ UNCHANGED <<key, adding, stream, dead, accepted, ended, crashes>>

(* Mutant of Execute: a run that raised is completed.                       *)
ExecuteAnyway(c) ==
  /\ stage[c] = "executing"
  /\ stage' = [stage EXCEPT ![c] = "completing"]
  /\ \/ ended' = ended \cup {job[c]}
     \/ UNCHANGED ended
  /\ UNCHANGED <<redisVars, deliveries, inflight, job, accepted, starts, reclaims, crashes>>

(* ask() returns, or raises.                                                *)
Execute(c) ==
  /\ stage[c] = "executing"
  /\ \/ stage' = [stage EXCEPT ![c] = "completing"] /\ ended' = ended \cup {job[c]}
     \/ stage' = [stage EXCEPT ![c] = "failing"] /\ UNCHANGED ended
  /\ UNCHANGED <<redisVars, deliveries, inflight, job, accepted, starts, reclaims, crashes>>

(* complete: the entry this consumer holds is acknowledged, then the key is *)
(* set.                                                                     *)
Acknowledge(c) ==
  /\ stage[c] = "completing"
  /\ owner' = IF job[c] \in inflight[c] THEN [owner EXCEPT ![job[c]] = NoConsumer] ELSE owner
  /\ inflight' = [inflight EXCEPT ![c] = @ \ {job[c]}]
  /\ stage' = [stage EXCEPT ![c] = "acknowledged"]
  /\ UNCHANGED <<key, adding, stream, dead, deliveries, job, historyVars, crashes>>

Leave(c) ==
  /\ stage' = [stage EXCEPT ![c] = "idle"]
  /\ job' = [job EXCEPT ![c] = NoRun]

SetCompleted(c) ==
  /\ stage[c] = "acknowledged"
  /\ key' = [key EXCEPT ![job[c]] = "completed"]
  /\ Leave(c)
  /\ UNCHANGED <<adding, stream, owner, dead, deliveries, inflight, historyVars, crashes>>

(* Mutant of SetFailed: the entry of a failed run is acknowledged.          *)
SetFailedAcknowledged(c) ==
  /\ stage[c] = "failing"
  /\ key' = [key EXCEPT ![job[c]] = "failed"]
  /\ owner' = [owner EXCEPT ![job[c]] = NoConsumer]
  /\ Leave(c)
  /\ UNCHANGED <<adding, stream, dead, deliveries, inflight, historyVars, crashes>>

(* fail: nothing is acknowledged, so that the entry can be reclaimed.       *)
SetFailed(c) ==
  /\ stage[c] = "failing"
  /\ key' = [key EXCEPT ![job[c]] = "failed"]
  /\ Leave(c)
  /\ UNCHANGED <<adding, stream, owner, dead, deliveries, inflight, historyVars, crashes>>

(* A worker process dies and comes back with empty memory.                  *)
Crash(c) ==
  /\ stage[c] # "idle" /\ crashes < MaxCrashes
  /\ crashes' = crashes + 1
  /\ deliveries' = [deliveries EXCEPT ![c] = [r \in Runs |-> 0]]
  /\ inflight' = [inflight EXCEPT ![c] = {}]
  /\ Leave(c)
  /\ UNCHANGED <<redisVars, historyVars>>

Work(c) ==
  \/ Dequeue(c) \/ Execute(c) \/ Acknowledge(c) \/ SetCompleted(c) \/ SetFailed(c)

Next ==
  \/ \E r \in Runs : SetKey(r) \/ AddEntry(r) \/ LeaveKey(r)
  \/ \E c \in Consumers : Work(c) \/ Crash(c) \/ \E r \in Runs : Reclaim(c, r)

Spec == Init /\ [][Next]_vars

-----------------------------------------------------------------------------

TypeOK ==
  /\ key \in [Runs -> {"none", "queued", "completed", "failed"}]
  /\ adding \subseteq Runs /\ stream \in Seq(Runs) /\ dead \subseteq Runs
  /\ IsInjective(stream)
  /\ owner \in [Runs -> Consumers \cup {NoConsumer}]
  /\ deliveries \in [Consumers -> [Runs -> 0..(MaxDeliveries + 1)]]
  /\ inflight \in [Consumers -> SUBSET Runs]
  /\ job \in [Consumers -> Runs \cup {NoRun}]
  /\ stage \in [Consumers -> {"idle", "executing", "completing", "acknowledged", "failing"}]
  /\ \A c \in Consumers : stage[c] = "idle" <=> job[c] = NoRun
  /\ accepted \subseteq Runs /\ ended \subseteq Runs
  /\ starts \in [Runs -> 0..MaxStarts] /\ reclaims \in [Runs -> 0..MaxStarts]
  /\ crashes \in 0..MaxCrashes

(* The entry of a run is in the stream.                                     *)
Waiting(r) == \E n \in 1..Len(stream) : stream[n] = r

(* A run that enqueue accepted is never lost: until it was executed to the  *)
(* end or put aside, it is in the stream or pending for some consumer, over *)
(* crashes, failures and reclaims.                                          *)
NothingLost ==
  \A r \in accepted :
    \/ Waiting(r)
    \/ owner[r] # NoConsumer \/ r \in ended \/ r \in dead

(* A run whose key says completed was executed to the end.                  *)
CompletedEnded == \A r \in Runs : key[r] = "completed" => r \in ended

(* A run is executed once, and once more for each time somebody reclaimed   *)
(* its entry: producers that repeat an enqueue, failures and crashes never  *)
(* make it run again.                                                       *)
ExecutedOnce == \A r \in Runs : starts[r] <= 1 + reclaims[r]

-----------------------------------------------------------------------------

(* Why these hold: what is being completed was executed to the end, a run   *)
(* that was not delivered never started, has one entry at most and a key    *)
(* that keeps other producers out, and a reclaimed run was started for it.  *)
CompletingEnded ==
  \A c \in Consumers : stage[c] \in {"completing", "acknowledged"} => job[c] \in ended

UndeliveredIsNew ==
  \A r \in Runs :
    /\ key[r] = "none" => r \notin adding
    /\ r \in adding => ~Waiting(r)
    /\ key[r] = "none" \/ r \in adding \/ Waiting(r) => starts[r] = 0
    /\ Waiting(r) => key[r] # "none"

ReclaimsStarted ==
  \A r \in Runs : reclaims[r] <= starts[r] /\ (owner[r] # NoConsumer => starts[r] > 0)
=============================================================================
