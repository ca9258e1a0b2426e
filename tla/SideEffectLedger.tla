-------------------------- MODULE SideEffectLedger --------------------------
(***************************************************************************)
(* The replay protection of side-effecting tool calls.                      *)
(*                                                                          *)
(* RunStore keeps, in the task_state.json file of a run, a ledger that maps *)
(* an operation key (the id of the model's tool call) to an entry "claimed",*)
(* "completed" or "uncertain".  run_tool claims the key before the tool     *)
(* body runs and updates the entry after it; a key that is already in the   *)
(* ledger is refused.  ask loads the ledger of a run id that has a file, or *)
(* else the ledger stored in the session's current checkpoint, and writes   *)
(* its whole in-memory task state back at many points.  claim and update    *)
(* read and write the file under a lock that is local to the process;       *)
(* start_run and write_task_state take no lock.                             *)
(***************************************************************************)
EXTENDS Naturals

CONSTANTS
  Agents,      \* runtimes, each with a session of its own, that execute ask()
  Procs,       \* operating system processes
  ProcOf,      \* the process of an agent
  Runs,        \* run ids
  Keys,        \* operation keys
  Identities,  \* pairs of a tool name and the digest of its arguments
  RunIdPolicy, \* which run ids an ask may be given, see MayStart
  NoAgent, NoRun, NoKey, NoIdentity, NoEntry, NoLedger

Policies == {"fresh", "owned", "shared"}

ASSUME ProcOfAssumption == ProcOf \in [Agents -> Procs]
ASSUME RunIdPolicyAssumption == RunIdPolicy \in Policies
ASSUME NullAssumption ==
  /\ NoAgent \notin Agents /\ NoRun \notin Runs /\ NoKey \notin Keys
  /\ NoIdentity \notin Identities

EntryStates == {"claimed", "completed", "uncertain"}
Entries == [identity : Identities, state : EntryStates]

(* A ledger as read from JSON: a key without an entry maps to NoEntry.      *)
Ledgers == [Keys -> Entries \cup {NoEntry}]
EmptyLedger == [k \in Keys |-> NoEntry]

ASSUME SentinelAssumption == NoEntry \notin Entries /\ NoLedger \notin Ledgers

(* Where ask() is, between two accesses to the files.                       *)
Places == {"idle", "starting", "loop", "model", "claiming", "executing",
           "returned", "raised", "updating", "downgrading", "checking",
           "settled", "recorded", "checkpointed", "stopped", "finished"}

VARIABLES
  file,       \* per run, the ledger in task_state.json, or NoLedger
  checkpoint, \* per agent, the ledger of its session's current checkpoint
  mem,        \* per agent, task_state.side_effect_operations
  run,        \* per agent, the run it works on
  place,      \* per agent, where it is in ask()
  opKey,      \* per agent, the key of the tool call being executed
  opIdentity, \* per agent, the identity of that tool call
  succeeded,  \* per agent, business_success of the tool's result
  seen,       \* per agent, the ledger read by the claim or update under way
  lock,       \* per process and run, the holder of the side effect lock
  effects     \* history: how often the body took effect, per run and key,
              \* counted up to 2

vars == <<file, checkpoint, mem, run, place, opKey, opIdentity, succeeded,
          seen, lock, effects>>

-----------------------------------------------------------------------------

Init ==
  /\ file = [r \in Runs |-> NoLedger]
  /\ checkpoint = [a \in Agents |-> NoLedger]
  /\ mem = [a \in Agents |-> EmptyLedger]
  /\ run = [a \in Agents |-> NoRun]
  /\ place = [a \in Agents |-> "idle"]
  /\ opKey = [a \in Agents |-> NoKey]
  /\ opIdentity = [a \in Agents |-> NoIdentity]
  /\ succeeded = [a \in Agents |-> FALSE]
  /\ seen = [a \in Agents |-> EmptyLedger]
  /\ lock = [p \in Procs |-> [r \in Runs |-> NoAgent]]
  /\ effects = [r \in Runs |-> [k \in Keys |-> 0]]

(* The runs an ask may be started for: a new id every time ("fresh", the    *)
(* command line), an id that may have been used before but by nobody now    *)
(* ("owned", a queue or a client that restarts its run), or any id          *)
(* ("shared", a queue entry reclaimed from a consumer that still runs it).  *)
MayStart(r) ==
  \/ RunIdPolicy = "shared"
  \/ RunIdPolicy = "owned" /\ \A b \in Agents : run[b] # r
  \/ RunIdPolicy = "fresh" /\ file[r] = NoLedger /\ \A b \in Agents : run[b] # r

(* Mutants of PriorOperations: the file is not looked at; a session without *)
(* a checkpoint has no default.                                             *)
CheckpointOperations(a, r) ==
  IF checkpoint[a] # NoLedger THEN checkpoint[a] ELSE EmptyLedger
UndefaultedOperations(a, r) == IF file[r] # NoLedger THEN file[r] ELSE checkpoint[a]

(* ask() reads the ledger of the run's file, else that of the checkpoint.   *)
PriorOperations(a, r) ==
  IF file[r] # NoLedger THEN file[r]
  ELSE IF checkpoint[a] # NoLedger THEN checkpoint[a] ELSE EmptyLedger

StartAsk(a, r) ==
  /\ place[a] = "idle"
  /\ MayStart(r)
  /\ run' = [run EXCEPT ![a] = r]
  /\ mem' = [mem EXCEPT ![a] = PriorOperations(a, r)]
  /\ place' = [place EXCEPT ![a] = "starting"]
  /\ UNCHANGED <<file, checkpoint, opKey, opIdentity, succeeded, seen, lock, effects>>

(* write_task_state: the whole task state, ledger included, with no lock.   *)
WriteTaskState(a) == file' = [file EXCEPT ![run[a]] = mem[a]]

(* The write of start_run, the one after a checkpoint, and the one that     *)
(* opens every turn of the loop.                                            *)
PersistTurn(a) ==
  /\ \/ place[a] \in {"starting", "checkpointed"} /\ place' = [place EXCEPT ![a] = "loop"]
     \/ place[a] = "loop" /\ place' = [place EXCEPT ![a] = "model"]
  /\ WriteTaskState(a)
  /\ UNCHANGED <<checkpoint, mem, run, opKey, opIdentity, succeeded, seen, lock, effects>>

(* Before the model call: a resumed checkpoint was stale, or the prompt had *)
(* to be reduced, so that a checkpoint is taken and the state written.      *)
PromptCheckpoint(a) ==
  /\ place[a] = "model"
  /\ checkpoint' = [checkpoint EXCEPT ![a] = mem[a]]
  /\ WriteTaskState(a)
  /\ UNCHANGED <<mem, run, place, opKey, opIdentity, succeeded, seen, lock, effects>>

(* The turn runs a tool that has no side effect, or one whose operation key *)
(* is empty (a call recovered from legacy text), without a claim; or it     *)
(* runs no tool, and the state is written.                                  *)
OtherTurn(a) ==
  /\ place[a] = "model"
  /\ \/ place' = [place EXCEPT ![a] = "settled"] /\ UNCHANGED file
     \/ place' = [place EXCEPT ![a] = "loop"] /\ WriteTaskState(a)
  /\ UNCHANGED <<checkpoint, mem, run, opKey, opIdentity, succeeded, seen, lock, effects>>

Lock(a) ==
  /\ lock[ProcOf[a]][run[a]] = NoAgent
  /\ lock' = [lock EXCEPT ![ProcOf[a]][run[a]] = a]

(* The ledger that was read is local to the locked section.                 *)
Unlock(a) ==
  /\ lock' = [lock EXCEPT ![ProcOf[a]][run[a]] = NoAgent]
  /\ seen' = [seen EXCEPT ![a] = EmptyLedger]

(* _load_task_state_payload: the file, or the task state when it is absent. *)
Payload(a) == IF file[run[a]] # NoLedger THEN file[run[a]] ELSE mem[a]

(* claim_side_effect_operation, first half: lock and read the file.         *)
BeginClaim(a, k, i) ==
  /\ place[a] = "model"
  /\ Lock(a)
  /\ seen' = [seen EXCEPT ![a] = Payload(a)]
  /\ opKey' = [opKey EXCEPT ![a] = k]
  /\ opIdentity' = [opIdentity EXCEPT ![a] = i]
  /\ place' = [place EXCEPT ![a] = "claiming"]
  /\ UNCHANGED <<file, checkpoint, mem, run, succeeded, effects>>

(* The key has no entry: write the claim and let run_tool execute.          *)
GrantClaim(a) ==
  /\ place[a] = "claiming"
  /\ seen[a][opKey[a]] = NoEntry
  /\ LET claimed == [seen[a] EXCEPT ![opKey[a]] =
                       [identity |-> opIdentity[a], state |-> "claimed"]]
     IN  /\ file' = [file EXCEPT ![run[a]] = claimed]
         /\ mem' = [mem EXCEPT ![a] = claimed]
  /\ Unlock(a)
  /\ place' = [place EXCEPT ![a] = "executing"]
  /\ UNCHANGED <<checkpoint, run, opKey, opIdentity, succeeded, effects>>

(* The key has an entry, whatever its state or identity: the call is        *)
(* refused; the file stays, the task state takes the ledger that was read.  *)
RefuseClaim(a) ==
  /\ place[a] = "claiming"
  /\ seen[a][opKey[a]] # NoEntry
  /\ mem' = [mem EXCEPT ![a] = seen[a]]
  /\ Unlock(a)
  /\ place' = [place EXCEPT ![a] = "settled"]
  /\ opKey' = [opKey EXCEPT ![a] = NoKey]
  /\ opIdentity' = [opIdentity EXCEPT ![a] = NoIdentity]
  /\ UNCHANGED <<file, checkpoint, run, succeeded, effects>>

OnceMore(n) == IF n = 0 THEN 1 ELSE 2

(* tool["run"](args): it returns a result whose contract holds or not, or   *)
(* raises.  A result that does not hold and an exception say nothing about  *)
(* whether the effect took place.                                           *)
RunBody(a) ==
  /\ place[a] = "executing"
  /\ \E good \in BOOLEAN, done \in {"returned", "raised"}, committed \in BOOLEAN :
       /\ good => done = "returned" /\ committed
       /\ succeeded' = [succeeded EXCEPT ![a] = good]
       /\ place' = [place EXCEPT ![a] = done]
       /\ effects' = IF committed
                     THEN [effects EXCEPT ![run[a]][opKey[a]] = OnceMore(@)]
                     ELSE effects
  /\ UNCHANGED <<file, checkpoint, mem, run, opKey, opIdentity, seen, lock>>

(* update_side_effect_operation, first half, from the try block or from the *)
(* except block.                                                            *)
BeginUpdate(a) ==
  /\ \/ place[a] = "returned" /\ place' = [place EXCEPT ![a] = "updating"]
     \/ place[a] = "raised" /\ place' = [place EXCEPT ![a] = "downgrading"]
  /\ Lock(a)
  /\ seen' = [seen EXCEPT ![a] = Payload(a)]
  /\ UNCHANGED <<file, checkpoint, mem, run, opKey, opIdentity, succeeded, effects>>

(* Mutants of OutcomeState: the except block takes the call for completed,  *)
(* the except block puts the claim back.                                    *)
TrustingOutcome(a) ==
  IF place[a] = "updating" /\ ~succeeded[a] THEN "uncertain" ELSE "completed"
ReclaimingOutcome(a) ==
  IF place[a] = "downgrading" THEN "claimed"
  ELSE IF succeeded[a] THEN "completed" ELSE "uncertain"

(* The try block records the result of the contract, the except block       *)
(* always records "uncertain".                                              *)
OutcomeState(a) ==
  IF place[a] = "updating" /\ succeeded[a] THEN "completed" ELSE "uncertain"

FinishUpdate(a) ==
  /\ place[a] \in {"updating", "downgrading"}
  /\ seen[a][opKey[a]] # NoEntry
  /\ LET updated == [seen[a] EXCEPT ![opKey[a]].state = OutcomeState(a)]
     IN  /\ file' = [file EXCEPT ![run[a]] = updated]
         /\ mem' = [mem EXCEPT ![a] = updated]
  /\ Unlock(a)
  /\ place' = [place EXCEPT ![a] = IF @ = "updating" THEN "checking" ELSE "settled"]
  /\ succeeded' = [succeeded EXCEPT ![a] = FALSE]
  /\ UNCHANGED <<checkpoint, run, opKey, opIdentity, effects>>

(* The claim is no longer in the file: ValueError.  The except block of     *)
(* run_tool catches it and updates again ...                                *)
UpdateMissing(a) ==
  /\ place[a] = "updating"
  /\ seen[a][opKey[a]] = NoEntry
  /\ Unlock(a)
  /\ place' = [place EXCEPT ![a] = "raised"]
  /\ succeeded' = [succeeded EXCEPT ![a] = FALSE]
  /\ UNCHANGED <<file, checkpoint, run, mem, opKey, opIdentity, effects>>

EndAsk(a) ==
  /\ place' = [place EXCEPT ![a] = "idle"]
  /\ run' = [run EXCEPT ![a] = NoRun]
  /\ mem' = [mem EXCEPT ![a] = EmptyLedger]
  /\ opKey' = [opKey EXCEPT ![a] = NoKey]
  /\ opIdentity' = [opIdentity EXCEPT ![a] = NoIdentity]

(* ... and the ValueError of that update ends the ask.                      *)
UpdateEscapes(a) ==
  /\ place[a] = "downgrading"
  /\ seen[a][opKey[a]] = NoEntry
  /\ Unlock(a)
  /\ EndAsk(a)
  /\ UNCHANGED <<file, checkpoint, succeeded, effects>>

(* What run_tool still does after the update (index refresh, evidence,      *)
(* notes) returns, or raises into the except block.                         *)
AfterUpdate(a) ==
  /\ place[a] = "checking"
  /\ \E next \in {"settled", "raised"} : place' = [place EXCEPT ![a] = next]
  /\ UNCHANGED <<file, checkpoint, mem, run, opKey, opIdentity, succeeded, seen, lock, effects>>

(* Back in ask(): the result is recorded and the task state written.        *)
RecordTool(a) ==
  /\ place[a] = "settled"
  /\ WriteTaskState(a)
  /\ place' = [place EXCEPT ![a] = "recorded"]
  /\ opKey' = [opKey EXCEPT ![a] = NoKey]
  /\ opIdentity' = [opIdentity EXCEPT ![a] = NoIdentity]
  /\ UNCHANGED <<checkpoint, mem, run, succeeded, seen, lock, effects>>

(* create_checkpoint, which saves the session.                              *)
Checkpoint(a) ==
  /\ place[a] = "recorded"
  /\ checkpoint' = [checkpoint EXCEPT ![a] = mem[a]]
  /\ place' = [place EXCEPT ![a] = "checkpointed"]
  /\ UNCHANGED <<file, mem, run, opKey, opIdentity, succeeded, seen, lock, effects>>

(* A final answer: the checkpoint is taken, then the task state written.    *)
Finish(a) ==
  /\ place[a] = "model"
  /\ checkpoint' = [checkpoint EXCEPT ![a] = mem[a]]
  /\ place' = [place EXCEPT ![a] = "finished"]
  /\ UNCHANGED <<file, mem, run, opKey, opIdentity, succeeded, seen, lock, effects>>

WriteFinished(a) ==
  /\ place[a] = "finished"
  /\ WriteTaskState(a)
  /\ EndAsk(a)
  /\ UNCHANGED <<checkpoint, succeeded, seen, lock, effects>>

(* A step or attempt limit, or a run that is stuck: the task state is       *)
(* written, then the checkpoint taken.                                      *)
StopLimited(a) ==
  /\ place[a] = "loop"
  /\ WriteTaskState(a)
  /\ place' = [place EXCEPT ![a] = "stopped"]
  /\ UNCHANGED <<checkpoint, mem, run, opKey, opIdentity, succeeded, seen, lock, effects>>

CheckpointStopped(a) ==
  /\ place[a] = "stopped"
  /\ checkpoint' = [checkpoint EXCEPT ![a] = mem[a]]
  /\ EndAsk(a)
  /\ UNCHANGED <<file, succeeded, seen, lock, effects>>

(* The user cancelled (seen at the top of a turn, around the model call or  *)
(* right after the tool), the model call failed, or the research budget     *)
(* ended without an answer: the task state is written, no checkpoint taken. *)
StopWithoutCheckpoint(a) ==
  /\ place[a] \in {"loop", "model", "settled"}
  /\ WriteTaskState(a)
  /\ EndAsk(a)
  /\ UNCHANGED <<checkpoint, succeeded, seen, lock, effects>>

(* A process dies: its agents lose everything that is not in a file.        *)
Crash(p) ==
  /\ \E a \in Agents : ProcOf[a] = p /\ place[a] # "idle"
  /\ LET Dies(a) == ProcOf[a] = p
     IN  /\ place' = [a \in Agents |-> IF Dies(a) THEN "idle" ELSE place[a]]
         /\ run' = [a \in Agents |-> IF Dies(a) THEN NoRun ELSE run[a]]
         /\ mem' = [a \in Agents |-> IF Dies(a) THEN EmptyLedger ELSE mem[a]]
         /\ opKey' = [a \in Agents |-> IF Dies(a) THEN NoKey ELSE opKey[a]]
         /\ opIdentity' = [a \in Agents |-> IF Dies(a) THEN NoIdentity ELSE opIdentity[a]]
         /\ succeeded' = [a \in Agents |-> IF Dies(a) THEN FALSE ELSE succeeded[a]]
         /\ seen' = [a \in Agents |-> IF Dies(a) THEN EmptyLedger ELSE seen[a]]
  /\ lock' = [lock EXCEPT ![p] = [r \in Runs |-> NoAgent]]
  /\ UNCHANGED <<file, checkpoint, effects>>

Step(a) ==
  \/ \E r \in Runs : StartAsk(a, r)
  \/ PersistTurn(a)
  \/ OtherTurn(a)
  \/ \E k \in Keys, i \in Identities : BeginClaim(a, k, i)
  \/ GrantClaim(a)
  \/ RefuseClaim(a)
  \/ RunBody(a)
  \/ BeginUpdate(a)
  \/ FinishUpdate(a)
  \/ UpdateMissing(a)
  \/ UpdateEscapes(a)
  \/ AfterUpdate(a)
  \/ RecordTool(a)
  \/ Checkpoint(a)
  \/ PromptCheckpoint(a)
  \/ Finish(a)
  \/ WriteFinished(a)
  \/ StopLimited(a)
  \/ CheckpointStopped(a)
  \/ StopWithoutCheckpoint(a)

Next == (\E a \in Agents : Step(a)) \/ (\E p \in Procs : Crash(p))

Spec == Init /\ [][Next]_vars

-----------------------------------------------------------------------------

TypeOK ==
  /\ file \in [Runs -> Ledgers \cup {NoLedger}]
  /\ checkpoint \in [Agents -> Ledgers \cup {NoLedger}]
  /\ mem \in [Agents -> Ledgers]
  /\ run \in [Agents -> Runs \cup {NoRun}]
  /\ place \in [Agents -> Places]
  /\ opKey \in [Agents -> Keys \cup {NoKey}]
  /\ opIdentity \in [Agents -> Identities \cup {NoIdentity}]
  /\ succeeded \in [Agents -> BOOLEAN]
  /\ seen \in [Agents -> Ledgers]
  /\ lock \in [Procs -> [Runs -> Agents \cup {NoAgent}]]
  /\ effects \in [Runs -> [Keys -> 0..2]]

(* Replay protection: the body of a side-effecting tool takes effect at     *)
(* most once for an operation key of a run, over crashes, cancellations,    *)
(* refused replays and restarts of the run under the same id.               *)
EffectAtMostOnce == \A r \in Runs, k \in Keys : effects[r][k] <= 1

HasEntry(ledger, k) == ledger # NoLedger /\ ledger[k] # NoEntry

(* An entry of a run's file is never lost, never taken over by a call with  *)
(* another tool or other arguments, never claimed again, and never raised   *)
(* from "uncertain" to "completed": what run_tool refuses stays refused,    *)
(* for a reason that does not get better than the truth.                    *)
LedgerOnlyHardens ==
  [][\A r \in Runs, k \in Keys :
       HasEntry(file[r], k) =>
         /\ HasEntry(file'[r], k)
         /\ file'[r][k].identity = file[r][k].identity
         /\ file'[r][k].state = "claimed" => file[r][k].state = "claimed"
         /\ file'[r][k].state = "completed" => file[r][k].state # "uncertain"]_vars

(* "The operation was already completed" is only ever answered for a key    *)
(* whose body took effect, in this run or in one whose ledger was adopted.  *)
CompletedTookEffect ==
  \A r \in Runs, k \in Keys :
    HasEntry(file[r], k) /\ file[r][k].state = "completed"
      => \E s \in Runs : effects[s][k] > 0

(* An operation takes effect at most once in all the runs of a session: the *)
(* ledger is "not discarded on resume".                                     *)
EffectOncePerSession ==
  \A k \in Keys, r, s \in Runs :
    effects[r][k] > 0 /\ effects[s][k] > 0 => r = s

-----------------------------------------------------------------------------

(* Why an operation takes effect at most once while nobody shares a run.    *)

LockedPlaces == {"claiming", "updating", "downgrading"}

OneOwner == \A a, b \in Agents : run[a] # NoRun /\ run[a] = run[b] => a = b

(* An agent that wrote its run's file has the ledger of the file in memory, *)
(* and an agent that starts has it if there is a file.                      *)
MemoryIsFile ==
  \A a \in Agents :
    place[a] # "idle" =>
      \/ mem[a] = file[run[a]]
      \/ place[a] = "starting" /\ file[run[a]] = NoLedger

(* So does an agent that read the file to claim or to update.               *)
SeenIsFile ==
  \A a \in Agents : place[a] \in LockedPlaces => seen[a] = file[run[a]]

(* An operation about to be executed took no effect yet.                    *)
ExecutingIsNew ==
  \A a \in Agents :
    place[a] = "executing" =>
      HasEntry(file[run[a]], opKey[a]) /\ effects[run[a]][opKey[a]] = 0

(* What took effect is in the file.                                         *)
EffectsKnown ==
  \A r \in Runs, k \in Keys : effects[r][k] # 0 => HasEntry(file[r], k)

(* The entry of a call stays in the file while the call is under way, and   *)
(* stays "claimed" until the update of the try block.                       *)
CallClaimed ==
  \A a \in Agents :
    LET f == file[run[a]]
    IN  /\ place[a] \in {"executing", "returned", "raised", "updating",
                         "downgrading", "checking"} => HasEntry(f, opKey[a])
        /\ place[a] \in {"executing", "returned", "updating"} =>
             f[opKey[a]].state = "claimed"

(* A result whose contract holds is one of a body that took effect.         *)
SuccessTookEffect ==
  \A a \in Agents :
    place[a] \in {"returned", "updating"} /\ succeeded[a]
      => effects[run[a]][opKey[a]] = 1

(* What a task state or a checkpoint knows of is in the file of some run.   *)
AdoptedKnown ==
  \A a \in Agents, k \in Keys :
    HasEntry(mem[a], k) \/ HasEntry(checkpoint[a], k)
      => \E r \in Runs : HasEntry(file[r], k)

OutcomeInv == CallClaimed /\ SuccessTookEffect /\ AdoptedKnown

(* A ledger that lists an operation as completed tells the truth; so do all *)
(* copies of a ledger, and a call is only known as successful once its body *)
(* took effect.  This needs no assumption on who shares a run.              *)
Truthful(ledger) ==
  \A k \in Keys :
    HasEntry(ledger, k) /\ ledger[k].state = "completed"
      => \E s \in Runs : effects[s][k] > 0

TruthInv ==
  /\ \A r \in Runs : Truthful(file[r])
  /\ \A a \in Agents : Truthful(mem[a]) /\ Truthful(checkpoint[a]) /\ Truthful(seen[a])
  /\ \A a \in Agents :
       place[a] \in {"returned", "updating"} /\ succeeded[a]
         => effects[run[a]][opKey[a]] > 0

LedgerInv ==
  OneOwner /\ MemoryIsFile /\ SeenIsFile /\ ExecutingIsNew /\ EffectsKnown
  /\ EffectAtMostOnce

-----------------------------------------------------------------------------

(* The abstract view: the phase of an operation is the state of its entry   *)
(* in the file of the run.                                                  *)
PhaseOf(r, k) == IF HasEntry(file[r], k) THEN file[r][k].state ELSE "free"

Once == INSTANCE OnceLedger WITH
  phase <- [r \in Runs |-> [k \in Keys |-> PhaseOf(r, k)]],
  performed <- effects

(* The ledger files, with crashes, restarts and the whole write-back of the *)
(* task state, implement the ledger that performs an operation once.        *)
ImplementsOnce == Once!Spec
=============================================================================
