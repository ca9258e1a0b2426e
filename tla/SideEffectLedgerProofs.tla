----------------------- MODULE SideEffectLedgerProofs -----------------------
(***************************************************************************)
(* Proofs about the replay ledger: its type invariant, and that an          *)
(* operation takes effect at most once while no two asks share a run id.    *)
(***************************************************************************)
EXTENDS SideEffectLedger, TLAPS

(* Places at which the tool call of an agent is known.                      *)
CallPlaces == {"claiming", "executing", "returned", "raised", "updating",
               "downgrading", "checking"}

(* The type invariant is inductive with these two facts: an agent works on  *)
(* a run exactly while it is not idle, and it knows its call where it uses  *)
(* it.                                                                      *)
RunWhileBusy == \A a \in Agents : run[a] = NoRun <=> place[a] = "idle"

CallKnown ==
  \A a \in Agents :
    place[a] \in CallPlaces => opKey[a] \in Keys /\ opIdentity[a] \in Identities

TypeInv == TypeOK /\ RunWhileBusy /\ CallKnown

USE NullAssumption

(* The ledger a run begins with is a ledger.                                *)
LEMMA EmptyLedgerType == EmptyLedger \in Ledgers
BY DEF EmptyLedger, Ledgers

(* The initial state has the types and works on nothing.                    *)
LEMMA TypeInit == Init => TypeInv
BY EmptyLedgerType DEF Init, TypeInv, TypeOK, RunWhileBusy, CallKnown, CallPlaces, Places

(* Setting the entry of one key of a ledger gives a ledger.                 *)
LEMMA LedgerExcept ==
  ASSUME NEW l \in Ledgers, NEW k \in Keys, NEW e \in Entries
  PROVE  [l EXCEPT ![k] = e] \in Ledgers
BY DEF Ledgers

(* So does changing the state of an entry.                                  *)
LEMMA LedgerStateExcept ==
  ASSUME NEW l \in Ledgers, NEW k \in Keys, l[k] # NoEntry, NEW s \in EntryStates
  PROVE  [l EXCEPT ![k].state = s] \in Ledgers
<1>1. l[k] \in Entries
  BY DEF Ledgers
<1>2. [l[k] EXCEPT !.state = s] \in Entries
  BY <1>1 DEF Entries
<1>. QED
  BY <1>2 DEF Ledgers

(* Every step of an agent keeps the types.                                  *)
LEMMA TypeStep == ASSUME TypeInv, NEW a \in Agents, Step(a)
                  PROVE  TypeInv'
<1>. USE DEF TypeInv, TypeOK, RunWhileBusy, CallKnown, CallPlaces, Places
<1>1. ASSUME NEW r \in Runs, StartAsk(a, r) PROVE TypeInv'
  <2>1. PriorOperations(a, r) \in Ledgers
    BY EmptyLedgerType DEF PriorOperations
  <2>. QED
    BY <1>1, <2>1 DEF StartAsk
<1>2. CASE PersistTurn(a)
  BY <1>2 DEF PersistTurn, WriteTaskState
<1>3. CASE PromptCheckpoint(a)
  BY <1>3 DEF PromptCheckpoint, WriteTaskState
<1>4. CASE OtherTurn(a)
  BY <1>4 DEF OtherTurn, WriteTaskState
<1>5. ASSUME NEW k \in Keys, NEW i \in Identities, BeginClaim(a, k, i) PROVE TypeInv'
  <2>1. ProcOf[a] \in Procs /\ run[a] \in Runs
    BY <1>5, ProcOfAssumption DEF BeginClaim
  <2>2. Payload(a) \in Ledgers
    BY <2>1 DEF Payload
  <2>. QED
    BY <1>5, <2>1, <2>2 DEF BeginClaim, Lock
<1>6. CASE GrantClaim(a)
  <2>1. ProcOf[a] \in Procs /\ run[a] \in Runs
    BY <1>6, ProcOfAssumption DEF GrantClaim
  <2>2. [identity |-> opIdentity[a], state |-> "claimed"] \in Entries
    BY <1>6 DEF GrantClaim, Entries, EntryStates
  <2>3. [seen[a] EXCEPT ![opKey[a]] = [identity |-> opIdentity[a], state |-> "claimed"]]
          \in Ledgers
    BY <1>6, <2>2, LedgerExcept DEF GrantClaim
  <2>. QED
    BY <1>6, <2>1, <2>3, EmptyLedgerType DEF GrantClaim, Unlock
<1>7. CASE RefuseClaim(a)
  BY <1>7, ProcOfAssumption, EmptyLedgerType DEF RefuseClaim, Unlock
<1>8. CASE RunBody(a)
  <2>1. effects' \in [Runs -> [Keys -> 0..2]]
    BY <1>8 DEF RunBody, OnceMore
  <2>. QED
    BY <1>8, <2>1 DEF RunBody
<1>9. CASE BeginUpdate(a)
  <2>1. ProcOf[a] \in Procs /\ run[a] \in Runs
    BY <1>9, ProcOfAssumption DEF BeginUpdate
  <2>2. Payload(a) \in Ledgers
    BY <2>1 DEF Payload
  <2>. QED
    BY <1>9, <2>1, <2>2 DEF BeginUpdate, Lock
<1>10. CASE FinishUpdate(a)
  <2>1. ProcOf[a] \in Procs /\ run[a] \in Runs
    BY <1>10, ProcOfAssumption DEF FinishUpdate
  <2>2. OutcomeState(a) \in EntryStates
    BY DEF OutcomeState, EntryStates
  <2>3. [seen[a] EXCEPT ![opKey[a]].state = OutcomeState(a)] \in Ledgers
    BY <1>10, <2>2, LedgerStateExcept DEF FinishUpdate
  <2>. QED
    BY <1>10, <2>1, <2>3, EmptyLedgerType DEF FinishUpdate, Unlock
<1>11. CASE UpdateMissing(a)
  BY <1>11, ProcOfAssumption, EmptyLedgerType DEF UpdateMissing, Unlock
<1>12. CASE UpdateEscapes(a)
  BY <1>12, ProcOfAssumption, EmptyLedgerType DEF UpdateEscapes, Unlock, EndAsk
<1>13. CASE AfterUpdate(a)
  BY <1>13 DEF AfterUpdate
<1>14. CASE RecordTool(a)
  BY <1>14 DEF RecordTool, WriteTaskState
<1>15. CASE Checkpoint(a)
  BY <1>15 DEF Checkpoint
<1>16. CASE Finish(a)
  BY <1>16 DEF Finish
<1>17. CASE WriteFinished(a)
  BY <1>17, EmptyLedgerType DEF WriteFinished, WriteTaskState, EndAsk
<1>18. CASE StopLimited(a)
  BY <1>18 DEF StopLimited, WriteTaskState
<1>19. CASE CheckpointStopped(a)
  BY <1>19, EmptyLedgerType DEF CheckpointStopped, EndAsk
<1>20. CASE StopWithoutCheckpoint(a)
  BY <1>20, EmptyLedgerType DEF StopWithoutCheckpoint, WriteTaskState, EndAsk
<1>. QED
  BY <1>1, <1>2, <1>3, <1>4, <1>5, <1>6, <1>7, <1>8, <1>9, <1>10, <1>11, <1>12,
     <1>13, <1>14, <1>15, <1>16, <1>17, <1>18, <1>19, <1>20 DEF Step

(* So does the crash of a process.                                          *)
LEMMA TypeCrash == ASSUME TypeInv, NEW p \in Procs, Crash(p)
                   PROVE  TypeInv'
BY EmptyLedgerType
DEF Crash, TypeInv, TypeOK, RunWhileBusy, CallKnown, CallPlaces, Places

(* The types are kept by every step of the system.                          *)
LEMMA TypeNext == TypeInv /\ [Next]_vars => TypeInv'
<1>. SUFFICES ASSUME TypeInv, [Next]_vars PROVE TypeInv'
  OBVIOUS
<1>1. CASE Next
  BY <1>1, TypeStep, TypeCrash DEF Next
<1>2. CASE UNCHANGED vars
  BY <1>2 DEF vars, TypeInv, TypeOK, RunWhileBusy, CallKnown
<1>. QED
  BY <1>1, <1>2

(* The variables of every reachable state have their types, whatever the    *)
(* run id policy.                                                           *)
THEOREM TypeCorrect == Spec => []TypeOK
<1>1. TypeInv => TypeOK
  BY DEF TypeInv
<1>. QED
  BY TypeInit, TypeNext, <1>1, PTL DEF Spec

-----------------------------------------------------------------------------

(* Nothing took effect before the first ask.                                *)
LEMMA LedgerInit == Init => LedgerInv
BY NullAssumption
DEF Init, LedgerInv, OneOwner, MemoryIsFile, SeenIsFile, ExecutingIsNew,
    EffectsKnown, EffectAtMostOnce, LockedPlaces, EmptyLedger

(* A write of the task state by the owner of a run changes its file only    *)
(* when the run has none yet.                                               *)
LEMMA WriteIsFile ==
  ASSUME TypeInv, LedgerInv, NEW a \in Agents, place[a] # "idle", WriteTaskState(a)
  PROVE  /\ run[a] \in Runs
         /\ file'[run[a]] = mem[a]
         /\ \A r \in Runs : file'[r] = file[r] \/ (r = run[a] /\ file[r] = NoLedger)
<1>1. run[a] \in Runs
  BY DEF TypeInv, TypeOK, RunWhileBusy
<1>2. file' = [file EXCEPT ![run[a]] = mem[a]] /\ file \in [Runs -> Ledgers \cup {NoLedger}]
  BY DEF WriteTaskState, TypeInv, TypeOK
<1>3. mem[a] = file[run[a]] \/ file[run[a]] = NoLedger
  BY DEF LedgerInv, MemoryIsFile
<1>4. file'[run[a]] = mem[a] /\ \A r \in Runs : r # run[a] => file'[r] = file[r]
  BY <1>1, <1>2
<1>5. \A r \in Runs : file'[r] = file[r] \/ (r = run[a] /\ file[r] = NoLedger)
  BY <1>1, <1>3, <1>4
<1>. QED
  BY <1>1, <1>4, <1>5

(* A write of the task state keeps the invariant when the agent goes on to  *)
(* a place that promises nothing about its call.                            *)
LEMMA WriteKeepsInv ==
  ASSUME TypeInv, LedgerInv, NEW a \in Agents, place[a] # "idle", WriteTaskState(a),
         UNCHANGED <<run, mem, seen, effects>>,
         place'[a] \notin LockedPlaces \cup {"executing"},
         \A b \in Agents \ {a} : place'[b] = place[b] /\ opKey'[b] = opKey[b]
  PROVE  LedgerInv'
<1>1. /\ run[a] \in Runs
      /\ file'[run[a]] = mem[a]
      /\ \A r \in Runs : file'[r] = file[r] \/ (r = run[a] /\ file[r] = NoLedger)
  BY WriteIsFile
<1>2. \A b \in Agents \ {a} : place[b] # "idle" => run[b] \in Runs /\ file'[run[b]] = file[run[b]]
  <2>. SUFFICES ASSUME NEW b \in Agents \ {a}, place[b] # "idle"
                PROVE  run[b] \in Runs /\ file'[run[b]] = file[run[b]]
    OBVIOUS
  <2>1. run[b] \in Runs
    BY DEF TypeInv, TypeOK, RunWhileBusy
  <2>2. run[b] # run[a]
    BY <1>1, <2>1 DEF LedgerInv, OneOwner
  <2>. QED
    BY <1>1, <2>1, <2>2
<1>3. OneOwner'
  BY DEF LedgerInv, OneOwner
<1>4. MemoryIsFile'
  BY <1>1, <1>2 DEF LedgerInv, MemoryIsFile
<1>5. SeenIsFile'
  BY <1>2 DEF LedgerInv, SeenIsFile, LockedPlaces
<1>6. ExecutingIsNew'
  BY <1>2 DEF LedgerInv, ExecutingIsNew
<1>7. EffectsKnown' /\ EffectAtMostOnce'
  BY <1>1 DEF LedgerInv, EffectsKnown, EffectAtMostOnce, HasEntry
<1>. QED
  BY <1>3, <1>4, <1>5, <1>6, <1>7 DEF LedgerInv

(* While the run is not shared, every step of an agent keeps the invariant. *)
LEMMA LedgerStep ==
  ASSUME RunIdPolicy # "shared", TypeInv, LedgerInv, NEW a \in Agents, Step(a)
  PROVE  LedgerInv'
<1>. USE DEF LedgerInv, OneOwner, MemoryIsFile, SeenIsFile, ExecutingIsNew,
             EffectsKnown, EffectAtMostOnce, LockedPlaces, TypeInv, TypeOK,
             RunWhileBusy, CallKnown, CallPlaces, Places, HasEntry
<1>1. ASSUME NEW r \in Runs, StartAsk(a, r) PROVE LedgerInv'
  <2>1. \A b \in Agents : run[b] # r
    BY <1>1, RunIdPolicyAssumption DEF StartAsk, MayStart, Policies
  <2>. QED
    BY <1>1, <2>1 DEF StartAsk, PriorOperations
<1>2. CASE PersistTurn(a)
  <2>1. /\ place[a] # "idle" /\ place'[a] \in {"loop", "model"}
        /\ \A b \in Agents \ {a} : place'[b] = place[b]
    BY <1>2 DEF PersistTurn
  <2>. QED
    BY <1>2, <2>1, WriteKeepsInv DEF PersistTurn
<1>3. CASE PromptCheckpoint(a)
  BY <1>3, WriteKeepsInv DEF PromptCheckpoint
<1>4. CASE OtherTurn(a)
  BY <1>4, WriteKeepsInv DEF OtherTurn
<1>5. ASSUME NEW k \in Keys, NEW i \in Identities, BeginClaim(a, k, i) PROVE LedgerInv'
  BY <1>5 DEF BeginClaim, Payload
<1>6. CASE GrantClaim(a)
  <2>. DEFINE k == opKey[a]
              claimed == [seen[a] EXCEPT ![k] =
                            [identity |-> opIdentity[a], state |-> "claimed"]]
  <2>1. /\ place[a] = "claiming" /\ k \in Keys /\ run[a] \in Runs
        /\ seen[a] = file[run[a]] /\ ~HasEntry(file[run[a]], k)
        /\ \A b \in Agents \ {a} : run[b] # run[a]
    BY <1>6 DEF GrantClaim
  <2>2. [identity |-> opIdentity[a], state |-> "claimed"] \in Entries
    BY <1>6 DEF GrantClaim, Entries, EntryStates
  <2>3. claimed \in Ledgers /\ HasEntry(claimed, k)
        /\ \A j \in Keys \ {k} : HasEntry(claimed, j) <=> HasEntry(file[run[a]], j)
    <3>1. seen[a] \in Ledgers /\ claimed \in Ledgers
      BY <2>1, <2>2, LedgerExcept
    <3>2. claimed[k] \in Entries /\ \A j \in Keys \ {k} : claimed[j] = seen[a][j]
      BY <2>1, <2>2, <3>1 DEF Ledgers
    <3>. HIDE DEF claimed
    <3>. QED
      BY <2>1, <3>1, <3>2, SentinelAssumption
  <2>4. /\ file' = [file EXCEPT ![run[a]] = claimed]
        /\ mem' = [mem EXCEPT ![a] = claimed]
        /\ seen' = [seen EXCEPT ![a] = EmptyLedger]
        /\ place' = [place EXCEPT ![a] = "executing"]
        /\ UNCHANGED <<run, opKey, effects>>
    BY <1>6 DEF GrantClaim, Unlock
  <2>5. OneOwner' /\ MemoryIsFile' /\ SeenIsFile'
    BY <2>1, <2>4
  <2>6. ExecutingIsNew'
    BY <2>1, <2>3, <2>4
  <2>7. EffectsKnown' /\ EffectAtMostOnce'
    BY <2>1, <2>3, <2>4
  <2>. QED
    BY <2>5, <2>6, <2>7
<1>7. CASE RefuseClaim(a)
  BY <1>7 DEF RefuseClaim, Unlock
<1>8. CASE RunBody(a)
  BY <1>8 DEF RunBody, OnceMore
<1>9. CASE BeginUpdate(a)
  BY <1>9 DEF BeginUpdate, Payload
<1>10. CASE FinishUpdate(a)
  <2>. DEFINE k == opKey[a]
              updated == [seen[a] EXCEPT ![k].state = OutcomeState(a)]
  <2>1. /\ k \in Keys /\ run[a] \in Runs
        /\ seen[a] = file[run[a]] /\ seen[a] \in Ledgers /\ seen[a][k] # NoEntry
        /\ \A b \in Agents \ {a} : run[b] # run[a]
    BY <1>10 DEF FinishUpdate
  <2>2. OutcomeState(a) \in EntryStates
    BY DEF OutcomeState, EntryStates
  <2>3. updated \in Ledgers /\ HasEntry(updated, k)
        /\ \A j \in Keys \ {k} : HasEntry(updated, j) <=> HasEntry(file[run[a]], j)
    <3>1. updated \in Ledgers
      BY <2>1, <2>2, LedgerStateExcept
    <3>2. seen[a][k] \in Entries
      BY <2>1 DEF Ledgers
    <3>3. [seen[a][k] EXCEPT !.state = OutcomeState(a)] \in Entries
      BY <2>2, <3>2 DEF Entries
    <3>4. updated[k] \in Entries /\ \A j \in Keys \ {k} : updated[j] = seen[a][j]
      BY <2>1, <3>3 DEF Ledgers
    <3>. HIDE DEF updated
    <3>. QED
      BY <2>1, <3>1, <3>4, SentinelAssumption
  <2>4. /\ file' = [file EXCEPT ![run[a]] = updated]
        /\ mem' = [mem EXCEPT ![a] = updated]
        /\ seen' = [seen EXCEPT ![a] = EmptyLedger]
        /\ place' = [place EXCEPT ![a] = IF @ = "updating" THEN "checking" ELSE "settled"]
        /\ UNCHANGED <<run, opKey, effects>>
    BY <1>10 DEF FinishUpdate, Unlock
  <2>5. OneOwner' /\ MemoryIsFile' /\ SeenIsFile'
    BY <2>1, <2>4
  <2>6. ExecutingIsNew'
    BY <2>1, <2>4
  <2>7. EffectsKnown' /\ EffectAtMostOnce'
    BY <2>1, <2>3, <2>4
  <2>. QED
    BY <2>5, <2>6, <2>7
<1>11. CASE UpdateMissing(a)
  BY <1>11 DEF UpdateMissing, Unlock
<1>12. CASE UpdateEscapes(a)
  BY <1>12 DEF UpdateEscapes, Unlock, EndAsk
<1>13. CASE AfterUpdate(a)
  BY <1>13 DEF AfterUpdate
<1>14. CASE RecordTool(a)
  BY <1>14, WriteKeepsInv DEF RecordTool
<1>15. CASE Checkpoint(a)
  BY <1>15 DEF Checkpoint
<1>16. CASE Finish(a)
  BY <1>16 DEF Finish
<1>17. CASE WriteFinished(a)
  BY <1>17, WriteIsFile DEF WriteFinished, EndAsk
<1>18. CASE StopLimited(a)
  BY <1>18, WriteKeepsInv DEF StopLimited
<1>19. CASE CheckpointStopped(a)
  BY <1>19 DEF CheckpointStopped, EndAsk
<1>20. CASE StopWithoutCheckpoint(a)
  BY <1>20, WriteIsFile DEF StopWithoutCheckpoint, EndAsk
<1>. QED
  BY <1>1, <1>2, <1>3, <1>4, <1>5, <1>6, <1>7, <1>8, <1>9, <1>10, <1>11, <1>12,
     <1>13, <1>14, <1>15, <1>16, <1>17, <1>18, <1>19, <1>20 DEF Step

(* A crash loses what is in memory and no file.                             *)
LEMMA LedgerCrash == ASSUME TypeInv, LedgerInv, NEW p \in Procs, Crash(p)
                     PROVE  LedgerInv'
<1>. DEFINE Dies(a) == ProcOf[a] = p
<1>1. /\ UNCHANGED <<file, effects>>
      /\ \A a \in Agents :
           \/ place'[a] = "idle" /\ run'[a] = NoRun
           \/ /\ place'[a] = place[a] /\ run'[a] = run[a] /\ mem'[a] = mem[a]
              /\ seen'[a] = seen[a] /\ opKey'[a] = opKey[a]
  BY DEF Crash
<1>. QED
  BY <1>1 DEF LedgerInv, OneOwner, MemoryIsFile, SeenIsFile, ExecutingIsNew,
              EffectsKnown, EffectAtMostOnce, LockedPlaces

(* The invariant is kept by every step of the system.                       *)
LEMMA LedgerNext ==
  ASSUME RunIdPolicy # "shared"
  PROVE  TypeInv /\ LedgerInv /\ [Next]_vars => LedgerInv'
<1>. SUFFICES ASSUME TypeInv, LedgerInv, [Next]_vars PROVE LedgerInv'
  OBVIOUS
<1>1. CASE Next
  BY <1>1, LedgerStep, LedgerCrash DEF Next
<1>2. CASE UNCHANGED vars
  BY <1>2 DEF vars, LedgerInv, OneOwner, MemoryIsFile, SeenIsFile, ExecutingIsNew,
              EffectsKnown, EffectAtMostOnce
<1>. QED
  BY <1>1, <1>2

(* Replay protection: unless two asks share a run id, an operation of a run *)
(* takes effect at most once, for any number of agents, processes, runs and *)
(* keys, and whatever crashes.                                              *)
THEOREM AtMostOnce ==
  ASSUME RunIdPolicy # "shared"
  PROVE  Spec => []EffectAtMostOnce
<1>1. LedgerInv => EffectAtMostOnce
  BY DEF LedgerInv
<1>. QED
  BY TypeInit, TypeNext, LedgerInit, LedgerNext, <1>1, PTL DEF Spec

-----------------------------------------------------------------------------

(* A step of an agent changes no other agent, and only the file and the     *)
(* effects of its own run.                                                  *)
LEMMA OnlyOwnRun ==
  ASSUME TypeInv, NEW a \in Agents, Step(a)
  PROVE  /\ \A b \in Agents \ {a} :
              /\ run'[b] = run[b] /\ place'[b] = place[b] /\ opKey'[b] = opKey[b]
              /\ succeeded'[b] = succeeded[b] /\ mem'[b] = mem[b]
              /\ checkpoint'[b] = checkpoint[b]
         /\ \A r \in Runs \ {run[a]} : file'[r] = file[r] /\ effects'[r] = effects[r]
BY DEF TypeInv, TypeOK, WriteTaskState, EndAsk, Step, StartAsk, PersistTurn,
   PromptCheckpoint, OtherTurn, BeginClaim, GrantClaim, RefuseClaim, RunBody,
   BeginUpdate, FinishUpdate, UpdateMissing, UpdateEscapes, AfterUpdate,
   RecordTool, Checkpoint, Finish, WriteFinished, StopLimited,
   CheckpointStopped, StopWithoutCheckpoint

(* What a step does to the file of the run: nothing; a write that the owner *)
(* of the run already has in memory; a new claim; or the new state of the   *)
(* entry of the call.                                                       *)
LEMMA FileChange ==
  ASSUME TypeInv, LedgerInv, NEW a \in Agents, Step(a)
  PROVE  \/ \A r \in Runs : file'[r] = file[r] \/ (r = run[a] /\ file[r] = NoLedger)
         \/ GrantClaim(a)
         \/ FinishUpdate(a)
<1>1. CASE place[a] # "idle" /\ WriteTaskState(a)
  BY <1>1, WriteIsFile
<1>. QED
  BY <1>1 DEF Step, StartAsk, PersistTurn, PromptCheckpoint, OtherTurn, BeginClaim,
     RefuseClaim, RunBody, BeginUpdate, UpdateMissing, UpdateEscapes, AfterUpdate,
     RecordTool, Checkpoint, Finish, WriteFinished, StopLimited,
     CheckpointStopped, StopWithoutCheckpoint

(* The ledger a granted claim writes.                                       *)
LEMMA GrantedLedger ==
  ASSUME TypeInv, LedgerInv, NEW a \in Agents, GrantClaim(a)
  PROVE  /\ run[a] \in Runs /\ opKey[a] \in Keys
         /\ ~HasEntry(file[run[a]], opKey[a])
         /\ HasEntry(file'[run[a]], opKey[a])
         /\ file'[run[a]][opKey[a]].state = "claimed"
         /\ \A k \in Keys \ {opKey[a]} : file'[run[a]][k] = file[run[a]][k]
         /\ file[run[a]] \in Ledgers /\ file'[run[a]] \in Ledgers
         /\ mem'[a] = file'[run[a]]
<1>. DEFINE k == opKey[a]
            e == [identity |-> opIdentity[a], state |-> "claimed"]
            claimed == [seen[a] EXCEPT ![k] = e]
<1>1. /\ run[a] \in Runs /\ k \in Keys /\ seen[a] = file[run[a]] /\ seen[a] \in Ledgers
      /\ seen[a][k] = NoEntry /\ e \in Entries
  BY DEF GrantClaim, TypeInv, TypeOK, RunWhileBusy, CallKnown, CallPlaces,
         LedgerInv, SeenIsFile, LockedPlaces, Entries, EntryStates
<1>2. claimed \in Ledgers
  BY <1>1, LedgerExcept
<1>3. claimed[k] = e /\ \A j \in Keys \ {k} : claimed[j] = seen[a][j]
  BY <1>1 DEF Ledgers
<1>4. file'[run[a]] = claimed /\ mem'[a] = claimed
  BY <1>1 DEF GrantClaim, TypeInv, TypeOK
<1>5. e.state = "claimed"
  OBVIOUS
<1>. HIDE DEF claimed, e
<1>. QED
  BY <1>1, <1>2, <1>3, <1>4, <1>5, SentinelAssumption DEF HasEntry

(* The ledger an update writes.                                             *)
LEMMA UpdatedLedger ==
  ASSUME TypeInv, LedgerInv, NEW a \in Agents, FinishUpdate(a)
  PROVE  /\ run[a] \in Runs /\ opKey[a] \in Keys
         /\ HasEntry(file[run[a]], opKey[a])
         /\ HasEntry(file'[run[a]], opKey[a])
         /\ file'[run[a]][opKey[a]].identity = file[run[a]][opKey[a]].identity
         /\ file'[run[a]][opKey[a]].state = OutcomeState(a)
         /\ \A k \in Keys \ {opKey[a]} : file'[run[a]][k] = file[run[a]][k]
         /\ file[run[a]] \in Ledgers /\ file'[run[a]] \in Ledgers
         /\ mem'[a] = file'[run[a]]
<1>. DEFINE k == opKey[a]
            e == [seen[a][k] EXCEPT !.state = OutcomeState(a)]
            updated == [seen[a] EXCEPT ![k].state = OutcomeState(a)]
<1>1. /\ run[a] \in Runs /\ k \in Keys /\ seen[a] = file[run[a]] /\ seen[a] \in Ledgers
      /\ seen[a][k] # NoEntry
  BY DEF FinishUpdate, TypeInv, TypeOK, RunWhileBusy, CallKnown, CallPlaces,
         LedgerInv, SeenIsFile, LockedPlaces
<1>2. OutcomeState(a) \in EntryStates
  BY DEF OutcomeState, EntryStates
<1>3. seen[a][k] \in Entries
  BY <1>1 DEF Ledgers
<1>4. e \in Entries /\ e.identity = seen[a][k].identity /\ e.state = OutcomeState(a)
  BY <1>2, <1>3 DEF Entries
<1>5. updated \in Ledgers
  BY <1>1, <1>2, LedgerStateExcept
<1>6. updated[k] = e /\ \A j \in Keys \ {k} : updated[j] = seen[a][j]
  BY <1>1 DEF Ledgers
<1>7. file'[run[a]] = updated /\ mem'[a] = updated
  BY <1>1 DEF FinishUpdate, TypeInv, TypeOK
<1>. HIDE DEF updated, e
<1>. QED
  BY <1>1, <1>3, <1>4, <1>5, <1>6, <1>7, SentinelAssumption DEF HasEntry

(* No step loses an entry of a file.                                        *)
LEMMA FilesGrow ==
  ASSUME TypeInv, LedgerInv, NEW a \in Agents, Step(a),
         NEW r \in Runs, NEW k \in Keys, HasEntry(file[r], k)
  PROVE  HasEntry(file'[r], k)
<1>1. r # run[a] => file'[r] = file[r]
  BY OnlyOwnRun
<1>2. CASE GrantClaim(a)
  BY <1>1, <1>2, GrantedLedger, SentinelAssumption DEF HasEntry
<1>3. CASE FinishUpdate(a)
  BY <1>1, <1>3, UpdatedLedger, SentinelAssumption DEF HasEntry
<1>4. CASE \A s \in Runs : file'[s] = file[s] \/ (s = run[a] /\ file[s] = NoLedger)
  BY <1>4 DEF HasEntry
<1>. QED
  BY <1>2, <1>3, <1>4, FileChange

(* No call is under way before the first ask.                               *)
LEMMA OutcomeInit == Init => OutcomeInv
BY DEF Init, OutcomeInv, CallClaimed, SuccessTookEffect, AdoptedKnown, HasEntry, EmptyLedger

(* A call's entry stays claimed, in its run's file, while it is under way.  *)
LEMMA CallClaimedStep ==
  ASSUME RunIdPolicy # "shared", TypeInv, LedgerInv, OutcomeInv, NEW a \in Agents, Step(a)
  PROVE  CallClaimed' /\ SuccessTookEffect'
<1>. USE DEF TypeInv, TypeOK, RunWhileBusy, CallKnown, CallPlaces, Places
<1>1. \A b \in Agents \ {a} : place[b] # "idle" =>
        /\ run[b] \in Runs /\ file'[run[b]] = file[run[b]] /\ effects'[run[b]] = effects[run[b]]
        /\ run'[b] = run[b] /\ place'[b] = place[b] /\ opKey'[b] = opKey[b]
        /\ succeeded'[b] = succeeded[b]
  BY OnlyOwnRun DEF LedgerInv, OneOwner
<1>2. \A b \in Agents \ {a} : place[b] = "idle" => place'[b] = "idle"
  BY OnlyOwnRun
<1>. DEFINE Claimed(b) ==
       /\ place[b] \in {"executing", "returned", "raised", "updating",
                        "downgrading", "checking"} => HasEntry(file[run[b]], opKey[b])
       /\ place[b] \in {"executing", "returned", "updating"} =>
            file[run[b]][opKey[b]].state = "claimed"
       /\ place[b] \in {"returned", "updating"} /\ succeeded[b]
            => effects[run[b]][opKey[b]] = 1
<1>3. \A b \in Agents : Claimed(b)
  BY DEF OutcomeInv, CallClaimed, SuccessTookEffect
<1>4. Claimed(a)'
  <2>1. CASE GrantClaim(a)
    <3>1. place'[a] = "executing" /\ run'[a] = run[a] /\ opKey'[a] = opKey[a]
      BY <2>1 DEF GrantClaim
    <3>. QED
      BY <2>1, <3>1, GrantedLedger
  <2>2. CASE FinishUpdate(a)
    <3>1. place'[a] \in {"checking", "settled"} /\ run'[a] = run[a] /\ opKey'[a] = opKey[a]
      BY <2>2 DEF FinishUpdate
    <3>. QED
      BY <2>2, <3>1, UpdatedLedger
  <2>3. CASE RunBody(a)
    BY <2>3, <1>3 DEF RunBody, LedgerInv, ExecutingIsNew, OnceMore
  <2>4. CASE BeginUpdate(a)
    BY <2>4, <1>3 DEF BeginUpdate
  <2>5. CASE AfterUpdate(a)
    BY <2>5, <1>3 DEF AfterUpdate
  <2>6. CASE UpdateMissing(a)
    BY <2>6, <1>3 DEF UpdateMissing, LedgerInv, SeenIsFile, LockedPlaces, HasEntry
  <2>7. CASE /\ ~GrantClaim(a) /\ ~FinishUpdate(a) /\ ~RunBody(a) /\ ~BeginUpdate(a)
             /\ ~AfterUpdate(a) /\ ~UpdateMissing(a)
    <3>1. place'[a] \notin {"executing", "returned", "raised", "updating",
                           "downgrading", "checking"}
      BY <2>7 DEF Step, StartAsk, PersistTurn, PromptCheckpoint, OtherTurn, BeginClaim,
         RefuseClaim, UpdateEscapes, RecordTool, Checkpoint, Finish, WriteFinished,
         StopLimited, CheckpointStopped, StopWithoutCheckpoint, EndAsk
    <3>. QED
      BY <3>1
  <2>. QED
    BY <2>1, <2>2, <2>3, <2>4, <2>5, <2>6, <2>7
<1>5. \A b \in Agents \ {a} : Claimed(b)'
  BY <1>1, <1>2, <1>3
<1>. QED
  BY <1>4, <1>5 DEF CallClaimed, SuccessTookEffect

(* What a step puts into a task state or a checkpoint is in some file.      *)
LEMMA AdoptedKnownStep ==
  ASSUME TypeInv, LedgerInv, OutcomeInv, NEW a \in Agents, Step(a)
  PROVE  AdoptedKnown'
<1>. SUFFICES ASSUME NEW b \in Agents, NEW k \in Keys,
                     HasEntry(mem'[b], k) \/ HasEntry(checkpoint'[b], k)
              PROVE  \E r \in Runs : HasEntry(file'[r], k)
  BY DEF AdoptedKnown
<1>1. ASSUME \E r \in Runs : HasEntry(file[r], k)
      PROVE  \E r \in Runs : HasEntry(file'[r], k)
  BY <1>1, FilesGrow
<1>2. HasEntry(mem[b], k) \/ HasEntry(checkpoint[b], k) => \E r \in Runs : HasEntry(file[r], k)
  BY DEF OutcomeInv, AdoptedKnown
<1>3. CASE b # a
  BY <1>1, <1>2, <1>3, OnlyOwnRun
<1>4. CASE GrantClaim(a)
  BY <1>1, <1>2, <1>3, <1>4, GrantedLedger DEF GrantClaim
<1>5. CASE FinishUpdate(a)
  <2>1. UNCHANGED checkpoint
    BY <1>5 DEF FinishUpdate
  <2>2. run[a] \in Runs /\ mem'[a] = file'[run[a]]
    BY <1>5, UpdatedLedger
  <2>. QED
    BY <1>1, <1>2, <1>3, <2>1, <2>2
<1>6. CASE RefuseClaim(a)
  <2>1. UNCHANGED checkpoint /\ run[a] \in Runs
    BY <1>6 DEF RefuseClaim, TypeInv, TypeOK, RunWhileBusy
  <2>2. mem'[a] = file[run[a]]
    BY <1>6 DEF RefuseClaim, LedgerInv, SeenIsFile, LockedPlaces, TypeInv, TypeOK
  <2>. QED
    BY <1>1, <1>2, <1>3, <2>1, <2>2
<1>7. ASSUME NEW r \in Runs, StartAsk(a, r)
      PROVE  \E s \in Runs : HasEntry(file'[s], k)
  BY <1>1, <1>2, <1>3, <1>7
  DEF StartAsk, PriorOperations, TypeInv, TypeOK, EmptyLedger, HasEntry
<1>8. CASE /\ ~GrantClaim(a) /\ ~FinishUpdate(a) /\ ~RefuseClaim(a)
           /\ ~(\E r \in Runs : StartAsk(a, r))
  <2>1. /\ mem'[a] \in {mem[a], EmptyLedger}
        /\ checkpoint'[a] \in {checkpoint[a], mem[a]}
    BY <1>8 DEF Step, PersistTurn, PromptCheckpoint, OtherTurn, BeginClaim,
       RunBody, BeginUpdate, UpdateMissing, UpdateEscapes, AfterUpdate,
       RecordTool, Checkpoint, Finish, WriteFinished, StopLimited,
       CheckpointStopped, StopWithoutCheckpoint, EndAsk, TypeInv, TypeOK
  <2>2. ~HasEntry(EmptyLedger, k)
    BY DEF HasEntry, EmptyLedger
  <2>. QED
    BY <1>1, <1>2, <1>3, <2>1, <2>2
<1>. QED
  BY <1>4, <1>5, <1>6, <1>7, <1>8

(* A crash ends the calls of its process and keeps all files.               *)
LEMMA OutcomeCrash ==
  ASSUME OutcomeInv, NEW p \in Procs, Crash(p)
  PROVE  OutcomeInv'
<1>1. /\ UNCHANGED <<file, effects, checkpoint>>
      /\ \A a \in Agents :
           \/ place'[a] = "idle" /\ mem'[a] = EmptyLedger
           \/ /\ place'[a] = place[a] /\ run'[a] = run[a] /\ mem'[a] = mem[a]
              /\ opKey'[a] = opKey[a] /\ succeeded'[a] = succeeded[a]
  <2>1. ASSUME NEW a \in Agents, ProcOf[a] = p
        PROVE  place'[a] = "idle" /\ mem'[a] = EmptyLedger
    BY <2>1 DEF Crash
  <2>2. ASSUME NEW a \in Agents, ProcOf[a] # p
        PROVE  /\ place'[a] = place[a] /\ run'[a] = run[a] /\ mem'[a] = mem[a]
               /\ opKey'[a] = opKey[a] /\ succeeded'[a] = succeeded[a]
    BY <2>2 DEF Crash
  <2>. QED
    BY <2>1, <2>2 DEF Crash
<1>2. \A k \in Keys : ~HasEntry(EmptyLedger, k)
  BY DEF HasEntry, EmptyLedger
<1>3. CallClaimed' /\ SuccessTookEffect'
  BY <1>1 DEF OutcomeInv, CallClaimed, SuccessTookEffect
<1>4. AdoptedKnown'
  BY <1>1, <1>2 DEF OutcomeInv, AdoptedKnown
<1>. QED
  BY <1>3, <1>4 DEF OutcomeInv

(* The invariant about outcomes is kept by every step of the system.        *)
LEMMA OutcomeNext ==
  ASSUME RunIdPolicy # "shared"
  PROVE  TypeInv /\ LedgerInv /\ OutcomeInv /\ [Next]_vars => OutcomeInv'
<1>. SUFFICES ASSUME TypeInv, LedgerInv, OutcomeInv, [Next]_vars PROVE OutcomeInv'
  OBVIOUS
<1>1. CASE Next
  BY <1>1, CallClaimedStep, AdoptedKnownStep, OutcomeCrash DEF Next, OutcomeInv
<1>2. CASE UNCHANGED vars
  BY <1>2 DEF vars, OutcomeInv, CallClaimed, SuccessTookEffect, AdoptedKnown
<1>. QED
  BY <1>1, <1>2

(* The invariants together.                                                 *)
LEMMA Invariance ==
  ASSUME RunIdPolicy # "shared"
  PROVE  Spec => [](TypeInv /\ LedgerInv /\ OutcomeInv)
BY TypeInit, TypeNext, LedgerInit, LedgerNext, OutcomeInit, OutcomeNext, PTL DEF Spec

-----------------------------------------------------------------------------

(* An entry of a run's file is never lost, taken over, claimed again or     *)
(* raised from "uncertain" to "completed", unless two asks share a run id.  *)
THEOREM OnlyHardens ==
  ASSUME RunIdPolicy # "shared"
  PROVE  Spec => LedgerOnlyHardens
<1>. DEFINE Hardens ==
       \A r \in Runs, k \in Keys :
         HasEntry(file[r], k) =>
           /\ HasEntry(file'[r], k)
           /\ file'[r][k].identity = file[r][k].identity
           /\ file'[r][k].state = "claimed" => file[r][k].state = "claimed"
           /\ file'[r][k].state = "completed" => file[r][k].state # "uncertain"
<1>1. ASSUME TypeInv, LedgerInv, OutcomeInv, NEW a \in Agents, Step(a)
      PROVE  Hardens
  <2>. SUFFICES ASSUME NEW r \in Runs, NEW k \in Keys, HasEntry(file[r], k)
                PROVE  /\ HasEntry(file'[r], k)
                       /\ file'[r][k].identity = file[r][k].identity
                       /\ file'[r][k].state = "claimed" => file[r][k].state = "claimed"
                       /\ file'[r][k].state = "completed" => file[r][k].state # "uncertain"
    OBVIOUS
  <2>1. HasEntry(file'[r], k)
    BY <1>1, FilesGrow
  <2>2. CASE file'[r] = file[r]
    BY <2>1, <2>2
  <2>3. CASE r = run[a] /\ GrantClaim(a)
    BY <1>1, <2>1, <2>3, GrantedLedger
  <2>4. CASE r = run[a] /\ FinishUpdate(a)
    <3>1. CASE k # opKey[a]
      BY <1>1, <2>1, <2>4, <3>1, UpdatedLedger
    <3>2. CASE k = opKey[a]
      <4>1. /\ file'[r][k].identity = file[r][k].identity
            /\ file'[r][k].state = OutcomeState(a)
        BY <1>1, <2>4, <3>2, UpdatedLedger
      <4>2. OutcomeState(a) # "claimed"
            /\ (OutcomeState(a) = "completed" => place[a] = "updating")
        BY DEF OutcomeState
      <4>3. place[a] = "updating" => file[r][k].state = "claimed"
        BY <1>1, <2>4, <3>2 DEF OutcomeInv, CallClaimed
      <4>. QED
        BY <2>1, <4>1, <4>2, <4>3
    <3>. QED
      BY <3>1, <3>2
  <2>5. CASE \A s \in Runs : file'[s] = file[s] \/ (s = run[a] /\ file[s] = NoLedger)
    <3>1. file[r] # NoLedger
      BY DEF HasEntry
    <3>. QED
      BY <2>2, <2>5, <3>1
  <2>6. r # run[a] => file'[r] = file[r]
    BY <1>1, OnlyOwnRun
  <2>. QED
    BY <1>1, <2>2, <2>3, <2>4, <2>5, <2>6, FileChange
<1>2. ASSUME NEW p \in Procs, Crash(p) PROVE Hardens
  BY <1>2 DEF Crash
<1>3. TypeInv /\ LedgerInv /\ OutcomeInv /\ [Next]_vars => [Hardens]_vars
  BY <1>1, <1>2 DEF Next
<1>4. [](TypeInv /\ LedgerInv /\ OutcomeInv) /\ [][Next]_vars => [][Hardens]_vars
  BY <1>3, PTL
<1>. QED
  BY Invariance, <1>4 DEF Spec, LedgerOnlyHardens

-----------------------------------------------------------------------------

(* The phases of the abstract ledger, as the refinement mapping gives them. *)
Phase == [r \in Runs |-> [k \in Keys |-> PhaseOf(r, k)]]

PhasesTyped == \A r \in Runs, k \in Keys : PhaseOf(r, k) \in Once!Phases

(* The mapped phase of an operation is one of the abstract phases.          *)
LEMMA PhaseType == TypeInv => PhasesTyped
<1>. SUFFICES ASSUME TypeInv, NEW r \in Runs, NEW k \in Keys, HasEntry(file[r], k)
              PROVE  file[r][k].state \in EntryStates
  BY DEF PhasesTyped, PhaseOf, Once!Phases, EntryStates
<1>1. file[r] \in Ledgers
  BY DEF TypeInv, TypeOK, HasEntry
<1>2. file[r][k] \in Entries
  BY <1>1 DEF Ledgers, HasEntry
<1>. QED
  BY <1>2 DEF Entries

(* A change of one phase is a change of the abstract variable at one point. *)
LEMMA OnePhase ==
  ASSUME NEW r \in Runs, NEW k \in Keys, NEW v,
         PhaseOf(r, k)' = v,
         \A s \in Runs, j \in Keys : (s # r \/ j # k) => PhaseOf(s, j)' = PhaseOf(s, j)
  PROVE  Phase' = [Phase EXCEPT ![r][k] = v]
BY DEF Phase

(* An initial state maps to an initial state.                               *)
LEMMA OnceInit == Init => Once!Init
BY DEF Init, Once!Init, PhaseOf, HasEntry

(* A step of an agent maps to an abstract step or to a stutter.             *)
LEMMA OnceStep ==
  ASSUME RunIdPolicy # "shared", TypeInv, LedgerInv, OutcomeInv, TypeInv',
         NEW a \in Agents, Step(a)
  PROVE  Once!Next \/ UNCHANGED <<Phase, effects>>
<1>. USE DEF Once!Next
<1>1. CASE GrantClaim(a)
  <2>1. PICK r \in Runs, k \in Keys : r = run[a] /\ k = opKey[a]
    BY <1>1, GrantedLedger
  <2>2. UNCHANGED effects
    BY <1>1 DEF GrantClaim
  <2>3. PhaseOf(r, k) = "free" /\ PhaseOf(r, k)' = "claimed"
    BY <1>1, <2>1, GrantedLedger DEF PhaseOf
  <2>4. \A s \in Runs, j \in Keys : (s # r \/ j # k) => PhaseOf(s, j)' = PhaseOf(s, j)
    BY <1>1, <2>1, GrantedLedger, OnlyOwnRun, SentinelAssumption DEF PhaseOf, HasEntry
  <2>5. Phase' = [Phase EXCEPT ![r][k] = "claimed"]
    BY <2>3, <2>4, OnePhase
  <2>6. Once!Claim(r, k)
    BY <2>2, <2>3, <2>5 DEF Once!Claim, Phase
  <2>. QED
    BY <2>6
<1>2. CASE FinishUpdate(a)
  <2>1. PICK r \in Runs, k \in Keys : r = run[a] /\ k = opKey[a]
    BY <1>2, UpdatedLedger
  <2>2. PICK state \in {"completed", "uncertain"} : state = OutcomeState(a)
    BY DEF OutcomeState
  <2>3. UNCHANGED effects
    BY <1>2 DEF FinishUpdate
  <2>4. PhaseOf(r, k) = file[r][k].state /\ PhaseOf(r, k)' = state
    BY <1>2, <2>1, <2>2, UpdatedLedger DEF PhaseOf
  <2>5. \A s \in Runs, j \in Keys : (s # r \/ j # k) => PhaseOf(s, j)' = PhaseOf(s, j)
    BY <1>2, <2>1, UpdatedLedger, OnlyOwnRun, SentinelAssumption DEF PhaseOf, HasEntry
  <2>6. Phase' = [Phase EXCEPT ![r][k] = state]
    BY <2>4, <2>5, OnePhase
  <2>7. CASE state = "completed"
    <3>1. place[a] = "updating" /\ succeeded[a]
      BY <2>2, <2>7 DEF OutcomeState
    <3>2. PhaseOf(r, k) = "claimed" /\ effects[r][k] = 1
      BY <2>1, <2>4, <3>1 DEF OutcomeInv, CallClaimed, SuccessTookEffect
    <3>3. Once!Settle(r, k)
      BY <2>3, <2>6, <2>7, <3>2 DEF Once!Settle, Phase
    <3>. QED
      BY <3>3
  <2>8. CASE state = "uncertain"
    <3>1. PhaseOf(r, k) \in EntryStates
      <4>1. file[r] \in Ledgers /\ file[r][k] # NoEntry
        BY <1>2, <2>1, UpdatedLedger DEF HasEntry
      <4>2. file[r][k] \in Entries
        BY <4>1 DEF Ledgers
      <4>. QED
        BY <2>4, <4>2 DEF Entries
    <3>2. CASE PhaseOf(r, k) = "uncertain"
      <4>1. \A s \in Runs, j \in Keys : PhaseOf(s, j)' = PhaseOf(s, j)
        BY <2>4, <2>5, <2>8, <3>2
      <4>. QED
        BY <2>3, <4>1 DEF Phase
    <3>3. CASE PhaseOf(r, k) \in {"claimed", "completed"}
      <4>1. Once!Settle(r, k)
        BY <2>3, <2>6, <2>8, <3>3 DEF Once!Settle, Phase
      <4>. QED
        BY <4>1
    <3>. QED
      BY <3>1, <3>2, <3>3 DEF EntryStates
  <2>. QED
    BY <2>7, <2>8
<1>3. CASE RunBody(a)
  <2>1. run[a] \in Runs /\ opKey[a] \in Keys
    BY <1>3 DEF RunBody, TypeInv, TypeOK, RunWhileBusy, CallKnown, CallPlaces
  <2>2. UNCHANGED Phase
    BY <1>3 DEF RunBody, Phase, PhaseOf
  <2>3. effects[run[a]][opKey[a]] = 0 /\ PhaseOf(run[a], opKey[a]) = "claimed"
    BY <1>3 DEF RunBody, LedgerInv, ExecutingIsNew, OutcomeInv, CallClaimed, PhaseOf
  <2>4. effects' = effects \/ effects' = [effects EXCEPT ![run[a]][opKey[a]] = 1]
    BY <1>3, <2>1, <2>3 DEF RunBody, OnceMore, TypeInv, TypeOK
  <2>5. CASE effects' = [effects EXCEPT ![run[a]][opKey[a]] = 1]
    <3>1. Once!Perform(run[a], opKey[a])
      BY <2>1, <2>2, <2>3, <2>5 DEF Once!Perform, Phase
    <3>. QED
      BY <2>1, <3>1
  <2>. QED
    BY <2>2, <2>4, <2>5
<1>4. CASE /\ ~GrantClaim(a) /\ ~FinishUpdate(a) /\ ~RunBody(a)
  <2>1. UNCHANGED effects
    BY <1>4 DEF Step, StartAsk, PersistTurn, PromptCheckpoint, OtherTurn, BeginClaim,
       RefuseClaim, BeginUpdate, UpdateMissing, UpdateEscapes, AfterUpdate,
       RecordTool, Checkpoint, Finish, WriteFinished, StopLimited,
       CheckpointStopped, StopWithoutCheckpoint
  <2>2. CASE \A r \in Runs : file'[r] = file[r]
    BY <2>1, <2>2 DEF Phase, PhaseOf
  <2>3. CASE \E r \in Runs : file'[r] # file[r]
    <3>1. PICK r \in Runs : file'[r] # file[r]
      BY <2>3
    <3>2. /\ r = run[a] /\ file[r] = NoLedger
          /\ \A s \in Runs \ {r} : file'[s] = file[s]
      BY <1>4, <3>1, FileChange
    <3>. DEFINE known == [k \in Keys |-> PhaseOf(r, k)']
    <3>3. known \in [Keys -> Once!Phases]
      <4>1. PhasesTyped'
        BY PhaseType, PTL
      <4>. QED
        BY <4>1 DEF PhasesTyped
    <3>4. \A k \in Keys : PhaseOf(r, k) = "free"
      BY <3>2 DEF PhaseOf, HasEntry
    <3>5. ASSUME NEW k \in Keys, known[k] # "free"
          PROVE  \E s \in Runs : Phase[s][k] # "free"
      <4>1. HasEntry(file'[r], k)
        BY <3>5 DEF PhaseOf
      <4>2. file'[r] = mem[a]
        BY <1>4, <3>1, <3>2 DEF Step, StartAsk, PersistTurn, PromptCheckpoint, OtherTurn,
           BeginClaim, RefuseClaim, BeginUpdate, UpdateMissing, UpdateEscapes,
           AfterUpdate, RecordTool, Checkpoint, Finish, WriteFinished, StopLimited,
           CheckpointStopped, StopWithoutCheckpoint, WriteTaskState, TypeInv, TypeOK
      <4>3. PICK s \in Runs : HasEntry(file[s], k)
        BY <4>1, <4>2 DEF OutcomeInv, AdoptedKnown
      <4>4. PhaseOf(s, k) \in EntryStates
        <5>1. file[s] \in Ledgers /\ file[s][k] # NoEntry
          BY <4>3 DEF HasEntry, TypeInv, TypeOK
        <5>2. file[s][k] \in Entries
          BY <5>1 DEF Ledgers
        <5>. QED
          BY <4>3, <5>2 DEF PhaseOf, Entries
      <4>. QED
        BY <4>4 DEF Phase, EntryStates
    <3>6. Phase' = [Phase EXCEPT ![r] = known]
      BY <3>2 DEF Phase, PhaseOf
    <3>7. Once!Adopt(r)
      BY <2>1, <3>3, <3>4, <3>5, <3>6 DEF Once!Adopt, Phase
    <3>. QED
      BY <3>7
  <2>. QED
    BY <2>2, <2>3
<1>. QED
  BY <1>1, <1>2, <1>3, <1>4

(* The ledger in files implements the ledger that performs an operation     *)
(* once: every step claims, performs, settles or adopts, or stutters.       *)
THEOREM Refinement ==
  ASSUME RunIdPolicy # "shared"
  PROVE  Spec => ImplementsOnce
<1>1. TypeInv /\ LedgerInv /\ OutcomeInv /\ TypeInv' /\ [Next]_vars
        => [Once!Next]_(Once!vars)
  <2>. SUFFICES ASSUME TypeInv, LedgerInv, OutcomeInv, TypeInv', [Next]_vars
                PROVE  Once!Next \/ UNCHANGED <<Phase, effects>>
    BY DEF Once!vars, Phase
  <2>1. ASSUME NEW p \in Procs, Crash(p) PROVE UNCHANGED <<Phase, effects>>
    BY <2>1 DEF Crash, Phase, PhaseOf
  <2>2. CASE UNCHANGED vars
    BY <2>2 DEF vars, Phase, PhaseOf
  <2>. QED
    BY <2>1, <2>2, OnceStep DEF Next
<1>. QED
  BY Invariance, OnceInit, <1>1, PTL DEF Spec, ImplementsOnce, Once!Spec

-----------------------------------------------------------------------------

(* Effects are never undone, so what was true of a ledger stays true.       *)
LEMMA TruthKept ==
  ASSUME TypeInv, TypeInv', [Next]_vars, NEW ledger, Truthful(ledger)
  PROVE  \A k \in Keys :
           HasEntry(ledger, k) /\ ledger[k].state = "completed"
             => \E s \in Runs : effects'[s][k] > 0
<1>1. ASSUME NEW r \in Runs, NEW k \in Keys, effects[r][k] > 0
      PROVE  effects'[r][k] > 0
  <2>1. CASE UNCHANGED effects
    BY <1>1, <2>1
  <2>2. ASSUME NEW a \in Agents, RunBody(a)
        PROVE  effects'[r][k] > 0
    BY <1>1, <2>2 DEF RunBody, OnceMore, TypeInv, TypeOK
  <2>. QED
    BY <2>1, <2>2 DEF vars, Next, Step, Crash, StartAsk, PersistTurn, PromptCheckpoint,
       OtherTurn, BeginClaim, GrantClaim, RefuseClaim, BeginUpdate, FinishUpdate,
       UpdateMissing, UpdateEscapes, AfterUpdate, RecordTool, Checkpoint, Finish,
       WriteFinished, StopLimited, CheckpointStopped, StopWithoutCheckpoint
<1>. QED
  BY <1>1 DEF Truthful

(* A ledger without entries says nothing of any operation.                  *)
LEMMA EmptyTruthful == Truthful(EmptyLedger) /\ Truthful(NoLedger)
BY DEF Truthful, HasEntry, EmptyLedger

(* Nothing is completed before the first ask.                               *)
LEMMA TruthInit == Init => TruthInv
BY EmptyTruthful DEF Init, TruthInv

(* The ledgers after a step are ledgers from before it, but for the entry   *)
(* that a claim adds and the one that an update changes.                    *)
LEMMA TruthStep ==
  ASSUME TypeInv, TypeInv', TruthInv, NEW a \in Agents, Step(a)
  PROVE  TruthInv'
<1>. DEFINE True(l) == \A k \in Keys :
              HasEntry(l, k) /\ l[k].state = "completed"
                => \E s \in Runs : effects'[s][k] > 0
<1>0. [Next]_vars
  BY DEF Next
<1>1. /\ \A r \in Runs : True(file[r])
      /\ \A b \in Agents : True(mem[b]) /\ True(checkpoint[b]) /\ True(seen[b])
      /\ True(EmptyLedger) /\ True(NoLedger)
  BY <1>0, TruthKept, EmptyTruthful DEF TruthInv
<1>2. CASE GrantClaim(a)
  <2>1. run[a] \in Runs /\ opKey[a] \in Keys /\ seen[a] \in Ledgers
    BY <1>2 DEF GrantClaim, TypeInv, TypeOK, RunWhileBusy, CallKnown, CallPlaces
  <2>. DEFINE claimed == [seen[a] EXCEPT ![opKey[a]] =
                            [identity |-> opIdentity[a], state |-> "claimed"]]
  <2>2. \A k \in Keys : claimed[k] = IF k = opKey[a]
                          THEN [identity |-> opIdentity[a], state |-> "claimed"]
                          ELSE seen[a][k]
    BY <2>1 DEF Ledgers
  <2>3. True(claimed)
    <3>. HIDE DEF claimed
    <3>. SUFFICES ASSUME NEW k \in Keys, HasEntry(claimed, k), claimed[k].state = "completed"
                  PROVE  \E s \in Runs : effects'[s][k] > 0
      OBVIOUS
    <3>1. k # opKey[a]
      BY <2>2
    <3>2. HasEntry(seen[a], k) /\ seen[a][k].state = "completed"
      BY <2>1, <2>2, <3>1, SentinelAssumption DEF HasEntry
    <3>. QED
      BY <1>1, <3>2
  <2>4. /\ UNCHANGED <<effects, checkpoint>>
        /\ \A r \in Runs : file'[r] \in {file[r], claimed}
        /\ \A b \in Agents : mem'[b] \in {mem[b], claimed}
        /\ \A b \in Agents : seen'[b] \in {seen[b], EmptyLedger}
    BY <1>2 DEF GrantClaim, Unlock, TypeInv, TypeOK
  <2>5. \A b \in Agents : place'[b] \in {"returned", "updating"} =>
          /\ place'[b] = place[b] /\ succeeded'[b] = succeeded[b]
          /\ run'[b] = run[b] /\ opKey'[b] = opKey[b]
    BY <1>2 DEF GrantClaim, TypeInv, TypeOK
  <2>. HIDE DEF claimed
  <2>. QED
    BY <1>1, <2>3, <2>4, <2>5 DEF TruthInv, Truthful
<1>3. CASE FinishUpdate(a)
  <2>1. run[a] \in Runs /\ opKey[a] \in Keys /\ seen[a] \in Ledgers
    BY <1>3 DEF FinishUpdate, TypeInv, TypeOK, RunWhileBusy, CallKnown, CallPlaces
  <2>. DEFINE updated == [seen[a] EXCEPT ![opKey[a]].state = OutcomeState(a)]
  <2>2. /\ \A k \in Keys \ {opKey[a]} : updated[k] = seen[a][k]
        /\ updated[opKey[a]].state = OutcomeState(a)
    BY <1>3, <2>1 DEF FinishUpdate, Ledgers, Entries
  <2>3. OutcomeState(a) = "completed" => effects'[run[a]][opKey[a]] > 0
    BY <1>3 DEF OutcomeState, TruthInv, FinishUpdate
  <2>4. True(updated)
    <3>. HIDE DEF updated
    <3>. SUFFICES ASSUME NEW k \in Keys, HasEntry(updated, k), updated[k].state = "completed"
                  PROVE  \E s \in Runs : effects'[s][k] > 0
      OBVIOUS
    <3>1. CASE k = opKey[a]
      BY <2>1, <2>2, <2>3, <3>1
    <3>2. CASE k # opKey[a]
      <4>1. HasEntry(seen[a], k) /\ seen[a][k].state = "completed"
        BY <2>1, <2>2, <3>2, SentinelAssumption DEF HasEntry
      <4>. QED
        BY <1>1, <4>1
    <3>. QED
      BY <3>1, <3>2
  <2>5. /\ UNCHANGED <<effects, checkpoint>>
        /\ \A r \in Runs : file'[r] \in {file[r], updated}
        /\ \A b \in Agents : mem'[b] \in {mem[b], updated}
        /\ \A b \in Agents : seen'[b] \in {seen[b], EmptyLedger}
    BY <1>3 DEF FinishUpdate, Unlock, TypeInv, TypeOK
  <2>6. \A b \in Agents : place'[b] \in {"returned", "updating"} =>
          /\ place'[b] = place[b] /\ succeeded'[b] = succeeded[b]
          /\ run'[b] = run[b] /\ opKey'[b] = opKey[b]
    BY <1>3 DEF FinishUpdate, TypeInv, TypeOK
  <2>. HIDE DEF updated
  <2>. QED
    BY <1>1, <2>4, <2>5, <2>6 DEF TruthInv, Truthful
<1>4. CASE RunBody(a)
  <2>1. run[a] \in Runs /\ opKey[a] \in Keys
    BY <1>4 DEF RunBody, TypeInv, TypeOK, RunWhileBusy, CallKnown, CallPlaces
  <2>2. succeeded'[a] => effects'[run[a]][opKey[a]] > 0
    BY <1>4, <2>1 DEF RunBody, OnceMore, TypeInv, TypeOK
  <2>3. UNCHANGED <<file, mem, checkpoint, seen, run, opKey>>
        /\ \A b \in Agents \ {a} : place'[b] = place[b] /\ succeeded'[b] = succeeded[b]
    BY <1>4 DEF RunBody, TypeInv, TypeOK
  <2>4. ASSUME NEW b \in Agents \ {a}, place[b] \in {"returned", "updating"}, succeeded[b]
        PROVE  effects'[run[b]][opKey[b]] > 0
    <3>1. run[b] \in Runs /\ opKey[b] \in Keys /\ effects[run[b]][opKey[b]] > 0
      BY <2>4 DEF TruthInv, TypeInv, TypeOK, RunWhileBusy, CallKnown, CallPlaces
    <3>. QED
      BY <1>4, <2>1, <3>1 DEF RunBody, OnceMore, TypeInv, TypeOK
  <2>. QED
    BY <1>1, <2>2, <2>3, <2>4 DEF TruthInv, Truthful
<1>5. ASSUME NEW r \in Runs, StartAsk(a, r) PROVE TruthInv'
  BY <1>1, <1>5 DEF StartAsk, PriorOperations, TruthInv, Truthful, TypeInv, TypeOK
<1>6. CASE BeginUpdate(a) \/ (\E k \in Keys, i \in Identities : BeginClaim(a, k, i))
  <2>1. run[a] \in Runs
    BY <1>6 DEF BeginUpdate, BeginClaim, TypeInv, TypeOK, RunWhileBusy
  <2>2. True(Payload(a))
    BY <1>1, <2>1 DEF Payload
  <2>3. /\ UNCHANGED <<file, mem, checkpoint, effects, run, succeeded>>
        /\ seen' = [seen EXCEPT ![a] = Payload(a)]
        /\ \A b \in Agents \ {a} : place'[b] = place[b] /\ opKey'[b] = opKey[b]
        /\ place'[a] \in {"returned", "updating"} =>
             place[a] = "returned" /\ opKey'[a] = opKey[a]
    BY <1>6 DEF BeginUpdate, BeginClaim, TypeInv, TypeOK
  <2>4. \A b \in Agents : True(seen'[b])
    BY <1>1, <2>2, <2>3 DEF TypeInv, TypeOK
  <2>. QED
    BY <1>1, <2>3, <2>4 DEF TruthInv, Truthful
<1>7. CASE /\ ~GrantClaim(a) /\ ~FinishUpdate(a) /\ ~RunBody(a) /\ ~BeginUpdate(a)
           /\ ~(\E k \in Keys, i \in Identities : BeginClaim(a, k, i))
           /\ ~(\E r \in Runs : StartAsk(a, r))
  <2>1. /\ UNCHANGED effects
        /\ \A b \in Agents \ {a} :
             /\ mem'[b] = mem[b] /\ checkpoint'[b] = checkpoint[b] /\ seen'[b] = seen[b]
             /\ place'[b] = place[b] /\ succeeded'[b] = succeeded[b]
             /\ run'[b] = run[b] /\ opKey'[b] = opKey[b]
        /\ mem'[a] \in {mem[a], seen[a], EmptyLedger}
        /\ checkpoint'[a] \in {checkpoint[a], mem[a]}
        /\ seen'[a] \in {seen[a], EmptyLedger}
        /\ place'[a] \notin {"returned", "updating"}
        /\ \A r \in Runs : file'[r] \in {file[r], mem[a]}
    BY <1>7 DEF Step, PersistTurn, PromptCheckpoint, OtherTurn, RefuseClaim,
       UpdateMissing, UpdateEscapes, AfterUpdate, RecordTool, Checkpoint, Finish,
       WriteFinished, StopLimited, CheckpointStopped, StopWithoutCheckpoint,
       WriteTaskState, EndAsk, Unlock, TypeInv, TypeOK
  <2>. QED
    BY <1>1, <2>1 DEF TruthInv, Truthful
<1>. QED
  BY <1>2, <1>3, <1>4, <1>5, <1>6, <1>7

(* A crash only empties what a process has in memory.                       *)
LEMMA TruthCrash ==
  ASSUME TypeInv, TruthInv, NEW p \in Procs, Crash(p)
  PROVE  TruthInv'
BY EmptyTruthful DEF Crash, TruthInv, Truthful, TypeInv, TypeOK

(* Whoever shares a run, an operation whose entry says "completed" took     *)
(* effect: a call is only refused as done when it was done.                 *)
THEOREM CompletedIsTrue == Spec => []CompletedTookEffect
<1>1. TypeInv /\ TypeInv' /\ TruthInv /\ [Next]_vars => TruthInv'
  <2>. SUFFICES ASSUME TypeInv, TypeInv', TruthInv, [Next]_vars PROVE TruthInv'
    OBVIOUS
  <2>1. CASE Next
    BY <2>1, TruthStep, TruthCrash DEF Next
  <2>2. CASE UNCHANGED vars
    BY <2>2 DEF vars, TruthInv, Truthful
  <2>. QED
    BY <2>1, <2>2
<1>2. TruthInv => CompletedTookEffect
  BY DEF TruthInv, Truthful, CompletedTookEffect
<1>. QED
  BY TypeInit, TypeNext, TruthInit, <1>1, <1>2, PTL DEF Spec

=============================================================================
