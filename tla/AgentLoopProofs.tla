---------------------------- MODULE AgentLoopProofs ----------------------------
(***************************************************************************)
(* Proofs about the loop of ask(), for any configurations: budgets, answers *)
(* and the results that calls are owed. The second part is about the        *)
(* history that the loop builds and the request that the compiler makes of  *)
(* it, for any sizes and limits.                                            *)
(***************************************************************************)
EXTENDS AgentLoop, ContextCompiler, OrderingProofs, TLAPS

Wd == [state : {"normal", "recovery", "confirmed"}, quiet : Nat, start : Nat]

(* What the settings are, for the configuration of this run.                *)
LEMMA Settings ==
  ASSUME config \in Configurations
  PROVE  /\ StepCap \in Nat /\ AttemptCap \in Nat /\ ResearchBudget \in Nat
         /\ StepCap > 0 /\ AttemptCap > 0
         /\ NoProgressLimit \in Nat /\ RecoveryWindow \in Nat
         /\ {Native, ToolChoice, NeedsChange, NeedsEvidence} \subseteq BOOLEAN
         /\ config.patternsSeen \in BOOLEAN /\ config.blocks \in BOOLEAN
         /\ config.texts \subseteq {"final", "unusable"}
         /\ config.batches \subseteq Seq(Calls) \ {<<>>}
         /\ ~Native => \A batch \in config.batches : Len(batch) = 1
BY ConfigurationAssumption
   DEF Caps, Flags, StepCap, AttemptCap, ResearchBudget, NoProgressLimit, RecoveryWindow, Native,
       ToolChoice, NeedsChange, NeedsEvidence

(* What the watchdog makes of an event.                                     *)
Judged(r, w, step, progress, pattern) ==
  /\ r.wd \in Wd
  /\ r.verdict \in {"suspected", "recovered", "confirmed", "none"}
  /\ r.verdict = "suspected" =>
       /\ w.state = "normal" /\ r.wd.state = "recovery" /\ r.wd.start = step
       /\ pattern = TRUE \/ w.quiet + 1 >= NoProgressLimit
  /\ r.verdict = "recovered" =>
       w.state = "recovery" /\ progress = TRUE /\ r.wd.state = "normal"
  /\ r.verdict = "confirmed" =>
       /\ w.state = "recovery" /\ r.wd.state = "confirmed"
       /\ step - w.start >= RecoveryWindow
  /\ r.verdict = "none" =>
       /\ r.wd.state = w.state /\ r.wd.start = w.start /\ r.wd.quiet <= w.quiet + 1
       /\ w.state = "recovery" => step - w.start < RecoveryWindow

LEMMA Watched ==
  ASSUME config \in Configurations, NEW w \in Wd, NEW step \in Nat,
         NEW progress \in BOOLEAN, NEW pattern \in BOOLEAN
  PROVE  Judged(Watch(w, step, progress, pattern), w, step, progress, pattern)
<1>. PICK r : r = Watch(w, step, progress, pattern)
  OBVIOUS
<1>. SUFFICES Judged(r, w, step, progress, pattern)
  OBVIOUS
<1>. USE DEF Judged
<1>. NoProgressLimit \in Nat /\ RecoveryWindow \in Nat
  BY Settings
<1>1. CASE w.state = "normal"
  <2>1. CASE pattern \/ (IF progress THEN 0 ELSE w.quiet + 1) >= NoProgressLimit
    BY <1>1, <2>1 DEF Watch, Wd
  <2>2. CASE ~(pattern \/ (IF progress THEN 0 ELSE w.quiet + 1) >= NoProgressLimit)
    BY <1>1, <2>2 DEF Watch, Wd
  <2>. QED
    BY <2>1, <2>2
<1>2. CASE w.state = "recovery"
  <2>1. CASE progress
    BY <1>2, <2>1 DEF Watch, Wd
  <2>2. CASE ~progress /\ step - w.start >= RecoveryWindow
    BY <1>2, <2>2 DEF Watch, Wd
  <2>3. CASE ~progress /\ ~(step - w.start >= RecoveryWindow)
    BY <1>2, <2>3 DEF Watch, Wd
  <2>. QED
    BY <2>1, <2>2, <2>3
<1>3. CASE w.state = "confirmed"
  BY <1>3 DEF Watch, Wd
<1>4. w.state \in {"normal", "recovery", "confirmed"}
  BY DEF Wd
<1>. QED
  BY <1>1, <1>2, <1>3, <1>4

-----------------------------------------------------------------------------

(* The results that are owed, when none was forgotten: those of the queued  *)
(* calls, and the one of the call at hand, once its batch was kept.         *)
Open ==
  CASE place = "answered" -> IF queued THEN Len(queue) + 1 ELSE 0
    [] place \in {"accepted", "ran"} -> Len(queue) + 1
    [] OTHER -> Len(queue)

PlaceInv ==
  /\ config \in Configurations
  /\ place \in {"top", "asking", "answered", "accepted", "ran", "final", "unusable", "stopped"}
  /\ outcome \in Outcomes \cup {"none"}
  /\ place = "stopped" <=> outcome # "none"
  /\ attempts \in 0..AttemptCap /\ toolSteps \in 0..StepCap
  /\ place \in {"asking", "answered", "accepted"} => toolSteps < StepCap

(* A call with a result is one that is owed it; only native clients queue.  *)
CallInv ==
  /\ call \in Calls \cup {NoCall} /\ queued \in BOOLEAN /\ queue \in Seq(Calls)
  /\ place \in {"answered", "accepted", "ran"} => call \in Calls
  /\ place \in {"final", "unusable"} => queue = <<>>
  /\ owed \in Nat /\ torn \in BOOLEAN
  /\ place # "stopped" =>
       IF Native THEN owed >= Open ELSE owed = 0 /\ queue = <<>> /\ ~queued

(* Research goes on after its budget is spent only from a suspicion that    *)
(* came with its last call until the next result.                           *)
ResearchInv ==
  /\ research \in Nat /\ finalizing \in BOOLEAN /\ refusals \in 0..2
  /\ place # "stopped" => refusals < 2
  /\ place = "ran" => ~Refused(call)
  /\ ResearchBudget = 0 => ~finalizing
  /\ ResearchBudget > 0 =>
       /\ research <= ResearchBudget + 1
       /\ place # "stopped" /\ ~finalizing =>
            \/ research < ResearchBudget
            \/ research = ResearchBudget /\ wd.state = "recovery"

PlanInv ==
  /\ sources \in 0..2
  /\ {changed, unverified, expected, dirty} \subseteq BOOLEAN
  /\ marked \subseteq EvidenceTools

WatchInv ==
  /\ wd \in Wd /\ since \in Nat
  /\ wd.state = "confirmed" => place = "stopped"

LoopInv == PlaceInv /\ CallInv /\ ResearchInv /\ PlanInv /\ WatchInv

LEMMA LoopInitInv == Init => LoopInv
<1>. SUFFICES ASSUME Init PROVE LoopInv
  OBVIOUS
<1>1. config \in Configurations
  BY DEF Init
<1>2. PlaceInv
  BY <1>1, Settings DEF Init, PlaceInv
<1>3. CallInv
  <2>1. /\ queue = <<>> /\ place = "top" /\ owed = 0 /\ queued = FALSE /\ call = NoCall
        /\ torn = FALSE
    BY DEF Init
  <2>2. Open = 0
    BY <2>1 DEF Open
  <2>. HIDE DEF Init
  <2>. QED
    <3>1. call \in Calls \cup {NoCall} /\ queued \in BOOLEAN /\ queue \in Seq(Calls)
      <4>1. <<>> \in Seq(Calls)
        OBVIOUS
      <4>. QED
        BY <2>1, <4>1
    <3>2. owed \in Nat /\ torn \in BOOLEAN
      BY <2>1
    <3>3. IF Native THEN owed >= Open ELSE owed = 0 /\ queue = <<>> /\ ~queued
      BY <2>1, <2>2
    <3>. QED
      BY <2>1, <3>1, <3>2, <3>3 DEF CallInv
<1>4. ResearchInv
  <2>1. /\ research = 0 /\ ~finalizing /\ finalizing \in BOOLEAN /\ refusals = 0
        /\ place = "top" /\ ResearchBudget \in Nat
    BY <1>1, Settings DEF Init
  <2>. QED
    BY <2>1 DEF ResearchInv
<1>5. PlanInv
  <2>1. /\ changed = FALSE /\ unverified = FALSE /\ expected = FALSE /\ dirty = FALSE
        /\ marked = {} /\ sources = 0
    BY DEF Init
  <2>. HIDE DEF Init
  <2>. QED
    <3>1. sources \in 0..2
      BY <2>1
    <3>2. {changed, unverified, expected, dirty} \subseteq BOOLEAN /\ marked \subseteq EvidenceTools
      BY <2>1
    <3>. QED
      BY <3>1, <3>2 DEF PlanInv
<1>6. WatchInv
  BY DEF Init, WatchInv, Wd
<1>. QED
  BY <1>2, <1>3, <1>4, <1>5, <1>6 DEF LoopInv

(* What a result or a repeated request makes of the watchdog and its clock. *)
LEMMA Observed ==
  ASSUME LoopInv, place # "stopped", UNCHANGED config,
         NEW step \in Nat, NEW progress \in BOOLEAN, NEW pattern \in BOOLEAN,
         Observe(Watch(wd, step, progress, pattern)),
         Watch(wd, step, progress, pattern).verdict = "confirmed" => place' = "stopped"
  PROVE  WatchInv'
<1>1. wd \in Wd /\ wd.state # "confirmed" /\ config \in Configurations /\ since \in Nat
  BY DEF LoopInv, WatchInv, PlaceInv
<1>0. PICK r : r = Watch(wd, step, progress, pattern)
  OBVIOUS
<1>2. wd' = r.wd /\ since' \in Nat
  BY <1>0, <1>1 DEF Observe
<1>3. r.wd \in Wd /\ (r.wd.state = "confirmed" => r.verdict = "confirmed")
  <2>1. PICK w : w = wd
    OBVIOUS
  <2>2. w \in Wd /\ w.state # "confirmed" /\ config \in Configurations
    BY <1>1, <2>1
  <2>3. r = Watch(w, step, progress, pattern)
    BY <1>0, <2>1
  <2>4. Judged(r, w, step, progress, pattern)
    BY <2>2, <2>3, Watched
  <2>. QED
    BY <2>2, <2>4 DEF Judged
<1>4. wd' \in Wd /\ (wd'.state = "confirmed" => r.verdict = "confirmed")
  BY <1>0, <1>1, <1>2, <1>3
<1>. QED
  BY <1>0, <1>2, <1>4 DEF WatchInv

(* The call at hand is done with.                                           *)
LEMMA CallFrom ==
  ASSUME CallInv, Native' = Native, place # "stopped", place' \in {"top", "stopped"},
         call' = NoCall, queued' = FALSE, UNCHANGED <<queue, torn>>,
         owed' \in Nat, IF Native THEN owed' >= Open' ELSE owed' = owed
  PROVE  CallInv'
<1>1. call' \in Calls \cup {NoCall} /\ queued' \in BOOLEAN /\ queue' \in Seq(Calls)
  BY DEF CallInv
<1>2. torn' \in BOOLEAN
  BY DEF CallInv
<1>3. IF Native THEN owed' >= Open' ELSE owed' = 0 /\ queue' = <<>> /\ ~queued'
  BY DEF CallInv
<1>. QED
  BY <1>1, <1>2, <1>3 DEF CallInv

(* A rejected call is answered, when its batch was kept, or never owed one. *)
LEMMA RejectKept ==
  ASSUME CallInv, Native' = Native, Native \in BOOLEAN, place = "answered", Reject
  PROVE  CallInv'
<1>1. Len(<<>>) = 0 /\ <<>> \in Seq(Calls) /\ Len(queue) \in Nat
  BY DEF CallInv
<1>2. CASE queued
  <2>1. owed' = owed - 1 /\ queue' = queue /\ torn' = torn
    BY <1>2 DEF Reject
  <2>2. Native /\ owed >= Len(queue) + 1 /\ owed \in Nat
    BY <1>2 DEF CallInv, Open
  <2>3. place' = "top" /\ Open' = Len(queue)
    BY <2>1 DEF Reject, Open
  <2>4. call' = NoCall /\ queued' = FALSE
    BY DEF Reject
  <2>5. owed' \in Nat /\ owed' >= Open'
    BY <1>1, <2>1, <2>2, <2>3
  <2>. QED
    BY <2>1, <2>2, <2>3, <2>4, <2>5, CallFrom
<1>3. CASE ~queued
  BY <1>1, <1>3 DEF Reject, CallInv, Open, UserMessage
<1>. QED
  BY <1>2, <1>3

(* A step of the loop that handles no result.                               *)
LEMMA StepKept ==
  ASSUME LoopInv, UNCHANGED config,
         \/ StopAtLimit \/ BeginTurn \/ AnswerCalls \/ NextQueued \/ AnswerText \/ ModelFails
         \/ RetryText \/ RejectDecision \/ AcceptCall \/ RefuseResearch \/ RunTool
         \/ RefuseAnswer \/ Finish \/ Cancel
  PROVE  LoopInv'
<1>0. config \in Configurations
  BY DEF LoopInv, PlaceInv
<1>s. /\ StepCap \in Nat /\ AttemptCap \in Nat /\ ResearchBudget \in Nat
      /\ StepCap' = StepCap /\ AttemptCap' = AttemptCap /\ ResearchBudget' = ResearchBudget
      /\ Native' = Native /\ Native \in BOOLEAN
  BY <1>0, Settings DEF StepCap, AttemptCap, ResearchBudget, Native
<1>1. PlaceInv'
  <2>. USE <1>s DEF LoopInv, PlaceInv, Stop, Outcomes, budgetVars
  <2>1. CASE StopAtLimit
    BY <2>1 DEF StopAtLimit, StopLimited
  <2>2. CASE BeginTurn
    BY <2>2 DEF BeginTurn, LimitReached
  <2>3. CASE AnswerCalls
    BY <2>3 DEF AnswerCalls
  <2>4. CASE NextQueued
    BY <2>4 DEF NextQueued
  <2>5. CASE AnswerText
    BY <2>5, <1>0, Settings DEF AnswerText
  <2>6. CASE ModelFails
    BY <2>6 DEF ModelFails
  <2>7. CASE RetryText
    BY <2>7 DEF RetryText
  <2>8. CASE RejectDecision
    BY <2>8 DEF RejectDecision, Reject
  <2>9. CASE AcceptCall
    BY <2>9 DEF AcceptCall
  <2>10. CASE RefuseResearch
    BY <2>10 DEF RefuseResearch
  <2>11. CASE RunTool
    BY <2>11 DEF RunTool
  <2>12. CASE RefuseAnswer
    BY <2>12 DEF RefuseAnswer
  <2>13. CASE Finish
    BY <2>13 DEF Finish
  <2>14. CASE Cancel
    BY <2>14 DEF Cancel
  <2>. QED
    BY <2>1, <2>2, <2>3, <2>4, <2>5, <2>6, <2>7, <2>8, <2>9, <2>10, <2>11, <2>12, <2>13, <2>14
<1>2. CallInv'
  <2>. USE <1>s DEF LoopInv, CallInv, Stop, UserMessage, Open, callVars, messageVars
  <2>1. CASE StopAtLimit
    BY <2>1 DEF StopAtLimit, StopLimited
  <2>2. CASE BeginTurn
    BY <2>2 DEF BeginTurn
  <2>3. CASE AnswerCalls
    <3>1. PICK batch \in config.batches : call' = Head(batch) /\ queue' = Tail(batch)
      BY <2>3 DEF AnswerCalls
    <3>2. batch \in Seq(Calls) /\ batch # <<>> /\ (~Native => Len(batch) = 1)
      BY <1>0, Settings
    <3>3. call' \in Calls /\ queue' \in Seq(Calls) /\ (~Native => queue' = <<>>)
      BY <3>1, <3>2
    <3>. QED
      BY <2>3, <3>3 DEF AnswerCalls
  <2>4. CASE NextQueued
    <3>1. call' \in Calls /\ queue' \in Seq(Calls) /\ Len(queue') + 1 = Len(queue) /\ Native
      BY <2>4 DEF NextQueued
    <3>. QED
      BY <2>4, <3>1 DEF NextQueued
  <2>5. CASE AnswerText
    BY <2>5, <1>0, Settings DEF AnswerText
  <2>6. CASE ModelFails
    BY <2>6 DEF ModelFails
  <2>7. CASE RetryText
    BY <2>7 DEF RetryText
  <2>8. CASE RejectDecision
    <3>1. place = "answered" /\ Reject
      BY <2>8 DEF RejectDecision
    <3>2. CallInv
      OBVIOUS
    <3>. HIDE DEF CallInv, Open, LoopInv
    <3>. QED
      BY <1>s, <3>1, <3>2, RejectKept
  <2>9. CASE AcceptCall
    <3>1. Len(queue) \in Nat
      OBVIOUS
    <3>. QED
      BY <2>9, <3>1 DEF AcceptCall
  <2>10. CASE RefuseResearch
    <3>1. Len(queue) \in Nat
      OBVIOUS
    <3>2. Native => owed >= Len(queue) + 1
      BY <2>10, <3>1 DEF RefuseResearch
    <3>3. /\ place' \in {"top", "stopped"} /\ call' = NoCall /\ queued' = FALSE
          /\ UNCHANGED <<queue, owed, torn>> /\ place = "accepted"
      BY <2>10 DEF RefuseResearch
    <3>4. Open' = Len(queue) /\ CallInv /\ owed' \in Nat /\ place # "stopped"
      BY <3>3
    <3>5. IF Native THEN owed' >= Open' ELSE owed' = owed
      BY <3>1, <3>2, <3>3, <3>4
    <3>. HIDE DEF CallInv, Open, LoopInv
    <3>. QED
      BY <1>s, <3>3, <3>4, <3>5, CallFrom
  <2>11. CASE RunTool
    BY <2>11 DEF RunTool
  <2>12. CASE RefuseAnswer
    BY <2>12 DEF RefuseAnswer
  <2>13. CASE Finish
    BY <2>13 DEF Finish
  <2>14. CASE Cancel
    BY <2>14 DEF Cancel
  <2>. QED
    BY <2>1, <2>2, <2>3, <2>4, <2>5, <2>6, <2>7, <2>8, <2>9, <2>10, <2>11, <2>12, <2>13, <2>14
<1>3. ResearchInv'
  <2>. USE <1>s DEF LoopInv, ResearchInv, Stop, researchVars, watchVars, Refused
  <2>1. CASE StopAtLimit
    BY <2>1 DEF StopAtLimit, StopLimited
  <2>2. CASE BeginTurn
    BY <2>2 DEF BeginTurn
  <2>3. CASE AnswerCalls
    BY <2>3 DEF AnswerCalls
  <2>4. CASE NextQueued
    BY <2>4 DEF NextQueued
  <2>5. CASE AnswerText
    BY <2>5, <1>0, Settings DEF AnswerText
  <2>6. CASE ModelFails
    BY <2>6 DEF ModelFails
  <2>7. CASE RetryText
    BY <2>7 DEF RetryText
  <2>8. CASE RejectDecision
    BY <2>8 DEF RejectDecision, Reject
  <2>9. CASE AcceptCall
    BY <2>9 DEF AcceptCall
  <2>10. CASE RefuseResearch
    BY <2>10 DEF RefuseResearch
  <2>11. CASE RunTool
    BY <2>11 DEF RunTool, callVars
  <2>12. CASE RefuseAnswer
    BY <2>12 DEF RefuseAnswer
  <2>13. CASE Finish
    BY <2>13 DEF Finish
  <2>14. CASE Cancel
    BY <2>14 DEF Cancel
  <2>. QED
    BY <2>1, <2>2, <2>3, <2>4, <2>5, <2>6, <2>7, <2>8, <2>9, <2>10, <2>11, <2>12, <2>13, <2>14
<1>4. PlanInv' /\ WatchInv'
  <2>1. UNCHANGED <<sources, planVars, watchVars>> /\ (place = "stopped" => place' = "stopped")
    BY DEF StopAtLimit, StopLimited, BeginTurn, AnswerCalls, NextQueued, AnswerText, ModelFails, RetryText,
           RejectDecision, AcceptCall, RefuseResearch, RunTool, RefuseAnswer, Finish, Cancel
  <2>. QED
    BY <2>1 DEF LoopInv, PlanInv, WatchInv, planVars, watchVars
<1>. QED
  BY <1>1, <1>2, <1>3, <1>4 DEF LoopInv

LEMMA RepeatedKept ==
  ASSUME LoopInv, UNCHANGED config, RejectRepeatedEvidence
  PROVE  LoopInv'
<1>0. config \in Configurations /\ wd \in Wd /\ attempts \in Nat
  BY Settings DEF LoopInv, PlaceInv, WatchInv
<1>s. /\ StepCap \in Nat /\ AttemptCap \in Nat /\ ResearchBudget \in Nat
      /\ StepCap' = StepCap /\ AttemptCap' = AttemptCap /\ ResearchBudget' = ResearchBudget
      /\ Native' = Native /\ Native \in BOOLEAN
  BY <1>0, Settings DEF StepCap, AttemptCap, ResearchBudget, Native
<1>1. PICK pattern \in BOOLEAN : RejectWatched(Watch(wd, attempts, FALSE, pattern))
  BY <1>0, Settings DEF RejectRepeatedEvidence
<1>2. PICK w : w = Watch(wd, attempts, FALSE, pattern)
  OBVIOUS
<1>3. RejectWatched(w)
  BY <1>1, <1>2
<1>4. wd.state = "recovery" => w.wd.state = "recovery" \/ w.verdict = "confirmed"
  <2>1. PICK progress \in BOOLEAN : progress = FALSE
    OBVIOUS
  <2>2. w = Watch(wd, attempts, progress, pattern)
    BY <1>2, <2>1
  <2>3. Judged(w, wd, attempts, progress, pattern)
    BY <1>0, <2>2, Watched
  <2>. QED
    BY <2>1, <2>3 DEF Judged
<1>5. place = "answered" /\ UNCHANGED <<budgetVars, researchVars, sources, planVars>>
  BY DEF RejectRepeatedEvidence
<1>6. /\ place' \in {"top", "stopped"} /\ (place' = "stopped" <=> outcome' # "none")
      /\ outcome' \in Outcomes \cup {"none"}
      /\ w.verdict = "confirmed" => place' = "stopped"
      /\ wd' = w.wd
  BY <1>3, <1>5 DEF RejectWatched, Reject, Stop, Outcomes, LoopInv, PlaceInv, Observe
<1>7. PlaceInv'
  BY <1>s, <1>5, <1>6 DEF LoopInv, PlaceInv, budgetVars
<1>8. WatchInv'
  <2>1. Observe(Watch(wd, attempts, FALSE, pattern))
    BY <1>1 DEF RejectWatched
  <2>. QED
    BY <1>0, <1>2, <1>5, <1>6, <2>1, Observed
<1>9. CallInv'
  <2>0. CallInv /\ Len(<<>>) = 0 /\ <<>> \in Seq(Calls)
    BY DEF LoopInv
  <2>1. CASE w.verdict = "suspected"
    <3>1. /\ place' = "top" /\ call' = NoCall /\ queued' = FALSE /\ owed' = owed
          /\ queue' = IF queued THEN queue ELSE <<>>
          /\ torn' = (torn \/ (Native /\ owed > 0))
      BY <1>3, <2>1 DEF RejectWatched, UserMessage
    <3>2. Len(queue) \in Nat
      BY <2>0 DEF CallInv
    <3>3. torn' \in BOOLEAN /\ owed' \in Nat /\ queue' \in Seq(Calls)
      BY <2>0, <3>1 DEF CallInv
    <3>4. Open' = Len(queue')
      BY <3>1 DEF Open
    <3>5. IF Native THEN owed' >= Open' ELSE owed' = 0 /\ queue' = <<>> /\ ~queued'
      <4>1. CASE queued
        BY <1>5, <2>0, <3>1, <3>2, <3>4, <4>1 DEF CallInv, Open
      <4>2. CASE ~queued
        BY <1>5, <2>0, <3>1, <3>2, <3>4, <4>2 DEF CallInv, Open
      <4>. QED
        BY <4>1, <4>2
    <3>. QED
      BY <1>s, <3>1, <3>3, <3>5 DEF CallInv
  <2>2. CASE w.verdict = "confirmed"
    BY <1>3, <2>0, <2>2 DEF RejectWatched, CallInv, Stop, callVars, messageVars
  <2>3. CASE w.verdict \notin {"suspected", "confirmed"}
    <3>1. Reject
      BY <1>3, <2>3 DEF RejectWatched
    <3>. QED
      BY <1>s, <1>5, <2>0, <3>1, RejectKept
  <2>. QED
    BY <2>1, <2>2, <2>3
<1>10. ResearchInv'
  <2>1. UNCHANGED <<research, finalizing, refusals>> /\ ResearchInv /\ place # "stopped"
    BY <1>5 DEF LoopInv, researchVars
  <2>2. place' # "stopped" /\ wd.state = "recovery" => wd'.state = "recovery"
    BY <1>4, <1>6
  <2>3. place' # "ran"
    BY <1>6
  <2>. QED
    BY <1>s, <2>1, <2>2, <2>3 DEF ResearchInv
<1>11. PlanInv'
  BY <1>5 DEF LoopInv, PlanInv, planVars
<1>. QED
  BY <1>7, <1>8, <1>9, <1>10, <1>11 DEF LoopInv

LEMMA ResultKept ==
  ASSUME LoopInv, UNCHANGED config, FinishTool
  PROVE  LoopInv'
<1>0. config \in Configurations /\ wd \in Wd /\ toolSteps \in Nat /\ place = "ran"
  BY Settings DEF LoopInv, PlaceInv, WatchInv, FinishTool
<1>s. /\ StepCap \in Nat /\ AttemptCap \in Nat /\ ResearchBudget \in Nat
      /\ StepCap' = StepCap /\ AttemptCap' = AttemptCap /\ ResearchBudget' = ResearchBudget
      /\ Native' = Native /\ Native \in BOOLEAN
  BY <1>0, Settings DEF StepCap, AttemptCap, ResearchBudget, Native
<1>1. PICK r \in Results : RecordResult(r, Watch(wd, toolSteps, r.progress, r.pattern))
  BY DEF FinishTool
<1>r. r.progress \in BOOLEAN /\ r.pattern \in BOOLEAN /\ r.change \in BOOLEAN
  BY <1>0, Settings DEF Results
<1>2. PICK w : w = Watch(wd, toolSteps, r.progress, r.pattern)
  OBVIOUS
<1>3. RecordResult(r, w)
  BY <1>1, <1>2
<1>4. /\ w.verdict = "suspected" => wd.state = "normal" /\ w.wd.state = "recovery"
      /\ w.verdict \in {"suspected", "recovered", "confirmed", "none"}
  <2>1. Judged(w, wd, toolSteps, r.progress, r.pattern)
    BY <1>0, <1>2, <1>r, Watched
  <2>. QED
    BY <2>1 DEF Judged
<1>5. call' = NoCall /\ queued' = FALSE /\ UNCHANGED <<budgetVars, queue, refusals>>
  BY DEF FinishTool
<1>6. /\ place' \in {"top", "stopped"} /\ (place' = "stopped" <=> outcome' # "none")
      /\ outcome' \in Outcomes \cup {"none"}
      /\ w.verdict = "confirmed" => place' = "stopped"
      /\ wd' = w.wd
  BY <1>0, <1>3 DEF RecordResult, Stop, Outcomes, LoopInv, PlaceInv, Observe
<1>7. PlaceInv'
  BY <1>s, <1>5, <1>6 DEF LoopInv, PlaceInv, budgetVars
<1>8. WatchInv'
  <2>1. Observe(Watch(wd, toolSteps, r.progress, r.pattern))
    BY <1>1 DEF RecordResult
  <2>. QED
    BY <1>0, <1>2, <1>6, <1>r, <2>1, Observed
<1>9. CallInv'
  <2>1. /\ owed' = IF Native THEN owed - 1 ELSE 0
        /\ torn' \in BOOLEAN
    BY <1>3 DEF RecordResult, LoopInv, CallInv
  <2>2. Len(queue) \in Nat
    BY DEF LoopInv, CallInv
  <2>3. Open' = Len(queue) /\ Open = Len(queue) + 1
    BY <1>0, <1>5, <1>6 DEF Open
  <2>4. CallInv /\ (IF Native THEN owed >= Open ELSE owed = 0 /\ queue = <<>>) /\ owed \in Nat
    BY <1>0 DEF LoopInv, CallInv
  <2>5. owed' \in Nat /\ (IF Native THEN owed' >= Open' ELSE owed' = 0 /\ queue' = <<>>)
    BY <1>s, <1>5, <2>1, <2>2, <2>3, <2>4
  <2>. QED
    BY <1>s, <1>5, <1>6, <2>1, <2>4, <2>5 DEF CallInv
<1>10. ResearchInv'
  <2>1. research' = IF ResearchBudget > 0 /\ call.tool \in ResearchTools
                    THEN research + 1 ELSE research
    BY <1>3 DEF RecordResult
  <2>2. call.tool \in ResearchTools => ~finalizing
    BY <1>0 DEF LoopInv, ResearchInv, Refused
  <2>3. /\ w.verdict \in {"confirmed", "suspected"} => finalizing' = finalizing
        /\ w.verdict \in {"recovered", "none"} =>
             finalizing' = (finalizing \/ (ResearchBudget > 0 /\ research' >= ResearchBudget))
    BY <1>3 DEF RecordResult
  <2>4. /\ research' \in Nat /\ finalizing' \in BOOLEAN /\ refusals' = refusals
        /\ refusals \in 0..2 /\ refusals < 2 /\ place' # "ran"
    <3>1. research' \in Nat
      BY <2>1 DEF LoopInv, ResearchInv
    <3>2. finalizing' \in BOOLEAN
      BY <1>4, <2>3 DEF LoopInv, ResearchInv
    <3>3. refusals' = refusals /\ refusals \in 0..2 /\ refusals < 2 /\ place' # "ran"
      BY <1>0, <1>5, <1>6 DEF LoopInv, ResearchInv
    <3>. QED
      BY <3>1, <3>2, <3>3
  <2>5. ResearchBudget = 0 => ~finalizing'
    BY <1>4, <2>3 DEF LoopInv, ResearchInv
  <2>6. ResearchBudget > 0 => research' <= ResearchBudget + 1
    BY <1>0, <1>s, <2>1, <2>2 DEF LoopInv, ResearchInv
  <2>7. ResearchBudget > 0 /\ place' # "stopped" /\ ~finalizing' =>
          research' < ResearchBudget \/ (research' = ResearchBudget /\ wd'.state = "recovery")
    <3>1. CASE w.verdict = "suspected"
      BY <1>0, <1>s, <1>4, <1>6, <2>1, <2>2, <2>3, <3>1 DEF LoopInv, ResearchInv
    <3>2. CASE w.verdict = "confirmed"
      BY <1>6, <3>2
    <3>3. CASE w.verdict \in {"recovered", "none"}
      BY <1>s, <2>3, <2>4, <3>3
    <3>. QED
      BY <1>4, <3>1, <3>2, <3>3
  <2>. QED
    BY <1>s, <2>4, <2>5, <2>6, <2>7 DEF ResearchInv
<1>11. PlanInv'
  <2>1. sources' \in 0..2
    BY <1>3 DEF RecordResult, SourceRead, AtMost2, LoopInv, PlanInv
  <2>2. changed' \in BOOLEAN /\ unverified' \in BOOLEAN /\ expected' \in BOOLEAN
    BY <1>3, <1>r DEF RecordResult, Planning, Readiness, LoopInv, PlanInv
  <2>3. dirty' \in BOOLEAN
    BY <1>3, <1>r DEF RecordResult, LoopInv, PlanInv
  <2>4. marked' \subseteq EvidenceTools
    BY <1>3 DEF RecordResult, MarkEvidence, AsksEvidence, LoopInv, PlanInv
  <2>. QED
    BY <2>1, <2>2, <2>3, <2>4 DEF PlanInv
<1>. QED
  BY <1>7, <1>8, <1>9, <1>10, <1>11 DEF LoopInv

LEMMA LoopStepInv == LoopInv /\ [Next]_vars => LoopInv'
<1>. SUFFICES ASSUME LoopInv, [Next]_vars PROVE LoopInv'
  OBVIOUS
<1>1. CASE UNCHANGED vars
  BY <1>1 DEF vars, budgetVars, callVars, messageVars, researchVars, planVars, watchVars, LoopInv,
              PlaceInv, CallInv, ResearchInv, PlanInv, WatchInv, Open, AttemptCap, StepCap, Native,
              ResearchBudget, Refused
<1>2. CASE Next
  BY <1>2, StepKept, RepeatedKept, ResultKept DEF Next, Loop
<1>. QED
  BY <1>1, <1>2

LEMMA LoopAlways == Spec => []LoopInv
<1>1. Init => LoopInv
  BY LoopInitInv
<1>2. LoopInv /\ [Next]_vars => LoopInv'
  BY LoopStepInv
<1>. QED
  BY <1>1, <1>2, PTL DEF Spec

(* The loop keeps to its budgets for any configuration: attempts and tool   *)
(* steps within their caps, at most two refused research calls, and the     *)
(* research budget overrun by at most one call.                             *)
THEOREM TypesHold == Spec => []TypeOK
<1>1. LoopInv => TypeOK
  BY Settings DEF LoopInv, PlaceInv, CallInv, ResearchInv, PlanInv, WatchInv, Wd, TypeOK,
                  ResearchBounded
<1>. QED
  BY <1>1, LoopAlways, PTL

-----------------------------------------------------------------------------

(* An edit that no command followed is known to be unverified, unless a     *)
(* command may be blocked: a blocked one verifies, too.                     *)
AnswerInv ==
  /\ Native /\ NeedsChange /\ ~config.blocks => (dirty => unverified)
  /\ outcome = "completed" =>
       /\ NeedsEvidence => sources > 0
       /\ Native /\ NeedsChange => ~unverified

LEMMA AnswerStep ==
  ASSUME LoopInv, AnswerInv, Next
  PROVE  AnswerInv'
<1>1. /\ UNCHANGED config /\ Native' = Native /\ NeedsChange' = NeedsChange
      /\ NeedsEvidence' = NeedsEvidence
  BY DEF Next, Native, NeedsChange, NeedsEvidence
<1>. USE DEF AnswerInv, Stop
<1>2. CASE FinishTool
  <2>1. PICK r \in Results : RecordResult(r, Watch(wd, toolSteps, r.progress, r.pattern))
    BY <1>2 DEF FinishTool
  <2>2. PICK w : w = Watch(wd, toolSteps, r.progress, r.pattern)
    OBVIOUS
  <2>3. RecordResult(r, w) /\ place = "ran" /\ outcome = "none"
    BY <1>2, <2>1, <2>2 DEF FinishTool, LoopInv, PlaceInv
  <2>4. outcome' # "completed"
    BY <2>3 DEF RecordResult
  <2>5. ASSUME Native, NeedsChange, ~config.blocks, dirty' PROVE unverified'
    <3>1. r.status = "blocked" => config.blocks
      BY DEF Results
    <3>2. dirty => unverified
      BY <2>5
    <3>3. unverified' = ((unverified \/ (call.tool = "edit" /\ r.change)) /\ ~Verifies(r.status))
      BY <2>3 DEF RecordResult, Planning
    <3>4. dirty' = CASE call.tool = "edit" /\ r.change -> TRUE
                     [] call.tool = "shell" /\ r.status \notin Refusals -> FALSE
                     [] OTHER -> dirty
      BY <2>3 DEF RecordResult
    <3>. QED
      BY <2>5, <3>1, <3>2, <3>3, <3>4 DEF Verifies, Refusals
  <2>. QED
    BY <1>1, <2>4, <2>5
<1>3. CASE Finish
  BY <1>1, <1>3 DEF Finish, Unfounded, Unchecked, planVars, LoopInv, PlaceInv, PlanInv
<1>4. CASE ~FinishTool /\ ~Finish
  <2>1. UNCHANGED <<sources, planVars>>
    BY <1>4 DEF Next, Loop, StopAtLimit, StopLimited, BeginTurn, AnswerCalls, NextQueued, AnswerText, ModelFails,
           RetryText, RejectDecision, RejectRepeatedEvidence, AcceptCall, RefuseResearch, RunTool,
           RefuseAnswer, Cancel
  <2>2. outcome' = "completed" => outcome = "completed"
    BY <1>4 DEF Next, Loop, StopAtLimit, StopLimited, BeginTurn, AnswerCalls, NextQueued, AnswerText, ModelFails,
           RetryText, RejectDecision, RejectRepeatedEvidence, RejectWatched, Reject, AcceptCall,
           RefuseResearch, RunTool, RefuseAnswer, Cancel
  <2>. QED
    BY <1>1, <2>1, <2>2 DEF planVars
<1>. QED
  BY <1>2, <1>3, <1>4

(* A completed run has the evidence it needs and, when no command can be    *)
(* blocked, a command ran after its last edit.                              *)
THEOREM AnswersGrounded ==
  Spec => [](/\ outcome = "completed" /\ NeedsEvidence => sources > 0
             /\ (Native /\ NeedsChange => ~config.blocks) => GroundedAnswer)
<1>1. Init => AnswerInv
  BY DEF Init, AnswerInv
<1>2. LoopInv /\ AnswerInv /\ [Next]_vars => AnswerInv'
  <2>1. CASE UNCHANGED vars
    BY <2>1 DEF vars, planVars, AnswerInv, Native, NeedsChange, NeedsEvidence
  <2>. QED
    BY <2>1, AnswerStep
<1>3. AnswerInv => /\ outcome = "completed" /\ NeedsEvidence => sources > 0
                   /\ (Native /\ NeedsChange => ~config.blocks) => GroundedAnswer
  BY DEF AnswerInv, GroundedAnswer
<1>. QED
  BY <1>1, <1>2, <1>3, LoopAlways, PTL DEF Spec

-----------------------------------------------------------------------------

(* The watchdog has nothing to suspect before the attempts are used up.     *)
Unsuspecting(c) == ~c.patternsSeen /\ c.noProgressLimit > c.attemptCap

(* No call is a decision: repeated evidence is not asked for.               *)
Undeciding(c) ==
  /\ c.toolChoice \/ ~(c.native /\ c.needsChange)
  /\ \A batch \in c.batches : \A i \in 1..Len(batch) : batch[i].form = "direct"

(* The watchdog is told of events by one clock, the tool steps.             *)
OneClock(c) == Unsuspecting(c) \/ (Undeciding(c) /\ c.recoveryWindow > 0)

InTurn == place \in {"asking", "answered", "accepted", "ran"}

(* At most one event per attempt.                                           *)
QuietInv ==
  Unsuspecting(config) =>
    /\ wd.state = "normal" /\ since = 0
    /\ wd.quiet <= attempts /\ (InTurn => wd.quiet < attempts)

DirectInv ==
  Undeciding(config) =>
    /\ call.form \in {"direct", "none"}
    /\ \A i \in 1..Len(queue) : queue[i].form = "direct"

(* The clock of a recovery counts the tool steps since it began.            *)
ClockInv ==
  Undeciding(config) /\ RecoveryWindow > 0 =>
    /\ wd.state = "normal" => since = 0
    /\ wd.state = "recovery" =>
         /\ since < RecoveryWindow
         /\ place = "ran" => since = toolSteps - wd.start - 1
         /\ place \notin {"ran", "stopped"} => since = toolSteps - wd.start
    /\ wd.state = "confirmed" => since = RecoveryWindow

StuckInv == outcome = "stuck" => wd.state = "confirmed"

TimeInv == QuietInv /\ DirectInv /\ ClockInv /\ StuckInv

LEMMA TimeInitInv == Init => TimeInv
<1>. SUFFICES ASSUME Init PROVE TimeInv
  OBVIOUS
<1>1. /\ wd.state = "normal" /\ wd.quiet = 0 /\ since = 0 /\ attempts = 0 /\ queue = <<>>
      /\ call.form = "none" /\ place = "top" /\ outcome = "none"
  BY DEF Init, NoCall
<1>2. Len(queue) = 0
  BY <1>1
<1>. HIDE DEF Init
<1>. QED
  BY <1>1, <1>2 DEF TimeInv, QuietInv, DirectInv, ClockInv, StuckInv, InTurn

LEMMA DirectKept ==
  ASSUME LoopInv, DirectInv, Next
  PROVE  DirectInv'
<1>0. config' = config /\ config \in Configurations /\ queue \in Seq(Calls) /\ Len(queue) \in Nat
  BY DEF Next, LoopInv, PlaceInv, CallInv
<1>. SUFFICES ASSUME Undeciding(config) 
     PROVE  call'.form \in {"direct", "none"} /\ \A i \in 1..Len(queue') : queue'[i].form = "direct"
  BY <1>0 DEF DirectInv
<1>1. CASE AnswerCalls
  <2>1. PICK batch \in config.batches : call' = Head(batch) /\ queue' = Tail(batch)
    BY <1>1 DEF AnswerCalls
  <2>2. batch \in Seq(Calls) /\ batch # <<>> /\ \A i \in 1..Len(batch) : batch[i].form = "direct"
    BY <1>0, Settings DEF Undeciding
  <2>. QED
    BY <2>1, <2>2
<1>2. CASE NextQueued
  BY <1>0, <1>2 DEF NextQueued, DirectInv
<1>3. CASE ~AnswerCalls /\ ~NextQueued
  <2>1. (call' = call \/ call' = NoCall) /\ (queue' = queue \/ queue' = <<>>)
    BY <1>3 DEF Next, Loop, StopAtLimit, StopLimited, BeginTurn, AnswerText, ModelFails,
           RetryText, RejectDecision, RejectRepeatedEvidence, RejectWatched, Reject, AcceptCall,
           RefuseResearch, RunTool, FinishTool, RefuseAnswer, Finish, Cancel, callVars
  <2>2. NoCall.form = "none" /\ Len(<<>>) = 0
    BY DEF NoCall
  <2>. QED
    BY <2>1, <2>2 DEF DirectInv
<1>. QED
  BY <1>1, <1>2, <1>3

(* The steps that tell the watchdog nothing.                                *)
LEMMA TimeKept ==
  ASSUME LoopInv, TimeInv, Next, ~FinishTool, ~RejectRepeatedEvidence
  PROVE  QuietInv' /\ ClockInv' /\ StuckInv'
<1>0. /\ config' = config /\ config \in Configurations /\ RecoveryWindow' = RecoveryWindow
      /\ attempts \in Nat /\ toolSteps \in Nat /\ wd \in Wd /\ since \in Nat
  BY Settings DEF Next, LoopInv, PlaceInv, WatchInv, RecoveryWindow
<1>1. UNCHANGED <<wd, since>> /\ (outcome' = "stuck" => outcome = "stuck")
  BY DEF Next, Loop, StopAtLimit, StopLimited, BeginTurn, AnswerCalls, NextQueued, AnswerText, ModelFails, Stop,
         RetryText, RejectDecision, Reject, AcceptCall, RefuseResearch, RunTool, RefuseAnswer,
         Finish, Cancel, watchVars
<1>2. StuckInv'
  BY <1>1 DEF TimeInv, StuckInv
<1>3. QuietInv'
  <2>1. \/ attempts' = attempts + 1
        \/ attempts' = attempts /\ (InTurn' => InTurn)
    BY Settings DEF Next, Loop, StopAtLimit, StopLimited, BeginTurn, AnswerCalls, NextQueued, AnswerText, ModelFails,
         Stop, RetryText, RejectDecision, Reject, AcceptCall, RefuseResearch, RunTool, RefuseAnswer,
         Finish, Cancel, budgetVars, InTurn, LoopInv, PlaceInv
  <2>2. wd.quiet \in Nat
    BY <1>0 DEF Wd
  <2>. QED
    BY <1>0, <1>1, <2>1, <2>2 DEF TimeInv, QuietInv
<1>4. ClockInv'
  <2>1. \/ place = "accepted" /\ place' = "ran" /\ toolSteps' = toolSteps + 1
        \/ place # "ran" /\ place' # "ran" /\ toolSteps' = toolSteps
             /\ (place = "stopped" => place' = "stopped")
        \/ place' = "stopped" /\ toolSteps' = toolSteps
    BY <1>0, Settings DEF Next, Loop, StopAtLimit, StopLimited, BeginTurn, AnswerCalls, NextQueued, AnswerText,
         ModelFails, Stop, RetryText, RejectDecision, Reject, AcceptCall, RefuseResearch, RunTool,
         RefuseAnswer, Finish, Cancel, budgetVars
  <2>2. wd.start \in Nat
    BY <1>0 DEF Wd
  <2>. QED
    BY <1>0, <1>1, <2>1, <2>2 DEF TimeInv, ClockInv
<1>. QED
  BY <1>2, <1>3, <1>4

LEMMA NotSuspected ==
  ASSUME LoopInv, TimeInv, place \in {"answered", "ran"}, Unsuspecting(config),
         NEW step \in Nat, NEW progress \in BOOLEAN,
         NEW pattern \in BOOLEAN, pattern => config.patternsSeen,
         NEW w, w = Watch(wd, step, progress, pattern)
  PROVE  w.verdict # "suspected"
<1>0. /\ config \in Configurations /\ attempts \in 0..AttemptCap /\ wd \in Wd
      /\ AttemptCap \in Nat /\ NoProgressLimit \in Nat /\ wd.quiet \in Nat
  BY Settings DEF LoopInv, PlaceInv, WatchInv, Wd
<1>1. wd.state = "normal" /\ wd.quiet < attempts /\ pattern = FALSE
  BY DEF TimeInv, QuietInv, InTurn, Unsuspecting
<1>2. wd.quiet + 1 < NoProgressLimit
  BY <1>0, <1>1 DEF Unsuspecting, NoProgressLimit, AttemptCap
<1>3. Judged(w, wd, step, progress, pattern)
  BY <1>0, Watched
<1>. QED
  BY <1>0, <1>1, <1>2, <1>3 DEF Judged

(* A verdict on an event, whatever the event is.                            *)
LEMMA TimeWatched ==
  ASSUME LoopInv, TimeInv, place \in {"answered", "ran"}, UNCHANGED config,
         NEW step \in Nat, NEW progress \in BOOLEAN,
         NEW pattern \in BOOLEAN, pattern => config.patternsSeen,
         NEW w, w = Watch(wd, step, progress, pattern), Observe(w),
         UNCHANGED attempts, place' \in {"top", "stopped"},
         place' = "stopped" <=> w.verdict = "confirmed",
         place' = "stopped" <=> outcome' = "stuck"
  PROVE  QuietInv' /\ StuckInv'
<1>0. /\ config \in Configurations /\ attempts \in 0..AttemptCap /\ wd \in Wd /\ since \in Nat
      /\ AttemptCap \in Nat /\ NoProgressLimit \in Nat /\ wd.quiet \in Nat
  BY Settings DEF LoopInv, PlaceInv, WatchInv, Wd
<1>1. wd' = w.wd /\ since' = IF w.wd.state = "normal" \/ w.verdict = "suspected" THEN 0 ELSE since + 1
  BY DEF Observe
<1>j. Judged(w, wd, step, progress, pattern)
  BY <1>0, Watched
<1>2. w.verdict = "confirmed" => w.wd.state = "confirmed"
  BY <1>j DEF Judged
<1>3. StuckInv'
  BY <1>1, <1>2 DEF StuckInv
<1>4. QuietInv'
  <2>. SUFFICES ASSUME Unsuspecting(config)
       PROVE  wd'.state = "normal" /\ since' = 0 /\ wd'.quiet <= attempts' /\ ~InTurn'
    BY DEF QuietInv
  <2>1. wd.state = "normal" /\ wd.quiet < attempts
    BY DEF TimeInv, QuietInv, InTurn
  <2>3. w.verdict # "suspected"
    BY NotSuspected
  <2>4. w.verdict = "none"
    BY <1>j, <2>1, <2>3 DEF Judged
  <2>5. w.wd.state = "normal" /\ w.wd.quiet <= wd.quiet + 1 /\ w.wd.quiet \in Nat
    BY <1>j, <2>1, <2>4 DEF Judged, Wd
  <2>. QED
    BY <1>0, <1>1, <2>1, <2>3, <2>5 DEF InTurn
<1>. QED
  BY <1>3, <1>4

LEMMA TimeRepeated ==
  ASSUME LoopInv, TimeInv, UNCHANGED config, RejectRepeatedEvidence
  PROVE  QuietInv' /\ ClockInv' /\ StuckInv'
<1>0. /\ config \in Configurations /\ attempts \in Nat /\ RecoveryWindow' = RecoveryWindow
      /\ place = "answered" /\ outcome # "stuck" /\ call \in Calls /\ AsksEvidence(call)
      /\ UNCHANGED attempts
  BY Settings DEF LoopInv, PlaceInv, CallInv, RecoveryWindow, RejectRepeatedEvidence, MayRepeat, budgetVars
<1>1. PICK pattern \in BOOLEAN : /\ RejectWatched(Watch(wd, attempts, FALSE, pattern))
                                 /\ pattern => config.patternsSeen
  BY <1>0, Settings DEF RejectRepeatedEvidence
<1>2. PICK progress \in BOOLEAN : progress = FALSE
  OBVIOUS
<1>3. PICK w : w = Watch(wd, attempts, FALSE, pattern)
  OBVIOUS
<1>4. RejectWatched(w)
  BY <1>1, <1>3
<1>7. w = Watch(wd, attempts, progress, pattern)
  BY <1>2, <1>3
<1>5. /\ place' \in {"top", "stopped"} /\ Observe(w)
      /\ place' = "stopped" <=> w.verdict = "confirmed"
      /\ place' = "stopped" <=> outcome' = "stuck"
  BY <1>0, <1>4 DEF RejectWatched, Reject, Stop
<1>6. ClockInv'
  <2>1. ~Undeciding(config)
    BY <1>0 DEF TimeInv, DirectInv, Undeciding, AsksEvidence, Decides, EditPhase, Calls, ToolChoice,
                Native, NeedsChange
  <2>. QED
    BY <2>1 DEF ClockInv
<1>. QED
  BY <1>0, <1>1, <1>5, <1>6, <1>7, TimeWatched

LEMMA TimeFinished ==
  ASSUME LoopInv, TimeInv, UNCHANGED config, FinishTool
  PROVE  QuietInv' /\ ClockInv' /\ StuckInv'
<1>0. /\ config \in Configurations /\ toolSteps \in Nat /\ RecoveryWindow' = RecoveryWindow
      /\ place = "ran" /\ outcome # "stuck" /\ wd \in Wd /\ since \in Nat /\ wd.start \in Nat
      /\ RecoveryWindow \in Nat /\ UNCHANGED <<attempts, toolSteps>>
  BY Settings DEF LoopInv, PlaceInv, WatchInv, RecoveryWindow, FinishTool, budgetVars, Wd
<1>1. PICK r \in Results : RecordResult(r, Watch(wd, toolSteps, r.progress, r.pattern))
  BY DEF FinishTool
<1>r. r.progress \in BOOLEAN /\ r.pattern \in BOOLEAN /\ (r.pattern => config.patternsSeen)
  BY <1>0, Settings DEF Results
<1>2. PICK w : w = Watch(wd, toolSteps, r.progress, r.pattern)
  OBVIOUS
<1>3. RecordResult(r, w)
  BY <1>1, <1>2
<1>4. /\ place' \in {"top", "stopped"} /\ Observe(w)
      /\ place' = "stopped" <=> w.verdict = "confirmed"
      /\ place' = "stopped" <=> outcome' = "stuck"
  BY <1>0, <1>3 DEF RecordResult, Stop
<1>5. wd' = w.wd /\ since' = IF w.wd.state = "normal" \/ w.verdict = "suspected" THEN 0 ELSE since + 1
  BY <1>4 DEF Observe
<1>6. QuietInv' /\ StuckInv'
  BY <1>0, <1>r, <1>2, <1>4, TimeWatched
<1>j. Judged(w, wd, toolSteps, r.progress, r.pattern)
  BY <1>0, <1>r, <1>2, Watched
<1>7. ClockInv'
  <2>. SUFFICES ASSUME Undeciding(config), RecoveryWindow > 0
       PROVE  /\ wd'.state = "normal" => since' = 0
              /\ wd'.state = "recovery" =>
                   since' < RecoveryWindow /\ (place' # "stopped" => since' = toolSteps - wd'.start)
              /\ wd'.state = "confirmed" => since' = RecoveryWindow
    BY <1>0, <1>4 DEF ClockInv
  <2>1. wd.state = "normal" => since = 0
    BY DEF TimeInv, ClockInv
  <2>2. wd.state = "recovery" => since < RecoveryWindow /\ since = toolSteps - wd.start - 1
    BY <1>0 DEF TimeInv, ClockInv
  <2>3. CASE w.verdict = "suspected"
    <3>1. w.wd.state = "recovery" /\ w.wd.start = toolSteps
      BY <1>j, <2>3 DEF Judged
    <3>. QED
      BY <1>0, <1>5, <2>3, <3>1
  <2>4. CASE w.verdict = "recovered"
    <3>1. w.wd.state = "normal"
      BY <1>j, <2>4 DEF Judged
    <3>. QED
      BY <1>5, <3>1
  <2>5. CASE w.verdict = "confirmed"
    <3>1. w.wd.state = "confirmed" /\ wd.state = "recovery" /\ toolSteps - wd.start >= RecoveryWindow
      BY <1>j, <2>5 DEF Judged
    <3>. QED
      BY <1>0, <1>5, <2>2, <2>5, <3>1
  <2>6. CASE w.verdict = "none"
    <3>1. /\ w.wd.state = wd.state /\ w.wd.start = wd.start
          /\ wd.state = "recovery" => toolSteps - wd.start < RecoveryWindow
      BY <1>j, <2>6 DEF Judged
    <3>2. wd.state # "confirmed"
      BY <1>0 DEF LoopInv, WatchInv
    <3>. QED
      BY <1>0, <1>5, <2>2, <2>6, <3>1, <3>2
  <2>7. w.verdict \in {"suspected", "recovered", "confirmed", "none"}
    BY <1>j DEF Judged
  <2>. QED
    BY <2>3, <2>4, <2>5, <2>6, <2>7
<1>. QED
  BY <1>6, <1>7

LEMMA TimeStepInv == LoopInv /\ TimeInv /\ [Next]_vars => TimeInv'
<1>. SUFFICES ASSUME LoopInv, TimeInv, [Next]_vars PROVE TimeInv'
  OBVIOUS
<1>1. CASE UNCHANGED vars
  BY <1>1 DEF vars, budgetVars, callVars, watchVars, TimeInv, QuietInv, DirectInv, ClockInv, StuckInv,
              InTurn, RecoveryWindow
<1>2. CASE Next
  <2>1. QuietInv' /\ ClockInv' /\ StuckInv'
    BY <1>2, TimeKept, TimeRepeated, TimeFinished DEF Next
  <2>2. DirectInv'
    BY <1>2, DirectKept DEF TimeInv
  <2>. QED
    BY <2>1, <2>2 DEF TimeInv
<1>. QED
  BY <1>1, <1>2

LEMMA TimeAlways == Spec => []TimeInv
<1>1. Init => TimeInv
  BY TimeInitInv
<1>2. LoopInv /\ TimeInv /\ [Next]_vars => TimeInv'
  BY TimeStepInv
<1>. QED
  BY <1>1, <1>2, LoopAlways, PTL DEF Spec

(* A recovery is given exactly its window, when the watchdog is told of     *)
(* events by one clock: a call whose evidence was asked for before is       *)
(* counted by attempts, a result by tool steps.                             *)
THEOREM RecoveriesTimed == Spec => [](OneClock(config) => RecoveryTimed)
<1>1. LoopInv /\ TimeInv => (OneClock(config) => RecoveryTimed)
  <2>. SUFFICES ASSUME LoopInv, TimeInv, OneClock(config) PROVE RecoveryTimed
    OBVIOUS
  <2>1. /\ RecoveryWindow \in Nat /\ since \in Nat
        /\ wd.state \in {"normal", "recovery", "confirmed"}
    BY Settings DEF LoopInv, PlaceInv, WatchInv, Wd
  <2>2. CASE Unsuspecting(config)
    BY <2>1, <2>2 DEF TimeInv, QuietInv, StuckInv, RecoveryTimed
  <2>3. CASE Undeciding(config) /\ RecoveryWindow > 0
    BY <2>1, <2>3 DEF TimeInv, ClockInv, StuckInv, RecoveryTimed
  <2>. QED
    BY <2>2, <2>3 DEF OneClock, RecoveryWindow
<1>. QED
  BY <1>1, LoopAlways, TimeAlways, PTL

-----------------------------------------------------------------------------

(* The model answers with one call at a time.                               *)
Single(c) == \A batch \in c.batches : Len(batch) = 1

(* No call loses its result: research is not refused, and the watchdog does *)
(* not suspect a native run while calls are queued.                         *)
WellFormed(c) == ~c.native \/ (c.researchBudget = 0 /\ (Unsuspecting(c) \/ Single(c)))

SingleInv == Single(config) => queue = <<>> /\ queued = FALSE

OwedInv ==
  WellFormed(config) => torn = FALSE /\ (Native /\ place # "stopped" => owed = Open)

LEMMA SingleKept ==
  ASSUME LoopInv, SingleInv, Next
  PROVE  SingleInv'
<1>0. config' = config /\ config \in Configurations
  BY DEF Next, LoopInv, PlaceInv
<1>. SUFFICES ASSUME Single(config) PROVE queue' = <<>> /\ queued' = FALSE
  BY <1>0 DEF SingleInv
<1>1. queue = <<>> /\ queued = FALSE
  BY DEF SingleInv
<1>2. CASE AnswerCalls
  <2>1. PICK batch \in config.batches : call' = Head(batch) /\ queue' = Tail(batch)
    BY <1>2 DEF AnswerCalls
  <2>2. batch \in Seq(Calls) /\ batch # <<>> /\ Len(batch) = 1
    BY <1>0, Settings DEF Single
  <2>3. queue' = <<>>
    BY <2>1, <2>2
  <2>. QED
    BY <1>2, <2>3 DEF AnswerCalls
<1>3. CASE NextQueued
  BY <1>1, <1>3 DEF NextQueued
<1>4. CASE ~AnswerCalls /\ ~NextQueued
  BY <1>1, <1>4 DEF Next, Loop, StopAtLimit, StopLimited, BeginTurn, AnswerText, ModelFails, RetryText,
         RejectDecision, RejectRepeatedEvidence, RejectWatched, Reject, AcceptCall,
         RefuseResearch, RunTool, FinishTool, RefuseAnswer, Finish, Cancel, callVars
<1>. QED
  BY <1>2, <1>3, <1>4

(* A user message tears nothing when no call is owed its result.            *)
LEMMA NotTorn ==
  ASSUME torn = FALSE, Native => owed = 0, UserMessage(owed)
  PROVE  torn' = FALSE
<1>1. ~(Native /\ owed > 0)
  OBVIOUS
<1>2. torn' = (torn \/ (Native /\ owed > 0))
  BY DEF UserMessage
<1>. QED
  BY <1>1, <1>2, Zenon

LEMMA RejectOwes ==
  ASSUME CallInv, Native' = Native, Native \in BOOLEAN, place = "answered", Reject,
         torn = FALSE, Native => owed = Open
  PROVE  torn' = FALSE /\ (Native => owed' = Open')
<1>1. Len(<<>>) = 0 /\ Len(queue) \in Nat /\ owed \in Nat
  BY DEF CallInv
<1>2. CASE queued
  BY <1>1, <1>2 DEF Reject, Open
<1>3. CASE ~queued
  <2>1. /\ UserMessage(owed) /\ queue' = <<>> /\ owed' = owed /\ place' = "top"
        /\ (Native => owed = 0)
    BY <1>3 DEF Reject, Open
  <2>. QED
    BY <1>1, <2>1, NotTorn DEF Open
<1>. QED
  BY <1>2, <1>3

LEMMA OwedKept ==
  ASSUME LoopInv, TimeInv, SingleInv, OwedInv, Next
  PROVE  OwedInv'
<1>0. /\ config' = config /\ config \in Configurations /\ Native' = Native /\ Native \in BOOLEAN
      /\ queue \in Seq(Calls) /\ Len(queue) \in Nat /\ owed \in Nat /\ queued \in BOOLEAN
      /\ Len(<<>>) = 0 /\ CallInv
  BY Settings DEF Next, LoopInv, PlaceInv, CallInv, Native
<1>. SUFFICES ASSUME WellFormed(config)
     PROVE  torn' = FALSE /\ (Native /\ place' # "stopped" => owed' = Open')
  BY <1>0 DEF OwedInv
<1>1. torn = FALSE /\ (Native /\ place # "stopped" => owed = Open)
  BY DEF OwedInv
<1>2. CASE StopAtLimit \/ ModelFails \/ Finish \/ Cancel
  BY <1>1, <1>2 DEF StopAtLimit, StopLimited, ModelFails, Finish, Cancel, Stop, messageVars
<1>3. CASE BeginTurn
  <2>1. place = "top" /\ place' = "asking" /\ UNCHANGED <<queue, owed>>
    BY <1>3 DEF BeginTurn, callVars
  <2>2. (queue = <<>> /\ UserMessage(owed)) \/ torn' = torn
    BY <1>3 DEF BeginTurn
  <2>. QED
    BY <1>0, <1>1, <2>1, <2>2, NotTorn DEF Open
<1>4. CASE AnswerCalls \/ NextQueued
  <2>1. CASE AnswerCalls
    BY <1>0, <1>1, <2>1 DEF AnswerCalls, Open, messageVars
  <2>2. CASE NextQueued
    BY <1>0, <1>1, <2>2 DEF NextQueued, Open, messageVars
  <2>. QED
    BY <1>4, <2>1, <2>2
<1>5. CASE AnswerText
  <2>1. place' \in {"final", "unusable"}
    BY <1>0, <1>5, Settings DEF AnswerText
  <2>. QED
    BY <1>0, <1>1, <1>5, <2>1 DEF AnswerText, Open, messageVars, callVars
<1>6. CASE RetryText \/ RefuseAnswer
  <2>1. queue = <<>> /\ place \in {"final", "unusable"} /\ place' = "top" /\ UNCHANGED <<owed, queue>>
        /\ (UserMessage(owed) \/ torn' = torn)
    BY <1>0, <1>6 DEF RetryText, RefuseAnswer, CallInv, callVars
  <2>. QED
    BY <1>0, <1>1, <2>1, NotTorn DEF Open
<1>7. CASE RejectDecision
  <2>1. place = "answered" /\ Reject
    BY <1>7 DEF RejectDecision
  <2>. QED
    BY <1>0, <1>1, <2>1, RejectOwes
<1>8. CASE RejectRepeatedEvidence
  <2>1. PICK pattern \in BOOLEAN : /\ RejectWatched(Watch(wd, attempts, FALSE, pattern))
                                   /\ pattern => config.patternsSeen
    BY <1>0, <1>8, Settings DEF RejectRepeatedEvidence
  <2>2. PICK w : w = Watch(wd, attempts, FALSE, pattern)
    OBVIOUS
  <2>3. RejectWatched(w) /\ place = "answered"
    BY <1>8, <2>1, <2>2 DEF RejectRepeatedEvidence
  <2>4. CASE w.verdict = "suspected"
    <3>1. /\ UserMessage(owed) /\ place' = "top" /\ owed' = owed
          /\ queue' = IF queued THEN queue ELSE <<>>
      BY <2>3, <2>4 DEF RejectWatched
    <3>2. Native => Single(config)
      <4>. SUFFICES ASSUME Unsuspecting(config) PROVE FALSE
        BY DEF WellFormed, Native
      <4>1. PICK progress \in BOOLEAN : progress = FALSE
        OBVIOUS
      <4>2. w = Watch(wd, attempts, progress, pattern)
        BY <2>2, <4>1
      <4>3. attempts \in Nat
        BY <1>0, Settings DEF LoopInv, PlaceInv
      <4>. QED
        BY <2>1, <2>3, <2>4, <4>2, <4>3, NotSuspected
    <3>3. Native => queue = <<>> /\ queued = FALSE
      BY <3>2 DEF SingleInv
    <3>. QED
      BY <1>0, <1>1, <2>3, <3>1, <3>3, NotTorn DEF Open
  <2>5. CASE w.verdict = "confirmed"
    BY <1>1, <2>3, <2>5 DEF RejectWatched, Stop, messageVars
  <2>6. CASE w.verdict \notin {"suspected", "confirmed"}
    <3>1. Reject
      BY <2>3, <2>6 DEF RejectWatched
    <3>. QED
      BY <1>0, <1>1, <2>3, <3>1, RejectOwes
  <2>. QED
    BY <2>4, <2>5, <2>6
<1>9. CASE AcceptCall
  BY <1>0, <1>1, <1>9 DEF AcceptCall, Open, callVars
<1>10. CASE RefuseResearch
  <2>1. ~Native
    BY <1>0, <1>10, Settings DEF RefuseResearch, Refused, LoopInv, ResearchInv, WellFormed, Native,
                                 ResearchBudget
  <2>. QED
    BY <1>1, <1>10, <2>1 DEF RefuseResearch, messageVars
<1>11. CASE RunTool
  BY <1>0, <1>1, <1>11 DEF RunTool, Open, callVars, messageVars
<1>12. CASE FinishTool
  <2>1. PICK r \in Results : RecordResult(r, Watch(wd, toolSteps, r.progress, r.pattern))
    BY <1>12 DEF FinishTool
  <2>2. PICK w : w = Watch(wd, toolSteps, r.progress, r.pattern)
    OBVIOUS
  <2>3. RecordResult(r, w) /\ place = "ran" /\ queue' = queue /\ place' \in {"top", "stopped"}
    BY <1>12, <2>1, <2>2 DEF FinishTool, RecordResult, Stop
  <2>4. owed' = IF Native THEN owed - 1 ELSE 0
    BY <2>3 DEF RecordResult
  <2>5. Native => owed' = Len(queue)
    BY <1>0, <1>1, <2>3, <2>4 DEF Open
  <2>6. torn' = (torn \/ (Native /\ owed' > 0 /\ ((Native /\ Decides(call) /\ queue = <<>>)
                                                  \/ w.verdict = "suspected")))
    BY <2>3, <2>4 DEF RecordResult
  <2>7. Native /\ w.verdict = "suspected" => queue = <<>>
    <3>. SUFFICES ASSUME Native, w.verdict = "suspected", Unsuspecting(config) PROVE FALSE
      BY DEF WellFormed, Native, SingleInv
    <3>1. r.progress \in BOOLEAN /\ r.pattern \in BOOLEAN /\ (r.pattern => config.patternsSeen)
      BY <1>0, Settings DEF Results
    <3>2. toolSteps \in Nat
      BY <1>0, Settings DEF LoopInv, PlaceInv
    <3>. QED
      BY <2>2, <2>3, <3>1, <3>2, NotSuspected
  <2>8. ~(Native /\ owed' > 0 /\ ((Native /\ Decides(call) /\ queue = <<>>)
                                  \/ w.verdict = "suspected"))
    BY <1>0, <2>5, <2>7
  <2>9. torn' = FALSE
    BY <1>1, <2>6, <2>8, Zenon
  <2>. QED
    BY <1>0, <2>3, <2>5, <2>9 DEF Open
<1>. QED
  BY <1>2, <1>3, <1>4, <1>5, <1>6, <1>7, <1>8, <1>9, <1>10, <1>11, <1>12 DEF Next, Loop

(* What a native provider is sent is well formed, when research is not      *)
(* refused and the watchdog suspects nothing while calls are queued.        *)
THEOREM MessagesWhole == Spec => [](WellFormed(config) => ProtocolKept)
<1>1. Init => SingleInv /\ OwedInv
  <2>. SUFFICES ASSUME Init PROVE SingleInv /\ OwedInv
    OBVIOUS
  <2>1. /\ queue = <<>> /\ queued = FALSE /\ torn = FALSE /\ owed = 0 /\ place = "top"
        /\ Len(<<>>) = 0
    BY DEF Init
  <2>. HIDE DEF Init
  <2>. QED
    BY <2>1 DEF SingleInv, OwedInv, Open
<1>2. LoopInv /\ TimeInv /\ SingleInv /\ OwedInv /\ [Next]_vars => SingleInv' /\ OwedInv'
  <2>1. CASE UNCHANGED vars
    BY <2>1 DEF vars, callVars, messageVars, SingleInv, OwedInv, Open, Native
  <2>. QED
    BY <2>1, SingleKept, OwedKept
<1>3. LoopInv /\ OwedInv => (WellFormed(config) => ProtocolKept)
  <2>. SUFFICES ASSUME LoopInv, OwedInv, WellFormed(config) PROVE ProtocolKept
    OBVIOUS
  <2>1. torn = FALSE /\ (Native /\ place # "stopped" => owed = Open)
    BY DEF OwedInv
  <2>2. ASSUME place = "asking", queue = <<>> PROVE owed = 0
    BY <2>1, <2>2 DEF Open, LoopInv, CallInv
  <2>. QED
    BY <2>1, <2>2 DEF ProtocolKept
<1>. QED
  BY <1>1, <1>2, <1>3, LoopAlways, TimeAlways, PTL DEF Spec

--------------------------------------------------------------------------------

(* Places of a sequence put together group by group: those of the groups in  *)
(* S, each once, and a group's behind its leader with nothing in between.    *)
Grouped(at, lead, S) ==
  /\ at \in Seq(DOMAIN lead)
  /\ \A p \in 1..Len(at) : lead[at[p]] \in S
  /\ \A m \in DOMAIN lead : lead[m] \in S => \E p \in 1..Len(at) : at[p] = m
  /\ \A p, q \in 1..Len(at) : at[p] = at[q] => p = q
  /\ \A p \in 1..Len(at) :
       \E q \in 1..p : at[q] = lead[at[p]] /\ \A r \in q..p : lead[at[r]] = lead[at[p]]

(* The members of a group in their order.                                   *)
OneGroup(part, lead, g) ==
  /\ part \in Seq(DOMAIN lead) /\ Len(part) > 0 /\ part[1] = g
  /\ \A p \in 1..Len(part) : lead[part[p]] = g
  /\ \A m \in DOMAIN lead : lead[m] = g => \E p \in 1..Len(part) : part[p] = m
  /\ \A p, q \in 1..Len(part) : part[p] = part[q] => p = q

LEMMA GroupedMore ==
  ASSUME NEW lead, NEW at, NEW part, NEW S, NEW g, g \notin S,
         Grouped(at, lead, S), OneGroup(part, lead, g)
  PROVE  Grouped(at \o part, lead, S \cup {g})
<1>. DEFINE a == Len(at)
            b == Len(part)
            t == at \o part
            A == DOMAIN lead
<1>1. at \in Seq(A) /\ part \in Seq(A)
  BY DEF Grouped, OneGroup
<1>2. a \in Nat /\ b \in Nat
  BY <1>1
<1>3. /\ t \in Seq(A) /\ Len(t) = a + b
      /\ \A i \in 1..a : t[i] = at[i]
      /\ \A i \in 1..b : t[a + i] = part[i]
  <2>. HIDE DEF A
  <2>. QED
    BY <1>1, Both
<1>4. /\ \A p \in 1..a : lead[at[p]] \in S
      /\ \A m \in A : lead[m] \in S => \E p \in 1..a : at[p] = m
      /\ \A p, q \in 1..a : at[p] = at[q] => p = q
      /\ \A p \in 1..a :
           \E q \in 1..p : at[q] = lead[at[p]] /\ \A r \in q..p : lead[at[r]] = lead[at[p]]
  BY DEF Grouped
<1>5. /\ b > 0 /\ part[1] = g
      /\ \A p \in 1..b : lead[part[p]] = g
      /\ \A m \in A : lead[m] = g => \E p \in 1..b : part[p] = m
      /\ \A p, q \in 1..b : part[p] = part[q] => p = q
  BY DEF OneGroup
<1>. HIDE DEF a, b, t, A
<1>6. \A p \in 1..(a + b) : p \in 1..a \/ (p - a \in 1..b /\ t[p] = part[p - a])
  <2>. TAKE p \in 1..(a + b)
  <2>1. CASE p \in 1..a
    BY <2>1
  <2>2. CASE p \notin 1..a
    <3>1. p - a \in 1..b /\ a + (p - a) = p
      BY <1>2, <2>2
    <3>. QED
      BY <1>3, <3>1
  <2>. QED
    BY <2>1, <2>2
<1>7. \A p \in 1..a : t[p] = at[p] /\ p \in 1..(a + b) /\ lead[t[p]] \in S
  BY <1>2, <1>3, <1>4
<1>8. \A i \in 1..b : a + i \in 1..(a + b) /\ t[a + i] = part[i] /\ lead[t[a + i]] = g
  BY <1>2, <1>3, <1>5
<1>9. \A p \in 1..(a + b) : p \notin 1..a => p - a \in 1..b /\ t[p] = part[p - a] /\ lead[t[p]] = g
  BY <1>5, <1>6
<1>10. \A p \in 1..(a + b) : lead[t[p]] \in S \cup {g}
  BY <1>7, <1>9
<1>11. \A m \in A : lead[m] \in S \cup {g} => \E p \in 1..(a + b) : t[p] = m
  BY <1>4, <1>5, <1>7, <1>8
<1>12. \A p, q \in 1..(a + b) : t[p] = t[q] => p = q
  <2>. SUFFICES ASSUME NEW p \in 1..(a + b), NEW q \in 1..(a + b), t[p] = t[q] PROVE p = q
    OBVIOUS
  <2>1. CASE p \in 1..a /\ q \in 1..a
    BY <1>4, <1>7, <2>1
  <2>2. CASE p \notin 1..a /\ q \notin 1..a
    <3>1. p - a \in 1..b /\ q - a \in 1..b /\ part[p - a] = part[q - a]
      BY <1>9, <2>2
    <3>2. p - a = q - a
      BY <1>5, <3>1
    <3>. QED
      BY <1>2, <3>2
  <2>3. p \in 1..a <=> q \in 1..a
    BY <1>7, <1>9
  <2>. QED
    BY <2>1, <2>2, <2>3
<1>13. \A p \in 1..(a + b) :
         \E q \in 1..p : t[q] = lead[t[p]] /\ \A r \in q..p : lead[t[r]] = lead[t[p]]
  <2>. TAKE p \in 1..(a + b)
  <2>1. CASE p \in 1..a
    <3>1. PICK q \in 1..p : at[q] = lead[at[p]] /\ \A r \in q..p : lead[at[r]] = lead[at[p]]
      BY <1>4, <2>1
    <3>2. \A r \in q..p : r \in 1..a
      BY <1>2, <2>1
    <3>3. q \in 1..a /\ q \in q..p
      BY <1>2, <2>1
    <3>4. t[q] = lead[t[p]] /\ \A r \in q..p : lead[t[r]] = lead[t[p]]
      BY <1>7, <2>1, <3>1, <3>2, <3>3
    <3>. QED
      BY <3>4
  <2>2. CASE p \notin 1..a
    <3>1. lead[t[p]] = g /\ p - a \in 1..b
      BY <1>9, <2>2
    <3>2. a + 1 \in 1..p /\ 1 \in 1..b
      BY <1>2, <1>5, <3>1
    <3>3. t[a + 1] = g
      BY <1>5, <1>8, <3>2
    <3>4. ASSUME NEW r \in (a + 1)..p PROVE lead[t[r]] = g
      <4>1. r \in 1..(a + b) /\ r \notin 1..a
        BY <1>2
      <4>. QED
        BY <1>9, <4>1
    <3>. QED
      BY <3>1, <3>2, <3>3, <3>4
  <2>. QED
    BY <2>1, <2>2
<1>14. t \in Seq(DOMAIN lead) /\ 1..Len(t) = 1..(a + b)
  BY <1>3 DEF A
<1>. QED
  BY <1>10, <1>11, <1>12, <1>13, <1>14 DEF Grouped, t, A

(* A group's members in order, when its leader is the first of them.        *)
LEMMA GroupInOrder ==
  ASSUME NEW n \in Nat, NEW lead \in [1..n -> 1..n], NEW g \in 1..n, lead[g] = g,
         \A m \in 1..n : lead[m] <= m
  PROVE  OneGroup(InOrder({m \in 1..n : lead[m] = g}), lead, g)
<1>. DEFINE M == {m \in 1..n : lead[m] = g}
            c == Cardinality(M)
            part == InOrder(M)
<1>1. M \subseteq Nat /\ IsFiniteSet(M) /\ g \in M
  <2>1. IsFiniteSet(1..n)
    BY Interval
  <2>. QED
    BY <2>1, FS_Subset
<1>2. Orders(InFront(M), M)
  BY <1>1, InFrontOrders
<1>3. /\ c \in Nat /\ part \in [1..c -> M]
      /\ \A x \in M : \E k \in 1..c : part[k] = x
      /\ \A k, l \in 1..c : k < l <=> <<part[k], part[l]>> \in InFront(M)
  <2>. HIDE DEF M
  <2>. QED
    BY <1>1, <1>2, ArrangedPlaces DEF InOrder
<1>4. \A k, l \in 1..c : k < l <=> part[k] < part[l]
  BY <1>3 DEF InFront
<1>5. \A m \in M : m \in 1..n /\ lead[m] = g /\ g <= m
  OBVIOUS
<1>6. \A m \in 1..n : lead[m] = g => m \in M
  OBVIOUS
<1>7. DOMAIN lead = 1..n
  OBVIOUS
<1>. HIDE DEF M, c, part
<1>8. part \in Seq(1..n) /\ Len(part) = c
  BY <1>3, <1>5
<1>9. PICK k \in 1..c : part[k] = g
  BY <1>1, <1>3
<1>10. 1 \in 1..c /\ part[1] \in M /\ c > 0
  BY <1>3
<1>11. k = 1
  <2>1. ~(1 < k)
    BY <1>4, <1>5, <1>9, <1>10
  <2>. QED
    BY <1>3, <2>1
<1>12. \A p, q \in 1..c : part[p] = part[q] => p = q
  <2>. TAKE p, q \in 1..c
  <2>1. part[p] \in Nat /\ part[q] \in Nat
    BY <1>1, <1>3
  <2>. QED
    BY <1>3, <1>4, <2>1
<1>13. \A p \in 1..c : lead[part[p]] = g
  BY <1>3, <1>5
<1>14. \A m \in DOMAIN lead : lead[m] = g => \E p \in 1..c : part[p] = m
  BY <1>3, <1>6, <1>7
<1>15. 1..Len(part) = 1..c /\ part \in Seq(DOMAIN lead) /\ Len(part) > 0 /\ part[1] = g
  BY <1>7, <1>8, <1>9, <1>10, <1>11
<1>16. OneGroup(part, lead, g)
  BY <1>12, <1>13, <1>14, <1>15 DEF OneGroup
<1>. QED
  BY <1>16 DEF part, M

(* All groups of a set, one behind the other.                               *)
LEMMA AllGrouped ==
  ASSUME NEW n \in Nat, NEW lead \in [1..n -> 1..n], \A m \in 1..n : lead[m] <= m,
         NEW K \in SUBSET (1..n), \A g \in K : lead[g] = g
  PROVE  Grouped(Chained([i \in 1..Cardinality(K) |-> InOrder({m \in 1..n : lead[m] = InOrder(K)[i]})]),
                 lead, K)
<1>. DEFINE c == Cardinality(K)
            e == InOrder(K)
            part(i) == InOrder({m \in 1..n : lead[m] = e[i]})
            parts == [i \in 1..c |-> part(i)]
            A == 1..n
            q(k) == SubSeq(parts, 1, k)
            first(k) == {e[i] : i \in 1..k}
            T == {k \in 0..c : Grouped(Chained(q(k)), lead, first(k))}
<1>1. K \subseteq Nat /\ IsFiniteSet(K) /\ DOMAIN lead = A
  <2>1. IsFiniteSet(1..n)
    BY Interval
  <2>2. IsFiniteSet(K)
    BY <2>1, FS_Subset
  <2>3. DOMAIN lead = A /\ K \subseteq Nat
    OBVIOUS
  <2>. QED
    BY <2>2, <2>3
<1>2. Orders(InFront(K), K)
  BY <1>1, InFrontOrders
<1>3. /\ c \in Nat /\ e \in [1..c -> K]
      /\ \A x \in K : \E k \in 1..c : e[k] = x
      /\ \A k, l \in 1..c : k < l <=> <<e[k], e[l]>> \in InFront(K)
  BY <1>1, <1>2, ArrangedPlaces DEF InOrder
<1>. HIDE DEF c, e
<1>4. \A k, l \in 1..c : e[k] = e[l] => k = l
  <2>. SUFFICES ASSUME NEW k \in 1..c, NEW l \in 1..c, e[k] = e[l] PROVE k = l
    OBVIOUS
  <2>1. \A x \in K : <<x, x>> \notin InFront(K)
    BY <1>2 DEF Orders
  <2>2. e[k] \in K
    BY <1>3
  <2>3. ~(k < l) /\ ~(l < k)
    BY <1>3, <2>1, <2>2
  <2>. QED
    BY <1>3, <2>3
<1>5. ASSUME NEW i \in 1..c PROVE OneGroup(part(i), lead, e[i]) /\ part(i) \in Seq(A)
  <2>1. e[i] \in 1..n /\ lead[e[i]] = e[i]
    BY <1>3
  <2>2. OneGroup(part(i), lead, e[i])
    BY <2>1, GroupInOrder
  <2>. QED
    BY <1>1, <2>2 DEF OneGroup
<1>6. parts \in Seq(Seq(A)) /\ Len(parts) = c /\ \A i \in 1..c : parts[i] = part(i)
  <2>. HIDE DEF part
  <2>. QED
    BY <1>3, <1>5
<1>. HIDE DEF parts, part, A
<1>7. /\ q(0) = <<>> /\ q(c) = parts
      /\ \A k \in 1..c : q(k) = Append(q(k - 1), parts[k])
      /\ \A k \in 0..c : q(k) \in Seq(Seq(A))
  BY <1>6, FirstOnes
<1>. HIDE DEF q
<1>8. 0 \in T
  <2>1. Chained(q(0)) = <<>>
    <3>1. <<>> \in Seq(Seq(A)) /\ <<>> \in Seq(A)
      OBVIOUS
    <3>2. Chained(<<>>) = <<>>
      BY ONLY <3>1, ChainedLonger
    <3>. QED
      BY <1>7, <3>2
  <2>2. first(0) = {} /\ 0 \in 0..c
    BY <1>3
  <2>3. Grouped(<<>>, lead, {})
    <3>1. <<>> \in Seq(DOMAIN lead) /\ 1..Len(<<>>) = {}
      OBVIOUS
    <3>. QED
      BY <3>1 DEF Grouped
  <2>4. Grouped(Chained(q(0)), lead, first(0))
    BY <2>1, <2>2, <2>3
  <2>. HIDE DEF first
  <2>. QED
    BY <2>2, <2>4
<1>9. ASSUME NEW k \in 1..c, k - 1 \in T PROVE k \in T
  <2>1. Grouped(Chained(q(k - 1)), lead, first(k - 1))
    BY <1>9
  <2>0. k - 1 \in 0..c /\ k \in 0..c
    BY <1>3
  <2>2. q(k - 1) \in Seq(Seq(A)) /\ part(k) \in Seq(A) /\ q(k) = Append(q(k - 1), part(k))
    BY <1>5, <1>6, <1>7, <2>0
  <2>3. Chained(q(k)) = Chained(q(k - 1)) \o part(k)
    BY <2>2, ChainedLonger
  <2>4. first(k) = first(k - 1) \cup {e[k]}
    <3>1. 1..k = (1..(k - 1)) \cup {k}
      BY <1>3
    <3>. QED
      BY <3>1
  <2>5. e[k] \notin first(k - 1)
    <3>1. \A i \in 1..(k - 1) : i \in 1..c /\ i # k
      BY <1>3
    <3>. QED
      BY <1>4, <3>1
  <2>6. OneGroup(part(k), lead, e[k])
    BY <1>5
  <2>. HIDE DEF first
  <2>7. Grouped(Chained(q(k - 1)) \o part(k), lead, first(k - 1) \cup {e[k]})
    BY <2>1, <2>5, <2>6, GroupedMore
  <2>8. Grouped(Chained(q(k)), lead, first(k))
    BY <2>3, <2>4, <2>7
  <2>. QED
    BY <2>0, <2>8
<1>10. \A k \in 0..c : k \in T
  <2>1. \A k \in 1..c : k - 1 \in T => k \in T
    BY <1>9
  <2>. HIDE DEF T
  <2>. QED
    BY <1>3, <1>8, <2>1, CountUp
<1>11. Grouped(Chained(parts), lead, first(c))
  <2>1. c \in T
    BY <1>3, <1>10
  <2>. QED
    BY <1>7, <2>1
<1>12. first(c) = K
  <2>1. \A x \in first(c) : x \in K
    BY <1>3
  <2>2. \A x \in K : x \in first(c)
    BY <1>3
  <2>. QED
    BY <2>1, <2>2
<1>. QED
  BY <1>11, <1>12 DEF parts, part, e, c

CallIds == UNION {ToSet(b) : b \in Batches}
Messages ==
  [role : {"system", "user", "assistant", "tool"}, size : Nat \ {0}, calls : SUBSET CallIds,
   turn : Nat, stands : SUBSET Nat]

(* The messages of the run: an answer's turn is its place.                  *)
ChatOK(c) ==
  /\ c \in Seq(Messages) /\ Len(c) >= 2 /\ c[2].role = "user"
  /\ \A i \in DOMAIN c :
       /\ c[i].stands = {i} /\ c[i].turn <= i
       /\ c[i].role = "assistant" => c[i].turn = i
       /\ c[i].role \in {"system", "user"} => c[i].turn = 0

(* What a request shows: messages of the run, and what stands for others.   *)
Shown(c, m) == (m.role = "system" /\ m.turn = 0) \/ \E i \in DOMAIN c : m = c[i]

(* The answer a result belongs to is before it, and none in between.        *)
Answered(v, k) ==
  \E j \in 1..(k - 1) :
    /\ v[j].role = "assistant" /\ v[j].turn = v[k].turn /\ v[k].calls \subseteq v[j].calls
    /\ \A l \in (j + 1)..(k - 1) : v[l].role # "assistant"

(* The messages of the request: every message of the run stands in one, and *)
(* with an answer there is all that belongs to it.                          *)
NativeOK(c, v) ==
  /\ v \in Seq(Messages)
  /\ \A k \in DOMAIN v : v[k].stands \subseteq DOMAIN c /\ Shown(c, v[k])
  /\ \A k \in DOMAIN v : v[k].role = "tool" => v[k].calls # {} /\ Answered(v, k)
  /\ \A i \in DOMAIN c : \E k \in DOMAIN v : i \in v[k].stands
  /\ \A j, k \in DOMAIN v : j # k => v[j].stands \cap v[k].stands = {}
  /\ \A k \in DOMAIN v, i \in DOMAIN c :
       v[k].role = "assistant" /\ c[i].turn = v[k].turn => \E l \in DOMAIN v : v[l] = c[i]

LEMMA Places ==
  ASSUME NEW A, NEW s \in Seq(A)
  PROVE  /\ Len(s) \in Nat /\ DOMAIN s = 1..Len(s)
         /\ \A k \in DOMAIN s : s[k] \in A /\ k \in Nat /\ k >= 1
  OBVIOUS

(* The place that a message of the run has in the request.                  *)
LEMMA OnePlace ==
  ASSUME NEW c, NEW v, ChatOK(c), NativeOK(c, v)
  PROVE  /\ \A k, l \in DOMAIN v, i \in DOMAIN c : v[k] = c[i] /\ v[l] = c[i] => k = l
         /\ \A k \in DOMAIN v, i, j \in DOMAIN c : v[k] = c[i] /\ v[k] = c[j] => i = j
         /\ \A k \in DOMAIN v :
              v[k].turn # 0 => v[k].role \in {"assistant", "tool"} /\ \E i \in DOMAIN c : v[k] = c[i]
         /\ \A k \in DOMAIN v : v[k].role = "assistant" => v[k].turn \in DOMAIN c /\ v[k] = c[v[k].turn]
<1>1. /\ \A i \in DOMAIN c : c[i].stands = {i} /\ c[i].role \in {"system", "user", "assistant", "tool"}
      /\ \A i \in DOMAIN c : c[i].role = "assistant" => c[i].turn = i
      /\ \A i \in DOMAIN c : c[i].role \in {"system", "user"} => c[i].turn = 0
  <2>1. \A i \in DOMAIN c : c[i] \in Messages
    BY DEF ChatOK
  <2>2. \A i \in DOMAIN c : c[i].role \in {"system", "user", "assistant", "tool"}
    BY <2>1 DEF Messages
  <2>. QED
    BY <2>2 DEF ChatOK
<1>2. \A j, k \in DOMAIN v : j # k => v[j].stands \cap v[k].stands = {}
  BY DEF NativeOK
<1>3. \A k \in DOMAIN v : Shown(c, v[k])
  BY DEF NativeOK
<1>4. \A k, l \in DOMAIN v, i \in DOMAIN c : v[k] = c[i] /\ v[l] = c[i] => k = l
  BY <1>1, <1>2
<1>5. \A k \in DOMAIN v, i, j \in DOMAIN c : v[k] = c[i] /\ v[k] = c[j] => i = j
  BY <1>1
<1>6. \A k \in DOMAIN v :
        v[k].turn # 0 => v[k].role \in {"assistant", "tool"} /\ \E i \in DOMAIN c : v[k] = c[i]
  BY <1>1, <1>3 DEF Shown
<1>7. \A k \in DOMAIN v : v[k].role = "assistant" => v[k].turn \in DOMAIN c /\ v[k] = c[v[k].turn]
  BY <1>1, <1>3 DEF Shown
<1>. QED
  BY <1>4, <1>5, <1>6, <1>7

(* The groups of a request: a result is in the group of its answer.         *)
LEMMA LeadersOf ==
  ASSUME ChatOK(chat), NativeOK(chat, native)
  PROVE  /\ \A k \in DOMAIN native : Leader(k) \in 1..k /\ Leader(Leader(k)) = Leader(k)
         /\ \A k \in DOMAIN native : native[k].role # "tool" => Leader(k) = k
         /\ \A k \in DOMAIN native :
              native[k].role = "tool" => native[Leader(k)].role = "assistant" /\ Leader(k) # k
         /\ \A k \in DOMAIN native : native[Leader(k)].turn = native[k].turn
         /\ \A k, l \in DOMAIN native :
              native[k].role = "assistant" /\ native[l].turn = native[k].turn => Leader(l) = k
<1>1. Len(native) \in Nat /\ DOMAIN native = 1..Len(native)
  BY DEF NativeOK
<1>2. ASSUME NEW k \in DOMAIN native, native[k].role = "tool"
      PROVE  /\ Leader(k) \in 1..(k - 1) /\ native[Leader(k)].role = "assistant"
             /\ native[Leader(k)].turn = native[k].turn
  <2>1. native[k].calls # {} /\ Answered(native, k)
    BY <1>2 DEF NativeOK
  <2>2. PICK j \in 1..(k - 1) :
          /\ native[j].role = "assistant" /\ native[j].turn = native[k].turn
          /\ native[k].calls \subseteq native[j].calls
          /\ \A l \in (j + 1)..(k - 1) : native[l].role # "assistant"
    BY <2>1 DEF Answered
  <2>3. j \in Callers(k)
    BY <2>1, <2>2 DEF Callers
  <2>4. \A l \in Callers(k) : l \in 1..(k - 1) /\ native[l].role = "assistant"
    BY DEF Callers
  <2>5. \A l \in Callers(k) : l <= j
    BY <1>1, <2>2, <2>4
  <2>6. Max(Callers(k)) = j
    <3>1. \A l \in Callers(k) : j >= l
      BY <1>1, <2>4, <2>5
    <3>2. \A x \in Callers(k) : (\A y \in Callers(k) : x >= y) => x = j
      BY <1>1, <2>3, <2>4, <2>5
    <3>. QED
      BY <2>3, <3>1, <3>2 DEF Max
  <2>7. Leader(k) = j
    BY <1>2, <2>3, <2>6 DEF Leader, GroupOfResult
  <2>. QED
    BY <2>2, <2>7
<1>3. \A k \in DOMAIN native : native[k].role # "tool" => Leader(k) = k
  BY DEF Leader
<1>4. \A k \in DOMAIN native : Leader(k) \in 1..k /\ Leader(k) \in DOMAIN native
  BY <1>1, <1>2, <1>3
<1>5. \A k \in DOMAIN native : native[Leader(k)].role # "tool"
  BY <1>2, <1>3
<1>6. \A k \in DOMAIN native : Leader(Leader(k)) = Leader(k)
  BY <1>3, <1>4, <1>5
<1>7. \A k \in DOMAIN native : native[Leader(k)].turn = native[k].turn
  BY <1>2, <1>3
<1>8. ASSUME NEW k \in DOMAIN native, NEW l \in DOMAIN native,
             native[k].role = "assistant", native[l].turn = native[k].turn
      PROVE  Leader(l) = k
  <2>1. native[k].turn \in DOMAIN chat /\ native[k] = chat[native[k].turn]
    BY <1>8, OnePlace
  <2>2. native[k].turn # 0
    BY <2>1 DEF ChatOK
  <2>3. native[l].role \in {"assistant", "tool"}
    BY <1>8, <2>2, OnePlace
  <2>4. native[Leader(l)].role = "assistant" /\ native[Leader(l)].turn = native[k].turn
    BY <1>2, <1>3, <1>7, <1>8, <2>3
  <2>5. native[Leader(l)] = chat[native[k].turn]
    BY <1>4, <2>4, OnePlace
  <2>. QED
    BY <1>4, <2>1, <2>5, OnePlace
<1>9. \A k \in DOMAIN native :
        native[k].role = "tool" => native[Leader(k)].role = "assistant" /\ Leader(k) # k
  BY <1>1, <1>2
<1>. QED
  BY <1>3, <1>4, <1>6, <1>7, <1>8, <1>9

(* With an answer there are as many messages of its turn as in the run.     *)
LEMMA CountsAgree ==
  ASSUME NEW c, NEW v, ChatOK(c), NativeOK(c, v), NEW k \in DOMAIN v, v[k].role = "assistant"
  PROVE  Cardinality({j \in DOMAIN v : v[j].turn = v[k].turn})
           = Cardinality({i \in DOMAIN c : c[i].turn = v[k].turn})
<1>. DEFINE t == v[k].turn
            J == {j \in DOMAIN v : v[j].turn = t}
            I == {i \in DOMAIN c : c[i].turn = t}
            f == [j \in J |-> CHOOSE i \in I : v[j] = c[i]]
<1>1. t # 0
  <2>1. t \in DOMAIN c
    BY OnePlace
  <2>. QED
    BY <2>1 DEF ChatOK
<1>2. \A j \in J : \E i \in I : v[j] = c[i]
  BY <1>1, OnePlace
<1>3. \A i \in I : \E j \in J : v[j] = c[i]
  BY DEF NativeOK
<1>4. f \in [J -> I] /\ \A j \in J : v[j] = c[f[j]]
  BY <1>2
<1>5. \A a, b \in J : f[a] = f[b] => a = b
  <2>1. \A a \in J : f[a] \in DOMAIN c /\ a \in DOMAIN v
    BY <1>4
  <2>. HIDE DEF f, J
  <2>. QED
    BY <1>4, <2>1, OnePlace
<1>6. \A i \in I : \E j \in J : f[j] = i
  <2>1. \A a \in J : f[a] \in DOMAIN c /\ a \in DOMAIN v
    BY <1>4
  <2>2. \A i \in I : i \in DOMAIN c
    OBVIOUS
  <2>. HIDE DEF f, J, I
  <2>. QED
    BY <1>3, <1>4, <2>1, <2>2, OnePlace
<1>7. IsFiniteSet(J)
  <2>1. Len(v) \in Nat /\ DOMAIN v = 1..Len(v)
    BY DEF NativeOK
  <2>2. IsFiniteSet(DOMAIN v)
    BY <2>1, Interval
  <2>. QED
    BY <2>2, FS_Subset
<1>. HIDE DEF f, J, I
<1>8. ExistsBijection(J, I)
  <2>1. f \in [J -> I]
    BY <1>4
  <2>2. f \in Bijection(J, I)
    BY <1>5, <1>6, <2>1 DEF Bijection, Injection, Surjection, IsInjective
  <2>. QED
    BY <2>2 DEF ExistsBijection
<1>9. Cardinality(I) = Cardinality(J)
  BY <1>7, <1>8, FS_Bijection
<1>. QED
  BY <1>9 DEF I, J, t

(* Each answer with its results, as the request shows them.                 *)
Whole(c, v) ==
  \A k \in DOMAIN v :
    /\ v[k].role = "tool" => k > 1 /\ v[k - 1].turn = v[k].turn
    /\ v[k].role = "assistant" =>
         Cardinality({j \in DOMAIN v : v[j].turn = v[k].turn})
           = Cardinality({i \in DOMAIN c : c[i].turn = v[k].turn})

(* The places of the messages that a condensed request shows: those of the  *)
(* groups that are kept, each once and each group together.                 *)
Showing(v, at, kept) ==
  /\ at \in Seq(DOMAIN native)
  /\ \A p \in 1..Len(at) : Leader(at[p]) \in kept
  /\ \A m \in DOMAIN native : Leader(m) \in kept => \E p \in 1..Len(at) : at[p] = m
  /\ \A p, q \in 1..Len(at) : at[p] = at[q] => p = q
  /\ \A p \in 1..Len(at) :
       \E q \in 1..p : at[q] = Leader(at[p]) /\ \A r \in q..p : Leader(at[r]) = Leader(at[p])
  /\ v \in Seq(Messages) /\ Len(v) = Len(at) + 1
  /\ \A p \in 1..Len(at) : v[p + 1] = native[at[p]]
  /\ v[1].role = "system" /\ v[1].turn = 0 /\ v[1].size = Preamble + MapSize + SummaryFor(kept)
  /\ v[1].stands = UNION {native[k].stands : k \in MembersOf(CondensedGroups(kept))}

LEMMA AssembledShows ==
  ASSUME ChatOK(chat), NativeOK(chat, native), NEW kept \in SUBSET Leaders
  PROVE  \E at : Showing(Assembled(kept), at, kept)
<1>. DEFINE n == Len(native)
            lead == [k \in 1..n |-> Leader(k)]
            f == Msg("system", Preamble + MapSize + SummaryFor(kept), {}, 0,
                     UNION {native[k].stands : k \in MembersOf(CondensedGroups(kept))})
            at == Chained([i \in 1..Cardinality(kept) |-> InOrder(Members(InOrder(kept)[i]))])
            w == [p \in DOMAIN at |-> native[at[p]]]
            v == <<f>> \o w
            a == Len(at)
<1>1. n \in Nat /\ DOMAIN native = 1..n /\ \A k \in 1..n : native[k] \in Messages
  BY DEF NativeOK
<1>. HIDE DEF n
<1>2. /\ \A k \in 1..n : Leader(k) \in 1..k /\ Leader(Leader(k)) = Leader(k)
      /\ \A k \in 1..n : native[k].role # "tool" => Leader(k) = k
      /\ \A k \in 1..n :
           native[k].role = "tool" => native[Leader(k)].role = "assistant" /\ Leader(k) # k
      /\ \A k \in 1..n : native[Leader(k)].turn = native[k].turn
      /\ \A k, l \in 1..n :
           native[k].role = "assistant" /\ native[l].turn = native[k].turn => Leader(l) = k
  BY <1>1, LeadersOf
<1>3. lead \in [1..n -> 1..n] /\ DOMAIN lead = 1..n /\ \A k \in 1..n : lead[k] = Leader(k) /\ lead[k] <= k
  BY <1>1, <1>2
<1>4. kept \in SUBSET (1..n) /\ \A g \in kept : lead[g] = g
  <2>1. \A g \in kept : \E k \in 1..n : g = Leader(k)
    BY <1>1 DEF Leaders
  <2>. QED
    BY <1>1, <1>2, <1>3, <2>1
<1>5. Grouped(at, lead, kept)
  <2>1. \A i \in 1..Cardinality(kept) :
          Members(InOrder(kept)[i]) = {m \in 1..n : lead[m] = InOrder(kept)[i]}
    BY <1>1, <1>3 DEF Members
  <2>. HIDE DEF lead
  <2>. DEFINE P(i) == InOrder(Members(InOrder(kept)[i]))
              Q(i) == InOrder({m \in 1..n : lead[m] = InOrder(kept)[i]})
              c == Cardinality(kept)
  <2>3. \A i \in 1..c : P(i) = Q(i)
    <3>. TAKE i \in 1..c
    <3>1. Members(InOrder(kept)[i]) = {m \in 1..n : lead[m] = InOrder(kept)[i]}
      BY <2>1
    <3>. QED
      BY <3>1, Zenon
  <2>. HIDE DEF P, Q, c
  <2>4. [i \in 1..c |-> P(i)] = [i \in 1..c |-> Q(i)]
    BY <2>3
  <2>2. [i \in 1..Cardinality(kept) |-> InOrder(Members(InOrder(kept)[i]))]
          = [i \in 1..Cardinality(kept) |-> InOrder({m \in 1..n : lead[m] = InOrder(kept)[i]})]
    BY <2>4 DEF P, Q, c
  <2>. QED
    BY <1>1, <1>3, <1>4, <2>2, AllGrouped, Zenon
<1>6. v = Assembled(kept)
  BY DEF Assembled
<1>. HIDE DEF lead, at
<1>7. /\ at \in Seq(1..n) /\ a \in Nat /\ DOMAIN at = 1..a
      /\ \A p \in 1..a : at[p] \in 1..n /\ Leader(at[p]) \in kept
      /\ \A m \in 1..n : Leader(m) \in kept => \E p \in 1..a : at[p] = m
      /\ \A p, q \in 1..a : at[p] = at[q] => p = q
      /\ \A p \in 1..a :
           \E q \in 1..p : at[q] = Leader(at[p]) /\ \A r \in q..p : Leader(at[r]) = Leader(at[p])
  <2>1. at \in Seq(1..n)
    BY <1>3, <1>5 DEF Grouped
  <2>2. a \in Nat /\ DOMAIN at = 1..a /\ \A p \in 1..a : at[p] \in 1..n
    BY ONLY <2>1, Places
  <2>3. \A p \in 1..a : Leader(at[p]) \in kept
    BY <1>3, <1>5, <2>2 DEF Grouped
  <2>4. \A m \in 1..n : Leader(m) \in kept => \E p \in 1..a : at[p] = m
    BY <1>3, <1>5 DEF Grouped
  <2>5. \A p, q \in 1..a : at[p] = at[q] => p = q
    BY <1>5 DEF Grouped
  <2>6. \A p \in 1..a :
          \E q \in 1..p : at[q] = Leader(at[p]) /\ \A r \in q..p : Leader(at[r]) = Leader(at[p])
    <3>. TAKE p \in 1..a
    <3>1. PICK q \in 1..p : at[q] = lead[at[p]] /\ \A r \in q..p : lead[at[r]] = lead[at[p]]
      BY <1>5 DEF Grouped
    <3>2. \A r \in q..p : r \in 1..a
      BY <2>2
    <3>3. \A r \in 1..a : lead[at[r]] = Leader(at[r])
      BY <1>3, <2>2
    <3>4. at[q] = Leader(at[p]) /\ \A r \in q..p : Leader(at[r]) = Leader(at[p])
      BY <3>1, <3>2, <3>3
    <3>. QED
      BY <3>4
  <2>. QED
    BY <2>1, <2>2, <2>3, <2>4, <2>5, <2>6
<1>. HIDE DEF a
<1>8. /\ f \in Messages /\ f.role = "system" /\ f.turn = 0
      /\ f.size = Preamble + MapSize + SummaryFor(kept)
      /\ f.stands = UNION {native[k].stands : k \in MembersOf(CondensedGroups(kept))}
  <2>1. SummaryFor(kept) \in Nat /\ Preamble \in Nat \ {0} /\ MapSize \in Nat
    BY CompilerAssumption DEF SummaryFor
  <2>2. Preamble + MapSize + SummaryFor(kept) \in Nat \ {0}
    BY <2>1
  <2>3. \A k \in MembersOf(CondensedGroups(kept)) : native[k].stands \subseteq Nat
    BY <1>1 DEF MembersOf, Messages
  <2>4. UNION {native[k].stands : k \in MembersOf(CondensedGroups(kept))} \subseteq Nat
    BY <2>3
  <2>. QED
    BY <2>2, <2>4 DEF Msg, Messages
<1>. HIDE DEF f
<1>9. w \in Seq(Messages) /\ Len(w) = a /\ \A p \in 1..a : w[p] = native[at[p]]
  BY <1>1, <1>7
<1>. HIDE DEF w
<1>10. /\ v \in Seq(Messages) /\ DOMAIN v = 1..(a + 1) /\ v[1] = f
       /\ \A p \in 1..a : v[p + 1] = native[at[p]]
  <2>1. <<f>> \in Seq(Messages) /\ Len(<<f>>) = 1 /\ <<f>>[1] = f
    BY <1>8
  <2>2. v \in Seq(Messages) /\ Len(v) = 1 + a /\ v[1] = f /\ \A p \in 1..a : v[1 + p] = w[p]
    BY <1>9, <2>1, Both
  <2>. HIDE DEF v
  <2>3. DOMAIN v = 1..(1 + a) /\ 1 + a = a + 1
    BY <1>7, <2>2
  <2>4. \A p \in 1..a : 1 + p = p + 1
    BY <1>7
  <2>. QED
    BY <1>9, <2>2, <2>3, <2>4
<1>. HIDE DEF v
<1>11. Len(v) = a + 1
  BY <1>7, <1>10
<1>12. Showing(v, at, kept)
  <2>1. at \in Seq(DOMAIN native)
    BY <1>1, <1>7
  <2>. HIDE DEF at, v
  <2>2. \A m \in DOMAIN native : Leader(m) \in kept => \E p \in 1..Len(at) : at[p] = m
    BY <1>1, <1>7 DEF a
  <2>. QED
    BY <1>7, <1>8, <1>10, <1>11, <2>1, <2>2 DEF Showing, a
<1>. QED
  BY <1>6, <1>12

(* A request made of groups is one of whole groups.                         *)
LEMMA AssembledOK ==
  ASSUME ChatOK(chat), NativeOK(chat, native), NEW kept \in SUBSET Leaders
  PROVE  NativeOK(chat, Assembled(kept)) /\ Whole(chat, Assembled(kept))
<1>. DEFINE n == Len(native)
            v == Assembled(kept)
            f == v[1]
<1>1. n \in Nat /\ DOMAIN native = 1..n /\ \A k \in 1..n : native[k] \in Messages
  BY DEF NativeOK
<1>. HIDE DEF n
<1>2. /\ \A k \in 1..n : Leader(k) \in 1..k /\ Leader(Leader(k)) = Leader(k)
      /\ \A k \in 1..n : native[k].role # "tool" => Leader(k) = k
      /\ \A k \in 1..n :
           native[k].role = "tool" => native[Leader(k)].role = "assistant" /\ Leader(k) # k
      /\ \A k \in 1..n : native[Leader(k)].turn = native[k].turn
      /\ \A k, l \in 1..n :
           native[k].role = "assistant" /\ native[l].turn = native[k].turn => Leader(l) = k
  BY <1>1, LeadersOf
<1>3. PICK at : Showing(v, at, kept)
  BY AssembledShows
<1>. DEFINE a == Len(at)
<1>. HIDE DEF v
<1>7. /\ at \in Seq(1..n) /\ a \in Nat /\ DOMAIN at = 1..a
      /\ \A p \in 1..a : at[p] \in 1..n /\ Leader(at[p]) \in kept
      /\ \A m \in 1..n : Leader(m) \in kept => \E p \in 1..a : at[p] = m
      /\ \A p, q \in 1..a : at[p] = at[q] => p = q
      /\ \A p \in 1..a :
           \E q \in 1..p : at[q] = Leader(at[p]) /\ \A r \in q..p : Leader(at[r]) = Leader(at[p])
  <2>1. at \in Seq(1..n)
    BY <1>1, <1>3 DEF Showing
  <2>2. a \in Nat /\ DOMAIN at = 1..a /\ \A p \in 1..a : at[p] \in 1..n
    BY ONLY <2>1, Places
  <2>. QED
    BY <1>1, <1>3, <2>1, <2>2 DEF Showing
<1>8. /\ f.role = "system" /\ f.turn = 0
      /\ f.stands = UNION {native[k].stands : k \in MembersOf(CondensedGroups(kept))}
  BY <1>3 DEF Showing
<1>10. /\ v \in Seq(Messages) /\ DOMAIN v = 1..(a + 1) /\ v[1] = f
       /\ \A p \in 1..a : v[p + 1] = native[at[p]]
  <2>1. v \in Seq(Messages) /\ Len(v) = a + 1 /\ \A p \in 1..a : v[p + 1] = native[at[p]]
    BY <1>3 DEF Showing
  <2>. QED
    BY <2>1
<1>. HIDE DEF a, f
<1>11. \A k \in DOMAIN v : k = 1 \/ (k - 1 \in 1..a /\ v[k] = native[at[k - 1]])
  <2>1. \A k \in 1..(a + 1) : k = 1 \/ (k - 1 \in 1..a /\ (k - 1) + 1 = k)
    BY <1>7
  <2>. QED
    BY <1>10, <2>1
<1>12. \A i \in f.stands : \E k \in 1..n : i \in native[k].stands /\ Leader(k) \notin kept
  BY <1>1, <1>8 DEF MembersOf, CondensedGroups
<1>13. \A k \in 1..n : Leader(k) \notin kept => native[k].stands \subseteq f.stands
  <2>1. \A k \in 1..n : Leader(k) \notin kept => k \in MembersOf(CondensedGroups(kept))
    BY <1>1 DEF MembersOf, CondensedGroups, Leaders
  <2>. QED
    BY <1>8, <2>1
<1>14. /\ \A k \in 1..n : native[k].stands \subseteq DOMAIN chat /\ Shown(chat, native[k])
       /\ \A k \in 1..n : native[k].role = "tool" => native[k].calls # {} /\ Answered(native, k)
       /\ \A i \in DOMAIN chat : \E k \in 1..n : i \in native[k].stands
       /\ \A j, k \in 1..n : j # k => native[j].stands \cap native[k].stands = {}
       /\ \A k \in 1..n, i \in DOMAIN chat :
            native[k].role = "assistant" /\ chat[i].turn = native[k].turn =>
              \E l \in 1..n : native[l] = chat[i]
  BY <1>1 DEF NativeOK
<1>15. \A k \in DOMAIN v : v[k].stands \subseteq DOMAIN chat /\ Shown(chat, v[k])
  <2>1. f.stands \subseteq DOMAIN chat
    BY <1>12, <1>14
  <2>2. Shown(chat, f)
    BY <1>8 DEF Shown
  <2>3. \A p \in 1..a :
          native[at[p]].stands \subseteq DOMAIN chat /\ Shown(chat, native[at[p]])
    BY <1>7, <1>14
  <2>. QED
    BY <1>10, <1>11, <2>1, <2>2, <2>3
<1>16. ASSUME NEW k \in DOMAIN v, v[k].role = "tool"
       PROVE  v[k].calls # {} /\ Answered(v, k) /\ k > 1 /\ v[k - 1].turn = v[k].turn
  <2>. DEFINE p == k - 1
  <2>1. p \in 1..a /\ v[k] = native[at[p]] /\ at[p] \in 1..n /\ k = p + 1
    BY <1>7, <1>8, <1>10, <1>11, <1>16
  <2>. HIDE DEF p
  <2>2. PICK q \in 1..p :
          at[q] = Leader(at[p]) /\ \A r \in q..p : Leader(at[r]) = Leader(at[p])
    BY <1>7, <2>1
  <2>3. native[at[q]].role = "assistant" /\ at[q] # at[p] /\ native[at[q]].turn = native[at[p]].turn
    BY <1>2, <1>16, <2>1, <2>2
  <2>4. q < p /\ p \in Nat /\ q \in 1..a /\ q \in Nat /\ q >= 1
    BY <1>7, <2>1, <2>3
  <2>5. native[at[p]].calls # {} /\ native[at[p]].calls \subseteq native[at[q]].calls
    <3>1. native[at[p]].role = "tool" /\ Answered(native, at[p])
      BY <1>14, <1>16, <2>1
    <3>2. PICK j \in 1..(at[p] - 1) :
            /\ native[j].role = "assistant" /\ native[j].turn = native[at[p]].turn
            /\ native[at[p]].calls \subseteq native[j].calls
      BY <3>1 DEF Answered
    <3>3. j \in 1..n
      BY <1>1, <2>1, <3>2
    <3>4. Leader(at[p]) = j
      BY <1>2, <2>1, <3>2, <3>3
    <3>. QED
      BY <1>14, <2>1, <2>2, <3>1, <3>2, <3>4
  <2>6. \A r \in (q + 1)..p : r \in 1..a /\ r \in q..p /\ r # q
    BY <1>7, <2>1, <2>4
  <2>7. \A r \in (q + 1)..p : native[at[r]].role # "assistant"
    <3>. TAKE r \in (q + 1)..p
    <3>1. at[r] # at[q] /\ at[r] \in 1..n
      BY <1>7, <2>4, <2>6
    <3>2. Leader(at[r]) = at[q]
      BY <2>2, <2>6
    <3>. QED
      BY <1>2, <3>1, <3>2
  <2>8. \A l \in (q + 1 + 1)..p : l - 1 \in (q + 1)..p /\ l - 1 \in 1..a /\ (l - 1) + 1 = l
    BY <1>7, <2>1, <2>4
  <2>9. \A l \in (q + 1 + 1)..p : v[l].role # "assistant"
    BY <1>10, <2>7, <2>8
  <2>10. q + 1 \in 1..p /\ v[q + 1] = native[at[q]] /\ k - 1 = p
    BY <1>10, <2>1, <2>4
  <2>11. Answered(v, k)
    <3>1. v[q + 1].role = "assistant" /\ v[q + 1].turn = v[k].turn /\ v[k].calls \subseteq v[q + 1].calls
      BY <2>1, <2>3, <2>5, <2>10
    <3>. QED
      BY <2>9, <2>10, <3>1 DEF Answered
  <2>12. k > 1 /\ p - 1 \in q..p /\ p - 1 \in 1..a /\ (p - 1) + 1 = p
    BY <1>7, <2>1, <2>4
  <2>13. v[p] = native[at[p - 1]] /\ at[p - 1] \in 1..n
    BY <1>7, <1>10, <2>12
  <2>14. Leader(at[p - 1]) = Leader(at[p])
    BY <2>2, <2>12
  <2>15. native[at[p - 1]].turn = native[at[p]].turn
    BY <1>2, <2>1, <2>13, <2>14
  <2>. QED
    BY <2>1, <2>5, <2>10, <2>11, <2>12, <2>13, <2>15
<1>17. \A i \in DOMAIN chat : \E k \in DOMAIN v : i \in v[k].stands
  <2>. TAKE i \in DOMAIN chat
  <2>1. PICK m \in 1..n : i \in native[m].stands
    BY <1>14
  <2>2. CASE Leader(m) \in kept
    <3>1. PICK p \in 1..a : at[p] = m
      BY <1>7, <2>2
    <3>2. p + 1 \in DOMAIN v /\ v[p + 1] = native[m]
      BY <1>7, <1>10, <3>1
    <3>. QED
      BY <2>1, <3>2
  <2>3. CASE Leader(m) \notin kept
    <3>1. i \in f.stands /\ 1 \in DOMAIN v
      BY <1>7, <1>10, <1>13, <2>1, <2>3
    <3>. QED
      BY <1>10, <3>1
  <2>. QED
    BY <2>2, <2>3
<1>18. \A j, k \in DOMAIN v : j # k => v[j].stands \cap v[k].stands = {}
  <2>1. \A p \in 1..a : f.stands \cap native[at[p]].stands = {}
    <3>. TAKE p \in 1..a
    <3>. SUFFICES ASSUME NEW i \in f.stands, i \in native[at[p]].stands PROVE FALSE
      OBVIOUS
    <3>1. PICK m \in 1..n : i \in native[m].stands /\ Leader(m) \notin kept
      BY <1>12
    <3>2. at[p] \in 1..n /\ Leader(at[p]) \in kept
      BY <1>7
    <3>3. m # at[p]
      BY <3>1, <3>2
    <3>. QED
      BY <1>14, <3>1, <3>2, <3>3
  <2>2. \A p, q \in 1..a : p # q => native[at[p]].stands \cap native[at[q]].stands = {}
    BY <1>7, <1>14
  <2>3. \A j, k \in DOMAIN v : j # k => j = 1 \/ k = 1 \/ (j - 1 # k - 1)
    BY <1>7, <1>10
  <2>. SUFFICES ASSUME NEW j \in DOMAIN v, NEW k \in DOMAIN v, j # k
                PROVE  v[j].stands \cap v[k].stands = {}
    OBVIOUS
  <2>4. CASE j = 1
    BY <1>10, <1>11, <2>1, <2>4
  <2>5. CASE k = 1
    BY <1>10, <1>11, <2>1, <2>5
  <2>6. CASE j # 1 /\ k # 1
    BY <1>11, <2>2, <2>3, <2>6
  <2>. QED
    BY <2>4, <2>5, <2>6
<1>19. ASSUME NEW k \in DOMAIN v, NEW i \in DOMAIN chat,
              v[k].role = "assistant", chat[i].turn = v[k].turn
       PROVE  \E l \in DOMAIN v : v[l] = chat[i]
  <2>1. k - 1 \in 1..a /\ v[k] = native[at[k - 1]] /\ at[k - 1] \in 1..n
    BY <1>7, <1>8, <1>10, <1>11, <1>19
  <2>2. PICK m \in 1..n : native[m] = chat[i]
    BY <1>14, <1>19, <2>1
  <2>3. Leader(m) = at[k - 1] /\ Leader(at[k - 1]) = at[k - 1]
    BY <1>2, <1>19, <2>1, <2>2
  <2>4. PICK p \in 1..a : at[p] = m
    BY <1>7, <2>1, <2>3
  <2>5. p + 1 \in DOMAIN v /\ v[p + 1] = native[m]
    BY <1>7, <1>10, <2>4
  <2>. QED
    BY <2>2, <2>5
<1>20. NativeOK(chat, v)
  BY <1>10, <1>15, <1>16, <1>17, <1>18, <1>19 DEF NativeOK
<1>21. Whole(chat, v)
  <2>1. \A k \in DOMAIN v : v[k].role = "assistant" =>
          Cardinality({j \in DOMAIN v : v[j].turn = v[k].turn})
            = Cardinality({i \in DOMAIN chat : chat[i].turn = v[k].turn})
    BY <1>20, CountsAgree
  <2>. QED
    BY <1>16, <2>1 DEF Whole
<1>. QED
  BY <1>20, <1>21 DEF v

(* The sizes that add up, place by place.                                   *)
SizedBy(g, s, S) ==
  /\ g \in [0..Len(s) -> Nat] /\ g[0] = 0
  /\ \A k \in 1..Len(s) : g[k] = g[k - 1] + (IF k \in S THEN s[k].size ELSE 0)
  /\ SizeOf(s, S) = g[Len(s)]

LEMMA SizesUp ==
  ASSUME NEW s \in Seq(Messages), NEW S PROVE \E g : SizedBy(g, s, S)
<1>. DEFINE n == Len(s)
            add(k) == IF k \in S THEN s[k].size ELSE 0
            upTo[k \in 0..Len(s)] ==
              IF k = 0 THEN 0 ELSE upTo[k - 1] + (IF k \in S THEN s[k].size ELSE 0)
            step == [a \in Nat \X (1..n) |-> a[1] + add(a[2])]
<1>1. n \in Nat /\ \A k \in 1..n : add(k) \in Nat
  <2>1. n \in Nat /\ \A k \in 1..n : s[k] \in Messages
    OBVIOUS
  <2>2. \A m \in Messages : m.size \in Nat
    BY DEF Messages
  <2>. HIDE DEF n
  <2>. QED
    BY <2>1, <2>2
<1>2. step \in [Nat \X (1..n) -> Nat]
  <2>. HIDE DEF add, n
  <2>. QED
    BY <1>1
<1>3. \E g \in [0..n -> Nat] : Folded(g, 0, n, step)
  <2>. HIDE DEF n, step
  <2>. QED
    BY <1>1, <1>2, Folding
<1>4. PICK g \in [0..n -> Nat] : g[0] = 0 /\ \A k \in 1..n : g[k] = step[<<g[k - 1], k>>]
  BY <1>3 DEF Folded
<1>5. ASSUME NEW k \in 1..n PROVE g[k] = g[k - 1] + (IF k \in S THEN s[k].size ELSE 0)
  <2>. HIDE DEF n
  <2>1. k - 1 \in 0..n /\ g[k - 1] \in Nat
    BY <1>1
  <2>2. g[k] = g[k - 1] + add(k)
    <3>. HIDE DEF add
    <3>. QED
      BY <1>4, <2>1
  <2>. QED
    BY <2>2
<1>. HIDE DEF step
<1>6. g = [k \in 0..Len(s) |-> IF k = 0 THEN 0 ELSE g[k - 1] + (IF k \in S THEN s[k].size ELSE 0)]
  <2>1. \A k \in 0..n : k = 0 \/ k \in 1..n
    BY <1>1
  <2>. QED
    BY <1>4, <1>5, <2>1
<1>7. upTo = [k \in 0..Len(s) |->
                IF k = 0 THEN 0 ELSE upTo[k - 1] + (IF k \in S THEN s[k].size ELSE 0)]
  BY <1>6
<1>8. SizeOf(s, S) = upTo[n]
  BY DEF SizeOf
<1>. HIDE DEF upTo
<1>9. upTo[0] = 0 /\ \A k \in 1..n : upTo[k] = upTo[k - 1] + add(k)
  <2>1. 0 \in 0..n /\ \A k \in 1..n : k \in 0..n /\ k # 0
    BY <1>1
  <2>. QED
    BY <1>7, <2>1
<1>. DEFINE T == {k \in 0..n : upTo[k] \in Nat}
<1>10. 0 \in T /\ \A k \in 1..n : k - 1 \in T => k \in T
  <2>. HIDE DEF add, n
  <2>1. 0 \in T
    BY <1>1, <1>9
  <2>2. ASSUME NEW k \in 1..n, k - 1 \in T PROVE k \in T
    <3>1. k \in 0..n /\ upTo[k - 1] \in Nat /\ add(k) \in Nat /\ upTo[k] = upTo[k - 1] + add(k)
      BY <1>1, <1>9, <2>2
    <3>. QED
      BY <3>1
  <2>. QED
    BY <2>1, <2>2
<1>11. \A k \in 0..n : k \in T
  <2>. HIDE DEF T, n
  <2>. QED
    BY <1>1, <1>10, CountUp
<1>12. upTo \in [0..n -> Nat]
  <2>1. \A k \in 0..n : upTo[k] \in Nat
    BY <1>11
  <2>. DEFINE w(k) == IF k = 0 THEN 0 ELSE upTo[k - 1] + add(k)
  <2>2. upTo = [k \in 0..n |-> w(k)]
    BY <1>7
  <2>. HIDE DEF w
  <2>3. DOMAIN upTo = 0..n /\ upTo = [k \in 0..n |-> upTo[k]]
    BY <2>2
  <2>. QED
    BY <2>1, <2>3
<1>13. SizedBy(upTo, s, S)
  BY <1>8, <1>9, <1>12 DEF SizedBy
<1>. QED
  BY <1>13

LEMMA SizeIsNat ==
  ASSUME NEW s \in Seq(Messages), NEW S PROVE SizeOf(s, S) \in Nat
<1>1. PICK g : SizedBy(g, s, S)
  BY SizesUp
<1>2. Len(s) \in 0..Len(s)
  BY Places
<1>. QED
  BY <1>1, <1>2 DEF SizedBy

(* What is taken is of what there was at first and of what was offered.     *)
LEMMA TakenMembers ==
  ASSUME NEW A, NEW order \in Seq(A), NEW cost, \A i \in A : cost[i] \in Nat,
         NEW F, NEW used \in Nat, NEW room
  PROVE  /\ Taken(order, cost, [used |-> used, set |-> F], room) \subseteq F \cup A
         /\ F \subseteq Taken(order, cost, [used |-> used, set |-> F], room)
<1>. DEFINE n == Len(order)
            X == [used : Nat, set : {S \in SUBSET (F \cup A) : F \subseteq S}]
            first == [used |-> used, set |-> F]
            next(r, i) == IF r.used + cost[i] > room THEN r
                          ELSE [used |-> r.used + cost[i], set |-> r.set \cup {i}]
            got[k \in 0..Len(order)] ==
              IF k = 0 THEN first
              ELSE IF got[k - 1].used + cost[order[k]] > room THEN got[k - 1]
              ELSE [used |-> got[k - 1].used + cost[order[k]], set |-> got[k - 1].set \cup {order[k]}]
            step == [a \in X \X (1..n) |-> next(a[1], order[a[2]])]
<1>1. n \in Nat /\ \A k \in 1..n : order[k] \in A
  OBVIOUS
<1>2. first \in X
  OBVIOUS
<1>. HIDE DEF first
<1>3. ASSUME NEW r \in X, NEW i \in A PROVE next(r, i) \in X
  <2>1. r.used + cost[i] \in Nat
    OBVIOUS
  <2>2. r.set \cup {i} \in {S \in SUBSET (F \cup A) : F \subseteq S}
    OBVIOUS
  <2>. QED
    BY <2>1, <2>2
<1>4. step \in [X \X (1..n) -> X]
  <2>. HIDE DEF X, next, n
  <2>. QED
    BY <1>1, <1>3
<1>5. \E g \in [0..n -> X] : Folded(g, first, n, step)
  <2>. HIDE DEF n, step, X
  <2>. QED
    BY <1>1, <1>2, <1>4, Folding
<1>6. PICK g \in [0..n -> X] : g[0] = first /\ \A k \in 1..n : g[k] = step[<<g[k - 1], k>>]
  BY <1>5 DEF Folded
<1>7. ASSUME NEW k \in 1..n
      PROVE  g[k] = IF g[k - 1].used + cost[order[k]] > room THEN g[k - 1]
                    ELSE [used |-> g[k - 1].used + cost[order[k]], set |-> g[k - 1].set \cup {order[k]}]
  <2>. HIDE DEF n, X
  <2>1. k - 1 \in 0..n /\ g[k - 1] \in X
    BY <1>1
  <2>2. g[k] = next(g[k - 1], order[k])
    <3>. HIDE DEF next
    <3>. QED
      BY <1>6, <2>1
  <2>. QED
    BY <2>2
<1>. HIDE DEF step, X
<1>8. g = [k \in 0..Len(order) |->
             IF k = 0 THEN first
             ELSE IF g[k - 1].used + cost[order[k]] > room THEN g[k - 1]
             ELSE [used |-> g[k - 1].used + cost[order[k]], set |-> g[k - 1].set \cup {order[k]}]]
  <2>1. \A k \in 0..n : k = 0 \/ k \in 1..n
    BY <1>1
  <2>. QED
    BY <1>6, <1>7, <2>1
<1>9. got = [k \in 0..Len(order) |->
               IF k = 0 THEN first
               ELSE IF got[k - 1].used + cost[order[k]] > room THEN got[k - 1]
               ELSE [used |-> got[k - 1].used + cost[order[k]], set |-> got[k - 1].set \cup {order[k]}]]
  BY <1>8
<1>10. Taken(order, cost, [used |-> used, set |-> F], room) = got[n].set
  BY DEF Taken, first
<1>. HIDE DEF got
<1>11. got[0] = first /\ \A k \in 1..n : got[k] = next(got[k - 1], order[k])
  <2>1. 0 \in 0..n /\ \A k \in 1..n : k \in 0..n /\ k # 0
    BY <1>1
  <2>. QED
    BY <1>9, <2>1
<1>. HIDE DEF next
<1>. DEFINE T == {k \in 0..n : got[k] \in X}
<1>12. 0 \in T /\ \A k \in 1..n : k - 1 \in T => k \in T
  <2>. HIDE DEF n
  <2>1. 0 \in T
    BY <1>1, <1>2, <1>11
  <2>2. ASSUME NEW k \in 1..n, k - 1 \in T PROVE k \in T
    <3>1. k \in 0..n /\ got[k - 1] \in X /\ got[k] = next(got[k - 1], order[k])
      BY <1>1, <1>11, <2>2
    <3>2. got[k] \in X
      BY <1>1, <1>3, <3>1
    <3>. QED
      BY <3>1, <3>2
  <2>. QED
    BY <2>1, <2>2
<1>13. \A k \in 0..n : k \in T
  <2>. HIDE DEF T, n
  <2>. QED
    BY <1>1, <1>12, CountUp
<1>14. got[n] \in X
  BY <1>1, <1>13
<1>. HIDE DEF n
<1>. QED
  BY <1>10, <1>14 DEF X

LEMMA LessWorthOrders ==
  ASSUME NEW S, S \subseteq Nat, NEW worth, \A i \in S : worth[i] \in Nat
  PROVE  Orders(LessWorth(S, worth), S)
<1>. DEFINE R == LessWorth(S, worth)
<1>1. \A x, y \in S : <<x, y>> \in R <=> worth[x] < worth[y] \/ (worth[x] = worth[y] /\ x < y)
  BY DEF LessWorth
<1>. HIDE DEF R
<1>2. Orders(R, S)
  BY <1>1 DEF Orders
<1>. QED
  BY <1>2 DEF R

(* The best are as many as there are.                                       *)
LEMMA RankedMembers ==
  ASSUME NEW S, S \subseteq Nat, IsFiniteSet(S), NEW worth, \A i \in S : worth[i] \in Nat
  PROVE  Ranked(S, worth) \in Seq(S)
<1>. DEFINE W == {i \in S : worth[i] > 0}
            R == LessWorth(W, worth)
            t == Arranged(W, R)
<1>1. W \subseteq Nat /\ IsFiniteSet(W) /\ W \subseteq S /\ \A i \in W : worth[i] \in Nat
  <2>1. IsFiniteSet(W)
    BY FS_Subset
  <2>. QED
    BY <2>1
<1>. HIDE DEF W
<1>2. Orders(R, W)
  BY <1>1, LessWorthOrders
<1>3. Cardinality(W) \in Nat /\ t \in [1..Cardinality(W) -> W]
  <2>. HIDE DEF R
  <2>. QED
    BY <1>1, <1>2, ArrangedPlaces
<1>4. t \in Seq(S)
  <2>. DEFINE c == Cardinality(W)
  <2>. HIDE DEF t, c
  <2>1. c \in Nat /\ t \in [1..c -> S]
    BY <1>1, <1>3 DEF c
  <2>. QED
    BY ONLY <2>1
<1>5. Reverse(t) \in Seq(S)
  <2>. HIDE DEF t
  <2>1. Len(t) \in Nat /\ \A k \in 1..Len(t) : t[k] \in S /\ (Len(t) - k) + 1 \in 1..Len(t)
    BY <1>4
  <2>. QED
    BY <2>1 DEF Reverse
<1>. QED
  BY <1>5 DEF Ranked, t, R, W

LEMMA InOrderMembers ==
  ASSUME NEW S, S \subseteq Nat, IsFiniteSet(S)
  PROVE  InOrder(S) \in Seq(S) /\ Reverse(InOrder(S)) \in Seq(S)
<1>. DEFINE t == InOrder(S)
<1>1. Cardinality(S) \in Nat /\ t \in [1..Cardinality(S) -> S]
  BY InFrontOrders, ArrangedPlaces DEF InOrder
<1>. HIDE DEF t
<1>2. t \in Seq(S)
  BY <1>1
<1>3. Len(t) \in Nat /\ \A k \in 1..Len(t) : t[k] \in S /\ (Len(t) - k) + 1 \in 1..Len(t)
  BY <1>2
<1>4. Reverse(t) \in Seq(S)
  BY <1>3 DEF Reverse
<1>. QED
  BY <1>2, <1>4 DEF t

LEMMA MaxIs ==
  ASSUME NEW n \in Nat, NEW S, S \subseteq 0..n, S # {}
  PROVE  Max(S) \in S /\ \A x \in S : x <= Max(S)
<1>. DEFINE T == {d \in Nat : n - d \in S}
<1>1. T \subseteq Nat /\ T # {}
  <2>1. PICK x \in S : TRUE
    OBVIOUS
  <2>2. n - x \in Nat /\ n - (n - x) = x
    BY <2>1
  <2>. QED
    BY <2>1, <2>2
<1>. HIDE DEF T
<1>2. PICK d \in T : \A k \in T : d <= k
  BY <1>1, LeastNumber
<1>3. d \in Nat /\ n - d \in S
  BY <1>2 DEF T
<1>4. \A x \in S : x \in Int /\ x <= n - d
  <2>. TAKE x \in S
  <2>1. n - x \in Nat /\ n - (n - x) = x
    OBVIOUS
  <2>2. n - x \in T
    BY <2>1 DEF T
  <2>. QED
    BY <1>2, <1>3, <2>1, <2>2
<1>5. \A x \in S : (\A y \in S : x >= y) => x = n - d
  BY <1>3, <1>4
<1>6. \A y \in S : n - d >= y
  BY <1>3, <1>4
<1>7. Max(S) = n - d
  BY <1>3, <1>5, <1>6 DEF Max
<1>. QED
  BY <1>3, <1>4, <1>7

Parted(parts) ==
  /\ parts.recent \subseteq History /\ parts.raw \subseteq History /\ parts.condensed \subseteq History
  /\ parts.recent \cup parts.raw \cup parts.condensed = History
  /\ Max(History) \in parts.recent

LEMMA HistoryIs ==
  ASSUME ChatOK(chat)
  PROVE  /\ History \subseteq Nat /\ IsFiniteSet(History) /\ Max(History) \in History
         /\ \A i \in History : i \in DOMAIN chat /\ chat[i].size \in Nat
<1>1. /\ Len(chat) \in Nat /\ DOMAIN chat = 1..Len(chat)
      /\ \A i \in DOMAIN chat : chat[i] \in Messages
      /\ 2 \in DOMAIN chat /\ chat[2].role = "user"
  BY DEF ChatOK
<1>2. History \subseteq 1..Len(chat) /\ 2 \in History
  BY <1>1 DEF History
<1>3. IsFiniteSet(History)
  <2>1. IsFiniteSet(1..Len(chat))
    BY <1>1, Interval
  <2>. QED
    BY <1>2, <2>1, FS_Subset
<1>4. Max(History) \in History
  <2>1. History \subseteq 0..Len(chat) /\ History # {}
    BY <1>1, <1>2
  <2>. QED
    BY <1>1, <2>1, MaxIs
<1>5. \A i \in DOMAIN chat : chat[i].size \in Nat
  BY <1>1 DEF Messages
<1>. QED
  BY <1>1, <1>2, <1>3, <1>4, <1>5

LEMMA TextParted ==
  ASSUME ChatOK(chat), NEW worth, \A i \in DOMAIN chat : worth[i] \in Nat
  PROVE  Parted(TextPartition(worth))
<1>. DEFINE cost == [i \in History |-> chat[i].size]
            newest == Max(History)
            older == History \ RecentText
            base == Preamble + SizeOf(chat, RecentText) + SummarySize
            raw == TakenBack(older, worth, cost, base)
<1>1. /\ History \subseteq Nat /\ IsFiniteSet(History) /\ newest \in History
      /\ \A i \in History : cost[i] \in Nat /\ worth[i] \in Nat
  BY HistoryIs
<1>2. RecentText \subseteq History /\ newest \in RecentText
  <2>. DEFINE S == History \ {newest}
  <2>1. S \subseteq Nat /\ IsFiniteSet(S) /\ S \subseteq History
    BY <1>1, FS_Subset
  <2>2. RecentText = Taken(Reverse(InOrder(S)), cost, [used |-> cost[newest], set |-> {newest}], RecentShare)
    BY DEF RecentText
  <2>. HIDE DEF S, cost, newest
  <2>3. Reverse(InOrder(S)) \in Seq(S)
    BY <2>1, InOrderMembers
  <2>4. (\A i \in S : cost[i] \in Nat) /\ cost[newest] \in Nat
    BY <1>1, <2>1
  <2>5. RecentText \subseteq {newest} \cup S /\ {newest} \subseteq RecentText
    BY <2>2, <2>3, <2>4, TakenMembers
  <2>. QED
    BY <1>1, <2>1, <2>5
<1>3. older \subseteq Nat /\ IsFiniteSet(older) /\ older \subseteq History
  BY <1>1, FS_Subset
<1>. HIDE DEF cost, newest, older
<1>4. base \in Nat
  <2>1. chat \in Seq(Messages)
    BY DEF ChatOK
  <2>2. SizeOf(chat, RecentText) \in Nat
    BY <2>1, SizeIsNat
  <2>. QED
    BY <2>2, CompilerAssumption
<1>. HIDE DEF base
<1>5. raw \subseteq older
  <2>1. Ranked(older, worth) \in Seq(older)
    BY <1>1, <1>3, RankedMembers
  <2>2. \A i \in older : cost[i] \in Nat
    BY <1>1, <1>3
  <2>3. Taken(Ranked(older, worth), cost, [used |-> base, set |-> {}], HighMark) \subseteq {} \cup older
    BY <1>4, <2>1, <2>2, TakenMembers
  <2>. QED
    BY <2>3 DEF TakenBack
<1>6. TextPartition(worth) = [recent |-> RecentText, raw |-> raw, condensed |-> older \ raw]
  BY DEF TextPartition, older, base, cost
<1>. HIDE DEF raw
<1>7. RecentText \cup older = History
  BY <1>2 DEF older
<1>. QED
  <2>. DEFINE P == TextPartition(worth)
  <2>1. P.recent = RecentText /\ P.raw = raw /\ P.condensed = older \ raw
    BY <1>6
  <2>. HIDE DEF P
  <2>2. Max(History) \in P.recent
    BY <1>2, <2>1 DEF newest
  <2>3. P.recent \subseteq History /\ P.raw \subseteq History /\ P.condensed \subseteq History
    BY <1>2, <1>3, <1>5, <2>1
  <2>4. P.recent \cup P.raw \cup P.condensed = History
    BY <1>5, <1>7, <2>1
  <2>5. Parted(P)
    BY <2>2, <2>3, <2>4 DEF Parted
  <2>. QED
    BY <2>5 DEF P

(* What is kept of a request are groups of it.                              *)
LEMMA CompiledKept ==
  ASSUME ChatOK(chat), NativeOK(chat, native),
         NEW worth, \A k \in DOMAIN native : worth[k] \in Nat
  PROVE  \E raw \in SUBSET (Leaders \ RecentGroups) : CompiledGroups(worth) = Kept(raw, RecentGroups, worth)
<1>. DEFINE cost == [g \in Leaders |-> SizeOf(native, Members(g))]
            recent == RecentGroups
            S == Leaders \ recent
            base == Preamble + SizeOf(native, MembersOf(recent)) + SummaryFor(recent)
            raw == TakenBack(S, worth, cost, base)
<1>1. native \in Seq(Messages)
  BY DEF NativeOK
<1>2. Leaders \subseteq DOMAIN native
  <2>1. \A k \in DOMAIN native : Leader(k) \in 1..k
    BY LeadersOf
  <2>2. DOMAIN native = 1..Len(native) /\ Len(native) \in Nat
    BY <1>1
  <2>. QED
    BY <2>1, <2>2 DEF Leaders
<1>3. S \subseteq DOMAIN native /\ S \subseteq Nat /\ IsFiniteSet(S)
  <2>1. DOMAIN native = 1..Len(native) /\ Len(native) \in Nat
    BY <1>1
  <2>2. IsFiniteSet(DOMAIN native)
    BY <2>1, Interval
  <2>3. S \subseteq DOMAIN native
    BY <1>2
  <2>4. IsFiniteSet(S)
    BY <2>2, <2>3, FS_Subset
  <2>. QED
    BY <2>1, <2>3, <2>4
<1>4. recent \subseteq Leaders
  BY DEF RecentGroups, LastGroups
<1>5. \A g \in Leaders : cost[g] \in Nat
  BY <1>1, SizeIsNat
<1>6. base \in Nat
  <2>1. SizeOf(native, MembersOf(recent)) \in Nat /\ SummaryFor(recent) \in Nat /\ Preamble \in Nat
    BY <1>1, SizeIsNat, CompilerAssumption DEF SummaryFor
  <2>. QED
    BY <2>1
<1>7. CompiledGroups(worth) = Kept(raw, RecentGroups, worth)
  BY DEF CompiledGroups
<1>. HIDE DEF cost, recent, base
<1>8. S \subseteq Leaders
  OBVIOUS
<1>. HIDE DEF S
<1>9. raw \subseteq S
  <2>1. Ranked(S, worth) \in Seq(S)
    BY <1>3, RankedMembers
  <2>2. \A i \in S : cost[i] \in Nat
    BY <1>5, <1>8
  <2>3. Taken(Ranked(S, worth), cost, [used |-> base, set |-> {}], HighMark) \subseteq {} \cup S
    BY <1>6, <2>1, <2>2, TakenMembers
  <2>. QED
    BY <2>3 DEF TakenBack
<1>. HIDE DEF raw
<1>. QED
  BY <1>7, <1>9 DEF S, recent

LEMMA KeptGroups ==
  ASSUME ChatOK(chat), NativeOK(chat, native),
         NEW worth, \A k \in DOMAIN native : worth[k] \in Nat
  PROVE  CompiledGroups(worth) \in SUBSET Leaders
<1>1. PICK raw \in SUBSET (Leaders \ RecentGroups) : CompiledGroups(worth) = Kept(raw, RecentGroups, worth)
  BY CompiledKept
<1>2. Kept(raw, RecentGroups, worth) \subseteq raw \cup RecentGroups
  BY DEF Kept
<1>3. RecentGroups \subseteq Leaders
  BY DEF RecentGroups, LastGroups
<1>. QED
  BY <1>1, <1>2, <1>3

(* A call that has no result yet is of the last answer, which the request   *)
(* shows.                                                                   *)
OpenOK(c, v, open) ==
  /\ open \in Seq(CallIds)
  /\ open # <<>> =>
       \E i \in DOMAIN c, j \in DOMAIN v :
         /\ c[i].role = "assistant" /\ v[j] = c[i] /\ ToSet(open) \subseteq c[i].calls
         /\ \A l \in DOMAIN c : c[l].role = "assistant" => l <= i
         /\ \A l \in DOMAIN v : v[l].role = "assistant" => l <= j

CompilerInv ==
  /\ ChatOK(chat) /\ NativeOK(chat, native) /\ OpenOK(chat, native, openCalls)
  /\ stage \in {"compile", "queued", "asis", "condensed", "answer"}
  /\ openCalls # <<>> <=> stage \in {"queued", "answer"}
  /\ textParts.recent \cup textParts.raw \cup textParts.condensed \subseteq History
  /\ stage \in {"asis", "condensed"} => Parted(textParts)
  /\ stage = "condensed" => Whole(chat, native)

(* Another message of the run, which may be a result of the last answer.    *)
LEMMA OneMessageMore ==
  ASSUME NEW c, NEW v, ChatOK(c), NativeOK(c, v), NEW m \in Messages,
         m.stands = {Len(c) + 1}, m.turn <= Len(c) + 1,
         m.role = "assistant" => m.turn = Len(c) + 1,
         m.role \in {"system", "user"} => m.turn = 0,
         m.role = "tool" =>
           /\ m.calls # {}
           /\ \E i \in DOMAIN c, j \in DOMAIN v :
                /\ c[i].role = "assistant" /\ v[j] = c[i] /\ m.turn = i /\ m.calls \subseteq c[i].calls
                /\ \A l \in DOMAIN v : v[l].role = "assistant" => l <= j
  PROVE  ChatOK(Append(c, m)) /\ NativeOK(Append(c, m), Append(v, m))
<1>. DEFINE d == Append(c, m)
            w == Append(v, m)
            a == Len(c)
            b == Len(v)
<1>1. c \in Seq(Messages) /\ v \in Seq(Messages) /\ a >= 2 /\ c[2].role = "user"
  BY DEF ChatOK, NativeOK
<1>2. /\ a \in Nat /\ DOMAIN c = 1..a /\ d \in Seq(Messages) /\ Len(d) = a + 1
      /\ DOMAIN d = 1..(a + 1) /\ d[a + 1] = m /\ \A i \in 1..a : d[i] = c[i]
  BY <1>1
<1>3. /\ b \in Nat /\ DOMAIN v = 1..b /\ w \in Seq(Messages) /\ Len(w) = b + 1
      /\ DOMAIN w = 1..(b + 1) /\ w[b + 1] = m /\ \A i \in 1..b : w[i] = v[i]
  BY <1>1
<1>. HIDE DEF a, b, d, w
<1>4. /\ \A i \in 1..(a + 1) : i \in 1..a \/ i = a + 1
      /\ \A k \in 1..(b + 1) : k \in 1..b \/ k = b + 1
      /\ \A i \in 1..a : i \in 1..(a + 1) /\ i # a + 1 /\ ~(a + 1 <= i)
      /\ \A k \in 1..b : k \in 1..(b + 1) /\ k # b + 1
      /\ a + 1 \in 1..(a + 1) /\ b + 1 \in 1..(b + 1) /\ 2 \in 1..a
  BY <1>1, <1>2, <1>3 DEF a
<1>5. /\ m.stands = {a + 1} /\ m.turn <= a + 1
      /\ m.role = "assistant" => m.turn = a + 1
      /\ m.role \in {"system", "user"} => m.turn = 0
  BY DEF a
<1>6. /\ \A i \in 1..a : c[i].stands = {i} /\ c[i].turn <= i
      /\ \A i \in 1..a : c[i].role = "assistant" => c[i].turn = i
      /\ \A i \in 1..a : c[i].role \in {"system", "user"} => c[i].turn = 0
  BY <1>2 DEF ChatOK
<1>7. ChatOK(d)
  <2>1. Len(d) >= 2 /\ d[2].role = "user"
    BY <1>1, <1>2, <1>4 DEF a
  <2>2. \A i \in 1..(a + 1) :
          /\ d[i].stands = {i} /\ d[i].turn <= i
          /\ d[i].role = "assistant" => d[i].turn = i
          /\ d[i].role \in {"system", "user"} => d[i].turn = 0
    BY <1>2, <1>4, <1>5, <1>6
  <2>. QED
    BY <1>2, <2>1, <2>2 DEF ChatOK
<1>8. /\ \A k \in 1..b : v[k].stands \subseteq 1..a /\ Shown(c, v[k])
      /\ \A k \in 1..b : v[k].role = "tool" => v[k].calls # {} /\ Answered(v, k)
      /\ \A i \in 1..a : \E k \in 1..b : i \in v[k].stands
      /\ \A j, k \in 1..b : j # k => v[j].stands \cap v[k].stands = {}
      /\ \A k \in 1..b, i \in 1..a :
           v[k].role = "assistant" /\ c[i].turn = v[k].turn => \E l \in 1..b : v[l] = c[i]
  <2>1. DOMAIN c = 1..a /\ DOMAIN v = 1..b
    BY <1>2, <1>3
  <2>2. /\ \A k \in DOMAIN v : v[k].stands \subseteq DOMAIN c /\ Shown(c, v[k])
        /\ \A k \in DOMAIN v : v[k].role = "tool" => v[k].calls # {} /\ Answered(v, k)
        /\ \A i \in DOMAIN c : \E k \in DOMAIN v : i \in v[k].stands
        /\ \A j, k \in DOMAIN v : j # k => v[j].stands \cap v[k].stands = {}
        /\ \A k \in DOMAIN v, i \in DOMAIN c :
             v[k].role = "assistant" /\ c[i].turn = v[k].turn => \E l \in DOMAIN v : v[l] = c[i]
    BY DEF NativeOK
  <2>. QED
    BY ONLY <2>1, <2>2, Zenon
<1>9. \A x : Shown(c, x) => Shown(d, x)
  BY <1>2, <1>4 DEF Shown
<1>10. Shown(d, m)
  BY <1>2, <1>4 DEF Shown
<1>11. \A k \in DOMAIN w : w[k].stands \subseteq DOMAIN d /\ Shown(d, w[k])
  <2>1. \A k \in 1..b : v[k].stands \subseteq DOMAIN d /\ Shown(d, v[k])
    BY <1>2, <1>4, <1>8, <1>9
  <2>. QED
    BY <1>2, <1>3, <1>4, <1>5, <1>10, <2>1
<1>12. ASSUME NEW k \in DOMAIN w, w[k].role = "tool" PROVE w[k].calls # {} /\ Answered(w, k)
  <2>1. CASE k \in 1..b
    <3>1. v[k].calls # {} /\ Answered(v, k) /\ w[k] = v[k]
      BY <1>3, <1>8, <1>12, <2>1
    <3>2. PICK j \in 1..(k - 1) :
            /\ v[j].role = "assistant" /\ v[j].turn = v[k].turn /\ v[k].calls \subseteq v[j].calls
            /\ \A l \in (j + 1)..(k - 1) : v[l].role # "assistant"
      BY <3>1 DEF Answered
    <3>3. j \in 1..b /\ \A l \in (j + 1)..(k - 1) : l \in 1..b
      BY <1>3, <2>1
    <3>4. w[j] = v[j] /\ \A l \in (j + 1)..(k - 1) : w[l] = v[l]
      BY <1>3, <3>3
    <3>5. Answered(w, k)
      BY <3>1, <3>2, <3>4 DEF Answered
    <3>. QED
      BY <3>1, <3>5
  <2>2. CASE k = b + 1
    <3>1. w[k] = m /\ m.role = "tool"
      BY <1>3, <1>12, <2>2
    <3>2. PICK i \in DOMAIN c, j \in DOMAIN v :
            /\ c[i].role = "assistant" /\ v[j] = c[i] /\ m.turn = i /\ m.calls \subseteq c[i].calls
            /\ \A l \in DOMAIN v : v[l].role = "assistant" => l <= j
      BY <3>1
    <3>3. j \in 1..b /\ w[j] = c[i] /\ c[i].turn = i
      BY <1>2, <1>3, <1>6, <3>2
    <3>4. j \in 1..(k - 1) /\ \A l \in (j + 1)..(k - 1) : l \in 1..b /\ ~(l <= j)
      BY <1>3, <2>2, <3>3
    <3>5. \A l \in (j + 1)..(k - 1) : w[l].role # "assistant"
      BY <1>3, <3>2, <3>4
    <3>6. Answered(w, k)
      BY <3>1, <3>2, <3>3, <3>4, <3>5 DEF Answered
    <3>. QED
      BY <3>1, <3>6
  <2>. QED
    BY <1>3, <1>4, <2>1, <2>2
<1>13. \A i \in DOMAIN d : \E k \in DOMAIN w : i \in w[k].stands
  <2>1. \A i \in 1..a : \E k \in DOMAIN w : i \in w[k].stands
    BY <1>3, <1>4, <1>8
  <2>2. a + 1 \in w[b + 1].stands /\ b + 1 \in DOMAIN w
    BY <1>3, <1>4, <1>5
  <2>. QED
    BY <1>2, <1>4, <2>1, <2>2
<1>14. \A j, k \in DOMAIN w : j # k => w[j].stands \cap w[k].stands = {}
  <2>1. \A k \in 1..b : a + 1 \notin v[k].stands
    BY <1>4, <1>8
  <2>2. \A k \in 1..b : w[k].stands \cap w[b + 1].stands = {}
    BY <1>3, <1>5, <2>1
  <2>. SUFFICES ASSUME NEW j \in DOMAIN w, NEW k \in DOMAIN w, j # k
                PROVE  w[j].stands \cap w[k].stands = {}
    OBVIOUS
  <2>3. CASE j \in 1..b /\ k \in 1..b
    BY <1>3, <1>8, <2>3
  <2>4. CASE j = b + 1
    BY <1>3, <1>4, <2>2, <2>4
  <2>5. CASE k = b + 1
    BY <1>3, <1>4, <2>2, <2>5
  <2>. QED
    BY <1>3, <1>4, <2>3, <2>4, <2>5
<1>15. ASSUME NEW k \in DOMAIN w, NEW i \in DOMAIN d, w[k].role = "assistant", d[i].turn = w[k].turn
       PROVE  \E l \in DOMAIN w : w[l] = d[i]
  <2>1. CASE i = a + 1
    BY <1>2, <1>3, <1>4, <2>1
  <2>2. CASE i \in 1..a /\ k \in 1..b
    <3>1. v[k].role = "assistant" /\ c[i].turn = v[k].turn
      BY <1>2, <1>3, <1>15, <2>2
    <3>2. PICK l \in 1..b : v[l] = c[i]
      BY <1>8, <2>2, <3>1
    <3>. QED
      BY <1>2, <1>3, <1>4, <2>2, <3>2
  <2>3. CASE i \in 1..a /\ k = b + 1
    <3>1. c[i].turn = a + 1 /\ c[i].turn <= i
      BY <1>2, <1>3, <1>5, <1>6, <1>15, <2>3
    <3>. QED
      BY <1>4, <2>3, <3>1
  <2>. QED
    BY <1>2, <1>3, <1>4, <2>1, <2>2, <2>3
<1>16. NativeOK(d, w)
  BY <1>3, <1>11, <1>12, <1>13, <1>14, <1>15 DEF NativeOK
<1>. QED
  BY <1>7, <1>16 DEF d, w

(* What the three steps that add a message share.                           *)
LEMMA AddedHistory ==
  ASSUME ChatOK(chat), NEW m \in Messages, chat' = Append(chat, m) PROVE History \subseteq History'
<1>1. chat \in Seq(Messages)
  BY DEF ChatOK
<1>2. /\ Len(chat) \in Nat /\ DOMAIN chat = 1..Len(chat) /\ DOMAIN chat' = 1..(Len(chat) + 1)
      /\ \A i \in DOMAIN chat : chat'[i] = chat[i]
  BY <1>1
<1>. QED
  BY <1>2 DEF History

LEMMA AddedOpen ==
  ASSUME NEW c, NEW v, ChatOK(c), NativeOK(c, v), NEW open, OpenOK(c, v, open),
         NEW m \in Messages, m.role # "assistant", NEW rest, rest \in Seq(CallIds),
         rest # <<>> => open # <<>> /\ ToSet(rest) \subseteq ToSet(open)
  PROVE  OpenOK(Append(c, m), Append(v, m), rest)
<1>. DEFINE d == Append(c, m)
            w == Append(v, m)
            a == Len(c)
            b == Len(v)
<1>1. /\ a \in Nat /\ DOMAIN c = 1..a
      /\ DOMAIN d = 1..(a + 1) /\ d[a + 1] = m /\ \A i \in 1..a : d[i] = c[i]
  BY DEF ChatOK
<1>2. /\ b \in Nat /\ DOMAIN v = 1..b
      /\ DOMAIN w = 1..(b + 1) /\ w[b + 1] = m /\ \A i \in 1..b : w[i] = v[i]
  BY DEF NativeOK
<1>. HIDE DEF a, b, d, w
<1>3. ASSUME rest # <<>>
      PROVE  \E i \in DOMAIN d, j \in DOMAIN w :
               /\ d[i].role = "assistant" /\ w[j] = d[i] /\ ToSet(rest) \subseteq d[i].calls
               /\ \A l \in DOMAIN d : d[l].role = "assistant" => l <= i
               /\ \A l \in DOMAIN w : w[l].role = "assistant" => l <= j
  <2>1. PICK i \in DOMAIN c, j \in DOMAIN v :
          /\ c[i].role = "assistant" /\ v[j] = c[i] /\ ToSet(open) \subseteq c[i].calls
          /\ \A l \in DOMAIN c : c[l].role = "assistant" => l <= i
          /\ \A l \in DOMAIN v : v[l].role = "assistant" => l <= j
    BY <1>3 DEF OpenOK
  <2>2. i \in DOMAIN d /\ j \in DOMAIN w /\ d[i] = c[i] /\ w[j] = v[j]
    BY <1>1, <1>2
  <2>3. \A l \in DOMAIN d : d[l].role = "assistant" => l <= i
    <3>1. \A l \in DOMAIN d : l \in 1..a \/ l = a + 1
      BY <1>1
    <3>. QED
      BY <1>1, <2>1, <3>1
  <2>4. \A l \in DOMAIN w : w[l].role = "assistant" => l <= j
    <3>1. \A l \in DOMAIN w : l \in 1..b \/ l = b + 1
      BY <1>2
    <3>. QED
      BY <1>2, <2>1, <3>1
  <2>. QED
    BY <1>3, <2>1, <2>2, <2>3, <2>4
<1>4. OpenOK(d, w, rest)
  BY <1>3 DEF OpenOK
<1>. QED
  BY <1>4 DEF d, w

LEMMA CompilerBegins == CompilerInit => CompilerInv
<1>. SUFFICES ASSUME CompilerInit PROVE CompilerInv
  OBVIOUS
<1>1. PICK n \in Sizes : chat = <<Msg("system", 1, {}, 0, {1}), Msg("user", n, {}, 0, {2})>>
  BY DEF CompilerInit
<1>2. n \in Nat \ {0} /\ 1 \in Nat \ {0}
  BY CompilerAssumption
<1>. DEFINE x == Msg("system", 1, {}, 0, {1})
            y == Msg("user", n, {}, 0, {2})
<1>3. /\ x \in Messages /\ x.role = "system" /\ x.turn = 0 /\ x.stands = {1}
      /\ y \in Messages /\ y.role = "user" /\ y.turn = 0 /\ y.stands = {2}
  BY <1>2 DEF Msg, Messages
<1>. HIDE DEF x, y
<1>4. /\ chat \in Seq(Messages) /\ Len(chat) = 2 /\ DOMAIN chat = {1, 2}
      /\ chat[1] = x /\ chat[2] = y
  <2>1. chat = <<x, y>>
    BY <1>1 DEF x, y
  <2>2. 1..2 = {1, 2}
    OBVIOUS
  <2>. QED
    BY <1>3, <2>1, <2>2
<1>5. native = chat /\ openCalls = <<>> /\ stage = "compile"
      /\ textParts.recent = {} /\ textParts.raw = {} /\ textParts.condensed = {}
  BY DEF CompilerInit
<1>6. ChatOK(chat)
  <2>1. \A i \in DOMAIN chat :
          /\ chat[i].stands = {i} /\ chat[i].turn <= i
          /\ chat[i].role = "assistant" => chat[i].turn = i
          /\ chat[i].role \in {"system", "user"} => chat[i].turn = 0
    BY <1>3, <1>4
  <2>. QED
    BY <1>3, <1>4, <2>1 DEF ChatOK
<1>7. NativeOK(chat, chat)
  <2>1. \A k \in DOMAIN chat : chat[k].stands \subseteq DOMAIN chat /\ Shown(chat, chat[k])
    BY <1>3, <1>4 DEF Shown
  <2>2. \A k \in DOMAIN chat : chat[k].role # "tool" /\ chat[k].role # "assistant" /\ k \in chat[k].stands
    BY <1>3, <1>4
  <2>3. \A j, k \in DOMAIN chat : j # k => chat[j].stands \cap chat[k].stands = {}
    BY <1>3, <1>4
  <2>. QED
    BY <1>4, <2>1, <2>2, <2>3 DEF NativeOK
<1>8. OpenOK(chat, chat, <<>>)
  BY DEF OpenOK
<1>. QED
  BY <1>5, <1>6, <1>7, <1>8 DEF CompilerInv

(* An answer with calls, a result and a notice.                             *)
LEMMA AnswerKeeps ==
  ASSUME CompilerInv, NEW ids \in Batches, NEW size \in Sizes, AnswerWithCalls(ids, size)
  PROVE  CompilerInv'
<1>. DEFINE m == NewMsg("assistant", size, ToSet(ids), Len(chat) + 1)
<1>1. ChatOK(chat) /\ NativeOK(chat, native)
  BY DEF CompilerInv
<1>2. /\ ids \in Seq(CallIds) /\ ids # <<>> /\ ToSet(ids) \subseteq CallIds /\ size \in Nat \ {0}
  <2>1. ids \in Seq(CallIds) /\ ids # <<>> /\ size \in Nat \ {0}
    BY CompilerAssumption DEF CallIds
  <2>2. ToSet(ids) \subseteq CallIds
    BY DEF CallIds
  <2>. QED
    BY <2>1, <2>2
<1>3. Len(chat) \in Nat /\ DOMAIN chat = 1..Len(chat) /\ Len(native) \in Nat /\ DOMAIN native = 1..Len(native)
  BY <1>1 DEF ChatOK, NativeOK
<1>4. /\ m \in Messages /\ m.stands = {Len(chat) + 1} /\ m.turn = Len(chat) + 1
      /\ m.role = "assistant" /\ m.calls = ToSet(ids)
  BY <1>2, <1>3 DEF NewMsg, Msg, Messages
<1>5. /\ chat' = Append(chat, m) /\ native' = Append(native, m) /\ UNCHANGED textParts
      /\ openCalls' = ids /\ stage' = "answer"
  BY DEF AnswerWithCalls, AddMessage
<1>. HIDE DEF m
<1>6. ChatOK(chat') /\ NativeOK(chat', native')
  <2>1. m.turn <= Len(chat) + 1 /\ ~(m.role \in {"system", "user"}) /\ m.role # "tool"
    BY <1>3, <1>4
  <2>. QED
    BY <1>1, <1>4, <1>5, <2>1, OneMessageMore
<1>7. OpenOK(chat', native', openCalls')
  <2>1. /\ DOMAIN chat' = 1..(Len(chat) + 1) /\ chat'[Len(chat) + 1] = m
        /\ DOMAIN native' = 1..(Len(native) + 1) /\ native'[Len(native) + 1] = m
    BY <1>1, <1>4, <1>5 DEF ChatOK, NativeOK
  <2>2. Len(chat) + 1 \in DOMAIN chat' /\ \A l \in DOMAIN chat' : l <= Len(chat) + 1
    BY <1>3, <2>1
  <2>3. Len(native) + 1 \in DOMAIN native' /\ \A l \in DOMAIN native' : l <= Len(native) + 1
    BY <1>3, <2>1
  <2>. QED
    BY <1>2, <1>4, <1>5, <2>1, <2>2, <2>3 DEF OpenOK
<1>8. History \subseteq History'
  BY <1>1, <1>4, <1>5, AddedHistory
<1>. QED
  BY <1>2, <1>5, <1>6, <1>7, <1>8 DEF CompilerInv

LEMMA ResultKeeps ==
  ASSUME CompilerInv, NEW size \in Sizes, AddResult(size) PROVE CompilerInv'
<1>. DEFINE t == Max({i \in DOMAIN chat : chat[i].role = "assistant"})
            m == NewMsg("tool", size, {Head(openCalls)}, t)
<1>1. ChatOK(chat) /\ NativeOK(chat, native) /\ OpenOK(chat, native, openCalls)
  BY DEF CompilerInv
<1>2. openCalls # <<>> /\ openCalls \in Seq(CallIds)
  BY <1>1 DEF CompilerInv, AddResult, OpenOK
<1>3. Len(chat) \in Nat /\ DOMAIN chat = 1..Len(chat) /\ Len(native) \in Nat /\ DOMAIN native = 1..Len(native)
  BY <1>1 DEF ChatOK, NativeOK
<1>4. PICK i \in DOMAIN chat, j \in DOMAIN native :
        /\ chat[i].role = "assistant" /\ native[j] = chat[i] /\ ToSet(openCalls) \subseteq chat[i].calls
        /\ \A l \in DOMAIN chat : chat[l].role = "assistant" => l <= i
        /\ \A l \in DOMAIN native : native[l].role = "assistant" => l <= j
  BY <1>1, <1>2 DEF OpenOK
<1>5. t = i
  <2>. DEFINE S == {l \in DOMAIN chat : chat[l].role = "assistant"}
  <2>1. i \in S /\ \A l \in S : l \in Int /\ l <= i
    BY <1>3, <1>4
  <2>. HIDE DEF S
  <2>2. (\A y \in S : i >= y) /\ \A x \in S : (\A y \in S : x >= y) => x = i
    BY <2>1
  <2>3. Max(S) = i
    BY <2>1, <2>2 DEF Max
  <2>. QED
    BY <2>3 DEF S
<1>6. /\ Head(openCalls) \in CallIds /\ Head(openCalls) \in ToSet(openCalls)
      /\ Tail(openCalls) \in Seq(CallIds) /\ ToSet(Tail(openCalls)) \subseteq ToSet(openCalls)
  <2>1. /\ Len(openCalls) \in Nat /\ Len(openCalls) >= 1 /\ DOMAIN openCalls = 1..Len(openCalls)
        /\ Head(openCalls) = openCalls[1] /\ Tail(openCalls) \in Seq(CallIds)
        /\ Len(Tail(openCalls)) = Len(openCalls) - 1
        /\ \A k \in 1..(Len(openCalls) - 1) : Tail(openCalls)[k] = openCalls[k + 1]
    BY <1>2
  <2>2. DOMAIN Tail(openCalls) = 1..(Len(openCalls) - 1)
    BY <2>1
  <2>3. 1 \in DOMAIN openCalls /\ \A k \in 1..(Len(openCalls) - 1) : k + 1 \in DOMAIN openCalls
    BY <2>1
  <2>4. \A k \in DOMAIN openCalls : openCalls[k] \in CallIds
    BY <1>2
  <2>. QED
    BY <2>1, <2>2, <2>3, <2>4 DEF ToSet
<1>7. /\ m \in Messages /\ m.stands = {Len(chat) + 1} /\ m.turn = i
      /\ m.role = "tool" /\ m.calls = {Head(openCalls)}
  <2>1. size \in Nat \ {0} /\ i \in Nat
    BY <1>3, CompilerAssumption
  <2>. HIDE DEF t
  <2>. QED
    BY <1>3, <1>5, <1>6, <2>1 DEF NewMsg, Msg, Messages
<1>8. /\ chat' = Append(chat, m) /\ native' = Append(native, m) /\ UNCHANGED textParts
      /\ openCalls' = Tail(openCalls)
      /\ stage' = IF Tail(openCalls) = <<>> THEN "compile" ELSE "queued"
  BY DEF AddResult, AddMessage
<1>. HIDE DEF m, t
<1>9. ChatOK(chat') /\ NativeOK(chat', native')
  <2>1. /\ m.turn <= Len(chat) + 1 /\ m.role # "assistant" /\ ~(m.role \in {"system", "user"})
        /\ m.calls # {} /\ m.calls \subseteq chat[i].calls
    BY <1>3, <1>4, <1>6, <1>7
  <2>. QED
    BY <1>1, <1>4, <1>7, <1>8, <2>1, OneMessageMore
<1>10. OpenOK(chat', native', openCalls')
  <2>1. m.role # "assistant"
    BY <1>7
  <2>. QED
    BY <1>1, <1>2, <1>6, <1>7, <1>8, <2>1, AddedOpen
<1>11. History \subseteq History'
  BY <1>1, <1>7, <1>8, AddedHistory
<1>. QED
  BY <1>8, <1>9, <1>10, <1>11 DEF CompilerInv

LEMMA NoticeKeeps ==
  ASSUME CompilerInv, NEW size \in Sizes, AddNotice(size) PROVE CompilerInv'
<1>. DEFINE m == NewMsg("user", size, {}, 0)
<1>1. ChatOK(chat) /\ NativeOK(chat, native) /\ OpenOK(chat, native, openCalls)
  BY DEF CompilerInv
<1>2. Len(chat) \in Nat /\ openCalls \in Seq(CallIds) /\ size \in Nat \ {0}
  BY <1>1, CompilerAssumption DEF ChatOK, OpenOK
<1>3. /\ m \in Messages /\ m.stands = {Len(chat) + 1} /\ m.turn = 0 /\ m.role = "user"
  BY <1>2 DEF NewMsg, Msg, Messages
<1>4. /\ chat' = Append(chat, m) /\ native' = Append(native, m) /\ UNCHANGED textParts
      /\ openCalls' = openCalls
      /\ stage' = IF stage = "queued" THEN "queued" ELSE "compile"
      /\ stage \in {"asis", "condensed", "queued", "compile"}
  BY DEF AddNotice, AddMessage
<1>. HIDE DEF m
<1>5. ChatOK(chat') /\ NativeOK(chat', native')
  <2>1. m.turn <= Len(chat) + 1 /\ m.role # "assistant" /\ m.role # "tool"
    BY <1>2, <1>3
  <2>. QED
    BY <1>1, <1>3, <1>4, <2>1, OneMessageMore
<1>6. OpenOK(chat', native', openCalls')
  <2>1. m.role # "assistant"
    BY <1>3
  <2>. QED
    BY <1>1, <1>2, <1>3, <1>4, <2>1, AddedOpen
<1>7. History \subseteq History'
  BY <1>1, <1>3, <1>4, AddedHistory
<1>. QED
  BY <1>4, <1>5, <1>6, <1>7 DEF CompilerInv

(* The text prompt is put together, and then the request.                   *)
LEMMA TextKeeps ==
  ASSUME ChatOK(chat), NEW worth \in AnyWorth, CompileText(worth) PROVE Parted(textParts')
<1>1. \A i \in DOMAIN chat : worth[i] \in Nat
  <2>. DEFINE X == IF OverHigh("legacy") THEN History \ RecentText ELSE {}
  <2>1. worth \in {[i \in DOMAIN chat |-> IF i \in S THEN w ELSE 0] : S \in SUBSET X, w \in Worths}
    BY DEF AnyWorth
  <2>. HIDE DEF X
  <2>2. PICK S \in SUBSET X, w \in Worths : worth = [i \in DOMAIN chat |-> IF i \in S THEN w ELSE 0]
    BY <2>1
  <2>. QED
    BY <2>2, CompilerAssumption
<1>2. CASE OverHigh("legacy")
  <2>1. textParts' = TextPartition(worth)
    BY <1>2 DEF CompileText
  <2>. QED
    BY <1>1, <2>1, TextParted
<1>3. CASE ~OverHigh("legacy")
  <2>1. textParts' = [recent |-> History, raw |-> {}, condensed |-> {}]
    BY <1>3 DEF CompileText
  <2>2. Max(History) \in History
    BY HistoryIs
  <2>. QED
    BY <2>1, <2>2 DEF Parted
<1>. QED
  BY <1>2, <1>3

LEMMA WorthIs ==
  ASSUME NEW worth \in AnyGroupWorth PROVE \A k \in DOMAIN native : worth[k] \in Nat
<1>. DEFINE X == IF OverHigh("native")
                 THEN {g \in Leaders \ RecentGroups : native[g].role # "system"} ELSE {}
<1>1. worth \in {[k \in DOMAIN native |-> IF k \in S THEN w ELSE 0] : S \in SUBSET X, w \in Worths}
  BY DEF AnyGroupWorth
<1>. HIDE DEF X
<1>2. PICK S \in SUBSET X, w \in Worths : worth = [k \in DOMAIN native |-> IF k \in S THEN w ELSE 0]
  BY <1>1
<1>. QED
  BY <1>2, CompilerAssumption

LEMMA CompileKeeps ==
  ASSUME CompilerInv, NEW t \in AnyWorth, NEW worth \in AnyGroupWorth, Compile(t, worth)
  PROVE  CompilerInv'
<1>1. ChatOK(chat) /\ NativeOK(chat, native) /\ stage = "compile" /\ openCalls = <<>>
  BY DEF CompilerInv, Compile
<1>2. /\ chat' = chat /\ openCalls' = openCalls /\ History' = History /\ CompileText(t)
      /\ native' = IF OverHigh("native") THEN Assembled(CompiledGroups(worth)) ELSE native
      /\ stage' = IF OverHigh("native") THEN "condensed" ELSE "asis"
  BY DEF Compile, History
<1>3. Parted(textParts')
  BY <1>1, <1>2, TextKeeps
<1>4. Parted(textParts)'
  BY <1>2, <1>3 DEF Parted
<1>5. OpenOK(chat', native', openCalls')
  BY <1>1, <1>2 DEF OpenOK
<1>6. NativeOK(chat', native') /\ (stage' = "condensed" => Whole(chat', native'))
  <2>1. CASE OverHigh("native")
    <3>1. \A k \in DOMAIN native : worth[k] \in Nat
      BY WorthIs
    <3>2. CompiledGroups(worth) \in SUBSET Leaders
      BY <1>1, <3>1, KeptGroups
    <3>3. NativeOK(chat, Assembled(CompiledGroups(worth))) /\ Whole(chat, Assembled(CompiledGroups(worth)))
      BY <1>1, <3>2, AssembledOK
    <3>. QED
      BY <1>2, <2>1, <3>3
  <2>2. CASE ~OverHigh("native")
    BY <1>1, <1>2, <2>2
  <2>. QED
    BY <2>1, <2>2
<1>7. stage' \in {"asis", "condensed"}
  BY <1>2
<1>8. (textParts.recent \cup textParts.raw \cup textParts.condensed \subseteq History)'
  BY <1>4 DEF Parted
<1>. QED
  BY <1>1, <1>2, <1>4, <1>5, <1>6, <1>7, <1>8 DEF CompilerInv

LEMMA QueuedKeeps ==
  ASSUME CompilerInv, NEW t \in AnyWorth, TakeQueued(t) PROVE CompilerInv'
<1>1. /\ chat' = chat /\ openCalls' = openCalls /\ native' = native /\ History' = History
      /\ CompileText(t) /\ stage = "queued" /\ stage' = "answer"
  BY DEF TakeQueued, History
<1>2. Parted(textParts')
  BY <1>1, TextKeeps DEF CompilerInv
<1>3. (textParts.recent \cup textParts.raw \cup textParts.condensed \subseteq History)'
  BY <1>1, <1>2 DEF Parted
<1>. QED
  BY <1>1, <1>3 DEF CompilerInv

LEMMA CompilerStep == CompilerInv /\ [CompilerNext]_compilerVars => CompilerInv'
<1>. SUFFICES ASSUME CompilerInv, [CompilerNext]_compilerVars PROVE CompilerInv'
  OBVIOUS
<1>1. CASE \E t \in AnyWorth : TakeQueued(t)
  BY <1>1, QueuedKeeps
<1>2. CASE \E t \in AnyWorth, w \in AnyGroupWorth : Compile(t, w)
  BY <1>2, CompileKeeps
<1>3. CASE \E ids \in Batches, n \in Sizes : AnswerWithCalls(ids, n)
  BY <1>3, AnswerKeeps
<1>4. CASE \E n \in Sizes : AddResult(n)
  BY <1>4, ResultKeeps
<1>5. CASE \E n \in Sizes : AddNotice(n)
  BY <1>5, NoticeKeeps
<1>6. CASE UNCHANGED compilerVars
  <2>1. /\ chat' = chat /\ native' = native /\ openCalls' = openCalls /\ textParts' = textParts
        /\ stage' = stage /\ History' = History
    BY <1>6 DEF compilerVars, History
  <2>2. Parted(textParts)' <=> Parted(textParts)
    BY <2>1 DEF Parted
  <2>. QED
    BY <2>1, <2>2 DEF CompilerInv
<1>. QED
  BY <1>1, <1>2, <1>3, <1>4, <1>5, <1>6 DEF CompilerNext

LEMMA InvGivesWhole == CompilerInv => RequestWhole
<1>. SUFFICES ASSUME CompilerInv PROVE RequestWhole
  OBVIOUS
<1>1. ChatOK(chat) /\ NativeOK(chat, native) /\ OpenOK(chat, native, openCalls)
  BY DEF CompilerInv
<1>2. ASSUME NEW s \in {chat, native}, NEW k \in DOMAIN s
      PROVE  /\ s[k].role \in {"system", "user", "assistant", "tool"}
             /\ s[k].size \in Nat \ {0} /\ s[k].stands \subseteq DOMAIN chat
  <2>1. s \in Seq(Messages)
    BY <1>1 DEF ChatOK, NativeOK
  <2>2. s[k] \in Messages
    BY <2>1
  <2>3. \A i \in DOMAIN chat : chat[i].stands \subseteq DOMAIN chat
    BY <1>1 DEF ChatOK
  <2>4. \A i \in DOMAIN native : native[i].stands \subseteq DOMAIN chat
    BY <1>1 DEF NativeOK
  <2>5. s[k].stands \subseteq DOMAIN chat
    BY <2>3, <2>4
  <2>. QED
    BY <2>2, <2>5 DEF Messages
<1>3. ToSet(openCalls) \subseteq CallIds
  <2>1. openCalls \in Seq(CallIds)
    BY <1>1 DEF OpenOK
  <2>2. \A k \in DOMAIN openCalls : openCalls[k] \in CallIds
    BY <2>1
  <2>. QED
    BY <2>2 DEF ToSet
<1>4. CompilerTypeOK
  BY <1>2, <1>3 DEF CompilerTypeOK, CallIds, CompilerInv
<1>5. GroupsWhole
  BY DEF CompilerInv, GroupsWhole, Whole
<1>6. StandsFor(native) = DOMAIN chat
  <2>1. /\ \A k \in DOMAIN native : native[k].stands \subseteq DOMAIN chat
        /\ \A i \in DOMAIN chat : \E k \in DOMAIN native : i \in native[k].stands
    BY <1>1 DEF NativeOK
  <2>. QED
    BY <2>1 DEF StandsFor
<1>7. Accounted
  <2>1. \A j, k \in DOMAIN native : j # k => native[j].stands \cap native[k].stands = {}
    BY <1>1 DEF NativeOK
  <2>. QED
    BY <1>6, <2>1 DEF CompilerInv, Accounted, Parted
<1>. QED
  BY <1>4, <1>5, <1>7 DEF RequestWhole

(* For any messages, budgets and scores, over any number of compilations: a *)
(* request shows each answer with all its results and nothing in between,   *)
(* and each message of the run is in it once, in full or in a summary       *)
(* (_group_native_messages, _enforce_native_budget).                        *)
THEOREM RequestStaysWhole == CompilerSpec => []RequestWhole
<1>1. CompilerInit => CompilerInv
  BY CompilerBegins
<1>2. CompilerInv /\ [CompilerNext]_compilerVars => CompilerInv'
  BY CompilerStep
<1>3. CompilerInv => RequestWhole
  BY InvGivesWhole
<1>. QED
  BY <1>1, <1>2, <1>3, PTL DEF CompilerSpec

(* Sizes add up.                                                            *)
LEMMA SizesJoin ==
  ASSUME NEW s \in Seq(Messages), NEW S, NEW T, S \cap T = {}
  PROVE  SizeOf(s, S \cup T) = SizeOf(s, S) + SizeOf(s, T)
<1>1. PICK g : SizedBy(g, s, S)
  BY SizesUp
<1>2. PICK h : SizedBy(h, s, T)
  BY SizesUp
<1>3. PICK u : SizedBy(u, s, S \cup T)
  BY SizesUp
<1>. DEFINE n == Len(s)
            K == {k \in 0..n : u[k] = g[k] + h[k]}
<1>4. n \in Nat /\ \A k \in 1..n : s[k].size \in Nat
  <2>1. n \in Nat /\ \A k \in 1..n : s[k] \in Messages
    OBVIOUS
  <2>. QED
    BY <2>1 DEF Messages
<1>5. /\ g \in [0..n -> Nat] /\ h \in [0..n -> Nat] /\ u \in [0..n -> Nat]
      /\ g[0] = 0 /\ h[0] = 0 /\ u[0] = 0
      /\ \A k \in 1..n : g[k] = g[k - 1] + (IF k \in S THEN s[k].size ELSE 0)
      /\ \A k \in 1..n : h[k] = h[k - 1] + (IF k \in T THEN s[k].size ELSE 0)
      /\ \A k \in 1..n : u[k] = u[k - 1] + (IF k \in S \cup T THEN s[k].size ELSE 0)
      /\ SizeOf(s, S) = g[n] /\ SizeOf(s, T) = h[n] /\ SizeOf(s, S \cup T) = u[n]
  BY <1>1, <1>2, <1>3 DEF SizedBy
<1>. HIDE DEF n
<1>6. 0 \in K
  BY <1>4, <1>5
<1>7. ASSUME NEW k \in 1..n, k - 1 \in K PROVE k \in K
  <2>1. k - 1 \in 0..n /\ k \in 0..n /\ u[k - 1] = g[k - 1] + h[k - 1]
    BY <1>4, <1>7
  <2>2. g[k - 1] \in Nat /\ h[k - 1] \in Nat /\ s[k].size \in Nat
    BY <1>4, <1>5, <2>1
  <2>3. /\ g[k] = g[k - 1] + (IF k \in S THEN s[k].size ELSE 0)
        /\ h[k] = h[k - 1] + (IF k \in T THEN s[k].size ELSE 0)
        /\ u[k] = u[k - 1] + (IF k \in S \cup T THEN s[k].size ELSE 0)
    BY <1>5
  <2>4. u[k] = g[k] + h[k]
    BY <2>1, <2>2, <2>3
  <2>. QED
    BY <2>1, <2>4
<1>8. \A k \in 0..n : k \in K
  <2>. HIDE DEF K
  <2>. QED
    BY <1>4, <1>6, <1>7, CountUp
<1>9. n \in K
  BY <1>4, <1>8
<1>. QED
  BY <1>5, <1>9

LEMMA SizeOfOne ==
  ASSUME NEW s \in Seq(Messages)
  PROVE  SizeOf(s, {}) = 0 /\ \A m \in DOMAIN s : SizeOf(s, {m}) = s[m].size
<1>. DEFINE n == Len(s)
<1>1. n \in Nat /\ DOMAIN s = 1..n /\ \A k \in 1..n : s[k].size \in Nat
  <2>1. n \in Nat /\ DOMAIN s = 1..n /\ \A k \in 1..n : s[k] \in Messages
    OBVIOUS
  <2>. QED
    BY <2>1 DEF Messages
<1>2. SizeOf(s, {}) = 0
  <2>1. SizeOf(s, {} \cup {}) = SizeOf(s, {}) + SizeOf(s, {}) /\ SizeOf(s, {}) \in Nat
    BY SizesJoin, SizeIsNat
  <2>2. {} \cup {} = {}
    OBVIOUS
  <2>. QED
    BY <2>1, <2>2
<1>3. ASSUME NEW m \in 1..n PROVE SizeOf(s, {m}) = s[m].size
  <2>1. PICK g : SizedBy(g, s, {m})
    BY SizesUp
  <2>. DEFINE K == {k \in 0..n : g[k] = IF k < m THEN 0 ELSE s[m].size}
  <2>2. /\ g \in [0..n -> Nat] /\ g[0] = 0 /\ SizeOf(s, {m}) = g[n]
        /\ \A k \in 1..n : g[k] = g[k - 1] + (IF k \in {m} THEN s[k].size ELSE 0)
    BY <2>1 DEF SizedBy
  <2>. HIDE DEF n
  <2>3. 0 \in K
    BY <1>1, <2>2
  <2>4. ASSUME NEW k \in 1..n, k - 1 \in K PROVE k \in K
    <3>1. k - 1 \in 0..n /\ k \in 0..n /\ g[k - 1] = IF k - 1 < m THEN 0 ELSE s[m].size
      BY <1>1, <2>4
    <3>2. g[k] = g[k - 1] + (IF k \in {m} THEN s[k].size ELSE 0) /\ s[m].size \in Nat
      BY <1>1, <2>2
    <3>3. CASE k < m
      BY <3>1, <3>2, <3>3
    <3>4. CASE k = m
      BY <3>1, <3>2, <3>4
    <3>5. CASE k > m
      BY <3>1, <3>2, <3>5
    <3>. QED
      BY <1>1, <3>3, <3>4, <3>5
  <2>5. \A k \in 0..n : k \in K
    <3>. HIDE DEF K
    <3>. QED
      BY <1>1, <2>3, <2>4, CountUp
  <2>6. n \in K /\ ~(n < m)
    BY <1>1, <2>5
  <2>. QED
    BY <2>2, <2>6
<1>. QED
  BY <1>1, <1>2, <1>3

(* Messages that are put in other places keep their size.                   *)
Moved(s, S, t, T, at) ==
  /\ T \subseteq DOMAIN t /\ \A p \in T : at[p] \in S /\ s[at[p]].size = t[p].size
  /\ S \subseteq DOMAIN s /\ \A m \in S : \E p \in T : at[p] = m
  /\ \A p, q \in T : at[p] = at[q] => p = q

LEMMA SizesMove ==
  ASSUME NEW s \in Seq(Messages), NEW t \in Seq(Messages), NEW T, NEW S, NEW at, Moved(s, S, t, T, at)
  PROVE  SizeOf(t, T) = SizeOf(s, S)
<1>. USE DEF Moved
<1>. DEFINE n == Len(t)
            upTo(k) == {p \in T : p <= k}
            places(k) == {at[p] : p \in upTo(k)}
            K == {k \in 0..n : SizeOf(t, upTo(k)) = SizeOf(s, places(k))}
<1>1. n \in Nat /\ DOMAIN t = 1..n
  OBVIOUS
<1>. HIDE DEF n
<1>2. 0 \in K
  <2>1. upTo(0) = {}
    BY <1>1
  <2>2. places(0) = {}
    BY <2>1
  <2>. QED
    <3>. HIDE DEF upTo, places
    <3>1. SizeOf(t, upTo(0)) = 0
      BY <2>1, SizeOfOne
    <3>2. SizeOf(s, places(0)) = 0
      BY <2>2, SizeOfOne
    <3>3. 0 \in 0..n
      BY <1>1
    <3>. QED
      BY <3>1, <3>2, <3>3
<1>3. ASSUME NEW k \in 1..n, k - 1 \in K PROVE k \in K
  <2>1. k - 1 \in 0..n /\ k \in 0..n /\ SizeOf(t, upTo(k - 1)) = SizeOf(s, places(k - 1))
    BY <1>1, <1>3
  <2>2. CASE k \notin T
    <3>1. upTo(k) = upTo(k - 1)
      BY <1>1, <2>2
    <3>. QED
      BY <2>1, <3>1
  <2>3. CASE k \in T
    <3>1. upTo(k) = upTo(k - 1) \cup {k} /\ upTo(k - 1) \cap {k} = {}
      BY <1>1, <2>3
    <3>2. \A p \in upTo(k - 1) : p \in T /\ p # k
      BY <1>1
    <3>3. places(k) = places(k - 1) \cup {at[k]}
      BY <3>1
    <3>4. places(k - 1) \cap {at[k]} = {}
      BY <2>3, <3>2
    <3>. HIDE DEF upTo, places
    <3>5. SizeOf(t, upTo(k)) = SizeOf(t, upTo(k - 1)) + t[k].size
      <4>1. SizeOf(t, upTo(k - 1) \cup {k}) = SizeOf(t, upTo(k - 1)) + SizeOf(t, {k})
        BY <3>1, SizesJoin
      <4>2. SizeOf(t, {k}) = t[k].size
        BY <1>1, SizeOfOne
      <4>. QED
        BY <3>1, <4>1, <4>2
    <3>6. SizeOf(s, places(k)) = SizeOf(s, places(k - 1)) + s[at[k]].size
      <4>1. SizeOf(s, places(k - 1) \cup {at[k]}) = SizeOf(s, places(k - 1)) + SizeOf(s, {at[k]})
        BY <3>4, SizesJoin
      <4>2. SizeOf(s, {at[k]}) = s[at[k]].size
        BY <2>3, SizeOfOne
      <4>. QED
        BY <3>3, <4>1, <4>2
    <3>7. s[at[k]].size = t[k].size
      BY <2>3
    <3>. QED
      BY <2>1, <3>5, <3>6, <3>7
  <2>. QED
    BY <2>2, <2>3
<1>4. \A k \in 0..n : k \in K
  <2>. HIDE DEF K
  <2>. QED
    BY <1>1, <1>2, <1>3, CountUp
<1>5. n \in K
  BY <1>1, <1>4
<1>6. upTo(n) = T
  BY <1>1
<1>7. places(n) = S
  <2>1. places(n) = {at[p] : p \in T}
    BY <1>6
  <2>2. \A p \in T : at[p] \in S
    OBVIOUS
  <2>3. \A m \in S : \E p \in T : at[p] = m
    OBVIOUS
  <2>. HIDE DEF places
  <2>. QED
    BY ONLY <2>1, <2>2, <2>3
<1>. QED
  BY <1>5, <1>6, <1>7

(* The size of a request is what its groups were counted with.              *)
LEMMA AssembledSize ==
  ASSUME ChatOK(chat), NativeOK(chat, native), NEW kept \in SUBSET Leaders
  PROVE  SizeAll(Assembled(kept)) = RequestSize(kept)
<1>. DEFINE v == Assembled(kept)
            a == Len(v) - 1
            T == 2..Len(v)
<1>1. PICK at : Showing(v, at, kept)
  BY AssembledShows
<1>. HIDE DEF v
<1>2. native \in Seq(Messages) /\ v \in Seq(Messages)
  BY <1>1 DEF Showing, NativeOK
<1>3. /\ Len(v) \in Nat /\ DOMAIN v = 1..Len(v) /\ Len(at) = a /\ a \in Nat /\ Len(v) = a + 1
      /\ DOMAIN at = 1..a
  <2>1. Len(v) = Len(at) + 1 /\ at \in Seq(DOMAIN native)
    BY <1>1 DEF Showing
  <2>2. Len(at) \in Nat /\ DOMAIN at = 1..Len(at)
    BY <2>1
  <2>3. Len(v) \in Nat /\ DOMAIN v = 1..Len(v)
    BY <1>2
  <2>. QED
    BY <2>1, <2>2, <2>3
<1>4. /\ \A p \in 1..a : at[p] \in DOMAIN native /\ v[p + 1] = native[at[p]] /\ Leader(at[p]) \in kept
      /\ \A m \in DOMAIN native : Leader(m) \in kept => \E p \in 1..a : at[p] = m
      /\ \A p, q \in 1..a : at[p] = at[q] => p = q
      /\ v[1].size = Preamble + MapSize + SummaryFor(kept)
  <2>1. at \in Seq(DOMAIN native)
    BY <1>1 DEF Showing
  <2>2. \A p \in 1..a : at[p] \in DOMAIN native
    BY <1>3, <2>1
  <2>. QED
    BY <1>1, <1>3, <2>2 DEF Showing
<1>. HIDE DEF a
<1>. DEFINE from == [p \in T |-> at[p - 1]]
<1>5. \A p \in T : p \in DOMAIN v /\ p - 1 \in 1..a /\ (p - 1) + 1 = p
  BY <1>3
<1>6. SizeOf(v, T) = SizeOf(native, MembersOf(kept))
  <2>1. T \subseteq DOMAIN v /\ MembersOf(kept) \subseteq DOMAIN native
    BY <1>5 DEF MembersOf
  <2>2. \A p \in T : from[p] \in MembersOf(kept) /\ native[from[p]].size = v[p].size
    BY <1>4, <1>5 DEF MembersOf
  <2>3. \A p, q \in T : from[p] = from[q] => p = q
    <3>1. \A p, q \in T : p - 1 = q - 1 => p = q
      BY <1>3
    <3>. QED
      BY <1>4, <1>5, <3>1
  <2>4. \A m \in MembersOf(kept) : \E p \in T : from[p] = m
    <3>. TAKE m \in MembersOf(kept)
    <3>1. PICK q \in 1..a : at[q] = m
      BY <1>4 DEF MembersOf
    <3>2. q + 1 \in T /\ (q + 1) - 1 = q
      BY <1>3
    <3>3. from[q + 1] = m
      BY <3>1, <3>2
    <3>. QED
      BY <3>2, <3>3
  <2>. HIDE DEF T, from
  <2>5. Moved(native, MembersOf(kept), v, T, from)
    BY <2>1, <2>2, <2>3, <2>4 DEF Moved
  <2>. QED
    BY <1>2, <2>5, SizesMove
<1>7. SizeAll(v) = v[1].size + SizeOf(v, T)
  <2>1. DOMAIN v = {1} \cup T /\ {1} \cap T = {} /\ 1 \in DOMAIN v
    BY <1>3
  <2>. HIDE DEF T
  <2>2. SizeOf(v, {1} \cup T) = SizeOf(v, {1}) + SizeOf(v, T)
    BY <1>2, <2>1, SizesJoin
  <2>3. SizeOf(v, {1}) = v[1].size
    BY <1>2, <2>1, SizeOfOne
  <2>. QED
    BY <2>1, <2>2, <2>3 DEF SizeAll
<1>8. /\ SizeOf(native, MembersOf(kept)) \in Nat /\ SummaryFor(kept) \in Nat
      /\ Preamble \in Nat /\ MapSize \in Nat
  BY <1>2, SizeIsNat, CompilerAssumption DEF SummaryFor
<1>9. SizeAll(v) = Preamble + MapSize + SummaryFor(kept) + SizeOf(native, MembersOf(kept))
  BY <1>4, <1>6, <1>7
<1>. QED
  BY <1>8, <1>9 DEF RequestSize, v

LEMMA MinIs ==
  ASSUME NEW S, S \subseteq Nat, S # {} PROVE Min(S) \in S /\ \A x \in S : Min(S) <= x
<1>1. PICK m \in S : \A k \in S : m <= k
  BY LeastNumber
<1>2. \A x \in S : (\A y \in S : x <= y) => x = m
  BY <1>1
<1>. QED
  BY <1>1, <1>2 DEF Min

LEMMA InOrderIs ==
  ASSUME NEW S, S \subseteq Nat, IsFiniteSet(S)
  PROVE  /\ InOrder(S) \in Seq(S)
         /\ \A x \in S : \E k \in 1..Len(InOrder(S)) : InOrder(S)[k] = x
         /\ \A k, l \in 1..Len(InOrder(S)) : k < l => InOrder(S)[k] < InOrder(S)[l]
<1>. DEFINE t == InOrder(S)
            c == Cardinality(S)
<1>1. /\ c \in Nat /\ t \in [1..c -> S] /\ \A x \in S : \E k \in 1..c : t[k] = x
      /\ \A k, l \in 1..c : k < l <=> <<t[k], t[l]>> \in InFront(S)
  <2>1. Orders(InFront(S), S)
    BY InFrontOrders
  <2>2. t = Arranged(S, InFront(S))
    BY DEF InOrder
  <2>. HIDE DEF t
  <2>. QED
    BY <2>1, <2>2, ArrangedPlaces
<1>2. \A x, y : <<x, y>> \in InFront(S) => x < y
  BY DEF InFront
<1>. HIDE DEF t, c
<1>3. t \in Seq(S) /\ Len(t) = c
  BY <1>1
<1>. QED
  BY <1>1, <1>2, <1>3 DEF t

(* What is sacrificed, one after the other: the raw evidence, and then what *)
(* the model did, the newest last.                                          *)
Said(g) == native[g].role \in {"system", "user"}

LEMMA SacrificeIs ==
  ASSUME NEW raw, NEW recent, raw \cup recent \subseteq DOMAIN native, raw \cap recent = {},
         native \in Seq(Messages), NEW worth, \A k \in DOMAIN native : worth[k] \in Nat
  PROVE  LET order == Sacrifice(raw, recent, worth)
         IN /\ order \in Seq(raw \cup recent)
            /\ \A g \in raw \cup recent :
                 (\E k \in 1..Len(order) : order[k] = g) <=> g \in raw \/ ~Said(g)
            /\ \A g \in recent :
                 ~Said(g) /\ (\A h \in recent : Said(h) \/ h <= g) =>
                   \A k \in 1..Len(order) : order[k] = g <=> k = Len(order)
<1>. DEFINE X == {g \in recent : native[g].role \notin {"system", "user"}}
            A == Arranged(raw, LessWorth(raw, worth))
            B == InOrder(X)
            order == A \o B
            a == Len(A)
            b == Len(B)
<1>1. /\ raw \subseteq Nat /\ X \subseteq Nat /\ IsFiniteSet(raw) /\ IsFiniteSet(X)
      /\ \A g \in raw : worth[g] \in Nat
  <2>1. DOMAIN native = 1..Len(native) /\ Len(native) \in Nat
    OBVIOUS
  <2>2. IsFiniteSet(DOMAIN native)
    BY <2>1, Interval
  <2>3. raw \subseteq DOMAIN native /\ X \subseteq DOMAIN native
    OBVIOUS
  <2>4. IsFiniteSet(raw)
    BY <2>2, <2>3, FS_Subset
  <2>. HIDE DEF X
  <2>5. IsFiniteSet(X)
    BY <2>2, <2>3, FS_Subset
  <2>. QED
    BY <2>1, <2>3, <2>4, <2>5
<1>2. X \subseteq recent /\ \A g \in recent : g \in X <=> ~Said(g)
  BY DEF Said
<1>3. Sacrifice(raw, recent, worth) = order
  BY DEF Sacrifice
<1>. HIDE DEF X
<1>4. /\ A \in Seq(raw) /\ \A g \in raw : \E k \in 1..a : A[k] = g
  <2>. DEFINE c == Cardinality(raw)
  <2>1. Orders(LessWorth(raw, worth), raw)
    BY <1>1, LessWorthOrders
  <2>2. c \in Nat /\ A \in [1..c -> raw] /\ \A g \in raw : \E k \in 1..c : A[k] = g
    BY <1>1, <2>1, ArrangedPlaces
  <2>. HIDE DEF A, c
  <2>3. A \in Seq(raw) /\ Len(A) = c
    BY <2>2
  <2>. QED
    BY <2>2, <2>3
<1>5. /\ B \in Seq(X) /\ \A g \in X : \E k \in 1..b : B[k] = g
      /\ \A k, l \in 1..b : k < l => B[k] < B[l]
  BY <1>1, InOrderIs
<1>. HIDE DEF A, B
<1>6. /\ a \in Nat /\ b \in Nat /\ \A k \in 1..a : A[k] \in raw
      /\ \A k \in 1..b : B[k] \in X
  BY <1>4, <1>5
<1>7. /\ order \in Seq(raw \cup recent) /\ Len(order) = a + b
      /\ \A k \in 1..a : order[k] = A[k]
      /\ \A k \in 1..b : order[a + k] = B[k]
  <2>1. A \in Seq(raw \cup recent) /\ B \in Seq(raw \cup recent)
    BY <1>2, <1>4, <1>5
  <2>. QED
    BY <2>1, Both
<1>. HIDE DEF a, b, order
<1>8. \A k \in 1..Len(order) :
        \/ k \in 1..a /\ order[k] \in raw
        \/ \E l \in 1..b : k = a + l /\ order[k] = B[l] /\ order[k] \in X
  <2>. TAKE k \in 1..Len(order)
  <2>1. k \in 1..a \/ (k - a \in 1..b /\ k = a + (k - a))
    BY <1>6, <1>7
  <2>. QED
    BY <1>6, <1>7, <2>1
<1>9. ASSUME NEW g \in raw \cup recent
      PROVE  (\E k \in 1..Len(order) : order[k] = g) <=> g \in raw \/ ~Said(g)
  <2>1. (\E k \in 1..Len(order) : order[k] = g) => g \in raw \/ ~Said(g)
    BY <1>2, <1>8
  <2>2. CASE g \in raw
    <3>1. PICK k \in 1..a : A[k] = g
      BY <1>4, <2>2 DEF a
    <3>2. k \in 1..Len(order) /\ order[k] = g
      BY <1>6, <1>7, <3>1
    <3>. QED
      BY <2>2, <3>2
  <2>3. CASE g \notin raw /\ ~Said(g)
    <3>1. PICK k \in 1..b : B[k] = g
      BY <1>2, <1>5, <2>3 DEF b
    <3>2. a + k \in 1..Len(order) /\ order[a + k] = g
      BY <1>6, <1>7, <3>1
    <3>. QED
      BY <2>3, <3>2
  <2>. QED
    BY <2>1, <2>2, <2>3
<1>10. ASSUME NEW g \in recent, ~Said(g), \A h \in recent : Said(h) \/ h <= g,
              NEW k \in 1..Len(order)
       PROVE  order[k] = g <=> k = Len(order)
  <2>1. g \in X /\ g \notin raw /\ g \in Nat /\ \A h \in X : h <= g /\ h \in Nat
    BY <1>1, <1>2, <1>10
  <2>2. PICK l \in 1..b : B[l] = g
    BY <1>5, <2>1 DEF b
  <2>3. l = b
    <3>1. CASE l < b
      <4>1. b \in 1..b
        BY <1>6, <2>2
      <4>2. B[l] < B[b] /\ B[b] \in X
        BY <1>5, <1>6, <2>2, <3>1, <4>1 DEF b
      <4>3. B[b] \in Nat /\ B[b] <= g /\ g < B[b] /\ g \in Nat
        BY <2>1, <2>2, <4>2
      <4>. QED
        BY ONLY <4>3
    <3>. QED
      BY <1>6, <2>2, <3>1
  <2>4. order[a + b] = g /\ Len(order) = a + b
    BY <1>7, <2>2, <2>3
  <2>5. ASSUME order[k] = g PROVE k = a + b
    <3>1. PICK i \in 1..b : k = a + i /\ order[k] = B[i]
      BY <1>8, <2>1, <2>5
    <3>2. B[i] = B[b] /\ i \in Nat /\ i <= b /\ b \in 1..b
      BY <1>6, <2>2, <2>3, <2>5, <3>1
    <3>3. ~(i < b)
      <4>1. i < b => B[i] < B[b]
        BY <1>5, <3>1, <3>2 DEF b
      <4>. QED
        BY <2>1, <2>2, <2>3, <3>2, <4>1
    <3>4. i = b
      BY ONLY <3>2, <3>3
    <3>. QED
      BY <3>1, <3>4
  <2>. QED
    BY <2>4, <2>5
<1>. QED
  BY <1>3, <1>7, <1>9, <1>10

LEMMA RequestSizeIsNat ==
  ASSUME native \in Seq(Messages), NEW S PROVE RequestSize(S) \in Nat
<1>1. /\ SizeOf(native, MembersOf(S)) \in Nat /\ SummaryFor(S) \in Nat
      /\ Preamble \in Nat /\ MapSize \in Nat
  BY SizeIsNat, CompilerAssumption DEF SummaryFor
<1>. QED
  BY <1>1 DEF RequestSize

(* What is kept fits, or nothing is left to take away; and what the model   *)
(* did last is taken away only when it does not fit with what then is left. *)
LEMMA KeptIs ==
  ASSUME NEW raw, NEW recent, raw \cup recent \subseteq DOMAIN native, raw \cap recent = {},
         native \in Seq(Messages), NEW worth, \A k \in DOMAIN native : worth[k] \in Nat
  PROVE  LET kept == Kept(raw, recent, worth)
         IN /\ RequestSize(kept) <= UsableBudget \/ \A g \in kept : Said(g)
            /\ \A g \in recent : Said(g) => g \in kept
            /\ \A g \in recent :
                 ~Said(g) /\ (\A h \in recent : Said(h) \/ h <= g) /\ g \notin kept =>
                   (\A h \in kept : Said(h)) /\ RequestSize(kept \cup {g}) > UsableBudget
<1>. DEFINE order == Sacrifice(raw, recent, worth)
            n == Len(order)
            all == raw \cup recent
            without(k) == all \ ToSet(SubSeq(order, 1, k))
            enough == {k \in 0..n : RequestSize(without(k)) <= UsableBudget}
            m == IF enough = {} THEN n ELSE Min(enough)
            kept == Kept(raw, recent, worth)
<1>1. /\ order \in Seq(all)
      /\ \A g \in all : (\E k \in 1..n : order[k] = g) <=> g \in raw \/ ~Said(g)
      /\ \A g \in recent :
           ~Said(g) /\ (\A h \in recent : Said(h) \/ h <= g) => \A k \in 1..n : order[k] = g <=> k = n
  BY SacrificeIs
<1>2. kept = without(m)
  BY DEF Kept
<1>. HIDE DEF order, kept
<1>3. n \in Nat /\ \A k \in 1..n : order[k] \in all
  BY <1>1
<1>4. ASSUME NEW k \in 0..n
      PROVE  without(k) = {g \in all : \A i \in 1..k : order[i] # g}
  <2>. DEFINE t == SubSeq(order, 1, k)
  <2>1. k \in Nat /\ 1 \in Int /\ k \in Int /\ \A i \in 1..k : order[i] \in all
    BY <1>3
  <2>2. /\ t \in Seq(all) /\ Len(t) = IF 1 <= k THEN k - 1 + 1 ELSE 0
        /\ \A i \in 1..(k - 1 + 1) : t[i] = order[1 + i - 1]
    <3>. HIDE DEF all, n
    <3>. QED
      BY <2>1, SubSeqProperties
  <2>. HIDE DEF t, n, all
  <2>3. Len(t) = k /\ DOMAIN t = 1..k
    BY <2>1, <2>2
  <2>4. \A i \in 1..k : i \in 1..(k - 1 + 1) /\ 1 + i - 1 = i
    BY <2>1
  <2>5. \A i \in 1..k : t[i] = order[i]
    BY <2>2, <2>4
  <2>6. \A g : g \in ToSet(t) <=> \E i \in 1..k : order[i] = g
    BY <2>3, <2>5 DEF ToSet
  <2>. QED
    BY <2>6 DEF t
<1>. HIDE DEF without
<1>5. \A k \in 0..n : RequestSize(without(k)) \in Nat
  BY RequestSizeIsNat
<1>6. /\ m \in 0..n
      /\ RequestSize(without(m)) <= UsableBudget \/ m = n
      /\ \A k \in 0..n : k < m => ~(RequestSize(without(k)) <= UsableBudget)
  <2>. HIDE DEF n
  <2>1. CASE enough = {}
    BY <1>3, <2>1
  <2>2. CASE enough # {}
    <3>1. enough \subseteq Nat
      BY <1>3
    <3>2. Min(enough) \in enough /\ \A k \in enough : Min(enough) <= k
      <4>. HIDE DEF enough
      <4>. QED
        BY <2>2, <3>1, MinIs
    <3>3. m = Min(enough)
      BY <2>2
    <3>. HIDE DEF m
    <3>4. m \in enough /\ m \in Nat /\ \A k \in enough : m <= k
      BY <3>1, <3>2, <3>3
    <3>5. ASSUME NEW k \in 0..n, k < m PROVE k \notin enough
      <4>1. k \in Nat /\ ~(m <= k)
        BY <1>3, <3>4, <3>5
      <4>. QED
        BY <3>4, <4>1
    <3>. QED
      BY <3>4, <3>5
  <2>. QED
    BY <2>1, <2>2
<1>. HIDE DEF m, enough, n
<1>7. ASSUME m = n, NEW g \in kept PROVE Said(g)
  <2>1. g \in all /\ \A i \in 1..n : order[i] # g
    BY <1>2, <1>4, <1>6, <1>7
  <2>. QED
    BY <1>1, <2>1
<1>8. RequestSize(kept) <= UsableBudget \/ \A g \in kept : Said(g)
  BY <1>2, <1>6, <1>7
<1>9. ASSUME NEW g \in recent, Said(g) PROVE g \in kept
  <2>1. g \in all /\ g \notin raw
    OBVIOUS
  <2>2. \A i \in 1..n : order[i] # g
    BY <1>1, <1>9, <2>1
  <2>3. \A i \in 1..m : i \in 1..n
    BY <1>3, <1>6
  <2>. QED
    BY <1>2, <1>4, <1>6, <2>1, <2>2, <2>3
<1>10. ASSUME NEW g \in recent, ~Said(g), \A h \in recent : Said(h) \/ h <= g, g \notin kept
       PROVE  (\A h \in kept : Said(h)) /\ RequestSize(kept \cup {g}) > UsableBudget
  <2>1. g \in all /\ \A k \in 1..n : order[k] = g <=> k = n
    BY <1>1, <1>10
  <2>2. PICK i \in 1..m : order[i] = g
    BY <1>2, <1>4, <1>6, <1>10, <2>1
  <2>3. i \in 1..n /\ m = n /\ n - 1 \in 0..n /\ n - 1 < m /\ n \in 1..n
    <3>1. i \in 1..n
      BY <1>3, <1>6, <2>2
    <3>2. i = n
      BY <2>1, <2>2, <3>1
    <3>. QED
      BY <1>3, <1>6, <2>2, <3>1, <3>2
  <2>4. ~(RequestSize(without(n - 1)) <= UsableBudget)
    BY <1>6, <2>3
  <2>5. without(n - 1) = kept \cup {g}
    <3>1. \A k \in 1..n : k = n \/ k \in 1..(n - 1)
      BY <1>3
    <3>2. \A k \in 1..(n - 1) : k \in 1..n /\ k # n
      BY <1>3
    <3>3. without(n - 1) = {h \in all : \A k \in 1..(n - 1) : order[k] # h}
      BY <1>4, <2>3
    <3>4. kept = {h \in all : \A k \in 1..n : order[k] # h}
      BY <1>2, <1>4, <1>6, <2>3
    <3>5. order[n] = g
      BY <2>1, <2>3
    <3>6. \A h \in all : (\A k \in 1..(n - 1) : order[k] # h) <=> (h = g \/ \A k \in 1..n : order[k] # h)
      BY <2>1, <3>1, <3>2, <3>5
    <3>. HIDE DEF all
    <3>. QED
      BY <2>1, <3>3, <3>4, <3>6
  <2>6. RequestSize(kept \cup {g}) \in Nat /\ UsableBudget \in Nat
    BY RequestSizeIsNat, CompilerAssumption
  <2>7. RequestSize(kept \cup {g}) > UsableBudget
    <3>1. ~(RequestSize(kept \cup {g}) <= UsableBudget)
      BY <2>4, <2>5, Zenon
    <3>. QED
      BY <2>6, <3>1
  <2>. QED
    BY <1>7, <2>3, <2>7
<1>. QED
  BY <1>8, <1>9, <1>10 DEF kept

LEMMA SaidStays ==
  ASSUME ChatOK(chat), NativeOK(chat, native), NEW kept \in SUBSET Leaders, \A g \in kept : Said(g)
  PROVE  \A k \in DOMAIN Assembled(kept) : Assembled(kept)[k].role \in {"system", "user"}
<1>. DEFINE v == Assembled(kept)
<1>1. PICK at : Showing(v, at, kept)
  BY AssembledShows
<1>. HIDE DEF v
<1>2. /\ at \in Seq(DOMAIN native) /\ v \in Seq(Messages) /\ Len(v) = Len(at) + 1 /\ v[1].role = "system"
      /\ \A p \in 1..Len(at) : v[p + 1] = native[at[p]] /\ Leader(at[p]) \in kept
  BY <1>1 DEF Showing
<1>3. \A p \in 1..Len(at) : native[at[p]].role \in {"system", "user"}
  <2>. TAKE p \in 1..Len(at)
  <2>1. at[p] \in DOMAIN native /\ Said(Leader(at[p]))
    BY <1>2
  <2>2. native[at[p]].role # "tool"
    <3>1. native[at[p]].role = "tool" => native[Leader(at[p])].role = "assistant"
      BY <2>1, LeadersOf
    <3>. QED
      BY <2>1, <3>1 DEF Said
  <2>3. Leader(at[p]) = at[p]
    BY <2>1, <2>2, LeadersOf
  <2>. QED
    BY <2>1, <2>3 DEF Said
<1>4. \A k \in DOMAIN v : k = 1 \/ (k - 1 \in 1..Len(at) /\ (k - 1) + 1 = k)
  BY <1>2
<1>5. \A k \in DOMAIN v : v[k].role \in {"system", "user"}
  BY <1>2, <1>3, <1>4
<1>. QED
  BY <1>5 DEF v

(* The last groups are recent when they are no more than the floor, or have *)
(* room in the recent share.                                                *)
LEMMA LastKept ==
  ASSUME native \in Seq(Messages), Leaders \subseteq DOMAIN native, NEW g \in Leaders,
         \/ Cardinality({h \in Leaders : h >= g}) <= FloorGroups
         \/ SizeOf(native, MembersOf(LastGroups(Cardinality({h \in Leaders : h >= g})))) <= RecentShare
  PROVE  g \in RecentGroups
<1>. DEFINE H == {h \in Leaders : h >= g}
            c == Cardinality(H)
            most == Cardinality(Leaders)
            least == IF FloorGroups < most THEN FloorGroups ELSE most
            T == {n \in least..most :
                    n = least \/ SizeOf(native, MembersOf(LastGroups(n))) <= RecentShare}
<1>1. IsFiniteSet(Leaders)
  <2>1. DOMAIN native = 1..Len(native) /\ Len(native) \in Nat
    OBVIOUS
  <2>2. IsFiniteSet(DOMAIN native)
    BY <2>1, Interval
  <2>. QED
    BY <2>2, FS_Subset
<1>2. c <= most /\ most \in Nat /\ c \in Nat
  <2>1. H \subseteq Leaders
    OBVIOUS
  <2>. HIDE DEF H
  <2>2. IsFiniteSet(H) /\ Cardinality(H) <= Cardinality(Leaders)
    BY <1>1, <2>1, FS_Subset
  <2>. QED
    BY <1>1, <2>2, FS_CardinalityType
<1>3. FloorGroups \in Nat
  BY CompilerAssumption
<1>4. RecentGroups = LastGroups(Max(T))
  BY DEF RecentGroups
<1>5. c <= FloorGroups \/ SizeOf(native, MembersOf(LastGroups(c))) <= RecentShare
  OBVIOUS
<1>6. c <= FloorGroups => c <= least
  <2>. HIDE DEF c, most
  <2>. QED
    BY <1>2, <1>3
<1>7. g \in LastGroups(Max(T)) <=> c <= Max(T)
  BY DEF LastGroups
<1>. HIDE DEF most, H, c
<1>8. least \in Nat /\ least <= most
  BY <1>2, <1>3
<1>. HIDE DEF least
<1>9. T \subseteq 0..most /\ least \in T
  BY <1>2, <1>8
<1>10. c <= least \/ c \in T
  BY <1>2, <1>5, <1>6, <1>8
<1>. HIDE DEF T
<1>11. Max(T) \in T /\ \A x \in T : x <= Max(T)
  BY <1>2, <1>9, MaxIs
<1>. DEFINE b == Max(T)
<1>12. b \in 0..most /\ least <= b /\ (c \in T => c <= b)
  BY <1>9, <1>11
<1>. HIDE DEF b
<1>13. c <= b
  BY <1>2, <1>8, <1>10, <1>12
<1>. QED
  BY <1>4, <1>7, <1>13 DEF b

(* A compilation keeps to the budget.                                       *)
LEMMA CompileFits ==
  ASSUME ChatOK(chat), NativeOK(chat, native), NEW t \in AnyWorth, NEW worth \in AnyGroupWorth,
         Compile(t, worth)
  PROVE  WithinBudget'
<1>1. native' = IF OverHigh("native") THEN Assembled(CompiledGroups(worth)) ELSE native
  BY DEF Compile
<1>2. native \in Seq(Messages) /\ UsableBudget \in Nat /\ HighMark \in Nat /\ HighMark <= UsableBudget
  BY CompilerAssumption DEF NativeOK
<1>3. CASE OverHigh("native")
  <2>. DEFINE kept == CompiledGroups(worth)
  <2>1. \A k \in DOMAIN native : worth[k] \in Nat
    BY WorthIs
  <2>2. kept \in SUBSET Leaders
    BY <2>1, KeptGroups
  <2>3. PICK raw \in SUBSET (Leaders \ RecentGroups) : kept = Kept(raw, RecentGroups, worth)
    BY <2>1, CompiledKept
  <2>. HIDE DEF kept
  <2>4. raw \cup RecentGroups \subseteq DOMAIN native /\ raw \cap RecentGroups = {}
    <3>1. \A k \in DOMAIN native : Leader(k) \in 1..k
      BY LeadersOf
    <3>2. DOMAIN native = 1..Len(native) /\ Len(native) \in Nat
      BY <1>2
    <3>3. Leaders \subseteq DOMAIN native
      BY <3>1, <3>2 DEF Leaders
    <3>. QED
      BY <3>3 DEF RecentGroups, LastGroups
  <2>5. RequestSize(kept) <= UsableBudget \/ \A g \in kept : Said(g)
    BY <1>2, <2>1, <2>3, <2>4, KeptIs
  <2>6. native' = Assembled(kept)
    BY <1>1, <1>3 DEF kept
  <2>7. CASE RequestSize(kept) <= UsableBudget
    <3>1. SizeAll(Assembled(kept)) <= UsableBudget
      BY <2>2, <2>7, AssembledSize
    <3>2. SizeAll(native') <= UsableBudget
      BY <2>6, <3>1
    <3>. QED
      BY <3>2 DEF WithinBudget
  <2>8. CASE \A g \in kept : Said(g)
    <3>1. \A k \in DOMAIN Assembled(kept) : Assembled(kept)[k].role \in {"system", "user"}
      BY <2>2, <2>8, SaidStays
    <3>2. \A k \in DOMAIN native' : native'[k].role \in {"system", "user"}
      BY <2>6, <3>1
    <3>. QED
      BY <3>2 DEF WithinBudget
  <2>. QED
    BY <2>5, <2>7, <2>8
<1>4. CASE ~OverHigh("native")
  <2>1. SizeAll(native) \in Nat
    BY <1>2, SizeIsNat DEF SizeAll
  <2>2. ~(SizeAll(native) >= HighMark)
    BY <1>4 DEF OverHigh, TokensOf
  <2>3. SizeAll(native) <= UsableBudget
    BY <1>2, <2>1, <2>2
  <2>4. SizeAll(native') <= UsableBudget
    BY <1>1, <1>4, <2>3
  <2>. QED
    BY <2>4 DEF WithinBudget
<1>. QED
  BY <1>3, <1>4

(* An answer is recent when the groups from it on are no more than the      *)
(* floor, or when what came from it on has room in the recent share.        *)
LEMMA NearKept ==
  ASSUME ChatOK(chat), NativeOK(chat, native), NEW j \in Leaders,
         \/ Cardinality({k \in j..Len(native) : native[k].role # "tool"}) <= FloorGroups
         \/ SizeOf(native, j..Len(native)) <= RecentShare
  PROVE  j \in RecentGroups
<1>. DEFINE n == Len(native)
            H == {h \in Leaders : h >= j}
            G == {k \in j..n : native[k].role # "tool"}
            c == Cardinality(H)
            L == LastGroups(c)
            M == MembersOf(L)
<1>1. native \in Seq(Messages) /\ n \in Nat /\ DOMAIN native = 1..n
  BY DEF NativeOK
<1>2. \A k \in DOMAIN native : Leader(k) \in 1..k /\ Leader(Leader(k)) = Leader(k)
  BY LeadersOf
<1>3. Leaders \subseteq DOMAIN native
  BY <1>1, <1>2 DEF Leaders
<1>4. \A h \in Leaders : native[h].role # "tool" /\ h \in 1..n
  <2>. TAKE h \in Leaders
  <2>1. PICK k \in DOMAIN native : h = Leader(k)
    BY DEF Leaders
  <2>2. h \in DOMAIN native /\ Leader(h) = h
    BY <1>2, <1>3, <2>1
  <2>. QED
    BY <1>1, <2>2, LeadersOf
<1>. HIDE DEF n
<1>5. IsFiniteSet(DOMAIN native)
  BY <1>1, Interval
<1>6. IsFiniteSet(Leaders)
  BY <1>3, <1>5, FS_Subset
<1>7. IsFiniteSet(H) /\ c \in Nat
  <2>1. H \subseteq Leaders
    OBVIOUS
  <2>. HIDE DEF H
  <2>2. IsFiniteSet(H)
    BY <1>6, <2>1, FS_Subset
  <2>. QED
    BY <2>2, FS_CardinalityType
<1>8. CASE Cardinality(G) <= FloorGroups
  <2>1. H \subseteq G
    BY <1>1, <1>4
  <2>2. G \subseteq DOMAIN native
    BY <1>1, <1>3
  <2>. HIDE DEF G, H
  <2>3. IsFiniteSet(G)
    BY <1>5, <2>2, FS_Subset
  <2>4. Cardinality(H) <= Cardinality(G) /\ Cardinality(G) \in Nat
    BY <2>1, <2>3, FS_Subset, FS_CardinalityType
  <2>5. FloorGroups \in Nat
    BY CompilerAssumption
  <2>6. c <= FloorGroups
    BY <1>7, <1>8, <2>4, <2>5
  <2>. QED
    BY <1>1, <1>3, <2>6, LastKept DEF H
<1>9. CASE SizeOf(native, j..n) <= RecentShare
  <2>1. \A g \in L : g >= j
    <3>. SUFFICES ASSUME NEW g \in Leaders, ~(g >= j), Cardinality({h \in Leaders : h >= g}) <= c
                  PROVE  FALSE
      BY DEF LastGroups
    <3>. DEFINE K == {h \in Leaders : h >= g}
    <3>1. g \in 1..n /\ j \in 1..n
      BY <1>4
    <3>2. H \cup {g} \subseteq K /\ g \notin H
      <4>1. g <= j /\ g >= g /\ ~(g >= j)
        BY <1>1, <3>1
      <4>2. \A h \in Leaders : h >= j => h >= g
        <5>. TAKE h \in Leaders
        <5>1. h \in 1..n
          BY <1>4
        <5>. QED
          BY <1>1, <3>1, <4>1, <5>1
      <4>. QED
        BY <4>1, <4>2
    <3>3. K \subseteq Leaders /\ Cardinality(K) <= c
      OBVIOUS
    <3>. HIDE DEF H, K
    <3>4. IsFiniteSet(K)
      BY <1>6, <3>3, FS_Subset
    <3>5. Cardinality(H \cup {g}) <= Cardinality(K) /\ Cardinality(K) \in Nat
      BY <3>2, <3>4, FS_Subset, FS_CardinalityType
    <3>6. Cardinality(H \cup {g}) = c + 1
      BY <1>7, <3>2, FS_AddElement
    <3>. HIDE DEF c
    <3>. QED
      BY <1>7, <3>3, <3>5, <3>6
  <2>. HIDE DEF L, c
  <2>2. M \subseteq j..n
    <3>. SUFFICES ASSUME NEW k \in DOMAIN native, Leader(k) \in L PROVE k \in j..n
      BY DEF MembersOf
    <3>1. Leader(k) >= j /\ Leader(k) \in 1..k /\ k \in 1..n /\ j \in 1..n
      BY <1>1, <1>2, <1>4, <2>1
    <3>. QED
      BY <1>1, <3>1
  <2>. HIDE DEF M
  <2>. DEFINE D == (j..n) \ M
  <2>3. j..n = M \cup D /\ M \cap D = {}
    BY <2>2
  <2>. HIDE DEF D
  <2>4. SizeOf(native, M \cup D) = SizeOf(native, M) + SizeOf(native, D)
    BY <1>1, <2>3, SizesJoin
  <2>5. SizeOf(native, j..n) = SizeOf(native, M \cup D)
    BY <2>3
  <2>6. SizeOf(native, M) \in Nat /\ SizeOf(native, D) \in Nat /\ RecentShare \in Nat
    BY <1>1, SizeIsNat, CompilerAssumption
  <2>7. SizeOf(native, M) <= RecentShare
    BY <1>9, <2>4, <2>5, <2>6
  <2>. QED
    BY <1>1, <1>3, <2>7, LastKept DEF M, L, c, H
<1>. QED
  BY <1>8, <1>9 DEF n

(* A message is shown when its group is kept.                               *)
LEMMA KeptShown ==
  ASSUME ChatOK(chat), NativeOK(chat, native), NEW kept \in SUBSET Leaders,
         NEW m \in DOMAIN native, Leader(m) \in kept
  PROVE  \E k \in DOMAIN Assembled(kept) : Assembled(kept)[k] = native[m]
<1>. DEFINE v == Assembled(kept)
<1>1. PICK at : Showing(v, at, kept)
  BY AssembledShows
<1>. HIDE DEF v
<1>2. PICK p \in 1..Len(at) : at[p] = m
  BY <1>1 DEF Showing
<1>3. v[p + 1] = native[m] /\ v \in Seq(Messages) /\ Len(v) = Len(at) + 1 /\ at \in Seq(DOMAIN native)
  BY <1>1, <1>2 DEF Showing
<1>4. p + 1 \in DOMAIN v
  <2>1. Len(at) \in Nat /\ Len(v) = Len(at) + 1 /\ DOMAIN v = 1..Len(v)
    BY <1>3
  <2>. QED
    BY <2>1
<1>. QED
  BY <1>3, <1>4 DEF v

(* A compilation gives up the newest answer only when it does not fit.      *)
LEMMA NewestLast ==
  ASSUME ChatOK(chat), NativeOK(chat, native),
         NEW t \in AnyWorth, NEW worth \in AnyGroupWorth, Compile(t, worth)
  PROVE  NewestGoesLast
<1>. DEFINE kept == CompiledGroups(worth)
            v == Assembled(kept)
            n == Len(native)
            callers == {k \in DOMAIN native : native[k].role = "assistant"}
            j == Max(callers)
            onward == j..n
            near == \/ Cardinality({k \in onward : native[k].role # "tool"}) <= FloorGroups
                    \/ SizeOf(native, onward) <= RecentShare
            its == {k \in DOMAIN native : native[k].turn = native[j].turn}
            said == {k \in DOMAIN v : v[k].role \in {"system", "user"}}
<1>1. native' = (IF OverHigh("native") THEN v ELSE native) /\ stage' = IF OverHigh("native") THEN "condensed" ELSE "asis"
  BY DEF Compile
<1>. SUFFICES ASSUME OverHigh("native"), callers # {}, near, \A k \in DOMAIN v : v[k] # native[j]
              PROVE  SizeOf(v, said) + SizeOf(native, its) > UsableBudget
  <2>1. CASE ~OverHigh("native")
    BY <1>1, <2>1 DEF NewestGoesLast
  <2>2. CASE OverHigh("native")
    <3>1. native' = v
      BY <1>1, <2>2
    <3>. HIDE DEF v
    <3>2. NewestGoesLast <=>
            (stage = "compile" /\ stage' = "condensed" /\ callers # {} /\ near
               /\ (\A k \in DOMAIN v : v[k] # native[j]) =>
             SizeOf(v, said) + SizeOf(native, its) > UsableBudget)
      BY <3>1 DEF NewestGoesLast
    <3>. QED
      BY <2>2, <3>2
  <2>. QED
    BY <2>1, <2>2
<1>2. \A k \in DOMAIN native : worth[k] \in Nat
  BY WorthIs
<1>3. kept \in SUBSET Leaders
  BY <1>2, KeptGroups
<1>4. PICK raw \in SUBSET (Leaders \ RecentGroups) : kept = Kept(raw, RecentGroups, worth)
  BY <1>2, CompiledKept
<1>. HIDE DEF kept
<1>5. native \in Seq(Messages) /\ n \in Nat /\ DOMAIN native = 1..n
  BY DEF NativeOK
<1>6. /\ j \in DOMAIN native /\ j \in Nat /\ native[j].role = "assistant"
      /\ \A k \in DOMAIN native : native[k].role = "assistant" => k <= j
  <2>1. callers \subseteq 0..n
    BY <1>5
  <2>2. j \in callers /\ \A k \in callers : k <= j
    <3>. HIDE DEF callers, n
    <3>. QED
      BY <1>5, <2>1, MaxIs
  <2>. QED
    BY <1>5, <2>2
<1>7. near
  OBVIOUS
<1>. HIDE DEF j, near
<1>8. /\ Leaders \subseteq DOMAIN native
      /\ Leader(j) = j /\ j \in Leaders /\ ~Said(j)
  <2>1. \A k \in DOMAIN native : Leader(k) \in 1..k
    BY LeadersOf
  <2>2. Leader(j) = j
    BY <1>6, LeadersOf
  <2>. QED
    BY <1>5, <1>6, <2>1, <2>2 DEF Leaders, Said
<1>9. j \notin kept
  <2>1. \A k \in DOMAIN v : v[k] # native[j]
    OBVIOUS
  <2>. HIDE DEF v
  <2>2. j \in kept => \E k \in DOMAIN v : v[k] = native[j]
    BY <1>3, <1>6, <1>8, KeptShown DEF v
  <2>. QED
    BY <2>1, <2>2
<1>10. raw \cup RecentGroups \subseteq DOMAIN native /\ raw \cap RecentGroups = {}
  BY <1>8 DEF RecentGroups, LastGroups
<1>11. \A g \in RecentGroups :
         ~Said(g) /\ (\A h \in RecentGroups : Said(h) \/ h <= g) /\ g \notin kept =>
           (\A h \in kept : Said(h)) /\ RequestSize(kept \cup {g}) > UsableBudget
  BY <1>2, <1>4, <1>5, <1>10, KeptIs
<1>12. \A h \in RecentGroups : Said(h) \/ h <= j
  <2>. TAKE h \in RecentGroups
  <2>1. h \in Leaders
    BY DEF RecentGroups, LastGroups
  <2>2. PICK k \in DOMAIN native : h = Leader(k)
    BY <2>1 DEF Leaders
  <2>3. h \in DOMAIN native /\ Leader(h) = h
    BY <1>8, <2>1, <2>2, LeadersOf
  <2>4. native[h].role # "tool" /\ native[h] \in Messages
    BY <1>5, <2>3, LeadersOf
  <2>5. Said(h) \/ native[h].role = "assistant"
    BY <2>4 DEF Said, Messages
  <2>. QED
    BY <1>6, <2>3, <2>5
<1>13. j \in RecentGroups
  BY <1>7, <1>8, NearKept DEF near
<1>14. (\A h \in kept : Said(h)) /\ RequestSize(kept \cup {j}) > UsableBudget
  BY <1>8, <1>9, <1>11, <1>12, <1>13
<1>15. SizeOf(v, said) = RequestSize(kept)
  <2>1. \A k \in DOMAIN v : v[k].role \in {"system", "user"}
    BY <1>3, <1>14, SaidStays
  <2>2. said = DOMAIN v
    BY <2>1
  <2>3. SizeAll(v) = RequestSize(kept)
    BY <1>3, AssembledSize
  <2>. QED
    BY <2>2, <2>3 DEF SizeAll
<1>16. its = Members(j)
  <2>1. \A l \in DOMAIN native : native[l].turn = native[j].turn => Leader(l) = j
    BY <1>6, LeadersOf
  <2>2. \A l \in DOMAIN native : Leader(l) = j => native[l].turn = native[j].turn
    BY LeadersOf
  <2>. QED
    BY <2>1, <2>2 DEF Members
<1>17. SizeOf(native, MembersOf(kept \cup {j})) = SizeOf(native, MembersOf(kept)) + SizeOf(native, Members(j))
  <2>1. MembersOf(kept \cup {j}) = MembersOf(kept) \cup Members(j)
    BY DEF MembersOf, Members
  <2>2. MembersOf(kept) \cap Members(j) = {}
    BY <1>9 DEF MembersOf, Members
  <2>3. SizeOf(native, MembersOf(kept) \cup Members(j))
          = SizeOf(native, MembersOf(kept)) + SizeOf(native, Members(j))
    BY <1>5, <2>2, SizesJoin
  <2>. QED
    BY <2>1, <2>3
<1>18. SummaryFor(kept \cup {j}) <= SummaryFor(kept) /\ SummaryFor(kept \cup {j}) \in Nat /\ SummaryFor(kept) \in Nat
  <2>1. kept # Leaders /\ SummarySize \in Nat
    BY <1>8, <1>9, CompilerAssumption
  <2>. QED
    BY <2>1 DEF SummaryFor
<1>. DEFINE a == SizeOf(native, MembersOf(kept))
            b == SizeOf(native, Members(j))
            x == SummaryFor(kept)
            y == SummaryFor(kept \cup {j})
<1>19. SizeOf(native, its) = b
  <2>. HIDE DEF its
  <2>. QED
    BY <1>16
<1>20. a \in Nat /\ b \in Nat /\ Preamble \in Nat /\ MapSize \in Nat /\ UsableBudget \in Nat
  BY <1>5, SizeIsNat, CompilerAssumption
<1>21. SizeOf(v, said) = Preamble + MapSize + a + x
  BY <1>15 DEF RequestSize
<1>22. RequestSize(kept \cup {j}) = Preamble + MapSize + (a + b) + y
  BY <1>17 DEF RequestSize
<1>. HIDE DEF a, b, v, said, its
<1>23. Preamble + MapSize + (a + b) + y > UsableBudget /\ y <= x /\ x \in Nat /\ y \in Nat
  BY <1>14, <1>18, <1>22
<1>. HIDE DEF x, y
<1>24. (Preamble + MapSize + a + x) + b > UsableBudget
  BY ONLY <1>20, <1>23
<1>. QED
  BY <1>19, <1>21, <1>24

LEMMA OneMoreTime ==
  ASSUME NEW m \in Nat, m >= 1, NEW c \in Nat, NEW last \in Nat, NEW now \in Nat, now >= 1,
         m * c < last + m, last # 0 => now >= last + m
  PROVE  m * (c + 1) < now + m
<1>1. m * (c + 1) = m * c + m /\ m * c \in Nat
  OBVIOUS
<1>2. CASE last # 0
  <2>. DEFINE x == m * c
  <2>1. m * (c + 1) = x + m /\ x \in Nat /\ x < last + m
    BY <1>1
  <2>. HIDE DEF x
  <2>. QED
    BY <1>2, <2>1
<1>3. CASE last = 0
  <2>1. c = 0
    <3>1. c >= 1 => m * c >= m
      OBVIOUS
    <3>. DEFINE x == m * c
    <3>2. x < m /\ x \in Nat /\ (c >= 1 => x >= m)
      BY <1>1, <1>3, <3>1
    <3>. HIDE DEF x
    <3>. QED
      BY <3>2
  <2>2. m * (c + 1) = m
    BY <2>1
  <2>. QED
    BY <2>2
<1>. QED
  BY <1>2, <1>3

(* How many compressions counted, and how far the last one was.             *)
SpacedInv ==
  /\ compressions \in [Pipelines -> Nat] /\ DOMAIN marks = Pipelines
  /\ \A p \in Pipelines : marks[p].entries \in Nat
  /\ CompressionsSpaced

LEMMA EntriesAre ==
  ASSUME ChatOK(chat), NativeOK(chat, native), NEW p \in Pipelines
  PROVE  Entries(p) \in Nat /\ Entries(p) >= 1
<1>1. Len(native) \in Nat /\ Len(native) >= 1
  <2>1. chat \in Seq(Messages) /\ Len(chat) >= 2 /\ native \in Seq(Messages)
    BY DEF ChatOK, NativeOK
  <2>2. 1 \in DOMAIN chat
    BY <2>1
  <2>3. \E k \in DOMAIN native : 1 \in native[k].stands
    BY <2>2 DEF NativeOK
  <2>. QED
    BY <2>1, <2>3
<1>2. Cardinality(History) \in Nat /\ Cardinality(History) >= 1
  <2>1. IsFiniteSet(History) /\ History # {}
    BY HistoryIs
  <2>2. Cardinality(History) \in Nat /\ Cardinality(History) # 0
    BY <2>1, FS_CardinalityType, FS_EmptySet
  <2>. QED
    BY <2>2
<1>. QED
  BY <1>1, <1>2 DEF Entries

LEMMA CountedOnce ==
  ASSUME ChatOK(chat), NativeOK(chat, native), SpacedInv, NEW p \in Pipelines
  PROVE  /\ Count(p) \in Nat /\ Mark(p).entries \in Nat
         /\ MinNew * Count(p) < Mark(p).entries + MinNew
<1>1. Entries(p) \in Nat /\ Entries(p) >= 1
  BY EntriesAre
<1>2. compressions[p] \in Nat /\ marks[p].entries \in Nat /\ MinNew * compressions[p] < marks[p].entries + MinNew
  BY DEF SpacedInv, CompressionsSpaced
<1>3. MinNew \in Nat /\ MinNew >= 1
  BY CompilerAssumption
<1>4. CASE ShouldCompress(p)
  <2>1. Count(p) = compressions[p] + 1 /\ Mark(p).entries = Entries(p)
    BY <1>4 DEF Count, Mark
  <2>2. marks[p].entries # 0 => Entries(p) >= marks[p].entries + MinNew
    BY <1>4 DEF ShouldCompress
  <2>3. MinNew * (compressions[p] + 1) < Entries(p) + MinNew
    BY <1>1, <1>2, <1>3, <2>2, OneMoreTime
  <2>. QED
    BY <1>1, <1>2, <2>1, <2>3
<1>5. CASE ~ShouldCompress(p)
  BY <1>2, <1>5 DEF Count, Mark
<1>. QED
  BY <1>4, <1>5

LEMMA CompileSpaced ==
  ASSUME ChatOK(chat), NativeOK(chat, native), SpacedInv,
         NEW t \in AnyWorth, NEW worth \in AnyGroupWorth, Compile(t, worth)
  PROVE  SpacedInv'
<1>1. /\ compressions' = [p \in Pipelines |-> Count(p)]
      /\ marks' = [p \in Pipelines |-> Mark(p)]
  BY DEF Compile
<1>2. \A p \in Pipelines : /\ Count(p) \in Nat /\ Mark(p).entries \in Nat
                           /\ MinNew * Count(p) < Mark(p).entries + MinNew
  BY CountedOnce
<1>3. \A p \in Pipelines : compressions'[p] = Count(p) /\ marks'[p] = Mark(p)
  BY <1>1
<1>4. compressions' \in [Pipelines -> Nat] /\ DOMAIN marks' = Pipelines
  BY <1>1, <1>2
<1>5. \A p \in Pipelines : marks'[p].entries \in Nat
  BY <1>2, <1>3
<1>6. CompressionsSpaced'
  BY <1>2, <1>3 DEF CompressionsSpaced
<1>. QED
  BY <1>4, <1>5, <1>6 DEF SpacedInv

LEMMA QueuedSpaced ==
  ASSUME ChatOK(chat), NativeOK(chat, native), SpacedInv, NEW t \in AnyWorth, TakeQueued(t)
  PROVE  SpacedInv'
<1>1. /\ compressions' = [compressions EXCEPT !["legacy"] = Count("legacy")]
      /\ marks' = [marks EXCEPT !["legacy"] = Mark("legacy")]
  BY DEF TakeQueued
<1>2. /\ Count("legacy") \in Nat /\ Mark("legacy").entries \in Nat
      /\ MinNew * Count("legacy") < Mark("legacy").entries + MinNew
  BY CountedOnce DEF Pipelines
<1>3. /\ compressions \in [Pipelines -> Nat] /\ DOMAIN marks = Pipelines
      /\ \A p \in Pipelines : marks[p].entries \in Nat
      /\ \A p \in Pipelines : MinNew * compressions[p] < marks[p].entries + MinNew
  BY DEF SpacedInv, CompressionsSpaced
<1>4. /\ compressions'["legacy"] = Count("legacy") /\ marks'["legacy"] = Mark("legacy")
      /\ compressions'["native"] = compressions["native"] /\ marks'["native"] = marks["native"]
      /\ compressions' \in [Pipelines -> Nat] /\ DOMAIN marks' = Pipelines
  BY <1>1, <1>2, <1>3 DEF Pipelines
<1>5. \A p \in Pipelines :
        marks'[p].entries \in Nat /\ MinNew * compressions'[p] < marks'[p].entries + MinNew
  <2>. TAKE p \in Pipelines
  <2>1. CASE p = "legacy"
    BY <1>2, <1>4, <2>1
  <2>2. CASE p = "native"
    BY <1>3, <1>4, <2>2
  <2>. QED
    BY <2>1, <2>2 DEF Pipelines
<1>. QED
  BY <1>4, <1>5 DEF SpacedInv, CompressionsSpaced

-----------------------------------------------------------------------------

FitInv == CompilerInv /\ SpacedInv /\ WithinBudget

LEMMA FitBegins == CompilerInit => FitInv
<1>. SUFFICES ASSUME CompilerInit PROVE FitInv
  OBVIOUS
<1>1. CompilerInv
  BY CompilerBegins
<1>2. SpacedInv
  <2>1. MinNew \in Nat /\ MinNew >= 1
    BY CompilerAssumption
  <2>2. \A p \in Pipelines : compressions[p] = 0 /\ marks[p].entries = 0
    BY DEF CompilerInit
  <2>3. compressions \in [Pipelines -> Nat] /\ DOMAIN marks = Pipelines
    BY DEF CompilerInit
  <2>4. MinNew * 0 < 0 + MinNew
    BY <2>1
  <2>. QED
    BY <2>2, <2>3, <2>4 DEF SpacedInv, CompressionsSpaced
<1>3. WithinBudget
  BY DEF CompilerInit, WithinBudget
<1>. QED
  BY <1>1, <1>2, <1>3 DEF FitInv

LEMMA FitStep == FitInv /\ [CompilerNext]_compilerVars => FitInv'
<1>. SUFFICES ASSUME FitInv, [CompilerNext]_compilerVars PROVE FitInv'
  OBVIOUS
<1>1. CompilerInv' /\ CompilerInv
  BY CompilerStep DEF FitInv
<1>2. ChatOK(chat) /\ NativeOK(chat, native) /\ SpacedInv
  BY DEF FitInv, CompilerInv
<1>3. ASSUME NEW t \in AnyWorth, TakeQueued(t) PROVE FitInv'
  <2>1. SpacedInv'
    BY <1>2, <1>3, QueuedSpaced
  <2>2. stage' = "answer"
    BY <1>3 DEF TakeQueued
  <2>. QED
    BY <1>1, <2>1, <2>2 DEF FitInv, WithinBudget
<1>4. ASSUME NEW t \in AnyWorth, NEW w \in AnyGroupWorth, Compile(t, w) PROVE FitInv'
  BY <1>1, <1>2, <1>4, CompileSpaced, CompileFits DEF FitInv
<1>5. ASSUME UNCHANGED <<marks, compressions>>, stage' \notin {"asis", "condensed"} PROVE FitInv'
  <2>1. SpacedInv'
    BY <1>2, <1>5 DEF SpacedInv, CompressionsSpaced
  <2>. QED
    BY <1>1, <1>5, <2>1 DEF FitInv, WithinBudget
<1>6. ASSUME NEW ids \in Batches, NEW n \in Sizes, AnswerWithCalls(ids, n) PROVE FitInv'
  <2>1. stage' = "answer" /\ UNCHANGED <<marks, compressions>>
    BY <1>6 DEF AnswerWithCalls, AddMessage
  <2>. QED
    BY <1>5, <2>1
<1>7. ASSUME NEW n \in Sizes, AddResult(n) PROVE FitInv'
  <2>1. stage' \in {"compile", "queued"} /\ UNCHANGED <<marks, compressions>>
    BY <1>7 DEF AddResult, AddMessage
  <2>. QED
    BY <1>5, <2>1
<1>8. ASSUME NEW n \in Sizes, AddNotice(n) PROVE FitInv'
  <2>1. stage' \in {"compile", "queued"} /\ UNCHANGED <<marks, compressions>>
    BY <1>8 DEF AddNotice, AddMessage
  <2>. QED
    BY <1>5, <2>1
<1>9. CASE UNCHANGED compilerVars
  <2>1. UNCHANGED <<native, marks, compressions, stage>>
    BY <1>9 DEF compilerVars
  <2>2. SpacedInv'
    BY <1>2, <2>1 DEF SpacedInv, CompressionsSpaced
  <2>3. WithinBudget'
    BY <2>1 DEF FitInv, WithinBudget
  <2>. QED
    BY <1>1, <2>2, <2>3 DEF FitInv
<1>. QED
  BY <1>3, <1>4, <1>6, <1>7, <1>8, <1>9 DEF CompilerNext

LEMMA NewestStep == CompilerInv /\ [CompilerNext]_compilerVars => [NewestGoesLast]_compilerVars
<1>. SUFFICES ASSUME CompilerInv, CompilerNext PROVE NewestGoesLast
  OBVIOUS
<1>1. ASSUME stage # "compile" \/ stage' # "condensed" PROVE NewestGoesLast
  BY <1>1 DEF NewestGoesLast
<1>2. ASSUME NEW t \in AnyWorth, NEW w \in AnyGroupWorth, Compile(t, w) PROVE NewestGoesLast
  BY <1>2, NewestLast DEF CompilerInv
<1>3. ASSUME NEW t \in AnyWorth, TakeQueued(t) PROVE stage # "compile"
  BY <1>3 DEF TakeQueued
<1>4. ASSUME NEW ids \in Batches, NEW n \in Sizes, AnswerWithCalls(ids, n) PROVE stage # "compile"
  BY <1>4 DEF AnswerWithCalls
<1>5. ASSUME NEW n \in Sizes, AddResult(n) PROVE stage # "compile"
  BY <1>5 DEF AddResult
<1>6. ASSUME NEW n \in Sizes, AddNotice(n) PROVE stage' # "condensed"
  BY <1>6 DEF AddNotice
<1>. QED
  BY <1>1, <1>2, <1>3, <1>4, <1>5, <1>6 DEF CompilerNext

(* For any sizes, scores, batches and limits, over any number of            *)
(* compilations and notices: a request is within the budget or shows only   *)
(* what was said, a compilation gives up the newest answer only when it     *)
(* does not fit, as long as it is near, and compressions that count are     *)
(* spaced (_enforce_native_budget, should_compress).                        *)
THEOREM RequestStaysFit == CompilerSpec => RequestFits
<1>1. CompilerInit => FitInv
  BY FitBegins
<1>2. FitInv /\ [CompilerNext]_compilerVars => FitInv'
  BY FitStep
<1>3. FitInv /\ [CompilerNext]_compilerVars => [NewestGoesLast]_compilerVars
  BY NewestStep DEF FitInv
<1>4. FitInv => WithinBudget /\ CompressionsSpaced
  BY DEF FitInv, SpacedInv
<1>. QED
  BY <1>1, <1>2, <1>3, <1>4, PTL DEF CompilerSpec, RequestFits
================================================================================
