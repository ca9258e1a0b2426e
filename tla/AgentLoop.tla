------------------------------ MODULE AgentLoop ------------------------------
(***************************************************************************)
(* The main loop of ask(): the budgets that stop it, the native messages    *)
(* that are sent to the model, batches of tool calls, the edit-decision     *)
(* phase, the research budget with its finalization, the evidence and the   *)
(* verification a final answer needs, and the recovery state machine of the *)
(* progress watchdog.                                                       *)
(*                                                                          *)
(* A message is abstracted to what a provider checks: each call of an       *)
(* assistant message is answered before the next user message.  A tool      *)
(* event is abstracted to whether the watchdog finds progress or a stuck    *)
(* pattern in it.                                                           *)
(***************************************************************************)
EXTENDS Integers, Sequences

CONSTANT
  Configurations  \* the settings a run may have

Caps == {"stepCap", "attemptCap", "researchBudget", "noProgressLimit", "recoveryWindow"}
Flags == {"native", "toolChoice", "needsChange", "needsEvidence", "patternsSeen", "blocks"}

Tools == {"read", "search", "symbol", "edit", "shell"}
ResearchTools == {"read", "search"}
EvidenceTools == {"read", "search", "symbol"}

(* A tool call: a direct one, one inside a valid submit_edit_decision, or a *)
(* submit_edit_decision that is not valid.                                  *)
Calls == [tool : Tools, form : {"direct", "decision", "invalid"}]
NoCall == [tool |-> "none", form |-> "none"]

(* mode: "fixed", a step budget, or "interactive", the emergency cap.       *)
(* batches and texts bound what the model may answer with: batches of tool  *)
(* calls, and texts that are an answer or nothing that can be used.         *)
(* patternsSeen: the watchdog may see a stuck pattern.  blocks: an open     *)
(* circuit, or a key that is in the replay ledger, may block a call.  A     *)
(* client without native tools answers with one call at a time.             *)
ASSUME ConfigurationAssumption ==
  \A c \in Configurations :
    /\ DOMAIN c = Caps \cup Flags \cup {"mode", "batches", "texts"}
    /\ \A cap \in Caps : c[cap] \in Nat
    /\ c.stepCap > 0 /\ c.attemptCap > 0
    /\ \A flag \in Flags : c[flag] \in BOOLEAN
    /\ c.mode \in {"fixed", "interactive"}
    /\ c.batches \subseteq Seq(Calls) \ {<<>>}
    /\ ~c.native => \A batch \in c.batches : Len(batch) = 1
    /\ c.texts \subseteq {"final", "unusable"}

Outcomes == {"completed", "step_limit", "retry_limit", "emergency", "stuck",
             "finalization_failed", "model_error", "canceled"}

VARIABLES
  config,     \* the settings of this run
  place,      \* where the loop is
  outcome,    \* the stop reason, or "none"
  attempts,
  toolSteps,
  call,       \* the call being handled
  queued,     \* whether it comes from pending_native_calls
  queue,      \* pending_native_calls
  owed,       \* calls in native_messages that have no result yet
  torn,       \* history: a user message was added while a call was owed
  research,   \* research_steps
  finalizing, \* finalization_required
  refusals,   \* finalization_rejections
  sources,    \* current_run_source_reads, counted up to 2
  changed,    \* workspace_change_count > 0
  unverified, \* workspace_change_count > last_verified_change_count
  expected,   \* action_readiness = "action_expected"
  dirty,      \* history: no command ran after the last change by an edit
  marked,     \* the tools whose evidence the edit watchdog has registered
  wd,         \* the progress watchdog
  since       \* history: tool events since the recovery began

Mode == config.mode
StepCap == config.stepCap                 \* effective_step_budget, or emergency_cap
AttemptCap == config.attemptCap           \* attempt_cap
Native == config.native                   \* the model client calls tools natively
ToolChoice == config.toolChoice           \* the provider supports tool_choice
NeedsChange == config.needsChange         \* requires_workspace_change
NeedsEvidence == config.needsEvidence     \* requires_source_evidence
ResearchBudget == config.researchBudget   \* research_tool_budget, 0 for None
NoProgressLimit == config.noProgressLimit \* no_progress_window_limit
RecoveryWindow == config.recoveryWindow   \* recovery_window

budgetVars == <<attempts, toolSteps>>
callVars == <<call, queued, queue>>
messageVars == <<owed, torn>>
researchVars == <<research, finalizing, refusals>>
planVars == <<changed, unverified, expected, dirty, marked>>
watchVars == <<wd, since>>
vars == <<config, place, outcome, budgetVars, callVars, messageVars, researchVars,
          sources, planVars, watchVars>>

Init ==
  /\ config \in Configurations
  /\ place = "top" /\ outcome = "none"
  /\ attempts = 0 /\ toolSteps = 0
  /\ call = NoCall /\ queued = FALSE /\ queue = <<>>
  /\ owed = 0 /\ torn = FALSE
  /\ research = 0 /\ finalizing = FALSE /\ refusals = 0
  /\ sources = 0
  /\ changed = FALSE /\ unverified = FALSE /\ expected = FALSE
  /\ dirty = FALSE /\ marked = {}
  /\ wd = [state |-> "normal", quiet |-> 0, start |-> 0]
  /\ since = 0

Stop(why) == place' = "stopped" /\ outcome' = why

(* A user message is added to native_messages.                              *)
UserMessage(open) == torn' = (torn \/ (Native /\ open > 0))

-----------------------------------------------------------------------------

(* The user canceled: asked at the top of a turn, before and after the      *)
(* model call, and after a tool.                                            *)
Cancel ==
  /\ place \in {"top", "asking", "answered", "ran"}
  /\ Stop("canceled")
  /\ UNCHANGED <<budgetVars, callVars, messageVars, researchVars, sources,
                 planVars, watchVars>>

LimitReached == toolSteps >= StepCap \/ attempts >= AttemptCap

(* Out of steps, or only of attempts: the model answered nothing usable.    *)
StopLimited == Stop(IF toolSteps < StepCap THEN "retry_limit" ELSE "step_limit")

StopAtLimit ==
  /\ place = "top"
  /\ LimitReached
  /\ IF Mode = "interactive" /\ toolSteps >= StepCap THEN Stop("emergency") ELSE StopLimited
  /\ UNCHANGED <<budgetVars, callVars, messageVars, researchVars, sources,
                 planVars, watchVars>>

EditPhase == Native /\ NeedsChange /\ expected /\ ~changed

(* Mutant of BeginTurn: the attempt is not counted.                         *)
BeginTurnUncounted ==
  /\ place = "top"
  /\ ~LimitReached
  /\ place' = "asking"
  /\ UNCHANGED <<outcome, attempts, toolSteps, callVars, messageVars, researchVars,
                 sources, planVars, watchVars>>

(* A turn begins.  In the edit-decision phase a provider without            *)
(* tool_choice is asked by a user message, unless calls are queued.         *)
BeginTurn ==
  /\ place = "top"
  /\ ~LimitReached
  /\ attempts' = attempts + 1
  /\ IF EditPhase /\ ~ToolChoice /\ queue = <<>> THEN UserMessage(owed) ELSE UNCHANGED torn
  /\ place' = "asking"
  /\ UNCHANGED <<outcome, toolSteps, callVars, owed, researchVars, sources,
                 planVars, watchVars>>

ModelFails ==
  /\ place = "asking"
  /\ queue = <<>>
  /\ Stop("model_error")
  /\ UNCHANGED <<budgetVars, callVars, messageVars, researchVars, sources,
                 planVars, watchVars>>

(* The model is called, unless a call of its last batch is still queued.    *)
AnswerCalls ==
  /\ place = "asking"
  /\ queue = <<>>
  /\ \E batch \in config.batches : call' = Head(batch) /\ queue' = Tail(batch)
  /\ queued' = FALSE
  /\ place' = "answered"
  /\ UNCHANGED <<outcome, budgetVars, messageVars, researchVars, sources,
                 planVars, watchVars>>

NextQueued ==
  /\ place = "asking"
  /\ queue # <<>>
  /\ call' = Head(queue) /\ queue' = Tail(queue)
  /\ queued' = TRUE
  /\ place' = "answered"
  /\ UNCHANGED <<outcome, budgetVars, messageVars, researchVars, sources,
                 planVars, watchVars>>

AnswerText ==
  /\ place = "asking"
  /\ queue = <<>>
  /\ \E kind \in config.texts : place' = kind
  /\ UNCHANGED <<outcome, budgetVars, callVars, messageVars, researchVars,
                 sources, planVars, watchVars>>

(* Nothing usable, or an empty text: the model is told and asked again.     *)
RetryText ==
  /\ place = "unusable"
  /\ UserMessage(owed)
  /\ place' = "top"
  /\ UNCHANGED <<outcome, budgetVars, callVars, owed, researchVars, sources,
                 planVars, watchVars>>

-----------------------------------------------------------------------------

(* A direct call counts as a decision when the provider has no tool_choice. *)
Decides(c) ==
  \/ c.form # "direct"
  \/ ~ToolChoice /\ EditPhase /\ c.tool # "shell"

AsksEvidence(c) == Decides(c) /\ c.form # "invalid" /\ c.tool \in EvidenceTools

(* Evidence may repeat what was registered for its tool; which paths,       *)
(* ranges and queries do is a choice.                                       *)
MayRepeat(c) == AsksEvidence(c) /\ c.tool \in marked

(* mark_evidence_executed.                                                  *)
MarkEvidence == marked' = IF AsksEvidence(call) THEN marked \cup {call.tool} ELSE marked

(* Mutant of Reject: a rejected queued call is not answered.                *)
RejectUnanswered ==
  /\ IF queued
     THEN UserMessage(owed) /\ UNCHANGED <<owed, queue>>
     ELSE UserMessage(owed) /\ queue' = <<>> /\ UNCHANGED owed
  /\ place' = "top"
  /\ call' = NoCall /\ queued' = FALSE

(* A rejected first call is not kept in native_messages, and neither is the *)
(* rest of its batch; a rejected queued call is answered.                   *)
Reject ==
  /\ IF queued
     THEN owed' = owed - 1 /\ UNCHANGED <<torn, queue>>
     ELSE UserMessage(owed) /\ queue' = <<>> /\ UNCHANGED owed
  /\ place' = "top"
  /\ call' = NoCall /\ queued' = FALSE

RejectDecision ==
  /\ place = "answered"
  /\ call.form = "invalid"
  /\ Reject
  /\ UNCHANGED <<outcome, budgetVars, researchVars, sources, planVars, watchVars>>

(* Mutant of Watch: the recovery window is one event short.                 *)
WatchHasty(w, step, progress, pattern) ==
  LET quiet == IF progress THEN 0 ELSE w.quiet + 1
  IN  CASE w.state = "normal" /\ (pattern \/ quiet >= NoProgressLimit) ->
             [verdict |-> "suspected",
              wd |-> [state |-> "recovery", quiet |-> 0, start |-> step]]
        [] w.state = "recovery" /\ progress ->
             [verdict |-> "recovered",
              wd |-> [state |-> "normal", quiet |-> 0, start |-> w.start]]
        [] w.state = "recovery" /\ ~progress /\ step - w.start >= RecoveryWindow - 1 ->
             [verdict |-> "confirmed",
              wd |-> [state |-> "confirmed", quiet |-> quiet, start |-> w.start]]
        [] OTHER ->
             [verdict |-> "none",
              wd |-> [state |-> w.state, quiet |-> quiet, start |-> w.start]]

(* record_tool_event, and begin_recovery when it suspects.                  *)
Watch(w, step, progress, pattern) ==
  LET quiet == IF progress THEN 0 ELSE w.quiet + 1
  IN  CASE w.state = "normal" /\ (pattern \/ quiet >= NoProgressLimit) ->
             [verdict |-> "suspected",
              wd |-> [state |-> "recovery", quiet |-> 0, start |-> step]]
        [] w.state = "recovery" /\ progress ->
             [verdict |-> "recovered",
              wd |-> [state |-> "normal", quiet |-> 0, start |-> w.start]]
        [] w.state = "recovery" /\ ~progress /\ step - w.start >= RecoveryWindow ->
             [verdict |-> "confirmed",
              wd |-> [state |-> "confirmed", quiet |-> quiet, start |-> w.start]]
        [] OTHER ->
             [verdict |-> "none",
              wd |-> [state |-> w.state, quiet |-> quiet, start |-> w.start]]

Observe(watched) ==
  /\ wd' = watched.wd
  /\ since' = IF watched.wd.state = "normal" \/ watched.verdict = "suspected"
              THEN 0 ELSE since + 1

(* A suspicion leaves the call unanswered and asks for a recovery.          *)
RejectWatched(watched) ==
  /\ Observe(watched)
  /\ CASE watched.verdict = "suspected" ->
            /\ UserMessage(owed)
            /\ place' = "top"
            /\ call' = NoCall /\ queued' = FALSE
            /\ queue' = IF queued THEN queue ELSE <<>>
            /\ UNCHANGED <<outcome, owed>>
       [] watched.verdict = "confirmed" ->
            /\ Stop("stuck")
            /\ UNCHANGED <<callVars, messageVars>>
       [] OTHER -> Reject /\ UNCHANGED outcome

(* Evidence that was requested before is not fetched again: the watchdog is *)
(* told, with the number of attempts for a step.                            *)
RejectRepeatedEvidence ==
  /\ place = "answered"
  /\ MayRepeat(call)
  /\ \E pattern \in {FALSE, config.patternsSeen} :
       RejectWatched(Watch(wd, attempts, FALSE, pattern))
  /\ UNCHANGED <<budgetVars, researchVars, sources, planVars>>

(* The assistant message with all its calls is added to native_messages.    *)
AcceptCall ==
  /\ place = "answered"
  /\ call.form # "invalid"
  /\ owed' = IF Native /\ ~queued THEN owed + 1 + Len(queue) ELSE owed
  /\ place' = "accepted"
  /\ UNCHANGED <<outcome, budgetVars, callVars, torn, researchVars, sources,
                 planVars, watchVars>>

(* Mutant of Refused: nothing is refused while the answer is due.           *)
NeverRefused(c) == c.tool = "none"

Refused(c) == finalizing /\ c.tool \in ResearchTools

(* The research budget is spent: the call is refused, without a result, and *)
(* the second one ends the run.                                             *)
RefuseResearch ==
  /\ place = "accepted"
  /\ Refused(call)
  /\ refusals' = refusals + 1
  /\ IF refusals' >= 2 THEN Stop("finalization_failed")
     ELSE place' = "top" /\ UNCHANGED outcome
  /\ call' = NoCall /\ queued' = FALSE
  /\ UNCHANGED <<budgetVars, queue, messageVars, research, finalizing, sources,
                 planVars, watchVars>>

RunTool ==
  /\ place = "accepted"
  /\ ~Refused(call)
  /\ toolSteps' = toolSteps + 1
  /\ place' = "ran"
  /\ UNCHANGED <<outcome, attempts, callVars, messageVars, researchVars,
                 sources, planVars, watchVars>>

-----------------------------------------------------------------------------

AtMost2(n) == IF n > 2 THEN 2 ELSE n

(* set_action_readiness: a source read makes an edit expected, until there  *)
(* is a change.                                                             *)
Readiness(status, changes) ==
  /\ ~changes
  /\ \/ expected
     \/ /\ call.tool = "read" /\ status = "ok" /\ NeedsChange /\ ~changed
        /\ Native /\ ~ToolChoice => sources' >= 2

Verifies(status) == call.tool = "shell" /\ status # "rejected"

(* Mutant of Planning: a change made after the verification is not noticed. *)
PlanningOnce(status, change) ==
  LET changes == call.tool = "edit" /\ change
  IN  /\ changed' = (changed \/ changes)
      /\ unverified' = ((unverified \/ (changes /\ ~changed)) /\ ~Verifies(status))
      /\ expected' = Readiness(status, changes)

(* update_planning_state: an edit that changed the workspace has to be      *)
(* verified again by a shell command that is not rejected.                  *)
Planning(status, change) ==
  LET changes == call.tool = "edit" /\ change
  IN  /\ changed' = (changed \/ changes)
      /\ unverified' = ((unverified \/ changes) /\ ~Verifies(status))
      /\ expected' = Readiness(status, changes)

(* The tool was not executed.                                               *)
Refusals == {"rejected", "blocked"}

(* A tool result: a refused call changes nothing, a rejected one shows no   *)
(* progress.                                                                *)
Results ==
  {r \in [status : {"ok", "error"} \cup Refusals, change : BOOLEAN, progress : BOOLEAN,
          pattern : {FALSE, config.patternsSeen}] :
     /\ r.status = "blocked" => config.blocks
     /\ r.change => r.progress /\ r.status \notin Refusals
     /\ r.status = "rejected" => ~r.progress}

(* The path of a read is a source path, whatever the read returned.         *)
SourceRead == sources' = IF call.tool = "read" THEN AtMost2(sources + 1) ELSE sources

(* The result is recorded and answered, decisions get feedback when the     *)
(* batch is done, the watchdog sees the event.  A suspicion asks for a      *)
(* recovery and skips the research budget.                                  *)
RecordResult(r, watched) ==
  LET open == IF Native THEN owed - 1 ELSE 0
      feedback == Native /\ Decides(call) /\ queue = <<>>
      spent == ResearchBudget > 0 /\ research' >= ResearchBudget
  IN  /\ SourceRead
      /\ Planning(r.status, r.change)
      /\ dirty' = CASE call.tool = "edit" /\ r.change -> TRUE
                    [] call.tool = "shell" /\ r.status \notin Refusals -> FALSE
                    [] OTHER -> dirty
      /\ research' = IF ResearchBudget > 0 /\ call.tool \in ResearchTools
                     THEN research + 1 ELSE research
      /\ IF feedback THEN MarkEvidence ELSE UNCHANGED marked
      /\ owed' = open
      /\ torn' = (torn \/ (Native /\ open > 0
                           /\ (feedback \/ watched.verdict = "suspected")))
      /\ Observe(watched)
      /\ CASE watched.verdict = "confirmed" -> Stop("stuck") /\ UNCHANGED finalizing
           [] watched.verdict = "suspected" ->
                place' = "top" /\ UNCHANGED <<outcome, finalizing>>
           [] OTHER ->
                /\ place' = "top"
                /\ finalizing' = (finalizing \/ spent)
                /\ UNCHANGED outcome

(* Back from run_tool.                                                      *)
FinishTool ==
  /\ place = "ran"
  /\ \E r \in Results :
       /\ r.change => call.tool \in {"edit", "shell"}
       /\ RecordResult(r, Watch(wd, toolSteps, r.progress, r.pattern))
  /\ call' = NoCall /\ queued' = FALSE
  /\ UNCHANGED <<budgetVars, queue, refusals>>

-----------------------------------------------------------------------------

Unfounded == NeedsEvidence /\ sources = 0
Unchecked == Native /\ NeedsChange /\ unverified

(* A final answer without source evidence, or with a change nobody checked. *)
RefuseAnswer ==
  /\ place = "final"
  /\ Unfounded \/ Unchecked
  /\ IF Unfounded THEN UNCHANGED torn ELSE UserMessage(owed)
  /\ place' = "top"
  /\ UNCHANGED <<outcome, budgetVars, callVars, owed, researchVars, sources,
                 planVars, watchVars>>

Finish ==
  /\ place = "final"
  /\ ~Unfounded /\ ~Unchecked
  /\ Stop("completed")
  /\ UNCHANGED <<budgetVars, callVars, messageVars, researchVars, sources,
                 planVars, watchVars>>

Loop ==
  \/ StopAtLimit \/ BeginTurn \/ AnswerCalls \/ NextQueued \/ AnswerText \/ ModelFails
  \/ RetryText \/ RejectDecision \/ RejectRepeatedEvidence \/ AcceptCall
  \/ RefuseResearch \/ RunTool \/ FinishTool \/ RefuseAnswer \/ Finish

Next == (Loop \/ Cancel) /\ UNCHANGED config

(* The loop is a single thread; model calls and tools have timeouts.        *)
Spec == Init /\ [][Next]_vars /\ WF_vars(Loop /\ UNCHANGED config)

-----------------------------------------------------------------------------

(* The research budget is overrun by one call at most: the one after a      *)
(* suspicion that came with the last call of the budget.                    *)
ResearchBounded == ResearchBudget > 0 => research <= ResearchBudget + 1

(* The types; attempts, steps and research within their budgets.           *)
TypeOK ==
  /\ config \in Configurations
  /\ place \in {"top", "asking", "answered", "accepted", "ran", "final", "unusable",
                "stopped"}
  /\ outcome \in Outcomes \cup {"none"}
  /\ place = "stopped" <=> outcome # "none"
  /\ attempts \in 0..AttemptCap /\ toolSteps \in 0..StepCap
  /\ call \in Calls \cup {NoCall} /\ queued \in BOOLEAN /\ queue \in Seq(Calls)
  /\ owed \in Nat /\ torn \in BOOLEAN
  /\ research \in Nat /\ finalizing \in BOOLEAN /\ refusals \in 0..2
  /\ sources \in 0..2
  /\ {changed, unverified, expected, dirty} \subseteq BOOLEAN
  /\ marked \subseteq EvidenceTools
  /\ wd \in [state : {"normal", "recovery", "confirmed"}, quiet : Nat, start : Nat]
  /\ since \in Nat
  /\ ResearchBounded

(* What is sent to a native provider is well formed: no user message stands *)
(* between the calls of a batch and their results, and no call is left      *)
(* without a result when the model is called.                               *)
ProtocolKept ==
  /\ ~torn
  /\ place = "asking" /\ queue = <<>> => owed = 0

(* A run is completed only after a source file was asked for, when the      *)
(* request needs evidence, and only if a command was run after the last     *)
(* edit that changed the workspace, when it needs a change.                 *)
GroundedAnswer ==
  outcome = "completed" =>
    /\ NeedsEvidence => sources > 0
    /\ Native /\ NeedsChange => ~dirty

(* A recovery is given exactly its window: the run is stopped as stuck when *)
(* RecoveryWindow tool events passed without progress, no earlier and no    *)
(* later.                                                                   *)
RecoveryTimed ==
  /\ since <= RecoveryWindow
  /\ outcome = "stuck" => since = RecoveryWindow

(* Every run ends, whatever the model answers.                              *)
RunEnds == <>(place = "stopped")
=============================================================================
