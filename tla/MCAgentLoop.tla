---------------------------- MODULE MCAgentLoop ----------------------------
(* Instances of AgentLoop for TLC.                                          *)
EXTENDS AgentLoop

Direct(t) == [tool |-> t, form |-> "direct"]
Decided(t) == [tool |-> t, form |-> "decision"]
Invalid == [tool |-> "edit", form |-> "invalid"]

(* A client without native tools, one call at a time: short budgets, and a  *)
(* watchdog that suspects early and may see patterns.                       *)
LegacyRun ==
  [mode |-> "fixed", stepCap |-> 5, attemptCap |-> 15,
   native |-> FALSE, toolChoice |-> TRUE, needsChange |-> TRUE, needsEvidence |-> TRUE,
   researchBudget |-> 3, noProgressLimit |-> 2, recoveryWindow |-> 2,
   patternsSeen |-> TRUE, blocks |-> TRUE,
   batches |-> {<<Direct(t)>> : t \in Tools}, texts |-> {"final", "unusable"}]

(* A client with native tools that answers with batches of up to two calls, *)
(* with and without decisions; the watchdog suspects nothing.               *)
NativeCalls == {Direct("read"), Direct("edit"), Direct("shell"), Decided("read"),
                Decided("edit"), Invalid}
NativeRun ==
  [mode |-> "interactive", stepCap |-> 4, attemptCap |-> 12,
   native |-> TRUE, toolChoice |-> TRUE, needsChange |-> TRUE, needsEvidence |-> FALSE,
   researchBudget |-> 0, noProgressLimit |-> 13, recoveryWindow |-> 2,
   patternsSeen |-> FALSE, blocks |-> FALSE,
   batches |-> {<<c>> : c \in NativeCalls} \cup {<<c, d>> : c, d \in NativeCalls},
   texts |-> {"final", "unusable"}]

(* A client with native tools, one call at a time, under the watchdog: a    *)
(* suspicion comes when no call is owed.                                    *)
WatchedRun ==
  [NativeRun EXCEPT !.stepCap = 6, !.noProgressLimit = 2, !.patternsSeen = TRUE,
                    !.batches = {<<Direct(t)>> : t \in {"read", "edit", "shell"}}]

AllRuns == {LegacyRun, NativeRun, WatchedRun}

(* The watchdog suspects a native client in the middle of a batch.          *)
SuspectedRuns ==
  {[NativeRun EXCEPT !.noProgressLimit = 1,
                     !.batches = {<<Direct("read")>>, <<Direct("read"), Direct("read")>>}]}
=============================================================================
