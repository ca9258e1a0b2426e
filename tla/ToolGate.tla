------------------------------ MODULE ToolGate ------------------------------
(***************************************************************************)
(* The guards run_tool puts in front of a tool body, and the circuit        *)
(* breaker they share.  An agent executes one tool call at a time; a call   *)
(* passes validation, the repeat guard and the approval, then the circuit   *)
(* breaker of its tool, then the claim of its operation key, and only then  *)
(* the body runs and its result is recorded with the breaker.               *)
(*                                                                          *)
(* Time is abstracted to the one fact the breaker asks for: whether         *)
(* reset_seconds have passed since the circuit was opened.                  *)
(***************************************************************************)
EXTENDS Naturals

CONSTANTS
  Tools,       \* tools with a circuit breaker
  Keys,        \* operation keys a side-effecting call may carry
  SideEffects, \* the tools that claim their operation key
  Threshold,   \* failure_threshold
  NoTool, NoKey

ASSUME ThresholdAssumption == Threshold \in Nat \ {0}
ASSUME SideEffectsAssumption == SideEffects \subseteq Tools
ASSUME NoToolAssumption == NoTool \notin Tools /\ NoKey \notin Keys

(* opened: "no" is opened_at = None, "hot" an open circuit, "cooled" one    *)
(* whose reset_seconds have passed.                                         *)
CircuitStates == [failures : 0..Threshold, opened : {"no", "hot", "cooled"},
                  probing : BOOLEAN]

ClosedCircuit == [failures |-> 0, opened |-> "no", probing |-> FALSE]

VARIABLES
  circuit, \* per tool, its CircuitState
  claims,  \* operation keys that have an entry in the ledger
  tool,    \* the tool of the call under way, or NoTool
  key,     \* its operation key, or NoKey
  stage,   \* how far the call is
  streak   \* history: per tool, recorded failures since the last success,
           \* counted up to Threshold

vars == <<circuit, claims, tool, key, stage, streak>>

Init ==
  /\ circuit = [t \in Tools |-> ClosedCircuit]
  /\ claims = {}
  /\ tool = NoTool
  /\ key = NoKey
  /\ stage = "none"
  /\ streak = [t \in Tools |-> 0]

Status(t) ==
  CASE circuit[t].opened = "no" -> "closed"
    [] circuit[t].opened = "hot" -> "open"
    [] circuit[t].opened = "cooled" -> "half_open"

Allowed(t) ==
  \/ Status(t) = "closed"
  \/ Status(t) = "half_open" /\ ~circuit[t].probing

EndCall == tool' = NoTool /\ key' = NoKey /\ stage' = "none"

(* A call that passed the breaker; a read-only tool, and a side effect      *)
(* without a key, claim nothing.                                            *)
Claims(t, k) == t \in SideEffects /\ k # NoKey

RequestTool(t, k) ==
  /\ stage = "none"
  /\ tool' = t
  /\ key' = k
  /\ stage' = "requested"
  /\ UNCHANGED <<circuit, claims, streak>>

(* Unknown tool, invalid arguments, covered read, repeated call, or no      *)
(* approval: the call returns before the breaker is asked.                  *)
RejectEarly ==
  /\ stage = "requested"
  /\ EndCall
  /\ UNCHANGED <<circuit, claims, streak>>

BlockOpen ==
  /\ stage = "requested"
  /\ ~Allowed(tool)
  /\ EndCall
  /\ UNCHANGED <<circuit, claims, streak>>

(* allow(): a half-open circuit lets one probe through.                     *)
Admit ==
  /\ stage = "requested"
  /\ Allowed(tool)
  /\ circuit' = IF Status(tool) = "half_open"
                THEN [circuit EXCEPT ![tool].probing = TRUE]
                ELSE circuit
  /\ stage' = IF Claims(tool, key) THEN "claiming" ELSE "running"
  /\ UNCHANGED <<claims, tool, key, streak>>

(* The key is in the ledger: run_tool returns, and the breaker is told      *)
(* nothing.                                                                 *)
RefuseReplay ==
  /\ stage = "claiming"
  /\ key \in claims
  /\ EndCall
  /\ UNCHANGED <<circuit, claims, streak>>

GrantClaim ==
  /\ stage = "claiming"
  /\ key \notin claims
  /\ claims' = claims \cup {key}
  /\ stage' = "running"
  /\ UNCHANGED <<circuit, tool, key, streak>>

RecordSuccess(t) == circuit' = [circuit EXCEPT ![t] = ClosedCircuit]

OneMore(n) == IF n < Threshold THEN n + 1 ELSE n

(* Mutant of RecordFailure: one failure more than the threshold is needed.  *)
RecordFailureLate(t) ==
  circuit' = [circuit EXCEPT ![t] =
                [failures |-> OneMore(@.failures),
                 opened |-> IF @.failures > Threshold THEN "hot" ELSE @.opened,
                 probing |-> FALSE]]

(* record_failure: the failure count survives an open circuit, so that one  *)
(* failed probe opens it again.                                             *)
RecordFailure(t) ==
  LET n == OneMore(circuit[t].failures)
  IN  circuit' = [circuit EXCEPT ![t] =
                    [failures |-> n,
                     opened |-> IF n >= Threshold THEN "hot" ELSE @.opened,
                     probing |-> FALSE]]

BodySucceeds ==
  /\ stage = "running"
  /\ RecordSuccess(tool)
  /\ streak' = [streak EXCEPT ![tool] = 0]
  /\ EndCall
  /\ UNCHANGED claims

(* A failed result contract or an exception.                                *)
BodyFails ==
  /\ stage = "running"
  /\ RecordFailure(tool)
  /\ streak' = [streak EXCEPT ![tool] = OneMore(@)]
  /\ EndCall
  /\ UNCHANGED claims

(* Mutant of Cool: time closes the circuit.                                 *)
CoolShut(t) ==
  /\ circuit[t].opened = "hot"
  /\ circuit' = [circuit EXCEPT ![t] = ClosedCircuit]
  /\ UNCHANGED <<claims, tool, key, stage, streak>>

(* reset_seconds have passed since the circuit of t was opened.             *)
Cool(t) ==
  /\ circuit[t].opened = "hot"
  /\ circuit' = [circuit EXCEPT ![t].opened = "cooled"]
  /\ UNCHANGED <<claims, tool, key, stage, streak>>

Call ==
  \/ RejectEarly \/ BlockOpen \/ Admit \/ RefuseReplay \/ GrantClaim
  \/ BodySucceeds \/ BodyFails

Next ==
  \/ \E t \in Tools, k \in Keys \cup {NoKey} : RequestTool(t, k)
  \/ Call
  \/ \E t \in Tools : Cool(t)

(* A call that was made is worked on, and time passes; nobody has to call.  *)
Fairness == WF_vars(Call) /\ \A t \in Tools : WF_vars(Cool(t))

Spec == Init /\ [][Next]_vars /\ Fairness

-----------------------------------------------------------------------------

TypeOK ==
  /\ circuit \in [Tools -> CircuitStates]
  /\ claims \subseteq Keys
  /\ tool \in Tools \cup {NoTool}
  /\ key \in Keys \cup {NoKey}
  /\ stage \in {"none", "requested", "claiming", "running"}
  /\ tool = NoTool <=> stage = "none"
  /\ streak \in [Tools -> 0..Threshold]

(* The circuit of a tool is open, or cooling, exactly when its last         *)
(* Threshold recorded results were failures: a rejected, blocked or refused *)
(* call never trips it, and neither time nor a failed probe closes it.      *)
OpenIffStreak ==
  \A t \in Tools : circuit[t].opened # "no" <=> streak[t] = Threshold

(* An open circuit admits nothing until reset_seconds have passed, and then *)
(* at most one call, which decides whether it closes.                       *)
ProbeDecides ==
  [][\A t \in Tools :
       /\ circuit[t].opened = "hot" => circuit'[t].opened # "no"
       /\ circuit[t].opened = "cooled" /\ circuit'[t].opened = "no"
            => circuit[t].probing /\ tool = t /\ stage = "running"]_vars

(* The half-open circuit recovers: once the probe has been let through, its *)
(* outcome frees the circuit for the next call.                             *)
ProbeReleased == \A t \in Tools : circuit[t].probing ~> ~circuit[t].probing

-----------------------------------------------------------------------------

(* Why these hold: a call that claims has a key, the breaker's count is the *)
(* streak, and a call that got past a circuit that is not closed is its     *)
(* probe.                                                                   *)
ClaimHasKey == stage = "claiming" => key \in Keys

FailuresAreStreak == \A t \in Tools : circuit[t].failures = streak[t]

AdmittedIsProbe ==
  stage \in {"claiming", "running"} /\ circuit[tool].opened # "no"
    => circuit[tool].opened = "cooled" /\ circuit[tool].probing

GateInv == FailuresAreStreak /\ OpenIffStreak /\ AdmittedIsProbe
=============================================================================
