----------------------------- MODULE OnceLedger -----------------------------
(***************************************************************************)
(* What the replay ledger promises: an operation of a run is claimed before *)
(* it is performed, performed at most once, and settled after it; a run may *)
(* begin with entries it adopts from another run.  There are no files, no   *)
(* locks, no processes and no crashes here.                                 *)
(***************************************************************************)
EXTENDS Naturals

CONSTANTS Runs, Keys

Phases == {"free", "claimed", "completed", "uncertain"}

VARIABLES
  phase,     \* per run and key, what the ledger says of the operation
  performed  \* per run and key, how often the operation took effect

vars == <<phase, performed>>

Init ==
  /\ phase = [r \in Runs |-> [k \in Keys |-> "free"]]
  /\ performed = [r \in Runs |-> [k \in Keys |-> 0]]

(* A run that claimed nothing yet adopts entries that other runs know of.   *)
Adopt(r) ==
  /\ \A k \in Keys : phase[r][k] = "free"
  /\ \E known \in [Keys -> Phases] :
       /\ \A k \in Keys : known[k] # "free" => \E s \in Runs : phase[s][k] # "free"
       /\ phase' = [phase EXCEPT ![r] = known]
  /\ UNCHANGED performed

Claim(r, k) ==
  /\ phase[r][k] = "free"
  /\ phase' = [phase EXCEPT ![r][k] = "claimed"]
  /\ UNCHANGED performed

Perform(r, k) ==
  /\ phase[r][k] = "claimed"
  /\ performed[r][k] = 0
  /\ performed' = [performed EXCEPT ![r][k] = 1]
  /\ UNCHANGED phase

(* Only an operation that took effect is settled as completed.              *)
Settle(r, k) ==
  /\ \/ /\ phase[r][k] = "claimed"
        /\ performed[r][k] = 1
        /\ phase' = [phase EXCEPT ![r][k] = "completed"]
     \/ /\ phase[r][k] \in {"claimed", "completed"}
        /\ phase' = [phase EXCEPT ![r][k] = "uncertain"]
  /\ UNCHANGED performed

Next ==
  \E r \in Runs :
    \/ Adopt(r)
    \/ \E k \in Keys : Claim(r, k) \/ Perform(r, k) \/ Settle(r, k)

Spec == Init /\ [][Next]_vars
=============================================================================
