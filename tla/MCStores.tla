------------------------------ MODULE MCStores ------------------------------
(* What is kept and passed on beside a run, side by side: its entry in the   *)
(* queue, the indexes of the workspace, the usage of its answers, and the    *)
(* process and the pipe to the desktop.  A behaviour is one of one of them,  *)
(* and the others stay as they began.                                        *)
EXTENDS RunQueue, CodeRetrieval, UsageAccounting, BackendChild, TLC

CONSTANTS r1, r2, c1, c2, k1, k2, u1, u2, h1, h2

VARIABLE focus

(* Runs of the queue are interchangeable, and so are consumers.             *)
Symmetry ==
  Permutations(Runs) \cup Permutations(Consumers)
    \cup Permutations({u1, u2}) \cup Permutations({h1, h2})

(* A definition with a call, and a file with an error.                      *)
CodeText(parses, def, call, word) == [parses |-> parses, def |-> def, call |-> call, word |-> word]
MCCodes == {CodeText(TRUE, 1, 2, 3), CodeText(FALSE, 1, 0, 1)}

MCNoCount == -1
MCCounts == {MCNoCount, 2, 3}

StoresInit ==
  /\ focus \in {"queue", "retrieval", "usage", "child"}
  /\ Init /\ RetrievalInit /\ UsageInit /\ ChildInit
  /\ tree[k1] = CodeText(TRUE, 1, 2, 3) /\ tree[k2] = NoFile

QueueTurn ==
  focus = "queue" /\ Next /\ UNCHANGED <<focus, retrievalVars, usageVars, childVars>>
RetrievalTurn ==
  focus = "retrieval" /\ RetrievalNext /\ UNCHANGED <<focus, vars, usageVars, childVars>>
UsageTurn ==
  focus = "usage" /\ UsageNext /\ UNCHANGED <<focus, vars, retrievalVars, childVars>>
ChildTurn ==
  focus = "child" /\ ChildNext /\ UNCHANGED <<focus, vars, retrievalVars, usageVars>>

StoresNext == QueueTurn \/ RetrievalTurn \/ UsageTurn \/ ChildTurn

StoresSpec ==
  StoresInit
    /\ [][StoresNext]_<<focus, vars, retrievalVars, usageVars, childVars>>
=============================================================================
