------------------------------ MODULE MCContext ------------------------------
(* The parts that decide what a model is told, side by side: a behaviour is  *)
(* one of one part, and the others stay as they began.                       *)
EXTENDS ContextCompiler, HistoryCondenser, PromptBudget,
        EvidenceMemory, DurableMemory, DurableTopics, SessionMemory, TLC

CONSTANTS c1, c2, r1, f, g, a, b, s, t1, t2, n1, none, m1, m2

VARIABLE focus

(* An answer makes one call or two.                                         *)
MCBatches == {<<1>>, <<1, 2>>}

MCCategoryOf == (c1 :> "Constraints") @@ (c2 :> "Constraints") @@ (r1 :> "Requirements")
MCMapFiles == <<"a", "b", "c">>
MCBlockSize == ("a" :> 1) @@ ("b" :> 3) @@ ("c" :> 1)

MCDefault == ("prefix" :> 6) @@ ("memory" :> 4) @@ ("relevant_memory" :> 4) @@ ("history" :> 8)

(* One query that finds f more relevant than g, one that finds only what    *)
(* was read of g.                                                           *)
MCQueries ==
  {[i \in Identities |-> IF i[1] = f THEN 3 ELSE 1],
   [i \in Identities |-> IF i = <<g, "read">> THEN 2 ELSE 0]}

(* The Python version of the project, which may change; a wording that says *)
(* more; one that overlaps with it without a subject; and a secret.         *)
Says(subject, words, numbers) ==
  [topic |-> "t", subject |-> subject, words |-> words, numbers |-> numbers]
Python(version) == Says("project", {"project", "uses", "python"}, {version})
WithUv == Says("project", {"project", "uses", "python", "via", "uv"}, {})
Terse == Says("none", {"python"}, {"3.13"})
Lint == Says("none", {"run", "ruff"}, {})
Secret == Says("none", {"password"}, {})
Candidate(says, verified) == [says |-> says, verified |-> verified]

MCHarvests ==
  {<<Candidate(says, verified)>> :
     says \in {Python("3.11"), Python("3.13"), Terse, WithUv}, verified \in BOOLEAN}
    \cup {<<Candidate(Secret, FALSE), Candidate(Python("3.12"), TRUE),
            Candidate(Python("3.12"), FALSE)>>}
MCUnfit == {Secret}
MCLegacyNotes == <<Python("3.11"), Lint>>

Note(subject, wording) == [subject |-> subject, says |-> wording]
MCPromotions ==
  {<<<<t, n>>>> : t \in {t1, t2}, n \in {Note(n1, 1), Note(n1, 2), Note(none, 1)}}
    \cup {<<<<t1, Note(n1, 2)>>, <<t1, Note(none, 1)>>, <<t2, Note(n1, 1)>>>>}

MCSourceOrder == <<m1, m2>>

(* Of two files and two notes: the files are worth more, or the notes.      *)
MCRequests == {<<2, 2, 1, 1>>, <<1, 1, 2, 2>>}

MCSymmetry == Permutations({a, b}) \cup Permutations(Texts)

ContextInit ==
  /\ focus \in {"compiler", "condenser", "prompt", "evidence", "durable", "topics", "session"}
  /\ CompilerInit /\ CondenserInit /\ PromptInit
  /\ EvidenceInit /\ DurableInit /\ TopicsInit /\ SessionInit
  /\ focus # "compiler" => chat[2].size = 1
  /\ focus # "prompt" => window = 30
  /\ focus # "evidence" => content = [p \in Paths |-> a]
  /\ focus # "session" => /\ \A p, q \in Sources : disk[p] = disk[q]
                          /\ settings = CHOOSE x \in Settings : TRUE

CompilerTurn ==
  /\ focus = "compiler" /\ CompilerNext
  /\ UNCHANGED <<focus, condenserVars, promptVars, evidenceVars, durableVars, topicVars, sessionVars>>

CondenserTurn ==
  /\ focus = "condenser" /\ CondenserNext
  /\ UNCHANGED <<focus, compilerVars, promptVars, evidenceVars, durableVars, topicVars, sessionVars>>

PromptTurn ==
  /\ focus = "prompt" /\ PromptNext
  /\ UNCHANGED <<focus, compilerVars, condenserVars, evidenceVars, durableVars, topicVars, sessionVars>>

EvidenceTurn ==
  /\ focus = "evidence" /\ EvidenceNext
  /\ UNCHANGED <<focus, compilerVars, condenserVars, promptVars, durableVars, topicVars, sessionVars>>

DurableTurn ==
  /\ focus = "durable" /\ DurableNext
  /\ UNCHANGED <<focus, compilerVars, condenserVars, promptVars, evidenceVars, topicVars, sessionVars>>

TopicsTurn ==
  /\ focus = "topics" /\ TopicsNext
  /\ UNCHANGED <<focus, compilerVars, condenserVars, promptVars, evidenceVars, durableVars, sessionVars>>

SessionTurn ==
  /\ focus = "session" /\ SessionNext
  /\ UNCHANGED <<focus, compilerVars, condenserVars, promptVars, evidenceVars, durableVars, topicVars>>

ContextNext ==
  \/ CompilerTurn \/ CondenserTurn \/ PromptTurn \/ EvidenceTurn
  \/ DurableTurn \/ TopicsTurn \/ SessionTurn

ContextSpec ==
  ContextInit /\ [][ContextNext]_<<focus, compilerVars, condenserVars, promptVars,
                                  evidenceVars, durableVars, topicVars, sessionVars>>
=============================================================================
