-------------------------- MODULE HistoryCondenser --------------------------
(***************************************************************************)
(* The summary that stands for the older part of a run's history, and the   *)
(* selection of the repository map that goes with it.  A summary is made    *)
(* by a model of its own, or, without one or when that fails, from what the *)
(* entries say: first what was laid down or found out in words, then what   *)
(* the tools did, cut from the end to the budget of its layer.              *)
(*                                                                          *)
(* A summary is a sequence of lines, each as large as the next.             *)
(***************************************************************************)
EXTENDS Naturals, Sequences, SequencesExt, FiniteSets, Ordering

CONSTANTS
  Facts,       \* sentences with a signal
  CategoryOf,  \* the category of each, which its words decide
  Places,      \* paths and commands
  SummaryLines, \* lines the compressed_history layer has room for
  KeepLast,    \* how many lines a tool section keeps: 12 of findings, 8 of others
  HasModel,    \* a condenser client is configured
  MapFiles,    \* files of the code index, by their score for the task, best first
  BlockSize,   \* for each of them, the tokens of its block
  MapBudget,   \* tokens of the repo_map layer
  MaxEntries,  \* bound: entries of the history
  MaxFailures  \* bound: failures of the model

Categories == {"Constraints", "Requirements", "Decisions", "Confirmed Facts", "Logical Constraints"}

ASSUME CondenserAssumption ==
  /\ SummaryLines \in Nat /\ KeepLast \in Nat \ {0} /\ HasModel \in BOOLEAN /\ MapBudget \in Nat
  /\ CategoryOf \in [Facts -> Categories]
  /\ Facts \cap Places = {} /\ "title" \notin Facts
  /\ MapFiles \in Seq(ToSet(MapFiles)) /\ BlockSize \in [ToSet(MapFiles) -> Nat \ {0}]

VARIABLES
  entries,     \* the history: what was said, and what tools did
  older,       \* how many of the entries the last compilation condensed
  summary,     \* the lines that stand for them; <<"llm">> is a model's text
  failures,    \* compression_failure_count
  repoMap      \* the files of the repository map

condenserVars == <<entries, older, summary, failures, repoMap>>

Line(part, what, ok) == [part |-> part, what |-> what, ok |-> ok]

-----------------------------------------------------------------------------

(* A sentence counts, and a file is named as read, the first time.          *)
IsFirst(s, i) == \A j \in 1..(i - 1) : s[j].kind = s[i].kind => s[j].what # s[i].what

(* "exit_code: 0", or no "error" in the output: the summary's pass.         *)
Passed(e) == e.exit = 0 \/ ~e.error

(* The lines of a part, for the entries at these places, in their order.    *)
LinesFor(s, part, places, passed) ==
  Picked([i \in DOMAIN s |-> Line(part, s[i].what, i \in passed)], places)

LastOf(q) == SubSeq(q, IF Len(q) > KeepLast THEN Len(q) - KeepLast + 1 ELSE 1, Len(q))

OfKind(s, kind) == {i \in DOMAIN s : s[i].kind = kind}

SignalsOf(s, category) ==
  LinesFor(s, category,
           {i \in OfKind(s, "said") : CategoryOf[s[i].what] = category /\ IsFirst(s, i)}, DOMAIN s)

ToolLines(s) ==
  LET ran == OfKind(s, "run_shell")
      passed == {i \in ran : Passed(s[i])}
      found == OfKind(s, "search") \cup {i \in OfKind(s, "read_file") : IsFirst(s, i)}
      failed == (ran \ passed) \cup {i \in OfKind(s, "edit") : s[i].error}
  IN LastOf(LinesFor(s, "Findings", found, DOMAIN s))
     \o LastOf(LinesFor(s, "Symbols", OfKind(s, "symbol_search"), DOMAIN s))
     \o LastOf(LinesFor(s, "Changed", OfKind(s, "edit"), DOMAIN s))
     \o LastOf(LinesFor(s, "Verification", ran, passed))
     \o LastOf(LinesFor(s, "Failed Approaches", failed, {}))

Title(part) == Line(part, "title", TRUE)
Section(part, lines) == IF lines = <<>> THEN <<>> ELSE <<Title(part)>> \o lines

(* In the order in which a summary lists them.                              *)
SignalLines(s) ==
  LET section(category) == Section(category, SignalsOf(s, category))
  IN section("Constraints") \o section("Requirements") \o section("Decisions")
     \o section("Confirmed Facts") \o section("Logical Constraints")

(* Mutant of Fit: what is cut is cut from the front.                        *)
FitLast(lines) ==
  SubSeq(lines, IF Len(lines) > SummaryLines THEN Len(lines) - SummaryLines + 1 ELSE 1, Len(lines))

(* _fit_sections: lines are added as long as they fit.                      *)
Fit(lines) == SubSeq(lines, 1, IF Len(lines) < SummaryLines THEN Len(lines) ELSE SummaryLines)

(* The lines of the goal, the headings and what the working state excludes  *)
(* as said elsewhere (excluded_facts) are left out.                         *)
Deterministic(s) ==
  LET lines == <<Title("Earlier Investigation")>> \o SignalLines(s)
               \o Section("Tool Evidence", ToolLines(s))
  IN IF Fit(lines) = <<>> THEN <<Title("compression budget exhausted")>> ELSE Fit(lines)

(* RepoMapSelector.select: blocks in the order of their scores, up to the   *)
(* first that does not fit any more; the first of all is always taken.      *)
WithBlock(got, f) ==
  IF got.full \/ (got.used > 0 /\ got.used + BlockSize[f] > MapBudget)
  THEN [got EXCEPT !.full = TRUE]
  ELSE [got EXCEPT !.used = @ + BlockSize[f], !.files = Append(@, f)]

NoBlocks == [used |-> 0, files |-> <<>>, full |-> FALSE]

SelectedMap(n) ==
  LET got[k \in 0..n] == IF k = 0 THEN NoBlocks ELSE WithBlock(got[k - 1], MapFiles[k])
  IN got[n].files

-----------------------------------------------------------------------------

CondenserInit ==
  /\ entries = <<>> /\ older = 0 /\ summary = <<>> /\ failures = 0 /\ repoMap = <<>>

AddEntry(e) ==
  /\ Len(entries) < MaxEntries
  /\ entries' = Append(entries, e)
  /\ UNCHANGED <<older, summary, failures, repoMap>>

(* A compilation condenses all entries but the n it shows as they are.      *)
Condense(n, answered) ==
  /\ n < Len(entries)
  /\ answered => HasModel
  /\ older' = Len(entries) - n
  /\ summary' = IF answered THEN <<Title("llm")>>
                ELSE Deterministic(SubSeq(entries, 1, Len(entries) - n))
  /\ failures' = IF HasModel /\ ~answered THEN failures + 1 ELSE failures
  /\ \E m \in 0..Len(MapFiles) : repoMap' = SelectedMap(m)
  /\ UNCHANGED entries

(* Only a command has a code it exits with, and only it or an edit fails.   *)
SomeEntry ==
  {e \in [kind : {"said", "read_file", "search", "symbol_search", "run_shell", "edit"},
          what : Facts \cup Places, exit : {0, 1}, error : BOOLEAN] :
     /\ e.what \in Facts <=> e.kind = "said"
     /\ e.exit = 0 \/ e.kind = "run_shell"
     /\ e.error => e.kind \in {"run_shell", "edit"}}

CondenserNext ==
  \/ \E e \in SomeEntry : AddEntry(e)
  \/ failures < MaxFailures /\ \E n \in 0..1, answered \in BOOLEAN : Condense(n, answered)

CondenserSpec == CondenserInit /\ [][CondenserNext]_condenserVars

-----------------------------------------------------------------------------

Condensed == SubSeq(entries, 1, older)

CondenserTypeOK ==
  /\ older \in 0..Len(entries) /\ failures \in Nat
  /\ ToSet(repoMap) \subseteq ToSet(MapFiles)
  /\ \A part \in {"Findings", "Symbols", "Changed", "Verification", "Failed Approaches"} :
       Cardinality({k \in DOMAIN summary : summary[k].part = part}) <= KeepLast

(* "never deletes the history with an empty summary": whatever fails, what  *)
(* was condensed is stood for by a text, within the layer (condense).       *)
NeverBlank ==
  older > 0 => summary # <<>> /\ (Len(summary) > 1 => Len(summary) <= SummaryLines)

(* What is cut is cut from the end: a summary with a line of a later part   *)
(* has every constraint that the condensed entries lay down, so that what   *)
(* tools did never takes the place of what must not be done (_fit_sections). *)
ConstraintsFirst ==
  (\E l \in ToSet(summary) :
     l.part \in {"Tool Evidence", "Findings"} \cup (Categories \ {"Constraints"})) =>
    \A e \in ToSet(Condensed) : e.kind = "said" /\ CategoryOf[e.what] = "Constraints" =>
      Line("Constraints", e.what, TRUE) \in ToSet(summary)

(* No sentence is in a summary twice, however often it was said, and none   *)
(* that was not said (_deterministic_condense).                             *)
SaidOnce ==
  \A f \in Facts :
    /\ Cardinality({k \in DOMAIN summary : summary[k].what = f}) <= 1
    /\ (\E l \in ToSet(summary) : l.what = f) => \E e \in ToSet(Condensed) : e.what = f

(* The blocks of the map are within its budget, but for a first that is     *)
(* too large on its own (RepoMapSelector.select).                           *)
MapTokens(files) ==
  LET upTo[k \in 0..Len(files)] == IF k = 0 THEN 0 ELSE upTo[k - 1] + BlockSize[files[k]]
  IN upTo[Len(files)]
MapWithinBudget == Len(repoMap) > 1 => MapTokens(repoMap) <= MapBudget

(* "never hide failures": a command the summary has as passed exited with 0. *)
(* It does not hold: a failed command whose output has no "error" passes.   *)
PassedIsTrue ==
  \A p \in Places : Line("Verification", p, TRUE) \in ToSet(summary) =>
    \E e \in ToSet(Condensed) : e.kind = "run_shell" /\ e.what = p /\ e.exit = 0

(* A summary is fit to stand for the older history: it is never blank,      *)
(* loses what tools did before any constraint, says nothing twice and       *)
(* nothing new, and the map beside it fits its budget, whether the model    *)
(* answered or failed (condense, select).                                   *)
SummarySound ==
  /\ CondenserTypeOK
  /\ NeverBlank
  /\ ConstraintsFirst
  /\ SaidOnce
  /\ MapWithinBudget
=============================================================================
