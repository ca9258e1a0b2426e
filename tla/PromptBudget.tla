---------------------------- MODULE PromptBudget ----------------------------
(***************************************************************************)
(* The prompt without the context compiler: five sections, each with a      *)
(* budget, which are taken back one after the other, down to their floors,  *)
(* until the prompt fits the model.  The request itself is never cut.       *)
(*                                                                          *)
(* A text is its size, in one unit (room is measured in tokens and clips in *)
(* characters when there is a token counter), headings are left out; the    *)
(* history is a sequence of entries, which are messages or tool calls.  An  *)
(* entry of a call has two texts, its arguments and its result.             *)
(***************************************************************************)
EXTENDS Naturals, Sequences, SequencesExt

CONSTANTS
  TextSizes,     \* sizes of the texts of the sections, and of the request
  CallSizes,     \* sizes of a call with its arguments, 0 of a message
  EntrySizes,    \* sizes of messages and results in the history
  ReadPaths,     \* files that old entries may be reads of
  DefaultBudget, \* of each section
  Windows,       \* resolve_prompt_budget: window less output and margin
  RecentWindow,  \* recent_window: entries that count as recent
  SmallClip,     \* what an entry is clipped to at the least
  MaxPast        \* bound: entries of the history

Reduction == <<"relevant_memory", "history", "memory", "prefix">>
Sections == ToSet(Reduction)

ASSUME PromptAssumption ==
  /\ DefaultBudget \in [Sections -> Nat \ {0}]
  /\ TextSizes \cup CallSizes \cup Windows \subseteq Nat /\ EntrySizes \subseteq Nat \ {0}
  /\ RecentWindow \in Nat \ {0} /\ SmallClip \in Nat \ {0}

VARIABLES
  past,      \* the history
  texts,     \* the sizes of the other sections and of the request
  budgets,
  window,    \* total_budget
  building   \* "no", "fitting", "built"

promptVars == <<past, texts, budgets, window, building>>

Least(a, b) == IF a < b THEN a ELSE b
SectionFloor(s) == IF DefaultBudget[s] \div 4 > 1 THEN DefaultBudget[s] \div 4 ELSE 1
SumOf(f) == f["relevant_memory"] + f["history"] + f["memory"] + f["prefix"]

-----------------------------------------------------------------------------
(* The history.  Of the reads of a file among the old entries the first is  *)
(* shown, the others are left out.                                          *)

Recent(history, i) == i > Len(history) - RecentWindow
Collapsed(history, i) ==
  /\ ~Recent(history, i) /\ history[i].path # "none"
  /\ \E j \in 1..(i - 1) : history[j].path = history[i].path
(* The lines of an entry: an old call is one line, which has its arguments  *)
(* whole, or the summary of its file.                                       *)
ShownAs(history, i) ==
  LET entry == history[i]
  IN IF Recent(history, i) THEN [call |-> entry.call, text |-> entry.text]
     ELSE [call |-> entry.call,
           text |-> IF entry.call = 0 THEN Least(entry.text, SmallClip + 1) ELSE 0]

(* From the newest on: whole if it fits, else with each line clipped to all *)
(* that is left, or, when it is old, to the least; else not at all.         *)
Place(history, i, got, budget) ==
  LET left == IF budget > got.used THEN budget - got.used ELSE 0
      lines == ShownAs(history, i)
      clip == IF Recent(history, i) /\ left > SmallClip THEN left ELSE SmallClip
      whole == lines.call + lines.text
      clipped == Least(lines.call, clip) + Least(lines.text, clip)
      with(n) == [used |-> got.used + n, shown |-> got.shown \cup {i}]
  IN IF Collapsed(history, i) THEN got
     ELSE IF whole <= left THEN with(whole)
     ELSE IF clipped <= left THEN with(clipped)
     ELSE got

HistorySection(history, budget) ==
  LET got[k \in 0..Len(history)] ==
        IF k = 0 THEN [used |-> 0, shown |-> {}]
        ELSE Place(history, Len(history) - k + 1, got[k - 1], budget)
  IN got[Len(history)]

Rendered(s, b) == IF s = "history" THEN HistorySection(past, b[s]).used ELSE Least(texts[s], b[s])
PromptSize(b) == texts["request"] + SumOf([s \in Sections |-> Rendered(s, b)])

(* _fit_section_budgets: a window smaller than all budgets shrinks them all. *)
FittedBudgets(w) ==
  LET all == SumOf(DefaultBudget)
  IN IF all <= w THEN DefaultBudget
     ELSE [s \in Sections |->
             IF (DefaultBudget[s] * w) \div all > 1 THEN (DefaultBudget[s] * w) \div all ELSE 1]

-----------------------------------------------------------------------------

PromptInit ==
  /\ past = <<>>
  /\ texts = [s \in {"prefix", "memory", "relevant_memory", "request"} |-> 0]
  /\ budgets = DefaultBudget /\ window \in Windows /\ building = "no"

AddPast(call, text, path) ==
  /\ building = "no"
  /\ call = 0 => path = "none"
  /\ Len(past) < MaxPast
  /\ past' = Append(past, [call |-> call, text |-> text, path |-> path])
  /\ UNCHANGED <<texts, budgets, window, building>>

BeginBuild ==
  /\ building = "no"
  /\ texts' \in [DOMAIN texts -> TextSizes]
  /\ budgets' = FittedBudgets(window)
  /\ building' = "fitting"
  /\ UNCHANGED <<past, window>>

CanGive(s) == budgets[s] > SectionFloor(s)
(* Mutant of Giving: the last section never gives.                          *)
GivingOnce == {i \in 1..3 : CanGive(Reduction[i])}

Giving == {i \in DOMAIN Reduction : CanGive(Reduction[i])}

(* One turn of the loop: the first section above its floor gives what the   *)
(* prompt is too large by, also when its text does not fill its budget.     *)
ReduceSection ==
  /\ building = "fitting"
  /\ PromptSize(budgets) > window
  /\ Giving # {}
  /\ LET section == Reduction[Min(Giving)]
         over == PromptSize(budgets) - window
         least == IF budgets[section] > over THEN budgets[section] - over ELSE 0
     IN budgets' = [budgets EXCEPT ![section] = IF least > SectionFloor(section) THEN least ELSE SectionFloor(section)]
  /\ UNCHANGED <<past, texts, window, building>>

EndBuild ==
  /\ building = "fitting"
  /\ PromptSize(budgets) <= window \/ Giving = {}
  /\ building' = "built"
  /\ UNCHANGED <<past, texts, budgets, window>>

PromptNext ==
  \/ \E c \in CallSizes, n \in EntrySizes, p \in ReadPaths \cup {"none"} : AddPast(c, n, p)
  \/ BeginBuild
  \/ ReduceSection
  \/ EndBuild

PromptSpec == PromptInit /\ [][PromptNext]_promptVars

-----------------------------------------------------------------------------

PromptTypeOK ==
  /\ budgets \in [Sections -> Nat \ {0}] /\ window \in Windows
  /\ building \in {"no", "fitting", "built"}

(* A prompt is too large only if it would be with every section at its      *)
(* floor: no section keeps what would have made room, also when a small     *)
(* window put some budgets below their floors at once (build).              *)
OverOnlyAtFloors ==
  building = "built" /\ PromptSize(budgets) > window =>
    PromptSize([s \in Sections |-> Least(SectionFloor(s), FittedBudgets(window)[s])]) > window

(* "first relevant_memory, then history, and only then memory and prefix":  *)
(* no section gives before all in front of it are at their floors.          *)
GivenInOrder ==
  building # "no" =>
    \A j \in DOMAIN Reduction : budgets[Reduction[j]] < FittedBudgets(window)[Reduction[j]] =>
      \A i \in 1..(j - 1) : budgets[Reduction[i]] <= SectionFloor(Reduction[i])

(* What happened last is in the prompt whenever the history has room for    *)
(* it: for a clip of a message, however large it is, and for the whole of   *)
(* a call, as clipping two lines to the same room does not help             *)
(* (_render_history_section).                                               *)
RoomFor(entry) ==
  IF entry.call = 0 THEN Least(entry.text, SmallClip) ELSE entry.call + entry.text

NewestResultShown ==
  building = "built" /\ past # <<>> =>
    (Len(past) \in HistorySection(past, budgets["history"]).shown
       <=> budgets["history"] >= RoomFor(past[Len(past)]))

(* A prompt gives up text in the order laid down: each section only after   *)
(* those before it are at their floors, none keeps what would make room,    *)
(* and the newest entry stays in sight while the history has room for it    *)
(* (build).                                                                 *)
PromptSound == PromptTypeOK /\ OverOnlyAtFloors /\ GivenInOrder /\ NewestResultShown
=============================================================================
