---------------------------- MODULE DurableTopics ----------------------------
(***************************************************************************)
(* The older durable memory of a workspace: an index of topics and one file *)
(* of notes for each.  At the end of a run notes are promoted: the index is *)
(* written, then every file, one after the other.  The process may end      *)
(* between two writes.                                                      *)
(*                                                                          *)
(* A note is its subject, when its wording has one, and what it says of it. *)
(***************************************************************************)
EXTENDS Naturals, Sequences, SequencesExt, FiniteSets

CONSTANTS
  Topics,     \* DURABLE_TOPIC_DEFAULTS
  Promotions, \* what ends of runs may promote: sequences of pairs of topic and note
  NoSubject,  \* of a note that names none
  MaxRuns     \* bound: runs that promote

(* Told: the notes that are promoted at all.                                *)
Told == UNION {{p[k][2] : k \in DOMAIN p} : p \in Promotions}

ASSUME TopicsAssumption == MaxRuns \in Nat /\ \A p \in Promotions : p \in Seq(Topics \X Told)

VARIABLES
  index,      \* topics MEMORY.md lists
  topicFiles, \* the notes in the file of each topic
  toWrite,    \* topics whose file has to be written, with their notes
  runs

topicVars == <<index, topicFiles, toWrite, runs>>

(* load_topic_notes, for the topics of the index.                           *)
Loaded == [t \in index |-> topicFiles[t]]

SameSubjectAt(notes, n) ==
  {i \in DOMAIN notes : n.subject # NoSubject /\ notes[i].subject = n.subject}
FirstOf(S) == CHOOSE i \in S : \A j \in S : i <= j

(* Mutant of PromoteNote: a note takes the place of all of its topic.       *)
PromoteOver(all, promotion) ==
  LET t == promotion[1]
  IN [u \in DOMAIN all \cup {t} |-> IF u = t THEN <<promotion[2]>> ELSE all[u]]

(* A note that is there is left, one about its subject is replaced.         *)
PromoteNote(all, promotion) ==
  LET t == promotion[1]
      n == promotion[2]
      notes == IF t \in DOMAIN all THEN all[t] ELSE <<>>
      same == SameSubjectAt(notes, n)
      new == IF n \in ToSet(notes) THEN notes
             ELSE IF same # {} THEN [notes EXCEPT ![FirstOf(same)] = n]
             ELSE Append(notes, n)
  IN [u \in DOMAIN all \cup {t} |-> IF u = t THEN new ELSE all[u]]

-----------------------------------------------------------------------------

TopicsInit ==
  /\ index = {} /\ topicFiles = [t \in Topics |-> <<>>] /\ toWrite = <<>> /\ runs = 0

(* One note after the other.                                                *)
Promoted(promotions) ==
  LET all[k \in 0..Len(promotions)] ==
        IF k = 0 THEN Loaded ELSE PromoteNote(all[k - 1], promotions[k])
  IN all[Len(promotions)]

(* The notes a final answer states, when the request asked to remember.     *)
Promote(promotions) ==
  /\ promotions # <<>> /\ toWrite = <<>> /\ runs < MaxRuns
  /\ runs' = runs + 1
  /\ toWrite' = Promoted(promotions)
  /\ index' = DOMAIN toWrite'
  /\ UNCHANGED topicFiles

WriteTopic(t) ==
  /\ t \in DOMAIN toWrite
  /\ topicFiles' = [topicFiles EXCEPT ![t] = toWrite[t]]
  /\ toWrite' = [u \in DOMAIN toWrite \ {t} |-> toWrite[u]]
  /\ UNCHANGED <<index, runs>>

EndProcess ==
  /\ toWrite # <<>>
  /\ toWrite' = <<>>
  /\ UNCHANGED <<index, topicFiles, runs>>

TopicsNext ==
  \/ \E promotions \in Promotions : Promote(promotions)
  \/ \E t \in Topics : WriteTopic(t)
  \/ EndProcess

TopicsSpec == TopicsInit /\ [][TopicsNext]_topicVars

-----------------------------------------------------------------------------

(* Every note on the disk is found again, also after a crash in the middle  *)
(* of a promotion: its topic is in the index (promote, _write_index).       *)
NotesReachable == \A t \in Topics : topicFiles[t] # <<>> => t \in index

(* No topic says two things about one subject, or one thing twice (promote). *)
OneNotePerSubject ==
  \A t \in Topics : \A i, j \in DOMAIN topicFiles[t] :
    LET n == topicFiles[t][i]
        o == topicFiles[t][j]
    IN n = o \/ (n.subject = o.subject /\ n.subject # NoSubject) => i = j

(* A note goes only when a note about its subject takes its place.          *)
NotesReplaced ==
  [][\A t \in Topics : \A n \in ToSet(topicFiles[t]) \ ToSet(topicFiles'[t]) :
       n.subject # NoSubject /\ \E o \in ToSet(topicFiles'[t]) : o.subject = n.subject]_topicVars

(* The topics keep what they were told, in every state and over every step, *)
(* also when a process ends in the middle of a promotion: notes are found,  *)
(* stand once to a subject, and go only for another of their subject        *)
(* (promote).                                                               *)
TopicsKept == []NotesReachable /\ []OneNotePerSubject /\ NotesReplaced
=============================================================================
