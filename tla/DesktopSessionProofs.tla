------------------------- MODULE DesktopSessionProofs -------------------------
(***************************************************************************)
(* Proofs about the application runner with its client, for any number of   *)
(* runs, approvals, turns, messages and clicks.                             *)
(***************************************************************************)
EXTENDS DesktopSession, TLAPS

USE BoundsAssumption, UserAssumption

(* The places of the worker at which it may start a tool without having     *)
(* looked whether its run was canceled.                                     *)
Committed == {"acting", "asking", "waiting", "resolved"}

(* A tool that started after its run was canceled was the one the worker    *)
(* was committed to: it is committed to none again.                         *)
StopsInv ==
  /\ late \in [Runs -> {0, 1}]
  /\ \A r \in Runs : late[r] = 1 => r \in canceled /\ (job = r => worker \notin Committed)

(* A step that starts no tool, and after which the worker is committed only *)
(* if it was before, or its run was not canceled.                           *)
LEMMA NoToolStarts ==
  ASSUME StopsInv, late' = late, canceled \subseteq canceled',
         \/ job' = job /\ (worker' \in Committed => worker \in Committed \/ job \notin canceled)
         \/ worker' \notin Committed
  PROVE  StopsInv'
BY DEF StopsInv

(* The worker starts the tool it was committed to, and looks again.         *)
LEMMA ToolStarts ==
  ASSUME StopsInv, worker \in Committed, Executes \/ late' = late,
         worker' = "turn", job' = job, canceled' = canceled
  PROVE  StopsInv'
<1>1. worker' \notin Committed
  BY DEF Committed
<1>2. late' = late \/ (job \in canceled /\ late' = [late EXCEPT ![job] = @ + 1])
  BY DEF Executes
<1>3. job \in Runs => late[job] = 0
  BY DEF StopsInv
<1>4. late' \in [Runs -> {0, 1}] /\ \A r \in Runs : late'[r] = 1 => r \in canceled
  BY <1>2, <1>3 DEF StopsInv
<1>. QED
  BY <1>1, <1>4 DEF StopsInv

LEMMA StopsInit == Init => StopsInv
BY DEF Init, RunnerInit, StopsInv

LEMMA StopsKeptByMain == StopsInv /\ Main => StopsInv'
<1>. SUFFICES ASSUME StopsInv, Main PROVE StopsInv'
  OBVIOUS
<1>. USE NoToolStarts
<1>1. CASE RefuseMessage
  BY <1>1 DEF RefuseMessage, Read, sharedVars, askVars
<1>2. CASE AcceptMessage
  BY <1>2 DEF AcceptMessage, Read, Emit, Committed
<1>3. CASE MarkCanceled
  BY <1>3 DEF MarkCanceled, Read, askVars
<1>4. CASE RejectCanceled
  BY <1>4 DEF RejectCanceled, askVars, historyVars
<1>5. CASE AnnounceCanceled
  BY <1>5 DEF AnnounceCanceled, sharedVars, askVars
<1>6. CASE ResolveApproval
  BY <1>6 DEF ResolveApproval, askVars, historyVars
<1>7. CASE Close
  BY <1>7 DEF Close, Read, askVars, historyVars
<1>8. CASE Exit
  BY <1>8 DEF Exit, sharedVars, askVars, Committed
<1>9. CASE Killed
  BY <1>9 DEF Killed, sharedVars, askVars, historyVars, Committed
<1>. QED
  BY <1>1, <1>2, <1>3, <1>4, <1>5, <1>6, <1>7, <1>8, <1>9 DEF Main

LEMMA StopsKeptByWorker == StopsInv /\ Worker => StopsInv'
<1>. SUFFICES ASSUME StopsInv, Worker PROVE StopsInv'
  OBVIOUS
<1>1. CASE CheckCanceled
  BY <1>1, NoToolStarts
     DEF CheckCanceled, WorkerTo, CancelSeen, Committed, sharedVars, askVars, historyVars
<1>2. CASE EndOfAsk
  BY <1>2, NoToolStarts DEF EndOfAsk, WorkerTo, Committed, sharedVars, askVars, historyVars
<1>3. CASE RunTool
  BY <1>3, ToolStarts DEF RunTool, WorkerTo, Committed, sharedVars
<1>4. CASE RegisterRequest
  BY <1>4, NoToolStarts DEF RegisterRequest, WorkerTo, Committed, historyVars
<1>5. CASE AnnounceRequest
  BY <1>5, NoToolStarts DEF AnnounceRequest, WorkerTo, Committed, sharedVars, askVars
<1>6. CASE AnnounceDecision
  BY <1>6, NoToolStarts DEF AnnounceDecision, WorkerTo, Committed, sharedVars, askVars
<1>7. CASE UseDecision
  BY <1>7, ToolStarts DEF UseDecision, WorkerTo, Committed
<1>8. CASE CheckReturn
  <2>1. worker' \notin Committed
    BY <1>8 DEF CheckReturn, WorkerTo, Committed
  <2>. QED
    BY <1>8, <2>1, NoToolStarts DEF CheckReturn, sharedVars, askVars, historyVars
<1>9. CASE AnnounceEnd
  BY <1>9, NoToolStarts DEF AnnounceEnd, WorkerTo, Committed, sharedVars, askVars
<1>10. CASE ClearRun
  BY <1>10, NoToolStarts DEF ClearRun, WorkerTo, Committed, askVars, historyVars
<1>11. CASE ClearThread
  BY <1>11, NoToolStarts DEF ClearThread, WorkerTo, Committed, sharedVars, askVars, historyVars
<1>. QED
  BY <1>1, <1>2, <1>3, <1>4, <1>5, <1>6, <1>7, <1>8, <1>9, <1>10, <1>11 DEF Worker

LEMMA StopsKept == StopsInv /\ [Next]_vars => StopsInv'
<1>. SUFFICES ASSUME StopsInv, [Next]_vars PROVE StopsInv'
  OBVIOUS
<1>1. CASE User
  <2>1. UNCHANGED <<late, canceled, job, worker>>
    BY <1>1 DEF User, SendMessage, StopRun, AnswerDialog, LeaveProject, OtherRunnerVars
  <2>. QED
    BY <2>1, NoToolStarts
<1>2. CASE Main
  BY <1>2, StopsKeptByMain
<1>3. CASE Worker
  BY <1>3, StopsKeptByWorker
<1>4. CASE ResetCancel
  BY <1>4, NoToolStarts DEF ResetCancel, askVars, historyVars
<1>5. CASE ReceiveEvent
  BY <1>5, NoToolStarts DEF ReceiveEvent
<1>6. CASE UNCHANGED vars
  BY <1>6, NoToolStarts DEF vars, runnerVars
<1>. QED
  BY <1>1, <1>2, <1>3, <1>4, <1>5, <1>6 DEF Next, RunnerNext

(* However commands, events and the two threads interleave, a canceled run  *)
(* starts at most the one tool it was committed to (cancel_checker,         *)
(* approval_handler, canceled_run_ids).                                     *)
THEOREM CanceledStops == Spec => []CancelStopsTools
<1>1. Init /\ [][Next]_vars => []StopsInv
  BY StopsInit, StopsKept, PTL
<1>2. StopsInv => CancelStopsTools
  BY DEF StopsInv, CancelStopsTools
<1>. QED
  BY <1>1, <1>2, PTL DEF Spec

-----------------------------------------------------------------------------

(* The type invariant, in the parts that a step changes together.           *)
StreamsOK == inbox \in Seq(Commands) /\ outbox \in Seq(Events) /\ told \in [Runs -> SUBSET Terminal]

MainOK ==
  /\ main \in {"reading", "rejecting", "announcing", "closing", "exited"}
  /\ target \in Runs \cup {NoRun}
  /\ active \in [run : Runs \cup {NoRun}, cancel : BOOLEAN]
  /\ canceled \subseteq Runs
  /\ refused \subseteq Runs /\ struck \subseteq Runs

WorkerOK ==
  /\ pending = IF worker \in {"asking", "waiting", "resolved"} THEN {asked}
               ELSE IF main = "exited" THEN pending ELSE {}
  /\ approved \subseteq Approvals /\ woken \subseteq Approvals
  /\ worker \in {"dead", "turn", "acting", "asking", "waiting", "resolved", "answered",
                 "failed", "raised", "completing", "failing", "excusing", "clearing",
                 "detaching"}
  /\ job \in Runs \cup {NoRun}
  /\ turns \in 0..MaxTurns
  /\ asked \in Approvals \cup {NoApproval}
  /\ worker \in {"asking", "waiting", "resolved"} => asked \in Approvals
  /\ leftover \in BOOLEAN
  /\ runs \in 0..MaxRuns
  /\ approvalCount \in 0..MaxApprovals

ClientOK ==
  /\ chat \in [run : Runs \cup {NoRun}, running : BOOLEAN]
  /\ dialogs \subseteq Dialogs
  /\ sends \in 0..MaxSends /\ stops \in 0..MaxStops

(* An approval that is announced is one.                                    *)
OutboxInv ==
  \A n \in 1..Len(outbox) :
    outbox[n].type = "approval_requested" => outbox[n].approval \in Approvals

TypesInv ==
  /\ StreamsOK /\ OutboxInv /\ MainOK /\ WorkerOK /\ ClientOK
  /\ main = "exited" => worker = "dead"

LEMMA TypesInit == Init => TypesInv
<1>. SUFFICES ASSUME Init PROVE TypesInv
  OBVIOUS
<1>. USE DEF Init, RunnerInit, NoRun, NoApproval
<1>1. StreamsOK /\ OutboxInv
  <2>1. inbox = <<>> /\ outbox = <<>> /\ told = [r \in Runs |-> {}]
    OBVIOUS
  <2>2. inbox \in Seq(Commands) /\ outbox \in Seq(Events) /\ Len(outbox) = 0
    BY <2>1
  <2>3. told \in [Runs -> SUBSET Terminal]
    BY <2>1
  <2>. QED
    BY <2>2, <2>3 DEF StreamsOK, OutboxInv
<1>2. MainOK
  BY DEF MainOK
<1>3. WorkerOK
  <2>1. /\ worker = "dead" /\ pending = {} /\ main = "reading"
        /\ approved \subseteq Approvals /\ woken \subseteq Approvals
    OBVIOUS
  <2>2. job = 0 /\ asked = 0 /\ turns = 0 /\ runs = 0 /\ approvalCount = 0 /\ leftover = FALSE
    OBVIOUS
  <2>. HIDE DEF Init, RunnerInit
  <2>3. 0 \in 0..MaxTurns /\ 0 \in 0..MaxRuns /\ 0 \in 0..MaxApprovals
    BY BoundsAssumption
  <2>4. pending = IF worker \in {"asking", "waiting", "resolved"} THEN {asked}
                  ELSE IF main = "exited" THEN pending ELSE {}
    BY <2>1
  <2>5. job \in Runs \cup {NoRun} /\ asked \in Approvals \cup {NoApproval}
    BY <2>2
  <2>. QED
    BY <2>1, <2>2, <2>3, <2>4, <2>5 DEF WorkerOK
<1>4. ClientOK
  BY DEF ClientOK, NoChat
<1>. QED
  BY <1>1, <1>2, <1>3, <1>4 DEF TypesInv

(* A command that is read is a command, and so are the others.              *)
LEMMA ReadCommand ==
  ASSUME StreamsOK, NEW type, Read(type)
  PROVE  Head(inbox) \in Commands /\ inbox' \in Seq(Commands)
BY DEF StreamsOK, Read

(* An event that is emitted is an event.                                    *)
LEMMA EventEmitted ==
  ASSUME StreamsOK, OutboxInv, inbox' \in Seq(Commands),
         NEW type \in Terminal \cup {"user_message_received", "approval_requested",
                                     "approval_resolved", "session_closed"},
         NEW r \in Runs \cup {NoRun}, NEW p \in Approvals \cup {NoApproval},
         type = "approval_requested" => p \in Approvals,
         outbox' = Append(outbox, Message(type, r, p)), told' = told \/ Emit(type, r, p)
  PROVE  StreamsOK' /\ OutboxInv'
<1>. DEFINE m == Message(type, r, p)
<1>1. m \in Events /\ m.type = type /\ m.approval = p
  BY DEF Message, Events, Messages
<1>2. told' \in [Runs -> SUBSET Terminal]
  BY DEF StreamsOK, Emit
<1>. HIDE DEF m
<1>3. outbox' = Append(outbox, m)
  BY DEF m
<1>4. /\ outbox' \in Seq(Events) /\ Len(outbox') = Len(outbox) + 1
      /\ outbox'[Len(outbox) + 1] = m /\ \A n \in 1..Len(outbox) : outbox'[n] = outbox[n]
  BY <1>1, <1>3 DEF StreamsOK
<1>5. OutboxInv'
  BY <1>1, <1>4 DEF OutboxInv, StreamsOK
<1>. QED
  BY <1>2, <1>4, <1>5 DEF StreamsOK

LEMMA SameStreams ==
  ASSUME StreamsOK, OutboxInv, inbox' \in Seq(Commands), UNCHANGED <<outbox, told>>
  PROVE  StreamsOK' /\ OutboxInv'
BY DEF StreamsOK, OutboxInv

LEMMA TypesKeptByMain == TypesInv /\ Main /\ ViewUnchanged => TypesInv'
<1>. SUFFICES ASSUME TypesInv, Main, ViewUnchanged PROVE TypesInv'
  OBVIOUS
<1>. USE DEF TypesInv
<1>0. ClientOK'
  BY DEF ViewUnchanged, userVars, ClientOK
<1>1. CASE RefuseMessage
  <2>1. StreamsOK' /\ OutboxInv'
    BY <1>1, ReadCommand, EventEmitted DEF RefuseMessage, MainOK, Terminal
  <2>2. MainOK' /\ WorkerOK' /\ (main' = "exited" => worker' = "dead")
    BY <1>1 DEF RefuseMessage, Read, mainVars, sharedVars, askVars, MainOK, WorkerOK
  <2>. QED
    BY <1>0, <2>1, <2>2
<1>2. CASE AcceptMessage
  <2>1. runs' \in Runs /\ runs' \in 0..MaxRuns
    BY <1>2 DEF AcceptMessage, WorkerOK, Runs
  <2>2. StreamsOK' /\ OutboxInv'
    BY <1>2, <2>1, ReadCommand, EventEmitted DEF AcceptMessage, Emit
  <2>3. MainOK'
    BY <1>2, <2>1 DEF AcceptMessage, mainVars, MainOK
  <2>4. WorkerOK' /\ main' # "exited"
    BY <1>2, <2>1 DEF AcceptMessage, Read, mainVars, WorkerOK
  <2>. QED
    BY <1>0, <2>2, <2>3, <2>4
<1>3. CASE MarkCanceled
  <2>1. Head(inbox) \in Commands /\ inbox' \in Seq(Commands)
    BY <1>3, ReadCommand DEF MarkCanceled
  <2>2. StreamsOK' /\ OutboxInv'
    BY <1>3, <2>1, SameStreams DEF MarkCanceled
  <2>3. target' \in Runs \cup {NoRun}
    BY <1>3, <2>1 DEF MarkCanceled, MainOK, Commands, Messages
  <2>4. MainOK'
    BY <1>3, <2>3 DEF MarkCanceled, MainOK
  <2>5. WorkerOK' /\ main' # "exited"
    BY <1>3 DEF MarkCanceled, Read, askVars, WorkerOK
  <2>. QED
    BY <1>0, <2>2, <2>4, <2>5
<1>4. CASE RejectCanceled
  <2>1. StreamsOK' /\ OutboxInv'
    BY <1>4, SameStreams DEF RejectCanceled, historyVars, StreamsOK
  <2>2. MainOK'
    BY <1>4 DEF RejectCanceled, historyVars, MainOK
  <2>3. pending \subseteq Approvals
    BY <1>4 DEF RejectCanceled, WorkerOK
  <2>4. WorkerOK' /\ main' # "exited"
    BY <1>4, <2>3 DEF RejectCanceled, RejectPending, PendingOf, askVars, WorkerOK
  <2>. QED
    BY <1>0, <2>1, <2>2, <2>4
<1>5. CASE AnnounceCanceled
  <2>1. StreamsOK' /\ OutboxInv'
    BY <1>5, EventEmitted DEF AnnounceCanceled, Emit, StreamsOK, MainOK, Terminal
  <2>2. MainOK'
    BY <1>5 DEF AnnounceCanceled, sharedVars, MainOK
  <2>3. WorkerOK' /\ main' # "exited"
    BY <1>5 DEF AnnounceCanceled, sharedVars, askVars, WorkerOK
  <2>. QED
    BY <1>0, <2>1, <2>2, <2>3
<1>6. CASE ResolveApproval
  <2>1. inbox' \in Seq(Commands) /\ main = "reading"
    BY <1>6, ReadCommand DEF ResolveApproval, Read
  <2>2. StreamsOK' /\ OutboxInv'
    BY <1>6, <2>1, SameStreams DEF ResolveApproval, historyVars
  <2>3. MainOK'
    BY <1>6 DEF ResolveApproval, mainVars, historyVars, MainOK
  <2>4. pending \subseteq Approvals
    BY <2>1 DEF WorkerOK
  <2>5. approved' \subseteq Approvals /\ woken' \subseteq Approvals
    BY <1>6, <2>4 DEF ResolveApproval, WorkerOK
  <2>6. WorkerOK' /\ main' # "exited"
    BY <1>6, <2>1, <2>5 DEF ResolveApproval, mainVars, askVars, WorkerOK
  <2>. QED
    BY <1>0, <2>2, <2>3, <2>6
<1>7. CASE Close
  <2>1. inbox' \in Seq(Commands) /\ main = "reading"
    BY <1>7, ReadCommand DEF Close, Read
  <2>2. StreamsOK' /\ OutboxInv'
    BY <1>7, <2>1, SameStreams DEF Close, historyVars
  <2>3. MainOK'
    BY <1>7 DEF Close, historyVars, MainOK
  <2>4. pending \subseteq Approvals
    BY <2>1 DEF WorkerOK
  <2>5. WorkerOK' /\ main' # "exited"
    BY <1>7, <2>1, <2>4 DEF Close, RejectPending, PendingOf, askVars, WorkerOK
  <2>. QED
    BY <1>0, <2>2, <2>3, <2>5
<1>8. CASE Exit
  <2>1. StreamsOK' /\ OutboxInv'
    BY <1>8, EventEmitted DEF Exit, Emit, StreamsOK
  <2>2. MainOK'
    BY <1>8 DEF Exit, sharedVars, MainOK
  <2>3. WorkerOK' /\ worker' = "dead"
    BY <1>8 DEF Exit, sharedVars, askVars, WorkerOK
  <2>. QED
    BY <1>0, <2>1, <2>2, <2>3
<1>9. CASE Killed
  <2>1. StreamsOK' /\ OutboxInv'
    BY <1>9, SameStreams DEF Killed, historyVars, StreamsOK
  <2>2. MainOK'
    BY <1>9 DEF Killed, sharedVars, historyVars, MainOK
  <2>3. WorkerOK' /\ worker' = "dead"
    BY <1>9 DEF Killed, sharedVars, askVars, WorkerOK
  <2>. QED
    BY <1>0, <2>1, <2>2, <2>3
<1>. QED
  BY <1>1, <1>2, <1>3, <1>4, <1>5, <1>6, <1>7, <1>8, <1>9 DEF Main

(* What the main thread and the streams keep when the worker takes a step   *)
(* that emits nothing and leaves active_run alone.                          *)
LEMMA QuietStep ==
  ASSUME TypesInv, ViewUnchanged,
         UNCHANGED <<inbox, outbox, told, mainVars, canceled, refused, struck>>
  PROVE  /\ StreamsOK' /\ OutboxInv' /\ ClientOK'
         /\ active' \in [run : Runs \cup {NoRun}, cancel : BOOLEAN] => MainOK'
BY DEF TypesInv, StreamsOK, OutboxInv, MainOK, ClientOK, ViewUnchanged, userVars, mainVars

LEMMA TypesKeptByWorker == TypesInv /\ (Worker \/ ResetCancel) /\ ViewUnchanged => TypesInv'
<1>. SUFFICES ASSUME TypesInv, Worker \/ ResetCancel, ViewUnchanged PROVE TypesInv'
  OBVIOUS
<1>0. main # "exited" \/ worker = "dead"
  BY DEF TypesInv
<1>w. StreamsOK /\ MainOK /\ WorkerOK /\ ClientOK /\ OutboxInv
  BY DEF TypesInv
<1>a. active \in [run : Runs \cup {NoRun}, cancel : BOOLEAN]
  BY <1>w DEF MainOK
<1>1. CASE CheckCanceled
  <2>1. WorkerOK' /\ worker # "dead" /\ main' = main
    BY <1>1, <1>w, <1>0 DEF CheckCanceled, WorkerTo, mainVars, sharedVars, askVars, WorkerOK
  <2>. QED
    BY <1>1, <1>0, <1>a, <2>1, QuietStep DEF CheckCanceled, sharedVars, historyVars, TypesInv
<1>2. CASE EndOfAsk
  <2>1. WorkerOK' /\ worker # "dead" /\ main' = main
    BY <1>2, <1>w, <1>0 DEF EndOfAsk, WorkerTo, mainVars, sharedVars, askVars, WorkerOK
  <2>. QED
    BY <1>2, <1>0, <1>a, <2>1, QuietStep DEF EndOfAsk, sharedVars, historyVars, TypesInv
<1>3. CASE RunTool
  <2>1. WorkerOK' /\ worker # "dead" /\ main' = main
    BY <1>3, <1>w, <1>0 DEF RunTool, WorkerTo, mainVars, sharedVars, WorkerOK
  <2>. QED
    BY <1>3, <1>0, <1>a, <2>1, QuietStep DEF RunTool, sharedVars, TypesInv
<1>4. CASE RegisterRequest
  <2>1. pending = {} /\ worker # "dead" /\ main' = main /\ asked' \in Approvals
    BY <1>4, <1>w, <1>0 DEF RegisterRequest, mainVars, WorkerOK, Approvals
  <2>2. WorkerOK'
    BY <1>4, <1>w, <2>1 DEF RegisterRequest, WorkerTo, WorkerOK
  <2>. QED
    BY <1>4, <1>0, <1>a, <2>1, <2>2, QuietStep DEF RegisterRequest, historyVars, TypesInv
<1>5. CASE AnnounceRequest
  <2>1. asked \in Approvals /\ active.run \in Runs \cup {NoRun}
    BY <1>5, <1>w DEF AnnounceRequest, WorkerOK, MainOK
  <2>2. StreamsOK' /\ OutboxInv'
    BY <1>5, <1>w, <2>1, EventEmitted DEF AnnounceRequest, Emit, StreamsOK
  <2>3. WorkerOK' /\ worker # "dead" /\ main' = main
    BY <1>5, <1>w DEF AnnounceRequest, WorkerTo, mainVars, sharedVars, askVars, WorkerOK
  <2>4. MainOK' /\ ClientOK'
    BY <1>5, <1>w DEF AnnounceRequest, mainVars, sharedVars, MainOK, ClientOK, ViewUnchanged,
                      userVars
  <2>. QED
    BY <1>0, <2>2, <2>3, <2>4 DEF TypesInv
<1>6. CASE AnnounceDecision
  <2>1. asked \in Approvals /\ active.run \in Runs \cup {NoRun}
    BY <1>6, <1>w DEF AnnounceDecision, WorkerOK, MainOK
  <2>2. StreamsOK' /\ OutboxInv'
    BY <1>6, <1>w, <2>1, EventEmitted DEF AnnounceDecision, Emit, StreamsOK
  <2>3. WorkerOK' /\ worker # "dead" /\ main' = main
    BY <1>6, <1>w DEF AnnounceDecision, WorkerTo, mainVars, sharedVars, askVars, WorkerOK
  <2>4. MainOK' /\ ClientOK'
    BY <1>6, <1>w DEF AnnounceDecision, mainVars, sharedVars, MainOK, ClientOK, ViewUnchanged,
                      userVars
  <2>. QED
    BY <1>0, <2>2, <2>3, <2>4 DEF TypesInv
<1>7. CASE UseDecision
  <2>1. WorkerOK' /\ worker # "dead" /\ main' = main
    BY <1>7, <1>w, <1>0 DEF UseDecision, WorkerTo, mainVars, WorkerOK, NoApproval
  <2>. QED
    BY <1>7, <1>0, <1>a, <2>1, QuietStep DEF UseDecision, TypesInv
<1>8. CASE CheckReturn
  <2>1. WorkerOK' /\ worker # "dead" /\ main' = main
    BY <1>8, <1>w, <1>0 DEF CheckReturn, WorkerTo, mainVars, sharedVars, askVars, WorkerOK
  <2>. QED
    BY <1>8, <1>0, <1>a, <2>1, QuietStep DEF CheckReturn, sharedVars, historyVars, TypesInv
<1>9. CASE AnnounceEnd
  <2>1. PICK type \in Terminal : Emit(type, job, NoApproval)
    BY <1>9 DEF AnnounceEnd, Terminal
  <2>2. StreamsOK' /\ OutboxInv'
    BY <1>9, <1>w, <2>1, EventEmitted DEF AnnounceEnd, Emit, StreamsOK, WorkerOK, Terminal
  <2>3. WorkerOK' /\ worker # "dead" /\ main' = main
    BY <1>9, <1>w DEF AnnounceEnd, WorkerTo, mainVars, sharedVars, askVars, WorkerOK
  <2>4. MainOK' /\ ClientOK'
    BY <1>9, <1>w DEF AnnounceEnd, mainVars, sharedVars, MainOK, ClientOK, ViewUnchanged,
                      userVars
  <2>. QED
    BY <1>0, <2>2, <2>3, <2>4 DEF TypesInv
<1>10. CASE ClearRun
  <2>1. WorkerOK' /\ worker # "dead" /\ main' = main
    BY <1>10, <1>w, <1>0 DEF ClearRun, WorkerTo, mainVars, askVars, WorkerOK
  <2>2. active' \in [run : Runs \cup {NoRun}, cancel : BOOLEAN]
    BY <1>10, <1>a DEF ClearRun
  <2>. QED
    BY <1>10, <1>0, <2>1, <2>2, QuietStep DEF ClearRun, historyVars, TypesInv
<1>11. CASE ClearThread
  <2>1. WorkerOK' /\ worker # "dead" /\ main' = main
    BY <1>11, <1>w, <1>0 DEF ClearThread, WorkerTo, mainVars, sharedVars, askVars, WorkerOK
  <2>. QED
    BY <1>11, <1>0, <1>a, <2>1, QuietStep DEF ClearThread, sharedVars, historyVars, TypesInv
<1>12. CASE ResetCancel
  <2>1. WorkerOK' /\ worker' = worker /\ main' = main
    BY <1>12, <1>w DEF ResetCancel, mainVars, askVars, WorkerOK
  <2>2. active' \in [run : Runs \cup {NoRun}, cancel : BOOLEAN]
    BY <1>12, <1>a DEF ResetCancel
  <2>. QED
    BY <1>12, <1>0, <2>1, <2>2, QuietStep DEF ResetCancel, historyVars, TypesInv
<1>. QED
  BY <1>1, <1>2, <1>3, <1>4, <1>5, <1>6, <1>7, <1>8, <1>9, <1>10, <1>11, <1>12 DEF Worker

(* A step of the user or of the view, which sends a command or takes an     *)
(* event and leaves the runner alone.                                       *)
LEMMA RunnerAlone ==
  ASSUME TypesInv, inbox' \in Seq(Commands), outbox' \in Seq(Events), OutboxInv', ClientOK',
         UNCHANGED <<main, target, active, canceled, pending, approved, woken, worker, job, turns,
                     asked, leftover, runs, approvalCount, told, refused, struck, late>>
  PROVE  TypesInv'
<1>1. StreamsOK' /\ MainOK'
  BY DEF TypesInv, StreamsOK, MainOK
<1>2. WorkerOK' /\ (main' = "exited" => worker' = "dead")
  BY DEF TypesInv, WorkerOK
<1>. QED
  BY <1>1, <1>2 DEF TypesInv

LEMMA CommandSent ==
  ASSUME StreamsOK, NEW c \in Commands, SendCommand(c)
  PROVE  inbox' \in Seq(Commands)
BY DEF StreamsOK, SendCommand

LEMMA TypesKeptByUser == TypesInv /\ User => TypesInv'
<1>. SUFFICES ASSUME TypesInv, User PROVE TypesInv'
  OBVIOUS
<1>w. StreamsOK /\ ClientOK /\ OutboxInv
  BY DEF TypesInv
<1>1. CASE SendMessage
  <2>1. Message("send_message", NoRun, NoApproval) \in Commands
    BY DEF Message, Commands, Messages
  <2>2. inbox' \in Seq(Commands) /\ outbox' \in Seq(Events) /\ OutboxInv'
    BY <1>1, <1>w, <2>1, CommandSent DEF SendMessage, OtherRunnerVars, OutboxInv, StreamsOK
  <2>3. ClientOK'
    BY <1>1, <1>w DEF SendMessage, ClientOK
  <2>. QED
    BY <1>1, <2>2, <2>3, RunnerAlone DEF SendMessage, OtherRunnerVars
<1>2. CASE StopRun
  <2>1. Message("cancel_run", chat.run, NoApproval) \in Commands
    BY <1>w DEF Message, Commands, Messages, ClientOK
  <2>2. inbox' \in Seq(Commands) /\ outbox' \in Seq(Events) /\ OutboxInv'
    BY <1>2, <1>w, <2>1, CommandSent DEF StopRun, OtherRunnerVars, OutboxInv, StreamsOK
  <2>3. ClientOK'
    BY <1>2, <1>w DEF StopRun, ClientOK
  <2>. QED
    BY <1>2, <2>2, <2>3, RunnerAlone DEF StopRun, OtherRunnerVars
<1>3. ASSUME NEW d \in dialogs, AnswerDialog(d) PROVE TypesInv'
  <2>0. d \in Dialogs
    BY <1>w DEF ClientOK
  <2>1. \A t \in {"approve_operation", "reject_operation"} :
          Message(t, d.run, d.approval) \in Commands
    BY <2>0 DEF Message, Commands, Messages, Dialogs
  <2>2. inbox' \in Seq(Commands) /\ outbox' \in Seq(Events) /\ OutboxInv'
    BY <1>3, <1>w, <2>1, CommandSent DEF AnswerDialog, OtherRunnerVars, OutboxInv, StreamsOK
  <2>3. [d EXCEPT !.resolving = TRUE] \in Dialogs
    BY <2>0 DEF Dialogs
  <2>4. ClientOK'
    BY <1>3, <1>w, <2>3 DEF AnswerDialog, ClientOK, userVars
  <2>. QED
    BY <1>3, <2>2, <2>4, RunnerAlone DEF AnswerDialog, OtherRunnerVars
<1>4. CASE LeaveProject
  <2>1. Message("close", NoRun, NoApproval) \in Commands
    BY DEF Message, Commands, Messages
  <2>2. inbox' \in Seq(Commands) /\ outbox' \in Seq(Events) /\ OutboxInv'
    BY <1>4, <1>w, <2>1, CommandSent DEF LeaveProject, OtherRunnerVars, OutboxInv, StreamsOK
  <2>3. ClientOK'
    BY <1>4, <1>w DEF LeaveProject, ClientOK, userVars, NoChat
  <2>. QED
    BY <1>4, <2>2, <2>3, RunnerAlone DEF LeaveProject, OtherRunnerVars
<1>. QED
  BY <1>1, <1>2, <1>3, <1>4 DEF User

LEMMA TypesKeptByView == TypesInv /\ ReceiveEvent => TypesInv'
<1>. SUFFICES ASSUME TypesInv, ReceiveEvent PROVE TypesInv'
  OBVIOUS
<1>. DEFINE e == Head(outbox)
<1>w. StreamsOK /\ ClientOK /\ OutboxInv
  BY DEF TypesInv
<1>1. /\ outbox' \in Seq(Events) /\ Len(outbox') = Len(outbox) - 1 /\ Len(outbox) \in Nat
      /\ \A n \in 1..Len(outbox') : outbox'[n] = outbox[n + 1]
      /\ e \in Events /\ e = outbox[1] /\ 1 \in 1..Len(outbox)
  BY <1>w DEF ReceiveEvent, StreamsOK
<1>2. OutboxInv'
  BY <1>w, <1>1 DEF OutboxInv
<1>3. e.type = "approval_requested" => e.approval \in Approvals
  BY <1>w, <1>1 DEF OutboxInv
<1>. HIDE DEF e
<1>4. ChatAfter(e) \in [run : Runs \cup {NoRun}, running : BOOLEAN]
  BY <1>w, <1>1 DEF ChatAfter, NoChat, ClientOK, Events, Messages
<1>5. DialogsAfter(e) \subseteq Dialogs
  <2>1. e.run \in Runs \cup {NoRun} /\ dialogs \subseteq Dialogs
    BY <1>w, <1>1 DEF Events, Messages, ClientOK
  <2>2. e.type = "approval_requested" =>
          [run |-> e.run, approval |-> e.approval, resolving |-> FALSE] \in Dialogs
    BY <1>3, <2>1 DEF Dialogs
  <2>. QED
    BY <2>1, <2>2 DEF DialogsAfter
<1>6. ClientOK'
  BY <1>w, <1>4, <1>5 DEF ReceiveEvent, ClientOK, e
<1>. QED
  BY <1>w, <1>1, <1>2, <1>6, RunnerAlone DEF ReceiveEvent, StreamsOK

LEMMA TypesKept == TypesInv /\ [Next]_vars => TypesInv'
<1>. SUFFICES ASSUME TypesInv, [Next]_vars PROVE TypesInv'
  OBVIOUS
<1>1. CASE UNCHANGED vars
  <2>1. inbox' \in Seq(Commands) /\ outbox' \in Seq(Events) /\ OutboxInv' /\ ClientOK'
    BY <1>1 DEF vars, runnerVars, userVars, TypesInv, StreamsOK, OutboxInv, ClientOK
  <2>. QED
    BY <1>1, <2>1, RunnerAlone DEF vars, runnerVars
<1>. QED
  BY <1>1, TypesKeptByMain, TypesKeptByWorker, TypesKeptByUser, TypesKeptByView
     DEF Next, RunnerNext

LEMMA TypesGiven == TypesInv /\ StopsInv => TypeOK
<1>. SUFFICES ASSUME TypesInv, StopsInv PROVE TypeOK
  OBVIOUS
<1>1. RunnerTypeOK
  BY DEF StopsInv, TypesInv, StreamsOK, MainOK, WorkerOK, RunnerTypeOK
<1>. QED
  BY <1>1 DEF TypesInv, ClientOK, TypeOK

(* The values the runner and its client hold are what the code means them   *)
(* to be; an approval is pending exactly while its worker is between the    *)
(* request and the use of the decision (approval_handler).                  *)
THEOREM TypesHold == Spec => []TypeOK
<1>1. Init /\ [][Next]_vars => []TypesInv
  BY TypesInit, TypesKept, PTL
<1>2. Init /\ [][Next]_vars => []StopsInv
  BY StopsInit, StopsKept, PTL
<1>. QED
  BY <1>1, <1>2, TypesGiven, PTL DEF Spec

-----------------------------------------------------------------------------

(* What Append and Tail do to a stream.                                     *)
LEMMA Appended ==
  ASSUME NEW S, NEW s \in Seq(S), NEW e \in S, NEW t, t = Append(s, e)
  PROVE  /\ Len(s) \in Nat /\ Len(t) = Len(s) + 1 /\ t[Len(s) + 1] = e
         /\ \A n \in 1..Len(s) : t[n] = s[n]
OBVIOUS

LEMMA Taken ==
  ASSUME NEW S, NEW s \in Seq(S), s # <<>>, NEW t, t = Tail(s)
  PROVE  /\ Len(s) \in Nat /\ Len(t) \in Nat /\ Len(s) = Len(t) + 1 /\ Head(s) = s[1]
         /\ \A n \in 1..Len(t) : t[n] = s[n + 1]
OBVIOUS

(* A run that was started, or none.                                         *)
Known(r) == r \in 0..runs

InboxKnown == \A n \in 1..Len(inbox) : inbox[n].type = "cancel_run" => Known(inbox[n].run)
OutboxKnown == \A n \in 1..Len(outbox) : Known(outbox[n].run)

(* No run is named that was not started.                                    *)
KnownInv ==
  /\ InboxKnown /\ OutboxKnown
  /\ Known(chat.run) /\ Known(active.run) /\ Known(job)
  /\ canceled \cup refused \cup struck \subseteq 0..runs

Ended == {"dead", "clearing", "detaching"}
Canceling == {"rejecting", "announcing"}

(* A live worker is the one of active_run; cancel_requested is set, and a   *)
(* cancel_run is in progress, only after the run of the worker was disowned.*)
ActiveInv ==
  /\ worker \notin {"dead", "detaching"} => active.run = job /\ job # NoRun
  /\ worker \notin {"dead", "detaching"} /\ active.cancel => Disowned(job)
  /\ main \in Canceling => (worker \in {"dead", "detaching"} \/ Disowned(job))
  /\ main \in Canceling => target \in canceled \cup {NoRun}

(* What the client may send and the runner may say next.                    *)
InboxMoves ==
  \/ inbox' = inbox
  \/ inbox # <<>> /\ inbox' = Tail(inbox)
  \/ \E c \in Commands : inbox' = Append(inbox, c) /\ (c.type = "cancel_run" => Known(c.run))

OutboxMoves ==
  \/ outbox' = outbox
  \/ outbox # <<>> /\ outbox' = Tail(outbox)
  \/ \E e \in Events : outbox' = Append(outbox, e) /\ e.run \in 0..runs'

LEMMA InboxKept ==
  ASSUME StreamsOK, InboxKnown, InboxMoves, runs \in Nat, runs' \in Nat, runs <= runs'
  PROVE  InboxKnown'
<1>1. CASE inbox' = inbox
  BY <1>1 DEF InboxKnown, Known
<1>2. CASE inbox # <<>> /\ inbox' = Tail(inbox)
  BY <1>2, Taken DEF InboxKnown, Known, StreamsOK
<1>3. ASSUME NEW c \in Commands, inbox' = Append(inbox, c), c.type = "cancel_run" => Known(c.run)
      PROVE  InboxKnown'
  <2>1. /\ Len(inbox) \in Nat /\ Len(inbox') = Len(inbox) + 1 /\ inbox'[Len(inbox) + 1] = c
        /\ \A n \in 1..Len(inbox) : inbox'[n] = inbox[n]
    BY <1>3, Appended DEF StreamsOK
  <2>. QED
    BY <1>3, <2>1 DEF InboxKnown, Known
<1>. QED
  BY <1>1, <1>2, <1>3 DEF InboxMoves

LEMMA OutboxKept ==
  ASSUME StreamsOK, OutboxKnown, OutboxMoves, runs \in Nat, runs' \in Nat, runs <= runs'
  PROVE  OutboxKnown'
<1>1. CASE outbox' = outbox
  BY <1>1 DEF OutboxKnown, Known
<1>2. CASE outbox # <<>> /\ outbox' = Tail(outbox)
  BY <1>2, Taken DEF OutboxKnown, Known, StreamsOK
<1>3. ASSUME NEW e \in Events, outbox' = Append(outbox, e), e.run \in 0..runs'
      PROVE  OutboxKnown'
  <2>1. /\ Len(outbox) \in Nat /\ Len(outbox') = Len(outbox) + 1 /\ outbox'[Len(outbox) + 1] = e
        /\ \A n \in 1..Len(outbox) : outbox'[n] = outbox[n]
    BY <1>3, Appended DEF StreamsOK
  <2>. QED
    BY <1>3, <2>1 DEF OutboxKnown, Known
<1>. QED
  BY <1>1, <1>2, <1>3 DEF OutboxMoves

(* Every step but the start of a run names started runs only.               *)
LEMMA KnownStep ==
  ASSUME TypesInv, KnownInv, InboxMoves, OutboxMoves, runs' = runs,
         Known(chat'.run), Known(active'.run), job' = job,
         canceled' \cup refused' \cup struck' \subseteq 0..runs
  PROVE  KnownInv'
<1>1. runs \in Nat /\ runs' \in Nat /\ runs <= runs'
  BY DEF TypesInv, WorkerOK
<1>. QED
  BY <1>1, InboxKept, OutboxKept DEF KnownInv, Known, TypesInv

LEMMA EventIs ==
  ASSUME NEW type \in Terminal \cup {"user_message_received", "approval_requested",
                                     "approval_resolved", "session_closed"},
         NEW r \in Runs \cup {NoRun}, NEW p \in Approvals \cup {NoApproval}
  PROVE  /\ Message(type, r, p) \in Events
         /\ Message(type, r, p).type = type /\ Message(type, r, p).run = r
         /\ Message(type, r, p).approval = p
BY DEF Message, Events, Messages

LEMMA Says ==
  ASSUME NEW type \in Terminal \cup {"user_message_received", "approval_requested",
                                     "approval_resolved", "session_closed"},
         NEW r \in Runs \cup {NoRun}, NEW p \in Approvals \cup {NoApproval},
         outbox' = Append(outbox, Message(type, r, p)), r \in 0..runs'
  PROVE  OutboxMoves
<1>1. Message(type, r, p) \in Events /\ Message(type, r, p).run \in 0..runs'
  BY EventIs
<1>. QED
  BY <1>1, Zenon DEF OutboxMoves

LEMMA KnownKeptByMain ==
  TypesInv /\ KnownInv /\ ActiveInv /\ Main /\ ViewUnchanged => KnownInv'
<1>. SUFFICES ASSUME TypesInv, KnownInv, ActiveInv, Main, ViewUnchanged PROVE KnownInv'
  OBVIOUS
<1>0. StreamsOK /\ MainOK /\ WorkerOK /\ Known(chat'.run) /\ Known(active.run)
      /\ canceled \cup refused \cup struck \subseteq 0..runs
  BY DEF TypesInv, KnownInv, ViewUnchanged
<1>n. 0 \in Runs \cup {NoRun} /\ 0 \in Approvals \cup {NoApproval} /\ NoRun = 0 /\ NoApproval = 0
      /\ Known(0) /\ runs \in Nat
  BY <1>0 DEF NoRun, NoApproval, Known, WorkerOK
<1>1. CASE RefuseMessage
  <2>1. active.run \in Runs \cup {NoRun}
    BY <1>0 DEF MainOK
  <2>2. OutboxMoves
    BY <1>0, <1>1, <1>n, <2>1, Says DEF RefuseMessage, Terminal, Known
  <2>. QED
    BY <1>0, <1>1, <2>2, KnownStep
       DEF RefuseMessage, Read, InboxMoves, sharedVars, askVars, Known
<1>2. CASE AcceptMessage
  <2>1. runs' = runs + 1 /\ runs' \in Runs
    BY <1>2, <1>0 DEF AcceptMessage, WorkerOK, Runs
  <2>2. OutboxMoves
    BY <1>2, <1>n, <2>1, Says DEF AcceptMessage, Emit
  <2>3. InboxKnown' /\ OutboxKnown'
    BY <1>2, <1>n, <2>1, <2>2, <1>0, InboxKept, OutboxKept
       DEF AcceptMessage, Read, InboxMoves, KnownInv
  <2>. QED
    BY <1>2, <1>0, <1>n, <2>1, <2>3 DEF AcceptMessage, KnownInv, Known
<1>3. CASE MarkCanceled
  <2>0. Known(Head(inbox).run)
    <3>1. inbox # <<>> /\ Head(inbox).type = "cancel_run"
      BY <1>3 DEF MarkCanceled, Read
    <3>2. Head(inbox) = inbox[1] /\ 1 \in 1..Len(inbox)
      BY <1>0, <3>1, Taken DEF StreamsOK
    <3>. QED
      BY <3>1, <3>2 DEF KnownInv, InboxKnown
  <2>1. Known(target')
    BY <1>3, <1>0, <2>0 DEF MarkCanceled
  <2>2. canceled' \cup refused' \cup struck' \subseteq 0..runs
    BY <1>3, <1>0, <2>1 DEF MarkCanceled, Known
  <2>3. active'.run = active.run
    BY <1>3, <1>0 DEF MarkCanceled, MainOK
  <2>. QED
    BY <1>3, <1>0, <2>2, <2>3, KnownStep
       DEF MarkCanceled, Read, InboxMoves, OutboxMoves, askVars, Known
<1>4. CASE RejectCanceled
  BY <1>4, <1>0, KnownStep
     DEF RejectCanceled, InboxMoves, OutboxMoves, askVars, historyVars
<1>5. CASE AnnounceCanceled
  <2>1. Known(target) /\ target \in Runs \cup {NoRun}
    BY <1>5, <1>0, <1>n DEF AnnounceCanceled, ActiveInv, Canceling, Known, MainOK
  <2>2. OutboxMoves
    BY <1>5, <1>n, <2>1, Says DEF AnnounceCanceled, Emit, Terminal, Known
  <2>. QED
    BY <1>5, <1>0, <2>2, KnownStep DEF AnnounceCanceled, InboxMoves, sharedVars, askVars
<1>6. CASE ResolveApproval
  BY <1>6, <1>0, KnownStep
     DEF ResolveApproval, Read, InboxMoves, OutboxMoves, askVars, historyVars
<1>7. CASE Close
  BY <1>7, <1>0, KnownStep
     DEF Close, Read, InboxMoves, OutboxMoves, askVars, historyVars
<1>8. CASE Exit
  <2>2. OutboxMoves
    BY <1>8, <1>n, Says DEF Exit, Emit, Known
  <2>. QED
    BY <1>8, <1>0, <2>2, KnownStep DEF Exit, InboxMoves, sharedVars, askVars
<1>9. CASE Killed
  BY <1>9, <1>0, KnownStep
     DEF Killed, InboxMoves, OutboxMoves, sharedVars, askVars, historyVars
<1>. QED
  BY <1>1, <1>2, <1>3, <1>4, <1>5, <1>6, <1>7, <1>8, <1>9 DEF Main

LEMMA KnownKeptByWorker ==
  TypesInv /\ KnownInv /\ (Worker \/ ResetCancel) /\ ViewUnchanged => KnownInv'
<1>. SUFFICES ASSUME TypesInv, KnownInv, Worker \/ ResetCancel, ViewUnchanged PROVE KnownInv'
  OBVIOUS
<1>0. StreamsOK /\ MainOK /\ WorkerOK /\ Known(chat'.run) /\ Known(active.run) /\ Known(job)
      /\ canceled \cup refused \cup struck \subseteq 0..runs
  BY DEF TypesInv, KnownInv, ViewUnchanged
<1>n. /\ 0 \in Approvals \cup {NoApproval} /\ NoApproval = 0 /\ Known(0) /\ NoRun = 0
      /\ job \in Runs \cup {NoRun}
      /\ active.run \in Runs \cup {NoRun} /\ asked \in Approvals \cup {NoApproval}
      /\ active \in [run : Runs \cup {NoRun}, cancel : BOOLEAN]
  BY <1>0 DEF NoApproval, NoRun, MainOK, WorkerOK, Known
<1>a. /\ UNCHANGED <<inbox, job, runs, canceled, refused, struck>>
      /\ OutboxMoves
      /\ Known(active'.run)
  <2>1. CASE CheckCanceled \/ EndOfAsk \/ RunTool \/ RegisterRequest \/ UseDecision
             \/ CheckReturn \/ ClearThread
    BY <2>1, <1>0
       DEF CheckCanceled, EndOfAsk, RunTool, RegisterRequest, UseDecision, CheckReturn,
           ClearThread, OutboxMoves, sharedVars, askVars, historyVars
  <2>2. CASE AnnounceRequest
    BY <2>2, <1>0, <1>n, Says
       DEF AnnounceRequest, Emit, sharedVars, askVars, Known
  <2>3. CASE AnnounceDecision
    BY <2>3, <1>0, <1>n, Says
       DEF AnnounceDecision, Emit, sharedVars, askVars, Known
  <2>4. CASE AnnounceEnd
    <3>1. PICK type \in Terminal : outbox' = Append(outbox, Message(type, job, NoApproval))
      BY <2>4 DEF AnnounceEnd, Emit, Terminal
    <3>2. OutboxMoves
      BY <2>4, <1>0, <1>n, <3>1, Says DEF AnnounceEnd, Known
    <3>. QED
      BY <2>4, <1>0, <3>2 DEF AnnounceEnd, sharedVars, askVars
  <2>5. CASE ClearRun
    BY <2>5, <1>0, <1>n DEF ClearRun, OutboxMoves, askVars, historyVars
  <2>6. CASE ResetCancel
    BY <2>6, <1>0, <1>n DEF ResetCancel, OutboxMoves, askVars, historyVars
  <2>. QED
    BY <2>1, <2>2, <2>3, <2>4, <2>5, <2>6 DEF Worker
<1>. QED
  BY <1>0, <1>a, KnownStep DEF InboxMoves

LEMMA KnownKept ==
  TypesInv /\ KnownInv /\ ActiveInv /\ [Next]_vars => KnownInv'
<1>. SUFFICES ASSUME TypesInv, KnownInv, ActiveInv, [Next]_vars PROVE KnownInv'
  OBVIOUS
<1>0. StreamsOK /\ MainOK /\ ClientOK /\ Known(chat.run) /\ Known(active.run) /\ OutboxKnown
      /\ canceled \cup refused \cup struck \subseteq 0..runs /\ Known(NoRun)
  BY DEF TypesInv, KnownInv, WorkerOK, Known, NoRun
<1>1. CASE User
  <2>1. UNCHANGED <<active, job, runs, canceled, refused, struck, outbox>>
    BY <1>1 DEF User, SendMessage, StopRun, AnswerDialog, LeaveProject, OtherRunnerVars
  <2>2. Known(chat'.run)
    BY <1>1, <1>0
       DEF User, SendMessage, StopRun, AnswerDialog, LeaveProject, NoChat
  <2>3. InboxMoves
    <3>1. CASE SendMessage
      BY <3>1 DEF SendMessage, SendCommand, InboxMoves, Message, Commands, Messages
    <3>2. CASE StopRun
      BY <3>2, <1>0 DEF StopRun, SendCommand, InboxMoves, Message, Commands, Messages, ClientOK
    <3>3. ASSUME NEW d \in dialogs, AnswerDialog(d) PROVE InboxMoves
      <4>1. d.run \in Runs \cup {NoRun} /\ d.approval \in Approvals
        BY <1>0 DEF ClientOK, Dialogs
      <4>. QED
        BY <3>3, <4>1 DEF AnswerDialog, SendCommand, InboxMoves, Message, Commands, Messages
    <3>4. CASE LeaveProject
      BY <3>4 DEF LeaveProject, SendCommand, InboxMoves, Message, Commands, Messages
    <3>. QED
      BY <1>1, <3>1, <3>2, <3>3, <3>4 DEF User
  <2>. QED
    BY <1>0, <2>1, <2>2, <2>3, KnownStep DEF OutboxMoves
<1>2. CASE ReceiveEvent
  <2>1. Head(outbox) = outbox[1] /\ 1 \in 1..Len(outbox)
    BY <1>2, <1>0, Taken DEF ReceiveEvent, StreamsOK
  <2>2. Known(chat'.run)
    BY <1>2, <1>0, <2>1 DEF ReceiveEvent, ChatAfter, NoChat, OutboxKnown
  <2>. QED
    BY <1>2, <1>0, <2>2, KnownStep DEF ReceiveEvent, InboxMoves, OutboxMoves
<1>3. CASE UNCHANGED vars
  BY <1>3, <1>0, KnownStep DEF vars, runnerVars, InboxMoves, OutboxMoves
<1>. QED
  BY <1>1, <1>2, <1>3, KnownKeptByMain, KnownKeptByWorker DEF Next, RunnerNext

-----------------------------------------------------------------------------

LEMMA ActiveStep ==
  ASSUME ActiveInv, job' = job, canceled \subseteq canceled', refused \subseteq refused',
         struck \subseteq struck',
         \/ worker' \in {"dead", "detaching"}
         \/ /\ worker \notin {"dead", "detaching"}
            /\ active'.run = active.run /\ (active'.cancel => active.cancel),
         main' \notin Canceling \/ (main \in Canceling /\ target' = target)
  PROVE  ActiveInv'
BY DEF ActiveInv, Disowned

LEMMA ActiveKeptByMain == TypesInv /\ KnownInv /\ ActiveInv /\ Main => ActiveInv'
<1>. SUFFICES ASSUME TypesInv, KnownInv, ActiveInv, Main PROVE ActiveInv'
  OBVIOUS
<1>. USE DEF Canceling
<1>1. CASE RefuseMessage
  BY <1>1, ActiveStep DEF RefuseMessage, Read, mainVars, sharedVars, askVars
<1>2. CASE AcceptMessage
  <2>1. runs \in Nat /\ runs' = runs + 1
    BY <1>2 DEF AcceptMessage, TypesInv, WorkerOK
  <2>2. job' # NoRun /\ active'.run = job' /\ active'.cancel = FALSE /\ main' = "reading"
    BY <1>2, <2>1 DEF AcceptMessage, Read, mainVars, NoRun
  <2>. QED
    BY <2>2 DEF ActiveInv
<1>3. CASE MarkCanceled
  <2>1. active'.run = active.run /\ active.run \in Runs \cup {NoRun}
    BY <1>3 DEF MarkCanceled, TypesInv, MainOK
  <2>2. /\ worker' = worker /\ job' = job /\ canceled \subseteq canceled'
        /\ target' \in canceled' \cup {NoRun}
        /\ refused' = refused /\ struck \subseteq struck'
    BY <1>3 DEF MarkCanceled, askVars
  <2>3. active.run = NoRun \/ active.run \in canceled' \cup struck'
    BY <1>3, <2>1 DEF MarkCanceled
  <2>4. worker \notin {"dead", "detaching"} => Disowned(job)'
    BY <2>2, <2>3 DEF ActiveInv, Disowned
  <2>. QED
    BY <2>1, <2>2, <2>4 DEF ActiveInv
<1>4. CASE RejectCanceled
  BY <1>4, ActiveStep DEF RejectCanceled, askVars, historyVars
<1>5. CASE AnnounceCanceled
  BY <1>5, ActiveStep DEF AnnounceCanceled, sharedVars, askVars
<1>6. CASE ResolveApproval
  BY <1>6, ActiveStep DEF ResolveApproval, Read, mainVars, askVars, historyVars
<1>7. CASE Close
  BY <1>7, ActiveStep DEF Close, Read, askVars, historyVars
<1>8. CASE Exit
  BY <1>8, ActiveStep DEF Exit, sharedVars, askVars
<1>9. CASE Killed
  BY <1>9, ActiveStep DEF Killed, sharedVars, askVars, historyVars
<1>. QED
  BY <1>1, <1>2, <1>3, <1>4, <1>5, <1>6, <1>7, <1>8, <1>9 DEF Main

(* What every step of the worker has in common.                             *)
LEMMA WorkerFrame ==
  ASSUME Worker \/ ResetCancel
  PROVE  UNCHANGED <<inbox, mainVars, job, runs, canceled, refused, struck>>
BY DEF Worker, CheckCanceled, EndOfAsk, RunTool, RegisterRequest, AnnounceRequest,
       AnnounceDecision, UseDecision, CheckReturn, AnnounceEnd, ClearRun, ClearThread,
       ResetCancel, mainVars, sharedVars, askVars, historyVars

LEMMA ActiveKeptByWorker == TypesInv /\ ActiveInv /\ (Worker \/ ResetCancel) => ActiveInv'
<1>. SUFFICES ASSUME TypesInv, ActiveInv, Worker \/ ResetCancel PROVE ActiveInv'
  OBVIOUS
<1>0. UNCHANGED <<inbox, mainVars, job, runs, canceled, refused, struck>>
  BY WorkerFrame
<1>a. active \in [run : Runs \cup {NoRun}, cancel : BOOLEAN]
  BY DEF TypesInv, MainOK
<1>1. CASE ClearRun \/ ClearThread
  BY <1>0, <1>1, ActiveStep DEF ClearRun, ClearThread, WorkerTo, mainVars
<1>2. CASE ResetCancel
  <2>1. active'.run = active.run /\ active'.cancel = FALSE /\ worker' = worker
    BY <1>2, <1>a DEF ResetCancel
  <2>. QED
    BY <1>0, <2>1 DEF ActiveInv, Disowned, mainVars
<1>3. CASE Worker /\ ~ClearRun /\ ~ClearThread
  <2>1. active' = active /\ worker \notin {"dead", "detaching"}
    BY <1>3
       DEF Worker, CheckCanceled, EndOfAsk, RunTool, RegisterRequest, AnnounceRequest,
           AnnounceDecision, UseDecision, CheckReturn, AnnounceEnd, sharedVars
  <2>. QED
    BY <1>0, <2>1, ActiveStep DEF mainVars
<1>. QED
  BY <1>1, <1>2, <1>3

LEMMA ActiveKept == TypesInv /\ KnownInv /\ ActiveInv /\ [Next]_vars => ActiveInv'
<1>. SUFFICES ASSUME TypesInv, KnownInv, ActiveInv, [Next]_vars PROVE ActiveInv'
  OBVIOUS
<1>1. CASE User \/ ReceiveEvent \/ UNCHANGED vars
  <2>1. UNCHANGED <<active, job, canceled, refused, struck, worker, main, target>>
    BY <1>1 DEF User, SendMessage, StopRun, AnswerDialog, LeaveProject, OtherRunnerVars,
                ReceiveEvent, vars, runnerVars
  <2>. QED
    BY <2>1 DEF ActiveInv, Disowned
<1>. QED
  BY <1>1, ActiveKeptByMain, ActiveKeptByWorker DEF Next, RunnerNext

-----------------------------------------------------------------------------

(* The client that asked the runner to close does not come back.            *)
LEMMA ReadLeaving ==
  ASSUME StreamsOK, Leaving, NEW type, Read(type), type # "close"
  PROVE  Leaving'
<1>1. main = "reading" /\ inbox # <<>> /\ Head(inbox).type # "close" /\ inbox' = Tail(inbox)
  BY DEF Read
<1>2. /\ Len(inbox) \in Nat /\ Len(inbox') \in Nat /\ Len(inbox) = Len(inbox') + 1
      /\ Head(inbox) = inbox[1] /\ \A n \in 1..Len(inbox') : inbox'[n] = inbox[n + 1]
  BY <1>1, Taken DEF StreamsOK
<1>3. PICK n \in 1..Len(inbox) : inbox[n].type = "close"
  BY <1>1 DEF Leaving
<1>4. n - 1 \in 1..Len(inbox') /\ inbox'[n - 1].type = "close"
  BY <1>1, <1>2, <1>3
<1>. QED
  BY <1>4 DEF Leaving

LEMMA SentLeaving ==
  ASSUME StreamsOK, NEW c \in Commands, SendCommand(c), main' = main
  PROVE  (Leaving \/ c.type = "close") => Leaving'
<1>1. /\ Len(inbox) \in Nat /\ Len(inbox') = Len(inbox) + 1 /\ inbox'[Len(inbox) + 1] = c
      /\ \A n \in 1..Len(inbox) : inbox'[n] = inbox[n]
  BY Appended DEF StreamsOK, SendCommand
<1>. QED
  BY <1>1 DEF Leaving

LEMMA CommandIs ==
  ASSUME NEW type \in {"send_message", "cancel_run", "approve_operation",
                       "reject_operation", "close"},
         NEW r \in Runs \cup {NoRun}, NEW p \in Approvals \cup {NoApproval}
  PROVE  /\ Message(type, r, p) \in Commands
         /\ Message(type, r, p).type = type /\ Message(type, r, p).run = r
         /\ Message(type, r, p).approval = p
BY DEF Message, Commands, Messages

LEMMA UserSends == TypesInv /\ User => \E c \in Commands : SendCommand(c)
<1>. SUFFICES ASSUME TypesInv, User PROVE \E c \in Commands : SendCommand(c)
  OBVIOUS
<1>0. ClientOK
  BY DEF TypesInv
<1>n. NoRun \in Runs \cup {NoRun} /\ NoApproval \in Approvals \cup {NoApproval}
  OBVIOUS
<1>1. CASE SendMessage
  BY <1>1, <1>n, CommandIs DEF SendMessage
<1>2. CASE StopRun
  <2>1. chat.run \in Runs \cup {NoRun}
    BY <1>0 DEF ClientOK
  <2>. QED
    BY <1>2, <1>n, <2>1, CommandIs DEF StopRun
<1>3. ASSUME NEW d \in dialogs, AnswerDialog(d) PROVE \E c \in Commands : SendCommand(c)
  <2>1. d.run \in Runs \cup {NoRun} /\ d.approval \in Approvals \cup {NoApproval}
    BY <1>0 DEF ClientOK, Dialogs
  <2>2. PICK decision \in {"approve_operation", "reject_operation"} :
          SendCommand(Message(decision, d.run, d.approval))
    BY <1>3 DEF AnswerDialog
  <2>. QED
    BY <2>1, <2>2, CommandIs
<1>4. CASE LeaveProject
  BY <1>4, <1>n, CommandIs DEF LeaveProject
<1>. QED
  BY <1>1, <1>2, <1>3, <1>4 DEF User

LEMMA LeaveLeaves == TypesInv /\ LeaveProject => Leaving'
<1>. SUFFICES ASSUME TypesInv, LeaveProject PROVE Leaving'
  OBVIOUS
<1>1. /\ Message("close", NoRun, NoApproval) \in Commands
      /\ Message("close", NoRun, NoApproval).type = "close"
  BY CommandIs
<1>. QED
  BY <1>1, SentLeaving DEF LeaveProject, OtherRunnerVars, TypesInv

LEMMA LeavingStays == TypesInv /\ Leaving /\ [Next]_vars => Leaving'
<1>. SUFFICES ASSUME TypesInv, Leaving, [Next]_vars PROVE Leaving'
  OBVIOUS
<1>0. StreamsOK
  BY DEF TypesInv
<1>1. CASE User
  BY <1>0, <1>1, UserSends, SentLeaving
     DEF User, SendMessage, StopRun, AnswerDialog, LeaveProject, OtherRunnerVars
<1>2. CASE RefuseMessage \/ AcceptMessage \/ MarkCanceled \/ ResolveApproval
  BY <1>0, <1>2, ReadLeaving DEF RefuseMessage, AcceptMessage, MarkCanceled, ResolveApproval
<1>3. CASE Close \/ Exit \/ Killed
  BY <1>3 DEF Close, Exit, Killed, Leaving
<1>4. CASE RejectCanceled \/ AnnounceCanceled
  BY <1>4 DEF RejectCanceled, AnnounceCanceled, Leaving
<1>5. CASE Worker \/ ResetCancel
  BY <1>5, WorkerFrame DEF Leaving, mainVars
<1>6. CASE ReceiveEvent \/ UNCHANGED vars
  BY <1>6 DEF ReceiveEvent, vars, runnerVars, Leaving
<1>. QED
  BY <1>1, <1>2, <1>3, <1>4, <1>5, <1>6 DEF Next, RunnerNext, Main

-----------------------------------------------------------------------------

(* What the view shows after the events that are on their way.              *)
Shows ==
  \E n \in 0..Len(outbox) :
    /\ IF n = 0 THEN chat.running ELSE outbox[n].type = "user_message_received"
    /\ \A k \in (n + 1)..Len(outbox) : outbox[k].type \notin Terminal

LEMMA ShowsSame == UNCHANGED <<outbox, chat>> => (Shows' <=> Shows)
BY DEF Shows

LEMMA ShowsAfter ==
  ASSUME StreamsOK, chat' = chat, NEW e \in Events, outbox' = Append(outbox, e)
  PROVE  Shows' <=> \/ e.type = "user_message_received"
                    \/ e.type \notin Terminal /\ Shows
<1>1. /\ Len(outbox) \in Nat /\ Len(outbox') = Len(outbox) + 1 /\ outbox'[Len(outbox) + 1] = e
      /\ \A n \in 1..Len(outbox) : outbox'[n] = outbox[n]
  BY Appended DEF StreamsOK
<1>2. CASE e.type = "user_message_received"
  BY <1>1, <1>2 DEF Shows
<1>3. CASE e.type \in Terminal
  <2>1. e.type # "user_message_received"
    BY <1>3 DEF Terminal
  <2>2. ASSUME NEW n \in 0..Len(outbox'),
               IF n = 0 THEN chat'.running ELSE outbox'[n].type = "user_message_received",
               \A k \in (n + 1)..Len(outbox') : outbox'[k].type \notin Terminal
        PROVE  FALSE
    <3>1. n = Len(outbox')
      BY <1>1, <1>3, <2>2
    <3>. QED
      BY <1>1, <2>1, <2>2, <3>1
  <2>. QED
    BY <1>3, <2>1, <2>2 DEF Shows
<1>4. CASE e.type # "user_message_received" /\ e.type \notin Terminal
  <2>1. ASSUME Shows PROVE Shows'
    <3>1. PICK n \in 0..Len(outbox) :
            /\ IF n = 0 THEN chat.running ELSE outbox[n].type = "user_message_received"
            /\ \A k \in (n + 1)..Len(outbox) : outbox[k].type \notin Terminal
      BY <2>1 DEF Shows
    <3>2. \A k \in (n + 1)..Len(outbox') : outbox'[k].type \notin Terminal
      BY <1>1, <1>4, <3>1
    <3>3. IF n = 0 THEN chat'.running ELSE outbox'[n].type = "user_message_received"
      BY <1>1, <3>1
    <3>. QED
      BY <1>1, <3>1, <3>2, <3>3 DEF Shows
  <2>2. ASSUME Shows' PROVE Shows
    <3>1. PICK n \in 0..Len(outbox') :
            /\ IF n = 0 THEN chat'.running ELSE outbox'[n].type = "user_message_received"
            /\ \A k \in (n + 1)..Len(outbox') : outbox'[k].type \notin Terminal
      BY <2>2 DEF Shows
    <3>2. n \in 0..Len(outbox)
      BY <1>1, <1>4, <3>1
    <3>3. \A k \in (n + 1)..Len(outbox) : outbox[k].type \notin Terminal
      BY <1>1, <3>1, <3>2
    <3>4. IF n = 0 THEN chat.running ELSE outbox[n].type = "user_message_received"
      BY <1>1, <3>1, <3>2
    <3>. QED
      BY <3>2, <3>3, <3>4 DEF Shows
  <2>. QED
    BY <1>4, <2>1, <2>2
<1>. QED
  BY <1>2, <1>3, <1>4

LEMMA ShowsTaken == StreamsOK /\ ReceiveEvent => (Shows' <=> Shows)
<1>. SUFFICES ASSUME StreamsOK, ReceiveEvent PROVE Shows' <=> Shows
  OBVIOUS
<1>1. /\ Len(outbox) \in Nat /\ Len(outbox') \in Nat /\ Len(outbox) = Len(outbox') + 1
      /\ Head(outbox) = outbox[1]
      /\ \A n \in 1..Len(outbox') : outbox'[n] = outbox[n + 1]
  BY Taken DEF ReceiveEvent, StreamsOK
<1>2. chat'.running = IF outbox[1].type = "user_message_received" THEN TRUE
                      ELSE IF outbox[1].type \in Terminal THEN FALSE ELSE chat.running
  BY <1>1 DEF ReceiveEvent, ChatAfter, NoChat
<1>3. ASSUME Shows PROVE Shows'
  <2>1. PICK n \in 0..Len(outbox) :
          /\ IF n = 0 THEN chat.running ELSE outbox[n].type = "user_message_received"
          /\ \A k \in (n + 1)..Len(outbox) : outbox[k].type \notin Terminal
    BY <1>3 DEF Shows
  <2>2. CASE n = 0
    <3>1. chat.running /\ outbox[1].type \notin Terminal
      BY <1>1, <2>1, <2>2
    <3>2. chat'.running
      BY <1>2, <3>1
    <3>3. \A k \in 1..Len(outbox') : outbox'[k].type \notin Terminal
      BY <1>1, <2>1, <2>2
    <3>. QED
      BY <1>1, <3>2, <3>3 DEF Shows
  <2>3. CASE n # 0
    <3>1. n - 1 \in 0..Len(outbox')
      BY <1>1, <2>3
    <3>2. \A k \in n..Len(outbox') : outbox'[k].type \notin Terminal
      BY <1>1, <2>1, <2>3
    <3>3. IF n - 1 = 0 THEN chat'.running ELSE outbox'[n - 1].type = "user_message_received"
      BY <1>1, <1>2, <2>1, <2>3
    <3>4. (n - 1) + 1 = n
      BY <2>1
    <3>. QED
      BY <3>1, <3>2, <3>3, <3>4 DEF Shows
  <2>. QED
    BY <2>2, <2>3
<1>4. ASSUME Shows' PROVE Shows
  <2>1. PICK n \in 0..Len(outbox') :
          /\ IF n = 0 THEN chat'.running ELSE outbox'[n].type = "user_message_received"
          /\ \A k \in (n + 1)..Len(outbox') : outbox'[k].type \notin Terminal
    BY <1>4 DEF Shows
  <2>2. \A k \in (n + 2)..Len(outbox) : outbox[k].type \notin Terminal
    <3>1. ASSUME NEW k \in (n + 2)..Len(outbox) PROVE outbox[k].type \notin Terminal
      <4>1. k - 1 \in (n + 1)..Len(outbox') /\ k - 1 \in 1..Len(outbox') /\ (k - 1) + 1 = k
        BY <1>1, <2>1
      <4>. QED
        BY <1>1, <2>1, <4>1
    <3>. QED
      BY <3>1
  <2>3. CASE n # 0
    <3>1. n + 1 \in 0..Len(outbox) /\ n + 1 # 0 /\ (n + 1) + 1 = n + 2
      BY <1>1, <2>1
    <3>2. outbox[n + 1].type = "user_message_received"
      BY <1>1, <2>1, <2>3
    <3>. QED
      BY <2>2, <3>1, <3>2 DEF Shows
  <2>4. CASE n = 0 /\ outbox[1].type = "user_message_received"
    BY <1>1, <2>2, <2>4 DEF Shows
  <2>5. CASE n = 0 /\ outbox[1].type # "user_message_received"
    <3>1. chat.running /\ outbox[1].type \notin Terminal
      BY <1>2, <2>1, <2>5
    <3>2. \A k \in 1..Len(outbox) : outbox[k].type \notin Terminal
      BY <1>1, <2>2, <2>5, <3>1
    <3>. QED
      BY <1>1, <3>1, <3>2 DEF Shows
  <2>. QED
    BY <2>3, <2>4, <2>5
<1>. QED
  BY <1>3, <1>4

-----------------------------------------------------------------------------

(* The view, once it received what is on its way, shows a run exactly while *)
(* the worker goes on with one that was not disowned.                       *)
ViewInv ==
  ~Leaving /\ main \notin Canceling => (Shows <=> worker \notin Ended /\ ~Disowned(job))

(* The event that a step says, as the client will see it.                   *)
LEMMA SaysShows ==
  ASSUME StreamsOK, chat' = chat,
         NEW type \in Terminal \cup {"user_message_received", "approval_requested",
                                     "approval_resolved", "session_closed"},
         NEW r \in Runs \cup {NoRun}, NEW p \in Approvals \cup {NoApproval},
         outbox' = Append(outbox, Message(type, r, p))
  PROVE  Shows' <=> \/ type = "user_message_received"
                    \/ type \notin Terminal /\ Shows
<1>1. Message(type, r, p) \in Events
  BY EventIs
<1>2. Message(type, r, p).type = type
  BY DEF Message
<1>. QED
  BY <1>1, <1>2, ShowsAfter

LEMMA ViewKeptByMain ==
  TypesInv /\ KnownInv /\ ActiveInv /\ ViewInv /\ Main /\ ViewUnchanged => ViewInv'
<1>. SUFFICES ASSUME TypesInv, KnownInv, ActiveInv, ViewInv, Main, ViewUnchanged,
                     ~Leaving, ~Leaving'
              PROVE  ViewInv'
  BY LeavingStays DEF ViewInv, Next, RunnerNext
<1>0. StreamsOK /\ MainOK /\ WorkerOK /\ chat' = chat
  BY DEF TypesInv, ViewUnchanged
<1>n. NoRun \in Runs \cup {NoRun} /\ NoApproval \in Approvals \cup {NoApproval}
  OBVIOUS
<1>1. CASE RefuseMessage
  <2>1. active.run \in Runs \cup {NoRun} /\ "run_failed" \in Terminal
    BY <1>0 DEF MainOK, Terminal
  <2>2. ~Shows'
    BY <1>0, <1>1, <1>n, <2>1, SaysShows DEF RefuseMessage, Terminal
  <2>3. UNCHANGED <<worker, job>> /\ refused' = refused \cup ({active.run} \ {NoRun})
    BY <1>1 DEF RefuseMessage, askVars
  <2>4. worker' \in Ended \/ Disowned(job)'
    BY <2>3 DEF ActiveInv, Ended, Disowned
  <2>. QED
    BY <2>2, <2>4 DEF ViewInv
<1>2. CASE AcceptMessage
  <2>0. runs \in Nat
    BY <1>0 DEF WorkerOK
  <2>1. runs' = runs + 1 /\ runs' \in Runs
    BY <1>2, <2>0, BoundsAssumption DEF AcceptMessage, Runs
  <2>2. Shows'
    BY <1>0, <1>2, <1>n, <2>1, SaysShows DEF AcceptMessage, Emit
  <2>3. job' \notin canceled' \cup refused' \cup struck'
    BY <1>2, <2>0, <2>1 DEF AcceptMessage, KnownInv
  <2>4. worker' \notin Ended
    BY <1>2 DEF AcceptMessage, Ended
  <2>. QED
    BY <2>2, <2>3, <2>4 DEF ViewInv, Disowned
<1>3. CASE MarkCanceled \/ RejectCanceled
  BY <1>3 DEF MarkCanceled, RejectCanceled, ViewInv, Canceling
<1>4. CASE AnnounceCanceled
  <2>1. target \in Runs \cup {NoRun} /\ "run_canceled" \in Terminal
    BY <1>0 DEF MainOK, Terminal
  <2>2. ~Shows'
    BY <1>0, <1>4, <1>n, <2>1, SaysShows DEF AnnounceCanceled, Emit, Terminal
  <2>3. UNCHANGED <<worker, job, canceled, refused, struck>> /\ main \in Canceling
    BY <1>4 DEF AnnounceCanceled, sharedVars, askVars, Canceling
  <2>4. worker' \in Ended \/ Disowned(job)'
    BY <2>3 DEF ActiveInv, Ended, Disowned
  <2>. QED
    BY <2>2, <2>4 DEF ViewInv
<1>5. CASE ResolveApproval
  <2>1. UNCHANGED <<outbox, chat, main, worker, job, canceled, refused, struck>>
    BY <1>0, <1>5 DEF ResolveApproval, mainVars, askVars, historyVars
  <2>. QED
    BY <2>1, ShowsSame DEF ViewInv, Disowned
<1>6. CASE Close \/ Exit \/ Killed
  BY <1>6 DEF Close, Exit, Killed, Leaving
<1>. QED
  BY <1>1, <1>2, <1>3, <1>4, <1>5, <1>6 DEF Main

LEMMA ViewKeptByWorker ==
  TypesInv /\ ActiveInv /\ ViewInv /\ (Worker \/ ResetCancel) /\ ViewUnchanged => ViewInv'
<1>. SUFFICES ASSUME TypesInv, ActiveInv, ViewInv, Worker \/ ResetCancel, ViewUnchanged,
                     ~Leaving, main \notin Canceling
              PROVE  ViewInv'
  BY LeavingStays, WorkerFrame DEF ViewInv, Next, RunnerNext, mainVars
<1>0. /\ StreamsOK /\ MainOK /\ WorkerOK /\ chat' = chat
      /\ UNCHANGED <<inbox, mainVars, job, runs, canceled, refused, struck>>
      /\ Shows <=> worker \notin Ended /\ ~Disowned(job)
      /\ Disowned(job)' <=> Disowned(job)
  BY WorkerFrame DEF TypesInv, ViewUnchanged, ViewInv, Disowned
<1>n. /\ NoApproval \in Approvals \cup {NoApproval} /\ job \in Runs \cup {NoRun}
      /\ active.run \in Runs \cup {NoRun} /\ asked \in Approvals \cup {NoApproval}
  BY <1>0 DEF MainOK, WorkerOK
<1>1. CASE CheckCanceled \/ EndOfAsk \/ RunTool \/ RegisterRequest \/ UseDecision
  <2>1. outbox' = outbox /\ worker \notin Ended /\ worker' \notin Ended
    BY <1>1 DEF CheckCanceled, EndOfAsk, RunTool, RegisterRequest, UseDecision, WorkerTo, Ended
  <2>. QED
    BY <1>0, <2>1, ShowsSame DEF ViewInv
<1>2. CASE AnnounceRequest
  <2>1. worker \notin Ended /\ worker' \notin Ended
    BY <1>2 DEF AnnounceRequest, WorkerTo, Ended
  <2>2. outbox' = Append(outbox, Message("approval_requested", active.run, asked))
    BY <1>2 DEF AnnounceRequest, Emit
  <2>3. Shows' <=> Shows
    BY <1>0, <1>n, <2>2, SaysShows DEF Terminal
  <2>. QED
    BY <1>0, <2>1, <2>3 DEF ViewInv
<1>3. CASE AnnounceDecision
  <2>1. worker \notin Ended /\ worker' \notin Ended
    BY <1>3 DEF AnnounceDecision, WorkerTo, Ended
  <2>2. outbox' = Append(outbox, Message("approval_resolved", active.run, asked))
    BY <1>3 DEF AnnounceDecision, Emit
  <2>3. Shows' <=> Shows
    BY <1>0, <1>n, <2>2, SaysShows DEF Terminal
  <2>. QED
    BY <1>0, <2>1, <2>3 DEF ViewInv
<1>4. CASE CheckReturn
  <2>1. outbox' = outbox /\ worker \notin Ended /\ worker \notin {"dead", "detaching"}
    BY <1>4 DEF CheckReturn, Ended
  <2>2. worker' \notin Ended \/ job \in canceled \/ active.cancel
    BY <1>4 DEF CheckReturn, WorkerTo, Ended
  <2>3. worker' \notin Ended \/ Disowned(job)
    BY <2>1, <2>2 DEF ActiveInv, Disowned
  <2>. QED
    BY <1>0, <2>1, <2>3, ShowsSame DEF ViewInv
<1>5. CASE AnnounceEnd
  <2>1. PICK type \in Terminal : outbox' = Append(outbox, Message(type, job, NoApproval))
    BY <1>5 DEF AnnounceEnd, Emit, Terminal
  <2>2. type # "user_message_received"
    BY DEF Terminal
  <2>3. ~Shows'
    BY <1>0, <1>n, <2>1, <2>2, SaysShows
  <2>4. worker' \in Ended
    BY <1>5 DEF AnnounceEnd, WorkerTo, Ended
  <2>. QED
    BY <2>3, <2>4 DEF ViewInv
<1>6. CASE ClearRun \/ ClearThread
  <2>1. outbox' = outbox /\ worker \in Ended /\ worker' \in Ended
    BY <1>6 DEF ClearRun, ClearThread, WorkerTo, Ended
  <2>. QED
    BY <1>0, <2>1, ShowsSame DEF ViewInv
<1>7. CASE ResetCancel
  <2>1. outbox' = outbox /\ worker' = worker
    BY <1>7 DEF ResetCancel
  <2>. QED
    BY <1>0, <2>1, ShowsSame DEF ViewInv
<1>. QED
  BY <1>1, <1>2, <1>3, <1>4, <1>5, <1>6, <1>7 DEF Worker

LEMMA ViewKept ==
  TypesInv /\ KnownInv /\ ActiveInv /\ ViewInv /\ [Next]_vars => ViewInv'
<1>. SUFFICES ASSUME TypesInv, KnownInv, ActiveInv, ViewInv, [Next]_vars,
                     ~Leaving, ~Leaving'
              PROVE  ViewInv'
  BY LeavingStays DEF ViewInv
<1>0. StreamsOK
  BY DEF TypesInv
<1>1. CASE User
  <2>1. ~LeaveProject
    BY LeaveLeaves
  <2>2. UNCHANGED <<outbox, main, worker, job, canceled, refused, struck>>
    BY <1>1 DEF User, SendMessage, StopRun, AnswerDialog, LeaveProject, OtherRunnerVars
  <2>3. chat' = chat
    BY <1>1, <2>1 DEF User, SendMessage, StopRun, AnswerDialog
  <2>. QED
    BY <2>2, <2>3, ShowsSame DEF ViewInv, Disowned
<1>2. CASE ReceiveEvent
  <2>1. UNCHANGED <<main, worker, job, canceled, refused, struck>>
    BY <1>2 DEF ReceiveEvent
  <2>. QED
    BY <1>0, <1>2, <2>1, ShowsTaken DEF ViewInv, Disowned
<1>3. CASE UNCHANGED vars
  <2>1. UNCHANGED <<outbox, chat, main, worker, job, canceled, refused, struck>>
    BY <1>3 DEF vars, runnerVars
  <2>. QED
    BY <2>1, ShowsSame DEF ViewInv, Disowned
<1>. QED
  BY <1>1, <1>2, <1>3, ViewKeptByMain, ViewKeptByWorker DEF Next, RunnerNext

LEMMA ViewGiven == TypesInv /\ ViewInv => ViewAgrees
<1>. SUFFICES ASSUME TypesInv, ViewInv, Quiet, worker \in {"dead", "turn", "acting", "waiting"}
              PROVE  chat.running <=> worker # "dead" /\ ~Disowned(job)
  BY DEF ViewAgrees
<1>1. Len(inbox) = 0 /\ Len(outbox) = 0 /\ main = "reading"
  BY DEF Quiet
<1>2. ~Leaving /\ main \notin Canceling
  BY <1>1 DEF Leaving, Canceling
<1>3. Shows <=> chat.running
  BY <1>1 DEF Shows
<1>. QED
  BY <1>2, <1>3 DEF ViewInv, Ended

LEMMA ViewInit == Init => KnownInv /\ ActiveInv /\ ViewInv
<1>. SUFFICES ASSUME Init PROVE KnownInv /\ ActiveInv /\ ViewInv
  OBVIOUS
<1>1. /\ inbox = <<>> /\ outbox = <<>> /\ main = "reading" /\ worker = "dead" /\ job = 0
      /\ active = [run |-> 0, cancel |-> FALSE] /\ chat = [run |-> 0, running |-> FALSE]
      /\ canceled = {} /\ refused = {} /\ struck = {} /\ runs = 0
  BY DEF Init, RunnerInit, NoRun, NoChat
<1>2. Len(inbox) = 0 /\ Len(outbox) = 0
  BY <1>1
<1>3. KnownInv
  BY <1>1, <1>2 DEF KnownInv, InboxKnown, OutboxKnown, Known
<1>4. ActiveInv
  BY <1>1 DEF ActiveInv, Canceling
<1>5. ~Shows
  BY <1>1, <1>2 DEF Shows
<1>. QED
  BY <1>1, <1>3, <1>4, <1>5 DEF ViewInv, Ended

(* Once the streams are empty, the view offers Stop exactly while a run     *)
(* goes on that was not disowned, and Send otherwise, however commands,     *)
(* events, cancellations and refusals crossed (applyBackendEvent,           *)
(* AppRunner._handle_send_message, _handle_cancel_run).                     *)
THEOREM ViewTrue == Spec => []ViewAgrees
<1>1. Init /\ [][Next]_vars => []TypesInv
  BY TypesInit, TypesKept, PTL
<1>2. Init /\ [][Next]_vars => [](TypesInv /\ KnownInv /\ ActiveInv /\ ViewInv)
  BY <1>1, ViewInit, KnownKept, ActiveKept, ViewKept, PTL
<1>. QED
  BY <1>2, ViewGiven, PTL DEF Spec

-----------------------------------------------------------------------------

(* An event that is on its way may tell the client that a run was canceled  *)
(* or failed only if it was, and names no approval not yet announced.       *)
EventOK(e) ==
  /\ e.type = "run_canceled" => e.run \in canceled \cup {NoRun}
  /\ e.type = "run_failed" /\ e.run = job => job \in refused \/ worker \in Ended
  /\ e.approval \in 0..approvalCount
  /\ worker = "asking" => e.approval # asked

(* The approval the worker is concerned with was counted.                   *)
AskedInv == asked \in 0..approvalCount

EventInv == \A n \in 1..Len(outbox) : EventOK(outbox[n])

LEMMA EventStep ==
  ASSUME StreamsOK, EventInv, OutboxKnown,
         \A x : Known(x.run) /\ EventOK(x) => EventOK(x)',
         NEW e \in Events,
         \/ outbox' = outbox
         \/ outbox # <<>> /\ outbox' = Tail(outbox)
         \/ outbox' = Append(outbox, e) /\ EventOK(e)'
  PROVE  EventInv'
<1>1. CASE outbox' = outbox
  <2>1. \A n \in 1..Len(outbox') : \E x : x = outbox'[n] /\ EventOK(x)'
    BY <1>1 DEF EventInv, OutboxKnown
  <2>. QED
    BY <2>1 DEF EventInv, EventOK
<1>2. CASE outbox # <<>> /\ outbox' = Tail(outbox)
  <2>1. /\ Len(outbox) \in Nat /\ Len(outbox') \in Nat /\ Len(outbox) = Len(outbox') + 1
        /\ \A n \in 1..Len(outbox') : outbox'[n] = outbox[n + 1]
    BY <1>2, Taken DEF StreamsOK
  <2>2. \A n \in 1..Len(outbox') : n + 1 \in 1..Len(outbox)
    BY <2>1
  <2>3. \A n \in 1..Len(outbox') : \E x : x = outbox'[n] /\ EventOK(x)'
    BY <2>1, <2>2 DEF EventInv, OutboxKnown
  <2>. QED
    BY <2>3 DEF EventInv, EventOK
<1>3. CASE outbox' = Append(outbox, e) /\ EventOK(e)'
  <2>1. /\ Len(outbox) \in Nat /\ Len(outbox') = Len(outbox) + 1 /\ outbox'[Len(outbox) + 1] = e
        /\ \A n \in 1..Len(outbox) : outbox'[n] = outbox[n]
    BY <1>3, Appended DEF StreamsOK
  <2>2. \A n \in 1..Len(outbox) : \E x : x = outbox'[n] /\ EventOK(x)'
    BY <2>1 DEF EventInv, OutboxKnown
  <2>3. \A n \in 1..Len(outbox') : n = Len(outbox) + 1 \/ n \in 1..Len(outbox)
    BY <2>1
  <2>4. \A n \in 1..Len(outbox') : \E x : x = outbox'[n] /\ EventOK(x)'
    BY <1>3, <2>1, <2>2, <2>3
  <2>. QED
    BY <2>4 DEF EventInv, EventOK
<1>. QED
  BY <1>1, <1>2, <1>3

(* What is true of the events that are on their way stays true.             *)
LEMMA EventsAge ==
  ASSUME runs \in Nat, approvalCount \in Nat,
         canceled \subseteq canceled', refused \subseteq refused',
         approvalCount' \in {approvalCount, approvalCount + 1},
         \/ job' = job /\ (worker \in Ended => worker' \in Ended)
         \/ job' = runs + 1,
         \/ worker' # "asking"
         \/ worker = "asking" /\ asked' = asked
         \/ asked' = approvalCount + 1
  PROVE  \A x : Known(x.run) /\ EventOK(x) => EventOK(x)'
BY DEF Known, EventOK

LEMMA EventKeptByMain ==
  TypesInv /\ KnownInv /\ ActiveInv /\ EventInv /\ Main => EventInv'
<1>. SUFFICES ASSUME TypesInv, KnownInv, ActiveInv, EventInv, Main PROVE EventInv'
  OBVIOUS
<1>0. StreamsOK /\ OutboxKnown /\ runs \in Nat /\ approvalCount \in Nat /\ MainOK
  BY DEF TypesInv, KnownInv, WorkerOK
<1>n. /\ NoRun \in Runs \cup {NoRun} /\ NoApproval \in Approvals \cup {NoApproval}
      /\ NoApproval = 0
  BY DEF NoApproval
<1>e. PICK e \in Events : TRUE
  BY <1>n, EventIs
<1>1. CASE RefuseMessage
  <2>0. active.run \in Runs \cup {NoRun} /\ "run_failed" \in Terminal
    BY <1>0 DEF MainOK, Terminal
  <2>1. PICK m \in Events : /\ m = Message("run_failed", active.run, NoApproval)
                            /\ m.type = "run_failed" /\ m.run = active.run /\ m.approval = 0
    BY <1>n, <2>0, EventIs
  <2>2. /\ outbox' = Append(outbox, m) /\ refused' = refused \cup ({active.run} \ {NoRun})
        /\ UNCHANGED <<worker, job, asked, canceled, approvalCount>> /\ worker # "dead"
    BY <1>1, <2>1 DEF RefuseMessage, sharedVars, askVars
  <2>3. worker \in Ended \/ (active.run = job /\ job # NoRun)
    BY DEF ActiveInv, Ended
  <2>4. worker' = "asking" => asked' # 0
    BY <2>2 DEF TypesInv, WorkerOK, Approvals
  <2>5. EventOK(m)'
    BY <1>0, <2>1, <2>2, <2>3, <2>4 DEF EventOK
  <2>6. \A x : Known(x.run) /\ EventOK(x) => EventOK(x)'
    BY <1>0, <2>2, EventsAge
  <2>. QED
    BY <1>0, <2>2, <2>5, <2>6, EventStep
<1>2. CASE AcceptMessage
  <2>0. runs' \in Runs /\ runs' = runs + 1
    BY <1>0, <1>2, BoundsAssumption DEF AcceptMessage, Runs
  <2>1. PICK m \in Events : /\ m = Message("user_message_received", runs', NoApproval)
                            /\ m.type = "user_message_received" /\ m.approval = 0
    BY <1>n, <2>0, EventIs
  <2>2. /\ outbox' = Append(outbox, m) /\ job' = runs + 1 /\ worker' = "turn"
        /\ UNCHANGED <<canceled, refused, approvalCount>>
    BY <1>2, <2>0, <2>1 DEF AcceptMessage, Emit
  <2>5. EventOK(m)'
    BY <1>0, <2>1, <2>2 DEF EventOK
  <2>6. \A x : Known(x.run) /\ EventOK(x) => EventOK(x)'
    BY <1>0, <2>2, EventsAge
  <2>. QED
    BY <1>0, <2>2, <2>5, <2>6, EventStep
<1>3. CASE AnnounceCanceled
  <2>0. target \in Runs \cup {NoRun} /\ "run_canceled" \in Terminal
    BY <1>0 DEF MainOK, Terminal
  <2>1. PICK m \in Events : /\ m = Message("run_canceled", target, NoApproval)
                            /\ m.type = "run_canceled" /\ m.run = target /\ m.approval = 0
    BY <1>n, <2>0, EventIs
  <2>2. /\ outbox' = Append(outbox, m) /\ main \in Canceling
        /\ UNCHANGED <<worker, job, asked, canceled, refused, approvalCount>>
    BY <1>3, <2>1 DEF AnnounceCanceled, Emit, Canceling, sharedVars, askVars
  <2>4. worker' = "asking" => asked' # 0
    BY <2>2 DEF TypesInv, WorkerOK, Approvals
  <2>5. EventOK(m)'
    BY <1>0, <2>1, <2>2, <2>4 DEF EventOK, ActiveInv
  <2>6. \A x : Known(x.run) /\ EventOK(x) => EventOK(x)'
    BY <1>0, <2>2, EventsAge
  <2>. QED
    BY <1>0, <2>2, <2>5, <2>6, EventStep
<1>4. CASE Exit
  <2>1. PICK m \in Events : /\ m = Message("session_closed", NoRun, NoApproval)
                            /\ m.type = "session_closed" /\ m.approval = 0
    <3>1. Message("session_closed", NoRun, NoApproval) \in Events
      BY <1>n DEF Message, Events, Messages
    <3>2. /\ Message("session_closed", NoRun, NoApproval).type = "session_closed"
          /\ Message("session_closed", NoRun, NoApproval).approval = 0
      BY <1>n DEF Message
    <3>. QED
      BY <3>1, <3>2
  <2>2. /\ outbox' = Append(outbox, m) /\ worker' = "dead"
        /\ UNCHANGED <<job, canceled, refused, approvalCount>>
    BY <1>4, <2>1 DEF Exit, Emit, sharedVars, askVars
  <2>5. EventOK(m)'
    BY <1>0, <2>1, <2>2 DEF EventOK
  <2>6. \A x : Known(x.run) /\ EventOK(x) => EventOK(x)'
    BY <1>0, <2>2, EventsAge DEF Ended
  <2>. QED
    BY <1>0, <2>2, <2>5, <2>6, EventStep
<1>5. CASE MarkCanceled \/ RejectCanceled \/ ResolveApproval \/ Close \/ Killed
  <2>1. /\ UNCHANGED <<outbox, job, refused, approvalCount>> /\ canceled \subseteq canceled'
        /\ worker' = "dead" \/ UNCHANGED <<worker, asked>>
    BY <1>5 DEF MarkCanceled, RejectCanceled, ResolveApproval, Close, Killed, askVars,
                historyVars, sharedVars
  <2>2. \A x : Known(x.run) /\ EventOK(x) => EventOK(x)'
    BY <1>0, <2>1, EventsAge DEF Ended
  <2>. QED
    BY <1>0, <1>e, <2>1, <2>2, EventStep
<1>. QED
  BY <1>1, <1>2, <1>3, <1>4, <1>5 DEF Main

LEMMA EventKeptByWorker ==
  TypesInv /\ KnownInv /\ ActiveInv /\ EventInv /\ AskedInv /\ (Worker \/ ResetCancel)
  => EventInv'
<1>. SUFFICES ASSUME TypesInv, KnownInv, ActiveInv, EventInv, AskedInv, Worker \/ ResetCancel
              PROVE  EventInv'
  OBVIOUS
<1>0. /\ StreamsOK /\ OutboxKnown /\ runs \in Nat /\ approvalCount \in Nat
      /\ UNCHANGED <<job, canceled, refused>>
  BY WorkerFrame DEF TypesInv, KnownInv, WorkerOK
<1>n. /\ NoApproval \in Approvals \cup {NoApproval} /\ NoApproval = 0
      /\ job \in Runs \cup {NoRun} /\ active.run \in Runs \cup {NoRun}
  BY DEF NoApproval, TypesInv, WorkerOK, MainOK
<1>e. PICK e \in Events : TRUE
  BY <1>n, EventIs
<1>1. CASE CheckCanceled \/ EndOfAsk \/ RunTool \/ UseDecision \/ CheckReturn \/ ClearRun
           \/ ClearThread \/ ResetCancel
  <2>1. UNCHANGED <<outbox, approvalCount>> /\ (worker \in Ended => worker' \in Ended)
        /\ (worker' # "asking" \/ UNCHANGED <<worker, asked>>)
    BY <1>1 DEF CheckCanceled, EndOfAsk, RunTool, UseDecision, CheckReturn, ClearRun,
                ClearThread, ResetCancel, WorkerTo, Ended, askVars
  <2>2. \A x : Known(x.run) /\ EventOK(x) => EventOK(x)'
    BY <1>0, <2>1, EventsAge
  <2>. QED
    BY <1>0, <1>e, <2>1, <2>2, EventStep
<1>2. CASE RegisterRequest
  <2>1. /\ outbox' = outbox /\ approvalCount' = approvalCount + 1 /\ asked' = approvalCount + 1
        /\ worker \notin Ended
    BY <1>2 DEF RegisterRequest, Ended
  <2>2. \A x : Known(x.run) /\ EventOK(x) => EventOK(x)'
    BY <1>0, <2>1, EventsAge
  <2>. QED
    BY <1>0, <1>e, <2>1, <2>2, EventStep
<1>3. CASE AnnounceRequest \/ AnnounceDecision
  <2>1. asked \in Approvals \cup {NoApproval} /\ asked \in 0..approvalCount
    BY DEF TypesInv, WorkerOK, AskedInv
  <2>2. PICK type \in {"approval_requested", "approval_resolved"} :
          outbox' = Append(outbox, Message(type, active.run, asked))
    BY <1>3 DEF AnnounceRequest, AnnounceDecision, Emit
  <2>a. Message(type, active.run, asked) \in Events
    BY <1>n, <2>1, <2>2 DEF Message, Events, Messages
  <2>3. PICK m \in Events : /\ m = Message(type, active.run, asked)
                            /\ m.type = type /\ m.approval = asked
    BY <2>a DEF Message
  <2>4. /\ worker \notin Ended /\ worker' \in {"waiting", "resolved"}
        /\ approvalCount' = approvalCount
    BY <1>3 DEF AnnounceRequest, AnnounceDecision, WorkerTo, Ended
  <2>5. EventOK(m)'
    BY <1>0, <2>1, <2>2, <2>3, <2>4 DEF EventOK
  <2>6. \A x : Known(x.run) /\ EventOK(x) => EventOK(x)'
    BY <1>0, <2>4, EventsAge
  <2>. QED
    BY <1>0, <2>2, <2>3, <2>5, <2>6, EventStep
<1>4. CASE AnnounceEnd
  <2>1. PICK type \in {"run_completed", "run_failed"} :
          outbox' = Append(outbox, Message(type, job, NoApproval))
    BY <1>4 DEF AnnounceEnd, Emit
  <2>2. PICK m \in Events : /\ m = Message(type, job, NoApproval)
                            /\ m.type = type /\ m.run = job /\ m.approval = 0
    BY <1>n, <2>1, EventIs DEF Terminal
  <2>4. worker' \in Ended /\ worker' # "asking" /\ approvalCount' = approvalCount
    BY <1>4 DEF AnnounceEnd, WorkerTo, Ended
  <2>5. EventOK(m)'
    BY <1>0, <2>1, <2>2, <2>4 DEF EventOK
  <2>6. \A x : Known(x.run) /\ EventOK(x) => EventOK(x)'
    BY <1>0, <2>4, EventsAge
  <2>. QED
    BY <1>0, <2>1, <2>2, <2>5, <2>6, EventStep
<1>. QED
  BY <1>1, <1>2, <1>3, <1>4 DEF Worker

LEMMA EventKept ==
  TypesInv /\ KnownInv /\ ActiveInv /\ EventInv /\ AskedInv /\ [Next]_vars => EventInv'
<1>. SUFFICES ASSUME TypesInv, KnownInv, ActiveInv, EventInv, AskedInv, [Next]_vars
              PROVE  EventInv'
  OBVIOUS
<1>1. CASE User \/ ReceiveEvent \/ UNCHANGED vars
  <2>1. /\ UNCHANGED <<job, canceled, refused, worker, asked, approvalCount>>
        /\ outbox' = outbox \/ (outbox # <<>> /\ outbox' = Tail(outbox))
    BY <1>1 DEF User, SendMessage, StopRun, AnswerDialog, LeaveProject, OtherRunnerVars,
                ReceiveEvent, vars, runnerVars
  <2>2. StreamsOK /\ OutboxKnown /\ runs \in Nat /\ approvalCount \in Nat
    BY DEF TypesInv, KnownInv, WorkerOK
  <2>3. \A x : Known(x.run) /\ EventOK(x) => EventOK(x)'
    BY <2>1, <2>2, EventsAge
  <2>4. PICK e \in Events : TRUE
    BY EventIs DEF Terminal
  <2>. QED
    BY <2>1, <2>2, <2>3, <2>4, EventStep
<1>. QED
  BY <1>1, EventKeptByMain, EventKeptByWorker DEF Next, RunnerNext

LEMMA AskedKept == TypesInv /\ AskedInv /\ [Next]_vars => AskedInv'
<1>. SUFFICES ASSUME TypesInv, AskedInv, [Next]_vars PROVE AskedInv'
  OBVIOUS
<1>0. approvalCount \in Nat
  BY DEF TypesInv, WorkerOK
<1>1. CASE RegisterRequest
  BY <1>0, <1>1 DEF RegisterRequest, AskedInv
<1>2. CASE UseDecision
  BY <1>0, <1>2 DEF UseDecision, AskedInv, NoApproval
<1>3. CASE ~RegisterRequest /\ ~UseDecision
  <2>1. CASE User \/ ReceiveEvent \/ UNCHANGED vars
    BY <2>1 DEF User, SendMessage, StopRun, AnswerDialog, LeaveProject, OtherRunnerVars,
                ReceiveEvent, vars, runnerVars, AskedInv
  <2>2. CASE Main
    BY <2>2 DEF Main, RefuseMessage, AcceptMessage, MarkCanceled, RejectCanceled,
                AnnounceCanceled, ResolveApproval, Close, Exit, Killed, askVars, AskedInv
  <2>3. CASE Worker \/ ResetCancel
    BY <1>3, <2>3 DEF Worker, CheckCanceled, EndOfAsk, RunTool, AnnounceRequest,
           AnnounceDecision, CheckReturn, AnnounceEnd, ClearRun, ClearThread, ResetCancel,
           askVars, AskedInv
  <2>. QED
    BY <2>1, <2>2, <2>3 DEF Next, RunnerNext
<1>. QED
  BY <1>1, <1>2, <1>3

-----------------------------------------------------------------------------

(* The message is about the approval the worker waits for.                  *)
Asks(m) == m.approval = asked /\ m.run = job

Unspoken == \A k \in 1..Len(outbox) : outbox[k].approval # asked

Announced ==
  \E n \in 1..Len(outbox) :
    /\ outbox[n].type = "approval_requested" /\ Asks(outbox[n])
    /\ \A k \in 1..Len(outbox) : k # n => outbox[k].approval # asked

Offered == \E d \in dialogs : Asks(d) /\ ~d.resolving

Answered ==
  \E n \in 1..Len(inbox) :
    inbox[n].type \in {"approve_operation", "reject_operation"} /\ Asks(inbox[n])

(* A request nobody decided on is on its way to the client, or shown to the *)
(* user, or her decision is on its way to the runner.                       *)
DialogInv ==
  ~Leaving /\ Waits /\ job \notin canceled \cup refused =>
    Announced \/ (Unspoken /\ Offered) \/ Answered

(* No step but the answer of a dialog and its arrival makes a request be    *)
(* forgotten.                                                               *)
LEMMA AnsweredRead ==
  ASSUME StreamsOK, Answered, NEW type, Read(type), UNCHANGED <<asked, job>>,
         ~(Head(inbox).type \in {"approve_operation", "reject_operation"} /\ Asks(Head(inbox)))
  PROVE  Answered'
<1>1. inbox # <<>> /\ inbox' = Tail(inbox)
  BY DEF Read
<1>2. /\ Len(inbox) \in Nat /\ Len(inbox') \in Nat /\ Len(inbox) = Len(inbox') + 1
      /\ Head(inbox) = inbox[1] /\ \A n \in 1..Len(inbox') : inbox'[n] = inbox[n + 1]
  BY <1>1, Taken DEF StreamsOK
<1>3. PICK n \in 1..Len(inbox) :
        inbox[n].type \in {"approve_operation", "reject_operation"} /\ Asks(inbox[n])
  BY DEF Answered
<1>4. n - 1 \in 1..Len(inbox') /\ inbox'[n - 1] = inbox[n]
  BY <1>2, <1>3
<1>. QED
  BY <1>3, <1>4 DEF Answered, Asks

LEMMA AnsweredSent ==
  ASSUME StreamsOK, NEW c \in Commands, SendCommand(c), UNCHANGED <<asked, job>>,
         Answered \/ (c.type \in {"approve_operation", "reject_operation"} /\ Asks(c))
  PROVE  Answered'
<1>1. /\ Len(inbox) \in Nat /\ Len(inbox') = Len(inbox) + 1 /\ inbox'[Len(inbox) + 1] = c
      /\ \A n \in 1..Len(inbox) : inbox'[n] = inbox[n]
  BY Appended DEF StreamsOK, SendCommand
<1>. QED
  BY <1>1 DEF Answered, Asks

(* Another event in the stream.                                             *)
LEMMA OtherSaid ==
  ASSUME StreamsOK, NEW e \in Events, outbox' = Append(outbox, e), e.approval # asked,
         UNCHANGED <<asked, job, dialogs>>, Announced \/ (Unspoken /\ Offered)
  PROVE  (Announced \/ (Unspoken /\ Offered))'
<1>1. /\ Len(outbox) \in Nat /\ Len(outbox') = Len(outbox) + 1 /\ outbox'[Len(outbox) + 1] = e
      /\ \A n \in 1..Len(outbox) : outbox'[n] = outbox[n]
  BY Appended DEF StreamsOK
<1>2. \A n \in 1..Len(outbox') : n = Len(outbox) + 1 \/ n \in 1..Len(outbox)
  BY <1>1
<1>3. CASE Announced
  BY <1>1, <1>2, <1>3 DEF Announced, Asks
<1>4. CASE Unspoken /\ Offered
  BY <1>1, <1>2, <1>4 DEF Unspoken, Offered, Asks
<1>. QED
  BY <1>3, <1>4

LEMMA NothingSaid ==
  UNCHANGED <<outbox, asked, job, dialogs>> /\ (Announced \/ (Unspoken /\ Offered))
    => (Announced \/ (Unspoken /\ Offered))'
BY DEF Announced, Unspoken, Offered, Asks

LEMMA DialogKeptByMain ==
  TypesInv /\ ActiveInv /\ DialogInv /\ Main /\ ViewUnchanged => DialogInv'
<1>. SUFFICES ASSUME TypesInv, ActiveInv, DialogInv, Main, ViewUnchanged, ~Leaving, ~Leaving',
                     Waits', (job \notin canceled \cup refused)'
              PROVE  (Announced \/ (Unspoken /\ Offered) \/ Answered)'
  BY LeavingStays DEF DialogInv, Next, RunnerNext
<1>0. StreamsOK /\ MainOK /\ WorkerOK /\ dialogs' = dialogs
  BY DEF TypesInv, ViewUnchanged
<1>1. ~AcceptMessage /\ ~Close /\ ~Exit /\ ~Killed
  BY DEF AcceptMessage, Waits, Close, Exit, Killed, Leaving
<1>2. ~RefuseMessage
  <2>. SUFFICES ASSUME RefuseMessage PROVE FALSE
    OBVIOUS
  <2>1. UNCHANGED <<worker, job>> /\ refused' = refused \cup ({active.run} \ {NoRun})
    BY DEF RefuseMessage, askVars
  <2>. QED
    BY <2>1 DEF ActiveInv, Waits
<1>3. UNCHANGED <<worker, job, asked>> /\ canceled \subseteq canceled' /\ refused' = refused
      /\ woken \subseteq woken'
  BY <1>1, <1>2 DEF Main, MarkCanceled, RejectCanceled, RejectPending, AnnounceCanceled,
                    ResolveApproval, askVars, historyVars, sharedVars
<1>4. Waits /\ job \notin canceled \cup refused
  BY <1>3 DEF Waits
<1>5. Announced \/ (Unspoken /\ Offered) \/ Answered
  BY <1>4 DEF DialogInv
<1>6. CASE MarkCanceled
  <2>1. Read("cancel_run") /\ outbox' = outbox
    BY <1>6 DEF MarkCanceled
  <2>2. Answered => Answered'
    BY <1>0, <1>3, <2>1, AnsweredRead DEF Read
  <2>. QED
    BY <1>0, <1>3, <1>5, <2>1, <2>2, NothingSaid
<1>7. CASE RejectCanceled
  <2>1. UNCHANGED <<inbox, outbox>>
    BY <1>7 DEF RejectCanceled
  <2>2. Answered => Answered'
    BY <1>3, <2>1 DEF Answered, Asks
  <2>. QED
    BY <1>0, <1>3, <1>5, <2>1, <2>2, NothingSaid
<1>8. CASE AnnounceCanceled
  <2>0. target \in Runs \cup {NoRun} /\ "run_canceled" \in Terminal
        /\ NoApproval \in Approvals \cup {NoApproval} /\ asked # NoApproval
    BY <1>0, <1>4 DEF MainOK, Terminal, WorkerOK, Waits, Approvals, NoApproval
  <2>1. PICK m \in Events : m = Message("run_canceled", target, NoApproval)
                            /\ m.approval = NoApproval
    BY <2>0, EventIs
  <2>2. outbox' = Append(outbox, m) /\ inbox' = inbox
    BY <1>8, <2>1 DEF AnnounceCanceled, Emit
  <2>3. Answered => Answered'
    BY <1>3, <2>2 DEF Answered, Asks
  <2>. QED
    BY <1>0, <1>3, <1>5, <2>0, <2>1, <2>2, <2>3, OtherSaid
<1>9. CASE ResolveApproval
  <2>1. PICK decision \in {"approve_operation", "reject_operation"} : Read(decision)
    BY <1>9 DEF ResolveApproval
  <2>2. outbox' = outbox
    BY <1>9 DEF ResolveApproval
  <2>3. ~Asks(Head(inbox))
    <3>. SUFFICES ASSUME Asks(Head(inbox)) PROVE FALSE
      OBVIOUS
    <3>1. asked \in pending /\ Head(inbox).approval = asked /\ Head(inbox).run = job
      BY <1>0, <1>4 DEF Asks, Waits, WorkerOK
    <3>2. asked \in woken'
      BY <1>9, <3>1 DEF ResolveApproval
    <3>. QED
      BY <1>3, <3>2 DEF Waits
  <2>4. Answered => Answered'
    BY <1>0, <1>3, <2>1, <2>3, AnsweredRead
  <2>. QED
    BY <1>0, <1>3, <1>5, <2>2, <2>4, NothingSaid
<1>. QED
  BY <1>1, <1>2, <1>6, <1>7, <1>8, <1>9 DEF Main

LEMMA DialogKeptByWorker ==
  TypesInv /\ ActiveInv /\ EventInv /\ DialogInv /\ (Worker \/ ResetCancel) /\ ViewUnchanged
    => DialogInv'
<1>. SUFFICES ASSUME TypesInv, ActiveInv, EventInv, DialogInv, Worker \/ ResetCancel,
                     ViewUnchanged, ~Leaving, ~Leaving',
                     Waits', (job \notin canceled \cup refused)'
              PROVE  (Announced \/ (Unspoken /\ Offered) \/ Answered)'
  BY LeavingStays DEF DialogInv, Next, RunnerNext
<1>0. /\ StreamsOK /\ MainOK /\ WorkerOK /\ dialogs' = dialogs
      /\ UNCHANGED <<inbox, job, canceled, refused>>
  BY WorkerFrame DEF TypesInv, ViewUnchanged
<1>w. worker' = "waiting"
  BY DEF Waits
<1>a. ~CheckCanceled /\ ~EndOfAsk /\ ~RunTool
  BY <1>w DEF CheckCanceled, EndOfAsk, RunTool, WorkerTo
<1>b. ~RegisterRequest /\ ~AnnounceDecision /\ ~UseDecision
  BY <1>w DEF RegisterRequest, AnnounceDecision, UseDecision, WorkerTo
<1>c. ~CheckReturn
  BY <1>w DEF CheckReturn, WorkerTo
<1>d. ~AnnounceEnd
  BY <1>w DEF AnnounceEnd, WorkerTo
<1>e. ~ClearRun /\ ~ClearThread
  BY <1>w DEF ClearRun, ClearThread, WorkerTo
<1>1. AnnounceRequest \/ ResetCancel
  BY <1>a, <1>b, <1>c, <1>d, <1>e DEF Worker
<1>2. CASE AnnounceRequest
  <2>1. /\ asked \in Approvals \cup {NoApproval} /\ active.run \in Runs \cup {NoRun}
        /\ worker = "asking" /\ active.run = job
    BY <1>0, <1>2 DEF AnnounceRequest, MainOK, WorkerOK, ActiveInv
  <2>. DEFINE m == Message("approval_requested", active.run, asked)
  <2>2. m \in Events /\ m.type = "approval_requested" /\ m.run = job /\ m.approval = asked
    <3>1. /\ m \in Events /\ m.type = "approval_requested" /\ m.run = active.run
          /\ m.approval = asked
      BY ONLY <2>1, EventIs
    <3>. QED
      BY ONLY <2>1, <3>1
  <2>3. outbox' = Append(outbox, m) /\ asked' = asked
    BY <1>2 DEF AnnounceRequest, Emit, askVars
  <2>. HIDE DEF m
  <2>4. /\ Len(outbox) \in Nat /\ Len(outbox') = Len(outbox) + 1 /\ outbox'[Len(outbox) + 1] = m
        /\ \A n \in 1..Len(outbox) : outbox'[n] = outbox[n]
    BY <1>0, <2>3, Appended DEF StreamsOK
  <2>5. \A n \in 1..Len(outbox) : outbox[n].approval # asked
    BY <2>1 DEF EventInv, EventOK
  <2>6. \A n \in 1..Len(outbox') : n = Len(outbox) + 1 \/ n \in 1..Len(outbox)
    BY <2>4
  <2>7. Len(outbox) + 1 \in 1..Len(outbox')
    BY <2>4
  <2>8. Announced'
    BY <1>0, <2>2, <2>3, <2>4, <2>5, <2>6, <2>7 DEF Announced, Asks
  <2>. QED
    BY <2>8
<1>3. CASE ResetCancel
  <2>1. UNCHANGED <<outbox, worker, asked, woken>>
    BY <1>3 DEF ResetCancel, askVars
  <2>2. Waits /\ job \notin canceled \cup refused
    BY <1>0, <2>1 DEF Waits
  <2>3. Answered => Answered'
    BY <1>0, <2>1 DEF Answered, Asks
  <2>. QED
    BY <1>0, <2>1, <2>2, <2>3, NothingSaid DEF DialogInv
<1>. QED
  BY <1>1, <1>2, <1>3

LEMMA DialogKeptByUser == TypesInv /\ DialogInv /\ User => DialogInv'
<1>. SUFFICES ASSUME TypesInv, DialogInv, User, ~Leaving, ~Leaving',
                     Waits', (job \notin canceled \cup refused)'
              PROVE  (Announced \/ (Unspoken /\ Offered) \/ Answered)'
  BY LeavingStays DEF DialogInv, Next
<1>0. StreamsOK /\ ClientOK /\ UNCHANGED <<outbox, worker, job, asked, woken, canceled, refused>>
  BY DEF TypesInv, User, SendMessage, StopRun, AnswerDialog, LeaveProject, OtherRunnerVars
<1>1. ~LeaveProject
  BY LeaveLeaves
<1>2. Announced \/ (Unspoken /\ Offered) \/ Answered
  BY <1>0 DEF DialogInv, Waits
<1>3. Answered => Answered'
  BY <1>0, UserSends, AnsweredSent
<1>4. CASE SendMessage \/ StopRun
  <2>1. dialogs' = dialogs
    BY <1>4 DEF SendMessage, StopRun
  <2>. QED
    BY <1>0, <1>2, <1>3, <2>1, NothingSaid
<1>5. ASSUME NEW d \in dialogs, AnswerDialog(d)
      PROVE  (Announced \/ (Unspoken /\ Offered) \/ Answered)'
  <2>1. CASE Asks(d)
    <3>1. d.run \in Runs \cup {NoRun} /\ d.approval \in Approvals \cup {NoApproval}
      BY <1>0 DEF ClientOK, Dialogs
    <3>2. PICK decision \in {"approve_operation", "reject_operation"} :
            SendCommand(Message(decision, d.run, d.approval))
      BY <1>5 DEF AnswerDialog
    <3>3. PICK c \in Commands :
            /\ c = Message(decision, d.run, d.approval)
            /\ c.type = decision /\ c.run = d.run /\ c.approval = d.approval
      BY <3>1, <3>2, CommandIs
    <3>4. Asks(c)
      BY <2>1, <3>3 DEF Asks
    <3>. QED
      BY <1>0, <3>2, <3>3, <3>4, AnsweredSent
  <2>2. CASE ~Asks(d)
    <3>1. Announced => Announced'
      BY <1>0 DEF Announced, Asks
    <3>2. Unspoken /\ Offered => (Unspoken /\ Offered)'
      BY <1>0, <1>5, <2>2 DEF Unspoken, Offered, Asks, AnswerDialog
    <3>. QED
      BY <1>2, <1>3, <3>1, <3>2
  <2>. QED
    BY <2>1, <2>2
<1>. QED
  BY <1>1, <1>4, <1>5 DEF User

LEMMA DialogKeptByView ==
  TypesInv /\ ActiveInv /\ EventInv /\ DialogInv /\ ReceiveEvent => DialogInv'
<1>. SUFFICES ASSUME TypesInv, ActiveInv, EventInv, DialogInv, ReceiveEvent, ~Leaving,
                     Waits', (job \notin canceled \cup refused)'
              PROVE  (Announced \/ (Unspoken /\ Offered) \/ Answered)'
  BY LeavingStays DEF DialogInv, Next
<1>. DEFINE e == Head(outbox)
<1>0. /\ UNCHANGED <<inbox, worker, job, asked, woken, canceled, refused>>
      /\ dialogs' = DialogsAfter(e)
  BY DEF ReceiveEvent
<1>1. /\ Len(outbox) \in Nat /\ Len(outbox') \in Nat /\ Len(outbox) = Len(outbox') + 1
      /\ e = outbox[1] /\ \A n \in 1..Len(outbox') : outbox'[n] = outbox[n + 1]
  BY Taken DEF ReceiveEvent, StreamsOK, TypesInv
<1>2. EventOK(e)
  BY <1>1 DEF EventInv
<1>. HIDE DEF e
<1>3. Waits /\ job \notin canceled \cup refused
  BY <1>0 DEF Waits
<1>4. CASE Answered
  BY <1>0, <1>4 DEF Answered, Asks
<1>5. CASE Announced
  <2>1. PICK n \in 1..Len(outbox) :
          /\ outbox[n].type = "approval_requested" /\ Asks(outbox[n])
          /\ \A k \in 1..Len(outbox) : k # n => outbox[k].approval # asked
    BY <1>5 DEF Announced
  <2>2. CASE n = 1
    <3>1. e.type = "approval_requested" /\ e.run = job /\ e.approval = asked
      BY <1>1, <2>1, <2>2 DEF Asks
    <3>2. [run |-> e.run, approval |-> e.approval, resolving |-> FALSE] \in dialogs'
      BY <1>0, <3>1 DEF DialogsAfter
    <3>3. Offered'
      BY <1>0, <3>1, <3>2 DEF Offered, Asks
    <3>4. Unspoken'
      BY <1>0, <1>1, <2>1, <2>2 DEF Unspoken
    <3>. QED
      BY <3>3, <3>4
  <2>3. CASE n # 1
    <3>1. n - 1 \in 1..Len(outbox') /\ outbox'[n - 1] = outbox[n]
      BY <1>1, <2>1, <2>3
    <3>2. \A k \in 1..Len(outbox') : k # n - 1 => outbox'[k].approval # asked
      BY <1>1, <2>1, <2>3
    <3>. QED
      BY <1>0, <2>1, <3>1, <3>2 DEF Announced, Asks
  <2>. QED
    BY <2>2, <2>3
<1>6. CASE Unspoken /\ Offered
  <2>1. PICK d \in dialogs : Asks(d) /\ ~d.resolving
    BY <1>6 DEF Offered
  <2>2. e.approval # asked
    BY <1>1, <1>6 DEF Unspoken
  <2>3. e.type \in {"run_canceled", "run_failed"} => e.run # d.run
    BY <1>2, <1>3, <2>1 DEF EventOK, Asks, ActiveInv, Waits, Ended
  <2>4. d \in dialogs'
    BY <1>0, <2>1, <2>2, <2>3 DEF DialogsAfter, Asks
  <2>5. Unspoken'
    BY <1>0, <1>1, <1>6 DEF Unspoken
  <2>. QED
    BY <1>0, <2>1, <2>4, <2>5 DEF Offered, Asks
<1>. QED
  BY <1>3, <1>4, <1>5, <1>6 DEF DialogInv

LEMMA DialogKept ==
  TypesInv /\ ActiveInv /\ EventInv /\ DialogInv /\ [Next]_vars => DialogInv'
<1>. SUFFICES ASSUME TypesInv, ActiveInv, EventInv, DialogInv, [Next]_vars PROVE DialogInv'
  OBVIOUS
<1>1. CASE UNCHANGED vars
  BY <1>1 DEF vars, runnerVars, DialogInv, Leaving, Waits, Announced, Unspoken, Offered,
              Answered, Asks
<1>. QED
  BY <1>1, DialogKeptByMain, DialogKeptByWorker, DialogKeptByUser, DialogKeptByView
     DEF Next, RunnerNext

LEMMA DialogGiven == DialogInv => DialogShown
<1>. SUFFICES ASSUME DialogInv, Quiet, Waits, job \notin canceled \cup refused
              PROVE  \E d \in dialogs : d.approval = asked /\ d.run = job /\ ~d.resolving
  BY DEF DialogShown
<1>1. Len(inbox) = 0 /\ Len(outbox) = 0 /\ main = "reading"
  BY DEF Quiet
<1>2. ~Leaving /\ ~Announced /\ ~Answered
  BY <1>1 DEF Leaving, Announced, Answered
<1>. QED
  BY <1>2 DEF DialogInv, Offered, Asks

LEMMA DialogInit == Init => EventInv /\ AskedInv /\ DialogInv
<1>. SUFFICES ASSUME Init PROVE EventInv /\ AskedInv /\ DialogInv
  OBVIOUS
<1>1. outbox = <<>> /\ worker = "dead" /\ asked = 0 /\ approvalCount = 0
  BY DEF Init, RunnerInit, NoApproval
<1>2. Len(outbox) = 0
  BY <1>1
<1>. QED
  BY <1>1, <1>2 DEF EventInv, AskedInv, DialogInv, Waits

(* Once the streams are empty, a run that waits for a decision is one the   *)
(* user can decide on: its dialog is open, unless the run was canceled or   *)
(* announced as failed (approval_handler, resolve_approval,                 *)
(* applyApprovalEvent).                                                     *)
THEOREM RequestsShown == Spec => []DialogShown
<1>1. Init /\ [][Next]_vars => []TypesInv
  BY TypesInit, TypesKept, PTL
<1>2. Init /\ [][Next]_vars => [](TypesInv /\ KnownInv /\ ActiveInv)
  BY <1>1, ViewInit, KnownKept, ActiveKept, PTL
<1>3. Init /\ [][Next]_vars => [](TypesInv /\ KnownInv /\ ActiveInv /\ EventInv /\ AskedInv)
  BY <1>2, DialogInit, EventKept, AskedKept, PTL
<1>4. Init /\ [][Next]_vars => []DialogInv
  BY <1>3, DialogInit, DialogKept, PTL
<1>. QED
  BY <1>4, DialogGiven, PTL DEF Spec
=============================================================================
