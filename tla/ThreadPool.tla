----------------------------- MODULE ThreadPool -----------------------------
(***************************************************************************)
(* core/thread_pool.cpp: a queue of tasks, worker threads that take them,  *)
(* and clients that submit, cancel, wait for the queue to drain and stop   *)
(* the pool.                                                               *)
(*                                                                         *)
(* A section under mtx_ is one action.  A thread in cv_.wait or            *)
(* cv_done_.wait sleeps until it is notified, and then looks again: what   *)
(* is lost when nobody sleeps is lost.  Wake stands for the spurious       *)
(* wake-ups a condition variable may have.                                 *)
(***************************************************************************)
EXTENDS Naturals, Sequences, FiniteSets, SequencesExt

CONSTANTS
  Workers,   \* the threads of the pool
  Clients,   \* threads that call its operations
  MaxTasks,  \* bound of the model: tasks submitted
  MaxWaits   \* bound of the model: calls of wait

ASSUME ThreadsAssumption ==
  /\ Workers # {} /\ IsFiniteSet(Workers) /\ IsFiniteSet(Clients)
  /\ Workers \cap Clients = {}
ASSUME BoundsAssumption == MaxTasks \in Nat /\ MaxWaits \in Nat

VARIABLES
  q,          \* q_
  stopping,   \* stopping_
  active,     \* active_
  cancel,     \* cancel_
  firstError, \* the task whose error is first_error_, or 0
  wpc,        \* worker -> where it is
  task,       \* worker -> the task it took, or 0
  cpc,        \* client -> where it is
  before,     \* client -> tasks accepted before its wait began
  answer,     \* client -> what its last wait returned: a task or 0
  accepted,   \* tasks submitted so far
  finished,   \* tasks a worker is through with
  failed,     \* tasks that returned an error
  waits       \* calls of wait so far

pool     == <<q, stopping, active>>
errors   == <<cancel, firstError, failed>>
clients  == <<cpc, before, answer, waits>>
workers  == <<wpc, task, finished>>
vars     == <<pool, errors, clients, workers, accepted>>

Init ==
  /\ q = << >> /\ stopping = FALSE /\ active = 0
  /\ cancel = FALSE /\ firstError = 0 /\ failed = {}
  /\ wpc = [w \in Workers |-> "look"] /\ task = [w \in Workers |-> 0]
  /\ finished = {} /\ accepted = 0
  /\ cpc = [c \in Clients |-> "idle"]
  /\ before = [c \in Clients |-> {}] /\ answer = [c \in Clients |-> 0]
  /\ waits = 0

\* cv_.notify_all, cv_done_.notify_all.
WakeAll(pc) == [t \in DOMAIN pc |-> IF pc[t] = "asleep" THEN "look" ELSE pc[t]]

\* cv_.notify_one: one of the sleepers, if there is one.
WakeOne(pc) ==
  LET asleep == {t \in DOMAIN pc : pc[t] = "asleep"}
  IN  IF asleep = {} THEN {pc} ELSE {[pc EXCEPT ![t] = "look"] : t \in asleep}

-----------------------------------------------------------------------------
\* Defect: nobody is told of the task.
SubmitSilently(c) ==
  /\ cpc[c] = "idle" /\ accepted < MaxTasks /\ ~stopping
  /\ accepted' = accepted + 1
  /\ q' = Append(q, accepted + 1)
  /\ UNCHANGED <<stopping, active, errors, clients, workers>>

\* submit; on a pool that stops it fails and changes nothing.
Submit(c) ==
  /\ cpc[c] = "idle" /\ accepted < MaxTasks /\ ~stopping
  /\ accepted' = accepted + 1
  /\ q' = Append(q, accepted + 1)
  /\ wpc' \in WakeOne(wpc)
  /\ UNCHANGED <<stopping, active, errors, clients, task, finished>>

RequestCancel(c) ==
  /\ cpc[c] = "idle"
  /\ cancel' = TRUE
  /\ UNCHANGED <<pool, firstError, failed, clients, workers, accepted>>

Stop(c) ==
  /\ cpc[c] = "idle"
  /\ stopping' = TRUE
  /\ wpc' = WakeAll(wpc)
  /\ UNCHANGED <<q, active, errors, clients, task, finished, accepted>>

\* wait is called.
WaitBegin(c) ==
  /\ cpc[c] = "idle" /\ waits < MaxWaits
  /\ waits' = waits + 1
  /\ cpc' = [cpc EXCEPT ![c] = "look"]
  /\ before' = [before EXCEPT ![c] = 1 .. accepted]
  /\ UNCHANGED <<pool, errors, workers, accepted, answer>>

\* Defect: only the queue is looked at.
QueueEmpty == q = << >>

\* What wait waits for.
Drained == q = << >> /\ active = 0

WaitSleep(c) ==
  /\ cpc[c] = "look" /\ ~Drained
  /\ cpc' = [cpc EXCEPT ![c] = "asleep"]
  /\ UNCHANGED <<pool, errors, workers, accepted, before, answer, waits>>

WaitPass(c) ==
  /\ cpc[c] = "look" /\ Drained
  /\ cpc' = [cpc EXCEPT ![c] = "report"]
  /\ UNCHANGED <<pool, errors, workers, accepted, before, answer, waits>>

\* The error is read under err_mtx_.
WaitReturn(c) ==
  /\ cpc[c] = "report"
  /\ cpc' = [cpc EXCEPT ![c] = "idle"]
  /\ answer' = [answer EXCEPT ![c] = firstError]
  /\ UNCHANGED <<pool, errors, workers, accepted, before, waits>>

-----------------------------------------------------------------------------
(***************************************************************************)
(* worker_loop_.                                                           *)
(***************************************************************************)
Sleep(w) ==
  /\ wpc[w] = "look" /\ q = << >> /\ ~stopping
  /\ wpc' = [wpc EXCEPT ![w] = "asleep"]
  /\ UNCHANGED <<pool, errors, clients, task, finished, accepted>>

Exit(w) ==
  /\ wpc[w] = "look" /\ q = << >> /\ stopping
  /\ wpc' = [wpc EXCEPT ![w] = "gone"]
  /\ UNCHANGED <<pool, errors, clients, task, finished, accepted>>

\* Defect: a pool that stops leaves its queue.
TakeUnlessStopping(w) ==
  /\ wpc[w] = "look" /\ q # << >> /\ ~stopping
  /\ task' = [task EXCEPT ![w] = Head(q)] /\ q' = Tail(q)
  /\ active' = active + 1
  /\ wpc' = [wpc EXCEPT ![w] = "took"]
  /\ UNCHANGED <<stopping, errors, clients, finished, accepted>>

Take(w) ==
  /\ wpc[w] = "look" /\ q # << >>
  /\ task' = [task EXCEPT ![w] = Head(q)] /\ q' = Tail(q)
  /\ active' = active + 1
  /\ wpc' = [wpc EXCEPT ![w] = "took"]
  /\ UNCHANGED <<stopping, errors, clients, finished, accepted>>

\* A task that begins although the pool is cancelled is skipped.
Skip(w) ==
  /\ wpc[w] = "took" /\ cancel
  /\ wpc' = [wpc EXCEPT ![w] = "end"]
  /\ UNCHANGED <<pool, errors, clients, task, finished, accepted>>

Run(w) ==
  /\ wpc[w] = "took" /\ ~cancel
  /\ wpc' = [wpc EXCEPT ![w] = "run"]
  /\ UNCHANGED <<pool, errors, clients, task, finished, accepted>>

TaskSucceeds(w) ==
  /\ wpc[w] = "run"
  /\ wpc' = [wpc EXCEPT ![w] = "end"]
  /\ UNCHANGED <<pool, errors, clients, task, finished, accepted>>

\* Defect: the error of the task is dropped.
TaskFailsQuietly(w) ==
  /\ wpc[w] = "run"
  /\ wpc' = [wpc EXCEPT ![w] = "end"]
  /\ failed' = failed \cup {task[w]}
  /\ UNCHANGED <<pool, cancel, firstError, clients, task, finished, accepted>>

\* The task returns an error or throws: set_error_ cancels the pool at once...
TaskFails(w) ==
  /\ wpc[w] = "run"
  /\ wpc' = [wpc EXCEPT ![w] = "error"]
  /\ failed' = failed \cup {task[w]}
  /\ cancel' = TRUE
  /\ UNCHANGED <<pool, firstError, clients, task, finished, accepted>>

\* ... and keeps the error under err_mtx_ if it is the first.
SetError(w) ==
  /\ wpc[w] = "error"
  /\ wpc' = [wpc EXCEPT ![w] = "end"]
  /\ firstError' = IF firstError = 0 THEN task[w] ELSE firstError
  /\ UNCHANGED <<pool, cancel, failed, clients, task, finished, accepted>>

\* Defect: the waiting clients are not told.
FinishSilently(w) ==
  /\ wpc[w] = "end"
  /\ active' = active - 1
  /\ wpc' = [wpc EXCEPT ![w] = "look"] /\ task' = [task EXCEPT ![w] = 0]
  /\ finished' = finished \cup {task[w]}
  /\ UNCHANGED <<q, stopping, errors, clients, accepted>>

\* The task is accounted for; the last one wakes the clients.
Finish(w) ==
  /\ wpc[w] = "end"
  /\ active' = active - 1
  /\ wpc' = [wpc EXCEPT ![w] = "look"] /\ task' = [task EXCEPT ![w] = 0]
  /\ finished' = finished \cup {task[w]}
  /\ cpc' = IF q = << >> /\ active = 1 THEN WakeAll(cpc) ELSE cpc
  /\ UNCHANGED <<q, stopping, errors, accepted, before, answer, waits>>

\* A condition variable wakes a thread for no reason.
Wake ==
  /\ \/ \E w \in Workers :
          wpc[w] = "asleep" /\ wpc' = [wpc EXCEPT ![w] = "look"] /\ cpc' = cpc
     \/ \E c \in Clients :
          cpc[c] = "asleep" /\ cpc' = [cpc EXCEPT ![c] = "look"] /\ wpc' = wpc
  /\ UNCHANGED <<pool, errors, task, finished, accepted, before, answer, waits>>

-----------------------------------------------------------------------------
Worker(w) ==
  \/ Sleep(w) \/ Exit(w) \/ Take(w) \/ Skip(w) \/ Run(w)
  \/ TaskSucceeds(w) \/ TaskFails(w) \/ SetError(w) \/ Finish(w)

Waiter(c) == WaitSleep(c) \/ WaitPass(c) \/ WaitReturn(c)

Next ==
  \/ \E w \in Workers : Worker(w)
  \/ \E c \in Clients : Waiter(c)
  \/ \E c \in Clients : Submit(c) \/ RequestCancel(c) \/ Stop(c) \/ WaitBegin(c)
  \/ Wake

Spec == Init /\ [][Next]_vars

\* Threads that can run do, and tasks end.  No client is obliged to call.
FairSpec ==
  /\ Spec
  /\ \A w \in Workers : WF_vars(Worker(w))
  /\ \A c \in Clients : WF_vars(Waiter(c))

-----------------------------------------------------------------------------
Tasks == 1 .. MaxTasks

\* The type of every variable.
TypeOK ==
  /\ q \in Seq(Tasks) /\ stopping \in BOOLEAN /\ active \in 0 .. Cardinality(Workers)
  /\ cancel \in BOOLEAN /\ firstError \in {0} \cup Tasks /\ failed \subseteq Tasks
  /\ wpc \in [Workers -> {"look", "asleep", "took", "run", "error", "end", "gone"}]
  /\ task \in [Workers -> {0} \cup Tasks]
  /\ cpc \in [Clients -> {"idle", "look", "asleep", "report"}]
  /\ before \in [Clients -> SUBSET Tasks] /\ answer \in [Clients -> {0} \cup Tasks]
  /\ accepted \in 0 .. MaxTasks /\ finished \subseteq Tasks /\ waits \in 0 .. MaxWaits

InHand == {task[w] : w \in Workers} \ {0}

\* Every task accepted is in exactly one place, and active_ counts the tasks
\* that workers hold.
TasksConserved ==
  /\ 1 .. accepted = ToSet(q) \cup InHand \cup finished
  /\ accepted = Len(q) + active + Cardinality(finished)
  /\ active = Cardinality({w \in Workers : task[w] # 0})

\* A wait that passes has waited for every task accepted before it began.
WaitCovers == \A c \in Clients : cpc[c] = "report" => before[c] \subseteq finished

\* A task is never lost from sight, so that a wait cannot miss it.
TasksSound == TypeOK /\ TasksConserved /\ WaitCovers

\* The error of a task that is through is on record, so that a wait which
\* covers the task cannot report success.
ErrorsKept == failed \cap finished # {} => firstError # 0

\* No accepted task is forgotten, not even by a pool that stops, and every wait returns.
TasksFinish == \A t \in Tasks : (t <= accepted) ~> (t \in finished)
WaitEnds == \A c \in Clients : (cpc[c] # "idle") ~> (cpc[c] = "idle")
WorkEnds == TasksFinish /\ WaitEnds

\* The threads of a pool that stops end, so that the destructor's join returns.
StopJoins == stopping ~> (\A w \in Workers : wpc[w] = "gone")
=============================================================================
