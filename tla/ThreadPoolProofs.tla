-------------------------- MODULE ThreadPoolProofs --------------------------
(***************************************************************************)
(* Proofs about ThreadPool, for every number of workers, clients, tasks    *)
(* and waits: no task is lost, a wait covers the tasks accepted before it, *)
(* and the error of a finished task is on record.                          *)
(***************************************************************************)
EXTENDS ThreadPool, FiniteSetTheorems, TLAPS

Flags == stopping \in BOOLEAN /\ cancel \in BOOLEAN

Places == {"look", "asleep", "took", "run", "error", "end", "gone"}
WorkerTypes ==
  /\ wpc \in [Workers -> Places]
  /\ task \in [Workers -> {0} \cup Tasks]
  /\ firstError \in {0} \cup Tasks /\ failed \subseteq Tasks

ClientTypes ==
  /\ cpc \in [Clients -> {"idle", "look", "asleep", "report"}]
  /\ before \in [Clients -> SUBSET Tasks] /\ answer \in [Clients -> {0} \cup Tasks]
  /\ waits \in 0 .. MaxWaits

\* Tasks are taken in the order of their submission: those up to this one have been.
Taken == accepted - Len(q)

Queue ==
  /\ q \in Seq(Tasks) /\ accepted \in 0 .. MaxTasks /\ Len(q) <= accepted
  /\ \A i \in 1 .. Len(q) : q[i] = Taken + i

\* Each task taken is in the hand of one worker, which is at it, or finished.
AtTask(w) == wpc[w] \in {"took", "run", "error", "end"}
Hands ==
  /\ \A w \in Workers : task[w] # 0 <=> AtTask(w)
  /\ \A w \in Workers : task[w] <= Taken /\ task[w] \notin finished
  /\ \A v, w \in Workers : task[v] = task[w] /\ task[v] # 0 => v = w
  /\ finished \subseteq Tasks /\ \A t \in finished : t <= Taken
  /\ \A t \in 1 .. Taken : t \in finished \/ \E w \in Workers : task[w] = t

Busy == {w \in Workers : task[w] # 0}
Counts == active \in Nat /\ active = Cardinality(Busy) /\ Taken = active + Cardinality(finished)

Covered == WaitCovers /\ \A c \in Clients : \A t \in before[c] : t <= accepted

\* An error that is not on record is in the hand of the worker that will record it.
Recorded == \A t \in failed : firstError # 0 \/ \E w \in Workers : task[w] = t /\ wpc[w] = "error"


IInv == Flags /\ WorkerTypes /\ ClientTypes /\ Queue /\ Hands /\ Counts /\ Covered /\ Recorded

-----------------------------------------------------------------------------
\* A notification only takes sleepers back to where they look: workers,
LEMMA WorkersWake ==
  ASSUME wpc \in [Workers -> Places], wpc' = WakeAll(wpc) \/ wpc' \in WakeOne(wpc)
  PROVE  /\ wpc' \in [Workers -> Places]
         /\ \A w \in Workers : wpc'[w] = wpc[w] \/ (wpc[w] = "asleep" /\ wpc'[w] = "look")
<1> USE DEF Places
<1>1. CASE wpc' = WakeAll(wpc)
  BY <1>1 DEF WakeAll
<1>2. CASE wpc' = wpc
  BY <1>2
<1>3. CASE \E t \in DOMAIN wpc : wpc[t] = "asleep" /\ wpc' = [wpc EXCEPT ![t] = "look"]
  BY <1>3
<1>4. wpc' \in WakeOne(wpc) =>
        \/ wpc' = wpc
        \/ \E t \in DOMAIN wpc : wpc[t] = "asleep" /\ wpc' = [wpc EXCEPT ![t] = "look"]
  BY DEF WakeOne
<1>5. QED
  BY <1>1, <1>2, <1>3, <1>4

\* and clients.
LEMMA ClientsWake ==
  ASSUME cpc \in [Clients -> {"idle", "look", "asleep", "report"}],
         cpc' = WakeAll(cpc) \/ cpc' = cpc
  PROVE  /\ cpc' \in [Clients -> {"idle", "look", "asleep", "report"}]
         /\ \A c \in Clients : cpc'[c] = "report" => cpc[c] = "report"
BY DEF WakeAll

\* What a step may do to the types of the workers' variables.
LEMMA StepWorkerTypes == IInv /\ [Next]_vars => WorkerTypes'
<1> SUFFICES ASSUME IInv, [Next]_vars PROVE WorkerTypes'
  OBVIOUS
<1> USE DEF IInv, WorkerTypes, Places, pool, errors, clients, workers
<1>1. ASSUME NEW w \in Workers, Worker(w) PROVE WorkerTypes'
  <2>1. CASE Sleep(w) \/ Exit(w) \/ Skip(w) \/ Run(w) \/ TaskSucceeds(w)
    BY <2>1 DEF Sleep, Exit, Skip, Run, TaskSucceeds
  <2>2. CASE Take(w)
    <3>1. Head(q) \in Tasks
      BY <2>2 DEF Take, Queue
    <3>2. QED
      BY <2>2, <3>1 DEF Take
  <2>3. CASE TaskFails(w)
    BY <2>3 DEF TaskFails, Hands, AtTask
  <2>4. CASE SetError(w)
    BY <2>4 DEF SetError
  <2>5. CASE Finish(w)
    BY <2>5 DEF Finish
  <2>6. QED
    BY <1>1, <2>1, <2>2, <2>3, <2>4, <2>5 DEF Worker
<1>2. ASSUME NEW c \in Clients, Waiter(c) \/ RequestCancel(c) \/ WaitBegin(c) PROVE WorkerTypes'
  BY <1>2 DEF Waiter, WaitSleep, WaitPass, WaitReturn, RequestCancel, WaitBegin
<1>3. ASSUME NEW c \in Clients, Submit(c) PROVE WorkerTypes'
  BY <1>3, WorkersWake DEF Submit
<1>4. ASSUME NEW c \in Clients, Stop(c) PROVE WorkerTypes'
  BY <1>4, WorkersWake DEF Stop
<1>5. CASE Wake
  BY <1>5 DEF Wake
<1>6. CASE UNCHANGED vars
  BY <1>6 DEF vars
<1>7. QED
  BY <1>1, <1>2, <1>3, <1>4, <1>5, <1>6 DEF Next

\* The same of the clients'.
LEMMA StepClientTypes == IInv /\ [Next]_vars => ClientTypes'
<1> SUFFICES ASSUME IInv, [Next]_vars PROVE ClientTypes'
  OBVIOUS
<1> USE DEF IInv, ClientTypes, pool, errors, clients, workers
<1>1. ASSUME NEW w \in Workers, Worker(w) PROVE ClientTypes'
  <2>1. CASE Finish(w)
    <3>1. cpc' \in [Clients -> {"idle", "look", "asleep", "report"}]
      BY <2>1, ClientsWake DEF Finish
    <3>2. QED
      BY <2>1, <3>1 DEF Finish
  <2>2. CASE ~Finish(w)
    BY <1>1, <2>2 DEF Worker, Sleep, Exit, Take, Skip, Run, TaskSucceeds, TaskFails, SetError
  <2>3. QED
    BY <2>1, <2>2
<1>2. ASSUME NEW c \in Clients, Waiter(c) PROVE ClientTypes'
  BY <1>2 DEF Waiter, WaitSleep, WaitPass, WaitReturn, WorkerTypes
<1>3. ASSUME NEW c \in Clients, Submit(c) \/ RequestCancel(c) \/ Stop(c) PROVE ClientTypes'
  BY <1>3 DEF Submit, RequestCancel, Stop
<1>4. ASSUME NEW c \in Clients, WaitBegin(c) PROVE ClientTypes'
  <2>1. waits' \in 0 .. MaxWaits
    BY <1>4, BoundsAssumption DEF WaitBegin
  <2>2. 1 .. accepted \subseteq Tasks
    BY BoundsAssumption DEF Queue, Tasks
  <2>3. QED
    BY <1>4, <2>1, <2>2 DEF WaitBegin
<1>5. CASE Wake
  BY <1>5 DEF Wake
<1>6. CASE UNCHANGED vars
  BY <1>6 DEF vars
<1>7. QED
  BY <1>1, <1>2, <1>3, <1>4, <1>5, <1>6 DEF Next

\* The flags are set and never cleared.
LEMMA StepFlags == IInv /\ [Next]_vars => Flags'
<1> SUFFICES ASSUME IInv, [Next]_vars PROVE Flags'
  OBVIOUS
<1>1. (stopping' = stopping \/ stopping' = TRUE) /\ (cancel' = cancel \/ cancel' = TRUE)
  BY DEF Next, Worker, Waiter, Sleep, Exit, Take, Skip, Run, TaskSucceeds, TaskFails, SetError,
     Finish, WaitSleep, WaitPass, WaitReturn, Submit, RequestCancel, Stop, WaitBegin, Wake,
     vars, pool, errors, clients, workers
<1>2. QED
  BY <1>1, Zenon DEF IInv, Flags

-----------------------------------------------------------------------------
\* Steps that submit, take and finish nothing leave the tasks where they are.
Still ==
  /\ UNCHANGED <<q, accepted, active, task, finished>>
  /\ \A w \in Workers : AtTask(w)' <=> AtTask(w)

LEMMA MostStepsAreStill ==
  ASSUME IInv, [Next]_vars
  PROVE  \/ Still
         \/ \E c \in Clients : Submit(c)
         \/ \E w \in Workers : Take(w) \/ Finish(w)
<1> USE DEF IInv, WorkerTypes, Still, AtTask, pool, errors, clients, workers
<1>1. ASSUME NEW w \in Workers, Worker(w) PROVE Still \/ Take(w) \/ Finish(w)
  BY <1>1 DEF Worker, Sleep, Exit, Skip, Run, TaskSucceeds, TaskFails, SetError
<1>2. ASSUME NEW c \in Clients, Waiter(c) \/ RequestCancel(c) \/ WaitBegin(c) PROVE Still
  BY <1>2 DEF Waiter, WaitSleep, WaitPass, WaitReturn, RequestCancel, WaitBegin
<1>3. ASSUME NEW c \in Clients, Stop(c) PROVE Still
  <2>1. wpc' = WakeAll(wpc)
    BY <1>3 DEF Stop
  <2>2. \A w \in Workers : AtTask(w)' <=> AtTask(w)
    BY <2>1, WorkersWake
  <2>3. QED
    BY <1>3, <2>2 DEF Stop
<1>4. CASE Wake
  BY <1>4 DEF Wake
<1>5. CASE UNCHANGED vars
  BY <1>5 DEF vars
<1>6. QED
  BY <1>1, <1>2, <1>3, <1>4, <1>5 DEF Next

\* The queue holds the last tasks submitted, in order.
LEMMA StepQueue == IInv /\ [Next]_vars => Queue'
<1> SUFFICES ASSUME IInv, [Next]_vars PROVE Queue'
  OBVIOUS
<1> USE BoundsAssumption DEF IInv, Queue, Taken, Tasks, pool
<1>1. CASE Still
  BY <1>1 DEF Still
<1>2. ASSUME NEW c \in Clients, Submit(c) PROVE Queue'
  <2>1. accepted' = accepted + 1 /\ accepted' \in 0 .. MaxTasks /\ accepted' \in Tasks
    BY <1>2 DEF Submit
  <2>2. q' \in Seq(Tasks) /\ Len(q') = Len(q) + 1
    BY <1>2, <2>1 DEF Submit
  <2>3. ASSUME NEW i \in 1 .. Len(q') PROVE q'[i] = accepted' - Len(q') + i
    BY <1>2, <2>1, <2>2 DEF Submit
  <2>4. QED
    BY <2>1, <2>2, <2>3
<1>3. ASSUME NEW w \in Workers, Take(w) PROVE Queue'
  <2>1. q' \in Seq(Tasks) /\ Len(q') = Len(q) - 1 /\ accepted' = accepted
    BY <1>3 DEF Take
  <2>2. ASSUME NEW i \in 1 .. Len(q') PROVE q'[i] = accepted' - Len(q') + i
    <3>1. q'[i] = q[i + 1]
      BY <1>3, <2>1 DEF Take
    <3>2. QED
      BY <2>1, <3>1
  <2>3. QED
    BY <2>1, <2>2
<1>4. ASSUME NEW w \in Workers, Finish(w) PROVE Queue'
  BY <1>4 DEF Finish
<1>5. QED
  BY <1>1, <1>2, <1>3, <1>4, MostStepsAreStill

\* Each task taken stays in one hand until it is finished.
LEMMA StepHands == IInv /\ [Next]_vars => Hands'
<1> SUFFICES ASSUME IInv, [Next]_vars PROVE Hands'
  OBVIOUS
<1>0. Taken \in Nat
  BY BoundsAssumption DEF IInv, Queue, Taken, Tasks
<1> USE BoundsAssumption DEF IInv, WorkerTypes, Places, Hands, Tasks, pool, clients, workers
<1>1. CASE Still
  BY <1>1 DEF Still, Taken
<1>2. ASSUME NEW c \in Clients, Submit(c) PROVE Hands'
  <2>1. Taken' = Taken /\ task' = task /\ finished' = finished
    BY <1>2 DEF Submit, Queue, Taken
  <2>2. \A w \in Workers : AtTask(w)' <=> AtTask(w)
    <3>1. wpc' \in WakeOne(wpc)
      BY <1>2 DEF Submit
    <3>2. QED
      BY <3>1, WorkersWake DEF AtTask
  <2>3. QED
    BY <2>1, <2>2
<1>3. ASSUME NEW w \in Workers, Take(w) PROVE Hands'
  <2>0. task[w] = 0
    BY <1>3 DEF Take, AtTask
  <2>1. Head(q) = Taken + 1 /\ Taken' = Taken + 1 /\ Taken + 1 \in Tasks
    BY <1>3 DEF Take, Queue, Taken
  <2>2. task' = [task EXCEPT ![w] = Taken + 1] /\ finished' = finished
    BY <1>3, <2>1 DEF Take
  <2>3. \A v \in Workers : task'[v] # 0 <=> AtTask(v)'
    BY <1>3, <2>1, <2>2 DEF Take, AtTask
  <2>4. \A v \in Workers : task'[v] <= Taken' /\ task'[v] \notin finished'
    BY <1>0, <2>1, <2>2
  <2>5. \A u, v \in Workers : task'[u] = task'[v] /\ task'[u] # 0 => u = v
    BY <1>0, <2>1, <2>2
  <2>6. finished' \subseteq Tasks /\ \A t \in finished' : t <= Taken'
    BY <1>0, <2>1, <2>2
  <2>7. ASSUME NEW t \in 1 .. Taken' PROVE t \in finished' \/ \E v \in Workers : task'[v] = t
    <3>1. CASE t = Taken + 1
      BY <2>2, <3>1
    <3>2. CASE t \in 1 .. Taken
      <4>1. CASE t \in finished
        BY <2>2, <4>1
      <4>2. CASE \E v \in Workers : task[v] = t
        <5>1. PICK v \in Workers : task[v] = t
          BY <4>2
        <5>2. v # w
          BY <2>0, <3>2, <5>1
        <5>3. QED
          BY <2>2, <5>1, <5>2
      <4>3. QED
        BY <3>2, <4>1, <4>2
    <3>3. t = Taken + 1 \/ t \in 1 .. Taken
      BY <1>0, <2>1
    <3>4. QED
      BY <3>1, <3>2, <3>3
  <2>8. QED
    BY <2>3, <2>4, <2>5, <2>6, <2>7
<1>4. ASSUME NEW w \in Workers, Finish(w) PROVE Hands'
  <2>1. /\ Taken' = Taken /\ task' = [task EXCEPT ![w] = 0]
        /\ finished' = finished \cup {task[w]} /\ task[w] # 0
    BY <1>4 DEF Finish, AtTask, Taken
  <2>2. \A v \in Workers : task'[v] # 0 <=> AtTask(v)'
    BY <1>4, <2>1 DEF Finish, AtTask
  <2>3. ASSUME NEW v \in Workers PROVE task'[v] <= Taken' /\ task'[v] \notin finished'
    <3>1. CASE v = w
      BY <1>0, <2>1, <3>1
    <3>2. CASE v # w
      <4>1. task'[v] = task[v] /\ task[v] \notin finished /\ task[v] <= Taken
        BY <2>1, <3>2
      <4>2. task[v] # task[w]
        BY <2>1, <3>2
      <4>3. QED
        BY <2>1, <4>1, <4>2
    <3>3. QED
      BY <3>1, <3>2
  <2>4. \A u, v \in Workers : task'[u] = task'[v] /\ task'[u] # 0 => u = v
    BY <2>1
  <2>5. finished' \subseteq Tasks /\ \A t \in finished' : t <= Taken'
    <3>1. task[w] \in Tasks /\ task[w] <= Taken
      BY <2>1
    <3>2. QED
      BY <2>1, <3>1
  <2>6. \A t \in 1 .. Taken' : t \in finished' \/ \E v \in Workers : task'[v] = t
    BY <2>1
  <2>7. QED
    BY <2>2, <2>3, <2>4, <2>5, <2>6
<1>5. QED
  BY <1>1, <1>2, <1>3, <1>4, MostStepsAreStill

\* The sets whose sizes count are finite.
LEMMA CountedAreFinite == ASSUME IInv PROVE IsFiniteSet(Busy) /\ IsFiniteSet(finished)
<1>1. IsFiniteSet(Busy)
  BY ThreadsAssumption, FS_Subset DEF Busy
<1>2. IsFiniteSet(Tasks)
  BY BoundsAssumption, FS_Interval DEF Tasks
<1>3. QED
  BY <1>1, <1>2, FS_Subset DEF IInv, Hands

\* active_ counts the tasks in hand, and all tasks taken are accounted for.
LEMMA StepCounts == IInv /\ [Next]_vars => Counts'
<1> SUFFICES ASSUME IInv, [Next]_vars PROVE Counts'
  OBVIOUS
<1> USE BoundsAssumption DEF IInv, Queue, WorkerTypes, Counts, Taken, pool, clients, workers
<1>0. IsFiniteSet(Busy) /\ IsFiniteSet(finished) /\ Cardinality(finished) \in Nat
  BY CountedAreFinite, FS_CardinalityType
<1>1. CASE Still
  BY <1>1 DEF Still, Busy
<1>2. ASSUME NEW c \in Clients, Submit(c) PROVE Counts'
  BY <1>2 DEF Submit, Busy
<1>3. ASSUME NEW w \in Workers, Take(w) PROVE Counts'
  <2>1. Head(q) # 0 /\ Len(q') = Len(q) - 1
    BY <1>3 DEF Take, Tasks
  <2>2. Busy' = Busy \cup {w} /\ w \notin Busy
    BY <1>3, <2>1 DEF Take, Busy, Hands, AtTask
  <2>3. Cardinality(Busy') = Cardinality(Busy) + 1
    BY <1>0, <2>2, FS_AddElement
  <2>4. QED
    BY <1>0, <1>3, <2>1, <2>3 DEF Take
<1>4. ASSUME NEW w \in Workers, Finish(w) PROVE Counts'
  <2>1. Busy' = Busy \ {w} /\ w \in Busy
    BY <1>4 DEF Finish, Busy, Hands, AtTask
  <2>2. Cardinality(Busy') = Cardinality(Busy) - 1
    BY <1>0, <2>1, FS_RemoveElement
  <2>3. finished' = finished \cup {task[w]} /\ task[w] \notin finished
    BY <1>4 DEF Finish, Hands
  <2>4. Cardinality(finished') = Cardinality(finished) + 1
    BY <1>0, <2>3, FS_AddElement
  <2>5. IsFiniteSet(Busy') /\ Cardinality(Busy') \in Nat
    BY <1>0, <2>1, FS_RemoveElement, FS_CardinalityType
  <2>6. QED
    BY <1>0, <1>4, <2>2, <2>4, <2>5 DEF Finish
<1>5. QED
  BY <1>1, <1>2, <1>3, <1>4, MostStepsAreStill

-----------------------------------------------------------------------------
\* When the queue is empty and nothing is active, every task accepted is finished.
LEMMA DrainedIsFinished == ASSUME IInv, Drained PROVE 1 .. accepted \subseteq finished
<1>1. Len(q) = 0 /\ Taken = accepted
  BY BoundsAssumption DEF Drained, IInv, Queue, Taken
<1>2. Busy = {}
  BY CountedAreFinite, FS_EmptySet DEF Drained, IInv, Counts
<1>3. QED
  BY <1>1, <1>2 DEF IInv, Hands, Busy, WorkerTypes

\* A wait that passes goes on covering what it was begun for.
LEMMA StepCovered == IInv /\ [Next]_vars => Covered'
<1> SUFFICES ASSUME IInv, [Next]_vars PROVE Covered'
  OBVIOUS
<1> USE BoundsAssumption DEF IInv, Queue, WorkerTypes, ClientTypes, Covered, WaitCovers, Tasks,
    pool, errors, clients, workers
<1>1. ASSUME NEW w \in Workers, Worker(w) PROVE Covered'
  <2>1. CASE Finish(w)
    <3>1. \A c \in Clients : cpc'[c] = "report" => cpc[c] = "report"
      <4>1. cpc' = WakeAll(cpc) \/ cpc' = cpc
        BY <2>1 DEF Finish
      <4>2. QED
        BY <4>1, ClientsWake
    <3>2. QED
      BY <2>1, <3>1 DEF Finish
  <2>2. CASE ~Finish(w)
    BY <1>1, <2>2 DEF Worker, Sleep, Exit, Take, Skip, Run, TaskSucceeds, TaskFails, SetError
  <2>3. QED
    BY <2>1, <2>2
<1>2. ASSUME NEW c \in Clients, WaitSleep(c) \/ WaitReturn(c) PROVE Covered'
  BY <1>2 DEF WaitSleep, WaitReturn
<1>3. ASSUME NEW c \in Clients, WaitPass(c) PROVE Covered'
  <2>1. before[c] \subseteq 1 .. accepted
    OBVIOUS
  <2>2. before[c] \subseteq finished
    BY <1>3, <2>1, DrainedIsFinished DEF WaitPass
  <2>3. QED
    BY <1>3, <2>2 DEF WaitPass
<1>4. ASSUME NEW c \in Clients, Submit(c) \/ RequestCancel(c) \/ Stop(c) PROVE Covered'
  BY <1>4 DEF Submit, RequestCancel, Stop
<1>5. ASSUME NEW c \in Clients, WaitBegin(c) PROVE Covered'
  BY <1>5 DEF WaitBegin
<1>6. CASE Wake
  BY <1>6 DEF Wake
<1>7. CASE UNCHANGED vars
  BY <1>7 DEF vars
<1>8. QED
  BY <1>1, <1>2, <1>3, <1>4, <1>5, <1>6, <1>7 DEF Next, Waiter

\* An error is recorded by the worker that holds its task before it finishes it.
LEMMA StepRecorded == IInv /\ [Next]_vars => Recorded'
<1> SUFFICES ASSUME IInv, [Next]_vars PROVE Recorded'
  OBVIOUS
<1> USE DEF IInv, WorkerTypes, Recorded, pool, errors, clients, workers
<1>1. ASSUME NEW w \in Workers, Worker(w) PROVE Recorded'
  <2>1. CASE TaskFails(w)
    BY <2>1 DEF TaskFails
  <2>2. CASE SetError(w)
    <3>1. firstError' # 0
      BY <2>2 DEF SetError, Hands, AtTask
    <3>2. QED
      BY <2>2, <3>1 DEF SetError
  <2>3. CASE Sleep(w) \/ Exit(w) \/ Take(w) \/ Skip(w) \/ Run(w) \/ TaskSucceeds(w) \/ Finish(w)
    <3>1. failed' = failed /\ firstError' = firstError
      BY <2>3 DEF Sleep, Exit, Take, Skip, Run, TaskSucceeds, Finish
    <3>2. \A v \in Workers : wpc[v] = "error" => wpc'[v] = "error" /\ task'[v] = task[v]
      BY <2>3 DEF Sleep, Exit, Take, Skip, Run, TaskSucceeds, Finish
    <3>3. QED
      BY <3>1, <3>2
  <2>4. QED
    BY <1>1, <2>1, <2>2, <2>3 DEF Worker
<1>2. ASSUME NEW c \in Clients, Waiter(c) \/ RequestCancel(c) \/ WaitBegin(c) PROVE Recorded'
  BY <1>2 DEF Waiter, WaitSleep, WaitPass, WaitReturn, RequestCancel, WaitBegin
<1>3. ASSUME NEW c \in Clients, Submit(c) \/ Stop(c) PROVE Recorded'
  <2>1. failed' = failed /\ firstError' = firstError /\ task' = task
    BY <1>3 DEF Submit, Stop
  <2>2. \A v \in Workers : wpc[v] = "error" => wpc'[v] = "error"
    <3>1. wpc' = WakeAll(wpc) \/ wpc' \in WakeOne(wpc)
      BY <1>3 DEF Submit, Stop
    <3>2. QED
      BY <3>1, WorkersWake
  <2>3. QED
    BY <2>1, <2>2
<1>4. CASE Wake
  BY <1>4 DEF Wake
<1>5. CASE UNCHANGED vars
  BY <1>5 DEF vars
<1>6. QED
  BY <1>1, <1>2, <1>3, <1>4, <1>5 DEF Next

\* A pool begins with nothing to do.
LEMMA InitSound == Init => IInv
<1> SUFFICES ASSUME Init PROVE IInv
  OBVIOUS
<1> USE BoundsAssumption DEF Init
<1>1. Flags
  BY Zenon DEF Flags
<1>2. WorkerTypes /\ ClientTypes /\ Queue /\ Hands /\ Covered /\ Recorded
  BY DEF WorkerTypes, ClientTypes, Places, Queue, Hands, Covered, WaitCovers, Recorded, Taken,
         AtTask, Tasks
<1>3. Counts
  <2>1. Busy = {}
    BY DEF Busy
  <2>2. QED
    BY <2>1, FS_EmptySet DEF Counts, Taken
<1>4. QED
  BY <1>1, <1>2, <1>3 DEF IInv

LEMMA Inductive == Spec => []IInv
<1>1. IInv /\ [Next]_vars => IInv'
  BY StepFlags, StepWorkerTypes, StepClientTypes, StepQueue, StepHands, StepCounts, StepCovered,
     StepRecorded DEF IInv
<1>2. QED
  BY <1>1, InitSound, PTL DEF Spec

\* Each task accepted is in the queue, in the hand of one worker or finished, active_ counts
\* those in hand, and a wait that passes has waited for all tasks accepted before it began.
THEOREM PoolKeepsTasks == Spec => []TasksSound
<1>1. IInv => TypeOK
  <2> SUFFICES ASSUME IInv PROVE TypeOK
    OBVIOUS
  <2>1. Cardinality(Busy) <= Cardinality(Workers)
    BY ThreadsAssumption, FS_Subset DEF Busy
  <2>2. active \in 0 .. Cardinality(Workers)
    BY <2>1, ThreadsAssumption, FS_CardinalityType DEF IInv, Counts
  <2>3. finished \subseteq Tasks /\ q \in Seq(Tasks) /\ accepted \in 0 .. MaxTasks
    BY DEF IInv, Hands, Queue
  <2>4. stopping \in BOOLEAN /\ cancel \in BOOLEAN
    BY DEF IInv, Flags
  <2>5. QED
    BY <2>2, <2>3, <2>4, Zenon DEF TypeOK, IInv, WorkerTypes, ClientTypes, Places
<1>2. IInv => TasksConserved
  <2> SUFFICES ASSUME IInv PROVE TasksConserved
    OBVIOUS
  <2>1. /\ accepted \in Nat /\ Len(q) \in Nat /\ Taken \in Nat /\ Taken <= accepted
        /\ Taken = accepted - Len(q) /\ DOMAIN q = 1 .. Len(q)
        /\ \A i \in 1 .. Len(q) : q[i] = Taken + i
    BY BoundsAssumption DEF IInv, Queue, Taken, Tasks
  <2>2. ToSet(q) = (Taken + 1) .. accepted
    <3>1. ASSUME NEW t \in (Taken + 1) .. accepted PROVE t \in ToSet(q)
      <4>1. t - Taken \in 1 .. Len(q) /\ q[t - Taken] = t
        BY <2>1
      <4>2. QED
        BY <2>1, <4>1 DEF ToSet
    <3>2. ASSUME NEW t \in ToSet(q) PROVE t \in (Taken + 1) .. accepted
      BY <2>1 DEF ToSet
    <3>3. QED
      BY <3>1, <3>2
  <2>3. InHand \cup finished = 1 .. Taken
    <3>1. ASSUME NEW w \in Workers, task[w] # 0 PROVE task[w] \in 1 .. Taken
      BY <2>1, <3>1, BoundsAssumption DEF IInv, Hands, WorkerTypes, Tasks
    <3>2. ASSUME NEW t \in finished PROVE t \in 1 .. Taken
      BY <2>1, BoundsAssumption DEF IInv, Hands, Tasks
    <3>3. \A t \in 1 .. Taken : t \in InHand \cup finished
      BY DEF IInv, InHand, Hands
    <3>4. QED
      BY <3>1, <3>2, <3>3 DEF InHand
  <2>4. accepted = Len(q) + active + Cardinality(finished)
    <3>1. Cardinality(finished) \in Nat
      BY CountedAreFinite, FS_CardinalityType
    <3>2. active \in Nat /\ Taken = active + Cardinality(finished)
      BY DEF IInv, Counts
    <3>3. QED
      BY <2>1, <3>1, <3>2
  <2>5. 1 .. accepted = 1 .. Taken \cup (Taken + 1) .. accepted
    BY <2>1
  <2>6. 1 .. accepted = ToSet(q) \cup InHand \cup finished
    BY <2>2, <2>3, <2>5
  <2>7. active = Cardinality({w \in Workers : task[w] # 0})
    BY DEF IInv, Counts, Busy
  <2>8. QED
    BY <2>4, <2>6, <2>7, Zenon DEF TasksConserved
<1>3. IInv => TasksSound
  BY <1>1, <1>2 DEF TasksSound, IInv, Covered
<1>4. QED
  BY <1>3, Inductive, PTL

\* The error of a task that is through is on record.
THEOREM PoolKeepsErrors == Spec => []ErrorsKept
<1>1. IInv => ErrorsKept
  <2> SUFFICES ASSUME IInv, NEW t \in failed \cap finished PROVE firstError # 0
    BY DEF ErrorsKept
  <2>1. \A w \in Workers : task[w] # t
    BY DEF IInv, Hands
  <2>2. QED
    BY <2>1 DEF IInv, Recorded
<1>2. QED
  BY <1>1, Inductive, PTL
=============================================================================
