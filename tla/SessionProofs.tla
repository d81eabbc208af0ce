---------------------------- MODULE SessionProofs ----------------------------
(***************************************************************************)
(* Proofs about sessions.  FlashSession, for any number of start commands  *)
(* and of screens: the service goes with its work, its wake lock and its   *)
(* watchdog with it but in the cases named there, and a screen that lives  *)
(* on has one flash at a time.                                             *)
(* OdinCommands, for any plan, transport, number of attempts and PIT: a    *)
(* session that was closed with success had every command done, and none   *)
(* of them took an answer that was meant for another.                      *)
(***************************************************************************)
EXTENDS FlashSession, OdinCommands, FiniteSetTheorems, SequenceTheorems, TLAPS

-----------------------------------------------------------------------------
\* The flash session of the app.

\* Commands are numbered in order: those that wait are the last ones given out, and a
\* thread has the number of a command that was delivered.
Delivered == lastId - Len(queue)
Numbered ==
  /\ Len(queue) <= lastId
  /\ \A i \in 1 .. Len(queue) : queue[i].id = Delivered + i
  /\ \A t \in Ids : t > Delivered => thread[t] = "none"

\* A thread belongs to the service object that started it; an object was made for a
\* command that was delivered.
Owned ==
  /\ inst <= Delivered /\ (alive => inst > 0)
  /\ \A t \in Ids : IF thread[t] = "none" THEN owner[t] = 0 ELSE owner[t] \in 1 .. inst

\* A service that waits for nothing has the thread of the last command, which will
\* stop it.
Departing == {"leaving", "releasing", "clearing"}
Kept ==
  alive /\ ~destroying /\ queue = << >> =>
    \E t \in Ids : /\ t = lastId /\ owner[t] = inst
                  /\ thread[t] \in {"starting", "new", "open", "native", "finally"} \cup Departing

\* While onStartCommand acquires a lock its service object is there, and no other lock is
\* in its field.  A lock that is held is in the field of its service object, which is
\* there, and its thread has not come to release it, unless another thread of that object
\* came between.
LockKept ==
  /\ \A t \in Ids : thread[t] = "starting" => alive /\ owner[t] = inst /\ wakeLock[inst] \in {0, t}
  /\ \A l \in held :
       /\ thread[l] \notin {"none", "starting"}
       /\ Shared(l) \/ (/\ alive /\ owner[l] = inst /\ wakeLock[inst] = l
                        /\ thread[l] \notin {"clearing", "done"})

\* A callback in the looper, or running there, is the one its service object knows, unless
\* another thread of that object came between or it was running when it was stopped.
Dogs == watched \cup ({ticking} \ {0})
Guards(t) == watchdog[owner[t]] = t /\ thread[t] \in {"open", "native", "finally"}
Guarded ==
  \A t \in Dogs :
    /\ thread[t] \in {"open", "native", "finally", "done"} \cup Departing
    /\ Guards(t) \/ Shared(t) \/ t \in overtaken

\* A flash is under way from the command that asks for it to the end of its native
\* session, which posts the end before the screen can lower its flag.
Starts  == {queue[i].id : i \in {i \in 1 .. Len(queue) : queue[i].kind = "start"}}
Flights == Starts \cup Running
OneFlight ==
  /\ ~sessionActive
  /\ reopens = 0 =>
       /\ \A t, u \in Flights : t = u
       /\ posted \/ ~inProgress => Flights = {}
       /\ posted => inProgress

SessionInv == SessionTypes /\ Numbered /\ Owned /\ Kept /\ LockKept /\ Guarded /\ OneFlight

-----------------------------------------------------------------------------
(***************************************************************************)
(* The queue of commands.                                                  *)
(***************************************************************************)

\* A command that is sent is the last of the queue.
LEMMA Sends ==
  ASSUME SessionInv, NEW kind \in {"start", "cancel", "plain"}, StartService(kind)
  PROVE  /\ lastId' = lastId + 1 /\ lastId' \in Ids
         /\ queue' \in Seq(Command) /\ Len(queue') = Len(queue) + 1
         /\ \A i \in 1 .. Len(queue) : queue'[i] = queue[i]
         /\ queue'[Len(queue')] = [kind |-> kind, id |-> lastId']
         /\ queue' # << >>
<1> DEFINE c == [kind |-> kind, id |-> lastId + 1]
<1>1. /\ lastId \in Nat /\ MaxSends \in Nat /\ lastId < MaxSends /\ lastId' = lastId + 1
      /\ queue' = Append(queue, c) /\ queue \in Seq(Command)
  BY BoundsAssumption DEF SessionInv, SessionTypes, StartService
<1>2. lastId' \in Ids /\ c \in Command /\ c = [kind |-> kind, id |-> lastId']
  BY <1>1 DEF Ids, Command
<1> HIDE DEF c
<1>3. QED
  BY <1>1, <1>2

\* A command that is delivered is the first of the queue.
LEMMA Delivers ==
  ASSUME SessionInv, NEW kind \in {"start", "cancel", "plain"}, Deliver(kind)
  PROVE  /\ queue # << >> /\ queue' \in Seq(Command) /\ Len(queue) = Len(queue') + 1
         /\ Head(queue) = queue[1] /\ queue[1].kind = kind /\ queue[1].id = Delivered + 1
         /\ \A i \in 1 .. Len(queue') : queue'[i] = queue[i + 1]
         /\ Delivered' = Delivered + 1 /\ Delivered' \in Ids /\ Delivered \in Nat
         /\ lastId' = lastId /\ (queue' = << >> => lastId = Delivered + 1)
<1>1. queue # << >> /\ queue' = Tail(queue) /\ queue \in Seq(Command) /\ lastId' = lastId
  BY DEF SessionInv, SessionTypes, Deliver
<1>2. Len(queue) \in Nat /\ Len(queue) > 0 /\ Head(queue) = queue[1] /\ queue[1].kind = kind
  BY <1>1 DEF Deliver
<1>3. /\ queue' \in Seq(Command) /\ Len(queue') = Len(queue) - 1
      /\ \A i \in 1 .. Len(queue') : queue'[i] = queue[i + 1]
  BY <1>1, <1>2
<1>4. /\ lastId \in Nat /\ MaxSends \in Nat /\ lastId <= MaxSends /\ Len(queue) <= lastId
      /\ queue[1].id = Delivered + 1
  BY <1>2, BoundsAssumption DEF SessionInv, SessionTypes, Numbered
<1>5. Delivered' = Delivered + 1 /\ Delivered \in Nat /\ Delivered + 1 <= MaxSends
  BY <1>1, <1>2, <1>3, <1>4 DEF Delivered
<1>6. queue' = << >> => Len(queue') = 0
  OBVIOUS
<1>7. QED
  BY <1>1, <1>2, <1>3, <1>4, <1>5, <1>6 DEF Ids, Delivered

\* Its number is one no thread has.
LEMMA HeadIsNew ==
  ASSUME SessionInv, NEW kind \in {"start", "cancel", "plain"}, Deliver(kind)
  PROVE  /\ Head(queue).id \in Ids /\ Head(queue).id = Delivered + 1
         /\ thread[Head(queue).id] = "none" /\ owner[Head(queue).id] = 0
<1>1. Head(queue).id = Delivered + 1 /\ Delivered + 1 \in Ids /\ Delivered \in Nat
  BY Delivers
<1>2. Delivered + 1 > Delivered
  BY <1>1
<1>3. QED
  BY <1>1, <1>2 DEF SessionInv, Numbered, Owned

\* What is asked for: one more after a start, the same after another command.
LEMMA SendsStart ==
  ASSUME SessionInv, NEW kind \in {"start", "cancel", "plain"}, StartService(kind)
  PROVE  Starts' = Starts \cup (IF kind = "start" THEN {lastId'} ELSE {})
<1>1. Len(queue) \in Nat
  BY DEF SessionInv, SessionTypes
<1>2. /\ Len(queue') = Len(queue) + 1
      /\ \A i \in 1 .. Len(queue) : queue'[i] = queue[i]
      /\ queue'[Len(queue')] = [kind |-> kind, id |-> lastId']
  BY Sends
<1>3. QED
  BY <1>1, <1>2 DEF Starts

LEMMA DeliversStart ==
  ASSUME SessionInv, NEW kind \in {"start", "cancel", "plain"}, Deliver(kind)
  PROVE  Starts = Starts' \cup (IF kind = "start" THEN {Head(queue).id} ELSE {})
<1>1. /\ Len(queue) = Len(queue') + 1 /\ Len(queue') \in Nat /\ Head(queue) = queue[1] /\ queue[1].kind = kind
      /\ \A i \in 1 .. Len(queue') : queue'[i] = queue[i + 1]
  BY Delivers
<1>2. Starts' \cup (IF kind = "start" THEN {Head(queue).id} ELSE {}) \subseteq Starts
  <2>1. \A i \in 1 .. Len(queue') : i + 1 \in 1 .. Len(queue) /\ queue[i + 1] = queue'[i]
    BY <1>1
  <2>2. 1 \in 1 .. Len(queue)
    BY <1>1
  <2>3. QED
    BY <1>1, <2>1, <2>2 DEF Starts
<1>3. ASSUME NEW i \in 1 .. Len(queue), queue[i].kind = "start"
      PROVE  queue[i].id \in Starts' \cup (IF kind = "start" THEN {Head(queue).id} ELSE {})
  <2>1. CASE i = 1
    BY <1>1, <1>3, <2>1
  <2>2. CASE i # 1
    <3>1. i - 1 \in 1 .. Len(queue') /\ queue'[i - 1] = queue[(i - 1) + 1] /\ (i - 1) + 1 = i
      BY <1>1, <2>2
    <3>2. QED
      BY <1>3, <3>1 DEF Starts
  <2>3. QED
    BY <2>1, <2>2
<1>4. QED
  BY <1>2, <1>3 DEF Starts

-----------------------------------------------------------------------------
(***************************************************************************)
(* The steps.                                                              *)
(***************************************************************************)

\* No session is ever told to the store, so that there is none to cancel there.
LEMMA NothingToCancel == SessionInv /\ CancelSession => UNCHANGED store
BY DEF SessionInv, OneFlight, CancelSession

\* The object that a thread belongs to.
LEMMA OwnerExists ==
  ASSUME SessionInv, NEW t \in Ids, thread[t] # "none"
  PROVE  owner[t] \in Ids /\ owner[t] \in 1 .. inst
BY BoundsAssumption DEF SessionInv, SessionTypes, Owned, Ids

LEMMA InitInv == SessionInit => SessionInv
<1> SUFFICES ASSUME SessionInit PROVE SessionInv
  OBVIOUS
<1> USE BoundsAssumption DEF Ids
<1>1. SessionTypes
  <2>1. /\ inProgress \in BOOLEAN /\ posted \in BOOLEAN /\ sessionActive \in BOOLEAN
        /\ alive \in BOOLEAN /\ destroying \in BOOLEAN /\ session \in BOOLEAN
        /\ foreground \in BOOLEAN
        /\ ~(destroying \/ session \/ foreground)
    BY Zenon DEF SessionInit
  <2>2. queue = << >> /\ lastId = 0 /\ inst = 0 /\ reopens = 0 /\ watched = {}
        /\ held = {} /\ ticking = 0 /\ overtaken = {}
    BY Zenon DEF SessionInit
  <2>3. /\ thread \in [Ids -> ThreadStates] /\ wakeLock \in [Ids -> {0} \cup Ids]
        /\ owner \in [Ids -> 0 .. MaxSends] /\ watchdog \in [Ids -> {0} \cup Ids]
    BY DEF SessionInit, ThreadStates
  <2>4. queue \in Seq(Command)
    BY <2>2
  <2>5. QED
    BY <2>1, <2>2, <2>3, <2>4 DEF SessionTypes
<1>2. Len(queue) = 0 /\ Delivered = 0
  <2>1. queue = << >>
    BY Zenon DEF SessionInit
  <2>2. Len(queue) = 0
    BY <2>1
  <2>3. lastId = 0
    BY Zenon DEF SessionInit
  <2>4. QED
    BY <2>2, <2>3 DEF Delivered
<1>3. Numbered /\ Kept /\ LockKept /\ Guarded
  BY <1>2 DEF SessionInit, Numbered, Kept, LockKept, Guarded, Dogs
<1>4. Owned
  BY <1>2 DEF SessionInit, Owned
<1>5. Flights = {}
  BY <1>2 DEF SessionInit, Flights, Starts, Running
<1>6. QED
  BY <1>1, <1>3, <1>4, <1>5 DEF SessionInit, SessionInv, OneFlight

\* What a step does to commands, service objects and threads: a command is sent, or
\* delivered, or delivered and accepted; a thread goes on; or nothing.
Sent(kind)      == StartService(kind) /\ UNCHANGED <<service, threads>>
Dropped(kind)   == Deliver(kind) /\ UNCHANGED threads
Advanced(t, to) == /\ thread[t] # "none" /\ thread' = [thread EXCEPT ![t] = to]
                   /\ UNCHANGED <<queue, lastId, alive, inst, owner>>
Untouched       == (alive' => alive) /\ UNCHANGED <<queue, lastId, inst, thread, owner>>

Onward == {"new", "open", "native", "finally", "leaving", "releasing", "clearing", "done"}

LEMMA StepKinds ==
  ASSUME [SessionNext]_sessionVars
  PROVE  \/ \E kind \in {"start", "cancel", "plain"} : Sent(kind) \/ Dropped(kind)
         \/ OnStart
         \/ \E t \in Ids : \E to \in Onward : Advanced(t, to)
         \/ Untouched
<1> DEFINE Kinds == {"start", "cancel", "plain"}
<1>1. CASE StartFlash \/ CancelFlash \/ Reopen \/ Detach
  <2>1. \E kind \in Kinds : Sent(kind)
    BY <1>1 DEF StartFlash, CancelFlash, Reopen, Detach, Sent
  <2>2. QED
    BY <2>1
<1>2. CASE OnPlain \/ OnCancel \/ OnStartRejected \/ OnStartNotPromoted
  <2>1. \E kind \in Kinds : Dropped(kind)
    BY <1>2 DEF OnPlain, OnCancel, OnStartRejected, OnStartNotPromoted, Dropped
  <2>2. QED
    BY <2>1
<1>3. ASSUME NEW t \in Ids, ThreadStep(t) \/ AcquireLock(t) PROVE \E to \in Onward : Advanced(t, to)
  <2> USE DEF Onward, Advanced, service
  <2>1. CASE AcquireLock(t)
    BY <2>1 DEF AcquireLock
  <2>2. CASE StartWatchdog(t)
    BY <2>2 DEF StartWatchdog
  <2>3. CASE OpenFails(t) \/ EnterNative(t) \/ NativeReturns(t)
    BY <2>3 DEF OpenFails, EnterNative, NativeReturns
  <2>4. CASE Finally(t)
    BY <2>4 DEF Finally
  <2>5. CASE FindLock(t) \/ ReleaseLock(t)
    BY <2>5 DEF FindLock, ReleaseLock
  <2>6. CASE ClearLock(t)
    BY <2>6 DEF ClearLock, Leave
  <2>7. QED
    BY <1>3, <2>1, <2>2, <2>3, <2>4, <2>5, <2>6 DEF ThreadStep
<1>4. CASE ObserveFinished \/ OnDestroy \/ UNCHANGED sessionVars
  BY <1>4 DEF ObserveFinished, OnDestroy, sessionVars, service, threads, Untouched
<1>5. ASSUME NEW t \in Ids, TickBegin(t) \/ TickAgain(t) \/ TickFires(t) PROVE Untouched
  BY <1>5 DEF TickBegin, TickAgain, TickFires, service, Untouched
<1>6. QED
  BY <1>1, <1>2, <1>3, <1>4, <1>5 DEF SessionNext, Handlers, MainEnds

\* Commands keep their numbers, and a thread takes that of the command it is made for.
LEMMA StepNumbered ==
  ASSUME SessionInv, [SessionNext]_sessionVars
  PROVE  Numbered'
<1> USE DEF SessionInv
<1>0. Len(queue) \in Nat /\ lastId \in Nat /\ Delivered \in Nat
  BY DEF SessionTypes, Numbered, Delivered
<1>1. ASSUME NEW kind \in {"start", "cancel", "plain"}, Sent(kind) PROVE Numbered'
  <2>1. /\ lastId' = lastId + 1 /\ Len(queue') = Len(queue) + 1
        /\ \A i \in 1 .. Len(queue) : queue'[i] = queue[i]
        /\ queue'[Len(queue')] = [kind |-> kind, id |-> lastId']
    BY <1>1, Sends DEF Sent
  <2>2. Delivered' = Delivered /\ Delivered' + Len(queue') = lastId'
    BY <1>0, <2>1 DEF Delivered
  <2>3. ASSUME NEW i \in 1 .. Len(queue') PROVE queue'[i].id = Delivered' + i
    <3>1. CASE i = Len(queue')
      BY <2>1, <2>2, <3>1
    <3>2. CASE i # Len(queue')
      <4>1. i \in 1 .. Len(queue)
        BY <1>0, <2>1, <3>2
      <4>2. QED
        BY <2>1, <2>2, <4>1 DEF Numbered
    <3>3. QED
      BY <3>1, <3>2
  <2>4. thread' = thread
    BY <1>1 DEF Sent, threads
  <2>5. QED
    BY <1>0, <2>1, <2>2, <2>3, <2>4 DEF Numbered
<1>2. ASSUME NEW kind \in {"start", "cancel", "plain"}, Deliver(kind),
             \A t \in Ids : t # Head(queue).id => thread'[t] = thread[t]
      PROVE  Numbered'
  <2>1. /\ Len(queue) = Len(queue') + 1 /\ lastId' = lastId /\ Delivered' = Delivered + 1
        /\ \A i \in 1 .. Len(queue') : queue'[i] = queue[i + 1]
        /\ Len(queue') \in Nat
    BY <1>2, Delivers
  <2>2. Head(queue).id = Delivered + 1
    BY <1>2, HeadIsNew
  <2>3. ASSUME NEW i \in 1 .. Len(queue') PROVE queue'[i].id = Delivered' + i
    <3>1. i + 1 \in 1 .. Len(queue) /\ queue'[i] = queue[i + 1]
      BY <2>1
    <3>2. queue[i + 1].id = Delivered + (i + 1)
      BY <3>1 DEF Numbered
    <3>3. QED
      BY <1>0, <2>1, <3>1, <3>2
  <2>4. ASSUME NEW t \in Ids, t > Delivered' PROVE thread'[t] = "none"
    <3>1. t > Delivered /\ t # Head(queue).id
      BY <1>0, <2>1, <2>2, <2>4, BoundsAssumption DEF Ids
    <3>2. QED
      BY <1>2, <3>1 DEF Numbered
  <2>5. QED
    BY <1>0, <2>1, <2>3, <2>4 DEF Numbered
<1>3. ASSUME NEW kind \in {"start", "cancel", "plain"}, Dropped(kind) PROVE Numbered'
  BY <1>2, <1>3 DEF Dropped, threads
<1>4. CASE OnStart
  <2>1. PICK to : Deliver("start") /\ thread' = [thread EXCEPT ![Head(queue).id] = to]
    BY <1>4 DEF OnStart
  <2>2. \A t \in Ids : t # Head(queue).id => thread'[t] = thread[t]
    BY <2>1 DEF SessionTypes
  <2>3. QED
    BY <1>2, <2>1, <2>2
<1>5. ASSUME NEW t \in Ids, NEW to \in Onward, Advanced(t, to)
      PROVE  Numbered'
  BY <1>5 DEF Advanced, Numbered, Delivered, SessionTypes
<1>6. CASE Untouched
  BY <1>6 DEF Untouched, Numbered, Delivered
<1>7. QED
  BY <1>1, <1>3, <1>4, <1>5, <1>6, StepKinds

\* The objects made are no more than the commands delivered.
LEMMA StepOwned ==
  ASSUME SessionInv, [SessionNext]_sessionVars
  PROVE  Owned'
<1> USE DEF SessionInv
<1>0. inst \in Nat /\ inst <= Delivered /\ Delivered \in Nat
  BY BoundsAssumption DEF SessionTypes, Owned, Numbered, Delivered
<1>1. ASSUME NEW kind \in {"start", "cancel", "plain"}, Sent(kind) PROVE Owned'
  <2>1. lastId' = lastId + 1 /\ Len(queue') = Len(queue) + 1
    BY <1>1, Sends DEF Sent
  <2>2. lastId \in Nat /\ Len(queue) \in Nat
    BY DEF SessionTypes
  <2>3. Delivered' = Delivered
    BY <2>1, <2>2 DEF Delivered
  <2>4. QED
    BY <1>1, <2>3 DEF Sent, service, threads, Owned
<1>2. ASSUME NEW kind \in {"start", "cancel", "plain"}, Deliver(kind)
      PROVE  inst' \in 1 .. Delivered' /\ inst <= inst'
  <2>1. Delivered' = Delivered + 1
    BY <1>2, Delivers
  <2>2. QED
    BY <1>0, <1>2, <2>1 DEF Deliver, Owned
<1>3. ASSUME NEW kind \in {"start", "cancel", "plain"}, Dropped(kind) PROVE Owned'
  <2>1. inst' \in 1 .. Delivered' /\ inst <= inst' /\ UNCHANGED <<thread, owner>>
    BY <1>2, <1>3 DEF Dropped, threads
  <2>2. QED
    BY <1>0, <2>1 DEF Owned
<1>4. CASE OnStart
  <2> DEFINE h == Head(queue).id
  <2>1. inst' \in 1 .. Delivered' /\ inst <= inst'
    BY <1>2, <1>4 DEF OnStart
  <2>2. PICK to \in {"starting", "new"} :
          /\ thread' = [thread EXCEPT ![h] = to] /\ owner' = [owner EXCEPT ![h] = inst']
          /\ h \in Ids
    BY <1>4, HeadIsNew DEF OnStart
  <2>3. ASSUME NEW t \in Ids
        PROVE  IF thread'[t] = "none" THEN owner'[t] = 0 ELSE owner'[t] \in 1 .. inst'
    <3>1. CASE t = h
      BY <1>0, <2>1, <2>2, <3>1 DEF SessionTypes
    <3>2. CASE t # h
      <4>1. thread'[t] = thread[t] /\ owner'[t] = owner[t]
        BY <2>2, <3>2 DEF SessionTypes
      <4>2. QED
        BY <1>0, <2>1, <4>1 DEF Owned
    <3>3. QED
      BY <3>1, <3>2
  <2>4. QED
    BY <1>0, <2>1, <2>3 DEF Owned
<1>5. ASSUME NEW t \in Ids, NEW to \in Onward, Advanced(t, to)
      PROVE  Owned'
  BY <1>5 DEF Onward, Advanced, Owned, Delivered, SessionTypes
<1>6. CASE Untouched
  BY <1>6 DEF Untouched, Owned, Delivered
<1>7. QED
  BY <1>1, <1>3, <1>4, <1>5, <1>6, StepKinds

\* The types, in parts.
ScreenTypes ==
  /\ inProgress \in BOOLEAN /\ reopens \in 0 .. MaxReopens
  /\ posted \in BOOLEAN /\ sessionActive \in BOOLEAN
QueueTypes == queue \in Seq(Command) /\ lastId \in 0 .. MaxSends /\ inst \in 0 .. MaxSends
ServiceTypes ==
  /\ alive \in BOOLEAN /\ destroying \in BOOLEAN /\ session \in BOOLEAN
  /\ foreground \in BOOLEAN
  /\ ~alive => ~(destroying \/ session \/ foreground)
LockTypes == wakeLock \in [Ids -> {0} \cup Ids] /\ held \subseteq Ids
ThreadTypes ==
  /\ thread \in [Ids -> ThreadStates]
  /\ owner \in [Ids -> 0 .. MaxSends]
  /\ watched \subseteq Ids /\ watchdog \in [Ids -> {0} \cup Ids]
  /\ ticking \in {0} \cup Ids /\ overtaken \subseteq Ids

LEMMA TypeParts ==
  SessionTypes <=> ScreenTypes /\ QueueTypes /\ ServiceTypes /\ LockTypes /\ ThreadTypes
BY DEF SessionTypes, ScreenTypes, QueueTypes, ServiceTypes, LockTypes, ThreadTypes

LEMMA StepScreenTypes ==
  ASSUME SessionInv, [SessionNext]_sessionVars
  PROVE  ScreenTypes'
<1> USE TypeParts DEF SessionInv, ScreenTypes, SetFinished
<1>1. CASE StartFlash \/ CancelFlash
  BY <1>1 DEF StartFlash, CancelFlash, screen, store
<1>2. CASE ObserveFinished
  BY <1>2 DEF ObserveFinished
<1>3. CASE Reopen
  <2>1. reopens' \in 0 .. MaxReopens
    BY <1>3, BoundsAssumption DEF Reopen
  <2>2. inProgress' \in BOOLEAN /\ UNCHANGED store
    BY <1>3 DEF Reopen
  <2>3. QED
    BY <2>1, <2>2 DEF store
<1>4. CASE Detach
  BY <1>4, NothingToCancel DEF Detach, screen, store
<1>5. CASE Handlers
  <2>1. UNCHANGED screen
    BY <1>5 DEF Handlers, OnPlain, OnCancel, OnStartRejected, OnStartNotPromoted, OnStart, OnDestroy, Deliver
  <2>2. UNCHANGED store \/ SetFinished
    BY <1>5, NothingToCancel
       DEF Handlers, OnPlain, OnCancel, OnStartRejected, OnStartNotPromoted, OnStart, OnDestroy
  <2>3. QED
    BY <2>1, <2>2 DEF screen, store
<1>6. ASSUME NEW t \in Ids, ThreadStep(t) PROVE ScreenTypes'
  BY <1>6
     DEF ThreadStep, StartWatchdog, OpenFails, EnterNative, NativeReturns, Finally, FindLock, ReleaseLock,
         ClearLock, Leave, screen, store
<1>8. ASSUME NEW t \in Ids, TickBegin(t) \/ MainEnds(t) PROVE ScreenTypes'
  BY <1>8, NothingToCancel DEF TickBegin, MainEnds, AcquireLock, TickAgain, TickFires, screen, store
<1>7. CASE UNCHANGED sessionVars
  BY <1>7 DEF sessionVars, screen, store
<1>9. QED
  BY <1>1, <1>2, <1>3, <1>4, <1>5, <1>6, <1>7, <1>8 DEF SessionNext

LEMMA StepQueueTypes ==
  ASSUME SessionInv, [SessionNext]_sessionVars
  PROVE  QueueTypes'
<1> DEFINE Counts == queue' \in Seq(Command) /\ lastId' \in 0 .. MaxSends /\ inst' \in Nat
<1>1. queue \in Seq(Command) /\ lastId \in 0 .. MaxSends /\ inst \in Nat
  BY BoundsAssumption DEF SessionInv, SessionTypes
<1>2. ASSUME NEW kind \in {"start", "cancel", "plain"}, Sent(kind) PROVE Counts
  BY <1>1, <1>2, Sends, BoundsAssumption DEF Sent, service, Ids
<1>3. ASSUME NEW kind \in {"start", "cancel", "plain"}, Deliver(kind) PROVE Counts
  BY <1>1, <1>3, Delivers DEF Deliver
<1>4. UNCHANGED <<queue, lastId, inst>> => Counts
  BY <1>1
<1> HIDE DEF Counts
<1>5. Counts
  BY <1>2, <1>3, <1>4, StepKinds DEF Dropped, OnStart, Advanced, Untouched
<1>6. inst' <= lastId' - Len(queue')
  BY StepOwned DEF Owned, Delivered
<1>7. Len(queue') \in Nat
  BY <1>5 DEF Counts
<1>8. QED
  BY <1>5, <1>6, <1>7, BoundsAssumption DEF Counts, QueueTypes

LEMMA StepServiceTypes ==
  ASSUME SessionInv, [SessionNext]_sessionVars
  PROVE  ServiceTypes'
<1> USE TypeParts DEF SessionInv, ServiceTypes
<1>1. CASE StartFlash \/ CancelFlash \/ ObserveFinished \/ Reopen \/ Detach \/ UNCHANGED sessionVars
  BY <1>1 DEF StartFlash, CancelFlash, ObserveFinished, Reopen, Detach, sessionVars, service
<1>2. CASE OnPlain \/ OnCancel
  BY <1>2 DEF OnPlain, OnCancel, Deliver, Promote, StopSelf
<1>3. CASE OnStartRejected \/ OnStart
  BY <1>3 DEF OnStartRejected, OnStart, Deliver, StopSelf
<1>4. CASE OnStartNotPromoted
  BY <1>4 DEF OnStartNotPromoted, Deliver, Promote, StopSelf
<1>5. CASE OnDestroy
  BY <1>5 DEF OnDestroy
<1>6. ASSUME NEW t \in Ids, ThreadStep(t) PROVE ServiceTypes'
  <2>1. CASE Finally(t)
    BY <2>1 DEF Finally, Mine
  <2>2. CASE ClearLock(t)
    BY <2>2 DEF ClearLock, Leave, Mine, StopSelf
  <2>3. CASE ~Finally(t) /\ ~ClearLock(t)
    BY <1>6, <2>3
       DEF ThreadStep, StartWatchdog, OpenFails, EnterNative, NativeReturns, FindLock, ReleaseLock, service
  <2>4. QED
    BY <2>1, <2>2, <2>3
<1>7. ASSUME NEW t \in Ids, TickBegin(t) \/ MainEnds(t) PROVE ServiceTypes'
  BY <1>7 DEF TickBegin, MainEnds, AcquireLock, TickAgain, TickFires, service
<1>8. QED
  BY <1>1, <1>2, <1>3, <1>4, <1>5, <1>6, <1>7 DEF SessionNext, Handlers

\* Onward of the main thread that leave threads, locks and watchdogs alone.
LEMMA MainLeaves ==
  ASSUME \/ StartFlash \/ CancelFlash \/ ObserveFinished \/ Reopen \/ Detach
         \/ OnPlain \/ OnCancel \/ OnStartRejected \/ OnStartNotPromoted \/ UNCHANGED sessionVars
  PROVE  UNCHANGED <<locks, threads>>
BY DEF StartFlash, CancelFlash, ObserveFinished, Reopen, Detach, OnPlain, OnCancel, OnStartRejected,
       OnStartNotPromoted, sessionVars

LEMMA StepLockTypes ==
  ASSUME SessionInv, [SessionNext]_sessionVars
  PROVE  LockTypes'
<1> USE TypeParts DEF SessionInv, LockTypes, locks
<1>1. CASE OnStart
  BY <1>1, HeadIsNew DEF OnStart
<1>2. CASE OnDestroy
  BY <1>2 DEF OnDestroy
<1>3. ASSUME NEW t \in Ids, ThreadStep(t) PROVE LockTypes'
  BY <1>3
     DEF ThreadStep, StartWatchdog, OpenFails, EnterNative, NativeReturns, Finally, FindLock, ReleaseLock,
         ClearLock
<1>4. ASSUME NEW t \in Ids, AcquireLock(t) PROVE LockTypes'
  <2>1. owner[t] \in Ids
    BY <1>4, OwnerExists DEF AcquireLock
  <2>2. QED
    BY <1>4, <2>1 DEF AcquireLock
<1>5. ASSUME NEW t \in Ids, TickBegin(t) \/ TickAgain(t) \/ TickFires(t) PROVE LockTypes'
  BY <1>5 DEF TickBegin, TickAgain, TickFires
<1>6. QED
  BY <1>1, <1>2, <1>3, <1>4, <1>5, MainLeaves DEF SessionNext, Handlers, MainEnds

LEMMA StepThreadTypes ==
  ASSUME SessionInv, [SessionNext]_sessionVars
  PROVE  ThreadTypes'
<1> USE TypeParts DEF SessionInv, ThreadTypes, ThreadStates
<1>1. CASE UNCHANGED threads
  BY <1>1 DEF threads, dogs
<1>2. CASE OnDestroy
  BY <1>1, <1>2 DEF OnDestroy
<1>3. CASE OnStart
  <2>1. inst' \in 0 .. MaxSends
    BY <1>3, StepQueueTypes DEF QueueTypes
  <2>2. QED
    BY <1>3, <2>1, HeadIsNew DEF OnStart, dogs
<1>4. ASSUME NEW t \in Ids, StopWatchdog(owner[t])
      PROVE  watched' \subseteq Ids /\ watchdog' \in [Ids -> {0} \cup Ids]
  BY <1>4 DEF StopWatchdog
<1>5. ASSUME NEW t \in Ids, ThreadStep(t) PROVE ThreadTypes'
  <2>1. CASE StartWatchdog(t)
    BY <2>1 DEF StartWatchdog
  <2>2. CASE OpenFails(t) \/ EnterNative(t) \/ NativeReturns(t) \/ FindLock(t) \/ ReleaseLock(t)
    BY <2>2 DEF OpenFails, EnterNative, NativeReturns, FindLock, ReleaseLock, dogs
  <2>3. CASE Finally(t)
    BY <1>4, <2>3 DEF Finally
  <2>4. CASE ClearLock(t)
    BY <2>4 DEF ClearLock, Leave, dogs
  <2>5. QED
    BY <1>5, <2>1, <2>2, <2>3, <2>4 DEF ThreadStep
<1>6. ASSUME NEW t \in Ids, AcquireLock(t) PROVE ThreadTypes'
  BY <1>6 DEF AcquireLock, dogs
<1>7. ASSUME NEW t \in Ids, TickBegin(t) \/ TickAgain(t) PROVE ThreadTypes'
  BY <1>7 DEF TickBegin, TickAgain
<1>8. ASSUME NEW t \in Ids, TickFires(t) PROVE ThreadTypes'
  BY <1>4, <1>8 DEF TickFires
<1>9. QED
  BY <1>1, <1>2, <1>3, <1>5, <1>6, <1>7, <1>8, MainLeaves DEF SessionNext, Handlers, MainEnds

\* The last command of a service that waits for nothing was an accepted start.
LEMMA StepKept ==
  ASSUME SessionInv, [SessionNext]_sessionVars
  PROVE  Kept'
<1> USE DEF SessionInv
<1>1. ASSUME NEW kind \in {"start", "cancel", "plain"}, StartService(kind) PROVE Kept'
  BY <1>1, Sends DEF Kept
<1>2. CASE OnPlain \/ OnCancel \/ OnStartRejected
  <2>1. PICK kind \in {"start", "cancel", "plain"} : Deliver(kind)
    BY <1>2 DEF OnPlain, OnCancel, OnStartRejected
  <2>2. destroying' = (Head(queue).id = lastId)
    BY <1>2 DEF OnPlain, OnCancel, OnStartRejected, StopSelf
  <2>3. queue' = << >> => Head(queue).id = lastId
    BY <2>1, Delivers, HeadIsNew
  <2>4. QED
    BY <2>2, <2>3 DEF Kept
<1>3. CASE OnStartNotPromoted
  <2>1. destroying' = TRUE \/ destroying' = (Head(queue).id = lastId)
    BY <1>3 DEF OnStartNotPromoted, StopSelf
  <2>2. queue' = << >> => Head(queue).id = lastId
    BY <1>3, Delivers, HeadIsNew DEF OnStartNotPromoted
  <2>3. QED
    BY <2>1, <2>2 DEF Kept
<1>4. CASE OnStart
  <2> DEFINE h == Head(queue).id
  <2>1. h \in Ids /\ (queue' = << >> => h = lastId')
    BY <1>4, Delivers, HeadIsNew DEF OnStart
  <2>2. thread'[h] \in {"starting", "new"} /\ owner'[h] = inst'
    BY <1>4, <2>1 DEF OnStart, SessionTypes
  <2>3. QED
    BY <2>1, <2>2 DEF Kept
<1>5. CASE OnDestroy
  BY <1>5 DEF OnDestroy, Kept
<1>6. CASE ObserveFinished \/ UNCHANGED sessionVars
  BY <1>6 DEF ObserveFinished, sessionVars, service, threads, Kept
<1>7. ASSUME NEW t \in Ids, TickBegin(t) \/ TickAgain(t) \/ TickFires(t) PROVE Kept'
  BY <1>7 DEF TickBegin, TickAgain, TickFires, service, Kept
<1>8. ASSUME NEW t \in Ids, NEW to \in {"new", "open", "native", "finally"} \cup Departing,
             thread' = [thread EXCEPT ![t] = to], UNCHANGED <<queue, lastId, alive, destroying, inst, owner>>
      PROVE  Kept'
  BY <1>8 DEF Kept, SessionTypes
<1>9. ASSUME NEW t \in Ids, Leave(t) PROVE Kept'
  <2>1. /\ thread' = [thread EXCEPT ![t] = "done"] /\ UNCHANGED <<queue, lastId, alive, inst, owner>>
        /\ destroying' = (destroying \/ (Mine(t) /\ StopSelf(t)))
    BY <1>9 DEF Leave
  <2> DEFINE Before == {"starting", "new", "open", "native", "finally"} \cup Departing
  <2> SUFFICES ASSUME alive, ~destroying', queue = << >>
               PROVE  \E u \in Ids : u = lastId /\ owner[u] = inst /\ thread'[u] \in Before
    BY <2>1 DEF Kept
  <2>2. PICK u \in Ids : u = lastId /\ owner[u] = inst /\ thread[u] \in Before
    BY <2>1 DEF Kept
  <2>3. u # t
    BY <2>1, <2>2 DEF Mine, StopSelf
  <2>4. QED
    BY <2>1, <2>2, <2>3 DEF SessionTypes
<1>10. ASSUME NEW t \in Ids, ThreadStep(t) \/ AcquireLock(t) PROVE Kept'
  <2>1. CASE ClearLock(t)
    BY <1>9, <2>1 DEF ClearLock
  <2>2. CASE ~ClearLock(t)
    BY <1>8, <1>10, <2>2
       DEF ThreadStep, AcquireLock, StartWatchdog, OpenFails, EnterNative, NativeReturns, Finally, FindLock,
           ReleaseLock, Departing, service
  <2>3. QED
    BY <2>1, <2>2
<1>11. CASE StartFlash \/ CancelFlash \/ Reopen \/ Detach
  BY <1>1, <1>11 DEF StartFlash, CancelFlash, Reopen, Detach
<1>12. QED
  BY <1>2, <1>3, <1>4, <1>5, <1>6, <1>7, <1>10, <1>11 DEF SessionNext, Handlers, MainEnds

\* An object that a thread shares it goes on sharing.
LEMMA SharedStays ==
  ASSUME SessionInv, [SessionNext]_sessionVars, NEW l \in Ids, thread[l] # "none"
  PROVE  thread'[l] # "none" /\ owner'[l] = owner[l] /\ (Shared(l) => Shared(l)')
<1> USE DEF SessionInv
<1>0. owner[l] \in 1 .. inst /\ inst \in Nat
  BY OwnerExists, BoundsAssumption DEF SessionTypes
<1>1. CASE OnStart
  <2> DEFINE h == Head(queue).id
  <2>1. /\ h \in Ids /\ thread[h] = "none" /\ owner[h] = 0
        /\ \E to \in {"starting", "new"} : thread' = [thread EXCEPT ![h] = to]
        /\ owner' = [owner EXCEPT ![h] = inst']
    BY <1>1, HeadIsNew DEF OnStart
  <2>2. \A u \in Ids : u # h => thread'[u] = thread[u] /\ owner'[u] = owner[u]
    BY <2>1 DEF SessionTypes
  <2>3. ASSUME NEW u \in Ids \ {l}, owner[u] = owner[l] PROVE u # h /\ owner'[u] = owner[u]
    BY <1>0, <2>1, <2>2, <2>3
  <2>4. QED
    BY <2>1, <2>2, <2>3 DEF Shared
<1>2. CASE \E t \in Ids : \E to \in Onward : Advanced(t, to)
  BY <1>2 DEF Advanced, Onward, Shared, SessionTypes
<1>3. CASE UNCHANGED <<thread, owner>>
  BY <1>3 DEF Shared
<1>4. QED
  BY <1>1, <1>2, <1>3, StepKinds DEF Sent, Dropped, Untouched, threads

\* A lock is lost sight of only by an object that has another thread.
LEMMA StepLockKept ==
  ASSUME SessionInv, [SessionNext]_sessionVars
  PROVE  LockKept'
<1> USE DEF SessionInv
\* What is to be shown of one lock.
<1> DEFINE Mark(l) == /\ thread[l] \notin {"none", "starting"}
                      /\ Shared(l) \/ (/\ alive /\ owner[l] = inst /\ wakeLock[inst] = l
                                       /\ thread[l] \notin {"clearing", "done"})
           Fresh(t) == thread[t] = "starting" => alive /\ owner[t] = inst /\ wakeLock[inst] \in {0, t}
<1>0. /\ \A l \in held : l \in Ids /\ Mark(l) /\ owner[l] \in 1 .. inst
      /\ \A t \in Ids : Fresh(t)
  BY OwnerExists DEF LockKept, SessionTypes
<1>1. ASSUME \A l \in held' : Mark(l)', \A t \in Ids : Fresh(t)' PROVE LockKept'
  BY <1>1 DEF LockKept
<1>2. CASE UNCHANGED <<alive, inst, locks, thread, owner>>
  BY <1>0, <1>1, <1>2 DEF locks, Shared
<1>3. CASE LooperFree /\ (OnPlain \/ OnCancel \/ OnStartRejected \/ OnStartNotPromoted)
  <2>1. UNCHANGED <<wakeLock, held, thread, owner>> /\ (alive => inst' = inst) /\ alive'
    BY <1>3, MainLeaves DEF OnPlain, OnCancel, OnStartRejected, OnStartNotPromoted, Deliver, locks, threads
  <2>2. \A t \in Ids : thread[t] # "starting"
    BY <1>3 DEF LooperFree
  <2>3. \A l \in held : Mark(l)'
    BY <1>0, <2>1 DEF Shared
  <2>4. QED
    BY <1>1, <2>1, <2>2, <2>3
<1>4. CASE LooperFree /\ OnStart
  <2> DEFINE h == Head(queue).id
  <2>1. PICK to \in {"starting", "new"} :
          /\ h \in Ids /\ thread[h] = "none"
          /\ thread' = [thread EXCEPT ![h] = to] /\ owner' = [owner EXCEPT ![h] = inst']
          /\ to = "starting" => wakeLock' = [wakeLock EXCEPT ![inst'] = h]
          /\ held' = held /\ alive' /\ (alive => inst' = inst)
    BY <1>4, HeadIsNew DEF OnStart, Deliver
  <2>2. inst' \in Ids
    <3>1. inst' \in 0 .. MaxSends /\ inst \in Nat
      BY StepQueueTypes, BoundsAssumption DEF QueueTypes, SessionTypes
    <3>2. inst' > 0
      BY <1>4, <3>1 DEF OnStart, Deliver, Owned
    <3>3. QED
      BY <3>1, <3>2, BoundsAssumption DEF Ids
  <2>3. \A u \in Ids : u # h => thread'[u] = thread[u] /\ owner'[u] = owner[u] /\ thread[u] # "starting"
    BY <1>4, <2>1 DEF SessionTypes, LooperFree
  <2>4. thread'[h] = to /\ owner'[h] = inst'
    BY <2>1 DEF SessionTypes
  <2>5. ASSUME NEW l \in held PROVE Mark(l)'
    <3>1. l \in Ids /\ l # h /\ Mark(l)
      BY <1>0, <2>1
    <3>2. CASE Shared(l)
      BY <2>3, <3>1, <3>2, SharedStays
    <3>3. CASE alive /\ owner[l] = inst
      <4>1. owner'[h] = owner'[l] /\ h \in Ids \ {l}
        BY <2>1, <2>3, <2>4, <3>1, <3>3
      <4>2. QED
        BY <2>3, <3>1, <4>1 DEF Shared
    <3>4. QED
      BY <3>1, <3>2, <3>3
  <2>6. ASSUME NEW t \in Ids PROVE Fresh(t)'
    <3>1. CASE t = h
      BY <2>1, <2>2, <2>4, <3>1 DEF SessionTypes
    <3>2. CASE t # h
      BY <2>3, <3>2
    <3>3. QED
      BY <3>1, <3>2
  <2>7. QED
    BY <1>1, <2>1, <2>5, <2>6
<1>5. CASE LooperFree /\ OnDestroy
  <2>1. /\ held' = held \ {wakeLock[inst]} /\ UNCHANGED <<thread, owner>>
        /\ \A t \in Ids : thread[t] # "starting"
    BY <1>5 DEF OnDestroy, LooperFree, threads
  <2>2. \A l \in held' : Mark(l)'
    BY <1>0, <2>1 DEF Shared
  <2>3. QED
    BY <1>1, <2>1, <2>2
<1>6. ASSUME NEW t \in Ids, AcquireLock(t) PROVE LockKept'
  <2>1. /\ thread[t] = "starting" /\ thread' = [thread EXCEPT ![t] = "new"]
        /\ UNCHANGED <<alive, inst, wakeLock, owner>>
        /\ held' \in {held, held \cup ({wakeLock[owner[t]]} \ {0})}
    BY <1>6 DEF AcquireLock, service
  <2>2. alive /\ owner[t] = inst /\ wakeLock[inst] \in {0, t}
    BY <1>0, <2>1
  <2>3. thread'[t] = "new" /\ \A u \in Ids : u # t => thread'[u] = thread[u]
    BY <2>1 DEF SessionTypes
  <2>4. ASSUME NEW l \in held' PROVE Mark(l)'
    <3>1. CASE l \in held /\ l # t
      BY <1>0, <2>1, <2>3, <3>1 DEF Shared
    <3>2. CASE l = t
      <4>1. l \notin held
        BY <1>0, <2>1, <3>2
      <4>2. wakeLock[inst] = t
        BY <2>1, <2>2, <2>4, <3>2, <4>1
      <4>3. QED
        BY <2>1, <2>2, <2>3, <3>2, <4>2
    <3>3. QED
      BY <2>1, <2>2, <2>4, <3>1, <3>2
  <2>5. \A u \in Ids : Fresh(u)'
    BY <1>0, <2>1, <2>3
  <2>6. QED
    BY <1>1, <2>4, <2>5
<1>7. ASSUME NEW t \in Ids, ThreadStep(t) PROVE LockKept'
  \* It goes on to a state that tells of its own lock, and of no other.
  <2>1. /\ UNCHANGED <<alive, inst, owner>> /\ thread[t] \notin {"none", "starting"}
        /\ \E to \in Onward : to # "starting" /\ thread' = [thread EXCEPT ![t] = to]
        /\ held' \subseteq held
        /\ wakeLock' = wakeLock \/ wakeLock' = [wakeLock EXCEPT ![owner[t]] = 0]
    <3> USE DEF service, locks, Onward
    <3>1. CASE StartWatchdog(t) \/ OpenFails(t) \/ EnterNative(t) \/ NativeReturns(t)
      BY <3>1 DEF StartWatchdog, OpenFails, EnterNative, NativeReturns
    <3>2. CASE Finally(t) \/ FindLock(t) \/ ReleaseLock(t)
      BY <3>2 DEF Finally, FindLock, ReleaseLock
    <3>3. CASE ClearLock(t)
      BY <3>3 DEF ClearLock, Leave
    <3>4. QED
      BY <1>7, <3>1, <3>2, <3>3 DEF ThreadStep
  <2>2. owner[t] \in Ids
    BY <2>1, OwnerExists
  <2>3. /\ \A u \in Ids : u # t => thread'[u] = thread[u]
        /\ thread'[t] \notin {"none", "starting"}
    BY <2>1 DEF SessionTypes, Onward
  <2>4. ASSUME NEW l \in held', l # t PROVE Mark(l)'
    <3>1. l \in Ids /\ Mark(l) /\ thread'[l] = thread[l]
      BY <1>0, <2>1, <2>3, <2>4
    <3>2. CASE Shared(l)
      BY <2>1, <3>1, <3>2 DEF Shared
    <3>3. CASE ~Shared(l)
      <4>1. owner[t] # owner[l]
        BY <2>4, <3>1, <3>3 DEF Shared
      <4>2. wakeLock[inst] = l /\ owner[l] = inst
        BY <3>1, <3>3
      <4>3. inst \in Ids
        BY <3>1, <4>2, OwnerExists
      <4>4. wakeLock'[inst] = l
        BY <2>1, <2>2, <4>1, <4>2, <4>3 DEF SessionTypes
      <4>5. QED
        BY <2>1, <3>1, <3>3, <4>4
    <3>4. QED
      BY <3>2, <3>3
  <2>5. ASSUME t \in held' PROVE Mark(t)'
    <3>1. Mark(t) /\ t \in held
      BY <1>0, <2>1, <2>5
    <3>2. CASE Shared(t)
      BY <2>1, <2>3, <3>2 DEF Shared
    <3>3. CASE ~Shared(t)
      <4>1. owner[t] = inst /\ wakeLock[inst] = t /\ thread[t] \notin {"clearing", "done"} /\ alive /\ t # 0
        BY <3>1, <3>3, BoundsAssumption DEF Ids
      <4>2. ~ClearLock(t) /\ ~ReleaseLock(t)
        BY <2>5, <4>1 DEF ClearLock, ReleaseLock
      <4>3. UNCHANGED wakeLock /\ thread'[t] \notin {"clearing", "done"}
        BY <1>7, <4>2
           DEF ThreadStep, StartWatchdog, OpenFails, EnterNative, NativeReturns, Finally, FindLock, locks,
               SessionTypes
      <4>4. QED
        BY <2>1, <2>3, <4>1, <4>3
    <3>4. QED
      BY <3>2, <3>3
  <2>6. ASSUME NEW u \in Ids, thread'[u] = "starting"
        PROVE  alive' /\ owner'[u] = inst' /\ wakeLock'[inst'] \in {0, u}
    <3>1. thread[u] = "starting" /\ alive /\ owner[u] = inst /\ wakeLock[inst] \in {0, u}
      BY <1>0, <2>3, <2>6
    <3>2. inst \in Ids
      BY <3>1, OwnerExists
    <3>3. wakeLock'[inst] \in {0, wakeLock[inst]}
      BY <2>1, <2>2, <3>2 DEF SessionTypes
    <3>4. QED
      BY <2>1, <3>1, <3>3
  <2>7. QED
    BY <1>1, <2>4, <2>5, <2>6
<1>8. CASE StartFlash \/ CancelFlash \/ ObserveFinished \/ Reopen \/ Detach \/ UNCHANGED sessionVars
  BY <1>2, <1>8 DEF StartFlash, CancelFlash, ObserveFinished, Reopen, Detach, sessionVars, service, threads
<1>9. ASSUME NEW t \in Ids, TickBegin(t) \/ TickAgain(t) \/ TickFires(t) PROVE LockKept'
  BY <1>2, <1>9 DEF TickBegin, TickAgain, TickFires, service
<1>10. QED
  BY <1>3, <1>4, <1>5, <1>6, <1>7, <1>8, <1>9 DEF SessionNext, Handlers, MainEnds

\* A watchdog is lost sight of only by an object that has another thread.
LEMMA StepGuarded ==
  ASSUME SessionInv, [SessionNext]_sessionVars
  PROVE  Guarded'
<1> USE DEF SessionInv
<1> DEFINE Late == {"open", "native", "finally", "done"} \cup Departing
           Safe(w) == thread[w] \in Late /\ (Guards(w) \/ Shared(w) \/ w \in overtaken)
<1>0. /\ \A w \in Dogs : w \in Ids /\ Safe(w) /\ owner[w] \in Ids
      /\ ticking = 0 => Dogs = watched
  <2>1. \A w \in Dogs : w \in Ids
    BY DEF Dogs, SessionTypes
  <2>2. \A w \in Dogs : thread[w] # "none"
    BY DEF Guarded, Departing
  <2>3. QED
    BY <2>1, <2>2, OwnerExists DEF Guarded, Dogs
<1>1. ASSUME NEW w \in Dogs
      PROVE  /\ thread'[w] # "none" /\ owner'[w] = owner[w] /\ (Shared(w) => Shared(w)')
             /\ overtaken \subseteq overtaken'
  <2>1. w \in Ids /\ thread[w] # "none"
    BY <1>0 DEF Departing
  <2>2. overtaken \subseteq overtaken'
    <3>1. CASE \E t \in Ids : ThreadStep(t)
      BY <3>1 DEF ThreadStep, StartWatchdog, OpenFails, EnterNative, NativeReturns, Finally, FindLock,
                  ReleaseLock, ClearLock, Leave, dogs
    <3>2. CASE OnStart \/ OnDestroy \/ \E t \in Ids : TickBegin(t) \/ MainEnds(t)
      BY <3>2 DEF OnStart, OnDestroy, TickBegin, MainEnds, AcquireLock, TickAgain, TickFires, dogs, threads
    <3>3. CASE UNCHANGED threads
      BY <3>3 DEF threads, dogs
    <3>4. QED
      BY <3>1, <3>2, <3>3, MainLeaves DEF SessionNext, Handlers
  <2>3. QED
    BY <2>1, <2>2, SharedStays
<1>2. ASSUME \A w \in Dogs' : Safe(w)' PROVE Guarded'
  BY <1>2 DEF Guarded
<1>3. CASE UNCHANGED threads
  BY <1>3 DEF threads, dogs, Guarded, Dogs, Guards, Shared
<1>4. CASE OnStart
  <2> DEFINE h == Head(queue).id
  <2>1. /\ h \in Ids /\ thread[h] = "none" /\ UNCHANGED dogs
        /\ \E to \in {"starting", "new"} : thread' = [thread EXCEPT ![h] = to]
    BY <1>4, HeadIsNew DEF OnStart
  <2>2. Dogs' = Dogs
    BY <2>1 DEF dogs, Dogs
  <2>3. ASSUME NEW w \in Dogs PROVE Safe(w)'
    <3>1. w # h /\ w \in Ids /\ Safe(w) /\ owner'[w] = owner[w]
      BY <1>0, <1>1, <2>1, <2>3 DEF Departing
    <3>2. thread'[w] = thread[w]
      BY <2>1, <3>1 DEF SessionTypes
    <3>3. QED
      BY <1>1, <2>1, <2>3, <3>1, <3>2 DEF Guards, dogs
  <2>4. QED
    BY <1>2, <2>2, <2>3
\* A stop of the watchdog of an object: what it leaves in the looper is not the one it knew.
<1>5. ASSUME NEW t \in Ids, thread[t] # "none", StopWatchdog(owner[t]),
             \A u \in Ids : thread'[u] # thread[u] => u = t /\ thread'[u] = "leaving",
             t \in Dogs' => Shared(t) \/ t \in overtaken'
      PROVE  \A w \in Dogs' : w \in Dogs => Safe(w)'
  <2>1. owner[t] \in Ids
    BY <1>5, OwnerExists
  <2>2. watchdog' = [watchdog EXCEPT ![owner[t]] = 0]
    BY <1>5 DEF StopWatchdog
  <2> TAKE w \in Dogs'
  <2> HAVE w \in Dogs
  <2>3. w \in Ids /\ Safe(w) /\ owner[w] \in Ids /\ owner'[w] = owner[w] /\ thread'[w] \in Late
    BY <1>0, <1>1, <1>5 DEF Departing
  <2>4. CASE w = t
    BY <1>1, <1>5, <2>3, <2>4
  <2>5. CASE w # t /\ owner[w] = owner[t]
    BY <1>1, <2>3, <2>5 DEF Shared
  <2>6. CASE w # t /\ owner[w] # owner[t]
    <3>1. thread'[w] = thread[w] /\ watchdog'[owner[w]] = watchdog[owner[w]]
      BY <1>5, <2>1, <2>2, <2>3, <2>6 DEF SessionTypes
    <3>2. QED
      BY <1>1, <2>3, <3>1 DEF Guards
  <2>7. QED
    BY <2>4, <2>5, <2>6
<1>6. ASSUME NEW t \in Ids, Finally(t) PROVE Guarded'
  <2>1. /\ thread[t] = "finally" /\ thread' = [thread EXCEPT ![t] = "leaving"] /\ StopWatchdog(owner[t])
        /\ overtaken' = (IF ticking = t THEN overtaken \cup {t} ELSE overtaken)
        /\ UNCHANGED <<owner, ticking>>
    BY <1>6 DEF Finally
  <2>2. watched' = watched \ {watchdog[owner[t]]}
    BY <2>1 DEF StopWatchdog
  <2>3. \A u \in Ids : thread'[u] # thread[u] => u = t /\ thread'[u] = "leaving"
    BY <2>1 DEF SessionTypes
  <2>4. Dogs' \subseteq Dogs
    BY <2>1, <2>2 DEF Dogs
  <2>5. ASSUME t \in Dogs' PROVE Shared(t) \/ t \in overtaken'
    <3>1. CASE t = ticking
      BY <2>1, <3>1
    <3>2. CASE t # ticking
      <4>1. t \in watched /\ t # watchdog[owner[t]]
        BY <2>1, <2>2, <2>5, <3>2 DEF Dogs
      <4>2. ~Guards(t) /\ Safe(t)
        BY <1>0, <2>4, <2>5, <4>1 DEF Guards
      <4>3. QED
        BY <2>1, <4>2
    <3>3. QED
      BY <3>1, <3>2
  <2>6. QED
    BY <1>2, <1>5, <2>1, <2>3, <2>4, <2>5
<1>7. ASSUME NEW t \in Ids, TickFires(t) PROVE Guarded'
  <2>1. ticking = t /\ StopWatchdog(owner[t]) /\ ticking' = 0 /\ UNCHANGED <<thread, owner, overtaken>>
    BY <1>7 DEF TickFires
  <2>2. watched' = watched \ {watchdog[owner[t]]} /\ t # 0
    BY <2>1, BoundsAssumption DEF StopWatchdog, Ids
  <2>3. t \in Dogs /\ Dogs' = watched' /\ Dogs' \subseteq Dogs
    BY <2>1, <2>2 DEF Dogs
  <2>4. thread[t] # "none"
    BY <1>0, <2>3 DEF Departing
  <2>5. t \in Dogs' => Shared(t) \/ t \in overtaken'
    BY <1>0, <2>1, <2>2, <2>3 DEF Guards
  <2>6. QED
    BY <1>2, <1>5, <2>1, <2>3, <2>4, <2>5
<1>8. ASSUME NEW t \in Ids, (LooperFree /\ TickBegin(t)) \/ TickAgain(t) PROVE Guarded'
  <2>1. Dogs' \subseteq Dogs /\ UNCHANGED <<thread, owner, watchdog, overtaken>>
    BY <1>8, BoundsAssumption DEF TickBegin, TickAgain, LooperFree, Dogs, Ids
  <2>2. \A w \in Dogs : Safe(w)'
    BY <1>0, <2>1 DEF Guards, Shared
  <2>3. QED
    BY <1>2, <2>1, <2>2
<1>9. ASSUME NEW t \in Ids, StartWatchdog(t) PROVE Guarded'
  <2>1. /\ thread[t] = "new" /\ thread' = [thread EXCEPT ![t] = "open"]
        /\ watched' = watched \cup {t} /\ watchdog' = [watchdog EXCEPT ![owner[t]] = t]
        /\ UNCHANGED <<owner, ticking, overtaken>>
    BY <1>9 DEF StartWatchdog
  <2>2. owner[t] \in Ids
    BY <2>1, OwnerExists
  <2>3. Safe(t)'
    BY <2>1, <2>2 DEF SessionTypes, Guards
  <2>4. ASSUME NEW w \in Dogs, w # t PROVE Safe(w)'
    <3>1. w \in Ids /\ Safe(w) /\ owner[w] \in Ids /\ thread'[w] = thread[w]
      BY <1>0, <2>1, <2>4 DEF SessionTypes
    <3>2. CASE owner[w] = owner[t]
      BY <2>1, <2>4, <3>1, <3>2 DEF Shared
    <3>3. CASE owner[w] # owner[t]
      <4>1. watchdog'[owner[w]] = watchdog[owner[w]]
        BY <2>1, <2>2, <3>1, <3>3 DEF SessionTypes
      <4>2. QED
        BY <2>1, <3>1, <4>1 DEF Guards, Shared
    <3>4. QED
      BY <3>2, <3>3
  <2>5. Dogs' \subseteq Dogs \cup {t}
    BY <2>1 DEF Dogs
  <2>6. QED
    BY <1>2, <2>3, <2>4, <2>5
\* The other steps of a thread leave the watchdogs alone.
<1>10. ASSUME NEW t \in Ids, NEW to \in Onward, thread' = [thread EXCEPT ![t] = to], UNCHANGED <<owner, dogs>>,
              \/ thread[t] \in {"starting", "new"}
              \/ thread[t] = "open" /\ to \in {"native", "finally"}
              \/ thread[t] = "native" /\ to = "finally"
              \/ thread[t] \in Departing /\ to \in Departing \cup {"done"}
       PROVE  Guarded'
  <2>1. Dogs' = Dogs
    BY <1>10 DEF dogs, Dogs
  <2>2. ASSUME NEW w \in Dogs PROVE Safe(w)'
    <3>1. w \in Ids /\ Safe(w)
      BY <1>0
    <3>2. CASE w # t
      <4>1. thread'[w] = thread[w]
        BY <1>10, <3>1, <3>2 DEF SessionTypes
      <4>2. QED
        BY <1>10, <3>1, <4>1 DEF Guards, Shared, dogs
    <3>3. CASE w = t
      <4>1. thread'[t] = to /\ thread[t] \notin {"starting", "new"}
        BY <1>10, <3>1, <3>3 DEF SessionTypes, Departing
      <4>2. thread'[t] \in Late
        BY <1>10, <4>1 DEF Departing
      <4>3. Guards(t) => Guards(t)'
        BY <1>10, <4>1 DEF Guards, Departing, dogs
      <4>4. QED
        BY <1>10, <3>1, <3>3, <4>2, <4>3 DEF Shared, dogs
    <3>4. QED
      BY <3>2, <3>3
  <2>3. QED
    BY <1>2, <2>1, <2>2
<1>11. ASSUME NEW t \in Ids, OpenFails(t) \/ EnterNative(t) \/ NativeReturns(t) \/ AcquireLock(t)
       PROVE  Guarded'
  BY <1>10, <1>11 DEF OpenFails, EnterNative, NativeReturns, AcquireLock, Onward
<1>12. ASSUME NEW t \in Ids, FindLock(t) \/ ReleaseLock(t) \/ ClearLock(t)
       PROVE  Guarded'
  BY <1>10, <1>12 DEF FindLock, ReleaseLock, ClearLock, Leave, Departing, Onward
<1>13. CASE OnDestroy
  BY <1>3, <1>13 DEF OnDestroy
<1>14. QED
  BY <1>3, <1>4, <1>6, <1>7, <1>8, <1>9, <1>11, <1>12, <1>13, MainLeaves
     DEF SessionNext, Handlers, ThreadStep, MainEnds

\* A start that waits has no thread.
LEMMA StartsAreNew == SessionInv => \A t \in Starts : t \in Nat /\ t > Delivered /\ t \notin Running
<1> SUFFICES ASSUME SessionInv, NEW i \in 1 .. Len(queue)
             PROVE  queue[i].id \in Nat /\ queue[i].id > Delivered /\ queue[i].id \notin Running
  BY DEF Starts
<1> USE DEF SessionInv
<1>1. queue[i].id = Delivered + i /\ Delivered \in Nat
  BY DEF Numbered, Delivered, SessionTypes
<1>2. queue[i].id \in Ids => thread[queue[i].id] = "none"
  BY <1>1 DEF Numbered
<1>3. QED
  BY <1>1, <1>2 DEF Running

\* A flash that has ended leaves none behind, and the screen's flag up.
LEMMA EndsFlight ==
  ASSUME SessionInv, NEW t \in Flights, Flights' \subseteq Flights \ {t}, SetFinished, UNCHANGED screen
  PROVE  OneFlight'
<1>1. ~sessionActive' /\ posted' /\ inProgress' = inProgress /\ reopens' = reopens
  BY DEF SetFinished, screen
<1>2. ASSUME reopens = 0 PROVE Flights' = {} /\ inProgress
  BY <1>2 DEF SessionInv, OneFlight
<1>3. QED
  BY <1>1, <1>2 DEF OneFlight

\* Where the screen sees nothing, no flash may begin.
LEMMA KeepsFlight ==
  ASSUME SessionInv, Flights' \subseteq Flights, UNCHANGED <<screen, store>>
  PROVE  OneFlight'
<1>1. UNCHANGED <<inProgress, reopens, posted, sessionActive>>
  BY DEF screen, store
<1>2. QED
  BY <1>1 DEF SessionInv, OneFlight

\* A flash starts after the one before it has ended and its end was seen.
LEMMA StepOneFlight ==
  ASSUME SessionInv, [SessionNext]_sessionVars
  PROVE  OneFlight'
<1> USE DEF SessionInv
<1>1. CASE StartFlash
  <2>1. /\ ~inProgress /\ inProgress' /\ UNCHANGED <<reopens, posted, sessionActive, thread>>
        /\ StartService("start")
    BY <1>1 DEF StartFlash, store, threads
  <2>2. Flights' = Flights \cup {lastId'}
    BY <2>1, SendsStart DEF Flights, Running
  <2>3. ASSUME reopens = 0 PROVE ~posted /\ Flights' = {lastId'}
    BY <2>1, <2>2, <2>3 DEF OneFlight
  <2>4. ~sessionActive' /\ posted' = posted
    BY <2>1 DEF OneFlight
  <2>5. QED
    BY <2>1, <2>3, <2>4 DEF OneFlight
<1>2. CASE ObserveFinished
  <2>1. /\ posted /\ ~posted' /\ ~inProgress' /\ UNCHANGED <<reopens, sessionActive, queue, thread>>
    BY <1>2 DEF ObserveFinished, threads
  <2>2. Flights' = Flights
    BY <2>1 DEF Flights, Starts, Running
  <2>3. QED
    BY <2>1, <2>2 DEF OneFlight
<1>3. CASE Reopen
  <2>1. reopens' # 0 /\ sessionActive' = sessionActive
    BY <1>3 DEF Reopen, store, SessionTypes
  <2>2. QED
    BY <2>1 DEF OneFlight
<1>4. CASE CancelFlash \/ Detach
  <2>1. PICK kind \in {"cancel", "plain"} : StartService(kind)
    BY <1>4 DEF CancelFlash, Detach
  <2>2. Flights' = Flights
    BY <1>4, <2>1, SendsStart DEF CancelFlash, Detach, Flights, Running, threads
  <2>3. UNCHANGED <<screen, store>>
    <3>1. CASE CancelFlash
      <4>1. ~sessionActive /\ ~sessionActive' /\ UNCHANGED posted /\ UNCHANGED screen
        BY <3>1 DEF CancelFlash, OneFlight
      <4>2. sessionActive' = sessionActive
        BY <3>1, <4>1 DEF CancelFlash, SessionTypes
      <4>3. QED
        BY <4>1, <4>2 DEF store
    <3>2. CASE Detach
      BY <3>2, NothingToCancel DEF Detach
    <3>3. QED
      BY <1>4, <3>1, <3>2
  <2>4. QED
    BY <2>2, <2>3, KeepsFlight
<1>5. CASE OnPlain \/ OnCancel \/ OnStartNotPromoted
  <2>1. PICK kind \in {"start", "cancel", "plain"} : Deliver(kind) /\ UNCHANGED threads
    BY <1>5 DEF OnPlain, OnCancel, OnStartNotPromoted
  <2>2. Flights' \subseteq Flights
    BY <2>1, DeliversStart DEF Flights, Running, threads
  <2>3. UNCHANGED <<screen, store>>
    BY <1>5, NothingToCancel DEF OnPlain, OnCancel, OnStartNotPromoted, Deliver
  <2>4. QED
    BY <2>2, <2>3, KeepsFlight
<1>6. ASSUME Deliver("start") PROVE Head(queue).id \in Starts \ (Starts' \cup Running)
  <2> DEFINE h == Head(queue).id
  <2>1. h \in Starts /\ h \notin Running
    BY <1>6, DeliversStart, StartsAreNew
  <2>2. Len(queue') \in Nat /\ h = Delivered + 1 /\ Delivered \in Nat /\ Delivered' = Delivered + 1
    BY <1>6, Delivers, HeadIsNew
  <2>3. \A i \in 1 .. Len(queue') : queue'[i].id = Delivered' + i
    BY StepNumbered DEF Numbered
  <2>4. \A i \in 1 .. Len(queue') : queue'[i].id # h
    BY <2>2, <2>3
  <2>5. h \notin Starts'
    BY <2>4 DEF Starts
  <2>6. QED
    BY <2>1, <2>5
<1>7. CASE OnStartRejected
  <2>1. Deliver("start") /\ SetFinished /\ UNCHANGED <<screen, threads>>
    BY <1>7 DEF OnStartRejected, Deliver
  <2>2. Starts' \subseteq Starts \ {Head(queue).id} /\ Running' = Running
    BY <1>6, <2>1, DeliversStart DEF Running, threads
  <2>3. QED
    BY <1>6, <2>1, <2>2, EndsFlight DEF Flights
<1>8. CASE OnStart
  <2> DEFINE h == Head(queue).id
  <2>1. PICK to \in {"starting", "new"} : Deliver("start") /\ thread' = [thread EXCEPT ![h] = to]
    BY <1>8 DEF OnStart
  <2>2. h \in Starts /\ Starts' \subseteq Starts
    BY <1>6, <2>1, DeliversStart
  <2>3. Running' \subseteq Running \cup {h}
    BY <2>1 DEF Running, SessionTypes
  <2>4. UNCHANGED <<screen, store>>
    BY <1>8, NothingToCancel DEF OnStart, Deliver
  <2>5. QED
    BY <2>2, <2>3, <2>4, KeepsFlight DEF Flights
<1>9. CASE OnDestroy \/ UNCHANGED sessionVars
  <2>1. UNCHANGED <<screen, store, queue, thread>>
    BY <1>9, NothingToCancel DEF OnDestroy, sessionVars, threads
  <2>2. QED
    BY <2>1, KeepsFlight DEF Flights, Starts, Running
<1>10. ASSUME NEW t \in Ids, OpenFails(t) \/ NativeReturns(t) PROVE OneFlight'
  <2>1. /\ t \in Running /\ thread' = [thread EXCEPT ![t] = "finally"]
        /\ SetFinished /\ UNCHANGED <<screen, queue>>
    BY <1>10 DEF OpenFails, NativeReturns, Running
  <2>2. Running' \subseteq Running \ {t}
    BY <2>1 DEF Running, SessionTypes
  <2>3. Starts' = Starts /\ t \notin Starts
    BY <2>1, StartsAreNew DEF Starts
  <2>4. QED
    BY <2>1, <2>2, <2>3, EndsFlight DEF Flights
<1>11. ASSUME NEW t \in Ids,
              \/ AcquireLock(t) \/ StartWatchdog(t) \/ EnterNative(t)
              \/ Finally(t) \/ FindLock(t) \/ ReleaseLock(t) \/ ClearLock(t)
       PROVE  OneFlight'
  <2>1. UNCHANGED <<screen, store, queue>>
    BY <1>11 DEF AcquireLock, StartWatchdog, EnterNative, Finally, FindLock, ReleaseLock, ClearLock, Leave
  <2>2. Running' \subseteq Running
    BY <1>11 DEF AcquireLock, StartWatchdog, EnterNative, Finally, FindLock, ReleaseLock, ClearLock, Leave,
                 Running, SessionTypes
  <2>3. QED
    BY <2>1, <2>2, KeepsFlight DEF Flights, Starts
<1>12. ASSUME NEW t \in Ids, TickBegin(t) \/ TickAgain(t) \/ TickFires(t) PROVE OneFlight'
  <2>1. UNCHANGED <<screen, store, queue, thread>>
    BY <1>12, NothingToCancel DEF TickBegin, TickAgain, TickFires
  <2>2. QED
    BY <2>1, KeepsFlight DEF Flights, Starts, Running
<1>13. QED
  BY <1>1, <1>2, <1>3, <1>4, <1>5, <1>7, <1>8, <1>9, <1>10, <1>11, <1>12
     DEF SessionNext, Handlers, ThreadStep, MainEnds

-----------------------------------------------------------------------------
LEMMA NextInv == SessionInv /\ [SessionNext]_sessionVars => SessionInv'
<1> SUFFICES ASSUME SessionInv, [SessionNext]_sessionVars PROVE SessionInv'
  OBVIOUS
<1>1. SessionTypes'
  BY StepScreenTypes, StepQueueTypes, StepServiceTypes, StepLockTypes, StepThreadTypes
     DEF SessionTypes, ScreenTypes, QueueTypes, ServiceTypes, LockTypes, ThreadTypes
<1>2. QED
  BY <1>1, StepNumbered, StepOwned, StepKept, StepLockKept, StepGuarded, StepOneFlight DEF SessionInv

\* When no command waits and no thread runs the service is gone, with its notification; and
\* a wake lock that is held belongs to a session that has not ended and to the service object
\* that is there, unless two sessions met in that object (FlashService.acquireWakeLock on the
\* main thread, releaseWakeLock on theirs), however many starts, cancels and deaths of the
\* service came before.
THEOREM SessionReleases == SessionSpec => []ServiceSound
<1>1. SessionInv => ServiceEndsWithWork
  BY DEF SessionInv, Kept, Departing, ServiceEndsWithWork, SessionTypes
<1>2. SessionInv => LocksEnd
  BY DEF SessionInv, LockKept, LocksEnd
<1>3. SessionInv => ServiceSound
  BY <1>1, <1>2 DEF SessionInv, ServiceSound
<1>4. QED
  BY InitInv, NextInv, <1>3, PTL DEF SessionSpec

\* A watchdog that outlives its session is one whose service object had another
\* session, and so another runnable in its only field (FlashService.stopWatchdog), or one
\* that was running when its session stopped it, and posted itself again.
THEOREM WatchdogStops == SessionSpec => []WatchdogEnds
<1>1. SessionInv => WatchdogEnds
  BY DEF SessionInv, WatchdogEnds, Guarded, Dogs, Guards
<1>2. QED
  BY InitInv, NextInv, <1>1, PTL DEF SessionSpec

\* A screen that is not created anew has at most one flash (ErosFragment,
\* flashInProgress), whatever is cancelled, unplugged or timed out meanwhile.
THEOREM ScreenGuards == SessionSpec => []OneSessionPerScreen
<1>1. SessionInv => OneSessionPerScreen
  <2> SUFFICES ASSUME SessionInv, reopens = 0 PROVE Cardinality(Running) <= 1
    BY DEF OneSessionPerScreen
  <2>1. \A t, u \in Running : t = u
    BY DEF SessionInv, OneFlight, Flights
  <2>2. CASE Running = {}
    BY <2>2, FS_EmptySet
  <2>3. CASE Running # {}
    <3>1. PICK t : Running = {t}
      BY <2>1, <2>3
    <3>2. Cardinality({t}) = 1
      BY FS_Singleton
    <3>3. QED
      BY <3>1, <3>2
  <2>4. QED
    BY <2>2, <2>3
<1>2. QED
  BY InitInv, NextInv, <1>1, PTL DEF SessionSpec

-----------------------------------------------------------------------------
\* The session of Odin commands.
\* The requests of all scripts.
GetSize  == Send("PIT", "GET")
Complete == Send("PIT", "COMPLETE")
Reboot   == Send("CLOSE", "REBOOT")
Requests ==
  {Send("PING", "ODIN"), Send("INIT", "TARGET"), Send("INIT", "PACKETSIZE"), Send("INIT", "TOTALSIZE"),
   Send("PIT", "SET"), Send("PIT", "START"), Data("pit"), Complete, GetSize,
   Send("XMIT", "DOWNLOAD"), Send("XMIT", "START"), Data("packet"), Send("XMIT", "COMPLETE"),
   Send("CLOSE", "END"), Reboot}

\* What the caller waits for after a request.
Expects(r) ==
  IF r.type = "PING" THEN Recv(1, 2, "LOKE", "none")
  ELSE IF r.param = "pit" THEN Recv(1, 1, "any", "none")
  ELSE Recv(1, 1, AnswerId(r), IF r.param \in {"TARGET", "GET"} THEN "out" ELSE "checked")

\* The answer to a request, and the refusals of it.
Yes(r) == IF r.type = "PING" THEN [kind |-> "loke"] ELSE [kind |-> "box", id |-> AnswerId(r), ok |-> TRUE, size |-> PitUnits]
No(r)  ==
  {[kind |-> "box", id |-> "FAIL", ok |-> FALSE, size |-> 0]}
    \cup IF r.param = "TARGET" THEN {} ELSE {[kind |-> "box", id |-> AnswerId(r), ok |-> FALSE, size |-> 0]}

\* The steps of scripts, what is sent, and the units that come.
Steps     == Requests \cup {Expects(r) : r \in Requests}
PitSteps  == {PitPart(i) : i \in Nat} \cup {Recv(n, n, "bytes", "none") : n \in Int} \cup {Zlp}
Transfers == Requests \cup {PitPart(i) : i \in Nat}
PitUnit   == {[kind |-> "pit", unit |-> i] : i \in 1 .. PitUnits}
Unit      == PitUnit \cup {Yes(r) : r \in Requests} \cup UNION {No(r) : r \in Requests}

\* Requests and what is waited for after them, in turn.
Dialogue(s) ==
  /\ s \in Seq(Steps) /\ Len(s) % 2 = 0
  /\ \A k \in 1 .. Len(s) : IF k % 2 = 1 THEN s[k] \in Requests ELSE s[k] = Expects(s[k - 1])

\* Nothing is under way; nothing was refused but what may be, or is in S.
Quiet     == toDev = << >> /\ fromDev = << >> /\ got = << >>
Honest(S) == \A t \in notDone : MayBeLost(t) \/ t \in S
Holding(u) ==
  /\ toDev = << >>
  /\ \/ fromDev = << <<u>> >> /\ got = << >>
     \/ fromDev = << >> /\ got = <<u>>
\* Request r is on its way, is answered, is refused, or is lost.
Await(r) ==
  \/ toDev = <<r>> /\ fromDev = << >> /\ got = << >> /\ Honest({})
  \/ Holding(Yes(r)) /\ Honest({})
  \/ \E u \in No(r) : Holding(u) /\ Honest({r})
  \/ Quiet /\ Honest({r})

\* An operation of a dialogue waits for its last request, or for nothing.
Live == result = "running" /\ done < Len(plan)
Talking ==
  \/ Quiet /\ Honest({}) /\ Dialogue(todo)
  \/ todo # << >> /\ Dialogue(Tail(todo)) /\ \E r \in Requests : Now = Expects(r) /\ Await(r)
Ordinary == Live /\ Op \notin {"pit_size", "get_pit"} => Talking

\* pit_size: its attempts leave at most one transfer or answer each.
Total == Len(toDev) + Len(fromDev) + Len(got)
Stale == {Yes(GetSize)} \cup No(GetSize)
Asking ==
  /\ \A i \in 1 .. Len(toDev) : toDev[i] = GetSize
  /\ \A i \in 1 .. Len(fromDev) : \E u \in Stale : fromDev[i] = <<u>>
  /\ Honest({})
  /\ \/ todo = << >> /\ got = << >> /\ Total <= attempt /\ attempt < PitAttempts
     \/ todo = <<GetSize, Expects(GetSize)>> /\ got = << >> /\ Total < attempt /\ attempt <= PitAttempts
     \/ /\ todo = <<Expects(GetSize)>> /\ Total <= attempt /\ attempt <= PitAttempts
        /\ got = << >> \/ \E u \in Stale : got = <<u>>
Sizing == Live /\ Op = "pit_size" => Asking

\* get_pit: a size that comes late looks like the answer to its last request; refusals and
\* bytes do not.
Ripe == <<Yes(GetSize)>>
Junk == PitUnit \cup No(GetSize)
IsPart(t) == t.param = "PART"

\* Until the first part has come: late answers are fewer than the attempts, and first.
FirstPart ==
  /\ \/ todo = << >> /\ got = << >> /\ \A i \in 1 .. Len(toDev) : toDev[i] = GetSize
     \/ Len(todo) = Len(GetPit) /\ got = << >> /\ \A i \in 1 .. Len(toDev) : toDev[i] = GetSize
     \/ Len(todo) = Len(GetPit) - 1 /\ \A i \in 1 .. Len(toDev) : toDev[i] = GetSize \/ IsPart(toDev[i])
  /\ \A i, j \in 1 .. Len(toDev) : toDev[j] = GetSize /\ i < j => toDev[i] = GetSize
  /\ \A i \in 1 .. Len(toDev) : toDev[i] = GetSize =>
       /\ i + Len(fromDev) + Len(got) < PitAttempts
       /\ \A j \in 1 .. Len(fromDev) : Len(fromDev[j]) = 1
  /\ \A i \in 1 .. Len(fromDev) : fromDev[i] = Ripe =>
       /\ i + Len(got) < PitAttempts
       /\ \A j \in 1 .. i : Len(fromDev[j]) = 1
  /\ \A i \in 1 .. Len(fromDev) : fromDev[i] = Ripe \/ fromDev[i] \in Seq(Junk)
  /\ Honest({})

\* Then none of them is left.
LaterParts ==
  /\ \A i \in 1 .. Len(toDev) : IsPart(toDev[i])
  /\ fromDev \in Seq(Seq(Junk)) /\ got \in Seq(Junk)
  /\ Honest({})

\* At the end its last request is answered, refused or lost, behind the junk.
Completing ==
  \/ /\ toDev # << >> /\ toDev[Len(toDev)] = Complete /\ \A i \in 1 .. Len(toDev) - 1 : IsPart(toDev[i])
     /\ fromDev \in Seq(Seq(Junk)) /\ got \in Seq(Junk) /\ Honest({})
  \/ toDev = << >> /\ fromDev \in Seq(Seq(Junk)) /\ got \in Seq(Junk) /\ Honest({Complete})
  \/ /\ toDev = << >> /\ fromDev # << >> /\ fromDev[Len(fromDev)] = Ripe
     /\ \A i \in 1 .. Len(fromDev) - 1 : fromDev[i] \in Seq(Junk)
     /\ got \in Seq(Junk) /\ Honest({})
  \/ toDev = << >> /\ fromDev = << >> /\ got = Ripe /\ Honest({})

Laying ==
  /\ size = PitUnits
  /\ Len(todo) <= Len(GetPit)
  /\ \A k \in 1 .. Len(todo) : todo[k] = GetPit[Len(GetPit) - Len(todo) + k]
  /\ pit = << >> => FirstPart
  /\ pit # << >> => todo # << >> /\ IF Len(todo) > 1 THEN LaterParts ELSE Completing
Reading == Live /\ Op = "get_pit" => Laying

\* After the end command only the reboot command is under way.
Leaving ==
  /\ Honest({})
  /\ \A i \in 1 .. Len(toDev) : toDev[i] = Reboot
  /\ \A i \in 1 .. Len(fromDev) : \E u \in {Yes(Reboot)} \cup No(Reboot) : fromDev[i] = <<u>>
  /\ \A k \in 1 .. Len(todo) : todo[k] \in {Reboot, Expects(Reboot)}
Closed == Ended("end") => Leaving

\* The attempts and the bytes before their operations.
Reached(op) == \E j \in 1 .. done + 1 : j <= Len(plan) /\ plan[j] = op
Fresh ==
  /\ Reached("pit_size") \/ attempt = 0
  /\ Reached("get_pit") \/ pit = << >>

\* The type of every variable.
TypeOK ==
  /\ plan \in Plans /\ connected \in BOOLEAN /\ done \in 0 .. Len(plan)
  /\ todo \in Seq(Steps \cup PitSteps)
  /\ tries \in Nat /\ attempt \in Nat
  /\ result \in {"running", "done", "failed"}
  /\ got \in Seq(Unit) /\ pit \in Seq(Unit) /\ fromDev \in Seq(Seq(Unit))
  /\ toDev \in Seq(Transfers) /\ notDone \in SUBSET Transfers
  /\ todo # << >> => done < Len(plan)

\* A step that is no send cut short.
Smooth == [Next]_vars /\ ~SendTorn

\* The inductive invariant of a session of commands, as long as no send is cut short.
OInv == TypeOK /\ Ordinary /\ Sizing /\ Reading /\ Closed /\ Fresh

\* Two sequences of one element make a sequence of two.
LEMMA Joined ==
  ASSUME NEW a, NEW b
  PROVE  <<a>> \o <<b>> = <<a, b>>
<1> DEFINE s == <<a>> \o <<b>>
           t == <<a, b>>
           S == {a, b}
<1>1. s \in Seq(S) /\ t \in Seq(S) /\ Len(s) = 2 /\ Len(t) = 2
  OBVIOUS
<1>2. s[1] = a /\ s[2] = b /\ t[1] = a /\ t[2] = b
  OBVIOUS
<1> HIDE DEF s, t, S
<1>3. \A i \in 1 .. Len(s) : i = 1 \/ i = 2
  BY <1>1
<1>4. \A i \in 1 .. Len(s) : s[i] = t[i]
  BY <1>2, <1>3
<1>5. s = t
  BY <1>1, <1>4, SeqEqual
<1>6. QED
  BY <1>5 DEF s, t

\* A sequence of two elements.
LEMMA Two ==
  ASSUME NEW a, NEW b
  PROVE  /\ Len(<<a, b>>) = 2 /\ Head(<<a, b>>) = a /\ Tail(<<a, b>>) = <<b>>
         /\ <<a, b>> # << >> /\ <<a, b>>[1] = a /\ <<a, b>>[2] = b
         /\ Len(<<b>>) = 1 /\ Head(<<b>>) = b /\ Tail(<<b>>) = << >> /\ <<b>> # << >> /\ <<b>>[1] = b
OBVIOUS

\* What is asked.
LEMMA RequestKinds ==
  ASSUME NEW r \in Requests
  PROVE  /\ r.do = "send" /\ r.part = 0 /\ r.param # "PART" /\ AnswerId(r) # "bytes" /\ AnswerId(r) # "LOKE"
         /\ r.type = "PING" => AnswerId(r) = "PING"
BY DEF Requests, Send, Data, Complete, GetSize, Reboot, AnswerId

\* What is waited for.
LEMMA ExpectsKinds ==
  ASSUME NEW r \in Requests
  PROVE  /\ Expects(r).do = "recv" /\ Expects(r).min = 1
         /\ Expects(r).max = (IF r.type = "PING" THEN 2 ELSE 1)
         /\ Expects(r).type = (IF r.type = "PING" THEN "LOKE" ELSE IF r.param = "pit" THEN "any" ELSE AnswerId(r))
         /\ Expects(r).type # "bytes"
         /\ Expects(r).ack = (IF r.type = "PING" \/ r.param = "pit" THEN "none"
                              ELSE IF r.param \in {"TARGET", "GET"} THEN "out" ELSE "checked")
BY RequestKinds DEF Expects, Recv

\* The three requests the invariant names.
LEMMA GetSizeKinds ==
  /\ GetSize \in Requests /\ Complete \in Requests /\ Reboot \in Requests
  /\ MayBeLost(GetSize) /\ MayBeLost(Reboot) /\ ~MayBeLost(Complete)
  /\ GetSize.param = "GET" /\ GetSize.type = "PIT" /\ AnswerId(GetSize) = "PIT"
  /\ Complete.param = "COMPLETE" /\ Complete.type = "PIT" /\ AnswerId(Complete) = "PIT"
  /\ Yes(Complete) = Yes(GetSize) /\ No(Complete) = No(GetSize)
  /\ Expects(GetSize) = Recv(1, 1, "PIT", "out") /\ Expects(Complete) = Recv(1, 1, "PIT", "checked")
<1>1. /\ GetSize.param = "GET" /\ GetSize.type = "PIT" /\ AnswerId(GetSize) = "PIT"
      /\ Complete.param = "COMPLETE" /\ Complete.type = "PIT" /\ AnswerId(Complete) = "PIT"
  BY DEF GetSize, Complete, Send, AnswerId
<1>2. Yes(Complete) = Yes(GetSize) /\ No(Complete) = No(GetSize)
  BY <1>1 DEF Yes, No
<1>3. Expects(GetSize) = Recv(1, 1, "PIT", "out") /\ Expects(Complete) = Recv(1, 1, "PIT", "checked")
  BY <1>1 DEF Expects
<1>4. MayBeLost(GetSize) /\ MayBeLost(Reboot) /\ ~MayBeLost(Complete)
  BY DEF MayBeLost, GetSize, Reboot, Complete, Send
<1>5. QED
  BY <1>1, <1>2, <1>3, <1>4 DEF Requests

\* A part of the PIT is no request, and may be lost.
LEMMA PartKinds ==
  ASSUME NEW i \in Nat
  PROVE  /\ IsPart(PitPart(i)) /\ MayBeLost(PitPart(i)) /\ PitPart(i).do = "send" /\ PitPart(i).part = i
         /\ PitPart(i).type = "PIT" /\ PitPart(i) \notin Requests
         /\ Zlp.do = "zlp"
<1>1. PitPart(i).param = "PART" /\ PitPart(i).do = "send" /\ PitPart(i).part = i /\ PitPart(i).type = "PIT"
  BY DEF PitPart
<1>2. MayBeLost(PitPart(i))
  BY <1>1 DEF MayBeLost
<1>3. QED
  BY <1>1, <1>2, RequestKinds DEF IsPart, Zlp

\* A transfer is a request or asks for a part of the PIT.
LEMMA TransferKinds ==
  ASSUME NEW t \in Transfers
  PROVE  /\ t.do = "send"
         /\ IsPart(t) => MayBeLost(t) /\ t \notin Requests
         /\ ~IsPart(t) => t \in Requests
BY RequestKinds, PartKinds DEF IsPart, Transfers

\* A request that is answered.
LEMMA YesKinds ==
  ASSUME NEW r \in Requests
  PROVE  /\ Yes(r) \in Unit
         /\ r.type = "PING" => Yes(r).kind = "loke"
         /\ r.type # "PING" => Yes(r).kind = "box" /\ Yes(r).id = AnswerId(r) /\ Yes(r).ok = TRUE /\ Yes(r).size = PitUnits
<1>1. Yes(r) \in Unit
  BY DEF Unit
<1>2. CASE r.type = "PING"
  BY <1>1, <1>2 DEF Yes
<1>3. CASE r.type # "PING"
  <2>1. Yes(r) = [kind |-> "box", id |-> AnswerId(r), ok |-> TRUE, size |-> PitUnits]
    BY <1>3 DEF Yes
  <2>2. QED
    BY <1>1, <1>3, <2>1
<1>4. QED
  BY <1>2, <1>3

\* A request that is refused.
LEMMA NoKinds ==
  ASSUME NEW r \in Requests, NEW u \in No(r)
  PROVE  /\ u \in Unit /\ u.kind = "box" /\ u.ok = FALSE /\ u.size = 0
         /\ u.id \in {"FAIL", AnswerId(r)}
         /\ r.param = "TARGET" => u.id = "FAIL"
BY DEF No, Unit

\* No junk is taken for the answer to a command.
LEMMA JunkKinds ==
  ASSUME NEW u \in Junk
  PROVE  u \in Unit /\ u.kind \in {"pit", "box"} /\ (u.kind = "box" => u.ok = FALSE) /\ u # Yes(GetSize)
<1>1. CASE u \in PitUnit
  <2>1. PICK i \in 1 .. PitUnits : u = [kind |-> "pit", unit |-> i]
    BY <1>1 DEF PitUnit
  <2>2. u.kind = "pit"
    BY <2>1
  <2>3. QED
    BY <2>2, <1>1, GetSizeKinds, YesKinds DEF Unit
<1>2. CASE u \in No(GetSize)
  BY <1>2, NoKinds, GetSizeKinds, YesKinds
<1>3. QED
  BY <1>1, <1>2 DEF Junk

\* What makes a step of receiving succeed.
Success ==
  \/ Now.type = "bytes"
  \/ Now.type = "LOKE" /\ got[1].kind = "loke"
  \/ Now.type \notin {"bytes", "LOKE"} /\ Accepts(got[1]) /\ (Op = "pit_size" => got[1].size > 0)

\* A request that was refused passes only if it may be lost.
LEMMA Judged ==
  ASSUME NEW r \in Requests, NEW u \in No(r), Now = Expects(r), got[1] = u, Success, r # GetSize
  PROVE  MayBeLost(r)
<1>1. Now.type = (IF r.type = "PING" THEN "LOKE" ELSE IF r.param = "pit" THEN "any" ELSE AnswerId(r))
  BY ExpectsKinds
<1>2. u.kind = "box" /\ u.ok = FALSE /\ u.id \in {"FAIL", AnswerId(r)} /\ (r.param = "TARGET" => u.id = "FAIL")
  BY NoKinds
<1>3. CASE r.type = "PING"
  BY <1>1, <1>2, <1>3 DEF Success
<1>4. CASE r.param = "pit"
  BY <1>4 DEF MayBeLost, Requests, Send, Data, Complete, GetSize, Reboot
<1>5. CASE r.param = "TARGET"
  <2>1. AnswerId(r) = "INIT" /\ r.type = "INIT"
    BY <1>5 DEF AnswerId, Requests, Send, Data, Complete, GetSize, Reboot
  <2>2. QED
    BY <1>1, <1>2, <1>5, <2>1 DEF Success, Accepts
<1>6. CASE r.type # "PING" /\ r.param # "pit" /\ r.param # "TARGET"
  <2>1. r.param # "GET"
    BY <1>6 DEF Requests, Send, Data, Complete, GetSize, Reboot
  <2>2. Now.ack = "checked" /\ Now.type = AnswerId(r)
    BY <1>1, <1>6, <2>1, ExpectsKinds
  <2>3. AnswerId(r) # "any"
    BY <1>6 DEF AnswerId, Requests, Send, Data, Complete, GetSize, Reboot
  <2>4. QED
    BY <1>2, <2>2, <2>3, <1>6, RequestKinds DEF Success, Accepts
<1>7. QED
  BY <1>3, <1>4, <1>5, <1>6

\* A request and what is waited for after it.
LEMMA PairDialogue ==
  ASSUME NEW r \in Requests
  PROVE  <<r, Expects(r)>> \in Seq(Steps) /\ Dialogue(<<r, Expects(r)>>)
<1> DEFINE s == <<r, Expects(r)>>
<1>1. s \in Seq(Steps) /\ Len(s) = 2 /\ s[1] = r /\ s[2] = Expects(r)
  BY DEF Steps
<1> HIDE DEF s
<1>2. \A k \in 1 .. Len(s) : k = 1 \/ k = 2
  BY <1>1
<1>3. ASSUME NEW k \in 1 .. Len(s)
      PROVE  IF k % 2 = 1 THEN s[k] \in Requests ELSE s[k] = Expects(s[k - 1])
  <2>1. CASE k = 1
    BY <1>1, <2>1
  <2>2. CASE k = 2
    BY <1>1, <2>2
  <2>3. QED
    BY <1>2, <2>1, <2>2
<1>4. Len(s) % 2 = 0
  BY <1>1
<1>5. QED
  BY <1>1, <1>3, <1>4 DEF Dialogue, s

\* Two even lengths.
LEMMA Evens ==
  ASSUME NEW m \in Nat, NEW n \in Nat, m % 2 = 0, n % 2 = 0
  PROVE  (m + n) % 2 = 0
OBVIOUS

\* A dialogue after a dialogue is one.
LEMMA ConcatDialogue ==
  ASSUME NEW s, NEW t, Dialogue(s), Dialogue(t)
  PROVE  Dialogue(s \o t)
<1> DEFINE u == s \o t
<1>1. /\ s \in Seq(Steps) /\ t \in Seq(Steps) /\ Len(s) \in Nat /\ Len(t) \in Nat
      /\ Len(s) % 2 = 0 /\ Len(t) % 2 = 0
  <2>1. s \in Seq(Steps) /\ t \in Seq(Steps) /\ Len(s) % 2 = 0 /\ Len(t) % 2 = 0
    BY DEF Dialogue
  <2>2. QED
    BY <2>1
<1>2. u \in Seq(Steps) /\ Len(u) = Len(s) + Len(t)
  BY <1>1
<1>3. \A k \in 1 .. Len(s) : u[k] = s[k]
  BY <1>1, ConcatProperties
<1>4. \A k \in Len(s) + 1 .. Len(u) : u[k] = t[k - Len(s)]
  BY <1>1, <1>2
<1> HIDE DEF u
<1>5. Len(u) % 2 = 0
  BY <1>1, <1>2, Evens
<1>6. ASSUME NEW k \in 1 .. Len(u)
      PROVE  IF k % 2 = 1 THEN u[k] \in Requests ELSE u[k] = Expects(u[k - 1])
  <2>1. CASE k <= Len(s)
    <3>1. k \in 1 .. Len(s) /\ u[k] = s[k]
      BY <1>1, <1>3, <2>1
    <3>2. k % 2 # 1 => k - 1 \in 1 .. Len(s)
      BY <3>1, <1>1
    <3>3. IF k % 2 = 1 THEN s[k] \in Requests ELSE s[k] = Expects(s[k - 1])
      BY <3>1 DEF Dialogue
    <3>4. k % 2 # 1 => u[k - 1] = s[k - 1]
      BY <3>2, <1>3
    <3>5. QED
      BY <3>1, <3>3, <3>4
  <2>2. CASE k > Len(s)
    <3> DEFINE m == k - Len(s)
    <3>1. m \in 1 .. Len(t) /\ k \in Len(s) + 1 .. Len(u) /\ (m % 2 = 1 <=> k % 2 = 1)
      BY <1>1, <1>2, <2>2
    <3>2. k % 2 # 1 => m - 1 \in 1 .. Len(t) /\ k - 1 \in Len(s) + 1 .. Len(u) /\ (k - 1) - Len(s) = m - 1
      <4>1. m % 2 # 1 => m # 1
        OBVIOUS
      <4>2. QED
        BY <4>1, <1>1, <1>2, <2>2, <3>1
    <3>3. IF m % 2 = 1 THEN t[m] \in Requests ELSE t[m] = Expects(t[m - 1])
      BY <3>1 DEF Dialogue
    <3>4. u[k] = t[m]
      BY <3>1, <1>4
    <3>5. k % 2 # 1 => u[k - 1] = t[m - 1]
      BY <3>2, <1>4
    <3>6. QED
      BY <3>1, <3>3, <3>4, <3>5
  <2>3. QED
    BY <1>1, <1>2, <2>1, <2>2
<1>7. Dialogue(u)
  BY <1>2, <1>5, <1>6 DEF Dialogue
<1>8. QED
  BY <1>7 DEF u

\* A dialogue goes on with a request, what is waited for, and a dialogue.
LEMMA DialogueStep ==
  ASSUME NEW s, Dialogue(s), s # << >>
  PROVE  /\ Head(s) \in Requests /\ Tail(s) # << >> /\ Head(Tail(s)) = Expects(Head(s))
         /\ Dialogue(Tail(Tail(s))) /\ Len(Tail(s)) = Len(s) - 1 /\ Len(s) >= 2
<1>1. s \in Seq(Steps) /\ Len(s) \in Nat /\ Len(s) % 2 = 0 /\ Len(s) # 0
  BY DEF Dialogue
<1>2. Len(s) >= 2 /\ 1 \in 1 .. Len(s) /\ 2 \in 1 .. Len(s)
  <2>1. 1 % 2 = 1
    OBVIOUS
  <2>2. CASE Len(s) = 1
    BY <1>1, <2>1, <2>2
  <2>3. CASE Len(s) # 1
    BY <1>1, <2>3
  <2>4. QED
    BY <2>2, <2>3
<1>3. s[1] \in Requests /\ s[2] = Expects(s[1])
  <2>1. IF 1 % 2 = 1 THEN s[1] \in Requests ELSE s[1] = Expects(s[1 - 1])
    BY <1>2 DEF Dialogue
  <2>2. IF 2 % 2 = 1 THEN s[2] \in Requests ELSE s[2] = Expects(s[2 - 1])
    BY <1>2 DEF Dialogue
  <2>3. QED
    BY <2>1, <2>2
<1> DEFINE v == Tail(s)
           u == Tail(v)
<1>4. v \in Seq(Steps) /\ Len(v) = Len(s) - 1 /\ \A k \in 1 .. Len(v) : v[k] = s[k + 1]
  BY <1>1, HeadTailProperties
<1>5. Head(s) = s[1] /\ v # << >>
  BY <1>1, <1>2, <1>4
<1> HIDE DEF v
<1>6. u \in Seq(Steps) /\ Len(u) = Len(v) - 1 /\ \A k \in 1 .. Len(u) : u[k] = v[k + 1]
  BY <1>4, <1>5, HeadTailProperties
<1>7. Head(v) = v[1] /\ v[1] = s[2]
  BY <1>2, <1>4, <1>5
<1> HIDE DEF u
<1>8. Len(u) = Len(s) - 2 /\ Len(u) % 2 = 0
  BY <1>1, <1>2, <1>4, <1>6
<1>9. \A k \in 1 .. Len(u) : u[k] = s[k + 2]
  BY <1>1, <1>4, <1>6, <1>8
<1>10. ASSUME NEW k \in 1 .. Len(u)
      PROVE  IF k % 2 = 1 THEN u[k] \in Requests ELSE u[k] = Expects(u[k - 1])
  <2>1. k + 2 \in 1 .. Len(s) /\ ((k + 2) % 2 = 1 <=> k % 2 = 1)
    BY <1>1, <1>8
  <2>2. IF (k + 2) % 2 = 1 THEN s[k + 2] \in Requests ELSE s[k + 2] = Expects(s[(k + 2) - 1])
    BY <2>1 DEF Dialogue
  <2>3. k % 2 # 1 => k - 1 \in 1 .. Len(u) /\ (k - 1) + 2 = (k + 2) - 1
    BY <1>1, <1>8
  <2>4. k % 2 # 1 => u[k - 1] = s[(k + 2) - 1]
    BY <2>3, <1>9
  <2>5. QED
    BY <1>9, <2>1, <2>2, <2>4
<1>11. Dialogue(u)
  BY <1>6, <1>8, <1>10 DEF Dialogue
<1>12. QED
  BY <1>2, <1>3, <1>4, <1>5, <1>7, <1>11 DEF u, v

\* The scripts of all operations but get_pit are dialogues.
LEMMA Scripts ==
  ASSUME NEW op \in Ops \ {"get_pit"}
  PROVE  Dialogue(Script(op))
<1> DEFINE pair(r) == <<r, Expects(r)>>
<1>1. \A r \in Requests : Dialogue(pair(r)) /\ pair(r) \in Seq(Steps)
  BY PairDialogue
<1>2. Handshake = pair(Send("PING", "ODIN"))
  BY DEF Handshake, Expects, Send
<1>3. ASSUME NEW type, NEW param, type # "PING", type # "DATA", param \notin {"TARGET", "GET", "pit", "packet"}
      PROVE  Rpc(type, param, "checked") = pair(Send(type, param))
  <2>1. Expects(Send(type, param)) = Recv(1, 1, type, "checked")
    BY <1>3 DEF Expects, Send, AnswerId
  <2>2. QED
    BY <2>1, Joined DEF Rpc, Answer
<1>4. ASSUME NEW type \in {"INIT", "PIT"}, NEW param \in {"TARGET", "GET"}
      PROVE  Rpc(type, param, "out") = pair(Send(type, param))
  <2>1. Expects(Send(type, param)) = Recv(1, 1, type, "out")
    BY <1>4 DEF Expects, Send, AnswerId
  <2>2. QED
    BY <2>1, Joined DEF Rpc, Answer
<1>5. /\ <<Data("pit")>> \o Answer("any", "none") = pair(Data("pit"))
      /\ <<Data("packet")>> \o Answer("EMPTY", "checked") = pair(Data("packet"))
  <2>1. Expects(Data("pit")) = Recv(1, 1, "any", "none") /\ Expects(Data("packet")) = Recv(1, 1, "EMPTY", "checked")
    BY DEF Expects, Data, AnswerId
  <2>2. QED
    BY <2>1, Joined DEF Answer
<1>6. /\ {Send("PING", "ODIN"), Send("INIT", "TARGET"), Send("PIT", "GET"), Send("INIT", "PACKETSIZE"),
          Send("INIT", "TOTALSIZE"), Send("CLOSE", "END"), Send("CLOSE", "REBOOT")} \subseteq Requests
      /\ {Send("PIT", "SET"), Send("PIT", "START"), Send("PIT", "COMPLETE"), Send("XMIT", "DOWNLOAD"),
          Send("XMIT", "START"), Send("XMIT", "COMPLETE"), Data("pit"), Data("packet")} \subseteq Requests
  BY DEF Requests, Complete, Reboot, GetSize
<1> DEFINE ask(t, p) == Rpc(t, p, "checked")
<1>7. /\ Dialogue(Handshake) /\ Dialogue(Rpc("INIT", "TARGET", "out")) /\ Dialogue(Rpc("PIT", "GET", "out"))
      /\ Dialogue(<<Data("pit")>> \o Answer("any", "none"))
      /\ Dialogue(<<Data("packet")>> \o Answer("EMPTY", "checked"))
  BY <1>1, <1>2, <1>4, <1>5, <1>6
<1>8. /\ Dialogue(ask("INIT", "PACKETSIZE")) /\ Dialogue(ask("INIT", "TOTALSIZE"))
      /\ Dialogue(ask("CLOSE", "END")) /\ Dialogue(ask("CLOSE", "REBOOT"))
      /\ Dialogue(ask("PIT", "SET")) /\ Dialogue(ask("PIT", "START")) /\ Dialogue(ask("PIT", "COMPLETE"))
      /\ Dialogue(ask("XMIT", "DOWNLOAD")) /\ Dialogue(ask("XMIT", "START")) /\ Dialogue(ask("XMIT", "COMPLETE"))
  <2> HIDE DEF pair
  <2>1. /\ ask("INIT", "PACKETSIZE") = pair(Send("INIT", "PACKETSIZE")) /\ ask("INIT", "TOTALSIZE") = pair(Send("INIT", "TOTALSIZE"))
        /\ ask("CLOSE", "END") = pair(Send("CLOSE", "END")) /\ ask("CLOSE", "REBOOT") = pair(Send("CLOSE", "REBOOT"))
        /\ ask("PIT", "SET") = pair(Send("PIT", "SET")) /\ ask("PIT", "START") = pair(Send("PIT", "START"))
        /\ ask("PIT", "COMPLETE") = pair(Send("PIT", "COMPLETE")) /\ ask("XMIT", "DOWNLOAD") = pair(Send("XMIT", "DOWNLOAD"))
        /\ ask("XMIT", "START") = pair(Send("XMIT", "START")) /\ ask("XMIT", "COMPLETE") = pair(Send("XMIT", "COMPLETE"))
    BY <1>3
  <2>2. QED
    BY <2>1, <1>1, <1>6
<1>9. ASSUME NEW a, NEW b, NEW c, NEW d, NEW e, Dialogue(a), Dialogue(b), Dialogue(<<c>> \o d), Dialogue(e),
             d \in Seq(Steps), c \in Steps
      PROVE  Dialogue(a \o b \o <<c>> \o d \o e)
  <2>1. Dialogue(a \o b)
    BY <1>9, ConcatDialogue
  <2>2. Dialogue((a \o b) \o (<<c>> \o d))
    BY <1>9, <2>1, ConcatDialogue
  <2>3. (a \o b) \o (<<c>> \o d) = a \o b \o <<c>> \o d
    <3> DEFINE f == a \o b
               g == <<c>>
    <3>1. f \in Seq(Steps) /\ g \in Seq(Steps)
      BY <2>1, <1>9 DEF Dialogue
    <3> HIDE DEF f, g
    <3>2. f \o (g \o d) = (f \o g) \o d
      BY <3>1, <1>9, ConcatAssociative
    <3>3. QED
      BY <3>2 DEF f, g
  <2>4. QED
    BY <1>9, <2>2, <2>3, ConcatDialogue
<1>10. /\ Answer("any", "none") \in Seq(Steps) /\ Data("pit") \in Steps
       /\ Answer("EMPTY", "checked") \in Seq(Steps) /\ Data("packet") \in Steps
  <2>1. Expects(Data("pit")) = Recv(1, 1, "any", "none") /\ Expects(Data("packet")) = Recv(1, 1, "EMPTY", "checked")
    BY DEF Expects, Data, AnswerId
  <2>2. Recv(1, 1, "any", "none") \in Steps /\ Recv(1, 1, "EMPTY", "checked") \in Steps
    BY <2>1, <1>6 DEF Steps
  <2>3. QED
    BY <2>2, <1>6 DEF Answer, Steps
<1>11. Dialogue(SetPit) /\ Dialogue(Window)
  <2> HIDE DEF pair
  <2>1. Dialogue(SetPit)
    BY <1>7, <1>8, <1>9, <1>10 DEF SetPit
  <2>2. Dialogue(Window)
    BY <1>7, <1>8, <1>9, <1>10 DEF Window
  <2>3. QED
    BY <2>1, <2>2
<1>12. QED
  BY <1>7, <1>8, <1>11 DEF Script, Ops

\* The elements of a concatenation.
LEMMA Concat ==
  ASSUME NEW S, NEW s \in Seq(S), NEW t \in Seq(S)
  PROVE  /\ s \o t \in Seq(S) /\ Len(s \o t) = Len(s) + Len(t)
         /\ \A i \in 1 .. Len(s) : (s \o t)[i] = s[i]
         /\ \A i \in 1 .. Len(t) : (s \o t)[Len(s) + i] = t[i]
<1>1. s \o t \in Seq(S) /\ Len(s \o t) = Len(s) + Len(t) /\ Len(s) \in Nat /\ Len(t) \in Nat
  OBVIOUS
<1>2. ASSUME NEW i \in 1 .. Len(s) PROVE (s \o t)[i] = s[i]
  BY <1>1
<1>3. ASSUME NEW i \in 1 .. Len(t) PROVE (s \o t)[Len(s) + i] = t[i]
  BY <1>1
<1>4. QED
  BY <1>1, <1>2, <1>3

\* Division with a remainder.
LEMMA DivMod ==
  ASSUME NEW n \in Nat, NEW m \in Nat \ {0}
  PROVE  /\ n \div m \in Nat /\ n % m \in 0 .. m - 1
         /\ n = m * (n \div m) + (n % m)
OBVIOUS

\* Multiplication keeps the order.
LEMMA MulStep ==
  ASSUME NEW m \in Nat \ {0}, NEW g \in Nat, NEW h \in Nat, g <= h
  PROVE  m * g <= m * h /\ m * g \in Nat /\ m * h \in Nat
<1>1. PICK e \in Nat : h = g + e
  <2>1. h - g \in Nat
    OBVIOUS
  <2>2. QED
    BY <2>1
<1>2. m * h = m * g + m * e
  BY <1>1
<1>3. m * e \in Nat /\ m * g \in Nat /\ m * h \in Nat
  OBVIOUS
<1>4. QED
  BY <1>2, <1>3

\* What is assumed of the constants.
LEMMA Bounds ==
  /\ PitAttempts \in Nat \ {0} /\ ChunkUnits \in Nat \ {0} /\ PitUnits \in Nat \ {0} /\ Retries \in Nat
  /\ PitAttempts <= ChunkUnits /\ PitAttempts <= PitUnits
BY OdinAssumption

\* The parts of a PIT: the last one has what is left.
LEMMA PartSizes ==
  ASSUME size = PitUnits
  PROVE  /\ Parts \in Nat \ {0}
         /\ \A i \in 0 .. Parts - 1 : PartLen(i) \in Nat \ {0}
         /\ PartLen(0) >= PitAttempts
<1> DEFINE q == (PitUnits - 1) \div ChunkUnits
<1>1. q \in Nat /\ ChunkUnits * q <= PitUnits - 1 /\ Parts = q + 1
  <2>1. PitUnits - 1 \in Nat
    BY Bounds
  <2>2. /\ q \in Nat /\ (PitUnits - 1) % ChunkUnits \in 0 .. ChunkUnits - 1
        /\ PitUnits - 1 = ChunkUnits * q + ((PitUnits - 1) % ChunkUnits)
    BY <2>1, Bounds, DivMod
  <2> DEFINE x == ChunkUnits * q
             y == (PitUnits - 1) % ChunkUnits
  <2>3. x \in Int
    BY <2>2, Bounds
  <2>4. y \in Nat /\ PitUnits - 1 = x + y
    BY <2>2, Bounds
  <2> HIDE DEF x, y
  <2>5. x <= PitUnits - 1
    BY <2>3, <2>4, Bounds
  <2>6. QED
    BY <2>2, <2>5 DEF Parts, x
<1> HIDE DEF q
<1>2. ASSUME NEW i \in 0 .. Parts - 1
      PROVE  PartLen(i) \in Nat \ {0}
  <2>1. i \in Nat /\ i <= q
    BY <1>1
  <2> DEFINE x == ChunkUnits * i
             y == ChunkUnits * q
  <2>2. x <= y /\ x \in Nat /\ y \in Nat
    BY <2>1, <1>1, Bounds, MulStep
  <2>3. y <= PitUnits - 1
    BY <1>1
  <2>4. PartLen(i) = IF size - x < ChunkUnits THEN size - x ELSE ChunkUnits
    BY DEF PartLen
  <2> HIDE DEF x, y
  <2>5. QED
    BY <2>2, <2>3, <2>4, Bounds
<1>3. PartLen(0) >= PitAttempts
  BY Bounds DEF PartLen
<1>4. QED
  BY <1>1, <1>2, <1>3

\* The script of get_pit, by its places: the parts, the empty packet, the last request.
LEMMA GetPitSteps ==
  ASSUME size = PitUnits
  PROVE  /\ GetPit \in Seq(Steps \cup PitSteps) /\ Len(GetPit) = 2 * Parts + 3 /\ Parts \in Nat \ {0}
         /\ \A k \in 1 .. 2 * Parts : k % 2 = 1 => GetPit[k] = PitPart(k \div 2) /\ k \div 2 \in Nat
         /\ \A k \in 1 .. 2 * Parts : k % 2 # 1 =>
              GetPit[k] = PartBytes((k \div 2) - 1) /\ (k \div 2) - 1 \in 0 .. Parts - 1
         /\ GetPit[2 * Parts + 1] = Zlp /\ GetPit[2 * Parts + 2] = Complete
         /\ GetPit[2 * Parts + 3] = Expects(Complete)
<1> DEFINE N == 2 * Parts
           S == Steps \cup PitSteps
           a == [k \in 1 .. N |-> IF k % 2 = 1 THEN PitPart(k \div 2) ELSE PartBytes((k \div 2) - 1)]
           b == <<Zlp>>
           c == <<Complete, Expects(Complete)>>
<1>1. Parts \in Nat \ {0} /\ N \in Nat
  BY PartSizes
<1>2. ASSUME NEW k \in 1 .. N
      PROVE  /\ k % 2 = 1 => k \div 2 \in Nat
             /\ k % 2 # 1 => (k \div 2) - 1 \in 0 .. Parts - 1
  BY <1>1
<1>3. ASSUME NEW k \in 1 .. N PROVE a[k] \in S
  <2>1. CASE k % 2 = 1
    BY <2>1, <1>2 DEF PitSteps
  <2>2. CASE k % 2 # 1
    <3>1. PartLen((k \div 2) - 1) \in Int
      BY <2>2, <1>2, PartSizes
    <3>2. QED
      BY <2>2, <3>1 DEF PitSteps, PartBytes
  <2>3. QED
    BY <2>1, <2>2
<1>4. a \in Seq(S) /\ Len(a) = N
  BY <1>1, <1>3
<1>5. b \in Seq(S) /\ Len(b) = 1 /\ b[1] = Zlp
  BY DEF PitSteps
<1>6. c \in Seq(S) /\ Len(c) = 2 /\ c[1] = Complete /\ c[2] = Expects(Complete)
  BY GetSizeKinds DEF Steps
<1>7. Rpc("PIT", "COMPLETE", "checked") = c
  BY GetSizeKinds, Joined DEF Rpc, Answer, Complete
<1>8. GetPit = a \o b \o c
  BY <1>7 DEF GetPit
<1>9. \A k \in 1 .. N : a[k] = IF k % 2 = 1 THEN PitPart(k \div 2) ELSE PartBytes((k \div 2) - 1)
  OBVIOUS
<1> HIDE DEF a, b, c, S, N
<1> DEFINE ab == a \o b
<1>10. /\ ab \in Seq(S) /\ Len(ab) = N + 1 /\ ab[N + 1] = Zlp
       /\ \A k \in 1 .. N : ab[k] = a[k]
  <2>1. ab \in Seq(S) /\ Len(ab) = N + 1 /\ (\A k \in 1 .. N : ab[k] = a[k]) /\ ab[N + 1] = b[1]
    BY <1>1, <1>4, <1>5, Concat
  <2>2. QED
    BY <2>1, <1>5
<1> HIDE DEF ab
<1>11. /\ GetPit \in Seq(S) /\ Len(GetPit) = N + 3
       /\ \A k \in 1 .. N + 1 : GetPit[k] = ab[k]
       /\ GetPit[N + 2] = c[1] /\ GetPit[N + 3] = c[2]
  <2>1. GetPit = ab \o c
    BY <1>8 DEF ab
  <2>2. QED
    <3>1. /\ ab \o c \in Seq(S) /\ Len(ab \o c) = Len(ab) + Len(c)
          /\ \A i \in 1 .. Len(ab) : (ab \o c)[i] = ab[i]
          /\ \A i \in 1 .. Len(c) : (ab \o c)[Len(ab) + i] = c[i]
      <4>1. ab \in Seq(S) /\ c \in Seq(S)
        BY <1>10, <1>6
      <4>2. QED
        BY <4>1, Concat
    <3>2. /\ (ab \o c)[N + 2] = c[1] /\ (ab \o c)[N + 3] = c[2]
      <4>1. /\ (ab \o c)[(N + 1) + 1] = c[1] /\ (ab \o c)[(N + 1) + 2] = c[2]
        BY <3>1, <1>10, <1>6
      <4>2. (N + 1) + 1 = N + 2 /\ (N + 1) + 2 = N + 3
        BY <1>1
      <4>3. QED
        BY <4>1, <4>2
    <3>3. QED
      BY <2>1, <3>1, <3>2, <1>1, <1>10, <1>6
<1>12. \A k \in 1 .. N : GetPit[k] = a[k]
  BY <1>1, <1>10, <1>11
<1>13. GetPit[N + 1] = Zlp /\ GetPit[N + 2] = Complete /\ GetPit[N + 3] = Expects(Complete)
  BY <1>1, <1>6, <1>10, <1>11
<1>14. QED
  BY <1>1, <1>2, <1>9, <1>11, <1>12, <1>13 DEF N, S

\* What a step does to the session, whatever the transport.
Idle == UNCHANGED <<transport, plan, connected, done, todo, got, attempt, size, pit, result, toDev, fromDev, notDone>>

Fits == Len(Head(fromDev)) <= Room
Over == Len(Head(fromDev)) > Room
Listening ==
  /\ Receiving /\ fromDev # << >>
  /\ UNCHANGED <<plan, connected, done, todo, attempt, size, pit, result, toDev, notDone>>
TakesAll == Listening /\ Head(fromDev) # << >> /\ Fits /\ got' = got \o Head(fromDev) /\ fromDev' = Tail(fromDev)
TakesPart ==
  /\ Listening /\ transport = "tcp"
  /\ \E k \in 1 .. Len(Head(fromDev)) - 1 :
       /\ k <= Room
       /\ got' = got \o SubSeq(Head(fromDev), 1, k)
       /\ fromDev' = <<SubSeq(Head(fromDev), k + 1, Len(Head(fromDev)))>> \o Tail(fromDev)
Drops == Listening /\ transport # "tcp" /\ (Head(fromDev) = << >> \/ Over) /\ got' = got /\ fromDev' = Tail(fromDev)

Falls ==
  /\ Busy
  /\ todo' = << >> /\ got' = << >> /\ connected' \in BOOLEAN
  /\ fromDev' = fromDev \/ (fromDev # << >> /\ fromDev' = Tail(fromDev))
  /\ \/ Op = "pit_size" /\ attempt < PitAttempts /\ done' = done /\ result' = result
     \/ Op = "reboot" /\ done' = done + 1 /\ result' = result
     \/ result' = "failed" /\ done' = done
  /\ UNCHANGED <<plan, attempt, size, pit, toDev, notDone>>

Goes ==
  /\ Busy
  /\ todo' = Tail(todo) /\ got' = << >>
  /\ done' = IF Len(todo) = 1 THEN done + 1 ELSE done
  /\ UNCHANGED <<plan, connected, attempt, result, notDone>>
Asks    == Goes /\ Now.do = "send" /\ toDev' = Append(toDev, Now) /\ UNCHANGED <<size, pit, fromDev>>
Accepted ==
  /\ Goes /\ Now.do = "recv" /\ Len(got) >= Needed /\ Success
  /\ size' = IF Op = "pit_size" THEN got[1].size ELSE size
  /\ pit'  = IF Now.type = "bytes" THEN pit \o got ELSE pit
  /\ UNCHANGED <<toDev, fromDev>>
Skips ==
  /\ Goes /\ Now.do = "zlp"
  /\ fromDev' = fromDev \/ (transport # "tcp" /\ fromDev # << >> /\ fromDev' = Tail(fromDev))
  /\ UNCHANGED <<size, pit, toDev>>

Took == \E up \in BOOLEAN : SendFails(up) \/ RecvFails(up)

\* Nothing before or after a sequence.
LEMMA EmptyJoin ==
  ASSUME NEW S, NEW s \in Seq(S)
  PROVE  << >> \o s = s /\ s \o << >> = s
BY ConcatEmptySeq

\* A failure of a call, at once or with its last packet lost.
LEMMA FailMove ==
  ASSUME NEW up \in BOOLEAN, Busy, Outcome(up), fromDev' = fromDev \/ (fromDev # << >> /\ fromDev' = Tail(fromDev)),
         UNCHANGED <<transport, plan, attempt, size, pit, toDev, notDone>>
  PROVE  Falls
BY DEF Falls, Outcome, FailureDropped

\* Every step of the caller and its transport is one of the moves above.
LEMMA HostMoves ==
  ASSUME TypeOK, HostStep \/ Took, ~SendTorn
  PROVE  \/ Begin \/ Finish \/ Idle \/ Asks \/ TakesAll \/ TakesPart \/ Drops \/ Falls \/ Accepted \/ Skips
<1>0. /\ fromDev \in Seq(Seq(Unit)) /\ got \in Seq(Unit) /\ connected \in BOOLEAN
      /\ fromDev # << >> => Head(fromDev) \in Seq(Unit) /\ Tail(fromDev) \in Seq(Seq(Unit)) /\ Len(Head(fromDev)) \in Nat
  BY DEF TypeOK
<1>1. ASSUME NEW rest, rest = << >>, fromDev # << >> PROVE rest \o Tail(fromDev) = Tail(fromDev)
  BY <1>0, <1>1, EmptyJoin
<1>2. got \o << >> = got
  BY <1>0, EmptyJoin
<1>3. CASE Begin \/ Finish
  BY <1>3
<1>4. CASE Lost
  BY <1>4, FailMove DEF Lost, Fail
<1>5. CASE SendWhole
  BY <1>5 DEF SendWhole, Asks, Goes, Advance
<1>6. CASE SendTimesOut
  BY <1>6 DEF SendTimesOut, Idle
<1>7. CASE RecvPacket
  <2>1. Head(fromDev) # << >>
    BY <1>7, <1>0 DEF RecvPacket
  <2>2. QED
    BY <1>7, <1>0, <1>1, <2>1 DEF RecvPacket, Receive, TakesAll, Listening, Fits
<1>8. CASE RecvBytes
  <2> DEFINE h == Head(fromDev)
  <2>1. fromDev # << >> /\ h \in Seq(Unit) /\ Len(h) \in Nat /\ Receiving
    BY <1>8, <1>0 DEF RecvBytes
  <2>2. PICK k \in 1 .. Len(h) :
          k <= Room /\
          LET rest == SubSeq(h, k + 1, Len(h))
          IN  Receive(SubSeq(h, 1, k), IF rest = << >> THEN << >> ELSE <<rest>>, 0)
    BY <1>8 DEF RecvBytes
  <2>3. CASE k = Len(h)
    <3>1. SubSeq(h, k + 1, Len(h)) = << >>
      <4>1. k + 1 \in Int /\ Len(h) \in Int /\ Len(h) < k + 1
        BY <2>1, <2>3
      <4>2. QED
        BY <4>1, SubSeqEmpty
    <3>2. SubSeq(h, 1, k) = h /\ h # << >>
      <4>1. SubSeq(h, 1, Len(h)) = h
        BY <2>1, SubSeqFull
      <4>2. QED
        BY <4>1, <2>1, <2>3
    <3>3. Receive(h, << >>, 0)
      BY <2>2, <3>1, <3>2
    <3>4. TakesAll
      BY <1>8, <2>1, <2>2, <2>3, <3>2, <3>3, <1>1 DEF Receive, TakesAll, Listening, Fits, RecvBytes
    <3>5. QED
      BY <3>4
  <2>4. CASE k # Len(h)
    <3>1. k \in 1 .. Len(h) - 1
      BY <2>1, <2>4
    <3>2. Len(SubSeq(h, k + 1, Len(h))) = Len(h) - (k + 1) + 1
      <4>1. \A i \in k + 1 .. Len(h) : h[i] \in Unit
        BY <2>1
      <4>2. QED
        BY <4>1, <2>1, <3>1, SubSeqProperties
    <3>3. SubSeq(h, k + 1, Len(h)) # << >>
      <4>1. Len(SubSeq(h, k + 1, Len(h))) # 0
        BY <3>1, <3>2, <2>1
      <4>2. Len(<< >>) = 0
        OBVIOUS
      <4>3. QED
        BY <4>1, <4>2
    <3>4. Receive(SubSeq(h, 1, k), <<SubSeq(h, k + 1, Len(h))>>, 0)
      BY <2>2, <3>3
    <3>5. TakesPart
      BY <1>8, <2>1, <2>2, <3>1, <3>4 DEF Receive, TakesPart, Listening, RecvBytes
    <3>6. QED
      BY <3>5
  <2>5. QED
    BY <2>3, <2>4
<1>9. CASE RecvOverflow
  <2>1. CASE transport = "usbfs" /\ tries < Retries
    BY <1>9, <2>1, <1>1, <1>2 DEF RecvOverflow, Receive, Drops, Listening, Over
  <2>2. CASE ~(transport = "usbfs" /\ tries < Retries)
    <3>1. Outcome(TRUE) /\ fromDev' = Tail(fromDev) /\ fromDev # << >> /\ Busy
          /\ UNCHANGED <<transport, plan, attempt, size, pit, toDev, notDone>>
      BY <1>9, <2>2 DEF RecvOverflow, Receiving
    <3>2. Falls
      BY <3>1, FailMove
    <3>3. QED
      BY <3>2
  <2>3. QED
    BY <2>1, <2>2
<1>10. CASE RecvEmpty
  <2>1. CASE transport = "android" /\ tries < Retries /\ Receive(<< >>, << >>, tries + 1)
    BY <1>10, <2>1, <1>1, <1>2 DEF RecvEmpty, Receive, Drops, Listening
  <2>2. CASE \E up \in BOOLEAN : /\ Outcome(up) /\ fromDev' = Tail(fromDev)
                                    /\ UNCHANGED <<transport, plan, attempt, size, pit, toDev, notDone>>
    BY <1>10, <2>2, FailMove DEF RecvEmpty, Receiving
  <2>3. QED
    BY <1>10, <2>1, <2>2 DEF RecvEmpty
<1>11. CASE RecvTimesOut
  <2>1. CASE transport # "tcp" /\ tries < Retries
    BY <1>11, <2>1 DEF RecvTimesOut, Idle
  <2>2. CASE ~(transport # "tcp" /\ tries < Retries)
    BY <1>11, <2>2, FailMove DEF RecvTimesOut, Receiving, Fail
  <2>3. QED
    BY <2>1, <2>2
<1>12. CASE Received
  <2>1. Busy /\ connected /\ Now.do = "recv" /\ Len(got) >= Needed
    BY <1>12 DEF Received
  <2>2. CASE Success
    <3>1. /\ Advance
          /\ size' = IF Op = "pit_size" THEN got[1].size ELSE size
          /\ pit'  = IF Now.type = "bytes" THEN pit \o got ELSE pit
          /\ UNCHANGED <<toDev, fromDev, notDone>>
      BY <1>12, <2>2 DEF Received, Success
    <3>2. Accepted
      BY <2>1, <2>2, <3>1 DEF Accepted, Goes, Advance
    <3>3. QED
      BY <3>2
  <2>3. CASE ~Success
    <3>1. \/ Fail(TRUE)
          \/ /\ result' = "failed" /\ todo' = << >> /\ got' = << >>
             /\ UNCHANGED <<transport, plan, connected, done, tries, attempt, size, pit, toDev, fromDev, notDone>>
      BY <1>12, <2>3 DEF Received, Success
    <3>2. Falls
      BY <3>1, <2>1, <1>0, FailMove DEF Fail, Falls
    <3>3. QED
      BY <3>2
  <2>4. QED
    BY <2>2, <2>3
<1>13. CASE RecvZlp
  BY <1>13 DEF RecvZlp, Skips, Goes, Advance
<1>14. CASE Took
  BY <1>14, FailMove DEF Took, SendFails, RecvFails, Receiving, Fail
<1>15. QED
  BY <1>3, <1>4, <1>5, <1>6, <1>7, <1>8, <1>9, <1>10, <1>11, <1>12, <1>13, <1>14 DEF HostStep

\* Where the operations stand in a plan.
LEMMA PlanShape ==
  ASSUME TypeOK
  PROVE  /\ plan \in Seq(Ops) /\ Len(plan) \in Nat /\ done \in 0 .. Len(plan)
         /\ \A i \in 1 .. Len(plan) : plan[i] \in Ops
         /\ \A i \in 1 .. Len(plan) : plan[i] = "pit_size" => i + 1 <= Len(plan) /\ plan[i + 1] = "get_pit"
         /\ \A i \in 1 .. Len(plan) : plan[i] = "get_pit" => i - 1 >= 1 /\ plan[i - 1] = "pit_size"
         /\ \A i, j \in 1 .. Len(plan) : plan[i] = "get_pit" /\ plan[j] = "get_pit" => i = j
         /\ \A i, j \in 1 .. Len(plan) : plan[i] = "end" /\ j > i => plan[j] = "reboot"
         /\ \A i \in 1 .. Len(plan) : plan[i] = "reboot" => i = Len(plan)
<1>1. plan \in Plans /\ done \in 0 .. Len(plan)
  BY DEF TypeOK
<1>2. plan \in Seq(Ops)
  BY <1>1, PlansAssumption
<1>3. Len(plan) \in Nat /\ DOMAIN plan = 1 .. Len(plan) /\ \A i \in 1 .. Len(plan) : plan[i] \in Ops
  BY <1>2
<1>4. ASSUME NEW i \in 1 .. Len(plan)
      PROVE  /\ plan[i] = "pit_size" => i + 1 <= Len(plan) /\ plan[i + 1] = "get_pit"
             /\ plan[i] = "get_pit" => i - 1 >= 1 /\ plan[i - 1] = "pit_size"
             /\ \A j \in 1 .. Len(plan) : plan[i] = "get_pit" /\ plan[j] = "get_pit" => i = j
             /\ \A j \in 1 .. Len(plan) : plan[i] = "end" /\ j > i => plan[j] = "reboot"
             /\ plan[i] = "reboot" => i = Len(plan)
  <2>1. i \in DOMAIN plan
    BY <1>3
  <2>2. /\ plan[i] = "pit_size" => i + 1 \in DOMAIN plan /\ plan[i + 1] = "get_pit"
        /\ plan[i] = "get_pit" => i - 1 \in DOMAIN plan /\ plan[i - 1] = "pit_size"
        /\ \A j \in DOMAIN plan : plan[i] = "get_pit" /\ plan[j] = "get_pit" => i = j
        /\ \A j \in DOMAIN plan : plan[i] = "end" /\ j > i => plan[j] = "reboot"
        /\ plan[i] = "reboot" => i = Len(plan)
    <3>1. \A k \in DOMAIN plan :
            /\ plan[k] = "pit_size" => k + 1 \in DOMAIN plan /\ plan[k + 1] = "get_pit"
            /\ plan[k] = "get_pit" => k - 1 \in DOMAIN plan /\ plan[k - 1] = "pit_size"
            /\ \A j \in DOMAIN plan : plan[k] = "get_pit" /\ plan[j] = "get_pit" => k = j
            /\ \A j \in DOMAIN plan : plan[k] = "end" /\ j > k => plan[j] = "reboot"
            /\ plan[k] = "reboot" => k = Len(plan)
      BY <1>1, PlansAssumption, Zenon
    <3>2. QED
      BY <2>1, <3>1, Zenon
  <2>3. \A j : j \in DOMAIN plan <=> j \in 1 .. Len(plan)
    BY <1>3
  <2>4. /\ i + 1 \in 1 .. Len(plan) => i + 1 <= Len(plan)
        /\ i - 1 \in 1 .. Len(plan) => i - 1 >= 1
    BY <1>3
  <2>5. QED
    BY <2>2, <2>3, <2>4, Zenon
<1>5. QED
  BY <1>1, <1>2, <1>3, <1>4, Zenon

\* The elements of a sequence, of its head and of its tail.
LEMMA SeqFacts ==
  ASSUME NEW S, NEW s \in Seq(S)
  PROVE  /\ Len(s) \in Nat /\ (s = << >> <=> Len(s) = 0)
         /\ \A i \in 1 .. Len(s) : s[i] \in S
         /\ s # << >> => /\ Head(s) = s[1] /\ s[1] \in S /\ Tail(s) \in Seq(S) /\ Len(Tail(s)) = Len(s) - 1
                         /\ \A i \in 1 .. Len(s) - 1 : Tail(s)[i] = s[i + 1]
<1>1. Len(s) \in Nat /\ (s = << >> <=> Len(s) = 0) /\ \A i \in 1 .. Len(s) : s[i] \in S
  BY EmptySeq
<1>2. CASE s # << >>
  <2>1. Head(s) = s[1] /\ s[1] \in S
    BY <1>1, <1>2
  <2>2. Tail(s) \in Seq(S) /\ Len(Tail(s)) = Len(s) - 1 /\ \A i \in 1 .. Len(Tail(s)) : Tail(s)[i] = s[i + 1]
    BY <1>2, HeadTailProperties
  <2>3. QED
    BY <1>1, <2>1, <2>2
<1>3. QED
  BY <1>1, <1>2

\* The elements of a sequence that grew.
LEMMA AppendFacts ==
  ASSUME NEW S, NEW s \in Seq(S), NEW e \in S
  PROVE  /\ Append(s, e) \in Seq(S) /\ Len(Append(s, e)) = Len(s) + 1
         /\ \A i \in 1 .. Len(s) : Append(s, e)[i] = s[i]
         /\ Append(s, e)[Len(s) + 1] = e
BY AppendProperties

\* The steps of a script by what they do.
LEMMA StepSorts ==
  ASSUME NEW x \in Steps \cup PitSteps
  PROVE  /\ x.do = "send" => x \in Transfers
         /\ x.do = "send" /\ x \in Steps => x \in Requests
<1>1. CASE x \in Requests
  BY <1>1 DEF Transfers
<1>2. ASSUME NEW r \in Requests, x = Expects(r) PROVE x.do = "recv"
  BY <1>2, ExpectsKinds
<1>3. ASSUME NEW i \in Nat, x = PitPart(i) PROVE x \in Transfers
  BY <1>3 DEF Transfers
<1>4. ASSUME NEW n \in Int, x = Recv(n, n, "bytes", "none") PROVE x.do = "recv"
  BY <1>4 DEF Recv
<1>5. CASE x = Zlp
  BY <1>5 DEF Zlp, Steps, Transfers
<1>6. CASE x \in Steps
  BY <1>1, <1>2, <1>6 DEF Steps
<1>7. CASE x \in PitSteps
  <2>1. x.do = "send" => x \in Transfers
    BY <1>3, <1>4, <1>5, <1>7 DEF PitSteps
  <2>2. QED
    BY <2>1, <1>6
<1>8. QED
  BY <1>6, <1>7

\* The bytes of a part of the PIT, and when an empty packet may follow them.
PartEnd(t) == (t.part + 1) * ChunkUnits
Bytes(t, b) == b = SubSeq(DevicePit, t.part * ChunkUnits + 1, IF PartEnd(t) < PitUnits THEN PartEnd(t) ELSE PitUnits)
Trails(t) == PartEnd(t) >= PitUnits /\ transport # "tcp"

\* What the phone does with a transfer.
DeviceMove(t) ==
  /\ toDev # << >> /\ t = Head(toDev) /\ toDev' = Tail(toDev) /\ UNCHANGED host
  /\ \/ t \in Requests /\ fromDev' = Append(fromDev, <<Yes(t)>>) /\ notDone' = notDone
     \/ t \in Requests /\ (\E u \in No(t) : fromDev' = Append(fromDev, <<u>>)) /\ notDone' = notDone \cup {t}
     \/ IsPart(t) /\ (\E u \in No(GetSize) : fromDev' = Append(fromDev, <<u>>)) /\ notDone' = notDone \cup {t}
     \/ /\ IsPart(t) /\ notDone' = notDone
        /\ \E b \in Seq(PitUnit) :
             /\ Bytes(t, b)
             /\ fromDev' = Append(fromDev, b) \/ (Trails(t) /\ fromDev' = Append(Append(fromDev, b), << >>))
     \/ fromDev' = fromDev /\ notDone' = notDone \cup {t}

\* Every step of the phone is one of its moves.
LEMMA DeviceMoves ==
  ASSUME TypeOK, DeviceAnswers \/ DeviceRefuses \/ DeviceIgnores
  PROVE  \E t \in Transfers : DeviceMove(t)
<1> DEFINE t == Head(toDev)
<1>1. toDev # << >> /\ toDev' = Tail(toDev) /\ UNCHANGED host
  BY DEF DeviceAnswers, DeviceRefuses, DeviceIgnores, DeviceTakes
<1>2. t \in Transfers /\ fromDev \in Seq(Seq(Unit))
  BY <1>1 DEF TypeOK
<1> HIDE DEF t
<1>3. ASSUME NEW b PROVE fromDev \o <<b>> = Append(fromDev, b)
  <2>1. PICK S : fromDev \in Seq(S)
    BY <1>2
  <2>2. QED
    BY <2>1, AppendIsConcat
<1>4. CASE DeviceIgnores
  <2>1. fromDev' = fromDev \o << >> /\ notDone' = notDone \cup {t}
    BY <1>4 DEF DeviceIgnores, DeviceTakes, t
  <2>2. fromDev' = fromDev
    BY <2>1, <1>2, EmptyJoin
  <2>3. QED
    BY <2>1, <2>2, <1>1, <1>2 DEF DeviceMove, t
<1>5. CASE DeviceRefuses
  <2>1. PICK a \in {Box("FAIL", FALSE, 0), Box(AnswerId(t), FALSE, 0)} :
          /\ t.param = "TARGET" => a[1].id = "FAIL"
          /\ fromDev' = fromDev \o <<a>> /\ notDone' = notDone \cup {t}
    BY <1>5 DEF DeviceRefuses, DeviceTakes, t
  <2>2. PICK u : a = <<u>> /\ u \in {[kind |-> "box", id |-> "FAIL", ok |-> FALSE, size |-> 0],
                                     [kind |-> "box", id |-> AnswerId(t), ok |-> FALSE, size |-> 0]}
    BY DEF Box
  <2>3. fromDev' = Append(fromDev, <<u>>)
    BY <2>1, <2>2, <1>3
  <2>4. CASE t \in Requests
    <3>1. u \in No(t)
      <4>1. CASE u.id = "FAIL"
        <5>1. u = [kind |-> "box", id |-> "FAIL", ok |-> FALSE, size |-> 0]
          BY <4>1, <2>2
        <5>2. QED
          BY <5>1 DEF No
      <4>2. CASE u.id # "FAIL"
        <5>1. u = [kind |-> "box", id |-> AnswerId(t), ok |-> FALSE, size |-> 0]
          BY <4>2, <2>2
        <5>2. t.param # "TARGET"
          BY <4>2, <2>1, <2>2
        <5>3. QED
          BY <5>1, <5>2 DEF No
      <4>3. QED
        BY <4>1, <4>2
    <3>2. QED
      BY <2>1, <2>3, <2>4, <3>1, <1>1, <1>2 DEF DeviceMove, t
  <2>5. CASE t \notin Requests
    <3>1. IsPart(t) /\ AnswerId(t) = "PIT"
      <4>1. IsPart(t)
        BY <2>5, <1>2, TransferKinds
      <4>2. PICK i \in Nat : t = PitPart(i)
        BY <2>5, <1>2 DEF Transfers
      <4>3. AnswerId(t) = "PIT"
        BY <4>2 DEF AnswerId, PitPart
      <4>4. QED
        BY <4>1, <4>3
    <3>2. u \in No(GetSize)
      BY <2>2, <3>1, GetSizeKinds DEF No
    <3>3. QED
      BY <2>1, <2>3, <3>1, <3>2, <1>1, <1>2 DEF DeviceMove, t
  <2>6. QED
    BY <2>4, <2>5
<1>6. CASE DeviceAnswers
  <2>1. PICK a \in Reply(t) : fromDev' = fromDev \o a /\ notDone' = notDone \cup {}
    BY <1>6 DEF DeviceAnswers, DeviceTakes, t
  <2>2. notDone' = notDone
    BY <2>1
  <2>3. CASE t \in Requests
    <3>1. a = << <<Yes(t)>> >>
      <4>1. CASE t.type = "PING"
        BY <4>1, <2>1 DEF Reply, Yes
      <4>2. CASE t.type # "PING"
        BY <4>2, <2>1, <2>3, RequestKinds DEF Reply, Yes, Box
      <4>3. QED
        BY <4>1, <4>2
    <3>2. fromDev' = Append(fromDev, <<Yes(t)>>)
      BY <3>1, <2>1, <1>3
    <3>3. QED
      BY <2>2, <2>3, <3>2, <1>1, <1>2 DEF DeviceMove, t
  <2>4. CASE t \notin Requests
    <3>1. PICK i \in Nat : t = PitPart(i)
      BY <2>4, <1>2 DEF Transfers
    <3>2. t.type = "PIT" /\ t.param = "PART" /\ t.part = i
      BY <3>1 DEF PitPart
    <3> DEFINE end == (t.part + 1) * ChunkUnits
               first == t.part * ChunkUnits + 1
               last == IF end < PitUnits THEN end ELSE PitUnits
               bytes == SubSeq(DevicePit, first, last)
    <3>3. a = <<bytes>> \/ (Trails(t) /\ a = <<bytes, << >>>>)
      BY <3>2, <2>1 DEF Reply, Trails, PartEnd
    <3>4. bytes \in Seq(PitUnit)
      <4>1. first \in Nat \ {0} /\ last \in Int /\ last <= PitUnits
        <5>1. t.part * ChunkUnits \in Nat /\ end \in Nat
          BY <3>2, Bounds
        <5>2. QED
          BY <5>1, Bounds
      <4> HIDE DEF first, last
      <4>2. \A j \in first .. last : DevicePit[j] \in PitUnit
        BY <4>1, Bounds DEF DevicePit, PitUnit
      <4>3. QED
        BY <4>1, <4>2, SubSeqProperties
    <3>7. Bytes(t, bytes)
      BY DEF Bytes, PartEnd
    <3> HIDE DEF bytes
    <3>5. fromDev' = Append(fromDev, bytes) \/ (Trails(t) /\ fromDev' = Append(Append(fromDev, bytes), << >>))
      <4>1. CASE a = <<bytes>>
        BY <4>1, <2>1, <1>3
      <4>2. CASE Trails(t) /\ a = <<bytes, << >>>>
        <5>1. PICK S : fromDev \in Seq(S) /\ bytes \in S /\ << >> \in S
          <6> DEFINE S0 == Seq(Unit) \cup {bytes, << >>}
          <6>1. fromDev \in Seq(S0)
            BY <1>2, SeqMonotonic
          <6>2. QED
            BY <6>1
        <5>2. a = <<bytes>> \o <<<< >>>>
          BY <4>2, Joined
        <5>3. <<bytes>> \in Seq(S) /\ <<<< >>>> \in Seq(S)
          BY <5>1
        <5>4. fromDev \o (<<bytes>> \o <<<< >>>>) = (fromDev \o <<bytes>>) \o <<<< >>>>
          BY <5>1, <5>3, ConcatAssociative
        <5>5. (fromDev \o <<bytes>>) = Append(fromDev, bytes)
          BY <1>3
        <5>6. Append(fromDev, bytes) \o <<<< >>>> = Append(Append(fromDev, bytes), << >>)
          <6>1. Append(fromDev, bytes) \in Seq(S)
            BY <5>1
          <6>2. QED
            BY <6>1, <5>1, AppendIsConcat
        <5>7. QED
          BY <2>1, <4>2, <5>2, <5>4, <5>5, <5>6
      <4>3. QED
        BY <3>3, <4>1, <4>2
    <3>6. QED
      BY <2>2, <3>1, <3>2, <3>4, <3>5, <3>7, <1>1, <1>2, PartKinds DEF DeviceMove, t
  <2>5. QED
    BY <2>3, <2>4
<1>7. QED
  BY <1>4, <1>5, <1>6

\* Every step is a move of the caller or of the phone.
LEMMA Moves ==
  ASSUME TypeOK, Smooth
  PROVE  \/ Begin \/ Finish \/ Idle \/ Asks \/ TakesAll \/ TakesPart \/ Drops \/ Falls \/ Accepted \/ Skips
         \/ \E t \in Transfers : DeviceMove(t)
<1>1. CASE HostStep \/ Took
  BY <1>1, HostMoves DEF Smooth
<1>2. CASE DeviceAnswers \/ DeviceRefuses \/ DeviceIgnores
  BY <1>2, DeviceMoves
<1>3. CASE UNCHANGED vars
  BY <1>3 DEF Idle, vars, host
<1>4. QED
  BY <1>1, <1>2, <1>3 DEF Smooth, Next, Took

\* The plan stays, and only the phone refuses.
LEMMA PlanKept ==
  ASSUME TypeOK, Smooth
  PROVE  plan' = plan /\ (notDone' = notDone \/ \E t \in Transfers : DeviceMove(t))
BY Moves DEF Begin, Finish, Idle, Asks, Goes, TakesAll, TakesPart, Drops, Listening, Falls, Accepted, Skips, DeviceMove, host

\* A part of a packet, and what is left of it.
LEMMA Cut ==
  ASSUME NEW S, NEW h \in Seq(S), NEW k \in 1 .. Len(h) - 1
  PROVE  /\ SubSeq(h, 1, k) \in Seq(S) /\ Len(SubSeq(h, 1, k)) = k
         /\ SubSeq(h, k + 1, Len(h)) \in Seq(S) /\ Len(SubSeq(h, k + 1, Len(h))) = Len(h) - k
<1>1. Len(h) \in Nat /\ \A i \in 1 .. Len(h) : h[i] \in S
  BY SeqFacts
<1>2. \A i \in 1 .. k : h[i] \in S
  BY <1>1
<1>3. \A i \in k + 1 .. Len(h) : h[i] \in S
  BY <1>1
<1>4. SubSeq(h, 1, k) \in Seq(S) /\ Len(SubSeq(h, 1, k)) = IF 1 <= k THEN k - 1 + 1 ELSE 0
  BY <1>1, <1>2, SubSeqProperties
<1>5. /\ SubSeq(h, k + 1, Len(h)) \in Seq(S)
      /\ Len(SubSeq(h, k + 1, Len(h))) = IF k + 1 <= Len(h) THEN Len(h) - (k + 1) + 1 ELSE 0
  BY <1>1, <1>3, SubSeqProperties
<1>6. QED
  BY <1>1, <1>4, <1>5

\* A packet of which a part is left.
LEMMA PutBack ==
  ASSUME NEW S, NEW e \in S, NEW s \in Seq(S)
  PROVE  /\ <<e>> \o s \in Seq(S) /\ Len(<<e>> \o s) = Len(s) + 1 /\ (<<e>> \o s)[1] = e
         /\ \A i \in 1 .. Len(s) : (<<e>> \o s)[1 + i] = s[i]
<1> DEFINE a == <<e>>
<1>1. a \in Seq(S) /\ Len(a) = 1 /\ a[1] = e
  OBVIOUS
<1> HIDE DEF a
<1>2. /\ a \o s \in Seq(S) /\ Len(a \o s) = Len(a) + Len(s)
      /\ \A i \in 1 .. Len(a) : (a \o s)[i] = a[i]
      /\ \A i \in 1 .. Len(s) : (a \o s)[Len(a) + i] = s[i]
  BY <1>1, Concat
<1>3. Len(s) \in Nat
  OBVIOUS
<1>4. QED
  BY <1>1, <1>2, <1>3 DEF a

\* The types hold at first.
LEMMA TypeInitial ==
  ASSUME Init
  PROVE  TypeOK
<1>1. plan \in Plans /\ plan \in Seq(Ops)
  BY PlansAssumption DEF Init
<1>2. QED
  BY <1>1, EmptySeq DEF Init, TypeOK

\* The phone sends units.
LEMMA DeviceTyped ==
  ASSUME TypeOK, NEW t \in Transfers, DeviceMove(t)
  PROVE  fromDev' \in Seq(Seq(Unit))
<1>0. fromDev \in Seq(Seq(Unit))
  BY DEF TypeOK
<1>1. ASSUME NEW u \in Unit PROVE <<u>> \in Seq(Unit)
  OBVIOUS
<1>2. ASSUME NEW b \in Seq(Unit) PROVE Append(fromDev, b) \in Seq(Seq(Unit)) /\ Append(Append(fromDev, b), << >>) \in Seq(Seq(Unit))
  <2>1. << >> \in Seq(Unit) /\ Append(fromDev, b) \in Seq(Seq(Unit))
    BY <1>0
  <2>2. QED
    BY <2>1
<1>3. ASSUME NEW b \in Seq(PitUnit) PROVE b \in Seq(Unit)
  BY SeqMonotonic DEF Unit
<1>4. t \in Requests => <<Yes(t)>> \in Seq(Unit) /\ \A u \in No(t) : <<u>> \in Seq(Unit)
  BY <1>1, YesKinds, NoKinds
<1>5. \A u \in No(GetSize) : <<u>> \in Seq(Unit)
  BY <1>1, NoKinds, GetSizeKinds
<1>6. QED
  BY <1>2, <1>3, <1>4, <1>5, <1>0 DEF DeviceMove

\* Every step keeps the types.
LEMMA TypeStep ==
  ASSUME OInv, Smooth
  PROVE  TypeOK'
<1> USE DEF OInv
<1>1. /\ plan \in Plans /\ connected \in BOOLEAN /\ done \in 0 .. Len(plan) /\ Len(plan) \in Nat
      /\ todo \in Seq(Steps \cup PitSteps)
      /\ tries \in Nat /\ attempt \in Nat /\ result \in {"running", "done", "failed"}
      /\ got \in Seq(Unit) /\ pit \in Seq(Unit) /\ fromDev \in Seq(Seq(Unit))
      /\ toDev \in Seq(Transfers) /\ notDone \in SUBSET Transfers
      /\ (todo # << >> => done < Len(plan))
  <2>1. Len(plan) \in Nat
    BY PlanShape
  <2>2. QED
    BY <2>1 DEF TypeOK
<1>2. fromDev # << >> => Head(fromDev) \in Seq(Unit) /\ Tail(fromDev) \in Seq(Seq(Unit)) /\ Len(Head(fromDev)) \in Nat
  BY <1>1
<1>3. todo # << >> => /\ Now \in Steps \cup PitSteps /\ Tail(todo) \in Seq(Steps \cup PitSteps)
                      /\ Len(Tail(todo)) = Len(todo) - 1 /\ (Tail(todo) # << >> => Len(todo) # 1)
  <2> SUFFICES ASSUME todo # << >>
               PROVE  /\ Now \in Steps \cup PitSteps /\ Tail(todo) \in Seq(Steps \cup PitSteps)
                      /\ Len(Tail(todo)) = Len(todo) - 1 /\ (Tail(todo) # << >> => Len(todo) # 1)
    OBVIOUS
  <2>1. /\ Now \in Steps \cup PitSteps /\ Tail(todo) \in Seq(Steps \cup PitSteps)
        /\ Len(Tail(todo)) = Len(todo) - 1
    BY <1>1 DEF Now
  <2>2. Tail(todo) # << >> => Len(Tail(todo)) # 0
    BY <2>1, EmptySeq
  <2>3. QED
    BY <2>1, <2>2, <1>1
<1>4. tries' \in Nat
  <2>1. CASE RecvPacket \/ RecvBytes \/ RecvOverflow \/ RecvEmpty \/ RecvTimesOut
    <3>1. tries + 1 \in Nat /\ 0 \in Nat
      BY <1>1
    <3>2. CASE RecvPacket \/ RecvBytes
      <4>1. CASE RecvPacket
        BY <4>1 DEF RecvPacket, Receive
      <4>2. CASE RecvBytes
        <5>1. PICK k \in 1 .. Len(Head(fromDev)) :
                LET rest == SubSeq(Head(fromDev), k + 1, Len(Head(fromDev)))
                IN  Receive(SubSeq(Head(fromDev), 1, k), IF rest = << >> THEN << >> ELSE <<rest>>, 0)
          BY <4>2 DEF RecvBytes
        <5>2. QED
          BY <5>1 DEF Receive
      <4>3. QED
        BY <3>2, <4>1, <4>2
    <3>3. CASE RecvOverflow
      BY <3>1, <3>3 DEF RecvOverflow, Receive, Outcome
    <3>4. CASE RecvEmpty
      <4>1. CASE Receive(<< >>, << >>, tries + 1)
        BY <3>1, <4>1 DEF Receive
      <4>2. CASE \E up \in BOOLEAN : Outcome(up)
        BY <4>2 DEF Outcome
      <4>3. QED
        BY <3>4, <4>1, <4>2 DEF RecvEmpty
    <3>5. CASE RecvTimesOut
      BY <3>1, <3>5 DEF RecvTimesOut, Fail, Outcome
    <3>6. QED
      BY <2>1, <3>2, <3>3, <3>4, <3>5
  <2>2. CASE Begin \/ Finish \/ Lost \/ SendWhole \/ SendTimesOut \/ Received \/ RecvZlp
    <3>1. CASE Begin \/ Finish
      BY <3>1, <1>1 DEF Begin, Finish, Outcome
    <3>2. CASE Lost \/ SendTimesOut
      BY <3>2, <1>1 DEF Lost, SendTimesOut, Fail, Outcome
    <3>3. CASE SendWhole \/ RecvZlp
      BY <3>3, <1>1 DEF SendWhole, RecvZlp, Advance
    <3>4. CASE Received
      <4>1. CASE Advance
        BY <4>1 DEF Advance
      <4>2. CASE Fail(TRUE)
        BY <4>2 DEF Fail, Outcome
      <4>3. CASE tries' = tries
        BY <4>3, <1>1
      <4>4. Advance \/ Fail(TRUE) \/ tries' = tries
        BY <3>4 DEF Received
      <4>5. QED
        BY <4>1, <4>2, <4>3, <4>4
    <3>5. QED
      BY <2>2, <3>1, <3>2, <3>3, <3>4
  <2>3. CASE Took
    BY <2>3, <1>1 DEF Took, SendFails, RecvFails, Fail, Outcome
  <2>4. CASE DeviceAnswers \/ DeviceRefuses \/ DeviceIgnores \/ UNCHANGED vars
    BY <2>4, <1>1 DEF DeviceAnswers, DeviceRefuses, DeviceIgnores, DeviceTakes, vars, host
  <2>5. QED
    BY <2>1, <2>2, <2>3, <2>4 DEF Smooth, Next, HostStep, Took
<1>5. CASE Begin
  <2>1. Script(Op) \in Seq(Steps \cup PitSteps)
    <3>1. Op \in Ops /\ Live
      BY <1>5, <1>1, PlanShape DEF Begin, Op, Live
    <3>2. CASE Op = "get_pit"
      <4>1. size = PitUnits
        BY <3>1, <3>2 DEF Reading, Laying
      <4>2. QED
        BY <4>1, <3>2, GetPitSteps DEF Script
    <3>3. CASE Op # "get_pit"
      <4>1. Script(Op) \in Seq(Steps)
        BY <3>1, <3>3, Scripts DEF Dialogue
      <4>2. QED
        BY <4>1, SeqMonotonic
    <3>4. QED
      BY <3>2, <3>3
  <2>2. QED
    BY <2>1, <1>1, <1>4, <1>5 DEF Begin, TypeOK
<1>6. CASE Finish
  BY <1>1, <1>4, <1>6 DEF Finish, TypeOK
<1>7. CASE Idle
  BY <1>1, <1>4, <1>7 DEF Idle, TypeOK
<1>8. CASE Asks
  <2>1. Now \in Transfers /\ todo # << >>
    BY <1>3, <1>8, StepSorts DEF Asks, Goes, Busy
  <2>2. Append(toDev, Now) \in Seq(Transfers)
    BY <2>1, <1>1
  <2>3. << >> \in Seq(Unit)
    OBVIOUS
  <2>4. QED
    BY <2>1, <2>2, <2>3, <1>1, <1>3, <1>4, <1>8 DEF Asks, Goes, TypeOK
<1>9. CASE TakesAll
  <2>1. got \o Head(fromDev) \in Seq(Unit)
    BY <1>1, <1>2, <1>9 DEF TakesAll, Listening
  <2>2. QED
    BY <2>1, <1>1, <1>2, <1>4, <1>9 DEF TakesAll, Listening, TypeOK
<1>10. CASE TakesPart
  <2>1. PICK k \in 1 .. Len(Head(fromDev)) - 1 :
           /\ got' = got \o SubSeq(Head(fromDev), 1, k)
           /\ fromDev' = <<SubSeq(Head(fromDev), k + 1, Len(Head(fromDev)))>> \o Tail(fromDev)
    BY <1>10 DEF TakesPart
  <2>2. SubSeq(Head(fromDev), 1, k) \in Seq(Unit) /\ SubSeq(Head(fromDev), k + 1, Len(Head(fromDev))) \in Seq(Unit)
    BY <1>2, <1>10, Cut DEF TakesPart, Listening
  <2>3. got' \in Seq(Unit)
    BY <2>1, <2>2, <1>1
  <2>4. fromDev' \in Seq(Seq(Unit))
    BY <2>1, <2>2, <1>2, <1>10, PutBack DEF TakesPart, Listening
  <2>5. QED
    BY <2>3, <2>4, <1>1, <1>4, <1>10 DEF TakesPart, Listening, TypeOK
<1>11. CASE Drops
  BY <1>1, <1>2, <1>4, <1>11 DEF Drops, Listening, TypeOK
<1>12. CASE Falls
  <2>1. << >> \in Seq(Unit) /\ << >> \in Seq(Steps \cup PitSteps)
    OBVIOUS
  <2>2. done' \in 0 .. Len(plan) /\ result' \in {"running", "done", "failed"}
    BY <1>1, <1>12 DEF Falls, Busy
  <2>3. fromDev' \in Seq(Seq(Unit))
    BY <1>1, <1>2, <1>12 DEF Falls
  <2>4. QED
    BY <2>1, <2>2, <2>3, <1>1, <1>4, <1>12 DEF Falls, TypeOK
<1>13. CASE Accepted
  <2>1. << >> \in Seq(Unit) /\ pit' \in Seq(Unit)
    BY <1>1, <1>13 DEF Accepted
  <2>2. QED
    BY <2>1, <1>1, <1>3, <1>4, <1>13 DEF Accepted, Goes, Busy, TypeOK
<1>14. CASE Skips
  <2>1. << >> \in Seq(Unit)
    OBVIOUS
  <2>3. fromDev' \in Seq(Seq(Unit))
    BY <1>1, <1>2, <1>14 DEF Skips
  <2>2. QED
    BY <2>1, <2>3, <1>1, <1>3, <1>4, <1>14 DEF Skips, Goes, Busy, TypeOK
<1>15. ASSUME NEW t \in Transfers, DeviceMove(t)
       PROVE  TypeOK'
  <2>1. Tail(toDev) \in Seq(Transfers) /\ notDone' \in SUBSET Transfers
    BY <1>1, <1>15 DEF DeviceMove
  <2>2. fromDev' \in Seq(Seq(Unit))
    BY <1>15, DeviceTyped
  <2>3. QED
    BY <2>1, <2>2, <1>1, <1>4, <1>15 DEF DeviceMove, host, TypeOK
<1>16. QED
  BY <1>5, <1>6, <1>7, <1>8, <1>9, <1>10, <1>11, <1>12, <1>13, <1>14, <1>15, Moves

\* Sequences of one element and of none.
LEMMA SingleFacts ==
  ASSUME NEW a
  PROVE  /\ Append(<< >>, a) = <<a>> /\ Head(<<a>>) = a /\ Tail(<<a>>) = << >> /\ Len(<<a>>) = 1 /\ <<a>> # << >>
         /\ << >> \o <<a>> = <<a>> /\ <<a>>[1] = a /\ Len(<< >>) = 0
OBVIOUS

\* An operation that is a dialogue stays one, until it is over with everything answered.
LEMMA TalkStep ==
  ASSUME TypeOK, Live, Op \notin {"pit_size", "get_pit"}, Talking, Smooth
  PROVE  \/ done' = done /\ result' = result /\ Talking'
         \/ done' = done + 1 /\ todo' = << >> /\ Quiet' /\ Honest({})' /\ result' = result
         \/ done' = done + 1 /\ Op = "reboot"
         \/ done' = done /\ result' = "failed"
<1> DEFINE A == Quiet /\ Honest({}) /\ Dialogue(todo)
           B(r) == todo # << >> /\ Dialogue(Tail(todo)) /\ Now = Expects(r) /\ Await(r)
<1>1. A \/ \E r \in Requests : B(r)
  BY DEF Talking
<1>2. A /\ todo # << >> => Now \in Requests /\ Now.do = "send"
  BY DialogueStep, RequestKinds DEF Now
<1>3. \A r \in Requests : B(r) => Now.do = "recv" /\ Now.type # "bytes"
  BY ExpectsKinds
<1>4. ASSUME Quiet, Honest({}), Dialogue(todo)', Quiet', notDone' = notDone PROVE Talking'
  BY <1>4 DEF Talking, Honest
<1>5. ASSUME NEW r \in Requests, (todo # << >>)', Dialogue(Tail(todo))', (Now = Expects(r))', Await(r)' PROVE Talking'
  BY <1>5 DEF Talking
<1>6. todo \in Seq(Steps \cup PitSteps) /\ Len(todo) \in Nat /\ got \in Seq(Unit)
  BY DEF TypeOK
<1>7. CASE Begin
  <2>1. todo = << >> /\ A
    BY <1>7, <1>1 DEF Begin
  <2>2. Op \in Ops \ {"get_pit"}
    <3>1. done + 1 \in 1 .. Len(plan)
      BY PlanShape DEF Live
    <3>2. QED
      BY <3>1, PlanShape DEF Op
  <2>3. todo' = Script(Op) /\ Dialogue(Script(Op))
    BY <1>7, <2>2, Scripts DEF Begin
  <2>4. Dialogue(todo)'
    BY <2>3 DEF Dialogue
  <2>5. Quiet' /\ notDone' = notDone /\ done' = done /\ result' = result
    BY <1>7, <2>1 DEF Begin, Quiet
  <2>6. QED
    BY <2>1, <2>4, <2>5, <1>4
<1>8. CASE Finish
  BY <1>8, PlanShape DEF Finish, Live
<1>9. CASE Idle
  BY <1>9 DEF Idle, Talking, Quiet, Honest, Dialogue, Await, Holding, Now
<1>10. CASE Asks
  <2>1. A /\ todo # << >> /\ Now.do = "send"
    BY <1>10, <1>1, <1>3 DEF Asks, Goes, Busy
  <2>2. /\ Now \in Requests /\ Tail(todo) # << >> /\ Head(Tail(todo)) = Expects(Now)
        /\ Dialogue(Tail(Tail(todo))) /\ Len(todo) >= 2
    BY <2>1, DialogueStep DEF Now
  <2>3. PICK n \in Requests : n = Now
    BY <2>2
  <2>4. todo' = Tail(todo) /\ done' = done /\ result' = result /\ notDone' = notDone /\ got' = << >> /\ fromDev' = << >>
    BY <1>10, <2>1, <2>2, <1>6 DEF Asks, Goes, Quiet
  <2>5. toDev' = <<n>>
    BY <1>10, <2>1, <2>3, SingleFacts DEF Asks, Quiet
  <2>6. Await(n)'
    BY <2>1, <2>4, <2>5 DEF Await, Honest
  <2>7. (Now = Expects(n))' /\ (todo # << >>)' /\ Dialogue(Tail(todo))'
    BY <2>2, <2>3, <2>4 DEF Now, Dialogue
  <2>8. QED
    BY <2>4, <2>6, <2>7, <1>5
<1>11. ASSUME TakesAll \/ TakesPart \/ Drops
       PROVE  done' = done /\ result' = result /\ Talking'
  <2>1. Listening /\ Now.do = "recv" /\ fromDev # << >>
    BY <1>11 DEF TakesAll, TakesPart, Drops, Listening, Receiving
  <2>2. PICK r \in Requests : B(r)
    BY <1>1, <1>2, <2>1 DEF Listening, Receiving, Busy
  <2>3. /\ done' = done /\ result' = result /\ toDev' = toDev /\ notDone' = notDone
        /\ (Now = Expects(r))' /\ (todo # << >>)' /\ Dialogue(Tail(todo))'
    BY <2>1, <2>2 DEF Listening, Now, Dialogue
  <2>4. PICK u : /\ Holding(u) /\ fromDev = << <<u>> >> /\ got = << >> /\ toDev = << >>
                 /\ (u = Yes(r) /\ Honest({})) \/ (u \in No(r) /\ Honest({r}))
    BY <2>1, <2>2, SingleFacts DEF Await, Holding, Quiet
  <2>5. Head(fromDev) = <<u>> /\ Len(Head(fromDev)) = 1 /\ Tail(fromDev) = << >>
    BY <2>4, SingleFacts
  <2>6. CASE TakesAll
    <3>1. got' = <<u>> /\ fromDev' = << >> /\ toDev' = << >>
      BY <2>3, <2>4, <2>5, <2>6, SingleFacts DEF TakesAll
    <3>2. Await(r)'
      BY <2>3, <2>4, <3>1 DEF Await, Holding, Honest, Yes, No
    <3>3. QED
      BY <2>3, <3>2, <1>5
  <2>7. CASE TakesPart
    BY <2>5, <2>7 DEF TakesPart
  <2>8. CASE Drops
    <3>1. Quiet' /\ Honest({r})'
      BY <2>3, <2>4, <2>5, <2>8 DEF Drops, Quiet, Honest
    <3>2. Await(r)'
      BY <3>1 DEF Await
    <3>3. QED
      BY <2>3, <3>2, <1>5
  <2>9. QED
    BY <1>11, <2>6, <2>7, <2>8
<1>12. CASE Falls
  BY <1>12 DEF Falls
<1>13. CASE Accepted
  <2>1. Now.do = "recv" /\ Busy /\ Len(got) >= Needed /\ Success
    BY <1>13 DEF Accepted, Goes
  <2>2. PICK r \in Requests : B(r)
    BY <1>1, <1>2, <2>1 DEF Busy
  <2>3. Needed \in Nat \ {0}
    BY <2>2, ExpectsKinds DEF Needed
  <2>4. got # << >>
    BY <2>1, <2>3, SingleFacts
  <2>5. PICK u : /\ got = <<u>> /\ fromDev = << >> /\ toDev = << >>
                 /\ (u = Yes(r) /\ Honest({})) \/ (u \in No(r) /\ Honest({r}))
    BY <2>2, <2>4 DEF Await, Holding, Quiet
  <2>6. Honest({})
    <3>1. CASE u \in No(r) /\ Honest({r})
      <4>1. MayBeLost(r)
        <5>1. CASE r = GetSize
          BY <5>1, GetSizeKinds
        <5>2. CASE r # GetSize
          BY <5>2, <3>1, <2>1, <2>2, <2>5, SingleFacts, Judged
        <5>3. QED
          BY <5>1, <5>2
      <4>2. QED
        BY <3>1, <4>1 DEF Honest
    <3>2. QED
      BY <2>5, <3>1
  <2>7. /\ todo' = Tail(todo) /\ result' = result /\ notDone' = notDone /\ Quiet'
        /\ done' = IF Len(todo) = 1 THEN done + 1 ELSE done
    BY <1>13, <2>5 DEF Accepted, Goes, Quiet
  <2>8. CASE Len(todo) = 1
    <3>1. todo' = << >>
      BY <2>2, <2>7, <2>8, <1>6
    <3>2. QED
      BY <3>1, <2>6, <2>7, <2>8 DEF Honest
  <2>9. CASE Len(todo) # 1
    <3>1. Dialogue(todo)'
      BY <2>2, <2>7 DEF Dialogue
    <3>2. Talking'
      BY <3>1, <2>6, <2>7 DEF Talking, Honest
    <3>3. QED
      BY <3>2, <2>7, <2>9
  <2>10. QED
    BY <2>8, <2>9
<1>14. CASE Skips
  BY <1>14, <1>1, <1>2, <1>3 DEF Skips, Goes, Busy
<1>15. ASSUME NEW t \in Transfers, DeviceMove(t)
       PROVE  done' = done /\ result' = result /\ Talking'
  <2>1. toDev # << >> /\ t = Head(toDev) /\ toDev' = Tail(toDev) /\ UNCHANGED host
    BY <1>15 DEF DeviceMove
  <2>2. PICK r \in Requests : B(r) /\ toDev = <<r>> /\ fromDev = << >> /\ got = << >> /\ Honest({})
    BY <1>1, <2>1 DEF Quiet, Await, Holding
  <2>3. t = r /\ toDev' = << >> /\ got' = << >> /\ ~IsPart(r)
    BY <2>1, <2>2, SingleFacts, RequestKinds DEF host, IsPart
  <2>4. /\ done' = done /\ result' = result
        /\ (Now = Expects(r))' /\ (todo # << >>)' /\ Dialogue(Tail(todo))'
    BY <2>1, <2>2 DEF host, Now, Dialogue
  <2>5. Await(r)'
    <3>1. CASE fromDev' = Append(fromDev, <<Yes(r)>>) /\ notDone' = notDone
      <4>1. fromDev' = << <<Yes(r)>> >> /\ Honest({})'
        BY <3>1, <2>2, SingleFacts DEF Honest
      <4>2. QED
        BY <4>1, <2>3 DEF Await, Holding, Yes
    <3>2. CASE (\E u \in No(r) : fromDev' = Append(fromDev, <<u>>)) /\ notDone' = notDone \cup {r}
      <4>1. PICK u \in No(r) : fromDev' = << <<u>> >>
        BY <3>2, <2>2, SingleFacts
      <4>2. Honest({r})'
        BY <3>2, <2>2 DEF Honest
      <4>3. QED
        BY <4>1, <4>2, <2>3 DEF Await, Holding, No
    <3>3. CASE fromDev' = fromDev /\ notDone' = notDone \cup {r}
      BY <3>3, <2>2, <2>3 DEF Await, Quiet, Honest
    <3>4. QED
      BY <1>15, <2>3, <3>1, <3>2, <3>3 DEF DeviceMove
  <2>6. QED
    BY <2>4, <2>5, <1>5
<1>16. QED
  BY <1>7, <1>8, <1>9, <1>10, <1>11, <1>12, <1>13, <1>14, <1>15, Moves

\* What is left after the size has come.
Drained ==
  /\ todo = << >> /\ got = << >>
  /\ \A i \in 1 .. Len(toDev) : toDev[i] = GetSize
  /\ \A i \in 1 .. Len(fromDev) : \E u \in Stale : fromDev[i] = <<u>>
  /\ Honest({}) /\ Total < PitAttempts /\ size = PitUnits

StaleIn(s) == \A i \in 1 .. Len(s) : \E u \in Stale : s[i] = <<u>>

\* A late answer to pit_size with a size has the right one.
LEMMA StaleKinds ==
  ASSUME NEW u \in Stale
  PROVE  /\ u \in Unit /\ u.kind = "box"
         /\ u.size > 0 => u = Yes(GetSize) /\ u.size = PitUnits
<1>1. GetSize \in Requests /\ GetSize.type = "PIT"
  BY GetSizeKinds
<1>2. CASE u = Yes(GetSize)
  BY <1>1, <1>2, YesKinds
<1>3. CASE u \in No(GetSize)
  <2>1. u.size = 0 /\ u \in Unit /\ u.kind = "box"
    BY <1>1, <1>3, NoKinds
  <2>2. ~(u.size > 0)
    BY <2>1
  <2>3. QED
    BY <2>1, <2>2
<1>4. QED
  BY <1>2, <1>3 DEF Stale

\* pit_size: an answer for every attempt at most, and the size that is taken is the phone's.
LEMMA AskStep ==
  ASSUME TypeOK, Live, Op = "pit_size", Asking, Smooth
  PROVE  \/ done' = done /\ result' = result /\ Asking'
         \/ done' = done + 1 /\ result' = result /\ Drained'
         \/ done' = done /\ result' = "failed"
<1> DEFINE I   == todo = << >> /\ got = << >> /\ Total <= attempt /\ attempt < PitAttempts
           II  == todo = <<GetSize, Expects(GetSize)>> /\ got = << >> /\ Total < attempt /\ attempt <= PitAttempts
           III == /\ todo = <<Expects(GetSize)>> /\ Total <= attempt /\ attempt <= PitAttempts
                  /\ got = << >> \/ \E u \in Stale : got = <<u>>
           Clean == /\ \A i \in 1 .. Len(toDev) : toDev[i] = GetSize
                    /\ StaleIn(fromDev) /\ Honest({})
<1>1. Clean /\ (I \/ II \/ III)
  BY DEF Asking, StaleIn
<1>2. ASSUME Clean', I' \/ II' \/ III' PROVE Asking'
  BY <1>2 DEF Asking, StaleIn
<1>3. /\ fromDev \in Seq(Seq(Unit)) /\ toDev \in Seq(Transfers) /\ got \in Seq(Unit) /\ attempt \in Nat
      /\ Len(fromDev) \in Nat /\ Len(toDev) \in Nat /\ Len(got) \in Nat /\ Total \in Nat
      /\ PitAttempts \in Nat
  BY Bounds DEF TypeOK, Total
<1>4. /\ II => todo # << >> /\ Now = GetSize /\ Now.do = "send" /\ Len(todo) = 2 /\ Tail(todo) = <<Expects(GetSize)>>
      /\ III => todo # << >> /\ Now = Expects(GetSize) /\ Now.do = "recv" /\ Len(todo) = 1 /\ Tail(todo) = << >>
  <2>1. II => todo # << >> /\ Now = GetSize /\ Len(todo) = 2 /\ Tail(todo) = <<Expects(GetSize)>>
    BY Two DEF Now
  <2>2. III => todo # << >> /\ Now = Expects(GetSize) /\ Len(todo) = 1 /\ Tail(todo) = << >>
    BY SingleFacts DEF Now
  <2>3. GetSize.do = "send" /\ Expects(GetSize).do = "recv"
    BY GetSizeKinds, RequestKinds, ExpectsKinds
  <2>4. QED
    BY <2>1, <2>2, <2>3
<1>5. Needed = 1 \/ ~III
  BY <1>4, GetSizeKinds, ExpectsKinds DEF Needed
<1>6. fromDev # << >> =>
        /\ \E u \in Stale : Head(fromDev) = <<u>>
        /\ Tail(fromDev) \in Seq(Seq(Unit)) /\ Len(Tail(fromDev)) = Len(fromDev) - 1 /\ StaleIn(Tail(fromDev))
  <2> SUFFICES ASSUME fromDev # << >>
               PROVE  /\ \E u \in Stale : Head(fromDev) = <<u>>
                      /\ Tail(fromDev) \in Seq(Seq(Unit)) /\ Len(Tail(fromDev)) = Len(fromDev) - 1 /\ StaleIn(Tail(fromDev))
    OBVIOUS
  <2>1. /\ Head(fromDev) = fromDev[1] /\ Tail(fromDev) \in Seq(Seq(Unit)) /\ Len(Tail(fromDev)) = Len(fromDev) - 1
        /\ \A i \in 1 .. Len(fromDev) - 1 : Tail(fromDev)[i] = fromDev[i + 1]
        /\ Len(fromDev) # 0
    BY <1>3, SeqFacts
  <2>2. 1 \in 1 .. Len(fromDev) /\ \A i \in 1 .. Len(fromDev) - 1 : i + 1 \in 1 .. Len(fromDev)
    BY <2>1, <1>3
  <2>3. QED
    BY <2>1, <2>2, <1>1 DEF StaleIn
<1>7. CASE Begin
  <2>1. I /\ attempt' = attempt + 1 /\ todo' = Rpc("PIT", "GET", "out")
    BY <1>7, <1>1, <1>4 DEF Begin, Script
  <2>2. Rpc("PIT", "GET", "out") = <<GetSize, Expects(GetSize)>>
    BY Joined, GetSizeKinds DEF Rpc, Answer, GetSize
  <2>3. done' = done /\ result' = result /\ got' = << >> /\ toDev' = toDev /\ fromDev' = fromDev /\ notDone' = notDone
    BY <1>7, <2>1 DEF Begin
  <2>4. Clean'
    BY <2>3, <1>1 DEF StaleIn, Honest
  <2>5. II'
    BY <2>1, <2>2, <2>3, <1>3 DEF Total, GetSize, Expects, AnswerId
  <2>6. QED
    BY <2>3, <2>4, <2>5, <1>2
<1>8. CASE Finish
  BY <1>8, PlanShape DEF Finish, Live
<1>9. CASE Idle
  BY <1>9 DEF Idle, Asking, Total, Honest
<1>10. CASE Asks
  <2>1. II
    BY <1>10, <1>1, <1>4 DEF Asks, Goes, Busy
  <2>2. /\ todo' = <<Expects(GetSize)>> /\ got' = << >> /\ done' = done /\ result' = result /\ notDone' = notDone
        /\ attempt' = attempt /\ fromDev' = fromDev /\ toDev' = Append(toDev, GetSize)
    BY <1>10, <2>1, <1>4 DEF Asks, Goes
  <2>3. /\ Len(toDev') = Len(toDev) + 1 /\ \A i \in 1 .. Len(toDev') : toDev'[i] = GetSize
    <3>1. GetSize \in Transfers
      BY GetSizeKinds DEF Transfers
    <3>2. /\ Len(toDev') = Len(toDev) + 1 /\ toDev'[Len(toDev) + 1] = GetSize
          /\ \A i \in 1 .. Len(toDev) : toDev'[i] = toDev[i]
      BY <2>2, <3>1, <1>3, AppendFacts
    <3>3. ASSUME NEW i \in 1 .. Len(toDev') PROVE toDev'[i] = GetSize
      <4>1. i = Len(toDev) + 1 \/ i \in 1 .. Len(toDev)
        BY <3>2, <1>3
      <4>2. QED
        BY <4>1, <3>2, <1>1
    <3>4. QED
      BY <3>2, <3>3
  <2>4. Clean'
    BY <2>2, <2>3, <1>1 DEF StaleIn, Honest
  <2>5. Total' <= attempt'
    BY <2>1, <2>2, <2>3, <1>3, SingleFacts DEF Total
  <2>6. III'
    BY <2>1, <2>2, <2>5 DEF Expects, GetSize, AnswerId
  <2>7. QED
    BY <2>2, <2>4, <2>6, <1>2
<1>11. ASSUME TakesAll \/ TakesPart \/ Drops
       PROVE  done' = done /\ result' = result /\ Asking'
  <2>1. Listening /\ Now.do = "recv" /\ fromDev # << >> /\ III /\ Len(got) < Needed
    BY <1>11, <1>1, <1>4 DEF TakesAll, TakesPart, Drops, Listening, Receiving, Busy
  <2>2. got = << >>
    BY <2>1, <1>5, SingleFacts
  <2>3. /\ done' = done /\ result' = result /\ toDev' = toDev /\ notDone' = notDone /\ todo' = todo /\ attempt' = attempt
    BY <2>1 DEF Listening
  <2>4. PICK u \in Stale : Head(fromDev) = <<u>>
    BY <2>1, <1>6
  <2>5. fromDev' = Tail(fromDev) /\ (got' = <<u>> \/ got' = << >>)
    <3>1. CASE TakesAll
      BY <3>1, <2>2, <2>4, SingleFacts DEF TakesAll
    <3>2. CASE TakesPart
      <4>1. Len(Head(fromDev)) - 1 = 0
        BY <2>4, SingleFacts
      <4>2. PICK k : k \in 1 .. Len(Head(fromDev)) - 1
        BY <3>2 DEF TakesPart
      <4>3. k \in 1 .. 0
        BY <4>1, <4>2
      <4>4. QED
        BY <4>3
    <3>3. CASE Drops
      BY <3>3, <2>2 DEF Drops
    <3>4. QED
      BY <1>11, <3>1, <3>2, <3>3
  <2>6. Clean'
    BY <2>1, <2>3, <2>5, <1>1, <1>6 DEF StaleIn, Honest
  <2>7. Total' <= attempt'
    <3>1. Len(got) = 0 /\ (Len(got') = 0 \/ Len(got') = 1)
      BY <2>2, <2>5, SingleFacts
    <3>2. Len(fromDev') = Len(fromDev) - 1 /\ Len(toDev') = Len(toDev)
      BY <2>1, <2>3, <2>5, <1>6
    <3>3. Total' <= Total
      <4>1. Total' = Len(toDev) + (Len(fromDev) - 1) + Len(got') /\ Total = Len(toDev) + Len(fromDev) + Len(got)
        BY <3>1, <3>2 DEF Total
      <4> DEFINE a == Len(toDev)
                 b == Len(fromDev)
      <4>2. a \in Nat /\ b \in Nat
        BY <1>3
      <4>3. Total = a + b /\ (Total' = a + (b - 1) \/ Total' = a + (b - 1) + 1)
        <5> HIDE DEF a, b
        <5>1. Total = a + b + 0
          BY <4>1, <3>1 DEF a, b
        <5>2. Total' = a + (b - 1) + 0 \/ Total' = a + (b - 1) + 1
          BY <4>1, <3>1 DEF a, b
        <5>3. QED
          BY <5>1, <5>2, <4>2
      <4> HIDE DEF a, b
      <4>4. QED
        BY <4>2, <4>3
    <3>4. Total <= attempt /\ attempt' = attempt /\ Total' \in Int
      BY <2>1, <2>3, <3>1, <3>2, <1>3 DEF Total
    <3>5. QED
      BY <3>3, <3>4, <1>3
  <2>8. III'
    BY <2>1, <2>3, <2>5, <2>7 DEF Expects, GetSize, AnswerId, Stale, Yes, No
  <2>9. QED
    BY <2>3, <2>6, <2>8, <1>2
<1>12. CASE Falls
  <2>1. /\ todo' = << >> /\ got' = << >> /\ attempt' = attempt /\ toDev' = toDev /\ notDone' = notDone /\ done' = done
        /\ fromDev' = fromDev \/ (fromDev # << >> /\ fromDev' = Tail(fromDev))
        /\ result' = "failed" \/ (attempt < PitAttempts /\ result' = result)
    BY <1>12 DEF Falls
  <2>2. Clean'
    BY <2>1, <1>1, <1>6 DEF StaleIn, Honest
  <2>3. Total <= attempt
    BY <1>1, <1>3
  <2>4. Total' <= Total
    BY <2>1, <1>3, <1>6, SingleFacts DEF Total
  <2>5. attempt < PitAttempts => I'
    BY <2>1, <2>3, <2>4, <1>3, <1>6, SingleFacts DEF Total
  <2>6. QED
    BY <2>1, <2>2, <2>5, <1>2
<1>13. CASE Accepted
  <2>1. Now.do = "recv" /\ Busy /\ Len(got) >= Needed /\ Success /\ III
    BY <1>13, <1>1, <1>4 DEF Accepted, Goes, Busy
  <2>2. PICK u \in Stale : got = <<u>>
    BY <2>1, <1>5, SingleFacts
  <2>3. u.size > 0
    BY <2>1, <2>2, <1>4, GetSizeKinds, ExpectsKinds, SingleFacts DEF Success
  <2>4. size' = PitUnits
    BY <1>13, <2>2, <2>3, StaleKinds, SingleFacts DEF Accepted
  <2>5. /\ todo' = << >> /\ got' = << >> /\ result' = result /\ notDone' = notDone /\ done' = done + 1
        /\ toDev' = toDev /\ fromDev' = fromDev
    BY <1>13, <2>1, <1>4 DEF Accepted, Goes
  <2>6. Total' < PitAttempts
    BY <2>1, <2>2, <2>5, <1>3, SingleFacts DEF Total
  <2>7. Drained'
    BY <2>4, <2>5, <2>6, <1>1 DEF Drained, StaleIn, Honest
  <2>8. QED
    BY <2>5, <2>7
<1>14. CASE Skips
  BY <1>14, <1>1, <1>4 DEF Skips, Goes, Busy
<1>15. ASSUME NEW t \in Transfers, DeviceMove(t)
       PROVE  done' = done /\ result' = result /\ Asking'
  <2>1. toDev # << >> /\ t = Head(toDev) /\ toDev' = Tail(toDev) /\ UNCHANGED host
    BY <1>15 DEF DeviceMove
  <2>2. /\ toDev[1] = t /\ Len(toDev) # 0 /\ Len(toDev') = Len(toDev) - 1
        /\ \A i \in 1 .. Len(toDev) - 1 : toDev'[i] = toDev[i + 1]
    BY <2>1, <1>3, SeqFacts
  <2>3. t = GetSize /\ ~IsPart(t) /\ \A i \in 1 .. Len(toDev') : toDev'[i] = GetSize
    <3>1. 1 \in 1 .. Len(toDev) /\ \A i \in 1 .. Len(toDev) - 1 : i + 1 \in 1 .. Len(toDev)
      BY <2>2, <1>3
    <3>2. QED
      BY <3>1, <2>2, <1>1, GetSizeKinds, RequestKinds DEF IsPart
  <2>4. fromDev' = fromDev \/ \E u \in Stale : fromDev' = Append(fromDev, <<u>>)
    BY <1>15, <2>3 DEF DeviceMove, Stale
  <2>5. StaleIn(fromDev') /\ Len(fromDev') \in Nat /\ Len(fromDev') <= Len(fromDev) + 1
    <3>1. CASE fromDev' = fromDev
      BY <3>1, <1>1, <1>3
    <3>2. ASSUME NEW u \in Stale, fromDev' = Append(fromDev, <<u>>)
          PROVE  StaleIn(fromDev') /\ Len(fromDev') \in Nat /\ Len(fromDev') <= Len(fromDev) + 1
      <4>1. <<u>> \in Seq(Unit)
        BY StaleKinds
      <4>2. /\ Len(fromDev') = Len(fromDev) + 1 /\ fromDev'[Len(fromDev) + 1] = <<u>>
            /\ \A i \in 1 .. Len(fromDev) : fromDev'[i] = fromDev[i]
        BY <4>1, <3>2, <1>3, AppendFacts
      <4>3. ASSUME NEW i \in 1 .. Len(fromDev') PROVE \E v \in Stale : fromDev'[i] = <<v>>
        <5>1. CASE i = Len(fromDev) + 1
          BY <5>1, <4>2
        <5>2. CASE i # Len(fromDev) + 1
          <6>1. i \in 1 .. Len(fromDev)
            BY <5>2, <4>2, <1>3
          <6>2. QED
            BY <6>1, <4>2, <1>1 DEF StaleIn
        <5>3. QED
          BY <5>1, <5>2
      <4>4. QED
        BY <4>2, <4>3, <1>3 DEF StaleIn
    <3>3. QED
      BY <2>4, <3>1, <3>2
  <2>6. Honest({})'
    <3>1. notDone' = notDone \/ notDone' = notDone \cup {GetSize}
      BY <1>15, <2>3 DEF DeviceMove
    <3>2. QED
      BY <3>1, <1>1, GetSizeKinds DEF Honest, MayBeLost
  <2>7. Clean'
    BY <2>3, <2>5, <2>6 DEF StaleIn, GetSize, Send, Stale, Yes, No
  <2>8. todo' = todo /\ got' = got /\ attempt' = attempt /\ done' = done /\ result' = result
    BY <2>1 DEF host
  <2>9. Total' <= Total
    BY <2>2, <2>5, <2>8, <1>3 DEF Total
  <2>10. Total' \in Nat
    BY <2>2, <2>5, <2>8, <1>3 DEF Total
  <2>11. I' \/ II' \/ III'
    BY <2>8, <2>9, <2>10, <1>1, <1>3
  <2>12. QED
    BY <2>7, <2>8, <2>11, <1>2
<1>16. QED
  BY <1>7, <1>8, <1>9, <1>10, <1>11, <1>12, <1>13, <1>14, <1>15, Moves

\* A sequence whose elements are in a smaller set.
LEMMA Narrowed ==
  ASSUME NEW T, NEW S, NEW s \in Seq(T), \A i \in 1 .. Len(s) : s[i] \in S
  PROVE  s \in Seq(S)
<1>1. Len(s) \in Nat /\ s \in [1 .. Len(s) -> T]
  BY LenProperties
<1>2. s \in [1 .. Len(s) -> S]
  BY <1>1
<1>3. QED
  BY <1>1, <1>2

\* The script of get_pit depends on the size alone.
LEMMA GetPitKept ==
  ASSUME size' = size
  PROVE  GetPit' = GetPit
BY DEF GetPit, Parts, PartBytes, PartLen

\* Where the script of get_pit stands.
Suffix(s) ==
  /\ Len(s) <= Len(GetPit)
  /\ \A k \in 1 .. Len(s) : s[k] = GetPit[Len(GetPit) - Len(s) + k]

\* Which step of get_pit comes next.
LEMMA Place ==
  ASSUME TypeOK, size = PitUnits, Suffix(todo), todo # << >>
  PROVE  /\ Len(todo) \in Nat \ {0} /\ Len(GetPit) \in Nat /\ Len(GetPit) >= 5
         /\ Len(todo) = 1 => Now = Expects(Complete)
         /\ Len(todo) = 2 => Now = Complete
         /\ Len(todo) = 3 => Now = Zlp
         /\ Len(todo) > 3 => (\E i \in Nat : Now = PitPart(i)) \/ (\E i \in 0 .. Parts - 1 : Now = PartBytes(i))
         /\ Len(todo) = Len(GetPit) => Now = PitPart(0)
         /\ Len(todo) = Len(GetPit) - 1 => Now = PartBytes(0)
         /\ Len(Tail(todo)) = Len(todo) - 1 /\ Suffix(Tail(todo))
<1> DEFINE n == Len(todo)
           L == Len(GetPit)
           N == 2 * Parts
           at == L - n + 1
<1>1. /\ n \in Nat \ {0} /\ Head(todo) = todo[1] /\ Tail(todo) \in Seq(Steps \cup PitSteps) /\ Len(Tail(todo)) = n - 1
      /\ \A i \in 1 .. n - 1 : Tail(todo)[i] = todo[i + 1]
  BY SeqFacts DEF TypeOK
<1>2. L = N + 3 /\ Parts \in Nat \ {0} /\ N \in Nat /\ N >= 2
  BY GetPitSteps
<1>3. n <= L /\ Now = GetPit[at]
  <2>1. n <= L /\ 1 \in 1 .. n /\ todo[1] = GetPit[L - n + 1]
    BY <1>1 DEF Suffix
  <2>2. QED
    BY <1>1, <2>1 DEF Now
<1>4. /\ GetPit[N + 1] = Zlp /\ GetPit[N + 2] = Complete /\ GetPit[N + 3] = Expects(Complete)
      /\ \A k \in 1 .. N : k % 2 = 1 => GetPit[k] = PitPart(k \div 2) /\ k \div 2 \in Nat
      /\ \A k \in 1 .. N : k % 2 # 1 => GetPit[k] = PartBytes((k \div 2) - 1) /\ (k \div 2) - 1 \in 0 .. Parts - 1
  BY GetPitSteps
<1> HIDE DEF N, L, n
<1>5. /\ n = 1 => at = N + 3
      /\ n = 2 => at = N + 2
      /\ n = 3 => at = N + 1
      /\ n > 3 => at \in 1 .. N
      /\ n = L => at = 1
      /\ n = L - 1 => at = 2
  BY <1>1, <1>2, <1>3
<1>6. /\ n = 1 => Now = Expects(Complete)
      /\ n = 2 => Now = Complete
      /\ n = 3 => Now = Zlp
  BY <1>3, <1>4, <1>5
<1>7. n > 3 => (\E i \in Nat : Now = PitPart(i)) \/ (\E i \in 0 .. Parts - 1 : Now = PartBytes(i))
  <2>1. CASE at % 2 = 1
    BY <2>1, <1>3, <1>4, <1>5
  <2>2. CASE at % 2 # 1
    BY <2>2, <1>3, <1>4, <1>5
  <2>3. QED
    BY <2>1, <2>2
<1>8. (n = L => Now = PitPart(0)) /\ (n = L - 1 => Now = PartBytes(0))
  <2>1. 1 \in 1 .. N /\ 2 \in 1 .. N /\ 1 % 2 = 1 /\ 2 % 2 # 1 /\ 1 \div 2 = 0 /\ (2 \div 2) - 1 = 0
    BY <1>2
  <2>2. GetPit[1] = PitPart(1 \div 2) /\ GetPit[2] = PartBytes((2 \div 2) - 1)
    BY <2>1, <1>4
  <2>3. GetPit[1] = PitPart(0) /\ GetPit[2] = PartBytes(0)
    BY <2>1, <2>2
  <2>4. QED
    BY <2>3, <1>3, <1>5
<1>9. Suffix(Tail(todo))
  <2>1. Len(Tail(todo)) <= L
    BY <1>1, <1>2, <1>3
  <2>2. ASSUME NEW k \in 1 .. Len(Tail(todo))
        PROVE  Tail(todo)[k] = GetPit[L - Len(Tail(todo)) + k]
    <3>1. k \in 1 .. n - 1 /\ k + 1 \in 1 .. n /\ L - n + (k + 1) = L - Len(Tail(todo)) + k
      BY <1>1, <1>2
    <3>2. todo[k + 1] = GetPit[L - n + (k + 1)]
      BY <3>1 DEF Suffix, n, L
    <3>3. QED
      BY <1>1, <3>1, <3>2
  <2>3. QED
    BY <2>1, <2>2 DEF Suffix, L
<1>10. QED
  <2>1. L \in Nat /\ L >= 5
    BY <1>2
  <2>2. n \in Nat \ {0} /\ Len(Tail(todo)) = n - 1
    BY <1>1
  <2>3. QED
    BY <2>1, <2>2, <1>6, <1>7, <1>8, <1>9, Zenon DEF n, L

\* The place of get_pit, by the kind of its next step.
LEMMA PlaceKinds ==
  ASSUME TypeOK, size = PitUnits, Suffix(todo), todo # << >>
  PROVE  /\ Now.do = "send" => (Len(todo) = 2 /\ Now = Complete) \/ (Len(todo) > 3 /\ \E i \in Nat : Now = PitPart(i))
         /\ Now.do = "recv" => (Len(todo) = 1 /\ Now = Expects(Complete))
                                 \/ (Len(todo) > 3 /\ Now.type = "bytes" /\ Needed \in Nat \ {0} /\ \E i \in 0 .. Parts - 1 : Now = PartBytes(i))
         /\ Now.do = "zlp" => Len(todo) = 3
<1>1. Complete.do = "send" /\ Expects(Complete).do = "recv" /\ Zlp.do = "zlp"
  BY GetSizeKinds, RequestKinds, ExpectsKinds DEF Zlp
<1>2. \A i \in Nat : PitPart(i).do = "send"
  BY PartKinds
<1>3. ASSUME NEW i \in 0 .. Parts - 1, Now = PartBytes(i)
      PROVE  Now.do = "recv" /\ Now.type = "bytes" /\ Needed \in Nat \ {0}
  <2>1. PartLen(i) \in Nat \ {0}
    BY PartSizes
  <2>2. Now.do = "recv" /\ Now.type = "bytes" /\ Now.min = PartLen(i) /\ Now.max = PartLen(i)
    BY <1>3 DEF PartBytes, Recv
  <2>3. QED
    BY <2>1, <2>2 DEF Needed
<1>4. Len(todo) = 1 \/ Len(todo) = 2 \/ Len(todo) = 3 \/ Len(todo) > 3
  BY Place
<1>5. CASE Len(todo) = 1
  BY <1>1, <1>5, Place
<1>6. CASE Len(todo) = 2
  BY <1>1, <1>6, Place
<1>7. CASE Len(todo) = 3
  BY <1>1, <1>7, Place
<1>8. CASE Len(todo) > 3
  <2>1. (\E i \in Nat : Now = PitPart(i)) \/ (\E i \in 0 .. Parts - 1 : Now = PartBytes(i))
    BY <1>8, Place
  <2>2. QED
    BY <2>1, <1>2, <1>3, <1>8
<1>9. QED
  BY <1>4, <1>5, <1>6, <1>7, <1>8

\* Only junk comes out of junk.
JunkOnly == fromDev \in Seq(Seq(Junk)) /\ got \in Seq(Junk)

\* Receiving junk leaves junk.
LEMMA ListenJunk ==
  ASSUME JunkOnly, TakesAll \/ TakesPart \/ Drops
  PROVE  JunkOnly'
<1>1. fromDev # << >> /\ Head(fromDev) \in Seq(Junk) /\ Tail(fromDev) \in Seq(Seq(Junk)) /\ got \in Seq(Junk)
  BY SeqFacts DEF JunkOnly, TakesAll, TakesPart, Drops, Listening
<1>2. CASE TakesAll
  BY <1>1, <1>2 DEF TakesAll, JunkOnly
<1>3. CASE TakesPart
  <2>1. PICK k \in 1 .. Len(Head(fromDev)) - 1 :
           /\ got' = got \o SubSeq(Head(fromDev), 1, k)
           /\ fromDev' = <<SubSeq(Head(fromDev), k + 1, Len(Head(fromDev)))>> \o Tail(fromDev)
    BY <1>3 DEF TakesPart
  <2>2. SubSeq(Head(fromDev), 1, k) \in Seq(Junk) /\ SubSeq(Head(fromDev), k + 1, Len(Head(fromDev))) \in Seq(Junk)
    BY <1>1, Cut
  <2>3. got' \in Seq(Junk)
    BY <2>1, <2>2, <1>1
  <2>4. fromDev' \in Seq(Seq(Junk))
    BY <2>1, <2>2, <1>1, PutBack
  <2>5. QED
    BY <2>3, <2>4 DEF JunkOnly
<1>4. CASE Drops
  BY <1>1, <1>4 DEF Drops, JunkOnly
<1>5. QED
  BY <1>2, <1>3, <1>4

\* An answer that would be accepted is not junk.
LEMMA RipeKinds ==
  /\ Len(Ripe) = 1 /\ Ripe[1] = Yes(GetSize) /\ Ripe \notin Seq(Junk) /\ Ripe # << >>
  /\ << >> \o Ripe = Ripe
<1>1. Len(Ripe) = 1 /\ Ripe[1] = Yes(GetSize) /\ Ripe # << >> /\ << >> \o Ripe = Ripe
  BY SingleFacts DEF Ripe
<1>2. ASSUME Ripe \in Seq(Junk) PROVE FALSE
  <2>1. Ripe[1] \in Junk
    BY <1>1, <1>2, SeqFacts
  <2>2. QED
    BY <1>1, <2>1, JunkKinds
<1>3. QED
  BY <1>1, <1>2

\* What the phone adds to the packets on their way.
LEMMA Growth ==
  ASSUME TypeOK, NEW t \in Transfers, DeviceMove(t)
  PROVE  /\ Len(toDev) \in Nat \ {0} /\ toDev[1] = t /\ Len(toDev') = Len(toDev) - 1
         /\ \A i \in 1 .. Len(toDev') : toDev'[i] = toDev[i + 1]
         /\ Len(fromDev) \in Nat /\ Len(fromDev') \in Nat /\ Len(fromDev) <= Len(fromDev')
         /\ \A i \in 1 .. Len(fromDev) : fromDev'[i] = fromDev[i]
         /\ IsPart(t) => \A i \in Len(fromDev) + 1 .. Len(fromDev') : fromDev'[i] \in Seq(Junk)
         /\ t \in {GetSize, Complete} =>
              \/ fromDev' = fromDev
              \/ /\ Len(fromDev') = Len(fromDev) + 1 /\ Len(fromDev'[Len(fromDev')]) = 1
                 /\ \/ fromDev'[Len(fromDev')] = Ripe /\ notDone' = notDone
                    \/ fromDev'[Len(fromDev')] \in Seq(Junk)
         /\ notDone' = notDone \/ notDone' = notDone \cup {t}
         /\ UNCHANGED host
<1>1. /\ Len(toDev) \in Nat \ {0} /\ toDev[1] = t /\ Len(toDev') = Len(toDev) - 1
      /\ \A i \in 1 .. Len(toDev') : toDev'[i] = toDev[i + 1]
  BY SeqFacts DEF DeviceMove, TypeOK
<1>2. fromDev \in Seq(Seq(Unit)) /\ Len(fromDev) \in Nat
  BY DEF TypeOK
<1>3. notDone' = notDone \/ notDone' = notDone \cup {t}
  BY DEF DeviceMove
<1> DEFINE old == /\ Len(fromDev') \in Nat /\ Len(fromDev) <= Len(fromDev')
                  /\ \A i \in 1 .. Len(fromDev) : fromDev'[i] = fromDev[i]
           parts == \A i \in Len(fromDev) + 1 .. Len(fromDev') : fromDev'[i] \in Seq(Junk)
           boxes == \/ fromDev' = fromDev
                    \/ /\ Len(fromDev') = Len(fromDev) + 1 /\ Len(fromDev'[Len(fromDev')]) = 1
                       /\ \/ fromDev'[Len(fromDev')] = Ripe /\ notDone' = notDone
                          \/ fromDev'[Len(fromDev')] \in Seq(Junk)
<1>4. ASSUME NEW S, NEW b \in S, NEW f \in Seq(S)
      PROVE  /\ Len(Append(f, b)) = Len(f) + 1 /\ Append(f, b)[Len(f) + 1] = b
             /\ \A i \in 1 .. Len(f) : Append(f, b)[i] = f[i]
  BY AppendFacts
<1>5. CASE fromDev' = fromDev
  <2>1. old /\ parts /\ boxes
    BY <1>2, <1>5
  <2>2. QED
    BY <2>1, <1>1, <1>2, <1>3 DEF DeviceMove
<1>6. ASSUME NEW b \in Seq(Unit), fromDev' = Append(fromDev, b),
             (Len(b) = 1 /\ b = Ripe /\ notDone' = notDone /\ ~IsPart(t)) \/ (Len(b) = 1 /\ b \in Seq(Junk))
      PROVE  old /\ (IsPart(t) => parts) /\ boxes
  <2>1. Len(fromDev') = Len(fromDev) + 1 /\ fromDev'[Len(fromDev) + 1] = b /\ \A i \in 1 .. Len(fromDev) : fromDev'[i] = fromDev[i]
    BY <1>2, <1>4, <1>6
  <2>2. \A i \in Len(fromDev) + 1 .. Len(fromDev') : i = Len(fromDev) + 1
    BY <2>1, <1>2
  <2>3. QED
    BY <2>1, <2>2, <1>2, <1>6
<1>7. ASSUME NEW b \in Seq(PitUnit), fromDev' = Append(fromDev, b) \/ fromDev' = Append(Append(fromDev, b), << >>), IsPart(t)
      PROVE  old /\ parts
  <2>1. b \in Seq(Unit) /\ b \in Seq(Junk) /\ << >> \in Seq(Unit) /\ << >> \in Seq(Junk)
    BY SeqMonotonic, EmptySeq DEF Unit, Junk
  <2> DEFINE f == Append(fromDev, b)
  <2>2. /\ f \in Seq(Seq(Unit)) /\ Len(f) = Len(fromDev) + 1 /\ f[Len(fromDev) + 1] = b
        /\ \A i \in 1 .. Len(fromDev) : f[i] = fromDev[i]
    BY <2>1, <1>2, AppendFacts
  <2> HIDE DEF f
  <2>3. CASE fromDev' = f
    <3>1. \A i \in Len(fromDev) + 1 .. Len(fromDev') : i = Len(fromDev) + 1
      BY <2>2, <2>3, <1>2
    <3>2. QED
      BY <2>1, <2>2, <2>3, <3>1, <1>2
  <2>4. CASE fromDev' = Append(f, << >>)
    <3>1. Len(fromDev') = Len(f) + 1 /\ fromDev'[Len(f) + 1] = << >> /\ \A i \in 1 .. Len(f) : fromDev'[i] = f[i]
      BY <2>1, <2>2, <2>4, AppendFacts
    <3>2. \A i \in Len(fromDev) + 1 .. Len(fromDev') : i = Len(fromDev) + 1 \/ i = Len(f) + 1
      BY <2>2, <3>1, <1>2
    <3>3. Len(fromDev) + 1 \in 1 .. Len(f)
      BY <2>2, <1>2
    <3>4. old
      BY <2>2, <3>1, <1>2
    <3>5. parts
      BY <2>1, <2>2, <3>1, <3>2, <3>3
    <3>6. QED
      BY <3>4, <3>5
  <2>5. QED
    BY <1>7, <2>3, <2>4 DEF f
<1>8. ASSUME NEW u \in No(GetSize) PROVE <<u>> \in Seq(Unit) /\ <<u>> \in Seq(Junk) /\ Len(<<u>>) = 1
  <2>1. u \in Unit /\ u \in Junk
    BY GetSizeKinds, NoKinds DEF Junk
  <2>2. QED
    BY <2>1
<1>9. CASE IsPart(t)
  <2>1. t \notin Requests /\ t \notin {GetSize, Complete}
    <3>1. t \notin Requests
      BY <1>9, TransferKinds
    <3>2. GetSize \in Requests /\ Complete \in Requests
      BY GetSizeKinds
    <3>3. QED
      BY <3>1, <3>2
  <2>2. old /\ parts
    BY <1>5, <1>6, <1>7, <1>8, <1>9, <2>1, <1>2 DEF DeviceMove
  <2>3. QED
    BY <2>1, <2>2, <1>1, <1>2, <1>3 DEF DeviceMove
<1>10. CASE t \in {GetSize, Complete}
  <2>1. t \in Requests /\ ~IsPart(t) /\ Yes(t) = Yes(GetSize) /\ No(t) = No(GetSize)
    BY <1>10, GetSizeKinds, RequestKinds DEF IsPart
  <2>2. Ripe \in Seq(Unit) /\ Len(Ripe) = 1 /\ <<Yes(t)>> = Ripe
    <3>1. Len(Ripe) = 1 /\ <<Yes(t)>> = Ripe
      BY <2>1, RipeKinds DEF Ripe
    <3>2. Yes(t) \in Unit
      BY <2>1, YesKinds
    <3>3. <<Yes(t)>> \in Seq(Unit)
      BY <3>2
    <3>4. QED
      BY <3>1, <3>3
  <2>3. old /\ boxes
    <3>1. CASE fromDev' = fromDev
      BY <3>1, <1>2
    <3>2. CASE fromDev' = Append(fromDev, <<Yes(t)>>) /\ notDone' = notDone
      BY <3>2, <2>1, <2>2, <1>6
    <3>3. ASSUME NEW u \in No(t), fromDev' = Append(fromDev, <<u>>) PROVE old /\ boxes
      BY <3>3, <2>1, <1>6, <1>8
    <3>4. QED
      BY <2>1, <3>1, <3>2, <3>3 DEF DeviceMove
  <2>4. QED
    BY <2>1, <2>3, <1>1, <1>2, <1>3 DEF DeviceMove
<1>11. CASE ~IsPart(t) /\ t \notin {GetSize, Complete}
  <2>1. old
    <3>1. t \in Requests
      BY <1>11, TransferKinds
    <3>2. ASSUME NEW u \in Unit, fromDev' = Append(fromDev, <<u>>) PROVE old
      <4>1. <<u>> \in Seq(Unit)
        OBVIOUS
      <4>2. QED
        BY <4>1, <3>2, <1>2, <1>4
    <3>3. QED
      BY <1>11, <3>1, <3>2, <1>2, <1>5, YesKinds, NoKinds DEF DeviceMove
  <2>2. QED
    BY <2>1, <1>11, <1>1, <1>2, <1>3 DEF DeviceMove
<1>12. QED
  BY <1>9, <1>10, <1>11

\* A transfer that may be lost is one more.
LEMMA HonestGrows ==
  ASSUME NEW S, NEW t, Honest(S), notDone' = notDone \/ notDone' = notDone \cup {t}, MayBeLost(t)
  PROVE  Honest(S)'
BY DEF Honest, MayBeLost

\* Between the parts and the end of the script.
LEMMA LaterStep ==
  ASSUME TypeOK, Live, Op = "get_pit", size = PitUnits, Suffix(todo), pit # << >>, Len(todo) > 1, LaterParts, Smooth
  PROVE  \/ done' = done /\ result' = result /\ Laying'
         \/ done' = done /\ result' = "failed"
<1>1. /\ todo # << >> /\ Len(todo) \in Nat /\ todo \in Seq(Steps \cup PitSteps) /\ pit \in Seq(Unit) /\ got \in Seq(Unit)
      /\ toDev \in Seq(Transfers) /\ Len(toDev) \in Nat
  BY SingleFacts DEF TypeOK
<1>2. JunkOnly /\ (\A i \in 1 .. Len(toDev) : IsPart(toDev[i])) /\ Honest({})
  BY DEF LaterParts, JunkOnly
<1>3. << >> \in Seq(Junk)
  OBVIOUS
<1>4. ASSUME size' = size, Suffix(todo)', (pit # << >>)', (Len(todo) > 1)', LaterParts' PROVE Laying'
  <2>1. (todo # << >>)'
    BY <1>4, SingleFacts
  <2>2. QED
    BY <2>1, <1>4 DEF Laying, Suffix
<1>5. ASSUME JunkOnly', toDev' = toDev, notDone' = notDone PROVE LaterParts'
  BY <1>2, <1>5 DEF LaterParts, JunkOnly, IsPart, Honest
<1>6. ASSUME size' = size, todo' = todo PROVE Suffix(todo)'
  BY <1>6, GetPitKept DEF Suffix
<1>7. ASSUME size' = size, todo' = Tail(todo) PROVE Suffix(todo)' /\ Len(todo') = Len(todo) - 1
  <2>1. Suffix(Tail(todo)) /\ Len(Tail(todo)) = Len(todo) - 1
    BY <1>1, Place
  <2>2. QED
    BY <2>1, <1>7, GetPitKept DEF Suffix
<1>8. CASE Begin \/ Finish
  BY <1>1, <1>8, PlanShape DEF Begin, Finish, Live
<1>9. CASE Idle
  <2>1. JunkOnly'
    BY <1>2, <1>9 DEF Idle, JunkOnly
  <2>2. QED
    BY <2>1, <1>4, <1>5, <1>6, <1>9 DEF Idle
<1>10. CASE Asks
  <2>1. /\ todo' = Tail(todo) /\ got' = << >> /\ fromDev' = fromDev /\ notDone' = notDone /\ toDev' = Append(toDev, Now)
        /\ size' = size /\ pit' = pit /\ result' = result /\ done' = done /\ Now.do = "send"
    BY <1>1, <1>10 DEF Asks, Goes
  <2>2. Suffix(todo)' /\ Len(todo') = Len(todo) - 1
    BY <2>1, <1>7
  <2>3. JunkOnly'
    BY <2>1, <1>2, <1>3 DEF JunkOnly
  <2>4. Now \in Transfers
    BY <2>1, <1>1, StepSorts, SeqFacts DEF Now
  <2>5. /\ Len(toDev') = Len(toDev) + 1 /\ toDev'[Len(toDev) + 1] = Now
        /\ \A i \in 1 .. Len(toDev) : toDev'[i] = toDev[i]
    BY <2>1, <2>4, <1>1, AppendFacts
  <2>6. CASE Len(todo) = 2 /\ Now = Complete
    <3>1. Len(todo') = 1 /\ (todo # << >>)'
      BY <2>2, <2>6, SingleFacts
    <3>2. toDev' # << >> /\ toDev'[Len(toDev')] = Complete /\ \A i \in 1 .. Len(toDev') - 1 : IsPart(toDev'[i])
      <4>1. toDev' # << >>
        BY <2>5, <1>1, SingleFacts
      <4>2. QED
        BY <4>1, <2>5, <2>6, <1>1, <1>2
    <3>3. Completing'
      BY <3>2, <2>1, <2>3, <1>2 DEF Completing, JunkOnly, Honest, Complete, Send, IsPart
    <3>4. Laying'
      BY <3>1, <3>3, <2>1, <2>2 DEF Laying, Suffix
    <3>5. QED
      BY <3>4, <2>1
  <2>7. ASSUME NEW i \in Nat, Len(todo) > 3, Now = PitPart(i)
        PROVE  Laying'
    <3>1. IsPart(Now)
      BY <2>7, PartKinds
    <3>2. ASSUME NEW j \in 1 .. Len(toDev') PROVE IsPart(toDev'[j])
      <4>1. j = Len(toDev) + 1 \/ j \in 1 .. Len(toDev)
        BY <2>5, <1>1
      <4>2. QED
        BY <4>1, <3>1, <2>5, <1>2
    <3>3. LaterParts'
      BY <3>2, <2>1, <2>3, <1>2 DEF LaterParts, JunkOnly, Honest, IsPart
    <3>4. (Len(todo) > 1)'
      BY <2>2, <2>7, <1>1
    <3>5. QED
      BY <3>3, <3>4, <2>1, <2>2, <1>4
  <2>8. QED
    BY <2>1, <2>6, <2>7, <1>1, PlaceKinds
<1>11. CASE TakesAll \/ TakesPart \/ Drops
  <2>1. JunkOnly'
    BY <1>2, <1>11, ListenJunk
  <2>2. /\ todo' = todo /\ size' = size /\ pit' = pit /\ done' = done /\ result' = result /\ toDev' = toDev /\ notDone' = notDone
    BY <1>11 DEF TakesAll, TakesPart, Drops, Listening
  <2>3. QED
    BY <2>1, <2>2, <1>4, <1>5, <1>6
<1>12. CASE Falls
  BY <1>12 DEF Falls
<1>13. CASE Accepted
  <2>1. /\ todo' = Tail(todo) /\ got' = << >> /\ fromDev' = fromDev /\ notDone' = notDone /\ toDev' = toDev
        /\ size' = size /\ result' = result /\ done' = done /\ Now.do = "recv"
        /\ (pit' = pit \/ pit' = pit \o got)
    BY <1>1, <1>13 DEF Accepted, Goes
  <2>2. Suffix(todo)' /\ Len(todo') = Len(todo) - 1
    BY <2>1, <1>7
  <2>3. Len(todo) > 3
    BY <2>1, <1>1, PlaceKinds
  <2>4. JunkOnly'
    BY <2>1, <1>2, <1>3 DEF JunkOnly
  <2>5. pit' # << >>
    <3>1. pit \o got # << >>
      <4>1. Len(pit \o got) = Len(pit) + Len(got) /\ Len(pit) \in Nat \ {0} /\ Len(got) \in Nat
        BY <1>1, SeqFacts
      <4>2. QED
        BY <4>1, SingleFacts
    <3>2. QED
      BY <3>1, <2>1
  <2>6. (Len(todo) > 1)'
    BY <2>2, <2>3, <1>1
  <2>7. QED
    BY <2>1, <2>2, <2>4, <2>5, <2>6, <1>4, <1>5
<1>14. CASE Skips
  <2>1. /\ todo' = Tail(todo) /\ got' = << >> /\ notDone' = notDone /\ toDev' = toDev
        /\ size' = size /\ pit' = pit /\ result' = result /\ done' = done /\ Now.do = "zlp"
        /\ fromDev' = fromDev \/ (fromDev # << >> /\ fromDev' = Tail(fromDev))
    BY <1>1, <1>14 DEF Skips, Goes
  <2>2. Suffix(todo)' /\ Len(todo') = Len(todo) - 1
    BY <2>1, <1>7
  <2>3. Len(todo) = 3
    BY <2>1, <1>1, PlaceKinds
  <2>4. JunkOnly'
    <3>1. fromDev # << >> => Tail(fromDev) \in Seq(Seq(Junk))
      BY <1>2, SeqFacts DEF JunkOnly
    <3>2. QED
      BY <3>1, <2>1, <1>2, <1>3 DEF JunkOnly
  <2>5. (Len(todo) > 1)'
    BY <2>2, <2>3, <1>1
  <2>6. QED
    BY <2>1, <2>2, <2>4, <2>5, <1>4, <1>5
<1>15. ASSUME NEW t \in Transfers, DeviceMove(t)
       PROVE  done' = done /\ result' = result /\ Laying'
  <2>1. /\ toDev[1] = t /\ Len(toDev) \in Nat \ {0} /\ Len(toDev') = Len(toDev) - 1
        /\ \A i \in 1 .. Len(toDev') : toDev'[i] = toDev[i + 1]
        /\ UNCHANGED host
    BY <1>15, Growth
  <2>2. IsPart(t) /\ MayBeLost(t)
    BY <2>1, <1>2, TransferKinds
  <2>3. Honest({})'
    BY <2>2, <1>2, <1>15, Growth, HonestGrows
  <2>4. \A i \in 1 .. Len(toDev') : IsPart(toDev'[i])
    BY <2>1, <1>2, SMTT(30)
  <2>5. fromDev' \in Seq(Seq(Junk))
    <3>1. fromDev' \in Seq(Seq(Unit))
      BY <1>15, DeviceTyped
    <3>2. ASSUME NEW i \in 1 .. Len(fromDev') PROVE fromDev'[i] \in Seq(Junk)
      <4>1. CASE i \in 1 .. Len(fromDev)
        <5>1. fromDev'[i] = fromDev[i] /\ fromDev \in Seq(Seq(Junk))
          BY <4>1, <1>2, <1>15, Growth DEF JunkOnly
        <5>2. QED
          BY <4>1, <5>1, SeqFacts
      <4>2. CASE i \notin 1 .. Len(fromDev)
        <5>1. i \in Len(fromDev) + 1 .. Len(fromDev')
          BY <4>2, <1>15, Growth
        <5>2. QED
          BY <5>1, <2>2, <1>15, Growth
      <4>3. QED
        BY <4>1, <4>2
    <3>3. QED
      BY <3>1, <3>2, Narrowed
  <2>6. got' = got /\ todo' = todo /\ size' = size /\ pit' = pit /\ done' = done /\ result' = result
    BY <2>1 DEF host
  <2>7. LaterParts'
    BY <2>3, <2>4, <2>5, <2>6, <1>2 DEF LaterParts, JunkOnly, IsPart
  <2>8. QED
    BY <2>6, <2>7, <1>4, <1>6
<1>16. QED
  BY <1>8, <1>9, <1>10, <1>11, <1>12, <1>13, <1>14, <1>15, Moves

\* The end of the script: the answer to the last request is the last thing that comes.
LEMMA LastStep ==
  ASSUME TypeOK, Live, Op = "get_pit", size = PitUnits, Suffix(todo), pit # << >>, Len(todo) = 1, Completing, Smooth
  PROVE  \/ done' = done /\ result' = result /\ Laying'
         \/ done' = done + 1 /\ todo' = << >> /\ Quiet' /\ Honest({})' /\ result' = result
         \/ done' = done /\ result' = "failed"
<1> DEFINE C1 == /\ toDev # << >> /\ toDev[Len(toDev)] = Complete /\ \A i \in 1 .. Len(toDev) - 1 : IsPart(toDev[i])
                 /\ JunkOnly /\ Honest({})
           C2 == toDev = << >> /\ JunkOnly /\ Honest({Complete})
           C3 == /\ toDev = << >> /\ fromDev # << >> /\ fromDev[Len(fromDev)] = Ripe
                 /\ \A i \in 1 .. Len(fromDev) - 1 : fromDev[i] \in Seq(Junk)
                 /\ got \in Seq(Junk) /\ Honest({})
           C4 == toDev = << >> /\ fromDev = << >> /\ got = Ripe /\ Honest({})
<1>1. /\ todo # << >> /\ todo \in Seq(Steps \cup PitSteps) /\ got \in Seq(Unit)
      /\ toDev \in Seq(Transfers) /\ Len(toDev) \in Nat /\ fromDev \in Seq(Seq(Unit)) /\ Len(fromDev) \in Nat
  <2>1. /\ todo \in Seq(Steps \cup PitSteps) /\ got \in Seq(Unit)
        /\ toDev \in Seq(Transfers) /\ fromDev \in Seq(Seq(Unit))
    BY DEF TypeOK
  <2>2. todo # << >>
    BY SingleFacts
  <2>3. QED
    BY <2>1, <2>2
<1>2. C1 \/ C2 \/ C3 \/ C4
  BY DEF Completing, JunkOnly
<1>3. Now = Expects(Complete) /\ Now.do = "recv" /\ Tail(todo) = << >> /\ Needed = 1
  <2>1. Now = Expects(Complete) /\ Len(Tail(todo)) = 0
    BY <1>1, Place
  <2>2. Now.do = "recv" /\ Now.min = 1 /\ Now.max = 1
    BY <2>1, ExpectsKinds, GetSizeKinds
  <2>3. Tail(todo) = << >>
    BY <2>1, <1>1, SeqFacts
  <2>4. QED
    BY <2>1, <2>2, <2>3 DEF Needed
<1>4. ASSUME size' = size, todo' = todo, pit' = pit, (C1 \/ C2 \/ C3 \/ C4)' PROVE Laying'
  <2>1. Suffix(todo)'
    BY <1>4, GetPitKept DEF Suffix
  <2>2. Completing'
    BY <1>4 DEF Completing, JunkOnly
  <2>3. todo' # << >> /\ ~(Len(todo') > 1) /\ pit' # << >> /\ size' = PitUnits
    <3>1. ~(1 > 1)
      OBVIOUS
    <3>2. QED
      BY <3>1, <1>1, <1>4
  <2>4. QED
    BY <2>1, <2>2, <2>3 DEF Laying, Suffix
<1>5. CASE Begin \/ Finish
  BY <1>1, <1>5, PlanShape DEF Begin, Finish, Live
<1>6. CASE Idle
  <2>1. (C1 \/ C2 \/ C3 \/ C4)'
    BY <1>2, <1>6 DEF Idle, JunkOnly, Honest, IsPart
  <2>2. QED
    BY <2>1, <1>4, <1>6 DEF Idle
<1>7. CASE Asks \/ Skips
  BY <1>3, <1>7 DEF Asks, Skips
<1>8. CASE TakesAll \/ TakesPart \/ Drops
  <2>1. /\ todo' = todo /\ size' = size /\ pit' = pit /\ done' = done /\ result' = result /\ toDev' = toDev /\ notDone' = notDone
        /\ fromDev # << >> /\ Len(got) < Needed
    BY <1>8 DEF TakesAll, TakesPart, Drops, Listening, Receiving
  <2>2. got = << >>
    BY <2>1, <1>1, <1>3, SeqFacts
  <2>3. CASE C1 \/ C2
    <3>1. JunkOnly'
      BY <2>3, <1>8, ListenJunk
    <3>2. (C1 \/ C2)'
      BY <3>1, <2>1, <2>3 DEF Honest, IsPart
    <3>3. QED
      BY <3>2, <2>1, <1>4
  <2>4. CASE C3
    <3> DEFINE m == Len(fromDev)
               h == Head(fromDev)
    <3>1. /\ m \in Nat \ {0} /\ h = fromDev[1] /\ h \in Seq(Unit) /\ Tail(fromDev) \in Seq(Seq(Unit)) /\ Len(Tail(fromDev)) = m - 1
          /\ \A i \in 1 .. m - 1 : Tail(fromDev)[i] = fromDev[i + 1]
      BY <1>1, <2>1, SeqFacts
    <3>2. << >> \in Seq(Junk)
      OBVIOUS
    <3> HIDE DEF m, h
    <3>3. CASE m = 1
      <4>1. h = Ripe /\ Tail(fromDev) = << >>
        BY <3>1, <3>3, <2>4, SeqFacts DEF m
      <4>2. CASE TakesAll
        <5>1. got' = Ripe /\ fromDev' = << >>
          BY <4>1, <4>2, <2>2, RipeKinds DEF TakesAll, h
        <5>2. C4'
          BY <5>1, <2>1, <2>4 DEF Honest, Ripe, Yes, GetSize, Send, AnswerId
        <5>3. QED
          BY <5>2, <2>1, <1>4
      <4>3. CASE TakesPart
        <5>1. PICK k : k \in 1 .. Len(h) - 1
          BY <4>3 DEF TakesPart, h
        <5>2. k \in 1 .. 0
          BY <5>1, <4>1, RipeKinds
        <5>3. QED
          BY <5>2
      <4>4. CASE Drops
        <5>1. got' = << >> /\ fromDev' = << >>
          BY <4>1, <4>4, <2>2 DEF Drops
        <5>2. C2'
          BY <5>1, <3>2, <2>1, <2>4 DEF JunkOnly, Honest, Complete, Send
        <5>3. QED
          BY <5>2, <2>1, <1>4
      <4>5. QED
        BY <4>2, <4>3, <4>4, <1>8
    <3>4. CASE m # 1
      <4>1. h \in Seq(Junk) /\ 1 \in 1 .. m - 1
        BY <3>1, <3>4, <2>4 DEF m
      <4>2. /\ Tail(fromDev) # << >> /\ Tail(fromDev)[m - 1] = Ripe
            /\ \A i \in 1 .. (m - 1) - 1 : Tail(fromDev)[i] \in Seq(Junk)
        <5>1. m - 1 \in 1 .. m - 1 /\ (m - 1) + 1 = m
          BY <3>1, <3>4
        <5>2. Tail(fromDev)[m - 1] = fromDev[m]
          BY <3>1, <5>1
        <5>3. Tail(fromDev) # << >>
          <6>1. Len(Tail(fromDev)) # 0
            <7>1. m \in Nat \ {0} /\ Len(Tail(fromDev)) = m - 1
              BY <3>1
            <7>2. m - 1 # 0
              BY <7>1, <3>4
            <7>3. QED
              BY <7>1, <7>2, Zenon
          <6>2. QED
            BY <6>1, SingleFacts
        <5>4. ASSUME NEW i \in 1 .. (m - 1) - 1 PROVE Tail(fromDev)[i] \in Seq(Junk)
          <6>1. i \in 1 .. m - 1 /\ i + 1 \in 1 .. m - 1
            BY <3>1
          <6>2. QED
            BY <6>1, <3>1, <2>4 DEF m
        <5>5. QED
          BY <5>2, <5>3, <5>4, <2>4 DEF m
      <4>3. CASE TakesAll \/ Drops
        <5>1. fromDev' = Tail(fromDev) /\ got' \in Seq(Junk)
          <6>1. << >> \o h \in Seq(Junk)
            BY <4>1, <3>2
          <6>2. QED
            BY <6>1, <4>3, <3>2, <2>2 DEF TakesAll, Drops, h
        <5>2. Len(fromDev') = m - 1
          BY <5>1, <3>1
        <5>3. C3'
          BY <5>1, <5>2, <4>2, <2>1, <2>4 DEF Honest, Ripe, Yes, GetSize, Send, AnswerId, Junk, PitUnit, No
        <5>4. QED
          BY <5>3, <2>1, <1>4
      <4>4. CASE TakesPart
        <5>1. PICK k \in 1 .. Len(h) - 1 :
                 got' = got \o SubSeq(h, 1, k) /\ fromDev' = <<SubSeq(h, k + 1, Len(h))>> \o Tail(fromDev)
          BY <4>4 DEF TakesPart, h
        <5> DEFINE r == SubSeq(h, k + 1, Len(h))
        <5>2. SubSeq(h, 1, k) \in Seq(Junk) /\ r \in Seq(Junk)
          BY <4>1, Cut
        <5>3. got' \in Seq(Junk)
          BY <5>1, <5>2, <2>2, <3>2
        <5>4. r \in Seq(Unit)
          BY <3>1, Cut
        <5>5. /\ fromDev' \in Seq(Seq(Unit)) /\ Len(fromDev') = (m - 1) + 1 /\ fromDev'[1] = r
              /\ \A i \in 1 .. m - 1 : fromDev'[1 + i] = Tail(fromDev)[i]
          <6>1. fromDev' = <<r>> \o Tail(fromDev)
            BY <5>1
          <6> HIDE DEF r
          <6>2. LET f == <<r>> \o Tail(fromDev)
                IN  /\ f \in Seq(Seq(Unit)) /\ Len(f) = Len(Tail(fromDev)) + 1 /\ f[1] = r
                    /\ \A i \in 1 .. Len(Tail(fromDev)) : f[1 + i] = Tail(fromDev)[i]
            BY <5>4, <3>1, PutBack
          <6>3. QED
            BY <6>1, <6>2, <3>1
        <5> HIDE DEF r
        <5>6. Len(fromDev') = m /\ fromDev' # << >>
          <6>1. (m - 1) + 1 = m /\ m # 0
            BY <3>1
          <6>2. Len(fromDev') = m
            BY <6>1, <5>5
          <6>3. QED
            BY <6>1, <6>2, SingleFacts
        <5>7. fromDev'[m] = Ripe
          <6>1. m - 1 \in 1 .. m - 1 /\ 1 + (m - 1) = m
            BY <3>1, <3>4
          <6>2. fromDev'[1 + (m - 1)] = Tail(fromDev)[m - 1]
            BY <5>5, <6>1
          <6>3. QED
            BY <6>1, <6>2, <4>2
        <5>8. ASSUME NEW i \in 1 .. m - 1 PROVE fromDev'[i] \in Seq(Junk)
          <6>1. CASE i = 1
            BY <6>1, <5>2, <5>5
          <6>2. CASE i # 1
            <7>1. i - 1 \in 1 .. m - 1 /\ 1 + (i - 1) = i /\ i - 1 \in 1 .. (m - 1) - 1
              BY <6>2, <3>1
            <7>2. QED
              BY <7>1, <5>5, <4>2
          <6>3. QED
            BY <6>1, <6>2
        <5>9. C3'
          BY <5>3, <5>6, <5>7, <5>8, <2>1, <2>4 DEF Honest, Ripe, Yes, GetSize, Send, AnswerId, Junk, PitUnit, No
        <5>10. QED
          BY <5>9, <2>1, <1>4
      <4>5. QED
        BY <4>3, <4>4, <1>8
    <3>5. QED
      BY <3>3, <3>4
  <2>5. QED
    BY <1>2, <2>1, <2>3, <2>4
<1>9. CASE Falls
  BY <1>9 DEF Falls
<1>10. CASE Accepted
  <2>1. /\ todo' = << >> /\ got' = << >> /\ fromDev' = fromDev /\ notDone' = notDone /\ toDev' = toDev
        /\ result' = result /\ done' = done + 1 /\ Len(got) >= 1 /\ Success
    BY <1>3, <1>10 DEF Accepted, Goes
  <2>2. got \notin Seq(Junk)
    <3> SUFFICES ASSUME got \in Seq(Junk) PROVE FALSE
      OBVIOUS
    <3>1. got[1] \in Junk
      BY <2>1, SeqFacts
    <3>2. got[1].kind \in {"pit", "box"} /\ (got[1].kind = "box" => got[1].ok = FALSE)
      BY <3>1, JunkKinds
    <3>3. Now.type = "PIT" /\ Now.ack = "checked"
      BY <1>3, GetSizeKinds DEF Recv
    <3>4. QED
      BY <2>1, <3>2, <3>3 DEF Success, Accepts
  <2>3. C4
    BY <2>2, <1>2 DEF JunkOnly
  <2>4. Quiet' /\ Honest({})'
    BY <2>1, <2>3 DEF Quiet, Honest
  <2>5. QED
    BY <2>1, <2>4
<1>11. ASSUME NEW t \in Transfers, DeviceMove(t)
       PROVE  done' = done /\ result' = result /\ Laying'
  <2>1. C1
    BY <1>2, <1>11 DEF DeviceMove
  <2>2. /\ toDev[1] = t /\ Len(toDev) \in Nat \ {0} /\ Len(toDev') = Len(toDev) - 1
        /\ \A i \in 1 .. Len(toDev') : toDev'[i] = toDev[i + 1]
        /\ UNCHANGED host /\ (notDone' = notDone \/ notDone' = notDone \cup {t}) /\ toDev' = Tail(toDev)
    BY <1>11, Growth DEF DeviceMove
  <2>3. todo' = todo /\ size' = size /\ pit' = pit /\ done' = done /\ result' = result /\ got' = got
    BY <2>2 DEF host
  <2>4. fromDev' \in Seq(Seq(Unit)) /\ toDev' \in Seq(Transfers)
    BY <1>1, <2>2, <1>11, DeviceTyped, SeqFacts, SingleFacts
  <2>5. /\ Len(fromDev') \in Nat /\ Len(fromDev) <= Len(fromDev')
        /\ \A i \in 1 .. Len(fromDev) : fromDev'[i] = fromDev[i] /\ fromDev'[i] \in Seq(Junk)
    <3>1. fromDev \in Seq(Seq(Junk))
      BY <2>1 DEF JunkOnly
    <3>2. \A i \in 1 .. Len(fromDev) : fromDev[i] \in Seq(Junk)
      BY <3>1, SeqFacts
    <3>3. QED
      BY <3>2, <1>11, Growth
  <2>6. ASSUME \A i \in Len(fromDev) + 1 .. Len(fromDev') : fromDev'[i] \in Seq(Junk) PROVE JunkOnly'
    <3>1. \A i \in 1 .. Len(fromDev') : fromDev'[i] \in Seq(Junk)
      BY <2>5, <2>6, <1>1
    <3>2. fromDev' \in Seq(Seq(Junk))
      BY <3>1, <2>4, Narrowed
    <3>3. QED
      BY <3>2, <2>1, <2>3 DEF JunkOnly
  <2>7. CASE Len(toDev) = 1
    <3>1. t = Complete /\ toDev' = << >>
      BY <2>1, <2>2, <2>4, <2>7, SeqFacts
    <3>2. CASE fromDev' = fromDev \/ (fromDev'[Len(fromDev')] \in Seq(Junk) /\ Len(fromDev') = Len(fromDev) + 1)
      <4>1. \A i \in Len(fromDev) + 1 .. Len(fromDev') : fromDev'[i] \in Seq(Junk)
        BY <3>2, <1>1
      <4>2. Honest({Complete})'
        BY <2>1, <2>2, <3>1 DEF Honest, Complete, Send
      <4>3. C2'
        BY <4>1, <4>2, <2>6, <3>1
      <4>4. QED
        BY <4>3, <2>3, <1>4
    <3>3. CASE fromDev'[Len(fromDev')] = Ripe /\ Len(fromDev') = Len(fromDev) + 1 /\ notDone' = notDone
      <4>1. Honest({})'
        BY <2>1, <3>3 DEF Honest
      <4>2. fromDev' # << >> /\ \A i \in 1 .. Len(fromDev') - 1 : fromDev'[i] \in Seq(Junk)
        BY <2>4, <2>5, <3>3, <1>1, SeqFacts
      <4>3. C3'
        BY <4>1, <4>2, <3>1, <3>3, <2>1, <2>3 DEF JunkOnly, Ripe, Yes, GetSize, Send, AnswerId, Junk, PitUnit, No
      <4>4. QED
        BY <4>3, <2>3, <1>4
    <3>4. \/ fromDev' = fromDev
          \/ /\ Len(fromDev') = Len(fromDev) + 1
             /\ (fromDev'[Len(fromDev')] = Ripe /\ notDone' = notDone) \/ fromDev'[Len(fromDev')] \in Seq(Junk)
      <4>1. t \in {GetSize, Complete}
        BY <3>1
      <4>2. QED
        BY <4>1, <1>11, Growth
    <3>5. QED
      BY <3>4, <3>2, <3>3
  <2>8. CASE Len(toDev) # 1
    <3>1. /\ 1 \in 1 .. Len(toDev) - 1 /\ Len(toDev') \in Nat \ {0} /\ Len(toDev') \in 1 .. Len(toDev')
          /\ Len(toDev') + 1 = Len(toDev)
          /\ \A i \in 1 .. Len(toDev') - 1 : i \in 1 .. Len(toDev') /\ i + 1 \in 1 .. Len(toDev) - 1
      BY <2>2, <2>8
    <3>2. IsPart(t)
      BY <3>1, <2>1, <2>2
    <3>3. toDev'[Len(toDev')] = Complete /\ \A i \in 1 .. Len(toDev') - 1 : IsPart(toDev'[i])
      BY <3>1, <2>1, <2>2
    <3>4. Honest({})' /\ JunkOnly'
      <4>1. MayBeLost(t)
        BY <3>2, TransferKinds
      <4>2. QED
        BY <4>1, <3>2, <2>1, <2>2, <2>6, <1>11, Growth, HonestGrows
    <3>5. toDev' # << >>
      BY <3>1, <2>4, SeqFacts
    <3>6. C1'
      BY <3>3, <3>4, <3>5 DEF IsPart, Complete, Send
    <3>7. (C1 \/ C2 \/ C3 \/ C4)'
      BY <3>6
    <3>8. Laying'
      <4>1. size' = size /\ todo' = todo /\ pit' = pit
        BY <2>3
      <4>2. QED
        BY <3>7, <4>1, <1>4
    <3>9. QED
      BY <3>8, <2>3
  <2>9. QED
    BY <2>3, <2>7, <2>8
<1>12. QED
  BY <1>5, <1>6, <1>7, <1>8, <1>9, <1>10, <1>11, Moves

\* Late boxes are fewer than the attempts, and come before the first part of the PIT.
Orderly == \A i, j \in 1 .. Len(toDev) : toDev[j] = GetSize /\ i < j => toDev[i] = GetSize
Ones(s) == \A j \in 1 .. Len(s) : Len(s[j]) = 1
ToCome  == \A i \in 1 .. Len(toDev) : toDev[i] = GetSize => i + Len(fromDev) + Len(got) < PitAttempts /\ Ones(fromDev)
Come    == \A i \in 1 .. Len(fromDev) : fromDev[i] = Ripe => i + Len(got) < PitAttempts /\ \A j \in 1 .. i : Len(fromDev[j]) = 1
Known   == \A i \in 1 .. Len(fromDev) : fromDev[i] = Ripe \/ fromDev[i] \in Seq(Junk)
Backlog == Orderly /\ ToCome /\ Come /\ Known /\ Honest({})

\* A packet of one unit makes the bytes received longer by one.
LEMMA OneMore ==
  ASSUME TypeOK, NEW a \in Nat, NEW c, c = 1, a <= Len(got) \/ a = Len(got) + c
  PROVE  a <= Len(got) + 1
<1>1. Len(got) \in Nat
  BY DEF TypeOK
<1>2. QED
  BY <1>1

\* A packet that was taken in part had more than one unit.
LEMMA Longer ==
  ASSUME NEW n \in Nat, NEW k \in 1 .. n - 1
  PROVE  n # 1
OBVIOUS

\* Receiving keeps the bounds on what comes late.
LEMMA BacklogListens ==
  ASSUME TypeOK, Backlog, TakesAll \/ TakesPart \/ Drops
  PROVE  Backlog'
<1> DEFINE h == Head(fromDev)
           m == Len(fromDev)
<1>1. /\ fromDev \in Seq(Seq(Unit)) /\ got \in Seq(Unit) /\ Len(got) \in Nat /\ PitAttempts \in Nat
      /\ toDev \in Seq(Transfers) /\ Len(toDev) \in Nat
  BY Bounds DEF TypeOK
<1>2. fromDev # << >> /\ toDev' = toDev /\ notDone' = notDone
  BY DEF TakesAll, TakesPart, Drops, Listening
<1>3. /\ m \in Nat \ {0} /\ h = fromDev[1] /\ h \in Seq(Unit) /\ Len(h) \in Nat
      /\ Tail(fromDev) \in Seq(Seq(Unit)) /\ Len(Tail(fromDev)) = m - 1
      /\ \A i \in 1 .. m - 1 : Tail(fromDev)[i] = fromDev[i + 1]
  BY <1>1, <1>2, SeqFacts
<1>4. Orderly' /\ Honest({})'
  BY <1>2 DEF Backlog, Orderly, Honest, GetSize, Send
<1>5. ASSUME fromDev' = Tail(fromDev), Len(got') \in Nat,
             Len(got') <= Len(got) \/ (Len(got') = Len(got) + Len(h))
      PROVE  ToCome' /\ Come' /\ Known'
  <2>1. ASSUME NEW i \in 1 .. Len(toDev), toDev[i] = GetSize
        PROVE  i + Len(fromDev') + Len(got') < PitAttempts /\ Ones(fromDev')
    <3>1. i + m + Len(got) < PitAttempts /\ Ones(fromDev)
      BY <2>1 DEF Backlog, ToCome
    <3>2. Len(h) = 1 /\ Ones(Tail(fromDev))
      <4>1. 1 \in 1 .. m /\ \A j \in 1 .. m - 1 : j + 1 \in 1 .. m
        BY <1>3
      <4>2. QED
        BY <4>1, <3>1, <1>3 DEF Ones
    <3>3. Len(fromDev') = m - 1 /\ Len(got') <= Len(got) + 1
      <4>1. Len(fromDev') = m - 1
        BY <1>5, <1>3
      <4>2. QED
        BY <4>1, <3>2, <1>5, OneMore
    <3>4. i + (m - 1) + Len(got') < PitAttempts
      <4> HIDE DEF m
      <4>1. QED
        BY <3>1, <3>3, <1>1, <1>3, <1>5 DEF m
    <3>5. QED
      BY <3>2, <3>3, <3>4, <1>5
  <2>2. ASSUME NEW i \in 1 .. Len(fromDev'), fromDev'[i] = Ripe
        PROVE  i + Len(got') < PitAttempts /\ \A j \in 1 .. i : Len(fromDev'[j]) = 1
    <3>1. i \in 1 .. m - 1 /\ i + 1 \in 1 .. m /\ 1 \in 1 .. i + 1 /\ \A j \in 1 .. i : j \in 1 .. m - 1 /\ j + 1 \in 1 .. i + 1
      BY <1>3, <1>5
    <3>2. fromDev[i + 1] = Ripe
      BY <2>2, <3>1, <1>3, <1>5
    <3>3. (i + 1) + Len(got) < PitAttempts /\ \A j \in 1 .. i + 1 : Len(fromDev[j]) = 1
      BY <3>1, <3>2 DEF Backlog, Come
    <3>4. Len(h) = 1 /\ \A j \in 1 .. i : Len(fromDev'[j]) = 1
      BY <3>1, <3>3, <1>3, <1>5
    <3>5. Len(got') <= Len(got) + 1
      BY <3>4, <1>5, OneMore
    <3>6. i + Len(got') < PitAttempts
      BY <3>1, <3>3, <3>5, <1>1, <1>5
    <3>7. QED
      BY <3>4, <3>6
  <2>3. ASSUME NEW i \in 1 .. Len(fromDev') PROVE fromDev'[i] = Ripe \/ fromDev'[i] \in Seq(Junk)
    <3>1. i \in 1 .. m - 1 /\ i + 1 \in 1 .. m
      BY <1>3, <1>5
    <3>2. fromDev'[i] = fromDev[i + 1]
      BY <3>1, <1>3, <1>5
    <3>3. QED
      BY <3>1, <3>2 DEF Backlog, Known
  <2>4. ToCome'
    BY <2>1, <1>2 DEF ToCome, GetSize, Send, Ones
  <2>5. Come'
    BY <2>2 DEF Come, Ripe, Yes, GetSize, Send, AnswerId
  <2>6. Known'
    BY <2>3 DEF Known, Ripe, Yes, GetSize, Send, AnswerId, Junk, PitUnit, No
  <2>7. QED
    BY <2>4, <2>5, <2>6
<1>6. CASE TakesAll
  <2>1. fromDev' = Tail(fromDev) /\ got' = got \o h
    BY <1>6 DEF TakesAll
  <2>2. Len(got') = Len(got) + Len(h)
    BY <2>1, <1>1, <1>3
  <2>3. QED
    BY <2>1, <2>2, <1>1, <1>3, <1>4, <1>5 DEF Backlog
<1>7. CASE Drops
  <2>1. fromDev' = Tail(fromDev) /\ got' = got
    BY <1>7 DEF Drops
  <2>2. Len(got') \in Nat /\ Len(got') <= Len(got)
    BY <2>1, <1>1
  <2>3. QED
    BY <2>1, <2>2, <1>4, <1>5 DEF Backlog
<1>8. CASE TakesPart
  <2>1. PICK k \in 1 .. Len(h) - 1 :
           /\ got' = got \o SubSeq(h, 1, k)
           /\ fromDev' = <<SubSeq(h, k + 1, Len(h))>> \o Tail(fromDev)
    BY <1>8 DEF TakesPart
  <2> DEFINE r == SubSeq(h, k + 1, Len(h))
  <2>2. Len(h) # 1 /\ 1 \in 1 .. m
    <3>1. 1 \in 1 .. m
      BY <1>3
    <3>2. QED
      BY <3>1, <2>1, <1>3, Longer
  <2>3. \A i \in 1 .. Len(toDev) : toDev[i] # GetSize
    BY <2>2, <1>3 DEF Backlog, ToCome, Ones
  <2>4. \A i \in 1 .. m : fromDev[i] \in Seq(Junk)
    <3>1. ASSUME NEW i \in 1 .. m, fromDev[i] = Ripe PROVE FALSE
      <4>1. 1 \in 1 .. i
        BY <1>3
      <4>2. QED
        BY <4>1, <3>1, <2>2, <1>3 DEF Backlog, Come
    <3>2. QED
      BY <3>1 DEF Backlog, Known
  <2>5. r \in Seq(Junk) /\ r \in Seq(Unit)
    <3>1. h \in Seq(Junk)
      BY <2>2, <2>4, <1>3
    <3>2. QED
      BY <3>1, <1>3, Cut
  <2>6. /\ Len(fromDev') = (m - 1) + 1 /\ fromDev'[1] = r
        /\ \A i \in 1 .. m - 1 : fromDev'[1 + i] = Tail(fromDev)[i]
    BY <2>1, <2>5, <1>3, PutBack
  <2>7. ASSUME NEW i \in 1 .. Len(fromDev') PROVE fromDev'[i] \in Seq(Junk)
    <3>1. CASE i = 1
      BY <3>1, <2>5, <2>6
    <3>2. CASE i # 1
      <4>1. i - 1 \in 1 .. m - 1 /\ 1 + (i - 1) = i /\ (i - 1) + 1 \in 1 .. m
        BY <3>2, <2>6, <1>3
      <4>2. fromDev'[i] = fromDev[(i - 1) + 1]
        BY <4>1, <2>6, <1>3
      <4>3. QED
        BY <4>1, <4>2, <2>4
    <3>3. QED
      BY <3>1, <3>2
  <2>8. ToCome'
    BY <2>3, <1>2 DEF ToCome, GetSize, Send, Ones
  <2>9. Come' /\ Known'
    BY <2>7, RipeKinds DEF Come, Known, Ripe, Yes, GetSize, Send, AnswerId, Junk, PitUnit, No
  <2>10. QED
    BY <2>8, <2>9, <1>4 DEF Backlog
<1>9. QED
  BY <1>6, <1>7, <1>8

\* An answer of the phone keeps them too.
LEMMA BacklogAnswered ==
  ASSUME TypeOK, Backlog, NEW t \in Transfers, DeviceMove(t), t = GetSize \/ IsPart(t)
  PROVE  Backlog' /\ \A i \in 1 .. Len(toDev') : toDev'[i] = toDev[i + 1] /\ i + 1 \in 1 .. Len(toDev)
<1> DEFINE m == Len(fromDev)
           n == Len(toDev)
<1>1. /\ m \in Nat /\ Len(got) \in Nat /\ PitAttempts \in Nat /\ n \in Nat \ {0} /\ toDev[1] = t /\ Len(toDev') = n - 1
      /\ \A i \in 1 .. Len(toDev') : toDev'[i] = toDev[i + 1]
      /\ Len(fromDev') \in Nat /\ m <= Len(fromDev')
      /\ \A i \in 1 .. m : fromDev'[i] = fromDev[i]
      /\ got' = got
  <2>1. Len(got) \in Nat /\ PitAttempts \in Nat
    BY Bounds DEF TypeOK
  <2>2. got' = got
    BY DEF DeviceMove, host
  <2>3. QED
    BY <2>1, <2>2, Growth
<1> DEFINE l == Len(got)
           m1 == Len(fromDev')
           n1 == Len(toDev')
<1>2. \A i \in 1 .. n1 : i + 1 \in 1 .. n
  BY <1>1
<1>3. Honest({})'
  <2>1. MayBeLost(t) /\ (notDone' = notDone \/ notDone' = notDone \cup {t})
    BY Growth, GetSizeKinds, TransferKinds
  <2>2. QED
    BY <2>1, HonestGrows DEF Backlog
<1>4. Orderly'
  <2>1. ASSUME NEW i \in 1 .. n1, NEW j \in 1 .. n1, toDev'[j] = GetSize, i < j PROVE toDev'[i] = GetSize
    <3>1. i + 1 \in 1 .. n /\ j + 1 \in 1 .. n /\ i + 1 < j + 1
      BY <1>2, <2>1
    <3>2. toDev[j + 1] = GetSize
      BY <2>1, <1>1
    <3>3. toDev[i + 1] = GetSize
      BY <3>1, <3>2 DEF Backlog, Orderly
    <3>4. QED
      BY <3>3, <1>1
  <2>2. QED
    BY <2>1 DEF Orderly, GetSize, Send
<1>5. CASE IsPart(t)
  <2>1. t # GetSize
    BY <1>5, GetSizeKinds, TransferKinds
  <2>2. ASSUME NEW i \in 1 .. n, toDev[i] = GetSize PROVE FALSE
    <3>1. i # 1
      BY <2>1, <2>2, <1>1
    <3>2. 1 \in 1 .. n /\ 1 < i
      BY <3>1, <1>1
    <3>3. QED
      BY <3>2, <2>1, <2>2, <1>1 DEF Backlog, Orderly
  <2>3. ToCome'
    <3>1. ASSUME NEW i \in 1 .. n1, toDev'[i] = GetSize PROVE FALSE
      <4>1. i + 1 \in 1 .. n
        BY <1>2
      <4>2. toDev[i + 1] = GetSize
        BY <3>1, <1>1
      <4>3. QED
        BY <4>1, <4>2, <2>2
    <3>2. QED
      BY <3>1 DEF ToCome, GetSize, Send
  <2>4. \A i \in m + 1 .. m1 : fromDev'[i] \in Seq(Junk)
    BY <1>5, Growth
  <2>5. ASSUME NEW i \in 1 .. m1, i \notin 1 .. m PROVE fromDev'[i] \in Seq(Junk)
    <3>1. i \in m + 1 .. m1
      BY <2>5, <1>1
    <3>2. QED
      BY <3>1, <2>4
  <2>6. Known'
    <3>1. ASSUME NEW i \in 1 .. m1 PROVE fromDev'[i] = Ripe \/ fromDev'[i] \in Seq(Junk)
      <4>1. CASE i \in 1 .. m
        BY <4>1, <1>1 DEF Backlog, Known
      <4>2. CASE i \notin 1 .. m
        BY <4>2, <2>5
      <4>3. QED
        BY <4>1, <4>2
    <3>2. QED
      BY <3>1 DEF Known, Ripe, Yes, GetSize, Send, AnswerId, Junk, PitUnit, No
  <2>7. Come'
    <3>1. ASSUME NEW i \in 1 .. m1, fromDev'[i] = Ripe
          PROVE  i + l < PitAttempts /\ \A j \in 1 .. i : Len(fromDev'[j]) = 1
      <4>1. i \in 1 .. m
        BY <3>1, <2>5, RipeKinds
      <4>2. fromDev[i] = Ripe
        BY <4>1, <3>1, <1>1
      <4>3. i + l < PitAttempts /\ \A j \in 1 .. i : Len(fromDev[j]) = 1
        BY <4>1, <4>2 DEF Backlog, Come
      <4>4. \A j \in 1 .. i : j \in 1 .. m
        BY <4>1, <1>1
      <4>5. QED
        BY <4>3, <4>4, <1>1
    <3>2. QED
      BY <3>1, <1>1 DEF Come, Ripe, Yes, GetSize, Send, AnswerId
  <2>8. QED
    BY <2>3, <2>6, <2>7, <1>1, <1>2, <1>3, <1>4 DEF Backlog
<1>6. CASE t = GetSize
  <2>1. 1 + m + l < PitAttempts /\ Ones(fromDev)
    <3>1. 1 \in 1 .. n
      BY <1>1
    <3>2. QED
      BY <3>1, <1>1, <1>6 DEF Backlog, ToCome
  <2>2. \/ m1 = m /\ fromDev' = fromDev
        \/ m1 = m + 1 /\ Len(fromDev'[m1]) = 1 /\ (fromDev'[m1] = Ripe \/ fromDev'[m1] \in Seq(Junk))
    BY <1>6, <1>1, Growth
  <2>3. m1 <= m + 1
    BY <2>2, <1>1
  <2>4. ASSUME NEW i \in 1 .. m1, i \notin 1 .. m PROVE i = m + 1 /\ m1 = m + 1
    BY <2>4, <2>3, <1>1, SMTT(30)
  <2>5. Ones(fromDev')
    <3>1. ASSUME NEW j \in 1 .. m1 PROVE Len(fromDev'[j]) = 1
      <4>1. CASE j \in 1 .. m
        <5>1. fromDev'[j] = fromDev[j] /\ Len(fromDev[j]) = 1
          BY <4>1, <2>1, <1>1 DEF Ones
        <5>2. QED
          BY <5>1
      <4>2. CASE j \notin 1 .. m
        <5>1. j = m1 /\ m1 = m + 1
          BY <4>2, <2>4
        <5>2. Len(fromDev'[m1]) = 1
          BY <5>1, <2>2, <1>1
        <5>3. QED
          BY <5>1, <5>2
      <4>3. QED
        BY <4>1, <4>2
    <3>2. QED
      BY <3>1 DEF Ones
  <2>6. Known'
    <3>1. ASSUME NEW i \in 1 .. m1 PROVE fromDev'[i] = Ripe \/ fromDev'[i] \in Seq(Junk)
      <4>1. CASE i \in 1 .. m
        BY <4>1, <1>1 DEF Backlog, Known
      <4>2. CASE i \notin 1 .. m
        <5>1. i = m1 /\ m1 = m + 1
          BY <4>2, <2>4
        <5>2. QED
          BY <5>1, <2>2, <1>1
      <4>3. QED
        BY <4>1, <4>2
    <3>2. QED
      BY <3>1 DEF Known, Ripe, Yes, GetSize, Send, AnswerId, Junk, PitUnit, No
  <2>7. Come'
    <3>1. ASSUME NEW i \in 1 .. m1
          PROVE  i + l < PitAttempts /\ \A j \in 1 .. i : Len(fromDev'[j]) = 1
      <4>1. i + l < PitAttempts
        BY <2>1, <2>3, <1>1
      <4>2. \A j \in 1 .. i : j \in 1 .. m1
        BY <1>1
      <4>3. QED
        BY <4>1, <4>2, <2>5 DEF Ones
    <3>2. QED
      BY <3>1, <1>1 DEF Come, Ripe, Yes, GetSize, Send, AnswerId
  <2>8. ToCome'
    <3>1. ASSUME NEW i \in 1 .. n1, toDev'[i] = GetSize PROVE i + m1 + l < PitAttempts
      <4>1. i + 1 \in 1 .. n /\ toDev[i + 1] = GetSize
        BY <3>1, <1>1, <1>2
      <4>2. (i + 1) + m + l < PitAttempts
        BY <4>1 DEF Backlog, ToCome
      <4>3. QED
        BY <4>2, <2>3, <1>1
    <3>2. QED
      BY <3>1, <2>5, <1>1 DEF ToCome, GetSize, Send
  <2>9. QED
    BY <2>6, <2>7, <2>8, <1>1, <1>2, <1>3, <1>4 DEF Backlog
<1>7. QED
  BY <1>5, <1>6

\* Where the session stands before the first part has come.
Stage ==
  \/ todo = << >> /\ got = << >> /\ \A i \in 1 .. Len(toDev) : toDev[i] = GetSize
  \/ Len(todo) = Len(GetPit) /\ got = << >> /\ \A i \in 1 .. Len(toDev) : toDev[i] = GetSize
  \/ Len(todo) = Len(GetPit) - 1 /\ \A i \in 1 .. Len(toDev) : toDev[i] = GetSize \/ IsPart(toDev[i])

\* The first stage of get_pit, in two parts.
LEMMA Staged == FirstPart <=> Stage /\ Backlog
BY DEF FirstPart, Stage, Backlog, Orderly, ToCome, Come, Known, Ones

\* Up to the first part of the PIT: it is longer than everything late, so with it nothing late is left.
LEMMA FirstStep ==
  ASSUME TypeOK, Live, Op = "get_pit", size = PitUnits, Suffix(todo), pit = << >>, FirstPart, Smooth
  PROVE  \/ done' = done /\ result' = result /\ Laying'
         \/ done' = done /\ result' = "failed"
<1> DEFINE n == Len(todo)
           L == Len(GetPit)
           Gets == \A i \in 1 .. Len(toDev) : toDev[i] = GetSize
           Either == \A i \in 1 .. Len(toDev) : toDev[i] = GetSize \/ IsPart(toDev[i])
<1>1. /\ todo \in Seq(Steps \cup PitSteps) /\ n \in Nat /\ toDev \in Seq(Transfers) /\ Len(toDev) \in Nat
      /\ fromDev \in Seq(Seq(Unit)) /\ got \in Seq(Unit) /\ Len(got) \in Nat
  BY DEF TypeOK
<1>2. Stage /\ Backlog /\ L \in Nat /\ L >= 5
  <2>1. L = 2 * Parts + 3 /\ Parts \in Nat \ {0}
    BY GetPitSteps
  <2>2. L \in Nat /\ L >= 5
    <3> HIDE DEF L
    <3>1. QED
      BY <2>1
  <2>3. QED
    BY <2>2, Staged
<1>3. Either
  BY <1>2 DEF Stage
<1>4. ASSUME todo # << >>
      PROVE  \/ n = L /\ got = << >> /\ Gets /\ Now = PitPart(0) /\ Now.do = "send"
             \/ n = L - 1 /\ Now = PartBytes(0) /\ Now.do = "recv" /\ Now.type = "bytes" /\ Needed = PartLen(0)
  <2>1. (n = L => Now = PitPart(0)) /\ (n = L - 1 => Now = PartBytes(0))
    BY <1>4, Place
  <2>2. PitPart(0).do = "send"
    BY PartKinds
  <2>3. ASSUME Now = PartBytes(0) PROVE Now.do = "recv" /\ Now.type = "bytes" /\ Needed = PartLen(0)
    BY <2>3 DEF PartBytes, Recv, Needed
  <2>4. QED
    BY <1>2, <1>4, <2>1, <2>2, <2>3 DEF Stage
<1>5. ASSUME size' = size, pit' = pit, Suffix(todo)', Stage', Backlog' PROVE Laying'
  <2>1. FirstPart'
    BY <1>5, Staged, PTL
  <2>2. pit' = << >>
    BY <1>5
  <2>3. QED
    BY <2>1, <2>2, <1>5 DEF Laying, Suffix
<1>6. ASSUME size' = size, todo' = todo PROVE Suffix(todo)' /\ Len(GetPit)' = L
  BY <1>6, GetPitKept DEF Suffix
<1>7. ASSUME size' = size, todo' = Tail(todo), todo # << >> PROVE Suffix(todo)' /\ Len(todo') = n - 1 /\ Len(GetPit)' = L
  <2>1. Suffix(Tail(todo)) /\ Len(Tail(todo)) = n - 1
    BY <1>7, Place
  <2>2. QED
    BY <2>1, <1>7, GetPitKept DEF Suffix
<1>8. ASSUME toDev' = toDev, fromDev' = fromDev, notDone' = notDone, got' = got PROVE Backlog'
  BY <1>2, <1>8 DEF Backlog, Orderly, ToCome, Come, Known, Ones, Honest, Ripe, Yes, GetSize, Send, AnswerId, Junk, PitUnit, No
<1>9. CASE Begin
  <2>1. /\ todo = << >> /\ got = << >> /\ Gets
    <3>1. todo = << >> /\ Len(todo) = 0
      BY <1>9, SingleFacts DEF Begin
    <3>2. n # L /\ n # L - 1
      <4> HIDE DEF n, L
      <4>1. n = 0
        BY <3>1 DEF n
      <4>2. QED
        BY <4>1, <1>2
    <3>3. QED
      BY <3>1, <3>2, <1>2 DEF Stage
  <2>2. /\ todo' = GetPit /\ got' = got /\ toDev' = toDev /\ fromDev' = fromDev /\ notDone' = notDone
        /\ size' = size /\ pit' = pit /\ done' = done /\ result' = result
    BY <1>9 DEF Begin, Script
  <2>3. GetPit' = GetPit
    BY <2>2, GetPitKept
  <2>4. Suffix(todo)'
    <3>1. \A k \in 1 .. L : (L - L) + k = k
      BY <1>2
    <3>2. Len(todo') = Len(GetPit') /\ L <= L
      BY <2>2, <2>3, <1>2
    <3>3. QED
      BY <3>1, <3>2, <2>2, <2>3 DEF Suffix
  <2>5. Stage'
    BY <2>1, <2>2, <2>3 DEF Stage, GetSize, Send
  <2>6. QED
    BY <2>2, <2>4, <2>5, <1>5, <1>8
<1>10. CASE Finish
  BY <1>10, PlanShape DEF Finish, Live
<1>11. CASE Idle
  <2>1. /\ todo' = todo /\ got' = got /\ toDev' = toDev /\ fromDev' = fromDev /\ notDone' = notDone
        /\ size' = size /\ pit' = pit /\ done' = done /\ result' = result
    BY <1>11 DEF Idle
  <2>2. Stage'
    BY <2>1, <1>2, <1>6 DEF Stage, IsPart, GetSize, Send
  <2>3. QED
    BY <2>1, <2>2, <1>5, <1>6, <1>8
<1>12. CASE Asks
  <2>1. todo # << >> /\ Now.do = "send"
    BY <1>12 DEF Asks, Goes, Busy
  <2>2. n = L /\ got = << >> /\ Gets /\ Now = PitPart(0)
    BY <2>1, <1>4
  <2>3. /\ todo' = Tail(todo) /\ got' = << >> /\ fromDev' = fromDev /\ notDone' = notDone /\ toDev' = Append(toDev, PitPart(0))
        /\ size' = size /\ pit' = pit /\ result' = result /\ done' = done
    BY <1>12, <2>2, <1>2 DEF Asks, Goes
  <2>4. Suffix(todo)' /\ Len(todo') = n - 1 /\ Len(GetPit)' = L
    BY <2>1, <2>3, <1>7
  <2>5. PitPart(0) \in Transfers /\ IsPart(PitPart(0)) /\ PitPart(0) # GetSize
    <3>1. PitPart(0) \in Transfers /\ IsPart(PitPart(0)) /\ PitPart(0) \notin Requests
      BY PartKinds DEF Transfers
    <3>2. QED
      BY <3>1, GetSizeKinds
  <2> DEFINE d == Len(toDev)
  <2>6. /\ Len(toDev') = d + 1 /\ toDev'[d + 1] = PitPart(0)
        /\ \A i \in 1 .. d : toDev'[i] = toDev[i]
        /\ \A i \in 1 .. Len(toDev') : i = d + 1 \/ i \in 1 .. d
    <3>1. /\ Len(toDev') = d + 1 /\ toDev'[d + 1] = PitPart(0)
          /\ \A i \in 1 .. d : toDev'[i] = toDev[i]
      BY <2>3, <2>5, <1>1, AppendFacts
    <3>2. \A i \in 1 .. Len(toDev') : i = d + 1 \/ i \in 1 .. d
      BY <3>1, <1>1
    <3>3. QED
      BY <3>1, <3>2
  <2>7. Stage'
    <3>1. Len(todo') = Len(GetPit)' - 1
      BY <2>2, <2>4
    <3>2. \A i \in 1 .. Len(toDev') : toDev'[i] = GetSize \/ IsPart(toDev'[i])
      BY <2>2, <2>5, <2>6
    <3>3. QED
      BY <3>1, <3>2 DEF Stage, IsPart, GetSize, Send
  <2>8. \A i \in 1 .. Len(toDev') : toDev'[i] = GetSize => i \in 1 .. d /\ toDev[i] = GetSize
    BY <2>5, <2>6
  <2>9. Orderly'
    <3>1. ASSUME NEW i \in 1 .. Len(toDev'), NEW j \in 1 .. Len(toDev'), toDev'[j] = GetSize, i < j PROVE toDev'[i] = GetSize
      <4>1. j \in 1 .. d
        BY <3>1, <2>8
      <4>2. i \in 1 .. d
        BY <4>1, <3>1, <2>6, <1>1
      <4>3. QED
        BY <4>2, <2>2, <2>6
    <3>2. QED
      BY <3>1 DEF Orderly, GetSize, Send
  <2>10. ToCome'
    BY <2>2, <2>3, <2>8, <1>2 DEF Backlog, ToCome, Ones, GetSize, Send
  <2>11. Come' /\ Known' /\ Honest({})'
    BY <2>2, <2>3, <1>2 DEF Backlog, Come, Known, Honest, Ripe, Yes, GetSize, Send, AnswerId, Junk, PitUnit, No
  <2>12. QED
    BY <2>3, <2>4, <2>7, <2>9, <2>10, <2>11, <1>5 DEF Backlog
<1>13. CASE TakesAll \/ TakesPart \/ Drops
  <2>1. /\ todo' = todo /\ size' = size /\ pit' = pit /\ done' = done /\ result' = result /\ toDev' = toDev
        /\ todo # << >> /\ Now.do = "recv"
    BY <1>13 DEF TakesAll, TakesPart, Drops, Listening, Receiving, Busy
  <2>2. n = L - 1
    BY <2>1, <1>4, PartKinds
  <2>3. Stage'
    BY <2>1, <2>2, <1>3, <1>6 DEF Stage, IsPart, GetSize, Send
  <2>4. QED
    BY <2>1, <2>3, <1>2, <1>5, <1>6, <1>13, BacklogListens
<1>14. CASE Falls
  BY <1>14 DEF Falls
<1>15. CASE Accepted
  <2>1. todo # << >> /\ Now.do = "recv" /\ Len(got) >= Needed
    BY <1>15 DEF Accepted, Goes, Busy
  <2>2. n = L - 1 /\ Now.type = "bytes" /\ Needed = PartLen(0)
    BY <2>1, <1>4, PartKinds
  <2>3. Len(got) >= PitAttempts /\ PitAttempts \in Nat \ {0}
    <3>1. PartLen(0) >= PitAttempts /\ PartLen(0) \in Nat
      <4>1. Parts \in Nat \ {0}
        BY PartSizes
      <4>2. 0 \in 0 .. Parts - 1
        BY <4>1
      <4>3. QED
        BY <4>2, PartSizes
    <3>2. Len(got) >= PartLen(0)
      BY <2>1, <2>2
    <3>3. QED
      BY <3>1, <3>2, <1>1, Bounds
  <2>4. /\ todo' = Tail(todo) /\ got' = << >> /\ fromDev' = fromDev /\ notDone' = notDone /\ toDev' = toDev
        /\ size' = size /\ result' = result /\ done' = done /\ pit' = pit \o got
    BY <1>15, <2>2, <1>2 DEF Accepted, Goes
  <2>5. Suffix(todo)' /\ Len(todo') = n - 1
    BY <2>1, <2>4, <1>7
  <2>6. pit' # << >>
    <3>1. pit' = got
      BY <2>4, <1>1, EmptyJoin
    <3>2. Len(got) # 0
      BY <2>3, <1>1
    <3>3. QED
      BY <3>1, <3>2, SingleFacts
  <2>7. ASSUME NEW i \in 1 .. Len(toDev) PROVE IsPart(toDev[i])
    <3>1. ASSUME toDev[i] = GetSize PROVE FALSE
      <4>1. i + Len(fromDev) + Len(got) < PitAttempts
        BY <3>1, <1>2 DEF Backlog, ToCome
      <4>2. Len(fromDev) \in Nat
        BY <1>1
      <4>3. QED
        BY <4>1, <4>2, <2>3, <1>1
    <3>2. QED
      BY <3>1, <1>3
  <2>8. ASSUME NEW i \in 1 .. Len(fromDev) PROVE fromDev[i] \in Seq(Junk)
    <3>1. ASSUME fromDev[i] = Ripe PROVE FALSE
      <4>1. i + Len(got) < PitAttempts
        BY <3>1, <1>2 DEF Backlog, Come
      <4>2. QED
        BY <4>1, <2>3, <1>1
    <3>2. QED
      BY <3>1, <1>2 DEF Backlog, Known
  <2>9. fromDev \in Seq(Seq(Junk))
    BY <2>8, <1>1, Narrowed
  <2>10. LaterParts'
    <3>1. << >> \in Seq(Junk)
      OBVIOUS
    <3>2. fromDev' \in Seq(Seq(Junk)) /\ got' \in Seq(Junk)
      BY <3>1, <2>4, <2>9
    <3>3. Honest({})'
      BY <2>4, <1>2 DEF Backlog, Honest
    <3>4. \A i \in 1 .. Len(toDev') : IsPart(toDev'[i])
      BY <2>4, <2>7
    <3>5. QED
      BY <3>2, <3>3, <3>4 DEF LaterParts, IsPart, Junk, PitUnit, No, GetSize, Send, AnswerId
  <2>11. Len(todo') > 1 /\ todo' # << >>
    <3>1. Len(todo') > 1
      BY <2>2, <2>5, <1>2
    <3>2. QED
      BY <3>1, SingleFacts
  <2>12. Laying'
    BY <2>4, <2>5, <2>6, <2>10, <2>11 DEF Laying, Suffix
  <2>13. QED
    BY <2>4, <2>12
<1>16. CASE Skips
  <2>1. todo # << >> /\ Now.do = "zlp"
    BY <1>16 DEF Skips, Goes, Busy
  <2>2. QED
    BY <2>1, <1>4
<1>17. ASSUME NEW t \in Transfers, DeviceMove(t)
       PROVE  done' = done /\ result' = result /\ Laying'
  <2>1. toDev[1] = t /\ Len(toDev) \in Nat \ {0} /\ UNCHANGED host
    BY <1>17, Growth
  <2>2. t = GetSize \/ IsPart(t)
    BY <2>1, <1>3
  <2>3. Backlog' /\ \A i \in 1 .. Len(toDev') : toDev'[i] = toDev[i + 1] /\ i + 1 \in 1 .. Len(toDev)
    BY <2>2, <1>2, <1>17, BacklogAnswered
  <2>4. todo' = todo /\ got' = got /\ size' = size /\ pit' = pit /\ done' = done /\ result' = result
    BY <2>1 DEF host
  <2>5. Stage'
    BY <2>3, <2>4, <1>2, <1>6 DEF Stage, IsPart, GetSize, Send
  <2>6. QED
    BY <2>3, <2>4, <2>5, <1>5, <1>6
<1>18. QED
  BY <1>9, <1>10, <1>11, <1>12, <1>13, <1>14, <1>15, <1>16, <1>17, Moves

\* A length that is neither zero nor more than one.
LEMMA NoMore ==
  ASSUME NEW n \in Nat \ {0}, ~(n > 1)
  PROVE  n = 1
OBVIOUS

\* An operation that was reached stays so.
LEMMA Reaches ==
  ASSUME NEW a \in Nat, NEW b \in Nat, b >= a
  PROVE  \A j \in 1 .. a + 1 : j \in 1 .. b + 1
OBVIOUS

\* get_pit, through its three stages.
LEMMA LayStep ==
  ASSUME TypeOK, Live, Op = "get_pit", Laying, Smooth
  PROVE  \/ done' = done /\ result' = result /\ Laying'
         \/ done' = done + 1 /\ todo' = << >> /\ Quiet' /\ Honest({})' /\ result' = result
         \/ done' = done /\ result' = "failed"
<1>1. size = PitUnits /\ Suffix(todo)
  BY DEF Laying, Suffix
<1>2. CASE pit = << >>
  BY <1>1, <1>2, FirstStep DEF Laying
<1>3. CASE pit # << >> /\ Len(todo) > 1
  BY <1>1, <1>3, LaterStep DEF Laying
<1>4. CASE pit # << >> /\ ~(Len(todo) > 1)
  <2>1. todo # << >> /\ Completing
    BY <1>4 DEF Laying
  <2>2. Len(todo) = 1
    <3>1. todo \in Seq(Steps \cup PitSteps)
      BY DEF TypeOK
    <3>2. Len(todo) \in Nat \ {0}
      BY <2>1, <3>1, SeqFacts
    <3>3. QED
      BY <3>2, <1>4, NoMore
  <2>3. QED
    BY <2>1, <2>2, <1>1, <1>4, LastStep
<1>5. QED
  BY <1>2, <1>3, <1>4

\* What a step may do to the session as a whole.
LEMMA Course ==
  ASSUME TypeOK, Smooth
  PROVE  /\ plan' = plan
         /\ done' = done \/ (done' = done + 1 /\ Busy)
         /\ result' = result \/ (result = "running" /\ result' \in {"done", "failed"})
         /\ attempt' = attempt \/ (Begin /\ Op = "pit_size")
         /\ pit' = pit \/ (Busy /\ Now.do = "recv" /\ Now.type = "bytes")
<1>1. plan' = plan
  BY PlanKept
<1>2. CASE Begin \/ Finish
  BY <1>1, <1>2 DEF Begin, Finish
<1>3. CASE Idle
  BY <1>1, <1>3 DEF Idle
<1>4. CASE Asks
  BY <1>1, <1>4 DEF Asks, Goes
<1>5. CASE TakesAll \/ TakesPart \/ Drops
  BY <1>1, <1>5 DEF TakesAll, TakesPart, Drops, Listening
<1>6. CASE Falls
  BY <1>1, <1>6 DEF Falls, Busy
<1>7. CASE Accepted
  BY <1>1, <1>7 DEF Accepted, Goes
<1>8. CASE Skips
  BY <1>1, <1>8 DEF Skips, Goes
<1>9. ASSUME NEW t \in Transfers, DeviceMove(t)
      PROVE  done' = done /\ result' = result /\ attempt' = attempt /\ pit' = pit
  BY <1>9 DEF DeviceMove, host
<1>10. QED
  BY <1>1, <1>2, <1>3, <1>4, <1>5, <1>6, <1>7, <1>8, <1>9, Moves

\* Only get_pit waits for bytes.
LEMMA BytesAwaited ==
  ASSUME TypeOK, Ordinary, Sizing, Live, todo # << >>, Now.type = "bytes", Now.do = "recv"
  PROVE  Op = "get_pit"
<1>1. ASSUME Op \notin {"pit_size", "get_pit"} PROVE FALSE
  <2>1. Talking
    BY <1>1 DEF Ordinary
  <2>2. CASE Dialogue(todo)
    BY <2>2, DialogueStep, RequestKinds DEF Now
  <2>3. CASE \E r \in Requests : Now = Expects(r)
    BY <2>3, ExpectsKinds
  <2>4. QED
    BY <2>1, <2>2, <2>3 DEF Talking
<1>2. ASSUME Op = "pit_size" PROVE FALSE
  <2>1. todo = <<GetSize, Expects(GetSize)>> \/ todo = <<Expects(GetSize)>>
    BY <1>2 DEF Sizing, Asking
  <2>2. Now = GetSize \/ Now = Expects(GetSize)
    BY <2>1, Two, SingleFacts DEF Now
  <2>3. QED
    BY <2>2, GetSizeKinds, RequestKinds, ExpectsKinds
<1>3. QED
  BY <1>1, <1>2

\* The attempts are counted from pit_size on, and bytes are kept from get_pit on.
LEMMA FreshStep ==
  ASSUME OInv, Smooth
  PROVE  Fresh'
<1> USE DEF OInv
<1>1. ASSUME NEW op, Reached(op) PROVE Reached(op)'
  <2>1. done' >= done /\ done \in Nat /\ done' \in Nat /\ plan' = plan
    <3>1. done \in Nat
      BY PlanShape
    <3>2. QED
      BY <3>1, Course
  <2>2. PICK j \in 1 .. done + 1 : j <= Len(plan) /\ plan[j] = op
    BY <1>1 DEF Reached
  <2>3. j \in 1 .. done' + 1
    BY <2>1, Reaches
  <2>4. QED
    BY <2>1, <2>2, <2>3 DEF Reached
<1>2. ASSUME Live, NEW op, Op = op PROVE Reached(op)'
  <2>1. done + 1 \in 1 .. done + 1 /\ done + 1 <= Len(plan)
    BY <1>2, PlanShape DEF Live
  <2>2. Reached(op)
    BY <2>1, <1>2 DEF Reached, Op
  <2>3. QED
    BY <2>2, <1>1
<1>3. Reached("pit_size")' \/ attempt' = 0
  <2>1. CASE attempt' = attempt
    BY <2>1, <1>1 DEF Fresh, Reached
  <2>2. CASE Begin /\ Op = "pit_size"
    <3>1. Live
      BY <2>2 DEF Begin, Live
    <3>2. QED
      BY <3>1, <2>2, <1>2 DEF Reached
  <2>3. QED
    BY <2>1, <2>2, Course
<1>4. Reached("get_pit")' \/ pit' = << >>
  <2>1. CASE pit' = pit
    BY <2>1, <1>1 DEF Fresh, Reached
  <2>2. CASE Busy /\ Now.do = "recv" /\ Now.type = "bytes"
    <3>1. Live /\ todo # << >>
      BY <2>2 DEF Busy, Live, TypeOK
    <3>2. Op = "get_pit"
      BY <3>1, <2>2, BytesAwaited
    <3>3. QED
      BY <3>1, <3>2, <1>2 DEF Reached
  <2>3. QED
    BY <2>1, <2>2, Course
<1>5. QED
  BY <1>3, <1>4 DEF Fresh, Reached

RebootAnswers == {Yes(Reboot)} \cup No(Reboot)
Farewell(s) == \A i \in 1 .. Len(s) : \E u \in RebootAnswers : s[i] = <<u>>

\* What is left of the answers to the reboot command.
LEMMA TailLast ==
  ASSUME NEW s \in Seq(Seq(Unit)), s # << >>, Farewell(s)
  PROVE  Farewell(Tail(s)) /\ Len(Head(s)) = 1
<1>1. /\ Len(s) \in Nat \ {0} /\ Head(s) = s[1] /\ Len(Tail(s)) = Len(s) - 1
      /\ \A i \in 1 .. Len(s) - 1 : Tail(s)[i] = s[i + 1]
  BY SeqFacts
<1>2. 1 \in 1 .. Len(s) /\ \A i \in 1 .. Len(s) - 1 : i + 1 \in 1 .. Len(s)
  BY <1>1
<1>3. PICK u : Head(s) = <<u>>
  BY <1>1, <1>2 DEF Farewell
<1>4. Len(Head(s)) = 1
  BY <1>3, SingleFacts
<1>5. QED
  BY <1>1, <1>2, <1>4 DEF Farewell

\* After the end command only the reboot command and its answers are under way.
LEMMA LeaveStep ==
  ASSUME TypeOK, Ended("end"), Leaving, Smooth
  PROVE  Leaving'
<1> DEFINE Answered == Farewell(fromDev)
           Steady == \A k \in 1 .. Len(todo) : todo[k] \in {Reboot, Expects(Reboot)}
           AllSent == \A i \in 1 .. Len(toDev) : toDev[i] = Reboot
<1>1. Honest({}) /\ AllSent /\ Answered /\ Steady
  BY DEF Leaving, Farewell, RebootAnswers
<1>2. /\ todo \in Seq(Steps \cup PitSteps) /\ toDev \in Seq(Transfers) /\ fromDev \in Seq(Seq(Unit))
      /\ Len(todo) \in Nat /\ Len(toDev) \in Nat /\ Len(fromDev) \in Nat
  BY DEF TypeOK
<1>3. ASSUME Honest({})', AllSent', Answered', Steady' PROVE Leaving'
  BY <1>3 DEF Leaving, Farewell, RebootAnswers
<1>4. ASSUME todo # << >>
      PROVE  /\ Now \in {Reboot, Expects(Reboot)} /\ Len(Tail(todo)) = Len(todo) - 1
             /\ \A k \in 1 .. Len(Tail(todo)) : Tail(todo)[k] \in {Reboot, Expects(Reboot)}
  <2>1. /\ Len(todo) \in Nat \ {0} /\ Head(todo) = todo[1] /\ Len(Tail(todo)) = Len(todo) - 1
        /\ \A i \in 1 .. Len(todo) - 1 : Tail(todo)[i] = todo[i + 1]
    BY <1>2, <1>4, SeqFacts
  <2>2. 1 \in 1 .. Len(todo) /\ \A i \in 1 .. Len(todo) - 1 : i + 1 \in 1 .. Len(todo)
    BY <2>1
  <2>3. QED
    BY <2>1, <2>2, <1>1 DEF Now
<1>5. fromDev # << >> => Farewell(Tail(fromDev)) /\ Len(Head(fromDev)) = 1
  BY <1>1, <1>2, TailLast
<1>6. ASSUME toDev' = toDev, notDone' = notDone PROVE Honest({})' /\ AllSent'
  BY <1>1, <1>6 DEF Honest, Reboot, Send
<1>7. ASSUME fromDev' = fromDev \/ (fromDev # << >> /\ fromDev' = Tail(fromDev)) PROVE Answered'
  <2>1. Farewell(fromDev')
    BY <1>1, <1>5, <1>7
  <2>2. QED
    BY <2>1 DEF Farewell, RebootAnswers, Yes, No, Reboot, Send, AnswerId
<1>8. ASSUME todo' = todo \/ todo' = << >> \/ (todo # << >> /\ todo' = Tail(todo)) PROVE Steady'
  <2>1. CASE todo' = << >>
    <3>1. Len(todo') = 0
      BY <2>1, SingleFacts
    <3>2. \A k \in 1 .. Len(todo') : FALSE
      BY <3>1
    <3>3. QED
      BY <3>2
  <2>2. CASE todo' = todo \/ (todo # << >> /\ todo' = Tail(todo))
    BY <2>2, <1>1, <1>4 DEF Expects, Reboot, Send, AnswerId
  <2>3. QED
    BY <1>8, <2>1, <2>2
<1>9. CASE Begin
  <2>1. done < Len(plan) /\ todo' = Script(Op) /\ toDev' = toDev /\ fromDev' = fromDev /\ notDone' = notDone
    BY <1>9 DEF Begin
  <2>2. Op = "reboot"
    <3>1. PICK i \in 1 .. done : plan[i] = "end"
      BY DEF Ended
    <3>2. done + 1 \in 1 .. Len(plan) /\ i \in 1 .. Len(plan) /\ done + 1 > i
      BY <2>1, PlanShape
    <3>3. QED
      BY <3>1, <3>2, PlanShape DEF Op
  <2>3. todo' = <<Reboot, Expects(Reboot)>>
    <3>1. Script(Op) = Rpc("CLOSE", "REBOOT", "checked")
      BY <2>2 DEF Script
    <3>2. Rpc("CLOSE", "REBOOT", "checked") = <<Send("CLOSE", "REBOOT"), Recv(1, 1, "CLOSE", "checked")>>
      BY Joined DEF Rpc, Answer
    <3>3. Expects(Reboot) = Recv(1, 1, "CLOSE", "checked")
      BY DEF Expects, Reboot, Send, AnswerId
    <3>4. QED
      BY <2>1, <3>1, <3>2, <3>3 DEF Reboot
  <2>4. Steady'
    <3>1. Len(todo') = 2 /\ todo'[1] = Reboot /\ todo'[2] = Expects(Reboot)
      BY <2>3, Two
    <3>2. \A k \in 1 .. 2 : k = 1 \/ k = 2
      OBVIOUS
    <3>3. \A k \in 1 .. Len(todo') : todo'[k] \in {Reboot, Expects(Reboot)}
      BY <3>1, <3>2
    <3>4. QED
      BY <3>3 DEF Expects, Reboot, Send, AnswerId
  <2>5. QED
    BY <2>1, <2>4, <1>3, <1>6, <1>7
<1>10. CASE Finish \/ Idle
  BY <1>10, <1>3, <1>6, <1>7, <1>8 DEF Finish, Idle
<1>11. CASE Asks
  <2>1. /\ todo # << >> /\ todo' = Tail(todo) /\ Now.do = "send" /\ toDev' = Append(toDev, Now)
        /\ fromDev' = fromDev /\ notDone' = notDone
    BY <1>11 DEF Asks, Goes, Busy
  <2>2. Now = Reboot /\ Reboot \in Transfers
    <3>1. Reboot \in Requests
      BY GetSizeKinds
    <3>2. Expects(Reboot).do # "send" /\ Reboot \in Transfers
      BY <3>1, ExpectsKinds DEF Transfers
    <3>3. QED
      BY <3>2, <2>1, <1>4
  <2>3. /\ Len(toDev') = Len(toDev) + 1 /\ toDev'[Len(toDev) + 1] = Reboot
        /\ \A i \in 1 .. Len(toDev) : toDev'[i] = toDev[i]
    BY <2>1, <2>2, <1>2, AppendFacts
  <2>4. ASSUME NEW i \in 1 .. Len(toDev') PROVE toDev'[i] = Reboot
    <3>1. i = Len(toDev) + 1 \/ i \in 1 .. Len(toDev)
      BY <2>3, <1>2
    <3>2. QED
      BY <3>1, <2>3, <1>1
  <2>5. AllSent' /\ Honest({})'
    BY <2>1, <2>4, <1>1 DEF Honest, Reboot, Send
  <2>6. QED
    BY <2>1, <2>5, <1>3, <1>7, <1>8
<1>12. CASE TakesAll \/ TakesPart \/ Drops
  <2>1. todo' = todo /\ toDev' = toDev /\ notDone' = notDone /\ fromDev # << >>
    BY <1>12 DEF TakesAll, TakesPart, Drops, Listening
  <2>2. ~TakesPart
    <3>1. ASSUME NEW k \in 1 .. Len(Head(fromDev)) - 1 PROVE FALSE
      <4>1. Len(Head(fromDev)) = 1
        BY <2>1, <1>5
      <4>2. QED
        BY <4>1, <3>1, Longer
    <3>2. QED
      BY <3>1 DEF TakesPart
  <2>3. fromDev' = Tail(fromDev)
    BY <2>2, <1>12 DEF TakesAll, Drops
  <2>4. QED
    BY <2>1, <2>3, <1>3, <1>6, <1>7, <1>8
<1>13. CASE Falls
  BY <1>13, <1>3, <1>6, <1>7, <1>8 DEF Falls
<1>14. CASE Accepted \/ Skips
  BY <1>14, <1>3, <1>6, <1>7, <1>8 DEF Accepted, Skips, Goes, Busy
<1>15. ASSUME NEW t \in Transfers, DeviceMove(t)
       PROVE  Leaving'
  <2>1. /\ toDev[1] = t /\ Len(toDev) \in Nat \ {0} /\ Len(toDev') = Len(toDev) - 1
        /\ \A i \in 1 .. Len(toDev') : toDev'[i] = toDev[i + 1]
        /\ notDone' = notDone \/ notDone' = notDone \cup {t}
        /\ UNCHANGED host
    BY <1>15, Growth
  <2>2. t = Reboot /\ Reboot \in Requests /\ MayBeLost(Reboot) /\ ~IsPart(Reboot)
    <3>1. 1 \in 1 .. Len(toDev)
      BY <2>1
    <3>2. Reboot \in Requests /\ MayBeLost(Reboot)
      BY GetSizeKinds
    <3>3. Reboot \in Transfers
      BY <3>2 DEF Transfers
    <3>4. ~IsPart(Reboot)
      BY <3>2, <3>3, TransferKinds
    <3>5. QED
      BY <3>1, <3>2, <3>4, <2>1, <1>1
  <2>3. Honest({})'
    BY <2>1, <2>2, <1>1, HonestGrows
  <2>4. \A i \in 1 .. Len(toDev') : toDev'[i] = Reboot
    <3>1. \A i \in 1 .. Len(toDev') : i + 1 \in 1 .. Len(toDev)
      BY <2>1
    <3>2. QED
      BY <3>1, <2>1, <1>1
  <2>5. todo' = todo
    BY <2>1 DEF host
  <2>6. fromDev' = fromDev \/ \E u \in RebootAnswers : fromDev' = Append(fromDev, <<u>>)
    BY <1>15, <2>2 DEF DeviceMove, RebootAnswers
  <2>7. Farewell(fromDev')
    <3>1. CASE fromDev' = fromDev
      BY <3>1, <1>1
    <3>2. ASSUME NEW u \in RebootAnswers, fromDev' = Append(fromDev, <<u>>) PROVE Farewell(fromDev')
      <4>1. u \in Unit
        BY <2>2, YesKinds, NoKinds DEF RebootAnswers
      <4>2. <<u>> \in Seq(Unit)
        BY <4>1
      <4>3. /\ Len(fromDev') = Len(fromDev) + 1 /\ fromDev'[Len(fromDev) + 1] = <<u>>
            /\ \A i \in 1 .. Len(fromDev) : fromDev'[i] = fromDev[i]
        BY <4>2, <3>2, <1>2, AppendFacts
      <4>4. ASSUME NEW i \in 1 .. Len(fromDev') PROVE \E v \in RebootAnswers : fromDev'[i] = <<v>>
        <5>1. Len(fromDev) \in Nat
          BY <1>2
        <5>2. i \in 1 .. (Len(fromDev) + 1)
          BY <4>3, <4>4
        <5>3. i = Len(fromDev) + 1 \/ i \in 1 .. Len(fromDev)
          BY <5>1, <5>2
        <5>4. QED
          BY <5>3, <4>3, <1>1 DEF Farewell
      <4>5. QED
        BY <4>4 DEF Farewell
    <3>3. QED
      BY <2>6, <3>1, <3>2
  <2>8. AllSent' /\ Answered'
    BY <2>4, <2>7 DEF Reboot, Send, Farewell, RebootAnswers, Yes, No, AnswerId
  <2>9. QED
    BY <2>3, <2>5, <2>8, <1>3, <1>8
<1>16. QED
  BY <1>9, <1>10, <1>11, <1>12, <1>13, <1>14, <1>15, Moves

\* get_pit follows pit_size, once in a plan.
LEMMA OnePit ==
  ASSUME TypeOK
  PROVE  /\ \A i, j \in 1 .. Len(plan) : plan[i] = "pit_size" /\ plan[j] = "pit_size" => i = j
         /\ \A i, j \in 1 .. Len(plan) : plan[i] = "get_pit" /\ plan[j] = "pit_size" => j + 1 = i
         /\ \A i \in 1 .. Len(plan) : plan[i] = "pit_size" => i + 1 \in 1 .. Len(plan) /\ plan[i + 1] = "get_pit"
<1>1. ASSUME NEW i \in 1 .. Len(plan), plan[i] = "pit_size"
      PROVE  i + 1 \in 1 .. Len(plan) /\ plan[i + 1] = "get_pit"
  BY <1>1, PlanShape
<1>2. ASSUME NEW i \in 1 .. Len(plan), NEW j \in 1 .. Len(plan), plan[i] = "get_pit", plan[j] = "pit_size"
      PROVE  j + 1 = i
  BY <1>1, <1>2, PlanShape
<1>3. ASSUME NEW i \in 1 .. Len(plan), NEW j \in 1 .. Len(plan), plan[i] = "pit_size", plan[j] = "pit_size"
      PROVE  i = j
  <2>1. j + 1 = i + 1
    BY <1>1, <1>2, <1>3
  <2>2. QED
    BY <2>1
<1>4. QED
  BY <1>1, <1>2, <1>3

\* An empty sequence has no element.
LEMMA NoneLeft ==
  \A i \in 1 .. Len(<< >>) : FALSE
<1>1. Len(<< >>) = 0
  BY SingleFacts
<1>2. QED
  BY <1>1

\* An operation that finds nothing under way.
LEMMA EnterTalk ==
  ASSUME todo = << >>, Quiet, Honest({})
  PROVE  Talking
<1>1. Dialogue(<< >>)
  <2>1. << >> \in Seq(Steps) /\ Len(<< >>) % 2 = 0
    BY SingleFacts
  <2>2. QED
    BY <2>1, NoneLeft DEF Dialogue
<1>2. QED
  BY <1>1 DEF Talking

\* pit_size begins with nothing under way.
LEMMA EnterSize ==
  ASSUME todo = << >>, Quiet, Honest({}), attempt = 0
  PROVE  Asking
<1>1. Len(toDev) = 0 /\ Len(fromDev) = 0 /\ Len(got) = 0
  BY SingleFacts DEF Quiet
<1>2. Total = 0 /\ 0 <= attempt /\ attempt < PitAttempts
  BY <1>1, Bounds DEF Total
<1>3. QED
  BY <1>2, NoneLeft DEF Asking, Quiet

\* get_pit begins with fewer late answers than there are attempts.
LEMMA EnterTable ==
  ASSUME TypeOK, Drained, pit = << >>
  PROVE  Laying
<1>1. /\ todo = << >> /\ got = << >> /\ Len(got) = 0 /\ Len(todo) = 0 /\ Len(toDev) \in Nat /\ Len(fromDev) \in Nat
      /\ PitAttempts \in Nat /\ size = PitUnits
      /\ \A i \in 1 .. Len(toDev) : toDev[i] = GetSize
      /\ \A i \in 1 .. Len(fromDev) : \E u \in Stale : fromDev[i] = <<u>>
      /\ Len(toDev) + Len(fromDev) < PitAttempts /\ Honest({})
  <2>1. /\ todo = << >> /\ got = << >> /\ Len(got) = 0 /\ Len(todo) = 0
    BY SingleFacts DEF Drained
  <2>2. Len(toDev) \in Nat /\ Len(fromDev) \in Nat /\ PitAttempts \in Nat
    BY Bounds DEF TypeOK
  <2>3. Len(toDev) + Len(fromDev) + Len(got) < PitAttempts
    BY DEF Drained, Total
  <2>4. Len(toDev) + Len(fromDev) < PitAttempts
    BY <2>1, <2>2, <2>3
  <2>5. QED
    BY <2>1, <2>2, <2>4 DEF Drained
<1>2. ASSUME NEW i \in 1 .. Len(fromDev)
      PROVE  Len(fromDev[i]) = 1 /\ (fromDev[i] = Ripe \/ fromDev[i] \in Seq(Junk))
  <2>1. PICK u \in Stale : fromDev[i] = <<u>>
    BY <1>1
  <2>2. u = Yes(GetSize) \/ u \in Junk
    BY DEF Stale, Junk
  <2>3. QED
    BY <2>1, <2>2, SingleFacts DEF Ripe
<1>3. Backlog
  <2>1. Orderly /\ Known
    BY <1>1, <1>2 DEF Orderly, Known
  <2>2. ToCome
    <3>1. ASSUME NEW i \in 1 .. Len(toDev) PROVE i + Len(fromDev) + Len(got) < PitAttempts
      BY <1>1
    <3>2. QED
      BY <3>1, <1>2 DEF ToCome, Ones
  <2>3. Come
    <3>1. ASSUME NEW i \in 1 .. Len(fromDev) PROVE i + Len(got) < PitAttempts
      BY <1>1
    <3>2. ASSUME NEW i \in 1 .. Len(fromDev), NEW j \in 1 .. i PROVE Len(fromDev[j]) = 1
      <4>1. j \in 1 .. Len(fromDev)
        BY <1>1
      <4>2. QED
        BY <4>1, <1>2
    <3>3. QED
      BY <3>1, <3>2 DEF Come
  <2>4. QED
    BY <2>1, <2>2, <2>3, <1>1 DEF Backlog
<1>4. FirstPart
  BY <1>1, <1>3, Staged DEF Stage
<1>5. Len(todo) <= Len(GetPit) /\ \A k \in 1 .. Len(todo) : FALSE
  <2>1. Len(GetPit) = 2 * Parts + 3 /\ Parts \in Nat \ {0}
    BY <1>1, GetPitSteps
  <2>2. Len(GetPit) \in Nat
    BY <2>1
  <2>3. QED
    BY <2>2, <1>1
<1>6. QED
  BY <1>1, <1>4, <1>5 DEF Laying

\* The invariant holds at first.
LEMMA InvInitial ==
  ASSUME Init
  PROVE  OInv
<1>1. TypeOK
  BY TypeInitial
<1>2. done = 0 /\ todo = << >> /\ attempt = 0 /\ pit = << >> /\ toDev = << >> /\ fromDev = << >> /\ got = << >> /\ notDone = {}
  BY DEF Init
<1>3. Quiet /\ Honest({})
  BY <1>2 DEF Quiet, Honest
<1>4. Fresh
  BY <1>2 DEF Fresh
<1>5. Closed
  BY <1>2 DEF Closed, Ended
<1>6. Ordinary /\ Sizing
  BY <1>2, <1>3, EnterTalk, EnterSize DEF Ordinary, Sizing
<1>7. ~(Live /\ Op = "get_pit")
  <2>1. SUFFICES ASSUME Live, Op = "get_pit" PROVE FALSE
    OBVIOUS
  <2>2. 1 \in 1 .. Len(plan) /\ plan[1] = "get_pit"
    BY <2>1, <1>1, <1>2, PlanShape DEF Live, Op
  <2>3. 1 - 1 >= 1
    BY <2>2, <1>1, PlanShape
  <2>4. QED
    BY <2>3
<1>8. QED
  BY <1>1, <1>4, <1>5, <1>6, <1>7 DEF OInv, Reading

\* The same of every state.
LEMMA Entering ==
  /\ todo = << >> /\ Quiet /\ Honest({}) => Talking
  /\ todo = << >> /\ Quiet /\ Honest({}) /\ attempt = 0 => Asking
  /\ TypeOK /\ Drained /\ pit = << >> => Laying
BY EnterTalk, EnterSize, EnterTable

\* The same of the state after a step.
LEMMA EnteringNext ==
  /\ (todo = << >>)' /\ Quiet' /\ Honest({})' => Talking'
  /\ (todo = << >>)' /\ Quiet' /\ Honest({})' /\ (attempt = 0)' => Asking'
  /\ TypeOK' /\ Drained' /\ (pit = << >>)' => Laying'
BY Entering, PTL

\* What is known of the operation in progress.
LEMMA ProgressStep ==
  ASSUME OInv, Smooth
  PROVE  Ordinary' /\ Sizing' /\ Reading'
<1> USE DEF OInv
<1>1. SUFFICES ASSUME Live'
      PROVE  /\ Op' \notin {"pit_size", "get_pit"} => Talking'
             /\ Op' = "pit_size" => Asking'
             /\ Op' = "get_pit" => Laying'
  BY DEF Ordinary, Sizing, Reading
<1>2. plan' = plan /\ result' = "running" /\ result = "running" /\ done' < Len(plan) /\ TypeOK'
  BY <1>1, Course, TypeStep DEF Live
<1>3. done \in Nat /\ Len(plan) \in Nat /\ (done' = done \/ done' = done + 1)
  BY PlanShape, Course
<1>4. Live /\ Op \in Ops /\ done + 1 \in 1 .. Len(plan) /\ done' + 1 \in 1 .. Len(plan) /\ Op' = plan[done' + 1] /\ Op = plan[done + 1]
  <2>1. done < Len(plan)
    BY <1>2, <1>3
  <2>2. done + 1 \in 1 .. Len(plan) /\ done' + 1 \in 1 .. Len(plan)
    BY <2>1, <1>2, <1>3
  <2>3. QED
    BY <2>1, <2>2, <1>2, PlanShape DEF Live, Op
<1>5. ASSUME done' = done PROVE Op' = Op
  BY <1>4, <1>5
<1>6. ASSUME done' = done + 1, todo' = << >>, Quiet', Honest({})', Op # "pit_size"
      PROVE  /\ Op' \notin {"pit_size", "get_pit"} => Talking'
             /\ Op' = "pit_size" => Asking'
             /\ Op' # "get_pit"
  <2>1. Talking'
    BY <1>6, EnteringNext
  <2>2. ASSUME Op' = "pit_size" PROVE attempt' = 0
    <3>1. ~Reached("pit_size")
      <4>1. SUFFICES ASSUME NEW j \in 1 .. done + 1, j <= Len(plan), plan[j] = "pit_size" PROVE FALSE
        BY DEF Reached
      <4>2. j \in 1 .. Len(plan) /\ j # done' + 1
        BY <1>3, <1>6, <4>1
      <4>3. QED
        BY <4>1, <4>2, <2>2, <1>4, OnePit
    <3>2. attempt = 0
      BY <3>1 DEF Fresh
    <3>3. ~Begin
      BY <1>3, <1>6 DEF Begin
    <3>4. QED
      BY <3>2, <3>3, Course
  <2>3. Op' # "get_pit"
    <3>1. SUFFICES ASSUME Op' = "get_pit" PROVE FALSE
      OBVIOUS
    <3>2. plan[done' + 1] = "get_pit" /\ (done' + 1) - 1 >= 1 /\ plan[(done' + 1) - 1] = "pit_size"
      BY <3>1, <1>4, PlanShape
    <3>3. (done' + 1) - 1 = done + 1
      BY <1>3, <1>6
    <3>4. QED
      BY <3>2, <3>3, <1>4, <1>6
  <2>4. QED
    BY <2>1, <2>2, <2>3, <1>6, EnteringNext
<1>7. CASE Op \notin {"pit_size", "get_pit"}
  <2>1. Talking
    BY <1>4, <1>7 DEF Ordinary
  <2>2. ~(done' = done + 1 /\ Op = "reboot")
    <3>1. SUFFICES ASSUME done' = done + 1, Op = "reboot" PROVE FALSE
      OBVIOUS
    <3>2. done + 1 = Len(plan)
      BY <3>1, <1>4, PlanShape
    <3>3. QED
      BY <3>1, <3>2, <1>2, <1>3
  <2>3. \/ done' = done /\ Talking'
        \/ done' = done + 1 /\ todo' = << >> /\ Quiet' /\ Honest({})'
    BY <2>1, <2>2, <1>2, <1>4, <1>7, TalkStep
  <2>4. CASE done' = done /\ Talking'
    BY <2>4, <1>5, <1>7
  <2>5. CASE done' = done + 1 /\ todo' = << >> /\ Quiet' /\ Honest({})'
    BY <2>5, <1>6, <1>7
  <2>6. QED
    BY <2>3, <2>4, <2>5
<1>8. CASE Op = "get_pit"
  <2>1. Laying
    BY <1>4, <1>8 DEF Reading
  <2>2. \/ done' = done /\ Laying'
        \/ done' = done + 1 /\ todo' = << >> /\ Quiet' /\ Honest({})'
    BY <2>1, <1>2, <1>4, <1>8, LayStep
  <2>3. CASE done' = done /\ Laying'
    BY <2>3, <1>5, <1>8
  <2>4. CASE done' = done + 1 /\ todo' = << >> /\ Quiet' /\ Honest({})'
    BY <2>4, <1>6, <1>8
  <2>5. QED
    BY <2>2, <2>3, <2>4
<1>9. CASE Op = "pit_size"
  <2>1. Asking
    BY <1>4, <1>9 DEF Sizing
  <2>2. \/ done' = done /\ Asking'
        \/ done' = done + 1 /\ Drained'
    BY <2>1, <1>2, <1>4, <1>9, AskStep
  <2>3. CASE done' = done /\ Asking'
    BY <2>3, <1>5, <1>9
  <2>4. CASE done' = done + 1 /\ Drained'
    <3>1. Op' = "get_pit"
      <4>1. plan[(done + 1) + 1] = "get_pit"
        BY <1>4, <1>9, OnePit
      <4>2. QED
        BY <4>1, <2>4, <1>4
    <3>2. ~Reached("get_pit")
      <4>1. SUFFICES ASSUME NEW j \in 1 .. done + 1, j <= Len(plan), plan[j] = "get_pit" PROVE FALSE
        BY DEF Reached
      <4>2. j \in 1 .. Len(plan) /\ j # done' + 1
        BY <1>3, <2>4, <4>1
      <4>3. QED
        BY <4>1, <4>2, <3>1, <1>4, PlanShape
    <3>3. pit' = << >>
      <4>1. pit = << >>
        BY <3>2 DEF Fresh
      <4>2. ~(Busy /\ Now.do = "recv" /\ Now.type = "bytes")
        BY <1>4, <1>9, BytesAwaited DEF Busy
      <4>3. QED
        BY <4>1, <4>2, Course
    <3>4. Laying'
      BY <3>3, <2>4, <1>2, EnteringNext
    <3>5. QED
      BY <3>1, <3>4
  <2>5. QED
    BY <2>2, <2>3, <2>4
<1>10. QED
  BY <1>7, <1>8, <1>9

\* The end command leaves nothing under way, and only the reboot command follows.
LEMMA ClosedStep ==
  ASSUME OInv, Smooth
  PROVE  Closed'
<1> USE DEF OInv
<1>1. SUFFICES ASSUME Ended("end")' PROVE Leaving'
  BY DEF Closed
<1>2. done \in Nat /\ (done' = done \/ (done' = done + 1 /\ Busy)) /\ plan' = plan
  BY PlanShape, Course
<1>3. CASE Ended("end")
  BY <1>3, LeaveStep DEF Closed
<1>4. CASE ~Ended("end")
  <2>1. PICK i \in 1 .. done' : plan[i] = "end"
    BY <1>1, <1>2 DEF Ended
  <2>2. i = done + 1 /\ done' = done + 1 /\ Busy
    <3>1. i \notin 1 .. done
      BY <2>1, <1>4 DEF Ended
    <3>2. QED
      BY <3>1, <2>1, <1>2
  <2>3. Live /\ Op = "end"
    BY <2>1, <2>2 DEF Busy, Live, TypeOK, Op
  <2>4. Talking
    BY <2>3 DEF Ordinary
  <2>5. done' # done
    BY <2>2, <1>2
  <2>6. todo' = << >> /\ Quiet' /\ Honest({})'
    BY <2>3, <2>4, <2>5, TalkStep
  <2>7. QED
    BY <2>6, NoneLeft DEF Leaving, Quiet
<1>5. QED
  BY <1>3, <1>4

\* What was refused, ignored or cut short stays so.
LEMMA NotDoneGrows ==
  ASSUME [Next]_vars
  PROVE  notDone \subseteq notDone'
<1>1. CASE Begin \/ Finish \/ SendTimesOut
  BY <1>1 DEF Begin, Finish, SendTimesOut
<1>2. CASE Lost \/ RecvTimesOut \/ \E up \in BOOLEAN : SendFails(up) \/ RecvFails(up)
  BY <1>2 DEF Lost, RecvTimesOut, SendFails, RecvFails, Fail
<1>3. CASE SendWhole \/ SendTorn \/ RecvZlp
  BY <1>3 DEF SendWhole, SendTorn, RecvZlp
<1>4. CASE RecvPacket \/ RecvBytes \/ RecvOverflow \/ RecvEmpty
  BY <1>4 DEF RecvPacket, RecvBytes, RecvOverflow, RecvEmpty, Receive
<1>5. CASE Received
  BY <1>5 DEF Received, Fail
<1>6. CASE DeviceAnswers \/ DeviceRefuses \/ DeviceIgnores
  BY <1>6 DEF DeviceAnswers, DeviceRefuses, DeviceIgnores, DeviceTakes
<1>7. CASE UNCHANGED vars
  BY <1>7 DEF vars
<1>8. QED
  BY <1>1, <1>2, <1>3, <1>4, <1>5, <1>6, <1>7 DEF Next, HostStep

\* A session with no send cut short had none before its last step, which was none.
LEMMA WholeStep ==
  ASSUME [Next]_vars, Whole'
  PROVE  Whole /\ Smooth
<1>1. Whole
  BY NotDoneGrows DEF Whole
<1>2. ~SendTorn
  <2>1. SUFFICES ASSUME SendTorn PROVE FALSE
    OBVIOUS
  <2>2. Torn(Now) \in notDone'
    BY <2>1 DEF SendTorn
  <2>3. IsTorn(Torn(Now))
    <3>1. Now = Now /\ Now.do = "send"
      BY <2>1 DEF SendTorn
    <3>2. QED
      BY <3>1 DEF Torn, IsTorn
  <2>4. QED
    BY <2>2, <2>3 DEF Whole
<1>3. QED
  BY <1>1, <1>2 DEF Smooth

\* Every operation finds the wire as its predecessor must leave it.
THEOREM InvHolds == Spec => [](Whole => OInv)
<1>1. Init => OInv
  BY InvInitial
<1>2. (Whole => OInv) /\ [Next]_vars => (Whole => OInv)'
  <2>1. SUFFICES ASSUME Whole => OInv, [Next]_vars, Whole' PROVE OInv'
    OBVIOUS
  <2>2. OInv /\ Smooth
    BY <2>1, WholeStep
  <2>3. QED
    BY <2>2, TypeStep, FreshStep, ProgressStep, ClosedStep DEF OInv
<1>3. QED
  BY <1>1, <1>2, PTL DEF Spec

\* The invariant holds what is said of a closed session.
LEMMA LeavingSound ==
  ASSUME OInv
  PROVE  SessionSound
<1>1. SUFFICES ASSUME Ended("end")
      PROVE  /\ \A t \in notDone \cup ToSet(toDev) : MayBeLost(t)
             /\ \A i \in DOMAIN fromDev : fromDev[i] # << >> /\ (fromDev[i][1].kind = "box" => fromDev[i][1].id \in {"CLOSE", "FAIL"})
  BY DEF SessionSound
<1>2. Leaving /\ toDev \in Seq(Transfers) /\ fromDev \in Seq(Seq(Unit))
  BY <1>1 DEF OInv, Closed, TypeOK
<1>3. DOMAIN toDev = 1 .. Len(toDev) /\ DOMAIN fromDev = 1 .. Len(fromDev)
  BY <1>2
<1>4. MayBeLost(Reboot)
  BY GetSizeKinds
<1>5. ASSUME NEW t \in notDone \cup ToSet(toDev) PROVE MayBeLost(t)
  <2>1. CASE t \in notDone
    BY <2>1, <1>2 DEF Leaving, Honest
  <2>2. CASE t \in ToSet(toDev)
    BY <2>2, <1>2, <1>3, <1>4 DEF Leaving, ToSet
  <2>3. QED
    BY <2>1, <2>2
<1>6. ASSUME NEW i \in DOMAIN fromDev
      PROVE  fromDev[i] # << >> /\ (fromDev[i][1].kind = "box" => fromDev[i][1].id \in {"CLOSE", "FAIL"})
  <2>1. PICK u \in {Yes(Reboot)} \cup No(Reboot) : fromDev[i] = <<u>>
    BY <1>2, <1>3 DEF Leaving
  <2>2. Reboot \in Requests /\ AnswerId(Reboot) = "CLOSE" /\ Reboot.type # "PING"
    BY GetSizeKinds DEF Reboot, Send, AnswerId
  <2>3. u.id \in {"CLOSE", "FAIL"}
    BY <2>1, <2>2, YesKinds, NoKinds
  <2>4. QED
    BY <2>1, <2>3, SingleFacts
<1>7. QED
  BY <1>5, <1>6

\* A session that is closed with success, with no send cut short, had no command refused
\* or ignored but those whose answer is not looked at, and left no answer over for a later
\* command (OdinCommands, check_resp, shutdown).
THEOREM SessionIsSound == Spec => []SessionSound
<1>1. (Whole => OInv) => SessionSound
  BY LeavingSound DEF SessionSound
<1>2. QED
  BY <1>1, InvHolds, PTL

\* How much of the PIT its first parts are, and the units of it.
UpTo(i) == IF ChunkUnits * i < PitUnits THEN ChunkUnits * i ELSE PitUnits
Byte(j) == [kind |-> "pit", unit |-> j]

\* The packets f[m + 1] .. f[m + n] are the PIT from behind c up to z, in order.
Flow(f, m, n, c, z) ==
  \E e \in [0 .. n -> Nat] :
    /\ e[0] = c /\ e[n] = z
    /\ \A i, j \in 0 .. n : i <= j => e[i] <= e[j]
    /\ \A i \in 1 .. n :
         /\ Len(f[m + i]) = e[i] - e[i - 1]
         /\ \A x \in 1 .. Len(f[m + i]) : f[m + i][x] = Byte(e[i - 1] + x)

\* A flow does not go back, and one of no packets goes nowhere.
LEMMA FlowEnds ==
  ASSUME NEW f, NEW m, NEW n \in Nat, NEW c, NEW z, Flow(f, m, n, c, z)
  PROVE  c \in Nat /\ z \in Nat /\ c <= z /\ (n = 0 => c = z)
<1>1. PICK e \in [0 .. n -> Nat] : e[0] = c /\ e[n] = z /\ \A i, j \in 0 .. n : i <= j => e[i] <= e[j]
  BY DEF Flow
<1>2. 0 \in 0 .. n /\ n \in 0 .. n
  OBVIOUS
<1>3. QED
  BY <1>1, <1>2

\* No packets make a flow from where it is.
LEMMA FlowNone ==
  ASSUME NEW f, NEW m, NEW c \in Nat
  PROVE  Flow(f, m, 0, c, c)
<1> DEFINE e == [i \in 0 .. 0 |-> c]
<1>1. e \in [0 .. 0 -> Nat] /\ e[0] = c /\ \A i, j \in 0 .. 0 : e[i] <= e[j]
  OBVIOUS
<1>2. \A i \in 1 .. 0 : FALSE
  OBVIOUS
<1> HIDE DEF e
<1>3. QED
  BY <1>1, <1>2 DEF Flow

\* A flow is in its packets alone, wherever they are.
LEMMA FlowMoves ==
  ASSUME NEW f, NEW h, NEW m \in Nat, NEW l \in Nat, NEW n \in Nat, NEW c \in Nat, NEW z \in Nat, Flow(f, m, n, c, z),
         \A i \in 1 .. n : h[l + i] = f[m + i]
  PROVE  Flow(h, l, n, c, z)
BY DEF Flow

\* The first packet of a flow begins behind c, and the rest go on behind it.
LEMMA FlowFirst ==
  ASSUME NEW f, NEW n \in Nat, n > 0, NEW c \in Nat, NEW z \in Nat, Flow(f, 0, n, c, z)
  PROVE  /\ c \in Nat /\ z \in Nat /\ Len(f[1]) \in Nat
         /\ \A x \in 1 .. Len(f[1]) : f[1][x] = Byte(c + x)
         /\ c + Len(f[1]) <= z
         /\ Flow(f, 1, n - 1, c + Len(f[1]), z)
<1>1. PICK e \in [0 .. n -> Nat] :
        /\ e[0] = c /\ e[n] = z
        /\ \A i, j \in 0 .. n : i <= j => e[i] <= e[j]
        /\ \A i \in 1 .. n :
             /\ Len(f[i]) = e[i] - e[i - 1]
             /\ \A x \in 1 .. Len(f[i]) : f[i][x] = Byte(e[i - 1] + x)
  <2>1. PICK e \in [0 .. n -> Nat] :
          /\ e[0] = c /\ e[n] = z
          /\ \A i, j \in 0 .. n : i <= j => e[i] <= e[j]
          /\ \A i \in 1 .. n :
               /\ Len(f[0 + i]) = e[i] - e[i - 1]
               /\ \A x \in 1 .. Len(f[0 + i]) : f[0 + i][x] = Byte(e[i - 1] + x)
    BY DEF Flow
  <2>2. \A i \in 1 .. n : 0 + i = i
    OBVIOUS
  <2>3. \A i \in 1 .. n : /\ Len(f[i]) = e[i] - e[i - 1]
                          /\ \A x \in 1 .. Len(f[i]) : f[i][x] = Byte(e[i - 1] + x)
    BY <2>1, <2>2, Zenon
  <2>4. QED
    BY <2>1, <2>3, Zenon
<1>2. 0 \in 0 .. n /\ 1 \in 0 .. n /\ n \in 0 .. n /\ 1 \in 1 .. n /\ 1 - 1 = 0
  OBVIOUS
<1>3. /\ c \in Nat /\ z \in Nat /\ e[1] \in Nat /\ c <= e[1] /\ e[1] <= z
  <2>1. e[0] <= e[1] /\ e[1] <= e[n]
    <3>1. 0 <= 1 /\ 1 <= n
      OBVIOUS
    <3>2. QED
      BY <3>1, <1>1, <1>2, Zenon
  <2>2. QED
    BY <2>1, <1>1, <1>2
<1>4. /\ Len(f[1]) = e[1] - c
      /\ \A x \in 1 .. Len(f[1]) : f[1][x] = Byte(c + x)
  <2>1. /\ Len(f[1]) = e[1] - e[1 - 1]
        /\ \A x \in 1 .. Len(f[1]) : f[1][x] = Byte(e[1 - 1] + x)
    BY <1>1, <1>2, Zenon
  <2>2. e[1 - 1] = c
    BY <1>1, <1>2
  <2>3. QED
    BY <2>1, <2>2
<1>5. Len(f[1]) \in Nat /\ c + Len(f[1]) = e[1]
  BY <1>3, <1>4
<1> DEFINE d == [i \in 0 .. n - 1 |-> e[i + 1]]
<1>6. \A i \in 0 .. n - 1 : i + 1 \in 0 .. n /\ d[i] = e[i + 1] /\ e[i + 1] \in Nat
  OBVIOUS
<1>7. d \in [0 .. n - 1 -> Nat] /\ d[0] = e[1] /\ d[n - 1] = z
  <2>1. 0 \in 0 .. n - 1 /\ n - 1 \in 0 .. n - 1 /\ 0 + 1 = 1 /\ (n - 1) + 1 = n
    OBVIOUS
  <2>2. QED
    BY <2>1, <1>1, <1>6
<1> HIDE DEF d
<1>8. \A i, j \in 0 .. n - 1 : i <= j => d[i] <= d[j]
  BY <1>1, <1>6
<1>9. ASSUME NEW i \in 1 .. n - 1
      PROVE  /\ Len(f[1 + i]) = d[i] - d[i - 1]
             /\ \A x \in 1 .. Len(f[1 + i]) : f[1 + i][x] = Byte(d[i - 1] + x)
  <2>1. /\ i + 1 \in 1 .. n /\ 1 + i = i + 1 /\ (i + 1) - 1 = i /\ i \in 0 .. n - 1 /\ i - 1 \in 0 .. n - 1
        /\ (i - 1) + 1 = i
    OBVIOUS
  <2>2. d[i] = e[i + 1] /\ d[i - 1] = e[i]
    BY <2>1, <1>6
  <2>3. QED
    BY <2>1, <2>2, <1>1
<1>10. Flow(f, 1, n - 1, e[1], z)
  BY <1>7, <1>8, <1>9 DEF Flow
<1>11. QED
  BY <1>3, <1>4, <1>5, <1>10

\* A flow without its first units.
LEMMA FlowCut ==
  ASSUME NEW f, NEW h, NEW n \in Nat, n > 0, NEW c \in Nat, NEW z \in Nat, Flow(f, 0, n, c, z),
         NEW k \in Nat, k <= Len(f[1]), Len(h[1]) = Len(f[1]) - k,
         \A x \in 1 .. Len(h[1]) : h[1][x] = f[1][k + x],
         \A i \in 2 .. n : h[i] = f[i]
  PROVE  Flow(h, 0, n, c + k, z)
<1>1. PICK e \in [0 .. n -> Nat] :
        /\ e[0] = c /\ e[n] = z
        /\ \A i, j \in 0 .. n : i <= j => e[i] <= e[j]
        /\ \A i \in 1 .. n :
             /\ Len(f[0 + i]) = e[i] - e[i - 1]
             /\ \A x \in 1 .. Len(f[0 + i]) : f[0 + i][x] = Byte(e[i - 1] + x)
  BY DEF Flow
<1>2. 0 \in 0 .. n /\ 1 \in 0 .. n /\ n \in 0 .. n /\ 1 \in 1 .. n /\ 1 - 1 = 0
  OBVIOUS
<1>3. c \in Nat /\ z \in Nat /\ e[1] \in Nat /\ Len(f[1]) = e[1] - c /\ \A x \in 1 .. Len(f[1]) : f[1][x] = Byte(c + x)
  <2>1. /\ Len(f[0 + 1]) = e[1] - e[1 - 1]
        /\ \A x \in 1 .. Len(f[0 + 1]) : f[0 + 1][x] = Byte(e[1 - 1] + x)
    BY <1>1, <1>2, Zenon
  <2>2. e[1 - 1] = c /\ 0 + 1 = 1 /\ c \in Nat /\ z \in Nat /\ e[1] \in Nat
    BY <1>1, <1>2
  <2>3. QED
    BY <2>1, <2>2
<1> DEFINE d == [e EXCEPT ![0] = c + k]
<1>4. d \in [0 .. n -> Nat] /\ d[0] = c + k /\ \A i \in 1 .. n : d[i] = e[i]
  BY <1>1, <1>2, <1>3
<1> HIDE DEF d
<1>5. d[n] = z
  BY <1>1, <1>4
<1>6. ASSUME NEW i \in 0 .. n, NEW j \in 0 .. n, i <= j PROVE d[i] <= d[j]
  <2>1. CASE i = 0 /\ j # 0
    <3>1. e[1] <= e[j] /\ e[j] \in Nat /\ d[j] = e[j]
      BY <2>1, <1>1, <1>2, <1>4
    <3>2. QED
      BY <2>1, <3>1, <1>3, <1>4
  <2>2. CASE i = 0 /\ j = 0
    BY <2>2, <1>3, <1>4
  <2>3. CASE i # 0
    BY <2>3, <1>1, <1>4, <1>6
  <2>4. QED
    BY <2>1, <2>2, <2>3
<1>7. ASSUME NEW i \in 1 .. n
      PROVE  /\ Len(h[0 + i]) = d[i] - d[i - 1]
             /\ \A x \in 1 .. Len(h[0 + i]) : h[0 + i][x] = Byte(d[i - 1] + x)
  <2>1. CASE i = 1
    <3>1. 0 + i = 1 /\ d[i] = e[1] /\ d[i - 1] = c + k
      BY <2>1, <1>2, <1>4
    <3>2. Len(h[1]) = e[1] - (c + k)
      BY <1>3
    <3>3. ASSUME NEW x \in 1 .. Len(h[1]) PROVE h[1][x] = Byte((c + k) + x)
      <4>1. k + x \in 1 .. Len(f[1]) /\ c + (k + x) = (c + k) + x
        BY <1>3
      <4>2. QED
        BY <4>1, <1>3
    <3>4. QED
      BY <3>1, <3>2, <3>3
  <2>2. CASE i # 1
    <3>1. i \in 2 .. n /\ 0 + i = i /\ i - 1 \in 1 .. n
      BY <2>2
    <3>2. h[i] = f[i] /\ d[i] = e[i] /\ d[i - 1] = e[i - 1]
      BY <3>1, <1>4
    <3>3. QED
      BY <3>1, <3>2, <1>1
  <2>3. QED
    BY <2>1, <2>2
<1>8. QED
  BY <1>4, <1>5, <1>6, <1>7 DEF Flow

\* A flow with a packet more.
LEMMA FlowGrows ==
  ASSUME NEW f, NEW m \in Nat, NEW n \in Nat, NEW c \in Nat, NEW z \in Nat, Flow(f, m, n, c, z),
         NEW h, NEW y \in Nat, z <= y, \A i \in 1 .. n : h[m + i] = f[m + i],
         Len(h[m + (n + 1)]) = y - z,
         \A x \in 1 .. Len(h[m + (n + 1)]) : h[m + (n + 1)][x] = Byte(z + x)
  PROVE  Flow(h, m, n + 1, c, y)
<1>1. PICK e \in [0 .. n -> Nat] :
        /\ e[0] = c /\ e[n] = z
        /\ \A i, j \in 0 .. n : i <= j => e[i] <= e[j]
        /\ \A i \in 1 .. n :
             /\ Len(f[m + i]) = e[i] - e[i - 1]
             /\ \A x \in 1 .. Len(f[m + i]) : f[m + i][x] = Byte(e[i - 1] + x)
  BY DEF Flow
<1> DEFINE d == [i \in 0 .. n + 1 |-> IF i = n + 1 THEN y ELSE e[i]]
<1>2. \A i \in 0 .. n : d[i] = e[i] /\ e[i] \in Nat /\ i \in 0 .. n + 1
  OBVIOUS
<1>3. d \in [0 .. n + 1 -> Nat] /\ d[n + 1] = y
  OBVIOUS
<1> HIDE DEF d
<1>4. d[0] = c /\ d[n] = z /\ z \in Nat /\ 0 \in 0 .. n /\ n \in 0 .. n
  BY <1>1, <1>2
<1>5. ASSUME NEW i \in 0 .. n + 1, NEW j \in 0 .. n + 1, i <= j PROVE d[i] <= d[j]
  <2>1. CASE j # n + 1
    <3>1. i \in 0 .. n /\ j \in 0 .. n
      BY <2>1, <1>5
    <3>2. QED
      BY <3>1, <1>1, <1>2, <1>5
  <2>2. CASE j = n + 1 /\ i # n + 1
    <3>1. i \in 0 .. n /\ i <= n
      BY <2>2
    <3>2. d[i] <= z /\ d[i] \in Nat
      BY <3>1, <1>1, <1>2, <1>4
    <3>3. QED
      BY <2>2, <3>2, <1>3, <1>4
  <2>3. CASE j = n + 1 /\ i = n + 1
    BY <2>3, <1>3
  <2>4. QED
    BY <2>1, <2>2, <2>3
<1>6. ASSUME NEW i \in 1 .. n + 1
      PROVE  /\ Len(h[m + i]) = d[i] - d[i - 1]
             /\ \A x \in 1 .. Len(h[m + i]) : h[m + i][x] = Byte(d[i - 1] + x)
  <2>1. CASE i = n + 1
    <3>1. d[i] = y /\ d[i - 1] = z
      BY <2>1, <1>3, <1>4
    <3>2. QED
      BY <2>1, <3>1
  <2>2. CASE i # n + 1
    <3>1. i \in 1 .. n /\ i \in 0 .. n /\ i - 1 \in 0 .. n
      BY <2>2
    <3>2. d[i] = e[i] /\ d[i - 1] = e[i - 1] /\ h[m + i] = f[m + i]
      BY <3>1, <1>2
    <3>3. /\ Len(f[m + i]) = e[i] - e[i - 1]
          /\ \A x \in 1 .. Len(f[m + i]) : f[m + i][x] = Byte(e[i - 1] + x)
      BY <3>1, <1>1, Zenon
    <3>4. QED
      BY <3>2, <3>3, Zenon
  <2>3. QED
    BY <2>1, <2>2
<1>7. QED
  BY <1>3, <1>4, <1>5, <1>6 DEF Flow

\* The phone gave every part it was asked for.
NoPartLost == \A t \in notDone : ~IsPart(t)

\* What get_pit has received, of which the first k units are answers that came late.
Held == Len(pit) + Len(got)
Fills(k, i, u) == IF i <= k THEN u.kind = "box" ELSE u = Byte(i - k)
Shifted(k) ==
  /\ k <= Held
  /\ \A i \in 1 .. Len(pit) : Fills(k, i, pit[i])
  /\ \A i \in 1 .. Len(got) : Fills(k, Len(pit) + i, got[i])

\* It has received r parts and asked for s.
Stands(r, s) ==
  /\ \/ todo = << >> /\ r = 0 /\ s = 0
     \/ Len(todo) > 2 /\ r + s + Len(todo) = 2 * Parts + 3 /\ s \in {r, r + 1} /\ s <= Parts
     \/ Len(todo) \in {1, 2} /\ r = Parts /\ s = Parts
  /\ Len(pit) = UpTo(r)
  /\ IF Len(todo) = 1 THEN Len(got) <= 1 ELSE Held <= UpTo(s)

\* On their way to the phone: g late requests of the size, the parts from d on that were
\* asked for, and w, the last request.
Queued(g, d, s, w) ==
  /\ w \in {0, 1} /\ Len(toDev) = g + (s - d) + w
  /\ \A j \in 1 .. g : toDev[j] = GetSize
  /\ \A j \in 1 .. s - d : toDev[g + j] = PitPart(d + j - 1)
  /\ w = 1 => toDev[Len(toDev)] = Complete

\* On their way from the phone: m late answers, n packets of the PIT, and v, the last answer.
IsBox(p) == Len(p) = 1 /\ p[1].kind = "box"
Carried(m, n, v) ==
  /\ v \in {0, 1} /\ Len(fromDev) = m + n + v
  /\ \A i \in 1 .. m : IsBox(fromDev[i])
  /\ v = 1 => IsBox(fromDev[Len(fromDev)])

\* What is late comes first, and the last request last.
Counts(g, m, n, k, d, s, w, v) ==
  /\ g + m + k < PitAttempts /\ d <= s
  /\ g > 0 => n = 0 /\ d = 0
  /\ g + m > 0 => Held = k
  /\ v = 1 => g = 0 /\ d = s /\ w = 0
  /\ w + v > 0 => Len(todo) = 1

\* Over USB a part comes in one packet, and not behind a late answer.
Packed(m, n, k) ==
  transport # "tcp" =>
    /\ pit # << >> => k = 0
    /\ k > 0 => Held = k
    /\ pit = << >> => \A i \in m + 1 .. m + n : Len(fromDev[i]) \in {0, UpTo(1)}

Filling(g, m, n, k, d, r, s, w, v) ==
  /\ Stands(r, s) /\ Shifted(k) /\ Queued(g, d, s, w) /\ Carried(m, n, v)
  /\ Counts(g, m, n, k, d, s, w, v) /\ Packed(m, n, k)
  /\ transport = "tcp" \/ k = 0 => Flow(fromDev, m, n, Held - k, UpTo(d))

\* The answer to the last request is there, and with it all of the PIT.
Arrived ==
  /\ Len(todo) = 1 /\ toDev = << >> /\ fromDev = << >> /\ Len(got) = 1 /\ pit = DevicePit

Table ==
  \/ Arrived
  \/ \E g, m, n, k, d, r, s, w, v \in Nat : Filling(g, m, n, k, d, r, s, w, v)

\* The parts add up to the PIT.
LEMMA UpToFacts ==
  ASSUME size = PitUnits
  PROVE  /\ Parts \in Nat \ {0} /\ UpTo(0) = 0 /\ UpTo(Parts) = PitUnits /\ UpTo(1) >= PitAttempts
         /\ \A i \in Nat : UpTo(i) \in Nat /\ UpTo(i) <= PitUnits
         /\ \A i \in Nat : i < Parts => UpTo(i + 1) = UpTo(i) + PartLen(i) /\ PartLen(i) \in Nat \ {0} /\ UpTo(i) = ChunkUnits * i
         /\ \A i, j \in Nat : i <= j => UpTo(i) <= UpTo(j)
         /\ \A i \in Nat : UpTo(i) < PitUnits => i < Parts
<1>1. /\ Parts \in Nat \ {0} /\ \A i \in 0 .. Parts - 1 : PartLen(i) \in Nat \ {0}
      /\ ChunkUnits \in Nat \ {0} /\ PitUnits \in Nat \ {0} /\ PitAttempts \in Nat /\ PitAttempts <= ChunkUnits /\ PitAttempts <= PitUnits
  BY PartSizes, Bounds
<1> DEFINE q == (PitUnits - 1) \div ChunkUnits
<1>2. q \in Nat /\ Parts = q + 1 /\ ChunkUnits * q <= PitUnits - 1 /\ PitUnits - 1 < ChunkUnits * q + ChunkUnits
  <2>1. PitUnits - 1 \in Nat
    BY <1>1
  <2>2. q \in Nat /\ (PitUnits - 1) % ChunkUnits \in 0 .. ChunkUnits - 1 /\ PitUnits - 1 = ChunkUnits * q + ((PitUnits - 1) % ChunkUnits)
    BY <2>1, <1>1, DivMod
  <2>3. Parts = q + 1
    BY DEF Parts
  <2> HIDE DEF q
  <2>4. ChunkUnits * q \in Nat
    BY <2>2, <1>1
  <2>5. QED
    BY <2>2, <2>3, <2>4, <1>1
<1> HIDE DEF q
<1>3. ASSUME NEW i \in Nat
      PROVE  /\ ChunkUnits * i \in Nat /\ ChunkUnits * (i + 1) = ChunkUnits * i + ChunkUnits
             /\ i <= q => ChunkUnits * i <= ChunkUnits * q
             /\ q + 1 <= i => ChunkUnits * (q + 1) <= ChunkUnits * i
             /\ \A j \in Nat : i <= j => ChunkUnits * i <= ChunkUnits * j
  BY <1>1, <1>2, MulStep
<1>4. ChunkUnits * (q + 1) = ChunkUnits * q + ChunkUnits /\ ChunkUnits * q \in Nat
  BY <1>2, <1>3
<1>5. ASSUME NEW i \in Nat PROVE UpTo(i) \in Nat /\ UpTo(i) <= PitUnits
  BY <1>1, <1>3 DEF UpTo
<1>6. ASSUME NEW i \in Nat, NEW j \in Nat, i <= j PROVE UpTo(i) <= UpTo(j)
  BY <1>1, <1>3, <1>6 DEF UpTo
<1>7. ASSUME NEW i \in Nat, i < Parts
      PROVE  UpTo(i + 1) = UpTo(i) + PartLen(i) /\ PartLen(i) \in Nat \ {0} /\ UpTo(i) = ChunkUnits * i
  <2>1. i <= q /\ ChunkUnits * i <= PitUnits - 1 /\ ChunkUnits * (i + 1) = ChunkUnits * i + ChunkUnits /\ ChunkUnits * i \in Nat
    BY <1>2, <1>3, <1>4, <1>7, <1>1
  <2>2. PartLen(i) \in Nat \ {0}
    BY <1>1, <1>7
  <2>3. PartLen(i) = IF PitUnits - ChunkUnits * i < ChunkUnits THEN PitUnits - ChunkUnits * i ELSE ChunkUnits
    BY DEF PartLen
  <2>4. QED
    BY <2>1, <2>2, <2>3, <1>1 DEF UpTo
<1>8. ASSUME NEW i \in Nat, UpTo(i) < PitUnits PROVE i < Parts
  <2>1. SUFFICES ASSUME q + 1 <= i PROVE FALSE
    BY <1>2
  <2>2. ChunkUnits * i >= PitUnits
    BY <2>1, <1>1, <1>2, <1>3, <1>4
  <2>3. QED
    BY <2>2, <1>1, <1>3, <1>8 DEF UpTo
<1>9. UpTo(Parts) = PitUnits /\ UpTo(0) = 0 /\ UpTo(1) >= PitAttempts
  <2>1. ChunkUnits * Parts >= PitUnits /\ ChunkUnits * Parts \in Nat
    BY <1>1, <1>2, <1>3, <1>4
  <2>2. ChunkUnits * 0 = 0 /\ ChunkUnits * 1 = ChunkUnits
    BY <1>1
  <2>3. QED
    BY <2>1, <2>2, <1>1 DEF UpTo
<1>10. QED
  BY <1>1, <1>5, <1>6, <1>7, <1>8, <1>9

\* The next step of get_pit, by the parts asked for and received.
LEMMA NextStep ==
  ASSUME TypeOK, size = PitUnits, Suffix(todo), todo # << >>, NEW r \in Nat, NEW s \in Nat, Stands(r, s)
  PROVE  /\ Len(todo) \in Nat \ {0} /\ Len(Tail(todo)) = Len(todo) - 1
         /\ Len(todo) > 3 /\ s = r     => r < Parts /\ Now = PitPart(r)
         /\ Len(todo) > 2 /\ s = r + 1 => r < Parts /\ Now = PartBytes(r) /\ Len(todo) > 3
         /\ Len(todo) > 3 => s = r \/ s = r + 1
         /\ Len(todo) <= 3 => r = Parts /\ s = Parts
<1> DEFINE n == Len(todo)
           L == Len(GetPit)
           at == r + s + 1
<1>1. /\ n \in Nat \ {0} /\ Head(todo) = todo[1] /\ Len(Tail(todo)) = n - 1
  BY SeqFacts DEF TypeOK
<1>2. /\ Parts \in Nat \ {0} /\ L = 2 * Parts + 3
      /\ \A k \in 1 .. 2 * Parts : k % 2 = 1 => GetPit[k] = PitPart(k \div 2) /\ k \div 2 \in Nat
      /\ \A k \in 1 .. 2 * Parts : k % 2 # 1 => GetPit[k] = PartBytes((k \div 2) - 1)
  BY GetPitSteps
<1>3. n <= L /\ todo[1] = GetPit[L - n + 1]
  BY <1>1 DEF Suffix
<1> HIDE DEF n, L
<1>4. n # 0
  BY <1>1
<1>5. n > 2 => r + s + n = L /\ s \in {r, r + 1} /\ s <= Parts
  <2>1. n > 2 => r + s + n = 2 * Parts + 3 /\ s \in {r, r + 1} /\ s <= Parts
    <3>1. n > 2 => n \notin {1, 2}
      BY <1>1
    <3>2. QED
      BY <3>1 DEF Stands, n
  <2>2. QED
    BY <2>1, <1>2
<1>6. n <= 2 => r = Parts /\ s = Parts
  <2>1. todo # << >> => (~(n > 2) => r = Parts /\ s = Parts)
    BY DEF Stands, n
  <2>2. QED
    BY <2>1, <1>1
<1>7. ASSUME n > 2 PROVE Now = GetPit[at]
  <2>1. L - n + 1 = at
    BY <1>1, <1>2, <1>5, <1>7
  <2>2. QED
    BY <2>1, <1>1, <1>3 DEF Now
<1>8. ASSUME n > 3, s = r PROVE r < Parts /\ Now = PitPart(r)
  <2>1. r < Parts /\ at = 2 * r + 1
    BY <1>1, <1>2, <1>5, <1>8
  <2>2. at \in 1 .. 2 * Parts /\ at % 2 = 1 /\ at \div 2 = r
    BY <2>1, <1>2
  <2>3. GetPit[at] = PitPart(r) /\ Now = GetPit[at]
    <3>1. Now = GetPit[at]
      BY <1>1, <1>7, <1>8
    <3> HIDE DEF at
    <3>2. QED
      BY <2>2, <3>1, <1>2, Zenon
  <2>4. QED
    BY <2>1, <2>3
<1>9. ASSUME n > 2, s = r + 1 PROVE r < Parts /\ Now = PartBytes(r) /\ n > 3
  <2>1. r < Parts /\ at = 2 * r + 2 /\ n > 3
    BY <1>1, <1>2, <1>5, <1>9
  <2>2. at \in 1 .. 2 * Parts /\ at % 2 # 1 /\ (at \div 2) - 1 = r
    BY <2>1, <1>2
  <2>3. GetPit[at] = PartBytes(r) /\ Now = GetPit[at]
    <3>1. Now = GetPit[at]
      BY <1>1, <1>7, <1>9
    <3> HIDE DEF at
    <3>2. QED
      BY <2>2, <3>1, <1>2, Zenon
  <2>4. QED
    BY <2>1, <2>3
<1>10. ASSUME n <= 3 PROVE r = Parts /\ s = Parts
  <2>1. CASE n <= 2
    BY <2>1, <1>6
  <2>2. CASE n = 3
    BY <2>2, <1>2, <1>5
  <2>3. QED
    BY <2>1, <2>2, <1>1, <1>10
<1>11. QED
  BY <1>1, <1>5, <1>8, <1>9, <1>10 DEF n

\* The first parts are units.
LEMMA UpToNat ==
  ASSUME size = PitUnits
  PROVE  \A i \in Nat : UpTo(i) \in Nat /\ UpTo(i) <= PitUnits
BY UpToFacts, Zenon

\* The types of what get_pit works on.
LEMMA TableTypes ==
  ASSUME TypeOK
  PROVE  /\ todo \in Seq(Steps \cup PitSteps) /\ Len(todo) \in Nat
         /\ toDev \in Seq(Transfers) /\ Len(toDev) \in Nat
         /\ fromDev \in Seq(Seq(Unit)) /\ Len(fromDev) \in Nat
         /\ got \in Seq(Unit) /\ Len(got) \in Nat /\ pit \in Seq(Unit) /\ Len(pit) \in Nat
         /\ Held = Len(pit) + Len(got) /\ Held \in Nat
         /\ PitAttempts \in Nat /\ PitAttempts <= PitUnits /\ PitUnits \in Nat
BY Bounds DEF TypeOK, Held

\* What a receive of get_pit has room for.
LEMMA RoomLeft ==
  ASSUME TypeOK, size = PitUnits, Suffix(todo), NEW r \in Nat, NEW s \in Nat, Stands(r, s), Listening
  PROVE  /\ todo # << >> /\ Room \in Nat \ {0} /\ Room = Now.max - Len(got)
         /\ \/ Len(todo) = 1 /\ Room = 1 /\ got = << >> /\ r = Parts /\ s = Parts /\ Held = PitUnits
            \/ Len(todo) > 3 /\ s = r + 1 /\ r < Parts /\ Held + Room = UpTo(s)
<1>1. todo # << >> /\ Now.do = "recv" /\ Len(got) < Needed
  BY DEF Listening, Receiving, Busy
<1>2. /\ Len(todo) \in Nat \ {0} /\ Len(got) \in Nat /\ Len(pit) \in Nat /\ Held = Len(pit) + Len(got) /\ Len(pit) = UpTo(r)
      /\ Parts \in Nat \ {0} /\ UpTo(Parts) = PitUnits
      /\ r < Parts => UpTo(r + 1) = UpTo(r) + PartLen(r) /\ PartLen(r) \in Nat \ {0} /\ UpTo(r) \in Nat
  BY <1>1, NextStep, TableTypes, UpToFacts DEF Stands
<1>3. CASE Len(todo) = 1
  <2>1. Now = Expects(Complete) /\ Complete \in Requests /\ Complete.type # "PING"
    BY <1>1, <1>3, Place, GetSizeKinds DEF Complete, Send
  <2>2. Now.min = 1 /\ Now.max = 1
    BY <2>1, ExpectsKinds
  <2>3. Needed = 1 /\ Len(got) = 0
    BY <2>2, <1>1, <1>2 DEF Needed
  <2>4. got = << >> /\ r = Parts /\ s = Parts
    BY <2>3, <1>1, <1>2, <1>3, NextStep, TableTypes, SeqFacts
  <2>5. QED
    BY <2>2, <2>3, <2>4, <1>1, <1>2, <1>3 DEF Room
<1>4. CASE Len(todo) # 1
  <2>1. Len(todo) > 3 /\ Now.type = "bytes" /\ \E i \in 0 .. Parts - 1 : Now = PartBytes(i)
    BY <1>1, <1>4, PlaceKinds
  <2>2. s = r + 1
    <3>1. SUFFICES ASSUME s = r PROVE FALSE
      BY <2>1, <1>1, NextStep
    <3>2. Now = PitPart(r)
      BY <3>1, <2>1, <1>1, NextStep
    <3>3. QED
      BY <3>2, <1>1, PartKinds
  <2>3. r < Parts /\ Now = PartBytes(r)
    BY <2>1, <2>2, <1>1, <1>2, NextStep
  <2>4. Now.min = PartLen(r) /\ Now.max = PartLen(r)
    BY <2>3 DEF PartBytes, Recv
  <2>5. Needed = PartLen(r) /\ Room = PartLen(r) - Len(got)
    BY <2>4 DEF Needed, Room
  <2>6. Room \in Nat \ {0} /\ Held + Room = UpTo(s)
    BY <2>2, <2>3, <2>5, <1>1, <1>2
  <2>7. QED
    BY <2>1, <2>2, <2>3, <2>4, <2>5, <2>6, <1>1
<1>5. QED
  BY <1>3, <1>4

\* Units that fit leave the place where it is.
LEMMA RoomTaken ==
  ASSUME TypeOK, size = PitUnits, Suffix(todo), NEW r \in Nat, NEW s \in Nat, Stands(r, s), Listening,
         NEW h \in Seq(Unit), Len(h) <= Room, got' = got \o h
  PROVE  /\ Stands(r, s)' /\ got' \in Seq(Unit) /\ Len(got') = Len(got) + Len(h) /\ Held' = Held + Len(h)
         /\ \A i \in 1 .. Len(got) : got'[i] = got[i]
         /\ \A i \in 1 .. Len(h) : got'[Len(got) + i] = h[i]
<1>1. /\ Len(got) \in Nat /\ Len(pit) \in Nat /\ Held = Len(pit) + Len(got) /\ got \in Seq(Unit) /\ Len(h) \in Nat
  BY TableTypes
<1>2. /\ got' \in Seq(Unit) /\ Len(got') = Len(got) + Len(h)
      /\ \A i \in 1 .. Len(got) : got'[i] = got[i]
      /\ \A i \in 1 .. Len(h) : got'[Len(got) + i] = h[i]
  BY <1>1, Concat
<1>3. /\ todo' = todo /\ pit' = pit /\ size' = size
  BY DEF Listening
<1>4. Parts' = Parts
  BY <1>3 DEF Parts
<1>5. Held' = Held + Len(h)
  BY <1>1, <1>2, <1>3 DEF Held
<1>6. /\ Room \in Nat \ {0} /\ todo # << >>
      /\ \/ Len(todo) = 1 /\ Room = 1 /\ got = << >>
         \/ Len(todo) > 3 /\ Held + Room = UpTo(s)
  BY RoomLeft
<1>7. IF Len(todo') = 1 THEN Len(got') <= 1 ELSE Held' <= UpTo(s)
  <2>1. CASE Len(todo) = 1
    <3>1. Len(got) = 0 /\ Room = 1
      BY <2>1, <1>6, SeqFacts, <1>1
    <3>2. QED
      BY <2>1, <3>1, <1>1, <1>2, <1>3
  <2>2. CASE Len(todo) # 1
    <3>1. Held + Room = UpTo(s)
      BY <2>2, <1>6
    <3>2. Held' <= UpTo(s)
      BY <3>1, <1>1, <1>5, <1>6
    <3>3. QED
      BY <2>2, <3>2, <1>3
  <2>3. QED
    BY <2>1, <2>2
<1>8. Stands(r, s)'
  <2>1. /\ \/ todo' = << >> /\ r = 0 /\ s = 0
           \/ Len(todo') > 2 /\ r + s + Len(todo') = 2 * Parts' + 3 /\ s \in {r, r + 1} /\ s <= Parts'
           \/ Len(todo') \in {1, 2} /\ r = Parts' /\ s = Parts'
        /\ Len(pit') = UpTo(r)
    BY <1>3, <1>4 DEF Stands
  <2>2. QED
    BY <2>1, <1>7 DEF Stands, UpTo
<1>9. QED
  BY <1>2, <1>5, <1>8

\* Units that come behind those received.
LEMMA ShiftMore ==
  ASSUME TypeOK, NEW l \in Nat, NEW h \in Seq(Unit), pit' = pit, got' \in Seq(Unit), Len(got') = Len(got) + Len(h),
         \A i \in 1 .. Len(got) : got'[i] = got[i],
         \A i \in 1 .. Len(h) : got'[Len(got) + i] = h[i],
         l <= Held + Len(h),
         \A i \in 1 .. Len(pit) : Fills(l, i, pit[i]),
         \A i \in 1 .. Len(got) : Fills(l, Len(pit) + i, got[i]),
         \A i \in 1 .. Len(h) : Fills(l, Held + i, h[i])
  PROVE  Shifted(l)'
<1>1. /\ Len(got) \in Nat /\ Len(pit) \in Nat /\ Held = Len(pit) + Len(got) /\ Len(h) \in Nat
  BY TableTypes
<1>2. Held' = Held + Len(h)
  BY <1>1 DEF Held
<1>3. ASSUME NEW i \in 1 .. Len(got') PROVE Fills(l, Len(pit) + i, got'[i])
  <2>1. CASE i <= Len(got)
    <3>1. i \in 1 .. Len(got)
      BY <2>1, <1>1
    <3>2. QED
      BY <3>1
  <2>2. CASE i > Len(got)
    <3>1. PICK x \in 1 .. Len(h) : i = Len(got) + x
      <4>1. i - Len(got) \in 1 .. Len(h) /\ i = Len(got) + (i - Len(got))
        BY <2>2, <1>1
      <4>2. QED
        BY <4>1
    <3>2. Len(pit) + i = Held + x /\ got'[i] = h[x]
      BY <3>1, <1>1
    <3>3. QED
      BY <3>1, <3>2
  <2>3. QED
    BY <2>1, <2>2, <1>1
<1>4. QED
  BY <1>2, <1>3 DEF Shifted, Fills, Byte

\* A receive leaves the transfers on their way alone.
LEMMA StillQueued ==
  ASSUME NEW g, NEW d, NEW s, NEW w, Queued(g, d, s, w), toDev' = toDev
  PROVE  Queued(g, d, s, w)'
BY DEF Queued

\* The head of what comes from the phone.
LEMMA FirstPacket ==
  ASSUME TypeOK, fromDev # << >>
  PROVE  /\ Len(fromDev) \in Nat \ {0} /\ Head(fromDev) = fromDev[1] /\ Head(fromDev) \in Seq(Unit)
         /\ Len(Head(fromDev)) \in Nat /\ (Head(fromDev) = << >> <=> Len(Head(fromDev)) = 0)
         /\ Tail(fromDev) \in Seq(Seq(Unit)) /\ Len(Tail(fromDev)) = Len(fromDev) - 1
         /\ \A i \in 1 .. Len(fromDev) - 1 : Tail(fromDev)[i] = fromDev[i + 1]
<1>1. fromDev \in Seq(Seq(Unit))
  BY DEF TypeOK
<1>2. Head(fromDev) \in Seq(Unit)
  BY <1>1, SeqFacts
<1>3. Len(Head(fromDev)) \in Nat /\ (Head(fromDev) = << >> <=> Len(Head(fromDev)) = 0)
  BY <1>2, SeqFacts
<1>4. QED
  BY <1>1, <1>2, <1>3, SeqFacts

\* A packet less, of what was late or of the PIT.
LEMMA CarriedTail ==
  ASSUME TypeOK, fromDev # << >>, fromDev' = Tail(fromDev), NEW m \in Nat, NEW n \in Nat, NEW v \in Nat, Carried(m, n, v),
         NEW a \in Nat, NEW b \in Nat, (a + 1 = m /\ b = n) \/ (m = 0 /\ a = 0 /\ b + 1 = n)
  PROVE  Carried(a, b, v)' /\ Len(fromDev') = a + b + v
<1>1. /\ Len(fromDev) = m + n + v /\ Len(fromDev') = Len(fromDev) - 1
      /\ \A i \in 1 .. Len(fromDev) - 1 : fromDev'[i] = fromDev[i + 1]
      /\ \A i \in 1 .. m : IsBox(fromDev[i])
      /\ v = 1 => IsBox(fromDev[Len(fromDev)])
  BY FirstPacket DEF Carried
<1>2. Len(fromDev') = a + b + v
  BY <1>1
<1>3. ASSUME NEW i \in 1 .. a PROVE IsBox(fromDev'[i])
  <2>1. i \in 1 .. Len(fromDev) - 1 /\ i + 1 \in 1 .. m
    BY <1>1
  <2>2. QED
    BY <2>1, <1>1
<1>4. ASSUME v = 1 PROVE IsBox(fromDev'[Len(fromDev')])
  <2>1. Len(fromDev') \in 1 .. Len(fromDev) - 1 /\ Len(fromDev') + 1 = Len(fromDev)
    BY <1>1, <1>4
  <2>2. fromDev'[Len(fromDev')] = fromDev[Len(fromDev') + 1]
    BY <2>1, <1>1
  <2>3. QED
    BY <2>1, <2>2, <1>1, <1>4
<1>5. QED
  BY <1>2, <1>3, <1>4 DEF Carried, IsBox

\* An answer that came late is received.
LEMMA LateTaken ==
  ASSUME TypeOK, size = PitUnits, Suffix(todo), transport' = transport,
         NEW g \in Nat, NEW m \in Nat, NEW n \in Nat, NEW k \in Nat, NEW d \in Nat, NEW r \in Nat, NEW s \in Nat,
         NEW w \in Nat, NEW v \in Nat, Filling(g, m, n, k, d, r, s, w, v),
         TakesAll, m > 0
  PROVE  Filling(g, m - 1, n, k + 1, d, r, s, w, v)'
<1> DEFINE h == Head(fromDev)
<1>1. /\ Listening /\ Len(h) <= Room /\ got' = got \o h /\ fromDev' = Tail(fromDev) /\ fromDev # << >>
      /\ UNCHANGED <<todo, pit, toDev>>
  BY DEF TakesAll, Listening, Fits
<1>2. /\ Stands(r, s) /\ Shifted(k) /\ Queued(g, d, s, w) /\ Carried(m, n, v)
      /\ Counts(g, m, n, k, d, s, w, v) /\ Packed(m, n, k)
      /\ transport = "tcp" \/ k = 0 => Flow(fromDev, m, n, Held - k, UpTo(d))
  BY DEF Filling
<1>3. /\ Len(fromDev) \in Nat \ {0} /\ h = fromDev[1] /\ h \in Seq(Unit)
      /\ \A i \in 1 .. Len(fromDev) - 1 : fromDev'[i] = fromDev[i + 1]
  BY <1>1, FirstPacket
<1>4. Len(h) = 1 /\ h[1].kind = "box"
  <2>1. IsBox(fromDev[1])
    BY <1>2 DEF Carried
  <2>2. QED
    BY <2>1, <1>3 DEF IsBox
<1> HIDE DEF h
<1>5. /\ Held = k /\ g + m + k < PitAttempts /\ d <= s
      /\ g > 0 => n = 0 /\ d = 0
      /\ v = 1 => g = 0 /\ d = s /\ w = 0
      /\ w + v > 0 => Len(todo) = 1
  BY <1>2 DEF Counts
<1>6. /\ Stands(r, s)' /\ got' \in Seq(Unit) /\ Len(got') = Len(got) + Len(h) /\ Held' = Held + Len(h)
      /\ \A i \in 1 .. Len(got) : got'[i] = got[i]
      /\ \A i \in 1 .. Len(h) : got'[Len(got) + i] = h[i]
  BY <1>1, <1>2, <1>3, RoomTaken
<1>7. Shifted(k + 1)'
  <2>1. /\ Len(pit) \in Nat /\ Len(got) \in Nat /\ Held = Len(pit) + Len(got)
    BY TableTypes
  <2>2. ASSUME NEW i \in 1 .. Len(pit) PROVE Fills(k + 1, i, pit[i])
    <3>1. i <= k /\ Fills(k, i, pit[i])
      BY <2>1, <1>2, <1>5 DEF Shifted
    <3>2. QED
      BY <3>1 DEF Fills
  <2>3. ASSUME NEW i \in 1 .. Len(got) PROVE Fills(k + 1, Len(pit) + i, got[i])
    <3>1. Len(pit) + i <= k /\ Fills(k, Len(pit) + i, got[i])
      BY <2>1, <1>2, <1>5 DEF Shifted
    <3>2. Len(pit) + i <= k + 1
      BY <2>1, <3>1
    <3>3. QED
      BY <3>1, <3>2 DEF Fills
  <2>4. ASSUME NEW i \in 1 .. Len(h) PROVE Fills(k + 1, Held + i, h[i])
    BY <1>4, <1>5 DEF Fills
  <2>5. k + 1 <= Held + Len(h) /\ k + 1 \in Nat
    BY <1>4, <1>5
  <2>6. QED
    BY <1>1, <1>3, <1>6, <2>2, <2>3, <2>4, <2>5, ShiftMore, Zenon
<1>8. Carried(m - 1, n, v)'
  BY <1>1, <1>2, CarriedTail
<1>9. Queued(g, d, s, w)'
  BY <1>1, <1>2, StillQueued
<1>10. Counts(g, m - 1, n, k + 1, d, s, w, v)'
  <2>1. Held' = k + 1 /\ g + (m - 1) + (k + 1) < PitAttempts /\ todo' = todo
    <3>1. Held' = k + 1 /\ todo' = todo
      BY <1>1, <1>4, <1>5, <1>6
    <3>2. g + (m - 1) + (k + 1) = g + m + k
      OBVIOUS
    <3>3. QED
      BY <3>1, <3>2, <1>5
  <2>2. QED
    BY <2>1, <1>5 DEF Counts
<1>11. Packed(m - 1, n, k + 1)'
  <2>1. SUFFICES ASSUME transport # "tcp"
                 PROVE  /\ pit = << >>
                        /\ \A i \in m .. (m - 1) + n : Len(fromDev'[i]) \in {0, UpTo(1)}
    <3>1. Held' = k + 1 /\ (m - 1) + 1 = m /\ pit' = pit
      BY <1>1, <1>4, <1>5, <1>6
    <3>2. QED
      BY <2>1, <3>1 DEF Packed, UpTo
  <2>2. pit = << >>
    <3>1. SUFFICES ASSUME pit # << >> PROVE FALSE
      OBVIOUS
    <3>2. k = 0
      BY <2>1, <3>1, <1>2 DEF Packed
    <3>3. Len(pit) = 0
      BY <3>2, <1>5, TableTypes
    <3>4. QED
      BY <3>1, <3>3, TableTypes, SeqFacts
  <2>3. ASSUME NEW i \in m .. (m - 1) + n PROVE Len(fromDev'[i]) \in {0, UpTo(1)}
    <3>1. i + 1 \in m + 1 .. m + n /\ i \in 1 .. Len(fromDev) - 1
      BY <1>2 DEF Carried
    <3>2. QED
      BY <3>1, <2>1, <2>2, <1>2, <1>3 DEF Packed
  <2>4. QED
    BY <2>2, <2>3
<1>12. transport' = "tcp" \/ k + 1 = 0 => Flow(fromDev', m - 1, n, Held' - (k + 1), UpTo(d))
  <2>1. SUFFICES ASSUME transport = "tcp" PROVE Flow(fromDev', m - 1, n, Held' - (k + 1), UpTo(d))
    OBVIOUS
  <2>2. Flow(fromDev, m, n, 0, UpTo(d)) /\ Held' - (k + 1) = 0 /\ m - 1 \in Nat
    BY <2>1, <1>2, <1>4, <1>5, <1>6
  <2>3. ASSUME NEW i \in 1 .. n PROVE fromDev'[(m - 1) + i] = fromDev[m + i]
    <3>1. (m - 1) + i \in 1 .. Len(fromDev) - 1 /\ ((m - 1) + i) + 1 = m + i
      BY <1>2 DEF Carried
    <3>2. QED
      BY <3>1, <1>3
  <2>4. UpTo(d) \in Nat /\ 0 \in Nat
    BY UpToNat
  <2>5. Flow(fromDev', m - 1, n, 0, UpTo(d))
    BY <2>2, <2>3, <2>4, FlowMoves, Zenon
  <2>6. QED
    BY <2>2, <2>5
<1>13. QED
  BY <1>6, <1>7, <1>8, <1>9, <1>10, <1>11, <1>12 DEF Filling, Flow, UpTo

\* Bytes of the PIT are received, be it a packet of them or a part of one.
LEMMA BytesTaken ==
  ASSUME TypeOK, size = PitUnits, Suffix(todo), transport' = transport,
         NEW g \in Nat, NEW m \in Nat, NEW n \in Nat, NEW k \in Nat, NEW d \in Nat, NEW r \in Nat, NEW s \in Nat,
         NEW w \in Nat, NEW v \in Nat, Filling(g, m, n, k, d, r, s, w, v), m = 0, n > 0,
         Listening, transport = "tcp" \/ k = 0,
         NEW h \in Seq(Unit), Len(h) <= Room, got' = got \o h, \A x \in 1 .. Len(h) : h[x] = Byte((Held - k) + x),
         NEW b \in Nat, Carried(m, b, v)', Flow(fromDev', m, b, (Held - k) + Len(h), UpTo(d)),
         transport # "tcp" /\ pit = << >> => \A i \in 1 .. b : Len(fromDev'[i]) \in {0, UpTo(1)}
  PROVE  Filling(g, m, b, k, d, r, s, w, v)'
<1>1. UNCHANGED <<todo, pit, toDev>>
  BY DEF Listening
<1>2. /\ Stands(r, s) /\ Shifted(k) /\ Queued(g, d, s, w)
      /\ Counts(g, 0, n, k, d, s, w, v) /\ Packed(0, n, k)
  BY DEF Filling
<1>3. /\ Len(pit) \in Nat /\ Len(got) \in Nat /\ Held = Len(pit) + Len(got) /\ Held \in Nat /\ Len(h) \in Nat
  BY TableTypes
<1>4. /\ Stands(r, s)' /\ got' \in Seq(Unit) /\ Len(got') = Len(got) + Len(h) /\ Held' = Held + Len(h)
      /\ \A i \in 1 .. Len(got) : got'[i] = got[i]
      /\ \A i \in 1 .. Len(h) : got'[Len(got) + i] = h[i]
  BY <1>2, RoomTaken
<1>5. /\ k <= Held /\ g + 0 + k < PitAttempts /\ d <= s /\ g = 0
      /\ v = 1 => g = 0 /\ d = s /\ w = 0
      /\ w + v > 0 => Len(todo) = 1
  BY <1>2 DEF Counts, Shifted
<1>6. Shifted(k)'
  <2>1. ASSUME NEW x \in 1 .. Len(h) PROVE Fills(k, Held + x, h[x])
    <3>1. ~(Held + x <= k) /\ (Held - k) + x = (Held + x) - k
      <4>1. k <= Held /\ Held \in Nat /\ x \in Nat /\ x > 0
        BY <1>3, <1>5
      <4>2. QED
        BY <4>1
    <3>2. QED
      BY <3>1 DEF Fills
  <2>2. k <= Held + Len(h)
    BY <1>3, <1>5
  <2>3. /\ \A i \in 1 .. Len(pit) : Fills(k, i, pit[i])
        /\ \A i \in 1 .. Len(got) : Fills(k, Len(pit) + i, got[i])
    BY <1>2 DEF Shifted
  <2>4. pit' = pit
    BY <1>1
  <2>5. QED
    BY <1>4, <2>1, <2>2, <2>3, <2>4, ShiftMore, Zenon
<1>7. Queued(g, d, s, w)'
  BY <1>1, <1>2, StillQueued
<1>8. Counts(g, 0, b, k, d, s, w, v)'
  <2>1. todo' = todo /\ ~(g + 0 > 0) /\ ~(g > 0)
    BY <1>1, <1>5
  <2>2. QED
    BY <2>1, <1>5 DEF Counts
<1>9. Packed(0, b, k)'
  <2>1. SUFFICES ASSUME transport # "tcp"
                 PROVE  k = 0 /\ (pit = << >> => \A i \in 1 .. b : Len(fromDev'[i]) \in {0, UpTo(1)})
    <3>1. pit' = pit /\ 0 + 1 = 1 /\ 0 + b = b
      BY <1>1
    <3>2. QED
      BY <2>1, <3>1 DEF Packed, UpTo
  <2>2. QED
    BY <2>1
<1>10. Flow(fromDev', 0, b, Held' - k, UpTo(d))
  <2>1. Held' - k = (Held - k) + Len(h)
    BY <1>3, <1>4
  <2>2. QED
    BY <2>1
<1>11. QED
  BY <1>4, <1>6, <1>7, <1>8, <1>9, <1>10 DEF Filling, Flow, UpTo

\* Over USB a part does not fit behind an answer that came late.
LEMMA NothingFits ==
  ASSUME TypeOK, size = PitUnits, Suffix(todo),
         NEW g \in Nat, NEW m \in Nat, NEW n \in Nat, NEW k \in Nat, NEW d \in Nat, NEW r \in Nat, NEW s \in Nat,
         NEW w \in Nat, NEW v \in Nat, Filling(g, m, n, k, d, r, s, w, v), m = 0, n > 0, TakesAll
  PROVE  transport = "tcp" \/ k = 0
<1>1. SUFFICES ASSUME transport # "tcp", k # 0 PROVE FALSE
  OBVIOUS
<1>2. Stands(r, s) /\ Listening /\ Len(Head(fromDev)) <= Room /\ Head(fromDev) # << >> /\ fromDev # << >>
  BY DEF Filling, TakesAll, Listening, Fits
<1>3. /\ g + 0 + k < PitAttempts /\ pit = << >> /\ Held = k
      /\ \A i \in 0 + 1 .. 0 + n : Len(fromDev[i]) \in {0, UpTo(1)}
  BY <1>1 DEF Filling, Counts, Packed
<1>4. Len(fromDev[1]) \in {0, UpTo(1)}
  <2>1. 1 \in 0 + 1 .. 0 + n
    OBVIOUS
  <2>2. QED
    BY <2>1, <1>3
<1>5. Len(Head(fromDev)) = UpTo(1)
  BY <1>2, <1>4, FirstPacket
<1>6. /\ Len(pit) = 0 /\ UpTo(r) = 0 /\ PitAttempts \in Nat /\ PitAttempts <= PitUnits
  BY <1>2, <1>3, TableTypes, SeqFacts DEF Stands
<1>7. /\ UpTo(1) >= PitAttempts /\ UpTo(1) \in Nat /\ (1 <= r => UpTo(1) <= UpTo(r))
  BY UpToFacts
<1>8. r = 0
  BY <1>1, <1>3, <1>6, <1>7
<1>9. Room \in Nat \ {0} /\ (Held = PitUnits \/ (s = r + 1 /\ Held + Room = UpTo(s)))
  BY <1>2, RoomLeft
<1>10. Held + Room = UpTo(1)
  BY <1>1, <1>3, <1>6, <1>8, <1>9
<1>11. QED
  BY <1>1, <1>2, <1>3, <1>5, <1>7, <1>9, <1>10

\* A packet of the PIT is received.
LEMMA PacketTaken ==
  ASSUME TypeOK, size = PitUnits, Suffix(todo), transport' = transport,
         NEW g \in Nat, NEW m \in Nat, NEW n \in Nat, NEW k \in Nat, NEW d \in Nat, NEW r \in Nat, NEW s \in Nat,
         NEW w \in Nat, NEW v \in Nat, Filling(g, m, n, k, d, r, s, w, v), m = 0, n > 0, TakesAll
  PROVE  Filling(g, m, n - 1, k, d, r, s, w, v)'
<1> DEFINE h == Head(fromDev)
<1>1. /\ Listening /\ Len(h) <= Room /\ got' = got \o h /\ fromDev' = Tail(fromDev) /\ fromDev # << >>
  BY DEF TakesAll, Listening, Fits
<1>2. /\ h = fromDev[1] /\ h \in Seq(Unit) /\ \A i \in 1 .. Len(fromDev) - 1 : fromDev'[i] = fromDev[i + 1]
  BY <1>1, FirstPacket
<1>3. transport = "tcp" \/ k = 0
  BY NothingFits, Zenon
<1> HIDE DEF h
<1>4. Held - k \in Nat /\ UpTo(d) \in Nat
  <2>1. k <= Held
    BY DEF Filling, Shifted
  <2>2. Held \in Nat /\ UpTo(d) \in Nat
    BY TableTypes, UpToFacts
  <2>3. QED
    BY <2>1, <2>2
<1>5. Carried(0, n, v) /\ Packed(0, n, k) /\ Flow(fromDev, 0, n, Held - k, UpTo(d)) /\ Len(fromDev) = n + v
  BY <1>3 DEF Filling, Carried
<1>6. n - 1 \in Nat /\ Carried(0, n - 1, v)'
  <2>1. n - 1 \in Nat /\ (n - 1) + 1 = n
    OBVIOUS
  <2>2. QED
    BY <2>1, <1>1, <1>5, CarriedTail
<1>7. /\ \A x \in 1 .. Len(h) : h[x] = Byte((Held - k) + x)
      /\ Flow(fromDev, 1, n - 1, (Held - k) + Len(h), UpTo(d))
  <2>1. Flow(fromDev, 0, n, Held - k, UpTo(d))
    BY <1>5
  <2>2. /\ \A x \in 1 .. Len(fromDev[1]) : fromDev[1][x] = Byte((Held - k) + x)
        /\ Flow(fromDev, 1, n - 1, (Held - k) + Len(fromDev[1]), UpTo(d))
    BY <2>1, <1>4, FlowFirst, Zenon
  <2>3. QED
    BY <2>2, <1>2
<1>8. \A i \in 1 .. n - 1 : fromDev'[0 + i] = fromDev[1 + i]
  <2>1. SUFFICES ASSUME NEW i \in 1 .. n - 1 PROVE fromDev'[0 + i] = fromDev[1 + i]
    OBVIOUS
  <2>2. i \in 1 .. Len(fromDev) - 1 /\ 0 + i = i /\ 1 + i = i + 1
    BY <1>5
  <2>3. QED
    BY <2>2, <1>2
<1>9. Flow(fromDev', 0, n - 1, (Held - k) + Len(h), UpTo(d))
  <2>1. Flow(fromDev, 1, n - 1, (Held - k) + Len(h), UpTo(d)) /\ (Held - k) + Len(h) \in Nat
    BY <1>2, <1>7, <1>4
  <2>2. n - 1 \in Nat /\ 0 \in Nat /\ 1 \in Nat
    BY <1>6
  <2>3. QED
    BY <2>1, <2>2, <1>8, <1>4, FlowMoves, Zenon
<1>10. ASSUME transport # "tcp", pit = << >>, NEW i \in 1 .. n - 1 PROVE Len(fromDev'[i]) \in {0, UpTo(1)}
  <2>1. i + 1 \in 0 + 1 .. 0 + n
    OBVIOUS
  <2>2. i \in 1 .. Len(fromDev) - 1
    BY <1>5
  <2>3. fromDev'[i] = fromDev[i + 1]
    BY <2>2, <1>2
  <2>4. QED
    BY <2>1, <2>3, <1>5, <1>10 DEF Packed
<1>11. QED
  BY <1>1, <1>2, <1>3, <1>6, <1>7, <1>9, <1>10, BytesTaken, Zenon

\* A receive of a part of a packet cuts it in two.
LEMMA PartCut ==
  ASSUME TypeOK, TakesPart
  PROVE  \E h, q \in Seq(Unit) :
           /\ Len(h) \in Nat \ {0} /\ Len(q) \in Nat \ {0} /\ Len(fromDev[1]) = Len(h) + Len(q) /\ Len(h) <= Room
           /\ \A x \in 1 .. Len(h) : h[x] = fromDev[1][x]
           /\ \A x \in 1 .. Len(q) : q[x] = fromDev[1][Len(h) + x]
           /\ got' = got \o h /\ Len(fromDev') = Len(fromDev) /\ fromDev'[1] = q
           /\ \A i \in 2 .. Len(fromDev) : fromDev'[i] = fromDev[i]
<1>1. fromDev # << >>
  BY DEF TakesPart, Listening
<1> DEFINE p == Head(fromDev)
<1>2. /\ Len(fromDev) \in Nat \ {0} /\ p = fromDev[1] /\ p \in Seq(Unit) /\ Len(p) \in Nat
      /\ Tail(fromDev) \in Seq(Seq(Unit)) /\ Len(Tail(fromDev)) = Len(fromDev) - 1
      /\ \A i \in 1 .. Len(fromDev) - 1 : Tail(fromDev)[i] = fromDev[i + 1]
  BY <1>1, FirstPacket
<1>3. \E j \in 1 .. Len(p) - 1 :
        /\ j <= Room /\ got' = got \o SubSeq(p, 1, j)
        /\ fromDev' = <<SubSeq(p, j + 1, Len(p))>> \o Tail(fromDev)
  BY DEF TakesPart
<1> HIDE DEF p
<1>4. PICK j \in 1 .. Len(p) - 1 :
        /\ j <= Room /\ got' = got \o SubSeq(p, 1, j)
        /\ fromDev' = <<SubSeq(p, j + 1, Len(p))>> \o Tail(fromDev)
  BY <1>3
<1>5. j \in 1 .. Len(p) - 1 /\ j \in Nat \ {0} /\ Len(p) - j \in Nat \ {0}
  BY <1>2
<1> DEFINE h == SubSeq(p, 1, j)
           q == SubSeq(p, j + 1, Len(p))
<1>6. /\ h \in Seq(Unit) /\ Len(h) = j /\ q \in Seq(Unit) /\ Len(q) = Len(p) - j
  BY <1>2, <1>5, Cut
<1>7. /\ \A i \in 1 .. j : p[i] \in Unit
      /\ \A i \in j + 1 .. Len(p) : p[i] \in Unit
  BY <1>2, <1>5
<1>8. \A x \in 1 .. j : h[x] = p[x]
  BY <1>2, <1>5, <1>6, <1>7, SubSeqProperties
<1>9. \A x \in 1 .. Len(p) - j : q[x] = p[j + x]
  BY <1>2, <1>5, <1>6, <1>7, SubSeqProperties
<1>10. got' = got \o h /\ fromDev' = <<q>> \o Tail(fromDev)
  BY <1>4
<1> HIDE DEF h, q
<1>11. <<q>> \in Seq(Seq(Unit)) /\ Len(<<q>>) = 1 /\ <<q>>[1] = q
  BY <1>6
<1>12. /\ Len(fromDev') = 1 + (Len(fromDev) - 1) /\ fromDev'[1] = q
       /\ \A i \in 1 .. Len(fromDev) - 1 : fromDev'[1 + i] = Tail(fromDev)[i]
  <2>1. /\ Len(<<q>> \o Tail(fromDev)) = Len(<<q>>) + Len(Tail(fromDev))
        /\ \A i \in 1 .. Len(<<q>>) : (<<q>> \o Tail(fromDev))[i] = <<q>>[i]
        /\ \A i \in 1 .. Len(Tail(fromDev)) : (<<q>> \o Tail(fromDev))[Len(<<q>>) + i] = Tail(fromDev)[i]
    <3>1. <<q>> \in Seq(Seq(Unit)) /\ Tail(fromDev) \in Seq(Seq(Unit))
      BY <1>2, <1>11
    <3>2. QED
      BY <3>1, Concat
  <2>2. QED
    BY <2>1, <1>2, <1>10, <1>11
<1>13. ASSUME NEW i \in 2 .. Len(fromDev) PROVE fromDev'[i] = fromDev[i]
  <2>1. i - 1 \in 1 .. Len(fromDev) - 1 /\ 1 + (i - 1) = i /\ (i - 1) + 1 = i
    BY <1>2
  <2>2. QED
    BY <2>1, <1>2, <1>12
<1>14. /\ Len(h) \in Nat \ {0} /\ Len(q) \in Nat \ {0} /\ Len(fromDev[1]) = Len(h) + Len(q) /\ Len(h) <= Room
       /\ Len(fromDev') = Len(fromDev)
  BY <1>2, <1>4, <1>5, <1>6, <1>12
<1>15. /\ \A x \in 1 .. Len(h) : h[x] = fromDev[1][x]
       /\ \A x \in 1 .. Len(q) : q[x] = fromDev[1][Len(h) + x]
  BY <1>2, <1>6, <1>8, <1>9
<1>16. QED
  BY <1>6, <1>10, <1>12, <1>13, <1>14, <1>15, Zenon

\* A part of a packet of the PIT is received, over TCP.
LEMMA PartTaken ==
  ASSUME TypeOK, size = PitUnits, Suffix(todo), transport' = transport,
         NEW g \in Nat, NEW m \in Nat, NEW n \in Nat, NEW k \in Nat, NEW d \in Nat, NEW r \in Nat, NEW s \in Nat,
         NEW w \in Nat, NEW v \in Nat, Filling(g, m, n, k, d, r, s, w, v), TakesPart
  PROVE  m = 0 /\ Filling(g, m, n, k, d, r, s, w, v)'
<1>1. Listening /\ transport = "tcp" /\ fromDev # << >>
  BY DEF TakesPart, Listening
<1>2. PICK h, q \in Seq(Unit) :
        /\ Len(h) \in Nat \ {0} /\ Len(q) \in Nat \ {0} /\ Len(fromDev[1]) = Len(h) + Len(q) /\ Len(h) <= Room
        /\ \A x \in 1 .. Len(h) : h[x] = fromDev[1][x]
        /\ \A x \in 1 .. Len(q) : q[x] = fromDev[1][Len(h) + x]
        /\ got' = got \o h /\ Len(fromDev') = Len(fromDev) /\ fromDev'[1] = q
        /\ \A i \in 2 .. Len(fromDev) : fromDev'[i] = fromDev[i]
  BY PartCut
<1>3. /\ Carried(m, n, v) /\ Len(fromDev) = m + n + v /\ v \in {0, 1} /\ Len(fromDev) \in Nat \ {0}
  BY <1>1, FirstPacket DEF Filling, Carried
<1>4. ~IsBox(fromDev[1])
  <2>1. Len(fromDev[1]) # 1
    BY <1>2
  <2>2. QED
    BY <2>1 DEF IsBox
<1>5. m = 0
  <2>1. SUFFICES ASSUME 1 \in 1 .. m PROVE FALSE
    OBVIOUS
  <2>2. IsBox(fromDev[1])
    BY <2>1, <1>3 DEF Carried
  <2>3. QED
    BY <2>2, <1>4
<1>6. n > 0
  <2>1. SUFFICES ASSUME n = 0 PROVE FALSE
    OBVIOUS
  <2>2. v = 1 /\ Len(fromDev) = 1
    BY <2>1, <1>3, <1>5
  <2>3. IsBox(fromDev[1])
    BY <2>2, <1>3 DEF Carried
  <2>4. QED
    BY <2>3, <1>4
<1>7. Carried(m, n, v)'
  <2>1. ASSUME v = 1 PROVE IsBox(fromDev'[Len(fromDev')])
    <3>1. Len(fromDev) \in 2 .. Len(fromDev)
      BY <2>1, <1>3, <1>5, <1>6
    <3>2. IsBox(fromDev[Len(fromDev)])
      BY <2>1, <1>3 DEF Carried
    <3>3. fromDev'[Len(fromDev')] = fromDev[Len(fromDev)]
      BY <3>1, <1>2
    <3>4. QED
      BY <3>2, <3>3
  <2>2. QED
    BY <2>1, <1>2, <1>3, <1>5 DEF Carried, IsBox
<1>8. Flow(fromDev, m, n, Held - k, UpTo(d))
  BY <1>1 DEF Filling
<1>9. Held - k \in Nat /\ UpTo(d) \in Nat
  <2>1. k <= Held
    BY DEF Filling, Shifted
  <2>2. Held \in Nat /\ UpTo(d) \in Nat
    BY TableTypes, UpToFacts
  <2>3. QED
    BY <2>1, <2>2
<1>10. Flow(fromDev, 0, n, Held - k, UpTo(d))
  BY <1>5, <1>8
<1>11. \A x \in 1 .. Len(fromDev[1]) : fromDev[1][x] = Byte((Held - k) + x)
  BY <1>6, <1>9, <1>10, FlowFirst, Zenon
<1>12. \A x \in 1 .. Len(h) : h[x] = Byte((Held - k) + x)
  <2>1. SUFFICES ASSUME NEW x \in 1 .. Len(h) PROVE h[x] = Byte((Held - k) + x)
    OBVIOUS
  <2>2. x \in 1 .. Len(h) /\ x \in 1 .. Len(fromDev[1])
    BY <1>2
  <2>3. h[x] = fromDev[1][x] /\ fromDev[1][x] = Byte((Held - k) + x)
    BY <2>2, <1>2, <1>11
  <2>4. QED
    BY <2>3
<1>13. Flow(fromDev', 0, n, (Held - k) + Len(h), UpTo(d))
  <2>1. /\ Len(h) \in Nat /\ Len(h) <= Len(fromDev[1]) /\ Len(fromDev'[1]) = Len(fromDev[1]) - Len(h)
    BY <1>2
  <2>2. \A x \in 1 .. Len(fromDev'[1]) : fromDev'[1][x] = fromDev[1][Len(h) + x]
    BY <1>2
  <2>3. \A i \in 2 .. n : fromDev'[i] = fromDev[i]
    BY <1>2, <1>3, <1>5
  <2>4. QED
    BY <2>1, <2>2, <2>3, <1>6, <1>9, <1>10, FlowCut
<1>14. Carried(m, n, v)' /\ Flow(fromDev', m, n, (Held - k) + Len(h), UpTo(d))
  BY <1>5, <1>7, <1>13
<1>15. h \in Seq(Unit) /\ Len(h) <= Room /\ got' = got \o h
  BY <1>2
<1>16. /\ transport # "tcp" /\ pit = << >> => \A i \in 1 .. n : Len(fromDev'[i]) \in {0, UpTo(1)}
       /\ transport = "tcp" \/ k = 0
  BY <1>1
<1>17. Filling(g, m, n, k, d, r, s, w, v)'
  BY <1>16, <1>1, <1>5, <1>6, <1>12, <1>14, <1>15, BytesTaken, Zenon
<1>18. QED
  BY <1>5, <1>17

\* A PIT of all its units is the phone's.
LEMMA PitWhole ==
  ASSUME pit \in Seq(Unit), Len(pit) = PitUnits, \A i \in 1 .. Len(pit) : pit[i] = Byte(i)
  PROVE  pit = DevicePit
<1>1. pit \in [1 .. PitUnits -> Unit]
  BY LenProperties
<1>2. DevicePit = [i \in 1 .. PitUnits |-> Byte(i)]
  BY DEF DevicePit, Byte
<1>3. \A i \in 1 .. PitUnits : pit[i] = Byte(i)
  OBVIOUS
<1>4. QED
  BY <1>1, <1>2, <1>3

\* With the answer to the last request received, all of the PIT is there.
LEMMA LastTaken ==
  ASSUME TypeOK, size = PitUnits, Suffix(todo), transport' = transport,
         NEW g \in Nat, NEW m \in Nat, NEW n \in Nat, NEW k \in Nat, NEW d \in Nat, NEW r \in Nat, NEW s \in Nat,
         NEW w \in Nat, NEW v \in Nat, Filling(g, m, n, k, d, r, s, w, v), TakesAll, m = 0, n = 0
  PROVE  Arrived'
<1> DEFINE h == Head(fromDev)
<1>1. /\ Listening /\ Len(h) <= Room /\ got' = got \o h /\ fromDev' = Tail(fromDev) /\ fromDev # << >>
      /\ todo' = todo /\ pit' = pit /\ toDev' = toDev
  BY DEF TakesAll, Listening, Fits
<1>2. /\ Len(fromDev) \in Nat \ {0} /\ h = fromDev[1] /\ h \in Seq(Unit) /\ fromDev' \in Seq(Seq(Unit)) /\ Len(fromDev') = Len(fromDev) - 1
  BY <1>1, FirstPacket
<1> HIDE DEF h
<1>3. v = 1 /\ Len(fromDev) = 1 /\ IsBox(fromDev[1])
  <2>1. Len(fromDev) = v /\ v \in {0, 1} /\ (v = 1 => IsBox(fromDev[Len(fromDev)]))
    BY DEF Filling, Carried
  <2>2. QED
    BY <2>1, <1>2
<1>4. g = 0 /\ d = s /\ w = 0 /\ Len(todo) = 1
  BY <1>3 DEF Filling, Counts
<1>5. Stands(r, s)
  BY DEF Filling
<1>6. got = << >> /\ r = Parts /\ s = Parts /\ Held = PitUnits
  BY <1>1, <1>4, <1>5, RoomLeft
<1>7. Len(pit) = PitUnits /\ Len(got) = 0 /\ pit \in Seq(Unit) /\ PitUnits \in Nat \ {0} /\ UpTo(Parts) = PitUnits /\ toDev \in Seq(Transfers)
  <2>1. Len(got) = 0 /\ Held = Len(pit) + Len(got) /\ Len(pit) \in Nat /\ pit \in Seq(Unit) /\ PitUnits \in Nat /\ toDev \in Seq(Transfers)
    BY <1>6, TableTypes, SeqFacts
  <2>2. UpTo(Parts) = PitUnits /\ PitUnits \in Nat \ {0}
    BY UpToFacts, Bounds
  <2>3. QED
    BY <2>1, <2>2, <1>6
<1>8. toDev = << >>
  <2>1. Len(toDev) = g + (s - d) + w
    BY DEF Filling, Queued
  <2>2. Len(toDev) = 0
    BY <2>1, <1>4
  <2>3. QED
    BY <2>2, <1>7, SeqFacts
<1>9. k = 0
  <2>1. CASE transport = "tcp"
    <3>1. Flow(fromDev, m, n, Held - k, UpTo(d))
      BY <2>1 DEF Filling
    <3>2. Held - k = UpTo(d)
      BY <3>1, FlowEnds
    <3>3. UpTo(d) = PitUnits
      BY <1>4, <1>6, <1>7
    <3>4. QED
      BY <3>2, <3>3, <1>6, <1>7
  <2>2. CASE transport # "tcp"
    <3>1. pit # << >>
      <4>1. SUFFICES ASSUME pit = << >> PROVE FALSE
        OBVIOUS
      <4>2. Len(pit) = 0
        BY <4>1, <1>7, SeqFacts
      <4>3. QED
        BY <4>2, <1>7
    <3>2. QED
      BY <2>2, <3>1 DEF Filling, Packed
  <2>3. QED
    BY <2>1, <2>2
<1>10. pit = DevicePit
  <2>1. ASSUME NEW i \in 1 .. Len(pit) PROVE pit[i] = Byte(i)
    <3>1. Fills(k, i, pit[i])
      BY DEF Filling, Shifted
    <3>2. ~(i <= k) /\ i - k = i
      BY <1>9
    <3>3. QED
      BY <3>1, <3>2 DEF Fills
  <2>2. QED
    BY <2>1, <1>7, PitWhole
<1>11. Len(got') = 1
  <2>1. Len(h) = 1
    BY <1>2, <1>3 DEF IsBox
  <2>2. got \in Seq(Unit)
    BY TableTypes
  <2>3. Len(got') = Len(got) + Len(h)
    BY <2>2, <1>1, <1>2, Concat
  <2>4. QED
    BY <2>1, <2>3, <1>7
<1>12. fromDev' = << >>
  <2>1. Len(fromDev') = 0
    BY <1>2, <1>3
  <2>2. QED
    BY <2>1, <1>2, SeqFacts
<1>13. QED
  BY <1>1, <1>4, <1>8, <1>10, <1>11, <1>12 DEF Arrived, DevicePit

\* What was received stays when nothing is.
LEMMA SameBytes ==
  ASSUME pit' = pit, got' = got, NEW k \in Nat
  PROVE  Held' = Held /\ (Shifted(k) => Shifted(k)')
<1>1. Held' = Held
  BY DEF Held
<1>2. Shifted(k) => Shifted(k)'
  BY <1>1 DEF Shifted, Fills, Byte
<1>3. QED
  BY <1>1, <1>2

\* So does the place of get_pit.
LEMMA SamePlace ==
  ASSUME todo' = todo, pit' = pit, got' = got, size' = size, NEW r \in Nat, NEW s \in Nat, Stands(r, s)
  PROVE  Stands(r, s)'
<1>1. Held' = Held /\ Parts' = Parts
  BY DEF Held, Parts
<1>2. QED
  BY <1>1 DEF Stands, UpTo

\* A flow moves up.
LEMMA FlowUp ==
  ASSUME NEW f, NEW h, NEW n \in Nat, NEW c \in Nat, NEW z \in Nat, Flow(f, 1, n, c, z),
         \A i \in 1 .. n : h[i] = f[i + 1]
  PROVE  Flow(h, 0, n, c, z)
<1>1. \A i \in 1 .. n : h[0 + i] = f[1 + i]
  OBVIOUS
<1>2. 0 \in Nat /\ 1 \in Nat
  OBVIOUS
<1>3. QED
  BY <1>1, <1>2, FlowMoves, Zenon

\* A flow without its first packet.
LEMMA FlowTail ==
  ASSUME NEW f, NEW h, NEW n \in Nat, n > 0, NEW c \in Nat, NEW z \in Nat, Flow(f, 0, n, c, z),
         \A i \in 1 .. n - 1 : h[i] = f[i + 1]
  PROVE  Flow(h, 0, n - 1, c + Len(f[1]), z)
<1>1. Flow(f, 1, n - 1, c + Len(f[1]), z) /\ Len(f[1]) \in Nat
  BY FlowFirst, Zenon
<1>2. /\ Flow(f, 1, n - 1, c + Len(f[1]), z) /\ c + Len(f[1]) \in Nat /\ n - 1 \in Nat
      /\ 0 \in Nat /\ 1 \in Nat /\ z \in Nat
  BY <1>1
<1>3. QED
  BY <1>2, FlowUp

\* The first packet and the place of get_pit, when it is lost.
LEMMA DropFacts ==
  ASSUME TypeOK, size = PitUnits, Suffix(todo),
         NEW g \in Nat, NEW m \in Nat, NEW n \in Nat, NEW k \in Nat, NEW d \in Nat, NEW r \in Nat, NEW s \in Nat,
         NEW w \in Nat, NEW v \in Nat, Filling(g, m, n, k, d, r, s, w, v), Drops
  PROVE  m = 0 /\ n > 0 /\ g = 0 /\ (k = 0 => Len(fromDev[1]) = 0)
<1>1. /\ Listening /\ transport # "tcp" /\ fromDev # << >>
      /\ Head(fromDev) = << >> \/ Len(Head(fromDev)) > Room
  BY DEF Drops, Listening, Over
<1>2. /\ Len(fromDev) \in Nat \ {0} /\ Head(fromDev) = fromDev[1] /\ Len(fromDev[1]) \in Nat
      /\ (Head(fromDev) = << >> <=> Len(fromDev[1]) = 0)
  BY <1>1, FirstPacket
<1>3. Stands(r, s)
  BY DEF Filling
<1>4. /\ Room \in Nat /\ Room > 0
      /\ Held = PitUnits \/ Held + Room = UpTo(s)
  BY <1>1, <1>3, RoomLeft
<1>5. ~IsBox(fromDev[1])
  <2>1. Len(Head(fromDev)) = Len(fromDev[1])
    BY <1>2
  <2>2. Len(fromDev[1]) = 0 \/ Len(fromDev[1]) > Room
    BY <2>1, <1>1, <1>2
  <2>3. Room \in Nat /\ Room > 0 /\ Len(fromDev[1]) \in Nat
    BY <1>2, <1>4
  <2>4. SUFFICES ASSUME Len(fromDev[1]) = 1 PROVE FALSE
    BY DEF IsBox
  <2>5. 1 > Room
    BY <2>2, <2>4
  <2>6. QED
    BY <2>3, <2>5
<1>6. Carried(m, n, v) /\ Len(fromDev) = m + n + v /\ v \in {0, 1}
  BY DEF Filling, Carried
<1>7. m = 0
  <2>1. SUFFICES ASSUME 1 \in 1 .. m PROVE FALSE
    OBVIOUS
  <2>2. IsBox(fromDev[1])
    BY <2>1, <1>6 DEF Carried
  <2>3. QED
    BY <2>2, <1>5
<1>8. n > 0
  <2>1. SUFFICES ASSUME n = 0 PROVE FALSE
    OBVIOUS
  <2>2. v = 1 /\ Len(fromDev) = 1
    BY <2>1, <1>2, <1>6, <1>7
  <2>3. IsBox(fromDev[1])
    BY <2>2, <1>6 DEF Carried
  <2>4. QED
    BY <2>3, <1>5
<1>9. g = 0
  <2>1. g > 0 => n = 0
    BY DEF Filling, Counts
  <2>2. QED
    BY <2>1, <1>8
<1>10. ASSUME k = 0 PROVE Len(fromDev[1]) = 0
  <2>1. SUFFICES ASSUME Len(fromDev[1]) > Room PROVE FALSE
    BY <1>1, <1>2
  <2>2. d <= s /\ Flow(fromDev, m, n, Held - k, UpTo(d))
    BY <1>10 DEF Filling, Counts
  <2>3. /\ Held \in Nat /\ UpTo(d) \in Nat /\ UpTo(d) <= UpTo(s) /\ UpTo(d) <= PitUnits /\ UpTo(s) \in Nat /\ PitUnits \in Nat
    BY <2>2, TableTypes, UpToFacts
  <2>4. Held - k = Held
    BY <1>10, <2>3
  <2>5. Flow(fromDev, 0, n, Held, UpTo(d))
    BY <2>2, <2>4, <1>7
  <2>6. Held + Len(fromDev[1]) <= UpTo(d)
    BY <2>3, <2>5, <1>8, FlowFirst, Zenon
  <2>7. Room \in Nat /\ Room > 0 /\ Len(fromDev[1]) \in Nat /\ (Held = PitUnits \/ Held + Room = UpTo(s))
    BY <1>2, <1>4
  <2>8. QED
    <3> DEFINE a == Len(fromDev[1])
    <3>1. /\ a \in Nat /\ a > Room /\ Room \in Nat /\ Room > 0 /\ Held \in Nat
          /\ UpTo(d) \in Nat /\ UpTo(s) \in Nat /\ PitUnits \in Nat
          /\ UpTo(d) <= UpTo(s) /\ UpTo(d) <= PitUnits /\ Held + a <= UpTo(d)
      BY <2>1, <2>3, <2>6, <2>7
    <3> HIDE DEF a
    <3>2. CASE Held = PitUnits
      BY <3>1, <3>2
    <3>3. CASE Held + Room = UpTo(s)
      BY <3>1, <3>3
    <3>4. QED
      BY <3>2, <3>3, <2>7
<1>11. QED
  BY <1>7, <1>8, <1>9, <1>10

\* Over USB an empty packet is lost, or one for which a late answer left no room.
LEMMA PacketLost ==
  ASSUME TypeOK, size = PitUnits, Suffix(todo), transport' = transport,
         NEW g \in Nat, NEW m \in Nat, NEW n \in Nat, NEW k \in Nat, NEW d \in Nat, NEW r \in Nat, NEW s \in Nat,
         NEW w \in Nat, NEW v \in Nat, Filling(g, m, n, k, d, r, s, w, v), m = 0, n > 0, g = 0,
         transport # "tcp", fromDev # << >>, fromDev' = Tail(fromDev), k = 0 => Len(fromDev[1]) = 0,
         Stands(r, s)', Shifted(k)', Held' = Held, pit' = pit, toDev' = toDev, w + v > 0 => Len(todo') = 1
  PROVE  Filling(g, m, n - 1, k, d, r, s, w, v)'
<1>1. /\ Stands(r, s) /\ Shifted(k) /\ Queued(g, d, s, w) /\ Carried(m, n, v)
      /\ Counts(g, m, n, k, d, s, w, v) /\ Packed(m, n, k)
  BY DEF Filling
<1>2. Stands(r, s)' /\ Shifted(k)' /\ Held' = Held
  OBVIOUS
<1>3. Queued(g, d, s, w)'
  BY <1>1, StillQueued
<1>4. n - 1 \in Nat
  OBVIOUS
<1>5. Carried(m, n - 1, v)'
  <2>1. (n - 1) + 1 = n
    OBVIOUS
  <2>2. QED
    BY <2>1, <1>1, <1>4, CarriedTail
<1>6. Counts(g, m, n - 1, k, d, s, w, v)'
  BY <1>1, <1>2 DEF Counts
<1>7. /\ Len(fromDev) = n + v /\ v \in Nat
      /\ \A i \in 1 .. Len(fromDev) - 1 : fromDev'[i] = fromDev[i + 1]
  BY <1>1, FirstPacket DEF Carried
<1>8. Packed(m, n - 1, k)'
  <2>1. /\ pit # << >> => k = 0
        /\ k > 0 => Held = k
        /\ pit = << >> => \A i \in m + 1 .. m + n : Len(fromDev[i]) \in {0, UpTo(1)}
    BY <1>1 DEF Packed
  <2>2. ASSUME pit = << >>, NEW i \in m + 1 .. m + (n - 1) PROVE Len(fromDev'[i]) \in {0, UpTo(1)}
    <3>1. i + 1 \in m + 1 .. m + n /\ i \in 1 .. Len(fromDev) - 1
      BY <1>7
    <3>2. Len(fromDev[i + 1]) \in {0, UpTo(1)} /\ fromDev'[i] = fromDev[i + 1]
      BY <3>1, <2>1, <2>2, <1>7
    <3>3. QED
      BY <3>2
  <2>3. QED
    BY <2>1, <2>2, <1>2 DEF Packed, UpTo
<1>9. ASSUME k = 0 PROVE Flow(fromDev', m, n - 1, Held' - k, UpTo(d))
  <2>1. Flow(fromDev, m, n, Held - k, UpTo(d))
    BY <1>9 DEF Filling
  <2>2. Held \in Nat /\ UpTo(d) \in Nat
    BY TableTypes, UpToFacts
  <2>3. Held - k = Held
    BY <1>9, <2>2
  <2>4. Flow(fromDev, 0, n, Held, UpTo(d))
    BY <2>1, <2>3
  <2>5. \A i \in 1 .. n - 1 : fromDev'[i] = fromDev[i + 1]
    BY <1>7
  <2>6. Flow(fromDev', 0, n - 1, Held + Len(fromDev[1]), UpTo(d))
    BY <2>2, <2>4, <2>5, FlowTail
  <2>7. Held + Len(fromDev[1]) = Held
    BY <1>9, <2>2
  <2>8. Flow(fromDev', 0, n - 1, Held, UpTo(d))
    BY <2>6, <2>7
  <2>9. Held' - k = Held
    BY <1>2, <2>3
  <2>10. Flow(fromDev', m, n - 1, Held, UpTo(d))
    BY <2>8
  <2>11. QED
    BY <2>9, <2>10
<1>10. k = 0 => Flow(fromDev, m, n - 1, Held - k, UpTo(d))'
  BY <1>9 DEF Flow, UpTo
<1>11. (transport # "tcp")'
  OBVIOUS
<1>12. /\ Stands(r, s)' /\ Shifted(k)' /\ Queued(g, d, s, w)' /\ Carried(m, n - 1, v)'
       /\ Counts(g, m, n - 1, k, d, s, w, v)' /\ Packed(m, n - 1, k)'
  BY <1>2, <1>3, <1>5, <1>6, <1>8
<1>13. QED
  BY <1>10, <1>11, <1>12, Zenon DEF Filling

\* What comes from the phone stays when nothing is received.
LEMMA SameCarried ==
  ASSUME fromDev' = fromDev, pit' = pit, Held' = Held, transport' = transport,
         NEW m \in Nat, NEW n \in Nat, NEW k \in Nat, NEW d \in Nat, NEW v \in Nat,
         Carried(m, n, v), Packed(m, n, k), transport = "tcp" \/ k = 0 => Flow(fromDev, m, n, Held - k, UpTo(d))
  PROVE  /\ Carried(m, n, v)' /\ Packed(m, n, k)'
         /\ (transport = "tcp" \/ k = 0 => Flow(fromDev, m, n, Held - k, UpTo(d)))'
<1>1. Carried(m, n, v)'
  BY DEF Carried, IsBox
<1>2. Packed(m, n, k)'
  BY DEF Packed, UpTo
<1>3. (transport = "tcp" \/ k = 0 => Flow(fromDev, m, n, Held - k, UpTo(d)))'
  BY DEF Flow, UpTo
<1>4. QED
  BY <1>1, <1>2, <1>3

\* A step that changes nothing of the table.
LEMMA NothingTaken ==
  ASSUME todo' = todo, pit' = pit, got' = got, size' = size, toDev' = toDev, fromDev' = fromDev, transport' = transport,
         NEW g \in Nat, NEW m \in Nat, NEW n \in Nat, NEW k \in Nat, NEW d \in Nat, NEW r \in Nat, NEW s \in Nat,
         NEW w \in Nat, NEW v \in Nat, Filling(g, m, n, k, d, r, s, w, v)
  PROVE  Filling(g, m, n, k, d, r, s, w, v)'
<1>1. /\ Stands(r, s) /\ Shifted(k) /\ Queued(g, d, s, w) /\ Carried(m, n, v)
      /\ Counts(g, m, n, k, d, s, w, v) /\ Packed(m, n, k)
      /\ transport = "tcp" \/ k = 0 => Flow(fromDev, m, n, Held - k, UpTo(d))
  BY DEF Filling
<1>2. Stands(r, s)' /\ Shifted(k)' /\ Held' = Held /\ Queued(g, d, s, w)'
  BY <1>1, SamePlace, SameBytes, StillQueued
<1>3. /\ Carried(m, n, v)' /\ Packed(m, n, k)'
      /\ (transport = "tcp" \/ k = 0 => Flow(fromDev, m, n, Held - k, UpTo(d)))'
  BY <1>1, <1>2, SameCarried
<1>4. Counts(g, m, n, k, d, s, w, v)'
  BY <1>1, <1>2 DEF Counts
<1>5. QED
  BY <1>2, <1>3, <1>4 DEF Filling

\* get_pit begins.
LEMMA PitBegun ==
  ASSUME TypeOK, size = PitUnits, todo = << >>, todo' = GetPit,
         pit' = pit, got' = got, size' = size, toDev' = toDev, fromDev' = fromDev, transport' = transport,
         NEW g \in Nat, NEW m \in Nat, NEW n \in Nat, NEW k \in Nat, NEW d \in Nat, NEW r \in Nat, NEW s \in Nat,
         NEW w \in Nat, NEW v \in Nat, Filling(g, m, n, k, d, r, s, w, v)
  PROVE  Filling(g, m, n, k, d, r, s, w, v)'
<1>1. /\ Stands(r, s) /\ Shifted(k) /\ Queued(g, d, s, w) /\ Carried(m, n, v)
      /\ Counts(g, m, n, k, d, s, w, v) /\ Packed(m, n, k)
      /\ transport = "tcp" \/ k = 0 => Flow(fromDev, m, n, Held - k, UpTo(d))
  BY DEF Filling
<1>2. Len(todo) = 0
  BY SingleFacts
<1>3. Len(todo') = 2 * Parts + 3 /\ Parts \in Nat \ {0} /\ Parts' = Parts
  BY GetPitSteps DEF Parts
<1>4. r = 0 /\ s = 0 /\ Held <= UpTo(s) /\ Len(pit) = UpTo(r)
  BY <1>1, <1>2 DEF Stands
<1>5. Shifted(k)' /\ Held' = Held /\ Queued(g, d, s, w)'
  BY <1>1, SameBytes, StillQueued
<1>6. Stands(r, s)'
  <2>1. Len(todo') > 2 /\ Len(todo') # 1 /\ r + s + Len(todo') = 2 * Parts' + 3 /\ s \in {r, r + 1} /\ s <= Parts'
    BY <1>3, <1>4
  <2>2. Held' <= UpTo(s) /\ Len(pit') = UpTo(r)
    BY <1>4, <1>5
  <2>3. QED
    BY <2>1, <2>2 DEF Stands, UpTo
<1>7. /\ Carried(m, n, v)' /\ Packed(m, n, k)'
      /\ (transport = "tcp" \/ k = 0 => Flow(fromDev, m, n, Held - k, UpTo(d)))'
  BY <1>1, <1>5, SameCarried
<1>8. Counts(g, m, n, k, d, s, w, v)'
  BY <1>1, <1>2, <1>5 DEF Counts
<1>9. QED
  BY <1>5, <1>6, <1>7, <1>8 DEF Filling

\* A step of get_pit that is not its last and receives nothing finds nothing received.
LEMMA PartGone ==
  ASSUME TypeOK, size = PitUnits, Suffix(todo), Len(todo) # 1, todo # << >>,
         NEW g \in Nat, NEW m \in Nat, NEW n \in Nat, NEW k \in Nat, NEW d \in Nat, NEW r \in Nat, NEW s \in Nat,
         NEW w \in Nat, NEW v \in Nat, Filling(g, m, n, k, d, r, s, w, v), s = r
  PROVE  got = << >> /\ w = 0 /\ v = 0 /\ Held = UpTo(r)
<1>1. Len(pit) = UpTo(r) /\ Held <= UpTo(s)
  BY DEF Filling, Stands
<1>2. /\ Held = Len(pit) + Len(got) /\ Len(got) \in Nat /\ Len(pit) \in Nat /\ got \in Seq(Unit)
  BY TableTypes
<1>3. Len(got) = 0
  BY <1>1, <1>2
<1>4. got = << >>
  BY <1>2, <1>3, SeqFacts
<1>5. ~(w + v > 0)
  BY DEF Filling, Counts
<1>6. QED
  BY <1>1, <1>2, <1>3, <1>4, <1>5

\* get_pit asks for a part.
LEMMA PartAsked ==
  ASSUME TypeOK, size = PitUnits, Suffix(todo), transport' = transport, Asks, Len(todo) > 3,
         NEW g \in Nat, NEW m \in Nat, NEW n \in Nat, NEW k \in Nat, NEW d \in Nat, NEW r \in Nat, NEW s \in Nat,
         NEW w \in Nat, NEW v \in Nat, Filling(g, m, n, k, d, r, s, w, v)
  PROVE  Filling(g, m, n, k, d, r, s + 1, w, v)'
<1>1. /\ Stands(r, s) /\ Shifted(k) /\ Queued(g, d, s, w) /\ Carried(m, n, v)
      /\ Counts(g, m, n, k, d, s, w, v) /\ Packed(m, n, k)
      /\ transport = "tcp" \/ k = 0 => Flow(fromDev, m, n, Held - k, UpTo(d))
  BY DEF Filling
<1>2. /\ Now.do = "send" /\ todo # << >> /\ toDev' = Append(toDev, Now) /\ todo' = Tail(todo) /\ got' = << >>
      /\ size' = size /\ pit' = pit /\ fromDev' = fromDev
  BY DEF Asks, Goes, Busy
<1>3. /\ Len(todo) \in Nat /\ Len(todo') = Len(todo) - 1 /\ (s = r \/ s = r + 1)
      /\ s = r => r < Parts /\ Now = PitPart(r)
      /\ s = r + 1 => Now = PartBytes(r)
  BY <1>1, <1>2, NextStep
<1>4. s = r /\ r < Parts /\ Now = PitPart(r) /\ r + s + Len(todo) = 2 * Parts + 3
  <2>1. PartBytes(r).do = "recv"
    BY DEF PartBytes, Recv
  <2>2. s = r
    BY <1>2, <1>3, <2>1
  <2>3. r + s + Len(todo) = 2 * Parts + 3
    <3>1. todo = << >> \/ Len(todo) \in {1, 2} \/ r + s + Len(todo) = 2 * Parts + 3
      BY <1>1 DEF Stands
    <3>2. SUFFICES ASSUME Len(todo) \in {1, 2} PROVE FALSE
      BY <3>1, <1>2
    <3>3. 1 > 3 \/ 2 > 3
      BY <3>2
    <3>4. QED
      BY <3>3
  <2>4. r < Parts /\ Now = PitPart(r)
    BY <1>3, <2>2, Zenon
  <2>5. QED
    BY <2>2, <2>3, <2>4, Zenon
<1>5. got = << >> /\ w = 0 /\ v = 0 /\ Held = UpTo(r) /\ Len(pit) = UpTo(r)
  <2>1. Len(todo) # 1
    <3>1. SUFFICES ASSUME Len(todo) = 1 PROVE FALSE
      OBVIOUS
    <3>2. 1 > 3
      BY <3>1
    <3>3. QED
      BY <3>2
  <2>2. got = << >> /\ w = 0 /\ v = 0 /\ Held = UpTo(r)
    BY <2>1, <1>2, <1>4, PartGone
  <2>3. QED
    BY <2>2, <1>1 DEF Stands
<1>6. Parts' = Parts /\ Parts \in Nat
  BY <1>2, UpToFacts DEF Parts
<1>7. Shifted(k)' /\ Held' = Held
  BY <1>1, <1>2, <1>5, SameBytes
<1>8. Stands(r, s + 1)'
  <2>1. /\ Len(todo) \in Nat /\ Len(todo') = Len(todo) - 1 /\ s = r /\ r < Parts
        /\ r + s + Len(todo) = 2 * Parts + 3 /\ Parts' = Parts /\ Parts \in Nat
    BY <1>3, <1>4, <1>6, Zenon
  <2>2. /\ Len(todo') > 2 /\ Len(todo') # 1 /\ r + (s + 1) + Len(todo') = 2 * Parts' + 3
        /\ s + 1 \in {r, r + 1} /\ s + 1 <= Parts'
    <3> DEFINE a == Len(todo)
               l == Len(todo')
               p == Parts'
    <3>1. a \in Nat /\ a > 3 /\ l = a - 1 /\ r + s + a = 2 * p + 3 /\ s = r /\ r < p /\ p \in Nat
      BY <2>1
    <3> HIDE DEF a, l, p
    <3>2. l > 2 /\ l # 1 /\ r + (s + 1) + l = 2 * p + 3 /\ s + 1 \in {r, r + 1} /\ s + 1 <= p
      BY <3>1
    <3>3. QED
      BY <3>2 DEF l, p
  <2>3. Held' <= UpTo(s + 1) /\ Len(pit') = UpTo(r)
    <3>1. UpTo(r) <= UpTo(s + 1)
      BY <1>4, UpToFacts
    <3>2. QED
      BY <3>1, <1>2, <1>5, <1>7
  <2>4. QED
    BY <2>2, <2>3 DEF Stands, UpTo
<1>9. Queued(g, d, s + 1, w)'
  <2>1. /\ Len(toDev) = g + (s - d) + w /\ d <= s /\ s \in Nat
        /\ \A j \in 1 .. g : toDev[j] = GetSize
        /\ \A j \in 1 .. s - d : toDev[g + j] = PitPart(d + j - 1)
    BY <1>1 DEF Queued, Counts
  <2>2. PitPart(r) \in Transfers /\ toDev \in Seq(Transfers)
    BY TableTypes DEF Transfers
  <2>3. /\ Len(toDev') = Len(toDev) + 1 /\ toDev'[Len(toDev) + 1] = PitPart(s)
        /\ \A i \in 1 .. Len(toDev) : toDev'[i] = toDev[i]
    BY <2>2, <1>2, <1>4, AppendFacts
  <2>4. Len(toDev) = g + (s - d)
    BY <2>1, <1>5
  <2>5. Len(toDev') = g + ((s + 1) - d) + w
    <3>1. Len(toDev') = Len(toDev) + 1 /\ w = 0
      BY <2>3, <1>5
    <3>2. QED
      BY <3>1, <2>4
  <2>6. ASSUME NEW j \in 1 .. g PROVE toDev'[j] = GetSize
    <3>1. j \in 1 .. Len(toDev)
      BY <2>1, <2>4
    <3>2. QED
      BY <3>1, <2>1, <2>3
  <2>7. ASSUME NEW j \in 1 .. (s + 1) - d PROVE toDev'[g + j] = PitPart(d + j - 1)
    <3>1. CASE j \in 1 .. s - d
      <4>1. g + j \in 1 .. Len(toDev)
        BY <3>1, <2>1, <2>4
      <4>2. QED
        BY <3>1, <4>1, <2>1, <2>3
    <3>2. CASE j = (s + 1) - d
      <4>1. g + j = Len(toDev) + 1 /\ d + j - 1 = s
        BY <3>2, <2>1, <2>4
      <4>2. QED
        BY <4>1, <2>3
    <3>3. QED
      BY <3>1, <3>2, <2>1
  <2>8. QED
    BY <2>5, <2>6, <2>7, <1>5 DEF Queued
<1>10. /\ Carried(m, n, v)' /\ Packed(m, n, k)'
       /\ (transport = "tcp" \/ k = 0 => Flow(fromDev, m, n, Held - k, UpTo(d)))'
  BY <1>1, <1>2, <1>7, SameCarried
<1>11. Counts(g, m, n, k, d, s + 1, w, v)'
  BY <1>1, <1>5, <1>7 DEF Counts
<1>12. s + 1 \in Nat
  OBVIOUS
<1>13. QED
  BY <1>7, <1>8, <1>9, <1>10, <1>11 DEF Filling

\* get_pit sends its last request.
LEMMA LastAsked ==
  ASSUME TypeOK, size = PitUnits, Suffix(todo), transport' = transport, Asks, Len(todo) = 2,
         NEW g \in Nat, NEW m \in Nat, NEW n \in Nat, NEW k \in Nat, NEW d \in Nat, NEW r \in Nat, NEW s \in Nat,
         NEW w \in Nat, NEW v \in Nat, Filling(g, m, n, k, d, r, s, w, v)
  PROVE  Filling(g, m, n, k, d, r, s, 1, v)'
<1>1. /\ Stands(r, s) /\ Shifted(k) /\ Queued(g, d, s, w) /\ Carried(m, n, v)
      /\ Counts(g, m, n, k, d, s, w, v) /\ Packed(m, n, k)
      /\ transport = "tcp" \/ k = 0 => Flow(fromDev, m, n, Held - k, UpTo(d))
  BY DEF Filling
<1>2. /\ todo # << >> /\ toDev' = Append(toDev, Now) /\ todo' = Tail(todo) /\ got' = << >>
      /\ size' = size /\ pit' = pit /\ fromDev' = fromDev
  BY DEF Asks, Goes, Busy
<1>3. Now = Complete /\ Complete \in Transfers
  BY <1>2, Place, GetSizeKinds DEF Transfers
<1>4. r = Parts /\ s = Parts /\ Len(todo') = 1
  BY <1>1, <1>2, NextStep
<1>5. got = << >> /\ w = 0 /\ v = 0 /\ Held = UpTo(r) /\ Len(pit) = UpTo(r)
  <2>1. Len(todo) # 1 /\ s = r
    <3>1. SUFFICES ASSUME Len(todo) = 1 PROVE FALSE
      BY <1>4
    <3>2. 1 = 2
      BY <3>1
    <3>3. QED
      BY <3>2
  <2>2. got = << >> /\ w = 0 /\ v = 0 /\ Held = UpTo(r)
    BY <2>1, <1>2, PartGone
  <2>3. QED
    BY <2>2, <1>1 DEF Stands
<1>6. Parts' = Parts /\ Len(got') = 0
  BY <1>2, SingleFacts DEF Parts
<1>7. Shifted(k)' /\ Held' = Held
  BY <1>1, <1>2, <1>5, SameBytes
<1>8. Stands(r, s)'
  BY <1>2, <1>4, <1>5, <1>6 DEF Stands, UpTo
<1>9. Queued(g, d, s, 1)'
  <2>1. /\ Len(toDev) = g + (s - d) + w /\ d <= s
        /\ \A j \in 1 .. g : toDev[j] = GetSize
        /\ \A j \in 1 .. s - d : toDev[g + j] = PitPart(d + j - 1)
    BY <1>1 DEF Queued, Counts
  <2>2. toDev \in Seq(Transfers)
    BY TableTypes
  <2>3. /\ Len(toDev') = Len(toDev) + 1 /\ toDev'[Len(toDev) + 1] = Complete
        /\ \A i \in 1 .. Len(toDev) : toDev'[i] = toDev[i]
    BY <2>2, <1>2, <1>3, AppendFacts
  <2>4. Len(toDev) = g + (s - d)
    BY <2>1, <1>5
  <2>5. ASSUME NEW j \in 1 .. g PROVE toDev'[j] = GetSize
    <3>1. j \in 1 .. Len(toDev)
      BY <2>1, <2>4
    <3>2. QED
      BY <3>1, <2>1, <2>3
  <2>6. ASSUME NEW j \in 1 .. s - d PROVE toDev'[g + j] = PitPart(d + j - 1)
    <3>1. g + j \in 1 .. Len(toDev)
      BY <2>1, <2>4
    <3>2. QED
      BY <3>1, <2>1, <2>3
  <2>7. Len(toDev') = g + (s - d) + 1 /\ toDev'[Len(toDev')] = Complete
    BY <2>3, <2>4
  <2>8. QED
    BY <2>5, <2>6, <2>7 DEF Queued
<1>10. /\ Carried(m, n, v)' /\ Packed(m, n, k)'
       /\ (transport = "tcp" \/ k = 0 => Flow(fromDev, m, n, Held - k, UpTo(d)))'
  BY <1>1, <1>2, <1>7, SameCarried
<1>11. Counts(g, m, n, k, d, s, 1, v)'
  BY <1>1, <1>4, <1>5, <1>7 DEF Counts
<1>12. QED
  BY <1>7, <1>8, <1>9, <1>10, <1>11 DEF Filling

\* get_pit reads the empty packet that may follow the last part.
LEMMA PitSkipped ==
  ASSUME TypeOK, size = PitUnits, Suffix(todo), transport' = transport, Skips,
         NEW g \in Nat, NEW m \in Nat, NEW n \in Nat, NEW k \in Nat, NEW d \in Nat, NEW r \in Nat, NEW s \in Nat,
         NEW w \in Nat, NEW v \in Nat, Filling(g, m, n, k, d, r, s, w, v)
  PROVE  Filling(g, m, n, k, d, r, s, w, v)' \/ (n > 0 /\ Filling(g, m, n - 1, k, d, r, s, w, v)')
<1>1. /\ Stands(r, s) /\ Shifted(k) /\ Queued(g, d, s, w) /\ Carried(m, n, v)
      /\ Counts(g, m, n, k, d, s, w, v) /\ Packed(m, n, k)
      /\ transport = "tcp" \/ k = 0 => Flow(fromDev, m, n, Held - k, UpTo(d))
  BY DEF Filling
<1>2. /\ todo # << >> /\ toDev' = toDev /\ todo' = Tail(todo) /\ got' = << >>
      /\ size' = size /\ pit' = pit /\ Now.do = "zlp"
      /\ fromDev' = fromDev \/ (transport # "tcp" /\ fromDev # << >> /\ fromDev' = Tail(fromDev))
  BY DEF Skips, Goes, Busy
<1>3. Len(todo) = 3
  BY <1>2, PlaceKinds
<1>4. r = Parts /\ s = Parts /\ Len(todo') = 2
  <2>1. Len(todo') = Len(todo) - 1 /\ Len(todo) <= 3
    BY <1>1, <1>2, <1>3, NextStep
  <2>2. r = Parts /\ s = Parts
    BY <2>1, <1>1, <1>2, NextStep
  <2>3. Len(todo') = 2
    BY <2>1, <1>3
  <2>4. QED
    BY <2>2, <2>3
<1>5. got = << >> /\ w = 0 /\ v = 0 /\ Held = UpTo(r) /\ Len(pit) = UpTo(r)
  <2>1. Len(todo) # 1 /\ s = r
    <3>1. SUFFICES ASSUME Len(todo) = 1 PROVE FALSE
      BY <1>4
    <3>2. 1 = 3
      BY <3>1, <1>3
    <3>3. QED
      BY <3>2
  <2>2. got = << >> /\ w = 0 /\ v = 0 /\ Held = UpTo(r)
    BY <2>1, <1>2, PartGone
  <2>3. QED
    BY <2>2, <1>1 DEF Stands
<1>6. Parts' = Parts /\ Len(got') = 0 /\ Parts \in Nat
  BY <1>2, SingleFacts, UpToFacts DEF Parts
<1>7. Shifted(k)' /\ Held' = Held
  BY <1>1, <1>2, <1>5, SameBytes
<1>8. Stands(r, s)'
  <2>1. Len(todo') \in {1, 2} /\ Len(todo') # 1 /\ r = Parts' /\ s = Parts'
    <3>1. SUFFICES ASSUME Len(todo') = 1 PROVE FALSE
      BY <1>4, <1>6
    <3>2. 1 = 2
      BY <3>1, <1>4
    <3>3. QED
      BY <3>2
  <2>2. Len(pit') = UpTo(r) /\ Held' <= UpTo(s)
    <3>1. UpTo(r) \in Nat
      BY UpToFacts
    <3>2. QED
      BY <3>1, <1>2, <1>4, <1>5, <1>7
  <2>3. QED
    BY <2>1, <2>2 DEF Stands, UpTo
<1>9. Queued(g, d, s, w)'
  BY <1>1, <1>2, StillQueued
<1>10. CASE fromDev' = fromDev
  <2>1. /\ Carried(m, n, v)' /\ Packed(m, n, k)'
        /\ (transport = "tcp" \/ k = 0 => Flow(fromDev, m, n, Held - k, UpTo(d)))'
    BY <1>1, <1>2, <1>7, <1>10, SameCarried
  <2>2. Counts(g, m, n, k, d, s, w, v)'
    BY <1>1, <1>5, <1>7 DEF Counts
  <2>3. QED
    BY <2>1, <2>2, <1>7, <1>8, <1>9 DEF Filling
<1>11. CASE transport # "tcp" /\ fromDev # << >> /\ fromDev' = Tail(fromDev)
  <2>1. /\ g + m + k < PitAttempts /\ (g + m > 0 => Held = k) /\ (k > 0 => Held = k)
        /\ PitAttempts \in Nat /\ PitAttempts <= PitUnits /\ PitUnits \in Nat /\ Held = PitUnits
    <3>1. g + m + k < PitAttempts /\ (g + m > 0 => Held = k) /\ (k > 0 => Held = k)
      BY <1>1, <1>11 DEF Counts, Packed
    <3>2. Held = PitUnits
      BY <1>4, <1>5, UpToFacts
    <3>3. QED
      BY <3>1, <3>2, TableTypes
  <2>2. g = 0 /\ m = 0 /\ k = 0
    BY <2>1
  <2>3. n > 0
    <3>1. Len(fromDev) \in Nat \ {0}
      BY <1>11, FirstPacket
    <3>2. Len(fromDev) = m + n + v
      BY <1>1 DEF Carried
    <3>3. QED
      BY <3>1, <3>2, <2>2, <1>5
  <2>4. Len(fromDev[1]) = 0
    <3>1. Flow(fromDev, m, n, Held - k, UpTo(d))
      BY <1>1, <2>2
    <3>2. Held - k = PitUnits /\ UpTo(d) \in Nat /\ UpTo(d) <= PitUnits
      BY <2>1, <2>2, UpToFacts
    <3>3. Flow(fromDev, 0, n, PitUnits, UpTo(d))
      BY <3>1, <3>2, <2>2
    <3>4. Len(fromDev[1]) \in Nat /\ PitUnits + Len(fromDev[1]) <= UpTo(d)
      BY <3>2, <3>3, <2>1, <2>3, FlowFirst, Zenon
    <3>5. QED
      BY <3>2, <3>4, <2>1
  <2>5. w + v > 0 => Len(todo') = 1
    BY <1>5
  <2>6. Filling(g, m, n - 1, k, d, r, s, w, v)'
    BY <2>2, <2>3, <2>4, <2>5, <1>2, <1>7, <1>8, <1>11, PacketLost
  <2>7. QED
    BY <2>3, <2>6
<1>12. QED
  BY <1>2, <1>10, <1>11

\* get_pit keeps the bytes of a part.
LEMMA PartKept ==
  ASSUME TypeOK, size = PitUnits, Suffix(todo), transport' = transport, Accepted, Len(todo) > 3, size' = size,
         NEW g \in Nat, NEW m \in Nat, NEW n \in Nat, NEW k \in Nat, NEW d \in Nat, NEW r \in Nat, NEW s \in Nat,
         NEW w \in Nat, NEW v \in Nat, Filling(g, m, n, k, d, r, s, w, v)
  PROVE  Filling(g, m, n, k, d, s, s, w, v)'
<1>1. /\ Stands(r, s) /\ Shifted(k) /\ Queued(g, d, s, w) /\ Carried(m, n, v)
      /\ Counts(g, m, n, k, d, s, w, v) /\ Packed(m, n, k)
      /\ transport = "tcp" \/ k = 0 => Flow(fromDev, m, n, Held - k, UpTo(d))
  BY DEF Filling
<1>2. /\ todo # << >> /\ toDev' = toDev /\ todo' = Tail(todo) /\ got' = << >> /\ fromDev' = fromDev
      /\ Now.do = "recv" /\ Len(got) >= Needed /\ pit' = IF Now.type = "bytes" THEN pit \o got ELSE pit
  BY DEF Accepted, Goes, Busy
<1>3. /\ Len(todo) \in Nat /\ Len(todo') = Len(todo) - 1 /\ (s = r \/ s = r + 1)
      /\ s = r => r < Parts /\ Now = PitPart(r)
      /\ s = r + 1 => r < Parts /\ Now = PartBytes(r)
  BY <1>1, <1>2, NextStep
<1>4. s = r + 1 /\ r < Parts /\ Now = PartBytes(r)
  <2>1. s # r
    <3>1. SUFFICES ASSUME s = r PROVE FALSE
      OBVIOUS
    <3>2. Now.do = "send"
      BY <3>1, <1>3, PartKinds
    <3>3. QED
      BY <3>2, <1>2
  <2>2. s = r + 1
    BY <2>1, <1>3
  <2>3. QED
    BY <2>2, <1>3, Zenon
<1>5. /\ got \in Seq(Unit) /\ pit \in Seq(Unit) /\ Len(got) \in Nat /\ Len(pit) \in Nat /\ Held = Len(pit) + Len(got)
      /\ PitAttempts \in Nat /\ PitUnits \in Nat
  BY TableTypes
<1>6. /\ Needed = PartLen(r) /\ Now.type = "bytes"
  BY <1>4 DEF Needed, PartBytes, Recv
<1>7. r + s + Len(todo) = 2 * Parts + 3 /\ Len(pit) = UpTo(r) /\ Held <= UpTo(s) /\ w = 0 /\ v = 0
  <2>1. Len(todo) # 1
    <3>1. SUFFICES ASSUME Len(todo) = 1 PROVE FALSE
      OBVIOUS
    <3>2. 1 > 3
      BY <3>1
    <3>3. QED
      BY <3>2
  <2>2. todo = << >> \/ Len(todo) \in {1, 2} \/ r + s + Len(todo) = 2 * Parts + 3
    BY <1>1 DEF Stands
  <2>3. r + s + Len(todo) = 2 * Parts + 3
    <3>1. SUFFICES ASSUME Len(todo) \in {1, 2} PROVE FALSE
      BY <2>2, <1>2
    <3>2. 1 > 3 \/ 2 > 3
      BY <3>1
    <3>3. QED
      BY <3>2
  <2>4. Len(pit) = UpTo(r) /\ Held <= UpTo(s)
    BY <2>1, <1>1 DEF Stands
  <2>5. ~(w + v > 0)
    BY <2>1, <1>1 DEF Counts
  <2>6. QED
    BY <2>3, <2>4, <2>5
<1>8. Held = UpTo(s) /\ UpTo(s) \in Nat /\ UpTo(s) >= PitAttempts
  <2>1. UpTo(r) \in Nat /\ UpTo(r + 1) = UpTo(r) + PartLen(r) /\ PartLen(r) \in Nat \ {0}
    BY <1>4, UpToFacts
  <2>2. UpTo(1) >= PitAttempts /\ UpTo(1) <= UpTo(s) /\ UpTo(1) \in Nat /\ UpTo(s) \in Nat
    <3>1. 1 <= s /\ 1 \in Nat
      BY <1>4
    <3>2. QED
      BY <3>1, UpToFacts
  <2>3. Len(got) >= PartLen(r)
    BY <1>2, <1>6
  <2>4. Held = UpTo(s)
    <3>1. UpTo(s) = UpTo(r) + PartLen(r)
      BY <1>4, <2>1
    <3>2. Len(pit) = UpTo(r) /\ Held <= UpTo(s)
      BY <1>7
    <3>3. Held = UpTo(r) + Len(got) /\ Len(got) \in Nat
      BY <3>2, <1>5
    <3>4. PartLen(r) \in Nat /\ UpTo(s) \in Nat /\ UpTo(r) \in Nat
      BY <2>1, <2>2
    <3>5. UpTo(r) + Len(got) >= UpTo(r) + PartLen(r)
      BY <3>3, <3>4, <2>3
    <3>6. Held <= UpTo(s) /\ Held >= UpTo(s)
      BY <3>1, <3>2, <3>3, <3>5
    <3>7. Held \in Nat
      BY <3>3, <3>4
    <3>8. QED
      BY <3>4, <3>6, <3>7
  <2>5. QED
    BY <2>2, <2>4, <1>5
<1>9. /\ pit' = pit \o got /\ pit' \in Seq(Unit) /\ Len(pit') = Len(pit) + Len(got)
      /\ \A i \in 1 .. Len(pit) : pit'[i] = pit[i]
      /\ \A i \in 1 .. Len(got) : pit'[Len(pit) + i] = got[i]
  <2>1. pit' = pit \o got
    BY <1>2, <1>6
  <2>2. QED
    BY <2>1, <1>5, Concat
<1>10. Len(got') = 0 /\ Held' = Held /\ Len(pit') = UpTo(s)
  <2>1. Len(got') = 0
    BY <1>2, SingleFacts
  <2>2. Held' = Len(pit') + Len(got')
    BY DEF Held
  <2>3. QED
    BY <2>1, <2>2, <1>5, <1>8, <1>9
<1>11. Shifted(k)'
  <2>1. /\ k <= Held
        /\ \A i \in 1 .. Len(pit) : Fills(k, i, pit[i])
        /\ \A i \in 1 .. Len(got) : Fills(k, Len(pit) + i, got[i])
    BY <1>1 DEF Shifted
  <2>2. ASSUME NEW i \in 1 .. Len(pit') PROVE Fills(k, i, pit'[i])
    <3>1. CASE i \in 1 .. Len(pit)
      <4>1. pit'[i] = pit[i] /\ Fills(k, i, pit[i])
        BY <3>1, <2>1, <1>9
      <4>2. QED
        BY <4>1
    <3>2. CASE i \notin 1 .. Len(pit)
      <4>1. i - Len(pit) \in 1 .. Len(got) /\ Len(pit) + (i - Len(pit)) = i
        <5>1. Len(pit) \in Nat /\ Len(got) \in Nat /\ Len(pit') = Len(pit) + Len(got)
          BY <1>5, <1>9
        <5>2. QED
          BY <5>1, <3>2
      <4>2. pit'[i] = got[i - Len(pit)] /\ Fills(k, i, got[i - Len(pit)])
        <5>1. /\ pit'[Len(pit) + (i - Len(pit))] = got[i - Len(pit)]
              /\ Fills(k, Len(pit) + (i - Len(pit)), got[i - Len(pit)])
          BY <4>1, <2>1, <1>9
        <5>2. QED
          BY <5>1, <4>1
      <4>3. QED
        BY <4>2
    <3>3. QED
      BY <3>1, <3>2
  <2>3. \A i \in 1 .. Len(got') : FALSE
    BY <1>10
  <2>4. QED
    BY <2>1, <2>2, <2>3, <1>10 DEF Shifted, Fills
<1>12. Stands(s, s)'
  <2>1. Parts' = Parts /\ Parts \in Nat
    BY UpToFacts DEF Parts
  <2> DEFINE a == Len(todo)
             l == Len(todo')
             p == Parts'
  <2>2. a \in Nat /\ a > 3 /\ l = a - 1 /\ r + s + a = 2 * p + 3 /\ s = r + 1 /\ r < p /\ p \in Nat
    BY <2>1, <1>3, <1>4, <1>7
  <2> HIDE DEF a, l, p
  <2>3. l > 2 /\ l # 1 /\ s + s + l = 2 * p + 3 /\ s \in {s, s + 1} /\ s <= p
    BY <2>2
  <2>4. Held' <= UpTo(s) /\ Len(pit') = UpTo(s)
    BY <1>8, <1>10
  <2>5. QED
    BY <2>3, <2>4 DEF Stands, UpTo, l, p
<1>13. Queued(g, d, s, w)'
  BY <1>1, <1>2, StillQueued
<1>14. Carried(m, n, v)'
  BY <1>1, <1>2 DEF Carried, IsBox
<1>15. Packed(m, n, k)'
  <2>1. SUFFICES ASSUME transport # "tcp"
        PROVE  k = 0 /\ pit' # << >>
    BY <1>10 DEF Packed
  <2>2. k > 0 => Held = k
    BY <2>1, <1>1 DEF Packed
  <2>3. k < PitAttempts
    BY <1>1, <1>5 DEF Counts
  <2>4. k = 0
    <3>1. k \in Nat /\ PitAttempts \in Nat /\ Held \in Nat
      BY <1>8, TableTypes, OdinAssumption
    <3>2. SUFFICES ASSUME k > 0 PROVE FALSE
      BY <3>1
    <3>3. Held = k
      BY <3>2, <2>2
    <3>4. QED
      BY <3>1, <3>3, <2>3, <1>5, <1>8
  <2>5. pit' # << >>
    <3>1. SUFFICES ASSUME pit' = << >> PROVE FALSE
      OBVIOUS
    <3>2. UpTo(s) = 0
      BY <3>1, <1>10, SingleFacts
    <3>3. QED
      BY <3>2, <2>3, <1>5, <1>8
  <2>6. QED
    BY <2>4, <2>5
<1>16. (transport = "tcp" \/ k = 0 => Flow(fromDev, m, n, Held - k, UpTo(d)))'
  <2>1. fromDev' = fromDev /\ Held' = Held
    BY <1>2, <1>10
  <2>2. transport = "tcp" \/ k = 0 => Flow(fromDev, m, n, Held - k, UpTo(d))
    BY <1>1
  <2>3. QED
    BY <2>1, <2>2 DEF Flow, UpTo
<1>17. Counts(g, m, n, k, d, s, w, v)'
  BY <1>1, <1>7, <1>10 DEF Counts
<1>18. QED
  BY <1>11, <1>12, <1>13, <1>14, <1>15, <1>16, <1>17 DEF Filling

\* get_pit ends when its last request is answered, and not on what came late.
LEMMA PitDone ==
  ASSUME TypeOK, size = PitUnits, Suffix(todo), Accepted, Len(todo) = 1, Table
  PROVE  Arrived
<1>1. SUFFICES ASSUME NEW g \in Nat, NEW m \in Nat, NEW n \in Nat, NEW k \in Nat, NEW d \in Nat, NEW r \in Nat,
                      NEW s \in Nat, NEW w \in Nat, NEW v \in Nat, Filling(g, m, n, k, d, r, s, w, v)
               PROVE  FALSE
  BY DEF Table
<1>2. todo # << >> /\ Len(got) >= Needed /\ Success
  BY DEF Accepted, Goes, Busy
<1>3. Now = Expects(Complete) /\ Complete \in Requests /\ Complete.type # "PING" /\ Complete.param # "pit"
  BY <1>2, Place, GetSizeKinds DEF Complete, Send
<1>4. Now.min = 1 /\ Now.max = 1 /\ Now.type = "PIT"
  <2>1. AnswerId(Complete) = "PIT"
    BY DEF AnswerId, Complete, Send
  <2>2. QED
    BY <2>1, <1>3, ExpectsKinds
<1>5. Needed = 1 /\ r = Parts /\ s = Parts
  <2>1. Len(todo) <= 3
    OBVIOUS
  <2>2. Stands(r, s)
    BY <1>1 DEF Filling
  <2>3. r = Parts /\ s = Parts
    BY <2>1, <2>2, <1>2, NextStep
  <2>4. QED
    BY <2>3, <1>4 DEF Needed
<1>6. /\ Len(got) \in Nat /\ Len(pit) = PitUnits /\ Len(got) >= 1
      /\ PitUnits \in Nat /\ PitAttempts \in Nat /\ PitAttempts <= PitUnits
  <2>1. Len(pit) = UpTo(r)
    BY <1>1 DEF Filling, Stands
  <2>2. QED
    BY <2>1, <1>2, <1>5, TableTypes, UpToFacts
<1>7. k < PitAttempts
  <2>1. g + m + k < PitAttempts
    BY <1>1 DEF Filling, Counts
  <2>2. QED
    BY <2>1, <1>6
<1>8. got[1] = Byte((PitUnits + 1) - k)
  <2>1. Fills(k, Len(pit) + 1, got[1])
    <3>1. 1 \in 1 .. Len(got)
      BY <1>6
    <3>2. QED
      BY <3>1, <1>1 DEF Filling, Shifted
  <2>2. ~(Len(pit) + 1 <= k) /\ Len(pit) + 1 = PitUnits + 1
    BY <1>6, <1>7
  <2>3. QED
    BY <2>1, <2>2 DEF Fills
<1>9. got[1].kind = "box"
  BY <1>2, <1>4 DEF Success, Accepts
<1>10. QED
  BY <1>8, <1>9 DEF Byte

\* The phone takes a transfer, and get_pit is where it was.
LEMMA PhoneTakes ==
  ASSUME TypeOK, NEW t \in Transfers, DeviceMove(t),
         NEW g \in Nat, NEW m \in Nat, NEW n \in Nat, NEW k \in Nat, NEW d \in Nat, NEW r \in Nat, NEW s \in Nat,
         NEW w \in Nat, NEW v \in Nat, Filling(g, m, n, k, d, r, s, w, v)
  PROVE  /\ Len(toDev) \in Nat \ {0} /\ toDev[1] = t /\ Len(toDev') = Len(toDev) - 1
         /\ \A j \in 1 .. Len(toDev) - 1 : toDev'[j] = toDev[j + 1]
         /\ transport' = transport /\ pit' = pit /\ todo' = todo
         /\ Held' = Held /\ Shifted(k)' /\ Stands(r, s)'
<1>1. /\ toDev # << >> /\ t = Head(toDev) /\ toDev' = Tail(toDev)
      /\ transport' = transport /\ pit' = pit /\ todo' = todo /\ got' = got /\ size' = size
  BY DEF DeviceMove, host
<1>2. toDev \in Seq(Transfers)
  BY TableTypes
<1>3. /\ Len(toDev) \in Nat \ {0} /\ toDev[1] = t /\ Len(toDev') = Len(toDev) - 1
      /\ \A j \in 1 .. Len(toDev) - 1 : toDev'[j] = toDev[j + 1]
  <2>1. Len(toDev) \in Nat /\ Len(toDev) # 0
    BY <1>1, <1>2, SeqFacts
  <2>2. QED
    BY <2>1, <1>1, <1>2, SeqFacts
<1>4. Stands(r, s) /\ Shifted(k)
  BY DEF Filling
<1>5. Held' = Held /\ Shifted(k)' /\ Stands(r, s)'
  BY <1>1, <1>4, SameBytes, SamePlace
<1>6. QED
  BY <1>1, <1>3, <1>5

\* A packet more from the phone.
LEMMA OnePacket ==
  ASSUME TypeOK, NEW p \in Seq(Unit), fromDev' = Append(fromDev, p)
  PROVE  /\ Len(fromDev') = Len(fromDev) + 1 /\ fromDev'[Len(fromDev) + 1] = p
         /\ \A i \in 1 .. Len(fromDev) : fromDev'[i] = fromDev[i]
<1>1. fromDev \in Seq(Seq(Unit))
  BY TableTypes
<1>2. QED
  BY <1>1, AppendFacts

\* A request of the size that comes late is answered, or it is not.
LEMMA LateAnswered ==
  ASSUME TypeOK, size = PitUnits, NEW t \in Transfers, DeviceMove(t),
         NEW g \in Nat, NEW m \in Nat, NEW n \in Nat, NEW k \in Nat, NEW d \in Nat, NEW r \in Nat, NEW s \in Nat,
         NEW w \in Nat, NEW v \in Nat, Filling(g, m, n, k, d, r, s, w, v), g > 0
  PROVE  Filling(g - 1, m + 1, n, k, d, r, s, w, v)' \/ Filling(g - 1, m, n, k, d, r, s, w, v)'
<1>1. /\ Stands(r, s) /\ Shifted(k) /\ Queued(g, d, s, w) /\ Carried(m, n, v)
      /\ Counts(g, m, n, k, d, s, w, v) /\ Packed(m, n, k)
      /\ transport = "tcp" \/ k = 0 => Flow(fromDev, m, n, Held - k, UpTo(d))
  BY DEF Filling
<1>2. /\ Len(toDev) \in Nat \ {0} /\ toDev[1] = t /\ Len(toDev') = Len(toDev) - 1
      /\ \A j \in 1 .. Len(toDev) - 1 : toDev'[j] = toDev[j + 1]
      /\ transport' = transport /\ pit' = pit /\ todo' = todo
      /\ Held' = Held /\ Shifted(k)' /\ Stands(r, s)'
  BY PhoneTakes
<1>3. /\ w \in {0, 1} /\ Len(toDev) = g + (s - d) + w /\ d <= s
      /\ \A j \in 1 .. g : toDev[j] = GetSize
      /\ \A j \in 1 .. s - d : toDev[g + j] = PitPart(d + j - 1)
      /\ w = 1 => toDev[Len(toDev)] = Complete
  BY <1>1 DEF Queued, Counts
<1>4. n = 0 /\ d = 0 /\ v = 0 /\ Held = k /\ g + m + k < PitAttempts /\ (w + v > 0 => Len(todo) = 1)
  BY <1>1 DEF Counts, Carried
<1>5. t = GetSize
  <2>1. 1 \in 1 .. g
    OBVIOUS
  <2>2. QED
    BY <2>1, <1>2, <1>3
<1>6. Queued(g - 1, d, s, w)'
  <2>1. Len(toDev') = (g - 1) + (s - d) + w
    <3> DEFINE a == Len(toDev)
    <3>1. a = g + (s - d) + w /\ w \in Nat /\ Len(toDev') = a - 1
      BY <1>2, <1>3
    <3> HIDE DEF a
    <3>2. QED
      BY <3>1
  <2>2. ASSUME NEW j \in 1 .. g - 1 PROVE toDev'[j] = GetSize
    <3>1. j + 1 \in 1 .. g /\ j \in 1 .. Len(toDev) - 1
      BY <1>3
    <3>2. QED
      BY <3>1, <1>2, <1>3
  <2>3. ASSUME NEW j \in 1 .. s - d PROVE toDev'[(g - 1) + j] = PitPart(d + j - 1)
    <3>1. (g - 1) + j \in 1 .. Len(toDev) - 1 /\ ((g - 1) + j) + 1 = g + j
      BY <1>3
    <3>2. QED
      BY <3>1, <1>2, <1>3
  <2>4. ASSUME w = 1 PROVE toDev'[Len(toDev')] = Complete
    <3>1. Len(toDev') \in 1 .. Len(toDev) - 1 /\ Len(toDev') + 1 = Len(toDev)
      BY <2>4, <1>2, <1>3
    <3>2. QED
      BY <3>1, <2>4, <1>2, <1>3
  <2>5. QED
    BY <2>1, <2>2, <2>3, <2>4, <1>3 DEF Queued
<1>7. Packed(m, n, k) /\ n = 0
  BY <1>1, <1>4
<1>8. ASSUME transport = "tcp" \/ k = 0, NEW l \in Nat PROVE Flow(fromDev', l, n, Held' - k, UpTo(d))
  <2>1. Held - k = UpTo(d)
    BY <1>1, <1>4, <1>8, FlowEnds
  <2>2. UpTo(d) \in Nat
    BY UpToFacts
  <2>3. Flow(fromDev', l, 0, UpTo(d), UpTo(d))
    BY <2>2, FlowNone
  <2>4. Held' - k = UpTo(d)
    BY <2>1, <1>2
  <2>5. QED
    BY <2>3, <2>4, <1>4
<1>9. ASSUME NEW l \in Nat PROVE (transport = "tcp" \/ k = 0 => Flow(fromDev, l, n, Held - k, UpTo(d)))'
  BY <1>2, <1>8 DEF Flow, UpTo
<1>10. ASSUME NEW l \in Nat PROVE Packed(l, n, k)'
  <2>1. transport # "tcp" => (pit # << >> => k = 0) /\ (k > 0 => Held = k)
    BY <1>1 DEF Packed
  <2>2. \A i \in l + 1 .. l + n : FALSE
    BY <1>4
  <2>3. QED
    BY <2>1, <2>2, <1>2 DEF Packed
<1>11. CASE fromDev' = fromDev
  <2>1. Carried(m, n, v)'
    BY <1>1, <1>11 DEF Carried, IsBox
  <2>2. Counts(g - 1, m, n, k, d, s, w, v)'
    <3>1. PitAttempts \in Nat /\ (g - 1) + m + k < PitAttempts
      BY <1>4, TableTypes
    <3>2. QED
      BY <3>1, <1>2, <1>3, <1>4 DEF Counts
  <2>3. QED
    BY <2>1, <2>2, <1>2, <1>6, <1>9, <1>10 DEF Filling
<1>12. ASSUME NEW u \in Unit, u.kind = "box", fromDev' = Append(fromDev, <<u>>)
       PROVE  Filling(g - 1, m + 1, n, k, d, r, s, w, v)'
  <2>1. <<u>> \in Seq(Unit) /\ IsBox(<<u>>)
    BY <1>12, SingleFacts DEF IsBox
  <2>2. /\ Len(fromDev') = Len(fromDev) + 1 /\ fromDev'[Len(fromDev) + 1] = <<u>>
        /\ \A i \in 1 .. Len(fromDev) : fromDev'[i] = fromDev[i]
    BY <2>1, <1>12, OnePacket
  <2>3. Len(fromDev) = m /\ \A i \in 1 .. m : IsBox(fromDev[i])
    BY <1>1, <1>4 DEF Carried
  <2>4. ASSUME NEW i \in 1 .. m + 1 PROVE IsBox(fromDev'[i])
    <3>1. i = m + 1 \/ i \in 1 .. m
      OBVIOUS
    <3>2. QED
      BY <3>1, <2>1, <2>2, <2>3
  <2>5. Carried(m + 1, n, v)'
    <3>1. Len(fromDev') = (m + 1) + n + v
      BY <2>2, <2>3, <1>4
    <3>2. QED
      BY <3>1, <2>4, <1>4 DEF Carried, IsBox
  <2>6. Counts(g - 1, m + 1, n, k, d, s, w, v)'
    <3>1. (g - 1) + (m + 1) + k < PitAttempts
      BY <1>4
    <3>2. QED
      BY <3>1, <1>2, <1>3, <1>4 DEF Counts
  <2>7. m + 1 \in Nat
    OBVIOUS
  <2>8. QED
    BY <2>5, <2>6, <2>7, <1>2, <1>6, <1>9, <1>10 DEF Filling
<1>13. \/ fromDev' = fromDev
       \/ \E u \in {Yes(t)} \cup No(t) : fromDev' = Append(fromDev, <<u>>)
  <2>1. ~IsPart(t) /\ t \in Requests
    BY <1>5, GetSizeKinds DEF IsPart
  <2>2. QED
    BY <2>1 DEF DeviceMove
<1>14. \A u \in {Yes(t)} \cup No(t) : u \in Unit /\ u.kind = "box"
  BY <1>5, GetSizeKinds, YesKinds, NoKinds
<1>15. QED
  BY <1>11, <1>12, <1>13, <1>14

\* The bytes of a part of the PIT.
LEMMA PartUnits ==
  ASSUME size = PitUnits, NEW d \in Nat, d < Parts, NEW b, Bytes(PitPart(d), b)
  PROVE  /\ b \in Seq(Unit) /\ Len(b) = UpTo(d + 1) - UpTo(d)
         /\ \A x \in 1 .. Len(b) : b[x] = Byte(UpTo(d) + x)
<1>1. /\ UpTo(d) = ChunkUnits * d /\ UpTo(d) \in Nat /\ UpTo(d + 1) \in Nat /\ UpTo(d) <= UpTo(d + 1) /\ UpTo(d + 1) <= PitUnits
      /\ UpTo(d) # UpTo(d + 1)
  <2>1. UpTo(d + 1) = UpTo(d) + PartLen(d) /\ PartLen(d) \in Nat \ {0} /\ UpTo(d) = ChunkUnits * d
    BY UpToFacts
  <2>2. UpTo(d) \in Nat /\ UpTo(d + 1) \in Nat /\ UpTo(d + 1) <= PitUnits
    BY UpToFacts
  <2>3. QED
    BY <2>1, <2>2
<1>2. PitPart(d).part = d /\ ChunkUnits \in Nat /\ PitUnits \in Nat
  BY PartKinds, Bounds
<1>3. PitPart(d).part * ChunkUnits + 1 = UpTo(d) + 1
  BY <1>1, <1>2
<1>4. (IF PartEnd(PitPart(d)) < PitUnits THEN PartEnd(PitPart(d)) ELSE PitUnits) = UpTo(d + 1)
  <2>1. PartEnd(PitPart(d)) = ChunkUnits * (d + 1)
    BY <1>2 DEF PartEnd
  <2>2. QED
    BY <2>1 DEF UpTo
<1> DEFINE a == UpTo(d)
           z == UpTo(d + 1)
<1>5. b = SubSeq(DevicePit, a + 1, z)
  BY <1>3, <1>4 DEF Bytes
<1>6. a \in Nat /\ z \in Nat /\ a < z /\ z <= PitUnits
  BY <1>1
<1> HIDE DEF a, z
<1>7. ASSUME NEW i \in a + 1 .. z PROVE DevicePit[i] \in Unit /\ DevicePit[i] = Byte(i)
  <2>1. i \in 1 .. PitUnits
    BY <1>2, <1>6
  <2>2. DevicePit[i] = [kind |-> "pit", unit |-> i]
    BY <2>1 DEF DevicePit
  <2>3. DevicePit[i] \in PitUnit
    BY <2>1, <2>2 DEF PitUnit
  <2>4. QED
    BY <2>2, <2>3 DEF Unit, Byte
<1>8. /\ b \in Seq(Unit) /\ Len(b) = z - (a + 1) + 1
      /\ \A x \in 1 .. z - (a + 1) + 1 : b[x] = DevicePit[(a + 1) + x - 1]
  BY <1>5, <1>6, <1>7, SubSeqProperties
<1>9. Len(b) = z - a
  BY <1>6, <1>8
<1>10. ASSUME NEW x \in 1 .. Len(b) PROVE b[x] = Byte(a + x)
  <2>1. x \in 1 .. z - (a + 1) + 1 /\ (a + 1) + x - 1 = a + x /\ a + x \in a + 1 .. z
    BY <1>6, <1>9
  <2>2. b[x] = DevicePit[a + x]
    BY <2>1, <1>8
  <2>3. QED
    BY <2>1, <2>2, <1>7
<1>11. QED
  BY <1>8, <1>9, <1>10 DEF a, z

\* A part of the PIT is on its way, in packets behind the others.
LEMMA PacketsAdded ==
  ASSUME TypeOK, transport' = transport, pit' = pit, todo' = todo, Held' = Held,
         NEW m \in Nat, NEW n \in Nat, NEW k \in Nat, NEW d \in Nat, NEW r \in Nat, NEW s \in Nat,
         NEW w \in Nat, NEW v \in Nat, Filling(0, m, n, k, d, r, s, w, v), v = 0, d < s, Len(fromDev) = m + n,
         Shifted(k)', Stands(r, s)', Queued(0, d + 1, s, w)',
         NEW a \in Nat, n <= a, Len(fromDev') = m + a, \A i \in 1 .. m + n : fromDev'[i] = fromDev[i],
         transport = "tcp" \/ k = 0 => Flow(fromDev', m, a, Held - k, UpTo(d + 1)),
         pit = << >> => \A i \in (m + n) + 1 .. m + a : Len(fromDev'[i]) \in {0, UpTo(1)}
  PROVE  Filling(0, m, a, k, d + 1, r, s, w, v)'
<1>1. Carried(m, n, v) /\ Counts(0, m, n, k, d, s, w, v) /\ Packed(m, n, k)
  BY DEF Filling
<1>2. Carried(m, a, v)'
  <2>1. Len(fromDev') = m + a + v
    OBVIOUS
  <2>2. ASSUME NEW i \in 1 .. m PROVE IsBox(fromDev'[i])
    <3>1. i \in 1 .. m + n
      OBVIOUS
    <3>2. QED
      BY <3>1, <1>1 DEF Carried
  <2>3. QED
    BY <2>1, <2>2 DEF Carried, IsBox
<1>3. Counts(0, m, a, k, d + 1, s, w, v)'
  <2>1. d + 1 <= s
    OBVIOUS
  <2>2. 0 + m + k < PitAttempts /\ (0 + m > 0 => Held = k) /\ (w + v > 0 => Len(todo) = 1)
    BY <1>1 DEF Counts
  <2>3. QED
    BY <2>1, <2>2 DEF Counts
<1>4. Packed(m, a, k)'
  <2>1. transport # "tcp" =>
          /\ pit # << >> => k = 0
          /\ k > 0 => Held = k
          /\ pit = << >> => \A i \in m + 1 .. m + n : Len(fromDev[i]) \in {0, UpTo(1)}
    BY <1>1 DEF Packed
  <2>2. ASSUME transport # "tcp", pit = << >>, NEW i \in m + 1 .. m + a PROVE Len(fromDev'[i]) \in {0, UpTo(1)}
    <3>1. CASE i \in m + 1 .. m + n
      <4>1. fromDev'[i] = fromDev[i]
        BY <3>1
      <4>2. QED
        BY <4>1, <3>1, <2>1, <2>2
    <3>2. CASE i \notin m + 1 .. m + n
      <4>1. i \in (m + n) + 1 .. m + a
        BY <3>2
      <4>2. QED
        BY <4>1, <2>2
    <3>3. QED
      BY <3>1, <3>2
  <2>3. QED
    BY <2>1, <2>2 DEF Packed, UpTo
<1>5. (transport = "tcp" \/ k = 0 => Flow(fromDev, m, a, Held - k, UpTo(d + 1)))'
  BY DEF Flow, UpTo
<1>6. Shifted(k)' /\ Stands(r, s)' /\ Queued(0, d + 1, s, w)'
  OBVIOUS
<1>7. QED
  BY <1>2, <1>3, <1>4, <1>5, <1>6, Zenon DEF Filling

\* The phone gives a part of the PIT.
LEMMA PartGiven ==
  ASSUME TypeOK, size = PitUnits, NEW t \in Transfers, DeviceMove(t), NoPartLost',
         NEW m \in Nat, NEW n \in Nat, NEW k \in Nat, NEW d \in Nat, NEW r \in Nat, NEW s \in Nat,
         NEW w \in Nat, NEW v \in Nat, Filling(0, m, n, k, d, r, s, w, v), d < s
  PROVE  Filling(0, m, n + 1, k, d + 1, r, s, w, v)' \/ Filling(0, m, n + 2, k, d + 1, r, s, w, v)'
<1>1. /\ transport' = transport /\ pit' = pit /\ todo' = todo
      /\ Held' = Held /\ Shifted(k)' /\ Stands(r, s)'
  BY PhoneTakes
<1>2. /\ t = PitPart(d) /\ d < Parts /\ v = 0 /\ Len(fromDev) = m + n
      /\ Queued(0, d + 1, s, w)'
      /\ pit = << >> => d = 0
  <2>1. /\ Stands(r, s) /\ Queued(0, d, s, w) /\ Carried(m, n, v)
        /\ Counts(0, m, n, k, d, s, w, v)
    BY DEF Filling
  <2>2. /\ Len(toDev) \in Nat \ {0} /\ toDev[1] = t /\ Len(toDev') = Len(toDev) - 1
        /\ \A j \in 1 .. Len(toDev) - 1 : toDev'[j] = toDev[j + 1]
    BY PhoneTakes
  <2>3. /\ w \in {0, 1} /\ Len(toDev) = 0 + (s - d) + w
        /\ \A j \in 1 .. s - d : toDev[0 + j] = PitPart(d + j - 1)
        /\ w = 1 => toDev[Len(toDev)] = Complete
    BY <2>1 DEF Queued
  <2>4. v = 0 /\ Len(fromDev) = m + n
    <3>1. v \in {0, 1} /\ Len(fromDev) = m + n + v /\ (v = 1 => d = s)
      BY <2>1 DEF Counts, Carried
    <3>2. v = 0
      BY <3>1
    <3>3. QED
      BY <3>1, <3>2
  <2>5. t = PitPart(d)
    <3>1. 1 \in 1 .. s - d /\ 0 + 1 = 1 /\ d + 1 - 1 = d
      OBVIOUS
    <3>2. toDev[0 + 1] = PitPart(d + 1 - 1)
      BY <3>1, <2>3
    <3>3. QED
      BY <3>1, <3>2, <2>2
  <2>6. Parts \in Nat \ {0}
    BY UpToFacts
  <2>7. s <= Parts /\ (s = r \/ s = r + 1 \/ r = Parts)
    BY <2>1, <2>6 DEF Stands
  <2>8. d < Parts
    BY <2>6, <2>7
  <2>9. ASSUME pit = << >> PROVE d = 0
    <3>1. UpTo(r) = 0
      BY <2>1, <2>9, SingleFacts DEF Stands
    <3>2. UpTo(1) \in Nat /\ UpTo(1) > 0 /\ UpTo(r) \in Nat
      BY Bounds, UpToFacts
    <3>3. r = 0
      <4>1. SUFFICES ASSUME 1 <= r PROVE FALSE
        OBVIOUS
      <4>2. UpTo(1) <= UpTo(r)
        BY <4>1, UpToFacts
      <4>3. QED
        BY <4>2, <3>1, <3>2
    <3>4. QED
      BY <3>3, <2>6, <2>7
  <2>10. Queued(0, d + 1, s, w)'
    <3>1. Len(toDev') = 0 + (s - (d + 1)) + w
      BY <2>2, <2>3
    <3>2. \A j \in 1 .. 0 : FALSE
      OBVIOUS
    <3>3. ASSUME NEW j \in 1 .. s - (d + 1) PROVE toDev'[0 + j] = PitPart((d + 1) + j - 1)
      <4>1. j \in 1 .. Len(toDev) - 1 /\ j + 1 \in 1 .. s - d /\ 0 + (j + 1) = j + 1 /\ d + (j + 1) - 1 = (d + 1) + j - 1 /\ 0 + j = j
        BY <2>3
      <4>2. toDev'[j] = toDev[j + 1] /\ toDev[0 + (j + 1)] = PitPart(d + (j + 1) - 1)
        BY <4>1, <2>2, <2>3
      <4>3. QED
        BY <4>1, <4>2
    <3>4. ASSUME w = 1 PROVE toDev'[Len(toDev')] = Complete
      <4>1. Len(toDev') \in 1 .. Len(toDev) - 1 /\ Len(toDev') + 1 = Len(toDev)
        BY <3>4, <2>2, <2>3
      <4>2. toDev'[Len(toDev')] = toDev[Len(toDev') + 1]
        BY <4>1, <2>2
      <4>3. QED
        BY <4>1, <4>2, <3>4, <2>3
    <3>5. QED
      BY <3>1, <3>2, <3>3, <3>4, <2>3 DEF Queued
  <2>11. QED
    BY <2>4, <2>5, <2>8, <2>9, <2>10
<1>3. IsPart(t) /\ t \notin Requests
  BY <1>2, PartKinds
<1>4. PICK b \in Seq(PitUnit) :
        /\ Bytes(t, b)
        /\ fromDev' = Append(fromDev, b) \/ (Trails(t) /\ fromDev' = Append(Append(fromDev, b), << >>))
  <2>1. ~(notDone' = notDone \cup {t})
    BY <1>3 DEF NoPartLost
  <2>2. QED
    BY <2>1, <1>3 DEF DeviceMove
<1>5. /\ b \in Seq(Unit) /\ Len(b) = UpTo(d + 1) - UpTo(d)
      /\ \A x \in 1 .. Len(b) : b[x] = Byte(UpTo(d) + x)
  BY <1>2, <1>4, PartUnits
<1>6. UpTo(d) \in Nat /\ UpTo(d + 1) \in Nat /\ UpTo(d) <= UpTo(d + 1) /\ UpTo(0) = 0
  <2>1. d <= d + 1 /\ d + 1 \in Nat
    OBVIOUS
  <2>2. QED
    BY <2>1, UpToFacts
<1> DEFINE l == m + n
<1>7. pit = << >> => Len(b) = UpTo(1)
  <2>1. SUFFICES ASSUME d = 0 PROVE Len(b) = UpTo(1)
    BY <1>2
  <2>2. UpTo(d + 1) = UpTo(1) /\ UpTo(d) = 0
    BY <2>1, <1>6
  <2>3. QED
    BY <2>2, <1>5, <1>6
<1>8. Held \in Nat /\ k <= Held /\ Held - k \in Nat
  <2>1. k <= Held
    BY DEF Filling, Shifted
  <2>2. QED
    BY <2>1, TableTypes
<1>9. transport = "tcp" \/ k = 0 => Flow(fromDev, m, n, Held - k, UpTo(d))
  BY DEF Filling
<1>10. ASSUME NEW h, h[l + 1] = b, \A i \in 1 .. l : h[i] = fromDev[i], transport = "tcp" \/ k = 0
       PROVE  Flow(h, m, n + 1, Held - k, UpTo(d + 1))
  <2>1. \A i \in 1 .. n : h[m + i] = fromDev[m + i]
    <3>1. ASSUME NEW i \in 1 .. n PROVE m + i \in 1 .. l
      OBVIOUS
    <3>2. QED
      BY <3>1, <1>10
  <2>2. h[m + (n + 1)] = b
    <3>1. m + (n + 1) = l + 1
      OBVIOUS
    <3>2. QED
      BY <3>1, <1>10
  <2>3. Flow(fromDev, m, n, Held - k, UpTo(d))
    BY <1>9, <1>10
  <2>4. /\ Len(h[m + (n + 1)]) = UpTo(d + 1) - UpTo(d)
        /\ \A x \in 1 .. Len(h[m + (n + 1)]) : h[m + (n + 1)][x] = Byte(UpTo(d) + x)
    BY <2>2, <1>5
  <2>5. QED
    BY <2>1, <2>3, <2>4, <1>6, <1>8, FlowGrows
<1>11. CASE fromDev' = Append(fromDev, b)
  <2>1. /\ Len(fromDev') = l + 1 /\ fromDev'[l + 1] = b
        /\ \A i \in 1 .. l : fromDev'[i] = fromDev[i]
    BY <1>2, <1>5, <1>11, OnePacket
  <2>2. transport = "tcp" \/ k = 0 => Flow(fromDev', m, n + 1, Held - k, UpTo(d + 1))
    BY <2>1, <1>10
  <2>3. ASSUME pit = << >>, NEW i \in l + 1 .. m + (n + 1) PROVE Len(fromDev'[i]) \in {0, UpTo(1)}
    <3>1. i = l + 1
      OBVIOUS
    <3>2. QED
      BY <3>1, <2>1, <2>3, <1>7
  <2>4. n + 1 \in Nat /\ n <= n + 1 /\ Len(fromDev') = m + (n + 1)
    BY <2>1
  <2>5. Filling(0, m, n + 1, k, d + 1, r, s, w, v)'
    BY <2>1, <2>2, <2>3, <2>4, <1>1, <1>2, PacketsAdded
  <2>6. QED
    BY <2>5
<1>12. CASE fromDev' = Append(Append(fromDev, b), << >>)
  <2> DEFINE f == Append(fromDev, b)
  <2>1. /\ f \in Seq(Seq(Unit)) /\ Len(f) = l + 1 /\ f[l + 1] = b
        /\ \A i \in 1 .. l : f[i] = fromDev[i]
    <3>1. fromDev \in Seq(Seq(Unit))
      BY TableTypes
    <3>2. QED
      <4>1. b \in Seq(Unit) /\ Len(fromDev) = l
        BY <1>2, <1>5
      <4>2. /\ Append(fromDev, b) \in Seq(Seq(Unit)) /\ Len(Append(fromDev, b)) = Len(fromDev) + 1
            /\ \A i \in 1 .. Len(fromDev) : Append(fromDev, b)[i] = fromDev[i]
            /\ Append(fromDev, b)[Len(fromDev) + 1] = b
        BY <3>1, <4>1, AppendFacts, Zenon
      <4>3. QED
        BY <4>1, <4>2
  <2>2. fromDev' = Append(f, << >>) /\ << >> \in Seq(Unit)
    BY <1>12
  <2> HIDE DEF f
  <2>3. /\ Len(fromDev') = Len(f) + 1 /\ fromDev'[Len(f) + 1] = << >>
        /\ \A i \in 1 .. Len(f) : fromDev'[i] = f[i]
    <3>1. f \in Seq(Seq(Unit))
      BY <2>1
    <3>2. /\ Len(Append(f, << >>)) = Len(f) + 1 /\ Append(f, << >>)[Len(f) + 1] = << >>
          /\ \A i \in 1 .. Len(f) : Append(f, << >>)[i] = f[i]
      BY <3>1, <2>2, AppendFacts
    <3>3. QED
      BY <3>2, <2>2
  <2>4. /\ Len(fromDev') = l + 2 /\ fromDev'[l + 2] = << >> /\ fromDev'[l + 1] = b
        /\ \A i \in 1 .. l : fromDev'[i] = fromDev[i]
    <3>1. (l + 1) + 1 = l + 2 /\ l + 1 \in 1 .. l + 1 /\ \A i \in 1 .. l : i \in 1 .. l + 1
      OBVIOUS
    <3>2. QED
      BY <3>1, <2>1, <2>3
  <2>5. ASSUME transport = "tcp" \/ k = 0 PROVE Flow(fromDev', m, n + 2, Held - k, UpTo(d + 1))
    <3>1. Flow(fromDev', m, n + 1, Held - k, UpTo(d + 1))
      BY <2>4, <2>5, <1>10
    <3> DEFINE q == n + 1
    <3>2. m + (q + 1) = l + 2 /\ q \in Nat /\ q + 1 = n + 2
      OBVIOUS
    <3>3. Flow(fromDev', m, q, Held - k, UpTo(d + 1))
      BY <3>1
    <3> HIDE DEF q
    <3>4. Len(fromDev'[m + (q + 1)]) = 0
      BY <3>2, <2>4, SingleFacts
    <3>5. /\ Len(fromDev'[m + (q + 1)]) = UpTo(d + 1) - UpTo(d + 1) /\ UpTo(d + 1) <= UpTo(d + 1)
          /\ \A x \in 1 .. Len(fromDev'[m + (q + 1)]) : fromDev'[m + (q + 1)][x] = Byte(UpTo(d + 1) + x)
      BY <3>4, <1>6
    <3>6. \A i \in 1 .. q : fromDev'[m + i] = fromDev'[m + i]
      OBVIOUS
    <3>7. Flow(fromDev', m, q + 1, Held - k, UpTo(d + 1))
      BY <3>2, <3>3, <3>5, <3>6, <1>6, <1>8, FlowGrows
    <3>8. QED
      BY <3>2, <3>7
  <2>6. ASSUME pit = << >>, NEW i \in l + 1 .. m + (n + 2) PROVE Len(fromDev'[i]) \in {0, UpTo(1)}
    <3>1. i = l + 1 \/ i = l + 2
      OBVIOUS
    <3>2. QED
      BY <3>1, <2>4, <2>6, <1>7, SingleFacts
  <2>7. n + 2 \in Nat /\ n <= n + 2 /\ Len(fromDev') = m + (n + 2)
    BY <2>4
  <2>8. Filling(0, m, n + 2, k, d + 1, r, s, w, v)'
    BY <2>4, <2>5, <2>6, <2>7, <1>1, <1>2, PacketsAdded
  <2>9. QED
    BY <2>8
<1>13. QED
  BY <1>4, <1>11, <1>12

\* The phone takes the last request of get_pit.
LEMMA LastAnswered ==
  ASSUME TypeOK, size = PitUnits, NEW t \in Transfers, DeviceMove(t),
         NEW m \in Nat, NEW n \in Nat, NEW k \in Nat, NEW r \in Nat, NEW s \in Nat,
         NEW w \in Nat, NEW v \in Nat, Filling(0, m, n, k, s, r, s, w, v)
  PROVE  Filling(0, m, n, k, s, r, s, 0, 1)' \/ Filling(0, m, n, k, s, r, s, 0, v)'
<1>1. /\ Stands(r, s) /\ Shifted(k) /\ Queued(0, s, s, w) /\ Carried(m, n, v)
      /\ Counts(0, m, n, k, s, s, w, v) /\ Packed(m, n, k)
      /\ transport = "tcp" \/ k = 0 => Flow(fromDev, m, n, Held - k, UpTo(s))
  BY DEF Filling
<1>2. /\ Len(toDev) \in Nat \ {0} /\ toDev[1] = t /\ Len(toDev') = Len(toDev) - 1
      /\ transport' = transport /\ pit' = pit /\ todo' = todo
      /\ Held' = Held /\ Shifted(k)' /\ Stands(r, s)'
  <2>1. 0 \in Nat
    OBVIOUS
  <2>2. QED
    BY <2>1, PhoneTakes
<1>3. w \in {0, 1} /\ Len(toDev) = w /\ (w = 1 => toDev[Len(toDev)] = Complete)
  <2>1. w \in {0, 1} /\ Len(toDev) = 0 + (s - s) + w /\ (w = 1 => toDev[Len(toDev)] = Complete)
    BY <1>1 DEF Queued
  <2>2. QED
    BY <2>1
<1>4. w = 1 /\ t = Complete /\ Len(toDev') = 0
  BY <1>2, <1>3
<1>5. v = 0 /\ Len(fromDev) = m + n /\ Len(todo) = 1
  <2>1. v \in {0, 1} /\ Len(fromDev) = m + n + v /\ (v = 1 => w = 0) /\ (w + v > 0 => Len(todo) = 1)
    BY <1>1 DEF Counts, Carried
  <2>2. v = 0
    BY <2>1, <1>4
  <2>3. QED
    BY <2>1, <2>2, <1>4
<1>6. Queued(0, s, s, 0)'
  <2>1. Len(toDev') = 0 + (s - s) + 0
    BY <1>4
  <2>2. (\A j \in 1 .. 0 : FALSE) /\ (\A j \in 1 .. s - s : FALSE)
    OBVIOUS
  <2>3. QED
    BY <2>1, <2>2 DEF Queued
<1>7. CASE fromDev' = fromDev
  <2>1. Carried(m, n, v)' /\ Packed(m, n, k)'
    BY <1>1, <1>2, <1>7, SameCarried
  <2>2. (transport = "tcp" \/ k = 0 => Flow(fromDev, m, n, Held - k, UpTo(s)))'
    BY <1>1, <1>2, <1>7, SameCarried
  <2>3. Counts(0, m, n, k, s, s, 0, v)'
    BY <1>1, <1>2, <1>5 DEF Counts
  <2>4. QED
    BY <2>1, <2>2, <2>3, <1>2, <1>6 DEF Filling
<1>8. ASSUME NEW u \in Unit, u.kind = "box", fromDev' = Append(fromDev, <<u>>)
      PROVE  Filling(0, m, n, k, s, r, s, 0, 1)'
  <2>1. <<u>> \in Seq(Unit) /\ IsBox(<<u>>)
    BY <1>8, SingleFacts DEF IsBox
  <2>2. /\ Len(fromDev') = Len(fromDev) + 1 /\ fromDev'[Len(fromDev) + 1] = <<u>>
        /\ \A i \in 1 .. Len(fromDev) : fromDev'[i] = fromDev[i]
    BY <2>1, <1>8, OnePacket
  <2>3. \A i \in 1 .. m + n : fromDev'[i] = fromDev[i]
    BY <2>2, <1>5
  <2>4. Carried(m, n, 1)'
    <3>1. Len(fromDev') = m + n + 1
      BY <2>2, <1>5
    <3>2. ASSUME NEW i \in 1 .. m PROVE IsBox(fromDev'[i])
      <4>1. i \in 1 .. m + n
        OBVIOUS
      <4>2. QED
        BY <4>1, <2>3, <1>1 DEF Carried
    <3>3. IsBox(fromDev'[Len(fromDev')])
      BY <3>1, <2>1, <2>2, <1>5
    <3>4. QED
      BY <3>1, <3>2, <3>3 DEF Carried, IsBox
  <2>5. Counts(0, m, n, k, s, s, 0, 1)'
    <3>1. 0 + m + k < PitAttempts /\ (0 + m > 0 => Held = k)
      BY <1>1 DEF Counts
    <3>2. QED
      BY <3>1, <1>2, <1>5 DEF Counts
  <2>6. Packed(m, n, k)'
    <3>1. transport # "tcp" =>
            /\ pit # << >> => k = 0
            /\ k > 0 => Held = k
            /\ pit = << >> => \A i \in m + 1 .. m + n : Len(fromDev[i]) \in {0, UpTo(1)}
      BY <1>1 DEF Packed
    <3>2. ASSUME NEW i \in m + 1 .. m + n PROVE fromDev'[i] = fromDev[i]
      <4>1. i \in 1 .. m + n
        OBVIOUS
      <4>2. QED
        BY <4>1, <2>3
    <3>3. QED
      BY <3>1, <3>2, <1>2 DEF Packed, UpTo
  <2>7. ASSUME transport = "tcp" \/ k = 0 PROVE Flow(fromDev', m, n, Held' - k, UpTo(s))
    <3>1. Flow(fromDev, m, n, Held - k, UpTo(s))
      BY <2>7, <1>1
    <3>2. ASSUME NEW i \in 1 .. n PROVE fromDev'[m + i] = fromDev[m + i]
      <4>1. m + i \in 1 .. m + n
        OBVIOUS
      <4>2. QED
        BY <4>1, <2>3
    <3>3. Held - k \in Nat /\ UpTo(s) \in Nat
      BY <3>1, FlowEnds
    <3>4. Flow(fromDev', m, n, Held - k, UpTo(s))
      BY <3>1, <3>2, <3>3, FlowMoves
    <3>5. QED
      BY <3>4, <1>2
  <2>8. (transport = "tcp" \/ k = 0 => Flow(fromDev, m, n, Held - k, UpTo(s)))'
    BY <2>7, <1>2 DEF Flow, UpTo
  <2>9. QED
    BY <2>4, <2>5, <2>6, <2>8, <1>2, <1>6 DEF Filling
<1>9. \/ fromDev' = fromDev
       \/ \E u \in {Yes(t)} \cup No(t) : fromDev' = Append(fromDev, <<u>>)
  <2>1. ~IsPart(t) /\ t \in Requests
    BY <1>4, GetSizeKinds DEF IsPart
  <2>2. QED
    BY <2>1 DEF DeviceMove
<1>10. \A u \in {Yes(t)} \cup No(t) : u \in Unit /\ u.kind = "box"
  BY <1>4, GetSizeKinds, YesKinds, NoKinds
<1>11. QED
  BY <1>7, <1>8, <1>9, <1>10

\* Whatever the phone does but lose a part, the table is as get_pit expects it.
LEMMA PhoneStep ==
  ASSUME TypeOK, size = PitUnits, NEW t \in Transfers, DeviceMove(t), NoPartLost', Table
  PROVE  Table'
<1>1. CASE Arrived
  BY <1>1 DEF Arrived, DeviceMove
<1>2. SUFFICES ASSUME NEW g \in Nat, NEW m \in Nat, NEW n \in Nat, NEW k \in Nat, NEW d \in Nat, NEW r \in Nat,
                      NEW s \in Nat, NEW w \in Nat, NEW v \in Nat, Filling(g, m, n, k, d, r, s, w, v)
               PROVE  \E a, b, c, e, f, h, i, j, l \in Nat : Filling(a, b, c, e, f, h, i, j, l)'
  BY <1>1 DEF Table
<1>3. CASE g > 0
  <2>1. Filling(g - 1, m + 1, n, k, d, r, s, w, v)' \/ Filling(g - 1, m, n, k, d, r, s, w, v)'
    BY <1>2, <1>3, LateAnswered
  <2>2. g - 1 \in Nat /\ m + 1 \in Nat
    BY <1>3
  <2>3. QED
    BY <2>1, <2>2
<1>4. CASE g = 0 /\ d < s
  <2>1. Filling(0, m, n, k, d, r, s, w, v)
    BY <1>2, <1>4
  <2>2. Filling(0, m, n + 1, k, d + 1, r, s, w, v)' \/ Filling(0, m, n + 2, k, d + 1, r, s, w, v)'
    BY <2>1, <1>4, PartGiven
  <2>3. n + 1 \in Nat /\ n + 2 \in Nat /\ d + 1 \in Nat /\ 0 \in Nat
    OBVIOUS
  <2>4. QED
    BY <2>2, <2>3
<1>5. CASE g = 0 /\ d = s
  <2>1. Filling(0, m, n, k, s, r, s, w, v)
    BY <1>2, <1>5
  <2>2. Filling(0, m, n, k, s, r, s, 0, 1)' \/ Filling(0, m, n, k, s, r, s, 0, v)'
    BY <2>1, LastAnswered
  <2>3. 0 \in Nat /\ 1 \in Nat
    OBVIOUS
  <2>4. QED
    BY <2>2, <2>3
<1>6. d <= s
  BY <1>2 DEF Filling, Counts
<1>7. QED
  BY <1>3, <1>4, <1>5, <1>6

\* Whatever get_pit does, the table is as it expects it, or it fails.
LEMMA TableKept ==
  ASSUME TypeOK, Live, Op = "get_pit", size = PitUnits, Suffix(todo), transport' = transport,
         Begin \/ Idle \/ Asks \/ TakesAll \/ TakesPart \/ Drops \/ Falls \/ (Accepted /\ Len(todo) # 1) \/ Skips,
         NEW g \in Nat, NEW m \in Nat, NEW n \in Nat, NEW k \in Nat, NEW d \in Nat, NEW r \in Nat, NEW s \in Nat,
         NEW w \in Nat, NEW v \in Nat, Filling(g, m, n, k, d, r, s, w, v)
  PROVE  Table' \/ result' = "failed"
<1>1. Carried(m, n, v) /\ Stands(r, s)
  BY DEF Filling
<1>2. ASSUME NEW a \in Nat, NEW b \in Nat, NEW c \in Nat, NEW e \in Nat, NEW f \in Nat, NEW h \in Nat, NEW i \in Nat,
             NEW j \in Nat, NEW l \in Nat, Filling(a, b, c, e, f, h, i, j, l)'
      PROVE  Table'
  BY <1>2 DEF Table
<1> HIDE DEF Table
<1>3. Live /\ Op = "get_pit"
  OBVIOUS
<1>4. CASE Begin
  <2>1. /\ todo = << >> /\ todo' = GetPit
        /\ pit' = pit /\ got' = got /\ size' = size /\ toDev' = toDev /\ fromDev' = fromDev
    BY <1>4 DEF Begin, Script
  <2>2. Filling(g, m, n, k, d, r, s, w, v)'
    BY <2>1, PitBegun
  <2>3. QED
    BY <2>2, <1>2
<1>5. CASE Idle
  <2>1. /\ todo' = todo /\ pit' = pit /\ got' = got /\ size' = size /\ toDev' = toDev /\ fromDev' = fromDev
    BY <1>5 DEF Idle
  <2>2. Filling(g, m, n, k, d, r, s, w, v)'
    BY <2>1, NothingTaken
  <2>3. QED
    BY <2>2, <1>2
<1>6. CASE Asks
  <2>1. todo # << >> /\ Now.do = "send"
    BY <1>6 DEF Asks, Goes, Busy
  <2>2. Len(todo) = 2 \/ Len(todo) > 3
    BY <2>1, PlaceKinds
  <2>3. CASE Len(todo) > 3
    <3>1. Filling(g, m, n, k, d, r, s + 1, w, v)'
      BY <2>3, <1>6, PartAsked
    <3>2. s + 1 \in Nat
      BY <2>3
    <3>3. QED
      BY <3>1, <3>2, <1>2
  <2>4. CASE Len(todo) = 2
    <3>1. Filling(g, m, n, k, d, r, s, 1, v)' /\ 1 \in Nat
      BY <2>4, <1>6, LastAsked
    <3>2. QED
      BY <3>1, <1>2
  <2>5. QED
    BY <2>2, <2>3, <2>4
<1>7. CASE TakesAll
  <2>1. CASE m > 0
    <3>1. Filling(g, m - 1, n, k + 1, d, r, s, w, v)'
      BY <2>1, <1>7, LateTaken
    <3>2. m - 1 \in Nat /\ k + 1 \in Nat
      BY <2>1
    <3>3. QED
      BY <3>1, <3>2, <1>2
  <2>2. CASE m = 0 /\ n > 0
    <3>1. Filling(g, m, n - 1, k, d, r, s, w, v)'
      BY <2>2, <1>7, PacketTaken
    <3>2. n - 1 \in Nat
      BY <2>2
    <3>3. QED
      BY <3>1, <3>2, <1>2
  <2>3. CASE m = 0 /\ n = 0
    <3>1. Arrived'
      BY <2>3, <1>7, LastTaken
    <3>2. QED
      BY <3>1 DEF Table
  <2>4. QED
    BY <2>1, <2>2, <2>3
<1>8. CASE TakesPart
  <2>1. Filling(g, m, n, k, d, r, s, w, v)'
    BY <1>8, PartTaken
  <2>2. QED
    BY <2>1, <1>2
<1>9. CASE Drops
  <2>1. m = 0 /\ n > 0 /\ g = 0 /\ (k = 0 => Len(fromDev[1]) = 0)
    BY <1>9, DropFacts
  <2>2. /\ transport # "tcp" /\ fromDev # << >> /\ fromDev' = Tail(fromDev)
        /\ todo' = todo /\ pit' = pit /\ got' = got /\ size' = size /\ toDev' = toDev
    BY <1>9 DEF Drops, Listening
  <2>3. Held' = Held /\ Shifted(k)' /\ Stands(r, s)'
    <3>1. Shifted(k)
      BY DEF Filling
    <3>2. QED
      BY <3>1, <2>2, <1>1, SameBytes, SamePlace
  <2>4. w + v > 0 => Len(todo') = 1
    BY <2>2 DEF Filling, Counts
  <2>5. Filling(g, m, n - 1, k, d, r, s, w, v)'
    BY <2>1, <2>2, <2>3, <2>4, PacketLost
  <2>6. n - 1 \in Nat
    BY <2>1
  <2>7. QED
    BY <2>5, <2>6, <1>2
<1>10. CASE Falls
  BY <1>3, <1>10 DEF Falls
<1>11. CASE Accepted /\ Len(todo) # 1
  <2>1. todo # << >> /\ Now.do = "recv" /\ size' = size
    BY <1>3, <1>11 DEF Accepted, Goes, Busy
  <2>2. Len(todo) > 3
    BY <2>1, <1>11, PlaceKinds
  <2>3. Filling(g, m, n, k, d, s, s, w, v)'
    BY <2>1, <2>2, <1>11, PartKept
  <2>4. QED
    BY <2>3, <1>2
<1>12. CASE Skips
  <2>1. Filling(g, m, n, k, d, r, s, w, v)' \/ (n > 0 /\ Filling(g, m, n - 1, k, d, r, s, w, v)')
    BY <1>12, PitSkipped
  <2>2. n > 0 => n - 1 \in Nat
    OBVIOUS
  <2>3. QED
    BY <2>1, <2>2, <1>2
<1>13. QED
  BY <1>4, <1>5, <1>6, <1>7, <1>8, <1>9, <1>10, <1>11, <1>12

\* Only the phone refuses, and what it refused stays refused.
LEMMA NoPartBefore ==
  ASSUME TypeOK, Smooth, NoPartLost'
  PROVE  NoPartLost
<1>1. \A t \in notDone : t \in notDone'
  BY PlanKept DEF DeviceMove
<1>2. QED
  BY <1>1 DEF NoPartLost

\* As long as the phone gives what it is asked for, the table stays as get_pit expects
\* it; when get_pit is over, it has the table of the phone.
LEMMA PitStep ==
  ASSUME TypeOK, Live, Op = "get_pit", size = PitUnits, Suffix(todo), transport' = transport, Smooth, NoPartLost', Table
  PROVE  \/ Table' /\ done' = done
         \/ result' = "failed" /\ done' = done
         \/ done' = done + 1 /\ pit' = DevicePit
<1>1. CASE \E t \in Transfers : DeviceMove(t)
  <2>1. PICK t \in Transfers : DeviceMove(t)
    BY <1>1
  <2>2. Table' /\ done' = done
    BY <2>1, PhoneStep DEF DeviceMove, host
  <2>3. QED
    BY <2>2
<1>2. ~Finish
  BY DEF Finish, Live
<1>3. CASE Accepted /\ Len(todo) = 1
  <2>1. Arrived
    BY <1>3, PitDone
  <2>2. todo # << >>
    BY <1>3 DEF Accepted, Goes, Busy
  <2>3. Now.type = "PIT"
    <3>1. Now = Expects(Complete)
      BY <2>2, <1>3, Place
    <3>2. QED
      BY <3>1, GetSizeKinds DEF Recv
  <2>4. pit' = pit /\ done' = done + 1
    BY <2>3, <1>3 DEF Accepted, Goes
  <2>5. QED
    BY <2>1, <2>4 DEF Arrived
<1>4. CASE Begin \/ Idle \/ Asks \/ TakesAll \/ TakesPart \/ Drops \/ Falls \/ (Accepted /\ Len(todo) # 1) \/ Skips
  <2>1. done' = done
    <3>1. CASE Begin \/ Idle \/ TakesAll \/ TakesPart \/ Drops
      BY <3>1 DEF Begin, Idle, TakesAll, TakesPart, Drops, Listening
    <3>2. CASE Falls
      BY <3>2 DEF Falls
    <3>3. CASE Asks \/ Skips
      <4>1. todo # << >> /\ Now.do # "recv" /\ done' = IF Len(todo) = 1 THEN done + 1 ELSE done
        BY <3>3 DEF Asks, Skips, Goes, Busy
      <4>2. Len(todo) = 1 => Now.do = "recv"
        BY <4>1, Place, GetSizeKinds, ExpectsKinds
      <4>3. QED
        BY <4>1, <4>2
    <3>4. CASE Accepted /\ Len(todo) # 1
      BY <3>4 DEF Accepted, Goes
    <3>5. QED
      BY <3>1, <3>2, <3>3, <3>4, <1>4
  <2>2. CASE Arrived
    <3>1. Len(todo) = 1 /\ fromDev = << >> /\ Len(todo) # 0
      BY <2>2 DEF Arrived
    <3>2. ~Begin /\ ~TakesAll /\ ~TakesPart /\ ~Drops
      BY <3>1, SingleFacts DEF Begin, TakesAll, TakesPart, Drops, Listening
    <3>3. ~Asks /\ ~Skips
      <4>1. SUFFICES ASSUME Asks \/ Skips PROVE FALSE
        OBVIOUS
      <4>2. todo # << >> /\ Now.do # "recv"
        BY <4>1 DEF Asks, Skips, Goes, Busy
      <4>3. Now = Expects(Complete)
        BY <4>2, <3>1, Place
      <4>4. QED
        BY <4>2, <4>3, GetSizeKinds, ExpectsKinds
    <3>4. CASE Idle
      <4>1. Arrived'
        BY <2>2, <3>4 DEF Idle, Arrived, DevicePit
      <4>2. QED
        BY <4>1, <2>1 DEF Table
    <3>5. CASE Falls
      BY <3>5 DEF Falls
    <3>6. QED
      BY <3>1, <3>2, <3>3, <3>4, <3>5, <1>4
  <2>3. ASSUME NEW g \in Nat, NEW m \in Nat, NEW n \in Nat, NEW k \in Nat, NEW d \in Nat, NEW r \in Nat, NEW s \in Nat,
               NEW w \in Nat, NEW v \in Nat, Filling(g, m, n, k, d, r, s, w, v)
        PROVE  Table' \/ result' = "failed"
    BY <2>3, <1>4, TableKept
  <2>4. QED
    BY <2>1, <2>2, <2>3 DEF Table
<1>5. QED
  BY <1>1, <1>2, <1>3, <1>4, Moves

\* A session stays on its transport.
LEMMA TransportKept ==
  ASSUME Smooth
  PROVE  transport' = transport
<1>1. CASE Begin \/ Finish \/ SendTimesOut
  BY <1>1 DEF Begin, Finish, SendTimesOut
<1>2. CASE Lost \/ RecvTimesOut \/ \E up \in BOOLEAN : SendFails(up) \/ RecvFails(up)
  BY <1>2 DEF Lost, RecvTimesOut, SendFails, RecvFails, Fail
<1>3. CASE SendWhole \/ RecvZlp
  BY <1>3 DEF SendWhole, RecvZlp, Advance
<1>4. CASE RecvPacket \/ RecvBytes \/ RecvOverflow \/ RecvEmpty
  BY <1>4 DEF RecvPacket, RecvBytes, RecvOverflow, RecvEmpty, Receive
<1>5. CASE Received
  BY <1>5 DEF Received, Advance, Fail
<1>6. CASE DeviceAnswers \/ DeviceRefuses \/ DeviceIgnores
  BY <1>6 DEF DeviceAnswers, DeviceRefuses, DeviceIgnores, DeviceTakes, host
<1>7. CASE UNCHANGED vars
  BY <1>7 DEF vars, host
<1>8. QED
  BY <1>1, <1>2, <1>3, <1>4, <1>5, <1>6, <1>7 DEF Smooth, Next, HostStep

\* get_pit begins with nothing of the PIT, and with what pit_size left on its way.
LEMMA EnterPit ==
  ASSUME TypeOK, Drained, pit = << >>
  PROVE  Table
<1> DEFINE g == Len(toDev)
           m == Len(fromDev)
<1>1. /\ todo = << >> /\ got = << >> /\ size = PitUnits
      /\ \A i \in 1 .. Len(toDev) : toDev[i] = GetSize
      /\ \A i \in 1 .. Len(fromDev) : \E u \in Stale : fromDev[i] = <<u>>
      /\ Total < PitAttempts
  BY DEF Drained
<1>2. g \in Nat /\ m \in Nat /\ PitAttempts \in Nat
  BY TableTypes
<1>3. Len(todo) = 0 /\ Len(got) = 0 /\ Len(pit) = 0
  BY <1>1, SingleFacts
<1>4. g + m < PitAttempts /\ Held = 0
  <2>1. Total = g + m + 0 /\ Held = 0 + 0
    BY <1>3 DEF Total, Held
  <2>2. QED
    BY <2>1, <1>1, <1>2
<1>5. UpTo(0) = 0
  BY <1>1, UpToFacts
<1>6. Stands(0, 0)
  BY <1>1, <1>3, <1>4, <1>5 DEF Stands
<1>7. Shifted(0)
  <2>1. (\A i \in 1 .. Len(pit) : FALSE) /\ (\A i \in 1 .. Len(got) : FALSE)
    BY <1>3
  <2>2. QED
    BY <2>1, <1>4 DEF Shifted
<1>8. Queued(g, 0, 0, 0)
  <2>1. g = g + (0 - 0) + 0 /\ \A j \in 1 .. 0 - 0 : FALSE
    BY <1>2
  <2>2. QED
    BY <2>1, <1>1 DEF Queued
<1>9. Carried(m, 0, 0)
  <2>1. m = m + 0 + 0
    BY <1>2
  <2>2. ASSUME NEW i \in 1 .. m PROVE IsBox(fromDev[i])
    <3>1. PICK u \in Stale : fromDev[i] = <<u>>
      BY <1>1
    <3>2. u.kind = "box"
      BY StaleKinds
    <3>3. QED
      BY <3>1, <3>2, SingleFacts DEF IsBox
  <2>3. QED
    BY <2>1, <2>2 DEF Carried
<1>10. Counts(g, m, 0, 0, 0, 0, 0, 0)
  <2>1. g + m + 0 < PitAttempts
    BY <1>2, <1>4
  <2>2. QED
    BY <2>1, <1>4 DEF Counts
<1>11. Packed(m, 0, 0)
  <2>1. \A i \in m + 1 .. m + 0 : FALSE
    BY <1>2
  <2>2. QED
    BY <2>1 DEF Packed
<1>12. Flow(fromDev, m, 0, Held - 0, UpTo(0))
  <2>1. 0 \in Nat
    OBVIOUS
  <2>2. Flow(fromDev, m, 0, 0, 0)
    BY <2>1, FlowNone
  <2>3. Held - 0 = 0
    BY <1>4
  <2>4. QED
    BY <2>2, <2>3, <1>5
<1> HIDE DEF g, m
<1>13. Filling(g, m, 0, 0, 0, 0, 0, 0, 0)
  BY <1>6, <1>7, <1>8, <1>9, <1>10, <1>11, <1>12 DEF Filling
<1>14. 0 \in Nat
  OBVIOUS
<1>15. QED
  BY <1>2, <1>13, <1>14 DEF Table

\* The same of every state, and of the state after a step.
LEMMA EnteringPit ==
  TypeOK /\ Drained /\ pit = << >> => Table
BY EnterPit

LEMMA EnteringPitNext ==
  TypeOK' /\ Drained' /\ (pit = << >>)' => Table'
BY EnteringPit, PTL

\* While get_pit is at work, the table is as it expects it; behind it, as the phone has it.
Gathering == Live /\ Op = "get_pit" /\ NoPartLost => Table
Gathered  == Ended("get_pit") /\ NoPartLost => pit = DevicePit

\* At first nothing is gathered.
LEMMA GatherInitial ==
  ASSUME Init
  PROVE  Gathering /\ Gathered
<1>1. TypeOK /\ done = 0
  BY TypeInitial DEF Init
<1>2. ~(Live /\ Op = "get_pit")
  <2>1. SUFFICES ASSUME Live, Op = "get_pit" PROVE FALSE
    OBVIOUS
  <2>2. 1 \in 1 .. Len(plan) /\ plan[1] = "get_pit"
    BY <2>1, <1>1, PlanShape DEF Live, Op
  <2>3. 1 - 1 >= 1
    BY <2>2, <1>1, PlanShape
  <2>4. QED
    BY <2>3
<1>3. ~Ended("get_pit")
  BY <1>1 DEF Ended
<1>4. QED
  BY <1>2, <1>3 DEF Gathering, Gathered

\* A step of get_pit.
LEMMA GetPitStep ==
  ASSUME OInv, Gathering, Smooth, NoPartLost', Live, Op = "get_pit"
  PROVE  \/ Table' /\ done' = done
         \/ result' = "failed" /\ done' = done
         \/ done' = done + 1 /\ pit' = DevicePit
<1>1. TypeOK /\ Laying
  BY DEF OInv, Reading
<1>2. size = PitUnits /\ Suffix(todo)
  BY <1>1 DEF Laying, Suffix
<1>3. NoPartLost /\ Table
  BY <1>1, NoPartBefore DEF Gathering
<1>4. transport' = transport
  BY TransportKept
<1>5. QED
  BY <1>1, <1>2, <1>3, <1>4, PitStep

\* get_pit goes on as it began.
LEMMA GatheringStep ==
  ASSUME OInv, Gathering, Smooth
  PROVE  Gathering'
<1> USE DEF OInv
<1>1. SUFFICES ASSUME Live', Op' = "get_pit", NoPartLost'
      PROVE  Table'
  BY DEF Gathering
<1>2. plan' = plan /\ result' = "running" /\ result = "running" /\ done' < Len(plan) /\ TypeOK'
  BY <1>1, Course, TypeStep DEF Live
<1>3. done \in Nat /\ Len(plan) \in Nat /\ (done' = done \/ done' = done + 1)
  BY PlanShape, Course
<1>4. Live /\ done + 1 \in 1 .. Len(plan) /\ done' + 1 \in 1 .. Len(plan) /\ Op' = plan[done' + 1] /\ Op = plan[done + 1]
  <2>1. done < Len(plan)
    BY <1>2, <1>3
  <2>2. done + 1 \in 1 .. Len(plan) /\ done' + 1 \in 1 .. Len(plan)
    BY <2>1, <1>2, <1>3
  <2>3. QED
    BY <2>1, <2>2, <1>2 DEF Live, Op
<1>5. CASE done' = done
  <2>1. Op = "get_pit"
    BY <1>1, <1>4, <1>5
  <2>2. QED
    BY <2>1, <1>1, <1>2, <1>3, <1>4, <1>5, GetPitStep
<1>6. CASE done' = done + 1
  <2>1. plan[done' + 1] = "get_pit" /\ plan[(done' + 1) - 1] = "pit_size" /\ (done' + 1) - 1 = done + 1
    BY <1>1, <1>3, <1>4, <1>6, PlanShape
  <2>2. Op = "pit_size"
    BY <2>1, <1>4
  <2>3. Asking
    BY <2>2, <1>4 DEF Sizing
  <2>4. Drained'
    BY <2>2, <2>3, <1>2, <1>3, <1>4, <1>6, AskStep
  <2>5. ~Reached("get_pit")
    <3>1. SUFFICES ASSUME NEW j \in 1 .. done + 1, j <= Len(plan), plan[j] = "get_pit" PROVE FALSE
      BY DEF Reached
    <3>2. j \in 1 .. Len(plan) /\ j # done' + 1
      BY <1>3, <1>6, <3>1
    <3>3. QED
      BY <3>1, <3>2, <2>1, <1>4, PlanShape
  <2>6. pit' = << >>
    <3>1. pit = << >>
      BY <2>5 DEF Fresh
    <3>2. ~(Busy /\ Now.do = "recv" /\ Now.type = "bytes")
      BY <2>2, <1>4, BytesAwaited DEF Busy
    <3>3. QED
      BY <3>1, <3>2, Course
  <2>7. QED
    BY <2>4, <2>6, <1>2, EnteringPitNext
<1>7. QED
  BY <1>3, <1>5, <1>6

\* What get_pit left stays.
LEMMA GatheredStep ==
  ASSUME OInv, Gathering, Gathered, Smooth
  PROVE  Gathered'
<1> USE DEF OInv
<1>1. SUFFICES ASSUME Ended("get_pit")', NoPartLost'
      PROVE  pit' = DevicePit
  BY DEF Gathered, DevicePit
<1>2. done \in Nat /\ Len(plan) \in Nat /\ done <= Len(plan) /\ (done' = done \/ (done' = done + 1 /\ Busy)) /\ plan' = plan
  BY PlanShape, Course
<1>3. Busy => Live /\ done + 1 \in 1 .. Len(plan)
  BY <1>2 DEF Busy, Live, TypeOK
<1>4. CASE Ended("get_pit")
  <2>1. PICK i \in 1 .. done : plan[i] = "get_pit"
    BY <1>4 DEF Ended
  <2>2. pit = DevicePit
    BY <1>1, <1>4, NoPartBefore DEF Gathered
  <2>3. ~(Busy /\ Now.do = "recv" /\ Now.type = "bytes")
    <3>1. SUFFICES ASSUME Busy, Now.do = "recv", Now.type = "bytes" PROVE FALSE
      OBVIOUS
    <3>2. Live /\ todo # << >> /\ done + 1 \in 1 .. Len(plan) /\ i \in 1 .. Len(plan) /\ i # done + 1
      BY <3>1, <2>1, <1>2, <1>3 DEF Busy
    <3>3. plan[done + 1] = "get_pit"
      BY <3>1, <3>2, BytesAwaited DEF Op
    <3>4. QED
      BY <3>2, <3>3, <2>1, PlanShape
  <2>4. QED
    BY <2>2, <2>3, Course
<1>5. CASE ~Ended("get_pit")
  <2>1. PICK i \in 1 .. done' : plan[i] = "get_pit"
    BY <1>1, <1>2 DEF Ended
  <2>2. i = done + 1 /\ done' = done + 1 /\ Busy
    <3>1. i \notin 1 .. done
      BY <2>1, <1>5 DEF Ended
    <3>2. QED
      BY <3>1, <2>1, <1>2
  <2>3. Live /\ Op = "get_pit"
    BY <2>1, <2>2, <1>3 DEF Op
  <2>4. done' # done
    BY <2>2, <1>2
  <2>5. QED
    BY <2>3, <2>4, <1>1, GetPitStep
<1>6. QED
  BY <1>4, <1>5

\* The bytes get_pit accepts are the phone's table, whatever answers to get_pit_size come
\* late, over every transport, if the phone gave every part and no send was cut short
\* (OdinCommands, get_pit).
THEOREM PitIsIntact == Spec => []PitIntact
<1>1. Init => Gathering /\ Gathered
  BY GatherInitial
<1>2. (Whole => OInv) /\ (Whole => Gathering /\ Gathered) /\ [Next]_vars => (Whole => Gathering /\ Gathered)'
  <2>1. SUFFICES ASSUME Whole => OInv, Whole => Gathering /\ Gathered, [Next]_vars, Whole'
                 PROVE  Gathering' /\ Gathered'
    OBVIOUS
  <2>2. OInv /\ Gathering /\ Gathered /\ Smooth
    BY <2>1, WholeStep
  <2>3. QED
    BY <2>2, GatheringStep, GatheredStep
<1>3. (Whole => Gathering /\ Gathered) => PitIntact
  BY DEF Gathered, PitIntact, NoPartLost, IsPart
<1>4. QED
  BY <1>1, <1>2, <1>3, InvHolds, PTL DEF Spec
=============================================================================
