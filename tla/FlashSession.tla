---------------------------- MODULE FlashSession ----------------------------
(***************************************************************************)
(* The Android side of a flash: the flash screen (ErosFragment.java), the  *)
(* started service (FlashService.java), the state they share               *)
(* (EkoStore.java) and one thread per accepted start.                      *)
(*                                                                         *)
(* Screen and service handlers run on the main thread, so each is one      *)
(* action, but for two that flash threads can meet half-way: the call of   *)
(* acquireWakeLock in onStartCommand and the run of a watchdog.  They      *)
(* communicate by start commands that Android queues and numbers:          *)
(* stopSelf(id) stops the service only if id is the last number given out, *)
(* and onDestroy runs later; the next command then makes a new service     *)
(* object.  A flash thread keeps running in any case, and touches the      *)
(* fields of the service object that started it.                           *)
(***************************************************************************)
EXTENDS Naturals, Sequences, FiniteSets

CONSTANTS
  MaxSends,       \* bound of the model: start commands
  MaxReopens      \* bound of the model: times the screen is created anew

ASSUME BoundsAssumption == MaxSends \in Nat /\ MaxReopens \in Nat

VARIABLES
  inProgress,     \* ErosFragment.flashInProgress
  reopens,        \* times the screen was created anew
  posted,         \* liveFinished was posted and not yet observed
  sessionActive,  \* EkoStore.sessionActive
  queue,          \* start commands not yet delivered
  lastId,         \* the last start number given out
  alive,          \* the service object exists
  destroying,     \* its onDestroy is due
  inst,           \* number of service objects so far
  session,        \* currentSession # null
  foreground,     \* of the current service object
  wakeLock,       \* service object -> the lock in its field, by the start that made it, or 0
  held,           \* the locks that are held
  thread,         \* start number -> state of its flash thread
  owner,          \* start number -> service object that started it
  watched,        \* watchdog callbacks in the main looper, by thread
  watchdog,       \* service object -> its watchdogRunnable: a thread or 0
  ticking,        \* the watchdog that the main looper runs now, or 0
  overtaken       \* history: threads whose watchdog was running when they stopped it

screen  == <<inProgress, reopens>>
store   == <<posted, sessionActive>>
service == <<alive, destroying, inst, session, foreground>>
locks   == <<wakeLock, held>>
dogs    == <<watched, watchdog, ticking, overtaken>>
threads == <<thread, owner, dogs>>
sessionVars == <<screen, store, queue, lastId, service, locks, threads>>

Ids == 1 .. MaxSends

\* Accepted and not at its end: "starting" while onStartCommand acquires the lock,
\* "new" once the thread was started.
Running == {t \in Ids : thread[t] \in {"starting", "new", "open", "native"}}

SessionInit ==
  /\ inProgress = FALSE /\ reopens = 0
  /\ posted = FALSE /\ sessionActive = FALSE
  /\ queue = << >> /\ lastId = 0
  /\ alive = FALSE /\ destroying = FALSE /\ inst = 0
  /\ session = FALSE /\ foreground = FALSE
  /\ wakeLock = [i \in Ids |-> 0] /\ held = {}
  /\ thread = [t \in Ids |-> "none"] /\ owner = [t \in Ids |-> 0]
  /\ watched = {} /\ watchdog = [i \in Ids |-> 0] /\ ticking = 0 /\ overtaken = {}

\* The main thread is between two messages.
LooperFree == ticking = 0 /\ \A t \in Ids : thread[t] # "starting"

\* startService: the command gets the next number.
StartService(kind) ==
  /\ lastId < MaxSends
  /\ lastId' = lastId + 1
  /\ queue' = Append(queue, [kind |-> kind, id |-> lastId + 1])

\* EkoStore.setFinished.  The value waits for the observer, which runs at once
\* when the call comes from the main thread and the screen is visible.
SetFinished == posted' = TRUE /\ sessionActive' = FALSE

\* FlashService.cancelSession.
CancelSession == IF sessionActive THEN SetFinished ELSE UNCHANGED store

-----------------------------------------------------------------------------
\* Start is pressed and the command is sent.  A press that ends before that (no
\* file, no device, a file that cannot be copied) leaves the flag down.
StartFlash ==
  /\ ~inProgress
  /\ StartService("start") /\ inProgress' = TRUE
  /\ UNCHANGED <<reopens, store, service, locks, threads>>

\* Defect: cancelling lowers the flag while the session still runs.
CancelFlashLowersFlag ==
  /\ StartService("cancel") /\ inProgress' = FALSE
  /\ sessionActive' = FALSE
  /\ UNCHANGED <<reopens, posted, service, locks, threads>>

\* cancelFlash: the service is told and the store reset.
CancelFlash ==
  /\ StartService("cancel")
  /\ sessionActive' = FALSE
  /\ UNCHANGED <<screen, posted, service, locks, threads>>

\* The observer of liveFinished.
ObserveFinished ==
  /\ posted
  /\ posted' = FALSE /\ inProgress' = FALSE
  /\ UNCHANGED <<reopens, sessionActive, queue, lastId, service, locks, threads>>

\* The app is opened again: MainActivity starts the service without an action
\* and a new fragment begins with the flag down.
Reopen ==
  /\ reopens < MaxReopens
  /\ reopens' = reopens + 1 /\ inProgress' = FALSE
  /\ StartService("plain")
  /\ UNCHANGED <<store, service, locks, threads>>

\* A USB device is unplugged: the service's own receiver calls cancelSession,
\* the one of the manifest starts the service with an action it ignores.
Detach ==
  /\ IF alive /\ session THEN CancelSession ELSE UNCHANGED store
  /\ StartService("plain")
  /\ UNCHANGED <<screen, service, locks, threads>>

-----------------------------------------------------------------------------
(***************************************************************************)
(* onStartCommand.  Its first lines, and onCreate before them, promote the *)
(* service to the foreground.                                              *)
(***************************************************************************)
Deliver(kind) ==
  /\ queue # << >> /\ Head(queue).kind = kind /\ ~destroying
  /\ queue' = Tail(queue)
  /\ alive' = TRUE
  /\ inst' = IF alive THEN inst ELSE inst + 1
  /\ UNCHANGED <<screen, lastId>>

\* stopSelf(id) is accepted.
StopSelf(id) == id = lastId

\* promoteToForeground(..., false): its failure is passed over.
Promote == foreground' \in {foreground, TRUE}

\* No action, or an unknown one.
OnPlain ==
  /\ Deliver("plain")
  /\ Promote
  /\ destroying' = StopSelf(Head(queue).id)
  /\ UNCHANGED <<store, session, locks, threads>>

\* Defect: the cancel command does not stop the service.
OnCancelKeepsService ==
  /\ Deliver("cancel")
  /\ CancelSession
  /\ Promote
  /\ UNCHANGED <<destroying, session, locks, threads>>

OnCancel ==
  /\ Deliver("cancel")
  /\ CancelSession
  /\ Promote
  /\ destroying' = StopSelf(Head(queue).id)
  /\ UNCHANGED <<session, locks, threads>>

\* A start that is turned down: no files, a wrong format, no device.  A session
\* that was there is dropped first.
OnStartRejected ==
  /\ Deliver("start")
  /\ SetFinished
  /\ session' = FALSE
  /\ foreground' \in BOOLEAN
  /\ destroying' = StopSelf(Head(queue).id)
  /\ UNCHANGED <<locks, threads>>

\* A start whose promotion to a connected-device service fails: the handler
\* returns without a word to the store.  A refusal stops the service; without a
\* notification to show the service stops only if this was its last command.
OnStartNotPromoted ==
  /\ Deliver("start")
  /\ IF session THEN CancelSession ELSE UNCHANGED store
  /\ session' = FALSE
  /\ \/ foreground' = FALSE /\ destroying' = TRUE
     \/ Promote /\ destroying' = StopSelf(Head(queue).id)
  /\ UNCHANGED <<locks, threads>>

\* A start that is accepted: the old session is cancelled, a thread started.
\* acquireWakeLock makes a new lock unless the one in the field is held.
OnStart ==
  /\ Deliver("start")
  /\ IF session THEN CancelSession ELSE UNCHANGED store
  /\ session' = TRUE /\ foreground' = TRUE
  /\ LET id == Head(queue).id
     IN /\ owner' = [owner EXCEPT ![id] = inst']
        /\ \/ /\ wakeLock[inst'] \in held
              /\ thread' = [thread EXCEPT ![id] = "new"]
              /\ UNCHANGED wakeLock
           \/ /\ wakeLock[inst'] \notin held
              /\ thread' = [thread EXCEPT ![id] = "starting"]
              /\ wakeLock' = [wakeLock EXCEPT ![inst'] = id]
  /\ UNCHANGED <<destroying, held, dogs>>

\* The second half: the lock in the field is acquired, unless another thread has
\* cleared the field, or that fails, which is passed over.
AcquireLock(t) ==
  /\ thread[t] = "starting"
  /\ thread' = [thread EXCEPT ![t] = "new"]
  /\ held' \in {held, held \cup ({wakeLock[owner[t]]} \ {0})}
  /\ UNCHANGED <<screen, store, queue, lastId, service, wakeLock, owner, dogs>>

OnDestroy ==
  /\ destroying
  /\ destroying' = FALSE /\ alive' = FALSE
  /\ CancelSession
  /\ session' = FALSE /\ foreground' = FALSE
  /\ held' = held \ {wakeLock[inst]}
  /\ wakeLock' = [wakeLock EXCEPT ![inst] = 0]
  /\ UNCHANGED <<screen, queue, lastId, inst, threads>>

-----------------------------------------------------------------------------
(***************************************************************************)
(* The watchdogs, in the main looper.                                      *)
(***************************************************************************)
\* stopWatchdog of a service object, whosever runnable it holds.
StopWatchdog(i) ==
  /\ watched' = watched \ {watchdog[i]}
  /\ watchdog' = [watchdog EXCEPT ![i] = 0]

\* The looper takes the callback out and runs it.
TickBegin(t) ==
  /\ t \in watched
  /\ watched' = watched \ {t} /\ ticking' = t
  /\ UNCHANGED <<screen, store, queue, lastId, service, locks, thread, owner, watchdog, overtaken>>

\* There was progress lately: it posts itself again, whoever stopped it meanwhile.
TickAgain(t) ==
  /\ ticking = t
  /\ watched' = watched \cup {t} /\ ticking' = 0
  /\ UNCHANGED <<screen, store, queue, lastId, service, locks, thread, owner, watchdog, overtaken>>

\* Defect: the callback is posted again also when it fires.
TickFiresAgain(t) ==
  /\ ticking = t
  /\ CancelSession
  /\ watched' = watched \cup {t} /\ ticking' = 0
  /\ watchdog' = [watchdog EXCEPT ![owner[t]] = 0]
  /\ UNCHANGED <<screen, queue, lastId, service, locks, thread, owner, overtaken>>

\* There was none for WATCHDOG_TIMEOUT_MS.
TickFires(t) ==
  /\ ticking = t
  /\ CancelSession
  /\ StopWatchdog(owner[t]) /\ ticking' = 0
  /\ UNCHANGED <<screen, queue, lastId, service, locks, thread, owner, overtaken>>

-----------------------------------------------------------------------------
(***************************************************************************)
(* runFlashSession, on its own thread.                                     *)
(***************************************************************************)
\* The thread was started by the service object that is there now.
Mine(t) == alive /\ owner[t] = inst

StartWatchdog(t) ==
  /\ thread[t] = "new"
  /\ thread' = [thread EXCEPT ![t] = "open"]
  /\ watched' = watched \cup {t}
  /\ watchdog' = [watchdog EXCEPT ![owner[t]] = t]
  /\ UNCHANGED <<screen, store, queue, lastId, service, locks, owner, ticking, overtaken>>

\* A file or the device cannot be opened.
OpenFails(t) ==
  /\ thread[t] = "open"
  /\ thread' = [thread EXCEPT ![t] = "finally"]
  /\ SetFinished
  /\ UNCHANGED <<screen, queue, lastId, service, locks, owner, dogs>>

EnterNative(t) ==
  /\ thread[t] = "open"
  /\ thread' = [thread EXCEPT ![t] = "native"]
  /\ UNCHANGED <<screen, store, queue, lastId, service, locks, owner, dogs>>

\* Defect: the native session ends without onFinished.
NativeReturnsSilently(t) ==
  /\ thread[t] = "native"
  /\ thread' = [thread EXCEPT ![t] = "finally"]
  /\ UNCHANGED <<screen, store, queue, lastId, service, locks, owner, dogs>>

\* run_usb_flash calls onFinished on every path before it returns; what it
\* throws ends in setFinished too.
NativeReturns(t) ==
  /\ thread[t] = "native"
  /\ thread' = [thread EXCEPT ![t] = "finally"]
  /\ SetFinished
  /\ UNCHANGED <<screen, queue, lastId, service, locks, owner, dogs>>

\* Defect: the finally block does not stop the watchdog.
FinallyKeepsWatchdog(t) ==
  /\ thread[t] = "finally"
  /\ thread' = [thread EXCEPT ![t] = "leaving"]
  /\ foreground' = (foreground /\ ~Mine(t))
  /\ UNCHANGED <<screen, store, queue, lastId, alive, destroying, inst, session, locks, owner, dogs>>

\* The finally block begins: stopWatchdog, cleanupForeground.
Finally(t) ==
  /\ thread[t] = "finally"
  /\ thread' = [thread EXCEPT ![t] = "leaving"]
  /\ StopWatchdog(owner[t])
  /\ overtaken' = IF ticking = t THEN overtaken \cup {t} ELSE overtaken
  /\ foreground' = (foreground /\ ~Mine(t))
  /\ UNCHANGED <<screen, store, queue, lastId, alive, destroying, inst, session, locks, owner, ticking>>

\* releaseWakeLock, which reads the field of the service object three times: is
\* there a lock?
FindLock(t) ==
  /\ thread[t] = "leaving" /\ wakeLock[owner[t]] # 0
  /\ thread' = [thread EXCEPT ![t] = "releasing"]
  /\ UNCHANGED <<screen, store, queue, lastId, service, locks, owner, dogs>>

\* Release the lock that is there; an exception, for one that is gone, is dropped.
ReleaseLock(t) ==
  /\ thread[t] = "releasing"
  /\ thread' = [thread EXCEPT ![t] = "clearing"]
  /\ held' = held \ {wakeLock[owner[t]]}
  /\ UNCHANGED <<screen, store, queue, lastId, service, wakeLock, owner, dogs>>

\* The end of the thread: stopSelf(startId).
Leave(t) ==
  /\ thread' = [thread EXCEPT ![t] = "done"]
  /\ destroying' = (destroying \/ (Mine(t) /\ StopSelf(t)))
  /\ UNCHANGED <<screen, store, queue, lastId, alive, inst, session, foreground, owner, dogs>>

\* Clear the field, or, without a lock, leave it.
ClearLock(t) ==
  \/ /\ thread[t] = "leaving" /\ wakeLock[owner[t]] = 0
     /\ Leave(t) /\ UNCHANGED locks
  \/ /\ thread[t] = "clearing"
     /\ Leave(t) /\ wakeLock' = [wakeLock EXCEPT ![owner[t]] = 0] /\ UNCHANGED held

-----------------------------------------------------------------------------
Handlers == OnPlain \/ OnCancel \/ OnStartRejected \/ OnStartNotPromoted \/ OnStart \/ OnDestroy

ThreadStep(t) ==
  \/ StartWatchdog(t) \/ OpenFails(t) \/ EnterNative(t) \/ NativeReturns(t)
  \/ Finally(t) \/ FindLock(t) \/ ReleaseLock(t) \/ ClearLock(t)

\* What the main thread has begun it ends before the next message.
MainEnds(t) == AcquireLock(t) \/ TickAgain(t) \/ TickFires(t)

SessionNext ==
  \/ LooperFree /\ (StartFlash \/ CancelFlash \/ ObserveFinished \/ Reopen \/ Detach)
  \/ LooperFree /\ Handlers
  \/ \E t \in Ids : (LooperFree /\ TickBegin(t)) \/ MainEnds(t) \/ ThreadStep(t)

SessionSpec == SessionInit /\ [][SessionNext]_sessionVars

\* Threads run, and what the main thread has begun ends.  The native session returns:
\* its transfers end, or the device is unplugged.
FairThreads ==
  /\ \A t \in Ids : WF_sessionVars(ThreadStep(t))
  /\ WF_sessionVars(\E t \in Ids : MainEnds(t))

\* No flash that runs on the thread's service object pings its watchdogs.
Unpinged(t) == \A u \in Running : owner[u] # owner[t]

\* The main looper takes commands, values and callbacks in the order in which they
\* become due, so none of them waits for ever while others come and go.  A watchdog
\* that nobody pings finds, at one of its ticks, that its time is up.
FairLooper ==
  /\ SF_sessionVars(LooperFree /\ ObserveFinished) /\ SF_sessionVars(LooperFree /\ Handlers)
  /\ SF_sessionVars(LooperFree /\ \E t \in Ids : TickBegin(t))
  /\ SF_sessionVars(\E t \in Ids : Unpinged(t) /\ TickFires(t))

FairSession == SessionSpec /\ FairThreads /\ FairLooper

-----------------------------------------------------------------------------
Command == [kind : {"start", "cancel", "plain"}, id : Ids]
ThreadStates ==
  {"none", "starting", "new", "open", "native", "finally", "leaving", "releasing", "clearing", "done"}

\* The type of every variable; a service object that is gone holds nothing.
SessionTypes ==
  /\ inProgress \in BOOLEAN /\ reopens \in 0 .. MaxReopens
  /\ posted \in BOOLEAN /\ sessionActive \in BOOLEAN
  /\ queue \in Seq(Command) /\ lastId \in 0 .. MaxSends
  /\ alive \in BOOLEAN /\ destroying \in BOOLEAN /\ session \in BOOLEAN
  /\ foreground \in BOOLEAN
  /\ inst \in 0 .. MaxSends
  /\ wakeLock \in [Ids -> {0} \cup Ids] /\ held \subseteq Ids
  /\ thread \in [Ids -> ThreadStates]
  /\ owner \in [Ids -> 0 .. MaxSends]
  /\ watched \subseteq Ids /\ watchdog \in [Ids -> {0} \cup Ids]
  /\ ticking \in {0} \cup Ids /\ overtaken \subseteq Ids
  /\ ~alive => ~(destroying \/ session \/ foreground)

\* Two sessions, one after the other or side by side, had the same service object.
Shared(t) == \E u \in Ids \ {t} : owner[u] = owner[t]

\* The service does not outlive the work: when no command is under way and no
\* thread runs, it is gone, with its notification.
ServiceEndsWithWork ==
  queue = << >> /\ ~destroying /\ (\A t \in Ids : thread[t] \in {"none", "done"})
    => ~alive /\ ~foreground

\* A wake lock does not outlive the session it was made for, nor the service object
\* that made it.  Only where a second session was accepted while the first one ended
\* may it: the thread of the first clears the field that holds the lock of the second.
LocksEnd ==
  \A l \in held : thread[l] = "done" \/ owner[l] # inst \/ ~alive => Shared(l)

\* A service object goes with its work, and its wake lock with it.
ServiceSound == SessionTypes /\ ServiceEndsWithWork /\ LocksEnd

\* A session's watchdog goes with it, unless two sessions shared one service object
\* and so one watchdog field, or the watchdog was running when the session stopped it:
\* then it posts itself again.
WatchdogEnds ==
  \A t \in watched : thread[t] \in {"leaving", "releasing", "clearing", "done"} =>
    Shared(t) \/ t \in overtaken

\* Watchdogs that outlive their sessions end by themselves: each fires, for nobody.
StrayWatchdogEnds == <>[](Running = {}) => <>[](watched = {} /\ ticking = 0)

\* The screen's flag keeps two flashes apart as long as that screen lives: a
\* cancel leaves the session running, but does not lower the flag.
OneSessionPerScreen == reopens = 0 => Cardinality(Running) <= 1

\* Whatever is cancelled, unplugged, timed out or started meanwhile, a session
\* that was accepted ends with a screen that takes the next start.
AcceptedAnswered == Running # {} ~> ~inProgress

\* A flash that was accepted comes to its end with all that belongs to it: its screen
\* has an answer, and no watchdog goes on.
FlashSettles == AcceptedAnswered /\ StrayWatchdogEnds

-----------------------------------------------------------------------------
\* "Prevent a double start", "session cancelled, new session started": one flash
\* runs at a time.
OneSession == Cardinality(Running) <= 1
=============================================================================
