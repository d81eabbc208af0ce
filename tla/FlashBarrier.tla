---------------------------- MODULE FlashBarrier ----------------------------
(***************************************************************************)
(* protocol/odin/group_flasher.cpp, the flashing step of flash(): one      *)
(* coordinator cuts every image into windows and packets and publishes one *)
(* Step at a time in the shared variable cur; one worker thread per device *)
(* copies the step and performs it on its device.  They meet twice per     *)
(* step at a std::barrier of ndevs + 1 threads: cur has no other guard,    *)
(* and the packet data a step points at lies in a prefetcher slot that the *)
(* coordinator leases.                                                     *)
(*                                                                         *)
(* The prefetcher is used through its contract (module WindowStream): the  *)
(* next window in order, or an answer that the image cannot be read.       *)
(***************************************************************************)
EXTENDS Naturals, Sequences, FiniteSets

CONSTANTS
  Devices,       \* the devices still active when the step starts
  Coordinator,   \* the thread that calls flash()
  Shape          \* Shape[i][w]: packets of window w of item i

ASSUME DevicesAssumption == IsFiniteSet(Devices) /\ Devices # {}
ASSUME CoordinatorAssumption == Coordinator \notin Devices
ASSUME ShapeAssumption ==
  /\ Shape \in Seq(Seq(Nat \ {0}))
  /\ \A i \in 1 .. Len(Shape) : Shape[i] # <<>>

VARIABLES
  cur,           \* cur: the step shared by all threads
  waiting,       \* threads blocked in sync.arrive_and_wait()
  wpc,           \* where each worker is
  mine,          \* each worker's copy s of the step
  dead,          \* dead[i]
  failedCount,   \* failed_count
  acked,         \* device: the last step it performed
  cpc,           \* where the coordinator is
  cont,          \* where the coordinator goes on after emit
  item, win, pkt,  \* its loop counters
  lease,         \* whether it holds the lease of window win
  itemsDone,     \* on_item_done calls
  berr,          \* berr.e.has_value()
  srcErr         \* the coordinator lambda returned an error

workerVars == <<wpc, mine, dead, failedCount, acked>>
coordVars  == <<cur, cpc, cont, item, win, pkt, lease, itemsDone, srcErr>>
vars       == <<waiting, workerVars, coordVars, berr>>

Threads     == Devices \cup {Coordinator}
Items       == 1 .. Len(Shape)
Windows(i)  == 1 .. Len(Shape[i])
LastWin(i)  == Len(Shape[i])

\* Defect: the first failure stops the transfer for every device.
AnyFailed == failedCount > 0

\* failed_count.load() >= ndevs.
AllFailed == failedCount >= Cardinality(Devices)

\* Struct Step: what to do, and for which window and packet.
StepRec(op, i, w, p) == [op |-> op, item |-> i, win |-> w, pkt |-> p]
Quit  == StepRec("Quit", 0, 0, 0)
Start == StepRec("Start", 0, 0, 0)   \* what a device has done before any step

Init ==
  /\ cur = Quit /\ waiting = {}
  /\ wpc = [d \in Devices |-> "enter"]
  /\ mine = [d \in Devices |-> Quit]
  /\ dead = [d \in Devices |-> FALSE]
  /\ failedCount = 0
  /\ acked = [d \in Devices |-> Start]
  /\ cpc = "item" /\ cont = "item"
  /\ item = 1 /\ win = 0 /\ pkt = 0
  /\ lease = FALSE /\ itemsDone = 0
  /\ berr = FALSE /\ srcErr = FALSE

(***************************************************************************)
(* sync.arrive_and_wait(): the last of the ndevs + 1 threads to arrive     *)
(* releases the others; a thread in waiting takes no step.                 *)
(***************************************************************************)
\* Defect: the barrier is built for the workers only.
ArriveWithoutCoordinator(t) ==
  /\ t \notin waiting
  /\ waiting' = IF Cardinality(waiting \cup {t}) = Cardinality(Devices)
                  THEN {} ELSE waiting \cup {t}

Arrive(t) ==
  /\ t \notin waiting
  /\ waiting' = IF waiting \cup {t} = Threads THEN {} ELSE waiting \cup {t}

(***************************************************************************)
(* A worker: barrier, copy cur, perform, barrier.                          *)
(***************************************************************************)
WorkerEnter(d) ==
  /\ wpc[d] = "enter"
  /\ Arrive(d)
  /\ wpc' = [wpc EXCEPT ![d] = "copy"]
  /\ UNCHANGED <<mine, dead, failedCount, acked, coordVars, berr>>

\* Defect: a device that failed is driven on (dead_local is not looked at).
WorkerCopyIgnoresDead(d) ==
  /\ wpc[d] = "copy" /\ d \notin waiting
  /\ mine' = [mine EXCEPT ![d] = cur]
  /\ wpc' = [wpc EXCEPT ![d] = IF cur.op = "Quit" THEN "leave" ELSE "exec"]
  /\ UNCHANGED <<waiting, dead, failedCount, acked, coordVars, berr>>

WorkerCopy(d) ==
  /\ wpc[d] = "copy" /\ d \notin waiting
  /\ mine' = [mine EXCEPT ![d] = cur]
  /\ wpc' = [wpc EXCEPT ![d] = IF cur.op = "Quit" \/ dead[d] THEN "leave" ELSE "exec"]
  /\ UNCHANGED <<waiting, dead, failedCount, acked, coordVars, berr>>

\* exec succeeds: the device has performed the step.
WorkerOk(d) ==
  /\ wpc[d] = "exec"
  /\ acked' = [acked EXCEPT ![d] = mine[d]]
  /\ wpc' = [wpc EXCEPT ![d] = "leave"]
  /\ UNCHANGED <<waiting, mine, dead, failedCount, coordVars, berr>>

\* exec fails: the device is dead, the error is recorded, DEVFAIL is emitted.
WorkerFail(d) ==
  /\ wpc[d] = "exec"
  /\ dead' = [dead EXCEPT ![d] = TRUE]
  /\ failedCount' = failedCount + 1
  /\ berr' = TRUE
  /\ wpc' = [wpc EXCEPT ![d] = "leave"]
  /\ UNCHANGED <<waiting, mine, acked, coordVars>>

\* Defect: a worker whose device died leaves without the second barrier.
WorkerLeaveAbandons(d) ==
  /\ wpc[d] = "leave"
  /\ IF dead[d] THEN UNCHANGED waiting ELSE Arrive(d)
  /\ wpc' = [wpc EXCEPT ![d] = IF mine[d].op = "Quit" \/ dead[d] THEN "exit" ELSE "enter"]
  /\ UNCHANGED <<mine, dead, failedCount, acked, coordVars, berr>>

WorkerLeave(d) ==
  /\ wpc[d] = "leave"
  /\ Arrive(d)
  /\ wpc' = [wpc EXCEPT ![d] = IF mine[d].op = "Quit" THEN "exit" ELSE "enter"]
  /\ UNCHANGED <<mine, dead, failedCount, acked, coordVars, berr>>

(***************************************************************************)
(* The coordinator.                                                        *)
(***************************************************************************)

\* emit(s), first line; the two barriers are EmitOpen and EmitClose.
Emit(s, k) ==
  /\ cur' = s
  /\ cont' = k
  /\ cpc' = "open"

EmitOpen ==
  /\ cpc = "open"
  /\ Arrive(Coordinator)
  /\ cpc' = "close"
  /\ UNCHANGED <<workerVars, cur, cont, item, win, pkt, lease, itemsDone, srcErr, berr>>

EmitClose ==
  /\ cpc = "close"
  /\ Arrive(Coordinator)
  /\ cpc' = cont
  /\ UNCHANGED <<workerVars, cur, cont, item, win, pkt, lease, itemsDone, srcErr, berr>>

\* The coordinator is at location l and not held up at the barrier.
At(l) == cpc = l /\ Coordinator \notin waiting

\* Top of the loop over the items, source opened.
NextItem ==
  /\ At("item")
  /\ item \in Items /\ ~AllFailed
  /\ cpc' = "next" /\ win' = 0
  /\ UNCHANGED <<waiting, workerVars, cur, cont, item, pkt, lease, itemsDone, srcErr, berr>>

\* No item left, or no device left: tell the workers to quit.
EndItems ==
  /\ At("item")
  /\ item \notin Items \/ AllFailed
  /\ Emit(Quit, "join")
  /\ UNCHANGED <<waiting, workerVars, item, win, pkt, lease, itemsDone, srcErr, berr>>

\* The source cannot be opened, or the prefetcher reports an error: the lambda
\* returns it, its destructors free the lease, and the workers are told to quit.
SourceFails ==
  /\ \/ At("item") /\ item \in Items /\ ~AllFailed
     \/ At("next") /\ win < LastWin(item)
     \/ At("release") /\ AllFailed /\ win < LastWin(item)
  /\ berr' = TRUE /\ srcErr' = TRUE
  /\ lease' = FALSE
  /\ Emit(Quit, "join")
  /\ UNCHANGED <<waiting, workerVars, item, win, pkt, itemsDone>>

\* Defect: the lease is a temporary, gone when the window begins.
BeginWindowTemporaryLease ==
  /\ At("next") /\ ~AllFailed
  /\ win < LastWin(item)
  /\ win' = win + 1
  /\ pkt' = 0
  /\ lease' = FALSE
  /\ Emit(StepRec("Begin", item, win + 1, 0), "data")
  /\ UNCHANGED <<waiting, workerVars, item, itemsDone, srcErr, berr>>

\* send_prefetched, top of its loop: lease the next window and begin it.
BeginWindow ==
  /\ At("next") /\ ~AllFailed
  /\ win < LastWin(item)
  /\ win' = win + 1
  /\ pkt' = 0
  /\ lease' = TRUE
  /\ Emit(StepRec("Begin", item, win + 1, 0), "data")
  /\ UNCHANGED <<waiting, workerVars, item, itemsDone, srcErr, berr>>

SendPacket ==
  /\ At("data") /\ ~AllFailed
  /\ pkt < Shape[item][win]
  /\ pkt' = pkt + 1
  /\ Emit(StepRec("Data", item, win, pkt + 1), "data")
  /\ UNCHANGED <<waiting, workerVars, item, win, lease, itemsDone, srcErr, berr>>

EndWindow ==
  /\ At("data")
  /\ AllFailed \/ pkt = Shape[item][win]
  /\ Emit(StepRec("End", item, win, 0), "release")
  /\ UNCHANGED <<waiting, workerVars, item, win, pkt, lease, itemsDone, srcErr, berr>>

\* The lease goes out of scope; after the last window the item is done.
ReleaseWindow ==
  /\ At("release")
  /\ lease' = FALSE
  /\ IF win = LastWin(item) \/ AllFailed
       THEN cpc' = "item" /\ item' = item + 1 /\ itemsDone' = itemsDone + 1
       ELSE cpc' = "next" /\ UNCHANGED <<item, itemsDone>>
  /\ UNCHANGED <<waiting, workerVars, cur, cont, win, pkt, srcErr, berr>>

\* join() of every worker, and the step returns its (always empty) status.
JoinWorkers ==
  /\ At("join")
  /\ \A d \in Devices : wpc[d] = "exit" /\ d \notin waiting
  /\ cpc' = "returned"
  /\ UNCHANGED <<waiting, workerVars, cur, cont, item, win, pkt, lease, itemsDone, srcErr, berr>>

Terminated == cpc = "returned" /\ UNCHANGED vars

Worker(d) ==
  WorkerEnter(d) \/ WorkerCopy(d) \/ WorkerOk(d) \/ WorkerFail(d) \/ WorkerLeave(d)

Coord ==
  \/ EmitOpen \/ EmitClose
  \/ NextItem \/ EndItems \/ SourceFails
  \/ BeginWindow \/ SendPacket \/ EndWindow \/ ReleaseWindow
  \/ JoinWorkers

Next == Coord \/ (\E d \in Devices : Worker(d)) \/ Terminated

Spec == Init /\ [][Next]_vars

\* Every thread keeps running: a transfer ends with an answer or a timeout.
FairSpec == Spec /\ WF_vars(Coord) /\ \A d \in Devices : WF_vars(Worker(d))

-----------------------------------------------------------------------------
(***************************************************************************)
(* Properties.                                                             *)
(***************************************************************************)

Steps == {Quit, Start} \cup
  [op : {"Begin", "Data", "End"}, item : Nat, win : Nat, pkt : Nat]

\* Every variable has its type; the thread locations are those of the code.
TypeOK ==
  /\ cur \in Steps /\ waiting \subseteq Threads
  /\ wpc \in [Devices -> {"enter", "copy", "exec", "leave", "exit"}]
  /\ mine \in [Devices -> Steps] /\ acked \in [Devices -> Steps]
  /\ dead \in [Devices -> BOOLEAN] /\ failedCount \in Nat
  /\ cpc \in {"item", "next", "data", "release", "open", "close", "join", "returned"}
  /\ cont \in {"item", "data", "release", "join"}
  /\ item \in Nat /\ win \in Nat /\ pkt \in Nat /\ itemsDone \in Nat
  /\ lease \in BOOLEAN /\ berr \in BOOLEAN /\ srcErr \in BOOLEAN

\* The coordinator is deciding what comes next, outside emit.
Deciding == cpc \notin {"open", "close"} /\ Coordinator \notin waiting

\* The coordinator is between the two barriers of emit, or blocked in the second.
MidStep == (cpc = "close") = (Coordinator \notin waiting) /\ cpc # "open"

\* A worker that is past the first barrier of a step works on the step that
\* was issued, and the coordinator decides on another one only when every
\* live device has performed it and every worker is on its way to the next.
Lockstep ==
  /\ \A d \in Devices :
       wpc[d] = "exec" => MidStep /\ mine[d] = cur
  /\ Deciding /\ cpc \in {"data", "release"} =>
       \A d \in Devices :
         /\ wpc[d] = "enter" \/ (wpc[d] = "copy" /\ d \in waiting)
         /\ dead[d] \/ acked[d] = cur

\* The packet a worker sends lies in the slot the coordinator leases: the
\* window is not given back to the reader thread while a worker reads it.
LeaseCoversReads ==
  \A d \in Devices :
    wpc[d] = "exec" /\ mine[d].op = "Data" =>
      /\ lease
      /\ mine[d].item = item /\ mine[d].win = win

\* What a device may be asked after step s of the download protocol.
Follows(s, t) ==
  \/ /\ s.op \in {"Start", "End"}
     /\ t = IF s.op = "Start"           THEN StepRec("Begin", 1, 1, 0)
            ELSE IF s.win < LastWin(s.item) THEN StepRec("Begin", s.item, s.win + 1, 0)
            ELSE StepRec("Begin", s.item + 1, 1, 0)
  \/ /\ s.op \in {"Begin", "Data"}
     /\ s.pkt < Shape[s.item][s.win]
     /\ t = StepRec("Data", s.item, s.win, s.pkt + 1)
  \/ /\ s.op = "Data"
     /\ s.pkt = Shape[s.item][s.win]
     /\ t = StepRec("End", s.item, s.win, 0)

\* Each device performs the steps of the download in the order of the protocol:
\* no packet skipped, repeated or sent outside its window, no window ended
\* before its last packet, no item begun before the last one ended; and a
\* device that failed once performs nothing more.
DevicesFollowProtocol ==
  [][\A d \in Devices : acked'[d] # acked[d] =>
       ~dead[d] /\ Follows(acked[d], acked'[d])]_vars

\* The last step of the whole download.
Final == IF Shape = <<>> THEN Start
         ELSE StepRec("End", Len(Shape), LastWin(Len(Shape)), 0)

\* A device that is alive when the step returns has received every item to the
\* end, unless the coordinator failed to read a source; the failures counted
\* are the devices that died, and each left an error behind.
ReturnedComplete ==
  cpc = "returned" =>
    /\ \A d \in Devices : dead[d] \/ srcErr \/ acked[d] = Final
    /\ failedCount = Cardinality({d \in Devices : dead[d]})
    /\ failedCount > 0 => berr

\* The progress list marks an item done only when a device has received it
\* completely or none is left to receive it.
ItemDoneIsTrue ==
  itemsDone > 0 =>
    \/ \A d \in Devices : dead[d]
    \/ \A d \in Devices : ~dead[d] =>
         \/ acked[d].item > itemsDone
         \/ acked[d].item = itemsDone /\ acked[d].win = LastWin(itemsDone)
                                      /\ acked[d].op = "End"

\* What the step tells its caller and the progress list is what the devices
\* have received.
ReportsAreTrue == ReturnedComplete /\ ItemDoneIsTrue

\* Whatever fails, no thread is left behind at the barrier: the step returns.
FlashStepReturns == <>(cpc = "returned")
=============================================================================
