------------------------- MODULE FlashBarrierProofs -------------------------
(***************************************************************************)
(* Proofs about FlashBarrier, for every finite set of devices and every    *)
(* shape of the images: the threads stay in step, no worker reads a window *)
(* that was given back, the devices are sent the steps of the protocol in  *)
(* order, and what is reported at the end is true.                         *)
(*                                                                         *)
(* Between two passages of the barrier the threads gather for the first    *)
(* barrier of a step (Open) or for the second one (Close); after the step  *)
(* Quit there is no barrier any more (Over).                               *)
(***************************************************************************)
EXTENDS FlashBarrier, FiniteSetTheorems, TLAPS

\* Everybody is before the first barrier of a step.
Open ==
  /\ \A d \in Devices : /\ wpc[d] \in {"enter", "copy"}
                        /\ d \in waiting <=> wpc[d] = "copy"
  /\ cpc \in {"item", "next", "data", "release", "open", "close"}
  /\ Coordinator \in waiting <=> cpc = "close"
  /\ cpc \in {"open", "close"} => cont \in {"data", "release", "join"}
  /\ cpc \in {"data", "release"} => \A d \in Devices : dead[d] \/ acked[d] = cur

\* What worker d has done with the step cur when it is past the first barrier.
Stage(d) ==
  /\ wpc[d] # "copy" => mine[d] = cur
  /\ wpc[d] = "exec" => cur.op # "Quit"
  /\ wpc[d] = "enter" => cur.op # "Quit"
  /\ wpc[d] = "exit" => cur.op = "Quit"
  /\ wpc[d] \in {"leave", "enter"} /\ cur.op # "Quit" => dead[d] \/ acked[d] = cur

\* Everybody is before the second barrier of a step.
Close ==
  /\ \A d \in Devices : /\ d \in waiting <=> wpc[d] \in {"enter", "exit"}
                        /\ Stage(d)
  /\ Coordinator \in waiting <=> cpc # "close"
  /\ cpc \in {"close", cont} /\ cont \in {"data", "release", "join"}

\* The workers are gone.
Over ==
  /\ waiting = {} /\ \A d \in Devices : wpc[d] = "exit"
  /\ cpc \in {"join", "returned"}

\* Nobody waits at a barrier that is complete; the coordinator joins the workers
\* after Quit and after nothing else.
Beat ==
  /\ waiting # Threads
  /\ Open \/ Close \/ Over
  /\ cpc \in {"open", "close"} => (cont = "join" <=> cur.op = "Quit")
  /\ cpc \in {"data", "release"} => cur.op # "Quit"
  /\ cpc = "join" => cur.op = "Quit"

\* From the start of a window to its end the coordinator holds the lease of the
\* window that the step cur is about.
Leased ==
  cpc \in {"open", "close", "data", "release"} /\ cur.op # "Quit" =>
    lease /\ cur.item = item /\ cur.win = win

IInv == TypeOK /\ Beat /\ Leased

-----------------------------------------------------------------------------
LEMMA CoordinatorIsNoDevice == Coordinator \in Threads /\ Coordinator \notin Devices
BY CoordinatorAssumption DEF Threads

\* Arriving either completes the barrier and frees everybody, or adds a thread.
LEMMA ArriveSplits ==
  ASSUME TypeOK, NEW t \in Threads, Arrive(t)
  PROVE  /\ t \notin waiting /\ waiting' # Threads /\ waiting' \subseteq Threads
         /\ \/ waiting' = {} /\ \A u \in Threads : u \in waiting \/ u = t
            \/ waiting' = waiting \cup {t}
BY CoordinatorIsNoDevice DEF Arrive, TypeOK

-----------------------------------------------------------------------------
(***************************************************************************)
(* Type correctness.                                                       *)
(***************************************************************************)
LEMMA StepsTyped ==
  /\ Quit \in Steps /\ Start \in Steps
  /\ \A op \in {"Begin", "Data", "End"}, i, w, p \in Nat : StepRec(op, i, w, p) \in Steps
BY DEF Quit, Start, StepRec, Steps

LEMMA InitTyped == Init => TypeOK
<1> SUFFICES ASSUME Init PROVE TypeOK
  OBVIOUS
<1>1. dead \in [Devices -> BOOLEAN]
  BY DEF Init
<1>2. cur \in Steps /\ mine \in [Devices -> Steps] /\ acked \in [Devices -> Steps]
  BY StepsTyped DEF Init
<1>3. lease \in BOOLEAN /\ berr \in BOOLEAN /\ srcErr \in BOOLEAN
  BY DEF Init
<1> QED BY <1>1, <1>2, <1>3 DEF Init, TypeOK

LEMMA WorkerTyped ==
  ASSUME TypeOK, NEW d \in Devices, Worker(d)
  PROVE  TypeOK'
<1>1. d \in Threads
  BY DEF Threads
<1>2. CASE WorkerEnter(d)
  <2>1. Arrive(d)
    BY <1>2 DEF WorkerEnter
  <2>2. waiting' \subseteq Threads
    BY <1>1, <2>1, ArriveSplits
  <2> QED BY <1>2, <2>2 DEF WorkerEnter, TypeOK, coordVars
<1>3. CASE WorkerCopy(d)
  <2>1. wpc' \in [Devices -> {"enter", "copy", "exec", "leave", "exit"}]
    BY <1>3 DEF WorkerCopy, TypeOK
  <2>2. mine' \in [Devices -> Steps]
    BY <1>3 DEF WorkerCopy, TypeOK
  <2> QED BY <1>3, <2>1, <2>2 DEF WorkerCopy, TypeOK, coordVars
<1>4. CASE WorkerOk(d)
  BY <1>4 DEF WorkerOk, TypeOK, coordVars
<1>5. CASE WorkerFail(d)
  BY <1>5 DEF WorkerFail, TypeOK, coordVars
<1>6. CASE WorkerLeave(d)
  <2>1. Arrive(d)
    BY <1>6 DEF WorkerLeave
  <2>2. waiting' \subseteq Threads
    BY <1>1, <2>1, ArriveSplits
  <2>3. wpc' \in [Devices -> {"enter", "copy", "exec", "leave", "exit"}]
    BY <1>6 DEF WorkerLeave, TypeOK
  <2> QED BY <1>6, <2>2, <2>3 DEF WorkerLeave, TypeOK, coordVars
<1> QED BY <1>2, <1>3, <1>4, <1>5, <1>6 DEF Worker

LEMMA CoordTyped ==
  ASSUME TypeOK, Coord
  PROVE  TypeOK'
<1>1. CASE EmitOpen
  <2>1. waiting' \subseteq Threads
    BY <1>1, CoordinatorIsNoDevice, ArriveSplits DEF EmitOpen
  <2> QED BY <1>1, <2>1 DEF EmitOpen, TypeOK, workerVars
<1>2. CASE EmitClose
  <2>1. waiting' \subseteq Threads
    BY <1>2, CoordinatorIsNoDevice, ArriveSplits DEF EmitClose
  <2> QED BY <1>2, <2>1 DEF EmitClose, TypeOK, workerVars
<1>3. CASE NextItem
  BY <1>3 DEF NextItem, TypeOK, workerVars
<1>4. CASE EndItems
  BY <1>4, StepsTyped DEF EndItems, Emit, TypeOK, workerVars
<1>5. CASE SourceFails
  BY <1>5, StepsTyped DEF SourceFails, Emit, TypeOK, workerVars
<1>6. CASE BeginWindow
  <2>1. cur' \in Steps
    BY <1>6, StepsTyped DEF BeginWindow, Emit, TypeOK
  <2> QED BY <1>6, <2>1 DEF BeginWindow, Emit, TypeOK, workerVars
<1>7. CASE SendPacket
  <2>1. cur' \in Steps
    BY <1>7, StepsTyped DEF SendPacket, Emit, TypeOK
  <2> QED BY <1>7, <2>1 DEF SendPacket, Emit, TypeOK, workerVars
<1>8. CASE EndWindow
  <2>1. cur' \in Steps
    BY <1>8, StepsTyped DEF EndWindow, Emit, TypeOK
  <2> QED BY <1>8, <2>1 DEF EndWindow, Emit, TypeOK, workerVars
<1>9. CASE ReleaseWindow
  <2>1. itemsDone' \in Nat /\ item' \in Nat /\ cpc' \in {"item", "next"} /\ lease' = FALSE
    BY <1>9 DEF ReleaseWindow, TypeOK
  <2> QED BY <1>9, <2>1 DEF ReleaseWindow, TypeOK, workerVars
<1>10. CASE JoinWorkers
  BY <1>10 DEF JoinWorkers, TypeOK, workerVars
<1> QED
  BY <1>1, <1>2, <1>3, <1>4, <1>5, <1>6, <1>7, <1>8, <1>9, <1>10 DEF Coord

\* A step of any thread keeps the types.
LEMMA NextTyped ==
  ASSUME TypeOK, [Next]_vars
  PROVE  TypeOK'
<1>1. CASE UNCHANGED vars
  BY <1>1 DEF vars, workerVars, coordVars, TypeOK
<1>2. CASE Terminated
  BY <1>2 DEF Terminated, vars, workerVars, coordVars, TypeOK
<1> QED BY <1>1, <1>2, WorkerTyped, CoordTyped DEF Next

-----------------------------------------------------------------------------
(***************************************************************************)
(* The beat of the barrier.                                                *)
(***************************************************************************)
LEMMA InitBeat == Init => Beat /\ Leased
BY CoordinatorIsNoDevice DEF Init, Beat, Leased, Open, Quit, StepRec

\* The coordinator completes the first barrier of a step, or waits at it.
LEMMA EmitOpenBeat ==
  ASSUME IInv, EmitOpen
  PROVE  Beat' /\ Leased'
<1>1. Open /\ Coordinator \notin waiting
  BY DEF IInv, Beat, Open, Close, Over, EmitOpen
<1>2. /\ waiting' # Threads
      /\ \/ waiting' = {} /\ \A d \in Devices : d \in waiting
         \/ waiting' = waiting \cup {Coordinator}
  BY CoordinatorIsNoDevice, ArriveSplits DEF EmitOpen, IInv, Threads
<1>3. /\ cpc' = "close" /\ cont' = cont /\ cur' = cur /\ wpc' = wpc /\ mine' = mine
      /\ dead' = dead /\ acked' = acked
      /\ cont \in {"data", "release", "join"} /\ (cont = "join" <=> cur.op = "Quit")
  BY <1>1 DEF EmitOpen, workerVars, IInv, Beat, Open
<1>4. CASE waiting' = {} /\ \A d \in Devices : d \in waiting
  <2>1. \A d \in Devices : wpc[d] = "copy"
    BY <1>1, <1>4 DEF Open
  <2>2. Close'
    BY <1>3, <1>4, <2>1 DEF Close, Stage
  <2> QED BY <1>2, <1>3, <2>2 DEF Beat, Leased, EmitOpen, IInv
<1>5. CASE waiting' = waiting \cup {Coordinator}
  <2>1. Open'
    BY <1>1, <1>3, <1>5, CoordinatorIsNoDevice DEF Open
  <2> QED BY <1>2, <1>3, <2>1 DEF Beat, Leased, EmitOpen, IInv
<1> QED BY <1>2, <1>4, <1>5

\* A worker completes the first barrier of a step, or waits at it.
LEMMA WorkerEnterBeat ==
  ASSUME IInv, NEW d \in Devices, WorkerEnter(d)
  PROVE  Beat' /\ Leased'
<1>1. Open /\ d \in Threads
  BY DEF IInv, Beat, Close, Over, WorkerEnter, Arrive, Threads
<1>2. /\ d \notin waiting /\ waiting' # Threads
      /\ \/ waiting' = {} /\ \A u \in Threads : u \in waiting \/ u = d
         \/ waiting' = waiting \cup {d}
  BY <1>1, ArriveSplits DEF WorkerEnter, IInv
<1>3. /\ cpc' = cpc /\ cont' = cont /\ cur' = cur /\ mine' = mine /\ dead' = dead
      /\ acked' = acked /\ wpc' = [wpc EXCEPT ![d] = "copy"]
  BY DEF WorkerEnter, coordVars
<1>4. wpc'[d] = "copy" /\ \A e \in Devices : e # d => wpc'[e] = wpc[e]
  BY <1>3 DEF IInv, TypeOK
<1>5. Leased'
  BY <1>3 DEF Leased, WorkerEnter, coordVars, IInv
<1>6. CASE waiting' = {} /\ \A u \in Threads : u \in waiting \/ u = d
  <2>1. Coordinator \in waiting
    BY <1>6, CoordinatorIsNoDevice
  <2>2. cpc = "close" /\ cont \in {"data", "release", "join"}
    BY <1>1, <2>1 DEF Open
  <2>3. \A e \in Devices : wpc'[e] = "copy"
    BY <1>1, <1>4, <1>6 DEF Open, Threads
  <2>4. Close'
    BY <1>3, <1>6, <2>2, <2>3 DEF Close, Stage
  <2> QED BY <1>2, <1>3, <1>5, <2>2, <2>4 DEF Beat, IInv
<1>7. CASE waiting' = waiting \cup {d}
  <2>1. \A e \in Devices : wpc'[e] \in {"enter", "copy"} /\ (e \in waiting' <=> wpc'[e] = "copy")
    BY <1>1, <1>2, <1>4, <1>7 DEF Open
  <2>2. Coordinator \in waiting' <=> Coordinator \in waiting
    BY <1>7, CoordinatorIsNoDevice
  <2>3. Open'
    BY <1>1, <1>3, <2>1, <2>2 DEF Open
  <2> QED BY <1>2, <1>3, <1>5, <2>3 DEF Beat, IInv
<1> QED BY <1>2, <1>6, <1>7

\* A step of a worker between the two barriers.
LEMMA WorkerWorkBeat ==
  ASSUME IInv, NEW d \in Devices, WorkerCopy(d) \/ WorkerOk(d) \/ WorkerFail(d)
  PROVE  Beat' /\ Leased'
<1>1. Close /\ d \notin waiting
  BY DEF IInv, Beat, Open, Close, Over, WorkerCopy, WorkerOk, WorkerFail
<1>2. /\ cpc' = cpc /\ cont' = cont /\ cur' = cur /\ waiting' = waiting
      /\ item' = item /\ win' = win /\ lease' = lease
  BY DEF WorkerCopy, WorkerOk, WorkerFail, coordVars
<1>3. \A e \in Devices : e # d =>
        wpc'[e] = wpc[e] /\ mine'[e] = mine[e] /\ dead'[e] = dead[e] /\ acked'[e] = acked[e]
  BY DEF WorkerCopy, WorkerOk, WorkerFail, IInv, TypeOK
<1>4. wpc'[d] \in {"exec", "leave"} /\ mine'[d] = cur /\ (wpc'[d] = "exec" => cur.op # "Quit")
  BY <1>1 DEF WorkerCopy, WorkerOk, WorkerFail, IInv, TypeOK, Close, Stage
<1>5. wpc'[d] = "leave" /\ cur.op # "Quit" => dead'[d] \/ acked'[d] = cur
  <2>1. CASE WorkerCopy(d)
    BY <2>1 DEF WorkerCopy, IInv, TypeOK
  <2>2. CASE WorkerOk(d)
    BY <1>1, <2>2 DEF WorkerOk, IInv, TypeOK, Close, Stage
  <2>3. CASE WorkerFail(d)
    BY <2>3 DEF WorkerFail, IInv, TypeOK
  <2> QED BY <2>1, <2>2, <2>3
<1>6. Stage(d)' /\ \A e \in Devices : e # d => Stage(e)'
  BY <1>1, <1>2, <1>3, <1>4, <1>5 DEF Stage, Close
<1>7. Close'
  BY <1>1, <1>2, <1>3, <1>4, <1>6 DEF Close
<1>8. Leased'
  BY <1>2 DEF Leased, IInv
<1> QED BY <1>2, <1>7, <1>8 DEF Beat, IInv

\* The last thread at the second barrier ends the step: every worker is gone, or
\* all threads are before the first barrier of the next step and every live
\* device has performed this one.
LEMMA StepEnds ==
  ASSUME IInv, Close, waiting' = {}, cur' = cur, cont' = cont, cpc' = cont,
         dead' = dead, acked' = acked, cont = "join" <=> cur.op = "Quit",
         \A e \in Devices : /\ wpc'[e] = IF cur.op = "Quit" THEN "exit" ELSE "enter"
                            /\ cur.op # "Quit" => dead[e] \/ acked[e] = cur
  PROVE  Beat'
<1>1. waiting' # Threads
  BY CoordinatorIsNoDevice
<1>2. CASE cur.op = "Quit"
  BY <1>1, <1>2 DEF Beat, Over
<1>3. CASE cur.op # "Quit"
  <2>1. cpc' \in {"data", "release"}
    BY <1>3 DEF Close
  <2>2. Open'
    BY <1>3, <2>1 DEF Open
  <2> QED BY <1>1, <1>3, <2>1, <2>2 DEF Beat
<1> QED BY <1>2, <1>3

\* A worker at the second barrier of a step.
LEMMA WorkerLeaveBeat ==
  ASSUME IInv, NEW d \in Devices, WorkerLeave(d)
  PROVE  Beat' /\ Leased'
<1>1. Close /\ d \in Threads
  BY DEF IInv, Beat, Open, Over, WorkerLeave, Threads
<1>2. /\ d \notin waiting /\ waiting' # Threads
      /\ \/ waiting' = {} /\ \A u \in Threads : u \in waiting \/ u = d
         \/ waiting' = waiting \cup {d}
  BY <1>1, ArriveSplits DEF WorkerLeave, IInv
<1>3. /\ cpc' = cpc /\ cont' = cont /\ cur' = cur /\ mine' = mine /\ dead' = dead
      /\ acked' = acked
  BY DEF WorkerLeave, coordVars
<1>4. /\ wpc'[d] = IF cur.op = "Quit" THEN "exit" ELSE "enter"
      /\ \A e \in Devices : e # d => wpc'[e] = wpc[e]
  BY <1>1 DEF WorkerLeave, IInv, TypeOK, Close, Stage
<1>5. mine[d] = cur /\ (cur.op # "Quit" => dead[d] \/ acked[d] = cur)
  BY <1>1 DEF WorkerLeave, Close, Stage
<1>6. Leased'
  BY <1>3 DEF Leased, WorkerLeave, coordVars, IInv
<1>7. CASE waiting' = {} /\ \A u \in Threads : u \in waiting \/ u = d
  <2>1. cpc = cont /\ cpc # "close"
    BY <1>1, <1>7, CoordinatorIsNoDevice DEF Close
  <2>2. cont = "join" <=> cur.op = "Quit"
    BY <1>1, <2>1 DEF IInv, Beat, Close
  <2>3. \A e \in Devices : e # d =>
          /\ wpc[e] = IF cur.op = "Quit" THEN "exit" ELSE "enter"
          /\ cur.op # "Quit" => dead[e] \/ acked[e] = cur
    BY <1>1, <1>7 DEF Close, Stage, Threads
  <2> QED BY <1>1, <1>3, <1>4, <1>5, <1>6, <1>7, <2>1, <2>2, <2>3, StepEnds
<1>8. CASE waiting' = waiting \cup {d}
  <2>1. Stage(d)' /\ \A e \in Devices : e # d => Stage(e)'
    BY <1>1, <1>3, <1>4, <1>5 DEF Stage, Close
  <2>2. \A e \in Devices : e \in waiting' <=> wpc'[e] \in {"enter", "exit"}
    BY <1>1, <1>4, <1>8 DEF Close
  <2>3. Coordinator \in waiting' <=> Coordinator \in waiting
    BY <1>8, CoordinatorIsNoDevice
  <2>4. Close'
    BY <1>1, <1>3, <2>1, <2>2, <2>3 DEF Close
  <2> QED BY <1>2, <1>3, <1>6, <2>4 DEF Beat, IInv
<1> QED BY <1>2, <1>7, <1>8

\* The coordinator at the second barrier of a step.
LEMMA EmitCloseBeat ==
  ASSUME IInv, EmitClose
  PROVE  Beat' /\ Leased'
<1>1. Close /\ Coordinator \notin waiting
  BY DEF IInv, Beat, Open, Close, Over, EmitClose, Arrive
<1>2. /\ waiting' # Threads
      /\ \/ waiting' = {} /\ \A d \in Devices : d \in waiting
         \/ waiting' = waiting \cup {Coordinator}
  BY CoordinatorIsNoDevice, ArriveSplits DEF EmitClose, IInv, Threads
<1>3. /\ cpc = "close" /\ cpc' = cont /\ cont' = cont /\ cur' = cur /\ wpc' = wpc
      /\ mine' = mine /\ dead' = dead /\ acked' = acked
      /\ cont \in {"data", "release", "join"} /\ (cont = "join" <=> cur.op = "Quit")
  BY <1>1 DEF EmitClose, workerVars, IInv, Beat, Close
<1>4. Leased'
  BY <1>3 DEF Leased, EmitClose, IInv
<1>5. CASE waiting' = {} /\ \A d \in Devices : d \in waiting
  <2>1. \A d \in Devices :
          /\ wpc[d] = IF cur.op = "Quit" THEN "exit" ELSE "enter"
          /\ cur.op # "Quit" => dead[d] \/ acked[d] = cur
    BY <1>1, <1>5 DEF Close, Stage
  <2> QED BY <1>1, <1>3, <1>4, <1>5, <2>1, StepEnds
<1>6. CASE waiting' = waiting \cup {Coordinator}
  <2>1. \A d \in Devices : Stage(d)' /\ (d \in waiting' <=> d \in waiting)
    BY <1>1, <1>3, <1>6, CoordinatorIsNoDevice DEF Stage, Close
  <2>2. Close'
    BY <1>1, <1>3, <1>6, <2>1 DEF Close
  <2> QED BY <1>2, <1>3, <1>4, <2>2 DEF Beat
<1> QED BY <1>2, <1>5, <1>6

\* What the coordinator decides between two steps.
LEMMA DecideBeat ==
  ASSUME IInv,
         \/ NextItem \/ EndItems \/ SourceFails
         \/ BeginWindow \/ SendPacket \/ EndWindow \/ ReleaseWindow
  PROVE  Beat' /\ Leased'
<1>1. cpc \in {"item", "next", "data", "release"} /\ Coordinator \notin waiting
  BY DEF NextItem, EndItems, SourceFails, BeginWindow, SendPacket, EndWindow,
         ReleaseWindow, At
<1>2. Open
  BY <1>1 DEF IInv, Beat, Close, Over
<1>3. /\ waiting' = waiting /\ wpc' = wpc /\ dead' = dead /\ acked' = acked
      /\ cpc' \in {"item", "next", "open"}
  BY DEF NextItem, EndItems, SourceFails, BeginWindow, SendPacket, EndWindow,
         ReleaseWindow, workerVars, Emit
<1>4. cpc' = "open" => /\ cont' \in {"data", "release", "join"}
                       /\ cont' = "join" <=> cur'.op = "Quit"
  BY DEF NextItem, EndItems, SourceFails, BeginWindow, SendPacket, EndWindow,
         ReleaseWindow, Emit, Quit, StepRec
<1>5. Open'
  BY <1>1, <1>2, <1>3, <1>4 DEF Open
<1>6. Leased'
  <2>1. CASE NextItem \/ ReleaseWindow
    <3>1. cpc' \in {"item", "next"}
      BY <2>1 DEF NextItem, ReleaseWindow
    <3> QED BY <3>1 DEF Leased
  <2>2. CASE EndItems \/ SourceFails
    <3>1. cur'.op = "Quit"
      BY <2>2 DEF EndItems, SourceFails, Emit, Quit, StepRec
    <3> QED BY <3>1 DEF Leased
  <2>3. CASE BeginWindow
    <3>1. lease' = TRUE /\ cur'.item = item' /\ cur'.win = win'
      BY <2>3 DEF BeginWindow, Emit, StepRec
    <3> QED BY <3>1 DEF Leased
  <2>4. CASE SendPacket \/ EndWindow
    <3>1. (cpc = "data" \/ cpc = "release") /\ cur.op # "Quit"
      BY <2>4 DEF SendPacket, EndWindow, At, IInv, Beat
    <3>2. lease
      BY <3>1 DEF Leased, IInv
    <3>3. lease' = lease /\ cur'.item = item' /\ cur'.win = win'
      BY <2>4 DEF SendPacket, EndWindow, Emit, StepRec
    <3> QED BY <3>2, <3>3 DEF Leased
  <2> QED BY <2>1, <2>2, <2>3, <2>4
<1> QED BY <1>3, <1>4, <1>5, <1>6 DEF Beat, IInv

LEMMA JoinBeat ==
  ASSUME IInv, JoinWorkers
  PROVE  Beat' /\ Leased'
<1>1. Over
  BY DEF IInv, Beat, Open, Close, JoinWorkers, At
<1>2. waiting' = waiting /\ wpc' = wpc /\ cpc' = "returned"
  BY DEF JoinWorkers, workerVars
<1> QED BY <1>1, <1>2 DEF Beat, Over, Leased, IInv

LEMMA NextInductive ==
  ASSUME IInv, [Next]_vars
  PROVE  IInv'
<1>1. TypeOK'
  BY NextTyped DEF IInv
<1>2. CASE UNCHANGED vars \/ Terminated
  <2>1. UNCHANGED vars
    BY <1>2 DEF Terminated
  <2>2. /\ (Open => Open') /\ (Close => Close') /\ (Over => Over') /\ (Leased => Leased')
    BY <2>1 DEF vars, workerVars, coordVars, Open, Close, Over, Stage, Leased
  <2>3. cpc' = cpc /\ cont' = cont /\ cur' = cur /\ waiting' = waiting
    BY <2>1 DEF vars, workerVars, coordVars
  <2>4. Beat'
    BY <2>2, <2>3 DEF IInv, Beat
  <2> QED BY <1>1, <2>2, <2>4 DEF IInv
<1>3. ASSUME NEW d \in Devices, Worker(d) PROVE Beat' /\ Leased'
  BY <1>3, WorkerEnterBeat, WorkerWorkBeat, WorkerLeaveBeat DEF Worker
<1>4. ASSUME Coord PROVE Beat' /\ Leased'
  BY <1>4, EmitOpenBeat, EmitCloseBeat, DecideBeat, JoinBeat DEF Coord
<1> QED BY <1>1, <1>2, <1>3, <1>4 DEF Next, IInv

\* The threads are always before, inside or behind one and the same step.
LEMMA BarrierInvariant == Spec => []IInv
<1>1. Init => IInv
  BY InitTyped, InitBeat DEF IInv
<1>2. IInv /\ [Next]_vars => IInv'
  BY NextInductive
<1> QED BY <1>1, <1>2, PTL DEF Spec

-----------------------------------------------------------------------------
(***************************************************************************)
(* What the devices have performed.                                        *)
(***************************************************************************)
\* The last step of item i.
ItemEnd(i) == IF i = 0 THEN Start ELSE StepRec("End", i, LastWin(i), 0)

\* The step of the protocol that comes before s.
Before(s) ==
  IF s.op = "Begin"
  THEN IF s.win = 1 THEN ItemEnd(s.item - 1) ELSE StepRec("End", s.item, s.win - 1, 0)
  ELSE IF s.op = "Data"
  THEN IF s.pkt = 1 THEN StepRec("Begin", s.item, s.win, 0)
                    ELSE StepRec("Data", s.item, s.win, s.pkt - 1)
  ELSE StepRec("Data", s.item, s.win, Shape[s.item][s.win])

\* A step of a window is published.
Issued == cpc \in {"open", "close", "data", "release"} /\ cur.op # "Quit"

\* Worker d has the step that was issued still to perform.
Ahead(d) ==
  \/ wpc[d] = "exec"
  \/ ~Deciding /\ (wpc[d] = "copy" \/ (wpc[d] = "enter" /\ d \notin waiting))

\* The failures counted are the devices that died, which perform nothing.
Dead == {d \in Devices : dead[d]}
Counted ==
  /\ failedCount = Cardinality(Dead)
  /\ failedCount > 0 => berr
  /\ \A d \in Devices : wpc[d] = "exec" => ~dead[d]

\* The loop counters of the coordinator say which step is published.
Place ==
  /\ item = itemsDone + 1
  /\ cpc = "item" => item <= Len(Shape) + 1
  /\ cpc = "next" => item \in Items /\ win < LastWin(item)
  /\ Issued =>
       /\ item \in Items /\ win \in Windows(item)
       /\ cur = StepRec(cur.op, item, win, cur.pkt)
       /\ \/ cur.op = "Begin" /\ cur.pkt = 0 /\ pkt = 0 /\ cont = "data"
          \/ cur.op = "Data" /\ cur.pkt = pkt /\ pkt \in 1 .. Shape[item][win] /\ cont = "data"
          \/ cur.op = "End" /\ cur.pkt = 0 /\ cont = "release"
       /\ cpc \in {"open", "close", cont}

\* A device that is alive has performed everything up to the step that is published.
Performed(d) ==
  /\ acked[d] = ItemEnd(item - 1) \/ acked[d].item = item
  /\ cpc = "item" => acked[d] = ItemEnd(item - 1)
  /\ cpc = "next" => acked[d] = IF win = 0 THEN ItemEnd(item - 1) ELSE StepRec("End", item, win, 0)
  /\ Issued /\ cur.op = "End" => pkt = Shape[item][win]
  /\ Issued /\ Ahead(d) => acked[d] = Before(cur)
  /\ cpc \in {"open", "close", "join", "returned"} /\ ~Issued =>
       srcErr \/ acked[d] = ItemEnd(Len(Shape))

Progress == Counted /\ Place /\ \A d \in Devices : ~dead[d] => Performed(d)

\* An item has windows, and a window has packets.
LEMMA ShapeOfItem ==
  ASSUME NEW i \in Items
  PROVE  LastWin(i) \in Nat \ {0} /\ \A w \in Windows(i) : Shape[i][w] \in Nat \ {0}
<1>1. Shape[i] \in Seq(Nat \ {0}) /\ Shape[i] # << >>
  BY ShapeAssumption DEF Items
<1>2. QED
  BY <1>1 DEF LastWin, Windows

\* failed_count reaches the number of devices when they are all dead.
LEMMA AllFailedAreDead ==
  ASSUME Counted, AllFailed
  PROVE  \A d \in Devices : dead[d]
<1>1. Dead \in SUBSET Devices
  BY DEF Dead
<1>2. Cardinality(Dead) <= Cardinality(Devices) /\ (Cardinality(Dead) = Cardinality(Devices) => Dead = Devices)
  BY <1>1, DevicesAssumption, FS_Subset
<1>3. Cardinality(Dead) \in Nat /\ Cardinality(Devices) \in Nat
  BY <1>1, DevicesAssumption, FS_Subset, FS_CardinalityType
<1>4. Dead = Devices
  BY <1>2, <1>3 DEF Counted, AllFailed
<1>5. QED
  BY <1>4 DEF Dead

LEMMA InitProgress == Init => Progress
<1> SUFFICES ASSUME Init PROVE Progress
  OBVIOUS
<1>1. Dead = {} /\ Cardinality({}) = 0
  BY FS_EmptySet DEF Init, Dead
<1>2. Counted
  BY <1>1 DEF Init, Counted
<1>3. Len(Shape) \in Nat
  BY ShapeAssumption
<1>4. Place
  BY <1>3 DEF Init, Place, Issued
<1>5. \A d \in Devices : Performed(d)
  BY DEF Init, Performed, Issued, ItemEnd
<1>6. QED
  BY <1>2, <1>4, <1>5 DEF Progress

\* Only a failure counts, and it counts the device that died.
LEMMA NextCounted ==
  ASSUME IInv, Counted, Next
  PROVE  Counted'
<1> USE DEF IInv, TypeOK
<1>1. CASE Coord
  <2>1. /\ wpc' = wpc /\ dead' = dead /\ failedCount' = failedCount /\ (berr => berr')
    BY <1>1 DEF Coord, EmitOpen, EmitClose, NextItem, EndItems, SourceFails, BeginWindow,
                SendPacket, EndWindow, ReleaseWindow, JoinWorkers, workerVars
  <2>2. QED
    BY <2>1 DEF Counted, Dead
<1>2. ASSUME NEW d \in Devices, WorkerEnter(d) \/ WorkerCopy(d) \/ WorkerOk(d) \/ WorkerLeave(d)
      PROVE  Counted'
  <2>1. dead' = dead /\ failedCount' = failedCount /\ berr' = berr
    BY <1>2 DEF WorkerEnter, WorkerCopy, WorkerOk, WorkerLeave
  <2>2. \A e \in Devices : wpc'[e] = "exec" => wpc[e] = "exec" \/ ~dead[e]
    BY <1>2 DEF WorkerEnter, WorkerCopy, WorkerOk, WorkerLeave
  <2>3. QED
    BY <2>1, <2>2 DEF Counted, Dead
<1>3. ASSUME NEW d \in Devices, WorkerFail(d) PROVE Counted'
  <2>1. ~dead[d] /\ dead' = [dead EXCEPT ![d] = TRUE] /\ failedCount' = failedCount + 1 /\ berr'
    BY <1>3 DEF WorkerFail, Counted
  <2>2. Dead' = Dead \cup {d} /\ d \notin Dead
    BY <2>1 DEF Dead
  <2>3. IsFiniteSet(Dead)
    BY DevicesAssumption, FS_Subset DEF Dead
  <2>4. Cardinality(Dead') = Cardinality(Dead) + 1
    BY <2>2, <2>3, FS_AddElement
  <2>5. \A e \in Devices : wpc'[e] = "exec" => wpc[e] = "exec" /\ e # d
    BY <1>3 DEF WorkerFail
  <2>6. \A e \in Devices : wpc'[e] = "exec" => ~dead'[e]
    BY <2>1, <2>5 DEF Counted
  <2>7. QED
    BY <2>1, <2>4, <2>6 DEF Counted
<1>4. CASE Terminated
  BY <1>4 DEF Terminated, vars, workerVars, Counted, Dead
<1>5. QED
  BY <1>1, <1>2, <1>3, <1>4 DEF Next, Worker

\* The counters of the coordinator go with the steps it publishes.
LEMMA NextPlace ==
  ASSUME IInv, Progress, Next
  PROVE  Place'
<1> USE DEF Progress
<1>0. item \in Nat /\ win \in Nat /\ pkt \in Nat /\ itemsDone \in Nat /\ Len(Shape) \in Nat
  BY ShapeAssumption DEF IInv, TypeOK
<1>1. ASSUME NEW d \in Devices, Worker(d) PROVE Place'
  <2>1. UNCHANGED coordVars
    BY <1>1 DEF Worker, WorkerEnter, WorkerCopy, WorkerOk, WorkerFail, WorkerLeave
  <2>2. QED
    BY <2>1 DEF coordVars, Place, Issued
<1>2. CASE EmitOpen
  <2>1. /\ cpc = "open" /\ cpc' = "close"
        /\ UNCHANGED <<cur, cont, item, win, pkt, itemsDone>>
    BY <1>2 DEF EmitOpen
  <2>2. Issued' = Issued
    BY <2>1 DEF Issued
  <2>3. QED
    BY <2>1, <2>2 DEF Place
<1>3. CASE EmitClose
  <2>1. /\ cpc = "close" /\ cpc' = cont
        /\ UNCHANGED <<cur, cont, item, win, pkt, itemsDone>>
    BY <1>3 DEF EmitClose
  <2>2. Issued' => Issued
    BY <2>1 DEF Issued
  <2>3. cont \in {"data", "release", "join"}
    BY <2>1 DEF IInv, Beat, Open, Close, Over
  <2>4. QED
    BY <2>1, <2>2, <2>3 DEF Place
<1>4. CASE NextItem
  <2>1. /\ item \in Items /\ cpc' = "next" /\ win' = 0 /\ item' = item /\ itemsDone' = itemsDone
    BY <1>4 DEF NextItem
  <2>2. win' < LastWin(item)
    BY <2>1, ShapeOfItem
  <2>3. QED
    BY <2>1, <2>2 DEF Place, Issued
<1>5. CASE EndItems \/ SourceFails
  <2>1. cpc' = "open" /\ cur' = Quit /\ item' = item /\ itemsDone' = itemsDone
    BY <1>5 DEF EndItems, SourceFails, Emit
  <2>2. ~Issued'
    BY <2>1 DEF Issued, Quit, StepRec
  <2>3. QED
    BY <2>1, <2>2 DEF Place
<1>6. CASE BeginWindow
  <2>1. /\ cpc = "next" /\ cpc' = "open" /\ item' = item /\ itemsDone' = itemsDone
        /\ win' = win + 1 /\ pkt' = 0 /\ cont' = "data"
        /\ cur' = StepRec("Begin", item, win + 1, 0)
    BY <1>6 DEF BeginWindow, At, Emit
  <2>2. item \in Items /\ win < LastWin(item)
    BY <2>1 DEF Place
  <2>3. win + 1 \in Windows(item)
    BY <1>0, <2>2, ShapeOfItem DEF Windows, LastWin
  <2>4. cur'.op = "Begin" /\ cur'.pkt = 0 /\ cur' = StepRec(cur'.op, item', win', cur'.pkt)
    BY <2>1 DEF StepRec
  <2>5. QED
    BY <2>1, <2>2, <2>3, <2>4 DEF Place
<1>7. CASE SendPacket
  <2>1. /\ cpc = "data" /\ cpc' = "open" /\ item' = item /\ itemsDone' = itemsDone
        /\ win' = win /\ pkt' = pkt + 1 /\ cont' = "data" /\ pkt < Shape[item][win]
        /\ cur' = StepRec("Data", item, win, pkt + 1)
    BY <1>7 DEF SendPacket, At, Emit
  <2>2. Issued
    BY <2>1 DEF Issued, IInv, Beat
  <2>3. item \in Items /\ win \in Windows(item)
    BY <2>2 DEF Place
  <2>4. pkt + 1 \in 1 .. Shape[item][win]
    BY <1>0, <2>1, <2>3, ShapeOfItem
  <2>5. cur'.op = "Data" /\ cur'.pkt = pkt' /\ cur' = StepRec(cur'.op, item', win', cur'.pkt)
    BY <2>1 DEF StepRec
  <2>6. QED
    BY <2>1, <2>3, <2>4, <2>5 DEF Place
<1>8. CASE EndWindow
  <2>1. /\ cpc = "data" /\ cpc' = "open" /\ item' = item /\ itemsDone' = itemsDone
        /\ win' = win /\ cont' = "release" /\ cur' = StepRec("End", item, win, 0)
    BY <1>8 DEF EndWindow, At, Emit
  <2>2. Issued
    BY <2>1 DEF Issued, IInv, Beat
  <2>3. item \in Items /\ win \in Windows(item)
    BY <2>2 DEF Place
  <2>4. cur'.op = "End" /\ cur'.pkt = 0 /\ cur' = StepRec(cur'.op, item', win', cur'.pkt)
    BY <2>1 DEF StepRec
  <2>5. QED
    BY <2>1, <2>3, <2>4 DEF Place
<1>9. CASE ReleaseWindow
  <2>1. cpc = "release" /\ win' = win /\ cpc' \in {"item", "next"} /\ ~Issued'
    BY <1>9 DEF ReleaseWindow, At, Issued
  <2>2. Issued
    BY <2>1 DEF Issued, IInv, Beat
  <2>3. item \in Items /\ win \in Windows(item)
    BY <2>2 DEF Place
  <2>4. CASE cpc' = "item" /\ item' = item + 1 /\ itemsDone' = itemsDone + 1
    <3>1. item' <= Len(Shape) + 1
      BY <1>0, <2>3, <2>4 DEF Items
    <3>2. QED
      BY <1>0, <2>1, <2>4, <3>1 DEF Place
  <2>5. CASE cpc' = "next" /\ item' = item /\ itemsDone' = itemsDone /\ win # LastWin(item)
    <3>1. win < LastWin(item)
      BY <1>0, <2>3, <2>5, ShapeOfItem DEF Windows, LastWin
    <3>2. QED
      BY <2>1, <2>3, <2>5, <3>1 DEF Place
  <2>6. QED
    BY <1>9, <2>4, <2>5 DEF ReleaseWindow
<1>10. CASE JoinWorkers
  <2>1. cpc' = "returned" /\ item' = item /\ itemsDone' = itemsDone
    BY <1>10 DEF JoinWorkers
  <2>2. QED
    BY <2>1 DEF Place, Issued
<1>11. CASE Terminated
  BY <1>11 DEF Terminated, vars, coordVars, Place, Issued
<1>12. QED
  BY <1>1, <1>2, <1>3, <1>4, <1>5, <1>6, <1>7, <1>8, <1>9, <1>10, <1>11 DEF Next, Coord

\* A worker that performs a step performs the one that was issued, in its turn.
LEMMA ExecIsAhead ==
  ASSUME IInv, Progress, NEW d \in Devices, wpc[d] = "exec"
  PROVE  Close /\ Issued /\ mine[d] = cur /\ ~dead[d] /\ Performed(d) /\ acked[d] = Before(cur)
<1>1. Close
  BY DEF IInv, Beat, Open, Over
<1>2. mine[d] = cur /\ cur.op # "Quit"
  BY <1>1 DEF Close, Stage
<1>3. Issued
  BY <1>1, <1>2 DEF Issued, Close, IInv, Beat
<1>4. ~dead[d]
  BY DEF Progress, Counted
<1>5. Performed(d) /\ acked[d] = Before(cur)
  BY <1>3, <1>4 DEF Progress, Performed, Ahead
<1>6. QED
  BY <1>1, <1>2, <1>3, <1>4, <1>5

\* A worker's step leaves every device where the published step wants it.
LEMMA WorkerPerformed ==
  ASSUME IInv, IInv', Progress, NEW e \in Devices, Worker(e),
         NEW d \in Devices, ~dead'[d]
  PROVE  Performed(d)'
<1>1. UNCHANGED coordVars
  BY DEF Worker, WorkerEnter, WorkerCopy, WorkerOk, WorkerFail, WorkerLeave
<1>2. ~dead[d]
  BY DEF Worker, WorkerEnter, WorkerCopy, WorkerOk, WorkerFail, WorkerLeave, IInv, TypeOK
<1>3. Performed(d)
  BY <1>2 DEF Progress
<1>4. Issued' = Issued
  BY <1>1 DEF coordVars, Issued
<1>5. ASSUME acked'[d] = acked[d], Issued /\ Ahead(d)' => Ahead(d)
      PROVE  Performed(d)'
  BY <1>1, <1>3, <1>4, <1>5 DEF coordVars, Performed, Before
<1>6. CASE WorkerEnter(e)
  <2>1. acked'[d] = acked[d]
    BY <1>6 DEF WorkerEnter
  <2>2. Open
    BY <1>6 DEF IInv, Beat, Close, Over, WorkerEnter, Arrive
  <2>3. ASSUME Ahead(d)' PROVE Ahead(d)
    <3>1. e \in Threads /\ d \in Threads
      BY DEF Threads
    <3>2. \/ waiting' = {} /\ \A u \in Threads : u \in waiting \/ u = e
          \/ waiting' = waiting \cup {e}
      BY <1>6, <3>1, ArriveSplits DEF WorkerEnter, IInv
    <3>3. e \notin waiting /\ wpc[e] = "enter" /\ wpc' = [wpc EXCEPT ![e] = "copy"]
      BY <1>6 DEF WorkerEnter, Arrive
    <3>4. ~Deciding
      <4>1. CASE waiting' = {} /\ \A u \in Threads : u \in waiting \/ u = e
        <5>1. Coordinator \in waiting
          BY <4>1, CoordinatorIsNoDevice
        <5>2. QED
          BY <5>1 DEF Deciding
      <4>2. CASE waiting' = waiting \cup {e}
        <5>1. Deciding' = Deciding
          BY <1>1, <4>2, CoordinatorIsNoDevice DEF Deciding, coordVars
        <5>2. wpc'[d] # "exec"
          BY <2>2, <3>3 DEF Open, IInv, TypeOK
        <5>3. QED
          BY <2>3, <5>1, <5>2 DEF Ahead
      <4>3. QED
        BY <3>2, <4>1, <4>2
    <3>5. CASE d = e
      BY <3>3, <3>4, <3>5 DEF Ahead
    <3>6. CASE d # e
      <4>1. wpc'[d] = wpc[d] /\ wpc[d] \in {"enter", "copy"} /\ (d \in waiting <=> wpc[d] = "copy")
        BY <2>2, <3>3, <3>6 DEF Open, IInv, TypeOK
      <4>2. QED
        BY <3>4, <4>1 DEF Ahead
    <3>7. QED
      BY <3>5, <3>6
  <2>4. QED
    BY <1>5, <2>1, <2>3
<1>7. CASE WorkerCopy(e) \/ WorkerFail(e)
  <2>1. acked'[d] = acked[d] /\ waiting' = waiting /\ Deciding' = Deciding
    BY <1>1, <1>7 DEF WorkerCopy, WorkerFail, Deciding, coordVars
  <2>2. Close
    BY <1>7 DEF IInv, Beat, Open, Over, WorkerCopy, WorkerFail
  <2>3. ~Deciding
    BY <2>2 DEF Close, Deciding
  <2>4. Ahead(d)' => Ahead(d)
    <3>1. wpc'[d] = wpc[d] \/ wpc[d] = "copy" \/ wpc'[d] = "leave"
      BY <1>7 DEF WorkerCopy, WorkerFail, IInv, TypeOK
    <3>2. QED
      BY <2>1, <2>3, <3>1 DEF Ahead
  <2>5. QED
    BY <1>5, <2>1, <2>4
<1>8. CASE WorkerLeave(e)
  <2>1. acked'[d] = acked[d]
    BY <1>8 DEF WorkerLeave
  <2>2. Close
    BY <1>8 DEF IInv, Beat, Open, Over, WorkerLeave
  <2>3. ~Deciding
    BY <2>2 DEF Close, Deciding
  <2>4. ASSUME Ahead(d)' PROVE Ahead(d)
    <3>1. e \in Threads /\ e \notin waiting
      BY <1>8 DEF Threads, WorkerLeave, Arrive
    <3>2. \/ waiting' = {} /\ \A u \in Threads : u \in waiting \/ u = e
          \/ waiting' = waiting \cup {e}
      BY <1>8, <3>1, ArriveSplits DEF WorkerLeave, IInv
    <3>3. CASE waiting' = {} /\ \A u \in Threads : u \in waiting \/ u = e
      <4>1. cpc = cont /\ cpc # "close" /\ cpc \in {"data", "release", "join"}
        BY <2>2, <3>1, <3>3, CoordinatorIsNoDevice DEF Close
      <4>2. Deciding'
        BY <1>1, <3>3, <4>1 DEF Deciding, coordVars
      <4>3. wpc'[d] # "exec"
        BY <1>8, <2>2, <3>3 DEF WorkerLeave, Close, Threads, IInv, TypeOK
      <4>4. QED
        BY <2>4, <4>2, <4>3 DEF Ahead
    <3>4. CASE waiting' = waiting \cup {e}
      <4>1. wpc'[d] = wpc[d] \/ (d = e /\ wpc'[d] \in {"enter", "exit"} /\ d \in waiting')
        BY <1>8, <3>4 DEF WorkerLeave, IInv, TypeOK
      <4>2. QED
        BY <2>3, <2>4, <3>4, <4>1 DEF Ahead
    <3>5. QED
      BY <3>2, <3>3, <3>4
  <2>5. QED
    BY <1>5, <2>1, <2>4
<1>9. CASE WorkerOk(e)
  <2>1. Close /\ Issued /\ mine[e] = cur
    BY <1>9, ExecIsAhead DEF WorkerOk
  <2>2. ~Deciding /\ Deciding' = Deciding /\ waiting' = waiting
    BY <1>1, <1>9, <2>1 DEF Close, Deciding, WorkerOk, coordVars
  <2>3. CASE d # e
    <3>1. acked'[d] = acked[d] /\ wpc'[d] = wpc[d]
      BY <1>9, <2>3 DEF WorkerOk, IInv, TypeOK
    <3>2. QED
      BY <1>5, <2>2, <3>1 DEF Ahead
  <2>4. CASE d = e
    <3>1. acked'[d] = cur /\ wpc'[d] = "leave"
      BY <1>9, <2>1, <2>4 DEF WorkerOk, IInv, TypeOK
    <3>2. cur.item = item /\ cpc \in {"close", "data", "release"}
      BY <2>1 DEF Progress, Place, StepRec, Close, Issued
    <3>3. ~Ahead(d)'
      BY <3>1 DEF Ahead
    <3>4. QED
      BY <1>1, <1>3, <1>4, <2>1, <3>1, <3>2, <3>3 DEF Performed, coordVars
  <2>5. QED
    BY <2>3, <2>4
<1>10. QED
  BY <1>6, <1>7, <1>8, <1>9 DEF Worker

\* What the coordinator decides between two steps goes on from where the devices are.
LEMMA DecidePerformed ==
  ASSUME IInv, Progress, Place',
         \/ NextItem \/ EndItems \/ SourceFails
         \/ BeginWindow \/ SendPacket \/ EndWindow \/ ReleaseWindow,
         NEW d \in Devices, ~dead[d]
  PROVE  Performed(d)'
<1> USE DEF Progress
<1>0. item \in Nat /\ win \in Nat /\ pkt \in Nat /\ itemsDone \in Nat /\ Len(Shape) \in Nat
  BY ShapeAssumption DEF IInv, TypeOK
<1>1. Performed(d) /\ ~AllFailed
  BY AllFailedAreDead
<1>2. acked' = acked /\ (acked[d] = ItemEnd(item - 1) \/ acked[d].item = item)
  BY <1>1 DEF NextItem, EndItems, SourceFails, BeginWindow, SendPacket, EndWindow,
         ReleaseWindow, workerVars, Performed
<1>3. Deciding
  BY DEF Deciding, NextItem, EndItems, SourceFails, BeginWindow, SendPacket, EndWindow,
         ReleaseWindow, At
<1>4. cpc \in {"data", "release"} => Issued /\ acked[d] = cur
  BY <1>3, CoordinatorIsNoDevice DEF IInv, Beat, Open, Close, Over, Deciding, Issued
<1>5. CASE NextItem
  <2>1. cpc = "item" /\ cpc' = "next" /\ win' = 0 /\ item' = item
    BY <1>5 DEF NextItem, At
  <2>2. acked[d] = ItemEnd(item - 1)
    BY <1>1, <2>1 DEF Performed
  <2>3. QED
    BY <1>2, <2>1, <2>2 DEF Performed, Issued
<1>6. CASE EndItems
  <2>1. /\ cpc = "item" /\ item \notin Items /\ cpc' = "open" /\ cur'.op = "Quit" /\ item' = item
    BY <1>1, <1>6 DEF EndItems, At, Emit, Quit, StepRec
  <2>2. acked[d] = ItemEnd(item - 1)
    BY <1>1, <2>1 DEF Performed
  <2>3. item - 1 = Len(Shape)
    BY <1>0, <2>1 DEF Place, Items
  <2>4. QED
    BY <1>2, <2>1, <2>2, <2>3 DEF Performed, Issued
<1>7. CASE SourceFails
  <2>1. cpc' = "open" /\ cur'.op = "Quit" /\ item' = item /\ srcErr'
    BY <1>7 DEF SourceFails, Emit, Quit, StepRec
  <2>2. QED
    BY <1>1, <1>2, <2>1 DEF Performed, Issued
<1>8. CASE BeginWindow
  <2>1. /\ cpc = "next" /\ cpc' = "open" /\ item' = item
        /\ cur' = StepRec("Begin", item, win + 1, 0)
    BY <1>8 DEF BeginWindow, At, Emit
  <2>2. acked[d] = IF win = 0 THEN ItemEnd(item - 1) ELSE StepRec("End", item, win, 0)
    BY <1>1, <2>1 DEF Performed
  <2>3. cur'.op = "Begin" /\ cur'.item = item /\ cur'.win = win + 1
    BY <2>1 DEF StepRec
  <2>4. acked[d] = Before(cur')
    BY <1>0, <2>2, <2>3 DEF Before
  <2>5. QED
    BY <1>2, <2>1, <2>3, <2>4 DEF Performed, Issued
<1>9. CASE SendPacket
  <2>1. /\ cpc = "data" /\ cpc' = "open" /\ item' = item
        /\ cur' = StepRec("Data", item, win, pkt + 1)
    BY <1>9 DEF SendPacket, At, Emit
  <2>2. acked[d] = cur /\ cur = StepRec(cur.op, item, win, cur.pkt)
    BY <1>4, <2>1 DEF Place
  <2>3. \/ cur.op = "Begin" /\ cur.pkt = 0 /\ pkt = 0
        \/ cur.op = "Data" /\ cur.pkt = pkt /\ pkt > 0
    BY <1>0, <1>4, <2>1 DEF Place
  <2>4. cur'.op = "Data" /\ cur'.item = item /\ cur'.win = win /\ cur'.pkt = pkt + 1
    BY <2>1 DEF StepRec
  <2>5. acked[d] = Before(cur')
    BY <1>0, <2>2, <2>3, <2>4 DEF Before
  <2>6. QED
    BY <1>2, <2>1, <2>4, <2>5 DEF Performed, Issued
<1>10. CASE EndWindow
  <2>1. /\ cpc = "data" /\ cpc' = "open" /\ item' = item /\ win' = win /\ pkt' = pkt
        /\ cur' = StepRec("End", item, win, 0) /\ pkt = Shape[item][win]
    BY <1>1, <1>10 DEF EndWindow, At, Emit
  <2>2. /\ acked[d] = cur /\ cur = StepRec(cur.op, item, win, cur.pkt)
        /\ item \in Items /\ win \in Windows(item)
    BY <1>4, <2>1 DEF Place
  <2>3. pkt # 0
    BY <2>1, <2>2, ShapeOfItem
  <2>4. cur.op = "Data" /\ cur.pkt = pkt
    BY <1>4, <2>1, <2>3, IInv DEF Place, IInv, Beat, Open, Close, Over
  <2>5. cur'.op = "End" /\ cur'.item = item /\ cur'.win = win
    BY <2>1 DEF StepRec
  <2>6. acked[d] = Before(cur')
    BY <2>1, <2>2, <2>4, <2>5 DEF Before
  <2>7. QED
    BY <1>2, <2>1, <2>5, <2>6 DEF Performed, Issued
<1>11. CASE ReleaseWindow
  <2>1. /\ cpc = "release" /\ win' = win /\ ~AllFailed
        /\ \/ win = LastWin(item) /\ cpc' = "item" /\ item' = item + 1
           \/ win # LastWin(item) /\ cpc' = "next" /\ item' = item
    BY <1>1, <1>11 DEF ReleaseWindow, At
  <2>2. Issued /\ acked[d] = cur /\ item \in Items /\ win \in Windows(item)
    BY <1>4, <2>1 DEF Place
  <2>3. cur = StepRec("End", item, win, 0)
    BY <2>1, <2>2 DEF Place
  <2>4. win # 0 /\ item # 0 /\ (item + 1) - 1 = item /\ acked[d].item = item
    BY <1>0, <2>2, <2>3 DEF Windows, Items, StepRec
  <2>5. QED
    BY <1>2, <2>1, <2>2, <2>3, <2>4 DEF Performed, Issued, ItemEnd
<1>12. QED
  BY <1>5, <1>6, <1>7, <1>8, <1>9, <1>10, <1>11

\* The two barriers of emit put no device ahead of the step.
LEMMA EmitPerformed ==
  ASSUME IInv, Progress, EmitOpen \/ EmitClose \/ JoinWorkers, NEW d \in Devices, ~dead[d]
  PROVE  Performed(d)'
<1>1. Performed(d)
  BY DEF Progress
<1>2. /\ UNCHANGED <<workerVars, cur, item, win, pkt, srcErr>>
  BY DEF EmitOpen, EmitClose, JoinWorkers
<1>3. CASE EmitOpen
  <2>1. cpc = "open" /\ cpc' = "close" /\ Issued' = Issued
    BY <1>2, <1>3 DEF EmitOpen, Issued
  <2>2. Ahead(d)' => Ahead(d)
    <3>1. Open /\ ~Deciding /\ wpc' = wpc
      BY <1>2, <2>1 DEF IInv, Beat, Close, Over, Deciding, workerVars
    <3>2. wpc[d] \in {"enter", "copy"} /\ (wpc[d] = "enter" => d \notin waiting)
      BY <3>1 DEF Open
    <3>3. QED
      BY <3>1, <3>2 DEF Ahead
  <2>3. QED
    BY <1>1, <1>2, <2>1, <2>2 DEF Performed, Before, ItemEnd, LastWin, workerVars
<1>4. CASE EmitClose
  <2>1. cpc = "close" /\ cpc' = cont /\ Coordinator \notin waiting
    BY <1>4 DEF EmitClose, Arrive
  <2>2. Close /\ ~Deciding /\ wpc' = wpc /\ cont \in {"data", "release", "join"}
    BY <1>2, <2>1 DEF IInv, Beat, Open, Close, Over, Deciding, workerVars
  <2>3. Issued' = Issued
    BY <1>2, <2>1, <2>2 DEF IInv, Beat, Issued
  <2>4. ASSUME Ahead(d)' PROVE Ahead(d)
    <3>1. \/ waiting' = {} /\ \A e \in Devices : e \in waiting
          \/ waiting' = waiting \cup {Coordinator}
      BY <1>4, CoordinatorIsNoDevice, ArriveSplits DEF EmitClose, IInv, Threads
    <3>2. CASE waiting' = {} /\ \A e \in Devices : e \in waiting
      <4>1. Deciding' /\ wpc[d] # "exec"
        BY <2>1, <2>2, <3>2 DEF Deciding, Close
      <4>2. QED
        BY <2>2, <2>4, <4>1 DEF Ahead
    <3>3. CASE waiting' = waiting \cup {Coordinator}
      <4>1. d \in waiting' <=> d \in waiting
        BY <3>3, CoordinatorIsNoDevice
      <4>2. QED
        BY <2>2, <2>4, <4>1 DEF Ahead
    <3>4. QED
      BY <3>1, <3>2, <3>3
  <2>5. QED
    BY <1>1, <1>2, <2>1, <2>2, <2>3, <2>4 DEF Performed, Before, ItemEnd, LastWin, workerVars
<1>5. CASE JoinWorkers
  <2>1. cpc = "join" /\ cpc' = "returned"
    BY <1>5 DEF JoinWorkers, At
  <2>2. QED
    BY <1>1, <1>2, <2>1 DEF Performed, Issued, ItemEnd, LastWin, workerVars
<1>6. QED
  BY <1>3, <1>4, <1>5

LEMMA NextProgress ==
  ASSUME IInv, IInv', Progress, [Next]_vars
  PROVE  Progress'
<1>1. CASE UNCHANGED vars \/ Terminated
  <2>1. UNCHANGED vars
    BY <1>1 DEF Terminated
  <2>2. UNCHANGED <<waiting, wpc, dead, failedCount, acked, coordVars, berr>>
    BY <2>1 DEF vars, workerVars
  <2>3. Counted' /\ Place'
    BY <2>2 DEF Progress, Counted, Dead, Place, Issued, coordVars
  <2>4. \A d \in Devices : Performed(d)' = Performed(d)
    BY <2>2 DEF Performed, Before, ItemEnd, LastWin, Ahead, Deciding, Issued, coordVars
  <2>5. QED
    BY <2>2, <2>3, <2>4 DEF Progress
<1>2. CASE Next /\ ~Terminated
  <2>1. Counted' /\ Place'
    BY <1>2, NextCounted, NextPlace DEF Progress
  <2>2. ASSUME NEW d \in Devices, ~dead'[d] PROVE Performed(d)'
    <3>1. ASSUME NEW e \in Devices, Worker(e) PROVE Performed(d)'
      BY <2>2, <3>1, WorkerPerformed
    <3>2. CASE Coord
      <4>1. dead' = dead
        BY <3>2 DEF Coord, EmitOpen, EmitClose, NextItem, EndItems, SourceFails, BeginWindow,
                    SendPacket, EndWindow, ReleaseWindow, JoinWorkers, workerVars
      <4>2. QED
        BY <2>1, <2>2, <3>2, <4>1, DecidePerformed, EmitPerformed DEF Coord
    <3>3. QED
      BY <1>2, <3>1, <3>2 DEF Next
  <2>3. QED
    BY <2>1, <2>2 DEF Progress
<1>3. QED
  BY <1>1, <1>2

LEMMA ProgressInvariant == Spec => [](IInv /\ Progress)
<1>1. Init => Progress
  BY InitProgress
<1>2. IInv /\ IInv' /\ Progress /\ [Next]_vars => Progress'
  BY NextProgress
<1>3. QED
  BY <1>1, <1>2, BarrierInvariant, PTL DEF Spec

-----------------------------------------------------------------------------
(***************************************************************************)
(* Theorems.                                                               *)
(***************************************************************************)

\* Every reachable state of the flashing step is typed: no thread reaches a
\* location the code does not have.
THEOREM BarrierTypeCorrect == Spec => []TypeOK
<1>1. IInv => TypeOK
  BY DEF IInv
<1> QED BY <1>1, BarrierInvariant, PTL

\* Two barriers per step are enough to guard the shared step: a worker that
\* performs a step performs the published one, and the coordinator decides on
\* the next one only when every live device has performed this one.
THEOREM BarrierLockstep == Spec => []Lockstep
<1>1. ASSUME IInv PROVE Lockstep
  <2>1. ASSUME NEW d \in Devices, wpc[d] = "exec" PROVE MidStep /\ mine[d] = cur
    <3>1. Close
      BY <1>1, <2>1 DEF IInv, Beat, Open, Over
    <3>2. mine[d] = cur /\ (Coordinator \in waiting <=> cpc # "close") /\ cpc # "open"
      BY <2>1, <3>1 DEF Close, Stage
    <3> QED BY <3>2 DEF MidStep
  <2>2. ASSUME Deciding, cpc \in {"data", "release"}
        PROVE  \A d \in Devices :
                 /\ wpc[d] = "enter" \/ (wpc[d] = "copy" /\ d \in waiting)
                 /\ dead[d] \/ acked[d] = cur
    <3>1. Open
      BY <1>1, <2>2 DEF IInv, Beat, Close, Over, Deciding
    <3> QED BY <2>2, <3>1 DEF Open
  <2> QED BY <2>1, <2>2 DEF Lockstep
<1> QED BY <1>1, BarrierInvariant, PTL

\* The coordinator holds the lease of a window for as long as some worker sends
\* a packet of it.
THEOREM BarrierLease == Spec => []LeaseCoversReads
<1>1. ASSUME IInv PROVE LeaseCoversReads
  <2> SUFFICES ASSUME NEW d \in Devices, wpc[d] = "exec", mine[d].op = "Data"
               PROVE  lease /\ mine[d].item = item /\ mine[d].win = win
    BY DEF LeaseCoversReads
  <2>1. Close
    BY <1>1 DEF IInv, Beat, Open, Over
  <2>2. mine[d] = cur /\ cur.op # "Quit"
    BY <2>1 DEF Close, Stage
  <2>3. cpc \in {"close", "data", "release"}
    BY <1>1, <2>1, <2>2 DEF Close, IInv, Beat
  <2> QED BY <1>1, <2>2, <2>3 DEF IInv, Leased
<1> QED BY <1>1, BarrierInvariant, PTL

\* When the step returns, every device alive has received every item, unless a source
\* failed, and the failures counted are the devices that died; an item that is
\* reported done was received by every device that is alive.
THEOREM BarrierReports == Spec => []ReportsAreTrue
<1>1. ASSUME IInv, Progress PROVE ReturnedComplete
  <2> SUFFICES ASSUME cpc = "returned"
               PROVE  /\ \A d \in Devices : dead[d] \/ srcErr \/ acked[d] = Final
                      /\ failedCount = Cardinality({d \in Devices : dead[d]})
                      /\ failedCount > 0 => berr
    BY DEF ReturnedComplete
  <2>1. Final = ItemEnd(Len(Shape))
    BY ShapeAssumption DEF Final, ItemEnd
  <2>2. ASSUME NEW d \in Devices, ~dead[d] PROVE srcErr \/ acked[d] = Final
    <3>1. Performed(d) /\ ~Issued
      BY <1>1, <2>2 DEF Progress, Issued
    <3>2. QED
      BY <2>1, <3>1 DEF Performed
  <2>3. QED
    BY <1>1, <2>2 DEF Progress, Counted, Dead
<1>2. ASSUME IInv, Progress PROVE ItemDoneIsTrue
  <2> SUFFICES ASSUME itemsDone > 0, NEW d \in Devices, ~dead[d]
               PROVE  \/ acked[d].item > itemsDone
                      \/ /\ acked[d].item = itemsDone /\ acked[d].win = LastWin(itemsDone)
                         /\ acked[d].op = "End"
    BY DEF ItemDoneIsTrue
  <2>1. itemsDone \in Nat /\ item = itemsDone + 1
    BY <1>2 DEF Progress, Place, IInv, TypeOK
  <2>2. acked[d] = ItemEnd(itemsDone) \/ acked[d].item = item
    BY <1>2, <2>1 DEF Progress, Performed
  <2>3. QED
    BY <2>1, <2>2 DEF ItemEnd, StepRec
<1>3. QED
  BY <1>1, <1>2, ProgressInvariant, PTL DEF ReportsAreTrue

\* A step that is issued follows the one before it in the protocol.
LEMMA IssuedFollows ==
  ASSUME IInv, Progress, Issued, NEW d \in Devices, ~dead[d]
  PROVE  Follows(Before(cur), cur)
<1> USE DEF Progress
<1>1. /\ item \in Items /\ win \in Windows(item)
      /\ LastWin(item) \in Nat \ {0} /\ Shape[item][win] \in Nat \ {0}
      /\ item \in Nat \ {0} /\ win \in Nat \ {0} /\ win <= LastWin(item)
  BY ShapeOfItem, ShapeAssumption DEF Place, Windows, LastWin, Items
<1>2. CASE cur.op = "Begin"
  <2>1. cur = StepRec("Begin", item, win, 0)
    BY <1>2 DEF Place
  <2>2. CASE win = 1 /\ item = 1
    <3>1. Before(cur).op = "Start" /\ cur = StepRec("Begin", 1, 1, 0)
      BY <2>1, <2>2 DEF Before, ItemEnd, Start, StepRec
    <3>2. QED
      BY <3>1 DEF Follows
  <2>3. CASE win = 1 /\ item # 1
    <3>1. Before(cur) = StepRec("End", item - 1, LastWin(item - 1), 0)
      BY <1>1, <2>1, <2>3 DEF Before, ItemEnd, StepRec
    <3>2. item - 1 \in Items
      BY <1>1, <2>3, ShapeAssumption DEF Items
    <3>3. LastWin(item - 1) \in Nat
      BY <3>2, ShapeOfItem
    <3>4. /\ Before(cur).op = "End" /\ Before(cur).item = item - 1
          /\ Before(cur).win = LastWin(item - 1)
      BY <3>1 DEF StepRec
    <3>5. ~(Before(cur).win < LastWin(Before(cur).item)) /\ Before(cur).item + 1 = item
      BY <1>1, <3>3, <3>4
    <3>6. QED
      BY <2>1, <2>3, <3>4, <3>5 DEF Follows
  <2>4. CASE win # 1
    <3>1. Before(cur) = StepRec("End", item, win - 1, 0)
      BY <2>1, <2>4 DEF Before, StepRec
    <3>2. Before(cur).op = "End" /\ Before(cur).item = item /\ Before(cur).win = win - 1
      BY <3>1 DEF StepRec
    <3>3. Before(cur).win < LastWin(item) /\ Before(cur).win + 1 = win
      BY <1>1, <3>2
    <3>4. QED
      BY <2>1, <3>2, <3>3 DEF Follows
  <2>5. QED
    BY <2>2, <2>3, <2>4
<1>3. CASE cur.op = "Data"
  <2>1. cur = StepRec("Data", item, win, pkt) /\ pkt \in 1 .. Shape[item][win]
    BY <1>3 DEF Place
  <2>2. /\ Before(cur).op \in {"Begin", "Data"} /\ Before(cur).item = item
        /\ Before(cur).win = win /\ Before(cur).pkt = pkt - 1
    BY <2>1 DEF Before, StepRec
  <2>3. Before(cur).pkt < Shape[item][win] /\ Before(cur).pkt + 1 = pkt
    BY <1>1, <2>1, <2>2
  <2>4. QED
    BY <2>1, <2>2, <2>3 DEF Follows
<1>4. CASE cur.op = "End"
  <2>1. cur = StepRec("End", item, win, 0)
    BY <1>4 DEF Place
  <2>2. Before(cur) = StepRec("Data", item, win, Shape[item][win])
    BY <2>1 DEF Before, StepRec
  <2>3. QED
    BY <2>1, <2>2 DEF Follows, StepRec
<1>5. QED
  BY <1>2, <1>3, <1>4 DEF Place

\* Every device performs the steps of the download in the order of the protocol, and
\* none after it failed.
THEOREM BarrierProtocol == Spec => DevicesFollowProtocol
<1>1. ASSUME IInv, Progress, [Next]_vars, NEW d \in Devices, acked'[d] # acked[d]
      PROVE  ~dead[d] /\ Follows(acked[d], acked'[d])
  <2>1. WorkerOk(d)
    BY <1>1 DEF Next, vars, workerVars, Terminated, Coord, EmitOpen, EmitClose, NextItem, EndItems,
         SourceFails, BeginWindow, SendPacket, EndWindow, ReleaseWindow, JoinWorkers,
         Worker, WorkerEnter, WorkerCopy, WorkerOk, WorkerFail, WorkerLeave, IInv, TypeOK
  <2>2. /\ Issued /\ mine[d] = cur /\ ~dead[d] /\ acked[d] = Before(cur)
    BY <1>1, <2>1, ExecIsAhead DEF WorkerOk
  <2>3. acked'[d] = cur
    BY <1>1, <2>1, <2>2 DEF WorkerOk, IInv, TypeOK
  <2>4. QED
    BY <1>1, <2>2, <2>3, IssuedFollows
<1>2. IInv /\ Progress /\ [Next]_vars =>
        [\A d \in Devices : acked'[d] # acked[d] => ~dead[d] /\ Follows(acked[d], acked'[d])]_vars
  BY <1>1
<1>3. QED
  BY <1>2, ProgressInvariant, PTL DEF Spec, DevicesFollowProtocol
=============================================================================
