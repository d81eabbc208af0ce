--------------------------- MODULE FrontEndsProofs ---------------------------
(***************************************************************************)
(* Proofs about the two programs around the engine and the parts they have *)
(* in common, for any number of processes, devices, switches and phones    *)
(* and all sizes: what a process takes it has under the lock and gives     *)
(* back, a session of the app answers once, the windows of an image carry  *)
(* it exactly, and the wireless listener owns what it keeps open; for any  *)
(* files and tables: an archive is read as it was packed, both programs    *)
(* choose the images they promise, a table is laid out without overlap or  *)
(* gap, and what is reported as done was written whole.                    *)
(***************************************************************************)
EXTENDS FrontEnds, FiniteSetTheorems, SequenceTheorems, WellFoundedInduction, TLAPS

\* The programs do not touch each other's state.
LEMMA ProgramSteps ==
  [Next]_vars =>
    [CliNext]_cliVars /\ [BridgeNext]_bridgeVars /\ [WirelessNext]_wirelessVars
BY DEF Next, Ended, vars

-----------------------------------------------------------------------------
(***************************************************************************)
(* The command line program (CliProgram).                                  *)
(***************************************************************************)
Stations ==
  {"off", "start", "parse", "listen", "accept", "select", "open", "detach", "claim", "verify",
   "expand", "flash", "shielded", "leave", "join", "unlock", "done"}

CliTypes ==
  /\ lock \in Procs \cup {None} /\ port \in Procs \cup {None}
  /\ claim \in [Devices -> Procs \cup {None}] /\ driver \in [Devices -> BOOLEAN]
  /\ pc \in [Procs -> Stations]
  /\ todo \in [Procs -> Seq(Devices)] /\ opened \in [Procs -> Seq(Devices)]
  /\ detached \in [Procs -> SUBSET Devices]
  /\ peer \in [Procs -> BOOLEAN] /\ blocked \in [Procs -> BOOLEAN]
  /\ code \in [Procs -> {"0", "1", "2"}] /\ exit \in [Procs -> {"none", "0", "1", "2", "killed"}]

\* The lock belongs to the process that is past it and has not ended.
Inside(p) == pc[p] \notin {"off", "start", "done"}
Locking == \A p \in Procs : lock = p <=> Inside(p)

\* What a process has, it has at certain places; the devices it claimed are those it opened.
InUse(p) == {opened[p][i] : i \in 1 .. Len(opened[p])}
Holding(p) ==
  /\ port = p => pc[p] = "accept"
  /\ peer[p] => pc[p] \in {"verify", "expand", "flash", "shielded", "leave"}
  /\ blocked[p] => pc[p] \in {"shielded", "leave", "join"}
  /\ \A d \in Devices : claim[d] = p => d \in InUse(p)
  /\ opened[p] # << >> =>
       pc[p] \in {"open", "detach", "claim", "verify", "expand", "flash", "shielded", "leave"}
  /\ pc[p] \in {"detach", "claim"} => todo[p] # << >>

\* A driver that is missing was detached by a process, which has the device open or is
\* about to claim it, or was killed.
Claiming(p) == IF pc[p] = "claim" THEN {Head(todo[p])} ELSE {}
Detaching(p) ==
  /\ exit[p] # "none" <=> pc[p] = "done"
  /\ exit[p] # "killed" => detached[p] \subseteq InUse(p) \cup Claiming(p)
Missing == \A d \in Bound : driver[d] \/ \E p \in Procs : d \in detached[p]

CliInv ==
  /\ CliTypes /\ Locking /\ Missing
  /\ \A p \in Procs : Holding(p) /\ Detaching(p)

-----------------------------------------------------------------------------
\* A finite set of devices can be listed.
LEMMA ListedDevices ==
  ASSUME NEW S \in SUBSET Devices
  PROVE  SetToSeq(S) \in Seq(Devices) /\ (S # {} => SetToSeq(S) # << >>)
<1>1. IsFiniteSet(S)
  BY CliAssumption, FS_Subset DEF CliAssumption
<1>2. PICK n \in Nat : \E f : f \in Bijection(1 .. n, S)
  BY <1>1, FS_NatBijection DEF ExistsBijection
<1>0. PICK f : f \in Bijection(1 .. n, S)
  BY <1>2
<1>3. Cardinality(S) = n
  BY <1>0, FS_CountingElements DEF ExistsBijection
<1>4. f \in [1 .. Cardinality(S) -> S] /\ IsInjective(f)
  BY <1>0, <1>3 DEF Bijection, Injection
<1>5. SetToSeq(S) \in [1 .. Cardinality(S) -> S]
  BY <1>4 DEF SetToSeq
<1>6. SetToSeq(S) \in Seq(Devices) /\ Len(SetToSeq(S)) = n
  BY <1>2, <1>3, <1>5
<1>7. S # {} => n # 0
  BY <1>1, <1>3, FS_EmptySet
<1>8. QED
  BY <1>6, <1>7

LEMMA CliStarts == ASSUME NEW at \in {"start", "off"}, CliInit(at) PROVE CliInv
<1> USE CliAssumption DEF CliAssumption
<1>1. CliTypes
  <2>1. /\ lock \in Procs \cup {None} /\ port \in Procs \cup {None}
        /\ claim \in [Devices -> Procs \cup {None}] /\ driver \in [Devices -> BOOLEAN]
    BY DEF CliInit
  <2>2. /\ pc \in [Procs -> Stations]
        /\ detached \in [Procs -> SUBSET Devices]
        /\ peer \in [Procs -> BOOLEAN] /\ blocked \in [Procs -> BOOLEAN]
        /\ code \in [Procs -> {"0", "1", "2"}] /\ exit \in [Procs -> {"none", "0", "1", "2", "killed"}]
    BY DEF CliInit, Stations
  <2>3. todo \in [Procs -> Seq(Devices)] /\ opened \in [Procs -> Seq(Devices)]
    BY DEF CliInit
  <2>4. QED
    BY <2>1, <2>2, <2>3 DEF CliTypes
<1>2. Locking /\ Missing
  BY DEF CliInit, Locking, Inside, Missing
<1>3. ASSUME NEW p \in Procs PROVE Holding(p) /\ Detaching(p)
  <2>1. /\ lock = None /\ port = None /\ \A d \in Devices : claim[d] = None
        /\ pc[p] = at /\ opened[p] = << >> /\ detached[p] = {} /\ ~peer[p] /\ ~blocked[p]
        /\ exit[p] = "none"
    BY DEF CliInit
  <2>2. p # None
    OBVIOUS
  <2>3. QED
    BY <2>1, <2>2 DEF Holding, Detaching
<1>4. QED
  BY <1>1, <1>2, <1>3 DEF CliInv

-----------------------------------------------------------------------------
(***************************************************************************)
(* A step of one process.  What it does to the others, and what they rely  *)
(* on.                                                                     *)
(***************************************************************************)
Codes == [Procs -> {"0", "1", "2"}]
OthersKept(p) ==
  /\ \A q \in Procs \ {p} :
       /\ UNCHANGED <<pc[q], todo[q], opened[q], detached[q], peer[q], blocked[q], exit[q]>>
       /\ port' = q => port = q
       /\ \A d \in Devices : claim'[d] = q => claim[d] = q
       /\ lock' = q <=> lock = q
  /\ lock' = p <=> Inside(p)'

LEMMA FrameKeeps ==
  ASSUME CliInv, NEW p \in Procs, OthersKept(p), CliTypes', Missing', Holding(p)', Detaching(p)'
  PROVE  CliInv'
<1>1. ASSUME NEW q \in Procs \ {p} PROVE Holding(q)' /\ Detaching(q)'
  <2>1. Holding(q) /\ Detaching(q)
    BY DEF CliInv
  <2>2. /\ pc'[q] = pc[q] /\ todo'[q] = todo[q] /\ opened'[q] = opened[q] /\ detached'[q] = detached[q]
        /\ peer'[q] = peer[q] /\ blocked'[q] = blocked[q] /\ exit'[q] = exit[q]
        /\ (port' = q => port = q) /\ \A d \in Devices : claim'[d] = q => claim[d] = q
    BY DEF OthersKept
  <2>3. InUse(q)' = InUse(q) /\ Claiming(q)' = Claiming(q)
    BY <2>2 DEF InUse, Claiming
  <2>4. QED
    BY <2>1, <2>2, <2>3 DEF Holding, Detaching
<1>2. Locking'
  <2>1. \A q \in Procs \ {p} : lock' = q <=> Inside(q)'
    BY DEF CliInv, Locking, Inside, OthersKept
  <2>2. QED
    BY <2>1 DEF Locking, OthersKept
<1>3. QED
  BY <1>1, <1>2 DEF CliInv

\* A move that takes or gives nothing.
Follows(a, b) ==
  \/ a = "parse" /\ b \in {"leave", "listen", "select"}
  \/ a \in {"listen", "select", "detach", "flash", "shielded"} /\ b = "leave"
  \/ a = "open" /\ b \in {"verify", "leave"}
  \/ a = "verify" /\ b \in {"expand", "leave"}
  \/ a = "expand" /\ b \in {"flash", "leave"}

LEMMA MoveKeeps ==
  ASSUME CliInv, NEW p \in Procs, NEW to \in Stations, pc' = [pc EXCEPT ![p] = to],
         Follows(pc[p], to) \/ (pc[p] = "open" /\ to = "detach" /\ todo[p] # << >>),
         code' \in Codes, UNCHANGED <<kernel, conns, blocked, exit>>
  PROVE  CliInv'
<1>1. /\ UNCHANGED <<lock, port, claim, driver>> /\ UNCHANGED <<todo, opened, detached, peer>>
      /\ UNCHANGED <<blocked, exit>>
  BY DEF kernel, conns
<1>2. CliTypes'
  BY <1>1 DEF CliInv, CliTypes, Codes
<1>3. pc'[p] = to /\ \A q \in Procs \ {p} : pc'[q] = pc[q]
  BY DEF CliInv, CliTypes
<1>4. OthersKept(p)
  BY <1>1, <1>3 DEF CliInv, Locking, Inside, OthersKept, Follows
<1>5. Holding(p)'
  <2>1. Holding(p)
    BY DEF CliInv
  <2>2. InUse(p)' = InUse(p)
    BY <1>1 DEF InUse
  <2>3. port = p => pc[p] = "accept"
    BY <2>1 DEF Holding
  <2>4. QED
    BY <1>1, <1>3, <2>1, <2>2 DEF Holding, Follows
<1>6. Detaching(p)'
  <2>1. Detaching(p)
    BY DEF CliInv
  <2>2. pc[p] # "claim" /\ to # "claim" /\ pc[p] # "done" /\ to # "done"
    BY DEF Follows
  <2>3. InUse(p)' = InUse(p)
    BY <1>1 DEF InUse
  <2>4. QED
    BY <1>1, <1>3, <2>1, <2>2, <2>3 DEF Detaching, Claiming
<1>7. Missing'
  BY <1>1 DEF CliInv, Missing
<1>8. QED
  BY <1>2, <1>4, <1>5, <1>6, <1>7, FrameKeeps

\* A step that leaves all of it alone.
LEMMA IdleKeeps ==
  ASSUME CliInv, UNCHANGED <<kernel, conns, blocked, exit, pc, code>>
  PROVE  CliInv'
<1>1. /\ UNCHANGED <<lock, port, claim, driver>> /\ UNCHANGED <<todo, opened, detached, peer>>
      /\ UNCHANGED <<blocked, exit, pc, code>>
  BY DEF kernel, conns
<1>2. CliTypes' /\ Locking' /\ Missing'
  BY <1>1 DEF CliInv, CliTypes, Locking, Inside, Missing
<1>3. ASSUME NEW p \in Procs PROVE Holding(p)' /\ Detaching(p)'
  <2>1. Holding(p) /\ Detaching(p)
    BY DEF CliInv
  <2>2. InUse(p)' = InUse(p) /\ Claiming(p)' = Claiming(p)
    BY <1>1 DEF InUse, Claiming
  <2>3. QED
    BY <1>1, <2>1, <2>2 DEF Holding, Detaching
<1>4. QED
  BY <1>2, <1>3 DEF CliInv

-----------------------------------------------------------------------------
(***************************************************************************)
(* The steps.                                                              *)
(***************************************************************************)
LEMMA StepTryAcquire ==
  ASSUME CliInv, NEW p \in Procs, TryAcquire(p)
  PROVE  CliInv'
<1>1. /\ UNCHANGED <<port, claim, driver>> /\ UNCHANGED <<todo, opened, detached, peer>>
      /\ UNCHANGED <<blocked, code>> /\ pc[p] = "start"
  BY DEF TryAcquire, Goto, conns, guard
<1>2. Holding(p) /\ Detaching(p) /\ (lock # p)
  BY <1>1 DEF CliInv, Locking, Inside
<1>3. InUse(p)' = InUse(p)
  BY <1>1 DEF InUse
<1>4. CASE lock = None
  <2>1. pc' = [pc EXCEPT ![p] = "parse"] /\ lock' = p /\ UNCHANGED exit
    BY <1>4 DEF TryAcquire, Goto
  <2>2. pc'[p] = "parse" /\ \A q \in Procs \ {p} : pc'[q] = pc[q]
    BY <2>1 DEF CliInv, CliTypes
  <2>3. CliTypes' /\ Missing'
    BY <1>1, <2>1 DEF CliInv, CliTypes, Stations, Missing
  <2>4. OthersKept(p)
    BY <1>1, <1>4, <2>1, <2>2, CliAssumption DEF OthersKept, Inside, CliAssumption
  <2>5. Holding(p)' /\ Detaching(p)'
    BY <1>1, <1>2, <1>3, <2>1, <2>2 DEF Holding, Detaching, Claiming
  <2>6. QED
    BY <2>3, <2>4, <2>5, FrameKeeps
<1>5. CASE lock # None
  <2>1. /\ pc' = [pc EXCEPT ![p] = "done"] /\ lock' = lock
        /\ exit' = [exit EXCEPT ![p] = "2"]
    BY <1>5 DEF TryAcquire, Goto
  <2>2. /\ pc'[p] = "done" /\ exit'[p] = "2"
        /\ \A q \in Procs \ {p} : pc'[q] = pc[q] /\ exit'[q] = exit[q]
    BY <2>1 DEF CliInv, CliTypes
  <2>3. CliTypes' /\ Missing'
    BY <1>1, <2>1 DEF CliInv, CliTypes, Stations, Missing
  <2>4. OthersKept(p)
    BY <1>1, <1>2, <2>1, <2>2 DEF OthersKept, Inside
  <2>5. Holding(p)' /\ Detaching(p)'
    BY <1>1, <1>2, <1>3, <2>1, <2>2 DEF Holding, Detaching, Claiming
  <2>6. QED
    BY <2>3, <2>4, <2>5, FrameKeeps
<1>6. QED
  BY <1>4, <1>5

LEMMA StepParseArgs ==
  ASSUME CliInv, NEW p \in Procs, ParseArgs(p)
  PROVE  CliInv'
<1>1. UNCHANGED <<kernel, conns, blocked, exit>> /\ pc[p] = "parse"
  BY DEF ParseArgs, guard
<1>2. PICK a \in Invocations :
        CASE BadUsage(a)                -> Return(p, "parse", "2")
          [] a.mode \in {"help", "list"} -> Return(p, "parse", "0")
          [] a.mode = "flash" /\ a.pit = "unreadable" -> Return(p, "parse", "1")
          [] OTHER -> Goto(p, "parse", IF a.wireless THEN "listen" ELSE "select") /\ UNCHANGED code
  BY DEF ParseArgs
<1>3. \/ \E c \in {"0", "1", "2"} : Return(p, "parse", c)
      \/ \E to \in {"listen", "select"} : Goto(p, "parse", to) /\ UNCHANGED code
  BY <1>2, Zenon
<1>4. CASE \E c \in {"0", "1", "2"} : Return(p, "parse", c)
  <2>1. pc' = [pc EXCEPT ![p] = "leave"] /\ code' \in Codes
    BY <1>4 DEF Return, Goto, CliInv, CliTypes, Codes
  <2>2. QED
    BY <1>1, <2>1, MoveKeeps DEF Follows, Stations
<1>5. CASE \E to \in {"listen", "select"} : Goto(p, "parse", to) /\ UNCHANGED code
  <2>1. PICK to \in {"listen", "select"} : pc' = [pc EXCEPT ![p] = to] /\ UNCHANGED code
    BY <1>5 DEF Goto
  <2>2. code' \in Codes
    BY <2>1 DEF CliInv, CliTypes, Codes
  <2>3. QED
    BY <1>1, <2>1, <2>2, MoveKeeps DEF Follows, Stations
<1>6. QED
  BY <1>3, <1>4, <1>5

\* The way out from where a process is.
LEMMA LeaveKeeps ==
  ASSUME CliInv, NEW p \in Procs, NEW from \in Stations, NEW c \in {"0", "1", "2"},
         Return(p, from, c), Follows(from, "leave"), UNCHANGED <<kernel, conns, blocked, exit>>
  PROVE  CliInv'
<1>1. pc[p] = from /\ pc' = [pc EXCEPT ![p] = "leave"] /\ code' \in Codes
  BY DEF Return, Goto, CliInv, CliTypes, Codes
<1>2. QED
  BY <1>1, MoveKeeps DEF Stations

\* A move on.
LEMMA GoKeeps ==
  ASSUME CliInv, NEW p \in Procs, NEW from \in Stations, NEW to \in Stations,
         Goto(p, from, to), Follows(from, to) \/ (from = "open" /\ to = "detach" /\ todo[p] # << >>),
         UNCHANGED <<code, kernel, conns, blocked, exit>>
  PROVE  CliInv'
<1>1. pc[p] = from /\ pc' = [pc EXCEPT ![p] = to] /\ code' \in Codes
  BY DEF Goto, CliInv, CliTypes, Codes
<1>2. QED
  BY <1>1, MoveKeeps

LEMMA StepListen ==
  ASSUME CliInv, NEW p \in Procs, Listen(p)
  PROVE  CliInv'
<1>1. CASE port = None /\ Goto(p, "listen", "accept") /\ port' = p /\ UNCHANGED code
  <2>1. /\ pc[p] = "listen" /\ pc' = [pc EXCEPT ![p] = "accept"] /\ port' = p
        /\ UNCHANGED <<code, lock, claim, driver, todo, opened, detached, peer, blocked, exit>>
    BY <1>1 DEF Listen, Goto, conns, guard
  <2>2. pc'[p] = "accept" /\ \A q \in Procs \ {p} : pc'[q] = pc[q]
    BY <2>1 DEF CliInv, CliTypes
  <2>3. CliTypes' /\ Missing'
    BY <2>1 DEF CliInv, CliTypes, Stations, Missing
  <2>4. OthersKept(p)
    BY <2>1, <2>2 DEF CliInv, Locking, OthersKept, Inside
  <2>5. Holding(p) /\ Detaching(p) /\ InUse(p)' = InUse(p)
    BY <2>1 DEF CliInv, InUse
  <2>6. Holding(p)' /\ Detaching(p)'
    BY <2>1, <2>2, <2>5 DEF Holding, Detaching, Claiming
  <2>7. QED
    BY <2>3, <2>4, <2>6, FrameKeeps
<1>2. CASE Return(p, "listen", "1") /\ UNCHANGED port
  <2>1. Return(p, "listen", "1") /\ UNCHANGED <<kernel, conns, blocked, exit>>
    BY <1>2 DEF Listen, kernel, guard
  <2>2. QED
    BY <2>1, LeaveKeeps DEF Follows, Stations
<1>3. QED
  BY <1>1, <1>2 DEF Listen

LEMMA StepAccept ==
  ASSUME CliInv, NEW p \in Procs, Accept(p)
  PROVE  CliInv'
<1>1. /\ port' = None /\ pc[p] = "accept"
      /\ UNCHANGED <<lock, claim, driver, todo, opened, detached, blocked, exit>>
  BY DEF Accept, Goto, Return, guard
<1>2. PICK to \in {"verify", "leave"} : pc' = [pc EXCEPT ![p] = to]
  BY DEF Accept, Goto, Return
<1>3. peer' \in [Procs -> BOOLEAN] /\ \A q \in Procs \ {p} : peer'[q] = peer[q]
  BY DEF Accept, CliInv, CliTypes
<1>4. code' \in Codes
  BY DEF Accept, Return, CliInv, CliTypes, Codes
<1>5. pc'[p] = to /\ \A q \in Procs \ {p} : pc'[q] = pc[q]
  BY <1>2 DEF CliInv, CliTypes
<1>6. CliTypes' /\ Missing'
  BY <1>1, <1>2, <1>3, <1>4 DEF CliInv, CliTypes, Stations, Codes, Missing
<1>7. OthersKept(p)
  BY <1>1, <1>3, <1>5, CliAssumption DEF CliInv, Locking, OthersKept, Inside, CliAssumption
<1>8. Holding(p) /\ Detaching(p) /\ InUse(p)' = InUse(p)
  BY <1>1 DEF CliInv, InUse
<1>9. Holding(p)' /\ Detaching(p)'
  BY <1>1, <1>5, <1>8, CliAssumption DEF Holding, Detaching, Claiming, CliAssumption
<1>10. QED
  BY <1>6, <1>7, <1>9, FrameKeeps

LEMMA StepSelectDevices ==
  ASSUME CliInv, NEW p \in Procs, SelectDevices(p)
  PROVE  CliInv'
<1>1. CASE Chosen(args[p]) = {}
  <2>1. Return(p, "select", "1") /\ UNCHANGED <<kernel, conns, blocked, exit>>
    BY <1>1 DEF SelectDevices, conns, guard
  <2>2. QED
    BY <2>1, LeaveKeeps DEF Follows, Stations
<1>2. CASE Chosen(args[p]) # {}
  <2> DEFINE s == SetToSeq(Chosen(args[p]))
  <2>1. s \in Seq(Devices)
    BY ListedDevices, CliAssumption DEF Chosen, CliAssumption
  <2>2. /\ pc[p] = "select" /\ pc' = [pc EXCEPT ![p] = "open"] /\ todo' = [todo EXCEPT ![p] = s]
        /\ UNCHANGED <<code, lock, port, claim, driver, opened, detached, peer, blocked, exit>>
    BY <1>2 DEF SelectDevices, Goto, kernel, guard
  <2> HIDE DEF s
  <2>3. /\ pc'[p] = "open" /\ \A q \in Procs \ {p} : pc'[q] = pc[q] /\ todo'[q] = todo[q]
    BY <2>2 DEF CliInv, CliTypes
  <2>4. CliTypes' /\ Missing'
    BY <2>1, <2>2 DEF CliInv, CliTypes, Stations, Missing
  <2>5. OthersKept(p)
    BY <2>2, <2>3 DEF CliInv, Locking, OthersKept, Inside
  <2>6. Holding(p) /\ Detaching(p) /\ InUse(p)' = InUse(p)
    BY <2>2 DEF CliInv, InUse
  <2>7. Holding(p)' /\ Detaching(p)'
    BY <2>2, <2>3, <2>6 DEF Holding, Detaching, Claiming
  <2>8. QED
    BY <2>4, <2>5, <2>7, FrameKeeps
<1>3. QED
  BY <1>1, <1>2

LEMMA StepOpenDevice ==
  ASSUME CliInv, NEW p \in Procs, OpenDevice(p)
  PROVE  CliInv'
<1>1. UNCHANGED <<kernel, conns, blocked, exit>>
  BY DEF OpenDevice, guard
<1>2. CASE Return(p, "open", "1")
  BY <1>1, <1>2, LeaveKeeps DEF Follows, Stations
<1>3. CASE todo[p] # << >> /\ Goto(p, "open", "detach") /\ UNCHANGED code
  BY <1>1, <1>3, GoKeeps DEF Stations
<1>4. CASE Goto(p, "open", "verify") /\ UNCHANGED code
  BY <1>1, <1>4, GoKeeps DEF Follows, Stations
<1>5. QED
  BY <1>2, <1>3, <1>4 DEF OpenDevice

LEMMA StepDetachDriver ==
  ASSUME CliInv, NEW p \in Procs, DetachDriver(p)
  PROVE  CliInv'
<1> DEFINE d == Head(todo[p])
<1>1. pc[p] = "detach" /\ UNCHANGED <<lock, port, claim, todo, opened, peer, blocked, exit>>
  BY DEF DetachDriver, guard
<1>2. Holding(p) /\ Detaching(p) /\ InUse(p)' = InUse(p)
  BY <1>1 DEF CliInv, InUse
<1>3. d \in Devices
  <2>1. todo[p] \in Seq(Devices) /\ todo[p] # << >>
    BY <1>1, <1>2 DEF CliInv, CliTypes, Holding
  <2>2. QED
    BY <2>1
<1>4. CASE Return(p, "detach", "1") /\ UNCHANGED <<driver, detached>>
  <2>1. UNCHANGED <<kernel, conns, blocked, exit>>
    BY <1>1, <1>4 DEF kernel, conns
  <2>2. QED
    BY <1>4, <2>1, LeaveKeeps DEF Follows, Stations
<1>5. CASE /\ Goto(p, "detach", "claim") /\ UNCHANGED code
           /\ driver' = [driver EXCEPT ![d] = FALSE]
           /\ detached' = [detached EXCEPT ![p] = IF driver[d] THEN @ \cup {d} ELSE @]
  <2>1. pc' = [pc EXCEPT ![p] = "claim"] /\ UNCHANGED code
    BY <1>5 DEF Goto
  <2>2. pc'[p] = "claim" /\ \A q \in Procs \ {p} : pc'[q] = pc[q] /\ detached'[q] = detached[q]
    BY <1>5, <2>1 DEF CliInv, CliTypes
  <2>3. /\ detached'[p] = IF driver[d] THEN detached[p] \cup {d} ELSE detached[p]
        /\ driver'[d] = FALSE /\ \A e \in Devices \ {d} : driver'[e] = driver[e]
    BY <1>3, <1>5 DEF CliInv, CliTypes
  <2>4. CliTypes'
    <3>1. driver' \in [Devices -> BOOLEAN] /\ detached' \in [Procs -> SUBSET Devices]
      BY <1>3, <1>5 DEF CliInv, CliTypes
    <3>2. pc' \in [Procs -> Stations]
      BY <2>1 DEF CliInv, CliTypes, Stations
    <3>3. QED
      BY <1>1, <2>1, <3>1, <3>2 DEF CliInv, CliTypes
  <2>5. Missing'
    <3> SUFFICES ASSUME NEW e \in Bound, ~driver'[e] PROVE \E q \in Procs : e \in detached'[q]
      BY DEF Missing
    <3>1. e \in Devices /\ (driver[e] \/ \E q \in Procs : e \in detached[q])
      BY CliAssumption DEF CliAssumption, CliInv, Missing
    <3>2. CASE \E q \in Procs : e \in detached[q]
      BY <2>2, <2>3, <3>2
    <3>3. CASE driver[e]
      BY <2>3, <3>1, <3>3
    <3>4. QED
      BY <3>1, <3>2, <3>3
  <2>6. OthersKept(p)
    BY <1>1, <2>2 DEF CliInv, Locking, OthersKept, Inside
  <2>7. Holding(p)'
    BY <1>1, <1>2, <2>2 DEF Holding
  <2>8. Claiming(p)' = {d}
    BY <1>1, <2>2 DEF Claiming
  <2>9. Detaching(p)'
    BY <1>1, <1>2, <2>2, <2>3, <2>8 DEF Detaching, Claiming
  <2>10. QED
    BY <2>4, <2>5, <2>6, <2>7, <2>9, FrameKeeps
<1>6. QED
  BY <1>4, <1>5 DEF DetachDriver

\* A driver is put back where this process detached it.
LEMMA Reattached ==
  ASSUME CliInv, NEW p \in Procs, NEW d \in Devices, Reattach(p, d)
  PROVE  /\ driver' \in [Devices -> BOOLEAN] /\ detached' \in [Procs -> SUBSET Devices]
         /\ detached'[p] = detached[p] \ {d} /\ \A q \in Procs \ {p} : detached'[q] = detached[q]
         /\ Missing'
<1>1. /\ driver' \in [Devices -> BOOLEAN] /\ detached' \in [Procs -> SUBSET Devices]
      /\ detached'[p] = detached[p] \ {d} /\ \A q \in Procs \ {p} : detached'[q] = detached[q]
      /\ driver'[d] = (driver[d] \/ d \in detached[p])
      /\ \A e \in Devices \ {d} : driver'[e] = driver[e]
  BY DEF CliInv, CliTypes, Reattach
<1>2. Missing'
  <2> SUFFICES ASSUME NEW e \in Bound, ~driver'[e] PROVE \E q \in Procs : e \in detached'[q]
    BY DEF Missing
  <2>1. e \in Devices /\ ~driver[e]
    BY <1>1, CliAssumption DEF CliAssumption
  <2>2. PICK q \in Procs : e \in detached[q]
    BY <2>1 DEF CliInv, Missing
  <2>3. CASE q = p
    BY <1>1, <2>1, <2>2, <2>3
  <2>4. CASE q # p
    BY <1>1, <2>2, <2>4
  <2>5. QED
    BY <2>3, <2>4
<1>3. QED
  BY <1>1, <1>2

LEMMA StepClaimDevice ==
  ASSUME CliInv, NEW p \in Procs, ClaimDevice(p)
  PROVE  CliInv'
<1> DEFINE d == Head(todo[p])
<1>1. pc[p] = "claim" /\ UNCHANGED <<lock, port, peer, blocked, exit>>
  BY DEF ClaimDevice, guard
<1>2. Holding(p) /\ Detaching(p)
  BY DEF CliInv
<1>3. todo[p] \in Seq(Devices) /\ todo[p] # << >> /\ opened[p] \in Seq(Devices)
  BY <1>1, <1>2 DEF CliInv, CliTypes, Holding
<1>4. d \in Devices /\ Tail(todo[p]) \in Seq(Devices) /\ Claiming(p) = {d}
  BY <1>1, <1>3 DEF Claiming
<1>5. CASE Claimed(p, d)
  <2>1. /\ pc' = [pc EXCEPT ![p] = "open"] /\ claim' = [claim EXCEPT ![d] = p]
        /\ opened' = [opened EXCEPT ![p] = Append(opened[p], d)]
        /\ todo' = [todo EXCEPT ![p] = Tail(todo[p])]
        /\ UNCHANGED <<driver, detached, code>>
    BY <1>5 DEF Claimed, Goto
  <2>2. /\ pc'[p] = "open" /\ opened'[p] = Append(opened[p], d)
        /\ \A q \in Procs \ {p} : pc'[q] = pc[q] /\ opened'[q] = opened[q] /\ todo'[q] = todo[q]
        /\ claim'[d] = p /\ \A e \in Devices \ {d} : claim'[e] = claim[e]
    BY <1>4, <2>1 DEF CliInv, CliTypes
  <2>3. CliTypes' /\ Missing'
    <3>1. Append(opened[p], d) \in Seq(Devices)
      BY <1>3, <1>4
    <3>2. opened' \in [Procs -> Seq(Devices)] /\ todo' \in [Procs -> Seq(Devices)]
      BY <1>4, <2>1, <3>1 DEF CliInv, CliTypes
    <3>3. pc' \in [Procs -> Stations] /\ claim' \in [Devices -> Procs \cup {None}]
      BY <1>4, <2>1 DEF CliInv, CliTypes, Stations
    <3>4. QED
      BY <1>1, <2>1, <3>2, <3>3 DEF CliInv, CliTypes, Missing
  <2>4. InUse(p) \cup {d} \subseteq InUse(p)'
    <3>1. Len(opened'[p]) = Len(opened[p]) + 1 /\ Len(opened[p]) \in Nat /\ opened'[p][Len(opened[p]) + 1] = d
      BY <1>3, <1>4, <2>2
    <3>2. \A i \in 1 .. Len(opened[p]) : opened'[p][i] = opened[p][i]
      BY <1>3, <1>4, <2>2
    <3>3. Len(opened[p]) + 1 \in 1 .. Len(opened'[p]) /\ 1 .. Len(opened[p]) \subseteq 1 .. Len(opened'[p])
      BY <3>1
    <3>4. QED
      BY <3>1, <3>2, <3>3 DEF InUse
  <2>5. OthersKept(p)
    BY <1>1, <1>4, <2>1, <2>2 DEF CliInv, Locking, OthersKept, Inside
  <2>6. Holding(p)'
    BY <1>1, <1>2, <2>2, <2>4 DEF Holding
  <2>7. Detaching(p)'
    BY <1>1, <1>2, <1>4, <2>1, <2>2, <2>4 DEF Detaching
  <2>8. QED
    BY <2>3, <2>5, <2>6, <2>7, FrameKeeps
<1>6. CASE Return(p, "claim", "1") /\ Reattach(p, d) /\ UNCHANGED <<claim, todo, opened>>
  <2>1. pc' = [pc EXCEPT ![p] = "leave"] /\ code' \in Codes
    BY <1>6 DEF Return, Goto, CliInv, CliTypes, Codes
  <2>2. pc'[p] = "leave" /\ \A q \in Procs \ {p} : pc'[q] = pc[q]
    BY <2>1 DEF CliInv, CliTypes
  <2>3. /\ driver' \in [Devices -> BOOLEAN] /\ detached' \in [Procs -> SUBSET Devices] /\ Missing'
        /\ detached'[p] = detached[p] \ {d} /\ \A q \in Procs \ {p} : detached'[q] = detached[q]
    BY <1>4, <1>6, Reattached
  <2>4. CliTypes'
    BY <1>1, <1>6, <2>1, <2>3 DEF CliInv, CliTypes, Stations, Codes
  <2>5. OthersKept(p)
    BY <1>1, <1>6, <2>2, <2>3 DEF CliInv, Locking, OthersKept, Inside
  <2>6. InUse(p)' = InUse(p)
    BY <1>6 DEF InUse
  <2>7. Holding(p)'
    BY <1>1, <1>2, <1>6, <2>2, <2>6 DEF Holding
  <2>8. Detaching(p)'
    BY <1>1, <1>2, <1>4, <2>2, <2>3, <2>6 DEF Detaching
  <2>9. QED
    BY <2>3, <2>4, <2>5, <2>7, <2>8, FrameKeeps
<1>7. QED
  BY <1>5, <1>6 DEF ClaimDevice

LEMMA StepVerify ==
  ASSUME CliInv, NEW p \in Procs, Verify(p)
  PROVE  CliInv'
<1>1. UNCHANGED <<kernel, conns, blocked, exit>>
  BY DEF Verify, guard
<1>2. CASE Return(p, "verify", "1")
  BY <1>1, <1>2, LeaveKeeps DEF Follows, Stations
<1>3. CASE Goto(p, "verify", "expand") /\ UNCHANGED code
  BY <1>1, <1>3, GoKeeps DEF Follows, Stations
<1>4. QED
  BY <1>2, <1>3 DEF Verify

LEMMA StepExpandInputs ==
  ASSUME CliInv, NEW p \in Procs, ExpandInputs(p)
  PROVE  CliInv'
<1>1. UNCHANGED <<kernel, conns, blocked, exit>>
  BY DEF ExpandInputs, guard
<1>2. Return(p, "expand", "1") \/ (Goto(p, "expand", "flash") /\ UNCHANGED code)
  BY DEF ExpandInputs, Flash
<1>3. CASE Return(p, "expand", "1")
  BY <1>1, <1>3, LeaveKeeps DEF Follows, Stations
<1>4. CASE Goto(p, "expand", "flash") /\ UNCHANGED code
  BY <1>1, <1>4, GoKeeps DEF Follows, Stations
<1>5. QED
  BY <1>2, <1>3, <1>4

LEMMA StepShieldUp ==
  ASSUME CliInv, NEW p \in Procs, ShieldUp(p)
  PROVE  CliInv'
<1>1. /\ pc[p] = "flash" /\ pc' = [pc EXCEPT ![p] = "shielded"]
      /\ UNCHANGED <<lock, port, claim, driver>>
      /\ UNCHANGED <<todo, opened, detached, peer>> /\ UNCHANGED <<code, exit>>
  BY DEF ShieldUp, Goto, kernel, conns
<1>2. blocked' \in [Procs -> BOOLEAN] /\ \A q \in Procs \ {p} : blocked'[q] = blocked[q]
  BY DEF ShieldUp, CliInv, CliTypes
<1>3. pc'[p] = "shielded" /\ \A q \in Procs \ {p} : pc'[q] = pc[q]
  BY <1>1 DEF CliInv, CliTypes
<1>4. CliTypes' /\ Missing'
  BY <1>1, <1>2 DEF CliInv, CliTypes, Stations, Missing
<1>5. OthersKept(p)
  BY <1>1, <1>2, <1>3 DEF CliInv, Locking, OthersKept, Inside
<1>6. Holding(p) /\ Detaching(p) /\ InUse(p)' = InUse(p)
  BY <1>1 DEF CliInv, InUse
<1>7. Holding(p)' /\ Detaching(p)'
  BY <1>1, <1>3, <1>6 DEF Holding, Detaching, Claiming
<1>8. QED
  BY <1>4, <1>5, <1>7, FrameKeeps

LEMMA StepFlashReturns ==
  ASSUME CliInv, NEW p \in Procs, FlashReturns(p)
  PROVE  CliInv'
<1>1. UNCHANGED <<kernel, conns, blocked, exit>>
  BY DEF FlashReturns, guard
<1>2. PICK from \in {"flash", "shielded"}, c \in {"0", "1"} : Return(p, from, c)
  BY DEF FlashReturns
<1>3. QED
  BY <1>1, <1>2, LeaveKeeps DEF Follows, Stations

LEMMA StepReleaseDevice ==
  ASSUME CliInv, NEW p \in Procs, ReleaseDevice(p)
  PROVE  CliInv'
<1> DEFINE d == Head(opened[p])
<1>1. /\ pc[p] = "leave" /\ opened[p] # << >> /\ Reattach(p, d)
      /\ claim' = [claim EXCEPT ![d] = None] /\ opened' = [opened EXCEPT ![p] = Tail(opened[p])]
      /\ UNCHANGED <<lock, port, pc, todo, peer, blocked, code, exit>>
  BY DEF ReleaseDevice, guard
<1>2. opened[p] \in Seq(Devices)
  BY DEF CliInv, CliTypes
<1>3. d \in Devices /\ Tail(opened[p]) \in Seq(Devices)
  BY <1>1, <1>2
<1>4. /\ driver' \in [Devices -> BOOLEAN] /\ detached' \in [Procs -> SUBSET Devices] /\ Missing'
      /\ detached'[p] = detached[p] \ {d} /\ \A q \in Procs \ {p} : detached'[q] = detached[q]
  BY <1>1, <1>3, Reattached
<1>5. /\ opened'[p] = Tail(opened[p]) /\ \A q \in Procs \ {p} : opened'[q] = opened[q]
      /\ claim'[d] = None /\ \A e \in Devices \ {d} : claim'[e] = claim[e]
  BY <1>1, <1>3 DEF CliInv, CliTypes
<1>6. CliTypes'
  <2>1. opened' \in [Procs -> Seq(Devices)] /\ claim' \in [Devices -> Procs \cup {None}]
    BY <1>1, <1>3 DEF CliInv, CliTypes
  <2>2. QED
    BY <1>1, <1>4, <2>1 DEF CliInv, CliTypes
<1>7. InUse(p) \subseteq InUse(p)' \cup {d}
  <2>1. /\ Len(opened[p]) \in Nat /\ Len(opened'[p]) = Len(opened[p]) - 1 /\ d = opened[p][1]
        /\ \A i \in 1 .. Len(opened'[p]) : opened'[p][i] = opened[p][i + 1]
    <3>1. opened[p] # << >> /\ opened'[p] = Tail(opened[p])
      BY <1>1, <1>5
    <3>2. QED
      BY <1>2, <3>1
  <2>2. ASSUME NEW i \in 1 .. Len(opened[p]), i # 1 PROVE opened[p][i] \in InUse(p)'
    <3>1. i - 1 \in 1 .. Len(opened'[p]) /\ (i - 1) + 1 = i
      BY <2>1, <2>2
    <3>2. opened'[p][i - 1] = opened[p][i]
      BY <2>1, <3>1
    <3>3. QED
      BY <3>1, <3>2 DEF InUse
  <2>3. QED
    BY <2>1, <2>2 DEF InUse
<1>8. OthersKept(p)
  BY <1>1, <1>4, <1>5, CliAssumption DEF CliInv, Locking, OthersKept, Inside, CliAssumption
<1>9. Holding(p) /\ Detaching(p)
  BY DEF CliInv
<1>10. Holding(p)'
  <2>1. \A e \in Devices : claim'[e] = p => e \in InUse(p)'
    BY <1>5, <1>7, <1>9, CliAssumption DEF Holding, CliAssumption
  <2>2. QED
    BY <1>1, <1>9, <2>1 DEF Holding
<1>11. Detaching(p)'
  BY <1>1, <1>4, <1>7, <1>9 DEF Detaching, Claiming
<1>12. QED
  BY <1>4, <1>6, <1>8, <1>10, <1>11, FrameKeeps

LEMMA StepShieldDown ==
  ASSUME CliInv, NEW p \in Procs, ShieldDown(p)
  PROVE  CliInv'
<1>1. /\ opened[p] = << >> /\ pc[p] = "leave" /\ pc' = [pc EXCEPT ![p] = "join"]
      /\ peer' = [peer EXCEPT ![p] = FALSE]
      /\ UNCHANGED <<lock, port, claim, driver>> /\ UNCHANGED <<todo, opened, detached, blocked>>
      /\ UNCHANGED <<code, exit>>
  BY DEF ShieldDown, Goto, kernel
<1>2. /\ pc'[p] = "join" /\ peer'[p] = FALSE
      /\ \A q \in Procs \ {p} : pc'[q] = pc[q] /\ peer'[q] = peer[q]
  BY <1>1 DEF CliInv, CliTypes
<1>3. CliTypes' /\ Missing'
  BY <1>1 DEF CliInv, CliTypes, Stations, Missing
<1>4. OthersKept(p)
  BY <1>1, <1>2 DEF CliInv, Locking, OthersKept, Inside
<1>5. Holding(p) /\ Detaching(p) /\ InUse(p)' = InUse(p)
  BY <1>1 DEF CliInv, InUse
<1>6. Holding(p)' /\ Detaching(p)'
  BY <1>1, <1>2, <1>5 DEF Holding, Detaching, Claiming
<1>7. QED
  BY <1>3, <1>4, <1>6, FrameKeeps

\* A process that is killed has nothing any more, but a driver may stay detached.
LEMMA KilledKeeps ==
  ASSUME CliInv, NEW p \in Procs, Killed(p), pc[p] # "done"
  PROVE  CliInv'
<1> USE CliAssumption DEF CliAssumption
<1>1. /\ pc' = [pc EXCEPT ![p] = "done"] /\ exit' = [exit EXCEPT ![p] = "killed"]
      /\ lock' = (IF lock = p THEN None ELSE lock)
      /\ port' = (IF port = p THEN None ELSE port)
      /\ claim' = [d \in Devices |-> IF claim[d] = p THEN None ELSE claim[d]]
      /\ opened' = [opened EXCEPT ![p] = << >>] /\ peer' = [peer EXCEPT ![p] = FALSE]
      /\ blocked' = [blocked EXCEPT ![p] = FALSE]
      /\ UNCHANGED <<driver, todo, detached, code>>
  BY DEF Killed
<1>2. /\ pc'[p] = "done" /\ exit'[p] = "killed" /\ opened'[p] = << >> /\ peer'[p] = FALSE
      /\ blocked'[p] = FALSE
      /\ \A q \in Procs \ {p} : /\ pc'[q] = pc[q] /\ exit'[q] = exit[q] /\ opened'[q] = opened[q]
                                /\ peer'[q] = peer[q] /\ blocked'[q] = blocked[q]
  BY <1>1 DEF CliInv, CliTypes
<1>3. \A d \in Devices : claim'[d] # p /\ (claim'[d] = claim[d] \/ claim'[d] = None)
  BY <1>1
<1>4. lock' # p /\ port' # p /\ lock' \in {lock, None} /\ port' \in {port, None}
  BY <1>1
<1>5. CliTypes'
  <2>1. lock' \in Procs \cup {None} /\ port' \in Procs \cup {None}
    BY <1>4 DEF CliInv, CliTypes
  <2>2. claim' \in [Devices -> Procs \cup {None}]
    BY <1>1 DEF CliInv, CliTypes
  <2>3. opened' \in [Procs -> Seq(Devices)]
    BY <1>1 DEF CliInv, CliTypes
  <2>4. /\ pc' \in [Procs -> Stations] /\ exit' \in [Procs -> {"none", "0", "1", "2", "killed"}]
        /\ peer' \in [Procs -> BOOLEAN] /\ blocked' \in [Procs -> BOOLEAN]
    BY <1>1 DEF CliInv, CliTypes, Stations
  <2>5. QED
    BY <1>1, <2>1, <2>2, <2>3, <2>4 DEF CliInv, CliTypes
<1>6. Missing'
  BY <1>1 DEF CliInv, Missing
<1>7. OthersKept(p)
  <2>1. ~Inside(p)' /\ lock' # p
    BY <1>2, <1>4 DEF Inside
  <2>2. ASSUME NEW q \in Procs \ {p}
        PROVE  (lock' = q <=> lock = q) /\ (port' = q => port = q)
    BY <1>1, <2>2
  <2>3. QED
    BY <1>1, <1>2, <1>3, <2>1, <2>2 DEF OthersKept
<1>8. Holding(p)' /\ Detaching(p)'
  BY <1>2, <1>3, <1>4 DEF Holding, Detaching
<1>9. QED
  BY <1>5, <1>6, <1>7, <1>8, FrameKeeps

LEMMA StepRestore ==
  ASSUME CliInv, NEW p \in Procs, Restore(p)
  PROVE  CliInv'
<1>1. pc[p] = "join"
  BY DEF Restore
<1>2. CASE pending[p] # {}
  BY <1>1, <1>2, KilledKeeps DEF Restore
<1>3. CASE pending[p] = {}
  <2>1. /\ pc' = [pc EXCEPT ![p] = "unlock"] /\ blocked' = [blocked EXCEPT ![p] = FALSE]
        /\ UNCHANGED <<lock, port, claim, driver>> /\ UNCHANGED <<todo, opened, detached, peer>>
        /\ UNCHANGED <<code, exit>>
    BY <1>3 DEF Restore, Goto, kernel, conns
  <2>2. /\ pc'[p] = "unlock" /\ blocked'[p] = FALSE
        /\ \A q \in Procs \ {p} : pc'[q] = pc[q] /\ blocked'[q] = blocked[q]
    BY <2>1 DEF CliInv, CliTypes
  <2>3. CliTypes' /\ Missing'
    BY <2>1 DEF CliInv, CliTypes, Stations, Missing
  <2>4. OthersKept(p)
    BY <1>1, <2>1, <2>2 DEF CliInv, Locking, OthersKept, Inside
  <2>5. Holding(p) /\ Detaching(p) /\ InUse(p)' = InUse(p)
    BY <2>1 DEF CliInv, InUse
  <2>6. Holding(p)' /\ Detaching(p)'
    BY <1>1, <2>1, <2>2, <2>5 DEF Holding, Detaching, Claiming
  <2>7. QED
    BY <2>3, <2>4, <2>6, FrameKeeps
<1>4. QED
  BY <1>2, <1>3

LEMMA StepUnlock ==
  ASSUME CliInv, NEW p \in Procs, Unlock(p)
  PROVE  CliInv'
<1>1. /\ pc[p] = "unlock" /\ pc' = [pc EXCEPT ![p] = "done"] /\ lock' = None
      /\ exit' = [exit EXCEPT ![p] = code[p]]
      /\ UNCHANGED <<port, claim, driver>> /\ UNCHANGED <<todo, opened, detached, peer>>
      /\ UNCHANGED <<blocked, code>>
  BY DEF Unlock, Goto, conns, guard
<1>2. code[p] \in {"0", "1", "2"} /\ lock = p
  BY <1>1 DEF CliInv, CliTypes, Locking, Inside
<1>3. /\ pc'[p] = "done" /\ exit'[p] = code[p]
      /\ \A q \in Procs \ {p} : pc'[q] = pc[q] /\ exit'[q] = exit[q]
  BY <1>1 DEF CliInv, CliTypes
<1>4. CliTypes' /\ Missing'
  BY <1>1, <1>2 DEF CliInv, CliTypes, Stations, Missing
<1>5. OthersKept(p)
  BY <1>1, <1>2, <1>3, CliAssumption DEF OthersKept, Inside, CliAssumption
<1>6. Holding(p) /\ Detaching(p) /\ InUse(p)' = InUse(p)
  BY <1>1 DEF CliInv, InUse
<1>7. Holding(p)' /\ Detaching(p)'
  BY <1>1, <1>2, <1>3, <1>6 DEF Holding, Detaching, Claiming
<1>8. QED
  BY <1>4, <1>5, <1>7, FrameKeeps

LEMMA StepInterrupt ==
  ASSUME CliInv, NEW p \in Procs, Interrupt(p)
  PROVE  CliInv'
<1>1. CASE blocked[p]
  BY <1>1, IdleKeeps DEF Interrupt
<1>2. CASE ~blocked[p]
  BY <1>2, KilledKeeps DEF Interrupt
<1>3. QED
  BY <1>1, <1>2

LEMMA CliSteps == CliInv /\ [CliNext]_cliVars => CliInv'
<1> SUFFICES ASSUME CliInv, [CliNext]_cliVars PROVE CliInv'
  OBVIOUS
<1>1. CASE UNCHANGED cliVars
  BY <1>1, IdleKeeps DEF cliVars, guard
<1>2. ASSUME NEW p \in Procs, Flashing(p) \/ EarlyFailure(p) \/ Watch(p) PROVE CliInv'
  BY <1>2, IdleKeeps DEF Flashing, EarlyFailure, Watch, cliVars, guard
<1>3. ASSUME NEW p \in Procs, MainStep(p) PROVE CliInv'
  BY <1>2, <1>3, StepTryAcquire, StepParseArgs, StepListen, StepAccept, StepSelectDevices, StepOpenDevice,
     StepDetachDriver, StepClaimDevice, StepVerify, StepExpandInputs, StepShieldUp, StepFlashReturns,
     StepReleaseDevice, StepShieldDown, StepRestore, StepUnlock DEF MainStep
<1>4. QED
  BY <1>1, <1>2, <1>3, StepInterrupt DEF CliNext

LEMMA CliHolds == Spec => []CliInv
<1>1. Init => CliInv
  BY CliStarts DEF Init
<1>2. CliInv /\ [Next]_vars => CliInv'
  BY CliSteps, ProgramSteps
<1>3. QED
  BY <1>1, <1>2, PTL DEF Spec

\* A process has devices, the port, a connection, a detached driver, a blocked mask or a
\* flash only while it has the lock of the only instance (single_instance.cpp), whatever
\* the number of processes and wherever they are killed.
THEOREM LockCovers == Spec => []HeldUnderLock
<1>1. CliInv => HeldUnderLock
  <2> SUFFICES ASSUME CliInv, NEW p \in Procs
               PROVE  /\ ( \/ port = p
                           \/ peer[p] \/ blocked[p]
                           \/ \E d \in Devices : claim[d] = p
                           \/ detached[p] # {} /\ exit[p] # "killed"
                           \/ pc[p] \in {"flash", "shielded"} ) => lock = p
                      /\ exit[p] # "none" => lock # p
    BY DEF HeldUnderLock
  <2>1. Holding(p) /\ Detaching(p) /\ (lock = p <=> Inside(p))
    BY DEF CliInv, Locking
  <2>2. opened[p] = << >> => InUse(p) = {}
    BY DEF InUse
  <2>3. detached[p] # {} /\ exit[p] # "killed" => opened[p] # << >> \/ pc[p] = "claim"
    BY <2>1, <2>2 DEF Detaching, Claiming
  <2>4. exit[p] # "none" => lock # p
    BY <2>1 DEF Detaching, Inside
  <2>5. QED
    BY <2>1, <2>2, <2>3, <2>4 DEF Holding, Inside
<1>2. QED
  BY <1>1, CliHolds, PTL

\* As long as the user sent no signal, the only one that waits is that of a shield that
\* is being stopped, whose watcher has not gone.
Woken ==
  /\ signals \in Nat
  /\ pending \in [Procs -> SUBSET {"INT", "TERM"}]
  /\ shield \in [Procs -> {"none", "waiting", "stopping", "gone"}]
  /\ signals = 0 => \A p \in Procs :
       /\ exit[p] # "killed" /\ pending[p] \subseteq {"TERM"}
       /\ pending[p] # {} => shield[p] = "stopping"

LEMMA WokenStep ==
  ASSUME CliInv, Woken, NEW p \in Procs, MainStep(p) \/ Watch(p) \/ Interrupt(p)
  PROVE  Woken'
<1> USE DEF Woken
<1>0. exit \in [Procs -> {"none", "0", "1", "2", "killed"}] /\ code \in [Procs -> {"0", "1", "2"}]
  BY DEF CliInv, CliTypes
<1>1. CASE TryAcquire(p)
  BY <1>0, <1>1 DEF TryAcquire, guard
<1>2. CASE Unlock(p)
  <2>1. exit' = [exit EXCEPT ![p] = code[p]] /\ code[p] # "killed"
    BY <1>0, <1>2 DEF Unlock
  <2>2. \A q \in Procs : exit'[q] = "killed" => exit[q] = "killed"
    BY <1>0, <2>1
  <2>3. UNCHANGED <<signals, pending, shield>>
    BY <1>2 DEF Unlock, guard
  <2>4. QED
    BY <2>2, <2>3
<1>3. CASE ShieldUp(p)
  <2>1. shield[p] = "none" /\ shield' \in {shield, [shield EXCEPT ![p] = "waiting"]}
    BY <1>3 DEF ShieldUp
  <2>2. UNCHANGED <<signals, pending, exit>>
    BY <1>3 DEF ShieldUp
  <2>3. QED
    BY <2>1, <2>2
<1>4. CASE ShieldDown(p)
  <2>1. UNCHANGED <<signals, exit>>
    BY <1>4 DEF ShieldDown
  <2>2. CASE shield[p] = "none"
    BY <1>4, <2>1, <2>2 DEF ShieldDown
  <2>3. CASE shield[p] # "none"
    <3>1. /\ shield' = [shield EXCEPT ![p] = "stopping"]
          /\ pending' = [pending EXCEPT ![p] = @ \cup {"TERM"}]
      BY <1>4, <2>3 DEF ShieldDown
    <3>2. QED
      BY <2>1, <3>1
  <2>4. QED
    BY <2>2, <2>3
<1>5. CASE Watch(p)
  <2>1. UNCHANGED <<signals, exit>> /\ shield[p] \in {"waiting", "stopping"}
    BY <1>5 DEF Watch
  <2>2. PICK s \in pending[p] : pending' = [pending EXCEPT ![p] = @ \ {s}]
    BY <1>5 DEF Watch
  <2>3. shield' = [shield EXCEPT ![p] = IF @ = "stopping" THEN "gone" ELSE @]
    BY <1>5 DEF Watch
  <2>4. QED
    BY <2>1, <2>2, <2>3
<1>6. ASSUME Killed(p), UNCHANGED signals \/ signals' = signals + 1,
             signals' # 0
      PROVE  Woken'
  BY <1>6 DEF Killed
<1>7. CASE Restore(p)
  <2>1. signals' = signals /\ shield[p] \in {"none", "gone"}
    BY <1>7 DEF Restore
  <2>2. CASE pending[p] # {}
    BY <1>6, <1>7, <2>1, <2>2 DEF Restore
  <2>3. CASE pending[p] = {}
    <3>1. shield' = [shield EXCEPT ![p] = "none"] /\ UNCHANGED <<pending, exit>>
      BY <1>7, <2>3 DEF Restore
    <3>2. QED
      BY <2>1, <2>3, <3>1
  <2>4. QED
    BY <2>2, <2>3
<1>8. CASE Interrupt(p)
  <2>1. signals' = signals + 1
    BY <1>8 DEF Interrupt
  <2>2. CASE blocked[p]
    <3>1. pending' = [pending EXCEPT ![p] = @ \cup {"INT"}] /\ UNCHANGED <<shield, exit>>
      BY <1>8, <2>2 DEF Interrupt
    <3>2. QED
      BY <2>1, <3>1
  <2>3. CASE ~blocked[p]
    BY <1>6, <1>8, <2>1, <2>3 DEF Interrupt
  <2>4. QED
    BY <2>2, <2>3
<1>9. CASE \/ ParseArgs(p) \/ Listen(p) \/ Accept(p) \/ SelectDevices(p)
           \/ OpenDevice(p) \/ DetachDriver(p) \/ ClaimDevice(p) \/ Verify(p) \/ ExpandInputs(p)
           \/ Flashing(p) \/ EarlyFailure(p) \/ FlashReturns(p) \/ ReleaseDevice(p)
  <2>1. UNCHANGED <<signals, pending, shield, exit>>
    BY <1>9 DEF ParseArgs, Listen, Accept, SelectDevices, OpenDevice, DetachDriver, ClaimDevice,
                Verify, ExpandInputs, Flashing, EarlyFailure, FlashReturns, ReleaseDevice, guard, cliVars
  <2>2. QED
    BY <2>1
<1>10. QED
  BY <1>1, <1>2, <1>3, <1>4, <1>5, <1>7, <1>8, <1>9 DEF MainStep

\* The signal that wakes the watcher of a shield ends no process, whatever the number of
\* processes and wherever they are interrupted: where one was killed, the user has sent a
\* signal (signal_shield.cpp).
THEOREM WakeUpIsTaken == Spec => []WakeUpTaken
<1>1. Init => Woken
  <2>1. ASSUME NEW at \in {"start", "off"}, CliInit(at) PROVE Woken
    BY <2>1 DEF CliInit, Woken
  <2>2. QED
    BY <2>1 DEF Init
<1>2. CliInv /\ Woken /\ [Next]_vars => Woken'
  <2> SUFFICES ASSUME CliInv, Woken, [CliNext]_cliVars PROVE Woken'
    BY ProgramSteps
  <2>1. CASE UNCHANGED cliVars
    BY <2>1 DEF Woken, cliVars, guard
  <2>2. CASE CliNext
    BY <2>2, WokenStep DEF CliNext
  <2>3. QED
    BY <2>1, <2>2
<1>3. Woken => WakeUpTaken
  BY DEF Woken, WakeUpTaken
<1>4. QED
  BY <1>1, <1>2, <1>3, CliHolds, PTL DEF Spec

\* A driver that the kernel had bound is missing only while a process has its device or
\* where one was killed, a process that returns leaves none detached, and none is killed
\* but by the user (usbfs_device.cpp, signal_shield.cpp).
THEOREM DriversComeBack == Spec => []DriversReturn
<1>1. CliInv /\ WakeUpTaken => DriversReturn
  <2> SUFFICES ASSUME CliInv, NEW p \in Procs, exit[p] \in {"0", "1", "2"}
               PROVE  detached[p] = {}
    BY DEF CliInv, Missing, DriversReturn
  <2>1. Holding(p) /\ Detaching(p)
    BY DEF CliInv
  <2>2. pc[p] = "done" /\ opened[p] = << >>
    BY <2>1 DEF Detaching, Holding
  <2>3. InUse(p) = {}
    BY <2>2 DEF InUse
  <2>4. QED
    BY <2>1, <2>2, <2>3 DEF Detaching, Claiming
<1>2. QED
  BY <1>1, CliHolds, WakeUpIsTaken, PTL

-----------------------------------------------------------------------------
(***************************************************************************)
(* The app's way into the engine (NativeBridge).                           *)
(***************************************************************************)
BridgeInv ==
  /\ bpc \in {"off", "create", "run", "expand", "flash", "return", "done"}
  /\ bpc \in {"run", "expand", "flash", "return"} => session = "live"
  /\ IF Answered THEN told \in {<<"ok">>, <<"error", "failed">>} ELSE told = << >>

LEMMA BridgeSteps == BridgeInv /\ [BridgeNext]_bridgeVars => BridgeInv'
<1> SUFFICES ASSUME BridgeInv, [BridgeNext]_bridgeVars PROVE BridgeInv'
  OBVIOUS
<1> USE DEF BridgeInv, Answered, Go
<1>1. ASSUME NEW from \in {"run", "expand", "flash"}, GiveUp(from) PROVE BridgeInv'
  <2>1. bpc = from /\ bpc' = "return" /\ session' = session /\ told' = told \o <<"error", "failed">>
    BY <1>1 DEF GiveUp
  <2>2. told = << >> /\ session = "live"
    BY <2>1
  <2>3. << >> \o <<"error", "failed">> = <<"error", "failed">>
    OBVIOUS
  <2>4. QED
    BY <2>1, <2>2, <2>3
<1>2. CASE CreateSession
  BY <1>2 DEF CreateSession
<1>3. CASE Extract
  BY <1>1, <1>3 DEF Extract
<1>4. CASE Prepare
  BY <1>1, <1>4 DEF Prepare
<1>5. CASE RunFlash
  BY <1>5 DEF RunFlash, bridgeVars
<1>6. CASE Report
  <2>1. CASE outcome = "ok"
    <3>1. bpc = "flash" /\ bpc' = "return" /\ session' = session /\ told' = Append(told, "ok")
      BY <1>6, <2>1 DEF Report
    <3>2. told = << >> /\ session = "live"
      BY <3>1
    <3>3. Append(<< >>, "ok") = <<"ok">>
      OBVIOUS
    <3>4. QED
      BY <3>1, <3>2, <3>3
  <2>2. CASE outcome # "ok"
    BY <1>1, <1>6, <2>2 DEF Report
  <2>3. QED
    BY <2>1, <2>2
<1>7. CASE DestroySession
  BY <1>7 DEF DestroySession
<1>8. CASE UNCHANGED bridgeVars
  BY <1>8 DEF bridgeVars
<1>9. QED
  BY <1>2, <1>3, <1>4, <1>5, <1>6, <1>7, <1>8 DEF BridgeNext

LEMMA BridgeHolds == Spec => []BridgeInv
<1>1. Init => BridgeInv
  BY DEF Init, BridgeInit, BridgeInv, Answered
<1>2. BridgeInv /\ [Next]_vars => BridgeInv'
  BY BridgeSteps, ProgramSteps
<1>3. QED
  BY <1>1, <1>2, PTL DEF Spec

\* A session of the app gives exactly one verdict, as the last thing it says and before
\* it is freed, and says why when it is a bad one (native-lib.cpp, EkoNativeBridge).
THEOREM SessionsAnswer == Spec => []BridgeAnswers
<1>1. BridgeInv => BridgeAnswers
  <2> SUFFICES ASSUME BridgeInv PROVE BridgeAnswers
    OBVIOUS
  <2>1. CASE ~Answered
    BY <2>1 DEF BridgeInv, BridgeAnswers
  <2>2. CASE Answered /\ told = <<"ok">>
    BY <2>2 DEF BridgeInv, BridgeAnswers, Answered, Last
  <2>3. CASE Answered /\ told = <<"error", "failed">>
    BY <2>3 DEF BridgeInv, BridgeAnswers, Answered, Last
  <2>4. QED
    BY <2>1, <2>2, <2>3 DEF BridgeInv
<1>2. QED
  BY <1>1, BridgeHolds, PTL

-----------------------------------------------------------------------------
(***************************************************************************)
(* How an image is cut into windows (WindowPlan).                          *)
(***************************************************************************)
CutTypes ==
  /\ size \in Nat \ {0} /\ packed \in BOOLEAN
  /\ sent \in Nat /\ read \in Nat
  /\ closed \in BOOLEAN /\ refused \in BOOLEAN

\* The image as far as it was cut.
CutInv ==
  /\ CutTypes
  /\ packed => MaxBlocks > 0
  /\ WindowsExact

PlanInv ==
  /\ CutInv
  /\ window \in [begin : Nat, end : Nat, rounded : Nat]
  /\ WindowsPadded

-----------------------------------------------------------------------------
(***************************************************************************)
(* The arithmetic of the cut.                                              *)
(***************************************************************************)

\* Quotient and remainder of an index computed modulo the size of a ring.
LEMMA DivMod ==
  ASSUME NEW n \in Nat, NEW m \in Nat \ {0}
  PROVE  /\ n \div m \in Nat /\ n % m \in 0 .. m - 1
         /\ n = m * (n \div m) + (n % m)
OBVIOUS

\* Distinct multiples of m are at least m apart.
LEMMA MulStep ==
  ASSUME NEW m \in Nat \ {0}, NEW p \in Nat, NEW q \in Nat, p < q
  PROVE  m * p + m <= m * q
<1>1. q - p \in Nat \ {0}
  OBVIOUS
<1>2. PICK e \in Nat : q = p + 1 + e
  <2>1. q - p - 1 \in Nat
    OBVIOUS
  <2> QED BY <2>1
<1>3. m * q = m * p + m + m * e
  BY <1>2
<1>4. m * e >= 0
  OBVIOUS
<1> QED BY <1>3, <1>4

\* Quotient and remainder are determined by the number.
LEMMA ModUnique ==
  ASSUME NEW m \in Nat \ {0}, NEW p \in Nat, NEW q \in Nat,
         NEW r \in 0 .. m - 1, NEW s \in 0 .. m - 1,
         m * p + r = m * q + s
  PROVE  p = q /\ r = s
<1>1. ~(p < q)
  BY MulStep, m*p \in Nat, m*q \in Nat
<1>2. ~(q < p)
  BY MulStep, m*p \in Nat, m*q \in Nat
<1> QED BY <1>1, <1>2, m*p \in Nat, m*q \in Nat

\* A number of blocks rounded up, as total_blocks_1m does.
LEMMA CeilBounds ==
  ASSUME NEW n \in Nat, NEW m \in Nat \ {0}
  PROVE  LET c == (n + (m - 1)) \div m
         IN  c \in Nat /\ n <= m * c /\ m * c < n + m
<1> DEFINE a == n + (m - 1)
<1>1. a \in Nat
  OBVIOUS
<1>2. a \div m \in Nat /\ a % m \in 0 .. m - 1 /\ a = m * (a \div m) + (a % m)
  BY <1>1, DivMod
<1>3. m * (a \div m) \in Nat
  BY <1>2
<1>4. QED
  BY <1>2, <1>3

\* Blocks that end before the image does are fewer than all.
LEMMA CeilAbove ==
  ASSUME NEW n \in Nat, NEW m \in Nat \ {0}, NEW q \in Nat, m * q < n
  PROVE  q < (n + (m - 1)) \div m
<1> DEFINE c == (n + (m - 1)) \div m
<1>1. c \in Nat /\ n <= m * c
  BY CeilBounds
<1>2. ASSUME c <= q PROVE FALSE
  <2>1. c < q => m * c + m <= m * q
    BY <1>1, MulStep
  <2>2. m * c \in Nat /\ m * q \in Nat
    BY <1>1
  <2>3. m * c <= m * q
    BY <1>1, <1>2, <2>1, <2>2
  <2>4. QED
    BY <1>1, <2>2, <2>3
<1>3. QED
  BY <1>1, <1>2

\* The content of k blocks is k blocks.
LEMMA DivProduct ==
  ASSUME NEW k \in Nat, NEW m \in Nat \ {0}
  PROVE  (k * m) \div m = k
<1> DEFINE a == k * m
<1>1. a \in Nat /\ a = m * k + 0 /\ 0 \in 0 .. m - 1
  OBVIOUS
<1>2. a \div m \in Nat /\ a % m \in 0 .. m - 1 /\ a = m * (a \div m) + (a % m)
  BY <1>1, DivMod
<1>3. m * (a \div m) + (a % m) = m * k + 0
  BY <1>1, <1>2
<1>4. a \div m = k
  BY <1>1, <1>2, <1>3, ModUnique
<1>5. QED
  BY <1>4

\* round_up64 gives the next whole number of packets.
LEMMA RoundUpBounds ==
  ASSUME NEW n \in Nat, NEW base \in Nat \ {0}
  PROVE  /\ RoundUp64(n, base) \in Nat /\ RoundUp64(n, base) % base = 0
         /\ n <= RoundUp64(n, base) /\ RoundUp64(n, base) < n + base
<1> DEFINE q == n \div base
           r == n % base
<1>1. q \in Nat /\ r \in 0 .. base - 1 /\ n = base * q + r
  BY DivMod
<1>2. CASE r = 0
  BY <1>2 DEF RoundUp64
<1>3. CASE r # 0
  <2> DEFINE u == n + (base - r)
  <2>1. RoundUp64(n, base) = u
    BY <1>3 DEF RoundUp64
  <2>2. u \in Nat /\ u = base * (q + 1) + 0 /\ 0 \in 0 .. base - 1
    BY <1>1
  <2>3. u \div base \in Nat /\ u % base \in 0 .. base - 1 /\ u = base * (u \div base) + (u % base)
    BY <2>2, DivMod
  <2>4. base * (u \div base) + (u % base) = base * (q + 1) + 0
    BY <2>2, <2>3
  <2>5. u % base = 0
    BY <1>1, <2>2, <2>3, <2>4, ModUnique
  <2>6. n <= u /\ u < n + base
    BY <1>1, <1>3
  <2>7. QED
    BY <2>1, <2>2, <2>5, <2>6
<1>4. QED
  BY <1>2, <1>3

LEMMA MaxBlocksNat == MaxBlocks \in Nat
<1>1. BufferBytes \div OneMiB \in Nat
  BY WindowAssumption, DivMod
<1>2. QED
  BY <1>1, WindowAssumption DEF MaxBlocks, Least

-----------------------------------------------------------------------------
(***************************************************************************)
(* The steps.                                                              *)
(***************************************************************************)

\* Any window of a positive payload is padded as WindowsPadded says.
LEMMA PadsWindow ==
  ASSUME NEW n \in Nat \ {0}
  PROVE  /\ RoundUp64(n, Pkt) \in Nat /\ RoundUp64(n, Pkt) % Pkt = 0
         /\ n > 0 /\ n <= RoundUp64(n, Pkt) /\ RoundUp64(n, Pkt) < n + Pkt
BY WindowAssumption, RoundUpBounds

LEMMA PlanStarts == CutInit => PlanInv
<1> SUFFICES ASSUME CutInit PROVE PlanInv
  OBVIOUS
<1>1. CutTypes /\ window \in [begin : Nat, end : Nat, rounded : Nat]
  BY WindowAssumption DEF CutInit, CutTypes, NoWindow
<1>2. packed => MaxBlocks > 0
  BY DEF CutInit
<1>3. WindowsExact
  <2>1. 0 * OneMiB = 0
    BY WindowAssumption
  <2>2. QED
    BY <1>1, <2>1 DEF WindowsExact, CutInit, CutTypes
<1>4. WindowsPadded
  <2>1. 0 \div Pkt \in Nat /\ 0 % Pkt \in 0 .. Pkt - 1 /\ 0 = Pkt * (0 \div Pkt) + (0 % Pkt)
    BY WindowAssumption, DivMod
  <2>2. Pkt * (0 \div Pkt) \in Nat
    BY <2>1, WindowAssumption
  <2>3. 0 % Pkt = 0
    BY <2>1, <2>2, WindowAssumption
  <2>4. QED
    BY <2>3 DEF WindowsPadded, CutInit, NoWindow
<1>5. QED
  BY <1>1, <1>2, <1>3, <1>4 DEF PlanInv, CutInv

\* An image that is opened.
LEMMA OpenCut ==
  ASSUME NEW s \in Int, NEW p \in BOOLEAN, OpenImage(s, p)
  PROVE  CutInv' /\ size' = s /\ packed' = p /\ sent' = 0
<1>1. /\ size' = s /\ packed' = p /\ sent' = 0 /\ read' = 0 /\ closed' = FALSE /\ refused' = FALSE
      /\ s > 0 /\ (p => MaxBlocks > 0)
  BY Zenon DEF OpenImage
<1>2. size' \in Nat \ {0} /\ 0 * OneMiB = 0
  BY <1>1, WindowAssumption
<1>3. CutTypes'
  BY <1>1, <1>2 DEF CutTypes
<1>4. WindowsExact'
  BY <1>1, <1>2 DEF WindowsExact
<1>5. MaxBlocks' = MaxBlocks
  BY DEF MaxBlocks
<1>6. QED
  BY <1>1, <1>3, <1>4, <1>5 DEF CutInv

\* A plain window: the buffer or what is left of the image.
LEMMA PlainCut ==
  ASSUME CutInv, CutPlain
  PROVE  CutInv' /\ Actual \in Nat \ {0}
<1> USE DEF CutInv, CutTypes
<1>1. sent < size /\ Rem = size - sent /\ Rem \in Nat \ {0}
  BY DEF CutPlain, More, Rem
<1>2. Actual \in Nat \ {0} /\ Actual <= Rem
  BY <1>1, WindowAssumption DEF Actual, Least
<1>3. size' = size /\ sent' = sent + Actual /\ closed' = (sent + Actual >= size)
  BY DEF CutPlain
<1>4. /\ ~packed /\ ~packed' /\ ~refused /\ ~refused' /\ read' = read
      /\ packed' = packed /\ refused' = refused
  BY DEF CutPlain, More
<1>5. CutTypes'
  <2>1. sent' \in Nat /\ size' \in Nat \ {0} /\ read' \in Nat
    BY <1>2, <1>3, <1>4
  <2>2. closed' \in BOOLEAN
    BY <1>3
  <2>3. packed' \in BOOLEAN /\ refused' \in BOOLEAN
    BY <1>4
  <2>4. QED
    BY <2>1, <2>2, <2>3
<1>6. WindowsExact'
  <2>1. sent' <= size' /\ (sent + Actual >= size <=> sent' = size')
    BY <1>1, <1>2, <1>3
  <2>2. closed' <=> sent' = size'
    BY <1>3, <2>1
  <2>3. QED
    BY <1>4, <2>1, <2>2 DEF WindowsExact
<1>7. QED
  BY <1>2, <1>4, <1>5, <1>6

LEMMA PlainInv == PlanInv /\ CutPlain => PlanInv'
<1> SUFFICES ASSUME PlanInv, CutPlain PROVE PlanInv'
  OBVIOUS
<1>1. CutInv' /\ Actual \in Nat \ {0}
  BY PlainCut DEF PlanInv
<1>2. ~packed' /\ window' = [begin |-> RoundUp64(Actual, Pkt), end |-> Actual, rounded |-> RoundUp64(Actual, Pkt)]
  BY DEF CutPlain
<1>3. RoundUp64(Actual, Pkt) \in Nat
  BY <1>1, PadsWindow
<1>4. window' \in [begin : Nat, end : Nat, rounded : Nat]
  BY <1>1, <1>2, <1>3
<1>5. WindowsPadded'
  BY <1>1, <1>2, PadsWindow DEF WindowsPadded
<1>6. QED
  BY <1>1, <1>4, <1>5 DEF PlanInv

\* A compressed window: as many blocks as it is told to carry content of.
LEMMA PackedCounts ==
  ASSUME CutInv, packed, More
  PROVE  /\ ~Overasked /\ ContentNext \in Nat \ {0} /\ ContentNext <= Rem
         /\ BlocksNext \in Nat
         /\ Rem = size - sent /\ Blocks1m \in Nat /\ read < Blocks1m /\ ~closed /\ sent = read * OneMiB
         /\ LastPacked => ContentNext = Rem /\ read + BlocksNext = Blocks1m
         /\ ~LastPacked => ContentNext < Rem /\ sent + ContentNext = (read + BlocksNext) * OneMiB
<1> USE DEF CutInv, CutTypes
<1> DEFINE M == OneMiB
<1>a. M \in Nat \ {0} /\ MaxBlocks \in Nat \ {0}
  BY WindowAssumption, MaxBlocksNat
<1>b. packed /\ sent < size /\ ~refused /\ Rem = size - sent /\ Rem \in Nat \ {0}
  BY DEF More, Rem
<1>c. ~closed /\ sent = read * M
  BY <1>b DEF WindowsExact
<1>d. Blocks1m \in Nat /\ size <= M * Blocks1m
  BY <1>a, CeilBounds DEF Blocks1m
<1>e. read < Blocks1m
  <2>1. M * read < size
    BY <1>a, <1>b, <1>c
  <2>2. QED
    BY <1>a, <2>1, CeilAbove DEF Blocks1m
<1>f. MaxBlocks * M \in Nat \ {0}
  BY <1>a
\* The frame reader has the blocks, and they are the content.
<1>1. /\ ~Overasked /\ ContentNext \in Nat \ {0} /\ ContentNext <= Rem
      /\ BlocksNext \in Nat
      /\ LastPacked => ContentNext = Rem /\ read + BlocksNext = Blocks1m
      /\ ~LastPacked => ContentNext < Rem /\ sent + ContentNext = (read + BlocksNext) * M
  <2>1. CASE LastPacked
    <3>1. ContentNext = Rem /\ BlocksNext = BlocksRemaining
      BY <2>1 DEF ContentNext, BlocksNext
    <3>2. BlocksRemaining = Blocks1m - read
      BY <1>d, <1>e DEF BlocksRemaining
    <3>3. BlocksNext \in Nat /\ read + BlocksNext = Blocks1m
      BY <1>d, <1>e, <3>1, <3>2
    <3>4. ~Overasked
      BY <1>d, <3>3 DEF Overasked
    <3>5. QED
      BY <1>b, <2>1, <3>1, <3>3, <3>4
  <2>2. CASE ~LastPacked
    <3>1. ContentNext = MaxBlocks * M
      BY <2>2 DEF ContentNext
    <3>2. ContentNext < Rem
      BY <1>b, <1>f, <2>2, <3>1 DEF LastPacked
    <3>3. BlocksNext = (MaxBlocks * M) \div M
      BY <2>2, <3>1 DEF BlocksNext
    <3>4. BlocksNext = MaxBlocks
      BY <1>a, <3>3, DivProduct
    <3>5. (read + MaxBlocks) * M = read * M + MaxBlocks * M
      BY <1>a
    <3>6. sent + ContentNext = (read + BlocksNext) * M
      BY <1>c, <3>1, <3>4, <3>5
    <3>7. M * (read + MaxBlocks) < size
      <4>1. sent + ContentNext < size
        BY <1>b, <1>f, <3>1, <3>2
      <4>2. M * (read + MaxBlocks) = (read + MaxBlocks) * M
        BY <1>a
      <4>3. QED
        BY <3>4, <3>6, <4>1, <4>2
    <3>8. read + MaxBlocks < Blocks1m
      <4>1. read + MaxBlocks \in Nat /\ size \in Nat /\ M \in Nat \ {0}
        BY <1>a
      <4> HIDE DEF CutInv
      <4>2. QED
        BY <3>7, <4>1, CeilAbove DEF Blocks1m
    <3>9. ~Overasked
      BY <1>a, <1>d, <3>4, <3>8 DEF Overasked
    <3>10. ContentNext \in Nat \ {0} /\ BlocksNext \in Nat
      BY <1>a, <1>f, <3>1, <3>4
    <3>11. ContentNext <= Rem
      BY <1>b, <3>2, <3>10
    <3>12. QED
      BY <2>2, <3>2, <3>6, <3>9, <3>10, <3>11
  <2>3. QED
    BY <2>1, <2>2
<1>2. QED
  BY <1>1, <1>b, <1>c, <1>d, <1>e

LEMMA PackedCut ==
  ASSUME CutInv, NEW comp, CutPacked(comp)
  PROVE  /\ CutInv' /\ packed' = packed /\ size' = size
         /\ read' = read + BlocksNext /\ sent' = sent + ContentNext
         /\ window' = [begin |-> comp, end |-> ContentNext, rounded |-> RoundUp64(comp, Pkt)]
<1> USE DEF CutInv, CutTypes
<1>b. packed /\ More /\ ~refused
  BY DEF CutPacked, More
<1>1. /\ ~Overasked /\ ContentNext \in Nat \ {0} /\ ContentNext <= Rem
      /\ BlocksNext \in Nat /\ Rem = size - sent
      /\ LastPacked => ContentNext = Rem /\ read + BlocksNext = Blocks1m
      /\ ~LastPacked => ContentNext < Rem /\ sent + ContentNext = (read + BlocksNext) * OneMiB
  BY <1>b, PackedCounts
<1>2. /\ read' = read + BlocksNext /\ sent' = sent + ContentNext
      /\ size' = size
      /\ window' = [begin |-> comp, end |-> ContentNext, rounded |-> RoundUp64(comp, Pkt)]
  BY <1>1 DEF CutPacked
<1>3. /\ (closed' <=> LastPacked) /\ closed' \in BOOLEAN
      /\ packed' /\ ~refused' /\ packed' = packed /\ refused' = refused
  <2>1. closed' = LastPacked /\ packed' = packed /\ refused' = refused
    BY <1>1, Zenon DEF CutPacked
  <2>2. LastPacked \in BOOLEAN
    BY DEF LastPacked
  <2>3. QED
    BY <1>b, <2>1, <2>2, Zenon
<1>5. CutTypes'
  <2>1. sent' \in Nat /\ size' \in Nat \ {0} /\ read' \in Nat
    BY <1>1, <1>2
  <2>2. packed' \in BOOLEAN /\ refused' \in BOOLEAN
    BY <1>3
  <2>3. QED
    BY <1>3, <2>1, <2>2
<1>6. WindowsExact'
  <2>1. Blocks1m' = Blocks1m
    BY <1>2 DEF Blocks1m
  <2>2. sent' <= size' /\ (ContentNext = Rem <=> sent' = size')
    BY <1>1, <1>2
  <2>3. LastPacked <=> ContentNext = Rem
    BY <1>1
  <2>4. closed' <=> sent' = size'
    BY <1>3, <2>2, <2>3
  <2>5. LastPacked => read' = Blocks1m'
    BY <1>1, <1>2, <2>1
  <2>6. ~LastPacked => sent' = read' * OneMiB
    BY <1>1, <1>2
  <2>7. QED
    BY <1>3, <2>2, <2>4, <2>5, <2>6 DEF WindowsExact
<1>7. MaxBlocks' = MaxBlocks /\ MaxBlocks > 0
  BY <1>b DEF MaxBlocks
<1>8. QED
  BY <1>2, <1>3, <1>5, <1>6, <1>7

LEMMA PackedInv ==
  ASSUME PlanInv, NEW comp \in PackedSizes, CutPacked(comp)
  PROVE  PlanInv'
<1>1. /\ CutInv' /\ packed' = packed
      /\ window' = [begin |-> comp, end |-> ContentNext, rounded |-> RoundUp64(comp, Pkt)]
  BY PackedCut DEF PlanInv
<1>2. packed /\ ContentNext \in Nat \ {0}
  BY PackedCounts DEF PlanInv, CutPacked
<1>3. comp \in Nat \ {0} /\ RoundUp64(comp, Pkt) \in Nat
  BY WindowAssumption, PadsWindow
<1>4. window' \in [begin : Nat, end : Nat, rounded : Nat]
  BY <1>1, <1>2, <1>3
<1>5. WindowsPadded'
  BY <1>1, <1>2, <1>3, PadsWindow DEF WindowsPadded
<1>6. QED
  BY <1>1, <1>4, <1>5 DEF PlanInv

LEMMA PlanSteps == PlanInv /\ [CutNext]_plan => PlanInv'
<1> SUFFICES ASSUME PlanInv, [CutNext]_plan PROVE PlanInv'
  OBVIOUS
<1>1. CASE \E comp \in PackedSizes : CutPacked(comp)
  BY <1>1, PackedInv
<1>2. CASE CutPlain
  BY <1>2, PlainInv
<1>3. CASE UNCHANGED plan
  BY <1>3 DEF plan, PlanInv, CutInv, CutTypes, WindowsExact, WindowsPadded, Blocks1m, NoWindow, MaxBlocks
<1>4. QED
  BY <1>1, <1>2, <1>3 DEF CutNext

-----------------------------------------------------------------------------
\* The windows of an image, as group_flasher.cpp cuts them, carry all of it and
\* nothing else, and the reader of a compressed image gives exactly its blocks,
\* whatever the sizes.
THEOREM CutExact == CutSpec => []WindowsExact
<1>1. PlanInv => WindowsExact
  BY DEF PlanInv, CutInv
<1>2. QED
  BY PlanStarts, PlanSteps, <1>1, PTL DEF CutSpec

\* What is sent of a window is a whole number of packets, less than one more than
\* its payload.
THEOREM CutPadded == CutSpec => []WindowsPadded
<1>1. PlanInv => WindowsPadded
  BY DEF PlanInv
<1>2. QED
  BY PlanStarts, PlanSteps, <1>1, PTL DEF CutSpec

-----------------------------------------------------------------------------
(***************************************************************************)
(* The wireless listener (WirelessListener).                               *)
(***************************************************************************)
Places == {"unborn", "bind", "enter", "tell", "check", "select", "accept", "install", "replace",
           "look", "poll", "finally", "done"}

MainTypes ==
  /\ switches \in Nat /\ started \in Nat /\ started + switches <= MaxSwitches
  /\ enabled \in BOOLEAN /\ listenerAddress \in BOOLEAN /\ overlapped \in BOOLEAN
  /\ listenerThread \in Nat /\ listenerThread <= started /\ listener \in Nat
  /\ stopping \in [active : BOOLEAN, thread : Nat, listener : Nat, phone : Nat]
  /\ stopping.thread <= started
  /\ status \in {"none", "starting", "listening", "connected"}

ThreadTypes ==
  /\ lpc \in [Threads -> Places] /\ held \in [Threads -> Nat]
  /\ interrupted \subseteq Nat /\ \A t \in interrupted : t <= started
  /\ bound \subseteq Threads /\ selectors \subseteq Threads /\ shut \subseteq Threads

PhoneTypes ==
  /\ phones \in Nat /\ left \subseteq Nat
  /\ open \subseteq Nat \ {0} /\ \A c \in open : c <= phones
  /\ connectedTransport \in Nat /\ connectedTransport <= phones
  /\ \A t \in Threads : held[t] <= phones

\* What the main thread has done: a stop leaves nothing published, and no thread is past
\* the last start.
Mode ==
  /\ ~stopping.active => stopping = NotStopping
  /\ stopping.active => ~enabled
  /\ ~enabled => listener = Nobody /\ listenerThread = Nobody
  /\ \A t \in Threads : lpc[t] = "unborn" <=> t > started

\* A thread that has not published its channel is known to nobody, and a channel that has
\* the port is one of these, or published, or about to be closed.
Early(t) == lpc[t] \in {"unborn", "bind", "enter"}
Ports ==
  /\ \A t \in Threads : Early(t) => t \notin {listener, stopping.listener} /\ t \notin shut
  /\ \A t \in Threads : lpc[t] = "enter" => t \in bound
  /\ \A t \in Threads : lpc[t] \in {"unborn", "bind"} => t \notin bound
  /\ \A t \in bound : lpc[t] = "enter" \/ t \in {listener, stopping.listener}
  /\ \A t, u \in bound : t = u

\* Without an overlap only the thread of the last start lives, nobody has interrupted
\* it, and from its entry on its channel is the one published.
Serving(t) == lpc[t] = "tell" \/ InLoop(t)
Alone ==
  enabled =>
    /\ listenerThread \notin interrupted
    /\ ~overlapped => Living \subseteq {listenerThread}
    /\ \A t \in Threads : t = listenerThread /\ ~overlapped /\ Serving(t) =>
         listener = t /\ t \in bound /\ t \notin shut

\* What the store shows while the first thread runs alone.
Shown ==
  /\ connectedTransport = Nobody => status = "listening"
  /\ connectedTransport # Nobody => status = "connected" \/ connectedTransport \in left
First ==
  /\ started = 0 => connectedTransport = Nobody
  /\ enabled /\ started = 1 =>
    /\ listenerThread = 1 /\ ~overlapped
    /\ connectedTransport # Nobody => connectedTransport \in open \cup left
    /\ Early(1) => connectedTransport = Nobody
    /\ Serving(1) => listenerAddress
    /\ lpc[1] = "tell" => connectedTransport = Nobody
    /\ lpc[1] \in {"check", "select", "accept", "install", "look", "poll"} => Shown
    /\ lpc[1] = "install" => held[1] \in open \ {connectedTransport}
    /\ lpc[1] = "replace" => connectedTransport # Nobody /\ held[1] # connectedTransport
    /\ lpc[1] = "poll" => held[1] = connectedTransport

ListenerInv == MainTypes /\ ThreadTypes /\ PhoneTypes /\ Mode /\ Ports /\ ConnectionsOwned /\ Alone /\ First

-----------------------------------------------------------------------------
\* Every step keeps the types of what the main thread writes.
LEMMA StepMainTypes == ListenerInv /\ [WirelessNext]_wirelessVars => MainTypes'
<1> SUFFICES ASSUME ListenerInv, [WirelessNext]_wirelessVars PROVE MainTypes'
  OBVIOUS
<1> USE WirelessAssumption
<1> USE DEF ListenerInv, MainTypes, Mode, WirelessAssumption, manager, main, sockets, Nobody, Threads
<1>1. CASE StartListening
  <2>1. CASE StartAgain
    BY <1>1, <2>1 DEF StartListening, StartAgain, StartThread, Living, Connected
  <2>2. CASE StartThread
    BY <1>1, <2>2 DEF StartListening, StartAgain, StartThread, Living, Connected
  <2>3. QED
    BY <1>1, <2>1, <2>2 DEF StartListening
<1>2. CASE StopListening
  <2>1. stopping' = [active |-> TRUE, thread |-> listenerThread, listener |-> listener,
                     phone |-> connectedTransport]
    BY <1>2 DEF StopListening
  <2>2. /\ stopping' \in [active : BOOLEAN, thread : Nat, listener : Nat, phone : Nat]
        /\ stopping'.thread <= started
    BY <2>1 DEF PhoneTypes
  <2>3. switches' \in Nat /\ started' = started /\ started' + switches' <= MaxSwitches
    BY <1>2 DEF StopListening
  <2>4. enabled' = FALSE /\ listenerAddress' = FALSE /\ overlapped' = overlapped
    BY <1>2, ZenonT(20) DEF StopListening
  <2>5. /\ listenerThread' \in Nat /\ listenerThread' <= started' /\ listener' \in Nat
        /\ started' \in Nat /\ stopping'.thread <= started'
        /\ status' \in {"none", "starting", "listening", "connected"}
    BY <1>2, <2>2 DEF StopListening
  <2>6. enabled' \in BOOLEAN /\ listenerAddress' \in BOOLEAN /\ overlapped' \in BOOLEAN
    BY <2>4
  <2>7. QED
    BY <2>2, <2>3, <2>5, <2>6, Zenon
<1>3. CASE CloseStopped
  BY <1>3 DEF CloseStopped, NotStopping
<1>4. CASE HangUp
  BY <1>4 DEF HangUp
<1>5. ASSUME NEW t \in Threads, ListenerStep(t) PROVE MainTypes'
  <2>1. CASE Bind(t)
    BY <2>1 DEF Bind, Move
  <2>2. CASE Enter(t)
    <3>1. CASE enabled /\ listener' = t /\ listenerAddress' = TRUE
      BY <2>2, <3>1 DEF Enter
    <3>2. CASE UNCHANGED <<listener, listenerAddress>>
      BY <2>2, <3>2 DEF Enter
    <3>3. QED
      BY <2>2, <3>1, <3>2 DEF Enter
  <2>3. CASE TellListening(t)
    BY <2>3 DEF TellListening, Move
  <2>4. CASE CheckEnabled(t)
    BY <2>4 DEF CheckEnabled, Move
  <2>5. CASE Select(t)
    BY <2>5 DEF Select, Move
  <2>6. CASE AcceptFails(t)
    BY <2>6 DEF AcceptFails, Move
  <2>7. CASE HandleAccept(t)
    BY <2>7 DEF HandleAccept, Move
  <2>15. CASE AcceptThrows(t)
    BY <2>15 DEF AcceptThrows, Move
  <2>8. CASE AcceptNothing(t)
    BY <2>8 DEF AcceptNothing, Move
  <2>9. CASE Install(t)
    BY <2>9 DEF Install, Move
  <2>10. CASE CloseReplaced(t)
    BY <2>10 DEF CloseReplaced, Move
  <2>11. CASE Look(t)
    BY <2>11 DEF Look, Move
  <2>12. CASE Drop(t)
    BY <2>12 DEF Drop, Move, Connected
  <2>13. CASE EndLoop(t)
    BY <2>13 DEF EndLoop, Move
  <2>14. QED
    BY <1>5, <2>1, <2>2, <2>3, <2>4, <2>5, <2>6, <2>7, <2>8, <2>9, <2>10, <2>11, <2>12,
       <2>13, <2>15 DEF ListenerStep
<1>6. CASE UNCHANGED wirelessVars
  BY <1>6 DEF wirelessVars
<1>7. QED
  BY <1>1, <1>2, <1>3, <1>4, <1>5, <1>6 DEF WirelessNext

\* Every step keeps the types of what the listener threads write.
LEMMA StepThreadTypes == ListenerInv /\ [WirelessNext]_wirelessVars => ThreadTypes'
<1> SUFFICES ASSUME ListenerInv, [WirelessNext]_wirelessVars PROVE ThreadTypes'
  OBVIOUS
<1> USE WirelessAssumption
<1> USE DEF ListenerInv, MainTypes, ThreadTypes, PhoneTypes, Mode, WirelessAssumption, Places,
            manager, main, sockets, Nobody, Threads
<1>1. CASE StartListening
  <2>1. CASE StartAgain
    BY <1>1, <2>1 DEF StartListening, StartAgain, StartThread, Living, Connected
  <2>2. CASE StartThread
    BY <1>1, <2>2 DEF StartListening, StartAgain, StartThread, Living, Connected
  <2>3. QED
    BY <1>1, <2>1, <2>2 DEF StartListening
<1>2. CASE StopListening
  BY <1>2 DEF StopListening
<1>3. CASE CloseStopped
  BY <1>3 DEF CloseStopped, NotStopping
<1>4. CASE HangUp
  BY <1>4 DEF HangUp
<1>5. ASSUME NEW t \in Threads, ListenerStep(t) PROVE ThreadTypes'
  <2>1. CASE Bind(t)
    BY <2>1 DEF Bind, Move
  <2>2. CASE Enter(t)
    BY <2>2 DEF Enter, Move
  <2>3. CASE TellListening(t)
    BY <2>3 DEF TellListening, Move
  <2>4. CASE CheckEnabled(t)
    BY <2>4 DEF CheckEnabled, Move
  <2>5. CASE Select(t)
    BY <2>5 DEF Select, Move
  <2>6. CASE AcceptFails(t)
    BY <2>6 DEF AcceptFails, Move
  <2>7. CASE HandleAccept(t)
    BY <2>7 DEF HandleAccept, Move
  <2>15. CASE AcceptThrows(t)
    BY <2>15 DEF AcceptThrows, Move
  <2>8. CASE AcceptNothing(t)
    BY <2>8 DEF AcceptNothing, Move
  <2>9. CASE Install(t)
    BY <2>9 DEF Install, Move
  <2>10. CASE CloseReplaced(t)
    BY <2>10 DEF CloseReplaced, Move
  <2>11. CASE Look(t)
    <3>1. CASE Move(t, "look", "poll") /\ held' = [held EXCEPT ![t] = connectedTransport]
      BY <2>11, <3>1 DEF Look, Move
    <3>2. CASE Move(t, "look", "finally") /\ UNCHANGED held
      BY <2>11, <3>2 DEF Look, Move
    <3>3. QED
      BY <2>11, <3>1, <3>2 DEF Look
  <2>12. CASE Drop(t)
    <3>1. CASE Move(t, "poll", "check") /\ UNCHANGED <<connectedTransport, open>>
      BY <2>12, <3>1 DEF Drop, Move, Connected
    <3>2. CASE held[t] # Nobody /\ ~Connected(held[t]) /\ Move(t, "poll", "tell")
      BY <2>12, <3>2 DEF Drop, Move, Connected
    <3>3. QED
      BY <2>12, <3>1, <3>2 DEF Drop
  <2>13. CASE EndLoop(t)
    BY <2>13 DEF EndLoop, Move
  <2>14. QED
    BY <1>5, <2>1, <2>2, <2>3, <2>4, <2>5, <2>6, <2>7, <2>8, <2>9, <2>10, <2>11, <2>12,
       <2>13, <2>15 DEF ListenerStep
<1>6. CASE UNCHANGED wirelessVars
  BY <1>6 DEF wirelessVars
<1>7. QED
  BY <1>1, <1>2, <1>3, <1>4, <1>5, <1>6 DEF WirelessNext

\* Every step keeps the connections among those that phones made.
LEMMA StepPhoneTypes == ListenerInv /\ [WirelessNext]_wirelessVars => PhoneTypes'
<1> SUFFICES ASSUME ListenerInv, [WirelessNext]_wirelessVars PROVE PhoneTypes'
  OBVIOUS
<1> USE WirelessAssumption
<1> USE DEF ListenerInv, MainTypes, ThreadTypes, PhoneTypes, Mode, WirelessAssumption, Places,
            manager, main, sockets, Nobody, Threads
<1>1. CASE StartListening
  <2>1. CASE StartAgain
    BY <1>1, <2>1 DEF StartListening, StartAgain, StartThread, Living, Connected
  <2>2. CASE StartThread
    BY <1>1, <2>2 DEF StartListening, StartAgain, StartThread, Living, Connected
  <2>3. QED
    BY <1>1, <2>1, <2>2 DEF StartListening
<1>2. CASE StopListening
  BY <1>2 DEF StopListening
<1>3. CASE CloseStopped
  BY <1>3 DEF CloseStopped, NotStopping
<1>4. CASE HangUp
  BY <1>4 DEF HangUp
<1>5. ASSUME NEW t \in Threads, ListenerStep(t) PROVE PhoneTypes'
  <2>1. CASE Bind(t)
    BY <2>1 DEF Bind, Move
  <2>2. CASE Enter(t)
    BY <2>2 DEF Enter, Move
  <2>3. CASE TellListening(t)
    BY <2>3 DEF TellListening, Move
  <2>4. CASE CheckEnabled(t)
    BY <2>4 DEF CheckEnabled, Move
  <2>5. CASE Select(t)
    BY <2>5 DEF Select, Move
  <2>6. CASE AcceptFails(t)
    BY <2>6 DEF AcceptFails, Move
  <2>7. CASE HandleAccept(t)
    BY <2>7 DEF HandleAccept, Move
  <2>15. CASE AcceptThrows(t)
    BY <2>15 DEF AcceptThrows, Move
  <2>8. CASE AcceptNothing(t)
    BY <2>8 DEF AcceptNothing, Move
  <2>9. CASE Install(t)
    BY <2>9 DEF Install, Move
  <2>10. CASE CloseReplaced(t)
    <3>1. \A u \in Threads : held'[u] <= phones
      BY <2>10 DEF CloseReplaced
    <3>2. open' \subseteq open
      BY <2>10 DEF CloseReplaced
    <3>3. QED
      BY <2>10, <3>1, <3>2 DEF CloseReplaced
  <2>11. CASE Look(t)
    <3>1. CASE Move(t, "look", "poll") /\ held' = [held EXCEPT ![t] = connectedTransport]
      BY <2>11, <3>1 DEF Look, Move
    <3>2. CASE Move(t, "look", "finally") /\ UNCHANGED held
      BY <2>11, <3>2 DEF Look, Move
    <3>3. QED
      BY <2>11, <3>1, <3>2 DEF Look
  <2>12. CASE Drop(t)
    <3>1. CASE Move(t, "poll", "check") /\ UNCHANGED <<connectedTransport, open>>
      BY <2>12, <3>1 DEF Drop, Move, Connected
    <3>2. CASE held[t] # Nobody /\ ~Connected(held[t]) /\ Move(t, "poll", "tell")
      <4>1. \A u \in Threads : held'[u] <= phones
        BY <2>12 DEF Drop
      <4>2. open' \subseteq open
        BY <2>12 DEF Drop
      <4>3. connectedTransport' \in {Nobody, connectedTransport}
        BY <2>12 DEF Drop
      <4>4. QED
        BY <2>12, <4>1, <4>2, <4>3 DEF Drop
    <3>3. QED
      BY <2>12, <3>1, <3>2 DEF Drop
  <2>13. CASE EndLoop(t)
    BY <2>13 DEF EndLoop, Move
  <2>14. QED
    BY <1>5, <2>1, <2>2, <2>3, <2>4, <2>5, <2>6, <2>7, <2>8, <2>9, <2>10, <2>11, <2>12,
       <2>13, <2>15 DEF ListenerStep
<1>6. CASE UNCHANGED wirelessVars
  BY <1>6 DEF wirelessVars
<1>7. QED
  BY <1>1, <1>2, <1>3, <1>4, <1>5, <1>6 DEF WirelessNext

\* Every step keeps what the main thread has done.
LEMMA StepMode == ListenerInv /\ [WirelessNext]_wirelessVars => Mode'
<1> SUFFICES ASSUME ListenerInv, [WirelessNext]_wirelessVars PROVE Mode'
  OBVIOUS
<1> USE WirelessAssumption
<1> USE DEF ListenerInv, MainTypes, ThreadTypes, PhoneTypes, Mode, WirelessAssumption, Places,
            manager, main, sockets, Nobody, Threads
<1>1. CASE StartListening
  <2>1. CASE StartAgain
    BY <1>1, <2>1 DEF StartListening, StartAgain, StartThread, Living, Connected
  <2>2. CASE StartThread
    BY <1>1, <2>2 DEF StartListening, StartAgain, StartThread, Living, Connected
  <2>3. QED
    BY <1>1, <2>1, <2>2 DEF StartListening
<1>2. CASE StopListening
  BY <1>2 DEF StopListening
<1>3. CASE CloseStopped
  BY <1>3 DEF CloseStopped, NotStopping
<1>4. CASE HangUp
  BY <1>4 DEF HangUp
<1>5. ASSUME NEW t \in Threads, ListenerStep(t) PROVE Mode'
  <2>1. CASE Bind(t)
    BY <2>1 DEF Bind, Move
  <2>2. CASE Enter(t)
    BY <2>2 DEF Enter, Move
  <2>3. CASE TellListening(t)
    BY <2>3 DEF TellListening, Move
  <2>4. CASE CheckEnabled(t)
    BY <2>4 DEF CheckEnabled, Move
  <2>5. CASE Select(t)
    BY <2>5 DEF Select, Move
  <2>6. CASE AcceptFails(t)
    BY <2>6 DEF AcceptFails, Move
  <2>7. CASE HandleAccept(t)
    BY <2>7 DEF HandleAccept, Move
  <2>15. CASE AcceptThrows(t)
    BY <2>15 DEF AcceptThrows, Move
  <2>8. CASE AcceptNothing(t)
    BY <2>8 DEF AcceptNothing, Move
  <2>9. CASE Install(t)
    BY <2>9 DEF Install, Move
  <2>10. CASE CloseReplaced(t)
    BY <2>10 DEF CloseReplaced, Move
  <2>11. CASE Look(t)
    BY <2>11 DEF Look, Move
  <2>12. CASE Drop(t)
    BY <2>12 DEF Drop, Move, Connected
  <2>13. CASE EndLoop(t)
    BY <2>13 DEF EndLoop, Move
  <2>14. QED
    BY <1>5, <2>1, <2>2, <2>3, <2>4, <2>5, <2>6, <2>7, <2>8, <2>9, <2>10, <2>11, <2>12,
       <2>13, <2>15 DEF ListenerStep
<1>6. CASE UNCHANGED wirelessVars
  BY <1>6 DEF wirelessVars
<1>7. QED
  BY <1>1, <1>2, <1>3, <1>4, <1>5, <1>6 DEF WirelessNext

\* Every step keeps the port with a channel somebody will close.
LEMMA StepPorts == ListenerInv /\ [WirelessNext]_wirelessVars => Ports'
<1> SUFFICES ASSUME ListenerInv, [WirelessNext]_wirelessVars PROVE Ports'
  OBVIOUS
<1> USE WirelessAssumption
<1> USE DEF ListenerInv, MainTypes, ThreadTypes, PhoneTypes, Mode, Ports, Early, Places, NotStopping,
            manager, main, sockets, Nobody, Threads
<1>1. CASE StartListening
  <2>1. CASE StartAgain
    BY <1>1, <2>1 DEF StartListening, StartAgain, StartThread, Living, Connected
  <2>2. CASE StartThread
    BY <1>1, <2>2 DEF StartListening, StartAgain, StartThread, Living, Connected
  <2>3. QED
    BY <1>1, <2>1, <2>2 DEF StartListening
<1>2. CASE StopListening
  BY <1>2 DEF StopListening
<1>3. CASE CloseStopped
  BY <1>3 DEF CloseStopped, NotStopping
<1>4. CASE HangUp
  BY <1>4 DEF HangUp
<1>5. ASSUME NEW t \in Threads, ListenerStep(t) PROVE Ports'
  <2>1. CASE Bind(t)
    <3>1. CASE bound = {} /\ Move(t, "bind", "enter") /\ bound' = {t}
      BY <2>1, <3>1 DEF Bind, Move
    <3>2. CASE Move(t, "bind", "finally") /\ UNCHANGED <<bound, selectors>>
      BY <2>1, <3>2 DEF Bind, Move
    <3>3. QED
      BY <2>1, <3>1, <3>2 DEF Bind
  <2>2. CASE Enter(t)
    <3>1. CASE enabled /\ listener' = t
      BY <2>2, <3>1 DEF Enter, Move
    <3>2. CASE ~enabled /\ bound' = bound \ {t}
      BY <2>2, <3>2 DEF Enter, Move
    <3>3. QED
      BY <2>2, <3>1, <3>2 DEF Enter
  <2>3. CASE TellListening(t)
    BY <2>3 DEF TellListening, Move
  <2>4. CASE CheckEnabled(t)
    BY <2>4 DEF CheckEnabled, Move
  <2>5. CASE Select(t)
    <3>1. CASE Move(t, "select", "finally")
      BY <2>5, <3>1 DEF Select, Move
    <3>2. CASE Move(t, "select", "look")
      BY <2>5, <3>2 DEF Select, Move
    <3>3. CASE Move(t, "select", "accept")
      BY <2>5, <3>3 DEF Select, Move
    <3>4. QED
      BY <2>5, <3>1, <3>2, <3>3 DEF Select
  <2>6. CASE AcceptFails(t)
    BY <2>6 DEF AcceptFails, Move
  <2>7. CASE HandleAccept(t)
    BY <2>7 DEF HandleAccept, Move
  <2>15. CASE AcceptThrows(t)
    BY <2>15 DEF AcceptThrows, Move
  <2>8. CASE AcceptNothing(t)
    BY <2>8 DEF AcceptNothing, Move
  <2>9. CASE Install(t)
    BY <2>9 DEF Install, Move
  <2>10. CASE CloseReplaced(t)
    BY <2>10 DEF CloseReplaced, Move
  <2>11. CASE Look(t)
    <3>1. CASE Move(t, "look", "poll") /\ held' = [held EXCEPT ![t] = connectedTransport]
      BY <2>11, <3>1 DEF Look, Move
    <3>2. CASE Move(t, "look", "finally") /\ UNCHANGED held
      BY <2>11, <3>2 DEF Look, Move
    <3>3. QED
      BY <2>11, <3>1, <3>2 DEF Look
  <2>12. CASE Drop(t)
    <3>1. CASE Move(t, "poll", "check") /\ UNCHANGED <<connectedTransport, open>>
      BY <2>12, <3>1 DEF Drop, Move, Connected
    <3>2. CASE held[t] # Nobody /\ ~Connected(held[t]) /\ Move(t, "poll", "tell")
      BY <2>12, <3>2 DEF Drop, Move, Connected
    <3>3. QED
      BY <2>12, <3>1, <3>2 DEF Drop
  <2>13. CASE EndLoop(t)
    BY <2>13 DEF EndLoop, Move
  <2>14. QED
    BY <1>5, <2>1, <2>2, <2>3, <2>4, <2>5, <2>6, <2>7, <2>8, <2>9, <2>10, <2>11, <2>12,
       <2>13, <2>15 DEF ListenerStep
<1>6. CASE UNCHANGED wirelessVars
  BY <1>6 DEF wirelessVars
<1>7. QED
  BY <1>1, <1>2, <1>3, <1>4, <1>5, <1>6 DEF WirelessNext

\* Every step leaves each open connection its owner.
LEMMA StepConnectionsOwned == ListenerInv /\ [WirelessNext]_wirelessVars => ConnectionsOwned'
<1> SUFFICES ASSUME ListenerInv, [WirelessNext]_wirelessVars PROVE ConnectionsOwned'
  OBVIOUS
<1> USE WirelessAssumption
<1> USE DEF ListenerInv, MainTypes, ThreadTypes, PhoneTypes, Mode, ConnectionsOwned, Places,
            NotStopping, manager, main, sockets, Nobody, Threads
<1>1. CASE StartListening
  <2>1. CASE StartAgain
    BY <1>1, <2>1 DEF StartListening, StartAgain, StartThread, Living, Connected
  <2>2. CASE StartThread
    BY <1>1, <2>2 DEF StartListening, StartAgain, StartThread, Living, Connected
  <2>3. QED
    BY <1>1, <2>1, <2>2 DEF StartListening
<1>2. CASE StopListening
  BY <1>2 DEF StopListening
<1>3. CASE CloseStopped
  BY <1>3 DEF CloseStopped, NotStopping
<1>4. CASE HangUp
  BY <1>4 DEF HangUp
<1>5. ASSUME NEW t \in Threads, ListenerStep(t) PROVE ConnectionsOwned'
  <2>1. CASE Bind(t)
    BY <2>1 DEF Bind, Move
  <2>2. CASE Enter(t)
    <3>1. lpc'[t] = "tell" \/ lpc'[t] = "finally"
      BY <2>2 DEF Enter, Move
    <3>2. UNCHANGED <<open, leaked, connectedTransport, stopping, held>>
      BY <2>2 DEF Enter
    <3>3. lpc[t] = "enter" /\ \A u \in Threads : u # t => lpc'[u] = lpc[u]
      BY <2>2 DEF Enter, Move
    <3>4. QED
      BY <3>2, <3>3
  <2>3. CASE TellListening(t)
    BY <2>3 DEF TellListening, Move
  <2>4. CASE CheckEnabled(t)
    BY <2>4 DEF CheckEnabled, Move
  <2>5. CASE Select(t)
    BY <2>5 DEF Select, Move
  <2>6. CASE AcceptFails(t)
    BY <2>6 DEF AcceptFails, Move
  <2>7. CASE HandleAccept(t)
    <3>1. /\ open' = open \cup {phones'} /\ UNCHANGED <<leaked, connectedTransport, stopping>>
          /\ held' = [held EXCEPT ![t] = phones']
      BY <2>7 DEF HandleAccept
    <3>2. /\ lpc[t] = "accept" /\ lpc'[t] = "install"
          /\ \A u \in Threads : u # t => lpc'[u] = lpc[u]
      BY <2>7 DEF HandleAccept, Move
    <3>3. held'[t] = phones' /\ \A u \in Threads : u # t => held'[u] = held[u]
      BY <3>1
    <3>4. QED
      BY <3>1, <3>2, <3>3
  <2>15. CASE AcceptThrows(t)
    BY <2>15 DEF AcceptThrows, Move
  <2>8. CASE AcceptNothing(t)
    BY <2>8 DEF AcceptNothing, Move
  <2>9. CASE Install(t)
    BY <2>9 DEF Install, Move
  <2>10. CASE CloseReplaced(t)
    BY <2>10 DEF CloseReplaced, Move
  <2>11. CASE Look(t)
    <3>1. CASE Move(t, "look", "poll") /\ held' = [held EXCEPT ![t] = connectedTransport]
      <4>1. UNCHANGED <<open, leaked, connectedTransport, stopping>>
        BY <2>11 DEF Look
      <4>2. lpc[t] = "look" /\ \A u \in Threads : u # t => lpc'[u] = lpc[u] /\ held'[u] = held[u]
        BY <3>1 DEF Move
      <4>3. QED
        BY <4>1, <4>2
    <3>2. CASE Move(t, "look", "finally") /\ UNCHANGED held
      BY <2>11, <3>2 DEF Look, Move
    <3>3. QED
      BY <2>11, <3>1, <3>2 DEF Look
  <2>12. CASE Drop(t)
    <3>1. CASE Move(t, "poll", "check") /\ UNCHANGED <<connectedTransport, open>>
      BY <2>12, <3>1 DEF Drop, Move, Connected
    <3>2. CASE held[t] # Nobody /\ ~Connected(held[t]) /\ Move(t, "poll", "tell")
      <4> SUFFICES ASSUME NEW c \in open' \ leaked'
                   PROVE  \/ c \in {connectedTransport', stopping'.phone}
                          \/ \E u \in Threads : lpc'[u] \in {"install", "replace"} /\ held'[u] = c
        OBVIOUS
      <4>1. c \in open \ leaked /\ c # held[t]
        BY <2>12, <3>2 DEF Drop, Move, Connected
      <4>2. CASE c \in {connectedTransport, stopping.phone}
        BY <2>12, <3>2, <4>1, <4>2 DEF Drop
      <4>3. ASSUME NEW u \in Threads, lpc[u] \in {"install", "replace"}, held[u] = c
            PROVE  lpc'[u] = lpc[u] /\ held'[u] = held[u]
        BY <2>12, <3>2, <4>3 DEF Drop, Move
      <4>4. QED
        BY <4>1, <4>2, <4>3
    <3>3. QED
      BY <2>12, <3>1, <3>2 DEF Drop
  <2>13. CASE EndLoop(t)
    BY <2>13 DEF EndLoop, Move
  <2>14. QED
    BY <1>5, <2>1, <2>2, <2>3, <2>4, <2>5, <2>6, <2>7, <2>8, <2>9, <2>10, <2>11, <2>12,
       <2>13, <2>15 DEF ListenerStep
<1>6. CASE UNCHANGED wirelessVars
  BY <1>6 DEF wirelessVars
<1>7. QED
  BY <1>1, <1>2, <1>3, <1>4, <1>5, <1>6 DEF WirelessNext

\* Every step leaves the thread that is alone its channel.
LEMMA StepAlone == ListenerInv /\ [WirelessNext]_wirelessVars => Alone'
<1> SUFFICES ASSUME ListenerInv, [WirelessNext]_wirelessVars PROVE Alone'
  OBVIOUS
<1> USE WirelessAssumption
<1> USE DEF ListenerInv, MainTypes, ThreadTypes, PhoneTypes, Mode, Ports, Early, Alone, Serving,
            InLoop, Living, Places, NotStopping, manager, main, sockets, Nobody, Threads
<1>1. CASE StartListening
  <2>1. CASE StartAgain
    BY <1>1, <2>1 DEF StartListening, StartAgain, StartThread, Living, Connected
  <2>2. CASE StartThread
    <3>1. listenerThread' = started + 1 /\ started + 1 \in Threads
      BY <1>1, <2>2, WirelessAssumption DEF StartListening, StartThread, WirelessAssumption
    <3>2. listenerThread' \notin interrupted'
      BY <1>1, <3>1 DEF StartListening
    <3>3. lpc' = [lpc EXCEPT ![started + 1] = "bind"]
      BY <2>2 DEF StartThread
    <3>4. ~overlapped' => Living = {}
      BY <2>2 DEF StartThread
    <3>5. ~overlapped' => Living' \subseteq {listenerThread'}
      BY <3>1, <3>3, <3>4
    <3>6. lpc'[listenerThread'] = "bind"
      BY <3>1, <3>3
    <3>7. QED
      BY <3>2, <3>5, <3>6
  <2>3. QED
    BY <1>1, <2>1, <2>2 DEF StartListening
<1>2. CASE StopListening
  BY <1>2 DEF StopListening
<1>3. CASE CloseStopped
  BY <1>3 DEF CloseStopped, NotStopping
<1>4. CASE HangUp
  BY <1>4 DEF HangUp
<1>5. ASSUME NEW t \in Threads, ListenerStep(t) PROVE Alone'
  <2>1. CASE Bind(t)
    <3>1. CASE bound = {} /\ Move(t, "bind", "enter") /\ bound' = {t}
      BY <2>1, <3>1 DEF Bind, Move
    <3>2. CASE Move(t, "bind", "finally") /\ UNCHANGED <<bound, selectors>>
      BY <2>1, <3>2 DEF Bind, Move
    <3>3. QED
      BY <2>1, <3>1, <3>2 DEF Bind
  <2>2. CASE Enter(t)
    BY <2>2 DEF Enter, Move
  <2>3. CASE TellListening(t)
    BY <2>3 DEF TellListening, Move
  <2>4. CASE CheckEnabled(t)
    BY <2>4 DEF CheckEnabled, Move
  <2>5. CASE Select(t)
    BY <2>5 DEF Select, Move
  <2>6. CASE AcceptFails(t)
    BY <2>6 DEF AcceptFails, Move
  <2>7. CASE HandleAccept(t)
    BY <2>7 DEF HandleAccept, Move
  <2>15. CASE AcceptThrows(t)
    BY <2>15 DEF AcceptThrows, Move
  <2>8. CASE AcceptNothing(t)
    BY <2>8 DEF AcceptNothing, Move
  <2>9. CASE Install(t)
    BY <2>9 DEF Install, Move
  <2>10. CASE CloseReplaced(t)
    BY <2>10 DEF CloseReplaced, Move
  <2>11. CASE Look(t)
    <3>1. CASE Move(t, "look", "poll") /\ held' = [held EXCEPT ![t] = connectedTransport]
      BY <2>11, <3>1 DEF Look, Move
    <3>2. CASE Move(t, "look", "finally") /\ UNCHANGED held
      BY <2>11, <3>2 DEF Look, Move
    <3>3. QED
      BY <2>11, <3>1, <3>2 DEF Look
  <2>12. CASE Drop(t)
    <3>1. CASE Move(t, "poll", "check") /\ UNCHANGED <<connectedTransport, open>>
      BY <2>12, <3>1 DEF Drop, Move, Connected
    <3>2. CASE held[t] # Nobody /\ ~Connected(held[t]) /\ Move(t, "poll", "tell")
      BY <2>12, <3>2 DEF Drop, Move, Connected
    <3>3. QED
      BY <2>12, <3>1, <3>2 DEF Drop
  <2>13. CASE EndLoop(t)
    <3>1. /\ enabled' = enabled /\ listenerThread' = listenerThread
          /\ interrupted' = interrupted /\ overlapped' = overlapped
      BY <2>13 DEF EndLoop
    <3>2. /\ t \in Living /\ lpc'[t] = "done"
          /\ \A u \in Threads : u # t => lpc'[u] = lpc[u]
      BY <2>13 DEF EndLoop, Move
    <3>3. Living' \subseteq Living /\ ~Serving(t)'
      BY <3>2
    <3>4. enabled /\ ~overlapped => t = listenerThread
      BY <3>2
    <3>5. QED
      BY <3>1, <3>3, <3>4 DEF Alone
  <2>14. QED
    BY <1>5, <2>1, <2>2, <2>3, <2>4, <2>5, <2>6, <2>7, <2>8, <2>9, <2>10, <2>11, <2>12,
       <2>13, <2>15 DEF ListenerStep
<1>6. CASE UNCHANGED wirelessVars
  BY <1>6 DEF wirelessVars
<1>7. QED
  BY <1>1, <1>2, <1>3, <1>4, <1>5, <1>6 DEF WirelessNext

\* Every step keeps what the store shows true while the first thread runs.
LEMMA StepFirst == ListenerInv /\ [WirelessNext]_wirelessVars => First'
<1> SUFFICES ASSUME ListenerInv, [WirelessNext]_wirelessVars PROVE First'
  OBVIOUS
<1> USE WirelessAssumption
<1> USE DEF ListenerInv, MainTypes, ThreadTypes, PhoneTypes, Mode, Alone, First, Shown, Early,
            Serving, InLoop, Living, Places, NotStopping, manager, main, sockets, Nobody, Threads
<1>1. CASE StartListening
  <2>1. CASE StartAgain
    BY <1>1, <2>1 DEF StartListening, StartAgain, StartThread, Living, Connected
  <2>2. CASE StartThread
    BY <1>1, <2>2 DEF StartListening, StartAgain, StartThread, Living, Connected
  <2>3. QED
    BY <1>1, <2>1, <2>2 DEF StartListening
<1>2. CASE StopListening
  BY <1>2 DEF StopListening
<1>3. CASE CloseStopped
  BY <1>3 DEF CloseStopped, NotStopping
<1>4. CASE HangUp
  BY <1>4 DEF HangUp
<1>5. ASSUME NEW t \in Threads, ListenerStep(t) PROVE First'
  <2>1. CASE Bind(t)
    <3>1. CASE bound = {} /\ Move(t, "bind", "enter") /\ bound' = {t}
      BY <2>1, <3>1 DEF Bind, Move
    <3>2. CASE Move(t, "bind", "finally") /\ UNCHANGED <<bound, selectors>>
      BY <2>1, <3>2 DEF Bind, Move
    <3>3. QED
      BY <2>1, <3>1, <3>2 DEF Bind
  <2>2. CASE Enter(t)
    <3>1. CASE enabled /\ listener' = t
      BY <2>2, <3>1 DEF Enter, Move
    <3>2. CASE ~enabled /\ bound' = bound \ {t}
      BY <2>2, <3>2 DEF Enter, Move
    <3>3. QED
      BY <2>2, <3>1, <3>2 DEF Enter
  <2>3. CASE TellListening(t)
    BY <2>3 DEF TellListening, Move
  <2>4. CASE CheckEnabled(t)
    <3>1. CASE enabled
      BY <2>4, <3>1 DEF CheckEnabled, Move
    <3>2. CASE ~enabled
      BY <2>4, <3>2 DEF CheckEnabled, Move
    <3>3. QED
      BY <2>4, <3>1, <3>2 DEF CheckEnabled
  <2>5. CASE Select(t)
    <3>1. CASE Move(t, "select", "finally")
      BY <2>5, <3>1 DEF Select, Move
    <3>2. CASE Move(t, "select", "look")
      BY <2>5, <3>2 DEF Select, Move
    <3>3. CASE Move(t, "select", "accept")
      BY <2>5, <3>3 DEF Select, Move
    <3>4. QED
      BY <2>5, <3>1, <3>2, <3>3 DEF Select
  <2>6. CASE AcceptFails(t)
    BY <2>6 DEF AcceptFails, Move
  <2>7. CASE HandleAccept(t)
    BY <2>7 DEF HandleAccept, Move
  <2>15. CASE AcceptThrows(t)
    BY <2>15 DEF AcceptThrows, Move
  <2>8. CASE AcceptNothing(t)
    BY <2>8 DEF AcceptNothing, Move
  <2>9. CASE Install(t)
    BY <2>9 DEF Install, Move
  <2>10. CASE CloseReplaced(t)
    BY <2>10 DEF CloseReplaced, Move
  <2>11. CASE Look(t)
    <3>1. CASE Move(t, "look", "poll") /\ held' = [held EXCEPT ![t] = connectedTransport]
      BY <2>11, <3>1 DEF Look, Move
    <3>2. CASE Move(t, "look", "finally") /\ UNCHANGED held
      BY <2>11, <3>2 DEF Look, Move
    <3>3. QED
      BY <2>11, <3>1, <3>2 DEF Look
  <2>12. CASE Drop(t)
    <3>1. CASE Move(t, "poll", "check") /\ UNCHANGED <<connectedTransport, open>>
      BY <2>12, <3>1 DEF Drop, Move, Connected
    <3>2. CASE held[t] # Nobody /\ ~Connected(held[t]) /\ Move(t, "poll", "tell")
      BY <2>12, <3>2 DEF Drop, Move, Connected
    <3>3. QED
      BY <2>12, <3>1, <3>2 DEF Drop
  <2>13. CASE EndLoop(t)
    BY <2>13 DEF EndLoop, Move
  <2>14. QED
    BY <1>5, <2>1, <2>2, <2>3, <2>4, <2>5, <2>6, <2>7, <2>8, <2>9, <2>10, <2>11, <2>12,
       <2>13, <2>15 DEF ListenerStep
<1>6. CASE UNCHANGED wirelessVars
  BY <1>6 DEF wirelessVars
<1>7. QED
  BY <1>1, <1>2, <1>3, <1>4, <1>5, <1>6 DEF WirelessNext

\* Nothing has been started at first.
LEMMA ListenerStarts == ASSUME NEW n \in 0 .. MaxSwitches, WirelessInit(n) PROVE ListenerInv
<1> USE WirelessAssumption DEF WirelessAssumption, WirelessInit, Nobody, NotStopping, Threads
<1>1. enabled = FALSE /\ listenerAddress = FALSE /\ overlapped = FALSE
  BY Zenon
<1>2. MainTypes
  <2>1. stopping \in [active : BOOLEAN, thread : Nat, listener : Nat, phone : Nat]
    OBVIOUS
  <2>2. /\ switches \in Nat /\ started \in Nat /\ started + switches <= MaxSwitches
        /\ listenerThread \in Nat /\ listenerThread <= started /\ listener \in Nat
        /\ stopping.thread <= started
        /\ status \in {"none", "starting", "listening", "connected"}
    OBVIOUS
  <2>3. enabled \in BOOLEAN /\ listenerAddress \in BOOLEAN /\ overlapped \in BOOLEAN
    BY <1>1
  <2>4. QED
    BY <2>1, <2>2, <2>3, Zenon DEF MainTypes
<1>3. ThreadTypes /\ PhoneTypes
  BY DEF ThreadTypes, PhoneTypes, Places
<1>4. Mode
  BY <1>1 DEF Mode
<1>5. Ports /\ ConnectionsOwned
  BY DEF Ports, Early, ConnectionsOwned
<1>6. Alone /\ First
  BY <1>1 DEF Alone, First
<1>7. QED
  BY <1>2, <1>3, <1>4, <1>5, <1>6 DEF ListenerInv

\* The channels with the port are none or one.
LEMMA OnePort == ASSUME Ports PROVE Cardinality(bound) <= 1
<1>1. CASE bound = {}
  BY <1>1, FS_EmptySet
<1>2. CASE bound # {}
  <2>1. PICK t : t \in bound
    BY <1>2
  <2>2. bound = {t}
    BY <2>1 DEF Ports
  <2>3. Cardinality({t}) = 1
    BY FS_Singleton
  <2>4. QED
    BY <2>2, <2>3
<1>3. QED
  BY <1>1, <1>2

\* The invariant says more than the property.
LEMMA SoundFromInv == ListenerInv => ListenerSound
<1> SUFFICES ASSUME ListenerInv PROVE ListenerSound
  OBVIOUS
<1> USE WirelessAssumption DEF ListenerInv, WirelessAssumption, Nobody, Threads
<1>1. PortReturned
  <2>1. Cardinality(bound) <= 1
    BY OnePort
  <2>2. ASSUME ~enabled, ~stopping.active, Living = {} PROVE bound = {}
    BY <2>2 DEF Mode, Ports, ThreadTypes, NotStopping, Living
  <2>3. QED
    BY <2>1, <2>2 DEF PortReturned
<1>2. ListensOn
  <2> SUFFICES ASSUME enabled, NEW t \in {listenerThread} \cap Living
               PROVE /\ InLoop(t) /\ ~overlapped => listener = t /\ bound = {t} /\ t \notin shut
                     /\ lpc[t] = "select" /\ started = 1 =>
                          IF connectedTransport = Nobody THEN status = "listening"
                          ELSE status = "connected" \/ connectedTransport \in left
    BY DEF ListensOn
  <2>1. t \in Threads /\ t = listenerThread
    BY DEF Living
  <2>2. ASSUME InLoop(t), ~overlapped PROVE listener = t /\ bound = {t} /\ t \notin shut
    BY <2>1, <2>2 DEF Alone, Serving, Ports
  <2>3. ASSUME lpc[t] = "select", started = 1
        PROVE IF connectedTransport = Nobody THEN status = "listening"
              ELSE status = "connected" \/ connectedTransport \in left
    BY <2>1, <2>3 DEF First, Shown
  <2>4. QED
    BY <2>2, <2>3
<1>3. QED
  BY <1>1, <1>2 DEF ListenerSound

LEMMA ListenerSteps == ListenerInv /\ [WirelessNext]_wirelessVars => ListenerInv'
BY StepMainTypes, StepThreadTypes, StepPhoneTypes, StepMode, StepPorts,
   StepConnectionsOwned, StepAlone, StepFirst DEF ListenerInv

\* Every connection that is open has an owner, the port belongs to one channel and is
\* given back, and a thread that no other one overlaps listens on, whatever the number of
\* times wireless mode is switched and of phones that connect (WirelessFlashManager).
THEOREM WirelessSound == Spec => []ListenerSound
<1>1. Init => ListenerInv
  <2>1. 0 \in 0 .. MaxSwitches /\ MaxSwitches \in 0 .. MaxSwitches
    BY WirelessAssumption DEF WirelessAssumption
  <2>2. QED
    BY <2>1, ListenerStarts DEF Init
<1>2. ListenerInv /\ [Next]_vars => ListenerInv'
  BY ListenerSteps, ProgramSteps
<1>3. QED
  BY <1>1, <1>2, SoundFromInv, PTL DEF Spec

-----------------------------------------------------------------------------
(***************************************************************************)
(* Numbers and folds.  The folds of the community modules are functions of a*)
(* set of places: that the one FoldLeft chooses exists for every length, and*)
(* what it gives after one element more, follows from the least number of  *)
(* a set in place of an induction.                                         *)
(***************************************************************************)

Below == {ss \in Nat \X Nat : ss[1] < ss[2]}

\* Every set of natural numbers that is not empty has a least one.
LEMMA LeastOf ==
  ASSUME NEW T \in SUBSET Nat, T # {}
  PROVE  \E x \in T : \A y \in T : x <= y
<1>1. IsWellFoundedOn(Below, Nat)
  BY NatLessThanWellFounded DEF OpToRel, Below
<1>2. PICK x \in T : \A y \in T : ~ (<<y, x>> \in Below)
  BY <1>1, WFMin
<1>3. ASSUME NEW y \in T, y < x PROVE FALSE
  <2>1. <<y, x>> \in Nat \X Nat /\ <<y, x>>[1] = y /\ <<y, x>>[2] = x
    OBVIOUS
  <2>2. QED
    BY <1>2, <1>3, <2>1 DEF Below
<1>4. \A y \in T : x <= y
  BY <1>3
<1>5. QED
  BY <1>4

\* A set of the natural numbers up to n that has 0 and the one after each of them.
LEMMA Upwards ==
  ASSUME NEW n \in Nat, NEW T, 0 \in T, \A k \in 0 .. n : k \in T /\ k < n => k + 1 \in T
  PROVE  \A k \in 0 .. n : k \in T
<1> DEFINE U == {k \in 0 .. n : k \notin T}
<1>1. SUFFICES ASSUME U # {} PROVE FALSE
  OBVIOUS
<1>2. U \in SUBSET Nat
  OBVIOUS
<1>3. PICK x \in U : \A y \in U : x <= y
  BY <1>1, <1>2, LeastOf
<1>4. x \in 0 .. n /\ x # 0
  BY <1>3
<1>5. x - 1 \in 0 .. n /\ x - 1 < n /\ (x - 1) + 1 = x
  BY <1>4
<1>6. x - 1 \in T
  BY <1>3, <1>5
<1>7. QED
  BY <1>3, <1>5, <1>6

\* The largest number of 1 .. n.
LEMMA LastIndex ==
  ASSUME NEW n \in Nat, n > 0
  PROVE  Max(1 .. n) = n
BY DEF Max

\* A set of numbers up to n has its largest.
LEMMA LargestOf ==
  ASSUME NEW n \in Nat, NEW s \in SUBSET (1 .. n), s # {}
  PROVE  Max(s) \in s /\ Max(s) \in Nat /\ \A y \in s : Max(s) >= y
<1> DEFINE T == {n - x : x \in s}
<1>1. ASSUME NEW x \in s PROVE n - x \in Nat /\ x \in Nat
  OBVIOUS
<1>2. T \in SUBSET Nat /\ T # {}
  BY <1>1
<1>3. PICK z \in T : \A y \in T : z <= y
  BY <1>2, LeastOf
<1>4. PICK x \in s : z = n - x
  BY <1>3
<1>5. ASSUME NEW y \in s PROVE x >= y
  <2>1. n - y \in T
    OBVIOUS
  <2>2. n - x <= n - y
    BY <1>3, <1>4, <2>1
  <2>3. QED
    BY <2>2, <1>1
<1>6. Max(s) \in s /\ \A y \in s : Max(s) >= y
  <2>1. \E a \in s : \A y \in s : a >= y
    BY <1>5
  <2>2. QED
    BY <2>1, Zenon DEF Max
<1>7. QED
  BY <1>1, <1>6


\* A fold, part by part of its n elements: what step makes of what was made of all but
\* the last one.
FoldOf(base, step, q, k, f) ==
  f = [s \in SUBSET (1 .. k) |-> IF s = {} THEN base ELSE step[<<f[s \ {Max(s)}], q[Max(s)]>>]]

LEMMA FoldExists ==
  ASSUME NEW A, NEW X, NEW base \in A, NEW step \in [A \X X -> A], NEW n \in Nat, NEW q \in [1 .. n -> X]
  PROVE  \A k \in 0 .. n : \E f \in [SUBSET (1 .. k) -> A] : FoldOf(base, step, q, k, f)
<1> DEFINE T == {k \in 0 .. n : \E f \in [SUBSET (1 .. k) -> A] : FoldOf(base, step, q, k, f)}
<1>1. 0 \in T
  <2> DEFINE f == [s \in SUBSET (1 .. 0) |-> base]
  <2>1. \A s \in SUBSET (1 .. 0) : s = {}
    OBVIOUS
  <2>2. FoldOf(base, step, q, 0, f)
    BY <2>1, Zenon DEF FoldOf
  <2>3. f \in [SUBSET (1 .. 0) -> A] /\ 0 \in 0 .. n
    OBVIOUS
  <2>4. QED
    BY <2>2, <2>3
<1>2. ASSUME NEW k \in 0 .. n, k \in T, k < n PROVE k + 1 \in T
  <2>1. PICK f \in [SUBSET (1 .. k) -> A] : FoldOf(base, step, q, k, f)
    BY <1>2
  <2> DEFINE h == [s \in SUBSET (1 .. k + 1) |->
               IF s = {} THEN base ELSE step[<<f[s \ {Max(s)}], q[Max(s)]>>]]
  <2>2. ASSUME NEW s \in SUBSET (1 .. k + 1), s # {} PROVE s \ {Max(s)} \in SUBSET (1 .. k) /\ Max(s) \in 1 .. n
    <3>1. Max(s) \in s /\ Max(s) \in Nat /\ \A y \in s : Max(s) >= y
      <4>1. k + 1 \in Nat
        OBVIOUS
      <4>2. QED
        BY <2>2, <4>1, LargestOf, Zenon
    <3>2. ASSUME NEW y \in s \ {Max(s)} PROVE y \in 1 .. k
      <4>1. y \in 1 .. k + 1 /\ Max(s) \in 1 .. k + 1 /\ y <= Max(s) /\ y # Max(s) /\ k \in Nat
        BY <3>1
      <4>2. QED
        BY <4>1
    <3>3. Max(s) \in 1 .. k + 1
      BY <3>1
    <3>4. Max(s) \in 1 .. n
      BY <3>3, <1>2
    <3>5. QED
      BY <3>2, <3>4
  <2>3. ASSUME NEW s \in SUBSET (1 .. k) PROVE h[s] = f[s]
    <3>1. s \in SUBSET (1 .. k + 1)
      OBVIOUS
    <3>2. h[s] = IF s = {} THEN base ELSE step[<<f[s \ {Max(s)}], q[Max(s)]>>]
      BY <3>1, Zenon
    <3>3. f[s] = IF s = {} THEN base ELSE step[<<f[s \ {Max(s)}], q[Max(s)]>>]
      BY <2>1, Zenon DEF FoldOf
    <3>4. QED
      BY <3>2, <3>3
  <2>4. FoldOf(base, step, q, k + 1, h)
    <3>1. ASSUME NEW s \in SUBSET (1 .. k + 1), s # {} PROVE h[s \ {Max(s)}] = f[s \ {Max(s)}]
      BY <3>1, <2>2, <2>3, Zenon
    <3>2. QED
      BY <3>1, Zenon DEF FoldOf
  <2>5. h \in [SUBSET (1 .. k + 1) -> A]
    <3>1. ASSUME NEW s \in SUBSET (1 .. k + 1) PROVE (IF s = {} THEN base ELSE step[<<f[s \ {Max(s)}], q[Max(s)]>>]) \in A
      <4>1. CASE s = {}
        BY <4>1
      <4>2. CASE s # {}
        <5>1. f[s \ {Max(s)}] \in A /\ q[Max(s)] \in X
          BY <4>2, <2>2
        <5>2. <<f[s \ {Max(s)}], q[Max(s)]>> \in A \X X
          BY <5>1
        <5>3. QED
          BY <5>2, <4>2
      <4>3. QED
        BY <4>1, <4>2
    <3>2. QED
      BY <3>1
  <2> HIDE DEF h
  <2>6. k + 1 \in 0 .. n
    BY <1>2
  <2>7. QED
    BY <2>4, <2>5, <2>6
<1>3. QED
  <2> HIDE DEF T
  <2>1. \A k \in 0 .. n : k \in T
    BY <1>1, <1>2, Upwards, Zenon
  <2>2. QED
    BY <2>1 DEF T

-----------------------------------------------------------------------------
(***************************************************************************)
(* Sequences: the elements at some places, and sequences one behind the    *)
(* other.                                                                  *)
(***************************************************************************)

PicksOf(q, at, n, f) ==
  f = [s \in SUBSET (1 .. n) |->
         IF s = {} THEN << >>
         ELSE IF [i \in 1 .. n |-> i][Max(s)] \in at
              THEN Append(f[s \ {Max(s)}], q[[i \in 1 .. n |-> i][Max(s)]]) ELSE f[s \ {Max(s)}]]

\* The elements at some places are picked one by one.
WithPlace(a, q, at, k) == IF k \in at THEN Append(a, q[k]) ELSE a
Picking(q, at, n, h) ==
  h[0] = << >> /\ h[n] = Picked(q, at) /\ \A k \in 1 .. n : h[k] = WithPlace(h[k - 1], q, at, k)

LEMMA PicksOneByOne ==
  ASSUME NEW S, NEW n \in Nat, NEW q \in [1 .. n -> S], NEW at
  PROVE  \E h : Picking(q, at, n, h)
<1> DEFINE step == [ax \in Seq(S) \X (1 .. n) |-> IF ax[2] \in at THEN Append(ax[1], q[ax[2]]) ELSE ax[1]]
           ids == [i \in 1 .. n |-> i]
<1>1. << >> \in Seq(S) /\ ids \in [1 .. n -> 1 .. n] /\ \A k \in 1 .. n : ids[k] = k
  OBVIOUS
<1>2. step \in [Seq(S) \X (1 .. n) -> Seq(S)]
  <2>1. ASSUME NEW ax \in Seq(S) \X (1 .. n)
        PROVE  (IF ax[2] \in at THEN Append(ax[1], q[ax[2]]) ELSE ax[1]) \in Seq(S)
    <3>1. ax[1] \in Seq(S) /\ q[ax[2]] \in S
      OBVIOUS
    <3>2. Append(ax[1], q[ax[2]]) \in Seq(S)
      BY <3>1
    <3>3. QED
      BY <3>1, <3>2
  <2>2. QED
    BY <2>1
<1>3. ASSUME NEW a \in Seq(S), NEW k \in 1 .. n PROVE step[<<a, k>>] = IF k \in at THEN Append(a, q[k]) ELSE a
  OBVIOUS
<1> HIDE DEF step
<1>4. PICK f \in [SUBSET (1 .. n) -> Seq(S)] : FoldOf(<< >>, step, ids, n, f)
  <2>1. n \in 0 .. n
    OBVIOUS
  <2>2. \A k \in 0 .. n : \E f \in [SUBSET (1 .. k) -> Seq(S)] : FoldOf(<< >>, step, ids, k, f)
    BY <1>1, <1>2, FoldExists
  <2>3. QED
    BY <2>1, <2>2
<1>5. ASSUME NEW s \in SUBSET (1 .. n), s # {}
      PROVE  /\ Max(s) \in 1 .. n /\ f[s \ {Max(s)}] \in Seq(S)
             /\ step[<<f[s \ {Max(s)}], ids[Max(s)]>>] =
                  IF ids[Max(s)] \in at THEN Append(f[s \ {Max(s)}], q[ids[Max(s)]]) ELSE f[s \ {Max(s)}]
  <2>1. Max(s) \in 1 .. n
    <3>1. Max(s) \in s
      BY <1>5, LargestOf
    <3>2. QED
      BY <3>1
  <2>2. s \ {Max(s)} \in SUBSET (1 .. n) /\ ids[Max(s)] \in 1 .. n
    BY <2>1
  <2>3. f[s \ {Max(s)}] \in Seq(S)
    BY <2>2, <1>4
  <2>4. QED
    BY <2>1, <2>2, <2>3, <1>3, Zenon
<1>6. PicksOf(q, at, n, f)
  BY <1>4, <1>5, Zenon DEF FoldOf, PicksOf
<1> DEFINE iter == CHOOSE g : PicksOf(q, at, n, g)
<1>7. PicksOf(q, at, n, iter)
  BY <1>6, Zenon
<1>8. Picked(q, at) = iter[1 .. n]
  BY DEF Picked, FoldLeftDomain, FoldLeft, MapThenFoldSet, PicksOf
<1> HIDE DEF iter
<1> DEFINE h == [k \in 0 .. n |-> iter[1 .. k]]
<1>9. ASSUME NEW k \in 1 .. n PROVE h[k] = WithPlace(h[k - 1], q, at, k)
  <2>1. 1 .. k \in SUBSET (1 .. n) /\ 1 .. k # {} /\ k \in 0 .. n /\ k - 1 \in 0 .. n
    OBVIOUS
  <2>2. (1 .. k) \ {k} = 1 .. k - 1
    OBVIOUS
  <2>3. Max(1 .. k) = k
    BY LastIndex
  <2>4. iter[1 .. k] = IF ids[Max(1 .. k)] \in at
                       THEN Append(iter[(1 .. k) \ {Max(1 .. k)}], q[ids[Max(1 .. k)]])
                       ELSE iter[(1 .. k) \ {Max(1 .. k)}]
    BY <1>7, <2>1, Zenon DEF PicksOf
  <2>5. QED
    BY <2>1, <2>2, <2>3, <2>4, <1>1 DEF WithPlace
<1>10. h[0] = << >> /\ h[n] = iter[1 .. n]
  <2>1. 0 \in 0 .. n /\ n \in 0 .. n /\ 1 .. 0 = {} /\ 1 .. 0 \in SUBSET (1 .. n)
    OBVIOUS
  <2>2. iter[1 .. 0] = << >>
    BY <1>7, <2>1, Zenon DEF PicksOf
  <2>3. QED
    BY <2>1, <2>2
<1>11. QED
  BY <1>8, <1>9, <1>10, Zenon DEF Picking

\* p gives the places of the first k that are picked, in their order.
Picks(q, at, k, out, p) ==
  /\ p \in [1 .. Len(out) -> 1 .. k]
  /\ \A i \in 1 .. Len(out) : p[i] \in at /\ out[i] = q[p[i]]
  /\ \A i, j \in 1 .. Len(out) : i < j => p[i] < p[j]
  /\ \A x \in 1 .. k : x \in at => \E i \in 1 .. Len(out) : p[i] = x

LEMMA PicksNone ==
  ASSUME NEW S, NEW q, NEW at
  PROVE  << >> \in Seq(S) /\ \E p : Picks(q, at, 0, << >>, p)
<1> DEFINE p == [i \in 1 .. 0 |-> 0]
<1>1. << >> \in Seq(S) /\ Len(<< >>) = 0
  OBVIOUS
<1>2. p \in [1 .. 0 -> 1 .. 0]
  OBVIOUS
<1>3. Picks(q, at, 0, << >>, p)
  BY <1>1, <1>2 DEF Picks
<1>4. QED
  BY <1>1, <1>3

LEMMA PicksMore ==
  ASSUME NEW S, NEW n \in Nat, NEW q \in [1 .. n -> S], NEW at, NEW k \in 1 .. n,
         NEW a \in Seq(S), NEW p, Picks(q, at, k - 1, a, p)
  PROVE  WithPlace(a, q, at, k) \in Seq(S) /\ \E r : Picks(q, at, k, WithPlace(a, q, at, k), r)
<1>1. Len(a) \in Nat /\ k - 1 \in Nat /\ q[k] \in S /\ k \in Nat
  OBVIOUS
<1>2. /\ p \in [1 .. Len(a) -> 1 .. k - 1]
      /\ \A i \in 1 .. Len(a) : p[i] \in at /\ a[i] = q[p[i]]
      /\ \A i, j \in 1 .. Len(a) : i < j => p[i] < p[j]
      /\ \A x \in 1 .. k - 1 : x \in at => \E i \in 1 .. Len(a) : p[i] = x
  BY DEF Picks
<1>3. CASE k \notin at
  <2>1. p \in [1 .. Len(a) -> 1 .. k]
    BY <1>1, <1>2
  <2>2. ASSUME NEW x \in 1 .. k, x \in at PROVE x \in 1 .. k - 1
    BY <1>1, <1>3, <2>2
  <2>3. Picks(q, at, k, a, p)
    BY <2>1, <2>2, <1>2, Zenon DEF Picks
  <2>4. QED
    BY <2>3, <1>3 DEF WithPlace
<1>4. CASE k \in at
  <2> DEFINE b == Append(a, q[k])
             l == Len(a)
             r == [i \in 1 .. l + 1 |-> IF i = l + 1 THEN k ELSE p[i]]
  <2>1. b \in Seq(S) /\ Len(b) = l + 1 /\ b[l + 1] = q[k] /\ \A i \in 1 .. l : b[i] = a[i]
    BY <1>1
  <2>2. r[l + 1] = k /\ \A i \in 1 .. l : r[i] = p[i] /\ i \in 1 .. l + 1 /\ i # l + 1
    BY <1>1
  <2>3. \A i \in 1 .. l + 1 : i \in 1 .. l \/ i = l + 1
    BY <1>1
  <2>4. r \in [1 .. l + 1 -> 1 .. k]
    <3>1. ASSUME NEW i \in 1 .. l + 1 PROVE (IF i = l + 1 THEN k ELSE p[i]) \in 1 .. k
      <4>1. CASE i = l + 1
        BY <4>1, <1>1
      <4>2. CASE i \in 1 .. l
        <5>1. p[i] \in 1 .. k - 1
          BY <4>2, <1>2
        <5>2. QED
          BY <5>1, <4>2, <1>1
      <4>3. QED
        BY <4>1, <4>2, <2>3
    <3>2. QED
      BY <3>1
  <2> HIDE DEF r, b
  <2>5. ASSUME NEW i \in 1 .. l + 1 PROVE r[i] \in at /\ b[i] = q[r[i]]
    <3>1. CASE i = l + 1
      BY <3>1, <2>1, <2>2, <1>4
    <3>2. CASE i \in 1 .. l
      BY <3>2, <2>1, <2>2, <1>2
    <3>3. QED
      BY <3>1, <3>2, <2>3
  <2>6. ASSUME NEW i \in 1 .. l + 1, NEW j \in 1 .. l + 1, i < j PROVE r[i] < r[j]
    <3>1. i \in 1 .. l
      BY <2>6, <1>1
    <3>2. r[i] = p[i] /\ p[i] \in 1 .. k - 1
      BY <3>1, <2>2, <1>2
    <3>3. CASE j = l + 1
      BY <3>2, <3>3, <2>2, <1>1
    <3>4. CASE j \in 1 .. l
      BY <3>1, <3>4, <2>6, <2>2, <1>2
    <3>5. QED
      BY <3>3, <3>4, <2>3
  <2>7. ASSUME NEW x \in 1 .. k, x \in at PROVE \E i \in 1 .. l + 1 : r[i] = x
    <3>1. CASE x = k
      <4>1. l + 1 \in 1 .. l + 1
        BY <1>1
      <4>2. QED
        BY <4>1, <3>1, <2>2
    <3>2. CASE x # k
      <4>1. x \in 1 .. k - 1
        BY <3>2, <1>1
      <4>2. PICK i \in 1 .. l : p[i] = x
        BY <4>1, <2>7, <1>2
      <4>3. QED
        BY <4>2, <2>2
    <3>3. QED
      BY <3>1, <3>2
  <2>8. Picks(q, at, k, b, r)
    BY <2>1, <2>4, <2>5, <2>6, <2>7 DEF Picks
  <2>9. QED
    BY <2>1, <2>8, <1>4 DEF b, WithPlace
<1>5. QED
  BY <1>3, <1>4

LEMMA PickedFacts ==
  ASSUME NEW S, NEW n \in Nat, NEW q \in [1 .. n -> S], NEW at
  PROVE  Picked(q, at) \in Seq(S) /\ \E p : Picks(q, at, n, Picked(q, at), p)
<1>1. PICK h : Picking(q, at, n, h)
  BY PicksOneByOne, Zenon
<1> DEFINE T == {k \in 0 .. n : h[k] \in Seq(S) /\ \E p : Picks(q, at, k, h[k], p)}
<1>2. 0 \in T
  <2>1. << >> \in Seq(S) /\ \E p : Picks(q, at, 0, << >>, p)
    BY PicksNone
  <2>2. 0 \in 0 .. n
    OBVIOUS
  <2>3. QED
    BY <1>1, <2>1, <2>2, Zenon DEF Picking
<1>3. ASSUME NEW k \in 0 .. n, k \in T, k < n PROVE k + 1 \in T
  <2>1. k + 1 \in 1 .. n /\ (k + 1) - 1 = k /\ k + 1 \in 0 .. n
    BY <1>3
  <2>2. h[k + 1] = WithPlace(h[k], q, at, k + 1)
    <3>1. h[k + 1] = WithPlace(h[(k + 1) - 1], q, at, k + 1)
      BY <1>1, <2>1, Zenon DEF Picking
    <3>2. QED
      BY <3>1, <2>1
  <2>3. h[k] \in Seq(S) /\ \E p : Picks(q, at, (k + 1) - 1, h[k], p)
    BY <1>3, <2>1
  <2>4. h[k + 1] \in Seq(S) /\ \E p : Picks(q, at, k + 1, h[k + 1], p)
    <3>1. PICK p : Picks(q, at, (k + 1) - 1, h[k], p)
      BY <2>3
    <3>2. /\ WithPlace(h[k], q, at, k + 1) \in Seq(S)
          /\ \E r : Picks(q, at, k + 1, WithPlace(h[k], q, at, k + 1), r)
      BY <2>1, <2>3, <3>1, PicksMore, Zenon
    <3>3. QED
      BY <2>2, <3>2
  <2>5. QED
    BY <2>1, <2>4
<1> HIDE DEF T
<1>4. \A k \in 0 .. n : k \in T
  BY <1>2, <1>3, Upwards
<1>5. n \in 0 .. n
  OBVIOUS
<1>6. n \in T
  BY <1>4, <1>5
<1>7. QED
  BY <1>6, <1>1 DEF T, Picking

\* w gives where an element of the first k sequences, one behind the other, comes from.
Lays(ss, k, out, w) ==
  /\ w \in [1 .. Len(out) -> (1 .. k) \X Nat]
  /\ \A i \in 1 .. Len(out) : w[i][2] \in 1 .. Len(ss[w[i][1]]) /\ out[i] = ss[w[i][1]][w[i][2]]
  /\ \A i, j \in 1 .. Len(out) : i < j =>
       w[i][1] < w[j][1] \/ (w[i][1] = w[j][1] /\ w[i][2] < w[j][2])
  /\ \A x \in 1 .. k : \A y \in 1 .. Len(ss[x]) : \E i \in 1 .. Len(out) : w[i] = <<x, y>>

LEMMA LaysNone ==
  ASSUME NEW S, NEW ss
  PROVE  << >> \in Seq(S) /\ \E w : Lays(ss, 0, << >>, w)
<1> DEFINE w == [i \in 1 .. 0 |-> <<1, 1>>]
<1>1. << >> \in Seq(S) /\ Len(<< >>) = 0
  OBVIOUS
<1>2. w \in [1 .. 0 -> (1 .. 0) \X Nat]
  OBVIOUS
<1>3. Lays(ss, 0, << >>, w)
  BY <1>1, <1>2 DEF Lays
<1>4. QED
  BY <1>1, <1>3

LEMMA LaysMore ==
  ASSUME NEW S, NEW k \in Nat, k > 0, NEW ss, ss[k] \in Seq(S),
         NEW a \in Seq(S), NEW p, Lays(ss, k - 1, a, p)
  PROVE  a \o ss[k] \in Seq(S) /\ \E w : Lays(ss, k, a \o ss[k], w)
<1> DEFINE c == ss[k]
           l == Len(a)
           b == a \o c
           w == [i \in 1 .. l + Len(c) |-> IF i \in 1 .. l THEN p[i] ELSE <<k, i - l>>]
<1>1. l \in Nat /\ Len(c) \in Nat /\ k - 1 \in Nat /\ k \in 1 .. k
  OBVIOUS
<1>2. b \in Seq(S) /\ Len(b) = l + Len(c)
  BY <1>1
<1>3. ASSUME NEW i \in 1 .. l
      PROVE  /\ b[i] = a[i] /\ w[i] = p[i] /\ p[i][1] \in 1 .. k - 1 /\ p[i][2] \in Nat
             /\ p[i][2] \in 1 .. Len(ss[p[i][1]]) /\ a[i] = ss[p[i][1]][p[i][2]]
             /\ i \in 1 .. l + Len(c)
  <2>1. b[i] = a[i] /\ i \in 1 .. l + Len(c)
    BY <1>1
  <2>2. w[i] = p[i]
    BY <2>1
  <2>3. p[i] \in (1 .. k - 1) \X Nat /\ p[i][2] \in 1 .. Len(ss[p[i][1]]) /\ a[i] = ss[p[i][1]][p[i][2]]
    BY DEF Lays
  <2>4. QED
    BY <2>1, <2>2, <2>3
<1>4. ASSUME NEW i \in l + 1 .. l + Len(c)
      PROVE  /\ b[i] = c[i - l] /\ w[i] = <<k, i - l>> /\ i - l \in 1 .. Len(c) /\ i \in 1 .. l + Len(c)
             /\ w[i][1] = k /\ w[i][2] = i - l
  <2>1. i \in 1 .. l + Len(c) /\ i \notin 1 .. l /\ i - l \in 1 .. Len(c) /\ l + (i - l) = i
    BY <1>1
  <2>2. b[i] = c[i - l]
    BY <2>1, <1>1, <1>2
  <2>3. QED
    BY <2>1, <2>2
<1>5. \A i \in 1 .. l + Len(c) : i \in 1 .. l \/ i \in l + 1 .. l + Len(c)
  BY <1>1
<1>6. w \in [1 .. l + Len(c) -> (1 .. k) \X Nat]
  <2>1. ASSUME NEW i \in 1 .. l + Len(c) PROVE (IF i \in 1 .. l THEN p[i] ELSE <<k, i - l>>) \in (1 .. k) \X Nat
    <3>1. CASE i \in 1 .. l
      <4>1. p[i] \in (1 .. k - 1) \X Nat
        BY <3>1 DEF Lays
      <4>2. QED
        BY <4>1, <3>1, <1>1
    <3>2. CASE i \in l + 1 .. l + Len(c)
      <4>1. i - l \in Nat /\ i \notin 1 .. l
        BY <3>2, <1>1
      <4>2. QED
        BY <4>1, <1>1
    <3>3. QED
      BY <3>1, <3>2, <1>5
  <2>2. QED
    BY <2>1
<1> HIDE DEF w, b
<1>7. ASSUME NEW i \in 1 .. l + Len(c) PROVE w[i][2] \in 1 .. Len(ss[w[i][1]]) /\ b[i] = ss[w[i][1]][w[i][2]]
  <2>1. CASE i \in 1 .. l
    BY <2>1, <1>3
  <2>2. CASE i \in l + 1 .. l + Len(c)
    BY <2>2, <1>4
  <2>3. QED
    BY <2>1, <2>2, <1>5
<1>8. ASSUME NEW i \in 1 .. l + Len(c), NEW j \in 1 .. l + Len(c), i < j
      PROVE  w[i][1] < w[j][1] \/ (w[i][1] = w[j][1] /\ w[i][2] < w[j][2])
  <2>1. CASE i \in 1 .. l /\ j \in 1 .. l
    <3>1. p[i][1] < p[j][1] \/ (p[i][1] = p[j][1] /\ p[i][2] < p[j][2])
      BY <2>1, <1>8 DEF Lays
    <3>2. QED
      BY <3>1, <2>1, <1>3
  <2>2. CASE i \in 1 .. l /\ j \in l + 1 .. l + Len(c)
    <3>1. w[i][1] \in 1 .. k - 1 /\ w[j][1] = k
      BY <2>2, <1>3, <1>4
    <3>2. QED
      BY <3>1, <1>1
  <2>3. CASE i \in l + 1 .. l + Len(c)
    <3>1. j \in l + 1 .. l + Len(c)
      BY <2>3, <1>8, <1>1
    <3>2. w[i][1] = k /\ w[i][2] = i - l /\ w[j][1] = k /\ w[j][2] = j - l
      BY <2>3, <3>1, <1>4
    <3>3. i - l < j - l
      BY <1>1, <1>8
    <3>4. QED
      BY <3>2, <3>3
  <2>4. QED
    BY <2>1, <2>2, <2>3, <1>5
<1>9. ASSUME NEW x \in 1 .. k, NEW y \in 1 .. Len(ss[x]) PROVE \E i \in 1 .. l + Len(c) : w[i] = <<x, y>>
  <2>1. CASE x = k
    <3>1. y \in 1 .. Len(c)
      BY <2>1
    <3>2. l + y \in l + 1 .. l + Len(c) /\ (l + y) - l = y
      BY <3>1, <1>1
    <3>3. w[l + y] = <<x, y>> /\ l + y \in 1 .. l + Len(c)
      BY <3>2, <2>1, <1>4
    <3>4. QED
      BY <3>3
  <2>2. CASE x # k
    <3>1. x \in 1 .. k - 1
      BY <2>2, <1>1
    <3>2. PICK i \in 1 .. l : p[i] = <<x, y>>
      BY <3>1 DEF Lays
    <3>3. QED
      BY <3>2, <1>3
  <2>3. QED
    BY <2>1, <2>2
<1>10. Lays(ss, k, b, w)
  BY <1>2, <1>6, <1>7, <1>8, <1>9 DEF Lays
<1>11. QED
  BY <1>2, <1>10 DEF b

FlatOf(ss, k, f) == f = [i \in 1 .. k |-> IF i = 1 THEN ss[i] ELSE f[i - 1] \o ss[i]]

LEMMA FlatExists ==
  ASSUME NEW n \in Nat, NEW ss
  PROVE  \A k \in 0 .. n : \E f : FlatOf(ss, k, f)
<1> DEFINE T == {k \in 0 .. n : \E f : FlatOf(ss, k, f)}
<1>1. 0 \in T
  <2> DEFINE f == [i \in 1 .. 0 |-> << >>]
  <2>1. \A i \in 1 .. 0 : FALSE
    OBVIOUS
  <2>2. FlatOf(ss, 0, f)
    BY <2>1, Zenon DEF FlatOf
  <2>3. QED
    BY <2>2
<1>2. ASSUME NEW k \in 0 .. n, k \in T, k < n PROVE k + 1 \in T
  <2>1. PICK f : FlatOf(ss, k, f)
    BY <1>2
  <2> DEFINE h == [i \in 1 .. k + 1 |-> IF i = 1 THEN ss[i] ELSE f[i - 1] \o ss[i]]
  <2>2. ASSUME NEW i \in 1 .. k PROVE h[i] = f[i]
    <3>1. i \in 1 .. k + 1
      OBVIOUS
    <3>2. h[i] = IF i = 1 THEN ss[i] ELSE f[i - 1] \o ss[i]
      BY <3>1, Zenon
    <3>3. f[i] = IF i = 1 THEN ss[i] ELSE f[i - 1] \o ss[i]
      BY <2>1, Zenon DEF FlatOf
    <3>4. QED
      BY <3>2, <3>3
  <2>3. ASSUME NEW i \in 1 .. k + 1, i # 1 PROVE h[i - 1] = f[i - 1]
    <3>1. i - 1 \in 1 .. k
      BY <2>3
    <3>2. QED
      BY <3>1, <2>2
  <2>4. FlatOf(ss, k + 1, h)
    BY <2>3, Zenon DEF FlatOf
  <2> HIDE DEF h
  <2>5. k + 1 \in 0 .. n
    BY <1>2
  <2>6. QED
    BY <2>4, <2>5
<1> HIDE DEF T
<1>3. \A k \in 0 .. n : k \in T
  BY <1>1, <1>2, Upwards
<1>4. QED
  BY <1>3 DEF T

\* Sequences one behind the other.
LEMMA FlatFacts ==
  ASSUME NEW S, NEW n \in Nat, NEW ss \in [1 .. n -> Seq(S)]
  PROVE  FlattenSeq(ss) \in Seq(S) /\ \E w : Lays(ss, n, FlattenSeq(ss), w)
<1>1. Len(ss) = n
  OBVIOUS
<1>2. CASE n = 0
  <2>1. FlattenSeq(ss) = ss
    BY <1>1, <1>2 DEF FlattenSeq
  <2>2. ss = << >>
    BY <1>2
  <2>3. QED
    BY <2>1, <2>2, <1>2, LaysNone
<1>3. CASE n > 0
  <2> DEFINE f == CHOOSE g : FlatOf(ss, n, g)
  <2>1. FlatOf(ss, n, f)
    <3>1. n \in 0 .. n
      OBVIOUS
    <3>2. \E g : FlatOf(ss, n, g)
      BY <3>1, FlatExists
    <3>3. QED
      BY <3>2, Zenon
  <2>2. FlattenSeq(ss) = f[n]
    <3>1. Len(ss) # 0
      BY <1>1, <1>3
    <3>2. QED
      BY <1>1, <3>1 DEF FlattenSeq, FlatOf
  <2> HIDE DEF f
  <2> DEFINE T == {k \in 0 .. n : k > 0 => f[k] \in Seq(S) /\ \E w : Lays(ss, k, f[k], w)}
  <2>3. 0 \in T
    OBVIOUS
  <2>4. ASSUME NEW k \in 0 .. n, k \in T, k < n PROVE k + 1 \in T
    <3>1. k + 1 \in 1 .. n /\ (k + 1) - 1 = k /\ k + 1 \in 0 .. n /\ k + 1 \in Nat /\ k + 1 > 0 /\ ss[k + 1] \in Seq(S)
      BY <2>4
    <3>2. f[k + 1] = IF k + 1 = 1 THEN ss[k + 1] ELSE f[k] \o ss[k + 1]
      <4>1. f[k + 1] = IF k + 1 = 1 THEN ss[k + 1] ELSE f[(k + 1) - 1] \o ss[k + 1]
        BY <2>1, <3>1, Zenon DEF FlatOf
      <4>2. QED
        BY <4>1, <3>1
    <3>3. f[k + 1] \in Seq(S) /\ \E w : Lays(ss, k + 1, f[k + 1], w)
      <4>1. CASE k = 0
        <5>1. << >> \in Seq(S) /\ \E w : Lays(ss, 0, << >>, w)
          BY LaysNone
        <5>2. PICK w : Lays(ss, 0, << >>, w)
          BY <5>1
        <5>3. Lays(ss, (k + 1) - 1, << >>, w)
          BY <5>2, <4>1, <3>1
        <5>4. << >> \o ss[k + 1] \in Seq(S) /\ \E v : Lays(ss, k + 1, << >> \o ss[k + 1], v)
          BY <5>1, <5>3, <3>1, LaysMore, Zenon
        <5>5. << >> \o ss[k + 1] = f[k + 1]
          BY <3>1, <3>2, <4>1
        <5>6. QED
          BY <5>4, <5>5
      <4>2. CASE k > 0
        <5>1. f[k] \in Seq(S) /\ \E w : Lays(ss, k, f[k], w)
          BY <2>4, <4>2
        <5>0. PICK w : Lays(ss, k, f[k], w)
          BY <5>1
        <5>2. Lays(ss, (k + 1) - 1, f[k], w)
          <6>1. (k + 1) - 1 = k
            BY <3>1
          <6>2. QED
            BY <5>0, <6>1, Zenon
        <5>3. f[k] \o ss[k + 1] \in Seq(S) /\ \E v : Lays(ss, k + 1, f[k] \o ss[k + 1], v)
          <6>1. f[k] \in Seq(S) /\ ss[k + 1] \in Seq(S) /\ k + 1 \in Nat /\ k + 1 > 0
            BY <5>1, <3>1
          <6>2. QED
            BY <5>2, <6>1, LaysMore, Zenon
        <5>4. f[k] \o ss[k + 1] = f[k + 1]
          <6>1. k + 1 # 1
            BY <4>2
          <6>2. QED
            BY <3>2, <6>1, Zenon
        <5>5. QED
          BY <5>3, <5>4
      <4>3. QED
        BY <4>1, <4>2
    <3>4. QED
      BY <3>1, <3>3
  <2> HIDE DEF T
  <2>5. \A k \in 0 .. n : k \in T
    BY <2>3, <2>4, Upwards
  <2>6. n \in T
    BY <2>5
  <2>7. QED
    BY <2>2, <2>6, <1>3 DEF T
<1>4. QED
  BY <1>2, <1>3

-----------------------------------------------------------------------------
(***************************************************************************)
(* Archives (TarScan): what a scan keeps has its types.                    *)
(***************************************************************************)
Paxes      == [path : Names, size : Int]
PaxStates  == [state : {"go", "bad", "stop"}, kv : Paxes]
TarEntries == [name : Names, size : Int, at : Nat]
TarLinks   == [name : Names, to : Names]
ScanStates ==
  [pos : Nat, skip : Int, extra : {"", "x", "g", "L"}, next : Paxes, global : Paxes, long : Names,
   entries : Seq(TarEntries), links : Seq(TarLinks), state : {"scan", "failed", "ended"}]

LEMMA NoNameTyped == NoName \in Names /\ NoPax \in Paxes
<1>1. NoName \in Names
  BY DEF NoName, Names, Text
<1>2. QED
  BY <1>1 DEF NoPax, NoSize, Paxes

LEMMA PaxRecordTyped ==
  ASSUME NEW acc \in PaxStates, NEW r \in PaxRecords
  PROVE  PaxRecord(acc, r) \in PaxStates
<1>1. /\ acc.state \in {"go", "bad", "stop"} /\ acc.kv \in Paxes /\ acc.kv.path \in Names /\ acc.kv.size \in Int
      /\ r.path \in Names /\ r.size \in Int
  BY DEF PaxStates, Paxes, PaxRecords
<1>2. [acc EXCEPT !.kv.path = r.path] \in PaxStates
  BY <1>1 DEF PaxStates, Paxes
<1>3. [acc EXCEPT !.kv.size = r.size] \in PaxStates
  BY <1>1 DEF PaxStates, Paxes
<1>4. [acc EXCEPT !.state = "bad"] \in PaxStates /\ [acc EXCEPT !.state = "stop"] \in PaxStates
  BY <1>1 DEF PaxStates
<1>5. PaxRecord(acc, r) \in {acc, [acc EXCEPT !.kv.path = r.path], [acc EXCEPT !.kv.size = r.size],
                             [acc EXCEPT !.state = "bad"], [acc EXCEPT !.state = "stop"]}
  BY DEF PaxRecord
<1>6. QED
  BY <1>2, <1>3, <1>4, <1>5

PaxesOf(recs, n, f) ==
  f = [s \in SUBSET (1 .. n) |->
         IF s = {} THEN [state |-> "go", kv |-> NoPax] ELSE PaxRecord(f[s \ {Max(s)}], recs[Max(s)])]
ReadingPax(recs, n, h) ==
  /\ h[0] = [state |-> "go", kv |-> NoPax] /\ h[n] = ParsePax(recs)
  /\ \A k \in 1 .. n : h[k] = PaxRecord(h[k - 1], recs[k])

\* The records of a pax payload are read one by one.
LEMMA PaxOneByOne ==
  ASSUME NEW n \in Nat, NEW recs \in [1 .. n -> PaxRecords]
  PROVE  \E h \in [0 .. n -> PaxStates] : ReadingPax(recs, n, h)
<1> DEFINE base == [state |-> "go", kv |-> NoPax]
           step == [ax \in PaxStates \X PaxRecords |-> PaxRecord(ax[1], ax[2])]
<1>1. base \in PaxStates
  BY NoNameTyped DEF PaxStates
<1>2. step \in [PaxStates \X PaxRecords -> PaxStates]
  <2>1. ASSUME NEW ax \in PaxStates \X PaxRecords PROVE PaxRecord(ax[1], ax[2]) \in PaxStates
    <3>1. ax[1] \in PaxStates /\ ax[2] \in PaxRecords
      OBVIOUS
    <3>2. QED
      BY <3>1, PaxRecordTyped
  <2>2. QED
    BY <2>1
<1>3. ASSUME NEW a \in PaxStates, NEW r \in PaxRecords PROVE step[<<a, r>>] = PaxRecord(a, r)
  OBVIOUS
<1> HIDE DEF step, base
<1>4. PICK f \in [SUBSET (1 .. n) -> PaxStates] : FoldOf(base, step, recs, n, f)
  <2>1. n \in 0 .. n
    OBVIOUS
  <2>2. \A k \in 0 .. n : \E f \in [SUBSET (1 .. k) -> PaxStates] : FoldOf(base, step, recs, k, f)
    BY <1>1, <1>2, FoldExists
  <2>3. QED
    BY <2>1, <2>2
<1>5. ASSUME NEW s \in SUBSET (1 .. n), s # {}
      PROVE  step[<<f[s \ {Max(s)}], recs[Max(s)]>>] = PaxRecord(f[s \ {Max(s)}], recs[Max(s)])
  <2>1. Max(s) \in 1 .. n
    <3>1. Max(s) \in s
      BY <1>5, LargestOf
    <3>2. QED
      BY <3>1
  <2>2. s \ {Max(s)} \in SUBSET (1 .. n)
    OBVIOUS
  <2>3. f[s \ {Max(s)}] \in PaxStates /\ recs[Max(s)] \in PaxRecords
    BY <2>1, <2>2, <1>4
  <2>4. QED
    BY <2>3, <1>3, Zenon
<1>6. PaxesOf(recs, n, f)
  BY <1>4, <1>5, Zenon DEF FoldOf, PaxesOf, base
<1> DEFINE iter == CHOOSE g : PaxesOf(recs, n, g)
<1>7. PaxesOf(recs, n, iter)
  BY <1>6, Zenon
<1>8. ParsePax(recs) = iter[1 .. n]
  BY DEF ParsePax, FoldLeft, MapThenFoldSet, PaxesOf
<1> HIDE DEF iter
<1> DEFINE h == [k \in 0 .. n |-> iter[1 .. k]]
<1>9. ASSUME NEW k \in 1 .. n PROVE h[k] = PaxRecord(h[k - 1], recs[k])
  <2>1. 1 .. k \in SUBSET (1 .. n) /\ 1 .. k # {} /\ k \in 0 .. n /\ k - 1 \in 0 .. n
    OBVIOUS
  <2>2. (1 .. k) \ {k} = 1 .. k - 1
    OBVIOUS
  <2>3. Max(1 .. k) = k
    BY LastIndex
  <2>4. iter[1 .. k] = PaxRecord(iter[(1 .. k) \ {Max(1 .. k)}], recs[Max(1 .. k)])
    BY <1>7, <2>1, Zenon DEF PaxesOf
  <2>5. QED
    BY <2>1, <2>2, <2>3, <2>4
<1>10. h[0] = base /\ h[n] = iter[1 .. n]
  <2>1. 0 \in 0 .. n /\ n \in 0 .. n /\ 1 .. 0 = {} /\ 1 .. 0 \in SUBSET (1 .. n)
    OBVIOUS
  <2>2. iter[1 .. 0] = base
    BY <1>7, <2>1, Zenon DEF PaxesOf, base
  <2>3. QED
    BY <2>1, <2>2
<1>11. h \in [0 .. n -> PaxStates]
  <2> DEFINE T == {k \in 0 .. n : h[k] \in PaxStates}
  <2>1. 0 \in T
    BY <1>10, <1>1
  <2>2. ASSUME NEW k \in 0 .. n, k \in T, k < n PROVE k + 1 \in T
    <3>1. k + 1 \in 1 .. n /\ (k + 1) - 1 = k /\ k + 1 \in 0 .. n
      BY <2>2
    <3>2. h[k + 1] = PaxRecord(h[(k + 1) - 1], recs[k + 1])
      BY <1>9, <3>1, Zenon
    <3>3. h[k + 1] = PaxRecord(h[k], recs[k + 1]) /\ recs[k + 1] \in PaxRecords /\ h[k] \in PaxStates
      BY <3>1, <3>2, <2>2
    <3>4. h[k + 1] \in PaxStates
      BY <3>3, PaxRecordTyped
    <3>5. QED
      BY <3>1, <3>4
  <2> HIDE DEF T
  <2>3. \A k \in 0 .. n : k \in T
    BY <2>1, <2>2, Upwards
  <2>4. \A k \in 0 .. n : h[k] \in PaxStates
    BY <2>3 DEF T
  <2>5. QED
    BY <2>4
<1>12. ReadingPax(recs, n, h)
  BY <1>8, <1>9, <1>10, Zenon DEF ReadingPax, base
<1>13. QED
  BY <1>11, <1>12, Zenon

LEMMA ParsePaxTyped ==
  ASSUME NEW recs \in Seq(PaxRecords)
  PROVE  ParsePax(recs) \in PaxStates
<1> DEFINE n == Len(recs)
<1>1. n \in Nat /\ recs \in [1 .. n -> PaxRecords] /\ n \in 0 .. n
  OBVIOUS
<1> HIDE DEF n
<1>2. PICK h \in [0 .. n -> PaxStates] : ReadingPax(recs, n, h)
  BY <1>1, PaxOneByOne
<1>3. QED
  BY <1>1, <1>2 DEF ReadingPax

LEMMA StartTyped == ScanStart \in ScanStates
<1>1. << >> \in Seq(TarEntries) /\ << >> \in Seq(TarLinks)
  OBVIOUS
<1>2. QED
  BY <1>1, NoNameTyped DEF ScanStart, ScanStates

LEMMA BlocksNat ==
  ASSUME NEW k \in Int
  PROVE  BlocksOf(k) \in Nat
<1>1. Block \in Nat \ {0} /\ Word \in Nat \ {0}
  BY TarAssumption
<1> DEFINE a == (k + Block - 1) % Word
           b == a \div Block
<1>2. a \in Nat
  BY <1>1
<1> HIDE DEF a
<1>3. b \in Nat
  BY <1>1, <1>2
<1> HIDE DEF b
<1>4. b * Block \in Nat
  BY <1>1, <1>3
<1>5. (b * Block) \div Block \in Nat
  BY <1>1, <1>4
<1>6. QED
  BY <1>5 DEF BlocksOf, RoundUp, a, b

LEMMA MergeTyped ==
  ASSUME NEW p \in Paxes, NEW q \in Paxes
  PROVE  Merge(p, q) \in Paxes
BY DEF Merge, Paxes

LEMMA ScanUpdates ==
  ASSUME NEW a \in ScanStates
  PROVE  /\ \A p \in Nat : [a EXCEPT !.pos = p] \in ScanStates
         /\ \A k \in Int : [a EXCEPT !.skip = k] \in ScanStates
         /\ \A x \in {"", "x", "g", "L"}, k \in Int : [a EXCEPT !.extra = x, !.skip = k] \in ScanStates
         /\ \A k \in Int : [a EXCEPT !.long = NoName, !.next = NoPax, !.skip = k] \in ScanStates
         /\ \A q \in Paxes : [a EXCEPT !.global = q] \in ScanStates /\ [a EXCEPT !.next = q] \in ScanStates
         /\ \A x \in Names : [a EXCEPT !.long = x] \in ScanStates
         /\ \A q \in Seq(TarEntries) : [a EXCEPT !.entries = q] \in ScanStates
         /\ \A q \in Seq(TarLinks) : [a EXCEPT !.links = q] \in ScanStates
         /\ \A x \in {"scan", "failed", "ended"} : [a EXCEPT !.state = x] \in ScanStates
         /\ [a EXCEPT !.extra = ""] \in ScanStates
<1>1. \A p \in Nat : [a EXCEPT !.pos = p] \in ScanStates
  BY DEF ScanStates
<1>2. \A k \in Int : [a EXCEPT !.skip = k] \in ScanStates
  BY DEF ScanStates
<1>3. \A x \in {"", "x", "g", "L"}, k \in Int : [a EXCEPT !.extra = x, !.skip = k] \in ScanStates
  BY DEF ScanStates
<1>4. \A k \in Int : [a EXCEPT !.long = NoName, !.next = NoPax, !.skip = k] \in ScanStates
  BY NoNameTyped DEF ScanStates
<1>5. \A q \in Paxes : [a EXCEPT !.global = q] \in ScanStates /\ [a EXCEPT !.next = q] \in ScanStates
  BY DEF ScanStates
<1>6. \A x \in Names : [a EXCEPT !.long = x] \in ScanStates
  BY DEF ScanStates
<1>7. \A q \in Seq(TarEntries) : [a EXCEPT !.entries = q] \in ScanStates
  BY DEF ScanStates
<1>8. \A q \in Seq(TarLinks) : [a EXCEPT !.links = q] \in ScanStates
  BY DEF ScanStates
<1>9. \A x \in {"scan", "failed", "ended"} : [a EXCEPT !.state = x] \in ScanStates
  BY DEF ScanStates
<1>10. [a EXCEPT !.extra = ""] \in ScanStates
  BY DEF ScanStates
<1>11. QED
  BY <1>1, <1>2, <1>3, <1>4, <1>5, <1>6, <1>7, <1>8, <1>9, <1>10

LEMMA ReadExtraTyped ==
  ASSUME NEW a \in ScanStates, NEW b \in TarBlocks, b.type \in {"x", "g", "L"}
  PROVE  ReadExtra(a, b) \in ScanStates
<1>1. BlocksOf(b.size) \in Nat
  BY BlocksNat DEF TarBlocks
<1>2. [a EXCEPT !.state = "failed"] \in ScanStates
  BY DEF ScanStates
<1>3. [a EXCEPT !.long = NoName] \in ScanStates
  BY NoNameTyped DEF ScanStates
<1>4. [a EXCEPT !.extra = b.type, !.skip = BlocksOf(b.size) - 1] \in ScanStates
  <2>1. BlocksOf(b.size) - 1 \in Int
    BY <1>1
  <2>2. QED
    BY <2>1, ScanUpdates
<1>5. QED
  BY <1>2, <1>3, <1>4 DEF ReadExtra

LEMMA TakeExtraTyped ==
  ASSUME NEW a \in ScanStates, NEW b \in TarBlocks
  PROVE  TakeExtra(a, b) \in ScanStates
<1> DEFINE pax == ParsePax(b.recs)
           c   == [a EXCEPT !.extra = ""]
<1>1. pax \in PaxStates
  BY ParsePaxTyped DEF TarBlocks
<1> HIDE DEF pax
<1>2. pax.kv \in Paxes
  BY <1>1 DEF PaxStates
<1>3. c \in ScanStates
  BY DEF ScanStates
<1> HIDE DEF c
<1>4. [c EXCEPT !.long = b.name] \in ScanStates /\ [c EXCEPT !.state = "failed"] \in ScanStates
  BY <1>3 DEF ScanStates, TarBlocks
<1>5. Merge(c.global, pax.kv) \in Paxes /\ Merge(c.next, pax.kv) \in Paxes
  BY <1>2, <1>3, MergeTyped DEF ScanStates
<1>6. /\ [c EXCEPT !.global = Merge(c.global, pax.kv)] \in ScanStates
      /\ [c EXCEPT !.next = Merge(c.next, pax.kv)] \in ScanStates
  BY <1>3, <1>5 DEF ScanStates
<1>7. TakeExtra(a, b) \in
        {[c EXCEPT !.long = b.name], [c EXCEPT !.state = "failed"],
         [c EXCEPT !.global = Merge(c.global, pax.kv)], [c EXCEPT !.next = Merge(c.next, pax.kv)]}
  BY DEF TakeExtra, c, pax
<1>8. QED
  BY <1>4, <1>6, <1>7

LEMMA FullTyped ==
  ASSUME NEW a \in ScanStates, NEW b \in TarBlocks
  PROVE  FullName(a, b) \in Names /\ FullSize(a, b) \in Int
<1>1. Overrides(a) \in Paxes
  BY MergeTyped DEF Overrides, ScanStates
<1>2. Overrides(a).path \in Names /\ Overrides(a).size \in Int /\ a.long \in Names /\ b.name \in Names /\ b.size \in Int
  BY <1>1 DEF Paxes, ScanStates, TarBlocks
<1>3. QED
  BY <1>2 DEF FullName, FullSize

LEMMA ReadMemberTyped ==
  ASSUME NEW a \in ScanStates, NEW b \in TarBlocks
  PROVE  ReadMember(a, b) \in ScanStates
<1> DEFINE name == FullName(a, b)
           sz   == FullSize(a, b)
           c    == [a EXCEPT !.long = NoName, !.next = NoPax, !.skip = BlocksOf(sz)]
           e    == [name |-> name, size |-> sz, at |-> a.pos]
           l    == [name |-> name, to |-> b.to]
<1>1. name \in Names /\ sz \in Int /\ BlocksOf(sz) \in Nat
  BY FullTyped, BlocksNat
<1>2. e \in TarEntries /\ l \in TarLinks
  BY <1>1 DEF TarEntries, TarLinks, ScanStates, TarBlocks
<1>3. ReadMember(a, b) \in {c, [c EXCEPT !.entries = Append(c.entries, e)], [c EXCEPT !.links = Append(c.links, l)]}
  BY DEF ReadMember
<1> HIDE DEF name, sz, e, l
<1>4. c \in ScanStates
  <2>1. BlocksOf(sz) \in Int
    BY <1>1
  <2>2. QED
    BY <2>1, ScanUpdates
<1> HIDE DEF c
<1>5. c.entries \in Seq(TarEntries) /\ c.links \in Seq(TarLinks)
  BY <1>4 DEF ScanStates
<1>6. Append(c.entries, e) \in Seq(TarEntries) /\ Append(c.links, l) \in Seq(TarLinks)
  BY <1>2, <1>5
<1>7. [c EXCEPT !.entries = Append(c.entries, e)] \in ScanStates /\ [c EXCEPT !.links = Append(c.links, l)] \in ScanStates
  BY <1>4, <1>6 DEF ScanStates
<1>8. QED
  BY <1>3, <1>4, <1>7

LEMMA ScanFields ==
  ASSUME NEW a \in ScanStates
  PROVE  /\ a.pos \in Nat /\ a.skip \in Int /\ a.pos + 1 \in Nat /\ a.skip - 1 \in Int
         /\ a.entries \in Seq(TarEntries) /\ a.links \in Seq(TarLinks)
<1>1. a.pos \in Nat /\ a.skip \in Int /\ a.entries \in Seq(TarEntries) /\ a.links \in Seq(TarLinks)
  BY DEF ScanStates
<1>2. QED
  BY <1>1

\* A block further.
Moved(acc) == [acc EXCEPT !.pos = @ + 1]

LEMMA ScanBlockTyped ==
  ASSUME NEW validate \in BOOLEAN, NEW acc \in ScanStates, NEW b \in TarBlocks
  PROVE  ScanBlock(validate, acc, b) \in ScanStates
<1> DEFINE a == Moved(acc)
<1>1. a \in ScanStates
  <2>1. acc.pos + 1 \in Nat
    BY ScanFields, Zenon
  <2>2. [acc EXCEPT !.pos = acc.pos + 1] \in ScanStates
    BY <2>1, ScanUpdates
  <2>3. QED
    BY <2>2 DEF Moved
<1>2. /\ [a EXCEPT !.skip = a.skip - 1] \in ScanStates /\ [a EXCEPT !.state = "ended"] \in ScanStates
      /\ [a EXCEPT !.state = "failed"] \in ScanStates
  <2> HIDE DEF a
  <2>1. a.skip - 1 \in Int
    BY <1>1, ScanFields, Zenon
  <2>2. QED
    BY <2>1, <1>1, ScanUpdates
<1>3. TakeExtra(a, b) \in ScanStates /\ ReadMember(a, b) \in ScanStates
  BY <1>1, TakeExtraTyped, ReadMemberTyped, Zenon
<1>4. b.type \in {"x", "g", "L"} => ReadExtra(a, b) \in ScanStates
  BY <1>1, ReadExtraTyped, Zenon
<1>5. \/ ScanBlock(validate, acc, b) = acc
      \/ ScanBlock(validate, acc, b) = TakeExtra(a, b)
      \/ ScanBlock(validate, acc, b) = [a EXCEPT !.skip = a.skip - 1]
      \/ ScanBlock(validate, acc, b) = [a EXCEPT !.state = "ended"]
      \/ ScanBlock(validate, acc, b) = [a EXCEPT !.state = "failed"]
      \/ ScanBlock(validate, acc, b) = ReadMember(a, b)
      \/ (b.type \in {"x", "g", "L"} /\ ScanBlock(validate, acc, b) = ReadExtra(a, b))
  <2>1. ScanBlock(validate, acc, b) =
          IF acc.state # "scan" THEN acc
          ELSE IF acc.extra # "" THEN TakeExtra(a, b)
          ELSE IF acc.skip > 0 THEN [a EXCEPT !.skip = @ - 1]
          ELSE IF b.kind = "zeros" THEN [a EXCEPT !.state = "ended"]
          ELSE IF (validate /\ ~b.sound) \/ b.size = NoSize THEN [a EXCEPT !.state = "failed"]
          ELSE IF b.type \in {"x", "g", "L"} THEN ReadExtra(a, b)
          ELSE ReadMember(a, b)
    BY Zenon DEF ScanBlock, Moved
  <2> HIDE DEF a
  <2>2. QED
    BY <2>1
<1>6. QED
  BY <1>1, <1>2, <1>3, <1>4, <1>5

ScansOf(validate, blocks, n, f) ==
  f = [s \in SUBSET (1 .. n) |->
         IF s = {} THEN ScanStart ELSE ScanBlock(validate, f[s \ {Max(s)}], blocks[Max(s)])]
Scanning(validate, blocks, n, h) ==
  /\ h[0] = ScanStart /\ h[n] = Scan(validate, blocks)
  /\ \A k \in 1 .. n : h[k] = ScanBlock(validate, h[k - 1], blocks[k])

\* The blocks of an archive are scanned one by one.
LEMMA ScanOneByOne ==
  ASSUME NEW validate \in BOOLEAN, NEW n \in Nat, NEW blocks \in [1 .. n -> TarBlocks]
  PROVE  \E h \in [0 .. n -> ScanStates] : Scanning(validate, blocks, n, h)
<1> DEFINE base == ScanStart
           step == [ax \in ScanStates \X TarBlocks |-> ScanBlock(validate, ax[1], ax[2])]
<1>1. base \in ScanStates
  BY NoNameTyped, StartTyped
<1>2. step \in [ScanStates \X TarBlocks -> ScanStates]
  <2>1. ASSUME NEW ax \in ScanStates \X TarBlocks PROVE ScanBlock(validate, ax[1], ax[2]) \in ScanStates
    <3>1. ax[1] \in ScanStates /\ ax[2] \in TarBlocks
      OBVIOUS
    <3>2. QED
      BY <3>1, ScanBlockTyped
  <2>2. QED
    BY <2>1
<1>3. ASSUME NEW a \in ScanStates, NEW r \in TarBlocks PROVE step[<<a, r>>] = ScanBlock(validate, a, r)
  OBVIOUS
<1> HIDE DEF step, base
<1>4. PICK f \in [SUBSET (1 .. n) -> ScanStates] : FoldOf(base, step, blocks, n, f)
  <2>1. n \in 0 .. n
    OBVIOUS
  <2>2. \A k \in 0 .. n : \E f \in [SUBSET (1 .. k) -> ScanStates] : FoldOf(base, step, blocks, k, f)
    BY <1>1, <1>2, FoldExists
  <2>3. QED
    BY <2>1, <2>2
<1>5. ASSUME NEW s \in SUBSET (1 .. n), s # {}
      PROVE  step[<<f[s \ {Max(s)}], blocks[Max(s)]>>] = ScanBlock(validate, f[s \ {Max(s)}], blocks[Max(s)])
  <2>1. Max(s) \in 1 .. n
    <3>1. Max(s) \in s
      BY <1>5, LargestOf
    <3>2. QED
      BY <3>1
  <2>2. s \ {Max(s)} \in SUBSET (1 .. n)
    OBVIOUS
  <2>3. f[s \ {Max(s)}] \in ScanStates /\ blocks[Max(s)] \in TarBlocks
    BY <2>1, <2>2, <1>4
  <2>4. QED
    BY <2>3, <1>3, Zenon
<1>6. ScansOf(validate, blocks, n, f)
  BY <1>4, <1>5, Zenon DEF FoldOf, ScansOf, base
<1> DEFINE iter == CHOOSE g : ScansOf(validate, blocks, n, g)
<1>7. ScansOf(validate, blocks, n, iter)
  BY <1>6, Zenon
<1>8. Scan(validate, blocks) = iter[1 .. n]
  BY DEF Scan, FoldLeft, MapThenFoldSet, ScansOf
<1> HIDE DEF iter
<1> DEFINE h == [k \in 0 .. n |-> iter[1 .. k]]
<1>9. ASSUME NEW k \in 1 .. n PROVE h[k] = ScanBlock(validate, h[k - 1], blocks[k])
  <2>1. 1 .. k \in SUBSET (1 .. n) /\ 1 .. k # {} /\ k \in 0 .. n /\ k - 1 \in 0 .. n
    OBVIOUS
  <2>2. (1 .. k) \ {k} = 1 .. k - 1
    OBVIOUS
  <2>3. Max(1 .. k) = k
    BY LastIndex
  <2>4. iter[1 .. k] = ScanBlock(validate, iter[(1 .. k) \ {Max(1 .. k)}], blocks[Max(1 .. k)])
    BY <1>7, <2>1, Zenon DEF ScansOf
  <2>5. QED
    BY <2>1, <2>2, <2>3, <2>4
<1>10. h[0] = base /\ h[n] = iter[1 .. n]
  <2>1. 0 \in 0 .. n /\ n \in 0 .. n /\ 1 .. 0 = {} /\ 1 .. 0 \in SUBSET (1 .. n)
    OBVIOUS
  <2>2. iter[1 .. 0] = base
    BY <1>7, <2>1, Zenon DEF ScansOf, base
  <2>3. QED
    BY <2>1, <2>2
<1>11. h \in [0 .. n -> ScanStates]
  <2> DEFINE T == {k \in 0 .. n : h[k] \in ScanStates}
  <2>1. 0 \in T
    BY <1>10, <1>1
  <2>2. ASSUME NEW k \in 0 .. n, k \in T, k < n PROVE k + 1 \in T
    <3>1. k + 1 \in 1 .. n /\ (k + 1) - 1 = k /\ k + 1 \in 0 .. n
      BY <2>2
    <3>2. h[k + 1] = ScanBlock(validate, h[(k + 1) - 1], blocks[k + 1])
      BY <1>9, <3>1, Zenon
    <3>3. h[k + 1] = ScanBlock(validate, h[k], blocks[k + 1]) /\ blocks[k + 1] \in TarBlocks /\ h[k] \in ScanStates
      BY <3>1, <3>2, <2>2
    <3>4. h[k + 1] \in ScanStates
      BY <3>3, ScanBlockTyped
    <3>5. QED
      BY <3>1, <3>4
  <2> HIDE DEF T
  <2>3. \A k \in 0 .. n : k \in T
    BY <2>1, <2>2, Upwards
  <2>4. \A k \in 0 .. n : h[k] \in ScanStates
    BY <2>3 DEF T
  <2>5. QED
    BY <2>4
<1>12. Scanning(validate, blocks, n, h)
  BY <1>8, <1>9, <1>10, Zenon DEF Scanning, base
<1>13. QED
  BY <1>11, <1>12, Zenon

\* The first of some numbers.
LEMMA FirstOf ==
  ASSUME NEW T \in SUBSET Nat, T # {}
  PROVE  LET x == CHOOSE i \in T : \A j \in T : i <= j
         IN  x \in T /\ \A j \in T : x <= j
BY LeastOf

LEMMA PositionsNat ==
  ASSUME NEW S, NEW s \in Seq(S)
  PROVE  Len(s) \in Nat /\ DOMAIN s = 1 .. Len(s) /\ s \in [1 .. Len(s) -> S]
OBVIOUS

\* out are the elements of q at some of its places.
PickedFrom(S, q, at, out) ==
  /\ out \in Seq(S) /\ Len(out) \in Nat
  /\ \A i \in 1 .. Len(out) : \E k \in 1 .. Len(q) : k \in at /\ out[i] = q[k]
  /\ \A k \in 1 .. Len(q) : k \in at => \E i \in 1 .. Len(out) : out[i] = q[k]
  /\ \E p : Picks(q, at, Len(q), out, p)

\* PickedFacts for a sequence.
LEMMA PickedSeq ==
  ASSUME NEW S, NEW q \in Seq(S), NEW at
  PROVE  PickedFrom(S, q, at, Picked(q, at))
<1> DEFINE n == Len(q)
           out == Picked(q, at)
<1>1. n \in Nat /\ q \in [1 .. n -> S]
  BY PositionsNat
<1>2. out \in Seq(S) /\ \E p : Picks(q, at, n, out, p)
  BY <1>1, PickedFacts, Zenon
<1>3. PICK p : Picks(q, at, n, out, p)
  BY <1>2
<1>4. Len(out) \in Nat
  BY <1>2
<1> HIDE DEF out, n
<1>5. ASSUME NEW i \in 1 .. Len(out) PROVE \E k \in 1 .. n : k \in at /\ out[i] = q[k]
  <2>1. p[i] \in 1 .. n /\ p[i] \in at /\ out[i] = q[p[i]]
    BY <1>3 DEF Picks
  <2>2. QED
    BY <2>1
<1>6. ASSUME NEW k \in 1 .. n, k \in at PROVE \E i \in 1 .. Len(out) : out[i] = q[k]
  <2>1. PICK i \in 1 .. Len(out) : p[i] = k
    BY <1>3, <1>6 DEF Picks
  <2>2. out[i] = q[p[i]]
    BY <1>3 DEF Picks
  <2>3. QED
    BY <2>1, <2>2
<1>7. QED
  BY <1>2, <1>4, <1>5, <1>6, Zenon DEF out, n, PickedFrom

LEMMA ScanTyped ==
  ASSUME NEW validate \in BOOLEAN, NEW blocks \in Seq(TarBlocks)
  PROVE  Scan(validate, blocks) \in ScanStates
<1> DEFINE n == Len(blocks)
<1>1. n \in Nat /\ blocks \in [1 .. n -> TarBlocks] /\ n \in 0 .. n
  OBVIOUS
<1> HIDE DEF n
<1>2. PICK h \in [0 .. n -> ScanStates] : Scanning(validate, blocks, n, h)
  BY <1>1, ScanOneByOne
<1>3. QED
  BY <1>1, <1>2 DEF Scanning

\* Hard links become entries.
LEMMA ResolvedTyped ==
  ASSUME NEW a \in ScanStates
  PROVE  Resolved(a) \in Seq(TarEntries)
<1> DEFINE Files(l) == {i \in DOMAIN a.entries : a.entries[i].name = l.to}
           first(l) == CHOOSE i \in Files(l) : \A j \in Files(l) : i <= j
           at == {k \in DOMAIN a.links : Files(a.links[k]) # {}}
           found == Picked(a.links, at)
           more == [k \in DOMAIN found |->
                      [name |-> found[k].name, size |-> a.entries[first(found[k])].size,
                       at |-> a.entries[first(found[k])].at]]
<1>1. a.entries \in Seq(TarEntries) /\ a.links \in Seq(TarLinks)
  BY ScanFields
<1>2. DOMAIN a.entries = 1 .. Len(a.entries) /\ Len(a.entries) \in Nat /\ DOMAIN a.links = 1 .. Len(a.links)
  BY <1>1
<1>3. ASSUME NEW l, Files(l) # {} PROVE first(l) \in 1 .. Len(a.entries)
  <2>1. Files(l) \in SUBSET Nat /\ Files(l) \subseteq 1 .. Len(a.entries)
    BY <1>2
  <2> HIDE DEF Files
  <2>2. first(l) \in Files(l)
    BY <2>1, <1>3, FirstOf, Zenon
  <2>3. QED
    BY <2>1, <2>2
<1> HIDE DEF first
<1>4. /\ found \in Seq(TarLinks) /\ Len(found) \in Nat
      /\ \A i \in 1 .. Len(found) : \E k \in 1 .. Len(a.links) : k \in at /\ found[i] = a.links[k]
  <2> DEFINE q == a.links
  <2>1. q \in Seq(TarLinks)
    BY <1>1
  <2> HIDE DEF at, q
  <2>2. PickedFrom(TarLinks, q, at, Picked(q, at))
    BY <2>1, PickedSeq, Zenon
  <2>3. QED
    BY <2>2, Zenon DEF q, found, PickedFrom
<1> HIDE DEF found
<1>5. ASSUME NEW i \in 1 .. Len(found) PROVE found[i] \in TarLinks /\ Files(found[i]) # {}
  BY <1>4
<1> HIDE DEF Files
<1>6. ASSUME NEW i \in 1 .. Len(found)
      PROVE  [name |-> found[i].name, size |-> a.entries[first(found[i])].size,
              at |-> a.entries[first(found[i])].at] \in TarEntries
  <2>1. a.entries[first(found[i])] \in TarEntries
    BY <1>1, <1>3, <1>5
  <2>2. found[i].name \in Names
    BY <1>5 DEF TarLinks
  <2>3. QED
    BY <2>1, <2>2 DEF TarEntries
<1>7. more \in Seq(TarEntries)
  <2>1. DOMAIN found = 1 .. Len(found)
    BY <1>4
  <2>2. more \in [1 .. Len(found) -> TarEntries]
    BY <2>1, <1>6
  <2> HIDE DEF more
  <2>3. QED
    BY <2>2, <1>4
<1>8. Resolved(a) = a.entries \o more
  BY Zenon DEF Resolved, more, found, at, Files, first
<1> HIDE DEF more
<1>9. QED
  BY <1>1, <1>7, <1>8

\* What opening an archive gives.
LEMMA TarOpenTyped ==
  ASSUME NEW validate \in BOOLEAN, NEW blocks \in Seq(TarBlocks)
  PROVE  /\ TarOpen(blocks, validate).ok \in BOOLEAN
         /\ TarOpen(blocks, validate).entries \in Seq(TarEntries)
<1>1. Resolved(Scan(validate, blocks)) \in Seq(TarEntries) /\ << >> \in Seq(TarEntries)
  BY ScanTyped, ResolvedTyped
<1> DEFINE r == Resolved(Scan(validate, blocks))
<1> HIDE DEF r
<1>2. \/ TarOpen(blocks, validate) = [ok |-> TRUE, entries |-> r]
      \/ TarOpen(blocks, validate) = [ok |-> FALSE, entries |-> << >>]
  BY DEF TarOpen, r
<1>3. r \in Seq(TarEntries) /\ << >> \in Seq(TarEntries)
  BY <1>1 DEF r
<1> DEFINE t == TarOpen(blocks, validate)
<1> HIDE DEF t
<1>4. CASE t = [ok |-> TRUE, entries |-> r]
  <2>1. t.ok = TRUE /\ t.entries = r
    BY <1>4
  <2>2. QED
    BY <2>1, <1>3 DEF t
<1>5. CASE t = [ok |-> FALSE, entries |-> << >>]
  <2>1. t.ok = FALSE /\ t.entries = << >>
    BY <1>5
  <2>2. QED
    BY <2>1, <1>3 DEF t
<1>6. QED
  BY <1>2, <1>4, <1>5 DEF t

-----------------------------------------------------------------------------
(***************************************************************************)
(* From files to images (ImageInput).                                      *)
(***************************************************************************)
OpenTars       == [ok : BOOLEAN, entries : Seq(TarEntries)]
CandidatesIn(n) == [file : 1 .. n, entry : Nat, name : Names, size : Int]
ImageSpecs     == [file : Nat, entry : Nat, base : Text, lz4 : BOOLEAN, size : Int, frame : Frames]

LEMMA OpenedTyped ==
  ASSUME NEW files \in Seq(InputFiles), NEW validate \in BOOLEAN
  PROVE  /\ Len(files) \in Nat /\ DOMAIN files = 1 .. Len(files)
         /\ files \in [1 .. Len(files) -> InputFiles]
         /\ Opened(files, validate) \in [1 .. Len(files) -> OpenTars]
<1>1. Len(files) \in Nat /\ DOMAIN files = 1 .. Len(files) /\ files \in [1 .. Len(files) -> InputFiles]
  OBVIOUS
<1>2. ASSUME NEW i \in 1 .. Len(files) PROVE TarOpen(files[i].blocks, validate) \in OpenTars
  <2>1. files[i] \in InputFiles
    BY <1>1
  <2> DEFINE f == files[i]
  <2> HIDE DEF f
  <2>2. f \in InputFiles
    BY <2>1 DEF f
  <2>3. f.blocks \in Seq(TarBlocks)
    BY <2>2 DEF InputFiles
  <2> DEFINE b == f.blocks
  <2> HIDE DEF b
  <2>4. TarOpen(b, validate).ok \in BOOLEAN /\ TarOpen(b, validate).entries \in Seq(TarEntries)
    BY <2>3, TarOpenTyped DEF b
  <2>5. \/ TarOpen(b, validate) = [ok |-> TRUE, entries |-> TarOpen(b, validate).entries]
        \/ TarOpen(b, validate) = [ok |-> FALSE, entries |-> TarOpen(b, validate).entries]
    BY DEF TarOpen
  <2> DEFINE t == TarOpen(b, validate)
  <2> HIDE DEF t
  <2> DEFINE es == t.entries
  <2>6. es \in Seq(TarEntries)
    BY <2>4 DEF t
  <2>7. t = [ok |-> TRUE, entries |-> es] \/ t = [ok |-> FALSE, entries |-> es]
    BY <2>5 DEF t
  <2> HIDE DEF es
  <2>8. t \in OpenTars
    <3>1. [ok |-> TRUE, entries |-> es] \in OpenTars /\ [ok |-> FALSE, entries |-> es] \in OpenTars
      BY <2>6 DEF OpenTars
    <3>2. QED
      BY <3>1, <2>7
  <2>9. QED
    BY <2>8 DEF t, b, f
<1>3. Opened(files, validate) \in [1 .. Len(files) -> OpenTars]
  BY <1>1, <1>2 DEF Opened
<1>4. QED
  BY <1>1, <1>3

\* The candidates of one file.
OfFile(files, tars, i) ==
  IF i \in Archives(files)
  THEN [j \in DOMAIN tars[i].entries |-> Candidate(i, j, tars[i].entries[j])]
  ELSE <<Candidate(i, 0, files[i])>>
OfFiles(files, tars) == [i \in DOMAIN files |-> OfFile(files, tars, i)]

LEMMA CandidateTyped ==
  ASSUME NEW n \in Nat, NEW i \in 1 .. n, NEW j \in Nat, NEW it, it.name \in Names, it.size \in Int
  PROVE  Candidate(i, j, it) \in CandidatesIn(n)
BY DEF Candidate, CandidatesIn

LEMMA OfFilesTyped ==
  ASSUME NEW files \in Seq(InputFiles), NEW tars \in [1 .. Len(files) -> OpenTars]
  PROVE  OfFiles(files, tars) \in [1 .. Len(files) -> Seq(CandidatesIn(Len(files)))]
<1>1. Len(files) \in Nat /\ DOMAIN files = 1 .. Len(files) /\ files \in [1 .. Len(files) -> InputFiles]
  OBVIOUS
<1>2. ASSUME NEW i \in 1 .. Len(files) PROVE OfFile(files, tars, i) \in Seq(CandidatesIn(Len(files)))
  <2> DEFINE es == tars[i].entries
  <2>1. es \in Seq(TarEntries) /\ i \in Nat
    BY <1>1 DEF OpenTars
  <2>2. files[i].name \in Names /\ files[i].size \in Int
    <3> DEFINE f == files[i]
    <3>1. f \in InputFiles
      BY <1>1
    <3> HIDE DEF f
    <3>2. f.name \in Names /\ f.size \in Nat
      BY <3>1, Zenon DEF InputFiles
    <3>3. QED
      BY <3>2 DEF f
  <2>3. Candidate(i, 0, files[i]) \in CandidatesIn(Len(files))
    BY <2>1, <2>2, CandidateTyped
  <2> HIDE DEF es
  <2>4. Len(es) \in Nat /\ DOMAIN es = 1 .. Len(es)
    BY <2>1
  <2>5. ASSUME NEW j \in 1 .. Len(es) PROVE Candidate(i, j, es[j]) \in CandidatesIn(Len(files))
    <3>1. es[j] \in TarEntries /\ j \in Nat
      BY <2>1, <2>4
    <3>2. es[j].name \in Names /\ es[j].size \in Int
      BY <3>1 DEF TarEntries
    <3>3. QED
      BY <2>1, <3>1, <3>2, CandidateTyped
  <2>6. [j \in DOMAIN es |-> Candidate(i, j, es[j])] \in Seq(CandidatesIn(Len(files)))
    BY <2>4, <2>5
  <2>7. <<Candidate(i, 0, files[i])>> \in Seq(CandidatesIn(Len(files)))
    BY <2>3
  <2>8. QED
    BY <2>6, <2>7 DEF OfFile, es
<1>3. QED
  BY <1>1, <1>2 DEF OfFiles

LEMMA CandidatesTyped ==
  ASSUME NEW files \in Seq(InputFiles), NEW tars \in [1 .. Len(files) -> OpenTars]
  PROVE  /\ FlattenSeq(OfFiles(files, tars)) \in Seq(CandidatesIn(Len(files)))
         /\ Candidates(files, tars) \in Seq(CandidatesIn(Len(files)))
<1> DEFINE all == FlattenSeq(OfFiles(files, tars))
           at == {k \in DOMAIN all : (all[k].entry # 0 => all[k].name # ListName) /\ all[k].name.base # ""}
<1>1. OfFiles(files, tars) \in [1 .. Len(files) -> Seq(CandidatesIn(Len(files)))] /\ Len(files) \in Nat
  BY OfFilesTyped
<1>2. FlattenSeq(OfFiles(files, tars)) \in Seq(CandidatesIn(Len(files)))
  BY <1>1, FlatFacts, Zenon
<1>3. Candidates(files, tars) = Picked(all, at)
  BY Zenon DEF Candidates, OfFiles, OfFile
<1>4. all \in Seq(CandidatesIn(Len(files)))
  BY <1>2
<1> HIDE DEF all, at
<1>5. PickedFrom(CandidatesIn(Len(files)), all, at, Picked(all, at))
  BY <1>4, PickedSeq, Zenon
<1>6. QED
  BY <1>2, <1>3, <1>5 DEF PickedFrom

\* Pass 3.
LEMMA KeptTyped ==
  ASSUME NEW files, NEW listed, NEW S, NEW cands \in Seq(S), NEW last
  PROVE  Kept(files, listed, cands, last) \in Seq(S)
<1> DEFINE at == {k \in DOMAIN cands : last[cands[k].name.base] = cands[k]
                                       /\ Allowed(files, listed, cands[k].name.base)}
<1>1. Kept(files, listed, cands, last) = Picked(cands, at)
  BY Zenon DEF Kept
<1> HIDE DEF at
<1>2. PickedFrom(S, cands, at, Picked(cands, at))
  BY PickedSeq, Zenon
<1>3. QED
  BY <1>1, <1>2 DEF PickedFrom

LEMMA PitLastTyped ==
  ASSUME NEW specs \in Seq(ImageSpecs)
  PROVE  PitLast(specs) \in Seq(ImageSpecs)
<1> DEFINE pits == {k \in DOMAIN specs : IsPit(specs[k].base)}
           rest == DOMAIN specs \ pits
<1>1. PitLast(specs) = Picked(specs, rest) \o Picked(specs, pits)
  BY Zenon DEF PitLast
<1> HIDE DEF pits, rest
<1>2. /\ PickedFrom(ImageSpecs, specs, pits, Picked(specs, pits))
      /\ PickedFrom(ImageSpecs, specs, rest, Picked(specs, rest))
  BY PickedSeq, Zenon
<1>3. Picked(specs, pits) \in Seq(ImageSpecs) /\ Picked(specs, rest) \in Seq(ImageSpecs)
  BY <1>2 DEF PickedFrom
<1>4. QED
  BY <1>1, <1>3

ImageChoices == [ok : BOOLEAN, specs : Seq(ImageSpecs)]

LEMMA ChoicesOf ==
  ASSUME NEW s, s \in Seq(ImageSpecs)
  PROVE  /\ [ok |-> TRUE, specs |-> s] \in ImageChoices /\ [ok |-> TRUE, specs |-> s].specs = s
         /\ [ok |-> FALSE, specs |-> << >>] \in ImageChoices
BY DEF ImageChoices

\* make_spec.
LEMMA MakeSpecTyped ==
  ASSUME NEW n \in Nat, NEW c \in CandidatesIn(n), NEW file \in InputFiles
  PROVE  MakeSpec(c, file) \in ImageSpecs
<1>1. c.file \in Nat /\ c.entry \in Nat /\ c.name \in Names /\ c.size \in Int
  BY DEF CandidatesIn
<1> DEFINE name == c.name
           fr == file.frame
<1>2. fr \in Frames
  BY DEF InputFiles
<1> HIDE DEF name, fr
<1>3. name \in Names
  BY <1>1 DEF name
<1>4. name.base \in Text /\ name.lz4 \in BOOLEAN
  BY <1>3 DEF Names
<1>5. fr.content \in Nat
  BY <1>2 DEF Frames
<1> DEFINE sz == IF name.lz4 THEN fr.content ELSE c.size
<1>6. sz \in Int
  BY <1>1, <1>5
<1>7. MakeSpec(c, file) = [file |-> c.file, entry |-> c.entry, base |-> name.base, lz4 |-> name.lz4,
                           size |-> sz, frame |-> fr]
  BY Zenon DEF MakeSpec, ImageSpec, name, fr, sz
<1> HIDE DEF sz
<1>8. QED
  BY <1>1, <1>2, <1>4, <1>6, <1>7 DEF ImageSpecs

\* The images made of the candidates that were kept.
MadeOf(files, kept) == [k \in DOMAIN kept |-> MakeSpec(kept[k], files[kept[k].file])]

LEMMA MadeTyped ==
  ASSUME NEW files \in Seq(InputFiles), NEW kept \in Seq(CandidatesIn(Len(files)))
  PROVE  /\ Len(kept) \in Nat /\ DOMAIN kept = 1 .. Len(kept) /\ DOMAIN MadeOf(files, kept) = 1 .. Len(kept)
         /\ MadeOf(files, kept) \in Seq(ImageSpecs) /\ Len(MadeOf(files, kept)) = Len(kept)
         /\ \A k \in 1 .. Len(kept) : MadeOf(files, kept)[k] = MakeSpec(kept[k], files[kept[k].file])
<1>1. Len(kept) \in Nat /\ DOMAIN kept = 1 .. Len(kept) /\ Len(files) \in Nat
  OBVIOUS
<1>2. ASSUME NEW k \in 1 .. Len(kept) PROVE MakeSpec(kept[k], files[kept[k].file]) \in ImageSpecs
  <2>1. kept[k] \in CandidatesIn(Len(files))
    BY <1>1
  <2> DEFINE c == kept[k]
  <2> HIDE DEF c
  <2>2. c.file \in 1 .. Len(files)
    BY <2>1 DEF c, CandidatesIn
  <2>3. files[c.file] \in InputFiles
    BY <2>2
  <2>4. QED
    BY <2>1, <2>3, <1>1, MakeSpecTyped DEF c
<1>3. MadeOf(files, kept) \in [1 .. Len(kept) -> ImageSpecs]
  BY <1>1, <1>2 DEF MadeOf
<1>4. MadeOf(files, kept) \in Seq(ImageSpecs) /\ Len(MadeOf(files, kept)) = Len(kept)
  BY <1>1, <1>3
<1>5. QED
  BY <1>1, <1>3, <1>4 DEF MadeOf

LEMMA SpecsTyped ==
  ASSUME NEW files \in Seq(InputFiles), NEW kept \in Seq(CandidatesIn(Len(files))), NEW ok
  PROVE  Specs(files, kept, ok) \in ImageChoices
<1>1. PitLast(MadeOf(files, kept)) \in Seq(ImageSpecs)
  BY MadeTyped, PitLastTyped
<1>2. \/ Specs(files, kept, ok) = [ok |-> TRUE, specs |-> PitLast(MadeOf(files, kept))]
      \/ Specs(files, kept, ok) = [ok |-> FALSE, specs |-> << >>]
  BY Zenon DEF Specs, MadeOf
<1>3. << >> \in Seq(ImageSpecs)
  OBVIOUS
<1>4. QED
  BY <1>1, <1>2, <1>3, ChoicesOf

LEMMA ExpandTyped ==
  ASSUME NEW files \in Seq(InputFiles)
  PROVE  Expand(files) \in ImageChoices
<1> DEFINE tars == Opened(files, TRUE)
           cands == Candidates(files, tars)
           kept == Kept(files, WithList(files, tars), cands, LastOf(cands))
<1>1. TRUE \in BOOLEAN
  OBVIOUS
<1>2. tars \in [1 .. Len(files) -> OpenTars]
  BY <1>1, OpenedTyped
<1>3. Expand(files) = Specs(files, kept, ArchivesOk(files, tars, WithList(files, tars)))
  BY Zenon DEF Expand, ExpandOpened, Choose
<1> HIDE DEF tars
<1>4. cands \in Seq(CandidatesIn(Len(files)))
  BY <1>2, CandidatesTyped
<1> HIDE DEF cands
<1>5. kept \in Seq(CandidatesIn(Len(files)))
  BY <1>4, KeptTyped
<1> HIDE DEF kept
<1>6. QED
  BY <1>3, <1>5, SpecsTyped

\* The entries the app takes.
AppFile(files, tars, i) ==
  [j \in DOMAIN tars[i].entries |->
     ImageSpec(i, j, tars[i].entries[j].name, tars[i].entries[j].size, files[i])]
AppFiles(files, tars) == [i \in DOMAIN files |-> AppFile(files, tars, i)]

LEMMA AppFilesTyped ==
  ASSUME NEW files \in Seq(InputFiles), NEW tars \in [1 .. Len(files) -> OpenTars]
  PROVE  AppFiles(files, tars) \in [1 .. Len(files) -> Seq(ImageSpecs)]
<1>1. Len(files) \in Nat /\ DOMAIN files = 1 .. Len(files) /\ files \in [1 .. Len(files) -> InputFiles]
  OBVIOUS
<1>2. ASSUME NEW i \in 1 .. Len(files) PROVE AppFile(files, tars, i) \in Seq(ImageSpecs)
  <2> DEFINE es == tars[i].entries
             fr == files[i].frame
  <2>1. es \in Seq(TarEntries) /\ i \in Nat
    BY <1>1 DEF OpenTars
  <2>2. fr \in Frames
    <3> DEFINE f == files[i]
    <3>1. f \in InputFiles
      BY <1>1
    <3> HIDE DEF f
    <3>2. f.frame \in Frames
      BY <3>1, Zenon DEF InputFiles
    <3>3. QED
      BY <3>2 DEF f
  <2>3. AppFile(files, tars, i) = [j \in DOMAIN es |->
          [file |-> i, entry |-> j, base |-> es[j].name.base, lz4 |-> es[j].name.lz4,
           size |-> es[j].size, frame |-> fr]]
    BY Zenon DEF AppFile, ImageSpec, es, fr
  <2> HIDE DEF es, fr
  <2>4. Len(es) \in Nat /\ DOMAIN es = 1 .. Len(es)
    BY <2>1
  <2>5. ASSUME NEW j \in 1 .. Len(es)
        PROVE  [file |-> i, entry |-> j, base |-> es[j].name.base, lz4 |-> es[j].name.lz4,
                size |-> es[j].size, frame |-> fr] \in ImageSpecs
    <3>1. es[j] \in TarEntries /\ j \in Nat
      BY <2>1, <2>4
    <3> DEFINE e == es[j]
               nm == e.name
    <3> HIDE DEF e
    <3>2. nm \in Names /\ e.size \in Int
      BY <3>1 DEF TarEntries, e
    <3> HIDE DEF nm
    <3>3. nm.base \in Text /\ nm.lz4 \in BOOLEAN
      BY <3>2 DEF Names
    <3>4. [file |-> i, entry |-> j, base |-> nm.base, lz4 |-> nm.lz4, size |-> e.size, frame |-> fr] \in ImageSpecs
      BY <2>1, <2>2, <3>1, <3>2, <3>3 DEF ImageSpecs
    <3>5. QED
      BY <3>4 DEF nm, e
  <2>6. QED
    BY <2>3, <2>4, <2>5
<1>3. QED
  BY <1>1, <1>2 DEF AppFiles

LEMMA AppExpandTyped ==
  ASSUME NEW files \in Seq(InputFiles)
  PROVE  AppExpand(files) \in ImageChoices
<1> DEFINE tars == Opened(files, FALSE)
           all == FlattenSeq(AppFiles(files, tars))
           at == {k \in DOMAIN all : all[k].base \notin {"", "download-list.txt"} /\ all[k].size > 0}
<1>1. FALSE \in BOOLEAN
  OBVIOUS
<1>2. tars \in [1 .. Len(files) -> OpenTars] /\ Len(files) \in Nat
  BY <1>1, OpenedTyped
<1>3. \/ AppExpand(files) = [ok |-> TRUE, specs |-> Picked(all, at)]
      \/ AppExpand(files) = [ok |-> FALSE, specs |-> << >>]
  BY Zenon DEF AppExpand, AppSpecs, AppFiles, AppFile
<1> HIDE DEF tars
<1>4. AppFiles(files, tars) \in [1 .. Len(files) -> Seq(ImageSpecs)]
  BY <1>2, AppFilesTyped
<1>5. all \in Seq(ImageSpecs)
  BY <1>2, <1>4, FlatFacts, Zenon
<1> HIDE DEF all, at
<1>6. PickedFrom(ImageSpecs, all, at, Picked(all, at))
  BY <1>5, PickedSeq, Zenon
<1>7. Picked(all, at) \in Seq(ImageSpecs) /\ << >> \in Seq(ImageSpecs)
  BY <1>6 DEF PickedFrom
<1>8. QED
  BY <1>3, <1>7, ChoicesOf

LEMMA NoPitTyped ==
  ASSUME NEW specs \in Seq(ImageSpecs)
  PROVE  NoPit(specs) \in Seq(ImageSpecs)
<1> DEFINE at == {k \in DOMAIN specs : ~IsPit(specs[k].base)}
<1>1. NoPit(specs) = Picked(specs, at)
  BY Zenon DEF NoPit
<1> HIDE DEF at
<1>2. PickedFrom(ImageSpecs, specs, at, Picked(specs, at))
  BY PickedSeq, Zenon
<1>3. QED
  BY <1>1, <1>2 DEF PickedFrom

-----------------------------------------------------------------------------
(***************************************************************************)
(* Images are mapped to partitions (map_to_pit) and a table is laid out    *)
(* (PitTable).                                                             *)
(***************************************************************************)

\* No partition is written twice: what map_to_pit has made of any images.
OnePerPartition(its) == \A k, m \in DOMAIN its : k # m => its[k].part # its[m].part

LEMMA PutKeeps ==
  ASSUME NEW t, NEW P, NEW Q, NEW s \in Q, Raw(t)[FindByFileName(t, s.base)].id \in P,
         NEW its \in Seq([part : P, spec : Q]), OnePerPartition(its)
  PROVE  /\ PutItem(t, its, s) \in Seq([part : P, spec : Q])
         /\ OnePerPartition(PutItem(t, its, s))
<1> DEFINE p  == FindByFileName(t, s.base)
           at == {k \in DOMAIN its : its[k].part = Raw(t)[p].id}
           it == [part |-> Raw(t)[p].id, spec |-> s]
           R  == [part : P, spec : Q]
<1>1. it \in R /\ it.part = Raw(t)[p].id
  OBVIOUS
<1>2. PutItem(t, its, s) = IF p = 0 THEN its
        ELSE IF at = {} THEN Append(its, it) ELSE [k \in DOMAIN its |-> IF k \in at THEN it ELSE its[k]]
  BY DEF PutItem
<1> HIDE DEF p, it, R
<1>3. its \in Seq(R) /\ DOMAIN its = 1 .. Len(its) /\ Len(its) \in Nat
  BY DEF R
<1>4. CASE p = 0
  BY <1>2, <1>4
<1>5. CASE p # 0 /\ at = {}
  <2>1. PutItem(t, its, s) = Append(its, it)
    BY <1>2, <1>5
  <2>2. /\ Append(its, it) \in Seq(R) /\ DOMAIN Append(its, it) = 1 .. Len(its) + 1
        /\ Append(its, it)[Len(its) + 1] = it
        /\ \A k \in 1 .. Len(its) : Append(its, it)[k] = its[k]
    BY <1>1, <1>3
  <2>3. \A k \in 1 .. Len(its) : its[k].part # it.part
    BY <1>1, <1>3, <1>5
  <2>4. OnePerPartition(Append(its, it))
    <3>1. ASSUME NEW k \in 1 .. Len(its) + 1, NEW m \in 1 .. Len(its) + 1, k # m
          PROVE  Append(its, it)[k].part # Append(its, it)[m].part
      <4>1. CASE k \in 1 .. Len(its) /\ m \in 1 .. Len(its)
        BY <4>1, <3>1, <2>2, <1>3 DEF OnePerPartition
      <4>2. CASE k = Len(its) + 1
        <5>1. m \in 1 .. Len(its)
          BY <4>2, <3>1, <1>3
        <5>2. QED
          BY <5>1, <4>2, <2>2, <2>3
      <4>3. CASE m = Len(its) + 1
        <5>1. k \in 1 .. Len(its)
          BY <4>3, <3>1, <1>3
        <5>2. QED
          BY <5>1, <4>3, <2>2, <2>3
      <4>4. QED
        BY <4>1, <4>2, <4>3, <1>3
    <3>2. QED
      BY <3>1, <2>2 DEF OnePerPartition
  <2>5. QED
    BY <2>1, <2>2, <2>4 DEF R
<1>6. CASE p # 0 /\ at # {}
  <2> DEFINE put == [k \in DOMAIN its |-> IF k \in at THEN it ELSE its[k]]
  <2>1. PutItem(t, its, s) = put
    BY <1>2, <1>6
  <2>2. \A k \in DOMAIN its : put[k] = (IF k \in at THEN it ELSE its[k]) /\ put[k].part = its[k].part
    BY <1>1
  <2>3. put \in Seq(R)
    BY <1>1, <1>3
  <2>4. DOMAIN put = DOMAIN its
    OBVIOUS
  <2> HIDE DEF put
  <2>5. OnePerPartition(put)
    BY <2>2, <2>4 DEF OnePerPartition
  <2>6. QED
    BY <2>1, <2>3, <2>5 DEF R
<1>7. QED
  BY <1>4, <1>5, <1>6

\* What map_to_pit makes of images.
PartsOf(t) == {Raw(t)[FindByFileName(t, s.base)].id : s \in ImageSpecs}
Items(t) == [part : PartsOf(t), spec : ImageSpecs]
Mappings(t) == {its \in Seq(Items(t)) : OnePerPartition(its)}

LEMMA NoItems == ASSUME NEW t PROVE << >> \in Mappings(t)
BY DEF Mappings, OnePerPartition

LEMMA PutTyped ==
  ASSUME NEW t, NEW its \in Mappings(t), NEW s \in ImageSpecs
  PROVE  PutItem(t, its, s) \in Mappings(t)
<1>1. its \in Seq([part : PartsOf(t), spec : ImageSpecs]) /\ OnePerPartition(its)
  BY DEF Mappings, Items
<1>2. Raw(t)[FindByFileName(t, s.base)].id \in PartsOf(t)
  BY DEF PartsOf
<1> DEFINE P == PartsOf(t)
<1> HIDE DEF P
<1>3. its \in Seq([part : P, spec : ImageSpecs]) /\ Raw(t)[FindByFileName(t, s.base)].id \in P
  BY <1>1, <1>2 DEF P
<1>4. PutItem(t, its, s) \in Seq([part : P, spec : ImageSpecs]) /\ OnePerPartition(PutItem(t, its, s))
  BY <1>1, <1>3, PutKeeps, Zenon
<1>5. QED
  BY <1>4, Zenon DEF Mappings, Items, P

MapsOf(t, specs, n, f) ==
  f = [s \in SUBSET (1 .. n) |-> IF s = {} THEN << >> ELSE PutItem(t, f[s \ {Max(s)}], specs[Max(s)])]
Mapping(t, specs, n, h) ==
  /\ h[0] = << >> /\ h[n] = MapToPit(t, specs)
  /\ \A k \in 1 .. n : h[k] = PutItem(t, h[k - 1], specs[k])

\* map_to_pit goes image by image.
LEMMA MapsOneByOne ==
  ASSUME NEW t, NEW n \in Nat, NEW specs \in [1 .. n -> ImageSpecs]
  PROVE  \E h \in [0 .. n -> Mappings(t)] : Mapping(t, specs, n, h)
<1> DEFINE base == << >>
           step == [ax \in Mappings(t) \X ImageSpecs |-> PutItem(t, ax[1], ax[2])]
<1>1. base \in Mappings(t)
  BY NoItems
<1>2. step \in [Mappings(t) \X ImageSpecs -> Mappings(t)]
  <2>1. ASSUME NEW ax \in Mappings(t) \X ImageSpecs PROVE PutItem(t, ax[1], ax[2]) \in Mappings(t)
    <3>1. ax[1] \in Mappings(t) /\ ax[2] \in ImageSpecs
      OBVIOUS
    <3>2. QED
      BY <3>1, PutTyped
  <2>2. QED
    BY <2>1
<1>3. ASSUME NEW a \in Mappings(t), NEW r \in ImageSpecs PROVE step[<<a, r>>] = PutItem(t, a, r)
  OBVIOUS
<1> HIDE DEF step, base
<1>4. PICK f \in [SUBSET (1 .. n) -> Mappings(t)] : FoldOf(base, step, specs, n, f)
  <2>1. n \in 0 .. n
    OBVIOUS
  <2>2. \A k \in 0 .. n : \E f \in [SUBSET (1 .. k) -> Mappings(t)] : FoldOf(base, step, specs, k, f)
    BY <1>1, <1>2, FoldExists
  <2>3. QED
    BY <2>1, <2>2
<1>5. ASSUME NEW s \in SUBSET (1 .. n), s # {}
      PROVE  step[<<f[s \ {Max(s)}], specs[Max(s)]>>] = PutItem(t, f[s \ {Max(s)}], specs[Max(s)])
  <2>1. Max(s) \in 1 .. n
    <3>1. Max(s) \in s
      BY <1>5, LargestOf
    <3>2. QED
      BY <3>1
  <2>2. s \ {Max(s)} \in SUBSET (1 .. n)
    OBVIOUS
  <2>3. f[s \ {Max(s)}] \in Mappings(t) /\ specs[Max(s)] \in ImageSpecs
    BY <2>1, <2>2, <1>4
  <2>4. QED
    BY <2>3, <1>3, Zenon
<1>6. MapsOf(t, specs, n, f)
  BY <1>4, <1>5, Zenon DEF FoldOf, MapsOf, base
<1> DEFINE iter == CHOOSE g : MapsOf(t, specs, n, g)
<1>7. MapsOf(t, specs, n, iter)
  BY <1>6, Zenon
<1>8. MapToPit(t, specs) = iter[1 .. n]
  BY DEF MapToPit, FoldLeft, MapThenFoldSet, MapsOf
<1> HIDE DEF iter
<1> DEFINE h == [k \in 0 .. n |-> iter[1 .. k]]
<1>9. ASSUME NEW k \in 1 .. n PROVE h[k] = PutItem(t, h[k - 1], specs[k])
  <2>1. 1 .. k \in SUBSET (1 .. n) /\ 1 .. k # {} /\ k \in 0 .. n /\ k - 1 \in 0 .. n
    OBVIOUS
  <2>2. (1 .. k) \ {k} = 1 .. k - 1
    OBVIOUS
  <2>3. Max(1 .. k) = k
    BY LastIndex
  <2>4. iter[1 .. k] = PutItem(t, iter[(1 .. k) \ {Max(1 .. k)}], specs[Max(1 .. k)])
    BY <1>7, <2>1, Zenon DEF MapsOf
  <2>5. QED
    BY <2>1, <2>2, <2>3, <2>4
<1>10. h[0] = base /\ h[n] = iter[1 .. n]
  <2>1. 0 \in 0 .. n /\ n \in 0 .. n /\ 1 .. 0 = {} /\ 1 .. 0 \in SUBSET (1 .. n)
    OBVIOUS
  <2>2. iter[1 .. 0] = base
    BY <1>7, <2>1, Zenon DEF MapsOf, base
  <2>3. QED
    BY <2>1, <2>2
<1>11. h \in [0 .. n -> Mappings(t)]
  <2> DEFINE T == {k \in 0 .. n : h[k] \in Mappings(t)}
  <2>1. 0 \in T
    BY <1>10, <1>1
  <2>2. ASSUME NEW k \in 0 .. n, k \in T, k < n PROVE k + 1 \in T
    <3>1. k + 1 \in 1 .. n /\ (k + 1) - 1 = k /\ k + 1 \in 0 .. n
      BY <2>2
    <3>2. h[k + 1] = PutItem(t, h[(k + 1) - 1], specs[k + 1])
      BY <1>9, <3>1, Zenon
    <3>3. h[k + 1] = PutItem(t, h[k], specs[k + 1]) /\ specs[k + 1] \in ImageSpecs /\ h[k] \in Mappings(t)
      BY <3>1, <3>2, <2>2
    <3>4. h[k + 1] \in Mappings(t)
      BY <3>3, PutTyped
    <3>5. QED
      BY <3>1, <3>4
  <2> HIDE DEF T
  <2>3. \A k \in 0 .. n : k \in T
    BY <2>1, <2>2, Upwards
  <2>4. \A k \in 0 .. n : h[k] \in Mappings(t)
    BY <2>3 DEF T
  <2>5. QED
    BY <2>4
<1>12. Mapping(t, specs, n, h)
  BY <1>8, <1>9, <1>10, Zenon DEF Mapping, base
<1>13. QED
  BY <1>11, <1>12, Zenon

\* One item per partition.
LEMMA Mapped ==
  ASSUME NEW t, NEW specs \in Seq(ImageSpecs)
  PROVE  MapToPit(t, specs) \in Mappings(t)
<1> DEFINE n == Len(specs)
<1>1. n \in Nat /\ specs \in [1 .. n -> ImageSpecs] /\ n \in 0 .. n
  OBVIOUS
<1> HIDE DEF n
<1>2. PICK h \in [0 .. n -> Mappings(t)] : Mapping(t, specs, n, h)
  BY <1>1, MapsOneByOne
<1>3. QED
  BY <1>1, <1>2 DEF Mapping

\* What is in order from each to the next is in order.
LEMMA InOrder ==
  ASSUME NEW c \in Nat, NEW b \in [1 .. c -> Int], \A k \in 1 .. c - 1 : b[k] <= b[k + 1]
  PROVE  \A k, m \in 1 .. c : k <= m => b[k] <= b[m]
<1> DEFINE T == {d \in 0 .. c : \A k \in 1 .. c : k + d <= c => b[k] <= b[k + d]}
<1>1. 0 \in T
  OBVIOUS
<1>2. ASSUME NEW d \in 0 .. c, d \in T, d < c PROVE d + 1 \in T
  <2>1. ASSUME NEW k \in 1 .. c, k + (d + 1) <= c PROVE b[k] <= b[k + (d + 1)]
    <3>1. k + d \in 1 .. c - 1 /\ k + d <= c /\ (k + d) + 1 = k + (d + 1) /\ k + d \in 1 .. c /\ k + (d + 1) \in 1 .. c
      BY <2>1
    <3>2. b[k] <= b[k + d]
      BY <1>2, <3>1
    <3>3. b[k + d] <= b[(k + d) + 1]
      BY <3>1
    <3>4. b[k] \in Int /\ b[k + d] \in Int /\ b[k + (d + 1)] \in Int
      BY <3>1
    <3>5. QED
      BY <3>1, <3>2, <3>3, <3>4
  <2>2. d + 1 \in 0 .. c
    BY <1>2
  <2>3. QED
    BY <2>1, <2>2
<1> HIDE DEF T
<1>3. \A d \in 0 .. c : d \in T
  BY <1>1, <1>2, Upwards
<1>4. ASSUME NEW k \in 1 .. c, NEW m \in 1 .. c, k <= m PROVE b[k] <= b[m]
  <2>1. m - k \in 0 .. c /\ k + (m - k) = m /\ k + (m - k) <= c
    BY <1>4
  <2>2. m - k \in T
    BY <1>3, <2>1
  <2>3. b[k] <= b[k + (m - k)]
    BY <2>1, <2>2 DEF T
  <2>4. QED
    BY <2>1, <2>3
<1>5. QED
  BY <1>4

\* Partitions as long as it is to the next one leave no room and do not overlap.
LEMMA NextToNext ==
  ASSUME NEW c \in Nat, NEW b \in [1 .. c -> Int], \A k \in 1 .. c - 1 : b[k] <= b[k + 1],
         NEW l \in [1 .. c -> Int], \A k \in 1 .. c : IF k < c THEN l[k] = b[k + 1] - b[k] ELSE l[k] >= 0
  PROVE  \A k \in 1 .. c :
           /\ l[k] >= 0
           /\ \A m \in (1 .. c) \ {k} : b[m] >= b[k] + l[k] \/ b[k] >= b[m] + l[m]
           /\ k < c => \E m \in 1 .. c : b[m] = b[k] + l[k]
<1>1. \A k, m \in 1 .. c : k <= m => b[k] <= b[m]
  BY InOrder
<1>2. ASSUME NEW k \in 1 .. c, k < c
      PROVE  /\ k + 1 \in 1 .. c /\ b[k + 1] = b[k] + l[k] /\ l[k] >= 0
             /\ \A m \in 1 .. c : m > k => b[m] >= b[k] + l[k]
  <2>1. k + 1 \in 1 .. c /\ k \in 1 .. c - 1
    BY <1>2
  <2>2. l[k] = b[k + 1] - b[k] /\ b[k] <= b[k + 1]
    BY <1>2, <2>1
  <2>3. b[k] \in Int /\ b[k + 1] \in Int /\ l[k] \in Int
    BY <2>1
  <2>4. ASSUME NEW m \in 1 .. c, m > k PROVE b[m] >= b[k] + l[k]
    <3>1. k + 1 <= m
      BY <2>4
    <3>2. b[k + 1] <= b[m] /\ b[m] \in Int
      BY <1>1, <2>1, <3>1
    <3>3. QED
      BY <2>2, <2>3, <3>2
  <2>5. QED
    BY <2>1, <2>2, <2>3, <2>4
<1>3. ASSUME NEW k \in 1 .. c
      PROVE  /\ l[k] >= 0
             /\ \A m \in (1 .. c) \ {k} : b[m] >= b[k] + l[k] \/ b[k] >= b[m] + l[m]
             /\ k < c => \E m \in 1 .. c : b[m] = b[k] + l[k]
  <2>1. l[k] >= 0
    BY <1>2
  <2>2. ASSUME NEW m \in (1 .. c) \ {k} PROVE b[m] >= b[k] + l[k] \/ b[k] >= b[m] + l[m]
    <3>1. CASE m > k
      BY <3>1, <1>2
    <3>2. CASE m < k
      BY <3>2, <1>2
    <3>3. QED
      BY <3>1, <3>2
  <2>3. k < c => \E m \in 1 .. c : b[m] = b[k] + l[k]
    BY <1>2
  <2>4. QED
    BY <2>1, <2>2, <2>3
<1>4. QED
  BY <1>3

LEMMA RawTyped ==
  ASSUME NEW t, IsTable(t), Readable(t)
  PROVE  /\ Raw(t) \in Seq(PitEntries) /\ DOMAIN Raw(t) = 1 .. Len(Raw(t)) /\ Len(Raw(t)) \in Nat
         /\ \A i \in DOMAIN Raw(t) : Begin(t, i) \in Int /\ Raw(t)[i].len \in Int
<1> DEFINE es == t.entries
           c == t.count
<1>1. es \in Seq(PitEntries) /\ c \in Int /\ c >= 0 /\ Len(es) >= c
  BY DEF IsTable, Readable
<1>2. Raw(t) = SubSeq(es, 1, c)
  BY DEF Raw
<1> HIDE DEF es, c
<1>3. SubSeq(es, 1, c) \in Seq(PitEntries)
  BY <1>1
<1> DEFINE r == Raw(t)
<1>4. r \in Seq(PitEntries)
  BY <1>2, <1>3
<1> HIDE DEF r
<1>5. DOMAIN r = 1 .. Len(r) /\ Len(r) \in Nat
  BY <1>4
<1>6. ASSUME NEW i \in DOMAIN r PROVE r[i].bsize \in Int /\ r[i].off \in Int /\ r[i].len \in Int
  <2>1. r[i] \in PitEntries
    BY <1>4, <1>5
  <2>2. QED
    BY <2>1 DEF PitEntries
<1>7. \A i : Begin(t, i) = r[i].bsize \/ Begin(t, i) = r[i].off
  BY Zenon DEF Begin, r
<1>8. QED
  BY <1>4, <1>5, <1>6, <1>7 DEF r

LEMMA OrdersTyped ==
  ASSUME NEW t, IsTable(t), Readable(t), NEW dev, NEW o \in Orders(t, dev)
  PROVE  /\ Len(o) \in Nat /\ DOMAIN o = 1 .. Len(o)
         /\ \A k \in 1 .. Len(o) : o[k] \in DOMAIN Raw(t)
         /\ \A k \in 1 .. Len(o) - 1 : Begin(t, o[k]) <= Begin(t, o[k + 1])
<1> DEFINE S == OfDevice(t, dev)
           c == Cardinality(S)
<1>1. DOMAIN Raw(t) = 1 .. Len(Raw(t)) /\ Len(Raw(t)) \in Nat
  BY RawTyped
<1>2. S \subseteq DOMAIN Raw(t)
  BY DEF OfDevice
<1>3. IsFiniteSet(DOMAIN Raw(t))
  BY <1>1, FS_Interval
<1>4. IsFiniteSet(S)
  BY <1>2, <1>3, FS_Subset
<1>5. c \in Nat
  BY <1>4, FS_CardinalityType
<1>6. o \in SetToSeqs(S) /\ \A k \in 1 .. Len(o) - 1 : Begin(t, o[k]) <= Begin(t, o[k + 1])
  BY DEF Orders
<1>7. o \in [1 .. c -> S]
  BY <1>6, Zenon DEF SetToSeqs
<1> HIDE DEF S, c
<1>8. Len(o) = c /\ DOMAIN o = 1 .. c /\ \A k \in 1 .. c : o[k] \in S
  BY <1>5, <1>7
<1>9. QED
  BY <1>2, <1>5, <1>6, <1>8

\* The layout of a table that phones have.
LEMMA LaysOut ==
  ASSUME NEW t, IsTable(t)
  PROVE  LaidOut(t)
<1>1. SUFFICES ASSUME Readable(t), NEW dev, NEW o \in Orders(t, dev)
      PROVE  \A k \in DOMAIN o :
        /\ Blocks(t, o, k) >= 0
        /\ \A m \in DOMAIN o \ {k} :
             Begin(t, o[m]) >= Begin(t, o[k]) + Blocks(t, o, k)
               \/ Begin(t, o[k]) >= Begin(t, o[m]) + Blocks(t, o, m)
        /\ k < Len(o) => \E m \in DOMAIN o : Begin(t, o[m]) = Begin(t, o[k]) + Blocks(t, o, k)
  BY DEF LaidOut
<1> DEFINE c == Len(o)
           b == [k \in 1 .. c |-> Begin(t, o[k])]
           l == [k \in 1 .. c |-> Blocks(t, o, k)]
<1>2. /\ c \in Nat /\ DOMAIN o = 1 .. c
      /\ \A k \in 1 .. c : o[k] \in DOMAIN Raw(t)
      /\ \A k \in 1 .. c - 1 : Begin(t, o[k]) <= Begin(t, o[k + 1])
  BY <1>1, OrdersTyped
<1>3. \A i \in DOMAIN Raw(t) : Begin(t, i) \in Int /\ Raw(t)[i].len \in Int
  BY <1>1, RawTyped
<1>4. \A k \in 1 .. c : Begin(t, o[k]) \in Int /\ Raw(t)[o[k]].len \in Int
  BY <1>2, <1>3
<1>5. b \in [1 .. c -> Int]
  BY <1>4
<1>6. ASSUME NEW k \in 1 .. c
      PROVE  Blocks(t, o, k) = IF k < c THEN Begin(t, o[k + 1]) - Begin(t, o[k])
                               ELSE IF Raw(t)[o[k]].len > 0 THEN Raw(t)[o[k]].len ELSE 0
  BY Zenon DEF Blocks
<1> HIDE DEF c
<1>7. ASSUME NEW k \in 1 .. c
      PROVE  /\ Blocks(t, o, k) \in Int
             /\ IF k < c THEN Blocks(t, o, k) = b[k + 1] - b[k] ELSE Blocks(t, o, k) >= 0
  <2>1. CASE k < c
    <3>1. k + 1 \in 1 .. c
      BY <1>2, <2>1
    <3>2. b[k + 1] = Begin(t, o[k + 1]) /\ b[k] = Begin(t, o[k])
      BY <3>1
    <3>3. QED
      BY <3>1, <3>2, <2>1, <1>4, <1>6
  <2>2. CASE ~(k < c)
    BY <2>2, <1>4, <1>6
  <2>3. QED
    BY <2>1, <2>2
<1>8. l \in [1 .. c -> Int] /\ \A k \in 1 .. c : IF k < c THEN l[k] = b[k + 1] - b[k] ELSE l[k] >= 0
  BY <1>7
<1>9. \A k \in 1 .. c - 1 : b[k] <= b[k + 1]
  <2>1. ASSUME NEW k \in 1 .. c - 1 PROVE b[k] <= b[k + 1]
    <3>1. k \in 1 .. c /\ k + 1 \in 1 .. c
      BY <1>2
    <3>2. Begin(t, o[k]) <= Begin(t, o[k + 1])
      BY <1>2
    <3>3. QED
      BY <3>1, <3>2
  <2>2. QED
    BY <2>1
<1>10. /\ \A k \in 1 .. c : b[k] = Begin(t, o[k]) /\ l[k] = Blocks(t, o, k)
  OBVIOUS
<1> HIDE DEF b, l
<1>11. \A k \in 1 .. c :
         /\ l[k] >= 0
         /\ \A m \in (1 .. c) \ {k} : b[m] >= b[k] + l[k] \/ b[k] >= b[m] + l[m]
         /\ k < c => \E m \in 1 .. c : b[m] = b[k] + l[k]
  BY <1>2, <1>5, <1>8, <1>9, NextToNext
<1>12. ASSUME NEW k \in 1 .. c
       PROVE  /\ Blocks(t, o, k) >= 0
              /\ \A m \in (1 .. c) \ {k} :
                   Begin(t, o[m]) >= Begin(t, o[k]) + Blocks(t, o, k)
                     \/ Begin(t, o[k]) >= Begin(t, o[m]) + Blocks(t, o, m)
              /\ k < c => \E m \in 1 .. c : Begin(t, o[m]) = Begin(t, o[k]) + Blocks(t, o, k)
  BY <1>10, <1>11
<1>13. QED
  BY <1>2, <1>12 DEF c

-----------------------------------------------------------------------------
(***************************************************************************)
(* The flash as its callers see it (FlashRun).                             *)
(***************************************************************************)
\* What the programs read.
FilesTyped == args \in [Procs -> Invocations \cup {NoArgs}] /\ job \in Seq(InputFiles)

LEMMA FilesStart == Init => FilesTyped
<1> SUFFICES ASSUME Init PROVE FilesTyped
  OBVIOUS
<1>1. args \in [Procs -> Invocations \cup {NoArgs}]
  BY DEF Init, CliInit
<1>2. job \in AppJobs \cup {<< >>}
  BY DEF Init, BridgeInit
<1>3. job \in Seq(InputFiles)
  <2>1. CASE job \in AppJobs
    BY <2>1, JobsAssumption
  <2>2. CASE job = << >>
    BY <2>2
  <2>3. QED
    BY <1>2, <2>1, <2>2
<1>4. QED
  BY <1>1, <1>3 DEF FilesTyped

LEMMA FilesOf ==
  ASSUME FilesTyped
  PROVE  job \in Seq(InputFiles) /\ \A p \in Procs : args[p].files \in Seq(InputFiles)
<1>1. NoArgs.files = << >> /\ << >> \in Seq(InputFiles)
  BY DEF NoArgs
<1>2. \A a \in Invocations \cup {NoArgs} : a.files \in Seq(InputFiles)
  BY <1>1, InvocationsAssumption
<1>3. \A p \in Procs : args[p] \in Invocations \cup {NoArgs}
  BY DEF FilesTyped
<1>4. job \in Seq(InputFiles)
  BY DEF FilesTyped
<1>5. QED
  BY <1>2, <1>3, <1>4

LEMMA ArgsSteps ==
  ASSUME CliNext
  PROVE  args' = args \/ \E p \in Procs, a \in Invocations \cup {NoArgs} : args' = [args EXCEPT ![p] = a]
<1>1. PICK p \in Procs : MainStep(p) \/ Watch(p) \/ Interrupt(p)
  BY DEF CliNext
<1>2. ASSUME Killed(p) PROVE \E a \in Invocations \cup {NoArgs} : args' = [args EXCEPT ![p] = a]
  BY <1>2, Zenon DEF Killed
<1>3. CASE ParseArgs(p)
  BY <1>3 DEF ParseArgs
<1>4. CASE Unlock(p)
  BY <1>4, Zenon DEF Unlock
<1>5. CASE Restore(p)
  BY <1>2, <1>5, Zenon DEF Restore
<1>6. CASE Interrupt(p)
  BY <1>2, <1>6, Zenon DEF Interrupt
<1>7. CASE TryAcquire(p) \/ Listen(p) \/ Accept(p) \/ SelectDevices(p) \/ OpenDevice(p)
  BY <1>7, Zenon DEF TryAcquire, Listen, Accept, SelectDevices, OpenDevice
<1>8. CASE DetachDriver(p) \/ ClaimDevice(p) \/ Verify(p) \/ ExpandInputs(p)
  BY <1>8, Zenon DEF DetachDriver, ClaimDevice, Verify, ExpandInputs
<1>9. CASE ShieldUp(p) \/ Flashing(p) \/ EarlyFailure(p) \/ FlashReturns(p)
  BY <1>9, Zenon DEF ShieldUp, Flashing, EarlyFailure, FlashReturns, cliVars
<1>10. CASE ReleaseDevice(p) \/ ShieldDown(p) \/ Watch(p)
  BY <1>10, Zenon DEF ReleaseDevice, ShieldDown, Watch
<1>11. QED
  BY <1>1, <1>3, <1>4, <1>5, <1>6, <1>7, <1>8, <1>9, <1>10 DEF MainStep

LEMMA FilesKept == FilesTyped /\ [Next]_vars => FilesTyped'
<1> SUFFICES ASSUME FilesTyped, [Next]_vars PROVE FilesTyped'
  OBVIOUS
<1>1. [CliNext]_cliVars /\ [BridgeNext]_bridgeVars
  BY ProgramSteps
<1>2. args' \in [Procs -> Invocations \cup {NoArgs}]
  <2>1. CASE CliNext
    BY <2>1, ArgsSteps DEF FilesTyped
  <2>2. CASE UNCHANGED cliVars
    BY <2>2 DEF FilesTyped, cliVars
  <2>3. QED
    BY <1>1, <2>1, <2>2
<1>3. job' \in Seq(InputFiles)
  <2>1. job \in Seq(InputFiles)
    BY DEF FilesTyped
  <2>2. CASE Extract
    <3>1. CASE job' = job
      BY <2>1, <3>1
    <3>2. ASSUME NEW valid \in SUBSET DOMAIN job, job' = Picked(job, valid) PROVE job' \in Seq(InputFiles)
      BY <2>1, <3>2, PickedSeq DEF PickedFrom
    <3>3. QED
      BY <2>2, <3>1, <3>2 DEF Extract, GiveUp
  <2>3. CASE BridgeNext /\ ~Extract
    <3>1. job' = job
      BY <2>3 DEF BridgeNext, CreateSession, Prepare, RunFlash, Report, DestroySession, GiveUp, bridgeVars
    <3>2. QED
      BY <2>1, <3>1
  <2>4. QED
    BY <1>1, <2>1, <2>2, <2>3 DEF bridgeVars
<1>4. QED
  BY <1>2, <1>3 DEF FilesTyped

\* What may happen to a flash.
FlashMoves ==
  \/ UNCHANGED flashVars
  \/ FlashReset
  \/ FlashStep
  \/ \E specs \in Seq(ImageSpecs) : FlashBegin(specs)

LEMMA CliFlashMoves ==
  ASSUME FilesTyped, CliNext
  PROVE  FlashMoves
<1>1. PICK p \in Procs : MainStep(p) \/ Watch(p) \/ Interrupt(p)
  BY DEF CliNext
<1>2. CASE TryAcquire(p) \/ ParseArgs(p) \/ Listen(p) \/ Accept(p) \/ SelectDevices(p) \/ OpenDevice(p)
  BY <1>2, Zenon DEF TryAcquire, ParseArgs, Listen, Accept, SelectDevices, OpenDevice, FlashMoves
<1>3. CASE DetachDriver(p) \/ ClaimDevice(p) \/ Verify(p) \/ ShieldUp(p)
  BY <1>3, Zenon DEF DetachDriver, ClaimDevice, Verify, ShieldUp, FlashMoves
<1>4. CASE ReleaseDevice(p) \/ ShieldDown(p) \/ Watch(p) \/ Restore(p) \/ Unlock(p)
  BY <1>4, Zenon DEF ReleaseDevice, ShieldDown, Watch, Restore, Unlock, FlashMoves
<1>5. CASE Interrupt(p)
  BY <1>5, Zenon DEF Interrupt, FlashMoves
<1>6. CASE Flashing(p) \/ EarlyFailure(p) \/ FlashReturns(p)
  BY <1>6, Zenon DEF Flashing, EarlyFailure, FlashReturns, FlashStep, FlashMoves
<1>7. CASE ExpandInputs(p)
  <2>1. Expand(args[p].files) \in ImageChoices
    BY FilesOf, ExpandTyped
  <2> DEFINE given == Expand(args[p].files)
  <2>2. \E pit \in BOOLEAN : Flash(p, given, NoPit(given.specs), pit)
    <3>1. \A pit : pit \in (IF args[p].pit = "given" THEN {TRUE} ELSE {FALSE, PitAmong(given.specs)}) => pit \in BOOLEAN
      BY DEF PitAmong
    <3>2. QED
      BY <1>7, <3>1, Zenon DEF ExpandInputs
  <2> HIDE DEF given
  <2>3. given \in ImageChoices
    BY <2>1 DEF given
  <2>4. given.specs \in Seq(ImageSpecs)
    BY <2>3 DEF ImageChoices
  <2>5. NoPit(given.specs) \in Seq(ImageSpecs)
    BY <2>4, NoPitTyped
  <2>6. UNCHANGED flashVars \/ FlashBegin(NoPit(given.specs))
    BY <2>2, Zenon DEF Flash
  <2>7. QED
    BY <2>5, <2>6, Zenon DEF FlashMoves
<1>8. QED
  BY <1>1, <1>2, <1>3, <1>4, <1>5, <1>6, <1>7 DEF MainStep

LEMMA BridgeFlashMoves ==
  ASSUME FilesTyped, BridgeNext
  PROVE  FlashMoves
<1>1. CASE CreateSession \/ Extract \/ Report \/ DestroySession \/ RunFlash
  BY <1>1, Zenon DEF CreateSession, Extract, Report, DestroySession, RunFlash, FlashMoves
<1>2. CASE Prepare
  <2>1. AppExpand(job) \in ImageChoices
    BY FilesOf, AppExpandTyped
  <2>2. UNCHANGED flashVars \/ FlashBegin(AppExpand(job).specs)
    BY <1>2, Zenon DEF Prepare
  <2> DEFINE given == AppExpand(job)
  <2> HIDE DEF given
  <2>3. given \in ImageChoices /\ (UNCHANGED flashVars \/ FlashBegin(given.specs))
    BY <2>1, <2>2 DEF given
  <2>4. given.specs \in Seq(ImageSpecs)
    BY <2>3 DEF ImageChoices
  <2>5. QED
    BY <2>3, <2>4, Zenon DEF FlashMoves
<1>3. QED
  BY <1>1, <1>2 DEF BridgeNext

LEMMA FlashSteps == FilesTyped /\ [Next]_vars => FlashMoves
<1> SUFFICES ASSUME FilesTyped, [Next]_vars PROVE FlashMoves
  OBVIOUS
<1>1. CASE CliNext
  BY <1>1, CliFlashMoves
<1>2. CASE BridgeNext
  BY <1>2, BridgeFlashMoves
<1>3. CASE UNCHANGED flashVars
  BY <1>3, Zenon DEF FlashMoves
<1>4. QED
  BY <1>1, <1>2, <1>3 DEF Next, Ended, vars

-----------------------------------------------------------------------------
\* The table of a phone, and images that were mapped to its partitions.
MappedInv ==
  /\ pit_table \in Tables \cup {NoTable}
  /\ items = << >> \/ \E t \in Tables : items \in Mappings(t)

LEMMA MappedSteps == MappedInv /\ FlashMoves => MappedInv'
<1> SUFFICES ASSUME MappedInv, FlashMoves PROVE MappedInv'
  OBVIOUS
<1>1. CASE UNCHANGED <<pit_table, items>>
  BY <1>1 DEF MappedInv
<1>2. CASE FlashReset
  BY <1>2 DEF MappedInv, FlashReset
<1>3. CASE FlashStep
  <2>1. UNCHANGED <<pit_table, items>>
    BY <1>3 DEF FlashStep, NextImage, NextWindow, LastDeviceFails, FlashEnds, SourceBreaks
  <2>2. QED
    BY <1>1, <2>1
<1>4. ASSUME NEW specs \in Seq(ImageSpecs), FlashBegin(specs) PROVE MappedInv'
  <2>1. pit_table' \in Tables /\ items' = IF Readable(pit_table') THEN MapToPit(pit_table', specs) ELSE << >>
    BY <1>4, Zenon DEF FlashBegin
  <2>2. MapToPit(pit_table', specs) \in Mappings(pit_table')
    BY Mapped
  <2>3. items' = << >> \/ items' \in Mappings(pit_table')
    BY <2>1, <2>2
  <2>4. QED
    BY <2>1, <2>3, Zenon DEF MappedInv
<1>5. QED
  BY <1>1, <1>2, <1>3, <1>4 DEF FlashMoves, flashVars, flashing

LEMMA MappedHolds == Spec => [](FilesTyped /\ MappedInv)
<1>1. Init => FilesTyped
  BY FilesStart
<1>2. Init => MappedInv
  BY DEF Init, MappedInv, FlashIdle
<1>3. FilesTyped /\ MappedInv /\ [Next]_vars => FilesTyped' /\ MappedInv'
  BY FilesKept, FlashSteps, MappedSteps
<1>4. QED
  BY <1>1, <1>2, <1>3, PTL DEF Spec

\* The table that was read from the phone is laid out without overlap or gap (pit.cpp),
\* and no partition is written twice (map_to_pit), whatever the tables that phones have
\* and the files that are flashed.
THEOREM TablesLaid == Spec => []PitLaid
<1>1. MappedInv => PitLaid
  <2> SUFFICES ASSUME MappedInv PROVE PitLaid
    OBVIOUS
  <2>1. LaidOut(pit_table)
    <3>1. CASE pit_table \in Tables
      BY <3>1, TablesAssumption, LaysOut
    <3>2. CASE pit_table = NoTable
      <4>1. pit_table.magic = FALSE
        BY <3>2 DEF NoTable, Table
      <4>2. ~Readable(pit_table)
        BY <4>1 DEF Readable
      <4>3. QED
        BY <4>2 DEF LaidOut
    <3>3. QED
      BY <3>1, <3>2 DEF MappedInv
  <2>2. OnePerPartition(items)
    <3>1. CASE items = << >>
      BY <3>1 DEF OnePerPartition
    <3>2. CASE \E t \in Tables : items \in Mappings(t)
      BY <3>2 DEF Mappings
    <3>3. QED
      BY <3>1, <3>2 DEF MappedInv
  <2>3. QED
    BY <2>1, <2>2, Zenon DEF PitLaid, OnePerPartition
<1>2. QED
  BY <1>1, MappedHolds, PTL

-----------------------------------------------------------------------------
(***************************************************************************)
(* What a flash has written (FlashRun).                                    *)
(***************************************************************************)

Count(sum, b) == sum + b.out

LEMMA CountTyped ==
  ASSUME NEW a \in Nat, NEW b \in FrameBlocks
  PROVE  Count(a, b) \in Nat
BY DEF Count, FrameBlocks

CountsOf(blocks, n, f) ==
  f = [s \in SUBSET (1 .. n) |->
         IF s = {} THEN 0 ELSE Count(f[s \ {Max(s)}], blocks[Max(s)])]
Counting(blocks, n, h) ==
  /\ h[0] = 0 /\ h[n] = ContentIn(blocks)
  /\ \A k \in 1 .. n : h[k] = Count(h[k - 1], blocks[k])

\* What blocks carry is counted block by block.
LEMMA CountsOneByOne ==
  ASSUME NEW n \in Nat, NEW blocks \in [1 .. n -> FrameBlocks]
  PROVE  \E h \in [0 .. n -> Nat] : Counting(blocks, n, h)
<1> DEFINE base == 0
           step == [ax \in Nat \X FrameBlocks |-> Count(ax[1], ax[2])]
<1>1. base \in Nat
  OBVIOUS
<1>2. step \in [Nat \X FrameBlocks -> Nat]
  <2>1. ASSUME NEW ax \in Nat \X FrameBlocks PROVE Count(ax[1], ax[2]) \in Nat
    <3>1. ax[1] \in Nat /\ ax[2] \in FrameBlocks
      OBVIOUS
    <3>2. QED
      BY <3>1, CountTyped
  <2>2. QED
    BY <2>1
<1>3. ASSUME NEW a \in Nat, NEW r \in FrameBlocks PROVE step[<<a, r>>] = Count(a, r)
  OBVIOUS
<1> HIDE DEF step, base
<1>4. PICK f \in [SUBSET (1 .. n) -> Nat] : FoldOf(base, step, blocks, n, f)
  <2>1. n \in 0 .. n
    OBVIOUS
  <2>2. \A k \in 0 .. n : \E f \in [SUBSET (1 .. k) -> Nat] : FoldOf(base, step, blocks, k, f)
    BY <1>1, <1>2, FoldExists
  <2>3. QED
    BY <2>1, <2>2
<1>5. ASSUME NEW s \in SUBSET (1 .. n), s # {}
      PROVE  step[<<f[s \ {Max(s)}], blocks[Max(s)]>>] = Count(f[s \ {Max(s)}], blocks[Max(s)])
  <2>1. Max(s) \in 1 .. n
    <3>1. Max(s) \in s
      BY <1>5, LargestOf
    <3>2. QED
      BY <3>1
  <2>2. s \ {Max(s)} \in SUBSET (1 .. n)
    OBVIOUS
  <2>3. f[s \ {Max(s)}] \in Nat /\ blocks[Max(s)] \in FrameBlocks
    BY <2>1, <2>2, <1>4
  <2>4. QED
    BY <2>3, <1>3, Zenon
<1>6. CountsOf(blocks, n, f)
  BY <1>4, <1>5, Zenon DEF FoldOf, CountsOf, base
<1> DEFINE iter == CHOOSE g : CountsOf(blocks, n, g)
<1>7. CountsOf(blocks, n, iter)
  BY <1>6, Zenon
<1>8. ContentIn(blocks) = iter[1 .. n]
  BY DEF ContentIn, FoldLeft, MapThenFoldSet, CountsOf, Count
<1> HIDE DEF iter
<1> DEFINE h == [k \in 0 .. n |-> iter[1 .. k]]
<1>9. ASSUME NEW k \in 1 .. n PROVE h[k] = Count(h[k - 1], blocks[k])
  <2>1. 1 .. k \in SUBSET (1 .. n) /\ 1 .. k # {} /\ k \in 0 .. n /\ k - 1 \in 0 .. n
    OBVIOUS
  <2>2. (1 .. k) \ {k} = 1 .. k - 1
    OBVIOUS
  <2>3. Max(1 .. k) = k
    BY LastIndex
  <2>4. iter[1 .. k] = Count(iter[(1 .. k) \ {Max(1 .. k)}], blocks[Max(1 .. k)])
    BY <1>7, <2>1, Zenon DEF CountsOf
  <2>5. QED
    BY <2>1, <2>2, <2>3, <2>4
<1>10. h[0] = base /\ h[n] = iter[1 .. n]
  <2>1. 0 \in 0 .. n /\ n \in 0 .. n /\ 1 .. 0 = {} /\ 1 .. 0 \in SUBSET (1 .. n)
    OBVIOUS
  <2>2. iter[1 .. 0] = base
    BY <1>7, <2>1, Zenon DEF CountsOf, base
  <2>3. QED
    BY <2>1, <2>2
<1>11. h \in [0 .. n -> Nat]
  <2> DEFINE T == {k \in 0 .. n : h[k] \in Nat}
  <2>1. 0 \in T
    BY <1>10, <1>1
  <2>2. ASSUME NEW k \in 0 .. n, k \in T, k < n PROVE k + 1 \in T
    <3>1. k + 1 \in 1 .. n /\ (k + 1) - 1 = k /\ k + 1 \in 0 .. n
      BY <2>2
    <3>2. h[k + 1] = Count(h[(k + 1) - 1], blocks[k + 1])
      BY <1>9, <3>1, Zenon
    <3>3. h[k + 1] = Count(h[k], blocks[k + 1]) /\ blocks[k + 1] \in FrameBlocks /\ h[k] \in Nat
      BY <3>1, <3>2, <2>2
    <3>4. Count(h[k], blocks[k + 1]) \in Nat
      <4> HIDE DEF h
      <4> QED
        BY <3>3, CountTyped
    <3>5. QED
      BY <3>1, <3>3, <3>4
  <2> HIDE DEF T
  <2>3. \A k \in 0 .. n : k \in T
    BY <2>1, <2>2, Upwards
  <2>4. \A k \in 0 .. n : h[k] \in Nat
    BY <2>3 DEF T
  <2>5. QED
    BY <2>4
<1>12. Counting(blocks, n, h)
  BY <1>8, <1>9, <1>10, Zenon DEF Counting, base
<1>13. QED
  BY <1>11, <1>12, Zenon


LEMMA ContentNat ==
  ASSUME NEW blocks \in Seq(FrameBlocks)
  PROVE  ContentIn(blocks) \in Nat
<1> DEFINE n == Len(blocks)
<1>1. n \in Nat /\ blocks \in [1 .. n -> FrameBlocks] /\ n \in 0 .. n
  OBVIOUS
<1> HIDE DEF n
<1>2. PICK h \in [0 .. n -> Nat] : Counting(blocks, n, h)
  BY <1>1, CountsOneByOne
<1>3. QED
  BY <1>1, <1>2 DEF Counting

\* The content of a frame up to the end of its k-th block.
UpTo(f, k) == Least(f.content, MiB * k)

LEMMA FrameParts ==
  ASSUME NEW f \in Frames
  PROVE  f.content \in Nat /\ f.blocks \in Seq(FrameBlocks) /\ Len(f.blocks) \in Nat
         /\ DOMAIN f.blocks = 1 .. Len(f.blocks)
         /\ \A i \in 1 .. Len(f.blocks) : f.blocks[i] \in FrameBlocks
<1>1. f.content \in Nat /\ f.blocks \in Seq(FrameBlocks)
  BY DEF Frames
<1> DEFINE b == f.blocks
<1> HIDE DEF b
<1>2. b \in Seq(FrameBlocks)
  BY <1>1 DEF b
<1>3. Len(b) \in Nat /\ DOMAIN b = 1 .. Len(b) /\ \A i \in 1 .. Len(b) : b[i] \in FrameBlocks
  BY <1>2
<1>4. QED
  BY <1>1, <1>3 DEF b

\* The blocks of a frame, and the content that ends with each.
LEMMA BlocksOfFrame ==
  ASSUME NEW f \in Frames
  PROVE  /\ TotalBlocks(f) \in Nat /\ f.content <= MiB * TotalBlocks(f)
         /\ \A k \in Nat : k < TotalBlocks(f) => MiB * k < f.content
         /\ UpTo(f, TotalBlocks(f)) = f.content
<1> DEFINE c == f.content
           T == TotalBlocks(f)
<1>1. c \in Nat /\ MiB \in Nat \ {0}
  BY FrameParts, ImageAssumption
<1>2. T = (c + (MiB - 1)) \div MiB
  <2>1. c + MiB - 1 = c + (MiB - 1)
    BY <1>1
  <2>2. QED
    BY <2>1 DEF TotalBlocks
<1> HIDE DEF c, T
<1>3. T \in Nat /\ c <= MiB * T /\ MiB * T < c + MiB
  BY <1>1, <1>2, CeilBounds
<1>4. ASSUME NEW k \in Nat, k < T PROVE MiB * k < c
  <2>1. MiB * k + MiB <= MiB * T
    BY <1>1, <1>3, <1>4, MulStep
  <2>2. MiB * k \in Nat /\ MiB * T \in Nat
    BY <1>1, <1>3
  <2>3. QED
    BY <1>1, <1>3, <2>1, <2>2
<1>5. Least(c, MiB * T) = c
  <2>1. MiB * T \in Nat
    BY <1>1, <1>3
  <2>2. QED
    BY <1>1, <1>3, <2>1 DEF Least
<1>6. QED
  BY <1>3, <1>4, <1>5 DEF c, T, UpTo

\* A frame with the blocks its header gives room for, none of them small where there are
\* several, can be decoded: its blocks are those the reader counts.
LEMMA RegularDecodes ==
  ASSUME NEW f \in Frames, HeaderOk(f), f.content > 0, WellFormed(f), ~InSmallBlocks(f)
  PROVE  CanDecode(f, 0, f.content)
<1> DEFINE c == f.content
           m == f.bmax
           b == f.blocks
           T == TotalBlocks(f)
<1>1. /\ c \in Nat \ {0} /\ MiB \in Nat \ {0} /\ T \in Nat /\ MiB * T < c + MiB /\ c <= MiB * T
      /\ m \in 1 .. MiB /\ (m = MiB \/ (m < MiB /\ c <= m))
  <2>1. c \in Nat /\ MiB \in Nat \ {0}
    BY FrameParts, ImageAssumption
  <2>2. c + MiB - 1 = c + (MiB - 1)
    BY <2>1
  <2>3. T \in Nat /\ c <= MiB * T /\ MiB * T < c + MiB
    BY <2>1, <2>2, CeilBounds DEF TotalBlocks
  <2>4. m \in 1 .. MiB
    BY DEF HeaderOk
  <2>5. m = MiB \/ (m < MiB /\ c <= m)
    BY <2>1, <2>4 DEF InSmallBlocks
  <2>6. QED
    BY <2>1, <2>3, <2>4, <2>5
<1>2. /\ Len(b) = (c + m - 1) \div m /\ Len(b) \in Nat /\ DOMAIN b = 1 .. Len(b)
      /\ \A i \in 1 .. Len(b) : /\ b[i] \in FrameBlocks /\ ~EndMark(b[i])
                               /\ b[i].out = Least(m, c - m * (i - 1))
  BY FrameParts, Zenon DEF WellFormed
<1>3. \A x \in FrameBlocks : x.raw => x.out = x.pay
  BY DEF FrameBlocks
<1>4. ASSUME NEW i \in 1 .. Len(b), b[i].out = Expected(f, i) PROVE DecodesBlock(f, i)
  <2>1. i \in DOMAIN b /\ ~EndMark(b[i]) /\ (b[i].raw => b[i].pay = Expected(f, i))
    BY <1>2, <1>3, <1>4
  <2>2. QED
    BY <1>4, <2>1, Zenon DEF DecodesBlock
<1>5. \A i : Expected(f, i) = IF c - MiB * (i - 1) < MiB THEN c - MiB * (i - 1) ELSE MiB
  BY DEF Expected
<1>6. T = (c + MiB - 1) \div MiB
  BY DEF TotalBlocks
<1>7. SUFFICES ASSUME NEW i \in 1 .. T PROVE i \in 1 .. Len(b) /\ b[i].out = Expected(f, i)
  BY <1>4 DEF CanDecode
<1> HIDE DEF c, m, b, T
<1>8. CASE m = MiB
  <2>1. i \in 1 .. Len(b)
    BY <1>2, <1>6, <1>8
  <2>2. b[i].out = Least(MiB, c - MiB * (i - 1))
    BY <1>2, <1>8, <2>1
  <2> DEFINE rest == c - MiB * (i - 1)
  <2>3. rest \in Int
    BY <1>1
  <2> HIDE DEF rest
  <2>4. Least(MiB, rest) = IF rest < MiB THEN rest ELSE MiB
    BY <1>1, <2>3 DEF Least
  <2>5. QED
    BY <1>5, <2>1, <2>2, <2>4 DEF rest
<1>9. CASE m < MiB /\ c <= m
  <2>1. T = 1
    <3>1. ~(1 < T)
      <4>1. 1 < T => MiB * 1 + MiB <= MiB * T
        BY <1>1, MulStep
      <4>2. MiB * T \in Nat
        BY <1>1
      <4>3. QED
        BY <1>1, <1>9, <4>1, <4>2
    <3>2. T # 0
      BY <1>1
    <3>3. QED
      BY <1>1, <3>1, <3>2
  <2>2. i = 1
    BY <2>1
  <2>3. Len(b) = 1
    <3> DEFINE n == Len(b)
    <3>1. c + m - 1 = c + (m - 1) /\ m \in Nat \ {0}
      BY <1>1
    <3>2. n \in Nat /\ c <= m * n /\ m * n < c + m
      BY <1>1, <1>2, <3>1, CeilBounds
    <3> HIDE DEF n
    <3>3. 1 < n => m * 1 + m <= m * n
      BY <3>1, <3>2, MulStep
    <3>4. m * n \in Nat
      BY <3>1, <3>2
    <3>5. ~(1 < n)
      BY <1>1, <1>9, <3>1, <3>2, <3>3, <3>4
    <3>6. n # 0
      BY <1>1, <3>1, <3>2
    <3>7. n = 1
      BY <3>2, <3>5, <3>6
    <3>8. QED
      BY <3>7 DEF n
  <2>4. m * (1 - 1) = 0 /\ MiB * (1 - 1) = 0
    BY <1>1
  <2>5. b[1].out = Least(m, c - 0)
    <3>1. 1 \in 1 .. Len(b)
      BY <2>3
    <3>2. b[1].out = Least(m, c - m * (1 - 1))
      BY <1>2, <3>1
    <3>3. QED
      BY <2>4, <3>2
  <2>6. b[1].out = c
    BY <1>1, <1>9, <2>5 DEF Least
  <2>7. Expected(f, 1) = c
    BY <1>1, <1>5, <1>9, <2>4
  <2>8. QED
    BY <2>2, <2>3, <2>6, <2>7
<1>10. QED
  BY <1>1, <1>8, <1>9

\* What a block of a sound frame carries.
LEMMA BlockCarries ==
  ASSUME NEW f \in Frames, CanDecode(f, 0, f.content), NEW i \in Nat \ {0}, i <= TotalBlocks(f)
  PROVE  i \in DOMAIN f.blocks /\ UpTo(f, i - 1) = MiB * (i - 1) /\ UpTo(f, i) = UpTo(f, i - 1) + f.blocks[i].out
<1> DEFINE c == f.content
           T == TotalBlocks(f)
<1>1. c \in Nat /\ MiB \in Nat \ {0} /\ T \in Nat
  BY FrameParts, ImageAssumption, BlocksOfFrame
<1>2. i \in Nat /\ i - 1 \in Nat /\ i - 1 < T /\ i \in 1 .. T
  BY <1>1
<1>3. MiB * (i - 1) < c
  BY <1>2, BlocksOfFrame
<1>4. MiB * i = MiB * (i - 1) + MiB /\ MiB * (i - 1) \in Nat /\ MiB * i \in Nat
  BY <1>1, <1>2
<1>5. MiB * i > 0
  BY <1>1, <1>4
<1>6. DecodesBlock(f, i)
  BY <1>2, <1>3, <1>5 DEF CanDecode
<1>7. i \in DOMAIN f.blocks /\ (IF f.blocks[i].raw THEN f.blocks[i].pay = Expected(f, i) ELSE f.blocks[i].out = Expected(f, i))
  BY <1>6 DEF DecodesBlock
<1>8. f.blocks[i] \in FrameBlocks
  BY <1>7, FrameParts
<1> DEFINE b == f.blocks[i]
<1> HIDE DEF b
<1>9. b \in FrameBlocks /\ (IF b.raw THEN b.pay = Expected(f, i) ELSE b.out = Expected(f, i))
  BY <1>7, <1>8 DEF b
<1>10. b.out = Expected(f, i)
  BY <1>9 DEF FrameBlocks
<1>11. Expected(f, i) = IF c - MiB * (i - 1) < MiB THEN c - MiB * (i - 1) ELSE MiB
  BY DEF Expected
<1> HIDE DEF c, T
<1>12. Least(c, MiB * (i - 1)) = MiB * (i - 1)
  BY <1>1, <1>3, <1>4 DEF Least
<1>13. Least(c, MiB * i) = MiB * (i - 1) + Expected(f, i)
  BY <1>1, <1>3, <1>4, <1>11 DEF Least
<1>14. UpTo(f, i - 1) = MiB * (i - 1) /\ UpTo(f, i) = UpTo(f, i - 1) + b.out
  BY <1>10, <1>12, <1>13 DEF UpTo, c
<1>15. QED
  BY <1>7, <1>14 DEF b

\* Some blocks of a sound frame carry the content between their ends.
LEMMA BlocksCarry ==
  ASSUME NEW f \in Frames, CanDecode(f, 0, f.content), NEW from \in Nat, NEW m \in Nat, from + m <= TotalBlocks(f)
  PROVE  UpTo(f, from + m) = UpTo(f, from) + ContentIn(SubSeq(f.blocks, from + 1, from + m))
<1> DEFINE q == SubSeq(f.blocks, from + 1, from + m)
           b == f.blocks
<1>1. TotalBlocks(f) \in Nat /\ b \in Seq(FrameBlocks) /\ DOMAIN b = 1 .. Len(b) /\ Len(b) \in Nat
  BY BlocksOfFrame, FrameParts
<1>2. ASSUME NEW k \in 1 .. m PROVE from + k \in Nat \ {0} /\ from + k <= TotalBlocks(f) /\ from + k \in 1 .. Len(b)
  <2>1. from + k \in Nat \ {0} /\ from + k <= TotalBlocks(f)
    BY <1>1
  <2>2. from + k \in DOMAIN b
    BY <2>1, BlockCarries
  <2>3. QED
    BY <1>1, <2>1, <2>2
<1>3. q \in [1 .. m -> FrameBlocks] /\ \A k \in 1 .. m : q[k] = b[from + k]
  <2> HIDE DEF b
  <2>1. q = SubSeq(b, from + 1, from + m)
    BY DEF b
  <2> HIDE DEF q
  <2>2. TotalBlocks(f) <= Len(b)
    <3>1. CASE TotalBlocks(f) = 0
      BY <1>1, <3>1
    <3>2. CASE TotalBlocks(f) # 0
      <4>1. TotalBlocks(f) \in DOMAIN b
        BY <1>1, <3>2, BlockCarries DEF b
      <4>2. QED
        BY <1>1, <4>1
    <3>3. QED
      BY <3>1, <3>2
  <2>3. from + 1 \in 1 .. Len(b) + 1 /\ from + m \in (from + 1) - 1 .. Len(b)
    BY <1>1, <2>2
  <2>4. /\ q \in Seq(FrameBlocks)
        /\ Len(q) = IF from + 1 <= from + m THEN (from + m) - (from + 1) + 1 ELSE 0
        /\ \A i \in 1 .. (from + m) - (from + 1) + 1 : q[i] = b[(from + 1) + i - 1]
    BY <1>1, <2>1, <2>3, SubSeqProperties
  <2>5. Len(q) = m /\ (from + m) - (from + 1) + 1 = m
    BY <2>4
  <2>6. ASSUME NEW k \in 1 .. m PROVE q[k] = b[from + k]
    <3>1. (from + 1) + k - 1 = from + k
      OBVIOUS
    <3>2. QED
      BY <2>4, <2>5, <3>1
  <2>7. QED
    BY <2>4, <2>5, <2>6
<1> HIDE DEF q
<1>4. PICK h \in [0 .. m -> Nat] : Counting(q, m, h)
  BY <1>3, CountsOneByOne
<1> DEFINE P == {k \in 0 .. m : UpTo(f, from + k) = UpTo(f, from) + h[k]}
<1>5. 0 \in P
  <2>1. h[0] = 0 /\ from + 0 = from
    BY <1>4 DEF Counting
  <2>2. UpTo(f, from) \in Int
    <3>1. f.content \in Nat /\ MiB \in Nat
      BY FrameParts, ImageAssumption
    <3>2. MiB * from \in Nat
      BY <3>1
    <3>3. QED
      BY <3>1, <3>2 DEF UpTo, Least
  <2>3. QED
    BY <2>1, <2>2
<1>6. ASSUME NEW k \in 0 .. m, k \in P, k < m PROVE k + 1 \in P
  <2>1. k + 1 \in 1 .. m /\ (k + 1) - 1 = k /\ (from + (k + 1)) - 1 = from + k /\ k + 1 \in 0 .. m
    BY <1>6
  <2>2. h[k + 1] = Count(h[(k + 1) - 1], q[k + 1])
    BY <1>4, <2>1, Zenon DEF Counting
  <2>3. h[k + 1] = h[k] + q[k + 1].out
    BY <2>1, <2>2, Zenon DEF Count
  <2>4. UpTo(f, from + (k + 1)) = UpTo(f, (from + (k + 1)) - 1) + b[from + (k + 1)].out
    BY <1>2, <2>1, BlockCarries
  <2>5. UpTo(f, from + (k + 1)) = UpTo(f, from + k) + q[k + 1].out
    BY <1>3, <2>1, <2>4, Zenon
  <2>6. UpTo(f, from + k) = UpTo(f, from) + h[k] /\ h[k] \in Nat /\ q[k + 1].out \in Nat /\ UpTo(f, from) \in Int
    <3>1. q[k + 1] \in FrameBlocks
      BY <1>3, <2>1
    <3>2. q[k + 1].out \in Nat
      BY <3>1 DEF FrameBlocks
    <3>3. f.content \in Nat /\ MiB \in Nat
      BY FrameParts, ImageAssumption
    <3>4. MiB * from \in Nat
      BY <3>3
    <3>5. UpTo(f, from) \in Int
      BY <3>3, <3>4 DEF UpTo, Least
    <3>6. QED
      BY <1>6, <3>2, <3>5
  <2>7. UpTo(f, from + (k + 1)) = UpTo(f, from) + h[k + 1]
    <3> DEFINE u == UpTo(f, from)
               g == h[k]
               o == q[k + 1].out
    <3>1. UpTo(f, from + (k + 1)) = (u + g) + o /\ h[k + 1] = g + o
      BY <2>3, <2>5, <2>6, Zenon
    <3>2. u \in Int /\ g \in Nat /\ o \in Nat
      BY <2>6
    <3> HIDE DEF u, g, o
    <3>3. (u + g) + o = u + (g + o)
      BY <3>2
    <3>4. UpTo(f, from + (k + 1)) = u + h[k + 1]
      BY <3>1, <3>3, Zenon
    <3>5. QED
      BY <3>4 DEF u
  <2>8. QED
    BY <2>1, <2>7
<1> HIDE DEF P
<1>7. \A k \in 0 .. m : k \in P
  BY <1>5, <1>6, Upwards
<1>8. m \in P
  BY <1>7
<1>9. UpTo(f, from + m) = UpTo(f, from) + h[m] /\ h[m] = ContentIn(q)
  BY <1>4, <1>8 DEF P, Counting
<1>10. QED
  BY <1>9 DEF q

\* A flash that runs: what was opened before is written whole, and the image that is
\* open as far as it was cut.
WholeUpTo(m) ==
  \A k \in 1 .. m : Regular(items[k].spec) => written[k] = ContentOf(items[k].spec)
OpenInv ==
  /\ CutInv
  /\ size = ContentOf(items[item].spec) /\ (packed => items[item].spec.lz4)
  /\ items[item].spec.lz4 => HeaderOk(items[item].spec.frame)
  /\ Regular(items[item].spec) => written[item] = sent
RunInv ==
  /\ item \in 0 .. Len(items) /\ written \in Seq(Nat) /\ Len(written) = item
  /\ WholeUpTo(item - 1)
  /\ IF item = 0 THEN closed ELSE OpenInv

FlashInv ==
  /\ outcome = "none" => item = 0 /\ written = << >> /\ closed
  /\ outcome = "running" => RunInv
  /\ outcome = "ok" => AllWritten \/ broken

\* The images that are flashed.
LEMMA ItemsTyped ==
  ASSUME MappedInv
  PROVE  /\ Len(items) \in Nat /\ DOMAIN items = 1 .. Len(items)
         /\ \A k \in 1 .. Len(items) : items[k].spec \in ImageSpecs
<1>1. CASE items = << >>
  BY <1>1
<1>2. ASSUME NEW t \in Tables, items \in Mappings(t)
      PROVE  /\ Len(items) \in Nat /\ DOMAIN items = 1 .. Len(items)
             /\ \A k \in 1 .. Len(items) : items[k].spec \in ImageSpecs
  <2> DEFINE S == Items(t)
  <2>1. items \in Seq(S)
    BY <1>2 DEF Mappings
  <2>2. \A it \in S : it.spec \in ImageSpecs
    BY DEF Items
  <2> HIDE DEF S
  <2>3. QED
    BY <2>1, <2>2
<1>3. QED
  BY <1>1, <1>2 DEF MappedInv

LEMMA SpecParts ==
  ASSUME NEW s \in ImageSpecs
  PROVE  s.frame \in Frames /\ s.lz4 \in BOOLEAN /\ ContentOf(s) \in Int
<1>1. s.frame \in Frames /\ s.lz4 \in BOOLEAN /\ s.size \in Int
  BY DEF ImageSpecs
<1> DEFINE f == s.frame
<1>2. f \in Frames
  BY <1>1
<1> HIDE DEF f
<1>3. f.content \in Nat
  BY <1>2, FrameParts
<1>4. ContentOf(s) \in Int
  BY <1>1, <1>3 DEF ContentOf, f
<1>5. QED
  BY <1>1, <1>4

\* An image that was cut to its end is written whole.
LEMMA WholeWhenClosed ==
  ASSUME RunInv, closed
  PROVE  WholeUpTo(item)
<1>1. CASE item = 0
  BY <1>1 DEF WholeUpTo
<1>2. CASE item # 0
  <2>1. OpenInv /\ item \in Nat
    BY <1>2 DEF RunInv
  <2>2. sent = size
    BY <2>1 DEF OpenInv, CutInv, WindowsExact
  <2>3. \A k \in 1 .. item : k \in 1 .. item - 1 \/ k = item
    BY <2>1
  <2>4. QED
    BY <2>1, <2>2, <2>3 DEF RunInv, WholeUpTo, OpenInv
<1>3. QED
  BY <1>1, <1>2

LEMMA StepNextImage ==
  ASSUME MappedInv, FlashInv, NextImage
  PROVE  FlashInv'
<1>1. RunInv /\ closed /\ item < Len(items) /\ outcome = "running"
  BY DEF NextImage, Running, FlashInv
<1> DEFINE s == items[item + 1].spec
<1>2. CASE SourceBreaks
  BY <1>2 DEF SourceBreaks, FlashInv
<1>3. CASE ~SourceBreaks
  <2>1. /\ Opens(s) /\ OpenImage(ContentOf(s), s.lz4 /\ fast)
        /\ item' = item + 1 /\ written' = Append(written, 0)
        /\ UNCHANGED <<pit_table, items, fast, broken, outcome>>
    BY <1>3, Zenon DEF NextImage
  <2>2. item \in Nat /\ item + 1 \in 1 .. Len(items) /\ Len(items) \in Nat
    BY <1>1, ItemsTyped DEF RunInv
  <2>3. s \in ImageSpecs
    BY <2>2, ItemsTyped
  <2> HIDE DEF s
  <2>4. ContentOf(s) \in Int /\ ContentOf(s) > 0
    BY <2>1, <2>3, SpecParts DEF Opens
  <2>5. (s.lz4 /\ fast) \in BOOLEAN
    OBVIOUS
  <2>6. CutInv' /\ size' = ContentOf(s) /\ packed' = (s.lz4 /\ fast) /\ sent' = 0
    BY <2>1, <2>4, <2>5, OpenCut, Zenon
  <2>7. /\ written' \in Seq(Nat) /\ Len(written') = item + 1 /\ written'[item + 1] = 0
        /\ \A k \in 1 .. item : written'[k] = written[k]
    <3>1. written \in Seq(Nat) /\ Len(written) = item
      BY <1>1 DEF RunInv
    <3>2. QED
      BY <2>1, <2>2, <3>1
  <2>8. OpenInv'
    <3>1. items'[item'].spec = s
      BY <2>1 DEF s
    <3>2. size' = ContentOf(s) /\ (packed' => s.lz4) /\ written'[item'] = sent'
      BY <2>1, <2>6, <2>7
    <3>3. s.lz4 => HeaderOk(s.frame)
      BY <2>1, Zenon DEF Opens
    <3>4. QED
      BY <2>6, <3>1, <3>2, <3>3 DEF OpenInv, ContentOf, Regular, HeaderOk
  <2>9. WholeUpTo(item - 1)'
    <3>1. WholeUpTo(item) /\ item' - 1 = item
      BY <1>1, <2>1, <2>2, WholeWhenClosed
    <3>2. \A k \in 1 .. item : items'[k] = items[k] /\ written'[k] = written[k]
      BY <2>1, <2>7
    <3>3. \A k \in 1 .. item : Regular(items'[k].spec) => written'[k] = ContentOf(items'[k].spec)
      BY <3>1, <3>2 DEF WholeUpTo
    <3>4. QED
      BY <3>1, <3>3, Zenon DEF WholeUpTo, Regular, ContentOf
  <2>10. RunInv'
    <3>1. item' \in 0 .. Len(items') /\ item' # 0 /\ Len(written') = item'
      BY <2>1, <2>2, <2>7
    <3>2. QED
      BY <2>7, <2>8, <2>9, <3>1, Zenon DEF RunInv
  <2>11. outcome' = "running"
    BY <1>1, <2>1
  <2>12. QED
    BY <2>10, <2>11 DEF FlashInv
<1>4. QED
  BY <1>2, <1>3

\* The blocks of a window carry what the phone is told they do.
LEMMA BlocksMatch ==
  ASSUME CutInv, packed, More, NEW f \in Frames, size = f.content, CanDecode(f, 0, f.content)
  PROVE  ContentIn(SubSeq(f.blocks, read + 1, read + BlocksNext)) = ContentNext
<1> DEFINE got == ContentIn(SubSeq(f.blocks, read + 1, read + BlocksNext))
           c == f.content
<1>1. /\ BlocksNext \in Nat /\ read \in Nat /\ Blocks1m \in Nat /\ read < Blocks1m /\ ~Overasked
      /\ sent = read * OneMiB /\ sent \in Nat /\ size \in Nat /\ ContentNext \in Nat /\ Rem = size - sent
      /\ LastPacked => ContentNext = Rem /\ read + BlocksNext = Blocks1m
      /\ ~LastPacked => ContentNext < Rem /\ sent + ContentNext = (read + BlocksNext) * OneMiB
  BY PackedCounts DEF CutInv, CutTypes
<1>2. c \in Nat /\ size = c /\ MiB \in Nat \ {0}
  BY FrameParts, ImageAssumption
<1>3. TotalBlocks(f) = Blocks1m
  <2>1. c + MiB - 1 = c + (MiB - 1)
    BY <1>2
  <2>2. QED
    BY <2>1, MiBAssumption DEF TotalBlocks, Blocks1m
<1>4. read + BlocksNext <= TotalBlocks(f)
  BY <1>1, <1>3 DEF Overasked
<1>5. UpTo(f, read + BlocksNext) = UpTo(f, read) + got
  BY <1>1, <1>4, BlocksCarry
<1>6. got \in Int
  <2>1. f.blocks \in Seq(FrameBlocks) /\ DOMAIN f.blocks = 1 .. Len(f.blocks) /\ Len(f.blocks) \in Nat
    BY FrameParts
  <2> DEFINE b == f.blocks
  <2>2. ASSUME NEW i \in read + 1 .. read + BlocksNext PROVE b[i] \in FrameBlocks
    <3>1. i \in Nat \ {0} /\ i <= TotalBlocks(f)
      BY <1>1, <1>3, <1>4
    <3>2. i \in DOMAIN b
      BY <3>1, BlockCarries
    <3>3. QED
      BY <2>1, <3>2
  <2> HIDE DEF b
  <2>3. SubSeq(b, read + 1, read + BlocksNext) \in Seq(FrameBlocks)
    BY <1>1, <2>2, SubSeqProperties
  <2> DEFINE q == SubSeq(b, read + 1, read + BlocksNext)
  <2> HIDE DEF q
  <2>4. ContentIn(q) \in Nat
    BY <2>3, ContentNat DEF q
  <2>5. got = ContentIn(q)
    BY Zenon DEF q, b
  <2>6. QED
    BY <2>4, <2>5
<1> HIDE DEF got
<1>7. UpTo(f, read) = sent
  <2>1. MiB * read = sent
    BY <1>1, <1>2, MiBAssumption
  <2>2. MiB * read < c
    BY <1>1, <1>3, BlocksOfFrame
  <2> HIDE DEF c
  <2>3. Least(c, MiB * read) = sent
    BY <1>1, <1>2, <2>1, <2>2 DEF Least
  <2>4. QED
    BY <2>3, Zenon DEF UpTo, c
<1>8. CASE LastPacked
  <2>1. UpTo(f, read + BlocksNext) = c
    BY <1>1, <1>3, <1>8, BlocksOfFrame
  <2> HIDE DEF c
  <2>2. got = ContentNext
    BY <1>1, <1>2, <1>5, <1>6, <1>7, <1>8, <2>1
  <2>3. QED
    BY <2>2 DEF got
<1>9. CASE ~LastPacked
  <2>1. MiB * (read + BlocksNext) = sent + ContentNext /\ sent + ContentNext < c
    BY <1>1, <1>2, <1>9, MiBAssumption
  <2>2. UpTo(f, read + BlocksNext) = sent + ContentNext
    BY <1>1, <1>2, <2>1 DEF UpTo, Least
  <2>3. got = ContentNext
    BY <1>1, <1>5, <1>6, <1>7, <2>2
  <2>4. QED
    BY <2>3 DEF got
<1>10. QED
  BY <1>8, <1>9

LEMMA StepNextWindow ==
  ASSUME MappedInv, FlashInv, NextWindow
  PROVE  FlashInv'
<1>1. RunInv /\ ~closed /\ outcome = "running"
  BY DEF NextWindow, Running, FlashInv
<1> DEFINE s == items[item].spec
<1>2. CASE SourceBreaks
  BY <1>2 DEF SourceBreaks, FlashInv
<1>3. CASE ~SourceBreaks
  <2>1. /\ Reads
        /\ CutPlain \/ CutPacked(BlocksSize(Current.frame, read, BlocksNext))
        /\ written' = [written EXCEPT ![item] = @ + Carried]
        /\ UNCHANGED <<pit_table, items, item, fast, broken, outcome>>
    BY <1>3, Zenon DEF NextWindow
  <2>2. item # 0 /\ OpenInv /\ item \in 1 .. Len(items)
    BY <1>1, ItemsTyped DEF RunInv
  <2>3. s \in ImageSpecs /\ s = Current
    BY <2>2, ItemsTyped DEF Current
  <2> HIDE DEF s
  <2>4. /\ CutInv /\ size = ContentOf(s) /\ (packed => s.lz4) /\ (s.lz4 => HeaderOk(s.frame))
        /\ Regular(s) => written[item] = sent
    BY <2>2 DEF OpenInv, s
  <2>5. s.frame \in Frames /\ s.lz4 \in BOOLEAN
    BY <2>3, SpecParts
  <2>6. /\ CutInv' /\ Carried \in Nat /\ size' = size /\ packed' = packed /\ sent' \in Int
        /\ Regular(s) => sent' = sent + Carried
    <3>1. CASE CutPlain
      <4>1. CutInv' /\ Actual \in Nat
        BY <2>4, <3>1, PlainCut
      <4>2. ~packed /\ size' = size /\ packed' = packed /\ sent' = sent + Actual /\ Carried = Actual
        BY <3>1 DEF CutPlain, Carried
      <4>3. sent' \in Int
        BY <4>1 DEF CutInv, CutTypes
      <4>4. QED
        BY <4>1, <4>2, <4>3
    <3>2. CASE CutPacked(BlocksSize(Current.frame, read, BlocksNext))
      <4> DEFINE f == s.frame
                 comp == BlocksSize(Current.frame, read, BlocksNext)
      <4> HIDE DEF comp
      <4>1. CutPacked(comp)
        BY <3>2 DEF comp
      <4>2. packed /\ More
        BY <4>1 DEF CutPacked
      <4>3. CutInv' /\ packed' = packed /\ size' = size /\ sent' = sent + ContentNext
        BY <2>4, <4>1, PackedCut
      <4>4. ~Overasked /\ BlocksNext \in Nat /\ read \in Nat
        BY <2>4, <4>2, PackedCounts DEF CutInv, CutTypes
      <4>5. CanReadBlocks(f, read, BlocksNext)
        BY <2>1, <2>3, <4>2, <4>4, Zenon DEF Reads
      <4>6. Carried = ContentIn(SubSeq(f.blocks, read + 1, read + BlocksNext))
        BY <2>3, <4>2, Zenon DEF Carried
      <4>7. f \in Frames
        BY <2>5
      <4>8. size = f.content
        BY <2>4, <4>2 DEF ContentOf
      <4>9. Regular(s) => CanDecode(f, 0, f.content)
        <5>1. size > 0
          BY <2>4, <4>2 DEF CutInv, CutTypes, More
        <5>2. Regular(s) => HeaderOk(f) /\ WellFormed(f) /\ ~InSmallBlocks(f)
          BY <2>4, <4>2, Zenon DEF Regular
        <5>3. QED
          BY <4>7, <4>8, <5>1, <5>2, RegularDecodes
      <4> HIDE DEF f
      <4>10. Regular(s) => Carried = ContentNext
        BY <2>4, <4>2, <4>6, <4>7, <4>8, <4>9, BlocksMatch
      <4>11. Carried \in Nat
        <5>1. f.blocks \in Seq(FrameBlocks) /\ DOMAIN f.blocks = 1 .. Len(f.blocks)
              /\ \A i \in 1 .. Len(f.blocks) : f.blocks[i] \in FrameBlocks
          BY <4>7, FrameParts
        <5> DEFINE b == f.blocks
        <5>2. \A i \in read + 1 .. read + BlocksNext : b[i] \in FrameBlocks
          BY <4>5, <5>1, Zenon DEF CanReadBlocks
        <5> HIDE DEF b
        <5>3. SubSeq(b, read + 1, read + BlocksNext) \in Seq(FrameBlocks)
          BY <4>4, <5>2, SubSeqProperties
        <5>4. QED
          BY <4>6, <5>3, ContentNat DEF b
      <4>12. sent' \in Int
        BY <4>3 DEF CutInv, CutTypes
      <4>13. QED
        BY <4>3, <4>10, <4>11, <4>12
    <3>3. QED
      BY <2>1, <3>1, <3>2
  <2>7. /\ written' \in Seq(Nat) /\ Len(written') = item
        /\ written'[item] = written[item] + Carried
        /\ \A k \in 1 .. item - 1 : written'[k] = written[k]
    <3>1. written \in Seq(Nat) /\ Len(written) = item /\ item \in Nat \ {0}
      BY <1>1, <2>2 DEF RunInv
    <3>2. written[item] \in Nat
      BY <3>1
    <3> DEFINE w == written[item] + Carried
    <3>3. w \in Nat
      BY <2>6, <3>2
    <3>4. written' = [written EXCEPT ![item] = w]
      BY <2>1
    <3> HIDE DEF w
    <3>5. written' \in Seq(Nat) /\ Len(written') = item /\ written'[item] = w
          /\ \A k \in 1 .. item - 1 : written'[k] = written[k]
      BY <3>1, <3>3, <3>4
    <3>6. QED
      BY <3>5 DEF w
  <2>8. OpenInv'
    <3>1. items'[item'].spec = s
      BY <2>1, <2>3 DEF Current
    <3>2. size' = ContentOf(s) /\ (packed' => s.lz4) /\ (Regular(s) => written'[item'] = sent')
      BY <2>1, <2>4, <2>6, <2>7
    <3>3. QED
      BY <2>4, <2>6, <3>1, <3>2, Zenon DEF OpenInv, ContentOf, Regular, HeaderOk
  <2>9. WholeUpTo(item - 1)'
    <3>1. WholeUpTo(item - 1) /\ item' = item /\ items' = items
      BY <1>1, <2>1 DEF RunInv
    <3>2. \A k \in 1 .. item - 1 : Regular(items'[k].spec) => written'[k] = ContentOf(items'[k].spec)
      BY <2>7, <3>1 DEF WholeUpTo
    <3>3. QED
      BY <3>1, <3>2, Zenon DEF WholeUpTo, Regular, ContentOf
  <2>10. RunInv'
    <3>1. item' \in 0 .. Len(items') /\ item' # 0 /\ Len(written') = item'
      BY <1>1, <2>1, <2>2, <2>7 DEF RunInv
    <3>2. QED
      BY <2>7, <2>8, <2>9, <3>1, Zenon DEF RunInv
  <2>11. outcome' = "running"
    BY <1>1, <2>1
  <2>12. QED
    BY <2>10, <2>11 DEF FlashInv
<1>4. QED
  BY <1>2, <1>3

LEMMA StepFlashEnds ==
  ASSUME MappedInv, FlashInv, FlashEnds
  PROVE  FlashInv'
<1>1. RunInv /\ closed /\ item = Len(items)
  BY DEF FlashEnds, Running, FlashInv
<1>2. outcome' = "ok" /\ UNCHANGED <<items, written>>
  BY DEF FlashEnds
<1>3. WholeUpTo(item) /\ DOMAIN items = 1 .. item /\ Len(written) = item
  BY <1>1, WholeWhenClosed, ItemsTyped DEF RunInv
<1>4. AllWritten
  BY <1>1, <1>3 DEF AllWritten, WholeUpTo
<1>5. AllWritten'
  BY <1>2, <1>4, Zenon DEF AllWritten, Regular, ContentOf
<1>6. QED
  BY <1>2, <1>5 DEF FlashInv

LEMMA FlashInvSteps == MappedInv /\ FlashInv /\ FlashMoves => FlashInv'
<1> SUFFICES ASSUME MappedInv, FlashInv, FlashMoves PROVE FlashInv'
  OBVIOUS
<1>1. CASE UNCHANGED flashVars
  <2>1. /\ UNCHANGED <<items, item, written, broken, outcome>>
        /\ UNCHANGED <<size, packed, sent, read, closed, refused>>
    BY <1>1 DEF flashVars, flashing, plan
  <2>2. AllWritten' = AllWritten
    BY <2>1 DEF AllWritten, Regular, ContentOf
  <2>3. CutInv' = CutInv
    BY <2>1 DEF CutInv, CutTypes, WindowsExact, MaxBlocks, Blocks1m
  <2>4. OpenInv' = OpenInv
    BY <2>1, <2>3 DEF OpenInv, Regular, ContentOf
  <2>5. RunInv' = RunInv
    BY <2>1, <2>4 DEF RunInv, WholeUpTo, Regular, ContentOf
  <2>6. QED
    BY <2>1, <2>2, <2>5 DEF FlashInv
<1>2. CASE FlashReset
  BY <1>2 DEF FlashInv, FlashReset
<1>3. CASE NextImage
  BY <1>3, StepNextImage
<1>4. CASE NextWindow
  BY <1>4, StepNextWindow
<1>5. CASE FlashEnds
  BY <1>5, StepFlashEnds
<1>6. CASE LastDeviceFails
  BY <1>6 DEF LastDeviceFails, FlashInv
<1>7. ASSUME NEW specs \in Seq(ImageSpecs), FlashBegin(specs) PROVE FlashInv'
  <2>1. /\ outcome = "none" /\ outcome' \in {"failed", "running"}
        /\ UNCHANGED <<item, written, closed>>
    BY <1>7 DEF FlashBegin, plan
  <2>2. item' = 0 /\ written' = << >> /\ closed'
    BY <2>1 DEF FlashInv
  <2>3. Len(items') \in Nat
    <3>1. MapToPit(pit_table', specs) \in Seq(Items(pit_table'))
      BY Mapped DEF Mappings
    <3> DEFINE m == MapToPit(pit_table', specs)
               S == Items(pit_table')
    <3> HIDE DEF m, S
    <3>2. m \in Seq(S) /\ (items' = m \/ items' = << >>)
      BY <1>7, <3>1 DEF FlashBegin, m, S
    <3>3. QED
      BY <3>2
  <2>4. RunInv'
    BY <2>2, <2>3 DEF RunInv, WholeUpTo
  <2>5. QED
    BY <2>1, <2>2, <2>4 DEF FlashInv
<1>8. QED
  BY <1>1, <1>2, <1>3, <1>4, <1>5, <1>6, <1>7 DEF FlashMoves, FlashStep

LEMMA FlashHolds == Spec => [](FilesTyped /\ MappedInv /\ FlashInv)
<1>1. Init => FlashInv
  BY DEF Init, FlashInv, FlashIdle
<1>2. FilesTyped /\ MappedInv /\ FlashInv /\ [Next]_vars => FlashInv'
  BY FlashSteps, FlashInvSteps
<1>3. QED
  BY <1>1, <1>2, MappedHolds, PTL DEF Spec

\* A process moves itself.
LEMMA MovesItself ==
  ASSUME NEW q \in Procs, MainStep(q) \/ Watch(q) \/ Interrupt(q)
  PROVE  pc' = pc \/ \E b : pc' = [pc EXCEPT ![q] = b]
<1> USE DEF Goto, Return
<1>1. CASE TryAcquire(q) \/ ParseArgs(q) \/ Listen(q) \/ Accept(q) \/ SelectDevices(q) \/ OpenDevice(q)
  BY <1>1, Zenon DEF TryAcquire, ParseArgs, Listen, Accept, SelectDevices, OpenDevice
<1>2. CASE DetachDriver(q) \/ ClaimDevice(q) \/ Verify(q) \/ ExpandInputs(q) \/ ShieldUp(q)
  BY <1>2, Zenon DEF DetachDriver, ClaimDevice, Claimed, Verify, ExpandInputs, Flash, ShieldUp
<1>3. CASE ReleaseDevice(q) \/ ShieldDown(q) \/ Watch(q) \/ Restore(q) \/ Unlock(q) \/ Interrupt(q)
  BY <1>3, Zenon DEF ReleaseDevice, ShieldDown, Watch, Restore, Unlock, Interrupt, Killed
<1>4. CASE Flashing(q) \/ EarlyFailure(q) \/ FlashReturns(q)
  BY <1>4, Zenon DEF Flashing, EarlyFailure, FlashReturns, cliVars
<1>5. QED
  BY <1>1, <1>2, <1>3, <1>4 DEF MainStep

\* How a process comes out of a flash.
LEMMA LeavesShield ==
  ASSUME CliInv, FlashInv, CliNext, NEW p \in Procs, pc[p] = "shielded", pc'[p] = "leave", code'[p] = "0"
  PROVE  AllWritten \/ broken
<1>1. PICK q \in Procs : MainStep(q) \/ Watch(q) \/ Interrupt(q)
  BY DEF CliNext
<1>2. q = p
  <2>1. pc' = pc \/ \E b : pc' = [pc EXCEPT ![q] = b]
    BY <1>1, MovesItself
  <2>2. QED
    BY <2>1 DEF CliInv, CliTypes
<1>3. CASE FlashReturns(p)
  <2>1. /\ pc' = [pc EXCEPT ![p] = "leave"]
        /\ code' = [code EXCEPT ![p] = IF outcome = "ok" THEN "0" ELSE "1"]
    BY <1>3, Zenon DEF FlashReturns, Return, Goto
  <2>2. pc'[p] = "leave" /\ code'[p] = IF outcome = "ok" THEN "0" ELSE "1"
    BY <2>1 DEF CliInv, CliTypes
  <2>3. QED
    BY <2>2 DEF FlashInv
<1>4. CASE Interrupt(p)
  <2>1. CASE blocked[p]
    BY <1>4, <2>1 DEF Interrupt
  <2>2. CASE ~blocked[p]
    <3>1. pc' = [pc EXCEPT ![p] = "done"]
      BY <1>4, <2>2 DEF Interrupt, Killed
    <3>2. QED
      BY <2>2, <3>1 DEF CliInv, CliTypes
  <2>3. QED
    BY <2>1, <2>2
<1>5. CASE Flashing(p) \/ Watch(p)
  BY <1>5 DEF Flashing, Watch, cliVars
<1>6. CASE TryAcquire(p) \/ ParseArgs(p) \/ Listen(p) \/ Accept(p) \/ SelectDevices(p) \/ OpenDevice(p)
  BY <1>6 DEF TryAcquire, ParseArgs, Listen, Accept, SelectDevices, OpenDevice, Goto, Return
<1>7. CASE DetachDriver(p) \/ ClaimDevice(p) \/ Verify(p) \/ ExpandInputs(p) \/ ShieldUp(p) \/ EarlyFailure(p)
  BY <1>7 DEF DetachDriver, ClaimDevice, Claimed, Verify, ExpandInputs, ShieldUp, EarlyFailure, Goto, Return
<1>8. CASE ReleaseDevice(p) \/ ShieldDown(p) \/ Restore(p) \/ Unlock(p)
  BY <1>8 DEF ReleaseDevice, ShieldDown, Restore, Unlock, Goto
<1>9. QED
  BY <1>1, <1>2, <1>3, <1>4, <1>5, <1>6, <1>7, <1>8 DEF MainStep

\* A good verdict of the app.
LEMMA GoodVerdict ==
  ASSUME BridgeInv, FlashInv, BridgeNext, bpc = "flash", bpc' = "return", Last(told') = "ok"
  PROVE  AllWritten \/ broken
<1>1. CASE Report
  <2>1. CASE outcome = "ok"
    BY <2>1 DEF FlashInv
  <2>2. CASE outcome # "ok"
    <3>1. told' = told \o <<"error", "failed">>
      BY <1>1, <2>2 DEF Report, GiveUp
    <3>2. told = << >>
      BY DEF BridgeInv, Answered
    <3>3. told' = <<"error", "failed">>
      BY <3>1, <3>2
    <3>4. Last(told') = "failed"
      BY <3>3 DEF Last
    <3>5. QED
      BY <3>4
  <2>3. QED
    BY <2>1, <2>2
<1>2. CASE RunFlash
  BY <1>2 DEF RunFlash, bridgeVars
<1>3. CASE CreateSession \/ Extract \/ Prepare \/ DestroySession
  BY <1>3 DEF CreateSession, Extract, Prepare, DestroySession, GiveUp, Go
<1>4. QED
  BY <1>1, <1>2, <1>3 DEF BridgeNext

\* A flash that is reported as done, by exit code 0 or by a good verdict of the app, has
\* written every image whole, whatever the files, tables, sizes and numbers of processes.
\* Left out are a source that could not be read, compressed images whose blocks are not
\* those their header gives room for, and ones of up to a MiB in smaller blocks.
THEOREM SuccessIsTrue == Spec => SuccessTrue
<1> DEFINE A == /\ \A p \in Procs :
                     pc[p] = "shielded" /\ pc'[p] = "leave" /\ code'[p] = "0" => AllWritten \/ broken
                /\ bpc = "flash" /\ bpc' = "return" /\ Last(told') = "ok" => AllWritten \/ broken
<1>1. CliInv /\ BridgeInv /\ FlashInv /\ [Next]_vars => [A]_vars
  <2> SUFFICES ASSUME CliInv, BridgeInv, FlashInv, [Next]_vars PROVE A \/ UNCHANGED vars
    OBVIOUS
  <2>1. [CliNext]_cliVars /\ [BridgeNext]_bridgeVars
    BY ProgramSteps
  <2>2. ASSUME NEW p \in Procs, pc[p] = "shielded", pc'[p] = "leave", code'[p] = "0"
        PROVE  AllWritten \/ broken
    <3>1. CliNext
      BY <2>1, <2>2 DEF cliVars
    <3>2. QED
      BY <2>2, <3>1, LeavesShield
  <2>3. ASSUME bpc = "flash", bpc' = "return", Last(told') = "ok" PROVE AllWritten \/ broken
    <3>1. BridgeNext
      BY <2>1, <2>3 DEF bridgeVars
    <3>2. QED
      BY <2>3, <3>1, GoodVerdict
  <2>4. A
    BY <2>2, <2>3
  <2>5. QED
    BY <2>4
<1>2. QED
  BY <1>1, CliHolds, BridgeHolds, FlashHolds, PTL DEF Spec, SuccessTrue

-----------------------------------------------------------------------------
\* Nothing is open, or an image as far as it was cut.
PlanIdle == size = 0 /\ ~packed /\ sent = 0 /\ closed /\ ~refused

LEMMA PlanMoves ==
  ASSUME MappedInv, FlashInv, PlanIdle \/ CutInv, FlashMoves
  PROVE  (PlanIdle \/ CutInv)'
<1>1. CASE UNCHANGED <<size, packed, sent, read, closed, refused>>
  BY <1>1 DEF PlanIdle, CutInv, CutTypes, WindowsExact, MaxBlocks, Blocks1m
<1>2. CASE FlashReset
  BY <1>2 DEF FlashReset, PlanIdle
<1>3. CASE NextImage /\ ~SourceBreaks
  <2> DEFINE s == items[item + 1].spec
             p == s.lz4 /\ fast
  <2>1. OpenImage(ContentOf(s), p)
    BY <1>3, Zenon DEF NextImage
  <2>2. item \in Nat /\ item < Len(items)
    BY <1>3 DEF NextImage, Running, FlashInv, RunInv
  <2>3. item + 1 \in 1 .. Len(items)
    BY <2>2, ItemsTyped
  <2>4. s \in ImageSpecs
    BY <2>3, ItemsTyped
  <2>5. p \in BOOLEAN
    OBVIOUS
  <2> HIDE DEF s, p
  <2>6. ContentOf(s) \in Int
    BY <2>4, SpecParts
  <2>7. CutInv'
    BY <2>1, <2>5, <2>6, OpenCut
  <2>8. QED
    BY <2>7
<1>4. CASE CutPlain
  <2>1. CutInv
    BY <1>4 DEF CutPlain, More, PlanIdle
  <2>2. QED
    BY <1>4, <2>1, PlainCut
<1>5. ASSUME NEW comp, CutPacked(comp) PROVE CutInv'
  <2>1. CutInv
    BY <1>5 DEF CutPacked, PlanIdle
  <2>2. QED
    BY <1>5, <2>1, PackedCut
<1>6. CASE NextWindow /\ ~SourceBreaks
  BY <1>4, <1>5, <1>6, Zenon DEF NextWindow
<1>7. CASE SourceBreaks \/ LastDeviceFails \/ FlashEnds \/ UNCHANGED flashVars \/ \E specs \in Seq(ImageSpecs) : FlashBegin(specs)
  <2>1. UNCHANGED plan
    BY <1>7, Zenon DEF SourceBreaks, LastDeviceFails, FlashEnds, FlashBegin, flashVars
  <2>2. QED
    BY <1>1, <2>1 DEF plan
<1>8. QED
  BY <1>2, <1>3, <1>6, <1>7 DEF FlashMoves, FlashStep

\* The windows of the images that are flashed carry each of them and nothing else
\* (group_flasher.cpp).
THEOREM ImagesCutExactly == Spec => []WindowsExact
<1>1. Init => PlanIdle
  BY DEF Init, FlashIdle, PlanIdle
<1>2. FilesTyped /\ MappedInv /\ FlashInv /\ (PlanIdle \/ CutInv) /\ [Next]_vars => (PlanIdle \/ CutInv)'
  BY FlashSteps, PlanMoves
<1>3. PlanIdle \/ CutInv => WindowsExact
  BY DEF PlanIdle, CutInv, WindowsExact
<1>4. QED
  BY <1>1, <1>2, <1>3, FlashHolds, PTL DEF Spec

-----------------------------------------------------------------------------
(***************************************************************************)
(* Which images are chosen (ImageInput).                                   *)
(***************************************************************************)
\* Where a scan that looks at checksums does not fail, one that does not look at them
\* does the same.
LEMMA ScanBlockSame ==
  ASSUME NEW acc \in ScanStates, NEW b \in TarBlocks
  PROVE  /\ acc.state = "failed" => ScanBlock(TRUE, acc, b) = acc
         /\ ScanBlock(TRUE, acc, b).state # "failed" => ScanBlock(FALSE, acc, b) = ScanBlock(TRUE, acc, b)
<1> DEFINE a == Moved(acc)
<1>1. a \in ScanStates
  <2>1. acc.pos + 1 \in Nat
    BY ScanFields, Zenon
  <2>2. [acc EXCEPT !.pos = acc.pos + 1] \in ScanStates
    BY <2>1, ScanUpdates
  <2>3. QED
    BY <2>2 DEF Moved
<1>2. ASSUME NEW v
      PROVE  ScanBlock(v, acc, b) =
          IF acc.state # "scan" THEN acc
          ELSE IF acc.extra # "" THEN TakeExtra(a, b)
          ELSE IF acc.skip > 0 THEN [a EXCEPT !.skip = @ - 1]
          ELSE IF b.kind = "zeros" THEN [a EXCEPT !.state = "ended"]
          ELSE IF (v /\ ~b.sound) \/ b.size = NoSize THEN [a EXCEPT !.state = "failed"]
          ELSE IF b.type \in {"x", "g", "L"} THEN ReadExtra(a, b)
          ELSE ReadMember(a, b)
  BY Zenon DEF ScanBlock, Moved
<1> HIDE DEF a
<1>3. [a EXCEPT !.state = "failed"].state = "failed"
  BY <1>1 DEF ScanStates
<1>4. acc.state = "failed" => ScanBlock(TRUE, acc, b) = acc
  BY <1>2
<1>5. CASE acc.state = "scan" /\ acc.extra = "" /\ ~(acc.skip > 0) /\ b.kind # "zeros" /\ ~b.sound
  <2>1. ScanBlock(TRUE, acc, b) = [a EXCEPT !.state = "failed"]
    BY <1>2, <1>5
  <2>2. QED
    BY <2>1, <1>3, <1>4
<1>6. CASE ~(acc.state = "scan" /\ acc.extra = "" /\ ~(acc.skip > 0) /\ b.kind # "zeros" /\ ~b.sound)
  <2>1. ScanBlock(TRUE, acc, b) = ScanBlock(FALSE, acc, b)
    BY <1>2, <1>6
  <2>2. QED
    BY <2>1, <1>4
<1>7. QED
  BY <1>5, <1>6

LEMMA ScanSame ==
  ASSUME NEW blocks \in Seq(TarBlocks)
  PROVE  Scan(TRUE, blocks).state # "failed" => Scan(FALSE, blocks) = Scan(TRUE, blocks)
<1> DEFINE n == Len(blocks)
<1>1. n \in Nat /\ blocks \in [1 .. n -> TarBlocks] /\ n \in 0 .. n
  OBVIOUS
<1> HIDE DEF n
<1>2. PICK h \in [0 .. n -> ScanStates] : Scanning(TRUE, blocks, n, h)
  BY <1>1, ScanOneByOne
<1>3. PICK d \in [0 .. n -> ScanStates] : Scanning(FALSE, blocks, n, d)
  BY <1>1, ScanOneByOne
<1> DEFINE T == {k \in 0 .. n : h[k].state = "failed" \/ d[k] = h[k]}
<1>4. 0 \in T
  <2>1. 0 \in 0 .. n
    BY <1>1
  <2>2. QED
    BY <1>2, <1>3, <2>1 DEF Scanning
<1>5. ASSUME NEW k \in 0 .. n, k \in T, k < n PROVE k + 1 \in T
  <2>1. k + 1 \in 1 .. n /\ (k + 1) - 1 = k /\ k + 1 \in 0 .. n
    BY <1>1, <1>5
  <2>2. h[k + 1] = ScanBlock(TRUE, h[(k + 1) - 1], blocks[k + 1]) /\ d[k + 1] = ScanBlock(FALSE, d[(k + 1) - 1], blocks[k + 1])
    BY <1>2, <1>3, <2>1, Zenon DEF Scanning
  <2>3. h[k + 1] = ScanBlock(TRUE, h[k], blocks[k + 1]) /\ d[k + 1] = ScanBlock(FALSE, d[k], blocks[k + 1])
    BY <2>1, <2>2
  <2>4. h[k] \in ScanStates /\ blocks[k + 1] \in TarBlocks
    BY <1>1, <2>1
  <2>5. CASE h[k].state = "failed"
    <3>1. h[k + 1] = h[k]
      BY <2>3, <2>4, <2>5, ScanBlockSame
    <3>2. QED
      BY <3>1, <2>1, <2>5
  <2>6. CASE d[k] = h[k]
    <3>1. h[k + 1].state # "failed" => d[k + 1] = h[k + 1]
      BY <2>3, <2>4, <2>6, ScanBlockSame
    <3>2. QED
      BY <3>1, <2>1
  <2>7. QED
    BY <1>5, <2>5, <2>6
<1> HIDE DEF T
<1>6. \A k \in 0 .. n : k \in T
  BY <1>1, <1>4, <1>5, Upwards
<1>7. n \in T
  BY <1>1, <1>6
<1>8. QED
  BY <1>7, <1>2, <1>3 DEF T, Scanning

LEMMA TarOpenSame ==
  ASSUME NEW blocks \in Seq(TarBlocks), TarOpen(blocks, TRUE).ok
  PROVE  TarOpen(blocks, FALSE) = TarOpen(blocks, TRUE)
<1> DEFINE a == Scan(TRUE, blocks)
           r == Resolved(a)
<1>1. TarOpen(blocks, TRUE) = IF a.state = "ended" THEN [ok |-> TRUE, entries |-> r] ELSE [ok |-> FALSE, entries |-> << >>]
  BY Zenon DEF TarOpen
<1> HIDE DEF r
<1> DEFINE t == TarOpen(blocks, TRUE)
<1>5. t = IF a.state = "ended" THEN [ok |-> TRUE, entries |-> r] ELSE [ok |-> FALSE, entries |-> << >>]
  BY <1>1
<1>6. t.ok
  OBVIOUS
<1> HIDE DEF t, a
<1>2. a.state = "ended"
  <2>1. CASE a.state # "ended"
    <3>1. t = [ok |-> FALSE, entries |-> << >>]
      BY <1>5, <2>1
    <3>2. t.ok = FALSE
      BY <3>1
    <3>3. QED
      BY <3>2, <1>6
  <2>2. QED
    BY <2>1
<1>3. Scan(FALSE, blocks) = a
  BY <1>2, ScanSame DEF a
<1>4. QED
  BY <1>3, Zenon DEF TarOpen, a

-----------------------------------------------------------------------------
\* Later ones stand behind.
RisingPlaces(q) == \A k, m \in 1 .. Len(q) : k < m => Later(q[m], q[k])

LEMMA OfFileAt ==
  ASSUME NEW files \in Seq(InputFiles), NEW tars \in [1 .. Len(files) -> OpenTars], NEW i \in 1 .. Len(files),
         NEW y \in 1 .. Len(OfFile(files, tars, i))
  PROVE  /\ OfFile(files, tars, i)[y].file = i
         /\ i \in Archives(files) =>
              /\ y \in 1 .. Len(tars[i].entries) /\ OfFile(files, tars, i)[y] = Candidate(i, y, tars[i].entries[y])
              /\ OfFile(files, tars, i)[y].entry = y
         /\ i \notin Archives(files) => y = 1 /\ OfFile(files, tars, i)[y] = Candidate(i, 0, files[i])
<1> DEFINE es == tars[i].entries
<1>1. es \in Seq(TarEntries)
  BY DEF OpenTars
<1>2. CASE i \in Archives(files)
  <2>1. OfFile(files, tars, i) = [j \in DOMAIN es |-> Candidate(i, j, es[j])]
    BY <1>2, Zenon DEF OfFile, es
  <2> HIDE DEF es
  <2>2. DOMAIN es = 1 .. Len(es) /\ Len(es) \in Nat
    BY <1>1
  <2>3. y \in 1 .. Len(es) /\ OfFile(files, tars, i)[y] = Candidate(i, y, es[y])
    BY <2>1, <2>2
  <2>4. Candidate(i, y, es[y]).file = i /\ Candidate(i, y, es[y]).entry = y
    BY DEF Candidate
  <2>5. QED
    BY <1>2, <2>3, <2>4 DEF es
<1>3. CASE i \notin Archives(files)
  <2>1. OfFile(files, tars, i) = <<Candidate(i, 0, files[i])>>
    BY <1>3, Zenon DEF OfFile
  <2> DEFINE c == Candidate(i, 0, files[i])
  <2>2. c.file = i
    BY DEF Candidate
  <2> HIDE DEF c
  <2>3. y = 1 /\ OfFile(files, tars, i)[y] = c
    BY <2>1 DEF c
  <2>4. QED
    BY <1>3, <2>2, <2>3 DEF c
<1>4. QED
  BY <1>2, <1>3

LEMMA LaterPlace ==
  ASSUME NEW files \in Seq(InputFiles), NEW tars \in [1 .. Len(files) -> OpenTars],
         NEW x \in 1 .. Len(files), NEW y \in 1 .. Len(OfFile(files, tars, x)),
         NEW u \in 1 .. Len(files), NEW v \in 1 .. Len(OfFile(files, tars, u)),
         x < u \/ (x = u /\ y < v)
  PROVE  Later(OfFile(files, tars, u)[v], OfFile(files, tars, x)[y])
<1>1. CASE x < u
  BY <1>1, OfFileAt DEF Later
<1>2. CASE x = u /\ y < v
  <2>1. x \in Archives(files)
    BY <1>2, OfFileAt
  <2>2. OfFile(files, tars, u)[v].entry = v /\ OfFile(files, tars, x)[y].entry = y
    BY <1>2, <2>1, OfFileAt
  <2>3. QED
    BY <1>2, <2>2, OfFileAt DEF Later
<1>3. QED
  BY <1>1, <1>2

\* What is picked of a sequence in order is in order.
LEMMA PickedInOrder ==
  ASSUME NEW S, NEW q \in Seq(S), NEW at, RisingPlaces(q)
  PROVE  RisingPlaces(Picked(q, at))
<1> DEFINE out == Picked(q, at)
<1>1. PickedFrom(S, q, at, out)
  BY PickedSeq, Zenon
<1> HIDE DEF out
<1>2. PICK p : Picks(q, at, Len(q), out, p)
  BY <1>1 DEF PickedFrom
<1>3. ASSUME NEW k \in 1 .. Len(out), NEW m \in 1 .. Len(out), k < m PROVE Later(out[m], out[k])
  <2>1. p[k] \in 1 .. Len(q) /\ p[m] \in 1 .. Len(q) /\ p[k] < p[m] /\ out[k] = q[p[k]] /\ out[m] = q[p[m]]
    BY <1>2, <1>3 DEF Picks
  <2>2. QED
    BY <2>1 DEF RisingPlaces
<1>4. QED
  BY <1>3, Zenon DEF RisingPlaces, out

\* Every candidate is one of a file, and every one of a file that has a name and is no
\* list is a candidate.
Wanted(c) == (c.entry # 0 => c.name # ListName) /\ c.name.base # ""
FromFiles(files, tars, cands) ==
  /\ \A k \in 1 .. Len(cands) : /\ Wanted(cands[k])
                                /\ \E i \in 1 .. Len(files) : \E y \in 1 .. Len(OfFile(files, tars, i)) :
                                     cands[k] = OfFile(files, tars, i)[y]
  /\ \A i \in 1 .. Len(files) : \A y \in 1 .. Len(OfFile(files, tars, i)) :
       Wanted(OfFile(files, tars, i)[y]) => \E k \in 1 .. Len(cands) : cands[k] = OfFile(files, tars, i)[y]

LEMMA CandidatesPlaced ==
  ASSUME NEW files \in Seq(InputFiles), NEW tars \in [1 .. Len(files) -> OpenTars]
  PROVE  RisingPlaces(Candidates(files, tars)) /\ FromFiles(files, tars, Candidates(files, tars))
<1> DEFINE C == CandidatesIn(Len(files))
           ss == OfFiles(files, tars)
           all == FlattenSeq(ss)
           at == {k \in DOMAIN all : (all[k].entry # 0 => all[k].name # ListName) /\ all[k].name.base # ""}
           cands == Picked(all, at)
           n == Len(files)
<1>1. ss \in [1 .. n -> Seq(C)] /\ n \in Nat
  BY OfFilesTyped
<1>2. all \in Seq(C) /\ \E w : Lays(ss, n, all, w)
  BY <1>1, FlatFacts, Zenon
<1>3. \A i \in 1 .. n : ss[i] = OfFile(files, tars, i)
  BY DEF OfFiles
<1>4. Candidates(files, tars) = cands
  BY Zenon DEF Candidates, OfFiles, OfFile
<1> HIDE DEF all, ss
<1>5. PICK w : Lays(ss, n, all, w)
  BY <1>2
<1>6. ASSUME NEW k \in 1 .. Len(all)
      PROVE  /\ w[k][1] \in 1 .. n /\ w[k][2] \in 1 .. Len(OfFile(files, tars, w[k][1]))
             /\ all[k] = OfFile(files, tars, w[k][1])[w[k][2]]
  <2>1. w[k] \in (1 .. n) \X Nat /\ w[k][2] \in 1 .. Len(ss[w[k][1]]) /\ all[k] = ss[w[k][1]][w[k][2]]
    BY <1>5 DEF Lays
  <2>2. w[k][1] \in 1 .. n
    BY <2>1
  <2>3. QED
    BY <2>1, <2>2, <1>3
<1>7. RisingPlaces(all)
  <2>1. ASSUME NEW k \in 1 .. Len(all), NEW m \in 1 .. Len(all), k < m PROVE Later(all[m], all[k])
    <3>1. w[k][1] < w[m][1] \/ (w[k][1] = w[m][1] /\ w[k][2] < w[m][2])
      BY <1>5, <2>1 DEF Lays
    <3>2. Later(OfFile(files, tars, w[m][1])[w[m][2]], OfFile(files, tars, w[k][1])[w[k][2]])
      BY <3>1, <1>6, LaterPlace
    <3>3. QED
      BY <3>2, <1>6
  <2>2. QED
    BY <2>1 DEF RisingPlaces
<1>8. DOMAIN all = 1 .. Len(all) /\ Len(all) \in Nat
  BY <1>2
<1>9. \A k \in 1 .. Len(all) : k \in at <=> Wanted(all[k])
  BY <1>8 DEF Wanted
<1> HIDE DEF at
<1>10. PickedFrom(C, all, at, cands)
  BY <1>2, PickedSeq, Zenon
<1>11. RisingPlaces(cands)
  BY <1>2, <1>7, PickedInOrder, Zenon
<1> HIDE DEF cands
<1>12. ASSUME NEW k \in 1 .. Len(cands)
       PROVE  /\ Wanted(cands[k])
              /\ \E i \in 1 .. n : \E y \in 1 .. Len(OfFile(files, tars, i)) : cands[k] = OfFile(files, tars, i)[y]
  <2>1. PICK m \in 1 .. Len(all) : m \in at /\ cands[k] = all[m]
    BY <1>10 DEF PickedFrom
  <2>2. QED
    BY <2>1, <1>6, <1>9
<1>13. ASSUME NEW i \in 1 .. n, NEW y \in 1 .. Len(OfFile(files, tars, i)), Wanted(OfFile(files, tars, i)[y])
       PROVE  \E k \in 1 .. Len(cands) : cands[k] = OfFile(files, tars, i)[y]
  <2>1. PICK m \in 1 .. Len(all) : w[m] = <<i, y>>
    BY <1>5, <1>3 DEF Lays
  <2>2. all[m] = OfFile(files, tars, i)[y]
    BY <2>1, <1>6
  <2>3. m \in at
    BY <2>2, <1>9, <1>13
  <2>4. QED
    BY <2>2, <2>3, <1>10 DEF PickedFrom
<1>14. FromFiles(files, tars, cands)
  BY <1>12, <1>13 DEF FromFiles
<1>15. QED
  BY <1>4, <1>11, <1>14

\* The last candidate of each name, so far: what a candidate makes of it.
Notes(C) == UNION {[D -> C] : D \in SUBSET Text}
Noted(m, c) == [b \in DOMAIN m \cup {c.name.base} |-> IF b = c.name.base THEN c ELSE m[b]]
NotesOf(cands, n, f) ==
  f = [s \in SUBSET (1 .. n) |->
         IF s = {} THEN << >> ELSE Noted(f[s \ {Max(s)}], cands[Max(s)])]
Noting(cands, n, h) ==
  /\ h[0] = << >> /\ h[n] = LastOf(cands)
  /\ \A k \in 1 .. n : h[k] = Noted(h[k - 1], cands[k])

LEMMA NotedTyped ==
  ASSUME NEW C, NEW m \in Notes(C), NEW c \in C, c.name.base \in Text
  PROVE  Noted(m, c) \in Notes(C)
<1>1. PICK D \in SUBSET Text : m \in [D -> C]
  BY DEF Notes
<1> DEFINE E == D \cup {c.name.base}
<1>2. E \in SUBSET Text
  BY <1>1
<1>3. Noted(m, c) \in [E -> C]
  BY <1>1 DEF Noted
<1>4. QED
  BY <1>2, <1>3 DEF Notes

LEMMA LastOneByOne ==
  ASSUME NEW C, NEW n \in Nat, NEW cands \in [1 .. n -> C], \A c \in C : c.name.base \in Text
  PROVE  \E h : Noting(cands, n, h) /\ \A k \in 0 .. n : h[k] \in Notes(C)
<1> DEFINE base == << >>
           step == [ax \in Notes(C) \X C |-> Noted(ax[1], ax[2])]
<1>1. base \in Notes(C)
  <2>1. << >> \in [{} -> C] /\ {} \in SUBSET Text
    OBVIOUS
  <2>2. QED
    BY <2>1 DEF Notes
<1>2. step \in [Notes(C) \X C -> Notes(C)]
  <2>1. ASSUME NEW ax \in Notes(C) \X C PROVE Noted(ax[1], ax[2]) \in Notes(C)
    <3>1. ax[1] \in Notes(C) /\ ax[2] \in C
      OBVIOUS
    <3>2. ax[2].name.base \in Text
      BY <3>1
    <3>3. QED
      BY <3>1, <3>2, NotedTyped
  <2>2. QED
    BY <2>1
<1>3. ASSUME NEW a \in Notes(C), NEW r \in C PROVE step[<<a, r>>] = Noted(a, r)
  OBVIOUS
<1> HIDE DEF step, base
<1>4. PICK f \in [SUBSET (1 .. n) -> Notes(C)] : FoldOf(base, step, cands, n, f)
  <2>1. n \in 0 .. n
    OBVIOUS
  <2>2. \A k \in 0 .. n : \E f \in [SUBSET (1 .. k) -> Notes(C)] : FoldOf(base, step, cands, k, f)
    BY <1>1, <1>2, FoldExists
  <2>3. QED
    BY <2>1, <2>2
<1>5. ASSUME NEW s \in SUBSET (1 .. n), s # {}
      PROVE  step[<<f[s \ {Max(s)}], cands[Max(s)]>>] = Noted(f[s \ {Max(s)}], cands[Max(s)])
  <2>1. Max(s) \in 1 .. n
    <3>1. Max(s) \in s
      BY <1>5, LargestOf
    <3>2. QED
      BY <3>1
  <2>2. s \ {Max(s)} \in SUBSET (1 .. n)
    OBVIOUS
  <2>3. f[s \ {Max(s)}] \in Notes(C) /\ cands[Max(s)] \in C
    BY <2>1, <2>2, <1>4
  <2>4. QED
    BY <2>3, <1>3, Zenon
<1>6. NotesOf(cands, n, f)
  BY <1>4, <1>5, Zenon DEF FoldOf, NotesOf, base
<1> DEFINE iter == CHOOSE g : NotesOf(cands, n, g)
<1>7. NotesOf(cands, n, iter)
  BY <1>6, Zenon
<1>8. LastOf(cands) = iter[1 .. n]
  BY DEF LastOf, FoldLeft, MapThenFoldSet, NotesOf, Noted
<1> HIDE DEF iter
<1> DEFINE h == [k \in 0 .. n |-> iter[1 .. k]]
<1>9. ASSUME NEW k \in 1 .. n PROVE h[k] = Noted(h[k - 1], cands[k])
  <2>1. 1 .. k \in SUBSET (1 .. n) /\ 1 .. k # {} /\ k \in 0 .. n /\ k - 1 \in 0 .. n
    OBVIOUS
  <2>2. (1 .. k) \ {k} = 1 .. k - 1
    OBVIOUS
  <2>3. Max(1 .. k) = k
    BY LastIndex
  <2>4. iter[1 .. k] = Noted(iter[(1 .. k) \ {Max(1 .. k)}], cands[Max(1 .. k)])
    BY <1>7, <2>1, Zenon DEF NotesOf
  <2>5. QED
    BY <2>1, <2>2, <2>3, <2>4
<1>10. h[0] = base /\ h[n] = iter[1 .. n]
  <2>1. 0 \in 0 .. n /\ n \in 0 .. n /\ 1 .. 0 = {} /\ 1 .. 0 \in SUBSET (1 .. n)
    OBVIOUS
  <2>2. iter[1 .. 0] = base
    BY <1>7, <2>1, Zenon DEF NotesOf, base
  <2>3. QED
    BY <2>1, <2>2
<1>11. Noting(cands, n, h)
  BY <1>8, <1>9, <1>10, Zenon DEF Noting, base
<1> DEFINE T == {k \in 0 .. n : h[k] \in Notes(C)}
<1>12. 0 \in T
  BY <1>10, <1>1
<1> HIDE DEF h
<1>13. ASSUME NEW k \in 0 .. n, k \in T, k < n PROVE k + 1 \in T
  <2>1. k + 1 \in 1 .. n /\ (k + 1) - 1 = k /\ k + 1 \in 0 .. n
    BY <1>13
  <2>2. h[k + 1] = Noted(h[(k + 1) - 1], cands[k + 1])
    BY <1>11, <2>1, Zenon DEF Noting
  <2>3. h[k] \in Notes(C) /\ cands[k + 1] \in C /\ cands[k + 1].name.base \in Text
    BY <1>13, <2>1
  <2>4. Noted(h[k], cands[k + 1]) \in Notes(C)
    BY <2>3, NotedTyped
  <2>5. QED
    BY <2>1, <2>2, <2>4
<1> HIDE DEF T
<1>14. \A k \in 0 .. n : k \in T
  BY <1>12, <1>13, Upwards
<1>15. \A k \in 0 .. n : h[k] \in Notes(C)
  BY <1>14 DEF T
<1>16. QED
  BY <1>11, <1>15, Zenon

\* The last place among the first k of the name that stands at place x.
LastPlace(cands, k, x, y) ==
  /\ y \in 1 .. k /\ cands[y].name.base = cands[x].name.base
  /\ \A z \in 1 .. k : cands[z].name.base = cands[x].name.base => z <= y
KnowsLast(cands, k, m) ==
  \A x \in 1 .. k : /\ cands[x].name.base \in DOMAIN m
                    /\ \E y \in 1 .. k : LastPlace(cands, k, x, y) /\ m[cands[x].name.base] = cands[y]

LEMMA NotedKnows ==
  ASSUME NEW C, NEW k \in Nat, NEW cands, NEW m, KnowsLast(cands, k, m)
  PROVE  KnowsLast(cands, k + 1, Noted(m, cands[k + 1]))
<1> DEFINE c == cands[k + 1]
           d == Noted(m, c)
           B(x) == cands[x].name.base
<1>1. k + 1 \in 1 .. k + 1 /\ \A x \in 1 .. k + 1 : x \in 1 .. k \/ x = k + 1
  OBVIOUS
<1>2. ASSUME NEW x \in 1 .. k + 1
      PROVE  B(x) \in DOMAIN d /\ \E y \in 1 .. k + 1 : LastPlace(cands, k + 1, x, y) /\ d[B(x)] = cands[y]
  <2>1. CASE B(x) = B(k + 1)
    <3>1. B(x) \in DOMAIN d /\ d[B(x)] = c
      BY <2>1 DEF Noted
    <3>2. LastPlace(cands, k + 1, x, k + 1)
      BY <2>1, <1>1 DEF LastPlace
    <3>3. QED
      BY <1>1, <3>1, <3>2
  <2>2. CASE B(x) # B(k + 1)
    <3>1. x \in 1 .. k
      BY <1>1, <2>2
    <3>2. B(x) \in DOMAIN m
      BY <3>1 DEF KnowsLast
    <3>3. PICK y \in 1 .. k : LastPlace(cands, k, x, y) /\ m[B(x)] = cands[y]
      BY <3>1 DEF KnowsLast
    <3>4. B(x) \in DOMAIN d /\ d[B(x)] = m[B(x)]
      BY <2>2, <3>2 DEF Noted
    <3>5. LastPlace(cands, k + 1, x, y)
      <4>1. y \in 1 .. k + 1 /\ B(y) = B(x)
        BY <3>3 DEF LastPlace
      <4>2. ASSUME NEW z \in 1 .. k + 1, B(z) = B(x) PROVE z <= y
        <5>1. z \in 1 .. k
          BY <1>1, <2>2, <4>2
        <5>2. QED
          BY <5>1, <4>2, <3>3 DEF LastPlace
      <4>3. QED
        BY <4>1, <4>2 DEF LastPlace
    <3>6. y \in 1 .. k + 1
      OBVIOUS
    <3>7. QED
      BY <3>3, <3>4, <3>5, <3>6
  <2>3. QED
    BY <2>1, <2>2
<1>3. QED
  BY <1>2, Zenon DEF KnowsLast

LEMMA LastKnown ==
  ASSUME NEW n \in Nat, NEW cands \in Seq(CandidatesIn(n))
  PROVE  KnowsLast(cands, Len(cands), LastOf(cands))
<1> DEFINE C == CandidatesIn(n)
           l == Len(cands)
<1>1. l \in Nat /\ cands \in [1 .. l -> C] /\ l \in 0 .. l
  BY PositionsNat
<1>2. ASSUME NEW c \in C PROVE c.name.base \in Text
  <2>1. c.name \in Names
    BY DEF CandidatesIn
  <2>2. QED
    BY <2>1 DEF Names
<1> HIDE DEF l, C
<1>3. PICK h : Noting(cands, l, h) /\ \A k \in 0 .. l : h[k] \in Notes(C)
  BY <1>1, <1>2, LastOneByOne
<1> DEFINE T == {k \in 0 .. l : KnowsLast(cands, k, h[k])}
<1>4. 0 \in T
  BY <1>1 DEF KnowsLast
<1>5. ASSUME NEW k \in 0 .. l, k \in T, k < l PROVE k + 1 \in T
  <2>1. k + 1 \in 1 .. l /\ (k + 1) - 1 = k /\ k + 1 \in 0 .. l /\ k \in Nat
    BY <1>1, <1>5
  <2>2. h[k + 1] = Noted(h[(k + 1) - 1], cands[k + 1])
    BY <1>3, <2>1, Zenon DEF Noting
  <2>3. KnowsLast(cands, k + 1, Noted(h[k], cands[k + 1]))
    BY <1>5, <2>1, NotedKnows
  <2>4. QED
    BY <2>1, <2>2, <2>3
<1> HIDE DEF T
<1>6. \A k \in 0 .. l : k \in T
  BY <1>1, <1>4, <1>5, Upwards
<1>7. KnowsLast(cands, l, h[l])
  BY <1>1, <1>6 DEF T
<1>8. QED
  BY <1>7, <1>3 DEF Noting, l

LEMMA LaterStrict ==
  ASSUME NEW c, NEW d, c.file \in Int, c.entry \in Int, d.file \in Int, d.entry \in Int, Later(c, d)
  PROVE  ~Later(d, c) /\ c # d
BY DEF Later

\* What is kept are the last candidates of their names, as far as they are allowed.
KeptLast(files, listed, cands, kept) ==
  /\ \A k \in 1 .. Len(kept) :
       \E x \in 1 .. Len(cands) : /\ kept[k] = cands[x] /\ Allowed(files, listed, cands[x].name.base)
                                  /\ LastPlace(cands, Len(cands), x, x)
  /\ \A x \in 1 .. Len(cands) : Allowed(files, listed, cands[x].name.base) =>
       \E k \in 1 .. Len(kept) : kept[k].name.base = cands[x].name.base
  /\ \A k, m \in 1 .. Len(kept) : k < m => kept[k].name.base # kept[m].name.base

LEMMA KeptFacts ==
  ASSUME NEW files, NEW listed, NEW n \in Nat, NEW cands \in Seq(CandidatesIn(n)), RisingPlaces(cands)
  PROVE  KeptLast(files, listed, cands, Kept(files, listed, cands, LastOf(cands)))
<1> DEFINE C == CandidatesIn(n)
           l == Len(cands)
           last == LastOf(cands)
           B(x) == cands[x].name.base
           at == {k \in DOMAIN cands : last[B(k)] = cands[k] /\ Allowed(files, listed, B(k))}
           kept == Picked(cands, at)
<1>1. Kept(files, listed, cands, last) = kept
  BY Zenon DEF Kept
<1>2. l \in Nat /\ cands \in [1 .. l -> C] /\ DOMAIN cands = 1 .. l
  BY PositionsNat
<1>3. KnowsLast(cands, l, last)
  BY LastKnown
<1>4. PickedFrom(C, cands, at, kept)
  BY PickedSeq, Zenon
<1>5. PICK p : Picks(cands, at, l, kept, p)
  BY <1>4 DEF PickedFrom
<1> HIDE DEF kept, last, l
<1>6. ASSUME NEW x \in 1 .. l, NEW y \in 1 .. l, LastPlace(cands, l, x, y) PROVE LastPlace(cands, l, y, y)
  BY <1>6 DEF LastPlace
<1>7. ASSUME NEW x \in 1 .. l PROVE x \in at <=> Allowed(files, listed, B(x)) /\ LastPlace(cands, l, x, x)
  <2>1. PICK y \in 1 .. l : LastPlace(cands, l, x, y) /\ last[B(x)] = cands[y]
    BY <1>3 DEF KnowsLast
  <2>2. x <= y
    BY <2>1 DEF LastPlace
  <2>3. cands[x] = cands[y] => x = y
    <3>1. ASSUME x < y, cands[x] = cands[y] PROVE FALSE
      <4>1. Later(cands[y], cands[x])
        BY <3>1 DEF RisingPlaces, l
      <4>2. cands[x].file \in Int /\ cands[x].entry \in Int
        <5>1. cands[x] \in C
          BY <1>2
        <5>2. QED
          BY <5>1 DEF CandidatesIn
      <4>3. QED
        BY <3>1, <4>1, <4>2, LaterStrict
    <3>2. QED
      BY <3>1, <2>2, <1>2
  <2>4. LastPlace(cands, l, x, x) => x = y
    <3>1. ASSUME LastPlace(cands, l, x, x) PROVE x = y
      <4>1. y <= x
        BY <3>1, <2>1 DEF LastPlace
      <4>2. QED
        BY <4>1, <2>2, <1>2
    <3>2. QED
      BY <3>1
  <2>5. x \in at <=> last[B(x)] = cands[x] /\ Allowed(files, listed, B(x))
    BY <1>2
  <2>6. last[B(x)] = cands[x] <=> LastPlace(cands, l, x, x)
    BY <2>1, <2>3, <2>4
  <2>7. QED
    BY <2>5, <2>6
<1>8. ASSUME NEW k \in 1 .. Len(kept) PROVE p[k] \in 1 .. l /\ kept[k] = cands[p[k]] /\ p[k] \in at
  BY <1>5 DEF Picks
<1> HIDE DEF at
<1>9. ASSUME NEW k \in 1 .. Len(kept)
      PROVE  \E x \in 1 .. l : /\ kept[k] = cands[x] /\ Allowed(files, listed, cands[x].name.base)
                               /\ LastPlace(cands, l, x, x)
  BY <1>7, <1>8
<1>10. ASSUME NEW x \in 1 .. l, Allowed(files, listed, cands[x].name.base)
       PROVE  \E k \in 1 .. Len(kept) : kept[k].name.base = cands[x].name.base
  <2>1. PICK y \in 1 .. l : LastPlace(cands, l, x, y)
    BY <1>3 DEF KnowsLast
  <2>2. B(y) = B(x)
    BY <2>1 DEF LastPlace
  <2>3. y \in at
    BY <1>6, <1>7, <1>10, <2>1, <2>2
  <2>4. PICK k \in 1 .. Len(kept) : p[k] = y
    BY <2>3, <1>5 DEF Picks
  <2>5. QED
    BY <2>2, <2>4, <1>8
<1>11. ASSUME NEW k \in 1 .. Len(kept), NEW m \in 1 .. Len(kept), k < m PROVE kept[k].name.base # kept[m].name.base
  <2>1. p[k] < p[m] /\ p[k] \in 1 .. l /\ p[m] \in 1 .. l
    BY <1>5, <1>8, <1>11 DEF Picks
  <2>2. LastPlace(cands, l, p[k], p[k])
    BY <1>7, <1>8
  <2>3. ASSUME B(p[m]) = B(p[k]) PROVE FALSE
    <3>1. p[m] <= p[k]
      BY <2>1, <2>2, <2>3 DEF LastPlace
    <3>2. QED
      BY <3>1, <2>1, <1>2
  <2>4. QED
    BY <2>3, <1>8
<1>12. KeptLast(files, listed, cands, kept)
  BY <1>9, <1>10, <1>11, Zenon DEF KeptLast, l
<1>13. QED
  BY <1>1, <1>12 DEF last

\* The images with the PITs behind the others: r gives where each was.
Arranges(q, out, r) ==
  /\ r \in [1 .. Len(out) -> 1 .. Len(q)]
  /\ \A i \in 1 .. Len(out) : out[i] = q[r[i]]
  /\ \A i, j \in 1 .. Len(out) : i # j => r[i] # r[j]
  /\ \A x \in 1 .. Len(q) : \E i \in 1 .. Len(out) : r[i] = x
  /\ \A i, j \in 1 .. Len(out) : i < j => (IsPit(out[i].base) => IsPit(out[j].base))

LEMMA PitsArranged ==
  ASSUME NEW q \in Seq(ImageSpecs)
  PROVE  \E r : Arranges(q, PitLast(q), r)
<1> DEFINE pits == {k \in DOMAIN q : IsPit(q[k].base)}
           rest == DOMAIN q \ pits
           a == Picked(q, rest)
           b == Picked(q, pits)
           out == a \o b
           la == Len(a)
           lb == Len(b)
<1>1. PitLast(q) = out
  BY Zenon DEF PitLast
<1>2. DOMAIN q = 1 .. Len(q) /\ Len(q) \in Nat
  BY PositionsNat
<1>3. ASSUME NEW k \in 1 .. Len(q) PROVE (k \in pits <=> IsPit(q[k].base)) /\ (k \in rest <=> ~IsPit(q[k].base))
  BY <1>2
<1> HIDE DEF pits, rest
<1>4. PickedFrom(ImageSpecs, q, rest, a) /\ PickedFrom(ImageSpecs, q, pits, b)
  BY PickedSeq, Zenon
<1>5. PICK pa : Picks(q, rest, Len(q), a, pa)
  BY <1>4 DEF PickedFrom
<1>6. PICK pb : Picks(q, pits, Len(q), b, pb)
  BY <1>4 DEF PickedFrom
<1>7. a \in Seq(ImageSpecs) /\ b \in Seq(ImageSpecs) /\ la \in Nat /\ lb \in Nat
  BY <1>4 DEF PickedFrom
<1> HIDE DEF a, b
<1>8. Len(out) = la + lb
  BY <1>7
<1> DEFINE r == [i \in 1 .. la + lb |-> IF i \in 1 .. la THEN pa[i] ELSE pb[i - la]]
<1>9. \A i \in 1 .. la + lb : i \in 1 .. la \/ i \in la + 1 .. la + lb
  BY <1>7
<1>10. ASSUME NEW i \in 1 .. la
       PROVE  /\ out[i] = q[r[i]] /\ r[i] = pa[i] /\ r[i] \in 1 .. Len(q) /\ ~IsPit(out[i].base) /\ i \in 1 .. la + lb
  <2>1. i \in 1 .. la + lb /\ out[i] = a[i]
    BY <1>7
  <2>2. r[i] = pa[i]
    BY <2>1
  <2>3. pa[i] \in 1 .. Len(q) /\ pa[i] \in rest /\ a[i] = q[pa[i]]
    BY <1>5 DEF Picks
  <2>4. QED
    BY <2>1, <2>2, <2>3, <1>3
<1>11. ASSUME NEW i \in la + 1 .. la + lb
       PROVE  /\ out[i] = q[r[i]] /\ r[i] = pb[i - la] /\ r[i] \in 1 .. Len(q) /\ IsPit(out[i].base)
              /\ i - la \in 1 .. lb /\ i \in 1 .. la + lb
  <2>1. i \in 1 .. la + lb /\ i \notin 1 .. la /\ i - la \in 1 .. lb
    BY <1>7
  <2>2. out[i] = b[i - la]
    <3>1. la + (i - la) = i
      BY <1>7
    <3>2. QED
      BY <2>1, <3>1, <1>7, <1>8
  <2>3. r[i] = pb[i - la]
    BY <2>1
  <2>4. pb[i - la] \in 1 .. Len(q) /\ pb[i - la] \in pits /\ b[i - la] = q[pb[i - la]]
    BY <2>1, <1>6 DEF Picks
  <2>5. QED
    BY <2>1, <2>2, <2>3, <2>4, <1>3
<1>12. r \in [1 .. la + lb -> 1 .. Len(q)]
  <2>1. \A i \in 1 .. la + lb : r[i] \in 1 .. Len(q)
    BY <1>9, <1>10, <1>11
  <2>2. QED
    BY <2>1
<1> HIDE DEF r, out
<1>13. ASSUME NEW i \in 1 .. la + lb PROVE out[i] = q[r[i]]
  BY <1>9, <1>10, <1>11
<1>14. ASSUME NEW i \in 1 .. la + lb, NEW j \in 1 .. la + lb, i < j PROVE r[i] # r[j] /\ (IsPit(out[i].base) => IsPit(out[j].base))
  <2>1. CASE i \in 1 .. la /\ j \in 1 .. la
    <3>1. pa[i] < pa[j] /\ pa[i] \in 1 .. Len(q) /\ pa[j] \in 1 .. Len(q)
      BY <2>1, <1>14, <1>5 DEF Picks
    <3>2. pa[i] # pa[j]
      BY <3>1, <1>2
    <3>3. QED
      BY <3>2, <2>1, <1>10
  <2>2. CASE i \in 1 .. la /\ j \in la + 1 .. la + lb
    <3>1. q[r[i]] # q[r[j]]
      BY <2>2, <1>10, <1>11
    <3>2. QED
      BY <3>1, <2>2, <1>11
  <2>3. CASE i \in la + 1 .. la + lb
    <3>1. j \in la + 1 .. la + lb
      BY <2>3, <1>14, <1>7
    <3>2. i - la \in 1 .. lb /\ j - la \in 1 .. lb /\ i - la < j - la
      BY <2>3, <3>1, <1>14, <1>7
    <3>3. pb[i - la] < pb[j - la] /\ pb[i - la] \in 1 .. Len(q) /\ pb[j - la] \in 1 .. Len(q)
      BY <3>2, <1>6 DEF Picks
    <3>4. pb[i - la] # pb[j - la]
      BY <3>3, <1>2
    <3>5. QED
      BY <3>4, <2>3, <3>1, <1>11
  <2>4. QED
    BY <2>1, <2>2, <2>3, <1>9
<1>15. ASSUME NEW x \in 1 .. Len(q) PROVE \E i \in 1 .. la + lb : r[i] = x
  <2>1. CASE x \in rest
    <3>1. PICK i \in 1 .. la : pa[i] = x
      BY <2>1, <1>5 DEF Picks
    <3>2. QED
      BY <3>1, <1>10
  <2>2. CASE x \in pits
    <3>1. PICK i \in 1 .. lb : pb[i] = x
      BY <2>2, <1>6 DEF Picks
    <3>2. la + i \in la + 1 .. la + lb /\ (la + i) - la = i
      BY <1>7
    <3>3. r[la + i] = pb[(la + i) - la] /\ la + i \in 1 .. la + lb
      BY <3>2, <1>11
    <3>4. r[la + i] = x
      BY <3>1, <3>2, <3>3
    <3>5. QED
      BY <3>3, <3>4
  <2>3. QED
    BY <2>1, <2>2, <1>3
<1>16. ASSUME NEW i \in 1 .. la + lb, NEW j \in 1 .. la + lb, i # j PROVE r[i] # r[j]
  <2>1. i < j \/ j < i
    BY <1>7, <1>16
  <2>2. QED
    BY <2>1, <1>14
<1>17. Arranges(q, out, r)
  BY <1>8, <1>12, <1>13, <1>14, <1>15, <1>16 DEF Arranges
<1>18. QED
  BY <1>1, <1>17

\* The images that were chosen are the last candidates of their names.
LastImages(files, listed, cands, specs) ==
  /\ \A k \in 1 .. Len(specs) :
       \E x \in 1 .. Len(cands) :
         /\ specs[k].file = cands[x].file /\ specs[k].entry = cands[x].entry /\ specs[k].base = cands[x].name.base
         /\ Allowed(files, listed, cands[x].name.base) /\ LastPlace(cands, Len(cands), x, x)
  /\ \A x \in 1 .. Len(cands) : Allowed(files, listed, cands[x].name.base) =>
       \E k \in 1 .. Len(specs) : specs[k].base = cands[x].name.base
  /\ \A k, m \in 1 .. Len(specs) : k < m => specs[m].base # specs[k].base
  /\ \A k, m \in 1 .. Len(specs) : k < m => (IsPit(specs[k].base) => IsPit(specs[m].base))

LEMMA MakeSpecNames ==
  ASSUME NEW c, NEW file
  PROVE  /\ MakeSpec(c, file).file = c.file /\ MakeSpec(c, file).entry = c.entry
         /\ MakeSpec(c, file).base = c.name.base
BY DEF MakeSpec, ImageSpec

LEMMA ArrangedChosen ==
  ASSUME NEW files \in Seq(InputFiles), NEW listed, NEW cands \in Seq(CandidatesIn(Len(files))),
         NEW kept \in Seq(CandidatesIn(Len(files))), KeptLast(files, listed, cands, kept)
  PROVE  LastImages(files, listed, cands, PitLast(MadeOf(files, kept)))
<1> DEFINE made == MadeOf(files, kept)
           specs == PitLast(made)
<1>1. made \in Seq(ImageSpecs) /\ Len(made) = Len(kept) /\ Len(kept) \in Nat
  BY MadeTyped
<1>2. ASSUME NEW k \in 1 .. Len(kept)
      PROVE  made[k].file = kept[k].file /\ made[k].entry = kept[k].entry /\ made[k].base = kept[k].name.base
  <2>1. made[k] = MakeSpec(kept[k], files[kept[k].file])
    BY MadeTyped
  <2>2. QED
    BY <2>1, MakeSpecNames
<1> HIDE DEF made
<1>3. PICK r : Arranges(made, specs, r)
  BY <1>1, PitsArranged
<1> HIDE DEF specs
<1>4. ASSUME NEW k \in 1 .. Len(specs)
      PROVE  /\ r[k] \in 1 .. Len(kept) /\ specs[k].file = kept[r[k]].file /\ specs[k].entry = kept[r[k]].entry
             /\ specs[k].base = kept[r[k]].name.base
  <2>1. r[k] \in 1 .. Len(made) /\ specs[k] = made[r[k]]
    BY <1>3 DEF Arranges
  <2>2. QED
    BY <2>1, <1>1, <1>2
<1>5. ASSUME NEW k \in 1 .. Len(specs)
      PROVE  \E x \in 1 .. Len(cands) :
               /\ specs[k].file = cands[x].file /\ specs[k].entry = cands[x].entry /\ specs[k].base = cands[x].name.base
               /\ Allowed(files, listed, cands[x].name.base) /\ LastPlace(cands, Len(cands), x, x)
  <2>1. PICK x \in 1 .. Len(cands) : /\ kept[r[k]] = cands[x] /\ Allowed(files, listed, cands[x].name.base)
                                     /\ LastPlace(cands, Len(cands), x, x)
    BY <1>4 DEF KeptLast
  <2>2. QED
    BY <2>1, <1>4
<1>6. ASSUME NEW x \in 1 .. Len(cands), Allowed(files, listed, cands[x].name.base)
      PROVE  \E k \in 1 .. Len(specs) : specs[k].base = cands[x].name.base
  <2>1. PICK j \in 1 .. Len(kept) : kept[j].name.base = cands[x].name.base
    BY <1>6 DEF KeptLast
  <2>2. PICK k \in 1 .. Len(specs) : r[k] = j
    BY <1>1, <1>3 DEF Arranges
  <2>3. QED
    BY <2>1, <2>2, <1>4
<1>7. ASSUME NEW k \in 1 .. Len(specs), NEW m \in 1 .. Len(specs), k < m PROVE specs[m].base # specs[k].base
  <2>1. k # m
    BY <1>7
  <2>2. r[k] # r[m]
    BY <2>1, <1>3 DEF Arranges
  <2>3. r[k] \in 1 .. Len(kept) /\ r[m] \in 1 .. Len(kept)
    BY <1>4
  <2>4. r[k] < r[m] \/ r[m] < r[k]
    BY <2>2, <2>3, <1>1
  <2>5. kept[r[k]].name.base # kept[r[m]].name.base
    BY <2>3, <2>4 DEF KeptLast
  <2>6. QED
    BY <2>5, <1>4
<1>8. \A k, m \in 1 .. Len(specs) : k < m => (IsPit(specs[k].base) => IsPit(specs[m].base))
  BY <1>3 DEF Arranges
<1>9. LastImages(files, listed, cands, specs)
  BY <1>5, <1>6, <1>7, <1>8, Zenon DEF LastImages
<1>10. QED
  BY <1>9 DEF specs, made

LEMMA ExpandChosen ==
  ASSUME NEW files \in Seq(InputFiles), Expand(files).ok
  PROVE  LET tars == Opened(files, TRUE)
         IN  /\ LastImages(files, WithList(files, tars), Candidates(files, tars), Expand(files).specs)
             /\ Expand(files).specs \in Seq(ImageSpecs)
             /\ ArchivesOk(files, tars, WithList(files, tars))
<1> DEFINE tars == Opened(files, TRUE)
           listed == WithList(files, tars)
           cands == Candidates(files, tars)
           kept == Kept(files, listed, cands, LastOf(cands))
           specs == PitLast(MadeOf(files, kept))
           e == Expand(files)
           fits == ArchivesOk(files, tars, listed)
<1>1. TRUE \in BOOLEAN
  OBVIOUS
<1>2. tars \in [1 .. Len(files) -> OpenTars] /\ Len(files) \in Nat
  BY <1>1, OpenedTyped
<1>3. Expand(files) = Specs(files, kept, fits)
  BY Zenon DEF Expand, ExpandOpened, Choose
<1> HIDE DEF tars
<1>4. cands \in Seq(CandidatesIn(Len(files))) /\ RisingPlaces(cands)
  BY <1>2, CandidatesTyped, CandidatesPlaced
<1> HIDE DEF cands, listed
<1>5. kept \in Seq(CandidatesIn(Len(files))) /\ KeptLast(files, listed, cands, kept)
  BY <1>2, <1>4, KeptTyped, KeptFacts
<1> HIDE DEF kept, fits
<1>6. LastImages(files, listed, cands, specs)
  BY <1>4, <1>5, ArrangedChosen
<1>7. \/ e = [ok |-> TRUE, specs |-> specs] /\ fits
      \/ e = [ok |-> FALSE, specs |-> << >>]
  BY <1>3, Zenon DEF Specs, MadeOf
<1>8. specs \in Seq(ImageSpecs)
  BY <1>5, MadeTyped, PitLastTyped
<1> HIDE DEF specs
<1>9. e.ok
  OBVIOUS
<1> HIDE DEF e
<1>10. e.specs = specs /\ fits
  <2>1. CASE e = [ok |-> FALSE, specs |-> << >>]
    <3>1. e.ok = FALSE
      BY <2>1
    <3>2. QED
      BY <3>1, <1>9
  <2>2. CASE e = [ok |-> TRUE, specs |-> specs] /\ fits
    BY <2>2
  <2>3. QED
    BY <1>7, <2>1, <2>2
<1>11. QED
  BY <1>6, <1>8, <1>10 DEF e, fits, listed, cands, tars

LEMMA ChosenSound ==
  ASSUME NEW files, NEW listed, NEW n \in Nat, NEW cands \in Seq(CandidatesIn(n)), RisingPlaces(cands),
         NEW specs \in Seq(ImageSpecs), LastImages(files, listed, cands, specs)
  PROVE  ChoiceSound(files, listed, ToSet(cands), specs)
<1>1. /\ DOMAIN specs = 1 .. Len(specs) /\ Len(specs) \in Nat
      /\ DOMAIN cands = 1 .. Len(cands) /\ Len(cands) \in Nat /\ cands \in [1 .. Len(cands) -> CandidatesIn(n)]
  BY PositionsNat
<1>2. ASSUME NEW c \in ToSet(cands) PROVE \E z \in 1 .. Len(cands) : c = cands[z]
  BY <1>1 DEF ToSet
<1>3. ASSUME NEW x \in 1 .. Len(cands) PROVE cands[x].file \in Int /\ cands[x].entry \in Int
  <2>1. cands[x] \in CandidatesIn(n)
    BY <1>1
  <2>2. QED
    BY <2>1 DEF CandidatesIn
<1>4. ASSUME NEW k \in DOMAIN specs
      PROVE  /\ Allowed(files, listed, specs[k].base)
             /\ ~\E c \in ToSet(cands) : c.name.base = specs[k].base /\ Later(c, specs[k])
  <2>1. PICK x \in 1 .. Len(cands) :
         /\ specs[k].file = cands[x].file /\ specs[k].entry = cands[x].entry /\ specs[k].base = cands[x].name.base
         /\ Allowed(files, listed, cands[x].name.base) /\ LastPlace(cands, Len(cands), x, x)
    BY <1>1 DEF LastImages
  <2>2. ASSUME NEW c \in ToSet(cands), c.name.base = specs[k].base, Later(c, specs[k]) PROVE FALSE
    <3>1. PICK z \in 1 .. Len(cands) : c = cands[z]
      BY <1>2
    <3>2. Later(cands[z], cands[x])
      BY <2>1, <2>2, <3>1 DEF Later
    <3>3. z <= x
      BY <2>1, <2>2, <3>1 DEF LastPlace
    <3>4. ~(z < x)
      <4>1. z < x => Later(cands[x], cands[z])
        BY DEF RisingPlaces
      <4>2. Later(cands[z], cands[x]) => ~Later(cands[x], cands[z])
        BY <1>3, LaterStrict
      <4>3. QED
        BY <3>2, <4>1, <4>2
    <3>5. z = x
      BY <3>3, <3>4, <1>1
    <3>6. QED
      BY <3>2, <3>5, <1>3 DEF Later
  <2>3. QED
    BY <2>1, <2>2
<1>5. ASSUME NEW k \in DOMAIN specs, NEW m \in DOMAIN specs, m > k
      PROVE  specs[m].base # specs[k].base /\ (IsPit(specs[k].base) => IsPit(specs[m].base))
  <2>1. k < m /\ k \in 1 .. Len(specs) /\ m \in 1 .. Len(specs)
    BY <1>1, <1>5
  <2>2. QED
    BY <2>1 DEF LastImages
<1>6. ASSUME NEW c \in ToSet(cands), Allowed(files, listed, c.name.base)
      PROVE  \E k \in DOMAIN specs : specs[k].base = c.name.base
  <2>1. PICK z \in 1 .. Len(cands) : c = cands[z]
    BY <1>2
  <2>2. QED
    BY <1>1, <1>6, <2>1 DEF LastImages
<1>7. QED
  BY <1>4, <1>5, <1>6 DEF ChoiceSound

LEMMA CliChooses ==
  ASSUME NEW files \in Seq(InputFiles)
  PROVE  CliChoosesWell(files, Opened(files, TRUE), Expand(files))
<1> DEFINE tars == Opened(files, TRUE)
           cands == Candidates(files, tars)
           listed == WithList(files, tars)
<1>1. TRUE \in BOOLEAN
  OBVIOUS
<1>2. tars \in [1 .. Len(files) -> OpenTars] /\ Len(files) \in Nat
  BY <1>1, OpenedTyped
<1>3. cands \in Seq(CandidatesIn(Len(files))) /\ RisingPlaces(cands)
  <2> HIDE DEF tars
  <2>1. QED
    BY <1>2, CandidatesTyped, CandidatesPlaced
<1>4. ASSUME Expand(files).ok PROVE ChoiceSound(files, listed, ToSet(cands), Expand(files).specs)
  <2>1. LastImages(files, listed, cands, Expand(files).specs) /\ Expand(files).specs \in Seq(ImageSpecs)
    BY <1>4, ExpandChosen
  <2> HIDE DEF tars, cands, listed
  <2>2. QED
    BY <1>2, <1>3, <2>1, ChosenSound
<1>5. QED
  BY <1>4, Zenon DEF CliChoosesWell

-----------------------------------------------------------------------------
\* The places of the entries that have a name, and those after which none of the same
\* name comes.
BaseAt(tars, p) == tars[p[1]].entries[p[2]].name.base
Spots(files, tars) ==
  {p \in (1 .. Len(files)) \X Nat : p[2] \in 1 .. Len(tars[p[1]].entries) /\ BaseAt(tars, p) # ""}
After(p, q) == p[1] > q[1] \/ (p[1] = q[1] /\ p[2] > q[2])
LastSpots(files, tars) ==
  {p \in Spots(files, tars) : ~\E q \in Spots(files, tars) : BaseAt(tars, q) = BaseAt(tars, p) /\ After(q, p)}

SpotOf(c) == <<c.file, c.entry>>
Covers(files, tars, q) ==
  /\ RisingPlaces(q)
  /\ \A k \in 1 .. Len(q) : SpotOf(q[k]) \in Spots(files, tars)
  /\ \A p \in Spots(files, tars) : \E k \in 1 .. Len(q) : SpotOf(q[k]) = p

LEMMA CoverOrder ==
  ASSUME NEW files, NEW tars, NEW q, Len(q) \in Nat, Covers(files, tars, q),
         NEW k \in 1 .. Len(q), NEW m \in 1 .. Len(q)
  PROVE  After(SpotOf(q[m]), SpotOf(q[k])) <=> k < m
<1> DEFINE a == SpotOf(q[k])
           b == SpotOf(q[m])
<1>1. a[1] \in Int /\ a[2] \in Int /\ b[1] \in Int /\ b[2] \in Int
  <2>1. a \in (1 .. Len(files)) \X Nat /\ b \in (1 .. Len(files)) \X Nat
    BY DEF Covers, Spots
  <2> HIDE DEF a, b
  <2>2. QED
    BY <2>1
<1>2. Later(q[m], q[k]) <=> After(b, a)
  BY DEF Later, After, SpotOf
<1>3. Later(q[k], q[m]) <=> After(a, b)
  BY DEF Later, After, SpotOf
<1>4. k < m => Later(q[m], q[k])
  BY DEF Covers, RisingPlaces
<1>5. m < k => Later(q[k], q[m])
  BY DEF Covers, RisingPlaces
<1>6. k = m => b = a
  OBVIOUS
<1> HIDE DEF a, b
<1>7. ~(After(a, b) /\ After(b, a)) /\ ~After(a, a)
  BY <1>1 DEF After
<1>8. k < m \/ m < k \/ k = m
  OBVIOUS
<1>9. ~(k < m /\ m < k)
  OBVIOUS
<1>10. After(b, a) <=> k < m
  BY <1>2, <1>3, <1>4, <1>5, <1>6, <1>7, <1>8, <1>9
<1>11. QED
  BY <1>10 DEF a, b

\* Where all files are archives without a list, the candidates are the entries with a
\* name.
LEMMA CandidatesCover ==
  ASSUME NEW files \in Seq(InputFiles), NEW tars \in [1 .. Len(files) -> OpenTars],
         Archives(files) = DOMAIN files, WithList(files, tars) = {}
  PROVE  /\ Covers(files, tars, Candidates(files, tars))
         /\ \A k \in 1 .. Len(Candidates(files, tars)) :
              BaseAt(tars, SpotOf(Candidates(files, tars)[k])) = Candidates(files, tars)[k].name.base
<1> DEFINE cands == Candidates(files, tars)
           n == Len(files)
<1>1. RisingPlaces(cands) /\ FromFiles(files, tars, cands)
  BY CandidatesPlaced
<1>2. DOMAIN files = 1 .. n /\ n \in Nat
  BY PositionsNat
<1>3. ASSUME NEW i \in 1 .. n, NEW y \in 1 .. Len(tars[i].entries) PROVE tars[i].entries[y].name # ListName
  <2>1. tars[i].entries \in Seq(TarEntries)
    BY DEF OpenTars
  <2>2. y \in DOMAIN tars[i].entries
    BY <2>1
  <2>3. i \in Archives(files)
    BY <1>2
  <2>4. QED
    BY <2>2, <2>3 DEF WithList
<1>4. ASSUME NEW i \in 1 .. n, NEW y \in 1 .. Len(OfFile(files, tars, i))
      PROVE  /\ y \in 1 .. Len(tars[i].entries) /\ SpotOf(OfFile(files, tars, i)[y]) = <<i, y>>
             /\ OfFile(files, tars, i)[y].name = tars[i].entries[y].name
  <2>1. i \in Archives(files)
    BY <1>2
  <2>2. /\ y \in 1 .. Len(tars[i].entries) /\ OfFile(files, tars, i)[y] = Candidate(i, y, tars[i].entries[y])
        /\ OfFile(files, tars, i)[y].file = i /\ OfFile(files, tars, i)[y].entry = y
    BY <2>1, OfFileAt
  <2>3. Candidate(i, y, tars[i].entries[y]).name = tars[i].entries[y].name
    BY DEF Candidate
  <2>4. QED
    BY <2>2, <2>3 DEF SpotOf
<1>5. ASSUME NEW i \in 1 .. n PROVE Len(OfFile(files, tars, i)) = Len(tars[i].entries)
  <2> DEFINE es == tars[i].entries
  <2>1. es \in Seq(TarEntries)
    BY DEF OpenTars
  <2>2. i \in Archives(files)
    BY <1>2
  <2>3. OfFile(files, tars, i) = [j \in DOMAIN es |-> Candidate(i, j, es[j])]
    BY <2>2, Zenon DEF OfFile, es
  <2> HIDE DEF es
  <2>4. DOMAIN es = 1 .. Len(es) /\ Len(es) \in Nat
    BY <2>1
  <2>5. Len(OfFile(files, tars, i)) = Len(es)
    BY <2>3, <2>4
  <2>6. QED
    BY <2>5 DEF es
<1> HIDE DEF cands
<1>6. ASSUME NEW k \in 1 .. Len(cands)
      PROVE  SpotOf(cands[k]) \in Spots(files, tars) /\ BaseAt(tars, SpotOf(cands[k])) = cands[k].name.base
  <2>1. PICK i \in 1 .. n : \E y \in 1 .. Len(OfFile(files, tars, i)) : cands[k] = OfFile(files, tars, i)[y]
    BY <1>1 DEF FromFiles
  <2>2. PICK y \in 1 .. Len(OfFile(files, tars, i)) : cands[k] = OfFile(files, tars, i)[y]
    BY <2>1
  <2>3. SpotOf(cands[k]) = <<i, y>> /\ cands[k].name = tars[i].entries[y].name /\ y \in 1 .. Len(tars[i].entries)
    BY <2>2, <1>4
  <2>4. cands[k].name.base # ""
    BY <1>1 DEF FromFiles, Wanted
  <2>5. BaseAt(tars, <<i, y>>) = cands[k].name.base
    BY <2>3 DEF BaseAt
  <2>6. <<i, y>> \in (1 .. n) \X Nat
    BY <2>3
  <2>7. <<i, y>> \in Spots(files, tars)
    BY <2>3, <2>4, <2>5, <2>6 DEF Spots
  <2>8. QED
    BY <2>3, <2>5, <2>7
<1>7. ASSUME NEW p \in Spots(files, tars) PROVE \E k \in 1 .. Len(cands) : SpotOf(cands[k]) = p
  <2> DEFINE i == p[1]
             y == p[2]
  <2>1. i \in 1 .. n /\ y \in 1 .. Len(tars[i].entries) /\ p = <<i, y>> /\ tars[i].entries[y].name.base # ""
    <3>1. p \in (1 .. n) \X Nat
      BY DEF Spots
    <3>2. i \in 1 .. n /\ p = <<i, y>>
      BY <3>1
    <3>3. y \in 1 .. Len(tars[i].entries) /\ tars[i].entries[y].name.base # ""
      BY DEF Spots, BaseAt
    <3>4. QED
      BY <3>2, <3>3
  <2> HIDE DEF i, y
  <2>2. y \in 1 .. Len(OfFile(files, tars, i))
    BY <2>1, <1>5
  <2>3. Wanted(OfFile(files, tars, i)[y])
    BY <2>1, <2>2, <1>3, <1>4 DEF Wanted
  <2>4. PICK k \in 1 .. Len(cands) : cands[k] = OfFile(files, tars, i)[y]
    BY <2>1, <2>2, <2>3, <1>1 DEF FromFiles
  <2>5. QED
    BY <2>1, <2>2, <2>4, <1>4
<1>8. Covers(files, tars, cands)
  BY <1>1, <1>6, <1>7 DEF Covers
<1>9. QED
  BY <1>6, <1>8 DEF cands

LEMMA CliFinally ==
  ASSUME NEW files \in Seq(InputFiles), NEW tars \in [1 .. Len(files) -> OpenTars],
         NEW cands \in Seq(CandidatesIn(Len(files))), Covers(files, tars, cands),
         \A k \in 1 .. Len(cands) : BaseAt(tars, SpotOf(cands[k])) = cands[k].name.base,
         NEW specs \in Seq(ImageSpecs), LastImages(files, {}, cands, specs)
  PROVE  Finally(specs) = LastSpots(files, tars)
<1> DEFINE S == Spots(files, tars)
           free == {k \in DOMAIN specs : ~\E m \in DOMAIN specs : m > k /\ specs[m].base = specs[k].base}
<1>1. DOMAIN specs = 1 .. Len(specs) /\ Len(specs) \in Nat /\ Len(cands) \in Nat
  BY PositionsNat
<1>2. ASSUME NEW k \in 1 .. Len(specs) PROVE k \in free
  <2>1. ASSUME NEW m \in 1 .. Len(specs), m > k PROVE specs[m].base # specs[k].base
    <3>1. k < m
      BY <2>1, <1>1
    <3>2. QED
      BY <3>1 DEF LastImages
  <2>2. QED
    BY <1>1, <2>1
<1>3. ASSUME NEW base PROVE Allowed(files, {}, base)
  BY DEF Allowed
<1>4. ASSUME NEW x \in 1 .. Len(cands), LastPlace(cands, Len(cands), x, x)
      PROVE  SpotOf(cands[x]) \in LastSpots(files, tars)
  <2>1. SpotOf(cands[x]) \in S
    BY DEF Covers
  <2>2. ASSUME NEW q \in S, BaseAt(tars, q) = BaseAt(tars, SpotOf(cands[x])), After(q, SpotOf(cands[x])) PROVE FALSE
    <3>1. PICK z \in 1 .. Len(cands) : SpotOf(cands[z]) = q
      BY DEF Covers
    <3>2. cands[z].name.base = cands[x].name.base
      BY <2>2, <3>1
    <3>3. z <= x
      BY <3>2, <1>4 DEF LastPlace
    <3>4. x < z
      BY <2>2, <3>1, <1>1, CoverOrder
    <3>5. QED
      BY <3>3, <3>4, <1>1
  <2>3. QED
    BY <2>1, <2>2 DEF LastSpots
<1>5. ASSUME NEW x \in 1 .. Len(cands), SpotOf(cands[x]) \in LastSpots(files, tars)
      PROVE  LastPlace(cands, Len(cands), x, x)
  <2>1. ASSUME NEW z \in 1 .. Len(cands), cands[z].name.base = cands[x].name.base, ~(z <= x) PROVE FALSE
    <3>1. x < z
      BY <2>1, <1>1
    <3>2. After(SpotOf(cands[z]), SpotOf(cands[x]))
      BY <3>1, <1>1, CoverOrder
    <3>3. BaseAt(tars, SpotOf(cands[z])) = BaseAt(tars, SpotOf(cands[x])) /\ SpotOf(cands[z]) \in S
      BY <2>1 DEF Covers
    <3>4. QED
      BY <1>5, <3>2, <3>3 DEF LastSpots
  <2>2. QED
    BY <2>1 DEF LastPlace
<1>6. ASSUME NEW k \in free PROVE <<specs[k].file, specs[k].entry>> \in LastSpots(files, tars)
  <2>1. k \in 1 .. Len(specs)
    BY <1>1
  <2>2. PICK x \in 1 .. Len(cands) :
          /\ specs[k].file = cands[x].file /\ specs[k].entry = cands[x].entry
          /\ LastPlace(cands, Len(cands), x, x)
    BY <2>1 DEF LastImages
  <2>3. <<specs[k].file, specs[k].entry>> = SpotOf(cands[x])
    BY <2>2 DEF SpotOf
  <2>4. QED
    BY <2>2, <2>3, <1>4
<1>7. ASSUME NEW p \in LastSpots(files, tars) PROVE \E k \in free : p = <<specs[k].file, specs[k].entry>>
  <2>1. p \in S
    BY DEF LastSpots
  <2>2. PICK x \in 1 .. Len(cands) : SpotOf(cands[x]) = p
    BY <2>1 DEF Covers
  <2>3. LastPlace(cands, Len(cands), x, x)
    BY <2>2, <1>5
  <2>4. PICK k \in 1 .. Len(specs) : specs[k].base = cands[x].name.base
    BY <1>3 DEF LastImages
  <2>5. PICK u \in 1 .. Len(cands) :
          /\ specs[k].file = cands[u].file /\ specs[k].entry = cands[u].entry /\ specs[k].base = cands[u].name.base
          /\ LastPlace(cands, Len(cands), u, u)
    BY DEF LastImages
  <2>6. u = x
    <3>1. u <= x /\ x <= u
      BY <2>3, <2>4, <2>5 DEF LastPlace
    <3>2. QED
      BY <3>1, <1>1
  <2>7. <<specs[k].file, specs[k].entry>> = p
    BY <2>2, <2>5, <2>6 DEF SpotOf
  <2>8. QED
    BY <2>7, <1>2
<1>8. Finally(specs) = {<<specs[k].file, specs[k].entry>> : k \in free}
  BY Zenon DEF Finally
<1> HIDE DEF free
<1>9. QED
  BY <1>6, <1>7, <1>8

LEMMA AppFileAt ==
  ASSUME NEW files \in Seq(InputFiles), NEW tars \in [1 .. Len(files) -> OpenTars], NEW i \in 1 .. Len(files)
  PROVE  /\ Len(AppFile(files, tars, i)) = Len(tars[i].entries)
         /\ \A y \in 1 .. Len(tars[i].entries) :
              /\ SpotOf(AppFile(files, tars, i)[y]) = <<i, y>>
              /\ AppFile(files, tars, i)[y].file = i /\ AppFile(files, tars, i)[y].entry = y
              /\ AppFile(files, tars, i)[y].base = tars[i].entries[y].name.base
              /\ AppFile(files, tars, i)[y].size = tars[i].entries[y].size
<1> DEFINE es == tars[i].entries
           f == files[i]
<1>1. es \in Seq(TarEntries)
  BY DEF OpenTars
<1>2. AppFile(files, tars, i) = [j \in DOMAIN es |-> ImageSpec(i, j, es[j].name, es[j].size, f)]
  BY Zenon DEF AppFile, es, f
<1> HIDE DEF es, f
<1>3. DOMAIN es = 1 .. Len(es) /\ Len(es) \in Nat
  BY <1>1
<1>4. Len(AppFile(files, tars, i)) = Len(es)
  BY <1>2, <1>3
<1>5. ASSUME NEW y \in 1 .. Len(es)
      PROVE  /\ AppFile(files, tars, i)[y].file = i /\ AppFile(files, tars, i)[y].entry = y
             /\ AppFile(files, tars, i)[y].base = es[y].name.base
             /\ AppFile(files, tars, i)[y].size = es[y].size
  <2>1. AppFile(files, tars, i)[y] = ImageSpec(i, y, es[y].name, es[y].size, f)
    BY <1>2, <1>3
  <2>2. QED
    BY <2>1 DEF ImageSpec
<1>6. QED
  BY <1>4, <1>5 DEF es, SpotOf

\* The images of the app: all entries with a name, where none of them is empty or called
\* as a list.
PlainEntry(it) == it.name.base # "" => it.size > 0 /\ it.name.base # "download-list.txt"
PlainEntries(files, tars) ==
  \A i \in 1 .. Len(files) : \A y \in 1 .. Len(tars[i].entries) : PlainEntry(tars[i].entries[y])
AppFits(files, tars) == AppSpecs(files, tars).ok

LEMMA AppCovers ==
  ASSUME NEW files \in Seq(InputFiles), NEW tars \in [1 .. Len(files) -> OpenTars],
         PlainEntries(files, tars), AppFits(files, tars)
  PROVE  /\ Covers(files, tars, AppSpecs(files, tars).specs)
         /\ \A k \in 1 .. Len(AppSpecs(files, tars).specs) :
              BaseAt(tars, SpotOf(AppSpecs(files, tars).specs[k])) = AppSpecs(files, tars).specs[k].base
<1> DEFINE ss == AppFiles(files, tars)
           all == FlattenSeq(ss)
           at == {k \in DOMAIN all : all[k].base \notin {"", "download-list.txt"} /\ all[k].size > 0}
           specs == Picked(all, at)
           n == Len(files)
           e == AppSpecs(files, tars)
<1>1. n \in Nat /\ DOMAIN files = 1 .. n
  BY PositionsNat
<1>2. ss \in [1 .. n -> Seq(ImageSpecs)]
  BY AppFilesTyped
<1>3. all \in Seq(ImageSpecs) /\ \E w : Lays(ss, n, all, w)
  BY <1>1, <1>2, FlatFacts, Zenon
<1>4. \A i \in 1 .. n : ss[i] = AppFile(files, tars, i)
  BY <1>1 DEF AppFiles
<1>5. e = [ok |-> TRUE, specs |-> specs] \/ e = [ok |-> FALSE, specs |-> << >>]
  BY Zenon DEF AppSpecs, AppFiles, AppFile
<1> HIDE DEF all, ss
<1>6. PICK w : Lays(ss, n, all, w)
  BY <1>3
<1>7. ASSUME NEW k \in 1 .. Len(all)
      PROVE  /\ w[k] \in (1 .. n) \X Nat /\ w[k][1] \in 1 .. n /\ w[k][2] \in 1 .. Len(tars[w[k][1]].entries)
             /\ SpotOf(all[k]) = w[k] /\ all[k].base = BaseAt(tars, w[k])
             /\ all[k].file = w[k][1] /\ all[k].entry = w[k][2]
             /\ all[k].size = tars[w[k][1]].entries[w[k][2]].size
  <2>1. w[k] \in (1 .. n) \X Nat /\ w[k][2] \in 1 .. Len(ss[w[k][1]]) /\ all[k] = ss[w[k][1]][w[k][2]]
    BY <1>6 DEF Lays
  <2> DEFINE i == w[k][1]
             y == w[k][2]
  <2>2. i \in 1 .. n /\ w[k] = <<i, y>>
    BY <2>1
  <2>3. y \in 1 .. Len(ss[i]) /\ all[k] = ss[i][y]
    BY <2>1
  <2>4. BaseAt(tars, w[k]) = tars[i].entries[y].name.base
    BY DEF BaseAt
  <2> HIDE DEF i, y
  <2>5. y \in 1 .. Len(tars[i].entries) /\ all[k] = AppFile(files, tars, i)[y]
    BY <2>2, <2>3, <1>4, AppFileAt
  <2>6. SpotOf(all[k]) = <<i, y>> /\ all[k].base = tars[i].entries[y].name.base
        /\ all[k].file = i /\ all[k].entry = y /\ all[k].size = tars[i].entries[y].size
    BY <2>2, <2>5, AppFileAt
  <2>7. QED
    BY <2>1, <2>2, <2>4, <2>5, <2>6 DEF i, y
<1>8. RisingPlaces(all)
  <2>1. ASSUME NEW k \in 1 .. Len(all), NEW m \in 1 .. Len(all), k < m PROVE Later(all[m], all[k])
    <3>1. w[k][1] < w[m][1] \/ (w[k][1] = w[m][1] /\ w[k][2] < w[m][2])
      BY <1>6, <2>1 DEF Lays
    <3>2. w[k] \in (1 .. n) \X Nat /\ w[m] \in (1 .. n) \X Nat
      BY <1>7
    <3>3. w[k][1] \in Nat /\ w[k][2] \in Nat /\ w[m][1] \in Nat /\ w[m][2] \in Nat
      BY <3>2
    <3>4. QED
      BY <3>1, <3>3, <1>7 DEF Later
  <2>2. QED
    BY <2>1 DEF RisingPlaces
<1>9. DOMAIN all = 1 .. Len(all) /\ Len(all) \in Nat
  BY <1>3
<1>10. ASSUME NEW k \in 1 .. Len(all) PROVE k \in at <=> all[k].base # ""
  <2>1. k \in at <=> all[k].base \notin {"", "download-list.txt"} /\ all[k].size > 0
    BY <1>9
  <2> HIDE DEF at
  <2> DEFINE i == w[k][1]
             y == w[k][2]
  <2>2. i \in 1 .. n /\ y \in 1 .. Len(tars[i].entries) /\ all[k].base = tars[i].entries[y].name.base
        /\ all[k].size = tars[i].entries[y].size
    BY <1>7 DEF BaseAt
  <2> HIDE DEF i, y
  <2>3. PlainEntry(tars[i].entries[y])
    BY <2>2 DEF PlainEntries
  <2> DEFINE it == tars[i].entries[y]
  <2> HIDE DEF it
  <2>4. all[k].base = it.name.base /\ all[k].size = it.size /\ PlainEntry(it)
    BY <2>2, <2>3 DEF it
  <2>5. QED
    BY <2>1, <2>4 DEF PlainEntry
<1> HIDE DEF at
<1>11. PickedFrom(ImageSpecs, all, at, specs)
  BY <1>3, PickedSeq, Zenon
<1>12. RisingPlaces(specs)
  BY <1>3, <1>8, PickedInOrder, Zenon
<1> HIDE DEF specs
<1>13. ASSUME NEW k \in 1 .. Len(specs)
       PROVE  SpotOf(specs[k]) \in Spots(files, tars) /\ BaseAt(tars, SpotOf(specs[k])) = specs[k].base
  <2>1. PICK m \in 1 .. Len(all) : m \in at /\ specs[k] = all[m]
    BY <1>11 DEF PickedFrom
  <2>2. all[m].base # ""
    BY <2>1, <1>10
  <2>3. w[m] \in Spots(files, tars)
    BY <1>7, <2>2 DEF Spots
  <2>4. QED
    BY <2>1, <2>3, <1>7
<1>14. ASSUME NEW p \in Spots(files, tars) PROVE \E k \in 1 .. Len(specs) : SpotOf(specs[k]) = p
  <2> DEFINE i == p[1]
             y == p[2]
  <2>1. i \in 1 .. n /\ y \in 1 .. Len(tars[i].entries) /\ p = <<i, y>> /\ BaseAt(tars, p) # ""
    <3>1. p \in (1 .. n) \X Nat
      BY DEF Spots
    <3>2. i \in 1 .. n /\ p = <<i, y>>
      BY <3>1
    <3>3. y \in 1 .. Len(tars[i].entries) /\ BaseAt(tars, p) # ""
      BY DEF Spots
    <3>4. QED
      BY <3>2, <3>3
  <2> HIDE DEF i, y
  <2>2. y \in 1 .. Len(ss[i])
    <3>1. i \in 1 .. Len(files) /\ y \in 1 .. Len(tars[i].entries)
      BY <2>1
    <3>2. Len(AppFile(files, tars, i)) = Len(tars[i].entries)
      BY <3>1, AppFileAt
    <3>3. ss[i] = AppFile(files, tars, i)
      BY <3>1, <1>4
    <3>4. QED
      BY <3>1, <3>2, <3>3, Zenon
  <2>3. PICK m \in 1 .. Len(all) : w[m] = <<i, y>>
    BY <2>1, <2>2, <1>6 DEF Lays
  <2>4. SpotOf(all[m]) = p /\ all[m].base # ""
    BY <2>1, <2>3, <1>7
  <2>5. PICK k \in 1 .. Len(specs) : specs[k] = all[m]
    BY <2>4, <1>10, <1>11 DEF PickedFrom
  <2>6. QED
    BY <2>4, <2>5
<1>15. e.specs = specs
  <2>1. e.ok
    BY DEF AppFits
  <2> HIDE DEF e
  <2>2. CASE e = [ok |-> FALSE, specs |-> << >>]
    <3>1. e.ok = FALSE
      BY <2>2
    <3>2. QED
      BY <3>1, <2>1
  <2>3. CASE e = [ok |-> TRUE, specs |-> specs]
    BY <2>3
  <2>4. QED
    BY <1>5, <2>2, <2>3
<1>16. Covers(files, tars, specs)
  BY <1>12, <1>13, <1>14 DEF Covers
<1>17. QED
  BY <1>13, <1>15, <1>16 DEF e

LEMMA AppFinally ==
  ASSUME NEW files, NEW tars, NEW specs \in Seq(ImageSpecs), Covers(files, tars, specs),
         \A k \in 1 .. Len(specs) : BaseAt(tars, SpotOf(specs[k])) = specs[k].base
  PROVE  Finally(specs) = LastSpots(files, tars)
<1> DEFINE S == Spots(files, tars)
           free == {k \in DOMAIN specs : ~\E m \in DOMAIN specs : m > k /\ specs[m].base = specs[k].base}
<1>1. DOMAIN specs = 1 .. Len(specs) /\ Len(specs) \in Nat
  BY PositionsNat
<1>2. ASSUME NEW k \in 1 .. Len(specs) PROVE SpotOf(specs[k]) = <<specs[k].file, specs[k].entry>> /\ SpotOf(specs[k]) \in S
  BY DEF SpotOf, Covers
<1>3. ASSUME NEW k \in free PROVE <<specs[k].file, specs[k].entry>> \in LastSpots(files, tars)
  <2>1. k \in 1 .. Len(specs) /\ SpotOf(specs[k]) \in S
    BY <1>1, <1>2
  <2>2. ASSUME NEW q \in S, BaseAt(tars, q) = BaseAt(tars, SpotOf(specs[k])), After(q, SpotOf(specs[k])) PROVE FALSE
    <3>1. PICK m \in 1 .. Len(specs) : SpotOf(specs[m]) = q
      BY DEF Covers
    <3>2. specs[m].base = specs[k].base
      BY <2>1, <2>2, <3>1
    <3>3. k < m
      BY <1>1, <2>1, <2>2, <3>1, CoverOrder
    <3>4. m > k
      BY <1>1, <2>1, <3>3
    <3>5. QED
      BY <3>2, <3>4, <1>1
  <2>3. SpotOf(specs[k]) \in LastSpots(files, tars)
    BY <2>1, <2>2 DEF LastSpots
  <2>4. QED
    BY <2>1, <2>3, <1>2
<1>4. ASSUME NEW p \in LastSpots(files, tars) PROVE \E k \in free : p = <<specs[k].file, specs[k].entry>>
  <2>1. p \in S
    BY DEF LastSpots
  <2>2. PICK k \in 1 .. Len(specs) : SpotOf(specs[k]) = p
    BY <2>1 DEF Covers
  <2>3. ASSUME NEW m \in 1 .. Len(specs), m > k, specs[m].base = specs[k].base PROVE FALSE
    <3>1. After(SpotOf(specs[m]), SpotOf(specs[k]))
      <4>1. k < m
        BY <1>1, <2>3
      <4>2. QED
        BY <4>1, <1>1, CoverOrder
    <3>2. SpotOf(specs[m]) \in S /\ BaseAt(tars, SpotOf(specs[m])) = BaseAt(tars, p)
      BY <1>2, <2>2, <2>3
    <3>3. QED
      BY <2>2, <3>1, <3>2 DEF LastSpots
  <2>4. k \in free
    BY <1>1, <2>3
  <2>5. QED
    BY <2>2, <2>4, <1>2
<1>5. Finally(specs) = {<<specs[k].file, specs[k].entry>> : k \in free}
  BY Zenon DEF Finally
<1> HIDE DEF free
<1>6. QED
  BY <1>3, <1>4, <1>5

LEMMA AppChooses ==
  ASSUME NEW files \in Seq(InputFiles)
  PROVE  SameInTheApp(files, Opened(files, TRUE), Expand(files), AppExpand(files))
<1> DEFINE tars == Opened(files, TRUE)
           cands == Candidates(files, tars)
           n == Len(files)
<1>1. SUFFICES ASSUME Alike(files, tars, Expand(files), AppExpand(files))
               PROVE  Finally(Expand(files).specs) = Finally(AppExpand(files).specs)
  BY Zenon DEF SameInTheApp
<1>2. TRUE \in BOOLEAN /\ FALSE \in BOOLEAN
  OBVIOUS
<1>3. /\ tars \in [1 .. n -> OpenTars] /\ n \in Nat /\ files \in [1 .. n -> InputFiles] /\ DOMAIN files = 1 .. n
  BY <1>2, OpenedTyped
<1>4. Expand(files).ok /\ AppExpand(files).ok /\ Archives(files) = DOMAIN files /\ WithList(files, tars) = {}
      /\ \A c \in ToSet(cands) : c.size > 0 /\ c.name.base # "download-list.txt"
  BY <1>1, Zenon DEF Alike, ListName
<1>5. /\ LastImages(files, WithList(files, tars), cands, Expand(files).specs) /\ Expand(files).specs \in Seq(ImageSpecs)
      /\ ArchivesOk(files, tars, WithList(files, tars))
  BY <1>4, ExpandChosen
<1>6. ASSUME NEW i \in 1 .. n PROVE TarOpen(files[i].blocks, FALSE) = tars[i]
  <2> DEFINE f == files[i]
             b == f.blocks
  <2>1. tars[i] = TarOpen(b, TRUE)
    BY <1>3 DEF Opened
  <2>2. tars[i].ok
    <3>1. i \in Archives(files)
      BY <1>3, <1>4
    <3>2. QED
      BY <3>1, <1>5 DEF ArchivesOk
  <2>3. f \in InputFiles
    BY <1>3
  <2> HIDE DEF f
  <2>4. b \in Seq(TarBlocks)
    BY <2>3 DEF InputFiles
  <2> HIDE DEF b, tars
  <2>5. TarOpen(b, FALSE) = TarOpen(b, TRUE)
    BY <2>1, <2>2, <2>4, TarOpenSame
  <2>6. QED
    BY <2>1, <2>5 DEF b, f
<1>7. Opened(files, FALSE) = tars
  <2>1. Opened(files, FALSE) = [i \in 1 .. n |-> TarOpen(files[i].blocks, FALSE)]
    BY <1>3 DEF Opened
  <2> HIDE DEF tars
  <2>2. QED
    BY <2>1, <1>3, <1>6
<1>8. AppExpand(files) = AppSpecs(files, tars)
  BY <1>7, Zenon DEF AppExpand
<1>9. AppExpand(files).specs \in Seq(ImageSpecs)
  <2> DEFINE e == AppExpand(files)
  <2>1. e \in ImageChoices
    BY AppExpandTyped
  <2> HIDE DEF e
  <2>2. e.specs \in Seq(ImageSpecs)
    BY <2>1 DEF ImageChoices
  <2>3. QED
    BY <2>2 DEF e
<1> HIDE DEF tars
<1>10. cands \in Seq(CandidatesIn(n)) /\ FromFiles(files, tars, cands)
  BY <1>3, CandidatesTyped, CandidatesPlaced
<1>11. /\ Covers(files, tars, cands)
       /\ \A k \in 1 .. Len(cands) : BaseAt(tars, SpotOf(cands[k])) = cands[k].name.base
  BY <1>3, <1>4, CandidatesCover
<1>12. ASSUME NEW i \in 1 .. n, NEW y \in 1 .. Len(tars[i].entries), tars[i].entries[y].name.base # ""
       PROVE  PlainEntry(tars[i].entries[y])
  <2>1. <<i, y>> \in Spots(files, tars)
    <3>1. <<i, y>> \in (1 .. n) \X Nat
      OBVIOUS
    <3>2. BaseAt(tars, <<i, y>>) = tars[i].entries[y].name.base
      BY DEF BaseAt
    <3>3. QED
      BY <3>1, <3>2, <1>12 DEF Spots
  <2>2. PICK k \in 1 .. Len(cands) : SpotOf(cands[k]) = <<i, y>>
    BY <2>1, <1>11 DEF Covers
  <2>3. PICK x \in 1 .. n : \E v \in 1 .. Len(OfFile(files, tars, x)) : cands[k] = OfFile(files, tars, x)[v]
    BY <1>10 DEF FromFiles
  <2>4. PICK v \in 1 .. Len(OfFile(files, tars, x)) : cands[k] = OfFile(files, tars, x)[v]
    BY <2>3
  <2>5. x \in Archives(files)
    BY <1>3, <1>4
  <2>6. /\ cands[k].file = x /\ cands[k].entry = v /\ cands[k] = Candidate(x, v, tars[x].entries[v])
    BY <1>3, <2>4, <2>5, OfFileAt
  <2>7. x = i /\ v = y
    BY <2>2, <2>6 DEF SpotOf
  <2>8. cands[k].size = tars[i].entries[y].size /\ cands[k].name = tars[i].entries[y].name
    BY <2>6, <2>7 DEF Candidate
  <2>9. cands[k] \in ToSet(cands)
    BY <1>10 DEF ToSet
  <2>10. cands[k].size > 0 /\ cands[k].name.base # "download-list.txt"
    BY <2>9, <1>4
  <2>11. QED
    BY <2>8, <2>10 DEF PlainEntry
<1> HIDE DEF cands
<1>13. Finally(Expand(files).specs) = LastSpots(files, tars)
  BY <1>3, <1>4, <1>5, <1>10, <1>11, CliFinally
<1>14. AppFits(files, tars) /\ PlainEntries(files, tars)
  <2>1. AppFits(files, tars)
    BY <1>4, <1>8 DEF AppFits
  <2>2. ASSUME NEW i \in 1 .. n, NEW y \in 1 .. Len(tars[i].entries) PROVE PlainEntry(tars[i].entries[y])
    <3>1. CASE tars[i].entries[y].name.base # ""
      BY <3>1, <1>12
    <3>2. CASE tars[i].entries[y].name.base = ""
      BY <3>2 DEF PlainEntry
    <3>3. QED
      BY <3>1, <3>2
  <2>3. QED
    BY <2>1, <2>2 DEF PlainEntries
<1>15. /\ Covers(files, tars, AppSpecs(files, tars).specs)
       /\ \A k \in 1 .. Len(AppSpecs(files, tars).specs) :
              BaseAt(tars, SpotOf(AppSpecs(files, tars).specs[k])) = AppSpecs(files, tars).specs[k].base
  BY <1>3, <1>14, AppCovers
<1> DEFINE specs == AppExpand(files).specs
<1>16. specs \in Seq(ImageSpecs) /\ Covers(files, tars, specs) /\ \A k \in 1 .. Len(specs) : BaseAt(tars, SpotOf(specs[k])) = specs[k].base
  BY <1>8, <1>9, <1>15
<1> HIDE DEF specs
<1>17. Finally(specs) = LastSpots(files, tars)
  BY <1>16, AppFinally
<1>18. QED
  BY <1>13, <1>17 DEF specs

\* What the command line flashes is the last image of each name that the lists allow,
\* each once, with tables of partitions after all others (flash.cpp), and the app ends
\* with the same images where its rules are the same (native-lib.cpp), whatever the files
\* are.
THEOREM ImagesWellChosen == Spec => []ImagesChosen
<1>1. Init => FilesTyped
  BY FilesStart
<1>2. FilesTyped => ImagesChosen
  BY FilesOf, CliChooses, AppChooses, Zenon DEF ImagesChosen
<1>3. QED
  BY <1>1, <1>2, FilesKept, PTL DEF Spec

-----------------------------------------------------------------------------
(***************************************************************************)
(* Archives (TarScan): what an archiver wrote is read back.  The scan is   *)
(* followed block by block: At says what it has read, Stands that a header *)
(* is due, Walked that it has come to where a member ends and has the      *)
(* files and links of the members before.                                  *)
(***************************************************************************)
\* What an archiver writes for a member: its headers, then its data.
KindOf(m) == IF m.to = NoName THEN "0" ELSE "1"
PaxOf(m) ==
  <<[key |-> "mtime", path |-> NoName, size |-> NoSize],
    [key |-> "path", path |-> m.name, size |-> NoSize],
    [key |-> "size", path |-> NoName, size |-> m.size]>>
HeadOf(m) ==
  IF m.how = "plain" THEN <<Header(KindOf(m), TRUE, m.name, m.size, m.to)>>
  ELSE IF m.how = "pax"
       THEN <<Header("x", TRUE, Short, Block, NoName), Payload(NoName, PaxOf(m)), Header(KindOf(m), TRUE, Short, 0, m.to)>>
       ELSE <<Header("L", TRUE, Short, Block, NoName), Payload(m.name, << >>), Header(KindOf(m), TRUE, Short, m.size, m.to)>>
DataRun(m) == [i \in 1 .. BlocksOf(m.size) |-> DataOf(m.name)]
HeadLen(m) == IF m.how = "plain" THEN 1 ELSE 3
Extent(m) == HeadLen(m) + BlocksOf(m.size)

LEMMA MemberFields ==
  ASSUME NEW m \in TarMembers
  PROVE  /\ m.name \in Names /\ m.name # NoName /\ m.size \in Nat /\ m.to \in Names
         /\ m.how = "plain" \/ m.how = "pax" \/ m.how = "long"
         /\ BlocksOf(m.size) \in Nat /\ HeadLen(m) \in {1, 3} /\ Extent(m) \in Nat
<1>1. /\ m.name \in Names /\ m.name # NoName /\ m.size \in Nat /\ m.to \in Names
      /\ m.how = "plain" \/ m.how = "pax" \/ m.how = "long"
  BY DEF TarMembers
<1>2. BlocksOf(m.size) \in Nat
  BY <1>1, BlocksNat
<1>3. QED
  BY <1>1, <1>2 DEF HeadLen, Extent

LEMMA WrittenParts ==
  ASSUME NEW m \in TarMembers
  PROVE  Written(m) = HeadOf(m) \o DataRun(m)
<1>1. m.how = "plain" \/ m.how = "pax" \/ m.how = "long"
  BY MemberFields
<1>2. CASE m.how = "plain"
  BY <1>2 DEF Written, HeadOf, DataRun, KindOf
<1>3. CASE m.how = "pax"
  BY <1>3 DEF Written, HeadOf, DataRun, KindOf, PaxOf
<1>4. CASE m.how = "long"
  BY <1>4 DEF Written, HeadOf, DataRun, KindOf
<1>5. QED
  BY <1>1, <1>2, <1>3, <1>4

LEMMA BlockTyped ==
  ASSUME NEW kind \in Kinds, NEW type \in Text, NEW sound \in BOOLEAN, NEW nm \in Names, NEW sz \in Int,
         NEW to \in Names, NEW recs \in Seq(PaxRecords)
  PROVE  ABlock(kind, type, sound, nm, sz, to, recs) \in TarBlocks
BY DEF ABlock, TarBlocks

LEMMA BlocksTyped ==
  ASSUME NEW nm \in Names, NEW sz \in Int, NEW to \in Names, NEW type \in Text, NEW recs \in Seq(PaxRecords)
  PROVE  /\ Header(type, TRUE, nm, sz, to) \in TarBlocks
         /\ Payload(nm, recs) \in TarBlocks /\ DataOf(nm) \in TarBlocks /\ Zeros \in TarBlocks
<1>7. << >> \in Seq(PaxRecords) /\ 0 \in Int /\ TRUE \in BOOLEAN /\ FALSE \in BOOLEAN
  OBVIOUS
<1>8. "" \in Text /\ NoName \in Names
  BY NoNameTyped DEF Text
<1>1. /\ << >> \in Seq(PaxRecords) /\ "" \in Text /\ NoName \in Names /\ TRUE \in BOOLEAN /\ FALSE \in BOOLEAN
      /\ 0 \in Int
  BY <1>7, <1>8
<1>2. "header" \in Kinds /\ "payload" \in Kinds /\ "data" \in Kinds /\ "zeros" \in Kinds
  BY DEF Kinds
<1>3. Header(type, TRUE, nm, sz, to) \in TarBlocks
  BY <1>1, <1>2, BlockTyped, Zenon DEF Header
<1>4. Payload(nm, recs) \in TarBlocks
  BY <1>1, <1>2, BlockTyped, Zenon DEF Payload
<1>5. DataOf(nm) \in TarBlocks /\ Zeros \in TarBlocks
  BY <1>1, <1>2, BlockTyped, Zenon DEF DataOf, Zeros
<1>6. QED
  BY <1>3, <1>4, <1>5

LEMMA ShortTyped ==
  /\ Short \in Names /\ "g" \in Text /\ "x" \in Text /\ "L" \in Text /\ "0" \in Text /\ "1" \in Text
  /\ \A m \in TarMembers : PaxOf(m) \in Seq(PaxRecords) /\ KindOf(m) \in {"0", "1"}
  /\ <<[key |-> "comment", path |-> NoName, size |-> NoSize]>> \in Seq(PaxRecords)
<1>1. Short \in Names /\ "g" \in Text /\ "x" \in Text /\ "L" \in Text /\ "0" \in Text /\ "1" \in Text
  BY DEF Short, Names, Text
<1>2. ASSUME NEW key \in {"mtime", "path", "size", "comment"}, NEW path \in Names, NEW sz \in Int
      PROVE  [key |-> key, path |-> path, size |-> sz] \in PaxRecords
  BY DEF PaxRecords, Text
<1>0. ASSUME NEW m \in TarMembers PROVE KindOf(m) \in {"0", "1"}
  BY DEF KindOf
<1>3. ASSUME NEW m \in TarMembers PROVE PaxOf(m) \in Seq(PaxRecords) /\ KindOf(m) \in {"0", "1"}
  <2>1. m.name \in Names /\ m.size \in Int /\ NoName \in Names /\ NoSize \in Int
    BY MemberFields, NoNameTyped DEF NoSize
  <2> DEFINE a == [key |-> "mtime", path |-> NoName, size |-> NoSize]
             b == [key |-> "path", path |-> m.name, size |-> NoSize]
             c == [key |-> "size", path |-> NoName, size |-> m.size]
  <2>2. a \in PaxRecords /\ b \in PaxRecords /\ c \in PaxRecords
    BY <1>2, <2>1
  <2>3. PaxOf(m) = <<a, b, c>>
    BY DEF PaxOf
  <2> HIDE DEF a, b, c
  <2>4. QED
    BY <2>2, <2>3, <1>0
<1>4. <<[key |-> "comment", path |-> NoName, size |-> NoSize]>> \in Seq(PaxRecords)
  <2>1. NoName \in Names /\ NoSize \in Int
    BY NoNameTyped DEF NoSize
  <2> DEFINE a == [key |-> "comment", path |-> NoName, size |-> NoSize]
  <2>2. a \in PaxRecords
    BY <1>2, <2>1
  <2> HIDE DEF a
  <2>3. <<a>> \in Seq(PaxRecords)
    BY <2>2
  <2>4. QED
    BY <2>3 DEF a
<1>5. QED
  BY <1>1, <1>3, <1>4

LEMMA HeadTyped ==
  ASSUME NEW m \in TarMembers
  PROVE  HeadOf(m) \in Seq(TarBlocks) /\ Len(HeadOf(m)) = HeadLen(m)
<1>1. /\ m.name \in Names /\ m.size \in Nat /\ m.to \in Names
      /\ m.how = "plain" \/ m.how = "pax" \/ m.how = "long"
  BY MemberFields
<1>0. KindOf(m) \in Text
  <2>1. KindOf(m) = "0" \/ KindOf(m) = "1"
    BY ShortTyped
  <2>2. QED
    BY <2>1, ShortTyped
<1>9. Block \in Int /\ m.size \in Int /\ 0 \in Int /\ << >> \in Seq(PaxRecords)
  BY <1>1, TarAssumption
<1>2. KindOf(m) \in Text /\ "x" \in Text /\ "L" \in Text /\ Short \in Names /\ NoName \in Names /\ PaxOf(m) \in Seq(PaxRecords)
      /\ << >> \in Seq(PaxRecords) /\ Block \in Int /\ m.size \in Int
  BY <1>0, <1>9, ShortTyped, NoNameTyped
<1> DEFINE p1 == Header(KindOf(m), TRUE, m.name, m.size, m.to)
           x1 == Header("x", TRUE, Short, Block, NoName)
           x2 == Payload(NoName, PaxOf(m))
           x3 == Header(KindOf(m), TRUE, Short, 0, m.to)
           l1 == Header("L", TRUE, Short, Block, NoName)
           l2 == Payload(m.name, << >>)
           l3 == Header(KindOf(m), TRUE, Short, m.size, m.to)
<1>3. p1 \in TarBlocks /\ x1 \in TarBlocks /\ x3 \in TarBlocks /\ l1 \in TarBlocks /\ l3 \in TarBlocks
  BY <1>1, <1>2, <1>9, BlocksTyped, Zenon
<1>4. x2 \in TarBlocks /\ l2 \in TarBlocks
  BY <1>1, <1>2, <1>9, BlocksTyped, Zenon
<1>5. HeadOf(m) = IF m.how = "plain" THEN <<p1>> ELSE IF m.how = "pax" THEN <<x1, x2, x3>> ELSE <<l1, l2, l3>>
  BY DEF HeadOf
<1> HIDE DEF p1, x1, x2, x3, l1, l2, l3
<1>6. <<p1>> \in Seq(TarBlocks) /\ <<x1, x2, x3>> \in Seq(TarBlocks) /\ <<l1, l2, l3>> \in Seq(TarBlocks)
  BY <1>3, <1>4
<1>7. QED
  BY <1>1, <1>5, <1>6 DEF HeadLen

\* Where the blocks of a member are.
LEMMA WrittenPlaces ==
  ASSUME NEW m \in TarMembers
  PROVE  /\ Written(m) \in Seq(TarBlocks) /\ Len(Written(m)) = Extent(m)
         /\ \A j \in 1 .. HeadLen(m) : Written(m)[j] = HeadOf(m)[j]
         /\ \A j \in HeadLen(m) + 1 .. Extent(m) : Written(m)[j] = DataOf(m.name)
<1> DEFINE s == HeadOf(m)
           d == DataRun(m)
           c == BlocksOf(m.size)
           l == HeadLen(m)
<1>1. s \in Seq(TarBlocks) /\ Len(s) = l /\ c \in Nat /\ l \in Nat /\ Extent(m) = l + c
  BY HeadTyped, MemberFields DEF Extent
<1>2. d \in [1 .. c -> TarBlocks] /\ \A i \in 1 .. c : d[i] = DataOf(m.name)
  <2>0. << >> \in Seq(PaxRecords) /\ 0 \in Int
    OBVIOUS
  <2>1. m.name \in Names /\ "x" \in Text
    BY MemberFields, ShortTyped
  <2>2. DataOf(m.name) \in TarBlocks
    BY <2>0, <2>1, BlocksTyped, Zenon
  <2>3. QED
    BY <2>2 DEF DataRun
<1>3. Written(m) = s \o d
  BY WrittenParts
<1> HIDE DEF s, d, c, l
<1>4. d \in Seq(TarBlocks) /\ Len(d) = c
  BY <1>1, <1>2
<1>5. s \o d \in Seq(TarBlocks) /\ Len(s \o d) = l + c
  BY <1>1, <1>4
<1>6. \A j \in 1 .. l : (s \o d)[j] = s[j]
  BY <1>1, <1>4
<1>7. ASSUME NEW j \in l + 1 .. l + c PROVE (s \o d)[j] = DataOf(m.name)
  <2>1. j - l \in 1 .. c
    BY <1>1
  <2>2. (s \o d)[j] = d[j - l]
    BY <1>1, <1>4, <1>7
  <2>3. QED
    BY <2>1, <2>2, <1>2
<1>8. QED
  BY <1>1, <1>3, <1>5, <1>6, <1>7 DEF s, l

\* A scan that goes on, at a place, with what it has read.
At(a, p, k, x, nx, lg, en, li) ==
  /\ a \in ScanStates /\ a.state = "scan" /\ a.pos = p /\ a.skip = k /\ a.extra = x
  /\ a.next = nx /\ a.global = NoPax /\ a.long = lg /\ a.entries = en /\ a.links = li

LEMMA AtMoved ==
  ASSUME NEW a, NEW p, NEW k, NEW x, NEW nx, NEW lg, NEW en, NEW li, At(a, p, k, x, nx, lg, en, li)
  PROVE  At(Moved(a), p + 1, k, x, nx, lg, en, li)
<1>1. a \in ScanStates /\ a.pos \in Nat /\ a.pos + 1 \in Nat
  BY ScanFields DEF At
<1>2. [a EXCEPT !.pos = a.pos + 1] \in ScanStates
  BY <1>1, ScanUpdates
<1> DEFINE c == Moved(a)
<1>3. c \in ScanStates
  BY <1>2 DEF Moved
<1>4. /\ c.pos = a.pos + 1 /\ c.skip = a.skip /\ c.extra = a.extra /\ c.next = a.next /\ c.global = a.global
      /\ c.long = a.long /\ c.entries = a.entries /\ c.links = a.links /\ c.state = a.state
  BY <1>1 DEF Moved, ScanStates
<1> HIDE DEF c
<1>5. At(c, p + 1, k, x, nx, lg, en, li)
  BY <1>3, <1>4 DEF At
<1>6. QED
  BY <1>5 DEF c

\* What a block does.
LEMMA BlockStep ==
  ASSUME NEW v, NEW a, NEW b, a.state = "scan"
  PROVE  ScanBlock(v, a, b) =
           IF a.extra # "" THEN TakeExtra(Moved(a), b)
           ELSE IF a.skip > 0 THEN [Moved(a) EXCEPT !.skip = @ - 1]
           ELSE IF b.kind = "zeros" THEN [Moved(a) EXCEPT !.state = "ended"]
           ELSE IF (v /\ ~b.sound) \/ b.size = NoSize THEN [Moved(a) EXCEPT !.state = "failed"]
           ELSE IF b.type \in {"x", "g", "L"} THEN ReadExtra(Moved(a), b)
           ELSE ReadMember(Moved(a), b)
BY Zenon DEF ScanBlock, Moved

LEMMA HeaderFields ==
  ASSUME NEW type, NEW nm, NEW sz, NEW to, NEW b, b = Header(type, TRUE, nm, sz, to)
  PROVE  b.kind = "header" /\ b.type = type /\ b.sound = TRUE /\ b.name = nm /\ b.size = sz /\ b.to = to
BY DEF Header, ABlock

LEMMA PayloadFields ==
  ASSUME NEW nm, NEW recs, NEW b, b = Payload(nm, recs)
  PROVE  b.kind = "payload" /\ b.name = nm /\ b.recs = recs
BY DEF Payload, ABlock

LEMMA OneLess == \A k \in Int : k - 1 \in Int
OBVIOUS

\* Data is passed over.
LEMMA DataStep ==
  ASSUME NEW v, NEW a, NEW b, NEW p, NEW k \in Int, NEW nx, NEW lg, NEW en, NEW li,
         At(a, p, k, "", nx, lg, en, li), k > 0
  PROVE  At(ScanBlock(v, a, b), p + 1, k - 1, "", nx, lg, en, li)
<1> DEFINE c == Moved(a)
           d == [c EXCEPT !.skip = c.skip - 1]
<1>1. At(c, p + 1, k, "", nx, lg, en, li)
  BY AtMoved
<1>2. ScanBlock(v, a, b) = d
  <2>1. a.state = "scan" /\ a.extra = "" /\ a.skip > 0
    BY DEF At
  <2>2. QED
    BY <2>1, BlockStep
<1> HIDE DEF c
<1>7. k - 1 \in Int
  BY OneLess, Zenon
<1>3. c \in ScanStates /\ k - 1 \in Int /\ c.skip = k
  BY <1>1, <1>7, Zenon DEF At
<1>4. d \in ScanStates
  BY <1>3, ScanUpdates
<1>5. /\ d.pos = c.pos /\ d.skip = k - 1 /\ d.extra = c.extra /\ d.next = c.next /\ d.global = c.global
      /\ d.long = c.long /\ d.entries = c.entries /\ d.links = c.links /\ d.state = c.state
  BY <1>3 DEF ScanStates
<1> HIDE DEF d
<1>6. QED
  BY <1>1, <1>2, <1>4, <1>5 DEF At

LEMMA BlockCount == BlocksOf(Block) - 1 \in Int /\ ~(BlocksOf(Block) - 1 > 0)
<1> DEFINE x == (Block + Block - 1) % Word
           q == x \div Block
<1>1. Block \in Nat \ {0} /\ Word \in Nat \ {0} /\ Block + Block - 1 \in Nat
  BY TarAssumption
<1>2. x \in Nat /\ x <= Block + Block - 1
  <2> DEFINE y == Block + Block - 1
  <2>1. y \div Word \in Nat /\ y % Word \in 0 .. Word - 1 /\ y = Word * (y \div Word) + (y % Word)
    BY <1>1, DivMod
  <2>2. Word * (y \div Word) \in Nat
    BY <2>1, <1>1
  <2> HIDE DEF y
  <2>3. y % Word \in Nat /\ y % Word <= y
    BY <2>1, <2>2, <1>1
  <2>4. QED
    BY <2>3 DEF y
<1> HIDE DEF x
<1>3. q \in Nat /\ x % Block \in 0 .. Block - 1 /\ x = Block * q + (x % Block)
  BY <1>1, <1>2, DivMod
<1> HIDE DEF q
<1>4. Block * q \in Nat /\ Block * q <= Block + Block - 1
  BY <1>1, <1>2, <1>3
<1>5. ~(1 < q)
  <2>1. ASSUME 1 < q PROVE FALSE
    <3>1. Block * 1 + Block <= Block * q
      BY <1>1, <1>3, <2>1, MulStep
    <3>2. QED
      BY <3>1, <1>1, <1>4
  <2>2. QED
    BY <2>1
<1>6. BlocksOf(Block) = q
  <2>1. BlocksOf(Block) = (q * Block) \div Block
    BY DEF BlocksOf, RoundUp, q, x
  <2>2. QED
    BY <2>1, <1>1, <1>3, DivProduct
<1>7. QED
  BY <1>3, <1>5, <1>6

LEMMA ExtraHeader ==
  ASSUME NEW type, NEW b, b = Header(type, TRUE, Short, Block, NoName)
  PROVE  /\ b.kind = "header" /\ b.type = type /\ b.sound = TRUE /\ b.size = Block
         /\ Block # NoSize /\ ~(Block > MaxExtra) /\ Block # 0
<1>1. Block # NoSize /\ ~(Block > MaxExtra) /\ Block # 0
  BY TarAssumption DEF NoSize
<1>2. b.kind = "header" /\ b.type = type /\ b.sound = TRUE /\ b.size = Block
  BY DEF Header, ABlock
<1>3. QED
  BY <1>1, <1>2

\* A header whose payload comes next.
LEMMA ExtraStep ==
  ASSUME NEW v \in BOOLEAN, NEW a, NEW b, NEW p, NEW k \in Int, NEW nx, NEW lg, NEW en, NEW li,
         NEW type \in {"x", "g", "L"},
         At(a, p, k, "", nx, lg, en, li), ~(k > 0), b = Header(type, TRUE, Short, Block, NoName)
  PROVE  At(ScanBlock(v, a, b), p + 1, BlocksOf(Block) - 1, type, nx, lg, en, li)
<1> DEFINE c == Moved(a)
           n == BlocksOf(Block) - 1
           d == [c EXCEPT !.extra = type, !.skip = n]
<1>1. At(c, p + 1, k, "", nx, lg, en, li)
  BY AtMoved
<1>2. b.kind = "header" /\ b.type = type /\ b.sound = TRUE /\ b.size = Block
  BY ExtraHeader, Zenon
<1>10. Block # NoSize /\ ~(Block > MaxExtra) /\ Block # 0
  BY ExtraHeader, Zenon
<1>3. Block # NoSize /\ ~(Block > MaxExtra) /\ Block # 0 /\ n \in Int
  BY <1>10, BlockCount, Zenon
<1>4. ScanBlock(v, a, b) = d
  <2>1. a.state = "scan" /\ a.extra = "" /\ ~(a.skip > 0)
    BY DEF At
  <2>2. ScanBlock(v, a, b) = ReadExtra(c, b)
    BY <2>1, <1>2, <1>3, BlockStep
  <2> HIDE DEF c
  <2>3. ReadExtra(c, b) = d
    BY <1>2, <1>3 DEF ReadExtra
  <2>4. QED
    BY <2>2, <2>3
<1> HIDE DEF c, n
<1>5. c \in ScanStates
  BY <1>1 DEF At
<1>6. d \in ScanStates
  <2>1. type \in {"", "x", "g", "L"}
    OBVIOUS
  <2>2. QED
    BY <2>1, <1>3, <1>5, ScanUpdates
<1>7. /\ d.pos = c.pos /\ d.skip = n /\ d.extra = type /\ d.next = c.next /\ d.global = c.global
      /\ d.long = c.long /\ d.entries = c.entries /\ d.links = c.links /\ d.state = c.state
  BY <1>5 DEF ScanStates
<1> HIDE DEF d
<1>8. At(d, p + 1, n, type, nx, lg, en, li)
  BY <1>1, <1>6, <1>7 DEF At
<1>9. QED
  BY <1>4, <1>8 DEF n

LEMMA CommentParsed ==
  ParsePax(<<[key |-> "comment", path |-> NoName, size |-> NoSize]>>) = [state |-> "go", kv |-> NoPax]
<1> DEFINE r == [key |-> "comment", path |-> NoName, size |-> NoSize]
           recs == <<r>>
           base == [state |-> "go", kv |-> NoPax]
<1>1. recs \in Seq(PaxRecords)
  BY ShortTyped
<1>2. r.key = "comment" /\ base.state = "go"
  OBVIOUS
<1>3. PaxRecord(base, r) = base
  BY <1>2 DEF PaxRecord
<1> HIDE DEF r, base
<1>4. Len(recs) = 1 /\ recs[1] = r /\ recs \in [1 .. 1 -> PaxRecords]
  BY <1>1
<1>5. PICK h \in [0 .. 1 -> PaxStates] : ReadingPax(recs, 1, h)
  BY <1>4, PaxOneByOne
<1> HIDE DEF recs
<1>6. h[0] = base /\ h[1] = ParsePax(recs) /\ \A k \in 1 .. 1 : h[k] = PaxRecord(h[k - 1], recs[k])
  BY <1>5, Zenon DEF ReadingPax, base
<1>7. h[1] = PaxRecord(h[0], recs[1])
  <2>1. 1 \in 1 .. 1 /\ 1 - 1 = 0
    OBVIOUS
  <2>2. h[1] = PaxRecord(h[1 - 1], recs[1])
    BY <1>6, <2>1, Zenon
  <2>3. QED
    BY <2>1, <2>2
<1>8. ParsePax(recs) = base
  BY <1>3, <1>4, <1>6, <1>7
<1>9. QED
  BY <1>8 DEF recs, r, base

\* The records of a member give its name and its size.
LEMMA MemberParsed ==
  ASSUME NEW m \in TarMembers
  PROVE  ParsePax(PaxOf(m)) = [state |-> "go", kv |-> [path |-> m.name, size |-> m.size]]
<1> DEFINE r1 == [key |-> "mtime", path |-> NoName, size |-> NoSize]
           r2 == [key |-> "path", path |-> m.name, size |-> NoSize]
           r3 == [key |-> "size", path |-> NoName, size |-> m.size]
           b0 == [state |-> "go", kv |-> NoPax]
           b2 == [state |-> "go", kv |-> [path |-> m.name, size |-> NoSize]]
           b3 == [state |-> "go", kv |-> [path |-> m.name, size |-> m.size]]
           recs == PaxOf(m)
<1>1. recs \in Seq(PaxRecords) /\ recs = <<r1, r2, r3>>
  BY ShortTyped DEF PaxOf
<1>2. PaxRecord(b0, r1) = b0
  <2>1. r1.key = "mtime" /\ b0.state = "go"
    OBVIOUS
  <2>2. QED
    BY <2>1 DEF PaxRecord
<1>3. PaxRecord(b0, r2) = b2
  <2>1. r2.key = "path" /\ r2.path = m.name /\ b0.state = "go"
    OBVIOUS
  <2>2. [b0 EXCEPT !.kv.path = r2.path] = b2
    BY DEF NoPax
  <2> HIDE DEF r2, b0, b2
  <2>3. PaxRecord(b0, r2) = [b0 EXCEPT !.kv.path = r2.path]
    BY <2>1 DEF PaxRecord
  <2>4. QED
    BY <2>2, <2>3
<1>4. PaxRecord(b2, r3) = b3
  <2>1. r3.key = "size" /\ r3.size = m.size /\ b2.state = "go"
    OBVIOUS
  <2>2. [b2 EXCEPT !.kv.size = r3.size] = b3
    OBVIOUS
  <2> HIDE DEF r3, b3, b2
  <2>3. PaxRecord(b2, r3) = [b2 EXCEPT !.kv.size = r3.size]
    BY <2>1 DEF PaxRecord
  <2>4. QED
    BY <2>2, <2>3
<1> HIDE DEF r1, r2, r3, b0, b2, b3, recs
<1>5. Len(recs) = 3 /\ recs[1] = r1 /\ recs[2] = r2 /\ recs[3] = r3 /\ recs \in [1 .. 3 -> PaxRecords]
  BY <1>1
<1>6. PICK h \in [0 .. 3 -> PaxStates] : ReadingPax(recs, 3, h)
  BY <1>5, PaxOneByOne
<1>7. h[0] = b0 /\ h[3] = ParsePax(recs) /\ \A k \in 1 .. 3 : h[k] = PaxRecord(h[k - 1], recs[k])
  BY <1>6, Zenon DEF ReadingPax, b0
<1>8. 1 \in 1 .. 3 /\ 2 \in 1 .. 3 /\ 3 \in 1 .. 3 /\ 1 - 1 = 0 /\ 2 - 1 = 1 /\ 3 - 1 = 2
  OBVIOUS
<1>9. h[1] = PaxRecord(h[1 - 1], recs[1]) /\ h[2] = PaxRecord(h[2 - 1], recs[2]) /\ h[3] = PaxRecord(h[3 - 1], recs[3])
  BY <1>7, <1>8, Zenon
<1>10. h[1] = b0
  BY <1>2, <1>5, <1>7, <1>8, <1>9
<1>11. h[2] = b2
  BY <1>3, <1>5, <1>8, <1>9, <1>10
<1>12. h[3] = b3
  BY <1>4, <1>5, <1>8, <1>9, <1>11
<1>13. QED
  BY <1>7, <1>12 DEF recs, b3

LEMMA MergeNothing ==
  /\ Merge(NoPax, NoPax) = NoPax
  /\ \A q \in Paxes : Merge(NoPax, q) = q
<1>1. ASSUME NEW q \in Paxes PROVE Merge(NoPax, q) = q
  BY DEF Merge, NoPax, Paxes
<1>2. NoPax \in Paxes
  BY NoNameTyped
<1>3. QED
  BY <1>1, <1>2

\* The payload of a header was read.
Payloaded(c, d, nx, lg) ==
  /\ d \in ScanStates /\ d.state = c.state /\ d.pos = c.pos /\ d.skip = c.skip /\ d.extra = ""
  /\ d.next = nx /\ d.global = c.global /\ d.long = lg /\ d.entries = c.entries /\ d.links = c.links

LEMMA TakenFields ==
  ASSUME NEW c \in ScanStates
  PROVE  LET e == [c EXCEPT !.extra = ""]
         IN  /\ Payloaded(c, e, c.next, c.long)
             /\ \A nm \in Names : Payloaded(c, [e EXCEPT !.long = nm], c.next, nm)
             /\ \A q \in Paxes : Payloaded(c, [e EXCEPT !.next = q], q, c.long)
             /\ Payloaded(c, [e EXCEPT !.global = c.global], c.next, c.long)
<1> DEFINE e == [c EXCEPT !.extra = ""]
<1>1. e \in ScanStates
  BY ScanUpdates
<1>2. /\ e.state = c.state /\ e.pos = c.pos /\ e.skip = c.skip /\ e.extra = "" /\ e.next = c.next /\ e.global = c.global
      /\ e.long = c.long /\ e.entries = c.entries /\ e.links = c.links
  BY DEF ScanStates
<1>3. c.global \in Paxes
  BY DEF ScanStates
<1> HIDE DEF e
<1>4. Payloaded(c, e, c.next, c.long)
  BY <1>1, <1>2 DEF Payloaded
<1>5. ASSUME NEW nm \in Names PROVE Payloaded(c, [e EXCEPT !.long = nm], c.next, nm)
  <2> DEFINE d == [e EXCEPT !.long = nm]
  <2>1. d \in ScanStates
    BY <1>1, ScanUpdates
  <2>2. /\ d.state = e.state /\ d.pos = e.pos /\ d.skip = e.skip /\ d.extra = e.extra /\ d.next = e.next /\ d.global = e.global
        /\ d.long = nm /\ d.entries = e.entries /\ d.links = e.links
    BY <1>1 DEF ScanStates
  <2> HIDE DEF d
  <2>3. Payloaded(c, d, c.next, nm)
    BY <1>2, <2>1, <2>2 DEF Payloaded
  <2>4. QED
    BY <2>3 DEF d
<1>6. ASSUME NEW q \in Paxes PROVE Payloaded(c, [e EXCEPT !.next = q], q, c.long)
  <2> DEFINE d == [e EXCEPT !.next = q]
  <2>1. d \in ScanStates
    BY <1>1, ScanUpdates
  <2>2. /\ d.state = e.state /\ d.pos = e.pos /\ d.skip = e.skip /\ d.extra = e.extra /\ d.next = q /\ d.global = e.global
        /\ d.long = e.long /\ d.entries = e.entries /\ d.links = e.links
    BY <1>1 DEF ScanStates
  <2> HIDE DEF d
  <2>3. Payloaded(c, d, q, c.long)
    BY <1>2, <2>1, <2>2 DEF Payloaded
  <2>4. QED
    BY <2>3 DEF d
<1>7. Payloaded(c, [e EXCEPT !.global = c.global], c.next, c.long)
  <2> DEFINE d == [e EXCEPT !.global = c.global]
  <2>1. d \in ScanStates
    BY <1>1, <1>3, ScanUpdates
  <2>2. /\ d.state = e.state /\ d.pos = e.pos /\ d.skip = e.skip /\ d.extra = e.extra /\ d.next = e.next /\ d.global = c.global
        /\ d.long = e.long /\ d.entries = e.entries /\ d.links = e.links
    BY <1>1 DEF ScanStates
  <2> HIDE DEF d
  <2>3. Payloaded(c, d, c.next, c.long)
    BY <1>2, <2>1, <2>2 DEF Payloaded
  <2>4. QED
    BY <2>3 DEF d
<1>8. QED
  BY <1>4, <1>5, <1>6, <1>7 DEF e

\* What a payload is to the scan: nx and lg are what it has before, px and pl after it.
Carries(x, b, nx, lg, px, pl) ==
  \/ x = "L" /\ px = nx /\ pl \in Names /\ b.name = pl
  \/ x = "g" /\ px = nx /\ pl = lg /\ ParsePax(b.recs) = [state |-> "go", kv |-> NoPax]
  \/ x = "x" /\ nx = NoPax /\ pl = lg /\ px \in Paxes /\ ParsePax(b.recs) = [state |-> "go", kv |-> px]

LEMMA TakenPayload ==
  ASSUME NEW c \in ScanStates, NEW b, NEW px, NEW pl, c.global = NoPax, Carries(c.extra, b, c.next, c.long, px, pl)
  PROVE  Payloaded(c, TakeExtra(c, b), px, pl)
<1> DEFINE e == [c EXCEPT !.extra = ""]
           pax == ParsePax(b.recs)
<1>1. /\ \A nm \in Names : Payloaded(c, [e EXCEPT !.long = nm], c.next, nm)
      /\ \A q \in Paxes : Payloaded(c, [e EXCEPT !.next = q], q, c.long)
      /\ Payloaded(c, [e EXCEPT !.global = c.global], c.next, c.long)
  BY TakenFields, Zenon
<1>2. /\ c.extra = "L" => TakeExtra(c, b) = [e EXCEPT !.long = b.name]
      /\ c.extra = "g" /\ pax.state = "go" => TakeExtra(c, b) = [e EXCEPT !.global = Merge(e.global, pax.kv)]
      /\ c.extra = "x" /\ pax.state = "go" => TakeExtra(c, b) = [e EXCEPT !.next = Merge(e.next, pax.kv)]
  BY DEF TakeExtra
<1>3. e.global = c.global /\ e.next = c.next
  BY DEF ScanStates
<1> HIDE DEF e
<1>4. CASE c.extra = "L" /\ px = c.next /\ pl \in Names /\ b.name = pl
  BY <1>1, <1>2, <1>4
<1>5. CASE c.extra = "g" /\ px = c.next /\ pl = c.long /\ ParsePax(b.recs) = [state |-> "go", kv |-> NoPax]
  <2>1. pax.state = "go" /\ pax.kv = NoPax
    BY <1>5
  <2> HIDE DEF pax
  <2>2. TakeExtra(c, b) = [e EXCEPT !.global = Merge(e.global, pax.kv)]
    BY <1>2, <1>5, <2>1
  <2>3. Merge(e.global, pax.kv) = c.global
    BY <1>3, <2>1, MergeNothing
  <2>4. QED
    BY <1>1, <1>5, <2>2, <2>3
<1>6. CASE c.extra = "x" /\ c.next = NoPax /\ pl = c.long /\ px \in Paxes /\ ParsePax(b.recs) = [state |-> "go", kv |-> px]
  <2>1. pax.state = "go" /\ pax.kv = px
    BY <1>6
  <2> HIDE DEF pax
  <2>2. TakeExtra(c, b) = [e EXCEPT !.next = Merge(e.next, pax.kv)]
    BY <1>2, <1>6, <2>1
  <2>3. Merge(e.next, pax.kv) = px
    BY <1>3, <1>6, <2>1, MergeNothing
  <2>4. QED
    BY <1>1, <1>6, <2>2, <2>3
<1>7. QED
  BY <1>4, <1>5, <1>6 DEF Carries

\* A payload is read.
LEMMA PayloadStep ==
  ASSUME NEW v, NEW a, NEW b, NEW p, NEW k, NEW x, NEW nx, NEW lg, NEW en, NEW li, NEW px, NEW pl,
         At(a, p, k, x, nx, lg, en, li), x # "", Carries(x, b, nx, lg, px, pl)
  PROVE  At(ScanBlock(v, a, b), p + 1, k, "", px, pl, en, li)
<1> DEFINE c == Moved(a)
           d == TakeExtra(c, b)
<1>1. At(c, p + 1, k, x, nx, lg, en, li)
  BY AtMoved
<1>2. ScanBlock(v, a, b) = d
  <2>1. a.state = "scan" /\ a.extra # ""
    BY Zenon DEF At
  <2>2. QED
    BY <2>1, BlockStep, Zenon
<1> HIDE DEF c
<1>3. /\ c \in ScanStates /\ c.global = NoPax /\ c.extra = x /\ c.next = nx /\ c.long = lg /\ c.state = "scan"
      /\ c.pos = p + 1 /\ c.skip = k /\ c.entries = en /\ c.links = li
  BY <1>1, Zenon DEF At
<1>4. Payloaded(c, d, px, pl)
  BY <1>3, TakenPayload, Zenon
<1> HIDE DEF d
<1>5. QED
  BY <1>2, <1>3, <1>4, Zenon DEF Payloaded, At

\* What a member adds to the files and to the links.
WithFile(en, m, at) ==
  IF m.to = NoName THEN Append(en, [name |-> m.name, size |-> m.size, at |-> at]) ELSE en
WithLink(li, m) == IF m.to = NoName THEN li ELSE Append(li, [name |-> m.name, to |-> m.to])

\* A header gives a member, with what was read before it.
Gives(b, nx, lg, m) ==
  /\ b.kind = "header" /\ b.sound = TRUE /\ b.size # NoSize /\ b.type = KindOf(m) /\ b.to = m.to
  /\ \/ nx = NoPax /\ lg = NoName /\ b.name = m.name /\ b.size = m.size
     \/ nx = [path |-> m.name, size |-> m.size] /\ lg = NoName
     \/ nx = NoPax /\ lg = m.name /\ b.size = m.size

LEMMA FullGiven ==
  ASSUME NEW c \in ScanStates, NEW b, NEW m \in TarMembers, c.global = NoPax, Gives(b, c.next, c.long, m)
  PROVE  FullName(c, b) = m.name /\ FullSize(c, b) = m.size
<1>1. c.next \in Paxes
  BY DEF ScanStates
<1>2. Overrides(c) = c.next
  BY <1>1, MergeNothing DEF Overrides
<1>3. m.name # NoName /\ m.size # NoSize
  BY MemberFields DEF NoSize
<1>4. NoPax.path = NoName /\ NoPax.size = NoSize
  BY DEF NoPax
<1>5. [path |-> m.name, size |-> m.size].path = m.name /\ [path |-> m.name, size |-> m.size].size = m.size
  OBVIOUS
<1>6. QED
  BY <1>2, <1>3, <1>4, <1>5 DEF FullName, FullSize, Gives

\* The state after a member's header, whatever it is.
Cleared(c, d, n) ==
  /\ d \in ScanStates /\ d.state = c.state /\ d.pos = c.pos /\ d.skip = n /\ d.extra = c.extra
  /\ d.next = NoPax /\ d.global = c.global /\ d.long = NoName

ClearedWith(c, d, n, en, li) == Cleared(c, d, n) /\ d.entries = en /\ d.links = li

LEMMA ClearedFields ==
  ASSUME NEW c \in ScanStates, NEW n \in Int
  PROVE  LET e == [c EXCEPT !.long = NoName, !.next = NoPax, !.skip = n]
         IN  /\ ClearedWith(c, e, n, c.entries, c.links)
             /\ \A q \in Seq(TarEntries) : ClearedWith(c, [e EXCEPT !.entries = q], n, q, c.links)
             /\ \A q \in Seq(TarLinks) : ClearedWith(c, [e EXCEPT !.links = q], n, c.entries, q)
<1> DEFINE e == [c EXCEPT !.long = NoName, !.next = NoPax, !.skip = n]
<1>1. e \in ScanStates
  BY ScanUpdates
<1>2. /\ e.state = c.state /\ e.pos = c.pos /\ e.skip = n /\ e.extra = c.extra /\ e.next = NoPax /\ e.global = c.global
      /\ e.long = NoName /\ e.entries = c.entries /\ e.links = c.links
  BY DEF ScanStates
<1> HIDE DEF e
<1>3. ClearedWith(c, e, n, c.entries, c.links)
  BY <1>1, <1>2, Zenon DEF Cleared, ClearedWith
<1>4. ASSUME NEW q \in Seq(TarEntries) PROVE ClearedWith(c, [e EXCEPT !.entries = q], n, q, c.links)
  <2> DEFINE d == [e EXCEPT !.entries = q]
  <2>1. d \in ScanStates
    BY <1>1, ScanUpdates
  <2>2. /\ d.state = e.state /\ d.pos = e.pos /\ d.skip = e.skip /\ d.extra = e.extra /\ d.next = e.next /\ d.global = e.global
        /\ d.long = e.long /\ d.entries = q /\ d.links = e.links
    BY <1>1 DEF ScanStates
  <2> HIDE DEF d
  <2>3. ClearedWith(c, d, n, q, c.links)
    BY <1>2, <2>1, <2>2, Zenon DEF Cleared, ClearedWith
  <2>4. QED
    BY <2>3 DEF d
<1>5. ASSUME NEW q \in Seq(TarLinks) PROVE ClearedWith(c, [e EXCEPT !.links = q], n, c.entries, q)
  <2> DEFINE d == [e EXCEPT !.links = q]
  <2>1. d \in ScanStates
    BY <1>1, ScanUpdates
  <2>2. /\ d.state = e.state /\ d.pos = e.pos /\ d.skip = e.skip /\ d.extra = e.extra /\ d.next = e.next /\ d.global = e.global
        /\ d.long = e.long /\ d.entries = e.entries /\ d.links = q
    BY <1>1 DEF ScanStates
  <2> HIDE DEF d
  <2>3. ClearedWith(c, d, n, c.entries, q)
    BY <1>2, <2>1, <2>2, Zenon DEF Cleared, ClearedWith
  <2>4. QED
    BY <2>3 DEF d
<1>6. QED
  BY <1>2, <1>3, <1>4, <1>5, Zenon DEF e

\* A member's header is read.
LEMMA MemberRead ==
  ASSUME NEW c \in ScanStates, NEW b, NEW m \in TarMembers, c.global = NoPax, Gives(b, c.next, c.long, m)
  PROVE  LET d == ReadMember(c, b)
         IN  /\ Cleared(c, d, BlocksOf(m.size))
             /\ d.entries = WithFile(c.entries, m, c.pos) /\ d.links = WithLink(c.links, m)
<1> DEFINE n == BlocksOf(m.size)
           e == [c EXCEPT !.long = NoName, !.next = NoPax, !.skip = n]
           f == [name |-> m.name, size |-> m.size, at |-> c.pos]
           l == [name |-> m.name, to |-> m.to]
           ef == [e EXCEPT !.entries = Append(e.entries, f)]
           el == [e EXCEPT !.links = Append(e.links, l)]
<1>1. m.name \in Names /\ m.name # NoName /\ m.size \in Nat /\ m.size \in Int /\ m.to \in Names /\ n \in Int
  BY MemberFields
<1>2. FullName(c, b) = m.name /\ FullSize(c, b) = m.size
  BY FullGiven
<1>3. b.type = KindOf(m) /\ b.to = m.to
  BY DEF Gives
<1>4. c.entries \in Seq(TarEntries) /\ c.links \in Seq(TarLinks) /\ c.pos \in Nat
  BY ScanFields
<1>5. f \in TarEntries /\ l \in TarLinks
  BY <1>1, <1>4 DEF TarEntries, TarLinks
<1>6. CASE m.to = NoName
  <2>1. b.type = "0"
    BY <1>3, <1>6 DEF KindOf
  <2>2. ReadMember(c, b) = ef
    BY <1>1, <1>2, <2>1 DEF ReadMember
  <2> HIDE DEF f, n
  <2>3. e.entries = c.entries
    BY <1>1, ClearedFields, Zenon DEF ClearedWith
  <2>4. Append(c.entries, f) \in Seq(TarEntries)
    BY <1>4, <1>5
  <2> DEFINE q == Append(c.entries, f)
             g == [e EXCEPT !.entries = q]
  <2>7. ef = g
    BY <2>3
  <2> HIDE DEF q
  <2>9. ClearedWith(c, g, n, q, c.links)
    BY <1>1, <2>4, ClearedFields, Zenon DEF q
  <2>8. Cleared(c, g, n) /\ g.entries = q /\ g.links = c.links
    BY <2>9, Zenon DEF ClearedWith
  <2> HIDE DEF ef, g
  <2>5. Cleared(c, ef, n) /\ ef.entries = Append(c.entries, f) /\ ef.links = c.links
    BY <2>7, <2>8, Zenon DEF q
  <2>6. QED
    BY <1>6, <2>2, <2>5, Zenon DEF WithFile, WithLink, f, n
<1>7. CASE m.to # NoName
  <2>1. b.type = "1"
    BY <1>3, <1>7 DEF KindOf
  <2>2. ReadMember(c, b) = el
    BY <1>1, <1>2, <1>3, <1>7, <2>1 DEF ReadMember
  <2> HIDE DEF l, n
  <2>3. e.links = c.links
    BY <1>1, ClearedFields, Zenon DEF ClearedWith
  <2>4. Append(c.links, l) \in Seq(TarLinks)
    BY <1>4, <1>5
  <2> DEFINE q == Append(c.links, l)
             g == [e EXCEPT !.links = q]
  <2>7. el = g
    BY <2>3
  <2> HIDE DEF q
  <2>9. ClearedWith(c, g, n, c.entries, q)
    BY <1>1, <2>4, ClearedFields, Zenon DEF q
  <2>8. Cleared(c, g, n) /\ g.links = q /\ g.entries = c.entries
    BY <2>9, Zenon DEF ClearedWith
  <2> HIDE DEF el, g
  <2>5. Cleared(c, el, n) /\ el.links = Append(c.links, l) /\ el.entries = c.entries
    BY <2>7, <2>8, Zenon DEF q
  <2>6. QED
    BY <1>7, <2>2, <2>5, Zenon DEF WithFile, WithLink, l, n
<1>8. QED
  BY <1>6, <1>7

LEMMA MemberStep ==
  ASSUME NEW v \in BOOLEAN, NEW a, NEW b, NEW p, NEW k \in Int, NEW nx, NEW lg, NEW en, NEW li, NEW m \in TarMembers,
         At(a, p, k, "", nx, lg, en, li), ~(k > 0), Gives(b, nx, lg, m)
  PROVE  At(ScanBlock(v, a, b), p + 1, BlocksOf(m.size), "", NoPax, NoName, WithFile(en, m, p + 1), WithLink(li, m))
<1> DEFINE c == Moved(a)
           d == ReadMember(c, b)
<1>1. At(c, p + 1, k, "", nx, lg, en, li)
  BY AtMoved
<1>2. b.kind = "header" /\ b.sound = TRUE /\ b.size # NoSize /\ (b.type = "0" \/ b.type = "1")
  BY DEF Gives, KindOf
<1>3. ScanBlock(v, a, b) = d
  <2>1. a.state = "scan" /\ a.extra = "" /\ ~(a.skip > 0)
    BY Zenon DEF At
  <2>2. b.type \notin {"x", "g", "L"} /\ b.kind # "zeros" /\ b.sound
    BY <1>2
  <2>3. QED
    BY <1>2, <2>1, <2>2, BlockStep, Zenon
<1> HIDE DEF c
<1>4. /\ c \in ScanStates /\ c.global = NoPax /\ c.extra = "" /\ c.next = nx /\ c.long = lg /\ c.state = "scan"
      /\ c.pos = p + 1 /\ c.skip = k /\ c.entries = en /\ c.links = li
  BY <1>1, Zenon DEF At
<1>5. Gives(b, c.next, c.long, m)
  BY <1>4, Zenon
<1>6. /\ Cleared(c, d, BlocksOf(m.size))
      /\ d.entries = WithFile(c.entries, m, c.pos) /\ d.links = WithLink(c.links, m)
  BY <1>4, <1>5, MemberRead, Zenon
<1> HIDE DEF d
<1>7. QED
  BY <1>3, <1>4, <1>6, Zenon DEF Cleared, At

\* Nothing is left over from what was read: there is data to pass over, or a header is due.
Ready(a, p, k, en, li) == At(a, p, k, "", NoPax, NoName, en, li)
Due(a) == a.state = "scan" /\ a.extra = "" /\ ~(a.skip > 0)
IsHeader(b) == b.kind = "header"

\* From o to e the scan goes on, and takes every header for one.
Goes(blocks, h, o, e) ==
  /\ \A i \in o .. e : h[i].state = "scan"
  /\ \A i \in o + 1 .. e : IsHeader(blocks[i]) => Due(h[i - 1])

\* The states of a scan.
Stepping(v, blocks, n, h) == \A i \in 1 .. n : h[i] = ScanBlock(v, h[i - 1], blocks[i])

LEMMA NextState ==
  ASSUME NEW v, NEW n \in Nat, NEW blocks, NEW h, Stepping(v, blocks, n, h), NEW i \in Nat, i < n
  PROVE  h[i + 1] = ScanBlock(v, h[i], blocks[i + 1])
<1>1. i + 1 \in 1 .. n /\ (i + 1) - 1 = i
  OBVIOUS
<1>2. h[i + 1] = ScanBlock(v, h[(i + 1) - 1], blocks[i + 1])
  BY <1>1, Zenon DEF Stepping
<1>3. QED
  BY <1>1, <1>2

LEMMA GoesJoin ==
  ASSUME NEW blocks, NEW h, NEW o \in Nat, NEW e \in Nat, NEW f \in Nat, o <= e, e <= f,
         Goes(blocks, h, o, e), Goes(blocks, h, e, f)
  PROVE  Goes(blocks, h, o, f)
<1>1. ASSUME NEW i \in o .. f PROVE h[i].state = "scan"
  <2>1. i \in o .. e \/ i \in e .. f
    OBVIOUS
  <2>2. QED
    BY <2>1, Zenon DEF Goes
<1>2. ASSUME NEW i \in o + 1 .. f, IsHeader(blocks[i]) PROVE Due(h[i - 1])
  <2>1. i \in o + 1 .. e \/ i \in e + 1 .. f
    OBVIOUS
  <2>2. QED
    BY <1>2, <2>1, Zenon DEF Goes
<1>3. QED
  BY <1>1, <1>2, Zenon DEF Goes

LEMMA GoesOne ==
  ASSUME NEW blocks, NEW h, NEW o \in Nat, h[o].state = "scan", h[o + 1].state = "scan",
         IsHeader(blocks[o + 1]) => Due(h[o])
  PROVE  Goes(blocks, h, o, o + 1)
<1>1. ASSUME NEW i \in o .. o + 1 PROVE h[i].state = "scan"
  <2>1. i = o \/ i = o + 1
    OBVIOUS
  <2>2. QED
    BY <2>1
<1>2. ASSUME NEW i \in o + 1 .. o + 1, IsHeader(blocks[i]) PROVE Due(h[i - 1])
  <2>1. i = o + 1 /\ i - 1 = o
    OBVIOUS
  <2>2. QED
    BY <1>2, <2>1
<1>3. QED
  BY <1>1, <1>2, Zenon DEF Goes

LEMMA ReadyFacts ==
  ASSUME NEW a, NEW p, NEW k, NEW en, NEW li, Ready(a, p, k, en, li)
  PROVE  a.state = "scan" /\ a.skip = k /\ a.extra = "" /\ a.entries = en /\ a.links = li /\ a \in ScanStates
BY Zenon DEF Ready, At

LEMMA ReadyData ==
  ASSUME NEW v, NEW a, NEW b, NEW p, NEW k \in Int, NEW en, NEW li, Ready(a, p, k, en, li), k > 0
  PROVE  Ready(ScanBlock(v, a, b), p + 1, k - 1, en, li)
BY DataStep, Zenon DEF Ready

\* The data of a member is passed over.
LEMMA DataScanned ==
  ASSUME NEW v, NEW n \in Nat, NEW blocks, NEW h, Stepping(v, blocks, n, h),
         NEW o \in Nat, NEW c \in Nat, o + c <= n, NEW en, NEW li, Ready(h[o], o, c, en, li),
         \A i \in o + 1 .. o + c : ~IsHeader(blocks[i])
  PROVE  Ready(h[o + c], o + c, 0, en, li) /\ Goes(blocks, h, o, o + c)
<1> DEFINE T == {j \in 0 .. c : Ready(h[o + j], o + j, c - j, en, li)}
<1>1. 0 \in T
  <2>1. o + 0 = o /\ c - 0 = c /\ 0 \in 0 .. c
    OBVIOUS
  <2>2. QED
    BY <2>1
<1>2. ASSUME NEW j \in 0 .. c, j \in T, j < c PROVE j + 1 \in T
  <2>1. /\ o + j \in Nat /\ o + j < n /\ c - j \in Int /\ c - j > 0 /\ (c - j) - 1 = c - (j + 1)
        /\ (o + j) + 1 = o + (j + 1) /\ j + 1 \in 0 .. c
    BY <1>2
  <2>2. Ready(h[o + j], o + j, c - j, en, li)
    BY <1>2
  <2> DEFINE q == o + j
  <2>7. q \in Nat /\ q < n
    BY <2>1
  <2> HIDE DEF q
  <2>8. h[q + 1] = ScanBlock(v, h[q], blocks[q + 1])
    BY <2>7, NextState
  <2>3. h[(o + j) + 1] = ScanBlock(v, h[o + j], blocks[(o + j) + 1])
    BY <2>8 DEF q
  <2>4. Ready(ScanBlock(v, h[o + j], blocks[(o + j) + 1]), (o + j) + 1, (c - j) - 1, en, li)
    BY <2>1, <2>2, ReadyData
  <2>5. Ready(h[o + (j + 1)], o + (j + 1), c - (j + 1), en, li)
    BY <2>1, <2>3, <2>4
  <2>6. QED
    BY <2>1, <2>5
<1> HIDE DEF T
<1>3. \A j \in 0 .. c : j \in T
  BY <1>1, <1>2, Upwards
<1>4. \A j \in 0 .. c : Ready(h[o + j], o + j, c - j, en, li)
  BY <1>3 DEF T
<1>5. ASSUME NEW i \in o .. o + c PROVE h[i].state = "scan"
  <2> DEFINE j == i - o
             left_over == c - j
             a == h[i]
  <2>1. j \in 0 .. c /\ o + j = i
    OBVIOUS
  <2>2. Ready(a, i, left_over, en, li)
    BY <1>4, <2>1
  <2> HIDE DEF left_over, a
  <2>3. a.state = "scan"
    BY <2>2, ReadyFacts
  <2>4. QED
    BY <2>3 DEF a
<1>6. Goes(blocks, h, o, o + c)
  BY <1>5, Zenon DEF Goes
<1>7. Ready(h[o + c], o + c, 0, en, li)
  <2>1. c \in 0 .. c /\ c - c = 0
    OBVIOUS
  <2>2. QED
    BY <1>4, <2>1
<1>8. QED
  BY <1>6, <1>7

\* A header is due.
Stands(a, o, en, li) == Ready(a, o, a.skip, en, li) /\ ~(a.skip > 0)

LEMMA StandsFacts ==
  ASSUME NEW a, NEW o, NEW en, NEW li, Stands(a, o, en, li)
  PROVE  /\ Due(a) /\ a.state = "scan" /\ a.skip \in Int /\ a \in ScanStates /\ a.entries = en /\ a.links = li
         /\ At(a, o, a.skip, "", NoPax, NoName, en, li) /\ ~(a.skip > 0)
<1>1. Ready(a, o, a.skip, en, li) /\ ~(a.skip > 0)
  BY Zenon DEF Stands
<1>2. a.state = "scan" /\ a.extra = "" /\ a.entries = en /\ a.links = li /\ a \in ScanStates
  BY <1>1, ReadyFacts, Zenon
<1>3. a.skip \in Int
  BY <1>2, ScanFields, Zenon
<1>4. QED
  BY <1>1, <1>2, <1>3, Zenon DEF Due, Ready

\* After the headers of a member: its data comes, and it is on record.
HeadDone(blocks, h, o, m, en, li) ==
  LET q == o + HeadLen(m)
  IN  Ready(h[q], q, BlocksOf(m.size), WithFile(en, m, q), WithLink(li, m)) /\ Goes(blocks, h, o, q)

LEMMA OneHeader ==
  ASSUME NEW v \in BOOLEAN, NEW n \in Nat, NEW blocks, NEW h, Stepping(v, blocks, n, h),
         NEW o \in Nat, NEW m \in TarMembers, o + 1 <= n, NEW en, NEW li, Stands(h[o], o, en, li),
         Gives(blocks[o + 1], NoPax, NoName, m)
  PROVE  /\ Ready(h[o + 1], o + 1, BlocksOf(m.size), WithFile(en, m, o + 1), WithLink(li, m))
         /\ Goes(blocks, h, o, o + 1)
<1> DEFINE a == h[o]
           b == blocks[o + 1]
           c == h[o + 1]
           k == a.skip
<1>0. Stands(a, o, en, li)
  OBVIOUS
<1>1. c = ScanBlock(v, a, b)
  <2>1. o < n
    OBVIOUS
  <2>2. QED
    BY <2>1, NextState
<1>5. Gives(b, NoPax, NoName, m)
  OBVIOUS
<1> HIDE DEF a, b, c
<1>2. Due(a) /\ a.state = "scan" /\ k \in Int /\ At(a, o, k, "", NoPax, NoName, en, li) /\ ~(k > 0)
  BY <1>0, StandsFacts, Zenon
<1>3. At(c, o + 1, BlocksOf(m.size), "", NoPax, NoName, WithFile(en, m, o + 1), WithLink(li, m))
  BY <1>1, <1>2, <1>5, MemberStep, Zenon
<1>4. Ready(c, o + 1, BlocksOf(m.size), WithFile(en, m, o + 1), WithLink(li, m))
  BY <1>3, Zenon DEF Ready
<1>6. c.state = "scan"
  BY <1>4, ReadyFacts, Zenon
<1>7. Due(h[o]) /\ h[o].state = "scan" /\ h[o + 1].state = "scan"
  BY <1>2, <1>6 DEF a, c
<1>8. Goes(blocks, h, o, o + 1)
  BY <1>7, GoesOne, Zenon
<1>9. QED
  BY <1>4, <1>8, Zenon DEF c

LEMMA PayloadOnly ==
  ASSUME NEW nm, NEW recs
  PROVE  ~IsHeader(Payload(nm, recs))
<1>1. Payload(nm, recs).kind = "payload"
  BY DEF Payload, ABlock
<1>2. QED
  BY <1>1 DEF IsHeader

\* A header with its payload, then a member's.
LEMMA ThreeHeaders ==
  ASSUME NEW v \in BOOLEAN, NEW n \in Nat, NEW blocks, NEW h, Stepping(v, blocks, n, h),
         NEW o \in Nat, NEW m \in TarMembers, o + 3 <= n, NEW en, NEW li, Stands(h[o], o, en, li),
         NEW type \in {"x", "g", "L"}, blocks[o + 1] = Header(type, TRUE, Short, Block, NoName),
         ~IsHeader(blocks[o + 2]), NEW px, NEW pl, Carries(type, blocks[o + 2], NoPax, NoName, px, pl),
         Gives(blocks[o + 3], px, pl, m)
  PROVE  /\ Ready(h[o + 3], o + 3, BlocksOf(m.size), WithFile(en, m, o + 3), WithLink(li, m))
         /\ Goes(blocks, h, o, o + 3)
<1> DEFINE a == h[o]
           b == blocks[o + 1]
           c == h[o + 1]
           d == h[o + 2]
           e == h[o + 3]
           k == a.skip
           l == BlocksOf(Block) - 1
<1>0. Stands(a, o, en, li)
  OBVIOUS
<1>10. o + 1 \in Nat /\ o + 2 \in Nat /\ o + 3 \in Nat /\ (o + 1) + 1 = o + 2 /\ (o + 2) + 1 = o + 3
  OBVIOUS
<1>1. c = ScanBlock(v, a, b) /\ d = ScanBlock(v, c, blocks[o + 2]) /\ e = ScanBlock(v, d, blocks[o + 3])
  <2>1. o + 1 \in 1 .. n /\ o + 2 \in 1 .. n /\ o + 3 \in 1 .. n /\ (o + 1) - 1 = o /\ (o + 2) - 1 = o + 1 /\ (o + 3) - 1 = o + 2
    OBVIOUS
  <2>2. /\ h[o + 1] = ScanBlock(v, h[(o + 1) - 1], blocks[o + 1])
        /\ h[o + 2] = ScanBlock(v, h[(o + 2) - 1], blocks[o + 2])
        /\ h[o + 3] = ScanBlock(v, h[(o + 3) - 1], blocks[o + 3])
    BY <2>1, Zenon DEF Stepping
  <2>3. QED
    BY <2>1, <2>2
<1>5. b = Header(type, TRUE, Short, Block, NoName)
  OBVIOUS
<1> HIDE DEF a, b, c, d, e
<1>2. Due(a) /\ a.state = "scan" /\ k \in Int /\ At(a, o, k, "", NoPax, NoName, en, li) /\ ~(k > 0)
  BY <1>0, StandsFacts, Zenon
<1> HIDE DEF k, l
<1>3. At(c, o + 1, l, type, NoPax, NoName, en, li)
  BY <1>1, <1>2, <1>5, ExtraStep, Zenon DEF l
<1>4. type # "" /\ l \in Int /\ ~(l > 0)
  BY BlockCount DEF l
<1>6. At(d, (o + 1) + 1, l, "", px, pl, en, li)
  BY <1>1, <1>3, <1>4, PayloadStep, Zenon
<1>7. At(e, ((o + 1) + 1) + 1, BlocksOf(m.size), "", NoPax, NoName, WithFile(en, m, ((o + 1) + 1) + 1), WithLink(li, m))
  BY <1>1, <1>4, <1>6, MemberStep, Zenon
<1>8. Ready(e, o + 3, BlocksOf(m.size), WithFile(en, m, o + 3), WithLink(li, m))
  <2>1. ((o + 1) + 1) + 1 = o + 3
    BY <1>10
  <2>2. QED
    BY <1>7, <2>1, Zenon DEF Ready
<1>9. c.state = "scan" /\ d.state = "scan" /\ d.extra = "" /\ d.skip = l
  BY <1>3, <1>6, Zenon DEF At
<1>11. Due(d)
  BY <1>4, <1>9, Zenon DEF Due
<1>12. e.state = "scan"
  BY <1>8, ReadyFacts, Zenon
<1>13. Due(h[o]) /\ h[o].state = "scan" /\ h[o + 1].state = "scan" /\ h[o + 2].state = "scan" /\ Due(h[o + 2]) /\ h[o + 3].state = "scan"
  BY <1>2, <1>9, <1>11, <1>12 DEF a, c, d, e
<1>14. Goes(blocks, h, o, o + 1)
  BY <1>13, GoesOne, Zenon
<1>15. Goes(blocks, h, o + 1, o + 2)
  <2>1. Goes(blocks, h, o + 1, (o + 1) + 1)
    <3>1. h[(o + 1) + 1].state = "scan" /\ ~IsHeader(blocks[(o + 1) + 1])
      BY <1>10, <1>13
    <3>2. QED
      BY <1>10, <1>13, <3>1, GoesOne, Zenon
  <2>2. QED
    BY <1>10, <2>1
<1>16. Goes(blocks, h, o + 2, o + 3)
  <2>1. Goes(blocks, h, o + 2, (o + 2) + 1)
    <3>1. h[(o + 2) + 1].state = "scan"
      BY <1>10, <1>13
    <3>2. QED
      BY <1>10, <1>13, <3>1, GoesOne, Zenon
  <2>2. QED
    BY <1>10, <2>1
<1>17. Goes(blocks, h, o, o + 3)
  <2>1. o <= o + 1 /\ o + 1 <= o + 2 /\ o <= o + 2 /\ o + 2 <= o + 3
    OBVIOUS
  <2>2. Goes(blocks, h, o, o + 2)
    BY <1>10, <1>14, <1>15, <2>1, GoesJoin, Zenon
  <2>3. QED
    BY <1>10, <1>16, <2>1, <2>2, GoesJoin, Zenon
<1>18. QED
  BY <1>8, <1>17, Zenon DEF e

LEMMA HeaderGives ==
  ASSUME NEW m \in TarMembers, NEW nm, NEW sz \in Nat, NEW nx, NEW lg,
         \/ nx = NoPax /\ lg = NoName /\ nm = m.name /\ sz = m.size
         \/ nx = [path |-> m.name, size |-> m.size] /\ lg = NoName
         \/ nx = NoPax /\ lg = m.name /\ sz = m.size
  PROVE  Gives(Header(KindOf(m), TRUE, nm, sz, m.to), nx, lg, m)
<1> DEFINE b == Header(KindOf(m), TRUE, nm, sz, m.to)
<1>1. b.kind = "header" /\ b.type = KindOf(m) /\ b.sound = TRUE /\ b.name = nm /\ b.size = sz /\ b.to = m.to
  BY DEF Header, ABlock
<1> HIDE DEF b
<1>2. b.size # NoSize
  BY <1>1 DEF NoSize
<1>3. Gives(b, nx, lg, m)
  BY <1>1, <1>2 DEF Gives
<1>4. QED
  BY <1>3 DEF b

\* What stands before the data.
HeadedBy(m, s) ==
  \/ m.how = "plain" /\ Gives(s[1], NoPax, NoName, m)
  \/ /\ m.how # "plain" /\ ~IsHeader(s[2])
     /\ \E type \in {"x", "g", "L"} : \E px, pl :
          /\ s[1] = Header(type, TRUE, Short, Block, NoName)
          /\ Carries(type, s[2], NoPax, NoName, px, pl) /\ Gives(s[3], px, pl, m)

LEMMA HeadsGive ==
  ASSUME NEW m \in TarMembers
  PROVE  HeadedBy(m, HeadOf(m))
<1>0. m.name \in Names /\ m.name # NoName /\ m.size \in Nat /\ (m.how = "plain" \/ m.how = "pax" \/ m.how = "long")
  BY MemberFields
<1>1. CASE m.how = "plain"
  <2> DEFINE b == Header(KindOf(m), TRUE, m.name, m.size, m.to)
  <2>1. Gives(b, NoPax, NoName, m)
    BY <1>0, HeaderGives
  <2> HIDE DEF b
  <2>2. HeadOf(m) = <<b>>
    BY <1>1 DEF HeadOf, b
  <2>3. QED
    BY <1>1, <2>1, <2>2 DEF HeadedBy
<1>2. CASE m.how = "pax"
  <2> DEFINE b1 == Header("x", TRUE, Short, Block, NoName)
             b2 == Payload(NoName, PaxOf(m))
             b3 == Header(KindOf(m), TRUE, Short, 0, m.to)
             px == [path |-> m.name, size |-> m.size]
             s == <<b1, b2, b3>>
  <2>1. Gives(b3, px, NoName, m)
    BY <1>0, HeaderGives
  <2>2. ~IsHeader(b2)
    BY PayloadOnly, Zenon
  <2>3. b2.recs = PaxOf(m)
    BY DEF Payload, ABlock
  <2>4. HeadOf(m) = s
    BY <1>2 DEF HeadOf
  <2>5. px \in Paxes
    BY <1>0 DEF Paxes
  <2>6. ParsePax(PaxOf(m)) = [state |-> "go", kv |-> px]
    BY MemberParsed
  <2> HIDE DEF b2, b3, px
  <2>7. Carries("x", b2, NoPax, NoName, px, NoName)
    BY <2>3, <2>5, <2>6, Zenon DEF Carries
  <2> HIDE DEF b1
  <2>8. s[1] = b1 /\ s[2] = b2 /\ s[3] = b3
    OBVIOUS
  <2> HIDE DEF s
  <2>9. "x" \in {"x", "g", "L"} /\ m.how # "plain"
    BY <1>2
  <2>10. HeadedBy(m, s)
    BY <2>1, <2>2, <2>7, <2>8, <2>9, Zenon DEF HeadedBy, b1
  <2>11. QED
    BY <2>4, <2>10
<1>3. CASE m.how = "long"
  <2> DEFINE b1 == Header("L", TRUE, Short, Block, NoName)
             b2 == Payload(m.name, << >>)
             b3 == Header(KindOf(m), TRUE, Short, m.size, m.to)
             s == <<b1, b2, b3>>
  <2>1. Gives(b3, NoPax, m.name, m)
    BY <1>0, HeaderGives
  <2>2. ~IsHeader(b2)
    BY PayloadOnly, Zenon
  <2>3. b2.name = m.name
    BY DEF Payload, ABlock
  <2>4. HeadOf(m) = s
    BY <1>3 DEF HeadOf
  <2> HIDE DEF b2, b3
  <2>7. Carries("L", b2, NoPax, NoName, NoPax, m.name)
    BY <1>0, <2>3, Zenon DEF Carries
  <2> HIDE DEF b1
  <2>8. s[1] = b1 /\ s[2] = b2 /\ s[3] = b3
    OBVIOUS
  <2> HIDE DEF s
  <2>9. "L" \in {"x", "g", "L"} /\ m.how # "plain"
    BY <1>3
  <2>10. HeadedBy(m, s)
    BY <2>1, <2>2, <2>7, <2>8, <2>9, Zenon DEF HeadedBy, b1
  <2>11. QED
    BY <2>4, <2>10
<1>4. QED
  BY <1>0, <1>1, <1>2, <1>3

\* A member stands in the blocks after o.
PlacedAt(blocks, o, m) == \A j \in 1 .. Extent(m) : blocks[o + j] = Written(m)[j]

LEMMA HeadScanned ==
  ASSUME NEW v \in BOOLEAN, NEW n \in Nat, NEW blocks, NEW h, Stepping(v, blocks, n, h),
         NEW o \in Nat, NEW m \in TarMembers, o + Extent(m) <= n, PlacedAt(blocks, o, m),
         NEW en, NEW li, Stands(h[o], o, en, li)
  PROVE  HeadDone(blocks, h, o, m, en, li)
<1>1. HeadedBy(m, HeadOf(m))
  BY HeadsGive
<1>2. /\ (HeadLen(m) = 1 \/ HeadLen(m) = 3) /\ Extent(m) \in Nat
      /\ BlocksOf(m.size) \in Nat /\ Extent(m) = HeadLen(m) + BlocksOf(m.size)
  BY MemberFields DEF Extent
<1>3. ASSUME NEW j \in 1 .. HeadLen(m) PROVE blocks[o + j] = HeadOf(m)[j]
  <2>1. j \in 1 .. Extent(m)
    BY <1>2
  <2>2. blocks[o + j] = Written(m)[j]
    BY <2>1, Zenon DEF PlacedAt
  <2>3. QED
    BY <2>2, WrittenPlaces, Zenon
<1>4. CASE m.how = "plain" /\ Gives(HeadOf(m)[1], NoPax, NoName, m)
  <2>1. HeadLen(m) = 1
    BY <1>4 DEF HeadLen
  <2>2. o + 1 <= n /\ 1 \in 1 .. HeadLen(m)
    BY <1>2, <2>1
  <2>3. Gives(blocks[o + 1], NoPax, NoName, m)
    BY <1>3, <1>4, <2>2, Zenon
  <2>4. /\ Ready(h[o + 1], o + 1, BlocksOf(m.size), WithFile(en, m, o + 1), WithLink(li, m))
        /\ Goes(blocks, h, o, o + 1)
    BY <2>2, <2>3, OneHeader, Zenon
  <2>5. QED
    BY <2>1, <2>4, Zenon DEF HeadDone
<1>5. CASE /\ m.how # "plain" /\ ~IsHeader(HeadOf(m)[2])
           /\ \E type \in {"x", "g", "L"} : \E px, pl :
                /\ HeadOf(m)[1] = Header(type, TRUE, Short, Block, NoName)
                /\ Carries(type, HeadOf(m)[2], NoPax, NoName, px, pl) /\ Gives(HeadOf(m)[3], px, pl, m)
  <2>1. HeadLen(m) = 3
    BY <1>5 DEF HeadLen
  <2>2. o + 3 <= n /\ 1 \in 1 .. HeadLen(m) /\ 2 \in 1 .. HeadLen(m) /\ 3 \in 1 .. HeadLen(m)
    BY <1>2, <2>1
  <2>3. blocks[o + 1] = HeadOf(m)[1] /\ blocks[o + 2] = HeadOf(m)[2] /\ blocks[o + 3] = HeadOf(m)[3]
    BY <1>3, <2>2, Zenon
  <2>8. PICK type \in {"x", "g", "L"} : \E px, pl :
          /\ HeadOf(m)[1] = Header(type, TRUE, Short, Block, NoName)
          /\ Carries(type, HeadOf(m)[2], NoPax, NoName, px, pl) /\ Gives(HeadOf(m)[3], px, pl, m)
    BY <1>5, Zenon
  <2>4. PICK px, pl :
          /\ HeadOf(m)[1] = Header(type, TRUE, Short, Block, NoName)
          /\ Carries(type, HeadOf(m)[2], NoPax, NoName, px, pl) /\ Gives(HeadOf(m)[3], px, pl, m)
    BY <2>8, Zenon
  <2>5. /\ blocks[o + 1] = Header(type, TRUE, Short, Block, NoName) /\ ~IsHeader(blocks[o + 2])
        /\ Carries(type, blocks[o + 2], NoPax, NoName, px, pl) /\ Gives(blocks[o + 3], px, pl, m)
    BY <1>5, <2>3, <2>4, Zenon
  <2>6. /\ Ready(h[o + 3], o + 3, BlocksOf(m.size), WithFile(en, m, o + 3), WithLink(li, m))
        /\ Goes(blocks, h, o, o + 3)
    BY <2>2, <2>5, ThreeHeaders, Zenon
  <2>7. QED
    BY <2>1, <2>6, Zenon DEF HeadDone
<1>6. QED
  BY <1>1, <1>4, <1>5, Zenon DEF HeadedBy

\* A member is read: it is on record, and the next header is due.
LEMMA MemberScanned ==
  ASSUME NEW v \in BOOLEAN, NEW n \in Nat, NEW blocks, NEW h, Stepping(v, blocks, n, h),
         NEW o \in Nat, NEW m \in TarMembers, o + Extent(m) <= n, PlacedAt(blocks, o, m),
         NEW en, NEW li, Stands(h[o], o, en, li)
  PROVE  /\ Stands(h[o + Extent(m)], o + Extent(m), WithFile(en, m, o + HeadLen(m)), WithLink(li, m))
         /\ Goes(blocks, h, o, o + Extent(m))
<1> DEFINE q == o + HeadLen(m)
           c == BlocksOf(m.size)
           e == o + Extent(m)
           files == WithFile(en, m, q)
           more == WithLink(li, m)
<1>1. HeadDone(blocks, h, o, m, en, li)
  BY HeadScanned, Zenon
<1>2. Ready(h[q], q, c, files, more) /\ Goes(blocks, h, o, q)
  BY <1>1, Zenon DEF HeadDone
<1>3. q \in Nat /\ c \in Nat /\ e \in Nat /\ q + c = e /\ o <= q /\ q <= e /\ e <= n
  <2>1. HeadLen(m) \in Nat /\ BlocksOf(m.size) \in Nat /\ Extent(m) = HeadLen(m) + BlocksOf(m.size)
    BY MemberFields DEF Extent
  <2>2. QED
    BY <2>1
<1>4. ASSUME NEW i \in q + 1 .. q + c PROVE ~IsHeader(blocks[i])
  <2> DEFINE j == i - o
  <2>1. HeadLen(m) \in Nat /\ BlocksOf(m.size) \in Nat /\ Extent(m) = HeadLen(m) + BlocksOf(m.size)
    BY MemberFields DEF Extent
  <2>2. j \in 1 .. Extent(m) /\ j \in HeadLen(m) + 1 .. Extent(m) /\ o + j = i
    BY <2>1
  <2> HIDE DEF j
  <2>3. blocks[o + j] = DataOf(m.name)
    BY <2>2, WrittenPlaces, Zenon DEF PlacedAt
  <2>4. DataOf(m.name).kind = "data"
    BY DEF DataOf, ABlock
  <2>5. blocks[i].kind = "data"
    BY <2>2, <2>3, <2>4
  <2>6. QED
    BY <2>5 DEF IsHeader
<1> HIDE DEF files, more, q, c
<1>5. Ready(h[q + c], q + c, 0, files, more) /\ Goes(blocks, h, q, q + c)
  BY <1>2, <1>3, <1>4, DataScanned, Zenon
<1> HIDE DEF e
<1>6. Ready(h[e], e, 0, files, more) /\ Goes(blocks, h, q, e)
  BY <1>3, <1>5
<1>7. Goes(blocks, h, o, e)
  BY <1>2, <1>3, <1>6, GoesJoin, Zenon
<1> DEFINE a == h[e]
           z == 0
<1>10. Ready(a, e, z, files, more)
  BY <1>6
<1>11. ~(z > 0)
  OBVIOUS
<1> HIDE DEF a, z
<1>8. Stands(a, e, files, more)
  <2>1. a.skip = z
    BY <1>10, ReadyFacts, Zenon
  <2>2. QED
    BY <1>10, <1>11, <2>1, Zenon DEF Stands
<1>9. QED
  BY <1>7, <1>8, Zenon DEF a, e, files, more, q

\* Sequences are put one behind the other.
Joining(ss, n, g) ==
  g[0] = << >> /\ g[n] = FlattenSeq(ss) /\ \A k \in 1 .. n : g[k] = g[k - 1] \o ss[k]

LEMMA FlatOneByOne ==
  ASSUME NEW S, NEW n \in Nat, NEW ss \in [1 .. n -> Seq(S)]
  PROVE  \E g \in [0 .. n -> Seq(S)] : Joining(ss, n, g)
<1>1. Len(ss) = n
  OBVIOUS
<1> DEFINE f == CHOOSE q : FlatOf(ss, n, q)
<1>2. FlatOf(ss, n, f)
  <2>1. n \in 0 .. n
    OBVIOUS
  <2>2. \E q : FlatOf(ss, n, q)
    BY <2>1, FlatExists
  <2>3. QED
    BY <2>2, Zenon
<1>13. ASSUME n # 0 PROVE FlattenSeq(ss) = f[n]
  BY <1>1, <1>13 DEF FlattenSeq, FlatOf
<1> HIDE DEF f
<1> DEFINE g == [k \in 0 .. n |-> IF k = 0 THEN << >> ELSE f[k]]
<1>3. g[0] = << >> /\ \A k \in 1 .. n : g[k] = f[k]
  OBVIOUS
<1>4. ASSUME NEW k \in 1 .. n PROVE f[k] = IF k = 1 THEN ss[k] ELSE f[k - 1] \o ss[k]
  BY <1>2, Zenon DEF FlatOf
<1>5. ASSUME NEW k \in 1 .. n PROVE g[k] = g[k - 1] \o ss[k]
  <2>1. ss[k] \in Seq(S)
    OBVIOUS
  <2>2. CASE k = 1
    <3>1. k - 1 = 0 /\ << >> \o ss[k] = ss[k]
      BY <2>1, <2>2
    <3>2. QED
      BY <3>1, <2>2, <1>3, <1>4
  <2>3. CASE k # 1
    <3>1. k - 1 \in 1 .. n
      BY <2>3
    <3>2. QED
      BY <3>1, <2>3, <1>3, <1>4
  <2>4. QED
    BY <2>2, <2>3
<1>6. g[n] = FlattenSeq(ss)
  <2>1. CASE n = 0
    <3>1. ss = << >> /\ FlattenSeq(ss) = ss
      BY <1>1, <2>1 DEF FlattenSeq
    <3>2. QED
      BY <3>1, <2>1, <1>3
  <2>2. CASE n # 0
    <3>1. n \in 1 .. n
      BY <2>2
    <3>2. QED
      BY <1>3, <1>13, <2>2, <3>1
  <2>3. QED
    BY <2>1, <2>2
<1> HIDE DEF g
<1> DEFINE T == {k \in 0 .. n : g[k] \in Seq(S)}
<1>7. 0 \in T
  <2>1. << >> \in Seq(S) /\ 0 \in 0 .. n
    OBVIOUS
  <2>2. QED
    BY <1>3, <2>1
<1>8. ASSUME NEW k \in 0 .. n, k \in T, k < n PROVE k + 1 \in T
  <2>1. k + 1 \in 1 .. n /\ (k + 1) - 1 = k /\ k + 1 \in 0 .. n
    BY <1>8
  <2>2. g[k + 1] = g[k] \o ss[k + 1] /\ g[k] \in Seq(S) /\ ss[k + 1] \in Seq(S)
    BY <1>5, <1>8, <2>1
  <2>3. g[k + 1] \in Seq(S)
    BY <2>2
  <2>4. QED
    BY <2>1, <2>3
<1> HIDE DEF T
<1>9. \A k \in 0 .. n : k \in T
  BY <1>7, <1>8, Upwards
<1>14. \A k \in 0 .. n : g[k] \in Seq(S)
  BY <1>9 DEF T
<1>10. g \in [0 .. n -> Seq(S)]
  BY <1>14 DEF g
<1>11. Joining(ss, n, g)
  BY <1>3, <1>5, <1>6, Zenon DEF Joining
<1>12. QED
  BY <1>10, <1>11

\* Each of them is found where it was put.
StandsIn(x, s, c) == Len(x) + Len(s) <= Len(c) /\ \A j \in 1 .. Len(s) : c[Len(x) + j] = s[j]
Joined(ss, l, g) == \A k \in 1 .. l : StandsIn(g[k - 1], ss[k], g[l])

LEMMA JoinMore ==
  ASSUME NEW S, NEW a \in Seq(S), NEW b \in Seq(S)
  PROVE  /\ a \o b \in Seq(S) /\ Len(a \o b) = Len(a) + Len(b)
         /\ Len(a) \in Nat /\ Len(b) \in Nat
         /\ \A i \in 1 .. Len(a) : (a \o b)[i] = a[i]
         /\ \A j \in 1 .. Len(b) : (a \o b)[Len(a) + j] = b[j]
OBVIOUS

LEMMA FlatPlaced ==
  ASSUME NEW S, NEW n \in Nat, NEW ss \in [1 .. n -> Seq(S)], NEW g \in [0 .. n -> Seq(S)], Joining(ss, n, g)
  PROVE  Joined(ss, n, g)
<1> DEFINE T == {l \in 0 .. n : Joined(ss, l, g)}
<1>1. 0 \in T
  <2>1. 0 \in 0 .. n /\ \A k \in 1 .. 0 : FALSE
    OBVIOUS
  <2>2. Joined(ss, 0, g)
    BY <2>1, Zenon DEF Joined
  <2>3. QED
    BY <2>1, <2>2
<1>2. ASSUME NEW l \in 0 .. n, l \in T, l < n PROVE l + 1 \in T
  <2>1. l + 1 \in 1 .. n /\ (l + 1) - 1 = l /\ l + 1 \in 0 .. n
    BY <1>2
  <2> DEFINE a == g[l]
             b == ss[l + 1]
             c == g[l + 1]
  <2>2. c = a \o b /\ a \in Seq(S) /\ b \in Seq(S)
    <3>1. g[l + 1] = g[(l + 1) - 1] \o ss[l + 1]
      BY <2>1, Zenon DEF Joining
    <3>2. QED
      BY <3>1, <2>1
  <2>3. /\ Len(c) = Len(a) + Len(b) /\ Len(a) \in Nat /\ Len(b) \in Nat
        /\ \A i \in 1 .. Len(a) : c[i] = a[i]
        /\ \A j \in 1 .. Len(b) : c[Len(a) + j] = b[j]
    BY <2>2, JoinMore
  <2>8. \A k \in 1 .. l : StandsIn(g[k - 1], ss[k], a)
    BY <1>2, Zenon DEF Joined
  <2>9. \A k \in 1 .. l : Len(g[k - 1]) \in Nat /\ Len(ss[k]) \in Nat
    BY <1>2
  <2> HIDE DEF a, b, c
  <2>4. ASSUME NEW k \in 1 .. l PROVE StandsIn(g[k - 1], ss[k], c)
    <3> DEFINE x == g[k - 1]
               y == ss[k]
    <3>1. StandsIn(x, y, a) /\ Len(x) \in Nat /\ Len(y) \in Nat
      BY <2>8, <2>9
    <3> HIDE DEF x, y
    <3>2. Len(x) + Len(y) <= Len(a) /\ \A j \in 1 .. Len(y) : a[Len(x) + j] = y[j]
      BY <3>1 DEF StandsIn
    <3>3. ASSUME NEW j \in 1 .. Len(y) PROVE c[Len(x) + j] = y[j]
      <4>1. Len(x) + j \in 1 .. Len(a)
        BY <2>3, <3>1, <3>2
      <4>2. QED
        BY <4>1, <2>3, <3>2
    <3>4. Len(x) + Len(y) <= Len(c)
      BY <2>3, <3>1, <3>2
    <3>5. StandsIn(x, y, c)
      BY <3>3, <3>4 DEF StandsIn
    <3>6. QED
      BY <3>5 DEF x, y
  <2>5. ASSUME NEW k \in 1 .. l + 1 PROVE StandsIn(g[k - 1], ss[k], c)
    <3>1. CASE k \in 1 .. l
      BY <3>1, <2>4
    <3>2. CASE k = l + 1
      <4>1. k - 1 = l
        BY <3>2
      <4>2. g[k - 1] = a /\ ss[k] = b
        BY <3>2, <4>1, Zenon DEF a, b
      <4>3. StandsIn(a, b, c)
        BY <2>3 DEF StandsIn
      <4>4. QED
        BY <4>2, <4>3
    <3>3. QED
      BY <3>1, <3>2
  <2>6. Joined(ss, l + 1, g)
    BY <2>5, Zenon DEF Joined, c
  <2>7. QED
    BY <2>1, <2>6
<1> HIDE DEF T
<1>3. \A l \in 0 .. n : l \in T
  BY <1>1, <1>2, Upwards
<1>4. n \in 0 .. n
  OBVIOUS
<1>5. QED
  BY <1>3, <1>4 DEF T

\* Where the members of an archive stand: member k in the blocks after off[k - 1].
Comment == Payload(NoName, <<[key |-> "comment", path |-> NoName, size |-> NoSize]>>)
Ends(blocks, e) ==
  /\ blocks \in Seq(TarBlocks) /\ Len(blocks) = e + 2
  /\ blocks[1] = Header("g", TRUE, Short, Block, NoName) /\ blocks[2] = Comment
  /\ blocks[e + 1] = Zeros /\ blocks[e + 2] = Zeros
PackedAt(members, n, off, blocks) ==
  /\ off[0] = 2 /\ Ends(blocks, off[n])
  /\ \A k \in 0 .. n : off[k] \in Nat /\ off[k] <= off[n]
  /\ \A k \in 1 .. n : off[k] = off[k - 1] + Extent(members[k]) /\ PlacedAt(blocks, off[k - 1], members[k])

LEMMA Wrapped ==
  ASSUME NEW S, NEW x1 \in S, NEW x2 \in S, NEW y1 \in S, NEW y2 \in S, NEW f \in Seq(S),
         NEW c, c = <<x1, x2>> \o f \o <<y1, y2>>
  PROVE  /\ c \in Seq(S) /\ Len(f) \in Nat /\ Len(c) = Len(f) + 4
         /\ c[1] = x1 /\ c[2] = x2 /\ c[Len(f) + 3] = y1 /\ c[Len(f) + 4] = y2
         /\ \A i \in 1 .. Len(f) : c[i + 2] = f[i]
<1> DEFINE a == <<x1, x2>>
           b == <<y1, y2>>
           d == a \o f
<1>1. a \in Seq(S) /\ b \in Seq(S) /\ Len(a) = 2 /\ Len(b) = 2 /\ a[1] = x1 /\ a[2] = x2 /\ b[1] = y1 /\ b[2] = y2
  OBVIOUS
<1> HIDE DEF a, b
<1>2. /\ d \in Seq(S) /\ Len(d) = 2 + Len(f) /\ Len(f) \in Nat
      /\ \A i \in 1 .. 2 : d[i] = a[i]
      /\ \A i \in 1 .. Len(f) : d[2 + i] = f[i]
  <2>3. a \in Seq(S) /\ f \in Seq(S)
    BY <1>1
  <2>4. /\ a \o f \in Seq(S) /\ Len(a \o f) = Len(a) + Len(f) /\ Len(f) \in Nat
        /\ \A i \in 1 .. Len(a) : (a \o f)[i] = a[i]
        /\ \A i \in 1 .. Len(f) : (a \o f)[Len(a) + i] = f[i]
    BY <2>3
  <2>1. /\ d \in Seq(S) /\ Len(d) = Len(a) + Len(f) /\ Len(f) \in Nat
        /\ \A i \in 1 .. Len(a) : d[i] = a[i]
        /\ \A i \in 1 .. Len(f) : d[Len(a) + i] = f[i]
    BY <2>4
  <2> HIDE DEF d
  <2>2. QED
    BY <1>1, <2>1, Zenon
<1>3. c = d \o b
  BY DEF a, b
<1> HIDE DEF d
<1>4. /\ c \in Seq(S) /\ Len(c) = Len(d) + 2
      /\ \A i \in 1 .. Len(d) : c[i] = d[i]
      /\ \A i \in 1 .. 2 : c[Len(d) + i] = b[i]
  BY <1>1, <1>2, <1>3, JoinMore
<1>5. 1 \in 1 .. 2 /\ 2 \in 1 .. 2 /\ 1 \in 1 .. Len(d) /\ 2 \in 1 .. Len(d)
  BY <1>2
<1>6. c[1] = x1 /\ c[2] = x2
  BY <1>1, <1>2, <1>4, <1>5
<1>7. c[Len(f) + 3] = y1 /\ c[Len(f) + 4] = y2
  <2>1. Len(d) + 1 = Len(f) + 3 /\ Len(d) + 2 = Len(f) + 4
    BY <1>2
  <2>2. c[Len(d) + 1] = b[1] /\ c[Len(d) + 2] = b[2]
    BY <1>4, <1>5
  <2>3. QED
    BY <1>1, <2>1, <2>2
<1>8. ASSUME NEW i \in 1 .. Len(f) PROVE c[i + 2] = f[i]
  <2>1. i + 2 \in 1 .. Len(d) /\ i + 2 = 2 + i
    BY <1>2
  <2>2. c[i + 2] = d[i + 2]
    BY <1>4, <2>1
  <2>3. QED
    BY <1>2, <2>1, <2>2
<1>9. Len(c) = Len(f) + 4
  BY <1>2, <1>4
<1>10. QED
  BY <1>2, <1>4, <1>6, <1>7, <1>8, <1>9

LEMMA PackPlaces ==
  ASSUME NEW n \in Nat, NEW members \in [1 .. n -> TarMembers]
  PROVE  \E off \in [0 .. n -> Nat] : PackedAt(members, n, off, Pack(members))
<1> DEFINE ss == [i \in 1 .. n |-> Written(members[i])]
           fl == FlattenSeq(ss)
           x1 == Header("g", TRUE, Short, Block, NoName)
           blocks == Pack(members)
<1>1. ASSUME NEW k \in 1 .. n
      PROVE  /\ members[k] \in TarMembers /\ Written(members[k]) \in Seq(TarBlocks) /\ Len(Written(members[k])) = Extent(members[k])
             /\ Extent(members[k]) \in Nat
  <2>1. members[k] \in TarMembers
    OBVIOUS
  <2>2. QED
    BY <2>1, WrittenPlaces, MemberFields, Zenon
<1>2. ss \in [1 .. n -> Seq(TarBlocks)] /\ \A k \in 1 .. n : ss[k] = Written(members[k])
  BY <1>1
<1>3. blocks = <<x1, Comment>> \o fl \o <<Zeros, Zeros>>
  <2>1. DOMAIN members = 1 .. n
    OBVIOUS
  <2>2. QED
    BY <2>1, Zenon DEF Pack, Comment
<1>4. x1 \in TarBlocks /\ Comment \in TarBlocks /\ Zeros \in TarBlocks
  <2>1. Block \in Int
    BY TarAssumption
  <2>2. QED
    BY <2>1, NoNameTyped, ShortTyped, BlocksTyped, Zenon DEF Comment
<1> HIDE DEF ss
<1>5. PICK g \in [0 .. n -> Seq(TarBlocks)] : Joining(ss, n, g)
  BY <1>2, FlatOneByOne
<1>6. Joined(ss, n, g)
  BY <1>2, <1>5, FlatPlaced
<1>7. /\ g[0] = << >> /\ g[n] = fl /\ \A k \in 1 .. n : g[k] = g[k - 1] \o ss[k]
  BY <1>5, Zenon DEF Joining
<1> HIDE DEF blocks, x1, fl
<1>8. fl \in Seq(TarBlocks)
  BY <1>7
<1>9. /\ blocks \in Seq(TarBlocks) /\ Len(fl) \in Nat /\ Len(blocks) = Len(fl) + 4
      /\ blocks[1] = x1 /\ blocks[2] = Comment /\ blocks[Len(fl) + 3] = Zeros /\ blocks[Len(fl) + 4] = Zeros
      /\ \A i \in 1 .. Len(fl) : blocks[i + 2] = fl[i]
  BY <1>3, <1>4, <1>8, Wrapped
<1> DEFINE off == [k \in 0 .. n |-> Len(g[k]) + 2]
<1>10. ASSUME NEW k \in 0 .. n PROVE off[k] = Len(g[k]) + 2 /\ Len(g[k]) \in Nat /\ off[k] \in Nat
  BY <1>5
<1>11. off \in [0 .. n -> Nat]
  BY <1>10
<1> HIDE DEF off
<1>12. off[0] = 2
  <2>1. Len(<< >>) = 0 /\ 0 \in 0 .. n
    OBVIOUS
  <2>2. QED
    BY <1>7, <1>10, <2>1
<1>13. off[n] = Len(fl) + 2 /\ off[n] + 2 = Len(fl) + 4 /\ off[n] + 1 = Len(fl) + 3
  <2>1. n \in 0 .. n
    OBVIOUS
  <2>2. off[n] = Len(fl) + 2
    BY <1>7, <1>10, <2>1
  <2>3. QED
    BY <1>9, <2>2
<1>14. Ends(blocks, off[n])
  BY <1>9, <1>13 DEF Ends, x1
<1>15. ASSUME NEW k \in 1 .. n
       PROVE  /\ k - 1 \in 0 .. n /\ k \in 0 .. n
              /\ off[k] = off[k - 1] + Extent(members[k]) /\ off[k] <= off[n]
              /\ PlacedAt(blocks, off[k - 1], members[k])
  <2> DEFINE x == g[k - 1]
             m == members[k]
  <2>1. k - 1 \in 0 .. n /\ k \in 0 .. n
    OBVIOUS
  <2>2. StandsIn(x, ss[k], fl)
    BY <1>6, <1>7, Zenon DEF Joined
  <2>3. /\ ss[k] = Written(m) /\ ss[k] \in Seq(TarBlocks) /\ Len(ss[k]) = Extent(m) /\ Extent(m) \in Nat
    BY <1>1, <1>2
  <2>12. g[k] = x \o ss[k]
    BY <1>7, Zenon
  <2>13. x \in Seq(TarBlocks)
    BY <1>5, <2>1
  <2> HIDE DEF x, m
  <2>4. Len(x) \in Nat
    BY <2>13
  <2>5. Len(g[k]) = Len(x) + Extent(m)
    <3>1. Len(x \o ss[k]) = Len(x) + Len(ss[k])
      BY <2>3, <2>13, JoinMore, Zenon
    <3>2. QED
      BY <2>3, <2>12, <3>1
  <2>6. Len(x) + Extent(m) <= Len(fl) /\ \A j \in 1 .. Extent(m) : fl[Len(x) + j] = Written(m)[j]
    BY <2>2, <2>3 DEF StandsIn
  <2>7. off[k - 1] = Len(x) + 2 /\ off[k] = Len(g[k]) + 2
    BY <1>10, <2>1 DEF x
  <2>8. off[k] = off[k - 1] + Extent(m) /\ off[k] <= off[n]
    BY <1>9, <1>13, <2>3, <2>4, <2>5, <2>6, <2>7
  <2>9. ASSUME NEW j \in 1 .. Extent(m) PROVE blocks[off[k - 1] + j] = Written(m)[j]
    <3> DEFINE lx == Len(x)
               lf == Len(fl)
               lm == Extent(m)
    <3>4. lx \in Nat /\ lf \in Nat /\ lm \in Nat /\ lx + lm <= lf /\ j \in 1 .. lm
      BY <1>9, <2>3, <2>4, <2>6
    <3> HIDE DEF lx, lf, lm
    <3>5. lx + j \in 1 .. lf /\ (lx + 2) + j = (lx + j) + 2
      BY <3>4
    <3>1. Len(x) + j \in 1 .. Len(fl) /\ off[k - 1] + j = (Len(x) + j) + 2
      BY <2>7, <3>5, Zenon DEF lx, lf
    <3>2. blocks[(Len(x) + j) + 2] = fl[Len(x) + j]
      BY <1>9, <3>1
    <3>3. QED
      BY <2>6, <3>1, <3>2
  <2>10. PlacedAt(blocks, off[k - 1], m)
    BY <2>9, Zenon DEF PlacedAt
  <2>11. QED
    BY <2>1, <2>8, <2>10 DEF m
<1>16. ASSUME NEW k \in 0 .. n PROVE off[k] \in Nat /\ off[k] <= off[n]
  <2>1. CASE k = 0
    <3>1. off[0] = 2 /\ off[n] = Len(fl) + 2
      BY <1>12, <1>13
    <3>2. QED
      BY <1>9, <2>1, <3>1
  <2>2. CASE k # 0
    <3>1. k \in 1 .. n
      BY <2>2
    <3>2. QED
      BY <1>10, <1>15, <3>1
  <2>3. QED
    BY <2>1, <2>2
<1>17. PackedAt(members, n, off, blocks)
  BY <1>12, <1>14, <1>15, <1>16, Zenon DEF PackedAt
<1>18. QED
  BY <1>11, <1>17 DEF blocks

LEMMA StartStands == Stands(ScanStart, 0, << >>, << >>)
<1> DEFINE a == ScanStart
           e == << >>
           k == a.skip
<1>1. a \in ScanStates
  BY NoNameTyped, StartTyped
<1>2. /\ a.pos = 0 /\ a.skip = 0 /\ a.extra = "" /\ a.next = NoPax /\ a.global = NoPax
      /\ a.long = NoName /\ a.entries = e /\ a.links = e /\ a.state = "scan"
  BY DEF ScanStart
<1>0. ~(0 > 0)
  OBVIOUS
<1>3. ~(k > 0)
  BY <1>0, <1>2, Zenon
<1> HIDE DEF a, e, k
<1>4. a.skip = k
  BY DEF k
<1>5. Ready(a, 0, k, e, e)
  BY <1>1, <1>2, <1>4, Zenon DEF Ready, At
<1>6. Stands(a, 0, e, e)
  BY <1>3, <1>4, <1>5, Zenon DEF Stands
<1>7. QED
  BY <1>6 DEF a, e

LEMMA CommentCarries ==
  /\ ~IsHeader(Comment)
  /\ Carries("g", Comment, NoPax, NoName, NoPax, NoName)
<1>1. ~IsHeader(Comment)
  BY PayloadOnly, Zenon DEF Comment
<1>2. ParsePax(Comment.recs) = [state |-> "go", kv |-> NoPax]
  <2> DEFINE r == <<[key |-> "comment", path |-> NoName, size |-> NoSize]>>
  <2>1. ParsePax(r) = [state |-> "go", kv |-> NoPax]
    BY CommentParsed
  <2> HIDE DEF r
  <2>2. Comment.recs = r
    BY DEF Comment, Payload, ABlock, r
  <2>3. QED
    BY <2>1, <2>2
<1>3. Carries("g", Comment, NoPax, NoName, NoPax, NoName)
  BY <1>2, Zenon DEF Carries
<1>4. QED
  BY <1>1, <1>3, Zenon

\* The global header and its comment are passed over.
LEMMA StartScanned ==
  ASSUME NEW v \in BOOLEAN, NEW n \in Nat, NEW blocks, NEW h, Stepping(v, blocks, n, h),
         h[0] = ScanStart, 2 <= n, blocks[1] = Header("g", TRUE, Short, Block, NoName), blocks[2] = Comment
  PROVE  Stands(h[2], 2, << >>, << >>) /\ Goes(blocks, h, 0, 2)
<1> DEFINE a == h[0]
           b == blocks[1]
           c == h[1]
           d == h[2]
           k == a.skip
           l == BlocksOf(Block) - 1
           e == << >>
           ty == "g"
<1>1. c = ScanBlock(v, a, b) /\ d = ScanBlock(v, c, blocks[2])
  <2>1. 1 \in 1 .. n /\ 2 \in 1 .. n /\ 1 - 1 = 0 /\ 2 - 1 = 1
    OBVIOUS
  <2>2. h[1] = ScanBlock(v, h[1 - 1], blocks[1]) /\ h[2] = ScanBlock(v, h[2 - 1], blocks[2])
    BY <2>1, Zenon DEF Stepping
  <2>3. QED
    BY <2>1, <2>2
<1>2. Stands(a, 0, e, e)
  BY StartStands
<1>3. ty \in {"x", "g", "L"} /\ ty # ""
  OBVIOUS
<1>4. b = Header(ty, TRUE, Short, Block, NoName) /\ blocks[2] = Comment
  OBVIOUS
<1>5. Carries(ty, Comment, NoPax, NoName, NoPax, NoName) /\ ~IsHeader(Comment)
  BY CommentCarries, Zenon
<1> HIDE DEF a, b, c, d, e, ty
<1>6. Due(a) /\ a.state = "scan" /\ k \in Int /\ At(a, 0, k, "", NoPax, NoName, e, e) /\ ~(k > 0)
  BY <1>2, StandsFacts, Zenon
<1> HIDE DEF k, l
<1>7. At(c, 0 + 1, l, ty, NoPax, NoName, e, e)
  BY <1>1, <1>3, <1>4, <1>6, ExtraStep, Zenon DEF l
<1>8. l \in Int /\ ~(l > 0)
  BY BlockCount DEF l
<1>9. At(d, (0 + 1) + 1, l, "", NoPax, NoName, e, e)
  BY <1>1, <1>3, <1>4, <1>5, <1>7, PayloadStep, Zenon
<1>10. (0 + 1) + 1 = 2 /\ 0 + 1 = 1 /\ 1 + 1 = 2
  OBVIOUS
<1>11. c.state = "scan" /\ d.state = "scan" /\ d.skip = l
  BY <1>7, <1>9, Zenon DEF At
<1>12. Ready(d, 2, d.skip, e, e)
  BY <1>9, <1>10, <1>11, Zenon DEF Ready
<1>13. ~(d.skip > 0)
  BY <1>8, <1>11, Zenon
<1>14. Stands(d, 2, e, e)
  BY <1>12, <1>13, Zenon DEF Stands
<1>15. Goes(blocks, h, 0, 1)
  <2>1. Goes(blocks, h, 0, 0 + 1)
    <3>1. h[0].state = "scan" /\ h[0 + 1].state = "scan" /\ Due(h[0]) /\ 0 \in Nat
      BY <1>6, <1>10, <1>11 DEF a, c
    <3>2. QED
      BY <3>1, GoesOne, Zenon
  <2>2. QED
    BY <1>10, <2>1
<1>16. Goes(blocks, h, 1, 2)
  <2>1. Goes(blocks, h, 1, 1 + 1)
    <3>1. h[1].state = "scan" /\ h[1 + 1].state = "scan" /\ 1 \in Nat /\ ~IsHeader(blocks[1 + 1])
      BY <1>4, <1>5, <1>10, <1>11 DEF c, d
    <3>2. QED
      BY <3>1, GoesOne, Zenon
  <2>2. QED
    BY <1>10, <2>1
<1>17. Goes(blocks, h, 0, 2)
  <2>1. 0 \in Nat /\ 1 \in Nat /\ 2 \in Nat /\ 0 <= 1 /\ 1 <= 2
    OBVIOUS
  <2>2. QED
    BY <1>15, <1>16, <2>1, GoesJoin, Zenon
<1>18. QED
  BY <1>14, <1>17 DEF d, e

\* What is on record after some members: their files with their data, and their links.
Aligned(blocks, en, fs) ==
  /\ Len(en) = Len(fs)
  /\ \A i \in 1 .. Len(fs) :
       en[i].name = fs[i].name /\ en[i].size = fs[i].size /\ Holds(blocks, en[i], fs[i].name)
Linked(li, ls) ==
  Len(li) = Len(ls) /\ \A i \in 1 .. Len(ls) : li[i].name = ls[i].name /\ li[i].to = ls[i].to

LEMMA MemberHeld ==
  ASSUME NEW blocks, Len(blocks) \in Nat, NEW o \in Nat, NEW m \in TarMembers, o + Extent(m) <= Len(blocks),
         PlacedAt(blocks, o, m), NEW e, e = [name |-> m.name, size |-> m.size, at |-> o + HeadLen(m)]
  PROVE  Holds(blocks, e, m.name)
<1> DEFINE hl == HeadLen(m)
           c == BlocksOf(m.size)
           at == o + hl
<1>1. hl \in Nat /\ c \in Nat /\ Extent(m) = hl + c
  BY MemberFields DEF Extent
<1>2. e.at = at /\ e.size = m.size
  OBVIOUS
<1> HIDE DEF hl, c
<1>3. at + c <= Len(blocks)
  BY <1>1
<1>4. ASSUME NEW i \in at + 1 .. at + c PROVE blocks[i].kind = "data" /\ blocks[i].name = m.name
  <2> DEFINE j == i - o
  <2>1. j \in 1 .. Extent(m) /\ j \in hl + 1 .. Extent(m) /\ o + j = i
    BY <1>1
  <2> HIDE DEF j
  <2>2. blocks[o + j] = DataOf(m.name)
    BY <2>1, WrittenPlaces, Zenon DEF PlacedAt, hl
  <2>3. DataOf(m.name).kind = "data" /\ DataOf(m.name).name = m.name
    BY DEF DataOf, ABlock
  <2>4. QED
    BY <2>1, <2>2, <2>3
<1> HIDE DEF at
<1>5. QED
  BY <1>2, <1>3, <1>4, Zenon DEF Holds, c

LEMMA Appended ==
  ASSUME NEW S, NEW s \in Seq(S), NEW x \in S
  PROVE  /\ Append(s, x) \in Seq(S) /\ Len(Append(s, x)) = Len(s) + 1 /\ Len(s) \in Nat
         /\ \A i \in 1 .. Len(s) : Append(s, x)[i] = s[i]
         /\ Append(s, x)[Len(s) + 1] = x
OBVIOUS

LEMMA AlignedMore ==
  ASSUME NEW blocks, NEW en \in Seq(TarEntries), NEW fs \in Seq(TarMembers), Aligned(blocks, en, fs),
         NEW m \in TarMembers, NEW e \in TarEntries, e.name = m.name, e.size = m.size, Holds(blocks, e, m.name)
  PROVE  Aligned(blocks, Append(en, e), Append(fs, m))
<1> DEFINE f == Append(en, e)
           g == Append(fs, m)
           l == Len(fs)
<1>1. Len(en) = l /\ \A i \in 1 .. l : en[i].name = fs[i].name /\ en[i].size = fs[i].size /\ Holds(blocks, en[i], fs[i].name)
  BY Zenon DEF Aligned
<1>2. Len(f) = Len(en) + 1 /\ (\A i \in 1 .. Len(en) : f[i] = en[i]) /\ f[Len(en) + 1] = e
  OBVIOUS
<1>3. Len(g) = l + 1 /\ l \in Nat /\ (\A i \in 1 .. l : g[i] = fs[i]) /\ g[l + 1] = m
  OBVIOUS
<1> HIDE DEF f, g, l
<1>4. Len(f) = Len(g) /\ f[l + 1] = e /\ \A i \in 1 .. l : f[i] = en[i]
  BY <1>1, <1>2, <1>3, Zenon
<1>5. ASSUME NEW i \in 1 .. Len(g)
      PROVE  f[i].name = g[i].name /\ f[i].size = g[i].size /\ Holds(blocks, f[i], g[i].name)
  <2>1. i \in 1 .. l \/ i = l + 1
    BY <1>3
  <2>2. CASE i \in 1 .. l
    BY <2>2, <1>1, <1>3, <1>4, Zenon
  <2>3. CASE i = l + 1
    BY <2>3, <1>3, <1>4, Zenon
  <2>4. QED
    BY <2>1, <2>2, <2>3
<1>6. Aligned(blocks, f, g)
  BY <1>4, <1>5, Zenon DEF Aligned
<1>7. QED
  BY <1>6 DEF f, g

LEMMA LinkedMore ==
  ASSUME NEW li \in Seq(TarLinks), NEW ls \in Seq(TarMembers), Linked(li, ls),
         NEW m \in TarMembers, NEW e \in TarLinks, e.name = m.name, e.to = m.to
  PROVE  Linked(Append(li, e), Append(ls, m))
<1> DEFINE f == Append(li, e)
           g == Append(ls, m)
           l == Len(ls)
<1>1. Len(li) = l /\ \A i \in 1 .. l : li[i].name = ls[i].name /\ li[i].to = ls[i].to
  BY Zenon DEF Linked
<1>2. Len(f) = Len(li) + 1 /\ (\A i \in 1 .. Len(li) : f[i] = li[i]) /\ f[Len(li) + 1] = e
  OBVIOUS
<1>3. Len(g) = l + 1 /\ l \in Nat /\ (\A i \in 1 .. l : g[i] = ls[i]) /\ g[l + 1] = m
  OBVIOUS
<1> HIDE DEF f, g, l
<1>4. Len(f) = Len(g) /\ f[l + 1] = e /\ \A i \in 1 .. l : f[i] = li[i]
  BY <1>1, <1>2, <1>3, Zenon
<1>5. ASSUME NEW i \in 1 .. Len(g) PROVE f[i].name = g[i].name /\ f[i].to = g[i].to
  <2>1. i \in 1 .. l \/ i = l + 1
    BY <1>3
  <2>2. CASE i \in 1 .. l
    BY <2>2, <1>1, <1>3, <1>4, Zenon
  <2>3. CASE i = l + 1
    BY <2>3, <1>3, <1>4, Zenon
  <2>4. QED
    BY <2>1, <2>2, <2>3
<1>6. Linked(f, g)
  BY <1>4, <1>5, Zenon DEF Linked
<1>7. QED
  BY <1>6 DEF f, g

FilesIn(members) == {k \in DOMAIN members : members[k].to = NoName}
LinksIn(members) == {k \in DOMAIN members : members[k].to # NoName}

\* The scan has come to where member k ends.
Walked(blocks, h, o, fs, ls) ==
  /\ Stands(h[o], o, h[o].entries, h[o].links) /\ Goes(blocks, h, 0, o)
  /\ Aligned(blocks, h[o].entries, fs) /\ Linked(h[o].links, ls)
  /\ fs \in Seq(TarMembers) /\ ls \in Seq(TarMembers)

LEMMA MemberWalked ==
  ASSUME NEW v \in BOOLEAN, NEW n \in Nat, NEW blocks, NEW h, Stepping(v, blocks, n, h), Len(blocks) \in Nat, n <= Len(blocks),
         NEW o \in Nat, NEW m \in TarMembers, o + Extent(m) <= n, PlacedAt(blocks, o, m),
         NEW fs, NEW ls, Walked(blocks, h, o, fs, ls)
  PROVE  Walked(blocks, h, o + Extent(m), IF m.to = NoName THEN Append(fs, m) ELSE fs,
                IF m.to # NoName THEN Append(ls, m) ELSE ls)
<1> DEFINE en == h[o].entries
           li == h[o].links
           p == o + Extent(m)
           at == o + HeadLen(m)
           e == [name |-> m.name, size |-> m.size, at |-> at]
           l == [name |-> m.name, to |-> m.to]
           en2 == WithFile(en, m, at)
           li2 == WithLink(li, m)
           fs2 == IF m.to = NoName THEN Append(fs, m) ELSE fs
           ls2 == IF m.to # NoName THEN Append(ls, m) ELSE ls
<1>1. /\ Stands(h[o], o, en, li) /\ Goes(blocks, h, 0, o) /\ Aligned(blocks, en, fs) /\ Linked(li, ls)
      /\ fs \in Seq(TarMembers) /\ ls \in Seq(TarMembers)
  BY Zenon DEF Walked
<1>2. Stands(h[p], p, en2, li2) /\ Goes(blocks, h, o, p)
  BY <1>1, MemberScanned, Zenon
<1>3. h[o] \in ScanStates
  <2> DEFINE a == h[o]
  <2>1. Stands(a, o, en, li)
    BY <1>1
  <2> HIDE DEF a, en, li
  <2>2. a \in ScanStates
    BY <2>1, StandsFacts, Zenon
  <2>3. QED
    BY <2>2 DEF a
<1>4. en \in Seq(TarEntries) /\ li \in Seq(TarLinks)
  BY <1>3, ScanFields, Zenon
<1>5. HeadLen(m) \in Nat /\ Extent(m) \in Nat /\ m.name \in Names /\ m.to \in Names /\ m.size \in Nat
  BY MemberFields
<1>6. at \in Nat /\ p \in Nat /\ o <= p /\ 0 <= o /\ 0 \in Nat /\ p <= Len(blocks)
  BY <1>5
<1>7. Goes(blocks, h, 0, p)
  BY <1>1, <1>2, <1>6, GoesJoin, Zenon
<1>8. e \in TarEntries /\ e.name = m.name /\ e.size = m.size /\ l \in TarLinks /\ l.name = m.name /\ l.to = m.to
  <2> HIDE DEF at
  <2>1. QED
    BY <1>5, <1>6 DEF TarEntries, TarLinks
<1>9. Holds(blocks, e, m.name)
  BY <1>6, MemberHeld, Zenon
<1> HIDE DEF en, li, e, l
<1>10. Aligned(blocks, en2, fs2) /\ Linked(li2, ls2) /\ fs2 \in Seq(TarMembers) /\ ls2 \in Seq(TarMembers)
  <2>1. CASE m.to = NoName
    <3>1. en2 = Append(en, e) /\ li2 = li /\ fs2 = Append(fs, m) /\ ls2 = ls
      BY <2>1, Zenon DEF WithFile, WithLink, e
    <3>2. Aligned(blocks, Append(en, e), Append(fs, m)) /\ Append(fs, m) \in Seq(TarMembers)
      BY <1>1, <1>4, <1>8, <1>9, AlignedMore, Appended, Zenon
    <3>3. QED
      BY <1>1, <3>1, <3>2, Zenon
  <2>2. CASE m.to # NoName
    <3>1. en2 = en /\ li2 = Append(li, l) /\ fs2 = fs /\ ls2 = Append(ls, m)
      BY <2>2, Zenon DEF WithFile, WithLink, l
    <3>2. Linked(Append(li, l), Append(ls, m)) /\ Append(ls, m) \in Seq(TarMembers)
      BY <1>1, <1>4, <1>8, LinkedMore, Appended, Zenon
    <3>3. QED
      BY <1>1, <3>1, <3>2, Zenon
  <2>3. QED
    BY <2>1, <2>2
<1> HIDE DEF en2, li2, fs2, ls2, p
<1>11. h[p].entries = en2 /\ h[p].links = li2
  BY <1>2, StandsFacts, Zenon
<1>12. Walked(blocks, h, p, fs2, ls2)
  BY <1>2, <1>7, <1>10, <1>11, Zenon DEF Walked
<1>13. QED
  BY <1>12 DEF p, fs2, ls2

LEMMA NothingWalked ==
  ASSUME NEW v \in BOOLEAN, NEW n \in Nat, NEW blocks, NEW h, Stepping(v, blocks, n, h),
         h[0] = ScanStart, 2 <= n, blocks[1] = Header("g", TRUE, Short, Block, NoName), blocks[2] = Comment
  PROVE  Walked(blocks, h, 2, << >>, << >>)
<1> DEFINE e == << >>
<1>1. Stands(h[2], 2, e, e) /\ Goes(blocks, h, 0, 2)
  BY StartScanned, Zenon
<1>2. e \in Seq(TarMembers) /\ Len(e) = 0 /\ \A i \in 1 .. 0 : FALSE
  OBVIOUS
<1> HIDE DEF e
<1>3. Aligned(blocks, e, e) /\ Linked(e, e)
  BY <1>2, Zenon DEF Aligned, Linked
<1>4. h[2].entries = e /\ h[2].links = e
  <2> DEFINE a == h[2]
             z == 2
  <2>1. Stands(a, z, e, e)
    BY <1>1
  <2> HIDE DEF a, z
  <2>2. a.entries = e /\ a.links = e
    BY <2>1, StandsFacts, Zenon
  <2>3. QED
    BY <2>2 DEF a
<1>5. Walked(blocks, h, 2, e, e)
  BY <1>1, <1>2, <1>3, <1>4, Zenon DEF Walked
<1>6. QED
  BY <1>5 DEF e

\* All members are read.
LEMMA ArchiveWalked ==
  ASSUME NEW v \in BOOLEAN, NEW n \in Nat, NEW members \in [1 .. n -> TarMembers], NEW off \in [0 .. n -> Nat], NEW blocks,
         PackedAt(members, n, off, blocks), NEW h, Stepping(v, blocks, Len(blocks), h), h[0] = ScanStart
  PROVE  Walked(blocks, h, off[n], Picked(members, FilesIn(members)), Picked(members, LinksIn(members)))
<1> DEFINE l == Len(blocks)
           fi == FilesIn(members)
           ln == LinksIn(members)
<1>1. /\ off[0] = 2 /\ Ends(blocks, off[n])
      /\ \A k \in 0 .. n : off[k] \in Nat /\ off[k] <= off[n]
      /\ \A k \in 1 .. n : off[k] = off[k - 1] + Extent(members[k]) /\ PlacedAt(blocks, off[k - 1], members[k])
  BY Zenon DEF PackedAt
<1>2. /\ Len(blocks) = off[n] + 2
      /\ blocks[1] = Header("g", TRUE, Short, Block, NoName) /\ blocks[2] = Comment
  BY <1>1, Zenon DEF Ends
<1>3. l \in Nat /\ 2 <= l /\ \A k \in 0 .. n : off[k] \in Nat /\ off[k] <= l
  <2>1. 0 \in 0 .. n /\ n \in 0 .. n
    OBVIOUS
  <2> DEFINE z == off[n]
  <2>2. l = z + 2 /\ z \in Nat /\ \A k \in 0 .. n : off[k] \in Nat /\ off[k] <= z
    BY <1>1, <1>2, <2>1, Zenon
  <2> HIDE DEF l, z
  <2>3. QED
    BY <2>2
<1>4. PICK hf : Picking(members, fi, n, hf)
  BY PicksOneByOne, Zenon
<1>5. PICK hl : Picking(members, ln, n, hl)
  BY PicksOneByOne, Zenon
<1>6. DOMAIN members = 1 .. n
  OBVIOUS
<1> DEFINE T == {k \in 0 .. n : Walked(blocks, h, off[k], hf[k], hl[k])}
<1>7. 0 \in T
  <2>1. Walked(blocks, h, 2, << >>, << >>)
    <3>1. Stepping(v, blocks, l, h)
      OBVIOUS
    <3> HIDE DEF l
    <3>2. QED
      BY <1>2, <1>3, <3>1, NothingWalked, Zenon
  <2>2. hf[0] = << >> /\ hl[0] = << >>
    BY <1>4, <1>5, Zenon DEF Picking
  <2>3. 0 \in 0 .. n
    OBVIOUS
  <2>4. QED
    BY <1>1, <2>1, <2>2, <2>3, Zenon
<1>8. ASSUME NEW k \in 0 .. n, k \in T, k < n PROVE k + 1 \in T
  <2> DEFINE m == members[k + 1]
             o == off[k]
             fs == hf[k]
             ls == hl[k]
  <2>1. k + 1 \in 1 .. n /\ (k + 1) - 1 = k /\ k + 1 \in 0 .. n
    BY <1>8
  <2>2. m \in TarMembers
    BY <2>1
  <2>3. Walked(blocks, h, o, fs, ls)
    BY <1>8
  <2>4. hf[k + 1] = WithPlace(hf[(k + 1) - 1], members, fi, k + 1) /\ hl[k + 1] = WithPlace(hl[(k + 1) - 1], members, ln, k + 1)
    BY <1>4, <1>5, <2>1, Zenon DEF Picking
  <2>5. off[k + 1] = off[(k + 1) - 1] + Extent(m) /\ PlacedAt(blocks, off[(k + 1) - 1], m)
    BY <1>1, <2>1, Zenon
  <2>6. off[k + 1] = o + Extent(m) /\ PlacedAt(blocks, o, m) /\ o + Extent(m) <= l /\ o \in Nat
    BY <1>3, <2>1, <2>5
  <2>7. /\ hf[k + 1] = IF m.to = NoName THEN Append(fs, m) ELSE fs
        /\ hl[k + 1] = IF m.to # NoName THEN Append(ls, m) ELSE ls
    <3>1. hf[k + 1] = WithPlace(fs, members, fi, k + 1) /\ hl[k + 1] = WithPlace(ls, members, ln, k + 1)
      BY <2>1, <2>4
    <3>2. (k + 1 \in fi <=> m.to = NoName) /\ (k + 1 \in ln <=> m.to # NoName)
      BY <1>6, <2>1, Zenon DEF FilesIn, LinksIn
    <3>3. QED
      BY <3>1, <3>2, Zenon DEF WithPlace
  <2>8. Stepping(v, blocks, l, h) /\ Len(blocks) \in Nat /\ l <= Len(blocks) /\ l \in Nat
    BY <1>3
  <2> HIDE DEF m, o, fs, ls, l, fi, ln
  <2>9. Walked(blocks, h, o + Extent(m), IF m.to = NoName THEN Append(fs, m) ELSE fs, IF m.to # NoName THEN Append(ls, m) ELSE ls)
    BY <2>2, <2>3, <2>6, <2>8, MemberWalked, Zenon
  <2>10. Walked(blocks, h, off[k + 1], hf[k + 1], hl[k + 1])
    BY <2>6, <2>7, <2>9, Zenon
  <2>11. QED
    BY <2>1, <2>10
<1> HIDE DEF T
<1>9. \A k \in 0 .. n : k \in T
  BY <1>7, <1>8, Upwards
<1>10. n \in T
  <2>1. n \in 0 .. n
    OBVIOUS
  <2>2. QED
    BY <1>9, <2>1
<1>11. hf[n] = Picked(members, fi) /\ hl[n] = Picked(members, ln)
  BY <1>4, <1>5, Zenon DEF Picking
<1>12. Walked(blocks, h, off[n], hf[n], hl[n])
  BY <1>10 DEF T
<1>13. QED
  BY <1>11, <1>12, Zenon

\* The end of an archive.
EndedWith(a, en, li) == a.state = "ended" /\ a.entries = en /\ a.links = li

Finished(a) == [Moved(a) EXCEPT !.state = "ended"]
Broken(a)   == [Moved(a) EXCEPT !.state = "failed"]

LEMMA DueZeros ==
  ASSUME NEW v, NEW a, NEW b, Due(a), b.kind = "zeros"
  PROVE  ScanBlock(v, a, b) = Finished(a)
<1>1. a.state = "scan" /\ a.extra = "" /\ ~(a.skip > 0)
  BY DEF Due
<1>2. QED
  BY <1>1 DEF ScanBlock, Moved, Finished

LEMMA DueFails ==
  ASSUME NEW v, NEW a, NEW b, Due(a), b.kind # "zeros", (v /\ ~b.sound) \/ b.size = NoSize
  PROVE  ScanBlock(v, a, b) = Broken(a)
<1>1. a.state = "scan" /\ a.extra = "" /\ ~(a.skip > 0)
  BY DEF Due
<1>2. QED
  BY <1>1 DEF ScanBlock, Moved, Broken

LEMMA ZerosEnd ==
  ASSUME NEW v \in BOOLEAN, NEW a, NEW o, NEW en, NEW li, Stands(a, o, en, li)
  PROVE  EndedWith(ScanBlock(v, a, Zeros), en, li)
<1> DEFINE b == Zeros
           c == Moved(a)
           d == [c EXCEPT !.state = "ended"]
<1>1. /\ Due(a) /\ a.state = "scan" /\ a \in ScanStates /\ a.entries = en /\ a.links = li
  BY StandsFacts, Zenon
<1>2. b.kind = "zeros"
  BY DEF Zeros, ABlock
<1>3. ScanBlock(v, a, b) = d
  <2> HIDE DEF b
  <2>1. ScanBlock(v, a, b) = Finished(a)
    BY <1>1, <1>2, DueZeros, Zenon
  <2>2. QED
    BY <2>1 DEF Finished
<1>4. c \in ScanStates /\ c.entries = en /\ c.links = li
  <2>1. At(a, o, a.skip, "", NoPax, NoName, en, li)
    BY StandsFacts, Zenon
  <2>2. At(c, o + 1, a.skip, "", NoPax, NoName, en, li)
    BY <2>1, AtMoved, Zenon
  <2>3. QED
    BY <2>2, Zenon DEF At
<1> HIDE DEF c
<1>5. d.state = "ended" /\ d.entries = c.entries /\ d.links = c.links
  BY <1>4 DEF ScanStates
<1> HIDE DEF b, d
<1>6. EndedWith(d, en, li)
  BY <1>4, <1>5, Zenon DEF EndedWith
<1>7. QED
  BY <1>3, <1>6 DEF b

\* Archives that are alike up to a block are scanned alike up to it.
LEMMA SameSteps ==
  ASSUME NEW v, NEW k \in Nat, NEW blocks, NEW others, NEW h, NEW d, Stepping(v, blocks, k, h), Stepping(v, others, k, d),
         h[0] = d[0], \A i \in 1 .. k : blocks[i] = others[i]
  PROVE  \A i \in 0 .. k : h[i] = d[i]
<1> DEFINE T == {i \in 0 .. k : h[i] = d[i]}
<1>1. 0 \in T
  OBVIOUS
<1>2. ASSUME NEW i \in 0 .. k, i \in T, i < k PROVE i + 1 \in T
  <2>1. i + 1 \in 1 .. k /\ i \in Nat /\ i + 1 \in 0 .. k /\ h[i] = d[i]
    BY <1>2
  <2>2. h[i + 1] = ScanBlock(v, h[i], blocks[i + 1]) /\ d[i + 1] = ScanBlock(v, d[i], others[i + 1])
    BY <1>2, <2>1, NextState
  <2>3. blocks[i + 1] = others[i + 1]
    BY <2>1
  <2>4. h[i + 1] = d[i + 1]
    BY <2>1, <2>2, <2>3, Zenon
  <2>5. QED
    BY <2>1, <2>4
<1> HIDE DEF T
<1>3. \A i \in 0 .. k : i \in T
  BY <1>1, <1>2, Upwards
<1>4. QED
  BY <1>3 DEF T

LEMMA FewerSteps ==
  ASSUME NEW v, NEW n \in Nat, NEW k \in Nat, k <= n, NEW blocks, NEW h, Stepping(v, blocks, n, h)
  PROVE  Stepping(v, blocks, k, h)
<1>1. \A i \in 1 .. k : i \in 1 .. n
  OBVIOUS
<1>2. QED
  BY <1>1, Zenon DEF Stepping

Stopped(a) == a.state # "scan"

LEMMA ScanStops ==
  ASSUME NEW v, NEW a, NEW b, Stopped(a)
  PROVE  ScanBlock(v, a, b) = a
BY Zenon DEF ScanBlock, Stopped

\* A scan that stopped has stopped.
LEMMA StoppedStays ==
  ASSUME NEW v, NEW n \in Nat, NEW blocks, NEW h, Stepping(v, blocks, n, h), NEW i \in 0 .. n, Stopped(h[i])
  PROVE  h[n] = h[i]
<1> DEFINE T == {j \in 0 .. n : j >= i => h[j] = h[i]}
<1>1. 0 \in T
  <2>1. 0 >= i => i = 0
    OBVIOUS
  <2>2. 0 \in 0 .. n /\ (0 >= i => h[0] = h[i])
    BY <2>1
  <2>3. QED
    BY <2>2
<1>2. ASSUME NEW j \in 0 .. n, j \in T, j < n PROVE j + 1 \in T
  <2>1. j \in Nat /\ j + 1 \in 0 .. n /\ (j >= i => h[j] = h[i])
    BY <1>2
  <2>2. h[j + 1] = ScanBlock(v, h[j], blocks[j + 1])
    BY <1>2, <2>1, NextState
  <2>3. CASE j + 1 = i
    BY <2>1, <2>3
  <2>4. CASE j + 1 # i /\ j + 1 >= i
    <3>1. h[j] = h[i]
      BY <2>1, <2>4
    <3>2. ScanBlock(v, h[j], blocks[j + 1]) = h[j]
      <4>1. Stopped(h[j])
        BY <3>1, Zenon
      <4>2. QED
        BY <4>1, ScanStops, Zenon
    <3>3. h[j + 1] = h[i]
      BY <2>2, <3>1, <3>2, Zenon
    <3>4. QED
      BY <2>1, <3>3
  <2>5. CASE ~(j + 1 >= i)
    BY <2>1, <2>5
  <2>6. QED
    BY <2>3, <2>4, <2>5
<1> HIDE DEF T
<1>3. \A j \in 0 .. n : j \in T
  BY <1>1, <1>2, Upwards
<1>4. n \in 0 .. n /\ n >= i
  OBVIOUS
<1>5. n \in T
  BY <1>3, <1>4
<1>6. QED
  BY <1>4, <1>5 DEF T

LEMMA OpenOk ==
  ASSUME NEW v, NEW blocks
  PROVE  /\ TarOpen(blocks, v).ok <=> Scan(v, blocks).state = "ended"
         /\ Scan(v, blocks).state = "ended" => TarOpen(blocks, v).entries = Resolved(Scan(v, blocks))
<1> DEFINE a == Scan(v, blocks)
           r == Resolved(a)
<1> HIDE DEF a, r
<1>1. CASE a.state = "ended"
  <2>1. TarOpen(blocks, v) = [ok |-> TRUE, entries |-> r]
    BY <1>1, Zenon DEF TarOpen, a, r
  <2>2. TarOpen(blocks, v).ok = TRUE /\ TarOpen(blocks, v).entries = r
    BY <2>1
  <2>3. QED
    BY <1>1, <2>2, Zenon DEF a, r
<1>2. CASE a.state # "ended"
  <2>1. TarOpen(blocks, v) = [ok |-> FALSE, entries |-> << >>]
    BY <1>2, Zenon DEF TarOpen, a
  <2>2. TarOpen(blocks, v).ok = FALSE
    BY <2>1
  <2>3. QED
    BY <1>2, <2>2, Zenon DEF a
<1>3. QED
  BY <1>1, <1>2

LEMMA ScanSteps ==
  ASSUME NEW v \in BOOLEAN, NEW blocks \in Seq(TarBlocks)
  PROVE  /\ Len(blocks) \in Nat
         /\ \E h : h[0] = ScanStart /\ h[Len(blocks)] = Scan(v, blocks) /\ Stepping(v, blocks, Len(blocks), h)
<1> DEFINE n == Len(blocks)
<1>1. n \in Nat /\ blocks \in [1 .. n -> TarBlocks]
  BY PositionsNat
<1> HIDE DEF n
<1>2. PICK h \in [0 .. n -> ScanStates] : Scanning(v, blocks, n, h)
  BY <1>1, ScanOneByOne
<1>3. h[0] = ScanStart /\ h[n] = Scan(v, blocks) /\ Stepping(v, blocks, n, h)
  BY <1>2, Zenon DEF Scanning, Stepping
<1>4. QED
  BY <1>1, <1>3, Zenon DEF n

\* A whole archive is opened.
LEMMA ArchiveOpened ==
  ASSUME NEW v \in BOOLEAN, NEW n \in Nat, NEW members \in [1 .. n -> TarMembers], NEW off \in [0 .. n -> Nat], NEW blocks,
         PackedAt(members, n, off, blocks)
  PROVE  /\ Scan(v, blocks).state = "ended"
         /\ Aligned(blocks, Scan(v, blocks).entries, Picked(members, FilesIn(members)))
         /\ Linked(Scan(v, blocks).links, Picked(members, LinksIn(members)))
<1> DEFINE e == off[n]
           l == Len(blocks)
           fs == Picked(members, FilesIn(members))
           ls == Picked(members, LinksIn(members))
<1>1. Ends(blocks, e)
  BY Zenon DEF PackedAt
<1>2. blocks \in Seq(TarBlocks) /\ l = e + 2 /\ blocks[e + 1] = Zeros /\ e \in Nat
  <2>1. n \in 0 .. n
    OBVIOUS
  <2>2. e \in Nat
    BY <2>1
  <2>3. QED
    BY <1>1, <2>2, Zenon DEF Ends
<1>3. PICK h : h[0] = ScanStart /\ h[l] = Scan(v, blocks) /\ Stepping(v, blocks, l, h)
  BY <1>2, ScanSteps, Zenon
<1>4. Walked(blocks, h, e, fs, ls)
  BY <1>3, ArchiveWalked, Zenon
<1>5. l \in Nat /\ e < l /\ e + 1 \in 0 .. l
  BY <1>2
<1> HIDE DEF e, l, fs, ls
<1> DEFINE en == h[e].entries
           li == h[e].links
<1>6. Stands(h[e], e, en, li) /\ Aligned(blocks, en, fs) /\ Linked(li, ls)
  BY <1>4, Zenon DEF Walked
<1>7. h[e + 1] = ScanBlock(v, h[e], Zeros)
  <2>3. e \in Nat /\ e < l /\ l \in Nat /\ Stepping(v, blocks, l, h)
    BY <1>2, <1>3, <1>5, Zenon
  <2>1. h[e + 1] = ScanBlock(v, h[e], blocks[e + 1])
    BY <2>3, NextState
  <2>2. QED
    BY <1>2, <2>1, Zenon
<1> HIDE DEF en, li
<1>8. EndedWith(h[e + 1], en, li)
  BY <1>6, <1>7, ZerosEnd, Zenon
<1>9. h[l] = h[e + 1]
  <2> DEFINE f == e + 1
             a == h[f]
  <2>1. EndedWith(a, en, li)
    BY <1>8
  <2>2. f \in 0 .. l
    BY <1>5
  <2> HIDE DEF f
  <2>4. Stopped(a)
    <3> HIDE DEF a
    <3>1. QED
      BY <2>1 DEF EndedWith, Stopped
  <2>7. l \in Nat /\ Stepping(v, blocks, l, h) /\ Stopped(h[f])
    BY <1>3, <1>5, <2>4, Zenon
  <2> HIDE DEF a
  <2>5. h[l] = h[f]
    BY <2>2, <2>7, StoppedStays
  <2>6. QED
    BY <2>5 DEF f
<1>10. EndedWith(Scan(v, blocks), en, li)
  BY <1>3, <1>8, <1>9, Zenon
<1>11. QED
  BY <1>6, <1>10, Zenon DEF EndedWith, fs, ls

\* The scan of an archive that was packed: it goes on to the end of the last member.
LEMMA PackedScan ==
  ASSUME NEW v \in BOOLEAN, NEW n \in Nat, NEW members \in [1 .. n -> TarMembers], NEW off \in [0 .. n -> Nat], NEW blocks,
         PackedAt(members, n, off, blocks)
  PROVE  /\ blocks \in Seq(TarBlocks) /\ off[n] \in Nat /\ Len(blocks) = off[n] + 2
         /\ blocks[off[n] + 1] = Zeros /\ blocks[off[n] + 2] = Zeros
         /\ \E h : h[0] = ScanStart /\ Stepping(v, blocks, Len(blocks), h) /\ Goes(blocks, h, 0, off[n])
<1> DEFINE e == off[n]
           l == Len(blocks)
           fs == Picked(members, FilesIn(members))
           ls == Picked(members, LinksIn(members))
<1>1. Ends(blocks, e)
  BY Zenon DEF PackedAt
<1>2. blocks \in Seq(TarBlocks) /\ l = e + 2 /\ blocks[e + 1] = Zeros /\ blocks[e + 2] = Zeros /\ e \in Nat
  <2>1. n \in 0 .. n
    OBVIOUS
  <2>2. e \in Nat
    BY <2>1
  <2>3. QED
    BY <1>1, <2>2, Zenon DEF Ends
<1>3. PICK h : h[0] = ScanStart /\ h[l] = Scan(v, blocks) /\ Stepping(v, blocks, l, h)
  BY <1>2, ScanSteps, Zenon
<1>4. Walked(blocks, h, e, fs, ls)
  BY <1>3, ArchiveWalked, Zenon
<1> HIDE DEF e, l
<1>5. Goes(blocks, h, 0, e)
  BY <1>4, Zenon DEF Walked
<1>6. QED
  BY <1>2, <1>3, <1>5, Zenon DEF e, l

LEMMA CutFields ==
  ASSUME NEW S, NEW s \in Seq(S), NEW c \in Nat, c <= Len(s)
  PROVE  /\ Cut(s, c) \in Seq(S) /\ Len(Cut(s, c)) = c
         /\ \A i \in 1 .. c : s[i] = Cut(s, c)[i]
BY DEF Cut

SameBlocks(blocks, s, c) == \A i \in 1 .. c : blocks[i] = s[i]

\* An archive that ends before its zeros is not opened.
LEMMA ShortRefused ==
  ASSUME NEW v \in BOOLEAN, NEW blocks, NEW e \in Nat, NEW n \in Nat, NEW h, h[0] = ScanStart,
         Stepping(v, blocks, n, h), Goes(blocks, h, 0, e), NEW c \in 0 .. e, c <= n,
         NEW s \in Seq(TarBlocks), Len(s) = c, SameBlocks(blocks, s, c)
  PROVE  ~TarOpen(s, v).ok
<1>1. c \in Nat /\ c \in 0 .. c
  OBVIOUS
<1>2. \A i \in 1 .. c : blocks[i] = s[i]
  BY Zenon DEF SameBlocks
<1>3. PICK d : d[0] = ScanStart /\ d[Len(s)] = Scan(v, s) /\ Stepping(v, s, Len(s), d)
  BY ScanSteps, Zenon
<1>4. d[c] = Scan(v, s) /\ Stepping(v, s, c, d)
  BY <1>3, Zenon
<1>5. Stepping(v, blocks, c, h)
  BY <1>1, FewerSteps, Zenon
<1>6. h[0] = d[0]
  BY <1>3, Zenon
<1>7. h[c] = d[c]
  <2>1. \A i \in 0 .. c : h[i] = d[i]
    BY <1>1, <1>2, <1>4, <1>5, <1>6, SameSteps
  <2>2. QED
    BY <1>1, <2>1, Zenon
<1>8. h[c].state = "scan"
  BY Zenon DEF Goes
<1>10. Scan(v, s).state # "ended"
  <2> DEFINE a == Scan(v, s)
  <2>1. a.state = "scan"
    BY <1>4, <1>7, <1>8, Zenon
  <2> HIDE DEF a
  <2>2. a.state # "ended"
    BY <2>1
  <2>3. QED
    BY <2>2 DEF a
<1>11. QED
  BY <1>10, OpenOk, Zenon

LEMMA CutRefused ==
  ASSUME NEW v \in BOOLEAN, NEW blocks \in Seq(TarBlocks), NEW e \in Nat, Len(blocks) = e + 2, NEW h, h[0] = ScanStart,
         Stepping(v, blocks, Len(blocks), h), Goes(blocks, h, 0, e), NEW c \in 0 .. e
  PROVE  ~TarOpen(Cut(blocks, c), v).ok
<1>1. c \in Nat /\ c <= Len(blocks) /\ Len(blocks) \in Nat
  OBVIOUS
<1>2. Cut(blocks, c) \in Seq(TarBlocks) /\ Len(Cut(blocks, c)) = c /\ \A i \in 1 .. c : blocks[i] = Cut(blocks, c)[i]
  BY <1>1, CutFields
<1> DEFINE s == Cut(blocks, c)
<1> HIDE DEF s
<1>3. s \in Seq(TarBlocks) /\ Len(s) = c
  BY <1>2, Zenon DEF s
<1>4. SameBlocks(blocks, s, c)
  BY <1>2, Zenon DEF s, SameBlocks
<1>5. ~TarOpen(s, v).ok
  BY <1>1, <1>3, <1>4, ShortRefused, Zenon
<1>6. QED
  BY <1>5 DEF s

LEMMA BrokenStopped ==
  ASSUME NEW a \in ScanStates
  PROVE  Stopped(Broken(a)) /\ Broken(a).state # "ended"
<1>1. a.pos \in Nat /\ a.pos + 1 \in Nat
  BY ScanFields
<1>2. [a EXCEPT !.pos = a.pos + 1] \in ScanStates
  BY <1>1, ScanUpdates
<1> DEFINE c == Moved(a)
           d == [c EXCEPT !.state = "failed"]
<1>3. c \in ScanStates
  BY <1>2 DEF Moved
<1> HIDE DEF c
<1>4. d.state = "failed"
  BY <1>3 DEF ScanStates
<1> HIDE DEF d
<1>5. Stopped(d) /\ d.state # "ended"
  BY <1>4 DEF Stopped
<1>6. QED
  BY <1>5 DEF d, c, Broken

\* An archive with a header that cannot be read is not opened.
Unreadable(v, b) == b.kind # "zeros" /\ ((v /\ ~b.sound) \/ b.size = NoSize)

LEMMA UnreadableFails ==
  ASSUME NEW v, NEW a, NEW b, Due(a), Unreadable(v, b)
  PROVE  ScanBlock(v, a, b) = Broken(a)
BY DueFails, Zenon DEF Unreadable

LEMMA AlteredRefused ==
  ASSUME NEW v \in BOOLEAN, NEW blocks \in Seq(TarBlocks), NEW n \in Nat, Len(blocks) = n, NEW h, h[0] = ScanStart,
         Stepping(v, blocks, n, h), NEW i \in 1 .. n, Due(h[i - 1]),
         NEW s \in Seq(TarBlocks), Len(s) = n, SameBlocks(blocks, s, i - 1), Unreadable(v, s[i])
  PROVE  ~TarOpen(s, v).ok
<1> DEFINE p == i - 1
<1>1. p \in Nat /\ p <= n /\ p < n /\ p + 1 = i /\ i \in 0 .. n /\ p \in 0 .. p /\ p \in 0 .. n
  OBVIOUS
<1>2. n \in Nat /\ s \in [1 .. n -> TarBlocks]
  OBVIOUS
<1>3. PICK d \in [0 .. n -> ScanStates] : Scanning(v, s, n, d)
  BY <1>2, ScanOneByOne
<1>4. d[0] = ScanStart /\ d[n] = Scan(v, s) /\ Stepping(v, s, n, d)
  BY <1>3, Zenon DEF Scanning, Stepping
<1>5. Due(h[p]) /\ \A j \in 1 .. p : blocks[j] = s[j]
  BY Zenon DEF SameBlocks
<1> HIDE DEF p
<1>6. Stepping(v, blocks, p, h) /\ Stepping(v, s, p, d)
  BY <1>1, <1>4, FewerSteps, Zenon
<1>7. h[0] = d[0]
  BY <1>4, Zenon
<1>8. h[p] = d[p]
  <2>1. \A j \in 0 .. p : h[j] = d[j]
    BY <1>1, <1>5, <1>6, <1>7, SameSteps
  <2>2. QED
    BY <1>1, <2>1, Zenon
<1>9. d[p] \in ScanStates
  BY <1>1, <1>3
<1>10. d[i] = ScanBlock(v, d[p], s[i])
  <2>1. Stepping(v, s, n, d)
    BY <1>4, Zenon
  <2>2. d[p + 1] = ScanBlock(v, d[p], s[p + 1])
    BY <1>1, <2>1, NextState
  <2>3. QED
    BY <1>1, <2>2
<1>11. d[i] = Broken(d[p])
  BY <1>5, <1>8, <1>10, UnreadableFails, Zenon
<1>12. Stopped(d[i]) /\ d[i].state # "ended"
  BY <1>9, <1>11, BrokenStopped, Zenon
<1>13. d[n] = d[i]
  <2>1. Stepping(v, s, n, d) /\ Stopped(d[i])
    BY <1>4, <1>12, Zenon
  <2>2. QED
    BY <1>1, <2>1, StoppedStays
<1>14. Scan(v, s).state # "ended"
  BY <1>4, <1>12, <1>13, Zenon
<1>15. QED
  BY <1>14, OpenOk, Zenon

LEMMA BlockFields ==
  ASSUME NEW b \in TarBlocks
  PROVE  /\ b.kind \in Kinds /\ b.type \in Text /\ b.sound \in BOOLEAN /\ b.name \in Names /\ b.size \in Int
         /\ b.to \in Names /\ b.recs \in Seq(PaxRecords)
BY DEF TarBlocks

\* A header that was altered.
LEMMA AlteredBlock ==
  ASSUME NEW v \in BOOLEAN, NEW b \in TarBlocks, IsHeader(b)
  PROVE  /\ [b EXCEPT !.size = NoSize] \in TarBlocks /\ Unreadable(v, [b EXCEPT !.size = NoSize])
         /\ [b EXCEPT !.sound = FALSE] \in TarBlocks /\ Unreadable(TRUE, [b EXCEPT !.sound = FALSE])
<1> DEFINE c == [b EXCEPT !.size = NoSize]
           d == [b EXCEPT !.sound = FALSE]
<1>1. /\ b.kind \in Kinds /\ b.type \in Text /\ b.sound \in BOOLEAN /\ b.name \in Names /\ b.size \in Int
      /\ b.to \in Names /\ b.recs \in Seq(PaxRecords)
  BY BlockFields
<1>2. NoSize \in Int /\ b.kind # "zeros"
  BY DEF NoSize, IsHeader
<1>3. c \in TarBlocks /\ c.size = NoSize /\ c.kind = b.kind
  BY <1>2 DEF TarBlocks
<1>4. d \in TarBlocks /\ d.sound = FALSE /\ d.kind = b.kind
  BY <1>2 DEF TarBlocks
<1> HIDE DEF c, d
<1>5. Unreadable(v, c)
  BY <1>2, <1>3, Zenon DEF Unreadable
<1>6. Unreadable(TRUE, d)
  BY <1>2, <1>4, Zenon DEF Unreadable
<1>7. QED
  BY <1>3, <1>4, <1>5, <1>6 DEF c, d

LEMMA AlteredAt ==
  ASSUME NEW S, NEW s \in Seq(S), NEW i \in 1 .. Len(s), NEW b \in S
  PROVE  /\ [s EXCEPT ![i] = b] \in Seq(S) /\ Len([s EXCEPT ![i] = b]) = Len(s)
         /\ [s EXCEPT ![i] = b][i] = b /\ \A j \in 1 .. i - 1 : s[j] = [s EXCEPT ![i] = b][j]
OBVIOUS

\* It is one of the members', and it is taken for what it is.
LEMMA HeaderDue ==
  ASSUME NEW blocks, NEW e \in Nat, Len(blocks) = e + 2, blocks[e + 1] = Zeros, blocks[e + 2] = Zeros, NEW h,
         Goes(blocks, h, 0, e), NEW i \in 1 .. e + 2, IsHeader(blocks[i])
  PROVE  Due(h[i - 1])
<1>1. ~IsHeader(Zeros)
  BY DEF IsHeader, Zeros, ABlock
<1>2. i # e + 1 /\ i # e + 2
  BY <1>1, Zenon
<1>3. i \in 0 + 1 .. e
  BY <1>2
<1>4. QED
  BY <1>3, Zenon DEF Goes

LEMMA AlteredArchive ==
  ASSUME NEW v \in BOOLEAN, NEW blocks \in Seq(TarBlocks), NEW h, h[0] = ScanStart,
         Stepping(v, blocks, Len(blocks), h), NEW i \in 1 .. Len(blocks), Due(h[i - 1]),
         NEW b \in TarBlocks, Unreadable(v, b), NEW s, s = [blocks EXCEPT ![i] = b]
  PROVE  ~TarOpen(s, v).ok
<1> DEFINE n == Len(blocks)
<1>1. n \in Nat /\ i \in 1 .. n
  OBVIOUS
<1>2. s \in Seq(TarBlocks) /\ Len(s) = n /\ s[i] = b /\ \A j \in 1 .. i - 1 : blocks[j] = s[j]
  OBVIOUS
<1>3. Stepping(v, blocks, n, h) /\ Len(blocks) = n
  OBVIOUS
<1>4. Unreadable(v, s[i])
  BY <1>2, Zenon
<1>5. SameBlocks(blocks, s, i - 1)
  BY <1>2, Zenon DEF SameBlocks
<1> HIDE DEF n
<1>6. QED
  BY <1>1, <1>2, <1>3, <1>4, <1>5, AlteredRefused, Zenon

LEMMA ArchiveRefused ==
  ASSUME NEW v \in BOOLEAN, NEW members \in Seq(TarMembers)
  PROVE  Refuses(members, v)
<1> DEFINE n == Len(members)
           blocks == Pack(members)
<1>1. n \in Nat /\ members \in [1 .. n -> TarMembers]
  BY PositionsNat
<1> HIDE DEF n
<1>2. PICK off \in [0 .. n -> Nat] : PackedAt(members, n, off, blocks)
  BY <1>1, PackPlaces
<1> HIDE DEF blocks
<1> DEFINE e == off[n]
           l == Len(blocks)
<1>3. /\ blocks \in Seq(TarBlocks) /\ e \in Nat /\ l = e + 2
      /\ blocks[e + 1] = Zeros /\ blocks[e + 2] = Zeros
      /\ \A w \in BOOLEAN : \E h : h[0] = ScanStart /\ Stepping(w, blocks, l, h) /\ Goes(blocks, h, 0, e)
  <2>1. /\ blocks \in Seq(TarBlocks) /\ e \in Nat /\ l = e + 2
        /\ blocks[e + 1] = Zeros /\ blocks[e + 2] = Zeros
    BY <1>1, <1>2, PackedScan
  <2>2. ASSUME NEW w \in BOOLEAN
        PROVE  \E h : h[0] = ScanStart /\ Stepping(w, blocks, l, h) /\ Goes(blocks, h, 0, e)
    BY <1>1, <1>2, PackedScan, Zenon
  <2>3. QED
    BY <2>1, <2>2
<1> HIDE DEF e
<1>4. ASSUME NEW c \in 0 .. l - 2 PROVE ~TarOpen(Cut(blocks, c), v).ok
  <2>1. c \in 0 .. e
    BY <1>3
  <2>2. PICK h : h[0] = ScanStart /\ Stepping(v, blocks, l, h) /\ Goes(blocks, h, 0, e)
    BY <1>3, Zenon
  <2>3. QED
    BY <1>3, <2>1, <2>2, CutRefused, Zenon
<1>5. ASSUME NEW w \in BOOLEAN, NEW i \in 1 .. l, IsHeader(blocks[i]), NEW b \in TarBlocks, Unreadable(w, b),
             NEW s, s = [blocks EXCEPT ![i] = b]
      PROVE  ~TarOpen(s, w).ok
  <2>1. PICK h : h[0] = ScanStart /\ Stepping(w, blocks, l, h) /\ Goes(blocks, h, 0, e)
    BY <1>3, Zenon
  <2>2. i \in 1 .. e + 2
    BY <1>3
  <2>3. Due(h[i - 1])
    BY <1>3, <1>5, <2>1, <2>2, HeaderDue, Zenon
  <2>4. QED
    BY <1>3, <1>5, <2>1, <2>3, AlteredArchive, Zenon
<1>6. DOMAIN blocks = 1 .. l
  BY <1>3
<1>7. ASSUME NEW i \in DOMAIN blocks, blocks[i].kind = "header"
      PROVE  ~TarOpen(Unsized(blocks, i), v).ok /\ (v => ~TarOpen(Damaged(blocks, i), TRUE).ok)
  <2> DEFINE b == blocks[i]
             b1 == [b EXCEPT !.size = NoSize]
             b2 == [b EXCEPT !.sound = FALSE]
             s1 == [blocks EXCEPT ![i] = b1]
             s2 == [blocks EXCEPT ![i] = b2]
  <2>1. i \in 1 .. l /\ b \in TarBlocks
    BY <1>3, <1>6
  <2>2. IsHeader(b)
    BY <1>7, Zenon DEF IsHeader
  <2>3. b1 \in TarBlocks /\ Unreadable(v, b1) /\ b2 \in TarBlocks /\ Unreadable(TRUE, b2)
    BY <2>1, <2>2, AlteredBlock
  <2>4. Unsized(blocks, i) = s1 /\ Damaged(blocks, i) = s2
    BY <2>1 DEF Unsized, Damaged
  <2> HIDE DEF b1, b2
  <2>5. ~TarOpen(s1, v).ok /\ ~TarOpen(s2, TRUE).ok
    <3>1. IsHeader(blocks[i]) /\ TRUE \in BOOLEAN
      BY <2>2
    <3>2. s1 = [blocks EXCEPT ![i] = b1] /\ s2 = [blocks EXCEPT ![i] = b2]
      OBVIOUS
    <3> HIDE DEF s1, s2, b
    <3>3. QED
      BY <2>1, <2>3, <3>1, <3>2, <1>5
  <2>6. QED
    BY <2>4, <2>5, Zenon
<1>8. Refuses(members, v)
  BY <1>4, <1>7, Zenon DEF Refuses, blocks
<1>9. QED
  BY <1>8

\* The links to a file.
NamedBy(en, to)  == {i \in DOMAIN en : en[i].name = to}
Targeted(en, li) == {k \in DOMAIN li : NamedBy(en, li[k].to) # {}}

\* e is the link l with the data of a file of that name.
Resolves(e, l, en) ==
  \E x \in 1 .. Len(en) : en[x].name = l.to /\ e.name = l.name /\ e.size = en[x].size /\ e.at = en[x].at

LEMMA ResolvedParts ==
  ASSUME NEW a \in ScanStates
  PROVE  LET found == Picked(a.links, Targeted(a.entries, a.links))
             n == Len(a.entries)
         IN  /\ found \in Seq(TarLinks) /\ Len(Resolved(a)) = n + Len(found)
             /\ \A i \in 1 .. n : Resolved(a)[i] = a.entries[i]
             /\ \A i \in 1 .. Len(found) : Resolves(Resolved(a)[n + i], found[i], a.entries)
<1> DEFINE en == a.entries
           li == a.links
           n == Len(en)
           Files(l) == {i \in DOMAIN en : en[i].name = l.to}
           first(l) == CHOOSE i \in Files(l) : \A j \in Files(l) : i <= j
           at == {k \in DOMAIN li : Files(li[k]) # {}}
           found == Picked(li, at)
           more == [k \in DOMAIN found |->
                      [name |-> found[k].name, size |-> en[first(found[k])].size, at |-> en[first(found[k])].at]]
<1>1. en \in Seq(TarEntries) /\ li \in Seq(TarLinks)
  BY ScanFields
<1>2. DOMAIN en = 1 .. n /\ n \in Nat /\ DOMAIN li = 1 .. Len(li)
  BY <1>1
<1>3. at = Targeted(en, li)
  BY Zenon DEF Targeted, NamedBy
<1>4. Resolved(a) = en \o more
  BY Zenon DEF Resolved
<1> HIDE DEF en, li, n
<1>5. ASSUME NEW l, Files(l) # {} PROVE first(l) \in 1 .. n /\ en[first(l)].name = l.to
  <2>1. Files(l) \in SUBSET Nat /\ Files(l) \subseteq 1 .. n /\ \A i \in Files(l) : en[i].name = l.to
    BY <1>2
  <2> HIDE DEF Files
  <2>2. first(l) \in Files(l)
    BY <2>1, <1>5, FirstOf, Zenon
  <2>3. QED
    BY <2>1, <2>2
<1> HIDE DEF first
<1>6. /\ found \in Seq(TarLinks) /\ Len(found) \in Nat
      /\ \A i \in 1 .. Len(found) : \E k \in 1 .. Len(li) : k \in at /\ found[i] = li[k]
  <2> HIDE DEF at
  <2>1. PickedFrom(TarLinks, li, at, Picked(li, at))
    BY <1>1, PickedSeq, Zenon
  <2>2. QED
    BY <2>1, Zenon DEF PickedFrom
<1> HIDE DEF found
<1>7. ASSUME NEW i \in 1 .. Len(found) PROVE found[i] \in TarLinks /\ Files(found[i]) # {}
  BY <1>6
<1> HIDE DEF Files
<1>8. DOMAIN found = 1 .. Len(found)
  BY <1>6
<1>9. ASSUME NEW i \in 1 .. Len(found) PROVE more[i] \in TarEntries /\ Resolves(more[i], found[i], en)
  <2> DEFINE l == found[i]
             x == first(l)
             f == en[x]
             e == [name |-> l.name, size |-> f.size, at |-> f.at]
  <2>1. more[i] = e
    BY <1>8
  <2>2. x \in 1 .. n /\ f.name = l.to
    BY <1>5, <1>7
  <2>3. l \in TarLinks
    BY <1>7
  <2>4. f \in TarEntries
    BY <1>1, <2>2 DEF n
  <2> HIDE DEF l, x, f, more
  <2>5. e \in TarEntries
    BY <2>3, <2>4 DEF TarEntries, TarLinks
  <2>6. e.name = l.name /\ e.size = f.size /\ e.at = f.at
    OBVIOUS
  <2> HIDE DEF e
  <2>7. Resolves(e, l, en)
    BY <2>2, <2>6, Zenon DEF Resolves, n, f
  <2>8. QED
    BY <2>1, <2>5, <2>7 DEF l
<1>10. more \in Seq(TarEntries) /\ Len(more) = Len(found)
  <2>1. more \in [1 .. Len(found) -> TarEntries]
    BY <1>8, <1>9
  <2> HIDE DEF more
  <2>2. QED
    BY <2>1, <1>6
<1> HIDE DEF more
<1> DEFINE r == en \o more
<1>11. /\ Len(r) = n + Len(found)
       /\ \A i \in 1 .. n : r[i] = en[i]
       /\ \A i \in 1 .. Len(found) : r[n + i] = more[i]
  BY <1>1, <1>10 DEF n
<1> HIDE DEF r
<1>12. \A i \in 1 .. Len(found) : Resolves(r[n + i], found[i], en)
  BY <1>9, <1>11, Zenon
<1>13. found = Picked(li, Targeted(en, li)) /\ Resolved(a) = r
  BY <1>3, <1>4, Zenon DEF found, r
<1>14. QED
  BY <1>6, <1>11, <1>12, <1>13, Zenon DEF en, li, n

\* What is picked from two lists that go together goes together.
LEMMA PickedLinked ==
  ASSUME NEW li \in Seq(TarLinks), NEW ls \in Seq(TarMembers), Linked(li, ls), NEW at
  PROVE  Linked(Picked(li, at), Picked(ls, at))
<1> DEFINE n == Len(ls)
<1>1. Len(li) = n /\ \A i \in 1 .. n : li[i].name = ls[i].name /\ li[i].to = ls[i].to
  BY Zenon DEF Linked
<1>2. n \in Nat /\ ls \in [1 .. n -> TarMembers] /\ li \in [1 .. n -> TarLinks]
  BY <1>1, PositionsNat
<1> HIDE DEF n
<1>3. PICK f : Picking(li, at, n, f)
  BY <1>2, PicksOneByOne
<1>4. PICK g : Picking(ls, at, n, g)
  BY <1>2, PicksOneByOne
<1>5. f[0] = << >> /\ f[n] = Picked(li, at) /\ \A k \in 1 .. n : f[k] = WithPlace(f[k - 1], li, at, k)
  BY <1>3, Zenon DEF Picking
<1>6. g[0] = << >> /\ g[n] = Picked(ls, at) /\ \A k \in 1 .. n : g[k] = WithPlace(g[k - 1], ls, at, k)
  BY <1>4, Zenon DEF Picking
<1> DEFINE T == {k \in 0 .. n : f[k] \in Seq(TarLinks) /\ g[k] \in Seq(TarMembers) /\ Linked(f[k], g[k])}
<1>7. 0 \in T
  <2>1. 0 \in 0 .. n /\ << >> \in Seq(TarLinks) /\ << >> \in Seq(TarMembers)
    BY <1>2
  <2> DEFINE e == << >>
  <2>2. Len(e) = 0 /\ \A i \in 1 .. 0 : FALSE
    OBVIOUS
  <2> HIDE DEF e
  <2>3. Linked(e, e)
    BY <2>2, Zenon DEF Linked
  <2>4. QED
    BY <1>5, <1>6, <2>1, <2>3 DEF e
<1>8. ASSUME NEW k \in 0 .. n, k \in T, k < n PROVE k + 1 \in T
  <2> DEFINE q == k + 1
             a == f[k]
             b == g[k]
             x == li[q]
             y == ls[q]
  <2>1. q \in 1 .. n /\ q - 1 = k /\ q \in 0 .. n
    BY <1>2, <1>8
  <2>2. a \in Seq(TarLinks) /\ b \in Seq(TarMembers) /\ Linked(a, b)
    BY <1>8
  <2>3. f[q] = WithPlace(f[q - 1], li, at, q) /\ g[q] = WithPlace(g[q - 1], ls, at, q)
    BY <1>5, <1>6, <2>1, Zenon
  <2>4. f[q] = WithPlace(a, li, at, q) /\ g[q] = WithPlace(b, ls, at, q)
    BY <2>1, <2>3
  <2>5. x \in TarLinks /\ y \in TarMembers /\ x.name = y.name /\ x.to = y.to
    BY <1>1, <1>2, <2>1
  <2> HIDE DEF q, a, b, x, y, T
  <2>6. Linked(Append(a, x), Append(b, y)) /\ Append(a, x) \in Seq(TarLinks) /\ Append(b, y) \in Seq(TarMembers)
    BY <2>2, <2>5, LinkedMore, Appended, Zenon
  <2>7. f[q] \in Seq(TarLinks) /\ g[q] \in Seq(TarMembers) /\ Linked(f[q], g[q])
    <3>1. CASE q \in at
      <4>1. f[q] = Append(a, x) /\ g[q] = Append(b, y)
        BY <2>4, <3>1, Zenon DEF WithPlace, x, y
      <4>2. QED
        BY <2>6, <4>1, Zenon
    <3>2. CASE q \notin at
      <4>1. f[q] = a /\ g[q] = b
        BY <2>4, <3>2, Zenon DEF WithPlace
      <4>2. QED
        BY <2>2, <4>1, Zenon
    <3>3. QED
      BY <3>1, <3>2
  <2>8. QED
    BY <2>1, <2>7 DEF q, T
<1> HIDE DEF T
<1>9. \A k \in 0 .. n : k \in T
  BY <1>2, <1>7, <1>8, Upwards
<1>10. n \in T
  BY <1>2, <1>9
<1>11. Linked(f[n], g[n])
  BY <1>10 DEF T
<1>12. QED
  BY <1>5, <1>6, <1>11, Zenon

\* A link that was packed comes back as one with the data of a file of the name it gives.
LEMMA LinkHolds ==
  ASSUME NEW blocks, NEW en \in Seq(TarEntries), NEW fs \in Seq(TarMembers), Aligned(blocks, en, fs),
         NEW e, NEW l, Resolves(e, l, en)
  PROVE  e.name = l.name /\ Holds(blocks, e, l.to)
<1>1. PICK x \in 1 .. Len(en) : en[x].name = l.to /\ e.name = l.name /\ e.size = en[x].size /\ e.at = en[x].at
  BY Zenon DEF Resolves
<1>2. x \in 1 .. Len(fs) /\ en[x].name = fs[x].name /\ Holds(blocks, en[x], fs[x].name)
  BY Zenon DEF Aligned
<1>3. Holds(blocks, en[x], l.to)
  BY <1>1, <1>2, Zenon
<1>4. Holds(blocks, e, l.to)
  BY <1>1, <1>3, Zenon DEF Holds
<1>5. QED
  BY <1>1, <1>4

\* The links to a file are the same ones.
FoundIn(fs, ls) == {k \in DOMAIN ls : \E i \in DOMAIN fs : fs[i].name = ls[k].to}

LEMMA SameTargets ==
  ASSUME NEW blocks, NEW en \in Seq(TarEntries), NEW fs \in Seq(TarMembers), Aligned(blocks, en, fs),
         NEW li \in Seq(TarLinks), NEW ls \in Seq(TarMembers), Linked(li, ls)
  PROVE  FoundIn(fs, ls) = Targeted(en, li)
<1>1. DOMAIN en = 1 .. Len(en) /\ DOMAIN fs = 1 .. Len(fs) /\ DOMAIN li = 1 .. Len(li) /\ DOMAIN ls = 1 .. Len(ls)
  OBVIOUS
<1>2. Len(en) = Len(fs) /\ \A i \in 1 .. Len(fs) : en[i].name = fs[i].name
  BY Zenon DEF Aligned
<1>3. Len(li) = Len(ls) /\ \A k \in 1 .. Len(ls) : li[k].to = ls[k].to
  BY Zenon DEF Linked
<1>4. DOMAIN en = DOMAIN fs /\ DOMAIN li = DOMAIN ls
  BY <1>1, <1>2, <1>3, Zenon
<1>5. ASSUME NEW k \in DOMAIN ls
      PROVE  (\E i \in DOMAIN fs : fs[i].name = ls[k].to) <=> NamedBy(en, li[k].to) # {}
  <2>1. li[k].to = ls[k].to
    BY <1>1, <1>3, Zenon
  <2>2. \A i \in DOMAIN fs : en[i].name = fs[i].name
    BY <1>1, <1>2, Zenon
  <2>3. (\E i \in DOMAIN fs : fs[i].name = ls[k].to) <=> \E i \in DOMAIN en : en[i].name = li[k].to
    BY <1>4, <2>1, <2>2, Zenon
  <2>4. (\E i \in DOMAIN en : en[i].name = li[k].to) <=> NamedBy(en, li[k].to) # {}
    BY Zenon DEF NamedBy
  <2>5. QED
    BY <2>3, <2>4, Zenon
<1>6. QED
  BY <1>4, <1>5, Zenon DEF Targeted, FoundIn

\* What is read is what was written.
LEMMA ArchiveReadBack ==
  ASSUME NEW v \in BOOLEAN, NEW members \in Seq(TarMembers)
  PROVE  ReadsBack(members, v)
<1> DEFINE n == Len(members)
           blocks == Pack(members)
           files == Picked(members, {k \in DOMAIN members : members[k].to = NoName})
           links == Picked(members, {k \in DOMAIN members : members[k].to # NoName})
           some == {k \in DOMAIN links : \E i \in DOMAIN files : files[i].name = links[k].to}
           found == Picked(links, some)
           tar == TarOpen(blocks, v)
           a == Scan(v, blocks)
           en == a.entries
           li == a.links
           own == Picked(li, Targeted(en, li))
<1>1. n \in Nat /\ members \in [1 .. n -> TarMembers]
  BY PositionsNat
<1> HIDE DEF n
<1>2. PICK off \in [0 .. n -> Nat] : PackedAt(members, n, off, blocks)
  BY <1>1, PackPlaces
<1>3. blocks \in Seq(TarBlocks)
  <2> HIDE DEF blocks
  <2>1. QED
    BY <1>1, <1>2, PackedScan
<1> HIDE DEF blocks
<1>4. a.state = "ended" /\ Aligned(blocks, en, files) /\ Linked(li, links)
  BY <1>1, <1>2, ArchiveOpened, Zenon DEF FilesIn, LinksIn
<1>5. files \in Seq(TarMembers) /\ links \in Seq(TarMembers)
  <2> DEFINE F == {k \in DOMAIN members : members[k].to = NoName}
             L == {k \in DOMAIN members : members[k].to # NoName}
  <2> HIDE DEF F, L
  <2>1. PickedFrom(TarMembers, members, F, Picked(members, F)) /\ PickedFrom(TarMembers, members, L, Picked(members, L))
    BY PickedSeq, Zenon
  <2>2. Picked(members, F) \in Seq(TarMembers) /\ Picked(members, L) \in Seq(TarMembers)
    BY <2>1, Zenon DEF PickedFrom
  <2>3. QED
    BY <2>2 DEF F, L
<1>6. a \in ScanStates
  BY <1>3, ScanTyped
<1>7. en \in Seq(TarEntries) /\ li \in Seq(TarLinks)
  BY <1>6, ScanFields, Zenon
<1>8. tar.ok /\ tar.entries = Resolved(a)
  BY <1>4, OpenOk, Zenon
<1> HIDE DEF files, links, a, tar
<1>9. some = Targeted(en, li)
  <2>1. FoundIn(files, links) = Targeted(en, li)
    BY <1>4, <1>5, <1>7, SameTargets, Zenon
  <2>2. QED
    BY <2>1, Zenon DEF FoundIn
<1>10. /\ own \in Seq(TarLinks) /\ Len(Resolved(a)) = Len(en) + Len(own)
       /\ \A i \in 1 .. Len(en) : Resolved(a)[i] = en[i]
       /\ \A i \in 1 .. Len(own) : Resolves(Resolved(a)[Len(en) + i], own[i], en)
  BY <1>6, ResolvedParts, Zenon
<1> HIDE DEF en, li
<1>11. Linked(own, found)
  BY <1>4, <1>5, <1>7, <1>9, PickedLinked, Zenon
<1>12. found \in Seq(TarMembers)
  <2> HIDE DEF some
  <2>1. PickedFrom(TarMembers, links, some, Picked(links, some))
    BY <1>5, PickedSeq, Zenon
  <2>2. QED
    BY <2>1, Zenon DEF PickedFrom
<1> DEFINE r == tar.entries
<1> HIDE DEF own, found, some, r
<1>13. /\ Len(en) = Len(files)
       /\ \A i \in 1 .. Len(files) : en[i].name = files[i].name /\ en[i].size = files[i].size /\ Holds(blocks, en[i], files[i].name)
  BY <1>4, Zenon DEF Aligned
<1>14. Len(own) = Len(found) /\ \A i \in 1 .. Len(found) : own[i].name = found[i].name /\ own[i].to = found[i].to
  BY <1>11, Zenon DEF Linked
<1>15. /\ Len(r) = Len(files) + Len(found)
       /\ \A i \in 1 .. Len(files) : r[i] = en[i]
       /\ \A i \in 1 .. Len(found) : Resolves(r[Len(files) + i], own[i], en)
  BY <1>8, <1>10, <1>13, <1>14, Zenon DEF r
<1>16. ASSUME NEW i \in 1 .. Len(files)
       PROVE  r[i].name = files[i].name /\ r[i].size = files[i].size /\ Holds(blocks, r[i], files[i].name)
  BY <1>13, <1>15, Zenon
<1>17. ASSUME NEW i \in 1 .. Len(found)
       PROVE  r[Len(files) + i].name = found[i].name /\ Holds(blocks, r[Len(files) + i], found[i].to)
  <2> DEFINE e == r[Len(files) + i]
             l == own[i]
  <2>1. Resolves(e, l, en)
    BY <1>15
  <2> HIDE DEF e, l
  <2>2. e.name = l.name /\ Holds(blocks, e, l.to)
    BY <1>4, <1>5, <1>7, <2>1, LinkHolds, Zenon
  <2>3. l.name = found[i].name /\ l.to = found[i].to
    BY <1>14 DEF l
  <2>4. QED
    BY <2>2, <2>3, Zenon DEF e
<1>18. DOMAIN files = 1 .. Len(files) /\ DOMAIN found = 1 .. Len(found)
  BY <1>5, <1>12
<1>19. ReadsBack(members, v)
  BY <1>8, <1>15, <1>16, <1>17, <1>18, Zenon DEF ReadsBack, r, files, links, found, some, tar, blocks
<1>20. QED
  BY <1>19

\* What was packed is read back, and an archive that was damaged or cut is refused
\* (io/tar.cpp), whatever the members and the ways their names and sizes are written.
THEOREM ArchivesReadBack == Spec => []ArchiveRead
<1>1. Init => FilesTyped
  BY FilesStart
<1>2. ASSUME FilesTyped PROVE ArchiveRead
  <2>1. ASSUME NEW i \in DOMAIN job, NEW validate \in BOOLEAN
        PROVE  ReadsBack(job[i].members, validate) /\ Refuses(job[i].members, validate)
    <3>1. job \in Seq(InputFiles)
      BY <1>2, FilesOf
    <3>2. job[i] \in InputFiles
      BY <3>1
    <3>3. job[i].members \in Seq(TarMembers)
      BY <3>2 DEF InputFiles
    <3>4. QED
      BY <3>3, ArchiveReadBack, ArchiveRefused, Zenon
  <2>2. QED
    BY <2>1, Zenon DEF ArchiveRead
<1>3. QED
  BY <1>1, <1>2, FilesKept, PTL DEF Spec
=============================================================================
