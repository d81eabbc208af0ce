------------------------------ MODULE CliProgram ------------------------------
(***************************************************************************)
(* The command line program: run_cli (app/cli_mode.cpp) with the lock of   *)
(* the only instance (single_instance.cpp), the USB devices                *)
(* (usbfs_device.cpp, sysfs_usb.cpp), the TCP listener (tcp_transport.cpp) *)
(* and the signal shield (signal_shield.cpp).                              *)
(*                                                                         *)
(* Several processes run it.  What the kernel keeps for them is the lock,  *)
(* the port, the claims on USB interfaces and the driver bound to each:    *)
(* the first three it takes back from a process that is killed, the driver *)
(* it does not put back.  A process runs main, and the watcher thread of   *)
(* the shield.                                                             *)
(***************************************************************************)
EXTENDS FlashRun

CONSTANTS
  Procs,
  Devices,       \* USB devices of the vendor
  OdinDevices,   \* those in download mode
  Bound,         \* those the kernel has bound a driver to at first
  Invocations,   \* sequences of arguments, parsed or not
  MaxSignals     \* bound of the model: signals sent by the user

None == "none"
NoArgs == [mode |-> "none", wireless |-> FALSE, target |-> None, pit |-> "no", files |-> << >>]
ASSUME CliAssumption ==
  /\ OdinDevices \subseteq Devices /\ Bound \subseteq Devices /\ IsFiniteSet(Devices)
  /\ MaxSignals \in Nat /\ None \notin Procs \cup Devices
ASSUME InvocationsAssumption == \A a \in Invocations : a.files \in Seq(InputFiles)

VARIABLES
  lock, port,      \* the process that has it, or none
  claim, driver,   \* of each device: who claimed it; is the kernel's driver bound
  args, pc,
  todo,            \* devices still to open
  opened,          \* devices opened
  detached,        \* devices this process detached the driver of
  peer,            \* a wireless connection
  shield,          \* "none", "waiting", "stopping", "gone": the watcher
  blocked,         \* signals are blocked
  pending,         \* signals that wait
  signals,         \* number sent
  code,            \* the exit code on the way out
  exit             \* "none", "0", "1", "2", "killed"

kernel == <<lock, port, claim, driver>>
conns  == <<todo, opened, detached, peer>>
guard  == <<shield, blocked, pending>>
cliVars == <<kernel, args, pc, conns, guard, signals, code, exit>>

CliInit(at) ==
  /\ lock = None /\ port = None
  /\ claim = [d \in Devices |-> None] /\ driver = [d \in Devices |-> d \in Bound]
  /\ args = [p \in Procs |-> NoArgs]
  /\ pc = [p \in Procs |-> at]
  /\ todo = [p \in Procs |-> << >>] /\ opened = [p \in Procs |-> << >>]
  /\ detached = [p \in Procs |-> {}] /\ peer = [p \in Procs |-> FALSE]
  /\ shield = [p \in Procs |-> "none"] /\ blocked = [p \in Procs |-> FALSE]
  /\ pending = [p \in Procs |-> {}] /\ signals = 0
  /\ code = [p \in Procs |-> "0"] /\ exit = [p \in Procs |-> "none"]

Goto(p, from, to) == pc[p] = from /\ pc' = [pc EXCEPT ![p] = to]

\* return c: what the process holds is released on the way out.
Return(p, from, c) ==
  /\ Goto(p, from, "leave") /\ code' = [code EXCEPT ![p] = c]

-----------------------------------------------------------------------------
\* Defect: a process that does not get the lock goes on.
TryAcquireAnyway(p) ==
  /\ Goto(p, "start", "parse") /\ lock' = IF lock = None THEN p ELSE lock
  /\ UNCHANGED <<code, exit, port, claim, driver, args, conns, guard, signals, flashVars>>

\* SingleInstanceLock::try_acquire.
TryAcquire(p) ==
  /\ IF lock = None
     THEN Goto(p, "start", "parse") /\ lock' = p /\ UNCHANGED <<code, exit>>
     ELSE /\ Goto(p, "start", "done") /\ UNCHANGED <<lock, code>>
          /\ exit' = [exit EXCEPT ![p] = "2"]
  /\ UNCHANGED <<port, claim, driver, args, conns, guard, signals, flashVars>>

\* parse_cli_args, --help and --list, and the first tests of run_flash_cli.
BadUsage(a) ==
  \/ a.mode = "bad"
  \/ a.mode = "flash" /\ a.files = << >> /\ a.pit = "no"
  \/ a.mode = "flash" /\ a.wireless /\ a.target # None

ParseArgs(p) ==
  /\ pc[p] = "parse"
  /\ \E a \in Invocations :
       /\ args' = [args EXCEPT ![p] = a]
       /\ CASE BadUsage(a)                -> Return(p, "parse", "2")
           [] a.mode \in {"help", "list"} -> Return(p, "parse", "0")
           [] a.mode = "flash" /\ a.pit = "unreadable" -> Return(p, "parse", "1")
           [] OTHER -> Goto(p, "parse", IF a.wireless THEN "listen" ELSE "select") /\ UNCHANGED code
  /\ UNCHANGED <<kernel, conns, guard, signals, exit, flashVars>>

-----------------------------------------------------------------------------
\* make_provider, wireless: the listener lives as long as the call; it fails if another
\* has the port, or for any other reason.  Time-outs of accept_one are waited out.
Listen(p) ==
  /\ \/ port = None /\ Goto(p, "listen", "accept") /\ port' = p /\ UNCHANGED code
     \/ Return(p, "listen", "1") /\ UNCHANGED port
  /\ UNCHANGED <<lock, claim, driver, args, conns, guard, signals, exit, flashVars>>

Accept(p) ==
  /\ port' = None
  /\ \/ Goto(p, "accept", "verify") /\ peer' = [peer EXCEPT ![p] = TRUE] /\ UNCHANGED code
     \/ Return(p, "accept", "1") /\ UNCHANGED peer
  /\ UNCHANGED <<lock, claim, driver, args, todo, opened, detached, guard, signals, exit, flashVars>>

\* make_provider, USB: the target, or every device in download mode.
Chosen(a) == IF a.target # None THEN {a.target} \cap OdinDevices ELSE OdinDevices

SelectDevices(p) ==
  /\ IF Chosen(args[p]) = {} THEN Return(p, "select", "1") /\ UNCHANGED todo
     ELSE /\ Goto(p, "select", "open") /\ UNCHANGED code
          /\ todo' = [todo EXCEPT ![p] = SetToSeq(Chosen(args[p]))]
  /\ UNCHANGED <<kernel, args, opened, detached, peer, guard, signals, exit, flashVars>>

\* open_and_init.  Its first part: the node, the descriptors, write access; the file
\* is closed again if one is missing.
OpenDevice(p) ==
  /\ \/ todo[p] # << >> /\ Goto(p, "open", "detach") /\ UNCHANGED code
     \/ todo[p] # << >> /\ Return(p, "open", "1")
     \/ todo[p] = << >> /\ Goto(p, "open", "verify") /\ UNCHANGED code
  /\ UNCHANGED <<kernel, args, conns, guard, signals, exit, flashVars>>

\* The kernel's driver is detached, if one is bound.
DetachDriver(p) ==
  LET d == Head(todo[p])
  IN  /\ pc[p] = "detach"
      /\ \/ /\ Goto(p, "detach", "claim") /\ UNCHANGED code
            /\ driver' = [driver EXCEPT ![d] = FALSE]
            /\ detached' = [detached EXCEPT ![p] = IF driver[d] THEN @ \cup {d} ELSE @]
         \/ driver[d] /\ Return(p, "detach", "1") /\ UNCHANGED <<driver, detached>>
      /\ UNCHANGED <<lock, port, claim, args, todo, opened, peer, guard, signals, exit, flashVars>>

Reattach(p, d) ==
  /\ driver' = [driver EXCEPT ![d] = @ \/ d \in detached[p]]
  /\ detached' = [detached EXCEPT ![p] = @ \ {d}]

Claimed(p, d) ==
  /\ Goto(p, "claim", "open") /\ claim[d] = None /\ claim' = [claim EXCEPT ![d] = p]
  /\ opened' = [opened EXCEPT ![p] = Append(@, d)] /\ todo' = [todo EXCEPT ![p] = Tail(@)]
  /\ UNCHANGED <<driver, detached, code>>

\* Defect: a claim that fails leaves the driver detached.
ClaimDeviceKeepsDetached(p) ==
  /\ pc[p] = "claim"
  /\ LET d == Head(todo[p])
     IN  \/ Claimed(p, d)
         \/ /\ Return(p, "claim", "1") /\ detached' = [detached EXCEPT ![p] = @ \ {d}]
            /\ UNCHANGED <<driver, claim, todo, opened>>
  /\ UNCHANGED <<lock, port, args, peer, guard, signals, exit, flashVars>>

\* The interface is claimed; if that fails the driver is put back.  The connection
\* that is opened then cannot fail.
ClaimDevice(p) ==
  /\ pc[p] = "claim"
  /\ LET d == Head(todo[p])
     IN  \/ Claimed(p, d)
         \/ Return(p, "claim", "1") /\ Reattach(p, d) /\ UNCHANGED <<claim, todo, opened>>
  /\ UNCHANGED <<lock, port, args, peer, guard, signals, exit, flashVars>>

-----------------------------------------------------------------------------
\* md5_jobs and md5_verify, which the tree declares and defines nowhere: they pass or
\* fail, and are skipped without files.
Verify(p) ==
  /\ \/ Goto(p, "verify", "expand") /\ UNCHANGED code
     \/ args[p].files # << >> /\ Return(p, "verify", "1")
  /\ UNCHANGED <<kernel, args, conns, guard, signals, exit, flashVars>>

\* A PIT is that of --use-pit or the last one among the images, if it can be read.
PitAmong(specs) == \E k \in DOMAIN specs : IsPit(specs[k].base)
NoPit(specs) == Picked(specs, {k \in DOMAIN specs : ~IsPit(specs[k].base)})

Flash(p, given, images, pit) ==
  IF ~given.ok \/ (args[p].files # << >> /\ images = << >> /\ ~pit)
  THEN Return(p, "expand", "1") /\ UNCHANGED flashVars
  ELSE Goto(p, "expand", "flash") /\ UNCHANGED code /\ FlashBegin(images)

ExpandInputs(p) ==
  /\ pc[p] = "expand"
  /\ \E given \in {Expand(args[p].files)} :
       \E pit \in IF args[p].pit = "given" THEN {TRUE} ELSE {FALSE, PitAmong(given.specs)} :
         Flash(p, given, NoPit(given.specs), pit)
  /\ UNCHANGED <<kernel, args, conns, guard, signals, exit>>

\* on_stage at the stage "Flashing...": SignalShield::enable, once; its failure is
\* passed over.  Nothing has been cut yet.
ShieldUp(p) ==
  /\ Running /\ item = 0 /\ shield[p] = "none"
  /\ Goto(p, "flash", "shielded")
  /\ \/ blocked' = [blocked EXCEPT ![p] = TRUE] /\ shield' = [shield EXCEPT ![p] = "waiting"]
     \/ UNCHANGED <<blocked, shield>>
  /\ UNCHANGED <<kernel, args, conns, pending, signals, code, exit, flashVars>>

Flashing(p) ==
  /\ pc[p] = "shielded" /\ FlashStep
  /\ UNCHANGED cliVars

\* flash() fails before it comes to that stage.
EarlyFailure(p) == pc[p] = "flash" /\ LastDeviceFails /\ UNCHANGED cliVars

FlashReturns(p) ==
  /\ pc[p] \in {"flash", "shielded"} /\ outcome \in {"ok", "failed"}
  /\ Return(p, pc[p], IF outcome = "ok" THEN "0" ELSE "1")
  /\ FlashReset
  /\ UNCHANGED <<kernel, args, conns, guard, signals, exit>>

-----------------------------------------------------------------------------
\* On the way out the targets go first: the interface is released and the driver put
\* back before the file is closed.
ReleaseDevice(p) ==
  /\ pc[p] = "leave" /\ opened[p] # << >>
  /\ LET d == Head(opened[p])
     IN  /\ claim' = [claim EXCEPT ![d] = None]
         /\ Reattach(p, d)
  /\ opened' = [opened EXCEPT ![p] = Tail(@)]
  /\ UNCHANGED <<lock, port, args, pc, todo, peer, guard, signals, code, exit, flashVars>>

\* Then the connection, and the shield: stop_and_restore_ raises the flag and sends a
\* signal to its own process to wake the watcher.
ShieldDown(p) ==
  /\ opened[p] = << >> /\ Goto(p, "leave", "join")
  /\ peer' = [peer EXCEPT ![p] = FALSE]
  /\ IF shield[p] = "none" THEN UNCHANGED <<shield, pending>>
     ELSE /\ shield' = [shield EXCEPT ![p] = "stopping"]
          /\ pending' = [pending EXCEPT ![p] = @ \cup {"TERM"}]
  /\ UNCHANGED <<kernel, args, todo, opened, detached, blocked, signals, code, exit, flashVars>>

\* Defect: the flag is tested before the wait, not after it.
WatchTestsFirst(p) ==
  /\ \/ shield[p] = "stopping" /\ shield' = [shield EXCEPT ![p] = "gone"] /\ UNCHANGED pending
     \/ /\ shield[p] = "waiting" /\ UNCHANGED shield
        /\ \E s \in pending[p] : pending' = [pending EXCEPT ![p] = @ \ {s}]
  /\ UNCHANGED <<kernel, args, pc, conns, blocked, signals, code, exit, flashVars>>

\* The watcher takes one signal, whichever; after the flag was raised, any ends it.
Watch(p) ==
  /\ shield[p] \in {"waiting", "stopping"}
  /\ \E s \in pending[p] : pending' = [pending EXCEPT ![p] = @ \ {s}]
  /\ shield' = [shield EXCEPT ![p] = IF @ = "stopping" THEN "gone" ELSE @]
  /\ UNCHANGED <<kernel, args, pc, conns, blocked, signals, code, exit, flashVars>>

\* What the kernel does when a process is killed.
Killed(p) ==
  /\ pc' = [pc EXCEPT ![p] = "done"] /\ exit' = [exit EXCEPT ![p] = "killed"]
  /\ lock' = IF lock = p THEN None ELSE lock
  /\ port' = IF port = p THEN None ELSE port
  /\ claim' = [d \in Devices |-> IF claim[d] = p THEN None ELSE claim[d]]
  /\ opened' = [opened EXCEPT ![p] = << >>] /\ peer' = [peer EXCEPT ![p] = FALSE]
  /\ pending' = [pending EXCEPT ![p] = {}] /\ blocked' = [blocked EXCEPT ![p] = FALSE]
  /\ shield' = [shield EXCEPT ![p] = "none"] /\ args' = [args EXCEPT ![p] = NoArgs]
  /\ UNCHANGED <<driver, todo, detached, code>>

\* The watcher is joined and the mask restored: a signal that still waits is delivered.
Restore(p) ==
  /\ pc[p] = "join" /\ shield[p] \in {"none", "gone"}
  /\ IF pending[p] # {} THEN Killed(p)
     ELSE /\ Goto(p, "join", "unlock")
          /\ blocked' = [blocked EXCEPT ![p] = FALSE] /\ shield' = [shield EXCEPT ![p] = "none"]
          /\ UNCHANGED <<kernel, args, conns, pending, code, exit>>
  /\ UNCHANGED <<signals, flashVars>>

\* The lock goes last.
Unlock(p) ==
  /\ Goto(p, "unlock", "done")
  /\ lock' = None /\ exit' = [exit EXCEPT ![p] = code[p]]
  /\ args' = [args EXCEPT ![p] = NoArgs]
  /\ UNCHANGED <<port, claim, driver, conns, guard, signals, code, flashVars>>

\* The user interrupts a process.
Interrupt(p) ==
  /\ signals < MaxSignals /\ pc[p] # "done"
  /\ signals' = signals + 1
  /\ IF blocked[p]
     THEN /\ pending' = [pending EXCEPT ![p] = @ \cup {"INT"}]
          /\ UNCHANGED <<kernel, args, pc, conns, shield, blocked, code, exit, flashVars>>
     ELSE Killed(p) /\ IF pc[p] \in {"flash", "shielded"} THEN FlashReset ELSE UNCHANGED flashVars

MainStep(p) ==
  \/ TryAcquire(p) \/ ParseArgs(p) \/ Listen(p) \/ Accept(p) \/ SelectDevices(p)
  \/ OpenDevice(p) \/ DetachDriver(p) \/ ClaimDevice(p)
  \/ Verify(p) \/ ExpandInputs(p)
  \/ ShieldUp(p) \/ Flashing(p) \/ EarlyFailure(p) \/ FlashReturns(p)
  \/ ReleaseDevice(p) \/ ShieldDown(p) \/ Restore(p) \/ Unlock(p)

CliNext == \E p \in Procs : MainStep(p) \/ Watch(p) \/ Interrupt(p)

-----------------------------------------------------------------------------
\* What a process takes it has under the lock: devices, the port, a connection, a
\* detached driver, the mask, a flash.  One that has ended has none of it, nor the lock;
\* only a driver stays detached, by a kill.
HeldUnderLock ==
  \A p \in Procs :
    /\ ( \/ port = p
         \/ peer[p] \/ blocked[p]
         \/ \E d \in Devices : claim[d] = p
         \/ detached[p] # {} /\ exit[p] # "killed"
         \/ pc[p] \in {"flash", "shielded"} ) => lock = p
    /\ exit[p] # "none" => lock # p

\* The signal that a process sends itself to wake the watcher of its shield is taken
\* before the mask is restored: none is killed where the user sent no signal
\* (SignalShield::stop_and_restore_).
WakeUpTaken == (\E p \in Procs : exit[p] = "killed") => signals > 0

\* A driver the kernel had bound is missing only while a process uses its device, or
\* after one was killed that did: every way out of the program puts it back.  And none
\* is killed but by the user.
DriversReturn ==
  /\ \A d \in Bound : driver[d] \/ \E p \in Procs : d \in detached[p]
  /\ \A p \in Procs : exit[p] \in {"0", "1", "2"} => detached[p] = {}
  /\ WakeUpTaken
=============================================================================
