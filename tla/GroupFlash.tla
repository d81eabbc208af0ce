----------------------------- MODULE GroupFlash -----------------------------
(***************************************************************************)
(* protocol/odin/group_flasher.cpp, flash(): the list of steps that a      *)
(* flashing session of several devices goes through, what happens to a     *)
(* device that fails on the way, and the verdict the caller gets.          *)
(*                                                                         *)
(* Every step that talks to the devices does so through fanout_keep: one   *)
(* thread per active device, all joined, the failed ones dropped.  The     *)
(* threads share nothing but their own slot of sts, so a fan-out is one    *)
(* action that picks the set of devices that fail.  The flashing step is   *)
(* the one place where threads share more; module FlashBarrier models it   *)
(* and its properties are the contract FlashStep uses here.                *)
(***************************************************************************)
EXTENDS Naturals, FiniteSets

CONSTANTS
  NumDevices,    \* devs.size()
  NumSources,    \* sources.size(), in the caller's order
  HasPit,        \* a PIT to upload was given
  Ids,           \* partition identifiers
  DevTypes,      \* device types of PIT entries
  PitTables,     \* what a device's PIT may say of the sources
  Cpus,          \* cpu_bl_id values
  NoCpu          \* the empty cpu_bl_id

Devices == 1 .. NumDevices
Sources == 1 .. NumSources
NoEntry == [id |-> "none", dev |-> "none"]
Entries == [id : Ids, dev : DevTypes]

ASSUME SizesAssumption == NumDevices \in Nat \ {0} /\ NumSources \in Nat
ASSUME HasPitAssumption == HasPit \in BOOLEAN
ASSUME EntryAssumption == NoEntry \notin Entries
ASSUME PitAssumption == PitTables \subseteq [Sources -> Entries \cup {NoEntry}]
ASSUME CpuAssumption == NoCpu \notin Cpus

VARIABLES
  pc,           \* the step of flash() to run next
  active,       \* devices not dropped yet
  failedTotal,  \* failed_total
  firstErr,     \* first_err.has_error()
  reported,     \* device: DEVFAIL messages emitted for it
  proto,        \* device: protocol version 2 or later, or older
  pkt,          \* the packet size chosen
  cpu, pit,     \* device: its parsed PIT
  items,        \* items: partition id -> source flashed to it
  written,      \* survivor: partitions flashed completely (of a device
                \* that failed nothing is claimed)
  srcErr,       \* the coordinator of the flashing step returned an error
  closed,       \* devices that were shut down
  result,       \* what flash() returned
  uiDone        \* on_done was called

tally == <<failedTotal, firstErr, reported>>
table == <<cpu, pit>>
ended == <<result, uiDone>>
vars  == <<pc, active, tally, proto, pkt, table, items, written, srcErr, closed, ended>>

Steps == {"check", "handshake", "options", "pitUp", "pitDown", "cpuCheck", "mapping",
          "totalSize", "flash", "shutdown", "finish", "end"}

Init ==
  /\ pc = "check" /\ active = Devices
  /\ failedTotal = 0 /\ firstErr = FALSE
  /\ reported = [d \in Devices |-> 0]
  /\ proto = [d \in Devices |-> "unknown"] /\ pkt = "unset"
  /\ cpu = [d \in Devices |-> NoCpu]
  /\ pit = [d \in Devices |-> [s \in Sources |-> NoEntry]]
  /\ items = << >>
  /\ written = [d \in Devices |-> {}] /\ srcErr = FALSE
  /\ closed = {} /\ result = "none" /\ uiDone = FALSE

\* active.front().
Front == CHOOSE d \in active : \A e \in active : d <= e

\* A step returned an error: finish(st, false).
Abort == pc' = "end" /\ result' = "err" /\ UNCHANGED uiDone

Continue(next) == pc' = next /\ UNCHANGED ended

\* fanout_keep, when the devices F (of the active ones) fail.
FanOutKeep(F, next) ==
  /\ failedTotal' = failedTotal + Cardinality(F)
  /\ firstErr' = (firstErr \/ F # {})
  /\ reported' = [d \in Devices |-> reported[d] + (IF d \in F THEN 1 ELSE 0)]
  /\ active' = active \ F
  /\ IF active' = {} THEN Abort ELSE Continue(next)

-----------------------------------------------------------------------------
\* The early returns of flash(); a link may be closed.
Check ==
  /\ pc = "check"
  /\ \/ Abort
     \/ (NumSources > 0 \/ HasPit) /\ Continue("handshake")
  /\ UNCHANGED <<active, tally, proto, pkt, table, items, written, srcErr, closed>>

\* Handshake and version: the device says what protocol it speaks.
Handshake ==
  /\ pc = "handshake"
  /\ \E F \in SUBSET active, v \in [Devices -> {"old", "v2"}] :
       /\ FanOutKeep(F, "options")
       /\ proto' = [d \in Devices |-> IF d \in active \ F THEN v[d] ELSE proto[d]]
  /\ UNCHANGED <<pkt, table, items, written, srcErr, closed>>

\* choose_pkt: one old device keeps everybody on the small packet.
ChoosePkt == IF \E d \in active : proto[d] = "old" THEN "pkt_any_old" ELSE "pkt_all_v2plus"

\* setup_transfer_options; devices older than version 2 are not asked.
Options ==
  /\ pc = "options"
  /\ pkt' = ChoosePkt
  /\ \E F \in SUBSET {d \in active : proto[d] = "v2"} :
       FanOutKeep(F, IF HasPit THEN "pitUp" ELSE "pitDown")
  /\ UNCHANGED <<proto, table, items, written, srcErr, closed>>

PitUpload ==
  /\ pc = "pitUp"
  /\ \E F \in SUBSET active : FanOutKeep(F, "pitDown")
  /\ UNCHANGED <<proto, pkt, table, items, written, srcErr, closed>>

\* Download and parse; a PIT that does not parse fails its device.
PitDownload ==
  /\ pc = "pitDown"
  /\ \E F \in SUBSET active :
       /\ FanOutKeep(F, "cpuCheck")
       /\ \E c \in [active \ F -> Cpus \cup {NoCpu}], t \in [active \ F -> PitTables] :
            /\ cpu' = [d \in Devices |-> IF d \in active \ F THEN c[d] ELSE cpu[d]]
            /\ pit' = [d \in Devices |-> IF d \in active \ F THEN t[d] ELSE pit[d]]
  /\ UNCHANGED <<proto, pkt, items, written, srcErr, closed>>

CpuOk == cpu[Front] # NoCpu /\ \A d \in active : cpu[d] = cpu[Front]

CpuCheck ==
  /\ pc = "cpuCheck"
  /\ IF CpuOk THEN Continue("mapping") ELSE Abort
  /\ UNCHANGED <<active, tally, proto, pkt, table, items, written, srcErr, closed>>

-----------------------------------------------------------------------------
(***************************************************************************)
(* sources_common_mapping_or_empty.  The devices are compared with the     *)
(* first one, in order: a device that lacks the entry makes the source     *)
(* skipped before the later devices are looked at, a different entry on an *)
(* earlier one is an error.                                                *)
(***************************************************************************)
Common == {s \in Sources : \A d \in active : pit[d][s] # NoEntry}

\* Defect: only the partition id is compared, not the device type.
DiffersById(s) ==
  \E d \in active : /\ pit[d][s].id # pit[Front][s].id
                    /\ \A e \in active : e <= d => pit[e][s] # NoEntry

Differs(s) ==
  \E d \in active : /\ pit[d][s] # pit[Front][s]
                    /\ \A e \in active : e <= d => pit[e][s] # NoEntry

\* map_to_pit: the last source for a partition id replaces the earlier ones.
MapToPit ==
  [i \in {pit[Front][s].id : s \in Common} |->
     CHOOSE s \in Common : /\ pit[Front][s].id = i
                           /\ \A r \in Common : pit[Front][r].id = i => r <= s]

\* The mapping step: a plan with no item is an error too.
Mapping ==
  /\ pc = "mapping"
  /\ IF (\E s \in Sources : Differs(s)) \/ Common = {}
       THEN Abort /\ UNCHANGED items
       ELSE Continue("totalSize") /\ items' = MapToPit
  /\ UNCHANGED <<active, tally, proto, pkt, table, written, srcErr, closed>>

\* send_total_size.
TotalSize ==
  /\ pc = "totalSize"
  /\ \E F \in SUBSET active : FanOutKeep(F, "flash")
  /\ UNCHANGED <<proto, pkt, table, items, written, srcErr, closed>>

\* Defect: the failures of the flashing step are not added to failed_total.
FlashTallyDropsCount(F) ==
  /\ failedTotal' = failedTotal
  /\ firstErr' = (firstErr \/ F # {})
  /\ reported' = [d \in Devices |-> reported[d] + (IF d \in F THEN 1 ELSE 0)]
  /\ active' = active \ F

\* After the workers were joined: counts, first error, survivors.
FlashTally(F) ==
  /\ failedTotal' = failedTotal + Cardinality(F)
  /\ firstErr' = (firstErr \/ F # {})
  /\ reported' = [d \in Devices |-> reported[d] + (IF d \in F THEN 1 ELSE 0)]
  /\ active' = active \ F

(***************************************************************************)
(* The flashing step by its contract: devices F fail; the coordinator goes *)
(* through all items unless a source cannot be read, and a device that did *)
(* not fail has what the coordinator sent.  The step itself never fails.   *)
(***************************************************************************)
FlashStep ==
  /\ pc = "flash"
  /\ \E F \in SUBSET active, sent \in SUBSET DOMAIN items :
       /\ FlashTally(F)
       /\ srcErr' = (F # active /\ sent # DOMAIN items)
       /\ written' = [d \in Devices |-> IF d \in active \ F THEN sent ELSE {}]
  /\ Continue("shutdown")
  /\ UNCHANGED <<proto, pkt, table, items, closed>>

(***************************************************************************)
(* The last step.  When every device fails to shut down, fanout_keep has   *)
(* emptied active and active_idx: the second count and the second DEVFAIL  *)
(* of the step's own error path run over nothing.                          *)
(***************************************************************************)
Shutdown ==
  /\ pc = "shutdown"
  /\ IF active = {}
       THEN UNCHANGED <<active, tally, closed>> /\ Continue("finish")
       ELSE \E F \in SUBSET active : FanOutKeep(F, "finish") /\ closed' = closed \cup (active \ F)
  /\ UNCHANGED <<proto, pkt, table, items, written, srcErr>>

\* Defect: the verdict looks at the surviving devices only.
VerdictOkSurvivors == active # {}

VerdictOk == failedTotal = 0 /\ ~firstErr

\* finish({}, false).
Finish ==
  /\ pc = "finish"
  /\ pc' = "end"
  /\ result' = IF VerdictOk THEN "ok" ELSE "err"
  /\ uiDone' = VerdictOk
  /\ UNCHANGED <<active, tally, proto, pkt, table, items, written, srcErr, closed>>

Step == \/ Check \/ Handshake \/ Options \/ PitUpload \/ PitDownload \/ CpuCheck
        \/ Mapping \/ TotalSize \/ FlashStep \/ Shutdown \/ Finish

\* flash() has returned; nothing happens any more.
Terminated == pc = "end" /\ UNCHANGED vars

Next == Step \/ Terminated

Spec == Init /\ [][Next]_vars

-----------------------------------------------------------------------------
EntrySet == Entries \cup {NoEntry}

\* The type of every variable, and the end is where there is a result.
TypeOK ==
  /\ pc \in Steps /\ active \subseteq Devices
  /\ failedTotal \in Nat /\ firstErr \in BOOLEAN
  /\ reported \in [Devices -> Nat]
  /\ proto \in [Devices -> {"unknown", "old", "v2"}]
  /\ pkt \in {"unset", "pkt_any_old", "pkt_all_v2plus"}
  /\ cpu \in [Devices -> Cpus \cup {NoCpu}]
  /\ pit \in [Devices -> [Sources -> EntrySet]]
  /\ DOMAIN items \subseteq Ids /\ \A i \in DOMAIN items : items[i] \in Sources
  /\ written \in [Devices -> SUBSET Ids]
  /\ srcErr \in BOOLEAN /\ uiDone \in BOOLEAN
  /\ closed \subseteq Devices
  /\ result \in {"none", "ok", "err"} /\ (pc = "end" <=> result # "none")

\* Every device that drops out, in whatever step, is counted once and
\* reported by exactly one DEVFAIL, and no surviving device is: neither the
\* flashing step's own counter nor the second error path of the shutdown step
\* counts a device twice.
FailuresAccounted ==
  /\ failedTotal = Cardinality(Devices \ active)
  /\ \A d \in Devices : reported[d] = IF d \in active THEN 0 ELSE 1
  /\ firstErr <=> active # Devices

\* The verdict: flash() reports success, and calls on_done, only if every
\* device went through every step, received every item of the plan unless a
\* source could not be read, and was shut down; a failed run never calls on_done.
VerdictSound ==
  /\ result = "ok" => active = Devices /\ closed = Devices /\ uiDone
  /\ result = "ok" /\ ~srcErr => \A d \in Devices : written[d] = DOMAIN items
  /\ uiDone => result = "ok"

\* The steps behind the mapping step.
Mapped == pc \in {"totalSize", "flash", "shutdown", "finish"}

\* The plan is made from the first device's PIT and used for all: for every
\* item each device still active has the same entry for the source, with the
\* item's partition id and the same device type, and the same CPU id.
DevicesAgree ==
  Mapped => \A d \in active :
    /\ cpu[d] # NoCpu
    /\ \A e \in active : cpu[e] = cpu[d]
    /\ \A i \in DOMAIN items :
         /\ pit[d][items[i]] # NoEntry /\ pit[d][items[i]].id = i
         /\ \A e \in active : pit[e][items[i]] = pit[d][items[i]]

\* Once flashing was reached no surviving device is left in download mode,
\* even when other devices failed.
SurvivorsShutDown ==
  pc = "finish" => active \subseteq closed

\* The end of a run: a sound verdict, and no survivor left in download mode.
EndsWell == VerdictSound /\ SurvivorsShutDown

-----------------------------------------------------------------------------
\* What the front end says on on_done, "All partitions flashed successfully":
\* every item is on every device.  The code does not keep it: the error of a
\* source that cannot be read is recorded only if a device failed as well.
DoneMeansFlashed == uiDone => \A d \in Devices : written[d] = DOMAIN items
=============================================================================
