-------------------------- MODULE GroupFlashProofs --------------------------
(***************************************************************************)
(* Proofs about GroupFlash, for every number of devices and sources, every *)
(* set of PITs and with or without a PIT to upload: the failures are       *)
(* accounted for, the verdict is sound, and the plan fits every device     *)
(* that takes part.                                                        *)
(***************************************************************************)
EXTENDS GroupFlash, Sequences, FiniteSetTheorems, TLAPS

\* The steps in which the loop has not lost all devices.
Going == {"check", "handshake", "options", "pitUp", "pitDown", "cpuCheck", "mapping",
          "totalSize", "flash"}

SomeLeft == pc \in Going => active # {}

\* Behind the CPU check all devices have one CPU id.
SameCpu ==
  pc \in {"mapping", "totalSize", "flash", "shutdown", "finish"} =>
    \A d \in active : cpu[d] # NoCpu /\ \A e \in active : cpu[e] = cpu[d]

\* Behind the mapping step all devices have the entries of the plan.
SamePlan ==
  Mapped => \A d \in active : \A i \in DOMAIN items :
    /\ pit[d][items[i]] # NoEntry /\ pit[d][items[i]].id = i
    /\ \A e \in active : pit[e][items[i]] = pit[d][items[i]]

\* Behind the flashing step a device that is left has the whole plan, unless
\* the coordinator returned early.
SurvivorsWritten ==
  pc \in {"shutdown", "finish"} /\ ~srcErr => \A d \in active : written[d] = DOMAIN items

Flashing == TypeOK /\ FailuresAccounted /\ SomeLeft
Plan     == SameCpu /\ SamePlan
Outcome  == VerdictSound /\ SurvivorsShutDown /\ SurvivorsWritten

IInv == Flashing /\ Plan /\ Outcome

-----------------------------------------------------------------------------
(***************************************************************************)
(* Counting.                                                               *)
(***************************************************************************)
LEMMA DevicesFinite == IsFiniteSet(Devices) /\ 1 \in Devices
<1>1. NumDevices \in Int /\ 1 \in 1 .. NumDevices
  BY SizesAssumption
<1> QED BY <1>1, FS_Interval DEF Devices

\* Dropping the devices F and adding their number keeps the accounts.
LEMMA TallyAccounted ==
  ASSUME TypeOK, FailuresAccounted, NEW F \in SUBSET active, FlashTally(F)
  PROVE  /\ active' = active \ F /\ active' \subseteq Devices
         /\ failedTotal' \in Nat /\ firstErr' \in BOOLEAN /\ reported' \in [Devices -> Nat]
         /\ FailuresAccounted'
<1> DEFINE lost == Devices \ active
<1>1. /\ IsFiniteSet(lost) /\ IsFiniteSet(F)
      /\ Devices \ active' = lost \cup F /\ lost \cap F = {}
      /\ active' = active \ F /\ active' \subseteq Devices
  BY DevicesFinite, FS_Subset DEF TypeOK, FlashTally
<1>2. /\ Cardinality(lost \cup F) = Cardinality(lost) + Cardinality(F)
      /\ Cardinality(lost) \in Nat /\ Cardinality(F) \in Nat
  <2>1. Cardinality(lost \cup F) = Cardinality(lost) + Cardinality(F) - Cardinality({})
    BY <1>1, FS_Union
  <2> QED BY <1>1, <2>1, FS_EmptySet, FS_CardinalityType
<1>3. failedTotal' = Cardinality(Devices \ active') /\ failedTotal' \in Nat
  BY <1>1, <1>2 DEF FailuresAccounted, FlashTally
<1>4. /\ reported' \in [Devices -> Nat]
      /\ \A d \in Devices : reported'[d] = IF d \in active' THEN 0 ELSE 1
  BY <1>1 DEF FailuresAccounted, FlashTally, TypeOK
<1>5. firstErr' \in BOOLEAN /\ (firstErr' <=> active' # Devices)
  <2>1. firstErr' \in BOOLEAN /\ (firstErr' <=> active # Devices \/ F # {})
    BY Zenon DEF FailuresAccounted, FlashTally
  <2>2. (active # Devices \/ F # {}) <=> active' # Devices
    BY <1>1 DEF TypeOK
  <2> QED BY <2>1, <2>2, Zenon
<1> QED BY <1>1, <1>3, <1>4, <1>5 DEF FailuresAccounted

\* What a fan-out does: the accounts of the lost, and either the next step or
\* the end.
LEMMA FanOutAccounted ==
  ASSUME TypeOK, FailuresAccounted, NEW F \in SUBSET active, NEW next, FanOutKeep(F, next)
  PROVE  /\ active' = active \ F /\ active' \subseteq Devices
         /\ failedTotal' \in Nat /\ firstErr' \in BOOLEAN /\ reported' \in [Devices -> Nat]
         /\ FailuresAccounted'
         /\ active' = {} => Abort
         /\ active' # {} => Continue(next)
<1>1. FlashTally(F)
  BY DEF FanOutKeep, FlashTally
<1>2. /\ active' = {} => Abort
      /\ active' # {} => Continue(next)
  BY DEF FanOutKeep
<1> QED BY <1>1, <1>2, TallyAccounted

-----------------------------------------------------------------------------
(***************************************************************************)
(* The mapping.                                                            *)
(***************************************************************************)
\* A non-empty set T of sources has a last one: otherwise adding 1 would map the
\* sources up to a member of T into those of them that are not 1.
LEMMA LastSource ==
  ASSUME NEW T \in SUBSET Sources, T # {}
  PROVE  \E m \in T : \A r \in T : r <= m
<1> SUFFICES ASSUME \A m \in T : \E r \in T : ~(r <= m) PROVE FALSE
  OBVIOUS
<1> DEFINE D == {x \in Sources : \E t \in T : x <= t}
           succ == [x \in D |-> x + 1]
<1>1. Sources \subseteq Int /\ IsFiniteSet(Sources)
  BY SizesAssumption, FS_Interval DEF Sources
<1>2. IsFiniteSet(D) /\ IsFiniteSet(D \ {1})
  BY <1>1, FS_Subset
<1>3. 1 \in D
  <2>1. PICK t \in T : TRUE
    OBVIOUS
  <2>2. t \in 1 .. NumSources
    BY DEF Sources
  <2>3. 1 \in 1 .. NumSources /\ 1 <= t
    BY <2>2, SizesAssumption
  <2> QED BY <2>3 DEF Sources
<1>4. Cardinality(D \ {1}) < Cardinality(D)
  <2>1. Cardinality(D \ {1}) = Cardinality(D) - 1 /\ Cardinality(D) \in Nat
    BY <1>2, <1>3, FS_RemoveElement, FS_CardinalityType
  <2> QED BY <2>1
<1>5. ASSUME NEW x \in D PROVE x + 1 \in D \ {1}
  <2>1. PICK t \in T : x <= t
    OBVIOUS
  <2>2. PICK r \in T : ~(r <= t)
    OBVIOUS
  <2>3. x \in 1 .. NumSources /\ t \in 1 .. NumSources /\ r \in 1 .. NumSources
    BY DEF Sources
  <2>4. x + 1 <= r /\ x + 1 \in 1 .. NumSources /\ x + 1 # 1
    BY <2>1, <2>2, <2>3, SizesAssumption
  <2> QED BY <2>2, <2>4 DEF Sources
<1>6. succ \in [D -> D \ {1}]
  BY <1>5
<1>7. PICK x, y \in D : x # y /\ succ[x] = succ[y]
  <2> HIDE DEF D, succ
  <2> QED BY <1>2, <1>4, <1>6, FS_PigeonHole
<1> QED BY <1>1, <1>7

\* What map_to_pit returns: partition ids of the common sources, each with a
\* common source that has this id.
LEMMA MapToPitPicks ==
  /\ DOMAIN MapToPit = {pit[Front][s].id : s \in Common}
  /\ \A i \in DOMAIN MapToPit :
       MapToPit[i] \in Common /\ pit[Front][MapToPit[i]].id = i
<1>1. DOMAIN MapToPit = {pit[Front][s].id : s \in Common}
  BY DEF MapToPit
<1>2. ASSUME NEW i \in DOMAIN MapToPit
      PROVE  MapToPit[i] \in Common /\ pit[Front][MapToPit[i]].id = i
  <2> DEFINE T == {s \in Common : pit[Front][s].id = i}
  <2>1. T # {} /\ T \in SUBSET Sources
    BY <1>1 DEF Common
  <2>2. PICK m \in T : \A r \in T : r <= m
    BY <2>1, LastSource
  <2>3. \E s \in Common : /\ pit[Front][s].id = i
                          /\ \A r \in Common : pit[Front][r].id = i => r <= s
    BY <2>2
  <2>4. MapToPit[i] = CHOOSE s \in Common :
                        /\ pit[Front][s].id = i
                        /\ \A r \in Common : pit[Front][r].id = i => r <= s
    BY <1>1 DEF MapToPit
  <2> QED BY <2>3, <2>4
<1> QED BY <1>1, <1>2

\* When no source differs between the devices, they agree on the common ones.
LEMMA CommonAgrees ==
  ASSUME ~ \E s \in Sources : Differs(s)
  PROVE  \A s \in Common, d \in active : pit[d][s] = pit[Front][s] /\ pit[d][s] # NoEntry
BY DEF Common, Differs

-----------------------------------------------------------------------------
(***************************************************************************)
(* Types, accounts, and the devices that are left.                         *)
(***************************************************************************)
LEMMA InitFlashing == Init => Flashing
<1> SUFFICES ASSUME Init PROVE Flashing
  OBVIOUS
<1>1. TypeOK
  <2>1. DOMAIN items = {}
    <3>1. Len(<< >>) = 0 /\ << >> \in Seq({})
      OBVIOUS
    <3> QED BY <3>1 DEF Init
  <2>2. /\ pc \in Steps /\ active \subseteq Devices /\ closed \subseteq Devices
        /\ failedTotal \in Nat /\ firstErr \in BOOLEAN /\ srcErr \in BOOLEAN /\ uiDone \in BOOLEAN
        /\ pkt \in {"unset", "pkt_any_old", "pkt_all_v2plus"}
        /\ result \in {"none", "ok", "err"} /\ pc # "end" /\ result = "none"
    BY DEF Init, Steps
  <2>3. /\ reported \in [Devices -> Nat] /\ proto \in [Devices -> {"unknown", "old", "v2"}]
        /\ cpu \in [Devices -> Cpus \cup {NoCpu}] /\ written \in [Devices -> SUBSET Ids]
    BY DEF Init
  <2>4. pit \in [Devices -> [Sources -> EntrySet]]
    BY DEF Init, EntrySet
  <2> QED BY <2>1, <2>2, <2>3, <2>4 DEF TypeOK
<1>2. FailuresAccounted
  <2>1. Devices \ active = {}
    BY DEF Init
  <2> QED BY <2>1, FS_EmptySet DEF Init, FailuresAccounted
<1>3. SomeLeft
  BY DevicesFinite DEF Init, SomeLeft
<1> QED BY <1>1, <1>2, <1>3 DEF Flashing

\* A fan-out from one step to another keeps the account of the devices and the
\* types of what it changes.
LEMMA FanOutFlashing ==
  ASSUME Flashing, pc \in Going \cup {"shutdown"},
         NEW F \in SUBSET active, NEW next \in Steps \ {"end"}, FanOutKeep(F, next)
  PROVE  /\ FailuresAccounted' /\ SomeLeft'
         /\ pc' \in {next, "end"} /\ active' \subseteq Devices
         /\ failedTotal' \in Nat /\ firstErr' \in BOOLEAN /\ reported' \in [Devices -> Nat]
         /\ uiDone' \in BOOLEAN /\ result' \in {"none", "ok", "err"}
         /\ (pc' = "end" <=> result' # "none")
<1>1. /\ active' \subseteq Devices /\ FailuresAccounted'
      /\ failedTotal' \in Nat /\ firstErr' \in BOOLEAN /\ reported' \in [Devices -> Nat]
      /\ active' = {} => Abort
      /\ active' # {} => Continue(next)
  BY FanOutAccounted DEF Flashing
<1>2. result = "none" /\ uiDone \in BOOLEAN
  BY DEF Flashing, TypeOK, Going
<1>3. CASE active' = {}
  BY <1>1, <1>2, <1>3 DEF Abort, SomeLeft, Going
<1>4. CASE active' # {}
  BY <1>1, <1>2, <1>4 DEF Continue, ended, SomeLeft
<1> QED BY <1>3, <1>4

LEMMA NextFlashing == Flashing /\ [Next]_vars => Flashing'
<1> SUFFICES ASSUME Flashing, [Next]_vars PROVE Flashing'
  OBVIOUS
<1> USE DEF Flashing
<1>1. CASE Check
  <2>1. UNCHANGED <<active, failedTotal, firstErr, reported>>
    BY <1>1 DEF Check, tally
  <2>2. FailuresAccounted'
    BY <2>1 DEF FailuresAccounted
  <2>3. SomeLeft'
    BY <1>1 DEF Check, tally, SomeLeft, Going, Abort, Continue, ended
  <2>4. TypeOK'
    BY <1>1 DEF Check, tally, table, TypeOK, Steps, Abort, Continue, ended
  <2> QED BY <2>2, <2>3, <2>4
<1>2. CASE Handshake
  <2>1. PICK F \in SUBSET active, v \in [Devices -> {"old", "v2"}] :
          /\ FanOutKeep(F, "options")
          /\ proto' = [d \in Devices |-> IF d \in active \ F THEN v[d] ELSE proto[d]]
    BY <1>2 DEF Handshake
  <2>2. proto' \in [Devices -> {"unknown", "old", "v2"}]
    BY <2>1 DEF TypeOK
  <2>3. pc = "handshake" /\ UNCHANGED <<pkt, cpu, pit, items, written, srcErr, closed>>
    BY <1>2 DEF Handshake, table
  <2> QED BY <2>1, <2>2, <2>3, FanOutFlashing DEF TypeOK, Steps, Going
<1>3. CASE Options
  <2>1. PICK F \in SUBSET active : FanOutKeep(F, IF HasPit THEN "pitUp" ELSE "pitDown")
    BY <1>3 DEF Options
  <2>2. /\ pc = "options" /\ pkt' \in {"pkt_any_old", "pkt_all_v2plus"}
        /\ UNCHANGED <<proto, cpu, pit, items, written, srcErr, closed>>
    BY <1>3 DEF Options, table, ChoosePkt
  <2>3. (IF HasPit THEN "pitUp" ELSE "pitDown") \in Steps \ {"end"}
    BY DEF Steps
  <2> QED BY <2>1, <2>2, <2>3, FanOutFlashing DEF TypeOK, Steps, Going
<1>4. CASE PitUpload
  <2>1. PICK F \in SUBSET active : FanOutKeep(F, "pitDown")
    BY <1>4 DEF PitUpload
  <2>2. pc = "pitUp" /\ UNCHANGED <<proto, pkt, cpu, pit, items, written, srcErr, closed>>
    BY <1>4 DEF PitUpload, table
  <2> QED BY <2>1, <2>2, FanOutFlashing DEF TypeOK, Steps, Going
<1>5. CASE PitDownload
  <2>1. PICK F \in SUBSET active :
          /\ FanOutKeep(F, "cpuCheck")
          /\ \E c \in [active \ F -> Cpus \cup {NoCpu}], t \in [active \ F -> PitTables] :
               /\ cpu' = [d \in Devices |-> IF d \in active \ F THEN c[d] ELSE cpu[d]]
               /\ pit' = [d \in Devices |-> IF d \in active \ F THEN t[d] ELSE pit[d]]
    BY <1>5 DEF PitDownload
  <2>2. cpu' \in [Devices -> Cpus \cup {NoCpu}] /\ pit' \in [Devices -> [Sources -> EntrySet]]
    BY <2>1, PitAssumption DEF TypeOK, EntrySet
  <2>3. pc = "pitDown" /\ UNCHANGED <<proto, pkt, items, written, srcErr, closed>>
    BY <1>5 DEF PitDownload
  <2> QED BY <2>1, <2>2, <2>3, FanOutFlashing DEF TypeOK, Steps, Going
<1>6. CASE CpuCheck
  <2>1. /\ pc = "cpuCheck" /\ UNCHANGED <<active, failedTotal, firstErr, reported>>
        /\ UNCHANGED <<proto, pkt, cpu, pit, items, written, srcErr, closed>>
        /\ Continue("mapping") \/ Abort
    BY <1>6 DEF CpuCheck, tally, table
  <2>2. FailuresAccounted'
    BY <2>1 DEF FailuresAccounted
  <2>3. SomeLeft'
    BY <2>1 DEF SomeLeft, Going, Abort, Continue
  <2>4. TypeOK'
    BY <2>1 DEF TypeOK, Steps, Abort, Continue, ended
  <2> QED BY <2>2, <2>3, <2>4
<1>7. CASE Mapping
  <2>1. /\ pc = "mapping" /\ UNCHANGED <<active, failedTotal, firstErr, reported>>
        /\ UNCHANGED <<proto, pkt, cpu, pit, written, srcErr, closed>>
        /\ \/ Abort /\ items' = items
           \/ /\ Continue("totalSize") /\ items' = MapToPit
              /\ ~ \E s \in Sources : Differs(s)
    BY <1>7, Zenon DEF Mapping, tally, table
  <2>2. FailuresAccounted'
    BY <2>1 DEF FailuresAccounted
  <2>3. SomeLeft'
    BY <2>1 DEF SomeLeft, Going, Abort, Continue
  <2>4. DOMAIN items' \subseteq Ids /\ \A i \in DOMAIN items' : items'[i] \in Sources
    <3>1. CASE items' = items
      BY <3>1 DEF TypeOK
    <3>2. CASE items' = MapToPit /\ ~ \E s \in Sources : Differs(s)
      <4>1. PICK d \in active : TRUE
        BY <2>1 DEF SomeLeft, Going
      <4>2. ASSUME NEW s \in Common PROVE s \in Sources /\ pit[Front][s].id \in Ids
        <5>1. s \in Sources /\ pit[d][s] = pit[Front][s] /\ pit[d][s] # NoEntry
          BY <3>2, <4>1, CommonAgrees DEF Common
        <5>2. pit[d][s] \in Entries
          BY <4>1, <5>1 DEF TypeOK, EntrySet
        <5> QED BY <5>1, <5>2 DEF Entries
      <4>3. \A i \in DOMAIN MapToPit : MapToPit[i] \in Common
        BY MapToPitPicks
      <4>4. DOMAIN MapToPit \subseteq Ids
        BY <4>2, MapToPitPicks
      <4> QED BY <3>2, <4>2, <4>3, <4>4
    <3> QED BY <2>1, <3>1, <3>2
  <2>5. TypeOK'
    BY <2>1, <2>4 DEF TypeOK, Steps, Abort, Continue, ended
  <2> QED BY <2>2, <2>3, <2>5
<1>8. CASE TotalSize
  <2>1. PICK F \in SUBSET active : FanOutKeep(F, "flash")
    BY <1>8 DEF TotalSize
  <2>2. pc = "totalSize" /\ UNCHANGED <<proto, pkt, cpu, pit, items, written, srcErr, closed>>
    BY <1>8 DEF TotalSize, table
  <2> QED BY <2>1, <2>2, FanOutFlashing DEF TypeOK, Steps, Going
<1>9. CASE FlashStep
  <2>1. PICK F \in SUBSET active, sent \in SUBSET DOMAIN items :
          /\ FlashTally(F)
          /\ srcErr' = (F # active /\ sent # DOMAIN items)
          /\ written' = [d \in Devices |-> IF d \in active \ F THEN sent ELSE {}]
    BY <1>9 DEF FlashStep
  <2>2. /\ active' \subseteq Devices /\ FailuresAccounted'
        /\ failedTotal' \in Nat /\ firstErr' \in BOOLEAN /\ reported' \in [Devices -> Nat]
    BY <2>1, TallyAccounted
  <2>3. srcErr' \in BOOLEAN
    BY <2>1, Zenon
  <2>4. written' \in [Devices -> SUBSET Ids]
    BY <2>1 DEF TypeOK
  <2>5. /\ pc = "flash" /\ pc' = "shutdown" /\ UNCHANGED <<result, uiDone>>
        /\ UNCHANGED <<proto, pkt, cpu, pit, items, closed>>
    BY <1>9 DEF FlashStep, table, Continue, ended
  <2>6. TypeOK'
    BY <2>2, <2>3, <2>4, <2>5 DEF TypeOK, Steps
  <2>7. SomeLeft'
    BY <2>5 DEF SomeLeft, Going
  <2> QED BY <2>2, <2>6, <2>7
<1>10. CASE Shutdown
  <2>1. pc = "shutdown" /\ UNCHANGED <<proto, pkt, cpu, pit, items, written, srcErr>>
    BY <1>10 DEF Shutdown, table
  <2>2. CASE active = {}
    <3>1. /\ UNCHANGED <<active, failedTotal, firstErr, reported, closed, result, uiDone>>
          /\ pc' = "finish"
      BY <1>10, <2>2 DEF Shutdown, tally, Continue, ended
    <3>2. FailuresAccounted'
      BY <3>1 DEF FailuresAccounted
    <3>3. SomeLeft'
      BY <3>1 DEF SomeLeft, Going
    <3> QED BY <2>1, <3>1, <3>2, <3>3 DEF TypeOK, Steps
  <2>3. CASE active # {}
    <3>1. PICK F \in SUBSET active : FanOutKeep(F, "finish") /\ closed' = closed \cup (active \ F)
      BY <1>10, <2>3 DEF Shutdown
    <3>2. closed' \subseteq Devices
      BY <3>1 DEF TypeOK
    <3> QED BY <2>1, <3>1, <3>2, FanOutFlashing DEF TypeOK, Steps, Going
  <2> QED BY <2>2, <2>3
<1>11. CASE Finish
  <2>1. /\ UNCHANGED <<active, failedTotal, firstErr, reported>>
        /\ UNCHANGED <<proto, pkt, cpu, pit, items, written, srcErr, closed>>
        /\ pc' = "end" /\ result' \in {"ok", "err"}
    BY <1>11 DEF Finish, tally, table
  <2>2. uiDone' \in BOOLEAN
    BY <1>11, Zenon DEF Finish, VerdictOk
  <2>3. FailuresAccounted'
    BY <2>1 DEF FailuresAccounted
  <2>4. SomeLeft'
    BY <2>1 DEF SomeLeft, Going
  <2> QED BY <2>1, <2>2, <2>3, <2>4 DEF TypeOK, Steps
<1>12. CASE UNCHANGED vars
  BY <1>12 DEF vars, tally, table, ended, TypeOK, FailuresAccounted, SomeLeft, Steps
<1> QED
  BY <1>1, <1>2, <1>3, <1>4, <1>5, <1>6, <1>7, <1>8, <1>9, <1>10, <1>11, <1>12
  DEF Next, Step, Terminated
-----------------------------------------------------------------------------
(***************************************************************************)
(* The plan.                                                               *)
(***************************************************************************)
\* Where a fan-out leads, and whom it leaves.
LEMMA FanOutLeads ==
  ASSUME NEW F \in SUBSET active, NEW next, FanOutKeep(F, next)
  PROVE  pc' \in {next, "end"} /\ active' = active \ F
BY DEF FanOutKeep, Abort, Continue

\* Losing devices does not harm the plan.
LEMMA FewerDevices ==
  ASSUME Plan, pc \in {"totalSize", "flash", "shutdown"}, pc' # "mapping",
         active' \subseteq active, UNCHANGED <<cpu, pit, items>>
  PROVE  Plan'
<1>1. \A d \in active : cpu[d] # NoCpu /\ \A e \in active : cpu[e] = cpu[d]
  BY DEF Plan, SameCpu
<1>2. \A d \in active : \A i \in DOMAIN items :
        /\ pit[d][items[i]] # NoEntry /\ pit[d][items[i]].id = i
        /\ \A e \in active : pit[e][items[i]] = pit[d][items[i]]
  BY DEF Plan, SamePlan, Mapped
<1>3. SameCpu'
  BY <1>1 DEF SameCpu
<1>4. SamePlan'
  BY <1>2 DEF SamePlan
<1> QED BY <1>3, <1>4 DEF Plan

LEMMA NextPlan == Flashing /\ Plan /\ [Next]_vars => Plan'
<1> SUFFICES ASSUME Flashing, Plan, [Next]_vars PROVE Plan'
  OBVIOUS
<1> DEFINE Early == {"handshake", "options", "pitUp", "pitDown", "cpuCheck", "end"}
<1>1. CASE pc' \in Early
  BY <1>1 DEF Plan, SameCpu, SamePlan, Mapped
<1>2. CASE Check
  <2>1. pc' \in Early
    BY <1>2 DEF Check, Abort, Continue
  <2> QED BY <1>1, <2>1
<1>3. CASE Handshake \/ Options \/ PitUpload \/ PitDownload
  <2>1. pc' \in Early
    BY <1>3, FanOutLeads DEF Handshake, Options, PitUpload, PitDownload
  <2> QED BY <1>1, <2>1
<1>4. CASE CpuCheck
  <2>1. CASE Abort
    <3>1. pc' \in Early
      BY <2>1 DEF Abort
    <3> QED BY <1>1, <3>1
  <2>2. CASE CpuOk /\ Continue("mapping")
    <3>1. pc' = "mapping" /\ UNCHANGED <<active, cpu>>
      BY <1>4, <2>2 DEF CpuCheck, Continue, table
    <3>2. SameCpu'
      BY <2>2, <3>1 DEF SameCpu, CpuOk
    <3>3. SamePlan'
      BY <3>1 DEF SamePlan, Mapped
    <3> QED BY <3>2, <3>3 DEF Plan
  <2> QED BY <1>4, <2>1, <2>2 DEF CpuCheck
<1>5. CASE Mapping
  <2>1. CASE Abort
    <3>1. pc' \in Early
      BY <2>1 DEF Abort
    <3> QED BY <1>1, <3>1
  <2>2. CASE Continue("totalSize") /\ items' = MapToPit /\ ~ \E s \in Sources : Differs(s)
    <3>1. pc = "mapping" /\ pc' = "totalSize" /\ UNCHANGED <<active, cpu, pit>>
      BY <1>5, <2>2 DEF Mapping, Continue, table
    <3>2. SameCpu'
      BY <3>1 DEF Plan, SameCpu
    <3>3. ASSUME NEW d \in active, NEW i \in DOMAIN MapToPit
          PROVE  /\ pit[d][MapToPit[i]] # NoEntry /\ pit[d][MapToPit[i]].id = i
                 /\ \A e \in active : pit[e][MapToPit[i]] = pit[d][MapToPit[i]]
      <4>1. MapToPit[i] \in Common /\ pit[Front][MapToPit[i]].id = i
        BY MapToPitPicks
      <4>2. \A e \in active : pit[e][MapToPit[i]] = pit[Front][MapToPit[i]]
                            /\ pit[e][MapToPit[i]] # NoEntry
        BY <2>2, <4>1, CommonAgrees
      <4> QED BY <4>1, <4>2
    <3>4. SamePlan'
      BY <2>2, <3>1, <3>3 DEF SamePlan
    <3> QED BY <3>2, <3>4 DEF Plan
  <2> QED BY <1>5, <2>1, <2>2, Zenon DEF Mapping
<1>6. CASE TotalSize
  <2>1. pc = "totalSize" /\ pc' # "mapping" /\ active' \subseteq active /\ UNCHANGED <<cpu, pit, items>>
    BY <1>6, FanOutLeads DEF TotalSize, table
  <2> QED BY <2>1, FewerDevices
<1>7. CASE FlashStep
  <2>1. pc = "flash" /\ pc' # "mapping" /\ active' \subseteq active /\ UNCHANGED <<cpu, pit, items>>
    BY <1>7 DEF FlashStep, FlashTally, Continue, table
  <2> QED BY <2>1, FewerDevices
<1>8. CASE Shutdown
  <2>1. pc = "shutdown" /\ pc' # "mapping" /\ active' \subseteq active /\ UNCHANGED <<cpu, pit, items>>
    BY <1>8, FanOutLeads DEF Shutdown, Continue, table
  <2> QED BY <2>1, FewerDevices
<1>9. CASE Finish
  <2>1. pc' \in Early
    BY <1>9 DEF Finish
  <2> QED BY <1>1, <2>1
<1>10. CASE UNCHANGED vars
  BY <1>10 DEF vars, table, Plan, SameCpu, SamePlan, Mapped
<1> QED
  BY <1>2, <1>3, <1>4, <1>5, <1>6, <1>7, <1>8, <1>9, <1>10 DEF Next, Step, Terminated

-----------------------------------------------------------------------------
(***************************************************************************)
(* The outcome.                                                            *)
(***************************************************************************)
\* A step that is not the last gives no good verdict.
LEMMA NoVerdictYet ==
  ASSUME Flashing, VerdictSound, pc # "end", result' \in {result, "err"}, uiDone' = uiDone
  PROVE  VerdictSound'
BY DEF Flashing, TypeOK, VerdictSound

LEMMA FanOutVerdict ==
  ASSUME Flashing, VerdictSound, pc # "end",
         NEW F \in SUBSET active, NEW next, FanOutKeep(F, next)
  PROVE  VerdictSound'
BY NoVerdictYet DEF FanOutKeep, Abort, Continue, ended

LEMMA NextVerdict == Flashing /\ Outcome /\ [Next]_vars => VerdictSound'
<1> SUFFICES ASSUME Flashing, Outcome, [Next]_vars PROVE VerdictSound'
  OBVIOUS
<1> USE DEF Outcome
<1>1. CASE Check
  BY <1>1, NoVerdictYet DEF Check, Abort, Continue, ended
<1>2. CASE Handshake \/ Options \/ PitUpload \/ PitDownload
  BY <1>2, FanOutVerdict DEF Handshake, Options, PitUpload, PitDownload
<1>3. CASE CpuCheck
  BY <1>3, NoVerdictYet DEF CpuCheck, Abort, Continue, ended
<1>4. CASE Mapping
  <2>1. pc = "mapping" /\ result' \in {result, "err"} /\ uiDone' = uiDone
    BY <1>4 DEF Mapping, Abort, Continue, ended
  <2> QED BY <2>1, NoVerdictYet
<1>5. CASE TotalSize
  BY <1>5, FanOutVerdict DEF TotalSize
<1>6. CASE FlashStep
  BY <1>6, NoVerdictYet DEF FlashStep, Continue, ended
<1>7. CASE Shutdown
  BY <1>7, FanOutVerdict, NoVerdictYet DEF Shutdown, Continue, ended
<1>8. CASE Finish
  <2>1. CASE VerdictOk
    <3>1. Devices \ active = {}
      <4>1. Cardinality(Devices \ active) = 0
        BY <2>1 DEF VerdictOk, Flashing, FailuresAccounted
      <4>2. IsFiniteSet(Devices \ active)
        BY DevicesFinite, FS_Subset
      <4> QED BY <4>1, <4>2, FS_EmptySet
    <3>2. active = Devices
      BY <3>1 DEF Flashing, TypeOK
    <3>3. pc = "finish" /\ UNCHANGED <<active, closed, written, srcErr, items>>
      BY <1>8 DEF Finish
    <3>4. closed = Devices
      BY <3>2, <3>3 DEF Flashing, TypeOK, SurvivorsShutDown
    <3>5. ~srcErr => \A d \in Devices : written[d] = DOMAIN items
      BY <3>2, <3>3 DEF SurvivorsWritten
    <3>6. uiDone' /\ result' = "ok"
      BY <1>8, <2>1, Zenon DEF Finish
    <3> QED BY <3>2, <3>3, <3>4, <3>5, <3>6, Zenon DEF VerdictSound
  <2>2. CASE ~VerdictOk
    <3>1. ~uiDone' /\ result' = "err"
      BY <1>8, <2>2, Zenon DEF Finish
    <3> QED BY <3>1 DEF VerdictSound
  <2> QED BY <2>1, <2>2
<1>9. CASE UNCHANGED vars
  BY <1>9 DEF vars, ended, VerdictSound
<1> QED
  BY <1>1, <1>2, <1>3, <1>4, <1>5, <1>6, <1>7, <1>8, <1>9 DEF Next, Step, Terminated

LEMMA NextSurvivors ==
  Flashing /\ Outcome /\ [Next]_vars => SurvivorsShutDown' /\ SurvivorsWritten'
<1> SUFFICES ASSUME Flashing, Outcome, [Next]_vars
             PROVE  SurvivorsShutDown' /\ SurvivorsWritten'
  OBVIOUS
<1>1. CASE pc' \notin {"shutdown", "finish"}
  BY <1>1 DEF SurvivorsShutDown, SurvivorsWritten
<1>2. CASE \/ Check \/ Handshake \/ Options \/ PitUpload \/ PitDownload
           \/ CpuCheck \/ Mapping \/ TotalSize \/ Finish
  <2>1. CASE Check \/ CpuCheck \/ Finish
    <3>1. pc' \notin {"shutdown", "finish"}
      BY <2>1 DEF Check, CpuCheck, Finish, Abort, Continue
    <3> QED BY <1>1, <3>1
  <2>2. CASE Handshake \/ Options \/ PitUpload \/ PitDownload \/ TotalSize
    <3>1. pc' \in {"options", "pitUp", "pitDown", "cpuCheck", "flash", "end"}
      BY <2>2, FanOutLeads DEF Handshake, Options, PitUpload, PitDownload, TotalSize
    <3> QED BY <1>1, <3>1
  <2>3. CASE Mapping
    <3>1. Abort \/ Continue("totalSize")
      BY <2>3 DEF Mapping
    <3> QED BY <1>1, <3>1 DEF Abort, Continue
  <2> QED BY <1>2, <2>1, <2>2, <2>3
<1>3. CASE FlashStep
  <2>1. PICK F \in SUBSET active, sent \in SUBSET DOMAIN items :
          /\ FlashTally(F)
          /\ srcErr' = (F # active /\ sent # DOMAIN items)
          /\ written' = [d \in Devices |-> IF d \in active \ F THEN sent ELSE {}]
    BY <1>3 DEF FlashStep
  <2>2. pc' = "shutdown" /\ items' = items /\ active' = active \ F
    BY <1>3, <2>1 DEF FlashStep, FlashTally, Continue
  <2>3. ~srcErr' => F = active \/ sent = DOMAIN items
    BY <2>1, Zenon
  <2>4. \A d \in active' : written'[d] = sent
    BY <2>1, <2>2 DEF Flashing, TypeOK
  <2>5. SurvivorsWritten'
    BY <2>2, <2>3, <2>4 DEF SurvivorsWritten
  <2> QED BY <2>2, <2>5 DEF SurvivorsShutDown
<1>4. CASE Shutdown
  <2>1. pc = "shutdown" /\ active' \subseteq active /\ UNCHANGED <<items, written, srcErr>>
    BY <1>4, FanOutLeads DEF Shutdown
  <2>2. active' \subseteq closed'
    BY <1>4, FanOutLeads DEF Shutdown
  <2>3. SurvivorsWritten'
    BY <2>1 DEF Outcome, SurvivorsWritten
  <2> QED BY <2>2, <2>3 DEF SurvivorsShutDown
<1>5. CASE UNCHANGED vars
  BY <1>5 DEF vars, Outcome, SurvivorsShutDown, SurvivorsWritten
<1> QED
  BY <1>2, <1>3, <1>4, <1>5 DEF Next, Step, Terminated

-----------------------------------------------------------------------------
(***************************************************************************)
(* Theorems.                                                               *)
(***************************************************************************)
\* The inductive invariant.
THEOREM GroupFlashInvariant == Spec => []IInv
<1>1. Init => IInv
  <2>1. Init => Plan /\ Outcome
    BY DEF Init, Plan, SameCpu, SamePlan, Mapped, Outcome, VerdictSound,
           SurvivorsShutDown, SurvivorsWritten
  <2> QED BY <2>1, InitFlashing DEF IInv
<1>2. IInv /\ [Next]_vars => IInv'
  <2>1. Flashing /\ Outcome /\ [Next]_vars => Outcome'
    BY NextVerdict, NextSurvivors DEF Outcome
  <2> QED BY <2>1, NextFlashing, NextPlan DEF IInv
<1> QED BY <1>1, <1>2, PTL DEF Spec

\* In every state of flash() each device that dropped out, in whatever step, was
\* counted once and reported once, for any number of devices.
THEOREM GroupFlashAccounts == Spec => [](TypeOK /\ FailuresAccounted)
<1>1. IInv => TypeOK /\ FailuresAccounted
  BY DEF IInv, Flashing
<1> QED BY <1>1, GroupFlashInvariant, PTL

\* flash() reports success only if no device was lost on the way, all of them
\* were shut down and, unless a source could not be read, have the whole plan.
THEOREM GroupFlashVerdict == Spec => []EndsWell
<1>1. IInv => EndsWell
  BY DEF IInv, Outcome, EndsWell
<1> QED BY <1>1, GroupFlashInvariant, PTL

\* The plan made from the first device's PIT is right for every device that is
\* still active when it is used, whatever their PITs say.
THEOREM GroupFlashAgreement == Spec => []DevicesAgree
<1>1. IInv => DevicesAgree
  BY DEF IInv, Plan, SameCpu, SamePlan, Mapped, DevicesAgree
<1> QED BY <1>1, GroupFlashInvariant, PTL
=============================================================================
