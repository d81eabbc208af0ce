------------------------------- MODULE FlashRun -------------------------------
(***************************************************************************)
(* flash() as its callers see it: the images they hand over are mapped to  *)
(* the phone's partitions and cut into windows, one after the other; a     *)
(* device may fail at any time.  FlashBarrier and GroupFlash have the      *)
(* threads, devices and steps that this module leaves out.                 *)
(***************************************************************************)
EXTENDS ImageInput, WindowPlan, PitTable

CONSTANT Tables   \* partition tables that phones have

ASSUME MiBAssumption == MiB = OneMiB
ASSUME TablesAssumption == \A t \in Tables : IsTable(t)

VARIABLES
  pit_table,       \* the table read from the phone
  items,     \* what map_to_pit made of the images
  item,      \* the number of items opened
  fast,      \* use_lz4: the phones take compressed downloads
  written,   \* content carried by the windows of each item
  broken,    \* a source could not be read
  outcome    \* "none", "running", "ok", "failed"

flashing == <<pit_table, items, item, fast, written, broken, outcome>>
flashVars == <<flashing, plan>>

NoTable == Table(FALSE, 0, << >>)

FlashIdle ==
  /\ pit_table = NoTable
  /\ items = << >> /\ item = 0 /\ fast = FALSE /\ written = << >> /\ broken = FALSE
  /\ outcome = "none"
  /\ size = 0 /\ packed = FALSE /\ sent = 0 /\ read = 0 /\ closed = TRUE
  /\ refused = FALSE /\ window = NoWindow

\* What flash() kept is gone when it has returned.
FlashReset ==
  /\ pit_table' = NoTable
  /\ items' = << >> /\ item' = 0 /\ fast' = FALSE /\ written' = << >> /\ broken' = FALSE
  /\ outcome' = "none"
  /\ size' = 0 /\ packed' = FALSE /\ sent' = 0 /\ read' = 0 /\ closed' = TRUE
  /\ refused' = FALSE /\ window' = NoWindow

\* map_to_pit: one item per partition, in the order the partitions come up first,
\* with the image that comes up last.
PutItem(t, its, s) ==
  LET p  == FindByFileName(t, s.base)
      at == {k \in DOMAIN its : its[k].part = Raw(t)[p].id}
      it == [part |-> Raw(t)[p].id, spec |-> s]
  IN  IF p = 0 THEN its
      ELSE IF at = {} THEN Append(its, it) ELSE [k \in DOMAIN its |-> IF k \in at THEN it ELSE its[k]]
MapToPit(t, specs) == FoldLeft(LAMBDA its, s : PutItem(t, its, s), << >>, specs)

\* The flash begins with the table of the phone, and fails if it cannot be read or has
\* no partition for any image.
FlashBegin(specs) ==
  /\ outcome = "none"
  /\ pit_table' \in Tables
  /\ items' = IF Readable(pit_table') THEN MapToPit(pit_table', specs) ELSE << >>
  /\ fast' \in IF \E k \in DOMAIN items' : items'[k].spec.lz4 THEN BOOLEAN ELSE {FALSE}
  /\ outcome' = IF items' = << >> THEN "failed" ELSE "running"
  /\ UNCHANGED <<item, written, broken, plan>>

Running == outcome = "running"
Current == items[item].spec

\* A source that cannot be read ends the flashing step.  Its error is dropped when no
\* device failed; one may still fail in the shutdown.
SourceBreaks ==
  /\ broken' = TRUE /\ outcome' \in {"ok", "failed"}
  /\ UNCHANGED <<pit_table, items, item, fast, written, plan>>

ContentOf(s) == IF s.lz4 THEN s.frame.content ELSE s.size
Opens(s) ==
  /\ ContentOf(s) > 0
  /\ s.lz4 => HeaderOk(s.frame) /\ (fast => MaxBlocks > 0)

NextImage ==
  /\ Running /\ closed /\ item < Len(items)
  /\ IF Opens(items[item + 1].spec)
     THEN /\ OpenImage(ContentOf(items[item + 1].spec), items[item + 1].spec.lz4 /\ fast)
          /\ item' = item + 1 /\ written' = Append(written, 0)
          /\ UNCHANGED <<pit_table, items, fast, broken, outcome>>
     ELSE SourceBreaks

\* What a window of the current item needs of its source, and what it carries.
Reads ==
  IF packed THEN Overasked \/ CanReadBlocks(Current.frame, read, BlocksNext)
  ELSE Current.lz4 => CanDecode(Current.frame, sent, sent + Actual)
ContentIn(blocks) == FoldLeft(LAMBDA sum, b : sum + b.out, 0, blocks)
Carried ==
  IF packed THEN ContentIn(SubSeq(Current.frame.blocks, read + 1, read + BlocksNext)) ELSE Actual

NextWindow ==
  /\ Running /\ ~closed
  /\ IF Reads
     THEN /\ CutPlain \/ CutPacked(BlocksSize(Current.frame, read, BlocksNext))
          /\ written' = [written EXCEPT ![item] = @ + Carried]
          /\ UNCHANGED <<pit_table, items, item, fast, broken, outcome>>
     ELSE SourceBreaks

LastDeviceFails ==
  /\ Running /\ outcome' = "failed"
  /\ UNCHANGED <<pit_table, items, item, fast, written, broken, plan>>

\* Defect: the last image is left out.
FlashEndsEarly ==
  /\ Running /\ closed /\ item + 1 >= Len(items)
  /\ outcome' = "ok"
  /\ UNCHANGED <<pit_table, items, item, fast, written, broken, plan>>

FlashEnds ==
  /\ Running /\ closed /\ item = Len(items)
  /\ outcome' = "ok"
  /\ UNCHANGED <<pit_table, items, item, fast, written, broken, plan>>

FlashStep == NextImage \/ NextWindow \/ LastDeviceFails \/ FlashEnds

-----------------------------------------------------------------------------
\* A frame whose blocks are those its header gives room for: each is full, the last
\* takes the rest.
WellFormed(f) ==
  /\ Len(f.blocks) = (f.content + f.bmax - 1) \div f.bmax
  /\ \A i \in DOMAIN f.blocks :
       /\ ~EndMark(f.blocks[i])
       /\ f.blocks[i].out = Least(f.bmax, f.content - f.bmax * (i - 1))

\* The header check lets blocks of less than a MiB pass when the content is no more than
\* that; a compressed download takes them for blocks of a MiB and sends only the first.
InSmallBlocks(f) == f.bmax < MiB /\ f.content > f.bmax
Regular(s) == s.lz4 => WellFormed(s.frame) /\ ~InSmallBlocks(s.frame)

\* Every image is written whole: all items, all of their content.
AllWritten ==
  /\ Len(written) = Len(items)
  /\ \A k \in DOMAIN items : Regular(items[k].spec) => written[k] = ContentOf(items[k].spec)
=============================================================================
