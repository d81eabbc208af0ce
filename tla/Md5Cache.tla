------------------------------ MODULE Md5Cache ------------------------------
(***************************************************************************)
(* app/md5_xxh3_cache.cpp: the list of known MD5 -> XXH3 pairs, least      *)
(* recently used last, and the three files it is kept in.  save writes     *)
(* <file>.tmp, parses it again, copies <file> to <file>.bak and renames    *)
(* the .tmp over <file>; load takes the first of <file>, .bak and .tmp     *)
(* that begins with the header line.  The process may die between any two  *)
(* of these operations and in the middle of a write or of the copy, a      *)
(* write or a replacement may fail, and the file may be damaged from       *)
(* outside.                                                                *)
(*                                                                         *)
(* A key stands for the pair (md5, bytes_to_hash).  The list holds one     *)
(* entry per key, so it is a function, and its order is that of touched.   *)
(* A file holds its rows by falling touched, so a partial file holds the   *)
(* most recently touched ones; a torn row does not parse.                  *)
(***************************************************************************)
EXTENDS Integers, FiniteSetsExt

CONSTANTS
  Keys, Values,
  MaxEntries,    \* max_entries, kMaxEntriesDefault
  MaxLines,      \* line_count limit of the parser, header line included
  MaxTouch       \* bound of the model: touched values given out by lookups

ASSUME KeysAssumption == IsFiniteSet(Keys)
ASSUME LimitsAssumption == MaxEntries \in Nat \ {0} /\ MaxLines \in Nat \ {0} /\ MaxTouch \in Nat

VARIABLES
  mem,        \* entries
  primary, backup, tmp,  \* the three files
  step,       \* "idle", "down", or the next operation of save
  saving,     \* the normalised entries that save writes
  outcome,    \* result of the last save that returned
  committed, previous,   \* history: entries of the last two saves that returned ok
  order,      \* history: key -> rank of its last use, among the keys this
              \* process loaded or used and did not forget
  damaged,    \* history: the primary file was damaged ("yes"), and the next
              \* process has loaded the cache since ("reloaded")
  cut,        \* history: the last copy over the backup that began did not end
  ioFailed    \* history: a copy or rename failed after the damage

files     == <<primary, backup, tmp>>
history   == <<committed, previous, damaged>>
cacheVars == <<mem, files, step, saving, outcome, history, order, cut, ioFailed>>

NoRows == [k \in {} |-> 0]

\* A file: whether it exists, begins with the header, has a row that does not
\* parse, and its good rows.
FileRec(exists, header, torn, rows) ==
  [exists |-> exists, header |-> header, torn |-> torn, rows |-> rows]
Missing == FileRec(FALSE, FALSE, FALSE, NoRows)
Bad     == FileRec(TRUE, FALSE, TRUE, NoRows)
Empty   == FileRec(TRUE, FALSE, FALSE, NoRows)
Complete(rows) == FileRec(TRUE, TRUE, FALSE, rows)

-----------------------------------------------------------------------------
Newer(e, k) == {j \in DOMAIN e : e[j].touched > e[k].touched}

\* The n entries touched last.
Top(e, n) == {k \in DOMAIN e : Cardinality(Newer(e, k)) < n}

Keep(e, S) == [k \in S |-> e[k]]

\* normalize_entries: sort by touched, cut, renumber from the size down to 1.
Normalize(e, n) ==
  LET top == Keep(e, Top(e, n))
  IN [k \in DOMAIN top |->
        [top[k] EXCEPT !.touched = Cardinality(DOMAIN top) - Cardinality(Newer(top, k))]]

\* Defect: the next touch is counted from the number of entries.
NextTouchStale(e) == Cardinality(DOMAIN e)

\* next_touch: one more than the last touched.  (It would begin again at 1 after 2^64 uses.)
NextTouch(e) == Max({0} \cup {e[k].touched : k \in DOMAIN e}) + 1

CacheInit ==
  /\ mem = NoRows
  /\ primary = Missing /\ backup = Missing /\ tmp = Missing
  /\ step = "idle" /\ saving = NoRows /\ outcome = "none"
  /\ committed = NoRows /\ previous = NoRows
  /\ order = NoRows
  /\ damaged = "no" /\ cut = FALSE /\ ioFailed = FALSE

\* History: k is the key used last.
Used(k) ==
  LET others == DOMAIN order \ {k}
  IN [j \in others \cup {k} |->
        IF j = k THEN Cardinality(others) + 1
        ELSE Cardinality({i \in others : order[i] <= order[j]})]

-----------------------------------------------------------------------------
\* remember_md5_xxh3_cache.
Remember(k, v) ==
  /\ step = "idle"
  /\ LET e == [j \in DOMAIN mem \cup {k} |->
                 IF j = k THEN [val |-> v, touched |-> NextTouch(mem)] ELSE mem[j]]
     IN mem' = Normalize(e, MaxEntries)
  /\ order' = Used(k)
  /\ UNCHANGED <<files, step, saving, outcome, history, cut, ioFailed>>

\* lookup_md5_xxh3_cache that hits; a miss changes nothing.
Lookup(k) ==
  /\ step = "idle" /\ k \in DOMAIN mem
  /\ NextTouch(mem) <= MaxTouch
  /\ mem' = [mem EXCEPT ![k].touched = NextTouch(mem)]
  /\ order' = Used(k)
  /\ UNCHANGED <<files, step, saving, outcome, history, cut, ioFailed>>

\* forget_md5_xxh3_cache.
Forget(k) ==
  /\ step = "idle" /\ k \in DOMAIN mem
  /\ LET e == Keep(mem, DOMAIN mem \ {k})
     IN mem' = Normalize(e, Cardinality(DOMAIN e))
  /\ order' = LET known == DOMAIN order \ {k}
               IN [j \in known |-> Cardinality({i \in known : order[i] <= order[j]})]
  /\ UNCHANGED <<files, step, saving, outcome, history, cut, ioFailed>>

-----------------------------------------------------------------------------
\* parse_cache_file: at most MaxLines lines; more is corruption.
Parse(f) ==
  LET read == Keep(f.rows, Top(f.rows, MaxLines - 1))
  IN [header |-> f.header, corrupt |-> f.torn \/ Cardinality(DOMAIN f.rows) >= MaxLines,
      rows |-> Normalize(read, MaxEntries)]

\* Defect: the .tmp file is no candidate.
LoadNoTmp ==
  IF Parse(primary).header THEN Parse(primary).rows
  ELSE IF Parse(backup).header THEN Parse(backup).rows
  ELSE NoRows

\* load_md5_xxh3_cache: the first candidate with a header.
Load ==
  IF Parse(primary).header THEN Parse(primary).rows
  ELSE IF Parse(backup).header THEN Parse(backup).rows
  ELSE IF Parse(tmp).header THEN Parse(tmp).rows
  ELSE NoRows

\* A file that was written up to its first n rows and perhaps a part of the next.
FirstRows(rows, n, torn) == FileRec(TRUE, TRUE, torn, Keep(rows, Top(rows, n)))

-----------------------------------------------------------------------------
(***************************************************************************)
(* save_md5_xxh3_cache, one operation on the file system at a time.        *)
(***************************************************************************)
SaveReturns(how) == step' = "idle" /\ outcome' = how /\ saving' = NoRows

\* The list is passed by value and normalised; the .tmp file is truncated.
SaveOpen ==
  /\ step = "idle"
  /\ saving' = Normalize(mem, MaxEntries)
  /\ tmp' = Empty
  /\ step' = "write" /\ outcome' = "none"
  /\ UNCHANGED <<mem, primary, backup, history, order, cut, ioFailed>>

\* Part of the text reaches the file: whole rows, the last one perhaps torn.
SaveWritePart ==
  /\ step = "write"
  /\ \E n \in 0 .. Cardinality(DOMAIN saving), torn \in BOOLEAN :
       /\ torn => n < Cardinality(DOMAIN saving)
       /\ tmp' = FirstRows(saving, n, torn)
  /\ UNCHANGED <<mem, primary, backup, step, saving, outcome, history, order, cut, ioFailed>>

\* flush: all of it, or an error, which leaves the partial file behind.
SaveFlush ==
  /\ step = "write"
  /\ \/ tmp' = Complete(saving) /\ step' = "verify" /\ UNCHANGED <<outcome, saving>>
     \/ UNCHANGED tmp /\ SaveReturns("ioError")
  /\ UNCHANGED <<mem, primary, backup, history, order, cut, ioFailed>>

\* Parse what was written; refuse to install what does not parse.
SaveVerify ==
  /\ step = "verify"
  /\ IF Parse(tmp).header /\ ~Parse(tmp).corrupt
       THEN step' = (IF primary.exists THEN "copy" ELSE "rename") /\ UNCHANGED <<tmp, outcome, saving>>
       ELSE tmp' = Missing /\ SaveReturns("refused")
  /\ UNCHANGED <<mem, primary, backup, history, order, cut, ioFailed>>

\* Replacement failed: the .tmp file is removed.
ReplaceFails ==
  /\ tmp' = Missing /\ SaveReturns("ioError")
  /\ ioFailed' = (ioFailed \/ damaged = "yes")

\* copy_file begins: the backup is truncated, or nothing can be written.
SaveCopyBegin ==
  /\ step = "copy"
  /\ \/ backup' = Empty /\ cut' = TRUE /\ step' = "copyEnd" /\ UNCHANGED <<tmp, outcome, saving, ioFailed>>
     \/ UNCHANGED <<backup, cut>> /\ ReplaceFails
  /\ UNCHANGED <<mem, primary, history, order>>

\* copy_file has copied a part: of the first line, or some rows.
SaveCopyPart ==
  /\ step = "copyEnd"
  /\ \/ backup' = Bad
     \/ /\ primary.header
        /\ \E n \in 0 .. Cardinality(DOMAIN primary.rows), torn \in BOOLEAN :
             backup' = FirstRows(primary.rows, n, torn)
  /\ UNCHANGED <<mem, primary, tmp, step, saving, outcome, history, order, cut, ioFailed>>

\* copy_file ends: the backup is the primary file as it is now; or it fails and
\* leaves the part that it copied.
SaveCopyEnd ==
  /\ step = "copyEnd"
  /\ \/ backup' = primary /\ cut' = FALSE /\ step' = "rename" /\ UNCHANGED <<tmp, outcome, saving, ioFailed>>
     \/ UNCHANGED <<backup, cut>> /\ ReplaceFails
  /\ UNCHANGED <<mem, primary, history, order>>

\* Defect: the primary file is written in place instead of being replaced.
SaveRenameInPlace ==
  /\ step = "rename"
  /\ \/ /\ primary' = Empty /\ tmp' = tmp /\ step' = "rename"
        /\ UNCHANGED <<committed, previous, saving, outcome, ioFailed>>
     \/ /\ primary' = tmp /\ tmp' = Missing /\ SaveReturns("ok")
        /\ previous' = committed /\ committed' = saving /\ UNCHANGED ioFailed
     \/ ReplaceFails /\ UNCHANGED <<primary, committed, previous>>
  /\ UNCHANGED <<mem, backup, damaged, order, cut>>

\* rename: atomic.
SaveRename ==
  /\ step = "rename"
  /\ \/ /\ primary' = tmp /\ tmp' = Missing /\ SaveReturns("ok")
        /\ previous' = committed /\ committed' = saving /\ UNCHANGED ioFailed
     \/ ReplaceFails /\ UNCHANGED <<primary, committed, previous>>
  /\ UNCHANGED <<mem, backup, damaged, order, cut>>

-----------------------------------------------------------------------------
\* The process dies.
Crash ==
  /\ step # "down"
  /\ step' = "down" /\ mem' = NoRows /\ order' = NoRows /\ outcome' = "none"
  /\ UNCHANGED <<files, saving, history, cut, ioFailed>>

\* A new process loads the cache.
Restart ==
  /\ step = "down"
  /\ step' = "idle" /\ mem' = Load
  /\ order' = [k \in DOMAIN mem' |-> mem'[k].touched]
  /\ damaged' = IF damaged = "no" THEN "no" ELSE "reloaded"
  /\ saving' = NoRows
  /\ UNCHANGED <<files, outcome, committed, previous, cut, ioFailed>>

\* The header of the primary file is damaged, once, while there is a
\* backup with a header, be it whole or not.
Damage ==
  /\ damaged = "no" /\ primary.header /\ backup.header
  /\ primary' = Bad /\ damaged' = "yes"
  /\ UNCHANGED <<mem, backup, tmp, step, saving, outcome, committed, previous, order, cut, ioFailed>>

CacheNext ==
  \/ \E k \in Keys : Lookup(k) \/ Forget(k) \/ \E v \in Values : Remember(k, v)
  \/ SaveOpen \/ SaveWritePart \/ SaveFlush \/ SaveVerify
  \/ SaveCopyBegin \/ SaveCopyPart \/ SaveCopyEnd \/ SaveRename
  \/ Crash \/ Restart \/ Damage

CacheSpec == CacheInit /\ [][CacheNext]_cacheVars

-----------------------------------------------------------------------------
IsList(e) == DOMAIN e \subseteq Keys /\ \A k \in DOMAIN e : e[k].val \in Values /\ e[k].touched \in Nat
IsFile(f) == f.exists \in BOOLEAN /\ f.header \in BOOLEAN /\ f.torn \in BOOLEAN /\ IsList(f.rows)

\* The type of every variable; the list in memory keeps to its limit.
CacheTypes ==
  /\ IsList(mem) /\ IsList(saving) /\ Cardinality(DOMAIN mem) <= MaxEntries
  /\ IsFile(primary) /\ IsFile(backup) /\ IsFile(tmp)
  /\ step \in {"idle", "down", "write", "verify", "copy", "copyEnd", "rename"}
  /\ outcome \in {"none", "ok", "refused", "ioError"}
  /\ damaged \in {"no", "yes", "reloaded"} /\ cut \in BOOLEAN /\ ioFailed \in BOOLEAN

\* touched orders the entries as their last uses did, over renumbering,
\* lookups that do not sort, eviction and a restart; and what is evicted was
\* used before everything that is kept.
RecencyKept ==
  /\ DOMAIN mem \subseteq DOMAIN order
  /\ \A j, k \in DOMAIN mem : mem[j].touched < mem[k].touched <=> order[j] < order[k]
  /\ \A j \in DOMAIN mem, k \in DOMAIN order \ DOMAIN mem : order[k] < order[j]

\* The list in memory keeps to its limit and to the order of its uses.
ListSound == CacheTypes /\ RecencyKept

\* Whenever the process dies, a load gives exactly the entries of the last save
\* that succeeded: a save in progress, refused or failed changes nothing.
CommittedSurvives ==
  damaged = "no" /\ primary.exists => Load = committed

\* A primary file whose header was damaged costs at most one save, or the entries
\* used longest ago.  A load finds the save before, or, when the damaged file was
\* already copied over the backup, the one in progress.  Only where the process died
\* or the copy failed in the middle of copying over the backup, the backup is a
\* beginning of the last save, and a load takes it as it is, renumbered: the n
\* entries used last, nothing stale and nothing wrong.  Nothing of this holds when
\* the copy or the rename fails after the damage, for the .tmp file is removed then,
\* and for a process that has loaded the .tmp file as the last good one and
\* truncates it in its first save.
DamageRecovers ==
  damaged = "yes" /\ ~ioFailed =>
    \/ Load \in {committed, previous, saving}
    \/ cut /\ \E n \in 0 .. Cardinality(DOMAIN committed) : Load = Normalize(committed, n)
=============================================================================
