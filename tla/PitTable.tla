------------------------------ MODULE PitTable ------------------------------
(***************************************************************************)
(* What pit::parse (protocol/odin/pit.cpp) makes of a partition table.     *)
(*                                                                         *)
(* A table is its header, the number of partitions it declares and the     *)
(* entries that are really there.  The two fields that say where a         *)
(* partition begins have changed places between formats, so the parser     *)
(* guesses; how long it is, it takes from the next one on the same device. *)
(***************************************************************************)
EXTENDS Integers, Sequences, FiniteSets, SequencesExt

CONSTANT Guess   \* 4096, the limit the guess is made with

ASSUME PitAssumption == Guess \in Nat

\* An entry of the file, and a table of them.
Entry(id, file, dev, bsize, off, len) ==
  [id |-> id, file |-> file, dev |-> dev, bsize |-> bsize, off |-> off, len |-> len]
Table(magic, count, entries) == [magic |-> magic, count |-> count, entries |-> entries]

PitEntries == [id : Int, file : STRING, dev : Int, bsize : Int, off : Int, len : Int]
IsTable(t) == t.magic \in BOOLEAN /\ t.count \in Int /\ t.entries \in Seq(PitEntries)

Readable(t) == t.magic /\ t.count >= 0 /\ Len(t.entries) >= t.count

Raw(t) == SubSeq(t.entries, 1, t.count)

\* blockSize_is_begin_block: by the largest value of either field.
BeginsInBlockSize(t) ==
  /\ \E i \in DOMAIN Raw(t) : Raw(t)[i].bsize > Guess
  /\ \A i \in DOMAIN Raw(t) : Raw(t)[i].off <= Guess
Begin(t, i) == IF BeginsInBlockSize(t) THEN Raw(t)[i].bsize ELSE Raw(t)[i].off

OfDevice(t, dev) == {i \in DOMAIN Raw(t) : Raw(t)[i].dev = dev}

\* Defect: the table is taken to be in order already.
OrdersAsListed(t, dev) == {SetToSortSeq(OfDevice(t, dev), LAMBDA a, b : a < b)}

\* The partitions of a device in the order of their beginnings; the sort is not
\* stable, so that those with one beginning may come in any order.
Orders(t, dev) ==
  {o \in SetToSeqs(OfDevice(t, dev)) : \A k \in 1 .. Len(o) - 1 : Begin(t, o[k]) <= Begin(t, o[k + 1])}

\* The length of the k-th partition of an order.
Blocks(t, o, k) ==
  IF k < Len(o) THEN Begin(t, o[k + 1]) - Begin(t, o[k])
  ELSE IF Raw(t)[o[k]].len > 0 THEN Raw(t)[o[k]].len ELSE 0

\* find_by_file_name: the first partition of that name, or 0.
FindByFileName(t, base) ==
  LET named == {i \in DOMAIN Raw(t) : Raw(t)[i].file = base}
  IN  IF named = {} \/ base = "" THEN 0 ELSE CHOOSE i \in named : \A j \in named : i <= j

-----------------------------------------------------------------------------
\* The partitions of a device do not overlap and leave no gap, however the table lists
\* them and whichever of its fields is taken.
LaidOut(t) ==
  Readable(t) =>
    \A dev \in {Raw(t)[i].dev : i \in DOMAIN Raw(t)} : \A o \in Orders(t, dev) :
      \A k \in DOMAIN o :
        /\ Blocks(t, o, k) >= 0
        /\ \A m \in DOMAIN o \ {k} :
             Begin(t, o[m]) >= Begin(t, o[k]) + Blocks(t, o, k)
               \/ Begin(t, o[k]) >= Begin(t, o[m]) + Blocks(t, o, m)
        /\ k < Len(o) => \E m \in DOMAIN o : Begin(t, o[m]) = Begin(t, o[k]) + Blocks(t, o, k)
=============================================================================
