------------------------------- MODULE TarScan -------------------------------
(***************************************************************************)
(* How a tar archive is read (io/tar.cpp).                                 *)
(*                                                                         *)
(* An archive is a sequence of blocks.  A block is a header, the payload   *)
(* of a pax or long-name header, data, or zeros; a file that was cut short *)
(* ends early.  scan_ reads block after block, so it is a fold; skip is    *)
(* what it seeks over.  A member's name is its directory, its base name    *)
(* and whether that ends in ".lz4"; NoName is the empty one.  Sizes have   *)
(* the width of the code's, Word.                                          *)
(***************************************************************************)
EXTENDS Integers, Sequences, FiniteSets, SequencesExt

CONSTANTS
  Block,     \* kBlock
  Word,      \* 2^64
  MaxExtra   \* the largest pax or long-name payload accepted

ASSUME TarAssumption ==
  Block \in Nat \ {0} /\ Word \in Nat /\ Word > Block /\ MaxExtra \in Nat /\ MaxExtra >= Block

NoName == [dir |-> "", base |-> "", lz4 |-> FALSE]
NoSize == -1

\* The blocks.  A header has a type, a size (NoSize: a base-256 field that is negative
\* or too wide), a target if it is a link, and a checksum that fits or not; a payload
\* has pax records, or a long name.
ABlock(kind, type, sound, name, size, to, recs) ==
  [kind |-> kind, type |-> type, sound |-> sound, name |-> name, size |-> size,
   to |-> to, recs |-> recs]
Header(type, sound, name, size, to) == ABlock("header", type, sound, name, size, to, << >>)
Payload(name, recs) == ABlock("payload", "", FALSE, name, 0, NoName, recs)
DataOf(name)        == ABlock("data", "", FALSE, name, 0, NoName, << >>)
Zeros               == ABlock("zeros", "", TRUE, NoName, 0, NoName, << >>)

\* Text is STRING: the provers know no string that is in it but those written out.
Kinds      == {"header", "payload", "data", "zeros"}
Text       == STRING \cup {"", "cut", "0", "1", "x", "g", "L", "path", "size", "mtime", "comment"}
Names      == [dir : Text, base : Text, lz4 : BOOLEAN]
PaxRecords == [key : Text, path : Names, size : Int]
TarBlocks  == [kind : Kinds, type : Text, sound : BOOLEAN, name : Names, size : Int, to : Names,
               recs : Seq(PaxRecords)]

\* round_up_512: wraps for the sizes next to the largest.
RoundUp(n) == (((n + Block - 1) % Word) \div Block) * Block
BlocksOf(n) == RoundUp(n) \div Block

\* The elements of a sequence at some of its places, in their order.
Picked(seq, at) ==
  FoldLeftDomain(LAMBDA acc, k : IF k \in at THEN Append(acc, seq[k]) ELSE acc, << >>, seq)

-----------------------------------------------------------------------------
\* PaxKV and merge_from.
NoPax == [path |-> NoName, size |-> NoSize]
Merge(a, b) ==
  [path |-> IF b.path # NoName THEN b.path ELSE a.path,
   size |-> IF b.size # NoSize THEN b.size ELSE a.size]

\* parse_pax_payload.  A record is a path, a size, another key, or one that ends the
\* parsing: its length is missing, zero, or leads past the end ("stop").  "bad" is one
\* whose number cannot be read, and one with a length next to the largest, which wraps
\* the position back to where no number begins.  (One that wraps back to the beginning
\* of a record would be read for ever; none of these is in the model.)
PaxRecord(acc, r) ==
  IF acc.state # "go" THEN acc
  ELSE CASE r.key = "path" -> [acc EXCEPT !.kv.path = r.path]
         [] r.key = "size" -> [acc EXCEPT !.kv.size = r.size]
         [] r.key = "bad"  -> [acc EXCEPT !.state = "bad"]
         [] r.key = "stop" -> [acc EXCEPT !.state = "stop"]
         [] OTHER          -> acc
ParsePax(recs) == FoldLeft(PaxRecord, [state |-> "go", kv |-> NoPax], recs)

-----------------------------------------------------------------------------
\* The state of scan_: extra is the type of the header whose payload is next.
ScanStart ==
  [pos |-> 0, skip |-> 0, extra |-> "", next |-> NoPax, global |-> NoPax,
   long |-> NoName, entries |-> << >>, links |-> << >>, state |-> "scan"]

\* A header of type x, g or L: its payload is read, unless it is refused.
ReadExtra(a, b) ==
  IF b.size > MaxExtra THEN [a EXCEPT !.state = "failed"]
  ELSE IF b.size = 0
       THEN IF b.type = "L" THEN [a EXCEPT !.long = NoName] ELSE a
       ELSE [a EXCEPT !.extra = b.type, !.skip = BlocksOf(b.size) - 1]

TakeExtra(a, b) ==
  LET pax == ParsePax(b.recs)
      c   == [a EXCEPT !.extra = ""]
  IN  IF a.extra = "L" THEN [c EXCEPT !.long = b.name]
      ELSE IF pax.state = "bad" THEN [c EXCEPT !.state = "failed"]
      ELSE IF a.extra = "g" THEN [c EXCEPT !.global = Merge(@, pax.kv)]
      ELSE [c EXCEPT !.next = Merge(@, pax.kv)]

\* apply_name_overrides.
Overrides(a) == Merge(a.global, a.next)
FullName(a, b) ==
  LET n == IF a.long # NoName THEN a.long ELSE b.name
  IN  IF Overrides(a).path # NoName THEN Overrides(a).path ELSE n
FullSize(a, b) == IF Overrides(a).size # NoSize THEN Overrides(a).size ELSE b.size

\* Defect: the overrides of a member stay for the next one.
ReadMemberKeepsOverrides(a, b) ==
  LET name == FullName(a, b)
      size == FullSize(a, b)
  IN  [a EXCEPT !.skip = BlocksOf(size),
                !.entries = IF b.type = "0" THEN Append(@, [name |-> name, size |-> size, at |-> a.pos]) ELSE @]

\* Any other header is a member: a file (types 0, NUL and 7 alike), a hard link, or
\* something whose data is skipped.
ReadMember(a, b) ==
  LET name == FullName(a, b)
      size == FullSize(a, b)
      c    == [a EXCEPT !.long = NoName, !.next = NoPax, !.skip = BlocksOf(size)]
  IN  CASE b.type = "0" /\ name # NoName ->
             [c EXCEPT !.entries = Append(@, [name |-> name, size |-> size, at |-> a.pos])]
        [] b.type = "1" /\ name # NoName /\ b.to # NoName ->
             [c EXCEPT !.links = Append(@, [name |-> name, to |-> b.to])]
        [] OTHER -> c

\* One block.  Zeros where a header is due end the archive, whatever follows.
ScanBlock(validate, acc, b) ==
  LET a == [acc EXCEPT !.pos = @ + 1]
  IN  IF acc.state # "scan" THEN acc
      ELSE IF acc.extra # "" THEN TakeExtra(a, b)
      ELSE IF acc.skip > 0 THEN [a EXCEPT !.skip = @ - 1]
      ELSE IF b.kind = "zeros" THEN [a EXCEPT !.state = "ended"]
      ELSE IF (validate /\ ~b.sound) \/ b.size = NoSize THEN [a EXCEPT !.state = "failed"]
      ELSE IF b.type \in {"x", "g", "L"} THEN ReadExtra(a, b)
      ELSE ReadMember(a, b)

\* Hard links become entries at the end, with the data of the first file of the
\* name they give.
Resolved(a) ==
  LET Files(l) == {i \in DOMAIN a.entries : a.entries[i].name = l.to}
      First(l) == a.entries[CHOOSE i \in Files(l) : \A j \in Files(l) : i <= j]
      found    == Picked(a.links, {k \in DOMAIN a.links : Files(a.links[k]) # {}})
  IN  a.entries \o [k \in DOMAIN found |->
                      [name |-> found[k].name, size |-> First(found[k]).size, at |-> First(found[k]).at]]

\* scan_.
Scan(validate, blocks) == FoldLeft(LAMBDA acc, b : ScanBlock(validate, acc, b), ScanStart, blocks)

\* TarArchive::open.  An archive without a block of zeros in the place of a header
\* is read to its end and then short.
TarOpen(blocks, validate) ==
  LET a == Scan(validate, blocks)
  IN  IF a.state = "ended" THEN [ok |-> TRUE, entries |-> Resolved(a)]
      ELSE [ok |-> FALSE, entries |-> << >>]

\* is_tar_file looks at the first block alone.
IsTarFile(blocks) == blocks # << >> /\ blocks[1].kind # "zeros" /\ blocks[1].sound

-----------------------------------------------------------------------------
(***************************************************************************)
(* Reference: what an archiver writes for a list of members.  A member has *)
(* a name, a size, a kind (file or link) and a way its name and size are   *)
(* written: in the header, in a pax header before it, or, the name only,   *)
(* in a GNU long name.                                                     *)
(***************************************************************************)
Member(name, size, how, to) == [name |-> name, size |-> size, how |-> how, to |-> to]
TarMembers == [name : Names \ {NoName}, size : Nat, how : {"plain", "pax", "long"}, to : Names]
Short == [dir |-> "", base |-> "cut", lz4 |-> FALSE]

Written(m) ==
  LET type == IF m.to = NoName THEN "0" ELSE "1"
      data == [i \in 1 .. BlocksOf(m.size) |-> DataOf(m.name)]
      pax  == <<[key |-> "mtime", path |-> NoName, size |-> NoSize],
                [key |-> "path", path |-> m.name, size |-> NoSize],
                [key |-> "size", path |-> NoName, size |-> m.size]>>
  IN  CASE m.how = "plain" -> <<Header(type, TRUE, m.name, m.size, m.to)>> \o data
        [] m.how = "pax"   -> <<Header("x", TRUE, Short, Block, NoName), Payload(NoName, pax),
                                Header(type, TRUE, Short, 0, m.to)>> \o data
        [] m.how = "long"  -> <<Header("L", TRUE, Short, Block, NoName), Payload(m.name, << >>),
                                Header(type, TRUE, Short, m.size, m.to)>> \o data

Pack(members) ==
  <<Header("g", TRUE, Short, Block, NoName),
    Payload(NoName, <<[key |-> "comment", path |-> NoName, size |-> NoSize]>>)>>
    \o FlattenSeq([i \in DOMAIN members |-> Written(members[i])]) \o <<Zeros, Zeros>>

\* The archive with one header damaged, or cut after n blocks.
Damaged(blocks, i) == [blocks EXCEPT ![i].sound = FALSE]
Unsized(blocks, i) == [blocks EXCEPT ![i].size = NoSize]
Cut(blocks, n) == SubSeq(blocks, 1, n)

\* Where the data of a member is.
Holds(blocks, e, name) ==
  /\ e.at + BlocksOf(e.size) <= Len(blocks)
  /\ \A i \in e.at + 1 .. e.at + BlocksOf(e.size) : blocks[i].kind = "data" /\ blocks[i].name = name

\* Reading gives back what was written: the files in their order with their sizes
\* and their own data, then every link to a file with that file's data.
ReadsBack(members, validate) ==
  LET blocks == Pack(members)
      files  == Picked(members, {k \in DOMAIN members : members[k].to = NoName})
      links  == Picked(members, {k \in DOMAIN members : members[k].to # NoName})
      found  == Picked(links, {k \in DOMAIN links : \E i \in DOMAIN files : files[i].name = links[k].to})
      tar    == TarOpen(blocks, validate)
  IN  /\ tar.ok /\ Len(tar.entries) = Len(files) + Len(found)
      /\ \A i \in DOMAIN files :
           /\ tar.entries[i].name = files[i].name /\ tar.entries[i].size = files[i].size
           /\ Holds(blocks, tar.entries[i], files[i].name)
      /\ \A i \in DOMAIN found :
           /\ tar.entries[Len(files) + i].name = found[i].name
           /\ Holds(blocks, tar.entries[Len(files) + i], found[i].to)

\* An archive that was cut is not taken for a whole one, and neither is one with a
\* size that cannot be read or, where checksums are looked at, a damaged header.
Refuses(members, validate) ==
  LET blocks == Pack(members)
  IN  /\ \A n \in 0 .. Len(blocks) - 2 : ~TarOpen(Cut(blocks, n), validate).ok
      /\ \A i \in DOMAIN blocks : blocks[i].kind = "header" =>
           /\ ~TarOpen(Unsized(blocks, i), validate).ok
           /\ validate => ~TarOpen(Damaged(blocks, i), TRUE).ok
=============================================================================
