----------------------------- MODULE ImageInput -----------------------------
(***************************************************************************)
(* From the files a user selects to the images that are flashed:           *)
(* expand_inputs_tar_or_raw (protocol/odin/flash.cpp) for the command line *)
(* program, the loop over file descriptors of run_usb_flash                *)
(* (native-lib.cpp) for the app, and LZ4 frames (io/lz4_frame.cpp).        *)
(*                                                                         *)
(* A file has a name, blocks if it is an archive, the lines of its         *)
(* download list and the LZ4 frame of what is compressed in it.            *)
(***************************************************************************)
EXTENDS TarScan

CONSTANTS
  MiB,       \* LZ4_ONE_MIB, kOneMiB: a whole number of the smaller block sizes
  Listed     \* the directory of download-list.txt

ASSUME ImageAssumption == MiB \in Nat \ {0}

ListName == [dir |-> Listed, base |-> "download-list.txt", lz4 |-> FALSE]
PitNames == {"a.pit", "b.pit"}   \* base names that end in ".pit"

-----------------------------------------------------------------------------
\* A frame: what its header says, the largest block size it declares, the size of
\* its content, and its blocks.  A block without payload is the end mark, unless it
\* is stored uncompressed.
FrameBlock(out, pay, raw) == [out |-> out, pay |-> pay, raw |-> raw]
Frame(header, bmax, content, blocks) ==
  [header |-> header, bmax |-> bmax, content |-> content, blocks |-> blocks]
EndMark(b) == b.pay = 0 /\ ~b.raw
FrameBlocks == {b \in [out : Nat, pay : Nat, raw : BOOLEAN] : b.raw => b.out = b.pay}
Frames == [header : STRING, bmax : Nat, content : Nat, blocks : Seq(FrameBlocks)]

\* What a user selects: the members an archive was made of are not read.
InputFiles ==
  [members : Seq(TarMembers), blocks : Seq(TarBlocks), list : Seq(STRING), frame : Frames,
   named : STRING, name : Names, size : Nat]

\* parse_lz4_frame_header.  "bad" covers the magic, the version, linked blocks, block
\* checksums, a dictionary, a missing content size and a short header.
HeaderOk(f) ==
  /\ f.header = "ok"
  /\ f.bmax \in 1 .. MiB
  /\ f.content > MiB => f.bmax = MiB

TotalBlocks(f) == (f.content + MiB - 1) \div MiB

\* read_n_blocks after "from" blocks: fails or gives the size of what it read, four
\* bytes (here 1) and the payload of each block.
CanReadBlocks(f, from, n) ==
  /\ from + n <= TotalBlocks(f)
  /\ \A i \in from + 1 .. from + n : i \in DOMAIN f.blocks /\ ~EndMark(f.blocks[i])
BlocksSize(f, from, n) ==
  FoldLeft(LAMBDA sum, b : sum + 1 + b.pay, 0, SubSeq(f.blocks, from + 1, from + n))

\* Lz4DecompressedSource: every block must give what is left, up to a MiB.
Expected(f, i) == IF f.content - MiB * (i - 1) < MiB THEN f.content - MiB * (i - 1) ELSE MiB
DecodesBlock(f, i) ==
  /\ i \in DOMAIN f.blocks /\ ~EndMark(f.blocks[i])
  /\ IF f.blocks[i].raw THEN f.blocks[i].pay = Expected(f, i) ELSE f.blocks[i].out = Expected(f, i)
CanDecode(f, from, upto) ==
  \A i \in 1 .. TotalBlocks(f) : MiB * i > from /\ MiB * (i - 1) < upto => DecodesBlock(f, i)

-----------------------------------------------------------------------------
\* An ImageSpec: where it comes from, its names and size, and the frame in it.
ImageSpec(i, j, name, size, file) ==
  [file |-> i, entry |-> j, base |-> name.base, lz4 |-> name.lz4, size |-> size,
   frame |-> file.frame]

IsPit(base) == base \in PitNames

\* parse_download_list.
ListOk(list) == list # << >> /\ IsInjective(list)

-----------------------------------------------------------------------------
\* Pass 1: archives are opened ("tars", of each file) and their lists, the first entry
\* of that name, compared.
Opened(files, validate) == [i \in DOMAIN files |-> TarOpen(files[i].blocks, validate)]
Archives(files) == {i \in DOMAIN files : IsTarFile(files[i].blocks)}
WithList(files, tars) ==
  {i \in Archives(files) : \E j \in DOMAIN tars[i].entries : tars[i].entries[j].name = ListName}
ArchivesOk(files, tars, listed) ==
  /\ \A i \in Archives(files) : tars[i].ok
  /\ \A i \in listed : ListOk(files[i].list)
  /\ \A i, k \in listed : files[i].list = files[k].list
Allowed(files, listed, base) ==
  \/ listed = {} \/ IsPit(base)
  \/ \E i \in listed : base \in ToSet(files[i].list)

\* Candidates in order: entries of archives but the list, files that are none.  A
\* candidate is its file, its entry (0 for a whole file), its name and its size.
Candidate(i, j, it) == [file |-> i, entry |-> j, name |-> it.name, size |-> it.size]
Candidates(files, tars) ==
  LET Of(i) ==
        IF i \in Archives(files)
        THEN [j \in DOMAIN tars[i].entries |-> Candidate(i, j, tars[i].entries[j])]
        ELSE <<Candidate(i, 0, files[i])>>
      all == FlattenSeq([i \in DOMAIN files |-> Of(i)])
  IN  Picked(all, {k \in DOMAIN all :
                     (all[k].entry # 0 => all[k].name # ListName) /\ all[k].name.base # ""})

\* Defect: the first of several images with one name is kept.
LastOfKeepsFirst(cands) ==
  FoldLeft(LAMBDA m, c : IF c.name.base \in DOMAIN m THEN m
                         ELSE [b \in DOMAIN m \cup {c.name.base} |-> IF b = c.name.base THEN c ELSE m[b]],
           << >>, cands)

\* Pass 2: the last one of each base name.
LastOf(cands) ==
  FoldLeft(LAMBDA m, c : [b \in DOMAIN m \cup {c.name.base} |-> IF b = c.name.base THEN c ELSE m[b]],
           << >>, cands)

\* make_spec: an image with LZ4 suffix has the size its header says.
SpecOk(c, file)   == c.name.lz4 => HeaderOk(file.frame)
MakeSpec(c, file) ==
  ImageSpec(c.file, c.entry, c.name,
            IF c.name.lz4 THEN file.frame.content ELSE c.size, file)

\* Pass 3: the last ones in order, as far as the list allows, PIT files at the end.
Kept(files, listed, cands, last) ==
  Picked(cands, {k \in DOMAIN cands : last[cands[k].name.base] = cands[k] /\ Allowed(files, listed, cands[k].name.base)})
PitLast(specs) ==
  LET pits == {k \in DOMAIN specs : IsPit(specs[k].base)}
  IN  Picked(specs, DOMAIN specs \ pits) \o Picked(specs, pits)
Specs(files, kept, ok) ==
  IF ok /\ \A k \in DOMAIN kept : SpecOk(kept[k], files[kept[k].file])
  THEN [ok |-> TRUE, specs |-> PitLast([k \in DOMAIN kept |-> MakeSpec(kept[k], files[kept[k].file])])]
  ELSE [ok |-> FALSE, specs |-> << >>]
Choose(files, tars, listed, cands) ==
  Specs(files, Kept(files, listed, cands, LastOf(cands)), ArchivesOk(files, tars, listed))
ExpandOpened(files, tars) == Choose(files, tars, WithList(files, tars), Candidates(files, tars))
Expand(files) == ExpandOpened(files, Opened(files, TRUE))

-----------------------------------------------------------------------------
\* The app takes every entry that is not empty, of archives whose checksums it does
\* not look at, and the size of an LZ4 image is that of its compressed form.
AppSpecs(files, tars) ==
  LET Of(i) == [j \in DOMAIN tars[i].entries |->
                  ImageSpec(i, j, tars[i].entries[j].name, tars[i].entries[j].size, files[i])]
      all == FlattenSeq([i \in DOMAIN files |-> Of(i)])
  IN  IF \A i \in DOMAIN files : files[i].named = "tar" /\ tars[i].ok
      THEN [ok |-> TRUE,
            specs |-> Picked(all, {k \in DOMAIN all : all[k].base \notin {"", "download-list.txt"} /\ all[k].size > 0})]
      ELSE [ok |-> FALSE, specs |-> << >>]
AppExpand(files) == AppSpecs(files, Opened(files, FALSE))

-----------------------------------------------------------------------------
\* What the program promises of the images it takes: each comes from the last place
\* that has one of its name, nothing is taken that the list does not name, nothing is
\* taken twice or left out, and PIT files come last.
Later(c, s) == c.file > s.file \/ (c.file = s.file /\ c.entry > s.entry)
ChoiceSound(files, listed, cands, specs) ==
  /\ \A k \in DOMAIN specs :
       /\ Allowed(files, listed, specs[k].base)
       /\ ~\E c \in cands : c.name.base = specs[k].base /\ Later(c, specs[k])
       /\ \A m \in DOMAIN specs : m > k =>
            specs[m].base # specs[k].base /\ (IsPit(specs[k].base) => IsPit(specs[m].base))
  /\ \A c \in cands : Allowed(files, listed, c.name.base) => \E k \in DOMAIN specs : specs[k].base = c.name.base

\* The last image of each name, as map_to_pit leaves them.
Finally(specs) ==
  {<<specs[k].file, specs[k].entry>> : k \in
     {k \in DOMAIN specs : ~\E m \in DOMAIN specs : m > k /\ specs[m].base = specs[k].base}}
=============================================================================
