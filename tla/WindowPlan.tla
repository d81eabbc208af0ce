------------------------------ MODULE WindowPlan ------------------------------
(***************************************************************************)
(* How the flashing step cuts an image into windows (group_flasher.cpp).   *)
(*                                                                         *)
(* A window of a compressed download is counted twice: in blocks, which    *)
(* the reader of the frame hands out, and in bytes of content, which the   *)
(* phone is told.  A plain window is cut by the buffer.  What is sent is   *)
(* padded to whole packets.                                                *)
(***************************************************************************)
EXTENDS Integers

CONSTANTS
  OneMiB,           \* kOneMiB
  MaxNonFinal,      \* kMaxNonFinalLz4Blocks
  BufferBytes,      \* cfg.buffer_bytes
  Pkt,              \* the packet size
  ContentSizes,     \* sizes of images
  PackedSizes       \* sizes that some blocks may have in their frame

ASSUME WindowAssumption ==
  /\ OneMiB \in Nat \ {0} /\ MaxNonFinal \in Nat \ {0}
  /\ BufferBytes \in Nat \ {0} /\ Pkt \in Nat \ {0}
  /\ ContentSizes \subseteq Nat \ {0} /\ PackedSizes \subseteq Nat \ {0}

VARIABLES
  size,      \* of the content of the image, "total_decomp" or "file_sz"
  packed,    \* a compressed download
  sent,      \* of the content, in the windows cut so far
  read,      \* blocks_read_
  closed,    \* a window was the last one
  refused,   \* the frame reader was asked for more blocks than there are
  window     \* the window cut last

plan == <<size, packed, sent, read, closed, refused, window>>

NoWindow == [begin |-> 0, end |-> 0, rounded |-> 0]

\* round_up64.
RoundUp64(n, base) == IF n % base = 0 THEN n ELSE n + (base - (n % base))

\* lz4_nonfinal_block_limit.
Least(a, b) == IF a < b THEN a ELSE b
MaxBlocks == Least(BufferBytes \div OneMiB, MaxNonFinal)

\* total_blocks_1m, blocks_remaining_1m.
Blocks1m == (size + (OneMiB - 1)) \div OneMiB
BlocksRemaining == IF read >= Blocks1m THEN 0 ELSE Blocks1m - read

\* An image is opened.  An empty one is refused, and so is a compressed download
\* with a buffer of less than one block.
OpenImage(s, p) ==
  /\ s > 0 /\ (p => MaxBlocks > 0)
  /\ size' = s /\ packed' = p /\ sent' = 0 /\ read' = 0
  /\ closed' = FALSE /\ refused' = FALSE /\ window' = NoWindow

Rem == size - sent
More == sent < size /\ ~refused

\* Defect: the last window is not the one that ends the image exactly.
LastPackedLate == Rem < MaxBlocks * OneMiB

\* The fill function of a compressed download.
LastPacked   == Rem <= MaxBlocks * OneMiB
ContentNext  == IF LastPacked THEN Rem ELSE MaxBlocks * OneMiB
BlocksNext   == IF LastPacked THEN BlocksRemaining ELSE ContentNext \div OneMiB

\* read_n_blocks refuses.
Overasked == read + BlocksNext > Blocks1m

CutPacked(comp) ==
  /\ packed /\ More
  /\ IF Overasked
     THEN refused' = TRUE /\ UNCHANGED <<size, packed, sent, read, closed, window>>
     ELSE /\ read' = read + BlocksNext
          /\ window' = [begin |-> comp, end |-> ContentNext, rounded |-> RoundUp64(comp, Pkt)]
          /\ closed' = LastPacked
          /\ sent' = sent + ContentNext
          /\ UNCHANGED <<size, packed, refused>>

\* The fill function of a plain download.
Actual == Least(Rem, BufferBytes)

CutPlain ==
  /\ ~packed /\ More
  /\ window' = [begin |-> RoundUp64(Actual, Pkt), end |-> Actual, rounded |-> RoundUp64(Actual, Pkt)]
  /\ closed' = (sent + Actual >= size)
  /\ sent' = sent + Actual
  /\ UNCHANGED <<size, packed, read, refused>>

CutInit ==
  /\ size \in ContentSizes /\ packed \in BOOLEAN /\ (packed => MaxBlocks > 0)
  /\ sent = 0 /\ read = 0 /\ closed = FALSE /\ refused = FALSE /\ window = NoWindow

CutNext == (\E comp \in PackedSizes : CutPacked(comp)) \/ CutPlain

CutSpec == CutInit /\ [][CutNext]_plan

-----------------------------------------------------------------------------
\* The windows carry the whole image and nothing else: the one marked last is the one
\* that ends it, the frame reader has then given exactly its blocks and was never
\* asked for more, and a window before it is a whole number of blocks.
WindowsExact ==
  /\ sent <= size /\ (closed <=> sent = size)
  /\ ~refused
  /\ packed => IF closed THEN read = Blocks1m ELSE sent = read * OneMiB

\* What is sent is in whole packets, no less than its payload and less than a
\* packet more.
WindowsPadded ==
  /\ window.rounded % Pkt = 0
  /\ window # NoWindow => LET used == IF packed THEN window.begin ELSE window.end
                          IN  used > 0 /\ used <= window.rounded /\ window.rounded < used + Pkt
=============================================================================
