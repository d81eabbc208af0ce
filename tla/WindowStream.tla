---------------------------- MODULE WindowStream ----------------------------
(***************************************************************************)
(* What the prefetcher promises to the thread that sends an image: the     *)
(* windows of the image, one at a time, in order, each exactly once and    *)
(* untouched while the sender holds it; then the end of the image, or a    *)
(* failure.  The end is never announced before the last window was handed  *)
(* over.  Threads, slots and condition variables are left to Prefetcher.   *)
(***************************************************************************)
EXTENDS Naturals

CONSTANT NumWindows    \* number of windows the image is cut into

VARIABLES
  delivered,   \* windows handed over so far
  holding,     \* the window the sender holds now, 0 when it holds none
  over         \* how the stream ended: "open", "end", "failed", "closed"

streamVars == <<delivered, holding, over>>

StreamInit == delivered = 0 /\ holding = 0 /\ over = "open"

\* The sender asks for a window and gets the one after the last it had.
Deliver ==
  /\ over = "open" /\ holding = 0
  /\ delivered < NumWindows
  /\ delivered' = delivered + 1
  /\ holding' = delivered + 1
  /\ UNCHANGED over

\* The sender gives its window back.
Return ==
  /\ holding # 0
  /\ holding' = 0
  /\ UNCHANGED <<delivered, over>>

\* The stream answers that there are no more windows.
End ==
  /\ over = "open" /\ holding = 0
  /\ delivered = NumWindows
  /\ over' = "end"
  /\ UNCHANGED <<delivered, holding>>

\* The stream answers that the image could not be read to its end.
Fail ==
  /\ over = "open" /\ holding = 0
  /\ over' = "failed"
  /\ UNCHANGED <<delivered, holding>>

\* The sender loses interest before the stream is over.
Close ==
  /\ over = "open" /\ holding = 0
  /\ over' = "closed"
  /\ UNCHANGED <<delivered, holding>>

StreamNext == Deliver \/ Return \/ End \/ Fail \/ Close

StreamSpec == StreamInit /\ [][StreamNext]_streamVars
=============================================================================
