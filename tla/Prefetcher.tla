----------------------------- MODULE Prefetcher -----------------------------
(***************************************************************************)
(* core/prefetcher.hpp: TwoSlotPrefetcher, the ring of slots through which *)
(* a reader thread hands the windows of an image to the sending thread.    *)
(* A section under the mutex m_ is one action; what the code does outside  *)
(* the mutex (filling a slot, notifying a condition variable, requesting   *)
(* the stop token, joining) is an action of its own, so that every         *)
(* interleaving the mutex allows is explored.  A thread asleep in a        *)
(* condition variable runs again only when it is notified.                 *)
(*                                                                         *)
(* A window is its number, 1..NumWindows; 0 is the content of a slot that  *)
(* holds no complete window (never filled, or half written).               *)
(***************************************************************************)
EXTENDS Integers

CONSTANTS
  NumSlots,     \* kNumSlots
  NumWindows    \* windows the fill function can produce

ASSUME SlotsAssumption == NumSlots \in Nat \ {0}
ASSUME NumWindowsAssumption == NumWindows \in Nat

VARIABLES
  slots,        \* slots_: content of each slot
  filled,       \* filled_
  done,         \* done_
  stopping,     \* stopping_
  error,        \* error_.has_value()
  writeIdx,     \* write_idx_
  readIdx,      \* read_idx_
  stopReq,      \* the stop token of reader_
  sent,         \* windows produced so far (the fill function's own counter)
  reader,       \* where the reader thread is
  outcome,      \* what the last call of fill_ returned
  consumer,     \* where the sending thread is
  held,         \* idx_ of the lease
  published,    \* history: windows stored into the ring
  taken,        \* history: windows handed out by next()
  ended,        \* history: how the consumer stopped asking
  status        \* history: what status() told the consumer

readerVars   == <<sent, reader, outcome, writeIdx, published, done, error>>
consumerVars == <<consumer, held, readIdx, taken, ended, status>>
vars == <<slots, filled, stopping, stopReq, readerVars, consumerVars>>

Slots == 0 .. NumSlots - 1

\* The slot after slot i.
Succ(i) == (i + 1) % NumSlots

ReaderPC   == {"test", "asleep", "fill", "store", "notify", "wakeAll", "exit"}
ConsumerPC == {"loop", "asleep", "woken", "lease", "released", "status",
               "stop", "notify", "token", "join", "joined"}

Init ==
  /\ slots = [i \in Slots |-> 0]
  /\ filled = [i \in Slots |-> FALSE]
  /\ done = FALSE /\ stopping = FALSE /\ error = FALSE /\ stopReq = FALSE
  /\ writeIdx = 0 /\ readIdx = 0 /\ held = 0
  /\ sent = 0 /\ published = 0 /\ taken = 0
  /\ reader = "test" /\ outcome = "none"
  /\ consumer = "loop" /\ ended = "no" /\ status = "unread"

(***************************************************************************)
(* Condition variables: notify_all moves a sleeping thread back to the     *)
(* test of its predicate.                                                  *)
(***************************************************************************)
WakeReader   == reader' = IF reader = "asleep" THEN "test" ELSE reader
WakeConsumer == consumer' = IF consumer = "asleep" THEN "woken" ELSE consumer

\* Defects of the reader's predicate: the slot is not looked at; the stop is not.
CanFillAnySlot == TRUE
CanFillIgnoresStop == ~filled[writeIdx]

\* Predicate of cv_can_fill_.wait.
CanFill == stopping \/ ~filled[writeIdx]

\* Defect of the sender's predicate: the end of the stream does not wake it.
CanTakeIgnoresEnd == stopping \/ filled[readIdx]

\* Predicate of cv_can_take_.wait.
CanTake == stopping \/ error \/ filled[readIdx] \/ done

\* Defect: the end is announced while windows are still in the ring.
NoMoreWhenDone == stopping \/ error \/ done

\* next() answers nullopt.
NoMore == stopping \/ error \/ ~filled[readIdx]

(***************************************************************************)
(* The reader thread, reader_loop_.                                        *)
(***************************************************************************)

\* cv_can_fill_.wait, and the check for a stop that follows it.
ReaderTest ==
  /\ reader = "test"
  /\ \/ /\ CanFill /\ (stopping \/ stopReq)
        /\ reader' = "exit"
        /\ done' = TRUE
        /\ WakeConsumer
        /\ UNCHANGED slots
     \/ /\ CanFill /\ ~stopping /\ ~stopReq
        /\ reader' = "fill"
        /\ slots' = [slots EXCEPT ![writeIdx] = 0]
        /\ UNCHANGED <<done, consumer>>
     \/ /\ ~CanFill
        /\ reader' = "asleep"
        /\ UNCHANGED <<done, slots, consumer>>
  /\ UNCHANGED <<filled, stopping, stopReq, sent, outcome, writeIdx, published,
                 error, held, readIdx, taken, ended, status>>

\* fill_ returns: a window, the end of the image, an error, or an exception.
FillReturn(r) ==
  /\ reader = "fill"
  /\ \/ /\ r = "end"
        /\ stopReq \/ sent = NumWindows
        /\ UNCHANGED <<slots, sent>>
     \/ /\ r = "window"
        /\ sent < NumWindows
        /\ slots' = [slots EXCEPT ![writeIdx] = sent + 1]
        /\ sent' = sent + 1
     \/ /\ r \in {"fail", "throw"}
        /\ sent < NumWindows
        /\ UNCHANGED <<slots, sent>>
  /\ outcome' = r
  /\ reader' = "store"
  /\ UNCHANGED <<filled, stopping, stopReq, writeIdx, published, done, error,
                 consumerVars>>

\* The section under m_ that follows fill_; done_ is announced under the lock.
Store ==
  /\ reader = "store"
  /\ outcome # "throw"
  /\ \/ /\ stopping \/ stopReq \/ outcome # "window"
        /\ error' = IF outcome = "fail" /\ ~stopping /\ ~stopReq THEN TRUE ELSE error
        /\ done' = TRUE
        /\ reader' = "exit"
        /\ WakeConsumer
        /\ UNCHANGED <<filled, writeIdx, published>>
     \/ /\ ~stopping /\ ~stopReq /\ outcome = "window"
        /\ filled' = [filled EXCEPT ![writeIdx] = TRUE]
        /\ writeIdx' = Succ(writeIdx)
        /\ published' = published + 1
        /\ reader' = "notify"
        /\ UNCHANGED <<done, error, consumer>>
  /\ UNCHANGED <<slots, stopping, stopReq, sent, outcome, held, readIdx, taken,
                 ended, status>>

\* Defect: the exception ends the thread and leaves no error.
CatchLosesError ==
  /\ reader = "store"
  /\ outcome = "throw"
  /\ done' = TRUE
  /\ reader' = "wakeAll"
  /\ UNCHANGED <<slots, filled, stopping, stopReq, sent, outcome, writeIdx,
                 published, error, consumerVars>>

\* The catch clauses: the error is recorded whether or not a stop is under way.
Catch ==
  /\ reader = "store"
  /\ outcome = "throw"
  /\ error' = TRUE
  /\ done' = TRUE
  /\ reader' = "wakeAll"
  /\ UNCHANGED <<slots, filled, stopping, stopReq, sent, outcome, writeIdx,
                 published, consumerVars>>

\* cv_can_take_.notify_all() outside the lock, after a window or an exception.
ReaderNotify ==
  /\ reader \in {"notify", "wakeAll"}
  /\ reader' = IF reader = "notify" THEN "test" ELSE "exit"
  /\ WakeConsumer
  /\ UNCHANGED <<slots, filled, stopping, stopReq, sent, outcome, writeIdx,
                 published, done, error, held, readIdx, taken, ended, status>>

(***************************************************************************)
(* The sending thread: next(), the lease, status(), the destructor.        *)
(***************************************************************************)

\* next(): sleep, answer "no more", or lease the slot at read_idx_.
TakeNext ==
  /\ consumer \in {"loop", "woken"}
  /\ \/ /\ ~CanTake
        /\ consumer' = "asleep"
        /\ UNCHANGED <<held, readIdx, taken, ended>>
     \/ /\ CanTake /\ NoMore
        /\ consumer' = "status"
        /\ ended' = "null"
        /\ UNCHANGED <<held, readIdx, taken>>
     \/ /\ CanTake /\ ~NoMore
        /\ held' = readIdx
        /\ readIdx' = Succ(readIdx)
        /\ taken' = taken + 1
        /\ consumer' = "lease"
        /\ UNCHANGED ended
  /\ UNCHANGED <<slots, filled, stopping, stopReq, readerVars, status>>

\* ~Lease: the slot is free again; the reader is told after the unlock.
Release ==
  /\ consumer = "lease"
  /\ filled' = [filled EXCEPT ![held] = FALSE]
  /\ consumer' = "released"
  /\ UNCHANGED <<slots, stopping, stopReq, readerVars, held, readIdx, taken,
                 ended, status>>

ReleaseNotify ==
  /\ consumer = "released"
  /\ WakeReader
  /\ consumer' = "loop"
  /\ UNCHANGED <<slots, filled, stopping, stopReq, sent, outcome, writeIdx,
                 published, done, error, held, readIdx, taken, ended, status>>

\* The sender breaks out of its loop (last window sent, or no device left).
Leave ==
  /\ consumer = "loop"
  /\ consumer' = "status"
  /\ ended' = "left"
  /\ UNCHANGED <<slots, filled, stopping, stopReq, readerVars, held, readIdx,
                 taken, status>>

ReadStatus ==
  /\ consumer = "status"
  /\ status' = IF error THEN "err" ELSE "ok"
  /\ consumer' = "stop"
  /\ UNCHANGED <<slots, filled, stopping, stopReq, readerVars, held, readIdx,
                 taken, ended>>

\* request_stop(), from the destructor: flag, notifications, token, join.
StopFlag ==
  /\ consumer = "stop"
  /\ stopping' = TRUE
  /\ consumer' = "notify"
  /\ UNCHANGED <<slots, filled, stopReq, readerVars, held, readIdx, taken,
                 ended, status>>

StopNotify ==
  /\ consumer = "notify"
  /\ WakeReader
  /\ consumer' = "token"
  /\ UNCHANGED <<slots, filled, stopping, stopReq, sent, outcome, writeIdx,
                 published, done, error, held, readIdx, taken, ended, status>>

StopToken ==
  /\ consumer = "token"
  /\ stopReq' = TRUE
  /\ consumer' = "join"
  /\ UNCHANGED <<slots, filled, stopping, readerVars, held, readIdx, taken,
                 ended, status>>

Join ==
  /\ consumer = "join"
  /\ reader = "exit"
  /\ consumer' = "joined"
  /\ UNCHANGED <<slots, filled, stopping, stopReq, readerVars, held, readIdx,
                 taken, ended, status>>

Terminated ==
  /\ consumer = "joined"
  /\ UNCHANGED vars

ReaderNext ==
  \/ ReaderTest
  \/ \E r \in {"end", "window", "fail", "throw"} : FillReturn(r)
  \/ Store
  \/ Catch
  \/ ReaderNotify

ConsumerNext ==
  \/ TakeNext \/ Release \/ ReleaseNotify
  \/ ReadStatus \/ StopFlag \/ StopNotify \/ StopToken \/ Join

Next == ReaderNext \/ ConsumerNext \/ Leave \/ Terminated

Spec == Init /\ [][Next]_vars

(***************************************************************************)
(* Both threads keep running: a fill returns (a source read is finite) and *)
(* the sender finishes with its window.  Nothing forces it to leave early. *)
(***************************************************************************)
FairSpec == Spec /\ WF_vars(ReaderNext) /\ WF_vars(ConsumerNext)
-----------------------------------------------------------------------------
(***************************************************************************)
(* Properties.                                                             *)
(***************************************************************************)

\* Every variable has the type the code declares for it.
TypeOK ==
  /\ slots \in [Slots -> 0 .. NumWindows]
  /\ filled \in [Slots -> BOOLEAN]
  /\ done \in BOOLEAN /\ stopping \in BOOLEAN
  /\ error \in BOOLEAN /\ stopReq \in BOOLEAN
  /\ writeIdx \in Slots /\ readIdx \in Slots /\ held \in Slots
  /\ sent \in 0 .. NumWindows
  /\ published \in Nat /\ taken \in Nat
  /\ reader \in ReaderPC /\ consumer \in ConsumerPC
  /\ outcome \in {"none", "end", "window", "fail", "throw"}
  /\ ended \in {"no", "null", "left"}
  /\ status \in {"unread", "ok", "err"}

\* Windows whose slot the consumer has given back.
Freed == IF consumer = "lease" THEN taken - 1 ELSE taken

\* A window was filled into its slot and waits for the lock to be stored.
Pending == reader = "store" /\ outcome = "window"

\* Every window produced was stored, or is about to be.
SentInv ==
  /\ reader \in {"test", "asleep", "fill", "notify"} => sent = published
  /\ reader = "store" => sent = published + (IF Pending THEN 1 ELSE 0)
  /\ published <= sent

\* The counts are ordered and at most NumSlots apart; the indices follow them.
CountInv ==
  /\ Freed \in Nat /\ Freed <= taken /\ taken <= published
  /\ published <= Freed + NumSlots
  /\ writeIdx = published % NumSlots
  /\ readIdx = taken % NumSlots
  /\ consumer = "lease" => held = Freed % NumSlots

\* The filled slots are those of the windows stored and not given back.
FilledInv ==
  \A i \in Slots : filled[i] <=> \E k \in Freed .. published - 1 : i = k % NumSlots

\* Each of those slots still holds its window.
ContentInv ==
  \A k \in Freed .. published - 1 : slots[k % NumSlots] = k + 1

\* The slot the reader writes is free.
FillInv ==
  /\ reader \in {"fill", "store"} => ~filled[writeIdx]
  /\ Pending => slots[writeIdx] = published + 1

(***************************************************************************)
(* The ring is a queue: exactly the windows stored and not given back      *)
(* occupy slots, in order from the oldest; both indices follow from the    *)
(* counts; the slot being filled is none of them, so the reader is never   *)
(* more than NumSlots windows ahead of what the sender gave back.          *)
(***************************************************************************)
RingInv == SentInv /\ CountInv /\ FilledInv /\ ContentInv /\ FillInv

\* How the threads end: done_ is set for good and for one of three reasons,
\* a stop, an error, or the last window stored; the sender is told "no more"
\* only for the last two, with an empty ring in the second case.
EndInv ==
  /\ stopReq => stopping
  /\ stopping <=> consumer \in {"notify", "token", "join", "joined"}
  /\ done => reader \in {"exit", "wakeAll"}
  /\ error => done
  /\ done /\ ~stopping /\ ~error => published = NumWindows
  /\ reader = "store" /\ outcome \in {"none", "end"} /\ ~stopReq => sent = NumWindows
  /\ ended = "no" <=> consumer \in {"loop", "asleep", "woken", "lease", "released"}
  /\ ended = "null" => done
  /\ ended = "null" /\ ~error => taken = NumWindows
  /\ ended = "null" /\ status = "ok" => ~error
  /\ consumer \in {"loop", "asleep", "woken", "lease", "released", "status"} =>
       status = "unread"

PrefetcherInv == RingInv /\ EndInv

\* While the sending threads read from a leased slot, the reader thread does
\* not write it, and it holds the window that follows the one they had before.
LeaseIsStable ==
  consumer = "lease" =>
    /\ slots[held] = taken
    /\ ~(reader \in {"fill", "store"} /\ writeIdx = held)

\* The prefetcher is the stream of windows it promises: in order, none lost,
\* none twice, and "no more" only after the last window or after an error.
Stream == INSTANCE WindowStream WITH
  delivered <- taken,
  holding   <- IF consumer = "lease" THEN slots[held] ELSE 0,
  over      <- CASE ended = "no"   -> "open"
                 [] ended = "left" -> "closed"
                 [] ended = "null" -> IF error THEN "failed" ELSE "end"

ImplementsWindowStream == Stream!StreamSpec

\* send_prefetched returns status() to its caller: an image that ended early
\* without the sender wanting it to is reported as an error.
TruncationIsReported ==
  ended = "null" /\ taken < NumWindows /\ status # "unread" => status = "err"

\* No notification is lost: a sender asleep in next() gets an answer.
NextReturns == consumer = "asleep" ~> consumer \in {"lease", "status"}

\* The destructor returns, wherever the reader thread was: filling, asleep on
\* a full ring, or already gone.
StopCompletes == consumer = "stop" ~> consumer = "joined"
=============================================================================
