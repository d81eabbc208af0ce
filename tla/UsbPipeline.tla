---------------------------- MODULE UsbPipeline ----------------------------
(***************************************************************************)
(* Sending one buffer to the phone through usbfs: send() and drain of      *)
(* UsbFsConnection (usbfs_conn.cpp, the CLI) and the asynchronous half of  *)
(* AndroidUsbTransport (native-lib.cpp), which is the same loop with its   *)
(* own flags.                                                              *)
(*                                                                         *)
(* The buffer goes out in chunks, one URB each; at most Depth URBs are     *)
(* with the kernel, in slots used round robin.  The kernel serves the      *)
(* URBs of an endpoint in order and hands completed ones back in order of  *)
(* completion; an URB that fails or is discarded does not stop the next.   *)
(* Chunks are numbered; a chunk that is not the last fills whole packets.  *)
(***************************************************************************)
EXTENDS Naturals, Sequences, FiniteSets, SequencesExt

CONSTANTS
  Depth,      \* kPipelineDepth
  MaxChunks,  \* bound of the model: URBs of one buffer
  MaxSends    \* bound of the model: calls of send

ASSUME DepthAssumption == Depth \in Nat \ {0}
ASSUME BoundsAssumption == MaxChunks \in Nat \ {0} /\ MaxSends \in Nat

VARIABLES
  impl,       \* the class: "UsbFsConnection" or "AndroidUsbTransport"
  connected,  \* connected_
  pc,         \* where the sender is
  chunks,     \* the number of chunks of this buffer
  whole,      \* its last chunk fills whole packets too
  p,          \* chunks submitted
  inFlight, slot, totalSent,
  slots,      \* slot -> in_flight of out_urbs_ or pending_
  result,     \* of the last send: "none", "ok", "fail"
  sends,      \* calls so far
  pending,    \* kernel: URBs to be served, in order
  completed,  \* kernel: URBs to be reaped, in order
  gone,       \* the device is disconnected
  wire,       \* the chunks of this buffer that the device received
  zlps        \* those that an empty packet followed

sender == <<connected, pc, p, inFlight, slot, totalSent, slots, result>>
call   == <<impl, chunks, whole, sends>>
bus    == <<wire, zlps>>
kernel == <<pending, completed, gone, bus>>
vars   == <<sender, call, kernel>>

Slots == 0 .. Depth - 1

Init ==
  /\ impl \in {"UsbFsConnection", "AndroidUsbTransport"}
  /\ connected = TRUE /\ pc = "idle"
  /\ chunks = 0 /\ whole = FALSE
  /\ p = 0 /\ inFlight = 0 /\ slot = 0 /\ totalSent = 0
  /\ slots = [s \in Slots |-> FALSE]
  /\ result = "none" /\ sends = 0
  /\ pending = << >> /\ completed = << >> /\ gone = FALSE
  /\ wire = << >> /\ zlps = {}

-----------------------------------------------------------------------------
\* The flags of the URB of chunk c.  Zero packet, 0x40 in the kernel's header,
\* asks for an empty packet after a chunk of whole packets; 0x0002, which
\* usbfs_conn.cpp defines under that name, means nothing for a bulk URB.
ZeroPacket(c) == impl = "AndroidUsbTransport"

Filled(c) == c < chunks \/ whole

\* The kernel serves the oldest URB.
Serve ==
  /\ pending # << >>
  /\ LET c == Head(pending).chunk
     IN /\ wire' = Append(wire, c)
        /\ zlps' = IF ZeroPacket(c) /\ Filled(c) THEN zlps \cup {c} ELSE zlps
  /\ completed' = Append(completed, [Head(pending) EXCEPT !.ok = TRUE])
  /\ pending' = Tail(pending)
  /\ UNCHANGED <<sender, call, gone>>

\* The oldest URB fails.
Break ==
  /\ pending # << >>
  /\ completed' = Append(completed, Head(pending))
  /\ pending' = Tail(pending)
  /\ UNCHANGED <<sender, call, gone, bus>>

\* The device is unplugged: the kernel gives all URBs back.
Disconnect ==
  /\ ~gone
  /\ gone' = TRUE
  /\ completed' = completed \o pending /\ pending' = << >>
  /\ UNCHANGED <<sender, call, bus>>

-----------------------------------------------------------------------------
\* send() is called with a buffer of n chunks.
Send(n, w) ==
  /\ pc = "idle" /\ sends < MaxSends
  /\ sends' = sends + 1
  /\ chunks' = n /\ whole' = w
  /\ wire' = << >> /\ zlps' = {}
  /\ IF connected
       THEN /\ pc' = "loop"
            /\ p' = 0 /\ inFlight' = 0 /\ slot' = 0 /\ totalSent' = 0
            /\ result' = "none"
            /\ UNCHANGED <<connected, slots>>
       ELSE /\ result' = "fail"
            /\ UNCHANGED <<connected, pc, p, inFlight, slot, totalSent, slots>>
  /\ UNCHANGED <<impl, pending, completed, gone>>

\* Defect: one URB too many.
MaySubmitOneMore == p < chunks /\ inFlight <= Depth

\* The condition of the inner loop.
MaySubmit == p < chunks /\ inFlight < Depth

\* submit_one is accepted.
Submit ==
  /\ pc = "loop" /\ MaySubmit /\ ~gone
  /\ pending' = Append(pending, [slot |-> slot % Depth, chunk |-> p + 1, ok |-> FALSE])
  /\ slots' = [slots EXCEPT ![slot % Depth] = TRUE]
  /\ p' = p + 1 /\ inFlight' = inFlight + 1 /\ slot' = slot + 1
  /\ UNCHANGED <<connected, pc, totalSent, result, call, completed, gone, bus>>

\* Defect: a refused URB is tried again for ever.
SubmitFailsRetries ==
  /\ pc = "loop" /\ MaySubmit
  /\ connected' = (connected /\ ~gone)
  /\ UNCHANGED <<pc, p, inFlight, slot, totalSent, slots, result, call, kernel>>

\* submit_one fails: the device is gone or the kernel is out of memory.
SubmitFails ==
  /\ pc = "loop" /\ MaySubmit
  /\ connected' = (connected /\ ~gone)
  /\ pc' = "drain"
  /\ UNCHANGED <<p, inFlight, slot, totalSent, slots, result, call, kernel>>

\* Defect: the status of the URB is not looked at.
ReapIgnoresStatus ==
  /\ pc = "loop" /\ ~MaySubmit /\ inFlight > 0
  /\ completed # << >>
  /\ completed' = Tail(completed)
  /\ slots' = [slots EXCEPT ![Head(completed).slot] = FALSE]
  /\ totalSent' = totalSent + 1 /\ inFlight' = inFlight - 1
  /\ UNCHANGED <<connected, pc, p, slot, result, call, pending, gone, bus>>

\* reap_one gives the oldest completed URB; one that failed ends the send.
Reap ==
  /\ pc = "loop" /\ ~MaySubmit /\ inFlight > 0
  /\ completed # << >>
  /\ completed' = Tail(completed)
  /\ slots' = [slots EXCEPT ![Head(completed).slot] = FALSE]
  /\ IF Head(completed).ok
       THEN totalSent' = totalSent + 1 /\ inFlight' = inFlight - 1 /\ pc' = pc
       ELSE pc' = "drain" /\ UNCHANGED <<totalSent, inFlight>>
  /\ UNCHANGED <<connected, p, slot, result, call, pending, gone, bus>>

\* reap_one fails: older kernels hand nothing back once the device is gone.
ReapFails ==
  /\ pc = "loop" /\ ~MaySubmit /\ inFlight > 0
  /\ gone
  /\ connected' = FALSE /\ pc' = "drain"
  /\ UNCHANGED <<p, inFlight, slot, totalSent, slots, result, call, kernel>>

SendReturns ==
  /\ pc = "loop" /\ p = chunks /\ inFlight = 0
  /\ pc' = "idle" /\ result' = "ok"
  /\ UNCHANGED <<connected, p, inFlight, slot, totalSent, slots, call, kernel>>

-----------------------------------------------------------------------------
(***************************************************************************)
(* drain_out_urbs_, drain_: slot by slot, discard and reap.                *)
(***************************************************************************)
InFlightSlots == {s \in Slots : slots[s]}

\* The slot the loop is at.
Cursor == CHOOSE s \in InFlightSlots : \A t \in InFlightSlots : s <= t

\* Defect: the slots are reaped and no URB is discarded.
DiscardNothing ==
  /\ pc = "drain" /\ InFlightSlots # {}
  /\ pc' = "drainReap"
  /\ UNCHANGED <<connected, p, inFlight, slot, totalSent, slots, result, call, kernel>>

\* DISCARDURB, which fails for an URB that is complete.
Discard ==
  /\ pc = "drain" /\ InFlightSlots # {}
  /\ \/ \E i \in DOMAIN pending :
          /\ pending[i].slot = Cursor
          /\ completed' = Append(completed, pending[i]) /\ pending' = RemoveAt(pending, i)
     \/ /\ \A i \in DOMAIN pending : pending[i].slot # Cursor
        /\ UNCHANGED <<pending, completed>>
  /\ pc' = "drainReap"
  /\ UNCHANGED <<connected, p, inFlight, slot, totalSent, slots, result, call, gone, bus>>

\* REAPURB, which waits for an URB or fails when the device is gone.  It need
\* not be the URB of the slot.
DrainReap ==
  /\ pc = "drainReap"
  /\ \/ completed # << >> /\ completed' = Tail(completed)
     \/ gone /\ completed' = completed
  /\ slots' = [slots EXCEPT ![Cursor] = FALSE]
  /\ pc' = "drain"
  /\ UNCHANGED <<connected, p, inFlight, slot, totalSent, result, call, pending, gone, bus>>

SendFails ==
  /\ pc = "drain" /\ InFlightSlots = {}
  /\ pc' = "idle" /\ connected' = FALSE /\ result' = "fail"
  /\ UNCHANGED <<p, inFlight, slot, totalSent, slots, call, kernel>>

SenderStep ==
  \/ Submit \/ SubmitFails \/ Reap \/ ReapFails \/ SendReturns
  \/ Discard \/ DrainReap \/ SendFails

Next ==
  \/ \E n \in 1 .. MaxChunks, w \in BOOLEAN : Send(n, w)
  \/ SenderStep
  \/ Serve \/ Break \/ Disconnect

Spec == Init /\ [][Next]_vars

\* The sender runs, and the device takes every URB or refuses it in the end.
FairSpec == Spec /\ WF_vars(SenderStep) /\ WF_vars(Serve \/ Break)

-----------------------------------------------------------------------------
Urb == [slot : Slots, chunk : 1 .. MaxChunks, ok : BOOLEAN]

\* The type of every variable.
TypeOK ==
  /\ impl \in {"UsbFsConnection", "AndroidUsbTransport"}
  /\ connected \in BOOLEAN /\ pc \in {"idle", "loop", "drain", "drainReap"}
  /\ chunks \in 0 .. MaxChunks /\ whole \in BOOLEAN /\ p \in 0 .. MaxChunks
  /\ inFlight \in 0 .. Depth /\ slot \in 0 .. MaxChunks /\ totalSent \in 0 .. MaxChunks
  /\ slots \in [Slots -> BOOLEAN]
  /\ result \in {"none", "ok", "fail"} /\ sends \in 0 .. MaxSends
  /\ pending \in Seq(Urb) /\ completed \in Seq(Urb)
  /\ gone \in BOOLEAN /\ wire \in Seq(1 .. MaxChunks) /\ zlps \subseteq 1 .. MaxChunks

\* URBs the kernel holds, in either list.
Held == pending \o completed

\* "in_flight < kPipelineDepth makes sure that the slot is free": no two URBs
\* with the kernel share a slot.
SlotsAreFree == \A i, j \in DOMAIN Held : Held[i].slot = Held[j].slot => i = j

\* When send returns, the kernel serves no URB of the caller's buffer any more,
\* and only of a device that is gone may one be left to reap.
BufferReleased == pc = "idle" => pending = << >> /\ (completed = << >> \/ gone)

\* What the kernel holds is never written over: not its slots while a send
\* runs, and not the caller's buffer after it.
UrbsSound == TypeOK /\ SlotsAreFree /\ BufferReleased

\* The drain never waits for the device: after a discard there is an URB to reap.
DrainNeverWaits == pc = "drainReap" /\ ~gone => completed # << >>

\* A send that reports success delivered every chunk once and in order, and counted them
\* all.
SuccessIsComplete ==
  result = "ok" => wire = [i \in 1 .. chunks |-> i] /\ totalSent = chunks

\* Every call of send returns.
SendEnds == pc # "idle" ~> pc = "idle"

-----------------------------------------------------------------------------
\* The zero packet is asked for "on the last URB only", and the kernel adds it when the
\* length is a multiple of the packet size: so a buffer of whole packets is followed by an
\* empty one, and nothing else is.
LastUrbEndsTransfer ==
  impl = "UsbFsConnection" /\ result = "ok" => zlps = {c \in {chunks} : Filled(c)}
=============================================================================
