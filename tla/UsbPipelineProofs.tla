-------------------------- MODULE UsbPipelineProofs -------------------------
(***************************************************************************)
(* Proofs about UsbPipeline, for every depth of the pipeline and every     *)
(* number of chunks and sends: no slot is used while its URB is with the   *)
(* kernel, a send leaves nothing of the caller's buffer behind, and one    *)
(* that succeeds has delivered all of it.                                  *)
(***************************************************************************)
EXTENDS UsbPipeline, FiniteSetTheorems, SequenceTheorems, TLAPS

\* Quotient and remainder of an index computed modulo the size of a ring.
LEMMA DivMod ==
  ASSUME NEW n \in Nat, NEW m \in Nat \ {0}
  PROVE  /\ n \div m \in Nat /\ n % m \in 0 .. m - 1
         /\ n = m * (n \div m) + (n % m)
OBVIOUS

\* Distinct multiples of m are at least m apart.
LEMMA MulStep ==
  ASSUME NEW m \in Nat \ {0}, NEW g \in Nat, NEW h \in Nat, g < h
  PROVE  m * g + m <= m * h
<1>1. h - g \in Nat \ {0}
  OBVIOUS
<1>2. PICK e \in Nat : h = g + 1 + e
  <2>1. h - g - 1 \in Nat
    OBVIOUS
  <2> QED BY <2>1
<1>3. m * h = m * g + m + m * e
  BY <1>2
<1>4. m * e >= 0
  OBVIOUS
<1> QED BY <1>3, <1>4

\* Two counts less than one round apart have different ring indices.
LEMMA ModDistinct ==
  ASSUME NEW a \in Nat, NEW b \in Nat, NEW m \in Nat \ {0}, a < b, b < a + m
  PROVE  a % m # b % m
<1> SUFFICES ASSUME a % m = b % m PROVE FALSE
  OBVIOUS
<1> DEFINE g == a \div m
           h == b \div m
           r == a % m
<1>1. g \in Nat /\ h \in Nat /\ a = m * g + r /\ b = m * h + r /\ r \in 0 .. m - 1
  BY DivMod
<1> HIDE DEF g, h, r
<1>2. m * g \in Nat /\ m * h \in Nat
  BY <1>1
<1>3. m * g < m * h /\ m * h < m * g + m
  <2> DEFINE x == m * g
             y == m * h
  <2>1. x \in Nat /\ y \in Nat /\ r \in Nat /\ a = x + r /\ b = y + r
    BY <1>1, <1>2
  <2> HIDE DEF x, y
  <2>2. x < y /\ y < x + m
    BY <2>1
  <2> QED BY <2>2 DEF x, y
<1>4. ~(g < h)
  BY <1>1, <1>3, <1>2, MulStep
<1>5. ~(h < g)
  BY <1>1, <1>3, <1>2, MulStep
<1> QED BY <1>1, <1>3, <1>4, <1>5, <1>2

Counters ==
  /\ impl \in {"UsbFsConnection", "AndroidUsbTransport"}
  /\ pc \in {"idle", "loop", "drain", "drainReap"}
  /\ chunks \in 0 .. MaxChunks /\ p \in 0 .. MaxChunks /\ inFlight \in 0 .. Depth
  /\ slot = p /\ totalSent \in 0 .. p
  /\ result \in {"none", "ok", "fail"} /\ sends \in 0 .. MaxSends

Empties == zlps \subseteq 1 .. MaxChunks

Flags == connected \in BOOLEAN /\ whole \in BOOLEAN /\ gone \in BOOLEAN

Kernel ==
  /\ slots \in [Slots -> BOOLEAN]
  /\ pending \in Seq(Urb) /\ completed \in Seq(Urb) /\ wire \in Seq(1 .. MaxChunks)

\* The slots of the URBs with the kernel are different, and those of the URBs that are not
\* served are flagged.
Apart ==
  /\ \A i, j \in 1 .. Len(pending) : pending[i].slot = pending[j].slot => i = j
  /\ \A i, j \in 1 .. Len(completed) : completed[i].slot = completed[j].slot => i = j
  /\ \A i \in 1 .. Len(completed), j \in 1 .. Len(pending) : completed[i].slot # pending[j].slot
Flagged == \A i \in 1 .. Len(pending) : slots[pending[i].slot]

\* In the loop the kernel has the chunks from totalSent to p, in order, each in the slot of
\* its number, and no other slot is flagged.
Positions ==
  /\ totalSent + inFlight = p /\ p <= chunks
  /\ inFlight = Len(completed) + Len(pending)
  /\ \A i \in 1 .. Len(completed) : completed[i].slot = (totalSent + i - 1) % Depth
  /\ \A i \in 1 .. Len(pending) : pending[i].slot = (totalSent + Len(completed) + i - 1) % Depth
  /\ \A s \in Slots : slots[s] <=> \E k \in totalSent .. p - 1 : s = k % Depth
InLoop == pc = "loop" => Positions

\* The flags count the URBs to reap, as long as the device is there.
Count == ~gone => Cardinality(InFlightSlots) = Len(pending) + Len(completed)

AtCursor == pc = "drainReap" =>
  InFlightSlots # {} /\ \A i \in 1 .. Len(pending) : pending[i].slot # Cursor

Idle == pc = "idle" =>
  /\ InFlightSlots = {} /\ pending = << >>
  /\ completed = << >> \/ (gone /\ ~connected)

IInv == Counters /\ Flags /\ Empties /\ Kernel /\ Apart /\ Flagged /\ InLoop /\ Count /\ AtCursor /\ Idle

-----------------------------------------------------------------------------
\* A set of slots that is not empty has a first one: a slot has less than Depth before it.
LEMMA FirstSlot ==
  ASSUME NEW T \in SUBSET Slots, T # {}
  PROVE  \E s \in T : \A t \in T : s <= t
<1> SUFFICES ASSUME \A s \in T : \E t \in T : ~(s <= t) PROVE FALSE
  OBVIOUS
<1> DEFINE D == {x \in Slots : \E t \in T : t <= x}
           pred == [x \in D |-> x - 1]
<1>1. Slots \subseteq Int /\ IsFiniteSet(Slots) /\ Depth \in Nat /\ Depth > 0
  BY DepthAssumption, FS_Interval DEF Slots
<1>2. IsFiniteSet(D) /\ IsFiniteSet(D \ {Depth - 1})
  BY <1>1, FS_Subset
<1>3. Depth - 1 \in D
  <2>1. PICK t \in T : TRUE
    OBVIOUS
  <2>2. t <= Depth - 1 /\ Depth - 1 \in Slots
    BY <1>1, <2>1 DEF Slots
  <2>3. QED
    BY <2>2
<1>4. Cardinality(D \ {Depth - 1}) < Cardinality(D)
  <2>1. Cardinality(D \ {Depth - 1}) = Cardinality(D) - 1 /\ Cardinality(D) \in Nat
    BY <1>2, <1>3, FS_RemoveElement, FS_CardinalityType
  <2>2. QED
    BY <2>1
<1>5. ASSUME NEW x \in D PROVE x - 1 \in D \ {Depth - 1}
  <2>1. PICK t \in T : t <= x
    OBVIOUS
  <2>2. PICK r \in T : ~(t <= r)
    OBVIOUS
  <2>3. r <= x - 1 /\ x - 1 \in Slots /\ x - 1 # Depth - 1
    BY <1>1, <2>1, <2>2 DEF Slots
  <2>4. QED
    BY <2>2, <2>3
<1>6. pred \in [D -> D \ {Depth - 1}]
  BY <1>5
<1>7. PICK x, y \in D : x # y /\ pred[x] = pred[y]
  <2> HIDE DEF D, pred
  <2> QED BY <1>2, <1>4, <1>6, FS_PigeonHole
<1>8. QED
  BY <1>1, <1>7

\* The cursor of the drain is at a flagged slot.
LEMMA CursorFlagged == ASSUME InFlightSlots # {} PROVE Cursor \in InFlightSlots
<1>1. InFlightSlots \in SUBSET Slots
  BY DEF InFlightSlots
<1>2. QED
  BY <1>1, FirstSlot DEF Cursor

\* What a step does to the URBs with the kernel: it takes the next one,
Taken ==
  /\ Len(pending) > 0 /\ Len(pending') = Len(pending) - 1
  /\ Len(completed') = Len(completed) + 1
  /\ \A i \in 1 .. Len(pending') : pending'[i].slot = pending[i + 1].slot
  /\ \A i \in 1 .. Len(completed) : completed'[i].slot = completed[i].slot
  /\ completed'[Len(completed) + 1].slot = pending[1].slot
LEMMA KernelTakes ==
  ASSUME Kernel, Serve \/ Break
  PROVE  /\ Taken /\ pending' \in Seq(Urb) /\ completed' \in Seq(Urb) /\ wire' \in Seq(1 .. MaxChunks)
<1> USE DEF Kernel
<1>1. pending # << >> /\ pending' = Tail(pending) /\ Len(pending) > 0 /\ Head(pending) \in Urb
  BY DEF Serve, Break
<1>2. PICK u \in Urb : u.slot = Head(pending).slot /\ completed' = Append(completed, u)
  <2>1. [Head(pending) EXCEPT !.ok = TRUE] \in Urb
    BY <1>1 DEF Urb
  <2>2. [Head(pending) EXCEPT !.ok = TRUE].slot = Head(pending).slot
    BY <1>1 DEF Urb
  <2>3. QED
    BY <1>1, <2>1, <2>2 DEF Serve, Break
<1>3. wire' \in Seq(1 .. MaxChunks)
  <2>1. Head(pending).chunk \in 1 .. MaxChunks
    BY <1>1 DEF Urb
  <2>2. CASE Serve
    BY <2>1, <2>2 DEF Serve
  <2>3. CASE Break
    BY <2>3 DEF Break, bus
  <2>4. QED
    BY <2>2, <2>3
<1>4. Taken
  BY <1>1, <1>2 DEF Taken
<1>5. QED
  BY <1>1, <1>2, <1>3, <1>4

\* it gives all of them back,
LEMMA KernelGivesBack ==
  ASSUME Kernel, Disconnect
  PROVE  /\ pending' = << >> /\ completed' \in Seq(Urb)
         /\ Len(completed') = Len(completed) + Len(pending)
         /\ \A i \in 1 .. Len(completed) : completed'[i] = completed[i]
         /\ \A i \in 1 .. Len(pending) : completed'[Len(completed) + i] = pending[i]
         /\ \A i \in 1 .. Len(completed') :
              \/ i \in 1 .. Len(completed)
              \/ \E j \in 1 .. Len(pending) : i = Len(completed) + j
<1>1. completed' = completed \o pending /\ pending' = << >>
  BY DEF Disconnect
<1>2. Len(completed') = Len(completed) + Len(pending) /\ completed' \in Seq(Urb)
  BY <1>1 DEF Kernel
<1>3. ASSUME NEW i \in 1 .. Len(completed'), i \notin 1 .. Len(completed)
      PROVE  \E j \in 1 .. Len(pending) : i = Len(completed) + j
  <2>1. i - Len(completed) \in 1 .. Len(pending) /\ i = Len(completed) + (i - Len(completed))
    BY <1>2, <1>3 DEF Kernel
  <2>2. QED
    BY <2>1
<1>4. \A i \in 1 .. Len(completed) : completed'[i] = completed[i]
  BY <1>1 DEF Kernel
<1>5. \A i \in 1 .. Len(pending) : completed'[Len(completed) + i] = pending[i]
  BY <1>1 DEF Kernel
<1>6. QED
  BY <1>1, <1>2, <1>3, <1>4, <1>5

\* it cancels one,
Cancelled(n) ==
  /\ Len(pending') = Len(pending) - 1 /\ Len(completed') = Len(completed) + 1
  /\ \A i \in 1 .. Len(pending') : pending'[i] = IF i < n THEN pending[i] ELSE pending[i + 1]
  /\ \A i \in 1 .. Len(completed) : completed'[i] = completed[i]
  /\ completed'[Len(completed) + 1] = pending[n]
LEMMA KernelCancels ==
  ASSUME Kernel, NEW n \in 1 .. Len(pending),
         completed' = Append(completed, pending[n]), pending' = RemoveAt(pending, n)
  PROVE  Cancelled(n) /\ pending' \in Seq(Urb) /\ completed' \in Seq(Urb)
<1> DEFINE a == SubSeq(pending, 1, n - 1)
           b == SubSeq(pending, n + 1, Len(pending))
<1>1. /\ a \in Seq(Urb) /\ Len(a) = n - 1 /\ \A i \in 1 .. n - 1 : a[i] = pending[i]
  BY DEF Kernel
<1>2. /\ b \in Seq(Urb) /\ Len(b) = Len(pending) - n
      /\ \A i \in 1 .. Len(pending) - n : b[i] = pending[n + i]
  BY DEF Kernel
<1>3. pending' = a \o b
  BY DEF RemoveAt
<1> HIDE DEF a, b
<1>4. Len(pending') = Len(pending) - 1 /\ pending' \in Seq(Urb)
  BY <1>1, <1>2, <1>3 DEF Kernel
<1>5. ASSUME NEW i \in 1 .. Len(pending')
      PROVE  pending'[i] = IF i < n THEN pending[i] ELSE pending[i + 1]
  <2>1. CASE i < n
    <3>1. i \in 1 .. n - 1 /\ i \in 1 .. Len(a)
      BY <1>1, <1>4, <2>1 DEF Kernel
    <3>2. (a \o b)[i] = a[i]
      BY <1>1, <1>2, <3>1
    <3>3. QED
      BY <1>1, <1>3, <2>1, <3>1, <3>2
  <2>2. CASE ~(i < n)
    <3>1. i - n + 1 \in 1 .. Len(pending) - n /\ n + (i - n + 1) = i + 1
      BY <1>4, <2>2 DEF Kernel
    <3>2. pending'[i] = b[i - n + 1]
      BY <1>1, <1>2, <1>3, <1>4, <2>2 DEF Kernel
    <3>3. QED
      BY <1>2, <2>2, <3>1, <3>2
  <2>3. QED
    BY <2>1, <2>2
<1>6. QED
  BY <1>4, <1>5 DEF Kernel, Cancelled

\* and hands the oldest one back.
Reaped ==
  /\ Len(completed) > 0 /\ Len(completed') = Len(completed) - 1
  /\ \A i \in 1 .. Len(completed') : completed'[i] = completed[i + 1]
LEMMA KernelHandsBack ==
  ASSUME Kernel, completed # << >>, completed' = Tail(completed)
  PROVE  Reaped /\ completed' \in Seq(Urb) /\ Head(completed) = completed[1] /\ Head(completed) \in Urb
BY DEF Kernel, Reaped
-----------------------------------------------------------------------------
\* Every step keeps the types of the counters.
LEMMA StepCounters == IInv /\ [Next]_vars => Counters'
<1> SUFFICES ASSUME IInv, [Next]_vars PROVE Counters'
  OBVIOUS
<1> USE BoundsAssumption, DepthAssumption DEF IInv, Counters, sender, call, kernel
<1>1. ASSUME NEW n \in 1 .. MaxChunks, NEW w \in BOOLEAN, Send(n, w) PROVE Counters'
  BY <1>1 DEF Send
<1>2. CASE Submit
  <2>1. p' \in 0 .. MaxChunks /\ inFlight' \in 0 .. Depth /\ slot' = p' /\ totalSent' \in 0 .. p'
    BY <1>2 DEF Submit, MaySubmit
  <2>2. QED
    BY <1>2, <2>1 DEF Submit
<1>3. CASE SubmitFails
  BY <1>3 DEF SubmitFails
<1>4. CASE Reap
  <2>1. totalSent + 1 <= p /\ inFlight - 1 \in 0 .. Depth
    BY <1>4 DEF Reap, InLoop, Positions
  <2>2. QED
    BY <1>4, <2>1 DEF Reap
<1>5. CASE ReapFails
  BY <1>5 DEF ReapFails
<1>6. CASE SendReturns
  BY <1>6 DEF SendReturns
<1>7. CASE Discard
  BY <1>7 DEF Discard
<1>8. CASE DrainReap
  BY <1>8 DEF DrainReap
<1>9. CASE SendFails
  BY <1>9 DEF SendFails
<1>10. CASE Serve \/ Break
  BY <1>10 DEF Serve, Break
<1>11. CASE Disconnect
  BY <1>11 DEF Disconnect
<1>12. CASE UNCHANGED vars
  BY <1>12 DEF vars
<1>13. QED
  BY <1>1, <1>2, <1>3, <1>4, <1>5, <1>6, <1>7, <1>8, <1>9, <1>10, <1>11, <1>12
     DEF Next, SenderStep

\* The flags stay flags.
LEMMA StepFlags == IInv /\ [Next]_vars => Flags'
<1> SUFFICES ASSUME IInv, [Next]_vars PROVE Flags'
  OBVIOUS
<1>1. connected' = connected \/ connected' = FALSE \/ connected' = (connected /\ ~gone)
  BY DEF Next, SenderStep, Send, Submit, SubmitFails, Reap, ReapFails, SendReturns, Discard, DrainReap,
     SendFails, Serve, Break, Disconnect, vars, sender, call, kernel
<1>2. whole' = whole \/ whole' \in BOOLEAN
  BY DEF Next, SenderStep, Send, Submit, SubmitFails, Reap, ReapFails, SendReturns, Discard, DrainReap,
     SendFails, Serve, Break, Disconnect, vars, sender, call, kernel
<1>3. gone' = gone \/ gone' = TRUE
  BY DEF Next, SenderStep, Send, Submit, SubmitFails, Reap, ReapFails, SendReturns, Discard, DrainReap,
     SendFails, Serve, Break, Disconnect, vars, sender, call, kernel
<1>4. QED
  BY <1>1, <1>2, <1>3, Zenon DEF IInv, Flags

\* Empty packets follow chunks.
LEMMA StepEmpties == IInv /\ [Next]_vars => Empties'
<1> SUFFICES ASSUME IInv, [Next]_vars PROVE Empties'
  OBVIOUS
<1>1. CASE Serve
  <2>1. Head(pending) \in Urb
    BY <1>1 DEF Serve, IInv, Kernel
  <2>2. Head(pending).chunk \in 1 .. MaxChunks
    BY <2>1 DEF Urb
  <2>3. zlps' \subseteq zlps \cup {Head(pending).chunk}
    BY <1>1 DEF Serve
  <2>4. QED
    BY <2>2, <2>3 DEF IInv, Empties
<1>2. CASE ~Serve
  <2>1. zlps' = zlps \/ zlps' = {}
    BY <1>2 DEF Next, SenderStep, Send, Submit, SubmitFails, Reap, ReapFails, SendReturns, Discard,
                DrainReap, SendFails, Break, Disconnect, vars, sender, call, kernel, bus
  <2>2. QED
    BY <2>1 DEF IInv, Empties
<1>3. QED
  BY <1>1, <1>2

\* The slot of the next chunk is a slot.
LEMMA NextSlot == ASSUME Counters PROVE slot % Depth \in Slots /\ slot \in Nat
BY DivMod, DepthAssumption, BoundsAssumption DEF Counters, Slots

\* Every step keeps the types of what the kernel holds.
LEMMA StepKernel == IInv /\ [Next]_vars => Kernel'
<1> SUFFICES ASSUME IInv, [Next]_vars PROVE Kernel'
  OBVIOUS
<1> USE DEF IInv, Kernel, sender, call, kernel, bus
<1>1. ASSUME NEW n \in 1 .. MaxChunks, NEW w \in BOOLEAN, Send(n, w) PROVE Kernel'
  BY <1>1 DEF Send
<1>2. CASE Submit
  <2>1. [slot |-> slot % Depth, chunk |-> p + 1, ok |-> FALSE] \in Urb
    BY <1>2, NextSlot, BoundsAssumption DEF Submit, MaySubmit, Counters, Urb
  <2>2. pending' \in Seq(Urb)
    BY <1>2, <2>1 DEF Submit
  <2>3. slots' \in [Slots -> BOOLEAN]
    BY <1>2 DEF Submit
  <2>4. QED
    BY <1>2, <2>2, <2>3 DEF Submit
<1>3. CASE SubmitFails
  BY <1>3 DEF SubmitFails
<1>4. CASE Reap
  <2>1. completed' \in Seq(Urb)
    BY <1>4, KernelHandsBack DEF Reap
  <2>2. slots' \in [Slots -> BOOLEAN]
    BY <1>4 DEF Reap
  <2>3. QED
    BY <1>4, <2>1, <2>2 DEF Reap
<1>5. CASE ReapFails
  BY <1>5 DEF ReapFails
<1>6. CASE SendReturns
  BY <1>6 DEF SendReturns
<1>7. CASE Discard
  <2>1. pending' \in Seq(Urb) /\ completed' \in Seq(Urb)
    BY <1>7, KernelCancels DEF Discard
  <2>2. QED
    BY <1>7, <2>1 DEF Discard
<1>8. CASE DrainReap
  <2>1. completed' \in Seq(Urb)
    BY <1>8, KernelHandsBack DEF DrainReap
  <2>2. slots' \in [Slots -> BOOLEAN]
    BY <1>8 DEF DrainReap
  <2>3. QED
    BY <1>8, <2>1, <2>2 DEF DrainReap
<1>9. CASE SendFails
  BY <1>9 DEF SendFails
<1>10. CASE Serve \/ Break
  <2>1. pending' \in Seq(Urb) /\ completed' \in Seq(Urb) /\ wire' \in Seq(1 .. MaxChunks)
    BY <1>10, KernelTakes
  <2>2. QED
    BY <1>10, <2>1 DEF Serve, Break
<1>11. CASE Disconnect
  <2>1. completed' \in Seq(Urb)
    BY <1>11, KernelGivesBack
  <2>2. pending' = << >> /\ << >> \in Seq(Urb)
    BY <1>11, KernelGivesBack
  <2>3. QED
    BY <1>11, <2>1, <2>2 DEF Disconnect
<1>12. CASE UNCHANGED vars
  BY <1>12 DEF vars
<1>13. QED
  BY <1>1, <1>2, <1>3, <1>4, <1>5, <1>6, <1>7, <1>8, <1>9, <1>10, <1>11, <1>12
     DEF Next, SenderStep

\* In the loop the next chunk goes to a slot that no URB has.
LEMMA NextSlotFree ==
  ASSUME IInv, pc = "loop", MaySubmit
  PROVE  /\ \A i \in 1 .. Len(pending) : pending[i].slot # slot % Depth
         /\ \A i \in 1 .. Len(completed) : completed[i].slot # slot % Depth
         /\ ~slots[slot % Depth]
<1>1. /\ totalSent \in Nat /\ p \in Nat /\ slot = p /\ p < totalSent + Depth /\ Depth \in Nat \ {0}
      /\ Len(completed) \in Nat /\ Len(pending) \in Nat
      /\ totalSent + Len(completed) + Len(pending) = p
  BY DepthAssumption, BoundsAssumption
     DEF IInv, Counters, Kernel, InLoop, Positions, MaySubmit
<1>2. ASSUME NEW k \in totalSent .. p - 1 PROVE k % Depth # p % Depth
  <2>1. k \in Nat /\ k < p /\ p < k + Depth
    BY <1>1
  <2>2. QED
    BY <1>1, <2>1, ModDistinct
<1>3. ASSUME NEW i \in 1 .. Len(pending) PROVE pending[i].slot # slot % Depth
  <2>1. totalSent + Len(completed) + i - 1 \in totalSent .. p - 1
    BY <1>1
  <2>2. pending[i].slot = (totalSent + Len(completed) + i - 1) % Depth
    BY DEF IInv, InLoop, Positions
  <2>3. QED
    BY <1>1, <1>2, <2>1, <2>2
<1>4. ASSUME NEW i \in 1 .. Len(completed) PROVE completed[i].slot # slot % Depth
  <2>1. totalSent + i - 1 \in totalSent .. p - 1
    BY <1>1
  <2>2. completed[i].slot = (totalSent + i - 1) % Depth
    BY DEF IInv, InLoop, Positions
  <2>3. QED
    BY <1>1, <1>2, <2>1, <2>2
<1>5. slot % Depth \in Slots
  BY NextSlot DEF IInv
<1>6. slots[slot % Depth] <=> \E k \in totalSent .. p - 1 : slot % Depth = k % Depth
  BY <1>5 DEF IInv, InLoop, Positions
<1>7. ~slots[slot % Depth]
  BY <1>1, <1>2, <1>6
<1>8. QED
  BY <1>3, <1>4, <1>7

\* What submit_one adds to the URBs with the kernel.
LEMMA SubmitAdds ==
  ASSUME Kernel, Submit
  PROVE  /\ Len(pending') = Len(pending) + 1 /\ completed' = completed
         /\ \A i \in 1 .. Len(pending) : pending'[i] = pending[i]
         /\ pending'[Len(pending) + 1].slot = slot % Depth
<1> DEFINE u == [slot |-> slot % Depth, chunk |-> p + 1, ok |-> FALSE]
<1>1. pending' = Append(pending, u) /\ completed' = completed /\ u.slot = slot % Depth
  BY DEF Submit
<1> HIDE DEF u
<1>2. QED
  BY <1>1 DEF Kernel

\* Taking the first of the URBs to reap leaves the others in the slots they had.
LEMMA ReapedApart ==
  ASSUME Apart, Reaped, pending' = pending, Len(completed) \in Nat
  PROVE  Apart'
<1>1. \A i \in 1 .. Len(completed') : i + 1 \in 1 .. Len(completed)
  BY DEF Reaped
<1>2. \A i \in 1 .. Len(completed') : completed'[i] = completed[i + 1]
  BY DEF Reaped
<1>3. ASSUME NEW i \in 1 .. Len(completed'), NEW j \in 1 .. Len(completed'),
             completed'[i].slot = completed'[j].slot
      PROVE  i = j
  <2>1. completed[i + 1].slot = completed[j + 1].slot
    BY <1>2, <1>3
  <2>2. i + 1 = j + 1
    BY <1>1, <2>1 DEF Apart
  <2>3. QED
    BY <2>2
<1>4. ASSUME NEW i \in 1 .. Len(completed'), NEW j \in 1 .. Len(pending)
      PROVE  completed'[i].slot # pending[j].slot
  <2>1. completed[i + 1].slot # pending[j].slot
    BY <1>1 DEF Apart
  <2>2. QED
    BY <1>2, <2>1
<1>5. QED
  BY <1>3, <1>4 DEF Apart

\* No step puts two URBs into one slot.
LEMMA StepApart == IInv /\ [Next]_vars => Apart'
<1> SUFFICES ASSUME IInv, [Next]_vars PROVE Apart'
  OBVIOUS
<1> USE DEF IInv, Apart, sender, call, kernel
<1>1. ASSUME NEW n \in 1 .. MaxChunks, NEW w \in BOOLEAN, Send(n, w) PROVE Apart'
  BY <1>1 DEF Send
<1>2. CASE Submit
  <2>1. pc = "loop" /\ MaySubmit
    BY <1>2 DEF Submit
  <2>2. Len(pending) \in Nat
    BY DEF Kernel
  <2>3. /\ \A i \in 1 .. Len(pending) : pending[i].slot # slot % Depth
        /\ \A i \in 1 .. Len(completed) : completed[i].slot # slot % Depth
    BY <2>1, NextSlotFree
  <2>4. /\ Len(pending') = Len(pending) + 1 /\ completed' = completed
        /\ \A i \in 1 .. Len(pending) : pending'[i] = pending[i]
        /\ pending'[Len(pending) + 1].slot = slot % Depth
    BY <1>2, SubmitAdds
  <2>5. \A i \in 1 .. Len(pending') : i \in 1 .. Len(pending) \/ i = Len(pending) + 1
    BY <2>2, <2>4
  <2>6. \A i, j \in 1 .. Len(pending') : pending'[i].slot = pending'[j].slot => i = j
    BY <2>3, <2>4, <2>5
  <2>7. \A i \in 1 .. Len(completed'), j \in 1 .. Len(pending') : completed'[i].slot # pending'[j].slot
    BY <2>3, <2>4, <2>5
  <2>8. QED
    BY <2>4, <2>6, <2>7
<1>3. CASE SubmitFails
  BY <1>3 DEF SubmitFails
<1>4. CASE Reap
  <2>1. Reaped /\ pending' = pending /\ Len(completed) \in Nat
    BY <1>4, KernelHandsBack DEF Reap, Kernel
  <2>2. QED
    BY <2>1, ReapedApart
<1>5. CASE ReapFails
  BY <1>5 DEF ReapFails
<1>6. CASE SendReturns
  BY <1>6 DEF SendReturns
<1>7. CASE Discard
  <2>1. CASE UNCHANGED <<pending, completed>>
    BY <2>1
  <2>2. CASE \E i \in DOMAIN pending :
                completed' = Append(completed, pending[i]) /\ pending' = RemoveAt(pending, i)
    <3>1. PICK i \in 1 .. Len(pending) : Cancelled(i)
      BY <2>2, KernelCancels DEF Kernel
    <3>2. Len(pending) \in Nat /\ Len(completed) \in Nat
      BY DEF Kernel
    <3>3. \A j \in 1 .. Len(pending') :
            \/ j < i /\ j \in 1 .. Len(pending) /\ pending'[j] = pending[j]
            \/ j >= i /\ j + 1 \in 1 .. Len(pending) /\ pending'[j] = pending[j + 1]
      BY <3>1, <3>2 DEF Cancelled
    <3>4. \A j \in 1 .. Len(completed') :
            \/ j \in 1 .. Len(completed) /\ completed'[j] = completed[j]
            \/ j = Len(completed) + 1 /\ completed'[j] = pending[i]
      BY <3>1, <3>2 DEF Cancelled
    <3>5. ASSUME NEW j \in 1 .. Len(pending'), NEW k \in 1 .. Len(pending'),
                 pending'[j].slot = pending'[k].slot
          PROVE  j = k
      <4>1. PICK a \in 1 .. Len(pending) :
              pending'[j] = pending[a] /\ ((j < i /\ a = j) \/ (j >= i /\ a = j + 1))
        BY <3>3
      <4>2. PICK b \in 1 .. Len(pending) :
              pending'[k] = pending[b] /\ ((k < i /\ b = k) \/ (k >= i /\ b = k + 1))
        BY <3>3
      <4>3. a = b
        BY <3>5, <4>1, <4>2
      <4>4. QED
        BY <3>1, <4>1, <4>2, <4>3
    <3>6. \A j, k \in 1 .. Len(completed') : completed'[j].slot = completed'[k].slot => j = k
      BY <3>4
    <3>7. \A j \in 1 .. Len(completed'), k \in 1 .. Len(pending') : completed'[j].slot # pending'[k].slot
      <4>1. ASSUME NEW j \in 1 .. Len(completed'), NEW k \in 1 .. Len(pending')
            PROVE  completed'[j].slot # pending'[k].slot
        <5>1. PICK b \in 1 .. Len(pending) : pending'[k] = pending[b] /\ b # i
          BY <3>3
        <5>2. CASE j \in 1 .. Len(completed) /\ completed'[j] = completed[j]
          BY <5>1, <5>2
        <5>3. CASE completed'[j] = pending[i]
          BY <5>1, <5>3
        <5>4. QED
          BY <3>4, <5>2, <5>3
      <4>2. QED
        BY <4>1
    <3>8. QED
      BY <3>5, <3>6, <3>7
  <2>3. QED
    BY <1>7, <2>1, <2>2 DEF Discard
<1>8. CASE DrainReap
  <2>1. CASE completed' = completed
    BY <1>8, <2>1 DEF DrainReap
  <2>2. CASE completed # << >> /\ completed' = Tail(completed)
    <3>1. Reaped /\ pending' = pending /\ Len(completed) \in Nat
      BY <1>8, <2>2, KernelHandsBack DEF DrainReap, Kernel
    <3>2. QED
      BY <3>1, ReapedApart
  <2>3. QED
    BY <1>8, <2>1, <2>2 DEF DrainReap
<1>9. CASE SendFails
  BY <1>9 DEF SendFails
<1>10. CASE Serve \/ Break
  <2>1. Taken /\ Len(pending) \in Nat /\ Len(completed) \in Nat
    BY <1>10, KernelTakes DEF Kernel
  <2>2. \A j \in 1 .. Len(pending') : j + 1 \in 1 .. Len(pending) /\ pending'[j].slot = pending[j + 1].slot
    BY <2>1 DEF Taken
  <2>3. \A j \in 1 .. Len(completed') :
          \/ j \in 1 .. Len(completed) /\ completed'[j].slot = completed[j].slot
          \/ j = Len(completed) + 1 /\ completed'[j].slot = pending[1].slot
    BY <2>1 DEF Taken
  <2>4. 1 \in 1 .. Len(pending)
    BY <2>1 DEF Taken
  <2>5. \A j, k \in 1 .. Len(pending') : pending'[j].slot = pending'[k].slot => j = k
    BY <2>1, <2>2
  <2>6. \A j, k \in 1 .. Len(completed') : completed'[j].slot = completed'[k].slot => j = k
    BY <2>3, <2>4
  <2>7. ASSUME NEW j \in 1 .. Len(completed'), NEW k \in 1 .. Len(pending')
        PROVE  completed'[j].slot # pending'[k].slot
    <3>1. k + 1 # 1 /\ k + 1 \in 1 .. Len(pending) /\ pending'[k].slot = pending[k + 1].slot
      BY <2>1, <2>2
    <3>2. QED
      BY <2>3, <2>4, <3>1
  <2>8. QED
    BY <2>5, <2>6, <2>7
<1>11. CASE Disconnect
  <2>1. Len(pending) \in Nat /\ Len(completed) \in Nat
    BY DEF Kernel
  <2>2. Len(pending') = 0
    BY <1>11, KernelGivesBack
  <2>3. ASSUME NEW i \in 1 .. Len(completed')
        PROVE  \/ i \in 1 .. Len(completed) /\ completed'[i] = completed[i]
               \/ \E j \in 1 .. Len(pending) : i = Len(completed) + j /\ completed'[i] = pending[j]
    BY <1>11, KernelGivesBack
  <2>4. ASSUME NEW i \in 1 .. Len(completed'), NEW j \in 1 .. Len(completed'),
               completed'[i].slot = completed'[j].slot
        PROVE  i = j
    <3>1. CASE i \in 1 .. Len(completed) /\ completed'[i] = completed[i]
      <4>1. CASE j \in 1 .. Len(completed) /\ completed'[j] = completed[j]
        BY <2>4, <3>1, <4>1
      <4>2. CASE \E b \in 1 .. Len(pending) : j = Len(completed) + b /\ completed'[j] = pending[b]
        BY <2>4, <3>1, <4>2
      <4>3. QED
        BY <2>3, <4>1, <4>2
    <3>2. CASE \E a \in 1 .. Len(pending) : i = Len(completed) + a /\ completed'[i] = pending[a]
      <4>1. CASE j \in 1 .. Len(completed) /\ completed'[j] = completed[j]
        BY <2>4, <3>2, <4>1
      <4>2. CASE \E b \in 1 .. Len(pending) : j = Len(completed) + b /\ completed'[j] = pending[b]
        BY <2>4, <3>2, <4>2
      <4>3. QED
        BY <2>3, <4>1, <4>2
    <3>3. QED
      BY <2>3, <3>1, <3>2
  <2>5. QED
    BY <2>2, <2>4
<1>12. CASE UNCHANGED vars
  BY <1>12 DEF vars
<1>13. QED
  BY <1>1, <1>2, <1>3, <1>4, <1>5, <1>6, <1>7, <1>8, <1>9, <1>10, <1>11, <1>12
     DEF Next, SenderStep

\* The slot of an URB that is not served is a slot, and flagged.
LEMMA PendingSlot ==
  ASSUME IInv, NEW i \in 1 .. Len(pending)
  PROVE  pending[i].slot \in Slots /\ slots[pending[i].slot]
<1>1. pending[i] \in Urb
  BY DEF IInv, Kernel
<1>2. QED
  BY <1>1 DEF IInv, Flagged, Urb

\* The slot of an URB that is not served stays flagged.
LEMMA StepFlagged == IInv /\ [Next]_vars => Flagged'
<1> SUFFICES ASSUME IInv, [Next]_vars PROVE Flagged'
  OBVIOUS
<1> USE DEF IInv, Flagged, sender, call, kernel
<1>1. ASSUME NEW n \in 1 .. MaxChunks, NEW w \in BOOLEAN, Send(n, w) PROVE Flagged'
  <2>1. CASE connected
    <3>1. pending = << >> /\ pending' = pending
      BY <1>1 DEF Send, Idle
    <3>2. QED
      BY <3>1
  <2>2. CASE ~connected
    BY <1>1, <2>2 DEF Send
  <2>3. QED
    BY <2>1, <2>2
<1>2. CASE Submit
  <2>1. slots' = [slots EXCEPT ![slot % Depth] = TRUE]
    BY <1>2 DEF Submit
  <2>2. ASSUME NEW i \in 1 .. Len(pending') PROVE slots'[pending'[i].slot]
    <3>1. CASE i \in 1 .. Len(pending)
      <4>1. pending'[i] = pending[i] /\ pending[i].slot \in Slots /\ slots[pending[i].slot]
        BY <1>2, <3>1, SubmitAdds, PendingSlot
      <4>2. QED
        BY <2>1, <4>1 DEF Kernel
    <3>2. CASE i = Len(pending) + 1
      <4>1. pending'[i].slot = slot % Depth /\ slot % Depth \in Slots
        BY <1>2, <3>2, SubmitAdds, NextSlot
      <4>2. QED
        BY <2>1, <4>1 DEF Kernel
    <3>3. QED
      BY <1>2, <3>1, <3>2, SubmitAdds DEF Kernel
  <2>3. QED
    BY <2>2
<1>3. CASE SubmitFails
  BY <1>3 DEF SubmitFails
<1>4. CASE Reap
  <2>1. completed # << >> /\ pending' = pending /\ slots' = [slots EXCEPT ![Head(completed).slot] = FALSE]
    BY <1>4 DEF Reap
  <2>2. Head(completed) = completed[1] /\ 1 \in 1 .. Len(completed)
    BY <2>1 DEF Kernel
  <2>3. ASSUME NEW i \in 1 .. Len(pending) PROVE slots'[pending[i].slot]
    <3>1. pending[i].slot # Head(completed).slot
      BY <2>2 DEF Apart
    <3>2. pending[i].slot \in Slots /\ slots[pending[i].slot]
      BY PendingSlot
    <3>3. QED
      BY <2>1, <3>1, <3>2 DEF Kernel
  <2>4. QED
    BY <2>1, <2>3
<1>5. CASE ReapFails
  BY <1>5 DEF ReapFails
<1>6. CASE SendReturns
  BY <1>6 DEF SendReturns
<1>7. CASE Discard
  <2>1. CASE UNCHANGED <<pending, completed>>
    BY <1>7, <2>1 DEF Discard
  <2>2. CASE \E i \in DOMAIN pending :
                completed' = Append(completed, pending[i]) /\ pending' = RemoveAt(pending, i)
    <3>1. PICK i \in 1 .. Len(pending) : Cancelled(i)
      BY <2>2, KernelCancels DEF Kernel
    <3>2. \A j \in 1 .. Len(pending') : \E k \in 1 .. Len(pending) : pending'[j] = pending[k]
      BY <3>1 DEF Cancelled, Kernel
    <3>3. slots' = slots
      BY <1>7 DEF Discard
    <3>4. QED
      BY <3>2, <3>3
  <2>3. QED
    BY <1>7, <2>1, <2>2 DEF Discard
<1>8. CASE DrainReap
  <2>1. pc = "drainReap" /\ pending' = pending /\ slots' = [slots EXCEPT ![Cursor] = FALSE]
    BY <1>8 DEF DrainReap
  <2>2. ASSUME NEW i \in 1 .. Len(pending) PROVE slots'[pending[i].slot]
    <3>1. pending[i].slot # Cursor
      BY <2>1 DEF AtCursor
    <3>2. pending[i].slot \in Slots /\ slots[pending[i].slot]
      BY PendingSlot
    <3>3. QED
      BY <2>1, <3>1, <3>2 DEF Kernel
  <2>3. QED
    BY <2>1, <2>2
<1>9. CASE SendFails
  BY <1>9 DEF SendFails
<1>10. CASE Serve \/ Break
  <2>1. Taken /\ Len(pending) \in Nat /\ slots' = slots
    BY <1>10, KernelTakes DEF Kernel, Serve, Break
  <2>2. QED
    BY <2>1 DEF Taken
<1>11. CASE Disconnect
  <2>1. Len(pending') = 0
    BY <1>11, KernelGivesBack
  <2>2. QED
    BY <2>1
<1>12. CASE UNCHANGED vars
  BY <1>12 DEF vars
<1>13. QED
  BY <1>1, <1>2, <1>3, <1>4, <1>5, <1>6, <1>7, <1>8, <1>9, <1>10, <1>11, <1>12
     DEF Next, SenderStep

\* In the loop each chunk stays in the slot of its number.
LEMMA StepInLoop == IInv /\ [Next]_vars => InLoop'
<1> SUFFICES ASSUME IInv, [Next]_vars PROVE InLoop'
  OBVIOUS
<1> USE DEF IInv, InLoop, sender, call, kernel
<1>1. ASSUME NEW n \in 1 .. MaxChunks, NEW w \in BOOLEAN, Send(n, w) PROVE InLoop'
  <2>1. CASE connected
    <3>1. pending = << >> /\ completed = << >> /\ InFlightSlots = {}
      BY <1>1, <2>1 DEF Send, Idle
    <3>2. /\ totalSent' = 0 /\ inFlight' = 0 /\ p' = 0 /\ chunks' = n /\ slots' = slots
          /\ pending' = << >> /\ completed' = << >>
      BY <1>1, <2>1, <3>1 DEF Send
    <3>3. \A s \in Slots : ~slots[s]
      BY <3>1 DEF InFlightSlots
    <3>4. QED
      BY <3>2, <3>3 DEF Positions
  <2>2. CASE ~connected
    BY <1>1, <2>2 DEF Send
  <2>3. QED
    BY <2>1, <2>2
<1>2. CASE Submit
  <2>1. pc = "loop" /\ Positions /\ MaySubmit /\ slot = p
    BY <1>2 DEF Submit, Counters
  <2>2. /\ p' = p + 1 /\ inFlight' = inFlight + 1 /\ totalSent' = totalSent /\ chunks' = chunks
        /\ slots' = [slots EXCEPT ![p % Depth] = TRUE]
    BY <1>2, <2>1 DEF Submit
  <2>3. /\ p \in Nat /\ totalSent \in Nat /\ chunks \in Nat /\ inFlight \in Nat
        /\ Len(pending) \in Nat /\ Len(completed) \in Nat
    BY BoundsAssumption, DepthAssumption DEF Counters, Kernel
  <2>4. /\ Len(pending') = Len(pending) + 1 /\ completed' = completed
        /\ \A i \in 1 .. Len(pending) : pending'[i] = pending[i]
        /\ pending'[Len(pending) + 1].slot = p % Depth
    BY <1>2, <2>1, SubmitAdds
  <2>5. totalSent' + inFlight' = p' /\ p' <= chunks' /\ inFlight' = Len(completed') + Len(pending')
    <3>1. totalSent + inFlight = p /\ p < chunks /\ inFlight = Len(completed) + Len(pending)
      BY <2>1 DEF Positions, MaySubmit
    <3>2. QED
      BY <2>2, <2>3, <2>4, <3>1
  <2>6. \A i \in 1 .. Len(completed') : completed'[i].slot = (totalSent' + i - 1) % Depth
    BY <2>1, <2>2, <2>4 DEF Positions
  <2>7. ASSUME NEW i \in 1 .. Len(pending')
        PROVE  pending'[i].slot = (totalSent' + Len(completed') + i - 1) % Depth
    <3>1. CASE i \in 1 .. Len(pending)
      BY <2>1, <2>2, <2>4, <3>1 DEF Positions
    <3>2. CASE i = Len(pending) + 1
      <4>1. totalSent + Len(completed) + i - 1 = p
        BY <2>1, <2>3, <3>2 DEF Positions
      <4>2. QED
        BY <2>2, <2>4, <3>2, <4>1
    <3>3. QED
      BY <2>3, <2>4, <3>1, <3>2
  <2>8. ASSUME NEW s \in Slots PROVE slots'[s] <=> \E k \in totalSent' .. p' - 1 : s = k % Depth
    <3>1. CASE s = p % Depth
      <4>1. slots'[s]
        BY <2>2, <3>1 DEF Kernel
      <4>2. p \in totalSent' .. p' - 1
        BY <2>1, <2>2, <2>3 DEF Positions
      <4>3. QED
        BY <3>1, <4>1, <4>2
    <3>2. CASE s # p % Depth
      <4>1. slots'[s] <=> slots[s]
        BY <2>2, <3>2 DEF Kernel
      <4>2. \A k \in totalSent' .. p' - 1 : k \in totalSent .. p - 1 \/ k = p
        BY <2>2, <2>3
      <4>3. \A k \in totalSent .. p - 1 : k \in totalSent' .. p' - 1
        BY <2>2, <2>3
      <4>4. slots[s] <=> \E k \in totalSent .. p - 1 : s = k % Depth
        BY <2>1 DEF Positions
      <4>5. QED
        BY <3>2, <4>1, <4>2, <4>3, <4>4
    <3>3. QED
      BY <3>1, <3>2
  <2>9. QED
    BY <2>5, <2>6, <2>7, <2>8 DEF Positions
<1>3. CASE SubmitFails
  BY <1>3 DEF SubmitFails
<1>4. CASE Reap
  <2>0. CASE ~Head(completed).ok
    BY <1>4, <2>0 DEF Reap
  <2> SUFFICES ASSUME Head(completed).ok PROVE Positions'
    BY <2>0
  <2>1. pc = "loop" /\ Positions /\ inFlight > 0 /\ completed # << >> /\ completed' = Tail(completed)
    BY <1>4 DEF Reap
  <2>2. /\ p' = p /\ inFlight' = inFlight - 1 /\ totalSent' = totalSent + 1 /\ chunks' = chunks
        /\ pending' = pending /\ slots' = [slots EXCEPT ![Head(completed).slot] = FALSE]
    BY <1>4 DEF Reap
  <2>3. /\ p \in Nat /\ totalSent \in Nat /\ inFlight \in Nat /\ inFlight <= Depth /\ Depth \in Nat \ {0}
        /\ Len(pending) \in Nat /\ Len(completed) \in Nat
    BY BoundsAssumption, DepthAssumption DEF Counters, Kernel
  <2>4. Reaped /\ Head(completed) = completed[1]
    BY <2>1, KernelHandsBack
  <2>5. totalSent' + inFlight' = p' /\ p' <= chunks' /\ inFlight' = Len(completed') + Len(pending')
    <3>1. totalSent + inFlight = p /\ p <= chunks /\ inFlight = Len(completed) + Len(pending)
      BY <2>1 DEF Positions
    <3>2. Len(completed') = Len(completed) - 1
      BY <2>4 DEF Reaped
    <3>3. QED
      BY <2>2, <2>3, <3>1, <3>2
  <2>6. ASSUME NEW i \in 1 .. Len(completed') PROVE completed'[i].slot = (totalSent' + i - 1) % Depth
    <3>1. i + 1 \in 1 .. Len(completed) /\ totalSent + (i + 1) - 1 = totalSent' + i - 1
      BY <2>2, <2>3, <2>4 DEF Reaped
    <3>2. completed[i + 1].slot = (totalSent + (i + 1) - 1) % Depth
      BY <2>1, <3>1 DEF Positions
    <3>3. QED
      BY <2>4, <3>1, <3>2 DEF Reaped
  <2>7. ASSUME NEW i \in 1 .. Len(pending')
        PROVE  pending'[i].slot = (totalSent' + Len(completed') + i - 1) % Depth
    <3>1. totalSent' + Len(completed') + i - 1 = totalSent + Len(completed) + i - 1
      BY <2>2, <2>3, <2>4 DEF Reaped
    <3>2. QED
      BY <2>1, <2>2, <3>1 DEF Positions
  <2>8. Head(completed).slot = totalSent % Depth
    <3>1. 1 \in 1 .. Len(completed) /\ totalSent + 1 - 1 = totalSent
      BY <2>3, <2>4 DEF Reaped
    <3>2. QED
      BY <2>1, <2>4, <3>1 DEF Positions
  <2>9. ASSUME NEW s \in Slots PROVE slots'[s] <=> \E k \in totalSent' .. p' - 1 : s = k % Depth
    <3>1. CASE s = totalSent % Depth
      <4>1. ~slots'[s]
        BY <2>2, <2>8, <3>1 DEF Kernel
      <4>2. ASSUME NEW k \in totalSent' .. p' - 1 PROVE k % Depth # totalSent % Depth
        <5>1. k \in Nat /\ totalSent < k /\ k < totalSent + Depth
          BY <2>1, <2>2, <2>3 DEF Positions
        <5>2. QED
          BY <2>3, <5>1, ModDistinct
      <4>3. QED
        BY <3>1, <4>1, <4>2
    <3>2. CASE s # totalSent % Depth
      <4>1. slots'[s] <=> slots[s]
        BY <2>2, <2>8, <3>2 DEF Kernel
      <4>2. \A k \in totalSent .. p - 1 : k \in totalSent' .. p' - 1 \/ k = totalSent
        BY <2>2, <2>3
      <4>3. \A k \in totalSent' .. p' - 1 : k \in totalSent .. p - 1
        BY <2>2, <2>3
      <4>4. slots[s] <=> \E k \in totalSent .. p - 1 : s = k % Depth
        BY <2>1 DEF Positions
      <4>5. QED
        BY <3>2, <4>1, <4>2, <4>3, <4>4
    <3>3. QED
      BY <3>1, <3>2
  <2>10. QED
    BY <2>5, <2>6, <2>7, <2>9 DEF Positions
<1>5. CASE ReapFails
  BY <1>5 DEF ReapFails
<1>6. CASE SendReturns
  BY <1>6 DEF SendReturns
<1>7. CASE Discard
  BY <1>7 DEF Discard
<1>8. CASE DrainReap
  BY <1>8 DEF DrainReap
<1>9. CASE SendFails
  BY <1>9 DEF SendFails
<1>10. CASE Serve \/ Break
  <2> SUFFICES ASSUME pc = "loop" PROVE Positions'
    BY <1>10 DEF Serve, Break
  <2>1. /\ Positions /\ p' = p /\ inFlight' = inFlight /\ totalSent' = totalSent /\ chunks' = chunks
        /\ slots' = slots
    BY <1>10 DEF Serve, Break
  <2>2. Taken
    BY <1>10, KernelTakes
  <2>3. Len(pending) \in Nat /\ Len(completed) \in Nat /\ totalSent \in Nat
    BY BoundsAssumption DEF Kernel, Counters
  <2>4. inFlight' = Len(completed') + Len(pending')
    BY <2>1, <2>2, <2>3 DEF Positions, Taken
  <2>5. ASSUME NEW i \in 1 .. Len(completed') PROVE completed'[i].slot = (totalSent + i - 1) % Depth
    <3>1. CASE i \in 1 .. Len(completed)
      BY <2>1, <2>2, <3>1 DEF Positions, Taken
    <3>2. CASE i = Len(completed) + 1
      <4>1. completed'[i].slot = pending[1].slot /\ 1 \in 1 .. Len(pending)
        BY <2>2, <2>3, <3>2 DEF Taken
      <4>2. totalSent + i - 1 = totalSent + Len(completed) + 1 - 1
        BY <2>3, <3>2
      <4>3. QED
        BY <2>1, <4>1, <4>2 DEF Positions
    <3>3. QED
      BY <2>2, <2>3, <3>1, <3>2 DEF Taken
  <2>6. ASSUME NEW i \in 1 .. Len(pending')
        PROVE  pending'[i].slot = (totalSent + Len(completed') + i - 1) % Depth
    <3>1. pending'[i].slot = pending[i + 1].slot /\ i + 1 \in 1 .. Len(pending)
      BY <2>2, <2>3 DEF Taken
    <3>2. totalSent + Len(completed') + i - 1 = totalSent + Len(completed) + (i + 1) - 1
      BY <2>2, <2>3 DEF Taken
    <3>3. QED
      BY <2>1, <3>1, <3>2 DEF Positions
  <2>7. QED
    BY <2>1, <2>4, <2>5, <2>6 DEF Positions
<1>11. CASE Disconnect
  <2> SUFFICES ASSUME pc = "loop" PROVE Positions'
    BY <1>11 DEF Disconnect
  <2>1. /\ Positions /\ p' = p /\ inFlight' = inFlight /\ totalSent' = totalSent /\ chunks' = chunks
        /\ slots' = slots
    BY <1>11 DEF Disconnect
  <2>2. Len(pending) \in Nat /\ Len(completed) \in Nat /\ totalSent \in Nat /\ Len(pending') = 0
    BY <1>11, KernelGivesBack, BoundsAssumption DEF Kernel, Counters
  <2>3. inFlight' = Len(completed') + Len(pending')
    BY <1>11, <2>1, <2>2, KernelGivesBack DEF Positions
  <2>4. ASSUME NEW i \in 1 .. Len(completed') PROVE completed'[i].slot = (totalSent + i - 1) % Depth
    <3>1. CASE i \in 1 .. Len(completed)
      BY <1>11, <2>1, <3>1, KernelGivesBack DEF Positions
    <3>2. CASE \E j \in 1 .. Len(pending) : i = Len(completed) + j
      <4>1. PICK j \in 1 .. Len(pending) : i = Len(completed) + j
        BY <3>2
      <4>2. completed'[i] = pending[j] /\ totalSent + i - 1 = totalSent + Len(completed) + j - 1
        BY <1>11, <2>2, <4>1, KernelGivesBack
      <4>3. QED
        BY <2>1, <4>1, <4>2 DEF Positions
    <3>3. QED
      BY <1>11, <3>1, <3>2, KernelGivesBack
  <2>5. \A i \in 1 .. Len(pending') : pending'[i].slot = (totalSent' + Len(completed') + i - 1) % Depth
    BY <2>2
  <2>6. totalSent' + inFlight' = p' /\ p' <= chunks'
    BY <2>1 DEF Positions
  <2>7. \A s \in Slots : slots'[s] <=> \E k \in totalSent' .. p' - 1 : s = k % Depth
    BY <2>1 DEF Positions
  <2>8. \A i \in 1 .. Len(completed') : completed'[i].slot = (totalSent' + i - 1) % Depth
    BY <2>1, <2>4
  <2>9. QED
    BY <2>3, <2>5, <2>6, <2>7, <2>8, Zenon DEF Positions
<1>12. CASE UNCHANGED vars
  <2>1. /\ pc' = pc /\ p' = p /\ inFlight' = inFlight /\ totalSent' = totalSent /\ chunks' = chunks
        /\ slots' = slots /\ pending' = pending /\ completed' = completed
    BY <1>12 DEF vars
  <2>2. QED
    BY <2>1 DEF Positions
<1>13. QED
  BY <1>1, <1>2, <1>3, <1>4, <1>5, <1>6, <1>7, <1>8, <1>9, <1>10, <1>11, <1>12
     DEF Next, SenderStep

\* After the discard the URB of the cursor is not among those to be served.
LEMMA StepAtCursor == IInv /\ [Next]_vars => AtCursor'
<1> SUFFICES ASSUME IInv, [Next]_vars PROVE AtCursor'
  OBVIOUS
<1> USE DEF IInv, AtCursor, sender, call, kernel
<1>1. ASSUME NEW n \in 1 .. MaxChunks, NEW w \in BOOLEAN, Send(n, w) PROVE AtCursor'
  BY <1>1 DEF Send
<1>2. CASE Submit
  BY <1>2 DEF Submit
<1>3. CASE SubmitFails
  BY <1>3 DEF SubmitFails
<1>4. CASE Reap
  BY <1>4 DEF Reap
<1>5. CASE ReapFails
  BY <1>5 DEF ReapFails
<1>6. CASE SendReturns
  BY <1>6 DEF SendReturns
<1>7. CASE Discard
  <2>1. InFlightSlots' = InFlightSlots /\ InFlightSlots # {}
    BY <1>7 DEF Discard, InFlightSlots
  <2>2. Cursor' = Cursor
    BY <2>1 DEF Cursor
  <2>3. \A j \in 1 .. Len(pending') : pending'[j].slot # Cursor
    <3>1. CASE UNCHANGED <<pending, completed>> /\ \A i \in DOMAIN pending : pending[i].slot # Cursor
      BY <3>1 DEF Kernel
    <3>2. CASE \E i \in DOMAIN pending : /\ pending[i].slot = Cursor
                                       /\ completed' = Append(completed, pending[i])
                                       /\ pending' = RemoveAt(pending, i)
      <4>1. PICK i \in 1 .. Len(pending) : Cancelled(i) /\ pending[i].slot = Cursor
        BY <3>2, KernelCancels DEF Kernel
      <4>2. ASSUME NEW j \in 1 .. Len(pending')
            PROVE  \E k \in 1 .. Len(pending) : k # i /\ pending'[j] = pending[k]
        <5>1. Len(pending) \in Nat /\ j \in Nat /\ j + 1 \in 1 .. Len(pending) /\ j \in 1 .. Len(pending)
          BY <4>1 DEF Cancelled, Kernel
        <5>2. CASE j < i
          BY <4>1, <5>1, <5>2 DEF Cancelled
        <5>3. CASE ~(j < i)
          BY <4>1, <5>1, <5>3 DEF Cancelled
        <5>4. QED
          BY <5>2, <5>3
      <4>3. QED
        BY <4>1, <4>2 DEF Apart
    <3>3. QED
      BY <1>7, <3>1, <3>2 DEF Discard
  <2>4. QED
    BY <2>1, <2>2, <2>3
<1>8. CASE DrainReap
  BY <1>8 DEF DrainReap
<1>9. CASE SendFails
  BY <1>9 DEF SendFails
<1>10. CASE Serve \/ Break
  <2>1. InFlightSlots' = InFlightSlots /\ Cursor' = Cursor /\ pc' = pc
    BY <1>10 DEF Serve, Break, InFlightSlots, Cursor
  <2>2. Taken /\ Len(pending) \in Nat
    BY <1>10, KernelTakes DEF Kernel
  <2>3. \A j \in 1 .. Len(pending') : j + 1 \in 1 .. Len(pending) /\ pending'[j].slot = pending[j + 1].slot
    BY <2>2 DEF Taken
  <2>4. QED
    BY <2>1, <2>3
<1>11. CASE Disconnect
  <2>1. InFlightSlots' = InFlightSlots /\ pc' = pc
    BY <1>11 DEF Disconnect, InFlightSlots
  <2>2. Len(pending') = 0
    BY <1>11, KernelGivesBack
  <2>3. QED
    BY <2>1, <2>2
<1>12. CASE UNCHANGED vars
  <2>1. InFlightSlots' = InFlightSlots /\ Cursor' = Cursor /\ pc' = pc /\ pending' = pending
    BY <1>12 DEF vars, InFlightSlots, Cursor
  <2>2. QED
    BY <2>1
<1>13. QED
  BY <1>1, <1>2, <1>3, <1>4, <1>5, <1>6, <1>7, <1>8, <1>9, <1>10, <1>11, <1>12
     DEF Next, SenderStep

\* The flagged slots are finitely many.
LEMMA SlotsFinite == IsFiniteSet(InFlightSlots) /\ Cardinality(InFlightSlots) \in Nat
<1>1. IsFiniteSet(Slots)
  BY DepthAssumption, FS_Interval DEF Slots
<1>2. InFlightSlots \in SUBSET Slots
  BY DEF InFlightSlots
<1>3. QED
  BY <1>1, <1>2, FS_Subset, FS_CardinalityType

\* The flags go on counting the URBs to reap.
LEMMA StepCount == IInv /\ [Next]_vars => Count'
<1> SUFFICES ASSUME IInv, [Next]_vars PROVE Count'
  OBVIOUS
<1> USE DEF IInv, Count, sender, call, kernel
<1>1. ASSUME NEW n \in 1 .. MaxChunks, NEW w \in BOOLEAN, Send(n, w) PROVE Count'
  <2>1. gone' = gone /\ pending' = pending /\ completed' = completed /\ InFlightSlots' = InFlightSlots
    BY <1>1 DEF Send, InFlightSlots
  <2>2. QED
    BY <2>1
<1>2. CASE Submit
  <2>1. gone' = gone /\ slots' = [slots EXCEPT ![slot % Depth] = TRUE] /\ pc = "loop" /\ MaySubmit
    BY <1>2 DEF Submit
  <2>2. slot % Depth \in Slots /\ ~slots[slot % Depth]
    BY <2>1, NextSlot, NextSlotFree
  <2>3. InFlightSlots' = InFlightSlots \cup {slot % Depth} /\ slot % Depth \notin InFlightSlots
    BY <2>1, <2>2 DEF InFlightSlots, Kernel
  <2>4. Cardinality(InFlightSlots') = Cardinality(InFlightSlots) + 1
    BY <2>3, SlotsFinite, FS_AddElement
  <2>5. Len(pending') = Len(pending) + 1 /\ completed' = completed
    BY <1>2, SubmitAdds
  <2>6. Len(pending) \in Nat /\ Len(completed) \in Nat
    BY DEF Kernel
  <2>7. QED
    BY <2>1, <2>4, <2>5, <2>6
<1>3. CASE SubmitFails
  <2>1. gone' = gone /\ pending' = pending /\ completed' = completed /\ InFlightSlots' = InFlightSlots
    BY <1>3 DEF SubmitFails, InFlightSlots
  <2>2. QED
    BY <2>1
<1>4. CASE Reap
  <2>1. /\ gone' = gone /\ slots' = [slots EXCEPT ![Head(completed).slot] = FALSE]
        /\ completed # << >> /\ completed' = Tail(completed) /\ pending' = pending
        /\ pc = "loop" /\ inFlight > 0
    BY <1>4 DEF Reap
  <2>2. Reaped /\ Head(completed) = completed[1] /\ Head(completed) \in Urb
    BY <2>1, KernelHandsBack
  <2>3. Head(completed).slot \in Slots
    BY <2>2 DEF Urb
  <2>4. slots[Head(completed).slot]
    <3>1. /\ totalSent \in Nat /\ inFlight \in Nat /\ p \in Nat /\ Len(completed) \in Nat
      BY BoundsAssumption, DepthAssumption DEF Counters, Kernel
    <3>2. totalSent \in totalSent .. p - 1 /\ 1 \in 1 .. Len(completed) /\ totalSent + 1 - 1 = totalSent
      BY <2>1, <2>2, <3>1 DEF InLoop, Positions, Reaped
    <3>3. Head(completed).slot = totalSent % Depth
      BY <2>1, <2>2, <3>2 DEF InLoop, Positions
    <3>4. QED
      BY <2>1, <2>3, <3>2, <3>3 DEF InLoop, Positions
  <2>5. InFlightSlots' = InFlightSlots \ {Head(completed).slot} /\ Head(completed).slot \in InFlightSlots
    BY <2>1, <2>3, <2>4 DEF InFlightSlots, Kernel
  <2>6. Cardinality(InFlightSlots') = Cardinality(InFlightSlots) - 1
    BY <2>5, SlotsFinite, FS_RemoveElement
  <2>7. Len(pending) \in Nat /\ Len(completed) \in Nat /\ Len(completed') = Len(completed) - 1
    BY <2>2 DEF Kernel, Reaped
  <2>8. QED
    BY <2>1, <2>6, <2>7, SlotsFinite
<1>5. CASE ReapFails
  <2>1. gone' = gone /\ pending' = pending /\ completed' = completed /\ InFlightSlots' = InFlightSlots
    BY <1>5 DEF ReapFails, InFlightSlots
  <2>2. QED
    BY <2>1
<1>6. CASE SendReturns
  <2>1. gone' = gone /\ pending' = pending /\ completed' = completed /\ InFlightSlots' = InFlightSlots
    BY <1>6 DEF SendReturns, InFlightSlots
  <2>2. QED
    BY <2>1
<1>7. CASE Discard
  <2>1. gone' = gone /\ InFlightSlots' = InFlightSlots
    BY <1>7 DEF Discard, InFlightSlots
  <2>2. Len(pending') + Len(completed') = Len(pending) + Len(completed)
    <3>1. CASE UNCHANGED <<pending, completed>>
      BY <3>1
    <3>2. CASE \E i \in DOMAIN pending :
                  completed' = Append(completed, pending[i]) /\ pending' = RemoveAt(pending, i)
      <4>1. DOMAIN pending = 1 .. Len(pending) /\ Len(pending) \in Nat /\ Len(completed) \in Nat
        BY DEF Kernel
      <4>2. PICK i \in 1 .. Len(pending) : Cancelled(i)
        BY <3>2, <4>1, KernelCancels
      <4>3. QED
        BY <4>1, <4>2 DEF Cancelled
    <3>3. QED
      BY <1>7, <3>1, <3>2 DEF Discard
  <2>3. QED
    BY <2>1, <2>2
<1>8. CASE DrainReap
  <2>1. gone' = gone /\ slots' = [slots EXCEPT ![Cursor] = FALSE] /\ pending' = pending /\ pc = "drainReap"
    BY <1>8 DEF DrainReap
  <2> SUFFICES ASSUME ~gone PROVE Cardinality(InFlightSlots') = Len(pending') + Len(completed')
    BY <2>1
  <2>2. completed # << >> /\ completed' = Tail(completed)
    BY <1>8 DEF DrainReap
  <2>3. Reaped /\ Len(completed) \in Nat /\ Len(pending) \in Nat
    BY <2>2, KernelHandsBack DEF Kernel
  <2>4. Cursor \in InFlightSlots
    BY <2>1, CursorFlagged DEF AtCursor
  <2>5. InFlightSlots' = InFlightSlots \ {Cursor}
    BY <2>1, <2>4 DEF InFlightSlots, Kernel
  <2>6. Cardinality(InFlightSlots') = Cardinality(InFlightSlots) - 1
    BY <2>4, <2>5, SlotsFinite, FS_RemoveElement
  <2>7. QED
    BY <2>1, <2>3, <2>6, SlotsFinite DEF Reaped
<1>9. CASE SendFails
  <2>1. gone' = gone /\ pending' = pending /\ completed' = completed /\ InFlightSlots' = InFlightSlots
    BY <1>9 DEF SendFails, InFlightSlots
  <2>2. QED
    BY <2>1
<1>10. CASE Serve \/ Break
  <2>1. gone' = gone /\ InFlightSlots' = InFlightSlots
    BY <1>10 DEF Serve, Break, InFlightSlots
  <2>2. Len(pending') + Len(completed') = Len(pending) + Len(completed)
    <3>1. Taken /\ Len(pending) \in Nat /\ Len(completed) \in Nat
      BY <1>10, KernelTakes DEF Kernel
    <3>2. QED
      BY <3>1 DEF Taken
  <2>3. QED
    BY <2>1, <2>2
<1>11. CASE Disconnect
  BY <1>11 DEF Disconnect
<1>12. CASE UNCHANGED vars
  <2>1. gone' = gone /\ pending' = pending /\ completed' = completed /\ InFlightSlots' = InFlightSlots
    BY <1>12 DEF vars, InFlightSlots
  <2>2. QED
    BY <2>1
<1>13. QED
  BY <1>1, <1>2, <1>3, <1>4, <1>5, <1>6, <1>7, <1>8, <1>9, <1>10, <1>11, <1>12
     DEF Next, SenderStep

\* A send that is over leaves no URB, or a device that is gone and known to be.
LEMMA StepIdle == IInv /\ [Next]_vars => Idle'
<1> SUFFICES ASSUME IInv, [Next]_vars PROVE Idle'
  OBVIOUS
<1> USE DEF IInv, Idle, sender, call, kernel
<1>1. ASSUME NEW n \in 1 .. MaxChunks, NEW w \in BOOLEAN, Send(n, w) PROVE Idle'
  <2>1. CASE connected
    BY <1>1, <2>1 DEF Send
  <2>2. CASE ~connected
    <3>1. pc = "idle" /\ gone' = gone /\ pending' = pending /\ completed' = completed /\ InFlightSlots' = InFlightSlots
      BY <1>1, <2>2 DEF Send, InFlightSlots
    <3>2. connected' = connected
      BY <1>1, <2>2 DEF Send
    <3>3. QED
      BY <3>1, <3>2
  <2>3. QED
    BY <2>1, <2>2
<1>2. CASE Submit
  BY <1>2 DEF Submit
<1>3. CASE SubmitFails
  BY <1>3 DEF SubmitFails
<1>4. CASE Reap
  BY <1>4 DEF Reap
<1>5. CASE ReapFails
  BY <1>5 DEF ReapFails
<1>6. CASE SendReturns
  <2>1. /\ Positions /\ inFlight = 0 /\ pending' = pending /\ completed' = completed
        /\ InFlightSlots' = InFlightSlots
    BY <1>6 DEF SendReturns, InLoop, InFlightSlots
  <2>2. Len(pending) \in Nat /\ Len(completed) \in Nat /\ totalSent \in Nat /\ p \in Nat
    BY BoundsAssumption DEF Kernel, Counters
  <2>3. Len(pending) = 0 /\ Len(completed) = 0 /\ totalSent = p
    BY <2>1, <2>2 DEF Positions
  <2>4. pending = << >> /\ completed = << >>
    BY <2>3 DEF Kernel
  <2>5. totalSent .. p - 1 = {}
    BY <2>2, <2>3
  <2>6. InFlightSlots = {}
    BY <2>1, <2>5 DEF Positions, InFlightSlots
  <2>7. QED
    BY <2>1, <2>4, <2>6
<1>7. CASE Discard
  BY <1>7 DEF Discard
<1>8. CASE DrainReap
  BY <1>8 DEF DrainReap
<1>9. CASE SendFails
  <2>1. /\ InFlightSlots = {} /\ InFlightSlots' = {} /\ gone' = gone /\ connected' = FALSE
        /\ pending' = pending /\ completed' = completed
    BY <1>9 DEF SendFails, InFlightSlots
  <2>2. Len(pending) \in Nat /\ Len(completed) \in Nat
    BY DEF Kernel
  <2>3. Len(pending) = 0
    <3>1. ASSUME Len(pending) # 0 PROVE FALSE
      <4>1. 1 \in 1 .. Len(pending)
        BY <2>2, <3>1
      <4>2. pending[1].slot \in InFlightSlots
        BY <4>1, PendingSlot DEF InFlightSlots
      <4>3. QED
        BY <2>1, <4>2
    <3>2. QED
      BY <3>1
  <2>4. ~gone => Len(completed) = 0
    BY <2>1, <2>2, <2>3, FS_EmptySet DEF Count
  <2>5. pending = << >> /\ (Len(completed) = 0 => completed = << >>)
    BY <2>3 DEF Kernel
  <2>6. QED
    BY <2>1, <2>4, <2>5
<1>10. CASE Serve \/ Break
  <2>1. pc' = pc /\ pending # << >>
    BY <1>10 DEF Serve, Break
  <2>2. QED
    BY <2>1
<1>11. CASE Disconnect
  <2> SUFFICES ASSUME pc = "idle"
               PROVE  /\ InFlightSlots' = {} /\ pending' = << >>
                      /\ completed' = << >> \/ (gone' /\ ~connected')
    BY <1>11 DEF Disconnect
  <2>1. ~gone /\ completed' = completed \o pending /\ pending' = << >> /\ InFlightSlots' = InFlightSlots
    BY <1>11 DEF Disconnect, InFlightSlots
  <2>2. pending = << >> /\ completed = << >> /\ InFlightSlots = {}
    BY <2>1
  <2>3. QED
    BY <2>1, <2>2
<1>12. CASE UNCHANGED vars
  <2>1. /\ pc' = pc /\ pending' = pending /\ completed' = completed /\ gone' = gone
        /\ connected' = connected /\ InFlightSlots' = InFlightSlots
    BY <1>12 DEF vars, InFlightSlots
  <2>2. QED
    BY <2>1
<1>13. QED
  BY <1>1, <1>2, <1>3, <1>4, <1>5, <1>6, <1>7, <1>8, <1>9, <1>10, <1>11, <1>12
     DEF Next, SenderStep

\* Before the first send the kernel has nothing.
LEMMA InitSound == Init => IInv
<1> SUFFICES ASSUME Init PROVE IInv
  OBVIOUS
<1> USE BoundsAssumption, DepthAssumption DEF Init
<1>1. Counters
  BY DEF Counters
<1>2. Flags
  BY Zenon DEF Flags
<1>3. Empties /\ Kernel /\ Apart /\ Flagged /\ InLoop /\ AtCursor
  BY DEF Empties, Kernel, Apart, Flagged, InLoop, AtCursor
<1>4. InFlightSlots = {}
  BY DEF InFlightSlots
<1>5. Count /\ Idle
  BY <1>4, FS_EmptySet DEF Count, Idle
<1>6. QED
  BY <1>1, <1>2, <1>3, <1>5 DEF IInv

LEMMA Inductive == Spec => []IInv
<1>1. IInv /\ [Next]_vars => IInv'
  BY StepCounters, StepFlags, StepEmpties, StepKernel, StepApart, StepFlagged, StepInLoop, StepCount,
     StepAtCursor, StepIdle DEF IInv
<1>2. QED
  BY <1>1, InitSound, PTL DEF Spec

\* Whatever the depth, no two URBs with the kernel share a slot, so that none is written
\* over while the kernel has it; and when a send is over, the kernel serves nothing of the
\* caller's buffer any more.
THEOREM UrbsAreSafe == Spec => []UrbsSound
<1>1. IInv => TypeOK
  <2> SUFFICES ASSUME IInv PROVE TypeOK
    OBVIOUS
  <2>1. slot \in 0 .. MaxChunks /\ totalSent \in 0 .. MaxChunks
    BY BoundsAssumption DEF IInv, Counters
  <2>2. QED
    BY <2>1, Zenon DEF TypeOK, IInv, Counters, Flags, Empties, Kernel
<1>2. IInv => SlotsAreFree
  <2> SUFFICES ASSUME IInv, NEW i \in DOMAIN Held, NEW j \in DOMAIN Held, Held[i].slot = Held[j].slot
               PROVE  i = j
    BY DEF SlotsAreFree
  <2>1. Len(pending) \in Nat /\ Len(completed) \in Nat
    BY DEF IInv, Kernel
  <2>2. ASSUME NEW k \in DOMAIN Held
        PROVE  \/ k \in 1 .. Len(pending) /\ Held[k] = pending[k]
               \/ k - Len(pending) \in 1 .. Len(completed) /\ Held[k] = completed[k - Len(pending)]
    BY DEF IInv, Kernel, Held
  <2>3. CASE i \in 1 .. Len(pending) /\ Held[i] = pending[i]
    BY <2>1, <2>2, <2>3 DEF IInv, Apart
  <2>4. CASE i - Len(pending) \in 1 .. Len(completed) /\ Held[i] = completed[i - Len(pending)]
    <3>1. CASE j \in 1 .. Len(pending) /\ Held[j] = pending[j]
      BY <2>4, <3>1 DEF IInv, Apart
    <3>2. CASE j - Len(pending) \in 1 .. Len(completed) /\ Held[j] = completed[j - Len(pending)]
      <4>1. i - Len(pending) = j - Len(pending)
        BY <2>4, <3>2 DEF IInv, Apart
      <4>2. i \in Int /\ j \in Int
        BY DEF IInv, Kernel, Held
      <4>3. QED
        BY <2>1, <4>1, <4>2
    <3>3. QED
      BY <2>2, <3>1, <3>2
  <2>5. QED
    BY <2>2, <2>3, <2>4
<1>3. IInv => BufferReleased
  BY DEF IInv, Idle, BufferReleased
<1>4. IInv => UrbsSound
  BY <1>1, <1>2, <1>3 DEF UrbsSound
<1>5. QED
  BY <1>4, Inductive, PTL

\* After a discard there is an URB to reap, unless the device is gone: fewer URBs are to be
\* served than slots are flagged.
THEOREM DrainIsServed == Spec => []DrainNeverWaits
<1>1. IInv => DrainNeverWaits
  <2> SUFFICES ASSUME IInv, pc = "drainReap", ~gone, completed = << >> PROVE FALSE
    BY DEF DrainNeverWaits
  <2> DEFINE rest == InFlightSlots \ {Cursor}
             f == [i \in 1 .. Len(pending) |-> pending[i].slot]
  <2>1. Len(pending) \in Nat /\ Cardinality(InFlightSlots) = Len(pending)
    BY DEF IInv, Kernel, Count
  <2>2. InFlightSlots # {} /\ \A i \in 1 .. Len(pending) : pending[i].slot # Cursor
    BY DEF IInv, AtCursor
  <2>3. Cardinality(rest) = Len(pending) - 1 /\ IsFiniteSet(rest)
    BY <2>1, <2>2, CursorFlagged, SlotsFinite, FS_RemoveElement
  <2>4. IsFiniteSet(1 .. Len(pending)) /\ Cardinality(1 .. Len(pending)) = Len(pending)
    <3>1. PICK n \in Int : n = Len(pending)
      BY <2>1
    <3>2. IsFiniteSet(1 .. n) /\ Cardinality(1 .. n) = IF 1 > n THEN 0 ELSE n - 1 + 1
      BY FS_Interval, 1 \in Int
    <3>3. QED
      BY <2>1, <3>1, <3>2
  <2>5. \A i \in 1 .. Len(pending) : pending[i].slot \in rest
    BY <2>2, PendingSlot DEF InFlightSlots
  <2>6. f \in [1 .. Len(pending) -> rest]
    BY <2>5
  <2>7. PICK i, j \in 1 .. Len(pending) : i # j /\ f[i] = f[j]
    <3>1. Cardinality(rest) < Cardinality(1 .. Len(pending))
      BY <2>1, <2>3, <2>4
    <3> HIDE DEF rest, f
    <3>2. QED
      BY <2>3, <2>4, <2>6, <3>1, FS_PigeonHole
  <2>8. QED
    BY <2>7 DEF IInv, Apart
<1>2. QED
  BY <1>1, Inductive, PTL
-----------------------------------------------------------------------------
(***************************************************************************)
(* What the device received.                                               *)
(***************************************************************************)
\* While a send runs the device is to be served the chunks after those that were, in order.
InOrder == pc = "loop" =>
  \A i \in 1 .. Len(pending) :
    pending[i].chunk = totalSent + Len(completed) + i /\ ~pending[i].ok

\* As long as no URB that waits to be reaped has failed, the device has all chunks served; a
\* send that has seen them all keeps that until the next one.
FirstChunks(n) == [i \in 1 .. n |-> i]
NoneFailed == \A i \in 1 .. Len(completed) : completed[i].ok
Received == pc = "loop" /\ NoneFailed => wire = FirstChunks(totalSent + Len(completed))
Success == result = "ok" => pc = "idle" /\ wire = FirstChunks(chunks) /\ totalSent = chunks

Delivery == InOrder /\ Received /\ Success

\* The next chunk after the first ones.
LEMMA NextChunk ==
  ASSUME NEW n \in Nat
  PROVE  Append(FirstChunks(n), n + 1) = FirstChunks(n + 1)
BY DEF FirstChunks

\* The chunks that are with the kernel stay in order.
LEMMA StepInOrder == IInv /\ Delivery /\ [Next]_vars => InOrder'
<1> SUFFICES ASSUME IInv, InOrder, [Next]_vars, pc' = "loop", NEW i \in 1 .. Len(pending')
             PROVE  pending'[i].chunk = totalSent' + Len(completed') + i /\ ~pending'[i].ok
  BY DEF Delivery, InOrder
<1> USE DEF sender, call, kernel, bus
<1>0. /\ Len(pending) \in Nat /\ Len(completed) \in Nat /\ totalSent \in Nat /\ p \in Nat
      /\ Len(pending') \in Nat
  BY StepKernel, BoundsAssumption DEF IInv, Kernel, Counters
<1>1. ASSUME NEW n \in 1 .. MaxChunks, NEW w \in BOOLEAN, Send(n, w)
      PROVE  pending' = << >>
  BY <1>1 DEF Send, IInv, Idle
<1>2. CASE Submit
  <2>1. /\ Len(pending') = Len(pending) + 1 /\ completed' = completed
        /\ \A j \in 1 .. Len(pending) : pending'[j] = pending[j]
    BY <1>2, SubmitAdds DEF IInv
  <2>2. pending'[Len(pending) + 1] = [slot |-> slot % Depth, chunk |-> p + 1, ok |-> FALSE]
    BY <1>2 DEF Submit, IInv, Kernel
  <2>3. totalSent + Len(completed) + Len(pending) = p /\ pc = "loop" /\ totalSent' = totalSent
    <3>1. pc = "loop" /\ totalSent' = totalSent
      BY <1>2 DEF Submit
    <3>2. totalSent + inFlight = p /\ inFlight = Len(completed) + Len(pending)
      BY <3>1 DEF IInv, InLoop, Positions
    <3>3. QED
      BY <1>0, <3>1, <3>2
  <2>4. CASE i \in 1 .. Len(pending)
    BY <2>1, <2>3, <2>4 DEF InOrder
  <2>5. CASE i = Len(pending) + 1
    BY <1>0, <2>1, <2>2, <2>3, <2>5
  <2>6. QED
    BY <1>0, <2>1, <2>4, <2>5
<1>3. CASE Reap
  <2>1. /\ pc = "loop" /\ pending' = pending /\ totalSent' = totalSent + 1
        /\ completed # << >> /\ completed' = Tail(completed)
    BY <1>3 DEF Reap
  <2>2. Len(completed') = Len(completed) - 1
    BY <2>1, KernelHandsBack DEF IInv, Reaped
  <2>3. totalSent' + Len(completed') + i = totalSent + Len(completed) + i
    BY <1>0, <2>1, <2>2
  <2>4. QED
    BY <2>1, <2>3 DEF InOrder
<1>4. CASE Serve \/ Break
  <2>1. pending' = Tail(pending) /\ pending # << >> /\ pc = "loop" /\ totalSent' = totalSent
    BY <1>4 DEF Serve, Break
  <2>2. Len(completed') = Len(completed) + 1 /\ Len(pending') = Len(pending) - 1
    BY <1>4, KernelTakes DEF IInv, Taken
  <2>3. i + 1 \in 1 .. Len(pending) /\ pending'[i] = pending[i + 1]
    BY <1>0, <2>1, <2>2 DEF IInv, Kernel
  <2>4. pending[i + 1].chunk = totalSent + Len(completed) + (i + 1) /\ ~pending[i + 1].ok
    BY <2>1, <2>3 DEF InOrder
  <2>5. QED
    BY <1>0, <2>1, <2>2, <2>3, <2>4
<1>5. CASE Disconnect
  BY <1>5, KernelGivesBack DEF IInv
<1>6. CASE SubmitFails \/ ReapFails \/ SendReturns \/ Discard \/ DrainReap \/ SendFails
  BY <1>6 DEF SubmitFails, ReapFails, SendReturns, Discard, DrainReap, SendFails
<1>7. CASE UNCHANGED vars
  BY <1>7 DEF vars, InOrder
<1>8. QED
  BY <1>0, <1>1, <1>2, <1>3, <1>4, <1>5, <1>6, <1>7 DEF Next, SenderStep

\* What the device has stays the first chunks.
LEMMA StepReceived == IInv /\ Delivery /\ [Next]_vars => Received'
<1> SUFFICES ASSUME IInv, InOrder, Received, [Next]_vars, pc' = "loop", NoneFailed'
             PROVE  wire' = FirstChunks(totalSent + Len(completed))'
  BY DEF Delivery, Received
<1> USE DEF sender, call, kernel, bus
<1>0. Len(pending) \in Nat /\ Len(completed) \in Nat /\ totalSent \in Nat /\ p \in Nat
  BY BoundsAssumption DEF IInv, Kernel, Counters
<1>1. ASSUME NEW n \in 1 .. MaxChunks, NEW w \in BOOLEAN, Send(n, w)
      PROVE  wire' = FirstChunks(totalSent + Len(completed))'
  <2>1. wire' = << >> /\ completed' = << >> /\ totalSent' = 0 /\ chunks' = n
    BY <1>1 DEF Send, IInv, Idle
  <2>2. Len(completed') = 0 /\ FirstChunks(0) = << >>
    BY <2>1 DEF FirstChunks
  <2>3. QED
    BY <2>1, <2>2 DEF FirstChunks
<1>2. CASE Submit
  <2>1. /\ pc = "loop" /\ wire' = wire /\ completed' = completed /\ totalSent' = totalSent
        /\ chunks' = chunks /\ whole' = whole /\ impl' = impl
    BY <1>2 DEF Submit
  <2>2. NoneFailed
    BY <2>1 DEF NoneFailed
  <2>3. QED
    BY <2>1, <2>2 DEF Received
<1>3. CASE Reap
  <2>1. /\ pc = "loop" /\ wire' = wire /\ totalSent' = totalSent + 1 /\ Head(completed).ok
        /\ completed # << >> /\ completed' = Tail(completed)
        /\ chunks' = chunks /\ whole' = whole /\ impl' = impl
    BY <1>3 DEF Reap
  <2>2. Reaped /\ Head(completed) = completed[1]
    BY <2>1, KernelHandsBack DEF IInv
  <2>3. ASSUME NEW j \in 1 .. Len(completed) PROVE completed[j].ok
    <3>1. CASE j = 1
      BY <2>1, <2>2, <3>1
    <3>2. CASE j # 1
      <4>1. j - 1 \in 1 .. Len(completed') /\ completed'[j - 1] = completed[j]
        BY <1>0, <2>2, <3>2 DEF Reaped
      <4>2. QED
        BY <4>1 DEF NoneFailed
    <3>3. QED
      BY <3>1, <3>2
  <2>4. wire = FirstChunks(totalSent + Len(completed))
    BY <2>1, <2>3 DEF Received, NoneFailed
  <2>5. totalSent' + Len(completed') = totalSent + Len(completed)
    BY <1>0, <2>1, <2>2 DEF Reaped
  <2>6. QED
    BY <2>1, <2>4, <2>5
<1>4. CASE Serve
  <2> DEFINE n == totalSent + Len(completed)
  <2>1. /\ pending # << >> /\ pc = "loop" /\ totalSent' = totalSent
        /\ completed' = Append(completed, [Head(pending) EXCEPT !.ok = TRUE])
        /\ wire' = Append(wire, Head(pending).chunk)
        /\ chunks' = chunks /\ whole' = whole /\ impl' = impl
    BY <1>4 DEF Serve
  <2>2. /\ Len(pending) > 0 /\ Len(completed') = Len(completed) + 1
        /\ \A j \in 1 .. Len(completed) : completed'[j] = completed[j]
        /\ Head(pending) = pending[1]
    BY <1>0, <2>1 DEF IInv, Kernel
  <2>3. NoneFailed
    <3>1. \A j \in 1 .. Len(completed) : j \in 1 .. Len(completed')
      BY <1>0, <2>2
    <3>2. QED
      BY <2>2, <3>1 DEF NoneFailed
  <2>4. pending[1].chunk = n + 1
    <3>1. 1 \in 1 .. Len(pending)
      BY <1>0, <2>2
    <3>2. QED
      BY <2>1, <3>1 DEF InOrder
  <2>5. n \in Nat /\ n < chunks
    <3>1. totalSent + inFlight = p /\ p <= chunks /\ inFlight = Len(completed) + Len(pending)
      BY <2>1 DEF IInv, InLoop, Positions
    <3>2. chunks \in Nat
      BY BoundsAssumption DEF IInv, Counters
    <3>3. QED
      BY <1>0, <2>2, <3>1, <3>2
  <2>6. wire = FirstChunks(n)
    BY <2>1, <2>3 DEF Received
  <2>7. wire' = FirstChunks(n + 1)
    <3> HIDE DEF n
    <3> QED BY <2>1, <2>2, <2>4, <2>5, <2>6, NextChunk DEF IInv
  <2>8. totalSent' + Len(completed') = n + 1
    BY <1>0, <2>1, <2>2
  <2>9. QED
    BY <2>1, <2>7, <2>8
<1>5. CASE Break
  <2>1. pending # << >> /\ pc = "loop" /\ completed' = Append(completed, Head(pending))
    BY <1>5 DEF Break
  <2>2. 1 \in 1 .. Len(pending) /\ completed'[Len(completed) + 1] = pending[1]
        /\ Len(completed) + 1 \in 1 .. Len(completed')
    BY <1>0, <2>1 DEF IInv, Kernel
  <2>3. ~pending[1].ok
    BY <2>1, <2>2 DEF InOrder
  <2>4. QED
    BY <2>2, <2>3 DEF NoneFailed
<1>6. CASE Disconnect
  <2>1. /\ pc = "loop" /\ wire' = wire /\ totalSent' = totalSent
        /\ chunks' = chunks /\ whole' = whole /\ impl' = impl
    BY <1>6 DEF Disconnect
  <2>2. /\ Len(completed') = Len(completed) + Len(pending)
        /\ \A j \in 1 .. Len(completed) : completed'[j] = completed[j]
        /\ \A j \in 1 .. Len(pending) : completed'[Len(completed) + j] = pending[j]
    BY <1>6, KernelGivesBack DEF IInv
  <2>3. Len(pending) = 0
    <3>1. ASSUME Len(pending) > 0 PROVE FALSE
      <4>1. 1 \in 1 .. Len(pending) /\ Len(completed) + 1 \in 1 .. Len(completed')
        BY <1>0, <2>2, <3>1
      <4>2. completed'[Len(completed) + 1] = pending[1] /\ ~pending[1].ok
        BY <2>1, <2>2, <4>1 DEF InOrder
      <4>3. QED
        BY <4>1, <4>2 DEF NoneFailed
    <3>2. QED
      BY <1>0, <3>1
  <2>4. NoneFailed /\ Len(completed') = Len(completed)
    <3>1. Len(completed') = Len(completed)
      BY <1>0, <2>2, <2>3
    <3>2. QED
      BY <2>2, <3>1 DEF NoneFailed
  <2>5. QED
    BY <2>1, <2>4 DEF Received
<1>7. CASE SubmitFails \/ ReapFails \/ SendReturns \/ Discard \/ DrainReap \/ SendFails
  BY <1>7 DEF SubmitFails, ReapFails, SendReturns, Discard, DrainReap, SendFails
<1>8. CASE UNCHANGED vars
  BY <1>8 DEF vars, Received, NoneFailed
<1>9. QED
  BY <1>1, <1>2, <1>3, <1>4, <1>5, <1>6, <1>7, <1>8 DEF Next, SenderStep

\* A success stays what it is until the next call.
LEMMA StepSuccess == IInv /\ Delivery /\ [Next]_vars => Success'
<1> SUFFICES ASSUME IInv, Received, Success, [Next]_vars, result' = "ok"
             PROVE  pc' = "idle" /\ wire' = FirstChunks(chunks)' /\ totalSent' = chunks'
  BY DEF Delivery, Success
<1> USE DEF sender, call, kernel, bus
<1>1. ASSUME NEW n \in 1 .. MaxChunks, NEW w \in BOOLEAN, Send(n, w) PROVE FALSE
  BY <1>1 DEF Send
<1>2. CASE SendReturns
  <2>1. /\ pc = "loop" /\ p = chunks /\ inFlight = 0 /\ pc' = "idle" /\ wire' = wire
        /\ totalSent' = totalSent /\ chunks' = chunks /\ whole' = whole /\ impl' = impl
    BY <1>2 DEF SendReturns
  <2>2. totalSent + inFlight = p /\ inFlight = Len(completed) + Len(pending)
    BY <2>1 DEF IInv, InLoop, Positions
  <2>3. Len(pending) \in Nat /\ Len(completed) \in Nat /\ totalSent \in Nat
    BY BoundsAssumption DEF IInv, Kernel, Counters
  <2>4. Len(completed) = 0 /\ totalSent = chunks
    BY <2>1, <2>2, <2>3
  <2>5. wire = FirstChunks(totalSent + Len(completed))
    BY <2>1, <2>4 DEF Received, NoneFailed
  <2>6. totalSent + Len(completed) = chunks
    BY <2>3, <2>4
  <2>7. QED
    BY <2>1, <2>4, <2>5, <2>6
<1>3. CASE Serve \/ Break
  <2>1. result = "ok" /\ pending # << >>
    BY <1>3 DEF Serve, Break
  <2>2. QED
    BY <2>1 DEF Success, IInv, Idle
<1>4. CASE Disconnect \/ UNCHANGED vars
  <2>1. result = "ok" /\ pc' = pc /\ wire' = wire /\ totalSent' = totalSent
        /\ chunks' = chunks /\ whole' = whole /\ impl' = impl
    BY <1>4 DEF Disconnect, vars
  <2>2. QED
    BY <2>1 DEF Success
<1>5. CASE Submit \/ SubmitFails \/ Reap \/ ReapFails \/ Discard \/ DrainReap \/ SendFails
  <2>1. (pc # "idle" /\ result' = result) \/ result' = "fail"
    BY <1>5 DEF Submit, SubmitFails, Reap, ReapFails, Discard, DrainReap, SendFails
  <2>2. QED
    BY <2>1 DEF Success
<1>6. QED
  BY <1>1, <1>2, <1>3, <1>4, <1>5 DEF Next, SenderStep

\* Whatever the number of chunks and the depth of the pipeline, however the kernel and an
\* unplugged cable interleave with the loop: a send that returns the size of its buffer has
\* put every chunk on the wire once and in order.
THEOREM SuccessDelivers == Spec => []SuccessIsComplete
<1>1. Init => Delivery
  BY DEF Init, Delivery, InOrder, Received, Success
<1>2. IInv /\ Delivery /\ [Next]_vars => Delivery'
  BY StepInOrder, StepReceived, StepSuccess DEF Delivery
<1>3. Delivery => SuccessIsComplete
  BY DEF Delivery, Success, SuccessIsComplete, FirstChunks
<1>4. QED
  BY <1>1, <1>2, <1>3, Inductive, PTL DEF Spec
=============================================================================
