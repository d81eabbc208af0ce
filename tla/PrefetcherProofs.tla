-------------------------- MODULE PrefetcherProofs --------------------------
(***************************************************************************)
(* Proofs about Prefetcher, for every number of slots and of windows.      *)
(*                                                                         *)
(* The inductive invariant is TypeOK /\ RingInv: TypeOK alone is not       *)
(* inductive, for nothing in it keeps an index below NumSlots windows from *)
(* the others, and LeaseIsStable follows from RingInv because two windows  *)
(* less than a round apart lie in different slots (ModDistinct).           *)
(***************************************************************************)
EXTENDS Prefetcher, TLAPS

\* Quotient and remainder of an index computed modulo the size of a ring.
LEMMA DivMod ==
  ASSUME NEW n \in Nat, NEW m \in Nat \ {0}
  PROVE  /\ n \div m \in Nat /\ n % m \in 0 .. m - 1
         /\ n = m * (n \div m) + (n % m)
OBVIOUS

\* Distinct multiples of m are at least m apart.
LEMMA MulStep ==
  ASSUME NEW m \in Nat \ {0}, NEW p \in Nat, NEW q \in Nat, p < q
  PROVE  m * p + m <= m * q
<1>1. q - p \in Nat \ {0}
  OBVIOUS
<1>2. PICK e \in Nat : q = p + 1 + e
  <2>1. q - p - 1 \in Nat
    OBVIOUS
  <2> QED BY <2>1
<1>3. m * q = m * p + m + m * e
  BY <1>2
<1>4. m * e >= 0
  OBVIOUS
<1> QED BY <1>3, <1>4

\* Quotient and remainder are determined by the number.
LEMMA ModUnique ==
  ASSUME NEW m \in Nat \ {0}, NEW p \in Nat, NEW q \in Nat,
         NEW r \in 0 .. m - 1, NEW s \in 0 .. m - 1,
         m * p + r = m * q + s
  PROVE  p = q /\ r = s
<1>1. ~(p < q)
  BY MulStep, m*p \in Nat, m*q \in Nat
<1>2. ~(q < p)
  BY MulStep, m*p \in Nat, m*q \in Nat
<1> QED BY <1>1, <1>2, m*p \in Nat, m*q \in Nat

\* Advancing a ring index, (i + 1) % m, advances the count it stands for:
\* what write_idx_, read_idx_ and the URB slots of the source rely on.
LEMMA ModSucc ==
  ASSUME NEW n \in Nat, NEW m \in Nat \ {0}
  PROVE  ((n % m) + 1) % m = (n + 1) % m
<1> DEFINE q == n \div m
           r == n % m
           u == (n + 1) \div m
           v == (n + 1) % m
<1>1. q \in Nat /\ r \in 0 .. m - 1 /\ n = m * q + r
  BY DivMod
<1>2. u \in Nat /\ v \in 0 .. m - 1 /\ n + 1 = m * u + v
  BY DivMod, n + 1 \in Nat
<1> HIDE DEF q, r, u, v
<1>3. CASE r + 1 < m
  <2>1. m * q + (r + 1) = m * u + v
    BY <1>1, <1>2
  <2>2. r + 1 = v
    BY <1>1, <1>2, <1>3, <2>1, ModUnique
  <2>3. (r + 1) % m = r + 1
    BY <1>1, <1>3
  <2> QED BY <2>2, <2>3 DEF r, v
<1>4. CASE r + 1 = m
  <2>1. m * (q + 1) + 0 = m * u + v
    BY <1>1, <1>2, <1>4
  <2>2. v = 0
    BY <1>1, <1>2, <2>1, ModUnique, q + 1 \in Nat, 0 \in 0 .. m - 1
  <2>3. m % m = 0
    OBVIOUS
  <2> QED BY <1>4, <2>2, <2>3 DEF r, v
<1> QED BY <1>1, <1>3, <1>4

\* Two counts less than one round apart have different ring indices.
LEMMA ModDistinct ==
  ASSUME NEW a \in Nat, NEW b \in Nat, NEW m \in Nat \ {0}, a < b, b < a + m
  PROVE  a % m # b % m
<1> SUFFICES ASSUME a % m = b % m PROVE FALSE
  OBVIOUS
<1> DEFINE p == a \div m
           q == b \div m
           r == a % m
<1>1. p \in Nat /\ q \in Nat /\ a = m * p + r /\ b = m * q + r /\ r \in 0 .. m - 1
  BY DivMod
<1> HIDE DEF p, q, r
<1>2. m * p \in Nat /\ m * q \in Nat
  BY <1>1
<1>3. m * p < m * q /\ m * q < m * p + m
  <2> DEFINE x == m * p
             y == m * q
  <2>1. x \in Nat /\ y \in Nat /\ r \in Nat /\ a = x + r /\ b = y + r
    BY <1>1, <1>2
  <2> HIDE DEF x, y
  <2>2. x < y /\ y < x + m
    BY <2>1
  <2> QED BY <2>2 DEF x, y
<1>4. ~(p < q)
  BY <1>1, <1>3, <1>2, MulStep
<1>5. ~(q < p)
  BY <1>1, <1>3, <1>2, MulStep
<1> QED BY <1>1, <1>3, <1>4, <1>5, <1>2

\* A full round comes back to the same index.
LEMMA ModPeriod ==
  ASSUME NEW n \in Nat, NEW m \in Nat \ {0}
  PROVE  (n + m) % m = n % m
<1> DEFINE q == n \div m
           r == n % m
           u == (n + m) \div m
           v == (n + m) % m
<1>1. q \in Nat /\ r \in 0 .. m - 1 /\ n = m * q + r
  BY DivMod
<1>2. u \in Nat /\ v \in 0 .. m - 1 /\ n + m = m * u + v
  BY DivMod, n + m \in Nat
<1> HIDE DEF q, r, u, v
<1>3. m * (q + 1) + r = m * u + v
  BY <1>1, <1>2
<1>4. r = v
  BY <1>1, <1>2, <1>3, ModUnique, q + 1 \in Nat
<1> QED BY <1>4 DEF r, v

IInv == TypeOK /\ RingInv

\* The index after a slot is the index of the count after.
LEMMA SuccIdx ==
  ASSUME NEW n \in Nat
  PROVE  /\ n % NumSlots \in Slots
         /\ Succ(n % NumSlots) = (n + 1) % NumSlots
         /\ Succ(n % NumSlots) \in Slots
BY SlotsAssumption, ModSucc, DivMod, n + 1 \in Nat DEF Slots, Succ

\* Writing one flag of an array of flags leaves an array of flags.
LEMMA FlagUpdate ==
  ASSUME NEW S, NEW f \in [S -> BOOLEAN], NEW i, NEW b \in BOOLEAN
  PROVE  [f EXCEPT ![i] = b] \in [S -> BOOLEAN]
OBVIOUS

\* The invariant holds initially.
LEMMA InitIInv == Init => IInv
<1> SUFFICES ASSUME Init PROVE IInv
  OBVIOUS
<1> USE SlotsAssumption, NumWindowsAssumption DEF Init
<1>0. 0 \in Slots /\ 0 \in 0 .. NumWindows
  BY DEF Slots
<1>1. TypeOK
  BY <1>0 DEF TypeOK, ReaderPC, ConsumerPC
<1>2. Freed = 0 /\ ~Pending
  BY DEF Freed, Pending
<1>3. 0 % NumSlots = 0
  OBVIOUS
<1>4. RingInv
  BY <1>2, <1>3 DEF RingInv, SentInv, CountInv, FilledInv, ContentInv, FillInv
<1> QED BY <1>1, <1>4 DEF IInv

\* Every step keeps every variable in its type, given the invariant.
LEMMA NextTypeOK ==
  ASSUME IInv, [Next]_vars
  PROVE  TypeOK'
<1> USE SlotsAssumption, NumWindowsAssumption
<1>0. TypeOK /\ CountInv
  BY DEF IInv, RingInv
<1> USE <1>0 DEF TypeOK, ReaderPC, ConsumerPC, WakeReader, WakeConsumer,
                 readerVars, consumerVars
<1>a. Succ(writeIdx) \in Slots /\ Succ(readIdx) \in Slots
  BY SuccIdx DEF CountInv
<1>1. CASE ReaderTest
  <2>1. slots' \in [Slots -> 0 .. NumWindows]
    BY <1>1 DEF ReaderTest
  <2>2. done' \in BOOLEAN
    BY <1>1, Zenon DEF ReaderTest
  <2>3. reader' \in ReaderPC /\ consumer' \in ConsumerPC
    BY <1>1 DEF ReaderTest
  <2> QED BY <1>1, <2>1, <2>2, <2>3 DEF ReaderTest
<1>2. CASE \E r \in {"end", "window", "fail", "throw"} : FillReturn(r)
  <2> PICK r \in {"end", "window", "fail", "throw"} : FillReturn(r)
    BY <1>2
  <2>1. sent' \in 0 .. NumWindows /\ slots' \in [Slots -> 0 .. NumWindows]
    BY DEF FillReturn
  <2> QED BY <2>1 DEF FillReturn
<1>3. CASE Store
  <2>0. \/ UNCHANGED <<filled, writeIdx, published>>
        \/ /\ filled' = [filled EXCEPT ![writeIdx] = TRUE]
           /\ writeIdx' = Succ(writeIdx) /\ published' = published + 1
    BY <1>3, Zenon DEF Store
  <2>1a. filled' \in [Slots -> BOOLEAN]
    BY <2>0, FlagUpdate, Zenon
  <2>1. writeIdx' \in Slots /\ published' \in Nat
    BY <2>0, <1>a
  <2>2. error' \in BOOLEAN
    BY <1>3 DEF Store
  <2>3. done' \in BOOLEAN
    BY <1>3, Zenon DEF Store
  <2> QED BY <1>3, <2>1a, <2>1, <2>2, <2>3 DEF Store
<1>4. CASE Catch
  BY <1>4 DEF Catch
<1>5. CASE ReaderNotify
  BY <1>5 DEF ReaderNotify
<1>6. CASE TakeNext
  BY <1>6, <1>a DEF TakeNext
<1>7. CASE Release
  BY <1>7 DEF Release
<1>8. CASE ReleaseNotify \/ Leave \/ ReadStatus
  <2>1. CASE ReleaseNotify
    BY <2>1 DEF ReleaseNotify
  <2>2. CASE Leave
    BY <2>2 DEF Leave
  <2>3. CASE ReadStatus
    BY <2>3 DEF ReadStatus
  <2> QED BY <1>8, <2>1, <2>2, <2>3
<1>9. CASE StopFlag \/ StopNotify \/ StopToken \/ Join
  <2>1. CASE StopFlag
    BY <2>1 DEF StopFlag
  <2>2. CASE StopNotify
    BY <2>2 DEF StopNotify
  <2>3. CASE StopToken
    BY <2>3 DEF StopToken
  <2>4. CASE Join
    BY <2>4 DEF Join
  <2> QED BY <1>9, <2>1, <2>2, <2>3, <2>4
<1>10. CASE UNCHANGED vars
  BY <1>10 DEF vars
<1> QED
  BY <1>1, <1>2, <1>3, <1>4, <1>5, <1>6, <1>7, <1>8, <1>9, <1>10
  DEF Next, ReaderNext, ConsumerNext, Terminated

(***************************************************************************)
(* RingInv is preserved.  Most steps leave the ring alone: they only move  *)
(* a thread, and change none of the parts of the invariant.                *)
(***************************************************************************)

\* What RingInv speaks of, apart from the locations of the two threads.
ringVars == <<slots, filled, writeIdx, readIdx, held, sent, published, taken>>

\* A step that moves the reader between its locations outside fill and store,
\* or the sender between its locations other than the lease, keeps RingInv.
LEMMA QuietStep ==
  ASSUME RingInv, UNCHANGED ringVars,
         (consumer' = "lease") = (consumer = "lease"),
         \/ UNCHANGED <<reader, outcome>>
         \/ /\ reader \in {"test", "asleep", "notify"}
            /\ reader' \in {"test", "asleep", "exit", "wakeAll"}
         \/ reader' \in {"exit", "wakeAll"}
  PROVE  RingInv'
<1>1. Freed' = Freed
  BY DEF Freed, ringVars
<1>2. SentInv' /\ FillInv'
  BY DEF RingInv, SentInv, FillInv, Pending, ringVars
<1>3. CountInv' /\ FilledInv' /\ ContentInv'
  BY <1>1 DEF RingInv, CountInv, FilledInv, ContentInv, ringVars
<1> QED BY <1>2, <1>3 DEF RingInv

\* Beginning a fill: the slot written is not one of those that hold windows.
LEMMA BeginFillStep ==
  ASSUME IInv, reader = "test", ~filled[writeIdx],
         reader' = "fill", slots' = [slots EXCEPT ![writeIdx] = 0],
         UNCHANGED <<filled, writeIdx, readIdx, held, sent, published, taken, outcome, consumer>>
  PROVE  RingInv'
<1> USE DEF IInv, RingInv
<1>1. Freed' = Freed
  BY DEF Freed
<1>2. SentInv' /\ CountInv' /\ FilledInv' /\ FillInv'
  BY <1>1 DEF SentInv, CountInv, FilledInv, FillInv, Pending
<1>3. ContentInv'
  <2> SUFFICES ASSUME NEW k \in Freed .. published - 1
               PROVE  slots'[k % NumSlots] = k + 1
    BY <1>1 DEF ContentInv
  <2>1. k \in Nat /\ k % NumSlots \in Slots
    BY SuccIdx DEF CountInv, TypeOK
  <2>2. filled[k % NumSlots]
    BY <2>1 DEF FilledInv
  <2> QED BY <2>1, <2>2 DEF ContentInv, TypeOK
<1> QED BY <1>2, <1>3

\* A fill returns: the slot it may have written is free.
LEMMA FillReturnStep ==
  ASSUME IInv, NEW r \in {"end", "window", "fail", "throw"}, FillReturn(r)
  PROVE  RingInv'
<1> USE DEF IInv, RingInv
<1>1. Freed' = Freed /\ ~filled[writeIdx] /\ reader' = "store" /\ outcome' = r
  BY DEF FillReturn, Freed, FillInv, consumerVars
<1>2. sent = published
  BY DEF FillReturn, SentInv
<1>3. SentInv'
  BY <1>1, <1>2 DEF SentInv, FillReturn, Pending, TypeOK
<1>4. CountInv' /\ FilledInv'
  BY <1>1 DEF FillReturn, CountInv, FilledInv, consumerVars
<1>5. FillInv'
  BY <1>1, <1>2 DEF FillInv, FillReturn, Pending, TypeOK
<1>6. ContentInv'
  <2> SUFFICES ASSUME NEW k \in Freed .. published - 1
               PROVE  slots'[k % NumSlots] = k + 1
    BY <1>1 DEF ContentInv, FillReturn
  <2>1. k \in Nat /\ k % NumSlots \in Slots
    BY SuccIdx DEF CountInv, TypeOK
  <2>2. filled[k % NumSlots]
    BY <2>1 DEF FilledInv
  <2>3. k % NumSlots # writeIdx
    BY <1>1, <2>2
  <2>4. slots'[k % NumSlots] = slots[k % NumSlots]
    BY <2>1, <2>3 DEF FillReturn, TypeOK
  <2> QED BY <2>4 DEF ContentInv
<1> QED BY <1>3, <1>4, <1>5, <1>6

\* Storing a window: the ring was not full, for the slot written was free.
LEMMA StoreWindowStep ==
  ASSUME IInv, reader = "store", outcome = "window",
         filled' = [filled EXCEPT ![writeIdx] = TRUE],
         writeIdx' = Succ(writeIdx), published' = published + 1,
         reader' = "notify",
         UNCHANGED <<slots, readIdx, held, sent, taken, outcome, consumer>>
  PROVE  RingInv'
<1> USE SlotsAssumption DEF IInv, RingInv
<1>1. Freed' = Freed /\ Pending
  BY DEF Freed, Pending
<1>2. /\ Freed \in Nat /\ taken \in Nat /\ published \in Nat /\ NumSlots \in Nat
      /\ Freed <= taken /\ taken <= published /\ published <= Freed + NumSlots
      /\ writeIdx = published % NumSlots /\ ~filled[writeIdx]
      /\ slots[writeIdx] = published + 1
  BY <1>1 DEF CountInv, FillInv, TypeOK
<1>3. published < Freed + NumSlots
  <2> SUFFICES ASSUME published = Freed + NumSlots PROVE FALSE
    BY <1>2
  <2>1. writeIdx = Freed % NumSlots
    BY <1>2, ModPeriod
  <2>2. Freed \in Freed .. published - 1
    BY <1>2
  <2>3. writeIdx \in Slots
    BY DEF TypeOK
  <2> QED BY <1>2, <2>1, <2>2, <2>3 DEF FilledInv
<1>4. SentInv'
  BY <1>1 DEF SentInv, Pending, TypeOK
<1>5. CountInv'
  <2>1. writeIdx' = published' % NumSlots
    BY <1>2, SuccIdx
  <2> QED BY <1>1, <1>2, <1>3, <2>1 DEF CountInv
<1>6. FilledInv'
  <2>0. Freed' .. published' - 1 = Freed .. published
    BY <1>1, <1>2
  <2> SUFFICES ASSUME NEW i \in Slots
               PROVE  filled'[i] <=> \E k \in Freed .. published : i = k % NumSlots
    BY <2>0 DEF FilledInv
  <2>1. CASE i = writeIdx
    <3>1. published \in Freed .. published
      BY <1>2
    <3>2. filled'[i]
      BY <2>1 DEF TypeOK
    <3> QED BY <1>2, <2>1, <3>1, <3>2
  <2>2. CASE i # writeIdx
    <3>1. filled'[i] = filled[i]
      BY <2>2 DEF TypeOK
    <3>2. (\E k \in Freed .. published : i = k % NumSlots) <=>
          (\E k \in Freed .. published - 1 : i = k % NumSlots)
      <4>1. \A k : k \in Freed .. published <=> k \in Freed .. published - 1 \/ k = published
        BY <1>2
      <4> QED BY <1>2, <2>2, <4>1, Zenon
    <3> QED BY <3>1, <3>2 DEF FilledInv
  <2> QED BY <2>1, <2>2
<1>7. ContentInv'
  BY <1>1, <1>2 DEF ContentInv
<1>8. FillInv'
  BY <1>1 DEF FillInv, Pending
<1> QED BY <1>4, <1>5, <1>6, <1>7, <1>8

\* next() leases a slot: it is the slot of the window after the last taken.
LEMMA LeaseStep ==
  ASSUME IInv, consumer # "lease", filled[readIdx],
         held' = readIdx, readIdx' = Succ(readIdx), taken' = taken + 1,
         consumer' = "lease",
         UNCHANGED <<slots, filled, writeIdx, sent, published, reader, outcome>>
  PROVE  RingInv'
<1> USE SlotsAssumption DEF IInv, RingInv
<1>1. Freed = taken /\ taken \in Nat /\ published \in Nat /\ readIdx = taken % NumSlots
  BY DEF Freed, CountInv, TypeOK
<1>2. Freed' = Freed
  BY <1>1 DEF Freed
<1>3. taken < published
  <2>1. PICK k \in Freed .. published - 1 : readIdx = k % NumSlots
    BY DEF FilledInv, TypeOK
  <2> QED BY <1>1, <2>1
<1>4. SentInv' /\ FillInv'
  BY DEF SentInv, FillInv, Pending
<1>5. readIdx' = taken' % NumSlots
  BY <1>1, SuccIdx
<1>6. CountInv'
  BY <1>1, <1>2, <1>3, <1>5 DEF CountInv
<1>7. FilledInv' /\ ContentInv'
  BY <1>2 DEF FilledInv, ContentInv
<1> QED BY <1>4, <1>6, <1>7

\* ~Lease frees the slot of the oldest window and of no other.
LEMMA ReleaseStep ==
  ASSUME IInv, consumer = "lease",
         filled' = [filled EXCEPT ![held] = FALSE],
         consumer' = "released",
         UNCHANGED <<slots, writeIdx, readIdx, held, sent, published, taken, reader, outcome>>
  PROVE  RingInv'
<1> USE SlotsAssumption DEF IInv, RingInv
<1>1. /\ Freed \in Nat /\ taken = Freed + 1 /\ Freed' = Freed + 1
      /\ held = Freed % NumSlots /\ held \in Slots
      /\ published \in Nat /\ taken <= published /\ published <= Freed + NumSlots
  BY DEF Freed, CountInv, TypeOK
<1>2. SentInv'
  BY DEF SentInv, Pending
<1>3. CountInv'
  BY <1>1 DEF CountInv
<1>4. FilledInv'
  <2> SUFFICES ASSUME NEW i \in Slots
               PROVE  filled'[i] <=> \E k \in Freed + 1 .. published - 1 : i = k % NumSlots
    BY <1>1 DEF FilledInv
  <2>1. CASE i = held
    <3>1. ~filled'[i]
      BY <2>1 DEF TypeOK
    <3>2. ASSUME NEW k \in Freed + 1 .. published - 1 PROVE i # k % NumSlots
      <4>1. k \in Nat /\ Freed < k /\ k < Freed + NumSlots
        BY <1>1
      <4> QED BY <1>1, <2>1, <4>1, ModDistinct
    <3> QED BY <3>1, <3>2
  <2>2. CASE i # held
    <3>1. filled'[i] = filled[i]
      BY <2>2 DEF TypeOK
    <3>2. (\E k \in Freed + 1 .. published - 1 : i = k % NumSlots) <=>
          (\E k \in Freed .. published - 1 : i = k % NumSlots)
      <4>1. \A k : k \in Freed .. published - 1 <=>
                     k \in Freed + 1 .. published - 1 \/ k = Freed
        BY <1>1
      <4> QED BY <1>1, <2>2, <4>1, Zenon
    <3> QED BY <3>1, <3>2 DEF FilledInv
  <2> QED BY <2>1, <2>2
<1>5. ContentInv'
  BY <1>1 DEF ContentInv
<1>6. FillInv'
  BY DEF FillInv, Pending, TypeOK
<1> QED BY <1>2, <1>3, <1>4, <1>5, <1>6

\* Every step preserves the ring invariant.
LEMMA NextRingInv ==
  ASSUME IInv, [Next]_vars
  PROVE  RingInv'
<1> USE DEF readerVars, consumerVars, WakeReader, WakeConsumer
<1>0. RingInv
  BY DEF IInv
<1>1. CASE ReaderTest
  <2>1. CASE reader' = "fill"
    <3>1. ~filled[writeIdx] /\ UNCHANGED consumer /\ slots' = [slots EXCEPT ![writeIdx] = 0]
      BY <1>1, <2>1 DEF ReaderTest, CanFill
    <3> QED BY <1>1, <2>1, <3>1, BeginFillStep DEF ReaderTest
  <2>2. CASE reader' # "fill"
    <3>1. reader = "test" /\ reader' \in {"exit", "asleep"}
      BY <1>1, <2>2 DEF ReaderTest
    <3>2. UNCHANGED ringVars /\ (consumer' = "lease") = (consumer = "lease")
      BY <1>1, <2>2 DEF ReaderTest, ringVars
    <3> QED BY <1>0, <3>1, <3>2, QuietStep
  <2> QED BY <2>1, <2>2
<1>2. CASE \E r \in {"end", "window", "fail", "throw"} : FillReturn(r)
  BY <1>2, FillReturnStep
<1>3. CASE Store
  <2>1. CASE reader' = "notify"
    BY <1>3, <2>1, StoreWindowStep DEF Store
  <2>2. CASE reader' # "notify"
    <3>1. reader' = "exit"
      BY <1>3, <2>2 DEF Store
    <3>2. UNCHANGED ringVars /\ (consumer' = "lease") = (consumer = "lease")
      BY <1>3, <2>2 DEF Store, ringVars
    <3> QED BY <1>0, <3>1, <3>2, QuietStep
  <2> QED BY <2>1, <2>2
<1>4. CASE Catch
  <2>1. UNCHANGED ringVars /\ UNCHANGED consumer /\ reader' = "wakeAll"
    BY <1>4 DEF Catch, ringVars
  <2> QED BY <1>0, <2>1, QuietStep
<1>5. CASE ReaderNotify
  <2>1. UNCHANGED ringVars /\ (consumer' = "lease") = (consumer = "lease")
    BY <1>5 DEF ReaderNotify, ringVars
  <2>2. \/ reader = "notify" /\ reader' = "test"
        \/ reader' = "exit"
    BY <1>5 DEF ReaderNotify
  <2> QED BY <1>0, <2>1, <2>2, QuietStep
<1>6. CASE TakeNext
  <2>1. CASE consumer' = "lease"
    BY <1>6, <2>1, LeaseStep DEF TakeNext, NoMore
  <2>2. CASE consumer' # "lease"
    <3>1. UNCHANGED ringVars /\ consumer # "lease" /\ UNCHANGED <<reader, outcome>>
      BY <1>6, <2>2 DEF TakeNext, ringVars
    <3> QED BY <1>0, <2>2, <3>1, QuietStep
  <2> QED BY <2>1, <2>2
<1>7. CASE Release
  BY <1>7, ReleaseStep DEF Release
<1>8. CASE ReleaseNotify \/ StopNotify
  <2>1. /\ UNCHANGED ringVars /\ UNCHANGED outcome
        /\ consumer # "lease" /\ consumer' # "lease"
        /\ reader' = reader \/ (reader = "asleep" /\ reader' = "test")
    BY <1>8 DEF ReleaseNotify, StopNotify, ringVars
  <2> QED BY <1>0, <2>1, QuietStep
<1>9. CASE Leave \/ ReadStatus \/ StopFlag \/ StopToken \/ Join
  <2>1. /\ UNCHANGED ringVars /\ UNCHANGED <<reader, outcome>>
        /\ consumer # "lease" /\ consumer' # "lease"
    BY <1>9 DEF Leave, ReadStatus, StopFlag, StopToken, Join, ringVars
  <2> QED BY <1>0, <2>1, QuietStep
<1>10. CASE UNCHANGED vars
  <2>1. UNCHANGED ringVars /\ UNCHANGED <<reader, outcome, consumer>>
    BY <1>10 DEF vars, ringVars
  <2> QED BY <1>0, <2>1, QuietStep
<1> QED
  BY <1>1, <1>2, <1>3, <1>4, <1>5, <1>6, <1>7, <1>8, <1>9, <1>10
  DEF Next, ReaderNext, ConsumerNext, Terminated

(***************************************************************************)
(* EndInv is preserved.                                                    *)
(***************************************************************************)

\* A sender that finds its slot empty has taken every window stored.
LEMMA EmptySlotMeansAllTaken ==
  ASSUME IInv, consumer # "lease", ~filled[readIdx]
  PROVE  taken = published
<1> USE DEF IInv, RingInv
<1>1. Freed = taken /\ taken \in Nat /\ published \in Nat
      /\ taken <= published /\ readIdx = taken % NumSlots /\ readIdx \in Slots
  BY DEF Freed, CountInv, TypeOK
<1> SUFFICES ASSUME taken # published PROVE FALSE
  OBVIOUS
<1>2. taken \in Freed .. published - 1
  BY <1>1
<1> QED BY <1>1, <1>2 DEF FilledInv

\* Every step preserves what is known of the end of the stream.
LEMMA NextEndInv ==
  ASSUME IInv, EndInv, [Next]_vars
  PROVE  EndInv'
<1> USE NumWindowsAssumption DEF EndInv, readerVars, consumerVars, WakeReader, WakeConsumer
<1>1. CASE ReaderTest
  BY <1>1 DEF ReaderTest
<1>2. CASE \E r \in {"end", "window", "fail", "throw"} : FillReturn(r)
  BY <1>2 DEF FillReturn
<1>3. CASE Store
  <2>1. outcome # "window" => sent = published
    BY <1>3 DEF Store, IInv, RingInv, SentInv, Pending, TypeOK
  <2>2. CASE reader' = "notify"
    <3>1. ~done /\ UNCHANGED <<done, error, consumer, sent, stopReq, stopping, taken, ended, status>>
      BY <1>3, <2>2 DEF Store
    <3> QED BY <2>2, <3>1
  <2>3. CASE reader' = "exit"
    <3>1. /\ done' /\ UNCHANGED <<published, stopReq, stopping, taken, ended, status>>
          /\ consumer' = consumer \/ (consumer = "asleep" /\ consumer' = "woken")
      BY <1>3, <2>3 DEF Store
    <3>2. /\ error => error'
          /\ ~stopping /\ ~error' => outcome \in {"none", "end"} /\ ~stopReq
      BY <1>3, <2>3 DEF Store, IInv, TypeOK
    <3>3. ~done
      BY <1>3 DEF Store
    <3>4. ~stopping /\ ~error' => published = NumWindows
      BY <1>3, <2>1, <3>2 DEF Store
    <3> QED BY <2>3, <3>1, <3>2, <3>3, <3>4
  <2> QED BY <1>3, <2>2, <2>3 DEF Store
<1>4. CASE Catch
  BY <1>4 DEF Catch
<1>5. CASE ReaderNotify
  BY <1>5 DEF ReaderNotify
<1>6. CASE TakeNext
  <2>1. ~stopping /\ consumer # "lease"
    BY <1>6 DEF TakeNext
  <2>2. ended' = "null" /\ ended # "null" /\ ~error => done /\ taken = published
    BY <1>6, <2>1, EmptySlotMeansAllTaken DEF TakeNext, CanTake, NoMore
  <2>3. UNCHANGED <<stopReq, stopping, done, error, published, sent, reader, outcome, status>>
    BY <1>6 DEF TakeNext
  <2>4. CASE ended' = "null"
    <3>1. consumer' = "status" /\ UNCHANGED taken
      BY <1>6, <2>1, <2>4 DEF TakeNext
    <3>2. error => done
      OBVIOUS
    <3>3. done
      <4>1. ended # "null"
        BY <1>6 DEF TakeNext
      <4> QED BY <2>2, <2>4, <3>2, <4>1, Zenon
    <3>4. ~error => taken = NumWindows
      BY <1>6, <2>1, <2>2, <2>4, <3>3 DEF TakeNext
    <3>5. status # "ok"
      BY <1>6, <2>1 DEF TakeNext
    <3>6. consumer \in {"loop", "woken"} /\ ended = "no"
      BY <1>6 DEF TakeNext
    <3> QED BY <2>1, <2>3, <2>4, <3>1, <3>3, <3>4, <3>5, <3>6 DEF IInv, TypeOK
  <2>5. CASE ended' # "null"
    BY <1>6, <2>3, <2>5 DEF TakeNext
  <2> QED BY <2>4, <2>5
<1>7. CASE Release
  BY <1>7 DEF Release
<1>8. CASE ReleaseNotify
  BY <1>8 DEF ReleaseNotify
<1>9. CASE Leave
  BY <1>9 DEF Leave
<1>10. CASE ReadStatus
  BY <1>10 DEF ReadStatus
<1>11. CASE StopFlag
  BY <1>11 DEF StopFlag
<1>12. CASE StopNotify
  BY <1>12 DEF StopNotify
<1>13. CASE StopToken
  BY <1>13 DEF StopToken
<1>14. CASE Join
  BY <1>14 DEF Join
<1>15. CASE UNCHANGED vars
  BY <1>15 DEF vars
<1> QED
  BY <1>1, <1>2, <1>3, <1>4, <1>5, <1>6, <1>7, <1>8, <1>9, <1>10, <1>11,
     <1>12, <1>13, <1>14, <1>15
  DEF Next, ReaderNext, ConsumerNext, Terminated

-----------------------------------------------------------------------------
(***************************************************************************)
(* Theorems.                                                               *)
(***************************************************************************)

\* The fields of TwoSlotPrefetcher keep their types, and the ring invariant
\* (the ring is a queue of at most NumSlots windows, and done_ is set for a
\* reason the sender can see) holds in every state.
THEOREM PrefetcherCorrect == Spec => [](TypeOK /\ PrefetcherInv)
<1>1. Init => EndInv
  BY NumWindowsAssumption DEF Init, EndInv
<1>2. IInv /\ EndInv /\ [Next]_vars => (IInv /\ EndInv)'
  BY NextTypeOK, NextRingInv, NextEndInv DEF IInv
<1>3. Spec => [](IInv /\ EndInv)
  BY <1>1, <1>2, InitIInv, PTL DEF Spec
<1>4. IInv /\ EndInv => TypeOK /\ PrefetcherInv
  BY DEF IInv, PrefetcherInv
<1> QED BY <1>3, <1>4, PTL

\* In a state of the invariant, a leased slot holds the window it was leased
\* for and is not the slot being written.
LEMMA InvLeaseIsStable ==
  ASSUME IInv PROVE LeaseIsStable
<1> SUFFICES ASSUME consumer = "lease"
             PROVE  /\ slots[held] = taken
                    /\ ~(reader \in {"fill", "store"} /\ writeIdx = held)
  BY DEF LeaseIsStable
<1> USE DEF IInv, RingInv
<1>1. /\ Freed = taken - 1 /\ Freed \in Nat /\ taken \in Nat /\ published \in Nat
      /\ taken <= published /\ held = Freed % NumSlots /\ held \in Slots
  BY DEF Freed, CountInv, TypeOK
<1>2. Freed \in Freed .. published - 1
  BY <1>1
<1>3. slots[held] = taken
  BY <1>1, <1>2 DEF ContentInv
<1>4. filled[held]
  BY <1>1, <1>2 DEF FilledInv
<1> QED BY <1>3, <1>4 DEF FillInv

\* The sending threads read a leased slot undisturbed: the reader thread never
\* writes it, whatever the number of slots and windows.
THEOREM LeaseStable == Spec => []LeaseIsStable
<1>1. TypeOK /\ PrefetcherInv => LeaseIsStable
  BY InvLeaseIsStable DEF IInv, PrefetcherInv
<1> QED BY <1>1, PrefetcherCorrect, PTL

\* An image that ended early without the sender asking for it is reported as an
\* error by status().
THEOREM TruncationReported == Spec => []TruncationIsReported
<1>1. TypeOK /\ PrefetcherInv => TruncationIsReported
  BY NumWindowsAssumption DEF PrefetcherInv, EndInv, TruncationIsReported, TypeOK
<1> QED BY <1>1, PrefetcherCorrect, PTL

(***************************************************************************)
(* The prefetcher implements the stream of windows.                        *)
(***************************************************************************)

\* The initial state of the prefetcher is that of the stream.
LEMMA InitStream == Init => Stream!StreamInit
BY DEF Init, Stream!StreamInit

\* Every step of the two threads is a step of the stream or leaves it as it is.
LEMMA StepStream ==
  ASSUME IInv, EndInv, IInv', EndInv', [Next]_vars
  PROVE  [Stream!StreamNext]_Stream!streamVars
<1> USE DEF readerVars, consumerVars, WakeReader, WakeConsumer
<1>0. LeaseIsStable /\ LeaseIsStable'
  <2>1. LeaseIsStable
    BY InvLeaseIsStable
  <2>2. LeaseIsStable'
    BY InvLeaseIsStable, PTL
  <2> QED BY <2>1, <2>2
<1> DEFINE H == IF consumer = "lease" THEN slots[held] ELSE 0
           O == CASE ended = "no"   -> "open"
                  [] ended = "left" -> "closed"
                  [] ended = "null" -> IF error THEN "failed" ELSE "end"
<1>H. H = IF consumer = "lease" THEN taken ELSE 0
  BY <1>0 DEF LeaseIsStable
<1>HP. H' = IF consumer' = "lease" THEN taken' ELSE 0
  BY <1>0 DEF LeaseIsStable
<1>O. ended # "null" => O = IF ended = "no" THEN "open" ELSE "closed"
  BY DEF IInv, TypeOK
<1>OP. ended' # "null" => O' = IF ended' = "no" THEN "open" ELSE "closed"
  BY DEF IInv, TypeOK
<1> HIDE DEF H
\* A step that moves neither the lease nor the verdict is a stutter.
<1>S. ASSUME UNCHANGED <<taken, ended>>, ended = "null" => UNCHANGED error,
             (consumer' = "lease") = (consumer = "lease")
      PROVE  UNCHANGED <<taken, H, O>>
  <2>1. H' = H
    BY <1>S, <1>H, <1>HP
  <2> QED BY <1>S, <2>1
<1> HIDE DEF O
<1> SUFFICES \/ UNCHANGED <<taken, H, O>>
             \/ Stream!StreamNext
  BY DEF Stream!streamVars, H, O
<1> USE DEF Stream!StreamNext
<1>1. CASE ReaderNext
  <2>1. UNCHANGED <<taken, ended>> /\ (consumer' = "lease") = (consumer = "lease")
    BY <1>1 DEF ReaderNext, ReaderTest, FillReturn, Store, Catch, ReaderNotify
  <2>2. ended = "null" => UNCHANGED error
    BY <1>1 DEF ReaderNext, ReaderTest, FillReturn, Store, Catch, ReaderNotify, EndInv
  <2> QED BY <2>1, <2>2, <1>S
<1>2. CASE TakeNext
  <2>1. CASE consumer' = "lease"
    <3>1. /\ consumer # "lease" /\ taken' = taken + 1 /\ ended = "no" /\ ended' = "no"
      BY <1>2, <2>1 DEF TakeNext, EndInv
    <3>2. taken < NumWindows
      <4>1. taken' <= published' /\ published' <= sent' /\ sent' <= NumWindows
        BY DEF IInv, RingInv, CountInv, SentInv, TypeOK
      <4> QED BY <3>1, <4>1, NumWindowsAssumption DEF IInv, TypeOK
    <3>3. O = "open" /\ O' = "open" /\ H = 0 /\ H' = taken + 1
      BY <2>1, <3>1, <1>H, <1>HP, <1>O, <1>OP
    <3> QED BY <3>1, <3>2, <3>3 DEF Stream!Deliver, H, O
  <2>2. CASE consumer' = "asleep"
    BY <1>2, <2>2, <1>S DEF TakeNext
  <2>3. CASE consumer' = "status"
    <3>1. /\ consumer # "lease" /\ ended = "no" /\ ended' = "null" /\ UNCHANGED taken
      BY <1>2, <2>3 DEF TakeNext, EndInv
    <3>2. O = "open" /\ O' = (IF error' THEN "failed" ELSE "end") /\ H = 0 /\ H' = 0
      BY <2>3, <3>1, <1>H, <1>HP, <1>O DEF O
    <3>3. ~error' => taken = NumWindows
      BY <3>1 DEF EndInv
    <3> QED BY <3>1, <3>2, <3>3 DEF Stream!End, Stream!Fail, H, O
  <2> QED BY <1>2, <2>1, <2>2, <2>3 DEF TakeNext
<1>3. CASE Release
  <2>1. /\ consumer = "lease" /\ consumer' # "lease" /\ UNCHANGED <<taken, ended, error>>
    BY <1>3 DEF Release
  <2>2. taken > 0
    BY <2>1 DEF IInv, RingInv, CountInv, Freed, TypeOK
  <2>3. H = taken /\ H' = 0 /\ O' = O
    BY <2>1, <1>H, <1>HP DEF O
  <2> QED BY <2>1, <2>2, <2>3 DEF Stream!Return, H, O
<1>4. CASE Leave
  <2>1. /\ consumer # "lease" /\ consumer' # "lease" /\ UNCHANGED taken
        /\ ended = "no" /\ ended' = "left"
    BY <1>4 DEF Leave, EndInv
  <2>2. O = "open" /\ O' = "closed" /\ H = 0 /\ H' = 0
    BY <2>1, <1>H, <1>HP, <1>O, <1>OP
  <2> QED BY <2>1, <2>2 DEF Stream!Close, H, O
<1>5. CASE \/ ReleaseNotify \/ ReadStatus \/ StopFlag \/ StopNotify \/ StopToken
           \/ Join \/ UNCHANGED vars
  <2>1. UNCHANGED <<taken, ended, error>> /\ (consumer' = "lease") = (consumer = "lease")
    BY <1>5 DEF ReleaseNotify, ReadStatus, StopFlag, StopNotify, StopToken, Join, vars
  <2> QED BY <2>1, <1>S
<1> QED
  BY <1>1, <1>2, <1>3, <1>4, <1>5 DEF Next, ConsumerNext, Terminated

\* The prefetcher hands over the windows of an image in order, each once and
\* intact, and says "no more" only after the last one or after an error.
THEOREM PrefetcherImplementsWindowStream == Spec => ImplementsWindowStream
<1>1. TypeOK /\ PrefetcherInv => IInv /\ EndInv
  BY DEF IInv, PrefetcherInv
<1>2. [](IInv /\ EndInv) /\ [][Next]_vars => [][Stream!StreamNext]_Stream!streamVars
  <2>1. IInv /\ EndInv /\ (IInv /\ EndInv)' /\ [Next]_vars
        => [Stream!StreamNext]_Stream!streamVars
    BY StepStream
  <2> QED BY <2>1, PTL
<1> QED
  BY <1>1, <1>2, PrefetcherCorrect, InitStream, PTL
  DEF Spec, ImplementsWindowStream, Stream!StreamSpec
=============================================================================
