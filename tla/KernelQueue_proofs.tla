-------------------------- MODULE KernelQueue_proofs --------------------------
(***************************************************************************)
(* Machine-checked facts about KernelQueue, for any tasks and messages,    *)
(* every length of the queue and every width of the tick type.             *)
(***************************************************************************)
EXTENDS KernelQueue, FiniteSetTheorems, WellFoundedInduction, TLAPS

(* Remainders within two turns of the divisor. *)
LEMMA ModWithin ==
    ASSUME NEW L \in Nat \ {0}, NEW x \in 0 .. 2 * L
    PROVE  /\ x < L => x % L = x
           /\ x >= L /\ x < 2 * L => x % L = x - L
           /\ x = 2 * L => x % L = 0
OBVIOUS

LEMMA ModBelow ==
    ASSUME NEW L \in Nat \ {0}, NEW x \in -L .. -1
    PROVE  x % L = x + L
OBVIOUS

LEMMA ModRange ==
    ASSUME NEW L \in Nat \ {0}, NEW x \in Int
    PROVE  x % L \in 0 .. L - 1
OBVIOUS

-----------------------------------------------------------------------------
(* The storage. *)

(* What a step does to the storage: a message comes at an end that has     *)
(* room, the first one goes, or nothing changes.                           *)
LEMMA StorageSteps ==
    ASSUME [Next]_vars
    PROVE  \/ HasRoom /\ \E m \in Message : CopyToBack(m) \/ CopyToFront(m)
           \/ HasMessage /\ CopyFromQueue
           \/ UNCHANGED storage
<1>1. CASE UNCHANGED vars
  BY <1>1 DEF vars
<1>2. CASE xQueueGenericSendFromISR
  BY <1>2 DEF xQueueGenericSendFromISR
<1>3. CASE xQueueReceiveFromISR
  BY <1>3 DEF xQueueReceiveFromISR
<1>4. CASE SysTick
  BY <1>4 DEF SysTick
<1>5. ASSUME NEW t \in Task, Step(t)
      PROVE  \/ HasRoom /\ \E m \in Message : CopyToBack(m) \/ CopyToFront(m)
             \/ HasMessage /\ CopyFromQueue
             \/ UNCHANGED storage
  <2>1. CASE Send(t)
    BY <2>1 DEF Send
  <2>2. CASE Receive(t)
    BY <2>2 DEF Receive
  <2>3. CASE ~Send(t) /\ ~Receive(t)
    BY <1>5, <2>3 DEF Step, Peek, PrepareToBlock, vTaskSuspendAll, prvLockQueue,
       xTaskCheckForTimeOut, prvIsQueue, PlaceOnEventList, prvUnlockTx, prvUnlockRx,
       xTaskResumeAll, UnwindTick, Resumed, Delay, PlaceDelayed, DelayUntil, PlaceUntil,
       Awake, SuspendItself, vTaskSwitchContext, Resume
  <2> QED
    BY <2>1, <2>2, <2>3
<1> QED
  BY <1>1, <1>2, <1>3, <1>4, <1>5 DEF Next

StorageInv == StorageTypeOK /\ PointersAgree

(* The write pointer as a sum instead of a remainder. *)
LEMMA PointerIs ==
    ASSUME NEW r \in Slot, NEW n \in 0 .. uxLength, NEW w \in Slot
    PROVE  w = (r + 1 + n) % uxLength <=>
             \/ w = r + 1 + n
             \/ w = r + 1 + n - uxLength
             \/ w = r + 1 + n - 2 * uxLength
<1>1. uxLength \in Nat \ {0}
  BY StorageAssumption
<1>2. r \in 0 .. uxLength - 1 /\ w \in 0 .. uxLength - 1
  BY DEF Slot
<1>3. PICK x \in 0 .. 2 * uxLength : x = r + 1 + n
  BY <1>1, <1>2
<1>4. /\ x < uxLength => x % uxLength = x
      /\ x >= uxLength /\ x < 2 * uxLength => x % uxLength = x - uxLength
      /\ x = 2 * uxLength => x % uxLength = 0
  BY <1>1, ModWithin
<1>5. w = x % uxLength <=> (w = x \/ w = x - uxLength \/ w = x - 2 * uxLength)
  <2>1. CASE x < uxLength
    BY <1>1, <1>2, <1>4, <2>1
  <2>2. CASE x >= uxLength /\ x < 2 * uxLength
    BY <1>1, <1>2, <1>4, <2>2
  <2>3. CASE x = 2 * uxLength
    BY <1>1, <1>2, <1>4, <2>3
  <2> QED
    BY <1>1, <2>1, <2>2, <2>3
<1> QED
  BY <1>1, <1>2, <1>3, <1>5

LEMMA NeighbourTypes ==
    ASSUME NEW i \in Slot
    PROVE  /\ After(i) \in Slot /\ Before(i) \in Slot
           /\ After(i) = i + 1 \/ (After(i) = 0 /\ i = uxLength - 1)
           /\ Before(i) = i - 1 \/ (Before(i) = uxLength - 1 /\ i = 0)
BY StorageAssumption DEF Slot, After, Before

(* Filling at the back, filling at the front and reading keep the pointers *)
(* in their places.                                                        *)
LEMMA BackPlaced ==
    ASSUME NEW r \in Slot, NEW n \in 0 .. uxLength, NEW w \in Slot, n < uxLength,
           w = (r + 1 + n) % uxLength
    PROVE  /\ n + 1 \in 0 .. uxLength
           /\ After(w) = (r + 1 + (n + 1)) % uxLength
<1>1. uxLength \in Nat \ {0} /\ r \in 0 .. uxLength - 1 /\ w \in 0 .. uxLength - 1
  BY StorageAssumption DEF Slot
<1>2. PICK k \in 0 .. uxLength : k = n + 1
  BY <1>1
<1>3. \/ w = r + 1 + n
      \/ w = r + 1 + n - uxLength
      \/ w = r + 1 + n - 2 * uxLength
  BY PointerIs
<1>4. \/ After(w) = r + 1 + k
      \/ After(w) = r + 1 + k - uxLength
      \/ After(w) = r + 1 + k - 2 * uxLength
  BY <1>1, <1>2, <1>3 DEF After
<1>5. After(w) = (r + 1 + k) % uxLength
  BY <1>4, PointerIs, NeighbourTypes
<1> QED
  BY <1>2, <1>5

LEMMA FrontPlaced ==
    ASSUME NEW r \in Slot, NEW n \in 0 .. uxLength, NEW w \in Slot, n < uxLength,
           w = (r + 1 + n) % uxLength
    PROVE  /\ n + 1 \in 0 .. uxLength
           /\ w = (Before(r) + 1 + (n + 1)) % uxLength
<1>1. uxLength \in Nat \ {0} /\ r \in 0 .. uxLength - 1 /\ w \in 0 .. uxLength - 1
  BY StorageAssumption DEF Slot
<1>2. PICK k \in 0 .. uxLength : k = n + 1
  BY <1>1
<1>3. PICK b \in Slot : b = Before(r)
  BY NeighbourTypes
<1>4. \/ w = r + 1 + n
      \/ w = r + 1 + n - uxLength
      \/ w = r + 1 + n - 2 * uxLength
  BY PointerIs
<1>5. \/ w = b + 1 + k
      \/ w = b + 1 + k - uxLength
      \/ w = b + 1 + k - 2 * uxLength
  BY <1>1, <1>2, <1>3, <1>4 DEF Before
<1>6. w = (b + 1 + k) % uxLength
  BY <1>5, PointerIs
<1> QED
  BY <1>2, <1>3, <1>6

LEMMA ReadPlaced ==
    ASSUME NEW r \in Slot, NEW n \in 0 .. uxLength, NEW w \in Slot, n > 0,
           w = (r + 1 + n) % uxLength
    PROVE  /\ n - 1 \in 0 .. uxLength
           /\ w = (After(r) + 1 + (n - 1)) % uxLength
<1>1. uxLength \in Nat \ {0} /\ r \in 0 .. uxLength - 1 /\ w \in 0 .. uxLength - 1
  BY StorageAssumption DEF Slot
<1>2. PICK k \in 0 .. uxLength : k = n - 1
  BY <1>1
<1>3. PICK b \in Slot : b = After(r)
  BY NeighbourTypes
<1>4. \/ w = r + 1 + n
      \/ w = r + 1 + n - uxLength
      \/ w = r + 1 + n - 2 * uxLength
  BY PointerIs
<1>5. \/ w = b + 1 + k
      \/ w = b + 1 + k - uxLength
      \/ w = b + 1 + k - 2 * uxLength
  BY <1>1, <1>2, <1>3, <1>4 DEF After
<1>6. w = (b + 1 + k) % uxLength
  BY <1>5, PointerIs
<1> QED
  BY <1>2, <1>3, <1>6

THEOREM StorageKept == Spec => []StorageInv
<1>1. Init => StorageInv
  <2> SUFFICES ASSUME Init PROVE StorageInv
    OBVIOUS
  <2>1. uxLength \in Nat \ {0}
    BY StorageAssumption
  <2>2. StorageTypeOK
    BY <2>1 DEF Init, StorageInit, StorageTypeOK, Slot
  <2>3. 0 = (uxLength - 1 + 1 + 0) % uxLength
    BY <2>1, ModWithin
  <2>4. pcWriteTo = 0 /\ pcReadFrom = uxLength - 1 /\ uxMessagesWaiting = 0
    BY DEF Init, StorageInit
  <2> QED
    BY <2>2, <2>3, <2>4 DEF StorageInv, PointersAgree
<1>2. StorageInv /\ [Next]_vars => StorageInv'
  <2> SUFFICES ASSUME StorageInv, [Next]_vars PROVE StorageInv'
    OBVIOUS
  <2>1. PICK r \in Slot, n \in 0 .. uxLength, w \in Slot :
           /\ r = pcReadFrom /\ n = uxMessagesWaiting /\ w = pcWriteTo
           /\ w = (r + 1 + n) % uxLength
    BY DEF StorageInv, StorageTypeOK, PointersAgree
  <2>2. CASE HasRoom /\ \E m \in Message : CopyToBack(m)
    <3>1. n < uxLength
      BY <2>1, <2>2 DEF HasRoom
    <3>2. PICK m \in Message : CopyToBack(m)
      BY <2>2
    <3>3. /\ slots' \in [Slot -> Message]
          /\ pcWriteTo' = After(w) /\ uxMessagesWaiting' = n + 1 /\ pcReadFrom' = r
      BY <2>1, <3>2 DEF CopyToBack, StorageInv, StorageTypeOK
    <3> QED
      BY <3>1, <3>3, <2>1, BackPlaced, NeighbourTypes DEF StorageInv, StorageTypeOK, PointersAgree
  <2>3. CASE HasRoom /\ \E m \in Message : CopyToFront(m)
    <3>1. n < uxLength
      BY <2>1, <2>3 DEF HasRoom
    <3>2. PICK m \in Message : CopyToFront(m)
      BY <2>3
    <3>3. /\ slots' \in [Slot -> Message]
          /\ pcReadFrom' = Before(r) /\ uxMessagesWaiting' = n + 1 /\ pcWriteTo' = w
      BY <2>1, <3>2 DEF CopyToFront, StorageInv, StorageTypeOK
    <3> QED
      BY <3>1, <3>3, <2>1, FrontPlaced, NeighbourTypes DEF StorageInv, StorageTypeOK, PointersAgree
  <2>4. CASE HasMessage /\ CopyFromQueue
    <3>1. n > 0
      BY <2>1, <2>4 DEF HasMessage
    <3>2. /\ slots' \in [Slot -> Message]
          /\ pcReadFrom' = After(r) /\ uxMessagesWaiting' = n - 1 /\ pcWriteTo' = w
      BY <2>1, <2>4 DEF CopyFromQueue, StorageInv, StorageTypeOK
    <3> QED
      BY <3>1, <3>2, <2>1, ReadPlaced, NeighbourTypes DEF StorageInv, StorageTypeOK, PointersAgree
  <2>5. CASE UNCHANGED storage
    BY <2>5 DEF storage, StorageInv, StorageTypeOK, PointersAgree
  <2> QED
    BY <2>2, <2>3, <2>4, <2>5, StorageSteps
<1> QED
  BY <1>1, <1>2, PTL DEF Spec

-----------------------------------------------------------------------------
(* The refinement: the ring seen from its read pointer is a queue. *)

ContentOf(s, r, n) == [i \in 1 .. n |-> s[(r + i) % uxLength]]

LEMMA ContentIsSeq ==
    ASSUME NEW s \in [Slot -> Message], NEW r \in Slot, NEW n \in 0 .. uxLength
    PROVE  /\ ContentOf(s, r, n) \in Seq(Message)
           /\ Len(ContentOf(s, r, n)) = n
<1>1. uxLength \in Nat \ {0} /\ r \in 0 .. uxLength - 1 /\ n \in Nat
  BY StorageAssumption DEF Slot
<1>2. ASSUME NEW i \in 1 .. n
      PROVE  s[(r + i) % uxLength] \in Message
  <2>1. r + i \in Int
    BY <1>1
  <2>2. (r + i) % uxLength \in Slot
    BY <1>1, <2>1, ModRange DEF Slot
  <2> QED
    BY <2>2
<1>3. ContentOf(s, r, n) \in [1 .. n -> Message]
  BY <1>2 DEF ContentOf
<1> QED
  BY <1>1, <1>3

(* Two places of the ring less than a turn apart are two slots. *)
LEMMA PlacesDiffer ==
    ASSUME NEW r \in Slot, NEW i \in 0 .. uxLength, NEW j \in 0 .. uxLength,
           i < j, j - i < uxLength
    PROVE  (r + i) % uxLength # (r + j) % uxLength
<1>1. uxLength \in Nat \ {0} /\ r \in 0 .. uxLength - 1
  BY StorageAssumption DEF Slot
<1>2. PICK x \in 0 .. 2 * uxLength, y \in 0 .. 2 * uxLength : x = r + i /\ y = r + j
  BY <1>1
<1>3. /\ x < uxLength => x % uxLength = x
      /\ x >= uxLength /\ x < 2 * uxLength => x % uxLength = x - uxLength
      /\ x = 2 * uxLength => x % uxLength = 0
  BY <1>1, ModWithin
<1>4. /\ y < uxLength => y % uxLength = y
      /\ y >= uxLength /\ y < 2 * uxLength => y % uxLength = y - uxLength
      /\ y = 2 * uxLength => y % uxLength = 0
  BY <1>1, ModWithin
<1>5. x < y /\ y - x < uxLength /\ x < 2 * uxLength
  BY <1>1, <1>2
<1>6. CASE x < uxLength
  BY <1>1, <1>2, <1>3, <1>4, <1>5, <1>6
<1>7. CASE x >= uxLength
  BY <1>1, <1>2, <1>3, <1>4, <1>5, <1>7
<1> QED
  BY <1>1, <1>6, <1>7

(* A place counted from the next or the last slot. *)
LEMMA PlaceShifts ==
    ASSUME NEW r \in Slot, NEW i \in 0 .. uxLength - 1
    PROVE  /\ (After(r) + i) % uxLength = (r + (i + 1)) % uxLength
           /\ (Before(r) + (i + 1)) % uxLength = (r + i) % uxLength
<1>1. uxLength \in Nat \ {0} /\ r \in 0 .. uxLength - 1
  BY StorageAssumption DEF Slot
<1>2. PICK a \in Slot, b \in Slot : a = After(r) /\ b = Before(r)
  BY NeighbourTypes
<1>3. /\ a \in 0 .. uxLength - 1 /\ (a = r + 1 \/ (a = 0 /\ r = uxLength - 1))
      /\ b \in 0 .. uxLength - 1 /\ (b = r - 1 \/ (b = uxLength - 1 /\ r = 0))
  BY <1>2, NeighbourTypes DEF Slot
<1>4. (a + i) % uxLength = (r + (i + 1)) % uxLength
  <2>1. PICK x \in 0 .. 2 * uxLength : x = a + i
    BY <1>1, <1>3
  <2>2. PICK y \in 0 .. 2 * uxLength : y = r + (i + 1)
    BY <1>1
  <2>3. x = y \/ (y = x + uxLength /\ x < uxLength)
    BY <1>1, <1>3, <2>1, <2>2
  <2>4. CASE y = x + uxLength /\ x < uxLength
    <3>1. x % uxLength = x
      BY <1>1, <2>4, ModWithin
    <3>2. y >= uxLength /\ y < 2 * uxLength /\ y - uxLength = x
      BY <1>1, <2>4
    <3>3. y % uxLength = y - uxLength
      BY <1>1, <3>2, ModWithin
    <3> QED
      BY <2>1, <2>2, <3>1, <3>2, <3>3
  <2> QED
    BY <2>1, <2>2, <2>3, <2>4
<1>5. (b + (i + 1)) % uxLength = (r + i) % uxLength
  <2>1. PICK x \in 0 .. 2 * uxLength : x = b + (i + 1)
    BY <1>1, <1>3
  <2>2. PICK y \in 0 .. 2 * uxLength : y = r + i
    BY <1>1
  <2>3. x = y \/ (x = y + uxLength /\ y < uxLength)
    BY <1>1, <1>3, <2>1, <2>2
  <2>4. CASE x = y + uxLength /\ y < uxLength
    <3>1. y % uxLength = y
      BY <1>1, <2>4, ModWithin
    <3>2. x >= uxLength /\ x < 2 * uxLength /\ x - uxLength = y
      BY <1>1, <2>4
    <3>3. x % uxLength = x - uxLength
      BY <1>1, <3>2, ModWithin
    <3> QED
      BY <2>1, <2>2, <3>1, <3>2, <3>3
  <2> QED
    BY <2>1, <2>2, <2>3, <2>4
<1> QED
  BY <1>2, <1>4, <1>5

LEMMA BackAppends ==
    ASSUME NEW s \in [Slot -> Message], NEW r \in Slot, NEW n \in 0 .. uxLength,
           NEW m \in Message, n < uxLength
    PROVE  ContentOf([s EXCEPT ![(r + 1 + n) % uxLength] = m], r, n + 1)
             = Append(ContentOf(s, r, n), m)
<1> DEFINE c == ContentOf(s, r, n)
           d == ContentOf([s EXCEPT ![(r + 1 + n) % uxLength] = m], r, n + 1)
<1>1. uxLength \in Nat \ {0} /\ r \in 0 .. uxLength - 1 /\ n + 1 \in 0 .. uxLength /\ n \in Nat
  BY StorageAssumption DEF Slot
<1>2. PICK w \in Slot : w = (r + 1 + n) % uxLength /\ w = (r + (n + 1)) % uxLength
  <2>1. r + 1 + n = r + (n + 1) /\ r + 1 + n \in Int
    BY <1>1
  <2>2. (r + 1 + n) % uxLength \in Slot
    BY <1>1, <2>1, ModRange DEF Slot
  <2> QED
    BY <2>1, <2>2
<1>3. c \in Seq(Message) /\ Len(c) = n
  BY ContentIsSeq
<1>4. [s EXCEPT ![w] = m] \in [Slot -> Message]
  OBVIOUS
<1>5. d \in Seq(Message) /\ Len(d) = n + 1
  BY <1>1, <1>2, <1>4, ContentIsSeq
<1>6. d[n + 1] = m
  BY <1>1, <1>2 DEF ContentOf
<1>7. ASSUME NEW i \in 1 .. n PROVE d[i] = c[i]
  <2>1. i \in 0 .. uxLength /\ i < n + 1 /\ (n + 1) - i < uxLength
    BY <1>1
  <2>2. (r + i) % uxLength # w
    BY <1>1, <1>2, <2>1, PlacesDiffer
  <2>3. (r + i) % uxLength \in Slot
    BY <1>1, ModRange DEF Slot
  <2> QED
    BY <1>1, <1>2, <2>2, <2>3 DEF ContentOf
<1> HIDE DEF c, d
<1>8. d = Append(c, m)
  BY <1>1, <1>3, <1>5, <1>6, <1>7
<1> QED
  BY <1>8 DEF c, d

LEMMA FrontPrepends ==
    ASSUME NEW s \in [Slot -> Message], NEW r \in Slot, NEW n \in 0 .. uxLength,
           NEW m \in Message, n < uxLength
    PROVE  ContentOf([s EXCEPT ![r] = m], Before(r), n + 1) = <<m>> \o ContentOf(s, r, n)
<1> DEFINE c == ContentOf(s, r, n)
           d == ContentOf([s EXCEPT ![r] = m], Before(r), n + 1)
<1>1. uxLength \in Nat \ {0} /\ r \in 0 .. uxLength - 1 /\ n + 1 \in 0 .. uxLength /\ n \in Nat
  BY StorageAssumption DEF Slot
<1>2. PICK b \in Slot : b = Before(r)
  BY NeighbourTypes
<1>3. c \in Seq(Message) /\ Len(c) = n
  BY ContentIsSeq
<1>4. [s EXCEPT ![r] = m] \in [Slot -> Message]
  OBVIOUS
<1>5. d \in Seq(Message) /\ Len(d) = n + 1
  BY <1>1, <1>2, <1>4, ContentIsSeq
<1>6. ASSUME NEW i \in 0 .. n
      PROVE  d[i + 1] = [s EXCEPT ![r] = m][(r + i) % uxLength]
  <2>1. i + 1 \in 1 .. n + 1 /\ i \in 0 .. uxLength - 1
    BY <1>1
  <2>2. (b + (i + 1)) % uxLength = (r + i) % uxLength
    BY <1>2, <2>1, PlaceShifts
  <2> QED
    BY <1>1, <1>2, <2>1, <2>2 DEF ContentOf
<1>7. (r + 0) % uxLength = r
  BY <1>1, ModWithin
<1>8. d[1] = m
  <2>1. 0 \in 0 .. n /\ 0 + 1 = 1
    BY <1>1
  <2> QED
    BY <1>6, <1>7, <2>1
<1>9. ASSUME NEW i \in 1 .. n PROVE d[i + 1] = c[i]
  <2>1. 0 \in 0 .. uxLength /\ i \in 0 .. uxLength /\ 0 < i /\ i - 0 < uxLength /\ i \in 0 .. n
    BY <1>1
  <2>2. (r + i) % uxLength # r
    BY <1>7, <2>1, PlacesDiffer
  <2>3. (r + i) % uxLength \in Slot
    BY <1>1, ModRange DEF Slot
  <2> QED
    BY <1>6, <2>1, <2>2, <2>3 DEF ContentOf
<1> HIDE DEF c, d
<1>10. <<m>> \in Seq(Message) /\ Len(<<m>>) = 1
  OBVIOUS
<1>11. Len(<<m>> \o c) = n + 1 /\ <<m>> \o c \in Seq(Message)
  BY <1>1, <1>3, <1>10
<1>12. ASSUME NEW j \in 1 .. n + 1 PROVE d[j] = (<<m>> \o c)[j]
  <2>1. CASE j = 1
    BY <1>1, <1>3, <1>8, <1>10, <2>1
  <2>2. CASE j # 1
    <3>1. PICK i \in 1 .. n : j = i + 1
      BY <1>1, <2>2
    <3>2. (<<m>> \o c)[i + 1] = c[i]
      BY <1>1, <1>3, <1>10, <3>1
    <3> QED
      BY <1>9, <3>1, <3>2
  <2> QED
    BY <2>1, <2>2
<1>13. d = <<m>> \o c
  BY <1>1, <1>5, <1>11, <1>12
<1> QED
  BY <1>13 DEF c, d

LEMMA ReadTakesFirst ==
    ASSUME NEW s \in [Slot -> Message], NEW r \in Slot, NEW n \in 0 .. uxLength, n > 0
    PROVE  ContentOf(s, After(r), n - 1) = Tail(ContentOf(s, r, n))
<1> DEFINE c == ContentOf(s, r, n)
           d == ContentOf(s, After(r), n - 1)
<1>1. uxLength \in Nat \ {0} /\ r \in 0 .. uxLength - 1 /\ n - 1 \in 0 .. uxLength /\ n \in Nat
  BY StorageAssumption DEF Slot
<1>2. PICK a \in Slot : a = After(r)
  BY NeighbourTypes
<1>3. c \in Seq(Message) /\ Len(c) = n
  BY ContentIsSeq
<1>4. d \in Seq(Message) /\ Len(d) = n - 1
  BY <1>1, <1>2, ContentIsSeq
<1>5. ASSUME NEW i \in 1 .. n - 1 PROVE d[i] = c[i + 1]
  <2>1. i + 1 \in 1 .. n /\ i \in 0 .. uxLength - 1
    BY <1>1
  <2>2. (a + i) % uxLength = (r + (i + 1)) % uxLength
    BY <1>2, <2>1, PlaceShifts
  <2> QED
    BY <1>2, <2>1, <2>2 DEF ContentOf
<1> HIDE DEF c, d
<1>6. d = Tail(c)
  BY <1>1, <1>3, <1>4, <1>5
<1> QED
  BY <1>6 DEF c, d

(* Tasks and handlers, whatever their order, use the ring as a queue: what *)
(* is sent at either end is received once and in order                     *)
(* (prvCopyDataToQueue, prvCopyDataFromQueue), for every length.           *)
THEOREM RingIsQueue == Spec => ImplementsQueue
<1>1. Init => Abstract!Init
  <2> SUFFICES ASSUME Init PROVE Content = << >>
    BY DEF Abstract!Init
  <2>1. uxMessagesWaiting = 0
    BY DEF Init, StorageInit
  <2> QED
    BY <2>1 DEF Content
<1>2. StorageInv /\ StorageInv' /\ [Next]_vars => [Abstract!Next]_Content
  <2> SUFFICES ASSUME StorageInv, StorageInv', [Next]_vars
               PROVE  [Abstract!Next]_Content
    OBVIOUS
  <2>1. PICK s \in [Slot -> Message], r \in Slot, n \in 0 .. uxLength, w \in Slot :
           /\ s = slots /\ r = pcReadFrom /\ n = uxMessagesWaiting /\ w = pcWriteTo
           /\ w = (r + 1 + n) % uxLength
    BY DEF StorageInv, StorageTypeOK, PointersAgree
  <2>2. Content = ContentOf(s, r, n)
    BY <2>1 DEF Content, ContentOf
  <2>3. Content' = ContentOf(slots', pcReadFrom', uxMessagesWaiting')
    BY DEF Content, ContentOf
  <2>4. Len(Content) = n /\ n \in Nat /\ uxLength \in Nat
    BY <2>2, ContentIsSeq, StorageAssumption
  <2>5. ASSUME HasRoom, NEW m \in Message, CopyToBack(m)
        PROVE  Abstract!SendToBack
    <3>1. n < uxLength
      BY <2>1, <2>5 DEF HasRoom
    <3>2. slots' = [s EXCEPT ![(r + 1 + n) % uxLength] = m] /\ pcReadFrom' = r
          /\ uxMessagesWaiting' = n + 1
      BY <2>1, <2>5 DEF CopyToBack
    <3>3. Content' = Append(Content, m)
      BY <2>2, <2>3, <3>1, <3>2, BackAppends
    <3> QED
      BY <2>4, <3>1, <3>3 DEF Abstract!SendToBack
  <2>6. ASSUME HasRoom, NEW m \in Message, CopyToFront(m)
        PROVE  Abstract!SendToFront
    <3>1. n < uxLength
      BY <2>1, <2>6 DEF HasRoom
    <3>2. slots' = [s EXCEPT ![r] = m] /\ pcReadFrom' = Before(r)
          /\ uxMessagesWaiting' = n + 1
      BY <2>1, <2>6 DEF CopyToFront
    <3>3. Content' = <<m>> \o Content
      BY <2>2, <2>3, <3>1, <3>2, FrontPrepends
    <3> QED
      BY <2>4, <3>1, <3>3 DEF Abstract!SendToFront
  <2>7. CASE HasMessage /\ CopyFromQueue
    <3>1. n > 0
      BY <2>1, <2>7 DEF HasMessage
    <3>2. slots' = s /\ pcReadFrom' = After(r) /\ uxMessagesWaiting' = n - 1
      BY <2>1, <2>7 DEF CopyFromQueue
    <3>3. Content' = Tail(Content)
      BY <2>2, <2>3, <3>1, <3>2, ReadTakesFirst
    <3>4. Content # << >>
      BY <2>4, <3>1
    <3> QED
      BY <3>3, <3>4 DEF Abstract!Receive, Abstract!Next
  <2>8. CASE UNCHANGED storage
    BY <2>8 DEF storage, Content
  <2> QED
    BY <2>5, <2>6, <2>7, <2>8, StorageSteps DEF Abstract!Next
<1> QED
  BY <1>1, <1>2, StorageKept, PTL DEF Spec, ImplementsQueue, Abstract!Spec

-----------------------------------------------------------------------------
(* The earliest wake time of some sleeping tasks. *)

LEMMA LeastExists ==
    ASSUME NEW T \in SUBSET Nat, T # {}
    PROVE  \E x \in T : \A y \in T : x <= y
<1> DEFINE F == {0 .. x : x \in T}
<1>1. F \subseteq FiniteSubsetsOf(Nat) /\ F # {}
  <2>1. ASSUME NEW x \in T PROVE 0 .. x \in FiniteSubsetsOf(Nat)
    <3>1. 0 \in Int /\ x \in Int
      OBVIOUS
    <3>2. IsFiniteSet(0 .. x)
      BY <3>1, FS_Interval
    <3> QED
      BY <3>2 DEF FiniteSubsetsOf
  <2> QED
    BY <2>1
<1>2. IsWellFoundedOn(StrictSubsetOrdering(Nat), FiniteSubsetsOf(Nat))
  BY FS_StrictSubsetOrderingWellFounded
<1>3. PICK least \in F : \A other \in F : ~ (<<other, least>> \in StrictSubsetOrdering(Nat))
  BY <1>1, <1>2, WFMin
<1>4. PICK x \in T : least = 0 .. x
  BY <1>3
<1>5. ASSUME NEW y \in T, y < x PROVE FALSE
  <2>1. 0 .. y \subseteq 0 .. x /\ x \in 0 .. x /\ x \notin 0 .. y
    BY <1>5
  <2>2. 0 .. y \in SUBSET Nat /\ 0 .. x \in SUBSET Nat
    OBVIOUS
  <2>3. <<0 .. y, 0 .. x>> \in StrictSubsetOrdering(Nat)
    BY <2>1, <2>2 DEF StrictSubsetOrdering
  <2> QED
    BY <1>3, <1>4, <2>3
<1>6. ASSUME NEW y \in T PROVE x <= y
  BY <1>5, <1>6
<1> QED
  BY <1>6

LEMMA EarliestIs ==
    ASSUME NEW S \in SUBSET Task, wake \in [Task -> Tick]
    PROVE  /\ EarliestOf(S) \in Tick
           /\ \A t \in S : EarliestOf(S) <= wake[t]
<1>1. CASE S = {}
  BY <1>1, TickAssumption DEF EarliestOf, Tick
<1>2. CASE S # {}
  <2> DEFINE W == {wake[t] : t \in S}
  <2>1. W \in SUBSET Nat /\ W # {} /\ W \subseteq Tick
    BY <1>2, TickAssumption DEF Tick
  <2>2. \E x \in W : \A y \in W : x <= y
    BY <2>1, LeastExists
  <2>3. \E w \in W : \A t \in S : w <= wake[t]
    BY <2>2
  <2>4. EarliestOf(S) = CHOOSE w \in W : \A t \in S : w <= wake[t]
    BY <1>2 DEF EarliestOf
  <2> HIDE DEF W
  <2>5. EarliestOf(S) \in W /\ \A t \in S : EarliestOf(S) <= wake[t]
    BY <2>3, <2>4
  <2> QED
    BY <2>1, <2>5
<1> QED
  BY <1>1, <1>2

-----------------------------------------------------------------------------
(* Types. *)

LEMMA TickTypes ==
    /\ portMAX_DELAY \in Nat \ {0} /\ TickLimit \in Nat \ {0} /\ MaxTicks \in Nat
    /\ 0 \in Tick /\ portMAX_DELAY \in Tick /\ Tick \subseteq Nat
    /\ \A x \in Int : x % TickLimit \in Tick
<1>1. portMAX_DELAY \in Nat \ {0} /\ TickLimit \in Nat \ {0} /\ MaxTicks \in Nat
  BY TickAssumption DEF TickLimit
<1>2. \A x \in Int : x % TickLimit \in 0 .. TickLimit - 1
  BY <1>1, ModRange
<1>3. Tick = 0 .. TickLimit - 1
  BY <1>1 DEF Tick, TickLimit
<1> QED
  BY <1>1, <1>2, <1>3 DEF Tick

LEMMA TickSums ==
    \A x, y \in Tick : x - y \in Int /\ x + y \in Int
BY TickTypes

LEMMA NowType ==
    ASSUME KernelTypeOK
    PROVE  Now \in Nat
BY TickTypes DEF KernelTypeOK, Now

(* What the operators of the kernel do keeps its types. *)
LEMMA AddTyped ==
    ASSUME KernelTypeOK, NEW t \in Task, NEW at \in Tick, AddToDelayedList(t, at)
    PROVE  /\ state' \in [Task -> {"ready", "delayed", "overflow", "suspended"}]
           /\ wake' \in [Task -> Tick]
           /\ xNextTaskUnblockTime' \in Tick
BY DEF KernelTypeOK, AddToDelayedList

LEMMA PlaceTyped ==
    ASSUME KernelTypeOK, NEW t \in Task, NEW l \in {"send", "receive"}, NEW w \in Tick,
           vTaskPlaceOnEventList(t, l, w)
    PROVE  /\ state' \in [Task -> {"ready", "delayed", "overflow", "suspended"}]
           /\ event' \in [Task -> {"none", "send", "receive", "pending"}]
           /\ wake' \in [Task -> Tick]
           /\ xNextTaskUnblockTime' \in Tick
<1>1. event' \in [Task -> {"none", "send", "receive", "pending"}]
  BY DEF KernelTypeOK, vTaskPlaceOnEventList
<1>2. CASE w = portMAX_DELAY
  BY <1>1, <1>2 DEF KernelTypeOK, vTaskPlaceOnEventList
<1>3. CASE w # portMAX_DELAY
  <2>1. xTickCount + w \in Int
    BY TickTypes DEF KernelTypeOK
  <2>2. AddToDelayedList(t, (xTickCount + w) % TickLimit)
    BY <1>3 DEF vTaskPlaceOnEventList
  <2> QED
    BY <1>1, <2>1, <2>2, TickTypes, AddTyped
<1> QED
  BY <1>2, <1>3

LEMMA WakeTyped ==
    ASSUME KernelTypeOK, NEW l, WakeOne(l)
    PROVE  /\ state' \in [Task -> {"ready", "delayed", "overflow", "suspended"}]
           /\ event' \in [Task -> {"none", "send", "receive", "pending"}]
           /\ wake' \in [Task -> Tick]
<1>1. CASE UNCHANGED lists
  BY <1>1 DEF KernelTypeOK, lists
<1>2. ASSUME NEW t \in Waiting(l), xTaskRemoveFromEventList(t)
      PROVE  /\ state' \in [Task -> {"ready", "delayed", "overflow", "suspended"}]
             /\ event' \in [Task -> {"none", "send", "receive", "pending"}]
             /\ wake' \in [Task -> Tick]
  BY <1>2, TickTypes DEF KernelTypeOK, xTaskRemoveFromEventList, Waiting
<1> QED
  BY <1>1, <1>2 DEF WakeOne

LEMMA CountTyped ==
    ASSUME KernelTypeOK, CountTick
    PROVE  /\ xTickCount' \in Tick /\ xNumOfOverflows' \in Nat
           /\ xNextTaskUnblockTime' \in Tick
           /\ state' \in [Task -> {"ready", "delayed", "overflow", "suspended"}]
           /\ event' \in [Task -> {"none", "send", "receive", "pending"}]
           /\ wake' \in [Task -> Tick]
<1>1. xTickCount + 1 \in Int
  BY TickTypes DEF KernelTypeOK
<1>2. xTickCount' \in Tick /\ xNumOfOverflows' \in Nat
  BY <1>1, TickTypes DEF KernelTypeOK, CountTick
<1>3. \A S \in SUBSET Task : EarliestOf(S) \in Tick
  BY EarliestIs DEF KernelTypeOK
<1>4. xNextTaskUnblockTime' \in Tick
  BY <1>3 DEF KernelTypeOK, CountTick
<1>5. state' \in [Task -> {"ready", "delayed", "overflow", "suspended"}]
  BY DEF KernelTypeOK, CountTick
<1>6. event' \in [Task -> {"none", "send", "receive", "pending"}] /\ wake' \in [Task -> Tick]
  BY TickTypes DEF KernelTypeOK, CountTick
<1> QED
  BY <1>2, <1>4, <1>5, <1>6

LEMMA ReadyTyped ==
    ASSUME KernelTypeOK, ReadyPending
    PROVE  /\ state' \in [Task -> {"ready", "delayed", "overflow", "suspended"}]
           /\ event' \in [Task -> {"none", "send", "receive", "pending"}]
           /\ wake' \in [Task -> Tick]
           /\ uxSchedulerSuspended' = FALSE
BY TickTypes DEF KernelTypeOK, ReadyPending

LEMMA ReplayTyped ==
    ASSUME KernelTypeOK, NEW n, NEW l, ReplayLock(n, l)
    PROVE  event' \in [Task -> {"none", "send", "receive", "pending"}]
BY DEF KernelTypeOK, ReplayLock

(* The part of TypeOK about calls and locks. *)
CallsTypeOK ==
    /\ pc \in [Task -> Steps]
    /\ call \in [Task -> {"none", "delay"} \cup Calls]
    /\ verdict \in [Task -> {"none", "again", "failed"}]
    /\ xTicksToWait \in [Task -> Tick]
    /\ xTimeOut \in [Task -> [xOverflowCount : Nat, xTimeOnEntering : Tick]]
    /\ deadline \in [Task -> Nat]

LocksTypeOK ==
    /\ xTxLock \in queueUNLOCKED .. MaxLocked
    /\ xRxLock \in queueUNLOCKED .. MaxLocked

LEMMA TypeParts == TypeOK <=> KernelTypeOK /\ StorageTypeOK /\ CallsTypeOK /\ LocksTypeOK
BY DEF TypeOK, CallsTypeOK, LocksTypeOK

LEMMA StepNames == Steps =
    {"idle", "try", "vTaskSuspendAll", "prvLockQueue", "xTaskCheckForTimeOut",
     "prvIsQueue", "vTaskPlaceOnEventList", "prvUnlockTx", "prvUnlockRx",
     "xTaskResumeAll", "ticks", "vTaskDelay", "vTaskDelayUntil", "asleep",
     "vTaskSuspend"}
BY DEF Steps

LEMMA LockTypes ==
    ASSUME LocksTypeOK
    PROVE  /\ Locked(xTxLock) \in queueUNLOCKED .. MaxLocked
           /\ Locked(xRxLock) \in queueUNLOCKED .. MaxLocked
           /\ queueUNLOCKED \in queueUNLOCKED .. MaxLocked
           /\ xTxLock < MaxLocked => xTxLock + 1 \in queueUNLOCKED .. MaxLocked
           /\ xRxLock < MaxLocked => xRxLock + 1 \in queueUNLOCKED .. MaxLocked
BY WaitsAssumption DEF LocksTypeOK, Locked, queueUNLOCKED, queueLOCKED_UNMODIFIED

(* Every step keeps the types of the calls and of the locks. *)
LEMMA CallsTyped ==
    ASSUME KernelTypeOK, CallsTypeOK, NEW t \in Task, Step(t)
    PROVE  CallsTypeOK'
<1> USE DEF CallsTypeOK
<1>1. CASE Send(t)
  BY <1>1, StepNames, TickTypes DEF Send, Return, Goto, NoTime
<1>2. CASE Receive(t)
  BY <1>2, StepNames, TickTypes DEF Receive, Return, Goto, NoTime
<1>3. CASE Peek(t)
  BY <1>3, StepNames, TickTypes DEF Peek, Return, Goto, NoTime
<1>4. CASE PrepareToBlock(t)
  <2>1. TimeNow \in [xOverflowCount : Nat, xTimeOnEntering : Tick]
    BY DEF TimeNow, KernelTypeOK
  <2>2. pc' \in [Task -> Steps] /\ verdict' \in [Task -> {"none", "again", "failed"}]
    BY <1>4, StepNames DEF PrepareToBlock, Goto
  <2>3. CASE pc[t] = "idle"
    <3>1. PICK c \in Calls, w \in Waits :
             /\ call' = [call EXCEPT ![t] = c]
             /\ xTicksToWait' = [xTicksToWait EXCEPT ![t] = w]
             /\ IF w = portMAX_DELAY
                THEN UNCHANGED <<xTimeOut, deadline>>
                ELSE /\ xTimeOut' = [xTimeOut EXCEPT ![t] = TimeNow]
                     /\ deadline' = [deadline EXCEPT ![t] = Now + w]
      BY <1>4, <2>3 DEF PrepareToBlock
    <3>2. w \in Tick /\ Now + w \in Nat
      BY WaitsAssumption, TickTypes, NowType
    <3>3. call' \in [Task -> {"none", "delay"} \cup Calls]
      BY <3>1
    <3>4. xTicksToWait' \in [Task -> Tick]
      BY <3>1, <3>2
    <3>5. xTimeOut' \in [Task -> [xOverflowCount : Nat, xTimeOnEntering : Tick]]
      BY <2>1, <3>1
    <3>6. deadline' \in [Task -> Nat]
      BY <3>1, <3>2
    <3> QED
      BY <2>2, <3>3, <3>4, <3>5, <3>6
  <2>4. CASE UNCHANGED <<call, wait>>
    BY <2>2, <2>4 DEF wait
  <2> QED
    BY <1>4, <2>3, <2>4 DEF PrepareToBlock
<1>5. CASE vTaskSuspendAll(t)
  BY <1>5, StepNames DEF vTaskSuspendAll, Goto, wait
<1>6. CASE prvLockQueue(t)
  BY <1>6, StepNames DEF prvLockQueue, Goto, wait
<1>7. CASE xTaskCheckForTimeOut(t)
  <2>1. TimeNow \in [xOverflowCount : Nat, xTimeOnEntering : Tick]
    BY DEF TimeNow, KernelTypeOK
  <2>2. xTickCount - xTimeOut[t].xTimeOnEntering \in Int
    <3>1. xTimeOut[t] \in [xOverflowCount : Nat, xTimeOnEntering : Tick]
      OBVIOUS
    <3>2. xTimeOut[t].xTimeOnEntering \in Tick
      BY <3>1
    <3>3. xTickCount \in Tick
      BY DEF KernelTypeOK
    <3> HIDE DEF CallsTypeOK
    <3> QED
      BY <3>2, <3>3, TickSums
  <2>3. Elapsed(t) \in Tick
    BY <2>2, TickTypes DEF Elapsed
  <2>4. Elapsed(t) < xTicksToWait[t] => xTicksToWait[t] - Elapsed(t) \in Tick
    <3>1. PICK e \in Tick, w \in Tick : e = Elapsed(t) /\ w = xTicksToWait[t]
      BY <2>3
    <3>2. e < w => w - e \in Tick
      BY TickTypes DEF Tick
    <3> QED
      BY <3>1, <3>2
  <2>5. /\ pc' \in [Task -> Steps] /\ verdict' \in [Task -> {"none", "again", "failed"}]
        /\ UNCHANGED <<call, deadline>>
    BY <1>7, StepNames DEF xTaskCheckForTimeOut, Goto
  <2>6. CASE UNCHANGED <<xTicksToWait, xTimeOut>>
    BY <2>5, <2>6
  <2>7. CASE /\ Elapsed(t) < xTicksToWait[t]
             /\ xTicksToWait' = [xTicksToWait EXCEPT ![t] = @ - Elapsed(t)]
             /\ xTimeOut' = [xTimeOut EXCEPT ![t] = TimeNow]
    BY <2>1, <2>4, <2>5, <2>7
  <2> QED
    BY <1>7, <2>6, <2>7 DEF xTaskCheckForTimeOut
<1>8. CASE prvIsQueue(t)
  BY <1>8, StepNames DEF prvIsQueue, Goto, wait
<1>9. CASE PlaceOnEventList(t)
  BY <1>9, StepNames DEF PlaceOnEventList, Goto, wait
<1>10. CASE prvUnlockTx(t)
  BY <1>10, StepNames DEF prvUnlockTx, Goto, wait
<1>11. CASE prvUnlockRx(t)
  BY <1>11, StepNames DEF prvUnlockRx, Goto, wait
<1>12. CASE xTaskResumeAll(t)
  BY <1>12, StepNames DEF xTaskResumeAll, Goto, wait
<1>13. CASE UnwindTick(t)
  BY <1>13 DEF UnwindTick, callers, wait
<1>14. CASE Resumed(t)
  <2>1. CASE UNCHANGED <<call, wait>> /\ verdict' = [verdict EXCEPT ![t] = "none"]
             /\ Goto(t, "try")
    BY <2>1, StepNames DEF Goto, wait
  <2>2. CASE Return(t)
    BY <2>2, StepNames, TickTypes DEF Return, Goto, NoTime
  <2>3. CASE UNCHANGED <<call, verdict, wait>> /\ Goto(t, "asleep")
    BY <2>3, StepNames DEF Goto, wait
  <2> QED
    BY <1>14, <2>1, <2>2, <2>3 DEF Resumed
<1>15. CASE Delay(t)
  <2>1. \A d \in Delays : d \in Tick /\ Now + d \in Nat
    BY WaitsAssumption, TickTypes, NowType
  <2> QED
    BY <1>15, <2>1, StepNames DEF Delay, Goto
<1>16. CASE PlaceDelayed(t)
  BY <1>16, StepNames DEF PlaceDelayed, Goto, wait
<1>17. CASE DelayUntil(t)
  BY <1>17, StepNames DEF DelayUntil, Goto, wait
<1>18. CASE PlaceUntil(t)
  <2>1. PICK ago \in Tick, d \in Delays :
           ago <= Now /\ deadline' = [deadline EXCEPT ![t] = Now - ago + d]
    BY <1>18 DEF PlaceUntil
  <2>2. Now - ago + d \in Nat
    <3>1. d \in Nat /\ ago \in Nat
      BY WaitsAssumption, TickTypes
    <3> QED
      BY <2>1, <3>1, NowType
  <2> QED
    BY <1>18, <2>1, <2>2, StepNames DEF PlaceUntil, Goto
<1>19. CASE Awake(t)
  BY <1>19, StepNames, TickTypes DEF Awake, Return, Goto, NoTime
<1>20. CASE SuspendItself(t) \/ vTaskSwitchContext(t)
  BY <1>20, StepNames DEF SuspendItself, vTaskSwitchContext, Goto, wait
<1>21. CASE Resume(t)
  BY <1>21 DEF Resume, callers, wait
<1> QED
  BY <1>1, <1>2, <1>3, <1>4, <1>5, <1>6, <1>7, <1>8, <1>9, <1>10, <1>11, <1>12, <1>13, <1>14,
     <1>15, <1>16, <1>17, <1>18, <1>19, <1>20, <1>21 DEF Step

LEMMA LocksTyped ==
    ASSUME LocksTypeOK, [Next]_vars
    PROVE  LocksTypeOK'
<1> USE DEF LocksTypeOK
<1>1. ASSUME NEW t \in Task, prvLockQueue(t) PROVE LocksTypeOK'
  BY <1>1, LockTypes DEF prvLockQueue
<1>2. ASSUME NEW t \in Task, prvUnlockTx(t) \/ prvUnlockRx(t) PROVE LocksTypeOK'
  BY <1>2, LockTypes DEF prvUnlockTx, prvUnlockRx
<1>3. ASSUME NEW l, NEW lock \in {xTxLock, xRxLock}, lock = IF l = "receive" THEN xTxLock ELSE xRxLock,
             l \in {"receive", "send"}, TellOrCount(lock, l)
      PROVE  LocksTypeOK'
  BY <1>3, LockTypes DEF TellOrCount, locks
<1>4. CASE xQueueGenericSendFromISR \/ xQueueReceiveFromISR
  BY <1>3, <1>4 DEF xQueueGenericSendFromISR, xQueueReceiveFromISR
<1>5. CASE SysTick \/ UNCHANGED vars
  BY <1>5 DEF SysTick, vars, locks
<1>6. ASSUME NEW t \in Task, Step(t), ~ prvLockQueue(t), ~ prvUnlockTx(t), ~ prvUnlockRx(t)
      PROVE  LocksTypeOK'
  <2>1. UNCHANGED locks
    BY <1>6 DEF Step, Send, Receive, Peek, PrepareToBlock, vTaskSuspendAll,
                xTaskCheckForTimeOut, prvIsQueue, PlaceOnEventList, xTaskResumeAll, UnwindTick,
                Resumed, Delay, PlaceDelayed, DelayUntil, PlaceUntil, Awake, SuspendItself,
                vTaskSwitchContext, Resume
  <2> QED
    BY <2>1 DEF locks
<1> QED
  BY <1>1, <1>2, <1>4, <1>5, <1>6 DEF Next

LEMMA KernelTyped ==
    ASSUME KernelTypeOK, CallsTypeOK, [Next]_vars
    PROVE  KernelTypeOK'
<1>1. ASSUME NEW l, WakeOne(l), UNCHANGED <<ticks, uxSchedulerSuspended>> PROVE KernelTypeOK'
  BY <1>1, WakeTyped DEF KernelTypeOK, ticks
<1>2. ASSUME CountTick, uxPendedTicks' \in Nat, UNCHANGED uxSchedulerSuspended PROVE KernelTypeOK'
  BY <1>2, CountTyped DEF KernelTypeOK
<1>3. ASSUME NEW n, NEW l, ReplayLock(n, l), UNCHANGED <<ticks, uxSchedulerSuspended, state, wake>>
      PROVE  KernelTypeOK'
  BY <1>3, ReplayTyped DEF KernelTypeOK, ticks
<1>4. ASSUME NEW t \in Task, NEW at \in Tick, AddToDelayedList(t, at),
             UNCHANGED <<xTickCount, xNumOfOverflows, uxPendedTicks, uxSchedulerSuspended, event>>
      PROVE  KernelTypeOK'
  BY <1>4, AddTyped DEF KernelTypeOK
<1>5. CASE UNCHANGED kernel
  BY <1>5 DEF KernelTypeOK, kernel, ticks, lists
<1>6. CASE UNCHANGED <<ticks, lists>> /\ uxSchedulerSuspended' = TRUE
  BY <1>6 DEF KernelTypeOK, ticks, lists
<1>7. CASE xQueueGenericSendFromISR \/ xQueueReceiveFromISR
  <2>1. PICK lock, l : TellOrCount(lock, l) /\ UNCHANGED <<ticks, uxSchedulerSuspended>>
    BY <1>7 DEF xQueueGenericSendFromISR, xQueueReceiveFromISR
  <2>2. CASE WakeOne(l)
    BY <1>1, <2>1, <2>2
  <2>3. CASE UNCHANGED lists
    BY <1>5, <2>1, <2>3 DEF kernel
  <2> QED
    BY <2>1, <2>2, <2>3 DEF TellOrCount
<1>8. CASE SysTick
  <2>1. CASE uxSchedulerSuspended
    <3>1. /\ uxPendedTicks' = uxPendedTicks + 1 /\ UNCHANGED lists
          /\ UNCHANGED <<xTickCount, xNumOfOverflows, xNextTaskUnblockTime, uxSchedulerSuspended>>
      BY <1>8, <2>1 DEF SysTick, xTaskIncrementTick
    <3> QED
      BY <3>1 DEF KernelTypeOK, lists
  <2>2. CASE ~ uxSchedulerSuspended
    <3>1. CountTick /\ UNCHANGED <<uxPendedTicks, uxSchedulerSuspended>>
      BY <1>8, <2>2 DEF SysTick, xTaskIncrementTick
    <3> QED
      BY <1>2, <3>1 DEF KernelTypeOK
  <2> QED
    BY <2>1, <2>2
<1>9. ASSUME NEW t \in Task, Step(t) PROVE KernelTypeOK'
  <2>1. CASE Send(t) \/ Receive(t) \/ Peek(t)
    BY <1>1, <2>1 DEF Send, Receive, Peek
  <2>2. CASE PrepareToBlock(t) \/ prvLockQueue(t) \/ xTaskCheckForTimeOut(t) \/ prvIsQueue(t)
             \/ Resumed(t) \/ Awake(t) \/ vTaskSwitchContext(t)
    BY <1>5, <2>2 DEF PrepareToBlock, prvLockQueue, xTaskCheckForTimeOut, prvIsQueue, Resumed,
                      Awake, vTaskSwitchContext
  <2>3. CASE vTaskSuspendAll(t) \/ Delay(t) \/ DelayUntil(t)
    BY <1>6, <2>3 DEF vTaskSuspendAll, Delay, DelayUntil
  <2>4. CASE PlaceOnEventList(t)
    <3>1. List(call[t]) \in {"send", "receive"} /\ xTicksToWait[t] \in Tick
      BY DEF List, CallsTypeOK
    <3> QED
      BY <2>4, <3>1, PlaceTyped DEF PlaceOnEventList, KernelTypeOK
  <2>5. CASE prvUnlockTx(t) \/ prvUnlockRx(t)
    BY <1>3, <2>5 DEF prvUnlockTx, prvUnlockRx
  <2>6. CASE xTaskResumeAll(t)
    BY <2>6, ReadyTyped DEF xTaskResumeAll, KernelTypeOK, ticks
  <2>7. CASE UnwindTick(t)
    <3>1. CountTick /\ uxPendedTicks' \in Nat /\ UNCHANGED uxSchedulerSuspended
      BY <2>7 DEF UnwindTick, CountPendedTick, KernelTypeOK
    <3> QED
      BY <1>2, <3>1
  <2>8. CASE PlaceDelayed(t)
    <3>1. xTickCount + xTicksToWait[t] \in Int
      BY TickSums DEF KernelTypeOK, CallsTypeOK
    <3>2. (xTickCount + xTicksToWait[t]) % TickLimit \in Tick
      BY <3>1, TickTypes
    <3> QED
      BY <1>4, <2>8, <3>2 DEF PlaceDelayed
  <2>9. CASE PlaceUntil(t)
    <3>1. /\ UNCHANGED <<xTickCount, xNumOfOverflows, uxPendedTicks, uxSchedulerSuspended, event>>
          /\ \/ \E at \in Tick : AddToDelayedList(t, at)
             \/ UNCHANGED <<state, wake, xNextTaskUnblockTime>>
      <4>1. \A ago \in Tick, d \in Delays :
               (((xTickCount - ago) % TickLimit) + d) % TickLimit \in Tick
        <5>1. \A ago \in Tick : xTickCount - ago \in Int
          BY TickTypes DEF KernelTypeOK
        <5>2. \A ago \in Tick : (xTickCount - ago) % TickLimit \in Nat
          BY <5>1, TickTypes
        <5>3. \A d \in Delays : d \in Nat
          BY TickTypes, WaitsAssumption
        <5> QED
          BY <5>2, <5>3, TickTypes
      <4> QED
        BY <2>9, <4>1 DEF PlaceUntil
    <3> QED
      BY <1>4, <3>1 DEF KernelTypeOK
  <2>10. CASE SuspendItself(t) \/ Resume(t)
    BY <2>10 DEF SuspendItself, Resume, Suspend, vTaskResume, KernelTypeOK, ticks
  <2> QED
    BY <1>9, <2>1, <2>2, <2>3, <2>4, <2>5, <2>6, <2>7, <2>8, <2>9, <2>10 DEF Step
<1> QED
  BY <1>5, <1>7, <1>8, <1>9 DEF Next, vars

(* The type invariant, for every number of tasks, length, width of the     *)
(* tick count and block times (xQueueGenericCreate, xTaskIncrementTick).   *)
THEOREM TypeCorrect == Spec => []TypeOK
<1> DEFINE KTypeOK == KernelTypeOK /\ CallsTypeOK /\ LocksTypeOK
<1>1. Init => KTypeOK
  <2> SUFFICES ASSUME Init PROVE KTypeOK
    OBVIOUS
  <2>1. KernelTypeOK
    BY TickTypes DEF Init, KernelInit, KernelTypeOK
  <2>2. CallsTypeOK
    BY TickTypes, StepNames DEF Init, CallsTypeOK, NoTime
  <2>3. LocksTypeOK
    BY WaitsAssumption DEF Init, LocksTypeOK, queueUNLOCKED
  <2> QED
    BY <2>1, <2>2, <2>3
<1>2. KTypeOK /\ [Next]_vars => KTypeOK'
  <2> SUFFICES ASSUME KTypeOK, [Next]_vars PROVE KTypeOK'
    OBVIOUS
  <2>1. KernelTypeOK' /\ LocksTypeOK'
    BY KernelTyped, LocksTyped
  <2>2. CASE UNCHANGED callers
    BY <2>1, <2>2 DEF CallsTypeOK, callers, wait
  <2>3. ASSUME NEW t \in Task, Step(t) PROVE CallsTypeOK'
    BY <2>3, CallsTyped
  <2>4. UNCHANGED callers \/ \E t \in Task : Step(t)
    BY DEF Next, vars, xQueueGenericSendFromISR, xQueueReceiveFromISR, SysTick
  <2> QED
    BY <2>1, <2>2, <2>3, <2>4
<1>3. KTypeOK /\ StorageInv => TypeOK
  BY TypeParts DEF StorageInv
<1> QED
  BY <1>1, <1>2, <1>3, StorageKept, PTL DEF Spec
===============================================================================
