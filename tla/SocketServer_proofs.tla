------------------------- MODULE SocketServer_proofs --------------------------
(***************************************************************************)
(* Proofs about SocketServer: for every size of the rings and the buffer,  *)
(* every range of the pointers, and every number of lines.                 *)
(***************************************************************************)
EXTENDS SocketServer, W5200Server_proofs

-----------------------------------------------------------------------------
(* Remainders. *)

LEMMA Times ==
    ASSUME NEW R \in Nat \ {0}, NEW a \in Int, a >= 1
    PROVE  R * a >= R
<1>1. R * (a - 1) >= 0
  OBVIOUS
<1>2. R * (a - 1) = R * a - R
  OBVIOUS
<1> QED
  BY <1>1, <1>2

LEMMA Unique ==
    ASSUME NEW R \in Nat \ {0}, NEW q \in Int, NEW s \in Int, NEW r \in 0 .. R - 1, NEW t \in 0 .. R - 1,
           R * q + r = R * s + t
    PROVE  r = t
<1>1. R * (q - s) = t - r /\ R * (s - q) = r - t
  OBVIOUS
<1>2. ~(q - s >= 1)
  BY <1>1, Times
<1>3. ~(s - q >= 1)
  BY <1>1, Times
<1> QED
  BY <1>1, <1>2, <1>3

LEMMA Quotient ==
    ASSUME NEW R \in Int, R > 0, NEW x \in Int
    PROVE  x = R * (x \div R) + (x % R)
BY Z3

LEMMA Divide ==
    ASSUME NEW R \in Nat \ {0}, NEW x \in Int
    PROVE  /\ x % R \in 0 .. R - 1 /\ x % R \in Int /\ x \div R \in Int
           /\ x = R * (x \div R) + (x % R)
<1>1. x % R \in 0 .. R - 1 /\ x \div R \in Int /\ x % R \in Int
  OBVIOUS
<1>2. R \in Int /\ R > 0
  OBVIOUS
<1>3. x = R * (x \div R) + (x % R)
  BY <1>2, Quotient
<1> QED
  BY <1>1, <1>3, Zenon

LEMMA Remainder ==
    ASSUME NEW R \in Nat \ {0}, NEW x \in Int, NEW q \in Int, NEW r \in 0 .. R - 1, x = R * q + r
    PROVE  x % R = r
<1>1. x % R \in 0 .. R - 1 /\ x \div R \in Int
  BY Divide, Zenon
<1>2. R * (x \div R) + (x % R) = R * q + r
  BY Divide, Zenon
<1> QED
  BY <1>1, <1>2, Unique, Zenon

LEMMA Moved ==
    ASSUME NEW R \in Nat \ {0}, NEW a \in Int, NEW q \in Int, NEW m \in Int, NEW s \in Int,
           NEW r \in 0 .. R - 1, a = R * q + m, m = R * s + r
    PROVE  a % R = r
<1>1. a = R * (q + s) + r /\ q + s \in Int
  OBVIOUS
<1> QED
  BY <1>1, Remainder, Zenon

LEMMA SameRemainder ==
    ASSUME NEW R \in Nat \ {0}, NEW x \in Int, NEW y \in Int, NEW q \in Int, x = R * q + y
    PROVE  x % R = y % R
<1>1. /\ y % R \in 0 .. R - 1 /\ y \div R \in Int
      /\ y = R * (y \div R) + (y % R)
  BY Divide, Zenon
<1> QED
  BY <1>1, Moved, Zenon

LEMMA Multiple ==
    ASSUME NEW R \in Nat \ {0}, NEW y \in Int, NEW q \in Int
    PROVE  (R * q + y) % R = y % R
<1>1. R * q + y \in Int
  OBVIOUS
<1> QED
  BY <1>1, SameRemainder

LEMMA Small ==
    ASSUME NEW R \in Nat \ {0}, NEW r \in 0 .. R - 1
    PROVE  r % R = r
<1>1. r = R * 0 + r /\ r \in Int /\ 0 \in Int
  OBVIOUS
<1> QED
  BY <1>1, Remainder, Zenon

(* Adding to what was cut, and taking it away. *)
LEMMA CutTwice ==
    ASSUME NEW R \in Nat \ {0}, NEW a \in Int, NEW i \in Int
    PROVE  ((a % R) + i) % R = (a + i) % R /\ (i - (a % R)) % R = (i - a) % R
<1>1. /\ a % R \in Int /\ a \div R \in Int
      /\ a = R * (a \div R) + (a % R)
  BY Divide, Zenon
<1>2. PICK m \in Int, q \in Int : m = (a % R) /\ a = R * q + m
  BY <1>1, Zenon
<1>3. a = R * q + m
  BY <1>2
<1>4. a + i = R * q + (m + i) /\ i - m = R * q + (i - a)
      /\ m + i \in Int /\ i - a \in Int
  BY <1>3
<1>5. (R * q + (m + i)) % R = (m + i) % R
  BY <1>4, Multiple
<1>6. (R * q + (i - a)) % R = (i - a) % R
  BY <1>4, Multiple
<1> QED
  BY <1>2, <1>4, <1>5, <1>6, Zenon

LEMMA Product ==
    ASSUME NEW R \in Nat \ {0}, NEW T \in Nat \ {0}
    PROVE  R * T \in Nat \ {0}
<1>1. T >= 1 /\ R * T \in Int
  OBVIOUS
<1> QED
  BY <1>1, Times

(* The same for a number that was cut to a multiple of R. *)
LEMMA CutThenAdd ==
    ASSUME NEW R \in Nat \ {0}, NEW T \in Nat \ {0}, NEW a \in Int, NEW i \in Int
    PROVE  ((a % (R * T)) + i) % R = (a + i) % R /\ (i - (a % (R * T))) % R = (i - a) % R
<1>1. R * T \in Nat \ {0}
  BY Product
<1>2. /\ a % (R * T) \in Int /\ a \div (R * T) \in Int
      /\ a = (R * T) * (a \div (R * T)) + (a % (R * T))
  BY <1>1, Divide, Zenon
<1>3. \A q \in Int : (R * T) * q = R * (T * q) /\ T * q \in Int
  OBVIOUS
<1>4. /\ T * (a \div (R * T)) \in Int
      /\ a = R * (T * (a \div (R * T))) + (a % (R * T))
  BY <1>2, <1>3, Zenon
<1>5. PICK m \in Int, q \in Int : m = (a % (R * T)) /\ a = R * q + m
  BY <1>2, <1>4, Zenon
<1>6. a = R * q + m
  BY <1>5
<1>7. a + i = R * q + (m + i) /\ i - m = R * q + (i - a)
      /\ m + i \in Int /\ i - a \in Int
  BY <1>6
<1>8. (R * q + (m + i)) % R = (m + i) % R
  BY <1>7, Multiple
<1>9. (R * q + (i - a)) % R = (i - a) % R
  BY <1>7, Multiple
<1> QED
  BY <1>5, <1>7, <1>8, <1>9, Zenon

(* The distance of two numbers that were cut. *)
LEMMA Distance ==
    ASSUME NEW M \in Nat \ {0}, NEW a \in Int, NEW b \in Int, b - a \in 0 .. M - 1
    PROVE  ((b % M) - (a % M)) % M = b - a
<1>1. /\ a % M \in Int /\ a \div M \in Int /\ a = M * (a \div M) + (a % M)
      /\ b % M \in Int /\ b \div M \in Int /\ b = M * (b \div M) + (b % M)
  BY Divide, Zenon
<1>2. PICK m \in Int, q \in Int : m = (a % M) /\ a = M * q + m
  BY <1>1, Zenon
<1>3. PICK n \in Int, s \in Int : n = (b % M) /\ b = M * s + n
  BY <1>1, Zenon
<1>4. a = M * q + m /\ b = M * s + n
  BY <1>2, <1>3
<1>5. PICK t \in Int : t = q - s
  OBVIOUS
<1>6. n - m = M * t + (b - a) /\ b - a \in Int
  BY <1>4, <1>5
<1>7. (M * t + (b - a)) % M = (b - a) % M
  BY <1>6, Multiple
<1>8. (b - a) % M = b - a
  BY Small
<1> QED
  BY <1>2, <1>3, <1>6, <1>7, <1>8, Zenon

-----------------------------------------------------------------------------
(* Places in a ring. *)

LEMMA Limits ==
    /\ RingSize \in Nat \ {0} /\ Turns \in Nat \ {0}
    /\ PointerLimit \in Nat \ {0} /\ PointerLimit >= 2 * RingSize
<1>1. RingSize \in Nat \ {0} /\ Turns \in Nat \ {0} /\ Turns >= 2
  BY RingAssumption
<1>2. PICK t \in Nat : t = Turns - 2
  BY <1>1
<1>3. Turns = t + 2
  BY <1>1, <1>2
<1>4. RingSize * (t + 2) = RingSize * t + 2 * RingSize /\ RingSize * t \in Nat
  BY <1>1, <1>2
<1> QED
  BY <1>1, <1>3, <1>4 DEF PointerLimit

LEMMA OffsetType ==
    ASSUME NEW p \in Int
    PROVE  /\ Offset(p) \in 0 .. RingSize - 1
           /\ Room(p) \in 1 .. RingSize
<1>1. Offset(p) \in 0 .. RingSize - 1
  BY Limits, Divide DEF Offset
<1> QED
  BY <1>1, Limits DEF Room

(* The place i bytes behind a pointer that has wrapped. *)
LEMMA OffsetBehind ==
    ASSUME NEW a \in Int, NEW i \in Int
    PROVE  /\ Offset((a % PointerLimit) + i) = Offset(a + i)
           /\ Offset(i - (a % PointerLimit)) = Offset(i - a)
           /\ Offset(Offset(a) + i) = Offset(a + i)
           /\ Offset(i - Offset(a)) = Offset(i - a)
<1>1. /\ ((a % PointerLimit) + i) % RingSize = (a + i) % RingSize
      /\ (i - (a % PointerLimit)) % RingSize = (i - a) % RingSize
  BY Limits, CutThenAdd, Zenon DEF PointerLimit
<1>2. /\ ((a % RingSize) + i) % RingSize = (a + i) % RingSize
      /\ (i - (a % RingSize)) % RingSize = (i - a) % RingSize
  BY Limits, CutTwice, Zenon
<1> QED
  BY <1>1, <1>2, Zenon DEF Offset

LEMMA AheadIs ==
    ASSUME NEW a \in Int, NEW b \in Int, b - a \in 0 .. RingSize
    PROVE  Ahead(a % PointerLimit, b % PointerLimit) = b - a
<1>1. b - a \in 0 .. PointerLimit - 1
  BY Limits
<1> QED
  BY <1>1, Limits, Distance, Zenon DEF Ahead

LEMMA AdvancedIs ==
    ASSUME NEW a \in Int, NEW i \in Int
    PROVE  Advanced(a % PointerLimit, i) = (a + i) % PointerLimit
<1>1. ((a % PointerLimit) + i) % PointerLimit = (a + i) % PointerLimit
  BY Limits, CutTwice, Zenon
<1> QED
  BY <1>1 DEF Advanced

LEMMA OffsetSmall ==
    ASSUME NEW p \in 0 .. RingSize - 1
    PROVE  Offset(p) = p
BY Limits, Small DEF Offset

(* Going on from p, up to the end of the ring and beyond. *)
LEMMA OffsetWithin ==
    ASSUME NEW p \in Int, NEW i \in 0 .. RingSize
    PROVE  Offset(p + i) = IF i < Room(p) THEN Offset(p) + i ELSE Offset(p) + i - RingSize
<1>1. Offset(p) \in 0 .. RingSize - 1 /\ RingSize \in Nat \ {0} /\ i \in Int
  BY Limits, OffsetType
<1>2. Offset(p + i) = Offset(Offset(p) + i)
  BY <1>1, OffsetBehind, Zenon
<1>3. CASE i < Room(p)
  <2>1. Offset(p) + i \in 0 .. RingSize - 1
    BY <1>1, <1>3 DEF Room
  <2>2. Offset(Offset(p) + i) = Offset(p) + i
    BY <2>1, OffsetSmall, Zenon
  <2> QED
    BY <1>2, <1>3, <2>2, Zenon
<1>4. CASE ~(i < Room(p))
  <2>1. PICK m \in 0 .. RingSize - 1 : m = Offset(p)
    BY <1>1, Zenon
  <2>2. m + i >= RingSize
    BY <1>1, <1>4, <2>1 DEF Room
  <2>3. PICK d \in 0 .. RingSize - 1 : d = m + i - RingSize
    BY <1>1, <2>2
  <2>4. m + i = RingSize * 1 + d /\ 1 \in Int /\ d \in Int
    BY <1>1, <2>3
  <2>5. (RingSize * 1 + d) % RingSize = d % RingSize
    BY <1>1, <2>4, Multiple, Zenon
  <2>6. d % RingSize = d
    BY <1>1, Small, Zenon
  <2>7. Offset(m + i) = d
    BY <2>4, <2>5, <2>6, Zenon DEF Offset
  <2>8. Offset(p + i) = m + i - RingSize
    BY <1>2, <2>1, <2>3, <2>7, Zenon
  <2> QED
    BY <1>4, <2>1, <2>8, Zenon
<1> QED
  BY <1>3, <1>4

(* And before it. *)
LEMMA OffsetBefore ==
    ASSUME NEW i \in 1 .. RingSize
    PROVE  Offset(0 - i) = RingSize - i
<1>1. RingSize \in Nat \ {0} /\ 0 - i = RingSize * (0 - 1) + (RingSize - i)
      /\ RingSize - i \in 0 .. RingSize - 1 /\ RingSize - i \in Int /\ 0 - 1 \in Int
  BY Limits
<1>2. (RingSize * (0 - 1) + (RingSize - i)) % RingSize = (RingSize - i) % RingSize
  BY <1>1, Multiple
<1>3. (RingSize - i) % RingSize = RingSize - i
  BY <1>1, Small
<1> QED
  BY <1>1, <1>2, <1>3, Zenon DEF Offset

-----------------------------------------------------------------------------
(* Every step is one of the server without the bytes. *)

LEMMA StepOfServer == [SocketNext]_all => [Next]_vars
<1> SUFFICES ASSUME SocketNext \/ UNCHANGED all PROVE Next \/ UNCHANGED vars
  OBVIOUS
<1>1. CASE LineArrives
  BY <1>1 DEF LineArrives, Next, ClientNext
<1>2. CASE TaskNext
  BY <1>2 DEF TaskNext, AskSize, ReadMemory, MovePointer, Interpret, WriteReply, WaitAgain,
              Next, ServerNext
<1>3. CASE Elsewhere
  BY <1>3 DEF Elsewhere, Next, ClientNext, Hang
<1>4. CASE UNCHANGED all
  BY <1>4 DEF all
<1> QED
  BY <1>1, <1>2, <1>3, <1>4 DEF SocketNext

(* SocketServer is W5200Server with more to see: the safety part of        *)
(* ImplementsServer.                                                       *)
THEOREM Refinement == SocketInit /\ [][SocketNext]_all => Init /\ [][Next]_vars
<1>1. SocketInit => Init
  BY DEF SocketInit
<1> QED
  BY <1>1, StepOfServer, PTL

(* Hence what W5200Server promises holds with the bytes, and with recv     *)
(* split into its steps: types, no waiting in recv, the order of the lines,*)
(* none twice, and INT not left low.                                       *)
THEOREM ServerKept ==
    SocketSpec => [](TypeOK /\ RecvNeverSpins /\ RunsInOrder /\ PinNotStuck)
BY Refinement, ServerInvAlways, ServerInvSays, PTL DEF SocketSpec

-----------------------------------------------------------------------------
(* The invariant. *)

(* The types of what W5200Server does not have. *)
Bytes ==
    /\ rxMem \in [0 .. RingSize - 1 -> Nat]
    /\ txMem \in [0 .. 2 * RingSize - 1 -> Nat]
    /\ text \in [0 .. 2 * RingSize - 1 -> Nat]
    /\ TX_WR \in Pointer
    /\ stream \in Seq(Nat)
    /\ taken \in Nat /\ read_len \in Nat
    /\ recvPc \in {"done", "read", "pointer"}

(* The pointers are the counts of bytes taken and received; recv is at     *)
(* work, or hangs, only inside recv, and was told of bytes that are there. *)
Counted ==
    /\ RX_RD = taken % PointerLimit
    /\ RX_WR = Len(stream) % PointerLimit
    /\ taken <= Len(stream) /\ Len(stream) <= taken + RingSize
    /\ recvPc # "done" => server \in {"process", "hung"} /\ taken + read_len <= Len(stream)

(* The bytes counted from .. to - 1 are in their places: those received and*)
(* not taken are.                                                          *)
InPlace(mem, from, to, bytes) ==
    \A k \in from .. to - 1 : mem[Offset(k)] = bytes[k + 1]

Held == InPlace(rxMem, taken, Len(stream), stream)

(* The first byte no recv was told of. *)
Untold == IF recvPc = "done" THEN taken ELSE taken + read_len

(* The lines of W5200Server are the bytes no recv was told of: first the   *)
(* bytes of the first line.                                                *)
Lines ==
    /\ rx = <<>> => Len(stream) = Untold
    /\ rx # <<>> =>
         /\ Untold + LineLength(Head(rx)) <= Len(stream)
         /\ \A i \in 0 .. LineLength(Head(rx)) - 1 : stream[Untold + i + 1] = Head(rx)
    /\ Len(rx) = 1 => Len(stream) - Untold = LineLength(Head(rx))
    /\ Len(rx) > 1 => Len(stream) - Untold >= 3

(* The first byte the recv in hand was told of. *)
Start == IF recvPc = "done" THEN taken - read_len ELSE taken

(* What recv was told of begins with the bytes of the text of W5200Server. *)
Begins ==
    server = "process" =>
        /\ Start \in Nat /\ Start + read_len <= Len(stream)
        /\ buf = 0 <=> read_len < 3
        /\ buf # 0 => \A i \in 0 .. LineLength(buf) - 1 : stream[Start + i + 1] = buf

(* What has been copied in one piece. *)
InBuffer ==
    server = "process" /\ recvPc # "read" /\ Copied <= Room(Start) =>
        \A i \in 0 .. Copied - 1 : text[i] = stream[Start + i + 1]

Memory == Bytes /\ Counted /\ Held

LEMMA MemoryInit == SocketInit => Memory
<1> SUFFICES ASSUME SocketInit PROVE Memory
  OBVIOUS
<1>1. 0 \in Pointer /\ 0 \in 0 .. PointerLimit - 1
  BY Limits DEF Pointer
<1>2. stream = <<>> /\ Len(stream) = 0 /\ stream \in Seq(Nat) /\ taken = 0
  BY DEF SocketInit
<1>3. 0 % PointerLimit = 0
  BY <1>1, Limits, Small, Zenon
<1>4. Bytes
  BY <1>1, <1>2 DEF SocketInit, Bytes
<1>5. Counted
  BY <1>2, <1>3, Limits DEF SocketInit, Counted
<1>6. Held
  BY <1>2 DEF Held, InPlace
<1> QED
  BY <1>4, <1>5, <1>6 DEF Memory

LEMMA SizeIs == Memory => get_RXRSR = Len(stream) - taken
<1> SUFFICES ASSUME Memory PROVE get_RXRSR = Len(stream) - taken
  OBVIOUS
<1>1. PICK a \in Int, b \in Int : a = taken /\ b = Len(stream) /\ b - a \in 0 .. RingSize
  BY Limits DEF Memory, Bytes, Counted
<1>2. Ahead(a % PointerLimit, b % PointerLimit) = b - a
  BY <1>1, AheadIs
<1> QED
  BY <1>1, <1>2 DEF Memory, Counted, get_RXRSR

-----------------------------------------------------------------------------
(* A line arrives. *)

LEMMA Grown ==
    ASSUME NEW s \in Seq(Nat), NEW n \in Nat, NEW line \in Nat
    PROVE  /\ s \o [i \in 1 .. n |-> line] \in Seq(Nat)
           /\ Len(s \o [i \in 1 .. n |-> line]) = Len(s) + n
           /\ \A k \in 1 .. Len(s) : (s \o [i \in 1 .. n |-> line])[k] = s[k]
           /\ \A k \in Len(s) + 1 .. Len(s) + n : (s \o [i \in 1 .. n |-> line])[k] = line
<1>1. PICK t : t = [i \in 1 .. n |-> line]
  OBVIOUS
<1>2. t \in Seq(Nat) /\ Len(t) = n /\ \A i \in 1 .. n : t[i] = line
  BY <1>1
<1>3. /\ s \o t \in Seq(Nat) /\ Len(s \o t) = Len(s) + n
      /\ \A k \in 1 .. Len(s) : (s \o t)[k] = s[k]
      /\ \A k \in Len(s) + 1 .. Len(s) + n : (s \o t)[k] = line
  BY <1>2
<1> QED
  BY <1>1, <1>3

(* What has come in, in the words of the pointers' counts. *)
LEMMA Arrival ==
    ASSUME Memory, TypeOK, LineArrives
    PROVE  \E n \in {2, 3}, line \in 1 .. MaxLines :
             /\ line = typed + 1 /\ rx' = Append(rx, line)
             /\ n = IF line \in blanks' THEN 2 ELSE 3
             /\ Len(stream) + n <= taken + RingSize
             /\ rxMem' = Received(rxMem, RX_WR, [i \in 0 .. n - 1 |-> line], n)
             /\ RX_WR' = (Len(stream) + n) % PointerLimit
             /\ stream' \in Seq(Nat) /\ Len(stream') = Len(stream) + n
             /\ \A k \in 1 .. Len(stream) : stream'[k] = stream[k]
             /\ \A k \in Len(stream) + 1 .. Len(stream) + n : stream'[k] = line
<1>1. /\ typed \in Nat /\ typed < MaxLines /\ MaxLines \in Nat /\ rx' = Append(rx, typed + 1)
  BY LinesAssumption DEF LineArrives, TypeLine, TypeOK
<1>2. PICK line \in 1 .. MaxLines : line = typed + 1
  BY <1>1
<1>3. PICK n \in {2, 3} : n = IF line \in blanks' THEN 2 ELSE 3
  OBVIOUS
<1>4. /\ get_RXRSR + n <= RingSize
      /\ rxMem' = Received(rxMem, RX_WR, [i \in 0 .. n - 1 |-> line], n)
      /\ RX_WR' = Advanced(RX_WR, n)
      /\ stream' = stream \o [i \in 1 .. n |-> line]
  BY <1>2, <1>3 DEF LineArrives
<1>5. /\ stream \in Seq(Nat) /\ Len(stream) \in Nat /\ taken \in Nat /\ n \in Nat /\ line \in Nat
      /\ RX_WR = Len(stream) % PointerLimit
  BY DEF Memory, Bytes, Counted
<1>6. Len(stream) + n <= taken + RingSize
  BY <1>4, <1>5, SizeIs, Limits
<1>7. RX_WR' = (Len(stream) + n) % PointerLimit
  <2>1. PICK b \in Int : b = Len(stream)
    BY <1>5
  <2>2. Advanced(b % PointerLimit, n) = (b + n) % PointerLimit
    BY <1>5, AdvancedIs
  <2> QED
    BY <1>4, <1>5, <2>1, <2>2
<1>8. /\ stream' \in Seq(Nat) /\ Len(stream') = Len(stream) + n
      /\ \A k \in 1 .. Len(stream) : stream'[k] = stream[k]
      /\ \A k \in Len(stream) + 1 .. Len(stream) + n : stream'[k] = line
  BY <1>4, <1>5, Grown
<1> QED
  BY <1>1, <1>2, <1>3, <1>4, <1>6, <1>7, <1>8

(* The place of byte k of the stream in the ring, seen from byte b.        *)
LEMMA Seen ==
    ASSUME NEW k \in Int, NEW b \in Int
    PROVE  Offset(Offset(k) - (b % PointerLimit)) = Offset(k - b)
<1>1. Offset(k) \in Int
  BY OffsetType, Limits
<1>2. Offset(Offset(k) - (b % PointerLimit)) = Offset(Offset(k) - b)
  BY <1>1, OffsetBehind
<1>3. PICK c \in Int : c = 0 - b
  OBVIOUS
<1>4. Offset(Offset(k) + c) = Offset(k + c)
  BY <1>3, OffsetBehind
<1>5. Offset(k) + c = Offset(k) - b /\ k + c = k - b
  BY <1>1, <1>3
<1> QED
  BY <1>2, <1>4, <1>5

(* bytes2 goes on after b bytes of bytes with n times line. *)
Extended(bytes2, bytes, b, n, line) ==
    /\ \A k \in 1 .. b : bytes2[k] = bytes[k]
    /\ \A k \in b + 1 .. b + n : bytes2[k] = line

Same(bytes, n, line) == \A i \in 0 .. n - 1 : bytes[i] = line

(* What the chip puts behind the b bytes of s. *)
LEMMA Filled ==
    ASSUME NEW mem \in [0 .. RingSize - 1 -> Nat], NEW t \in Nat, NEW b \in Nat, NEW n \in {2, 3},
           NEW line \in Nat, NEW s, NEW s2, NEW bytes,
           t <= b, b + n <= t + RingSize,
           InPlace(mem, t, b, s), Extended(s2, s, b, n, line), Same(bytes, n, line)
    PROVE  /\ Received(mem, b % PointerLimit, bytes, n) \in [0 .. RingSize - 1 -> Nat]
           /\ InPlace(Received(mem, b % PointerLimit, bytes, n), t, b + n, s2)
<1> DEFINE mem2 == Received(mem, b % PointerLimit, bytes, n)
<1>0. RingSize \in Nat \ {0}
  BY Limits
<1>1. ASSUME NEW x \in 0 .. RingSize - 1
      PROVE  Offset(x - (b % PointerLimit)) \in 0 .. RingSize - 1
  <2>1. b % PointerLimit \in Int
    BY Limits, Divide
  <2>2. x - (b % PointerLimit) \in Int
    BY <1>0, <2>1
  <2> QED
    BY <2>2, OffsetType
<1>2. PICK o \in [0 .. RingSize - 1 -> 0 .. RingSize - 1] :
         \A x \in 0 .. RingSize - 1 : o[x] = Offset(x - (b % PointerLimit))
  <2>1. [x \in 0 .. RingSize - 1 |-> Offset(x - (b % PointerLimit))]
            \in [0 .. RingSize - 1 -> 0 .. RingSize - 1]
    BY <1>1
  <2> QED
    BY <2>1
<1>3. mem2 = [x \in 0 .. RingSize - 1 |-> IF o[x] < n THEN line ELSE mem[x]]
  <2>1. DOMAIN mem = 0 .. RingSize - 1
    OBVIOUS
  <2>2. mem2 = [x \in 0 .. RingSize - 1 |->
                  IF Offset(x - (b % PointerLimit)) < n
                  THEN bytes[Offset(x - (b % PointerLimit))] ELSE mem[x]]
    BY <2>1 DEF Received
  <2>3. mem2 = [x \in 0 .. RingSize - 1 |-> IF o[x] < n THEN bytes[o[x]] ELSE mem[x]]
    BY <1>2, <2>2
  <2>4. \A x \in 0 .. RingSize - 1 : o[x] < n => bytes[o[x]] = line
    <3> SUFFICES ASSUME NEW x \in 0 .. RingSize - 1, o[x] < n PROVE bytes[o[x]] = line
      OBVIOUS
    <3>1. o[x] \in 0 .. n - 1
      BY <1>0
    <3> QED
      BY <3>1, Zenon DEF Same
  <2> QED
    BY <2>3, <2>4
<1> HIDE DEF mem2
<1>4. mem2 \in [0 .. RingSize - 1 -> Nat]
  BY <1>3
<1>5. ASSUME NEW k \in t .. b + n - 1
      PROVE  mem2[Offset(k)] = s2[k + 1]
  <2>1. k \in Int /\ b \in Int
    OBVIOUS
  <2>2. PICK x \in 0 .. RingSize - 1 : x = Offset(k)
    BY <2>1, OffsetType
  <2>3. o[x] = Offset(k - b)
    BY <1>2, <2>1, <2>2, Seen
  <2>4. mem2[x] = IF o[x] < n THEN line ELSE mem[x]
    BY <1>3
  <2>5. CASE k >= b
    <3>1. k - b \in 0 .. RingSize - 1 /\ k - b < n
      BY <1>0, <2>5
    <3>2. Offset(k - b) = k - b
      BY <3>1, OffsetSmall
    <3>3. k + 1 \in b + 1 .. b + n
      BY <2>1, <2>5, <3>1
    <3>4. s2[k + 1] = line
      BY <3>3, Zenon DEF Extended
    <3> QED
      BY <2>2, <2>3, <2>4, <3>1, <3>2, <3>4
  <2>6. CASE k < b
    <3>0. b - k \in 1 .. RingSize
      <4>1. n \in Nat /\ n >= 2 /\ t \in Int /\ t <= k
        OBVIOUS
      <4>2. b <= t + RingSize
        BY <1>0, <4>1
      <4> QED
        BY <1>0, <2>1, <2>6, <4>1, <4>2
    <3>1. PICK i \in 1 .. RingSize : i = b - k
      BY <3>0, Zenon
    <3>2. k - b = 0 - i /\ RingSize - i >= n
      BY <1>0, <2>1, <3>1
    <3>3. Offset(0 - i) = RingSize - i
      BY OffsetBefore
    <3>4. ~(o[x] < n)
      BY <1>0, <2>3, <3>1, <3>2, <3>3
    <3>5. k \in t .. b - 1 /\ k + 1 \in 1 .. b
      BY <2>1, <2>6
    <3>6. mem[x] = s[k + 1]
      BY <2>2, <3>5, Zenon DEF InPlace
    <3>7. s2[k + 1] = s[k + 1]
      BY <3>5, Zenon DEF Extended
    <3> QED
      BY <2>2, <2>4, <3>4, <3>6, <3>7
  <2> QED
    BY <2>1, <2>5, <2>6
<1>6. InPlace(mem2, t, b + n, s2)
  BY <1>5 DEF InPlace
<1> QED
  BY <1>4, <1>6 DEF mem2

LEMMA ArrivalKeeps == TypeOK /\ Memory /\ LineArrives => Memory'
<1> SUFFICES ASSUME TypeOK, Memory, LineArrives PROVE Memory'
  OBVIOUS
<1>1. PICK n \in {2, 3}, line \in 1 .. MaxLines :
             /\ line = typed + 1 /\ rx' = Append(rx, line)
             /\ n = IF line \in blanks' THEN 2 ELSE 3
             /\ Len(stream) + n <= taken + RingSize
             /\ rxMem' = Received(rxMem, RX_WR, [i \in 0 .. n - 1 |-> line], n)
             /\ RX_WR' = (Len(stream) + n) % PointerLimit
             /\ stream' \in Seq(Nat) /\ Len(stream') = Len(stream) + n
             /\ \A k \in 1 .. Len(stream) : stream'[k] = stream[k]
             /\ \A k \in Len(stream) + 1 .. Len(stream) + n : stream'[k] = line
  BY Arrival
<1>2. UNCHANGED <<RX_RD, txMem, TX_WR, text, recvPc, read_len, taken, server>>
  BY DEF LineArrives, TypeLine, transmit, reading, task
<1>3. PICK b \in Nat : b = Len(stream) /\ RX_WR = b % PointerLimit /\ taken <= b
  BY DEF Memory, Bytes, Counted
<1>4. PICK m2, s2, c : m2 = rxMem' /\ s2 = stream' /\ c = Len(stream')
  OBVIOUS
<1>5. c = b + n /\ RX_WR' = (b + n) % PointerLimit /\ b + n <= taken + RingSize
  BY <1>1, <1>3, <1>4, Zenon
<1>6. s2 \in Seq(Nat) /\ Extended(s2, stream, b, n, line)
  BY <1>1, <1>3, <1>4, Zenon DEF Extended
<1>7. /\ rxMem \in [0 .. RingSize - 1 -> Nat] /\ taken \in Nat /\ stream \in Seq(Nat)
      /\ InPlace(rxMem, taken, b, stream)
  BY <1>3, Zenon DEF Memory, Bytes, Held
<1>8. PICK bytes : Same(bytes, n, line) /\ m2 = Received(rxMem, b % PointerLimit, bytes, n)
  <2>1. m2 = Received(rxMem, b % PointerLimit, [i \in 0 .. n - 1 |-> line], n)
    BY <1>1, <1>3, <1>4, Zenon
  <2>2. Same([i \in 0 .. n - 1 |-> line], n, line)
    BY DEF Same
  <2> QED
    BY <2>1, <2>2, Zenon
<1>9. line \in Nat /\ n \in Nat /\ RingSize \in Nat \ {0}
  BY Limits, LinesAssumption
<1>10. m2 \in [0 .. RingSize - 1 -> Nat] /\ InPlace(m2, taken, b + n, s2)
  BY <1>3, <1>5, <1>6, <1>7, <1>8, <1>9, Filled, Zenon
<1>11. Bytes'
  <2>1. RX_RD' = RX_RD /\ txMem' = txMem /\ text' = text /\ TX_WR' = TX_WR /\ taken' = taken
        /\ read_len' = read_len /\ recvPc' = recvPc
    BY <1>2
  <2> QED
    BY <1>4, <1>6, <1>10, <2>1 DEF Memory, Bytes, Pointer, PointerLimit
<1>12. Counted'
  <2>1. b <= c /\ c \in Nat
    BY <1>5, <1>9
  <2>2. RX_WR' = Len(stream') % PointerLimit
    BY <1>4, <1>5, Zenon
  <2>3. taken' <= Len(stream') /\ Len(stream') <= taken' + RingSize
    BY <1>2, <1>3, <1>4, <1>5, <1>7, <1>9, <2>1
  <2>4. recvPc' # "done" => server' \in {"process", "hung"} /\ taken' + read_len' <= Len(stream')
    <3>1. recvPc # "done" => server \in {"process", "hung"} /\ taken + read_len <= b
      BY <1>3 DEF Memory, Counted
    <3>2. read_len \in Nat
      BY DEF Memory, Bytes
    <3> QED
      BY <1>2, <1>4, <1>7, <2>1, <3>1, <3>2
  <2>5. RX_RD' = taken' % PointerLimit
    BY <1>2 DEF Memory, Counted
  <2> QED
    BY <2>2, <2>3, <2>4, <2>5 DEF Counted
<1>13. Held'
  <2>1. taken' = taken /\ Len(stream') = b + n
    BY <1>2, <1>4, <1>5
  <2>2. InPlace(rxMem', taken', Len(stream'), stream')
    BY <2>1, <1>4, <1>10, Zenon
  <2> QED
    BY <2>2 DEF Held, InPlace, Offset
<1> QED
  BY <1>11, <1>12, <1>13 DEF Memory

-----------------------------------------------------------------------------
(* The steps that leave the memory alone. *)

LEMMA Untouched ==
    ASSUME Memory, UNCHANGED <<receive, txMem, TX_WR, reading>>,
           recvPc # "done" => server' \in {"process", "hung"}
    PROVE  Memory'
<1>1. /\ rxMem' = rxMem /\ RX_RD' = RX_RD /\ RX_WR' = RX_WR /\ stream' = stream
      /\ txMem' = txMem /\ TX_WR' = TX_WR
      /\ recvPc' = recvPc /\ read_len' = read_len /\ text' = text /\ taken' = taken
  BY DEF receive, reading
<1>2. Bytes'
  BY <1>1 DEF Memory, Bytes, Pointer, PointerLimit
<1>3. Counted'
  BY <1>1 DEF Memory, Counted, PointerLimit
<1>4. Held'
  BY <1>1 DEF Memory, Held, InPlace, Offset
<1> QED
  BY <1>2, <1>3, <1>4 DEF Memory

LEMMA OthersKeep ==
    ASSUME Memory, Interpret \/ Elsewhere \/ WaitAgain \/ UNCHANGED all
    PROVE  Memory'
<1>0. recvPc # "done" => server \in {"process", "hung"}
  BY DEF Memory, Counted
<1>1. CASE Interpret
  BY <1>1, Untouched DEF Interpret, transmit
<1>2. CASE Elsewhere
  <2>1. server \in {"process", "hung"} => server' \in {"process", "hung"}
    <3>1. CASE ReadCode
      BY <3>1, MetIs DEF ReadCode
    <3>2. CASE ~ReadCode
      BY <1>2, <3>2 DEF Elsewhere, Connect, Disconnect, Transmitted, Delivered, IsrNext, ClearCode,
                        Switch, Acknowledge, Resumed, HandlerHangs, CommandHangs, task
    <3> QED
      BY <3>1, <3>2
  <2> QED
    BY <1>0, <1>2, <2>1, Untouched DEF Elsewhere, transmit
<1>3. CASE WaitAgain
  <2>1. recvPc = "done"
    BY <1>0, <1>3 DEF WaitAgain, Poll, Suspend, SwitchOut
  <2> QED
    BY <1>3, <2>1, Untouched DEF WaitAgain, transmit
<1>4. CASE UNCHANGED all
  BY <1>0, <1>4, Untouched DEF all, vars, task, transmit
<1> QED
  BY <1>1, <1>2, <1>3, <1>4

-----------------------------------------------------------------------------
(* recv. *)

LEMMA AskKeeps ==
    ASSUME Memory, AskSize
    PROVE  Memory'
<1>1. PICK t \in Nat, b \in Nat : t = taken /\ b = Len(stream) /\ t <= b
  <2>1. taken \in Nat /\ Len(stream) \in Nat /\ taken <= Len(stream)
    BY DEF Memory, Bytes, Counted
  <2> QED
    BY <2>1
<1>2. /\ rxMem' = rxMem /\ RX_RD' = RX_RD /\ RX_WR' = RX_WR /\ stream' = stream
      /\ txMem' = txMem /\ TX_WR' = TX_WR /\ text' = text /\ taken' = taken
      /\ server' = "process"
  BY DEF AskSize, Recv, receive, transmit
<1>3. \/ recvPc' = "read" /\ read_len' = b - t
      \/ recvPc' = "done" /\ read_len' = 0
  BY <1>1, SizeIs DEF AskSize
<1>4. read_len' \in Nat /\ t + read_len' <= b
  BY <1>1, <1>3
<1>5. Bytes'
  BY <1>2, <1>3, <1>4 DEF Memory, Bytes, Pointer, PointerLimit
<1>6. Counted'
  BY <1>1, <1>2, <1>4 DEF Memory, Counted, PointerLimit
<1>7. Held'
  BY <1>2 DEF Memory, Held, InPlace, Offset
<1> QED
  BY <1>5, <1>6, <1>7 DEF Memory

(* What read_memory leaves in the buffer. *)
LEMMA ReadIs ==
    ASSUME NEW mem \in [0 .. RingSize - 1 -> Nat], NEW buffer \in [0 .. 2 * RingSize - 1 -> Nat],
           NEW p \in Int, NEW len \in 0 .. RingSize
    PROVE  /\ read_memory(mem, p, buffer, len) \in [0 .. 2 * RingSize - 1 -> Nat]
           /\ \A i \in 0 .. len - 1 :
                read_memory(mem, p, buffer, len)[IF i < Room(p) THEN i ELSE i + Room(p)]
                    = mem[Offset(p + i)]
<1>1. PICK o \in 0 .. RingSize - 1, u \in 1 .. RingSize :
         o = Offset(p) /\ u = Room(p) /\ u = RingSize - o
  BY OffsetType DEF Room
<1>2. /\ o \in Int /\ u \in Int /\ 0 <= o /\ 1 <= u /\ RingSize = o + u
      /\ len \in Int /\ 0 <= len /\ len <= RingSize /\ RingSize \in Int
  BY <1>1, Limits
<1>3. RingSize \in Nat \ {0} /\ DOMAIN buffer = 0 .. 2 * RingSize - 1 /\ len \in Nat
  BY Limits
<1>4. \A i \in 0 .. len - 1 : Offset(p + i) = IF i < u THEN o + i ELSE i - u
  <2> SUFFICES ASSUME NEW i \in 0 .. len - 1
               PROVE  Offset(p + i) = IF i < u THEN o + i ELSE i - u
    OBVIOUS
  <2>1. i \in 0 .. RingSize
    BY <1>3
  <2>2. Offset(p + i) = IF i < u THEN o + i ELSE o + i - RingSize
    BY <1>1, <2>1, OffsetWithin, Zenon
  <2>3. o + i - RingSize = i - u
    BY <1>2, <2>1
  <2> QED
    BY <2>2, <2>3, Zenon
<1>5. PICK r : r = read_memory(mem, p, buffer, len)
  OBVIOUS
<1>6. CASE o + len > RingSize
  <2>1. r = [i \in 0 .. 2 * RingSize - 1 |->
               IF i < u THEN mem[o + i]
               ELSE IF i \in 2 * u .. u + len - 1 THEN mem[i - 2 * u] ELSE buffer[i]]
    BY <1>1, <1>3, <1>5, <1>6 DEF read_memory
  <2>2. ASSUME NEW i \in 0 .. 2 * RingSize - 1
        PROVE  r[i] \in Nat
    <3>1. i < u => o + i \in 0 .. RingSize - 1
      BY <1>2
    <3>2. i \in 2 * u .. u + len - 1 => i - 2 * u \in 0 .. RingSize - 1
      BY <1>2
    <3> QED
      BY <2>1, <3>1, <3>2
  <2>3. r \in [0 .. 2 * RingSize - 1 -> Nat]
    BY <2>1, <2>2
  <2>4. ASSUME NEW i \in 0 .. len - 1
        PROVE  r[IF i < u THEN i ELSE i + u] = mem[Offset(p + i)]
    <3>1. CASE i < u
      <4>1. i \in 0 .. 2 * RingSize - 1
        BY <1>2, <3>1
      <4> QED
        BY <1>4, <2>1, <3>1, <4>1
    <3>2. CASE ~(i < u)
      <4>1. PICK j \in 0 .. 2 * RingSize - 1 : j = i + u
        <5>1. i + u \in 0 .. 2 * RingSize - 1
          BY <1>2, <3>2
        <5> QED
          BY <5>1, Zenon
      <4>2. ~(j < u) /\ j \in 2 * u .. u + len - 1 /\ j - 2 * u = i - u
        BY <1>2, <3>2, <4>1
      <4> QED
        BY <1>4, <2>1, <3>2, <4>1, <4>2
    <3> QED
      BY <3>1, <3>2
  <2> QED
    BY <1>1, <1>5, <2>3, <2>4
<1>7. CASE ~(o + len > RingSize)
  <2>1. r = [i \in 0 .. 2 * RingSize - 1 |-> IF i < len THEN mem[o + i] ELSE buffer[i]]
    BY <1>1, <1>3, <1>5, <1>7 DEF read_memory
  <2>2. ASSUME NEW i \in 0 .. 2 * RingSize - 1
        PROVE  r[i] \in Nat
    <3>1. i < len => o + i \in 0 .. RingSize - 1
      BY <1>2, <1>7
    <3> QED
      BY <2>1, <3>1
  <2>3. r \in [0 .. 2 * RingSize - 1 -> Nat]
    BY <2>1, <2>2
  <2>4. ASSUME NEW i \in 0 .. len - 1
        PROVE  r[IF i < u THEN i ELSE i + u] = mem[Offset(p + i)]
    <3>1. i < u /\ i < len /\ i \in 0 .. 2 * RingSize - 1
      BY <1>2, <1>7
    <3> QED
      BY <1>4, <2>1, <3>1
  <2> QED
    BY <1>1, <1>5, <2>3, <2>4
<1> QED
  BY <1>6, <1>7

(* recv copies no more than it was told of, and that is in the ring. *)
LEMMA CopiedIs ==
    ASSUME Memory, recvPc # "done"
    PROVE  /\ read_len \in 0 .. RingSize /\ Copied \in 0 .. read_len /\ Copied \in 0 .. RingSize
           /\ read_len > 0 => Copied > 0
<1>1. PICK t \in Nat, b \in Nat, r \in Nat :
        t = taken /\ b = Len(stream) /\ r = read_len /\ t + r <= b /\ b <= t + RingSize
  BY DEF Memory, Bytes, Counted
<1>2. RingSize \in Nat /\ Buffer \in Nat \ {0}
  BY Limits, LengthsAssumption
<1>3. r <= RingSize
  BY <1>1, <1>2
<1> QED
  BY <1>1, <1>2, <1>3 DEF Copied

(* What recv has copied, in the order in which it came. *)
LEMMA Copy ==
    ASSUME Memory, ReadMemory
    PROVE  /\ text' \in [0 .. 2 * RingSize - 1 -> Nat]
           /\ \A i \in 0 .. Copied - 1 :
                text'[IF i < Room(RX_RD) THEN i ELSE i + Room(RX_RD)] = stream[taken + i + 1]
<1>1. recvPc # "done" /\ text' = read_memory(rxMem, RX_RD, text, Copied)
  BY DEF ReadMemory
<1>2. /\ rxMem \in [0 .. RingSize - 1 -> Nat] /\ text \in [0 .. 2 * RingSize - 1 -> Nat]
      /\ taken \in Nat /\ RX_RD = taken % PointerLimit
      /\ InPlace(rxMem, taken, Len(stream), stream)
      /\ read_len \in Nat /\ Len(stream) \in Nat /\ taken + read_len <= Len(stream)
  BY <1>1 DEF Memory, Bytes, Counted, Held
<1>3. PICK c \in 0 .. RingSize : c = Copied /\ c <= read_len
  BY <1>1, <1>2, CopiedIs
<1>4. PICK p \in Int : p = RX_RD
  <2>1. taken % PointerLimit \in Int
    BY <1>2, Limits, Divide
  <2> QED
    BY <1>2, <2>1, Zenon
<1>5. /\ text' \in [0 .. 2 * RingSize - 1 -> Nat]
      /\ \A i \in 0 .. c - 1 : text'[IF i < Room(p) THEN i ELSE i + Room(p)] = rxMem[Offset(p + i)]
  BY <1>1, <1>2, <1>3, <1>4, ReadIs, Zenon
<1>6. ASSUME NEW i \in 0 .. c - 1
      PROVE  rxMem[Offset(p + i)] = stream[taken + i + 1]
  <2>1. taken \in Int /\ i \in Int /\ taken + i \in taken .. Len(stream) - 1
    BY <1>2, <1>3
  <2>2. Offset(p + i) = Offset(taken + i)
    BY <1>2, <1>4, <2>1, OffsetBehind, Zenon
  <2>3. rxMem[Offset(taken + i)] = stream[(taken + i) + 1]
    BY <1>2, <2>1, Zenon DEF InPlace
  <2> QED
    BY <2>2, <2>3, Zenon
<1> QED
  BY <1>3, <1>4, <1>5, <1>6, Zenon

LEMMA ReadKeeps ==
    ASSUME Memory, ReadMemory
    PROVE  Memory'
<1>1. /\ rxMem' = rxMem /\ RX_RD' = RX_RD /\ RX_WR' = RX_WR /\ stream' = stream
      /\ txMem' = txMem /\ TX_WR' = TX_WR /\ read_len' = read_len /\ taken' = taken
      /\ server' = server /\ recvPc = "read" /\ recvPc' = "pointer"
  BY DEF ReadMemory, vars, task, receive, transmit
<1>2. text' \in [0 .. 2 * RingSize - 1 -> Nat]
  BY Copy
<1>3. Bytes'
  BY <1>1, <1>2 DEF Memory, Bytes, Pointer, PointerLimit
<1>4. Counted'
  BY <1>1 DEF Memory, Counted, PointerLimit
<1>5. Held'
  BY <1>1 DEF Memory, Held, InPlace, Offset
<1> QED
  BY <1>3, <1>4, <1>5 DEF Memory

LEMMA MoveKeeps ==
    ASSUME Memory, MovePointer
    PROVE  Memory'
<1>1. /\ rxMem' = rxMem /\ RX_WR' = RX_WR /\ stream' = stream /\ text' = text
      /\ txMem' = txMem /\ TX_WR' = TX_WR /\ read_len' = read_len
      /\ taken' = taken + read_len /\ RX_RD' = Advanced(RX_RD, read_len)
      /\ recvPc # "done" /\ recvPc' = "done"
  BY DEF MovePointer, transmit
<1>2. PICK t \in Nat, b \in Nat, r \in Nat :
        t = taken /\ b = Len(stream) /\ r = read_len
  BY DEF Memory, Bytes
<1>3. t + r <= b /\ b <= t + RingSize /\ RX_RD = t % PointerLimit
  BY <1>1, <1>2 DEF Memory, Counted
<1>4. taken' = t + r /\ taken' \in Nat /\ taken' <= b /\ b <= taken' + RingSize
  BY <1>1, <1>2, <1>3, Limits
<1>5. RX_RD' = taken' % PointerLimit
  <2>1. t \in Int /\ r \in Int
    OBVIOUS
  <2>2. Advanced(t % PointerLimit, r) = (t + r) % PointerLimit
    BY <2>1, AdvancedIs, Zenon
  <2> QED
    BY <1>1, <1>2, <1>3, <1>4, <2>2, Zenon
<1>6. Bytes'
  BY <1>1, <1>4 DEF Memory, Bytes, Pointer, PointerLimit
<1>7. Counted'
  <2>1. RX_WR' = Len(stream') % PointerLimit
    BY <1>1 DEF Memory, Counted
  <2> QED
    BY <1>1, <1>2, <1>4, <1>5, <2>1 DEF Counted
<1>8. InPlace(rxMem', taken', Len(stream'), stream')
  <2> SUFFICES ASSUME NEW k \in t + r .. b - 1
               PROVE  rxMem[Offset(k)] = stream[k + 1]
    BY <1>1, <1>2, <1>4, Zenon DEF InPlace
  <2>1. k \in t .. b - 1
    OBVIOUS
  <2> QED
    BY <1>2, <2>1, Zenon DEF Memory, Held, InPlace
<1>9. Held'
  BY <1>8 DEF Held, InPlace, Offset
<1> QED
  BY <1>6, <1>7, <1>9 DEF Memory

-----------------------------------------------------------------------------
(* send. *)

(* A reply never reaches the test for the end of the ring. *)
LEMMA Written ==
    ASSUME NEW mem \in [0 .. 2 * RingSize - 1 -> Nat], NEW p \in Int, NEW line \in Nat,
           NEW reply, Same(reply, ReplyLength, line)
    PROVE  /\ write_memory(mem, p, reply, ReplyLength) \in [0 .. 2 * RingSize - 1 -> Nat]
           /\ \A i \in 0 .. ReplyLength - 1 :
                write_memory(mem, p, reply, ReplyLength)[Offset(p) + i] = line
<1>1. PICK o \in 0 .. RingSize - 1 : o = Offset(p)
  BY OffsetType
<1>2. PICK m : m = write_memory(mem, p, reply, ReplyLength)
  OBVIOUS
<1>3. /\ o \in Int /\ 0 <= o /\ o < RingSize /\ RingSize \in Int
      /\ ReplyLength \in Int /\ 1 <= ReplyLength /\ ReplyLength <= RingSize
      /\ W5200_Sn_TXMEM_SIZE \in Int /\ W5200_Sn_TXMEM_SIZE >= 2 * RingSize
  BY Limits, LengthsAssumption, RingAssumption
<1>4. ~(o + ReplyLength > W5200_Sn_TXMEM_SIZE + 1)
  BY <1>3
<1>5. DOMAIN mem = 0 .. 2 * RingSize - 1
  OBVIOUS
<1>6. m = Stored(mem, o, reply, 0, ReplyLength)
  BY <1>1, <1>2, <1>4, Zenon DEF write_memory
<1>7. m = [x \in 0 .. 2 * RingSize - 1 |->
             IF x \in o .. o + ReplyLength - 1 THEN reply[0 + x - o] ELSE mem[x]]
  BY <1>5, <1>6 DEF Stored
<1>8. ASSUME NEW x \in 0 .. 2 * RingSize - 1
      PROVE  m[x] = IF x \in o .. o + ReplyLength - 1 THEN line ELSE mem[x]
  <2>1. x \in o .. o + ReplyLength - 1 => 0 + x - o \in 0 .. ReplyLength - 1
    BY <1>3
  <2>2. x \in o .. o + ReplyLength - 1 => reply[0 + x - o] = line
    BY <2>1, Zenon DEF Same
  <2> QED
    BY <1>7, <2>2
<1>9. m \in [0 .. 2 * RingSize - 1 -> Nat]
  BY <1>7, <1>8
<1>10. ASSUME NEW i \in 0 .. ReplyLength - 1
       PROVE  m[o + i] = line
  <2>1. o + i \in 0 .. 2 * RingSize - 1 /\ o + i \in o .. o + ReplyLength - 1
    BY <1>3
  <2> QED
    BY <1>8, <2>1, Zenon
<1> QED
  BY <1>1, <1>2, <1>9, <1>10, Zenon

LEMMA ReplyIs ==
    ASSUME TypeOK, Memory, WriteReply, sr = "ESTABLISHED"
    PROVE  /\ txMem' \in [0 .. 2 * RingSize - 1 -> Nat]
           /\ \A i \in 0 .. ReplyLength - 1 : txMem'[Offset(TX_WR) + i] = answered'
           /\ TX_WR' = Advanced(TX_WR, ReplyLength)
           /\ wire' = InRing(txMem', TX_WR, Ahead(TX_WR, TX_WR'))
           /\ TX_WR \in Int
<1>1. PICK reply : /\ reply = [i \in 0 .. ReplyLength - 1 |-> oldbuf]
                   /\ txMem' = write_memory(txMem, TX_WR, reply, ReplyLength)
  BY DEF WriteReply
<1>2. /\ TX_WR' = Advanced(TX_WR, ReplyLength) /\ answered' = oldbuf
      /\ wire' = InRing(txMem', TX_WR, Ahead(TX_WR, TX_WR'))
  BY DEF WriteReply
<1>3. Same(reply, ReplyLength, oldbuf)
  BY <1>1 DEF Same
<1>4. txMem \in [0 .. 2 * RingSize - 1 -> Nat] /\ TX_WR \in Int /\ oldbuf \in Nat
  BY LinesAssumption, Limits DEF Memory, Bytes, Pointer, TypeOK
<1>5. /\ txMem' \in [0 .. 2 * RingSize - 1 -> Nat]
      /\ \A i \in 0 .. ReplyLength - 1 : txMem'[Offset(TX_WR) + i] = oldbuf
  <2>1. PICK m : m = write_memory(txMem, TX_WR, reply, ReplyLength)
    OBVIOUS
  <2>2. /\ m \in [0 .. 2 * RingSize - 1 -> Nat]
        /\ \A i \in 0 .. ReplyLength - 1 : m[Offset(TX_WR) + i] = oldbuf
    BY <1>3, <1>4, <2>1, Written
  <2> QED
    BY <1>1, <2>1, <2>2, Zenon
<1> QED
  BY <1>2, <1>4, <1>5, Zenon

LEMMA ReplyKeeps ==
    ASSUME TypeOK, Memory, WriteReply
    PROVE  Memory'
<1>1. /\ rxMem' = rxMem /\ RX_RD' = RX_RD /\ RX_WR' = RX_WR /\ stream' = stream
      /\ text' = text /\ read_len' = read_len /\ taken' = taken /\ recvPc' = recvPc
  BY DEF WriteReply, receive, reading
<1>2. recvPc = "done"
  BY DEF Memory, Counted, WriteReply, Send
<1>3. txMem' \in [0 .. 2 * RingSize - 1 -> Nat] /\ TX_WR' \in Pointer
  <2>1. CASE sr = "ESTABLISHED"
    <3>1. TX_WR' \in 0 .. PointerLimit - 1
      <4>1. TX_WR + ReplyLength \in Int
        BY <2>1, ReplyIs, LengthsAssumption
      <4>2. (TX_WR + ReplyLength) % PointerLimit \in 0 .. PointerLimit - 1
        BY <4>1, Limits, Divide
      <4> QED
        BY <2>1, <4>2, ReplyIs, Zenon DEF Advanced
    <3> QED
      BY <2>1, <3>1, ReplyIs, Zenon DEF Pointer
  <2>2. CASE sr # "ESTABLISHED"
    BY <2>2 DEF WriteReply, transmit, Memory, Bytes
  <2> QED
    BY <2>1, <2>2
<1>4. Bytes'
  BY <1>1, <1>3 DEF Memory, Bytes, Pointer, PointerLimit
<1>5. Counted'
  BY <1>1, <1>2 DEF Memory, Counted, PointerLimit
<1>6. Held'
  BY <1>1 DEF Memory, Held, InPlace, Offset
<1> QED
  BY <1>4, <1>5, <1>6 DEF Memory

LEMMA MemoryStep == TypeOK /\ Memory /\ [SocketNext]_all => Memory'
BY ArrivalKeeps, AskKeeps, ReadKeeps, MoveKeeps, ReplyKeeps, OthersKeep DEF SocketNext, TaskNext

-----------------------------------------------------------------------------
(* The reply on its way is the one that was written. *)

LEMMA WireStep == TypeOK /\ Memory /\ ReplyUpToEnd /\ [SocketNext]_all => ReplyUpToEnd'
<1> SUFFICES ASSUME TypeOK, Memory, ReplyUpToEnd, SocketNext \/ UNCHANGED all PROVE ReplyUpToEnd'
  OBVIOUS
<1>1. CASE WriteReply /\ sr = "ESTABLISHED"
  <2>1. PICK p \in Int : p = TX_WR /\ p % PointerLimit = p
    <3>1. TX_WR \in 0 .. PointerLimit - 1
      BY DEF Memory, Bytes, Pointer
    <3>2. TX_WR % PointerLimit = TX_WR
      BY <3>1, Limits, Small
    <3>3. TX_WR \in Int
      BY <3>1, Limits
    <3> QED
      BY <3>2, <3>3
  <2>2. /\ ReplyLength \in Int /\ ReplyLength \in 0 .. RingSize /\ p + ReplyLength \in Int
        /\ (p + ReplyLength) - p \in 0 .. RingSize /\ (p + ReplyLength) - p = ReplyLength
        /\ 0 - ReplyLength \in Int /\ (p + ReplyLength) + (0 - ReplyLength) = p
    BY LengthsAssumption, Limits
  <2>3. TX_WR' = (p + ReplyLength) % PointerLimit
    BY <1>1, <2>1, ReplyIs DEF Advanced
  <2>4. Ahead(TX_WR, TX_WR') = ReplyLength
    <3>1. Ahead(p % PointerLimit, (p + ReplyLength) % PointerLimit) = (p + ReplyLength) - p
      BY <2>2, AheadIs, Zenon
    <3> QED
      BY <2>1, <2>2, <2>3, <3>1, Zenon
  <2>5. Room(TX_WR' - ReplyLength) = Room(p)
    <3>1. Offset((((p + ReplyLength) % PointerLimit)) + (0 - ReplyLength))
            = Offset((p + ReplyLength) + (0 - ReplyLength))
      BY <2>2, OffsetBehind, Zenon
    <3>2. PICK q \in Int : q = (p + ReplyLength) % PointerLimit
      <4>1. (p + ReplyLength) % PointerLimit \in Int
        BY <2>2, Limits, Divide
      <4> QED
        BY <4>1, Zenon
    <3>3. q + (0 - ReplyLength) = q - ReplyLength
      BY <2>2
    <3>4. Offset(TX_WR' - ReplyLength) = Offset(p)
      BY <2>2, <2>3, <3>1, <3>2, <3>3, Zenon
    <3> QED
      BY <3>4, Zenon DEF Room
  <2>6. PICK mem, w : mem = txMem' /\ w = wire'
    OBVIOUS
  <2>7. w = [i \in 0 .. ReplyLength - 1 |-> mem[Offset(p + i)]]
    BY <1>1, <2>1, <2>4, <2>6, ReplyIs DEF InRing
  <2>8. ASSUME NEW i \in 0 .. ReplyLength - 1, i < Room(p)
        PROVE  w[i] = answered'
    <3>1. i \in 0 .. RingSize
      BY <2>2, Limits
    <3>2. Offset(p + i) = Offset(p) + i
      BY <2>8, <3>1, OffsetWithin, Zenon
    <3>3. mem[Offset(p) + i] = answered'
      BY <1>1, <2>1, <2>6, ReplyIs, Zenon
    <3> QED
      BY <2>7, <3>2, <3>3
  <2>9. DOMAIN w = 0 .. ReplyLength - 1
    BY <2>7
  <2>10. /\ DOMAIN wire' = 0 .. ReplyLength - 1
         /\ \A i \in 0 .. ReplyLength - 1 : i < Room(TX_WR' - ReplyLength) => wire'[i] = answered'
    BY <2>5, <2>6, <2>8, <2>9, Zenon
  <2> QED
    BY <2>10 DEF ReplyUpToEnd, Room, Offset
<1>2. CASE \/ WriteReply /\ sr # "ESTABLISHED"
           \/ LineArrives \/ AskSize \/ ReadMemory \/ MovePointer
           \/ Interpret \/ Elsewhere \/ WaitAgain \/ UNCHANGED all
  <2>1. wire' = wire /\ TX_WR' = TX_WR /\ answered' = answered /\ (sending' => sending)
    BY <1>2 DEF WriteReply, Send, LineArrives, TypeLine, AskSize, Recv, ReadMemory, MovePointer,
                Interpret, Process, Elsewhere, Connect, Disconnect, Transmitted, Delivered, IsrNext,
                ReadCode, ClearCode, Switch, Acknowledge, HandlerHangs, CommandHangs, WaitAgain,
                Poll, Suspend, SwitchOut, all, vars, chip, transmit
  <2> QED
    BY <2>1 DEF ReplyUpToEnd, Room, Offset
<1> QED
  BY <1>1, <1>2 DEF SocketNext, TaskNext

-----------------------------------------------------------------------------
(* The lines of W5200Server and the bytes. *)

LEMMA UntoldType == Memory => Untold \in Nat /\ Len(stream) \in Nat /\ Untold <= Len(stream)
BY DEF Memory, Bytes, Counted, Untold

(* The steps that touch neither the memory nor the text. *)
LEMMA ElsewhereIs ==
    ASSUME Elsewhere \/ UNCHANGED all
    PROVE  /\ server' = "process" => server = "process"
           /\ buf' = buf /\ recvPc' = recvPc /\ read_len' = read_len /\ blanks' = blanks
           /\ taken' = taken /\ text' = text /\ stream' = stream
<1>1. CASE ReadCode /\ Elsewhere
  BY <1>1, MetIs DEF ReadCode, Elsewhere, client, receive, reading
<1>2. CASE ~ReadCode
  BY <1>2 DEF Elsewhere, Connect, Disconnect, Transmitted, Delivered, IsrNext, ClearCode, Switch,
              Acknowledge, Resumed, HandlerHangs, CommandHangs, all, vars, client, task, receive,
              reading
<1>3. CASE UNCHANGED all
  BY <1>3 DEF all, vars, client, task, receive, reading
<1> QED
  BY <1>1, <1>2, <1>3

(* A line that is there keeps its length when another is typed. *)
LEMMA LengthKept ==
    ASSUME TypeOK, Ordered, [SocketNext]_all
    PROVE  /\ \A line \in 1 .. typed : LineLength(line)' = LineLength(line)
           /\ rx # <<>> => Head(rx) \in 1 .. typed
<1>1. typed \in Nat /\ rx \in Seq(0 .. MaxLines)
  BY LinesAssumption DEF TypeOK
<1>2. blanks' = blanks \/ blanks' = blanks \cup {typed + 1}
  <2>1. [Next]_vars
    BY StepOfServer
  <2> QED
    BY <2>1, Zenon DEF Next, ClientNext, Connect, TypeLine, Disconnect, Transmitted, Delivered,
       IsrNext, ReadCode, ClearCode, Switch, Acknowledge, ServerNext, Recv, Process, Send, Poll,
       Suspend, SwitchOut, Hang, HandlerHangs, CommandHangs, vars, client
<1>3. \A line \in 1 .. typed : line \in blanks' <=> line \in blanks
  BY <1>1, <1>2
<1>4. rx # <<>> => 1 \in DOMAIN rx /\ Head(rx) = rx[1]
  BY <1>1, HeadIsFirst
<1> QED
  BY <1>3, <1>4 DEF LineLength, Ordered

LEMMA LinesStep == TypeOK /\ Ordered /\ Memory /\ Lines /\ [SocketNext]_all => Lines'
<1> SUFFICES ASSUME TypeOK, Ordered, Memory, Lines, SocketNext \/ UNCHANGED all PROVE Lines'
  OBVIOUS
<1>1. CASE LineArrives
  <2>1. PICK n \in {2, 3}, line \in 1 .. MaxLines :
             /\ line = typed + 1 /\ rx' = Append(rx, line)
             /\ n = IF line \in blanks' THEN 2 ELSE 3
             /\ Len(stream) + n <= taken + RingSize
             /\ rxMem' = Received(rxMem, RX_WR, [i \in 0 .. n - 1 |-> line], n)
             /\ RX_WR' = (Len(stream) + n) % PointerLimit
             /\ stream' \in Seq(Nat) /\ Len(stream') = Len(stream) + n
             /\ \A k \in 1 .. Len(stream) : stream'[k] = stream[k]
             /\ \A k \in Len(stream) + 1 .. Len(stream) + n : stream'[k] = line
    BY <1>1, Arrival
  <2>2. Untold' = Untold
    BY <1>1 DEF LineArrives, reading, Untold
  <2>3. PICK b \in Nat, u \in Nat : b = Len(stream) /\ u = Untold /\ u <= b
    BY UntoldType
  <2>4. PICK c \in Nat : c = Len(stream') /\ c = b + n /\ n \in Nat /\ n >= 2
    <3>1. b + n \in Nat /\ n \in Nat /\ n >= 2 /\ Len(stream') = b + n
      BY <2>1, <2>3
    <3> QED
      BY <3>1, Zenon
  <2>5. PICK old \in Seq(0 .. MaxLines) : old = rx
    BY DEF TypeOK
  <2>6. PICK new : new = Append(old, line)
    OBVIOUS
  <2>7. line \in 0 .. MaxLines
    BY LinesAssumption
  <2>8. /\ new # <<>> /\ Len(new) = Len(old) + 1 /\ Len(old) \in Nat
        /\ old = <<>> => Head(new) = line /\ Len(new) = 1
        /\ old # <<>> => Head(new) = Head(old) /\ Len(old) >= 1
    BY <2>6, <2>7
  <2> SUFFICES \E L \in {2, 3} :
                 /\ L = LineLength(Head(new))'
                 /\ u + L <= c
                 /\ \A i \in 0 .. L - 1 : stream'[u + i + 1] = Head(new)
                 /\ Len(new) = 1 => c - u = L
                 /\ Len(new) > 1 => c - u >= 3
    <3>1. /\ rx' = new /\ Untold' = u /\ Len(stream') = c /\ Head(rx') = Head(new)
      BY <2>1, <2>2, <2>3, <2>4, <2>5, <2>6
    <3>2. LineLength(Head(rx))' = LineLength(Head(new))'
      BY <3>1 DEF LineLength
    <3> QED
      BY <2>8, <3>1, <3>2, Zenon DEF Lines
  <2>9. CASE old = <<>>
    <3>1. u = b /\ Len(new) = 1 /\ Head(new) = line
      BY <2>3, <2>5, <2>8, <2>9 DEF Lines
    <3>2. LineLength(Head(new))' = n
      BY <2>1, <3>1 DEF LineLength
    <3>3. u + n <= c /\ c - u = n /\ ~(Len(new) > 1)
      BY <2>3, <2>4, <3>1
    <3>4. ASSUME NEW i \in 0 .. n - 1 PROVE stream'[u + i + 1] = Head(new)
      <4>1. u + i + 1 \in b + 1 .. b + n
        BY <2>3, <2>4, <3>1
      <4> QED
        BY <2>1, <2>3, <3>1, <4>1, Zenon
    <3> QED
      BY <3>1, <3>2, <3>3, <3>4, Zenon
  <2>10. CASE old # <<>>
    <3>1. LineLength(Head(old))' = LineLength(Head(old)) /\ LineLength(Head(old)) \in {2, 3}
      <4>1. Head(old) \in 1 .. typed
        BY <2>5, <2>10, LengthKept
      <4> QED
        BY <4>1, LengthKept DEF LineLength
    <3>2. PICK L \in {2, 3} : L = LineLength(Head(old))
      BY <3>1, Zenon
    <3>3. /\ u + L <= b /\ \A i \in 0 .. L - 1 : stream[u + i + 1] = Head(old)
      BY <2>3, <2>5, <2>10, <3>2, Zenon DEF Lines
    <3>4. LineLength(Head(new))' = L
      BY <2>8, <2>10, <3>1, <3>2 DEF LineLength
    <3>5. c - u >= 3 /\ u + L <= c /\ Len(new) # 1
      BY <2>3, <2>4, <2>8, <2>10, <3>2, <3>3
    <3>6. ASSUME NEW i \in 0 .. L - 1 PROVE stream'[u + i + 1] = Head(new)
      <4>1. u + i + 1 \in 1 .. b
        BY <2>3, <3>2, <3>3
      <4> QED
        BY <2>1, <2>3, <2>8, <2>10, <3>3, <4>1, Zenon
    <3> QED
      BY <3>4, <3>5, <3>6, Zenon
  <2> QED
    BY <2>9, <2>10
<1>2. CASE AskSize
  <2>1. recvPc = "done" /\ taken' = taken /\ stream' = stream /\ blanks' = blanks
    BY <1>2 DEF AskSize, Recv, client, receive, Memory, Counted
  <2>2. CASE sr = "ESTABLISHED"
    <3>1. rx' = <<>> /\ recvPc' = "read" /\ read_len' = Len(stream) - taken
      BY <1>2, <2>2, SizeIs DEF AskSize, Recv
    <3>2. Untold' = taken + (Len(stream) - taken)
      BY <2>1, <3>1 DEF Untold
    <3>3. taken + (Len(stream) - taken) = Len(stream)
      BY DEF Memory, Bytes
    <3>4. Len(rx') = 0
      BY <3>1
    <3> QED
      BY <2>1, <3>1, <3>2, <3>3, <3>4 DEF Lines
  <2>3. CASE sr # "ESTABLISHED"
    <3>1. rx' = rx /\ recvPc' = "done"
      BY <1>2, <2>3 DEF AskSize, Recv
    <3>2. Untold' = Untold
      BY <2>1, <3>1 DEF Untold
    <3> QED
      BY <2>1, <3>1, <3>2 DEF Lines, LineLength
  <2> QED
    BY <2>2, <2>3
<1>3. CASE ReadMemory \/ MovePointer
  <2>1. rx' = rx /\ blanks' = blanks /\ stream' = stream /\ Untold' = Untold
    BY <1>3 DEF ReadMemory, MovePointer, vars, chip, client, receive, Untold
  <2> QED
    BY <2>1 DEF Lines, LineLength
<1>4. CASE Interpret \/ WriteReply \/ Elsewhere \/ WaitAgain \/ UNCHANGED all
  <2>1. rx' = rx /\ blanks' = blanks /\ stream' = stream /\ Untold' = Untold
    BY <1>4 DEF Interpret, Process, WriteReply, Send, Elsewhere, Connect, Disconnect, Transmitted,
                Delivered, IsrNext, ReadCode, ClearCode, Switch, Acknowledge, HandlerHangs,
                CommandHangs, WaitAgain, Poll, Suspend, SwitchOut, all, vars, chip, client, receive,
                reading, Untold
  <2> QED
    BY <2>1 DEF Lines, LineLength
<1> QED
  BY <1>1, <1>2, <1>3, <1>4 DEF SocketNext, TaskNext

LEMMA BeginsStep ==
    TypeOK /\ Ordered /\ Memory /\ DataBehindBit /\ Lines /\ Begins /\ [SocketNext]_all => Begins'
<1> SUFFICES ASSUME TypeOK, Ordered, Memory, DataBehindBit, Lines, Begins,
                    SocketNext \/ UNCHANGED all
             PROVE  Begins'
  OBVIOUS
<1>1. CASE AskSize /\ sr = "ESTABLISHED"
  <2>1. /\ rx # <<>> /\ buf' = Text /\ recvPc = "done" /\ recvPc' = "read" /\ taken' = taken
        /\ read_len' = Len(stream) - taken /\ stream' = stream /\ blanks' = blanks
    BY <1>1, SizeIs DEF AskSize, Recv, receive, client, Memory, Counted
  <2>2. PICK l \in Nat : l = Len(rx) /\ l >= 1 /\ Head(rx) = rx[1] /\ 1 \in DOMAIN rx
    <3>1. Len(rx) \in Nat /\ Len(rx) >= 1 /\ Head(rx) = rx[1] /\ 1 \in DOMAIN rx
      BY <2>1 DEF TypeOK
    <3> QED
      BY <3>1
  <2>3. Head(rx) # 0
    <3>1. rx[1] \in 1 .. typed
      BY <2>2, Zenon DEF Ordered
    <3>2. rx[1] # 0
      BY <3>1
    <3> QED
      BY <2>2, <3>2
  <2>4. PICK t \in Nat, d \in Int : t = taken /\ d = Len(stream) - t /\ t + d = Len(stream)
    <3>1. PICK t \in Nat, b \in Nat : t = taken /\ b = Len(stream)
      BY DEF Memory, Bytes
    <3>2. b - t \in Int /\ t + (b - t) = b
      OBVIOUS
    <3> QED
      BY <3>1, <3>2
  <2>5. /\ Len(rx) = 1 => d = IF Head(rx) \in blanks THEN 2 ELSE 3
        /\ Len(rx) > 1 => d >= 3
    BY <2>1, <2>4 DEF Lines, Untold, LineLength
  <2>6. buf' = 0 <=> Len(rx) = 1 /\ Head(rx) \in blanks
    BY <2>1, <2>3 DEF Text
  <2>7. l = 1 \/ l > 1
    BY <2>2
  <2>8. buf' = 0 <=> d < 3
    <3>1. CASE Len(rx) = 1 /\ Head(rx) \in blanks
      BY <3>1, <2>5, <2>6
    <3>2. CASE Len(rx) = 1 /\ Head(rx) \notin blanks
      BY <3>2, <2>5, <2>6
    <3>3. CASE l > 1
      <4>1. l # 1 /\ d >= 3
        BY <2>2, <2>5, <3>3
      <4>2. ~(d < 3)
        BY <4>1
      <4> QED
        BY <2>2, <2>6, <4>1, <4>2
    <3> QED
      BY <2>2, <2>7, <3>1, <3>2, <3>3
  <2>9. buf' # 0 => \A i \in 0 .. LineLength(buf)' - 1 : stream'[Start' + i + 1] = buf'
    <3> SUFFICES ASSUME buf' # 0
                 PROVE  \A i \in 0 .. LineLength(buf)' - 1 : stream'[Start' + i + 1] = buf'
      OBVIOUS
    <3>1. buf' = Head(rx) /\ Start' = Untold
      BY <2>1, <2>6 DEF Text, Start, Untold
    <3>2. LineLength(buf)' = LineLength(Head(rx))
      BY <2>1, <3>1 DEF LineLength
    <3>3. \A i \in 0 .. LineLength(Head(rx)) - 1 : stream[Untold + i + 1] = Head(rx)
      BY <2>1, Zenon DEF Lines
    <3> QED
      BY <2>1, <3>1, <3>2, <3>3, Zenon
  <2>10. Start' = t /\ t \in Nat /\ read_len' = d /\ Start' + read_len' <= Len(stream')
    BY <2>1, <2>4 DEF Start
  <2> QED
    BY <2>8, <2>9, <2>10, Zenon DEF Begins
<1>2. CASE AskSize /\ sr # "ESTABLISHED"
  <2>1. buf' = 0 /\ read_len' = 0 /\ recvPc' = "done" /\ taken' = taken /\ stream' = stream
    BY <1>2 DEF AskSize, Recv, receive
  <2>2. Start' = taken /\ taken \in Nat /\ taken + 0 <= Len(stream)
    BY <2>1 DEF Start, Memory, Bytes, Counted
  <2> QED
    BY <2>1, <2>2 DEF Begins
<1>3. CASE ReadMemory
  <2>1. /\ recvPc = "read" /\ recvPc' = "pointer" /\ server' = server /\ buf' = buf
        /\ read_len' = read_len /\ taken' = taken /\ stream' = stream /\ blanks' = blanks
    BY <1>3 DEF ReadMemory, vars, task, client, receive
  <2>2. Start' = Start
    BY <2>1 DEF Start
  <2> QED
    BY <2>1, <2>2 DEF Begins, LineLength
<1>4. CASE MovePointer
  <2>1. /\ recvPc = "pointer" /\ recvPc' = "done" /\ server' = server /\ buf' = buf
        /\ read_len' = read_len /\ stream' = stream /\ blanks' = blanks
        /\ taken' = taken + read_len
    BY <1>4 DEF MovePointer, vars, task, client
  <2>2. Start' = Start
    BY <2>1 DEF Start, Memory, Bytes
  <2> QED
    BY <2>1, <2>2 DEF Begins, LineLength
<1>5. CASE LineArrives
  <2>1. /\ server' = server /\ buf' = buf /\ recvPc' = recvPc /\ read_len' = read_len
        /\ taken' = taken
    BY <1>5 DEF LineArrives, TypeLine, task, reading
  <2>2. Start' = Start
    BY <2>1 DEF Start
  <2> SUFFICES ASSUME server = "process"
               PROVE  /\ Start + read_len <= Len(stream')
                      /\ buf # 0 => \A i \in 0 .. LineLength(buf)' - 1 :
                                      stream'[Start + i + 1] = buf
    <3>1. LineLength(buf)' = IF buf \in blanks' THEN 2 ELSE 3
      BY <2>1 DEF LineLength
    <3> QED
      BY <2>1, <2>2, <3>1 DEF Begins, LineLength
  <2>3. /\ Len(stream) \in Nat /\ Len(stream') \in Nat /\ Len(stream) <= Len(stream')
        /\ \A k \in 1 .. Len(stream) : stream'[k] = stream[k]
    <3>1. PICK n \in {2, 3} : /\ Len(stream') = Len(stream) + n
                              /\ \A k \in 1 .. Len(stream) : stream'[k] = stream[k]
      BY <1>5, Arrival
    <3>2. Len(stream) \in Nat
      BY DEF Memory, Bytes
    <3> QED
      BY <3>1, <3>2
  <2>4. PICK s \in Nat, r \in Nat : s = Start /\ r = read_len /\ s + r <= Len(stream)
    BY DEF Begins, Memory, Bytes
  <2>5. ASSUME buf # 0, NEW i \in 0 .. LineLength(buf)' - 1
        PROVE  stream'[Start + i + 1] = buf
    <3>1. LineLength(buf)' = LineLength(buf) /\ LineLength(buf) \in {2, 3}
      <4>1. buf \in 1 .. typed
        BY <2>5, LinesAssumption DEF Ordered, TypeOK
      <4> QED
        BY <2>1, <4>1, LengthKept DEF LineLength
    <3>2. r >= 3 /\ stream[s + i + 1] = buf
      BY <2>4, <2>5, <3>1 DEF Begins
    <3>3. s + i + 1 \in 1 .. Len(stream)
      BY <2>3, <2>4, <3>1, <3>2
    <3> QED
      BY <2>3, <2>4, <3>2, <3>3, Zenon
  <2> QED
    BY <2>3, <2>4, <2>5
<1>6. CASE Interpret \/ WriteReply \/ WaitAgain
  <2>1. server' # "process"
    BY <1>6 DEF Interpret, Process, WriteReply, Send, WaitAgain, Poll, Suspend, SwitchOut
  <2> QED
    BY <2>1 DEF Begins
<1>7. CASE Elsewhere \/ UNCHANGED all
  <2>1. /\ server' = "process" => server = "process"
        /\ buf' = buf /\ recvPc' = recvPc /\ read_len' = read_len /\ blanks' = blanks
        /\ taken' = taken /\ text' = text /\ stream' = stream
    BY <1>7, ElsewhereIs
  <2>2. Start' = Start
    BY <2>1 DEF Start
  <2> QED
    BY <2>1, <2>2 DEF Begins, LineLength
<1> QED
  BY <1>1, <1>2, <1>3, <1>4, <1>5, <1>6, <1>7 DEF SocketNext, TaskNext

(* What recv has copied stays as it was until it is done. *)
LEMMA InBufferStep == TypeOK /\ Memory /\ Begins /\ InBuffer /\ [SocketNext]_all => InBuffer'
<1> SUFFICES ASSUME TypeOK, Memory, Begins, InBuffer, SocketNext \/ UNCHANGED all PROVE InBuffer'
  OBVIOUS
<1>1. CASE ReadMemory
  <2>1. /\ taken' = taken /\ read_len' = read_len /\ stream' = stream /\ recvPc = "read"
        /\ recvPc' = "pointer"
    BY <1>1 DEF ReadMemory, receive
  <2>2. \A i \in 0 .. Copied - 1 :
          text'[IF i < Room(RX_RD) THEN i ELSE i + Room(RX_RD)] = stream[taken + i + 1]
    BY <1>1, Copy
  <2>3. Start' = taken /\ Copied' = Copied /\ Room(RX_RD) = Room(taken) /\ Room(taken) \in Int
    <3>1. taken \in Int
      BY DEF Memory, Bytes
    <3>2. Offset((taken % PointerLimit) + 0) = Offset(taken + 0)
      BY <3>1, OffsetBehind
    <3>3. (taken % PointerLimit) \in Int
      BY <3>1, Limits, Divide
    <3>4. (taken % PointerLimit) + 0 = taken % PointerLimit /\ taken + 0 = taken
      BY <3>1, <3>3
    <3>5. Offset(RX_RD) = Offset(taken)
      BY <3>2, <3>4, Zenon DEF Memory, Counted
    <3>6. Room(taken) \in Int
      BY <3>1, OffsetType, Limits
    <3> QED
      BY <2>1, <3>5, <3>6 DEF Start, Copied, Room
  <2>4. Room(Start)' = Room(taken)
    BY <2>3 DEF Room, Offset
  <2>5. Copied \in Int
    BY <2>1, CopiedIs
  <2>6. ASSUME Copied <= Room(taken), NEW i \in 0 .. Copied - 1
        PROVE  text'[i] = stream[taken + i + 1]
    <3>1. i < Room(RX_RD)
      BY <2>3, <2>5, <2>6
    <3> QED
      BY <2>2, <3>1
  <2> QED
    BY <2>1, <2>3, <2>4, <2>6, Zenon DEF InBuffer
<1>2. CASE MovePointer
  <2>1. /\ server' = server /\ recvPc = "pointer" /\ recvPc' = "done" /\ text' = text
        /\ taken' = taken + read_len /\ read_len' = read_len /\ stream' = stream
    BY <1>2 DEF MovePointer, vars, task
  <2>2. Start' = Start /\ Copied' = Copied
    BY <2>1 DEF Start, Copied, Memory, Bytes
  <2>3. Room(Start)' = Room(Start)
    BY <2>2 DEF Room, Offset
  <2> QED
    BY <2>1, <2>2, <2>3 DEF InBuffer
<1>3. CASE LineArrives
  <2>1. /\ server' = server /\ recvPc' = recvPc /\ text' = text /\ taken' = taken
        /\ read_len' = read_len
    BY <1>3 DEF LineArrives, TypeLine, task, reading
  <2>2. Start' = Start /\ Copied' = Copied /\ Room(Start)' = Room(Start)
    BY <2>1 DEF Start, Copied, Room, Offset
  <2> SUFFICES ASSUME server = "process", recvPc # "read", Copied <= Room(Start),
                      NEW i \in 0 .. Copied - 1
               PROVE  text[i] = stream'[Start + i + 1]
    BY <2>1, <2>2, Zenon DEF InBuffer
  <2>3. text[i] = stream[Start + i + 1]
    BY DEF InBuffer
  <2>4. PICK s \in Nat, r \in Nat : s = Start /\ r = read_len /\ s + r <= Len(stream)
    BY DEF Begins, Memory, Bytes
  <2>5. Copied \in Int /\ Copied <= r
    BY <2>4, LengthsAssumption DEF Copied
  <2>6. s + i + 1 \in 1 .. Len(stream)
    <3>1. Len(stream) \in Nat
      BY DEF Memory, Bytes
    <3> QED
      BY <2>4, <2>5, <3>1
  <2>7. \A k \in 1 .. Len(stream) : stream'[k] = stream[k]
    BY <1>3, Arrival
  <2> QED
    BY <2>3, <2>4, <2>6, <2>7, Zenon
<1>4. CASE AskSize
  <2>1. recvPc' = "read" \/ read_len' = 0
    BY <1>4 DEF AskSize
  <2>2. read_len' = 0 => Copied' = 0
    BY LengthsAssumption DEF Copied
  <2> QED
    BY <2>1, <2>2 DEF InBuffer
<1>5. CASE Interpret \/ WriteReply \/ WaitAgain
  <2>1. server' # "process"
    BY <1>5 DEF Interpret, Process, WriteReply, Send, WaitAgain, Poll, Suspend, SwitchOut
  <2> QED
    BY <2>1 DEF InBuffer
<1>6. CASE Elsewhere \/ UNCHANGED all
  <2>1. /\ server' = "process" => server = "process"
        /\ buf' = buf /\ recvPc' = recvPc /\ read_len' = read_len /\ blanks' = blanks
        /\ taken' = taken /\ text' = text /\ stream' = stream
    BY <1>6, ElsewhereIs
  <2>2. Start' = Start /\ Copied' = Copied /\ Room(Start)' = Room(Start)
    BY <2>1 DEF Start, Copied, Room, Offset
  <2> QED
    BY <2>1, <2>2 DEF InBuffer
<1> QED
  BY <1>1, <1>2, <1>3, <1>4, <1>5, <1>6 DEF SocketNext, TaskNext

-----------------------------------------------------------------------------
(* The theorems. *)

(* However lines arrive between the steps of recv, the chip holds exactly  *)
(* the bytes received since the last recv was told their number: none is   *)
(* taken with the others unread, and none is read twice.                   *)
THEOREM NoByteIsSkipped == SocketSpec => []NothingSkipped
<1>1. Memory => NothingSkipped
  <2> SUFFICES ASSUME Memory PROVE NothingSkipped
    OBVIOUS
  <2>1. PICK t \in Nat, b \in Nat : t = taken /\ b = Len(stream) /\ t <= b
    <3>1. taken \in Nat /\ Len(stream) \in Nat /\ taken <= Len(stream)
      BY DEF Memory, Bytes, Counted
    <3> QED
      BY <3>1
  <2>2. get_RXRSR = b - t /\ RX_RD = t % PointerLimit /\ InPlace(rxMem, t, b, stream)
    BY <2>1, SizeIs DEF Memory, Counted, Held
  <2>3. ASSUME NEW i \in 0 .. b - t - 1
        PROVE  rxMem[Offset(RX_RD + i)] = stream[t + i + 1]
    <3>1. t \in Int /\ i \in Int /\ t + i \in t .. b - 1
      OBVIOUS
    <3>2. Offset(RX_RD + i) = Offset(t + i)
      BY <2>2, <3>1, OffsetBehind, Zenon
    <3>3. rxMem[Offset(t + i)] = stream[(t + i) + 1]
      BY <2>2, <3>1, Zenon DEF InPlace
    <3> QED
      BY <3>2, <3>3, Zenon
  <2>4. [i \in 0 .. b - t - 1 |-> rxMem[Offset(RX_RD + i)]]
          = [i \in 0 .. b - t - 1 |-> stream[t + i + 1]]
    BY <2>3
  <2> QED
    BY <2>1, <2>2, <2>4 DEF NothingSkipped, InRing
<1>2. SocketInit => Init
  BY DEF SocketInit
<1>3. Inductive => TypeOK
  BY DEF Inductive
<1> QED
  BY <1>1, <1>2, <1>3, InductiveInit, InductiveStep, StepOfServer, MemoryInit, MemoryStep,
     PTL DEF SocketSpec

(* The bytes of a reply up to the end of the transmit memory are sent as   *)
(* they were written, wherever the pointer stands.                         *)
THEOREM ReplyIsWhole == SocketSpec => []ReplyUpToEnd
<1>1. SocketInit => Init /\ ReplyUpToEnd
  BY DEF SocketInit, Init, ReplyUpToEnd
<1>2. Inductive => TypeOK
  BY DEF Inductive
<1> QED
  BY <1>1, <1>2, InductiveInit, InductiveStep, StepOfServer, MemoryInit, MemoryStep, WireStep,
     PTL DEF SocketSpec

(* The text that is handed to the interpreter is what was typed: it begins *)
(* with the whole line W5200Server takes it for, or as much of it as the   *)
(* buffer holds, and the old text is taken again just when fewer than three*)
(* bytes were there.  Of a read over the end of the ring this says nothing.*)
THEOREM TextIsAsTyped == SocketSpec => []TextAsTyped
<1>1. SocketInit => Init /\ Lines /\ Begins /\ InBuffer
  <2>1. ASSUME SocketInit PROVE Lines
    <3>1. stream = <<>> /\ rx = <<>> /\ recvPc = "done" /\ taken = 0 /\ Len(stream) = 0 /\ Len(rx) = 0
      BY <2>1 DEF SocketInit, Init
    <3> QED
      BY <3>1 DEF Lines, Untold
  <2>2. SocketInit => Init /\ Begins /\ InBuffer
    BY DEF SocketInit, Init, Begins, InBuffer
  <2> QED
    BY <2>1, <2>2
<1>2. Inductive => TypeOK /\ DataBehindBit
  BY DEF Inductive
<1>3. Memory /\ Begins /\ InBuffer => TextAsTyped
  <2> SUFFICES ASSUME Memory, Begins, InBuffer, server = "process", recvPc = "done"
               PROVE  /\ buf = 0 <=> read_len < 3
                      /\ Copied <= Room(RX_RD - read_len) =>
                           \A i \in 0 .. Copied - 1 :
                               /\ text[i] = stream[taken - read_len + i + 1]
                               /\ buf # 0 /\ i < LineLength(buf) => text[i] = buf
    BY Zenon DEF TextAsTyped
  <2>1. buf = 0 <=> read_len < 3
    BY DEF Begins
  <2>2. taken \in Int /\ read_len \in Int /\ RX_RD = taken % PointerLimit
    BY DEF Memory, Bytes, Counted
  <2>3. Start = taken - read_len /\ Room(RX_RD - read_len) = Room(Start)
    <3>1. PICK z \in Int : z = 0 - read_len
      BY <2>2
    <3>2. Offset((taken % PointerLimit) + z) = Offset(taken + z)
      BY <2>2, OffsetBehind
    <3>3. taken % PointerLimit \in Int
      BY <2>2, Limits, Divide
    <3>4. (taken % PointerLimit) + z = (taken % PointerLimit) - read_len /\ taken + z = taken - read_len
      BY <2>2, <3>1, <3>3
    <3>5. Offset(RX_RD - read_len) = Offset(taken - read_len)
      BY <2>2, <3>2, <3>4, Zenon
    <3> QED
      BY <3>5 DEF Start, Room
  <2> SUFFICES ASSUME Copied <= Room(Start), NEW i \in 0 .. Copied - 1
               PROVE  /\ text[i] = stream[taken - read_len + i + 1]
                      /\ buf # 0 /\ i < LineLength(buf) => text[i] = buf
    BY <2>1, <2>3, Zenon
  <2>4. text[i] = stream[Start + i + 1]
    BY DEF InBuffer
  <2>5. ASSUME buf # 0, i < LineLength(buf) PROVE stream[Start + i + 1] = buf
    <3>1. LineLength(buf) \in {2, 3} /\ Copied \in Int
      BY <2>2, LengthsAssumption DEF LineLength, Copied
    <3>2. i \in 0 .. LineLength(buf) - 1
      BY <2>5, <3>1
    <3> QED
      BY <2>5, <3>2, Zenon DEF Begins
  <2> QED
    BY <2>3, <2>4, <2>5
<1> QED
  BY <1>1, <1>2, <1>3, InductiveInit, InductiveStep, OrderedInit, OrderedStep, StepOfServer,
     MemoryInit, MemoryStep, LinesStep, BeginsStep, InBufferStep, PTL DEF SocketSpec

-----------------------------------------------------------------------------
(* A client that waits for quiet gets its answer, as long as nothing hangs. *)

(* The stages of the one line that is served, from INT to the reply.  The  *)
(* server may be in recv before the line is there (stray).                 *)
Served == ~hasty /\ sr = "ESTABLISHED" /\ replies + 1 = typed

Under(i, v, p) == Served /\ ~sending /\ isr = i /\ server \in v /\ recvPc = p

Waiting == {"suspended", "stray"}
Reading == {"recv", "stray"}

Announced == Under("idle", Waiting, "done") /\ rx # <<>> /\ ir = {"RECV"} /\ exti
ByHandler == Under("clear", Waiting, "done") /\ rx # <<>> /\ code = {"RECV"} /\ exti
Cleared   == Under("switch", Waiting, "done") /\ rx # <<>> /\ code = {"RECV"} /\ ir = {} /\ exti
Woken     == Under("ack", Reading, "done") /\ rx # <<>> /\ ir = {} /\ exti
ToRead    == Under("idle", Reading, "done") /\ rx # <<>> /\ ir = {} /\ ~exti
Busy(v, p) == Under("idle", {v}, p) /\ rx = <<>> /\ ir = {} /\ ~exti
Sent      == Served /\ sending /\ isr = "idle" /\ ~exti /\ recvPc = "done" /\ rx = <<>>
                    /\ server \in {"poll", "suspend", "leaving", "suspended"}

Working == ToRead \/ Busy("process", "read") \/ Busy("process", "pointer")
             \/ Busy("process", "done") \/ Busy("send", "done")

InExchange == Announced \/ ByHandler \/ Cleared \/ Woken \/ Working \/ Sent

(* Between two lines no bit is left that would wake the server. *)
Rested ==
    /\ replies = typed /\ ~sending /\ recvPc = "done" /\ rx = <<>>
    /\ server \in {"poll", "suspend", "leaving", "suspended", "stray"}
    /\ "RECV" \notin ir
    /\ isr \in {"clear", "switch"} => "RECV" \notin code

(* Such a client has one line under way, or none. *)
Exchange == ~hasty /\ sr # "CLOSE_WAIT" /\ ~Hung => Rested \/ InExchange

Settled == replies = typed \/ hasty \/ sr # "ESTABLISHED" \/ Hung

(* While a line is under way the chip is not quiet: whatever else the      *)
(* client does is hasty.                                                   *)
LEMMA NotQuiet == InExchange => ~Quiet
BY DEF InExchange, Announced, ByHandler, Cleared, Woken, Working, ToRead, Busy, Under, Waiting, Reading,
       Sent, Quiet

LEMMA HangIsHung == Hang => Hung'
BY DEF Hang, HandlerHangs, CommandHangs, Hung

LEMMA HungForGood == Hung /\ [SocketNext]_all => Hung'
<1> SUFFICES ASSUME Hung, Next \/ UNCHANGED vars PROVE Hung'
  BY StepOfServer
<1>1. CASE ReadCode
  BY <1>1, MetIs DEF ReadCode, Hung
<1>2. CASE ~ReadCode
  BY <1>2, HangIsHung DEF Next, ClientNext, Connect, TypeLine, Disconnect, Transmitted, Delivered,
       IsrNext, ClearCode, Switch, Acknowledge, Resumed, ServerNext, Recv, Process, Send, Poll,
       Suspend, SwitchOut, Runs, vars, irq, task, Hung
<1> QED
  BY <1>1, <1>2

LEMMA ClientIsHasty ==
    ASSUME InExchange, [SocketNext]_all, ~Settled'
    PROVE  TaskNext \/ (IsrNext /\ Elsewhere) \/ (Delivered /\ Elsewhere)
             \/ (Transmitted /\ Elsewhere) \/ UNCHANGED all
<1>1. ~Quiet
  BY NotQuiet
<1>2. ~hasty' /\ ~Hung'
  BY DEF Settled
<1>3. ~(Connect \/ TypeLine \/ Disconnect)
  BY <1>1, <1>2 DEF Connect, TypeLine, Disconnect
<1>4. ~(HandlerHangs \/ CommandHangs)
  BY <1>2, HangIsHung DEF Hang
<1> QED
  BY <1>3, <1>4 DEF SocketNext, LineArrives, Elsewhere

(* Of the handler, the task and the network only one can move at a stage.  *)
LEMMA OnlyHandler ==
    ASSUME Announced \/ ByHandler \/ Cleared \/ Woken
    PROVE  ~TaskNext /\ ~Delivered /\ ~Transmitted
BY DEF Announced, ByHandler, Cleared, Woken, Under, TaskNext, AskSize, ReadMemory, MovePointer, Interpret,
       WriteReply, WaitAgain, Recv, Process, Send, Poll, Suspend, SwitchOut, Runs, Delivered, Transmitted

LEMMA OnlyTask ==
    ASSUME Inductive, Working
    PROVE  ~IsrNext /\ ~Delivered /\ ~Transmitted
BY DEF Inductive, DataBehindBit, Working, ToRead, Busy, Under, IsrNext, ReadCode, ClearCode, Switch,
       Acknowledge, Delivered, Transmitted

LEMMA AnnouncedStep ==
    ASSUME Inductive, Announced, [SocketNext]_all
    PROVE  /\ Announced' \/ ByHandler' \/ Settled'
           /\ IsrNext /\ Elsewhere => ByHandler' \/ Settled'
<1> SUFFICES ASSUME ~Settled'
             PROVE  /\ Announced' \/ ByHandler'
                    /\ IsrNext /\ Elsewhere => ByHandler'
  OBVIOUS
<1>1. ASSUME IsrNext, Elsewhere PROVE ByHandler'
  <2>1. ReadCode /\ UNCHANGED recvPc
    BY <1>1 DEF Announced, Under, IsrNext, Elsewhere, ReadCode, ClearCode, Switch, Acknowledge, reading
  <2>2. ~Hung'
    BY DEF Settled
  <2> QED
    BY <2>1, <2>2, MetIs DEF Inductive, DataBehindBit, Announced, ByHandler, Under, Waiting, Reading, Served, ReadCode,
       Hung, chip, irq, task, client
<1>2. UNCHANGED all => Announced'
  BY DEF all, vars, chip, irq, task, client, reading, Announced, Under, Served
<1>3. (IsrNext /\ Elsewhere) \/ UNCHANGED all
  <2>1. InExchange
    BY DEF InExchange
  <2> QED
    BY <2>1, ClientIsHasty, OnlyHandler
<1> QED
  BY <1>1, <1>2, <1>3

LEMMA SeenStep ==
    ASSUME Inductive, ByHandler, [SocketNext]_all
    PROVE  /\ ByHandler' \/ Cleared' \/ Settled'
           /\ IsrNext /\ Elsewhere => Cleared' \/ Settled'
<1> SUFFICES ASSUME ~Settled'
             PROVE  /\ ByHandler' \/ Cleared'
                    /\ IsrNext /\ Elsewhere => Cleared'
  OBVIOUS
<1>1. ASSUME IsrNext, Elsewhere PROVE Cleared'
  <2>1. ClearCode /\ UNCHANGED recvPc
    BY <1>1 DEF ByHandler, Under, IsrNext, Elsewhere, ReadCode, ClearCode, Switch, Acknowledge, reading
  <2>2. ~Hung'
    BY DEF Settled
  <2> QED
    BY <2>1, <2>2 DEF Inductive, DataBehindBit, ByHandler, Cleared, Under, Waiting, Reading, Served, ClearCode,
       Hung, chip, irq, task, client
<1>2. UNCHANGED all => ByHandler'
  BY DEF all, vars, chip, irq, task, client, reading, ByHandler, Under, Served
<1>3. (IsrNext /\ Elsewhere) \/ UNCHANGED all
  <2>1. InExchange
    BY DEF InExchange
  <2> QED
    BY <2>1, ClientIsHasty, OnlyHandler
<1> QED
  BY <1>1, <1>2, <1>3

LEMMA ClearedStep ==
    ASSUME Inductive, Cleared, [SocketNext]_all
    PROVE  /\ Cleared' \/ Woken' \/ Settled'
           /\ IsrNext /\ Elsewhere => Woken' \/ Settled'
<1> SUFFICES ASSUME ~Settled'
             PROVE  /\ Cleared' \/ Woken'
                    /\ IsrNext /\ Elsewhere => Woken'
  OBVIOUS
<1>1. ASSUME IsrNext, Elsewhere PROVE Woken'
  <2>1. Switch /\ UNCHANGED recvPc
    BY <1>1 DEF Cleared, Under, IsrNext, Elsewhere, ReadCode, ClearCode, Switch, Acknowledge, reading
  <2>2. ~Hung'
    BY DEF Settled
  <2> QED
    BY <2>1, <2>2 DEF Inductive, DataBehindBit, Cleared, Woken, Under, Waiting, Reading, Served, Switch,
       Resumed, Hung, chip, irq, task, client
<1>2. UNCHANGED all => Cleared'
  BY DEF all, vars, chip, irq, task, client, reading, Cleared, Under, Served
<1>3. (IsrNext /\ Elsewhere) \/ UNCHANGED all
  <2>1. InExchange
    BY DEF InExchange
  <2> QED
    BY <2>1, ClientIsHasty, OnlyHandler
<1> QED
  BY <1>1, <1>2, <1>3

LEMMA WokenStep ==
    ASSUME Inductive, Woken, [SocketNext]_all
    PROVE  /\ Woken' \/ ToRead' \/ Settled'
           /\ IsrNext /\ Elsewhere => ToRead' \/ Settled'
<1> SUFFICES ASSUME ~Settled'
             PROVE  /\ Woken' \/ ToRead'
                    /\ IsrNext /\ Elsewhere => ToRead'
  OBVIOUS
<1>1. ASSUME IsrNext, Elsewhere PROVE ToRead'
  <2>1. Acknowledge /\ UNCHANGED recvPc
    BY <1>1 DEF Woken, Under, IsrNext, Elsewhere, ReadCode, ClearCode, Switch, Acknowledge, reading
  <2>2. ~Hung'
    BY DEF Settled
  <2> QED
    BY <2>1, <2>2 DEF Inductive, DataBehindBit, Woken, ToRead, Under, Waiting, Reading, Served, Acknowledge,
       Hung, chip, irq, task, client
<1>2. UNCHANGED all => Woken'
  BY DEF all, vars, chip, irq, task, client, reading, Woken, Under, Served
<1>3. (IsrNext /\ Elsewhere) \/ UNCHANGED all
  <2>1. InExchange
    BY DEF InExchange
  <2> QED
    BY <2>1, ClientIsHasty, OnlyHandler
<1> QED
  BY <1>1, <1>2, <1>3

LEMMA RecvStep ==
    ASSUME Inductive, ToRead, [SocketNext]_all
    PROVE  /\ ToRead' \/ Busy("process", "read")' \/ Settled'
           /\ TaskNext => Busy("process", "read")' \/ Settled'
<1> SUFFICES ASSUME ~Settled'
             PROVE  /\ ToRead' \/ Busy("process", "read")'
                    /\ TaskNext => Busy("process", "read")'
  OBVIOUS
<1>1. TaskNext => Busy("process", "read")'
  BY DEF Inductive, DataBehindBit, ToRead, Reading, Busy, Sent, Under, Served, TaskNext, AskSize, ReadMemory,
         MovePointer, Interpret, WriteReply, WaitAgain, Recv, Process, Send, Poll, Suspend, SwitchOut, Runs,
         vars, chip, irq, task, client, reading, Settled
<1>2. UNCHANGED all => ToRead'
  BY DEF all, vars, chip, irq, task, client, reading, ToRead, Busy, Under, Served
<1>3. TaskNext \/ UNCHANGED all
  <2>1. InExchange
    BY DEF InExchange, Working
  <2> QED
    BY <2>1, ClientIsHasty, OnlyTask DEF Working
<1> QED
  BY <1>1, <1>2, <1>3

LEMMA ReadStep ==
    ASSUME Inductive, Busy("process", "read"), [SocketNext]_all
    PROVE  /\ Busy("process", "read")' \/ Busy("process", "pointer")' \/ Settled'
           /\ TaskNext => Busy("process", "pointer")' \/ Settled'
<1> SUFFICES ASSUME ~Settled'
             PROVE  /\ Busy("process", "read")' \/ Busy("process", "pointer")'
                    /\ TaskNext => Busy("process", "pointer")'
  OBVIOUS
<1>1. TaskNext => Busy("process", "pointer")'
  BY DEF Inductive, DataBehindBit, ToRead, Reading, Busy, Sent, Under, Served, TaskNext, AskSize, ReadMemory,
         MovePointer, Interpret, WriteReply, WaitAgain, Recv, Process, Send, Poll, Suspend, SwitchOut, Runs,
         vars, chip, irq, task, client, reading, Settled
<1>2. UNCHANGED all => Busy("process", "read")'
  BY DEF all, vars, chip, irq, task, client, reading, ToRead, Busy, Under, Served
<1>3. TaskNext \/ UNCHANGED all
  <2>1. InExchange
    BY DEF InExchange, Working
  <2> QED
    BY <2>1, ClientIsHasty, OnlyTask DEF Working
<1> QED
  BY <1>1, <1>2, <1>3

LEMMA PointerStep ==
    ASSUME Inductive, Busy("process", "pointer"), [SocketNext]_all
    PROVE  /\ Busy("process", "pointer")' \/ Busy("process", "done")' \/ Settled'
           /\ TaskNext => Busy("process", "done")' \/ Settled'
<1> SUFFICES ASSUME ~Settled'
             PROVE  /\ Busy("process", "pointer")' \/ Busy("process", "done")'
                    /\ TaskNext => Busy("process", "done")'
  OBVIOUS
<1>1. TaskNext => Busy("process", "done")'
  BY DEF Inductive, DataBehindBit, ToRead, Reading, Busy, Sent, Under, Served, TaskNext, AskSize, ReadMemory,
         MovePointer, Interpret, WriteReply, WaitAgain, Recv, Process, Send, Poll, Suspend, SwitchOut, Runs,
         vars, chip, irq, task, client, reading, Settled
<1>2. UNCHANGED all => Busy("process", "pointer")'
  BY DEF all, vars, chip, irq, task, client, reading, ToRead, Busy, Under, Served
<1>3. TaskNext \/ UNCHANGED all
  <2>1. InExchange
    BY DEF InExchange, Working
  <2> QED
    BY <2>1, ClientIsHasty, OnlyTask DEF Working
<1> QED
  BY <1>1, <1>2, <1>3

LEMMA ProcessStep ==
    ASSUME Inductive, Busy("process", "done"), [SocketNext]_all
    PROVE  /\ Busy("process", "done")' \/ Busy("send", "done")' \/ Settled'
           /\ TaskNext => Busy("send", "done")' \/ Settled'
<1> SUFFICES ASSUME ~Settled'
             PROVE  /\ Busy("process", "done")' \/ Busy("send", "done")'
                    /\ TaskNext => Busy("send", "done")'
  OBVIOUS
<1>1. TaskNext => Busy("send", "done")'
  BY DEF Inductive, DataBehindBit, ToRead, Reading, Busy, Sent, Under, Served, TaskNext, AskSize, ReadMemory,
         MovePointer, Interpret, WriteReply, WaitAgain, Recv, Process, Send, Poll, Suspend, SwitchOut, Runs,
         vars, chip, irq, task, client, reading, Settled
<1>2. UNCHANGED all => Busy("process", "done")'
  BY DEF all, vars, chip, irq, task, client, reading, ToRead, Busy, Under, Served
<1>3. TaskNext \/ UNCHANGED all
  <2>1. InExchange
    BY DEF InExchange, Working
  <2> QED
    BY <2>1, ClientIsHasty, OnlyTask DEF Working
<1> QED
  BY <1>1, <1>2, <1>3

LEMMA SendStep ==
    ASSUME Inductive, Busy("send", "done"), [SocketNext]_all
    PROVE  /\ Busy("send", "done")' \/ Sent' \/ Settled'
           /\ TaskNext => Sent' \/ Settled'
<1> SUFFICES ASSUME ~Settled'
             PROVE  /\ Busy("send", "done")' \/ Sent'
                    /\ TaskNext => Sent'
  OBVIOUS
<1>1. TaskNext => Sent'
  BY DEF Inductive, DataBehindBit, ToRead, Reading, Busy, Sent, Under, Served, TaskNext, AskSize, ReadMemory,
         MovePointer, Interpret, WriteReply, WaitAgain, Recv, Process, Send, Poll, Suspend, SwitchOut, Runs,
         vars, chip, irq, task, client, reading, Settled
<1>2. UNCHANGED all => Busy("send", "done")'
  BY DEF all, vars, chip, irq, task, client, reading, ToRead, Busy, Under, Served
<1>3. TaskNext \/ UNCHANGED all
  <2>1. InExchange
    BY DEF InExchange, Working
  <2> QED
    BY <2>1, ClientIsHasty, OnlyTask DEF Working
<1> QED
  BY <1>1, <1>2, <1>3

(* The reply is delivered; meanwhile the task polls and goes to sleep. *)
LEMMA SentStep ==
    ASSUME Inductive, Patient, Sent, [SocketNext]_all
    PROVE  /\ Sent' \/ (Rested' /\ Settled') \/ (hasty \/ sr # "ESTABLISHED")'
           /\ Delivered /\ Elsewhere => Settled'
<1>1. Delivered /\ Elsewhere => Rested' /\ Settled'
  BY DEF Delivered, Elsewhere, Raise, Patient, Sent, Served, Rested, Settled, irq, task, reading
<1>2. TaskNext => Sent'
  <2>1. TaskNext => WaitAgain
    BY DEF TaskNext, AskSize, ReadMemory, MovePointer, Interpret, WriteReply, Recv, Process, Send, Sent
  <2>2. ASSUME WaitAgain PROVE Sent'
    <3>1. UNCHANGED <<chip, irq, client, reading>>
      BY <2>2 DEF WaitAgain, Poll, Suspend, SwitchOut
    <3>2. server' \in {"suspend", "leaving", "suspended"}
      BY <2>2 DEF WaitAgain, Poll, Suspend, SwitchOut
    <3> QED
      BY <3>1, <3>2 DEF chip, irq, client, reading, Sent, Served
  <2> QED
    BY <2>1, <2>2
<1>3. UNCHANGED all => Sent'
  BY DEF all, vars, chip, irq, task, client, reading, Sent, Served
<1>4. ~IsrNext /\ ~HandlerHangs /\ ~CommandHangs
  BY DEF IsrNext, ReadCode, ClearCode, Switch, Acknowledge, HandlerHangs, CommandHangs, Sent
<1>5. InExchange
  BY DEF InExchange
<1>6. Transmitted /\ Elsewhere => Sent'
  BY DEF Transmitted, Elsewhere, irq, task, client, reading, Sent, Served
<1>7. ASSUME ~(TaskNext \/ (Delivered /\ Elsewhere) \/ (Transmitted /\ Elsewhere) \/ UNCHANGED all)
      PROVE  (hasty \/ sr # "ESTABLISHED")'
  <2>1. ~Quiet
    BY <1>5, NotQuiet
  <2>2. Connect \/ TypeLine \/ Disconnect
    BY <1>4, <1>7 DEF SocketNext, LineArrives, Elsewhere
  <2> QED
    BY <2>1, <2>2 DEF Connect, TypeLine, Disconnect
<1> QED
  BY <1>1, <1>2, <1>3, <1>6, <1>7

(* A line that comes at rest is announced. *)
LEMMA RestedStep ==
    ASSUME Inductive, Strict, Rested, [SocketNext]_all, sr # "CLOSE_WAIT", ~hasty', ~Hung'
    PROVE  Rested' \/ Announced'
<1>1. CASE UNCHANGED all
  BY <1>1 DEF all, vars, chip, irq, task, client, reading, Rested
<1>2. CASE LineArrives
  <2>1. TypeLine /\ Quiet /\ UNCHANGED reading
    BY <1>2 DEF LineArrives, TypeLine
  <2>2. ~hasty' /\ sr' = "ESTABLISHED" /\ typed' = typed + 1 /\ replies' = replies
        /\ UNCHANGED <<sending, irq, task>> /\ ir' = ir \cup {"RECV"} /\ exti' = (exti \/ ir = {})
    BY <2>1 DEF TypeLine, Raise
  <2>3. rx' # <<>>
    <3>1. PICK n : rx' = Append(rx, n)
      BY <2>1 DEF TypeLine
    <3>2. Append(rx, n) # <<>>
      BY AppendProperties DEF Inductive, TypeOK
    <3> QED
      BY <3>1, <3>2
  <2>4. Quiet => ir = {} /\ isr = "idle" /\ server \in {"suspended", "hung", "stray"}
    BY DEF Quiet
  <2> QED
    BY <2>1, <2>2, <2>3, <2>4 DEF Rested, Announced, Under, Waiting, Served, irq, task, reading
<1>3. CASE TaskNext
  <2>1. ~Recv
    BY DEF Recv, Rested, Strict, Inductive, TypeOK
  <2>2. WaitAgain
    BY <1>3, <2>1 DEF TaskNext, AskSize, ReadMemory, MovePointer, Interpret, WriteReply, Process, Send, Rested
  <2> QED
    BY <2>2 DEF WaitAgain, Poll, Suspend, SwitchOut, chip, irq, client, reading, Rested
<1>4. CASE Elsewhere
  <2>1. UNCHANGED reading
    BY <1>4 DEF Elsewhere
  <2>2. CASE Connect \/ Disconnect
    BY <2>1, <2>2 DEF Connect, Disconnect, Raise, irq, task, reading, Rested
  <2>3. CASE ReadCode
    BY <2>1, <2>3, MetIs DEF ReadCode, Hung, chip, client, reading, Rested
  <2>4. CASE ClearCode \/ Switch \/ Acknowledge
    BY <2>1, <2>4 DEF ClearCode, Switch, Acknowledge, Resumed, chip, irq, task, client, reading, Rested
  <2>5. ~Delivered /\ ~Transmitted
    BY DEF Delivered, Transmitted, Rested
  <2>6. ~HandlerHangs /\ ~CommandHangs
    BY HangIsHung DEF Hang
  <2> QED
    BY <1>4, <2>2, <2>3, <2>4, <2>5, <2>6 DEF Elsewhere, IsrNext
<1> QED
  BY <1>1, <1>2, <1>3, <1>4 DEF SocketNext

(* Only the client changes the status, and it stays as hasty as it was.    *)
LEMMA StatusKept ==
    ASSUME [SocketNext]_all
    PROVE  /\ hasty => hasty'
           /\ sr = "CLOSE_WAIT" => sr' = "CLOSE_WAIT"
           /\ ~Quiet /\ ~hasty' => sr' = sr
<1>1. CASE Connect \/ TypeLine \/ Disconnect
  BY <1>1 DEF Connect, TypeLine, Disconnect
<1>2. CASE Transmitted \/ Delivered \/ IsrNext \/ Hang
  BY <1>2 DEF Transmitted, Delivered, IsrNext, ReadCode, ClearCode, Switch, Acknowledge, Hang, HandlerHangs,
              CommandHangs, chip, client
<1>3. CASE ServerNext \/ UNCHANGED vars
  BY <1>3 DEF ServerNext, Recv, Process, Send, Poll, Suspend, SwitchOut, vars, chip, client
<1> QED
  BY <1>1, <1>2, <1>3, StepOfServer DEF Next, ClientNext

(* A line under way goes on, or is answered: of a hasty client, or one     *)
(* that has gone, and once something hangs, nothing is said.               *)
LEMMA ExchangeStep == Inductive /\ Strict /\ Patient /\ Exchange /\ [SocketNext]_all => Exchange'
<1> SUFFICES ASSUME Inductive, Strict, Patient, Exchange, [SocketNext]_all,
                    ~hasty', sr' # "CLOSE_WAIT", ~Hung'
             PROVE  Rested' \/ InExchange'
  BY DEF Exchange
<1>1. ~hasty /\ sr # "CLOSE_WAIT" /\ ~Hung
  BY StatusKept, HungForGood
<1>2. CASE Rested
  BY <1>1, <1>2, RestedStep DEF InExchange
<1>3. CASE InExchange
  <2>1. sr' = "ESTABLISHED" /\ replies' = typed' => Rested'
    <3> SUFFICES ASSUME sr' = "ESTABLISHED", replies' = typed', ~Rested' PROVE FALSE
      OBVIOUS
    <3>1. ~Sent
      <4>1. Sent' => replies' + 1 = typed'
        BY DEF Sent, Served
      <4>2. replies' \in Nat
        BY InductiveStep, StepOfServer DEF Inductive, TypeOK
      <4>3. \A n \in Nat : n + 1 # n
        OBVIOUS
      <4> QED
        <5>1. Sent => Sent'
          BY SentStep
        <5>2. replies' + 1 # replies'
          BY <4>2, <4>3, Zenon
        <5> QED
          BY <4>1, <5>1, <5>2
    <3>2. UNCHANGED <<replies, typed>>
      <4>1. InExchange /\ ~Quiet
        BY <1>3, NotQuiet
      <4>2. ~(Connect \/ TypeLine \/ Disconnect)
        BY <4>1 DEF Connect, TypeLine, Disconnect
      <4>3. ~Delivered
        BY <3>1, <1>3 DEF InExchange, Announced, ByHandler, Cleared, Woken, Working, ToRead, Busy, Under,
                          Delivered
      <4>4. Transmitted \/ IsrNext \/ ServerNext \/ Hang \/ UNCHANGED vars
        BY <4>2, <4>3, StepOfServer DEF Next, ClientNext
      <4> QED
        BY <4>4 DEF Transmitted, IsrNext, ReadCode, ClearCode, Switch, Acknowledge, ServerNext, Recv, Process,
                    Send, Poll, Suspend, SwitchOut, Hang, HandlerHangs, CommandHangs, vars, client
    <3>3. replies + 1 = typed /\ replies \in Nat
      BY <1>3 DEF InExchange, Announced, ByHandler, Cleared, Woken, Working, ToRead, Busy, Under, Sent, Served,
                  Inductive, TypeOK
    <3>4. replies + 1 # replies
      BY <3>3
    <3> QED
      BY <3>2, <3>3, <3>4
  <2>2. sr' = "ESTABLISHED"
    <3>1. sr = "ESTABLISHED" /\ ~Quiet
      BY <1>3, NotQuiet DEF InExchange, Announced, ByHandler, Cleared, Woken, Working, ToRead, Busy, Under,
                            Sent, Served
    <3> QED
      BY <3>1, StatusKept
  <2>3. Settled' => Rested'
    BY <2>1, <2>2 DEF Settled
  <2>4. Announced => Announced' \/ ByHandler' \/ Rested'
    BY <2>3, AnnouncedStep
  <2>5. ByHandler => ByHandler' \/ Cleared' \/ Rested'
    BY <2>3, SeenStep
  <2>6. Cleared => Cleared' \/ Woken' \/ Rested'
    BY <2>3, ClearedStep
  <2>7. Woken => Woken' \/ Working' \/ Rested'
    BY <2>3, WokenStep DEF Working
  <2>8. Working => Working' \/ Sent' \/ Rested'
    BY <2>3, RecvStep, ReadStep, PointerStep, ProcessStep, SendStep DEF Working
  <2>9. Sent => Sent' \/ Rested'
    BY <2>2, SentStep
  <2> QED
    BY <1>3, <2>4, <2>5, <2>6, <2>7, <2>8, <2>9 DEF InExchange
<1> QED
  BY <1>1, <1>2, <1>3 DEF Exchange

LEMMA ExchangeAlways == SocketSpec => [](Inductive /\ Patient /\ Exchange)
<1>1. SocketInit => ServerInv /\ Exchange
  <2>1. SocketInit => Init /\ Rested
    BY DEF SocketInit, Init, Rested
  <2> QED
    BY <2>1, InductiveInit, OrderedInit, StrictInit, PatientInit DEF Exchange, ServerInv
<1>2. ServerInv /\ [SocketNext]_all => ServerInv'
  BY InductiveStep, OrderedStep, StrictStep, PatientStep, StepOfServer DEF ServerInv, Inductive
<1>3. ServerInv /\ Exchange /\ [SocketNext]_all => Exchange'
  BY ExchangeStep DEF ServerInv
<1>4. ServerInv => Inductive /\ Patient
  BY DEF ServerInv
<1> QED
  BY <1>1, <1>2, <1>3, <1>4, PTL DEF SocketSpec

(* A client that waits for quiet between its actions gets an answer to     *)
(* every line as long as it stays and nothing hangs: from the interrupt to *)
(* the wake-up, or the loop of a recv that runs already, the steps of recv,*)
(* the interpreter and the reply, each stage is left, given that its step  *)
(* is possible (ServerGoesOn, which the run checks).                       *)
THEOREM AnsweredIfAble == SocketSpec /\ []ServerGoesOn => LineAnswered
<1> DEFINE Inv == Inductive /\ Patient /\ Exchange
           BR == ToRead
           BM == Busy("process", "read")
           BP == Busy("process", "pointer")
           BI == Busy("process", "done")
           BS == Busy("send", "done")
<1>1. SocketSpec => []Inv
  BY ExchangeAlways
<1>2. SocketSpec /\ []ServerGoesOn => (Announced ~> ByHandler \/ Settled)
  <2>1. Inv /\ Announced /\ [SocketNext]_all => Announced' \/ ByHandler' \/ Settled'
    BY AnnouncedStep
  <2>2. Inv /\ Announced /\ <<IsrNext /\ Elsewhere>>_all => ByHandler' \/ Settled'
    BY AnnouncedStep DEF SocketNext
  <2>3. ServerGoesOn /\ Announced => ENABLED <<IsrNext /\ Elsewhere>>_all
    BY DEF ServerGoesOn, Announced, Under
  <2> QED
    BY <1>1, <2>1, <2>2, <2>3, PTL DEF SocketSpec, SocketFairness
<1>3. SocketSpec /\ []ServerGoesOn => (ByHandler ~> Cleared \/ Settled)
  <2>1. Inv /\ ByHandler /\ [SocketNext]_all => ByHandler' \/ Cleared' \/ Settled'
    BY SeenStep
  <2>2. Inv /\ ByHandler /\ <<IsrNext /\ Elsewhere>>_all => Cleared' \/ Settled'
    BY SeenStep DEF SocketNext
  <2>3. ServerGoesOn /\ ByHandler => ENABLED <<IsrNext /\ Elsewhere>>_all
    BY DEF ServerGoesOn, ByHandler, Under
  <2> QED
    BY <1>1, <2>1, <2>2, <2>3, PTL DEF SocketSpec, SocketFairness
<1>4. SocketSpec /\ []ServerGoesOn => (Cleared ~> Woken \/ Settled)
  <2>1. Inv /\ Cleared /\ [SocketNext]_all => Cleared' \/ Woken' \/ Settled'
    BY ClearedStep
  <2>2. Inv /\ Cleared /\ <<IsrNext /\ Elsewhere>>_all => Woken' \/ Settled'
    BY ClearedStep DEF SocketNext
  <2>3. ServerGoesOn /\ Cleared => ENABLED <<IsrNext /\ Elsewhere>>_all
    BY DEF ServerGoesOn, Cleared, Under
  <2> QED
    BY <1>1, <2>1, <2>2, <2>3, PTL DEF SocketSpec, SocketFairness
<1>5. SocketSpec /\ []ServerGoesOn => (Woken ~> BR \/ Settled)
  <2>1. Inv /\ Woken /\ [SocketNext]_all => Woken' \/ BR' \/ Settled'
    BY WokenStep
  <2>2. Inv /\ Woken /\ <<IsrNext /\ Elsewhere>>_all => BR' \/ Settled'
    BY WokenStep DEF SocketNext
  <2>3. ServerGoesOn /\ Woken => ENABLED <<IsrNext /\ Elsewhere>>_all
    BY DEF ServerGoesOn, Woken, Under
  <2> QED
    BY <1>1, <2>1, <2>2, <2>3, PTL DEF SocketSpec, SocketFairness
<1>6. SocketSpec /\ []ServerGoesOn => (BR ~> BM \/ Settled)
  <2>1. Inv /\ BR /\ [SocketNext]_all => BR' \/ BM' \/ Settled'
    BY RecvStep
  <2>2. Inv /\ BR /\ <<TaskNext>>_all => BM' \/ Settled'
    BY RecvStep DEF SocketNext
  <2>3. ServerGoesOn /\ BR => ENABLED <<TaskNext>>_all
    BY DEF ServerGoesOn, ToRead, Reading, Busy, Under, Runs, TaskWaits
  <2> QED
    BY <1>1, <2>1, <2>2, <2>3, PTL DEF SocketSpec, SocketFairness
<1>7. SocketSpec /\ []ServerGoesOn => (BM ~> BP \/ Settled)
  <2>1. Inv /\ BM /\ [SocketNext]_all => BM' \/ BP' \/ Settled'
    BY ReadStep
  <2>2. Inv /\ BM /\ <<TaskNext>>_all => BP' \/ Settled'
    BY ReadStep DEF SocketNext
  <2>3. ServerGoesOn /\ BM => ENABLED <<TaskNext>>_all
    BY DEF ServerGoesOn, ToRead, Reading, Busy, Under, Runs, TaskWaits
  <2> QED
    BY <1>1, <2>1, <2>2, <2>3, PTL DEF SocketSpec, SocketFairness
<1>8. SocketSpec /\ []ServerGoesOn => (BP ~> BI \/ Settled)
  <2>1. Inv /\ BP /\ [SocketNext]_all => BP' \/ BI' \/ Settled'
    BY PointerStep
  <2>2. Inv /\ BP /\ <<TaskNext>>_all => BI' \/ Settled'
    BY PointerStep DEF SocketNext
  <2>3. ServerGoesOn /\ BP => ENABLED <<TaskNext>>_all
    BY DEF ServerGoesOn, ToRead, Reading, Busy, Under, Runs, TaskWaits
  <2> QED
    BY <1>1, <2>1, <2>2, <2>3, PTL DEF SocketSpec, SocketFairness
<1>9. SocketSpec /\ []ServerGoesOn => (BI ~> BS \/ Settled)
  <2>1. Inv /\ BI /\ [SocketNext]_all => BI' \/ BS' \/ Settled'
    BY ProcessStep
  <2>2. Inv /\ BI /\ <<TaskNext>>_all => BS' \/ Settled'
    BY ProcessStep DEF SocketNext
  <2>3. ServerGoesOn /\ BI => ENABLED <<TaskNext>>_all
    BY DEF ServerGoesOn, ToRead, Reading, Busy, Under, Runs, TaskWaits
  <2> QED
    BY <1>1, <2>1, <2>2, <2>3, PTL DEF SocketSpec, SocketFairness
<1>10. SocketSpec /\ []ServerGoesOn => (BS ~> Sent \/ Settled)
  <2>1. Inv /\ BS /\ [SocketNext]_all => BS' \/ Sent' \/ Settled'
    BY SendStep
  <2>2. Inv /\ BS /\ <<TaskNext>>_all => Sent' \/ Settled'
    BY SendStep DEF SocketNext
  <2>3. ServerGoesOn /\ BS => ENABLED <<TaskNext>>_all
    BY DEF ServerGoesOn, ToRead, Reading, Busy, Under, Runs, TaskWaits
  <2> QED
    BY <1>1, <2>1, <2>2, <2>3, PTL DEF SocketSpec, SocketFairness
<1>11. SocketSpec /\ []ServerGoesOn => (Sent ~> Settled)
  <2>1. Inv /\ Sent /\ [SocketNext]_all => Sent' \/ Settled'
    BY SentStep DEF Settled
  <2>2. Inv /\ Sent /\ <<Delivered /\ Elsewhere>>_all => Settled'
    BY SentStep DEF SocketNext
  <2>3. ServerGoesOn /\ Sent => ENABLED <<Delivered /\ Elsewhere>>_all
    BY DEF ServerGoesOn, Sent
  <2> QED
    BY <1>1, <2>1, <2>2, <2>3, PTL DEF SocketSpec, SocketFairness
<1>12. Inv => \/ Announced \/ ByHandler \/ Cleared \/ Woken
               \/ BR \/ BM \/ BP \/ BI \/ BS \/ Sent \/ Settled
  BY DEF Exchange, InExchange, Working, Rested, Settled
<1>13. Settled => replies = typed \/ hasty \/ sr # "ESTABLISHED" \/ Hung
  BY DEF Settled
<1> HIDE DEF BR, BM, BP, BI, BS
<1> QED
  BY <1>1, <1>2, <1>3, <1>4, <1>5, <1>6, <1>7, <1>8, <1>9, <1>10, <1>11, <1>12, <1>13, PTL DEF LineAnswered

-----------------------------------------------------------------------------
(* The server with its bytes is as live as the one without: the fairness   *)
(* of the one gives the fairness of the other.                             *)

LEMMA HandlerIsHandler == <<IsrNext /\ Elsewhere>>_all => <<IsrNext>>_vars
  BY DEF IsrNext, ReadCode, ClearCode, Switch, Acknowledge, vars, irq

LEMMA DeliveryIsDelivery == <<Delivered /\ Elsewhere>>_all => <<Delivered>>_vars
  BY DEF Delivered, vars, chip

(* Where recv stands. *)
AtRead    == recvPc = "read"
AtPointer == recvPc = "pointer"
AtDone    == recvPc = "done"
PcOK      == AtRead \/ AtPointer \/ AtDone

(* Outside recv every step of the task is one of W5200Server... *)
LEMMA TaskServes == AtDone /\ <<TaskNext>>_all => <<ServerNext>>_vars
<1> SUFFICES ASSUME AtDone, TaskNext PROVE ServerNext /\ vars' # vars
  OBVIOUS
<1>1. ServerNext
  BY DEF AtDone, TaskNext, AskSize, ReadMemory, MovePointer, Interpret, WriteReply, WaitAgain,
         ServerNext
<1>2. server' # server
  BY <1>1 DEF ServerNext, Recv, Process, Send, Poll, Suspend, SwitchOut
<1> QED
  BY <1>1, <1>2 DEF vars, task

(* ...and within it one that leads further, while nobody else moves it. *)
LEMMA TaskReads ==
    /\ AtRead /\ <<TaskNext>>_all => AtPointer' \/ <<ServerNext>>_vars
    /\ AtPointer /\ <<TaskNext>>_all => AtDone' \/ <<ServerNext>>_vars
    /\ [SocketNext]_all /\ ~TaskNext => UNCHANGED recvPc
<1>1. ASSUME TaskNext, ~AtDone, vars' = vars \/ ~ServerNext
      PROVE  (AtRead /\ AtPointer') \/ (AtPointer /\ AtDone')
  <2>1. ~ServerNext
    <3> SUFFICES ASSUME ServerNext PROVE FALSE
      OBVIOUS
    <3>1. server' # server
      BY DEF ServerNext, Recv, Process, Send, Poll, Suspend, SwitchOut
    <3> QED
      BY <1>1, <3>1 DEF vars, task
  <2> QED
    BY <1>1, <2>1 DEF TaskNext, AskSize, ReadMemory, MovePointer, Interpret, WriteReply, WaitAgain,
                      ServerNext, AtRead, AtPointer, AtDone
<1>2. [SocketNext]_all /\ ~TaskNext => UNCHANGED recvPc
  BY DEF SocketNext, LineArrives, Elsewhere, all, reading
<1> QED
  BY <1>1, <1>2 DEF AtRead, AtPointer, AtDone

LEMMA PcAlways == SocketSpec => []PcOK
<1>1. SocketInit => PcOK
  BY DEF SocketInit, PcOK, AtDone
<1>2. PcOK /\ [SocketNext]_all => PcOK'
  BY DEF PcOK, AtRead, AtPointer, AtDone, SocketNext, LineArrives, TaskNext, AskSize, ReadMemory,
         MovePointer, Interpret, WriteReply, WaitAgain, Elsewhere, all, reading
<1> QED
  BY <1>1, <1>2, PTL DEF SocketSpec

(* The server with its bytes implements the one without, fairness and all, *)
(* given that whatever the latter can do next the former can get on with   *)
(* (ServerGoesOn, which the run checks): a task that is given its turns    *)
(* again and again gets through recv, whose steps are not seen there, to   *)
(* one that is (W5200.c, recv).                                            *)
THEOREM ImplementsIfAble == SocketSpec /\ []ServerGoesOn => ImplementsServer
<1>1. SocketSpec => Init /\ [][Next]_vars
  BY Refinement, PTL DEF SocketSpec
<1>2. SocketSpec /\ []ServerGoesOn => WF_vars(IsrNext)
  <2>1. ServerGoesOn => (ENABLED <<IsrNext>>_vars => ENABLED <<IsrNext /\ Elsewhere>>_all)
    BY DEF ServerGoesOn
  <2> QED
    BY <2>1, HandlerIsHandler, PTL DEF SocketSpec, SocketFairness
<1>3. SocketSpec /\ []ServerGoesOn => WF_vars(Delivered)
  <2>1. ServerGoesOn => (ENABLED <<Delivered>>_vars => ENABLED <<Delivered /\ Elsewhere>>_all)
    BY DEF ServerGoesOn
  <2> QED
    BY <2>1, DeliveryIsDelivery, PTL DEF SocketSpec, SocketFairness
<1>4. SocketSpec => ([]<><<TaskNext>>_all => []<><<ServerNext>>_vars)
  <2>1. AtRead /\ [SocketNext]_all => AtRead' \/ AtPointer' \/ <<ServerNext>>_vars
    BY TaskReads DEF AtRead, all, reading
  <2>2. AtPointer /\ [SocketNext]_all => AtPointer' \/ AtDone' \/ <<ServerNext>>_vars
    BY TaskReads DEF AtPointer, all, reading
  <2>3. AtDone /\ [SocketNext]_all => AtDone' \/ <<ServerNext>>_vars
    BY TaskReads, TaskServes DEF AtDone, all, reading
  <2> QED
    BY <2>1, <2>2, <2>3, TaskServes, TaskReads, PcAlways, PTL DEF SocketSpec, PcOK
<1>5. SocketSpec /\ []ServerGoesOn => WF_vars(ServerNext)
  <2>1. ServerGoesOn => (ENABLED <<ServerNext>>_vars => ENABLED <<TaskNext>>_all)
    BY DEF ServerGoesOn
  <2> QED
    BY <1>4, <2>1, PTL DEF SocketSpec, SocketFairness
<1> QED
  BY <1>1, <1>2, <1>3, <1>5, PTL DEF ImplementsServer, Spec, Fairness

===============================================================================
