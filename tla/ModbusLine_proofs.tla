-------------------------- MODULE ModbusLine_proofs -------------------------
(***************************************************************************)
(* Machine-checked facts about ModbusLine, for every length of frames that *)
(* fits received_string and any number of calls and faults.                *)
(***************************************************************************)
EXTENDS ModbusLine, TLAPS

(* What a call announces is a place of received_string. *)
LEMMA AnnouncedFits ==
    ASSUME NEW k \in Kinds
    PROVE  ReadLen[k] + WriteLen[k] - 1 \in 0 .. MAX_STRLEN
<1>1. /\ WriteLen[k] \in Nat /\ WriteLen[k] # 0
      /\ ReadLen[k] \in Nat /\ ReadLen[k] # 0
      /\ MAX_STRLEN \in Nat
      /\ WriteLen[k] + ReadLen[k] <= MAX_STRLEN + 1
  BY LengthAssumption
<1> QED
  BY <1>1

(* The handler's count stays inside the buffer whatever was announced. *)
LEMMA CountFits ==
    ASSUME NEW c \in 0 .. MAX_STRLEN, c < MAX_STRLEN
    PROVE  c + 1 \in 0 .. MAX_STRLEN
BY LengthAssumption

LEMMA NextPlace == \A n \in Nat : n + 1 \in Nat
OBVIOUS

LEMMA OneMoreFault == \A n \in 0 .. MaxFaults : n < MaxFaults => n + 1 \in 0 .. MaxFaults
BY BoundAssumption

(* Frames are made of bytes, and an empty buffer of damaged ones. *)
LEMMA ByteTypes ==
    /\ \A k \in Kinds, n \in Nat : Req(k, n) \in Byte /\ Ans(k, n) \in Byte
    /\ Damaged \in Byte
    /\ \A b \in Byte : Kept(b) \in Byte
<1>1. 0 \in Nat /\ "RR" \in Kinds
  BY DEF Kinds
<1> QED
  BY <1>1 DEF Req, Ans, Damaged, Kept, Byte

Heard == [kind : Kinds, n : Nat, fresh : BOOLEAN, garbled : BOOLEAN]
Reply == [kind : Kinds, next : Nat]

LEMMA RestTypes == Silent \in Heard /\ NoReply \in Reply
<1>1. 0 \in Nat /\ "RR" \in Kinds
  BY DEF Kinds
<1> QED
  BY <1>1 DEF Silent, NoReply, Heard, Reply

LEMMA HearType ==
    ASSUME NEW b \in Byte, NEW t \in Tasks, heard \in Heard
    PROVE  Hear(b, t) \in Heard
<1>1. [heard EXCEPT !.garbled = TRUE] \in Heard
  BY DEF Heard
<1>2. b.kind \in Kinds /\ 1 \in Nat /\ (t = "motor") \in BOOLEAN
  BY DEF Byte
<1>3. [kind |-> b.kind, n |-> 1, fresh |-> t = "motor", garbled |-> FALSE] \in Heard
  BY <1>2 DEF Heard
<1>4. heard.n + 1 \in Nat
  BY NextPlace DEF Heard
<1>5. [heard EXCEPT !.n = @ + 1] \in Heard
  BY <1>4 DEF Heard
<1> QED
  BY <1>1, <1>3, <1>5 DEF Hear

-----------------------------------------------------------------------------
LEMMA TypeInit == Init => TypeOK
<1> SUFFICES ASSUME Init PROVE TypeOK
  OBVIOUS
<1>1. 0 \in 0 .. MAX_STRLEN /\ 0 \in 0 .. MaxFaults /\ 0 \in Nat
  BY LengthAssumption, BoundAssumption
<1>2. received_string \in [0 .. MAX_STRLEN -> Byte]
  BY ByteTypes DEF Init
<1>3. call \in [Tasks -> Kinds]
  BY DEF Init, Kinds
<1>4. pc \in [Tasks -> {"suspended", "idle", "send", "take", "copy"}]
  BY DEF Init, Tasks
<1>5. heard \in Heard /\ answer \in Reply
  BY RestTypes DEF Init
<1>6. wire \in Byte \cup {Nothing}
  BY DEF Init
<1>7. i \in [Tasks -> Nat] /\ calls \in [Tasks -> Nat] /\ spelled \in [Tasks -> SUBSET Kinds]
  BY <1>1 DEF Init
<1> QED
  BY <1>1, <1>2, <1>3, <1>4, <1>5, <1>6, <1>7 DEF Init, TypeOK, Heard, Reply

(* What an announcement changes keeps its type. *)
LEMMA AnnounceType ==
    ASSUME TypeOK, NEW t \in Tasks, NEW k \in Kinds, Announce(t, k)
    PROVE  /\ pc' \in [Tasks -> {"suspended", "idle", "send", "take", "copy"}]
           /\ call' \in [Tasks -> Kinds]
           /\ i' \in [Tasks -> Nat]
           /\ rx_length' \in 0 .. MAX_STRLEN
           /\ driver' \in BOOLEAN
           /\ calls' \in [Tasks -> Nat]
<1>1. rx_length' \in 0 .. MAX_STRLEN
  BY AnnouncedFits DEF Announce
<1>2. calls[t] + 1 \in Nat /\ 0 \in Nat
  BY NextPlace DEF TypeOK
<1>3. calls' \in [Tasks -> Nat] /\ i' \in [Tasks -> Nat]
  BY <1>2 DEF Announce, TypeOK
<1> QED
  BY <1>1, <1>3 DEF Announce, TypeOK

LEMMA TypeStep == TypeOK /\ [Next]_vars => TypeOK'
<1> SUFFICES ASSUME TypeOK, [Next]_vars PROVE TypeOK'
  OBVIOUS
<1> USE DEF tasks, handler, drive, history
<1>1. ASSUME NEW k \in Kinds, MotorCall(k) PROVE TypeOK'
  <2>1. [heard EXCEPT !.fresh = FALSE] \in Heard
    BY DEF TypeOK, Heard
  <2>2. "motor" \in Tasks /\ Announce("motor", k)
    BY <1>1 DEF MotorCall, Tasks
  <2> QED
    BY <1>1, <2>1, <2>2, AnnounceType DEF MotorCall, TypeOK, Heard
<1>2. CASE HeartBeatCall
  <2>1. "heartBeat" \in Tasks /\ "RR" \in Kinds /\ Announce("heartBeat", "RR")
    BY <1>2 DEF HeartBeatCall, Tasks, Kinds
  <2> QED
    BY <1>2, <2>1, AnnounceType DEF HeartBeatCall, TypeOK
<1>3. CASE ResumeHeartBeat
  BY <1>3 DEF ResumeHeartBeat, TypeOK
<1>4. ASSUME NEW t \in Tasks, SendByte(t) PROVE TypeOK'
  <2> DEFINE b == IF wire = Nothing THEN Req(call[t], i[t] + 1) ELSE Damaged
  <2>1. call[t] \in Kinds /\ i[t] + 1 \in Nat
    BY NextPlace DEF TypeOK
  <2>2. b \in Byte
    BY <2>1, ByteTypes
  <2> HIDE DEF b
  <2>3. wire' \in Byte \cup {Nothing} /\ heard' \in Heard
    <3>1. wire' = (IF driver THEN b ELSE wire) /\ heard' = (IF driver THEN Hear(b, t) ELSE heard)
      BY <1>4 DEF SendByte, b
    <3>2. heard \in Heard /\ wire \in Byte \cup {Nothing}
      BY DEF TypeOK, Heard
    <3> QED
      BY <2>2, <3>1, <3>2, HearType
  <2>4. i' \in [Tasks -> Nat]
    BY <1>4, <2>1 DEF SendByte, TypeOK
  <2>5. pc' \in [Tasks -> {"suspended", "idle", "send", "take", "copy"}]
    BY <1>4 DEF SendByte, TypeOK
  <2>6. driver' \in BOOLEAN
    BY <1>4 DEF SendByte
  <2> QED
    BY <1>4, <2>3, <2>4, <2>5, <2>6 DEF SendByte, TypeOK, Heard
<1>5. ASSUME NEW t \in Tasks, Take(t) PROVE TypeOK'
  <2>1. spelled' \in [Tasks -> SUBSET Kinds]
    BY <1>5 DEF Take, TypeOK, SameLength
  <2>2. i' \in [Tasks -> Nat]
    BY <1>5, 0 \in Nat DEF Take, TypeOK
  <2> QED
    BY <1>5, <2>1, <2>2 DEF Take, TypeOK
<1>6. ASSUME NEW t \in Tasks, CopyByte(t) PROVE TypeOK'
  <2>1. i[t] + 1 \in Nat
    BY NextPlace DEF TypeOK
  <2>2. i' \in [Tasks -> Nat]
    BY <1>6, <2>1 DEF CopyByte, TypeOK
  <2>3. spelled' \in [Tasks -> SUBSET Kinds]
    <3>1. PICK b : spelled' = [spelled EXCEPT ![t] = {a \in @ : b = Ans(a, i[t] + 1)}]
      BY <1>6 DEF CopyByte
    <3> QED
      BY <3>1 DEF TypeOK
  <2>4. pc' \in [Tasks -> {"suspended", "idle", "send", "take", "copy"}]
    BY <1>6 DEF CopyByte, TypeOK
  <2>5. result' \in {"none", "confirmed", "failed"}
    BY <1>6, Zenon DEF CopyByte, TypeOK
  <2> QED
    BY <1>6, <2>2, <2>3, <2>4, <2>5 DEF CopyByte, TypeOK
<1>7. CASE USART6_IRQHandler
  <2>1. wire \in Byte
    BY <1>7 DEF USART6_IRQHandler, TypeOK
  <2>2. received_string' \in [0 .. MAX_STRLEN -> Byte]
    BY <1>7, <2>1, ByteTypes DEF USART6_IRQHandler, TypeOK
  <2>3. cnt' \in 0 .. MAX_STRLEN
    <3>1. CASE cnt < rx_length /\ cnt < MAX_STRLEN
      BY <1>7, <3>1, CountFits, Zenon DEF USART6_IRQHandler, TypeOK
    <3>2. CASE ~(cnt < rx_length /\ cnt < MAX_STRLEN)
      <4>1. 0 \in 0 .. MAX_STRLEN
        BY LengthAssumption
      <4> QED
        BY <1>7, <3>2, <4>1, Zenon DEF USART6_IRQHandler
    <3> QED
      BY <3>1, <3>2
  <2>4. xSmphrUSART' \in BOOLEAN
    BY <1>7 DEF USART6_IRQHandler, TypeOK
  <2> QED
    BY <1>7, <2>2, <2>3, <2>4 DEF USART6_IRQHandler, TypeOK
<1>8. CASE DriveNext
  <2>1. CASE Silence
    BY <2>1, RestTypes DEF Silence, TypeOK, Heard
  <2>2. CASE Execute
    <3>1. answer' \in Reply
      BY <2>2, 1 \in Nat DEF Execute, TypeOK, Reply
    <3>2. applied' \in BOOLEAN
      BY <2>2 DEF Execute
    <3> QED
      BY <2>2, <3>1, <3>2, RestTypes DEF Execute, TypeOK, Heard, Reply
  <2>3. CASE AnswerByte
    <3>1. answer.kind \in Kinds /\ answer.next \in Nat /\ answer.next + 1 \in Nat
      BY NextPlace DEF TypeOK
    <3>2. wire' \in Byte
      BY <2>3, <3>1, ByteTypes DEF AnswerByte
    <3>3. answer' \in Reply
      BY <2>3, <3>1, RestTypes DEF AnswerByte, TypeOK, Reply
    <3> QED
      BY <2>3, <3>2, <3>3 DEF AnswerByte, TypeOK, Reply
  <2> QED
    BY <1>8, <2>1, <2>2, <2>3 DEF DriveNext
<1>9. CASE Fault
  <2>1. faults' \in 0 .. MaxFaults
    BY <1>9, OneMoreFault, Zenon DEF Fault, TypeOK
  <2>2. wire' \in Byte \cup {Nothing} /\ noise' \in BOOLEAN
    BY <1>9, ByteTypes DEF Fault, TypeOK, LoseByte, DamageByte, AddByte, DeafDrive, MuteDrive
  <2>3. heard' \in Heard /\ answer' \in Reply /\ applied' \in BOOLEAN
    BY <1>9, RestTypes DEF Fault, TypeOK, Heard, Reply, LoseByte, DamageByte, AddByte,
       DeafDrive, MuteDrive
  <2> QED
    BY <1>9, <2>1, <2>2, <2>3 DEF Fault, TypeOK, Heard, Reply
<1>10. CASE UNCHANGED vars
  BY <1>10 DEF vars, TypeOK
<1> QED
  BY <1>1, <1>2, <1>3, <1>4, <1>5, <1>6, <1>7, <1>8, <1>9, <1>10 DEF Next, TaskNext

(* Every variable keeps to its type; above all the interrupt handler never *)
(* writes outside received_string, whatever the two tasks announce while   *)
(* it is counting.                                                         *)
THEOREM TypeCorrect == SafeSpec => []TypeOK
BY TypeInit, TypeStep, PTL DEF SafeSpec

-----------------------------------------------------------------------------
(* A lone task on a clean line.  One transaction is followed byte by byte: *)
(* while the request goes out, the count is the number of bytes sent, less *)
(* the one on the wire; while the answer comes in, it is the length of the *)
(* request and the number of bytes answered, less the one on the wire.     *)
(* The last byte finds the count at rx_length, so that it restarts.        *)
W(k) == WriteLen[k]
R(k) == ReadLen[k]

Announced(k) == rx_length = R(k) + W(k) - 1

(* n bytes of request k are out; the handler has counted their echo. *)
Echoed(k, n) == \/ wire = Nothing /\ cnt = n
                \/ n # 0 /\ wire = Req(k, n) /\ cnt = n - 1

Hears(k, n) == IF n = 0 THEN heard = Silent
               ELSE heard.kind = k /\ heard.n = n /\ ~heard.garbled

(* The first j bytes of answer k are in their places. *)
Got(k, j) == \A x \in 0 .. R(k) - 1 : x < j => received_string[W(k) + x] = Ans(k, x + 1)

Resting == /\ pc["motor"] = "idle"
           /\ cnt = 0 /\ ~xSmphrUSART /\ Quiet /\ result # "failed"

Sending(k) ==
    /\ pc["motor"] = "send"
    /\ ~xSmphrUSART /\ driver /\ answer = NoReply
    /\ i["motor"] < W(k)
    /\ Hears(k, i["motor"]) /\ Echoed(k, i["motor"])

Requested(k) ==
    /\ pc["motor"] = "take"
    /\ ~xSmphrUSART /\ ~driver /\ answer = NoReply
    /\ Hears(k, W(k)) /\ Echoed(k, W(k))

(* j bytes of the answer are out. *)
AnsweringAt(k, j) ==
    /\ answer = IF j = R(k) THEN NoReply ELSE [kind |-> k, next |-> j + 1]
    /\ \/ j # R(k) /\ wire = Nothing /\ cnt = W(k) + j /\ Got(k, j)
       \/ j # 0 /\ wire = Ans(k, j) /\ cnt = W(k) + j - 1 /\ Got(k, j - 1)

Answering(k) ==
    /\ pc["motor"] = "take"
    /\ ~xSmphrUSART /\ ~driver /\ heard = Silent
    /\ \E j \in 0 .. R(k) : AnsweringAt(k, j)

Complete(k) ==
    /\ pc["motor"] = "take"
    /\ xSmphrUSART /\ cnt = 0 /\ Quiet /\ Got(k, R(k))

Copying(k) ==
    /\ pc["motor"] = "copy"
    /\ ~xSmphrUSART /\ cnt = 0 /\ Quiet /\ Got(k, R(k))
    /\ i["motor"] < R(k) /\ k \in spelled["motor"]

Stage(k) == \/ Sending(k) \/ Requested(k) \/ Answering(k) \/ Complete(k) \/ Copying(k)

Busy(k) == call["motor"] = k /\ Announced(k) /\ result = "none" /\ Stage(k)

Lone == Alone /\ faults = 0 => Resting \/ \E k \in Kinds : Busy(k)

(* Lengths of frames, as the steps use them. *)
LEMMA Lengths ==
    ASSUME NEW k \in Kinds
    PROVE  /\ W(k) \in Nat /\ W(k) >= 1
           /\ R(k) \in Nat /\ R(k) >= 1
           /\ MAX_STRLEN \in Nat
           /\ W(k) + R(k) <= MAX_STRLEN + 1
BY LengthAssumption DEF W, R

(* A silent line tells a frame of the drive from the start of a request. *)
LEMMA RestFacts ==
    /\ Silent.n = 0 /\ ~Silent.garbled /\ Silent.fresh = FALSE
    /\ NoReply.next = 0
    /\ \A k \in Kinds, n \in Nat : Req(k, n) # Nothing /\ Ans(k, n) # Nothing
    /\ \A k \in Kinds, n \in Nat :
         Req(k, n).frame = "request" /\ Req(k, n).place = n /\ Req(k, n).kind = k
    /\ \A k \in Kinds, n \in Nat : Ans(k, n).frame = "answer"
BY DEF Silent, NoReply, Req, Ans, Nothing

LEMMA LoneInit == Init => Lone
BY DEF Init, Lone, Resting, Quiet

(* A new call starts from a line at rest. *)
LEMMA LoneCall ==
    ASSUME TypeOK, Alone, faults = 0, Resting, NEW k \in Kinds, MotorCall(k)
    PROVE  Announced(k)' /\ result' = "none" /\ call'["motor"] = k /\ Sending(k)'
<1>1. "motor" \in Tasks
  BY DEF Tasks
<1>2. /\ call'["motor"] = k /\ i'["motor"] = 0 /\ pc'["motor"] = "send"
      /\ rx_length' = R(k) + W(k) - 1 /\ driver' /\ result' = "none"
  BY <1>1 DEF MotorCall, Announce, TypeOK, R, W
<1>3. heard' = Silent
  <2>1. heard' = [Silent EXCEPT !.fresh = FALSE]
    BY DEF MotorCall, Resting, Quiet
  <2> QED
    BY <2>1 DEF Silent
<1>4. wire' = Nothing /\ cnt' = 0 /\ ~xSmphrUSART' /\ answer' = NoReply
  BY DEF MotorCall, Resting, Quiet
<1>5. 0 < W(k)
  BY Lengths
<1> QED
  BY <1>2, <1>3, <1>4, <1>5 DEF Announced, Sending, Hears, Echoed

(* The next byte of the request goes out. *)
LEMMA LoneSend ==
    ASSUME TypeOK, NEW k \in Kinds, k = call["motor"], Sending(k), SendByte("motor")
    PROVE  Sending(k)' \/ Requested(k)'
<1> "motor" \in Tasks
  BY DEF Tasks
<1>1. PICK n \in Nat : n = i["motor"]
  BY DEF TypeOK
<1>2. wire = Nothing /\ cnt = n
  BY <1>1, RestFacts DEF Sending, Echoed, SendByte
<1>3. wire' = Req(k, n + 1) /\ heard' = Hear(Req(k, n + 1), "motor")
  BY <1>1, <1>2 DEF SendByte, Sending
<1>4. Hears(k, n) /\ answer.next = 0
  BY <1>1, RestFacts DEF Sending
<1>5. heard'.kind = k /\ heard'.n = n + 1 /\ ~heard'.garbled
  <2>1. CASE n = 0
    <3>1. heard.n = 0 /\ ~heard.garbled
      BY <1>4, <2>1, RestFacts DEF Hears
    <3>2. Req(k, 1).frame = "request" /\ Req(k, 1).place = 1 /\ Req(k, 1).kind = k
      BY RestFacts
    <3>3. n + 1 = 1
      BY <2>1
    <3>4. Hear(Req(k, 1), "motor")
            = [kind |-> k, n |-> 1, fresh |-> "motor" = "motor", garbled |-> FALSE]
      BY <1>4, <3>1, <3>2, Zenon DEF Hear
    <3> QED
      BY <1>3, <3>3, <3>4
  <2>2. CASE n # 0
    <3>1. heard.kind = k /\ heard.n = n /\ ~heard.garbled
      BY <1>4, <2>2 DEF Hears
    <3>2. heard' = [heard EXCEPT !.n = n + 1]
      BY <1>3, <1>4, <2>2, <3>1 DEF Hear
    <3>3. heard \in Heard
      BY DEF TypeOK, Heard
    <3> QED
      BY <3>1, <3>2, <3>3 DEF Heard
  <2> QED
    BY <2>1, <2>2
<1>6. i'["motor"] = n + 1 /\ n + 1 # 0 /\ n = (n + 1) - 1
  <2>1. i' = [i EXCEPT !["motor"] = n + 1]
    BY <1>1 DEF SendByte
  <2>2. i'["motor"] = n + 1
    BY <2>1 DEF TypeOK
  <2> QED
    BY <2>2
<1>7. Hears(k, n + 1)' /\ Echoed(k, n + 1)'
  <2>1. cnt' = n
    BY <1>2 DEF SendByte, handler
  <2> QED
    BY <1>3, <1>5, <1>6, <2>1 DEF Hears, Echoed
<1>8. ~xSmphrUSART' /\ answer' = NoReply
  BY DEF SendByte, Sending, handler
<1>9. CASE n + 1 = W(k)
  <2>1. pc'["motor"] = "take" /\ ~driver'
    BY <1>1, <1>9 DEF SendByte, W, TypeOK
  <2> QED
    BY <1>7, <1>8, <1>9, <2>1 DEF Requested
<1>10. CASE n + 1 # W(k)
  <2>1. pc'["motor"] = "send" /\ driver'
    BY <1>1, <1>10 DEF SendByte, Sending, W, TypeOK
  <2>2. n < W(k) /\ W(k) \in Nat
    BY <1>1, Lengths DEF Sending
  <2>3. n + 1 < W(k)
    BY <1>10, <2>2
  <2> QED
    BY <1>6, <1>7, <1>8, <2>1, <2>3 DEF Sending
<1> QED
  BY <1>9, <1>10

(* The drive carries out a whole request and nothing less. *)
LEMMA LoneExecute ==
    ASSUME TypeOK, NEW k \in Kinds, Stage(k), Execute
    PROVE  Answering(k)'
<1>1. heard # Silent
  <2>1. 0 # WriteLen["RR"] /\ Silent.kind = "RR" /\ Silent.n = 0
    BY Lengths, LengthAssumption DEF Kinds, W, Silent
  <2> QED
    BY <2>1 DEF Execute
<1>2. Requested(k)
  <2>1. ASSUME Sending(k) PROVE FALSE
    <3>1. PICK n \in Nat : n = i["motor"]
      BY DEF TypeOK, Tasks
    <3>2. heard.kind = k /\ heard.n = n
      BY <1>1, <2>1, <3>1 DEF Sending, Hears
    <3>3. n < W(k) /\ n = W(k)
      BY <2>1, <3>1, <3>2 DEF Sending, Execute, W
    <3> QED
      BY <3>3, Lengths
  <2> QED
    BY <1>1, <2>1 DEF Stage, Answering, Complete, Copying, Quiet
<1>3. W(k) \in Nat /\ W(k) # 0 /\ R(k) \in Nat /\ 0 # R(k) /\ W(k) + 0 = W(k) /\ 0 + 1 = 1
  BY Lengths
<1>4. heard.kind = k /\ wire = Nothing
  BY <1>2, <1>3 DEF Requested, Hears, Execute
<1>5. cnt = W(k)
  BY <1>2, <1>3, <1>4, RestFacts DEF Requested, Echoed
<1>6. answer' = [kind |-> k, next |-> 0 + 1] /\ heard' = Silent /\ wire' = Nothing /\ cnt' = W(k) + 0
  BY <1>3, <1>4, <1>5 DEF Execute, handler
<1>7. Got(k, 0)'
  BY <1>3 DEF Got
<1>8. AnsweringAt(k, 0)'
  BY <1>3, <1>6, <1>7 DEF AnsweringAt
<1>9. 0 \in 0 .. R(k)
  BY <1>3
<1> QED
  BY <1>2, <1>6, <1>8, <1>9 DEF Requested, Answering, Execute, tasks, handler

(* The next byte of the answer. *)
LEMMA LoneAnswer ==
    ASSUME TypeOK, NEW k \in Kinds, Stage(k), AnswerByte
    PROVE  Answering(k)'
<1>1. answer # NoReply
  BY RestFacts DEF AnswerByte
<1>2. Answering(k)
  BY <1>1 DEF Stage, Sending, Requested, Complete, Copying, Quiet
<1>3. PICK j \in 0 .. R(k) : AnsweringAt(k, j)
  BY <1>2 DEF Answering
<1>4. j # R(k) /\ answer = [kind |-> k, next |-> j + 1] /\ wire = Nothing
  BY <1>1, <1>3 DEF AnsweringAt, AnswerByte
<1>5. cnt = W(k) + j /\ Got(k, j)
  BY <1>3, <1>4, RestFacts DEF AnsweringAt
<1>6. /\ R(k) \in Nat /\ W(k) \in Nat /\ j \in Nat /\ j + 1 \in 0 .. R(k) /\ j + 1 # 0
      /\ W(k) + j = W(k) + (j + 1) - 1 /\ j = (j + 1) - 1
  BY <1>4, Lengths
<1>7. wire' = Ans(k, j + 1)
  BY <1>2, <1>4 DEF AnswerByte, Answering
<1>8. answer' = IF j + 1 = R(k) THEN NoReply ELSE [kind |-> k, next |-> (j + 1) + 1]
  BY <1>4 DEF AnswerByte, R
<1>9. cnt' = W(k) + (j + 1) - 1 /\ Got(k, (j + 1) - 1)'
  <2>1. cnt' = cnt /\ received_string' = received_string
    BY DEF AnswerByte, handler
  <2>2. cnt' = W(k) + (j + 1) - 1
    BY <1>5, <1>6, <2>1
  <2>3. Got(k, j)'
    BY <1>5, <2>1 DEF Got
  <2> QED
    BY <1>6, <2>2, <2>3
<1>10. AnsweringAt(k, j + 1)'
  BY <1>6, <1>7, <1>8, <1>9 DEF AnsweringAt
<1> QED
  BY <1>2, <1>6, <1>10 DEF Answering, AnswerByte, tasks, handler

(* Where a byte of a transaction is stored, and what that makes of cnt. *)
LEMMA EchoPlace ==
    ASSUME NEW k \in Kinds, NEW n \in Nat, n # 0, n <= W(k)
    PROVE  n - 1 < R(k) + W(k) - 1 /\ n - 1 < MAX_STRLEN /\ (n - 1) + 1 = n
BY Lengths

LEMMA AnswerPlace ==
    ASSUME NEW k \in Kinds, NEW j \in 0 .. R(k), j # 0
    PROVE  /\ j # R(k) => /\ W(k) + j - 1 < R(k) + W(k) - 1
                          /\ W(k) + j - 1 < MAX_STRLEN
                          /\ (W(k) + j - 1) + 1 = W(k) + j
           /\ j = R(k) => ~(W(k) + j - 1 < R(k) + W(k) - 1)
           /\ W(k) + j - 1 \in 0 .. MAX_STRLEN
BY Lengths

LEMMA GotOneMore ==
    ASSUME NEW k \in Kinds, NEW j \in 0 .. R(k), j # 0,
           NEW f \in [0 .. MAX_STRLEN -> Byte],
           \A x \in 0 .. R(k) - 1 : x < j - 1 => f[W(k) + x] = Ans(k, x + 1)
    PROVE  \A x \in 0 .. R(k) - 1 : x < j =>
             [f EXCEPT ![W(k) + j - 1] = Ans(k, j)][W(k) + x] = Ans(k, x + 1)
<1> TAKE x \in 0 .. R(k) - 1
<1> HAVE x < j
<1>1. /\ R(k) \in Nat /\ W(k) \in Nat /\ MAX_STRLEN \in Nat
      /\ W(k) + R(k) <= MAX_STRLEN + 1
  BY Lengths
<1>2. W(k) + x \in 0 .. MAX_STRLEN
  BY <1>1
<1>3. CASE x = j - 1
  <2>1. W(k) + x = W(k) + j - 1 /\ x + 1 = j
    BY <1>1, <1>3
  <2> QED
    BY <1>2, <2>1
<1>4. CASE x # j - 1
  <2>1. W(k) + x # W(k) + j - 1 /\ x < j - 1
    BY <1>1, <1>4
  <2> QED
    BY <1>2, <2>1
<1> QED
  BY <1>3, <1>4

(* The handler takes a byte of the echo. *)
LEMMA LoneEcho ==
    ASSUME TypeOK, NEW k \in Kinds, Announced(k), NEW n \in Nat, n <= W(k),
           Echoed(k, n), USART6_IRQHandler
    PROVE  Echoed(k, n)' /\ xSmphrUSART' = xSmphrUSART
<1>1. n # 0 /\ cnt = n - 1
  BY DEF Echoed, USART6_IRQHandler
<1>2. cnt < rx_length /\ cnt < MAX_STRLEN /\ cnt + 1 = n
  BY <1>1, EchoPlace DEF Announced
<1>3. cnt' = n /\ wire' = Nothing /\ xSmphrUSART' = xSmphrUSART
  BY <1>2 DEF USART6_IRQHandler
<1> QED
  BY <1>3 DEF Echoed

(* The handler takes a byte of the answer; the last one completes it. *)
LEMMA LoneTakesAnswer ==
    ASSUME TypeOK, NEW k \in Kinds, Announced(k), Answering(k), USART6_IRQHandler
    PROVE  Answering(k)' \/ Complete(k)'
<1>1. PICK j \in 0 .. R(k) : AnsweringAt(k, j)
  BY DEF Answering
<1>2. j # 0 /\ wire = Ans(k, j) /\ cnt = W(k) + j - 1 /\ Got(k, j - 1)
  BY <1>1 DEF AnsweringAt, USART6_IRQHandler
<1>3. j \in Nat
  BY Lengths
<1>4. received_string' = [received_string EXCEPT ![W(k) + j - 1] = Ans(k, j)]
  <2>1. Kept(wire) = Ans(k, j)
    BY <1>2, <1>3, RestFacts DEF Kept
  <2> QED
    BY <1>2, <2>1 DEF USART6_IRQHandler
<1>5. Got(k, j)'
  <2>1. received_string \in [0 .. MAX_STRLEN -> Byte]
    BY DEF TypeOK
  <2>2. \A x \in 0 .. R(k) - 1 : x < j - 1 => received_string[W(k) + x] = Ans(k, x + 1)
    BY <1>2 DEF Got
  <2>3. \A x \in 0 .. R(k) - 1 : x < j =>
          [received_string EXCEPT ![W(k) + j - 1] = Ans(k, j)][W(k) + x] = Ans(k, x + 1)
    BY <1>2, <2>1, <2>2, GotOneMore
  <2> QED
    BY <1>4, <2>3, Zenon DEF Got
<1>6. /\ answer' = answer /\ heard' = heard /\ pc' = pc /\ driver' = driver
      /\ wire' = Nothing
  BY DEF USART6_IRQHandler, drive, tasks
<1>7. CASE j # R(k)
  <2>1. cnt < rx_length /\ cnt < MAX_STRLEN /\ cnt + 1 = W(k) + j
    BY <1>2, <1>7, AnswerPlace DEF Announced
  <2>2. cnt' = W(k) + j /\ xSmphrUSART' = xSmphrUSART
    BY <2>1 DEF USART6_IRQHandler
  <2>3. answer = [kind |-> k, next |-> j + 1]
    BY <1>1, <1>7 DEF AnsweringAt
  <2>4. AnsweringAt(k, j)'
    BY <1>5, <1>6, <1>7, <2>2, <2>3 DEF AnsweringAt
  <2> QED
    BY <1>6, <2>2, <2>4 DEF Answering
<1>8. CASE j = R(k)
  <2>1. ~(cnt < rx_length)
    BY <1>2, <1>8, AnswerPlace DEF Announced
  <2>2. cnt' = 0 /\ xSmphrUSART'
    BY <2>1 DEF USART6_IRQHandler
  <2>3. answer = NoReply
    BY <1>1, <1>8 DEF AnsweringAt
  <2> QED
    BY <1>5, <1>6, <1>8, <2>2, <2>3 DEF Answering, Complete, Quiet
<1> QED
  BY <1>7, <1>8

LEMMA LoneHandler ==
    ASSUME TypeOK, NEW k \in Kinds, k = call["motor"], Announced(k), Stage(k),
           USART6_IRQHandler
    PROVE  Stage(k)'
<1>1. /\ answer' = answer /\ heard' = heard /\ pc' = pc /\ i' = i /\ driver' = driver
  BY DEF USART6_IRQHandler, drive, tasks
<1>2. CASE Sending(k)
  <2>1. PICK n \in Nat : n = i["motor"]
    BY DEF TypeOK, Tasks
  <2>2. n <= W(k)
    BY <1>2, <2>1, Lengths DEF Sending
  <2>3. Echoed(k, n)' /\ xSmphrUSART' = xSmphrUSART
    BY <1>2, <2>1, <2>2, LoneEcho DEF Sending
  <2>4. Hears(k, n)'
    BY <1>1, <1>2, <2>1 DEF Sending, Hears
  <2>5. Sending(k)'
    BY <1>1, <1>2, <2>1, <2>3, <2>4 DEF Sending
  <2> QED
    BY <2>5 DEF Stage
<1>3. CASE Requested(k)
  <2>1. Echoed(k, W(k))' /\ xSmphrUSART' = xSmphrUSART
    <3>1. W(k) \in Nat /\ W(k) <= W(k)
      BY Lengths
    <3> QED
      BY <1>3, <3>1, LoneEcho DEF Requested
  <2>2. Hears(k, W(k))'
    BY <1>1, <1>3 DEF Requested, Hears
  <2>3. Requested(k)'
    BY <1>1, <1>3, <2>1, <2>2 DEF Requested
  <2> QED
    BY <2>3 DEF Stage
<1>4. CASE Answering(k)
  BY <1>4, LoneTakesAnswer DEF Stage
<1> QED
  BY <1>2, <1>3, <1>4 DEF Stage, Complete, Copying, Quiet, USART6_IRQHandler

(* The task takes the semaphore of its own answer. *)
LEMMA LoneTake ==
    ASSUME TypeOK, NEW k \in Kinds, k = call["motor"], Stage(k), Take("motor")
    PROVE  Copying(k)'
<1>1. Complete(k)
  BY DEF Stage, Sending, Requested, Answering, Copying, Take
<1>2. pc'["motor"] = "copy" /\ i'["motor"] = 0 /\ spelled'["motor"] = SameLength(k)
  BY DEF Take, TypeOK, Tasks
<1>3. k \in SameLength(k) /\ 0 < R(k)
  BY Lengths DEF SameLength
<1>4. /\ ~xSmphrUSART' /\ cnt' = cnt /\ received_string' = received_string
      /\ wire' = wire /\ heard' = heard /\ answer' = answer
  BY DEF Take, drive
<1>5. Got(k, R(k))'
  BY <1>1, <1>4 DEF Complete, Got
<1> QED
  BY <1>1, <1>2, <1>3, <1>4, <1>5 DEF Complete, Copying, Quiet

(* ... and copies it; nothing but the confirmation is left. *)
LEMMA LoneCopy ==
    ASSUME TypeOK, NEW k \in Kinds, k = call["motor"], result = "none", Stage(k),
           CopyByte("motor")
    PROVE  Resting' \/ (result' = "none" /\ Copying(k)')
<1> "motor" \in Tasks
  BY DEF Tasks
<1>1. Copying(k)
  BY DEF Stage, Sending, Requested, Answering, Complete, CopyByte
<1>2. PICK n \in Nat : n = i["motor"]
  BY DEF TypeOK
<1>3. n < R(k) /\ R(k) \in Nat
  BY <1>1, <1>2, Lengths DEF Copying
<1>4. received_string[W(k) + n] = Ans(k, n + 1)
  <2>1. n \in 0 .. R(k) - 1
    BY <1>3
  <2> QED
    BY <1>1, <1>3, <2>1 DEF Copying, Got
<1>5. k \in spelled'["motor"]
  <2>1. spelled' = [spelled EXCEPT !["motor"] =
                      {a \in spelled["motor"] : received_string[W(k) + n] = Ans(a, n + 1)}]
    BY <1>2 DEF CopyByte, W
  <2>2. spelled'["motor"] = {a \in spelled["motor"] : received_string[W(k) + n] = Ans(a, n + 1)}
    BY <2>1 DEF TypeOK
  <2> QED
    BY <1>1, <1>4, <2>2 DEF Copying
<1>6. /\ ~xSmphrUSART' /\ cnt' = 0 /\ Quiet' /\ Got(k, R(k))'
  BY <1>1 DEF Copying, CopyByte, handler, drive, Quiet, Got
<1>7. i'["motor"] = n + 1
  <2>1. i' = [i EXCEPT !["motor"] = n + 1]
    BY <1>2 DEF CopyByte
  <2> QED
    BY <2>1 DEF TypeOK
<1>8. CASE n + 1 = R(k)
  <2>1. pc'["motor"] = "idle"
    BY <1>2, <1>8 DEF CopyByte, TypeOK, R
  <2>2. result' = "confirmed"
    BY <1>2, <1>5, <1>8 DEF CopyByte, R
  <2> QED
    BY <1>6, <2>1, <2>2 DEF Resting
<1>9. CASE n + 1 # R(k)
  <2>1. pc'["motor"] = "copy" /\ result' = result
    BY <1>2, <1>9 DEF CopyByte, TypeOK, R
  <2>2. n + 1 < R(k)
    BY <1>3, <1>9
  <2> QED
    BY <1>5, <1>6, <1>7, <2>1, <2>2 DEF Copying
<1> QED
  BY <1>8, <1>9

(* No step puts the heartbeat back to sleep or takes a fault back. *)
LEMMA StaysLone ==
    ASSUME TypeOK, [Next]_vars, Alone', faults' = 0
    PROVE  Alone /\ faults = 0
<1> "motor" \in Tasks /\ "heartBeat" \in Tasks
  BY DEF Tasks
<1> USE DEF tasks, handler, drive, history
<1>1. ASSUME NEW k \in Kinds, MotorCall(k) PROVE Alone /\ faults = 0
  BY <1>1 DEF MotorCall, Announce, Alone, TypeOK
<1>2. ~HeartBeatCall
  BY DEF HeartBeatCall, Announce, Alone, TypeOK
<1>3. ~ResumeHeartBeat
  BY DEF ResumeHeartBeat, Alone, TypeOK
<1>4. ASSUME NEW t \in Tasks, TaskNext(t) PROVE Alone /\ faults = 0
  <2>1. faults' = faults
    BY <1>4 DEF TaskNext, SendByte, Take, CopyByte
  <2>2. PICK p \in {"idle", "send", "take", "copy"} :
          pc' = [pc EXCEPT ![t] = p] \/ (pc[t] # "suspended" /\ pc' = [pc EXCEPT ![t] = pc[t]])
    BY <1>4 DEF TaskNext, SendByte, Take, CopyByte
  <2>3. Alone
    BY <2>2 DEF Alone, TypeOK
  <2> QED
    BY <2>1, <2>3
<1>5. CASE USART6_IRQHandler
  BY <1>5 DEF USART6_IRQHandler, Alone
<1>6. CASE DriveNext
  BY <1>6 DEF DriveNext, Silence, Execute, AnswerByte, Alone
<1>7. ~Fault
  <2>1. \A n \in 0 .. MaxFaults : n + 1 # 0
    BY BoundAssumption
  <2> QED
    BY <2>1, Zenon DEF Fault, TypeOK
<1>8. CASE UNCHANGED vars
  BY <1>8 DEF vars, Alone
<1> QED
  BY <1>1, <1>2, <1>3, <1>4, <1>5, <1>6, <1>7, <1>8 DEF Next

(* ... and so only these steps are left. *)
LEMMA LoneNext ==
    ASSUME TypeOK, [Next]_vars, Alone', faults' = 0
    PROVE  \/ \E k \in Kinds : MotorCall(k)
           \/ \E t \in Tasks : TaskNext(t)
           \/ USART6_IRQHandler \/ DriveNext
           \/ UNCHANGED vars
<1>1. Alone /\ faults = 0
  BY StaysLone
<1>2. ~Fault
  <2>1. \A n \in 0 .. MaxFaults : n + 1 # 0
    BY BoundAssumption
  <2> QED
    BY <2>1, Zenon DEF Fault, TypeOK
<1>3. ~HeartBeatCall /\ ~ResumeHeartBeat
  BY <1>1 DEF HeartBeatCall, ResumeHeartBeat, Announce, Alone, TypeOK, Tasks
<1> QED
  BY <1>2, <1>3 DEF Next

LEMMA LoneStep == TypeOK /\ Lone /\ [Next]_vars => Lone'
<1> SUFFICES ASSUME TypeOK, Lone, [Next]_vars, Alone', faults' = 0
             PROVE  Resting' \/ \E k \in Kinds : Busy(k)'
  BY DEF Lone
<1>1. Alone /\ faults = 0
  BY StaysLone
<1> USE DEF tasks, handler, drive, history
<1>2. CASE Resting
  <2>1. ASSUME NEW k \in Kinds, MotorCall(k) PROVE Busy(k)'
    BY <1>1, <1>2, <2>1, LoneCall DEF Busy, Stage
  <2>2. ASSUME NEW t \in Tasks PROVE ~TaskNext(t)
    BY <1>1, <1>2 DEF TaskNext, SendByte, Take, CopyByte, Alone, Resting, Tasks
  <2>3. ~USART6_IRQHandler
    BY <1>2 DEF USART6_IRQHandler, Resting, Quiet
  <2>4. ~DriveNext
    <3>1. WriteLen["RR"] # 0 /\ Silent.kind = "RR" /\ Silent.n = 0
      BY LengthAssumption DEF Kinds, Silent
    <3> QED
      BY <1>2, <3>1, RestFacts DEF DriveNext, Silence, Execute, AnswerByte, Resting, Quiet
  <2>5. UNCHANGED vars => Resting'
    BY <1>2 DEF vars, Resting, Quiet
  <2> QED
    BY <2>1, <2>2, <2>3, <2>4, <2>5, LoneNext
<1>3. ASSUME NEW k \in Kinds, Busy(k) PROVE Resting' \/ Busy(k)'
  <2>1. call["motor"] = k /\ Announced(k) /\ result = "none" /\ Stage(k)
    BY <1>3 DEF Busy
  <2>2. \A c \in Kinds : ~MotorCall(c)
    BY <2>1 DEF MotorCall, Announce, Stage, Sending, Requested, Answering, Complete, Copying
  <2>3. ASSUME NEW t \in Tasks, TaskNext(t) PROVE Resting' \/ Busy(k)'
    <3>1. t = "motor"
      BY <1>1, <2>3 DEF TaskNext, SendByte, Take, CopyByte, Alone, Tasks
    <3>2. call'["motor"] = k /\ Announced(k)'
      BY <2>1, <2>3 DEF TaskNext, SendByte, Take, CopyByte, Announced
    <3>3. CASE SendByte("motor")
      <4>1. Sending(k) /\ result' = "none"
        BY <2>1, <3>3 DEF Stage, Requested, Answering, Complete, Copying, SendByte
      <4>2. Stage(k)'
        BY <2>1, <3>3, <4>1, LoneSend DEF Stage
      <4> QED
        BY <3>2, <4>1, <4>2 DEF Busy
    <3>4. CASE Take("motor")
      <4>1. result' = "none" /\ Stage(k)'
        BY <2>1, <3>4, LoneTake DEF Stage, Take
      <4> QED
        BY <3>2, <4>1 DEF Busy
    <3>5. CASE CopyByte("motor")
      BY <2>1, <3>2, <3>5, LoneCopy DEF Busy, Stage
    <3> QED
      BY <2>3, <3>1, <3>3, <3>4, <3>5 DEF TaskNext
  <2>4. ASSUME USART6_IRQHandler PROVE Busy(k)'
    <3>1. call' = call /\ result' = result /\ rx_length' = rx_length
      BY <2>4 DEF USART6_IRQHandler
    <3>2. Stage(k)'
      BY <2>1, <2>4, LoneHandler
    <3> QED
      BY <2>1, <3>1, <3>2 DEF Busy, Announced
  <2>5. ASSUME DriveNext PROVE Busy(k)'
    <3>1. ~Silence
      BY <2>1, RestFacts DEF Silence, Stage, Sending, Requested, Answering, Complete,
         Copying, Quiet, Hears
    <3>2. call' = call /\ result' = result /\ rx_length' = rx_length
      BY <2>5 DEF DriveNext, Silence, Execute, AnswerByte
    <3>3. Stage(k)'
      BY <2>1, <2>5, <3>1, LoneExecute, LoneAnswer DEF DriveNext, Stage
    <3> QED
      BY <2>1, <3>2, <3>3 DEF Busy, Announced
  <2>6. UNCHANGED vars => Busy(k)'
    BY <2>1 DEF vars, Busy, Announced, Stage, Sending, Requested, Answering,
       AnsweringAt, Complete, Copying, Quiet, Hears, Echoed, Got
  <2> QED
    BY <2>2, <2>3, <2>4, <2>5, <2>6, LoneNext
<1> QED
  BY <1>1, <1>2, <1>3 DEF Lone

(* While the heartbeat sleeps and nothing goes wrong, a call leaves the    *)
(* count, the semaphore and the line as it found them and is confirmed,    *)
(* whatever the lengths of the frames: what one call announces is exactly  *)
(* what the handler counts during it.                                      *)
THEOREM LoneCallIsClean == SafeSpec => []CleanBetweenCalls
<1>1. Lone => CleanBetweenCalls
  BY DEF Lone, Busy, CleanBetweenCalls, Resting, Stage, Sending, Requested, Answering,
     Complete, Copying
<1> QED
  BY <1>1, LoneInit, LoneStep, TypeCorrect, PTL DEF SafeSpec

-----------------------------------------------------------------------------
(* A lone task on a line that loses and damages bytes.  A call that ends   *)
(* has had as many bytes as were sent for it, so none was lost, and the    *)
(* drive has sent the whole answer.  The count is a bound now.             *)
Within(n) == \/ wire = Nothing /\ cnt <= n
             \/ wire # Nothing /\ cnt + 1 <= n

(* What the drive hears, unless it has given up, is the call's request. *)
Listens(k) ==
    \/ heard.n = 0 \/ heard.garbled
    \/ heard.kind = k /\ heard.fresh /\ heard.n <= i["motor"]

Settled == ~xSmphrUSART /\ cnt = 0 /\ Quiet

AtRest == pc["motor"] = "idle" /\ Settled /\ (result = "confirmed" => applied)

Asks(k) ==
    /\ ~xSmphrUSART /\ answer = NoReply /\ result = "none"
    /\ Listens(k) /\ Within(i["motor"])
    /\ \/ pc["motor"] = "send" /\ i["motor"] < W(k)
       \/ pc["motor"] = "take" /\ i["motor"] = W(k)

Answers(k) ==
    /\ pc["motor"] = "take" /\ ~xSmphrUSART /\ applied /\ heard = Silent
    /\ \/ answer = NoReply /\ Within(W(k) + R(k))
       \/ answer.kind = k /\ answer.next \in 1 .. R(k) /\ Within(W(k) + answer.next - 1)

AllIn    == pc["motor"] = "take" /\ xSmphrUSART /\ applied /\ cnt = 0 /\ Quiet
CopiesIt == pc["motor"] = "copy" /\ applied /\ Settled

InCall(k) == /\ call["motor"] = k /\ Announced(k)
             /\ Asks(k) \/ Answers(k) \/ AllIn \/ CopiesIt

Earned == Alone /\ ~noise => AtRest \/ \E k \in Kinds : InCall(k)

LEMMA EarnedInit == Init => Earned
BY DEF Init, Earned, AtRest, Settled, Quiet

LEMMA EarnedCall ==
    ASSUME TypeOK, AtRest, NEW k \in Kinds, MotorCall(k)
    PROVE  InCall(k)'
<1>1. "motor" \in Tasks
  BY DEF Tasks
<1>2. /\ call'["motor"] = k /\ i'["motor"] = 0 /\ pc'["motor"] = "send"
      /\ rx_length' = R(k) + W(k) - 1 /\ result' = "none"
  BY <1>1 DEF MotorCall, Announce, TypeOK, R, W
<1>3. heard'.n = 0
  BY DEF MotorCall, AtRest, Settled, Quiet, Silent
<1>4. wire' = Nothing /\ cnt' = 0 /\ ~xSmphrUSART' /\ answer' = NoReply
  BY DEF MotorCall, AtRest, Settled, Quiet
<1>5. 0 < W(k) /\ 0 <= 0
  BY Lengths
<1> QED
  BY <1>2, <1>3, <1>4, <1>5 DEF InCall, Announced, Asks, Listens, Within

(* The drive hears the next byte, or it has missed one and waits. *)
LEMMA EarnedSend ==
    ASSUME TypeOK, NEW k \in Kinds, InCall(k), SendByte("motor")
    PROVE  InCall(k)'
<1>1. "motor" \in Tasks
  BY DEF Tasks
<1>2. /\ Asks(k) /\ pc["motor"] = "send" /\ call["motor"] = k /\ Announced(k)
      /\ ~xSmphrUSART /\ answer = NoReply /\ result = "none" /\ Listens(k) /\ Within(i["motor"])
      /\ i["motor"] < W(k)
  BY DEF InCall, Asks, Answers, AllIn, CopiesIt, SendByte
<1>3. PICK n \in Nat : n = i["motor"] /\ i'["motor"] = n + 1
  BY <1>1 DEF TypeOK, SendByte
<1>4. n < W(k) /\ W(k) \in Nat /\ cnt \in Nat
  BY <1>2, <1>3, Lengths DEF TypeOK
<1>5. PICK b : /\ wire' = (IF driver THEN b ELSE wire) /\ b # Nothing
               /\ heard' = (IF driver THEN Hear(b, "motor") ELSE heard)
               /\ b = Req(k, n + 1) \/ b = Damaged
  <2>1. Damaged # Nothing
    BY DEF Damaged, Nothing
  <2>2. n + 1 \in Nat
    OBVIOUS
  <2> QED
    BY <1>2, <1>3, <2>1, <2>2, RestFacts DEF SendByte
<1>6. Within(i["motor"])'
  <2>1. cnt' = cnt
    BY DEF SendByte, handler
  <2>2. wire' = wire \/ wire' # Nothing
    BY <1>5
  <2>3. cnt <= n
    BY <1>2, <1>3, <1>4 DEF Within
  <2>4. cnt <= n + 1 /\ cnt + 1 <= n + 1
    BY <1>4, <2>3
  <2> QED
    BY <1>3, <2>1, <2>4 DEF Within
<1>7. Listens(k)'
  <2>1. CASE ~driver
    <3>1. heard' = heard
      BY <1>5, <2>1
    <3>2. heard.n \in Nat
      BY DEF TypeOK
    <3>3. heard.n <= n => heard.n <= n + 1
      BY <3>2
    <3> QED
      BY <1>2, <1>3, <3>1, <3>3 DEF Listens
  <2>2. CASE driver
    <3>1. heard' = Hear(b, "motor") /\ heard \in Heard
      BY <1>5, <2>2 DEF TypeOK, Heard
    <3>2. CASE heard' = [heard EXCEPT !.garbled = TRUE]
      <4>1. heard'.garbled
        BY <3>1, <3>2 DEF Heard
      <4> QED
        BY <4>1 DEF Listens
    <3>3. CASE heard' = [kind |-> b.kind, n |-> 1, fresh |-> TRUE, garbled |-> FALSE]
               /\ b.frame = "request"
      <4>1. b.kind = k
        BY <1>5, <3>3, RestFacts DEF Damaged
      <4>2. 1 <= n + 1
        OBVIOUS
      <4> QED
        BY <1>3, <3>3, <4>1, <4>2 DEF Listens
    <3>4. CASE heard.n # 0 /\ ~heard.garbled /\ heard' = [heard EXCEPT !.n = @ + 1]
      <4>1. heard.kind = k /\ heard.fresh /\ heard.n <= n
        BY <1>2, <1>3, <3>4 DEF Listens
      <4>2. heard'.kind = k /\ heard'.fresh /\ heard'.n = heard.n + 1 /\ heard.n \in Nat
        BY <3>1, <3>4, <4>1 DEF Heard
      <4>3. heard'.n <= n + 1
        BY <4>1, <4>2
      <4> QED
        BY <1>3, <4>2, <4>3 DEF Listens
    <3> QED
      BY <3>1, <3>2, <3>3, <3>4 DEF Hear
  <2> QED
    BY <2>1, <2>2
<1>8. \/ pc'["motor"] = "send" /\ n + 1 < W(k)
      \/ pc'["motor"] = "take" /\ n + 1 = W(k)
  <2>1. pc'["motor"] = IF n + 1 = W(k) THEN "take" ELSE "send"
    BY <1>1, <1>2, <1>3 DEF SendByte, TypeOK, W
  <2>2. n + 1 # W(k) => n + 1 < W(k)
    BY <1>4
  <2> QED
    BY <2>1, <2>2
<1>9. /\ call'["motor"] = k /\ Announced(k)' /\ ~xSmphrUSART' /\ answer' = NoReply
      /\ result' = "none"
  BY <1>2 DEF SendByte, handler, Announced
<1> QED
  BY <1>3, <1>6, <1>7, <1>8, <1>9 DEF InCall, Asks

(* The last announced byte is the last byte of the answer. *)
LEMMA EarnedHandler ==
    ASSUME TypeOK, NEW k \in Kinds, InCall(k), USART6_IRQHandler
    PROVE  InCall(k)'
<1>1. /\ wire # Nothing /\ wire' = Nothing
      /\ pc' = pc /\ call' = call /\ i' = i /\ result' = result /\ heard' = heard
      /\ answer' = answer /\ applied' = applied /\ rx_length' = rx_length
  BY DEF USART6_IRQHandler, tasks, drive
<1>2. /\ call["motor"] = k /\ rx_length = R(k) + W(k) - 1
      /\ Asks(k) \/ Answers(k)
  BY <1>1 DEF InCall, Announced, AllIn, CopiesIt, Settled, Quiet
<1>3. /\ W(k) \in Nat /\ R(k) \in Nat /\ R(k) >= 1 /\ W(k) >= 1 /\ MAX_STRLEN \in Nat
      /\ rx_length \in Nat /\ rx_length <= MAX_STRLEN /\ cnt \in Nat
  BY Lengths DEF TypeOK
<1>4. /\ cnt < rx_length => cnt' = cnt + 1 /\ xSmphrUSART' = xSmphrUSART
      /\ ~(cnt < rx_length) => cnt' = 0 /\ xSmphrUSART' = TRUE
  <2>1. cnt < rx_length => cnt < MAX_STRLEN
    BY <1>3
  <2> QED
    BY <2>1 DEF USART6_IRQHandler
<1>5. call'["motor"] = k /\ Announced(k)'
  BY <1>1, <1>2 DEF Announced
<1>6. CASE Asks(k)
  <2>1. PICK n \in Nat : n = i["motor"] /\ n <= W(k)
    <3>1. i["motor"] \in Nat
      BY DEF TypeOK, Tasks
    <3>2. i["motor"] <= W(k)
      BY <1>3, <1>6, <3>1 DEF Asks
    <3> QED
      BY <3>1, <3>2
  <2>2. cnt + 1 <= n
    BY <1>1, <1>6, <2>1 DEF Asks, Within
  <2>3. cnt < rx_length
    BY <1>2, <1>3, <2>1, <2>2
  <2>4. Asks(k)'
    BY <1>1, <1>4, <1>6, <2>1, <2>2, <2>3 DEF Asks, Within, Listens
  <2> QED
    BY <1>5, <2>4 DEF InCall
<1>7. CASE Answers(k) /\ answer # NoReply
  <2>1. PICK a \in 1 .. R(k) : a = answer.next /\ cnt + 1 <= W(k) + a - 1 /\ answer.kind = k
    BY <1>1, <1>7 DEF Answers, Within
  <2>2. cnt < rx_length
    BY <1>2, <1>3, <2>1
  <2>3. Within(W(k) + a - 1)'
    BY <1>1, <1>4, <2>1, <2>2 DEF Within
  <2>4. Answers(k)'
    BY <1>1, <1>4, <1>7, <2>1, <2>2, <2>3 DEF Answers, Within
  <2> QED
    BY <1>5, <2>4 DEF InCall
<1>8. CASE Answers(k) /\ answer = NoReply
  <2>1. cnt + 1 <= W(k) + R(k)
    BY <1>1, <1>3, <1>8, RestFacts DEF Answers, Within
  <2>2. CASE cnt < rx_length
    <3>1. Within(W(k) + R(k))'
      BY <1>1, <1>4, <2>1, <2>2 DEF Within
    <3>2. Answers(k)'
      BY <1>1, <1>4, <1>8, <2>2, <3>1 DEF Answers, Within
    <3> QED
      BY <1>5, <3>2 DEF InCall
  <2>3. CASE ~(cnt < rx_length)
    BY <1>1, <1>4, <1>5, <1>8, <2>3 DEF InCall, AllIn, Answers, Quiet
  <2> QED
    BY <2>2, <2>3
<1> QED
  BY <1>2, <1>6, <1>7, <1>8

(* Only a request heard whole is carried out, and that is the call's own.  *)
LEMMA EarnedExecute ==
    ASSUME TypeOK, NEW k \in Kinds, InCall(k), Execute
    PROVE  InCall(k)'
<1>1. /\ heard.kind \in Kinds /\ heard.n \in Nat /\ heard.n = W(heard.kind) /\ heard.n >= 1
  BY Lengths DEF Execute, W, TypeOK
<1>2. Asks(k)
  BY <1>1, RestFacts DEF InCall, Answers, AllIn, CopiesIt, Settled, Quiet
<1>3. heard.kind = k /\ heard.fresh /\ heard.n <= i["motor"]
  BY <1>1, <1>2 DEF Asks, Listens, Execute
<1>4. PICK n \in Nat : n = i["motor"] /\ W(k) <= n
  <2>1. i["motor"] \in Nat
    BY DEF TypeOK, Tasks
  <2> QED
    BY <1>1, <1>3, <2>1
<1>5. pc["motor"] = "take" /\ n = W(k)
  BY <1>2, <1>4, Lengths DEF Asks
<1>6. /\ answer' = [kind |-> k, next |-> 1] /\ applied' /\ heard' = Silent
      /\ pc' = pc /\ call' = call /\ wire' = wire /\ cnt' = cnt /\ rx_length' = rx_length
      /\ xSmphrUSART' = xSmphrUSART
  BY <1>3 DEF Execute, tasks, handler
<1>7. W(k) + 1 - 1 = W(k) /\ 1 \in 1 .. R(k)
  BY Lengths
<1>8. Within(W(k) + 1 - 1)'
  BY <1>2, <1>4, <1>5, <1>6, <1>7 DEF Asks, Within
<1>9. answer'.kind = k /\ answer'.next = 1
  BY <1>6
<1>10. Answers(k)'
  BY <1>2, <1>5, <1>6, <1>7, <1>8, <1>9 DEF Answers, Asks, Within
<1> QED
  BY <1>6, <1>10 DEF InCall, Announced

LEMMA EarnedAnswer ==
    ASSUME TypeOK, NEW k \in Kinds, InCall(k), AnswerByte
    PROVE  InCall(k)'
<1>1. /\ answer.next # 0 /\ wire = Nothing /\ cnt \in Nat /\ W(k) \in Nat /\ R(k) \in Nat
  BY Lengths DEF AnswerByte, TypeOK
<1>2. PICK a \in 1 .. R(k) : /\ Answers(k) /\ a = answer.next /\ answer.kind = k
                             /\ cnt <= W(k) + a - 1
  BY <1>1, RestFacts DEF InCall, Asks, Answers, AllIn, CopiesIt, Settled, Quiet, Within
<1>3. wire' # Nothing
  <2>1. Damaged # Nothing /\ a \in Nat
    BY <1>1 DEF Damaged, Nothing
  <2> QED
    BY <1>2, <2>1, RestFacts DEF AnswerByte
<1>4. /\ pc' = pc /\ call' = call /\ cnt' = cnt /\ rx_length' = rx_length
      /\ xSmphrUSART' = xSmphrUSART /\ heard' = heard /\ applied' = applied
  BY DEF AnswerByte, tasks, handler
<1>5. CASE a = R(k)
  <2>1. answer' = NoReply
    BY <1>2, <1>5 DEF AnswerByte, R
  <2>2. cnt + 1 <= W(k) + R(k)
    BY <1>1, <1>2, <1>5
  <2>3. Answers(k)'
    BY <1>2, <1>3, <1>4, <2>1, <2>2 DEF Answers, Within
  <2> QED
    BY <1>4, <2>3 DEF InCall, Announced
<1>6. CASE a # R(k)
  <2>1. answer'.kind = k /\ answer'.next = a + 1
    BY <1>2, <1>6 DEF AnswerByte, R, TypeOK
  <2>2. cnt + 1 <= W(k) + (a + 1) - 1 /\ a + 1 \in 1 .. R(k)
    BY <1>1, <1>2, <1>6
  <2>3. Within(W(k) + answer.next - 1)'
    BY <1>3, <1>4, <2>1, <2>2 DEF Within
  <2>4. Answers(k)'
    BY <1>2, <1>4, <2>1, <2>2, <2>3 DEF Answers, Within
  <2> QED
    BY <1>4, <2>4 DEF InCall, Announced
<1> QED
  BY <1>5, <1>6

(* A fault takes bytes away; the call may never end then. *)
LEMMA EarnedFault ==
    ASSUME TypeOK, NEW k \in Kinds, InCall(k), Fault, ~noise'
    PROVE  InCall(k)'
<1>1. /\ pc' = pc /\ call' = call /\ i' = i /\ result' = result /\ cnt' = cnt
      /\ rx_length' = rx_length /\ xSmphrUSART' = xSmphrUSART
  BY DEF Fault, tasks, handler
<1>2. cnt \in Nat /\ \A n \in Nat : cnt + 1 <= n => cnt <= n
  BY DEF TypeOK
<1>3. CASE LoseByte \/ DamageByte
  <2>1. heard' = heard /\ answer' = answer /\ applied' = applied /\ wire # Nothing
    BY <1>3 DEF LoseByte, DamageByte, drive
  <2>2. ASSUME NEW n \in Nat, Within(n) PROVE Within(n)'
    <3>1. cnt + 1 <= n /\ cnt <= n
      BY <1>2, <2>1, <2>2 DEF Within
    <3> QED
      BY <1>1, <3>1 DEF Within
  <2>3. ~AllIn /\ ~CopiesIt
    BY <2>1 DEF AllIn, CopiesIt, Settled, Quiet
  <2>4. Asks(k) => Asks(k)'
    <3>1. i["motor"] \in Nat
      BY DEF TypeOK, Tasks
    <3>2. Within(i["motor"]) => Within(i["motor"])'
      BY <1>1, <2>2, <3>1 DEF Within
    <3> QED
      BY <1>1, <2>1, <3>2 DEF Asks, Listens
  <2>5. Answers(k) => Answers(k)'
    <3>1. /\ W(k) + R(k) \in Nat /\ answer.next \in Nat /\ W(k) + answer.next - 1 \in Nat
      <4>1. PICK a \in Nat : a = answer.next
        BY DEF TypeOK
      <4>2. W(k) \in Nat /\ W(k) >= 1 /\ R(k) \in Nat
        BY Lengths
      <4>3. W(k) + R(k) \in Nat /\ W(k) + a - 1 \in Nat
        BY <4>2
      <4> QED
        BY <4>1, <4>3
    <3>2. /\ Within(W(k) + R(k)) => Within(W(k) + R(k))'
          /\ Within(W(k) + answer.next - 1) => Within(W(k) + answer.next - 1)'
      BY <1>1, <2>1, <2>2, <3>1 DEF Within
    <3> QED
      BY <1>1, <2>1, <3>2 DEF Answers
  <2> QED
    BY <1>1, <2>3, <2>4, <2>5 DEF InCall, Announced
<1>4. CASE DeafDrive
  <2>1. heard' = Silent /\ wire' = wire /\ answer' = answer /\ applied' = applied
    BY <1>4 DEF DeafDrive
  <2> QED
    BY <1>1, <2>1, RestFacts DEF InCall, Announced, Asks, Listens, Answers, AllIn, CopiesIt,
       Settled, Quiet, Within
<1>5. CASE MuteDrive
  <2>1. /\ answer.next # 0 /\ answer' = NoReply /\ wire' = wire /\ heard' = heard
        /\ applied' = applied
    BY <1>5 DEF MuteDrive
  <2>2. PICK a \in 1 .. R(k) : Answers(k) /\ a = answer.next /\ Within(W(k) + a - 1)
    BY <2>1, RestFacts DEF InCall, Asks, Answers, AllIn, CopiesIt, Settled, Quiet
  <2>3. Within(W(k) + R(k))'
    <3>1. W(k) \in Nat /\ R(k) \in Nat
      BY Lengths
    <3> QED
      BY <1>1, <1>2, <2>1, <2>2, <3>1 DEF Within
  <2> QED
    BY <1>1, <2>1, <2>2, <2>3 DEF InCall, Announced, Answers, Within
<1>6. ~AddByte
  BY DEF AddByte
<1> QED
  BY <1>3, <1>4, <1>5, <1>6 DEF Fault

LEMMA EarnedStep == TypeOK /\ Earned /\ [Next]_vars => Earned'
<1> SUFFICES ASSUME TypeOK, Earned, [Next]_vars, Alone', ~noise'
             PROVE  AtRest' \/ \E k \in Kinds : InCall(k)'
  BY DEF Earned
<1>0. "motor" \in Tasks /\ "heartBeat" \in Tasks
  BY DEF Tasks
<1>1. Alone /\ ~noise
  <2>1. CASE \E k \in Kinds : MotorCall(k)
    BY <1>0, <2>1 DEF MotorCall, Announce, Alone, TypeOK
  <2>2. CASE HeartBeatCall
    BY <1>0, <2>2 DEF HeartBeatCall, Announce, Alone, TypeOK
  <2>3. CASE ResumeHeartBeat
    BY <1>0, <2>3 DEF ResumeHeartBeat, Alone, TypeOK
  <2>4. CASE \E t \in Tasks : TaskNext(t)
    BY <1>0, <2>4 DEF TaskNext, SendByte, Take, CopyByte, Alone, TypeOK, Tasks, history
  <2>5. CASE USART6_IRQHandler \/ DriveNext \/ UNCHANGED vars
    BY <2>5 DEF USART6_IRQHandler, DriveNext, Silence, Execute, AnswerByte, Alone, vars, tasks,
                history
  <2>6. CASE Fault
    BY <2>6 DEF Fault, LoseByte, DamageByte, AddByte, DeafDrive, MuteDrive, Alone, tasks
  <2> QED
    BY <2>1, <2>2, <2>3, <2>4, <2>5, <2>6 DEF Next
<1>2. ~HeartBeatCall /\ ~ResumeHeartBeat /\ ~TaskNext("heartBeat")
  <2>1. ~HeartBeatCall /\ ~TaskNext("heartBeat")
    BY <1>1 DEF Alone, HeartBeatCall, Announce, TaskNext, SendByte, Take, CopyByte
  <2>2. ~ResumeHeartBeat
    BY <1>0 DEF Alone, ResumeHeartBeat, TypeOK
  <2> QED
    BY <2>1, <2>2
<1>3. CASE AtRest
  <2>1. CASE \E k \in Kinds : MotorCall(k)
    BY <1>3, <2>1, EarnedCall
  <2>2. ~TaskNext("motor") /\ ~USART6_IRQHandler
    BY <1>3 DEF AtRest, Settled, Quiet, TaskNext, SendByte, Take, CopyByte, USART6_IRQHandler
  <2>3. ~DriveNext
    <3>1. WriteLen["RR"] # 0 /\ Silent.kind = "RR" /\ Silent.n = 0
      BY LengthAssumption DEF Kinds, Silent
    <3> QED
      BY <1>3, <3>1, RestFacts DEF DriveNext, Silence, Execute, AnswerByte, AtRest, Settled, Quiet
  <2>4. ~Fault
    BY <1>3, RestFacts DEF Fault, LoseByte, DamageByte, AddByte, DeafDrive, MuteDrive, AtRest,
       Settled, Quiet
  <2>5. UNCHANGED vars => AtRest'
    BY <1>3 DEF vars, tasks, handler, drive, AtRest, Settled, Quiet
  <2> QED
    BY <1>2, <2>1, <2>2, <2>3, <2>4, <2>5 DEF Next, Tasks
<1>4. ASSUME NEW k \in Kinds, InCall(k) PROVE AtRest' \/ InCall(k)'
  <2>1. \A c \in Kinds : ~MotorCall(c)
    BY <1>4 DEF MotorCall, Announce, InCall, Asks, Answers, AllIn, CopiesIt
  <2>2. CASE SendByte("motor")
    BY <1>4, <2>2, EarnedSend
  <2>3. CASE Take("motor")
    <3>1. AllIn /\ call["motor"] = k /\ Announced(k)
      BY <1>4, <2>3 DEF Take, InCall, Asks, Answers, CopiesIt, Settled
    <3>2. pc'["motor"] = "copy"
      BY <1>0, <2>3 DEF Take, TypeOK
    <3> QED
      BY <2>3, <3>1, <3>2 DEF Take, AllIn, InCall, CopiesIt, Settled, Quiet, Announced, drive
  <2>4. CASE CopyByte("motor")
    <3>1. CopiesIt /\ call["motor"] = k /\ Announced(k)
      BY <1>4, <2>4 DEF CopyByte, InCall, Asks, Answers, AllIn
    <3>2. pc'["motor"] \in {"copy", "idle"}
      BY <1>0, <2>4 DEF CopyByte, TypeOK
    <3> QED
      BY <2>4, <3>1, <3>2 DEF CopyByte, AtRest, InCall, CopiesIt, Settled, Quiet, Announced,
         drive, handler
  <2>5. CASE USART6_IRQHandler
    BY <1>4, <2>5, EarnedHandler
  <2>6. CASE Execute
    BY <1>4, <2>6, EarnedExecute
  <2>7. CASE AnswerByte
    BY <1>4, <2>7, EarnedAnswer
  <2>8. CASE Silence
    BY <1>4, <2>8, RestFacts DEF Silence, tasks, handler, InCall, Announced, Asks, Listens, Answers,
       AllIn, CopiesIt, Settled, Quiet, Within
  <2>9. CASE Fault
    BY <1>4, <2>9, EarnedFault
  <2>10. CASE UNCHANGED vars
    BY <1>4, <2>10 DEF vars, tasks, handler, drive, InCall, Announced, Asks, Listens, Answers,
       AllIn, CopiesIt, Settled, Quiet, Within
  <2> QED
    BY <1>2, <2>1, <2>2, <2>3, <2>4, <2>5, <2>6, <2>7, <2>8, <2>9, <2>10
       DEF Next, DriveNext, Tasks, TaskNext
<1> QED
  BY <1>1, <1>3, <1>4 DEF Earned

(* While the heartbeat sleeps, a call that returns success has been carried*)
(* out by the drive in that very call, whatever bytes were lost or damaged *)
(* and whatever request or answer came to nothing.                         *)
THEOREM ConfirmationIsEarned == SafeSpec => []ConfirmedMeansApplied
<1>1. Earned => ConfirmedMeansApplied
  BY DEF Earned, ConfirmedMeansApplied, AtRest, InCall, Asks, Answers, AllIn, CopiesIt
<1> QED
  BY <1>1, EarnedInit, EarnedStep, TypeCorrect, PTL DEF SafeSpec

-----------------------------------------------------------------------------
(* How long a call takes.  The steps that are left of the motor task's     *)
(* call: each byte of request and answer is sent and received, the drive   *)
(* executes, the task takes the semaphore and copies the answer.           *)
Pending == IF wire = Nothing THEN 0 ELSE 1

LeftToSend(k) == IF pc["motor"] = "send" THEN 2 * (W(k) - i["motor"]) ELSE 0

LeftToAnswer(k) ==
    IF answer.next # 0 THEN 2 * (R(k) + 1 - answer.next)
    ELSE IF pc["motor"] = "send" \/ heard # Silent THEN 2 * R(k) + 1
    ELSE 0

LeftOf(k) ==
    IF pc["motor"] = "idle" THEN 0
    ELSE IF pc["motor"] = "copy" THEN R(k) - i["motor"]
    ELSE IF xSmphrUSART THEN R(k) + 1
    ELSE LeftToSend(k) + LeftToAnswer(k) + Pending + R(k) + 1

StepsLeft == LeftOf(call["motor"])

(* While the heartbeat sleeps and nothing goes wrong, a call is a count    *)
(* down: it begins with 2 W + 3 R + 2 steps to go, W and R the lengths of  *)
(* its frames, and every step of the task, the handler or the drive is one *)
(* of them (write_read_modbus, USART6_IRQHandler).                         *)
CallAdvances ==
    [][Alone' /\ faults' = 0 =>
          \/ \E k \in Kinds : MotorCall(k) /\ StepsLeft' = 2 * W(k) + 3 * R(k) + 2
          \/ pc["motor"] # "idle" /\ StepsLeft' = StepsLeft - 1]_vars

(* ... and there is always a next one: the task sends or copies, a byte is *)
(* on the line, the drive has a whole request or an answer under way, or   *)
(* the semaphore is there to be taken.                                     *)
CallGoesOn ==
    Alone /\ faults = 0 /\ pc["motor"] # "idle" =>
        \/ MaySend("motor") \/ MayTake("motor") \/ pc["motor"] = "copy"
        \/ wire # Nothing
        \/ answer.next # 0 \/ HeardWhole

LEMMA CallStarts ==
    ASSUME TypeOK, Alone, faults = 0, Resting, NEW k \in Kinds, MotorCall(k)
    PROVE  StepsLeft' = 2 * W(k) + 3 * R(k) + 2
<1>1. call'["motor"] = k /\ Sending(k)'
  BY LoneCall
<1>2. i'["motor"] = 0
  BY DEF MotorCall, Announce, TypeOK, Tasks
<1>3. wire' = Nothing
  BY DEF MotorCall, Resting, Quiet
<1>4. /\ LeftToSend(k)' = 2 * (W(k) - 0) /\ LeftToAnswer(k)' = 2 * R(k) + 1 /\ Pending' = 0
  <2>1. pc'["motor"] = "send" /\ answer'.next = 0
    BY <1>1, RestFacts DEF Sending
  <2> QED
    BY <1>2, <1>3, <2>1 DEF LeftToSend, LeftToAnswer, Pending, W, R
<1>5. StepsLeft' = LeftToSend(k)' + LeftToAnswer(k)' + Pending' + R(k) + 1
  BY <1>1 DEF StepsLeft, LeftOf, Sending, R
<1> QED
  BY <1>4, <1>5, Lengths

LEMMA SendAdvances ==
    ASSUME TypeOK, NEW k \in Kinds, k = call["motor"], Sending(k), SendByte("motor")
    PROVE  StepsLeft' = StepsLeft - 1
<1>1. Sending(k)' \/ Requested(k)'
  BY LoneSend
<1>2. call' = call /\ call'["motor"] = k
  BY DEF SendByte
<1>3. PICK n \in Nat : n = i["motor"] /\ i'["motor"] = n + 1 /\ n < W(k)
  <2>1. PICK n \in Nat : n = i["motor"]
    BY DEF TypeOK, Tasks
  <2>2. i' = [i EXCEPT !["motor"] = n + 1] /\ n < W(k)
    BY <2>1 DEF SendByte, Sending
  <2>3. i'["motor"] = n + 1
    BY <2>2 DEF TypeOK, Tasks
  <2> QED
    BY <2>1, <2>2, <2>3
<1>4. wire = Nothing /\ wire' # Nothing
  <2>1. wire = Nothing
    BY <1>3, RestFacts DEF Sending, Echoed, SendByte
  <2>2. wire' = Req(k, n + 1) /\ n + 1 \in Nat
    BY <1>3, <2>1 DEF SendByte, Sending
  <2> QED
    BY <2>1, <2>2, RestFacts
<1>5. StepsLeft = 2 * (W(k) - n) + (2 * R(k) + 1) + 0 + R(k) + 1
  BY <1>3, <1>4, RestFacts DEF StepsLeft, LeftOf, LeftToSend, LeftToAnswer, Pending, Sending
<1>6. CASE Sending(k)'
  <2>1. StepsLeft' = 2 * (W(k) - (n + 1)) + (2 * R(k) + 1) + 1 + R(k) + 1
    BY <1>2, <1>3, <1>4, <1>6, RestFacts
       DEF StepsLeft, LeftOf, LeftToSend, LeftToAnswer, Pending, Sending, W, R
  <2> QED
    BY <1>3, <1>5, <2>1, Lengths
<1>7. CASE Requested(k)' /\ pc'["motor"] # "send"
  <2>1. heard' # Silent
    BY <1>7, RestFacts, Lengths DEF Requested, Hears, W
  <2>2. StepsLeft' = 0 + (2 * R(k) + 1) + 1 + R(k) + 1
    BY <1>2, <1>4, <1>7, <2>1, RestFacts
       DEF StepsLeft, LeftOf, LeftToSend, LeftToAnswer, Pending, Requested, W, R
  <2>3. n + 1 = W(k)
    BY <1>3, <1>7 DEF SendByte, TypeOK, Tasks, Sending, W
  <2> QED
    BY <1>3, <1>5, <2>2, <2>3, Lengths
<1> QED
  BY <1>1, <1>6, <1>7 DEF Requested

LEMMA TakeAdvances ==
    ASSUME TypeOK, NEW k \in Kinds, k = call["motor"], Stage(k), Take("motor")
    PROVE  StepsLeft' = StepsLeft - 1
<1>1. call'["motor"] = k /\ pc'["motor"] = "copy" /\ i'["motor"] = 0
  BY DEF Take, TypeOK, Tasks
<1>2. StepsLeft' = R(k) - 0
  BY <1>1 DEF StepsLeft, LeftOf, R
<1>3. StepsLeft = R(k) + 1
  BY DEF StepsLeft, LeftOf, Take
<1> QED
  BY <1>2, <1>3, Lengths

LEMMA CopyAdvances ==
    ASSUME TypeOK, NEW k \in Kinds, k = call["motor"], Stage(k), CopyByte("motor")
    PROVE  StepsLeft' = StepsLeft - 1
<1>1. PICK n \in Nat : n = i["motor"] /\ i'["motor"] = n + 1 /\ call'["motor"] = k
  BY DEF TypeOK, Tasks, CopyByte
<1>2. StepsLeft = R(k) - n
  BY <1>1 DEF StepsLeft, LeftOf, CopyByte
<1>3. CASE n + 1 = R(k)
  <2>1. pc'["motor"] = "idle"
    BY <1>1, <1>3 DEF CopyByte, R, TypeOK, Tasks
  <2>2. StepsLeft' = 0
    BY <2>1 DEF StepsLeft, LeftOf
  <2> QED
    BY <1>1, <1>2, <1>3, <2>2, Lengths
<1>4. CASE n + 1 # R(k)
  <2>1. pc'["motor"] = "copy"
    BY <1>1, <1>4 DEF CopyByte, R, TypeOK, Tasks
  <2>2. StepsLeft' = R(k) - (n + 1)
    BY <1>1, <2>1 DEF StepsLeft, LeftOf, R
  <2> QED
    BY <1>1, <1>2, <2>2, Lengths
<1> QED
  BY <1>3, <1>4

LEMMA HandlerAdvances ==
    ASSUME TypeOK, NEW k \in Kinds, k = call["motor"], Announced(k), Stage(k),
           USART6_IRQHandler
    PROVE  StepsLeft' = StepsLeft - 1
<1>1. /\ answer' = answer /\ heard' = heard /\ pc' = pc /\ i' = i /\ call' = call
      /\ wire # Nothing /\ wire' = Nothing /\ Pending = 1 /\ Pending' = 0
  BY DEF USART6_IRQHandler, drive, tasks, Pending
<1>2. LeftToSend(k)' = LeftToSend(k) /\ LeftToAnswer(k)' = LeftToAnswer(k)
  BY <1>1 DEF LeftToSend, LeftToAnswer, W, R
<1>3. ~xSmphrUSART /\ pc["motor"] \in {"send", "take"}
  BY <1>1 DEF Stage, Sending, Requested, Answering, Complete, Copying, Quiet
<1>4. StepsLeft = LeftToSend(k) + LeftToAnswer(k) + 1 + R(k) + 1
  BY <1>1, <1>3 DEF StepsLeft, LeftOf
<1>5. LeftToSend(k) \in Nat /\ LeftToAnswer(k) \in Nat
  <2>1. LeftToSend(k) \in Nat
    <3>1. PICK n \in Nat : n = i["motor"]
      BY DEF TypeOK, Tasks
    <3>2. pc["motor"] = "send" => n < W(k)
      BY <3>1 DEF Stage, Sending, Requested, Answering, Complete, Copying
    <3> QED
      BY <3>1, <3>2, Lengths DEF LeftToSend
  <2>2. CASE Answering(k)
    <3>1. PICK j \in 0 .. R(k) : AnsweringAt(k, j)
      BY <2>2 DEF Answering
    <3>2. answer.next = 0 \/ (j # R(k) /\ answer.next = j + 1)
      BY <3>1, RestFacts DEF AnsweringAt
    <3>3. \/ LeftToAnswer(k) = 0 \/ LeftToAnswer(k) = 2 * R(k) + 1
          \/ j # R(k) /\ LeftToAnswer(k) = 2 * (R(k) + 1 - (j + 1))
      BY <3>2, Zenon DEF LeftToAnswer
    <3> QED
      BY <2>1, <3>3, Lengths
  <2>3. CASE answer = NoReply
    <3>1. answer.next = 0
      BY <2>3, RestFacts
    <3>2. LeftToAnswer(k) = 0 \/ LeftToAnswer(k) = 2 * R(k) + 1
      BY <3>1, Zenon DEF LeftToAnswer
    <3> QED
      BY <2>1, <3>2, Lengths
  <2> QED
    BY <2>1, <2>2, <2>3 DEF Stage, Sending, Requested, Complete, Copying, Quiet
<1>6. CASE ~xSmphrUSART'
  <2>1. StepsLeft' = LeftToSend(k) + LeftToAnswer(k) + 0 + R(k) + 1
    BY <1>1, <1>2, <1>3, <1>6 DEF StepsLeft, LeftOf, R
  <2> QED
    BY <1>4, <1>5, <2>1, Lengths
<1>7. CASE xSmphrUSART'
  <2>1. StepsLeft' = R(k) + 1
    BY <1>1, <1>3, <1>7 DEF StepsLeft, LeftOf, R
  <2>2. Stage(k)'
    BY LoneHandler
  <2>3. Complete(k)'
    BY <1>7, <2>2 DEF Stage, Sending, Requested, Answering, Copying
  <2>4. answer = NoReply /\ heard = Silent /\ pc["motor"] = "take"
    BY <1>1, <2>3 DEF Complete, Quiet
  <2>5. LeftToSend(k) = 0 /\ LeftToAnswer(k) = 0
    BY <2>4, RestFacts DEF LeftToSend, LeftToAnswer
  <2> QED
    BY <1>4, <2>1, <2>5, Lengths
<1> QED
  BY <1>6, <1>7

LEMMA ExecuteAdvances ==
    ASSUME TypeOK, NEW k \in Kinds, k = call["motor"], Stage(k), Execute
    PROVE  StepsLeft' = StepsLeft - 1
<1>1. heard # Silent /\ wire = Nothing
  <2>1. 0 # WriteLen["RR"] /\ Silent.kind = "RR" /\ Silent.n = 0
    BY Lengths, LengthAssumption DEF Kinds, W, Silent
  <2> QED
    BY <2>1 DEF Execute
<1>2. Answering(k)'
  BY LoneExecute
<1>3. /\ pc' = pc /\ call' = call /\ xSmphrUSART' = xSmphrUSART
      /\ wire' = Nothing /\ answer'.next = 1
  BY <1>1 DEF Execute, tasks, handler
<1>4. pc["motor"] = "take" /\ ~xSmphrUSART
  BY <1>2, <1>3 DEF Answering
<1>5. answer = NoReply
  BY <1>1 DEF Stage, Sending, Requested, Answering, Complete, Copying, Quiet
<1>6. StepsLeft = 0 + (2 * R(k) + 1) + 0 + R(k) + 1
  BY <1>1, <1>4, <1>5, RestFacts DEF StepsLeft, LeftOf, LeftToSend, LeftToAnswer, Pending
<1>7. StepsLeft' = 0 + 2 * (R(k) + 1 - 1) + 0 + R(k) + 1
  BY <1>3, <1>4 DEF StepsLeft, LeftOf, LeftToSend, LeftToAnswer, Pending, R, W
<1> QED
  BY <1>6, <1>7, Lengths

LEMMA AnswerAdvances ==
    ASSUME TypeOK, NEW k \in Kinds, k = call["motor"], Stage(k), AnswerByte
    PROVE  StepsLeft' = StepsLeft - 1
<1>1. answer # NoReply
  BY RestFacts DEF AnswerByte
<1>2. Answering(k)
  BY <1>1 DEF Stage, Sending, Requested, Complete, Copying, Quiet
<1>3. PICK j \in 0 .. R(k) : AnsweringAt(k, j)
  BY <1>2 DEF Answering
<1>4. /\ j # R(k) /\ answer = [kind |-> k, next |-> j + 1] /\ wire = Nothing
      /\ answer.next = j + 1 /\ j + 1 # 0
  BY <1>1, <1>3 DEF AnsweringAt, AnswerByte
<1>5. /\ pc' = pc /\ call' = call /\ xSmphrUSART' = xSmphrUSART /\ heard' = heard
      /\ wire' = Ans(k, j + 1)
  BY <1>2, <1>4 DEF AnswerByte, tasks, handler, Answering
<1>6. pc["motor"] = "take" /\ ~xSmphrUSART /\ heard = Silent /\ wire' # Nothing
  BY <1>2, <1>5, RestFacts DEF Answering
<1>7. StepsLeft = 0 + 2 * (R(k) + 1 - (j + 1)) + 0 + R(k) + 1
  BY <1>4, <1>6 DEF StepsLeft, LeftOf, LeftToSend, LeftToAnswer, Pending
<1>8. CASE j + 1 = R(k)
  <2>1. answer'.next = 0
    BY <1>4, <1>8, RestFacts DEF AnswerByte, R
  <2>2. StepsLeft' = 0 + 0 + 1 + R(k) + 1
    BY <1>5, <1>6, <2>1 DEF StepsLeft, LeftOf, LeftToSend, LeftToAnswer, Pending, R, W
  <2> QED
    BY <1>7, <1>8, <2>2, Lengths
<1>9. CASE j + 1 # R(k)
  <2>1. answer'.next = (j + 1) + 1 /\ (j + 1) + 1 # 0
    BY <1>4, <1>9 DEF AnswerByte, R
  <2>2. StepsLeft' = 0 + 2 * (R(k) + 1 - ((j + 1) + 1)) + 1 + R(k) + 1
    BY <1>5, <1>6, <2>1 DEF StepsLeft, LeftOf, LeftToSend, LeftToAnswer, Pending, R, W
  <2> QED
    BY <1>7, <2>2, Lengths
<1> QED
  BY <1>8, <1>9

(* One step of a lone call, or between two of them. *)
LEMMA OneNearer ==
    ASSUME TypeOK, Lone, [Next]_vars, Alone', faults' = 0
    PROVE  \/ \E k \in Kinds : MotorCall(k) /\ StepsLeft' = 2 * W(k) + 3 * R(k) + 2
           \/ pc["motor"] # "idle" /\ StepsLeft' = StepsLeft - 1
           \/ UNCHANGED vars
<1>1. Alone /\ faults = 0
  BY StaysLone
<1>2. CASE Resting
  <2>1. ASSUME NEW k \in Kinds, MotorCall(k) PROVE StepsLeft' = 2 * W(k) + 3 * R(k) + 2
    BY <1>1, <1>2, <2>1, CallStarts
  <2>2. ASSUME NEW t \in Tasks PROVE ~TaskNext(t)
    BY <1>1, <1>2 DEF TaskNext, SendByte, Take, CopyByte, Alone, Resting, Tasks
  <2>3. ~USART6_IRQHandler
    BY <1>2 DEF USART6_IRQHandler, Resting, Quiet
  <2>4. ~DriveNext
    <3>1. WriteLen["RR"] # 0 /\ Silent.kind = "RR" /\ Silent.n = 0
      BY LengthAssumption DEF Kinds, Silent
    <3> QED
      BY <1>2, <3>1, RestFacts DEF DriveNext, Silence, Execute, AnswerByte, Resting, Quiet
  <2> QED
    BY <2>1, <2>2, <2>3, <2>4, LoneNext
<1>3. ASSUME NEW k \in Kinds, Busy(k)
      PROVE  (pc["motor"] # "idle" /\ StepsLeft' = StepsLeft - 1) \/ UNCHANGED vars
  <2>1. call["motor"] = k /\ Announced(k) /\ Stage(k)
    BY <1>3 DEF Busy
  <2>2. pc["motor"] # "idle"
    BY <2>1 DEF Stage, Sending, Requested, Answering, Complete, Copying
  <2>3. \A c \in Kinds : ~MotorCall(c)
    BY <2>2 DEF MotorCall, Announce
  <2>4. ASSUME NEW t \in Tasks, TaskNext(t) PROVE StepsLeft' = StepsLeft - 1
    <3>1. t = "motor"
      BY <1>1, <2>4 DEF TaskNext, SendByte, Take, CopyByte, Alone, Tasks
    <3>2. SendByte("motor") => Sending(k)
      BY <2>1 DEF SendByte, Stage, Requested, Answering, Complete, Copying
    <3> QED
      BY <2>1, <2>4, <3>1, <3>2, SendAdvances, TakeAdvances, CopyAdvances DEF TaskNext
  <2>5. USART6_IRQHandler => StepsLeft' = StepsLeft - 1
    BY <2>1, HandlerAdvances
  <2>6. DriveNext => StepsLeft' = StepsLeft - 1
    <3>1. ~Silence
      BY <2>1, RestFacts DEF Silence, Stage, Sending, Requested, Answering, Complete,
         Copying, Quiet, Hears
    <3> QED
      BY <2>1, <3>1, ExecuteAdvances, AnswerAdvances DEF DriveNext
  <2> QED
    BY <2>2, <2>3, <2>4, <2>5, <2>6, LoneNext
<1> QED
  BY <1>1, <1>2, <1>3 DEF Lone

(* While the heartbeat sleeps and nothing goes wrong, every step brings    *)
(* the end of the call one step nearer, for frames of any length.          *)
THEOREM LoneCallAdvances == SafeSpec => CallAdvances
  BY OneNearer, LoneInit, LoneStep, TypeCorrect, PTL DEF SafeSpec, CallAdvances

(* A lone call always has a next step. *)
LEMMA OneMore == ASSUME TypeOK, Lone PROVE CallGoesOn
<1>1. ASSUME NEW k \in Kinds, Requested(k), wire = Nothing
      PROVE  HeardWhole
  BY <1>1, Lengths DEF Requested, Hears, W, HeardWhole
<1>2. ASSUME NEW k \in Kinds, Answering(k), wire = Nothing
      PROVE  answer.next # 0
  <2>1. PICK j \in 0 .. R(k) : AnsweringAt(k, j)
    BY <1>2 DEF Answering
  <2>2. j # R(k) /\ answer.next = j + 1
    BY <1>2, <2>1, RestFacts DEF AnsweringAt
  <2> QED
    BY <1>1, <2>2, Lengths
<1> QED
  BY <1>1, <1>2 DEF CallGoesOn, MaySend, MayTake, Lone, Resting, Busy, Stage, Sending, Complete, Copying

(* ... and none leaves it stuck: no lone call waits for a byte or for the  *)
(* semaphore with nothing on its way.  With the fairness of the handler,   *)
(* the drive and the task this is why a call ends.                         *)
THEOREM LoneCallGoesOn == SafeSpec => []CallGoesOn
  BY OneMore, LoneInit, LoneStep, TypeCorrect, PTL DEF SafeSpec

-----------------------------------------------------------------------------
(* A lone call ends.  AtMost(n): it has ended, or has at most n steps to   *)
(* go.  That the one leads to the other is put together from single steps  *)
(* in powers of eight: an induction over n is out of the provers' reach.   *)
Ended == pc["motor"] = "idle" \/ faults > 0 \/ ~Alone

AtMost(n) == Ended \/ StepsLeft <= n

Exactly(n) == AtMost(n + 1) /\ ~AtMost(n)

Nears(n, d) == AtMost(n + d) ~> AtMost(n)

(* A call that has not ended has at least one step to go, and never more   *)
(* than it begins with.                                                    *)
LEMMA StepsToGo ==
    ASSUME TypeOK, Lone, ~Ended
    PROVE  /\ StepsLeft \in Nat /\ StepsLeft >= 1
           /\ \E k \in Kinds : StepsLeft <= 2 * W(k) + 3 * R(k) + 2
<1>1. faults = 0
  BY DEF Ended, TypeOK
<1>2. PICK k \in Kinds : Busy(k)
  BY <1>1 DEF Ended, Lone, Resting
<1>3. call["motor"] = k /\ Stage(k)
  BY <1>2 DEF Busy
<1>4. i["motor"] \in Nat
  BY DEF TypeOK, Tasks
<1>5. SUFFICES StepsLeft \in 1 .. 2 * W(k) + 3 * R(k) + 2
  BY Lengths
<1>6. CASE Sending(k)
  <2>1. LeftToSend(k) = 2 * (W(k) - i["motor"]) /\ LeftToAnswer(k) = 2 * R(k) + 1
    BY <1>6, RestFacts DEF Sending, LeftToSend, LeftToAnswer
  <2>2. Pending \in 0 .. 1 /\ (i["motor"] = 0 => Pending = 0)
    BY <1>6 DEF Sending, Echoed, Pending
  <2>3. StepsLeft = 2 * (W(k) - i["motor"]) + (2 * R(k) + 1) + Pending + R(k) + 1
    BY <1>3, <1>6, <2>1 DEF Sending, StepsLeft, LeftOf
  <2>4. i["motor"] < W(k)
    BY <1>6 DEF Sending
  <2> HIDE DEF Pending, StepsLeft
  <2> QED
    BY <1>4, <2>2, <2>3, <2>4, Lengths
<1>7. CASE Requested(k)
  <2>1. heard # Silent
    BY <1>7, RestFacts, Lengths DEF Requested, Hears
  <2>2. LeftToSend(k) = 0 /\ LeftToAnswer(k) = 2 * R(k) + 1
    BY <1>7, <2>1, RestFacts DEF Requested, LeftToSend, LeftToAnswer
  <2>3. Pending \in 0 .. 1
    BY DEF Pending
  <2>4. StepsLeft = 0 + (2 * R(k) + 1) + Pending + R(k) + 1
    BY <1>3, <1>7, <2>2 DEF Requested, StepsLeft, LeftOf
  <2> QED
    BY <2>3, <2>4, Lengths
<1>8. CASE Answering(k)
  <2>1. PICK j \in 0 .. R(k) : AnsweringAt(k, j)
    BY <1>8 DEF Answering
  <2>2. LeftToSend(k) = 0 /\ Pending \in 0 .. 1
    BY <1>8 DEF Answering, LeftToSend, Pending
  <2>3. LeftToAnswer(k) = IF j = R(k) THEN 0 ELSE 2 * (R(k) + 1 - (j + 1))
    BY <1>8, <2>1, RestFacts DEF Answering, AnsweringAt, LeftToAnswer
  <2>4. StepsLeft = 0 + LeftToAnswer(k) + Pending + R(k) + 1
    BY <1>3, <1>8, <2>2 DEF Answering, StepsLeft, LeftOf
  <2> QED
    BY <2>2, <2>3, <2>4, Lengths
<1>9. CASE Complete(k)
  <2>1. StepsLeft = R(k) + 1
    BY <1>3, <1>9 DEF Complete, StepsLeft, LeftOf
  <2> QED
    BY <2>1, Lengths
<1>10. CASE Copying(k)
  <2>1. StepsLeft = R(k) - i["motor"]
    BY <1>3, <1>10 DEF Copying, StepsLeft, LeftOf
  <2> QED
    BY <1>4, <1>10, <2>1, Lengths DEF Copying
<1> QED
  BY <1>3, <1>6, <1>7, <1>8, <1>9, <1>10 DEF Stage

(* Every step of a lone call brings its end nearer, whoever takes it. *)
LEMMA StepNears ==
    ASSUME NEW n \in Nat, TypeOK, Lone, Exactly(n), [Next]_vars
    PROVE  UNCHANGED vars \/ AtMost(n)'
<1>1. SUFFICES ASSUME ~Ended', ~UNCHANGED vars PROVE (StepsLeft <= n)'
  BY DEF AtMost
<1>2. ~Ended /\ StepsLeft <= n + 1
  BY DEF Exactly, AtMost
<1>3. StepsLeft \in Nat
  BY <1>2, StepsToGo
<1>4. Alone' /\ faults' = 0
  BY <1>1, TypeStep DEF Ended, TypeOK
<1>5. \A k \in Kinds : ~MotorCall(k)
  BY <1>2 DEF MotorCall, Announce, Ended
<1>6. StepsLeft' = StepsLeft - 1
  BY <1>1, <1>4, <1>5, OneNearer
<1> QED
  BY <1>2, <1>3, <1>6

(* The fairness of the motor task is one of Fairness. *)
LEMMA MotorIsFair == Spec => WF_vars(TaskNext("motor")) /\ LineFairness
<1>1. "motor" \in Tasks
  BY DEF Tasks
<1>2. Fairness => TaskFairness("motor") /\ LineFairness
  BY <1>1 DEF Fairness
<1> QED
  BY <1>2, PTL DEF Spec, TaskFairness

(* One step, by whoever can take it.  What it waits for stays until then.  *)
LEMMA OneStep == ASSUME NEW n \in Nat PROVE Spec /\ []LineGoesOn => Nears(n, 1)
<1> DEFINE Inv   == TypeOK /\ Lone
           MyTurn == MaySend("motor") \/ MayTake("motor") \/ pc["motor"] = "copy"
           ByTask == Exactly(n) /\ MyTurn
           ByHand == Exactly(n) /\ wire # Nothing
           ByDrive == Exactly(n) /\ wire = Nothing /\ (answer.next # 0 \/ HeardWhole)
<1>1. Spec => []Inv
  BY LoneInit, LoneStep, TypeCorrect, PTL DEF Spec, SafeSpec
<1>2. Spec /\ []LineGoesOn => (ByTask ~> AtMost(n))
  <2>1. Inv /\ ByTask /\ [Next]_vars => ByTask' \/ AtMost(n)'
    BY StepNears DEF Exactly, AtMost, Ended, Alone, MaySend, MayTake, vars, tasks, handler, drive, history,
       StepsLeft, LeftOf, LeftToSend, LeftToAnswer, Pending
  <2>2. Inv /\ ByTask /\ <<Next /\ TaskNext("motor")>>_vars => AtMost(n)'
    BY StepNears
  <2>3. LineGoesOn /\ ByTask => ENABLED <<TaskNext("motor")>>_vars
    <3>1. "motor" \in Tasks
      BY DEF Tasks
    <3>2. LineGoesOn => TaskGoesOn("motor")
      BY <3>1 DEF LineGoesOn
    <3> QED
      BY <3>2 DEF TaskGoesOn
  <2> QED
    BY <1>1, <2>1, <2>2, <2>3, MotorIsFair, PTL DEF Spec
<1>3. Spec /\ []LineGoesOn => (ByHand ~> AtMost(n))
  <2>1. Inv /\ ByHand /\ [Next]_vars => ByHand' \/ AtMost(n)'
    BY StepNears DEF Exactly, AtMost, Ended, Alone, vars, tasks, handler, drive, history,
       StepsLeft, LeftOf, LeftToSend, LeftToAnswer, Pending
  <2>2. Inv /\ ByHand /\ <<Next /\ USART6_IRQHandler>>_vars => AtMost(n)'
    BY StepNears
  <2>3. LineGoesOn /\ ByHand => ENABLED <<USART6_IRQHandler>>_vars
    BY DEF LineGoesOn
  <2> QED
    BY <1>1, <2>1, <2>2, <2>3, PTL DEF Spec, Fairness, LineFairness
<1>4. Spec /\ []LineGoesOn => (ByDrive ~> AtMost(n))
  <2>1. Inv /\ ByDrive /\ [Next]_vars => ByDrive' \/ AtMost(n)'
    BY StepNears DEF Exactly, AtMost, Ended, Alone, HeardWhole, vars, tasks, handler, drive, history,
       StepsLeft, LeftOf, LeftToSend, LeftToAnswer, Pending
  <2>2. Inv /\ ByDrive /\ <<Next /\ DriveNext>>_vars => AtMost(n)'
    BY StepNears
  <2>3. LineGoesOn /\ ByDrive => ENABLED <<DriveNext>>_vars
    BY DEF LineGoesOn
  <2> QED
    BY <1>1, <2>1, <2>2, <2>3, PTL DEF Spec, Fairness, LineFairness
<1>5. Inv /\ AtMost(n + 1) => AtMost(n) \/ ByTask \/ ByHand \/ ByDrive
  <2>1. ASSUME Inv, Exactly(n) PROVE ByTask \/ ByHand \/ ByDrive
    <3>1. Alone /\ faults = 0 /\ pc["motor"] # "idle"
      BY <2>1 DEF Exactly, AtMost, Ended, TypeOK
    <3> QED
      BY <2>1, <3>1, OneMore DEF CallGoesOn
  <2> QED
    BY <2>1 DEF Exactly
<1> HIDE DEF ByTask, ByHand, ByDrive
<1> QED
  BY <1>1, <1>2, <1>3, <1>4, <1>5, PTL DEF Nears

(* What brings any call d steps nearer brings it twice as many nearer. *)
AllNear(d) == \A n \in Nat : Nears(n, d)

LEMMA Double == ASSUME NEW d \in Nat PROVE AllNear(d) => AllNear(2 * d)
<1>1. ASSUME NEW n \in Nat PROVE AllNear(d) => Nears(n, 2 * d)
  <2>1. AllNear(d) => Nears(n, d)
    BY DEF AllNear
  <2>2. AllNear(d) => Nears(n + d, d)
    <3>1. n + d \in Nat
      OBVIOUS
    <3> QED
      BY <3>1 DEF AllNear
  <2>3. AtMost(n + 2 * d) => AtMost((n + d) + d)
    BY DEF AtMost
  <2> QED
    BY <2>1, <2>2, <2>3, PTL DEF Nears
<1> QED
  BY <1>1 DEF AllNear

LEMMA ManySteps == Spec /\ []LineGoesOn => AllNear(4096)
<1>1. Spec /\ []LineGoesOn => AllNear(1)
  BY OneStep DEF AllNear
<1>2. \A d, e \in Nat : e = 2 * d => (AllNear(d) => AllNear(e))
  <2>1. ASSUME NEW d \in Nat, NEW e \in Nat, e = 2 * d PROVE AllNear(d) => AllNear(e)
    BY <2>1, Double
  <2> QED
    BY <2>1
<1>3. AllNear(1) => AllNear(8)
  <2>1. AllNear(1) => AllNear(2)
    BY <1>2
  <2>2. AllNear(2) => AllNear(4)
    BY <1>2
  <2>3. AllNear(4) => AllNear(8)
    BY <1>2
  <2> QED
    BY <2>1, <2>2, <2>3
<1>4. AllNear(8) => AllNear(64)
  <2>1. AllNear(8) => AllNear(16)
    BY <1>2
  <2>2. AllNear(16) => AllNear(32)
    BY <1>2
  <2>3. AllNear(32) => AllNear(64)
    BY <1>2
  <2> QED
    BY <2>1, <2>2, <2>3
<1>5. AllNear(64) => AllNear(512)
  <2>1. AllNear(64) => AllNear(128)
    BY <1>2
  <2>2. AllNear(128) => AllNear(256)
    BY <1>2
  <2>3. AllNear(256) => AllNear(512)
    BY <1>2
  <2> QED
    BY <2>1, <2>2, <2>3
<1>6. AllNear(512) => AllNear(4096)
  <2>1. AllNear(512) => AllNear(1024)
    BY <1>2
  <2>2. AllNear(1024) => AllNear(2048)
    BY <1>2
  <2>3. AllNear(2048) => AllNear(4096)
    BY <1>2
  <2> QED
    BY <2>1, <2>2, <2>3
<1> QED
  BY <1>1, <1>3, <1>4, <1>5, <1>6

(* A call of a lone task on a clean line ends, given that the step whose   *)
(* turn it is is possible (LineGoesOn, which the run checks), for frames of*)
(* any length that received_string can hold (MAX_STRLEN is 512 in          *)
(* modbus_mk.h).                                                           *)
THEOREM CallEndsIfAble ==
    ASSUME MAX_STRLEN <= 1000
    PROVE  Spec /\ []LineGoesOn => CallEnds
<1> DEFINE Inv == TypeOK /\ Lone
<1>1. Spec => []Inv
  BY LoneInit, LoneStep, TypeCorrect, PTL DEF Spec, SafeSpec
<1>2. Inv => AtMost(0 + 4096)
  <2>1. SUFFICES ASSUME Inv, ~Ended PROVE StepsLeft <= 4096
    BY DEF AtMost
  <2>2. PICK k \in Kinds : StepsLeft \in Nat /\ StepsLeft <= 2 * W(k) + 3 * R(k) + 2
    BY <2>1, StepsToGo
  <2> QED
    BY <2>2, Lengths
<1>3. Inv /\ AtMost(0) => pc["motor"] = "idle" \/ faults > 0 \/ ~Alone
  BY StepsToGo DEF AtMost, Ended
<1>4. Spec /\ []LineGoesOn => Nears(0, 4096)
  BY ManySteps DEF AllNear
<1> QED
  BY <1>1, <1>2, <1>3, <1>4, PTL DEF Nears, CallEnds

=============================================================================
