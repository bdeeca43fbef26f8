------------------------ MODULE MotorTelegram_proofs ------------------------
(***************************************************************************)
(* Machine-checked facts about MotorTelegram, for every set of client      *)
(* arguments, every set of register values and every queue length.         *)
(*                                                                         *)
(* The argument: types are kept (the only arithmetic is the scaling by     *)
(* 100, which the range check keeps inside 16 bits), and OneTelegram is    *)
(* inductive as it stands.  Everything else is read off OneTelegram:       *)
(* while the motor works the queue is empty and the CLI waits.             *)
(***************************************************************************)
EXTENDS MotorTelegram, SequenceTheorems, TLAPS

(* Percents scaled by 100 fit a data word. *)
LEMMA ScaledWord ==
    ASSUME NEW s \in 1 .. 100
    PROVE  100 * s \in Word
<1>1. s \in Nat /\ 1 <= s /\ s <= 100
  OBVIOUS
<1>2. 100 * s \in Nat /\ 100 * s <= 10000
  BY <1>1, SMTT(60)
<1> QED
  BY <1>2 DEF Word

(* An up ramp in range fits a data word unscaled. *)
LEMMA RampWord ==
    ASSUME NEW s \in 15 .. 300
    PROVE  s \in Word
BY DEF Word

LEMMA PresetData ==
    ASSUME NEW x \in Word
    PROVE  [speed |-> x, ramp |-> 10, preset |-> TRUE] \in Data
<1>1. 10 \in Word
  BY DEF Word
<1> QED
  BY <1>1 DEF Data

(* The handlers only send well-formed telegrams: whatever number passes    *)
(* the range check, its scaled value fits a 16-bit data word.              *)
LEMMA FilledType ==
    ASSUME NEW t \in QueueTelegram, NEW r \in Request, Accepted(r)
    PROVE  Filled(t, r) \in QueueTelegram
<1>1. t.data \in Data /\ t.cmd \in QueueCommand
  BY DEF QueueTelegram
<1>2. CASE r \in [op : {"setSpeed"}, arg : SpeedArgs]
  <2>1. Parsed(r) \in 1 .. 100
    BY <1>2 DEF Accepted
  <2>2. 100 * Parsed(r) \in Word
    BY <2>1, ScaledWord
  <2>3. FilledData(t.data, r) = Preset(Parsed(r))
    BY <1>2 DEF FilledData
  <2>4. FilledData(t.data, r) \in Data
    BY <2>2, <2>3, PresetData DEF Preset
  <2> QED
    BY <1>2, <2>4 DEF Filled, Command, QueueTelegram, QueueCommand
<1>3. CASE r \in [op : {"setUpramp"}, arg : RampArgs]
  <2>1. Parsed(r) \in 15 .. 300
    BY <1>3 DEF Accepted
  <2>2. Parsed(r) \in Word
    BY <2>1, RampWord
  <2>3. FilledData(t.data, r) = [t.data EXCEPT !.ramp = Parsed(r)]
    BY <1>1, <1>3 DEF FilledData, Data
  <2>4. FilledData(t.data, r) \in Data
    BY <1>1, <2>2, <2>3 DEF Data
  <2> QED
    BY <1>3, <2>4 DEF Filled, Command, QueueTelegram, QueueCommand
<1>4. CASE r \in [op : {"setDownramp"}, arg : DownArgs]
  <2>1. Parsed(r) \in 10 .. 100
    BY <1>4 DEF Accepted
  <2>2. 100 * Parsed(r) \in Word
    BY <2>1, ScaledWord
  <2>3. FilledData(t.data, r) = [t.data EXCEPT !.speed = 100 * Parsed(r)]
    BY <1>1, <1>4 DEF FilledData, Data
  <2>4. FilledData(t.data, r) \in Data
    BY <1>1, <2>2, <2>3 DEF Data
  <2> QED
    BY <1>4, <2>4 DEF Filled, Command, QueueTelegram, QueueCommand
<1>5. CASE r \in [op : Gets \cup {"start", "stop"}, arg : {0}]
  <2>1. FilledData(t.data, r) = t.data
    BY <1>1, <1>5 DEF FilledData, Data, Gets
  <2> QED
    BY <1>1, <1>5, <2>1 DEF Filled, Command, QueueTelegram, QueueCommand, Gets
<1> QED
  BY <1>2, <1>3, <1>4, <1>5 DEF Request, Gets

-----------------------------------------------------------------------------
(* What the drive returns is a telegram's data. *)
LEMMA InputIsData == InputData \subseteq Data
BY ReadingsAssumption DEF InputData, Data

LEMMA TypeInit == Init => TypeOK
<1> SUFFICES ASSUME Init PROVE TypeOK
  OBVIOUS
<1>1. ZeroData \in Data
  BY DEF ZeroData, Data, Word
<1>2. telegramS \in QueueTelegram
  BY InputIsData DEF Init, QueueTelegram, QueueCommand
<1>3. request \in Request
  BY DEF Init, Request
<1>4. telegram \in QueueTelegram /\ telegramR \in QueueTelegram
  BY <1>1 DEF Init, QueueTelegram, QueueCommand
<1>5. done \subseteq {"bits", "registers", "read", "resume"}
  BY DEF Init
<1>6. QSpd \in Seq(QueueTelegram) /\ registers \in Data
  BY <1>1 DEF Init
<1> QED
  BY <1>2, <1>3, <1>4, <1>5, <1>6 DEF Init, TypeOK

(* A Modbus call leaves a well-formed answer telegram and history. *)
LEMMA NoteType ==
    ASSUME NEW s \in QueueTelegram,
           NEW applied \in BOOLEAN, NEW confirmed \in BOOLEAN,
           NEW step \in {"bits", "registers", "read", "resume"},
           TypeOK, Note(step, s, applied, confirmed)
    PROVE  /\ telegramS' \in QueueTelegram
           /\ done' \subseteq {"bits", "registers", "read", "resume"}
           /\ failed' \in BOOLEAN /\ misled' \in BOOLEAN
<1>1. [s EXCEPT !.cmd = "ERROR_MODBUS"] \in QueueTelegram
  BY DEF QueueTelegram, QueueCommand
<1> QED
  BY <1>1 DEF Note, TypeOK

LEMMA TypeStep == TypeOK /\ [Next]_vars => TypeOK'
<1> SUFFICES ASSUME TypeOK, [Next]_vars PROVE TypeOK'
  OBVIOUS
<1> USE DEF cliVars, motorVars, drive, history
<1>1. CASE Refuse
  BY <1>1 DEF Refuse, TypeOK
<1>2. CASE Prepare
  <2>1. PICK r \in Request : /\ Accepted(r)
                             /\ request' = r
                             /\ telegram' = Filled(telegram, r)
    BY <1>2 DEF Prepare
  <2>2. telegram' \in QueueTelegram
    BY <2>1, FilledType DEF TypeOK
  <2> QED
    BY <1>2, <2>1, <2>2 DEF Prepare, TypeOK
<1>3. CASE CliSend
  <2>1. QSpd' \in Seq(QueueTelegram)
    BY <1>3 DEF CliSend, TypeOK
  <2>2. /\ done' \subseteq {"bits", "registers", "read", "resume"}
        /\ failed' \in BOOLEAN /\ misled' \in BOOLEAN
    BY <1>3 DEF CliSend
  <2> QED
    BY <1>3, <2>1, <2>2 DEF CliSend, TypeOK
<1>4. CASE CliReceive
  BY <1>4 DEF CliReceive, TypeOK
<1>5. CASE MotorReceive
  BY <1>5 DEF MotorReceive, FirstStep, TypeOK
<1>6. CASE WriteBits
  <2>1. PICK applied \in BOOLEAN, confirmed \in BOOLEAN :
          /\ running' = IF applied THEN telegramR.cmd # "STOP" ELSE running
          /\ Note("bits", telegramS, applied, confirmed)
    BY <1>6 DEF WriteBits
  <2>3. /\ telegramS' \in QueueTelegram
        /\ done' \subseteq {"bits", "registers", "read", "resume"}
        /\ failed' \in BOOLEAN /\ misled' \in BOOLEAN
    BY <2>1, NoteType DEF TypeOK
  <2>4. running' \in BOOLEAN
    BY <2>1 DEF TypeOK
  <2> QED
    BY <1>6, <2>3, <2>4 DEF WriteBits, TypeOK
<1>7. CASE WriteRegisters
  <2>1. PICK applied \in BOOLEAN, confirmed \in BOOLEAN :
          /\ registers' = IF applied THEN telegramR.data ELSE registers
          /\ Note("registers", telegramS, applied, confirmed)
    BY <1>7 DEF WriteRegisters
  <2>3. /\ telegramS' \in QueueTelegram
        /\ done' \subseteq {"bits", "registers", "read", "resume"}
        /\ failed' \in BOOLEAN /\ misled' \in BOOLEAN
    BY <2>1, NoteType DEF TypeOK
  <2>4. registers' \in Data
    BY <2>1 DEF TypeOK, QueueTelegram
  <2> QED
    BY <1>7, <2>3, <2>4 DEF WriteRegisters, TypeOK
<1>8. CASE ReadRegisters
  <2>1. PICK d \in InputData, confirmed \in BOOLEAN :
          Note("read", [telegramS EXCEPT !.data = d], TRUE, confirmed)
    BY <1>8 DEF ReadRegisters
  <2>2. [telegramS EXCEPT !.data = d] \in QueueTelegram
    BY InputIsData DEF TypeOK, QueueTelegram
  <2>3. /\ telegramS' \in QueueTelegram
        /\ done' \subseteq {"bits", "registers", "read", "resume"}
        /\ failed' \in BOOLEAN /\ misled' \in BOOLEAN
    BY <2>1, <2>2, NoteType
  <2> QED
    BY <1>8, <2>3 DEF ReadRegisters, TypeOK
<1>9. CASE ResumeHeartBeat
  BY <1>9 DEF ResumeHeartBeat, TypeOK
<1>10. CASE MotorReply
  <2>1. [telegramS EXCEPT !.cmd = ReplyTo(telegramR.cmd)] \in QueueTelegram
    BY DEF TypeOK, QueueTelegram, QueueCommand, ReplyTo
  <2> QED
    BY <1>10, <2>1 DEF MotorReply, TypeOK
<1>11. CASE Hang
  <2>1. PICK applied \in BOOLEAN :
          /\ running' = IF applied /\ motorPc = "writeBits"
                        THEN telegramR.cmd # "STOP" ELSE running
          /\ registers' = IF applied /\ motorPc = "writeRegisters"
                          THEN telegramR.data ELSE registers
    BY <1>11 DEF Hang
  <2>2. running' \in BOOLEAN
    BY <2>1 DEF TypeOK
  <2>3. registers' \in Data
    BY <2>1 DEF TypeOK, QueueTelegram
  <2> QED
    BY <1>11, <2>2, <2>3 DEF Hang, TypeOK
<1>12. CASE UNCHANGED vars
  BY <1>12 DEF vars, TypeOK
<1> QED
  BY <1>1, <1>2, <1>3, <1>4, <1>5, <1>6, <1>7, <1>8, <1>9, <1>10, <1>11, <1>12
  DEF Next, CliNext, MotorNext

(* Whatever numbers clients type, every telegram and register stays within *)
(* its type: the 16-bit data words of tcpCLI.h never hold more.            *)
THEOREM TypeCorrect == SafeSpec => []TypeOK
BY TypeInit, TypeStep, PTL DEF SafeSpec

-----------------------------------------------------------------------------
(* OneTelegram as the steps use it: it is decided by the two counters. *)
LEMMA OneTelegramCases ==
    ASSUME TypeOK
    PROVE  OneTelegram <=>
             \/ cliPc # "wait" /\ motorPc = "receive" /\ QSpd = <<>>
             \/ cliPc = "wait" /\ motorPc = "receive" /\ Len(QSpd) = 1
             \/ cliPc = "wait" /\ motorPc # "receive" /\ QSpd = <<>>
<1>1. Len(QSpd) \in Nat /\ (Len(QSpd) = 0 <=> QSpd = <<>>)
  BY EmptySeq, LenProperties DEF TypeOK
<1>2. CASE motorPc = "receive"
  BY <1>1, <1>2 DEF OneTelegram, TypeOK
<1>3. CASE motorPc # "receive"
  BY <1>1, <1>3 DEF OneTelegram, TypeOK
<1> QED
  BY <1>2, <1>3

LEMMA OneTelegramStep ==
    TypeOK /\ TypeOK' /\ OneTelegram /\ [Next]_vars => OneTelegram'
<1> SUFFICES ASSUME TypeOK, TypeOK', OneTelegram, [Next]_vars PROVE OneTelegram'
  OBVIOUS
<1> USE DEF cliVars, motorVars, drive, history
<1>1. CASE Refuse
  BY <1>1 DEF Refuse, OneTelegram
<1>2. CASE Prepare
  BY <1>2 DEF Prepare, OneTelegram
<1>3. CASE CliSend
  BY <1>3 DEF CliSend, OneTelegram, TypeOK
<1>4. CASE CliReceive
  BY <1>4 DEF CliReceive, OneTelegram, TypeOK
<1>5. CASE MotorReceive
  BY <1>5 DEF MotorReceive, FirstStep, OneTelegram, TypeOK
<1>6. CASE WriteBits
  BY <1>6 DEF WriteBits, OneTelegram
<1>7. CASE WriteRegisters
  BY <1>7 DEF WriteRegisters, OneTelegram
<1>8. CASE ReadRegisters
  BY <1>8 DEF ReadRegisters, OneTelegram
<1>9. CASE ResumeHeartBeat
  BY <1>9 DEF ResumeHeartBeat, OneTelegram
<1>10. CASE MotorReply
  BY <1>10 DEF MotorReply, OneTelegram, TypeOK
<1>11. CASE Hang
  BY <1>11 DEF Hang, OneTelegram
<1>12. CASE UNCHANGED vars
  BY <1>12 DEF vars, OneTelegram
<1> QED
  BY <1>1, <1>2, <1>3, <1>4, <1>5, <1>6, <1>7, <1>8, <1>9, <1>10, <1>11, <1>12
  DEF Next, CliNext, MotorNext

(* There is exactly one telegram while the CLI waits and none otherwise:   *)
(* no xQueueSend ever finds the queue full, whatever its length, and the   *)
(* tasks never both wait for each other.                                   *)
THEOREM OneTelegramAlways == SafeSpec => []OneTelegram
<1>1. Init => OneTelegram
  BY DEF Init, OneTelegram
<1> QED
  BY <1>1, TypeInit, TypeStep, OneTelegramStep, PTL DEF SafeSpec

(* No write to the drive trails behind the answer of its command. *)
THEOREM NoLateWrite == SafeSpec => NoWriteAfterAnswer
<1>1. TypeOK /\ OneTelegram /\ [Next]_vars
        => [drive' # drive => cliPc = "wait" /\ cliPc' = "wait"]_vars
  <2> SUFFICES ASSUME TypeOK, OneTelegram, Next, drive' # drive
               PROVE  cliPc = "wait" /\ cliPc' = "wait"
    BY DEF vars, drive
  <2>1. WriteBits \/ WriteRegisters \/ Hang
    BY DEF Next, CliNext, MotorNext, Refuse, Prepare, CliSend, CliReceive,
           MotorReceive, ReadRegisters, ResumeHeartBeat, MotorReply, drive
  <2>2. motorPc # "receive" /\ cliPc' = cliPc
    BY <2>1 DEF WriteBits, WriteRegisters, Hang, cliVars
  <2> QED
    BY <2>2, OneTelegramCases
<1> QED
  BY <1>1, TypeCorrect, OneTelegramAlways, PTL DEF SafeSpec, NoWriteAfterAnswer

-----------------------------------------------------------------------------
(* Two tasks sharing one queue in both directions implement the single     *)
(* token that is asked with, accepted, put back and collected.             *)
THEOREM Refinement == SafeSpec => Token!SafeSpec
<1>1. Init => Token!Init
  BY DEF Init, Token!Init, TokenPlace
<1>2. TypeOK /\ TypeOK' /\ OneTelegram /\ OneTelegram' /\ [Next]_vars
        => [Token!Next]_TokenPlace
  <2> SUFFICES ASSUME TypeOK, TypeOK', OneTelegram, OneTelegram', [Next]_vars
               PROVE  Token!Next \/ TokenPlace' = TokenPlace
    OBVIOUS
  <2> USE DEF cliVars, motorVars, drive, history
  <2>1. CASE Refuse \/ Prepare \/ UNCHANGED vars
    BY <2>1 DEF Refuse, Prepare, vars, TokenPlace
  <2>2. CASE CliSend
    <3>1. motorPc = "receive" /\ QSpd = <<>>
      BY <2>2, OneTelegramCases DEF CliSend
    <3>2. motorPc' = "receive" /\ QSpd' # <<>>
      BY <2>2, <3>1 DEF CliSend, TypeOK
    <3> QED
      BY <3>1, <3>2 DEF TokenPlace, Token!Next, Token!Ask
  <2>3. CASE CliReceive
    <3>1. motorPc = "receive" /\ QSpd # <<>>
      BY <2>3, OneTelegramCases DEF CliReceive
    <3>2. motorPc' = "receive" /\ Len(QSpd') = 0
      BY <2>3, <3>1 DEF CliReceive, OneTelegram, TypeOK
    <3>3. QSpd' = <<>>
      BY <3>2, EmptySeq DEF TypeOK
    <3> QED
      BY <3>1, <3>2, <3>3 DEF TokenPlace, Token!Next, Token!Collect
  <2>4. CASE MotorReceive
    BY <2>4 DEF MotorReceive, FirstStep, TokenPlace, Token!Next, Token!Accept
  <2>5. CASE WriteBits \/ WriteRegisters \/ ReadRegisters \/ ResumeHeartBeat
    BY <2>5 DEF WriteBits, WriteRegisters, ReadRegisters, ResumeHeartBeat, TokenPlace
  <2>6. CASE MotorReply
    <3>1. motorPc' = "receive" /\ QSpd' # <<>>
      BY <2>6 DEF MotorReply, TypeOK
    <3> QED
      BY <2>6, <3>1 DEF MotorReply, TokenPlace, Token!Next, Token!Reply
  <2>7. CASE Hang
    <3>1. motorPc \notin {"receive", "hung"} /\ motorPc' = "hung"
      BY <2>7 DEF Hang
    <3> QED
      BY <3>1 DEF TokenPlace, Token!Next, Token!Lose
  <2> QED
    BY <2>1, <2>2, <2>3, <2>4, <2>5, <2>6, <2>7 DEF Next, CliNext, MotorNext
<1> QED
  BY <1>1, <1>2, TypeCorrect, OneTelegramAlways, PTL DEF SafeSpec, Token!SafeSpec

-----------------------------------------------------------------------------
(* Why a success can be believed.  The queue does not say whether a        *)
(* telegram is a command or an answer, so the invariant follows the one    *)
(* telegram: as a command it still asks for what the client typed and the  *)
(* work is as far as motorPc says; once it is an answer the work is done,  *)
(* and it stays done however often the motor picks up its own answers.     *)
Asks(t) ==
    LET r == request IN
    /\ t.cmd = Command[r.op]
    /\ r.op = "setSpeed" /\ r.arg \in 1 .. 100   => t.data = Preset(r.arg)
    /\ r.op = "setUpramp" /\ r.arg \in 15 .. 300 => t.data.ramp = r.arg

(* Every call of this command so far was carried out and confirmed. *)
Faithful == ~failed /\ ~misled

Complete == done = Duties[request.op] /\ (Faithful => Shows(request))

Serving(t) ==
    /\ Asks(t)
    /\ motorPc = "writeBits" => t.cmd \in {"SETDATA", "START", "STOP"} /\ done = {}
    /\ motorPc = "readRegisters" => t.cmd = "GETDATA" /\ done = {}
    /\ motorPc = "writeRegisters" =>
         t.cmd \in {"SETDATA", "START"} /\ done = {"bits"} /\ (Faithful => running)
    /\ motorPc = "resume" =>
         t.cmd = "START" /\ done = {"bits", "registers"} /\ (Faithful => running)
    /\ motorPc = "reply" => Complete

Served(t) == t.cmd \in {"SUCCSESS", "ERROR_MODBUS"} /\ Complete

Followed ==
    /\ cliPc = "send" => Asks(telegram)
    /\ cliPc = "wait" /\ motorPc = "receive" =>
         (Asks(Head(QSpd)) /\ done = {}) \/ Served(Head(QSpd))
    /\ cliPc = "wait" /\ motorPc # "receive" =>
         Serving(telegramR) \/ (motorPc = "reply" /\ Served(telegramR))
    /\ cliPc = "prompt" /\ answer = "success" => Complete
    /\ cliPc = "prompt" /\ answer = "modbusError" => done = {} \/ Complete

(* "get downramp" sends what the previous command left behind; nothing is  *)
(* claimed of it.                                                          *)
Tracked == request.op # "getDownramp" => Followed

(* Which commands stand for which requests. *)
LEMMA CommandOf ==
    ASSUME NEW r \in Request, r.op # "getDownramp"
    PROVE  /\ Command[r.op] \in {"SETDATA", "GETDATA", "START", "STOP"}
           /\ Command[r.op] = "SETDATA" <=> r.op \in {"setSpeed", "setUpramp", "setDownramp"}
           /\ Command[r.op] = "GETDATA" <=> r.op \in {"getSpeed", "getUpramp"}
           /\ Command[r.op] = "START" <=> r.op = "start"
           /\ Command[r.op] = "STOP" <=> r.op = "stop"
BY DEF Request, Command

(* The cut leaves a number in range alone. *)
LEMMA InRangeIsTyped ==
    ASSUME NEW r \in Request
    PROVE  /\ r.op = "setSpeed" /\ r.arg \in 1 .. 100   => Parsed(r) = r.arg
           /\ r.op = "setUpramp" /\ r.arg \in 15 .. 300 => Parsed(r) = r.arg
<1>1. \A n \in 1 .. 300 : n % 65536 = n
  OBVIOUS
<1> QED
  BY <1>1 DEF Parsed

(* A freshly filled telegram asks for what the client typed. *)
LEMMA FilledAsks ==
    ASSUME NEW t \in QueueTelegram, NEW r \in Request, r.op # "getDownramp"
    PROVE  /\ Filled(t, r).cmd = Command[r.op]
           /\ r.op = "setSpeed" /\ r.arg \in 1 .. 100   => Filled(t, r).data = Preset(r.arg)
           /\ r.op = "setUpramp" /\ r.arg \in 15 .. 300 => Filled(t, r).data.ramp = r.arg
<1>1. t.data \in Data
  BY DEF QueueTelegram
<1>2. Filled(t, r).cmd = Command[r.op] /\ Filled(t, r).data = FilledData(t.data, r)
  BY DEF Filled
<1>3. r.op = "setSpeed" => FilledData(t.data, r) = Preset(Parsed(r))
  BY DEF FilledData
<1>4. r.op = "setUpramp" => FilledData(t.data, r).ramp = Parsed(r)
  BY <1>1 DEF FilledData, Data
<1> QED
  BY <1>2, <1>3, <1>4, InRangeIsTyped

LEMMA TrackedInit == Init => Tracked
BY DEF Init, Tracked, Followed

(* The steps of the CLI keep the telegram tracked. *)
LEMMA TrackedCli ==
    ASSUME TypeOK, TypeOK', OneTelegram, OneTelegram', Tracked, CliNext
    PROVE  Tracked'
<1> SUFFICES ASSUME request'.op # "getDownramp" PROVE Followed'
  BY DEF Tracked
<1> USE DEF cliVars, motorVars, drive, history
<1>1. CASE Refuse
  BY <1>1 DEF Refuse, Followed
<1>2. CASE Prepare
  <2>1. PICK r \in Request : request' = r /\ telegram' = Filled(telegram, r)
    BY <1>2 DEF Prepare
  <2>2. telegram \in QueueTelegram
    BY DEF TypeOK
  <2>3. Asks(telegram)'
    BY <2>1, <2>2, FilledAsks DEF Asks
  <2> QED
    BY <1>2, <2>3 DEF Prepare, Followed
<1>3. CASE CliSend
  <2>1. QSpd = <<>> /\ motorPc' = "receive"
    BY <1>3, OneTelegramCases DEF CliSend
  <2>2. Head(QSpd') = telegram
    BY <1>3, <2>1 DEF CliSend, TypeOK
  <2>3. request' = request /\ Asks(telegram)
    BY <1>3 DEF CliSend, Tracked, Followed
  <2>4. Asks(Head(QSpd))' /\ done' = {}
    BY <1>3, <2>2, <2>3 DEF CliSend, Asks
  <2> QED
    BY <1>3, <2>1, <2>4 DEF CliSend, Followed
<1>4. CASE CliReceive
  <2>1. motorPc = "receive"
    BY <1>4, OneTelegramCases DEF CliReceive
  <2>2. request' = request /\ request \in Request
    BY <1>4 DEF CliReceive, TypeOK
  <2>3. ASSUME answer' = "success" PROVE Complete
    <3>1. Head(QSpd).cmd = "SUCCSESS"
      BY <1>4, <2>3 DEF CliReceive
    <3>2. ~Asks(Head(QSpd))
      BY <2>2, <3>1, CommandOf DEF Asks
    <3>3. Asks(Head(QSpd)) \/ Served(Head(QSpd))
      BY <1>4, <2>1, <2>2 DEF CliReceive, Tracked, Followed
    <3> QED
      BY <3>2, <3>3 DEF Served
  <2>4. done = {} \/ Complete
    BY <1>4, <2>1, <2>2 DEF CliReceive, Tracked, Followed, Served
  <2>5. Complete => Complete'
    BY <1>4 DEF CliReceive, Complete, Faithful, Shows
  <2> QED
    BY <1>4, <2>3, <2>4, <2>5 DEF CliReceive, Followed
<1> QED
  BY <1>1, <1>2, <1>3, <1>4 DEF CliNext

(* While the motor works, the telegram it holds is a command as far along  *)
(* as motorPc says, or an answer it has picked up again.                   *)
LEMMA MotorHolds ==
    ASSUME TypeOK, OneTelegram, Tracked, request.op # "getDownramp", motorPc # "receive"
    PROVE  /\ cliPc = "wait"
           /\ QSpd = <<>>
           /\ Serving(telegramR) \/ (motorPc = "reply" /\ Served(telegramR))
BY OneTelegramCases DEF Tracked, Followed

(* The steps of the motor task keep the telegram tracked. *)
LEMMA TrackedMotor ==
    ASSUME TypeOK, TypeOK', OneTelegram, OneTelegram', Tracked, MotorNext
    PROVE  Tracked'
<1> USE DEF cliVars, motorVars, drive, history
<1>1. request' = request /\ cliPc' = cliPc /\ request \in Request
  BY DEF MotorNext, MotorReceive, WriteBits, WriteRegisters, ReadRegisters,
         Hang, ResumeHeartBeat, MotorReply, TypeOK
<1> SUFFICES ASSUME request.op # "getDownramp" PROVE Followed'
  BY <1>1 DEF Tracked
<1>2. cliPc = "wait"
  BY OneTelegramCases DEF MotorNext, MotorReceive, WriteBits, WriteRegisters,
     ReadRegisters, Hang, ResumeHeartBeat, MotorReply
<1>3. CASE MotorReceive
  <2>1. (Asks(Head(QSpd)) /\ done = {}) \/ Served(Head(QSpd))
    BY <1>2, <1>3 DEF MotorReceive, Tracked, Followed
  <2>2. telegramR' = Head(QSpd) /\ motorPc' = FirstStep(Head(QSpd).cmd)
    BY <1>3 DEF MotorReceive
  <2>3. CASE Asks(Head(QSpd)) /\ done = {}
    <3>1. Head(QSpd).cmd \in {"SETDATA", "GETDATA", "START", "STOP"}
      BY <1>1, <2>3, CommandOf DEF Asks
    <3>2. Asks(telegramR)' /\ done' = {}
      BY <1>1, <1>3, <2>2, <2>3 DEF MotorReceive, Asks
    <3>3. Serving(telegramR)'
      BY <2>2, <3>1, <3>2 DEF Serving, FirstStep
    <3> QED
      BY <1>1, <1>2, <2>2, <3>1, <3>3 DEF Followed, FirstStep
  <2>4. CASE Served(Head(QSpd))
    <3>1. motorPc' = "reply"
      BY <2>2, <2>4 DEF Served, FirstStep
    <3>2. Served(telegramR)'
      BY <1>3, <2>2, <2>4 DEF MotorReceive, Served, Complete, Faithful, Shows
    <3> QED
      BY <1>1, <1>2, <3>1, <3>2 DEF Followed
  <2> QED
    BY <2>1, <2>3, <2>4
<1>4. CASE WriteBits
  <2>1. Serving(telegramR)
    BY <1>4, MotorHolds DEF WriteBits
  <2>2. PICK applied \in BOOLEAN, confirmed \in BOOLEAN :
          /\ Possible(applied, confirmed)
          /\ running' = IF applied THEN telegramR.cmd # "STOP" ELSE running
          /\ Note("bits", telegramS, applied, confirmed)
    BY <1>4 DEF WriteBits
  <2>3. done' = {"bits"} /\ (Faithful' => running' = (telegramR.cmd # "STOP"))
    BY <1>4, <2>1, <2>2 DEF WriteBits, Serving, Note, Faithful
  <2>4. Asks(telegramR)' /\ telegramR' = telegramR
    BY <1>1, <1>4, <2>1 DEF WriteBits, Serving, Asks
  <2>5. CASE telegramR.cmd = "STOP"
    <3>1. request.op = "stop"
      BY <1>1, <2>1, <2>5, CommandOf DEF Serving, Asks
    <3>2. done' = Duties[request'.op]
      BY <1>1, <2>3, <3>1 DEF Duties
    <3>3. Faithful' => ~running'
      BY <2>3, <2>5, Zenon
    <3>4. Faithful' => Shows(request)'
      BY <1>1, <3>1, <3>3 DEF Shows
    <3>5. motorPc' = "reply"
      BY <1>4, <2>5 DEF WriteBits
    <3> QED
      BY <1>1, <1>2, <2>4, <3>2, <3>4, <3>5 DEF Followed, Serving, Complete
  <2>6. CASE telegramR.cmd # "STOP"
    <3>1. motorPc' = "writeRegisters"
      BY <1>4, <2>6 DEF WriteBits
    <3>2. telegramR.cmd \in {"SETDATA", "START"}
      BY <1>4, <2>1, <2>6 DEF WriteBits, Serving
    <3>3. Serving(telegramR)'
      BY <2>3, <2>4, <3>1, <3>2 DEF Serving
    <3> QED
      BY <1>1, <1>2, <3>1, <3>3 DEF Followed
  <2> QED
    BY <2>5, <2>6
<1>5. CASE WriteRegisters
  <2>1. Serving(telegramR)
    BY <1>5, MotorHolds DEF WriteRegisters
  <2>2. PICK applied \in BOOLEAN, confirmed \in BOOLEAN :
          /\ Possible(applied, confirmed)
          /\ registers' = IF applied THEN telegramR.data ELSE registers
          /\ Note("registers", telegramS, applied, confirmed)
    BY <1>5 DEF WriteRegisters
  <2>3. /\ telegramR.cmd \in {"SETDATA", "START"}
        /\ done = {"bits"}
        /\ Faithful => running
    BY <1>5, <2>1 DEF WriteRegisters, Serving
  <2>4. /\ done' = {"bits", "registers"}
        /\ Faithful' => registers' = telegramR.data /\ running'
    BY <1>5, <2>2, <2>3 DEF WriteRegisters, Note, Faithful
  <2>5. Asks(telegramR) /\ Asks(telegramR)' /\ telegramR' = telegramR
    BY <1>1, <1>5, <2>1 DEF WriteRegisters, Serving, Asks
  <2>6. CASE telegramR.cmd = "START"
    <3>1. motorPc' = "resume"
      BY <1>5, <2>6 DEF WriteRegisters
    <3>2. Serving(telegramR)'
      BY <2>4, <2>5, <2>6, <3>1 DEF Serving
    <3> QED
      BY <1>1, <1>2, <3>1, <3>2 DEF Followed
  <2>7. CASE telegramR.cmd = "SETDATA"
    <3>1. request.op \in {"setSpeed", "setUpramp", "setDownramp"}
      BY <1>1, <2>5, <2>7, CommandOf DEF Asks
    <3>2. done' = Duties[request'.op]
      BY <1>1, <2>4, <3>1 DEF Duties
    <3>3. Faithful' => Shows(request)'
      BY <1>1, <2>4, <2>5, <3>1 DEF Shows, Asks
    <3>4. motorPc' = "reply"
      BY <1>5, <2>7 DEF WriteRegisters
    <3> QED
      BY <1>1, <1>2, <2>5, <3>2, <3>3, <3>4 DEF Followed, Serving, Complete
  <2> QED
    BY <2>3, <2>6, <2>7
<1>6. CASE ReadRegisters
  <2>1. Serving(telegramR)
    BY <1>6, MotorHolds DEF ReadRegisters
  <2>2. telegramR.cmd = "GETDATA" /\ done = {}
    BY <1>6, <2>1 DEF ReadRegisters, Serving
  <2>3. request.op \in {"getSpeed", "getUpramp"}
    BY <1>1, <2>1, <2>2, CommandOf DEF Serving, Asks
  <2>4. done' = {"read"}
    BY <1>6, <2>2 DEF ReadRegisters, Note
  <2>5. Complete'
    BY <1>1, <2>3, <2>4 DEF Complete, Shows, Duties
  <2>6. Asks(telegramR)' /\ motorPc' = "reply"
    BY <1>1, <1>6, <2>1 DEF ReadRegisters, Serving, Asks
  <2> QED
    BY <1>1, <1>2, <2>5, <2>6 DEF Followed, Serving
<1>7. CASE ResumeHeartBeat
  <2>1. Serving(telegramR)
    BY <1>7, MotorHolds DEF ResumeHeartBeat
  <2>2. telegramR.cmd = "START" /\ done = {"bits", "registers"} /\ (Faithful => running)
    BY <1>7, <2>1 DEF ResumeHeartBeat, Serving
  <2>3. request.op = "start"
    BY <1>1, <2>1, <2>2, CommandOf DEF Serving, Asks
  <2>4. Complete'
    BY <1>1, <1>7, <2>2, <2>3 DEF ResumeHeartBeat, Complete, Faithful, Shows, Duties
  <2>5. Asks(telegramR)' /\ motorPc' = "reply"
    BY <1>1, <1>7, <2>1 DEF ResumeHeartBeat, Serving, Asks
  <2> QED
    BY <1>1, <1>2, <2>4, <2>5 DEF Followed, Serving
<1>8. CASE MotorReply
  <2>1. Complete /\ QSpd = <<>>
    BY <1>8, MotorHolds DEF MotorReply, Serving, Served
  <2>2. Complete'
    BY <1>1, <1>8, <2>1 DEF MotorReply, Complete, Faithful, Shows
  <2> DEFINE s == [telegramS EXCEPT !.cmd = ReplyTo(telegramR.cmd)]
  <2>3. s.cmd \in {"SUCCSESS", "ERROR_MODBUS"} /\ s \in QueueTelegram
    BY DEF ReplyTo, TypeOK, QueueTelegram, QueueCommand
  <2>4. QSpd' = Append(QSpd, s)
    BY <1>8 DEF MotorReply
  <2> HIDE DEF s
  <2>5. Head(QSpd') = s
    BY <2>1, <2>3, <2>4 DEF TypeOK
  <2> QED
    BY <1>1, <1>2, <1>8, <2>2, <2>3, <2>5 DEF MotorReply, Followed, Served
<1>9. CASE Hang
  <2>1. Asks(telegramR) /\ telegramR' = telegramR /\ motorPc' = "hung"
    BY <1>9, MotorHolds DEF Hang, Serving
  <2>2. Asks(telegramR)'
    BY <1>1, <2>1 DEF Asks
  <2> QED
    BY <1>1, <1>2, <2>1, <2>2 DEF Followed, Serving
<1> QED
  BY <1>3, <1>4, <1>5, <1>6, <1>7, <1>8, <1>9 DEF MotorNext

LEMMA TrackedStep ==
    TypeOK /\ TypeOK' /\ OneTelegram /\ OneTelegram' /\ Tracked /\ [Next]_vars => Tracked'
<1> SUFFICES ASSUME TypeOK, TypeOK', OneTelegram, OneTelegram', Tracked, [Next]_vars
             PROVE  Tracked'
  OBVIOUS
<1>1. CASE UNCHANGED vars
  BY <1>1 DEF vars, cliVars, motorVars, drive, history, Tracked, Followed, Asks,
     Serving, Served, Complete, Faithful, Shows
<1> QED
  BY <1>1, TrackedCli, TrackedMotor DEF Next

THEOREM TrackedAlways == SafeSpec => []Tracked
BY TrackedInit, TrackedStep, TypeCorrect, OneTelegramAlways, PTL DEF SafeSpec

(* A client told "succsesfully" is told so of its own command: the motor   *)
(* task has made exactly the Modbus calls that command stands for.  And a  *)
(* client told of an error knows that all of its command was done, or      *)
(* nothing, whoever took the telegram how often.                           *)
THEOREM NeverHalfDone == SafeSpec => []NothingHalfDone
<1>1. Tracked => NothingHalfDone
  BY DEF Tracked, Followed, Complete, NothingHalfDone, SuccessMeansDone, ErrorMeansAllOrNothing
<1> QED
  BY <1>1, TrackedAlways, PTL

(* If the drive confirmed every call of a command reported as successful,  *)
(* it runs with the speed or the up ramp that was typed (or is started, or *)
(* stopped), for every number in the range the refusals name.              *)
THEOREM SuccessIsVisible == SafeSpec => []SuccessShowsOnDrive
<1>1. Tracked => SuccessShowsOnDrive
  BY DEF Tracked, Followed, Complete, Faithful, SuccessShowsOnDrive, Shows
<1> QED
  BY <1>1, TrackedAlways, PTL

-----------------------------------------------------------------------------
(* A command is answered.                                                  *)

(* A client waits and no Modbus call has hung. *)
Waiting == cliPc = "wait" /\ motorPc # "hung"
Settled == cliPc = "prompt" \/ motorPc = "hung"

(* The motor task is back at the queue, or will never be. *)
Rests == motorPc \in {"receive", "hung"}

(* Between the sending of a command and its answer every step keeps the    *)
(* client waiting, answers it, or hangs.                                   *)
LEMMA WaitsOrSettles ==
    TypeOK /\ OneTelegram /\ Waiting /\ [Next]_vars => Waiting' \/ Settled'
<1> SUFFICES ASSUME TypeOK, OneTelegram, Waiting, [Next]_vars, ~Settled'
             PROVE  cliPc' = "wait"
  BY DEF Waiting, Settled
<1>1. CASE CliNext
  BY <1>1 DEF CliNext, Refuse, Prepare, CliSend, CliReceive, Waiting, Settled
<1>2. CASE MotorNext
  BY <1>2 DEF MotorNext, MotorReceive, WriteBits, WriteRegisters, ReadRegisters,
              Hang, ResumeHeartBeat, MotorReply, Waiting, cliVars
<1>3. CASE UNCHANGED vars
  BY <1>3 DEF vars, cliVars, Waiting
<1> QED
  BY <1>1, <1>2, <1>3 DEF Next

(* The motor task's way through a command: each of its steps leads to a    *)
(* later place of the command or hangs, and no other step moves it.        *)
LEMMA MotorGoesOn ==
    ASSUME TypeOK, OneTelegram, MotorNext
    PROVE  /\ motorPc = "writeBits" => motorPc' \in {"writeRegisters", "reply", "hung"}
           /\ motorPc = "writeRegisters" => motorPc' \in {"resume", "reply", "hung"}
           /\ motorPc = "readRegisters" => motorPc' \in {"reply", "hung"}
           /\ motorPc = "resume" => motorPc' = "reply"
           /\ motorPc = "reply" => motorPc' = "receive"
BY DEF MotorNext, MotorReceive, WriteBits, WriteRegisters, ReadRegisters,
       Hang, ResumeHeartBeat, MotorReply

LEMMA OthersLeaveMotor ==
    ASSUME [Next]_vars, ~MotorNext PROVE motorPc' = motorPc
BY DEF Next, CliNext, Refuse, Prepare, CliSend, CliReceive, vars, motorVars

(* The motor task gets through with what it does for a telegram, or hangs, *)
(* from wherever it stands.                                                *)
LEMMA MotorComesBack ==
    Spec /\ []OnlyWaitsForMessage
        => []<>Rests
<1> DEFINE Inv == TypeOK /\ OneTelegram
           WB == motorPc = "writeBits"
           WR == motorPc = "writeRegisters"
           RR == motorPc = "readRegisters"
           RS == motorPc = "resume"
           RP == motorPc = "reply"
           RC == motorPc = "receive"
           H  == motorPc = "hung"
           Able == WB \/ WR \/ RR \/ RS \/ RP => ENABLED <<MotorNext>>_vars
<1>1. Spec => []Inv
  BY TypeCorrect, OneTelegramAlways, PTL DEF Spec, SafeSpec
<1>2. OnlyWaitsForMessage => Able
  BY DEF OnlyWaitsForMessage
<1>3. Spec /\ []Able => (RP ~> RC)
  <2>1. Inv /\ RP /\ [Next]_vars => RP' \/ RC'
    BY MotorGoesOn, OthersLeaveMotor
  <2>2. Inv /\ RP /\ <<MotorNext>>_vars => RC'
    BY MotorGoesOn
  <2> QED
    BY <1>1, <2>1, <2>2, PTL DEF Spec, Fairness
<1>4. Spec /\ []Able => (RS ~> RP)
  <2>1. Inv /\ RS /\ [Next]_vars => RS' \/ RP'
    BY MotorGoesOn, OthersLeaveMotor
  <2>2. Inv /\ RS /\ <<MotorNext>>_vars => RP'
    BY MotorGoesOn
  <2> QED
    BY <1>1, <2>1, <2>2, PTL DEF Spec, Fairness
<1>5. Spec /\ []Able => (RR ~> RP \/ H)
  <2>1. Inv /\ RR /\ [Next]_vars => RR' \/ RP' \/ H'
    BY MotorGoesOn, OthersLeaveMotor
  <2>2. Inv /\ RR /\ <<MotorNext>>_vars => RP' \/ H'
    BY MotorGoesOn
  <2> QED
    BY <1>1, <2>1, <2>2, PTL DEF Spec, Fairness
<1>6. Spec /\ []Able => (WR ~> RS \/ RP \/ H)
  <2>1. Inv /\ WR /\ [Next]_vars => WR' \/ RS' \/ RP' \/ H'
    BY MotorGoesOn, OthersLeaveMotor
  <2>2. Inv /\ WR /\ <<MotorNext>>_vars => RS' \/ RP' \/ H'
    BY MotorGoesOn
  <2> QED
    BY <1>1, <2>1, <2>2, PTL DEF Spec, Fairness
<1>7. Spec /\ []Able => (WB ~> WR \/ RP \/ H)
  <2>1. Inv /\ WB /\ [Next]_vars => WB' \/ WR' \/ RP' \/ H'
    BY MotorGoesOn, OthersLeaveMotor
  <2>2. Inv /\ WB /\ <<MotorNext>>_vars => WR' \/ RP' \/ H'
    BY MotorGoesOn
  <2> QED
    BY <1>1, <2>1, <2>2, PTL DEF Spec, Fairness
<1>8. Inv => WB \/ WR \/ RR \/ RS \/ RP \/ Rests
  BY DEF TypeOK, Rests
<1>9. (RC => Rests) /\ (H => Rests)
  BY DEF Rests
<1> QED
  BY <1>1, <1>2, <1>3, <1>4, <1>5, <1>6, <1>7, <1>8, <1>9, PTL

(* Every command that was sent is answered, or a Modbus call hangs,        *)
(* provided that only an empty queue makes a task wait, which the run      *)
(* checks.  The motor task comes back to the queue again and again, and    *)
(* each time the telegram lies there for the CLI to take: its own reply    *)
(* may be taken back by the motor task any number of times before.         *)
THEOREM AnsweredIfAble == Spec /\ []OnlyWaitsForMessage => Answered
<1> DEFINE Inv == TypeOK /\ OneTelegram
<1>1. Spec => []Inv
  BY TypeCorrect, OneTelegramAlways, PTL DEF Spec, SafeSpec
<1>2. Spec => [](Waiting => []Waiting \/ <>Settled)
  <2>1. Inv /\ Waiting /\ [Next]_vars => Waiting' \/ Settled'
    BY WaitsOrSettles
  <2> QED
    BY <1>1, <2>1, PTL DEF Spec
<1>3. Spec /\ []OnlyWaitsForMessage => (Waiting ~> Settled)
  <2>1. Inv /\ OnlyWaitsForMessage /\ Waiting /\ Rests => ENABLED <<CliReceive>>_vars
    BY OneTelegramCases DEF OnlyWaitsForMessage, Waiting, Rests
  <2>2. <<CliReceive>>_vars => Settled'
    BY DEF CliReceive, Settled
  <2> QED
    BY <1>1, <1>2, <2>1, <2>2, MotorComesBack, PTL DEF Spec, Fairness
<1>4. /\ cliPc = "wait" => Waiting \/ Settled
      /\ Settled => cliPc = "prompt" \/ motorPc = "hung"
  BY DEF Waiting, Settled
<1> QED
  BY <1>3, <1>4, PTL DEF Answered

(* The fairness of the token, with the guards of its actions for their     *)
(* being enabled: the motor does not sit on it, and a CLI that finds it on *)
(* the table again and again collects it again and again.                  *)
TokenMoves ==
    /\ []<>(TokenPlace # "motor")
    /\ []<>(TokenPlace = "table") => []<><<Token!Collect>>_TokenPlace

(* The token is not only handed on as TelegramToken allows, it is also     *)
(* handed on: the fairness of the two tasks gives the fairness of the      *)
(* abstract specification.                                                 *)
THEOREM TokenIsFair == Spec /\ []OnlyWaitsForMessage => Token!SafeSpec /\ TokenMoves
<1> DEFINE Inv == TypeOK /\ OneTelegram
<1>1. Spec => []Inv
  BY TypeCorrect, OneTelegramAlways, PTL DEF Spec, SafeSpec
<1>2. Spec => Token!SafeSpec
  BY Refinement, PTL DEF Spec, SafeSpec
<1>3. Spec /\ []OnlyWaitsForMessage => []<>(TokenPlace # "motor")
  <2>1. Rests => TokenPlace # "motor"
    BY DEF TokenPlace, Rests
  <2> QED
    BY <2>1, MotorComesBack, PTL
<1>4. Spec /\ []OnlyWaitsForMessage /\ []<>(TokenPlace = "table")
        => []<><<Token!Collect>>_TokenPlace
  <2>1. Inv /\ OnlyWaitsForMessage /\ TokenPlace = "table" => ENABLED <<CliReceive>>_vars
    BY OneTelegramCases DEF OnlyWaitsForMessage, TokenPlace
  <2>2. Inv /\ Inv' /\ <<CliReceive>>_vars => <<Token!Collect>>_TokenPlace
    <3> SUFFICES ASSUME Inv, Inv', CliReceive PROVE <<Token!Collect>>_TokenPlace
      OBVIOUS
    <3>1. motorPc = "receive" /\ QSpd # <<>>
      BY OneTelegramCases DEF CliReceive
    <3>2. motorPc' = "receive" /\ Len(QSpd') = 0
      BY <3>1 DEF CliReceive, OneTelegram, TypeOK, motorVars
    <3>3. QSpd' = <<>>
      BY <3>2, EmptySeq DEF TypeOK
    <3> QED
      BY <3>1, <3>2, <3>3 DEF TokenPlace, Token!Collect
  <2> QED
    BY <1>1, <2>1, <2>2, PTL DEF Spec, Fairness
<1> QED
  BY <1>2, <1>3, <1>4, PTL DEF TokenMoves

-----------------------------------------------------------------------------
(* The kernel beneath. *)

(* QSpd_handle as a kernel queue: the abstract queue that KernelQueue is   *)
(* shown to implement from its slots, locks and waiting tasks.             *)
Kernel == INSTANCE MessageQueue
              WITH items <- QSpd, Length <- QueueLength, Message <- QueueTelegram

(* What the two tasks do to QSpd is what a kernel queue allows: neither    *)
(* sends to a full queue, takes from an empty one or reaches past the head *)
(* (xQueueSend, xQueueReceive in tcpCLI.c and modbus_mk.c).                *)
THEOREM QSpdIsQueue == SafeSpec => Kernel!Spec
<1>1. Init => Kernel!Init
  BY DEF Init, Kernel!Init
<1>2. ASSUME TypeOK, TypeOK', [Next]_vars
      PROVE  [Kernel!Next]_QSpd
  <2>1. CASE CliSend
    BY <1>2, <2>1 DEF CliSend, TypeOK, Kernel!Next, Kernel!SendToBack
  <2>2. CASE CliReceive \/ MotorReceive
    BY <2>2 DEF CliReceive, MotorReceive, Kernel!Next, Kernel!Receive
  <2>3. CASE MotorReply
    <3>1. PICK s : s = telegramS' /\ QSpd' = Append(QSpd, s) /\ Len(QSpd) < QueueLength
      BY <2>3 DEF MotorReply
    <3>2. s \in QueueTelegram
      BY <1>2, <3>1 DEF TypeOK
    <3> QED
      BY <3>1, <3>2 DEF Kernel!Next, Kernel!SendToBack
  <2>4. CASE UNCHANGED QSpd
    BY <2>4
  <2> QED
    BY <1>2, <2>1, <2>2, <2>3, <2>4
       DEF Next, CliNext, MotorNext, Refuse, Prepare, WriteBits, WriteRegisters,
           ReadRegisters, Hang, ResumeHeartBeat, vars
<1> QED
  BY <1>1, <1>2, TypeCorrect, PTL DEF SafeSpec, Kernel!Spec

=============================================================================
