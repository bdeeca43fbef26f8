--------------------------- MODULE MotorTelegram ---------------------------
(***************************************************************************)
(* The motor command path of the TCP command line:                         *)
(*                                                                         *)
(*   - the CLI side is the task set_macTask inside prvMotorCommand,        *)
(*     handleVariable_set and handleVariable_get (tcpCLI.c).  It fills the *)
(*     global `telegram`, sends a copy on QSpd_handle and then receives    *)
(*     from the SAME queue into the same global;                           *)
(*   - the motor side is motorControl_task (modbus_mk.c).  It receives     *)
(*     from QSpd_handle, talks to the drive over Modbus and sends its      *)
(*     answer back on QSpd_handle.                                         *)
(*                                                                         *)
(* Both tasks have the same priority and the kernel slices time between    *)
(* them, so a step of either may fall between any two steps of the other.  *)
(* A queue operation is one step: queue.c copies inside a critical         *)
(* section.  A Modbus call is one step too, with every outcome that        *)
(* ModbusLine shows: the request is carried out or not, the CRC of the     *)
(* answer holds or not, or the call never returns.                         *)
(***************************************************************************)
EXTENDS MotorArguments, Sequences

CONSTANTS
    SpeedArgs,      \* numbers a client types after "motor set speed"
    RampArgs,       \* ... after "motor set upramp"
    DownArgs,       \* ... after "motor set downramp"
    Readings,       \* values found in the drive's input registers
    QueueLength     \* length of QSpd_handle (2 in main.c)

ASSUME ArgsAssumption ==
    /\ SpeedArgs \subseteq Nat
    /\ RampArgs \subseteq Nat
    /\ DownArgs \subseteq Nat
ASSUME ReadingsAssumption == Readings \subseteq Word /\ Readings # {}
ASSUME QueueAssumption == QueueLength \in Nat \ {0}

VARIABLES
    QSpd,           \* contents of QSpd_handle
    telegram,       \* the CLI's global telegram
    cliPc,          \* "prompt", "send" (at xQueueSend), "wait" (at xQueueReceive)
    request,        \* the command being processed, or the last one
    answer,         \* what the client was last told
    motorPc,        \* where motorControl_task is
    telegramR,      \* its received telegram
    telegramS,      \* its answer; the data part survives from one to the next
    running,        \* the drive's run bits, written by modbus_WIB
    registers,      \* the drive's parameter registers, written by modbus_WR
    heartBeat,      \* motorHeartBeat_task: "suspended" or "polling"
    done,           \* history: motor operations carried out for this request
    failed,         \* history: a Modbus confirmation failed for this request
    misled          \* history: ... or was given for a call not carried out

cliVars   == <<telegram, cliPc, request, answer>>
motorVars == <<motorPc, telegramR, telegramS>>
drive     == <<running, registers>>
history   == <<done, failed, misled>>
vars      == <<QSpd, cliVars, motorVars, drive, heartBeat, history>>

-----------------------------------------------------------------------------
(* Telegrams.  Of the ten data words the properties tell apart word 0      *)
(* (speed), word 3 (up ramp) and whether words 1, 2 and 4 hold the preset  *)
(* that "set speed" puts there.                                            *)

QueueCommand == {"SETDATA", "GETDATA", "IDLE", "DELETE",
                 "START", "STOP", "SUCCSESS", "ERROR_MODBUS"}
Data          == [speed : Word, ramp : Word, preset : BOOLEAN]
QueueTelegram == [cmd : QueueCommand, data : Data]

ZeroData  == [speed |-> 0, ramp |-> 0, preset |-> FALSE]
InputData == [speed : Readings, ramp : Readings, preset : {FALSE}]

(* Commands of the client. *)
Request == [op : {"setSpeed"}, arg : SpeedArgs]
      \cup [op : {"setUpramp"}, arg : RampArgs]
      \cup [op : {"setDownramp"}, arg : DownArgs]
      \cup [op : {"getSpeed", "getUpramp", "getDownramp", "start", "stop"},
            arg : {0}]
Gets == {"getSpeed", "getUpramp", "getDownramp"}

(* What the handler of r makes of the global telegram before sending it.   *)
(* "get downramp" leaves it as the previous command left it.               *)
Preset(s) == [speed |-> 100 * s, ramp |-> 10, preset |-> TRUE]

FilledData(d, r) ==
    IF r.op = "setSpeed" THEN Preset(Parsed(r))
    ELSE [d EXCEPT !.ramp  = IF r.op = "setUpramp" THEN Parsed(r) ELSE @,
                   !.speed = IF r.op = "setDownramp" THEN 100 * Parsed(r) ELSE @]

Command == [setSpeed |-> "SETDATA", setUpramp |-> "SETDATA", setDownramp |-> "SETDATA",
            getSpeed |-> "GETDATA", getUpramp |-> "GETDATA",
            start |-> "START", stop |-> "STOP"]

Filled(t, r) ==
    [cmd  |-> IF r.op = "getDownramp" THEN t.cmd ELSE Command[r.op],
     data |-> FilledData(t.data, r)]

-----------------------------------------------------------------------------
(* Power-up: the global is zero (Qcmd 0 is SETDATA), the motor task's two  *)
(* telegrams are uninitialised locals.  telegramR is overwritten before it *)
(* is read; the data of telegramS can reach the client as it is.           *)

Init ==
    /\ QSpd = <<>>
    /\ telegram = [cmd |-> "SETDATA", data |-> ZeroData]
    /\ cliPc = "prompt"
    /\ request = [op |-> "stop", arg |-> 0]
    /\ answer = "none"
    /\ motorPc = "receive"
    /\ telegramR = [cmd |-> "IDLE", data |-> ZeroData]
    /\ telegramS \in [cmd : {"IDLE"}, data : InputData]
    /\ running = FALSE
    /\ registers = ZeroData
    /\ heartBeat = "suspended"
    /\ done = {}
    /\ failed = FALSE
    /\ misled = FALSE

-----------------------------------------------------------------------------
(* The CLI side. *)

(* A line arrives whose value is out of range (the handler answers with    *)
(* the range), or a get whose uninitialised `Value` happens to be NULL     *)
(* (the handler answers with the help text): nothing is sent.              *)
Refuse ==
    /\ cliPc = "prompt"
    /\ \E r \in Request :
         /\ ~Accepted(r) \/ r.op \in Gets
         /\ request' = r
    /\ answer' = "refused"
    /\ UNCHANGED <<QSpd, telegram, cliPc, motorVars, drive, heartBeat, history>>

Prepare ==
    /\ cliPc = "prompt"
    /\ \E r \in Request :
         /\ Accepted(r)
         /\ request' = r
         /\ telegram' = Filled(telegram, r)
    /\ cliPc' = "send"
    /\ UNCHANGED <<QSpd, answer, motorVars, drive, heartBeat, history>>

(* xQueueSend with portMAX_DELAY: blocks while the queue is full. *)
CliSend ==
    /\ cliPc = "send"
    /\ Len(QSpd) < QueueLength
    /\ QSpd' = Append(QSpd, telegram)
    /\ cliPc' = "wait"
    /\ answer' = "none"
    /\ done' = {}
    /\ failed' = FALSE
    /\ misled' = FALSE
    /\ UNCHANGED <<telegram, request, motorVars, drive, heartBeat>>

(* Mutant: any telegram that comes back counts as success. *)
CliReceiveUnchecked ==
    /\ cliPc = "wait"
    /\ QSpd # <<>>
    /\ telegram' = Head(QSpd)
    /\ QSpd' = Tail(QSpd)
    /\ answer' = "success"
    /\ cliPc' = "prompt"
    /\ UNCHANGED <<request, motorVars, drive, heartBeat, history>>

(* xQueueReceive into the global: whatever is at the head, which may be    *)
(* the command this task has just sent.                                    *)
CliReceive ==
    /\ cliPc = "wait"
    /\ QSpd # <<>>
    /\ telegram' = Head(QSpd)
    /\ QSpd' = Tail(QSpd)
    /\ answer' = IF Head(QSpd).cmd = "SUCCSESS" THEN "success" ELSE "modbusError"
    /\ cliPc' = "prompt"
    /\ UNCHANGED <<request, motorVars, drive, heartBeat, history>>

CliNext == Refuse \/ Prepare \/ CliSend \/ CliReceive

-----------------------------------------------------------------------------
(* The motor side. *)

FirstStep(cmd) ==
    IF cmd \in {"SETDATA", "START", "STOP"} THEN "writeBits"
    ELSE IF cmd = "GETDATA" THEN "readRegisters" ELSE "reply"

MotorReceive ==
    /\ motorPc = "receive"
    /\ QSpd # <<>>
    /\ telegramR' = Head(QSpd)
    /\ QSpd' = Tail(QSpd)
    /\ motorPc' = FirstStep(Head(QSpd).cmd)
    /\ UNCHANGED <<cliVars, telegramS, drive, heartBeat, history>>

(* Outcomes of a Modbus call that returns.  While the heartbeat sleeps a    *)
(* confirmed call was carried out (ModbusLine, ConfirmedMeansApplied); a   *)
(* polling heartbeat may fetch this call's answer, or leave it its own.    *)
Possible(applied, confirmed) == heartBeat = "suspended" /\ confirmed => applied

(* The `if (!modbus_...) telegramS.Qcmd = ERROR_MODBUS` around each call.  *)
Note(step, s, applied, confirmed) ==
    /\ telegramS' = IF confirmed THEN s ELSE [s EXCEPT !.cmd = "ERROR_MODBUS"]
    /\ done' = done \cup {step}
    /\ failed' = (failed \/ ~confirmed)
    /\ misled' = (misled \/ (confirmed /\ ~applied))

(* Mutant: src still holds the ones of the previous command. *)
WriteBitsStale ==
    /\ motorPc = "writeBits"
    /\ \E applied, confirmed \in BOOLEAN :
         /\ Possible(applied, confirmed)
         /\ running' = (running \/ applied)
         /\ Note("bits", telegramS, applied, confirmed)
    /\ motorPc' = IF telegramR.cmd = "STOP" THEN "reply" ELSE "writeRegisters"
    /\ UNCHANGED <<QSpd, cliVars, telegramR, registers, heartBeat>>

(* Mutant: the early xQueueSend of the error branch, commented out in      *)
(* modbus_mk.c, is restored without the break that follows it.             *)
WriteBitsEarlyReply ==
    /\ motorPc = "writeBits"
    /\ \E applied, confirmed \in BOOLEAN :
         /\ Possible(applied, confirmed)
         /\ running' = IF applied THEN telegramR.cmd # "STOP" ELSE running
         /\ Note("bits", telegramS, applied, confirmed)
         /\ QSpd' = IF confirmed THEN QSpd ELSE Append(QSpd, telegramS')
    /\ motorPc' = IF telegramR.cmd = "STOP" THEN "reply" ELSE "writeRegisters"
    /\ UNCHANGED <<cliVars, telegramR, registers, heartBeat>>

(* modbus_WIB(0, 3, src): ones for SETDATA and START, zeros for STOP. *)
WriteBits ==
    /\ motorPc = "writeBits"
    /\ \E applied, confirmed \in BOOLEAN :
         /\ Possible(applied, confirmed)
         /\ running' = IF applied THEN telegramR.cmd # "STOP" ELSE running
         /\ Note("bits", telegramS, applied, confirmed)
    /\ motorPc' = IF telegramR.cmd = "STOP" THEN "reply" ELSE "writeRegisters"
    /\ UNCHANGED <<QSpd, cliVars, telegramR, registers, heartBeat>>

(* modbus_WR(0, 5, telegramR.data). *)
WriteRegisters ==
    /\ motorPc = "writeRegisters"
    /\ \E applied, confirmed \in BOOLEAN :
         /\ Possible(applied, confirmed)
         /\ registers' = IF applied THEN telegramR.data ELSE registers
         /\ Note("registers", telegramS, applied, confirmed)
    /\ motorPc' = IF telegramR.cmd = "START" THEN "resume" ELSE "reply"
    /\ UNCHANGED <<QSpd, cliVars, telegramR, running, heartBeat>>

(* modbus_RR(0, 10, telegramS.data): the words are stored before the CRC   *)
(* of the answer is looked at.                                             *)
ReadRegisters ==
    /\ motorPc = "readRegisters"
    /\ \E d \in InputData, confirmed \in BOOLEAN :
         Note("read", [telegramS EXCEPT !.data = d], TRUE, confirmed)
    /\ motorPc' = "reply"
    /\ UNCHANGED <<QSpd, cliVars, telegramR, drive, heartBeat>>

(* xSemaphoreTake with portMAX_DELAY: a call whose answer stays away, or   *)
(* was taken for the heartbeat's, never returns.                           *)
Hang ==
    /\ motorPc \in {"writeBits", "writeRegisters", "readRegisters"}
    /\ \E applied \in BOOLEAN :
         /\ running' = IF applied /\ motorPc = "writeBits"
                       THEN telegramR.cmd # "STOP" ELSE running
         /\ registers' = IF applied /\ motorPc = "writeRegisters"
                         THEN telegramR.data ELSE registers
    /\ motorPc' = "hung"
    /\ UNCHANGED <<QSpd, cliVars, telegramR, telegramS, heartBeat, history>>

(* vTaskResume(motorHeartBeatHandle): no effect on a task already awake.  *)
ResumeHeartBeat ==
    /\ motorPc = "resume"
    /\ heartBeat' = "polling"
    /\ done' = done \cup {"resume"}
    /\ motorPc' = "reply"
    /\ UNCHANGED <<QSpd, cliVars, telegramR, telegramS, drive, failed, misled>>

(* Each known command ends by setting SUCCSESS, whatever was noted before; *)
(* the default case sets ERROR_MODBUS.  Then xQueueSend.                   *)
ReplyTo(cmd) ==
    IF cmd \in {"SETDATA", "GETDATA", "START", "STOP"} THEN "SUCCSESS" ELSE "ERROR_MODBUS"

(* Mutant: the default case falls out of the switch without answering. *)
ReplyKnownOnly ==
    LET s == [telegramS EXCEPT !.cmd = ReplyTo(telegramR.cmd)] IN
    /\ motorPc = "reply"
    /\ Len(QSpd) < QueueLength
    /\ telegramS' = s
    /\ QSpd' = IF s.cmd = "SUCCSESS" THEN Append(QSpd, s) ELSE QSpd
    /\ motorPc' = "receive"
    /\ UNCHANGED <<cliVars, telegramR, drive, heartBeat, history>>

MotorReply ==
    LET s == [telegramS EXCEPT !.cmd = ReplyTo(telegramR.cmd)] IN
    /\ motorPc = "reply"
    /\ Len(QSpd) < QueueLength
    /\ telegramS' = s
    /\ QSpd' = Append(QSpd, s)
    /\ motorPc' = "receive"
    /\ UNCHANGED <<cliVars, telegramR, drive, heartBeat, history>>

MotorNext == \/ MotorReceive \/ WriteBits \/ WriteRegisters
             \/ ReadRegisters \/ Hang \/ ResumeHeartBeat \/ MotorReply

Next == CliNext \/ MotorNext

(* Both tasks are ready at one priority and get time slices in turn, so a  *)
(* step that stays possible is taken.  CliReceive needs more: the motor    *)
(* may empty the queue between two slices of the CLI.  It would have to    *)
(* do so in the few instructions between the CLI's wake-up and its take,   *)
(* each time, for ever: strong fairness rules that out.  A Modbus call     *)
(* returns or hangs.                                                       *)
Fairness ==
    /\ WF_vars(CliSend)
    /\ SF_vars(CliReceive)
    /\ WF_vars(MotorNext)

Spec     == Init /\ [][Next]_vars /\ Fairness
SafeSpec == Init /\ [][Next]_vars

-----------------------------------------------------------------------------
(* Properties *)

(* Every variable keeps to its type: telegrams have 16-bit data and known  *)
(* commands, whatever number the client typed.                             *)
TypeOK ==
    /\ QSpd \in Seq(QueueTelegram)
    /\ telegram \in QueueTelegram
    /\ cliPc \in {"prompt", "send", "wait"}
    /\ request \in Request
    /\ answer \in {"none", "refused", "success", "modbusError"}
    /\ motorPc \in {"receive", "writeBits", "writeRegisters", "readRegisters",
                    "hung", "resume", "reply"}
    /\ telegramR \in QueueTelegram
    /\ telegramS \in QueueTelegram
    /\ running \in BOOLEAN
    /\ registers \in Data
    /\ heartBeat \in {"suspended", "polling"}
    /\ done \subseteq {"bits", "registers", "read", "resume"}
    /\ failed \in BOOLEAN
    /\ misled \in BOOLEAN

(* One queue serves both directions, and is still never confused about     *)
(* how many telegrams exist: while the CLI waits, exactly one telegram is  *)
(* either in the queue or being worked on, and otherwise there is none.    *)
(* Hence no xQueueSend ever blocks, and the two tasks never wait for each  *)
(* other with nothing in flight.                                           *)
OneTelegram ==
    Len(QSpd) + (IF motorPc = "receive" THEN 0 ELSE 1)
        = (IF cliPc = "wait" THEN 1 ELSE 0)

(* What the motor task does for each command it is asked for.              *)
Duties == [setSpeed    |-> {"bits", "registers"},
           setUpramp   |-> {"bits", "registers"},
           setDownramp |-> {"bits", "registers"},
           getSpeed    |-> {"read"},
           getUpramp   |-> {"read"},
           start       |-> {"bits", "registers", "resume"},
           stop        |-> {"bits"}]

(* A client told "succsesfully" can rely on the motor task having made all *)
(* the Modbus calls of that very command and no other, although the CLI    *)
(* may pick up its own telegram and the motor its own reply.  "get         *)
(* downramp" is left out: it sends a stale telegram.                       *)
SuccessMeansDone ==
    cliPc = "prompt" /\ answer = "success" /\ request.op # "getDownramp"
        => done = Duties[request.op]

(* A client told of an error knows less than the documents say: its        *)
(* command was never looked at (the CLI took it back), or was carried out  *)
(* to its end (the motor task took its own SUCCSESS for a command).        *)
ErrorMeansAllOrNothing ==
    cliPc = "prompt" /\ answer = "modbusError" /\ request.op # "getDownramp"
        => done \in {{}, Duties[request.op]}

(* Whatever the answer, no command is left half done (prvMotorCommand,     *)
(* motorControl_task).                                                     *)
NothingHalfDone == SuccessMeansDone /\ ErrorMeansAllOrNothing

(* What a command with a number in the range its refusal names (tcpCLI.c)  *)
(* should leave the drive in: the number as it was typed.  Nothing is said *)
(* of a number that is out of range and gets into it by the cut to 16 bits,*)
(* nor of "set downramp": it is to set the time of the down ramp, and what *)
(* the handler writes is the speed, a hundredth of the number in percent.  *)
Shows(r) ==
    /\ r.op = "setSpeed" /\ r.arg \in 1 .. 100   => running /\ registers = Preset(r.arg)
    /\ r.op = "setUpramp" /\ r.arg \in 15 .. 300 => running /\ registers.ramp = r.arg
    /\ r.op = "start" => running /\ heartBeat = "polling"
    /\ r.op = "stop"  => ~running

(* When every call was confirmed, and confirmed by the drive that had      *)
(* carried it out, a command reported as successful has reached the drive: *)
(* through the global telegram, the queue that both tasks read, and the    *)
(* motor task.                                                             *)
SuccessShowsOnDrive ==
    cliPc = "prompt" /\ answer = "success" /\ ~failed /\ ~misled => Shows(request)

(* The drive is written only while a client waits for its answer: no write *)
(* of a command trails behind the answer, as it would if an answer could   *)
(* overtake the rest of its command.                                       *)
NoWriteAfterAnswer == [][drive' # drive => cliPc = "wait" /\ cliPc' = "wait"]_vars

(* Only an empty queue makes a task wait: a send is always possible at     *)
(* once, so is the step after a Modbus call, and a CLI that waits can take *)
(* whatever is in the queue.  (ENABLED: the step really exists.)           *)
OnlyWaitsForMessage ==
    /\ cliPc = "send" => ENABLED <<CliSend>>_vars
    /\ cliPc = "wait" /\ QSpd # <<>> => ENABLED <<CliReceive>>_vars
    /\ motorPc \notin {"receive", "hung"} => ENABLED <<MotorNext>>_vars

(* Every command that was sent is answered, unless a Modbus call hangs.    *)
Answered == cliPc = "wait" ~> cliPc = "prompt" \/ motorPc = "hung"

(* The queue and the two tasks implement the single token.                 *)
TokenPlace == IF motorPc = "hung" THEN "lost"
              ELSE IF motorPc # "receive" THEN "motor"
              ELSE IF QSpd # <<>> THEN "table" ELSE "cli"

Token == INSTANCE TelegramToken WITH heldBy <- TokenPlace
ImplementsToken == Token!Spec

-----------------------------------------------------------------------------
(* What the code and its documents say and the program does not do.        *)

(* "ERROR if error has occured" (tcpCLI.h, ERROR_MODBUS): a client is not  *)
(* told success when a Modbus confirmation failed.                         *)
ErrorReachesClient == answer = "success" => ~failed

(* "send value to setSpeed_task via Queue" (tcpCLI.c): a command that was  *)
(* sent is received by the motor task, not by its sender.                  *)
CommandReachesMotor ==
    [][CliReceive => Head(QSpd).cmd \in {"SUCCSESS", "ERROR_MODBUS"}]_vars

(* "set motor speed to 10%" (modbus_mk.c, case START).                     *)
StartSetsTenPercent ==
    [][WriteRegisters /\ telegramR.cmd = "START" /\ registers' # registers
        => registers'.speed = 1000]_vars
=============================================================================
