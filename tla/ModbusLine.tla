----------------------------- MODULE ModbusLine -----------------------------
(***************************************************************************)
(* One Modbus line and its two users: write_read_modbus with the modbus_*  *)
(* functions around it, USART6_IRQHandler, motorHeartBeat_task and the     *)
(* calls of motorControl_task (modbus_mk.c).                               *)
(*                                                                         *)
(* Both tasks share rx_length, received_string, the handler's static cnt,  *)
(* the direction pin of the line driver and one binary semaphore, with no  *)
(* mutex around a transaction.  The handler counts bytes, the echo of the  *)
(* request included, and gives the semaphore when the announced number     *)
(* has come in.                                                            *)
(*                                                                         *)
(* External: the line and the drive.  The line carries one byte at a time; *)
(* a byte of the controller and one of the drive at once arrive as one     *)
(* damaged byte.  The drive answers a request it has heard whole and       *)
(* uninterrupted, and is deaf while it answers.                            *)
(***************************************************************************)
EXTENDS Naturals

Kinds == {"WIB", "WR", "RR"}            \* modbus_WIB, modbus_WR, modbus_RR
Tasks == {"motor", "heartBeat"}

CONSTANTS
    WriteLen, ReadLen,  \* write_len and read_len of each kind
    MAX_STRLEN,         \* last place of received_string
    MaxCalls,           \* bound: calls of each task
    MaxFaults           \* bound: bytes lost, damaged or added, requests and
                        \* answers that come to nothing

ASSUME LengthAssumption ==
    /\ WriteLen \in [Kinds -> Nat \ {0}]
    /\ ReadLen \in [Kinds -> Nat \ {0}]
    /\ MAX_STRLEN \in Nat
    /\ \A k \in Kinds : WriteLen[k] + ReadLen[k] <= MAX_STRLEN + 1
ASSUME BoundAssumption == MaxCalls \in [Tasks -> Nat] /\ MaxFaults \in Nat

VARIABLES
    pc,             \* of each task: "suspended", "idle", "send", "take", "copy"
    call,           \* its present, or last, kind of transaction
    i,              \* its loop counter: bytes sent, then bytes copied
    spelled,        \* the kinds whose answer begins with the bytes copied so far
    result,         \* what the motor task's last transaction returned
    rx_length, cnt, received_string, xSmphrUSART,
    driver,         \* the pin that DD() sets and DE() clears
    wire,           \* the byte on the line, or Nothing
    heard,          \* what the drive has heard since the last silence
    answer,         \* the next byte of the drive's answer, 0 when there is none
    applied,        \* history: the drive carried out the motor's request
    calls,          \* history: calls of each task so far
    faults,         \* history: faults so far
    noise           \* history: a byte that nobody sent was received

tasks   == <<pc, call, i, spelled, result>>
handler == <<rx_length, cnt, received_string, xSmphrUSART>>
drive   == <<heard, answer, applied>>
history == <<calls, faults, noise>>
vars    == <<tasks, handler, driver, wire, drive, history>>

-----------------------------------------------------------------------------
(* Bytes are told apart by the frame they belong to and their place in it. *)

Req(k, n) == [frame |-> "request", kind |-> k, place |-> n]
Ans(k, n) == [frame |-> "answer", kind |-> k, place |-> n]
Damaged   == [frame |-> "damaged", kind |-> "RR", place |-> 0]
Nothing   == [frame |-> "nothing", kind |-> "RR", place |-> 0]

Byte == [frame : {"request", "answer", "damaged"}, kind : Kinds, place : Nat]

(* Of the received bytes only those of an answer are looked at again. *)
Kept(b) == IF b.frame = "answer" THEN b ELSE Damaged

Silent  == [kind |-> "RR", n |-> 0, fresh |-> FALSE, garbled |-> FALSE]
NoReply == [kind |-> "RR", next |-> 0]

Init ==
    /\ pc = [motor |-> "idle", heartBeat |-> "suspended"]
    /\ call = [t \in Tasks |-> "RR"]
    /\ i = [t \in Tasks |-> 0]
    /\ spelled = [t \in Tasks |-> {}]
    /\ result = "none"
    /\ rx_length = 0
    /\ cnt = 0
    /\ received_string = [n \in 0 .. MAX_STRLEN |-> Damaged]
    /\ xSmphrUSART = FALSE
    /\ driver = TRUE
    /\ wire = Nothing
    /\ heard = Silent
    /\ answer = NoReply
    /\ applied = FALSE
    /\ calls = [t \in Tasks |-> 0]
    /\ faults = 0
    /\ noise = FALSE

-----------------------------------------------------------------------------
(* write_read_modbus. *)

(* Mutant: the announced length is one too long. *)
AnnounceOneMore(t, k) ==
    /\ pc[t] = "idle"
    /\ calls[t] < MaxCalls[t]
    /\ calls' = [calls EXCEPT ![t] = @ + 1]
    /\ rx_length' = ReadLen[k] + WriteLen[k]
    /\ driver' = TRUE
    /\ call' = [call EXCEPT ![t] = k]
    /\ i' = [i EXCEPT ![t] = 0]
    /\ pc' = [pc EXCEPT ![t] = "send"]

(* "tell ISR we expect only specific amount of data", then DD(). *)
Announce(t, k) ==
    /\ pc[t] = "idle"
    /\ calls[t] < MaxCalls[t]
    /\ calls' = [calls EXCEPT ![t] = @ + 1]
    /\ rx_length' = ReadLen[k] + WriteLen[k] - 1
    /\ driver' = TRUE
    /\ call' = [call EXCEPT ![t] = k]
    /\ i' = [i EXCEPT ![t] = 0]
    /\ pc' = [pc EXCEPT ![t] = "send"]

(* The motor task makes whatever call its command asks for; a frame the    *)
(* drive may still be hearing belongs to an older call.                    *)
MotorCall(k) ==
    /\ Announce("motor", k)
    /\ result' = "none"
    /\ applied' = FALSE
    /\ heard' = [heard EXCEPT !.fresh = FALSE]
    /\ UNCHANGED <<spelled, cnt, received_string, xSmphrUSART, wire, answer, faults, noise>>

HeartBeatCall ==
    /\ Announce("heartBeat", "RR")
    /\ UNCHANGED <<spelled, result, cnt, received_string, xSmphrUSART, wire, drive,
                   faults, noise>>

(* What the drive makes of a byte b of task t. *)
Hear(b, t) ==
    IF answer.next # 0 \/ heard.garbled THEN [heard EXCEPT !.garbled = TRUE]
    ELSE IF heard.n = 0 /\ b.frame = "request" /\ b.place = 1
    THEN [kind |-> b.kind, n |-> 1, fresh |-> t = "motor", garbled |-> FALSE]
    ELSE IF heard.n # 0 /\ b = Req(heard.kind, heard.n + 1)
    THEN [heard EXCEPT !.n = @ + 1]
    ELSE [heard EXCEPT !.garbled = TRUE]

(* USART_puts: the next byte once the one before is out; it reaches the    *)
(* line only while the driver is on.  DE() after the last one.             *)
SendByte(t) ==
    LET b == IF wire = Nothing THEN Req(call[t], i[t] + 1) ELSE Damaged
        last == i[t] + 1 = WriteLen[call[t]] IN
    /\ pc[t] = "send"
    /\ wire = Nothing \/ wire.frame = "answer"
    /\ wire' = IF driver THEN b ELSE wire
    /\ heard' = IF driver THEN Hear(b, t) ELSE heard
    /\ i' = [i EXCEPT ![t] = @ + 1]
    /\ pc' = [pc EXCEPT ![t] = IF last THEN "take" ELSE @]
    /\ driver' = (driver /\ ~last)
    /\ UNCHANGED <<call, spelled, result, handler, answer, applied, history>>

SameLength(k) == {a \in Kinds : ReadLen[a] = ReadLen[k]}

(* Mutant: the semaphore is waited for with a timeout and the outcome of   *)
(* the wait is not looked at.                                              *)
TakeOrTimeOut(t) ==
    /\ pc[t] = "take"
    /\ xSmphrUSART' = FALSE
    /\ pc' = [pc EXCEPT ![t] = "copy"]
    /\ i' = [i EXCEPT ![t] = 0]
    /\ spelled' = [spelled EXCEPT ![t] = SameLength(call[t])]
    /\ UNCHANGED <<call, result, rx_length, cnt, received_string, driver, wire, drive, history>>

(* xSemaphoreTake with portMAX_DELAY. *)
Take(t) ==
    /\ pc[t] = "take"
    /\ xSmphrUSART
    /\ xSmphrUSART' = FALSE
    /\ pc' = [pc EXCEPT ![t] = "copy"]
    /\ i' = [i EXCEPT ![t] = 0]
    /\ spelled' = [spelled EXCEPT ![t] = SameLength(call[t])]
    /\ UNCHANGED <<call, result, rx_length, cnt, received_string, driver, wire, drive, history>>

(* One byte behind the echo is copied; after the last one the CRC is       *)
(* looked at: it holds for one whole answer, of whatever kind.             *)
CopyByte(t) ==
    LET b == received_string[WriteLen[call[t]] + i[t]]
        last == i[t] + 1 = ReadLen[call[t]] IN
    /\ pc[t] = "copy"
    /\ spelled' = [spelled EXCEPT ![t] = {a \in @ : b = Ans(a, i[t] + 1)}]
    /\ i' = [i EXCEPT ![t] = @ + 1]
    /\ pc' = [pc EXCEPT ![t] = IF last THEN "idle" ELSE @]
    /\ result' = IF t # "motor" \/ ~last THEN result
                 ELSE IF spelled'[t] # {} THEN "confirmed" ELSE "failed"
    /\ UNCHANGED <<call, handler, driver, wire, drive, history>>

(* vTaskResume(motorHeartBeatHandle), after the WR of START. *)
ResumeHeartBeat ==
    /\ pc["motor"] = "idle" /\ call["motor"] = "WR"
    /\ pc["heartBeat"] = "suspended"
    /\ pc' = [pc EXCEPT !["heartBeat"] = "idle"]
    /\ UNCHANGED <<call, i, spelled, result, handler, driver, wire, drive, history>>

-----------------------------------------------------------------------------
(* The handler: every byte is stored, the last announced one restarts the  *)
(* count and gives the semaphore.                                          *)

(* Mutant: the count is compared for equality only. *)
HandlerWaitsForEqual ==
    /\ wire # Nothing
    /\ received_string' = [received_string EXCEPT ![cnt] = Kept(wire)]
    /\ IF cnt # rx_length
       THEN cnt' = cnt + 1 /\ UNCHANGED xSmphrUSART
       ELSE cnt' = 0 /\ xSmphrUSART' = TRUE
    /\ wire' = Nothing
    /\ UNCHANGED <<tasks, rx_length, driver, drive, history>>

(* Mutant: the count is not restarted. *)
HandlerKeepsCounting ==
    /\ wire # Nothing
    /\ received_string' = [received_string EXCEPT ![cnt] = Kept(wire)]
    /\ IF cnt < rx_length /\ cnt < MAX_STRLEN
       THEN cnt' = cnt + 1 /\ UNCHANGED xSmphrUSART
       ELSE UNCHANGED cnt /\ xSmphrUSART' = TRUE
    /\ wire' = Nothing
    /\ UNCHANGED <<tasks, rx_length, driver, drive, history>>

(* Mutant: the receive interrupt stays off until the semaphore is taken. *)
HandlerWaitsForTake ==
    /\ wire # Nothing /\ ~xSmphrUSART
    /\ received_string' = [received_string EXCEPT ![cnt] = Kept(wire)]
    /\ IF cnt < rx_length /\ cnt < MAX_STRLEN
       THEN cnt' = cnt + 1 /\ UNCHANGED xSmphrUSART
       ELSE cnt' = 0 /\ xSmphrUSART' = TRUE
    /\ wire' = Nothing
    /\ UNCHANGED <<tasks, rx_length, driver, drive, history>>

USART6_IRQHandler ==
    /\ wire # Nothing
    /\ received_string' = [received_string EXCEPT ![cnt] = Kept(wire)]
    /\ IF cnt < rx_length /\ cnt < MAX_STRLEN
       THEN cnt' = cnt + 1 /\ UNCHANGED xSmphrUSART
       ELSE cnt' = 0 /\ xSmphrUSART' = TRUE
    /\ wire' = Nothing
    /\ UNCHANGED <<tasks, rx_length, driver, drive, history>>

-----------------------------------------------------------------------------
(* The drive and the line. *)

(* After a garbled frame the drive waits for silence. *)
Silence ==
    /\ heard.garbled
    /\ wire = Nothing /\ answer.next = 0
    /\ heard' = Silent
    /\ UNCHANGED <<tasks, handler, driver, wire, answer, applied, history>>

Execute ==
    /\ heard.n = WriteLen[heard.kind] /\ ~heard.garbled
    /\ wire = Nothing
    /\ answer' = [kind |-> heard.kind, next |-> 1]
    /\ applied' = (applied \/ heard.fresh)
    /\ heard' = Silent
    /\ UNCHANGED <<tasks, handler, driver, wire, history>>

(* Against a driver that is on, a byte may or may not come through. *)
AnswerByte ==
    /\ answer.next # 0
    /\ wire = Nothing
    /\ wire' \in {Ans(answer.kind, answer.next)} \cup (IF driver THEN {Damaged} ELSE {})
    /\ answer' = IF answer.next = ReadLen[answer.kind] THEN NoReply
                 ELSE [answer EXCEPT !.next = @ + 1]
    /\ UNCHANGED <<tasks, handler, driver, heard, applied, history>>

DriveNext == Silence \/ Execute \/ AnswerByte

(* A byte is lost or damaged on its way to the controller, or noise is     *)
(* taken for one.                                                          *)
LoseByte   == wire # Nothing /\ wire' = Nothing /\ UNCHANGED <<drive, noise>>
DamageByte == /\ wire \notin {Nothing, Damaged} /\ wire' = Damaged
              /\ UNCHANGED <<drive, noise>>
AddByte    == wire = Nothing /\ wire' = Damaged /\ noise' = TRUE /\ UNCHANGED drive

(* The drive does not recognise what it has heard so far, or breaks off    *)
(* its answer.                                                             *)
DeafDrive == /\ heard # Silent /\ heard' = Silent
             /\ UNCHANGED <<wire, answer, applied, noise>>
MuteDrive == /\ answer.next # 0 /\ answer' = NoReply
             /\ UNCHANGED <<wire, heard, applied, noise>>

Fault ==
    /\ faults < MaxFaults
    /\ faults' = faults + 1
    /\ LoseByte \/ DamageByte \/ AddByte \/ DeafDrive \/ MuteDrive
    /\ UNCHANGED <<tasks, handler, driver, calls>>

-----------------------------------------------------------------------------
TaskNext(t) == SendByte(t) \/ Take(t) \/ CopyByte(t)

Next == \/ \E k \in Kinds : MotorCall(k)
        \/ HeartBeatCall
        \/ ResumeHeartBeat
        \/ \E t \in Tasks : TaskNext(t)
        \/ USART6_IRQHandler
        \/ DriveNext
        \/ Fault

(* A ready task runs, an interrupt is served, the drive goes on.  Nothing  *)
(* makes a command or a fault happen.                                      *)
TaskFairness(t) == WF_vars(TaskNext(t))
LineFairness    == WF_vars(USART6_IRQHandler) /\ WF_vars(DriveNext)
Fairness        == (\A t \in Tasks : TaskFairness(t)) /\ LineFairness

Spec     == Init /\ [][Next]_vars /\ Fairness
SafeSpec == Init /\ [][Next]_vars

-----------------------------------------------------------------------------
(* Properties *)

(* Every variable keeps to its type.  In particular the handler never      *)
(* writes past received_string, though each task may announce a smaller    *)
(* number while the handler has already counted further for the other.     *)
TypeOK ==
    /\ pc \in [Tasks -> {"suspended", "idle", "send", "take", "copy"}]
    /\ call \in [Tasks -> Kinds]
    /\ i \in [Tasks -> Nat]
    /\ spelled \in [Tasks -> SUBSET Kinds]
    /\ result \in {"none", "confirmed", "failed"}
    /\ rx_length \in 0 .. MAX_STRLEN
    /\ cnt \in 0 .. MAX_STRLEN
    /\ received_string \in [0 .. MAX_STRLEN -> Byte]
    /\ xSmphrUSART \in BOOLEAN
    /\ driver \in BOOLEAN
    /\ wire \in Byte \cup {Nothing}
    /\ heard \in [kind : Kinds, n : Nat, fresh : BOOLEAN, garbled : BOOLEAN]
    /\ answer \in [kind : Kinds, next : Nat]
    /\ applied \in BOOLEAN
    /\ calls \in [Tasks -> Nat]
    /\ faults \in 0 .. MaxFaults
    /\ noise \in BOOLEAN

Alone == pc["heartBeat"] = "suspended"
Quiet == wire = Nothing /\ heard = Silent /\ answer = NoReply

(* While the heartbeat sleeps, a confirmed call was carried out by the     *)
(* drive in that very call, whatever was lost or damaged: a leftover byte, *)
(* count or answer of an earlier call is not taken for one of this call.   *)
(* A byte out of nowhere does break this (see AddByte), hence noise.       *)
ConfirmedMeansApplied == Alone /\ ~noise /\ result = "confirmed" => applied

(* While the heartbeat sleeps and nothing goes wrong, nothing is left      *)
(* between two calls: the count has restarted, the semaphore is taken, the *)
(* line is quiet and the call was confirmed.                               *)
CleanBetweenCalls ==
    Alone /\ faults = 0 /\ pc["motor"] = "idle" =>
        cnt = 0 /\ ~xSmphrUSART /\ Quiet /\ result # "failed"

(* ... and every call of write_read_modbus returns.                        *)
CallEnds == pc["motor"] = "send" ~> pc["motor"] = "idle" \/ faults > 0 \/ ~Alone

(* Nobody waits but for a byte or the semaphore: a task sends as soon as   *)
(* the byte before is out, a byte that comes in is received whatever state *)
(* the handler's count and the tasks are in, and the drive goes on when    *)
(* the line is free.  (ENABLED: the step really exists.)                   *)
MaySend(t) == pc[t] = "send" /\ (wire = Nothing \/ wire.frame = "answer")
MayTake(t) == pc[t] = "take" /\ xSmphrUSART
HeardWhole == heard.n = WriteLen[heard.kind] /\ ~heard.garbled

TaskGoesOn(t) ==
    MaySend(t) \/ MayTake(t) \/ pc[t] = "copy" => ENABLED <<TaskNext(t)>>_vars

LineGoesOn ==
    /\ \A t \in Tasks : TaskGoesOn(t)
    /\ wire # Nothing => ENABLED <<USART6_IRQHandler>>_vars
    /\ wire = Nothing /\ (answer.next # 0 \/ HeardWhole) => ENABLED <<DriveNext>>_vars

-----------------------------------------------------------------------------
(* What the documents say and the program does not do.                     *)

(* "COMMAND : motor stop ... RETURN" (todo.txt): a command comes back with *)
(* success or an error.  It cannot when both tasks wait for the semaphore  *)
(* with nothing on the line: no byte will come that could give it.         *)
CommandCanReturn ==
    faults = 0 => ~((\A t \in Tasks : pc[t] = "take") /\ ~xSmphrUSART /\ Quiet)
=============================================================================
