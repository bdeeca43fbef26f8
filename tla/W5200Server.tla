----------------------------- MODULE W5200Server -----------------------------
(***************************************************************************)
(* From a segment on the wire to the task that answers it: EXTI4_IRQHandler*)
(* and locate_interrupt, and the loop of set_macTask with recv and send    *)
(* (W5200.c).                                                              *)
(*                                                                         *)
(* External: the W5200 chip (socket 0: its status, its receive memory and  *)
(* its interrupt register; INT is low while a bit of it is set), the EXTI  *)
(* line (latches a falling edge of INT, stays pending until cleared) and   *)
(* the client.  The handler runs above every task: no task moves while it  *)
(* runs or is pending.                                                     *)
(*                                                                         *)
(* An SPI access is one step with the right result, or goes wrong: one of  *)
(* the task's that an interrupt meets (SpiDma), and any of the handler's,  *)
(* whose transfer is lost in the task's or whose blocking take loops in a  *)
(* list it has entered twice (list.c:161).  One that goes wrong never ends,*)
(* or has a wrong result; what is done with that is followed only for a    *)
(* poll, and otherwise is the state "hung" too.                            *)
(*                                                                         *)
(* A line is known by its number.  A blank one is shorter than three       *)
(* characters with its line end.  A text that is read is known by the first*)
(* line of it.  What a command does is not modelled here, only which text  *)
(* is handed to the interpreter.                                           *)
(***************************************************************************)
EXTENDS Naturals, Sequences, FiniteSets

CONSTANT MaxLines       \* bound: lines a client types

ASSUME LinesAssumption == MaxLines \in Nat

VARIABLES
    sr,         \* socket status: "LISTEN", "ESTABLISHED", "CLOSE_WAIT"
    rx,         \* lines in the receive memory
    ir,         \* bits set in the socket's interrupt register
    sending,    \* the chip has a reply on its way, SENDOK is still to come
    sent,       \* it has left: TX_RD has reached the write pointer
    exti,       \* the EXTI line is pending
    isr,        \* the handler: "idle", its next step, or "hung"
    code,       \* the register as the handler read it
    server,     \* set_macTask: "suspended", its next step, or "hung"; "stray" is
                \* "recv" of a server that nobody has resumed
    buf,        \* the text being processed; 0 when recv gave less than 3 bytes
    oldbuf,     \* the last text processed; 0 before the first
    typed,      \* history: lines typed
    blanks,     \* history: those of them that were blank
    executed,   \* history: texts handed to the interpreter, in order
    replies,    \* history: replies the client got
    hasty       \* history: the client did something while a reply or an
                \* interrupt was still under way

chip   == <<sr, rx, ir, sending, sent, exti>>
irq    == <<isr, code>>
task   == <<server, buf, oldbuf, executed>>
client == <<typed, blanks, replies, hasty>>
vars   == <<chip, irq, task, client>>

Init ==
    /\ sr = "LISTEN" /\ rx = <<>> /\ ir = {} /\ exti = FALSE
    /\ sending = FALSE /\ sent = FALSE
    /\ isr = "idle" /\ code = {}
    /\ server = "suspend" /\ buf = 0 /\ oldbuf = 0
    /\ typed = 0 /\ blanks = {} /\ executed = <<>> /\ replies = 0 /\ hasty = FALSE

-----------------------------------------------------------------------------
(* The chip and the client. *)

(* A bit is set.  INT falls only if no bit was set before. *)
Raise(bit) ==
    /\ ir' = ir \cup {bit}
    /\ exti' = (exti \/ ir = {})

(* Nothing moves any more unless the client does. *)
Quiet ==
    /\ ir = {} /\ ~exti /\ isr = "idle" /\ ~sending
    /\ server \in {"suspended", "hung"} \/ (server = "stray" /\ rx = <<>>)

Connect ==
    /\ sr = "LISTEN"
    /\ sr' = "ESTABLISHED"
    /\ Raise("CON")
    /\ hasty' = (hasty \/ ~Quiet)
    /\ UNCHANGED <<rx, sending, sent, irq, task, typed, blanks, replies>>

TypeLine ==
    /\ sr = "ESTABLISHED"
    /\ typed < MaxLines
    /\ typed' = typed + 1
    /\ rx' = Append(rx, typed + 1)
    /\ \E blank \in BOOLEAN : blanks' = IF blank THEN blanks \cup {typed + 1} ELSE blanks
    /\ Raise("RECV")
    /\ hasty' = (hasty \/ ~Quiet)
    /\ UNCHANGED <<sr, sending, sent, irq, task, replies>>

Disconnect ==
    /\ sr = "ESTABLISHED"
    /\ sr' = "CLOSE_WAIT"
    /\ Raise("DISCON")
    /\ hasty' = (hasty \/ ~Quiet)
    /\ UNCHANGED <<rx, sending, sent, irq, task, typed, blanks, replies>>

(* The last byte of the reply has left. *)
Transmitted ==
    /\ sending /\ ~sent
    /\ sent' = TRUE
    /\ UNCHANGED <<sr, rx, ir, sending, exti, irq, task, client>>

(* The client's stack has acknowledged the reply. *)
Delivered ==
    /\ sending
    /\ sending' = FALSE /\ sent' = TRUE
    /\ replies' = replies + 1
    /\ Raise("SENDOK")
    /\ UNCHANGED <<sr, rx, irq, task, typed, blanks, hasty>>

ClientNext == Connect \/ TypeLine \/ Disconnect

-----------------------------------------------------------------------------
(* EXTI4_IRQHandler. *)

(* What becomes of the task that the handler interrupts.  An SPI access    *)
(* that is met may go wrong; a poll may then read the value it waits for.  *)
(* The handler's own take enters the running task in the lists of those    *)
(* that wait for the semaphore, and the give makes it ready again: even one*)
(* that has just suspended itself and is not switched out yet.             *)
Met ==
    {server} \cup
    CASE server \in {"recv", "stray", "process", "send"} -> {"hung"}
      [] server = "poll"                                 -> {"suspend", "hung"}
      [] server = "leaving"                              -> {"stray"}
      [] OTHER                                           -> {}

ReadCode ==
    /\ exti /\ isr = "idle"
    /\ server' \in Met
    /\ code' = ir
    /\ isr' = "clear"
    /\ UNCHANGED <<chip, buf, oldbuf, executed, client>>

(* Mutant: the write that clears the register is forgotten. *)
ClearNothing ==
    /\ isr = "clear"
    /\ isr' = "switch"
    /\ UNCHANGED <<chip, code, task, client>>

(* 0xff is written: bits set since the read are cleared unseen. *)
ClearCode ==
    /\ isr = "clear"
    /\ ir' = {}
    /\ isr' = "switch"
    /\ UNCHANGED <<sr, rx, sending, sent, exti, code, task, client>>

(* vTaskResume does nothing to a task that is not suspended, nor to the one*)
(* that is running (pxCurrentTCB), suspended already or not.               *)
Resumed == IF server = "suspended" THEN "recv" ELSE server

(* Mutant: every interrupt wakes the server. *)
SwitchAny ==
    /\ isr = "switch"
    /\ server' = Resumed
    /\ isr' = "ack"
    /\ UNCHANGED <<chip, code, buf, oldbuf, executed, client>>

(* Mutant: only the motor task is resumed. *)
SwitchMotorOnly ==
    /\ isr = "switch"
    /\ isr' = "ack"
    /\ UNCHANGED <<chip, code, task, client>>

(* The switch compares the whole register: RECV wakes the server only when *)
(* it is the only bit.                                                     *)
Switch ==
    /\ isr = "switch"
    /\ server' = IF code = {"RECV"} THEN Resumed ELSE server
    /\ isr' = "ack"
    /\ UNCHANGED <<chip, code, buf, oldbuf, executed, client>>

(* EXTI_ClearFlag: an edge since the handler began goes with it. *)
Acknowledge ==
    /\ isr = "ack"
    /\ exti' = FALSE
    /\ isr' = "idle"
    /\ UNCHANGED <<sr, rx, ir, sending, sent, code, task, client>>

IsrNext == ReadCode \/ ClearCode \/ Switch \/ Acknowledge

(* One of the handler's accesses never ends, or it goes on with a wrong    *)
(* socket number or code.                                                  *)
HandlerHangs ==
    /\ exti /\ isr \in {"idle", "clear"}
    /\ isr' = "hung"
    /\ UNCHANGED <<chip, code, task, client>>

-----------------------------------------------------------------------------
(* set_macTask. *)

Runs == isr = "idle" /\ ~exti

(* The text in the receive memory; a blank line alone is too short.        *)
Text == IF Len(rx) = 1 /\ Head(rx) \in blanks THEN 0 ELSE Head(rx)

(* Mutant: the read pointer is not advanced. *)
RecvKeeps ==
    /\ Runs /\ server \in {"recv", "stray"}
    /\ sr = "ESTABLISHED" => rx # <<>>
    /\ buf' = IF sr = "ESTABLISHED" THEN Text ELSE 0
    /\ server' = "process"
    /\ UNCHANGED <<chip, irq, oldbuf, executed, client>>

(* recv: nothing (length 0) unless ESTABLISHED; otherwise it spins until   *)
(* there is data and takes all of it.  The interpreter reads one command,  *)
(* so what follows the first line is lost.                                 *)
Recv ==
    /\ Runs /\ server \in {"recv", "stray"}
    /\ \/ sr # "ESTABLISHED" /\ buf' = 0 /\ UNCHANGED rx
       \/ sr = "ESTABLISHED" /\ rx # <<>> /\ buf' = Text /\ rx' = <<>>
    /\ server' = "process"
    /\ UNCHANGED <<sr, ir, sending, sent, exti, irq, oldbuf, executed, client>>

(* Mutant: the line is appended to the old one instead of replacing it. *)
ProcessAppended ==
    /\ Runs /\ server = "process"
    /\ executed' = Append(executed, oldbuf + buf)
    /\ oldbuf' = oldbuf + buf
    /\ server' = "send"
    /\ UNCHANGED <<chip, irq, buf, client>>

(* Mutant: the length of the text is not looked at. *)
ProcessShort ==
    /\ Runs /\ server = "process"
    /\ executed' = Append(executed, buf)
    /\ oldbuf' = buf
    /\ server' = "send"
    /\ UNCHANGED <<chip, irq, buf, client>>

(* len < 3: the old text once more.  Otherwise the new one, copied after.  *)
Process ==
    LET line == IF buf = 0 THEN oldbuf ELSE buf IN
    /\ Runs /\ server = "process"
    /\ executed' = Append(executed, line)
    /\ oldbuf' = line
    /\ server' = "send"
    /\ UNCHANGED <<chip, irq, buf, client>>

(* The command waits for a Modbus call that never returns. *)
CommandHangs ==
    /\ Runs /\ server = "process"
    /\ server' = "hung"
    /\ UNCHANGED <<chip, irq, buf, oldbuf, executed, client>>

(* send gives up unless ESTABLISHED.  The chip has one reply on its way at *)
(* a time.                                                                 *)
Send ==
    /\ Runs /\ server = "send"
    /\ \/ sr # "ESTABLISHED" /\ server' = "suspend" /\ UNCHANGED <<sending, sent>>
       \/ sr = "ESTABLISHED" /\ ~sending /\ server' = "poll" /\ sending' = TRUE /\ sent' = FALSE
    /\ UNCHANGED <<sr, rx, ir, exti, irq, buf, oldbuf, executed, client>>

(* send asks the chip again and again until the reply has left. *)
Poll ==
    /\ Runs /\ server = "poll" /\ sent
    /\ server' = "suspend"
    /\ UNCHANGED <<chip, irq, buf, oldbuf, executed, client>>

(* vTaskSuspend(NULL) up to taskEXIT_CRITICAL... *)
Suspend ==
    /\ Runs /\ server = "suspend"
    /\ server' = "leaving"
    /\ UNCHANGED <<chip, irq, buf, oldbuf, executed, client>>

(* ...and its switch to another task. *)
SwitchOut ==
    /\ Runs /\ server = "leaving"
    /\ server' = "suspended"
    /\ UNCHANGED <<chip, irq, buf, oldbuf, executed, client>>

ServerNext == Recv \/ Process \/ Send \/ Poll \/ Suspend \/ SwitchOut

Hang == HandlerHangs \/ CommandHangs

Next == ClientNext \/ Transmitted \/ Delivered \/ IsrNext \/ ServerNext \/ Hang

(* The handler and the ready task run when they can; the network delivers. *)
(* Nothing makes the client act, or a step hang.                           *)
Fairness == WF_vars(IsrNext) /\ WF_vars(ServerNext) /\ WF_vars(Delivered)

Spec == Init /\ [][Next]_vars /\ Fairness

-----------------------------------------------------------------------------
(* Properties *)

(* Every variable keeps to its type. *)
TypeOK ==
    /\ sr \in {"LISTEN", "ESTABLISHED", "CLOSE_WAIT"}
    /\ rx \in Seq(0 .. MaxLines)
    /\ ir \subseteq {"CON", "DISCON", "RECV", "SENDOK"}
    /\ code \subseteq {"CON", "DISCON", "RECV", "SENDOK"}
    /\ sending \in BOOLEAN /\ sent \in BOOLEAN /\ exti \in BOOLEAN /\ hasty \in BOOLEAN
    /\ isr \in {"idle", "clear", "switch", "ack", "hung"}
    /\ server \in {"suspended", "recv", "stray", "process", "send", "poll", "suspend", "leaving",
                   "hung"}
    /\ buf \in 0 .. MaxLines /\ oldbuf \in 0 .. MaxLines
    /\ typed \in 0 .. MaxLines /\ blanks \subseteq 1 .. MaxLines
    /\ executed \in Seq(0 .. MaxLines)
    /\ replies \in Nat

(* The loop of recv that waits for data never waits when the server has    *)
(* been resumed: there is data to read, or the connection is gone.  (The   *)
(* loop ignores a disconnect, so once in it with no data the task polls the*)
(* chip on.  A stray server does: it has not been resumed but made ready by*)
(* the handler's give, while it was being switched out.)                   *)
RecvNeverSpins == server = "recv" /\ sr = "ESTABLISHED" => rx # <<>>

(* Never an older line after a newer one, whatever is lost on the way.     *)
NoneOlder ==
    \A i, j \in DOMAIN executed : i < j => executed[i] <= executed[j]

(* Without a blank line and without a disconnect no line is executed       *)
(* twice: a command does not run again because of a stray wake-up.         *)
RunsOnce ==
    blanks = {} /\ sr = "ESTABLISHED" =>
        \A i, j \in DOMAIN executed : i # j => executed[i] # executed[j]

(* Lines are executed in the order they were typed (set_macTask), and none *)
(* twice but for the cases in which the old text is taken again.           *)
RunsInOrder == NoneOlder /\ RunsOnce

(* With a client that waits for quiet between its actions, INT never stays *)
(* low with nobody coming: a set bit has its interrupt pending or running. *)
PinNotStuck == ~hasty /\ ir # {} => exti

(* An access that went wrong, or a command that never ends. *)
Hung == server = "hung" \/ isr = "hung"

(* Such a client gets an answer to every line, as long as it stays and the *)
(* server does not hang: no wake-up is lost, be it met by SENDOK in send's *)
(* polls or made ready by the handler while it suspends itself.            *)
LineAnswered ==
    replies < typed ~> replies = typed \/ hasty \/ sr # "ESTABLISHED" \/ Hung

-----------------------------------------------------------------------------
(* "If interrupt occures it process CLI command" (set_macTask, W5200.c):   *)
(* as long as the client stays and nothing hangs, data that has arrived is *)
(* read.                                                                   *)
InterruptIsProcessed == rx # <<>> ~> rx = <<>> \/ sr # "ESTABLISHED" \/ Hung
=============================================================================
