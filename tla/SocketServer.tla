----------------------------- MODULE SocketServer -----------------------------
(***************************************************************************)
(* W5200Server with the bytes: the receive and transmit memory of the      *)
(* socket, and recv and send with their counts and pointers (W5200.c).     *)
(*                                                                         *)
(* A byte is known by the number of its line, and a byte of a reply by the *)
(* text it answers.  A line has three bytes, a blank one two, a reply      *)
(* ReplyLength.  Every action is one of W5200Server with what it does to   *)
(* the memory, or a step of recv that W5200Server does not see.            *)
(***************************************************************************)
EXTENDS W5200Server, SocketRing

CONSTANTS
    Buffer,         \* the third argument of recv (100)
    ReplyLength     \* bytes of a reply

ASSUME LengthsAssumption ==
    /\ Buffer \in Nat \ {0}
    /\ ReplyLength \in 1 .. RingSize

VARIABLES
    rxMem, RX_RD, RX_WR,    \* the receive memory and its pointers
    txMem, TX_WR,           \* the transmit memory, with the next socket's,
                            \* and its write pointer
    wire,                   \* the reply as the chip sends it
    answered,               \* history: the text it answers
    recvPc,                 \* the next step of recv, or "done"
    read_len,               \* what recv was told is there
    text,                   \* the buffer of set_macTask, and what is behind it
    stream,                 \* history: the bytes received
    taken                   \* history: how many of them the recvs were told of

receive  == <<rxMem, RX_RD, RX_WR, stream>>
transmit == <<txMem, TX_WR, wire, answered>>
reading  == <<recvPc, read_len, text, taken>>
all      == <<vars, receive, transmit, reading>>

get_RXRSR == Ahead(RX_RD, RX_WR)

(* The pointers are zero when the socket is opened. *)
SocketInit ==
    /\ Init
    /\ rxMem = [x \in 0 .. RingSize - 1 |-> 0] /\ RX_RD = 0 /\ RX_WR = 0
    /\ txMem = [x \in 0 .. 2 * RingSize - 1 |-> 0] /\ TX_WR = 0
    /\ wire = <<>> /\ answered = 0
    /\ recvPc = "done" /\ read_len = 0 /\ text = [x \in 0 .. 2 * RingSize - 1 |-> 0]
    /\ stream = <<>> /\ taken = 0

-----------------------------------------------------------------------------
(* A line arrives; the client's stack waits until there is room for it. *)
LineArrives ==
    /\ TypeLine
    /\ LET line == typed + 1
           n    == IF line \in blanks' THEN 2 ELSE 3
       IN  /\ get_RXRSR + n <= RingSize
           /\ rxMem' = Received(rxMem, RX_WR, [i \in 0 .. n - 1 |-> line], n)
           /\ RX_WR' = Advanced(RX_WR, n)
           /\ stream' = stream \o [i \in 1 .. n |-> line]
    /\ UNCHANGED <<RX_RD, transmit, reading>>

(* recv: the status, and then the size of what has been received. *)
AskSize ==
    /\ Recv
    /\ IF sr = "ESTABLISHED"
       THEN recvPc' = "read" /\ read_len' = get_RXRSR
       ELSE recvPc' = "done" /\ read_len' = 0
    /\ UNCHANGED <<receive, transmit, text, taken>>

Copied == IF read_len < Buffer THEN read_len ELSE Buffer

(* Mutant: the pointer is read when it has been moved already. *)
ReadMemoryLate ==
    /\ Runs /\ server = "process" /\ recvPc = "read"
    /\ text' = read_memory(rxMem, Advanced(RX_RD, read_len), text, Copied)
    /\ recvPc' = "pointer"
    /\ UNCHANGED <<vars, receive, transmit, read_len, taken>>

(* Mutant: recv waits until the buffer is full. *)
ReadMemoryFull ==
    /\ Runs /\ server = "process" /\ recvPc = "read" /\ read_len >= Buffer
    /\ text' = read_memory(rxMem, RX_RD, text, Copied)
    /\ recvPc' = "pointer"
    /\ UNCHANGED <<vars, receive, transmit, read_len, taken>>

(* recv: as much as the buffer is said to hold. *)
ReadMemory ==
    /\ Runs /\ server = "process" /\ recvPc = "read"
    /\ text' = read_memory(rxMem, RX_RD, text, Copied)
    /\ recvPc' = "pointer"
    /\ UNCHANGED <<vars, receive, transmit, read_len, taken>>

(* Mutant: the size is asked for again. *)
MovePointerAgain ==
    /\ Runs /\ server = "process" /\ recvPc = "pointer"
    /\ RX_RD' = Advanced(RX_RD, get_RXRSR)
    /\ taken' = taken + read_len
    /\ recvPc' = "done"
    /\ UNCHANGED <<vars, rxMem, RX_WR, stream, transmit, read_len, text>>

(* recv: all it was told of is taken, copied or not. *)
MovePointer ==
    /\ Runs /\ server = "process" /\ recvPc = "pointer"
    /\ RX_RD' = Advanced(RX_RD, read_len)
    /\ taken' = taken + read_len
    /\ recvPc' = "done"
    /\ UNCHANGED <<vars, rxMem, RX_WR, stream, transmit, read_len, text>>

Interpret ==
    /\ recvPc = "done"
    /\ Process
    /\ UNCHANGED <<receive, transmit, reading>>

(* All earlier replies have been sent, so there is room for this one. *)
WriteReply ==
    /\ Send
    /\ IF sr = "ESTABLISHED"
       THEN LET reply == [i \in 0 .. ReplyLength - 1 |-> oldbuf] IN
            /\ txMem' = write_memory(txMem, TX_WR, reply, ReplyLength)
            /\ TX_WR' = Advanced(TX_WR, ReplyLength)
            /\ wire' = InRing(txMem', TX_WR, Ahead(TX_WR, TX_WR'))
            /\ answered' = oldbuf
       ELSE UNCHANGED transmit
    /\ UNCHANGED <<receive, reading>>

(* The steps that do not touch the memory. *)
Elsewhere ==
    /\ \/ Connect \/ Disconnect \/ Transmitted \/ Delivered \/ IsrNext \/ HandlerHangs
       \/ CommandHangs /\ recvPc = "done"
    /\ UNCHANGED <<receive, transmit, reading>>

WaitAgain ==
    /\ Poll \/ Suspend \/ SwitchOut
    /\ UNCHANGED <<receive, transmit, reading>>

TaskNext == AskSize \/ ReadMemory \/ MovePointer \/ Interpret \/ WriteReply \/ WaitAgain

SocketNext == LineArrives \/ TaskNext \/ Elsewhere

(* As in W5200Server. *)
SocketFairness ==
    /\ WF_all(IsrNext /\ Elsewhere)
    /\ WF_all(TaskNext)
    /\ WF_all(Delivered /\ Elsewhere)

SocketSpec == SocketInit /\ [][SocketNext]_all /\ SocketFairness

-----------------------------------------------------------------------------
(* Properties *)

(* Every step of the server with its bytes is one of the server without,   *)
(* or none, and it is as live (recv, send).                                *)
ImplementsServer == Spec

(* What arrives while recv is at work is neither taken with the rest nor   *)
(* read twice (recv, set_RXRD): the chip holds exactly the bytes received  *)
(* since the last read was told its size.                                  *)
NothingSkipped ==
    InRing(rxMem, RX_RD, get_RXRSR) = [i \in 0 .. Len(stream) - taken - 1 |-> stream[taken + i + 1]]

(* The bytes of a line. *)
LineLength(line) == IF line \in blanks THEN 2 ELSE 3

(* The text that is handed to the interpreter is what was typed (recv,     *)
(* read_memory, set_macTask), although lines arrive between the size, the  *)
(* copy and the pointer: the old text is taken just when fewer than three  *)
(* bytes were there, and otherwise the text begins with the line it is     *)
(* taken for, all of it or as much as the buffer holds, and what follows   *)
(* are the bytes that came next.  Said of a read in one piece: of one that *)
(* goes over the end of the ring, the second piece is put too far.         *)
TextAsTyped ==
    server = "process" /\ recvPc = "done" =>
        /\ buf = 0 <=> read_len < 3
        /\ Copied <= Room(RX_RD - read_len) =>
             \A i \in 0 .. Copied - 1 :
                 /\ text[i] = stream[taken - read_len + i + 1]
                 /\ buf # 0 /\ i < LineLength(buf) => text[i] = buf

(* Of a reply, the bytes before the end of the transmit memory are sent as *)
(* they were written (write_memory), whatever was written before.          *)
ReplyUpToEnd ==
    sending =>
        /\ DOMAIN wire = 0 .. ReplyLength - 1
        /\ \A i \in 0 .. ReplyLength - 1 :
             i < Room(TX_WR - ReplyLength) => wire[i] = answered

(* The task waits for the network (the reply before, the one on its way)   *)
(* or, made ready by mistake, for the client.                              *)
TaskWaits ==
    \/ server \in {"suspended", "hung"}
    \/ server = "send" /\ sending
    \/ server = "poll" /\ ~sent
    \/ server = "stray" /\ rx = <<>>

(* Nobody else waits: a pending interrupt is served at once, and the task, *)
(* once resumed, finds every step of its round possible (in recv the data  *)
(* it was resumed for), and a poll ends, since the reply it waits for is on*)
(* its way.  Whatever W5200Server could do next, the server with its bytes *)
(* can get on with.  (ENABLED: the step really exists.)                    *)
ServerGoesOn ==
    /\ exti /\ isr # "hung" => ENABLED <<IsrNext /\ Elsewhere>>_all
    /\ Runs /\ ~TaskWaits => ENABLED <<TaskNext>>_all
    /\ server = "poll" /\ ~sent => sending
    /\ sending => ENABLED <<Delivered /\ Elsewhere>>_all
    /\ ENABLED <<IsrNext>>_vars => ENABLED <<IsrNext /\ Elsewhere>>_all
    /\ ENABLED <<ServerNext>>_vars => ENABLED <<TaskNext>>_all
    /\ ENABLED <<Delivered>>_vars => ENABLED <<Delivered /\ Elsewhere>>_all
===============================================================================
