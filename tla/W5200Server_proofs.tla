-------------------------- MODULE W5200Server_proofs --------------------------
(***************************************************************************)
(* Proofs about W5200Server, for every number of lines.                    *)
(***************************************************************************)
EXTENDS W5200Server, SequenceTheorems, TLAPS

(* The bits the handler may still act on: those of the register while an   *)
(* interrupt is pending, and those it has read.                            *)
Unserved == ir \cup (IF isr \in {"clear", "switch"} THEN code ELSE {})

(* Why recv finds data.  No task runs while an interrupt is pending, so a  *)
(* RECV bit that the handler has not served yet still has its line in the  *)
(* receive memory; and the server is woken by such a bit only.  A bit that *)
(* is set with no interrupt pending is never served.                       *)
DataBehindBit ==
    /\ isr # "idle" => exti
    /\ exti /\ "RECV" \in Unserved => rx # <<>>
    /\ server = "recv" => rx # <<>> \/ sr = "CLOSE_WAIT"

Inductive == TypeOK /\ DataBehindBit

LEMMA InductiveInit == Init => Inductive
<1> SUFFICES ASSUME Init PROVE Inductive
  OBVIOUS
<1>1. rx \in Seq(0 .. MaxLines) /\ executed \in Seq(0 .. MaxLines)
  BY DEF Init
<1>2. 0 \in 0 .. MaxLines
  BY LinesAssumption
<1>3. ir \subseteq {"CON", "DISCON", "RECV", "SENDOK"}
      /\ code \subseteq {"CON", "DISCON", "RECV", "SENDOK"}
  BY DEF Init
<1>4. TypeOK
  BY <1>1, <1>2, <1>3 DEF Init, TypeOK
<1>5. DataBehindBit
  BY DEF Init, DataBehindBit
<1> QED
  BY <1>4, <1>5 DEF Inductive

-----------------------------------------------------------------------------
(* Types. *)

LEMMA TypeOfLines ==
    ASSUME NEW s \in Seq(0 .. MaxLines), NEW n \in 0 .. MaxLines
    PROVE  /\ Append(s, n) \in Seq(0 .. MaxLines)
           /\ Append(s, n) # <<>>
           /\ s # <<>> => Head(s) \in 0 .. MaxLines
BY AppendProperties, HeadTailProperties

LEMMA OneMore ==
    ASSUME NEW n \in 0 .. MaxLines, n < MaxLines
    PROVE  n + 1 \in 0 .. MaxLines /\ n + 1 \in 1 .. MaxLines
BY LinesAssumption

LEMMA OneReply == ASSUME NEW n \in Nat PROVE n + 1 \in Nat
OBVIOUS

LEMMA RaiseType ==
    ASSUME TypeOK, NEW bit \in {"CON", "DISCON", "RECV", "SENDOK"}, Raise(bit)
    PROVE  /\ ir' \subseteq {"CON", "DISCON", "RECV", "SENDOK"}
           /\ exti' \in BOOLEAN
BY Zenon DEF TypeOK, Raise

(* An interrupt leaves the task where it is, ends a poll, makes a task that*)
(* is leaving ready, or meets an access that never ends.                   *)
LEMMA MetIs ==
    ASSUME NEW s \in Met
    PROVE  \/ s = server
           \/ s = "hung" /\ server \in {"recv", "stray", "process", "send", "poll"}
           \/ s = "suspend" /\ server = "poll"
           \/ s = "stray" /\ server = "leaving"
BY DEF Met

LEMMA TypeStep == TypeOK /\ [Next]_vars => TypeOK'
<1> SUFFICES ASSUME TypeOK, [Next]_vars PROVE TypeOK'
  OBVIOUS
<1> USE DEF TypeOK, chip, irq, task, client
<1>1. CASE Connect
  <2>1. ir' \subseteq {"CON", "DISCON", "RECV", "SENDOK"} /\ exti' \in BOOLEAN
    BY <1>1, RaiseType DEF Connect
  <2>2. hasty' \in BOOLEAN
    BY <1>1 DEF Connect
  <2> QED
    BY <1>1, <2>1, <2>2 DEF Connect
<1>2. CASE TypeLine
  <2>1. ir' \subseteq {"CON", "DISCON", "RECV", "SENDOK"} /\ exti' \in BOOLEAN
    BY <1>2, RaiseType DEF TypeLine
  <2>2. hasty' \in BOOLEAN
    BY <1>2 DEF TypeLine
  <2>3. typed' = typed + 1 /\ typed + 1 \in 0 .. MaxLines /\ typed + 1 \in 1 .. MaxLines
    BY <1>2, OneMore DEF TypeLine
  <2>4. blanks' \subseteq 1 .. MaxLines
    BY <1>2, <2>3, Zenon DEF TypeLine
  <2>6. rx' \in Seq(0 .. MaxLines)
    BY <1>2, <2>3, TypeOfLines DEF TypeLine
  <2> QED
    BY <1>2, <2>1, <2>2, <2>3, <2>4, <2>6 DEF TypeLine
<1>3. CASE Disconnect
  <2>1. ir' \subseteq {"CON", "DISCON", "RECV", "SENDOK"} /\ exti' \in BOOLEAN
    BY <1>3, RaiseType DEF Disconnect
  <2>2. hasty' \in BOOLEAN
    BY <1>3 DEF Disconnect
  <2> QED
    BY <1>3, <2>1, <2>2 DEF Disconnect
<1>4. CASE Delivered
  <2>1. ir' \subseteq {"CON", "DISCON", "RECV", "SENDOK"} /\ exti' \in BOOLEAN
    BY <1>4, RaiseType DEF Delivered
  <2>2. replies' \in Nat
    BY <1>4, OneReply DEF Delivered
  <2> QED
    BY <1>4, <2>1, <2>2 DEF Delivered
<1>5. CASE IsrNext
  <2>1. CASE ReadCode
    BY <2>1, MetIs DEF ReadCode
  <2>2. CASE ClearCode
    <3>1. ir' \subseteq {"CON", "DISCON", "RECV", "SENDOK"}
      BY <2>2 DEF ClearCode
    <3> QED
      BY <2>2, <3>1 DEF ClearCode
  <2>3. CASE Switch
    BY <2>3 DEF Switch, Resumed
  <2>4. CASE Acknowledge
    BY <2>4 DEF Acknowledge
  <2> QED
    BY <1>5, <2>1, <2>2, <2>3, <2>4 DEF IsrNext
<1>6. CASE ServerNext
  <2>1. CASE Recv
    <3>1. 0 \in 0 .. MaxLines
      BY LinesAssumption
    <3>2. buf' \in 0 .. MaxLines /\ rx' \in Seq(0 .. MaxLines)
      <4>1. <<>> \in Seq(0 .. MaxLines)
        OBVIOUS
      <4>2. rx' = rx \/ rx' = <<>>
        BY <2>1 DEF Recv
      <4>3. buf' = 0 \/ (rx # <<>> /\ buf' = Head(rx))
        BY <2>1, Zenon DEF Recv, Text
      <4>4. rx # <<>> => Head(rx) \in 0 .. MaxLines
        BY <3>1, TypeOfLines
      <4> QED
        BY <3>1, <4>1, <4>2, <4>3, <4>4, Zenon
    <3> QED
      BY <2>1, <3>2 DEF Recv
  <2>2. CASE Process
    <3>1. executed' \in Seq(0 .. MaxLines) /\ oldbuf' \in 0 .. MaxLines
      BY <2>2, TypeOfLines DEF Process
    <3> QED
      BY <2>2, <3>1 DEF Process
  <2>3. CASE Send
    <3>1. sending' \in BOOLEAN /\ sent' \in BOOLEAN /\ server' \in {"suspend", "poll"}
      BY <2>3, Zenon DEF Send
    <3> QED
      BY <2>3, <3>1 DEF Send
  <2>4. CASE Poll \/ Suspend \/ SwitchOut
    BY <2>4 DEF Poll, Suspend, SwitchOut
  <2> QED
    BY <1>6, <2>1, <2>2, <2>3, <2>4 DEF ServerNext
<1>7. CASE UNCHANGED vars
  BY <1>7 DEF vars
<1>8. CASE Hang
  BY <1>8 DEF Hang, HandlerHangs, CommandHangs
<1>9. CASE Transmitted
  BY <1>9 DEF Transmitted
<1> QED
  BY <1>1, <1>2, <1>3, <1>4, <1>5, <1>6, <1>7, <1>8, <1>9 DEF Next, ClientNext

-----------------------------------------------------------------------------
(* Data behind the RECV bit. *)

LEMMA DataStep == Inductive /\ [Next]_vars => DataBehindBit'
<1> SUFFICES ASSUME TypeOK, DataBehindBit, [Next]_vars PROVE DataBehindBit'
  BY DEF Inductive
<1> USE DEF DataBehindBit, chip, irq, task, client
<1>1. CASE Connect
  <2>1. /\ rx' = rx /\ isr' = isr /\ code' = code /\ server' = server
        /\ ir' = ir \cup {"CON"} /\ exti' = (exti \/ ir = {}) /\ sr = "LISTEN"
    BY <1>1 DEF Connect, Raise
  <2>2. exti' /\ "RECV" \in Unserved' => rx' # <<>>
    <3>1. CASE exti
      BY <2>1, <3>1 DEF Unserved
    <3>2. CASE ~exti
      BY <2>1, <3>2, Zenon DEF Unserved, TypeOK
    <3> QED
      BY <3>1, <3>2
  <2>3. server' = "recv" => rx' # <<>> \/ sr' = "CLOSE_WAIT"
    BY <2>1
  <2>4. isr' # "idle" => exti'
    BY <2>1, Zenon
  <2> QED
    BY <2>2, <2>3, <2>4
<1>2. CASE TypeLine
  <2>1. rx' # <<>>
    <3>1. PICK n : rx' = Append(rx, n)
      BY <1>2 DEF TypeLine
    <3>2. Append(rx, n) # <<>>
      BY AppendProperties DEF TypeOK
    <3> QED
      BY <3>1, <3>2
  <2>2. isr' # "idle" => exti'
    BY <1>2, Zenon DEF TypeLine, Raise
  <2> QED
    BY <2>1, <2>2
<1>3. CASE Disconnect
  <2>1. /\ rx' = rx /\ isr' = isr /\ code' = code /\ server' = server
        /\ ir' = ir \cup {"DISCON"} /\ exti' = (exti \/ ir = {}) /\ sr' = "CLOSE_WAIT"
    BY <1>3 DEF Disconnect, Raise
  <2>2. exti' /\ "RECV" \in Unserved' => rx' # <<>>
    <3>1. CASE exti
      BY <2>1, <3>1 DEF Unserved
    <3>2. CASE ~exti
      BY <2>1, <3>2, Zenon DEF Unserved, TypeOK
    <3> QED
      BY <3>1, <3>2
  <2>4. isr' # "idle" => exti'
    BY <2>1, Zenon
  <2> QED
    BY <2>1, <2>2, <2>4
<1>4. CASE Delivered
  <2>1. /\ rx' = rx /\ isr' = isr /\ code' = code /\ server' = server
        /\ ir' = ir \cup {"SENDOK"} /\ exti' = (exti \/ ir = {}) /\ sr' = sr
    BY <1>4 DEF Delivered, Raise
  <2>2. exti' /\ "RECV" \in Unserved' => rx' # <<>>
    <3>1. CASE exti
      BY <2>1, <3>1 DEF Unserved
    <3>2. CASE ~exti
      BY <2>1, <3>2, Zenon DEF Unserved, TypeOK
    <3> QED
      BY <3>1, <3>2
  <2>4. isr' # "idle" => exti'
    BY <2>1, Zenon
  <2> QED
    BY <2>1, <2>2, <2>4
<1>5. CASE IsrNext
  <2>1. CASE ReadCode
    <3>1. server' = "recv" => server = "recv"
      BY <2>1, MetIs DEF ReadCode
    <3> QED
      BY <2>1, <3>1 DEF ReadCode, Unserved
  <2>2. CASE ClearCode
    BY <2>2 DEF ClearCode, Unserved
  <2>3. CASE Switch
    <3>1. "RECV" \in {"RECV"} /\ exti
      BY <2>3 DEF Switch
    <3>2. code = {"RECV"} => rx # <<>>
      BY <2>3, <3>1, Zenon DEF Switch, Unserved
    <3>3. server' = "recv" => server = "recv" \/ code = {"RECV"}
      BY <2>3 DEF Switch, Resumed
    <3> QED
      BY <2>3, <3>2, <3>3 DEF Switch, Unserved
  <2>4. CASE Acknowledge
    BY <2>4 DEF Acknowledge
  <2> QED
    BY <1>5, <2>1, <2>2, <2>3, <2>4 DEF IsrNext
<1>6. CASE ServerNext
  <2>1. isr = "idle" /\ ~exti /\ isr' = isr /\ exti' = exti
    BY <1>6 DEF ServerNext, Recv, Process, Send, Poll, Suspend, SwitchOut, Runs
  <2>2. server' # "recv"
    BY <1>6 DEF ServerNext, Recv, Process, Send, Poll, Suspend, SwitchOut
  <2> QED
    BY <2>1, <2>2
<1>7. CASE UNCHANGED vars
  BY <1>7 DEF vars, Unserved
<1>8. CASE HandlerHangs
  BY <1>8 DEF HandlerHangs, Unserved
<1>9. CASE CommandHangs
  BY <1>9 DEF CommandHangs, Unserved
<1>10. CASE Transmitted
  BY <1>10 DEF Transmitted, Unserved
<1> QED
  BY <1>1, <1>2, <1>3, <1>4, <1>5, <1>6, <1>7, <1>8, <1>9, <1>10 DEF Next, ClientNext, Hang

LEMMA InductiveStep == Inductive /\ [Next]_vars => Inductive'
BY TypeStep, DataStep DEF Inductive

-----------------------------------------------------------------------------
(* The order of the lines. *)

(* Lines wait in the order they were typed, behind the one in work, and    *)
(* that behind the last one done.                                          *)
Ordered ==
    /\ \A i \in DOMAIN rx : rx[i] \in 1 .. typed
    /\ \A i, j \in DOMAIN rx : i < j => rx[i] < rx[j]
    /\ \A i \in DOMAIN executed : executed[i] <= oldbuf
    /\ \A i, j \in DOMAIN executed : i < j => executed[i] <= executed[j]
    /\ oldbuf <= typed
    /\ \A i \in DOMAIN rx : oldbuf < rx[i]
    /\ server = "process" /\ buf # 0 =>
         oldbuf < buf /\ buf <= typed /\ \A i \in DOMAIN rx : buf < rx[i]

LEMMA OrderedInit == Init => Ordered
BY LinesAssumption DEF Init, Ordered

(* The sequences that an action extends. *)
LEMMA Appended ==
    ASSUME NEW s \in Seq(0 .. MaxLines), NEW n \in 0 .. MaxLines
    PROVE  /\ DOMAIN Append(s, n) = DOMAIN s \cup {Len(s) + 1}
           /\ DOMAIN s = 1 .. Len(s) /\ Len(s) \in Nat
           /\ \A i \in DOMAIN s : Append(s, n)[i] = s[i] /\ s[i] \in 0 .. MaxLines
           /\ Append(s, n)[Len(s) + 1] = n
<1>1. DOMAIN s = 1 .. Len(s) /\ Len(s) \in Nat
  OBVIOUS
<1>2. DOMAIN Append(s, n) = 1 .. Len(s) + 1
  <2>1. Append(s, n) \in Seq(0 .. MaxLines) /\ Len(Append(s, n)) = Len(s) + 1
    BY AppendProperties
  <2>2. DOMAIN Append(s, n) = 1 .. Len(Append(s, n))
    BY <2>1, LenProperties
  <2> QED
    BY <2>1, <2>2
<1>3. 1 .. Len(s) + 1 = 1 .. Len(s) \cup {Len(s) + 1}
  BY <1>1
<1>4. \A i \in DOMAIN s : Append(s, n)[i] = s[i] /\ s[i] \in 0 .. MaxLines
  <2>1. s \in [1 .. Len(s) -> 0 .. MaxLines]
    BY LenProperties
  <2>2. \A i \in 1 .. Len(s) : Append(s, n)[i] = s[i]
    BY AppendProperties
  <2> QED
    BY <1>1, <2>1, <2>2
<1>5. Append(s, n)[Len(s) + 1] = n
  OBVIOUS
<1> QED
  BY <1>1, <1>2, <1>3, <1>4, <1>5

LEMMA HeadIsFirst ==
    ASSUME NEW s \in Seq(0 .. MaxLines), s # <<>>
    PROVE  1 \in DOMAIN s /\ Head(s) = s[1]
OBVIOUS

LEMMA OrderedStep == TypeOK /\ Ordered /\ [Next]_vars => Ordered'
<1> SUFFICES ASSUME TypeOK, Ordered, [Next]_vars PROVE Ordered'
  OBVIOUS
<1> USE DEF chip, irq, task, client
<1>0. /\ typed \in 0 .. MaxLines /\ oldbuf \in 0 .. MaxLines /\ buf \in 0 .. MaxLines
      /\ rx \in Seq(0 .. MaxLines) /\ executed \in Seq(0 .. MaxLines) /\ MaxLines \in Nat
  BY LinesAssumption DEF TypeOK
<1>k. ASSUME UNCHANGED <<rx, typed, executed, oldbuf, buf>>,
             server' = "process" => server = "process"
      PROVE  Ordered'
  BY <1>k DEF Ordered
<1>1. CASE Connect \/ Disconnect \/ Transmitted \/ Delivered \/ Hang
  BY <1>1, <1>k DEF Connect, Disconnect, Transmitted, Delivered, Hang, HandlerHangs, CommandHangs
<1>2. CASE TypeLine
  <2>1. /\ typed' = typed + 1 /\ rx' = Append(rx, typed + 1) /\ typed + 1 \in 0 .. MaxLines
        /\ UNCHANGED <<executed, oldbuf, buf, server>>
    BY <1>0, <1>2 DEF TypeLine
  <2>2. /\ DOMAIN rx' = DOMAIN rx \cup {Len(rx) + 1}
        /\ DOMAIN rx = 1 .. Len(rx) /\ Len(rx) \in Nat
        /\ \A i \in DOMAIN rx : rx'[i] = rx[i] /\ rx[i] \in 0 .. MaxLines
        /\ rx'[Len(rx) + 1] = typed + 1
    BY <1>0, <2>1, Appended
  <2>3. \A i \in DOMAIN rx : rx'[i] \in 1 .. typed /\ oldbuf < rx'[i]
    BY <2>2 DEF Ordered
  <2>4. \A i \in DOMAIN rx' : rx'[i] \in 1 .. typed' /\ oldbuf' < rx'[i]
    BY <1>0, <2>1, <2>2, <2>3 DEF Ordered
  <2>5. \A i, j \in DOMAIN rx' : i < j => rx'[i] < rx'[j]
    <3> SUFFICES ASSUME NEW i \in DOMAIN rx', NEW j \in DOMAIN rx', i < j PROVE rx'[i] < rx'[j]
      OBVIOUS
    <3>1. i \in DOMAIN rx
      BY <2>2
    <3>2. CASE j \in DOMAIN rx
      BY <2>2, <3>1, <3>2 DEF Ordered
    <3>3. CASE j = Len(rx) + 1
      BY <1>0, <2>2, <2>3, <3>1, <3>3
    <3> QED
      BY <2>2, <3>2, <3>3
  <2>6. server' = "process" /\ buf' # 0 =>
           oldbuf' < buf' /\ buf' <= typed' /\ \A i \in DOMAIN rx' : buf' < rx'[i]
    BY <1>0, <2>1, <2>2 DEF Ordered
  <2>7. /\ \A i \in DOMAIN executed' : executed'[i] <= oldbuf'
        /\ \A i, j \in DOMAIN executed' : i < j => executed'[i] <= executed'[j]
        /\ oldbuf' <= typed'
    BY <1>0, <2>1 DEF Ordered
  <2> QED
    BY <2>4, <2>5, <2>6, <2>7 DEF Ordered
<1>3. CASE IsrNext
  <2>1. CASE ReadCode
    BY <2>1, <1>k, MetIs DEF ReadCode
  <2>2. CASE ~ReadCode
    BY <1>3, <2>2, <1>k DEF IsrNext, ClearCode, Switch, Resumed, Acknowledge
  <2> QED
    BY <2>1, <2>2
<1>4. CASE Recv
  <2>1. CASE sr # "ESTABLISHED"
    BY <1>4, <2>1 DEF Recv, Ordered
  <2>2. CASE sr = "ESTABLISHED"
    <3>1. /\ rx # <<>> /\ rx' = <<>> /\ buf' = Text /\ UNCHANGED <<typed, executed, oldbuf>>
      BY <1>4, <2>2 DEF Recv
    <3>2. 1 \in DOMAIN rx /\ Head(rx) = rx[1]
      BY <1>0, <3>1, HeadIsFirst
    <3>3. buf' # 0 => oldbuf < buf' /\ buf' <= typed
      BY <1>0, <3>1, <3>2 DEF Text, Ordered
    <3> QED
      BY <3>1, <3>3 DEF Ordered
  <2> QED
    BY <2>1, <2>2
<1>5. CASE Process
  <2>1. PICK line : line = IF buf = 0 THEN oldbuf ELSE buf
    OBVIOUS
  <2>2. /\ executed' = Append(executed, line) /\ oldbuf' = line /\ server' = "send"
        /\ UNCHANGED <<rx, typed, buf>> /\ line \in 0 .. MaxLines
    BY <1>0, <1>5, <2>1 DEF Process
  <2>3. oldbuf <= line /\ line <= typed /\ \A i \in DOMAIN rx : line < rx[i]
    BY <1>0, <1>5, <2>1 DEF Process, Ordered
  <2>4. /\ DOMAIN executed' = DOMAIN executed \cup {Len(executed) + 1}
        /\ DOMAIN executed = 1 .. Len(executed) /\ Len(executed) \in Nat
        /\ \A i \in DOMAIN executed : executed'[i] = executed[i] /\ executed[i] \in 0 .. MaxLines
        /\ executed'[Len(executed) + 1] = line
    BY <1>0, <2>2, Appended
  <2>5. \A i \in DOMAIN executed : executed'[i] <= line
    BY <1>0, <2>2, <2>3, <2>4 DEF Ordered
  <2>6. \A i \in DOMAIN executed' : executed'[i] <= oldbuf'
    BY <2>2, <2>4, <2>5
  <2>7. \A i, j \in DOMAIN executed' : i < j => executed'[i] <= executed'[j]
    <3> SUFFICES ASSUME NEW i \in DOMAIN executed', NEW j \in DOMAIN executed', i < j
                 PROVE executed'[i] <= executed'[j]
      OBVIOUS
    <3>1. i \in DOMAIN executed
      BY <2>4
    <3>2. CASE j \in DOMAIN executed
      BY <2>4, <3>1, <3>2 DEF Ordered
    <3>3. CASE j = Len(executed) + 1
      BY <2>4, <2>5, <3>1, <3>3
    <3> QED
      BY <2>4, <3>2, <3>3
  <2> QED
    BY <2>2, <2>3, <2>6, <2>7 DEF Ordered
<1>6. CASE Send \/ Poll \/ Suspend \/ SwitchOut
  BY <1>6, <1>k DEF Send, Poll, Suspend, SwitchOut
<1>7. CASE UNCHANGED vars
  BY <1>7, <1>k DEF vars
<1> QED
  BY <1>1, <1>2, <1>3, <1>4, <1>5, <1>6, <1>7 DEF Next, ClientNext, ServerNext

-----------------------------------------------------------------------------
(* No line twice. *)

(* Before the connection nothing moves.  While no line is blank and the    *)
(* client stays, a read is never empty and each line is done once.         *)
Strict ==
    /\ sr = "LISTEN" => /\ ir = {} /\ code = {} /\ ~sending /\ executed = <<>> /\ rx = <<>>
                        /\ ~exti /\ server \in {"suspend", "leaving", "suspended"}
    /\ blanks = {} /\ sr = "ESTABLISHED" =>
         /\ server = "process" => buf # 0
         /\ \A i, j \in DOMAIN executed : i < j => executed[i] < executed[j]

LEMMA StrictInit == Init => Strict
BY DEF Init, Strict

LEMMA StrictStep == Inductive /\ Ordered /\ Strict /\ [Next]_vars => Strict'
<1> SUFFICES ASSUME TypeOK, DataBehindBit, Ordered, Strict, [Next]_vars PROVE Strict'
  BY DEF Inductive
<1> USE DEF chip, irq, task, client
<1>0. /\ typed \in 0 .. MaxLines /\ oldbuf \in 0 .. MaxLines /\ buf \in 0 .. MaxLines
      /\ rx \in Seq(0 .. MaxLines) /\ executed \in Seq(0 .. MaxLines) /\ MaxLines \in Nat
  BY LinesAssumption DEF TypeOK
<1>1. CASE Connect
  BY <1>1 DEF Connect, Strict
<1>2. CASE TypeLine
  <2>1. blanks' = {} => blanks = {}
    BY <1>2, Zenon DEF TypeLine
  <2>2. sr = "ESTABLISHED" /\ sr' = sr /\ UNCHANGED <<executed, buf, server>>
    BY <1>2 DEF TypeLine
  <2> QED
    BY <2>1, <2>2 DEF Strict
<1>3. CASE Disconnect
  BY <1>3 DEF Disconnect, Strict
<1>4. CASE Delivered
  <2>1. sending /\ UNCHANGED <<sr, rx, code, executed, buf, server, blanks>>
    BY <1>4 DEF Delivered
  <2> QED
    BY <2>1 DEF Strict
<1>5. CASE IsrNext
  <2>1. exti
    BY <1>5 DEF IsrNext, ReadCode, ClearCode, Switch, Acknowledge, DataBehindBit
  <2>2. sr # "LISTEN"
    BY <2>1 DEF Strict
  <2>3. UNCHANGED <<sr, rx, executed, buf, blanks>>
    BY <1>5 DEF IsrNext, ReadCode, ClearCode, Switch, Acknowledge
  <2>4. server' = "process" => server = "process"
    <3>1. CASE ReadCode
      BY <3>1, MetIs DEF ReadCode
    <3>2. CASE ~ReadCode
      BY <1>5, <3>2 DEF IsrNext, ClearCode, Switch, Resumed, Acknowledge
    <3> QED
      BY <3>1, <3>2
  <2> QED
    BY <2>2, <2>3, <2>4 DEF Strict
<1>6. CASE Recv
  <2>1. sr # "LISTEN" /\ server' = "process"
    BY <1>6 DEF Recv, Strict
  <2>2. ASSUME blanks = {}, sr = "ESTABLISHED" PROVE buf' # 0
    <3>1. rx # <<>> /\ buf' = Text
      BY <1>6, <2>2 DEF Recv
    <3>2. 1 \in DOMAIN rx /\ Head(rx) = rx[1]
      BY <1>0, <3>1, HeadIsFirst
    <3>3. Head(rx) # 0
      BY <1>0, <3>2 DEF Ordered
    <3> QED
      BY <2>2, <3>1, <3>3 DEF Text
  <2> QED
    BY <1>6, <2>1, <2>2 DEF Recv, Strict
<1>7. CASE Process
  <2>1. PICK line : line = IF buf = 0 THEN oldbuf ELSE buf
    OBVIOUS
  <2>2. /\ executed' = Append(executed, line) /\ server' = "send"
        /\ UNCHANGED <<sr, ir, code, rx, blanks>> /\ line \in 0 .. MaxLines
        /\ server = "process"
    BY <1>0, <1>7, <2>1 DEF Process
  <2>3. sr # "LISTEN"
    BY <2>2 DEF Strict
  <2>4. /\ DOMAIN executed' = DOMAIN executed \cup {Len(executed) + 1}
        /\ DOMAIN executed = 1 .. Len(executed) /\ Len(executed) \in Nat
        /\ \A i \in DOMAIN executed : executed'[i] = executed[i] /\ executed[i] \in 0 .. MaxLines
        /\ executed'[Len(executed) + 1] = line
    BY <1>0, <2>2, Appended
  <2>5. ASSUME blanks = {}, sr = "ESTABLISHED", NEW i \in DOMAIN executed', NEW j \in DOMAIN executed', i < j
        PROVE executed'[i] < executed'[j]
    <3>1. i \in DOMAIN executed
      BY <2>4, <2>5
    <3>2. CASE j \in DOMAIN executed
      BY <2>4, <2>5, <3>1, <3>2 DEF Strict
    <3>3. CASE j = Len(executed) + 1
      <4>1. buf # 0 /\ line = buf /\ oldbuf < buf
        BY <2>1, <2>2, <2>5 DEF Strict, Ordered
      <4>2. executed[i] <= oldbuf
        BY <3>1 DEF Ordered
      <4> QED
        BY <1>0, <2>4, <3>1, <3>3, <4>1, <4>2
    <3> QED
      BY <2>4, <3>2, <3>3
  <2> QED
    BY <2>2, <2>3, <2>5 DEF Strict
<1>8. CASE Send \/ Poll \/ Suspend \/ SwitchOut
  BY <1>8 DEF Send, Poll, Suspend, SwitchOut, Strict
<1>9. CASE UNCHANGED vars
  BY <1>9 DEF vars, Strict
<1>10. CASE Hang
  BY <1>10 DEF Hang, HandlerHangs, CommandHangs, Strict
<1>11. CASE Transmitted
  BY <1>11 DEF Transmitted, Strict
<1> QED
  BY <1>1, <1>2, <1>3, <1>4, <1>5, <1>6, <1>7, <1>8, <1>9, <1>10, <1>11
     DEF Next, ClientNext, ServerNext

-----------------------------------------------------------------------------
(* The pin. *)

(* While the client waits for quiet, a bit is set with an interrupt pending*)
(* that has not cleared the register yet, and a reply on its way finds the *)
(* register clear.                                                         *)
Patient ==
    ~hasty =>
        /\ ir # {} => exti
        /\ isr \in {"switch", "ack"} => ir = {}
        /\ sending => ir = {} /\ ~exti /\ isr = "idle"

LEMMA PatientInit == Init => Patient
BY DEF Init, Patient

LEMMA PatientStep == Inductive /\ Patient /\ [Next]_vars => Patient'
<1> SUFFICES ASSUME TypeOK, DataBehindBit, Patient, [Next]_vars PROVE Patient'
  BY DEF Inductive
<1> USE DEF chip, irq, task, client
<1>1. CASE ClientNext
  <2>1. UNCHANGED <<isr, sending>> /\ hasty' = (hasty \/ ~Quiet)
    BY <1>1 DEF ClientNext, Connect, TypeLine, Disconnect
  <2>2. exti' = (exti \/ ir = {})
    BY <1>1 DEF ClientNext, Connect, TypeLine, Disconnect, Raise
  <2>3. ~hasty' => Quiet
    BY <2>1, Zenon
  <2>4. Quiet => ir = {} /\ isr = "idle" /\ ~sending
    BY Zenon DEF Quiet
  <2> QED
    BY <2>1, <2>2, <2>3, <2>4, Zenon DEF Patient
<1>2. CASE Delivered
  <2>1. sending /\ sending' = FALSE /\ exti' = (exti \/ ir = {}) /\ UNCHANGED <<isr, hasty>>
    BY <1>2 DEF Delivered, Raise
  <2> QED
    BY <2>1, Zenon DEF Patient
<1>3. CASE ReadCode
  BY <1>3 DEF ReadCode, Patient
<1>4. CASE ClearCode
  BY <1>4 DEF ClearCode, Patient
<1>5. CASE Switch
  BY <1>5 DEF Switch, Patient
<1>6. CASE Acknowledge
  BY <1>6 DEF Acknowledge, Patient
<1>7. CASE Recv \/ Process \/ Poll \/ Suspend \/ SwitchOut
  BY <1>7 DEF Recv, Process, Poll, Suspend, SwitchOut, Patient
<1>8. CASE Send
  BY <1>8 DEF Send, Runs, Patient
<1>9. CASE UNCHANGED vars
  BY <1>9 DEF vars, Patient
<1>10. CASE Hang
  BY <1>10, Zenon DEF Hang, HandlerHangs, CommandHangs, Patient
<1>11. CASE Transmitted
  BY <1>11 DEF Transmitted, Patient
<1> QED
  BY <1>1, <1>2, <1>3, <1>4, <1>5, <1>6, <1>7, <1>8, <1>9, <1>10, <1>11
     DEF Next, IsrNext, ServerNext

-----------------------------------------------------------------------------
(* What holds in every state, whether anybody is fair or not.              *)
ServerInv == Inductive /\ Ordered /\ Strict /\ Patient

LEMMA ServerInvAlways == Init /\ [][Next]_vars => []ServerInv
<1>1. Init => ServerInv
  BY InductiveInit, OrderedInit, StrictInit, PatientInit DEF ServerInv
<1>2. ServerInv /\ [Next]_vars => ServerInv'
  BY InductiveStep, OrderedStep, StrictStep, PatientStep DEF ServerInv, Inductive
<1> QED
  BY <1>1, <1>2, PTL

LEMMA StrictIsOnce == TypeOK /\ Strict => RunsOnce
<1> SUFFICES ASSUME TypeOK, Strict, blanks = {}, sr = "ESTABLISHED",
                    NEW i \in DOMAIN executed, NEW j \in DOMAIN executed, i # j
             PROVE  executed[i] # executed[j]
  BY DEF RunsOnce
<1>1. executed \in Seq(0 .. MaxLines) /\ MaxLines \in Nat
  BY LinesAssumption DEF TypeOK
<1>2. /\ DOMAIN executed = 1 .. Len(executed)
      /\ executed[i] \in 0 .. MaxLines /\ executed[j] \in 0 .. MaxLines
  BY <1>1
<1>3. i < j \/ j < i
  BY <1>2
<1> QED
  BY <1>1, <1>2, <1>3 DEF Strict

LEMMA ServerInvSays ==
    ServerInv => TypeOK /\ RecvNeverSpins /\ RunsInOrder /\ PinNotStuck
<1>1. Inductive => TypeOK /\ RecvNeverSpins
  BY DEF Inductive, DataBehindBit, RecvNeverSpins
<1>2. Ordered => NoneOlder
  BY DEF Ordered, NoneOlder
<1>3. Patient => PinNotStuck
  BY DEF Patient, PinNotStuck
<1> QED
  BY <1>1, <1>2, <1>3, StrictIsOnce DEF ServerInv, RunsInOrder

-----------------------------------------------------------------------------
(* The chip, the handler and the server keep to their types.               *)
THEOREM TypeCorrect == Spec => []TypeOK
BY ServerInvAlways, ServerInvSays, PTL DEF Spec

(* The busy loop of recv is entered only with data in the chip, however    *)
(* the client hurries and whatever interrupts are lost.                    *)
THEOREM RecvAlwaysReads == Spec => []RecvNeverSpins
BY ServerInvAlways, ServerInvSays, PTL DEF Spec

(* Whatever interrupts are lost and however often the old line is done     *)
(* again, a line never runs after one that was typed later; and without    *)
(* blank lines and disconnects the only wake-ups are those of new data, so *)
(* that no line runs twice.                                                *)
THEOREM NeverBackwards == Spec => []RunsInOrder
BY ServerInvAlways, ServerInvSays, PTL DEF Spec

(* For a client that waits for quiet, the handler has no window in which   *)
(* an edge of INT is lost.                                                 *)
THEOREM PinIsServed == Spec => []PinNotStuck
BY ServerInvAlways, ServerInvSays, PTL DEF Spec
=============================================================================
