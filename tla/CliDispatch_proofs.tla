-------------------------- MODULE CliDispatch_proofs --------------------------
(***************************************************************************)
(* Proofs about CliDispatch, for every set of lines a client may type.     *)
(***************************************************************************)
EXTENDS CliDispatch, TLAPS

(* The list has three entries, none of them named like the interpreter.    *)
LEMMA List ==
    /\ Len(Registered) = 3
    /\ Registered[1] = "help" /\ Registered[2] = "motor" /\ Registered[3] = "task"
    /\ Commands = {"help", "motor", "task"}
BY DEF Registered, Commands

(* What the line terminator of a handler leaves is a line. *)
LEMMA TerminatedType == ASSUME NEW l \in LineType PROVE Terminated(l) \in LineType
<1>1. l.value \in Nat
  BY DEF LineType
<1>2. l.value \div 100 \in Nat
  BY <1>1
<1> QED
  BY <1>2 DEF Terminated, LineType

(* Division by 2^16 and by 100, of which the quotient and the remainder    *)
(* have names.                                                             *)
LEMMA Words ==
    ASSUME NEW n \in Nat, NEW q \in Nat, NEW r \in Nat, q = n \div 65536, r = n % 65536
    PROVE  n = 65536 * q + r
OBVIOUS

LEMMA Hundreds ==
    ASSUME NEW n \in Nat, NEW q \in Nat, NEW r \in Nat, q = n \div 100, r = n % 100
    PROVE  n = 100 * q + r
OBVIOUS

LEMMA Quotients ==
    ASSUME NEW n \in Nat
    PROVE  /\ n \div 100 \in Nat
           /\ n \div 65536 \in Nat
           /\ n % 65536 \in Nat
           /\ n % 100 \in 0 .. 99
OBVIOUS

(* A number that is a downramp in range after one cut is out of range      *)
(* after two, in 16 bits as well.                                          *)
LEMMA CutTwice ==
    ASSUME NEW v \in Nat, (v \div 100) % 65536 \in 10 .. 100
    PROVE  ((v \div 100) \div 100) % 65536 \notin 10 .. 100
<1>1. PICK a \in Nat : a = v \div 100
  BY Quotients
<1>2. PICK b \in Nat : b = a \div 100
  BY Quotients
<1>3. PICK t \in 0 .. 99 : t = a % 100
  BY Quotients
<1>4. PICK q \in Nat : q = a \div 65536
  BY Quotients
<1>5. PICK k \in Nat : k = b \div 65536
  BY Quotients
<1>6. PICK r \in 10 .. 100 : r = a % 65536
  BY <1>1
<1>7. SUFFICES ASSUME NEW s \in 10 .. 100, s = b % 65536
               PROVE  FALSE
  BY <1>1, <1>2
<1>8. a = 100 * b + t
  BY <1>2, <1>3, Hundreds
<1>9. a = 65536 * q + r
  BY <1>4, <1>6, Words
<1>10. b = 65536 * k + s
  BY <1>5, <1>7, Words
<1>11. CASE q <= 100 * k
  BY <1>8, <1>9, <1>10, <1>11
<1>12. CASE q > 100 * k
  BY <1>8, <1>9, <1>10, <1>12
<1> QED
  BY <1>11, <1>12

-----------------------------------------------------------------------------
(* The inductive invariant.  Besides the two cursors, it says how far      *)
(* consecutive bare "task" lines have got, and what oldbuf holds after a   *)
(* command that succeeded.                                                 *)
TasksProgress ==
    /\ pxCommand = "help" => helpCursor >= tasks + 2
    /\ tasks # 0 => pxCommand # "motor"
    /\ tasks = Len(Registered) => by = "task"

Sets  == {SetOp[p] : p \in DOMAIN SetOp}
Gets  == {GetOp[p] : p \in DOMAIN GetOp}

Remembers ==
    answer = "success" =>
        /\ pxCommand = "motor"
        /\ sent \in Sets \cup Gets \cup {"start", "stop"}
        /\ sent \in {"start", "stop"} => oldbuf.option = sent
        /\ sent \in Gets => /\ oldbuf.option = "get" /\ oldbuf.param \in DOMAIN GetOp
                           /\ sent = GetOp[oldbuf.param]
        /\ sent \in Sets => oldbuf.option = "set"
        /\ sent = "setSpeed" => oldbuf.param = "speed"
        /\ sent = "setUpramp" => oldbuf.param = "upramp"
        /\ sent = "setDownramp" => oldbuf.param = "downramp"
        /\ sent \in {"setSpeed", "setUpramp"} =>
             oldbuf.value # 0 /\ Accepted([op |-> sent, arg |-> oldbuf.value])
        /\ sent = "setDownramp" =>
             ~Accepted([op |-> "setDownramp", arg |-> oldbuf.value])

Inductive == TypeOK /\ CursorsAgree /\ TasksProgress /\ Remembers

LEMMA Operations ==
    /\ DOMAIN SetOp = {"speed", "upramp", "downramp"}
    /\ DOMAIN GetOp = {"speed", "upramp", "downramp"}
    /\ SetOp["speed"] = "setSpeed" /\ GetOp["speed"] = "getSpeed"
    /\ SetOp["upramp"] = "setUpramp" /\ GetOp["upramp"] = "getUpramp"
    /\ SetOp["downramp"] = "setDownramp" /\ GetOp["downramp"] = "getDownramp"
    /\ Sets = {"setSpeed", "setUpramp", "setDownramp"}
    /\ Gets = {"getSpeed", "getUpramp", "getDownramp"}
BY DEF SetOp, GetOp, Sets, Gets

(* The bare "task" streak is counted up to the number of commands.         *)
Counted(l) ==
    tasks' = IF l # BareTask THEN 0
             ELSE IF tasks < Len(Registered) THEN tasks + 1 ELSE tasks

LEMMA Bare == BareTask.word = "task" /\ BareTask.option = ""
BY DEF BareTask

LEMMA CountedType ==
    ASSUME NEW l \in LineType, Counted(l), tasks \in 0 .. 3
    PROVE  /\ tasks' \in 0 .. 3
           /\ tasks' <= tasks + 1
           /\ l.word # "task" \/ l.option # "" => tasks' = 0
<1>1. l.word # "task" \/ l.option # "" => l # BareTask
  BY Bare
<1>2. CASE l = BareTask
  <2>1. tasks' = IF tasks < 3 THEN tasks + 1 ELSE tasks
    BY <1>2, List DEF Counted
  <2>2. tasks' \in 0 .. 3 /\ tasks' <= tasks + 1
    BY <2>1
  <2> QED
    BY <1>1, <1>2, <2>2
<1>3. CASE l # BareTask
  BY <1>3 DEF Counted
<1> QED
  BY <1>2, <1>3

LEMMA RejectStep ==
    ASSUME NEW l \in LineType, Inductive, Reject(l), Counted(l),
           Found(l) = "none" \/ WrongParameters(l)
    PROVE  Inductive'
<1>1. pxCommand = "none" /\ pxCommand' = "none" /\ by' = "interpreter"
  BY List DEF Reject, Return, Found, WrongParameters, Inductive, TypeOK
<1>2. l.word # "task" \/ l.option # ""
  BY <1>1, List DEF Found, WrongParameters
<1>3. tasks' = 0
  BY <1>2, CountedType, List DEF Inductive, TypeOK
<1>4. answer' \in {"notRecognised", "badParameters"} /\ sent' = "none"
      /\ oldbuf' = l /\ helpCursor' = helpCursor
  BY DEF Reject, Return
<1>5. TypeOK'
  BY <1>1, <1>3, <1>4, List, Operations DEF Inductive, TypeOK
<1>6. CursorsAgree'
  BY <1>1, <1>4 DEF Inductive, CursorsAgree
<1>7. TasksProgress'
  BY <1>1, <1>3, List DEF TasksProgress
<1>8. Remembers'
  BY <1>4 DEF Remembers
<1> QED
  BY <1>5, <1>6, <1>7, <1>8 DEF Inductive

(* The cursor stays two ahead of the streak when both move by one. *)
LEMMA KeepsAhead ==
    ASSUME NEW h \in 0 .. 3, NEW t \in 0 .. 3, NEW u \in 0 .. 3,
           h >= t + 2, u <= t + 1
    PROVE  h + 1 >= u + 2
OBVIOUS

LEMMA NotYetThree ==
    ASSUME NEW t \in 0 .. 3, NEW u \in 0 .. 3, t = 0, u <= t + 1
    PROVE  u # 3
OBVIOUS

LEMMA HelpStep ==
    ASSUME NEW l \in LineType, Inductive, prvHelpCommand(l), Counted(l),
           Found(l) = "help"
    PROVE  Inductive'
<1> DEFINE shown == IF helpCursor = 0 THEN 1 ELSE helpCursor
<1>1. /\ helpCursor \in 0 .. 3
      /\ pxCommand = "help" \/ (pxCommand = "none" /\ helpCursor = 0 /\ l.word = "help")
  BY List DEF Found, Inductive, TypeOK, CursorsAgree
<1>2. /\ by' = "help" /\ sent' = "none" /\ oldbuf' = l
      /\ answer' = Registered[shown]
      /\ pxCommand' = IF shown # 3 THEN "help" ELSE "none"
      /\ helpCursor' = IF shown = 3 THEN 0 ELSE shown + 1
  BY List DEF prvHelpCommand, Return
<1>3. shown \in 1 .. 3
  BY <1>1
<1>4. /\ tasks' \in 0 .. 3
      /\ l.word = "help" => tasks' = 0
      /\ tasks' <= tasks + 1
      /\ tasks \in 0 .. 3
  BY CountedType, List DEF Inductive, TypeOK
<1>5. answer' \in Commands
  BY <1>2, <1>3, List
<1>6. TypeOK'
  BY <1>2, <1>3, <1>4, <1>5, List DEF TypeOK
<1>7. CursorsAgree'
  BY <1>2, <1>3 DEF CursorsAgree
<1>8. pxCommand = "help" => helpCursor >= tasks + 2
  BY DEF Inductive, TasksProgress
<1>9. TasksProgress'
  <2>1. CASE pxCommand = "help"
    <3>1. helpCursor >= tasks + 2 /\ helpCursor <= 3
      BY <1>1, <1>8, <2>1
    <3>2. shown = helpCursor /\ tasks' <= 2
      BY <1>1, <1>4, <3>1
    <3>3. ASSUME pxCommand' = "help" PROVE helpCursor' >= tasks' + 2
      <4>1. shown # 3
        BY <1>2, <3>3
      <4>2. helpCursor' = helpCursor + 1
        BY <1>2, <3>2, <4>1
      <4>3. helpCursor \in 0 .. 3 /\ tasks \in 0 .. 3 /\ tasks' \in 0 .. 3
        BY <1>1, <1>4
      <4>4. helpCursor + 1 >= tasks' + 2
        BY <1>4, <3>1, <4>3, KeepsAhead, Zenon
      <4> QED
        BY <4>2, <4>4, Zenon
    <3>4. pxCommand' # "motor" /\ tasks' # 3
      BY <1>2, <1>4, <3>2
    <3> QED
      BY <1>4, <3>3, <3>4, List DEF TasksProgress
  <2>2. CASE pxCommand = "none" /\ helpCursor = 0 /\ l.word = "help"
    BY <1>2, <1>4, <2>2, List DEF TasksProgress
  <2> QED
    BY <1>1, <2>1, <2>2
<1>10. Remembers'
  BY <1>5, List DEF Remembers
<1> QED
  BY <1>6, <1>7, <1>9, <1>10 DEF Inductive

LEMMA TaskStep ==
    ASSUME NEW l \in LineType, Inductive, prvTaskStatsCommand(l), Counted(l),
           Found(l) = "task"
    PROVE  Inductive'
<1>1. /\ by' = "task" /\ sent' = "none" /\ oldbuf' = l /\ answer' = "table"
      /\ pxCommand' = "none" /\ helpCursor' = helpCursor
  BY DEF prvTaskStatsCommand, Return
<1>2. pxCommand # "help"
  BY DEF Found
<1>3. tasks' \in 0 .. 3
  BY CountedType, List DEF Inductive, TypeOK
<1>4. TypeOK'
  BY <1>1, <1>3, List DEF Inductive, TypeOK
<1>5. CursorsAgree'
  BY <1>1, <1>2 DEF Inductive, CursorsAgree
<1>6. TasksProgress' /\ Remembers'
  BY <1>1 DEF TasksProgress, Remembers
<1> QED
  BY <1>4, <1>5, <1>6 DEF Inductive

(* What a motor handler may answer without a success, and with one.        *)
Unsuccessful(l) ==
    /\ answer' \in {"usage", "tooFew", "motorHelp", "outOfRange", "modbusError"}
    /\ sent' \in Sets \cup Gets \cup {"none", "start", "stop"}
    /\ pxCommand' \in {"motor", "none"}
    /\ l.option = "" => pxCommand' = "none"

Successful(l) ==
    /\ answer' = "success" /\ pxCommand' = "motor" /\ l.option # ""
    /\ \/ sent' \in {"start", "stop"} /\ l.option = sent'
       \/ /\ sent' \in Gets /\ l.option = "get"
          /\ l.param \in DOMAIN GetOp /\ sent' = GetOp[l.param]
       \/ /\ l.option = "set" /\ l.value # 0
          /\ l.param \in DOMAIN SetOp /\ sent' = SetOp[l.param]
          /\ Accepted([op |-> sent', arg |-> l.value])

LEMMA SaysOne ==
    ASSUME NEW l, NEW text, NEW more \in BOOLEAN, Says(text, more),
           text \in {"usage", "tooFew", "motorHelp", "outOfRange", "modbusError"},
           l.option = "" => ~more
    PROVE  Unsuccessful(l)
BY DEF Says, Return, Unsuccessful

LEMMA MotorAnswers ==
    ASSUME NEW l \in LineType, prvMotorCommand(l)
    PROVE  Unsuccessful(l) \/ Successful(l)
<1>1. CASE l.option = "" /\ Says("tooFew", FALSE)
  BY <1>1, SaysOne
<1>2. CASE l.option = "help" /\ Says("motorHelp", TRUE)
  BY <1>2, SaysOne
<1>3. CASE l.option = "set" /\ Says("usage", FALSE)
  BY <1>3, SaysOne
<1>4. CASE l.option = "set" /\ l.value # 0 /\ handleVariable_set(l)
  <2>1. CASE Says("usage", FALSE)
    BY <2>1, SaysOne
  <2>2. CASE Says("outOfRange", FALSE)
    BY <2>2, SaysOne
  <2>3. CASE /\ l.param \in DOMAIN SetOp
             /\ Accepted([op |-> SetOp[l.param], arg |-> l.value])
             /\ Exchanges(SetOp[l.param])
    <3>1. SetOp[l.param] \in Sets
      BY <2>3 DEF Sets
    <3>2. CASE Return("motor", "success", TRUE, SetOp[l.param])
      <4>1. answer' = "success" /\ pxCommand' = "motor" /\ sent' = SetOp[l.param]
        BY <3>2 DEF Return
      <4> QED
        BY <1>4, <2>3, <4>1 DEF Successful
    <3>3. CASE Return("motor", "modbusError", FALSE, SetOp[l.param])
      BY <3>1, <3>3 DEF Return, Unsuccessful
    <3> QED
      BY <2>3, <3>2, <3>3 DEF Exchanges
  <2> QED
    BY <1>4, <2>1, <2>2, <2>3 DEF handleVariable_set
<1>5. CASE l.option = "get" /\ Says("usage", FALSE)
  BY <1>5, SaysOne
<1>6. CASE l.option = "get" /\ handleVariable_get(l)
  <2>1. CASE Says("usage", FALSE)
    BY <2>1, SaysOne
  <2>2. CASE l.param \in DOMAIN GetOp /\ Exchanges(GetOp[l.param])
    <3>1. GetOp[l.param] \in Gets
      BY <2>2 DEF Gets
    <3>2. CASE Return("motor", "success", TRUE, GetOp[l.param])
      BY <1>6, <2>2, <3>1, <3>2 DEF Return, Successful
    <3>3. CASE Return("motor", "modbusError", FALSE, GetOp[l.param])
      BY <3>1, <3>3 DEF Return, Unsuccessful
    <3> QED
      BY <2>2, <3>2, <3>3 DEF Exchanges
  <2> QED
    BY <1>6, <2>1, <2>2 DEF handleVariable_get
<1>7. CASE l.option \in {"stop", "start"} /\ Exchanges(l.option)
  <2>1. CASE Return("motor", "success", TRUE, l.option)
    BY <1>7, <2>1 DEF Return, Successful
  <2>2. CASE Return("motor", "modbusError", FALSE, l.option)
    BY <1>7, <2>2 DEF Return, Unsuccessful
  <2> QED
    BY <1>7, <2>1, <2>2 DEF Exchanges
<1>8. CASE Says("usage", FALSE)
  BY <1>8, SaysOne
<1> QED
  BY <1>1, <1>2, <1>3, <1>4, <1>5, <1>6, <1>7, <1>8 DEF prvMotorCommand

LEMMA TerminatedFields ==
    ASSUME NEW l \in LineType
    PROVE  /\ Terminated(l).option = l.option
           /\ Terminated(l).param = l.param
           /\ l.option = "set" /\ l.param = "downramp"
                => Terminated(l).value = l.value \div 100
           /\ ~(l.option = "set" /\ l.param = "downramp") => Terminated(l) = l
BY DEF Terminated, LineType

LEMMA DownrampNotTwice ==
    ASSUME NEW v \in Nat, Accepted([op |-> "setDownramp", arg |-> v])
    PROVE  ~Accepted([op |-> "setDownramp", arg |-> v \div 100])
<1>1. (v \div 100) % 65536 \in 10 .. 100
  BY DEF Accepted, Parsed
<1>2. ((v \div 100) \div 100) % 65536 \notin 10 .. 100
  BY <1>1, CutTwice
<1> QED
  BY <1>2 DEF Accepted, Parsed

LEMMA MotorRemembers ==
    ASSUME NEW l \in LineType, Unsuccessful(l) \/ Successful(l),
           oldbuf' = Terminated(l)
    PROVE  Remembers'
<1>1. CASE Unsuccessful(l)
  BY <1>1 DEF Unsuccessful, Remembers
<1>2. CASE Successful(l) /\ sent' \in {"start", "stop"} /\ l.option = sent'
  <2>1. oldbuf'.option = sent'
    BY <1>2, TerminatedFields
  <2> QED
    BY <1>2, <2>1, Operations DEF Successful, Remembers
<1>3. CASE /\ Successful(l)
           /\ sent' \in Gets /\ l.option = "get"
           /\ l.param \in DOMAIN GetOp /\ sent' = GetOp[l.param]
  <2>1. oldbuf'.option = "get" /\ oldbuf'.param = l.param
    BY <1>3, TerminatedFields
  <2> QED
    BY <1>3, <2>1, Operations DEF Successful, Remembers
<1>4. CASE /\ Successful(l)
           /\ l.option = "set" /\ l.value # 0
           /\ l.param \in DOMAIN SetOp /\ sent' = SetOp[l.param]
           /\ Accepted([op |-> sent', arg |-> l.value])
  <2>1. oldbuf'.option = "set" /\ oldbuf'.param = l.param
    BY <1>4, TerminatedFields
  <2>2. l.value \in Nat
    BY DEF LineType
  <2>3. CASE l.param = "downramp"
    <3>1. sent' = "setDownramp" /\ oldbuf'.value = l.value \div 100
      BY <1>4, <2>3, Operations, TerminatedFields
    <3>2. ~Accepted([op |-> "setDownramp", arg |-> oldbuf'.value])
      BY <1>4, <2>2, <3>1, DownrampNotTwice
    <3> QED
      BY <1>4, <2>1, <2>3, <3>1, <3>2, Operations DEF Successful, Remembers
  <2>4. CASE l.param # "downramp"
    <3>1. oldbuf' = l
      BY <2>4, TerminatedFields
    <3>2. \/ l.param = "speed" /\ sent' = "setSpeed"
          \/ l.param = "upramp" /\ sent' = "setUpramp"
      BY <1>4, <2>4, Operations
    <3> QED
      BY <1>4, <2>1, <3>1, <3>2, Operations DEF Successful, Remembers
  <2> QED
    BY <2>3, <2>4
<1> QED
  BY <1>1, <1>2, <1>3, <1>4 DEF Successful

LEMMA MotorStep ==
    ASSUME NEW l \in LineType, Inductive, prvMotorCommand(l), Counted(l),
           Found(l) = "motor"
    PROVE  Inductive'
<1>1. Unsuccessful(l) \/ Successful(l)
  BY MotorAnswers
<1>2. by' = "motor" /\ oldbuf' = Terminated(l) /\ helpCursor' = helpCursor
  BY DEF prvMotorCommand, Says, Exchanges, Return, handleVariable_set, handleVariable_get
<1>3. /\ answer' \in {"usage", "tooFew", "motorHelp", "outOfRange", "modbusError",
                     "success"}
      /\ sent' \in Sets \cup Gets \cup {"none", "start", "stop"}
      /\ pxCommand' \in {"motor", "none"}
      /\ l.option = "" => pxCommand' = "none"
  BY <1>1, Operations DEF Unsuccessful, Successful
<1>4. pxCommand = "motor" \/ (pxCommand = "none" /\ l.word = "motor")
  BY DEF Found
<1>5. oldbuf' \in LineType
  BY <1>2, TerminatedType
<1>6. /\ tasks \in 0 .. 3
      /\ tasks' \in 0 .. 3
      /\ tasks' <= tasks + 1
      /\ l.word # "task" \/ l.option # "" => tasks' = 0
  BY CountedType, List DEF Inductive, TypeOK
<1>7. TypeOK'
  BY <1>2, <1>3, <1>5, <1>6, List, Operations DEF Inductive, TypeOK, Sets, Gets
<1>8. CursorsAgree'
  BY <1>2, <1>3, <1>4 DEF Inductive, CursorsAgree
<1>9. tasks' # 3
  <2>1. CASE pxCommand = "motor"
    <3>1. tasks = 0
      BY <2>1 DEF Inductive, TasksProgress
    <3> QED
      BY <1>6, <3>1, NotYetThree, Zenon
  <2>2. CASE l.word = "motor"
    BY <1>6, <2>2
  <2> QED
    BY <1>4, <2>1, <2>2
<1>10. tasks' # 0 => pxCommand' # "motor"
  BY <1>3, <1>6
<1>11. TasksProgress'
  BY <1>3, <1>6, <1>9, <1>10, List DEF TasksProgress
<1>12. Remembers'
  BY <1>1, <1>2, MotorRemembers
<1> QED
  BY <1>7, <1>8, <1>11, <1>12 DEF Inductive

-----------------------------------------------------------------------------
LEMMA ProcessStep ==
    ASSUME NEW l \in LineType, Inductive, FreeRTOS_CLIProcessCommand(l)
    PROVE  Inductive'
<1>1. Counted(l)
  BY DEF FreeRTOS_CLIProcessCommand, Counted
<1>2. CASE (Found(l) = "none" \/ WrongParameters(l)) /\ Reject(l)
  BY <1>1, <1>2, RejectStep
<1>3. CASE Found(l) = "help" /\ prvHelpCommand(l)
  BY <1>1, <1>3, HelpStep
<1>4. CASE Found(l) = "motor" /\ prvMotorCommand(l)
  BY <1>1, <1>4, MotorStep
<1>5. CASE Found(l) = "task" /\ prvTaskStatsCommand(l)
  BY <1>1, <1>5, TaskStep
<1> QED
  BY <1>2, <1>3, <1>4, <1>5 DEF FreeRTOS_CLIProcessCommand

LEMMA InductiveInit == Init => Inductive
<1> SUFFICES ASSUME Init PROVE Inductive
  OBVIOUS
<1>1. Garbage \in LineType
  BY DEF Garbage, LineType
<1>2. TypeOK
  BY <1>1, List DEF Init, TypeOK
<1>3. CursorsAgree
  BY DEF Init, CursorsAgree
<1>4. TasksProgress
  BY List DEF Init, TasksProgress
<1>5. Remembers
  BY DEF Init, Remembers
<1> QED
  BY <1>2, <1>3, <1>4, <1>5 DEF Inductive

LEMMA InductiveStep == Inductive /\ [Next]_vars => Inductive'
<1> SUFFICES ASSUME Inductive, [Next]_vars PROVE Inductive'
  OBVIOUS
<1>1. CASE EmptyLine
  BY <1>1, ProcessStep DEF EmptyLine, Inductive, TypeOK
<1>2. ASSUME NEW l \in Lines, TypedLine(l) PROVE Inductive'
  BY <1>2, ProcessStep, LinesAssumption DEF TypedLine
<1>3. CASE UNCHANGED vars
  <2>1. TypeOK' /\ CursorsAgree' /\ TasksProgress'
    BY <1>3 DEF vars, Inductive, TypeOK, CursorsAgree, TasksProgress
  <2>2. Remembers'
    BY <1>3 DEF vars, Inductive, Remembers
  <2> QED
    BY <2>1, <2>2 DEF Inductive
<1> QED
  BY <1>1, <1>2, <1>3 DEF Next

-----------------------------------------------------------------------------
(* The statics and the texts keep to their types, whatever lines arrive.   *)
THEOREM TypeCorrect == Spec => []TypeOK
<1>1. Inductive => TypeOK
  BY DEF Inductive
<1> QED
  BY InductiveInit, InductiveStep, <1>1, PTL DEF Spec

(* The two static pointers, in two functions, never disagree.              *)
THEOREM CursorsAlwaysAgree == Spec => []CursorsAgree
<1>1. Inductive => CursorsAgree
  BY DEF Inductive
<1> QED
  BY InductiveInit, InductiveStep, <1>1, PTL DEF Spec

(* Three bare "task" lines in a row end with the task table.               *)
THEOREM AlwaysResynchronises == Spec => []Resynchronises
<1>1. Inductive => Resynchronises
  BY DEF Inductive, TasksProgress, Resynchronises
<1> QED
  BY InductiveInit, InductiveStep, <1>1, PTL DEF Spec

(* After a success the dispatcher hands an empty line to the motor handler *)
(* with the remembered line; each kind of command in turn.                 *)
LEMMA RepeatStep ==
    ASSUME Inductive, EmptyLine, answer = "success"
    PROVE  \/ sent' = sent /\ sent # "setDownramp"
           \/ sent' = "none" /\ sent \in {"setDownramp", "getSpeed", "getUpramp",
                                         "getDownramp"}
<1> DEFINE l == oldbuf
<1>1. Remembers /\ pxCommand = "motor"
  BY DEF Inductive, Remembers
<1>2. prvMotorCommand(l)
  BY <1>1 DEF EmptyLine, FreeRTOS_CLIProcessCommand, Found, WrongParameters
<1>3. sent \in Sets \cup Gets \cup {"start", "stop"}
  BY <1>1 DEF Remembers
<1>4. CASE sent \in {"start", "stop"}
  <2>1. l.option = sent
    BY <1>1, <1>4 DEF Remembers
  <2>2. Exchanges(l.option)
    BY <1>2, <1>4, <2>1 DEF prvMotorCommand
  <2>3. sent' = l.option
    BY <2>2 DEF Exchanges, Return
  <2> QED
    BY <1>4, <2>1, <2>3
<1>5. CASE sent \in Gets
  <2>1. l.option = "get" /\ l.param \in DOMAIN GetOp /\ sent = GetOp[l.param]
    BY <1>1, <1>5 DEF Remembers
  <2>2. Says("usage", FALSE) \/ handleVariable_get(l)
    BY <1>2, <2>1 DEF prvMotorCommand
  <2>3. CASE Says("usage", FALSE)
    BY <1>5, <2>3, Operations DEF Says, Return
  <2>4. CASE handleVariable_get(l)
    <3>1. sent' = GetOp[l.param]
      BY <2>1, <2>4 DEF handleVariable_get, Exchanges, Return
    <3> QED
      BY <1>5, <2>1, <3>1, Operations
  <2> QED
    BY <2>2, <2>3, <2>4
<1>6. CASE sent \in {"setSpeed", "setUpramp"}
  <2>1. /\ l.option = "set" /\ l.value # 0
        /\ l.param \in {"speed", "upramp"} /\ SetOp[l.param] = sent
        /\ Accepted([op |-> sent, arg |-> l.value])
    BY <1>1, <1>6, Operations DEF Remembers
  <2>2. handleVariable_set(l)
    BY <1>2, <2>1 DEF prvMotorCommand
  <2>3. Exchanges(sent)
    BY <2>1, <2>2, Operations DEF handleVariable_set
  <2> QED
    BY <1>6, <2>3 DEF Exchanges, Return
<1>7. CASE sent = "setDownramp"
  <2>1. /\ l.option = "set" /\ l.param = "downramp"
        /\ ~Accepted([op |-> "setDownramp", arg |-> l.value])
    BY <1>1, <1>7, Operations DEF Remembers
  <2>2. Says("usage", FALSE) \/ handleVariable_set(l)
    BY <1>2, <2>1 DEF prvMotorCommand
  <2>3. Says("usage", FALSE) \/ Says("outOfRange", FALSE)
    BY <2>1, <2>2, Operations DEF handleVariable_set
  <2> QED
    BY <1>7, <2>3 DEF Says, Return
<1> QED
  BY <1>3, <1>4, <1>5, <1>6, <1>7, Operations

(* An empty line repeats the command that succeeded, except that a get may *)
(* be refused and a downramp always is: for every number that can be typed.*)
THEOREM RepeatsWhatSucceeded == Spec => EmptyLineRepeats
<1>1. Inductive /\ [Next]_vars =>
        [EmptyLine /\ answer = "success" =>
           \/ sent' = sent /\ sent # "setDownramp"
           \/ sent' = "none" /\ sent \in {"setDownramp", "getSpeed", "getUpramp",
                                         "getDownramp"}]_vars
  BY RepeatStep
<1> QED
  BY InductiveInit, InductiveStep, <1>1, PTL DEF Spec, EmptyLineRepeats

-----------------------------------------------------------------------------
(* Where the cursor stands after each text of the list. *)
Listing ==
    by = "help" => /\ answer = "help" => pxCommand = "help" /\ helpCursor = 2
                   /\ answer = "motor" => pxCommand = "help" /\ helpCursor = 3

LEMMA HelpAnswers ==
    ASSUME NEW l, Inductive, prvHelpCommand(l), Found(l) = "help"
    PROVE  \/ answer' = "help" /\ pxCommand' = "help" /\ helpCursor' = 2 /\ helpCursor \in {0, 1}
           \/ answer' = "motor" /\ pxCommand' = "help" /\ helpCursor' = 3 /\ helpCursor = 2
           \/ answer' = "task" /\ helpCursor = 3
<1> DEFINE shown == IF helpCursor = 0 THEN 1 ELSE helpCursor
<1>1. helpCursor \in 0 .. 3
  BY List DEF Inductive, TypeOK
<1>2. /\ answer' = Registered[shown]
      /\ pxCommand' = IF shown # 3 THEN "help" ELSE "none"
      /\ helpCursor' = IF shown = 3 THEN 0 ELSE shown + 1
  BY List DEF prvHelpCommand, Return
<1>3. shown = 1 \/ shown = 2 \/ shown = 3
  BY <1>1
<1> QED
  BY <1>1, <1>2, <1>3, List

LEMMA OtherAnswers ==
    ASSUME NEW l \in LineType, FreeRTOS_CLIProcessCommand(l)
    PROVE  by' # "help" \/ (prvHelpCommand(l) /\ by' = "help" /\ Found(l) = "help")
<1>1. prvMotorCommand(l) => by' = "motor"
  BY DEF prvMotorCommand, Says, Exchanges, Return, handleVariable_set, handleVariable_get
<1> QED
  BY <1>1 DEF FreeRTOS_CLIProcessCommand, Reject, Return, prvTaskStatsCommand, prvHelpCommand

LEMMA ListingStep ==
    ASSUME NEW l \in LineType, Inductive, FreeRTOS_CLIProcessCommand(l)
    PROVE  Listing'
<1>1. CASE by' # "help"
  BY <1>1 DEF Listing
<1>2. CASE prvHelpCommand(l) /\ Found(l) = "help"
  BY <1>2, HelpAnswers DEF Listing
<1> QED
  BY <1>1, <1>2, OtherAnswers

LEMMA NextIsProcess ==
    ASSUME Inductive, Next
    PROVE  \E l \in LineType : FreeRTOS_CLIProcessCommand(l)
<1>1. CASE EmptyLine
  BY <1>1 DEF EmptyLine, Inductive, TypeOK
<1>2. CASE \E l \in Lines : TypedLine(l)
  BY <1>2, LinesAssumption DEF TypedLine
<1> QED
  BY <1>1, <1>2 DEF Next

(* Once help has begun, its texts come one after the other, whatever lines *)
(* are typed meanwhile.                                                    *)
THEOREM HelpAlwaysInOrder == Spec => HelpInOrder
<1>1. Init => Listing
  BY DEF Init, Listing
<1>2. Inductive /\ Listing /\ [Next]_vars => Listing'
  <2> SUFFICES ASSUME Inductive, Listing, [Next]_vars PROVE Listing'
    OBVIOUS
  <2>1. CASE Next
    BY <2>1, NextIsProcess, ListingStep
  <2>2. CASE UNCHANGED vars
    BY <2>2 DEF vars, Listing
  <2> QED
    BY <2>1, <2>2
<1>3. Inductive /\ Listing /\ [Next]_vars =>
        [\A i \in 1 .. Len(Registered) - 1 :
           by = "help" /\ answer = Registered[i]
              => by' = "help" /\ answer' = Registered[i + 1]]_vars
  <2> SUFFICES ASSUME Inductive, Listing, Next, NEW i \in 1 .. 2,
                      by = "help", answer = Registered[i]
               PROVE  by' = "help" /\ answer' = Registered[i + 1]
    BY List
  <2>1. PICK l \in LineType : FreeRTOS_CLIProcessCommand(l)
    BY NextIsProcess
  <2>2. pxCommand = "help" /\ helpCursor = i + 1 /\ (i = 1 \/ i = 2)
    BY List DEF Listing
  <2>3. prvHelpCommand(l) /\ Found(l) = "help"
    BY <2>1, <2>2 DEF FreeRTOS_CLIProcessCommand, Found, WrongParameters
  <2>4. by' = "help"
    BY <2>3 DEF prvHelpCommand, Return
  <2>5. CASE i = 1
    BY <2>2, <2>3, <2>4, <2>5, HelpAnswers, List
  <2>6. CASE i = 2
    BY <2>2, <2>3, <2>4, <2>6, HelpAnswers, List
  <2> QED
    BY <2>2, <2>5, <2>6
<1> QED
  BY InductiveInit, InductiveStep, <1>1, <1>2, <1>3, PTL DEF Spec, HelpInOrder
=============================================================================
