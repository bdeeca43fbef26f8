----------------------------- MODULE CliDispatch -----------------------------
(***************************************************************************)
(* From a line of text to a command handler: the loop of set_macTask       *)
(* (W5200.c), FreeRTOS_CLIProcessCommand and prvHelpCommand                *)
(* (FreeRTOS_CLI.c), prvMotorCommand and prvTaskStatsCommand (tcpCLI.c).   *)
(*                                                                         *)
(* Two static pointers outlive a line: pxCommand in the interpreter (the   *)
(* command that still has output, NULL when none) and pxCommand in         *)
(* prvHelpCommand (the next help text).  set_macTask calls the interpreter *)
(* ONCE per line, so a handler that answered pdTRUE gets the next line,    *)
(* whatever it says.                                                       *)
(*                                                                         *)
(* A line is its first word, its option, its parameter and its value.  ""  *)
(* and 0 stand for a word that is not there, "?" for any word the code     *)
(* does not know.  What the motor task answers to a telegram is external   *)
(* here (MotorTelegram models it).                                         *)
(***************************************************************************)
EXTENDS MotorArguments, Sequences

CONSTANT Lines      \* the lines a client types

LineType == [word   : {"help", "motor", "task", "?"},
             option : {"", "help", "set", "get", "stop", "start", "?"},
             param  : {"", "speed", "upramp", "downramp", "?"},
             value  : Nat]

ASSUME LinesAssumption == Lines \subseteq LineType

VARIABLES
    pxCommand,      \* the interpreter's static: "none" or a command's name
    helpCursor,     \* prvHelpCommand's static: index of the next text, 0 is NULL
    oldbuf,         \* set_macTask's copy of the last line
    by,             \* who answered the last line: a command, or "interpreter"
    answer,         \* what that answer says
    sent,           \* what the last line sent to the motor task, or "none"
    tasks           \* history: how many of the last lines were a bare "task"

vars == <<pxCommand, helpCursor, oldbuf, by, answer, sent, tasks>>

(* The list of registered commands: help is built in, main registers the   *)
(* others.                                                                 *)
Registered == <<"help", "motor", "task">>
Commands   == {Registered[i] : i \in DOMAIN Registered}

BareTask == [word |-> "task", option |-> "", param |-> "", value |-> 0]

(* oldbuf is read before it is written when the first line is empty; the   *)
(* kernel fills a new stack with 0xa5, so it matches no command.           *)
Garbage  == [word |-> "?", option |-> "", param |-> "", value |-> 0]

Init ==
    /\ pxCommand = "none"
    /\ helpCursor = 0
    /\ oldbuf = Garbage
    /\ by = "interpreter"
    /\ answer = "none"
    /\ sent = "none"
    /\ tasks = 0

-----------------------------------------------------------------------------
(* Handlers.  Each takes the line and may answer in one of several ways.   *)

(* A handler of command c returns with a text, after exchanging the        *)
(* telegram op.  pdTRUE ("more") leaves pxCommand where it is; pdFALSE     *)
(* resets it.  pdPASS, which the motor handler returns on success, is      *)
(* pdTRUE.                                                                 *)
Return(c, text, more, op) ==
    /\ by' = c
    /\ answer' = text
    /\ sent' = op
    /\ pxCommand' = IF more THEN c ELSE "none"

Says(text, more) == Return("motor", text, more, "none")

Exchanges(op) == \/ Return("motor", "success", TRUE, op)
                 \/ Return("motor", "modbusError", FALSE, op)

SetOp == [speed |-> "setSpeed", upramp |-> "setUpramp", downramp |-> "setDownramp"]
GetOp == [speed |-> "getSpeed", upramp |-> "getUpramp", downramp |-> "getDownramp"]

handleVariable_set(l) ==
    \/ l.param \notin DOMAIN SetOp /\ Says("usage", FALSE)
    \/ /\ l.param \in DOMAIN SetOp
       /\ IF Accepted([op |-> SetOp[l.param], arg |-> l.value])
          THEN Exchanges(SetOp[l.param])
          ELSE Says("outOfRange", FALSE)

handleVariable_get(l) ==
    \/ l.param \notin DOMAIN GetOp /\ Says("usage", FALSE)
    \/ l.param \in DOMAIN GetOp /\ Exchanges(GetOp[l.param])

(* Mutant: the handler terminates a copy of the value. *)
TerminatedCopy(l) == l

(* handleVariable_set writes a terminator into the line itself; "downramp" *)
(* writes it two characters early.                                         *)
Terminated(l) ==
    IF l.option = "set" /\ l.param = "downramp"
    THEN [l EXCEPT !.value = @ \div 100] ELSE l

(* "get" tests the uninitialised local Value, so it may answer with the    *)
(* usage text whatever the line says.                                      *)
prvMotorCommand(l) ==
    /\ \/ l.option = "" /\ Says("tooFew", FALSE)
       \/ l.option = "help" /\ Says("motorHelp", TRUE)
       \/ /\ l.option = "set"
          /\ IF l.param = "" \/ l.value = 0 THEN Says("usage", FALSE)
                                            ELSE handleVariable_set(l)
       \/ l.option = "get" /\ Says("usage", FALSE)
       \/ l.option = "get" /\ l.param # "" /\ handleVariable_get(l)
       \/ l.option \in {"stop", "start"} /\ Exchanges(l.option)
       \/ l.option \notin {"", "help", "set", "get", "stop", "start"}
          /\ Says("usage", FALSE)
    /\ oldbuf' = Terminated(l)
    /\ UNCHANGED helpCursor

(* Mutant: after the last text help goes on with the first. *)
prvHelpCommandEndless(l) ==
    LET shown == IF helpCursor = 0 THEN 1 ELSE helpCursor IN
    /\ Return("help", Registered[shown], TRUE, "none")
    /\ helpCursor' = (shown % Len(Registered)) + 1
    /\ oldbuf' = l

(* Mutant: help ends one text early, with its cursor left behind. *)
prvHelpCommandShort(l) ==
    LET shown == IF helpCursor = 0 THEN 1 ELSE helpCursor IN
    /\ Return("help", Registered[shown], shown + 1 < Len(Registered), "none")
    /\ helpCursor' = (shown + 1) % (Len(Registered) + 1)
    /\ oldbuf' = l

(* Mutant: the cursor is left past the end of the list. *)
prvHelpCommandNoReset(l) ==
    LET shown == IF helpCursor = 0 THEN 1 ELSE helpCursor IN
    /\ Return("help", Registered[shown], shown # Len(Registered), "none")
    /\ helpCursor' = shown + 1
    /\ oldbuf' = l

(* One text of the list for each call. *)
prvHelpCommand(l) ==
    LET shown == IF helpCursor = 0 THEN 1 ELSE helpCursor IN
    /\ Return("help", Registered[shown], shown # Len(Registered), "none")
    /\ helpCursor' = IF shown = Len(Registered) THEN 0 ELSE shown + 1
    /\ oldbuf' = l

prvTaskStatsCommand(l) ==
    /\ Return("task", "table", FALSE, "none")
    /\ oldbuf' = l
    /\ UNCHANGED helpCursor

-----------------------------------------------------------------------------
(* The interpreter. *)

(* The table is searched only when no command has output left. *)
Found(l) == IF pxCommand # "none" THEN pxCommand
            ELSE IF l.word \in Commands THEN l.word ELSE "none"

(* cExpectedNumberOfParameters is 0 for help and task and -1 for motor;    *)
(* it is looked at only when the table was searched.                       *)
WrongParameters(l) == /\ pxCommand = "none"
                      /\ l.word \in {"help", "task"}
                      /\ l.option # ""

(* The interpreter answers itself: no such command, or wrong parameters.   *)
Reject(l) ==
    /\ Return("interpreter",
              IF Found(l) = "none" THEN "notRecognised" ELSE "badParameters",
              FALSE, "none")
    /\ oldbuf' = l
    /\ UNCHANGED helpCursor

FreeRTOS_CLIProcessCommand(l) ==
    /\ IF Found(l) = "none" \/ WrongParameters(l) THEN Reject(l)
       ELSE \/ Found(l) = "help" /\ prvHelpCommand(l)
            \/ Found(l) = "motor" /\ prvMotorCommand(l)
            \/ Found(l) = "task" /\ prvTaskStatsCommand(l)
    /\ tasks' = IF l # BareTask THEN 0
                ELSE IF tasks < Len(Registered) THEN tasks + 1 ELSE tasks

-----------------------------------------------------------------------------
(* set_macTask: a line of fewer than three characters (the line end        *)
(* counts) stands for the last line.                                       *)

TypedLine(l) == FreeRTOS_CLIProcessCommand(l)

EmptyLine == FreeRTOS_CLIProcessCommand(oldbuf)

Next == EmptyLine \/ \E l \in Lines : TypedLine(l)

Spec == Init /\ [][Next]_vars

-----------------------------------------------------------------------------
(* Properties *)

(* The statics name registered commands and help texts, and only a motor   *)
(* handler has sent anything.                                              *)
TypeOK ==
    /\ pxCommand \in Commands \cup {"none"}
    /\ helpCursor \in 0 .. Len(Registered)
    /\ oldbuf \in LineType
    /\ by \in Commands \cup {"interpreter"}
    /\ answer \in Commands \cup {"none", "success", "modbusError", "outOfRange",
         "usage", "tooFew", "motorHelp", "table", "notRecognised", "badParameters"}
    /\ sent \in {"none", "start", "stop"} \cup {SetOp[p] : p \in DOMAIN SetOp}
                    \cup {GetOp[p] : p \in DOMAIN GetOp}
    /\ tasks \in 0 .. Len(Registered)

(* The two statics, in two functions, agree: help is the continued command *)
(* exactly while its cursor points at a text.  Otherwise help would start  *)
(* in the middle of the list or run past its end.                          *)
CursorsAgree == pxCommand = "help" <=> helpCursor # 0

(* Help lists the commands in the order of registration, whatever lines    *)
(* come in between: no text is skipped, repeated or interrupted.           *)
HelpInOrder ==
    [][\A i \in 1 .. Len(Registered) - 1 :
         by = "help" /\ answer = Registered[i]
            => by' = "help" /\ answer' = Registered[i + 1]]_vars

(* The dispatcher finds its way back: of as many bare "task" lines in a    *)
(* row as there are commands, the last one is answered by "task", whatever *)
(* command held the dispatcher before.                                     *)
Resynchronises == tasks = Len(Registered) => by = "task"

(* After a success an empty line repeats exactly the command that          *)
(* succeeded, with two exceptions: a get may answer with the usage text,   *)
(* and a "set downramp", whose line was cut, is never repeated.            *)
EmptyLineRepeats ==
    [][EmptyLine /\ answer = "success" =>
         \/ sent' = sent /\ sent # "setDownramp"
         \/ sent' = "none" /\ sent \in {"setDownramp", "getSpeed", "getUpramp",
                                        "getDownramp"}]_vars

(* "Runs the command interpreter for the command string" (FreeRTOS_CLI.h): *)
(* a line that names a command is not answered by another command.         *)
CommandGoesToItsHandler ==
    [][\A l \in Lines : TypedLine(l) /\ l.word \in Commands
                            => by' \in {l.word, "interpreter"}]_vars
=============================================================================
