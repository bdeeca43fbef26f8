---------------------------- MODULE SpiDma_proofs ----------------------------
(***************************************************************************)
(* Theorems about SpiDma, for any number of interrupts: no give is left    *)
(* over, and a transfer that is left alone reads its own answer and leaves *)
(* everything at rest.                                                     *)
(***************************************************************************)
EXTENDS SpiDma, TLAPS

(* The actor that may run: the handler while it has transfers to make. *)
Current == IF left > 0 THEN "isr" ELSE "task"

(* The handler is in a transfer only while it has been entered, and bytes  *)
(* are to be shifted as long as some are to be handed over.                *)
Entered ==
    /\ left = 0 => pc["isr"] = "idle"
    /\ txOn => BSY

(* An actor that has started the TX stream and has not had its give; one   *)
(* that has damaged the list is not followed to it.                        *)
Waits(a) == pc[a] \in {"rxEnable", "take", "damaged"}

(* A give is sure to come that adds to what is there. *)
Owed == BSY \/ ((txTC \/ rxTC) /\ ~xSemaphoreDMASPI)

(* There are no more gives, made or owed, than actors that wait for one.   *)
GivesCovered ==
    /\ xSemaphoreDMASPI \/ Owed => \E a \in Actor : Waits(a)
    /\ xSemaphoreDMASPI /\ Owed => \A a \in Actor : Waits(a)

Quiet == ~BSY /\ ~txOn /\ ~rxOn /\ ~txTC /\ ~rxTC /\ ~xSemaphoreDMASPI

(* The phases of the take of a transfer that is left alone. *)
Running == BSY /\ CS /\ rxOn /\ (txOn <=> ~txTC) /\ ~rxTC /\ ~xSemaphoreDMASPI

Complete(a) ==
    /\ ~BSY /\ ~txOn /\ txTC /\ (rxOn <=> ~rxTC) /\ ~xSemaphoreDMASPI
    /\ op[a] = "read" => rxTC /\ bufferRX = a

Given(a) ==
    /\ ~BSY /\ ~txOn /\ ~rxOn /\ ~CS /\ xSemaphoreDMASPI
    /\ op[a] = "read" => bufferRX = a

(* What holds at each step of a transfer that is left alone. *)
Phase(a) ==
    /\ pc[a] \in Steps \ {"rxEnable", "take"} => Quiet
    /\ pc[a] \in {"idle", "copy"} => ~CS
    /\ pc[a] \in {"txCount", "txMemory", "select", "txEnable", "rxEnable", "take"}
         /\ op[a] = "read" => rxCount = a
    /\ pc[a] \in {"txMemory", "select", "txEnable", "rxEnable", "take"} => txCount = a
    /\ pc[a] \in {"select", "txEnable", "rxEnable", "take"} => txMemory = a
    /\ pc[a] \in {"txEnable", "rxEnable"} => CS
    /\ pc[a] = "rxEnable" => BSY /\ txOn /\ ~rxOn /\ ~txTC /\ ~rxTC /\ ~xSemaphoreDMASPI
    /\ pc[a] = "take" => Running \/ Complete(a) \/ Given(a)
    /\ pc[a] = "copy" => bufferRX = a
    /\ pc[a] # "damaged"

LeftAlone ==
    calm => /\ Phase(Current)
            /\ \A a \in Actor : a # Current => pc[a] = "idle"
            /\ \A a \in Actor : copied[a] = a

SpiInv == TypeOK /\ Entered /\ GivesCovered /\ LeftAlone

LEMMA InitSpi == Init => SpiInv
<1> SUFFICES ASSUME Init PROVE SpiInv
  OBVIOUS
<1>1. TypeOK
  <2>1. pc \in [Actor -> Steps] /\ op \in [Actor -> {"read", "send"}]
    BY DEF Init, Steps
  <2>2. copied \in [Actor -> Actor \cup {"other"}]
    BY DEF Init
  <2>3. left \in 0 .. 3 /\ interrupts \in 0 .. MaxInterrupts
    BY InterruptsAssumption DEF Init
  <2>4. txCount \in Actor /\ rxCount \in Actor /\ txMemory \in Actor /\ bufferRX \in Actor \cup {"other"}
    BY DEF Init, Actor
  <2> QED
    BY <2>1, <2>2, <2>3, <2>4 DEF Init, TypeOK
<1>2. Entered
  <2>1. pc["isr"] = "idle" /\ ~txOn
    BY DEF Init, Actor
  <2> QED
    BY <2>1 DEF Entered
<1>3. GivesCovered
  BY DEF Init, GivesCovered, Owed
<1>4. LeftAlone
  <2>1. Current = "task" /\ Quiet /\ ~CS /\ \A a \in Actor : pc[a] = "idle" /\ copied[a] = a
    BY DEF Init, Current, Quiet
  <2>2. Phase("task")
    BY <2>1 DEF Phase, Actor
  <2> QED
    BY <2>1, <2>2 DEF LeftAlone
<1> QED
  BY <1>1, <1>2, <1>3, <1>4 DEF SpiInv

LEMMA EnteredStep ==
    ASSUME TypeOK, Entered, [Next]_vars
    PROVE  Entered'
<1> USE DEF TypeOK, Entered, Actor
<1>1. CASE TaskBegins \/ HandlerBegins
  <2>1. PICK a \in Actor, o \in {"read", "send"} : Begin(a, o)
    BY <1>1 DEF TaskBegins, HandlerBegins
  <2> QED
    BY <2>1 DEF Begin, At, Runs, Goto, dma, enables, spi
<1>2. CASE Interrupt
  BY <1>2 DEF Interrupt, dma, enables, spi
<1>3. CASE TxDone \/ Shifted \/ DMA2_Stream2_IRQHandler \/ DMA2_Stream3_IRQHandler
  BY <1>3 DEF TxDone, Shifted, DMA2_Stream2_IRQHandler, DMA2_Stream3_IRQHandler, EndTransfer, cpu, spi
<1>4. ASSUME NEW a \in Actor, Step(a) PROVE Entered'
  BY <1>4 DEF Step, SetRxCount, SetTxCount, SetTxMemory, Select, EnableTx, EnableRx, Take, Copy, Leave, At,
              Runs, Goto, dma, enables, spi
<1>5. CASE UNCHANGED vars
  BY <1>5 DEF vars, cpu, dma, enables, spi
<1>6. CASE vListInsertAgain
  BY <1>6 DEF vListInsertAgain, At, Runs, Goto, dma, enables, spi
<1> QED
  BY <1>1, <1>2, <1>3, <1>4, <1>5, <1>6 DEF Next, Hardware

(* A give is owed from the start of TX until the first handler gives it;   *)
(* nobody can take it before the second handler has given in vain.         *)
LEMMA GivesStep ==
    ASSUME TypeOK, Entered, GivesCovered, [Next]_vars
    PROVE  GivesCovered'
<1> USE DEF TypeOK, Entered, GivesCovered, Owed, Waits, Actor
<1>1. CASE TaskBegins \/ HandlerBegins
  <2>1. PICK a \in Actor, o \in {"read", "send"} : Begin(a, o)
    BY <1>1 DEF TaskBegins, HandlerBegins
  <2>2. \A b \in Actor : Waits(b)' <=> Waits(b)
    BY <2>1 DEF Begin, At, Goto
  <2>3. UNCHANGED <<BSY, txTC, rxTC, xSemaphoreDMASPI>>
    BY <2>1 DEF Begin, dma, flags, spi
  <2> QED
    BY <2>2, <2>3
<1>2. CASE Interrupt
  BY <1>2 DEF Interrupt, dma, flags, spi
<1>3. CASE TxDone \/ Shifted
  BY <1>3 DEF TxDone, Shifted, cpu, spi
<1>4. CASE DMA2_Stream2_IRQHandler \/ DMA2_Stream3_IRQHandler
  BY <1>4 DEF DMA2_Stream2_IRQHandler, DMA2_Stream3_IRQHandler, EndTransfer, cpu
<1>5. ASSUME NEW a \in Actor, SetRxCount(a) \/ SetTxCount(a) \/ SetTxMemory(a) \/ Select(a) \/ Copy(a)
      PROVE  GivesCovered'
  <2>2. \A b \in Actor : Waits(b)' <=> Waits(b)
    BY <1>5 DEF SetRxCount, SetTxCount, SetTxMemory, Select, Copy, Leave, At, Goto
  <2>3. UNCHANGED <<BSY, txTC, rxTC, xSemaphoreDMASPI>>
    BY <1>5 DEF SetRxCount, SetTxCount, SetTxMemory, Select, Copy, dma, flags, spi
  <2> QED
    BY <2>2, <2>3
<1>6. ASSUME NEW a \in Actor, EnableTx(a) PROVE GivesCovered'
  <2>1. Waits(a)' /\ ~Waits(a) /\ \A b \in Actor \ {a} : Waits(b)' <=> Waits(b)
    BY <1>6 DEF EnableTx, At, Goto
  <2>2. UNCHANGED <<txTC, rxTC, xSemaphoreDMASPI>>
    BY <1>6 DEF EnableTx, flags
  <2> QED
    BY <2>1, <2>2
<1>7. ASSUME NEW a \in Actor, EnableRx(a) PROVE GivesCovered'
  <2>1. \A b \in Actor : Waits(b)' <=> Waits(b)
    BY <1>7 DEF EnableRx, At, Goto
  <2>2. UNCHANGED <<BSY, txTC, rxTC, xSemaphoreDMASPI>>
    BY <1>7 DEF EnableRx, flags, spi
  <2> QED
    BY <2>1, <2>2
<1>8. ASSUME NEW a \in Actor, Take(a) PROVE GivesCovered'
  <2>1. Waits(a) /\ ~Waits(a)' /\ \A b \in Actor \ {a} : Waits(b)' <=> Waits(b)
    BY <1>8 DEF Take, Leave, At, Goto
  <2>2. xSemaphoreDMASPI /\ ~xSemaphoreDMASPI' /\ ~txTC /\ ~rxTC /\ UNCHANGED <<BSY, txTC, rxTC>>
    BY <1>8 DEF Take, At, Runs, dma, flags, spi
  <2> QED
    BY <2>1, <2>2
<1>9. CASE UNCHANGED vars
  BY <1>9 DEF vars, cpu, dma, flags, spi
<1>10. CASE vListInsertAgain
  <2>1. \A b \in Actor : Waits(b)' <=> Waits(b)
    BY <1>10 DEF vListInsertAgain, At, Goto
  <2>2. UNCHANGED <<BSY, txTC, rxTC, xSemaphoreDMASPI>>
    BY <1>10 DEF vListInsertAgain, dma, flags, spi
  <2> QED
    BY <2>1, <2>2
<1> QED
  BY <1>1, <1>2, <1>3, <1>4, <1>5, <1>6, <1>7, <1>8, <1>9, <1>10 DEF Next, Step, Hardware

-----------------------------------------------------------------------------
(* The steps, with what each leaves alone. *)

LEMMA StepTypes ==
    ASSUME TypeOK, Entered, [Next]_vars
    PROVE  TypeOK'
<1> USE DEF TypeOK, Steps
<1>1. CASE TaskBegins \/ HandlerBegins
  <2>1. PICK a \in Actor, o \in {"read", "send"} : Begin(a, o)
    BY <1>1 DEF TaskBegins, HandlerBegins, Actor
  <2> QED
    BY <2>1 DEF Begin, Goto, dma, registers, enables, flags, spi
<1>2. CASE Interrupt
  <2>1. interrupts' \in 0 .. MaxInterrupts /\ left' \in 0 .. 3
    BY <1>2, InterruptsAssumption DEF Interrupt
  <2> QED
    BY <1>2, <2>1 DEF Interrupt, dma, registers, enables, flags, spi, answers
<1>3. CASE TxDone
  BY <1>3 DEF TxDone, cpu, registers, spi, answers
<1>4. CASE Shifted
  BY <1>4 DEF Shifted, cpu, registers
<1>5. CASE DMA2_Stream2_IRQHandler \/ DMA2_Stream3_IRQHandler
  BY <1>5 DEF DMA2_Stream2_IRQHandler, DMA2_Stream3_IRQHandler, EndTransfer, cpu, registers, answers
<1>6. ASSUME NEW a \in Actor, Take(a) \/ Copy(a) PROVE TypeOK'
  <2>1. pc' \in [Actor -> Steps] /\ left' \in 0 .. 3
    <3>1. a = "isr" => left \in 1 .. 3
      BY <1>6 DEF Take, Copy, At, Runs
    <3>2. a \in Actor
      BY <1>6
    <3> QED
      BY <1>6, <3>1, <3>2 DEF Take, Copy, Leave, Goto
  <2>2. copied' \in [Actor -> Actor \cup {"other"}]
    BY <1>6 DEF Take, Copy, answers
  <2> QED
    BY <1>6, <2>1, <2>2 DEF Take, Copy, dma, registers, enables, flags, spi, answers
<1>7. ASSUME NEW a \in Actor,
             SetRxCount(a) \/ SetTxCount(a) \/ SetTxMemory(a) \/ Select(a) \/ EnableTx(a) \/ EnableRx(a)
      PROVE  TypeOK'
  BY <1>7 DEF SetRxCount, SetTxCount, SetTxMemory, Select, EnableTx, EnableRx, Goto, registers, enables,
              flags, spi, answers
<1>8. CASE UNCHANGED vars
  BY <1>8 DEF vars, cpu, dma, registers, enables, flags, spi, answers
<1>9. CASE vListInsertAgain
  BY <1>9 DEF vListInsertAgain, Goto, Actor, dma, registers, enables, flags, spi, answers
<1> QED
  BY <1>1, <1>2, <1>3, <1>4, <1>5, <1>6, <1>7, <1>8, <1>9 DEF Next, Step, Hardware
-----------------------------------------------------------------------------
(* A transfer that is left alone. *)

(* A transfer that begins with all at rest finds no give to take. *)
LEMMA RestIsQuiet ==
    ASSUME GivesCovered, AtRest
    PROVE  Quiet
BY DEF GivesCovered, AtRest, Idle, Owed, Waits, Quiet

LEMMA BeginAlone ==
    ASSUME SpiInv, NEW a \in Actor, NEW o \in {"read", "send"}, Begin(a, o)
    PROVE  LeftAlone'
<1> SUFFICES ASSUME calm' PROVE /\ Phase(Current)'
                                /\ \A b \in Actor : b # Current' => pc'[b] = "idle"
                                /\ \A b \in Actor : copied'[b] = b
  BY DEF LeftAlone
<1>1. /\ pc[a] = "idle" /\ pc' = [pc EXCEPT ![a] = IF o = "read" THEN "rxCount" ELSE "txCount"]
      /\ Current = a /\ Current' = a
      /\ UNCHANGED <<dma, xSemaphoreDMASPI>>
      /\ op' = [op EXCEPT ![a] = o]
  BY DEF Begin, At, Runs, Goto, Current, Actor
<1>2. Quiet /\ \A b \in Actor \ {a} : pc[b] = "idle"
  <2>1. CASE calm
    BY <2>1, <1>1 DEF SpiInv, LeftAlone, Phase, Steps
  <2>2. CASE ~calm
    <3>1. AtRest
      BY <2>2 DEF Begin
    <3> QED
      BY <3>1, RestIsQuiet DEF SpiInv, AtRest, Idle
  <2> QED
    BY <2>1, <2>2
<1>3. \A b \in Actor : copied'[b] = b
  BY DEF Begin, SpiInv, LeftAlone, AtRest
<1>4. Phase(a)'
  <2>1. pc'[a] \in {"rxCount", "txCount"} /\ (pc'[a] = "txCount" => op'[a] # "read")
    BY <1>1 DEF SpiInv, TypeOK
  <2>2. Quiet'
    BY <1>1, <1>2 DEF Quiet, dma, enables, flags, spi
  <2> QED
    BY <2>1, <2>2 DEF Phase
<1> QED
  BY <1>1, <1>2, <1>3, <1>4 DEF SpiInv, TypeOK

(* Each step of the actor takes its transfer to its next phase. *)
LEMMA StepAlone ==
    ASSUME SpiInv, NEW a \in Actor, Step(a)
    PROVE  LeftAlone'
<1> SUFFICES ASSUME calm' PROVE LeftAlone'
  BY DEF LeftAlone
<1> USE DEF SpiInv, TypeOK
<1>1. calm /\ Current = a /\ ~txTC /\ ~rxTC /\ UNCHANGED op
  BY DEF Step, SetRxCount, SetTxCount, SetTxMemory, Select, EnableTx, EnableRx, Take, Copy, At, Runs,
         Current, Actor
<1>2. Phase(a) /\ (\A b \in Actor : b # a => pc[b] = "idle") /\ \A b \in Actor : copied[b] = b
  BY <1>1 DEF LeftAlone
<1>3. ASSUME SetRxCount(a) \/ SetTxCount(a) \/ SetTxMemory(a) \/ Select(a) \/ EnableTx(a) \/ EnableRx(a)
      PROVE  LeftAlone'
  <2>1. /\ Current' = a /\ UNCHANGED copied
        /\ \A b \in Actor : b # a => pc'[b] = "idle"
    BY <1>1, <1>2, <1>3 DEF SetRxCount, SetTxCount, SetTxMemory, Select, EnableTx, EnableRx, Goto, Current,
                            answers
  <2>2. Phase(a)'
    <3>1. CASE SetRxCount(a)
      BY <3>1, <1>1, <1>2 DEF SetRxCount, At, Goto, Phase, Quiet, Steps, enables, flags, spi
    <3>2. CASE SetTxCount(a)
      BY <3>2, <1>1, <1>2 DEF SetTxCount, At, Goto, Phase, Quiet, Steps, enables, flags, spi
    <3>3. CASE SetTxMemory(a)
      BY <3>3, <1>1, <1>2 DEF SetTxMemory, At, Goto, Phase, Quiet, Steps, enables, flags, spi
    <3>4. CASE Select(a)
      BY <3>4, <1>1, <1>2 DEF Select, At, Goto, Phase, Quiet, Steps, registers, enables, flags
    <3>5. CASE EnableTx(a)
      BY <3>5, <1>1, <1>2 DEF EnableTx, At, Goto, Phase, Quiet, Steps, registers, flags
    <3>6. CASE EnableRx(a)
      BY <3>6, <1>1, <1>2 DEF EnableRx, At, Goto, Phase, Running, Steps, registers, flags, spi
    <3> QED
      BY <1>3, <3>1, <3>2, <3>3, <3>4, <3>5, <3>6
  <2> QED
    BY <2>1, <2>2, <1>2 DEF LeftAlone
<1>4. ASSUME Take(a) PROVE LeftAlone'
  <2>1. /\ pc[a] = "take" /\ xSemaphoreDMASPI /\ ~xSemaphoreDMASPI'
        /\ UNCHANGED <<dma, bufferRX, copied>>
        /\ \A b \in Actor : b # a => pc'[b] = "idle"
        /\ pc'[a] = IF op[a] = "read" THEN "copy" ELSE "idle"
    BY <1>4, <1>2 DEF Take, At, Leave, Goto, answers
  <2>2. Given(a) /\ ~txTC /\ ~rxTC
    BY <2>1, <1>1, <1>2 DEF Phase, Running, Complete
  <2>3. Quiet' /\ ~CS'
    BY <2>1, <2>2 DEF Given, Quiet, dma, enables, flags, spi
  <2>4. Phase(a)'
    BY <2>1, <2>2, <2>3, <1>1 DEF Phase, Given
  <2>5. pc'[a] = "copy" => Current' = a
    BY <2>1, <1>1, <1>4 DEF Take, Leave, Goto, Current
  <2>6. pc'[a] = "idle" => \A b \in Actor : Phase(b)'
    BY <2>1, <2>3 DEF Phase
  <2>7. Current' \in Actor
    BY DEF Current, Actor
  <2> QED
    BY <2>1, <2>4, <2>5, <2>6, <2>7, <1>2 DEF LeftAlone
<1>5. ASSUME Copy(a) PROVE LeftAlone'
  <2>1. /\ pc[a] = "copy" /\ UNCHANGED <<dma, xSemaphoreDMASPI, bufferRX>>
        /\ \A b \in Actor : pc'[b] = "idle"
        /\ copied' = [copied EXCEPT ![a] = bufferRX]
    BY <1>5, <1>2 DEF Copy, At, Leave, Goto
  <2>2. Quiet /\ ~CS /\ bufferRX = a
    BY <2>1, <1>2 DEF Phase, Steps
  <2>3. Quiet' /\ ~CS'
    BY <2>1, <2>2 DEF Quiet, dma, enables, flags, spi
  <2>4. \A b \in Actor : Phase(b)'
    BY <2>1, <2>3 DEF Phase
  <2>5. Current' \in Actor
    BY DEF Current, Actor
  <2> QED
    BY <2>1, <2>2, <2>4, <2>5, <1>2 DEF LeftAlone
<1> QED
  BY <1>3, <1>4, <1>5 DEF Step

(* The streams, the SPI and their handlers take the transfer through the   *)
(* phases of its take.                                                     *)
LEMMA HardwareAlone ==
    ASSUME SpiInv, Hardware
    PROVE  LeftAlone'
<1> SUFFICES ASSUME calm' PROVE LeftAlone'
  BY DEF LeftAlone
<1> USE DEF SpiInv, TypeOK
<1>0. PICK a \in Actor : a = Current
  BY DEF Current, Actor
<1>1. calm /\ UNCHANGED <<cpu, copied>>
  BY DEF Hardware, TxDone, Shifted, DMA2_Stream2_IRQHandler, DMA2_Stream3_IRQHandler, EndTransfer, answers
<1>2. Phase(a) /\ (\A b \in Actor : b # a => pc[b] = "idle") /\ \A b \in Actor : copied[b] = b
  BY <1>0, <1>1 DEF LeftAlone
<1>3. Current' = a /\ UNCHANGED <<pc, op>>
  BY <1>0, <1>1 DEF Current, cpu
<1>4. SUFFICES Phase(a)'
  BY <1>0, <1>1, <1>2, <1>3 DEF LeftAlone, cpu
<1>5. pc[a] \in {"rxEnable", "take"}
  <2>1. ~Quiet
    BY DEF Hardware, TxDone, Shifted, DMA2_Stream2_IRQHandler, DMA2_Stream3_IRQHandler, Quiet
  <2> QED
    BY <2>1, <1>1, <1>2 DEF Phase
<1>6. ASSUME TxDone PROVE Phase(a)'
  <2>1. pc[a] = "take"
    BY <1>6, <1>1, <1>5 DEF TxDone
  <2>2. Running
    BY <2>1, <1>2, <1>6 DEF TxDone, Phase, Complete, Given
  <2>3. Running'
    BY <2>2, <1>6 DEF TxDone, Running, spi
  <2> QED
    BY <2>1, <2>3, <1>2, <1>3, <1>6 DEF TxDone, Phase, registers
<1>7. ASSUME Shifted PROVE Phase(a)'
  <2>1. pc[a] = "take" /\ Running
    BY <1>5, <1>2, <1>7 DEF Shifted, Phase, Complete, Given
  <2>2. txCount = a /\ txMemory = a /\ (op[a] = "read" => rxCount = a)
    BY <2>1, <1>2 DEF Phase
  <2>3. op[a] = "read" => RxLengthFits
    BY <2>2 DEF RxLengthFits
  <2>4. Complete(a)'
    <3>1. ~BSY' /\ ~txOn' /\ txTC' /\ ~xSemaphoreDMASPI'
      BY <2>1, <1>7 DEF Shifted, Running
    <3>2. rxOn' <=> ~rxTC'
      BY <2>1, <1>7 DEF Shifted, Running
    <3>3. op'[a] = "read" => rxTC' /\ bufferRX' = a
      BY <2>1, <2>2, <2>3, <1>3, <1>7 DEF Shifted, Running
    <3> QED
      BY <3>1, <3>2, <3>3 DEF Complete
  <2>5. UNCHANGED <<txCount, rxCount, txMemory>>
    BY <1>7 DEF Shifted, registers
  <2>6. pc'[a] = "take" /\ UNCHANGED op
    BY <2>1, <1>3
  <2> QED
    BY <2>2, <2>4, <2>5, <2>6 DEF Phase
<1>8. ASSUME DMA2_Stream2_IRQHandler \/ DMA2_Stream3_IRQHandler PROVE Phase(a)'
  <2>1. ~BSY /\ ~BSY' /\ ~CS' /\ ~txOn' /\ ~rxOn' /\ xSemaphoreDMASPI' /\ UNCHANGED <<registers, bufferRX>>
    <3>1. EndTransfer
      BY <1>8 DEF DMA2_Stream2_IRQHandler, DMA2_Stream3_IRQHandler
    <3> QED
      BY <3>1 DEF EndTransfer, registers, answers
  <2>2. pc[a] = "take" /\ (Complete(a) \/ Given(a))
    BY <2>1, <1>5, <1>2 DEF Phase, Running
  <2>3. Given(a)'
    BY <2>1, <2>2, <1>3 DEF Given, Complete
  <2> QED
    BY <2>1, <2>2, <2>3, <1>2, <1>3 DEF Phase, registers
<1> QED
  BY <1>6, <1>7, <1>8 DEF Hardware

LEMMA LeftAloneStep ==
    ASSUME SpiInv, [Next]_vars
    PROVE  LeftAlone'
<1>1. CASE TaskBegins \/ HandlerBegins
  <2>1. PICK a \in Actor, o \in {"read", "send"} : Begin(a, o)
    BY <1>1 DEF TaskBegins, HandlerBegins, Actor
  <2> QED
    BY <2>1, BeginAlone
<1>2. CASE Interrupt
  <2> SUFFICES ASSUME calm' PROVE LeftAlone'
    BY DEF LeftAlone
  <2>1. /\ calm /\ pc["task"] = "idle" /\ left = 0 /\ Current = "task" /\ Current' = "isr"
        /\ UNCHANGED <<pc, op, dma, xSemaphoreDMASPI, answers>>
    BY <1>2 DEF Interrupt, Runs, Current, SpiInv, TypeOK
  <2>2. pc["isr"] = "idle" /\ Phase("task")
    BY <2>1 DEF SpiInv, Entered, LeftAlone
  <2>3. Quiet /\ ~CS
    BY <2>1, <2>2 DEF Phase, Steps
  <2>4. Quiet' /\ ~CS'
    BY <2>1, <2>3 DEF Quiet, dma, enables, flags, spi
  <2>5. Phase("isr")'
    BY <2>1, <2>2, <2>4 DEF Phase
  <2> QED
    BY <2>1, <2>5 DEF SpiInv, LeftAlone, Actor, answers
<1>3. CASE Hardware
  BY <1>3, HardwareAlone
<1>4. ASSUME NEW a \in Actor, Step(a) PROVE LeftAlone'
  BY <1>4, StepAlone
<1>5. CASE UNCHANGED vars
  <2>1. UNCHANGED <<pc, op, left, txCount, rxCount, txMemory, txOn, rxOn, txTC, rxTC, BSY, CS,
                    xSemaphoreDMASPI, bufferRX, copied, calm>>
    BY <1>5 DEF vars, cpu, dma, registers, enables, flags, spi, answers
  <2>2. Current' = Current
    BY <2>1 DEF Current
  <2>3. \A a \in Actor : Phase(a) => Phase(a)'
    BY <2>1 DEF Phase, Quiet, Running, Complete, Given
  <2>4. Current \in Actor
    BY DEF Current, Actor
  <2> QED
    BY <2>1, <2>2, <2>3, <2>4 DEF SpiInv, LeftAlone
<1>6. CASE vListInsertAgain
  BY <1>6 DEF vListInsertAgain, LeftAlone
<1> QED
  BY <1>1, <1>2, <1>3, <1>4, <1>5, <1>6 DEF Next

LEMMA SpiStep == SpiInv /\ [Next]_vars => SpiInv'
BY EnteredStep, GivesStep, StepTypes, LeftAloneStep DEF SpiInv

-----------------------------------------------------------------------------
(* The invariant the others follow from: gives are covered by those that   *)
(* wait for them, and a transfer that is left alone keeps to its phases.   *)
THEOREM Inductive == Spec => []SpiInv
<1>1. Spec => Init /\ [][Next]_vars
  BY PTL DEF Spec
<1> QED
  BY <1>1, InitSpi, SpiStep, PTL

(* Every variable keeps to its type, for any number of interrupts. *)
THEOREM TypeCorrect == Spec => []TypeOK
<1>1. SpiInv => TypeOK
  BY DEF SpiInv
<1> QED
  BY <1>1, Inductive, PTL

(* Though both handlers give for one transfer, and whenever the W5200's    *)
(* handler comes, no give of xSemaphoreDMASPI is left over.                *)
THEOREM NoGiveLeft == Spec => []NoStaleGive
<1>1. SpiInv => NoStaleGive
  BY DEF SpiInv, GivesCovered, Owed, Waits, NoStaleGive, Idle
<1> QED
  BY <1>1, Inductive, PTL

(* A spi_dma_read that is left alone copies the answer to its own command. *)
THEOREM ReadsOwn == Spec => []OwnAnswer
<1>1. SpiInv => OwnAnswer
  BY DEF SpiInv, LeftAlone, OwnAnswer
<1> QED
  BY <1>1, Inductive, PTL

(* A transfer that is left alone leaves the streams off, their flags clear *)
(* and the chip deselected, a send as well as a read.                      *)
THEOREM LeavesClean == Spec => []CleanBetween
<1>1. SpiInv => CleanBetween
  <2> SUFFICES ASSUME SpiInv, calm, Idle PROVE AtRest /\ ~CS
    BY DEF CleanBetween
  <2>1. pc[Current] = "idle" /\ Phase(Current)
    BY DEF SpiInv, LeftAlone, Idle, Current, Actor
  <2> QED
    BY <2>1 DEF Phase, Quiet, AtRest, Steps
<1> QED
  BY <1>1, Inductive, PTL

-----------------------------------------------------------------------------
(* A transfer that is left alone comes to its end.                         *)

(* The stages of a transfer that is left alone: the steps of its actor,    *)
(* and in its take what the streams and their handlers have still to do.   *)
On(a, step) == calm /\ pc[a] = step

Loading(a)   == On(a, "take") /\ Running /\ txOn
Shifting(a)  == On(a, "take") /\ Running /\ ~txOn
Flagged(a)   == On(a, "take") /\ Complete(a)
BothLeft(a)  == On(a, "take") /\ Given(a) /\ txTC /\ rxTC
OneLeft(a)   == On(a, "take") /\ Given(a) /\ ~(txTC <=> rxTC)
NoneLeft(a)  == On(a, "take") /\ Given(a) /\ ~txTC /\ ~rxTC

Over(a) == pc[a] = "idle" \/ ~calm

(* Only its actor, the streams and their handlers move a transfer that     *)
(* stays left alone.                                                       *)
LEMMA OnlyItsOwn ==
    ASSUME SpiInv, NEW a \in Actor, ~Over(a), [Next]_vars, ~Over(a)'
    PROVE  Step(a) \/ Hardware \/ UNCHANGED vars
<1>1. calm /\ calm' /\ pc[a] # "idle" /\ pc'[a] # "idle"
  BY DEF Over
<1>2. a = Current
  BY <1>1 DEF SpiInv, LeftAlone
<1>3. ASSUME NEW b \in Actor, Runs(b) PROVE b = a
  BY <1>2, <1>3 DEF Runs, Current, Actor, SpiInv, TypeOK
<1>4. ~(TaskBegins \/ HandlerBegins)
  <2> SUFFICES ASSUME NEW b \in Actor, NEW o \in {"read", "send"}, Begin(b, o) PROVE FALSE
    BY DEF TaskBegins, HandlerBegins, Actor
  <2> QED
    BY <1>1, <1>3 DEF Begin, At
<1>5. ~Interrupt
  <2> SUFFICES ASSUME Interrupt PROVE FALSE
    OBVIOUS
  <2>1. a = "task"
    BY <1>3 DEF Interrupt, Actor
  <2> QED
    BY <2>1, <1>1 DEF Interrupt
<1>6. ASSUME NEW b \in Actor, Step(b) PROVE b = a
  <2>1. Runs(b)
    BY <1>6 DEF Step, SetRxCount, SetTxCount, SetTxMemory, Select, EnableTx, EnableRx, Take, Copy, At
  <2> QED
    BY <2>1, <1>3
<1>7. ~vListInsertAgain
  BY <1>1 DEF vListInsertAgain
<1> QED
  BY <1>4, <1>5, <1>6, <1>7 DEF Next

(* Hardware does not move the actor. *)
LEMMA HardwareRests == Hardware => UNCHANGED cpu
BY DEF Hardware, TxDone, Shifted, DMA2_Stream2_IRQHandler, DMA2_Stream3_IRQHandler, EndTransfer

(* Outside its take a transfer waits for nobody. *)
Following == [rxCount |-> "txCount", txCount |-> "txMemory", txMemory |-> "select",
              select |-> "txEnable", txEnable |-> "rxEnable"]

LEMMA ActorMoves ==
    ASSUME SpiInv, NEW a \in Actor, Step(a)
    PROVE  \A s \in DOMAIN Following : pc[a] = s => pc'[a] = Following[s]
BY DEF SpiInv, TypeOK, Following, Step, SetRxCount, SetTxCount, SetTxMemory, Select, EnableTx,
       EnableRx, Take, Copy, At, Goto

LEMMA Rung ==
    ASSUME SpiInv, NEW a \in Actor, NEW s \in DOMAIN Following, On(a, s), [Next]_vars
    PROVE  /\ On(a, s)' \/ On(a, Following[s])' \/ Over(a)'
           /\ Step(a) => On(a, Following[s])' \/ Over(a)'
<1> SUFFICES ASSUME ~Over(a)'
             PROVE  /\ On(a, s)' \/ On(a, Following[s])'
                    /\ Step(a) => On(a, Following[s])'
  OBVIOUS
<1>1. ~Over(a)
  BY DEF Over, On, Following
<1>2. Step(a) => pc'[a] = Following[s]
  BY ActorMoves DEF On
<1>3. Hardware \/ UNCHANGED vars => pc'[a] = s
  BY HardwareRests DEF On, vars, cpu
<1> QED
  BY <1>1, <1>2, <1>3, OnlyItsOwn DEF On, Over

(* EnableRx comes before TX is done, or the transfer is disturbed. *)
LEMMA ToTake ==
    ASSUME SpiInv, NEW a \in Actor, On(a, "rxEnable"), [Next]_vars
    PROVE  /\ On(a, "rxEnable")' \/ Loading(a)' \/ Over(a)'
           /\ Step(a) => Loading(a)' \/ Over(a)'
<1> SUFFICES ASSUME ~Over(a)'
             PROVE  /\ On(a, "rxEnable")' \/ Loading(a)'
                    /\ Step(a) => Loading(a)'
  OBVIOUS
<1>1. ~Over(a) /\ calm'
  BY DEF Over, On
<1>2. ASSUME Step(a) PROVE Loading(a)'
  <2>1. EnableRx(a)
    BY <1>2 DEF On, Step, SetRxCount, SetTxCount, SetTxMemory, Select, EnableTx, EnableRx, Take, Copy, At
  <2>2. BSY /\ txOn /\ ~txTC /\ ~rxTC /\ CS /\ ~xSemaphoreDMASPI
    BY DEF On, SpiInv, LeftAlone, Phase
  <2>3. Running' /\ txOn'
    BY <2>1, <2>2 DEF EnableRx, Running, flags, spi
  <2>4. pc'[a] = "take"
    BY <2>1 DEF EnableRx, Goto, SpiInv, TypeOK
  <2> QED
    BY <2>3, <2>4, <1>1 DEF Loading, On
<1>3. Hardware \/ UNCHANGED vars => pc'[a] = "rxEnable"
  BY HardwareRests DEF On, vars, cpu
<1> QED
  BY <1>1, <1>2, <1>3, OnlyItsOwn DEF On

(* In its take the streams and the handlers bring the give.                *)
LEMMA TakeStages ==
    ASSUME SpiInv, NEW a \in Actor, On(a, "take")
    PROVE  Loading(a) \/ Shifting(a) \/ Flagged(a) \/ BothLeft(a) \/ OneLeft(a) \/ NoneLeft(a)
<1>1. Phase(a)
  BY DEF On, SpiInv, LeftAlone
<1>2. Running \/ Complete(a) \/ Given(a)
  BY <1>1 DEF On, Phase
<1> QED
  BY <1>2 DEF SpiInv, TypeOK, Loading, Shifting, Flagged, BothLeft, OneLeft, NoneLeft

(* As long as they have something to do the actor sleeps. *)
Brought(a) == Loading(a) \/ Shifting(a) \/ Flagged(a) \/ BothLeft(a) \/ OneLeft(a)

LEMMA Sleeps ==
    ASSUME SpiInv, NEW a \in Actor, Brought(a), [Next]_vars, ~Over(a)'
    PROVE  Hardware \/ UNCHANGED vars
<1>1. ~Over(a)
  BY DEF Brought, Loading, Shifting, Flagged, BothLeft, OneLeft, On, Over
<1>2. ASSUME Step(a) PROVE FALSE
  <2>1. Take(a)
    BY <1>2 DEF Brought, Loading, Shifting, Flagged, BothLeft, OneLeft, On, Step, SetRxCount, SetTxCount, SetTxMemory,
                Select, EnableTx, EnableRx, Take, Copy, At
  <2>2. xSemaphoreDMASPI /\ ~txTC /\ ~rxTC
    BY <2>1 DEF Take, At, Runs
  <2> QED
    BY <2>2 DEF Brought, Loading, Shifting, Flagged, BothLeft, OneLeft, Running, Complete
<1> QED
  BY <1>1, <1>2, OnlyItsOwn

(* What one step of the streams or a handler makes of each stage. *)
LEMMA StreamsMove ==
    ASSUME SpiInv, NEW a \in Actor, Brought(a), Hardware, ~Over(a)'
    PROVE  /\ Loading(a)  => Shifting(a)'
           /\ Shifting(a) => Flagged(a)'
           /\ Flagged(a)  => OneLeft(a)'
           /\ BothLeft(a) => OneLeft(a)'
           /\ OneLeft(a)  => NoneLeft(a)'
<1>1. On(a, "take") /\ On(a, "take")' /\ UNCHANGED op
  BY HardwareRests DEF Brought, Loading, Shifting, Flagged, BothLeft, OneLeft, On, Over, cpu
<1>2. Phase(a)' /\ Phase(a)
  <2>1. LeftAlone /\ LeftAlone'
    BY HardwareAlone DEF SpiInv
  <2> QED
    BY <2>1, <1>1 DEF LeftAlone, On
<1>3. /\ On(a, "take")'
      /\ Running' \/ Complete(a)' \/ Given(a)'
  BY <1>1, <1>2 DEF Phase, On
<1>4. ASSUME Loading(a) PROVE Shifting(a)'
  <2>1. TxDone
    BY <1>4 DEF Loading, Running, Hardware, TxDone, Shifted, DMA2_Stream2_IRQHandler,
                DMA2_Stream3_IRQHandler, EndTransfer
  <2> QED
    BY <2>1, <1>3, <1>4 DEF Loading, Running, TxDone, Shifting, spi
<1>5. ASSUME Shifting(a) PROVE Flagged(a)'
  <2>1. Shifted
    BY <1>5 DEF Shifting, Running, Hardware, TxDone, Shifted, DMA2_Stream2_IRQHandler,
                DMA2_Stream3_IRQHandler, EndTransfer
  <2>2. ~BSY' /\ ~xSemaphoreDMASPI'
    BY <2>1, <1>5 DEF Shifting, Running, Shifted
  <2> QED
    BY <2>2, <1>3 DEF Flagged, Running, Given
<1>6. ASSUME Flagged(a) \/ BothLeft(a) \/ OneLeft(a)
      PROVE  /\ Given(a)'
             /\ Flagged(a)  => ~(txTC' <=> rxTC')
             /\ BothLeft(a) => ~(txTC' <=> rxTC')
             /\ OneLeft(a)  => ~txTC' /\ ~rxTC'
  <2>1. ~BSY /\ ~txOn /\ txTC \in BOOLEAN /\ rxTC \in BOOLEAN /\ rxOn \in BOOLEAN
    BY <1>6 DEF Flagged, BothLeft, OneLeft, Complete, Given, SpiInv, TypeOK
  <2>2. DMA2_Stream2_IRQHandler \/ DMA2_Stream3_IRQHandler
    BY <2>1 DEF Hardware, TxDone, Shifted
  <2>3. EndTransfer
    BY <2>2 DEF DMA2_Stream2_IRQHandler, DMA2_Stream3_IRQHandler
  <2>4. Given(a)'
    BY <2>3, <1>3 DEF EndTransfer, Running, Complete
  <2>5. Flagged(a) => ~(txTC' <=> rxTC')
    BY <2>1, <2>2 DEF Flagged, Complete, DMA2_Stream2_IRQHandler, DMA2_Stream3_IRQHandler
  <2>6. (BothLeft(a) => ~(txTC' <=> rxTC')) /\ (OneLeft(a) => ~txTC' /\ ~rxTC')
    BY <2>1, <2>2 DEF BothLeft, OneLeft, Given, DMA2_Stream2_IRQHandler, DMA2_Stream3_IRQHandler
  <2> QED
    BY <2>4, <2>5, <2>6
<1> QED
  BY <1>3, <1>4, <1>5, <1>6 DEF OneLeft, NoneLeft

(* The give is taken and nothing else happens. *)
LEMMA TakesIt ==
    ASSUME SpiInv, NEW a \in Actor, NoneLeft(a), [Next]_vars
    PROVE  /\ NoneLeft(a)' \/ On(a, "copy")' \/ Over(a)'
           /\ Step(a) => On(a, "copy")' \/ Over(a)'
<1> SUFFICES ASSUME ~Over(a)'
             PROVE  /\ NoneLeft(a)' \/ On(a, "copy")'
                    /\ Step(a) => On(a, "copy")'
  OBVIOUS
<1>1. ~Over(a) /\ calm' /\ pc[a] = "take"
  BY DEF NoneLeft, On, Over
<1>2. Step(a) => pc'[a] = "copy"
  BY <1>1 DEF Step, SetRxCount, SetTxCount, SetTxMemory, Select, EnableTx, EnableRx, Take, Copy,
              At, Leave, Goto, Over, SpiInv, TypeOK
<1>3. ~Hardware
  BY DEF NoneLeft, Given, Hardware, TxDone, Shifted, DMA2_Stream2_IRQHandler, DMA2_Stream3_IRQHandler
<1>4. UNCHANGED vars => NoneLeft(a)'
  BY DEF vars, cpu, dma, enables, flags, spi, answers, NoneLeft, On, Given
<1> QED
  BY <1>1, <1>2, <1>3, <1>4, OnlyItsOwn DEF On

LEMMA CopiesIt ==
    ASSUME SpiInv, NEW a \in Actor, On(a, "copy"), [Next]_vars
    PROVE  /\ On(a, "copy")' \/ Over(a)'
           /\ Step(a) => Over(a)'
<1>1. Step(a) => pc'[a] = "idle"
  BY DEF On, Step, SetRxCount, SetTxCount, SetTxMemory, Select, EnableTx, EnableRx, Take, Copy,
         At, Leave, Goto, SpiInv, TypeOK
<1>2. Hardware \/ UNCHANGED vars => pc'[a] = "copy"
  BY HardwareRests DEF On, vars, cpu
<1> QED
  BY <1>1, <1>2, OnlyItsOwn DEF On, Over

(* Each stage of a step of the actor ends. *)
Going(a) == Spec /\ WF_vars(Step(a)) /\ []NeverStuck
Ends(a)  == pc[a] # "idle" ~> pc[a] = "idle" \/ ~calm

Climbs(a, s) == Going(a) => (On(a, s) ~> On(a, Following[s]) \/ Over(a))

LEMMA RungEnds ==
    ASSUME NEW a \in Actor, NEW s \in DOMAIN Following
    PROVE  Climbs(a, s)
<1>1. SpiInv /\ On(a, s) /\ [Next]_vars => On(a, s)' \/ On(a, Following[s])' \/ Over(a)'
  BY Rung
<1>2. SpiInv /\ On(a, s) /\ <<Step(a)>>_vars => On(a, Following[s])' \/ Over(a)'
  BY Rung DEF Next
<1>3. NeverStuck /\ On(a, s) => ENABLED <<Step(a)>>_vars
  BY DEF NeverStuck, On, Following
<1> QED
  BY <1>1, <1>2, <1>3, Inductive, PTL DEF Climbs, Going, Spec

(* The five steps before the streams run. *)
LEMMA Prepares ==
    ASSUME NEW a \in Actor
    PROVE  Going(a) => /\ On(a, "rxCount") ~> On(a, "rxEnable") \/ Over(a)
                       /\ On(a, "txCount") ~> On(a, "rxEnable") \/ Over(a)
                       /\ On(a, "txMemory") ~> On(a, "rxEnable") \/ Over(a)
                       /\ On(a, "select") ~> On(a, "rxEnable") \/ Over(a)
                       /\ On(a, "txEnable") ~> On(a, "rxEnable") \/ Over(a)
<1>1. DOMAIN Following = {"rxCount", "txCount", "txMemory", "select", "txEnable"}
  BY DEF Following
<1>2. \A s \in {"rxCount", "txCount", "txMemory", "select", "txEnable"} : Climbs(a, s)
  BY <1>1, RungEnds, Zenon
<1>3. /\ Climbs(a, "rxCount") /\ Climbs(a, "txCount") /\ Climbs(a, "txMemory")
      /\ Climbs(a, "select") /\ Climbs(a, "txEnable")
  BY <1>2, Zenon
<1>4. /\ On(a, Following["rxCount"]) => On(a, "txCount")
      /\ On(a, Following["txCount"]) => On(a, "txMemory")
      /\ On(a, Following["txMemory"]) => On(a, "select")
      /\ On(a, Following["select"]) => On(a, "txEnable")
      /\ On(a, Following["txEnable"]) => On(a, "rxEnable")
  BY DEF Following
<1> QED
  BY <1>3, <1>4, PTL DEF Climbs

(* The streams are waited for, the give is taken, the answer is copied. *)
LEMMA Finishes ==
    ASSUME NEW a \in Actor
    PROVE  Going(a) => (On(a, "rxEnable") \/ On(a, "take") \/ On(a, "copy") ~> Over(a))
<1>1. Going(a) => (On(a, "rxEnable") ~> Loading(a) \/ Over(a))
  <2>1. SpiInv /\ On(a, "rxEnable") /\ [Next]_vars => On(a, "rxEnable")' \/ Loading(a)' \/ Over(a)'
    BY ToTake
  <2>2. SpiInv /\ On(a, "rxEnable") /\ <<Step(a)>>_vars => Loading(a)' \/ Over(a)'
    BY ToTake DEF Next
  <2>3. NeverStuck /\ On(a, "rxEnable") => ENABLED <<Step(a)>>_vars
    BY DEF NeverStuck, On
  <2> QED
    BY <2>1, <2>2, <2>3, Inductive, PTL DEF Going, Spec
<1>2. Going(a) => (Loading(a) ~> Shifting(a) \/ Over(a))
  <2>1. SpiInv /\ Loading(a) /\ [Next]_vars => Loading(a)' \/ Shifting(a)' \/ Over(a)'
    <3>1. UNCHANGED vars => (Loading(a) => Loading(a)')
      BY DEF vars, cpu, dma, registers, enables, flags, spi, answers, Loading, On, Running
    <3> QED
      BY <3>1, Sleeps, StreamsMove DEF Brought
  <2>2. SpiInv /\ Loading(a) /\ <<Hardware>>_vars => Shifting(a)' \/ Over(a)'
    BY StreamsMove DEF Brought
  <2>3. NeverStuck /\ Loading(a) => ENABLED <<Hardware>>_vars
    BY DEF NeverStuck, Loading, On, Running
  <2> QED
    BY <2>1, <2>2, <2>3, Inductive, PTL DEF Going, Spec, Fairness
<1>3. Going(a) => (Shifting(a) ~> Flagged(a) \/ Over(a))
  <2>1. SpiInv /\ Shifting(a) /\ [Next]_vars => Shifting(a)' \/ Flagged(a)' \/ Over(a)'
    <3>1. UNCHANGED vars => (Shifting(a) => Shifting(a)')
      BY DEF vars, cpu, dma, registers, enables, flags, spi, answers, Shifting, On, Running
    <3> QED
      BY <3>1, Sleeps, StreamsMove DEF Brought
  <2>2. SpiInv /\ Shifting(a) /\ <<Hardware>>_vars => Flagged(a)' \/ Over(a)'
    BY StreamsMove DEF Brought
  <2>3. NeverStuck /\ Shifting(a) => ENABLED <<Hardware>>_vars
    BY DEF NeverStuck, Shifting, On, Running
  <2> QED
    BY <2>1, <2>2, <2>3, Inductive, PTL DEF Going, Spec, Fairness
<1>4. Going(a) => (Flagged(a) ~> OneLeft(a) \/ Over(a))
  <2>1. SpiInv /\ Flagged(a) /\ [Next]_vars => Flagged(a)' \/ OneLeft(a)' \/ Over(a)'
    <3>1. UNCHANGED vars => (Flagged(a) => Flagged(a)')
      BY DEF vars, cpu, dma, registers, enables, flags, spi, answers, Flagged, On, Complete
    <3> QED
      BY <3>1, Sleeps, StreamsMove DEF Brought
  <2>2. SpiInv /\ Flagged(a) /\ <<Hardware>>_vars => OneLeft(a)' \/ Over(a)'
    BY StreamsMove DEF Brought
  <2>3. NeverStuck /\ Flagged(a) => ENABLED <<Hardware>>_vars
    BY DEF NeverStuck, Flagged, On, Complete
  <2> QED
    BY <2>1, <2>2, <2>3, Inductive, PTL DEF Going, Spec, Fairness
<1>5. Going(a) => (BothLeft(a) ~> OneLeft(a) \/ Over(a))
  <2>1. SpiInv /\ BothLeft(a) /\ [Next]_vars => BothLeft(a)' \/ OneLeft(a)' \/ Over(a)'
    <3>1. UNCHANGED vars => (BothLeft(a) => BothLeft(a)')
      BY DEF vars, cpu, dma, registers, enables, flags, spi, answers, BothLeft, On, Given
    <3> QED
      BY <3>1, Sleeps, StreamsMove DEF Brought
  <2>2. SpiInv /\ BothLeft(a) /\ <<Hardware>>_vars => OneLeft(a)' \/ Over(a)'
    BY StreamsMove DEF Brought
  <2>3. NeverStuck /\ BothLeft(a) => ENABLED <<Hardware>>_vars
    BY DEF NeverStuck, BothLeft, On, Given
  <2> QED
    BY <2>1, <2>2, <2>3, Inductive, PTL DEF Going, Spec, Fairness
<1>6. Going(a) => (OneLeft(a) ~> NoneLeft(a) \/ Over(a))
  <2>1. SpiInv /\ OneLeft(a) /\ [Next]_vars => OneLeft(a)' \/ NoneLeft(a)' \/ Over(a)'
    <3>1. UNCHANGED vars => (OneLeft(a) => OneLeft(a)')
      BY DEF vars, cpu, dma, registers, enables, flags, spi, answers, OneLeft, On, Given
    <3> QED
      BY <3>1, Sleeps, StreamsMove DEF Brought
  <2>2. SpiInv /\ OneLeft(a) /\ <<Hardware>>_vars => NoneLeft(a)' \/ Over(a)'
    BY StreamsMove DEF Brought
  <2>3. NeverStuck /\ OneLeft(a) => ENABLED <<Hardware>>_vars
    BY DEF NeverStuck, OneLeft, On, Given
  <2> QED
    BY <2>1, <2>2, <2>3, Inductive, PTL DEF Going, Spec, Fairness
<1>7. Going(a) => (NoneLeft(a) ~> On(a, "copy") \/ Over(a))
  <2>1. SpiInv /\ NoneLeft(a) /\ [Next]_vars => NoneLeft(a)' \/ On(a, "copy")' \/ Over(a)'
    BY TakesIt
  <2>2. SpiInv /\ NoneLeft(a) /\ <<Step(a)>>_vars => On(a, "copy")' \/ Over(a)'
    BY TakesIt DEF Next
  <2>3. NeverStuck /\ NoneLeft(a) => ENABLED <<Step(a)>>_vars
    BY DEF NeverStuck, NoneLeft, On, Given
  <2> QED
    BY <2>1, <2>2, <2>3, Inductive, PTL DEF Going, Spec
<1>8. Going(a) => (On(a, "copy") ~> Over(a))
  <2>1. SpiInv /\ On(a, "copy") /\ [Next]_vars => On(a, "copy")' \/ Over(a)'
    BY CopiesIt
  <2>2. SpiInv /\ On(a, "copy") /\ <<Step(a)>>_vars => Over(a)'
    BY CopiesIt DEF Next
  <2>3. NeverStuck /\ On(a, "copy") => ENABLED <<Step(a)>>_vars
    BY DEF NeverStuck, On
  <2> QED
    BY <2>1, <2>2, <2>3, Inductive, PTL DEF Going, Spec
<1>9. SpiInv /\ On(a, "take") =>
        Loading(a) \/ Shifting(a) \/ Flagged(a) \/ BothLeft(a) \/ OneLeft(a) \/ NoneLeft(a)
  BY TakeStages
<1>10. Going(a) => []SpiInv
  BY Inductive, PTL DEF Going
<1> QED
  BY <1>1, <1>2, <1>3, <1>4, <1>5, <1>6, <1>7, <1>8, <1>9, <1>10, PTL

LEMMA EndsAlone ==
    ASSUME NEW a \in Actor
    PROVE  Going(a) => Ends(a)
<1>0. SpiInv /\ ~Over(a) => pc[a] # "damaged"
  BY DEF SpiInv, LeftAlone, Phase, Over
<1>1. SpiInv /\ pc[a] # "idle" =>
        \/ Over(a)
        \/ On(a, "rxCount") \/ On(a, "txCount") \/ On(a, "txMemory") \/ On(a, "select")
        \/ On(a, "txEnable") \/ On(a, "rxEnable") \/ On(a, "take") \/ On(a, "copy")
  BY <1>0 DEF SpiInv, TypeOK, Steps, On, Over
<1>2. Over(a) => pc[a] = "idle" \/ ~calm
  BY DEF Over
<1>3. Going(a) => []SpiInv
  BY Inductive, PTL DEF Going
<1> QED
  BY <1>1, <1>2, <1>3, Prepares, Finishes, PTL DEF Ends

(* A transfer of the task or of the W5200's handler that is left alone     *)
(* comes to its end, through every order of the two DMA handlers, provided *)
(* the steps it waits for are possible (NeverStuck, which the run checks). *)
THEOREM EndsIfNeverStuck == Spec /\ []NeverStuck => TransferEnds
<1>1. (Going("task") => Ends("task")) /\ (Going("isr") => Ends("isr"))
  BY EndsAlone, Zenon DEF Actor
<1>2. Spec /\ []NeverStuck => Going("task") /\ Going("isr")
  BY PTL DEF Spec, Fairness, Going
<1>3. Ends("task") /\ Ends("isr") => \A a \in Actor : Ends(a)
  BY Zenon DEF Actor
<1>4. (\A a \in Actor : Ends(a)) => TransferEnds
  BY DEF TransferEnds, Ends
<1> QED
  BY <1>1, <1>2, <1>3, <1>4, PTL

===============================================================================
