-------------------------------- MODULE SpiDma --------------------------------
(***************************************************************************)
(* Transfers to the W5200 over SPI with DMA (spi.c): spi_dma_send and its  *)
(* two variants, spi_dma_read with the memcpy that follows it, the handlers*)
(* of the two DMA streams, and the semaphore they give.                    *)
(*                                                                         *)
(* Transfers are made by set_macTask ("task") and, three in a row, by      *)
(* EXTI4_IRQHandler ("isr"), which may interrupt the task between any two  *)
(* accesses to a register.  The registers of a stream cannot be written    *)
(* while it is enabled.  A length or an address is known by who wrote it   *)
(* last (two actors' lengths count as different), and what is in bufferRX  *)
(* by whose last read it answers.                                          *)
(***************************************************************************)
EXTENDS Naturals

CONSTANT MaxInterrupts      \* bound: interrupts of the W5200

ASSUME InterruptsAssumption == MaxInterrupts \in Nat

Actor == {"task", "isr"}

Steps == {"idle", "rxCount", "txCount", "txMemory", "select", "txEnable", "rxEnable",
          "take", "copy", "damaged"}

VARIABLES
    pc,                 \* of each actor: the next step of its transfer
    op,                 \* of each actor: "read" or "send"
    left,               \* transfers the interrupt handler has still to make
    interrupts,         \* interrupts of the W5200 so far
    txCount,            \* whose length is in the NDTR of the TX stream
    rxCount,            \* whose length is in the NDTR of the RX stream
    txMemory,           \* whose bytes the M0AR of the TX stream points at
    txOn, rxOn,         \* the streams are enabled
    txTC, rxTC,         \* their flags "transfer complete"
    BSY,                \* the SPI has bytes to shift
    CS,                 \* the chip is selected
    xSemaphoreDMASPI,   \* it has been given
    bufferRX,           \* whose last read it answers, or "other"
    copied,             \* of each actor: what its last memcpy took
    calm                \* history: since all was at rest, no interrupt of the
                        \* W5200 came in the middle of a transfer, RX was
                        \* enabled before TX was done, and no list of the
                        \* kernel has been damaged

cpu       == <<pc, op, left, interrupts>>
registers == <<txCount, rxCount, txMemory>>
enables   == <<txOn, rxOn>>
flags     == <<txTC, rxTC>>
spi       == <<BSY, CS>>
dma       == <<registers, enables, flags, spi>>
answers   == <<bufferRX, copied>>
vars      == <<cpu, dma, xSemaphoreDMASPI, answers, calm>>

Init ==
    /\ pc = [a \in Actor |-> "idle"] /\ op = [a \in Actor |-> "send"]
    /\ left = 0 /\ interrupts = 0
    /\ txCount = "task" /\ rxCount = "task" /\ txMemory = "task"
    /\ txOn = FALSE /\ rxOn = FALSE /\ txTC = FALSE /\ rxTC = FALSE
    /\ BSY = FALSE /\ CS = FALSE
    /\ xSemaphoreDMASPI = FALSE
    /\ bufferRX = "other" /\ copied = [a \in Actor |-> a]
    /\ calm = TRUE

-----------------------------------------------------------------------------
(* Mutant: the RX handler has a lower priority than the W5200's. *)
RunsBeforeRx(a) == ~txTC /\ (a = "isr" <=> left > 0)

(* The DMA handlers go before the W5200's, and that before the task. *)
Runs(a) == ~txTC /\ ~rxTC /\ (a = "isr" <=> left > 0)

At(a, step) == Runs(a) /\ pc[a] = step

Goto(a, step) == pc' = [pc EXCEPT ![a] = step]

(* No actor is in a transfer. *)
Idle == \A a \in Actor : pc[a] = "idle"

(* None is under way either, and both streams are off. *)
AtRest == Idle /\ ~BSY /\ ~txOn /\ ~rxOn /\ ~txTC /\ ~rxTC

(* A new read makes what its actor read before an old answer. *)
Begin(a, o) ==
    /\ At(a, "idle")
    /\ op' = [op EXCEPT ![a] = o]
    /\ Goto(a, IF o = "read" THEN "rxCount" ELSE "txCount")
    /\ bufferRX' = IF bufferRX = a THEN "other" ELSE bufferRX
    /\ copied' = IF AtRest THEN [b \in Actor |-> b] ELSE copied
    /\ calm' = (calm \/ AtRest)
    /\ UNCHANGED <<left, interrupts, dma, xSemaphoreDMASPI>>

TaskBegins == \E o \in {"read", "send"} : Begin("task", o)

(* locate_interrupt: two reads and a write. *)
HandlerBegins == Begin("isr", IF left > 1 THEN "read" ELSE "send")

(* Only a read sets the length of the RX stream. *)
SetRxCount(a) ==
    /\ At(a, "rxCount")
    /\ rxCount' = IF rxOn THEN rxCount ELSE a
    /\ Goto(a, "txCount")
    /\ UNCHANGED <<op, left, interrupts, txCount, txMemory, enables, flags, spi,
                   xSemaphoreDMASPI, answers, calm>>

SetTxCount(a) ==
    /\ At(a, "txCount")
    /\ txCount' = IF txOn THEN txCount ELSE a
    /\ Goto(a, "txMemory")
    /\ UNCHANGED <<op, left, interrupts, rxCount, txMemory, enables, flags, spi,
                   xSemaphoreDMASPI, answers, calm>>

SetTxMemory(a) ==
    /\ At(a, "txMemory")
    /\ txMemory' = IF txOn THEN txMemory ELSE a
    /\ Goto(a, "select")
    /\ UNCHANGED <<op, left, interrupts, txCount, rxCount, enables, flags, spi,
                   xSemaphoreDMASPI, answers, calm>>

Select(a) ==
    /\ At(a, "select")
    /\ CS' = TRUE
    /\ Goto(a, "txEnable")
    /\ UNCHANGED <<op, left, interrupts, registers, enables, flags, BSY,
                   xSemaphoreDMASPI, answers, calm>>

(* Bytes go out from now on; what comes back is stored where RX is on. *)
EnableTx(a) ==
    /\ At(a, "txEnable")
    /\ txOn' = TRUE /\ BSY' = TRUE
    /\ bufferRX' = IF rxOn THEN "other" ELSE bufferRX
    /\ Goto(a, "rxEnable")
    /\ UNCHANGED <<op, left, interrupts, registers, rxOn, flags, CS,
                   xSemaphoreDMASPI, copied, calm>>

EnableRx(a) ==
    /\ At(a, "rxEnable")
    /\ rxOn' = TRUE
    /\ bufferRX' = IF BSY THEN "other" ELSE bufferRX
    /\ Goto(a, "take")
    /\ UNCHANGED <<op, left, interrupts, registers, txOn, flags, spi,
                   xSemaphoreDMASPI, copied, calm>>

(* Mutant: both count the transfers of the handler. *)
LeaveAny(a) ==
    /\ Goto(a, "idle")
    /\ left' = left - 1

(* The actor is done with its transfer. *)
Leave(a) ==
    /\ Goto(a, "idle")
    /\ left' = IF a = "isr" THEN left - 1 ELSE left

(* xSemaphoreTake with portMAX_DELAY.  The task sleeps; the handler, which *)
(* cannot, puts the task it interrupted into the waiting list and goes     *)
(* round in the loop of xQueueGenericReceive; if the give comes before the *)
(* second round, that task is out of the list again.                       *)
Take(a) ==
    /\ At(a, "take")
    /\ xSemaphoreDMASPI
    /\ xSemaphoreDMASPI' = FALSE
    /\ IF op[a] = "read" THEN Goto(a, "copy") /\ UNCHANGED left ELSE Leave(a)
    /\ UNCHANGED <<op, interrupts, dma, answers, calm>>

(* The second round puts in the item that is there already: its pxNext is  *)
(* itself then, and a third vListInsert does not end.  What a give makes of*)
(* such a list is left out; the handler is not followed any further.       *)
vListInsertAgain ==
    /\ At("isr", "take")
    /\ ~xSemaphoreDMASPI
    /\ Goto("isr", "damaged")
    /\ calm' = FALSE
    /\ UNCHANGED <<op, left, interrupts, dma, xSemaphoreDMASPI, answers>>

(* The caller's memcpy from bufferRX + 4. *)
Copy(a) ==
    /\ At(a, "copy")
    /\ copied' = [copied EXCEPT ![a] = bufferRX]
    /\ Leave(a)
    /\ UNCHANGED <<op, interrupts, dma, xSemaphoreDMASPI, bufferRX, calm>>

Step(a) ==
    \/ SetRxCount(a) \/ SetTxCount(a) \/ SetTxMemory(a) \/ Select(a)
    \/ EnableTx(a) \/ EnableRx(a) \/ Take(a) \/ Copy(a)

(* INT falls and EXTI4_IRQHandler is entered. *)
Interrupt ==
    /\ Runs("task")
    /\ interrupts < MaxInterrupts
    /\ interrupts' = interrupts + 1
    /\ left' = 3
    /\ calm' = (calm /\ pc["task"] = "idle")
    /\ UNCHANGED <<pc, op, dma, xSemaphoreDMASPI, answers>>

-----------------------------------------------------------------------------
(* The streams and the SPI. *)

(* The last byte is handed to the SPI.  A stream that is done switches     *)
(* itself off.                                                             *)
TxDone ==
    /\ txOn
    /\ txOn' = FALSE /\ txTC' = TRUE
    /\ calm' = (calm /\ \A a \in Actor : pc[a] # "rxEnable")
    /\ UNCHANGED <<cpu, registers, rxOn, rxTC, spi, xSemaphoreDMASPI, answers>>

(* The length the RX stream has is that of the transfer. *)
RxLengthFits == rxCount = txCount /\ op[txCount] = "read"

(* The last bit is shifted.  With another length RX may be done before the *)
(* end, or wait for more.  The answer is good if one actor's whole command *)
(* went out to a selected chip.                                            *)
Shifted ==
    /\ BSY /\ ~txOn
    /\ BSY' = FALSE
    /\ \/ /\ ~rxOn
          /\ UNCHANGED <<rxOn, rxTC, bufferRX>>
       \/ /\ rxOn /\ RxLengthFits
          /\ rxOn' = FALSE /\ rxTC' = TRUE
          /\ bufferRX' = IF CS /\ txMemory = txCount THEN txCount ELSE "other"
       \/ /\ rxOn /\ ~RxLengthFits
          /\ \E done \in BOOLEAN : rxOn' = ~done /\ rxTC' = done
          /\ bufferRX' = "other"
    /\ UNCHANGED <<cpu, registers, txOn, txTC, CS, xSemaphoreDMASPI, copied, calm>>

-----------------------------------------------------------------------------
(* Mutant: the SPI is not waited for. *)
EndTransferEarly ==
    /\ CS' = FALSE
    /\ txOn' = FALSE /\ rxOn' = FALSE
    /\ xSemaphoreDMASPI' = TRUE
    /\ UNCHANGED <<cpu, registers, BSY, answers, calm>>

(* Mutant: CSOFF is left to the sender, where it is commented out. *)
EndTransferSelected ==
    /\ ~BSY
    /\ txOn' = FALSE /\ rxOn' = FALSE
    /\ xSemaphoreDMASPI' = TRUE
    /\ UNCHANGED <<cpu, registers, spi, answers, calm>>

(* What both handlers do: wait for the SPI, deselect the chip, switch off  *)
(* both streams, give the semaphore.                                       *)
EndTransfer ==
    /\ ~BSY
    /\ CS' = FALSE
    /\ txOn' = FALSE /\ rxOn' = FALSE
    /\ xSemaphoreDMASPI' = TRUE
    /\ UNCHANGED <<cpu, registers, BSY, answers, calm>>

(* A stream that is switched off while it runs raises its flag. *)
DMA2_Stream2_IRQHandler ==
    /\ rxTC
    /\ rxTC' = FALSE /\ txTC' = (txTC \/ txOn)
    /\ EndTransfer

(* Mutant: it leaves a transfer to the RX handler while RX is on. *)
HandlerWaitsForRx ==
    /\ txTC
    /\ txTC' = FALSE /\ UNCHANGED rxTC
    /\ IF rxOn
       THEN UNCHANGED <<cpu, registers, enables, spi, xSemaphoreDMASPI, answers, calm>>
       ELSE EndTransfer

DMA2_Stream3_IRQHandler ==
    /\ txTC
    /\ txTC' = FALSE /\ rxTC' = (rxTC \/ rxOn)
    /\ EndTransfer

Hardware == TxDone \/ Shifted \/ DMA2_Stream2_IRQHandler \/ DMA2_Stream3_IRQHandler

Next ==
    \/ TaskBegins \/ HandlerBegins \/ Interrupt \/ Hardware \/ vListInsertAgain
    \/ \E a \in Actor : Step(a)

(* The streams and their handlers go on, and so do the W5200's handler and *)
(* a task in the middle of a transfer.  Nothing makes a transfer begin, or *)
(* a list be damaged.                                                      *)
Fairness ==
    /\ WF_vars(Hardware)
    /\ WF_vars(HandlerBegins)
    /\ WF_vars(Step("task"))
    /\ WF_vars(Step("isr"))

Spec == Init /\ [][Next]_vars /\ Fairness

-----------------------------------------------------------------------------
(* Every variable keeps to its type: the handler makes three transfers.    *)
TypeOK ==
    /\ pc \in [Actor -> Steps]
    /\ op \in [Actor -> {"read", "send"}]
    /\ left \in 0 .. 3
    /\ interrupts \in 0 .. MaxInterrupts
    /\ txCount \in Actor /\ rxCount \in Actor /\ txMemory \in Actor
    /\ txOn \in BOOLEAN /\ rxOn \in BOOLEAN /\ txTC \in BOOLEAN /\ rxTC \in BOOLEAN
    /\ BSY \in BOOLEAN /\ CS \in BOOLEAN /\ xSemaphoreDMASPI \in BOOLEAN
    /\ bufferRX \in Actor \cup {"other"}
    /\ copied \in [Actor -> Actor \cup {"other"}]
    /\ calm \in BOOLEAN

(* spi_dma_read returns when its data are there (bufferRX): of the         *)
(* transfers that begin with all at rest and are left alone, each read     *)
(* copies the answer to its own command, whatever went wrong before them.  *)
OwnAnswer == calm => \A a \in Actor : copied[a] = a

(* A transfer that was left alone leaves the streams off, their flags clear*)
(* and the chip deselected (DMA2_Stream2_IRQHandler, _Stream3_), though a  *)
(* send does not set the length of the RX stream.                          *)
CleanBetween == calm /\ Idle => AtRest /\ ~CS

(* The two handlers give twice for one transfer, but no give is left over  *)
(* when all transfers have returned (xSemaphoreDMASPI), not even when the  *)
(* W5200's handler came in the middle of one: none returns too early for   *)
(* a give that belonged to an earlier one.                                 *)
NoStaleGive == Idle /\ ~BSY /\ ~txTC /\ ~rxTC => ~xSemaphoreDMASPI

(* A transfer that is left alone is never stuck: as long as it waits in    *)
(* xSemaphoreTake with bytes under way or a flag raised, the streams and   *)
(* their handlers can go on, and when they have nothing more to do the     *)
(* give is there.  (ENABLED: the step really exists.)                      *)
NeverStuck ==
    calm => \A a \in Actor :
              pc[a] # "idle" => IF pc[a] = "take" /\ (BSY \/ txTC \/ rxTC)
                                THEN ENABLED <<Hardware>>_vars
                                ELSE ENABLED <<Step(a)>>_vars

(* A transfer that is left alone comes to its end (xSemaphoreTake with     *)
(* portMAX_DELAY), unless it is the handler's and damages the list.        *)
TransferEnds == \A a \in Actor : pc[a] # "idle" ~> pc[a] = "idle" \/ ~calm
===============================================================================
