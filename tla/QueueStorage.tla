----------------------------- MODULE QueueStorage -----------------------------
(***************************************************************************)
(* The storage area of a kernel queue: prvCopyDataToQueue,                 *)
(* prvCopyDataFromQueue and the pointers they move (queue.c).  A pointer   *)
(* is the number of the slot it points at; pcReadFrom points at the slot   *)
(* before the next one to read.  A queue of item size 0 (a semaphore) is   *)
(* one with a single message.                                              *)
(***************************************************************************)
EXTENDS Naturals, Sequences

CONSTANTS
    Message,    \* the messages a queue carries
    uxLength    \* slots of the queue

ASSUME StorageAssumption == uxLength \in Nat \ {0} /\ Message # {}

VARIABLES
    slots,              \* the storage, from pcHead to pcTail
    pcWriteTo,          \* slot the next message at the back goes to
    pcReadFrom,         \* slot read last
    uxMessagesWaiting   \* messages in the queue

storage == <<slots, pcWriteTo, pcReadFrom, uxMessagesWaiting>>

Slot == 0 .. uxLength - 1

(* xQueueGenericReset of a new queue.  The memory holds anything. *)
StorageInit ==
    /\ \E m \in Message : slots = [i \in Slot |-> m]
    /\ pcWriteTo = 0
    /\ pcReadFrom = uxLength - 1
    /\ uxMessagesWaiting = 0

AfterTooLate(i) == IF i + 1 > uxLength THEN 0 ELSE i + 1

After(i) == IF i + 1 >= uxLength THEN 0 ELSE i + 1

Before(i) == IF i = 0 THEN uxLength - 1 ELSE i - 1

HasRoom == uxMessagesWaiting < uxLength

HasMessage == uxMessagesWaiting > 0

CopyToBack(m) ==
    /\ slots' = [slots EXCEPT ![pcWriteTo] = m]
    /\ pcWriteTo' = After(pcWriteTo)
    /\ uxMessagesWaiting' = uxMessagesWaiting + 1
    /\ UNCHANGED pcReadFrom

CopyToFrontInPlace(m) ==
    /\ slots' = [slots EXCEPT ![pcReadFrom] = m]
    /\ uxMessagesWaiting' = uxMessagesWaiting + 1
    /\ UNCHANGED <<pcWriteTo, pcReadFrom>>

CopyToFront(m) ==
    /\ slots' = [slots EXCEPT ![pcReadFrom] = m]
    /\ pcReadFrom' = Before(pcReadFrom)
    /\ uxMessagesWaiting' = uxMessagesWaiting + 1
    /\ UNCHANGED pcWriteTo

CopyFromQueue ==
    /\ pcReadFrom' = After(pcReadFrom)
    /\ uxMessagesWaiting' = uxMessagesWaiting - 1
    /\ UNCHANGED <<slots, pcWriteTo>>

(* The queue as its reader sees it. *)
Content == [i \in 1 .. uxMessagesWaiting |-> slots[(pcReadFrom + i) % uxLength]]

StorageTypeOK ==
    /\ slots \in [Slot -> Message]
    /\ pcWriteTo \in Slot
    /\ pcReadFrom \in Slot
    /\ uxMessagesWaiting \in 0 .. uxLength

(* The write pointer is as many slots ahead of the read pointer as there   *)
(* are messages.                                                           *)
PointersAgree == pcWriteTo = (pcReadFrom + 1 + uxMessagesWaiting) % uxLength
===============================================================================
