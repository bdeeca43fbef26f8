----------------------------- MODULE KernelQueue -----------------------------
(***************************************************************************)
(* A queue of the kernel and the tasks and interrupt handlers that use it: *)
(* xQueueGenericSend, xQueueGenericReceive, their FromISR forms and        *)
(* prvUnlockQueue (queue.c) over the lists of KernelTasks, with vTaskDelay,*)
(* vTaskDelayUntil, vTaskSuspend and vTaskResume beside them.              *)
(*                                                                         *)
(* A critical section is one step, and so is each thing a task does with   *)
(* the scheduler suspended: only interrupt handlers come between those.    *)
(* `pc' names the next step of a task's call.  Mutexes (priority           *)
(* inheritance), queue sets, xQueueOverwrite and the reset of a queue in   *)
(* use are left out: the application has none of them.                     *)
(***************************************************************************)
EXTENDS KernelTasks, QueueStorage

CONSTANTS
    Calls,      \* the queue calls that may have to wait
    Waits,      \* the values of xTicksToWait that are used, 0 left out
    Delays,     \* the numbers of ticks given to vTaskDelay
    MaxLocked   \* bound: messages sent, or received, while the queue is locked

ASSUME WaitsAssumption ==
    /\ Calls \subseteq {"send", "receive", "peek"}
    /\ Waits \subseteq Tick \ {0}
    /\ Delays \subseteq Tick \ {0}
    /\ MaxLocked \in Nat

VARIABLES
    xTxLock,        \* messages sent while locked, or queueUNLOCKED
    xRxLock,        \* messages received while locked, or queueUNLOCKED
    pc,             \* of each task: the next step of its call
    call,           \* of each task: what it calls
    xTicksToWait,   \* of each task: ticks it still may wait, or is to sleep
    xTimeOut,       \* of each task that waits, but not for ever: the ticks and
                    \* overflows when xTicksToWait was reckoned
    verdict,        \* of each task: what it found with the scheduler suspended
    deadline        \* history: of each task that does not wait for ever, the
                    \* time its wait or its sleep should end

locks   == <<xTxLock, xRxLock>>
wait    == <<xTicksToWait, xTimeOut, deadline>>
callers == <<pc, call, verdict, wait>>
vars    == <<kernel, storage, locks, callers>>

queueUNLOCKED         == -1
queueLOCKED_UNMODIFIED == 0

TimeNow == [xOverflowCount |-> xNumOfOverflows, xTimeOnEntering |-> xTickCount]

Steps == {"idle", "try", "vTaskSuspendAll", "prvLockQueue", "xTaskCheckForTimeOut",
          "prvIsQueue", "vTaskPlaceOnEventList", "prvUnlockTx", "prvUnlockRx",
          "xTaskResumeAll", "ticks", "vTaskDelay", "vTaskDelayUntil", "asleep",
          "vTaskSuspend"}

NoTime == [xOverflowCount |-> 0, xTimeOnEntering |-> 0]

Init ==
    /\ KernelInit
    /\ StorageInit
    /\ xTxLock = queueUNLOCKED /\ xRxLock = queueUNLOCKED
    /\ pc = [t \in Task |-> "idle"]
    /\ call = [t \in Task |-> "none"]
    /\ verdict = [t \in Task |-> "none"]
    /\ xTicksToWait = [t \in Task |-> 0]
    /\ xTimeOut = [t \in Task |-> NoTime]
    /\ deadline = [t \in Task |-> 0]

-----------------------------------------------------------------------------
(* xTaskResumeAll counts the pended ticks in one critical section. *)
Masked == \E t \in Task : pc[t] = "ticks"

(* The task that has suspended itself, until it is switched out. *)
Leaving == {t \in Task : pc[t] = "vTaskSuspend"}

Runs(t) == state[t] = "ready" /\ ~uxSchedulerSuspended /\ ~Masked /\ Leaving = {}

Goto(t, step) == pc' = [pc EXCEPT ![t] = step]

(* The call returns; what it kept on its stack is gone. *)
Return(t) ==
    /\ Goto(t, "idle")
    /\ call' = [call EXCEPT ![t] = "none"]
    /\ verdict' = [verdict EXCEPT ![t] = "none"]
    /\ xTicksToWait' = [xTicksToWait EXCEPT ![t] = 0]
    /\ xTimeOut' = [xTimeOut EXCEPT ![t] = NoTime]
    /\ deadline' = [deadline EXCEPT ![t] = 0]

(* The first critical section of a queue call, entered by a task that now  *)
(* calls or that tries again.                                              *)
Tries(t, c) ==
    /\ Runs(t)
    /\ pc[t] = "idle" \/ (pc[t] = "try" /\ call[t] = c)

Send(t) ==
    /\ Tries(t, "send")
    /\ HasRoom
    /\ \E m \in Message : CopyToBack(m) \/ CopyToFront(m)
    /\ WakeOne("receive")
    /\ Return(t)
    /\ UNCHANGED <<ticks, uxSchedulerSuspended, locks>>

Receive(t) ==
    /\ Tries(t, "receive")
    /\ HasMessage
    /\ CopyFromQueue
    /\ WakeOne("send")
    /\ Return(t)
    /\ UNCHANGED <<ticks, uxSchedulerSuspended, locks>>

(* xQueuePeek: the message stays, so another task may want it. *)
Peek(t) ==
    /\ Tries(t, "peek")
    /\ HasMessage
    /\ WakeOne("receive")
    /\ Return(t)
    /\ UNCHANGED <<ticks, uxSchedulerSuspended, storage, locks>>

(* The list a call waits in. *)
List(c) == IF c = "send" THEN "send" ELSE "receive"

Blocked(c) == IF c = "send" THEN ~HasRoom ELSE ~HasMessage

(* It cannot go on.  Without a block time that is all (the task is idle    *)
(* again and nothing has changed); with one it is noted when it began.     *)
PrepareToBlock(t) ==
    /\ Runs(t)
    /\ \/ /\ pc[t] = "idle"
          /\ \E c \in Calls, w \in Waits :
               /\ Blocked(c)
               /\ call' = [call EXCEPT ![t] = c]
               /\ xTicksToWait' = [xTicksToWait EXCEPT ![t] = w]
               /\ IF w = portMAX_DELAY
                  THEN UNCHANGED <<xTimeOut, deadline>>
                  ELSE /\ xTimeOut' = [xTimeOut EXCEPT ![t] = TimeNow]
                       /\ deadline' = [deadline EXCEPT ![t] = Now + w]
       \/ /\ pc[t] = "try"
          /\ Blocked(call[t])
          /\ UNCHANGED <<call, wait>>
    /\ Goto(t, "vTaskSuspendAll")
    /\ UNCHANGED <<kernel, storage, locks, verdict>>

vTaskSuspendAll(t) ==
    /\ Runs(t) /\ pc[t] = "vTaskSuspendAll"
    /\ uxSchedulerSuspended' = TRUE
    /\ Goto(t, "prvLockQueue")
    /\ UNCHANGED <<ticks, lists, storage, locks, call, verdict, wait>>

Locked(lock) == IF lock = queueUNLOCKED THEN queueLOCKED_UNMODIFIED ELSE lock

prvLockQueue(t) ==
    /\ pc[t] = "prvLockQueue"
    /\ xTxLock' = Locked(xTxLock)
    /\ xRxLock' = Locked(xRxLock)
    /\ Goto(t, "xTaskCheckForTimeOut")
    /\ UNCHANGED <<kernel, storage, call, verdict, wait>>

(* Ticks since xTimeOut was set, as xTaskCheckForTimeOut reckons them. *)
Elapsed(t) == (xTickCount - xTimeOut[t].xTimeOnEntering) % TickLimit

OverflowedSince(t) == xNumOfOverflows # xTimeOut[t].xOverflowCount

PassedAgain(t) ==
    /\ xNumOfOverflows # xTimeOut[t].xOverflowCount
    /\ xTickCount >= xTimeOut[t].xTimeOnEntering

xTaskCheckForTimeOut(t) ==
    /\ pc[t] = "xTaskCheckForTimeOut"
    /\ \/ /\ xTicksToWait[t] = portMAX_DELAY
          /\ Goto(t, "prvIsQueue")
          /\ UNCHANGED <<xTicksToWait, xTimeOut, verdict>>
       \/ /\ xTicksToWait[t] # portMAX_DELAY
          /\ ~PassedAgain(t) /\ Elapsed(t) < xTicksToWait[t]
          /\ xTicksToWait' = [xTicksToWait EXCEPT ![t] = @ - Elapsed(t)]
          /\ xTimeOut' = [xTimeOut EXCEPT ![t] = TimeNow]
          /\ Goto(t, "prvIsQueue")
          /\ UNCHANGED verdict
       \/ /\ xTicksToWait[t] # portMAX_DELAY
          /\ PassedAgain(t) \/ Elapsed(t) >= xTicksToWait[t]
          /\ verdict' = [verdict EXCEPT ![t] = "failed"]
          /\ Goto(t, "prvUnlockTx")
          /\ UNCHANGED <<xTicksToWait, xTimeOut>>
    /\ UNCHANGED <<kernel, storage, locks, call, deadline>>

(* prvIsQueueFull, prvIsQueueEmpty *)
prvIsQueue(t) ==
    /\ pc[t] = "prvIsQueue"
    /\ verdict' = [verdict EXCEPT ![t] = "again"]
    /\ Goto(t, IF Blocked(call[t]) THEN "vTaskPlaceOnEventList" ELSE "prvUnlockTx")
    /\ UNCHANGED <<kernel, storage, locks, call, wait>>

PlaceOnEventList(t) ==
    /\ pc[t] = "vTaskPlaceOnEventList"
    /\ vTaskPlaceOnEventList(t, List(call[t]), xTicksToWait[t])
    /\ Goto(t, "prvUnlockTx")
    /\ UNCHANGED <<xTickCount, xNumOfOverflows, uxPendedTicks, uxSchedulerSuspended, storage,
                   locks, call, verdict, wait>>

ReplayOne(count, l) ==
    \E woken \in SUBSET Waiting(l) :
        /\ Cardinality(woken) = IF count > 0 /\ Waiting(l) # {} THEN 1 ELSE 0
        /\ event' = [t \in Task |-> IF t \in woken THEN "pending" ELSE event[t]]

(* A loop of prvUnlockQueue: as many waiters are woken as messages came or *)
(* went while the queue was locked, and all when they are fewer.           *)
ReplayLock(count, l) ==
    \E woken \in SUBSET Waiting(l) :
        /\ IF count >= Cardinality(Waiting(l)) THEN woken = Waiting(l)
                                               ELSE Cardinality(woken) = count
        /\ event' = [t \in Task |-> IF t \in woken THEN "pending" ELSE event[t]]

prvUnlockTx(t) ==
    /\ pc[t] = "prvUnlockTx"
    /\ ReplayLock(xTxLock, "receive")
    /\ xTxLock' = queueUNLOCKED
    /\ Goto(t, "prvUnlockRx")
    /\ UNCHANGED <<ticks, uxSchedulerSuspended, state, wake, storage, xRxLock, call, verdict, wait>>

prvUnlockRx(t) ==
    /\ pc[t] = "prvUnlockRx"
    /\ ReplayLock(xRxLock, "send")
    /\ xRxLock' = queueUNLOCKED
    /\ Goto(t, "xTaskResumeAll")
    /\ UNCHANGED <<ticks, uxSchedulerSuspended, state, wake, storage, xTxLock, call, verdict, wait>>

xTaskResumeAll(t) ==
    /\ pc[t] = "xTaskResumeAll"
    /\ ReadyPending
    /\ Goto(t, "ticks")
    /\ UNCHANGED <<ticks, storage, locks, call, verdict, wait>>

UnwindTick(t) ==
    /\ pc[t] = "ticks"
    /\ CountPendedTick
    /\ UNCHANGED <<storage, locks, callers>>

(* The scheduler runs again: the call fails, is over, or tries again (now, *)
(* or when it is woken).                                                   *)
Resumed(t) ==
    /\ pc[t] = "ticks" /\ uxPendedTicks = 0
    /\ \/ /\ verdict[t] = "again"
          /\ Goto(t, "try")
          /\ verdict' = [verdict EXCEPT ![t] = "none"]
          /\ UNCHANGED <<call, wait>>
       \/ /\ verdict[t] = "failed"
          /\ Return(t)
       \/ /\ call[t] = "delay"
          /\ Goto(t, "asleep")
          /\ UNCHANGED <<call, verdict, wait>>
    /\ UNCHANGED <<kernel, storage, locks>>

-----------------------------------------------------------------------------
(* vTaskDelay *)
Delay(t) ==
    /\ Runs(t) /\ pc[t] = "idle"
    /\ \E d \in Delays :
         /\ xTicksToWait' = [xTicksToWait EXCEPT ![t] = d]
         /\ deadline' = [deadline EXCEPT ![t] = Now + d]
    /\ call' = [call EXCEPT ![t] = "delay"]
    /\ uxSchedulerSuspended' = TRUE
    /\ Goto(t, "vTaskDelay")
    /\ UNCHANGED <<ticks, lists, storage, locks, xTimeOut, verdict>>

PlaceDelayed(t) ==
    /\ pc[t] = "vTaskDelay"
    /\ AddToDelayedList(t, (xTickCount + xTicksToWait[t]) % TickLimit)
    /\ Goto(t, "xTaskResumeAll")
    /\ UNCHANGED <<xTickCount, xNumOfOverflows, uxPendedTicks, uxSchedulerSuspended, event,
                   storage, locks, call, verdict, wait>>

(* vTaskDelayUntil: the wake time is ahead of the count, with the previous *)
(* wake time less than a turn ago.                                         *)
ShouldDelay(pxPreviousWakeTime, xTimeToWake) ==
    IF xTickCount < pxPreviousWakeTime
    THEN xTimeToWake < pxPreviousWakeTime /\ xTimeToWake > xTickCount
    ELSE xTimeToWake < pxPreviousWakeTime \/ xTimeToWake > xTickCount

DelayUntil(t) ==
    /\ Runs(t) /\ pc[t] = "idle"
    /\ call' = [call EXCEPT ![t] = "delay"]
    /\ uxSchedulerSuspended' = TRUE
    /\ Goto(t, "vTaskDelayUntil")
    /\ UNCHANGED <<ticks, lists, storage, locks, wait, verdict>>

PlaceUntil(t) ==
    /\ pc[t] = "vTaskDelayUntil"
    /\ \E ago \in Tick, xTimeIncrement \in Delays :
         LET pxPreviousWakeTime == (xTickCount - ago) % TickLimit
             xTimeToWake == (pxPreviousWakeTime + xTimeIncrement) % TickLimit
         IN  /\ ago <= Now
             /\ deadline' = [deadline EXCEPT ![t] = Now - ago + xTimeIncrement]
             /\ IF ShouldDelay(pxPreviousWakeTime, xTimeToWake)
                THEN AddToDelayedList(t, xTimeToWake)
                ELSE UNCHANGED <<state, wake, xNextTaskUnblockTime>>
    /\ Goto(t, "xTaskResumeAll")
    /\ UNCHANGED <<xTickCount, xNumOfOverflows, uxPendedTicks, uxSchedulerSuspended, event,
                   storage, locks, call, verdict, xTicksToWait, xTimeOut>>

Awake(t) ==
    /\ Runs(t) /\ pc[t] = "asleep"
    /\ Return(t)
    /\ UNCHANGED <<kernel, storage, locks>>

(* vTaskSuspend(NULL); interrupt handlers may come before the switch. *)
SuspendItself(t) ==
    /\ Runs(t) /\ pc[t] = "idle"
    /\ Suspend(t)
    /\ Goto(t, "vTaskSuspend")
    /\ UNCHANGED <<storage, locks, call, verdict, wait>>

vTaskSwitchContext(t) ==
    /\ pc[t] = "vTaskSuspend"
    /\ Goto(t, "idle")
    /\ UNCHANGED <<kernel, storage, locks, call, verdict, wait>>

(* vTaskResume from a task or from EXTI4_IRQHandler. *)
Resume(t) ==
    /\ ~Masked
    /\ vTaskResume(t, Leaving)
    /\ UNCHANGED <<storage, locks, callers>>

-----------------------------------------------------------------------------
(* Interrupt handlers. *)

(* The other half of the queue is told now, or when it is unlocked. *)
TellOrCount(lock, l) ==
    IF lock = queueUNLOCKED
    THEN WakeOne(l) /\ UNCHANGED locks
    ELSE /\ lock < MaxLocked
         /\ xTxLock' = IF l = "receive" THEN xTxLock + 1 ELSE xTxLock
         /\ xRxLock' = IF l = "send" THEN xRxLock + 1 ELSE xRxLock
         /\ UNCHANGED lists

xQueueGenericSendFromISR ==
    /\ ~Masked
    /\ HasRoom
    /\ \E m \in Message : CopyToBack(m) \/ CopyToFront(m)
    /\ TellOrCount(xTxLock, "receive")
    /\ UNCHANGED <<ticks, uxSchedulerSuspended, callers>>

xQueueReceiveFromISR ==
    /\ ~Masked
    /\ HasMessage
    /\ CopyFromQueue
    /\ TellOrCount(xRxLock, "send")
    /\ UNCHANGED <<ticks, uxSchedulerSuspended, callers>>

SysTick ==
    /\ ~Masked
    /\ xTaskIncrementTick
    /\ UNCHANGED <<storage, locks, callers>>

-----------------------------------------------------------------------------
Step(t) ==
    \/ Send(t) \/ Receive(t) \/ Peek(t) \/ PrepareToBlock(t)
    \/ vTaskSuspendAll(t) \/ prvLockQueue(t) \/ xTaskCheckForTimeOut(t) \/ prvIsQueue(t)
    \/ PlaceOnEventList(t) \/ prvUnlockTx(t) \/ prvUnlockRx(t) \/ xTaskResumeAll(t)
    \/ UnwindTick(t) \/ Resumed(t) \/ Delay(t) \/ PlaceDelayed(t) \/ DelayUntil(t)
    \/ PlaceUntil(t) \/ Awake(t) \/ SuspendItself(t) \/ vTaskSwitchContext(t) \/ Resume(t)

Next ==
    \/ \E t \in Task : Step(t)
    \/ xQueueGenericSendFromISR \/ xQueueReceiveFromISR \/ SysTick

Spec == Init /\ [][Next]_vars

(* Every variable keeps to its type: the pointers stay within the storage  *)
(* and the number of messages within the length of the queue               *)
(* (xQueueGenericCreate).                                                  *)
TypeOK ==
    /\ KernelTypeOK
    /\ StorageTypeOK
    /\ xTxLock \in queueUNLOCKED .. MaxLocked
    /\ xRxLock \in queueUNLOCKED .. MaxLocked
    /\ pc \in [Task -> Steps]
    /\ call \in [Task -> {"none", "delay"} \cup Calls]
    /\ verdict \in [Task -> {"none", "again", "failed"}]
    /\ xTicksToWait \in [Task -> Tick]
    /\ xTimeOut \in [Task -> [xOverflowCount : Nat, xTimeOnEntering : Tick]]
    /\ deadline \in [Task -> Nat]

(* The two list items of a task agree (xTaskRemoveFromEventList,           *)
(* xTaskIncrementTick, vTaskResume): a task that waits for an event does   *)
(* not run, one that is pending is moved before the scheduler runs, and    *)
(* one that is put to sleep by a queue call can be woken by the queue:     *)
(* what is in the suspended list without an event called vTaskSuspend.     *)
(* That one is not put among the ready tasks while it still runs.          *)
ListsAgree ==
    \A t \in Task :
        /\ event[t] \in {"send", "receive"} =>
             call[t] \in Calls /\ event[t] = List(call[t]) /\ state[t] # "ready"
        /\ event[t] = "pending" => uxSchedulerSuspended /\ state[t] # "ready"
        /\ state[t] \in {"delayed", "overflow"} => event[t] # "none" \/ call[t] = "delay"
        /\ state[t] = "suspended" => event[t] # "none" \/ pc[t] \in {"idle", "vTaskSuspend"}
        /\ pc[t] = "vTaskSuspend" => state[t] = "suspended" /\ event[t] = "none"

(* The tasks that are on their way to try the queue again. *)
Coming(l) ==
    {t \in Task : /\ call[t] \in Calls /\ List(call[t]) = l
                  /\ event[t] \in {"none", "pending"}
                  /\ verdict[t] # "failed"}

(* No task is left waiting for what is there (prvUnlockQueue): while one   *)
(* waits to receive, each message in the queue has a task on its way to it *)
(* or is counted in the lock and will wake one; and so for the free slots  *)
(* while one waits to send.                                                *)
NoWaiterForgotten ==
    /\ Waiting("receive") # {} =>
         uxMessagesWaiting <= Cardinality(Coming("receive")) + Locked(xTxLock)
    /\ Waiting("send") # {} =>
         uxLength - uxMessagesWaiting <= Cardinality(Coming("send")) + Locked(xRxLock)

(* A task sleeps until its deadline and no longer, across the overflow of  *)
(* the tick count (prvAddCurrentTaskToDelayedList, xTaskIncrementTick): it *)
(* is in the list of the right turn, its wake time is the end of its wait  *)
(* however often it was woken in between, and the time the kernel looks    *)
(* for the next wake is not later.                                         *)
WakesOnTime ==
    \A t \in Task : state[t] \in {"delayed", "overflow"} =>
        /\ Due(t) = deadline[t]
        /\ Due(t) > Now
        /\ state[t] = "delayed" => xNextTaskUnblockTime <= wake[t]

(* No queue call fails and no delay ends before its time                   *)
(* (xTaskCheckForTimeOut): the ticks counted since it began are as many as *)
(* were asked for.                                                         *)
NotBeforeDeadline ==
    \A t \in Task :
        /\ verdict[t] = "failed" => Now >= deadline[t]
        /\ pc[t] = "asleep" /\ state[t] = "ready" => Now >= deadline[t]

Abstract == INSTANCE MessageQueue WITH items <- Content, Length <- uxLength

(* The ring of slots is a queue: what tasks and handlers send, at either   *)
(* end, is received once and in order (prvCopyDataToQueue,                 *)
(* prvCopyDataFromQueue).                                                  *)
ImplementsQueue == Abstract!Spec
===============================================================================
