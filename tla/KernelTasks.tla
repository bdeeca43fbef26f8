----------------------------- MODULE KernelTasks -----------------------------
(***************************************************************************)
(* The state lists and the time of the kernel (tasks.c, list.c).           *)
(*                                                                         *)
(* A TCB has two list items.  `state' is the list its xGenericListItem is  *)
(* in, `event' the list its xEventListItem is in; an item is in one list   *)
(* at most, as its pvContainer is one pointer.  The order within a list is *)
(* left out: the delayed lists are sorted by `wake', and which of several  *)
(* waiters is woken or which ready task runs may be any (their priorities  *)
(* are the application's choice).                                          *)
(***************************************************************************)
EXTENDS Integers, FiniteSets

CONSTANTS
    Task,           \* the tasks, without the idle task
    portMAX_DELAY,  \* largest value of the tick type
    MaxTicks        \* bound: ticks that pass

ASSUME TickAssumption ==
    /\ portMAX_DELAY \in Nat \ {0}
    /\ MaxTicks \in Nat

(* Tasks are counted, in uxCurrentNumberOfTasks. *)
ASSUME TaskAssumption == IsFiniteSet(Task)

VARIABLES
    xTickCount,
    xNumOfOverflows,
    xNextTaskUnblockTime,
    uxPendedTicks,
    uxSchedulerSuspended,
    state,      \* of each task: "ready", "delayed", "overflow" or "suspended"
    event,      \* of each task: "none", "send", "receive" or "pending"
    wake        \* of each task in a delayed list: the value of its
                \* xGenericListItem; 0 elsewhere, where nothing reads it

ticks   == <<xTickCount, xNumOfOverflows, xNextTaskUnblockTime, uxPendedTicks>>
lists   == <<state, event, wake>>
kernel  == <<ticks, uxSchedulerSuspended, lists>>

Tick == 0 .. portMAX_DELAY

TickLimit == portMAX_DELAY + 1

KernelInit ==
    /\ xTickCount = 0 /\ xNumOfOverflows = 0 /\ uxPendedTicks = 0
    /\ xNextTaskUnblockTime = portMAX_DELAY
    /\ uxSchedulerSuspended = FALSE
    /\ state = [t \in Task |-> "ready"]
    /\ event = [t \in Task |-> "none"]
    /\ wake = [t \in Task |-> 0]

Waiting(l) == {t \in Task : event[t] = l}

(* The ticks that have been counted, and those that have passed. *)
Now == xNumOfOverflows * TickLimit + xTickCount

(* The time a sleeping task is to wake at: within the present turn of the  *)
(* tick count or, in the overflow list, in the next.                       *)
Due(t) == wake[t] + TickLimit * (IF state[t] = "delayed" THEN xNumOfOverflows
                                                       ELSE xNumOfOverflows + 1)

-----------------------------------------------------------------------------
AddWithoutNextTime(t, at) ==
    /\ wake' = [wake EXCEPT ![t] = at]
    /\ state' = [state EXCEPT ![t] = IF at < xTickCount THEN "overflow" ELSE "delayed"]
    /\ UNCHANGED xNextTaskUnblockTime

(* prvAddCurrentTaskToDelayedList, with the time reckoned by its callers. *)
AddToDelayedList(t, at) ==
    /\ wake' = [wake EXCEPT ![t] = at]
    /\ IF at < xTickCount
       THEN /\ state' = [state EXCEPT ![t] = "overflow"]
            /\ UNCHANGED xNextTaskUnblockTime
       ELSE /\ state' = [state EXCEPT ![t] = "delayed"]
            /\ xNextTaskUnblockTime' = IF at < xNextTaskUnblockTime
                                       THEN at ELSE xNextTaskUnblockTime

vTaskPlaceOnEventList(t, l, xTicksToWait) ==
    /\ event' = [event EXCEPT ![t] = l]
    /\ IF xTicksToWait = portMAX_DELAY
       THEN /\ state' = [state EXCEPT ![t] = "suspended"]
            /\ UNCHANGED <<wake, xNextTaskUnblockTime>>
       ELSE AddToDelayedList(t, (xTickCount + xTicksToWait) % TickLimit)

(* The scheduler's lists may be in use while it is suspended; the woken    *)
(* task is then held pending.                                              *)
xTaskRemoveFromEventList(t) ==
    IF uxSchedulerSuspended
    THEN /\ event' = [event EXCEPT ![t] = "pending"]
         /\ UNCHANGED <<state, wake>>
    ELSE /\ event' = [event EXCEPT ![t] = "none"]
         /\ state' = [state EXCEPT ![t] = "ready"]
         /\ wake' = [wake EXCEPT ![t] = 0]

(* One task waiting in the list l is woken, if there is one. *)
WakeOne(l) ==
    \/ /\ Waiting(l) = {}
       /\ UNCHANGED lists
    \/ \E t \in Waiting(l) : xTaskRemoveFromEventList(t)

(* The first part of xTaskResumeAll: pending tasks become ready. *)
ReadyPending ==
    /\ uxSchedulerSuspended' = FALSE
    /\ state' = [t \in Task |-> IF event[t] = "pending" THEN "ready" ELSE state[t]]
    /\ event' = [t \in Task |-> IF event[t] = "pending" THEN "none" ELSE event[t]]
    /\ wake' = [t \in Task |-> IF event[t] = "pending" THEN 0 ELSE wake[t]]

(* The earliest time at which one of the tasks S, asleep, is to wake. *)
EarliestOf(S) ==
    IF S = {} THEN portMAX_DELAY
    ELSE CHOOSE w \in {wake[t] : t \in S} : \A t \in S : w <= wake[t]

(* xTaskIncrementTick with the scheduler running. *)
CountTick ==
    LET tick   == (xTickCount + 1) % TickLimit
        wrapped == tick = 0
        delayed == {t \in Task : state[t] = IF wrapped THEN "overflow" ELSE "delayed"}
        next   == IF wrapped THEN EarliestOf(delayed) ELSE xNextTaskUnblockTime
        woken  == IF tick >= next THEN {t \in delayed : wake[t] <= tick} ELSE {}
    IN  /\ xTickCount' = tick
        /\ xNumOfOverflows' = IF wrapped THEN xNumOfOverflows + 1 ELSE xNumOfOverflows
        /\ xNextTaskUnblockTime' = IF tick >= next THEN EarliestOf(delayed \ woken) ELSE next
        /\ state' = [t \in Task |->
                        CASE t \in woken -> "ready"
                          [] t \in delayed \ woken -> "delayed"
                          [] wrapped /\ state[t] = "delayed" -> "overflow"
                          [] OTHER -> state[t]]
        /\ event' = [t \in Task |-> IF t \in woken THEN "none" ELSE event[t]]
        /\ wake' = [t \in Task |-> IF t \in woken THEN 0 ELSE wake[t]]

(* xTaskIncrementTick, from the SysTick interrupt. *)
xTaskIncrementTick ==
    /\ Now + uxPendedTicks < MaxTicks
    /\ IF uxSchedulerSuspended
       THEN /\ uxPendedTicks' = uxPendedTicks + 1
            /\ UNCHANGED <<xTickCount, xNumOfOverflows, xNextTaskUnblockTime, lists>>
       ELSE CountTick /\ UNCHANGED uxPendedTicks
    /\ UNCHANGED uxSchedulerSuspended

(* The second part of xTaskResumeAll, once for each tick that was missed. *)
CountPendedTick ==
    /\ uxPendedTicks > 0
    /\ CountTick
    /\ uxPendedTicks' = uxPendedTicks - 1
    /\ UNCHANGED uxSchedulerSuspended

(* The critical section of vTaskSuspend(NULL): the task runs on until it is*)
(* switched out.                                                           *)
Suspend(t) ==
    /\ state' = [state EXCEPT ![t] = "suspended"]
    /\ UNCHANGED <<event, wake, ticks, uxSchedulerSuspended>>

InSuspendedList(t) == state[t] = "suspended"

(* xTaskIsTaskSuspended: a task that waits for ever on a queue is in the   *)
(* suspended list too, and so is one that has been woken and is pending.   *)
xTaskIsTaskSuspended(t) ==
    /\ state[t] = "suspended"
    /\ event[t] # "pending"
    /\ event[t] = "none"

(* Mutant: the running task is not told from the others. *)
vTaskResumeRunning(t, pxCurrentTCB) ==
    /\ xTaskIsTaskSuspended(t)
    /\ state' = [state EXCEPT ![t] = "ready"]
    /\ UNCHANGED <<event, wake, ticks, uxSchedulerSuspended>>

(* Nothing is done to the task that runs (pxCurrentTCB), suspended or not. *)
vTaskResume(t, pxCurrentTCB) ==
    /\ t \notin pxCurrentTCB
    /\ xTaskIsTaskSuspended(t)
    /\ state' = [state EXCEPT ![t] = "ready"]
    /\ UNCHANGED <<event, wake, ticks, uxSchedulerSuspended>>

KernelTypeOK ==
    /\ xTickCount \in Tick
    /\ xNumOfOverflows \in Nat
    /\ xNextTaskUnblockTime \in Tick
    /\ uxPendedTicks \in Nat
    /\ uxSchedulerSuspended \in BOOLEAN
    /\ state \in [Task -> {"ready", "delayed", "overflow", "suspended"}]
    /\ event \in [Task -> {"none", "send", "receive", "pending"}]
    /\ wake \in [Task -> Tick]
===============================================================================
