-------------------------- MODULE KernelTime_proofs --------------------------
(***************************************************************************)
(* Proofs about the lists and the time of the kernel: the list items of a  *)
(* task agree, no wait ends before its time or lasts longer, and none goes *)
(* on for what is there.  The types are those of KernelQueue_proofs.       *)
(***************************************************************************)
EXTENDS KernelQueue_proofs

(* The steps a task takes with the scheduler suspended. *)
HeldSteps == {"prvLockQueue", "xTaskCheckForTimeOut", "prvIsQueue", "vTaskPlaceOnEventList",
              "prvUnlockTx", "prvUnlockRx", "xTaskResumeAll", "vTaskDelay", "vTaskDelayUntil"}

(* Those before it may be put in a list. *)
EarlySteps == {"vTaskSuspendAll", "prvLockQueue", "xTaskCheckForTimeOut", "prvIsQueue",
               "vTaskPlaceOnEventList"}

DelaySteps == {"vTaskDelay", "vTaskDelayUntil"}

UnlockSteps == {"prvUnlockTx", "prvUnlockRx"}

EndSteps == {"xTaskResumeAll", "ticks"}

Sleeping(t) == state[t] \in {"delayed", "overflow"}

(* One task at a time holds the scheduler. *)
HolderOK ==
    /\ \A t \in Task : pc[t] \in HeldSteps => uxSchedulerSuspended
    /\ \A t \in Task : pc[t] = "ticks" => ~ uxSchedulerSuspended
    /\ \A t, u \in Task : pc[t] \in HeldSteps \cup {"ticks"} /\ pc[u] \in HeldSteps \cup {"ticks"}
                            => t = u

(* What a task's place in its call says of its lists. *)
CallOK(t) ==
    /\ pc[t] = "idle" => /\ call[t] = "none" /\ event[t] = "none" /\ verdict[t] = "none"
                         /\ state[t] \in {"ready", "suspended"}
    /\ pc[t] = "vTaskSuspend" => /\ call[t] = "none" /\ event[t] = "none" /\ verdict[t] = "none"
                                 /\ state[t] = "suspended"
    /\ pc[t] \in EarlySteps \cup DelaySteps => state[t] = "ready" /\ event[t] = "none"
    /\ pc[t] \in {"try"} \cup EarlySteps \cup UnlockSteps => call[t] \in Calls
    /\ pc[t] \in EndSteps => call[t] \in Calls \cup {"delay"}
    /\ pc[t] \in DelaySteps \cup {"asleep"} => call[t] = "delay"
    /\ event[t] # "none" => /\ state[t] # "ready" /\ call[t] \in Calls
                            /\ pc[t] \in UnlockSteps \cup EndSteps \cup {"try"}
    /\ event[t] \in {"send", "receive"} => event[t] = List(call[t])
    /\ event[t] = "pending" => uxSchedulerSuspended
    /\ Sleeping(t) => event[t] # "none" \/ call[t] = "delay"
    /\ state[t] = "suspended" => event[t] # "none" \/ pc[t] \in {"idle", "vTaskSuspend"}
    /\ verdict[t] # "none" => call[t] \in Calls
    /\ verdict[t] = "failed" => /\ pc[t] \in UnlockSteps \cup EndSteps
                                /\ state[t] = "ready" /\ event[t] = "none"

ListInv == TypeOK /\ HolderOK /\ \A t \in Task : CallOK(t)

-----------------------------------------------------------------------------
(* What may happen to the lists of a task that takes no step itself. *)
Moved(u) ==
    \/ /\ UNCHANGED <<state[u], event[u]>>
       /\ event[u] = "pending" => uxSchedulerSuspended'
    \/ /\ event[u] # "none" \/ Sleeping(u)
       /\ state'[u] = "ready" /\ event'[u] = "none"
    \/ /\ event[u] \in {"send", "receive"} /\ event'[u] = "pending" /\ uxSchedulerSuspended'
       /\ state'[u] = state[u]
    \/ /\ Sleeping(u) /\ state'[u] \in {"delayed", "overflow"} /\ event'[u] = event[u]
       /\ event[u] = "pending" => uxSchedulerSuspended'
    \/ /\ state[u] = "suspended" /\ event[u] = "none" /\ pc[u] # "vTaskSuspend"
       /\ state'[u] = "ready" /\ event'[u] = "none"

LEMMA CallNames ==
    /\ "none" \notin Calls /\ "delay" \notin Calls
    /\ Calls \subseteq {"send", "receive", "peek"}
BY WaitsAssumption

LEMMA MovedKeeps ==
    ASSUME NEW u \in Task, CallOK(u), Moved(u),
           UNCHANGED <<pc[u], call[u], verdict[u]>>
    PROVE  CallOK(u)'
BY CallNames DEF CallOK, Moved, Sleeping, List, EarlySteps, DelaySteps, UnlockSteps, EndSteps

LEMMA MovedByWake ==
    ASSUME NEW l \in {"send", "receive"}, WakeOne(l), uxSchedulerSuspended' = uxSchedulerSuspended,
           KernelTypeOK, NEW u \in Task, CallOK(u)
    PROVE  Moved(u)
<1>1. CASE UNCHANGED lists
  BY <1>1 DEF Moved, lists, CallOK
<1>2. ASSUME NEW t \in Waiting(l), xTaskRemoveFromEventList(t) PROVE Moved(u)
  <2>1. CASE u = t
    <3>1. event[u] \in {"send", "receive"}
      BY <1>2, <2>1 DEF Waiting
    <3>2. CASE uxSchedulerSuspended
      BY <1>2, <2>1, <3>1, <3>2 DEF Moved, xTaskRemoveFromEventList, KernelTypeOK
    <3>3. CASE ~ uxSchedulerSuspended
      BY <1>2, <2>1, <3>1, <3>3 DEF Moved, xTaskRemoveFromEventList, KernelTypeOK
    <3> QED
      BY <3>2, <3>3
  <2>2. CASE u # t
    BY <1>2, <2>2 DEF Moved, xTaskRemoveFromEventList, KernelTypeOK, CallOK, Waiting
  <2> QED
    BY <2>1, <2>2
<1> QED
  BY <1>1, <1>2 DEF WakeOne

LEMMA MovedByTick ==
    ASSUME CountTick, ~ uxSchedulerSuspended, KernelTypeOK, NEW u \in Task, CallOK(u)
    PROVE  Moved(u)
<1>1. event[u] # "pending"
  BY DEF CallOK
<1>2. \/ UNCHANGED <<state[u], event[u]>>
      \/ Sleeping(u) /\ state'[u] = "ready" /\ event'[u] = "none"
      \/ state[u] = "delayed" /\ state'[u] = "overflow" /\ event'[u] = event[u]
      \/ state[u] = "overflow" /\ state'[u] = "delayed" /\ event'[u] = event[u]
  BY DEF CountTick, KernelTypeOK, Sleeping
<1> QED
  BY <1>1, <1>2 DEF Moved, Sleeping

LEMMA MovedByReady ==
    ASSUME ReadyPending, KernelTypeOK, NEW u \in Task
    PROVE  Moved(u)
BY DEF Moved, ReadyPending, KernelTypeOK

LEMMA MovedByReplay ==
    ASSUME NEW n, NEW l \in {"send", "receive"}, ReplayLock(n, l), UNCHANGED state,
           uxSchedulerSuspended, uxSchedulerSuspended' = uxSchedulerSuspended,
           KernelTypeOK, NEW u \in Task, CallOK(u)
    PROVE  Moved(u)
BY DEF Moved, ReplayLock, Waiting, KernelTypeOK

-----------------------------------------------------------------------------
LEMMA HolderKept ==
    ASSUME pc \in [Task -> Steps], HolderOK, NEW t \in Task, NEW step, Goto(t, step),
           \/ step \notin HeldSteps \cup {"ticks"} /\ UNCHANGED uxSchedulerSuspended
           \/ pc[t] \in HeldSteps /\ step \in HeldSteps /\ UNCHANGED uxSchedulerSuspended
           \/ ~ uxSchedulerSuspended /\ ~ Masked /\ step \in HeldSteps /\ uxSchedulerSuspended'
           \/ pc[t] \in HeldSteps /\ step = "ticks" /\ ~ uxSchedulerSuspended'
    PROVE  HolderOK'
<1> DEFINE Holds(u) == pc[u] \in HeldSteps \cup {"ticks"}
<1>1. pc'[t] = step /\ \A u \in Task \ {t} : pc'[u] = pc[u]
  BY DEF Goto
<1>2. CASE step \notin HeldSteps \cup {"ticks"} /\ UNCHANGED uxSchedulerSuspended
  BY <1>1, <1>2 DEF HolderOK
<1>3. CASE pc[t] \in HeldSteps /\ step \in HeldSteps /\ UNCHANGED uxSchedulerSuspended
  BY <1>1, <1>3 DEF HolderOK, HeldSteps
<1>4. CASE ~ uxSchedulerSuspended /\ ~ Masked /\ step \in HeldSteps /\ uxSchedulerSuspended'
  <2>1. \A u \in Task : pc[u] \notin HeldSteps \cup {"ticks"}
    BY <1>4 DEF HolderOK, Masked
  <2>2. step # "ticks"
    BY <1>4 DEF HeldSteps
  <2> QED
    BY <1>1, <1>4, <2>1, <2>2 DEF HolderOK
<1>5. CASE pc[t] \in HeldSteps /\ step = "ticks" /\ ~ uxSchedulerSuspended'
  <2>1. \A u \in Task \ {t} : pc[u] \notin HeldSteps \cup {"ticks"}
    BY <1>5 DEF HolderOK
  <2>2. step \notin HeldSteps
    BY <1>5 DEF HeldSteps
  <2> QED
    BY <1>1, <1>5, <2>1, <2>2 DEF HolderOK
<1> QED
  BY <1>2, <1>3, <1>4, <1>5

(* A step of the task t: the lists of the others are moved or let alone,   *)
(* and their calls stay.                                                   *)
Others(t) ==
    \A u \in Task \ {t} : Moved(u) /\ UNCHANGED <<pc[u], call[u], verdict[u]>>

LEMMA OthersKept ==
    ASSUME ListInv, NEW t \in Task, Others(t), CallOK(t)'
    PROVE  \A u \in Task : CallOK(u)'
<1>1. ASSUME NEW u \in Task \ {t} PROVE CallOK(u)'
  <2>1. Moved(u) /\ UNCHANGED <<pc[u], call[u], verdict[u]>>
    BY DEF Others
  <2>2. CallOK(u)
    BY DEF ListInv
  <2> QED
    BY <2>1, <2>2, MovedKeeps
<1> QED
  BY <1>1

(* The steps in which a call returns. *)
LEMMA ReturnKeeps ==
    ASSUME ListInv, NEW t \in Task, Return(t), state'[t] = "ready", event'[t] = "none",
           \A u \in Task \ {t} : Moved(u), UNCHANGED uxSchedulerSuspended
    PROVE  HolderOK' /\ \A u \in Task : CallOK(u)'
<1>1. HolderOK'
  BY HolderKept DEF ListInv, TypeOK, Return, HeldSteps
<1>2. CallOK(t)'
  BY CallNames DEF CallOK, Return, Goto, ListInv, TypeOK, Sleeping, EarlySteps, DelaySteps,
                   UnlockSteps, EndSteps
<1>3. Others(t)
  BY DEF Others, Return, Goto, ListInv, TypeOK
<1> QED
  BY <1>1, <1>2, <1>3, OthersKept

(* A task that runs, and one that waits for no event, is in no event list. *)
LEMMA RunsIsFree ==
    ASSUME ListInv, NEW t \in Task, Runs(t)
    PROVE  event[t] = "none" /\ state[t] = "ready" /\ ~ uxSchedulerSuspended /\ ~ Masked
BY DEF ListInv, CallOK, Runs, TypeOK, KernelTypeOK

LEMMA QueueCallKeeps ==
    ASSUME ListInv, NEW t \in Task, Send(t) \/ Receive(t) \/ Peek(t)
    PROVE  HolderOK' /\ \A u \in Task : CallOK(u)'
<1>1. Runs(t) /\ Return(t) /\ UNCHANGED uxSchedulerSuspended
  BY DEF Send, Receive, Peek, Tries
<1>2. PICK l \in {"send", "receive"} : WakeOne(l)
  BY DEF Send, Receive, Peek
<1>3. KernelTypeOK
  BY DEF ListInv, TypeOK
<1>4. \A u \in Task : Moved(u)
  BY <1>1, <1>2, <1>3, MovedByWake DEF ListInv
<1>5. event'[t] = "none" /\ state'[t] = "ready"
  BY <1>1, <1>4, RunsIsFree DEF Moved, Sleeping
<1> QED
  BY <1>1, <1>4, <1>5, ReturnKeeps

(* A task takes a step of its call; the lists stay. *)
LEMMA StillMoved ==
    ASSUME ListInv, UNCHANGED lists, uxSchedulerSuspended => uxSchedulerSuspended', NEW u \in Task
    PROVE  Moved(u)
BY DEF Moved, lists, ListInv, CallOK

LEMMA StepNamesDiffer ==
    /\ \A s \in {"idle", "vTaskSuspend"} :
          s \notin HeldSteps \cup {"ticks"} \cup EarlySteps \cup DelaySteps \cup UnlockSteps \cup EndSteps
    /\ EarlySteps \ {"vTaskSuspendAll"} \subseteq HeldSteps /\ "vTaskSuspendAll" \notin HeldSteps
    /\ DelaySteps \subseteq HeldSteps /\ UnlockSteps \subseteq HeldSteps
    /\ "ticks" \notin HeldSteps
BY DEF HeldSteps, EarlySteps, DelaySteps, UnlockSteps, EndSteps

LEMMA PrepareKeeps ==
    ASSUME ListInv, NEW t \in Task, PrepareToBlock(t)
    PROVE  HolderOK' /\ \A u \in Task : CallOK(u)'
<1>1. Runs(t) /\ Goto(t, "vTaskSuspendAll") /\ UNCHANGED <<kernel, verdict>>
  BY DEF PrepareToBlock
<1>2. event[t] = "none" /\ state[t] = "ready"
  BY <1>1, RunsIsFree
<1>3. HolderOK'
  BY <1>1, HolderKept DEF ListInv, TypeOK, HeldSteps, kernel
<1>4. /\ call'[t] \in Calls
      /\ \A u \in Task \ {t} : call'[u] = call[u]
  BY DEF PrepareToBlock, ListInv, CallOK, TypeOK
<1>5. pc[t] \in {"idle", "try"}
  BY DEF PrepareToBlock
<1>6. CallOK(t)'
  BY <1>1, <1>2, <1>4, <1>5, CallNames
     DEF CallOK, Goto, ListInv, TypeOK, Sleeping, EarlySteps, DelaySteps, UnlockSteps, EndSteps,
         kernel, lists
<1>7. Others(t)
  BY <1>1, <1>4, StillMoved DEF Others, Goto, ListInv, TypeOK, kernel
<1> QED
  BY <1>3, <1>6, <1>7, OthersKept

LEMMA SuspendAllKeeps ==
    ASSUME ListInv, NEW t \in Task, vTaskSuspendAll(t) \/ Delay(t) \/ DelayUntil(t)
    PROVE  HolderOK' /\ \A u \in Task : CallOK(u)'
<1>1. PICK step \in {"prvLockQueue", "vTaskDelay", "vTaskDelayUntil"} :
         /\ Goto(t, step) /\ uxSchedulerSuspended' /\ UNCHANGED <<lists, verdict>>
         /\ ~ uxSchedulerSuspended /\ ~ Masked
         /\ state[t] = "ready" /\ event[t] = "none"
         /\ IF step = "prvLockQueue" THEN pc[t] = "vTaskSuspendAll" /\ UNCHANGED call
                                     ELSE pc[t] = "idle" /\ call' = [call EXCEPT ![t] = "delay"]
  BY RunsIsFree DEF vTaskSuspendAll, Delay, DelayUntil
<1>2. HolderOK'
  BY <1>1, HolderKept DEF ListInv, TypeOK, HeldSteps
<1>3. CallOK(t)'
  BY <1>1, CallNames
     DEF CallOK, Goto, ListInv, TypeOK, Sleeping, EarlySteps, DelaySteps, UnlockSteps, EndSteps,
         lists
<1>4. Others(t)
  BY <1>1, StillMoved DEF Others, Goto, ListInv, TypeOK
<1> QED
  BY <1>2, <1>3, <1>4, OthersKept

LEMMA CheckKeeps ==
    ASSUME ListInv, NEW t \in Task,
           prvLockQueue(t) \/ xTaskCheckForTimeOut(t) \/ prvIsQueue(t)
    PROVE  HolderOK' /\ \A u \in Task : CallOK(u)'
<1>1. PICK step \in Steps :
         /\ Goto(t, step) /\ UNCHANGED <<kernel, call>>
         /\ pc[t] \in EarlySteps \ {"vTaskSuspendAll"}
         /\ step \in (EarlySteps \ {"vTaskSuspendAll"}) \cup UnlockSteps
         /\ \/ UNCHANGED verdict
            \/ step \in UnlockSteps /\ verdict' = [verdict EXCEPT ![t] = "failed"]
            \/ verdict' = [verdict EXCEPT ![t] = "again"]
  BY StepNames DEF prvLockQueue, xTaskCheckForTimeOut, prvIsQueue, EarlySteps, UnlockSteps
<1>2. HolderOK'
  BY <1>1, HolderKept, StepNamesDiffer DEF ListInv, TypeOK, kernel
<1>3. CallOK(t)'
  BY <1>1, CallNames
     DEF CallOK, Goto, ListInv, TypeOK, Sleeping, EarlySteps, DelaySteps, UnlockSteps, EndSteps,
         kernel, lists
<1>4. Others(t)
  BY <1>1, StillMoved DEF Others, Goto, ListInv, TypeOK, kernel
<1> QED
  BY <1>2, <1>3, <1>4, OthersKept

LEMMA PlaceKeeps ==
    ASSUME ListInv, NEW t \in Task, PlaceOnEventList(t) \/ PlaceDelayed(t) \/ PlaceUntil(t)
    PROVE  HolderOK' /\ \A u \in Task : CallOK(u)'
<1>1. /\ UNCHANGED <<uxSchedulerSuspended, call, verdict>>
      /\ \A u \in Task \ {t} : UNCHANGED <<state[u], event[u]>>
      /\ \/ /\ pc[t] = "vTaskPlaceOnEventList" /\ Goto(t, "prvUnlockTx")
            /\ event'[t] = List(call[t]) /\ state'[t] \in {"delayed", "overflow", "suspended"}
         \/ /\ pc[t] \in DelaySteps /\ Goto(t, "xTaskResumeAll")
            /\ event'[t] = event[t] /\ state'[t] \in {"delayed", "overflow", "ready"}
  <2>1. CASE PlaceOnEventList(t)
    BY <2>1 DEF PlaceOnEventList, vTaskPlaceOnEventList, AddToDelayedList, ListInv, TypeOK,
                KernelTypeOK
  <2>2. CASE PlaceDelayed(t)
    BY <2>2 DEF PlaceDelayed, AddToDelayedList, ListInv, TypeOK, KernelTypeOK, DelaySteps
  <2>3. CASE PlaceUntil(t)
    <3>1. pc[t] \in DelaySteps => state[t] = "ready"
      BY DEF ListInv, CallOK
    <3> QED
      BY <2>3, <3>1 DEF PlaceUntil, AddToDelayedList, ListInv, TypeOK, KernelTypeOK, DelaySteps
  <2> QED
    BY <2>1, <2>2, <2>3
<1>2. pc[t] \in HeldSteps
  BY <1>1 DEF HeldSteps, DelaySteps
<1>3. HolderOK'
  BY <1>1, <1>2, HolderKept DEF ListInv, TypeOK, HeldSteps
<1>4. CallOK(t)'
  BY <1>1, CallNames
     DEF CallOK, Goto, ListInv, TypeOK, Sleeping, EarlySteps, DelaySteps, UnlockSteps, EndSteps,
         List
<1>5. \A u \in Task \ {t} : event[u] = "pending" => uxSchedulerSuspended
  BY DEF ListInv, CallOK
<1>6. Others(t)
  BY <1>1, <1>5 DEF Others, Moved, Goto, ListInv, TypeOK
<1> QED
  BY <1>3, <1>4, <1>6, OthersKept

LEMMA UnlockKeeps ==
    ASSUME ListInv, NEW t \in Task, prvUnlockTx(t) \/ prvUnlockRx(t)
    PROVE  HolderOK' /\ \A u \in Task : CallOK(u)'
<1>1. /\ pc[t] \in UnlockSteps
      /\ Goto(t, "prvUnlockRx") \/ Goto(t, "xTaskResumeAll")
      /\ ReplayLock(xTxLock, "receive") \/ ReplayLock(xRxLock, "send")
      /\ UNCHANGED <<uxSchedulerSuspended, state, call, verdict>>
  BY DEF prvUnlockTx, prvUnlockRx, UnlockSteps
<1>2. uxSchedulerSuspended
  BY <1>1, StepNamesDiffer DEF ListInv, HolderOK
<1>3. HolderOK'
  BY <1>1, StepNamesDiffer, HolderKept DEF ListInv, TypeOK, HeldSteps
<1>4. \A u \in Task : Moved(u)
  BY <1>1, <1>2, MovedByReplay DEF ListInv, TypeOK
<1>5. CallOK(t)'
  BY <1>1, <1>4, CallNames
     DEF CallOK, Moved, Goto, ListInv, TypeOK, Sleeping, EarlySteps, DelaySteps, UnlockSteps,
         EndSteps
<1>6. Others(t)
  BY <1>1, <1>4 DEF Others, Goto, ListInv, TypeOK
<1> QED
  BY <1>3, <1>5, <1>6, OthersKept

LEMMA ResumeAllKeeps ==
    ASSUME ListInv, NEW t \in Task, xTaskResumeAll(t)
    PROVE  HolderOK' /\ \A u \in Task : CallOK(u)'
<1>1. Goto(t, "ticks") /\ pc[t] = "xTaskResumeAll" /\ ReadyPending /\ UNCHANGED <<call, verdict>>
  BY DEF xTaskResumeAll
<1>2. HolderOK'
  BY <1>1, HolderKept DEF ListInv, TypeOK, HeldSteps, ReadyPending
<1>3. \A u \in Task : Moved(u)
  BY <1>1, MovedByReady DEF ListInv, TypeOK
<1>4. CallOK(t)'
  BY <1>1, <1>3, CallNames
     DEF CallOK, Moved, Goto, ListInv, TypeOK, Sleeping, EarlySteps, DelaySteps, UnlockSteps,
         EndSteps, ReadyPending
<1>5. Others(t)
  BY <1>1, <1>3 DEF Others, Goto, ListInv, TypeOK
<1> QED
  BY <1>2, <1>4, <1>5, OthersKept

LEMMA ResumedKeeps ==
    ASSUME ListInv, NEW t \in Task, Resumed(t)
    PROVE  HolderOK' /\ \A u \in Task : CallOK(u)'
<1>1. pc[t] = "ticks" /\ UNCHANGED <<lists, uxSchedulerSuspended>>
  BY DEF Resumed, kernel
<1>2. \A u \in Task : Moved(u)
  BY <1>1, StillMoved
<1>3. CASE Return(t)
  <2>1. state'[t] = "ready" /\ event'[t] = "none"
    BY <1>1, <1>3, CallNames
       DEF Resumed, lists, ListInv, CallOK, Return, Goto, TypeOK, HeldSteps
  <2> QED
    BY <1>1, <1>2, <1>3, <2>1, ReturnKeeps
<1>4. CASE ~ Return(t)
  <2>1. \/ call[t] \in Calls /\ Goto(t, "try") /\ verdict' = [verdict EXCEPT ![t] = "none"]
           /\ UNCHANGED call
        \/ call[t] = "delay" /\ Goto(t, "asleep") /\ UNCHANGED <<call, verdict>>
    BY <1>4 DEF Resumed, ListInv, CallOK
  <2>2. HolderOK'
    BY <1>1, <2>1, HolderKept DEF ListInv, TypeOK, HeldSteps
  <2>3. CallOK(t)'
    BY <1>1, <2>1, CallNames
       DEF CallOK, Goto, ListInv, TypeOK, Sleeping, EarlySteps, DelaySteps, UnlockSteps,
           EndSteps, lists
  <2>4. Others(t)
    BY <1>2, <2>1 DEF Others, Goto, ListInv, TypeOK
  <2> QED
    BY <2>2, <2>3, <2>4, OthersKept
<1> QED
  BY <1>3, <1>4

(* Steps that leave the calls alone. *)
LEMMA MovesKeep ==
    ASSUME ListInv, UNCHANGED <<pc, call, verdict, uxSchedulerSuspended>>,
           \A u \in Task : Moved(u)
    PROVE  HolderOK' /\ \A u \in Task : CallOK(u)'
<1>1. HolderOK'
  BY DEF ListInv, HolderOK
<1>2. \A u \in Task : CallOK(u)'
  BY MovedKeeps DEF ListInv
<1> QED
  BY <1>1, <1>2

LEMMA HandlerKeeps ==
    ASSUME ListInv, xQueueGenericSendFromISR \/ xQueueReceiveFromISR \/ SysTick
    PROVE  HolderOK' /\ \A u \in Task : CallOK(u)'
<1>1. UNCHANGED <<pc, call, verdict, uxSchedulerSuspended>>
  BY DEF xQueueGenericSendFromISR, xQueueReceiveFromISR, SysTick, callers, xTaskIncrementTick
<1>2. CASE UNCHANGED lists
  BY <1>1, <1>2, StillMoved, MovesKeep
<1>3. CASE \E l \in {"send", "receive"} : WakeOne(l)
  BY <1>1, <1>3, MovedByWake, MovesKeep DEF ListInv, TypeOK
<1>4. CASE CountTick /\ ~ uxSchedulerSuspended
  BY <1>1, <1>4, MovedByTick, MovesKeep DEF ListInv, TypeOK
<1> QED
  BY <1>2, <1>3, <1>4 DEF xQueueGenericSendFromISR, xQueueReceiveFromISR, SysTick, TellOrCount,
                          xTaskIncrementTick

LEMMA OtherStepsKeep ==
    ASSUME ListInv, NEW t \in Task,
           \/ UnwindTick(t) \/ Awake(t) \/ SuspendItself(t) \/ vTaskSwitchContext(t)
           \/ Resume(t)
    PROVE  HolderOK' /\ \A u \in Task : CallOK(u)'
<1>1. CASE UnwindTick(t)
  <2>1. CountTick /\ ~ uxSchedulerSuspended /\ UNCHANGED <<pc, call, verdict, uxSchedulerSuspended>>
    BY <1>1 DEF UnwindTick, CountPendedTick, callers, ListInv, HolderOK
  <2> QED
    BY <2>1, MovedByTick, MovesKeep DEF ListInv, TypeOK
<1>2. CASE Awake(t)
  <2>1. Return(t) /\ UNCHANGED <<lists, uxSchedulerSuspended>> /\ Runs(t)
    BY <1>2 DEF Awake, kernel
  <2>2. state'[t] = "ready" /\ event'[t] = "none"
    BY <2>1, RunsIsFree DEF lists
  <2> QED
    BY <2>1, <2>2, StillMoved, ReturnKeeps
<1>3. CASE SuspendItself(t)
  <2>1. /\ Runs(t) /\ pc[t] = "idle" /\ UNCHANGED <<call, verdict, uxSchedulerSuspended, event>>
        /\ state' = [state EXCEPT ![t] = "suspended"] /\ Goto(t, "vTaskSuspend")
    BY <1>3 DEF SuspendItself, Suspend
  <2>2. HolderOK'
    BY <2>1, HolderKept, StepNamesDiffer DEF ListInv, TypeOK
  <2>3. CallOK(t)'
    BY <2>1, RunsIsFree, CallNames
       DEF CallOK, ListInv, TypeOK, KernelTypeOK, Goto, Sleeping, EarlySteps, DelaySteps,
           UnlockSteps, EndSteps
  <2>4. \A u \in Task : event[u] = "pending" => uxSchedulerSuspended
    BY DEF ListInv, CallOK
  <2>5. Others(t)
    BY <2>1, <2>4 DEF Others, Moved, ListInv, TypeOK, KernelTypeOK, Goto
  <2> QED
    BY <2>2, <2>3, <2>5, OthersKept
<1>4. CASE Resume(t)
  <2>1. /\ UNCHANGED <<pc, call, verdict, uxSchedulerSuspended, event>>
        /\ state[t] = "suspended" /\ event[t] = "none" /\ pc[t] # "vTaskSuspend"
        /\ state' = [state EXCEPT ![t] = "ready"]
    BY <1>4 DEF Resume, vTaskResume, Leaving, xTaskIsTaskSuspended, callers
  <2>2. \A u \in Task : event[u] = "pending" => uxSchedulerSuspended
    BY DEF ListInv, CallOK
  <2>3. \A u \in Task : Moved(u)
    BY <2>1, <2>2 DEF Moved, ListInv, TypeOK, KernelTypeOK
  <2> QED
    BY <2>1, <2>3, MovesKeep
<1>5. CASE vTaskSwitchContext(t)
  <2>1. /\ pc[t] = "vTaskSuspend" /\ Goto(t, "idle")
        /\ UNCHANGED <<call, verdict, uxSchedulerSuspended, lists>>
    BY <1>5 DEF vTaskSwitchContext, kernel
  <2>2. HolderOK'
    BY <2>1, HolderKept, StepNamesDiffer DEF ListInv, TypeOK
  <2>3. CallOK(t)'
    BY <2>1, CallNames
       DEF CallOK, ListInv, TypeOK, lists, Goto, Sleeping, EarlySteps, DelaySteps, UnlockSteps,
           EndSteps
  <2>4. \A u \in Task : event[u] = "pending" => uxSchedulerSuspended
    BY DEF ListInv, CallOK
  <2>5. Others(t)
    BY <2>1, <2>4 DEF Others, Moved, ListInv, TypeOK, lists, Goto
  <2> QED
    BY <2>2, <2>3, <2>5, OthersKept
<1> QED
  BY <1>1, <1>2, <1>3, <1>4, <1>5

LEMMA ListsKept ==
    ASSUME ListInv, [Next]_vars
    PROVE  HolderOK' /\ \A u \in Task : CallOK(u)'
<1>1. CASE UNCHANGED vars
  <2>1. UNCHANGED <<pc, call, verdict, uxSchedulerSuspended, lists>>
    BY <1>1 DEF vars, kernel, callers
  <2> QED
    BY <2>1, StillMoved, MovesKeep
<1>2. ASSUME NEW t \in Task, Step(t) PROVE HolderOK' /\ \A u \in Task : CallOK(u)'
  BY <1>2, QueueCallKeeps, PrepareKeeps, SuspendAllKeeps, CheckKeeps, PlaceKeeps, UnlockKeeps,
     ResumeAllKeeps, ResumedKeeps, OtherStepsKeep DEF Step
<1> QED
  BY <1>1, <1>2, HandlerKeeps DEF Next

LEMMA ListsInvariant == Spec => [](HolderOK /\ \A t \in Task : CallOK(t))
<1>1. Init => HolderOK /\ \A t \in Task : CallOK(t)
  BY DEF Init, KernelInit, HolderOK, CallOK, HeldSteps, Sleeping, EarlySteps, DelaySteps,
         UnlockSteps, EndSteps
<1>2. TypeOK /\ (HolderOK /\ \A t \in Task : CallOK(t)) /\ [Next]_vars
         => (HolderOK /\ \A t \in Task : CallOK(t))'
  BY ListsKept DEF ListInv
<1> QED
  BY <1>1, <1>2, TypeCorrect, PTL DEF Spec

(* The two list items of every task agree, for any number of tasks         *)
(* (xTaskRemoveFromEventList, xTaskIncrementTick, vTaskResume): a task     *)
(* that waits for an event does not run, and one in the suspended list     *)
(* without an event put itself there, and stays there until it is switched *)
(* out.                                                                    *)
THEOREM ItemsAgree == Spec => []ListsAgree
<1>1. HolderOK /\ (\A t \in Task : CallOK(t)) => ListsAgree
  BY DEF ListsAgree, CallOK, Sleeping
<1> QED
  BY <1>1, ListsInvariant, PTL

-----------------------------------------------------------------------------
(* The time. *)

Finite(t) == call[t] \in Calls /\ xTicksToWait[t] # portMAX_DELAY

Entered(t) == xTimeOut[t].xOverflowCount * TickLimit + xTimeOut[t].xTimeOnEntering

(* The tick count overflows at most once between two looks of a task at    *)
(* its timeout: the kernel compares the counts of overflows for being      *)
(* different only, so after a second turn it reckons a turn too little.    *)
LooksInTime ==
    \A t \in Task : pc[t] = "xTaskCheckForTimeOut" /\ Finite(t) =>
        xNumOfOverflows <= xTimeOut[t].xOverflowCount + 1

(* A wait of a queue call ends at its deadline, or later when a task did   *)
(* not look in time: exact says that all tasks did.                        *)
WaitOK(t, exact) ==
    Finite(t) =>
        /\ xTimeOut[t].xOverflowCount <= xNumOfOverflows
        /\ xTimeOut[t].xOverflowCount = xNumOfOverflows =>
              xTimeOut[t].xTimeOnEntering <= xTickCount
        /\ xTicksToWait[t] >= 1
        /\ deadline[t] <= Entered(t) + xTicksToWait[t]
        /\ exact => deadline[t] = Entered(t) + xTicksToWait[t]
        /\ pc[t] \in {"prvIsQueue", "vTaskPlaceOnEventList"} => xTimeOut[t] = TimeNow

SleepOK(t, exact) ==
    Sleeping(t) =>
        /\ deadline[t] <= Due(t)
        /\ call[t] = "delay" \/ exact => deadline[t] = Due(t)
        /\ Due(t) > Now
        /\ state[t] = "delayed" => xNextTaskUnblockTime <= wake[t]

EndOK(t) ==
    /\ pc[t] = "vTaskDelay" => deadline[t] = Now + xTicksToWait[t] /\ xTicksToWait[t] >= 1
    /\ verdict[t] = "failed" => Now >= deadline[t]
    /\ call[t] = "delay" /\ pc[t] \in EndSteps \cup {"asleep"} /\ state[t] = "ready"
         => Now >= deadline[t]

TimeOK(t, exact) == WaitOK(t, exact) /\ SleepOK(t, exact) /\ EndOK(t)

TicksBound == Now + uxPendedTicks <= MaxTicks

TimeInv(exact) == ListInv /\ TicksBound /\ \A t \in Task : TimeOK(t, exact)

LEMMA Turns ==
    ASSUME NEW L \in Nat, NEW n \in Nat
    PROVE  /\ n * L \in Nat /\ L * n = n * L
           /\ (n + 1) * L = n * L + L /\ L * (n + 1) = n * L + L
           /\ L * (n + 2) = n * L + 2 * L /\ L * ((n + 1) + 1) = n * L + 2 * L
OBVIOUS

LEMMA EarlierTurn ==
    ASSUME NEW L \in Nat, NEW n \in Nat, NEW o \in Nat, o < n
    PROVE  o * L + L <= n * L
<1>1. PICK d \in Nat : n = o + 1 + d
  <2>1. n - (o + 1) \in Nat /\ n = o + 1 + (n - (o + 1))
    OBVIOUS
  <2> QED
    BY <2>1
<1>2. n * L = o * L + L + d * L
  BY <1>1
<1>3. d * L \in Nat /\ o * L \in Nat
  OBVIOUS
<1> QED
  BY <1>2, <1>3

(* The values of the clock, as constants. *)
LEMMA Clock ==
    ASSUME KernelTypeOK
    PROVE  \E c \in Tick, n \in Nat, B \in Nat, L \in Nat \ {0} :
              /\ c = xTickCount /\ n = xNumOfOverflows /\ L = TickLimit
              /\ B = n * L /\ B = L * n
              /\ L * (n + 1) = B + L /\ (n + 1) * L = B + L
              /\ Now = B + c /\ c < L
<1>1. xTickCount \in Tick /\ xNumOfOverflows \in Nat /\ TickLimit \in Nat \ {0}
  BY TickTypes DEF KernelTypeOK
<1>2. \A c \in Tick : c \in Nat /\ c < TickLimit
  BY TickTypes DEF Tick, TickLimit
<1>3. PICK c \in Tick, n \in Nat, L \in Nat \ {0} :
         c = xTickCount /\ n = xNumOfOverflows /\ L = TickLimit
  BY <1>1
<1>4. /\ n * L \in Nat /\ n * L = L * n
      /\ L * (n + 1) = n * L + L /\ (n + 1) * L = n * L + L
  BY Turns
<1>5. Now = n * L + c
  BY <1>3 DEF Now
<1> QED
  BY <1>2, <1>3, <1>4, <1>5

LEMMA TickCases ==
    ASSUME KernelTypeOK, CountTick
    PROVE  \/ /\ xTickCount + 1 < TickLimit
              /\ xTickCount' = xTickCount + 1 /\ xNumOfOverflows' = xNumOfOverflows
              /\ (xTickCount + 1) % TickLimit = xTickCount + 1 /\ xTickCount + 1 # 0
           \/ /\ xTickCount + 1 = TickLimit
              /\ xTickCount' = 0 /\ xNumOfOverflows' = xNumOfOverflows + 1
              /\ (xTickCount + 1) % TickLimit = 0
<1>1. PICK c \in Tick, L \in Nat \ {0} : c = xTickCount /\ L = TickLimit /\ c < L
  BY Clock
<1>2. c \in Nat
  BY TickTypes
<1>3. \/ c + 1 < L /\ (c + 1) % L = c + 1 /\ c + 1 # 0
      \/ c + 1 = L /\ (c + 1) % L = 0
  <2>1. c + 1 \in 0 .. 2 * L
    BY <1>1, <1>2
  <2> QED
    BY <1>1, <1>2, <2>1, ModWithin
<1> QED
  BY <1>1, <1>3 DEF CountTick

LEMMA TickCounts ==
    ASSUME KernelTypeOK, CountTick
    PROVE  Now' = Now + 1
<1>1. PICK c \in Tick, n \in Nat, B \in Nat, L \in Nat \ {0} :
         /\ c = xTickCount /\ n = xNumOfOverflows /\ L = TickLimit
         /\ B = n * L /\ (n + 1) * L = B + L /\ Now = B + c
  BY Clock
<1>2. c \in Nat
  BY TickTypes
<1>3. Now' = xNumOfOverflows' * L + xTickCount'
  BY <1>1 DEF Now, TickLimit
<1>4. CASE c + 1 < L /\ xTickCount' = c + 1 /\ xNumOfOverflows' = n
  BY <1>1, <1>2, <1>3, <1>4
<1>5. CASE c + 1 = L /\ xTickCount' = 0 /\ xNumOfOverflows' = n + 1
  BY <1>1, <1>2, <1>3, <1>5
<1> QED
  BY <1>1, <1>4, <1>5, TickCases

(* What one tick does to a task u that sleeps. *)
LEMMA TickSleeps ==
    ASSUME KernelTypeOK, CountTick, NEW u \in Task,
           Sleeping(u) => Due(u) > Now /\ (state[u] = "delayed" => xNextTaskUnblockTime <= wake[u])
    PROVE  /\ ~ Sleeping(u) => state'[u] = state[u]
           /\ Sleeping(u) /\ ~ Sleeping(u)' => state'[u] = "ready" /\ Due(u) <= Now'
           /\ Sleeping(u)' => /\ Sleeping(u) /\ Due(u)' = Due(u) /\ Due(u)' > Now'
                              /\ state'[u] = "delayed" => xNextTaskUnblockTime' <= wake'[u]
<1>1. PICK c \in Tick, n \in Nat, B \in Nat, L \in Nat \ {0} :
         /\ c = xTickCount /\ n = xNumOfOverflows /\ L = TickLimit
         /\ B = L * n /\ L * (n + 1) = B + L /\ Now = B + c /\ c < L
  BY Clock
<1>2. PICK w \in Tick : w = wake[u]
  BY DEF KernelTypeOK
<1>3. c \in Nat /\ w \in Nat /\ w < L
  <2>1. \A x \in Tick : x \in Nat /\ x < TickLimit
    BY TickTypes DEF Tick, TickLimit
  <2> QED
    BY <1>1, <2>1
<1>4. PICK next \in Tick : next = xNextTaskUnblockTime
  BY DEF KernelTypeOK
<1>5. next \in Nat
  BY TickTypes
<1>6. Now' = Now + 1
  BY TickCounts
<1>7. /\ state[u] = "delayed" => Due(u) = w + B
      /\ state[u] = "overflow" => Due(u) = w + B + L
  BY <1>1, <1>2, <1>3 DEF Due
<1>8. \A S \in SUBSET Task : u \in S => EarliestOf(S) \in Nat /\ EarliestOf(S) <= w
  BY <1>2, EarliestIs, TickTypes DEF KernelTypeOK
<1>9. CASE /\ c + 1 < L /\ xTickCount' = c + 1 /\ xNumOfOverflows' = n
           /\ (xTickCount + 1) % TickLimit = c + 1 /\ c + 1 # 0
  <2> DEFINE delayed == {t \in Task : state[t] = "delayed"}
             woken == IF c + 1 >= next THEN {t \in delayed : wake[t] <= c + 1} ELSE {}
  <2>1. /\ state' = [t \in Task |-> CASE t \in woken -> "ready"
                                      [] t \in delayed \ woken -> "delayed"
                                      [] OTHER -> state[t]]
        /\ wake' = [t \in Task |-> IF t \in woken THEN 0 ELSE wake[t]]
        /\ xNextTaskUnblockTime' = IF c + 1 >= next THEN EarliestOf(delayed \ woken) ELSE next
    BY <1>4, <1>9 DEF CountTick
  <2>2. CASE state[u] \notin {"delayed", "overflow"}
    <3>1. state'[u] = state[u]
      BY <2>1, <2>2
    <3> QED
      BY <2>2, <3>1 DEF Sleeping
  <2>3. CASE state[u] = "overflow"
    <3>1. state'[u] = "overflow" /\ wake'[u] = w
      BY <1>2, <2>1, <2>3
    <3>2. Due(u)' = w + B + L
      BY <1>1, <1>3, <1>9, <3>1 DEF Due, TickLimit
    <3>3. Due(u)' > Now'
      BY <1>1, <1>3, <1>6, <1>9, <3>2
    <3> QED
      BY <1>7, <2>3, <3>1, <3>2, <3>3 DEF Sleeping
  <2>4. CASE state[u] = "delayed" /\ u \in woken
    <3>1. state'[u] = "ready" /\ w <= c + 1
      BY <1>2, <2>1, <2>4
    <3>2. Due(u) <= Now'
      BY <1>1, <1>3, <1>6, <1>7, <2>4, <3>1
    <3> QED
      BY <2>4, <3>1, <3>2 DEF Sleeping
  <2>5. CASE state[u] = "delayed" /\ u \notin woken
    <3>1. state'[u] = "delayed" /\ wake'[u] = w
      BY <1>2, <2>1, <2>5
    <3>2. Due(u)' = w + B
      BY <1>1, <1>3, <1>9, <3>1 DEF Due, TickLimit
    <3>3. next <= w
      BY <1>2, <1>4, <2>5 DEF Sleeping
    <3>4. w > c + 1
      BY <1>2, <1>3, <1>5, <2>5, <3>3
    <3>5. Due(u)' > Now'
      BY <1>1, <1>3, <1>6, <3>2, <3>4
    <3>6. xNextTaskUnblockTime' <= w
      BY <1>8, <2>1, <2>5, <3>3
    <3> QED
      BY <1>7, <2>5, <3>1, <3>2, <3>5, <3>6 DEF Sleeping
  <2> QED
    BY <2>2, <2>3, <2>4, <2>5
<1>10. CASE /\ c + 1 = L /\ xTickCount' = 0 /\ xNumOfOverflows' = n + 1
            /\ (xTickCount + 1) % TickLimit = 0
  <2> DEFINE delayed == {t \in Task : state[t] = "overflow"}
             first == EarliestOf(delayed)
             woken == IF 0 >= first THEN {t \in delayed : wake[t] <= 0} ELSE {}
  <2>1. /\ state' = [t \in Task |-> CASE t \in woken -> "ready"
                                      [] t \in delayed \ woken -> "delayed"
                                      [] state[t] = "delayed" -> "overflow"
                                      [] OTHER -> state[t]]
        /\ wake' = [t \in Task |-> IF t \in woken THEN 0 ELSE wake[t]]
        /\ xNextTaskUnblockTime' = IF 0 >= first THEN EarliestOf(delayed \ woken) ELSE first
    BY <1>10 DEF CountTick
  <2>2. CASE state[u] \notin {"delayed", "overflow"}
    <3>1. state'[u] = state[u]
      BY <2>1, <2>2
    <3> QED
      BY <2>2, <3>1 DEF Sleeping
  <2>3. CASE state[u] = "delayed"
    <3>1. w > c
      BY <1>1, <1>3, <1>7, <2>3 DEF Sleeping
    <3> QED
      BY <1>3, <1>10, <3>1
  <2>4. CASE state[u] = "overflow" /\ u \in woken
    <3>1. state'[u] = "ready" /\ w <= 0
      BY <1>2, <2>1, <2>4
    <3>2. Due(u) <= Now'
      BY <1>1, <1>3, <1>6, <1>7, <1>10, <2>4, <3>1
    <3> QED
      BY <2>4, <3>1, <3>2 DEF Sleeping
  <2>5. CASE state[u] = "overflow" /\ u \notin woken
    <3>1. state'[u] = "delayed" /\ wake'[u] = w
      BY <1>2, <2>1, <2>5
    <3>2. Due(u)' = w + B + L
      BY <1>1, <1>3, <1>10, <3>1 DEF Due, TickLimit
    <3>3. first \in Nat /\ first <= w
      BY <1>8, <2>5
    <3>4. w > 0
      BY <1>2, <1>3, <2>5, <3>3
    <3>5. Due(u)' > Now'
      BY <1>1, <1>3, <1>6, <1>10, <3>2, <3>4
    <3>6. xNextTaskUnblockTime' <= w
      BY <1>8, <2>1, <2>5, <3>3
    <3> QED
      BY <1>7, <2>5, <3>1, <3>2, <3>5, <3>6 DEF Sleeping
  <2> QED
    BY <2>2, <2>3, <2>4, <2>5
<1> QED
  BY <1>1, <1>9, <1>10, TickCases

-----------------------------------------------------------------------------
(* A task whose call stays keeps its time while no tick is counted, unless *)
(* it is put to sleep.                                                     *)
Stays(u) == UNCHANGED <<pc[u], call[u], verdict[u], xTicksToWait[u], xTimeOut[u], deadline[u]>>

Rests(u) ==
    \/ UNCHANGED <<state[u], wake[u]>>
    \/ state'[u] \notin {"delayed", "overflow"}
       /\ (call[u] # "delay" \/ state'[u] # "ready" \/ state[u] = "ready")

NoTick ==
    /\ UNCHANGED <<xTickCount, xNumOfOverflows>>
    /\ xNextTaskUnblockTime' \in Tick /\ xNextTaskUnblockTime' <= xNextTaskUnblockTime

LEMMA NowStays ==
    ASSUME UNCHANGED <<xTickCount, xNumOfOverflows>>
    PROVE  Now' = Now /\ TimeNow' = TimeNow
BY DEF Now, TimeNow

LEMMA SleepRests ==
    ASSUME KernelTypeOK, NEW exact \in BOOLEAN, NEW u \in Task, SleepOK(u, exact), NoTick, Rests(u), UNCHANGED <<call[u], deadline[u]>>
    PROVE  SleepOK(u, exact)'
<1>1. Now' = Now
  BY NowStays DEF NoTick
<1>2. CASE UNCHANGED <<state[u], wake[u]>>
  <2>1. Due(u)' = Due(u)
    BY <1>2 DEF NoTick, Due
  <2>2. PICK w \in Tick, x \in Tick, y \in Tick :
           w = wake[u] /\ x = xNextTaskUnblockTime /\ y = xNextTaskUnblockTime' /\ y <= x
    BY DEF KernelTypeOK, NoTick
  <2>3. x <= w => y <= w
    BY <2>2, TickTypes
  <2> QED
    BY <1>1, <1>2, <2>1, <2>2, <2>3 DEF SleepOK, Sleeping
<1>3. CASE state'[u] \notin {"delayed", "overflow"}
  BY <1>3 DEF SleepOK, Sleeping
<1> QED
  BY <1>2, <1>3 DEF Rests

LEMMA TimeRests ==
    ASSUME KernelTypeOK, NEW exact \in BOOLEAN, NEW u \in Task, TimeOK(u, exact), NoTick, Rests(u), Stays(u)
    PROVE  TimeOK(u, exact)'
<1>1. Now' = Now /\ TimeNow' = TimeNow /\ UNCHANGED <<xTickCount, xNumOfOverflows>>
  BY NowStays DEF NoTick
<1>2. WaitOK(u, exact)'
  BY <1>1 DEF TimeOK, WaitOK, Finite, Entered, Stays
<1>3. SleepOK(u, exact)'
  BY SleepRests DEF TimeOK, Stays
<1>4. EndOK(u)'
  BY <1>1 DEF TimeOK, EndOK, Stays, Rests
<1> QED
  BY <1>2, <1>3, <1>4 DEF TimeOK

(* A tick is counted. *)
LEMMA TimeTicks ==
    ASSUME ListInv, NEW exact \in BOOLEAN, NEW u \in Task, TimeOK(u, exact), CountTick, ~ uxSchedulerSuspended, Stays(u)
    PROVE  TimeOK(u, exact)'
<1>1. KernelTypeOK /\ CallsTypeOK /\ CallOK(u)
  BY TypeParts DEF ListInv
<1>2. PICK now \in Nat : now = Now /\ now + 1 = Now'
  BY <1>1, NowType, TickCounts
<1>3. pc[u] \notin HeldSteps
  BY DEF ListInv, HolderOK
<1>4. WaitOK(u, exact)'
  <2>1. PICK c \in Tick, n \in Nat, o \in Nat, e \in Tick :
           c = xTickCount /\ n = xNumOfOverflows /\ o = xTimeOut[u].xOverflowCount
           /\ e = xTimeOut[u].xTimeOnEntering
    <3>1. xTimeOut[u] \in [xOverflowCount : Nat, xTimeOnEntering : Tick]
      BY <1>1 DEF CallsTypeOK
    <3> QED
      BY <1>1, <3>1 DEF KernelTypeOK
  <2>2. c \in Nat /\ e \in Nat
    BY TickTypes
  <2>3. o <= n /\ (o = n => e <= c)
        => o <= xNumOfOverflows' /\ (o = xNumOfOverflows' => e <= xTickCount')
    BY <1>1, <2>1, <2>2, TickCases
  <2>4. pc'[u] \notin {"prvIsQueue", "vTaskPlaceOnEventList"} /\ Finite(u)' = Finite(u)
        /\ Entered(u)' = Entered(u)
    BY <1>3 DEF Stays, Finite, Entered, HeldSteps
  <2> QED
    BY <2>1, <2>3, <2>4 DEF TimeOK, WaitOK, Stays
<1>5. SleepOK(u, exact) /\ (Sleeping(u) => Due(u) > Now /\ (state[u] = "delayed" => xNextTaskUnblockTime <= wake[u]))
  BY DEF TimeOK, SleepOK
<1>6. SleepOK(u, exact)'
  BY <1>1, <1>5, TickSleeps DEF SleepOK, Stays
<1>7. EndOK(u)'
  <2>1. pc'[u] # "vTaskDelay"
    BY <1>3 DEF Stays, HeldSteps
  <2>2. deadline[u] \in Nat /\ deadline'[u] = deadline[u]
    BY <1>1 DEF CallsTypeOK, Stays
  <2>3. verdict'[u] = "failed" => Now' >= deadline'[u]
    BY <1>2, <2>2 DEF TimeOK, EndOK, Stays
  <2>4. ASSUME call'[u] = "delay", pc'[u] \in EndSteps \cup {"asleep"}, state'[u] = "ready"
        PROVE  Now' >= deadline'[u]
    <3>1. call[u] = "delay" /\ pc[u] \in EndSteps \cup {"asleep"}
      BY <2>4 DEF Stays
    <3>2. CASE Sleeping(u)
      <4>1. Due(u) <= Now' /\ deadline[u] = Due(u)
        BY <1>1, <1>5, <2>4, <3>1, <3>2, TickSleeps DEF Sleeping, SleepOK
      <4> QED
        BY <1>2, <2>2, <4>1
    <3>3. CASE ~ Sleeping(u)
      <4>1. state[u] = "ready"
        BY <1>1, <1>5, <2>4, <3>3, TickSleeps
      <4> QED
        BY <1>2, <2>2, <3>1, <4>1 DEF TimeOK, EndOK
    <3> QED
      BY <3>2, <3>3
  <2> QED
    BY <2>1, <2>3, <2>4 DEF EndOK
<1> QED
  BY <1>4, <1>6, <1>7 DEF TimeOK

(* A task is put in a delayed list, to wake at the time `at' of this turn  *)
(* or of the next.                                                         *)
LEMMA AddDue ==
    ASSUME KernelTypeOK, NEW t \in Task, NEW at \in Tick, AddToDelayedList(t, at),
           UNCHANGED <<xTickCount, xNumOfOverflows>>
    PROVE  /\ NoTick /\ Sleeping(t)'
           /\ state'[t] = "delayed" => xNextTaskUnblockTime' <= wake'[t]
           /\ Due(t)' = IF at < xTickCount
                        THEN xNumOfOverflows * TickLimit + TickLimit + at
                        ELSE xNumOfOverflows * TickLimit + at
           /\ \A u \in Task \ {t} : UNCHANGED <<state[u], wake[u]>>
<1>1. PICK c \in Tick, n \in Nat, B \in Nat, L \in Nat \ {0} :
         /\ c = xTickCount /\ n = xNumOfOverflows /\ L = TickLimit
         /\ B = n * L /\ B = L * n /\ L * (n + 1) = B + L
  BY Clock
<1>2. PICK next \in Tick : next = xNextTaskUnblockTime
  BY DEF KernelTypeOK
<1>3. next \in Nat /\ at \in Nat
  BY TickTypes
<1>4. wake'[t] = at /\ state'[t] = IF at < c THEN "overflow" ELSE "delayed"
  BY <1>1 DEF AddToDelayedList, KernelTypeOK
<1>5. xNextTaskUnblockTime' = IF at < c THEN next ELSE IF at < next THEN at ELSE next
  BY <1>1, <1>2 DEF AddToDelayedList
<1>6. NoTick
  BY <1>2, <1>3, <1>5 DEF NoTick
<1>7. state'[t] = "delayed" => xNextTaskUnblockTime' <= wake'[t]
  BY <1>3, <1>4, <1>5
<1>8. Due(t)' = IF at < c THEN B + L + at ELSE B + at
  <2>1. Due(t)' = at + L * (IF at < c THEN n + 1 ELSE n)
    BY <1>1, <1>4 DEF Due, TickLimit
  <2> QED
    BY <1>1, <1>3, <2>1
<1>9. \A u \in Task \ {t} : UNCHANGED <<state[u], wake[u]>>
  BY DEF AddToDelayedList, KernelTypeOK
<1> QED
  BY <1>1, <1>4, <1>6, <1>7, <1>8, <1>9 DEF Sleeping

(* As for a number of ticks from now. *)
LEMMA AddTicksDue ==
    ASSUME KernelTypeOK, NEW t \in Task, NEW w \in Tick, w >= 1,
           AddToDelayedList(t, (xTickCount + w) % TickLimit),
           UNCHANGED <<xTickCount, xNumOfOverflows>>
    PROVE  /\ NoTick /\ Sleeping(t)' /\ Due(t)' = Now + w
           /\ state'[t] = "delayed" => xNextTaskUnblockTime' <= wake'[t]
           /\ \A u \in Task \ {t} : UNCHANGED <<state[u], wake[u]>>
<1>1. PICK c \in Tick, n \in Nat, B \in Nat, L \in Nat \ {0} :
         /\ c = xTickCount /\ n = xNumOfOverflows /\ L = TickLimit /\ B = n * L /\ Now = B + c
         /\ c < L
  BY Clock
<1>2. c \in Nat /\ w \in Nat /\ w < L
  <2>1. \A x \in Tick : x \in Nat /\ x < TickLimit
    BY TickTypes DEF Tick, TickLimit
  <2> QED
    BY <1>1, <2>1
<1>3. PICK at \in Tick : at = (c + w) % L
  <2>1. c + w \in Int
    BY <1>2
  <2> QED
    BY <1>1, <2>1, TickTypes
<1>4. (c + w < L /\ at = c + w) \/ (c + w >= L /\ at = c + w - L)
  <2>1. PICK x \in 0 .. 2 * L : x = c + w /\ x < 2 * L
    BY <1>1, <1>2
  <2>2. (x < L /\ x % L = x) \/ (x >= L /\ x % L = x - L)
    BY <2>1, ModWithin
  <2> QED
    BY <1>3, <2>1, <2>2
<1>5. AddToDelayedList(t, at)
  BY <1>1, <1>3
<1>6. Due(t)' = IF at < c THEN B + L + at ELSE B + at
  BY <1>1, <1>5, AddDue
<1>7. Due(t)' = Now + w
  BY <1>1, <1>2, <1>4, <1>6
<1> QED
  BY <1>5, <1>7, AddDue

LEMMA TypesOf ==
    ASSUME ListInv
    PROVE  KernelTypeOK /\ CallsTypeOK
BY TypeParts DEF ListInv

(* Nothing happens to the time. *)
LEMMA NoTickTrivial ==
    ASSUME KernelTypeOK, UNCHANGED <<xTickCount, xNumOfOverflows, xNextTaskUnblockTime>>
    PROVE  NoTick
<1>1. PICK next \in Tick : next = xNextTaskUnblockTime
  BY DEF KernelTypeOK
<1>2. next <= next
  BY <1>1, TickTypes
<1> QED
  BY <1>1, <1>2 DEF NoTick

(* A call that returns has no deadline. *)
LEMMA ReturnTime ==
    ASSUME ListInv, NEW exact \in BOOLEAN, NEW t \in Task, Return(t), state'[t] = "ready"
    PROVE  TimeOK(t, exact)'
<1>1. call'[t] = "none" /\ verdict'[t] = "none" /\ pc'[t] = "idle"
  BY TypesOf DEF Return, Goto, CallsTypeOK
<1> QED
  BY <1>1, CallNames DEF TimeOK, WaitOK, SleepOK, EndOK, Finite, Sleeping

(* The steps of the task t, first for the task itself. *)

LEMMA PrepareTime ==
    ASSUME ListInv, NEW exact \in BOOLEAN, NEW t \in Task, TimeOK(t, exact), PrepareToBlock(t)
    PROVE  TimeOK(t, exact)'
<1>1. KernelTypeOK /\ CallsTypeOK /\ CallOK(t)
  BY TypesOf DEF ListInv
<1>2. /\ state[t] = "ready" /\ UNCHANGED <<kernel, verdict>> /\ pc'[t] = "vTaskSuspendAll"
      /\ pc[t] \in {"idle", "try"}
  BY <1>1 DEF PrepareToBlock, Runs, Goto, CallsTypeOK
<1>3. state'[t] = "ready" /\ verdict'[t] # "failed"
      /\ UNCHANGED <<xTickCount, xNumOfOverflows>>
  BY <1>1, <1>2 DEF kernel, lists, ticks, CallOK, UnlockSteps, EndSteps
<1>4. SleepOK(t, exact)' /\ EndOK(t)'
  BY <1>2, <1>3 DEF SleepOK, Sleeping, EndOK, EndSteps
<1>5. WaitOK(t, exact)'
  <2>1. CASE UNCHANGED <<call, wait>>
    <3>1. UNCHANGED <<Finite(t), Entered(t), xTicksToWait[t], xTimeOut[t], deadline[t]>>
      BY <2>1 DEF wait, Finite, Entered
    <3> QED
      BY <1>2, <1>3, <3>1 DEF TimeOK, WaitOK
  <2>2. CASE \E w \in Waits \ {portMAX_DELAY} :
               /\ xTicksToWait' = [xTicksToWait EXCEPT ![t] = w]
               /\ xTimeOut' = [xTimeOut EXCEPT ![t] = TimeNow]
               /\ deadline' = [deadline EXCEPT ![t] = Now + w]
    <3>1. PICK w \in Waits :
             xTicksToWait'[t] = w /\ xTimeOut'[t] = TimeNow /\ deadline'[t] = Now + w
      BY <1>1, <2>2 DEF CallsTypeOK
    <3>2. w \in Nat /\ w >= 1
      BY WaitsAssumption, TickTypes
    <3>3. Entered(t)' = Now /\ Now \in Nat
      BY <1>1, <3>1, NowType DEF Entered, TimeNow, Now, TickLimit
    <3>4. /\ xTimeOut'[t].xOverflowCount = xNumOfOverflows
          /\ xTimeOut'[t].xTimeOnEntering = xTickCount
      BY <3>1 DEF TimeNow
    <3>5. xNumOfOverflows <= xNumOfOverflows /\ xTickCount <= xTickCount
      BY <1>1, TickTypes DEF KernelTypeOK
    <3> QED
      BY <1>2, <1>3, <3>1, <3>2, <3>3, <3>4, <3>5 DEF WaitOK
  <2>3. CASE xTicksToWait' = [xTicksToWait EXCEPT ![t] = portMAX_DELAY]
    BY <1>1, <2>3 DEF WaitOK, Finite, CallsTypeOK
  <2> QED
    BY <2>1, <2>2, <2>3 DEF PrepareToBlock
<1> QED
  BY <1>4, <1>5 DEF TimeOK

(* What xTaskCheckForTimeOut reckons as elapsed has elapsed. *)
LEMMA ElapsedIs ==
    ASSUME ListInv, NEW exact \in BOOLEAN, NEW t \in Task, WaitOK(t, exact), Finite(t)
    PROVE  \E e, passed, w \in Nat :
              /\ e = Entered(t) /\ passed = Elapsed(t) /\ w = xTicksToWait[t]
              /\ e + passed <= Now
              /\ PassedAgain(t) => e + w <= Now
              /\ ~ PassedAgain(t) /\ xNumOfOverflows <= xTimeOut[t].xOverflowCount + 1
                    => e + passed = Now
<1>1. KernelTypeOK /\ CallsTypeOK
  BY TypesOf
<1>2. PICK c \in Tick, n \in Nat, B \in Nat, L \in Nat \ {0} :
         /\ c = xTickCount /\ n = xNumOfOverflows /\ L = TickLimit
         /\ B = n * L /\ (n + 1) * L = B + L /\ Now = B + c /\ c < L
  BY <1>1, Clock
<1>3. PICK o \in Nat, x \in Tick, w \in Tick :
         o = xTimeOut[t].xOverflowCount /\ x = xTimeOut[t].xTimeOnEntering /\ w = xTicksToWait[t]
  <2>1. xTimeOut[t] \in [xOverflowCount : Nat, xTimeOnEntering : Tick] /\ xTicksToWait[t] \in Tick
    BY <1>1 DEF CallsTypeOK
  <2> QED
    BY <2>1
<1>4. c \in Nat /\ x \in Nat /\ x < L /\ w \in Nat /\ w < L
  <2>1. \A y \in Tick : y \in Nat /\ y < TickLimit
    BY TickTypes DEF Tick, TickLimit
  <2> QED
    BY <1>2, <2>1
<1>5. PICK E \in Nat : E = o * L
  BY Turns, <1>2
<1>6. Entered(t) = E + x
  BY <1>2, <1>3, <1>5 DEF Entered
<1>7. o <= n /\ (o = n => x <= c)
  BY <1>2, <1>3 DEF WaitOK
<1>8. /\ o = n => E = B
      /\ o < n => E + L <= B
  BY <1>2, <1>5, EarlierTurn
<1>9. PICK passed \in Nat : /\ passed = Elapsed(t)
                            /\ (x <= c /\ passed = c - x) \/ (c < x /\ passed = c - x + L)
  <2>1. Elapsed(t) = (c - x) % L
    BY <1>2, <1>3 DEF Elapsed
  <2>2. CASE x <= c
    <3>1. PICK y \in 0 .. 2 * L : y = c - x /\ y < L
      BY <1>2, <1>4, <2>2
    <3>2. y % L = y
      BY <3>1, ModWithin
    <3> QED
      BY <2>1, <2>2, <3>1, <3>2
  <2>3. CASE c < x
    <3>1. PICK y \in -L .. -1 : y = c - x
      BY <1>2, <1>4, <2>3
    <3>2. y % L = y + L
      BY <3>1, ModBelow
    <3> QED
      BY <1>4, <2>1, <2>3, <3>1, <3>2
  <2> QED
    BY <1>4, <2>2, <2>3
<1>10. PassedAgain(t) <=> n # o /\ c >= x
  BY <1>2, <1>3 DEF PassedAgain
<1>11. E + x + passed <= B + c
  BY <1>4, <1>7, <1>8, <1>9
<1>12. PassedAgain(t) => E + x + w <= B + c
  BY <1>4, <1>7, <1>8, <1>10
<1>13. ~ PassedAgain(t) /\ n <= o + 1 => E + x + passed = B + c
  <2>1. CASE n = o
    BY <1>4, <1>7, <1>8, <1>9, <2>1
  <2>2. CASE n = o + 1 /\ c < x
    <3>1. B = E + L
      BY <1>2, <1>5, <2>2, Turns
    <3> QED
      BY <1>4, <1>9, <2>2, <3>1
  <2> QED
    BY <1>4, <1>7, <1>10, <2>1, <2>2
<1>14. ~ PassedAgain(t) /\ xNumOfOverflows <= xTimeOut[t].xOverflowCount + 1
          => E + x + passed = B + c
  BY <1>2, <1>3, <1>13
<1> QED
  BY <1>2, <1>3, <1>4, <1>6, <1>9, <1>11, <1>12, <1>14

LEMMA CheckTime ==
    ASSUME ListInv, TicksBound, NEW exact \in BOOLEAN, NEW t \in Task, TimeOK(t, exact), xTaskCheckForTimeOut(t),
           exact => LooksInTime
    PROVE  TimeOK(t, exact)'
<1>1. KernelTypeOK /\ CallsTypeOK /\ CallOK(t)
  BY TypesOf DEF ListInv
<1>2. /\ pc[t] = "xTaskCheckForTimeOut" /\ UNCHANGED <<kernel, call, deadline>>
      /\ pc'[t] \in {"prvIsQueue", "prvUnlockTx"}
  BY <1>1 DEF xTaskCheckForTimeOut, Goto, CallsTypeOK
<1>3. /\ state'[t] = "ready" /\ UNCHANGED <<xTickCount, xNumOfOverflows>>
      /\ verdict[t] # "failed" /\ call[t] \in Calls
  BY <1>1, <1>2 DEF kernel, lists, ticks, CallOK, EarlySteps, UnlockSteps, EndSteps
<1>4. SleepOK(t, exact)'
  BY <1>3 DEF SleepOK, Sleeping
<1>5. Now' = Now /\ TimeNow' = TimeNow
  BY <1>3, NowStays
<1>6. CASE xTicksToWait[t] = portMAX_DELAY /\ UNCHANGED <<xTicksToWait, xTimeOut, verdict>>
  BY <1>2, <1>3, <1>4, <1>6 DEF TimeOK, WaitOK, EndOK, Finite, EndSteps
<1>7. CASE /\ xTicksToWait[t] # portMAX_DELAY
           /\ ~ PassedAgain(t) /\ Elapsed(t) < xTicksToWait[t]
           /\ xTicksToWait' = [xTicksToWait EXCEPT ![t] = @ - Elapsed(t)]
           /\ xTimeOut' = [xTimeOut EXCEPT ![t] = TimeNow]
           /\ UNCHANGED verdict
  <2>1. Finite(t) /\ WaitOK(t, exact)
    BY <1>3, <1>7 DEF Finite, TimeOK
  <2>2. PICK e, passed, w \in Nat :
           /\ e = Entered(t) /\ passed = Elapsed(t) /\ w = xTicksToWait[t]
           /\ e + passed <= Now
           /\ xNumOfOverflows <= xTimeOut[t].xOverflowCount + 1 => e + passed = Now
    BY <1>7, <2>1, ElapsedIs
  <2>3. PICK now \in Nat, d \in Nat : now = Now /\ d = deadline[t]
    BY <1>1, NowType DEF CallsTypeOK
  <2>4. xTicksToWait'[t] = w - passed /\ xTimeOut'[t] = TimeNow /\ passed < w
    BY <1>1, <1>7, <2>2 DEF CallsTypeOK
  <2>5. Entered(t)' = now
    BY <1>1, <2>3, <2>4 DEF Entered, TimeNow, Now, TickLimit
  <2>6. w - passed >= 1 /\ d <= now + (w - passed)
    <3>1. d <= e + w
      BY <2>1, <2>2, <2>3 DEF WaitOK
    <3> QED
      BY <2>2, <2>3, <2>4, <3>1
  <2>7. exact => d = now + (w - passed)
    <3>1. SUFFICES ASSUME exact PROVE d = now + (w - passed)
      OBVIOUS
    <3>2. xNumOfOverflows <= xTimeOut[t].xOverflowCount + 1
      BY <1>2, <2>1, <3>1 DEF LooksInTime
    <3>3. d = e + w /\ e + passed = now
      BY <2>1, <2>2, <2>3, <3>1, <3>2 DEF WaitOK
    <3> QED
      BY <2>2, <3>3
  <2>8. /\ xTimeOut'[t].xOverflowCount = xNumOfOverflows
        /\ xTimeOut'[t].xTimeOnEntering = xTickCount
    BY <2>4 DEF TimeNow
  <2>9. xNumOfOverflows <= xNumOfOverflows /\ xTickCount <= xTickCount
    BY <1>1, TickTypes DEF KernelTypeOK
  <2>10. WaitOK(t, exact)'
    BY <1>2, <1>3, <1>5, <2>3, <2>4, <2>5, <2>6, <2>7, <2>8, <2>9 DEF WaitOK
  <2>11. EndOK(t)'
    BY <1>2, <1>3, <1>7 DEF EndOK, EndSteps
  <2> QED
    BY <1>4, <2>10, <2>11 DEF TimeOK
<1>8. CASE /\ xTicksToWait[t] # portMAX_DELAY
           /\ PassedAgain(t) \/ Elapsed(t) >= xTicksToWait[t]
           /\ verdict' = [verdict EXCEPT ![t] = "failed"]
           /\ Goto(t, "prvUnlockTx")
           /\ UNCHANGED <<xTicksToWait, xTimeOut>>
  <2>1. Finite(t) /\ WaitOK(t, exact)
    BY <1>3, <1>8 DEF Finite, TimeOK
  <2>2. PICK e, passed, w \in Nat :
           /\ e = Entered(t) /\ passed = Elapsed(t) /\ w = xTicksToWait[t]
           /\ e + passed <= Now
           /\ PassedAgain(t) => e + w <= Now
    BY <2>1, ElapsedIs
  <2>3. PICK now \in Nat, d \in Nat : now = Now /\ d = deadline[t]
    BY <1>1, NowType DEF CallsTypeOK
  <2>4. d <= e + w
    BY <2>1, <2>2, <2>3 DEF WaitOK
  <2>5. now >= d
    BY <1>8, <2>2, <2>3, <2>4
  <2>6. pc'[t] = "prvUnlockTx"
    BY <1>1, <1>8 DEF Goto, CallsTypeOK
  <2>7. EndOK(t)'
    BY <1>2, <1>5, <2>3, <2>5, <2>6 DEF EndOK, EndSteps
  <2>8. WaitOK(t, exact)'
    <3>1. UNCHANGED <<Finite(t), Entered(t), xTicksToWait[t], xTimeOut[t], deadline[t]>>
      BY <1>2, <1>8 DEF Finite, Entered
    <3> QED
      BY <1>3, <2>1, <2>6, <3>1 DEF WaitOK
  <2> QED
    BY <1>4, <2>7, <2>8 DEF TimeOK
<1> QED
  BY <1>6, <1>7, <1>8 DEF xTaskCheckForTimeOut

LEMMA PlaceTime ==
    ASSUME ListInv, NEW exact \in BOOLEAN, NEW t \in Task, TimeOK(t, exact), PlaceOnEventList(t)
    PROVE  TimeOK(t, exact)' /\ NoTick /\ \A u \in Task \ {t} : UNCHANGED <<state[u], wake[u]>>
<1>1. KernelTypeOK /\ CallsTypeOK /\ CallOK(t)
  BY TypesOf DEF ListInv
<1>2. /\ pc[t] = "vTaskPlaceOnEventList" /\ pc'[t] = "prvUnlockTx"
      /\ UNCHANGED <<call, verdict, wait, xTickCount, xNumOfOverflows>>
      /\ call[t] \in Calls /\ verdict[t] # "failed"
  BY <1>1 DEF PlaceOnEventList, Goto, CallsTypeOK, CallOK, EarlySteps, UnlockSteps, EndSteps
<1>3. EndOK(t)'
  BY <1>2 DEF EndOK, EndSteps
<1>4. WaitOK(t, exact)'
  <2>1. UNCHANGED <<Finite(t), Entered(t), xTicksToWait[t], xTimeOut[t], deadline[t]>>
    BY <1>2 DEF Finite, Entered, wait
  <2> QED
    BY <1>2, <2>1 DEF TimeOK, WaitOK
<1>5. CASE xTicksToWait[t] = portMAX_DELAY
  <2>1. state' = [state EXCEPT ![t] = "suspended"] /\ UNCHANGED <<wake, xNextTaskUnblockTime>>
    BY <1>5 DEF PlaceOnEventList, vTaskPlaceOnEventList
  <2>2. state'[t] = "suspended" /\ \A u \in Task \ {t} : UNCHANGED <<state[u], wake[u]>>
    BY <1>1, <2>1 DEF KernelTypeOK
  <2>3. NoTick
    BY <1>1, <1>2, <2>1, NoTickTrivial
  <2> QED
    BY <1>3, <1>4, <2>2, <2>3 DEF TimeOK, SleepOK, Sleeping
<1>6. CASE xTicksToWait[t] # portMAX_DELAY
  <2>1. PICK w \in Tick : w = xTicksToWait[t]
    BY <1>1 DEF CallsTypeOK
  <2>2. AddToDelayedList(t, (xTickCount + w) % TickLimit)
    BY <1>6, <2>1 DEF PlaceOnEventList, vTaskPlaceOnEventList
  <2>3. Finite(t) /\ WaitOK(t, exact)
    BY <1>2, <1>6 DEF TimeOK, Finite
  <2>4. w >= 1 /\ xTimeOut[t] = TimeNow
    BY <1>2, <2>1, <2>3 DEF WaitOK
  <2>5. Entered(t) = Now
    BY <2>4 DEF Entered, TimeNow, Now
  <2>6. deadline[t] <= Now + w /\ (exact => deadline[t] = Now + w)
    BY <2>1, <2>3, <2>5 DEF WaitOK
  <2>7. /\ NoTick /\ Sleeping(t)' /\ Due(t)' = Now + w
        /\ state'[t] = "delayed" => xNextTaskUnblockTime' <= wake'[t]
        /\ \A u \in Task \ {t} : UNCHANGED <<state[u], wake[u]>>
    BY <1>1, <1>2, <2>2, <2>4, AddTicksDue
  <2>8. Now' = Now /\ deadline'[t] = deadline[t] /\ call'[t] # "delay"
    BY <1>2, NowStays, CallNames DEF wait
  <2>9. Now + w > Now
    BY <1>1, <2>1, <2>4, NowType, TickTypes
  <2>10. SleepOK(t, exact)'
    BY <2>6, <2>7, <2>8, <2>9 DEF SleepOK
  <2> QED
    BY <1>3, <1>4, <2>7, <2>10 DEF TimeOK
<1> QED
  BY <1>5, <1>6

(* A task that calls vTaskDelay or vTaskDelayUntil waits for no queue.     *)
LEMMA DelayWaits ==
    ASSUME NEW exact \in BOOLEAN, NEW t \in Task, call'[t] = "delay"
    PROVE  WaitOK(t, exact)'
BY CallNames DEF WaitOK, Finite

LEMMA PlaceDelayedTime ==
    ASSUME ListInv, NEW exact \in BOOLEAN, NEW t \in Task, TimeOK(t, exact), PlaceDelayed(t)
    PROVE  TimeOK(t, exact)' /\ NoTick /\ \A u \in Task \ {t} : UNCHANGED <<state[u], wake[u]>>
<1>1. KernelTypeOK /\ CallsTypeOK /\ CallOK(t)
  BY TypesOf DEF ListInv
<1>2. /\ pc[t] = "vTaskDelay" /\ pc'[t] = "xTaskResumeAll"
      /\ UNCHANGED <<call, verdict, wait, xTickCount, xNumOfOverflows>>
      /\ call[t] = "delay" /\ verdict[t] # "failed"
  BY <1>1, CallNames DEF PlaceDelayed, Goto, CallsTypeOK, CallOK, DelaySteps
<1>3. PICK w \in Tick : w = xTicksToWait[t] /\ deadline[t] = Now + w /\ w >= 1
  BY <1>1, <1>2 DEF CallsTypeOK, TimeOK, EndOK
<1>4. AddToDelayedList(t, (xTickCount + w) % TickLimit)
  BY <1>3 DEF PlaceDelayed
<1>5. /\ NoTick /\ Sleeping(t)' /\ Due(t)' = Now + w
      /\ state'[t] = "delayed" => xNextTaskUnblockTime' <= wake'[t]
      /\ \A u \in Task \ {t} : UNCHANGED <<state[u], wake[u]>>
  BY <1>1, <1>2, <1>3, <1>4, AddTicksDue
<1>6. Now' = Now /\ deadline'[t] = deadline[t]
  BY <1>2, NowStays DEF wait
<1>7. Now + w > Now /\ Now + w <= Now + w
  <2>1. PICK now \in Nat, x \in Nat : now = Now /\ x = w /\ x >= 1
    BY <1>1, <1>3, NowType, TickTypes
  <2> QED
    BY <2>1
<1>8. SleepOK(t, exact)'
  BY <1>3, <1>5, <1>6, <1>7 DEF SleepOK
<1>9. EndOK(t)'
  BY <1>2, <1>5 DEF EndOK, Sleeping
<1> QED
  BY <1>2, <1>5, <1>8, <1>9, DelayWaits DEF TimeOK

LEMMA ModTwice ==
    ASSUME NEW L \in Nat \ {0}, NEW y \in 0 .. 2 * L, y < 2 * L
    PROVE  (y < L /\ y % L = y) \/ (y >= L /\ y % L = y - L)
OBVIOUS

(* The wake time of vTaskDelayUntil, reckoned from a time `ago' ticks ago. *)
UntilIs(c, L, ago, inc, B) ==
    \E prev, at \in 0 .. L - 1 :
        /\ prev = (c - ago) % L /\ at = (prev + inc) % L
        /\ IF (IF c < prev THEN at < prev /\ at > c ELSE at < prev \/ at > c)
           THEN /\ (IF at < c THEN B + L + at ELSE B + at) = B + c - ago + inc
                /\ B + c - ago + inc > B + c
           ELSE B + c >= B + c - ago + inc

LEMMA UntilDue ==
    ASSUME NEW c \in Nat, NEW L \in Nat \ {0}, c < L, NEW ago \in Nat, ago < L,
           NEW inc \in Nat, inc >= 1, inc < L, NEW B \in Nat, ago <= B + c
    PROVE  UntilIs(c, L, ago, inc, B)
<1>1. PICK prev \in 0 .. L - 1 :
         /\ prev = (c - ago) % L
         /\ (ago <= c /\ prev = c - ago) \/ (c < ago /\ prev = c - ago + L)
  <2>1. CASE ago <= c
    <3>1. PICK y \in 0 .. 2 * L : y = c - ago /\ y < L
      BY <2>1
    <3>2. y % L = y
      BY <3>1, ModWithin
    <3> QED
      BY <2>1, <3>1, <3>2
  <2>2. CASE c < ago
    <3>1. PICK y \in -L .. -1 : y = c - ago
      BY <2>2
    <3>2. y % L = y + L
      BY <3>1, ModBelow
    <3> QED
      BY <2>2, <3>1, <3>2
  <2> QED
    BY <2>1, <2>2
<1>2. PICK at \in 0 .. L - 1 :
         /\ at = (prev + inc) % L
         /\ (prev + inc < L /\ at = prev + inc) \/ (prev + inc >= L /\ at = prev + inc - L)
  <2>1. PICK y \in 0 .. 2 * L : y = prev + inc /\ y < 2 * L
    OBVIOUS
  <2>2. (y < L /\ y % L = y) \/ (y >= L /\ y % L = y - L)
    BY <2>1, ModTwice
  <2> QED
    BY <2>1, <2>2
<1>3. IF (IF c < prev THEN at < prev /\ at > c ELSE at < prev \/ at > c)
      THEN /\ (IF at < c THEN B + L + at ELSE B + at) = B + c - ago + inc
           /\ B + c - ago + inc > B + c
      ELSE B + c >= B + c - ago + inc
  <2>1. CASE ago <= c /\ prev = c - ago /\ prev + inc < L /\ at = prev + inc
    BY <2>1
  <2>2. CASE ago <= c /\ prev = c - ago /\ prev + inc >= L /\ at = prev + inc - L
    BY <2>2
  <2>3. CASE c < ago /\ prev = c - ago + L /\ prev + inc < L /\ at = prev + inc
    BY <2>3
  <2>4. CASE c < ago /\ prev = c - ago + L /\ prev + inc >= L /\ at = prev + inc - L
    BY <2>4
  <2> QED
    BY <1>1, <1>2, <2>1, <2>2, <2>3, <2>4
<1> QED
  BY <1>1, <1>2, <1>3 DEF UntilIs

LEMMA PlaceUntilTime ==
    ASSUME ListInv, NEW exact \in BOOLEAN, NEW t \in Task, TimeOK(t, exact), PlaceUntil(t)
    PROVE  TimeOK(t, exact)' /\ NoTick /\ \A u \in Task \ {t} : UNCHANGED <<state[u], wake[u]>>
<1>1. KernelTypeOK /\ CallsTypeOK /\ CallOK(t)
  BY TypesOf DEF ListInv
<1>2. /\ pc[t] = "vTaskDelayUntil" /\ pc'[t] = "xTaskResumeAll"
      /\ UNCHANGED <<call, verdict, xTickCount, xNumOfOverflows>>
      /\ call[t] = "delay" /\ verdict[t] # "failed" /\ state[t] = "ready"
  BY <1>1, CallNames DEF PlaceUntil, Goto, CallsTypeOK, CallOK, DelaySteps
<1>3. Now' = Now
  BY <1>2, NowStays
<1>4. PICK ago \in Tick, inc \in Delays :
         LET pxPreviousWakeTime == (xTickCount - ago) % TickLimit
             xTimeToWake == (pxPreviousWakeTime + inc) % TickLimit
         IN  /\ ago <= Now
             /\ deadline' = [deadline EXCEPT ![t] = Now - ago + inc]
             /\ IF ShouldDelay(pxPreviousWakeTime, xTimeToWake)
                THEN AddToDelayedList(t, xTimeToWake)
                ELSE UNCHANGED <<state, wake, xNextTaskUnblockTime>>
  BY DEF PlaceUntil
<1>5. PICK c \in Tick, n \in Nat, B \in Nat, L \in Nat \ {0} :
         /\ c = xTickCount /\ n = xNumOfOverflows /\ L = TickLimit /\ B = n * L /\ Now = B + c
         /\ c < L
  BY <1>1, Clock
<1>6. c \in Nat /\ ago \in Nat /\ ago < L /\ inc \in Nat /\ inc < L /\ inc >= 1
  <2>1. \A x \in Tick : x \in Nat /\ x < TickLimit
    BY TickTypes DEF Tick, TickLimit
  <2> QED
    BY <1>5, <2>1, WaitsAssumption
<1>7. PICK prev, at \in 0 .. L - 1 :
         /\ prev = (c - ago) % L /\ at = (prev + inc) % L
         /\ IF (IF c < prev THEN at < prev /\ at > c ELSE at < prev \/ at > c)
            THEN /\ (IF at < c THEN B + L + at ELSE B + at) = B + c - ago + inc
                 /\ B + c - ago + inc > B + c
            ELSE B + c >= B + c - ago + inc
  <2>1. ago <= B + c
    BY <1>4, <1>5
  <2>2. UntilIs(c, L, ago, inc, B)
    BY <1>5, <1>6, <2>1, UntilDue
  <2> QED
    BY <2>2 DEF UntilIs
<1>8. /\ deadline'[t] = B + c - ago + inc
      /\ IF (IF c < prev THEN at < prev /\ at > c ELSE at < prev \/ at > c)
         THEN AddToDelayedList(t, at)
         ELSE UNCHANGED <<state, wake, xNextTaskUnblockTime>>
  <2>1. (xTickCount - ago) % TickLimit = prev /\ (prev + inc) % TickLimit = at
    BY <1>5, <1>7
  <2>2. deadline' = [deadline EXCEPT ![t] = Now - ago + inc]
    BY <1>4
  <2>3. IF ShouldDelay(prev, at) THEN AddToDelayedList(t, at)
                                 ELSE UNCHANGED <<state, wake, xNextTaskUnblockTime>>
    BY <1>4, <2>1
  <2>4. deadline'[t] = Now - ago + inc
    BY <1>1, <2>2 DEF CallsTypeOK
  <2>5. deadline'[t] = B + c - ago + inc
    <3>1. Now = B + c
      BY <1>5
    <3> QED
      BY <1>6, <2>4, <3>1
  <2> QED
    BY <1>5, <2>3, <2>5 DEF ShouldDelay
<1>9. CASE IF c < prev THEN at < prev /\ at > c ELSE at < prev \/ at > c
  <2>1. at \in Tick /\ AddToDelayedList(t, at)
    <3>1. \A x \in 0 .. TickLimit - 1 : x \in Tick
      BY TickTypes DEF Tick, TickLimit
    <3> QED
      BY <1>5, <1>8, <1>9, <3>1
  <2>2. /\ NoTick /\ Sleeping(t)'
        /\ state'[t] = "delayed" => xNextTaskUnblockTime' <= wake'[t]
        /\ Due(t)' = IF at < c THEN B + L + at ELSE B + at
        /\ \A u \in Task \ {t} : UNCHANGED <<state[u], wake[u]>>
    BY <1>1, <1>2, <1>5, <2>1, AddDue
  <2>3. Due(t)' = deadline'[t] /\ Due(t)' > Now' /\ deadline'[t] <= Due(t)'
    BY <1>3, <1>5, <1>6, <1>7, <1>8, <1>9, <2>2
  <2>4. SleepOK(t, exact)' /\ EndOK(t)'
    BY <1>2, <2>2, <2>3 DEF SleepOK, EndOK, Sleeping
  <2> QED
    BY <1>2, <2>2, <2>4, DelayWaits DEF TimeOK
<1>10. CASE ~ (IF c < prev THEN at < prev /\ at > c ELSE at < prev \/ at > c)
  <2>1. UNCHANGED <<state, wake, xNextTaskUnblockTime>>
    BY <1>8, <1>10
  <2>2. NoTick
    BY <1>1, <1>2, <2>1, NoTickTrivial
  <2>3. Now' >= deadline'[t]
    BY <1>3, <1>5, <1>7, <1>8, <1>10
  <2>4. SleepOK(t, exact)' /\ EndOK(t)'
    BY <1>2, <2>1, <2>3 DEF SleepOK, EndOK, Sleeping
  <2> QED
    BY <1>2, <2>1, <2>2, <2>4, DelayWaits DEF TimeOK
<1> QED
  BY <1>9, <1>10

-----------------------------------------------------------------------------
(* All tasks at once. *)

(* A task is woken by the queue. *)
LEMMA WakeRests ==
    ASSUME ListInv, NEW l \in {"send", "receive"}, WakeOne(l), NEW u \in Task
    PROVE  Rests(u)
<1>1. KernelTypeOK /\ CallOK(u)
  BY TypesOf DEF ListInv
<1>2. CASE UNCHANGED lists
  BY <1>2 DEF Rests, lists
<1>3. ASSUME NEW t \in Waiting(l), xTaskRemoveFromEventList(t) PROVE Rests(u)
  <2>1. CASE u = t
    <3>1. call[u] # "delay"
      BY <1>1, <1>3, <2>1, CallNames DEF Waiting, CallOK
    <3> QED
      BY <1>1, <1>3, <2>1, <3>1 DEF Rests, xTaskRemoveFromEventList, KernelTypeOK
  <2>2. CASE u # t
    BY <1>1, <1>3, <2>2 DEF Rests, xTaskRemoveFromEventList, KernelTypeOK, Waiting
  <2> QED
    BY <2>1, <2>2
<1> QED
  BY <1>2, <1>3 DEF WakeOne

LEMMA HandlerTime ==
    ASSUME NEW exact \in BOOLEAN, TimeInv(exact), xQueueGenericSendFromISR \/ xQueueReceiveFromISR \/ SysTick, NEW u \in Task
    PROVE  TimeOK(u, exact)'
<1>1. ListInv /\ TimeOK(u, exact) /\ KernelTypeOK
  BY TypesOf DEF TimeInv
<1>2. Stays(u)
  BY DEF xQueueGenericSendFromISR, xQueueReceiveFromISR, SysTick, callers, wait, Stays
<1>3. CASE UNCHANGED <<xTickCount, xNumOfOverflows, xNextTaskUnblockTime, lists>>
  BY <1>1, <1>2, <1>3, NoTickTrivial, TimeRests DEF Rests, lists
<1>4. CASE (\E l \in {"send", "receive"} : WakeOne(l)) /\ UNCHANGED ticks
  BY <1>1, <1>2, <1>4, WakeRests, NoTickTrivial, TimeRests DEF ticks
<1>5. CASE CountTick /\ ~ uxSchedulerSuspended
  BY <1>1, <1>2, <1>5, TimeTicks
<1> QED
  BY <1>3, <1>4, <1>5 DEF xQueueGenericSendFromISR, xQueueReceiveFromISR, SysTick, TellOrCount,
                          xTaskIncrementTick, ticks

LEMMA OthersTime ==
    ASSUME NEW exact \in BOOLEAN, TimeInv(exact), NEW t \in Task, Step(t), NEW u \in Task \ {t}
    PROVE  TimeOK(u, exact)'
<1>1. ListInv /\ TimeOK(u, exact) /\ KernelTypeOK /\ CallsTypeOK /\ CallOK(u)
  BY TypesOf DEF TimeInv, ListInv
<1>2. Stays(u)
  <2>1. CASE Send(t) \/ Receive(t) \/ Peek(t) \/ Awake(t)
    BY <1>1, <2>1 DEF Send, Receive, Peek, Awake, Return, Goto, CallsTypeOK, Stays
  <2>2. CASE PrepareToBlock(t)
    <3>1. UNCHANGED <<pc[u], verdict[u], call[u]>>
      BY <1>1, <2>2 DEF PrepareToBlock, Goto, CallsTypeOK
    <3>2. UNCHANGED <<xTicksToWait[u], xTimeOut[u], deadline[u]>>
      BY <1>1, <2>2 DEF PrepareToBlock, CallsTypeOK, wait
    <3> QED
      BY <3>1, <3>2 DEF Stays
  <2>3. CASE vTaskSuspendAll(t) \/ prvLockQueue(t) \/ prvIsQueue(t) \/ PlaceOnEventList(t)
             \/ prvUnlockTx(t) \/ prvUnlockRx(t) \/ xTaskResumeAll(t) \/ PlaceDelayed(t)
    BY <1>1, <2>3 DEF vTaskSuspendAll, prvLockQueue, prvIsQueue, PlaceOnEventList, prvUnlockTx,
                      prvUnlockRx, xTaskResumeAll, PlaceDelayed, Goto, CallsTypeOK, wait, Stays
  <2>4. CASE xTaskCheckForTimeOut(t)
    <3>1. UNCHANGED <<pc[u], verdict[u], call[u], deadline[u]>>
      BY <1>1, <2>4 DEF xTaskCheckForTimeOut, Goto, CallsTypeOK
    <3>2. UNCHANGED <<xTicksToWait[u], xTimeOut[u]>>
      BY <1>1, <2>4 DEF xTaskCheckForTimeOut, CallsTypeOK
    <3> QED
      BY <3>1, <3>2 DEF Stays
  <2>5. CASE UnwindTick(t) \/ Resume(t)
    BY <2>5 DEF UnwindTick, Resume, callers, wait, Stays
  <2>6. CASE Resumed(t)
    BY <1>1, <2>6 DEF Resumed, Return, Goto, CallsTypeOK, wait, Stays
  <2>7. CASE Delay(t) \/ DelayUntil(t) \/ PlaceUntil(t)
    BY <1>1, <2>7 DEF Delay, DelayUntil, PlaceUntil, Goto, CallsTypeOK, wait, Stays
  <2>8. CASE SuspendItself(t) \/ vTaskSwitchContext(t)
    BY <1>1, <2>8 DEF SuspendItself, vTaskSwitchContext, Goto, CallsTypeOK, wait, Stays
  <2> QED
    BY <2>1, <2>2, <2>3, <2>4, <2>5, <2>6, <2>7, <2>8 DEF Step
<1>3. ASSUME NoTick, UNCHANGED <<state[u], wake[u]>> PROVE TimeOK(u, exact)'
  BY <1>1, <1>2, <1>3, TimeRests DEF Rests
<1>4. CASE UNCHANGED <<ticks, state, wake>>
  BY <1>1, <1>3, <1>4, NoTickTrivial DEF ticks
<1>5. CASE Send(t) \/ Receive(t) \/ Peek(t)
  <2>1. (\E l \in {"send", "receive"} : WakeOne(l)) /\ UNCHANGED ticks
    BY <1>5 DEF Send, Receive, Peek
  <2> QED
    BY <1>1, <1>2, <2>1, WakeRests, NoTickTrivial, TimeRests DEF ticks
<1>6. CASE PlaceOnEventList(t) \/ PlaceDelayed(t) \/ PlaceUntil(t)
  <2>1. TimeOK(t, exact)
    BY DEF TimeInv
  <2> QED
    BY <1>1, <1>3, <1>6, <2>1, PlaceTime, PlaceDelayedTime, PlaceUntilTime
<1>7. CASE xTaskResumeAll(t)
  <2>1. UNCHANGED ticks /\ ReadyPending
    BY <1>7 DEF xTaskResumeAll
  <2>2. Rests(u)
    BY <1>1, <2>1, CallNames DEF ReadyPending, Rests, KernelTypeOK, CallOK
  <2> QED
    BY <1>1, <1>2, <2>1, <2>2, NoTickTrivial, TimeRests DEF ticks
<1>8. CASE UnwindTick(t)
  <2>1. CountTick /\ ~ uxSchedulerSuspended
    BY <1>8 DEF UnwindTick, CountPendedTick, TimeInv, ListInv, HolderOK
  <2> QED
    BY <1>1, <1>2, <2>1, TimeTicks
<1>9. CASE SuspendItself(t) \/ Resume(t)
  <2>1. UNCHANGED <<ticks, state[u], wake[u]>>
    BY <1>1, <1>9 DEF SuspendItself, Resume, Suspend, vTaskResume, KernelTypeOK
  <2> QED
    BY <1>1, <1>3, <2>1, NoTickTrivial DEF ticks
<1>10. CASE Step(t) /\ ~ (Send(t) \/ Receive(t) \/ Peek(t) \/ PlaceOnEventList(t) \/ PlaceDelayed(t)
            \/ PlaceUntil(t) \/ xTaskResumeAll(t) \/ UnwindTick(t) \/ SuspendItself(t) \/ Resume(t))
  BY <1>4, <1>10 DEF Step, PrepareToBlock, vTaskSuspendAll, prvLockQueue, xTaskCheckForTimeOut,
       prvIsQueue, prvUnlockTx, prvUnlockRx, Resumed, Delay, DelayUntil, Awake,
       vTaskSwitchContext, kernel, lists
<1> QED
  BY <1>5, <1>6, <1>7, <1>8, <1>9, <1>10

(* The task that takes the step. *)
LEMMA ActorTime ==
    ASSUME NEW exact \in BOOLEAN, TimeInv(exact), NEW t \in Task, Step(t),
           exact => LooksInTime
    PROVE  TimeOK(t, exact)'
<1>1. ListInv /\ TicksBound /\ TimeOK(t, exact) /\ KernelTypeOK /\ CallsTypeOK /\ CallOK(t)
  BY TypesOf DEF TimeInv, ListInv
<1>2. CASE Send(t) \/ Receive(t) \/ Peek(t)
  <2>1. Return(t) /\ state[t] = "ready" /\ \E l \in {"send", "receive"} : WakeOne(l)
    BY <1>2 DEF Send, Receive, Peek, Tries, Runs
  <2>2. event[t] = "none"
    BY <1>1, <2>1 DEF CallOK
  <2>3. state'[t] = "ready"
    BY <1>1, <2>1, <2>2 DEF WakeOne, lists, xTaskRemoveFromEventList, Waiting, KernelTypeOK
  <2> QED
    BY <1>1, <2>1, <2>3, ReturnTime
<1>3. CASE PrepareToBlock(t)
  BY <1>1, <1>3, PrepareTime
<1>4. CASE vTaskSuspendAll(t) \/ prvLockQueue(t)
  <2>1. /\ UNCHANGED <<ticks, lists, call, verdict, wait>>
        /\ pc'[t] \in {"prvLockQueue", "xTaskCheckForTimeOut"}
    BY <1>1, <1>4 DEF vTaskSuspendAll, prvLockQueue, Goto, CallsTypeOK, kernel
  <2>2. NoTick /\ Now' = Now
    BY <1>1, <2>1, NoTickTrivial, NowStays DEF ticks
  <2>3. SleepOK(t, exact)'
    BY <1>1, <2>1, <2>2, SleepRests DEF Rests, lists, wait, TimeOK
  <2>4. UNCHANGED <<Finite(t), Entered(t)>>
    BY <2>1 DEF Finite, Entered, wait
  <2>5. WaitOK(t, exact)'
    BY <1>1, <2>1, <2>4 DEF TimeOK, WaitOK, wait, ticks
  <2>6. EndOK(t)'
    BY <1>1, <2>1, <2>2 DEF TimeOK, EndOK, wait, EndSteps
  <2> QED
    BY <2>3, <2>5, <2>6 DEF TimeOK
<1>5. CASE xTaskCheckForTimeOut(t)
  BY <1>1, <1>5, CheckTime
<1>6. CASE prvIsQueue(t)
  <2>1. /\ UNCHANGED <<kernel, call, wait>> /\ verdict'[t] # "failed"
        /\ pc[t] = "prvIsQueue" /\ pc'[t] \in {"vTaskPlaceOnEventList", "prvUnlockTx"}
    BY <1>1, <1>6 DEF prvIsQueue, Goto, CallsTypeOK
  <2>2. NoTick /\ Now' = Now /\ TimeNow' = TimeNow
    BY <1>1, <2>1, NoTickTrivial, NowStays DEF ticks, kernel
  <2>3. SleepOK(t, exact)'
    BY <1>1, <2>1, <2>2, SleepRests DEF Rests, lists, kernel, wait, TimeOK
  <2>4. UNCHANGED <<Finite(t), Entered(t)>>
    BY <2>1 DEF Finite, Entered, wait
  <2>5. WaitOK(t, exact)'
    BY <1>1, <2>1, <2>2, <2>4 DEF TimeOK, WaitOK, wait, ticks, kernel
  <2>6. EndOK(t)'
    BY <2>1 DEF EndOK, EndSteps
  <2> QED
    BY <2>3, <2>5, <2>6 DEF TimeOK
<1>7. CASE PlaceOnEventList(t) \/ PlaceDelayed(t) \/ PlaceUntil(t)
  BY <1>1, <1>7, PlaceTime, PlaceDelayedTime, PlaceUntilTime
<1>8. CASE prvUnlockTx(t) \/ prvUnlockRx(t) \/ xTaskResumeAll(t)
  <2>1. /\ UNCHANGED <<ticks, call, verdict, wait>>
        /\ pc[t] \in UnlockSteps \cup {"xTaskResumeAll"}
        /\ pc'[t] \in {"prvUnlockRx", "xTaskResumeAll", "ticks"}
    BY <1>1, <1>8 DEF prvUnlockTx, prvUnlockRx, xTaskResumeAll, Goto, CallsTypeOK, UnlockSteps
  <2>2. NoTick /\ Now' = Now
    BY <1>1, <2>1, NoTickTrivial, NowStays DEF ticks
  <2>3. Rests(t) /\ (call[t] = "delay" => state'[t] = state[t])
    BY <1>1, <1>8, CallNames
       DEF prvUnlockTx, prvUnlockRx, xTaskResumeAll, ReadyPending, Rests, KernelTypeOK, CallOK
  <2>4. SleepOK(t, exact)'
    BY <1>1, <2>1, <2>2, <2>3, SleepRests DEF wait, TimeOK
  <2>5. UNCHANGED <<Finite(t), Entered(t)>>
    BY <2>1 DEF Finite, Entered, wait
  <2>6. WaitOK(t, exact)'
    BY <1>1, <2>1, <2>5 DEF TimeOK, WaitOK, wait, ticks
  <2>7. pc[t] \in UnlockSteps => call[t] # "delay"
    BY <1>1, CallNames DEF CallOK
  <2>8. EndOK(t)'
    BY <1>1, <2>1, <2>2, <2>3, <2>7 DEF TimeOK, EndOK, wait, EndSteps
  <2> QED
    BY <2>4, <2>6, <2>8 DEF TimeOK
<1>9. CASE UnwindTick(t)
  <2>1. CountTick /\ ~ uxSchedulerSuspended /\ Stays(t)
    BY <1>1, <1>9 DEF UnwindTick, CountPendedTick, ListInv, HolderOK, callers, wait, Stays
  <2> QED
    BY <1>1, <2>1, TimeTicks
<1>10. CASE Resumed(t)
  <2>1. UNCHANGED kernel /\ pc[t] = "ticks"
    BY <1>10 DEF Resumed
  <2>2. NoTick /\ Now' = Now
    BY <1>1, <2>1, NoTickTrivial, NowStays DEF ticks, kernel
  <2>3. CASE Return(t)
    <3>1. state[t] = "ready"
      BY <1>1, <1>10, <2>3, CallNames DEF Resumed, Return, Goto, CallsTypeOK, CallOK
    <3> QED
      BY <1>1, <2>1, <2>3, <3>1, ReturnTime DEF kernel, lists
  <2>4. CASE /\ UNCHANGED <<call, wait>> /\ verdict'[t] \in {"none", verdict[t]}
             /\ \/ pc'[t] = "try" /\ call[t] # "delay"
                \/ pc'[t] = "asleep"
    <3>1. SleepOK(t, exact)'
      BY <1>1, <2>1, <2>2, <2>4, SleepRests DEF Rests, lists, kernel, wait, TimeOK
    <3>2. UNCHANGED <<Finite(t), Entered(t)>>
      BY <2>4 DEF Finite, Entered, wait
    <3>3. WaitOK(t, exact)'
      BY <1>1, <2>1, <2>4, <3>2 DEF TimeOK, WaitOK, wait, ticks, kernel
    <3>4. EndOK(t)'
      BY <1>1, <2>1, <2>2, <2>4 DEF TimeOK, EndOK, wait, lists, kernel, EndSteps
    <3> QED
      BY <3>1, <3>3, <3>4 DEF TimeOK
  <2> QED
    BY <1>1, <1>10, <2>3, <2>4, CallNames DEF Resumed, Goto, CallsTypeOK, CallOK
<1>11. CASE Delay(t)
  <2>1. /\ pc[t] = "idle" /\ pc'[t] = "vTaskDelay" /\ call'[t] = "delay" /\ UNCHANGED <<ticks, lists, verdict>>
        /\ state[t] = "ready"
    BY <1>1, <1>11 DEF Delay, Goto, CallsTypeOK, Runs
  <2>2. verdict[t] # "failed"
    BY <1>1, <2>1 DEF CallOK
  <2>3. PICK d \in Delays : xTicksToWait'[t] = d /\ deadline'[t] = Now + d
    BY <1>1, <1>11 DEF Delay, CallsTypeOK
  <2>4. Now' = Now
    BY <2>1, NowStays DEF ticks
  <2>5. d \in Tick /\ d # 0
    BY WaitsAssumption
  <2>6. d >= 1
    BY <2>5, TickAssumption DEF Tick
  <2>7. SleepOK(t, exact)' /\ EndOK(t)'
    BY <2>1, <2>2, <2>3, <2>4, <2>6 DEF SleepOK, Sleeping, lists, EndOK, EndSteps
  <2> QED
    BY <2>1, <2>7, DelayWaits DEF TimeOK
<1>12. CASE DelayUntil(t)
  <2>1. /\ pc[t] = "idle" /\ pc'[t] = "vTaskDelayUntil" /\ call'[t] = "delay" /\ UNCHANGED <<lists, verdict>>
        /\ state[t] = "ready"
    BY <1>1, <1>12 DEF DelayUntil, Goto, CallsTypeOK, Runs
  <2>2. verdict[t] # "failed"
    BY <1>1, <2>1 DEF CallOK
  <2>3. SleepOK(t, exact)' /\ EndOK(t)'
    BY <2>1, <2>2 DEF SleepOK, Sleeping, lists, EndOK, EndSteps
  <2> QED
    BY <2>1, <2>3, DelayWaits DEF TimeOK
<1>13. CASE Awake(t)
  BY <1>1, <1>13, ReturnTime DEF Awake, Runs, kernel, lists
<1>14. CASE SuspendItself(t) \/ vTaskSwitchContext(t)
  <2>1. /\ call'[t] = "none" /\ verdict'[t] = "none" /\ pc'[t] \in {"idle", "vTaskSuspend"}
        /\ ~ Sleeping(t)'
    BY <1>1, <1>14 DEF SuspendItself, vTaskSwitchContext, Suspend, Goto, CallOK, KernelTypeOK,
                       CallsTypeOK, Sleeping, kernel, lists
  <2> QED
    BY <2>1, CallNames DEF TimeOK, WaitOK, SleepOK, EndOK, Finite, EndSteps
<1>15. CASE Resume(t)
  <2>1. state'[t] = "ready" /\ UNCHANGED <<ticks, callers, wake>>
    BY <1>1, <1>15 DEF Resume, vTaskResume, KernelTypeOK
  <2>2. Stays(t)
    BY <2>1 DEF Stays, callers, wait
  <2>3. pc[t] = "idle"
    BY <1>1, <1>15 DEF Resume, vTaskResume, xTaskIsTaskSuspended, Leaving, CallOK
  <2>4. Rests(t)
    BY <1>1, <2>1, <2>3, CallNames DEF Rests, CallOK
  <2> QED
    BY <1>1, <2>1, <2>2, <2>4, NoTickTrivial, TimeRests DEF ticks
<1> QED
  BY <1>2, <1>3, <1>4, <1>5, <1>6, <1>7, <1>8, <1>9, <1>10, <1>11, <1>12, <1>13, <1>14,
     <1>15 DEF Step

LEMMA BoundKept ==
    ASSUME TypeOK, TicksBound, [Next]_vars
    PROVE  TicksBound'
<1>1. KernelTypeOK
  BY TypeParts
<1>2. PICK now, pended, max \in Nat :
         now = Now /\ pended = uxPendedTicks /\ max = MaxTicks /\ now + pended <= max
  BY <1>1, NowType, TickAssumption DEF KernelTypeOK, TicksBound
<1>3. CASE UNCHANGED ticks
  BY <1>3 DEF ticks, TicksBound, Now
<1>4. CASE CountTick /\ now + pended < max /\ uxPendedTicks' = pended
  <2>1. Now' = now + 1
    BY <1>1, <1>2, <1>4, TickCounts
  <2> QED
    BY <1>2, <1>4, <2>1 DEF TicksBound
<1>5. CASE CountTick /\ pended > 0 /\ uxPendedTicks' = pended - 1
  <2>1. Now' = now + 1
    BY <1>1, <1>2, <1>5, TickCounts
  <2> QED
    BY <1>2, <1>5, <2>1 DEF TicksBound
<1>6. CASE UNCHANGED <<xTickCount, xNumOfOverflows>> /\ now + pended < max /\ uxPendedTicks' = pended + 1
  <2>1. Now' = now
    BY <1>2, <1>6, NowStays
  <2> QED
    BY <1>2, <1>6, <2>1 DEF TicksBound
<1>7. CASE UNCHANGED <<xTickCount, xNumOfOverflows, uxPendedTicks>>
  BY <1>7, NowStays DEF TicksBound
<1>8. CASE SysTick
  BY <1>2, <1>4, <1>6, <1>8 DEF SysTick, xTaskIncrementTick
<1>9. ASSUME NEW t \in Task, UnwindTick(t) PROVE TicksBound'
  BY <1>2, <1>5, <1>9 DEF UnwindTick, CountPendedTick
<1>10. CASE UNCHANGED vars \/ xQueueGenericSendFromISR \/ xQueueReceiveFromISR
  BY <1>3, <1>10 DEF vars, kernel, xQueueGenericSendFromISR, xQueueReceiveFromISR
<1>11. ASSUME NEW t \in Task, Step(t), ~ UnwindTick(t) PROVE TicksBound'
  BY <1>3, <1>7, <1>11
     DEF Step, Send, Receive, Peek, PrepareToBlock, vTaskSuspendAll, prvLockQueue,
         xTaskCheckForTimeOut, prvIsQueue, PlaceOnEventList, prvUnlockTx, prvUnlockRx,
         xTaskResumeAll, Resumed, Delay, PlaceDelayed, DelayUntil, PlaceUntil, Awake,
         SuspendItself, vTaskSwitchContext, Resume, Suspend, vTaskResume, kernel
<1> QED
  BY <1>8, <1>9, <1>10, <1>11 DEF Next

LEMMA TimeStarts ==
    ASSUME NEW exact \in BOOLEAN, Init
    PROVE  TicksBound /\ \A t \in Task : TimeOK(t, exact)
<1>1. Now = 0 /\ uxPendedTicks = 0
  BY TickTypes DEF Init, KernelInit, Now
<1>2. TicksBound
  BY <1>1, TickAssumption DEF TicksBound
<1>3. \A t \in Task : TimeOK(t, exact)
  BY CallNames DEF Init, KernelInit, TimeOK, WaitOK, SleepOK, EndOK, Finite, Sleeping, EndSteps
<1> QED
  BY <1>2, <1>3

LEMMA TimeKept ==
    ASSUME NEW exact \in BOOLEAN, TimeInv(exact), exact => LooksInTime, [Next]_vars
    PROVE  TicksBound' /\ \A t \in Task : TimeOK(t, exact)'
<1>1. TicksBound'
  BY BoundKept DEF TimeInv, ListInv
<1>2. CASE UNCHANGED vars
  <2>1. ASSUME NEW u \in Task PROVE TimeOK(u, exact)'
    <3>1. ListInv /\ TimeOK(u, exact) /\ KernelTypeOK
      BY TypesOf DEF TimeInv
    <3>2. Stays(u) /\ Rests(u) /\ UNCHANGED <<xTickCount, xNumOfOverflows, xNextTaskUnblockTime>>
      BY <1>2 DEF vars, kernel, ticks, lists, callers, wait, Stays, Rests
    <3> QED
      BY <3>1, <3>2, NoTickTrivial, TimeRests
  <2> QED
    BY <1>1, <2>1
<1>3. CASE xQueueGenericSendFromISR \/ xQueueReceiveFromISR \/ SysTick
  BY <1>1, <1>3, HandlerTime
<1>4. ASSUME NEW t \in Task, Step(t) PROVE \A u \in Task : TimeOK(u, exact)'
  BY <1>4, OthersTime, ActorTime
<1> QED
  BY <1>1, <1>2, <1>3, <1>4 DEF Next

TimesOK == TicksBound /\ \A t \in Task : TimeOK(t, FALSE)
ExactOK == TicksBound /\ \A t \in Task : TimeOK(t, TRUE)

LEMMA TimeInvariant == Spec => []TimesOK
<1>1. Init => TimesOK
  BY TimeStarts DEF TimesOK
<1>2. TypeOK /\ (HolderOK /\ \A t \in Task : CallOK(t)) /\ TimesOK /\ [Next]_vars => TimesOK'
  BY TimeKept DEF TimesOK, TimeInv, ListInv
<1> QED
  BY <1>1, <1>2, TypeCorrect, ListsInvariant, PTL DEF Spec

LEMMA ExactInvariant == Spec /\ []LooksInTime => []ExactOK
<1>1. Init => ExactOK
  BY TimeStarts DEF ExactOK
<1>2. TypeOK /\ (HolderOK /\ \A t \in Task : CallOK(t)) /\ ExactOK /\ LooksInTime /\ [Next]_vars
         => ExactOK'
  BY TimeKept DEF ExactOK, TimeInv, ListInv
<1> QED
  BY <1>1, <1>2, TypeCorrect, ListsInvariant, PTL DEF Spec

(* No queue call fails and no delay ends before as many ticks were counted *)
(* as were asked for (xTaskCheckForTimeOut, xTaskIncrementTick), however   *)
(* often the tick count overflows.                                         *)
THEOREM NeverEarly == Spec => []NotBeforeDeadline
<1>1. (\A t \in Task : CallOK(t)) /\ TimesOK => NotBeforeDeadline
  BY DEF TimesOK, TimeOK, EndOK, CallOK, NotBeforeDeadline, EndSteps, DelaySteps
<1> QED
  BY <1>1, TimeInvariant, ListsInvariant, PTL

(* A task sleeps until its deadline and no longer, and the kernel looks    *)
(* for it in time (prvAddCurrentTaskToDelayedList, xTaskIncrementTick).    *)
(* The wait of a queue call, which may be cut and taken up again           *)
(* (xTaskCheckForTimeOut), is exact as long as every task looks at its     *)
(* timeout before the tick count has overflowed twice.                     *)
THEOREM SleepIsExact == Spec /\ []LooksInTime => []WakesOnTime
<1>1. ExactOK => WakesOnTime
  BY DEF ExactOK, TimeOK, SleepOK, Sleeping, WakesOnTime
<1> QED
  BY <1>1, ExactInvariant, PTL

(* A system that runs for less than two turns of the tick count looks in   *)
(* time whatever its tasks do: with 32-bit ticks of 1 ms, for 99 days.     *)
COROLLARY ExactForTwoTurns ==
    ASSUME MaxTicks < 2 * TickLimit
    PROVE  Spec => []WakesOnTime
<1>1. TypeOK /\ TimesOK => LooksInTime
  <2> SUFFICES ASSUME TypeOK, TimesOK, NEW t \in Task PROVE
                 xNumOfOverflows <= xTimeOut[t].xOverflowCount + 1
    BY DEF LooksInTime
  <2>1. KernelTypeOK /\ CallsTypeOK
    BY DEF TypeOK, CallsTypeOK
  <2>2. PICK c \in Tick, n \in Nat, B \in Nat, L \in Nat \ {0} :
           /\ c = xTickCount /\ n = xNumOfOverflows /\ L = TickLimit
           /\ B = n * L /\ Now = B + c
    BY <2>1, Clock
  <2>3. c \in Nat
    BY TickTypes
  <2>4. PICK p \in Nat, m \in Nat : p = uxPendedTicks /\ m = MaxTicks /\ B + c + p <= m
    BY <2>1, <2>2, TickTypes DEF KernelTypeOK, TimesOK, TicksBound
  <2>5. n < 2
    <3>1. SUFFICES ASSUME 1 < n PROVE FALSE
      OBVIOUS
    <3>2. 1 * L + L <= n * L
      BY <3>1, EarlierTurn
    <3> QED
      BY <2>2, <2>3, <2>4, <3>2
  <2>6. PICK o \in Nat : o = xTimeOut[t].xOverflowCount
    BY <2>1 DEF CallsTypeOK
  <2> QED
    BY <2>2, <2>5, <2>6
<1> QED
  BY <1>1, TypeCorrect, TimeInvariant, SleepIsExact, PTL

-----------------------------------------------------------------------------
(* The waiters. *)

(* The steps from which a task surely tries the queue again. *)
SureSteps == {"try"} \cup UnlockSteps \cup EndSteps

Sure(l) == {t \in Coming(l) : pc[t] \in SureSteps}

(* What the tasks in the list l wait for: messages, or free slots. *)
There(l) == IF l = "receive" THEN uxMessagesWaiting ELSE uxLength - uxMessagesWaiting

LockOf(l) == IF l = "receive" THEN xTxLock ELSE xRxLock

(* The steps a task takes with the queue locked, up to where it waits. *)
LockSteps == {"xTaskCheckForTimeOut", "prvIsQueue", "vTaskPlaceOnEventList"}

(* While a task is about to wait the queue is locked, and all that came to *)
(* the queue since it looked is in the count of the lock.                  *)
LockedInv ==
    \A t \in Task : pc[t] \in LockSteps =>
        xTxLock # queueUNLOCKED /\ xRxLock # queueUNLOCKED

PlacedInv ==
    \A l \in {"send", "receive"}, t \in Task :
        pc[t] = "vTaskPlaceOnEventList" /\ List(call[t]) = l => There(l) <= Locked(LockOf(l))

(* A task that only may come, since it looks at the clock and the queue    *)
(* once more, is not relied on.                                            *)
ServedInv ==
    \A l \in {"send", "receive"} : Waiting(l) # {} =>
        There(l) <= Cardinality(Sure(l)) + Locked(LockOf(l))

LEMMA TaskSets ==
    \A S : S \subseteq Task => IsFiniteSet(S) /\ Cardinality(S) \in Nat
<1>1. ASSUME NEW S, S \subseteq Task PROVE IsFiniteSet(S) /\ Cardinality(S) \in Nat
  <2>1. IsFiniteSet(S)
    BY <1>1, TaskAssumption, FS_Subset
  <2> QED
    BY <2>1, FS_CardinalityType
<1> QED
  BY <1>1

LEMMA Grows ==
    ASSUME NEW S, NEW T, S \subseteq T, T \subseteq Task
    PROVE  Cardinality(S) \in Nat /\ Cardinality(T) \in Nat /\ Cardinality(S) <= Cardinality(T)
<1>1. IsFiniteSet(T) /\ S \subseteq Task
  BY TaskSets
<1>2. Cardinality(S) <= Cardinality(T)
  BY <1>1, FS_Subset
<1> QED
  BY <1>1, <1>2, TaskSets

LEMMA GrowsBy ==
    ASSUME NEW S, NEW T, S \subseteq T, T \subseteq Task, NEW x \in T \ S
    PROVE  Cardinality(S) \in Nat /\ Cardinality(T) \in Nat /\ Cardinality(S) + 1 <= Cardinality(T)
<1>1. IsFiniteSet(S) /\ S \cup {x} \subseteq T /\ x \notin S
  BY TaskSets
<1>2. Cardinality(S \cup {x}) = Cardinality(S) + 1
  BY <1>1, FS_AddElement
<1>3. Cardinality(S \cup {x}) <= Cardinality(T)
  BY <1>1, Grows
<1> QED
  BY <1>2, <1>3, TaskSets

LEMMA ShrinksBy ==
    ASSUME NEW S, NEW T, NEW x, S \ {x} \subseteq T, S \subseteq Task, T \subseteq Task
    PROVE  Cardinality(S) \in Nat /\ Cardinality(T) \in Nat /\ Cardinality(S) - 1 <= Cardinality(T)
<1>1. IsFiniteSet(S) /\ Cardinality(S) \in Nat
  BY TaskSets
<1>2. Cardinality(S \ {x}) = IF x \in S THEN Cardinality(S) - 1 ELSE Cardinality(S)
  BY <1>1, FS_RemoveElement
<1>3. Cardinality(S \ {x}) <= Cardinality(T) /\ Cardinality(T) \in Nat
  BY Grows
<1> QED
  BY <1>1, <1>2, <1>3

LEMMA WaitTypes ==
    ASSUME TypeOK, NEW l \in {"send", "receive"}
    PROVE  There(l) \in Nat /\ Locked(LockOf(l)) \in Nat
<1>1. /\ uxLength \in Nat /\ uxMessagesWaiting \in 0 .. uxLength
      /\ xTxLock \in queueUNLOCKED .. MaxLocked /\ xRxLock \in queueUNLOCKED .. MaxLocked
  BY StorageAssumption DEF TypeOK, StorageTypeOK
<1>2. There(l) \in Nat
  BY <1>1 DEF There
<1>3. MaxLocked \in Nat
  BY WaitsAssumption
<1> QED
  BY <1>1, <1>2, <1>3 DEF Locked, LockOf, queueUNLOCKED, queueLOCKED_UNMODIFIED

LEMMA SureInTask == \A l : Sure(l) \subseteq Task /\ Sure(l)' \subseteq Task
BY DEF Sure, Coming

-----------------------------------------------------------------------------
(* A task that takes no step itself goes on coming, and does not wait      *)
(* because of it.                                                          *)
LEMMA SureMoves ==
    ASSUME ListInv, NEW u \in Task, NEW l \in {"send", "receive"}, Moved(u),
           UNCHANGED <<pc[u], call[u], verdict[u]>>
    PROVE  (u \in Sure(l) => u \in Sure(l)') /\ (u \in Waiting(l)' => u \in Waiting(l))
<1>1. CallOK(u)
  BY DEF ListInv
<1> QED
  BY <1>1 DEF Moved, Sure, Coming, Waiting

(* One that is woken comes. *)
LEMMA WokenIsSure ==
    ASSUME ListInv, NEW l \in {"send", "receive"}, NEW u \in Waiting(l),
           UNCHANGED <<pc[u], call[u], verdict[u]>>, event'[u] \in {"none", "pending"}
    PROVE  u \notin Sure(l) /\ u \in Sure(l)'
<1>1. u \in Task /\ event[u] = l /\ CallOK(u)
  BY DEF Waiting, ListInv
<1>2. call[u] \in Calls /\ List(call[u]) = l /\ pc[u] \in SureSteps /\ verdict[u] # "failed"
  BY <1>1 DEF CallOK, SureSteps
<1> QED
  BY <1>1, <1>2 DEF Sure, Coming

LEMMA WakeBrings ==
    ASSUME ListInv, NEW l \in {"send", "receive"}, WakeOne(l), Waiting(l) # {},
           \A u \in Waiting(l) : UNCHANGED <<pc[u], call[u], verdict[u]>>
    PROVE  \E u \in Waiting(l) : u \notin Sure(l) /\ u \in Sure(l)'
<1>1. PICK u \in Waiting(l) : xTaskRemoveFromEventList(u)
  BY DEF WakeOne
<1>2. event'[u] \in {"none", "pending"}
  BY <1>1 DEF xTaskRemoveFromEventList, ListInv, TypeOK, KernelTypeOK, Waiting
<1> QED
  BY <1>2, WokenIsSure

-----------------------------------------------------------------------------
(* A step of a task moves the lists of the others only. *)
LEMMA StepOfOne ==
    ASSUME ListInv, NEW t \in Task, Step(t)
    PROVE  \A u \in Task \ {t} : UNCHANGED <<pc[u], call[u], verdict[u]>>
<1>1. pc \in [Task -> Steps] /\ call \in [Task -> {"none", "delay"} \cup Calls]
      /\ verdict \in [Task -> {"none", "again", "failed"}]
  BY DEF ListInv, TypeOK
<1>2. CASE Return(t)
  BY <1>1, <1>2 DEF Return, Goto
<1>3. CASE ~ Return(t)
  <2>1. \/ PrepareToBlock(t) \/ vTaskSuspendAll(t) \/ prvLockQueue(t) \/ xTaskCheckForTimeOut(t)
        \/ prvIsQueue(t)
        => \A u \in Task \ {t} : UNCHANGED <<pc[u], call[u], verdict[u]>>
    BY <1>1 DEF PrepareToBlock, vTaskSuspendAll, prvLockQueue, xTaskCheckForTimeOut, prvIsQueue,
                Goto
  <2>2. PlaceOnEventList(t) \/ prvUnlockTx(t) \/ prvUnlockRx(t) \/ xTaskResumeAll(t)
        => \A u \in Task \ {t} : UNCHANGED <<pc[u], call[u], verdict[u]>>
    BY <1>1 DEF PlaceOnEventList, prvUnlockTx, prvUnlockRx, xTaskResumeAll, Goto
  <2>3. UnwindTick(t) \/ Resumed(t) \/ SuspendItself(t) \/ vTaskSwitchContext(t) \/ Resume(t)
        => \A u \in Task \ {t} : UNCHANGED <<pc[u], call[u], verdict[u]>>
    BY <1>1, <1>3 DEF UnwindTick, Resumed, SuspendItself, vTaskSwitchContext, Resume, callers, Goto
  <2>4. Delay(t) \/ PlaceDelayed(t) \/ DelayUntil(t) \/ PlaceUntil(t)
        => \A u \in Task \ {t} : UNCHANGED <<pc[u], call[u], verdict[u]>>
    BY <1>1 DEF Delay, PlaceDelayed, DelayUntil, PlaceUntil, Goto
  <2> QED
    BY <1>3, <2>1, <2>2, <2>3, <2>4 DEF Step, Send, Receive, Peek, Awake
<1> QED
  BY <1>2, <1>3

LEMMA StepMoves ==
    ASSUME ListInv, NEW t \in Task, Step(t)
    PROVE  \A u \in Task \ {t} : Moved(u)
<1>1. KernelTypeOK /\ \A u \in Task : CallOK(u)
  BY DEF ListInv, TypeOK
<1>2. CASE Send(t) \/ Receive(t) \/ Peek(t)
  <2>1. PICK l \in {"send", "receive"} : WakeOne(l) /\ UNCHANGED uxSchedulerSuspended
    BY <1>2 DEF Send, Receive, Peek
  <2> QED
    BY <1>1, <2>1, MovedByWake
<1>3. CASE UNCHANGED lists /\ (uxSchedulerSuspended => uxSchedulerSuspended')
  BY <1>3, StillMoved
<1>4. CASE PlaceOnEventList(t) \/ PlaceDelayed(t) \/ PlaceUntil(t)
  <2>1. \A u \in Task \ {t} : UNCHANGED <<state[u], event[u], uxSchedulerSuspended>>
    BY <1>1, <1>4 DEF PlaceOnEventList, vTaskPlaceOnEventList, PlaceDelayed, PlaceUntil,
                      AddToDelayedList, KernelTypeOK
  <2> QED
    BY <1>1, <2>1 DEF Moved, CallOK
<1>5. CASE prvUnlockTx(t) \/ prvUnlockRx(t)
  <2>1. /\ ReplayLock(xTxLock, "receive") \/ ReplayLock(xRxLock, "send")
        /\ UNCHANGED <<state, uxSchedulerSuspended>> /\ pc[t] \in HeldSteps
    BY <1>5 DEF prvUnlockTx, prvUnlockRx, HeldSteps
  <2>2. uxSchedulerSuspended
    BY <2>1 DEF ListInv, HolderOK
  <2> QED
    BY <1>1, <2>1, <2>2, MovedByReplay
<1>6. CASE xTaskResumeAll(t)
  BY <1>1, <1>6, MovedByReady DEF xTaskResumeAll
<1>7. CASE UnwindTick(t)
  BY <1>1, <1>7, MovedByTick DEF UnwindTick, CountPendedTick, ListInv, HolderOK
<1>8. CASE SuspendItself(t) \/ Resume(t)
  <2>1. /\ UNCHANGED <<event, uxSchedulerSuspended>>
        /\ \A u \in Task \ {t} : UNCHANGED state[u]
    BY <1>1, <1>8 DEF SuspendItself, Suspend, Resume, vTaskResume, KernelTypeOK
  <2> QED
    BY <1>1, <2>1 DEF Moved, CallOK
<1>9. CASE \/ PrepareToBlock(t) \/ vTaskSuspendAll(t) \/ prvLockQueue(t) \/ xTaskCheckForTimeOut(t)
           \/ prvIsQueue(t) \/ Resumed(t) \/ Delay(t) \/ DelayUntil(t) \/ Awake(t)
           \/ vTaskSwitchContext(t)
  <2>1. UNCHANGED lists /\ (uxSchedulerSuspended => uxSchedulerSuspended')
    BY <1>9 DEF PrepareToBlock, vTaskSuspendAll, prvLockQueue, xTaskCheckForTimeOut, prvIsQueue,
       Resumed, Delay, DelayUntil, Awake, vTaskSwitchContext, kernel
  <2> QED
    BY <1>3, <2>1
<1> QED
  BY <1>2, <1>4, <1>5, <1>6, <1>7, <1>8, <1>9 DEF Step

(* The storage is used by who runs, or by a handler. *)
LEMMA HolderRests ==
    ASSUME ListInv, NEW t \in Task, Step(t), NEW u \in Task \ {t}, pc[u] \in HeldSteps
    PROVE  UNCHANGED <<storage, locks>>
<1>1. uxSchedulerSuspended /\ pc[t] \notin HeldSteps \cup {"ticks"}
  BY DEF ListInv, HolderOK
<1>2. ~ (Send(t) \/ Receive(t) \/ Peek(t))
  BY <1>1 DEF Send, Receive, Peek, Tries, Runs
<1>3. ~ (prvLockQueue(t) \/ prvUnlockTx(t) \/ prvUnlockRx(t))
  BY <1>1 DEF prvLockQueue, prvUnlockTx, prvUnlockRx, HeldSteps
<1> QED
  BY <1>2, <1>3 DEF Step, PrepareToBlock, vTaskSuspendAll, xTaskCheckForTimeOut, prvIsQueue,
     PlaceOnEventList, xTaskResumeAll, UnwindTick, Resumed, Delay, PlaceDelayed, DelayUntil,
     PlaceUntil, Awake, SuspendItself, vTaskSwitchContext, Resume

(* What a handler does to the queue. *)
LEMMA HandlerTells ==
    ASSUME TypeOK, xQueueGenericSendFromISR \/ xQueueReceiveFromISR \/ SysTick
    PROVE  /\ UNCHANGED <<pc, call, verdict>>
           /\ \/ UNCHANGED <<storage, locks>>
              \/ /\ uxMessagesWaiting' = uxMessagesWaiting + 1
                 /\ TellOrCount(xTxLock, "receive")
              \/ /\ uxMessagesWaiting' = uxMessagesWaiting - 1
                 /\ TellOrCount(xRxLock, "send")
BY DEF xQueueGenericSendFromISR, xQueueReceiveFromISR, SysTick, callers, CopyToBack, CopyToFront,
       CopyFromQueue

LEMMA LockedKept ==
    ASSUME ListInv, LockedInv, [Next]_vars
    PROVE  LockedInv'
<1>1. /\ xTxLock \in queueUNLOCKED .. MaxLocked /\ xRxLock \in queueUNLOCKED .. MaxLocked
      /\ queueUNLOCKED = -1
  BY DEF ListInv, TypeOK, queueUNLOCKED
<1>2. CASE UNCHANGED vars
  BY <1>2 DEF vars, callers, locks, LockedInv
<1>3. CASE xQueueGenericSendFromISR \/ xQueueReceiveFromISR \/ SysTick
  <2>1. UNCHANGED pc
    BY <1>3, HandlerTells DEF ListInv
  <2>2. \/ UNCHANGED locks
        \/ xTxLock' = xTxLock + 1 /\ UNCHANGED xRxLock
        \/ xRxLock' = xRxLock + 1 /\ UNCHANGED xTxLock
    BY <1>3, HandlerTells DEF ListInv, TellOrCount, locks
  <2>3. xTxLock # queueUNLOCKED => xTxLock + 1 # queueUNLOCKED
    BY <1>1
  <2>4. xRxLock # queueUNLOCKED => xRxLock + 1 # queueUNLOCKED
    BY <1>1
  <2>5. (xTxLock # queueUNLOCKED => xTxLock' # queueUNLOCKED)
        /\ (xRxLock # queueUNLOCKED => xRxLock' # queueUNLOCKED)
    BY <2>2, <2>3, <2>4 DEF locks
  <2> QED
    BY <2>1, <2>5 DEF LockedInv
<1>4. ASSUME NEW t \in Task, Step(t) PROVE LockedInv'
  <2>1. SUFFICES ASSUME NEW u \in Task, pc'[u] \in LockSteps
                 PROVE  xTxLock' # queueUNLOCKED /\ xRxLock' # queueUNLOCKED
    BY DEF LockedInv
  <2>2. CASE u # t
    <3>1. pc[u] \in LockSteps
      BY <1>4, <2>1, <2>2, StepOfOne
    <3>2. pc[u] \in HeldSteps
      BY <3>1 DEF LockSteps, HeldSteps
    <3> QED
      BY <1>4, <2>2, <3>1, <3>2, HolderRests DEF LockedInv, locks
  <2>3. CASE u = t
    <3>0. pc \in [Task -> Steps]
      BY DEF ListInv, TypeOK
    <3>1. CASE prvLockQueue(t)
      BY <1>1, <3>1 DEF prvLockQueue, Locked, queueLOCKED_UNMODIFIED
    <3>2. CASE xTaskCheckForTimeOut(t) \/ prvIsQueue(t)
      BY <3>2 DEF xTaskCheckForTimeOut, prvIsQueue, locks, LockedInv, LockSteps
    <3>3. CASE \/ Send(t) \/ Receive(t) \/ Peek(t) \/ PrepareToBlock(t) \/ vTaskSuspendAll(t)
               \/ PlaceOnEventList(t) \/ prvUnlockTx(t) \/ prvUnlockRx(t) \/ xTaskResumeAll(t)
               \/ Delay(t) \/ DelayUntil(t) \/ PlaceDelayed(t) \/ PlaceUntil(t) \/ Awake(t)
               \/ Resumed(t) \/ SuspendItself(t) \/ vTaskSwitchContext(t)
      BY <2>1, <2>3, <3>0, <3>3 DEF Send, Receive, Peek, PrepareToBlock, vTaskSuspendAll,
         PlaceOnEventList, prvUnlockTx, prvUnlockRx, xTaskResumeAll, Delay, DelayUntil,
         PlaceDelayed, PlaceUntil, Awake, Resumed, Return, SuspendItself, vTaskSwitchContext,
         Goto, LockSteps
    <3>4. CASE UnwindTick(t) \/ Resume(t)
      BY <2>1, <2>3, <3>4 DEF UnwindTick, Resume, callers, locks, LockedInv
    <3> QED
      BY <1>4, <3>1, <3>2, <3>3, <3>4 DEF Step
  <2> QED
    BY <2>2, <2>3
<1> QED
  BY <1>2, <1>3, <1>4 DEF Next

(* A handler that finds the queue locked counts what it does. *)
LEMMA HandlerCounts ==
    ASSUME TypeOK, NEW l \in {"send", "receive"},
           xTxLock # queueUNLOCKED, xRxLock # queueUNLOCKED,
           xQueueGenericSendFromISR \/ xQueueReceiveFromISR \/ SysTick,
           There(l) <= Locked(LockOf(l))
    PROVE  There(l)' <= Locked(LockOf(l))'
<1>1. /\ uxLength \in Nat /\ uxMessagesWaiting \in Nat
      /\ xTxLock \in Int /\ xRxLock \in Int /\ xTxLock >= 0 /\ xRxLock >= 0
  BY StorageAssumption DEF TypeOK, StorageTypeOK, queueUNLOCKED
<1>2. CASE UNCHANGED <<storage, locks>>
  BY <1>2 DEF storage, locks, There, LockOf, Locked
<1>3. CASE uxMessagesWaiting' = uxMessagesWaiting + 1 /\ xTxLock' = xTxLock + 1 /\ xRxLock' = xRxLock
  BY <1>1, <1>3 DEF There, LockOf, Locked, queueUNLOCKED
<1>4. CASE uxMessagesWaiting' = uxMessagesWaiting - 1 /\ xRxLock' = xRxLock + 1 /\ xTxLock' = xTxLock
  BY <1>1, <1>4 DEF There, LockOf, Locked, queueUNLOCKED
<1> QED
  BY <1>2, <1>3, <1>4, HandlerTells DEF TellOrCount

LEMMA QueueRests ==
    ASSUME NEW l \in {"send", "receive"}, UNCHANGED <<storage, locks>>
    PROVE  There(l)' = There(l) /\ Locked(LockOf(l))' = Locked(LockOf(l))
BY DEF storage, locks, There, LockOf, Locked

LEMMA PlacedKept ==
    ASSUME ListInv, LockedInv, PlacedInv, [Next]_vars
    PROVE  PlacedInv'
<1> SUFFICES ASSUME NEW l \in {"send", "receive"}, NEW u \in Task,
                    pc'[u] = "vTaskPlaceOnEventList", List(call'[u]) = l
             PROVE  There(l)' <= Locked(LockOf(l))'
  BY DEF PlacedInv
<1>1. CASE UNCHANGED <<storage, locks, call, pc>>
  <2>1. There(l) <= Locked(LockOf(l))
    BY <1>1 DEF PlacedInv
  <2> QED
    BY <1>1, <2>1, QueueRests
<1>2. CASE xQueueGenericSendFromISR \/ xQueueReceiveFromISR \/ SysTick
  <2>1. pc' = pc /\ call' = call /\ TypeOK
    BY <1>2, HandlerTells DEF ListInv
  <2>2. xTxLock # queueUNLOCKED /\ xRxLock # queueUNLOCKED
    BY <2>1 DEF LockedInv, LockSteps
  <2>3. There(l) <= Locked(LockOf(l))
    BY <2>1 DEF PlacedInv
  <2> QED
    BY <1>2, <2>1, <2>2, <2>3, HandlerCounts
<1>3. ASSUME NEW t \in Task, Step(t) PROVE There(l)' <= Locked(LockOf(l))'
  <2>1. CASE u # t
    <3>1. pc[u] = "vTaskPlaceOnEventList" /\ call'[u] = call[u]
      BY <1>3, <2>1, StepOfOne
    <3>2. UNCHANGED <<storage, locks>>
      BY <1>3, <2>1, <3>1, HolderRests DEF HeldSteps
    <3>3. There(l) <= Locked(LockOf(l))
      BY <3>1 DEF PlacedInv
    <3> QED
      BY <3>2, <3>3, QueueRests
  <2>2. CASE u = t
    <3>0. pc \in [Task -> Steps]
      BY DEF ListInv, TypeOK
    <3>1. CASE prvIsQueue(t)
      <4>1. Blocked(call[t]) /\ UNCHANGED <<storage, locks, call>>
        BY <2>2, <3>0, <3>1 DEF prvIsQueue, Goto
      <4>2. There(l) = 0
        BY <2>2, <4>1, StorageAssumption
           DEF Blocked, List, There, HasRoom, HasMessage, ListInv, TypeOK, StorageTypeOK
      <4>3. There(l) <= Locked(LockOf(l))
        BY <4>2, WaitTypes DEF ListInv
      <4> QED
        BY <4>1, <4>3, QueueRests
    <3>2. CASE UnwindTick(t) \/ Resume(t)
      BY <1>1, <3>2 DEF UnwindTick, Resume, callers
    <3>3. CASE \/ Send(t) \/ Receive(t) \/ Peek(t) \/ PrepareToBlock(t) \/ vTaskSuspendAll(t)
               \/ PlaceOnEventList(t) \/ prvUnlockTx(t) \/ prvUnlockRx(t) \/ xTaskResumeAll(t)
               \/ Delay(t) \/ DelayUntil(t) \/ PlaceDelayed(t) \/ PlaceUntil(t) \/ Awake(t)
               \/ Resumed(t) \/ prvLockQueue(t) \/ xTaskCheckForTimeOut(t)
               \/ SuspendItself(t) \/ vTaskSwitchContext(t)
      BY <2>2, <3>0, <3>3 DEF Send, Receive, Peek, PrepareToBlock, vTaskSuspendAll,
         PlaceOnEventList, prvUnlockTx, prvUnlockRx, xTaskResumeAll, Delay, DelayUntil,
         PlaceDelayed, PlaceUntil, Awake, Resumed, Return, Goto, prvLockQueue,
         xTaskCheckForTimeOut, SuspendItself, vTaskSwitchContext
    <3> QED
      BY <1>3, <3>1, <3>2, <3>3 DEF Step
  <2> QED
    BY <2>1, <2>2
<1> QED
  BY <1>1, <1>2, <1>3 DEF Next, vars, callers

-----------------------------------------------------------------------------
(* For one list: what is there has its takers. *)
Served(l) == There(l) <= Cardinality(Sure(l)) + Locked(LockOf(l))

LEMMA OthersSure ==
    ASSUME ListInv, NEW t \in Task, Step(t), NEW l \in {"send", "receive"}
    PROVE  Sure(l) \ {t} \subseteq Sure(l)' /\ Waiting(l)' \ {t} \subseteq Waiting(l)
<1>1. \A u \in Task \ {t} : (u \in Sure(l) => u \in Sure(l)') /\ (u \in Waiting(l)' => u \in Waiting(l))
  BY StepOfOne, StepMoves, SureMoves
<1>2. Waiting(l)' \subseteq Task
  BY DEF Waiting
<1> QED
  BY <1>1, <1>2, SureInTask

(* Nothing comes, and who was coming still is. *)
LEMMA StaysServed ==
    ASSUME TypeOK, NEW l \in {"send", "receive"}, Served(l), Sure(l) \subseteq Sure(l)',
           There(l)' <= There(l), There(l)' \in Int, Locked(LockOf(l))' = Locked(LockOf(l))
    PROVE  Served(l)'
<1>1. There(l) \in Nat /\ Locked(LockOf(l)) \in Nat
  BY WaitTypes
<1>2. Cardinality(Sure(l)) \in Nat /\ Cardinality(Sure(l)') \in Nat
      /\ Cardinality(Sure(l)) <= Cardinality(Sure(l)')
  BY Grows, SureInTask
<1>3. There(l)' <= Cardinality(Sure(l)') + Locked(LockOf(l))'
  BY <1>1, <1>2 DEF Served
<1> QED
  BY <1>3 DEF Served

(* One that was coming takes what it came for. *)
LEMMA TakingServes ==
    ASSUME TypeOK, NEW l \in {"send", "receive"}, NEW t \in Task, Served(l),
           Sure(l) \ {t} \subseteq Sure(l)',
           There(l)' = There(l) - 1, Locked(LockOf(l))' = Locked(LockOf(l))
    PROVE  Served(l)'
<1>1. There(l) \in Nat /\ Locked(LockOf(l)) \in Nat
  BY WaitTypes
<1>2. Cardinality(Sure(l)) \in Nat /\ Cardinality(Sure(l)') \in Nat
      /\ Cardinality(Sure(l)) - 1 <= Cardinality(Sure(l)')
  BY ShrinksBy, SureInTask
<1>3. There(l)' <= Cardinality(Sure(l)') + Locked(LockOf(l))'
  BY <1>1, <1>2 DEF Served
<1> QED
  BY <1>3 DEF Served

(* One is woken for what comes. *)
LEMMA WakingServes ==
    ASSUME TypeOK, NEW l \in {"send", "receive"}, Served(l),
           Sure(l) \subseteq Sure(l)', \E u \in Sure(l)' : u \notin Sure(l),
           There(l)' = There(l) + 1, Locked(LockOf(l))' = Locked(LockOf(l))
    PROVE  Served(l)'
<1>1. There(l) \in Nat /\ Locked(LockOf(l)) \in Nat
  BY WaitTypes
<1>2. Cardinality(Sure(l)) \in Nat /\ Cardinality(Sure(l)') \in Nat
      /\ Cardinality(Sure(l)) + 1 <= Cardinality(Sure(l)')
  <2>1. PICK u \in Sure(l)' : u \notin Sure(l)
    OBVIOUS
  <2> QED
    BY <2>1, GrowsBy, SureInTask
<1>3. There(l)' <= Cardinality(Sure(l)') + Locked(LockOf(l))'
  BY <1>1, <1>2 DEF Served
<1> QED
  BY <1>3 DEF Served

(* One that looked without taking wakes another in its place. *)
LEMMA PeekingServes ==
    ASSUME TypeOK, NEW l \in {"send", "receive"}, NEW t \in Task, Served(l),
           Sure(l) \ {t} \subseteq Sure(l)', \E u \in Sure(l)' : u \notin Sure(l),
           There(l)' = There(l), Locked(LockOf(l))' = Locked(LockOf(l))
    PROVE  Served(l)'
<1>1. There(l) \in Nat /\ Locked(LockOf(l)) \in Nat
  BY WaitTypes
<1>2. PICK u \in Sure(l)' : u \notin Sure(l)
  OBVIOUS
<1>3. /\ Cardinality(Sure(l) \ {t}) \in Nat /\ Cardinality(Sure(l)') \in Nat
      /\ Cardinality(Sure(l) \ {t}) + 1 <= Cardinality(Sure(l)')
  BY <1>2, GrowsBy, SureInTask
<1>4. /\ Cardinality(Sure(l)) \in Nat
      /\ Cardinality(Sure(l)) - 1 <= Cardinality(Sure(l) \ {t})
  BY ShrinksBy, SureInTask
<1>5. There(l)' <= Cardinality(Sure(l)') + Locked(LockOf(l))'
  BY <1>1, <1>3, <1>4 DEF Served
<1> QED
  BY <1>5 DEF Served

(* The task that calls neither waits nor is woken by its own call. *)
LEMMA CallerRuns ==
    ASSUME ListInv, NEW t \in Task, Send(t) \/ Receive(t) \/ Peek(t)
    PROVE  /\ \A l \in {"send", "receive"} : t \notin Waiting(l) /\ t \notin Waiting(l)'
           /\ \A u \in Task \ {t} : UNCHANGED <<pc[u], call[u], verdict[u]>>
           /\ UNCHANGED locks
<1>1. Runs(t) /\ UNCHANGED locks /\ Step(t)
  BY DEF Send, Receive, Peek, Tries, Step
<1>2. event[t] = "none"
  BY <1>1, RunsIsFree
<1>3. PICK l \in {"send", "receive"} : WakeOne(l)
  BY DEF Send, Receive, Peek
<1>4. event'[t] = "none"
  BY <1>2, <1>3 DEF WakeOne, lists, xTaskRemoveFromEventList, ListInv, TypeOK, KernelTypeOK, Waiting
<1> QED
  BY <1>1, <1>2, <1>4, StepOfOne DEF Waiting

LEMMA CallServes ==
    ASSUME ListInv, NEW t \in Task, Send(t) \/ Receive(t) \/ Peek(t),
           NEW l \in {"send", "receive"}, Waiting(l) # {}, Served(l)
    PROVE  Served(l)'
<1>1. TypeOK /\ uxMessagesWaiting \in Nat /\ uxLength \in Nat
  BY StorageAssumption DEF ListInv, TypeOK, StorageTypeOK
<1>2. Sure(l) \ {t} \subseteq Sure(l)'
  BY OthersSure DEF Step
<1>3. Locked(LockOf(l))' = Locked(LockOf(l))
  BY CallerRuns DEF locks, Locked, LockOf
<1>4. WakeOne(l) => \E u \in Sure(l)' : u \notin Sure(l)
  BY CallerRuns, WakeBrings DEF Waiting
<1>5. ASSUME NEW c \in {"send", "receive", "peek"}, pc[t] = "idle" \/ call[t] = c, List(c) # l
      PROVE  Sure(l) \subseteq Sure(l)'
  <2>1. t \notin Sure(l)
    BY <1>5 DEF Sure, Coming, SureSteps, UnlockSteps, EndSteps
  <2> QED
    BY <1>2, <2>1
<1>6. CASE Send(t)
  <2>1. uxMessagesWaiting' = uxMessagesWaiting + 1 /\ WakeOne("receive")
        /\ (pc[t] = "idle" \/ call[t] = "send")
    BY <1>6 DEF Send, CopyToBack, CopyToFront, Tries
  <2>2. CASE l = "send"
    <3>1. There(l)' = There(l) - 1
      BY <1>1, <2>1, <2>2 DEF There
    <3> QED
      BY <1>1, <1>2, <1>3, <3>1, TakingServes
  <2>3. CASE l = "receive"
    <3>1. There(l)' = There(l) + 1 /\ List("send") # l
      BY <1>1, <2>1, <2>3 DEF There, List
    <3>2. Sure(l) \subseteq Sure(l)'
      BY <1>5, <2>1, <3>1
    <3> QED
      BY <1>1, <1>3, <1>4, <2>1, <2>3, <3>1, <3>2, WakingServes
  <2> QED
    BY <2>2, <2>3
<1>7. CASE Receive(t)
  <2>1. uxMessagesWaiting' = uxMessagesWaiting - 1 /\ WakeOne("send")
        /\ (pc[t] = "idle" \/ call[t] = "receive")
    BY <1>7 DEF Receive, CopyFromQueue, Tries
  <2>2. CASE l = "receive"
    <3>1. There(l)' = There(l) - 1
      BY <1>1, <2>1, <2>2 DEF There
    <3> QED
      BY <1>1, <1>2, <1>3, <3>1, TakingServes
  <2>3. CASE l = "send"
    <3>1. There(l)' = There(l) + 1 /\ List("receive") # l
      BY <1>1, <2>1, <2>3 DEF There, List
    <3>2. Sure(l) \subseteq Sure(l)'
      BY <1>5, <2>1, <3>1
    <3> QED
      BY <1>1, <1>3, <1>4, <2>1, <2>3, <3>1, <3>2, WakingServes
  <2> QED
    BY <2>2, <2>3
<1>8. CASE Peek(t)
  <2>1. UNCHANGED storage /\ WakeOne("receive") /\ (pc[t] = "idle" \/ call[t] = "peek")
    BY <1>8 DEF Peek, Tries
  <2>2. There(l)' = There(l) /\ There(l) \in Nat
    BY <1>1, <2>1, WaitTypes DEF storage, There
  <2>3. CASE l = "receive"
    BY <1>1, <1>2, <1>3, <1>4, <2>1, <2>2, <2>3, PeekingServes
  <2>4. CASE l = "send"
    <3>1. Sure(l) \subseteq Sure(l)'
      BY <1>5, <2>1, <2>4 DEF List
    <3> QED
      BY <1>1, <1>3, <2>2, <3>1, StaysServed
  <2> QED
    BY <2>3, <2>4
<1> QED
  BY <1>6, <1>7, <1>8

(* A task that is about to wait is not relied on, and finds nothing there  *)
(* that is not in the count of the lock.                                   *)
LEMMA BlockingServes ==
    ASSUME ListInv, PlacedInv, NEW t \in Task, PrepareToBlock(t) \/ PlaceOnEventList(t),
           NEW l \in {"send", "receive"}, Waiting(l) # {} => Served(l), Waiting(l)' # {}
    PROVE  Served(l)'
<1>1. UNCHANGED <<storage, locks>> /\ Step(t) /\ TypeOK
  BY DEF PrepareToBlock, PlaceOnEventList, Step, ListInv
<1>2. There(l)' = There(l) /\ Locked(LockOf(l))' = Locked(LockOf(l))
      /\ There(l) \in Nat /\ Locked(LockOf(l)) \in Nat
  BY <1>1, QueueRests, WaitTypes
<1>3. CASE There(l) <= Locked(LockOf(l))
  <2>1. Cardinality(Sure(l)') \in Nat
    BY SureInTask, TaskSets
  <2>2. There(l)' <= Cardinality(Sure(l)') + Locked(LockOf(l))'
    BY <1>2, <1>3, <2>1
  <2> QED
    BY <2>2 DEF Served
<1>4. CASE t \notin Sure(l) /\ t \notin Waiting(l)'
  <2>1. Sure(l) \subseteq Sure(l)' /\ Waiting(l)' \subseteq Waiting(l)
    BY <1>1, <1>4, OthersSure
  <2> QED
    BY <1>1, <1>2, <2>1, StaysServed
<1>5. CASE PrepareToBlock(t)
  <2>1. /\ Runs(t) /\ UNCHANGED event
        /\ \/ pc[t] = "idle"
           \/ pc[t] = "try" /\ Blocked(call[t])
    BY <1>5 DEF PrepareToBlock, kernel, lists
  <2>2. t \notin Waiting(l)'
    BY <2>1, RunsIsFree DEF Waiting
  <2>3. CASE t \notin Sure(l)
    BY <1>4, <2>2, <2>3
  <2>4. CASE t \in Sure(l)
    <3>1. List(call[t]) = l /\ Blocked(call[t])
      BY <2>1, <2>4 DEF Sure, Coming, SureSteps, UnlockSteps, EndSteps
    <3>2. There(l) = 0
      BY <3>1, <1>1, StorageAssumption
         DEF Blocked, List, There, HasRoom, HasMessage, TypeOK, StorageTypeOK
    <3> QED
      BY <1>2, <1>3, <3>2
  <2> QED
    BY <2>3, <2>4
<1>6. CASE PlaceOnEventList(t)
  <2>1. pc[t] = "vTaskPlaceOnEventList" /\ event'[t] = List(call[t])
    BY <1>1, <1>6 DEF PlaceOnEventList, vTaskPlaceOnEventList, TypeOK, KernelTypeOK
  <2>2. CASE List(call[t]) = l
    BY <1>3, <2>1, <2>2 DEF PlacedInv
  <2>3. CASE List(call[t]) # l
    BY <1>4, <2>1, <2>3 DEF Waiting, Sure, SureSteps, UnlockSteps, EndSteps
  <2> QED
    BY <2>2, <2>3
<1> QED
  BY <1>5, <1>6

(* What the lock has counted wakes as many, or all.                        *)
LEMMA ReplayServes ==
    ASSUME ListInv, NEW l \in {"send", "receive"}, ReplayLock(LockOf(l), l),
           There(l)' = There(l), Locked(LockOf(l))' = 0,
           \A u \in Task : (u \in Sure(l) => u \in Sure(l)')
                           /\ (u \in Waiting(l) /\ event'[u] = "pending" => u \in Sure(l)'),
           Served(l), Waiting(l)' # {}
    PROVE  Served(l)'
<1>1. PICK woken \in SUBSET Waiting(l) :
         /\ IF LockOf(l) >= Cardinality(Waiting(l)) THEN woken = Waiting(l)
                                                     ELSE Cardinality(woken) = LockOf(l)
         /\ event' = [u \in Task |-> IF u \in woken THEN "pending" ELSE event[u]]
  BY DEF ReplayLock
<1>2. woken # Waiting(l)
  BY <1>1 DEF Waiting
<1>3. Cardinality(woken) = LockOf(l)
  BY <1>1, <1>2
<1>4. woken \subseteq Task /\ Waiting(l) \subseteq Task
  BY DEF Waiting
<1>5. woken \cap Sure(l) = {}
  BY <1>1 DEF Waiting, Sure, Coming
<1>6. Sure(l) \cup woken \subseteq Sure(l)'
  BY <1>1, <1>4, SureInTask
<1>7. Cardinality(Sure(l) \cup woken) = Cardinality(Sure(l)) + Cardinality(woken)
  <2>1. IsFiniteSet(Sure(l)) /\ IsFiniteSet(woken) /\ Cardinality(Sure(l)) \in Nat
        /\ Cardinality(woken) \in Nat
    BY <1>4, SureInTask, TaskSets
  <2>2. Cardinality(Sure(l) \cap woken) = 0
    BY <1>5, FS_EmptySet
  <2>3. Cardinality(Sure(l) \cup woken)
           = Cardinality(Sure(l)) + Cardinality(woken) - Cardinality(Sure(l) \cap woken)
    BY <2>1, FS_Union
  <2> QED
    BY <2>1, <2>2, <2>3
<1>8. /\ Cardinality(Sure(l)) + Cardinality(woken) <= Cardinality(Sure(l)')
      /\ Cardinality(Sure(l)) \in Nat /\ Cardinality(woken) \in Nat
      /\ Cardinality(Sure(l)') \in Nat
  BY <1>4, <1>6, <1>7, Grows, SureInTask, TaskSets
<1>9. Locked(LockOf(l)) = LockOf(l)
  BY <1>3, <1>8 DEF Locked, queueUNLOCKED
<1>10. There(l) \in Nat
  BY WaitTypes DEF ListInv
<1>11. There(l) <= Cardinality(Sure(l)) + Cardinality(woken)
  BY <1>3, <1>9 DEF Served
<1>12. There(l)' <= Cardinality(Sure(l)') + Locked(LockOf(l))'
  BY <1>8, <1>10, <1>11
<1> QED
  BY <1>12 DEF Served

LEMMA UnlockServes ==
    ASSUME ListInv, NEW t \in Task, prvUnlockTx(t) \/ prvUnlockRx(t),
           NEW l \in {"send", "receive"}, Waiting(l) # {} => Served(l), Waiting(l)' # {}
    PROVE  Served(l)'
<1>1. /\ UNCHANGED <<storage, call, verdict>> /\ Step(t) /\ TypeOK /\ pc \in [Task -> Steps]
      /\ event \in [Task -> {"none", "send", "receive", "pending"}]
      /\ pc[t] \in UnlockSteps /\ pc'[t] \in SureSteps
  BY DEF prvUnlockTx, prvUnlockRx, Step, ListInv, TypeOK, KernelTypeOK, Goto, UnlockSteps,
         SureSteps, EndSteps
<1>2. PICK k \in {"send", "receive"} : /\ ReplayLock(LockOf(k), k)
                                       /\ LockOf(k)' = queueUNLOCKED
                                       /\ \A m \in {"send", "receive"} \ {k} : LockOf(m)' = LockOf(m)
  <2>1. CASE prvUnlockTx(t)
    BY <2>1 DEF prvUnlockTx, LockOf
  <2>2. CASE prvUnlockRx(t)
    BY <2>2 DEF prvUnlockRx, LockOf
  <2> QED
    BY <2>1, <2>2
<1>3. \A u \in Task : event'[u] = event[u] \/ (event[u] = k /\ event'[u] = "pending")
  BY <1>1, <1>2 DEF ReplayLock, Waiting
<1>4. There(l)' = There(l) /\ There(l) \in Nat
  BY <1>1, WaitTypes DEF storage, There
<1>5. Waiting(l)' \subseteq Waiting(l)
  BY <1>3 DEF Waiting
<1>6. \A u \in Task : u \in Sure(l) => u \in Sure(l)'
  <2>1. t \in Sure(l) => t \in Sure(l)'
    BY <1>1, <1>3 DEF Sure, Coming
  <2> QED
    BY <1>1, <2>1, OthersSure
<1>7. CASE l = k
  <2>1. ASSUME NEW u \in Waiting(l), event'[u] = "pending" PROVE u \in Sure(l)'
    <3>1. CASE u = t
      <4>1. CallOK(t) /\ event[t] = l
        BY <2>1, <3>1 DEF ListInv, Waiting
      <4>2. call[t] \in Calls /\ List(call[t]) = l /\ verdict[t] # "failed"
        BY <4>1 DEF CallOK
      <4> QED
        BY <1>1, <2>1, <3>1, <4>2 DEF Sure, Coming
    <3>2. CASE u # t
      BY <1>1, <2>1, <3>2, StepOfOne, WokenIsSure DEF Waiting
    <3> QED
      BY <3>1, <3>2
  <2>2. Locked(LockOf(l))' = 0
    BY <1>2, <1>7 DEF Locked, queueLOCKED_UNMODIFIED
  <2> QED
    BY <1>2, <1>4, <1>5, <1>6, <1>7, <2>1, <2>2, ReplayServes
<1>8. CASE l # k
  <2>1. Locked(LockOf(l))' = Locked(LockOf(l))
    BY <1>2, <1>8 DEF Locked
  <2>2. Sure(l) \subseteq Sure(l)'
    BY <1>6, SureInTask
  <2>3. There(l)' <= There(l) /\ There(l)' \in Int
    BY <1>4
  <2> QED
    BY <1>1, <1>5, <2>1, <2>2, <2>3, StaysServed
<1> QED
  BY <1>7, <1>8

LEMMA RestServes ==
    ASSUME ListInv, NEW t \in Task,
           \/ vTaskSuspendAll(t) \/ prvLockQueue(t) \/ xTaskCheckForTimeOut(t) \/ prvIsQueue(t)
           \/ xTaskResumeAll(t) \/ UnwindTick(t) \/ Resumed(t) \/ Delay(t) \/ PlaceDelayed(t)
           \/ DelayUntil(t) \/ PlaceUntil(t) \/ Awake(t) \/ SuspendItself(t)
           \/ vTaskSwitchContext(t) \/ Resume(t),
           NEW l \in {"send", "receive"}, Waiting(l) # {} => Served(l), Waiting(l)' # {}
    PROVE  Served(l)'
<1>1. Step(t) /\ TypeOK /\ CallOK(t) /\ pc \in [Task -> Steps] /\ call \in [Task -> {"none", "delay"} \cup Calls]
      /\ event \in [Task -> {"none", "send", "receive", "pending"}]
      /\ verdict \in [Task -> {"none", "again", "failed"}]
  BY DEF Step, ListInv, TypeOK, KernelTypeOK
<1>2. UNCHANGED storage /\ Locked(xTxLock)' = Locked(xTxLock) /\ Locked(xRxLock)' = Locked(xRxLock)
  <2>1. CASE prvLockQueue(t)
    BY <2>1 DEF prvLockQueue, Locked, queueUNLOCKED, queueLOCKED_UNMODIFIED
  <2>2. CASE ~ prvLockQueue(t)
    <3>1. UNCHANGED <<storage, locks>>
      BY <2>2 DEF vTaskSuspendAll, xTaskCheckForTimeOut, prvIsQueue, xTaskResumeAll,
         UnwindTick, Resumed, Delay, PlaceDelayed, DelayUntil, PlaceUntil, Awake, SuspendItself,
         vTaskSwitchContext, Resume
    <3> QED
      BY <3>1 DEF locks, Locked
  <2> QED
    BY <2>1, <2>2
<1>3. There(l)' = There(l) /\ There(l) \in Nat /\ Locked(LockOf(l))' = Locked(LockOf(l))
  <2>1. There(l)' = There(l) /\ There(l) \in Nat
    BY <1>1, <1>2, WaitTypes DEF storage, There
  <2> QED
    BY <1>2, <2>1 DEF LockOf
<1>4. (t \in Sure(l) => t \in Sure(l)') /\ (t \in Waiting(l)' => t \in Waiting(l))
  <2>1. CASE vTaskSuspendAll(t) \/ prvLockQueue(t) \/ xTaskCheckForTimeOut(t) \/ prvIsQueue(t)
    <3>1. pc[t] \notin SureSteps /\ UNCHANGED event
      BY <2>1 DEF vTaskSuspendAll, prvLockQueue, xTaskCheckForTimeOut, prvIsQueue, kernel, lists,
                  SureSteps, UnlockSteps, EndSteps
    <3> QED
      BY <3>1 DEF Sure, Waiting
  <2>2. CASE Delay(t) \/ PlaceDelayed(t) \/ DelayUntil(t) \/ PlaceUntil(t) \/ Awake(t)
             \/ SuspendItself(t) \/ vTaskSwitchContext(t)
    <3>1. pc[t] \notin SureSteps /\ UNCHANGED event
      BY <2>2 DEF Delay, PlaceDelayed, DelayUntil, PlaceUntil, Awake, SuspendItself, Suspend,
                  vTaskSwitchContext, kernel, lists, SureSteps, UnlockSteps, EndSteps
    <3> QED
      BY <3>1 DEF Sure, Waiting
  <2>3. CASE xTaskResumeAll(t)
    <3>1. /\ pc'[t] = "ticks" /\ UNCHANGED <<call, verdict>>
          /\ event'[t] = IF event[t] = "pending" THEN "none" ELSE event[t]
      BY <1>1, <2>3 DEF xTaskResumeAll, ReadyPending, Goto
    <3> QED
      BY <3>1 DEF Sure, Coming, Waiting, SureSteps, EndSteps
  <2>4. CASE UnwindTick(t)
    <3>1. Moved(t) /\ UNCHANGED <<pc, call, verdict>>
      BY <1>1, <2>4, MovedByTick
         DEF UnwindTick, CountPendedTick, callers, ListInv, HolderOK, TypeOK
    <3> QED
      BY <3>1, SureMoves
  <2>5. CASE Resumed(t)
    <3>1. UNCHANGED event /\ pc[t] = "ticks"
      BY <2>5 DEF Resumed, kernel, lists
    <3>2. CASE verdict[t] = "failed" \/ call[t] = "delay"
      BY <3>1, <3>2, CallNames DEF Sure, Coming, Waiting
    <3>3. CASE pc'[t] = "try" /\ call'[t] = call[t] /\ verdict'[t] = "none"
      BY <3>1, <3>3 DEF Sure, Coming, Waiting, SureSteps
    <3> QED
      BY <1>1, <2>5, <3>2, <3>3 DEF Resumed, Goto
  <2>6. CASE Resume(t)
    BY <2>6 DEF Resume, vTaskResume, callers, Sure, Coming, Waiting
  <2> QED
    BY <2>1, <2>2, <2>3, <2>4, <2>5, <2>6
<1>5. Sure(l) \subseteq Sure(l)' /\ Waiting(l)' \subseteq Waiting(l)
  BY <1>1, <1>4, OthersSure
<1>6. There(l)' <= There(l) /\ There(l)' \in Int
  BY <1>3
<1> QED
  BY <1>1, <1>3, <1>5, <1>6, StaysServed

(* A handler wakes a task or, with the queue locked, counts. *)
LEMMA HandlerServes ==
    ASSUME ListInv, xQueueGenericSendFromISR \/ xQueueReceiveFromISR \/ SysTick,
           NEW l \in {"send", "receive"}, Waiting(l) # {} => Served(l), Waiting(l)' # {}
    PROVE  Served(l)'
<1>1. /\ TypeOK /\ UNCHANGED <<pc, call, verdict, uxSchedulerSuspended>>
      /\ uxMessagesWaiting \in Nat /\ uxLength \in Nat
  BY StorageAssumption DEF xQueueGenericSendFromISR, xQueueReceiveFromISR, SysTick, callers,
     xTaskIncrementTick, ListInv, TypeOK, StorageTypeOK
<1>2. \A u \in Task : Moved(u)
  <2>1. CASE UNCHANGED lists
    BY <1>1, <2>1, StillMoved
  <2>2. CASE \E k \in {"send", "receive"} : WakeOne(k)
    BY <1>1, <2>2, MovedByWake DEF ListInv, TypeOK
  <2>3. CASE CountTick /\ ~ uxSchedulerSuspended
    BY <2>3, MovedByTick DEF ListInv, TypeOK
  <2> QED
    BY <2>1, <2>2, <2>3 DEF xQueueGenericSendFromISR, xQueueReceiveFromISR, SysTick, TellOrCount,
                            xTaskIncrementTick
<1>3. Sure(l) \subseteq Sure(l)' /\ Waiting(l)' \subseteq Waiting(l)
  <2>1. \A u \in Task : (u \in Sure(l) => u \in Sure(l)') /\ (u \in Waiting(l)' => u \in Waiting(l))
    BY <1>1, <1>2, SureMoves
  <2>2. Waiting(l)' \subseteq Task
    BY DEF Waiting
  <2> QED
    BY <2>1, <2>2, SureInTask
<1>4. Served(l) /\ Waiting(l) # {}
  BY <1>3
<1>5. WakeOne(l) => \E u \in Sure(l)' : u \notin Sure(l)
  BY <1>1, <1>4, WakeBrings
<1>6. There(l) \in Nat
  BY <1>1, WaitTypes
<1>7. CASE UNCHANGED <<storage, locks>>
  BY <1>1, <1>3, <1>4, <1>6, <1>7, QueueRests, StaysServed
<1>8. CASE UNCHANGED locks /\ WakeOne(l) /\ There(l)' = There(l) + 1
  <2>1. Locked(LockOf(l))' = Locked(LockOf(l))
    BY <1>8 DEF locks, Locked, LockOf
  <2> QED
    BY <1>1, <1>3, <1>4, <1>5, <1>8, <2>1, WakingServes
<1>9. CASE LockOf(l)' = LockOf(l) /\ There(l)' = There(l) - 1
  <2>1. Locked(LockOf(l))' = Locked(LockOf(l))
    BY <1>9 DEF Locked
  <2>2. There(l)' <= There(l) /\ There(l)' \in Int
    BY <1>6, <1>9
  <2> QED
    BY <1>1, <1>3, <1>4, <2>1, <2>2, StaysServed
<1>10. CASE LockOf(l) # queueUNLOCKED /\ LockOf(l)' = LockOf(l) + 1 /\ There(l)' = There(l) + 1
  <2>1. /\ Cardinality(Sure(l)) \in Nat /\ Cardinality(Sure(l)') \in Nat
        /\ Cardinality(Sure(l)) <= Cardinality(Sure(l)')
    BY <1>3, Grows, SureInTask
  <2>2. LockOf(l) \in Nat
    BY <1>1, <1>10 DEF TypeOK, LockOf, queueUNLOCKED
  <2>3. Locked(LockOf(l)) = LockOf(l)
    BY <1>10 DEF Locked
  <2>4. Locked(LockOf(l))' = LockOf(l) + 1
    BY <1>10, <2>2 DEF Locked, queueUNLOCKED
  <2>5. There(l) <= Cardinality(Sure(l)) + LockOf(l)
    BY <1>4, <2>3 DEF Served
  <2>6. There(l)' <= Cardinality(Sure(l)') + Locked(LockOf(l))'
    BY <1>6, <1>10, <2>1, <2>2, <2>4, <2>5
  <2> QED
    BY <2>6 DEF Served
<1>11. CASE uxMessagesWaiting' = uxMessagesWaiting + 1 /\ TellOrCount(xTxLock, "receive")
  <2>1. CASE l = "receive"
    BY <1>1, <1>8, <1>10, <1>11, <2>1 DEF TellOrCount, There, LockOf
  <2>2. CASE l = "send"
    <3>1. There(l)' = There(l) - 1
      BY <1>1, <1>11, <2>2 DEF There
    <3>2. LockOf(l)' = LockOf(l)
      BY <1>11, <2>2 DEF TellOrCount, LockOf, locks
    <3> QED
      BY <1>9, <3>1, <3>2
  <2> QED
    BY <2>1, <2>2
<1>12. CASE uxMessagesWaiting' = uxMessagesWaiting - 1 /\ TellOrCount(xRxLock, "send")
  <2>1. CASE l = "send"
    <3>1. There(l)' = There(l) + 1
      BY <1>1, <1>12, <2>1 DEF There
    <3> QED
      BY <1>8, <1>10, <1>12, <2>1, <3>1 DEF TellOrCount, LockOf
  <2>2. CASE l = "receive"
    <3>1. There(l)' = There(l) - 1
      BY <1>1, <1>12, <2>2 DEF There
    <3>2. LockOf(l)' = LockOf(l)
      BY <1>12, <2>2 DEF TellOrCount, LockOf, locks
    <3> QED
      BY <1>9, <3>1, <3>2
  <2> QED
    BY <2>1, <2>2
<1> QED
  BY <1>1, <1>7, <1>11, <1>12, HandlerTells

LEMMA ServedKept ==
    ASSUME ListInv, PlacedInv, ServedInv, [Next]_vars
    PROVE  ServedInv'
<1> SUFFICES ASSUME NEW l \in {"send", "receive"}, Waiting(l)' # {} PROVE Served(l)'
  BY DEF ServedInv, Served
<1>1. Waiting(l) # {} => Served(l)
  BY DEF ServedInv, Served
<1>2. CASE UNCHANGED vars
  <2>1. There(l)' = There(l) /\ Locked(LockOf(l))' = Locked(LockOf(l))
    BY <1>2, QueueRests DEF vars
  <2>2. Sure(l)' = Sure(l) /\ Waiting(l)' = Waiting(l)
    BY <1>2 DEF vars, kernel, lists, callers, Sure, Coming, Waiting
  <2> QED
    BY <1>1, <2>1, <2>2 DEF Served
<1>3. ASSUME NEW t \in Task, Step(t) PROVE Served(l)'
  <2>1. CASE Send(t) \/ Receive(t) \/ Peek(t)
    <3>1. Waiting(l)' \subseteq Waiting(l)
      BY <1>3, <2>1, OthersSure, CallerRuns
    <3> QED
      BY <1>1, <2>1, <3>1, CallServes
  <2>2. CASE PrepareToBlock(t) \/ PlaceOnEventList(t)
    BY <1>1, <2>2, BlockingServes
  <2>3. CASE prvUnlockTx(t) \/ prvUnlockRx(t)
    BY <1>1, <2>3, UnlockServes
  <2> QED
    BY <1>1, <1>3, <2>1, <2>2, <2>3, RestServes DEF Step
<1> QED
  BY <1>1, <1>2, <1>3, HandlerServes DEF Next

(* No task is left waiting for what is there, for any number of tasks,     *)
(* slots and messages and any number of interrupts while the queue is      *)
(* locked (prvLockQueue, prvUnlockQueue): each message has a task on its   *)
(* way to it or is in the count of the lock, and so has each free slot.    *)
THEOREM NoneIsForgotten == Spec => []NoWaiterForgotten
<1>1. Init => LockedInv /\ PlacedInv /\ ServedInv
  BY DEF Init, KernelInit, LockedInv, PlacedInv, ServedInv, LockSteps, Waiting
<1>2. /\ TypeOK /\ (HolderOK /\ \A t \in Task : CallOK(t))
      /\ (LockedInv /\ PlacedInv /\ ServedInv) /\ [Next]_vars
      => (LockedInv /\ PlacedInv /\ ServedInv)'
  BY LockedKept, PlacedKept, ServedKept DEF ListInv
<1>3. TypeOK /\ ServedInv => NoWaiterForgotten
  <2>1. SUFFICES ASSUME TypeOK, ServedInv PROVE NoWaiterForgotten
    OBVIOUS
  <2>2. ASSUME NEW l \in {"send", "receive"}, Waiting(l) # {}
        PROVE  There(l) <= Cardinality(Coming(l)) + Locked(LockOf(l))
    <3>1. /\ Cardinality(Sure(l)) \in Nat /\ Cardinality(Coming(l)) \in Nat
          /\ Cardinality(Sure(l)) <= Cardinality(Coming(l))
      <4>1. Sure(l) \subseteq Coming(l) /\ Coming(l) \subseteq Task
        BY DEF Sure, Coming
      <4> QED
        BY <4>1, Grows
    <3>2. There(l) \in Nat /\ Locked(LockOf(l)) \in Nat
      BY <2>1, WaitTypes
    <3>3. There(l) <= Cardinality(Sure(l)) + Locked(LockOf(l))
      BY <2>1, <2>2 DEF ServedInv
    <3> QED
      BY <3>1, <3>2, <3>3
  <2>3. Waiting("receive") # {} => uxMessagesWaiting <= Cardinality(Coming("receive")) + Locked(xTxLock)
    BY <2>2 DEF There, LockOf
  <2>4. Waiting("send") # {}
          => uxLength - uxMessagesWaiting <= Cardinality(Coming("send")) + Locked(xRxLock)
    BY <2>2 DEF There, LockOf
  <2> QED
    BY <2>3, <2>4 DEF NoWaiterForgotten
<1> QED
  BY <1>1, <1>2, <1>3, TypeCorrect, ListsInvariant, PTL DEF Spec
===============================================================================
