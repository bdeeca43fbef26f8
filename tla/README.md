# A verification development for the TCP motor command line

The program is the firmware of an STM32F4 board that lets a TCP client drive an
electric motor. A W5200 Ethernet chip (over SPI) carries lines of text; a
FreeRTOS-Plus-CLI interpreter turns a line into a command; a motor task turns
the command into Modbus transactions with a frequency converter ("the drive") on
a serial line. The application is in `src/App/STM32F4-Discovery`; FreeRTOS is in
`src/Source`; the rest of the tree is vendored.

## 1. Inventory

| Component | Source | State it keeps | Operations |
|---|---|---|---|
| Motor commands and telegram queue | `tcpCLI.c`, `tcpCLI.h`, `motorControl_task` in `modbus_mk.c` | the global `telegram`, `QSpd_handle` (length 2), the locals `telegramR`, `telegramS`, `src` | `motor set/get/start/stop`; receive, up to two Modbus calls, reply |
| Command-line dispatch | `FreeRTOS_CLI.c`, `tcpCLI.c` | two static pointers named `pxCommand`, the list of commands | register, process a line, help, task |
| W5200 interrupt and TCP server task | `W5200.c` | socket number, `buf`, `oldbuf`, whether the task is suspended; the chip's registers | `EXTI4_IRQHandler`, `locate_interrupt`, `set_macTask`, `recv`, `send` |
| W5200 socket memory | `W5200.c` | read and write pointers of the rings | `write_memory`, `read_memory` |
| W5200 start-up | `W5200.c` | chip configuration | `init_W5200` |
| Modbus line and heartbeat | `modbus_mk.c` | `received_string`, `rx_length`, the handler's `cnt`, `xSmphrUSART` | `modbus_WIB/WR/RR`, `write_read_modbus`, `USART6_IRQHandler`, `motorHeartBeat_task` |
| SPI over DMA | `spi.c` | `bufferRX`, DMA counters, `xSemaphoreDMASPI` | `spi_dma_*`, two DMA handlers |
| Kernel queues | `queue.c` | storage, its pointers, the two locks, who waits | send, receive, peek, their FromISR forms, lock and unlock |
| Kernel scheduler | `tasks.c`, `list.c` | the lists each task's two items are in, the tick count, pended ticks, the suspension of the scheduler | delay, delay until, suspend, resume, tick, time-out |
| Rest of the kernel | `heap_4.c`, `timers.c`, `croutine.c`, `port.c` | heap, timers, contexts | vendored, used at start-up or not at all |
| Start-up, board support | `main.c`, `ParTest.c`, `stm32f4xx_it.c`, `printf*.c` | none that matters here | pins, clocks, task creation |

How they interact:

```
 client --TCP--> W5200 --INT pin--> EXTI4_IRQHandler --vTaskResume--> set_macTask
                   ^                                                     |  one call per line
                   | SPI/DMA registers                                   v
                   +-------------- recv / send -------------- FreeRTOS_CLIProcessCommand
                                                                         |  prvMotorCommand
                                                                         v
                 drive <--Modbus-- motorControl_task <==QSpd_handle==> telegram
                   ^                     | vTaskResume (START)
                   +---Modbus--- motorHeartBeat_task
```

What is hard:

- **Commands and replies share one queue**, and both tasks read it at one
  priority, time-sliced: a task may receive what it has just sent.
- **Errors on the way**: a Modbus confirmation may fail at any call; the command
  goes on, and what was noted is overwritten.
- **Globals that outlive a command**: the telegram, two static pointers, the last
  line, the line itself, which a handler changes in place.
- **Interrupts against tasks**: the chip's register is read, cleared and compared
  in separate SPI accesses; the pin is edge-triggered; a resume of a task that is
  not suspended, or is not yet switched out, is lost; an interrupt may meet the
  task in the middle of an SPI access, which then may never end.
- **Two tasks on one Modbus line** without a mutex, a byte counter that is not
  restarted, and a drive that may not answer.
- **One DMA semaphore given twice per transfer**, by two handlers, with an
  interrupt handler that makes transfers of its own in the middle of a task's.
- **A kernel queue is locked, not masked**, while a task blocks on it: handlers
  send and receive between any two steps of that task, and what they did is
  replayed at the unlock.
- **Arithmetic**: 16-bit cuts before a range check, ring wraps, a tick count that
  overflows.

What makes each component correct:

- *Telegram queue*: exactly one telegram while a client waits; success means that
  this command's Modbus calls were made; every command is answered; nothing is
  written to the drive after the answer.
- *Dispatch*: the statics agree, help comes in order, the interpreter always
  finds its way back to the command a line names, an empty line repeats what
  succeeded.
- *Server*: a resumed `recv` never waits for data, lines run in order and once, a
  client that waits for quiet gets an answer unless something hangs, the interrupt
  pin does not stay asserted.
- *Modbus line*: a confirmed call was carried out in that very call; a clean call
  leaves no byte, count or semaphore behind for the next; every call on a clean
  line returns; the receive buffer is never overrun.
- *SPI*: a transfer returns only after its data is in `bufferRX`; no give of the
  semaphore is left for the next one; a transfer ends and leaves the streams off.
- *Socket memory*: no byte that arrived is skipped or read twice, the interpreter
  gets the text that was typed, a reply is sent as it was written (both up to the
  end of the ring, where the code goes wrong).
- *Kernel queue*: the storage is a bounded queue open at both ends; no task is
  left waiting for a message or a slot that is there.
- *Kernel scheduler*: a task's two list items agree; a task wakes at its time and
  not before, across overflows of the count.

The list of hazards, each with its line and the properties that watch it, is in
`PROJECT.json`.

## 2. Modules

| Module | What it models |
|---|---|
| `MotorArguments` | from the typed number to the 16-bit value that is range-checked (`handleVariable_set`) |
| `MotorTelegram` | the CLI's and the motor task's halves of a command, composed over `QSpd_handle` |
| `TelegramToken` | what the shared queue promises: one token that is asked for, accepted, put back and collected |
| `MotorTelegram_proofs` | theorems about `MotorTelegram` |
| `ModbusLine`, `MCModbusLine` | the serial line, its interrupt handler, the drive and the two tasks that use it; the frame lengths of the model-checking instance |
| `ModbusLine_proofs` | theorems about `ModbusLine` |
| `CliDispatch`, `MCCliDispatch` | from a line to a handler; the lines of the model-checking instance |
| `CliDispatch_proofs` | theorems about `CliDispatch` |
| `W5200Server` | client, chip, interrupt handler and server task |
| `SocketRing` | the memory of a socket: pointers, `write_memory`, `read_memory` |
| `SocketServer` | `W5200Server` composed with `SocketRing`: the bytes of lines and replies, `recv` and `send` step by step |
| `W5200Server_proofs` | theorems about `W5200Server` |
| `SocketServer_proofs` | theorems about remainders, about `SocketRing` and about `SocketServer` |
| `SpiDma`, `SpiDma_proofs` | transfers over SPI with two DMA handlers and one semaphore; theorems about them |
| `KernelTasks` | the lists and the time of the kernel, as operators on one task |
| `QueueStorage` | the ring of slots of a kernel queue |
| `KernelQueue`, `MCKernelQueue` | a queue and its lock, the tasks and handlers that use it, delays, suspend and resume, composed of the two above; the symmetry of the model-checking instance |
| `MessageQueue` | what a kernel queue promises: a bounded sequence, filled at either end |
| `KernelQueue_proofs`, `KernelTime_proofs` | theorems about the storage and the types; theorems about the lists, the time and the waiters |

### MotorTelegram

Variables are named after the code: `QSpd` is the content of `QSpd_handle`,
`telegram` the CLI's global, `telegramR` and `telegramS` the motor task's
locals, `running` and `registers` what `modbus_WIB` and `modbus_WR` have written
to the drive. `cliPc` and `motorPc` say which blocking call or Modbus call a task
is at; `done`, `failed` and `misled` are histories of the current command.

| Action | Code |
|---|---|
| `Refuse` | a value out of range; `get` with its uninitialised `Value` NULL |
| `Prepare` | a handler fills the global telegram |
| `CliSend`, `CliReceive` | `xQueueSend` and `xQueueReceive` of the handler |
| `MotorReceive` | the receive and the `switch` |
| `WriteBits`, `WriteRegisters`, `ReadRegisters` | `modbus_WIB`, `modbus_WR`, `modbus_RR` with the `if (!...)` around each |
| `Hang` | a Modbus call that never returns from `xSemaphoreTake` |
| `ResumeHeartBeat` | `vTaskResume` in START |
| `MotorReply` | SUCCSESS (or ERROR_MODBUS in `default`) and `xQueueSend` |

Abstractions. Of the ten data words the model keeps word 0 (speed), word 3 (up
ramp) and one flag for the three words that `set speed` presets; no handler and
no property tells the others apart. A Modbus call is one step with the outcomes
that `ModbusLine` shows: the drive carries a write out or not, the confirmation
holds or not, or the call hangs. While the heartbeat sleeps a confirmed write was
carried out (`Possible`, which is `ConfirmedMeansApplied` of `ModbusLine`); beside
a polling heartbeat it need not have been, and `misled` remembers that. A byte of
noise between two calls is left out here (see section 5). A read stores
its words before the CRC is looked at, as `modbus_RR` does. `vTaskDelay` only
passes time. That the heartbeat task has suspended itself before the first START
is assumed (its first statement; a client cannot connect before `init_W5200` has
waited more than a second). The calls that fail only on a timeout are left out,
since both sides wait with `portMAX_DELAY`.

`SuccessShowsOnDrive` holds the drive against the number that was *typed*, for
numbers in the range that the refusals name (speed 1 to 100, up ramp 15 to 300);
`Shows` uses neither the cut nor the shortening of the code. It is silent on a
number that is out of range as typed and in range after the cut, and on `set
downramp`, which does not do what its name says (section 5).

### ModbusLine

For each task `pc`, `call` and `i` say where it is in `write_read_modbus`, which
function called it and how many bytes it has sent or copied. `rx_length`, `cnt`,
`received_string` and `xSmphrUSART` are the shared state of that name; `driver` is
the pin PG8 of `DD()` and `DE()`.

| Action | Code |
|---|---|
| `MotorCall`, `HeartBeatCall` | `rx_length = ...; DD()` of a new transaction |
| `SendByte` | one turn of the loop of `USART_puts`; `DE()` after the last |
| `Take` | `xSemaphoreTake` |
| `CopyByte` | one turn of the copying loop; after the last `modbus_confirmation` |
| `USART6_IRQHandler` | the handler |
| `ResumeHeartBeat` | `vTaskResume` after the `modbus_WR` of START |
| `Execute`, `AnswerByte`, `Silence` | the drive (external) |
| `Fault` | a byte lost, damaged or added; a request or the rest of an answer dropped |

Abstractions. A byte is known by its frame and its place in it. A CRC holds for a
whole answer of any kind and for nothing else; `spelled` is the set of answers
that the bytes copied so far can begin. The buffer keeps apart only the bytes of
answers, since nothing else in it is looked at. The driver is switched off before
the drive can answer the request just sent (a loop of 4100 turns against the
silence of 3.5 characters, 0.9 ms at 38400 baud, that ends a request). A byte
that arrives before the one ahead of it was read counts as lost.

### CliDispatch

`pxCommand` is the interpreter's static, `helpCursor` the one of
`prvHelpCommand` (0 stands for NULL), `oldbuf` the last line of `set_macTask`.
`by`, `answer` and `sent` say who answered the last line, what, and which
telegram it exchanged; `tasks` is a history. One step is one call of
`FreeRTOS_CLIProcessCommand`, from a typed line or from an empty one.

A line is a record of word, option, parameter and value; `""` and 0 stand for an
absent word and `"?"` for one the code does not know. Words that the code
accepts because it compares a prefix (`settings` for `set`) count as the word
they begin with. `set downramp` puts its terminator two characters early, which
takes two digits off the number (`\div 100`); a one-digit number is out of range
with or without the cut. The handler writes into the caller's line, so
`Terminated` is what `oldbuf` gets. What the motor task answers is arbitrary here.

### W5200Server

`sr`, `rx`, `ir` are the socket's status, receive memory and interrupt register;
`exti` is the pending bit of the EXTI line; `sending` and `sent` say that a reply is
on its way (SENDOK is still to come) and that its last byte has left (TX_RD has
reached the write pointer). `isr` and `server` are the program counters of
`EXTI4_IRQHandler`/`locate_interrupt` and of `set_macTask`.

| Action | Code |
|---|---|
| `Connect`, `TypeLine`, `Disconnect` | the client (external) |
| `Transmitted`, `Delivered` | the chip: TX_RD moves up; SENDOK (external) |
| `ReadCode`, `ClearCode`, `Switch`, `Acknowledge` | the handler: reads the register, clears it with 0xff, compares it, clears the EXTI flag |
| `Recv`, `Process` | `recv`; the interpreter, with the old text if fewer than three bytes came |
| `Send`, `Poll` | `send` up to the SEND command; its polls of Sn_CR and TX_RD (`W5200.c:598-601`) |
| `Suspend`, `SwitchOut` | `vTaskSuspend(NULL)`: its critical section; the switch after it |
| `HandlerHangs`, `CommandHangs` | an SPI access of the handler goes wrong; the Modbus call of a command never ends |

The chip is free to move between any two steps of the handler. Tasks do not move
while the handler runs or is pending (`Runs`). `vTaskResume` takes effect only on
a task that is suspended and not the running one (`Resumed`): between `Suspend`
and `SwitchOut` ("leaving") the server is in the suspended list and still
`pxCurrentTCB`, and a resume is lost (`tasks.c:1134`).

`Met` is what becomes of the task that the handler interrupts, since the handler
makes SPI accesses of its own with a blocking take. When two accesses meet, either
may never end, or end with a wrong result, as `SpiDma` shows without `calm`; so
SENDOK, which comes while `send` polls, may undo the server or the handler. Such an
access is the state "hung" of the one or the other, from which nothing is followed
any further: not what a command does with bytes that are not its own, nor what
follows when the handler reads a wrong socket number and clears another socket's
register. Only a poll that is met is followed: it may end early, having read the
value it waits for before it is there, or go on. A server that is met while leaving
is entered by the handler's take into the lists of those that wait, and the give
makes it ready again: it goes on into `recv` although nobody resumed it ("stray"),
and waits there for data. Nothing forces a hang and nothing rules it out, so
`LineAnswered` and the finding except it (`Hung`), and the safety properties speak
of what happens up to it.

Abstractions. An SPI access is one step (its DMA and its semaphore belong to
`SpiDma`): it has the right result, or goes wrong as just said. A line is its
number; `blanks` are those that hold nothing but a line end. `recv` takes
everything in the receive memory and the interpreter sees the first line of it, so
a later line of the same read is lost; a read is "short" (the `len < 3` of
`set_macTask`) just when it holds a single blank line (`Text`). A line comes in
one segment. The transmit memory never fills up. Socket 0 is the only one, and
IMR2, which `locate_interrupt` reads, was set to 0 at start-up, so its test always
means socket 0. `typed`, `blanks`, `executed`, `replies` and `hasty` are
histories; `hasty` says whether the client ever acted while a reply or an
interrupt was still under way, or before the server was switched out (`Quiet`). A
client that types as soon as it has its reply is hasty: its wake-up can be lost,
and its line with it: one more way to what `interrupt_is_processed` is about.

### SocketRing and SocketServer

`SocketRing` has the pointer arithmetic as operators: pointers of 16 bits that
wrap (`PointerLimit`) over a memory of `RingSize` bytes (`Offset`), and what
`write_memory` and `read_memory` do to memory and buffer, their end-of-ring
branches as they stand in the code. `SocketServer` extends `W5200Server` and gives
each of its actions what it does to the bytes, and splits `recv`:

| Action | Code |
|---|---|
| `LineArrives` | the client and the chip (external): `TypeLine` with its bytes |
| `AskSize` | `recv` up to `get_RXRSR` |
| `ReadMemory` | `get_RXRD` and `read_memory` |
| `MovePointer` | `read_ptr += read_len`, `set_RXRD`, the RECV command |
| `Interpret` | `Process` of `W5200Server` |
| `WriteReply` | `send`: `write_memory`, `set_TXWR`, the SEND command |
| `WaitAgain` | `Poll`, `Suspend` and `SwitchOut` of `W5200Server` |
| `Elsewhere` | the chip, the client, the interrupt handler, and what hangs |

A byte is known by the line it belongs to. `rxMem`, `RX_RD`, `RX_WR`, `txMem` and
`TX_WR` are the chip's memory and pointers, `text` the buffer of `set_macTask` and
what lies behind it, `wire` the reply as the chip sends it; `stream`, `taken` and
`answered` are histories. The registers are zero when the socket opens. The
client's stack waits for room in the receive memory.

What the properties are careful about, because the code is as it is. The test for
the end of the transmit ring compares with a register's address (0x401F + 1) and
is never true, so a reply that crosses the end is written behind the ring and the
chip sends what the ring's beginning held before: `ReplyUpToEnd` promises the part
before the end. Beyond the wrap `read_memory` moves `buf` on twice, so the second
part lies `upper_size` bytes too far and the interpreter gets a text with a hole:
`TextAsTyped` speaks of reads in one piece (`Copied <= Room(...)`), and of a read
across the end of the ring nothing is claimed. There `executed` of `W5200Server`
names the line the text is *taken for*, not what its bytes are. `recv` moves the
read pointer by all it was told of, though it copies at most `len` bytes:
`NothingSkipped` counts what it was told of, and what a cut read loses is not
claimed to be kept. `recv` is told of 100 bytes for a `buf` of 50 (`W5200.c:770`
and `:788`); what lies behind `buf` is not modelled. Left out: the flag that
`set_macTask` passes to `send` without having set it (it matters only when the
transmit memory is full, and all earlier replies have been sent by then), the
"test function" inside `send`, which reads the reply back into an array nobody
looks at, and lines longer than the 50 bytes of `buf`.

### SpiDma

Two actors make transfers: `set_macTask` and `EXTI4_IRQHandler` (three in a row,
the two reads and the write of `locate_interrupt`), which may come between any
two register accesses of the task. `pc` and `op` say where each is; `left` how
many transfers the handler has still to make.

| Action | Code |
|---|---|
| `TaskBegins`, `HandlerBegins` | a call of `spi_dma_send`, `_send2B`, `_sendByte` or `spi_dma_read` |
| `SetRxCount`, `SetTxCount`, `SetTxMemory` | `DMA_SetCurrDataCounter`, `M0AR` (no effect on a stream that is enabled) |
| `Select`, `EnableTx`, `EnableRx` | `CSON`, the two `DMA_Cmd(..., ENABLE)` |
| `Take`, `Copy` | `xSemaphoreTake` and the caller's `memcpy` |
| `vListInsertAgain` | the second round of the handler's take |
| `Interrupt` | `EXTI4_IRQHandler` is entered |
| `TxDone`, `Shifted` | the streams and the SPI (external) |
| `DMA2_Stream2_IRQHandler`, `DMA2_Stream3_IRQHandler` | the two handlers; switching a running stream off raises its flag, so one transfer is given twice |

Assumptions. The DMA handlers have one priority and run one after the other
before `EXTI4_IRQHandler`, that before any task (`Runs`, `spi.c:162-207`). The
SPI's data register is empty at the start. Two actors' lengths count as
different.

The handler's take blocks with `portMAX_DELAY`, where it cannot sleep. Each round
of `xQueueGenericReceive` puts the list items of the task it interrupted
(`pxCurrentTCB`) into the event list and the suspended list. If the give comes
before the second round, the give takes them out again: that is `Take`. Otherwise
the second round inserts an item into a list it is in already, and its `pxNext`
becomes itself (`list.c:161`). `vListInsertAgain` is that step; it may come
whenever the handler waits, it is not fair, and the handler is not followed any
further ("damaged"): a third insertion does not end, and what a give makes of such
a list is left out. Left out too is what the first round means for a task that
was interrupted inside the kernel.

`calm` remembers whether, since all was at rest, an interrupt came in the middle of
a transfer, a delay between `EnableTx` and `EnableRx` let TX finish first, or a list
was damaged. Without `calm` the code does lose transfers: the handler may take the
give meant for the task, which then waits for ever, and the task may copy the
handler's answer. `NoStaleGive` needs no `calm`.

### KernelTasks, QueueStorage and KernelQueue

`state` and `event` of `KernelTasks` say in which list a task's
`xGenericListItem` and `xEventListItem` are; `pending` is `xPendingReadyList`.
The order within a list is left out: any ready task may run and any waiter be
woken, which covers every assignment of priorities. `QueueStorage` keeps the
slots with `pcWriteTo` and `pcReadFrom` as slot numbers. `KernelQueue` adds the
locks and, for each task, the step of its call.

| Action | Code |
|---|---|
| `Send`, `Receive`, `Peek` | the critical section of `xQueueGenericSend`/`Receive` when it succeeds (to back or to front, peek or not) |
| `PrepareToBlock` | the same section when it must wait; the first time `vTaskSetTimeOutState` |
| `vTaskSuspendAll`, `prvLockQueue`, `xTaskCheckForTimeOut`, `prvIsQueue`, `PlaceOnEventList`, `prvUnlockTx`, `prvUnlockRx`, `xTaskResumeAll`, `UnwindTick`, `Resumed` | the rest of the loop, one step each |
| `Delay`, `PlaceDelayed`, `DelayUntil`, `PlaceUntil`, `Awake` | `vTaskDelay`, `vTaskDelayUntil` |
| `SuspendItself`, `vTaskSwitchContext` | the critical section of `vTaskSuspend(NULL)`; the switch after it |
| `Resume` | `vTaskResume` (also from `EXTI4_IRQHandler`) |
| `xQueueGenericSendFromISR`, `xQueueReceiveFromISR`, `SysTick` | the interrupt handlers |

A critical section is one step: it masks every handler that calls the kernel.
`xTaskResumeAll` is inside one critical section too, so nothing happens beside it
(`Masked`). Between the critical section of `vTaskSuspend` and the switch the task
is in the suspended list and still `pxCurrentTCB` (`Leaving`): interrupts may come,
and `vTaskResume` leaves that task alone (`tasks.c:1134`). A task that blocks on a
queue or a delay has such a window before its yield, too. A resume does nothing to
it there, with or without that test: its event item is in a list, or its state item
is not in the suspended list. A binary semaphore is a queue of
length 1 with one message. `deadline` is a history.

The application names one thing confusingly: `motorHBHandle` is the handle of
`motorControl_task` (`main.c`; the heartbeat's is `motorHeartBeatHandle`), so the
`vTaskResume(motorHBHandle)` of `locate_interrupt` meets a task that waits for
ever on a queue and stands in the suspended list. `xTaskIsTaskSuspended` must tell
it from one that called `vTaskSuspend`; `ListsAgree` is about that.

## 3. What the runs check

| Run | Expectation | What it shows |
|---|---|---|
| `motor_telegram` | pass | `OneTelegram`, `NothingHalfDone`, `SuccessShowsOnDrive`, `NoWriteAfterAnswer`, `OnlyWaitsForMessage`, `Answered`, and that the tasks implement `TelegramToken` with its liveness |
| `error_reaches_client` | violation | a failed confirmation is overwritten by SUCCSESS |
| `command_reaches_motor` | violation | the CLI receives its own command back |
| `start_sets_ten_percent` | violation | START writes the data of an older telegram: zero, what the motor task's reply held (the drive's readings since a get), or the CLI's own command taken back |
| `modbus_line` | pass | the buffer is never overrun (`TypeOK`); `ConfirmedMeansApplied`, `CleanBetweenCalls`, `CallEnds` for a sleeping heartbeat; `LineGoesOn` for all |
| `command_can_return` | violation | the two tasks' calls fall into one another and both wait for ever |
| `cli_dispatch` | pass | `CursorsAgree`, `HelpInOrder`, `Resynchronises`, `EmptyLineRepeats` |
| `command_goes_to_its_handler` | violation | a line goes to the handler of the line before |
| `w5200_server` | pass | `RecvNeverSpins`, `RunsInOrder`, `PinNotStuck`, `LineAnswered`, with the bytes `NothingSkipped`, `TextAsTyped`, `ReplyUpToEnd`, that nothing but the code's own waits holds the parts up, nor any step that `W5200Server` could do (`ServerGoesOn`), and that `SocketServer` implements `W5200Server` with its liveness |
| `interrupt_is_processed` | violation | a line that arrives during the handler or with another interrupt is never read |
| `spi_dma` | pass | `OwnAnswer`, `CleanBetween`, `NeverStuck`, `TransferEnds` for transfers left alone (with no damaged list), `NoStaleGive` for all |
| `kernel_queue` | pass | `ListsAgree` (a task on its way out of `vTaskSuspend` included), `NoWaiterForgotten`, `WakesOnTime`, `NotBeforeDeadline`, and that the ring of slots implements `MessageQueue` |

Every property of a passing run is broken by a mutant: a variant of one action
that a plausible slip in the code would give (the commented-out early reply put
back, a dropped range check, a cursor not reset, the write that clears the
interrupt register forgotten). The mutants stand in the modules beside the
definition they change.

Bounds, and why they are enough:

- `motor_telegram`: speeds 50 (in range), 700 (out of range) and 65586 (in range
  after the cut to 16 bits), ramps 20 and 301, downramp 5000, one reading from
  the drive, queue length 2. The state does not grow with the number of commands:
  the run covers all sequences of commands of these kinds. More values would
  repeat the same paths; every combination of who takes a telegram and which
  confirmation fails occurs.
- `modbus_line`: frames of 1 to 5 bytes in the order of the real lengths
  (`MCModbusLine`); what matters is which transaction is longer than which, and
  that an answer has more than one byte. `MaxCalls`: two calls of the motor task
  (one that goes wrong and one that meets what it left behind), one of the
  heartbeat. `MaxFaults` = 1, of every kind and at any moment, beside an awake
  heartbeat too. The calls are bounded, so the system stops; deadlock is not
  checked.
- `cli_dispatch`: 22 lines (`MCLines`), each command with and without parameters,
  each option, in and out of range, and the numbers that change class when they
  are cut once or twice. The run covers all sequences.
- `w5200_server`: at most `MaxLines` = 4 lines, one connection, blank or not,
  any disconnect. Two lines are enough for each loss (one in the handler, one
  with another interrupt), three for a line after a loss; four leaves one spare.
  The rings have `RingSize` = 6 bytes for lines of 3 (blank: 2) and replies of 4,
  and pointers wrap after 12 (`Turns` = 2): so a read and a reply cross the end of
  the ring, a pointer passes its limit, two lines lie in the ring at once, and a
  read exceeds `Buffer` = 4 and stays below it.
  The system stops when the client has typed its lines, so deadlock is not
  checked there.
- `spi_dma`: `MaxInterrupts` = 2 interrupts of the W5200 at any register access,
  any number of the task's transfers. One interrupt can disturb a transfer, the
  second finds what the first left behind. The task may wait for ever after a
  disturbed transfer, so deadlock is not checked.
- `kernel_queue`: two tasks, two messages, length 2, so a queue is full, empty and
  in between and its pointers wrap; `portMAX_DELAY` = 3, so the tick count
  overflows at the fourth of `MaxTicks` = 4 ticks and one wait in four is for ever;
  `MaxLocked` = 2 messages while the queue is locked. Peek and larger instances
  are left to the proofs. Ticks are bounded, so the system stops; deadlock is not
  checked.

Fairness, and why the code justifies it:

- Both tasks of `MotorTelegram` are created at one priority with preemption and
  time slicing (`main.c`, `FreeRTOSConfig.h`), so each gets weak fairness.
  `CliReceive` needs strong fairness: the default case of the motor task may take
  back its own ERROR_MODBUS again and again. A task that is woken by a telegram
  would have to lose the race of a few instructions every time, for ever; this
  is an assumption about time slices, and `Answered` rests on it. A Modbus call
  returns or hangs; a hung one stops the system, so `Answered` excepts it and
  deadlock is not checked.
- In `ModbusLine` a task that can go on does, an interrupt is served, and the
  drive ends a silence, executes what it has heard and sends its answer to the
  end. Nothing makes a call, a wake-up or a fault happen.
- In `W5200Server` the handler runs when it is pending, the server task when it is
  ready, and the network delivers a reply in the end. An SPI access that is met,
  an access of the handler, and a command (its Modbus call) may hang: these steps
  have no fairness, they are possible whenever the access or the command is, and
  `LineAnswered` excepts them. Nothing makes the client act. `SocketServer` has
  the same, with the steps of `recv` as steps of the task.
- In `SpiDma` the streams and their handlers go on, and so do an interrupt handler
  and a task in the middle of a transfer. Nothing makes a transfer or an interrupt
  begin, or a list be damaged.
- `CliDispatch` and `KernelQueue` state only safety: which ready task runs depends
  on priorities that the kernel leaves to the application.

## 4. What is proved

TLAPS checks the theorems below for every value of the constants, under the
assumptions named in the modules (typed numbers are naturals, readings are
16-bit words, the queue has room for one, lines are records of their type).

- **MotorTelegram.** `TypeCorrect`; `OneTelegramAlways`; `NoLateWrite`;
  `Refinement` (every step is a step or a stutter of `TelegramToken`);
  `NeverHalfDone`; `SuccessIsVisible` (of numbers typed in range: lemma
  `InRangeIsTyped` says that the cut leaves them as they were). The count in
  `OneTelegram` is inductive with the types alone, and everything else hangs on
  it: since one telegram exists while the CLI waits, whoever holds it determines
  the rest. `Tracked` says, for each place of that telegram, what `done`,
  `telegramR` and the drive must be: a command in the queue has nothing done yet,
  a command being worked on has exactly the steps behind the motor task's counter
  done, a reply SUCCSESS in the queue has all of them. It is needed because the
  properties of answers speak of the moment after the answer and are not
  inductive. For a client told of an error it leaves two ways (`NeverHalfDone`):
  the CLI took its own command back and nothing was done, or the motor task took
  its own SUCCSESS for a command and all was. `QSpdIsQueue`: what the two tasks do
  to `QSpd` is what `MessageQueue` allows, and `KernelQueue` implements
  `MessageQueue`; so the one-step queue of this module rests on the kernel's
  locks, slots and waiting tasks. `AnsweredIfAble` and `TokenIsFair`: see the end
  of this section.
- **ModbusLine.** `TypeCorrect`, for all lengths of frames that fit the buffer
  and any number of calls and faults. The point is `cnt`: it is compared with an
  `rx_length` that the other task may have made smaller in the meantime, and
  stays inside `received_string` because the comparison is `<` and because every
  announced length fits (lemmas `AnnouncedFits`, `CountFits`). And
  `LoneCallIsClean`: while the heartbeat sleeps and nothing is lost,
  `CleanBetweenCalls`. It looks only at the moments between two calls, so the
  invariant `Lone` follows a call byte by byte through `Sending`, `Requested`,
  `Answering`, `Complete` and `Copying`: `cnt` is the number of bytes sent (then
  of the request and of the answer) less the one on the wire, and the bytes of
  the answer lie behind the echo in their order. The last byte therefore finds
  `cnt` equal to `rx_length` and restarts it. `ConfirmationIsEarned`, with
  `Earned`: the same call under lost and damaged bytes. `cnt` is then only bounded
  by the bytes sent (`Within`), so it reaches `rx_length` only when none of them
  was lost, that is, when the drive has sent its whole answer; a call that lacks
  one byte hangs and leaves nothing behind for a later one. `LoneCallAdvances` and
  `LoneCallGoesOn` are the two halves of the reason why a call of a lone task on a
  clean line ends: it has 2 W + 3 R + 2 steps to go when it begins (W and R the
  lengths of its frames), every step of any part brings it exactly one nearer its
  end, and there always is a next one. `CallEndsIfAble` draws the conclusion: see
  the end of this section.
- **CliDispatch.** `TypeCorrect`, `CursorsAlwaysAgree`, `HelpAlwaysInOrder`,
  `AlwaysResynchronises`, `RepeatsWhatSucceeded`. The invariant adds, to the
  agreement of the two statics, how far a row of `task` lines has brought the
  interpreter, and what `oldbuf` holds after a success. Lemma `CutTwice` (a
  number in range after one cut is not in range after two) is why a `set
  downramp` never repeats.
- **W5200Server.** `TypeCorrect` and `RecvAlwaysReads`. The invariant
  `DataBehindBit` says that a RECV bit, seen or unseen, has its line still in the
  receive memory; a wake-up therefore always has data behind it (a "stray" server
  has had none). `NeverBackwards`, with `Ordered`: the text being processed lies
  between the last one and all that wait, and, with `Strict`: without blank lines
  and disconnects every text that is read is a new one, so the numbers in
  `executed` rise (`RunsOnce`). `PinIsServed`, with `Patient`: under a client that
  waits for quiet no bit is set between the read of the register and the
  acknowledgement, so none is cleared with the others and no edge is lost.
- **SocketServer.** `Refinement`: every step is one of `W5200Server` or none, and
  `ServerKept`: so the theorems above hold of it. `NoByteIsSkipped`,
  `TextIsAsTyped`, `ReplyIsWhole`: for every size of the ring and of the buffer,
  every range of the pointers and every length of a reply. The pointers are the
  counts of bytes received and taken modulo `PointerLimit`, and the offsets those
  counts modulo `RingSize` (`Counted`, `OffsetBehind`: a remainder of a remainder,
  since the limit is a multiple of the ring). `Held` says that every byte received
  and not taken is at its offset; a line that arrives stays clear of them because
  the room is taken from the same counts (`Filled`). `Lines` and `Begins` relate
  the bytes to the lines of `W5200Server`: what a `recv` is told of begins with the
  bytes of the first line nobody was told of. `InBuffer` says that a read in one
  piece has them in the buffer, in order and each of them; `LengthKept`, that no
  later line changes how long an earlier one is. `ImplementsIfAble` adds the
  fairness to `Refinement`.
- **SpiDma.** `TypeCorrect`; `NoGiveLeft`; `ReadsOwn`; `LeavesClean`. The first is
  for every interleaving. A give cannot be left over because of `GivesCovered`: a
  semaphore that has been given, or a flag or a running stream that will give it,
  always has an actor that has not yet taken. The other two follow the phases of a
  transfer that is left alone (`LeftAlone`): what the registers, the streams and
  `bufferRX` are at each step, and that the second give falls before the take.
- **KernelQueue.** `TypeCorrect`; `RingIsQueue`, the step-by-step refinement of
  `MessageQueue`: with `StorageKept` (the write pointer is as many slots ahead as
  there are messages) a slot that is written is never one of the content. For
  every number of tasks, messages and slots.
- **The kernel's lists and time.** `ItemsAgree` relates, for each task, step,
  call, `state` and `event`; it rests on the test of `pxCurrentTCB`, without which
  a resume makes a task ready that is just being switched out. `NeverEarly` and
  `SleepIsExact` measure all times on the count of ticks that never overflows
  (`Now`, `Due`): a time-out record and the ticks left always add up to the
  deadline, modulo whole turns. `NeverEarly` holds without condition.
  `SleepIsExact` (`WakesOnTime`) is proved under `[]LooksInTime`: a task that
  waits looks at its timeout again before the tick count has overflowed twice,
  however often it overflows in all. `xTaskCheckForTimeOut` learns whether, not
  how often, the count has overflowed, and a task kept from running for more than
  a whole turn of the count (49 days at 32 bits and 1 ms) may sleep a turn too
  long; TLC shows it with `MaxTicks` = 10. `ExactForTwoTurns`: in a system that
  stops before the second overflow the condition holds by itself, as it does in
  the run.
- **The kernel's waiters.** `NoneIsForgotten`. The tasks on their way (`Coming`)
  are too many to count on: one of them may find its time over and fail. The
  invariant counts only those past the look at the clock (`Sure`), and needs to
  know that the queue is locked from `prvLockQueue` until the task waits
  (`LockedInv`) and that all that came since it looked is in the count of the
  lock (`PlacedInv`). For every number of tasks (`TaskAssumption`: finite), slots
  and interrupts.

**Liveness.** All four leads-to properties are proved from the stated fairness:
`AnsweredIfAble` (`Answered`, MotorTelegram), `CallEndsIfAble` (`CallEnds`,
ModbusLine), `EndsIfNeverStuck` (`TransferEnds`, SpiDma) and `AnsweredIfAble`
(`LineAnswered`, SocketServer). The provers know nothing of ENABLED, without which
no fairness can be used. So what the argument needs to be enabled is a state
predicate of its own (`OnlyWaitsForMessage`, `LineGoesOn`, `NeverStuck`,
`ServerGoesOn`): the runs check it as an invariant, and the theorem has it as a
hypothesis, `Spec /\ []NeverStuck => TransferEnds`. What is proved is the rest,
for every value of the constants: the stages of the exchange or the transfer, that
the actor whose turn it is leaves its stage in the right direction, that no other
actor undoes it, and that the last stage is the end. In `MotorTelegram` the motor
task may take back its own answer any number of times, and strong fairness of
`CliReceive` ends that. In `SocketServer` every step may instead be a hang; once
hung the server or the handler stays so (`HungForGood`), and `LineAnswered` ends
there.

A call in `ModbusLine` has as many stages as its frames have bytes, and induction
over that number is out of the provers' reach. The proof doubles instead:
`OneStep` says that a call comes one step nearer its end, `Double` that what holds
of n steps holds of 2 n, and after twelve doublings `ManySteps` covers 4096 steps.
Hence the hypothesis `MAX_STRLEN <= 1000` of `CallEndsIfAble` (it is 512 in
`modbus_mk.h`): a call of frames that fit `received_string` has at most 2 W + 3
R + 2 steps, which that bounds. Each step belongs to the task, to the interrupt
handler or to the drive, and each of the three is fair.

In the same way the refinements carry liveness. `ImplementsIfAble` proves all of
`ImplementsServer`, under `[]ServerGoesOn`: the two steps of `recv` that
`W5200Server` does not see lead to one that it does, so a task that gets its turns
serves. `TokenIsFair` proves for `TelegramToken`, with the guards of its actions
in the place of ENABLED, that the motor task does not keep the token and that a
CLI which finds it on the table again and again collects it again and again.

Only model-checked: the four ENABLED predicates just named; and that the guards in
`TokenIsFair` are what ENABLED says of the actions of `TelegramToken`, the last
step to all of `ImplementsToken`.

## 5. Where the program and its documents disagree

The six violation runs, each with the line it contradicts (quoted in
`PROJECT.json`): an error is reported as success; a command can return to its
sender; START does not set ten percent; a line can go to another command's
handler; an interrupt is not always followed by processing; after START a command
may never return.

One more disagreement has no run of its own, since reading `tcpCLI.c:203-282`
shows it. `todo.txt:49` says of `motor downramp` that it "sets down ramp time
[15-300]". `handleVariable_set` cuts two digits off the number, checks what is left
against 10 to 100 and writes a hundred times it to `data[0]`, the speed: `motor set
downramp 5000` sets the speed to 50 percent. The models follow the code
(`FilledData`, `Terminated`), and no property says that this is right.

Three more things that the models show and no document denies. A number like 65586
passes the range check as 50, because it is cut to 16 bits first. A single byte of
noise between two calls makes every later call take the semaphore of the call
before it, and be confirmed by the previous answer: `ConfirmedMeansApplied`
without its `~noise` is violated. And a write made while the heartbeat polls can
be confirmed by an answer that is not its own.

## 6. Not modelled

- *Kernel*: mutexes with priority inheritance, queue sets, `xQueueOverwrite`, the
  reset of a queue in use, the restricted waits of software timers, co-routines,
  `heap_4.c` and the assembler port. The application uses none of them after
  start-up, except the context switch. Priorities and the order of lists are
  abstracted as said in section 2.
- *Start-up*: `main`, `init_W5200`, `init_SPIx`, `init_USARTx` are straight-line
  code and appear as initial states.
- *Modbus*: the bits of `crc16`, and `modbus_RIB` and `modbus_WSR`, which nothing
  calls.
- *W5200*: `connect` and `closesocket`, which are never reached; a second
  connection, which the code does not allow for.
- *Everything else in the tree* is vendored: CyaSSL, CMSIS with its DSP library,
  the ST and USB drivers, the other FreeRTOS ports and demos, FreeRTOS+UDP, FAT.
  No code of this application calls it or it has no protocol of the program in
  it. It is far more than nine tenths of the lines, so the share of the tree that
  the modules cover stays small although they cover the program's own logic.
