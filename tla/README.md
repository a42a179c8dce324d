# Verification of the GD32F307 Modbus RTU firmware

TLA+ models of the firmware in `src/`, TLC configurations that check them on
small instances, and proofs of the main results checked by TLAPS. The models are
translated from the C sources; `PROJECT.json` names, for every definition that
models code, the lines it stands for.

Contents: 1 inventory, 2 modules, 3 abstractions, 4 runs, 5 fairness,
6 proofs, 7 divergences found, 8 limits, 9 what is left.

## 1. Inventory

The program is a Modbus RTU slave on a GD32F307 (Cortex-M4): one FreeRTOS task
and one interrupt handler sharing a UART, two DMA channels and an RS485
driver-enable pin (DE). The FreeRTOS kernel joins the two: the interrupt gives
a binary semaphore the task takes. The repository also holds parts that are
written but not built into the Keil project (a second UART driver, an Ethernet
port with lwIP and a DHCP client) and large vendored libraries.

| component | source | state | operations |
|---|---|---|---|
| frame codec | `mb_slv_frame.c` | none | parse a request, build replies and exceptions |
| function dispatch | `mb_slv_func.c` | none | FC03, FC06, FC10, unknown |
| holding registers | `mb_slv_data.c` | `hold_regs[100]`, `write_cb` | init, bounded read, bounded write |
| CRC | `mb_slv_crc.c` | tables | `mb_slv_crc16` |
| port | `mb_slv_port_gd32.c` | `rx_buf`, `frame_len`, DMA channels, UART, DE | init, `rx_start`, `tx_send`, `USART0_IRQHandler` |
| task | `mb_slv.c`, `main.c` | `xSemaphore`, `s_tx_buf`, locals | `mb_slave_init`, `mb_slave_poll` for ever |
| kernel queues | FreeRTOS `queue.c` | count, `cTxLock`, waiting list | take, give from an interrupt, lock and unlock |
| kernel tasks and port | FreeRTOS `tasks.c`, `port.c` | ready, pending, delayed and event lists, pended ticks, BASEPRI | suspend, resume, tick, switch, start |
| kernel configuration | `FreeRTOSConfig.h`, `gd32f30x_misc.c` | priorities | start-up checks, `nvic_irq_enable` |
| BSP UART | `bsp_uart.c` | two devices: buffers, `rx_len`, `tx_done_sem` | init, send with time-out, idle and DMA interrupts |
| DSP mirror | `dsp_mirror.c` | segment table, register values | read, write one register |
| network configuration | `netconf.c` | timers, DHCP status, address | stack init, time-outs, DHCP, receive |
| DHCP client | lwIP `dhcp.c` | `struct dhcp`, the interface's address | messages in, fine and coarse timers, start, stop |
| Ethernet interface | `ethernetif.c`, `gd32f30x_enet.c` | descriptor rings, current descriptors | output, input, size and drop, init |
| board Ethernet set-up | `gd32f30x_enet_eval.c` | registers | a straight sequence of writes |
| vendored | FreeRTOS, lwIP 2.2.1, GD32 library, CMSIS, USB | | |

**How the parts interact.** Characters come in through the receive DMA into
`rx_buf` with no software involved. When the line is silent for a character
the UART raises IDLE; the handler publishes the number of characters in
`frame_len`, gives `xSemaphore` and stops the receive DMA. The task takes the
semaphore, reads `rx_buf` and `frame_len` in place, and either refuses the ADU
(another address, short, damaged, contradictory) and restarts the receiver
itself, or dispatches it and hands `s_tx_buf` to the transmit DMA with DE high.
The transmission-complete interrupt (TC) stops the transmit DMA, lowers DE and
restarts the receiver. So the receiver is stopped by one party and restarted by
one of two others, and three buffers (`rx_buf`, `s_tx_buf`, `hold_regs`) pass
between the task and the DMA without being copied or locked.

The BSP driver uses a semaphore the other way round: a task takes it to send,
and the interrupt that ends the transmission gives it back. Its interrupts stop
and restart the receive channel as the Modbus port's do. The network runs in one
loop without threads: `lwip_timeouts_check` calls lwIP's timers, `lwip_frame_recv`
its input; only the MAC's DMA works beside it, on descriptors both sides own in turn.

**What is hard.** The restart protocol of the receiver (each path must restart
it exactly once and not while a reply leaves); the order DE / transmit DMA / TC;
the first TC, raised by the reset value of the UART and not by a transmission;
pauses inside an ADU, which split it; the slave hearing its own reply; a circular
counter that cannot tell a full buffer from an empty one; sums of 16-bit
addresses and counts; a multiple write that must be all or nothing; a lock
protocol in the kernel in which interrupts, ticks and switches fall between any two
steps; a buffer that is free only when an interrupt says so; timers on a clock that
wraps; two state machines, the loop's and the DHCP client's, that count the same
tries; a DMA that looks at a descriptor in one step and suspends itself in another. `PROJECT.json`
lists each at its line under "hazards" with the properties that cover it.

**What makes each part correct.**
- Codec, dispatch, registers: a refused request changes nothing; a positive
  reply tells the truth; no access outside the registers; every reply fits.
- Port and task: half duplex, driver discipline, buffers stable while
  somebody reads them, requests executed whole, once and in order, the receiver
  always comes back, valid requests are answered.
- Kernel: no give is lost, no task stays blocked beside a given semaphore, the
  highest ready task runs, calls with a finite time end; together an atomic
  binary semaphore.
- BSP UART: `tx_buf` is stable while it leaves, messages leave whole with the
  driver on, senders exclude each other and the device is released.
- Network configuration: timers survive the wrap of the clock, the interface has
  an address for a reason, a lease is not given up before a request to keep it, the
  loop settles.
- Ethernet interface: no frame is overwritten, sent or handed up twice or out of
  order; sending does not wait for ever.

## 2. Modules

| module | what it is |
|---|---|
| `MbFrame` | pure operators: parser, dispatcher, register file, replies |
| `MbServer` | abstract specification: the promise of the slave to its master |
| `MbSlave` | the detailed specification: line, UART, DMA, DE, interrupt, task |
| `MbSlaveInv` | inductive invariants of `MbSlave`: `IInv` for a bus on which turns are taken, `AnyTraffic` for any other, `OnePause` and `Listening` beside `IInv` |
| `BinarySem` | abstract specification: an atomic binary semaphore with time-outs |
| `KernelSem`, `KernelSemInv` | the kernel's take, give, tick and switch; its inductive invariant |
| `BspUart` | one device of the BSP UART driver, its tasks, interrupts and hardware |
| `Dhcp` | lwIP's DHCP client: pure functions of its state |
| `NetConf` | the network's main loop, composed with `Dhcp` |
| `EthLink` | abstract specification: two queues of frames |
| `EthIf` | the interface driver and the MAC's DMA on two rings |
| `MC*` | requests, priorities, messages and other constants for TLC |
| `*_proofs` | theorems and proofs about the module they are named after |

**MbFrame.** An ADU is `[bytes, crcOk]`. `Accepts` and `Header` are
`mb_slv_parse_request`; `InRange`, `ReadRegs`, `WriteRegs` are `mb_data_read`
and `mb_data_write`; `Exception`, `ReadReply`, `EchoReply` the `build`
functions; `Dispatch` is `mb_func_dispatch` and returns the registers after the
call and the reply. Integers keep the width they have in C: the byte count of a
reply is taken modulo 256, start + count is an `int` sum that does not wrap,
FC06's value is read byte by byte from the memory of a little-endian core.

**MbServer.** State: the registers, the ADUs put on the bus, the replies with
the ADU each answers. `Send(r)` puts an ADU on the bus; `Serve(k)` executes the
k-th one, if it is newer than everything served so far, addressed to this slave
and accepted. An ADU may be skipped: a serial line loses requests.

**MbSlave.** Extends `MbFrame` and instantiates `MbServer` (the variables
`hold_regs`, `bus`, `replies` map to themselves), so `Implements` is the
refinement. Actions and code:

| action | code |
|---|---|
| `StartAdu`, `RxChar`, `RaiseIdle`, `TxChar` | master and UART hardware: an ADU begins, a character arrives, the line falls idle, a character of the reply leaves |
| `USART0_IRQHandler` | the handler: `HandOver` and `IdleAlone` are its IDLE part, `TransferComplete` its TC part with `mb_slv_port_rx_start` |
| `UartEnable`, `DmaInit`, `NvicEnable` | `mb_slv_port_init`, at the three places where it switches something on |
| `RxDisable`, `RxReload`, `RxEnable` | `mb_slv_port_rx_start` in the task |
| `Take`, `GetLen`, `CheckAddr`, `ParseRequest`, `DispatchRequest` | `mb_slave_poll` |
| `TxConfig`, `TxDe`, `TxEnable` | `mb_slv_port_tx_send` |

The program counter `pc` is the next statement of the task that touches
shared state.

**BinarySem.** What `MbSlave` and `BspUart` take the semaphore for: `Give`, `Ask`,
`Take`, `Fail`. A take that fails found the semaphore empty, and only a task with a finite
time may fail.

**KernelSem.** The tasks' steps are the statements of `xQueueSemaphoreTake` between which
interrupts may fall; `pc` names the next one.

| action | code |
|---|---|
| `Check`, `Recheck` | the two places where a call looks at the count, `queue.c:1686-1770`, `:1832-1879` |
| `SuspendAll`, `LockQueue`, `CheckForTimeOut`, `IsQueueEmpty` | the part before a task blocks |
| `PlaceOnEventList`, `AddToDelayedList` | `vTaskPlaceOnEventList` |
| `EnterUnlock`, `Drain` | `prvUnlockQueue`, in one critical section (`Masked`) |
| `ResumeAll` | `xTaskResumeAll` and the yield of a task that blocked |
| `GiveFromISR`, `SysTick`, `PendSV` | the interrupts |
| `SleepElsewhere`, `WakeElsewhere` | a task's other waiting, so that tasks come and go |

Lists are sets, the head of an event list any of its tasks of the highest
priority. Wake-up times are kept as remaining ticks (`left`), so the tick count and its
wrap do not appear.

**BspUart.** The statements of `bsp_uart_send` are actions from `Take` to `Enable`;
`Timeout` is the failed take. `FullTransfer` and `Transmitted` are the DMA interrupt before
and after its wait for TC; while it waits (`isr`) tasks and the other interrupt
stand still, and only hardware moves. `Fetch` and `Transmit` are DMA and transmitter, `RxChar` and
`LineIdle` the line. A byte fetched is `<<what tx_buf held, position>>`. `job`, `last`, `owed` and `polite` are
history variables the properties compare with. `polite` knows the bus and not the driver's receive
channel: a frame begins only when the one before was answered, this device does not drive the line and
nobody is about to send; a call begins only on a silent line. So a channel that was not started again breaks
`RxLenWhenPolite`, not its condition.

**Dhcp, NetConf.** `Dhcp` has one operator per function of `dhcp.c`, with its name, from a
record of the client to the record after the call. `NetConf` keeps the loop's
clock, its timers and the status of `lwip_dhcp_address_get`, and applies them: `Poll`
is one call of `lwip_timeouts_check` some time after the last, `Receive` a reply that
`lwip_frame_recv` brings. With `NO_SYS` nothing runs beside the loop.

**EthIf.** `Output` is the stack's call, `Wait`, `Copy`, `Give` and `Resume` are `low_level_output` with
`enet_frame_transmit`; `FrameSize` and `FrameDrop` are `enet_rxframe_size_get`, `Input`,
`Receive` and `Recover` are `ethernetif_input` with `enet_frame_receive`. `TxSend`, `TxLook`, `TxSuspend`,
`RxStore` and `RxMiss` are the DMA. `EthLink` is instantiated with the queues that
the descriptors stand for (`TxQueue`, `RxQueue`): how many lie between the
DMA's and the driver's pointers, full and empty told apart by DAV.

## 3. Abstractions and assumptions

- *Interrupt handler atomic, and prompt.* It outranks the task and is over in
  microseconds; a character at 38400 baud takes 260. So no task step and no
  character happens while it is pending. The task has no such privilege: any
  number of characters and interrupts may pass between two of its statements.
- *Semaphore atomic.* `xSemaphoreTake` is one step in `MbSlave` and `BspUart`. That
  the kernel provides this is `KernelSem`'s `Implements`, proved in section 6.
- *Characters are tokens* `<<k, i>>`: the i-th character of the k-th ADU. `rx_buf`
  holds tokens, so torn and mixed frames are represented exactly. `Buffered`
  turns them into bytes when the task reads them.
- *CRC as a bit.* A buffer passes the check when it holds exactly one whole ADU
  sent with a good CRC: accidental 16-bit collisions of other contents are left
  out. The CRC bytes themselves, and memory never written, read as 0, which is
  not this slave's address.
- *Turns are taken* (`TurnTaking`): an ADU begins only when the slave waits with
  its receiver armed. This is the rule of Modbus (a master waits for the reply
  or for a time-out longer than the slave's response). With `TurnTaking = FALSE` TLC
  violates `HalfDuplex`, `WireFollowsReplies`, `ReplyStable`, `Implements` and
  `ListensAgain` within seconds: an ADU that enters `rx_buf`
  between the take and the dispatch tears the one being served, and a semaphore
  given twice lets the task begin a second reply while the first is leaving.
  What the slave owes every bus, polite or not, is proved without it: the types,
  `BusReleased`, `DriverHeld`, and that each dispatch stays inside `hold_regs` and
  `s_tx_buf` (`SlaveServedInBounds`).
  It also excludes traffic during the slave's start-up; `mb_slave_boot` drops it for
  that case.
- *Requests fit* (`SlaveAssumption`): at most `RX_BUF_SIZE` characters, 256 in
  the code and in the Modbus specification.
- *Echo*: the receiver hears the slave's own reply. Whether it does depends on
  the board; `Echo = TRUE` adds behaviours and is what the runs use.
  A buffer of echoed characters never passes the CRC check in the model; as the
  receiver is off while a reply leaves (`HalfDuplex`, proved), at most its first
  character ever gets there.
- `mb_slv_port_direction_set` and `mb_data_set_write_callback` have no caller and
  are left out. `mb_slave_init` cannot fail: neither of its calls returns an error.

*KernelSem.* Nobody waits to send and interrupts do not receive: `cRxLock` and the other
event list are left out. Critical sections mask the interrupts that use the kernel.
With `configMAX_SYSCALL_INTERRUPT_PRIORITY` 0, as `FreeRTOSConfig.h:326` has it, they would not;
the mutant `NothingMasked` shows that `NoForgottenGive` then fails. `configUSE_TIME_SLICING` is 0:
the tick does not rotate tasks of one priority. A suspension lasts
at most `MaxPended` ticks: a bound of the model.

*BspUart.* Messages have at least one byte and fit `tx_buf`; no burst is
longer than `rx_buf`. The code checks none of these. A channel that is started with
number 0 raises no interrupt: with an empty message the semaphore would never come
back, and `Released` would be false. `g_rs485_1_sem` and `g_rs485_2_sem`, which the idle interrupts give, are
created nowhere, and are left out. The second device is the same code with other names.
The first shares PA8 and two DMA channels with the Modbus port, so that only one of the
two drivers can be used at a time.

*Dhcp and NetConf.* T1 and T2 options are absent from replies, the lease option is
always there; a reply of another transaction is dropped. A message that cannot be sent
for want of memory is a lost message; the memory for the client itself is there.
The link is up before the client exists, so `dhcp_reboot` is not reached; ACD is
off (`lwipopts.h:127`). `ip_address`, a copy of the interface's address, is left out.
`request_timeout` in RENEWING and REBINDING has no effect and stays 0.

*EthIf.* Normal descriptors in chained mode, as `enet_descriptors_chain_init`
builds them. The two refusals of `enet_frame_transmit` are left out: the descriptor is free, since
`low_level_output` has just waited for it, and the length is at most `ENET_MAX_FRAME_SIZE`
(`gd32f30x_enet.c:920`), since lwIP's MTU is 1500. `tbu` stands for TBU and TU: the code clears either
and resumes the DMA; a frame cut short by an underflow is not modelled. Nothing in the repository calls `lwip_frame_recv`; it is assumed to be called
when `enet_rxframe_size_get` reports a frame, since `low_level_input` does not look at DAV. Copying
a frame outlasts the DMA's way from a look at a descriptor to its suspension (guard
of `Copy`): otherwise the DMA may suspend itself after the *next* frame was
given too, and TLC finds `Sends` violated. One frame at a time is asked to be sent.

## 4. Runs

| run | instance | shows |
|---|---|---|
| `mb_server` | 126 registers, every sequence of 3 of 23 requests at the boundaries of the code | `ServerTypeOK`, `AccessInBounds`, `ReplyFits`, `RefusedChangesNothing`, `ReadIsFaithful`, `ReadBack` |
| `mb_server_fc06` | 2 registers, FC06 with a value of two different bytes | violation of `AcknowledgedIsStored` |
| `mb_slave` | 2 ADUs out of 5 kinds, 1 pause per ADU, echo, `RX_BUF_SIZE` 12 | safety, action properties, `Implements`, `ListensAgain`, `Answered` |
| `mb_slave_pauses` | 2 ADUs out of 2 kinds, 2 pauses per ADU | `IInv` and `Implements` |
| `mb_slave_boot` | one ADU for another station, at any moment of the start-up | violation of `AlwaysRunning` |
| `mb_slave_full` | one ADU that fills the buffer exactly | violation of `AlwaysRunning` |
| `kernel_sem` | one task that waits for ever above two that wait 1 and 2 ticks, `MaxPended` 2 | `NoForgottenGive`, `HighestRuns`, `KernelInv`, `Implements`, `Served`, `TimesOut` |
| `bsp_uart` | 2 tasks, messages of 1 and 3 bytes, `rx_buf_size` 2 | `QuietWhenFree`, `DriverHeld`, `BufferStable`, `WholeMessage`, `RxLenWhenPolite`, `Released` |
| `bsp_uart_unanswered` | the same | violation of `HandedOverIsNew` |
| `net_conf` | 2 addresses, 4 leases, a clock that wraps after 8 units, at most 3 units between two rounds of the loop | `AddressJustified`, `Punctual`, `RenewedFirst`, `Settles` |
| `net_conf_endless` | the same | violation of `EndlessKept` |
| `eth_if` | 2 frames, rings of 2 descriptors | `Implements`, `Sends` |

*Bounds.* 126 registers, and not the 100 of `mb_slv_config.h`, so that a read of 125
registers (the limit of the parser and the largest reply, 255 bytes) can both
succeed and miss by one. All of the server's properties but `ReadBack` relate one
request to the state it found, for which two are enough. `ReadBack` relates a read to the
write before it, with a third request between, before or after them: an overlapping write,
a refused one, an FC06 of the same register. It is stated on what masters see, the requests
and the replies, and does not mention `hold_regs` or the operators that write them. Of a
register last written by FC06 it says nothing; `AcknowledgedIsStored`, which does, is the
violation of section 7. In `MbSlave`, `RX_BUF_SIZE` is scaled from 256 to 12,
one more than the longest request of `mb_slave` (11) and exactly the one of `mb_slave_full`. Two
ADUs let everything the first leaves behind (a counter, a flag, a given semaphore,
a character in the data register) meet the second. The five kinds have the five
fates: executed write, executed read, another slave's, damaged, too short.

`kernel_sem`: three tasks give a waiting list with two priorities and with two tasks of
one priority; 1 and 2 ticks of block time against 2 pended ticks let time-outs fall
before, with and after a give. `bsp_uart`: the transmitter holds two bytes, so
that 1 and 3 bytes end before and after the DMA has read everything; two bytes of receive
buffer and a character held in the data register fill it. `net_conf`: one unit is a
quarter of a second for the timers; minutes are scaled to seconds and timeouts
cut at 5 where the code cuts at 65535 minutes. The leases
60, 150, 660 and 65535 are one that rounds to a minute, an ordinary one, one whose half
is cut as well, and the one without end. `eth_if`: two descriptors get full, empty and wrapped;
one is excluded (`BufAssumption`), the code has five.

*Two pauses.* With one pause per ADU every property holds. With two, `FrameStable`
and `ListensAgain` do not: the second piece's semaphore can wake the task
while the third arrives, and the task's restart can fall between an IDLE and its
piece. Executing anything wrong needs more than that: `IInv` and `Implements`, and
with them all the safety invariants, still hold (and are proved for any number of pauses).
`FrameStable` and `NeverDeaf` are proved for one pause per ADU; of `FrameStable`, what concerns
the frames that can be executed (`SlaveIntactStable`) for any number.

## 5. Fairness

`FairSpec` assumes weak fairness of the handler and of the task: the only task
of the application is the highest ready one whenever it is ready, and
interrupts preempt it. An ADU that has begun is completed, silence after a
character raises IDLE, and the transmit DMA does not stall: properties of the
line and the hardware. Nobody is obliged to send, or to pause. `Answered` excludes
only ADUs a pause has split: those the code cannot recognise.

`KernelSem` assumes that ticks keep coming, that a pending switch happens (weak), and
strong fairness of the running task as a whole: interrupts end, and between
them instructions are executed. No task is obliged to call or to be woken. `Served` is stated of
the task that nothing outranks; `TimesOut` of any, unless tasks above it keep the
processor. `BspUart`: a task inside a call goes on, the transmit side works,
interrupts return; a task that waits for the semaphore need not time out, and nobody needs to
send. `NetConf`: the loop goes round; `Settles` asks nothing of servers except that
refusals and expiries do not go on for ever. `EthIf`: the loop goes on with a frame it sends
and the transmit DMA with its work; nothing need ever arrive.

## 6. Proofs

All theorems hold for every value of the constants that the named assumptions
allow: any number of registers, any address, any set of requests that fit the
buffer, any buffer size above 2, any number of ADUs and of pauses.

- `MbFrame_proofs`: `DispatchOutcome`, what one dispatch returns, from lemmas about
  each reply builder and each branch; `DispatchReads` and `DispatchStores`, what it
  reads and stores, byte by byte.
- `MbServer_proofs`: `ServerTypeCorrect`, `ServerInBounds`, `ServerReplyFits`,
  `ServerRefusedChangesNothing`, `ServerReadIsFaithful`, `ServerInOrder`, and what is
  stored. `ServerStoresExactly` says it of every request and register as the code does it, from
  the bytes of the request: FC10 the word sent, FC06 its value with the bytes exchanged (section 7).
  `ServerReadBack`: what is read is what FC10 wrote. Its invariant is `Held`: the registers
  are what the replies so far leave a master to expect.
- `MbSlaveInv_proofs`: one lemma per action that it preserves `IInv`, then `NextInv`;
  the same for `AnyTraffic`, then `NextAny`.
- `MbSlave_proofs`, *under any traffic* (no turns, any pauses, any echo):
  `SlaveAnyTraffic`, `SlaveTypeCorrect`, `SlaveBusReleased`, `SlaveDriverHeld`,
  `SlaveServedInBounds`.
- `MbSlave_proofs`, *where turns are taken* (assuming `TurnTaking`): `SlaveInvariant`,
  `SlaveHalfDuplex`, `SlaveWireFollowsReplies`, `SlaveReplyStable`, `SlaveIntactStable`;
  `SlaveImplementsServer`: `MbSlave` implements `MbServer`; and `SlaveKeepsPromise`: so all
  that `MbServer_proofs` says of the abstract server, but for its assumption on FC06, is true on the
  wire (`Promise` is that module instantiated). With at most one pause per ADU also
  `SlaveFrameStable`, and with requests shorter than `rx_buf` besides, `SlaveNeverDeaf`.

*The invariant.* Half duplex is not inductive: that the receiver is off while a
reply leaves follows from who may have restarted it, which depends on how the
ADU came in. `IInv` follows the last ADU. If its first character is in place and no pause split
it (`Intact`), it is in one of six stages (`Arriving`, `Arrived`, `Given`, `Handled`, `Replying`,
`Finished`), and each stage fixes the flags, the channels and the program
counter; in each of them only one party can act. If a pause split it, `Lagging` keeps its last
character away from the place it would have in a whole ADU, so the CRC check
cannot pass, and nothing is dispatched (`OnlyIntactServed`). `Reloaded` says that no interrupt re-arms
the channel inside the task's `rx_start`; `DataRegister` accounts for the one character the echo may
leave behind. `History` and `WireHistory` relate what was served to what was sent and what left.

*Never deaf.* `NeverDeaf` says that a slave that waits, with no interrupt and no reply to
come, has its receiver on: what `ListensAgain` and `Answered` rest on, without the
fairness. The proof has two parts. `OnePause`: while the rest of a split ADU arrives, the
channel is off whenever the task has the first piece in hand or is about to, so that the rest
cannot disturb it. `Listening`: when the IDLE comes, something has been counted, so
that the handler which stops the channel also gives the semaphore whose taker starts it
again. Each of the three hypotheses is needed, as TLC shows: a request that fills the
buffer exactly is counted as nothing (`mb_slave_full`), traffic during the start leaves nothing
to count (`mb_slave_boot`), and a second pause lets the restart fall between an IDLE and
its piece.

*Any traffic.* Nothing about *what* is served survives two masters that talk at once, but
what is served is still bounded. `AnyTraffic` says that the receiver holds characters of ADUs
and replies only, in a buffer whose counter is in range; that a frame the task
dispatches is as long as its header says, though the buffer may have changed since it was
parsed, so that the checks of the parser and of `mb_data_read` and `mb_data_write` hold for
what is read; and that DE is high from before the transmit
channel starts until the TC that finds it done.

- `KernelSem_proofs`: `KernelInvariant`, `KernelTypeCorrect`, `KernelNoForgottenGive`, `KernelHighestRuns`,
  `KernelImplementsSem`, for any tasks, priorities, block times and bounds.
- `BspUart_proofs`: `UartInvariant` and from it types, `QuietWhenFree`, `DriverHeld`, `BufferStable`,
  `WholeMessage`, and `UartHasGiver` (a taken semaphore has a task, a channel, a flag or an
  interrupt at work that will give it), for any tasks and messages. `UartReceived`, the invariant of
  the receive side while stations take turns, and from it `UartRxLenWhenPolite`.
- `NetConf_proofs`: `NetInvariant` and from it types, `AddressJustified`, `Punctual`, `RenewedFirst`,
  for any addresses, leases, limits and timers with `TimerAssumption`: a period and the
  longest round of the loop together do not exceed the clock's modulus.
- `EthIf_proofs`: `EthInvariant`, types, and `EthImplementsLink`, for any frames and any number of
  descriptors from two (transmit) and one (receive) on. `EthAwake` and `EthNotStuck`: the
  loop never waits for a suspended DMA.

*Their invariants.* In `KernelSem`, `NoForgottenGive` depends on where a give is on
record while the queue is locked: in a released task, in `cTxLock`, or in the locking
task, which saw it and does not sleep (`GiveOnRecord`); `HighestRuns` depends on `YieldRemembered`, as a
higher task released during a suspension is only remembered. In `BspUart`, `SendInv` follows the
one holder of the semaphore through its call, the channel and the interrupt: a task in the
call, a channel at work, a flag raised or an interrupt waiting, and exactly one of them. In
`NetConf`, the invariant ties `passed` to clock and `last` modulo the wrap, and the
countdowns to the lease: in BOUND the renewal still has to fire before the lease ends.
In `EthIf`, `IInv` says that the descriptors in use (given to the DMA, or filled by it) are
exactly those between the two pointers, which the arithmetic of `At` and `Count` modulo the ring turns into queues that
lose their head and grow at their end. `Awake` adds what a DMA knew when it suspended itself: it saw the ring
empty, so that at most the frame handed over since is in it. With two descriptors the one
`low_level_output` comes to next is then free, and handing that over resumes the DMA.

*Model-checked only.* `ListensAgain`, `Answered`, `Served`, `TimesOut`, `Released`, `Settles`, `Sends`: liveness
under fairness, which the prover does not do. Of three of them the safety half is proved:
`SlaveNeverDeaf`, `UartHasGiver` and `EthNotStuck` say that what is waited for always has a step
to take; that it is taken is fairness. And the violations: each is a behaviour TLC found.

## 7. Divergences between code and its comments

- **FC06 stores the value with its bytes exchanged** (`mb_slv_func.c:24`): the
  address of a host-order `uint16_t` is passed where wire-order bytes are
  expected, on a little-endian core. The reply echoes the value as sent, so a
  master cannot see it without reading the register back. Run `mb_server_fc06`.
- **The receive DMA is not "always running"** (`mb_slv_port_gd32.c:78`): IDLE stops it,
  and an ADU that fills the buffer exactly wakes nobody who would start it again
  (`:191`, `:199`). Run `mb_slave_full`.
- **Nor after a start on a busy line**: if the last character of somebody else's ADU
  arrives between `usart_enable` (`:76`) and the reload of the counter in `rx_start`
  (`:125`), the IDLE that follows counts nothing, gives nothing and still
  stops the channel. Run `mb_slave_boot`; the window is a few microseconds of each start.
- **The BSP driver reports frames it has not received** (`bsp_uart.c:217`): the idle
  interrupt stops the receive channel and only the end of a transmission restarts
  it. After a frame without an answer the next one is not received, and `rx_len`, "接收长度"
  (`bsp_uart.h:32`), is the earlier one's again. Run `bsp_uart_unanswered`.
- **A lease without end can expire** (`dhcp.c:1095`): when it follows a finite one,
  `dhcp_bind` leaves that lease's `t0_timeout` and restarts its count. Run `net_conf_endless`. In
  vendored code; from a server that changes its lease time only.

## 8. Not modelled, and why

The CRC tables (a bit stands for the comparison); start-up register writes with no
interaction; baud rates and times; DMA transfer errors, framing and noise errors (the
code enables no interrupt for them; damage shows as a bad CRC); power loss (nothing is
persisted, a reset is `Init`).

- *Kernel start-up and priorities*: `configMAX_SYSCALL_INTERRUPT_PRIORITY` is 0, against which
  `port.c:378` asserts. One comparison of constants in straight-line code: nothing to explore.
- *The rest of FreeRTOS*: data queues, mutexes, timers, notifications and task
  deletion are not used by the program; `heap_4` serves allocations before the scheduler starts.
- *DSP mirror*: a sequential lookup with no caller.
- *The rest of lwIP, the GD32 library, CMSIS, USB*: vendored and large; the program's own
  logic reaches into them only where `Dhcp`, `NetConf` and `EthIf` do.

Vendored code is nearly all of the repository's lines, so the share of lines the
models stand for is small, while the application's own sources (`src/Services/ModbusrtuSlvArm`,
`src/BSP`, `netconf.c`, `ethernetif.c`) are covered but for the parts above.

Behaviour met while modelling that no property states: after a NAK the old lease's
T1 or T2 may fire in REQUESTING and take the client to RENEWING or REBINDING without an
address (`dhcp.c:618`, `:645`); leases of 91 days and more are not renewed before they end, and one
within 30 s of 0xffffffff wraps to a minute (`dhcp.c:117`); `netconf.c:216` reads the client's tries without asking
whether `dhcp_start` found memory for one; a frame given to the DMA between its look and its suspension
waits for the next frame (`gd32f30x_enet.c:939`).

## 9. What is left

The CRC table against its bitwise definition; a composition of `KernelSem` with the port's
other interrupts at the priorities `nvic_irq_enable` gives them.
