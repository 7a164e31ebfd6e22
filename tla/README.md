# Cygnoides in TLA+

Cygnoides is the firmware of an on-board unit for vehicle-to-vehicle safety
messages: an STM32F4 under RT-Thread, written in C. It broadcasts this
vehicle's basic safety message (BSM) over an 802.11 USB adapter, keeps a table
of the vehicles it hears, and warns the driver of collisions, broken-down
vehicles and emergency braking. This directory models the parts of it whose
correctness depends on the order in which threads, interrupts and messages
meet. Everything was read from the source; file names below are relative to
`src/`.

    tlc -workers 2 -config MCVamNeighbour_safe.cfg MCVamNeighbour     # a model
    tlapm VamNeighbour_proofs.tla                                     # a proof

## 1. Inventory

Threads share one address space. A lower number is a higher priority, and a
thread of one priority is never preempted by its equals, because the time slice
`osal_task_create` asks for is practically endless (`include/cv_osal_rtt.h`).

    10 init   12 USB host   15 sysc   18 key   19 t-mda   20 wntx, wnrx
    21 GPS   22 t-vam, accelerometer   23 t-vsa-l, t-vsa-r   25 t-hi, play

Timer callbacks run in the SysTick interrupt, above all of them.
`osal_enter_critical` disables interrupts.

| component | state | operations | meets | hard part |
|---|---|---|---|---|
| VAM neighbour table (`app/vam/cv_vam_vsm.c`, `_api.c`) | `remote[4]`, free list, neighbour list, `sem_sta`, lives | join, refresh, age, kick, `vam_get_peer_*` | called by the VAM thread on each frame, walked by t-vsa-l and the shell, reports to VSA by callback | a full table, readers across `sem_sta`, callbacks made with it held |
| VAM BSM broadcast (`_vsm.c`, `_api.c`, `_main.c`) | flag word, alert mask, timers | START, STOP, activate and cancel an alert, pause, GPS gain and loss | timer interrupts queue send requests; VSA and the EBD timer write mask and flags | unprotected read-modify-write, one-shot timers |
| RCP codec (`_rcp.c`) | none of its own | encode and parse BSM, EVAM, RSA | entry of received frames | releasing the receive buffer on every path |
| LIP and NMEA (`_lip.c`, `_lip_nmea.c`, `drivers/cv_drv_gps.c`) | position, parser state, GPS life timer | feed a sentence, update the local status | VAM thread | flag word and life timer against their interrupts |
| MDA forwarding (`_mda.c`) | history, forward list with delta times | handle, cancel, forward | RCP, WNET | TXBUF ownership |
| VSA (`app/vsa/cv_vsa_main.c`) | `alert_pend`, `position_node[]`, `crd_list`, `queue_vsa` | judge, start and stop a warning, own alerts | callbacks from VAM, events to SYS | decisions on a value another thread is about to change |
| WNET (`app/wnet`) | TXBUF and RXBUF pools, waiting lists, two semaphores | send, transmit, complete; receive, deliver, release | senders, USB host thread, VAM queue | ownership of buffers, lost wake-ups |
| USB driver (`drivers/wifi/cv_drv_wifi_usb.c`) | one control, one in, one out request | control message with time-out, bulk out, bulk in | vendor code of the radio | time-out against completion |
| SYS and human interface (`app/sys/cv_sys_manager.c`) | two queues, LED priority word, voice timer | forward an event, show it, key | VSA, drivers | events refused, voice decided late |
| Parameter store (`app/sys/cv_sys_param.c`, `drivers/cv_drv_fls.c`) | a flash sector | init, set, change mode | everyone at start | reset between erase and write |
| GPS, accelerometer, key, LED, voice drivers | filters, buffers | interrupts | VAM, VSA, SYS | signal processing |
| dmem, debug (`os/common`) | first-fit pools | get, free | everyone, interrupts too | coalescing |
| RT-Thread, ST libraries, Ralink driver, BSP | | | | vendored or board code |

What makes each correct: a node is in one list, a pid in one node, a silent
vehicle leaves and a heard one does not; a break-down alert that is up is
advertised; each buffer has one owner and comes back; a frame that was accepted
is processed once and in order; an answer reaches the caller who asked; what
the driver sees is what the system holds pending. `PROJECT.json` lists the
hazards line by line with the properties that watch them.

## 2. Modules

| module | models | refines or is used by |
|---|---|---|
| `VamNeighbour` | table, semaphore, VAM thread, walkers, receive queue | implements `PeerTable`; proofs in `VamNeighbour_proofs` |
| `PeerTable` | what the table promises: who is known and for how long | |
| `VamBsm` | flags, mask, timers, VAM thread, t-vsa-r | proofs in `VamBsm_proofs` |
| `VsaWarning` | the way of an alert from `Hear` to lamp and voice | takes the table as one set, `heard`; proofs in `VsaWarning_proofs` |
| `WnetTx` | TXBUF pool, wntx, the transfer as one step, what `mda_handle` does to the pool | proofs in `WnetTx_proofs` |
| `UsbBulkOut` | the USB out request packet by packet, with its channel | EXTENDS `WnetTx` and implements it; proofs in `UsbBulkOut_proofs` |
| `WnetRx` | RXBUF pool, wnrx, VAM queue | |
| `UsbBulkIn` | the USB in request packet by packet, the radio behind it | EXTENDS `WnetRx`; proofs of both in `WnetRx_proofs` |
| `UsbCtrl` | control request, its caller, the USB host thread | proofs in `UsbCtrl_proofs` |
| `ParamStore` | the parameter sector, the threads that rewrite it, the flash lock, resets, the calibration of t-gsnr | implements `ParamTable`; proofs in `ParamStore_proofs` |
| `ParamTable` | what the store promises: one atomic, lasting change at a time | |

Each `MC` module instantiates one of them; the `.cfg` files give the bounds.
Operators marked *mutation* or *a plausible bug* state what a mistake in the
code would do. They are not part of the specifications; every property is
shown to fail with one of them.

**VamNeighbour.** `free`, `neigh`, `pid`, `life`, `alife`, `mask` are the fields
of `remote[]`. The VAM thread is a program counter `vpc` that stops only where
the code can block or where the table is half-built (`join`, `fill`, `age`,
`ageAlarm`, `kick`). A walker runs only while the VAM thread waits (`CpuFree`),
as priority 23 does below 22, and it may lose the processor between any two
nodes. Lists are sets, because the code takes the first free node and free
nodes are alike. Of a status record the pid and alert mask remain.

**VamBsm.** A `|=` of a thread is a load (`vreg`, `areg`) and a store with
interrupts, and for t-vsa-r also the VAM thread, in between. Interrupt handlers
are single steps. `Mode` is `bsm_boardcast_mode`; `CountMod` the 256 of a
`uint8_t`.

**VsaWarning.** The VAM handler preempts the two VSA threads anywhere, so
`Hear` may fall between `Take` and `Apply` of t-vsa-r and inside a pass of
t-vsa-l; these two do not preempt each other. sysc (15) forwards at once, hence
only `queue_sys_hi` appears. t-hi moves when the others wait. The verdicts of
`ebd_judge`, `cfcw_judge` and `crcw_judge` are free choices; `vbd_judge` always
agrees.

**WnetTx, WnetRx, UsbCtrl.** The list operations run with interrupts disabled
and are one step each; what lies between them is not. The two-step life of a
transfer (request, completion) belongs to the USB host thread, which no modelled
thread interrupts. `MdaHandle` is all that forwarding does today: it takes a
TXBUF and forgets it (`cv_vam_mda.c:343`), so that each frame worth forwarding
costs one buffer of the pool for ever; `dropped` collects them. `arrived` is a history of
`WnetRx`, the order in which the frames still on their way came from the radio: the
pairs `<<a, b>>` with `a` not after `b`.

**UsbBulkOut, UsbBulkIn.** They EXTEND the WNET modules and replace the one step
of a transfer by the states of `_usb_bulkout_request_handle` and
`_usb_bulkin_request_handle`, the submission of each packet and the interrupt
that ends it. A channel is `enabled` while the hardware works on a packet; `urb`
is `URB_State`. On the OUT channel a NAK comes to the driver, which sends the
packet again; on the IN channel the hardware deals with it. Lengths count
packets. In `UsbBulkIn` the radio (`told`, `cut`) is the environment: it sends
frames as full packets and a short one and repeats what met an error.

**ParamStore.** The sector is the magic word, the mode and a set for each mode;
`job[w]` is what thread `w` does with it: the copy it has on its stack, the piece
it is at and the phase of that piece. Every program path that rewrites the sector is an
action that begins such a job: `KeyReset` (`param_set(19, 0)`), `ShellSet` (`param_set`
with any parameter and value), `ShellGsnr` (`gsnr_param_set` by hand), `ShellMode`
(`mode_set` and `mode_change` with any number), `ShellDefaults` (`write_def_param`),
`Calibrate` (t-gsnr), and `LoadDefaults` at the first start. The shell's commands check
next to nothing, and neither do its actions. Of a mode that does not exist the model
has one, `NoMode`: `param_num` and `param_addr` are then uninitialised, and `Picks` lets
them yield any one set or none. A step above 2 leaves t-gsnr idle, step 3 without a
thread (`Started`). A piece is
unlocked, erased or programmed in two halves, and locked; a thread of a higher
priority may come between any two of these, and `Reset` may come anywhere,
inside an erase as well. Programming over what is not blank clears bits (`And`).
`hurt` records that two changes overlapped or that a reset hit one that writes;
up to then the store implements `ParamTable`, whatever the shell is given. `typed`
records the modes whose step or vectors the shell has typed, which nothing checks:
`CalibrationUsable` speaks of the others, and of a typed mode again once the key, the
defaults or a calibration from step 0 on has replaced what was typed.

## 3. Runs

| run | states | shows |
|---|---|---|
| `vam_table` | 2.3 M, 80 s | two nodes and three peers, so that a peer is refused; one walker; queue of 2: partition of the nodes, unique pids, no stale alert, walkers see a stable list, receive buffers lost only at a full queue, and the one place where a thread waits for itself |
| `vam_liveness` | 271 k, 70 s | refinement of `PeerTable`; silent peers leave, the empty list is reported, the VAM thread gets the table |
| `vam_alarm_timeout` | violation | the alarm handler deadlocks the VAM thread |
| `bsm` | 771 k, 40 s | alerts are advertised, STOP stops, the all-clear ends |
| `bsm_pause` | violation | a pause whose timer fires while stopped is never ended |
| `tx` | 57 k, 14 s | transmission with the USB transfer in detail: pool, wake-ups, the request holds the head of the list, every frame leaves unless the channel has halted; refinement of the one-step transfer |
| `rx` | 97 k, 37 s | reception with the USB transfer in detail: pool, order, buffers lost only to other messages, each frame is done, what is handed up is a whole frame, reception goes on after any error |
| `usb_ctrl` | 12 k | stalls, retries, late answers |
| `usb_late` | violation | a call that returns before its own request is done |
| `vsa` | 1.0 M, 100 s | lamps and voice agree with what is pending, a lasting breakdown is warned of |
| `vsa_crd` | violation | a collision warning is never taken back |
| `param` | 2.8 M, 135 s | two modes and one that does not exist, three changes, two resets: refinement of `ParamTable`, calibration vectors fit the step unless typed, the magic word comes back |

### Bounds

- Table: one node is enough for refusal and reuse, two for the interplay of two
  ageings; lives of 2 and 1 give the cases "refreshed", "aged once", "over";
  the code's 15, 5 and 4 change only how long it takes. `CtlMax` bounds START
  and STOP. The number of walkers, nodes, peers and the length of lives are
  arbitrary in the theorems.
- `bsm`: a queue of one makes refusals common; `TxTimes` 1 of `CountMod` 3 is the
  smallest countdown that both ends and wraps. `Mode` "fixed" is run; "auto"
  differs in the period only and "disable" never starts the timer.
- `tx`: three TXBUFs and two senders, one above and one below wntx, one of whose frames
  may be worth forwarding. `SemMax` keeps the preempting sender from piling up
  wake-ups; a wake-up too many finds an empty list or a frame in progress and
  does nothing. Two packets give a first and a later one; retries and the error
  limit are the code's, but for the ten retries of a later packet, of which four
  already exceed the three of the first.
- `rx`: three RXBUFs and a queue of four with up to two other messages, so that
  both the exact fit and the overflow occur (the code: 10, 16, and so six). Frames
  of up to three packets in a buffer of two: the frame that fits exactly, the one
  that does not, and its rest, which arrives as a frame of its own.
- `param`: two modes are the one in force and another. Three changes may follow one
  another (`MaxSaves`); two may overlap or be torn (`MaxHurt`), and three inside each other
  are covered by the theorem `MagicAgain` only. Two resets are one that tears the sector and
  one that reads what was torn, or two that tear. The values typed are a step
  that comes with vectors, the one without a thread, and -1, which 8 bits turn into the
  value of erased flash; a value above 255, which `param_set` refuses and `gsnr_param_set`
  takes modulo 256, is left to the theorems.
- `usb_ctrl`: three retries and three calls per request as in the code.
- `vsa`: queues of two hold a stale message behind a fresh one and overflow; one
  position node, since t-vsa-l treats nodes one by one and all of them share
  one bit of `alert_pend`.

### Fairness

- The life timer is periodic and the VAM thread is ready when it has a message:
  weak fairness of `NeighTick` and of the VAM thread. Walkers finish their
  walk: weak fairness of each.
- `bsm` assumes only that the periodic broadcast timer fires while it runs.
- `tx`: wntx, the USB host thread and the channel move when they can. The host thread is
  woken by the start-of-frame interrupt at least once a millisecond, because
  bulk-in always waits (`bsp/usb.c` releases `USB_Host_Semphore`). Strong fairness
  of a good answer: the driver repeats a refused packet without limit, and a
  radio that refused all of them for ever would hold up transmission rightly.
- `rx`: the USB host thread and wnrx run, the VAM thread is served again and again, and
  the threads above leave it the processor infinitely often - wnrx runs dry between
  bursts because the USB thread sleeps a tick per poll. Nothing is assumed of
  the radio.
- `vsa`: the threads run; strong fairness for t-vsa-r because t-vsa-l, which may
  hold the processor whenever t-vsa-r could take a message, waits for its timer
  after each pass; strong fairness for a repeated BSM that finds room in
  `queue_vsa`: neighbours repeat it many times a second, not only at the
  moments at which the queue is full.

`vam_table`, `vam_liveness` and `vam_alarm_timeout` switch off the deadlock check:
the program does stop, in the alarm time-out, and an invariant says that it
stops nowhere else by waiting for itself. `tx` does so because the pool can run
dry and the channel can halt for ever, `param` because its changes and resets are
bounded.

## 4. What the violated properties say

- `AlertTimeoutReported`: `vam_update_sta` calls the alarm handler with `sem_sta`
  held (`cv_vam_vsm.c:290`); the handler takes it again. After a neighbour with an
  alert falls silent for the alert's life, the VAM thread is gone.
- `PauseIsHeldByTimer`: `cv_vam_vsm.c:149`.
- `CallWaitsForCompletion`: `cv_drv_wifi_usb.c:707`.
- `CrdWarningEnds`: `cv_vsa_main.c:1316` and `509`. A consequence is that the voice
  of a later breakdown warning never stops, because `alert_pend` is never 0.

Seen while modelling, without a run of their own: the countdown of all-clear
messages wraps and the second all-clear is sent 256 times where
`cv_vam_vsm.c:100` says five; START sets the normal period while an alert is up
(`cv_vam_vsm.c:66`); a mask loaded before the EBD timer fired is stored after it
(`cv_vam_api.c:346`), which leaves a braking alert that no timer ends. (The copy of an
old mask in `cv_vam_lip.c:97` is never made: `lip_rmc_valid_check` finds every fix valid,
its body being compiled out.) An alert cancelled while its message is in `queue_vsa` stops a warning
that has become due again in between, against the comment at `cv_vam_api.c:295`; it
heals with the next BSM, which is what `EveryBreakdownWarned` states.

- *Transmission.* `fp_send` tests the wrong buffer for PROCESSING
  (`cv_wnet_fp.c:90`), which matters once two priorities are mixed, as the shell
  command `test_rsa` does: with both in `Priorities` `RequestHoldsHead` fails, because
  an EMERGENCY frame is put in front of the one being sent and is the one that
  the completion frees. A bus error below the limit leaves the OUT channel
  halted with `URB_State` idle; the timer that is read at `cv_drv_wifi_usb.c:350` is never
  compared with anything, so transmission stops until the next reset. That is the `Halted` of
  `EveryFrameLeavesOrHalted`.
- *Reception.* An error keeps `len` and the retries start afresh with each request
  (`cv_drv_wifi_usb.c:449`, `498`), so that the branch for exhausted retries (`503`) is
  never taken; `HandedUpIsWhole` shows that the kept `len` does no harm beyond the
  frame that met the error.
- *Parameters.* The magic word and the mode are written before the sets: a reset
  between them leaves a sector that passes for complete. A key press during the
  calibration is undone when t-gsnr stores step 1 afterwards. The test of the
  channel's range (`cv_sys_param.c:620`) is never true. Two overlapping changes,
  or the lock of one inside the other, lose data, while the shell prints
  "parameter set success!" (`776`). The step and the vectors can be typed without any
  check (`710`-`740`, `970`): `param_set(19, 2)` on a new device stores step 2 with
  vectors of zero, and after the next start t-gsnr works with them; nothing in the
  code makes that right until the key, the defaults or a new calibration does.
  `mode_set` stores any number, and `mode_change` an uninitialised one unless its own is 1
  to 4 (`344`-`384`): from then on `param_no` and `param_addr` are uninitialised, so that a
  change goes to whichever set they name, or to none, and nothing need be loaded at a
  start. That is what `ParamTable` says of `NoMode`.

## 5. Proofs

Every safety invariant, action property and refinement that a passing run checks is
also a theorem, for arbitrary sets of nodes, peers, buffers, senders, walkers and
modes and arbitrary bounds. The assumptions are the `ASSUME` of each module:
positive bounds, distinct model values, finite pools and a finite `remote[]`. The
exception is named with the theorems of transmission below.

`VamNeighbour_proofs`

- `TypeCorrect`, `PartitionHolds`: neither is inductive alone, since moving a node
  is safe only if `cur` is where the program counter says. `TableInv` joins the
  type, the partition and `Control`, which says what `cur`, `todo` and `msg` are
  at each point of the VAM thread.
- `PidsUnique`: `PidInv` adds that the pid a joining peer brings is in no filled
  node, the fact that the search established and that no other thread can undo.
- `AlertNeverStale`: follows the alert's life through ageing and kick.
- `SelfWaitOnlyThere`, `WalkersUndisturbed`, `SnapshotAlwaysKnown`: `SemInv` relates
  holder and waiters of `sem_sta` to the program counters: who may touch the table
  holds the semaphore, and who is suspended is at a take.
- `DeadlockIsForever`: once the VAM thread is suspended behind itself no step of
  any thread releases it.
- `TableIsAPeerTable`: the table implements `PeerTable`. `Left(p)`, what the abstract table
  knows of a peer, chooses a node; `LeftInv` (from `PidInv`) says that this is the
  larger of the lives of the one node of `p`. `LifeInv` adds that a filled node has
  life left except between the decrement and the kick. Then each step of the VAM
  thread makes a peer heard, ages one peer by a tick, or stutters (`PeerStep`); a peer
  leaves with its last tick, before the kick takes its node. A node that is being filled
  is not yet known, so that there is room in the abstract table (`RoomToFill`): the one
  place that counts nodes, which is why `Nodes` is finite.
- `RxLostOnlyThere`: the number of buffers in the pool, of frames in the queue and of the
  frame in hand (`MsgInv` says when there is one) keeps its sum in each step but one
  with a full queue. `FramesAppended` and `FramesTaken` say what the two ends of the queue
  do to the number of its frames.

`VamBsm_proofs`, for any queue size and countdown: `BsmTypeCorrect`;
`BreakdownAlwaysAdvertised` (`AlertInv` adds what the loaded words `vreg` and `areg`
may have missed); `StoppedIsSilent` (`StopInv` ties the broadcast timer to the
request handled last).

`VsaWarning_proofs`, for any number of position slots and any size of the queues:

- `WarningTypes`.
- `LampsFollow`: `LampAgrees` is inductive with the types. An event appended to the
  queue decides about its own warning and no other (`LitAppend`), and showing the
  first one changes nothing of what will be lit (`LitTail`).
- `VoiceFollows`: the property looks at an empty queue only. `VoiceInv` says what holds
  before: an alert that is pending sounds or its start is queued, and if nothing is
  pending each start of an alert in the queue has a stop behind it.

`WnetTx_proofs`. `Owned` - the types, `EachTxbufOwnedOnce`, and that wntx has a TXBUF
exactly between its choice and the transfer - is inductive for frames of any
priority, so `TxbufsOwnedOnce` needs no hypothesis. The other theorems assume
`Priorities \subseteq {"normal"}`, without which they are false (section 4); all
frames of the program are NORMAL but those of the shell command `test_rsa`, of a
build with `RSU_TEST`, and those of `rcp_send_evam` and `rcp_send_forward_msg`, which
nothing reaches since no code sets `VAM_FLAG_TX_EVAM` or starts the timers of MDA.

- `OneFrameAtATime`, `CompletedIsHead`, `NoKickIsLost`: `TxInv` adds `Flight` to `Owned`: what wntx
  or the request has is the head of the list, and nothing else is marked PROCESSING.
- `TransmissionTypes`: `sem_wnet_tx` is bounded because a wake-up that pends, the one
  wntx works on and the one the transfer may give turn into one another (`WakeInv`); only
  `Send` adds to them, and it needs a TXBUF besides the one in the request
  (`PoolHolds`).

`UsbBulkOut_proofs`: `TransferImplementsWnetTx`, for any priorities - each step of the
transfer in detail is a step of `WnetTx` or leaves its variables alone, where `ReqInv`
adds to `Owned` that the request is idle exactly when no frame is in it. From it and
`TxInv`, for NORMAL frames, `RequestAlwaysHoldsHead`, `TransferKeepsPool` and `TransferTypes`
(`Transfer` bounds packets, retries and errors by the state of the request).

`WnetRx_proofs`, for `UsbBulkIn` and so with any frames and errors on the USB:

- `RxbufsInOnePlace` (`OnePlace` says pairwise that pool, waiting list, wnrx, queue and
  VAM thread share no RXBUF, and `PendingPlaces` reads that off the one list of the
  property) and `WakeUpForEveryFrame`.
- `FramesStayInOrder`: `OrderInv` says that `arrived` is the order in which the places
  of the frames are visited (`Placed`), and `PendingPlaced` that this is the order of the one list
  of the property. That order is stated with pairs and not with a filtered list, whose
  value for every list would need induction over data.
- `RxbufsNotLost`: an RXBUF that meets a full queue is none of those in it, so that the
  rest of the queue must be other messages (`FS_PigeonHole`).
- `OnlyWholeFrames` and `ReceptionTypes`: `Transfer` says that in a frame no error has cut, the
  buffer holds all packets the radio is rid of, and `len` counts those before the last
  one arrived.

`UsbCtrl_proofs`, for any kinds, calls and retries: `CtrlTypes`, `StallIsNotData`,
`LateAnswersWakeNobody`. `SemInv` relates the semaphore to the flag
`waiting_for_complete`: outside a call the flag is down, and during one either the
flag is up or an answer is there, with at most one answer of an earlier call
besides. So the semaphore never exceeds two.

`ParamStore_proofs`, for any number of modes, changes and resets and any parameter, value
or mode given at the shell:

- `TypesKept` (`Shape` says which phases a change can be in) and `MagicAgain`. `MagicInv`
  speaks of the thread that has the processor only: a thread that is preempted
  between unlock and erase finds the controller locked, and the invariant is that
  this happens only with the magic word back in place, because whoever came between
  has finished.
- `CalibrationKept` and `StoreIsATable`, from `StoreInvariant`: up to the first overlap or torn
  sector (`hurt`) one thread at most is busy (`Alone`), the sector at rest is complete
  or blank (`Rest`), and a writer's sector is programmed up to its piece and blank
  beyond (`Progress`). `GoodSet`, a step with its vectors, is kept for the modes not in
  `typed`, and the registers of t-gsnr (`Registers`) are tied to a set only while they
  came from such a mode; the rest of the invariant holds whatever was typed, and so does
  `StoreIsATable`. `StoreIsATable` then maps the copy of the writer, or the sector at
  rest, to the value of `ParamTable`.

Only model-checked: the liveness properties `SilentPeerLeaves`, `EmptyListReported`,
`VamGetsTable`, `AllClearEnds`, `EveryFrameLeavesOrHalted`, `EveryFrameIsDone`, `ReceptionGoesOn` and
`EveryBreakdownWarned`. They rest on fairness, and so on ENABLED, which is out of the
prover's reach.

## 6. Not modelled

- Geometry and floating point, the bytes of messages, GPS and accelerometer
  filters: pure computation; their verdicts are free choices.
- Failing allocation, and the allocator (`os/common/cv_osal_dmem.c`).
- Tearing of a status record while it is copied.
- What is recorded under `hazards` as covered in part or by no property, with the reason.
- This vehicle's own alerts on their way through `queue_vsa` to the status lamps,
  the nodes of `crd_list`, which nothing modelled reads, GPS and BSM lamps.
- The history and the forward list of MDA: its timers are created and never
  started, and `mda_handle` returns before it gets there for every frame it has a TXBUF
  for. Once the pool is empty it goes on with a NULL pointer and links what lies at
  address 0 (`cv_vam_mda.c:348`), undefined behaviour that is left out;
  `MdaHandle` is the case with a TXBUF.
- The retries of bulk-in when they are exhausted (never, see above).
- Parameters other than calibration and channel, and the commands that only
  read. With a mode that does not exist, `param_set` may write, and `memcpy` may read, wherever
  the uninitialised `param_no` points: the model keeps to the four sets and to memory
  that is none of them, and leaves out what a stray write breaks and a fault.
- `usb_control_msg` fills in its request in one step.
- RT-Thread, the ST libraries and the Ralink driver, which make up all but a few
  per cent of the lines: vendored code, modelled by what its callers rely on.

## 7. Plan

1. Done: table, broadcast, warnings, transmission and reception with the USB
   transfers in detail, control requests, the parameter store; the proofs of
   section 5, which cover every invariant, action property and refinement of the
   passing runs.
2. What `NORMAL` stands for in the theorems of transmission: the list of `fp_send` with
   two priorities, and which part of `Flight` survives an EMERGENCY frame.
3. Own alerts: key, `queue_vsa`, mask and status lamp, composing `VsaWarning` and
   `VamBsm`, with the theorems of both.
4. `Dmem`: first-fit with coalescing against a set of disjoint areas; the search
   pointer after a merge.
5. NMEA line assembly and the GPS life timer.
