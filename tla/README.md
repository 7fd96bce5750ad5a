# A.I.G.I.S: a TLA+ model of the secure control network

A.I.G.I.S joins a control-room PC, a ZYBO coordinator, a Basys3 rack controller
and a Jetson door controller.  Every application message is AES-128-GCM sealed,
and every 30 seconds the ZYBO draws a random R and makes the other parties
install the key `MASTER ^ R`.  The modules in this directory model that key
change, the commands, reports and events that cross it, the transports it has to
live with, and the control-room programs at its end; TLC checks them on small
instances and TLAPS proves the most important properties for every value of the
constants.

Paths below are relative to `src/`.  The short names used for the main sources:

| short | file |
|---|---|
| SM | `zyboproject_inseok/rtl/secure/zybo_session_manager.sv` |
| CU | `zyboproject_inseok/rtl/secure/zybo_secure_control_unit_v2.sv` |
| BS | `basys3project_inseok_jeong/rtl/secure/basys3_secure_rack_control.sv` |
| PC | `inseok_ex/secure_serial_client.py` |
| A | `inseok_ex/app.py` |
| JM | `zyboproject_inseok/software/jetson_main.py` |
| SPEC | `zyboproject_inseok/JETSON_SECURE_SPI_SPEC.md` |

## 1. Inventory

```
  control room            ZYBO                              racks
  +----------+   UART   +-----------------------------+ SPI +--------+
  | PC client|<-------->| group FSM  | shared engines |<--->| Basys3 |--- servos, DHT11
  | UI       | 115200   | Jetson FSM | Jetson engines |     +--------+
  +----------+          +-----------------------------+
   TCP | face, camera         ^ SPI slave, polled every 100 ms
       v                      v
   servers outside        +--------+
   the repository         | Jetson |--- door servo, Face ID
                          +--------+
```

| component | state it keeps | operations | what is hard | what makes it correct |
|---|---|---|---|---|
| ZYBO group FSM (SM:294-433) | 19-state FSM, `pending_random`, `current_random`, epoch timer, retry counter | draw R, twelve messages of three rounds (UPDATE, COMMIT, CONFIRM with PC and Basys3), 20 ms retries | lost, late and repeated messages; three parties switch one after the other; a restarted program, a reset board | one key in G_RUN, fixed order of switching, no honest frame refused, every epoch ends |
| ZYBO Jetson FSM (SM:437-509) | 10-state FSM, `jetson_generation_seen` | the same handshake as the slave of a polled bus; restarted by any new epoch | full-duplex frames prepared before the request is known; messages without R | traffic enabled only with one key; the Jetson joins the epoch |
| ZYBO AES engines and key FSMs (CU:98-174) | `active_key`, key FSM, key schedules | load a key, accept a packet | a key change with packets in the engine | every packet under one key, both engines under the key reported |
| ZYBO router (CU:420-444, 540-690, 780-890) | hold registers, FIFOs, `last_rack_cmd`, door command | decode, queue, seal, open, drop | full FIFO, result dropped at the end of G_RUN | the racks come to the last command |
| Basys3 management (BS:149-188, 288-430) | `pending_random`, `rekey_in_progress`, `session_established`, one transmit buffer | answer READY / COMMIT_ACK / CONFIRM_ACK, switch when COMMIT_ACK has been shifted, submit a status | one buffer for answers and statuses | answer not overwritten, key switched once, the last status in the buffer |
| Basys3 sensors and servos (`rtl/legacy/dht11_controller.v`, BS:460-484) | reader's FSM, 40 bits, `fire_servo_en` | read, compare with two thresholds | a one-wire line without timeouts | the servo follows the temperature, without chatter |
| PC client (PC) | codecs, `session_ready`, `pending_random`, `queued_commands`, receive buffer | handlers in the receive thread, `send_command` from UI and poll threads | test and transmission not atomic, queue drained at CONFIRM | commands under the current key, none lost, in order |
| Jetson program (JM) | codecs (current, previous, pending), `state`, two queues | `exchange` every 100 ms: next packet, then act on what came back | answer and request cross in one transfer; restart | as above; no answer lost, no codec restarted |
| UART framing (`secure_uart_frame_rx.sv`, `_tx.sv`, PC:329-350) | collecting state, HOLD; a byte buffer | find `A5 5A`, collect 48 bytes | lost bytes, `A5 5A` inside a frame | both receivers see the same frames, one fault costs at most two frames, and one more for each frame with `A5 5A` inside that keeps a receiver astray |
| face and camera clients (`inseok_ex/tcp_*.py`) | `current_R`, `_pending_R`, session key, frames | connect, handshake, receive | R replaced during a handshake, connection lost | both ends settle on one key |
| user repository | a JSON file | load, save by rename | crash between steps, unreadable file | nobody is lost but by a save that could not read the file |
| UI: registration, Face-ID card, rack page, security diagram, video panels (A) | Tk timers, queues filled by threads | buttons, timers, events, page changes | timers that outlive what they were started for; state read in one thread and shown in another | what is shown is what is |
| first-generation program (`software/pc_control_room_secure.py`) | as PC client | as PC client, and temperature commands | as PC client | as PC client |
| vision pipeline, PWM, drawing, 0810_UI, vendor files | - | - | - | section 8 |

The hazards of this code are listed in `PROJECT.json` with the line where each
bites and the properties that are about it; the few without a property say why.

## 2. Modules

Each component is a module.  An MC module extends it, or the composition it is
part of, for TLC; the `.cfg` with the run's name gives the constants their values.

| module | what it is | extends |
|---|---|---|
| `GroupRekey` | PC + Basys3 domain: group FSM, UART, SPI, Basys3, PC client | |
| `GroupRekeyInv`, `SessionKey` | its inductive invariant; the abstract specification of a key change and the mapping to it | `GroupRekey` |
| `GroupRekeyFaults` | the same domain with restarts of the PC program, resets of the Basys3 and the 30 s timer | `GroupRekey` |
| `GroupRekeyFaultsInv` | its inductive invariant | `GroupRekeyFaults`, `GroupRekeyInv` |
| `JetsonLink` | Jetson domain: Jetson FSM, key FSM, SPI slave, Jetson program | |
| `JetsonLinkInv` | its inductive invariant | `JetsonLink` |
| `JetsonTiming` | the same as it is timed: steps of a clock against transfers of 40 microseconds every 100 ms | `JetsonLink` |
| `KeyInstall` | key FSM, key schedules and handshakes of an engine pair, clock by clock | |
| `SyncFifo`, `BoundedQueue` | the ring buffer of the router; the abstract queue it implements | |
| `SecureRouter` | decrypter -> command FIFO -> encrypter in one clock, while the key changes | `KeyInstall`, `SyncFifo` |
| `RackCommands` | a command from the button through the client's threads, UART, decoder, FIFO and engine to the racks, and back to the display | |
| `StatusReport` | a reading from the Basys3's snapshot through the shared transmit buffer, SPI, FIFO and UART to the PC | |
| `FrameSync` | transmitter and both receivers of frames, byte by byte | |
| `CameraStream` | the camera's TCP thread and the server it expects | |
| `VideoPanel` | channel B's panel over that stream | `CameraStream` |
| `UserRepository` | the users' file and a save in steps | |
| `Registration` | the registration of a face, up to the file | `UserRepository` |
| `FaceOverlay`, `SecurityFlow` | the Face-ID card; the live security diagram | |
| `ControlRoomV1` | the first-generation program with the ZYBO's decoder | |
| `*_proofs` | theorems checked by TLAPS, see section 6 | |

How they fit together.  Three modules are compositions of two components that
share state: `SecureRouter`, `VideoPanel` and `Registration`; each extends both, and
each of its steps is a step of one component, or of both at once, beside what it
adds.  `GroupRekey` implements `SessionKey`, `SyncFifo` and with it `SecureRouter`
implement `BoundedQueue`, `Registration` implements `UserRepository`.  Elsewhere,
what one module takes for a single step or a simple queue another one opens: the
installation of a key (`GroupRekey` -> `KeyInstall`), the router's FIFOs
(`RackCommands`, `StatusReport` -> `SyncFifo`), the loss of a frame (`GroupRekey` ->
`FrameSync`), the key change itself (`RackCommands`, `StatusReport`, `SecurityFlow`
have its stages, `GroupRekey` its messages).  Those are not composed into one
specification: the product is out of TLC's reach, and each module's header says
which part it abstracts.

Definitions that begin with the comment "Mutation:" or "A mutant of" are variants
of a definition that follows them, with one plausible bug each;
`PROJECT.json` says which property each of them breaks.  No specification uses
them.

### GroupRekey

One action per transition of the group FSM, per handler of the PC and per step
of the SPI bus.  How the state corresponds to the code:

- `group_state`, `pending_random`, `current_random`, `active_key`: the
  registers of SM and CU.  A key is named by its R; `NoRandom` stands for the
  reset value 0, whose key is MASTER itself.
- `toPc`, `fromPc`: the UART, as sequences of frames.  A frame is a type and an
  R: the R it carries when it is clear, the key it is sealed under when it is
  not.  `LoseToPc` and `LoseFromPc` drop the frame at the head: a frame with
  corrupted bytes never becomes a packet.
- `pc_*`: the fields of the client.  The two codecs are always switched
  together under `tx_lock` and are one variable, `pc_key`.  `send_command` is
  two actions, `CheckSessionReady` and `SendCommand`, because the test of
  `session_ready` is outside the lock.
- `pc_handler`: the receive thread answers before it assigns.  `HandleCommit` writes
  COMMIT_ACK (PC:298-299), `InstallCodecs` replaces the codecs (300-304);
  `HandleConfirm` writes CONFIRM_ACK (308-309), `BecomeReady` sets `current_random`
  and `session_ready` (311-312).  In between the coordinator may use the answer, and
  other threads may run; only who wants `tx_lock` waits until the codecs are there.
  The properties therefore speak of `KeyInUse`, the key the next frame of the client
  will be sealed or opened with, of `HasConfirmed` and `ConfirmedR`; where they say
  `pc_key` or `pc_ready` the assignment has been made.
- `spi_pending`, `spi_mosi`, `spi_miso`: the frame waiting for the SPI master
  and the two frames being shifted.  `StartTransfer` takes the snapshot of the
  Basys3's buffer, `EndTransfer` delivers both frames.
- `bs_*`: the registers of BS of the same names.

Every wait is an action that may happen at any time: the model does not know
how long 20 ms or 30 s are, so it contains every order of time-outs, answers
and epochs, including ones the clock makes unlikely.

`CollidingArrivals` is the case of CU:551-560: a PC frame and a Basys3 frame
presented to `session_rx` in the same clock.

### JetsonLink

- `new_generation` stands for `epoch_generation # jetson_generation_seen`.
  `Goto` is the first clause of the FSM (SM:446-451): every transition of this
  clock is overridden by a new generation.
- `spi_tx`, `management_pending`: `jetson_spi_tx_packet` keeps its frame until
  it is overwritten, so the Jetson receives the same frame with every poll.
- `StartTransfer` is chip select falling (snapshot of `spi_tx` into `miso`,
  next packet of the Jetson into `mosi`), `EndTransfer` the 384th bit: the ZYBO
  gets its frame, clears `management_pending`, and the Jetson runs
  `complete_transfer`: first the packet's `after_send`, then the frame received.
- `JetsonTiming` adds `untimely`, a history variable: a frame for the Jetson became
  ready while a transfer was shifting (`LateLoad`), or an FSM that could take a
  step did not take it before the next transfer (`OneClock`).  A transfer takes
  about 40 microseconds of every 100 ms, so both are rare; `SwitchFollowsR` and
  `EpochServed` are stated for the behaviours without them, all other properties
  of the link for every behaviour.
- `NewEpoch` is what the group FSM does to this one: draw R, count the
  generation.  It can happen in any state.
- `RestartJetson` is the program being stopped and started again.
- timing that the model does use: an encryption, the loading of a key and the
  one clock of `J_SWITCH_LOCAL` (SM:479-482) end within one SPI transfer (guards of
  `EndTransfer`), the ZYBO has
  dealt with a received frame before the next poll (guard of `StartTransfer`),
  and a new handshake reaches its switch only after the last key load has
  ended (`SwitchLocal`).

### GroupRekeyFaults

`RestartPc` gives every field of the client its first value; frames on the
UART stay.  `ResetBasys` does the same for the board and cuts a transfer.  The
coordinator is not told: that is the point of the module.  `stuck` records the
three events from which the code does not recover: a fault in the rounds in which
the coordinator asks a peer about the R it has told it before (`PcForgets`,
`BasysForgets`), and `CollidingArrivals`.  Only `DomainHeals` looks at it.

### KeyInstall

One action, `Clock`: every register is assigned from the old values, as in the
code.  `core[e]` counts the cycles of the packet an engine works on, `under[e]`
is the key it was accepted under, `offered[e]` that a packet waits at its input.
The session manager is the source of `reload` and keeps the encrypter's source
quiet outside G_RUN; nothing does so for the decrypter.  `quiet` is a history
variable that says whether a frame waited for the decrypter during the
installation; `KeyInstalled` depends on it (deviation 15).

### SyncFifo and SecureRouter

`SyncFifo` has one action per case of the code's `case ({wr_en, rd_en})`.  In
`SecureRouter` one clock edge advances the key FSM, both schedules and cores, the
FIFO and the write request at once: a command opened in G_RUN sets
`basys_cmd_fifo_wr` if the FIFO is not full now, and is written one clock later;
the encrypter takes the FIFO's head when it accepts.  Everything else that may
occupy the engines is a free choice of each clock.

### RackCommands

`ui`, `rx` and the poll are threads with a program counter; `send_command` is
split where another thread may come in: the test of `session_ready`, the append
or the write.  A command carries a serial number, the set of racks, whether it is a
poll and whether it was sealed under the true key (the attack test is not); OPEN and
CLOSE of the door itself are not told apart.  `uart`, `fifo` and `enc` are where it
may be on its way, `last_rack_cmd` and `racks` where it ends.  `events` are the Face-ID
results that wait for the UI thread, `rack_mask` is the client's belief; what only
draws is left out.  `HandleKeyConfirm` sends CONFIRM_ACK, `BecomeReady` sets
`session_ready`, then the queue is flushed one command at a time.  The four stages of
the key change are those in which the code treats a command differently.  `dropped`
and `wanted` are history: whether the last command that came to the decoder came
outside G_RUN, and what the newest command of the operator opens.

### StatusReport

A reading is its number, and every other one has the same content, since
`last_submitted_status` compares contents.  Init is power-up: no session, no
reading submitted.  Commands of the ZYBO are transfers like any other in stage
"run".  A sealed status may become valid in the cycle a management frame arrives,
which the code resolves to the frame's favour; `collided` remembers it.

### FrameSync

A byte is a symbol; a lost, damaged or ignored byte is a fault, counted.  R and the
sealed part of a frame may hold `A5 5A`: `inner` counts the frames with it inside that
begin while the hardware receiver is collecting something else, since only such a
frame can keep it astray.
Outside HOLD no byte is ignored; a byte that arrives in HOLD is a fault
(`missed`), because it means that the router was slower than a byte time.

### CameraStream and VideoPanel

The server's side is what the client's handlers expect of it (see the module's
header); it is marked external in `PROJECT.json`.  A socket is up or down; down,
`recv` returns nothing and `send` raises, which ends the thread.

The thread takes no lock against the UI thread, so its loop is cut where the UI
thread's calls make a difference: a new R is looked at in state "main" only, between
two packets (`tcp_camera_stream.py:169`), and taken in two statements (171-172);
`_recv_frame` ends only with a packet ("read"), since `_recvall` goes on over its
time-outs (85-98); of a frame, `ReceiveFrame` makes channel B's key (181), `DecodeA` writes
channel A (185), `TestB` reads `b_master_key` once more (194) and `DecodeB` writes channel B
(195 or 202).  `BreakInPacket` is the exception of lines 216-218, which blanks both.

The panel reads `last_a` and `last_b` at every `_update`; `set_video_key_mode`
writes both the panel's mode and the stream's `b_wrong`.  A picture on the screen
is the record of what it was drawn from, and `signature` is the code's
`_render_signature`.

### UserRepository and Registration

`save` is four steps, each of which may fail, the reading included, with a crash
possible between any two.  A reading that fails has no users (`load_all`), and the save
goes on and writes one user: `forgotten` are the users that were lost this way.
`users.save` is called in the UI thread: while `step # "idle"` no other job
of the UI runs (`UiStep`), but the senders, the server and a crash go on.  Each
registration is a user, since `user_id` is made of the time.  `after_cancel` works
on the job whose id is remembered, so the number of scheduled jobs and the
remembered id are two variables.

### FaceOverlay and SecurityFlow

Everything in the UI thread is a job of Tk's timer, so an action is a job or an
event handler as a whole.  What other threads do reaches it through a queue,
which is a sequence.  In `FaceOverlay` time passes in seconds, and a job that is
due runs before the next second; in `SecurityFlow` the jobs come in any order.
The emission of a crypto event is two actions, `Send` and `EmitSent`, because
`_emit_crypto` reads `current_random` after `tx_lock` has been released.

### ControlRoomV1

As `RackCommands`, but with the key handshake message by message, since this
program builds its codecs in the handler and counts their frames from zero.

## 3. Runs

| run | instance | checks | shows |
|---|---|---|---|
| `GroupRekey_safety` | 3 randoms (symmetric), 3 frames per UART direction, collisions | `IInv RunAgreement SwitchOrder HonestFramesAuthenticate AckedRoundsAreReal ImplementsSession` | all safety of the PC + Basys3 domain, and that it implements `SessionKey` |
| `GroupRekeyFaults_cycle` | 2 randoms, 2 frames, collisions, one restart, one reset | `FaultsContained NoCodecStartsAgain DomainHeals` | a restart and a reset in any state of a key change do no harm that outlives the epoch, and sessions come back |
| `JetsonLink_timed` | 3 epochs, one restart, one Face-ID event, OPEN | `SessionIsShared KeysMoveForward NothingSwallowed SwitchFollowsR EpochServed` | safety of the Jetson domain, and that every epoch is served |
| `SecureRouter_clocked` | 3 keys, schedules of 3 and packets of 6 clocks, FIFO of 2, 2 commands | `KeyHeld KeyInstalled GrantedWriteLands ImplementsQueue InstallEnds` | KEY HOLD, installation and FIFO with each driving the other |
| `RackCommands_client` | 1 rack, 3 commands, 1 Face-ID event waiting, 1 key change, queue of 2, FIFO of 1, unplugging after at most 1 command | `EachCommandOnce OldestGoFirst AtMostOneStranded CatchUpOrReport` | what three threads and a queue without a lock do to commands: none doubled, the oldest forgotten, one stranded, and what the doors come to |
| `StatusReport_line` | 3 readings, 2 key changes, FIFO and line of 2 | `BufferInv ReportsArrive` | the last reading arrives, none older after it |
| `FrameSync_lines` | frames of 4 bytes, with `A5 5A` inside or without, 2 faults, chunks of 2 | `FramingInv Resync` | the two receivers agree, and recover |
| `Registration_enrol` | 2 registrations, 2 cancels, 2 pictures, 2 saves, 1 crash, 1 rack, failing reads and writes | `CancelledIsNotSaved SavedUsersPersist NothingLeftBehind RegistrationEnds` | cancelling and registering again, down to the file |
| `VideoPanel_stream` | 2 R, 1 repeat, 2 frames (4 events in all), 1 break | `ScreenInv OnlyWithCause ScreenFollows` | overlapping key changes of the camera, and what is on the screen meanwhile |
| `SecurityFlow_diagram` | 2 epochs, 1 event waiting, 2 commands | `DiagramInv DiagramFollows` | the diagram shows what the fields say, one route at a time |
| `FaceOverlay_card` | 2 users, one registered, 2 TCP events, 2 results, 1 page change | `CardInv CardFollows` | the card is the right one, for its full time |
| `ControlRoomV1_session` | 1 rack, 2 epochs, 2 commands, 1 face, queue and line of 1 | `CodecsInStep SessionComes` | the first-generation program closes no rack by mistake |

A run checks one property for each question it asks.  Some of them are
conjunctions of named parts, which the modules state and explain one by one:

| property | its parts |
|---|---|
| `FaultsContained` | `TypeFaultsOK CommandsAuthenticate SessionIsReal DamageEndsWithEpoch` |
| `SessionIsShared` | `TypeOK JetsonAgreement ReadyIsReal DoorFramesAreCurrent FaceFramesAuthenticate` |
| `KeysMoveForward` | `KeysInOrder NoCodecStartsAgain` |
| `CatchUpOrReport` | `RacksCatchUp NewestDecides UnplugIsReported` |
| `BufferInv` | `TypeOK BufferHoldsLast` |
| `ReportsArrive` | `NeverOlder ReportArrives` |
| `FramingInv` | `TypeOK SameFrames LossBounded` |
| `NothingLeftBehind` | `RegistrationTypeOK SavedIsEnrolled CancelRemovesPictures OneCaptureChain NoClearWhileActive ContourIsAnimated` |
| `ScreenInv` | `PanelTypeOK KeysAgreeAtRest HealthMatchesPicture` |
| `OnlyWithCause` | `BlankOnlyInKeyChange ChannelBBlocked StaticIsManual NeverEmptyWithFalseKey` |
| `ScreenFollows` | `FollowsR PictureFollows StaticGoes` |
| `DiagramInv` | `TypeOK DrawnIsCurrent DarkWithFalseKey` |
| `DiagramFollows` | `LightFollowsRoute LightGoesOut FormulaHealed` |
| `CardInv` | `TypeOK OldestFirst NoAnimationWhenHidden` |
| `CardFollows` | `ShowsLastAsked StaysFullTime ReturnsToChannels` |
| `CodecsInStep` | `TypeOK ReadyMeansKey NonceFresh NoFalseSafeState` |

`IInv` of `GroupRekey` contains its type invariant; the types of `RackCommands`,
`KeyInstall` and `SyncFifo` are theorems.

What the less obvious properties say:

- `RunAgreement`, `JetsonAgreement`: traffic is enabled only while everybody in
  the domain holds the key of the running epoch.
- `HonestFramesAuthenticate`, `CommandsAuthenticate`, `FaceFramesAuthenticate`,
  `NoFalseSafeState`: no frame of an honest sender meets another key where a
  failure has consequences.  A refused command closes every rack and the door
  (CU:648-657, BS:233-239), so this is a safety property of the building, not
  only of the protocol.
- `AckedRoundsAreReal`: late and repeated acknowledgements never pass for the
  ones of this round.  The UART keeps the order of frames, so it is the type of
  an acknowledgement that this rests on: without the comparison of R (SM:169-176)
  the instance still has the property, without the comparison of the type it has not.
- `KeysInOrder`, `NothingSwallowed`, `DoorFramesAreCurrent`, `SwitchFollowsR`: the
  Jetson never returns to an older key; no response's `after_send` is lost in its
  queue; `previous_rx_codec` never decides about a door command; and although READY
  and COMMIT_ACK carry no R on this link, the ZYBO never switches to a key whose R
  the Jetson does not have.
- `NoCodecStartsAgain`, `NonceFresh`: no codec, whose IV counter begins at 1,
  starts under a key it has been used with (SPEC:116).
- `KeyHeld`, `KeyInstalled`: no packet is finished under another key than the one
  it was accepted under; an active key is the key of both engines.
- `RacksCatchUp`, `NewestDecides`: the doors come to the last command the decoder
  took; and that is the newest of the operator's, if it was the last to be sent and
  came to the decoder in G_RUN.  They do not say that a command is never lost
  (deviations 6 and 7).
- `ChannelBBlocked`: while the wrong master key is set, channel B gets no newer
  picture, but for the frame the thread had in hand when it was set.
- `FollowsR`: a new R that waits at the head of the loop, or with a packet on its way
  that ends the read, becomes the key of the pictures, unless the next R overwrites it
  between the two statements that take it or the connection breaks.
- `SavedUsersPersist`: the file is whole or absent and holds what was saved last of
  every user, except of those whom a save that could not read the file dropped.
- `LossBounded`: a fault costs two frames at most, and one more for each frame with
  `A5 5A` inside that begins while the receiver is astray.
- `AtMostOneStranded`: a command appended after the receive thread has flushed
  the queue waits for the next key change; never more than one does.
- `SameFrames`: however the program's reads cut up the byte stream it finds
  exactly the frames the hardware's byte-wise receiver finds, also after damage.
- `CancelledIsNotSaved`, `OneCaptureChain`, `NoClearWhileActive`: neither a late
  answer nor a timer of an earlier registration reaches a later one.

Bounds, and why they are enough.  The runs have between 23 thousand
(`GroupRekey_safety`) and 550 thousand (`RackCommands_client`) distinct states.

- Two randoms make an epoch differ from the last; the third lets an R come back
  after another epoch.  Three frames per UART direction let an old answer, a new
  answer and a command be under way at once.  With faults, two of each leave room
  for one fault of each kind in every state of the handshake, which may then be
  followed by any number of further epochs: epochs are not counted there.
- On the Jetson link the single-frame transmit register forgets everything but
  the last frame, so a frame can be at most one epoch old, and three epochs give
  every handshake a predecessor and a successor.
- The clocked model has schedules and packets of different lengths, neither a
  multiple of a FIFO's period, so that every alignment of a packet with the key
  FSM occurs; the FIFO of two is empty, full and between.  The proofs are for all
  lengths and depths.
- `RackCommands`: with a queue of two, three commands are in it in some order and
  make it overflow; both halves of `OldestGoFirst` have a mutant that breaks them, and
  `QueueForgetsTheOldest` proves them for every length.  Pulling the adapter out ends
  everything, so it is enough that it may come after the first command.
  `ControlRoomV1` has a line of one; `InStepAlways` is for every bound.
- Three readings give a value, its change, and the change back; two key changes
  let a report be older than the one before.
- Frames of four bytes: two with ends that make a search see `A5 A5 5A`, one with
  `A5 5A` inside; two faults may hit one frame twice or two frames in a row.  One frame
  may keep the receiver astray (`MaxInner`); two of them, and frames of five bytes,
  were checked once.
- Two registrations: the interference of a thread, timer or answer is with the
  registration after it.
- Two R of the camera: a key change can overtake another one in every message.
  `MaxInputs` bounds calls of `update_random` and frames together, for the run's size: any
  three of the kinds and a fourth event of one of them.

`CHECK_DEADLOCK FALSE` stands where a bounded instance really comes to its end:
all commands given and nothing under way any more.

## 4. Fairness

- `GroupRekeyFaults`: the FSM, the SPI bus and the Basys3's key FSM are clocked
  and never stop (WF).  The UART loses frames, but a request repeated for ever is
  handled again and again, and its answer is received again and again (SF on the
  handlers and on the receipt that moves the FSM).  `TimedFaultsNext` says that a
  SEND state whose transmitter is free lasts one clock, so no answer arrives in
  it, and that the 30 s of G_RUN are longer than the client needs for the statements
  that follow an answer.  The 30 s timer runs (WF of `ExpireSession`), and so does
  the client's receive thread (`InstallCodecs`, `BecomeReady`).  Restarts, resets and
  losses are never fair.
- `JetsonTiming`: the FSM, engines and key FSM are clocked, the Jetson's loop polls
  for ever (WF); a received frame is not lost to a PC or Basys3 frame of the same
  clock every time, and the door command finds the transmit path free again and
  again (SF).
- `SecureRouter`: the clock (WF).
- `RackCommands`: each of the three threads is scheduled, the ZYBO is clocked (WF).
  The operator and the adapter owe nothing.
- `StatusReport`: both boards are clocked, the PC polls every two seconds and reads
  (WF).  New readings and key changes are not fair.
- `FrameSync`: transmitter, FPGA and receive thread run, and frames keep coming (WF).
- `Registration`: the UI's jobs, the senders and the save take their steps (WF); a
  sender that waits ends at the latest by its socket's time-out (A:2090).  The
  server need not answer; the operator and the camera owe nothing.
- `VideoPanel`: the stream's thread, the server and the panel's timer run (WF);
  frames need not come, so a thread that waits in `_recv_frame` may wait for ever, and
  `FollowsR` has that case in its premise.
- `SecurityFlow`: threads and timers run (WF).  SF on the end of an epoch and on the
  emission, because only the bound on waiting events can disable them: in the code
  the queue is unbounded.
- `FaceOverlay`: time passes and a job that is due runs (WF).
- `ControlRoomV1`: threads and the ZYBO's repetition run (WF), of frames sent again
  and again one arrives (SF).

## 5. Known deviations

Where the code does not do what its documents or comments say, the property in
question is stated so that it excludes exactly that case, or is not stated.  Each of
these was found as a counterexample of a stronger property, and each can be read
off the model's actions named here.

1. CU:551.  A PC frame and a Basys3 frame presented in one clock: the Basys3's is
   dropped although its hold register is cleared (462-463).  If it was CONFIRM_ACK,
   KEY_CONFIRM is not repeated (SM:412-428 only polls); once a status has replaced
   CONFIRM_ACK in the Basys3's buffer the key change never ends
   (`CollidingArrivals`, `stuck`).  `README.md:13` promises that key-change conflicts
   are prevented.
2. SM:370.  A PC program restarted between its READY and its CONFIRM_ACK ignores
   KEY_COMMIT and KEY_CONFIRM (PC:292, 306); the coordinator repeats them for ever
   (`PcForgets`).
3. SM:177.  The Basys3's acknowledgements are taken without looking at their R: a
   Basys3 reset between READY and KEY_COMMIT acknowledges with R = 0, installs the
   master key and is let into G_RUN, where every rack command fails until the next
   epoch (`DamageEndsWithEpoch` says that it ends there).
4. CU:875.  A KEY_UPDATE loaded during a transfer that carries READY counts as sent;
   the Jetson switches to the previous epoch's key and misses this epoch
   (`LateLoad`).  SPEC:315-316 says that a Jetson joins with the current KEY_UPDATE.
5. CU:887.  The door command encrypted on entry of J_RUN is dropped when a repeated
   KEY_CONFIRM is pending, and `last_jetson_cmd_submitted` says that it was sent.  The
   retry period (20 ms) is shorter than the poll period (100 ms), so this is usual.
6. PC:314.  Commands kept during a key change are flushed right after CONFIRM_ACK,
   before the Basys3 is confirmed; the ZYBO drops them outside G_RUN (CU:630).
   `0810_UI/README.md:40` says that the queue is kept during rekeying.
   Nobody is told, so `NewestDecides` excludes it (`dropped`).
7. PC:312.  `session_ready` is set before the flush, so a command of the UI thread
   overtakes older ones, and the older rack mask decides; another is appended after
   the flush and waits for the next key change.
8. PC:246.  `set_door` sends rack nibble 0 and leaves `rack_mask` alone: the ZYBO
   closes every rack, the display shows them open.
9. A:2616.  A `rack_state` event that waited in the UI queue draws an older mask over
   the one set by `_handle_face` or `run_invalid_key_test` (not in the modules).
10. A:2535.  The attack test resets mask and display although its frame was not sent
    (`AttackNotSent`, the mask only).
11. CU:789.  A command in the encrypter when G_RUN ends is discarded, its FIFO entry
    is gone; the next session's poll repeats only `last_rack_cmd`.  `README.md:161`
    says that packet drops are prevented.
12. A:1281.  `_start_face_animation` returns before setting the tint when the event has
    no image: the card of an authorized user keeps the red tint of a denied one
    (`StartAnimation`).
13. `user_repository.py:21`.  `load_all` answers a file it cannot read with no users;
    `save` then replaces the file by one user (`unread`, `forgotten`).
14. PC:138.  A crypto event made between KEY_COMMIT and KEY_CONFIRM pairs the new key
    with the old R: the formula on the screen is false until the next frame
    (`FormulaHealed`).
15. CU:111.  A frame that waits for the decrypter is accepted in the clock between
    the test of `key_ready` and the pulse of `key_load`; the decrypter then keeps the
    old key until the next epoch (`quiet`).
16. BS:424.  A status sealed in the cycle in which a management frame arrives is lost,
    and `last_submitted_status` says that it was sent (`collided`).
17. A:373.  `_distortion_tick` starts at 0, the value an undistorted signature has
    there: the first false key over a picture that does not change is not drawn.
18. V1 (`pc_control_room_secure.py:296`).  The temperature command 0x80 | t is taken
    for a rack command (CU:632-647): 0xA8 opens rack 4 alone.
19. `secure_uart_frame_rx.sv:4`.  A receiver that locks on to an `A5 5A` inside a frame
    that is repeated unchanged, as KEY_UPDATE is with a random R, locks on to it
    again for ever.  `Resync` holds because `MaxInner` bounds such frames; of any number
    of them `LossBounded` says what they cost.
20. A:1481.  `set_open` records a door commanded during a fire and does not draw it
    afterwards (not in the modules).
21. `dht11_controller.v:129-169`.  The reader waits for a level without a time-out; a
    missed edge stops it for ever (not in the modules).
22. `tcp_camera_stream.py:171`.  `update_random` between the two statements that take an
    R is overwritten by the second: that R is never used (`lost_R`).
23. `tcp_camera_stream.py:181`, `194`.  `set_b_master_key` in the middle of a frame: channel B
    still gets that frame (`b_ok`).
24. `tcp_camera_stream.py:85-98`.  A new R waits until a packet has come, since `_recvall` goes
    on over every time-out (the premise of `FollowsR`).

## 6. Proofs

All theorems hold for every value of the constants that satisfies the named
assumptions of the modules.  `PROJECT.json` lists them.

**`GroupRekey_proofs`**: types, stages, `RunAgreement`, `SwitchOrder`,
`HonestFramesAuthenticate`, `AckedRoundsAreReal`, `ImplementsSession`.  None of the
safety properties is inductive: the counterexamples to induction are states in which
the wires hold frames nobody could have sent, so `IInv` says, for each stage of the
group FSM (`AskingPc`, `AskingBasys`, `CommitPc`, `CommitBasys`, `Switching`,
`ConfirmPc`, `ConfirmBasys`, `G_RUN`), in which mode each peer is and which frames can
be on the wires:

- `ZyboInv`: before the switch the ZYBO's key is the old one, after it the new;
- `PcInv`: the PC either has not seen R or has; on the UART, frames of this
  epoch follow those of the last (`Ordered`), and after COMMIT_ACK no command
  under the old key follows.  The client flushes COMMIT_ACK and CONFIRM_ACK before
  it changes its fields, so the group FSM can be a round ahead of them; these clauses,
  like the properties, speak of `KeyInUse` and `HasConfirmed`, which count an answered
  round as done from the moment its answer is on the line;
- `BasysInv`: the Basys3 is `Quiet`, `Prepared`, `Committed`, `Shifted` or
  `Confirmed`, with the frame it offers and the frame on the bus in each mode.

`IInvStep` proves that each action preserves each part, by a lemma per part and
action over lemmas on sequences of frames.  `Implements` maps each action that changes
one of the three keys to `Move`, `BeginEpoch` to `Begin`, the entry of G_RUN to
`Enable` and everything else to a stutter.

The same module has `FaultsContained` and `NoCodecStartsAgain` of `GroupRekeyFaults`, for
any number of restarts and resets.  With a peer that may lose its memory at any
moment `IInv` does not hold; `FaultsInv` says what is left of it, again by the stage
of the group FSM.  The client is in one of the modes `PcGone` (restarted), `PcInSession`,
`PcHasR` and `PcSwitched` (`FPcInv`); the board offers nothing of this epoch (`Calm`), offers one
of its acknowledgements (`Offers`), or has taken over, confirmed or lost the key
(`FShifted`, `FConfirmed`, `Reset`; `FBasysInv`).  What is claimed of the board is claimed
while it has not been reset in this epoch (`was_reset`): a fault spoils its own epoch
at most.  `UnusedInv` says that no command is sealed under the epoch's key before
COMMIT; that is what `NoCodecStartsAgain` needs.

**`JetsonLink_proofs`**: `SessionIsShared`, `KeysMoveForward`, `NothingSwallowed`, and
`SwitchFollowsR` of the timed link.  The handshake can be restarted by a new epoch in
any state while frames of the old one are in the ZYBO's register, in a transfer and
in the Jetson's queue.  The inductive invariant, `JetsonLinkInv`, therefore orders
what is on the way instead of naming stages:

- `QueueInv`, `BusInv`: at most one response waits, and one frame is dealt with at a time;
- `RegisterInv`, `SealedInv`: where the FSM stands tells what the register holds, and a
  sealed frame is under the key the engine has;
- `OrderInv`, `UpdateInv`: the R in the register, in the transfer and in the Jetson are
  in the order they were drawn, and a KEY_UPDATE that is still there has not been
  committed;
- `JetsonInv`, `OutgoingInv`, `HoldInv`: what `state` and each response on its way say of
  the Jetson's fields;
- `QuietInv`, `RunInv`: no session while the ZYBO switches, one key while it is enabled.

`SwitchFollowsR` adds `CarriedInv`: as long as no frame was loaded in the middle of a
transfer, a transfer that ends has carried what the register holds, so a KEY_UPDATE
that has left the register was seen by the Jetson.

**`SecureRouter_proofs`**, in four parts.  The engines: `KeyHeld` and `KeyInstalled`.
`ScheduleInv` ties valid, busy and load; `PhaseInv` says which states of session and key
FSM go together; `OfferInv` who is fed when; `InstallInv` how far the installation is:
idle engines that do not listen, a load in both, schedules that run or have ended, the
key in both.  The parts that concern the decrypter have the premise `quiet`.  The FIFO:
the count is the distance of the pointers, and the ring implements `BoundedQueue`; the
mapping reads the ring from the read pointer for `count` elements, and each of the
three cases of the code's `case` is shown to append, take or both.  The router: one of
its clocks is a step of `KeyInstall` and a step or stutter of `SyncFifo`, so the theorems
of both hold of it, and `GrantedWriteLands` by `GrantInv`: only one write can be waiting,
because the decrypter does not present two plaintexts in successive clocks.

The line (`FrameSync`, which shares no variable with the router): `SameFrames` holds for frames of any length,
any damage and any way of reading: `SameCuts` gives the places in the stream of bytes,
buffered or waiting, at which the hardware has cut the frames the program still owes,
and what the hardware has looked at behind the last of them.  A byte more extends the
places (`CarryCuts`), the program's search finds the first of them (`CutOff`), and what it
drops belongs to none.  `LossBounded` is `Paid`: the frames that are still to be lost for
the faults so far (`Debt`, 0 to 2, by how far the receiver is in step with the
transmitter) are counted before they are lost.  Nothing is assumed of the frames: one
with `A5 5A` inside, which may lead a receiver that is astray to cut at the wrong place
again, is paid for in advance (`Due`) and counted by `inner` (deviation 19).

**`RackCommands_proofs`**: types, `OldestGoFirst`, `AtMostOneStranded` and
`EachCommandOnce`.  The first ones need that the command in the UI thread's hand is
newer than all that are queued or forgotten (`CallIsNewest`) and that the queue is in
the operator's order (`QueueInOrder`).  The last one is proved with `PlacesInv`: while
the cable is in, the six places a command can be in (sent, queued, in the hand of the
UI or the receive thread, forgotten by the queue, or refused) are pairwise apart and
together all that was given, and nothing was sent twice.

**`StatusReport_proofs`**: `BufferInv`, and `NeverOlder`, the safety half of
`ReportsArrive`.  `ReportInv` says what the transmit buffer, the sealed frame and the
flags mean for each other in every stage of a key change.  `PipelineInOrder` says
that what is at one place of the way from board to display, in the FIFO, in the
encrypter or on the line, is in order, and not newer than what is still behind it.

**`Registration_proofs`**: of the file, types and `SavedUsersPersist` by `SaveInv`: a
save in progress that could read the file holds every user on it, and writes what it
holds.  Reading may fail at any time; what such a save drops is the history `forgotten`
and no longer owed (deviation 13).  Of the
page, types, `CancelledIsNotSaved`, `NoClearWhileActive`, `NothingLeftBehind`, that it uses
the file as `UserRepository` says, and with it `SavedUsersPersist`.
`CancelledIsNotSaved` needs the whole chain: generations count (`CounterInv`), the
current registration is the last and not a cancelled one (`CurrentInv`), a thread or a
result of this generation is the current registration's (`ThreadInv`, `ResultInv`),
what is on the disk are earlier ones that were not cancelled (`SavedInv`), and a save
in progress adds the current one (`WriteInv`).  `NothingLeftBehind` adds `LeftInv`: the one
capture chain and its scheduled jobs (`ChainInv`), that the server knows who is saved
(`EnrolledInv`), and the parts about pictures and the contour, by the lemma `PictureStep`.

**`ControlRoom_proofs`**: `ScreenInv` and `OnlyWithCause` of the video panel.  `StreamInv`
follows the R of overlapping key changes through both directions of the connection,
up to the one both ends settle on; `PanelInv` ties words, picture, signature and the
two flags.  The camera thread runs statement by statement against the UI thread, so
`OnlyWithCause` is about the frame in hand: a picture gets into channel B only from a
frame during whose handling the true key was set at some time (`b_ok`), whatever key is
entered between the test of the key and the write.  Beside it, without a common variable, stand the diagram (`DiagramInv` and
`LightFollowsRoute`, with what is left of the animation's route as the invariant) and
the Face-ID card:
`CardInv`, `StaysFullTime` and `ShowsLastAsked`.  `CardTimers` says which jobs of Tk's timer
can be scheduled for a hidden and for a shown card, `TcpOK` that the queue of events is
in the order of their age, `SearchOK` and `CardOK` for which generation and identity a search
and a card are.  That the newest matching event is found needs the stale ones to be the
first of those received, and with it that a set of numbers has a least element (the
lemma `Least`).

**`ControlRoomV1_proofs`**: `CodecsInStep`, by `OrderInv`: the types, and for each stage
of the key change, how far the program's codecs are behind the ZYBO's (`InStep`) and
in which order frames of the old and the new key are on the line in both directions
(`DownInOrder`, `UpInOrder`); no key that was used is beyond the transmitter's.

Each inductive invariant was checked by TLC on the instances of section 3 before it
was proved.  Where an attempt failed the reason was sometimes the model:

- `JetsonLink`: in an instance with four epochs a transfer could end in the single clock
  of `J_SWITCH_LOCAL`, and a response of a Jetson two epochs behind was taken under a key
  about to change.  The code's FSM leaves that state in the next clock whatever the bus
  does, so `EndTransfer` now excludes it.  The run keeps three epochs for its size;
  four were checked once.
- `ControlRoomV1`: the first epoch always exists, which `MaxEpochs \in Nat \ {0}` now says.
- `AtRest`, `NoAnimationWhenHidden` and the events `FaceOverlay` looks through (`Stale`,
  `FreshEvents`) are stated over positions and members instead of through `SelectSeq`
  and `Cardinality`, whose properties need induction; they mean the same, because the
  queue is in the order of age (`OldestFirst`, a part of `CardInv`).

Only model-checked are liveness and the properties that are liveness in part
(`DomainHeals`, `EpochServed`, `ScreenFollows`, `DiagramFollows`, `CardFollows`,
`ReportsArrive` and their like, whose safety halves are proved where this section says
so): the prover has no rule for fairness.

## 7. What could come next

- The arbiter's choice among three FIFOs in `SecureRouter` with their channel
  numbers.
- The cards and the event log of the rack page, the face client's own thread, the
  DHT11 reader: each is a small sequential machine on its own.

## 8. Not modelled

- AES-GCM: a frame opens under the key it was sealed with and no other.  IV
  counters appear only in `NoCodecStartsAgain` and `NonceFresh`.
- Corruption of a frame that leaves it well formed but not authentic.
- The bits of UART and SPI below a byte and a transfer: `uart_rx.sv`, `uart_tx.sv`,
  `spi_master.sv`, `spi_slave.sv` sample and shift; the two events of a transfer that
  matter, the snapshot and the last bit, are steps.
- The face client's thread (`tcp_face_client.py`), whose handshake is that of
  `CameraStream` without the overlap; its queue of events is in `FaceOverlay`.
- The rack page's cards, popup and log; the DHT11 reader and the fire decision; the
  PWM of the servos.
- The vision pipeline (OV7670, drone detection, HDMI, LEDs): pixel arithmetic without
  protocol state.
- The client's SIMULATION mode, which talks to nothing, and handshake dropouts of the
  camera panels, which the program never enables.
- `0810_UI/app.py` cannot be imported (line 9 is `from queue import Empty, Que`).  Its
  client, repository and cipher are near copies of those of `inseok_ex`, which are
  modelled.
- Drawing, layout, login, generated and vendor files.
