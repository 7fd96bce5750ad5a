---------------------------- MODULE RackCommands ----------------------------
(***************************************************************************)
(* What happens to a command of the operator: app.py's set_rack, set_door, *)
(* set_all_racks, run_invalid_key_test and _handle_face, the three threads *)
(* of SecureSerialClient (UI, receive, poll), the queue of commands given  *)
(* during a key change, the UART, and the command decoder of the ZYBO.     *)
(*                                                                         *)
(* The key change itself is GroupRekey's; here it is four stages:          *)
(*   "run"      G_RUN, the ZYBO takes commands                             *)
(*   "update"   the epoch has begun, the PC does not know yet              *)
(*   "confirm"  the PC has seen KEY_UPDATE                                 *)
(*   "basys"    the PC has been confirmed, the Basys3 not yet              *)
(***************************************************************************)
EXTENDS Naturals, Sequences, FiniteSets

CONSTANTS Racks,        \* rack numbers
          MaxCommands,  \* bound on the commands given
          MaxFaces,     \* bound on the Face-ID events waiting for the UI
          MaxEpochs,    \* bound on the key changes
          QueueCap,     \* maxlen of queued_commands (32 in the code)
          FifoCap,      \* depth of the ZYBO's command FIFO (4 in the code)
          MaxUnplug     \* bound on the commands before the serial adapter is pulled out

ASSUME BoundsAssumption ==
    /\ MaxCommands \in Nat /\ MaxFaces \in Nat /\ MaxEpochs \in Nat
    /\ QueueCap \in Nat \ {0} /\ FifoCap \in Nat \ {0}
    /\ MaxUnplug \in Nat

VARIABLES
    session_ready, rack_mask, queued_commands,  \* the client's fields
    ui,        \* the UI thread's call in progress
    rx,        \* the receive thread, and the command it has taken from the queue
    poll,      \* the poll thread: "sleep", "tested", "dead"
    invalid_command_key,         \* AigisApp: the key mode
    events,    \* the queue from the threads to the UI: of each Face-ID event in it the
               \* racks of the user, none if access was denied
    plugged, reported,           \* serial adapter; connection=False was emitted
    stage, uart, \* epoch stage, frames on the way to the ZYBO
    last_rack_cmd, fifo, enc, racks, \* ZYBO's decoder, FIFO and engine, doors of the Basys3
    dropped,   \* history: the last command that reached the decoder came outside G_RUN
    given, wanted, sent, overflowed, unsent, \* history: commands given, and the racks the
        \* newest opens; transmitted, in order; pushed out of the full queue; attack tests
        \* not sent for want of a session
    epochs     \* key changes begun

client == <<session_ready, rack_mask, queued_commands>>
app    == <<invalid_command_key, events>>
decoder == <<last_rack_cmd, dropped>>
zybo   == <<decoder, fifo, enc, racks>>
link   == <<plugged, reported>>
hist   == <<given, wanted, sent, overflowed, unsent>>
vars   == <<client, ui, rx, poll, app, link, epochs, stage, uart, zybo, hist>>

Masks == SUBSET Racks
Kinds == {"command", "poll"}  \* the upper nibble; the door's own commands are not told apart
Command == [id : 0..MaxCommands, kind : Kinds, racks : Masks, honest : BOOLEAN]
Cmd(id, mask, honest) == [id |-> id, kind |-> "command", racks |-> mask, honest |-> honest]
PollCmd == [Cmd(0, {}, TRUE) EXCEPT !.kind = "poll"]

(* A call of the UI thread; after an attack test it resets rack_mask.      *)
UiIdle == [step |-> "idle", cmd |-> PollCmd]
RxIdle == [step |-> "idle", cmd |-> PollCmd]

TypeOK ==
    /\ session_ready \in BOOLEAN /\ rack_mask \in Masks
    /\ queued_commands \in Seq(Command) /\ Len(queued_commands) <= QueueCap
    /\ ui \in [step : {"idle", "test", "append", "send"}, cmd : Command]
    /\ rx \in [step : {"idle", "ready", "drain", "send", "dead"}, cmd : Command]
    /\ poll \in {"sleep", "tested", "dead"}
    /\ invalid_command_key \in BOOLEAN /\ events \in Seq(Masks)
    /\ plugged \in BOOLEAN /\ reported \in BOOLEAN
    /\ stage \in {"run", "update", "confirm", "basys"}
    /\ uart \in Seq(Command) /\ fifo \in Seq(Masks) /\ Len(fifo) <= FifoCap
    /\ enc \in Seq(Masks) /\ Len(enc) <= 1 /\ last_rack_cmd \in Masks /\ racks \in Masks
    /\ given \in 0..MaxCommands /\ sent \in Seq(1..MaxCommands)
    /\ epochs \in 0..MaxEpochs /\ dropped \in BOOLEAN /\ wanted \in Masks
    /\ overflowed \subseteq 1..MaxCommands /\ unsent \subseteq 1..MaxCommands

Init ==
    /\ session_ready = TRUE /\ rack_mask = {} /\ queued_commands = <<>>
    /\ ui = UiIdle /\ rx = RxIdle /\ poll = "sleep"
    /\ invalid_command_key = FALSE /\ events = <<>>
    /\ plugged = TRUE /\ reported = FALSE
    /\ stage = "run" /\ uart = <<>>
    /\ last_rack_cmd = {} /\ fifo = <<>> /\ enc = <<>> /\ racks = {}
    /\ dropped = FALSE /\ wanted = {} /\ epochs = 0 /\ given = 0 /\ sent = <<>> /\ overflowed = {} /\ unsent = {}
-----------------------------------------------------------------------------
(* One frame written to the serial port, under tx_lock.                    *)
Transmit(cmd) ==
    /\ uart' = Append(uart, cmd)
    /\ sent' = IF cmd.id = 0 THEN sent ELSE Append(sent, cmd.id)

(* Bound: a face that waits will be a command. *)
MoreCommands == given + Len(events) < MaxCommands

(* A call of send_command (or send_invalid_key_command) begins: the mask   *)
(* has been changed already, whatever becomes of the command.  Bound:      *)
(* nothing new is begun once the adapter is out, here and in BeginEpoch.   *)
Call(mask, honest, new_mask) ==
    /\ ui.step = "idle" /\ given < MaxCommands /\ plugged
    /\ given' = given + 1 /\ wanted' = IF honest THEN mask ELSE {}
    /\ rack_mask' = new_mask
    /\ ui' = [step |-> "test", cmd |-> Cmd(given + 1, mask, honest)]
    /\ UNCHANGED <<session_ready, queued_commands, rx, poll, invalid_command_key,
                   link, epochs, stage, uart, zybo, sent, overflowed, unsent>>

(* The buttons; in fake-key mode they are rejected locally.                *)
SetRack(r, opened) ==
    /\ ~invalid_command_key
    /\ LET mask == IF opened THEN rack_mask \union {r} ELSE rack_mask \ {r}
       IN Call(mask, TRUE, mask)
    /\ UNCHANGED events

SetAllRacks(opened) ==
    /\ ~invalid_command_key
    /\ LET mask == IF opened THEN Racks ELSE {}
       IN Call(mask, TRUE, mask)
    /\ UNCHANGED events

(* The door command has a rack nibble of zero and leaves rack_mask alone.  *)
SetDoor ==
    /\ ~invalid_command_key
    /\ Call({}, TRUE, rack_mask)
    /\ UNCHANGED events

(* A frame sealed under a wrong master key; never queued.                  *)
RunInvalidKeyTest ==
    /\ Call(Racks, FALSE, rack_mask)
    /\ UNCHANGED events

SetCommandKeyMode(invalid) ==
    /\ ui.step = "idle" /\ invalid # invalid_command_key
    /\ plugged   \* later it is of no consequence
    /\ invalid_command_key' = invalid
    /\ UNCHANGED <<client, ui, rx, poll, events, link, epochs, stage, uart, zybo, hist>>

(* _drain_events and _handle_face; the events that only draw are left out. *)
HandleFace ==
    /\ events # <<>>
    /\ events' = Tail(events)
    /\ Call(Head(events), TRUE, Head(events))
-----------------------------------------------------------------------------
(* send_command, continued.  The test of session_ready, the append and the *)
(* transmission are separate steps: no lock is held from one to the next.  *)
TestReady ==
    /\ ui.step = "test" /\ (session_ready \/ ui.cmd.honest)
    /\ ui' = [ui EXCEPT !.step = IF session_ready THEN "send" ELSE "append"]
    /\ UNCHANGED <<client, rx, poll, app, link, epochs, stage, uart, zybo, hist>>

(* The attack test without a session: nothing is sent, the rest is run.    *)
AttackNotSent ==
    /\ ui.step = "test" /\ ~session_ready /\ ~ui.cmd.honest
    /\ ui' = UiIdle
    /\ rack_mask' = {}
    /\ unsent' = unsent \union {ui.cmd.id}
    /\ UNCHANGED <<session_ready, queued_commands, rx, poll, invalid_command_key, events, link,
                   epochs, stage, uart, zybo, given, wanted, sent, overflowed>>

(* The caller's lines after send_command.                                  *)
Return ==
    /\ ui' = UiIdle
    /\ rack_mask' = IF ui.cmd.honest THEN rack_mask ELSE {}

(* Mutation: the newest is refused when the queue is full.                 *)
EnqueueRefusesNewest(cmd) ==
    IF Len(queued_commands) = QueueCap
      THEN overflowed' = overflowed \union {cmd.id} /\ UNCHANGED queued_commands
      ELSE queued_commands' = Append(queued_commands, cmd) /\ UNCHANGED overflowed

(* Mutation: a stack instead of a queue. *)
EnqueueInFront(cmd) ==
    IF Len(queued_commands) = QueueCap
      THEN /\ queued_commands' = <<cmd>> \o SubSeq(queued_commands, 1, QueueCap - 1)
           /\ overflowed' = overflowed \union {queued_commands[QueueCap].id}
      ELSE queued_commands' = <<cmd>> \o queued_commands /\ UNCHANGED overflowed

Enqueue(cmd) ==
    IF Len(queued_commands) = QueueCap
      THEN /\ queued_commands' = Append(Tail(queued_commands), cmd)
           /\ overflowed' = overflowed \union {Head(queued_commands).id}
      ELSE /\ queued_commands' = Append(queued_commands, cmd)
           /\ UNCHANGED overflowed

AppendCommand ==
    /\ ui.step = "append"
    /\ Enqueue(ui.cmd)
    /\ Return
    /\ UNCHANGED <<session_ready, rx, poll, app, link, epochs, stage, uart, zybo, given, wanted,
                   sent, unsent>>

SendCommand ==
    /\ ui.step = "send" /\ plugged
    /\ Transmit(ui.cmd)
    /\ Return
    /\ UNCHANGED <<session_ready, queued_commands, rx, poll, app, link, epochs, stage, zybo,
                   given, wanted, overflowed, unsent>>

(* The write raises in a Tk callback: the rest of the caller is not run.   *)
SendRaises ==
    /\ ui.step = "send" /\ ~plugged
    /\ ui' = UiIdle
    /\ UNCHANGED <<client, rx, poll, app, link, epochs, stage, uart, zybo, hist>>
-----------------------------------------------------------------------------
(* _poll_loop, every two seconds: never queued.                            *)
PollTest ==
    /\ poll = "sleep" /\ session_ready
    /\ \A i \in 1..Len(uart) : uart[i] # PollCmd   \* two seconds have passed
    /\ poll' = "tested"
    /\ UNCHANGED <<client, ui, rx, app, link, epochs, stage, uart, zybo, hist>>

PollSend ==
    /\ poll = "tested"
    /\ IF plugged
         THEN Transmit(PollCmd) /\ poll' = "sleep"
         ELSE poll' = "dead" /\ UNCHANGED <<uart, sent>>
    /\ UNCHANGED <<client, ui, rx, app, link, epochs, stage, zybo, given, wanted, overflowed, unsent>>
-----------------------------------------------------------------------------
(* The receive thread.                                                     *)
HandleKeyUpdate ==
    /\ stage = "update" /\ rx.step = "idle" /\ plugged
    /\ session_ready' = FALSE
    /\ stage' = "confirm"
    /\ UNCHANGED <<rack_mask, queued_commands, ui, rx, poll, app, link, epochs, uart, zybo, hist>>

(* CONFIRM_ACK goes out first; the ZYBO may use it before the PC is ready. *)
HandleKeyConfirm ==
    /\ stage = "confirm" /\ rx.step = "idle" /\ plugged
    /\ stage' = "basys"
    /\ rx' = [RxIdle EXCEPT !.step = "ready"]
    /\ UNCHANGED <<client, ui, poll, app, link, epochs, uart, zybo, hist>>

(* Mutation: the queue is not flushed.                                     *)
ReadyWithoutDrain ==
    /\ rx.step = "ready"
    /\ session_ready' = TRUE
    /\ rx' = RxIdle
    /\ UNCHANGED <<rack_mask, queued_commands, ui, poll, app, link, epochs, stage, uart, zybo, hist>>

BecomeReady ==
    /\ rx.step = "ready"
    /\ session_ready' = TRUE
    /\ rx' = [RxIdle EXCEPT !.step = "drain"]
    /\ UNCHANGED <<rack_mask, queued_commands, ui, poll, app, link, epochs, stage, uart, zybo, hist>>

(* Mutation: the head is sent but not taken off.                           *)
DrainPeek ==
    /\ rx.step = "drain"
    /\ rx' = IF queued_commands = <<>> THEN RxIdle ELSE [step |-> "send", cmd |-> Head(queued_commands)]
    /\ UNCHANGED <<client, ui, poll, app, link, epochs, stage, uart, zybo, hist>>

(* while session_ready and queued_commands: popleft, then send_command.    *)
DrainPop ==
    /\ rx.step = "drain"
    /\ IF queued_commands = <<>>
         THEN rx' = RxIdle /\ UNCHANGED queued_commands
         ELSE rx' = [step |-> "send", cmd |-> Head(queued_commands)] /\ queued_commands' = Tail(queued_commands)
    /\ UNCHANGED <<session_ready, rack_mask, ui, poll, app, link, epochs, stage, uart, zybo, hist>>

DrainSend ==
    /\ rx.step = "send" /\ plugged
    /\ Transmit(rx.cmd)
    /\ rx' = [RxIdle EXCEPT !.step = "drain"]
    /\ UNCHANGED <<client, ui, poll, app, link, epochs, stage, zybo, given, wanted, overflowed, unsent>>

(* Mutation: only reading is inside the try block.                         *)
ReceiveFailsUncaught ==
    /\ ~plugged /\ rx.step \in {"idle", "send"}
    /\ rx' = [RxIdle EXCEPT !.step = "dead"]
    /\ reported' = (rx.step = "idle")
    /\ UNCHANGED <<client, ui, poll, app, plugged, epochs, stage, uart, zybo, hist>>

(* A SerialException, in in_waiting, read or a write of the drain: reported*)
(* and the thread ends.                                                    *)
ReceiveFails ==
    /\ ~plugged /\ rx.step \in {"idle", "send"}
    /\ rx' = [RxIdle EXCEPT !.step = "dead"] /\ reported' = TRUE
    /\ UNCHANGED <<client, ui, poll, app, plugged, epochs, stage, uart, zybo, hist>>

(* A Face-ID frame has been opened and becomes an event.                   *)
DecodeFace ==
    /\ rx.step = "idle" /\ session_ready /\ plugged
    /\ Len(events) < MaxFaces /\ MoreCommands
    /\ \E mask \in Masks : events' = Append(events, mask)
    /\ UNCHANGED <<client, ui, rx, poll, invalid_command_key, link, epochs, stage, uart, zybo, hist>>

Unplug ==
    /\ plugged /\ given <= MaxUnplug
    /\ plugged' = FALSE
    /\ UNCHANGED <<client, ui, rx, poll, app, reported, epochs, stage, uart, zybo, hist>>
-----------------------------------------------------------------------------
(* The ZYBO.                                                               *)
BeginEpoch ==
    /\ stage = "run" /\ epochs < MaxEpochs /\ plugged
    /\ stage' = "update" /\ epochs' = epochs + 1
    /\ UNCHANGED <<client, ui, rx, poll, app, link, uart, zybo, hist>>

BasysConfirmed ==
    /\ stage = "basys" /\ stage' = "run"
    /\ UNCHANGED <<client, ui, rx, poll, app, link, epochs, uart, zybo, hist>>

PushFifo(mask) == fifo' = IF Len(fifo) = FifoCap THEN fifo ELSE Append(fifo, mask)

(* What has become of a command that reached the decoder.                  *)
Arrived(c) == dropped' = IF c.id = 0 THEN dropped ELSE stage # "run"

(* Mutation: what the FIFO has no room for is not kept either.             *)
DecodeUnlessFull ==
    /\ uart # <<>>
    /\ uart' = Tail(uart)
    /\ LET c == Head(uart) IN
         IF stage # "run" \/ Len(fifo) = FifoCap THEN UNCHANGED <<last_rack_cmd, fifo>>
         ELSE IF ~c.honest THEN last_rack_cmd' = {} /\ PushFifo({})
         ELSE IF c.kind = "poll" THEN PushFifo(last_rack_cmd) /\ UNCHANGED last_rack_cmd
         ELSE last_rack_cmd' = c.racks /\ PushFifo(c.racks)
    /\ Arrived(Head(uart))
    /\ UNCHANGED <<client, ui, rx, poll, app, link, epochs, stage, enc, racks, hist>>

(* Mutation: a poll forwards its own nibble.                               *)
DecodePollAsCommand ==
    /\ uart # <<>> /\ stage = "run"
    /\ uart' = Tail(uart)
    /\ PushFifo(Head(uart).racks)
    /\ last_rack_cmd' = IF Head(uart).kind = "poll" THEN last_rack_cmd
                        ELSE IF Head(uart).honest THEN Head(uart).racks ELSE {}
    /\ Arrived(Head(uart))
    /\ UNCHANGED <<client, ui, rx, poll, app, link, epochs, stage, enc, racks, hist>>

(* The decoder: outside G_RUN nothing is taken; a poll repeats the last    *)
(* rack command; a frame that does not authenticate closes everything.     *)
Decode ==
    /\ uart # <<>>
    /\ uart' = Tail(uart)
    /\ LET c == Head(uart) IN
         IF stage # "run" THEN UNCHANGED <<last_rack_cmd, fifo>>
         ELSE IF ~c.honest THEN last_rack_cmd' = {} /\ PushFifo({})
         ELSE IF c.kind = "poll" THEN PushFifo(last_rack_cmd) /\ UNCHANGED last_rack_cmd
         ELSE last_rack_cmd' = c.racks /\ PushFifo(c.racks)
    /\ Arrived(Head(uart))
    /\ UNCHANGED <<client, ui, rx, poll, app, link, epochs, stage, enc, racks, hist>>

(* An entry of the FIFO is given to the engine, only in G_RUN; when G_RUN   *)
(* ends before it is sealed and sent the result is discarded.              *)
Seal ==
    /\ stage = "run" /\ fifo # <<>> /\ enc = <<>>
    /\ enc' = <<Head(fifo)>> /\ fifo' = Tail(fifo)
    /\ UNCHANGED <<client, ui, rx, poll, app, link, epochs, stage, uart, decoder, racks, hist>>

Deliver ==
    /\ enc # <<>> /\ enc' = <<>>
    /\ racks' = IF stage = "run" THEN Head(enc) ELSE racks
    /\ UNCHANGED <<client, ui, rx, poll, app, link, epochs, stage, uart, decoder, fifo, hist>>
-----------------------------------------------------------------------------
Operator ==
    /\ MoreCommands
    /\ \/ \E r \in Racks, b \in BOOLEAN : SetRack(r, b)
       \/ \E b \in BOOLEAN : SetAllRacks(b) \/ SetCommandKeyMode(b)
       \/ SetDoor \/ RunInvalidKeyTest

UiThread == HandleFace \/ TestReady \/ AttackNotSent \/ AppendCommand \/ SendCommand \/ SendRaises
RxThread == HandleKeyUpdate \/ HandleKeyConfirm \/ BecomeReady \/ DrainPop \/ DrainSend \/ ReceiveFails
PollThread == PollTest \/ PollSend

Next == Operator \/ UiThread \/ RxThread \/ DecodeFace \/ PollThread \/ Unplug
        \/ BeginEpoch \/ BasysConfirmed \/ Decode \/ Seal \/ Deliver

(* The threads are scheduled and the ZYBO is clocked.                      *)
Spec == Init /\ [][Next]_vars
FairSpec ==
    /\ Spec
    /\ WF_vars(UiThread) /\ WF_vars(RxThread) /\ WF_vars(PollTest) /\ WF_vars(PollSend)
    /\ WF_vars(BasysConfirmed) /\ WF_vars(Decode) /\ WF_vars(Seal) /\ WF_vars(Deliver)
-----------------------------------------------------------------------------
Queued == {queued_commands[i].id : i \in 1..Len(queued_commands)}
Sent == {sent[i] : i \in 1..Len(sent)}
InHand == (IF ui.step = "idle" THEN {} ELSE {ui.cmd.id}) \union (IF rx.step = "send" THEN {rx.cmd.id} ELSE {})

(* Every command given is in exactly one place: transmitted, in the queue, *)
(* in a thread's hand, or given up; none is transmitted twice.  The queue  *)
(* is read by one thread and written by another without a lock.            *)
EachCommandOnce ==
    plugged =>
      /\ 1..given = Sent \union Queued \union InHand \union overflowed \union unsent
      /\ Cardinality(Sent) + Cardinality(Queued) + Cardinality(InHand)
           + Cardinality(overflowed) + Cardinality(unsent) = given
      /\ Len(sent) = Cardinality(Sent)

(* The queue keeps the order of the operator and, when it is full, forgets *)
(* the oldest: a rack command carries the full state, so the newest counts.*)
OldestGoFirst ==
    /\ \A i, j \in 1..Len(queued_commands) : i < j => queued_commands[i].id < queued_commands[j].id
    /\ \A i \in 1..Len(queued_commands), c \in overflowed :
          c < queued_commands[i].id

(* session_ready is tested before the append and not again: a command may  *)
(* be appended after the drain and wait for the next key change, but never *)
(* more than one does.                                                     *)
AtMostOneStranded ==
    session_ready /\ rx.step = "idle" =>
        Len(queued_commands) + (IF ui.step = "append" THEN 1 ELSE 0) <= 1

(* The 2 s poll repeats last_rack_cmd, so the doors come to the last       *)
(* command that the decoder took, although the FIFO and the end of G_RUN   *)
(* may lose the entry it made.                                             *)
RacksCatchUp == <>[](plugged => racks = last_rack_cmd)

(* The doors do what the newest command says, if it was transmitted last   *)
(* and did not come outside G_RUN.  Otherwise they need not: a command of  *)
(* the flush may come after a newer one, the flush may send it too early,  *)
(* and it may be stranded in the queue; nobody is told.                    *)
NewestDecides ==
    <>[](plugged /\ sent # <<>> /\ sent[Len(sent)] = given /\ ~dropped => racks = wanted)

(* A serial adapter that is pulled out is reported to the UI, whatever the *)
(* receive thread was doing.                                               *)
UnplugIsReported == ~plugged ~> reported

(* A command that reaches the decoder in G_RUN ends in the state of the    *)
(* doors unless a later one does, and a lost adapter is reported.  It says *)
(* nothing of the commands that never reach it there.                      *)
CatchUpOrReport == RacksCatchUp /\ NewestDecides /\ UnplugIsReported
=============================================================================
