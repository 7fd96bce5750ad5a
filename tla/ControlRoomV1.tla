---------------------------- MODULE ControlRoomV1 ---------------------------
(***************************************************************************)
(* The first-generation control-room program, pc_control_room_secure.py:   *)
(* its UI, poll and receive threads, the key handshake, the commands it    *)
(* queues, and the ZYBO's decoder at the other end of the UART.  A session *)
(* key is named by its R; a codec counts its frames from zero.             *)
(***************************************************************************)
EXTENDS Naturals, Sequences, FiniteSets

CONSTANTS Racks,        \* rack numbers
          Granted,      \* racks of the user the camera may recognise
          Thresholds,   \* low nibbles of the temperatures that are set
          MaxEpochs, MaxCommands, MaxFaces,  \* bounds on key changes, commands, faces
          QueueCap,     \* maxlen of queued_commands (32 in the code)
          LineCap       \* bound on the frames on the UART, each way

ASSUME BoundsAssumption ==
    /\ Granted \subseteq Racks /\ Thresholds \subseteq SUBSET Racks
    /\ MaxEpochs \in Nat \ {0} /\ MaxCommands \in Nat /\ MaxFaces \in Nat
    /\ QueueCap \in Nat \ {0} /\ LineCap \in Nat \ {0}

VARIABLES
    session_ready, pending_random, pending_key_active, current_random, queued_commands,
    tx,        \* the key of tx_codec
    ui, poll, rx,  \* the three threads' calls of send_secure_command
    down, up,  \* frames on the UART to and from the PC
    stage, r,  \* the ZYBO: "update", "commit", "confirm", "basys" or "run", and its R
    last_rack_cmd, door,  \* the ZYBO's decoder
    given, faces,         \* commands and faces so far
    used, reused, false_alarm  \* history: keys used; by a second codec too; honest frame refused

client == <<session_ready, pending_random, pending_key_active, current_random>>
zybo   == <<stage, r, last_rack_cmd, door>>
hist   == <<given, faces, used, reused, false_alarm>>
vars   == <<client, queued_commands, tx, ui, poll, rx, down, up, zybo, hist>>

Masks   == SUBSET Racks
Doors   == {"IDLE", "OPEN", "CLOSE", "POLL", "TEMP"}  \* upper nibbles 0, 1, 2, 3 and 9..11
Command == [door : Doors, racks : Masks]
Cmd(d, m) == [door |-> d, racks |-> m]
PollCmd == Cmd("POLL", {})
Epochs  == 0..MaxEpochs     \* 0: the master key of the start
Msg     == [type : {"KEY_UPDATE", "KEY_COMMIT", "KEY_CONFIRM", "FACE"}, r : Epochs]
Reply   == [type : {"READY", "COMMIT_ACK", "CONFIRM_ACK", "COMMAND"}, r : Epochs, cmd : Command]
Idle    == [step |-> "idle", cmd |-> PollCmd]

TypeOK ==
    /\ session_ready \in BOOLEAN /\ pending_random \in Epochs /\ pending_key_active \in BOOLEAN
    /\ current_random \in Epochs
    /\ queued_commands \in Seq(Command) /\ Len(queued_commands) <= QueueCap
    /\ tx \in Epochs
    /\ ui \in [step : {"idle", "test", "append", "send"}, cmd : Command]
    /\ poll \in {"idle", "send"} /\ rx \in [step : {"idle", "drain", "send", "face"}, cmd : Command]
    /\ down \in Seq(Msg) /\ up \in Seq(Reply) /\ Len(down) <= LineCap
    /\ stage \in {"update", "commit", "confirm", "basys", "run"} /\ r \in Epochs
    /\ last_rack_cmd \in Masks /\ door \in {"IDLE", "OPEN", "CLOSE"}

Init ==
    /\ session_ready = FALSE /\ pending_random = 0 /\ pending_key_active = FALSE
    /\ current_random = 0 /\ queued_commands = <<>> /\ tx = 0
    /\ ui = Idle /\ poll = "idle" /\ rx = Idle
    /\ down = <<>> /\ up = <<>> /\ stage = "update" /\ r = 1
    /\ last_rack_cmd = {} /\ door = "IDLE" /\ given = 0 /\ faces = 0
    /\ used = {} /\ reused = FALSE /\ false_alarm = FALSE
-----------------------------------------------------------------------------
(* send_secure_payload: one frame, sealed and written under serial_tx_lock. *)
SendSecurePayload(cmd) ==
    /\ Len(up) < LineCap
    /\ up' = Append(up, [type |-> "COMMAND", r |-> tx, cmd |-> cmd])
    /\ used' = used \union {tx}

(* send_secure_command tests session_ready; appending and sending come     *)
(* later, and a full queue loses its oldest command.                       *)
AfterTest(queue_if_rekey) == IF session_ready THEN "send" ELSE IF queue_if_rekey THEN "append" ELSE "idle"

Queued(cmd) ==
    queued_commands' = Append(IF Len(queued_commands) = QueueCap THEN Tail(queued_commands)
                              ELSE queued_commands, cmd)

(* The buttons.                                                            *)
Button(cmd) ==
    /\ ui.step = "idle" /\ given < MaxCommands /\ given' = given + 1
    /\ ui' = [step |-> "test", cmd |-> cmd]
    /\ UNCHANGED <<client, queued_commands, tx, poll, rx, down, up, zybo, faces, used, reused, false_alarm>>
CmdDoor == Button(Cmd("OPEN", {})) \/ Button(Cmd("CLOSE", {}))
CmdRackOpen == \/ \E n \in Racks : Button(Cmd("OPEN", {n}))
               \/ Button(Cmd("OPEN", Racks))
CmdRackClose == Button(Cmd("IDLE", {}))
CmdSetTempThreshold == \E low \in Thresholds : Button(Cmd("TEMP", low))

UiStep ==
    /\ \/ ui.step = "test" /\ ui' = [ui EXCEPT !.step = AfterTest(TRUE)]
          /\ UNCHANGED <<queued_commands, up, used>>
       \/ ui.step = "append" /\ Queued(ui.cmd) /\ ui' = Idle /\ UNCHANGED <<up, used>>
       \/ ui.step = "send" /\ SendSecurePayload(ui.cmd) /\ ui' = Idle /\ UNCHANGED queued_commands
    /\ UNCHANGED <<client, tx, poll, rx, down, zybo, given, faces, reused, false_alarm>>

(* sensor_poll_loop, every two seconds.                                    *)
PollStep ==
    /\ \/ poll = "idle" /\ session_ready /\ poll' = "send"
          /\ UNCHANGED <<up, used>>
       \/ poll = "send" /\ SendSecurePayload(PollCmd) /\ poll' = "idle"
    /\ UNCHANGED <<client, queued_commands, tx, ui, rx, down, zybo, given, faces, reused, false_alarm>>
-----------------------------------------------------------------------------
(* The receive thread: handle_management_packet.                           *)
Take(type) == rx.step = "idle" /\ down # <<>> /\ Head(down).type = type /\ down' = Tail(down)
Answer(type, random) ==
    /\ Len(up) < LineCap
    /\ up' = Append(up, [type |-> type, r |-> random, cmd |-> PollCmd])

(* A mutant of KeyUpdate. *)
KeyUpdateKeepsReady ==
    /\ Take("KEY_UPDATE") /\ Answer("READY", Head(down).r)
    /\ pending_random' = Head(down).r /\ pending_key_active' = FALSE
    /\ UNCHANGED <<session_ready, current_random, queued_commands, tx, ui, poll, rx, zybo, hist>>

KeyUpdate ==
    /\ Take("KEY_UPDATE") /\ Answer("READY", Head(down).r)
    /\ IF session_ready /\ Head(down).r = current_random
       THEN UNCHANGED <<session_ready, pending_random, pending_key_active>>
       ELSE /\ session_ready' = FALSE /\ pending_random' = Head(down).r
            /\ pending_key_active' = FALSE
    /\ UNCHANGED <<current_random, queued_commands, tx, ui, poll, rx, zybo, hist>>

(* A mutant of KeyCommit. *)
KeyCommitRxOnly ==
    /\ Take("KEY_COMMIT")
    /\ IF pending_random # Head(down).r THEN UNCHANGED <<up, pending_key_active>>
       ELSE Answer("COMMIT_ACK", pending_random) /\ pending_key_active' = TRUE
    /\ tx' = IF tx = 0 THEN pending_random ELSE tx
    /\ UNCHANGED <<session_ready, pending_random, current_random, queued_commands, ui, poll, rx, zybo, hist>>

(* A mutant of KeyCommit. *)
KeyCommitRebuilds ==
    /\ Take("KEY_COMMIT")
    /\ IF pending_random # Head(down).r THEN UNCHANGED <<up, tx, pending_key_active, reused>>
       ELSE /\ Answer("COMMIT_ACK", pending_random)
            /\ tx' = pending_random /\ reused' = (reused \/ pending_random \in used)
            /\ pending_key_active' = TRUE
    /\ UNCHANGED <<session_ready, pending_random, current_random, queued_commands, ui, poll, rx, zybo,
                   given, faces, used, false_alarm>>

(* A mutant of KeyCommit. *)
KeyCommitAnswersOnce ==
    /\ Take("KEY_COMMIT")
    /\ IF pending_random # Head(down).r \/ pending_key_active
       THEN UNCHANGED <<up, tx, pending_key_active>>
       ELSE Answer("COMMIT_ACK", pending_random) /\ tx' = pending_random /\ pending_key_active' = TRUE
    /\ UNCHANGED <<session_ready, pending_random, current_random, queued_commands, ui, poll, rx, zybo, hist>>

KeyCommit ==
    /\ Take("KEY_COMMIT")
    /\ IF pending_random # Head(down).r THEN UNCHANGED <<up, tx, pending_key_active, reused>>
       ELSE /\ Answer("COMMIT_ACK", pending_random)
            /\ IF pending_key_active THEN UNCHANGED <<tx, reused>>
               ELSE tx' = pending_random /\ reused' = (reused \/ pending_random \in used)
            /\ pending_key_active' = TRUE
    /\ UNCHANGED <<session_ready, pending_random, current_random, queued_commands, ui, poll, rx, zybo,
                   given, faces, used, false_alarm>>

KeyConfirm ==
    /\ Take("KEY_CONFIRM")
    /\ IF pending_random # Head(down).r THEN UNCHANGED <<up, session_ready, current_random, rx>>
       ELSE /\ Answer("CONFIRM_ACK", pending_random)
            /\ session_ready' = TRUE /\ current_random' = pending_random
            /\ rx' = IF session_ready /\ current_random = pending_random THEN rx ELSE [rx EXCEPT !.step = "drain"]
    /\ UNCHANGED <<pending_random, pending_key_active, queued_commands, tx, ui, poll, zybo, hist>>

(* flush_queued_commands, one command at a time; the command of a face.    *)
Flush ==
    /\ \/ rx.step = "drain" /\ session_ready /\ queued_commands # <<>>
          /\ rx' = [step |-> "send", cmd |-> Head(queued_commands)]
          /\ queued_commands' = Tail(queued_commands) /\ UNCHANGED <<up, used>>
       \/ rx.step = "drain" /\ queued_commands = <<>> /\ rx' = Idle
          /\ UNCHANGED <<queued_commands, up, used>>
       \/ rx.step = "send" /\ SendSecurePayload(rx.cmd) /\ rx' = [rx EXCEPT !.step = "drain"]
          /\ UNCHANGED queued_commands
       \/ rx.step = "face" /\ SendSecurePayload(rx.cmd) /\ rx' = Idle /\ UNCHANGED queued_commands
    /\ UNCHANGED <<client, tx, ui, poll, down, zybo, given, faces, reused, false_alarm>>

(* A face: the command of match_rack if it is allowed and in the data      *)
(* base, nothing if it is not there, ALL_CLOSE if it is not allowed.       *)
MatchRack == {Cmd("OPEN", Granted), Cmd("CLOSE", Granted)}
FaceCommands == MatchRack \union {Cmd("IDLE", {})}
Face ==
    /\ Take("FACE")
    /\ \/ session_ready /\ \E cmd \in FaceCommands : rx' = [step |-> "face", cmd |-> cmd]
       \/ UNCHANGED rx
    /\ UNCHANGED <<client, queued_commands, tx, ui, poll, up, zybo, hist>>
-----------------------------------------------------------------------------
(* The ZYBO.  Each stage repeats its message until it is answered.         *)
MessageOf(s) == CASE s = "update" -> "KEY_UPDATE" [] s = "commit" -> "KEY_COMMIT" [] s = "confirm" -> "KEY_CONFIRM"
Transmit ==
    /\ stage \in {"update", "commit", "confirm"} /\ Len(down) < LineCap
    /\ down' = Append(down, [type |-> MessageOf(stage), r |-> r])
    /\ UNCHANGED <<client, queued_commands, tx, ui, poll, rx, up, zybo, hist>>
SendFace ==
    /\ stage = "run" /\ faces < MaxFaces /\ Len(down) < LineCap /\ faces' = faces + 1
    /\ down' = Append(down, [type |-> "FACE", r |-> r])
    /\ UNCHANGED <<client, queued_commands, tx, ui, poll, rx, up, zybo, given, used, reused, false_alarm>>
Resume ==
    /\ stage = "basys" /\ stage' = "run"
    /\ UNCHANGED <<client, queued_commands, tx, ui, poll, rx, down, up, r, last_rack_cmd, door, hist>>
NewEpoch ==
    /\ stage = "run" /\ r < MaxEpochs /\ stage' = "update" /\ r' = r + 1
    /\ UNCHANGED <<client, queued_commands, tx, ui, poll, rx, down, up, last_rack_cmd, door, hist>>

(* The ZYBO's decoder: outside of G_RUN nothing; in it a frame that does   *)
(* not authenticate is an attack and closes everything.                    *)
Decode(frame) ==
    IF stage # "run" THEN UNCHANGED <<last_rack_cmd, door, false_alarm>>
    ELSE IF frame.r # r
    THEN last_rack_cmd' = {} /\ door' = "CLOSE" /\ false_alarm' = TRUE
    ELSE /\ last_rack_cmd' = IF frame.cmd.door = "POLL" THEN last_rack_cmd ELSE frame.cmd.racks
         /\ door' = IF frame.cmd.door \in {"OPEN", "CLOSE"} THEN frame.cmd.door ELSE "IDLE"
         /\ UNCHANGED false_alarm
Answered == \/ stage = "update" /\ Head(up).type = "READY"
            \/ stage = "commit" /\ Head(up).type = "COMMIT_ACK"
            \/ stage = "confirm" /\ Head(up).type = "CONFIRM_ACK"
NextStage == CASE stage = "update" -> "commit" [] stage = "commit" -> "confirm" [] stage = "confirm" -> "basys"
ReceiveZybo ==
    /\ up # <<>> /\ up' = Tail(up)
    /\ IF Head(up).type = "COMMAND" THEN Decode(Head(up)) ELSE UNCHANGED <<last_rack_cmd, door, false_alarm>>
    /\ stage' = IF Answered /\ Head(up).r = r THEN NextStage ELSE stage
    /\ UNCHANGED <<client, queued_commands, tx, ui, poll, rx, down, r, given, faces, used, reused>>

(* A frame is damaged on the UART and refused.                             *)
Lose ==
    /\ \/ up # <<>> /\ up' = Tail(up) /\ UNCHANGED down
       \/ rx.step = "idle" /\ down # <<>> /\ down' = Tail(down) /\ UNCHANGED up
    /\ UNCHANGED <<client, queued_commands, tx, ui, poll, rx, zybo, hist>>

Receive == KeyUpdate \/ KeyCommit \/ KeyConfirm \/ Flush \/ Face
Next == \/ CmdDoor \/ CmdRackOpen \/ CmdRackClose \/ CmdSetTempThreshold
        \/ UiStep \/ PollStep \/ Receive
        \/ Transmit \/ SendFace \/ Resume \/ NewEpoch \/ ReceiveZybo \/ Lose

(* The threads run, the ZYBO repeats itself, and of the frames sent again  *)
(* and again one arrives.                                                  *)
Spec == Init /\ [][Next]_vars /\ WF_vars(UiStep) /\ WF_vars(Flush) /\ WF_vars(Transmit)
             /\ SF_vars(KeyUpdate) /\ SF_vars(KeyCommit) /\ SF_vars(KeyConfirm)
             /\ SF_vars(Face)
             /\ SF_vars(ReceiveZybo /\ stage' # stage) /\ WF_vars(ReceiveZybo) /\ WF_vars(Resume)
-----------------------------------------------------------------------------
(* No honest frame of this program makes the ZYBO close the doors as after *)
(* an attack, whatever threads were doing while the key changed.           *)
NoFalseSafeState == ~false_alarm

(* No codec starts to count from zero under a key that has been used,      *)
(* although a codec is built for every KEY_UPDATE and they are repeated.   *)
NonceFresh == ~reused

(* A command written in a session is sealed with that session's key.       *)
ReadyMeansKey == session_ready => tx = current_random /\ pending_key_active

(* A started key change ends in a session.                                 *)
SessionComes == ~session_ready ~> session_ready

(* The codecs of the program and of the ZYBO change in step: no honest     *)
(* frame is taken for an attack, and no nonce comes twice under one key.   *)
CodecsInStep == TypeOK /\ ReadyMeansKey /\ NonceFresh /\ NoFalseSafeState
=============================================================================
