------------------------------ MODULE JetsonLink ------------------------------
(***************************************************************************)
(* The session key and the application traffic of the Jetson domain.       *)
(*                                                                         *)
(* The ZYBO's Jetson FSM (zybo_session_manager.sv) answers on an SPI slave *)
(* whose transmit register keeps its frame until it is overwritten; the    *)
(* Jetson (jetson_main.py, SecureJetsonProtocol) is the SPI master and     *)
(* polls every 100 ms.  A new epoch of the PC + Basys3 domain restarts the *)
(* handshake at any point.                                                 *)
(*                                                                         *)
(* A key is named by the random it was derived from.  The randoms are      *)
(* numbered in the order they are drawn: the LFSR does not return to a     *)
(* value within the life of the system.  0 is the reset value, whose key   *)
(* is MASTER itself, and None in the Jetson.                               *)
(***************************************************************************)
EXTENDS Naturals, Sequences

CONSTANTS
  Epochs,     \* bound: how many epochs begin
  Commands,   \* the door commands the PC gives
  FaceCap,    \* bound: Face-ID events waiting in face_queue
  Restarts    \* bound: how often the Jetson program is restarted

ASSUME EpochsAssumption == Epochs \in Nat \ {0}
ASSUME CommandsAssumption == Commands \subseteq {"IDLE", "OPEN", "CLOSE"}
ASSUME FaceCapAssumption == FaceCap \in Nat
ASSUME RestartsAssumption == Restarts \in Nat

VARIABLES
  pending_random,      \* R of the running epoch, drawn by the group FSM
  new_generation,      \* epoch_generation # jetson_generation_seen
  jetson_state,        \* state register of the Jetson FSM
  key_fsm,             \* "active", "reload" (pulse given), "loading"
  jetson_active_key,   \* key of the Jetson AES engines
  encrypting,          \* frame in the Jetson encrypt engine
  spi_tx,              \* jetson_spi_tx_packet
  management_pending,  \* jetson_management_pending
  hold,                \* jetson_hold_packet, while jetson_hold_valid
  door_cmd,            \* door_cmd_to_jetson
  last_submitted,      \* last_jetson_cmd_submitted
  mosi,                \* packet the Jetson is sending in the running transfer
  miso,                \* snapshot of spi_tx it is receiving
  jetson,              \* the fields of SecureJetsonProtocol
  management_queue,    \* its queue of responses
  faces,               \* how many Face-ID events wait in face_queue
  restarts             \* how often the Jetson program has been restarted

keyVars    == <<key_fsm, jetson_active_key>>
doorVars   == <<door_cmd, last_submitted>>
busVars    == <<mosi, miso>>
jetsonVars == <<jetson, management_queue, faces, restarts>>
vars == <<pending_random, new_generation, jetson_state, keyVars, encrypting, spi_tx,
          management_pending, hold, doorVars, busVars, jetsonVars>>

-----------------------------------------------------------------------------
NoRandom == 0
Randoms == 1..Epochs
Keys == 0..Epochs
Cmds == {"IDLE", "OPEN", "CLOSE"}

JetsonStates ==
  {"J_WAIT_EPOCH", "J_SEND_UPDATE", "J_WAIT_READY", "J_SEND_COMMIT",
   "J_WAIT_COMMIT_ACK", "J_SWITCH_LOCAL", "J_WAIT_LOCAL_KEY",
   "J_SEND_CONFIRM", "J_WAIT_CONFIRM_ACK", "J_RUN"}

\* A frame: its type, the key it is sealed under (NoRandom when it is clear),
\* and R, the R a challenge or response is made of, or a door command.
Frame(type, key, body) == [type |-> type, key |-> key, body |-> body]
Clear(type, body) == Frame(type, NoRandom, body)
NoFrame == Clear("NONE", NoRandom)

\* A response to be sent, and what to do when the transfer has ended.
Packet(frame, after) == [frame |-> frame, after |-> after]
NoPacket == Packet(NoFrame, "NOTHING")

MisoFrames ==
  [type : {"NONE", "COMMIT"}, key : {NoRandom}, body : {NoRandom}]
  \cup [type : {"UPDATE"}, key : {NoRandom}, body : Randoms]
  \cup [type : {"CONFIRM"}, key : Keys, body : Randoms]
  \cup [type : {"DOOR"}, key : Keys, body : Cmds]
MosiFrames ==
  [type : {"NONE", "POLL", "READY", "COMMIT_ACK"}, key : {NoRandom}, body : {NoRandom}]
  \cup [type : {"CONFIRM_ACK"}, key : Keys, body : Randoms]
  \cup [type : {"FACE"}, key : Keys, body : {NoRandom}]
Packets == [frame : MosiFrames, after : {"NOTHING", "SWITCH_KEY", "SESSION_READY"}]

FreshJetson ==
  [state |-> "WAIT_KEY_UPDATE", ready |-> FALSE, pending |-> NoRandom,
   current |-> NoRandom, key |-> NoRandom, previous |-> NoRandom, door |-> "NONE"]

TypeOK ==
  /\ pending_random \in Keys /\ new_generation \in BOOLEAN
  /\ jetson_state \in JetsonStates
  /\ key_fsm \in {"active", "reload", "loading"} /\ jetson_active_key \in Keys
  /\ encrypting \in MisoFrames /\ spi_tx \in MisoFrames /\ miso \in MisoFrames
  /\ management_pending \in BOOLEAN
  /\ hold \in MosiFrames /\ mosi \in Packets
  /\ door_cmd \in Cmds /\ last_submitted \in Cmds \cup {"NONE"}
  /\ jetson \in [state : {"WAIT_KEY_UPDATE", "WAIT_COMMIT", "WAIT_CONFIRM", "RUN"},
                 ready : BOOLEAN, pending : Keys, current : Keys, key : Keys,
                 previous : Keys, door : Cmds \cup {"NONE"}]
  /\ management_queue \in Seq(Packets)
  /\ faces \in 0..FaceCap
  /\ restarts \in 0..Restarts

Init ==
  /\ pending_random = NoRandom /\ new_generation = FALSE
  /\ jetson_state = "J_WAIT_EPOCH"
  /\ key_fsm = "loading" /\ jetson_active_key = NoRandom
  /\ encrypting = NoFrame /\ spi_tx = NoFrame /\ management_pending = FALSE
  /\ hold = NoFrame
  /\ door_cmd = "IDLE" /\ last_submitted = "NONE"
  /\ mosi = NoPacket /\ miso = NoFrame
  /\ jetson = FreshJetson /\ management_queue = << >> /\ faces = 0
  /\ restarts = 0

-----------------------------------------------------------------------------
(* The ZYBO's Jetson FSM.                                                    *)

\* Mutation: the old session goes on until the FSM has left J_RUN.
TrafficEnabledUntilRestart == jetson_state = "J_RUN"

TrafficEnabled == jetson_state = "J_RUN" /\ ~new_generation

\* The first clause of the FSM: a new generation goes before every transition,
\* unless the key FSM is loading.
Goto(next) ==
  /\ jetson_state' = IF new_generation /\ key_fsm # "loading" THEN "J_SEND_UPDATE" ELSE next
  /\ new_generation' = (new_generation /\ key_fsm = "loading")

\* Mutation: a frame that waits to be shifted out is overwritten.
MayLoadOverPending == jetson_state \in JetsonStates

\* session_tx_ready of a clear frame.  A transfer that is shifting does not hold
\* the load back: it has its snapshot of the register (spi_slave.sv).
MayLoadClear == ~management_pending

\* The group FSM draws a new R (GroupRekey, BeginEpoch), whatever this FSM does.
NewEpoch ==
  /\ pending_random < Epochs
  /\ pending_random' = pending_random + 1
  /\ new_generation' = TRUE
  /\ UNCHANGED <<jetson_state, keyVars, encrypting, spi_tx, management_pending, hold,
                 doorVars, busVars, jetsonVars>>

RestartHandshake ==
  /\ new_generation /\ key_fsm # "loading"
  /\ Goto(jetson_state)
  /\ UNCHANGED <<pending_random, keyVars, encrypting, spi_tx, management_pending, hold,
                 doorVars, busVars, jetsonVars>>

SendClear(from, frame, next) ==
  /\ jetson_state = from
  /\ MayLoadClear
  /\ spi_tx' = frame /\ management_pending' = TRUE
  /\ Goto(next)
  /\ UNCHANGED <<pending_random, keyVars, encrypting, hold, doorVars, busVars, jetsonVars>>

SendUpdate == SendClear("J_SEND_UPDATE", Clear("UPDATE", pending_random), "J_WAIT_READY")
SendCommit == SendClear("J_SEND_COMMIT", Clear("COMMIT", NoRandom), "J_WAIT_COMMIT_ACK")

\* KEY_CONFIRM goes through the encrypt engine, with the new key.
SendConfirm ==
  /\ jetson_state = "J_SEND_CONFIRM"
  /\ ~management_pending /\ encrypting = NoFrame /\ key_fsm = "active"
  /\ encrypting' = Frame("CONFIRM", jetson_active_key, pending_random)
  /\ Goto("J_WAIT_CONFIRM_ACK")
  /\ UNCHANGED <<pending_random, keyVars, spi_tx, management_pending, hold, doorVars,
                 busVars, jetsonVars>>

\* The 20 ms retry counter runs out.
Retry(wait, send) ==
  /\ jetson_state = wait
  /\ Goto(send)
  /\ UNCHANGED <<pending_random, keyVars, encrypting, spi_tx, management_pending, hold,
                 doorVars, busVars, jetsonVars>>

\* Mutation: the handshake begins again when COMMIT_ACK stays away.
RetryCommitFromUpdate == Retry("J_WAIT_COMMIT_ACK", "J_SEND_UPDATE")

RetryUpdate  == Retry("J_WAIT_READY", "J_SEND_UPDATE")
RetryCommit  == Retry("J_WAIT_COMMIT_ACK", "J_SEND_COMMIT")
RetryConfirm == Retry("J_WAIT_CONFIRM_ACK", "J_SEND_CONFIRM")

\* One clock of jetson_key_reload; the next handshake comes here only when the
\* key FSM has long finished.
SwitchLocal ==
  /\ jetson_state = "J_SWITCH_LOCAL"
  /\ key_fsm = "active"
  /\ Goto("J_WAIT_LOCAL_KEY")
  /\ key_fsm' = IF new_generation THEN "active" ELSE "reload"
  /\ UNCHANGED <<pending_random, jetson_active_key, encrypting, spi_tx,
                 management_pending, hold, doorVars, busVars, jetsonVars>>

\* Mutation: the key follows pending_random without waiting for the switch.
StartKeyLoadAtOnce ==
  /\ key_fsm = "reload" \/ (key_fsm = "active" /\ jetson_active_key # pending_random)
  /\ jetson_active_key' = pending_random
  /\ key_fsm' = "loading"
  /\ UNCHANGED <<pending_random, new_generation, jetson_state, encrypting, spi_tx,
                 management_pending, hold, doorVars, busVars, jetsonVars>>

\* The key FSM samples MASTER ^ pending_random one clock after the pulse ...
StartKeyLoad ==
  /\ key_fsm = "reload"
  /\ jetson_active_key' = pending_random
  /\ key_fsm' = "loading"
  /\ UNCHANGED <<pending_random, new_generation, jetson_state, encrypting, spi_tx,
                 management_pending, hold, doorVars, busVars, jetsonVars>>

\* ... and reports that both engines have the key; at reset it loads MASTER.
KeyLoaded ==
  /\ key_fsm = "loading"
  /\ encrypting = NoFrame
  /\ key_fsm' = "active"
  /\ jetson_state' = IF jetson_state = "J_WAIT_LOCAL_KEY" /\ ~new_generation
                     THEN "J_SEND_CONFIRM" ELSE jetson_state
  /\ UNCHANGED <<pending_random, new_generation, jetson_active_key, encrypting, spi_tx,
                 management_pending, hold, doorVars, busVars, jetsonVars>>

-----------------------------------------------------------------------------
(* The ZYBO's application path to the Jetson.                                *)

\* A PC command, or a failed authentication (CLOSE), sets the door command.
SetDoor ==
  /\ \E c \in Commands \ {door_cmd} : door_cmd' = c
  /\ UNCHANGED <<pending_random, new_generation, jetson_state, keyVars, encrypting, spi_tx,
                 management_pending, hold, last_submitted, busVars, jetsonVars>>

\* A door command that differs from the last one submitted is encrypted.
SubmitDoor ==
  /\ TrafficEnabled
  /\ door_cmd # last_submitted
  /\ encrypting = NoFrame /\ key_fsm = "active"
  /\ encrypting' = Frame("DOOR", jetson_active_key, door_cmd)
  /\ last_submitted' = door_cmd
  /\ UNCHANGED <<pending_random, new_generation, jetson_state, keyVars, spi_tx,
                 management_pending, hold, door_cmd, busVars, jetsonVars>>

\* The engine's result is loaded only while no management frame waits to be
\* shifted out; otherwise it is dropped.  clear_valid: the session manager
\* presents a clear Jetson frame in this cycle (it may be held back by the
\* group FSM's frame).
EncryptDone ==
  \E clear_valid \in BOOLEAN :
    LET loaded == /\ encrypting.type = "CONFIRM" \/ TrafficEnabled
                  /\ ~management_pending /\ ~clear_valid
    IN
    /\ clear_valid => jetson_state \in {"J_SEND_UPDATE", "J_SEND_COMMIT"}
    /\ encrypting # NoFrame
    /\ encrypting' = NoFrame
    /\ spi_tx' = IF loaded THEN encrypting ELSE spi_tx
    /\ management_pending' = (management_pending \/ (loaded /\ encrypting.type = "CONFIRM"))
    /\ UNCHANGED <<pending_random, new_generation, jetson_state, keyVars, hold, doorVars,
                   busVars, jetsonVars>>

-----------------------------------------------------------------------------
(* Frames that reach the ZYBO.                                               *)

AfterFrame(f) ==
  IF f.type = "READY" /\ jetson_state = "J_WAIT_READY" THEN "J_SEND_COMMIT"
  ELSE IF f.type = "COMMIT_ACK" /\ jetson_state = "J_WAIT_COMMIT_ACK" THEN "J_SWITCH_LOCAL"
  ELSE IF /\ f = Frame("CONFIRM_ACK", jetson_active_key, pending_random)
          /\ jetson_state = "J_WAIT_CONFIRM_ACK" THEN "J_RUN"
  ELSE jetson_state

\* An authentic Face-ID report goes to the PC when the traffic is enabled.
ReceiveFrame ==
  /\ hold # NoFrame
  /\ hold.key = NoRandom \/ key_fsm = "active"
  /\ hold' = NoFrame
  /\ Goto(AfterFrame(hold))
  /\ last_submitted' = IF jetson_state # "J_RUN" /\ jetson_state' = "J_RUN"
                       THEN "NONE" ELSE last_submitted
  /\ UNCHANGED <<pending_random, keyVars, encrypting, spi_tx, management_pending,
                 door_cmd, busVars, jetsonVars>>

\* The session manager takes a PC or Basys3 frame of the same cycle instead.
LoseFrame ==
  /\ hold # NoFrame
  /\ hold' = NoFrame
  /\ UNCHANGED <<pending_random, new_generation, jetson_state, keyVars, encrypting, spi_tx,
                 management_pending, doorVars, busVars, jetsonVars>>

-----------------------------------------------------------------------------
(* The Jetson.                                                               *)

\* after_send, when the transfer has returned.
Applied(j, after) ==
  IF after = "SWITCH_KEY"
  THEN [j EXCEPT !.previous = j.key, !.key = j.pending, !.state = "WAIT_CONFIRM"]
  ELSE IF after = "SESSION_READY"
  THEN [j EXCEPT !.current = j.pending, !.ready = TRUE, !.state = "RUN"]
  ELSE j

\* The door command is decoded with the current key, else with the previous one.
Opens(j, f) == f.key = j.key \/ (f.key = j.previous /\ j.previous # NoRandom)

IsChallenge(j, f) ==
  f.type = "CONFIRM" /\ f.key = j.key /\ j.pending # NoRandom /\ f.body = j.pending
ActsOn(j, f) == f.type = "DOOR" /\ Opens(j, f) /\ j.ready /\ f.body # j.door

\* Mutation: KEY_UPDATE leaves session_ready set.
HandledWithoutPause(j, f) ==
  IF f.type = "UPDATE" THEN [j EXCEPT !.pending = f.body, !.state = "WAIT_COMMIT"]
  ELSE IF ActsOn(j, f) THEN [j EXCEPT !.door = f.body]
  ELSE j

Handled(j, f) ==
  IF f.type = "UPDATE" THEN [j EXCEPT !.ready = FALSE, !.pending = f.body, !.state = "WAIT_COMMIT"]
  ELSE IF ActsOn(j, f) THEN [j EXCEPT !.door = f.body]
  ELSE j

\* Mutation: KEY_COMMIT is answered once only.
AnswersCommitOnce(j) == j.state = "WAIT_COMMIT"

AnswersCommit(j) == j.pending # NoRandom

\* Mutation: COMMIT_ACK switches the key whenever it is sent.
AfterCommitAckAlways(j) == "SWITCH_KEY"

AfterCommitAck(j) == IF j.state = "WAIT_COMMIT" THEN "SWITCH_KEY" ELSE "NOTHING"

Responses(j, f) ==
  IF f.type = "UPDATE" THEN {Packet(Clear("READY", NoRandom), "NOTHING")}
  ELSE IF f.type = "COMMIT" /\ AnswersCommit(j)
  THEN {Packet(Clear("COMMIT_ACK", NoRandom), AfterCommitAck(j))}
  ELSE IF IsChallenge(j, f)
  THEN {Packet(Frame("CONFIRM_ACK", j.key, j.pending),
               IF j.state = "RUN" THEN "NOTHING" ELSE "SESSION_READY")}
  ELSE {}

\* A response whose type and payload are already queued is not queued again.
Enqueued(queue, responses) ==
  IF \E p \in responses : \A i \in 1..Len(queue) :
       queue[i].frame.type # p.frame.type \/ queue[i].frame.body # p.frame.body
  THEN Append(queue, CHOOSE p \in responses : TRUE)
  ELSE queue

\* get_face_id recognised somebody; a full face_queue drops its oldest entry.
QueueFace ==
  /\ faces' = IF faces = FaceCap THEN FaceCap ELSE faces + 1
  /\ faces' # faces
  /\ UNCHANGED <<pending_random, new_generation, jetson_state, keyVars, encrypting, spi_tx,
                 management_pending, hold, doorVars, busVars, jetson, management_queue, restarts>>

\* Mutation: Face-ID reports go before the responses.
AnswerNextAfterFaces == management_queue # << >> /\ ~(jetson.ready /\ faces > 0)

AnswerNext == management_queue # << >>

\* Mutation: next_packet does not look at session_ready.
FaceNextBeforeSession == ~AnswerNext /\ faces > 0

FaceNext == ~AnswerNext /\ jetson.ready /\ faces > 0

\* next_packet, and chip select falls.  Polls are 100 ms apart: the ZYBO has
\* dealt with the frame of the last one.
StartTransfer ==
  /\ mosi = NoPacket /\ hold = NoFrame
  /\ mosi' = IF AnswerNext THEN Head(management_queue)
             ELSE Packet(IF FaceNext THEN Frame("FACE", jetson.key, NoRandom)
                         ELSE Clear("POLL", NoRandom), "NOTHING")
  /\ management_queue' = IF AnswerNext THEN Tail(management_queue) ELSE management_queue
  /\ faces' = IF FaceNext THEN faces - 1 ELSE faces
  /\ miso' = spi_tx
  /\ UNCHANGED <<pending_random, new_generation, jetson_state, keyVars, encrypting, spi_tx,
                 management_pending, hold, doorVars, jetson, restarts>>

\* xfer2 returns: complete_transfer, and the ZYBO's slave has all 384 bits.  The
\* transfer lasts far longer than an encryption, the loading of a key or
\* J_SWITCH_LOCAL, a state of one clock that a frame received before it entered.
EndTransfer ==
  /\ mosi # NoPacket /\ encrypting = NoFrame /\ key_fsm = "active"
  /\ jetson_state # "J_SWITCH_LOCAL"
  /\ hold' = IF mosi.frame.type = "POLL" THEN NoFrame ELSE mosi.frame
  /\ management_pending' = FALSE
  /\ LET j == Applied(jetson, mosi.after)
     IN /\ jetson' = Handled(j, miso)
        /\ management_queue' = Enqueued(management_queue, Responses(j, miso))
  /\ mosi' = NoPacket /\ miso' = NoFrame
  /\ UNCHANGED <<pending_random, new_generation, jetson_state, keyVars, encrypting, spi_tx,
                 doorVars, faces, restarts>>

\* The Jetson program is stopped and started again; an interrupted transfer
\* never reaches 384 bits.
RestartJetson ==
  /\ restarts < Restarts
  /\ jetson # FreshJetson
  /\ restarts' = restarts + 1
  /\ jetson' = FreshJetson /\ management_queue' = << >> /\ faces' = 0
  /\ mosi' = NoPacket /\ miso' = NoFrame
  /\ UNCHANGED <<pending_random, new_generation, jetson_state, keyVars, encrypting, spi_tx,
                 management_pending, hold, doorVars>>

-----------------------------------------------------------------------------
FsmNext ==
  RestartHandshake \/ SendUpdate \/ SendCommit \/ SendConfirm
  \/ RetryUpdate \/ RetryCommit \/ RetryConfirm
  \/ SwitchLocal \/ StartKeyLoad \/ KeyLoaded

Next ==
  \/ NewEpoch \/ FsmNext
  \/ SetDoor \/ SubmitDoor \/ EncryptDone
  \/ ReceiveFrame \/ LoseFrame
  \/ QueueFace \/ StartTransfer \/ EndTransfer \/ RestartJetson

Spec == Init /\ [][Next]_vars

-----------------------------------------------------------------------------
(* Safety.                                                                   *)

\* A Jetson program that has been started again takes part from the next
\* KEY_UPDATE on (JETSON_SECURE_SPI_SPEC.md:319).
Absent == jetson.state = "WAIT_KEY_UPDATE"

\* While the ZYBO lets Face-ID and door frames through, both ends have the key
\* of the running epoch and the Jetson has gone to RUN.
JetsonAgreement ==
  TrafficEnabled =>
    /\ jetson_active_key = pending_random /\ key_fsm = "active"
    /\ Absent \/ (jetson.ready /\ jetson.key = pending_random /\ jetson.current = pending_random)

\* Whatever is sent again, overtaken by a new epoch or answered twice, the Jetson
\* never goes back to an older R or key, nor switches to the same key twice
\* (JETSON_SECURE_SPI_SPEC.md:235), which would lose the previous one.
KeysInOrder ==
  /\ jetson.key # NoRandom => jetson.previous < jetson.key
  /\ jetson.key <= jetson.pending /\ jetson.pending <= pending_random

\* session_ready means that the key of current_random is installed, at the
\* ZYBO too; the Jetson is never in RUN with another key than it believes.
ReadyIsReal ==
  jetson.ready =>
    /\ jetson.state = "RUN"
    /\ jetson.current = jetson.pending /\ jetson.key = jetson.current
    /\ jetson_active_key = jetson.current

\* One response per transfer: when one is added, the queue is empty, so neither
\* the test for an equal queued response nor maxlen ever swallows one.
NothingSwallowed == mosi # NoPacket => management_queue = << >>

\* A KEY_UPDATE never carries the R of a key the Jetson already uses: its
\* handler would start new codecs, whose counter begins at 1 again, under a
\* key they have been used with (JETSON_SECURE_SPI_SPEC.md:116).
NoCodecStartsAgain ==
  mosi # NoPacket /\ miso.type = "UPDATE" => miso.body # Applied(jetson, mosi.after).key

\* The Jetson moves the door only for a frame sealed under the session both
\* ends have: the fallback to previous_rx_codec never decides.
DoorFramesAreCurrent ==
  LET j == Applied(jetson, mosi.after)
  IN mosi # NoPacket /\ ActsOn(j, miso) => miso.key = j.key /\ miso.key = jetson_active_key

\* A Face-ID report is never refused for its key while reports are accepted.
FaceFramesAuthenticate ==
  TrafficEnabled /\ hold.type = "FACE" => hold.key = jetson_active_key

\* Retries, repeated polls and answers an epoch old move the Jetson's keys in
\* one direction only, and start no codec twice under one key.
KeysMoveForward == KeysInOrder /\ NoCodecStartsAgain

\* A session is one key at both ends: as long as traffic is enabled, as the
\* Jetson believes it, for the door frames it acts on and for the Face-ID
\* reports it sends.
SessionIsShared ==
  TypeOK /\ JetsonAgreement /\ ReadyIsReal /\ DoorFramesAreCurrent /\ FaceFramesAuthenticate
=============================================================================
