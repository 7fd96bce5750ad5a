---------------------------- MODULE JetsonLinkInv ----------------------------
(***************************************************************************)
(* Why SessionIsShared and KeysMoveForward hold: the inductive invariant   *)
(* of JetsonLink.                                                          *)
(***************************************************************************)
EXTENDS JetsonLink

Sealed(f) == f.type \in {"CONFIRM", "DOOR"}
IsUpdate(f) == f.type = "UPDATE"

\* What the Jetson is sending, and the response that waits.
Outgoing == {mosi} \cup {management_queue[i] : i \in 1..Len(management_queue)}

\* The Jetson has no R above r and is about to receive none.
KnownUpTo(r) == jetson.pending <= r /\ (IsUpdate(miso) => miso.body <= r)

\* KEY_UPDATE with the R of the running epoch has not been loaded yet.
Unannounced ==
  /\ jetson.pending < pending_random
  /\ \A f \in {miso, spi_tx} : IsUpdate(f) => f.body < pending_random

\* The ZYBO is between READY and the confirmation under the new key: there is
\* no session, and none can begin.
Switching ==
  jetson_state \in {"J_SEND_COMMIT", "J_WAIT_COMMIT_ACK", "J_SWITCH_LOCAL", "J_WAIT_LOCAL_KEY"}
Switched == jetson_state \in {"J_SEND_CONFIRM", "J_WAIT_CONFIRM_ACK", "J_RUN"}

-----------------------------------------------------------------------------
\* A response waits only between two transfers, and alone.
QueueInv ==
  \/ management_queue = << >>
  \/ mosi = NoPacket /\ \E p \in Packets \ {NoPacket} : management_queue = <<p>>

\* One frame at a time: the ZYBO has dealt with the last one when a transfer
\* begins, and with everything when it loads a key.
BusInv ==
  /\ mosi # NoPacket => hold = NoFrame
  /\ mosi = NoPacket => miso = NoFrame
  /\ jetson_state = "J_SWITCH_LOCAL" => key_fsm = "active"
  /\ jetson_state = "J_SWITCH_LOCAL" \/ key_fsm # "active" => hold = NoFrame /\ encrypting = NoFrame
  /\ key_fsm # "active" =>
       jetson_state \in {"J_WAIT_EPOCH", "J_WAIT_LOCAL_KEY", "J_SEND_UPDATE", "J_WAIT_READY"}
  /\ key_fsm = "reload" => jetson_state # "J_WAIT_EPOCH"

\* Where the FSM stands tells what is in the register and in the engine.
RegisterInv ==
  /\ jetson_state = "J_WAIT_EPOCH" => spi_tx = NoFrame /\ encrypting = NoFrame
  /\ jetson_state = "J_WAIT_EPOCH" => new_generation \/ pending_random = NoRandom
  /\ jetson_state # "J_WAIT_EPOCH" \/ new_generation => pending_random # NoRandom
  /\ jetson_state = "J_WAIT_READY" => IsUpdate(spi_tx)
  /\ jetson_state = "J_SEND_COMMIT" => spi_tx.type \in {"UPDATE", "COMMIT"}
  /\ jetson_state \in {"J_WAIT_COMMIT_ACK", "J_SWITCH_LOCAL", "J_WAIT_LOCAL_KEY"} =>
       spi_tx.type = "COMMIT"
  /\ Switched => ~IsUpdate(spi_tx)
  /\ Switching => encrypting = NoFrame \/ IsUpdate(spi_tx)
  /\ encrypting # NoFrame /\ IsUpdate(spi_tx) => management_pending

\* A sealed frame on its way to the Jetson is sealed under the key the engine
\* has; there is none while the key is about to change.
SealedInv ==
  /\ \A f \in {encrypting, spi_tx, miso} : Sealed(f) => f.key = jetson_active_key
  /\ encrypting.type \in {"NONE", "CONFIRM", "DOOR"}
  /\ Switching \/ key_fsm # "active" => ~Sealed(spi_tx) /\ ~Sealed(miso)

\* The order of the R: what is in the register, in the transfer and in the
\* Jetson was loaded in this order.
OrderInv ==
  /\ KnownUpTo(pending_random) /\ (IsUpdate(spi_tx) => spi_tx.body <= pending_random)
  /\ new_generation /\ jetson_state \notin {"J_SEND_UPDATE", "J_WAIT_READY"} => Unannounced
  /\ jetson_state \in {"J_SEND_UPDATE", "J_WAIT_READY"} =>
       Unannounced \/ spi_tx = Clear("UPDATE", pending_random)
  /\ jetson_state \in {"J_WAIT_READY", "J_SEND_COMMIT"} /\ IsUpdate(spi_tx) /\ ~new_generation =>
       spi_tx.body = pending_random
  /\ jetson_state = "J_WAIT_LOCAL_KEY" /\ key_fsm = "loading" /\ ~new_generation =>
       jetson_active_key = pending_random
  /\ Switched => KnownUpTo(jetson_active_key)
  /\ Switched /\ ~new_generation => jetson_active_key = pending_random
  /\ Sealed(spi_tx) \/ (encrypting # NoFrame /\ ~IsUpdate(spi_tx)) => KnownUpTo(jetson_active_key)
  /\ Sealed(miso) => jetson.pending <= jetson_active_key
  /\ jetson_state = "J_RUN" => ~IsUpdate(miso)

\* A KEY_UPDATE that is still there has not been committed.
UpdateInv ==
  /\ IsUpdate(spi_tx) =>
       /\ KnownUpTo(spi_tx.body) /\ jetson.key < spi_tx.body
       /\ jetson.pending = spi_tx.body =>
            /\ miso = NoFrame \/ miso = spi_tx
            /\ \A p \in Outgoing : p.after # "SWITCH_KEY"
  /\ IsUpdate(miso) =>
       /\ jetson.pending <= miso.body /\ jetson.key < miso.body
       /\ jetson.pending = miso.body => mosi.after # "SWITCH_KEY"

\* What the state of SecureJetsonProtocol says of its other fields.
Consistent(j) ==
  /\ j.state = "WAIT_KEY_UPDATE" => j = FreshJetson
  /\ j.state = "WAIT_COMMIT" => ~j.ready /\ j.key < j.pending
  /\ j.state = "WAIT_CONFIRM" => ~j.ready /\ j.key = j.pending /\ j.key # NoRandom
  /\ j.state = "RUN" =>
       /\ j.ready /\ j.key = j.pending /\ j.key # NoRandom
       /\ j.current = j.key /\ jetson_active_key = j.key
  /\ j.key # NoRandom => j.previous < j.key
JetsonInv == Consistent(jetson)

\* What a response that waits or is being sent says of the Jetson.
OutgoingInv ==
  \A p \in Outgoing :
    /\ p.after = "SWITCH_KEY" => p.frame.type = "COMMIT_ACK" /\ jetson.state = "WAIT_COMMIT"
    /\ p.after = "SESSION_READY" =>
         /\ p.frame.type = "CONFIRM_ACK" /\ jetson.state = "WAIT_CONFIRM"
         /\ jetson_active_key = jetson.key
    /\ p.frame.type = "READY" => jetson.state = "WAIT_COMMIT"
    /\ p.frame.type = "CONFIRM_ACK" =>
         /\ p.frame.key = jetson.key /\ p.frame.body = jetson.key
         /\ p.after = "SESSION_READY" \/ jetson.state = "RUN"
    /\ p.frame.type = "FACE" => jetson.ready /\ p.frame.key = jetson.key

\* While the ZYBO switches there is no session, and none is about to begin.
QuietInv ==
  /\ Switching \/ key_fsm = "reload" =>
       /\ ~jetson.ready
       /\ \A p \in Outgoing : p.after # "SESSION_READY"

\* What a frame that has reached the ZYBO says of the Jetson.
HoldInv ==
  /\ hold.type = "READY" => jetson.state \in {"WAIT_KEY_UPDATE", "WAIT_COMMIT"}
  /\ hold.type = "CONFIRM_ACK" =>
       \/ Absent
       \/ jetson.state = "RUN" /\ jetson.key = hold.body
       \/ jetson.state = "WAIT_COMMIT" /\ jetson.pending > hold.body
  /\ hold.type = "FACE" => hold.key = jetson_active_key

RunInv ==
  TrafficEnabled => Absent \/ (jetson.state = "RUN" /\ jetson.key = pending_random)

JetsonLinkInv ==
  /\ TypeOK /\ QueueInv /\ BusInv /\ RegisterInv /\ SealedInv /\ OrderInv /\ UpdateInv
  /\ JetsonInv /\ OutgoingInv /\ QuietInv /\ HoldInv /\ RunInv
=============================================================================
