---------------------------- MODULE GroupRekeyInv ----------------------------
(***************************************************************************)
(* The inductive invariant of GroupRekey: in which mode each peer is, and  *)
(* which frames can be on the wires, at every stage of the group FSM.      *)
(***************************************************************************)
EXTENDS GroupRekey

\* The stages of an epoch, in the order the group FSM goes through them.
AskingPc    == {"G_SEND_PC_UPDATE", "G_WAIT_PC_READY"}
AskingBasys == {"G_SEND_BASYS_UPDATE", "G_WAIT_BASYS_READY", "G_SEND_BASYS_POLL_OLD_READY"}
CommitPc    == {"G_SEND_PC_COMMIT", "G_WAIT_PC_COMMIT_ACK"}
CommitBasys == {"G_SEND_BASYS_COMMIT", "G_WAIT_BASYS_COMMIT_ACK", "G_SEND_BASYS_POLL_OLD_COMMIT"}
Switching   == {"G_SWITCH_LOCAL", "G_WAIT_LOCAL_KEY"}
ConfirmPc   == {"G_SEND_PC_CONFIRM", "G_WAIT_PC_CONFIRM_ACK"}
ConfirmBasys == {"G_SEND_BASYS_CONFIRM", "G_WAIT_BASYS_CONFIRM_ACK", "G_SEND_BASYS_POLL_NEW"}

\* The frames in a channel, and "no frame of A is followed by one outside B".
Elems(q) == {q[i] : i \in 1..Len(q)}
Ordered(q, A, B) == \A i, j \in 1..Len(q) : i < j /\ q[i] \in A => q[j] \in B

-----------------------------------------------------------------------------
\* The ZYBO's own key is the old one until LocalKeyDone.
ZyboInv ==
  /\ group_state = "G_BOOT" => pending_random = NoRandom /\ active_key = NoRandom
  /\ group_state # "G_BOOT" => pending_random \in Randoms
  /\ group_state \in AskingPc \cup AskingBasys \cup CommitPc \cup CommitBasys \cup Switching
       => active_key # pending_random
  /\ group_state \in ConfirmPc \cup ConfirmBasys \cup {"G_RUN"} => active_key = pending_random
  /\ group_state = "G_RUN" => current_random = pending_random

-----------------------------------------------------------------------------
(* The PC and the UART.                                                      *)
ThisEpoch(types) == {f \in Frames(types) : f.r = pending_random}
NewToPc    == ThisEpoch(ToPcTypes)
Updates    == ThisEpoch({"PC_KEY_UPDATE"})
Commits    == ThisEpoch({"PC_KEY_COMMIT"})
NewAcks    == ThisEpoch(PcAcks)
NoOldAck   == {f \in Frames(FromPcTypes) : f.type \in PcAcks => f.r = pending_random}
NoOldCmd   == {f \in Frames(FromPcTypes) : f.type = "PC_TO_ZYBO" => f.r = pending_random}
CommitAck  == Frame("PC_COMMIT_ACK", pending_random)
ConfirmAck == Frame("PC_CONFIRM_ACK", pending_random)

\* The PC's mode is the one its handler is bound to take: what it has answered
\* counts as done (KeyInUse, HasConfirmed and ConfirmedR of GroupRekey).
HasCommitted == pc_key_active \/ pc_handler = "commit"
pcModes == <<HasConfirmed, ConfirmedR, pc_pending, HasCommitted, KeyInUse>>

\* The PC has not seen this epoch's R: it runs the old session, or none yet.
OldPc ==
  /\ pc_pending = active_key
  /\ \/ HasConfirmed /\ ConfirmedR = active_key
     \/ active_key = NoRandom /\ ~HasConfirmed

NewPc == pc_pending = pending_random /\ ~HasConfirmed /\ ~HasCommitted

PcBoot ==
  group_state = "G_BOOT" =>
    /\ toPc = << >> /\ fromPc = << >>
    /\ KeyInUse = NoRandom /\ pc_pending = NoRandom /\ ~HasConfirmed
    /\ pc_sender = "idle"

PcAsked ==
  group_state \in AskingPc =>
    /\ KeyInUse = active_key
    /\ \A f \in Elems(toPc) : /\ f.r \in {active_key, pending_random} \ {NoRandom}
                              /\ f.r = pending_random => f.type = "PC_KEY_UPDATE"
    /\ \A f \in Elems(fromPc) : /\ f.r \in {active_key, pending_random}
                                /\ f.r = pending_random => f.type = "PC_READY"
    /\ \/ OldPc /\ Elems(fromPc) \cap NewAcks = {}
       \/ NewPc /\ Elems(toPc) \subseteq NewToPc
    /\ Ordered(toPc, NewToPc, NewToPc)
    /\ Ordered(fromPc, NewAcks, NoOldAck)

\* From PC_READY on, nothing of an earlier epoch is on the UART but commands.
PcAnswered ==
  group_state \notin AskingPc \cup {"G_BOOT"} =>
    /\ pc_pending = pending_random
    /\ HasConfirmed => ConfirmedR = pending_random
    /\ Elems(toPc) \subseteq NewToPc
    /\ Elems(fromPc) \subseteq NoOldAck
    /\ ConfirmAck \in Elems(fromPc) => HasConfirmed

PcPrepared ==
  group_state \in AskingBasys =>
    /\ KeyInUse = active_key /\ NewPc
    /\ \A f \in Elems(toPc) : f.type = "PC_KEY_UPDATE"
    /\ \A f \in Elems(fromPc) : f.type = "PC_READY" \/ f.r = active_key

PcCommitting ==
  group_state \in CommitPc =>
    /\ KeyInUse \in {active_key, pending_random}
    /\ HasCommitted => KeyInUse = pending_random /\ Elems(toPc) \subseteq Commits
    /\ Elems(toPc) \subseteq Updates \cup Commits
    /\ Ordered(toPc, Commits, Commits)
    /\ CommitAck \in Elems(fromPc) => HasCommitted
    /\ Ordered(fromPc, {CommitAck}, NoOldCmd)

PcCommitted ==
  group_state \in CommitBasys \cup Switching \cup ConfirmPc \cup ConfirmBasys \cup {"G_RUN"} =>
    /\ KeyInUse = pending_random /\ HasCommitted
    /\ Elems(toPc) \cap Updates = {}
    /\ Elems(fromPc) \subseteq ThisEpoch(FromPcTypes)
    /\ group_state # "G_RUN" => \A f \in Elems(toPc) : f.type \in PcRequests

PcConfirmed ==
  group_state \in ConfirmBasys \cup {"G_RUN"} => HasConfirmed

\* COMMIT comes before CONFIRM: codecs are not replaced in a session.
PcHandling ==
  /\ HasConfirmed => HasCommitted
  /\ pc_handler = "commit" => ~HasConfirmed

PcInv == PcBoot /\ PcAsked /\ PcAnswered /\ PcPrepared /\ PcCommitting
         /\ PcCommitted /\ PcConfirmed

-----------------------------------------------------------------------------
(* The Basys3 and the SPI bus.                                               *)
QuietTypes == {"NONE", "BASYS_TO_ZYBO", "BASYS_CONFIRM_ACK"}

\* The Basys3 has not seen this epoch's R.
Quiet ==
  /\ bs_pending = active_key /\ bs_key = active_key /\ ~bs_switch
  /\ bs_tx.type \in QuietTypes /\ bs_tx_type \in QuietTypes
  /\ spi_miso.type \in QuietTypes
  /\ spi_mosi # NoFrame => bs_inflight \in QuietTypes

\* It has taken R and offers READY.
Prepared ==
  /\ bs_pending = pending_random /\ bs_rekey
  /\ bs_key = active_key /\ ~bs_switch
  /\ bs_tx.type = "BASYS_READY" /\ bs_tx_type = "BASYS_READY"
  /\ spi_mosi # NoFrame => spi_miso.type = "BASYS_READY" /\ bs_inflight = "BASYS_READY"

\* It offers COMMIT_ACK and will switch when the frame has gone out.
Committed ==
  /\ bs_pending = pending_random /\ bs_rekey
  /\ bs_key = active_key /\ ~bs_switch
  /\ bs_tx.type = "BASYS_COMMIT_ACK" /\ bs_tx_type = "BASYS_COMMIT_ACK"
  /\ spi_mosi # NoFrame => spi_miso.type = "BASYS_COMMIT_ACK" /\ bs_inflight = "BASYS_COMMIT_ACK"

\* COMMIT_ACK has gone out: the key is being installed, or is installed.  The
\* frame stays in the buffer but is no longer marked as one.
Shifted ==
  /\ bs_pending = pending_random /\ bs_rekey
  /\ bs_switch \/ (bs_key = pending_random /\ bs_established)
  /\ bs_tx.type = "BASYS_COMMIT_ACK" /\ bs_tx_type = "NONE"
  /\ spi_mosi # NoFrame => ~bs_switch /\ bs_inflight = "NONE"

\* It has answered CONFIRM and carries application traffic.
Confirmed ==
  /\ bs_pending = pending_random /\ bs_key = pending_random
  /\ bs_established /\ ~bs_rekey /\ ~bs_switch
  /\ bs_tx.type \in QuietTypes /\ bs_tx_type \in QuietTypes
  /\ spi_miso.type \in QuietTypes
  /\ bs_tx.type = "BASYS_TO_ZYBO" => bs_tx.r = pending_random
  /\ spi_miso.type = "BASYS_TO_ZYBO" => spi_miso.r = pending_random
  /\ spi_mosi # NoFrame => bs_inflight \in QuietTypes

AppFrames(k) == {NoFrame, Frame("ZYBO_TO_BASYS", k)}

\* One management frame of the given type is pending or being shifted.
Sent(type) ==
  \/ spi_pending = Frame(type, pending_random) /\ spi_mosi = NoFrame
  \/ spi_pending = NoFrame /\ spi_mosi = Frame(type, pending_random)
Polling(type) == SpiIdle \/ Sent(type)

BasysInv ==
  /\ spi_mosi = NoFrame => spi_miso = NoFrame
  /\ group_state = "G_BOOT" => Quiet /\ SpiIdle
  /\ group_state \in AskingPc \cup {"G_SEND_BASYS_UPDATE"}
       => Quiet /\ {spi_pending, spi_mosi} \subseteq AppFrames(active_key)
  /\ group_state = "G_WAIT_BASYS_READY"
       => \/ /\ Quiet
             /\ \/ Sent("BASYS_KEY_UPDATE")
                \/ /\ spi_pending = Frame("BASYS_KEY_UPDATE", pending_random)
                   /\ spi_mosi \in AppFrames(active_key)
          \/ Prepared /\ Polling("BASYS_POLL_OLD")
  /\ group_state \in CommitPc \cup {"G_SEND_BASYS_POLL_OLD_READY", "G_SEND_BASYS_COMMIT"}
       => Prepared /\ SpiIdle
  /\ group_state = "G_WAIT_BASYS_COMMIT_ACK"
       => \/ Prepared /\ Sent("BASYS_KEY_COMMIT")
          \/ (Committed \/ Shifted) /\ Polling("BASYS_POLL_OLD")
  /\ group_state = "G_SEND_BASYS_POLL_OLD_COMMIT" => (Committed \/ Shifted) /\ SpiIdle
  /\ group_state \in Switching \cup ConfirmPc \cup {"G_SEND_BASYS_CONFIRM"} => Shifted /\ SpiIdle
  /\ group_state = "G_WAIT_BASYS_CONFIRM_ACK"
       => \/ Shifted /\ Sent("BASYS_KEY_CONFIRM")
          \/ Confirmed /\ Polling("BASYS_POLL_NEW")
  /\ group_state = "G_SEND_BASYS_POLL_NEW" => Confirmed /\ SpiIdle
  /\ group_state = "G_RUN"
       => Confirmed /\ {spi_pending, spi_mosi} \subseteq AppFrames(pending_random)

\* The parts are inductive together.
IInv == TypeOK /\ ZyboInv /\ PcInv /\ PcHandling /\ BasysInv

-----------------------------------------------------------------------------
\* The parties of the PC + Basys3 domain, and who must hold the new key before
\* one of them takes it.
Members == {"zybo", "pc", "basys"}
Before  == [p \in Members |-> IF p = "pc" THEN {} ELSE {"pc"}]
HeldKey == [p \in Members |-> IF p = "zybo" THEN active_key
                              ELSE IF p = "pc" THEN KeyInUse ELSE bs_key]

Session == INSTANCE SessionKey WITH
  Parties <- Members, First <- Before, key <- HeldKey,
  target <- pending_random, traffic <- group_state = "G_RUN"

\* The handshake is a re-keying of the three parties: each of them goes once
\* per epoch from the last key to this epoch's, the ZYBO and the Basys3 after
\* the PC, and application traffic (G_RUN) is allowed only with one key.
ImplementsSession == Session!Spec
=============================================================================
