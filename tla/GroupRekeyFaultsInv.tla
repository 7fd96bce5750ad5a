------------------------- MODULE GroupRekeyFaultsInv -------------------------
(***************************************************************************)
(* The inductive invariant of GroupRekeyFaults: as GroupRekeyInv, with a   *)
(* client that may have forgotten everything and a Basys3 that may have    *)
(* been reset, in this epoch or in an earlier one.                         *)
(***************************************************************************)
EXTENDS GroupRekeyFaults, GroupRekeyInv

(* The PC and the UART.                                                      *)
\* Nothing after an acknowledgement of COMMIT is older than it.
NoOldFrame == ThisEpoch(FromPcTypes)

\* A new client: it has no session, and takes part again at the next UPDATE.
PcGone ==
  /\ pc_pending = NoRandom /\ KeyInUse = NoRandom
  /\ ~HasConfirmed /\ ~HasCommitted /\ pc_sender = "idle"

\* A client in the session of the last epoch ...
PcInSession == pc_pending = active_key /\ KeyInUse = active_key /\ HasConfirmed /\ ConfirmedR = active_key

\* ... one that has seen this epoch's R, with the last key or, after a
\* restart, with none to send under ...
PcHasR ==
  /\ NewPc
  /\ KeyInUse = active_key \/ (KeyInUse = NoRandom /\ pc_sender = "idle")

\* ... and one that has installed this epoch's key.
PcSwitched ==
  /\ pc_pending = pending_random /\ KeyInUse = pending_random /\ HasCommitted
  /\ HasConfirmed => ConfirmedR = pending_random

FPcBoot == group_state = "G_BOOT" => toPc = << >> /\ fromPc = << >> /\ PcGone

FPcAsked ==
  group_state \in AskingPc =>
    /\ \A f \in Elems(toPc) : /\ f.r \in {active_key, pending_random} \ {NoRandom}
                              /\ f.r = pending_random <=> f.type = "PC_KEY_UPDATE"
    /\ \A f \in Elems(fromPc) : /\ f.r \in {active_key, pending_random}
                                /\ f.r = pending_random => f.type = "PC_READY"
    /\ \/ PcInSession /\ Elems(fromPc) \cap NewAcks = {}
       \/ PcHasR /\ Elems(toPc) \subseteq Updates
       \/ PcGone
    /\ Ordered(toPc, Updates, Updates)
    /\ Ordered(fromPc, NewAcks, NoOldAck)
    /\ Elems(fromPc) \cap NewAcks # {} => Elems(toPc) \subseteq Updates

FPcPrepared ==
  group_state \in AskingBasys =>
    /\ PcHasR \/ PcGone
    /\ Elems(toPc) \subseteq Updates
    /\ \A f \in Elems(fromPc) : IF f.type \in PcAcks
                                THEN f = Frame("PC_READY", pending_random)
                                ELSE f.r = active_key

FPcCommitting ==
  group_state \in CommitPc =>
    /\ Elems(toPc) \subseteq Updates \cup Commits
    /\ Ordered(toPc, Commits, Commits)
    /\ Elems(fromPc) \subseteq NoOldAck
    /\ \A f \in Elems(fromPc) : f.type # "PC_CONFIRM_ACK"
    /\ \/ PcHasR \/ PcGone
       \/ PcSwitched /\ ~HasConfirmed /\ Elems(toPc) \subseteq Commits
    /\ used \/ CommitAck \in Elems(fromPc) => ~PcHasR /\ Elems(toPc) \subseteq Commits
    /\ Ordered(fromPc, {CommitAck}, NoOldFrame)

FPcCommitted ==
  group_state \in CommitBasys \cup Switching \cup ConfirmPc \cup ConfirmBasys \cup {"G_RUN"} =>
    /\ PcSwitched \/ PcGone
    /\ Elems(fromPc) \subseteq NoOldFrame
    /\ Elems(toPc) \subseteq NewToPc \ Updates
    /\ group_state # "G_RUN" => \A f \in Elems(toPc) : f.type \in PcRequests
    /\ ConfirmAck \in Elems(fromPc) \/ group_state \in ConfirmBasys \cup {"G_RUN"} => HasConfirmed \/ PcGone

\* No command is sealed under the epoch's key before its codecs are there.
UnusedInv == used => group_state \notin AskingPc \cup AskingBasys \cup {"G_BOOT"}
NotInstalling == used /\ pc_handler = "commit" => pc_pending # pending_random

FPcInv == FPcBoot /\ FPcAsked /\ FPcPrepared /\ FPcCommitting /\ FPcCommitted /\ UnusedInv

-----------------------------------------------------------------------------
(* The Basys3 and the SPI bus.                                               *)

\* It offers no acknowledgement: what may be left of earlier epochs.
Calm ==
  /\ ~bs_switch /\ bs_tx.type \in QuietTypes /\ bs_tx_type \in QuietTypes
  /\ spi_miso.type \in QuietTypes
  /\ spi_mosi # NoFrame => bs_inflight \in QuietTypes

\* Reset in this epoch, and back at the start.
Reset ==
  /\ was_reset /\ bs_rekey /\ ~bs_established /\ ~bs_switch
  /\ bs_tx.type = "NONE" /\ bs_tx_type = "NONE" /\ spi_miso.type = "NONE"
  /\ spi_mosi # NoFrame => bs_inflight = "NONE"

\* It offers READY, or COMMIT_ACK; without a reset for this epoch's R.
Offers(ack) ==
  /\ bs_rekey /\ ~bs_switch /\ (~was_reset => bs_pending = pending_random)
  /\ bs_tx.type = ack /\ bs_tx_type = ack
  /\ spi_mosi # NoFrame => spi_miso.type = ack /\ bs_inflight = ack

\* COMMIT_ACK has gone out, and the key is being installed or is installed.
FShifted ==
  /\ bs_rekey /\ (bs_switch \/ bs_established)
  /\ ~was_reset => /\ bs_pending = pending_random
                   /\ bs_switch \/ bs_key = pending_random
  /\ bs_tx.type = "BASYS_COMMIT_ACK" /\ bs_tx_type = "NONE"
  /\ spi_mosi # NoFrame => ~bs_switch /\ bs_inflight = "NONE"

\* CONFIRM has been answered.
FConfirmed ==
  /\ Calm /\ bs_established /\ ~bs_rekey
  /\ ~was_reset => bs_pending = pending_random /\ bs_key = pending_random

FBasysInv ==
  /\ spi_mosi = NoFrame => spi_miso = NoFrame
  /\ group_state = "G_BOOT" => Calm /\ SpiIdle
  /\ group_state \in AskingPc \cup {"G_SEND_BASYS_UPDATE"}
       => Calm /\ {spi_pending, spi_mosi} \subseteq AppFrames(active_key)
  /\ group_state = "G_WAIT_BASYS_READY"
       => \/ /\ Calm
             /\ \/ Sent("BASYS_KEY_UPDATE")
                \/ /\ spi_pending = Frame("BASYS_KEY_UPDATE", pending_random)
                   /\ spi_mosi \in AppFrames(active_key)
          \/ (Offers("BASYS_READY") \/ Reset) /\ Polling("BASYS_POLL_OLD")
  /\ group_state \in CommitPc \cup {"G_SEND_BASYS_POLL_OLD_READY", "G_SEND_BASYS_COMMIT"}
       => (Offers("BASYS_READY") \/ Reset) /\ SpiIdle
  /\ group_state = "G_WAIT_BASYS_COMMIT_ACK"
       => \/ (Offers("BASYS_READY") \/ Reset) /\ Sent("BASYS_KEY_COMMIT")
          \/ (Offers("BASYS_COMMIT_ACK") \/ FShifted \/ Reset) /\ Polling("BASYS_POLL_OLD")
  /\ group_state = "G_SEND_BASYS_POLL_OLD_COMMIT"
       => (Offers("BASYS_COMMIT_ACK") \/ FShifted \/ Reset) /\ SpiIdle
  /\ group_state \in Switching \cup ConfirmPc \cup {"G_SEND_BASYS_CONFIRM"} => (FShifted \/ Reset) /\ SpiIdle
  /\ group_state = "G_WAIT_BASYS_CONFIRM_ACK"
       => \/ (FShifted \/ Reset) /\ Sent("BASYS_KEY_CONFIRM")
          \/ (FConfirmed \/ Reset) /\ Polling("BASYS_POLL_NEW")
  /\ group_state = "G_SEND_BASYS_POLL_NEW" => (FConfirmed \/ Reset) /\ SpiIdle
  /\ group_state = "G_RUN"
       => (FConfirmed \/ Reset) /\ {spi_pending, spi_mosi} \subseteq AppFrames(pending_random)

\* The parts are inductive together.
FaultsInv == TypeFaultsOK /\ ZyboInv /\ FPcInv /\ PcHandling /\ NotInstalling /\ FBasysInv
=============================================================================
