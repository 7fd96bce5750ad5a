------------------------------ MODULE GroupRekey ------------------------------
(***************************************************************************)
(* The session-key change of the PC + Basys3 domain.                       *)
(*                                                                         *)
(* The ZYBO coordinator (zybo_session_manager.sv, the group FSM) draws a   *)
(* random R, and by a three-round handshake makes the PC client            *)
(* (secure_serial_client.py) and the Basys3 rack controller                *)
(* (basys3_secure_rack_control.sv) install the key MASTER ^ R.  The PC is  *)
(* reached over a UART (two FIFO channels that may lose frames), the       *)
(* Basys3 over a full-duplex SPI transfer: a response leaves the slave in  *)
(* the transfer that follows the request.                                  *)
(*                                                                         *)
(* A key is named by the random it was derived from; NoRandom is the reset *)
(* value 0, whose key is MASTER itself.                                    *)
(***************************************************************************)
EXTENDS Naturals, Sequences

CONSTANTS
  Randoms,     \* the values the LFSR may have when an epoch begins
  NoRandom,    \* the reset value of every R register
  UartCap,     \* bound: frames in flight in one direction of the UART
  Collisions   \* may a PC frame and a Basys frame arrive in the same cycle?

ASSUME RandomsAssumption == NoRandom \notin Randoms
ASSUME UartCapAssumption == UartCap \in Nat \ {0}
ASSUME CollisionsAssumption == Collisions \in BOOLEAN

VARIABLES
  group_state,      \* state register of the group FSM
  pending_random,   \* R of the epoch being installed or running
  current_random,   \* R of the last epoch that reached G_RUN
  active_key,       \* key in the ZYBO's shared PC/Basys AES engines
  toPc,             \* UART frames on their way to the PC
  fromPc,           \* UART frames on their way to the ZYBO
  pc_ready,         \* session_ready
  pc_current,       \* current_random of the client
  pc_pending,       \* pending_random of the client (NoRandom for None)
  pc_key_active,    \* pending_key_active
  pc_key,           \* key of tx_codec and rx_codec, always switched together
  pc_handler,       \* what the receive thread has answered and not yet assigned
  pc_sender,        \* a send_command call: "idle", or past its session_ready test
  spi_pending,      \* basys_spi_tx_pending and the frame it holds
  spi_mosi,         \* frame being shifted to the Basys3
  spi_miso,         \* frame being shifted back
  bs_pending,       \* pending_random of the Basys3
  bs_rekey,         \* rekey_in_progress
  bs_established,   \* session_established
  bs_switch,        \* switch_in_progress: key FSM reloading the engines
  bs_key,           \* key in the Basys3's AES engines
  bs_tx,            \* secure_spi_tx
  bs_tx_type,       \* secure_spi_tx_type
  bs_mgmt_pending,  \* management_response_pending
  bs_inflight       \* spi_response_inflight_type

zyboVars  == <<group_state, pending_random, current_random, active_key>>
pcVars    == <<pc_ready, pc_current, pc_pending, pc_key_active, pc_key, pc_handler>>
uartVars  == <<toPc, fromPc>>
spiVars   == <<spi_pending, spi_mosi, spi_miso>>
basysVars == <<bs_pending, bs_rekey, bs_established, bs_switch, bs_key, bs_tx,
               bs_tx_type, bs_mgmt_pending, bs_inflight>>
vars == <<zyboVars, pcVars, pc_sender, uartVars, spiVars, basysVars>>

-----------------------------------------------------------------------------
Keys == Randoms \cup {NoRandom}

GroupStates ==
  {"G_BOOT", "G_RUN",
   "G_SEND_PC_UPDATE", "G_WAIT_PC_READY",
   "G_SEND_BASYS_UPDATE", "G_WAIT_BASYS_READY", "G_SEND_BASYS_POLL_OLD_READY",
   "G_SEND_PC_COMMIT", "G_WAIT_PC_COMMIT_ACK",
   "G_SEND_BASYS_COMMIT", "G_WAIT_BASYS_COMMIT_ACK", "G_SEND_BASYS_POLL_OLD_COMMIT",
   "G_SWITCH_LOCAL", "G_WAIT_LOCAL_KEY",
   "G_SEND_PC_CONFIRM", "G_WAIT_PC_CONFIRM_ACK",
   "G_SEND_BASYS_CONFIRM", "G_WAIT_BASYS_CONFIRM_ACK", "G_SEND_BASYS_POLL_NEW"}

\* A clear frame carries R, an AES-GCM frame is known by the key it is sealed
\* under; POLL and the empty SPI buffer carry nothing anyone looks at.
PcRequests  == {"PC_KEY_UPDATE", "PC_KEY_COMMIT", "PC_KEY_CONFIRM"}
PcAcks      == {"PC_READY", "PC_COMMIT_ACK", "PC_CONFIRM_ACK"}
BasysAcks   == {"BASYS_READY", "BASYS_COMMIT_ACK", "BASYS_CONFIRM_ACK"}
ToPcTypes   == PcRequests \cup {"ZYBO_TO_PC"}
FromPcTypes == PcAcks \cup {"PC_TO_ZYBO"}
MosiTypes   == {"BASYS_KEY_UPDATE", "BASYS_KEY_COMMIT", "BASYS_KEY_CONFIRM",
                "BASYS_POLL_OLD", "BASYS_POLL_NEW", "ZYBO_TO_BASYS", "NONE"}
MisoTypes   == BasysAcks \cup {"BASYS_TO_ZYBO", "NONE"}

Frame(type, r) == [type |-> type, r |-> r]
Frames(types)  == [type : types, r : Keys]
NoFrame == Frame("NONE", NoRandom)

SpiIdle == spi_pending = NoFrame /\ spi_mosi = NoFrame

TypeOK ==
  /\ group_state \in GroupStates
  /\ pending_random \in Keys /\ current_random \in Keys /\ active_key \in Keys
  /\ toPc \in Seq(Frames(ToPcTypes)) /\ Len(toPc) <= UartCap
  /\ fromPc \in Seq(Frames(FromPcTypes)) /\ Len(fromPc) <= UartCap
  /\ pc_ready \in BOOLEAN /\ pc_key_active \in BOOLEAN
  /\ pc_current \in Keys /\ pc_pending \in Keys /\ pc_key \in Keys
  /\ pc_handler \in {"idle", "commit", "confirm"}
  /\ pc_sender \in {"idle", "checked"}
  /\ spi_pending \in Frames(MosiTypes) /\ spi_mosi \in Frames(MosiTypes)
  /\ spi_miso \in Frames(MisoTypes)
  /\ bs_pending \in Keys /\ bs_key \in Keys
  /\ bs_rekey \in BOOLEAN /\ bs_established \in BOOLEAN
  /\ bs_switch \in BOOLEAN /\ bs_mgmt_pending \in BOOLEAN
  /\ bs_tx \in Frames(MisoTypes)
  /\ bs_tx_type \in MisoTypes /\ bs_inflight \in MisoTypes

Init ==
  /\ group_state = "G_BOOT"
  /\ pending_random = NoRandom /\ current_random = NoRandom /\ active_key = NoRandom
  /\ toPc = << >> /\ fromPc = << >>
  /\ pc_ready = FALSE /\ pc_key_active = FALSE
  /\ pc_current = NoRandom /\ pc_pending = NoRandom /\ pc_key = NoRandom
  /\ pc_handler = "idle" /\ pc_sender = "idle"
  /\ spi_pending = NoFrame /\ spi_mosi = NoFrame /\ spi_miso = NoFrame
  /\ bs_pending = NoRandom /\ bs_key = NoRandom
  /\ bs_rekey = TRUE /\ bs_established = FALSE
  /\ bs_switch = FALSE /\ bs_mgmt_pending = FALSE
  /\ bs_tx = NoFrame /\ bs_tx_type = "NONE" /\ bs_inflight = "NONE"

-----------------------------------------------------------------------------
(* The ZYBO's group FSM: one action per transition it makes on its own.      *)

\* Mutation: the epoch timer is not held while a key change is under way.
BeginEpochAnytime(from) ==
  /\ \/ group_state = from
     \/ from = "G_RUN" /\ group_state # "G_BOOT"
  /\ \E r \in Randoms \ {pending_random} : pending_random' = r
  /\ group_state' = "G_SEND_PC_UPDATE"
  /\ UNCHANGED <<current_random, active_key, pcVars, pc_sender, uartVars, spiVars, basysVars>>

\* The epoch timer, or the first key load, starts an epoch with a fresh R.
\* The LFSR never shows the same nonzero value at two consecutive draws.
BeginEpoch(from) ==
  /\ group_state = from
  /\ \E r \in Randoms \ {pending_random} : pending_random' = r
  /\ group_state' = "G_SEND_PC_UPDATE"
  /\ UNCHANGED <<current_random, active_key, pcVars, pc_sender, uartVars, spiVars, basysVars>>

Boot          == BeginEpoch("G_BOOT")
ExpireSession == BeginEpoch("G_RUN")

SendPc(from, type, next) ==
  /\ group_state = from
  /\ Len(toPc) < UartCap
  /\ toPc' = Append(toPc, Frame(type, pending_random))
  /\ group_state' = next
  /\ UNCHANGED <<pending_random, current_random, active_key, fromPc,
                 pcVars, pc_sender, spiVars, basysVars>>

SendPcUpdate  == SendPc("G_SEND_PC_UPDATE",  "PC_KEY_UPDATE",  "G_WAIT_PC_READY")
SendPcCommit  == SendPc("G_SEND_PC_COMMIT",  "PC_KEY_COMMIT",  "G_WAIT_PC_COMMIT_ACK")
SendPcConfirm == SendPc("G_SEND_PC_CONFIRM", "PC_KEY_CONFIRM", "G_WAIT_PC_CONFIRM_ACK")

SendBasys(from, type, next) ==
  /\ group_state = from
  /\ spi_pending = NoFrame
  /\ spi_pending' = Frame(type, pending_random)
  /\ group_state' = next
  /\ UNCHANGED <<pending_random, current_random, active_key, uartVars,
                 pcVars, pc_sender, spi_mosi, spi_miso, basysVars>>

SendBasysUpdate  == SendBasys("G_SEND_BASYS_UPDATE",  "BASYS_KEY_UPDATE",  "G_WAIT_BASYS_READY")
SendBasysCommit  == SendBasys("G_SEND_BASYS_COMMIT",  "BASYS_KEY_COMMIT",  "G_WAIT_BASYS_COMMIT_ACK")
SendBasysConfirm == SendBasys("G_SEND_BASYS_CONFIRM", "BASYS_KEY_CONFIRM", "G_WAIT_BASYS_CONFIRM_ACK")
PollOldReady  == SendBasys("G_SEND_BASYS_POLL_OLD_READY",  "BASYS_POLL_OLD", "G_WAIT_BASYS_READY")
PollOldCommit == SendBasys("G_SEND_BASYS_POLL_OLD_COMMIT", "BASYS_POLL_OLD", "G_WAIT_BASYS_COMMIT_ACK")
PollNew       == SendBasys("G_SEND_BASYS_POLL_NEW",        "BASYS_POLL_NEW", "G_WAIT_BASYS_CONFIRM_ACK")

\* The 20 ms retry counter of a wait state runs out.
Retry(wait, send) ==
  /\ group_state = wait
  /\ group_state' = send
  /\ UNCHANGED <<pending_random, current_random, active_key, uartVars,
                 pcVars, pc_sender, spiVars, basysVars>>

\* A frame takes 4 ms, so the transmitter is free again when the 20 ms are over.
RetryPc(wait, send) == Len(toPc) < UartCap /\ Retry(wait, send)

RetryPcUpdate  == RetryPc("G_WAIT_PC_READY", "G_SEND_PC_UPDATE")
RetryPcCommit  == RetryPc("G_WAIT_PC_COMMIT_ACK", "G_SEND_PC_COMMIT")
RetryPcConfirm == RetryPc("G_WAIT_PC_CONFIRM_ACK", "G_SEND_PC_CONFIRM")

\* A Basys3 frame is polled for, never sent again.  A 384-bit transfer at
\* 100 kHz takes 3.84 ms, so the 20 ms are over only when the bus is idle.
RetryPollReady   == SpiIdle /\ Retry("G_WAIT_BASYS_READY", "G_SEND_BASYS_POLL_OLD_READY")
RetryPollCommit  == SpiIdle /\ Retry("G_WAIT_BASYS_COMMIT_ACK", "G_SEND_BASYS_POLL_OLD_COMMIT")
RetryPollConfirm == SpiIdle /\ Retry("G_WAIT_BASYS_CONFIRM_ACK", "G_SEND_BASYS_POLL_NEW")

\* pc_basys_key_reload pulses; the key FSM loads both engines with
\* MASTER ^ pending_random and answers with pc_basys_key_reload_done.
SwitchLocal ==
  /\ group_state = "G_SWITCH_LOCAL"
  /\ group_state' = "G_WAIT_LOCAL_KEY"
  /\ UNCHANGED <<pending_random, current_random, active_key, uartVars,
                 pcVars, pc_sender, spiVars, basysVars>>

LocalKeyDone ==
  /\ group_state = "G_WAIT_LOCAL_KEY"
  /\ active_key' = pending_random
  /\ group_state' = "G_SEND_PC_CONFIRM"
  /\ UNCHANGED <<pending_random, current_random, uartVars,
                 pcVars, pc_sender, spiVars, basysVars>>

\* Mutation: the traffic enable does not hold rack commands back.
SendRackCommandAnytime ==
  /\ spi_pending = NoFrame
  /\ spi_pending' = Frame("ZYBO_TO_BASYS", active_key)
  /\ UNCHANGED <<zyboVars, uartVars, pcVars, pc_sender, spi_mosi, spi_miso, basysVars>>

\* Application traffic, only while pc_basys_traffic_enable (G_RUN): a rack
\* command to the Basys3, a sensor or face report to the PC.
SendRackCommand ==
  /\ group_state = "G_RUN"
  /\ spi_pending = NoFrame
  /\ spi_pending' = Frame("ZYBO_TO_BASYS", active_key)
  /\ UNCHANGED <<zyboVars, uartVars, pcVars, pc_sender, spi_mosi, spi_miso, basysVars>>

SendReport ==
  /\ group_state = "G_RUN"
  /\ Len(toPc) < UartCap
  /\ toPc' = Append(toPc, Frame("ZYBO_TO_PC", active_key))
  /\ UNCHANGED <<zyboVars, fromPc, pcVars, pc_sender, spiVars, basysVars>>

-----------------------------------------------------------------------------
(* Frames that reach the ZYBO.                                               *)

\* Mutation: any acknowledgement of this epoch ends the round that waits.
AfterPcAckOfAnyRound(f) ==
  CASE f.r = pending_random /\ group_state = "G_WAIT_PC_READY" -> "G_SEND_BASYS_UPDATE"
    [] f.r = pending_random /\ group_state = "G_WAIT_PC_COMMIT_ACK" -> "G_SEND_BASYS_COMMIT"
    [] f.r = pending_random /\ group_state = "G_WAIT_PC_CONFIRM_ACK" -> "G_SEND_BASYS_CONFIRM"
    [] OTHER -> group_state

\* Mutation: the PC commits before the Basys3 has the new R.
AfterPcAckCommitFirst(f) ==
  CASE f = Frame("PC_READY", pending_random) /\ group_state = "G_WAIT_PC_READY"
         -> "G_SEND_PC_COMMIT"
    [] f = Frame("PC_COMMIT_ACK", pending_random) /\ group_state = "G_WAIT_PC_COMMIT_ACK"
         -> "G_SEND_BASYS_UPDATE"
    [] f = Frame("PC_CONFIRM_ACK", pending_random) /\ group_state = "G_WAIT_PC_CONFIRM_ACK"
         -> "G_SEND_BASYS_CONFIRM"
    [] OTHER -> group_state

\* pc_*_seen pulses for one cycle: an acknowledgement counts only in the
\* state that waits for it, and only with the R of this epoch.
AfterPcAck(f) ==
  CASE f = Frame("PC_READY", pending_random) /\ group_state = "G_WAIT_PC_READY"
         -> "G_SEND_BASYS_UPDATE"
    [] f = Frame("PC_COMMIT_ACK", pending_random) /\ group_state = "G_WAIT_PC_COMMIT_ACK"
         -> "G_SEND_BASYS_COMMIT"
    [] f = Frame("PC_CONFIRM_ACK", pending_random) /\ group_state = "G_WAIT_PC_CONFIRM_ACK"
         -> "G_SEND_BASYS_CONFIRM"
    [] OTHER -> group_state

\* basys_*_seen does not look at the payload.
AfterBasysAck(type) ==
  CASE type = "BASYS_READY" /\ group_state = "G_WAIT_BASYS_READY"
         -> "G_SEND_PC_COMMIT"
    [] type = "BASYS_COMMIT_ACK" /\ group_state = "G_WAIT_BASYS_COMMIT_ACK"
         -> "G_SWITCH_LOCAL"
    [] type = "BASYS_CONFIRM_ACK" /\ group_state = "G_WAIT_BASYS_CONFIRM_ACK"
         -> "G_RUN"
    [] OTHER -> group_state

ReceivePcAck ==
  /\ fromPc # << >>
  /\ Head(fromPc).type \in PcAcks
  /\ group_state' = AfterPcAck(Head(fromPc))
  /\ fromPc' = Tail(fromPc)
  /\ UNCHANGED <<pending_random, current_random, active_key, toPc,
                 pcVars, pc_sender, spiVars, basysVars>>

\* What a decrypted command does to doors and racks is not this module's subject.
ReceivePcCommand ==
  /\ fromPc # << >>
  /\ Head(fromPc).type = "PC_TO_ZYBO"
  /\ fromPc' = Tail(fromPc)
  /\ UNCHANGED <<zyboVars, toPc, pcVars, pc_sender, spiVars, basysVars>>

-----------------------------------------------------------------------------
(* The SPI bus and the Basys3.                                               *)

\* Mutation: the snapshot keeps secure_spi_tx_type out of the transfer, so an
\* acknowledgement that went out never counts as shifted.
StartTransferUnmarked ==
  /\ spi_pending # NoFrame /\ spi_mosi = NoFrame
  /\ ~bs_switch
  /\ spi_mosi' = spi_pending /\ spi_pending' = NoFrame
  /\ spi_miso' = bs_tx
  /\ bs_inflight' = "NONE"
  /\ bs_mgmt_pending' = (bs_mgmt_pending /\ bs_tx_type \notin BasysAcks)
  /\ UNCHANGED <<zyboVars, uartVars, pcVars, pc_sender, bs_pending, bs_rekey,
                 bs_established, bs_switch, bs_key, bs_tx, bs_tx_type>>

\* Chip select falls: the slave snapshots secure_spi_tx.  Its key reload takes
\* tens of cycles, so no transfer begins while one is going on.
StartTransfer ==
  /\ spi_pending # NoFrame /\ spi_mosi = NoFrame
  /\ ~bs_switch
  /\ spi_mosi' = spi_pending /\ spi_pending' = NoFrame
  /\ spi_miso' = bs_tx
  /\ bs_inflight' = bs_tx_type
  /\ bs_mgmt_pending' = (bs_mgmt_pending /\ bs_tx_type \notin BasysAcks)
  /\ UNCHANGED <<zyboVars, uartVars, pcVars, pc_sender, bs_pending, bs_rekey,
                 bs_established, bs_switch, bs_key, bs_tx, bs_tx_type>>

\* The slave loads a clear management response.
Respond(type, r) ==
  /\ bs_tx' = Frame(type, r) /\ bs_tx_type' = type /\ bs_mgmt_pending' = TRUE

\* The transfer is over: a COMMIT_ACK that went out starts the key switch, and
\* the frame that came in is handled.
BasysReceive ==
  LET shifted == bs_inflight = "BASYS_COMMIT_ACK"
      NoResponse ==
        /\ bs_tx_type' = IF shifted THEN "NONE" ELSE bs_tx_type
        /\ UNCHANGED <<bs_tx, bs_mgmt_pending>>
  IN
  /\ bs_switch' = (bs_switch \/ shifted)
  /\ \/ /\ spi_mosi.type = "BASYS_KEY_UPDATE"
        /\ bs_rekey' = TRUE /\ bs_pending' = spi_mosi.r
        /\ Respond("BASYS_READY", spi_mosi.r)
     \/ /\ spi_mosi.type = "BASYS_KEY_COMMIT"
        /\ Respond("BASYS_COMMIT_ACK", bs_pending)
        /\ UNCHANGED <<bs_rekey, bs_pending>>
     \/ /\ spi_mosi.type = "BASYS_KEY_CONFIRM" /\ bs_established
        /\ bs_rekey' = FALSE
        /\ Respond("BASYS_CONFIRM_ACK", bs_pending)
        /\ UNCHANGED bs_pending
     \/ /\ \/ spi_mosi.type \in {"BASYS_POLL_OLD", "BASYS_POLL_NEW", "ZYBO_TO_BASYS"}
           \/ spi_mosi.type = "BASYS_KEY_CONFIRM" /\ ~bs_established
        /\ NoResponse
        /\ UNCHANGED <<bs_rekey, bs_pending>>
  /\ UNCHANGED <<bs_established, bs_key, bs_inflight>>

EndTransfer ==
  /\ spi_mosi # NoFrame
  /\ BasysReceive
  /\ group_state' = AfterBasysAck(spi_miso.type)
  /\ current_random' = IF group_state # "G_RUN" /\ group_state' = "G_RUN"
                       THEN pending_random ELSE current_random
  /\ spi_mosi' = NoFrame /\ spi_miso' = NoFrame
  /\ UNCHANGED <<pending_random, active_key, uartVars, pcVars, pc_sender, spi_pending>>

\* A clear PC frame and a clear Basys3 frame are presented in the same cycle:
\* the session manager takes the PC's, and the Basys3 frame's hold register is
\* emptied all the same.
CollidingArrivals ==
  /\ Collisions
  /\ spi_mosi # NoFrame /\ spi_miso.type \in BasysAcks
  /\ fromPc # << >> /\ Head(fromPc).type \in PcAcks
  /\ BasysReceive
  /\ group_state' = AfterPcAck(Head(fromPc))
  /\ fromPc' = Tail(fromPc)
  /\ spi_mosi' = NoFrame /\ spi_miso' = NoFrame
  /\ UNCHANGED <<pending_random, current_random, active_key, toPc, pcVars,
                 pc_sender, spi_pending>>

\* Mutation: the engines are loaded for the first session only.
InstallBasysKeyOnce ==
  /\ bs_switch
  /\ bs_key' = IF bs_established THEN bs_key ELSE bs_pending
  /\ bs_switch' = FALSE /\ bs_established' = TRUE
  /\ UNCHANGED <<zyboVars, uartVars, pcVars, pc_sender, spiVars, bs_pending, bs_rekey,
                 bs_tx, bs_tx_type, bs_mgmt_pending, bs_inflight>>

\* The key FSM has reloaded both engines with MASTER ^ pending_random.
InstallBasysKey ==
  /\ bs_switch
  /\ bs_key' = bs_pending
  /\ bs_switch' = FALSE /\ bs_established' = TRUE
  /\ UNCHANGED <<zyboVars, uartVars, pcVars, pc_sender, spiVars, bs_pending, bs_rekey,
                 bs_tx, bs_tx_type, bs_mgmt_pending, bs_inflight>>

\* Mutation: a status replaces a management response nobody has read yet.
LoadStatusOverResponse ==
  /\ bs_established /\ ~bs_rekey /\ ~bs_switch
  /\ bs_tx' = Frame("BASYS_TO_ZYBO", bs_key) /\ bs_tx_type' = "BASYS_TO_ZYBO"
  /\ UNCHANGED <<zyboVars, uartVars, pcVars, pc_sender, spiVars, bs_pending, bs_rekey,
                 bs_established, bs_switch, bs_key, bs_mgmt_pending, bs_inflight>>

\* A changed sensor status is encrypted and put in the transmit buffer.
LoadStatus ==
  /\ bs_established /\ ~bs_rekey /\ ~bs_mgmt_pending /\ ~bs_switch
  /\ bs_tx' = Frame("BASYS_TO_ZYBO", bs_key) /\ bs_tx_type' = "BASYS_TO_ZYBO"
  /\ UNCHANGED <<zyboVars, uartVars, pcVars, pc_sender, spiVars, bs_pending, bs_rekey,
                 bs_established, bs_switch, bs_key, bs_mgmt_pending, bs_inflight>>

-----------------------------------------------------------------------------
(* The PC client: the receive thread's handlers, and one send_command call    *)
(* (a button or the 2 s poll) whose test and transmission are not atomic.  A   *)
(* handler flushes its acknowledgement first and assigns afterwards: what it   *)
(* has still to assign is a step of its own, and the next packet waits for it. *)

PcReceives(type) ==
  /\ pc_handler = "idle"
  /\ toPc # << >> /\ Head(toPc).type = type /\ toPc' = Tail(toPc)

Answer(type) ==
  /\ Len(fromPc) < UartCap
  /\ fromPc' = Append(fromPc, Frame(type, Head(toPc).r))

\* Mutation: an UPDATE leaves pending_key_active set.
HandleUpdateStillActive ==
  /\ PcReceives("PC_KEY_UPDATE")
  /\ Answer("PC_READY")
  /\ IF pc_ready /\ Head(toPc).r = pc_current
     THEN UNCHANGED pcVars
     ELSE /\ pc_ready' = FALSE
          /\ pc_pending' = Head(toPc).r
          /\ UNCHANGED <<pc_key_active, pc_current, pc_key, pc_handler>>
  /\ UNCHANGED <<zyboVars, pc_sender, spiVars, basysVars>>

HandleUpdate ==
  /\ PcReceives("PC_KEY_UPDATE")
  /\ Answer("PC_READY")
  /\ IF pc_ready /\ Head(toPc).r = pc_current
     THEN UNCHANGED pcVars
     ELSE /\ pc_ready' = FALSE /\ pc_key_active' = FALSE
          /\ pc_pending' = Head(toPc).r
          /\ UNCHANGED <<pc_current, pc_key, pc_handler>>
  /\ UNCHANGED <<zyboVars, pc_sender, spiVars, basysVars>>

\* The first COMMIT takes tx_lock and keeps it until the codecs are replaced; a
\* repeated one is only answered.
HandleCommit ==
  /\ PcReceives("PC_KEY_COMMIT")
  /\ Head(toPc).r = pc_pending
  /\ Answer("PC_COMMIT_ACK")
  /\ pc_handler' = IF pc_key_active THEN "idle" ELSE "commit"
  /\ UNCHANGED <<zyboVars, pc_ready, pc_current, pc_pending, pc_key_active, pc_key,
                 pc_sender, spiVars, basysVars>>

\* Mutation: pending_key_active is not set.
InstallCodecsStillPending ==
  /\ pc_handler = "commit" /\ pc_handler' = "idle"
  /\ pc_key' = pc_pending
  /\ UNCHANGED <<zyboVars, uartVars, pc_ready, pc_current, pc_pending, pc_key_active,
                 pc_sender, spiVars, basysVars>>

InstallCodecs ==
  /\ pc_handler = "commit" /\ pc_handler' = "idle"
  /\ pc_key' = pc_pending /\ pc_key_active' = TRUE
  /\ UNCHANGED <<zyboVars, uartVars, pc_ready, pc_current, pc_pending, pc_sender,
                 spiVars, basysVars>>

\* Mutation: the R of a CONFIRM is not compared.
HandleConfirmAnyR ==
  /\ PcReceives("PC_KEY_CONFIRM")
  /\ Answer("PC_CONFIRM_ACK")
  /\ pc_handler' = IF pc_ready /\ pc_current = Head(toPc).r THEN "idle" ELSE "confirm"
  /\ UNCHANGED <<zyboVars, pc_ready, pc_current, pc_pending, pc_key_active, pc_key,
                 pc_sender, spiVars, basysVars>>

HandleConfirm ==
  /\ PcReceives("PC_KEY_CONFIRM")
  /\ Head(toPc).r = pc_pending
  /\ Answer("PC_CONFIRM_ACK")
  /\ pc_handler' = IF pc_ready /\ pc_current = pc_pending THEN "idle" ELSE "confirm"
  /\ UNCHANGED <<zyboVars, pc_ready, pc_current, pc_pending, pc_key_active, pc_key,
                 pc_sender, spiVars, basysVars>>

BecomeReady ==
  /\ pc_handler = "confirm" /\ pc_handler' = "idle"
  /\ pc_ready' = TRUE /\ pc_current' = pc_pending
  /\ UNCHANGED <<zyboVars, uartVars, pc_pending, pc_key_active, pc_key, pc_sender,
                 spiVars, basysVars>>

\* A COMMIT or CONFIRM for another R is not answered; a report is displayed.
HandleOther ==
  /\ \/ PcReceives("PC_KEY_COMMIT") /\ Head(toPc).r # pc_pending
     \/ PcReceives("PC_KEY_CONFIRM") /\ Head(toPc).r # pc_pending
     \/ PcReceives("ZYBO_TO_PC")
  /\ UNCHANGED <<zyboVars, fromPc, pcVars, pc_sender, spiVars, basysVars>>

CheckSessionReady ==
  /\ pc_sender = "idle" /\ pc_ready
  /\ pc_sender' = "checked"
  /\ UNCHANGED <<zyboVars, uartVars, pcVars, spiVars, basysVars>>

\* Sealed and written under tx_lock.  Commands are seconds apart, a frame takes
\* 4 ms: a command never takes the last place on the line.
SendCommand ==
  /\ pc_sender = "checked" /\ pc_handler # "commit"
  /\ Len(fromPc) < UartCap - 1
  /\ fromPc' = Append(fromPc, Frame("PC_TO_ZYBO", pc_key))
  /\ pc_sender' = "idle"
  /\ UNCHANGED <<zyboVars, toPc, pcVars, spiVars, basysVars>>

-----------------------------------------------------------------------------
(* A UART frame whose bytes are corrupted or dropped never becomes a packet.  *)
LoseToPc ==
  /\ toPc # << >> /\ toPc' = Tail(toPc)
  /\ UNCHANGED <<zyboVars, fromPc, pcVars, pc_sender, spiVars, basysVars>>

LoseFromPc ==
  /\ fromPc # << >> /\ fromPc' = Tail(fromPc)
  /\ UNCHANGED <<zyboVars, toPc, pcVars, pc_sender, spiVars, basysVars>>

-----------------------------------------------------------------------------
ZyboNext ==
  \/ Boot \/ ExpireSession
  \/ SendPcUpdate \/ SendPcCommit \/ SendPcConfirm
  \/ SendBasysUpdate \/ SendBasysCommit \/ SendBasysConfirm
  \/ PollOldReady \/ PollOldCommit \/ PollNew
  \/ RetryPcUpdate \/ RetryPcCommit \/ RetryPcConfirm
  \/ RetryPollReady \/ RetryPollCommit \/ RetryPollConfirm
  \/ SwitchLocal \/ LocalKeyDone
  \/ SendRackCommand \/ SendReport
  \/ ReceivePcAck \/ ReceivePcCommand

BasysNext ==
  StartTransfer \/ EndTransfer \/ CollidingArrivals \/ InstallBasysKey \/ LoadStatus

PcNext ==
  \/ HandleUpdate \/ HandleCommit \/ InstallCodecs \/ HandleConfirm \/ BecomeReady
  \/ HandleOther \/ CheckSessionReady \/ SendCommand

Next == ZyboNext \/ BasysNext \/ PcNext \/ LoseToPc \/ LoseFromPc

Spec == Init /\ [][Next]_vars

-----------------------------------------------------------------------------
(* Safety.                                                                   *)

\* Between the acknowledgement of a COMMIT and the new codecs the PC still has
\* the old ones, but neither seals nor opens a frame: tx_lock is taken and the
\* receive thread is in the handler.  This is the key of the next frame.
KeyInUse == IF pc_handler = "commit" THEN pc_pending ELSE pc_key

\* In the same way the PC, its CONFIRM_ACK sent, has still to become ready.
HasConfirmed == pc_ready \/ pc_handler = "confirm"
ConfirmedR   == IF pc_handler = "confirm" THEN pc_pending ELSE pc_current

\* While application traffic flows (G_RUN), the ZYBO, the PC and the Basys3
\* hold the same key, derived from the R of the running epoch, and both peers
\* have left their re-keying mode, the PC but for the statements that follow
\* its CONFIRM_ACK.
RunAgreement ==
  group_state = "G_RUN" =>
    /\ pending_random \in Randoms /\ current_random = pending_random
    /\ active_key = pending_random
    /\ pc_key = pending_random /\ HasConfirmed /\ ConfirmedR = pending_random
    /\ bs_key = pending_random /\ bs_established /\ ~bs_rekey /\ ~bs_switch

\* Nobody installs a key that another party has not yet agreed to: the PC
\* switches only when the Basys3 holds the new R, the Basys3 only when no frame
\* of the PC is sealed or opened under the old key any more, the ZYBO last,
\* after the PC.  The order of zybo_session_manager.sv:338-398.
SwitchOrder ==
  /\ KeyInUse = pending_random => bs_pending = pending_random
  /\ bs_key = pending_random => KeyInUse = pending_random
  /\ active_key = pending_random => KeyInUse = pending_random /\ (bs_switch \/ bs_key = pending_random)

\* No honest frame ever fails authentication where a failure has consequences:
\* a rack frame at the Basys3 (it would close every rack), a command at a ZYBO
\* in G_RUN (door and racks would be closed), a status at a ZYBO in G_RUN, a
\* report at the PC.  This holds across every key switch.
HonestFramesAuthenticate ==
  /\ spi_mosi.type = "ZYBO_TO_BASYS" => spi_mosi.r = bs_key /\ ~bs_switch
  /\ group_state = "G_RUN" /\ spi_miso.type = "BASYS_TO_ZYBO" => spi_miso.r = active_key
  /\ group_state = "G_RUN" /\ fromPc # << >> /\ Head(fromPc).type = "PC_TO_ZYBO"
       => Head(fromPc).r = active_key
  /\ toPc # << >> /\ Head(toPc).type = "ZYBO_TO_PC" => Head(toPc).r = KeyInUse

\* A retransmitted or late acknowledgement never moves the coordinator past a
\* round that its peer has not completed for this epoch's R.  The PC answers
\* before it assigns, so the coordinator may be ahead of its variables, never
\* of the key of its next frame nor of the handler that makes it ready.
AckedRoundsAreReal ==
  /\ group_state \notin {"G_BOOT", "G_SEND_PC_UPDATE", "G_WAIT_PC_READY"}
       => pc_pending = pending_random
  /\ group_state \in {"G_SEND_PC_COMMIT", "G_WAIT_PC_COMMIT_ACK"}
       => bs_pending = pending_random /\ bs_rekey
  /\ group_state \in {"G_SEND_BASYS_COMMIT", "G_WAIT_BASYS_COMMIT_ACK"} => KeyInUse = pending_random
  /\ group_state \in {"G_SWITCH_LOCAL", "G_SEND_PC_CONFIRM"} => bs_switch \/ bs_key = pending_random
  /\ group_state = "G_SEND_BASYS_CONFIRM" => HasConfirmed /\ ConfirmedR = pending_random

-----------------------------------------------------------------------------
(* Liveness.  The clocked FSMs and the SPI bus never stop (WF); the UART loses *)
(* frames, but not every frame of those sent again and again (SF).  A SEND     *)
(* state whose transmitter is free lasts one clock, so no frame arrives in it  *)
(* (the answers come milliseconds later).                                      *)
SendingPc == group_state \in {"G_SEND_PC_UPDATE", "G_SEND_PC_COMMIT", "G_SEND_PC_CONFIRM"}
TimedNext == Next /\ (SendingPc /\ Len(toPc) < UartCap => group_state' # group_state)

Fairness ==
  /\ WF_vars(ZyboNext /\ group_state' # group_state /\ group_state # "G_RUN")
  /\ WF_vars(StartTransfer) /\ WF_vars(EndTransfer) /\ WF_vars(InstallBasysKey)
  /\ SF_vars(HandleUpdate) /\ SF_vars(HandleCommit) /\ SF_vars(HandleConfirm)
  /\ WF_vars(InstallCodecs) /\ WF_vars(BecomeReady)
  /\ WF_vars(HandleOther) /\ WF_vars(ReceivePcCommand) /\ WF_vars(ReceivePcAck)
  /\ SF_vars(ReceivePcAck /\ group_state' # group_state)

FairSpec == Init /\ [][TimedNext]_vars /\ Fairness
=============================================================================
