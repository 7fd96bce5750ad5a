-------------------------- MODULE GroupRekeyFaults --------------------------
(***************************************************************************)
(* GroupRekey with a client program that is started again and a Basys3     *)
(* whose reset button is pressed.  Both come back with the master key and  *)
(* know of no random; the coordinator is not told.                         *)
(***************************************************************************)
EXTENDS GroupRekey

CONSTANTS MaxRestarts,  \* bound on the restarts of the PC program
          MaxResets     \* bound on the resets of the Basys3

ASSUME FaultsAssumption == MaxRestarts \in Nat /\ MaxResets \in Nat

VARIABLES restarts, resets,
          used,   \* history: the PC has sealed a command under the epoch's key
          was_reset, \* history: the Basys3 was reset since the epoch began
          stuck     \* history: something happened that no retry of the coordinator makes good

faultVars == <<restarts, resets, used, was_reset, stuck>>
allVars   == <<vars, faultVars>>

TypeFaultsOK ==
  /\ TypeOK
  /\ restarts \in 0..MaxRestarts /\ resets \in 0..MaxResets
  /\ used \in BOOLEAN /\ was_reset \in BOOLEAN /\ stuck \in BOOLEAN

InitFaults == Init /\ restarts = 0 /\ resets = 0 /\ used = FALSE /\ was_reset = FALSE /\ stuck = FALSE
-----------------------------------------------------------------------------
Begin == (Boot \/ ExpireSession) /\ used' = FALSE /\ was_reset' = FALSE /\ UNCHANGED <<restarts, resets, stuck>>

Send == /\ SendCommand
        /\ used' = (used \/ pc_key = pending_random)
        /\ UNCHANGED <<restarts, resets, was_reset, stuck>>

Continue == /\ Next /\ pending_random' = pending_random
            /\ pc_sender' = pc_sender \/ CheckSessionReady
            /\ stuck' = (stuck \/ CollidingArrivals)
            /\ UNCHANGED <<restarts, resets, used, was_reset>>

\* The rounds in which a peer is asked about the R it has been told before.
PcForgets == ~ \/ group_state \in {"G_BOOT", "G_RUN", "G_SEND_BASYS_CONFIRM",
                                   "G_WAIT_BASYS_CONFIRM_ACK", "G_SEND_BASYS_POLL_NEW"}
               \/ /\ group_state \in {"G_SEND_PC_UPDATE", "G_WAIT_PC_READY"}
                  /\ \A i \in DOMAIN fromPc : fromPc[i] # Frame("PC_READY", pending_random)
BasysForgets == group_state \notin {"G_BOOT", "G_RUN", "G_SEND_PC_UPDATE", "G_WAIT_PC_READY",
                                    "G_SEND_BASYS_UPDATE"}

\* Mutation: a call of the old client goes on in the new one.
RestartPcKeepsSender ==
  /\ restarts < MaxRestarts /\ restarts' = restarts + 1
  /\ stuck' = (stuck \/ PcForgets)
  /\ pc_ready' = FALSE /\ pc_key_active' = FALSE
  /\ pc_current' = NoRandom /\ pc_pending' = NoRandom /\ pc_key' = NoRandom
  /\ pc_handler' = "idle"
  /\ UNCHANGED <<pc_sender, zyboVars, uartVars, spiVars, basysVars, resets, used, was_reset>>

\* A new SecureSerialClient, whatever the old one was doing: it may have answered
\* and not assigned.  Bytes on the line are still there.
RestartPc ==
  /\ restarts < MaxRestarts /\ restarts' = restarts + 1
  /\ stuck' = (stuck \/ PcForgets)
  /\ pc_ready' = FALSE /\ pc_key_active' = FALSE
  /\ pc_current' = NoRandom /\ pc_pending' = NoRandom /\ pc_key' = NoRandom
  /\ pc_handler' = "idle"
  /\ pc_sender' = "idle"
  /\ UNCHANGED <<zyboVars, uartVars, spiVars, basysVars, resets, used, was_reset>>

\* The registers of the Basys3; a transfer under way is lost in both directions.
ResetBasys ==
  /\ resets < MaxResets /\ resets' = resets + 1
  /\ stuck' = (stuck \/ BasysForgets)
  /\ bs_pending' = NoRandom /\ bs_key' = NoRandom
  /\ bs_rekey' = TRUE /\ bs_established' = FALSE
  /\ bs_switch' = FALSE /\ bs_mgmt_pending' = FALSE
  /\ bs_tx' = NoFrame /\ bs_tx_type' = "NONE" /\ bs_inflight' = "NONE"
  /\ spi_mosi' = NoFrame /\ spi_miso' = NoFrame
  /\ was_reset' = TRUE
  /\ UNCHANGED <<zyboVars, uartVars, pcVars, pc_sender, spi_pending, restarts, used>>

FaultsNext == Begin \/ Send \/ Continue \/ RestartPc \/ ResetBasys
FaultsSpec == InitFaults /\ [][FaultsNext]_allVars

\* As in GroupRekey, and the 30 s timer runs: longer than the client needs for
\* the statements that follow an answer.
TimedFaultsNext ==
  /\ FaultsNext
  /\ SendingPc /\ Len(toPc) < UartCap => group_state' # group_state
  /\ group_state = "G_RUN" /\ group_state' # "G_RUN" => pc_handler = "idle"
FairFaultsSpec ==
  InitFaults /\ [][TimedFaultsNext]_allVars /\ Fairness /\ WF_vars(ExpireSession)
-----------------------------------------------------------------------------
\* Whatever was restarted when, no command of the PC reaches a ZYBO in G_RUN
\* under another key: the ZYBO would close the doors as after an attack.
CommandsAuthenticate ==
  group_state = "G_RUN" /\ fromPc # << >> /\ Head(fromPc).type = "PC_TO_ZYBO"
    => Head(fromPc).r = active_key

\* In G_RUN a client that has been restarted knows that it has no session, and
\* one that believes in a session holds its key.
SessionIsReal ==
  group_state = "G_RUN" /\ HasConfirmed => pc_key = active_key /\ ConfirmedR = pending_random

\* A client that comes back does not install a key it has already sent
\* commands under: its counter starts at zero again.
NoCodecStartsAgain ==
  [][InstallCodecs /\ pc_pending = pending_random => ~used]_allVars

\* A reset spoils no epoch but the one it happens in.
DamageEndsWithEpoch ==
  group_state = "G_RUN" /\ ~was_reset => bs_key = active_key /\ bs_established /\ ~bs_rekey

\* The domain returns to a session of all three again and again, restarts and
\* resets notwithstanding, unless one of them took from a peer the R it was
\* about to be asked for, or an acknowledgement was lost to a collision.
DomainHeals ==
  []<>(stuck \/ (group_state = "G_RUN" /\ pc_ready /\ pc_key = active_key /\ bs_key = active_key))

\* A restart or a reset, in any state of the key change, harms nothing but the
\* epoch it happens in.
FaultsContained == TypeFaultsOK /\ CommandsAuthenticate /\ SessionIsReal /\ DamageEndsWithEpoch
=============================================================================
