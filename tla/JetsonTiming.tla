----------------------------- MODULE JetsonTiming -----------------------------
(***************************************************************************)
(* JetsonLink as it is timed.  The ZYBO's FSMs take a clock (8 ns) for a   *)
(* step, a transfer takes milliseconds and there are ten a second.  What   *)
(* the handshake promises holds as long as no frame for the Jetson becomes *)
(* ready while a transfer shifts: the end of that transfer counts as the   *)
(* delivery of the frame, which the transfer does not carry.  The history  *)
(* variable says when that has happened.                                   *)
(***************************************************************************)
EXTENDS JetsonLink

VARIABLE untimely

timedVars == <<vars, untimely>>

\* A frame enters the engine or the register in the middle of a transfer, or a
\* transfer begins before the engine is done.
LateLoad ==
  \/ mosi # NoPacket /\ (SendUpdate \/ SendCommit \/ SendConfirm \/ SubmitDoor)
  \/ encrypting # NoFrame /\ mosi = NoPacket /\ mosi' # NoPacket

\* A new generation is answered, and a send that has become possible is made, in
\* the next clock, before the frame of the transfer that made it possible is
\* through the pipeline to the FSM.
OneClock ==
  \/ new_generation /\ key_fsm # "loading"
  \/ /\ mosi = NoPacket
     /\ \/ jetson_state \in {"J_SEND_UPDATE", "J_SEND_COMMIT"} /\ MayLoadClear
        \/ /\ jetson_state = "J_SEND_CONFIRM"
           /\ ~management_pending /\ encrypting = NoFrame /\ key_fsm = "active"

TimedInit == Init /\ untimely = FALSE
TimedNext ==
  /\ Next
  /\ untimely' = (untimely \/ LateLoad \/ (OneClock /\ ~(NewEpoch \/ FsmNext)))

\* The clocked FSM, the key FSM and the engines never stop, the Jetson polls for
\* ever, and a frame does not always meet one of the PC or the Basys3.
Fairness ==
  /\ WF_vars(FsmNext) /\ WF_vars(EncryptDone) /\ SF_vars(SubmitDoor)
  /\ WF_vars(StartKeyLoad) /\ WF_vars(KeyLoaded)
  /\ WF_vars(StartTransfer) /\ WF_vars(EndTransfer)
  /\ WF_vars(ReceiveFrame) /\ SF_vars(ReceiveFrame /\ jetson_state' # jetson_state)

TimedSpec == TimedInit /\ [][TimedNext]_timedVars /\ Fairness
-----------------------------------------------------------------------------
\* From the moment the ZYBO decides to switch until the next epoch begins, the
\* Jetson has the R of this one, although the READY and COMMIT_ACK that led there
\* carry none and may be an epoch old.
SwitchFollowsR ==
  jetson_state \in {"J_SWITCH_LOCAL", "J_WAIT_LOCAL_KEY", "J_SEND_CONFIRM",
                   "J_WAIT_CONFIRM_ACK", "J_RUN"} /\ ~new_generation
    => untimely \/ Absent \/ jetson.pending = pending_random

\* An epoch that begins after the last restart of the Jetson program ends with
\* Face-ID and door traffic enabled, in it or in a later one.
EpochServed ==
  new_generation /\ restarts = Restarts ~> TrafficEnabled \/ untimely
=============================================================================
