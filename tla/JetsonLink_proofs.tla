-------------------------- MODULE JetsonLink_proofs --------------------------
(***************************************************************************)
(* Theorems about JetsonLink, for any number of epochs, restarts and       *)
(* events, and about the handshake as JetsonTiming times it.  The          *)
(* invariant and what its parts say are in JetsonLinkInv: here one lemma   *)
(* per step shows that it is kept.                                         *)
(***************************************************************************)
EXTENDS JetsonTiming, JetsonLinkInv, TLAPS

-----------------------------------------------------------------------------
(* Frames, and the start.                                                    *)

\* The frames the ZYBO sends.
LEMMA FrameTypes ==
  /\ NoFrame \in MisoFrames /\ NoFrame \in MosiFrames /\ NoPacket \in Packets
  /\ Clear("COMMIT", NoRandom) \in MisoFrames
  /\ \A r \in Randoms : Clear("UPDATE", r) \in MisoFrames
  /\ \A k \in Keys, b \in Randoms : Frame("CONFIRM", k, b) \in MisoFrames
  /\ \A k \in Keys, c \in Cmds : Frame("DOOR", k, c) \in MisoFrames
BY DEF NoFrame, NoPacket, Packet, Packets, Clear, Frame, MisoFrames, MosiFrames, Randoms, Keys,
   NoRandom

\* The responses of the Jetson.
LEMMA PacketTypes ==
  /\ \A a \in {"NOTHING", "SWITCH_KEY", "SESSION_READY"}, type \in {"POLL", "READY", "COMMIT_ACK"} : 
       Packet(Clear(type, NoRandom), a) \in Packets
  /\ \A k \in Keys, b \in Randoms, a \in {"NOTHING", "SESSION_READY"} : 
        Packet(Frame("CONFIRM_ACK", k, b), a) \in Packets
  /\ \A k \in Keys : Packet(Frame("FACE", k, NoRandom), "NOTHING") \in Packets
BY DEF Packet, Packets, Clear, Frame, MosiFrames, Randoms, Keys, NoRandom

\* What a frame of the ZYBO says, by its type.
LEMMA MisoTypes ==
  ASSUME NEW f \in MisoFrames
  PROVE  /\ f.type \in {"NONE", "UPDATE", "COMMIT", "CONFIRM", "DOOR"}
         /\ f.key \in Keys
         /\ f.type = "NONE" <=> f = NoFrame
         /\ f.type = "UPDATE" => f.body \in Randoms /\ f = Clear("UPDATE", f.body)
         /\ f.type = "COMMIT" => f = Clear("COMMIT", NoRandom)
         /\ f.type = "CONFIRM" => f.body \in Randoms
         /\ f.type = "DOOR" => f.body \in Cmds
<1> USE DEF NoFrame, Clear, Frame, Randoms, Keys, NoRandom
<1>1. CASE f \in [type : {"NONE", "COMMIT"}, key : {NoRandom}, body : {NoRandom}]
  BY <1>1, EpochsAssumption
<1>2. CASE f \in [type : {"UPDATE"}, key : {NoRandom}, body : Randoms]
  BY <1>2, EpochsAssumption
<1>3. CASE f \in [type : {"CONFIRM"}, key : Keys, body : Randoms]
  BY <1>3, EpochsAssumption
<1>4. CASE f \in [type : {"DOOR"}, key : Keys, body : Cmds]
  BY <1>4, EpochsAssumption
<1> QED  BY <1>1, <1>2, <1>3, <1>4 DEF MisoFrames

\* What a frame of the Jetson says, by its type.
LEMMA MosiTypes ==
  ASSUME NEW f \in MosiFrames
  PROVE  /\ f.type \in {"NONE", "POLL", "READY", "COMMIT_ACK", "CONFIRM_ACK", "FACE"}
         /\ f.key \in Keys
         /\ f.type = "NONE" <=> f = NoFrame
         /\ f.type = "CONFIRM_ACK" => f.body \in Randoms
<1> USE DEF NoFrame, Clear, Frame, Randoms, Keys, NoRandom
<1>1. CASE f \in [type : {"NONE", "POLL", "READY", "COMMIT_ACK"}, key : {NoRandom}, body : {NoRandom}]
  BY <1>1, EpochsAssumption
<1>2. CASE f \in [type : {"CONFIRM_ACK"}, key : Keys, body : Randoms]
  BY <1>2, EpochsAssumption
<1>3. CASE f \in [type : {"FACE"}, key : Keys, body : {NoRandom}]
  BY <1>3, EpochsAssumption
<1> QED  BY <1>1, <1>2, <1>3 DEF MosiFrames

\* Before the first epoch nothing is known, sent or waiting.
LEMMA InitInv == Init => JetsonLinkInv
<1> SUFFICES ASSUME Init PROVE JetsonLinkInv
  OBVIOUS
<1> USE DEF Init
<1>1. TypeOK
  <2>1. /\ NoRandom \in Keys
        /\ 0 \in 0..FaceCap /\ 0 \in 0..Restarts
    BY EpochsAssumption, FaceCapAssumption, RestartsAssumption DEF NoRandom, Keys
  <2>2. FreshJetson \in [state : {"WAIT_KEY_UPDATE", "WAIT_COMMIT", "WAIT_CONFIRM", "RUN"},
                 ready : BOOLEAN, pending : Keys, current : Keys, key : Keys,
                 previous : Keys, door : Cmds \cup {"NONE"}]
    BY <2>1 DEF FreshJetson
  <2>3. /\ "J_WAIT_EPOCH" \in JetsonStates /\ "IDLE" \in Cmds /\ "NONE" \in Cmds \cup {"NONE"}
        /\ << >> \in Seq(Packets)
    BY DEF JetsonStates, Cmds
  <2> QED
    BY <2>1, <2>2, <2>3, FrameTypes DEF TypeOK
<1>2. QueueInv /\ BusInv /\ RegisterInv /\ SealedInv
  BY DEF QueueInv, BusInv, RegisterInv, SealedInv, Sealed, IsUpdate, Switching, Switched,
     NoFrame, Clear, Frame
<1>3. OrderInv /\ UpdateInv
  BY DEF OrderInv, UpdateInv, KnownUpTo, Unannounced, Switched, IsUpdate, Sealed, NoFrame, Clear,
     Frame, FreshJetson, NoRandom
<1>4. Outgoing = {NoPacket}
  BY DEF Outgoing
<1>5. JetsonInv /\ OutgoingInv /\ QuietInv
  BY <1>4 DEF JetsonInv, Consistent, OutgoingInv, QuietInv, Switching, FreshJetson, NoRandom,
     NoPacket, Packet, NoFrame, Clear, Frame
<1>6. HoldInv /\ RunInv
  BY DEF HoldInv, RunInv, TrafficEnabled, NoFrame, Clear, Frame
<1> QED  BY <1>1, <1>2, <1>3, <1>5, <1>6 DEF JetsonLinkInv

\* Keys and R are numbers.
LEMMA Numbers ==
  ASSUME TypeOK
  PROVE  /\ pending_random \in Nat /\ jetson_active_key \in Nat
         /\ jetson.pending \in Nat /\ jetson.key \in Nat
         /\ jetson.previous \in Nat /\ jetson.current \in Nat
         /\ jetson.state \in {"WAIT_KEY_UPDATE", "WAIT_COMMIT", "WAIT_CONFIRM", "RUN"}
         /\ jetson.ready \in BOOLEAN
         /\ \A f \in {encrypting, spi_tx, miso} :
              f.key \in Nat /\ (f.type \in {"UPDATE", "CONFIRM"} => f.body \in Nat)
<1>1. Keys \subseteq Nat /\ Randoms \subseteq Nat
  BY EpochsAssumption DEF Keys, Randoms
<1>2. \A f \in {encrypting, spi_tx, miso} :
        f.key \in Nat /\ (f.type \in {"UPDATE", "CONFIRM"} => f.body \in Nat)
  BY <1>1, MisoTypes DEF TypeOK
<1> QED  BY <1>1, <1>2 DEF TypeOK

\* The Jetson has no key it was not sent.
LEMMA KeyIsKnown ==
  ASSUME JetsonLinkInv
  PROVE  jetson.key <= jetson.pending /\ jetson.pending <= pending_random
BY Numbers DEF JetsonLinkInv, OrderInv, KnownUpTo, JetsonInv, Consistent, FreshJetson, NoRandom

\* What nearly every step leaves alone.
LEMMA OutgoingSame ==
  ASSUME UNCHANGED <<mosi, management_queue>>
  PROVE  Outgoing' = Outgoing
BY DEF Outgoing

-----------------------------------------------------------------------------
(* One lemma per step.                                                       *)

\* A new epoch waits until the FSM of the link looks at it.
LEMMA NewEpochStep == ASSUME JetsonLinkInv, NewEpoch PROVE JetsonLinkInv'
<1> USE DEF NewEpoch, keyVars, doorVars, busVars, jetsonVars
<1>0. Outgoing' = Outgoing
  BY OutgoingSame
<1>a. /\ pending_random \in Nat /\ jetson.pending \in Nat
      /\ \A f \in {spi_tx, miso} : f.type = "UPDATE" => f.body \in Nat
  BY Numbers DEF JetsonLinkInv
<1>1. TypeOK'
  BY EpochsAssumption DEF JetsonLinkInv, TypeOK, Keys
<1>2. (QueueInv /\ BusInv /\ RegisterInv /\ SealedInv)'
  BY <1>a
  DEF JetsonLinkInv, QueueInv, BusInv, RegisterInv, SealedInv, Switching, Switched, NoRandom
<1>3. (OrderInv /\ UpdateInv)'
  BY <1>0, <1>a DEF JetsonLinkInv, OrderInv, UpdateInv, KnownUpTo, Unannounced, Switched, IsUpdate
<1>5. (JetsonInv /\ OutgoingInv /\ QuietInv)'
  BY <1>0 DEF JetsonLinkInv, JetsonInv, Consistent, OutgoingInv, QuietInv, Switching
<1>6. (HoldInv /\ RunInv)'
  BY DEF JetsonLinkInv, HoldInv, RunInv, TrafficEnabled, Absent
<1> QED  BY <1>1, <1>2, <1>3, <1>5, <1>6 DEF JetsonLinkInv

\* A new epoch ends the handshake of the one before it.
LEMMA RestartHandshakeStep == ASSUME JetsonLinkInv, RestartHandshake PROVE JetsonLinkInv'
<1> USE DEF RestartHandshake, Goto, keyVars, doorVars, busVars, jetsonVars
<1>0. Outgoing' = Outgoing
  BY OutgoingSame
<1>1. TypeOK'
  BY DEF JetsonLinkInv, TypeOK, JetsonStates
<1>2. (QueueInv /\ BusInv)'
  BY DEF JetsonLinkInv, QueueInv, BusInv
<1>3. RegisterInv'
  BY DEF JetsonLinkInv, RegisterInv, Switching, Switched
<1>4. SealedInv'
  BY DEF JetsonLinkInv, SealedInv, Switching
<1>5. OrderInv'
  BY DEF JetsonLinkInv, OrderInv, KnownUpTo, Unannounced, Switched
<1>6. UpdateInv'
  BY <1>0 DEF JetsonLinkInv, UpdateInv, KnownUpTo
<1>7. (JetsonInv /\ OutgoingInv /\ QuietInv)'
  BY <1>0 DEF JetsonLinkInv, JetsonInv, Consistent, OutgoingInv, QuietInv, Switching
<1>8. (HoldInv /\ RunInv)'
  BY DEF JetsonLinkInv, HoldInv, RunInv, TrafficEnabled, Absent
<1> QED  BY <1>1, <1>2, <1>3, <1>4, <1>5, <1>6, <1>7, <1>8 DEF JetsonLinkInv

\* KEY_UPDATE waits in the register, in the clear.
LEMMA SendUpdateStep == ASSUME JetsonLinkInv, SendUpdate PROVE JetsonLinkInv'
<1> USE DEF SendUpdate, SendClear, Goto, MayLoadClear, keyVars, doorVars, busVars, jetsonVars
<1>0. Outgoing' = Outgoing
  BY OutgoingSame
<1>1. TypeOK'
  BY FrameTypes DEF JetsonLinkInv, TypeOK, Keys, Randoms, NoRandom, JetsonStates, RegisterInv
<1>2. (QueueInv /\ BusInv)'
  BY DEF JetsonLinkInv, QueueInv, BusInv
<1>3. RegisterInv'
  BY DEF JetsonLinkInv, RegisterInv, Switched, IsUpdate, Clear, Frame
<1>4. SealedInv'
  BY DEF JetsonLinkInv, SealedInv, Sealed, Switching, Clear, Frame
<1>5. OrderInv'
  BY Numbers DEF JetsonLinkInv, OrderInv, KnownUpTo, Switched, IsUpdate, Sealed, Clear, Frame
<1>6. UpdateInv'
  <2>1. spi_tx' = Clear("UPDATE", pending_random) /\ IsUpdate(spi_tx)' /\ spi_tx'.body = pending_random
    BY DEF IsUpdate, Clear, Frame
  <2>2. CASE spi_tx = Clear("UPDATE", pending_random)
    BY <1>0, <2>2 DEF JetsonLinkInv, UpdateInv, KnownUpTo
  <2>3. CASE Unannounced
    BY <2>1, <2>3, KeyIsKnown, Numbers
    DEF JetsonLinkInv, OrderInv, UpdateInv, KnownUpTo, Unannounced
  <2> QED  BY <2>2, <2>3 DEF JetsonLinkInv, OrderInv
<1>7. (JetsonInv /\ OutgoingInv /\ QuietInv)'
  BY <1>0 DEF JetsonLinkInv, JetsonInv, Consistent, OutgoingInv, QuietInv, Switching
<1>8. (HoldInv /\ RunInv)'
  BY DEF JetsonLinkInv, HoldInv, RunInv, TrafficEnabled, Absent
<1> QED  BY <1>1, <1>2, <1>3, <1>4, <1>5, <1>6, <1>7, <1>8 DEF JetsonLinkInv

\* COMMIT goes out when the Jetson said READY.
LEMMA SendCommitStep == ASSUME JetsonLinkInv, SendCommit PROVE JetsonLinkInv'
<1> USE DEF SendCommit, SendClear, Goto, MayLoadClear, keyVars, doorVars, busVars, jetsonVars
<1>0. Outgoing' = Outgoing
  BY OutgoingSame
<1>1. TypeOK'
  BY FrameTypes DEF JetsonLinkInv, TypeOK, JetsonStates
<1>2. (QueueInv /\ BusInv)'
  BY DEF JetsonLinkInv, QueueInv, BusInv, RegisterInv, Switching
<1>3. RegisterInv'
  BY DEF JetsonLinkInv, RegisterInv, Switching, IsUpdate, Clear, Frame
<1>4. SealedInv'
  BY DEF JetsonLinkInv, SealedInv, Sealed, Switching, Clear, Frame
<1>5. OrderInv'
  <2>1. encrypting = NoFrame /\ spi_tx' = Clear("COMMIT", NoRandom) /\ key_fsm = "active"
    BY DEF JetsonLinkInv, BusInv, RegisterInv, Switching
  <2>2. ~Sealed(spi_tx') /\ ~IsUpdate(spi_tx')
    BY <2>1 DEF Sealed, IsUpdate, Clear, Frame
  <2>3. CASE new_generation
    BY <2>1, <2>2, <2>3 DEF JetsonLinkInv, OrderInv, KnownUpTo, Unannounced, Switched
  <2>4. CASE ~new_generation
    BY <2>1, <2>2, <2>4 DEF JetsonLinkInv, OrderInv, KnownUpTo, Switched, Sealed
  <2> QED  BY <2>3, <2>4
<1>6. UpdateInv'
  BY DEF JetsonLinkInv, UpdateInv, IsUpdate, Clear, Frame
<1>7. (JetsonInv /\ OutgoingInv /\ QuietInv)'
  BY <1>0 DEF JetsonLinkInv, JetsonInv, Consistent, OutgoingInv, QuietInv, Switching
<1>8. (HoldInv /\ RunInv)'
  BY DEF JetsonLinkInv, HoldInv, RunInv, TrafficEnabled, Absent
<1> QED  BY <1>1, <1>2, <1>3, <1>4, <1>5, <1>6, <1>7, <1>8 DEF JetsonLinkInv

\* The challenge is encrypted under the new key.
LEMMA SendConfirmStep == ASSUME JetsonLinkInv, SendConfirm PROVE JetsonLinkInv'
<1> USE DEF SendConfirm, Goto, keyVars, doorVars, busVars, jetsonVars
<1>0. Outgoing' = Outgoing
  BY OutgoingSame
<1>1. TypeOK'
  BY FrameTypes DEF JetsonLinkInv, TypeOK, Keys, Randoms, NoRandom, JetsonStates, RegisterInv
<1>2. (QueueInv /\ BusInv)'
  BY DEF JetsonLinkInv, QueueInv, BusInv, RegisterInv, Switching
<1>3. RegisterInv'
  BY DEF JetsonLinkInv, RegisterInv, Switching, Switched
<1>4. SealedInv'
  BY DEF JetsonLinkInv, SealedInv, Switching, Frame
<1>5. OrderInv'
  BY Numbers DEF JetsonLinkInv, BusInv, RegisterInv, SealedInv, OrderInv, KnownUpTo, Unannounced,
     Switching, Switched,
      IsUpdate, Sealed, Clear, Frame, NoFrame
<1>6. UpdateInv'
  BY <1>0 DEF JetsonLinkInv, UpdateInv, KnownUpTo
<1>7. (JetsonInv /\ OutgoingInv /\ QuietInv)'
  BY <1>0 DEF JetsonLinkInv, JetsonInv, Consistent, OutgoingInv, QuietInv, Switching
<1>8. (HoldInv /\ RunInv)'
  BY DEF JetsonLinkInv, HoldInv, RunInv, TrafficEnabled, Absent
<1> QED  BY <1>1, <1>2, <1>3, <1>4, <1>5, <1>6, <1>7, <1>8 DEF JetsonLinkInv

\* A retry goes back to sending and changes nothing else.
LEMMA RetryUpdateStep == ASSUME JetsonLinkInv, RetryUpdate PROVE JetsonLinkInv'
<1> USE DEF RetryUpdate, Retry, Goto, keyVars, doorVars, busVars, jetsonVars
<1>0. Outgoing' = Outgoing
  BY OutgoingSame
<1>1. TypeOK'
  BY DEF JetsonLinkInv, TypeOK, JetsonStates
<1>2. (QueueInv /\ BusInv)'
  BY DEF JetsonLinkInv, QueueInv, BusInv, RegisterInv, Switching
<1>3. RegisterInv'
  BY DEF JetsonLinkInv, RegisterInv, Switched
<1>4. SealedInv'
  BY DEF JetsonLinkInv, SealedInv, Switching
<1>5. OrderInv'
  BY DEF JetsonLinkInv, OrderInv, KnownUpTo, Unannounced, Switched
<1>6. UpdateInv'
  BY <1>0 DEF JetsonLinkInv, UpdateInv, KnownUpTo
<1>7. (JetsonInv /\ OutgoingInv /\ QuietInv)'
  BY <1>0 DEF JetsonLinkInv, JetsonInv, Consistent, OutgoingInv, QuietInv, Switching
<1>8. (HoldInv /\ RunInv)'
  BY DEF JetsonLinkInv, HoldInv, RunInv, TrafficEnabled, Absent
<1> QED  BY <1>1, <1>2, <1>3, <1>4, <1>5, <1>6, <1>7, <1>8 DEF JetsonLinkInv

\* So does the retry of the COMMIT ...
LEMMA RetryCommitStep == ASSUME JetsonLinkInv, RetryCommit PROVE JetsonLinkInv'
<1> USE DEF RetryCommit, Retry, Goto, keyVars, doorVars, busVars, jetsonVars
<1>0. Outgoing' = Outgoing
  BY OutgoingSame
<1>1. TypeOK'
  BY DEF JetsonLinkInv, TypeOK, JetsonStates
<1>2. (QueueInv /\ BusInv)'
  BY DEF JetsonLinkInv, QueueInv, BusInv, RegisterInv, Switching
<1>3. RegisterInv'
  BY DEF JetsonLinkInv, RegisterInv, Switching, IsUpdate
<1>4. SealedInv'
  BY DEF JetsonLinkInv, SealedInv, Switching
<1>5. OrderInv'
  BY Numbers DEF JetsonLinkInv, BusInv, RegisterInv, SealedInv, OrderInv, KnownUpTo, Unannounced,
     Switching, Switched,
      IsUpdate, Sealed, Clear, Frame, NoFrame
<1>6. UpdateInv'
  BY <1>0 DEF JetsonLinkInv, UpdateInv, KnownUpTo
<1>7. (JetsonInv /\ OutgoingInv /\ QuietInv)'
  BY <1>0 DEF JetsonLinkInv, JetsonInv, Consistent, OutgoingInv, QuietInv, Switching
<1>8. (HoldInv /\ RunInv)'
  BY DEF JetsonLinkInv, HoldInv, RunInv, TrafficEnabled, Absent
<1> QED  BY <1>1, <1>2, <1>3, <1>4, <1>5, <1>6, <1>7, <1>8 DEF JetsonLinkInv

\* ... and that of the challenge.
LEMMA RetryConfirmStep == ASSUME JetsonLinkInv, RetryConfirm PROVE JetsonLinkInv'
<1> USE DEF RetryConfirm, Retry, Goto, keyVars, doorVars, busVars, jetsonVars
<1>0. Outgoing' = Outgoing
  BY OutgoingSame
<1>1. TypeOK'
  BY DEF JetsonLinkInv, TypeOK, JetsonStates
<1>2. (QueueInv /\ BusInv)'
  BY DEF JetsonLinkInv, QueueInv, BusInv, RegisterInv, Switching
<1>3. RegisterInv'
  BY DEF JetsonLinkInv, RegisterInv, Switching, Switched
<1>4. SealedInv'
  BY DEF JetsonLinkInv, SealedInv, Switching
<1>5. OrderInv'
  BY Numbers DEF JetsonLinkInv, BusInv, RegisterInv, SealedInv, OrderInv, KnownUpTo, Unannounced,
     Switching, Switched,
      IsUpdate, Sealed, Clear, Frame, NoFrame
<1>6. UpdateInv'
  BY <1>0 DEF JetsonLinkInv, UpdateInv, KnownUpTo
<1>7. (JetsonInv /\ OutgoingInv /\ QuietInv)'
  BY <1>0 DEF JetsonLinkInv, JetsonInv, Consistent, OutgoingInv, QuietInv, Switching
<1>8. (HoldInv /\ RunInv)'
  BY DEF JetsonLinkInv, HoldInv, RunInv, TrafficEnabled, Absent
<1> QED  BY <1>1, <1>2, <1>3, <1>4, <1>5, <1>6, <1>7, <1>8 DEF JetsonLinkInv

\* COMMIT_ACK arrived: the ZYBO installs its new key.
LEMMA SwitchLocalStep == ASSUME JetsonLinkInv, SwitchLocal PROVE JetsonLinkInv'
<1> USE DEF SwitchLocal, Goto, keyVars, doorVars, busVars, jetsonVars
<1>0. Outgoing' = Outgoing
  BY OutgoingSame
<1>1. TypeOK'
  BY DEF JetsonLinkInv, TypeOK, JetsonStates
<1>2. (QueueInv /\ BusInv)'
  BY DEF JetsonLinkInv, QueueInv, BusInv, RegisterInv, Switching
<1>3. RegisterInv'
  BY DEF JetsonLinkInv, RegisterInv, Switching, IsUpdate
<1>4. SealedInv'
  BY DEF JetsonLinkInv, SealedInv, Switching
<1>5. OrderInv'
  BY Numbers DEF JetsonLinkInv, BusInv, RegisterInv, SealedInv, OrderInv, KnownUpTo, Unannounced,
     Switching, Switched,
      IsUpdate, Sealed, Clear, Frame, NoFrame
<1>6. UpdateInv'
  BY <1>0 DEF JetsonLinkInv, UpdateInv, KnownUpTo
<1>7. (JetsonInv /\ OutgoingInv /\ QuietInv)'
  BY <1>0 DEF JetsonLinkInv, JetsonInv, Consistent, OutgoingInv, QuietInv, Switching
<1>8. (HoldInv /\ RunInv)'
  BY DEF JetsonLinkInv, HoldInv, RunInv, TrafficEnabled, Absent
<1> QED  BY <1>1, <1>2, <1>3, <1>4, <1>5, <1>6, <1>7, <1>8 DEF JetsonLinkInv

\* The key FSM: nothing is encrypted until the key is loaded.
LEMMA StartKeyLoadStep == ASSUME JetsonLinkInv, StartKeyLoad PROVE JetsonLinkInv'
<1> USE DEF StartKeyLoad, keyVars, doorVars, busVars, jetsonVars
<1>0. Outgoing' = Outgoing
  BY OutgoingSame
<1>1. TypeOK'
  BY DEF JetsonLinkInv, TypeOK
<1>2. (QueueInv /\ BusInv)'
  BY DEF JetsonLinkInv, QueueInv, BusInv, RegisterInv, Switching
<1>3. RegisterInv'
  BY DEF JetsonLinkInv, RegisterInv, Switching, Switched
<1>4. SealedInv'
  BY DEF JetsonLinkInv, BusInv, SealedInv, Sealed, Clear, Frame, NoFrame
<1>5. OrderInv'
  BY DEF JetsonLinkInv, OrderInv, KnownUpTo, Unannounced
<1>6. UpdateInv'
  BY <1>0 DEF JetsonLinkInv, UpdateInv, KnownUpTo
<1>7. (JetsonInv /\ OutgoingInv /\ QuietInv)'
  BY <1>0 DEF JetsonLinkInv, JetsonInv, Consistent, OutgoingInv, QuietInv
<1>8. (HoldInv /\ RunInv)'
  BY DEF JetsonLinkInv, BusInv, HoldInv, RunInv, TrafficEnabled, NoFrame, Clear, Frame
<1> QED  BY <1>1, <1>2, <1>3, <1>4, <1>5, <1>6, <1>7, <1>8 DEF JetsonLinkInv

\* The schedule is loaded: the key is active.
LEMMA KeyLoadedStep == ASSUME JetsonLinkInv, KeyLoaded PROVE JetsonLinkInv'
<1> USE DEF KeyLoaded, keyVars, doorVars, busVars, jetsonVars
<1>0. Outgoing' = Outgoing
  BY OutgoingSame
<1>1. TypeOK'
  BY DEF JetsonLinkInv, TypeOK, JetsonStates
<1>2. (QueueInv /\ BusInv)'
  BY DEF JetsonLinkInv, QueueInv, BusInv, RegisterInv, Switching
<1>3. RegisterInv'
  BY DEF JetsonLinkInv, RegisterInv, Switched, IsUpdate
<1>4. SealedInv'
  BY DEF JetsonLinkInv, SealedInv
<1>5. OrderInv'
  BY DEF JetsonLinkInv, OrderInv, KnownUpTo, Unannounced, Switched
<1>6. UpdateInv'
  BY <1>0 DEF JetsonLinkInv, UpdateInv, KnownUpTo
<1>7. (JetsonInv /\ OutgoingInv /\ QuietInv)'
  BY <1>0 DEF JetsonLinkInv, JetsonInv, Consistent, OutgoingInv, QuietInv, Switching
<1>8. (HoldInv /\ RunInv)'
  BY DEF JetsonLinkInv, HoldInv, RunInv, TrafficEnabled, Absent
<1> QED  BY <1>1, <1>2, <1>3, <1>4, <1>5, <1>6, <1>7, <1>8 DEF JetsonLinkInv

\* Door commands go out under the active key.
LEMMA SetDoorStep == ASSUME JetsonLinkInv, SetDoor PROVE JetsonLinkInv'
<1> USE DEF SetDoor, keyVars, doorVars, busVars, jetsonVars
<1>0. Outgoing' = Outgoing
  BY OutgoingSame
<1>1. TypeOK'
  BY CommandsAssumption DEF JetsonLinkInv, TypeOK, Cmds
<1>2. (QueueInv /\ BusInv)'
  BY DEF JetsonLinkInv, QueueInv, BusInv, RegisterInv, Switching
<1>3. RegisterInv'
  BY DEF JetsonLinkInv, RegisterInv, Switching, Switched
<1>4. SealedInv'
  BY DEF JetsonLinkInv, SealedInv, Switching
<1>5. OrderInv'
  BY DEF JetsonLinkInv, OrderInv, KnownUpTo, Unannounced, Switched
<1>6. UpdateInv'
  BY <1>0 DEF JetsonLinkInv, UpdateInv, KnownUpTo
<1>7. (JetsonInv /\ OutgoingInv /\ QuietInv)'
  BY <1>0 DEF JetsonLinkInv, JetsonInv, Consistent, OutgoingInv, QuietInv, Switching
<1>8. (HoldInv /\ RunInv)'
  BY DEF JetsonLinkInv, HoldInv, RunInv, TrafficEnabled, Absent
<1> QED  BY <1>1, <1>2, <1>3, <1>4, <1>5, <1>6, <1>7, <1>8 DEF JetsonLinkInv

\* The command goes to the encrypter, once.
LEMMA SubmitDoorStep == ASSUME JetsonLinkInv, SubmitDoor PROVE JetsonLinkInv'
<1> USE DEF SubmitDoor, TrafficEnabled, keyVars, doorVars, busVars, jetsonVars
<1>0. Outgoing' = Outgoing
  BY OutgoingSame
<1>1. TypeOK'
  BY FrameTypes DEF JetsonLinkInv, TypeOK
<1>2. (QueueInv /\ BusInv)'
  BY DEF JetsonLinkInv, QueueInv, BusInv, RegisterInv, Switching
<1>3. RegisterInv'
  BY DEF JetsonLinkInv, RegisterInv, Switching, Switched
<1>4. SealedInv'
  BY DEF JetsonLinkInv, SealedInv, Switching, Frame
<1>5. OrderInv'
  BY DEF JetsonLinkInv, OrderInv, KnownUpTo, Switched
<1>6. UpdateInv'
  BY <1>0 DEF JetsonLinkInv, UpdateInv, KnownUpTo
<1>7. (JetsonInv /\ OutgoingInv /\ QuietInv)'
  BY <1>0 DEF JetsonLinkInv, JetsonInv, Consistent, OutgoingInv, QuietInv, Switching
<1>8. (HoldInv /\ RunInv)'
  BY DEF JetsonLinkInv, HoldInv, RunInv, Absent
<1> QED  BY <1>1, <1>2, <1>3, <1>4, <1>5, <1>6, <1>7, <1>8 DEF JetsonLinkInv

\* The frame of the encrypter reaches the register, unless the session has changed.
LEMMA EncryptDoneStep == ASSUME JetsonLinkInv, EncryptDone PROVE JetsonLinkInv'
<1> USE DEF EncryptDone, TrafficEnabled, keyVars, doorVars, busVars, jetsonVars
<1>0. Outgoing' = Outgoing
  BY OutgoingSame
<1>1. TypeOK'
  BY FrameTypes DEF JetsonLinkInv, TypeOK
<1>2. (QueueInv /\ BusInv)'
  BY DEF JetsonLinkInv, QueueInv, BusInv, RegisterInv, Switching
<1>3. RegisterInv'
  <2>1. spi_tx' = spi_tx \/ (~IsUpdate(spi_tx) /\ ~IsUpdate(spi_tx'))
    BY DEF JetsonLinkInv, RegisterInv, SealedInv, IsUpdate, Sealed
  <2>2. jetson_state \notin {"J_WAIT_EPOCH", "J_WAIT_COMMIT_ACK", "J_SWITCH_LOCAL", "J_WAIT_LOCAL_KEY"}
    BY DEF JetsonLinkInv, RegisterInv, Switching, IsUpdate
  <2>3. jetson_state = "J_SEND_COMMIT" => spi_tx' = spi_tx
    BY DEF JetsonLinkInv, RegisterInv, Switching, IsUpdate
  <2>4. management_pending' \in BOOLEAN /\ (IsUpdate(spi_tx) => management_pending)
    BY DEF JetsonLinkInv, RegisterInv
  <2> QED  BY <2>1, <2>2, <2>3 DEF JetsonLinkInv, RegisterInv, Switched
<1>4. SealedInv'
  BY DEF JetsonLinkInv, BusInv, RegisterInv, SealedInv, Sealed, Switching, Clear, Frame, NoFrame
<1>5. OrderInv'
  BY DEF JetsonLinkInv, RegisterInv, SealedInv, OrderInv, KnownUpTo, Unannounced, Switched,
      IsUpdate, Clear, Frame
<1>6. UpdateInv'
  BY <1>0 DEF JetsonLinkInv, SealedInv, UpdateInv, KnownUpTo, IsUpdate
<1>7. (JetsonInv /\ OutgoingInv /\ QuietInv)'
  BY <1>0 DEF JetsonLinkInv, JetsonInv, Consistent, OutgoingInv, QuietInv, Switching
<1>8. (HoldInv /\ RunInv)'
  BY DEF JetsonLinkInv, HoldInv, RunInv, Absent
<1> QED  BY <1>1, <1>2, <1>3, <1>4, <1>5, <1>6, <1>7, <1>8 DEF JetsonLinkInv

\* A frame the ZYBO cannot read is dropped.
LEMMA LoseFrameStep == ASSUME JetsonLinkInv, LoseFrame PROVE JetsonLinkInv'
<1> USE DEF LoseFrame, keyVars, doorVars, busVars, jetsonVars
<1>0. Outgoing' = Outgoing
  BY OutgoingSame
<1>1. TypeOK'
  BY FrameTypes DEF JetsonLinkInv, TypeOK
<1>2. (QueueInv /\ BusInv)'
  BY DEF JetsonLinkInv, QueueInv, BusInv, RegisterInv, Switching
<1>3. RegisterInv'
  BY DEF JetsonLinkInv, RegisterInv, Switching, Switched
<1>4. SealedInv'
  BY DEF JetsonLinkInv, SealedInv, Switching
<1>5. OrderInv'
  BY DEF JetsonLinkInv, OrderInv, KnownUpTo, Unannounced, Switched
<1>6. UpdateInv'
  BY <1>0 DEF JetsonLinkInv, UpdateInv, KnownUpTo
<1>7. (JetsonInv /\ OutgoingInv /\ QuietInv)'
  BY <1>0 DEF JetsonLinkInv, JetsonInv, Consistent, OutgoingInv, QuietInv, Switching
<1>8. (HoldInv /\ RunInv)'
  BY DEF JetsonLinkInv, HoldInv, RunInv, TrafficEnabled, Absent, NoFrame, Clear, Frame
<1> QED  BY <1>1, <1>2, <1>3, <1>4, <1>5, <1>6, <1>7, <1>8 DEF JetsonLinkInv

\* A Face-ID report waits for a free transfer.
LEMMA QueueFaceStep == ASSUME JetsonLinkInv, QueueFace PROVE JetsonLinkInv'
<1> USE DEF QueueFace, keyVars, doorVars, busVars, jetsonVars
<1>0. Outgoing' = Outgoing
  BY OutgoingSame
<1>1. TypeOK'
  BY FaceCapAssumption DEF JetsonLinkInv, TypeOK
<1>2. (QueueInv /\ BusInv)'
  BY DEF JetsonLinkInv, QueueInv, BusInv, RegisterInv, Switching
<1>3. RegisterInv'
  BY DEF JetsonLinkInv, RegisterInv, Switching, Switched
<1>4. SealedInv'
  BY DEF JetsonLinkInv, SealedInv, Switching
<1>5. OrderInv'
  BY DEF JetsonLinkInv, OrderInv, KnownUpTo, Unannounced, Switched
<1>6. UpdateInv'
  BY <1>0 DEF JetsonLinkInv, UpdateInv, KnownUpTo
<1>7. (JetsonInv /\ OutgoingInv /\ QuietInv)'
  BY <1>0 DEF JetsonLinkInv, JetsonInv, Consistent, OutgoingInv, QuietInv, Switching
<1>8. (HoldInv /\ RunInv)'
  BY DEF JetsonLinkInv, HoldInv, RunInv, TrafficEnabled, Absent
<1> QED  BY <1>1, <1>2, <1>3, <1>4, <1>5, <1>6, <1>7, <1>8 DEF JetsonLinkInv

\* READY, COMMIT_ACK and CONFIRM_ACK move the handshake where they are awaited.
LEMMA ReceiveFrameStep == ASSUME JetsonLinkInv, ReceiveFrame PROVE JetsonLinkInv'
<1> USE DEF ReceiveFrame, keyVars, doorVars, busVars, jetsonVars
<1>0. Outgoing' = Outgoing
  BY OutgoingSame
<1>1. /\ mosi = NoPacket /\ miso = NoFrame /\ key_fsm = "active"
      /\ jetson_state # "J_SWITCH_LOCAL" /\ hold' = NoFrame /\ new_generation' = FALSE
  BY DEF JetsonLinkInv, BusInv, Goto
<1>2. \/ new_generation /\ jetson_state' = "J_SEND_UPDATE"
      \/ ~new_generation /\ jetson_state' = jetson_state
      \/ /\ ~new_generation /\ hold.type = "READY"
         /\ jetson_state = "J_WAIT_READY" /\ jetson_state' = "J_SEND_COMMIT"
      \/ /\ ~new_generation /\ hold.type = "COMMIT_ACK"
         /\ jetson_state = "J_WAIT_COMMIT_ACK" /\ jetson_state' = "J_SWITCH_LOCAL"
      \/ /\ ~new_generation /\ hold = Frame("CONFIRM_ACK", jetson_active_key, pending_random)
         /\ jetson_state = "J_WAIT_CONFIRM_ACK" /\ jetson_state' = "J_RUN"
  BY <1>1 DEF Goto, AfterFrame
<1>3. TypeOK'
  <2>1. jetson_state' \in JetsonStates /\ last_submitted' \in Cmds \cup {"NONE"}
    BY <1>2 DEF JetsonLinkInv, TypeOK, JetsonStates
  <2> QED  BY <1>1, <2>1, FrameTypes DEF JetsonLinkInv, TypeOK
<1>4. (QueueInv /\ BusInv)'
  BY <1>2 DEF JetsonLinkInv, QueueInv, BusInv, RegisterInv, Switching, IsUpdate
<1>5. RegisterInv'
  BY <1>1, <1>2 DEF JetsonLinkInv, RegisterInv, Switching, Switched, IsUpdate
<1>6. SealedInv'
  BY <1>1, <1>2
  DEF JetsonLinkInv, RegisterInv, SealedInv, Sealed, IsUpdate, Switching, NoFrame, Clear, Frame
<1>7. OrderInv'
  BY <1>1, <1>2
  DEF JetsonLinkInv, OrderInv, KnownUpTo, Unannounced, Switched, IsUpdate, NoFrame, Clear, Frame
<1>8. UpdateInv'
  BY <1>0 DEF JetsonLinkInv, UpdateInv, KnownUpTo
<1>9. (JetsonInv /\ OutgoingInv)'
  BY <1>0 DEF JetsonLinkInv, JetsonInv, Consistent, OutgoingInv
<1>10. QuietInv'
  BY <1>0, <1>2
  DEF JetsonLinkInv, HoldInv, JetsonInv, Consistent, OutgoingInv, QuietInv, Switching,
      FreshJetson
<1>11. (HoldInv /\ RunInv)'
  <2>1. HoldInv'
    BY <1>1 DEF HoldInv, NoFrame, Clear, Frame
  <2>2. CASE jetson_state' = "J_RUN" /\ jetson_state # "J_RUN"
    <3>1. hold = Frame("CONFIRM_ACK", jetson_active_key, pending_random)
      BY <1>2, <2>2
    <3>2. Absent \/ (jetson.state = "RUN" /\ jetson.key = pending_random)
      BY <3>1, KeyIsKnown, Numbers DEF JetsonLinkInv, HoldInv, Frame
    <3> QED  BY <2>1, <3>2 DEF RunInv, Absent
  <2>3. CASE ~(jetson_state' = "J_RUN" /\ jetson_state # "J_RUN")
    BY <2>1, <1>2, <2>3 DEF JetsonLinkInv, RunInv, TrafficEnabled, Absent
  <2> QED  BY <2>1, <2>2, <2>3
<1> QED  BY <1>3, <1>4, <1>5, <1>6, <1>7, <1>8, <1>9, <1>10, <1>11 DEF JetsonLinkInv

\* StartTransfer and EndTransfer in terms of the queue, which holds one response
\* at most.
LEMMA TransferStarts ==
  ASSUME JetsonLinkInv, StartTransfer
  PROVE  /\ mosi' \in Packets /\ management_queue' = << >> /\ Outgoing' = {mosi'}
         /\ \/ mosi' \in Outgoing
            \/ mosi' = Packet(Clear("POLL", NoRandom), "NOTHING")
            \/ jetson.ready /\ mosi' = Packet(Frame("FACE", jetson.key, NoRandom), "NOTHING")
         /\ mosi' # NoPacket
<1> USE DEF StartTransfer
<1>1. CASE management_queue = << >>
  <2>1. \/ mosi' = Packet(Clear("POLL", NoRandom), "NOTHING")
        \/ jetson.ready /\ mosi' = Packet(Frame("FACE", jetson.key, NoRandom), "NOTHING")
    BY <1>1 DEF AnswerNext, FaceNext
  <2>2. mosi' \in Packets /\ mosi' # NoPacket
    BY <2>1, PacketTypes DEF JetsonLinkInv, TypeOK, NoPacket, Packet, NoFrame, Clear, Frame
  <2> QED  BY <1>1, <2>1, <2>2 DEF AnswerNext, Outgoing
<1>2. CASE \E p \in Packets \ {NoPacket} : management_queue = <<p>>
  <2>1. PICK p \in Packets \ {NoPacket} : management_queue = <<p>>
    BY <1>2
  <2>2. AnswerNext /\ mosi' = p /\ management_queue' = << >>
    BY <2>1 DEF AnswerNext
  <2> QED  BY <2>1, <2>2 DEF Outgoing
<1> QED  BY <1>1, <1>2 DEF JetsonLinkInv, QueueInv

\* A transfer carries the register to the Jetson and the response back.
LEMMA StartTransferStep == ASSUME JetsonLinkInv, StartTransfer PROVE JetsonLinkInv'
<1> USE DEF StartTransfer, keyVars, doorVars
<1>1. /\ hold = NoFrame /\ mosi = NoPacket /\ miso = NoFrame /\ miso' = spi_tx
  BY DEF JetsonLinkInv, BusInv
<1>2. TypeOK'
  <2>1. faces' \in 0..FaceCap
    <3>1. faces \in 0..FaceCap
      BY DEF JetsonLinkInv, TypeOK
    <3>2. faces' = faces \/ (faces > 0 /\ faces' = faces - 1)
      BY DEF FaceNext
    <3>3. FaceCap \in Nat
      BY FaceCapAssumption
    <3> QED  BY <3>1, <3>2, <3>3
  <2>2. mosi' \in Packets /\ management_queue' \in Seq(Packets) /\ miso' \in MisoFrames
    <3>1. mosi' \in Packets /\ management_queue' = << >>
      BY TransferStarts
    <3>2. miso' \in MisoFrames
      BY DEF JetsonLinkInv, TypeOK
    <3>3. << >> \in Seq(Packets)
      OBVIOUS
    <3> QED  BY <3>1, <3>2, <3>3, Zenon
  <2> QED  BY <2>1, <2>2 DEF JetsonLinkInv, TypeOK
<1>3. (QueueInv /\ BusInv /\ RegisterInv)'
  BY TransferStarts DEF JetsonLinkInv, QueueInv, BusInv, RegisterInv, Switching, Switched
<1>4. SealedInv'
  BY <1>1 DEF JetsonLinkInv, SealedInv, Switching
<1>5. OrderInv'
  BY DEF JetsonLinkInv, RegisterInv, OrderInv, KnownUpTo, Unannounced, Switched, IsUpdate, Sealed
<1>6. \A p \in Outgoing' : p \in Outgoing \/ p.after = "NOTHING"
  BY TransferStarts DEF Packet
<1>7. UpdateInv'
  <2>1. miso' = spi_tx /\ spi_tx' = spi_tx /\ jetson' = jetson
    BY <1>1
  <2>2. IsUpdate(spi_tx) =>
          /\ spi_tx.body \in Nat /\ jetson.pending <= spi_tx.body /\ jetson.key < spi_tx.body
          /\ jetson.pending = spi_tx.body => \A p \in Outgoing : p.after # "SWITCH_KEY"
    BY Numbers DEF JetsonLinkInv, UpdateInv, KnownUpTo, IsUpdate
  <2>3. jetson.pending = spi_tx.body /\ IsUpdate(spi_tx) => \A p \in Outgoing' : p.after # "SWITCH_KEY"
    BY <1>6, <2>2
  <2>4. mosi' \in Outgoing'
    BY DEF Outgoing
  <2> QED  BY <2>1, <2>2, <2>3, <2>4 DEF UpdateInv, KnownUpTo
<1>8. (JetsonInv /\ OutgoingInv /\ QuietInv)'
  BY TransferStarts
  DEF JetsonLinkInv, JetsonInv, Consistent, OutgoingInv, QuietInv, Switching, Packet, Frame,
      Clear
<1>9. (HoldInv /\ RunInv)'
  BY DEF JetsonLinkInv, HoldInv, RunInv, TrafficEnabled, Absent
<1> QED  BY <1>2, <1>3, <1>4, <1>5, <1>7, <1>8, <1>9 DEF JetsonLinkInv

\* A restarted Jetson has no key, no R and no response.
LEMMA RestartJetsonStep == ASSUME JetsonLinkInv, RestartJetson PROVE JetsonLinkInv'
<1> USE DEF RestartJetson, keyVars, doorVars
<1>1. /\ jetson' = FreshJetson /\ mosi' = NoPacket /\ miso' = NoFrame
      /\ management_queue' = << >> /\ Outgoing' = {NoPacket}
  BY DEF Outgoing
<1>2. TypeOK'
  <2>1. NoRandom \in Keys /\ faces' \in 0..FaceCap /\ restarts' \in 0..Restarts
    BY EpochsAssumption, FaceCapAssumption, RestartsAssumption
    DEF JetsonLinkInv, TypeOK, NoRandom, Keys
  <2>2. FreshJetson \in [state : {"WAIT_KEY_UPDATE", "WAIT_COMMIT", "WAIT_CONFIRM", "RUN"},
                 ready : BOOLEAN, pending : Keys, current : Keys, key : Keys,
                 previous : Keys, door : Cmds \cup {"NONE"}]
    BY <2>1 DEF FreshJetson
  <2> QED  BY <2>1, <2>2, FrameTypes DEF JetsonLinkInv, TypeOK
<1>3. (QueueInv /\ BusInv /\ RegisterInv /\ SealedInv)'
  BY DEF JetsonLinkInv, QueueInv, BusInv, RegisterInv, SealedInv, Sealed, Switching, Switched,
      NoFrame, Clear, Frame
<1>4. OrderInv'
  BY Numbers
  DEF JetsonLinkInv, OrderInv, KnownUpTo, Unannounced, Switched, IsUpdate, FreshJetson, NoRandom,
      NoFrame, Clear, Frame
<1>5. UpdateInv'
  BY Numbers
  DEF JetsonLinkInv, UpdateInv, KnownUpTo, IsUpdate, FreshJetson, NoRandom, NoFrame, Clear, Frame
<1>6. (JetsonInv /\ OutgoingInv /\ QuietInv)'
  BY <1>1
  DEF JetsonInv, Consistent, OutgoingInv, QuietInv, FreshJetson, NoPacket, Packet, NoFrame,
      Clear, Frame
<1>7. (HoldInv /\ RunInv)'
  BY DEF JetsonLinkInv, HoldInv, RunInv, Absent, FreshJetson
<1> QED  BY <1>2, <1>3, <1>4, <1>5, <1>6, <1>7 DEF JetsonLinkInv

-----------------------------------------------------------------------------
(* The end of a transfer.                                                    *)

JetsonRecords ==
  [state : {"WAIT_KEY_UPDATE", "WAIT_COMMIT", "WAIT_CONFIRM", "RUN"},
   ready : BOOLEAN, pending : Keys, current : Keys, key : Keys,
   previous : Keys, door : Cmds \cup {"NONE"}]

\* after_send leaves the Jetson in a consistent state, with what it had pending.
LEMMA AppliedInv ==
  ASSUME JetsonLinkInv, NEW j, j = Applied(jetson, mosi.after)
  PROVE  /\ j \in JetsonRecords /\ Consistent(j)
         /\ j.pending = jetson.pending /\ j.door = jetson.door
         /\ \/ j = jetson /\ mosi.after \notin {"SWITCH_KEY", "SESSION_READY"}
            \/ /\ mosi.after = "SWITCH_KEY" /\ mosi.frame.type = "COMMIT_ACK"
               /\ jetson.state = "WAIT_COMMIT" /\ j.state = "WAIT_CONFIRM"
               /\ j.previous = jetson.key /\ j.key = jetson.pending
            \/ /\ mosi.after = "SESSION_READY" /\ mosi.frame.type = "CONFIRM_ACK"
               /\ jetson.state = "WAIT_CONFIRM" /\ j.state = "RUN"
               /\ j.key = jetson.key /\ jetson.key = jetson.pending
<1>1. mosi \in Outgoing /\ jetson \in JetsonRecords
  BY DEF Outgoing, JetsonRecords, JetsonLinkInv, TypeOK
<1>2. CASE mosi.after = "SWITCH_KEY"
  <2>1. j = [jetson EXCEPT !.previous = jetson.key, !.key = jetson.pending, !.state = "WAIT_CONFIRM"]
    BY <1>2 DEF Applied
  <2>2. jetson.state = "WAIT_COMMIT" /\ mosi.frame.type = "COMMIT_ACK"
    BY <1>1, <1>2 DEF JetsonLinkInv, OutgoingInv
  <2>3. j \in JetsonRecords
    BY <1>1, <2>1 DEF JetsonRecords
  <2>4. /\ j.previous = jetson.key /\ j.key = jetson.pending /\ j.state = "WAIT_CONFIRM"
        /\ j.pending = jetson.pending /\ j.ready = jetson.ready /\ j.door = jetson.door
    BY <1>1, <2>1 DEF JetsonRecords
  <2>5. Consistent(j)
    BY <2>2, <2>4, Numbers DEF JetsonLinkInv, JetsonInv, Consistent, NoRandom
  <2> QED  BY <1>2, <2>2, <2>3, <2>4, <2>5
<1>3. CASE mosi.after = "SESSION_READY"
  <2>1. j = [jetson EXCEPT !.current = jetson.pending, !.ready = TRUE, !.state = "RUN"]
    BY <1>3 DEF Applied
  <2>2. /\ jetson.state = "WAIT_CONFIRM" /\ mosi.frame.type = "CONFIRM_ACK"
        /\ jetson_active_key = jetson.key
    BY <1>1, <1>3 DEF JetsonLinkInv, OutgoingInv
  <2>3. j \in JetsonRecords
    BY <1>1, <2>1 DEF JetsonRecords
  <2>4. /\ j.previous = jetson.previous /\ j.key = jetson.key /\ j.state = "RUN"
        /\ j.pending = jetson.pending /\ j.ready /\ j.current = jetson.pending
        /\ j.door = jetson.door
    BY <1>1, <2>1 DEF JetsonRecords
  <2>5. Consistent(j)
    BY <2>2, <2>4 DEF JetsonLinkInv, JetsonInv, Consistent
  <2>6. jetson.key = jetson.pending
    BY <2>2 DEF JetsonLinkInv, JetsonInv, Consistent
  <2> QED  BY <1>3, <2>2, <2>3, <2>4, <2>5, <2>6
<1>4. CASE mosi.after \notin {"SWITCH_KEY", "SESSION_READY"}
  <2>1. j = jetson
    BY <1>4 DEF Applied
  <2> QED  BY <1>1, <1>4, <2>1 DEF JetsonLinkInv, JetsonInv
<1> QED  BY <1>2, <1>3, <1>4

\* A response that is added to an empty queue is the only one there.
LEMMA OnlyResponse ==
  /\ Enqueued(<< >>, {}) = << >>
  /\ \A p : Enqueued(<< >>, {p}) = <<p>>
<1>1. Enqueued(<< >>, {}) = << >>
  BY DEF Enqueued
<1>2. ASSUME NEW p PROVE Enqueued(<< >>, {p}) = <<p>>
  <2>1. (CHOOSE q \in {p} : TRUE) = p
    OBVIOUS
  <2>2. \E q \in {p} : \A i \in 1..Len(<< >>) :
          << >>[i].frame.type # q.frame.type \/ << >>[i].frame.body # q.frame.body
    OBVIOUS
  <2> QED  BY <2>1, <2>2 DEF Enqueued
<1> QED  BY <1>1, <1>2

\* What a frame that has been received does to a Jetson j.
LEMMA FrameHandled ==
  ASSUME JetsonLinkInv, EndTransfer, NEW j, j = Applied(jetson, mosi.after)
  PROVE  \/ /\ miso.type = "UPDATE"
            /\ jetson' = [j EXCEPT !.ready = FALSE, !.pending = miso.body, !.state = "WAIT_COMMIT"]
            /\ management_queue' = <<Packet(Clear("READY", NoRandom), "NOTHING")>>
         \/ /\ miso.type = "COMMIT" /\ j.pending # NoRandom /\ jetson' = j
            /\ management_queue' = <<Packet(Clear("COMMIT_ACK", NoRandom), AfterCommitAck(j))>>
         \/ /\ IsChallenge(j, miso) /\ jetson' = j
            /\ management_queue' = <<Packet(Frame("CONFIRM_ACK", j.key, j.pending),
                                            IF j.state = "RUN" THEN "NOTHING" ELSE "SESSION_READY")>>
         \/ /\ miso.type # "UPDATE" /\ management_queue' = << >>
            /\ jetson' = j \/ (j.ready /\ miso.type = "DOOR" /\ jetson' = [j EXCEPT !.door = miso.body])
<1>1. management_queue = << >>
  BY DEF JetsonLinkInv, QueueInv, EndTransfer
<1>2. jetson' = Handled(j, miso) /\ management_queue' = Enqueued(<< >>, Responses(j, miso))
  BY <1>1 DEF EndTransfer
<1>3. CASE miso.type = "UPDATE"
  BY <1>2, <1>3, OnlyResponse DEF Handled, Responses
<1>4. CASE miso.type = "COMMIT"
  BY <1>2, <1>4, OnlyResponse DEF Handled, Responses, ActsOn, IsChallenge, AnswersCommit
<1>5. CASE IsChallenge(j, miso)
  BY <1>2, <1>5, OnlyResponse DEF Handled, Responses, ActsOn, IsChallenge
<1>6. CASE miso.type \notin {"UPDATE", "COMMIT"} /\ ~IsChallenge(j, miso)
  BY <1>2, <1>6, OnlyResponse DEF Handled, Responses, ActsOn
<1> QED  BY <1>3, <1>4, <1>5, <1>6

\* The frame is handled after after_send of the response.
LEMMA EndTransferStep == ASSUME JetsonLinkInv, EndTransfer PROVE JetsonLinkInv'
<1> DEFINE j == Applied(jetson, mosi.after)
           Ack == Packet(Clear("COMMIT_ACK", NoRandom), AfterCommitAck(j))
           Answer == Packet(Frame("CONFIRM_ACK", j.key, j.pending),
                            IF j.state = "RUN" THEN "NOTHING" ELSE "SESSION_READY")
<1>1. /\ encrypting = NoFrame /\ key_fsm = "active" /\ jetson_state # "J_SWITCH_LOCAL"
      /\ mosi' = NoPacket /\ miso' = NoFrame /\ management_pending' = FALSE
      /\ hold' = IF mosi.frame.type = "POLL" THEN NoFrame ELSE mosi.frame
      /\ UNCHANGED <<pending_random, new_generation, jetson_state, key_fsm, jetson_active_key,
                     encrypting, spi_tx, door_cmd, last_submitted, faces, restarts>>
      /\ mosi \in Outgoing
  BY DEF EndTransfer, keyVars, doorVars, Outgoing
<1>2. /\ mosi \in Packets /\ miso \in MisoFrames
  BY DEF JetsonLinkInv, TypeOK
\* What is handled, and the response to it.
<1>3. /\ j \in JetsonRecords /\ Consistent(j)
      /\ j.pending = jetson.pending /\ j.door = jetson.door
      /\ \/ j = jetson /\ mosi.after \notin {"SWITCH_KEY", "SESSION_READY"}
         \/ /\ mosi.after = "SWITCH_KEY" /\ mosi.frame.type = "COMMIT_ACK"
            /\ jetson.state = "WAIT_COMMIT" /\ j.state = "WAIT_CONFIRM"
            /\ j.previous = jetson.key /\ j.key = jetson.pending
         \/ /\ mosi.after = "SESSION_READY" /\ mosi.frame.type = "CONFIRM_ACK"
            /\ jetson.state = "WAIT_CONFIRM" /\ j.state = "RUN"
            /\ j.key = jetson.key /\ jetson.key = jetson.pending
  BY AppliedInv
<1>4. \/ /\ miso.type = "UPDATE"
         /\ jetson' = [j EXCEPT !.ready = FALSE, !.pending = miso.body, !.state = "WAIT_COMMIT"]
         /\ management_queue' = <<Packet(Clear("READY", NoRandom), "NOTHING")>>
      \/ /\ miso.type = "COMMIT" /\ j.pending # NoRandom /\ jetson' = j
         /\ management_queue' = <<Ack>>
      \/ /\ IsChallenge(j, miso) /\ jetson' = j
         /\ management_queue' = <<Answer>>
      \/ /\ miso.type # "UPDATE" /\ management_queue' = << >>
         /\ jetson' = j \/ (j.ready /\ miso.type = "DOOR" /\ jetson' = [j EXCEPT !.door = miso.body])
  BY FrameHandled
<1> HIDE DEF j
<1>5. /\ j.pending \in Nat /\ j.key \in Nat /\ j.state \in {"WAIT_KEY_UPDATE", "WAIT_COMMIT", "WAIT_CONFIRM", "RUN"}
      /\ j.pending \in Keys /\ j.key \in Keys /\ j.ready \in BOOLEAN
      /\ Keys \subseteq Nat
  BY <1>3, EpochsAssumption DEF JetsonRecords, Keys
<1>6. miso.type = "UPDATE" => j.key < miso.body /\ miso.body \in Randoms /\ miso.body \in Nat
  BY <1>2, <1>3, MisoTypes, Numbers DEF JetsonLinkInv, UpdateInv, IsUpdate
<1>7. IsChallenge(j, miso) =>
        /\ j.key = j.pending /\ j.key # NoRandom /\ j.state \in {"WAIT_CONFIRM", "RUN"}
        /\ jetson_active_key = j.key /\ ~Switching /\ miso.type = "CONFIRM" /\ j.pending \in Randoms
  BY <1>2, <1>3, MisoTypes, Numbers
  DEF JetsonLinkInv, SealedInv, OrderInv, Sealed, IsChallenge, Consistent, FreshJetson
\* The fields of the Jetson afterwards.
<1>8. /\ jetson' \in JetsonRecords
      /\ jetson'.key = j.key /\ jetson'.previous = j.previous /\ jetson'.current = j.current
      /\ IF miso.type = "UPDATE"
         THEN ~jetson'.ready /\ jetson'.pending = miso.body /\ jetson'.state = "WAIT_COMMIT"
         ELSE /\ jetson'.ready = j.ready /\ jetson'.pending = jetson.pending /\ jetson'.state = j.state
              /\ j.state = "WAIT_KEY_UPDATE" => jetson' = j
  <2>1. CASE miso.type = "UPDATE"
    <3>1. jetson' = [j EXCEPT !.ready = FALSE, !.pending = miso.body, !.state = "WAIT_COMMIT"]
      BY <1>4, <2>1 DEF IsChallenge
    <3>2. miso.body \in Keys
      BY <1>6, <2>1 DEF Randoms, Keys
    <3>3. [j EXCEPT !.ready = FALSE, !.pending = miso.body, !.state = "WAIT_COMMIT"] \in JetsonRecords
      BY <1>3, <3>2 DEF JetsonRecords
    <3>4. /\ jetson'.key = j.key /\ jetson'.previous = j.previous /\ jetson'.current = j.current
          /\ ~jetson'.ready /\ jetson'.pending = miso.body /\ jetson'.state = "WAIT_COMMIT"
      BY <1>3, <3>1 DEF JetsonRecords
    <3> QED  BY <2>1, <3>1, <3>3, <3>4
  <2>2. CASE miso.type # "UPDATE" /\ jetson' = j
    BY <1>3, <2>2
  <2>3. CASE miso.type # "UPDATE" /\ j.ready /\ miso.type = "DOOR" /\ jetson' = [j EXCEPT !.door = miso.body]
    <3>1. miso.body \in Cmds
      BY <1>2, <2>3, MisoTypes
    <3>2. j.state # "WAIT_KEY_UPDATE"
      BY <1>3, <2>3 DEF Consistent, FreshJetson
    <3> QED  BY <1>3, <2>3, <3>1, <3>2 DEF JetsonRecords
  <2> QED  BY <1>4, <2>1, <2>2, <2>3 DEF IsChallenge
\* The response that waits afterwards.
<1>9. \/ Outgoing' = {NoPacket} /\ management_queue' = << >>
      \/ \E p \in Packets \ {NoPacket} :
           /\ Outgoing' = {NoPacket, p} /\ management_queue' = <<p>>
           /\ \/ p = Packet(Clear("READY", NoRandom), "NOTHING") /\ miso.type = "UPDATE"
              \/ p = Ack /\ miso.type = "COMMIT" /\ j.pending # NoRandom
              \/ p = Answer /\ IsChallenge(j, miso)
  <2>1. AfterCommitAck(j) \in {"NOTHING", "SWITCH_KEY"}
    BY DEF AfterCommitAck
  <2>2. /\ Packet(Clear("READY", NoRandom), "NOTHING") \in Packets \ {NoPacket}
        /\ Ack \in Packets \ {NoPacket}
    BY <2>1, PacketTypes DEF NoPacket, Packet, NoFrame, Clear, Frame
  <2>3. IsChallenge(j, miso) => Answer \in Packets \ {NoPacket}
    BY <1>5, <1>7, PacketTypes DEF NoPacket, Packet, NoFrame, Clear, Frame
  <2>4. \A p : management_queue' = <<p>> => Outgoing' = {NoPacket, p}
    BY <1>1 DEF Outgoing
  <2>5. management_queue' = << >> => Outgoing' = {NoPacket}
    BY <1>1 DEF Outgoing
  <2> HIDE DEF Ack, Answer
  <2> QED  BY <1>4, <2>2, <2>3, <2>4, <2>5
<1>10. \A p \in Outgoing' :
         /\ p.after = "SWITCH_KEY" =>
              /\ p.frame.type = "COMMIT_ACK" /\ j.state = "WAIT_COMMIT" /\ miso.type = "COMMIT"
         /\ p.after = "SESSION_READY" =>
              p.frame.type = "CONFIRM_ACK" /\ IsChallenge(j, miso) /\ j.state # "RUN"
         /\ p.frame.type = "READY" => miso.type = "UPDATE"
         /\ p.frame.type = "CONFIRM_ACK" =>
              /\ IsChallenge(j, miso) /\ p.frame.key = j.key /\ p.frame.body = j.pending
              /\ p.after = "SESSION_READY" \/ j.state = "RUN"
         /\ p.frame.type # "FACE"
  BY <1>9 DEF AfterCommitAck, NoPacket, Packet, NoFrame, Clear, Frame
<1>11. TypeOK'
  <2>1. hold' \in MosiFrames
    BY <1>1, <1>2, FrameTypes DEF Packets
  <2>2. management_queue' \in Seq(Packets)
    <3>1. << >> \in Seq(Packets) /\ \A p \in Packets : <<p>> \in Seq(Packets)
      OBVIOUS
    <3> QED  BY <1>9, <3>1, Zenon
  <2> QED  BY <1>1, <1>8, <2>1, <2>2, FrameTypes DEF JetsonLinkInv, TypeOK, JetsonRecords
<1>12. (QueueInv /\ BusInv /\ RegisterInv)'
  BY <1>1, <1>9 DEF JetsonLinkInv, QueueInv, BusInv, RegisterInv, Switched
<1>13. SealedInv'
  BY <1>1 DEF JetsonLinkInv, SealedInv, Sealed, Switching, NoFrame, Clear, Frame
<1>14. ~IsUpdate(miso') /\ ~Sealed(miso')
  BY <1>1 DEF IsUpdate, Sealed, NoFrame, Clear, Frame
<1>15. jetson'.pending = jetson.pending \/ (IsUpdate(miso) /\ jetson'.pending = miso.body)
  BY <1>8 DEF IsUpdate
<1>16. OrderInv'
  BY <1>1, <1>14, <1>15 DEF JetsonLinkInv, OrderInv, KnownUpTo, Unannounced, Switched
<1>17. UpdateInv'
  <2>1. SUFFICES ASSUME IsUpdate(spi_tx)
                 PROVE  /\ jetson'.pending <= spi_tx.body /\ j.key < spi_tx.body
                        /\ jetson'.pending = spi_tx.body => \A p \in Outgoing' : p.after # "SWITCH_KEY"
    BY <1>1, <1>8, <1>14 DEF UpdateInv, KnownUpTo
  <2>2. jetson'.pending <= spi_tx.body
    BY <1>15, <2>1 DEF JetsonLinkInv, UpdateInv, KnownUpTo
  <2>3. j.key < spi_tx.body
    BY <1>1, <1>3, <2>1, Numbers DEF JetsonLinkInv, UpdateInv, KnownUpTo, IsUpdate
  <2>4. ASSUME jetson'.pending = spi_tx.body, NEW p \in Outgoing', p.after = "SWITCH_KEY" PROVE FALSE
    <3>1. miso.type = "COMMIT" /\ jetson'.pending = jetson.pending
      BY <1>8, <1>10, <2>4
    <3>2. miso = NoFrame \/ miso = spi_tx
      BY <2>1, <2>4, <3>1 DEF JetsonLinkInv, UpdateInv
    <3> QED  BY <2>1, <3>1, <3>2 DEF IsUpdate, NoFrame, Clear, Frame
  <2> QED  BY <2>2, <2>3, <2>4
<1>18. JetsonInv'
  <2>1. CASE miso.type = "UPDATE"
    BY <1>3, <1>6, <1>8, <2>1 DEF JetsonInv, Consistent
  <2>2. CASE miso.type # "UPDATE"
    BY <1>1, <1>3, <1>8, <2>2 DEF JetsonInv, Consistent
  <2> QED  BY <2>1, <2>2
<1>19. OutgoingInv'
  BY <1>1, <1>7, <1>8, <1>10 DEF OutgoingInv
<1>20. QuietInv'
  <2>1. SUFFICES ASSUME Switching
                 PROVE  ~jetson'.ready /\ \A p \in Outgoing' : p.after # "SESSION_READY"
    BY <1>1 DEF QuietInv, Switching
  <2>2. ~jetson.ready /\ mosi.after # "SESSION_READY"
    BY <1>1, <2>1 DEF JetsonLinkInv, QuietInv
  <2>3. ~j.ready
    BY <1>3, <2>2 DEF Consistent
  <2> QED  BY <1>7, <1>8, <1>10, <2>1, <2>3
<1>21. HoldInv'
  <2>1. /\ hold'.type \in {"READY", "CONFIRM_ACK", "FACE"} => hold' = mosi.frame
        /\ jetson_active_key' = jetson_active_key
    BY <1>1 DEF NoFrame, Clear, Frame
  <2>2. ASSUME hold'.type = "READY" PROVE jetson'.state \in {"WAIT_KEY_UPDATE", "WAIT_COMMIT"}
    <3>1. mosi.frame.type = "READY" /\ jetson.state = "WAIT_COMMIT"
      BY <1>1, <2>1, <2>2 DEF JetsonLinkInv, OutgoingInv
    <3> QED  BY <1>3, <1>8, <3>1
  <2>3. ASSUME hold'.type = "CONFIRM_ACK"
        PROVE  \/ jetson'.state = "RUN" /\ jetson'.key = hold'.body
               \/ jetson'.state = "WAIT_COMMIT" /\ jetson'.pending > hold'.body
    <3>1. mosi.frame.type = "CONFIRM_ACK" /\ hold'.body = jetson.key
      BY <1>1, <2>1, <2>3 DEF JetsonLinkInv, OutgoingInv
    <3>2. mosi.after = "SESSION_READY" \/ jetson.state = "RUN"
      BY <1>1, <3>1 DEF JetsonLinkInv, OutgoingInv
    <3>3. j.state = "RUN" /\ j.key = jetson.key
      BY <1>3, <3>1, <3>2
    <3> QED  BY <1>5, <1>6, <1>8, <3>1, <3>3
  <2>4. ASSUME hold'.type = "FACE" PROVE hold'.key = jetson_active_key
    <3>1. jetson.ready /\ hold'.key = jetson.key
      BY <1>1, <2>1, <2>4 DEF JetsonLinkInv, OutgoingInv
    <3> QED  BY <3>1, Numbers DEF JetsonLinkInv, JetsonInv, Consistent, FreshJetson
  <2> QED  BY <2>1, <2>2, <2>3, <2>4 DEF HoldInv
<1>22. RunInv'
  <2>1. SUFFICES ASSUME TrafficEnabled
                 PROVE  \/ jetson'.state = "WAIT_KEY_UPDATE"
                        \/ jetson'.state = "RUN" /\ jetson'.key = pending_random
    BY <1>1 DEF RunInv, TrafficEnabled, Absent
  <2>2. miso.type # "UPDATE"
    BY <2>1 DEF JetsonLinkInv, OrderInv, TrafficEnabled, IsUpdate
  <2>3. Absent \/ (jetson.state = "RUN" /\ jetson.key = pending_random)
    BY <2>1 DEF JetsonLinkInv, RunInv
  <2>4. j = jetson
    BY <1>3, <2>3 DEF Absent
  <2> QED  BY <1>8, <2>2, <2>3, <2>4 DEF Absent
<1> QED  BY <1>11, <1>12, <1>13, <1>16, <1>17, <1>18, <1>19, <1>20, <1>21, <1>22 DEF JetsonLinkInv

-----------------------------------------------------------------------------
(* The invariant and what follows from it.                                   *)

\* Every step keeps the invariant.
LEMMA InvStep == JetsonLinkInv /\ [Next]_vars => JetsonLinkInv'
<1> SUFFICES ASSUME JetsonLinkInv, [Next]_vars PROVE JetsonLinkInv'
  OBVIOUS
<1>1. CASE FsmNext
  BY <1>1, RestartHandshakeStep, SendUpdateStep, SendCommitStep, SendConfirmStep,
     RetryUpdateStep, RetryCommitStep, RetryConfirmStep, SwitchLocalStep, StartKeyLoadStep,
     KeyLoadedStep
  DEF FsmNext
<1>2. CASE UNCHANGED vars
  <2>1. Outgoing' = Outgoing
    BY <1>2 DEF Outgoing, vars, busVars, jetsonVars
  <2> QED
    BY <1>2, <2>1
    DEF vars, keyVars, doorVars, busVars, jetsonVars, JetsonLinkInv, TypeOK, QueueInv, BusInv,
        RegisterInv, SealedInv, OrderInv, UpdateInv, JetsonInv, Consistent, OutgoingInv,
        QuietInv, HoldInv, RunInv, KnownUpTo, Unannounced, Switching, Switched, TrafficEnabled,
        Absent
<1> QED
  BY <1>1, <1>2, NewEpochStep, SetDoorStep, SubmitDoorStep, EncryptDoneStep, ReceiveFrameStep,
     LoseFrameStep, QueueFaceStep, StartTransferStep, EndTransferStep, RestartJetsonStep
  DEF Next

\* It holds in every state.
LEMMA Inductive == Spec => []JetsonLinkInv
BY InitInv, InvStep, PTL DEF Spec

\* ReadyIsReal, of the Jetson as it is and as it is when the transfer has ended.
LEMMA ReadyMeansShared ==
  ASSUME JetsonLinkInv, NEW j \in JetsonRecords, Consistent(j), j.ready
  PROVE  /\ j.state = "RUN" /\ j.current = j.pending /\ j.key = j.current
         /\ jetson_active_key = j.current
BY DEF JetsonRecords, Consistent, FreshJetson

\* One key at both ends of a session (jetson_main.py, zybo_session_manager.sv): while
\* traffic is enabled both have the key of the running epoch; the Jetson believes
\* it has a session only when the ZYBO has its key; no door frame is acted on
\* under an older key and no Face-ID report is refused for its key.
THEOREM SessionShared == Spec => []SessionIsShared
<1>1. JetsonLinkInv => SessionIsShared
  <2> SUFFICES ASSUME JetsonLinkInv PROVE SessionIsShared
    OBVIOUS
  <2>1. jetson \in JetsonRecords /\ Consistent(jetson)
    BY DEF JetsonLinkInv, JetsonInv, TypeOK, JetsonRecords
  <2>2. JetsonAgreement
    BY DEF JetsonLinkInv, BusInv, OrderInv, RunInv, JetsonInv, Consistent, JetsonAgreement,
        TrafficEnabled, Switched
  <2>3. ReadyIsReal
    BY <2>1, ReadyMeansShared DEF ReadyIsReal
  <2>4. DoorFramesAreCurrent
    <3> DEFINE j == Applied(jetson, mosi.after)
    <3>1. j \in JetsonRecords /\ Consistent(j)
      BY AppliedInv
    <3>2. ASSUME ActsOn(j, miso) PROVE miso.key = j.key /\ miso.key = jetson_active_key
      <4>1. j.ready /\ miso.key = jetson_active_key
        BY <3>2 DEF ActsOn, JetsonLinkInv, SealedInv, Sealed
      <4> HIDE DEF j
      <4> QED  BY <3>1, <4>1, ReadyMeansShared
    <3> QED  BY <3>2 DEF DoorFramesAreCurrent
  <2>5. FaceFramesAuthenticate
    BY DEF JetsonLinkInv, HoldInv, FaceFramesAuthenticate
  <2> QED  BY <2>2, <2>3, <2>4, <2>5 DEF JetsonLinkInv, SessionIsShared
<1> QED  BY <1>1, Inductive, PTL

\* The handshake goes forward only (jetson_main.py:219-253): whatever is sent
\* again or overtaken, the Jetson never returns to an older R or key, never loses
\* the previous key to a repeated switch, and never starts new codecs under a key
\* it already uses.
THEOREM KeysForward == Spec => []KeysMoveForward
<1>1. JetsonLinkInv => KeysMoveForward
  <2> SUFFICES ASSUME JetsonLinkInv PROVE KeysMoveForward
    OBVIOUS
  <2>1. KeysInOrder
    BY KeyIsKnown DEF JetsonLinkInv, JetsonInv, Consistent, KeysInOrder
  <2>2. NoCodecStartsAgain
    <3> DEFINE j == Applied(jetson, mosi.after)
    <3>1. j.key = jetson.key \/ (mosi.after = "SWITCH_KEY" /\ j.key = jetson.pending)
      BY AppliedInv
    <3> HIDE DEF j
    <3>2. IsUpdate(miso) => j.key < miso.body /\ j.key \in Nat /\ miso.body \in Nat
      BY <3>1, Numbers DEF JetsonLinkInv, UpdateInv, IsUpdate
    <3> QED  BY <3>2 DEF NoCodecStartsAgain, IsUpdate, j
  <2> QED  BY <2>1, <2>2 DEF KeysMoveForward
<1> QED  BY <1>1, Inductive, PTL

\* No response is ever discarded as a duplicate or dropped from a full queue: the
\* queue of jetson_main.py:123-136 is empty whenever one is added.
THEOREM QueueEmpty == Spec => []NothingSwallowed
<1>1. JetsonLinkInv => NothingSwallowed
  BY DEF JetsonLinkInv, QueueInv, NothingSwallowed
<1> QED  BY <1>1, Inductive, PTL

-----------------------------------------------------------------------------
(* The handshake as it is timed.                                             *)

\* A timed step is a step of JetsonLink.
LEMMA TimedStep == [TimedNext]_timedVars => [Next]_vars
BY DEF TimedNext, timedVars

\* And so the invariant holds.
LEMMA TimedInductive == TimedSpec => []JetsonLinkInv
<1>1. TimedInit => JetsonLinkInv
  BY InitInv DEF TimedInit
<1>2. JetsonLinkInv /\ [TimedNext]_timedVars => JetsonLinkInv'
  BY InvStep, TimedStep
<1> QED  BY <1>1, <1>2, PTL DEF TimedSpec

\* As long as no frame is loaded in the middle of a transfer, every transfer that
\* ends has carried what the register holds.
CarriedInv ==
  ~untimely /\ ~new_generation /\ jetson_state \notin {"J_WAIT_EPOCH", "J_SEND_UPDATE"} =>
    /\ IsUpdate(spi_tx) /\ mosi # NoPacket => miso = spi_tx
    /\ ~IsUpdate(spi_tx) => ~IsUpdate(miso)
    /\ (management_pending /\ IsUpdate(spi_tx)) \/ Absent \/ jetson.pending = pending_random

\* Each step of the timed handshake keeps that.
LEMMA CarriedStep ==
  JetsonLinkInv /\ CarriedInv /\ [TimedNext]_timedVars => CarriedInv'
<1> SUFFICES ASSUME JetsonLinkInv, CarriedInv, TimedNext,
                    ~untimely', ~new_generation',
                    jetson_state' \notin {"J_WAIT_EPOCH", "J_SEND_UPDATE"}
             PROVE  CarriedInv'
  BY DEF CarriedInv, timedVars, vars, busVars, jetsonVars, Absent
<1>0. ~untimely /\ ~LateLoad
  BY DEF TimedNext
<1>1. CASE SendUpdate
  <2>1. mosi = NoPacket
    BY <1>0, <1>1 DEF LateLoad
  <2> QED
    BY <1>1, <2>1 DEF CarriedInv, SendUpdate, SendClear, busVars, IsUpdate, Clear, Frame
<1>2. CASE SendCommit
  <2>1. mosi = NoPacket /\ miso = NoFrame
    BY <1>0, <1>2 DEF LateLoad, JetsonLinkInv, BusInv
  <2>2. ~new_generation /\ jetson_state = "J_SEND_COMMIT" /\ ~management_pending
    BY <1>2 DEF SendCommit, SendClear, Goto, MayLoadClear
  <2> QED
    BY <1>0, <1>2, <2>1, <2>2
    DEF CarriedInv, SendCommit, SendClear, busVars, jetsonVars, IsUpdate, Absent, NoFrame, Clear,
        Frame
<1>8. CASE RestartHandshake \/ RetryUpdate \/ RetryCommit \/ RetryConfirm \/ SwitchLocal \/ SendConfirm
  <2>1. ~new_generation /\ jetson_state \notin {"J_WAIT_EPOCH", "J_SEND_UPDATE"}
    BY <1>8 DEF RestartHandshake, RetryUpdate, RetryCommit, RetryConfirm, Retry, SwitchLocal,
       SendConfirm, Goto
  <2> QED
    BY <1>0, <1>8, <2>1
    DEF CarriedInv, RestartHandshake, RetryUpdate, RetryCommit, RetryConfirm, Retry, SwitchLocal,
        SendConfirm, busVars, jetsonVars, Absent
<1>9. CASE StartKeyLoad \/ KeyLoaded \/ SetDoor \/ SubmitDoor \/ LoseFrame \/ QueueFace \/ NewEpoch
  BY <1>0, <1>9
  DEF CarriedInv, StartKeyLoad, KeyLoaded, SetDoor, SubmitDoor, LoseFrame, QueueFace, NewEpoch,
      busVars, jetsonVars, Absent
<1>3. CASE EncryptDone
  <2>1. spi_tx' = spi_tx \/ (~IsUpdate(spi_tx) /\ ~IsUpdate(spi_tx'))
    BY <1>3 DEF EncryptDone, JetsonLinkInv, RegisterInv, SealedInv, IsUpdate
  <2>2. management_pending /\ IsUpdate(spi_tx) => management_pending'
    BY <1>3 DEF EncryptDone
  <2>3. /\ UNCHANGED <<miso, mosi, jetson, pending_random, jetson_state, new_generation>>
    BY <1>3 DEF EncryptDone, busVars, jetsonVars
  <2> QED  BY <1>0, <2>1, <2>2, <2>3 DEF CarriedInv, Absent
<1>4. CASE ReceiveFrame
  BY <1>0, <1>4
  DEF CarriedInv, ReceiveFrame, AfterFrame, Goto, busVars, jetsonVars, Absent, JetsonLinkInv,
      RegisterInv
<1>5. CASE StartTransfer
  BY <1>0, <1>5 DEF CarriedInv, StartTransfer, Absent
<1>6. CASE RestartJetson
  BY <1>6 DEF CarriedInv, RestartJetson, Absent, FreshJetson, IsUpdate, NoFrame, Clear, Frame
<1>7. CASE EndTransfer
  <2>1. PICK j : j = Applied(jetson, mosi.after)
    OBVIOUS
  <2>2. j \in JetsonRecords /\ j.pending = jetson.pending /\ (jetson.state = "WAIT_KEY_UPDATE" => j = jetson)
    BY <2>1, AppliedInv
  <2>3. /\ mosi' = NoPacket /\ miso' = NoFrame /\ spi_tx' = spi_tx /\ ~new_generation
        /\ UNCHANGED <<pending_random, jetson_state>> /\ mosi # NoPacket
    BY <1>7 DEF EndTransfer
  <2>4. CASE miso.type = "UPDATE"
    <3>1. jetson' = [j EXCEPT !.ready = FALSE, !.pending = miso.body, !.state = "WAIT_COMMIT"]
      BY <1>7, <2>1, <2>4, FrameHandled DEF IsChallenge
    <3>2. jetson'.pending = miso.body
      BY <2>2, <3>1 DEF JetsonRecords
    <3>3. miso = spi_tx /\ IsUpdate(spi_tx)
      BY <1>0, <2>3, <2>4 DEF CarriedInv, IsUpdate
    <3>4. spi_tx.body = pending_random
      BY <2>3, <3>3
      DEF JetsonLinkInv, RegisterInv, OrderInv, IsUpdate, Switched, TypeOK, JetsonStates
    <3> QED  BY <2>3, <3>2, <3>3, <3>4 DEF CarriedInv
  <2>5. CASE miso.type # "UPDATE"
    <3>1. ~IsUpdate(spi_tx) /\ (Absent \/ jetson.pending = pending_random)
      BY <1>0, <2>3, <2>5 DEF CarriedInv, IsUpdate
    <3>2. jetson' = j \/ (j.ready /\ jetson' = [j EXCEPT !.door = miso.body])
      BY <1>7, <2>1, <2>5, FrameHandled
    <3>3. jetson'.pending = j.pending /\ jetson'.state = j.state
      BY <2>2, <3>2 DEF JetsonRecords
    <3> QED  BY <2>2, <2>3, <3>1, <3>3 DEF CarriedInv, Absent, IsUpdate, NoFrame, Clear, Frame
  <2> QED  BY <2>4, <2>5
<1> QED
  BY <1>1, <1>2, <1>3, <1>4, <1>5, <1>6, <1>7, <1>8, <1>9 DEF TimedNext, Next, FsmNext

\* READY and COMMIT_ACK carry no R, and yet an answer of an older epoch never makes
\* the ZYBO switch while the Jetson is without R: the register is overwritten only
\* when its frame has been carried (zybo_secure_control_unit_v2.sv, spi_slave.sv).
THEOREM SwitchFollows == TimedSpec => []SwitchFollowsR
<1>1. TimedInit => CarriedInv
  BY DEF TimedInit, Init, CarriedInv
<1>2. JetsonLinkInv /\ CarriedInv => SwitchFollowsR
  BY DEF JetsonLinkInv, RegisterInv, CarriedInv, SwitchFollowsR, Switched, IsUpdate
<1> QED  BY <1>1, <1>2, TimedInductive, CarriedStep, PTL DEF TimedSpec
=============================================================================
