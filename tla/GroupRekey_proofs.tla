--------------------------- MODULE GroupRekey_proofs ---------------------------
(***************************************************************************)
(* Proofs about GroupRekey for every set of randoms and every UART depth:  *)
(* type correctness, the inductive invariant of GroupRekeyInv, and the     *)
(* safety properties that follow from it.  Then the same of                *)
(* GroupRekeyFaults, for any number of restarts and resets.                *)
(***************************************************************************)
EXTENDS GroupRekeyFaultsInv, SequenceTheorems, TLAPS

-----------------------------------------------------------------------------
(* Frames and channels.                                                      *)

\* A frame made of a known type and a key is a frame of that channel, and has
\* the fields it was made of.
LEMMA FrameType ==
  ASSUME NEW types, NEW t \in types, NEW r \in Keys
  PROVE  /\ Frame(t, r) \in Frames(types)
         /\ Frame(t, r).type = t /\ Frame(t, r).r = r
BY DEF Frame, Frames

\* A frame is determined by its type and its key.
LEMMA FrameFields ==
  ASSUME NEW types, NEW f \in Frames(types)
  PROVE  f.type \in types /\ f.r \in Keys /\ f = Frame(f.type, f.r)
BY DEF Frame, Frames

\* Sending adds a frame to the channel.
LEMMA ElemsAppend ==
  ASSUME NEW S, NEW q \in Seq(S), NEW e \in S
  PROVE  Elems(Append(q, e)) = Elems(q) \cup {e}
<1>1. Len(Append(q, e)) = Len(q) + 1 /\ Len(q) \in Nat
  OBVIOUS
<1>2. \A i \in 1..Len(q) : Append(q, e)[i] = q[i]
  OBVIOUS
<1>3. Append(q, e)[Len(q) + 1] = e
  OBVIOUS
<1> QED
  BY <1>1, <1>2, <1>3 DEF Elems

\* Receiving or losing a frame takes the head out, and nothing else.
LEMMA ElemsTail ==
  ASSUME NEW S, NEW q \in Seq(S), q # << >>
  PROVE  /\ Elems(q) = Elems(Tail(q)) \cup {Head(q)}
         /\ Head(q) \in S /\ Tail(q) \in Seq(S) /\ Len(Tail(q)) = Len(q) - 1
<1>1. /\ Len(q) \in Nat \ {0} /\ Head(q) = q[1] /\ Head(q) \in S
      /\ Len(Tail(q)) = Len(q) - 1 /\ Tail(q) \in Seq(S)
  OBVIOUS
<1>2. \A i \in 1..(Len(q) - 1) : Tail(q)[i] = q[i + 1]
  OBVIOUS
<1>3. Elems(q) \subseteq Elems(Tail(q)) \cup {Head(q)}
  <2> SUFFICES ASSUME NEW i \in 1..Len(q)
               PROVE  q[i] \in Elems(Tail(q)) \cup {Head(q)}
    BY DEF Elems
  <2>1. CASE i = 1
    BY <2>1, <1>1
  <2>2. CASE i # 1
    <3>1. i - 1 \in 1..Len(Tail(q)) /\ Tail(q)[i - 1] = q[i]
      BY <2>2, <1>1, <1>2
    <3> QED
      BY <3>1 DEF Elems
  <2> QED
    BY <2>1, <2>2
<1>4. Elems(Tail(q)) \subseteq Elems(q)
  <2> SUFFICES ASSUME NEW i \in 1..Len(Tail(q))
               PROVE  Tail(q)[i] \in Elems(q)
    BY DEF Elems
  <2>1. i + 1 \in 1..Len(q) /\ Tail(q)[i] = q[i + 1]
    BY <1>1, <1>2
  <2> QED
    BY <2>1 DEF Elems
<1>5. Head(q) \in Elems(q)
  BY <1>1 DEF Elems
<1> QED
  BY <1>1, <1>3, <1>4, <1>5

LEMMA ElemsEmpty == Elems(<< >>) = {}
BY DEF Elems

\* The order of two kinds of frames survives a receive or a loss ...
LEMMA OrderedTail ==
  ASSUME NEW S, NEW q \in Seq(S), q # << >>, NEW A, NEW B, Ordered(q, A, B)
  PROVE  /\ Ordered(Tail(q), A, B)
         /\ Head(q) \in A => Elems(Tail(q)) \subseteq B
<1>1. /\ Len(q) \in Nat \ {0} /\ Head(q) = q[1] /\ Len(Tail(q)) = Len(q) - 1
  OBVIOUS
<1>2. \A i \in 1..(Len(q) - 1) : Tail(q)[i] = q[i + 1] /\ i + 1 \in 1..Len(q)
  BY <1>1
<1>3. Ordered(Tail(q), A, B)
  <2> SUFFICES ASSUME NEW i \in 1..Len(Tail(q)), NEW j \in 1..Len(Tail(q)),
                      i < j, Tail(q)[i] \in A
               PROVE  Tail(q)[j] \in B
    BY DEF Ordered
  <2>1. i + 1 \in 1..Len(q) /\ j + 1 \in 1..Len(q) /\ i + 1 < j + 1
    BY <1>1, <1>2
  <2>2. Tail(q)[i] = q[i + 1] /\ Tail(q)[j] = q[j + 1]
    BY <1>1, <1>2
  <2> QED
    BY <2>1, <2>2 DEF Ordered
<1>4. ASSUME Head(q) \in A, NEW j \in 1..Len(Tail(q))
      PROVE  Tail(q)[j] \in B
  <2>1. 1 \in 1..Len(q) /\ j + 1 \in 1..Len(q) /\ 1 < j + 1 /\ Tail(q)[j] = q[j + 1]
    BY <1>1, <1>2
  <2> QED
    BY <2>1, <1>1, <1>4 DEF Ordered
<1> QED
  BY <1>3, <1>4 DEF Elems

\* ... and the sending of a frame that may come last.
LEMMA OrderedAppend ==
  ASSUME NEW S, NEW q \in Seq(S), NEW e \in S, NEW A, NEW B, Ordered(q, A, B),
         e \in B \/ Elems(q) \cap A = {}
  PROVE  Ordered(Append(q, e), A, B)
<1>1. Len(Append(q, e)) = Len(q) + 1 /\ Len(q) \in Nat
  OBVIOUS
<1>2. \A i \in 1..Len(q) : Append(q, e)[i] = q[i]
  OBVIOUS
<1>3. Append(q, e)[Len(q) + 1] = e
  OBVIOUS
<1> SUFFICES ASSUME NEW i \in 1..Len(Append(q, e)), NEW j \in 1..Len(Append(q, e)),
                    i < j, Append(q, e)[i] \in A
             PROVE  Append(q, e)[j] \in B
  BY DEF Ordered
<1>4. i \in 1..Len(q) /\ q[i] \in A
  BY <1>1, <1>2
<1>5. CASE j \in 1..Len(q)
  BY <1>2, <1>4, <1>5 DEF Ordered
<1>6. CASE j = Len(q) + 1
  <2>1. q[i] \in Elems(q)
    BY <1>4 DEF Elems
  <2> QED
    BY <2>1, <1>3, <1>4, <1>6
<1> QED
  BY <1>1, <1>5, <1>6

-----------------------------------------------------------------------------
(* Type correctness.                                                         *)

LEMMA NoFrameFacts ==
  /\ NoFrame \in Frames(MosiTypes) /\ NoFrame \in Frames(MisoTypes)
  /\ NoFrame.type = "NONE" /\ NoFrame.r = NoRandom
BY DEF NoFrame, Frame, Frames, MosiTypes, MisoTypes, Keys

\* Putting a frame on a channel that has room keeps the channel well typed.
LEMMA AppendType ==
  ASSUME NEW types, NEW q \in Seq(Frames(types)), Len(q) < UartCap,
         NEW t \in types, NEW r \in Keys
  PROVE  /\ Append(q, Frame(t, r)) \in Seq(Frames(types))
         /\ Len(Append(q, Frame(t, r))) <= UartCap
<1>1. Frame(t, r) \in Frames(types)
  BY FrameType
<1>2. Len(Append(q, Frame(t, r))) = Len(q) + 1 /\ Len(q) \in Nat
  OBVIOUS
<1> QED
  BY <1>1, <1>2, UartCapAssumption

\* Taking a frame out of a channel keeps the channel well typed.
LEMMA TailType ==
  ASSUME NEW types, NEW q \in Seq(Frames(types)), Len(q) <= UartCap, q # << >>
  PROVE  /\ Tail(q) \in Seq(Frames(types)) /\ Len(Tail(q)) <= UartCap
         /\ Head(q).type \in types /\ Head(q).r \in Keys
<1>1. /\ Head(q) \in Frames(types) /\ Tail(q) \in Seq(Frames(types))
      /\ Len(Tail(q)) = Len(q) - 1 /\ Len(q) \in Nat
  BY ElemsTail
<1> QED
  BY <1>1, FrameFields, UartCapAssumption

\* What an acknowledgement can do to the group FSM: the one transition that
\* waits for it, or nothing.
LEMMA PcAckCases ==
  ASSUME NEW f
  PROVE  \/ /\ f = Frame("PC_READY", pending_random) /\ group_state = "G_WAIT_PC_READY"
            /\ AfterPcAck(f) = "G_SEND_BASYS_UPDATE"
         \/ /\ f = Frame("PC_COMMIT_ACK", pending_random) /\ group_state = "G_WAIT_PC_COMMIT_ACK"
            /\ AfterPcAck(f) = "G_SEND_BASYS_COMMIT"
         \/ /\ f = Frame("PC_CONFIRM_ACK", pending_random) /\ group_state = "G_WAIT_PC_CONFIRM_ACK"
            /\ AfterPcAck(f) = "G_SEND_BASYS_CONFIRM"
         \/ AfterPcAck(f) = group_state
BY Zenon DEF AfterPcAck

LEMMA BasysAckCases ==
  ASSUME NEW type
  PROVE  \/ /\ type = "BASYS_READY" /\ group_state = "G_WAIT_BASYS_READY"
            /\ AfterBasysAck(type) = "G_SEND_PC_COMMIT"
         \/ /\ type = "BASYS_COMMIT_ACK" /\ group_state = "G_WAIT_BASYS_COMMIT_ACK"
            /\ AfterBasysAck(type) = "G_SWITCH_LOCAL"
         \/ /\ type = "BASYS_CONFIRM_ACK" /\ group_state = "G_WAIT_BASYS_CONFIRM_ACK"
            /\ AfterBasysAck(type) = "G_RUN"
         \/ /\ AfterBasysAck(type) = group_state
            /\ ~(type = "BASYS_READY" /\ group_state = "G_WAIT_BASYS_READY")
            /\ ~(type = "BASYS_COMMIT_ACK" /\ group_state = "G_WAIT_BASYS_COMMIT_ACK")
            /\ ~(type = "BASYS_CONFIRM_ACK" /\ group_state = "G_WAIT_BASYS_CONFIRM_ACK")
BY Zenon DEF AfterBasysAck

\* The transitions of the group FSM on its own.
LEMMA ZyboType ==
  ASSUME TypeOK, ZyboNext
  PROVE  TypeOK'
<1>1. ASSUME NEW from, BeginEpoch(from)
      PROVE  TypeOK'
  BY <1>1 DEF BeginEpoch, TypeOK, Keys, GroupStates, pcVars, uartVars, spiVars, basysVars
<1>2. ASSUME NEW from, NEW type \in ToPcTypes, NEW next \in GroupStates,
             SendPc(from, type, next)
      PROVE  TypeOK'
  BY <1>2, AppendType DEF SendPc, TypeOK, pcVars, spiVars, basysVars
<1>3. ASSUME NEW from, NEW type \in MosiTypes, NEW next \in GroupStates,
             SendBasys(from, type, next)
      PROVE  TypeOK'
  BY <1>3, FrameType DEF SendBasys, TypeOK, pcVars, uartVars, basysVars
<1>4. ASSUME NEW wait, NEW send \in GroupStates, Retry(wait, send)
      PROVE  TypeOK'
  BY <1>4 DEF Retry, TypeOK, pcVars, uartVars, spiVars, basysVars
<1>5. CASE SwitchLocal \/ LocalKeyDone
  BY <1>5 DEF SwitchLocal, LocalKeyDone, TypeOK, GroupStates, pcVars, uartVars, spiVars, basysVars
<1>6. CASE SendRackCommand
  <2>1. spi_pending' \in Frames(MosiTypes)
    BY <1>6, FrameType DEF SendRackCommand, TypeOK, MosiTypes
  <2> QED
    BY <1>6, <2>1 DEF SendRackCommand, TypeOK, zyboVars, pcVars, uartVars, basysVars
<1>7. CASE SendReport
  <2>1. toPc' \in Seq(Frames(ToPcTypes)) /\ Len(toPc') <= UartCap
    <3>1. "ZYBO_TO_PC" \in ToPcTypes
      BY DEF ToPcTypes
    <3> QED
      BY <1>7, <3>1, AppendType DEF SendReport, TypeOK
  <2> QED
    BY <1>7, <2>1 DEF SendReport, TypeOK, zyboVars, pcVars, spiVars, basysVars
<1>8. CASE ReceivePcAck
  <2>1. AfterPcAck(Head(fromPc)) \in GroupStates
    BY PcAckCases DEF TypeOK, GroupStates
  <2>2. Tail(fromPc) \in Seq(Frames(FromPcTypes)) /\ Len(Tail(fromPc)) <= UartCap
    BY <1>8, TailType DEF ReceivePcAck, TypeOK
  <2> QED
    BY <1>8, <2>1, <2>2 DEF ReceivePcAck, TypeOK, pcVars, spiVars, basysVars
<1>9. CASE ReceivePcCommand
  <2>1. Tail(fromPc) \in Seq(Frames(FromPcTypes)) /\ Len(Tail(fromPc)) <= UartCap
    BY <1>9, TailType DEF ReceivePcCommand, TypeOK
  <2> QED
    BY <1>9, <2>1 DEF ReceivePcCommand, TypeOK, zyboVars, pcVars, spiVars, basysVars
<1>10. CASE SendPcUpdate \/ SendPcCommit \/ SendPcConfirm
  BY <1>10, <1>2 DEF SendPcUpdate, SendPcCommit, SendPcConfirm, ToPcTypes, PcRequests, GroupStates
<1>11. CASE SendBasysUpdate \/ SendBasysCommit \/ SendBasysConfirm
            \/ PollOldReady \/ PollOldCommit \/ PollNew
  BY <1>11, <1>3 DEF SendBasysUpdate, SendBasysCommit, SendBasysConfirm,
     PollOldReady, PollOldCommit, PollNew, MosiTypes, GroupStates
<1>12. CASE RetryPcUpdate \/ RetryPcCommit \/ RetryPcConfirm
            \/ RetryPollReady \/ RetryPollCommit \/ RetryPollConfirm
  BY <1>12, <1>4 DEF RetryPcUpdate, RetryPcCommit, RetryPcConfirm, RetryPc,
     RetryPollReady, RetryPollCommit, RetryPollConfirm, GroupStates
<1> QED
  BY <1>1, <1>5, <1>6, <1>7, <1>8, <1>9, <1>10, <1>11, <1>12
     DEF ZyboNext, Boot, ExpireSession

\* What the Basys3 makes of the frame that was shifted in.
LEMMA BasysReceiveType ==
  ASSUME TypeOK, BasysReceive
  PROVE  /\ bs_pending' \in Keys /\ bs_key' \in Keys /\ bs_rekey' \in BOOLEAN
         /\ bs_established' \in BOOLEAN /\ bs_switch' \in BOOLEAN
         /\ bs_mgmt_pending' \in BOOLEAN /\ bs_tx' \in Frames(MisoTypes)
         /\ bs_tx_type' \in MisoTypes /\ bs_inflight' \in MisoTypes
<1>1. spi_mosi.r \in Keys
  BY FrameFields DEF TypeOK
<1>2. ASSUME NEW t \in BasysAcks, NEW r \in Keys, Respond(t, r)
      PROVE  /\ bs_mgmt_pending' \in BOOLEAN /\ bs_tx' \in Frames(MisoTypes)
             /\ bs_tx_type' \in MisoTypes
  BY <1>2, FrameType DEF Respond, MisoTypes
<1> QED
  BY <1>1, <1>2 DEF BasysReceive, TypeOK, BasysAcks, MisoTypes

LEMMA BasysType ==
  ASSUME TypeOK, BasysNext
  PROVE  TypeOK'
<1>1. CASE StartTransfer
  BY <1>1, NoFrameFacts DEF StartTransfer, TypeOK, zyboVars, uartVars, pcVars
<1>2. CASE EndTransfer
  <2>1. group_state' \in GroupStates /\ current_random' \in Keys
    BY <1>2, BasysAckCases DEF EndTransfer, TypeOK, GroupStates
  <2> QED
    BY <1>2, <2>1, BasysReceiveType, NoFrameFacts DEF EndTransfer, TypeOK, uartVars, pcVars
<1>3. CASE CollidingArrivals
  <2>1. group_state' \in GroupStates
    BY <1>3, PcAckCases DEF CollidingArrivals, TypeOK, GroupStates
  <2>2. Tail(fromPc) \in Seq(Frames(FromPcTypes)) /\ Len(Tail(fromPc)) <= UartCap
    BY <1>3, TailType DEF CollidingArrivals, TypeOK
  <2> QED
    BY <1>3, <2>1, <2>2, BasysReceiveType, NoFrameFacts
       DEF CollidingArrivals, TypeOK, pcVars
<1>4. CASE InstallBasysKey
  BY <1>4 DEF InstallBasysKey, TypeOK, zyboVars, uartVars, pcVars, spiVars
<1>5. CASE LoadStatus
  <2>1. bs_tx' \in Frames(MisoTypes) /\ bs_tx_type' \in MisoTypes
    BY <1>5, FrameType DEF LoadStatus, TypeOK, MisoTypes
  <2> QED
    BY <1>5, <2>1 DEF LoadStatus, TypeOK, zyboVars, uartVars, pcVars, spiVars
<1> QED
  BY <1>1, <1>2, <1>3, <1>4, <1>5 DEF BasysNext

LEMMA PcType ==
  ASSUME TypeOK, PcNext \/ LoseToPc \/ LoseFromPc
  PROVE  TypeOK'
<1>1. ASSUME NEW type, PcReceives(type)
      PROVE  /\ toPc' \in Seq(Frames(ToPcTypes)) /\ Len(toPc') <= UartCap
             /\ Head(toPc).r \in Keys
  BY <1>1, TailType DEF PcReceives, TypeOK
<1>2. ASSUME NEW type \in PcAcks, Head(toPc).r \in Keys, Answer(type)
      PROVE  fromPc' \in Seq(Frames(FromPcTypes)) /\ Len(fromPc') <= UartCap
  BY <1>2, AppendType DEF Answer, TypeOK, FromPcTypes
<1>3. CASE HandleUpdate
  BY <1>3, <1>1, <1>2 DEF HandleUpdate, TypeOK, PcAcks, pcVars, zyboVars, spiVars, basysVars
<1>4. CASE HandleCommit
  BY <1>4, <1>1, <1>2 DEF HandleCommit, TypeOK, PcAcks, pcVars, zyboVars, spiVars, basysVars
<1>5. CASE HandleConfirm
  BY <1>5, <1>1, <1>2 DEF HandleConfirm, TypeOK, PcAcks, pcVars, zyboVars, spiVars, basysVars
<1>5b. CASE InstallCodecs \/ BecomeReady
  BY <1>5b DEF InstallCodecs, BecomeReady, TypeOK, zyboVars, uartVars, spiVars, basysVars
<1>6. CASE HandleOther
  BY <1>6, <1>1 DEF HandleOther, TypeOK, pcVars, zyboVars, spiVars, basysVars
<1>7. CASE CheckSessionReady
  BY <1>7 DEF CheckSessionReady, TypeOK, pcVars, zyboVars, uartVars, spiVars, basysVars
<1>8. CASE SendCommand
  <2>1. Len(fromPc) < UartCap
    BY <1>8, UartCapAssumption DEF SendCommand, TypeOK
  <2>2. fromPc' \in Seq(Frames(FromPcTypes)) /\ Len(fromPc') <= UartCap
    BY <1>8, <2>1, AppendType DEF SendCommand, TypeOK, FromPcTypes
  <2> QED
    BY <1>8, <2>2 DEF SendCommand, TypeOK, pcVars, zyboVars, spiVars, basysVars
<1>9. CASE LoseToPc
  BY <1>9, TailType DEF LoseToPc, TypeOK, pcVars, zyboVars, spiVars, basysVars
<1>10. CASE LoseFromPc
  BY <1>10, TailType DEF LoseFromPc, TypeOK, pcVars, zyboVars, spiVars, basysVars
<1> QED
  BY <1>3, <1>4, <1>5, <1>5b, <1>6, <1>7, <1>8, <1>9, <1>10 DEF PcNext

LEMMA TypeStutter ==
  ASSUME TypeOK, UNCHANGED vars
  PROVE  TypeOK'
BY DEF TypeOK, vars, zyboVars, pcVars, uartVars, spiVars, basysVars

LEMMA TypeInit == Init => TypeOK
<1> SUFFICES ASSUME Init PROVE TypeOK
  OBVIOUS
<1>1. /\ toPc \in Seq(Frames(ToPcTypes)) /\ Len(toPc) <= UartCap
      /\ fromPc \in Seq(Frames(FromPcTypes)) /\ Len(fromPc) <= UartCap
  <2>1. << >> \in Seq(Frames(ToPcTypes)) /\ << >> \in Seq(Frames(FromPcTypes)) /\ Len(<< >>) = 0
    OBVIOUS
  <2> QED
    BY <2>1, UartCapAssumption DEF Init
<1>2. group_state \in GroupStates /\ NoRandom \in Keys
  BY DEF Init, GroupStates, Keys
<1>3. /\ spi_pending \in Frames(MosiTypes) /\ spi_mosi \in Frames(MosiTypes)
      /\ spi_miso \in Frames(MisoTypes) /\ bs_tx \in Frames(MisoTypes)
      /\ bs_tx_type \in MisoTypes /\ bs_inflight \in MisoTypes
  BY NoFrameFacts DEF Init, MisoTypes
<1> QED
  BY <1>1, <1>2, <1>3 DEF Init, TypeOK

LEMMA TypeStep == TypeOK /\ [Next]_vars => TypeOK'
BY ZyboType, BasysType, PcType, TypeStutter DEF Next

\* Every state register, codec, channel and transmit buffer of the three
\* parties keeps to its range, whatever is lost, repeated or in flight.
THEOREM TypeCorrect == Spec => []TypeOK
<1>1. Init => TypeOK
  BY TypeInit
<1>2. TypeOK /\ [Next]_vars => TypeOK'
  BY TypeStep
<1> QED
  BY <1>1, <1>2, PTL DEF Spec

-----------------------------------------------------------------------------
(* The ZYBO's own part of the invariant.                                     *)

LEMMA ZyboInvStep ==
  ASSUME TypeOK, ZyboInv, [Next]_vars
  PROVE  ZyboInv'
<1> USE DEF AskingPc, AskingBasys, CommitPc, CommitBasys, Switching, ConfirmPc, ConfirmBasys
<1>1. ASSUME NEW from \in {"G_BOOT", "G_RUN"}, BeginEpoch(from)
      PROVE  ZyboInv'
  BY <1>1, RandomsAssumption DEF BeginEpoch, ZyboInv, TypeOK, Keys
<1>2. CASE SendPcUpdate \/ SendPcCommit \/ SendPcConfirm
  BY <1>2 DEF SendPcUpdate, SendPcCommit, SendPcConfirm, SendPc, ZyboInv
<1>3. CASE SendBasysUpdate \/ SendBasysCommit \/ SendBasysConfirm
            \/ PollOldReady \/ PollOldCommit \/ PollNew
  BY <1>3 DEF SendBasysUpdate, SendBasysCommit, SendBasysConfirm,
     PollOldReady, PollOldCommit, PollNew, SendBasys, ZyboInv
<1>4. CASE RetryPcUpdate \/ RetryPcCommit \/ RetryPcConfirm
            \/ RetryPollReady \/ RetryPollCommit \/ RetryPollConfirm
  BY <1>4 DEF RetryPcUpdate, RetryPcCommit, RetryPcConfirm, RetryPc,
     RetryPollReady, RetryPollCommit, RetryPollConfirm, Retry, ZyboInv
<1>5. CASE SwitchLocal \/ LocalKeyDone
  BY <1>5 DEF SwitchLocal, LocalKeyDone, ZyboInv
<1>6. CASE SendRackCommand \/ SendReport \/ ReceivePcCommand
  BY <1>6 DEF SendRackCommand, SendReport, ReceivePcCommand, zyboVars, ZyboInv
<1>7. CASE ReceivePcAck \/ CollidingArrivals
  <2>1. /\ group_state' = AfterPcAck(Head(fromPc))
        /\ UNCHANGED <<pending_random, current_random, active_key>>
    BY <1>7 DEF ReceivePcAck, CollidingArrivals
  <2> QED
    BY <2>1, PcAckCases DEF ZyboInv
<1>8. CASE EndTransfer
  <2>1. /\ group_state' = AfterBasysAck(spi_miso.type)
        /\ current_random' = IF group_state # "G_RUN" /\ group_state' = "G_RUN"
                             THEN pending_random ELSE current_random
        /\ UNCHANGED <<pending_random, active_key>>
    BY <1>8 DEF EndTransfer
  <2> QED
    BY <2>1, BasysAckCases DEF ZyboInv
<1>9. CASE UNCHANGED zyboVars
  BY <1>9 DEF zyboVars, ZyboInv
<1>10. StartTransfer \/ InstallBasysKey \/ LoadStatus \/ PcNext \/ LoseToPc \/ LoseFromPc
       \/ UNCHANGED vars => UNCHANGED zyboVars
  BY DEF StartTransfer, InstallBasysKey, LoadStatus, PcNext, HandleUpdate, HandleCommit,
     InstallCodecs, HandleConfirm, BecomeReady, HandleOther, CheckSessionReady, SendCommand,
     LoseToPc, LoseFromPc, vars
<1> QED
  BY <1>1, <1>2, <1>3, <1>4, <1>5, <1>6, <1>7, <1>8, <1>9, <1>10
     DEF Next, ZyboNext, BasysNext, Boot, ExpireSession

-----------------------------------------------------------------------------
(* The PC's mode: what its handlers have answered counts as done.            *)

LEMMA ModesType ==
  ASSUME TypeOK
  PROVE  /\ HasConfirmed \in BOOLEAN /\ HasCommitted \in BOOLEAN
         /\ ConfirmedR \in Keys /\ KeyInUse \in Keys
BY DEF TypeOK, HasConfirmed, HasCommitted, ConfirmedR, KeyInUse

LEMMA ModesStutter ==
  ASSUME UNCHANGED pcVars
  PROVE  UNCHANGED pcModes
BY DEF pcVars, pcModes, HasConfirmed, HasCommitted, ConfirmedR, KeyInUse

\* The assignments after an answer change nothing that counts.
LEMMA ModesAssign ==
  ASSUME TypeOK, InstallCodecs \/ BecomeReady
  PROVE  UNCHANGED pcModes
<1>1. CASE InstallCodecs
  BY <1>1 DEF InstallCodecs, TypeOK, pcModes, HasConfirmed, HasCommitted, ConfirmedR, KeyInUse
<1>2. CASE BecomeReady
  BY <1>2 DEF BecomeReady, TypeOK, pcModes, HasConfirmed, HasCommitted, ConfirmedR, KeyInUse
<1> QED
  BY <1>1, <1>2

LEMMA ModesUpdate ==
  ASSUME TypeOK, HandleUpdate
  PROVE  IF HasConfirmed /\ Head(toPc).r = ConfirmedR
         THEN UNCHANGED pcModes
         ELSE /\ HasConfirmed' = FALSE /\ HasCommitted' = FALSE /\ pc_pending' = Head(toPc).r
              /\ UNCHANGED <<ConfirmedR, KeyInUse>>
<1>1. pc_handler = "idle" /\ HasConfirmed = pc_ready /\ ConfirmedR = pc_current
  BY DEF HandleUpdate, PcReceives, TypeOK, HasConfirmed, ConfirmedR
<1>2. CASE pc_ready /\ Head(toPc).r = pc_current
  BY <1>1, <1>2, ModesStutter DEF HandleUpdate
<1>3. CASE ~(pc_ready /\ Head(toPc).r = pc_current)
  BY <1>1, <1>3 DEF HandleUpdate, HasConfirmed, HasCommitted, ConfirmedR, KeyInUse
<1> QED
  BY <1>1, <1>2, <1>3

LEMMA ModesCommit ==
  ASSUME TypeOK, HandleCommit
  PROVE  /\ UNCHANGED <<HasConfirmed, ConfirmedR, pc_pending>>
         /\ HasCommitted' = TRUE
         /\ KeyInUse' = IF HasCommitted THEN KeyInUse ELSE pc_pending
<1>1. pc_handler = "idle"
  BY DEF HandleCommit, PcReceives
<1> QED
  BY <1>1 DEF HandleCommit, TypeOK, HasConfirmed, HasCommitted, ConfirmedR, KeyInUse

LEMMA ModesConfirm ==
  ASSUME TypeOK, HandleConfirm
  PROVE  /\ UNCHANGED <<pc_pending, HasCommitted, KeyInUse>>
         /\ HasConfirmed' = TRUE /\ ConfirmedR' = pc_pending
<1>1. pc_handler = "idle"
  BY DEF HandleConfirm, PcReceives
<1> QED
  BY <1>1 DEF HandleConfirm, TypeOK, HasConfirmed, HasCommitted, ConfirmedR, KeyInUse

\* A command is sealed under the key in use.
LEMMA ModesSend ==
  ASSUME SendCommand
  PROVE  KeyInUse = pc_key /\ UNCHANGED pcModes
BY ModesStutter DEF SendCommand, KeyInUse

-----------------------------------------------------------------------------
(* The PC's part of the invariant.                                           *)

\* What PcInv speaks of.
pcView == <<group_state, pending_random, active_key, pcModes, pc_sender, uartVars>>

LEMMA PcInvStutter ==
  ASSUME PcInv, UNCHANGED pcView
  PROVE  PcInv'
BY DEF PcInv, pcView, pcModes, uartVars, PcBoot, PcAsked, PcAnswered, PcPrepared, PcCommitting,
   PcCommitted, PcConfirmed, OldPc, NewPc, Elems, Ordered, ThisEpoch, NewToPc, NewAcks,
   NoOldAck, NoOldCmd, CommitAck, ConfirmAck, Updates, Commits

\* The UPDATEs and the COMMITs among the frames of this epoch.
LEMMA RequestKinds ==
  ASSUME NEW f \in Frames(ToPcTypes)
  PROVE  /\ f \in Updates <=> f.type = "PC_KEY_UPDATE" /\ f.r = pending_random
         /\ f \in Commits <=> f.type = "PC_KEY_COMMIT" /\ f.r = pending_random
<1>1. /\ f \in Frames({"PC_KEY_UPDATE"}) <=> f.type = "PC_KEY_UPDATE"
      /\ f \in Frames({"PC_KEY_COMMIT"}) <=> f.type = "PC_KEY_COMMIT"
  BY DEF Frames
<1> QED
  BY <1>1 DEF Updates, Commits, ThisEpoch

\* A new epoch begins: what was this epoch's is now the last one's.
LEMMA PcInvBegin ==
  ASSUME TypeOK, ZyboInv, PcInv, Boot \/ ExpireSession
  PROVE  PcInv'
<1> USE DEF AskingPc, AskingBasys, CommitPc, CommitBasys, Switching, ConfirmPc, ConfirmBasys
<1>1. /\ group_state' = "G_SEND_PC_UPDATE" /\ group_state \in {"G_BOOT", "G_RUN"}
      /\ pending_random' \in Randoms \ {pending_random}
      /\ UNCHANGED <<active_key, toPc, fromPc, HasConfirmed, ConfirmedR, pc_pending, KeyInUse>>
  BY ModesStutter DEF Boot, ExpireSession, BeginEpoch, pcModes, uartVars
<1>2. active_key = pending_random /\ pending_random' # active_key /\ NoRandom \notin Randoms
  BY <1>1, RandomsAssumption DEF ZyboInv
<1>3. /\ KeyInUse = active_key /\ OldPc
      /\ \A f \in Elems(toPc) : f.r = active_key /\ f.r # NoRandom
      /\ \A f \in Elems(fromPc) : f.r = active_key
  <2>1. CASE group_state = "G_BOOT"
    BY <2>1, <1>2, ElemsEmpty DEF PcInv, PcBoot, OldPc, ZyboInv
  <2>2. CASE group_state = "G_RUN"
    <3>1. pending_random \in Randoms
      BY <2>2 DEF ZyboInv
    <3> QED
      BY <2>2, <3>1, <1>2 DEF PcInv, PcAnswered, PcCommitted, PcConfirmed, OldPc,
         ThisEpoch, NewToPc
  <2> QED
    BY <1>1, <2>1, <2>2
<1>4. OldPc' /\ (Elems(toPc) \cap NewToPc' = {}) /\ (Elems(fromPc) \cap NewAcks' = {})
  BY <1>1, <1>2, <1>3 DEF OldPc, NewToPc, NewAcks, ThisEpoch
<1>5. Ordered(toPc, NewToPc', NewToPc') /\ Ordered(fromPc, NewAcks', NoOldAck')
  BY <1>4 DEF Ordered, Elems
<1>6. PcAsked'
  BY <1>1, <1>2, <1>3, <1>4, <1>5 DEF PcAsked
<1> QED
  BY <1>1, <1>6 DEF PcInv, PcBoot, PcAnswered, PcPrepared, PcCommitting, PcCommitted, PcConfirmed

\* The coordinator moves on while the UART and the PC stay as they are.
LEMMA PcInvMove ==
  ASSUME TypeOK, ZyboInv, PcInv,
         UNCHANGED <<pending_random, pcModes, pc_sender, uartVars>>,
         \/ UNCHANGED <<group_state, active_key>>
         \/ UNCHANGED active_key /\ \E stage \in {AskingPc, AskingBasys, CommitPc, CommitBasys,
              Switching, ConfirmPc, ConfirmBasys} : group_state \in stage /\ group_state' \in stage
         \/ UNCHANGED active_key /\ group_state \in AskingBasys /\ group_state' \in CommitPc
         \/ UNCHANGED active_key /\ group_state \in CommitBasys /\ group_state' \in Switching
         \/ group_state \in Switching /\ group_state' \in ConfirmPc
         \/ UNCHANGED active_key /\ group_state \in ConfirmBasys /\ group_state' = "G_RUN"
  PROVE  PcInv'
<1> USE DEF AskingPc, AskingBasys, CommitPc, CommitBasys, Switching, ConfirmPc, ConfirmBasys
<1>1. CASE UNCHANGED <<group_state, active_key>>
  BY <1>1, PcInvStutter DEF pcView
<1> USE DEF PcInv, PcBoot, PcAsked, PcAnswered, PcPrepared, PcCommitting, PcCommitted, PcConfirmed,
            OldPc, NewPc, NewToPc, NewAcks, NoOldAck, NoOldCmd, ThisEpoch, CommitAck, ConfirmAck,
            Updates, Commits, pcModes, uartVars
<1>2. CASE UNCHANGED active_key /\ \E stage \in {AskingPc, AskingBasys, CommitPc, CommitBasys,
              Switching, ConfirmPc, ConfirmBasys} : group_state \in stage /\ group_state' \in stage
  BY <1>2
<1>3. CASE UNCHANGED active_key /\ group_state \in AskingBasys /\ group_state' \in CommitPc
  <2>1. active_key # pending_random
    BY <1>3 DEF ZyboInv
  <2>2. CommitAck \notin Elems(fromPc)
    BY <2>1, <1>3, FrameType DEF PcAcks, Frame
  <2>3. Ordered(fromPc, {CommitAck}, NoOldCmd)
    BY <2>2 DEF Ordered, Elems
  <2>4. /\ KeyInUse = active_key /\ NewPc /\ pc_pending = pending_random
        /\ Elems(toPc) \subseteq Updates /\ Elems(fromPc) \subseteq NoOldAck
        /\ ConfirmAck \notin Elems(fromPc)
    <3>1. \A f \in Elems(toPc) : f \in Frames(ToPcTypes) /\ f.type = "PC_KEY_UPDATE" /\ f.r = pending_random
      BY <1>3
    <3>2. Elems(toPc) \subseteq Updates
      BY <3>1, RequestKinds
    <3> QED
      BY <1>3, <3>2
  <2>5. Ordered(toPc, Commits, Commits)
    <3>1. \A f \in Elems(toPc) : f \in Frames(ToPcTypes) /\ f.type = "PC_KEY_UPDATE"
      BY <1>3
    <3>2. Elems(toPc) \cap Commits = {}
      BY <3>1, RequestKinds
    <3> HIDE DEF Commits
    <3> QED
      BY <3>2 DEF Ordered, Elems
  <2>6. PcCommitting'
    BY <2>2, <2>3, <2>4, <2>5, <1>3
  <2> QED
    BY <2>4, <2>6, <1>3
<1>4. CASE UNCHANGED active_key /\ group_state \in CommitBasys /\ group_state' \in Switching
  BY <1>4
<1>5. CASE group_state \in Switching /\ group_state' \in ConfirmPc
  BY <1>5
<1>6. CASE UNCHANGED active_key /\ group_state \in ConfirmBasys /\ group_state' = "G_RUN"
  BY <1>6
<1> QED
  BY <1>1, <1>2, <1>3, <1>4, <1>5, <1>6

\* The coordinator sends the PC a request of this epoch, or in G_RUN a report.
LEMMA PcInvSend ==
  ASSUME TypeOK, ZyboInv, PcInv,
         SendPcUpdate \/ SendPcCommit \/ SendPcConfirm \/ SendReport
  PROVE  PcInv'
<1> USE DEF AskingPc, AskingBasys, CommitPc, CommitBasys, Switching, ConfirmPc, ConfirmBasys
<1> DEFINE e(type) == Frame(type, pending_random)
<1>1. PICK type \in ToPcTypes :
        /\ \/ /\ group_state = "G_SEND_PC_UPDATE" /\ type = "PC_KEY_UPDATE"
              /\ group_state' = "G_WAIT_PC_READY"
           \/ /\ group_state = "G_SEND_PC_COMMIT" /\ type = "PC_KEY_COMMIT"
              /\ group_state' = "G_WAIT_PC_COMMIT_ACK"
           \/ /\ group_state = "G_SEND_PC_CONFIRM" /\ type = "PC_KEY_CONFIRM"
              /\ group_state' = "G_WAIT_PC_CONFIRM_ACK"
           \/ group_state = "G_RUN" /\ type = "ZYBO_TO_PC" /\ group_state' = "G_RUN"
        /\ toPc' = Append(toPc, e(type))
        /\ UNCHANGED <<pending_random, active_key, fromPc, pcModes>>
  BY ModesStutter DEF SendPcUpdate, SendPcCommit, SendPcConfirm, SendReport, SendPc, ZyboInv, zyboVars,
     ToPcTypes, PcRequests
<1>2. /\ toPc \in Seq(Frames(ToPcTypes)) /\ pending_random \in Keys
      /\ pending_random \in Randoms /\ pending_random # NoRandom
  BY <1>1, RandomsAssumption DEF TypeOK, ZyboInv
<1>3. e(type) \in Frames(ToPcTypes) /\ e(type).type = type /\ e(type).r = pending_random
  BY <1>1, <1>2, FrameType
<1>4. Elems(toPc') = Elems(toPc) \cup {e(type)}
  BY <1>1, <1>2, <1>3, ElemsAppend
<1>5. e(type) \in NewToPc
  BY <1>3 DEF NewToPc, ThisEpoch
<1>6. ASSUME Ordered(toPc, NewToPc, NewToPc)
      PROVE  Ordered(toPc', NewToPc, NewToPc)
  BY <1>1, <1>2, <1>3, <1>5, <1>6, OrderedAppend
<1>7. /\ e(type) \in Updates <=> type = "PC_KEY_UPDATE"
      /\ e(type) \in Commits <=> type = "PC_KEY_COMMIT"
  BY <1>3, RequestKinds
<1>8. UNCHANGED <<Updates, Commits, NewToPc, NewAcks, NoOldAck, NoOldCmd, CommitAck, ConfirmAck>>
  BY <1>1 DEF Updates, Commits, NewToPc, NewAcks, NoOldAck, NoOldCmd, ThisEpoch, CommitAck, ConfirmAck
<1>9. ASSUME Ordered(toPc, Commits, Commits), type = "PC_KEY_COMMIT"
      PROVE  Ordered(toPc', Commits, Commits)
  BY <1>1, <1>2, <1>3, <1>7, <1>9, OrderedAppend
<1>10. PcCommitting'
  BY <1>1, <1>4, <1>7, <1>8, <1>9 DEF PcInv, PcCommitting, pcModes
<1> HIDE DEF e
<1> QED
  BY <1>1, <1>2, <1>3, <1>4, <1>5, <1>6, <1>7, <1>8, <1>10
     DEF PcInv, PcBoot, PcAsked, PcAnswered, PcPrepared, PcCommitted, PcConfirmed,
         OldPc, NewPc, ThisEpoch, pcModes, PcRequests

\* Fewer frames on either line break nothing.
LEMMA PcInvLess ==
  ASSUME TypeOK, ZyboInv, PcInv,
         UNCHANGED <<group_state, pending_random, active_key, pcModes, pc_sender>>,
         \/ toPc # << >> /\ toPc' = Tail(toPc) /\ fromPc' = fromPc
         \/ fromPc # << >> /\ fromPc' = Tail(fromPc) /\ toPc' = toPc
  PROVE  PcInv'
<1>1. /\ Elems(toPc') \subseteq Elems(toPc)
      /\ \A A, B : Ordered(toPc, A, B) => Ordered(toPc', A, B)
  <2>1. CASE toPc # << >> /\ toPc' = Tail(toPc)
    BY <2>1, ElemsTail, OrderedTail DEF TypeOK
  <2> QED
    BY <2>1
<1>2. /\ Elems(fromPc') \subseteq Elems(fromPc)
      /\ \A A, B : Ordered(fromPc, A, B) => Ordered(fromPc', A, B)
  <2>1. CASE fromPc # << >> /\ fromPc' = Tail(fromPc)
    BY <2>1, ElemsTail, OrderedTail DEF TypeOK
  <2> QED
    BY <2>1
<1>3. CASE group_state = "G_BOOT"
  BY <1>3 DEF PcInv, PcBoot
<1>4. CASE group_state # "G_BOOT"
  <2>1. PcBoot' /\ PcConfirmed'
    BY <1>4 DEF PcInv, PcBoot, PcConfirmed, ConfirmBasys, pcModes
  <2>2. PcAsked'
    BY <1>1, <1>2 DEF PcInv, PcAsked, OldPc, NewPc, NewToPc, NewAcks, NoOldAck, ThisEpoch, pcModes,
       AskingPc
  <2>3. PcAnswered' /\ PcPrepared' /\ PcCommitted'
    BY <1>1, <1>2 DEF PcInv, PcAnswered, PcPrepared, PcCommitted, NewPc, NewToPc, NoOldAck,
       ThisEpoch, ConfirmAck, Updates, pcModes
  <2>4. PcCommitting'
    BY <1>1, <1>2 DEF PcInv, PcCommitting, CommitAck, NoOldCmd, Updates, Commits, ThisEpoch, pcModes
  <2> QED
    BY <2>1, <2>2, <2>3, <2>4 DEF PcInv
<1> QED
  BY <1>3, <1>4

\* An acknowledgement of the PC reaches the coordinator.
LEMMA PcInvAck ==
  ASSUME TypeOK, ZyboInv, PcInv, fromPc # << >>,
         group_state' = AfterPcAck(Head(fromPc)), fromPc' = Tail(fromPc),
         UNCHANGED <<pending_random, active_key, toPc, pcModes, pc_sender>>
  PROVE  PcInv'
<1> USE DEF AskingPc, AskingBasys, CommitPc, CommitBasys, Switching, ConfirmPc, ConfirmBasys
<1>1. CASE group_state' = group_state
  BY <1>1, PcInvLess
<1>2. /\ fromPc \in Seq(Frames(FromPcTypes)) /\ pending_random \in Keys
      /\ Elems(fromPc) = Elems(fromPc') \cup {Head(fromPc)}
      /\ \A A, B : Ordered(fromPc, A, B) /\ Head(fromPc) \in A => Elems(fromPc') \subseteq B
  BY ElemsTail, OrderedTail DEF TypeOK
<1>3. Elems(fromPc') \subseteq Frames(FromPcTypes)
  <2>1. fromPc' \in Seq(Frames(FromPcTypes))
    BY <1>2, ElemsTail
  <2> QED
    BY <2>1 DEF Elems
<1>4. CASE /\ Head(fromPc) = Frame("PC_READY", pending_random)
           /\ group_state = "G_WAIT_PC_READY" /\ group_state' = "G_SEND_BASYS_UPDATE"
  <2>1. Head(fromPc) \in NewAcks
    <3>1. "PC_READY" \in PcAcks
      BY DEF PcAcks
    <3> QED
      BY <3>1, <1>2, <1>4, FrameType DEF NewAcks, ThisEpoch
  <2>2. NewPc /\ Elems(toPc) \subseteq NewToPc
    BY <2>1, <1>2, <1>4 DEF PcInv, PcAsked
  <2>3. Elems(fromPc') \subseteq NoOldAck
    BY <2>1, <1>2, <1>4 DEF PcInv, PcAsked
  <2>4. active_key # pending_random
    BY <1>4 DEF ZyboInv
  <2>5. ConfirmAck \notin Elems(fromPc')
    <3>1. ConfirmAck.type = "PC_CONFIRM_ACK" /\ ConfirmAck.r = pending_random
      BY DEF ConfirmAck, Frame
    <3> QED
      BY <3>1, <1>2, <1>4 DEF PcInv, PcAsked
  <2>6. UNCHANGED <<HasConfirmed, ConfirmedR, pc_pending, HasCommitted, KeyInUse>>
    BY DEF pcModes
  <2> QED
    BY <2>2, <2>3, <2>4, <2>5, <2>6, <1>2, <1>4
       DEF PcInv, PcBoot, PcAsked, PcAnswered, PcPrepared, PcCommitting, PcCommitted, PcConfirmed,
           NewPc, NewToPc, NoOldAck, ThisEpoch, ConfirmAck, pcModes
<1>5. CASE /\ Head(fromPc) = CommitAck
           /\ group_state = "G_WAIT_PC_COMMIT_ACK" /\ group_state' = "G_SEND_BASYS_COMMIT"
  <2>1. KeyInUse = pending_random /\ HasCommitted /\ Elems(toPc) \subseteq Commits
    BY <1>2, <1>5 DEF PcInv, PcCommitting
  <2>1b. \A f \in Elems(toPc) : f.type = "PC_KEY_COMMIT" /\ f \notin Updates
    BY <2>1 DEF Updates, Commits, ThisEpoch, Frames
  <2>1c. Elems(toPc) \cap Updates' = {}
    BY <2>1b DEF Updates, ThisEpoch
  <2>2. Elems(fromPc') \subseteq NoOldCmd \cap NoOldAck
    BY <1>2, <1>5 DEF PcInv, PcCommitting, PcAnswered
  <2>3. Elems(fromPc') \subseteq ThisEpoch(FromPcTypes)
    <3> SUFFICES ASSUME NEW f \in Elems(fromPc')
                 PROVE  f \in ThisEpoch(FromPcTypes)
      OBVIOUS
    <3>1. f \in Frames(FromPcTypes) /\ f \in NoOldCmd /\ f \in NoOldAck
      BY <2>2, <1>3
    <3>2. f.type \in PcAcks \/ f.type = "PC_TO_ZYBO"
      BY <3>1, FrameFields DEF FromPcTypes
    <3> QED
      BY <3>1, <3>2 DEF NoOldCmd, NoOldAck, ThisEpoch
  <2> QED
    BY <2>1, <2>1b, <2>1c, <2>2, <2>3, <1>2, <1>5
       DEF PcRequests, PcInv, PcBoot, PcAsked, PcAnswered, PcPrepared, PcCommitting, PcCommitted, PcConfirmed,
           NewToPc, NoOldAck, ThisEpoch, ConfirmAck, pcModes
<1>6. CASE /\ Head(fromPc) = ConfirmAck
           /\ group_state = "G_WAIT_PC_CONFIRM_ACK" /\ group_state' = "G_SEND_BASYS_CONFIRM"
  <2>1. HasConfirmed
    BY <1>2, <1>6 DEF PcInv, PcAnswered
  <2> QED
    BY <2>1, <1>2, <1>6
       DEF PcInv, PcBoot, PcAsked, PcAnswered, PcPrepared, PcCommitting, PcCommitted, PcConfirmed,
           Updates, NewToPc, NoOldAck, ThisEpoch, ConfirmAck, pcModes
<1> QED
  BY <1>1, <1>4, <1>5, <1>6, PcAckCases DEF CommitAck, ConfirmAck

\* What a request in the PC's receive buffer can be, at every stage.
LEMMA PcInvHead ==
  ASSUME TypeOK, PcInv, toPc # << >>
  PROVE  /\ Head(toPc) \in Elems(toPc) /\ Head(toPc) \in Frames(ToPcTypes)
         /\ Elems(Tail(toPc)) \subseteq Elems(toPc)
         /\ \A A, B : Ordered(toPc, A, B) =>
              /\ Ordered(Tail(toPc), A, B)
              /\ Head(toPc) \in A => Elems(Tail(toPc)) \subseteq B
BY ElemsTail, OrderedTail DEF TypeOK

\* The PC handles a request and answers it.
LEMMA PcInvAnswer ==
  ASSUME TypeOK, PcInv, toPc # << >>, NEW type \in PcAcks, Answer(type)
  PROVE  /\ Elems(fromPc') = Elems(fromPc) \cup {Frame(type, Head(toPc).r)}
         /\ Frame(type, Head(toPc).r) \in NoOldCmd
         /\ Head(toPc).r = pending_random => Frame(type, Head(toPc).r) \in NoOldAck
         /\ \A A, B : /\ Ordered(fromPc, A, B)
                      /\ Frame(type, Head(toPc).r) \in B \/ Elems(fromPc) \cap A = {}
                      => Ordered(fromPc', A, B)
<1> DEFINE e == Frame(type, Head(toPc).r)
<1>1. Head(toPc).r \in Keys /\ type \in FromPcTypes
  BY PcInvHead, FrameFields DEF FromPcTypes
<1>2. e \in Frames(FromPcTypes) /\ e.type = type /\ e.r = Head(toPc).r
  BY <1>1, FrameType
<1>3. fromPc \in Seq(Frames(FromPcTypes)) /\ fromPc' = Append(fromPc, e)
  BY DEF Answer, TypeOK
<1>4. e \in NoOldCmd
  BY <1>2 DEF NoOldCmd, PcAcks
<1>5. Head(toPc).r = pending_random => e \in NoOldAck
  BY <1>2 DEF NoOldAck
<1> HIDE DEF e
<1>6. Elems(fromPc') = Elems(fromPc) \cup {e}
  BY <1>2, <1>3, ElemsAppend
<1>7. ASSUME NEW A, NEW B, Ordered(fromPc, A, B), e \in B \/ Elems(fromPc) \cap A = {}
      PROVE  Ordered(fromPc', A, B)
  BY <1>2, <1>3, <1>7, OrderedAppend
<1> QED
  BY <1>4, <1>5, <1>6, <1>7 DEF e

LEMMA PcInvUpdate ==
  ASSUME TypeOK, ZyboInv, PcInv, HandleUpdate
  PROVE  PcInv'
<1> USE DEF AskingPc, AskingBasys, CommitPc, CommitBasys, Switching, ConfirmPc, ConfirmBasys
<1> DEFINE f == Head(toPc)
           ack == Frame("PC_READY", f.r)
<1>1. /\ toPc # << >> /\ f.type = "PC_KEY_UPDATE" /\ toPc' = Tail(toPc)
      /\ UNCHANGED <<group_state, pending_random, active_key, ConfirmedR, KeyInUse, pc_sender>>
      /\ \/ HasConfirmed /\ f.r = ConfirmedR /\ UNCHANGED <<HasConfirmed, pc_pending, HasCommitted>>
         \/ /\ ~(HasConfirmed /\ f.r = ConfirmedR)
            /\ HasConfirmed' = FALSE /\ HasCommitted' = FALSE /\ pc_pending' = f.r
  BY ModesUpdate DEF HandleUpdate, PcReceives, pcModes, zyboVars
<1>2. "PC_READY" \in PcAcks /\ Answer("PC_READY")
  BY DEF HandleUpdate, PcAcks
<1>3. /\ Elems(fromPc') = Elems(fromPc) \cup {ack} /\ ack \in NoOldCmd
      /\ f.r = pending_random => ack \in NoOldAck
      /\ \A A, B : /\ Ordered(fromPc, A, B)
                   /\ ack \in B \/ Elems(fromPc) \cap A = {}
                   => Ordered(fromPc', A, B)
  BY <1>1, <1>2, PcInvAnswer
<1>4. /\ f \in Elems(toPc) /\ f \in Frames(ToPcTypes)
      /\ Elems(Tail(toPc)) \subseteq Elems(toPc)
      /\ \A A, B : Ordered(toPc, A, B) =>
           /\ Ordered(Tail(toPc), A, B)
           /\ f \in A => Elems(Tail(toPc)) \subseteq B
  BY <1>1, PcInvHead
<1>5. ack.type = "PC_READY" /\ ack.r = f.r
  BY DEF Frame
<1>6. ack # CommitAck /\ ack # ConfirmAck
  BY <1>5 DEF Frame, CommitAck, ConfirmAck
<1> HIDE DEF f, ack
<1>7. CASE group_state = "G_BOOT"
  BY <1>7, <1>1 DEF PcInv, PcBoot
<1>8. CASE group_state \in AskingPc
  <2>1. active_key # pending_random
    BY <1>8 DEF ZyboInv
  <2>2. CASE f.r = pending_random
    <3>1. f \in NewToPc /\ ack \in NoOldAck
      BY <1>3, <1>4, <2>2 DEF NewToPc, ThisEpoch
    <3>2. NewPc' /\ Elems(toPc') \subseteq NewToPc
      BY <1>1, <1>4, <1>8, <2>1, <2>2, <3>1 DEF PcInv, PcAsked, OldPc, NewPc
    <3>3. Ordered(toPc', NewToPc, NewToPc) /\ Ordered(fromPc', NewAcks, NoOldAck)
      BY <1>1, <1>3, <1>4, <1>8, <3>1 DEF PcInv, PcAsked
    <3>4. PcAsked'
      BY <1>1, <1>3, <1>4, <1>5, <1>8, <2>2, <3>2, <3>3
         DEF PcInv, PcAsked, NewToPc, NewAcks, NoOldAck, ThisEpoch
    <3> QED
      BY <3>4, <1>1, <1>8
         DEF PcInv, PcBoot, PcAnswered, PcPrepared, PcCommitting, PcCommitted, PcConfirmed
  <2>3. CASE f.r # pending_random
    <3>1. f \notin NewToPc
      BY <2>3 DEF NewToPc, ThisEpoch
    <3>2. /\ f.r = active_key /\ active_key # NoRandom
          /\ OldPc /\ Elems(fromPc) \cap NewAcks = {}
      BY <3>1, <2>3, <1>4, <1>8 DEF PcInv, PcAsked
    <3>3. OldPc' /\ HasConfirmed
      BY <3>2, <1>1 DEF OldPc
    <3>4. Elems(fromPc') \cap NewAcks = {}
      BY <3>2, <2>3, <1>3, <1>5 DEF NewAcks, ThisEpoch
    <3>5. Ordered(toPc', NewToPc, NewToPc) /\ Ordered(fromPc', NewAcks, NoOldAck)
      BY <1>1, <1>3, <1>4, <1>8, <3>2 DEF PcInv, PcAsked
    <3>6. PcAsked'
      BY <1>1, <1>3, <1>4, <1>5, <1>8, <2>3, <3>2, <3>3, <3>4, <3>5
         DEF PcInv, PcAsked, NewToPc, NewAcks, NoOldAck, ThisEpoch
    <3> QED
      BY <3>6, <1>1, <1>8
         DEF PcInv, PcBoot, PcAnswered, PcPrepared, PcCommitting, PcCommitted, PcConfirmed
  <2> QED
    BY <2>2, <2>3
<1>9. CASE group_state \notin AskingPc \cup {"G_BOOT"}
  <2>1. f.r = pending_random
    BY <1>4, <1>9 DEF PcInv, PcAnswered, NewToPc, ThisEpoch
  <2>2. PcAnswered'
    BY <1>1, <1>3, <1>4, <1>6, <1>9, <2>1
       DEF PcInv, PcAnswered, NewToPc, NoOldAck, ThisEpoch, ConfirmAck
  <2>3. PcPrepared'
    BY <1>1, <1>3, <1>4, <1>5, <1>9, <2>1 DEF PcInv, PcPrepared, NewPc
  <2>4a. UNCHANGED <<Updates, Commits, CommitAck, NoOldCmd, ThisEpoch(FromPcTypes)>>
    BY <1>1 DEF Updates, Commits, CommitAck, NoOldCmd, ThisEpoch
  <2>4b. f \in Updates /\ f \notin Commits
    BY <1>1, <1>4, <2>1, RequestKinds
  <2>4. PcCommitting'
    <3> SUFFICES ASSUME group_state \in CommitPc
                 PROVE  PcCommitting'
      BY <1>1 DEF PcCommitting
    <3>1. /\ ~HasCommitted /\ CommitAck \notin Elems(fromPc)
          /\ KeyInUse \in {active_key, pending_random}
          /\ Elems(toPc) \subseteq Updates \cup Commits
          /\ Ordered(toPc, Commits, Commits) /\ Ordered(fromPc, {CommitAck}, NoOldCmd)
      BY <2>4b, <1>4 DEF PcInv, PcCommitting
    <3>2. HasCommitted' => FALSE
      BY <1>1, <3>1
    <3>3. CommitAck \notin Elems(fromPc') /\ Ordered(fromPc', {CommitAck}, NoOldCmd)
      BY <1>3, <1>6, <3>1
    <3> QED
      BY <1>1, <1>4, <2>4a, <3>1, <3>2, <3>3 DEF PcCommitting
  <2>5. PcCommitted'
    BY <1>1, <1>4, <2>4b DEF PcInv, PcCommitted
  <2>6. PcConfirmed'
    BY <1>1, <1>9, <2>1 DEF PcInv, PcConfirmed, PcAnswered
  <2> QED
    BY <2>2, <2>3, <2>4, <2>5, <2>6, <1>1, <1>9 DEF PcInv, PcBoot, PcAsked
<1> QED
  BY <1>7, <1>8, <1>9

LEMMA PcInvCommit ==
  ASSUME TypeOK, ZyboInv, PcInv, HandleCommit
  PROVE  PcInv'
<1> USE DEF AskingPc, AskingBasys, CommitPc, CommitBasys, Switching, ConfirmPc, ConfirmBasys
<1> DEFINE f == Head(toPc)
           ack == Frame("PC_COMMIT_ACK", f.r)
<1>1. /\ toPc # << >> /\ f.type = "PC_KEY_COMMIT" /\ toPc' = Tail(toPc) /\ f.r = pc_pending
      /\ UNCHANGED <<group_state, pending_random, active_key, pc_sender>>
      /\ UNCHANGED <<HasConfirmed, ConfirmedR, pc_pending>>
      /\ HasCommitted' = TRUE
      /\ KeyInUse' = IF HasCommitted THEN KeyInUse ELSE pc_pending
  BY ModesCommit DEF HandleCommit, PcReceives, zyboVars
<1>2. "PC_COMMIT_ACK" \in PcAcks /\ Answer("PC_COMMIT_ACK")
  BY DEF HandleCommit, PcAcks
<1>3. /\ Elems(fromPc') = Elems(fromPc) \cup {ack} /\ ack \in NoOldCmd
      /\ f.r = pending_random => ack \in NoOldAck
      /\ \A A, B : /\ Ordered(fromPc, A, B)
                   /\ ack \in B \/ Elems(fromPc) \cap A = {}
                   => Ordered(fromPc', A, B)
  BY <1>1, <1>2, PcInvAnswer
<1>4. /\ f \in Elems(toPc) /\ f \in Frames(ToPcTypes)
      /\ Elems(Tail(toPc)) \subseteq Elems(toPc)
      /\ \A A, B : Ordered(toPc, A, B) =>
           /\ Ordered(Tail(toPc), A, B)
           /\ f \in A => Elems(Tail(toPc)) \subseteq B
  BY <1>1, PcInvHead
<1>5. ack.type = "PC_COMMIT_ACK" /\ ack.r = f.r
  BY DEF Frame
<1>6. ack # ConfirmAck
  BY <1>5 DEF Frame, ConfirmAck
<1> HIDE DEF f, ack
<1>7. CASE group_state = "G_BOOT"
  BY <1>7, <1>1 DEF PcInv, PcBoot
<1>8. CASE group_state \in AskingPc
  <2>1. active_key # pending_random
    BY <1>8 DEF ZyboInv
  <2>2. f.r = active_key /\ active_key # NoRandom /\ f \notin NewToPc
    BY <1>1, <1>4, <1>8, <2>1 DEF PcInv, PcAsked, NewToPc, ThisEpoch
  <2>3. OldPc /\ Elems(fromPc) \cap NewAcks = {}
    BY <2>2, <1>4, <1>8 DEF PcInv, PcAsked
  <2>4. OldPc' /\ KeyInUse' = active_key
    BY <2>2, <2>3, <1>1, <1>8 DEF OldPc, PcInv, PcAsked
  <2>5. Elems(fromPc') \cap NewAcks = {}
    BY <2>1, <2>2, <2>3, <1>3, <1>5 DEF NewAcks, ThisEpoch
  <2>6. Ordered(toPc', NewToPc, NewToPc) /\ Ordered(fromPc', NewAcks, NoOldAck)
    BY <1>1, <1>3, <1>4, <1>8, <2>3 DEF PcInv, PcAsked
  <2>7. PcAsked'
    BY <1>1, <1>3, <1>4, <1>5, <1>8, <2>1, <2>2, <2>3, <2>4, <2>5, <2>6
       DEF PcInv, PcAsked, NewToPc, NewAcks, NoOldAck, ThisEpoch
  <2> QED
    BY <2>7, <1>1, <1>8
       DEF PcInv, PcBoot, PcAnswered, PcPrepared, PcCommitting, PcCommitted, PcConfirmed
<1>9. CASE group_state \notin AskingPc \cup {"G_BOOT"}
  <2>1. f.r = pending_random /\ pc_pending = pending_random
    BY <1>4, <1>9 DEF PcInv, PcAnswered, NewToPc, ThisEpoch
  <2>2. PcAnswered'
    BY <1>1, <1>3, <1>4, <1>6, <1>9, <2>1
       DEF PcInv, PcAnswered, NewToPc, NoOldAck, ThisEpoch, ConfirmAck
  <2>3. PcPrepared'
    BY <1>1, <1>4, <1>9 DEF PcInv, PcPrepared
  <2>4a. UNCHANGED <<Updates, Commits, CommitAck, NoOldCmd, ThisEpoch(FromPcTypes)>>
    BY <1>1 DEF Updates, Commits, CommitAck, NoOldCmd, ThisEpoch
  <2>4b. f \in Commits
    BY <1>1, <1>4, <2>1, RequestKinds
  <2>4. PcCommitting'
    <3> SUFFICES ASSUME group_state \in CommitPc
                 PROVE  PcCommitting'
      BY <1>1 DEF PcCommitting
    <3>1. Elems(toPc') \subseteq Commits /\ Ordered(toPc', Commits, Commits)
      BY <1>1, <1>4, <2>4b DEF PcInv, PcCommitting
    <3>2. Ordered(fromPc', {CommitAck}, NoOldCmd)
      BY <1>3 DEF PcInv, PcCommitting
    <3>3. KeyInUse' = pending_random
      BY <1>1, <2>1 DEF PcInv, PcCommitting
    <3> QED
      BY <1>1, <2>4a, <3>1, <3>2, <3>3 DEF PcCommitting
  <2>5. PcCommitted'
    <3>1. ack \in ThisEpoch(FromPcTypes)
      <4>1. "PC_COMMIT_ACK" \in FromPcTypes /\ f.r \in Keys
        BY <1>4, FrameFields DEF FromPcTypes, PcAcks
      <4> QED
        BY <4>1, <2>1, FrameType DEF ThisEpoch, ack
    <3> QED
      BY <1>1, <1>3, <1>4, <1>9, <2>1, <2>4a, <3>1 DEF PcInv, PcCommitted
  <2>6. PcConfirmed'
    BY <1>1, <1>9, <2>1 DEF PcInv, PcConfirmed, PcAnswered
  <2> QED
    BY <2>2, <2>3, <2>4, <2>5, <2>6, <1>1, <1>9 DEF PcInv, PcBoot, PcAsked
<1> QED
  BY <1>7, <1>8, <1>9

LEMMA PcInvConfirm ==
  ASSUME TypeOK, ZyboInv, PcInv, HandleConfirm
  PROVE  PcInv'
<1> USE DEF AskingPc, AskingBasys, CommitPc, CommitBasys, Switching, ConfirmPc, ConfirmBasys
<1> DEFINE f == Head(toPc)
           ack == Frame("PC_CONFIRM_ACK", f.r)
<1>1. /\ toPc # << >> /\ f.type = "PC_KEY_CONFIRM" /\ toPc' = Tail(toPc) /\ f.r = pc_pending
      /\ UNCHANGED <<group_state, pending_random, active_key, pc_sender>>
      /\ UNCHANGED <<pc_pending, HasCommitted, KeyInUse>>
      /\ HasConfirmed' = TRUE /\ ConfirmedR' = pc_pending
  BY ModesConfirm DEF HandleConfirm, PcReceives, zyboVars
<1>2. "PC_CONFIRM_ACK" \in PcAcks /\ Answer("PC_CONFIRM_ACK")
  BY DEF HandleConfirm, PcAcks
<1>3. /\ Elems(fromPc') = Elems(fromPc) \cup {ack} /\ ack \in NoOldCmd
      /\ f.r = pending_random => ack \in NoOldAck
      /\ \A A, B : /\ Ordered(fromPc, A, B)
                   /\ ack \in B \/ Elems(fromPc) \cap A = {}
                   => Ordered(fromPc', A, B)
  BY <1>1, <1>2, PcInvAnswer
<1>4. /\ f \in Elems(toPc) /\ f \in Frames(ToPcTypes)
      /\ Elems(Tail(toPc)) \subseteq Elems(toPc)
      /\ \A A, B : Ordered(toPc, A, B) =>
           /\ Ordered(Tail(toPc), A, B)
           /\ f \in A => Elems(Tail(toPc)) \subseteq B
  BY <1>1, PcInvHead
<1>5. ack.type = "PC_CONFIRM_ACK" /\ ack.r = f.r
  BY DEF Frame
<1>6. ack # CommitAck
  BY <1>5 DEF Frame, CommitAck
<1> HIDE DEF f, ack
<1>7. CASE group_state = "G_BOOT"
  BY <1>7, <1>1 DEF PcInv, PcBoot
<1>8. CASE group_state \in AskingPc
  <2>1. active_key # pending_random
    BY <1>8 DEF ZyboInv
  <2>2. f.r = active_key /\ active_key # NoRandom /\ f \notin NewToPc
    BY <1>1, <1>4, <1>8, <2>1 DEF PcInv, PcAsked, NewToPc, ThisEpoch
  <2>3. OldPc /\ Elems(fromPc) \cap NewAcks = {}
    BY <2>2, <1>4, <1>8 DEF PcInv, PcAsked
  <2>4. OldPc' /\ KeyInUse' = active_key
    BY <2>2, <2>3, <1>1, <1>8 DEF OldPc, PcInv, PcAsked
  <2>5. Elems(fromPc') \cap NewAcks = {}
    BY <2>1, <2>2, <2>3, <1>3, <1>5 DEF NewAcks, ThisEpoch
  <2>6. Ordered(toPc', NewToPc, NewToPc) /\ Ordered(fromPc', NewAcks, NoOldAck)
    BY <1>1, <1>3, <1>4, <1>8, <2>3 DEF PcInv, PcAsked
  <2>7. PcAsked'
    BY <1>1, <1>3, <1>4, <1>5, <1>8, <2>1, <2>2, <2>3, <2>4, <2>5, <2>6
       DEF PcInv, PcAsked, NewToPc, NewAcks, NoOldAck, ThisEpoch
  <2> QED
    BY <2>7, <1>1, <1>8
       DEF PcInv, PcBoot, PcAnswered, PcPrepared, PcCommitting, PcCommitted, PcConfirmed
<1>9. CASE group_state \notin AskingPc \cup {"G_BOOT"}
  <2>1. f.r = pending_random /\ pc_pending = pending_random
    BY <1>4, <1>9 DEF PcInv, PcAnswered, NewToPc, ThisEpoch
  <2>2. PcAnswered'
    BY <1>1, <1>3, <1>4, <1>6, <1>9, <2>1
       DEF PcInv, PcAnswered, NewToPc, NoOldAck, ThisEpoch, ConfirmAck
  <2>3. PcPrepared'
    BY <1>1, <1>4, <1>9 DEF PcInv, PcPrepared
  <2>4a. UNCHANGED <<Updates, ThisEpoch(FromPcTypes)>>
    BY <1>1 DEF Updates, ThisEpoch
  <2>4. PcCommitting'
    <3>1. f \notin Updates \cup Commits
      BY <1>1, <1>4, RequestKinds
    <3> QED
      BY <1>1, <1>4, <3>1 DEF PcInv, PcCommitting
  <2>5. PcCommitted'
    <3>1. ack \in ThisEpoch(FromPcTypes)
      <4>1. "PC_CONFIRM_ACK" \in FromPcTypes /\ f.r \in Keys
        BY <1>4, FrameFields DEF FromPcTypes, PcAcks
      <4> QED
        BY <4>1, <2>1, FrameType DEF ThisEpoch, ack
    <3> QED
      BY <1>1, <1>3, <1>4, <1>9, <2>1, <2>4a, <3>1 DEF PcInv, PcCommitted
  <2>6. PcConfirmed'
    BY <1>1, <1>9, <2>1 DEF PcInv, PcConfirmed, PcAnswered
  <2> QED
    BY <2>2, <2>3, <2>4, <2>5, <2>6, <1>1, <1>9 DEF PcInv, PcBoot, PcAsked
<1> QED
  BY <1>7, <1>8, <1>9

\* A command is sealed under the PC's key and put on the line.
LEMMA PcInvCommand ==
  ASSUME TypeOK, ZyboInv, PcInv, SendCommand
  PROVE  PcInv'
<1> USE DEF AskingPc, AskingBasys, CommitPc, CommitBasys, Switching, ConfirmPc, ConfirmBasys
<1> DEFINE e == Frame("PC_TO_ZYBO", KeyInUse)
<1>1. /\ pc_sender = "checked" /\ fromPc' = Append(fromPc, e)
      /\ UNCHANGED <<group_state, pending_random, active_key, toPc, pcModes>>
  BY ModesSend DEF SendCommand, zyboVars
<1>2. /\ "PC_TO_ZYBO" \in FromPcTypes /\ "PC_TO_ZYBO" \notin PcAcks
      /\ KeyInUse \in Keys /\ fromPc \in Seq(Frames(FromPcTypes))
  BY ModesType DEF FromPcTypes, PcAcks, TypeOK
<1>3. e \in Frames(FromPcTypes) /\ e.type = "PC_TO_ZYBO" /\ e.r = KeyInUse
  BY <1>2, FrameType
<1>4. e # CommitAck /\ e # ConfirmAck
  BY <1>3 DEF Frame, CommitAck, ConfirmAck
<1> HIDE DEF e
<1>5. Elems(fromPc') = Elems(fromPc) \cup {e}
  BY <1>1, <1>2, <1>3, ElemsAppend
<1>6. ASSUME NEW A, NEW B, Ordered(fromPc, A, B), e \in B \/ Elems(fromPc) \cap A = {}
      PROVE  Ordered(fromPc', A, B)
  BY <1>1, <1>2, <1>3, <1>6, OrderedAppend
<1>7. e \in NoOldAck /\ e \notin NewAcks /\ (KeyInUse = pending_random => e \in NoOldCmd)
  BY <1>2, <1>3, FrameFields DEF NoOldAck, NewAcks, ThisEpoch, NoOldCmd
<1>8. group_state # "G_BOOT"
  BY <1>1 DEF PcInv, PcBoot
<1>9. PcAsked'
  <2> SUFFICES ASSUME group_state \in AskingPc
               PROVE  PcAsked'
    BY <1>1 DEF PcAsked
  <2>1. active_key # pending_random /\ KeyInUse = active_key
    BY DEF ZyboInv, PcInv, PcAsked
  <2>2. Ordered(fromPc', NewAcks, NoOldAck)
    BY <1>6, <1>7 DEF PcInv, PcAsked
  <2> QED
    BY <1>1, <1>3, <1>5, <1>7, <2>1, <2>2
       DEF PcInv, PcAsked, OldPc, NewPc, NewToPc, NewAcks, NoOldAck, ThisEpoch, pcModes
<1>10. PcAnswered'
  BY <1>1, <1>4, <1>5, <1>7 DEF PcInv, PcAnswered, NewToPc, NoOldAck, ThisEpoch, ConfirmAck, pcModes
<1>11. PcPrepared'
  BY <1>1, <1>3, <1>5 DEF PcInv, PcPrepared, NewPc, pcModes
<1>12. PcCommitting'
  <2> SUFFICES ASSUME group_state \in CommitPc
               PROVE  PcCommitting'
    BY <1>1 DEF PcCommitting
  <2>1. e \in NoOldCmd \/ Elems(fromPc) \cap {CommitAck} = {}
    BY <1>7 DEF PcInv, PcCommitting
  <2>2. Ordered(fromPc', {CommitAck}, NoOldCmd)
    BY <1>6, <2>1 DEF PcInv, PcCommitting
  <2> QED
    BY <1>1, <1>4, <1>5, <2>2 DEF PcInv, PcCommitting, CommitAck, NoOldCmd, Updates, Commits,
       ThisEpoch, pcModes
<1>13. PcCommitted'
  BY <1>1, <1>3, <1>5, FrameFields DEF PcInv, PcCommitted, ThisEpoch, Updates, pcModes
<1>14. PcConfirmed'
  BY <1>1 DEF PcInv, PcConfirmed, pcModes
<1> QED
  BY <1>1, <1>8, <1>9, <1>10, <1>11, <1>12, <1>13, <1>14 DEF PcInv, PcBoot

LEMMA PcInvStep ==
  ASSUME TypeOK, ZyboInv, PcInv, [Next]_vars
  PROVE  PcInv'
<1>1. CASE Boot \/ ExpireSession
  BY <1>1, PcInvBegin
<1>2. CASE SendPcUpdate \/ SendPcCommit \/ SendPcConfirm \/ SendReport
  BY <1>2, PcInvSend
<1>3. CASE \/ SendBasysUpdate \/ SendBasysCommit \/ SendBasysConfirm
           \/ PollOldReady \/ PollOldCommit \/ PollNew
           \/ RetryPcUpdate \/ RetryPcCommit \/ RetryPcConfirm
           \/ RetryPollReady \/ RetryPollCommit \/ RetryPollConfirm
           \/ SwitchLocal \/ LocalKeyDone
  <2>1. UNCHANGED <<pending_random, pcModes, pc_sender, uartVars>>
    BY <1>3, ModesStutter DEF SendBasysUpdate, SendBasysCommit, SendBasysConfirm, PollOldReady,
       PollOldCommit, PollNew, SendBasys, RetryPcUpdate, RetryPcCommit, RetryPcConfirm, RetryPc,
       RetryPollReady, RetryPollCommit, RetryPollConfirm, Retry, SwitchLocal, LocalKeyDone
  <2>2. \/ /\ UNCHANGED active_key
           /\ \E stage \in {AskingPc, AskingBasys, CommitPc, CommitBasys, Switching, ConfirmPc,
                ConfirmBasys} : group_state \in stage /\ group_state' \in stage
        \/ group_state \in Switching /\ group_state' \in ConfirmPc
    BY <1>3 DEF SendBasysUpdate, SendBasysCommit, SendBasysConfirm, PollOldReady, PollOldCommit,
       PollNew, SendBasys, RetryPcUpdate, RetryPcCommit, RetryPcConfirm, RetryPc, RetryPollReady,
       RetryPollCommit, RetryPollConfirm, Retry, SwitchLocal, LocalKeyDone,
       AskingPc, AskingBasys, CommitPc, CommitBasys, Switching, ConfirmPc, ConfirmBasys
  <2> QED
    BY <2>1, <2>2, PcInvMove
<1>4. CASE ReceivePcAck \/ CollidingArrivals
  BY <1>4, PcInvAck, ModesStutter DEF ReceivePcAck, CollidingArrivals
<1>5. CASE ReceivePcCommand \/ LoseFromPc \/ LoseToPc \/ HandleOther
  BY <1>5, PcInvLess, ModesStutter
     DEF ReceivePcCommand, LoseFromPc, LoseToPc, HandleOther, PcReceives, zyboVars
<1>6. CASE EndTransfer
  <2>1. /\ group_state' = AfterBasysAck(spi_miso.type)
        /\ UNCHANGED <<pending_random, active_key, pcModes, pc_sender, uartVars>>
    BY <1>6, ModesStutter DEF EndTransfer
  <2> QED
    BY <2>1, BasysAckCases, PcInvMove DEF AskingPc, AskingBasys, CommitPc, CommitBasys,
       Switching, ConfirmPc, ConfirmBasys
<1>7. CASE CheckSessionReady
  <2>1. /\ group_state # "G_BOOT"
        /\ UNCHANGED <<group_state, pending_random, active_key, pcModes, uartVars>>
    BY <1>7, ModesStutter DEF CheckSessionReady, PcInv, PcBoot, HasConfirmed, zyboVars
  <2> QED
    BY <2>1 DEF PcInv, PcBoot, PcAsked, PcAnswered, PcPrepared, PcCommitting, PcCommitted,
       PcConfirmed, OldPc, NewPc, Elems, Ordered, ThisEpoch, NewToPc, NewAcks, NoOldAck, NoOldCmd,
       CommitAck, ConfirmAck, Updates, Commits, pcModes, uartVars
<1>8. CASE StartTransfer \/ InstallBasysKey \/ LoadStatus \/ SendRackCommand \/ UNCHANGED vars
  <2>1. UNCHANGED pcView
    BY <1>8, ModesStutter DEF StartTransfer, InstallBasysKey, LoadStatus, SendRackCommand, vars,
       pcView, zyboVars
  <2> QED
    BY <2>1, PcInvStutter
<1>9. CASE InstallCodecs \/ BecomeReady
  <2>1. UNCHANGED pcView
    BY <1>9, ModesAssign DEF InstallCodecs, BecomeReady, pcView, zyboVars
  <2> QED
    BY <2>1, PcInvStutter
<1> QED
  BY <1>1, <1>2, <1>3, <1>4, <1>5, <1>6, <1>7, <1>8, <1>9,
     PcInvUpdate, PcInvCommit, PcInvConfirm, PcInvCommand
     DEF Next, ZyboNext, BasysNext, PcNext

\* COMMIT and CONFIRM are answered in this order, whatever is repeated.
LEMMA PcHandlingStep ==
  ASSUME TypeOK, ZyboInv, PcInv, PcHandling, [Next]_vars
  PROVE  PcHandling'
<1>1. CASE UNCHANGED pcVars
  BY <1>1, ModesStutter DEF pcVars, pcModes, PcHandling
<1>2. CASE InstallCodecs \/ BecomeReady
  <2>1. pc_handler' = "idle" /\ UNCHANGED pcModes
    BY <1>2, ModesAssign DEF InstallCodecs, BecomeReady
  <2> QED
    BY <2>1 DEF pcModes, PcHandling
<1>3. CASE HandleUpdate
  <2>1. pc_handler' = "idle"
    BY <1>3 DEF HandleUpdate, PcReceives, pcVars
  <2> QED
    BY <1>3, <2>1, ModesUpdate DEF pcModes, PcHandling
<1>4. CASE HandleCommit
  <2>1. pc_handler = "idle" /\ pc_handler' = IF pc_key_active THEN "idle" ELSE "commit"
    BY <1>4 DEF HandleCommit, PcReceives
  <2>2. HasCommitted <=> pc_key_active
    BY <2>1 DEF HasCommitted
  <2> QED
    BY <1>4, <2>1, <2>2, ModesCommit DEF PcHandling
<1>5. CASE HandleConfirm
  <2>1. pc_handler' # "commit"
    BY <1>5 DEF HandleConfirm
  <2>2. /\ toPc # << >> /\ Head(toPc) \in Elems(toPc) /\ Head(toPc) \in Frames(ToPcTypes)
        /\ Head(toPc).type = "PC_KEY_CONFIRM"
    BY <1>5, PcInvHead DEF HandleConfirm, PcReceives
  <2>3. HasCommitted
    <3> USE DEF AskingPc, AskingBasys, CommitPc, CommitBasys, Switching, ConfirmPc, ConfirmBasys
    <3>1. CASE group_state = "G_BOOT"
      BY <2>2, <3>1 DEF PcInv, PcBoot
    <3>2. CASE group_state \in AskingPc
      <4>1. Head(toPc).r # pending_random /\ Head(toPc).r # NoRandom
        BY <2>2, <3>2 DEF PcInv, PcAsked
      <4>2. Head(toPc) \notin NewToPc
        BY <4>1 DEF NewToPc, ThisEpoch
      <4>3. OldPc /\ active_key # NoRandom
        BY <2>2, <3>2, <4>1, <4>2 DEF PcInv, PcAsked
      <4> QED
        BY <4>3 DEF OldPc, PcHandling
    <3>3. CASE group_state \in AskingBasys
      BY <2>2, <3>3 DEF PcInv, PcPrepared
    <3>4. CASE group_state \in CommitPc
      BY <2>2, <3>4, RequestKinds DEF PcInv, PcCommitting
    <3>5. CASE group_state \in CommitBasys \cup Switching \cup ConfirmPc \cup ConfirmBasys \cup {"G_RUN"}
      BY <3>5 DEF PcInv, PcCommitted
    <3> QED
      BY <3>1, <3>2, <3>3, <3>4, <3>5 DEF TypeOK, GroupStates
  <2> QED
    BY <1>5, <2>1, <2>3, ModesConfirm DEF PcHandling
<1>6. \/ UNCHANGED pcVars \/ InstallCodecs \/ BecomeReady
      \/ HandleUpdate \/ HandleCommit \/ HandleConfirm
  <2>1. ZyboNext => UNCHANGED pcVars
    BY DEF ZyboNext, Boot, ExpireSession, BeginEpoch, SendPcUpdate, SendPcCommit, SendPcConfirm,
       SendPc, SendBasysUpdate, SendBasysCommit, SendBasysConfirm, PollOldReady, PollOldCommit,
       PollNew, SendBasys, RetryPcUpdate, RetryPcCommit, RetryPcConfirm, RetryPc, RetryPollReady,
       RetryPollCommit, RetryPollConfirm, Retry, SwitchLocal, LocalKeyDone, SendRackCommand,
       SendReport, ReceivePcAck, ReceivePcCommand
  <2>2. BasysNext => UNCHANGED pcVars
    BY DEF BasysNext, StartTransfer, EndTransfer, CollidingArrivals, InstallBasysKey, LoadStatus
  <2>3. HandleOther \/ CheckSessionReady \/ SendCommand \/ LoseToPc \/ LoseFromPc \/ UNCHANGED vars
          => UNCHANGED pcVars
    BY DEF HandleOther, CheckSessionReady, SendCommand, LoseToPc, LoseFromPc, vars
  <2> QED
    BY <2>1, <2>2, <2>3 DEF Next, PcNext
<1> QED
  BY <1>1, <1>2, <1>3, <1>4, <1>5, <1>6

-----------------------------------------------------------------------------
(* The Basys3's part of the invariant.                                       *)

\* What BasysInv speaks of.
basysView == <<pending_random, active_key, spiVars, basysVars>>

LEMMA BasysInvStutter ==
  ASSUME BasysInv, UNCHANGED basysView,
         \/ UNCHANGED group_state
         \/ group_state \in AskingPc /\ group_state' \in AskingPc \cup {"G_SEND_BASYS_UPDATE"}
         \/ group_state \in CommitPc /\ group_state' \in CommitPc \cup {"G_SEND_BASYS_COMMIT"}
         \/ group_state \in ConfirmPc /\ group_state' \in ConfirmPc \cup {"G_SEND_BASYS_CONFIRM"}
         \/ group_state = "G_SWITCH_LOCAL" /\ group_state' = "G_WAIT_LOCAL_KEY"
  PROVE  BasysInv'
BY DEF BasysInv, basysView, spiVars, basysVars, Quiet, Prepared, Committed, Shifted, Confirmed,
   AppFrames, Sent, Polling, SpiIdle, AskingPc, CommitPc, Switching, ConfirmPc

LEMMA BasysInvBegin ==
  ASSUME ZyboInv, BasysInv, Boot \/ ExpireSession
  PROVE  BasysInv'
<1>1. /\ group_state' = "G_SEND_PC_UPDATE" /\ group_state \in {"G_BOOT", "G_RUN"}
      /\ UNCHANGED <<active_key, spiVars, basysVars>>
  BY DEF Boot, ExpireSession, BeginEpoch
<1>2. active_key = pending_random
  BY <1>1 DEF ZyboInv
<1>3. Quiet' /\ {spi_pending, spi_mosi} \subseteq AppFrames(active_key)
  BY <1>1, <1>2 DEF BasysInv, Quiet, Confirmed, AppFrames, SpiIdle, spiVars, basysVars
<1> QED
  BY <1>1, <1>3 DEF BasysInv, AskingPc, CommitPc, Switching, ConfirmPc, AppFrames, spiVars

\* The coordinator hands a frame to the SPI master.
LEMMA BasysInvSend ==
  ASSUME BasysInv, ZyboInv,
         SendBasysUpdate \/ SendBasysCommit \/ SendBasysConfirm
         \/ PollOldReady \/ PollOldCommit \/ PollNew \/ SendRackCommand
  PROVE  BasysInv'
BY DEF BasysInv, ZyboInv, SendBasysUpdate, SendBasysCommit, SendBasysConfirm, PollOldReady,
   PollOldCommit, PollNew, SendBasys, SendRackCommand, Quiet, Prepared, Committed, Shifted,
   Confirmed, AppFrames, Sent, Polling, SpiIdle, AskingPc, CommitPc, Switching, ConfirmPc,
   spiVars, basysVars, zyboVars

LEMMA BasysInvRetry ==
  ASSUME BasysInv, RetryPollReady \/ RetryPollCommit \/ RetryPollConfirm \/ LocalKeyDone
  PROVE  BasysInv'
BY NoFrameFacts DEF BasysInv, RetryPollReady, RetryPollCommit, RetryPollConfirm, Retry, LocalKeyDone, Quiet, Prepared,
   Committed, Shifted, Confirmed, AppFrames, Sent, Polling, SpiIdle, AskingPc, CommitPc,
   Switching, ConfirmPc, spiVars, basysVars, Frame, NoFrame

\* Chip select falls, a key is installed, a status is loaded.
LEMMA BasysInvBus ==
  ASSUME BasysInv, StartTransfer \/ InstallBasysKey \/ LoadStatus
  PROVE  BasysInv'
<1> USE NoFrameFacts DEF BasysInv, Quiet, Prepared, Committed, Shifted, Confirmed, AppFrames,
    Sent, Polling, SpiIdle, AskingPc, CommitPc, Switching, ConfirmPc, spiVars, zyboVars, QuietTypes
<1>1. CASE StartTransfer
  BY <1>1 DEF StartTransfer, Frame, NoFrame
<1>2. CASE InstallBasysKey
  BY <1>2 DEF InstallBasysKey
<1>3. CASE LoadStatus
  BY <1>3 DEF LoadStatus, Frame
<1> QED
  BY <1>1, <1>2, <1>3

\* A transfer that carried no COMMIT_ACK leaves the key FSM alone; a POLL or
\* an application frame leaves everything else alone too.
LEMMA ReceiveSwitch ==
  ASSUME TypeOK, BasysReceive
  PROVE  /\ bs_inflight # "BASYS_COMMIT_ACK" => bs_switch' = bs_switch
         /\ bs_inflight = "BASYS_COMMIT_ACK" => bs_switch'
BY DEF TypeOK, BasysReceive

LEMMA ReceiveNothing ==
  ASSUME TypeOK, BasysReceive,
         spi_mosi.type \in {"BASYS_POLL_OLD", "BASYS_POLL_NEW", "ZYBO_TO_BASYS"}
  PROVE  /\ UNCHANGED <<bs_rekey, bs_pending, bs_tx, bs_mgmt_pending, bs_established, bs_key,
                        bs_inflight>>
         /\ bs_inflight # "BASYS_COMMIT_ACK" => bs_tx_type' = bs_tx_type
         /\ bs_inflight = "BASYS_COMMIT_ACK" => bs_tx_type' = "NONE"
BY DEF BasysReceive

\* A transfer ends: the Basys3 handles the request, and the response reaches
\* the coordinator, which may follow it, or not see it for a colliding PC frame.
LEMMA BasysInvReceive ==
  ASSUME TypeOK, ZyboInv, BasysInv, BasysReceive, spi_mosi # NoFrame,
         spi_mosi' = NoFrame, spi_miso' = NoFrame,
         UNCHANGED <<pending_random, active_key, spi_pending>>,
         \/ group_state' = AfterBasysAck(spi_miso.type)
         \/ group_state' = AfterPcAck(Head(fromPc))
  PROVE  BasysInv'
<1> USE NoFrameFacts DEF AskingPc, CommitPc, Switching, ConfirmPc
<1>1. \/ group_state' = group_state
      \/ group_state \in AskingPc /\ group_state' = "G_SEND_BASYS_UPDATE"
      \/ SpiIdle
      \/ /\ spi_miso.type = "BASYS_READY" /\ group_state = "G_WAIT_BASYS_READY"
         /\ group_state' = "G_SEND_PC_COMMIT"
      \/ /\ spi_miso.type = "BASYS_COMMIT_ACK" /\ group_state = "G_WAIT_BASYS_COMMIT_ACK"
         /\ group_state' = "G_SWITCH_LOCAL"
      \/ /\ spi_miso.type = "BASYS_CONFIRM_ACK" /\ group_state = "G_WAIT_BASYS_CONFIRM_ACK"
         /\ group_state' = "G_RUN"
  BY PcAckCases, BasysAckCases DEF BasysInv
<1>2. ~SpiIdle
  BY DEF SpiIdle
<1>3. CASE Quiet /\ {spi_pending, spi_mosi} \subseteq AppFrames(active_key)
           /\ group_state \in AskingPc \cup {"G_SEND_BASYS_UPDATE"}
  <2>1. spi_mosi.type = "ZYBO_TO_BASYS" /\ bs_inflight # "BASYS_COMMIT_ACK"
    BY <1>3 DEF AppFrames, Quiet, QuietTypes, Frame
  <2>2. Quiet'
    BY <1>3, <2>1, ReceiveSwitch, ReceiveNothing DEF Quiet, QuietTypes
  <2> QED
    BY <1>1, <1>2, <1>3, <2>2 DEF BasysInv, AppFrames, Quiet
<1>4. CASE group_state = "G_WAIT_BASYS_READY" /\ Quiet /\ Sent("BASYS_KEY_UPDATE")
  <2>1. spi_mosi.type = "BASYS_KEY_UPDATE" /\ spi_mosi.r = pending_random /\ spi_pending = NoFrame
        /\ bs_inflight # "BASYS_COMMIT_ACK" /\ spi_miso.type # "BASYS_READY"
    BY <1>4 DEF Sent, Quiet, QuietTypes, Frame
  <2>2. Prepared' /\ SpiIdle'
    BY <1>4, <2>1, ReceiveSwitch DEF BasysReceive, Respond, Quiet, Prepared, SpiIdle, Frame
  <2> QED
    BY <1>1, <1>2, <1>4, <2>1, <2>2 DEF BasysInv, Polling
<1>5. CASE /\ group_state = "G_WAIT_BASYS_READY" /\ Quiet
           /\ spi_pending = Frame("BASYS_KEY_UPDATE", pending_random)
           /\ spi_mosi \in AppFrames(active_key)
  <2>1. spi_mosi.type = "ZYBO_TO_BASYS" /\ bs_inflight # "BASYS_COMMIT_ACK"
        /\ spi_miso.type # "BASYS_READY"
    BY <1>5 DEF AppFrames, Quiet, QuietTypes, Frame
  <2>2. Quiet'
    BY <1>5, <2>1, ReceiveSwitch, ReceiveNothing DEF Quiet, QuietTypes
  <2> QED
    BY <1>1, <1>2, <1>5, <2>1, <2>2 DEF BasysInv, Sent
<1>6. CASE group_state = "G_WAIT_BASYS_READY" /\ Prepared /\ Polling("BASYS_POLL_OLD")
  <2>1. spi_mosi.type = "BASYS_POLL_OLD" /\ spi_pending = NoFrame
        /\ bs_inflight # "BASYS_COMMIT_ACK"
    BY <1>2, <1>6 DEF Polling, Sent, Prepared, Frame
  <2>2. Prepared' /\ SpiIdle'
    BY <1>6, <2>1, ReceiveSwitch, ReceiveNothing DEF Prepared, SpiIdle
  <2> QED
    BY <1>1, <1>2, <1>6, <2>2 DEF BasysInv, Polling, Prepared
<1>7. CASE group_state = "G_WAIT_BASYS_COMMIT_ACK" /\ Prepared /\ Sent("BASYS_KEY_COMMIT")
  <2>1. spi_mosi.type = "BASYS_KEY_COMMIT" /\ spi_pending = NoFrame
        /\ bs_inflight # "BASYS_COMMIT_ACK" /\ spi_miso.type # "BASYS_COMMIT_ACK"
    BY <1>7 DEF Sent, Prepared, Frame
  <2>2. Committed' /\ SpiIdle'
    BY <1>7, <2>1, ReceiveSwitch DEF BasysReceive, Respond, Prepared, Committed, SpiIdle, Frame
  <2> QED
    BY <1>1, <1>2, <1>7, <2>1, <2>2 DEF BasysInv, Polling
<1>8. CASE group_state = "G_WAIT_BASYS_COMMIT_ACK" /\ (Committed \/ Shifted)
           /\ Polling("BASYS_POLL_OLD")
  <2>1. spi_mosi.type = "BASYS_POLL_OLD" /\ spi_pending = NoFrame
    BY <1>2, <1>8 DEF Polling, Sent, Frame
  <2>2. Shifted' /\ SpiIdle'
    BY <1>8, <2>1, ReceiveSwitch, ReceiveNothing DEF Committed, Shifted, SpiIdle
  <2> QED
    BY <1>1, <1>2, <1>8, <2>2 DEF BasysInv, Polling
<1>9. CASE group_state = "G_WAIT_BASYS_CONFIRM_ACK" /\ Shifted /\ Sent("BASYS_KEY_CONFIRM")
  <2>1. spi_mosi.type = "BASYS_KEY_CONFIRM" /\ spi_pending = NoFrame
        /\ ~bs_switch /\ bs_inflight = "NONE"
    BY <1>9 DEF Sent, Shifted, Frame
  <2>2. bs_established
    BY <1>9, <2>1 DEF Shifted
  <2>3. Confirmed' /\ SpiIdle'
    <3>1. /\ bs_rekey' = FALSE /\ Respond("BASYS_CONFIRM_ACK", bs_pending)
          /\ UNCHANGED <<bs_pending, bs_established, bs_key>>
      BY <2>1, <2>2 DEF BasysReceive
    <3>2. bs_switch' = bs_switch
      BY <2>1, ReceiveSwitch
    <3>3. bs_tx'.type = "BASYS_CONFIRM_ACK" /\ bs_tx_type' = "BASYS_CONFIRM_ACK"
      BY <3>1 DEF Respond, Frame
    <3>4. bs_pending = pending_random /\ bs_key = pending_random
      BY <1>9, <2>1 DEF Shifted
    <3> QED
      BY <2>1, <2>2, <3>1, <3>2, <3>3, <3>4 DEF Confirmed, SpiIdle, QuietTypes
  <2> QED
    BY <1>1, <1>2, <1>9, <2>3 DEF BasysInv, Polling, SpiIdle, AppFrames
<1>10. CASE group_state = "G_WAIT_BASYS_CONFIRM_ACK" /\ Confirmed /\ Polling("BASYS_POLL_NEW")
  <2>1. spi_mosi.type = "BASYS_POLL_NEW" /\ spi_pending = NoFrame
        /\ bs_inflight # "BASYS_COMMIT_ACK"
    BY <1>2, <1>10 DEF Polling, Sent, Confirmed, QuietTypes, Frame
  <2>2. Confirmed' /\ SpiIdle'
    BY <1>10, <2>1, ReceiveSwitch, ReceiveNothing DEF Confirmed, SpiIdle, QuietTypes
  <2> QED
    BY <1>1, <1>2, <1>10, <2>2 DEF BasysInv, Polling, SpiIdle, AppFrames
<1>11. CASE /\ group_state = "G_RUN" /\ Confirmed
            /\ {spi_pending, spi_mosi} \subseteq AppFrames(pending_random)
  <2>1. spi_mosi.type = "ZYBO_TO_BASYS" /\ bs_inflight # "BASYS_COMMIT_ACK"
    BY <1>11 DEF AppFrames, Confirmed, QuietTypes, Frame
  <2>2. Confirmed'
    BY <1>11, <2>1, ReceiveSwitch, ReceiveNothing DEF Confirmed, QuietTypes
  <2> QED
    BY <1>1, <1>2, <1>11, <2>2 DEF BasysInv, AppFrames
<1>12. group_state \in {"G_WAIT_BASYS_READY", "G_WAIT_BASYS_COMMIT_ACK",
         "G_WAIT_BASYS_CONFIRM_ACK", "G_RUN", "G_SEND_BASYS_UPDATE"} \cup AskingPc
  BY <1>2 DEF BasysInv, TypeOK, GroupStates
<1> QED
  BY <1>3, <1>4, <1>5, <1>6, <1>7, <1>8, <1>9, <1>10, <1>11, <1>12 DEF BasysInv

LEMMA BasysInvStep ==
  ASSUME TypeOK, ZyboInv, BasysInv, [Next]_vars
  PROVE  BasysInv'
<1>1. CASE \/ SendPcUpdate \/ SendPcCommit \/ SendPcConfirm
           \/ RetryPcUpdate \/ RetryPcCommit \/ RetryPcConfirm \/ SwitchLocal
  <2>1. UNCHANGED basysView
    BY <1>1 DEF SendPcUpdate, SendPcCommit, SendPcConfirm, SendPc, RetryPcUpdate, RetryPcCommit,
       RetryPcConfirm, RetryPc, Retry, SwitchLocal, basysView
  <2>2. \/ group_state \in AskingPc /\ group_state' \in AskingPc
        \/ group_state \in CommitPc /\ group_state' \in CommitPc
        \/ group_state \in ConfirmPc /\ group_state' \in ConfirmPc
        \/ group_state = "G_SWITCH_LOCAL" /\ group_state' = "G_WAIT_LOCAL_KEY"
    BY <1>1 DEF SendPcUpdate, SendPcCommit, SendPcConfirm, SendPc, RetryPcUpdate, RetryPcCommit,
       RetryPcConfirm, RetryPc, Retry, SwitchLocal, AskingPc, CommitPc, ConfirmPc
  <2> QED
    BY <2>1, <2>2, BasysInvStutter
<1>2. CASE ReceivePcAck
  <2>1. UNCHANGED basysView
    BY <1>2 DEF ReceivePcAck, basysView
  <2>2. \/ group_state' = group_state
        \/ group_state \in AskingPc /\ group_state' = "G_SEND_BASYS_UPDATE"
        \/ group_state \in CommitPc /\ group_state' = "G_SEND_BASYS_COMMIT"
        \/ group_state \in ConfirmPc /\ group_state' = "G_SEND_BASYS_CONFIRM"
    BY <1>2, PcAckCases DEF ReceivePcAck, AskingPc, CommitPc, ConfirmPc
  <2> QED
    BY <2>1, <2>2, BasysInvStutter
<1>3. CASE EndTransfer
  BY <1>3, BasysInvReceive DEF EndTransfer
<1>4. CASE CollidingArrivals
  BY <1>4, BasysInvReceive DEF CollidingArrivals
<1>5. CASE \/ ReceivePcCommand \/ SendReport \/ PcNext \/ LoseToPc \/ LoseFromPc
           \/ UNCHANGED vars
  <2>1. UNCHANGED basysView /\ UNCHANGED group_state
    BY <1>5 DEF ReceivePcCommand, SendReport, PcNext, HandleUpdate, HandleCommit, HandleConfirm,
       InstallCodecs, BecomeReady, HandleOther, CheckSessionReady, SendCommand, LoseToPc, LoseFromPc, vars, zyboVars, basysView
  <2> QED
    BY <2>1, BasysInvStutter
<1> QED
  BY <1>1, <1>2, <1>3, <1>4, <1>5, BasysInvBegin, BasysInvSend, BasysInvRetry, BasysInvBus
     DEF Next, ZyboNext, BasysNext

-----------------------------------------------------------------------------
(* The invariant and what follows from it.                                   *)

LEMMA IInvInit == Init => IInv
<1> SUFFICES ASSUME Init PROVE IInv
  OBVIOUS
<1>1. ZyboInv
  BY DEF Init, ZyboInv, AskingPc, AskingBasys, CommitPc, CommitBasys, Switching, ConfirmPc,
     ConfirmBasys
<1>2. PcInv /\ PcHandling
  BY ElemsEmpty DEF Init, HasConfirmed, HasCommitted, KeyInUse, PcHandling, PcInv, PcBoot, PcAsked, PcAnswered, PcPrepared, PcCommitting,
     PcCommitted, PcConfirmed, AskingPc, AskingBasys, CommitPc, CommitBasys, Switching, ConfirmPc,
     ConfirmBasys
<1>3. BasysInv
  BY NoFrameFacts DEF Init, BasysInv, Quiet, QuietTypes, SpiIdle, AskingPc, CommitPc, Switching,
     ConfirmPc
<1> QED
  BY <1>1, <1>2, <1>3, TypeInit DEF IInv

LEMMA IInvStep == IInv /\ [Next]_vars => IInv'
<1> SUFFICES ASSUME IInv, [Next]_vars PROVE IInv'
  OBVIOUS
<1>1. TypeOK /\ ZyboInv /\ PcInv /\ PcHandling /\ BasysInv
  BY DEF IInv
<1>2. TypeOK'
  BY <1>1, TypeStep
<1>3. ZyboInv'
  BY <1>1, ZyboInvStep
<1>4. PcInv' /\ PcHandling'
  BY <1>1, PcInvStep, PcHandlingStep
<1>5. BasysInv'
  BY <1>1, BasysInvStep
<1> QED
  BY <1>2, <1>3, <1>4, <1>5 DEF IInv

\* The stage of the group FSM determines in which mode the PC and the Basys3
\* are and which frames can be on the UART and on the SPI bus.
THEOREM StagesCorrect == Spec => []IInv
<1>1. Init => IInv
  BY IInvInit
<1>2. IInv /\ [Next]_vars => IInv'
  BY IInvStep
<1> QED
  BY <1>1, <1>2, PTL DEF Spec

LEMMA AgreementInv == IInv => RunAgreement
<1> SUFFICES ASSUME IInv, group_state = "G_RUN" PROVE RunAgreement
  BY DEF RunAgreement
<1>1. /\ pending_random \in Randoms /\ active_key = pending_random
      /\ current_random = pending_random
  BY DEF IInv, ZyboInv
<1>2. KeyInUse = pending_random /\ HasConfirmed /\ ConfirmedR = pending_random
  BY DEF IInv, PcInv, PcAnswered, PcCommitted, PcConfirmed, AskingPc
<1>2a. pc_key = KeyInUse
  BY <1>2 DEF IInv, PcHandling, KeyInUse
<1>3. Confirmed
  BY DEF IInv, BasysInv
<1> QED
  BY <1>1, <1>2, <1>2a, <1>3 DEF RunAgreement, Confirmed

\* In G_RUN the three parties hold the key of the running epoch.
THEOREM Agreement == Spec => []RunAgreement
BY AgreementInv, StagesCorrect, PTL

LEMMA OrderInv == IInv => SwitchOrder
<1> SUFFICES ASSUME IInv PROVE SwitchOrder
  OBVIOUS
<1> USE DEF AskingPc, AskingBasys, CommitPc, CommitBasys, Switching, ConfirmPc, ConfirmBasys
<1>1. CASE group_state = "G_BOOT"
  BY <1>1 DEF IInv, ZyboInv, PcInv, PcBoot, BasysInv, Quiet, SwitchOrder
<1>2. CASE group_state \in AskingPc \cup AskingBasys
  <2>1. KeyInUse = active_key /\ active_key # pending_random
    BY <1>2 DEF IInv, ZyboInv, PcInv, PcAsked, PcPrepared
  <2>2. bs_key = active_key
    BY <1>2 DEF IInv, BasysInv, Quiet, Prepared
  <2> QED
    BY <2>1, <2>2 DEF SwitchOrder
<1>3. CASE group_state \in CommitPc
  <2>1. active_key # pending_random /\ Prepared
    BY <1>3 DEF IInv, ZyboInv, BasysInv
  <2> QED
    BY <2>1 DEF SwitchOrder, Prepared
<1>4. CASE group_state \in CommitBasys \cup Switching \cup ConfirmPc \cup ConfirmBasys \cup {"G_RUN"}
  <2>1. KeyInUse = pending_random
    BY <1>4 DEF IInv, PcInv, PcCommitted
  <2>2. Prepared \/ Committed \/ Shifted \/ Confirmed
    BY <1>4 DEF IInv, BasysInv
  <2>3. active_key = pending_random => Shifted \/ Confirmed
    BY <1>4 DEF IInv, ZyboInv, BasysInv
  <2> QED
    BY <2>1, <2>2, <2>3 DEF SwitchOrder, Prepared, Committed, Shifted, Confirmed
<1>5. group_state \in GroupStates
  BY DEF IInv, TypeOK
<1> QED
  BY <1>1, <1>2, <1>3, <1>4, <1>5 DEF GroupStates

\* The PC switches after the Basys3 holds R, the Basys3 after the PC, the ZYBO
\* last.
THEOREM Order == Spec => []SwitchOrder
BY OrderInv, StagesCorrect, PTL

\* No frame of an honest party fails its authentication where that would close
\* doors and racks.
THEOREM Authentic == Spec => []HonestFramesAuthenticate
<1>1. IInv => HonestFramesAuthenticate
  <2> SUFFICES ASSUME IInv PROVE HonestFramesAuthenticate
    OBVIOUS
  <2> USE DEF AskingPc, AskingBasys, CommitPc, CommitBasys, Switching, ConfirmPc, ConfirmBasys
  <2>1. spi_mosi.type = "ZYBO_TO_BASYS" => spi_mosi.r = bs_key /\ ~bs_switch
    BY NoFrameFacts DEF IInv, TypeOK, GroupStates, BasysInv, SpiIdle, Quiet, Confirmed, AppFrames,
       Sent, Polling, Frame
  <2>2. group_state = "G_RUN" /\ spi_miso.type = "BASYS_TO_ZYBO" => spi_miso.r = active_key
    BY DEF IInv, ZyboInv, BasysInv, Confirmed
  <2>3. group_state = "G_RUN" /\ fromPc # << >> => Head(fromPc).r = active_key
    BY ElemsTail DEF IInv, TypeOK, ZyboInv, PcInv, PcCommitted, ThisEpoch
  <2>4. ASSUME toPc # << >>, Head(toPc).type = "ZYBO_TO_PC"
        PROVE  Head(toPc).r = KeyInUse
    <3>1. Head(toPc) \in Elems(toPc) /\ Head(toPc).type \notin PcRequests
      BY <2>4, ElemsTail DEF IInv, TypeOK, PcRequests
    <3>2. CASE group_state = "G_BOOT"
      BY <2>4, <3>2 DEF IInv, PcInv, PcBoot
    <3>3. CASE group_state \in AskingPc
      BY <2>4, <3>1, <3>3 DEF IInv, PcInv, PcAsked
    <3>4. CASE group_state = "G_RUN"
      BY <3>1, <3>4 DEF IInv, PcInv, PcAnswered, PcCommitted, NewToPc, ThisEpoch
    <3>5. CASE group_state \notin AskingPc \cup {"G_BOOT", "G_RUN"}
      <4>1. group_state \in CommitPc => Head(toPc).type \in PcRequests
        BY <3>1 DEF IInv, PcInv, PcCommitting, Updates, Commits, ThisEpoch, Frames, PcRequests
      <4> QED
        BY <2>4, <3>1, <3>5, <4>1 DEF IInv, TypeOK, GroupStates, PcInv, PcPrepared, PcCommitted
    <3> QED
      BY <3>2, <3>3, <3>4, <3>5
  <2> QED
    BY <2>1, <2>2, <2>3, <2>4 DEF HonestFramesAuthenticate
<1> QED
  BY <1>1, StagesCorrect, PTL

\* No late or repeated acknowledgement counts for a round its peer has not done.
THEOREM RoundsReal == Spec => []AckedRoundsAreReal
<1>1. IInv => AckedRoundsAreReal
  <2> SUFFICES ASSUME IInv PROVE AckedRoundsAreReal
    OBVIOUS
  <2> USE DEF AskingPc, AskingBasys, CommitPc, CommitBasys, Switching, ConfirmPc, ConfirmBasys
  <2>1. group_state \notin {"G_BOOT", "G_SEND_PC_UPDATE", "G_WAIT_PC_READY"}
          => pc_pending = pending_random
    BY DEF IInv, PcInv, PcAnswered
  <2>2. group_state \in {"G_SEND_PC_COMMIT", "G_WAIT_PC_COMMIT_ACK"}
          => bs_pending = pending_random /\ bs_rekey
    BY DEF IInv, BasysInv, Prepared
  <2>3. group_state \in {"G_SEND_BASYS_COMMIT", "G_WAIT_BASYS_COMMIT_ACK"}
          => KeyInUse = pending_random
    BY DEF IInv, PcInv, PcCommitted
  <2>4. group_state \in {"G_SWITCH_LOCAL", "G_SEND_PC_CONFIRM"}
          => bs_switch \/ bs_key = pending_random
    BY DEF IInv, BasysInv, Shifted
  <2>5. group_state = "G_SEND_BASYS_CONFIRM" => HasConfirmed /\ ConfirmedR = pending_random
    BY DEF IInv, PcInv, PcConfirmed, PcAnswered
  <2> QED
    BY <2>1, <2>2, <2>3, <2>4, <2>5 DEF AckedRoundsAreReal
<1> QED
  BY <1>1, StagesCorrect, PTL

\* The steps in which somebody's key changes, and G_RUN is entered or left.
LEMMA KeyChanges ==
  ASSUME TypeOK, Next
  PROVE  \/ Boot \/ ExpireSession \/ HandleCommit \/ InstallBasysKey \/ LocalKeyDone
         \/ EndTransfer
         \/ /\ UNCHANGED <<pending_random, active_key, KeyInUse, bs_key>>
            /\ group_state' = "G_RUN" <=> group_state = "G_RUN"
<1>1. SendPcUpdate \/ SendPcCommit \/ SendPcConfirm \/ SendReport =>
        /\ UNCHANGED <<pending_random, active_key, KeyInUse, bs_key>>
        /\ group_state' = "G_RUN" <=> group_state = "G_RUN"
  BY ModesStutter DEF SendPcUpdate, SendPcCommit, SendPcConfirm, SendPc, SendReport, zyboVars,
     pcModes, basysVars
<1>2. SendBasysUpdate \/ SendBasysCommit \/ SendBasysConfirm \/ PollOldReady \/ PollOldCommit
        \/ PollNew \/ SendRackCommand =>
        /\ UNCHANGED <<pending_random, active_key, KeyInUse, bs_key>>
        /\ group_state' = "G_RUN" <=> group_state = "G_RUN"
  BY ModesStutter DEF SendBasysUpdate, SendBasysCommit, SendBasysConfirm, PollOldReady, PollOldCommit, PollNew,
     SendBasys, SendRackCommand, zyboVars, pcModes, basysVars
<1>3. RetryPcUpdate \/ RetryPcCommit \/ RetryPcConfirm \/ RetryPollReady \/ RetryPollCommit
        \/ RetryPollConfirm \/ SwitchLocal =>
        /\ UNCHANGED <<pending_random, active_key, KeyInUse, bs_key>>
        /\ group_state' = "G_RUN" <=> group_state = "G_RUN"
  BY ModesStutter DEF RetryPcUpdate, RetryPcCommit, RetryPcConfirm, RetryPc, RetryPollReady, RetryPollCommit,
     RetryPollConfirm, Retry, SwitchLocal, pcModes, basysVars
<1>4. ReceivePcAck \/ ReceivePcCommand \/ CollidingArrivals =>
        /\ UNCHANGED <<pending_random, active_key, KeyInUse, bs_key>>
        /\ group_state' = "G_RUN" <=> group_state = "G_RUN"
  BY PcAckCases, ModesStutter DEF ReceivePcAck, ReceivePcCommand, CollidingArrivals, BasysReceive, zyboVars,
     pcModes, basysVars
<1>5. StartTransfer \/ LoadStatus \/ HandleUpdate \/ HandleConfirm \/ HandleOther
        \/ CheckSessionReady \/ SendCommand \/ LoseToPc \/ LoseFromPc =>
        /\ UNCHANGED <<pending_random, active_key, KeyInUse, bs_key>>
        /\ group_state' = "G_RUN" <=> group_state = "G_RUN"
  <2>1. HandleUpdate \/ HandleConfirm => UNCHANGED KeyInUse
    BY ModesUpdate, ModesConfirm DEF pcModes
  <2> QED
    BY <2>1, ModesStutter DEF StartTransfer, LoadStatus, HandleUpdate, HandleConfirm, HandleOther,
       CheckSessionReady, SendCommand, LoseToPc, LoseFromPc, zyboVars, pcModes, basysVars
<1>6. InstallCodecs \/ BecomeReady =>
        /\ UNCHANGED <<pending_random, active_key, KeyInUse, bs_key>>
        /\ group_state' = "G_RUN" <=> group_state = "G_RUN"
  BY ModesAssign DEF InstallCodecs, BecomeReady, zyboVars, pcModes, basysVars
<1> QED
  BY <1>1, <1>2, <1>3, <1>4, <1>5, <1>6 DEF Next, ZyboNext, BasysNext, PcNext

\* A COMMIT makes the PC take the running epoch's key, or leaves its key alone.
LEMMA CommitKey ==
  ASSUME IInv, HandleCommit
  PROVE  /\ UNCHANGED <<group_state, pending_random, active_key, bs_key>>
         /\ KeyInUse' # KeyInUse => KeyInUse' = pending_random /\ group_state # "G_RUN"
<1>1. toPc # << >> /\ Head(toPc).r = pc_pending /\ Head(toPc).type = "PC_KEY_COMMIT"
      /\ UNCHANGED <<group_state, pending_random, bs_key, active_key>>
  BY DEF HandleCommit, PcReceives, zyboVars, basysVars
<1>2. Head(toPc) \in Elems(toPc)
  BY <1>1, ElemsTail DEF IInv, TypeOK
<1>3. KeyInUse' \in {KeyInUse, pc_pending}
  BY ModesCommit DEF IInv
<1>4. CASE group_state = "G_BOOT"
  BY <1>1, <1>4 DEF IInv, PcInv, PcBoot
<1>5. CASE group_state \in AskingPc
  <2>1. Head(toPc) \notin NewToPc
    BY <1>1, <1>2, <1>5 DEF IInv, PcInv, PcAsked, NewToPc, ThisEpoch
  <2>2. pc_pending = active_key /\ KeyInUse = active_key
    BY <1>2, <1>5, <2>1 DEF IInv, PcInv, PcAsked, OldPc
  <2> QED
    BY <1>1, <1>3, <2>2
<1>6. CASE group_state \notin AskingPc \cup {"G_BOOT"}
  <2>1. pc_pending = pending_random /\ (group_state = "G_RUN" => KeyInUse = pending_random)
    BY <1>6 DEF IInv, PcInv, PcAnswered, PcCommitted
  <2> QED
    BY <1>1, <1>3, <2>1
<1> QED
  BY <1>4, <1>5, <1>6

\* Every step of the domain's key change is a step of SessionKey, or changes
\* nothing SessionKey sees.
LEMMA SessionStep ==
  ASSUME IInv, RunAgreement', SwitchOrder', [Next]_vars
  PROVE  [Session!Next]_(Session!svars)
<1> USE DEF Members, HeldKey, Before
<1>1. CASE Boot \/ ExpireSession
  <2>1. /\ group_state \in {"G_BOOT", "G_RUN"} /\ group_state' = "G_SEND_PC_UPDATE"
        /\ pending_random' \in Randoms \ {pending_random}
        /\ UNCHANGED <<active_key, KeyInUse, bs_key>>
    BY <1>1, ModesStutter DEF Boot, ExpireSession, BeginEpoch, pcModes, basysVars
  <2>2. group_state = "G_BOOT" => pending_random = NoRandom
    BY DEF IInv, ZyboInv
  <2>3. Session!Begin
    BY <2>1, <2>2 DEF Session!Begin
  <2> QED
    BY <2>3 DEF Session!Next
<1>2. CASE HandleCommit
  <2>1. CASE KeyInUse' = KeyInUse
    BY <1>2, <2>1, CommitKey DEF Session!svars
  <2>2. CASE KeyInUse' # KeyInUse
    <3>1. Session!Move("pc")
      BY <1>2, <2>2, CommitKey DEF Session!Move
    <3> QED
      BY <3>1 DEF Session!Next
  <2> QED
    BY <2>1, <2>2
<1>3. CASE InstallBasysKey
  <2>1. bs_key' = bs_pending
        /\ UNCHANGED <<group_state, pending_random, active_key, KeyInUse>>
    BY <1>3, ModesStutter DEF InstallBasysKey, zyboVars, pcModes
  <2>2. bs_pending = pending_random /\ group_state # "G_RUN"
    BY <1>3 DEF InstallBasysKey, IInv, TypeOK, GroupStates, BasysInv, Quiet, Prepared,
       Committed, Shifted, Confirmed, AskingPc, CommitPc, Switching, ConfirmPc
  <2>3. KeyInUse = pending_random
    <3>1. group_state' = group_state /\ bs_key' = pending_random' /\ KeyInUse' = KeyInUse
      BY <2>1, <2>2
    <3> QED
      BY <2>1, <3>1 DEF SwitchOrder
  <2>4. CASE bs_key = pending_random
    BY <2>1, <2>2, <2>4 DEF Session!svars
  <2>5. CASE bs_key # pending_random
    <3>1. HeldKey' = [HeldKey EXCEPT !["basys"] = pending_random]
      BY <2>1, <2>2
    <3>2. HeldKey["basys"] # pending_random
      BY <2>5
    <3>3. \A q \in Before["basys"] : HeldKey[q] = pending_random
      BY <2>3
    <3>4. Session!Move("basys")
      BY <2>1, <2>2, <3>1, <3>2, <3>3 DEF Session!Move
    <3> QED
      BY <3>4 DEF Session!Next
  <2> QED
    BY <2>4, <2>5
<1>4. CASE LocalKeyDone
  <2>1. /\ group_state = "G_WAIT_LOCAL_KEY" /\ group_state' = "G_SEND_PC_CONFIRM"
        /\ active_key' = pending_random
        /\ UNCHANGED <<pending_random, KeyInUse, bs_key>>
    BY <1>4, ModesStutter DEF LocalKeyDone, pcModes, basysVars
  <2>2. active_key # pending_random /\ KeyInUse = pending_random
    BY <2>1 DEF IInv, ZyboInv, PcInv, PcCommitted, Switching
  <2>3. HeldKey' = [HeldKey EXCEPT !["zybo"] = pending_random]
    BY <2>1
  <2>4. HeldKey["zybo"] # pending_random
    BY <2>2
  <2>5. \A q \in Before["zybo"] : HeldKey[q] = pending_random
    BY <2>2
  <2>6. Session!Move("zybo")
    BY <2>1, <2>3, <2>4, <2>5 DEF Session!Move
  <2> QED
    BY <2>6 DEF Session!Next
<1>5. CASE EndTransfer
  <2>1. UNCHANGED <<pending_random, active_key, KeyInUse, bs_key>>
    BY <1>5, ModesStutter DEF EndTransfer, BasysReceive, pcModes
  <2>2. CASE group_state' = "G_RUN" /\ group_state # "G_RUN"
    <3>1. /\ active_key = pending_random /\ KeyInUse = pending_random /\ bs_key = pending_random
          /\ pending_random # NoRandom
      BY <2>1, <2>2, RandomsAssumption DEF RunAgreement, SwitchOrder
    <3>2. Session!Enable
      BY <2>1, <2>2, <3>1 DEF Session!Enable
    <3> QED
      BY <3>2 DEF Session!Next
  <2>3. group_state = "G_RUN" => group_state' = "G_RUN"
    BY <1>5, BasysAckCases DEF EndTransfer
  <2>4. CASE group_state' = "G_RUN" <=> group_state = "G_RUN"
    BY <2>1, <2>4 DEF Session!svars
  <2> QED
    BY <2>2, <2>3, <2>4
<1>6. CASE /\ UNCHANGED <<pending_random, active_key, KeyInUse, bs_key>>
           /\ group_state' = "G_RUN" <=> group_state = "G_RUN"
  BY <1>6 DEF Session!svars
<1>7. CASE UNCHANGED vars
  BY <1>7, <1>6, ModesStutter DEF vars, zyboVars, pcModes, basysVars
<1> QED
  BY <1>1, <1>2, <1>3, <1>4, <1>5, <1>6, <1>7, KeyChanges DEF IInv

\* The key change of the PC + Basys3 domain implements the abstract re-keying.
THEOREM Implements == Spec => ImplementsSession
<1>1. Init => Session!Init
  BY DEF Init, Session!Init, Members, HeldKey, KeyInUse
<1>2. IInv /\ RunAgreement' /\ SwitchOrder' /\ [Next]_vars => [Session!Next]_(Session!svars)
  BY SessionStep
<1> QED
  BY <1>1, <1>2, StagesCorrect, Agreement, Order, PTL DEF Spec, ImplementsSession, Session!Spec

-----------------------------------------------------------------------------
(* The PC, through restarts.                                                 *)

\* What FPcInv speaks of.
fpcView == <<group_state, pending_random, active_key, pcModes, pc_sender, uartVars, used>>

LEMMA FPcStutter ==
  ASSUME FPcInv, UNCHANGED fpcView
  PROVE  FPcInv'
BY DEF FPcInv, fpcView, pcModes, uartVars, FPcBoot, FPcAsked, FPcPrepared, FPcCommitting,
   FPcCommitted, UnusedInv, PcGone, PcInSession, PcHasR, PcSwitched, NewPc, Updates, Commits,
   NoOldFrame, Elems, Ordered, ThisEpoch, NewToPc, NewAcks, NoOldAck, CommitAck, ConfirmAck

\* A new epoch begins: every frame on the lines is of the last one.
LEMMA FPcBegin ==
  ASSUME TypeOK, ZyboInv, FPcInv, Boot \/ ExpireSession, ~used'
  PROVE  FPcInv'
<1> USE DEF AskingPc, AskingBasys, CommitPc, CommitBasys, Switching, ConfirmPc, ConfirmBasys
<1>1. /\ group_state' = "G_SEND_PC_UPDATE" /\ group_state \in {"G_BOOT", "G_RUN"}
      /\ pending_random' \in Randoms \ {pending_random}
      /\ UNCHANGED <<active_key, toPc, fromPc, pcModes, pc_sender>>
  BY ModesStutter DEF Boot, ExpireSession, BeginEpoch, uartVars
<1>2. active_key = pending_random /\ pending_random' # active_key /\ NoRandom \notin Randoms
  BY <1>1, RandomsAssumption DEF ZyboInv
<1>3. /\ PcInSession \/ PcGone
      /\ \A f \in Elems(toPc) : f.r = active_key /\ f.r # NoRandom /\ f.type # "PC_KEY_UPDATE"
      /\ \A f \in Elems(fromPc) : f.r = active_key
  <2>1. CASE group_state = "G_BOOT"
    BY <2>1, ElemsEmpty DEF FPcInv, FPcBoot
  <2>2. CASE group_state = "G_RUN"
    <3>1. pending_random \in Randoms
      BY <2>2 DEF ZyboInv
    <3>2. /\ PcSwitched \/ PcGone
          /\ Elems(fromPc) \subseteq NoOldFrame /\ Elems(toPc) \subseteq NewToPc \ Updates
          /\ HasConfirmed \/ PcGone
      BY <2>2 DEF FPcInv, FPcCommitted
    <3>3. PcInSession \/ PcGone
      BY <3>2, <1>2 DEF PcSwitched, PcInSession
    <3>4. \A f \in Elems(toPc) : f.type # "PC_KEY_UPDATE"
      <4> SUFFICES ASSUME NEW f \in Elems(toPc), f.type = "PC_KEY_UPDATE"
                   PROVE  FALSE
        OBVIOUS
      <4>1. f \in Frames(ToPcTypes) /\ f.r = pending_random /\ f \notin Updates
        BY <3>2 DEF NewToPc, ThisEpoch
      <4> QED
        BY <4>1 DEF Updates, ThisEpoch, Frames
    <3> QED
      BY <3>1, <3>2, <3>3, <3>4, <1>2 DEF NewToPc, NoOldFrame, ThisEpoch
  <2> QED
    BY <1>1, <2>1, <2>2
<1>4. /\ PcInSession' \/ PcGone'
      /\ (Elems(toPc) \cap Updates' = {}) /\ (Elems(fromPc) \cap NewAcks' = {})
  BY <1>1, <1>2, <1>3 DEF PcInSession, PcGone, Updates, NewAcks, ThisEpoch, pcModes
<1>5. Ordered(toPc, Updates', Updates') /\ Ordered(fromPc, NewAcks', NoOldAck')
  BY <1>4 DEF Ordered, Elems
<1>6. FPcAsked'
  BY <1>1, <1>2, <1>3, <1>4, <1>5 DEF FPcAsked
<1> QED
  BY <1>1, <1>6 DEF FPcInv, FPcBoot, FPcPrepared, FPcCommitting, FPcCommitted, UnusedInv

\* A new client knows nothing, whatever is on the lines.
LEMMA FPcRestart ==
  ASSUME ZyboInv, FPcInv, RestartPc
  PROVE  FPcInv'
<1> USE DEF AskingPc, AskingBasys, CommitPc, CommitBasys, Switching, ConfirmPc, ConfirmBasys
<1>1. /\ PcGone'
      /\ UNCHANGED <<group_state, pending_random, active_key, toPc, fromPc, used>>
  BY DEF RestartPc, PcGone, KeyInUse, HasConfirmed, HasCommitted, zyboVars, uartVars
<1>2. group_state # "G_BOOT" => ~PcHasR'
  BY <1>1, RandomsAssumption DEF ZyboInv, PcGone, PcHasR, NewPc
<1> QED
  BY <1>1, <1>2 DEF FPcInv, FPcBoot, FPcAsked, FPcPrepared, FPcCommitting, FPcCommitted, UnusedInv,
     Updates, Commits, NoOldFrame, ThisEpoch, NewToPc, NewAcks, NoOldAck, CommitAck, ConfirmAck

\* The coordinator moves on while the UART and the PC stay as they are.
LEMMA FPcMove ==
  ASSUME TypeOK, ZyboInv, FPcInv,
         UNCHANGED <<pending_random, pcModes, pc_sender, uartVars, used>>,
         \/ UNCHANGED <<group_state, active_key>>
         \/ UNCHANGED active_key /\ \E stage \in {AskingPc, AskingBasys, CommitPc, CommitBasys,
              Switching, ConfirmPc, ConfirmBasys} : group_state \in stage /\ group_state' \in stage
         \/ UNCHANGED active_key /\ group_state \in AskingBasys /\ group_state' \in CommitPc
         \/ UNCHANGED active_key /\ group_state \in CommitBasys /\ group_state' \in Switching
         \/ group_state \in Switching /\ group_state' \in ConfirmPc
         \/ UNCHANGED active_key /\ group_state \in ConfirmBasys /\ group_state' = "G_RUN"
  PROVE  FPcInv'
<1> USE DEF AskingPc, AskingBasys, CommitPc, CommitBasys, Switching, ConfirmPc, ConfirmBasys
<1>1. CASE UNCHANGED <<group_state, active_key>>
  BY <1>1, FPcStutter DEF fpcView
<1> USE DEF FPcInv, FPcBoot, FPcAsked, FPcPrepared, FPcCommitting, FPcCommitted, UnusedInv,
            PcGone, PcInSession, PcHasR, PcSwitched, NewPc, Updates, Commits, NoOldFrame,
            ThisEpoch, NewToPc, NewAcks, NoOldAck, CommitAck, ConfirmAck, pcModes, uartVars
<1>2. CASE UNCHANGED active_key /\ \E stage \in {AskingPc, AskingBasys, CommitPc, CommitBasys,
              Switching, ConfirmPc, ConfirmBasys} : group_state \in stage /\ group_state' \in stage
  BY <1>2
<1>3. CASE UNCHANGED active_key /\ group_state \in AskingBasys /\ group_state' \in CommitPc
  <2>1. active_key # pending_random
    BY <1>3 DEF ZyboInv
  <2>2. \A f \in Elems(fromPc) : f.type \in PcAcks => f = Frame("PC_READY", pending_random)
    BY <1>3
  <2>3. CommitAck \notin Elems(fromPc) /\ \A f \in Elems(fromPc) : f.type # "PC_CONFIRM_ACK"
    BY <2>2 DEF PcAcks, Frame
  <2>4. Elems(fromPc) \subseteq NoOldAck
    <3>1. Elems(fromPc) \subseteq Frames(FromPcTypes)
      BY DEF TypeOK, Elems
    <3> QED
      BY <3>1, <2>2 DEF Frame
  <2>5. Ordered(fromPc, {CommitAck}, NoOldFrame)
    BY <2>3 DEF Ordered, Elems
  <2>6. Elems(toPc) \cap Commits = {}
    BY <1>3 DEF Frames
  <2>7. Ordered(toPc, Commits, Commits)
    BY <2>6 DEF Ordered, Elems
  <2>8. ~used /\ (PcHasR \/ PcGone) /\ Elems(toPc) \subseteq Updates
    BY <1>3
  <2> QED
    BY <2>3, <2>4, <2>5, <2>7, <2>8, <1>3
<1>4. CASE UNCHANGED active_key /\ group_state \in CommitBasys /\ group_state' \in Switching
  BY <1>4
<1>5. CASE group_state \in Switching /\ group_state' \in ConfirmPc
  BY <1>5
<1>6. CASE UNCHANGED active_key /\ group_state \in ConfirmBasys /\ group_state' = "G_RUN"
  BY <1>6
<1> QED
  BY <1>1, <1>2, <1>3, <1>4, <1>5, <1>6

\* The coordinator sends the PC a request of this epoch, or in G_RUN a report.
LEMMA FPcSend ==
  ASSUME TypeOK, ZyboInv, FPcInv, used' = used,
         SendPcUpdate \/ SendPcCommit \/ SendPcConfirm \/ SendReport
  PROVE  FPcInv'
<1> USE DEF AskingPc, AskingBasys, CommitPc, CommitBasys, Switching, ConfirmPc, ConfirmBasys
<1> DEFINE e(type) == Frame(type, pending_random)
<1>1. PICK type \in ToPcTypes :
        /\ \/ /\ group_state = "G_SEND_PC_UPDATE" /\ type = "PC_KEY_UPDATE"
              /\ group_state' = "G_WAIT_PC_READY"
           \/ /\ group_state = "G_SEND_PC_COMMIT" /\ type = "PC_KEY_COMMIT"
              /\ group_state' = "G_WAIT_PC_COMMIT_ACK"
           \/ /\ group_state = "G_SEND_PC_CONFIRM" /\ type = "PC_KEY_CONFIRM"
              /\ group_state' = "G_WAIT_PC_CONFIRM_ACK"
           \/ group_state = "G_RUN" /\ type = "ZYBO_TO_PC" /\ group_state' = "G_RUN"
        /\ toPc' = Append(toPc, e(type))
        /\ UNCHANGED <<pending_random, active_key, fromPc, pcModes, pc_sender>>
  BY ModesStutter DEF SendPcUpdate, SendPcCommit, SendPcConfirm, SendReport, SendPc, ZyboInv,
     zyboVars, ToPcTypes, PcRequests
<1>2. /\ toPc \in Seq(Frames(ToPcTypes)) /\ pending_random \in Keys
      /\ pending_random \in Randoms /\ pending_random # NoRandom
  BY <1>1, RandomsAssumption DEF TypeOK, ZyboInv
<1>3. e(type) \in Frames(ToPcTypes) /\ e(type).type = type /\ e(type).r = pending_random
  BY <1>1, <1>2, FrameType
<1>4. Elems(toPc') = Elems(toPc) \cup {e(type)}
  BY <1>1, <1>2, <1>3, ElemsAppend
<1>5. \A t \in ToPcTypes : e(type) \in ThisEpoch({t}) <=> type = t
  BY <1>2, <1>3 DEF ThisEpoch, Frames, Frame
<1>6. /\ e(type) \in NewToPc
      /\ e(type) \in Updates <=> type = "PC_KEY_UPDATE"
      /\ e(type) \in Commits <=> type = "PC_KEY_COMMIT"
  BY <1>3, <1>5 DEF NewToPc, ThisEpoch, Updates, Commits, ToPcTypes, PcRequests
<1>7. ASSUME NEW A, NEW B, Ordered(toPc, A, B), e(type) \in B
      PROVE  Ordered(toPc', A, B)
  BY <1>1, <1>2, <1>3, <1>7, OrderedAppend
<1> HIDE DEF e
<1>8. CASE type = "PC_KEY_UPDATE"
  <2>1. FPcAsked'
    <3>1. Ordered(toPc', Updates, Updates)
      BY <1>1, <1>6, <1>7, <1>8 DEF FPcInv, FPcAsked
    <3> QED
      BY <3>1, <1>1, <1>2, <1>3, <1>4, <1>6, <1>8
         DEF FPcInv, FPcAsked, PcInSession, PcHasR, PcGone, NewPc, Updates, NewAcks, NoOldAck,
             ThisEpoch, pcModes
  <2> QED
    BY <2>1, <1>1, <1>8 DEF FPcInv, FPcBoot, FPcPrepared, FPcCommitting, FPcCommitted, UnusedInv
<1>9. CASE type = "PC_KEY_COMMIT"
  <2>1. FPcCommitting'
    <3>1. Ordered(toPc', Commits, Commits)
      BY <1>1, <1>6, <1>7, <1>9 DEF FPcInv, FPcCommitting
    <3> QED
      BY <3>1, <1>1, <1>4, <1>6, <1>9
         DEF FPcInv, FPcCommitting, PcSwitched, PcHasR, PcGone, NewPc, Updates, Commits, NoOldAck,
             NoOldFrame, CommitAck, ThisEpoch, pcModes
  <2> QED
    BY <2>1, <1>1, <1>9 DEF FPcInv, FPcBoot, FPcAsked, FPcPrepared, FPcCommitted, UnusedInv
<1>10. CASE type \in {"PC_KEY_CONFIRM", "ZYBO_TO_PC"}
  <2>1. FPcCommitted'
    BY <1>1, <1>3, <1>4, <1>6, <1>10
       DEF FPcInv, FPcCommitted, PcSwitched, PcGone, Updates, NewToPc, NoOldFrame, ConfirmAck,
           ThisEpoch, pcModes, PcRequests
  <2> QED
    BY <2>1, <1>1, <1>10 DEF FPcInv, FPcBoot, FPcAsked, FPcPrepared, FPcCommitting, UnusedInv
<1> QED
  BY <1>1, <1>8, <1>9, <1>10

\* Fewer frames on either line break nothing.
LEMMA FPcLess ==
  ASSUME TypeOK, ZyboInv, FPcInv,
         UNCHANGED <<group_state, pending_random, active_key, pcModes, pc_sender, used>>,
         \/ toPc # << >> /\ toPc' = Tail(toPc) /\ fromPc' = fromPc
         \/ fromPc # << >> /\ fromPc' = Tail(fromPc) /\ toPc' = toPc
  PROVE  FPcInv'
<1>1. /\ Elems(toPc') \subseteq Elems(toPc)
      /\ \A A, B : Ordered(toPc, A, B) => Ordered(toPc', A, B)
  <2>1. CASE toPc # << >> /\ toPc' = Tail(toPc)
    BY <2>1, ElemsTail, OrderedTail DEF TypeOK
  <2> QED
    BY <2>1
<1>2. /\ Elems(fromPc') \subseteq Elems(fromPc)
      /\ \A A, B : Ordered(fromPc, A, B) => Ordered(fromPc', A, B)
  <2>1. CASE fromPc # << >> /\ fromPc' = Tail(fromPc)
    BY <2>1, ElemsTail, OrderedTail DEF TypeOK
  <2> QED
    BY <2>1
<1>3. group_state # "G_BOOT"
  BY DEF FPcInv, FPcBoot
<1>4. UNCHANGED <<Updates, Commits, NewToPc, NewAcks, NoOldAck, NoOldFrame, CommitAck, ConfirmAck>>
  BY DEF Updates, Commits, NewToPc, NewAcks, NoOldAck, NoOldFrame, CommitAck, ConfirmAck, ThisEpoch
<1>5. UNCHANGED <<PcGone, PcInSession, PcHasR, PcSwitched>>
  BY DEF PcGone, PcInSession, PcHasR, PcSwitched, NewPc, pcModes
<1>6. FPcAsked'
  BY <1>1, <1>2, <1>4, <1>5 DEF FPcInv, FPcAsked
<1>7. FPcPrepared' /\ FPcCommitted'
  BY <1>1, <1>2, <1>4, <1>5 DEF FPcInv, FPcPrepared, FPcCommitted, pcModes
<1>8. FPcCommitting'
  BY <1>1, <1>2, <1>4, <1>5 DEF FPcInv, FPcCommitting, pcModes
<1> QED
  BY <1>3, <1>6, <1>7, <1>8 DEF FPcInv, FPcBoot, UnusedInv

\* An acknowledgement of the PC reaches the coordinator.
LEMMA FPcAck ==
  ASSUME TypeOK, ZyboInv, FPcInv, fromPc # << >>,
         group_state' = AfterPcAck(Head(fromPc)), fromPc' = Tail(fromPc),
         UNCHANGED <<pending_random, active_key, toPc, pcModes, pc_sender, used>>
  PROVE  FPcInv'
<1> USE DEF AskingPc, AskingBasys, CommitPc, CommitBasys, Switching, ConfirmPc, ConfirmBasys
<1>1. CASE group_state' = group_state
  BY <1>1, FPcLess
<1>2. /\ fromPc \in Seq(Frames(FromPcTypes)) /\ pending_random \in Keys
      /\ Elems(fromPc) = Elems(fromPc') \cup {Head(fromPc)}
      /\ \A A, B : Ordered(fromPc, A, B) /\ Head(fromPc) \in A => Elems(fromPc') \subseteq B
  BY ElemsTail, OrderedTail DEF TypeOK
<1>3. UNCHANGED <<Updates, Commits, NewToPc, NewAcks, NoOldAck, NoOldFrame, CommitAck, ConfirmAck>>
  BY DEF Updates, Commits, NewToPc, NewAcks, NoOldAck, NoOldFrame, CommitAck, ConfirmAck, ThisEpoch
<1>4. UNCHANGED <<PcGone, PcInSession, PcHasR, PcSwitched>>
  BY DEF PcGone, PcInSession, PcHasR, PcSwitched, NewPc, pcModes
<1>5. CASE /\ Head(fromPc) = Frame("PC_READY", pending_random)
           /\ group_state = "G_WAIT_PC_READY" /\ group_state' = "G_SEND_BASYS_UPDATE"
  <2>1. Head(fromPc) \in NewAcks
    <3>1. "PC_READY" \in PcAcks
      BY DEF PcAcks
    <3> QED
      BY <3>1, <1>2, <1>5, FrameType DEF NewAcks, ThisEpoch
  <2>2. (PcHasR \/ PcGone) /\ Elems(toPc) \subseteq Updates /\ ~used
    BY <2>1, <1>2, <1>5 DEF FPcInv, FPcAsked, UnusedInv
  <2>3. Elems(fromPc') \subseteq NoOldAck
    BY <2>1, <1>2, <1>5 DEF FPcInv, FPcAsked
  <2>4. \A f \in Elems(fromPc') : /\ f.r \in {active_key, pending_random}
                                  /\ f.r = pending_random => f.type = "PC_READY"
    BY <1>2, <1>5 DEF FPcInv, FPcAsked
  <2>5. \A f \in Elems(fromPc') : IF f.type \in PcAcks
                                  THEN f = Frame("PC_READY", pending_random)
                                  ELSE f.r = active_key
    <3> SUFFICES ASSUME NEW f \in Elems(fromPc')
                 PROVE  IF f.type \in PcAcks THEN f = Frame("PC_READY", pending_random)
                                             ELSE f.r = active_key
      OBVIOUS
    <3>1. f \in NoOldAck /\ f \in Frames(FromPcTypes)
      BY <2>3 DEF NoOldAck
    <3>2. f = Frame(f.type, f.r)
      BY <3>1, FrameFields
    <3>3. f.type = "PC_READY" => f.type \in PcAcks
      BY DEF PcAcks
    <3> QED
      BY <2>4, <3>1, <3>2, <3>3 DEF NoOldAck
  <2> QED
    BY <2>2, <2>5, <1>3, <1>4, <1>5
       DEF FPcInv, FPcBoot, FPcAsked, FPcPrepared, FPcCommitting, FPcCommitted, UnusedInv
<1>6. CASE /\ Head(fromPc) = CommitAck
           /\ group_state = "G_WAIT_PC_COMMIT_ACK" /\ group_state' = "G_SEND_BASYS_COMMIT"
  <2>1. ~PcHasR /\ Elems(toPc) \subseteq Commits
    BY <1>2, <1>6 DEF FPcInv, FPcCommitting
  <2>2. PcSwitched \/ PcGone
    BY <2>1, <1>6 DEF FPcInv, FPcCommitting
  <2>3. Elems(fromPc') \subseteq NoOldFrame
    BY <1>2, <1>6 DEF FPcInv, FPcCommitting
  <2>4. ConfirmAck \notin Elems(fromPc')
    BY <1>2, <1>6 DEF FPcInv, FPcCommitting, ConfirmAck, Frame
  <2>5. Elems(toPc) \subseteq NewToPc \ Updates /\ \A f \in Elems(toPc) : f.type \in PcRequests
    BY <2>1 DEF Commits, Updates, NewToPc, ThisEpoch, Frames, ToPcTypes, PcRequests
  <2> QED
    BY <2>2, <2>3, <2>4, <2>5, <1>3, <1>4, <1>6
       DEF FPcInv, FPcBoot, FPcAsked, FPcPrepared, FPcCommitting, FPcCommitted, UnusedInv
<1>7. CASE /\ Head(fromPc) = ConfirmAck
           /\ group_state = "G_WAIT_PC_CONFIRM_ACK" /\ group_state' = "G_SEND_BASYS_CONFIRM"
  <2>1. HasConfirmed \/ PcGone
    BY <1>2, <1>7 DEF FPcInv, FPcCommitted
  <2> QED
    BY <2>1, <1>2, <1>3, <1>4, <1>7
       DEF FPcInv, FPcBoot, FPcAsked, FPcPrepared, FPcCommitting, FPcCommitted, UnusedInv, pcModes
<1> QED
  BY <1>1, <1>5, <1>6, <1>7, PcAckCases DEF CommitAck, ConfirmAck

\* What can be in the PC's receive buffer, and what its answer does to the line.
LEMMA FPcHandle ==
  ASSUME TypeOK, toPc # << >>, toPc' = Tail(toPc), NEW type \in PcAcks, Answer(type)
  PROVE  /\ Head(toPc) \in Elems(toPc) /\ Head(toPc) \in Frames(ToPcTypes)
         /\ Elems(toPc') \subseteq Elems(toPc)
         /\ \A A, B : Ordered(toPc, A, B) =>
              /\ Ordered(toPc', A, B)
              /\ Head(toPc) \in A => Elems(toPc') \subseteq B
         /\ Frame(type, Head(toPc).r) \in Frames(FromPcTypes)
         /\ Frame(type, Head(toPc).r).type = type
         /\ Frame(type, Head(toPc).r).r = Head(toPc).r
         /\ Elems(fromPc') = Elems(fromPc) \cup {Frame(type, Head(toPc).r)}
         /\ \A A, B : /\ Ordered(fromPc, A, B)
                      /\ Frame(type, Head(toPc).r) \in B \/ Elems(fromPc) \cap A = {}
                      => Ordered(fromPc', A, B)
<1> DEFINE e == Frame(type, Head(toPc).r)
<1>1. /\ Head(toPc) \in Elems(toPc) /\ Head(toPc) \in Frames(ToPcTypes)
      /\ Elems(toPc') \subseteq Elems(toPc)
      /\ \A A, B : Ordered(toPc, A, B) =>
           /\ Ordered(toPc', A, B)
           /\ Head(toPc) \in A => Elems(toPc') \subseteq B
  BY ElemsTail, OrderedTail DEF TypeOK
<1>2. Head(toPc).r \in Keys /\ type \in FromPcTypes
  BY <1>1, FrameFields DEF FromPcTypes
<1>3. e \in Frames(FromPcTypes) /\ e.type = type /\ e.r = Head(toPc).r
  BY <1>2, FrameType
<1>4. fromPc \in Seq(Frames(FromPcTypes)) /\ fromPc' = Append(fromPc, e)
  BY DEF Answer, TypeOK
<1> HIDE DEF e
<1>5. Elems(fromPc') = Elems(fromPc) \cup {e}
  BY <1>3, <1>4, ElemsAppend
<1>6. ASSUME NEW A, NEW B, Ordered(fromPc, A, B), e \in B \/ Elems(fromPc) \cap A = {}
      PROVE  Ordered(fromPc', A, B)
  BY <1>3, <1>4, <1>6, OrderedAppend
<1> QED
  BY <1>1, <1>3, <1>5, <1>6 DEF e

\* An UPDATE brings the PC, in a session or just started, to this epoch's R.
LEMMA FPcUpdate ==
  ASSUME TypeOK, ZyboInv, FPcInv, HandleUpdate, used' = used
  PROVE  FPcInv'
<1> USE DEF AskingPc, AskingBasys, CommitPc, CommitBasys, Switching, ConfirmPc, ConfirmBasys
<1> DEFINE f == Head(toPc)
           ack == Frame("PC_READY", f.r)
<1>1. /\ toPc # << >> /\ f.type = "PC_KEY_UPDATE" /\ toPc' = Tail(toPc)
      /\ UNCHANGED <<group_state, pending_random, active_key, ConfirmedR, KeyInUse, pc_sender>>
      /\ \/ HasConfirmed /\ f.r = ConfirmedR /\ UNCHANGED <<HasConfirmed, pc_pending, HasCommitted>>
         \/ /\ ~(HasConfirmed /\ f.r = ConfirmedR)
            /\ HasConfirmed' = FALSE /\ HasCommitted' = FALSE /\ pc_pending' = f.r
  BY ModesUpdate DEF HandleUpdate, PcReceives, pcModes, zyboVars
<1>2. "PC_READY" \in PcAcks /\ Answer("PC_READY")
  BY DEF HandleUpdate, PcAcks
<1>3. /\ f \in Elems(toPc) /\ f \in Frames(ToPcTypes)
      /\ Elems(toPc') \subseteq Elems(toPc)
      /\ \A A, B : Ordered(toPc, A, B) =>
           /\ Ordered(toPc', A, B)
           /\ f \in A => Elems(toPc') \subseteq B
      /\ ack \in Frames(FromPcTypes) /\ ack.type = "PC_READY" /\ ack.r = f.r
      /\ Elems(fromPc') = Elems(fromPc) \cup {ack}
      /\ \A A, B : /\ Ordered(fromPc, A, B)
                   /\ ack \in B \/ Elems(fromPc) \cap A = {}
                   => Ordered(fromPc', A, B)
  BY <1>1, <1>2, FPcHandle
<1>4. f.r = pending_random => ack = Frame("PC_READY", pending_random)
  OBVIOUS
<1>5. ack # CommitAck /\ ack # ConfirmAck
  BY <1>3 DEF Frame, CommitAck, ConfirmAck
<1>6. /\ f.r = pending_random <=> f \in Updates
      /\ f \notin Commits
      /\ f.r = pending_random => ack \in NoOldAck /\ ack \in NoOldFrame
  BY <1>1, <1>3 DEF Updates, Commits, NoOldAck, NoOldFrame, ThisEpoch, Frames
<1>7. UNCHANGED <<Updates, Commits, NewToPc, NewAcks, NoOldAck, NoOldFrame, CommitAck, ConfirmAck>>
  BY <1>1 DEF Updates, Commits, NewToPc, NewAcks, NoOldAck, NoOldFrame, CommitAck, ConfirmAck,
     ThisEpoch
<1> HIDE DEF f, ack
<1>8. group_state # "G_BOOT"
  BY <1>1 DEF FPcInv, FPcBoot
<1>9. CASE group_state \in AskingPc
  <2>1. active_key # pending_random
    BY <1>9 DEF ZyboInv
  <2>2. f.r = pending_random /\ f \in Updates
    BY <1>1, <1>3, <1>6, <1>9 DEF FPcInv, FPcAsked
  <2>3. PcHasR'
    BY <1>1, <1>9, <2>1, <2>2 DEF FPcInv, FPcAsked, PcInSession, PcHasR, PcGone, NewPc
  <2>4. /\ Elems(toPc') \subseteq Updates
        /\ Ordered(toPc', Updates, Updates) /\ Ordered(fromPc', NewAcks, NoOldAck)
    BY <1>3, <1>6, <1>9, <2>2 DEF FPcInv, FPcAsked
  <2>5. FPcAsked'
    BY <1>1, <1>3, <1>7, <1>9, <2>2, <2>3, <2>4 DEF FPcInv, FPcAsked
  <2> QED
    BY <2>5, <1>1, <1>8, <1>9
       DEF FPcInv, FPcBoot, FPcPrepared, FPcCommitting, FPcCommitted, UnusedInv
<1>10. CASE group_state \in AskingBasys
  <2>1. f.r = pending_random
    BY <1>3, <1>6, <1>10 DEF FPcInv, FPcPrepared
  <2>2. PcHasR'
    BY <1>1, <1>10, <2>1 DEF FPcInv, FPcPrepared, PcHasR, PcGone, NewPc
  <2>3. FPcPrepared'
    BY <1>1, <1>3, <1>4, <1>7, <1>10, <2>1, <2>2 DEF FPcInv, FPcPrepared, PcAcks
  <2> QED
    BY <2>3, <1>1, <1>8, <1>10
       DEF FPcInv, FPcBoot, FPcAsked, FPcCommitting, FPcCommitted, UnusedInv
<1>11. CASE group_state \in CommitPc
  <2>1. f \in Updates /\ f.r = pending_random
    BY <1>3, <1>6, <1>11 DEF FPcInv, FPcCommitting
  <2>2. ~used /\ CommitAck \notin Elems(fromPc)
    BY <1>3, <1>6, <1>11 DEF FPcInv, FPcCommitting
  <2>3. PcHasR \/ PcGone
    BY <1>3, <1>6, <1>11, <2>1 DEF FPcInv, FPcCommitting
  <2>4. PcHasR'
    BY <1>1, <2>1, <2>3 DEF PcHasR, PcGone, NewPc
  <2>5. Ordered(toPc', Commits, Commits) /\ Ordered(fromPc', {CommitAck}, NoOldFrame)
    BY <1>3, <1>6, <1>11, <2>1 DEF FPcInv, FPcCommitting
  <2>6. FPcCommitting'
    BY <1>1, <1>3, <1>5, <1>6, <1>7, <1>11, <2>1, <2>2, <2>4, <2>5 DEF FPcInv, FPcCommitting
  <2> QED
    BY <2>6, <1>1, <1>8, <1>11
       DEF FPcInv, FPcBoot, FPcAsked, FPcPrepared, FPcCommitted, UnusedInv
<1>12. CASE group_state \in CommitBasys \cup Switching \cup ConfirmPc \cup ConfirmBasys \cup {"G_RUN"}
  BY <1>3, <1>6, <1>12 DEF FPcInv, FPcCommitted, NewToPc, ThisEpoch
<1> QED
  BY <1>8, <1>9, <1>10, <1>11, <1>12 DEF TypeOK, GroupStates

\* COMMIT: only a PC that waits for it, in this epoch or the last one, obeys.
LEMMA FPcCommit ==
  ASSUME TypeOK, ZyboInv, FPcInv, HandleCommit, used' = used
  PROVE  FPcInv'
<1> USE DEF AskingPc, AskingBasys, CommitPc, CommitBasys, Switching, ConfirmPc, ConfirmBasys
<1> DEFINE f == Head(toPc)
           ack == Frame("PC_COMMIT_ACK", f.r)
<1>1. /\ toPc # << >> /\ f.type = "PC_KEY_COMMIT" /\ toPc' = Tail(toPc) /\ f.r = pc_pending
      /\ UNCHANGED <<group_state, pending_random, active_key, pc_sender>>
      /\ UNCHANGED <<HasConfirmed, ConfirmedR, pc_pending>>
      /\ HasCommitted' = TRUE
      /\ KeyInUse' = IF HasCommitted THEN KeyInUse ELSE pc_pending
  BY ModesCommit DEF HandleCommit, PcReceives, zyboVars
<1>2. "PC_COMMIT_ACK" \in PcAcks /\ Answer("PC_COMMIT_ACK")
  BY DEF HandleCommit, PcAcks
<1>3. /\ f \in Elems(toPc) /\ f \in Frames(ToPcTypes)
      /\ Elems(toPc') \subseteq Elems(toPc)
      /\ \A A, B : Ordered(toPc, A, B) =>
           /\ Ordered(toPc', A, B)
           /\ f \in A => Elems(toPc') \subseteq B
      /\ ack \in Frames(FromPcTypes) /\ ack.type = "PC_COMMIT_ACK" /\ ack.r = f.r
      /\ Elems(fromPc') = Elems(fromPc) \cup {ack}
      /\ \A A, B : /\ Ordered(fromPc, A, B)
                   /\ ack \in B \/ Elems(fromPc) \cap A = {}
                   => Ordered(fromPc', A, B)
  BY <1>1, <1>2, FPcHandle
<1>4. ack # ConfirmAck
  BY <1>3 DEF Frame, ConfirmAck
<1>5. /\ f \notin Updates
      /\ f.r = pending_random <=> f \in Commits
      /\ f.r = pending_random => ack \in NoOldAck /\ ack \in NoOldFrame
  BY <1>1, <1>3 DEF Updates, Commits, NoOldAck, NoOldFrame, ThisEpoch, Frames
<1>6. UNCHANGED <<Updates, Commits, NewToPc, NewAcks, NoOldAck, NoOldFrame, CommitAck, ConfirmAck>>
  BY <1>1 DEF Updates, Commits, NewToPc, NewAcks, NoOldAck, NoOldFrame, CommitAck, ConfirmAck,
     ThisEpoch
<1> HIDE DEF f, ack
<1>7. group_state # "G_BOOT"
  BY <1>1 DEF FPcInv, FPcBoot
<1>8. CASE group_state \in AskingPc
  <2>1. active_key # pending_random
    BY <1>8 DEF ZyboInv
  <2>2. f.r = active_key /\ active_key # NoRandom
    BY <1>1, <1>3, <1>8 DEF FPcInv, FPcAsked
  <2>3. PcInSession /\ Elems(fromPc) \cap NewAcks = {}
    BY <1>1, <1>3, <1>5, <1>8, <2>1, <2>2 DEF FPcInv, FPcAsked, PcHasR, PcGone, NewPc
  <2>4. PcInSession'
    BY <2>3, <1>1 DEF PcInSession
  <2>5. ack \notin NewAcks
    BY <1>3, <2>1, <2>2 DEF NewAcks, ThisEpoch
  <2>6. Elems(fromPc') \cap NewAcks = {}
    BY <1>3, <2>3, <2>5
  <2>7. Ordered(toPc', Updates, Updates) /\ Ordered(fromPc', NewAcks, NoOldAck)
    BY <1>3, <1>8, <2>3 DEF FPcInv, FPcAsked
  <2>8. FPcAsked'
    BY <1>1, <1>3, <1>6, <1>8, <2>1, <2>2, <2>4, <2>6, <2>7 DEF FPcInv, FPcAsked
  <2> QED
    BY <2>8, <1>1, <1>7, <1>8
       DEF FPcInv, FPcBoot, FPcPrepared, FPcCommitting, FPcCommitted, UnusedInv
<1>9. CASE group_state \in AskingBasys
  BY <1>3, <1>5, <1>9 DEF FPcInv, FPcPrepared
<1>10. CASE group_state \in CommitPc
  <2>1. f \in Commits /\ f.r = pending_random
    BY <1>3, <1>5, <1>10 DEF FPcInv, FPcCommitting
  <2>2. (PcHasR \/ PcSwitched) /\ ~HasConfirmed
    <3>1. ~PcGone
      BY <2>1, <1>1, <1>10, RandomsAssumption DEF PcGone, ZyboInv
    <3> QED
      BY <3>1, <1>10 DEF FPcInv, FPcCommitting, PcHasR, NewPc
  <2>3. PcSwitched' /\ ~HasConfirmed'
    BY <1>1, <2>1, <2>2 DEF PcHasR, NewPc, PcSwitched
  <2>4. Elems(toPc') \subseteq Commits
    BY <1>3, <1>10, <2>1 DEF FPcInv, FPcCommitting
  <2>5. Ordered(toPc', Commits, Commits) /\ Ordered(fromPc', {CommitAck}, NoOldFrame)
    BY <1>3, <1>5, <1>10, <2>1 DEF FPcInv, FPcCommitting
  <2>6. ~PcHasR'
    BY <2>3 DEF PcSwitched, PcHasR, NewPc
  <2>7. FPcCommitting'
    BY <1>1, <1>3, <1>5, <1>6, <1>10, <2>1, <2>3, <2>4, <2>5, <2>6 DEF FPcInv, FPcCommitting
  <2> QED
    BY <2>7, <1>1, <1>7, <1>10
       DEF FPcInv, FPcBoot, FPcAsked, FPcPrepared, FPcCommitted, UnusedInv
<1>11. CASE group_state \in CommitBasys \cup Switching \cup ConfirmPc \cup ConfirmBasys \cup {"G_RUN"}
  <2>1. f.r = pending_random
    BY <1>3, <1>11 DEF FPcInv, FPcCommitted, NewToPc, ThisEpoch
  <2>2. PcSwitched
    BY <2>1, <1>1, <1>7, <1>11, RandomsAssumption DEF FPcInv, FPcCommitted, PcGone, ZyboInv
  <2>3. PcSwitched'
    BY <2>2, <1>1 DEF PcSwitched
  <2>4. FPcCommitted'
    BY <1>1, <1>3, <1>4, <1>5, <1>6, <1>11, <2>1, <2>2, <2>3
       DEF FPcInv, FPcCommitted, PcGone, PcSwitched
  <2> QED
    BY <2>4, <1>1, <1>7, <1>11
       DEF FPcInv, FPcBoot, FPcAsked, FPcPrepared, FPcCommitting, UnusedInv
<1> QED
  BY <1>7, <1>8, <1>9, <1>10, <1>11 DEF TypeOK, GroupStates

\* CONFIRM: the session of a PC that has switched begins.
LEMMA FPcConfirm ==
  ASSUME TypeOK, ZyboInv, FPcInv, HandleConfirm, used' = used
  PROVE  FPcInv'
<1> USE DEF AskingPc, AskingBasys, CommitPc, CommitBasys, Switching, ConfirmPc, ConfirmBasys
<1> DEFINE f == Head(toPc)
           ack == Frame("PC_CONFIRM_ACK", f.r)
<1>1. /\ toPc # << >> /\ f.type = "PC_KEY_CONFIRM" /\ toPc' = Tail(toPc) /\ f.r = pc_pending
      /\ UNCHANGED <<group_state, pending_random, active_key, pc_sender>>
      /\ UNCHANGED <<pc_pending, HasCommitted, KeyInUse>>
      /\ HasConfirmed' = TRUE /\ ConfirmedR' = pc_pending
  BY ModesConfirm DEF HandleConfirm, PcReceives, zyboVars
<1>2. "PC_CONFIRM_ACK" \in PcAcks /\ Answer("PC_CONFIRM_ACK")
  BY DEF HandleConfirm, PcAcks
<1>3. /\ f \in Elems(toPc) /\ f \in Frames(ToPcTypes)
      /\ Elems(toPc') \subseteq Elems(toPc)
      /\ \A A, B : Ordered(toPc, A, B) =>
           /\ Ordered(toPc', A, B)
           /\ f \in A => Elems(toPc') \subseteq B
      /\ ack \in Frames(FromPcTypes) /\ ack.type = "PC_CONFIRM_ACK" /\ ack.r = f.r
      /\ Elems(fromPc') = Elems(fromPc) \cup {ack}
      /\ \A A, B : /\ Ordered(fromPc, A, B)
                   /\ ack \in B \/ Elems(fromPc) \cap A = {}
                   => Ordered(fromPc', A, B)
  BY <1>1, <1>2, FPcHandle
<1>4. /\ f \notin Updates /\ f \notin Commits
      /\ f.r = pending_random => ack \in NoOldFrame
  BY <1>1, <1>3 DEF Updates, Commits, NoOldFrame, ThisEpoch, Frames
<1>5. UNCHANGED <<Updates, Commits, NewToPc, NewAcks, NoOldAck, NoOldFrame, CommitAck, ConfirmAck>>
  BY <1>1 DEF Updates, Commits, NewToPc, NewAcks, NoOldAck, NoOldFrame, CommitAck, ConfirmAck,
     ThisEpoch
<1> HIDE DEF f, ack
<1>6. group_state # "G_BOOT"
  BY <1>1 DEF FPcInv, FPcBoot
<1>7. CASE group_state \in AskingPc
  <2>1. active_key # pending_random
    BY <1>7 DEF ZyboInv
  <2>2. f.r = active_key /\ active_key # NoRandom
    BY <1>1, <1>3, <1>7 DEF FPcInv, FPcAsked
  <2>3. PcInSession /\ Elems(fromPc) \cap NewAcks = {}
    BY <1>1, <1>3, <1>4, <1>7, <2>1, <2>2 DEF FPcInv, FPcAsked, PcHasR, PcGone, NewPc
  <2>4. PcInSession'
    BY <2>3, <1>1 DEF PcInSession
  <2>5. ack \notin NewAcks
    BY <1>3, <2>1, <2>2 DEF NewAcks, ThisEpoch
  <2>6. Elems(fromPc') \cap NewAcks = {}
    BY <1>3, <2>3, <2>5
  <2>7. Ordered(toPc', Updates, Updates) /\ Ordered(fromPc', NewAcks, NoOldAck)
    BY <1>3, <1>7, <2>3 DEF FPcInv, FPcAsked
  <2>8. FPcAsked'
    BY <1>1, <1>3, <1>5, <1>7, <2>1, <2>2, <2>4, <2>6, <2>7 DEF FPcInv, FPcAsked
  <2> QED
    BY <2>8, <1>1, <1>6, <1>7
       DEF FPcInv, FPcBoot, FPcPrepared, FPcCommitting, FPcCommitted, UnusedInv
<1>8. CASE group_state \in AskingBasys \cup CommitPc
  BY <1>3, <1>4, <1>8 DEF FPcInv, FPcPrepared, FPcCommitting
<1>9. CASE group_state \in CommitBasys \cup Switching \cup ConfirmPc \cup ConfirmBasys \cup {"G_RUN"}
  <2>1. f.r = pending_random
    BY <1>3, <1>9 DEF FPcInv, FPcCommitted, NewToPc, ThisEpoch
  <2>2. PcSwitched
    BY <2>1, <1>1, <1>6, <1>9, RandomsAssumption DEF FPcInv, FPcCommitted, PcGone, ZyboInv
  <2>3. PcSwitched' /\ HasConfirmed'
    BY <2>2, <1>1 DEF PcSwitched
  <2>4. FPcCommitted'
    BY <1>1, <1>3, <1>4, <1>5, <1>9, <2>1, <2>3 DEF FPcInv, FPcCommitted
  <2> QED
    BY <2>4, <1>1, <1>6, <1>9
       DEF FPcInv, FPcBoot, FPcAsked, FPcPrepared, FPcCommitting, UnusedInv
<1> QED
  BY <1>6, <1>7, <1>8, <1>9 DEF TypeOK, GroupStates

\* A command is sealed under the key of the client that is running.
LEMMA FPcCommand ==
  ASSUME TypeOK, ZyboInv, FPcInv, SendCommand, used' = (used \/ KeyInUse = pending_random)
  PROVE  FPcInv'
<1> USE DEF AskingPc, AskingBasys, CommitPc, CommitBasys, Switching, ConfirmPc, ConfirmBasys
<1> DEFINE e == Frame("PC_TO_ZYBO", KeyInUse)
<1>1. /\ pc_sender = "checked" /\ pc_sender' = "idle" /\ fromPc' = Append(fromPc, e)
      /\ UNCHANGED <<group_state, pending_random, active_key, toPc, pcModes>>
  BY ModesSend DEF SendCommand, zyboVars
<1>2. /\ "PC_TO_ZYBO" \in FromPcTypes /\ "PC_TO_ZYBO" \notin PcAcks
      /\ KeyInUse \in Keys /\ fromPc \in Seq(Frames(FromPcTypes))
  BY ModesType DEF FromPcTypes, PcAcks, TypeOK
<1>3. e \in Frames(FromPcTypes) /\ e.type = "PC_TO_ZYBO" /\ e.r = KeyInUse
  BY <1>2, FrameType
<1>4. e # CommitAck /\ e # ConfirmAck
  BY <1>3 DEF Frame, CommitAck, ConfirmAck
<1> HIDE DEF e
<1>5. Elems(fromPc') = Elems(fromPc) \cup {e}
  BY <1>1, <1>2, <1>3, ElemsAppend
<1>6. ASSUME NEW A, NEW B, Ordered(fromPc, A, B), e \in B \/ Elems(fromPc) \cap A = {}
      PROVE  Ordered(fromPc', A, B)
  BY <1>1, <1>2, <1>3, <1>6, OrderedAppend
<1>7. e \in NoOldAck /\ e \notin NewAcks /\ (KeyInUse = pending_random => e \in NoOldFrame)
  BY <1>2, <1>3, FrameFields DEF NoOldAck, NewAcks, ThisEpoch, NoOldFrame
<1>8. UNCHANGED <<Updates, Commits, NewToPc, NewAcks, NoOldAck, NoOldFrame, CommitAck, ConfirmAck>>
  BY <1>1 DEF Updates, Commits, NewToPc, NewAcks, NoOldAck, NoOldFrame, CommitAck, ConfirmAck,
     ThisEpoch
<1>9. ~PcGone
  BY <1>1 DEF PcGone
<1>10. group_state # "G_BOOT"
  BY <1>9 DEF FPcInv, FPcBoot
<1>11. CASE group_state \in AskingPc
  <2>1. active_key # pending_random /\ KeyInUse = active_key
    BY <1>1, <1>9, <1>11 DEF ZyboInv, FPcInv, FPcAsked, PcInSession, PcHasR
  <2>2. Ordered(fromPc', NewAcks, NoOldAck)
    BY <1>6, <1>7, <1>11 DEF FPcInv, FPcAsked
  <2>3. FPcAsked'
    <3>1. (PcInSession => PcInSession') /\ (PcHasR => PcHasR')
      BY <1>1 DEF PcInSession, PcHasR, NewPc, pcModes
    <3> QED
      BY <1>1, <1>3, <1>5, <1>7, <1>8, <1>9, <1>11, <2>1, <2>2, <3>1 DEF FPcInv, FPcAsked
  <2> QED
    BY <2>1, <2>3, <1>1, <1>10, <1>11
       DEF FPcInv, FPcBoot, FPcPrepared, FPcCommitting, FPcCommitted, UnusedInv
<1>12. CASE group_state \in AskingBasys
  <2>1. active_key # pending_random /\ KeyInUse = active_key /\ PcHasR
    BY <1>1, <1>9, <1>12 DEF ZyboInv, FPcInv, FPcPrepared, PcHasR
  <2>2. PcHasR'
    BY <1>1, <2>1 DEF PcHasR, NewPc, pcModes
  <2>3. FPcPrepared'
    BY <1>1, <1>2, <1>3, <1>5, <1>8, <1>12, <2>1, <2>2 DEF FPcInv, FPcPrepared
  <2> QED
    BY <2>1, <2>3, <1>1, <1>10, <1>12
       DEF FPcInv, FPcBoot, FPcAsked, FPcCommitting, FPcCommitted, UnusedInv
<1>13. CASE group_state \in CommitPc
  <2>1. active_key # pending_random
    BY <1>13 DEF ZyboInv
  <2>2. CASE PcHasR
    <3>1. KeyInUse = active_key /\ ~used /\ CommitAck \notin Elems(fromPc)
      BY <1>1, <1>13, <2>2 DEF FPcInv, FPcCommitting, PcHasR
    <3>2. Ordered(fromPc', {CommitAck}, NoOldFrame)
      BY <3>1, <1>6, <1>13 DEF FPcInv, FPcCommitting
    <3>3. PcHasR'
      BY <1>1, <2>2, <3>1 DEF PcHasR, NewPc, pcModes
    <3>4. FPcCommitting'
      BY <1>1, <1>3, <1>4, <1>5, <1>7, <1>8, <1>13, <2>1, <3>1, <3>2, <3>3 DEF FPcInv, FPcCommitting
    <3> QED
      BY <3>4, <1>1, <1>10, <1>13
         DEF FPcInv, FPcBoot, FPcAsked, FPcPrepared, FPcCommitted, UnusedInv
  <2>3. CASE PcSwitched /\ ~HasConfirmed /\ Elems(toPc) \subseteq Commits
    <3>1. KeyInUse = pending_random
      BY <2>3 DEF PcSwitched
    <3>2. Ordered(fromPc', {CommitAck}, NoOldFrame)
      BY <3>1, <1>6, <1>7, <1>13 DEF FPcInv, FPcCommitting
    <3>3. PcSwitched' /\ ~PcHasR' /\ ~HasConfirmed'
      BY <1>1, <2>3 DEF PcSwitched, PcHasR, NewPc, pcModes
    <3>4. FPcCommitting'
      BY <1>1, <1>3, <1>4, <1>5, <1>7, <1>8, <1>13, <2>3, <3>2, <3>3 DEF FPcInv, FPcCommitting
    <3> QED
      BY <3>4, <1>1, <1>10, <1>13
         DEF FPcInv, FPcBoot, FPcAsked, FPcPrepared, FPcCommitted, UnusedInv
  <2> QED
    BY <2>2, <2>3, <1>9, <1>13 DEF FPcInv, FPcCommitting
<1>14. CASE group_state \in CommitBasys \cup Switching \cup ConfirmPc \cup ConfirmBasys \cup {"G_RUN"}
  <2>1. PcSwitched /\ KeyInUse = pending_random
    BY <1>9, <1>14 DEF FPcInv, FPcCommitted, PcSwitched
  <2>2. PcSwitched'
    BY <1>1, <2>1 DEF PcSwitched, pcModes
  <2>3. FPcCommitted'
    BY <1>1, <1>4, <1>5, <1>7, <1>8, <1>9, <1>14, <2>1, <2>2 DEF FPcInv, FPcCommitted, pcModes
  <2> QED
    BY <2>3, <1>1, <1>10, <1>14
       DEF FPcInv, FPcBoot, FPcAsked, FPcPrepared, FPcCommitting, UnusedInv
<1> QED
  BY <1>10, <1>11, <1>12, <1>13, <1>14 DEF TypeOK, GroupStates

\* A step that is no command and begins no epoch is one of these.
LEMMA ContinueCases ==
  ASSUME TypeOK, Continue
  PROVE  /\ used' = used /\ was_reset' = was_reset /\ ~(Boot \/ ExpireSession)
         /\ \/ SendPcUpdate \/ SendPcCommit \/ SendPcConfirm \/ SendReport
            \/ SendBasysUpdate \/ SendBasysCommit \/ SendBasysConfirm
            \/ PollOldReady \/ PollOldCommit \/ PollNew
            \/ RetryPcUpdate \/ RetryPcCommit \/ RetryPcConfirm
            \/ RetryPollReady \/ RetryPollCommit \/ RetryPollConfirm
            \/ SwitchLocal \/ LocalKeyDone
            \/ ReceivePcAck \/ CollidingArrivals
            \/ ReceivePcCommand \/ LoseFromPc \/ LoseToPc \/ HandleOther
            \/ EndTransfer \/ CheckSessionReady
            \/ StartTransfer \/ InstallBasysKey \/ LoadStatus \/ SendRackCommand
            \/ HandleUpdate \/ HandleCommit \/ HandleConfirm
            \/ InstallCodecs \/ BecomeReady
<1>1. ~(Boot \/ ExpireSession)
  BY DEF Continue, Boot, ExpireSession, BeginEpoch
<1>2. ~SendCommand
  BY DEF Continue, SendCommand, CheckSessionReady
<1> QED
  BY <1>1, <1>2 DEF Continue, Next, ZyboNext, BasysNext, PcNext

LEMMA FPcStep ==
  ASSUME TypeOK, ZyboInv, FPcInv, [FaultsNext]_allVars
  PROVE  FPcInv'
<1>1. CASE Begin
  BY <1>1, FPcBegin DEF Begin
<1>2. CASE Send
  BY <1>2, FPcCommand, ModesSend DEF Send
<1>3. CASE RestartPc
  BY <1>3, FPcRestart
<1>4. CASE ResetBasys \/ UNCHANGED allVars
  <2>1. UNCHANGED fpcView
    BY <1>4, ModesStutter DEF ResetBasys, allVars, vars, faultVars, fpcView, zyboVars
  <2> QED
    BY <2>1, FPcStutter
<1>5. CASE Continue
  <2> USE <1>5, ContinueCases
  <2>1. CASE SendPcUpdate \/ SendPcCommit \/ SendPcConfirm \/ SendReport
    BY <2>1, FPcSend
  <2>2. CASE \/ SendBasysUpdate \/ SendBasysCommit \/ SendBasysConfirm
             \/ PollOldReady \/ PollOldCommit \/ PollNew
             \/ RetryPcUpdate \/ RetryPcCommit \/ RetryPcConfirm
             \/ RetryPollReady \/ RetryPollCommit \/ RetryPollConfirm
             \/ SwitchLocal \/ LocalKeyDone
    <3>1. UNCHANGED <<pending_random, pcModes, pc_sender, uartVars>>
      BY <2>2, ModesStutter DEF SendBasysUpdate, SendBasysCommit, SendBasysConfirm, PollOldReady,
         PollOldCommit, PollNew, SendBasys, RetryPcUpdate, RetryPcCommit, RetryPcConfirm, RetryPc,
         RetryPollReady, RetryPollCommit, RetryPollConfirm, Retry, SwitchLocal, LocalKeyDone
    <3>2. \/ /\ UNCHANGED active_key
             /\ \E stage \in {AskingPc, AskingBasys, CommitPc, CommitBasys, Switching, ConfirmPc,
                  ConfirmBasys} : group_state \in stage /\ group_state' \in stage
          \/ group_state \in Switching /\ group_state' \in ConfirmPc
      BY <2>2 DEF SendBasysUpdate, SendBasysCommit, SendBasysConfirm, PollOldReady, PollOldCommit,
         PollNew, SendBasys, RetryPcUpdate, RetryPcCommit, RetryPcConfirm, RetryPc, RetryPollReady,
         RetryPollCommit, RetryPollConfirm, Retry, SwitchLocal, LocalKeyDone,
         AskingPc, AskingBasys, CommitPc, CommitBasys, Switching, ConfirmPc, ConfirmBasys
    <3> QED
      BY <3>1, <3>2, FPcMove
  <2>3. CASE ReceivePcAck \/ CollidingArrivals
    BY <2>3, FPcAck, ModesStutter DEF ReceivePcAck, CollidingArrivals
  <2>4. CASE ReceivePcCommand \/ LoseFromPc \/ LoseToPc \/ HandleOther
    BY <2>4, FPcLess, ModesStutter
       DEF ReceivePcCommand, LoseFromPc, LoseToPc, HandleOther, PcReceives, zyboVars
  <2>5. CASE EndTransfer
    <3>1. /\ group_state' = AfterBasysAck(spi_miso.type)
          /\ UNCHANGED <<pending_random, active_key, pcModes, pc_sender, uartVars>>
      BY <2>5, ModesStutter DEF EndTransfer
    <3> QED
      BY <3>1, BasysAckCases, FPcMove DEF AskingPc, AskingBasys, CommitPc, CommitBasys,
         Switching, ConfirmPc, ConfirmBasys
  <2>6. CASE CheckSessionReady
    <3>1. /\ HasConfirmed
          /\ UNCHANGED <<group_state, pending_random, active_key, pcModes, uartVars, used>>
      BY <2>6, ModesStutter DEF CheckSessionReady, HasConfirmed, zyboVars
    <3>2. ~PcGone /\ ~PcHasR
      BY <3>1 DEF PcGone, PcHasR, NewPc
    <3>3. (PcInSession => PcInSession') /\ (PcSwitched => PcSwitched') /\ ~PcHasR'
      BY <3>1 DEF PcInSession, PcSwitched, PcHasR, NewPc, pcModes
    <3>4. UNCHANGED <<Updates, Commits, NewToPc, NewAcks, NoOldAck, NoOldFrame, CommitAck, ConfirmAck,
                      Elems(toPc), Elems(fromPc)>>
      BY <3>1 DEF Updates, Commits, NewToPc, NewAcks, NoOldAck, NoOldFrame, CommitAck, ConfirmAck,
         ThisEpoch, uartVars
    <3>5. FPcAsked'
      BY <3>1, <3>2, <3>3, <3>4 DEF FPcInv, FPcAsked, uartVars
    <3>6. FPcPrepared'
      BY <3>1, <3>2 DEF FPcInv, FPcPrepared
    <3>7. FPcCommitting'
      BY <3>1, <3>2, <3>3, <3>4 DEF FPcInv, FPcCommitting, uartVars, pcModes
    <3>8. FPcCommitted'
      BY <3>1, <3>2, <3>3, <3>4 DEF FPcInv, FPcCommitted, pcModes
    <3> QED
      BY <3>1, <3>2, <3>5, <3>6, <3>7, <3>8 DEF FPcInv, FPcBoot, UnusedInv
  <2>7. CASE StartTransfer \/ InstallBasysKey \/ LoadStatus \/ SendRackCommand
    <3>1. UNCHANGED fpcView
      BY <2>7, ModesStutter DEF StartTransfer, InstallBasysKey, LoadStatus, SendRackCommand,
         fpcView, zyboVars
    <3> QED
      BY <3>1, FPcStutter
  <2>8. CASE InstallCodecs \/ BecomeReady
    <3>1. UNCHANGED fpcView
      BY <2>8, ModesAssign DEF InstallCodecs, BecomeReady, fpcView, zyboVars
    <3> QED
      BY <3>1, FPcStutter
  <2> QED
    BY <2>1, <2>2, <2>3, <2>4, <2>5, <2>6, <2>7, <2>8, FPcUpdate, FPcCommit, FPcConfirm
<1> QED
  BY <1>1, <1>2, <1>3, <1>4, <1>5 DEF FaultsNext

-----------------------------------------------------------------------------
(* Types and the coordinator, through faults.                                *)

\* A step of FaultsNext is a step of GroupRekey, a restart or a reset.
LEMMA FaultsAreSteps ==
  ASSUME [FaultsNext]_allVars
  PROVE  [Next]_vars \/ RestartPc \/ ResetBasys
BY DEF FaultsNext, Begin, Send, Continue, Next, ZyboNext, PcNext, allVars

LEMMA FaultsTypeStep ==
  ASSUME TypeFaultsOK, [FaultsNext]_allVars
  PROVE  TypeFaultsOK'
<1> USE DEF TypeFaultsOK
<1>1. TypeOK'
  <2>1. CASE [Next]_vars
    BY <2>1, TypeStep
  <2>2. CASE RestartPc
    BY <2>2 DEF RestartPc, TypeOK, Keys, zyboVars, uartVars, spiVars, basysVars
  <2>3. CASE ResetBasys
    <3>1. /\ UNCHANGED <<zyboVars, uartVars, pcVars, pc_sender, spi_pending>>
          /\ bs_pending' \in Keys /\ bs_key' \in Keys
          /\ spi_mosi' \in Frames(MosiTypes) /\ spi_miso' \in Frames(MisoTypes)
          /\ bs_tx' \in Frames(MisoTypes)
          /\ bs_tx_type' \in MisoTypes /\ bs_inflight' \in MisoTypes
          /\ bs_rekey' \in BOOLEAN /\ bs_established' \in BOOLEAN
          /\ bs_switch' \in BOOLEAN /\ bs_mgmt_pending' \in BOOLEAN
      BY <2>3, NoFrameFacts DEF ResetBasys, Keys, MisoTypes
    <3> QED
      BY <3>1 DEF TypeOK, zyboVars, uartVars, pcVars
  <2> QED
    BY <2>1, <2>2, <2>3, FaultsAreSteps
<1>2. restarts' \in 0..MaxRestarts /\ resets' \in 0..MaxResets
  BY FaultsAssumption DEF FaultsNext, Begin, Send, Continue, RestartPc, ResetBasys, allVars, faultVars
<1>3. used' \in BOOLEAN /\ was_reset' \in BOOLEAN /\ stuck' \in BOOLEAN
  BY DEF FaultsNext, Begin, Send, Continue, RestartPc, ResetBasys, allVars, faultVars
<1> QED
  BY <1>1, <1>2, <1>3

LEMMA FaultsZyboStep ==
  ASSUME TypeOK, ZyboInv, [FaultsNext]_allVars
  PROVE  ZyboInv'
<1>1. CASE [Next]_vars
  BY <1>1, ZyboInvStep
<1>2. CASE RestartPc \/ ResetBasys
  BY <1>2 DEF RestartPc, ResetBasys, zyboVars, ZyboInv
<1> QED
  BY <1>1, <1>2, FaultsAreSteps

-----------------------------------------------------------------------------
(* The Basys3, through resets.                                               *)

\* What FBasysInv speaks of.
fbasysView == <<pending_random, active_key, spiVars, basysVars, was_reset>>

LEMMA FBasysStutter ==
  ASSUME FBasysInv, UNCHANGED fbasysView,
         \/ UNCHANGED group_state
         \/ group_state \in AskingPc /\ group_state' \in AskingPc \cup {"G_SEND_BASYS_UPDATE"}
         \/ group_state \in CommitPc /\ group_state' \in CommitPc \cup {"G_SEND_BASYS_COMMIT"}
         \/ group_state \in ConfirmPc /\ group_state' \in ConfirmPc \cup {"G_SEND_BASYS_CONFIRM"}
         \/ group_state = "G_SWITCH_LOCAL" /\ group_state' = "G_WAIT_LOCAL_KEY"
  PROVE  FBasysInv'
<1>1. UNCHANGED <<Calm, Reset, FShifted, FConfirmed, SpiIdle>>
  BY DEF fbasysView, spiVars, basysVars, Calm, Reset, FShifted, FConfirmed, SpiIdle
<1>2. \A t : UNCHANGED <<Offers(t), Sent(t), Polling(t)>>
  BY DEF fbasysView, spiVars, basysVars, Offers, Sent, Polling, SpiIdle
<1>3. UNCHANGED <<pending_random, active_key, spi_pending, spi_mosi, spi_miso>>
  BY DEF fbasysView, spiVars
<1> QED
  BY <1>1, <1>2, <1>3 DEF FBasysInv, AppFrames, AskingPc, CommitPc, Switching, ConfirmPc

LEMMA FBasysBegin ==
  ASSUME ZyboInv, FBasysInv, Boot \/ ExpireSession, ~was_reset'
  PROVE  FBasysInv'
<1>1. /\ group_state' = "G_SEND_PC_UPDATE" /\ group_state \in {"G_BOOT", "G_RUN"}
      /\ UNCHANGED <<active_key, spiVars, basysVars>>
  BY DEF Boot, ExpireSession, BeginEpoch
<1>2. active_key = pending_random
  BY <1>1 DEF ZyboInv
<1>3. Calm' /\ {spi_pending, spi_mosi} \subseteq AppFrames(active_key)
  BY <1>1, <1>2 DEF FBasysInv, Calm, FConfirmed, Reset, QuietTypes, AppFrames, SpiIdle, spiVars, basysVars
<1> QED
  BY <1>1, <1>3 DEF FBasysInv, AskingPc, CommitPc, Switching, ConfirmPc, AppFrames, spiVars

\* A reset puts the Basys3 back, and takes what is being shifted off the bus.
LEMMA FBasysReset ==
  ASSUME TypeOK, FBasysInv, ResetBasys
  PROVE  FBasysInv'
<1> USE NoFrameFacts
<1>1. /\ Calm' /\ Reset'
      /\ spi_mosi' = NoFrame /\ spi_miso' = NoFrame
      /\ UNCHANGED <<group_state, pending_random, active_key, spi_pending>>
  BY DEF ResetBasys, Calm, Reset, QuietTypes, zyboVars
<1>2. SpiIdle => SpiIdle'
  BY <1>1 DEF SpiIdle
<1>3. \A t : Sent(t) => Sent(t)' \/ SpiIdle'
  BY <1>1 DEF Sent, SpiIdle
<1>4. NoFrame \in AppFrames(active_key) /\ NoFrame \in AppFrames(pending_random)
  BY DEF AppFrames
<1>5. CASE group_state \in {"G_BOOT", "G_SEND_BASYS_UPDATE", "G_RUN"} \cup AskingPc
  BY <1>1, <1>2, <1>4, <1>5 DEF FBasysInv, AppFrames, AskingPc, CommitPc, Switching, ConfirmPc
<1>6. CASE group_state = "G_WAIT_BASYS_READY"
  BY <1>1, <1>2, <1>3, <1>6 DEF FBasysInv, Polling, Sent, AskingPc, CommitPc, Switching, ConfirmPc
<1>7. CASE group_state = "G_WAIT_BASYS_COMMIT_ACK"
  BY <1>1, <1>2, <1>3, <1>7 DEF FBasysInv, Polling, AskingPc, CommitPc, Switching, ConfirmPc
<1>8. CASE group_state = "G_WAIT_BASYS_CONFIRM_ACK"
  BY <1>1, <1>2, <1>3, <1>8 DEF FBasysInv, Polling, AskingPc, CommitPc, Switching, ConfirmPc
<1>9. CASE group_state \notin {"G_BOOT", "G_SEND_BASYS_UPDATE", "G_RUN", "G_WAIT_BASYS_READY",
             "G_WAIT_BASYS_COMMIT_ACK", "G_WAIT_BASYS_CONFIRM_ACK"} \cup AskingPc
  BY <1>1, <1>2, <1>9 DEF FBasysInv, AskingPc, CommitPc, Switching, ConfirmPc, TypeOK, GroupStates
<1> QED
  BY <1>5, <1>6, <1>7, <1>8, <1>9

\* The coordinator hands a frame to the SPI master.
LEMMA FBasysSend ==
  ASSUME FBasysInv, ZyboInv, was_reset' = was_reset,
         SendBasysUpdate \/ SendBasysCommit \/ SendBasysConfirm
         \/ PollOldReady \/ PollOldCommit \/ PollNew \/ SendRackCommand
  PROVE  FBasysInv'
<1>1. UNCHANGED <<pending_random, active_key, spi_mosi, spi_miso, basysVars>>
  BY DEF SendBasysUpdate, SendBasysCommit, SendBasysConfirm, PollOldReady,
     PollOldCommit, PollNew, SendBasys, SendRackCommand, zyboVars
<1>2. UNCHANGED <<Calm, Reset, FShifted, FConfirmed>>
  BY <1>1 DEF Calm, Reset, FShifted, FConfirmed, basysVars
<1>3. \A t : UNCHANGED Offers(t)
  BY <1>1 DEF Offers, basysVars
<1> QED
  BY <1>1, <1>2, <1>3 DEF FBasysInv, ZyboInv, SendBasysUpdate, SendBasysCommit, SendBasysConfirm,
     PollOldReady, PollOldCommit, PollNew, SendBasys, SendRackCommand, AppFrames, Sent, Polling,
     SpiIdle, AskingPc, CommitPc, Switching, ConfirmPc, zyboVars

LEMMA FBasysRetry ==
  ASSUME FBasysInv, was_reset' = was_reset,
         RetryPollReady \/ RetryPollCommit \/ RetryPollConfirm \/ LocalKeyDone
  PROVE  FBasysInv'
<1>1. UNCHANGED <<pending_random, spiVars, basysVars>>
  BY DEF RetryPollReady, RetryPollCommit, RetryPollConfirm, Retry, LocalKeyDone
<1>2. UNCHANGED <<Calm, Reset, FShifted, FConfirmed, SpiIdle>>
  BY <1>1 DEF Calm, Reset, FShifted, FConfirmed, SpiIdle, basysVars, spiVars
<1>3. \A t : UNCHANGED <<Offers(t)>>
  BY <1>1 DEF Offers, basysVars, spiVars
<1>4. SpiIdle => /\ \A t \in MosiTypes \ {"NONE"} : ~Sent(t)
                 /\ spi_pending # Frame("BASYS_KEY_UPDATE", pending_random)
  BY DEF SpiIdle, Sent, Frame, NoFrame, MosiTypes
<1>5. CASE RetryPollReady
  <2>1. SpiIdle /\ group_state = "G_WAIT_BASYS_READY" /\ group_state' = "G_SEND_BASYS_POLL_OLD_READY"
    BY <1>5 DEF RetryPollReady, Retry
  <2>2. Offers("BASYS_READY") \/ Reset
    BY <2>1, <1>4 DEF FBasysInv, MosiTypes
  <2> QED
    BY <2>1, <2>2, <1>1, <1>2, <1>3 DEF FBasysInv, AskingPc, CommitPc, Switching, ConfirmPc, spiVars
<1>6. CASE RetryPollCommit
  <2>1. SpiIdle /\ group_state = "G_WAIT_BASYS_COMMIT_ACK" /\ group_state' = "G_SEND_BASYS_POLL_OLD_COMMIT"
    BY <1>6 DEF RetryPollCommit, Retry
  <2>2. Offers("BASYS_COMMIT_ACK") \/ FShifted \/ Reset
    BY <2>1, <1>4 DEF FBasysInv, MosiTypes
  <2> QED
    BY <2>1, <2>2, <1>1, <1>2, <1>3 DEF FBasysInv, AskingPc, CommitPc, Switching, ConfirmPc, spiVars
<1>7. CASE RetryPollConfirm
  <2>1. SpiIdle /\ group_state = "G_WAIT_BASYS_CONFIRM_ACK" /\ group_state' = "G_SEND_BASYS_POLL_NEW"
    BY <1>7 DEF RetryPollConfirm, Retry
  <2>2. FConfirmed \/ Reset
    BY <2>1, <1>4 DEF FBasysInv, MosiTypes
  <2> QED
    BY <2>1, <2>2, <1>1, <1>2, <1>3 DEF FBasysInv, AskingPc, CommitPc, Switching, ConfirmPc, spiVars
<1>8. CASE LocalKeyDone
  <2>1. group_state = "G_WAIT_LOCAL_KEY" /\ group_state' = "G_SEND_PC_CONFIRM"
    BY <1>8 DEF LocalKeyDone
  <2>2. (FShifted \/ Reset) /\ SpiIdle
    BY <2>1 DEF FBasysInv, Switching
  <2> QED
    BY <2>1, <2>2, <1>1, <1>2, <1>3 DEF FBasysInv, AskingPc, CommitPc, Switching, ConfirmPc, spiVars
<1> QED
  BY <1>5, <1>6, <1>7, <1>8

\* Chip select falls, a key is installed, a status is loaded.
LEMMA FBasysBus ==
  ASSUME TypeOK, FBasysInv, was_reset' = was_reset, StartTransfer \/ InstallBasysKey \/ LoadStatus
  PROVE  FBasysInv'
<1> USE NoFrameFacts DEF FBasysInv, Calm, Reset, Offers, FShifted, FConfirmed, AppFrames,
    Sent, Polling, SpiIdle, AskingPc, CommitPc, Switching, ConfirmPc, spiVars, zyboVars, QuietTypes
<1>1. CASE StartTransfer
  BY <1>1 DEF StartTransfer, Frame, NoFrame
<1>2. CASE InstallBasysKey
  BY <1>2 DEF InstallBasysKey
<1>3. CASE LoadStatus
  BY <1>3 DEF LoadStatus, Frame
<1> QED
  BY <1>1, <1>2, <1>3

\* A transfer ends: the Basys3, reset or not, handles the request, and the
\* response reaches the coordinator or is lost to a colliding PC frame.
LEMMA FBasysReceive ==
  ASSUME TypeOK, ZyboInv, FBasysInv, BasysReceive, spi_mosi # NoFrame, was_reset' = was_reset,
         spi_mosi' = NoFrame, spi_miso' = NoFrame,
         UNCHANGED <<pending_random, active_key, spi_pending>>,
         \/ group_state' = AfterBasysAck(spi_miso.type)
         \/ group_state' = AfterPcAck(Head(fromPc))
  PROVE  FBasysInv'
<1> USE NoFrameFacts DEF AskingPc, CommitPc, Switching, ConfirmPc
<1>1. \/ group_state' = group_state
      \/ group_state \in AskingPc /\ group_state' = "G_SEND_BASYS_UPDATE"
      \/ SpiIdle
      \/ /\ spi_miso.type = "BASYS_READY" /\ group_state = "G_WAIT_BASYS_READY"
         /\ group_state' = "G_SEND_PC_COMMIT"
      \/ /\ spi_miso.type = "BASYS_COMMIT_ACK" /\ group_state = "G_WAIT_BASYS_COMMIT_ACK"
         /\ group_state' = "G_SWITCH_LOCAL"
      \/ /\ spi_miso.type = "BASYS_CONFIRM_ACK" /\ group_state = "G_WAIT_BASYS_CONFIRM_ACK"
         /\ group_state' = "G_RUN"
  BY PcAckCases, BasysAckCases DEF FBasysInv
<1>2. ~SpiIdle
  BY DEF SpiIdle
<1>3. CASE Calm /\ {spi_pending, spi_mosi} \subseteq AppFrames(active_key)
           /\ group_state \in AskingPc \cup {"G_SEND_BASYS_UPDATE"}
  <2>1. spi_mosi.type = "ZYBO_TO_BASYS" /\ bs_inflight # "BASYS_COMMIT_ACK"
    BY <1>3 DEF AppFrames, Calm, QuietTypes, Frame
  <2>2. Calm'
    BY <1>3, <2>1, ReceiveSwitch, ReceiveNothing DEF Calm, QuietTypes
  <2> QED
    BY <1>1, <1>2, <1>3, <2>2 DEF FBasysInv, AppFrames, Calm
<1>4. CASE group_state = "G_WAIT_BASYS_READY" /\ Calm /\ Sent("BASYS_KEY_UPDATE")
  <2>1. spi_mosi.type = "BASYS_KEY_UPDATE" /\ spi_mosi.r = pending_random /\ spi_pending = NoFrame
        /\ bs_inflight # "BASYS_COMMIT_ACK" /\ spi_miso.type # "BASYS_READY"
    BY <1>4 DEF Sent, Calm, QuietTypes, Frame
  <2>2. Offers("BASYS_READY")' /\ SpiIdle'
    BY <1>4, <2>1, ReceiveSwitch DEF BasysReceive, Respond, Calm, Offers, SpiIdle, Frame
  <2> QED
    BY <1>1, <1>2, <1>4, <2>1, <2>2 DEF FBasysInv, Polling
<1>5. CASE /\ group_state = "G_WAIT_BASYS_READY" /\ Calm
           /\ spi_pending = Frame("BASYS_KEY_UPDATE", pending_random)
           /\ spi_mosi \in AppFrames(active_key)
  <2>1. spi_mosi.type = "ZYBO_TO_BASYS" /\ bs_inflight # "BASYS_COMMIT_ACK"
        /\ spi_miso.type # "BASYS_READY"
    BY <1>5 DEF AppFrames, Calm, QuietTypes, Frame
  <2>2. Calm'
    BY <1>5, <2>1, ReceiveSwitch, ReceiveNothing DEF Calm, QuietTypes
  <2> QED
    BY <1>1, <1>2, <1>5, <2>1, <2>2 DEF FBasysInv, Sent
<1>6. Reset /\ spi_mosi.type \in {"BASYS_POLL_OLD", "BASYS_POLL_NEW", "ZYBO_TO_BASYS"} => Reset'
  BY ReceiveSwitch, ReceiveNothing DEF Reset
<1>7. CASE group_state = "G_WAIT_BASYS_READY" /\ (Offers("BASYS_READY") \/ Reset)
           /\ Polling("BASYS_POLL_OLD")
  <2>1. spi_mosi.type = "BASYS_POLL_OLD" /\ spi_pending = NoFrame
    BY <1>2, <1>7 DEF Polling, Sent, Frame
  <2>2. Offers("BASYS_READY") => Offers("BASYS_READY")'
    BY <2>1, ReceiveSwitch, ReceiveNothing DEF Offers
  <2>3. SpiIdle'
    BY <2>1 DEF SpiIdle
  <2> QED
    BY <1>1, <1>2, <1>6, <1>7, <2>1, <2>2, <2>3 DEF FBasysInv, Polling, Reset, Offers
<1>8. CASE group_state = "G_WAIT_BASYS_COMMIT_ACK" /\ (Offers("BASYS_READY") \/ Reset)
           /\ Sent("BASYS_KEY_COMMIT")
  <2>1. spi_mosi.type = "BASYS_KEY_COMMIT" /\ spi_pending = NoFrame
        /\ bs_inflight # "BASYS_COMMIT_ACK" /\ spi_miso.type # "BASYS_COMMIT_ACK"
    BY <1>8 DEF Sent, Offers, Reset, Frame
  <2>2. Offers("BASYS_COMMIT_ACK")' /\ SpiIdle'
    BY <1>8, <2>1, ReceiveSwitch DEF BasysReceive, Respond, Offers, Reset, SpiIdle, Frame
  <2> QED
    BY <1>1, <1>2, <1>8, <2>1, <2>2 DEF FBasysInv, Polling
<1>9. CASE /\ group_state = "G_WAIT_BASYS_COMMIT_ACK"
           /\ Offers("BASYS_COMMIT_ACK") \/ FShifted \/ Reset
           /\ Polling("BASYS_POLL_OLD")
  <2>1. spi_mosi.type = "BASYS_POLL_OLD" /\ spi_pending = NoFrame
    BY <1>2, <1>9 DEF Polling, Sent, Frame
  <2>2. Offers("BASYS_COMMIT_ACK") \/ FShifted => FShifted'
    BY <2>1, ReceiveSwitch, ReceiveNothing DEF Offers, FShifted
  <2>3. SpiIdle'
    BY <2>1 DEF SpiIdle
  <2> QED
    BY <1>1, <1>2, <1>6, <1>9, <2>1, <2>2, <2>3 DEF FBasysInv, Polling
<1>10. CASE group_state = "G_WAIT_BASYS_CONFIRM_ACK" /\ FShifted /\ Sent("BASYS_KEY_CONFIRM")
  <2>1. spi_mosi.type = "BASYS_KEY_CONFIRM" /\ spi_pending = NoFrame
        /\ ~bs_switch /\ bs_inflight = "NONE"
    BY <1>10 DEF Sent, FShifted, Frame
  <2>2. bs_established
    BY <1>10, <2>1 DEF FShifted
  <2>3. FConfirmed' /\ SpiIdle'
    <3>1. /\ bs_rekey' = FALSE /\ Respond("BASYS_CONFIRM_ACK", bs_pending)
          /\ UNCHANGED <<bs_pending, bs_established, bs_key>>
      BY <2>1, <2>2 DEF BasysReceive
    <3>2. bs_switch' = bs_switch
      BY <2>1, ReceiveSwitch
    <3>3. bs_tx'.type = "BASYS_CONFIRM_ACK" /\ bs_tx_type' = "BASYS_CONFIRM_ACK"
      BY <3>1 DEF Respond, Frame
    <3>4. ~was_reset => bs_pending = pending_random /\ bs_key = pending_random
      BY <1>10, <2>1 DEF FShifted
    <3> QED
      BY <2>1, <2>2, <3>1, <3>2, <3>3, <3>4 DEF FConfirmed, Calm, SpiIdle, QuietTypes
  <2> QED
    BY <1>1, <1>2, <1>10, <2>3 DEF FBasysInv, Polling, SpiIdle, AppFrames
<1>11. CASE group_state = "G_WAIT_BASYS_CONFIRM_ACK" /\ Reset /\ Sent("BASYS_KEY_CONFIRM")
  <2>1. spi_mosi.type = "BASYS_KEY_CONFIRM" /\ spi_pending = NoFrame /\ bs_inflight = "NONE"
        /\ ~bs_established /\ spi_miso.type = "NONE"
    BY <1>11 DEF Sent, Reset, Frame
  <2>2. Reset' /\ SpiIdle'
    BY <1>11, <2>1, ReceiveSwitch DEF BasysReceive, Reset, SpiIdle
  <2> QED
    BY <1>1, <1>2, <1>11, <2>1, <2>2 DEF FBasysInv, Polling
<1>12. FConfirmed /\ spi_mosi.type \in {"BASYS_POLL_NEW", "ZYBO_TO_BASYS"} => FConfirmed'
  BY ReceiveSwitch, ReceiveNothing DEF FConfirmed, Calm, QuietTypes
<1>13. CASE group_state = "G_WAIT_BASYS_CONFIRM_ACK" /\ (FConfirmed \/ Reset)
            /\ Polling("BASYS_POLL_NEW")
  <2>1. spi_mosi.type = "BASYS_POLL_NEW" /\ spi_pending = NoFrame
    BY <1>2, <1>13 DEF Polling, Sent, Frame
  <2>2. SpiIdle'
    BY <2>1 DEF SpiIdle
  <2> QED
    BY <1>1, <1>2, <1>6, <1>12, <1>13, <2>1, <2>2 DEF FBasysInv, Polling, SpiIdle, AppFrames
<1>14. CASE /\ group_state = "G_RUN" /\ (FConfirmed \/ Reset)
            /\ {spi_pending, spi_mosi} \subseteq AppFrames(pending_random)
  <2>1. spi_mosi.type = "ZYBO_TO_BASYS"
    BY <1>14 DEF AppFrames, Frame
  <2> QED
    BY <1>1, <1>2, <1>6, <1>12, <1>14, <2>1 DEF FBasysInv, AppFrames
<1>15. group_state \in {"G_WAIT_BASYS_READY", "G_WAIT_BASYS_COMMIT_ACK",
         "G_WAIT_BASYS_CONFIRM_ACK", "G_RUN", "G_SEND_BASYS_UPDATE"} \cup AskingPc
  BY <1>2 DEF FBasysInv, TypeOK, GroupStates
<1> QED
  BY <1>3, <1>4, <1>5, <1>7, <1>8, <1>9, <1>10, <1>11, <1>13, <1>14, <1>15 DEF FBasysInv

LEMMA FBasysStep ==
  ASSUME TypeOK, ZyboInv, FBasysInv, [FaultsNext]_allVars
  PROVE  FBasysInv'
<1>1. CASE Begin
  BY <1>1, FBasysBegin DEF Begin
<1>2. CASE ResetBasys
  BY <1>2, FBasysReset
<1>3. CASE Send \/ RestartPc \/ UNCHANGED allVars
  <2>1. UNCHANGED fbasysView /\ UNCHANGED group_state
    BY <1>3 DEF Send, SendCommand, RestartPc, allVars, vars, faultVars, zyboVars, fbasysView
  <2> QED
    BY <2>1, FBasysStutter
<1>4. CASE Continue
  <2> USE <1>4, ContinueCases
  <2>1. CASE \/ SendPcUpdate \/ SendPcCommit \/ SendPcConfirm
             \/ RetryPcUpdate \/ RetryPcCommit \/ RetryPcConfirm \/ SwitchLocal
    <3>1. UNCHANGED fbasysView
      BY <2>1 DEF SendPcUpdate, SendPcCommit, SendPcConfirm, SendPc, RetryPcUpdate, RetryPcCommit,
         RetryPcConfirm, RetryPc, Retry, SwitchLocal, fbasysView
    <3>2. \/ group_state \in AskingPc /\ group_state' \in AskingPc
          \/ group_state \in CommitPc /\ group_state' \in CommitPc
          \/ group_state \in ConfirmPc /\ group_state' \in ConfirmPc
          \/ group_state = "G_SWITCH_LOCAL" /\ group_state' = "G_WAIT_LOCAL_KEY"
      BY <2>1 DEF SendPcUpdate, SendPcCommit, SendPcConfirm, SendPc, RetryPcUpdate, RetryPcCommit,
         RetryPcConfirm, RetryPc, Retry, SwitchLocal, AskingPc, CommitPc, ConfirmPc
    <3> QED
      BY <3>1, <3>2, FBasysStutter
  <2>2. CASE ReceivePcAck
    <3>1. UNCHANGED fbasysView
      BY <2>2 DEF ReceivePcAck, fbasysView
    <3>2. \/ group_state' = group_state
          \/ group_state \in AskingPc /\ group_state' = "G_SEND_BASYS_UPDATE"
          \/ group_state \in CommitPc /\ group_state' = "G_SEND_BASYS_COMMIT"
          \/ group_state \in ConfirmPc /\ group_state' = "G_SEND_BASYS_CONFIRM"
      BY <2>2, PcAckCases DEF ReceivePcAck, AskingPc, CommitPc, ConfirmPc
    <3> QED
      BY <3>1, <3>2, FBasysStutter
  <2>3. CASE EndTransfer
    BY <2>3, FBasysReceive DEF EndTransfer
  <2>4. CASE CollidingArrivals
    BY <2>4, FBasysReceive DEF CollidingArrivals
  <2>5. CASE \/ ReceivePcCommand \/ SendReport \/ LoseToPc \/ LoseFromPc \/ HandleUpdate
             \/ HandleCommit \/ HandleConfirm \/ HandleOther \/ CheckSessionReady
             \/ InstallCodecs \/ BecomeReady
    <3>1. UNCHANGED fbasysView /\ UNCHANGED group_state
      BY <2>5 DEF ReceivePcCommand, SendReport, HandleUpdate, HandleCommit, HandleConfirm,
         InstallCodecs, BecomeReady, HandleOther, CheckSessionReady, LoseToPc, LoseFromPc,
         zyboVars, fbasysView
    <3> QED
      BY <3>1, FBasysStutter
  <2>6. CASE \/ SendBasysUpdate \/ SendBasysCommit \/ SendBasysConfirm
             \/ PollOldReady \/ PollOldCommit \/ PollNew \/ SendRackCommand
    BY <2>6, FBasysSend
  <2>7. CASE RetryPollReady \/ RetryPollCommit \/ RetryPollConfirm \/ LocalKeyDone
    BY <2>7, FBasysRetry
  <2>8. CASE StartTransfer \/ InstallBasysKey \/ LoadStatus
    BY <2>8, FBasysBus
  <2> QED
    BY <2>1, <2>2, <2>3, <2>4, <2>5, <2>6, <2>7, <2>8
<1> QED
  BY <1>1, <1>2, <1>3, <1>4 DEF FaultsNext

-----------------------------------------------------------------------------
(* The handlers, through faults.                                             *)

\* What a step does to the PC's handlers.
LEMMA HandlerSteps ==
  ASSUME [FaultsNext]_allVars
  PROVE  \/ UNCHANGED pcVars \/ RestartPc \/ InstallCodecs \/ BecomeReady
         \/ HandleUpdate \/ HandleCommit \/ HandleConfirm
<1>1. ZyboNext => UNCHANGED pcVars
  BY DEF ZyboNext, Boot, ExpireSession, BeginEpoch, SendPcUpdate, SendPcCommit, SendPcConfirm,
     SendPc, SendBasysUpdate, SendBasysCommit, SendBasysConfirm, PollOldReady, PollOldCommit,
     PollNew, SendBasys, RetryPcUpdate, RetryPcCommit, RetryPcConfirm, RetryPc, RetryPollReady,
     RetryPollCommit, RetryPollConfirm, Retry, SwitchLocal, LocalKeyDone, SendRackCommand,
     SendReport, ReceivePcAck, ReceivePcCommand
<1>2. BasysNext => UNCHANGED pcVars
  BY DEF BasysNext, StartTransfer, EndTransfer, CollidingArrivals, InstallBasysKey, LoadStatus
<1>3. HandleOther \/ CheckSessionReady \/ SendCommand \/ LoseToPc \/ LoseFromPc \/ UNCHANGED vars
        => UNCHANGED pcVars
  BY DEF HandleOther, CheckSessionReady, SendCommand, LoseToPc, LoseFromPc, vars
<1>4. ResetBasys => UNCHANGED pcVars
  BY DEF ResetBasys
<1> QED
  BY <1>1, <1>2, <1>3, <1>4, FaultsAreSteps DEF Next, PcNext

\* A CONFIRM that is answered finds the codecs of its R installed.
LEMMA ConfirmCommitted ==
  ASSUME TypeOK, ZyboInv, FPcInv, PcHandling, HandleConfirm
  PROVE  HasCommitted
<1> USE DEF AskingPc, AskingBasys, CommitPc, CommitBasys, Switching, ConfirmPc, ConfirmBasys
<1>1. /\ toPc # << >> /\ Head(toPc) \in Elems(toPc) /\ Head(toPc) \in Frames(ToPcTypes)
      /\ Head(toPc).type = "PC_KEY_CONFIRM" /\ Head(toPc).r = pc_pending
  BY ElemsTail DEF HandleConfirm, PcReceives, TypeOK
<1>2. Head(toPc) \notin Updates /\ Head(toPc) \notin Commits
  BY <1>1, RequestKinds
<1>3. group_state # "G_BOOT" /\ pending_random # NoRandom
  BY <1>1, RandomsAssumption DEF FPcInv, FPcBoot, ZyboInv
<1>4. CASE group_state \in AskingPc
  <2>1. Head(toPc).r # pending_random /\ Head(toPc).r # NoRandom
    BY <1>1, <1>2, <1>4, RequestKinds DEF FPcInv, FPcAsked
  <2>2. PcInSession
    BY <2>1, <1>1, <1>4 DEF FPcInv, FPcAsked, PcHasR, NewPc, PcGone
  <2> QED
    BY <2>2 DEF PcInSession, PcHandling
<1>5. CASE group_state \in AskingBasys \cup CommitPc
  BY <1>1, <1>2, <1>5 DEF FPcInv, FPcPrepared, FPcCommitting
<1>6. CASE group_state \in CommitBasys \cup Switching \cup ConfirmPc \cup ConfirmBasys \cup {"G_RUN"}
  BY <1>1, <1>3, <1>6 DEF FPcInv, FPcCommitted, PcSwitched, PcGone, NewToPc, ThisEpoch
<1> QED
  BY <1>3, <1>4, <1>5, <1>6 DEF TypeOK, GroupStates

LEMMA FHandlingStep ==
  ASSUME TypeOK, ZyboInv, FPcInv, PcHandling, [FaultsNext]_allVars
  PROVE  PcHandling'
<1>1. CASE UNCHANGED pcVars
  BY <1>1, ModesStutter DEF pcVars, pcModes, PcHandling
<1>2. CASE RestartPc
  BY <1>2 DEF RestartPc, PcHandling, HasConfirmed
<1>3. CASE InstallCodecs \/ BecomeReady
  <2>1. pc_handler' = "idle" /\ UNCHANGED pcModes
    BY <1>3, ModesAssign DEF InstallCodecs, BecomeReady
  <2> QED
    BY <2>1 DEF pcModes, PcHandling
<1>4. CASE HandleUpdate
  <2>1. pc_handler' = "idle"
    BY <1>4 DEF HandleUpdate, PcReceives, pcVars
  <2> QED
    BY <1>4, <2>1, ModesUpdate DEF pcModes, PcHandling
<1>5. CASE HandleCommit
  <2>1. pc_handler = "idle" /\ pc_handler' = IF pc_key_active THEN "idle" ELSE "commit"
    BY <1>5 DEF HandleCommit, PcReceives
  <2>2. HasCommitted <=> pc_key_active
    BY <2>1 DEF HasCommitted
  <2> QED
    BY <1>5, <2>1, <2>2, ModesCommit DEF PcHandling
<1>6. CASE HandleConfirm
  <2>1. pc_handler' # "commit"
    BY <1>6 DEF HandleConfirm
  <2> QED
    BY <1>6, <2>1, ConfirmCommitted, ModesConfirm DEF PcHandling
<1> QED
  BY <1>1, <1>2, <1>3, <1>4, <1>5, <1>6, HandlerSteps

\* A COMMIT of this epoch that is no repetition finds no command sealed yet.
LEMMA FreshCodec ==
  ASSUME TypeOK, ZyboInv, FPcInv, HandleCommit, ~HasCommitted, pc_pending = pending_random
  PROVE  ~used
<1>1. TypeOK /\ ZyboInv /\ FPcInv
  OBVIOUS
<1>2. /\ toPc # << >> /\ Head(toPc) \in Elems(toPc) /\ Head(toPc) \in Frames(ToPcTypes)
      /\ Head(toPc).type = "PC_KEY_COMMIT" /\ Head(toPc).r = pending_random
  BY <1>1, ElemsTail DEF HandleCommit, PcReceives, TypeOK
<1>3. Head(toPc) \in Commits /\ Head(toPc) \notin Updates
  BY <1>2 DEF Commits, Updates, ThisEpoch, Frames
<1>4. group_state # "G_BOOT" /\ pending_random # NoRandom
  BY <1>1, <1>2, RandomsAssumption DEF FPcInv, FPcBoot, ZyboInv
<1>5. CASE group_state \in AskingPc
  BY <1>1, <1>5 DEF FPcInv, UnusedInv
<1>6. CASE group_state \in AskingBasys
  BY <1>1, <1>6 DEF FPcInv, UnusedInv
<1>7. CASE group_state \in CommitPc
  <2>1. PcHasR
    BY <1>1, <1>4, <1>7 DEF FPcInv, FPcCommitting, PcGone, PcSwitched
  <2> QED
    BY <2>1, <1>1, <1>7 DEF FPcInv, FPcCommitting
<1>8. CASE group_state \in CommitBasys \cup Switching \cup ConfirmPc \cup ConfirmBasys \cup {"G_RUN"}
  BY <1>1, <1>4, <1>8 DEF FPcInv, FPcCommitted, PcGone, PcSwitched
<1> QED
  BY <1>1, <1>4, <1>5, <1>6, <1>7, <1>8
     DEF TypeOK, GroupStates, AskingPc, AskingBasys, CommitPc, CommitBasys, Switching, ConfirmPc,
         ConfirmBasys

\* Between a COMMIT_ACK and the new codecs no command is sealed.
LEMMA NotInstallingStep ==
  ASSUME TypeOK, ZyboInv, FPcInv, NotInstalling, [FaultsNext]_allVars
  PROVE  NotInstalling'
<1>1. CASE Begin
  BY <1>1 DEF Begin, NotInstalling
<1>2. CASE Send
  BY <1>2 DEF Send, SendCommand, pcVars, NotInstalling
<1>3. CASE Continue \/ RestartPc \/ ResetBasys \/ UNCHANGED allVars
  <2>1. used' = used
    BY <1>3 DEF Continue, RestartPc, ResetBasys, allVars, faultVars
  <2>2. RestartPc \/ pending_random' = pending_random
    BY <1>3 DEF Continue, ResetBasys, allVars, vars, zyboVars
  <2>3. CASE HandleCommit
    <3>1. pc_handler = "idle" /\ pc_pending' = pc_pending
          /\ pc_handler' = IF pc_key_active THEN "idle" ELSE "commit"
      BY <2>3 DEF HandleCommit, PcReceives
    <3>2. HasCommitted <=> pc_key_active
      BY <3>1 DEF HasCommitted
    <3>3. ~RestartPc
      BY <2>3 DEF HandleCommit, RestartPc, PcReceives, uartVars
    <3> QED
      BY <2>1, <2>2, <2>3, <3>1, <3>2, <3>3, FreshCodec DEF NotInstalling
  <2>4. CASE RestartPc
    BY <2>4 DEF RestartPc, NotInstalling
  <2>5. CASE HandleUpdate \/ HandleConfirm \/ InstallCodecs \/ BecomeReady
    BY <2>5 DEF HandleUpdate, HandleConfirm, InstallCodecs, BecomeReady, PcReceives, pcVars,
       NotInstalling
  <2>6. CASE UNCHANGED pcVars
    BY <2>1, <2>2, <2>4, <2>6 DEF pcVars, NotInstalling
  <2> QED
    BY <2>3, <2>4, <2>5, <2>6, HandlerSteps
<1> QED
  BY <1>1, <1>2, <1>3 DEF FaultsNext

-----------------------------------------------------------------------------
(* The invariant, and what a restart or a reset can do.                      *)

LEMMA FaultsInvInit == InitFaults => FaultsInv
<1> SUFFICES ASSUME InitFaults PROVE FaultsInv
  OBVIOUS
<1>1. Init /\ TypeOK /\ ZyboInv
  BY IInvInit DEF InitFaults, IInv
<1>2. TypeFaultsOK
  <2>1. 0 \in 0..MaxRestarts /\ 0 \in 0..MaxResets
    BY FaultsAssumption
  <2> QED
    BY <1>1, <2>1, Zenon DEF InitFaults, TypeFaultsOK
<1>3. FPcInv
  BY DEF InitFaults, Init, FPcInv, FPcBoot, FPcAsked, FPcPrepared, FPcCommitting, FPcCommitted,
     UnusedInv, PcGone, KeyInUse, HasConfirmed, HasCommitted, AskingPc, AskingBasys, CommitPc,
     CommitBasys, Switching, ConfirmPc, ConfirmBasys
<1>5. PcHandling /\ NotInstalling
  BY DEF InitFaults, Init, PcHandling, NotInstalling, HasConfirmed
<1>4. FBasysInv
  BY NoFrameFacts DEF InitFaults, Init, FBasysInv, Calm, QuietTypes, SpiIdle, AskingPc, CommitPc,
     Switching, ConfirmPc
<1> QED
  BY <1>1, <1>2, <1>3, <1>4, <1>5 DEF FaultsInv

LEMMA FaultsInvStep == FaultsInv /\ [FaultsNext]_allVars => FaultsInv'
<1> SUFFICES ASSUME FaultsInv, [FaultsNext]_allVars PROVE FaultsInv'
  OBVIOUS
<1>1. TypeFaultsOK /\ TypeOK /\ ZyboInv /\ FPcInv /\ PcHandling /\ NotInstalling /\ FBasysInv
  BY DEF FaultsInv, TypeFaultsOK
<1> QED
  BY <1>1, FaultsTypeStep, FaultsZyboStep, FPcStep, FHandlingStep, NotInstallingStep,
     FBasysStep DEF FaultsInv

\* In every stage of a key change, whatever has been restarted or reset and
\* when, the client is in one of four modes and the Basys3 in one of six.
THEOREM FaultStages == FaultsSpec => []FaultsInv
<1>1. InitFaults => FaultsInv
  BY FaultsInvInit
<1>2. FaultsInv /\ [FaultsNext]_allVars => FaultsInv'
  BY FaultsInvStep
<1> QED
  BY <1>1, <1>2, PTL DEF FaultsSpec

\* What the invariant says of commands, of the PC's session and of the reset Basys3.
LEMMA ContainedInv == FaultsInv => FaultsContained
<1> SUFFICES ASSUME FaultsInv PROVE FaultsContained
  OBVIOUS
<1>1. TypeFaultsOK /\ TypeOK /\ ZyboInv /\ FPcInv /\ PcHandling /\ NotInstalling /\ FBasysInv
  BY DEF FaultsInv, TypeFaultsOK
<1>2. CommandsAuthenticate
  <2> SUFFICES ASSUME group_state = "G_RUN", fromPc # << >>, Head(fromPc).type = "PC_TO_ZYBO"
               PROVE  Head(fromPc).r = active_key
    BY DEF CommandsAuthenticate
  <2>1. Head(fromPc) \in Elems(fromPc)
    BY <1>1, ElemsTail DEF TypeOK
  <2> QED
    BY <2>1, <1>1 DEF FPcInv, FPcCommitted, NoOldFrame, ThisEpoch, ZyboInv
<1>3. SessionIsReal
  <2> SUFFICES ASSUME group_state = "G_RUN", HasConfirmed
               PROVE  pc_key = active_key /\ ConfirmedR = pending_random
    BY DEF SessionIsReal
  <2>1. pc_key = KeyInUse
    BY <1>1 DEF PcHandling, KeyInUse
  <2> QED
    BY <2>1, <1>1 DEF FPcInv, FPcCommitted, PcSwitched, PcGone, ZyboInv
<1>4. DamageEndsWithEpoch
  BY <1>1 DEF DamageEndsWithEpoch, FBasysInv, FConfirmed, Reset, ZyboInv
<1> QED
  BY <1>1, <1>2, <1>3, <1>4 DEF FaultsContained

\* A restart of the client or a reset of the Basys3, in any state of a key
\* change and any number of times, spoils no epoch but the one it happens in.
THEOREM Contained == FaultsSpec => []FaultsContained
BY ContainedInv, FaultStages, PTL

\* The same under the assumptions of the liveness run.
THEOREM ContainedFair == FairFaultsSpec => []FaultsContained
<1>1. FairFaultsSpec => FaultsSpec
  <2>1. [TimedFaultsNext]_allVars => [FaultsNext]_allVars
    BY DEF TimedFaultsNext
  <2> QED
    BY <2>1, PTL DEF FairFaultsSpec, FaultsSpec
<1> QED
  BY <1>1, Contained, PTL

\* A client that comes back never installs a key that it has already sealed a
\* command under: no nonce is used twice with one key.
THEOREM CodecsAreFresh == FaultsSpec => NoCodecStartsAgain
<1>1. FaultsInv => (InstallCodecs /\ pc_pending = pending_random => ~used)
  BY DEF FaultsInv, NotInstalling, InstallCodecs
<1> QED
  BY <1>1, FaultStages, PTL DEF FaultsSpec, NoCodecStartsAgain
==============================================================================
