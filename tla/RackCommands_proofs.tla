------------------------- MODULE RackCommands_proofs -------------------------
(***************************************************************************)
(* For any racks, any length of the queue and of the FIFO, any number of   *)
(* commands and key changes: the queue of commands forgets the oldest      *)
(* first, the race of send_command with the flush strands at most one, and *)
(* every command is in one place only on its way to the rack.              *)
(***************************************************************************)
EXTENDS RackCommands, FiniteSetTheorems, TLAPS

(* A call in progress is the newest command given. *)
CallIsNewest == ui.step # "idle" => given >= 1 /\ ui.cmd.id = given

(* The queue holds commands older than the call in progress, oldest first, *)
(* and nothing in it is older than what has been pushed out.               *)
QueueInOrder ==
    /\ \A i \in 1..Len(queued_commands) :
         /\ 1 <= queued_commands[i].id /\ queued_commands[i].id <= given
         /\ ui.step # "idle" => queued_commands[i].id < given
    /\ \A c \in overflowed : c <= given /\ (ui.step # "idle" => c < given)
    /\ OldestGoFirst

IInv == TypeOK /\ CallIsNewest /\ QueueInOrder /\ AtMostOneStranded

(* What the UI thread and the receive thread may be doing. *)
UiStates == [step : {"idle", "test", "append", "send"}, cmd : Command]
RxStates == [step : {"idle", "ready", "drain", "send", "dead"}, cmd : Command]

(* The poll is a command, and so is everything that is put together as one. *)
LEMMA CommandIsCommand ==
    ASSUME NEW i \in 0..MaxCommands, NEW m \in Masks, NEW h \in BOOLEAN
    PROVE  Cmd(i, m, h) \in Command
  BY DEF Cmd, Command, Kinds
LEMMA PollIsCommand == PollCmd \in Command
  <1>1. 0 \in 0..MaxCommands /\ {} \in Masks
    BY BoundsAssumption DEF Masks
  <1>2. Cmd(0, {}, TRUE) \in Command
    BY <1>1, CommandIsCommand
  <1> QED
    BY <1>2 DEF PollCmd, Command, Kinds

(* The idle thread, and a thread with a command in its hand. *)
LEMMA UiIsState ==
    ASSUME NEW s \in {"idle", "test", "append", "send"}, NEW c \in Command
    PROVE  [step |-> s, cmd |-> c] \in UiStates
  BY DEF UiStates
LEMMA UiIdleIsState == UiIdle \in UiStates
  BY PollIsCommand, UiIsState DEF UiIdle
LEMMA RxIdleIsState ==
    ASSUME NEW s \in {"idle", "ready", "drain", "send", "dead"}
    PROVE  RxIdle \in RxStates /\ [RxIdle EXCEPT !.step = s] \in RxStates
  BY PollIsCommand DEF RxIdle, RxStates

(* The initial state. *)
LEMMA InitCommands == Init => IInv
  <1> SUFFICES ASSUME Init PROVE IInv
    OBVIOUS
  <1>1. ui \in UiStates /\ rx \in RxStates
    BY UiIdleIsState, RxIdleIsState DEF Init
  <1>2. {} \in Masks
    BY DEF Masks
  <1>3. queued_commands \in Seq(Command) /\ uart \in Seq(Command) /\ events \in Seq(Masks)
        /\ fifo \in Seq(Masks) /\ enc \in Seq(Masks) /\ sent \in Seq(1..MaxCommands)
    BY DEF Init
  <1>4. Len(queued_commands) <= QueueCap /\ Len(fifo) <= FifoCap /\ Len(enc) <= 1
    BY BoundsAssumption DEF Init
  <1>5. given \in 0..MaxCommands /\ epochs \in 0..MaxEpochs
        /\ overflowed \subseteq 1..MaxCommands /\ unsent \subseteq 1..MaxCommands
    BY BoundsAssumption DEF Init
  <1>6. /\ session_ready \in BOOLEAN /\ rack_mask \in Masks /\ poll \in {"sleep", "tested", "dead"}
        /\ invalid_command_key \in BOOLEAN /\ dropped \in BOOLEAN /\ wanted \in Masks /\ plugged \in BOOLEAN /\ reported \in BOOLEAN
        /\ stage \in {"run", "update", "confirm", "basys"} /\ last_rack_cmd \in Masks /\ racks \in Masks
    BY <1>2 DEF Init
  <1>7. TypeOK
    BY <1>1, <1>3, <1>4, <1>5, <1>6 DEF TypeOK, UiStates, RxStates
  <1>8. CallIsNewest /\ QueueInOrder /\ AtMostOneStranded
    BY DEF Init, UiIdle, RxIdle, CallIsNewest, QueueInOrder, OldestGoFirst, AtMostOneStranded
  <1> QED
    BY <1>7, <1>8 DEF IInv

(* The parts of a step: a call, an append to the queue, a frame, a return. *)
LEMMA CallTypes ==
    ASSUME TypeOK, NEW m \in Masks, NEW h \in BOOLEAN, NEW n \in Masks,
           Call(m, h, n), events' \in Seq(Masks)
    PROVE  TypeOK'
  <1>1. given + 1 \in 0..MaxCommands
    BY BoundsAssumption DEF TypeOK, Call
  <1>2. ui' \in UiStates
    <2>1. Cmd(given + 1, m, h) \in Command
      BY <1>1, CommandIsCommand
    <2> QED
      BY <2>1, UiIsState DEF Call
  <1> QED
    <2>1. wanted' \in Masks
      BY DEF Call, Masks
    <2> QED
      BY <1>1, <1>2, <2>1 DEF TypeOK, Call, UiStates, zybo, decoder, link

LEMMA EnqueueTypes ==
    ASSUME TypeOK, QueueInOrder, NEW c \in Command, Enqueue(c)
    PROVE  /\ queued_commands' \in Seq(Command) /\ Len(queued_commands') <= QueueCap
           /\ overflowed' \subseteq 1..MaxCommands
  <1> USE DEF TypeOK
  <1>1. CASE Len(queued_commands) = QueueCap
    <2>1. Tail(queued_commands) \in Seq(Command) /\ Len(Tail(queued_commands)) = QueueCap - 1
      BY <1>1, BoundsAssumption
    <2>2. Head(queued_commands) = queued_commands[1] /\ queued_commands[1] \in Command
      BY <1>1, BoundsAssumption
    <2>3. Head(queued_commands).id \in 1..MaxCommands
      <3>1. queued_commands[1].id \in 0..MaxCommands
        BY <2>2 DEF Command
      <3>2. queued_commands[1].id >= 1
        BY <1>1, BoundsAssumption DEF QueueInOrder
      <3> QED
        BY <2>2, <3>1, <3>2
    <2>4. queued_commands' = Append(Tail(queued_commands), c)
          /\ overflowed' = overflowed \union {Head(queued_commands).id}
      BY <1>1 DEF Enqueue
    <2>5. queued_commands' \in Seq(Command) /\ Len(queued_commands') = QueueCap
      <3> DEFINE rest == Tail(queued_commands)
      <3>1. rest \in Seq(Command) /\ Len(rest) = QueueCap - 1 /\ queued_commands' = Append(rest, c)
        BY <2>1, <2>4
      <3> HIDE DEF rest
      <3> QED
        BY <3>1, BoundsAssumption
    <2>6. Len(queued_commands') <= QueueCap
      BY <2>5, BoundsAssumption
    <2>7. overflowed' \subseteq 1..MaxCommands
      BY <2>3, <2>4
    <2> QED
      BY <2>5, <2>6, <2>7
  <1>2. CASE Len(queued_commands) # QueueCap
    <2>1. queued_commands' = Append(queued_commands, c) /\ overflowed' = overflowed
      BY <1>2 DEF Enqueue
    <2> QED
      BY <1>2, <2>1, BoundsAssumption
  <1> QED
    BY <1>1, <1>2

LEMMA TransmitTypes ==
    ASSUME TypeOK, NEW c \in Command, Transmit(c)
    PROVE  uart' \in Seq(Command) /\ sent' \in Seq(1..MaxCommands)
  <1>1. uart' \in Seq(Command)
    BY DEF TypeOK, Transmit
  <1>2. CASE c.id = 0
    BY <1>1, <1>2 DEF TypeOK, Transmit
  <1>3. CASE c.id # 0
    <2>1. c.id \in 1..MaxCommands
      BY <1>3 DEF Command
    <2>2. sent' = Append(sent, c.id)
      BY <1>3 DEF Transmit
    <2> QED
      BY <1>1, <2>1, <2>2 DEF TypeOK
  <1> QED
    BY <1>2, <1>3

LEMMA ReturnTypes ==
    ASSUME TypeOK, Return
    PROVE  ui' \in UiStates /\ rack_mask' \in Masks
  <1>1. ui' \in UiStates
    BY UiIdleIsState DEF Return
  <1>2. rack_mask' \in Masks
    BY DEF TypeOK, Return, Masks
  <1> QED
    BY <1>1, <1>2

LEMMA FifoTypes ==
    ASSUME TypeOK, NEW m \in Masks, PushFifo(m)
    PROVE  fifo' \in Seq(Masks) /\ Len(fifo') <= FifoCap
  BY BoundsAssumption DEF TypeOK, PushFifo

(* Every step keeps the types. *)
LEMMA TypeStep == TypeOK /\ QueueInOrder /\ CallIsNewest /\ [Next]_vars => TypeOK'
  <1> SUFFICES ASSUME TypeOK, QueueInOrder, CallIsNewest, [Next]_vars PROVE TypeOK'
    OBVIOUS
  <1> USE DEF client, app, zybo, decoder, link, hist
  <1>e. {} \in Masks /\ Racks \in Masks /\ \A r \in Racks : rack_mask \union {r} \in Masks /\ rack_mask \ {r} \in Masks
    BY DEF Masks, TypeOK
  <1>1. ASSUME NEW r \in Racks, NEW b \in BOOLEAN, SetRack(r, b) PROVE TypeOK'
    <2>1. PICK m \in Masks : Call(m, TRUE, m) /\ events' = events
      BY <1>1, <1>e DEF SetRack
    <2> QED
      BY <2>1, CallTypes DEF TypeOK
  <1>2. ASSUME NEW b \in BOOLEAN, SetAllRacks(b) PROVE TypeOK'
    <2>1. PICK m \in Masks : Call(m, TRUE, m) /\ events' = events
      BY <1>2, <1>e DEF SetAllRacks
    <2> QED
      BY <2>1, CallTypes DEF TypeOK
  <1>3. CASE SetDoor
    <2>1. Call({}, TRUE, rack_mask) /\ events' = events
      BY <1>3 DEF SetDoor
    <2>2. rack_mask \in Masks /\ events' \in Seq(Masks)
      BY <2>1 DEF TypeOK
    <2> QED
      BY <2>1, <2>2, <1>e, CallTypes
  <1>4. ASSUME NEW b \in BOOLEAN, SetCommandKeyMode(b) PROVE TypeOK'
    BY <1>4 DEF SetCommandKeyMode, TypeOK
  <1>5. CASE RunInvalidKeyTest
    <2>1. Call(Racks, FALSE, rack_mask) /\ events' = events
      BY <1>5 DEF RunInvalidKeyTest
    <2>2. rack_mask \in Masks /\ events' \in Seq(Masks)
      BY <2>1 DEF TypeOK
    <2> QED
      BY <2>1, <2>2, <1>e, CallTypes
  <1>7. CASE HandleFace
    <2>1. Head(events) \in Masks /\ events' \in Seq(Masks) /\ Call(Head(events), TRUE, Head(events))
      <3>1. events \in Seq(Masks) /\ events # <<>>
        BY <1>7 DEF HandleFace, TypeOK
      <3>2. Head(events) \in Masks /\ Tail(events) \in Seq(Masks)
        BY <3>1
      <3> QED
        BY <1>7, <3>2 DEF HandleFace
    <2> QED
      BY <2>1, CallTypes
  <1>8. CASE TestReady
    <2>1. ui' \in UiStates
      BY <1>8 DEF TestReady, TypeOK, UiStates
    <2>2. UNCHANGED <<client, rx, poll, app, link, epochs, stage, uart, zybo, hist>>
      BY <1>8 DEF TestReady
    <2> QED
      BY <2>1, <2>2 DEF TypeOK, UiStates
  <1>9. CASE AttackNotSent
    <2>1. ui' \in UiStates
      BY <1>9, UiIdleIsState DEF AttackNotSent
    <2>2. ui.cmd.id \in 0..MaxCommands /\ ui.cmd.id >= 1
      <3>1. ui.cmd.id \in 0..MaxCommands
        BY DEF TypeOK, Command
      <3> QED
        BY <1>9, <3>1 DEF AttackNotSent, CallIsNewest
    <2>3. unsent' \subseteq 1..MaxCommands
      <3>1. ui.cmd.id \in 1..MaxCommands /\ unsent \subseteq 1..MaxCommands
        BY <2>2, BoundsAssumption DEF TypeOK
      <3>2. unsent' = unsent \union {ui.cmd.id}
        BY <1>9 DEF AttackNotSent
      <3> QED
        BY <3>1, <3>2
    <2> QED
      BY <1>9, <1>e, <2>1, <2>3 DEF AttackNotSent, TypeOK, UiStates
  <1>10. CASE AppendCommand
    <2>1. ui.cmd \in Command
      BY DEF TypeOK
    <2>2. Enqueue(ui.cmd) /\ Return
      BY <1>10 DEF AppendCommand
    <2>3. /\ queued_commands' \in Seq(Command) /\ Len(queued_commands') <= QueueCap
          /\ overflowed' \subseteq 1..MaxCommands
      BY <2>1, <2>2, EnqueueTypes
    <2> QED
      BY <1>10, <2>2, <2>3, ReturnTypes DEF AppendCommand, TypeOK, UiStates
  <1>11. CASE SendCommand
    <2>1. ui.cmd \in Command
      BY DEF TypeOK
    <2>2. Transmit(ui.cmd) /\ Return
      BY <1>11 DEF SendCommand
    <2>3. uart' \in Seq(Command) /\ sent' \in Seq(1..MaxCommands)
      BY <2>1, <2>2, TransmitTypes
    <2> QED
      BY <1>11, <2>2, <2>3, ReturnTypes DEF SendCommand, TypeOK, UiStates
  <1>12. CASE SendRaises
    <2>1. ui' \in UiStates
      BY <1>12, UiIdleIsState DEF SendRaises
    <2> QED
      BY <1>12, <2>1 DEF SendRaises, TypeOK, UiStates
  <1>13. CASE PollTest
    BY <1>13 DEF PollTest, TypeOK
  <1>14. CASE PollSend
    <2>1. CASE plugged
      <3>1. Transmit(PollCmd) /\ poll' = "sleep"
        BY <1>14, <2>1 DEF PollSend
      <3>2. PollCmd.id = 0
        BY DEF PollCmd, Cmd
      <3>3. uart' \in Seq(Command) /\ sent' \in Seq(1..MaxCommands)
        BY <3>1, <3>2, PollIsCommand, TransmitTypes
      <3> QED
        BY <1>14, <3>1, <3>3 DEF PollSend, TypeOK
    <2>2. CASE ~plugged
      BY <1>14, <2>2 DEF PollSend, TypeOK
    <2> QED
      BY <2>1, <2>2
  <1>15. CASE HandleKeyUpdate
    BY <1>15 DEF HandleKeyUpdate, TypeOK
  <1>16. CASE HandleKeyConfirm
    <2>1. rx' \in RxStates
      BY <1>16, RxIdleIsState DEF HandleKeyConfirm
    <2> QED
      BY <1>16, <2>1 DEF HandleKeyConfirm, TypeOK, RxStates
  <1>28. CASE BecomeReady
    <2>1. rx' \in RxStates
      BY <1>28, RxIdleIsState DEF BecomeReady
    <2> QED
      BY <1>28, <2>1 DEF BecomeReady, TypeOK, RxStates
  <1>17. CASE DrainPop
    <2>1. CASE queued_commands = <<>>
      <3>1. rx' \in RxStates
        BY <1>17, <2>1, RxIdleIsState DEF DrainPop
      <3> QED
        BY <1>17, <2>1, <3>1 DEF DrainPop, TypeOK, RxStates
    <2>2. CASE queued_commands # <<>>
      <3>1. Head(queued_commands) \in Command
        BY <2>2 DEF TypeOK
      <3>2. Tail(queued_commands) \in Seq(Command) /\ Len(Tail(queued_commands)) <= QueueCap
        BY <2>2, BoundsAssumption DEF TypeOK
      <3>3. rx' \in RxStates
        BY <1>17, <2>2, <3>1 DEF DrainPop, RxStates
      <3>4. /\ queued_commands' = Tail(queued_commands)
            /\ UNCHANGED <<session_ready, rack_mask, ui, poll, app, link, epochs, stage, uart, zybo, hist>>
        BY <1>17, <2>2 DEF DrainPop
      <3> QED
        BY <3>2, <3>3, <3>4 DEF TypeOK, RxStates
    <2> QED
      BY <2>1, <2>2
  <1>18. CASE DrainSend
    <2>1. rx.cmd \in Command
      BY DEF TypeOK
    <2>2. Transmit(rx.cmd)
      BY <1>18 DEF DrainSend
    <2>3. uart' \in Seq(Command) /\ sent' \in Seq(1..MaxCommands)
      BY <2>1, <2>2, TransmitTypes
    <2>4. rx' \in RxStates
      BY <1>18, RxIdleIsState DEF DrainSend
    <2> QED
      BY <1>18, <2>3, <2>4 DEF DrainSend, TypeOK, RxStates
  <1>19. CASE ReceiveFails
    <2>1. rx' \in RxStates
      BY <1>19, RxIdleIsState DEF ReceiveFails
    <2> QED
      BY <1>19, <2>1 DEF ReceiveFails, TypeOK, RxStates
  <1>20. CASE DecodeFace
    <2>3. events' \in Seq(Masks)
      BY <1>20 DEF DecodeFace, TypeOK
    <2> QED
      BY <1>20, <2>3 DEF DecodeFace, TypeOK
  <1>21. CASE Unplug
    <2>1. plugged' \in BOOLEAN /\ reported' = reported
      BY <1>21 DEF Unplug
    <2>2. UNCHANGED <<client, ui, rx, poll, app, epochs, stage, uart, zybo, hist>>
      BY <1>21 DEF Unplug
    <2> QED
      BY <2>1, <2>2 DEF TypeOK
  <1>22. CASE BeginEpoch
    BY <1>22, BoundsAssumption DEF BeginEpoch, TypeOK
  <1>23. CASE BasysConfirmed
    BY <1>23 DEF BasysConfirmed, TypeOK
  <1>24. CASE Decode
    <2>1. Head(uart) \in Command /\ uart' \in Seq(Command)
      BY <1>24 DEF Decode, TypeOK
    <2>2. Head(uart).id \in 0..MaxCommands /\ Head(uart).racks \in Masks
      BY <2>1 DEF Command
    <2>4. last_rack_cmd' \in Masks
      BY <1>24, <1>e, <2>2 DEF Decode, TypeOK
    <2>7. dropped' \in BOOLEAN
      BY <1>24 DEF Decode, Arrived, TypeOK
    <2>5. fifo' = fifo \/ \E m \in Masks : PushFifo(m)
      BY <1>24, <1>e, <2>2 DEF Decode, TypeOK
    <2>6. fifo' \in Seq(Masks) /\ Len(fifo') <= FifoCap
      BY <2>5, FifoTypes DEF TypeOK
    <2> QED
      BY <1>24, <2>1, <2>4, <2>6, <2>7 DEF Decode, TypeOK
  <1>25. CASE Seal
    BY <1>25, BoundsAssumption DEF Seal, TypeOK
  <1>26. CASE Deliver
    BY <1>26 DEF Deliver, TypeOK
  <1>27. CASE UNCHANGED vars
    BY <1>27 DEF vars, TypeOK
  <1> QED
    BY <1>1, <1>2, <1>3, <1>4, <1>5, <1>7, <1>8, <1>9, <1>10, <1>11, <1>12, <1>13, <1>14, <1>15, <1>16, <1>28, <1>17, <1>18, <1>19, <1>20, <1>21, <1>22, <1>23, <1>24, <1>25, <1>26, <1>27 DEF Next, Operator, UiThread, RxThread, PollThread

(* A command has a number. *)
LEMMA IdIsNat == \A c \in Command : c.id \in Nat
  BY BoundsAssumption DEF Command

(* The steps that touch the queue.  Append keeps its order. *)
LEMMA EnqueueOrder ==
    ASSUME TypeOK, QueueInOrder, CallIsNewest, ui.step = "append", Enqueue(ui.cmd),
           given' = given, ui' = UiIdle
    PROVE  QueueInOrder'
  <1> USE DEF QueueInOrder, OldestGoFirst
  <1> DEFINE q == queued_commands
  <1>1. q \in Seq(Command) /\ Len(q) \in Nat /\ ui.cmd \in Command /\ given \in Nat
    BY BoundsAssumption DEF TypeOK
  <1>2. ui.cmd.id = given /\ given >= 1
    BY DEF CallIsNewest
  <1>3. \A i \in 1..Len(q) : q[i].id \in Nat /\ q[i].id >= 1 /\ q[i].id < given
    <2>1. \A i \in 1..Len(q) : q[i] \in Command
      BY <1>1
    <2> QED
      BY <2>1, IdIsNat
  <1>4. \A c \in overflowed : c \in Nat /\ c < given
    BY BoundsAssumption DEF TypeOK
  <1>5. ui'.step = "idle"
    BY DEF UiIdle
  <1>6. CASE Len(q) = QueueCap
    <2>1. Len(q) >= 1
      BY <1>6, BoundsAssumption
    <2>2. q' = Append(Tail(q), ui.cmd) /\ overflowed' = overflowed \union {q[1].id}
      BY <1>6, <2>1, <1>1 DEF Enqueue
    <2>3. Len(q') = Len(q) /\ \A i \in 1..Len(q') : q'[i] = IF i = Len(q) THEN ui.cmd ELSE q[i + 1]
      BY <1>1, <2>1, <2>2
    <2>4. \A i \in 1..Len(q') : 1 <= q'[i].id /\ q'[i].id <= given
      BY <1>1, <1>2, <1>3, <2>3
    <2>5. \A i, j \in 1..Len(q') : i < j => q'[i].id < q'[j].id
      <3> SUFFICES ASSUME NEW i \in 1..Len(q'), NEW j \in 1..Len(q'), i < j
                   PROVE  q'[i].id < q'[j].id
        OBVIOUS
      <3>1. i # Len(q) /\ i + 1 \in 1..Len(q) /\ q'[i] = q[i + 1]
        BY <1>1, <2>1, <2>3
      <3>2. CASE j = Len(q)
        BY <1>1, <1>2, <1>3, <2>3, <3>1, <3>2
      <3>3. CASE j # Len(q)
        <4>1. j + 1 \in 1..Len(q) /\ i + 1 < j + 1 /\ q'[j] = q[j + 1]
          BY <1>1, <2>1, <2>3, <3>3
        <4> QED
          BY <3>1, <4>1
      <3> QED
        BY <3>2, <3>3
    <2>6. \A i \in 1..Len(q'), c \in overflowed' : c < q'[i].id
      <3> SUFFICES ASSUME NEW i \in 1..Len(q'), NEW c \in overflowed' PROVE c < q'[i].id
        OBVIOUS
      <3>1. CASE i = Len(q)
        BY <1>1, <1>2, <1>3, <1>4, <2>1, <2>2, <2>3, <3>1
      <3>2. CASE i # Len(q)
        <4>1. i + 1 \in 1..Len(q) /\ 1 \in 1..Len(q) /\ 1 < i + 1 /\ q'[i] = q[i + 1]
          BY <1>1, <2>1, <2>3, <3>2
        <4>2. q[1].id < q[i + 1].id
          BY <4>1
        <4>3. \A k \in overflowed : k < q[i + 1].id
          BY <4>1
        <4> QED
          BY <2>2, <4>1, <4>2, <4>3
      <3> QED
        BY <3>1, <3>2
    <2>7. \A c \in overflowed' : c <= given
      BY <1>1, <1>3, <1>4, <2>1, <2>2
    <2> QED
      BY <1>5, <2>4, <2>5, <2>6, <2>7
  <1>7. CASE Len(q) # QueueCap
    <2>1. q' = Append(q, ui.cmd) /\ overflowed' = overflowed
      BY <1>7 DEF Enqueue
    <2>2. Len(q') = Len(q) + 1 /\ \A i \in 1..Len(q') : q'[i] = IF i = Len(q) + 1 THEN ui.cmd ELSE q[i]
      BY <1>1, <2>1
    <2>3. \A i \in 1..Len(q') : 1 <= q'[i].id /\ q'[i].id <= given
      BY <1>1, <1>2, <1>3, <2>2
    <2>4. ASSUME NEW i \in 1..Len(q'), NEW j \in 1..Len(q'), i < j PROVE q'[i].id < q'[j].id
      <3>1. i \in 1..Len(q) /\ q'[i] = q[i]
        BY <1>1, <2>2, <2>4
      <3>2. CASE j = Len(q) + 1
        BY <1>2, <1>3, <2>2, <3>1, <3>2
      <3>3. CASE j # Len(q) + 1
        <4>1. j \in 1..Len(q) /\ q'[j] = q[j]
          BY <1>1, <2>2, <3>3
        <4> QED
          BY <2>4, <3>1, <4>1
      <3> QED
        BY <3>2, <3>3
    <2>5. \A i \in 1..Len(q'), c \in overflowed' : c < q'[i].id
      BY <1>1, <1>2, <1>4, <2>1, <2>2
    <2> QED
      BY <1>4, <1>5, <2>1, <2>3, <2>4, <2>5
  <1> QED
    BY <1>6, <1>7

(* Taking the head off keeps the order of the rest. *)
LEMMA TailOrder ==
    ASSUME TypeOK, QueueInOrder, queued_commands # <<>>, queued_commands' = Tail(queued_commands),
           UNCHANGED <<given, ui, overflowed>>
    PROVE  QueueInOrder'
  <1> DEFINE q == queued_commands
  <1>1. q \in Seq(Command) /\ Len(q) \in Nat /\ Len(q) >= 1
    BY DEF TypeOK
  <1>2. Len(q') = Len(q) - 1 /\ \A i \in 1..Len(q') : q'[i] = q[i + 1] /\ i + 1 \in 1..Len(q)
    BY <1>1
  <1>3. \A i, j \in 1..Len(q') : i < j => q[i + 1].id < q[j + 1].id
    BY <1>1, <1>2 DEF QueueInOrder, OldestGoFirst
  <1> QED
    BY <1>1, <1>2, <1>3 DEF QueueInOrder, OldestGoFirst

(* A call begins with a number above all of the queue's. *)
LEMMA CallOrder ==
    ASSUME TypeOK, QueueInOrder, NEW m, NEW h, NEW n, Call(m, h, n)
    PROVE  CallIsNewest' /\ QueueInOrder'
  <1>1. given \in Nat /\ given' = given + 1 /\ ui.step = "idle" /\ UNCHANGED <<queued_commands, overflowed>>
    BY BoundsAssumption DEF TypeOK, Call
  <1>2. ui'.step = "test" /\ ui'.cmd.id = given + 1
    BY DEF Call, Cmd
  <1>3. CallIsNewest'
    BY <1>1, <1>2 DEF CallIsNewest
  <1>4. \A i \in 1..Len(queued_commands) : queued_commands[i].id \in Nat
    <2>1. \A i \in 1..Len(queued_commands) : queued_commands[i] \in Command
      BY DEF TypeOK
    <2> QED
      BY <2>1, IdIsNat
  <1>5. \A c \in overflowed : c \in Nat
    BY DEF TypeOK
  <1> QED
    BY <1>1, <1>3, <1>4, <1>5 DEF QueueInOrder, OldestGoFirst

(* A step that leaves queue and call alone, or only ends the call. *)
LEMMA SameOrder ==
    ASSUME QueueInOrder, CallIsNewest, UNCHANGED <<queued_commands, given, overflowed>>,
           ui' = ui \/ ui' = UiIdle \/ (ui.step # "idle" /\ ui'.cmd = ui.cmd)
    PROVE  CallIsNewest' /\ QueueInOrder'
  BY DEF CallIsNewest, QueueInOrder, OldestGoFirst, UiIdle

(* Every step keeps the order of the queue. *)
LEMMA OrderStep == IInv /\ [Next]_vars => CallIsNewest' /\ QueueInOrder'
  <1> SUFFICES ASSUME IInv, [Next]_vars PROVE CallIsNewest' /\ QueueInOrder'
    OBVIOUS
  <1> USE DEF IInv, client, app, zybo, decoder, link, hist
  <1>1. ASSUME NEW r \in Racks, NEW b \in BOOLEAN, SetRack(r, b) PROVE CallIsNewest' /\ QueueInOrder'
    BY <1>1, CallOrder DEF SetRack
  <1>2. ASSUME NEW b \in BOOLEAN, SetAllRacks(b) PROVE CallIsNewest' /\ QueueInOrder'
    BY <1>2, CallOrder DEF SetAllRacks
  <1>3. CASE SetDoor
    BY <1>3, CallOrder DEF SetDoor
  <1>4. CASE RunInvalidKeyTest
    BY <1>4, CallOrder DEF RunInvalidKeyTest
  <1>5. CASE HandleFace
    BY <1>5, CallOrder DEF HandleFace
  <1>6. CASE TestReady
    <2>1. ui.step # "idle" /\ ui'.cmd = ui.cmd /\ UNCHANGED <<queued_commands, given, overflowed>>
      BY <1>6 DEF TestReady, TypeOK
    <2> QED
      BY <2>1, SameOrder
  <1>7. CASE AppendCommand
    <2>1. ui' = UiIdle /\ given' = given /\ ui.step = "append" /\ Enqueue(ui.cmd)
      BY <1>7 DEF AppendCommand, Return
    <2>2. QueueInOrder'
      BY <2>1, EnqueueOrder
    <2> QED
      BY <2>1, <2>2 DEF CallIsNewest, UiIdle
  <1>8. CASE DrainPop
    <2>1. CASE queued_commands = <<>>
      BY <1>8, <2>1, SameOrder DEF DrainPop
    <2>2. CASE queued_commands # <<>>
      <3>1. queued_commands' = Tail(queued_commands) /\ UNCHANGED <<given, ui, overflowed>>
        BY <1>8, <2>2 DEF DrainPop
      <3> QED
        BY <2>2, <3>1, TailOrder DEF CallIsNewest
    <2> QED
      BY <2>1, <2>2
  <1>9. CASE AttackNotSent \/ SendCommand \/ SendRaises
    BY <1>9, SameOrder DEF AttackNotSent, SendCommand, SendRaises, Return
  <1>10. ASSUME NEW b \in BOOLEAN, SetCommandKeyMode(b) PROVE CallIsNewest' /\ QueueInOrder'
    BY <1>10, SameOrder DEF SetCommandKeyMode
  <1>11. CASE PollTest \/ PollSend \/ HandleKeyUpdate \/ HandleKeyConfirm \/ BecomeReady
    BY <1>11, SameOrder DEF PollTest, PollSend, HandleKeyUpdate, HandleKeyConfirm, BecomeReady
  <1>12. CASE DrainSend \/ ReceiveFails \/ DecodeFace \/ Unplug
    BY <1>12, SameOrder DEF DrainSend, ReceiveFails, DecodeFace, Unplug
  <1>13. CASE BeginEpoch \/ BasysConfirmed \/ Decode \/ Seal \/ Deliver
    BY <1>13, SameOrder DEF BeginEpoch, BasysConfirmed, Decode, Seal, Deliver
  <1>14. CASE UNCHANGED vars
    BY <1>14, SameOrder DEF vars
  <1> QED
    BY <1>1, <1>2, <1>3, <1>4, <1>5, <1>6, <1>7, <1>8, <1>9, <1>10, <1>11, <1>12, <1>13, <1>14
       DEF Next, Operator, UiThread, RxThread, PollThread

(* Once the flush has ended, a command is appended only if it was tested   *)
(* before KEY_CONFIRM, and there is one such call at most. *)
LEMMA StrandedStep == IInv /\ [Next]_vars => AtMostOneStranded'
  <1> SUFFICES ASSUME IInv, [Next]_vars, session_ready', rx'.step = "idle"
               PROVE  Len(queued_commands') + (IF ui'.step = "append" THEN 1 ELSE 0) <= 1
    BY DEF AtMostOneStranded
  <1> USE DEF IInv, client, app, zybo, decoder, link, hist, AtMostOneStranded
  <1>q. queued_commands \in Seq(Command) /\ Len(queued_commands) \in Nat
    BY DEF TypeOK
  <1>s. ASSUME session_ready, rx.step = "idle", UNCHANGED queued_commands, ui'.step = "append" => ui.step = "append"
        PROVE  Len(queued_commands') + (IF ui'.step = "append" THEN 1 ELSE 0) <= 1
    BY <1>q, <1>s
  <1>1. ASSUME NEW m, NEW h, NEW n, Call(m, h, n)
        PROVE  Len(queued_commands') + (IF ui'.step = "append" THEN 1 ELSE 0) <= 1
    BY <1>1, <1>s DEF Call
  <1>2. ASSUME NEW r \in Racks, NEW b \in BOOLEAN, SetRack(r, b) \/ SetAllRacks(b) \/ SetDoor
        PROVE  Len(queued_commands') + (IF ui'.step = "append" THEN 1 ELSE 0) <= 1
    BY <1>1, <1>2 DEF SetRack, SetAllRacks, SetDoor
  <1>3. CASE RunInvalidKeyTest \/ HandleFace
    BY <1>1, <1>3 DEF RunInvalidKeyTest, HandleFace
  <1>4. CASE TestReady
    <2>1. session_ready /\ rx.step = "idle" /\ UNCHANGED queued_commands
      BY <1>4 DEF TestReady
    <2>2. ui'.step = "send"
      BY <1>4, <2>1 DEF TestReady, TypeOK
    <2> QED
      BY <1>s, <2>1, <2>2
  <1>5. CASE AppendCommand
    <2>1. session_ready /\ rx.step = "idle" /\ ui.step = "append" /\ ui'.step = "idle"
      BY <1>5 DEF AppendCommand, Return, UiIdle
    <2>2. Len(queued_commands) = 0 /\ Len(queued_commands) # QueueCap
      BY <1>q, <2>1, BoundsAssumption
    <2>3. queued_commands' = Append(queued_commands, ui.cmd)
      BY <1>5, <2>2 DEF AppendCommand, Enqueue
    <2>4. Len(queued_commands') = 1
      BY <1>q, <2>2, <2>3 DEF TypeOK
    <2> QED
      BY <2>1, <2>4
  <1>6. CASE DrainPop
    <2>1. queued_commands = <<>>
      BY <1>6 DEF DrainPop
    <2>2. Len(queued_commands') = 0
      BY <1>6, <2>1 DEF DrainPop
    <2> QED
      BY <2>2
  <1>7. CASE HandleKeyUpdate \/ HandleKeyConfirm \/ BecomeReady \/ DrainSend \/ ReceiveFails
    BY <1>7, <1>s DEF HandleKeyUpdate, HandleKeyConfirm, BecomeReady, DrainSend, ReceiveFails, RxIdle
  <1>8. CASE AttackNotSent \/ SendCommand \/ SendRaises
    <2>1. ui' = UiIdle /\ UNCHANGED <<session_ready, rx, queued_commands>>
      BY <1>8 DEF AttackNotSent, SendCommand, SendRaises, Return
    <2>2. ui'.step = "idle"
      BY <2>1 DEF UiIdle
    <2> QED
      BY <1>s, <2>1, <2>2
  <1>9. ASSUME NEW b \in BOOLEAN, SetCommandKeyMode(b)
        PROVE  Len(queued_commands') + (IF ui'.step = "append" THEN 1 ELSE 0) <= 1
    BY <1>9, <1>s DEF SetCommandKeyMode
  <1>10. CASE PollTest \/ PollSend \/ DecodeFace \/ Unplug
    BY <1>10, <1>s DEF PollTest, PollSend, DecodeFace, Unplug
  <1>11. CASE BeginEpoch \/ BasysConfirmed \/ Decode \/ Seal \/ Deliver
    BY <1>11, <1>s DEF BeginEpoch, BasysConfirmed, Decode, Seal, Deliver
  <1>12. CASE UNCHANGED vars
    BY <1>12, <1>s DEF vars
  <1> QED
    <2>1. CASE \E r \in Racks, b \in BOOLEAN : SetRack(r, b)
      BY <1>2, <2>1
    <2>2. CASE SetDoor \/ \E b \in BOOLEAN : SetAllRacks(b)
      BY <1>1, <2>2 DEF SetAllRacks, SetDoor
    <2> QED
      BY <1>3, <1>4, <1>5, <1>6, <1>7, <1>8, <1>9, <1>10, <1>11, <1>12, <2>1, <2>2
         DEF Next, Operator, UiThread, RxThread, PollThread

(* The strengthened invariant holds in every state. *)
LEMMA Inductive == Spec => []IInv
  <1>1. IInv /\ [Next]_vars => IInv'
    BY TypeStep, OrderStep, StrandedStep DEF IInv
  <1> QED
    BY InitCommands, <1>1, PTL DEF Spec

(* Every field of the client, the app and the decoder keeps its type; the  *)
(* queue never grows past its maxlen. *)
THEOREM TypeCorrect == Spec => []TypeOK
  <1>1. IInv => TypeOK
    BY DEF IInv
  <1> QED
    BY Inductive, <1>1, PTL

(* A full queue forgets the oldest command, never a newer one, and keeps the order given. *)
THEOREM QueueForgetsTheOldest == Spec => []OldestGoFirst
  <1>1. IInv => OldestGoFirst
    BY DEF IInv, QueueInOrder
  <1> QED
    BY Inductive, <1>1, PTL

(* send_command's untimely append leaves at most one command behind the flush. *)
THEOREM OneStranded == Spec => []AtMostOneStranded
  <1>1. IInv => AtMostOneStranded
    BY DEF IInv
  <1> QED
    BY Inductive, <1>1, PTL

-----------------------------------------------------------------------------
(* Where a command is, on its way from the button to the rack.             *)

(* The hand of each thread. *)
UiHand == IF ui.step = "idle" THEN {} ELSE {ui.cmd.id}
RxHand == IF rx.step = "send" THEN {rx.cmd.id} ELSE {}

(* No command is in two of these places ... *)
Apart(S, Q, U, R, O, N) ==
    /\ S \cap (Q \union U \union R \union O \union N) = {}
    /\ Q \cap (U \union R \union O \union N) = {}
    /\ U \cap (R \union O \union N) = {}
    /\ R \cap (O \union N) = {}
    /\ O \cap N = {}

(* ... and each is in one, and was transmitted once if at all. *)
PlacesInv ==
    plugged =>
      /\ 1..given = Sent \union Queued \union UiHand \union RxHand \union overflowed \union unsent
      /\ Apart(Sent, Queued, UiHand, RxHand, overflowed, unsent)
      /\ Len(sent) = Cardinality(Sent)

(* Disjoint sets are counted one by one. *)
LEMMA CountApart ==
    ASSUME NEW S, NEW Q, NEW U, NEW R, NEW O, NEW N, Apart(S, Q, U, R, O, N),
           IsFiniteSet(S), IsFiniteSet(Q), IsFiniteSet(U), IsFiniteSet(R), IsFiniteSet(O), IsFiniteSet(N)
    PROVE  Cardinality(S \union Q \union U \union R \union O \union N)
           = Cardinality(S) + Cardinality(Q) + Cardinality(U \union R) + Cardinality(O) + Cardinality(N)
  <1>0. ASSUME NEW A, NEW B, IsFiniteSet(A), IsFiniteSet(B), A \cap B = {}
        PROVE  IsFiniteSet(A \union B) /\ Cardinality(A \union B) = Cardinality(A) + Cardinality(B)
               /\ Cardinality(A) \in Nat /\ Cardinality(B) \in Nat
    <2>1. Cardinality(A \cap B) = 0
      BY <1>0, FS_EmptySet
    <2>2. Cardinality(A) \in Nat /\ Cardinality(B) \in Nat
      BY <1>0, FS_CardinalityType
    <2>3. IsFiniteSet(A \union B) /\ Cardinality(A \union B) = Cardinality(A) + Cardinality(B) - Cardinality(A \cap B)
      BY <1>0, FS_Union
    <2> QED
      BY <2>1, <2>2, <2>3
  <1> DEFINE H == U \union R
  <1>1. IsFiniteSet(H) /\ IsFiniteSet(O \union N) /\ Cardinality(O \union N) = Cardinality(O) + Cardinality(N)
    BY <1>0 DEF Apart
  <1>2. H \cap (O \union N) = {} /\ Q \cap (H \union (O \union N)) = {} /\ S \cap (Q \union (H \union (O \union N))) = {}
    BY DEF Apart
  <1>3. S \union Q \union U \union R \union O \union N = S \union (Q \union (H \union (O \union N)))
    OBVIOUS
  <1> DEFINE ON == O \union N
             HON == H \union ON
             QHON == Q \union HON
  <1>4. Cardinality(H) \in Nat /\ Cardinality(O) \in Nat /\ Cardinality(N) \in Nat /\ Cardinality(Q) \in Nat
        /\ Cardinality(S) \in Nat
    BY <1>1, FS_CardinalityType
  <1>5. IsFiniteSet(HON) /\ Cardinality(HON) = Cardinality(H) + Cardinality(ON)
    BY <1>0, <1>1, <1>2
  <1>6. IsFiniteSet(QHON) /\ Cardinality(QHON) = Cardinality(Q) + Cardinality(HON)
    BY <1>0, <1>2, <1>5
  <1>7. Cardinality(S \union QHON) = Cardinality(S) + Cardinality(QHON)
    BY <1>0, <1>2, <1>6
  <1>8. Cardinality(ON) = Cardinality(O) + Cardinality(N)
    BY <1>1
  <1>9. S \union Q \union U \union R \union O \union N = S \union QHON
    BY <1>3
  <1> HIDE DEF H, ON, HON, QHON
  <1>10. Cardinality(S \union QHON)
        = Cardinality(S) + Cardinality(Q) + Cardinality(H) + Cardinality(O) + Cardinality(N)
    BY <1>4, <1>5, <1>6, <1>7, <1>8
  <1> QED
    BY <1>9, <1>10 DEF H

(* The places say what the run checks. *)
LEMMA PlacesCount == TypeOK /\ PlacesInv => EachCommandOnce
  <1> SUFFICES ASSUME TypeOK, PlacesInv, plugged
               PROVE  /\ 1..given = Sent \union Queued \union InHand \union overflowed \union unsent
                      /\ Cardinality(Sent) + Cardinality(Queued) + Cardinality(InHand)
                           + Cardinality(overflowed) + Cardinality(unsent) = given
                      /\ Len(sent) = Cardinality(Sent)
    BY DEF EachCommandOnce
  <1> DEFINE all == Sent \union Queued \union UiHand \union RxHand \union overflowed \union unsent
  <1>1. InHand = UiHand \union RxHand
    BY DEF InHand, UiHand, RxHand
  <1>2. 1..given = all /\ Apart(Sent, Queued, UiHand, RxHand, overflowed, unsent) /\ Len(sent) = Cardinality(Sent)
    BY DEF PlacesInv
  <1>3. given \in Nat
    BY BoundsAssumption DEF TypeOK
  <1>4. IsFiniteSet(1..given) /\ Cardinality(1..given) = given
    BY <1>3, FS_Interval
  <1>5. IsFiniteSet(all) /\ Cardinality(all) = given
    BY <1>2, <1>4
  <1>6. ASSUME NEW T, T \subseteq all PROVE IsFiniteSet(T)
    BY <1>5, <1>6, FS_Subset
  <1>7. IsFiniteSet(Sent) /\ IsFiniteSet(Queued) /\ IsFiniteSet(UiHand) /\ IsFiniteSet(RxHand)
        /\ IsFiniteSet(overflowed) /\ IsFiniteSet(unsent)
    BY <1>6
  <1>8. Cardinality(all) = Cardinality(Sent) + Cardinality(Queued) + Cardinality(UiHand \union RxHand)
                           + Cardinality(overflowed) + Cardinality(unsent)
    <2>1. Apart(Sent, Queued, UiHand, RxHand, overflowed, unsent)
      BY <1>2
    <2> QED
      BY <1>7, <2>1, CountApart
  <1> QED
    BY <1>1, <1>2, <1>5, <1>8

(* A command that goes from one place to another. *)
LEMMA SentGrows ==
    ASSUME TypeOK, PlacesInv, plugged, NEW c \in Command, c.id # 0, c.id \notin Sent, Transmit(c)
    PROVE  Sent' = Sent \union {c.id} /\ Len(sent') = Cardinality(Sent')
  <1>1. sent \in Seq(1..MaxCommands) /\ sent' = Append(sent, c.id)
    BY DEF TypeOK, Transmit
  <1>2. Len(sent') = Len(sent) + 1 /\ Len(sent) \in Nat
        /\ \A i \in 1..Len(sent') : sent'[i] = IF i = Len(sent) + 1 THEN c.id ELSE sent[i]
    BY <1>1
  <1>3. Sent' = Sent \union {c.id}
    BY <1>2 DEF Sent
  <1>4. IsFiniteSet(1..given)
    BY BoundsAssumption, FS_Interval DEF TypeOK
  <1>5. IsFiniteSet(Sent)
    BY <1>4, FS_Subset DEF PlacesInv
  <1>6. Cardinality(Sent') = Cardinality(Sent) + 1
    BY <1>3, <1>5, FS_AddElement
  <1> QED
    BY <1>2, <1>3, <1>6 DEF PlacesInv

(* The places after a step that leaves them alone. *)
LEMMA SamePlaces ==
    ASSUME PlacesInv, plugged' => plugged, UNCHANGED <<sent, queued_commands, given, overflowed, unsent>>,
           UiHand' = UiHand, RxHand' = RxHand
    PROVE  PlacesInv'
  BY DEF PlacesInv, Sent, Queued

(* A call is a new command, in the hand of the UI thread. *)
LEMMA CallPlaces ==
    ASSUME TypeOK, PlacesInv, NEW m, NEW h, NEW n, Call(m, h, n)
    PROVE  PlacesInv'
  <1>1. given \in Nat /\ given' = given + 1 /\ plugged
    BY BoundsAssumption DEF TypeOK, Call
  <1>2. UNCHANGED <<sent, queued_commands, overflowed, unsent, rx>>
    BY DEF Call
  <1>3. UiHand = {} /\ UiHand' = {given + 1}
    BY DEF Call, UiHand, Cmd
  <1>4. Sent' = Sent /\ Queued' = Queued /\ RxHand' = RxHand /\ overflowed' = overflowed /\ unsent' = unsent
    BY <1>2 DEF Sent, Queued, RxHand
  <1>5. 1..given' = 1..given \union {given + 1} /\ given + 1 \notin 1..given
    BY <1>1
  <1>6. 1..given = Sent \union Queued \union UiHand \union RxHand \union overflowed \union unsent
        /\ Apart(Sent, Queued, UiHand, RxHand, overflowed, unsent) /\ Len(sent) = Cardinality(Sent)
    BY <1>1 DEF PlacesInv
  <1>7. Apart(Sent, Queued, {given + 1}, RxHand, overflowed, unsent)
    <2>1. \A x \in Sent \union Queued \union RxHand \union overflowed \union unsent : x # given + 1
      BY <1>5, <1>6
    <2> QED
      BY <1>3, <1>6, <2>1 DEF Apart
  <1>8. 1..given' = Sent \union Queued \union {given + 1} \union RxHand \union overflowed \union unsent
    BY <1>3, <1>5, <1>6
  <1> QED
    BY <1>2, <1>3, <1>4, <1>6, <1>7, <1>8 DEF PlacesInv

(* Every step keeps each command in one place. *)
LEMMA PlacesStep == IInv /\ PlacesInv /\ [Next]_vars => PlacesInv'
  <1> SUFFICES ASSUME IInv, PlacesInv, [Next]_vars PROVE PlacesInv'
    OBVIOUS
  <1> USE DEF IInv, client, app, zybo, decoder, link, hist
  <1>q. queued_commands \in Seq(Command) /\ Len(queued_commands) \in Nat
    BY DEF TypeOK
  <1>p. plugged => /\ 1..given = Sent \union Queued \union UiHand \union RxHand \union overflowed \union unsent
                   /\ Apart(Sent, Queued, UiHand, RxHand, overflowed, unsent)
                   /\ Len(sent) = Cardinality(Sent)
    BY DEF PlacesInv
  <1>u. ui.step # "idle" => UiHand = {ui.cmd.id} /\ ui.cmd.id # 0
    BY BoundsAssumption DEF UiHand, CallIsNewest, TypeOK
  <1>i. ui' = UiIdle => UiHand' = {}
    BY DEF UiHand, UiIdle
  <1>1. ASSUME NEW r \in Racks, NEW b \in BOOLEAN, SetRack(r, b) PROVE PlacesInv'
    BY <1>1, CallPlaces DEF SetRack
  <1>2. ASSUME NEW b \in BOOLEAN, SetAllRacks(b) PROVE PlacesInv'
    BY <1>2, CallPlaces DEF SetAllRacks
  <1>3. CASE SetDoor
    BY <1>3, CallPlaces DEF SetDoor
  <1>4. CASE RunInvalidKeyTest \/ HandleFace
    BY <1>4, CallPlaces DEF RunInvalidKeyTest, HandleFace
  <1>5. CASE TestReady
    <2>1. UiHand' = UiHand /\ RxHand' = RxHand
      BY <1>5 DEF TestReady, UiHand, RxHand, TypeOK
    <2> QED
      BY <1>5, <2>1, SamePlaces DEF TestReady
  <1>6. CASE AttackNotSent
    <2>1. UiHand = {ui.cmd.id} /\ UiHand' = {} /\ RxHand' = RxHand /\ Sent' = Sent /\ Queued' = Queued
      BY <1>6, <1>u, <1>i DEF AttackNotSent, RxHand, Sent, Queued
    <2>2. unsent' = unsent \union {ui.cmd.id} /\ UNCHANGED <<plugged, sent, overflowed, given>>
      BY <1>6 DEF AttackNotSent
    <2> QED
      BY <1>p, <2>1, <2>2 DEF PlacesInv, Apart
  <1>7. CASE AppendCommand
    <2>1. UiHand = {ui.cmd.id} /\ UiHand' = {} /\ RxHand' = RxHand /\ Sent' = Sent
      BY <1>7, <1>u, <1>i DEF AppendCommand, Return, RxHand, Sent
    <2>2. UNCHANGED <<plugged, sent, unsent, given>> /\ Enqueue(ui.cmd)
      BY <1>7 DEF AppendCommand
    <2>3. CASE Len(queued_commands) = QueueCap
      <3> DEFINE q == queued_commands
      <3>1. Len(q) >= 1 /\ q' = Append(Tail(q), ui.cmd) /\ overflowed' = overflowed \union {q[1].id}
        BY <1>q, <2>2, <2>3, BoundsAssumption DEF Enqueue
      <3>2. ui.cmd \in Command
        BY DEF TypeOK
      <3>3. Len(q') = Len(q) /\ \A i \in 1..Len(q) : q'[i] = IF i = Len(q) THEN ui.cmd ELSE q[i + 1]
        BY <1>q, <3>1, <3>2
      <3>4. Queued' = (Queued \ {q[1].id}) \union {ui.cmd.id}
        <4>1. \A i \in 2..Len(q) : q[i].id # q[1].id
          <5>1. \A i \in 2..Len(q) : q[1].id < q[i].id /\ q[i].id \in Nat /\ q[1].id \in Nat
            <6>1. \A i \in 1..Len(q) : q[i] \in Command
              BY <1>q
            <6>2. \A i \in 1..Len(q) : q[i].id \in Nat
              BY <6>1, IdIsNat
            <6> QED
              BY <1>q, <3>1, <6>2 DEF QueueInOrder, OldestGoFirst
          <5> QED
            BY <5>1
        <4>2. Queued = {q[1].id} \union {q[i].id : i \in 2..Len(q)}
          BY <1>q, <3>1 DEF Queued
        <4>3. Queued' = {q[i].id : i \in 2..Len(q)} \union {ui.cmd.id}
          <5>1. \A x \in Queued' : x \in {q[i].id : i \in 2..Len(q)} \union {ui.cmd.id}
            BY <1>q, <3>3 DEF Queued
          <5>2. \A i \in 2..Len(q) : i - 1 \in 1..Len(q) /\ q'[i - 1] = q[i]
            BY <1>q, <3>3
          <5>3. q'[Len(q)] = ui.cmd /\ Len(q) \in 1..Len(q)
            BY <1>q, <3>1, <3>3
          <5>4. \A i \in 1..Len(q) : q'[i].id \in Queued'
            BY <3>3 DEF Queued
          <5>5. \A i \in 2..Len(q) : q[i].id \in Queued'
            BY <5>2, <5>4
          <5> QED
            BY <5>1, <5>3, <5>4, <5>5
        <4> QED
          BY <4>1, <4>2, <4>3
      <3>5. q[1].id \in Queued
        BY <1>q, <3>1 DEF Queued
      <3> HIDE DEF q
      <3> QED
        BY <1>p, <2>1, <2>2, <3>1, <3>4, <3>5 DEF PlacesInv, Apart
    <2>4. CASE Len(queued_commands) # QueueCap
      <3>1. queued_commands' = Append(queued_commands, ui.cmd) /\ overflowed' = overflowed
        BY <2>2, <2>4 DEF Enqueue
      <3>2. Queued' = Queued \union {ui.cmd.id}
        <4>1. Len(queued_commands') = Len(queued_commands) + 1
              /\ \A i \in 1..Len(queued_commands') :
                   queued_commands'[i] = IF i = Len(queued_commands) + 1 THEN ui.cmd ELSE queued_commands[i]
          <5>1. ui.cmd \in Command
            BY DEF TypeOK
          <5> QED
            BY <1>q, <3>1, <5>1
        <4> QED
          BY <1>q, <4>1 DEF Queued
      <3> QED
        BY <1>p, <2>1, <2>2, <3>1, <3>2 DEF PlacesInv, Apart
    <2> QED
      BY <2>3, <2>4
  <1>8. CASE SendCommand
    <2>1. UiHand = {ui.cmd.id} /\ UiHand' = {} /\ RxHand' = RxHand /\ Queued' = Queued /\ ui.cmd.id # 0
      BY <1>8, <1>u, <1>i DEF SendCommand, Return, RxHand, Queued
    <2>2. UNCHANGED <<plugged, unsent, overflowed, given>> /\ Transmit(ui.cmd) /\ plugged /\ ui.cmd \in Command
      BY <1>8 DEF SendCommand, TypeOK
    <2>3. ui.cmd.id \notin Sent
      BY <1>p, <2>1, <2>2 DEF Apart
    <2>4. Sent' = Sent \union {ui.cmd.id} /\ Len(sent') = Cardinality(Sent')
      BY <2>1, <2>2, <2>3, SentGrows
    <2> QED
      BY <1>p, <2>1, <2>2, <2>4 DEF PlacesInv, Apart
  <1>9. CASE DrainSend
    <2>1. RxHand = {rx.cmd.id} /\ RxHand' = {} /\ UiHand' = UiHand /\ Queued' = Queued
      BY <1>9 DEF DrainSend, RxHand, RxIdle, UiHand, Queued
    <2>2. UNCHANGED <<plugged, unsent, overflowed, given>> /\ Transmit(rx.cmd) /\ plugged /\ rx.cmd \in Command
      BY <1>9 DEF DrainSend, TypeOK
    <2>3. rx.cmd.id \notin Sent /\ rx.cmd.id \in 1..given
      BY <1>p, <2>1, <2>2 DEF Apart
    <2>4. Sent' = Sent \union {rx.cmd.id} /\ Len(sent') = Cardinality(Sent')
      BY <2>2, <2>3, SentGrows
    <2> QED
      BY <1>p, <2>1, <2>2, <2>4 DEF PlacesInv, Apart
  <1>10. CASE DrainPop
    <2>1. CASE queued_commands = <<>>
      <3>1. UiHand' = UiHand /\ RxHand' = RxHand
        BY <1>10, <2>1 DEF DrainPop, UiHand, RxHand, RxIdle
      <3> QED
        BY <1>10, <2>1, <3>1, SamePlaces DEF DrainPop
    <2>2. CASE queued_commands # <<>>
      <3> DEFINE q == queued_commands
      <3>1. Len(q) >= 1 /\ q' = Tail(q) /\ UNCHANGED <<plugged, sent, unsent, overflowed, given, ui>>
        BY <1>10, <1>q, <2>2 DEF DrainPop
      <3>2. RxHand = {} /\ RxHand' = {q[1].id} /\ UiHand' = UiHand /\ Sent' = Sent
        BY <1>10, <1>q, <2>2, <3>1 DEF DrainPop, RxHand, UiHand, Sent
      <3>3. Len(q') = Len(q) - 1 /\ \A i \in 1..Len(q') : q'[i] = q[i + 1]
        BY <1>q, <3>1
      <3>4. \A i \in 2..Len(q) : q[i].id # q[1].id
        <4>1. \A i \in 1..Len(q) : q[i].id \in Nat
          <5>1. \A i \in 1..Len(q) : q[i] \in Command
            BY <1>q
          <5> QED
            BY <5>1, IdIsNat
        <4>2. \A i \in 2..Len(q) : q[1].id < q[i].id
          BY <1>q, <3>1 DEF QueueInOrder, OldestGoFirst
        <4> QED
          BY <1>q, <4>1, <4>2
      <3>5. Queued' = {q[i].id : i \in 2..Len(q)}
        <4>1. \A x \in Queued' : x \in {q[i].id : i \in 2..Len(q)}
          BY <1>q, <3>3 DEF Queued
        <4>2. \A i \in 2..Len(q) : i - 1 \in 1..Len(q') /\ q'[i - 1] = q[i]
          BY <1>q, <3>3
        <4> QED
          BY <4>1, <4>2 DEF Queued
      <3>6. Queued = {q[1].id} \union {q[i].id : i \in 2..Len(q)}
        BY <1>q, <3>1 DEF Queued
      <3>7. q[1].id \notin Queued' /\ Queued = {q[1].id} \union Queued'
        BY <3>4, <3>5, <3>6
      <3> HIDE DEF q
      <3> QED
        BY <1>p, <3>1, <3>2, <3>7 DEF PlacesInv, Apart
    <2> QED
      BY <2>1, <2>2
  <1>11. CASE PollSend
    <2>1. UNCHANGED <<sent, ui, rx, queued_commands, given, overflowed, unsent, plugged>>
      BY <1>11 DEF PollSend, Transmit, PollCmd, Cmd
    <2> QED
      BY <2>1, SamePlaces DEF UiHand, RxHand
  <1>12. CASE SendRaises \/ ReceiveFails
    BY <1>12 DEF SendRaises, ReceiveFails, PlacesInv
  <1>13. CASE HandleKeyConfirm \/ BecomeReady
    <2>1. UiHand' = UiHand /\ RxHand' = RxHand
      BY <1>13 DEF HandleKeyConfirm, BecomeReady, UiHand, RxHand, RxIdle
    <2> QED
      BY <1>13, <2>1, SamePlaces DEF HandleKeyConfirm, BecomeReady
  <1>14. ASSUME UNCHANGED <<sent, ui, rx, queued_commands, given, overflowed, unsent>>, plugged' => plugged
         PROVE  PlacesInv'
    BY <1>14, SamePlaces DEF UiHand, RxHand
  <1>15. ASSUME NEW b \in BOOLEAN, SetCommandKeyMode(b) PROVE PlacesInv'
    BY <1>14, <1>15 DEF SetCommandKeyMode
  <1>16. CASE PollTest \/ HandleKeyUpdate \/ DecodeFace \/ Unplug
    BY <1>14, <1>16 DEF PollTest, HandleKeyUpdate, DecodeFace, Unplug
  <1>17. CASE BeginEpoch \/ BasysConfirmed \/ Decode \/ Seal \/ Deliver
    BY <1>14, <1>17 DEF BeginEpoch, BasysConfirmed, Decode, Seal, Deliver
  <1>18. CASE UNCHANGED vars
    BY <1>14, <1>18 DEF vars
  <1> QED
    BY <1>1, <1>2, <1>3, <1>4, <1>5, <1>6, <1>7, <1>8, <1>9, <1>10, <1>11, <1>12, <1>13, <1>15, <1>16, <1>17, <1>18
       DEF Next, Operator, UiThread, RxThread, PollThread

(* Each command given is in exactly one place, and transmitted once at most. *)
THEOREM CommandsOnce == Spec => []EachCommandOnce
  <1>1. Init => PlacesInv
    <2> SUFFICES ASSUME Init PROVE PlacesInv
      OBVIOUS
    <2>1. Sent = {} /\ Queued = {} /\ UiHand = {} /\ RxHand = {} /\ Len(sent) = 0
      BY DEF Init, Sent, Queued, UiHand, RxHand, UiIdle, RxIdle
    <2>2. given = 0 /\ overflowed = {} /\ unsent = {}
      BY DEF Init
    <2>3. 1..given = {}
      BY <2>2
    <2> QED
      BY <2>1, <2>2, <2>3, FS_EmptySet DEF PlacesInv, Apart
  <1>2. IInv /\ PlacesInv => EachCommandOnce
    BY PlacesCount DEF IInv
  <1>3. IInv /\ PlacesInv /\ [Next]_vars => PlacesInv'
    BY PlacesStep
  <1> QED
    BY Inductive, <1>1, <1>2, <1>3, PTL DEF Spec
===============================================================================
