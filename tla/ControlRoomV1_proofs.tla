------------------------- MODULE ControlRoomV1_proofs -------------------------
(***************************************************************************)
(* For any number of racks, key changes, commands and faces, and queues of *)
(* any capacity: the codecs of the first-generation program and of the     *)
(* ZYBO change in step.                                                    *)
(***************************************************************************)
EXTENDS ControlRoomV1, TLAPS

(* The client is behind the ZYBO, and the key of its sender behind the     *)
(* random it was told of.                                                  *)
InStep ==
    /\ tx <= pending_random /\ pending_random <= r
    /\ pending_key_active <=> tx = pending_random /\ tx # 0
    /\ session_ready => pending_key_active /\ current_random = pending_random
    /\ stage = "update" => tx < r
    /\ stage # "update" => pending_random = r
    /\ stage \in {"confirm", "basys", "run"} => tx = r

(* Towards the PC: epochs in order, an update that the sender's key has    *)
(* not yet followed, never behind the commit of its own epoch.             *)
DownInOrder ==
    /\ \A i \in 1..Len(down) :
         /\ down[i].r # 0 /\ down[i].r \in pending_random..r
         /\ IF down[i].type = "KEY_UPDATE" THEN down[i].r > tx
            ELSE stage = "update" => down[i].r < r
         /\ down[i].type \in {"KEY_CONFIRM", "FACE"} => down[i].r <= tx
    /\ \A i, j \in 1..Len(down) : i < j =>
         /\ down[i].r <= down[j].r
         /\ down[i].type # "KEY_UPDATE" /\ down[j].type = "KEY_UPDATE" => down[i].r < down[j].r

(* Towards the ZYBO: nothing is newer than the key it was made with, and   *)
(* no command behind a CONFIRM_ACK is older than that.                     *)
UpInOrder ==
    /\ \A i \in 1..Len(up) :
         /\ up[i].r <= IF up[i].type = "READY" THEN pending_random ELSE tx
         /\ stage \in {"basys", "run"} /\ up[i].type = "COMMAND" => up[i].r = r
    /\ \A i, j \in 1..Len(up) :
         i < j /\ up[i].type = "CONFIRM_ACK" /\ up[j].type = "COMMAND" => up[i].r <= up[j].r

Order ==
    /\ r # 0
    /\ InStep /\ DownInOrder /\ UpInOrder
    /\ used \subseteq Nat /\ \A k \in used : k <= tx
    /\ ~reused /\ ~false_alarm
OrderInv == TypeOK /\ Order

-----------------------------------------------------------------------------
(* Frames on the UART.                                                     *)

(* The first frame is taken. *)
LEMMA Taking ==
    ASSUME NEW S, NEW q \in Seq(S), q # <<>>
    PROVE  /\ Head(q) \in S /\ Head(q) = q[1] /\ 1 \in 1..Len(q) /\ Len(q) \in Nat
           /\ Tail(q) \in Seq(S) /\ Len(Tail(q)) = Len(q) - 1
           /\ \A i \in 1..Len(Tail(q)) : i + 1 \in 1..Len(q) /\ Tail(q)[i] = q[i + 1]
  OBVIOUS

(* One more is sent. *)
LEMMA Putting ==
    ASSUME NEW S, NEW q \in Seq(S), NEW e \in S
    PROVE  /\ Append(q, e) \in Seq(S) /\ Len(Append(q, e)) = Len(q) + 1 /\ Len(q) \in Nat
           /\ \A i \in 1..Len(q) : Append(q, e)[i] = q[i]
           /\ \A i \in 1..Len(Append(q, e)) :
                \/ i \in 1..Len(q) /\ Append(q, e)[i] = q[i]
                \/ i = Len(q) + 1 /\ Append(q, e)[i] = e
  OBVIOUS

LEMMA FrameTypes ==
    ASSUME TypeOK
    PROVE  /\ r \in Nat /\ tx \in Nat /\ pending_random \in Nat /\ current_random \in Nat
           /\ down \in Seq(Msg) /\ up \in Seq(Reply)
           /\ \A i \in 1..Len(down) : down[i] \in Msg /\ down[i].r \in Nat
           /\ \A i \in 1..Len(up) : up[i] \in Reply /\ up[i].r \in Nat
           /\ PollCmd \in Command /\ Idle.cmd \in Command
  <1>1. PollCmd \in Command /\ Idle.cmd \in Command
    BY DEF PollCmd, Cmd, Command, Doors, Masks, Idle
  <1>2. down \in Seq(Msg) /\ up \in Seq(Reply)
    BY DEF TypeOK
  <1>3. \A i \in 1..Len(down) : down[i] \in Msg
    BY <1>2
  <1>4. \A i \in 1..Len(up) : up[i] \in Reply
    BY <1>2
  <1>5. Epochs \subseteq Nat
    BY BoundsAssumption DEF Epochs
  <1> QED
    BY <1>1, <1>2, <1>3, <1>4, <1>5 DEF TypeOK, Msg, Reply

-----------------------------------------------------------------------------
(* The initial state, and what the steps have in common.                   *)

LEMMA OrderInit == Init => OrderInv
  <1> SUFFICES ASSUME Init PROVE OrderInv
    OBVIOUS
  <1>1. 0 \in Epochs /\ 1 \in Epochs
    BY BoundsAssumption DEF Epochs
  <1>2. TypeOK
    <2>1. Idle \in [step : {"idle", "test", "append", "send"}, cmd : Command]
          /\ Idle \in [step : {"idle", "drain", "send", "face"}, cmd : Command]
      BY DEF Idle, PollCmd, Cmd, Command, Doors, Masks
    <2>2. /\ <<>> \in Seq(Command) /\ <<>> \in Seq(Msg) /\ <<>> \in Seq(Reply)
          /\ Len(<<>>) <= QueueCap /\ Len(<<>>) <= LineCap
      BY BoundsAssumption
    <2> QED
      BY <1>1, <2>1, <2>2 DEF Init, TypeOK, Masks
  <1> QED
    BY <1>2 DEF Init, OrderInv, Order, InStep, DownInOrder, UpInOrder

(* A step that touches neither the keys nor the UART. *)
LEMMA OrderKept ==
    ASSUME OrderInv, TypeOK',
           UNCHANGED <<client, tx, down, up, stage, r, used, reused, false_alarm>>
    PROVE  OrderInv'
  <1>1. UNCHANGED <<session_ready, pending_random, pending_key_active, current_random>>
    BY DEF client
  <1>2. InStep' /\ DownInOrder' /\ UpInOrder'
    BY <1>1 DEF OrderInv, Order, InStep, DownInOrder, UpInOrder
  <1> QED
    BY <1>2 DEF OrderInv, Order

(* A frame is sent to the ZYBO, made with nothing that is not there yet.   *)
LEMMA UpPut ==
    ASSUME OrderInv, TypeOK', NEW e \in Reply, up' = Append(up, e),
           UNCHANGED <<stage, r>>, pending_random <= pending_random', tx <= tx',
           IF e.type = "READY" THEN e.r <= pending_random' ELSE e.r <= tx',
           e.type = "COMMAND" => e.r = tx' /\ (stage \in {"basys", "run"} => e.r = r)
    PROVE  UpInOrder'
  <1>1. TypeOK
    BY DEF OrderInv
  <1>2. \A i \in 1..Len(up') :
          \/ i \in 1..Len(up) /\ up'[i] = up[i]
          \/ i = Len(up) + 1 /\ up'[i] = e
    BY <1>1, FrameTypes, Putting
  <1>3. \A i \in 1..Len(up) :
          /\ up[i].r <= IF up[i].type = "READY" THEN pending_random ELSE tx
          /\ up[i].r \in Nat
    BY <1>1, FrameTypes DEF OrderInv, Order, UpInOrder
  <1>4. /\ tx \in Nat /\ pending_random \in Nat /\ tx' \in Nat /\ pending_random' \in Nat
        /\ Len(up) \in Nat /\ e.r \in Nat
    BY <1>1, FrameTypes, BoundsAssumption DEF TypeOK, Epochs, Reply
  <1>5. ASSUME NEW i \in 1..Len(up')
        PROVE  /\ up'[i].r <= IF up'[i].type = "READY" THEN pending_random' ELSE tx'
               /\ stage' \in {"basys", "run"} /\ up'[i].type = "COMMAND" => up'[i].r = r'
    <2>1. CASE i \in 1..Len(up) /\ up'[i] = up[i]
      BY <1>3, <1>4, <2>1 DEF OrderInv, Order, UpInOrder
    <2>2. CASE up'[i] = e
      BY <2>2
    <2> QED
      BY <1>2, <2>1, <2>2
  <1>6. ASSUME NEW i \in 1..Len(up'), NEW j \in 1..Len(up'), i < j,
               up'[i].type = "CONFIRM_ACK", up'[j].type = "COMMAND"
        PROVE  up'[i].r <= up'[j].r
    <2>1. i \in 1..Len(up) /\ up'[i] = up[i]
      BY <1>2, <1>4, <1>6
    <2>2. CASE j \in 1..Len(up) /\ up'[j] = up[j]
      BY <1>6, <2>1, <2>2 DEF OrderInv, Order, UpInOrder
    <2>3. CASE up'[j] = e
      BY <1>3, <1>4, <1>6, <2>1, <2>3
    <2> QED
      BY <1>2, <2>2, <2>3
  <1> QED
    BY <1>5, <1>6 DEF UpInOrder

(* A frame of the ZYBO is taken: what is left is in order, and behind it.  *)
LEMMA DownTake ==
    ASSUME OrderInv, down # <<>>, down' = Tail(down)
    PROVE  /\ Head(down) \in Msg /\ Head(down).r \in Nat /\ down' \in Seq(Msg)
           /\ Len(down') <= LineCap
           /\ Head(down).r # 0 /\ Head(down).r \in pending_random..r
           /\ IF Head(down).type = "KEY_UPDATE" THEN Head(down).r > tx
              ELSE stage = "update" => Head(down).r < r
           /\ Head(down).type \in {"KEY_CONFIRM", "FACE"} => Head(down).r <= tx
           /\ \A i \in 1..Len(down') :
                /\ down'[i].r \in Nat /\ down'[i].r # 0 /\ down'[i].r \in Head(down).r..r
                /\ IF down'[i].type = "KEY_UPDATE" THEN down'[i].r > tx
                   ELSE stage = "update" => down'[i].r < r
                /\ down'[i].type \in {"KEY_CONFIRM", "FACE"} => down'[i].r <= tx
                /\ Head(down).type # "KEY_UPDATE" /\ down'[i].type = "KEY_UPDATE"
                     => Head(down).r < down'[i].r
           /\ \A i, j \in 1..Len(down') : i < j =>
                /\ down'[i].r <= down'[j].r
                /\ down'[i].type # "KEY_UPDATE" /\ down'[j].type = "KEY_UPDATE"
                     => down'[i].r < down'[j].r
  <1>1. TypeOK /\ down \in Seq(Msg) /\ Len(down) <= LineCap
    BY DEF OrderInv, TypeOK
  <1>2. /\ Head(down) \in Msg /\ Head(down) = down[1] /\ 1 \in 1..Len(down) /\ Len(down) \in Nat
        /\ down' \in Seq(Msg) /\ Len(down') = Len(down) - 1
        /\ \A i \in 1..Len(down') : i + 1 \in 1..Len(down) /\ down'[i] = down[i + 1]
    BY <1>1, Taking
  <1>3. Len(down') <= LineCap
    BY <1>1, <1>2, BoundsAssumption
  <1>4. \A i \in 1..Len(down) :
          /\ down[i].r \in Nat /\ down[i].r # 0 /\ down[i].r \in pending_random..r
          /\ IF down[i].type = "KEY_UPDATE" THEN down[i].r > tx
             ELSE stage = "update" => down[i].r < r
          /\ down[i].type \in {"KEY_CONFIRM", "FACE"} => down[i].r <= tx
    BY <1>1, FrameTypes DEF OrderInv, Order, DownInOrder
  <1>5. \A i, j \in 1..Len(down) : i < j =>
          /\ down[i].r <= down[j].r
          /\ down[i].type # "KEY_UPDATE" /\ down[j].type = "KEY_UPDATE" => down[i].r < down[j].r
    BY DEF OrderInv, Order, DownInOrder
  <1>6. ASSUME NEW i \in 1..Len(down')
        PROVE  /\ down'[i].r \in Nat /\ down'[i].r # 0 /\ down'[i].r \in Head(down).r..r
               /\ IF down'[i].type = "KEY_UPDATE" THEN down'[i].r > tx
                  ELSE stage = "update" => down'[i].r < r
               /\ down'[i].type \in {"KEY_CONFIRM", "FACE"} => down'[i].r <= tx
               /\ Head(down).type # "KEY_UPDATE" /\ down'[i].type = "KEY_UPDATE"
                    => Head(down).r < down'[i].r
    <2>1. i + 1 \in 1..Len(down) /\ down'[i] = down[i + 1] /\ 1 < i + 1
      BY <1>2
    <2>2. Head(down).r <= down[i + 1].r /\ Head(down).r \in Nat
          /\ (Head(down).type # "KEY_UPDATE" /\ down[i + 1].type = "KEY_UPDATE"
                => Head(down).r < down[i + 1].r)
      BY <1>2, <1>4, <1>5, <2>1
    <2>3. /\ down[i + 1].r \in Nat /\ down[i + 1].r # 0 /\ down[i + 1].r \in pending_random..r
          /\ IF down[i + 1].type = "KEY_UPDATE" THEN down[i + 1].r > tx
             ELSE stage = "update" => down[i + 1].r < r
          /\ down[i + 1].type \in {"KEY_CONFIRM", "FACE"} => down[i + 1].r <= tx
      BY <1>4, <2>1
    <2>4. down[i + 1].r \in Head(down).r..r
      BY <2>2, <2>3, <1>1, FrameTypes
    <2> QED
      BY <2>1, <2>2, <2>3, <2>4
  <1>7. ASSUME NEW i \in 1..Len(down'), NEW j \in 1..Len(down'), i < j
        PROVE  /\ down'[i].r <= down'[j].r
               /\ down'[i].type # "KEY_UPDATE" /\ down'[j].type = "KEY_UPDATE"
                    => down'[i].r < down'[j].r
    <2>1. /\ i + 1 \in 1..Len(down) /\ down'[i] = down[i + 1]
          /\ j + 1 \in 1..Len(down) /\ down'[j] = down[j + 1] /\ i + 1 < j + 1
      BY <1>2, <1>7
    <2> QED
      BY <1>5, <2>1
  <1> QED
    BY <1>2, <1>3, <1>4, <1>6, <1>7

(* A frame of the ZYBO is taken and the client's fields stay.              *)
LEMMA DownTakeKept ==
    ASSUME OrderInv, down # <<>>, down' = Tail(down), UNCHANGED <<tx, stage, r>>,
           pending_random' = pending_random
    PROVE  DownInOrder'
  <1>1. r \in Nat /\ pending_random \in Nat /\ Head(down).r \in pending_random..r /\ Head(down).r \in Nat
    BY DownTake, FrameTypes DEF OrderInv
  <1>2. \A i \in 1..Len(down') : down'[i].r \in Head(down).r..r /\ down'[i].r \in Nat
    BY DownTake
  <1>3. \A i \in 1..Len(down') : down'[i].r \in pending_random..r
    BY <1>1, <1>2
  <1> QED
    BY <1>3, DownTake DEF DownInOrder

(* One is sent by the ZYBO. *)
LEMMA DownPut ==
    ASSUME OrderInv, NEW e \in Msg, down' = Append(down, e), e.r = r,
           UNCHANGED <<tx, stage, r, pending_random>>,
           IF e.type = "KEY_UPDATE" THEN stage = "update" /\ tx < r ELSE stage # "update",
           e.type \in {"KEY_CONFIRM", "FACE"} => tx = r
    PROVE  DownInOrder'
  <1>1. TypeOK /\ down \in Seq(Msg)
    BY DEF OrderInv, TypeOK
  <1>2. \A i \in 1..Len(down') :
          \/ i \in 1..Len(down) /\ down'[i] = down[i]
          \/ i = Len(down) + 1 /\ down'[i] = e
    BY <1>1, Putting
  <1>3. /\ r \in Nat /\ tx \in Nat /\ pending_random \in Nat /\ Len(down) \in Nat
        /\ r # 0 /\ pending_random <= r
    BY <1>1, FrameTypes DEF OrderInv, Order, InStep
  <1>4. \A i \in 1..Len(down) :
          /\ down[i].r # 0 /\ down[i].r \in pending_random..r
          /\ IF down[i].type = "KEY_UPDATE" THEN down[i].r > tx
             ELSE stage = "update" => down[i].r < r
          /\ down[i].type \in {"KEY_CONFIRM", "FACE"} => down[i].r <= tx
    BY DEF OrderInv, Order, DownInOrder
  <1>5. ASSUME NEW i \in 1..Len(down')
        PROVE  /\ down'[i].r # 0 /\ down'[i].r \in pending_random'..r'
               /\ IF down'[i].type = "KEY_UPDATE" THEN down'[i].r > tx'
                  ELSE stage' = "update" => down'[i].r < r'
               /\ down'[i].type \in {"KEY_CONFIRM", "FACE"} => down'[i].r <= tx'
    <2>1. CASE i \in 1..Len(down) /\ down'[i] = down[i]
      BY <1>4, <2>1
    <2>2. CASE down'[i] = e
      BY <1>3, <2>2
    <2> QED
      BY <1>2, <2>1, <2>2
  <1>6. ASSUME NEW i \in 1..Len(down'), NEW j \in 1..Len(down'), i < j
        PROVE  /\ down'[i].r <= down'[j].r
               /\ down'[i].type # "KEY_UPDATE" /\ down'[j].type = "KEY_UPDATE"
                    => down'[i].r < down'[j].r
    <2>1. i \in 1..Len(down) /\ down'[i] = down[i]
      BY <1>2, <1>3, <1>6
    <2>2. CASE j \in 1..Len(down) /\ down'[j] = down[j]
      BY <1>6, <2>1, <2>2 DEF OrderInv, Order, DownInOrder
    <2>3. CASE down'[j] = e
      BY <1>3, <1>4, <2>1, <2>3
    <2> QED
      BY <1>2, <2>2, <2>3
  <1> QED
    BY <1>5, <1>6 DEF DownInOrder

-----------------------------------------------------------------------------
(* The threads of the PC.                                                  *)

(* A command is sealed with the key of the moment and written. *)
LEMMA SendStep ==
    ASSUME OrderInv, TypeOK', NEW cmd \in Command, SendSecurePayload(cmd),
           UNCHANGED <<client, tx, down, stage, r, reused, false_alarm>>
    PROVE  OrderInv'
  <1> DEFINE e == [type |-> "COMMAND", r |-> tx, cmd |-> cmd]
  <1>1. up' = Append(up, e) /\ used' = used \union {tx}
    BY DEF SendSecurePayload
  <1>2. e \in Reply /\ e.type = "COMMAND" /\ e.r = tx
    BY DEF OrderInv, TypeOK, Reply
  <1> HIDE DEF e
  <1>3. UNCHANGED <<session_ready, pending_random, pending_key_active, current_random>>
    BY DEF client
  <1>4. InStep' /\ DownInOrder'
    BY <1>3 DEF OrderInv, Order, InStep, DownInOrder
  <1>5. stage \in {"basys", "run"} => tx = r
    BY DEF OrderInv, Order, InStep
  <1>6. /\ tx <= tx' /\ pending_random <= pending_random'
        /\ used' \subseteq Nat /\ \A k \in used' : k <= tx'
    <2>1. tx \in Nat /\ pending_random \in Nat
      BY FrameTypes DEF OrderInv
    <2>2. used \subseteq Nat /\ \A k \in used : k <= tx
      BY DEF OrderInv, Order
    <2> QED
      BY <1>1, <1>3, <2>1, <2>2
  <1>7. UpInOrder'
    BY <1>1, <1>2, <1>3, <1>5, <1>6, UpPut
  <1> QED
    BY <1>4, <1>6, <1>7 DEF OrderInv, Order

LEMMA SendTypes ==
    ASSUME TypeOK, NEW cmd \in Command, SendSecurePayload(cmd)
    PROVE  up' \in Seq(Reply)
  <1>1. [type |-> "COMMAND", r |-> tx, cmd |-> cmd] \in Reply
    BY DEF TypeOK, Reply
  <1> QED
    BY <1>1, Putting DEF TypeOK, SendSecurePayload

LEMMA QueuedTypes ==
    ASSUME TypeOK, NEW cmd \in Command, Queued(cmd)
    PROVE  queued_commands' \in Seq(Command) /\ Len(queued_commands') <= QueueCap
  <1>1. queued_commands \in Seq(Command) /\ Len(queued_commands) <= QueueCap
    BY DEF TypeOK
  <1>2. CASE Len(queued_commands) = QueueCap
    <2>1. queued_commands # <<>>
      BY <1>2, BoundsAssumption
    <2>2. Tail(queued_commands) \in Seq(Command) /\ Len(Tail(queued_commands)) = QueueCap - 1
      BY <1>1, <1>2, <2>1, Taking
    <2> QED
      BY <1>2, <2>2, Putting, BoundsAssumption DEF Queued
  <1>3. CASE Len(queued_commands) # QueueCap
    BY <1>1, <1>3, Putting, BoundsAssumption DEF Queued
  <1> QED
    BY <1>2, <1>3

LEMMA ButtonStep ==
    ASSUME OrderInv, CmdDoor \/ CmdRackOpen \/ CmdRackClose \/ CmdSetTempThreshold
    PROVE  OrderInv'
  <1>1. PICK cmd \in Command : Button(cmd)
    <2>1. \A d \in Doors, m \in Masks : Cmd(d, m) \in Command
      BY DEF Cmd, Command
    <2>2. /\ {} \in Masks /\ Racks \in Masks /\ \A n \in Racks : {n} \in Masks
          /\ Thresholds \subseteq Masks /\ {"IDLE", "OPEN", "CLOSE", "TEMP"} \subseteq Doors
      BY BoundsAssumption DEF Masks, Doors
    <2> QED
      BY <2>1, <2>2 DEF CmdDoor, CmdRackOpen, CmdRackClose, CmdSetTempThreshold
  <1>2. TypeOK'
    BY <1>1 DEF Button, OrderInv, TypeOK, client, zybo
  <1> QED
    BY <1>1, <1>2, OrderKept DEF Button, client, zybo

LEMMA UiPollStep ==
    ASSUME OrderInv, UiStep \/ PollStep
    PROVE  OrderInv'
  <1>1. TypeOK /\ ui.cmd \in Command /\ PollCmd \in Command
    BY FrameTypes DEF OrderInv, TypeOK
  <1>2. CASE ui.step = "test" /\ UiStep
    <2>1. TypeOK'
      BY <1>1, <1>2 DEF UiStep, AfterTest, TypeOK, client, zybo
    <2> QED
      BY <1>2, <2>1, OrderKept DEF UiStep, client, zybo
  <1>3. CASE ui.step = "append" /\ UiStep
    <2>1. Queued(ui.cmd) /\ ui' = Idle
      BY <1>3 DEF UiStep
    <2>2. ui' \in [step : {"idle", "test", "append", "send"}, cmd : Command]
      BY <1>1, <2>1 DEF Idle
    <2>3. TypeOK'
      BY <1>1, <1>3, <2>1, <2>2, QueuedTypes DEF UiStep, TypeOK, client, zybo
    <2> QED
      BY <1>3, <2>3, OrderKept DEF UiStep, client, zybo
  <1>4. CASE ui.step = "send" /\ UiStep
    <2>1. SendSecurePayload(ui.cmd) /\ ui' = Idle
      BY <1>4 DEF UiStep
    <2>2. ui' \in [step : {"idle", "test", "append", "send"}, cmd : Command]
      BY <1>1, <2>1 DEF Idle
    <2>3. TypeOK'
      BY <1>1, <1>4, <2>1, <2>2, SendTypes DEF UiStep, TypeOK, client, zybo
    <2> QED
      BY <1>1, <1>4, <2>1, <2>3, SendStep DEF UiStep, zybo
  <1>5. CASE poll = "idle" /\ PollStep
    <2>1. TypeOK'
      BY <1>1, <1>5 DEF PollStep, TypeOK, client, zybo
    <2> QED
      BY <1>5, <2>1, OrderKept DEF PollStep, client, zybo
  <1>6. CASE poll = "send" /\ PollStep
    <2>1. SendSecurePayload(PollCmd) /\ poll' = "idle"
      BY <1>6 DEF PollStep
    <2>2. TypeOK'
      BY <1>1, <1>6, <2>1, SendTypes DEF PollStep, TypeOK, client, zybo
    <2> QED
      BY <1>1, <1>6, <2>1, <2>2, SendStep DEF PollStep, zybo
  <1> QED
    BY <1>2, <1>3, <1>4, <1>5, <1>6 DEF UiStep, PollStep

LEMMA FlushStep ==
    ASSUME OrderInv, Flush
    PROVE  OrderInv'
  <1>1. TypeOK /\ rx.cmd \in Command
    BY DEF OrderInv, TypeOK
  <1>2. CASE rx.step \in {"send", "face"}
    <2>1. SendSecurePayload(rx.cmd)
      BY <1>2 DEF Flush
    <2>2. rx' \in [step : {"idle", "drain", "send", "face"}, cmd : Command]
      BY <1>1, <1>2, FrameTypes DEF Flush, TypeOK, Idle
    <2>3. TypeOK'
      BY <1>1, <1>2, <2>1, <2>2, SendTypes DEF Flush, TypeOK, client, zybo
    <2> QED
      BY <1>1, <2>1, <2>3, SendStep DEF Flush, zybo
  <1>3. CASE rx.step = "drain" /\ queued_commands = <<>>
    <2>1. rx' \in [step : {"idle", "drain", "send", "face"}, cmd : Command]
      BY <1>1, <1>3, FrameTypes DEF Flush, Idle
    <2>2. TypeOK'
      BY <1>1, <1>3, <2>1 DEF Flush, TypeOK, client, zybo
    <2> QED
      BY <1>3, <2>2, OrderKept DEF Flush, client, zybo
  <1>4. CASE rx.step = "drain" /\ queued_commands # <<>>
    <2>1. queued_commands \in Seq(Command) /\ Len(queued_commands) <= QueueCap
      BY <1>1 DEF TypeOK
    <2>2. /\ rx' = [step |-> "send", cmd |-> Head(queued_commands)]
          /\ queued_commands' = Tail(queued_commands) /\ UNCHANGED <<up, used>>
      BY <1>4 DEF Flush
    <2>3. /\ rx' \in [step : {"idle", "drain", "send", "face"}, cmd : Command]
          /\ queued_commands' \in Seq(Command) /\ Len(queued_commands') <= QueueCap
      BY <1>4, <2>1, <2>2, Taking, BoundsAssumption
    <2>4. TypeOK'
      BY <1>1, <2>2, <2>3 DEF Flush, TypeOK, client, zybo
    <2> QED
      BY <2>2, <2>4, OrderKept DEF Flush, client, zybo
  <1> QED
    BY <1>2, <1>3, <1>4 DEF Flush

-----------------------------------------------------------------------------
(* The receive thread's answers.                                           *)

LEMMA AnswerTypes ==
    ASSUME TypeOK, NEW type \in {"READY", "COMMIT_ACK", "CONFIRM_ACK"}, NEW random \in Epochs,
           Answer(type, random)
    PROVE  /\ [type |-> type, r |-> random, cmd |-> PollCmd] \in Reply
           /\ up' = Append(up, [type |-> type, r |-> random, cmd |-> PollCmd])
           /\ up' \in Seq(Reply)
  <1>1. [type |-> type, r |-> random, cmd |-> PollCmd] \in Reply
    BY FrameTypes DEF Reply
  <1> QED
    BY <1>1, Putting DEF TypeOK, Answer

(* KEY_UPDATE is always of a key that is newer than the sender's. *)
LEMMA KeyUpdateStep ==
    ASSUME OrderInv, KeyUpdate
    PROVE  OrderInv'
  <1> DEFINE p == Head(down).r  e == [type |-> "READY", r |-> p, cmd |-> PollCmd]
  <1>1. /\ down # <<>> /\ Head(down).type = "KEY_UPDATE" /\ down' = Tail(down)
        /\ Answer("READY", p)
        /\ UNCHANGED <<current_random, queued_commands, tx, ui, poll, rx, zybo, hist>>
    BY DEF KeyUpdate, Take
  <1>2. TypeOK
    BY DEF OrderInv
  <1>3. /\ r \in Nat /\ tx \in Nat /\ pending_random \in Nat /\ p \in Nat /\ p \in Epochs
        /\ p # 0 /\ pending_random <= p /\ p <= r /\ p > tx
    BY <1>1, <1>2, DownTake, FrameTypes DEF Msg
  <1>4. session_ready' = FALSE /\ pending_random' = p /\ pending_key_active' = FALSE
    <2>1. ~(session_ready /\ p = current_random)
      BY <1>3 DEF OrderInv, Order, InStep
    <2> QED
      BY <2>1 DEF KeyUpdate
  <1>5. e \in Reply /\ e.type = "READY" /\ e.r = p /\ up' = Append(up, e) /\ up' \in Seq(Reply)
    BY <1>1, <1>2, <1>3, AnswerTypes
  <1>6. down' \in Seq(Msg) /\ Len(down') <= LineCap
    BY <1>1, DownTake
  <1> HIDE DEF p, e
  <1>7. TypeOK'
    BY <1>1, <1>2, <1>3, <1>4, <1>5, <1>6 DEF TypeOK, zybo
  <1>8. InStep'
    BY <1>1, <1>3, <1>4 DEF OrderInv, Order, InStep, zybo
  <1>9. DownInOrder'
    BY <1>1, <1>4, DownTake DEF DownInOrder, p, zybo
  <1>10. UpInOrder'
    BY <1>1, <1>3, <1>4, <1>5, <1>7, UpPut DEF zybo
  <1> QED
    BY <1>1, <1>7, <1>8, <1>9, <1>10 DEF OrderInv, Order, zybo, hist

(* The first KEY_COMMIT of a key makes the codec, before any frame of it. *)
LEMMA KeyCommitStep ==
    ASSUME OrderInv, KeyCommit
    PROVE  OrderInv'
  <1> DEFINE p == pending_random  e == [type |-> "COMMIT_ACK", r |-> p, cmd |-> PollCmd]
  <1>1. /\ down # <<>> /\ Head(down).type = "KEY_COMMIT" /\ down' = Tail(down)
        /\ UNCHANGED <<session_ready, pending_random, current_random, queued_commands, ui, poll, rx,
                       stage, r, last_rack_cmd, door, given, faces, used, false_alarm>>
    BY DEF KeyCommit, Take, zybo
  <1>2. TypeOK /\ tx \in Epochs /\ p \in Epochs
    BY DEF OrderInv, TypeOK
  <1>3. r \in Nat /\ tx \in Nat /\ p \in Nat /\ tx <= p /\ p <= r
    BY <1>2, FrameTypes DEF OrderInv, Order, InStep
  <1>4. down' \in Seq(Msg) /\ Len(down') <= LineCap /\ Head(down).r # 0
    BY <1>1, DownTake
  <1>5. CASE p # Head(down).r
    <2>1. UNCHANGED <<up, tx, pending_key_active, reused>>
      BY <1>5 DEF KeyCommit
    <2>2. TypeOK'
      BY <1>1, <1>2, <1>4, <2>1 DEF TypeOK
    <2>3. InStep' /\ UpInOrder'
      BY <1>1, <2>1 DEF OrderInv, Order, InStep, UpInOrder
    <2>4. DownInOrder'
      BY <1>1, <2>1, DownTakeKept
    <2> QED
      BY <1>1, <2>1, <2>2, <2>3, <2>4 DEF OrderInv, Order
  <1>6. CASE p = Head(down).r
    <2>1. Answer("COMMIT_ACK", p) /\ pending_key_active' = TRUE
      BY <1>6 DEF KeyCommit
    <2>2. e \in Reply /\ e.type = "COMMIT_ACK" /\ e.r = p /\ up' = Append(up, e) /\ up' \in Seq(Reply)
      BY <1>2, <2>1, AnswerTypes
    <2>3. tx' = p /\ ~reused'
      <3>1. CASE pending_key_active
        BY <1>6, <3>1 DEF KeyCommit, OrderInv, Order, InStep
      <3>2. CASE ~pending_key_active
        <4>1. tx < p
          BY <1>3, <1>4, <1>6, <3>2 DEF OrderInv, Order, InStep
        <4>2. p \notin used
          BY <1>3, <4>1 DEF OrderInv, Order
        <4> QED
          BY <1>6, <3>2, <4>2 DEF KeyCommit, OrderInv, Order
      <3> QED
        BY <3>1, <3>2
    <2> HIDE DEF e
    <2>4. TypeOK'
      BY <1>1, <1>2, <1>4, <2>1, <2>2, <2>3 DEF TypeOK
    <2>5. InStep'
      <3>1. p # 0 /\ (stage = "update" => p < r) /\ (stage # "update" => p = r)
        BY <1>1, <1>4, <1>6, DownTake DEF OrderInv, Order, InStep
      <3>2. session_ready => current_random = p
        BY DEF OrderInv, Order, InStep
      <3> QED
        BY <1>1, <1>3, <2>1, <2>3, <3>1, <3>2 DEF InStep
    <2>6. DownInOrder'
      <3>1. \A i \in 1..Len(down') :
              /\ down'[i].r \in Nat /\ down'[i].r # 0 /\ down'[i].r \in p..r
              /\ IF down'[i].type = "KEY_UPDATE" THEN down'[i].r > p
                 ELSE stage = "update" => down'[i].r < r
              /\ down'[i].type \in {"KEY_CONFIRM", "FACE"} => down'[i].r <= tx
        BY <1>1, <1>6, DownTake
      <3>2. \A i \in 1..Len(down') : down'[i].type \in {"KEY_CONFIRM", "FACE"} => down'[i].r <= p
        BY <1>3, <3>1
      <3> QED
        BY <1>1, <2>3, <3>1, <3>2, DownTake DEF DownInOrder
    <2>7. UpInOrder'
      BY <1>1, <1>3, <2>2, <2>3, <2>4, UpPut
    <2>8. \A k \in used' : k <= tx'
      <3>1. \A k \in used : k <= tx
        BY DEF OrderInv, Order
      <3>2. used \subseteq Nat
        BY DEF OrderInv, Order
      <3> QED
        BY <1>1, <1>3, <2>3, <3>1, <3>2
    <2> QED
      BY <1>1, <2>3, <2>4, <2>5, <2>6, <2>7, <2>8 DEF OrderInv, Order
  <1> QED
    BY <1>5, <1>6

(* KEY_CONFIRM comes only when the codec is made. *)
LEMMA KeyConfirmStep ==
    ASSUME OrderInv, KeyConfirm
    PROVE  OrderInv'
  <1> DEFINE p == pending_random  e == [type |-> "CONFIRM_ACK", r |-> p, cmd |-> PollCmd]
  <1>1. /\ down # <<>> /\ Head(down).type = "KEY_CONFIRM" /\ down' = Tail(down)
        /\ UNCHANGED <<pending_random, pending_key_active, queued_commands, tx, ui, poll, stage, r,
                       last_rack_cmd, door, given, faces, used, reused, false_alarm>>
    BY DEF KeyConfirm, Take, zybo, hist
  <1>2. TypeOK /\ p \in Epochs /\ tx \in Nat /\ p \in Nat /\ r \in Nat
    BY FrameTypes DEF OrderInv, TypeOK
  <1>3. /\ down' \in Seq(Msg) /\ Len(down') <= LineCap /\ Head(down).r \in Nat
        /\ Head(down).r # 0 /\ Head(down).r \in p..r /\ Head(down).r <= tx
    BY <1>1, DownTake
  <1>4. tx = p /\ Head(down).r = p /\ tx # 0 /\ pending_key_active
    BY <1>2, <1>3 DEF OrderInv, Order, InStep
  <1>5. /\ Answer("CONFIRM_ACK", p) /\ session_ready' = TRUE /\ current_random' = p
        /\ rx' = rx \/ rx' = [rx EXCEPT !.step = "drain"]
    BY <1>4 DEF KeyConfirm
  <1>6. e \in Reply /\ e.type = "CONFIRM_ACK" /\ e.r = p /\ up' = Append(up, e) /\ up' \in Seq(Reply)
    BY <1>2, <1>5, AnswerTypes
  <1> HIDE DEF e
  <1>7. rx' \in [step : {"idle", "drain", "send", "face"}, cmd : Command]
    BY <1>2, <1>5 DEF TypeOK
  <1>8. TypeOK'
    BY <1>1, <1>2, <1>3, <1>5, <1>6, <1>7 DEF TypeOK
  <1>9. InStep'
    BY <1>1, <1>2, <1>4, <1>5 DEF OrderInv, Order, InStep
  <1>10. DownInOrder'
    BY <1>1, DownTakeKept
  <1>11. UpInOrder'
    BY <1>1, <1>2, <1>4, <1>6, <1>8, UpPut
  <1> QED
    BY <1>1, <1>8, <1>9, <1>10, <1>11 DEF OrderInv, Order

LEMMA FaceStep ==
    ASSUME OrderInv, Face
    PROVE  OrderInv'
  <1>1. /\ down # <<>> /\ down' = Tail(down)
        /\ UNCHANGED <<client, queued_commands, tx, ui, poll, up, stage, r, last_rack_cmd, door, given,
                       faces, used, reused, false_alarm>>
    BY DEF Face, Take, zybo, hist
  <1>2. FaceCommands \subseteq Command
    BY BoundsAssumption DEF FaceCommands, MatchRack, Cmd, Command, Doors, Masks
  <1>3. TypeOK'
    <2>1. rx' \in [step : {"idle", "drain", "send", "face"}, cmd : Command]
      BY <1>2 DEF Face, OrderInv, TypeOK
    <2> QED
      BY <1>1, <2>1, DownTake DEF OrderInv, TypeOK, client
  <1>4. DownInOrder'
    BY <1>1, DownTakeKept DEF client
  <1>5. InStep' /\ UpInOrder'
    BY <1>1 DEF OrderInv, Order, InStep, UpInOrder, client
  <1> QED
    BY <1>1, <1>3, <1>4, <1>5 DEF OrderInv, Order

-----------------------------------------------------------------------------
(* The ZYBO.                                                               *)

LEMMA TransmitStep ==
    ASSUME OrderInv, Transmit \/ SendFace
    PROVE  OrderInv'
  <1>1. PICK type \in {"KEY_UPDATE", "KEY_COMMIT", "KEY_CONFIRM", "FACE"} :
          /\ down' = Append(down, [type |-> type, r |-> r]) /\ Len(down) < LineCap
          /\ type = "KEY_UPDATE" <=> stage = "update"
          /\ type \in {"KEY_CONFIRM", "FACE"} => stage \in {"confirm", "run"}
    BY DEF Transmit, SendFace, MessageOf
  <1>2. UNCHANGED <<client, queued_commands, tx, ui, poll, rx, up, zybo, used, reused, false_alarm>>
    BY DEF Transmit, SendFace, hist
  <1> DEFINE e == [type |-> type, r |-> r]
  <1>3. TypeOK /\ e \in Msg /\ e.type = type /\ e.r = r
    BY DEF OrderInv, TypeOK, Msg
  <1>4. TypeOK'
    <2>1. down' \in Seq(Msg) /\ Len(down') = Len(down) + 1 /\ Len(down) \in Nat
      BY <1>1, <1>3, Putting DEF TypeOK
    <2>2. Len(down') <= LineCap
      BY <1>1, <2>1, BoundsAssumption
    <2> QED
      BY <1>2, <1>3, <2>1, <2>2 DEF TypeOK, client, zybo
  <1> HIDE DEF e
  <1>5. DownInOrder'
    BY <1>1, <1>2, <1>3, DownPut DEF OrderInv, Order, InStep, client, zybo, e
  <1>6. InStep' /\ UpInOrder'
    BY <1>2 DEF OrderInv, Order, InStep, UpInOrder, client, zybo
  <1> QED
    BY <1>2, <1>4, <1>5, <1>6 DEF OrderInv, Order, zybo

(* A new epoch begins where every frame is of an earlier one. *)
LEMMA EpochStep ==
    ASSUME OrderInv, Resume \/ NewEpoch
    PROVE  OrderInv'
  <1>1. /\ UNCHANGED <<client, queued_commands, tx, ui, poll, rx, down, up, last_rack_cmd, door, used,
                       reused, false_alarm>>
        /\ \/ stage = "basys" /\ stage' = "run" /\ r' = r
           \/ stage = "run" /\ r < MaxEpochs /\ stage' = "update" /\ r' = r + 1
    BY DEF Resume, NewEpoch, hist
  <1>2. /\ TypeOK /\ r \in Nat /\ tx \in Nat /\ pending_random \in Nat /\ current_random \in Nat
        /\ \A i \in 1..Len(down) : down[i].r \in Nat
    BY FrameTypes DEF OrderInv
  <1>3. TypeOK'
    BY <1>1, <1>2, BoundsAssumption DEF TypeOK, client, Epochs
  <1>4. InStep' /\ r' # 0
    BY <1>1, <1>2 DEF OrderInv, Order, InStep, client
  <1>5. DownInOrder'
    BY <1>1, <1>2 DEF OrderInv, Order, DownInOrder, client
  <1>6. UpInOrder'
    BY <1>1, <1>2 DEF OrderInv, Order, UpInOrder, client
  <1> QED
    BY <1>1, <1>3, <1>4, <1>5, <1>6 DEF OrderInv, Order

(* A frame of the PC leaves the UART; what is behind it stays in order. *)
LEMMA UpTake ==
    ASSUME OrderInv, up # <<>>, up' = Tail(up)
    PROVE  /\ Head(up) \in Reply /\ Head(up).r \in Nat /\ up' \in Seq(Reply)
           /\ Head(up).r <= IF Head(up).type = "READY" THEN pending_random ELSE tx
           /\ stage \in {"basys", "run"} /\ Head(up).type = "COMMAND" => Head(up).r = r
           /\ \A i \in 1..Len(up') :
                /\ up'[i].r \in Nat
                /\ up'[i].r <= IF up'[i].type = "READY" THEN pending_random ELSE tx
                /\ stage \in {"basys", "run"} /\ up'[i].type = "COMMAND" => up'[i].r = r
                /\ Head(up).type = "CONFIRM_ACK" /\ up'[i].type = "COMMAND" => Head(up).r <= up'[i].r
           /\ \A i, j \in 1..Len(up') :
                i < j /\ up'[i].type = "CONFIRM_ACK" /\ up'[j].type = "COMMAND" => up'[i].r <= up'[j].r
  <1>1. TypeOK /\ up \in Seq(Reply)
    BY DEF OrderInv, TypeOK
  <1>2. /\ Head(up) \in Reply /\ Head(up) = up[1] /\ 1 \in 1..Len(up) /\ Len(up) \in Nat
        /\ up' \in Seq(Reply) /\ Len(up') = Len(up) - 1
        /\ \A i \in 1..Len(up') : i + 1 \in 1..Len(up) /\ up'[i] = up[i + 1]
    BY <1>1, Taking
  <1>3. \A i \in 1..Len(up) :
          /\ up[i].r \in Nat
          /\ up[i].r <= IF up[i].type = "READY" THEN pending_random ELSE tx
          /\ stage \in {"basys", "run"} /\ up[i].type = "COMMAND" => up[i].r = r
    BY <1>1, FrameTypes DEF OrderInv, Order, UpInOrder
  <1>4. \A i, j \in 1..Len(up) :
          i < j /\ up[i].type = "CONFIRM_ACK" /\ up[j].type = "COMMAND" => up[i].r <= up[j].r
    BY DEF OrderInv, Order, UpInOrder
  <1>5. ASSUME NEW i \in 1..Len(up')
        PROVE  /\ up'[i].r \in Nat
               /\ up'[i].r <= IF up'[i].type = "READY" THEN pending_random ELSE tx
               /\ stage \in {"basys", "run"} /\ up'[i].type = "COMMAND" => up'[i].r = r
               /\ Head(up).type = "CONFIRM_ACK" /\ up'[i].type = "COMMAND" => Head(up).r <= up'[i].r
    <2>1. i + 1 \in 1..Len(up) /\ up'[i] = up[i + 1] /\ 1 < i + 1
      BY <1>2
    <2>2. Head(up).type = "CONFIRM_ACK" /\ up'[i].type = "COMMAND" => Head(up).r <= up'[i].r
      BY <1>2, <1>4, <2>1
    <2> QED
      BY <1>3, <2>1, <2>2
  <1>6. ASSUME NEW i \in 1..Len(up'), NEW j \in 1..Len(up'), i < j,
               up'[i].type = "CONFIRM_ACK", up'[j].type = "COMMAND"
        PROVE  up'[i].r <= up'[j].r
    <2>1. /\ i + 1 \in 1..Len(up) /\ up'[i] = up[i + 1]
          /\ j + 1 \in 1..Len(up) /\ up'[j] = up[j + 1] /\ i + 1 < j + 1
      BY <1>2, <1>6
    <2> QED
      BY <1>4, <1>6, <2>1
  <1> QED
    BY <1>2, <1>3, <1>5, <1>6

(* The stage moves only on the answer of its epoch, and the one that lets  *)
(* commands in has no older command behind it.                             *)
LEMMA ReceiveZyboStep ==
    ASSUME OrderInv, ReceiveZybo
    PROVE  OrderInv'
  <1>1. /\ up # <<>> /\ up' = Tail(up)
        /\ stage' = IF Answered /\ Head(up).r = r THEN NextStage ELSE stage
        /\ UNCHANGED <<client, queued_commands, tx, ui, poll, rx, down, r, given, faces, used, reused>>
    BY DEF ReceiveZybo
  <1>2. TypeOK /\ r \in Nat /\ tx \in Nat /\ pending_random \in Nat
    BY FrameTypes DEF OrderInv
  <1>3. last_rack_cmd' \in Masks /\ door' \in {"IDLE", "OPEN", "CLOSE"} /\ ~false_alarm'
    <2>1. CASE Head(up).type # "COMMAND" \/ stage # "run"
      BY <1>2, <2>1 DEF ReceiveZybo, Decode, OrderInv, Order, TypeOK
    <2>2. CASE Head(up).type = "COMMAND" /\ stage = "run"
      <3>1. Head(up).r = r /\ Head(up).cmd \in Command
        BY <1>1, <2>2, UpTake DEF Reply
      <3> QED
        BY <1>2, <2>2, <3>1 DEF ReceiveZybo, Decode, OrderInv, Order, TypeOK, Command
    <2> QED
      BY <2>1, <2>2
  <1>4. \/ stage' = stage
        \/ stage = "update" /\ Head(up).type = "READY" /\ Head(up).r = r /\ stage' = "commit"
        \/ stage = "commit" /\ Head(up).type = "COMMIT_ACK" /\ Head(up).r = r /\ stage' = "confirm"
        \/ stage = "confirm" /\ Head(up).type = "CONFIRM_ACK" /\ Head(up).r = r /\ stage' = "basys"
    BY <1>1 DEF Answered, NextStage
  <1>5. TypeOK'
    BY <1>1, <1>2, <1>3, <1>4, UpTake DEF TypeOK, client
  <1>6. InStep'
    BY <1>1, <1>2, <1>4, UpTake DEF OrderInv, Order, InStep, client
  <1>7. DownInOrder'
    BY <1>1, <1>4 DEF OrderInv, Order, DownInOrder, client
  <1>8. UpInOrder'
    <2>1. \A i \in 1..Len(up') :
            stage' \in {"basys", "run"} /\ up'[i].type = "COMMAND" => up'[i].r = r
      <3>1. CASE stage' = stage \/ stage' \in {"commit", "confirm"}
        BY <1>1, <3>1, UpTake
      <3>2. CASE stage = "confirm" /\ Head(up).type = "CONFIRM_ACK" /\ Head(up).r = r
        <4>1. tx = r
          BY <3>2 DEF OrderInv, Order, InStep
        <4> QED
          BY <1>1, <1>2, <3>2, <4>1, UpTake
      <3> QED
        BY <1>4, <3>1, <3>2
    <2> QED
      BY <1>1, <2>1, UpTake DEF UpInOrder, client
  <1> QED
    BY <1>1, <1>3, <1>5, <1>6, <1>7, <1>8 DEF OrderInv, Order

LEMMA LoseStep ==
    ASSUME OrderInv, Lose
    PROVE  OrderInv'
  <1>1. UNCHANGED <<client, queued_commands, tx, ui, poll, rx, stage, r, last_rack_cmd, door, used, reused,
                    false_alarm>>
    BY DEF Lose, zybo, hist
  <1>2. InStep'
    BY <1>1 DEF OrderInv, Order, InStep, client
  <1>3. CASE up # <<>> /\ up' = Tail(up) /\ UNCHANGED down
    <2>1. TypeOK'
      BY <1>1, <1>3, UpTake DEF OrderInv, TypeOK, client
    <2>2. DownInOrder'
      BY <1>1, <1>3 DEF OrderInv, Order, DownInOrder, client
    <2>3. UpInOrder'
      BY <1>1, <1>3, UpTake DEF UpInOrder, client
    <2> QED
      BY <1>1, <1>2, <2>1, <2>2, <2>3 DEF OrderInv, Order
  <1>4. CASE down # <<>> /\ down' = Tail(down) /\ UNCHANGED up
    <2>1. TypeOK'
      BY <1>1, <1>4, DownTake DEF OrderInv, TypeOK, client
    <2>2. DownInOrder'
      BY <1>1, <1>4, DownTakeKept DEF client
    <2>3. UpInOrder'
      BY <1>1, <1>4 DEF OrderInv, Order, UpInOrder, client
    <2> QED
      BY <1>1, <1>2, <2>1, <2>2, <2>3 DEF OrderInv, Order
  <1> QED
    BY <1>3, <1>4 DEF Lose

-----------------------------------------------------------------------------
LEMMA OrderNext == OrderInv /\ [Next]_vars => OrderInv'
  <1> SUFFICES ASSUME OrderInv, [Next]_vars PROVE OrderInv'
    OBVIOUS
  <1>1. CASE UNCHANGED vars
    <2>1. TypeOK'
      BY <1>1 DEF OrderInv, TypeOK, vars, client, zybo, hist
    <2> QED
      BY <1>1, <2>1, OrderKept DEF vars, zybo, hist
  <1> QED
    BY <1>1, ButtonStep, UiPollStep, FlushStep, KeyUpdateStep, KeyCommitStep, KeyConfirmStep, FaceStep,
       TransmitStep, EpochStep, ReceiveZyboStep, LoseStep
    DEF Next, Receive

(* No honest frame is taken for an attack, no codec starts again under a   *)
(* key that has been used, and a session is sealed with its own key.       *)
THEOREM InStepAlways == Spec => []CodecsInStep
  <1>1. OrderInv => CodecsInStep
    BY DEF OrderInv, Order, InStep, CodecsInStep, ReadyMeansKey, NonceFresh, NoFalseSafeState
  <1> QED
    BY <1>1, OrderInit, OrderNext, PTL DEF Spec
=============================================================================
