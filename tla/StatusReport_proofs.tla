-------------------------- MODULE StatusReport_proofs --------------------------
(***************************************************************************)
(* For any number of readings and key changes, and queues of any capacity: *)
(* the status that was submitted last is in the transmit buffer, and the   *)
(* control room never goes back to an older reading.                       *)
(***************************************************************************)
EXTENDS StatusReport, SequenceTheorems, TLAPS

(* What a status is worth while a key change goes on: the response READY   *)
(* or COMMIT_ACK means that one goes on, and from the switch until the     *)
(* KEY_CONFIRM no status counts as submitted.                              *)
KeyChange ==
    /\ secure_spi_tx.type \in {"READY", "COMMIT_ACK"} => rekey_in_progress
    /\ bus.in.type \in {"READY", "COMMIT_ACK"} => rekey_in_progress
    /\ bus.in.type \in Responses => ~management_response_pending
    /\ stage \in {"commit", "switch", "pcconfirm"} => rekey_in_progress
    /\ stage = "confirm" /\ ~asked => rekey_in_progress
    /\ stage \in {"switch", "pcconfirm"} => last_submitted_status = None
    /\ stage = "confirm" /\ rekey_in_progress => last_submitted_status = None
    /\ ~session_established \/ switching => last_submitted_status = None
    /\ bus.out = "KEY_UPDATE" => stage = "update"
    /\ bus.out = "KEY_COMMIT" => stage = "commit"
    /\ bus.out = "KEY_CONFIRM" => stage = "confirm" /\ asked /\ rekey_in_progress

(* Of the frames to the PC one at most is of the key change, and the ZYBO  *)
(* waits for it.                                                           *)
PcRounds ==
    /\ \A i \in 1..Len(line) : /\ line[i].type = "KEY_UPDATE" => stage = "pcupdate"
                               /\ line[i].type = "KEY_CONFIRM" => stage = "pcconfirm"
    /\ \A i, j \in 1..Len(line) : line[i].type # "REPORT" /\ line[j].type # "REPORT" => i = j

(* Between key changes what was submitted last is in the encrypter or in   *)
(* the buffer, and no response waits.                                      *)
Held ==
    session_established /\ ~switching /\ ~rekey_in_progress /\ last_submitted_status # None /\ ~collided
    => /\ ~management_response_pending
       /\ IF sealing # None THEN Value(sealing) = last_submitted_status
          ELSE secure_spi_tx.type = "STATUS" /\ Value(secure_spi_tx.n) = last_submitted_status

(* A status is one of a reading. *)
IsStatus(buffer) == buffer.type = "STATUS"
StatusIsReading == (IsStatus(secure_spi_tx) => secure_spi_tx.n # None) /\ (IsStatus(bus.in) => bus.in.n # None)

ReportInv == TypeOK /\ StatusIsReading /\ KeyChange /\ PcRounds /\ Held

(* What comes next to each place of the pipeline: its oldest reading, or   *)
(* what comes next to the place before it.                                 *)
ToBuffer == IF sealing # None THEN sealing ELSE status_snapshot
ToBus    == IF IsStatus(secure_spi_tx) THEN secure_spi_tx.n ELSE ToBuffer
ToHold   == IF IsStatus(bus.in) THEN bus.in.n ELSE ToBus
ToFifo   == IF hold # <<>> THEN hold[1] ELSE ToHold
ToEnc    == IF fifo # <<>> THEN fifo[1] ELSE ToFifo
ToLine   == IF enc # <<>> THEN enc[1] ELSE ToEnc

(* Readings are in order all the way: what is at a place is not newer than *)
(* what comes next to it.                                                  *)
BoardInOrder ==
    /\ status_snapshot <= reading
    /\ sealing <= status_snapshot
    /\ IsStatus(secure_spi_tx) => secure_spi_tx.n <= ToBuffer
    /\ IsStatus(bus.in) => bus.in.n <= ToBus
    /\ hold # <<>> => hold[1] <= ToHold

FifoInOrder ==
    /\ \A i \in 1..Len(fifo) : fifo[i] <= ToFifo
    /\ \A i, j \in 1..Len(fifo) : i < j => fifo[i] <= fifo[j]

EncInOrder == enc # <<>> => enc[1] <= ToEnc

LineInOrder ==
    /\ \A i \in 1..Len(line) : line[i].type = "REPORT" =>
         line[i].n # None /\ shown <= line[i].n /\ line[i].n <= ToLine
    /\ \A i, j \in 1..Len(line) :
         i < j /\ line[i].type = "REPORT" /\ line[j].type = "REPORT" => line[i].n <= line[j].n
    /\ shown <= ToLine

PipelineInOrder == BoardInOrder /\ FifoInOrder /\ EncInOrder /\ LineInOrder

-----------------------------------------------------------------------------
(* Sequences, values and types.                                            *)

LEMMA Taking ==
    ASSUME NEW S, NEW q \in Seq(S), q # <<>>
    PROVE  /\ Head(q) \in S /\ Head(q) = q[1] /\ 1 \in 1..Len(q) /\ Len(q) \in Nat
           /\ Tail(q) \in Seq(S) /\ Len(Tail(q)) = Len(q) - 1
           /\ \A i \in 1..Len(Tail(q)) : i + 1 \in 1..Len(q) /\ Tail(q)[i] = q[i + 1]
  OBVIOUS

LEMMA One ==
    ASSUME NEW S, NEW q \in Seq(S), Len(q) <= 1, q # <<>>
    PROVE  Len(q) = 1 /\ q[1] \in S /\ Head(q) = q[1] /\ Tail(q) = <<>>
  <1>1. Len(q) \in Nat /\ Len(q) # 0
    OBVIOUS
  <1>2. Len(q) = 1
    BY <1>1
  <1>3. Tail(q) \in Seq(S) /\ Len(Tail(q)) = 0
    BY <1>2
  <1>4. q[1] \in S /\ Head(q) = q[1]
    BY <1>2
  <1>5. Tail(q) = <<>>
    BY <1>3
  <1> QED
    BY <1>2, <1>4, <1>5

LEMMA Joining ==
    ASSUME NEW S, NEW q \in Seq(S), NEW p \in Seq(S), Len(p) = 1
    PROVE  /\ q \o p \in Seq(S) /\ Len(q \o p) = Len(q) + 1 /\ Len(q) \in Nat
           /\ \A i \in 1..Len(q) : (q \o p)[i] = q[i]
           /\ \A i \in 1..Len(q \o p) :
                \/ i \in 1..Len(q) /\ (q \o p)[i] = q[i]
                \/ i = Len(q) + 1 /\ (q \o p)[i] = p[1]
  <1>1. q \o p \in Seq(S) /\ Len(q \o p) = Len(q) + 1 /\ Len(q) \in Nat
    <2>1. q \o p \in Seq(S) /\ Len(q \o p) = Len(q) + Len(p)
      BY ConcatProperties
    <2>2. Len(q) \in Nat
      BY LenProperties
    <2> QED
      BY <2>1, <2>2
  <1>2. \A i \in 1..Len(q) + Len(p) : (q \o p)[i] = IF i <= Len(q) THEN q[i] ELSE p[i - Len(q)]
    BY ConcatProperties
  <1>3. Len(q) + 1 - Len(q) = 1
    BY <1>1
  <1> QED
    BY <1>1, <1>2, <1>3

LEMMA Putting ==
    ASSUME NEW S, NEW q \in Seq(S), NEW e \in S
    PROVE  /\ Append(q, e) \in Seq(S) /\ Len(Append(q, e)) = Len(q) + 1 /\ Len(q) \in Nat
           /\ \A i \in 1..Len(q) : Append(q, e)[i] = q[i]
           /\ \A i \in 1..Len(Append(q, e)) :
                \/ i \in 1..Len(q) /\ Append(q, e)[i] = q[i]
                \/ i = Len(q) + 1 /\ Append(q, e)[i] = e
  OBVIOUS

LineFrames == [type : {"REPORT", "KEY_UPDATE", "KEY_CONFIRM"}, n : Readings \cup {None}]

LEMMA Types ==
    ASSUME TypeOK
    PROVE  /\ reading \in Readings /\ status_snapshot \in Readings
           /\ sealing \in Readings \cup {None} /\ shown \in Readings \cup {None}
           /\ secure_spi_tx \in Buffers /\ bus.in \in Buffers
           /\ hold \in Seq(Readings) /\ Len(hold) <= 1
           /\ fifo \in Seq(Readings) /\ Len(fifo) <= FifoCap
           /\ enc \in Seq(Readings) /\ Len(enc) <= 1
           /\ line \in Seq(LineFrames) /\ Len(line) <= LineCap
  BY DEF TypeOK, LineFrames

LEMMA BooleanTypes ==
    ASSUME TypeOK
    PROVE  /\ status_pending \in BOOLEAN /\ management_response_pending \in BOOLEAN
           /\ rekey_in_progress \in BOOLEAN /\ session_established \in BOOLEAN
           /\ switching \in BOOLEAN /\ asked \in BOOLEAN /\ session_ready \in BOOLEAN
           /\ collided \in BOOLEAN
  BY DEF TypeOK

LEMMA ValueType == \A n \in Readings : Value(n) \in {0, 1}
  BY BoundsAssumption DEF Readings, Value

LEMMA BufferType ==
    ASSUME NEW type \in Responses \cup {"NONE", "STATUS"}, NEW n \in Readings \cup {None}
    PROVE  Buffer(type, n) \in Buffers /\ Buffer(type, n).type = type /\ Buffer(type, n).n = n
  BY DEF Buffer, Buffers

-----------------------------------------------------------------------------
(* What was submitted last.                                                *)

LEMMA ReportInit == Init => ReportInv
  <1> SUFFICES ASSUME Init PROVE ReportInv
    OBVIOUS
  <1>1. /\ 0 \in Readings /\ 1 \in 1..MaxEpochs
        /\ <<>> \in Seq(Readings) /\ Len(<<>>) <= 1 /\ Len(<<>>) <= FifoCap
    BY BoundsAssumption DEF Readings
  <1>2. Buffer("NONE", None) \in Buffers /\ NoTransfer.out = "NONE" /\ NoTransfer.in = Buffer("NONE", None)
        /\ NoTransfer \in [out : Management \cup {"NONE", "COMMAND"}, in : Buffers]
    BY DEF Buffer, Buffers, NoTransfer
  <1>3. Frame("KEY_UPDATE", None) \in LineFrames /\ Frame("KEY_UPDATE", None).type = "KEY_UPDATE"
    BY DEF Frame, LineFrames
  <1>4. /\ line \in Seq(LineFrames) /\ Len(line) = 1 /\ line[1].type = "KEY_UPDATE"
    BY <1>3 DEF Init
  <1>5. TypeOK
    <2>1. reading \in Readings /\ status_snapshot \in Readings /\ epochs \in 1..MaxEpochs
      BY <1>1 DEF Init
    <2>2. Len(line) <= LineCap
      BY <1>4, BoundsAssumption
    <2>3. {status_pending, management_response_pending, rekey_in_progress, session_established,
           switching, asked, session_ready, collided} \subseteq BOOLEAN
      BY DEF Init
    <2>4. /\ hold \in Seq(Readings) /\ Len(hold) <= 1
          /\ fifo \in Seq(Readings) /\ Len(fifo) <= FifoCap
          /\ enc \in Seq(Readings) /\ Len(enc) <= 1
      BY <1>1 DEF Init
    <2> QED
      BY <1>2, <1>4, <2>1, <2>2, <2>3, <2>4 DEF Init, TypeOK, LineFrames, Stages
  <1>6. KeyChange /\ StatusIsReading
    BY <1>2 DEF Init, KeyChange, StatusIsReading, IsStatus, Buffer, Responses
  <1>7. PcRounds
    BY <1>4 DEF Init, PcRounds
  <1> QED
    BY <1>5, <1>6, <1>7 DEF Init, ReportInv, Held

(* A step of the ZYBO and the line that leaves the Basys3 and the bus.     *)
LEMMA BasysKept ==
    ASSUME ReportInv, UNCHANGED <<basys, bus, stage, asked>>
    PROVE  KeyChange' /\ Held' /\ StatusIsReading'
  BY DEF ReportInv, KeyChange, Held, StatusIsReading, basys

LEMMA BasysSteps ==
    ASSUME ReportInv, Measure \/ TakeSnapshot \/ Submit \/ LoadStatus \/ KeyActive
    PROVE  ReportInv'
  <1>1. TypeOK
    BY DEF ReportInv
  <1>2. UNCHANGED <<bus, zybo, line, pc>>
    BY DEF Measure, TakeSnapshot, Submit, LoadStatus, KeyActive
  <1>3. PcRounds'
    BY <1>2 DEF ReportInv, PcRounds, zybo
  <1>4. CASE Measure
    <2>1. reading' \in Readings
      BY <1>1, <1>4, BoundsAssumption DEF Measure, TypeOK, Readings
    <2>2. TypeOK'
      BY <1>1, <1>4, <2>1 DEF Measure, TypeOK, basys, zybo, pc
    <2> QED
      BY <1>3, <1>4, <2>2, BasysKept DEF Measure, ReportInv, zybo
  <1>5. CASE TakeSnapshot
    <2>1. TypeOK'
      BY <1>1, <1>5 DEF TakeSnapshot, TypeOK, zybo, pc
    <2>2. KeyChange' /\ Held' /\ StatusIsReading'
      BY <1>5 DEF TakeSnapshot, ReportInv, KeyChange, Held, StatusIsReading, zybo
    <2> QED
      BY <1>3, <2>1, <2>2 DEF ReportInv
  <1>6. CASE Submit
    <2>1. status_snapshot \in Readings /\ Value(status_snapshot) \in {0, 1} /\ None \notin Readings
      BY <1>1, Types, ValueType, BoundsAssumption DEF Readings, None
    <2>2. TypeOK'
      BY <1>1, <1>6, <2>1 DEF Submit, TypeOK, zybo, pc
    <2>3. KeyChange' /\ StatusIsReading'
      BY <1>6 DEF Submit, ReportInv, KeyChange, StatusIsReading, zybo
    <2>4. Held'
      BY <1>6, <2>1 DEF Submit, Held
    <2> QED
      BY <1>3, <2>2, <2>3, <2>4 DEF ReportInv
  <1>7. CASE LoadStatus
    <2>1. sealing \in Readings /\ sealing' = None
      BY <1>1, <1>7, Types DEF LoadStatus
    <2>2. Buffer("STATUS", sealing) \in Buffers /\ Buffer("STATUS", sealing).type = "STATUS"
          /\ Buffer("STATUS", sealing).n = sealing
      BY <2>1, BufferType
    <2>3. TypeOK'
      BY <1>1, <1>7, <2>1, <2>2 DEF LoadStatus, TypeOK, zybo, pc
    <2>4. KeyChange' /\ StatusIsReading'
      BY <1>1, <1>7, <2>1, <2>2 DEF LoadStatus, ReportInv, KeyChange, StatusIsReading, zybo
    <2>5. Held'
      BY <1>7, <2>1, <2>2 DEF LoadStatus, ReportInv, Held
    <2> QED
      BY <1>3, <2>3, <2>4, <2>5 DEF ReportInv
  <1>8. CASE KeyActive
    <2>1. TypeOK'
      BY <1>1, <1>8 DEF KeyActive, TypeOK, zybo, pc
    <2>2. KeyChange' /\ Held' /\ StatusIsReading'
      BY <1>8 DEF KeyActive, ReportInv, KeyChange, Held, StatusIsReading, zybo
    <2> QED
      BY <1>3, <2>1, <2>2 DEF ReportInv
  <1> QED
    BY <1>4, <1>5, <1>6, <1>7, <1>8

LEMMA StartTransferStep ==
    ASSUME ReportInv, StartTransfer
    PROVE  ReportInv'
  <1> DEFINE out == IF stage = "run" THEN "COMMAND" ELSE IF asked THEN "POLL" ELSE RoundFrame[stage]
  <1>1. /\ bus' = [out |-> out, in |-> secure_spi_tx] /\ asked' = (stage # "run")
        /\ ~switching /\ stage \in Rounds \cup {"run"}
        /\ management_response_pending' =
              (management_response_pending /\ secure_spi_tx.type \notin Responses)
        /\ UNCHANGED <<collided, reading, status_snapshot, status_pending, last_submitted_status, sealing,
                       secure_spi_tx, rekey_in_progress, session_established, switching,
                       stage, hold, fifo, enc, epochs, line, pc>>
    BY DEF StartTransfer
  <1>2. /\ out \in Management \cup {"COMMAND"}
        /\ out = "KEY_UPDATE" => stage = "update"
        /\ out = "KEY_COMMIT" => stage = "commit"
        /\ out = "KEY_CONFIRM" => stage = "confirm" /\ ~asked
    BY <1>1 DEF RoundFrame, Rounds, Management
  <1> HIDE DEF out
  <1>3. TypeOK'
    BY <1>1, <1>2 DEF ReportInv, TypeOK, pc
  <1>4. KeyChange'
    BY <1>1, <1>2 DEF ReportInv, KeyChange
  <1>5. PcRounds' /\ Held' /\ StatusIsReading'
    BY <1>1 DEF ReportInv, PcRounds, Held, StatusIsReading
  <1> QED
    BY <1>3, <1>4, <1>5 DEF ReportInv

LEMMA EndTransferStep ==
    ASSUME ReportInv, EndTransfer
    PROVE  ReportInv'
  <1> DEFINE ack == bus.in.type = "COMMIT_ACK"
  <1>1. /\ bus' = NoTransfer /\ switching' = (switching \/ ack)
        /\ status_pending' = (status_pending /\ ~ack)
        /\ last_submitted_status' = IF ack THEN None ELSE last_submitted_status
        /\ \/ UNCHANGED <<sealing, collided>>
           \/ sealing' = None /\ collided' = TRUE
        /\ UNCHANGED <<reading, status_snapshot, session_established, fifo, enc, epochs, line, pc>>
    BY DEF EndTransfer, ForgetSubmitted
  <1>2. \/ stage' = stage /\ asked' = asked
        \/ asked' = FALSE /\ \/ stage = "update" /\ bus.in.type = "READY" /\ stage' = "commit"
                             \/ stage = "commit" /\ ack /\ stage' = "switch"
                             \/ stage = "confirm" /\ bus.in.type = "CONFIRM_ACK" /\ stage' = "run"
    BY DEF EndTransfer, HandleIn, ReportInv, TypeOK
  <1>3. /\ hold' = IF bus.in.type = "STATUS" THEN <<bus.in.n>> ELSE hold
    BY DEF EndTransfer, HandleIn
  <1>4. TypeOK /\ KeyChange /\ Held
    BY DEF ReportInv
  <1>5. hold' \in Seq(Readings) /\ Len(hold') <= 1
    <2>1. CASE bus.in.type = "STATUS"
      <3>1. bus.in.n \in Readings
        BY <1>4, <2>1, Types DEF ReportInv, StatusIsReading, IsStatus, Buffers
      <3> QED
        BY <1>3, <2>1, <3>1
    <2>2. CASE bus.in.type # "STATUS"
      BY <1>3, <1>4, <2>2 DEF TypeOK
    <2> QED
      BY <2>1, <2>2
  (* What the frame was answered. *)
  <1>6. \/ /\ bus.out = "KEY_UPDATE" /\ secure_spi_tx' = Buffer("READY", None)
           /\ management_response_pending' = TRUE /\ rekey_in_progress' = TRUE
        \/ /\ bus.out = "KEY_COMMIT" /\ secure_spi_tx' = Buffer("COMMIT_ACK", None)
           /\ management_response_pending' = TRUE /\ rekey_in_progress' = rekey_in_progress
        \/ /\ bus.out = "KEY_CONFIRM" /\ secure_spi_tx' = Buffer("CONFIRM_ACK", None)
           /\ management_response_pending' = TRUE /\ rekey_in_progress' = FALSE
        \/ /\ bus.out \in {"COMMAND", "POLL"} \/ (bus.out = "KEY_CONFIRM" /\ ~session_established)
           /\ secure_spi_tx' = IF ack THEN Buffer("NONE", None) ELSE secure_spi_tx
           /\ UNCHANGED <<management_response_pending, rekey_in_progress>>
    BY DEF EndTransfer, HandleOut, Respond
  <1>7. \A t \in Responses \cup {"NONE"} :
          Buffer(t, None) \in Buffers /\ Buffer(t, None).type = t /\ ~IsStatus(Buffer(t, None))
    BY BufferType DEF IsStatus, Responses
  <1>8. NoTransfer \in [out : Management \cup {"NONE", "COMMAND"}, in : Buffers]
        /\ NoTransfer.out = "NONE" /\ NoTransfer.in.type = "NONE"
    BY <1>7 DEF NoTransfer
  <1> HIDE DEF ack
  <1>9. secure_spi_tx' \in Buffers /\ (management_response_pending' => secure_spi_tx'.type \in Responses)
    <2>1. CASE management_response_pending' = TRUE /\ bus.out \in {"KEY_UPDATE", "KEY_COMMIT", "KEY_CONFIRM"}
               /\ \E t \in Responses : secure_spi_tx' = Buffer(t, None)
      BY <1>7, <2>1
    <2>2. CASE /\ secure_spi_tx' = IF ack THEN Buffer("NONE", None) ELSE secure_spi_tx
               /\ UNCHANGED <<management_response_pending, rekey_in_progress>>
      BY <1>4, <1>7, <2>2 DEF TypeOK, KeyChange, Responses, ack
    <2> QED
      BY <1>6, <2>1, <2>2 DEF Responses
  <1>10. TypeOK'
    BY <1>1, <1>2, <1>4, <1>5, <1>6, <1>8, <1>9 DEF TypeOK, Stages, Rounds, pc
  <1>11. StatusIsReading'
    BY <1>1, <1>4, <1>6, <1>7, <1>8 DEF ReportInv, StatusIsReading, IsStatus, Responses
  <1>12. KeyChange'
    <2>1. /\ switching \in BOOLEAN /\ management_response_pending \in BOOLEAN /\ asked \in BOOLEAN
          /\ rekey_in_progress \in BOOLEAN
      BY <1>4, BooleanTypes
    <2>2. /\ secure_spi_tx'.type \in {"READY", "COMMIT_ACK"} => rekey_in_progress'
          /\ stage' \in {"commit", "switch", "pcconfirm"} => rekey_in_progress'
          /\ stage' = "confirm" /\ ~asked' => rekey_in_progress'
      BY <1>2, <1>4, <1>6, <1>7, <2>1 DEF KeyChange, Responses
    <2>3. /\ stage' \in {"switch", "pcconfirm"} => last_submitted_status' = None
          /\ stage' = "confirm" /\ rekey_in_progress' => last_submitted_status' = None
          /\ ~session_established' \/ switching' => last_submitted_status' = None
      BY <1>1, <1>2, <1>4, <1>6, <2>1 DEF KeyChange
    <2> QED
      BY <1>1, <1>8, <2>2, <2>3 DEF KeyChange, Responses
  <1>13. PcRounds'
    BY <1>1, <1>2 DEF ReportInv, PcRounds
  <1>14. Held'
    BY <1>1, <1>4, <1>6, <1>7 DEF Held, KeyChange, Responses
  <1> QED
    BY <1>10, <1>11, <1>12, <1>13, <1>14 DEF ReportInv

LEMMA ZyboSteps ==
    ASSUME ReportInv, Decode \/ Seal \/ Transmit \/ BeginEpoch \/ ConfirmPc \/ PcReceive
    PROVE  ReportInv'
  <1>1. TypeOK /\ None \notin Readings /\ KeyChange
    BY BoundsAssumption DEF ReportInv, None, Readings
  <1>2. UNCHANGED <<basys, bus>>
    BY DEF Decode, Seal, Transmit, BeginEpoch, ConfirmPc, PcReceive
  <1>3. StatusIsReading'
    BY <1>2 DEF ReportInv, StatusIsReading, basys
  <1>4. CASE Decode \/ Seal
    <2>1. UNCHANGED <<reading, stage, asked, line, pc, epochs>>
      BY <1>4 DEF Decode, Seal
    <2>2. PcRounds'
      BY <2>1 DEF ReportInv, PcRounds
    <2>3. /\ hold' \in Seq(Readings) /\ Len(hold') <= 1
          /\ fifo' \in Seq(Readings) /\ Len(fifo') <= FifoCap
          /\ enc' \in Seq(Readings) /\ Len(enc') <= 1
      <3>1. CASE Decode
        <4>1. hold \in Seq(Readings) /\ Len(hold) = 1 /\ fifo \in Seq(Readings) /\ Len(fifo) \in Nat
          BY <1>1, <3>1, One, Types DEF Decode
        <4>2. fifo \o hold \in Seq(Readings) /\ Len(fifo \o hold) = Len(fifo) + 1
          BY <4>1, Joining
        <4> QED
          BY <1>1, <3>1, <4>1, <4>2, BoundsAssumption DEF Decode, TypeOK
      <3>2. CASE Seal
        <4>1. fifo \in Seq(Readings) /\ Len(fifo) <= FifoCap /\ fifo # <<>>
          BY <1>1, <3>2 DEF TypeOK, Seal
        <4>2. Head(fifo) \in Readings /\ Tail(fifo) \in Seq(Readings) /\ Len(Tail(fifo)) <= FifoCap
          BY <4>1, Taking, BoundsAssumption
        <4> QED
          BY <1>1, <3>2, <4>2 DEF Seal, TypeOK
      <3> QED
        BY <1>4, <3>1, <3>2
    <2>4. TypeOK'
      BY <1>1, <1>2, <2>1, <2>3 DEF TypeOK, basys, pc
    <2> QED
      BY <1>2, <1>3, <2>1, <2>2, <2>4, BasysKept DEF ReportInv
  <1>5. CASE Transmit
    <2>1. UNCHANGED <<reading, stage, asked, hold, fifo, pc, epochs>> /\ enc' = <<>>
      BY <1>5 DEF Transmit
    <2>2. CASE line' = line
      <3>1. PcRounds' /\ TypeOK'
        BY <1>1, <1>2, <2>1, <2>2 DEF ReportInv, PcRounds, TypeOK, basys, pc
      <3> QED
        BY <1>2, <1>3, <2>1, <3>1, BasysKept DEF ReportInv
    <2>3. CASE Len(line) < LineCap /\ line' = Append(line, Frame("REPORT", Head(enc)))
      <3> DEFINE e == Frame("REPORT", Head(enc))
      <3>1. enc \in Seq(Readings) /\ enc # <<>>
        BY <1>1, <1>5 DEF TypeOK, Transmit
      <3>2. e \in LineFrames /\ e.type = "REPORT" /\ line' = Append(line, e)
        BY <2>3, <3>1, Taking DEF Frame, LineFrames
      <3> HIDE DEF e
      <3>3. /\ line' \in Seq(LineFrames) /\ Len(line') = Len(line) + 1 /\ Len(line) \in Nat
            /\ \A i \in 1..Len(line') :
                 \/ i \in 1..Len(line) /\ line'[i] = line[i]
                 \/ i = Len(line) + 1 /\ line'[i] = e
        BY <1>1, <3>2, Types, Putting
      <3>4. TypeOK'
        BY <1>1, <1>2, <2>1, <2>3, <3>3, BoundsAssumption DEF TypeOK, LineFrames, basys, pc
      <3>5. PcRounds'
        BY <2>1, <3>2, <3>3 DEF ReportInv, PcRounds
      <3> QED
        BY <1>2, <1>3, <2>1, <3>4, <3>5, BasysKept DEF ReportInv
    <2> QED
      BY <1>5, <2>2, <2>3 DEF Transmit
  <1>6. CASE BeginEpoch \/ ConfirmPc
    <2>1. /\ Len(line) < LineCap /\ UNCHANGED <<reading, asked, hold, fifo, enc, pc>>
          /\ stage' \in {"pcupdate", "pcconfirm"} /\ stage \in {"run", "switch"}
          /\ stage' = "pcupdate" => stage = "run"
          /\ stage' = "pcconfirm" => stage = "switch"
          /\ epochs' \in 1..MaxEpochs
      BY <1>1, <1>6, BoundsAssumption DEF BeginEpoch, ConfirmPc, TypeOK
    <2>2. PICK e \in LineFrames : /\ line' = Append(line, e) /\ e.type # "REPORT"
                                  /\ e.type = "KEY_UPDATE" => stage' = "pcupdate"
                                  /\ e.type = "KEY_CONFIRM" => stage' = "pcconfirm"
      <3>1. \A t \in {"KEY_UPDATE", "KEY_CONFIRM"} : Frame(t, None) \in LineFrames /\ Frame(t, None).type = t
        BY DEF Frame, LineFrames
      <3> QED
        BY <1>6, <3>1 DEF BeginEpoch, ConfirmPc
    <2>3. /\ line' \in Seq(LineFrames) /\ Len(line') = Len(line) + 1 /\ Len(line) \in Nat
          /\ \A i \in 1..Len(line') :
               \/ i \in 1..Len(line) /\ line'[i] = line[i]
               \/ i = Len(line) + 1 /\ line'[i] = e
      BY <1>1, <2>2, Types, Putting
    <2>4. TypeOK'
      BY <1>1, <1>2, <2>1, <2>3, BoundsAssumption DEF TypeOK, LineFrames, Stages, basys, pc
    <2>5. \A i \in 1..Len(line) : line[i].type = "REPORT"
      <3>1. \A i \in 1..Len(line) : line[i] \in LineFrames
        BY <1>1, Types
      <3> QED
        BY <2>1, <3>1 DEF ReportInv, PcRounds, LineFrames
    <2>6. PcRounds'
      BY <2>2, <2>3, <2>5 DEF PcRounds
    <2>7. KeyChange' /\ Held'
      BY <1>2, <2>1 DEF ReportInv, KeyChange, Held, basys
    <2> QED
      BY <1>3, <2>4, <2>6, <2>7 DEF ReportInv
  <1>7. CASE PcReceive
    <2> DEFINE f == Head(line)
    <2>1. line \in Seq(LineFrames) /\ line # <<>> /\ line' = Tail(line)
          /\ UNCHANGED <<reading, asked, hold, fifo, enc, epochs>>
      BY <1>1, <1>7, Types DEF PcReceive
    <2>2. /\ f \in LineFrames /\ f = line[1] /\ 1 \in 1..Len(line) /\ Len(line) \in Nat
          /\ line' \in Seq(LineFrames) /\ Len(line') = Len(line) - 1
          /\ \A i \in 1..Len(line') : i + 1 \in 1..Len(line) /\ line'[i] = line[i + 1]
      BY <2>1, Taking
    <2>3. /\ f.type = "KEY_UPDATE" => stage = "pcupdate"
          /\ f.type = "KEY_CONFIRM" => stage = "pcconfirm"
      BY <2>2 DEF ReportInv, PcRounds
    <2>4. \/ f.type = "REPORT" /\ stage' = stage /\ shown' \in {f.n, shown} /\ session_ready' = session_ready
          \/ f.type = "KEY_UPDATE" /\ stage' = "update" /\ shown' = shown /\ session_ready' = FALSE
          \/ f.type = "KEY_CONFIRM" /\ stage' = "confirm" /\ shown' = shown /\ session_ready' = TRUE
      BY <1>7 DEF PcReceive
    <2>5. f.n \in Readings \cup {None}
      BY <2>2 DEF LineFrames
    <2> HIDE DEF f
    <2>6. TypeOK'
      <3>1. stage' \in Stages /\ shown' \in Readings \cup {None} /\ session_ready' \in BOOLEAN
        BY <1>1, <2>4, <2>5, BooleanTypes DEF TypeOK, Stages, Rounds
      <3>2. Len(line') <= LineCap
        BY <1>1, <2>2, BoundsAssumption DEF TypeOK
      <3> QED
        BY <1>1, <1>2, <2>1, <2>2, <3>1, <3>2 DEF TypeOK, LineFrames, basys
    <2>7. ASSUME f.type # "REPORT", NEW i \in 1..Len(line')
          PROVE  line'[i].type = "REPORT"
      BY <2>2, <2>7 DEF ReportInv, PcRounds
    <2>8. \A i \in 1..Len(line') : /\ line'[i].type = "KEY_UPDATE" => stage' = "pcupdate"
                                   /\ line'[i].type = "KEY_CONFIRM" => stage' = "pcconfirm"
      BY <2>2, <2>4, <2>7 DEF ReportInv, PcRounds
    <2>9. ASSUME NEW i \in 1..Len(line'), NEW j \in 1..Len(line'), line'[i].type # "REPORT",
                 line'[j].type # "REPORT"
          PROVE  i = j
      <3>1. /\ i + 1 \in 1..Len(line) /\ line[i + 1].type # "REPORT"
            /\ j + 1 \in 1..Len(line) /\ line[j + 1].type # "REPORT"
        BY <2>2, <2>9
      <3>2. i + 1 = j + 1
        BY <3>1 DEF ReportInv, PcRounds
      <3> QED
        BY <3>2
    <2>10. KeyChange' /\ Held'
      BY <1>2, <2>1, <2>3, <2>4 DEF ReportInv, KeyChange, Held, basys
    <2> QED
      BY <1>3, <2>6, <2>8, <2>9, <2>10 DEF ReportInv, PcRounds
  <1> QED
    BY <1>4, <1>5, <1>6, <1>7

LEMMA ReportNext == ReportInv /\ [Next]_vars => ReportInv'
  <1> SUFFICES ASSUME ReportInv, [Next]_vars PROVE ReportInv'
    OBVIOUS
  <1>1. CASE UNCHANGED vars
    <2>1. TypeOK' /\ StatusIsReading' /\ PcRounds'
      BY <1>1 DEF ReportInv, TypeOK, StatusIsReading, PcRounds, vars, basys, zybo, pc
    <2> QED
      BY <1>1, <2>1, BasysKept DEF ReportInv, vars, zybo
  <1> QED
    BY <1>1, BasysSteps, StartTransferStep, EndTransferStep, ZyboSteps DEF Next

LEMMA ReportAlways == Spec => []ReportInv
  BY ReportInit, ReportNext, PTL DEF Spec

(* Between key changes what was submitted last is in the transmit buffer   *)
(* or still in the encrypter.                                              *)
THEOREM BufferHolds == Spec => []BufferInv
  <1>1. ReportInv => BufferInv
    BY DEF ReportInv, Held, BufferInv, BufferHoldsLast
  <1> QED
    BY <1>1, ReportAlways, PTL

THEOREM BufferHoldsFair == FairSpec => []BufferInv
  BY BufferHolds, PTL DEF FairSpec

-----------------------------------------------------------------------------
(* The order of the readings.                                              *)

(* The numbers, and what comes next to a place. *)
LEMMA Numbers ==
    ASSUME ReportInv
    PROVE  /\ reading \in Int /\ status_snapshot \in Int /\ sealing \in Int /\ shown \in Int
           /\ secure_spi_tx.n \in Int /\ bus.in.n \in Int
           /\ hold # <<>> => hold[1] \in Int /\ Len(hold) = 1
           /\ \A i \in 1..Len(fifo) : fifo[i] \in Int
           /\ enc # <<>> => enc[1] \in Int /\ Len(enc) = 1
           /\ \A i \in 1..Len(line) : line[i].n \in Int
  <1>1. TypeOK
    BY DEF ReportInv
  <1>2. Readings \subseteq Int /\ None \in Int
    BY BoundsAssumption DEF Readings, None
  <1>3. /\ \A i \in 1..Len(fifo) : fifo[i] \in Readings
        /\ \A i \in 1..Len(line) : line[i] \in LineFrames
    BY <1>1, Types
  <1>4. /\ hold # <<>> => hold[1] \in Readings /\ Len(hold) = 1
        /\ enc # <<>> => enc[1] \in Readings /\ Len(enc) = 1
    BY <1>1, Types, One
  <1>5. secure_spi_tx.n \in Readings \cup {None} /\ bus.in.n \in Readings \cup {None}
        /\ \A i \in 1..Len(line) : line[i].n \in Readings \cup {None}
    BY <1>1, <1>3, Types DEF Buffers, LineFrames
  <1> QED
    BY <1>1, <1>2, <1>3, <1>4, <1>5, Types

LEMMA Nexts ==
    ASSUME ReportInv
    PROVE  ToBuffer \in Int /\ ToBus \in Int /\ ToHold \in Int /\ ToFifo \in Int /\ ToEnc \in Int /\ ToLine \in Int
  <1>1. ToBuffer \in Int
    BY Numbers DEF ToBuffer
  <1>2. ToBus \in Int
    BY <1>1, Numbers DEF ToBus
  <1>3. ToHold \in Int
    BY <1>2, Numbers DEF ToHold
  <1>4. ToFifo \in Int
    BY <1>3, Numbers DEF ToFifo
  <1>5. ToEnc \in Int
    <2>1. fifo # <<>> => 1 \in 1..Len(fifo)
      BY Taking DEF ReportInv, TypeOK
    <2> QED
      BY <1>4, <2>1, Numbers DEF ToEnc
  <1>6. ToLine \in Int
    BY <1>5, Numbers DEF ToLine
  <1> QED
    BY <1>1, <1>2, <1>3, <1>4, <1>5, <1>6

Integral ==
    /\ reading \in Int /\ status_snapshot \in Int /\ sealing \in Int /\ shown \in Int
    /\ secure_spi_tx.n \in Int /\ bus.in.n \in Int
    /\ ToBuffer \in Int /\ ToBus \in Int /\ ToHold \in Int
    /\ ToFifo \in Int /\ ToEnc \in Int /\ ToLine \in Int

LEMMA IntegersNow == ReportInv => Integral
  BY Numbers, Nexts DEF Integral

LEMMA IntegersAfter == ReportInv' => Integral'
  BY IntegersNow, PTL

(* Where the queues are not touched, nothing newer than what comes next to *)
(* them is in them as long as what comes next does not go back.            *)
LEMMA LineKept ==
    ASSUME ReportInv, ReportInv', LineInOrder, UNCHANGED <<line, shown>>, ToLine <= ToLine'
    PROVE  LineInOrder'
  <1>1. ToLine \in Int /\ ToLine' \in Int /\ shown \in Int /\ \A i \in 1..Len(line) : line[i].n \in Int
    BY Numbers, IntegersNow, IntegersAfter DEF Integral
  <1>2. \A i \in 1..Len(line) : line[i].type = "REPORT" => line[i].n <= ToLine'
    BY <1>1 DEF LineInOrder
  <1>3. shown <= ToLine'
    BY <1>1 DEF LineInOrder
  <1> QED
    BY <1>2, <1>3 DEF LineInOrder

LEMMA EncKept ==
    ASSUME ReportInv, ReportInv', EncInOrder, LineInOrder, UNCHANGED <<enc, line, shown>>, ToEnc <= ToEnc'
    PROVE  EncInOrder' /\ LineInOrder'
  <1>1. ToEnc \in Int /\ ToEnc' \in Int /\ (enc # <<>> => enc[1] \in Int)
    BY Numbers, IntegersNow, IntegersAfter DEF Integral
  <1>2. EncInOrder'
    BY <1>1 DEF EncInOrder
  <1>3. ToLine <= ToLine'
    BY <1>1 DEF ToLine
  <1> QED
    BY <1>2, <1>3, LineKept

LEMMA QueuesKept ==
    ASSUME ReportInv, ReportInv', FifoInOrder, EncInOrder, LineInOrder,
           UNCHANGED <<fifo, enc, line, shown>>, ToFifo <= ToFifo'
    PROVE  FifoInOrder' /\ EncInOrder' /\ LineInOrder'
  <1>1. ToFifo \in Int /\ ToFifo' \in Int /\ \A i \in 1..Len(fifo) : fifo[i] \in Int
    BY Numbers, IntegersNow, IntegersAfter DEF Integral
  <1>2. \A i \in 1..Len(fifo) : fifo[i] <= ToFifo'
    BY <1>1 DEF FifoInOrder
  <1>3. FifoInOrder'
    BY <1>2 DEF FifoInOrder
  <1>4. ToEnc <= ToEnc'
    <2>1. fifo # <<>> => 1 \in 1..Len(fifo)
      BY Taking DEF ReportInv, TypeOK
    <2> QED
      BY <1>1, <2>1 DEF ToEnc
  <1> QED
    BY <1>3, <1>4, EncKept

LEMMA BusKept ==
    ASSUME ReportInv, ReportInv', BoardInOrder, UNCHANGED <<bus, hold>>, ToBus <= ToBus'
    PROVE  /\ IsStatus(bus'.in) => bus'.in.n <= ToBus'
           /\ hold' # <<>> => hold'[1] <= ToHold'
           /\ ToFifo <= ToFifo'
  <1>1. ToBus \in Int /\ ToBus' \in Int /\ bus.in.n \in Int /\ (hold # <<>> => hold[1] \in Int)
    BY Numbers, IntegersNow, IntegersAfter DEF Integral
  <1>2. ToHold <= ToHold' /\ (IsStatus(bus.in) => bus.in.n <= ToBus')
    BY <1>1 DEF ToHold, BoardInOrder
  <1>3. (hold # <<>> => hold[1] <= ToHold') /\ ToFifo <= ToFifo'
    <2>1. ToHold \in Int /\ ToHold' \in Int
      BY IntegersNow, IntegersAfter DEF Integral
    <2>2. hold # <<>> => hold[1] <= ToHold
      BY DEF BoardInOrder
    <2>3. hold # <<>> => hold[1] <= ToHold'
      BY <1>1, <1>2, <2>1, <2>2
    <2> QED
      BY <1>1, <1>2, <2>1, <2>3 DEF ToFifo
  <1> QED
    BY <1>2, <1>3

LEMMA UpstreamKept ==
    ASSUME ReportInv, ReportInv', BoardInOrder, UNCHANGED <<secure_spi_tx, bus, hold>>, ToBuffer <= ToBuffer'
    PROVE  /\ IsStatus(secure_spi_tx') => secure_spi_tx'.n <= ToBuffer'
           /\ IsStatus(bus'.in) => bus'.in.n <= ToBus'
           /\ hold' # <<>> => hold'[1] <= ToHold'
           /\ ToFifo <= ToFifo'
  <1>1. ToBuffer \in Int /\ ToBuffer' \in Int /\ secure_spi_tx.n \in Int
    BY Numbers, IntegersNow, IntegersAfter DEF Integral
  <1>2. ToBus <= ToBus' /\ (IsStatus(secure_spi_tx) => secure_spi_tx.n <= ToBuffer')
    BY <1>1 DEF ToBus, BoardInOrder
  <1> QED
    BY <1>2, BusKept

LEMMA OrderInit == Init => PipelineInOrder
  <1> SUFFICES ASSUME Init PROVE PipelineInOrder
    OBVIOUS
  <1>1. /\ hold = <<>> /\ fifo = <<>> /\ enc = <<>> /\ line = <<Frame("KEY_UPDATE", None)>>
        /\ reading = 0 /\ status_snapshot = 0 /\ sealing = -1 /\ shown = -1
        /\ secure_spi_tx.type = "NONE" /\ bus.in.type = "NONE"
    BY DEF Init, None, Buffer, NoTransfer
  <1>2. \A i \in 1..Len(line) : line[i].type # "REPORT"
    BY <1>1 DEF Frame
  <1>3. ToLine = 0
    BY <1>1 DEF ToLine, ToEnc, ToFifo, ToHold, ToBus, ToBuffer, IsStatus, None
  <1>4. LineInOrder
    BY <1>1, <1>2, <1>3 DEF LineInOrder
  <1>5. FifoInOrder /\ EncInOrder
    BY <1>1 DEF FifoInOrder, EncInOrder
  <1>6. BoardInOrder
    BY <1>1 DEF BoardInOrder, IsStatus
  <1> QED
    BY <1>4, <1>5, <1>6 DEF PipelineInOrder

LEMMA BoardOrder ==
    ASSUME ReportInv, ReportInv', PipelineInOrder,
           Measure \/ TakeSnapshot \/ Submit \/ LoadStatus \/ KeyActive \/ StartTransfer \/ EndTransfer
    PROVE  PipelineInOrder'
  <1>0. Integral /\ Integral'
    BY IntegersNow, IntegersAfter
  <1>1. /\ reading \in Int /\ status_snapshot \in Int /\ sealing \in Int
        /\ secure_spi_tx.n \in Int /\ bus.in.n \in Int /\ (hold # <<>> => hold[1] \in Int)
    BY Numbers
  <1>2. UNCHANGED <<fifo, enc, line, shown>>
    BY DEF Measure, TakeSnapshot, Submit, LoadStatus, KeyActive, StartTransfer, EndTransfer, zybo, pc, basys
  <1>3. BoardInOrder' /\ ToFifo <= ToFifo'
    <2>1. CASE Measure \/ KeyActive
      <3>1. /\ UNCHANGED <<status_snapshot, sealing, secure_spi_tx, bus, hold>>
            /\ reading' = reading \/ reading' = reading + 1
        BY <2>1 DEF Measure, KeyActive, basys, zybo
      <3> QED
        BY <1>1, <3>1, <1>0 DEF Integral, PipelineInOrder, BoardInOrder, ToFifo, ToHold, ToBus, ToBuffer
    <2>2. CASE TakeSnapshot
      <3>1. UNCHANGED <<reading, sealing, secure_spi_tx, bus, hold>> /\ status_snapshot' = reading
        BY <2>2 DEF TakeSnapshot, zybo
      <3>2. ToBuffer <= ToBuffer'
        BY <1>1, <3>1 DEF PipelineInOrder, BoardInOrder, ToBuffer
      <3> QED
        BY <1>1, <3>1, <3>2, UpstreamKept DEF PipelineInOrder, BoardInOrder
    <2>3. CASE Submit
      <3>1. /\ UNCHANGED <<reading, status_snapshot, secure_spi_tx, bus, hold>>
            /\ sealing = None /\ sealing' = status_snapshot
        BY <2>3 DEF Submit, zybo
      <3>2. ToBuffer' = ToBuffer
        BY <1>1, <3>1 DEF ToBuffer
      <3> QED
        BY <1>1, <3>1, <3>2, <1>0, UpstreamKept DEF Integral, PipelineInOrder, BoardInOrder
    <2>4. CASE LoadStatus
      <3>1. /\ UNCHANGED <<reading, status_snapshot, bus, hold>>
            /\ sealing # None /\ sealing' = None
            /\ \/ UNCHANGED secure_spi_tx
               \/ secure_spi_tx'.type = "STATUS" /\ secure_spi_tx'.n = sealing
        BY <2>4 DEF LoadStatus, zybo, Buffer
      <3>2. sealing' <= status_snapshot' /\ ToBuffer <= ToBuffer' /\ ToBuffer' = status_snapshot /\ ToBuffer = sealing
        BY <1>1, <3>1, BoundsAssumption DEF PipelineInOrder, BoardInOrder, ToBuffer, None, ReportInv, TypeOK, Readings
      <3>3. CASE UNCHANGED secure_spi_tx
        BY <1>1, <3>1, <3>2, <3>3, UpstreamKept DEF PipelineInOrder, BoardInOrder
      <3>4. CASE secure_spi_tx'.type = "STATUS" /\ secure_spi_tx'.n = sealing
        <4>1. ToBus <= ToBus'
          BY <1>1, <3>2, <3>4 DEF PipelineInOrder, BoardInOrder, ToBus, IsStatus
        <4> QED
          BY <1>1, <3>1, <3>2, <3>4, <4>1, BusKept DEF PipelineInOrder, BoardInOrder
      <3> QED
        BY <3>1, <3>3, <3>4
    <2>5. CASE StartTransfer
      <3>1. /\ UNCHANGED <<reading, status_snapshot, sealing, secure_spi_tx, hold>>
            /\ bus.in.type = "NONE" /\ bus'.in = secure_spi_tx
        BY <2>5 DEF StartTransfer, NoTransfer, Buffer
      <3>2. ToBuffer' = ToBuffer /\ ToBus' = ToBus
        BY <3>1 DEF ToBuffer, ToBus
      <3>3. ToHold' = ToHold
        BY <3>1, <3>2 DEF ToHold, ToBus, IsStatus
      <3>4. ToFifo' = ToFifo
        BY <3>1, <3>3 DEF ToFifo
      <3>5. IsStatus(bus'.in) => bus'.in.n <= ToBus'
        BY <1>1, <3>1, <3>2 DEF ToBus, IsStatus
      <3> QED
        BY <3>1, <3>2, <3>3, <3>4, <3>5, <1>0 DEF Integral, PipelineInOrder, BoardInOrder
    <2>6. CASE EndTransfer
      <3>1. /\ UNCHANGED <<reading, status_snapshot>> /\ sealing' \in {sealing, None} /\ bus'.in.type = "NONE"
            /\ \/ UNCHANGED secure_spi_tx
               \/ secure_spi_tx'.type # "STATUS"
            /\ hold' = IF IsStatus(bus.in) THEN <<bus.in.n>> ELSE hold
        BY <2>6 DEF EndTransfer, HandleOut, HandleIn, Respond, NoTransfer, Buffer, Responses, IsStatus
      <3>2. sealing' <= status_snapshot' /\ ToBuffer <= ToBuffer'
        <4>1. sealing <= status_snapshot
          BY DEF PipelineInOrder, BoardInOrder
        <4>2. status_snapshot \in Readings
          BY DEF ReportInv, TypeOK
        <4>3. sealing' <= status_snapshot'
          BY <1>1, <3>1, <4>1, <4>2, BoundsAssumption DEF None, Readings
        <4>4. ToBuffer <= ToBuffer'
          BY <1>1, <3>1, <4>1 DEF ToBuffer
        <4> QED
          BY <4>3, <4>4
      <3>3. ToBus <= ToBus' /\ (IsStatus(secure_spi_tx') => secure_spi_tx'.n <= ToBuffer')
        BY <1>1, <3>1, <3>2, <1>0 DEF Integral, PipelineInOrder, BoardInOrder, ToBus, IsStatus
      <3>4. ToHold' = ToBus' /\ ~IsStatus(bus'.in)
        BY <3>1 DEF ToHold, IsStatus
      <3>5. CASE IsStatus(bus.in)
        <4>1. hold' # <<>> /\ hold'[1] = bus.in.n /\ ToFifo' = bus.in.n /\ ToHold = bus.in.n
          BY <3>1, <3>5 DEF ToFifo, ToHold
        <4>2. bus.in.n <= ToBus'
          <5>1. bus.in.n <= ToBus
            BY <3>5 DEF PipelineInOrder, BoardInOrder
          <5>2. ToBus \in Int /\ ToBus' \in Int
            BY <1>0 DEF Integral
          <5> QED
            BY <1>1, <3>3, <5>1, <5>2
        <4>3. ToFifo <= ToFifo'
          BY <1>1, <4>1 DEF ToFifo, PipelineInOrder, BoardInOrder
        <4> QED
          BY <3>1, <3>2, <3>3, <3>4, <4>1, <4>2, <4>3 DEF PipelineInOrder, BoardInOrder
      <3>6. CASE ~IsStatus(bus.in)
        <4>1. hold' = hold /\ ToHold = ToBus
          BY <3>1, <3>6 DEF ToHold
        <4>2. ToHold <= ToHold'
          BY <3>3, <3>4, <4>1
        <4>3. (hold' # <<>> => hold'[1] <= ToHold') /\ ToFifo <= ToFifo'
          <5>1. hold # <<>> => hold[1] <= ToHold
            BY DEF PipelineInOrder, BoardInOrder
          <5>2. ToHold \in Int /\ ToHold' \in Int
            BY <1>0 DEF Integral
          <5>3. hold # <<>> => hold[1] <= ToHold'
            BY <1>1, <4>2, <5>1, <5>2
          <5> QED
            BY <1>1, <4>1, <4>2, <5>2, <5>3 DEF ToFifo
        <4> QED
          BY <3>1, <3>2, <3>3, <3>4, <4>3 DEF PipelineInOrder, BoardInOrder
      <3> QED
        BY <3>5, <3>6
    <2> QED
      BY <2>1, <2>2, <2>3, <2>4, <2>5, <2>6
  <1> QED
    BY <1>2, <1>3, QueuesKept DEF PipelineInOrder

LEMMA BoardUnchanged ==
    ASSUME BoardInOrder, UNCHANGED <<reading, basys, bus, hold>>
    PROVE  BoardInOrder' /\ ToHold' = ToHold /\ ToFifo' = ToFifo
  <1>1. UNCHANGED <<reading, status_snapshot, sealing, secure_spi_tx, bus, hold>>
    BY DEF basys
  <1>2. ToBuffer' = ToBuffer /\ ToBus' = ToBus
    BY <1>1 DEF ToBuffer, ToBus
  <1>3. ToHold' = ToHold
    BY <1>1, <1>2 DEF ToHold
  <1>4. ToFifo' = ToFifo
    BY <1>1, <1>3 DEF ToFifo
  <1> QED
    BY <1>1, <1>2, <1>3, <1>4 DEF BoardInOrder

LEMMA DecodeOrder ==
    ASSUME ReportInv, ReportInv', PipelineInOrder, Decode
    PROVE  PipelineInOrder'
  <1>0. Integral /\ Integral'
    BY IntegersNow, IntegersAfter
  <1>1. /\ hold \in Seq(Readings) /\ Len(hold) = 1 /\ hold' = <<>> /\ hold[1] \in Int
        /\ fifo \in Seq(Readings) /\ \A i \in 1..Len(fifo) : fifo[i] \in Int
    BY Numbers DEF Decode, ReportInv, TypeOK
  <1>2. UNCHANGED <<reading, status_snapshot, sealing, secure_spi_tx, bus, enc, line, shown>>
    BY DEF Decode, basys, pc
  <1>3. ToBuffer' = ToBuffer /\ ToBus' = ToBus
    BY <1>2 DEF ToBuffer, ToBus
  <1>4. ToHold' = ToHold /\ ToFifo' = ToHold /\ ToFifo = hold[1] /\ hold[1] <= ToHold
    BY <1>1, <1>2, <1>3 DEF ToHold, ToFifo, PipelineInOrder, BoardInOrder, Decode
  <1>5. BoardInOrder'
    BY <1>1, <1>2, <1>3, <1>4 DEF PipelineInOrder, BoardInOrder
  <1>6. ToFifo <= ToFifo' /\ ToFifo \in Int /\ ToFifo' \in Int
    BY <1>0, <1>4 DEF Integral
  <1>7. CASE fifo' = fifo
    <2>1. \A i \in 1..Len(fifo) : fifo[i] <= ToFifo'
      BY <1>1, <1>6 DEF PipelineInOrder, FifoInOrder
    <2>2. FifoInOrder'
      BY <1>7, <2>1 DEF PipelineInOrder, FifoInOrder
    <2>3. ToEnc <= ToEnc'
      <3>1. fifo # <<>> => fifo[1] \in Int
        BY <1>1, Taking
      <3> QED
        BY <1>6, <1>7, <3>1 DEF ToEnc
    <2> QED
      BY <1>2, <1>5, <2>2, <2>3, EncKept DEF PipelineInOrder
  <1>8. CASE fifo' = fifo \o hold
    <2>1. /\ Len(fifo') = Len(fifo) + 1 /\ Len(fifo) \in Nat
          /\ \A i \in 1..Len(fifo) : fifo'[i] = fifo[i]
          /\ \A i \in 1..Len(fifo') : \/ i \in 1..Len(fifo) /\ fifo'[i] = fifo[i]
                                      \/ i = Len(fifo) + 1 /\ fifo'[i] = hold[1]
      BY <1>1, <1>8, Joining
    <2>2. \A i \in 1..Len(fifo) : fifo[i] <= hold[1]
      BY <1>4 DEF PipelineInOrder, FifoInOrder
    <2>3. \A i \in 1..Len(fifo') : fifo'[i] <= ToFifo'
      <3> SUFFICES ASSUME NEW i \in 1..Len(fifo') PROVE fifo'[i] <= ToFifo'
        OBVIOUS
      <3>1. CASE i \in 1..Len(fifo) /\ fifo'[i] = fifo[i]
        BY <1>1, <1>4, <1>6, <2>2, <3>1
      <3>2. CASE fifo'[i] = hold[1]
        BY <1>4, <1>6, <3>2
      <3> QED
        BY <2>1, <3>1, <3>2
    <2>4. \A i, j \in 1..Len(fifo') : i < j => fifo'[i] <= fifo'[j]
      <3> SUFFICES ASSUME NEW i \in 1..Len(fifo'), NEW j \in 1..Len(fifo'), i < j PROVE fifo'[i] <= fifo'[j]
        OBVIOUS
      <3>1. i \in 1..Len(fifo) /\ fifo'[i] = fifo[i]
        BY <2>1
      <3>2. CASE j \in 1..Len(fifo) /\ fifo'[j] = fifo[j]
        BY <3>1, <3>2 DEF PipelineInOrder, FifoInOrder
      <3>3. CASE fifo'[j] = hold[1]
        BY <2>2, <3>1, <3>3
      <3> QED
        BY <2>1, <3>2, <3>3
    <2>5. FifoInOrder'
      BY <2>3, <2>4 DEF FifoInOrder
    <2>6. ToEnc' = ToEnc
      <3>1. 1 \in 1..Len(fifo') /\ fifo' # <<>>
        BY <2>1
      <3>2. CASE fifo = <<>>
        BY <1>4, <2>1, <3>1, <3>2 DEF ToEnc
      <3>3. CASE fifo # <<>>
        <4>1. 1 \in 1..Len(fifo)
          BY <1>1, <3>3, Taking
        <4> QED
          BY <2>1, <3>1, <3>3, <4>1 DEF ToEnc
      <3> QED
        BY <3>2, <3>3
    <2> QED
      BY <1>0, <1>2, <1>5, <2>5, <2>6, EncKept DEF PipelineInOrder, Integral
  <1> QED
    BY <1>7, <1>8 DEF Decode

LEMMA SealOrder ==
    ASSUME ReportInv, ReportInv', PipelineInOrder, Seal
    PROVE  PipelineInOrder'
  <1>0. Integral /\ Integral'
    BY IntegersNow, IntegersAfter
  <1>1. /\ fifo \in Seq(Readings) /\ fifo # <<>> /\ enc = <<>> /\ fifo' = Tail(fifo) /\ enc' = <<fifo[1]>>
        /\ \A i \in 1..Len(fifo) : fifo[i] \in Int
    <2>1. fifo \in Seq(Readings) /\ fifo # <<>>
      BY DEF ReportInv, TypeOK, Seal
    <2>2. Head(fifo) = fifo[1]
      BY <2>1, Taking
    <2> QED
      BY <2>1, <2>2, Numbers DEF Seal
  <1>2. /\ 1 \in 1..Len(fifo) /\ Len(fifo) \in Nat /\ Len(fifo') = Len(fifo) - 1
        /\ \A i \in 1..Len(fifo') : i + 1 \in 1..Len(fifo) /\ fifo'[i] = fifo[i + 1]
    BY <1>1, Taking
  <1>3. BoardInOrder' /\ ToFifo' = ToFifo /\ UNCHANGED <<line, shown>>
    BY BoardUnchanged DEF PipelineInOrder, Seal, pc
  <1>4. FifoInOrder'
    <2>1. \A i \in 1..Len(fifo') : fifo'[i] <= ToFifo'
      BY <1>2, <1>3 DEF PipelineInOrder, FifoInOrder
    <2>2. \A i, j \in 1..Len(fifo') : i < j => fifo'[i] <= fifo'[j]
      <3> SUFFICES ASSUME NEW i \in 1..Len(fifo'), NEW j \in 1..Len(fifo'), i < j PROVE fifo'[i] <= fifo'[j]
        OBVIOUS
      <3>1. i + 1 \in 1..Len(fifo) /\ j + 1 \in 1..Len(fifo) /\ i + 1 < j + 1
        BY <1>2
      <3> QED
        BY <1>2, <3>1 DEF PipelineInOrder, FifoInOrder
    <2> QED
      BY <2>1, <2>2 DEF FifoInOrder
  <1>5. fifo[1] <= ToEnc'
    <2>1. CASE fifo' = <<>>
      BY <1>2, <1>3, <2>1 DEF ToEnc, PipelineInOrder, FifoInOrder
    <2>2. CASE fifo' # <<>>
      <3>1. fifo' \in Seq(Readings)
        BY DEF ReportInv, TypeOK
      <3>2. 1 \in 1..Len(fifo')
        BY <2>2, <3>1, Taking
      <3>3. fifo'[1] = fifo[1 + 1] /\ 1 + 1 \in 1..Len(fifo) /\ 1 < 1 + 1
        BY <1>2, <3>2
      <3>4. fifo[1] <= fifo'[1]
        BY <1>2, <3>3 DEF PipelineInOrder, FifoInOrder
      <3> QED
        BY <2>2, <3>4 DEF ToEnc
    <2> QED
      BY <2>1, <2>2
  <1>6. EncInOrder'
    BY <1>1, <1>5 DEF EncInOrder
  <1>7. ToLine' = ToLine
    BY <1>1 DEF ToLine, ToEnc
  <1> QED
    BY <1>0, <1>3, <1>4, <1>6, <1>7, LineKept DEF PipelineInOrder, Integral

(* A frame put behind the others: a reading not older than they are, or a  *)
(* frame of the key change.                                                *)
LEMMA LineGrows ==
    ASSUME ReportInv, ReportInv', LineInOrder, NEW f \in LineFrames, line' = Append(line, f),
           UNCHANGED shown, ToLine <= ToLine',
           f.type = "REPORT" => f.n # None /\ f.n = ToLine
    PROVE  LineInOrder'
  <1>1. /\ ToLine \in Int /\ ToLine' \in Int /\ shown \in Int /\ \A i \in 1..Len(line) : line[i].n \in Int
        /\ line \in Seq(LineFrames)
    BY Numbers, IntegersNow, IntegersAfter, Types DEF Integral, ReportInv
  <1>2. /\ \A i \in 1..Len(line) : line'[i] = line[i]
        /\ Len(line) \in Nat /\ Len(line') = Len(line) + 1
        /\ \A i \in 1..Len(line') : \/ i \in 1..Len(line) /\ line'[i] = line[i]
                                    \/ i = Len(line) + 1 /\ line'[i] = f
    BY <1>1, Putting
  <1>3. \A i \in 1..Len(line') : line'[i].type = "REPORT" =>
          line'[i].n # None /\ shown <= line'[i].n /\ line'[i].n <= ToLine'
    <2> SUFFICES ASSUME NEW i \in 1..Len(line'), line'[i].type = "REPORT"
                 PROVE  line'[i].n # None /\ shown <= line'[i].n /\ line'[i].n <= ToLine'
      OBVIOUS
    <2>1. CASE i \in 1..Len(line) /\ line'[i] = line[i]
      BY <1>1, <2>1 DEF LineInOrder
    <2>2. CASE line'[i] = f
      BY <1>1, <2>2 DEF LineInOrder
    <2> QED
      BY <1>2, <2>1, <2>2
  <1>4. \A i, j \in 1..Len(line') :
          i < j /\ line'[i].type = "REPORT" /\ line'[j].type = "REPORT" => line'[i].n <= line'[j].n
    <2> SUFFICES ASSUME NEW i \in 1..Len(line'), NEW j \in 1..Len(line'), i < j,
                        line'[i].type = "REPORT", line'[j].type = "REPORT"
                 PROVE  line'[i].n <= line'[j].n
      OBVIOUS
    <2>1. i \in 1..Len(line) /\ line'[i] = line[i]
      BY <1>2
    <2>2. CASE j \in 1..Len(line) /\ line'[j] = line[j]
      BY <2>1, <2>2 DEF LineInOrder
    <2>3. CASE line'[j] = f
      BY <2>1, <2>3 DEF LineInOrder
    <2> QED
      BY <1>2, <2>2, <2>3
  <1>5. shown <= ToLine'
    BY <1>1 DEF LineInOrder
  <1> QED
    BY <1>3, <1>4, <1>5 DEF LineInOrder

LEMMA TransmitOrder ==
    ASSUME ReportInv, ReportInv', PipelineInOrder, Transmit
    PROVE  PipelineInOrder'
  <1>0. Integral /\ Integral'
    BY IntegersNow, IntegersAfter
  <1>1. /\ enc \in Seq(Readings) /\ enc # <<>> /\ enc' = <<>> /\ Head(enc) = enc[1] /\ enc[1] \in Readings
        /\ UNCHANGED <<fifo, shown>>
    BY One DEF Transmit, ReportInv, TypeOK, pc
  <1>2. BoardInOrder' /\ ToFifo' = ToFifo
    BY BoardUnchanged DEF PipelineInOrder, Transmit
  <1>3. FifoInOrder' /\ EncInOrder' /\ ToEnc' = ToEnc
    BY <1>1, <1>2 DEF PipelineInOrder, FifoInOrder, EncInOrder, ToEnc
  <1>4. ToLine = enc[1] /\ ToLine' = ToEnc /\ ToLine <= ToLine'
    BY <1>1, <1>3 DEF ToLine, PipelineInOrder, EncInOrder
  <1>5. CASE UNCHANGED line
    BY <1>1, <1>2, <1>3, <1>4, <1>5, LineKept DEF PipelineInOrder
  <1>6. CASE line' = Append(line, Frame("REPORT", Head(enc)))
    <2>1. Frame("REPORT", Head(enc)) \in LineFrames
      BY <1>1 DEF Frame, LineFrames
    <2>2. Frame("REPORT", Head(enc)).n = ToLine /\ ToLine # None
      BY <1>1, <1>4, BoundsAssumption DEF Frame, None, Readings
    <2> QED
      BY <1>1, <1>2, <1>3, <1>4, <1>6, <2>1, <2>2, LineGrows DEF PipelineInOrder
  <1> QED
    BY <1>5, <1>6 DEF Transmit

LEMMA KeyFrameOrder ==
    ASSUME ReportInv, ReportInv', PipelineInOrder, BeginEpoch \/ ConfirmPc
    PROVE  PipelineInOrder'
  <1>0. Integral /\ Integral'
    BY IntegersNow, IntegersAfter
  <1>1. UNCHANGED <<fifo, enc, shown>>
    BY DEF BeginEpoch, ConfirmPc, pc
  <1>2. BoardInOrder' /\ ToFifo' = ToFifo
    BY BoardUnchanged DEF PipelineInOrder, BeginEpoch, ConfirmPc
  <1>3. FifoInOrder' /\ EncInOrder' /\ ToLine' = ToLine
    BY <1>1, <1>2 DEF PipelineInOrder, FifoInOrder, EncInOrder, ToLine, ToEnc
  <1>4. PICK f \in LineFrames : line' = Append(line, f) /\ f.type # "REPORT"
    <2>1. /\ Frame("KEY_UPDATE", None) \in LineFrames /\ Frame("KEY_UPDATE", None).type # "REPORT"
          /\ Frame("KEY_CONFIRM", None) \in LineFrames /\ Frame("KEY_CONFIRM", None).type # "REPORT"
      BY DEF Frame, LineFrames
    <2> QED
      BY <2>1 DEF BeginEpoch, ConfirmPc
  <1> QED
    BY <1>0, <1>1, <1>2, <1>3, <1>4, LineGrows DEF PipelineInOrder, Integral

LEMMA PcOrder ==
    ASSUME ReportInv, ReportInv', PipelineInOrder, PcReceive
    PROVE  PipelineInOrder' /\ (shown' = shown \/ (shown' # None /\ shown' >= shown))
  <1>0. Integral /\ Integral'
    BY IntegersNow, IntegersAfter
  <1>1. /\ line \in Seq(LineFrames) /\ line # <<>> /\ line' = Tail(line)
        /\ \A i \in 1..Len(line) : line[i].n \in Int
    BY Numbers, Types DEF PcReceive, ReportInv
  <1>2. /\ Head(line) = line[1] /\ 1 \in 1..Len(line) /\ Len(line) \in Nat /\ Len(line') = Len(line) - 1
        /\ \A i \in 1..Len(line') : i + 1 \in 1..Len(line) /\ line'[i] = line[i + 1]
    BY <1>1, Taking
  <1>3. BoardInOrder' /\ ToFifo' = ToFifo /\ UNCHANGED <<fifo, enc>>
    BY BoardUnchanged DEF PipelineInOrder, PcReceive
  <1>4. FifoInOrder' /\ EncInOrder' /\ ToLine' = ToLine
    BY <1>3 DEF PipelineInOrder, FifoInOrder, EncInOrder, ToLine, ToEnc
  <1>5. shown' = shown \/ (line[1].type = "REPORT" /\ shown' = line[1].n)
    BY <1>2 DEF PcReceive
  <1>6. /\ shown' = shown \/ (shown' # None /\ shown' >= shown)
        /\ shown' <= ToLine'
        /\ \A i \in 1..Len(line') : line'[i].type = "REPORT" => shown' <= line'[i].n
    <2>1. CASE shown' = shown
      BY <1>2, <1>4, <2>1 DEF PipelineInOrder, LineInOrder
    <2>2. CASE line[1].type = "REPORT" /\ shown' = line[1].n
      <3>1. shown' # None /\ shown <= shown' /\ shown' <= ToLine'
        BY <1>2, <1>4, <2>2 DEF PipelineInOrder, LineInOrder
      <3>2. \A i \in 1..Len(line') : line'[i].type = "REPORT" => shown' <= line'[i].n
        <4> SUFFICES ASSUME NEW i \in 1..Len(line'), line'[i].type = "REPORT" PROVE shown' <= line'[i].n
          OBVIOUS
        <4>1. i + 1 \in 1..Len(line) /\ 1 < i + 1 /\ line[i + 1].type = "REPORT"
          BY <1>2
        <4> QED
          BY <1>2, <2>2, <4>1 DEF PipelineInOrder, LineInOrder
      <3>3. shown' >= shown
        BY <1>0, <3>1 DEF Integral
      <3> QED
        BY <3>1, <3>2, <3>3
    <2> QED
      BY <1>5, <2>1, <2>2
  <1>7. \A i \in 1..Len(line') : line'[i].type = "REPORT" => line'[i].n # None /\ line'[i].n <= ToLine'
    BY <1>2, <1>4 DEF PipelineInOrder, LineInOrder
  <1>8. \A i, j \in 1..Len(line') :
          i < j /\ line'[i].type = "REPORT" /\ line'[j].type = "REPORT" => line'[i].n <= line'[j].n
    <2> SUFFICES ASSUME NEW i \in 1..Len(line'), NEW j \in 1..Len(line'), i < j,
                        line'[i].type = "REPORT", line'[j].type = "REPORT"
                 PROVE  line'[i].n <= line'[j].n
      OBVIOUS
    <2>1. i + 1 \in 1..Len(line) /\ j + 1 \in 1..Len(line) /\ i + 1 < j + 1
      BY <1>2
    <2> QED
      BY <1>2, <2>1 DEF PipelineInOrder, LineInOrder
  <1>9. LineInOrder'
    BY <1>6, <1>7, <1>8 DEF LineInOrder
  <1> QED
    BY <1>3, <1>4, <1>6, <1>9 DEF PipelineInOrder

LEMMA OrderNext == ReportInv /\ ReportInv' /\ PipelineInOrder /\ [Next]_vars => PipelineInOrder'
  <1> SUFFICES ASSUME ReportInv, ReportInv', PipelineInOrder, [Next]_vars PROVE PipelineInOrder'
    OBVIOUS
  <1>1. CASE UNCHANGED vars
    <2>1. UNCHANGED <<fifo, enc, line, shown>>
      BY <1>1 DEF vars, zybo, pc
    <2>2. BoardInOrder' /\ ToFifo' = ToFifo
      BY <1>1, BoardUnchanged DEF PipelineInOrder, vars, zybo
    <2> QED
      BY <2>1, <2>2, QueuesKept, IntegersNow DEF PipelineInOrder, Integral
  <1> QED
    BY <1>1, BoardOrder, DecodeOrder, SealOrder, TransmitOrder, KeyFrameOrder, PcOrder DEF Next

LEMMA OrderAlways == Spec => [](ReportInv /\ PipelineInOrder)
  BY ReportInit, ReportNext, OrderInit, OrderNext, PTL DEF Spec

(* The control room never goes back to an older reading: only the receive  *)
(* thread changes what it shows, and the report at the head of the line is *)
(* not older.                                                              *)
THEOREM ReadingsForward == Spec => NeverOlder
  <1>1. ReportInv /\ ReportInv' /\ PipelineInOrder /\ [Next]_vars => [shown' # None /\ shown' >= shown]_shown
    <2> SUFFICES ASSUME ReportInv, ReportInv', PipelineInOrder, [Next]_vars
                 PROVE  shown' = shown \/ (shown' # None /\ shown' >= shown)
      OBVIOUS
    <2>1. CASE PcReceive
      BY <2>1, PcOrder
    <2>2. CASE ~PcReceive
      BY <2>2 DEF Next, vars, pc, Measure, TakeSnapshot, Submit, LoadStatus, KeyActive, StartTransfer,
                  EndTransfer, Decode, Seal, Transmit, BeginEpoch, ConfirmPc
    <2> QED
      BY <2>1, <2>2
  <1> QED
    BY <1>1, OrderAlways, PTL DEF Spec, NeverOlder

THEOREM ReadingsForwardFair == FairSpec => NeverOlder
  BY ReadingsForward, PTL DEF FairSpec
=============================================================================
