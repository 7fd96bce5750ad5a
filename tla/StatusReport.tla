---------------------------- MODULE StatusReport ----------------------------
(***************************************************************************)
(* How a sensor reading comes to the control room: the status side of      *)
(* basys3_secure_rack_control.sv (snapshot, sealing, the transmit buffer   *)
(* it shares with the handshake's answers), the SPI transfers of the ZYBO, *)
(* its sensor FIFO and encrypter, and the PC's receive thread.             *)
(*                                                                         *)
(* Keys and the PC's side of a key change are GroupRekey's; here a key     *)
(* change is the rounds in which the Basys3 and the PC stop and start      *)
(* reporting.  A reading is its number; what is measured goes to and fro   *)
(* between two values.                                                     *)
(***************************************************************************)
EXTENDS Integers, Sequences

CONSTANTS MaxReadings, MaxEpochs,  \* bounds
          FifoCap,    \* depth of the sensor FIFO, 4 in the code
          LineCap     \* bound on the frames on the UART

ASSUME BoundsAssumption ==
    /\ MaxReadings \in Nat /\ MaxEpochs \in Nat \ {0}
    /\ FifoCap \in Nat \ {0} /\ LineCap \in Nat \ {0}

VARIABLES
    reading,                                  \* tx_data_out
    status_snapshot, status_pending, last_submitted_status,
    sealing,                                  \* the reading in the encrypter
    collided,                                 \* history: the status submitted last met a frame
    secure_spi_tx,                            \* transmit buffer
    management_response_pending, rekey_in_progress, session_established, switching,
    bus,                                      \* the SPI transfer: frame out, buffer in
    stage, asked, hold, fifo, enc,            \* ZYBO
    line,                                     \* UART to the PC
    session_ready, shown,                     \* PC
    epochs

basys == <<status_snapshot, status_pending, last_submitted_status, sealing, collided, secure_spi_tx,
           management_response_pending, rekey_in_progress, session_established, switching>>
zybo  == <<stage, asked, hold, fifo, enc, epochs>>
pc    == <<session_ready, shown>>
vars  == <<reading, basys, bus, zybo, line, pc>>

None == -1
Value(n) == n % 2       \* what a reading says
Readings == 0..MaxReadings
Responses == {"READY", "COMMIT_ACK", "CONFIRM_ACK"}
Buffer(type, n) == [type |-> type, n |-> n]
Buffers == [type : Responses \cup {"NONE", "STATUS"}, n : Readings \cup {None}]
NoTransfer == [out |-> "NONE", in |-> Buffer("NONE", None)]

\* In every round of a key change the ZYBO sends its frame once, then polls.
Rounds == {"update", "commit", "confirm"}
RoundFrame == [update |-> "KEY_UPDATE", commit |-> "KEY_COMMIT", confirm |-> "KEY_CONFIRM"]
Management == {"KEY_UPDATE", "KEY_COMMIT", "KEY_CONFIRM", "POLL"}
Stages == Rounds \cup {"run", "pcupdate", "switch", "pcconfirm"}
Frame(type, n) == [type |-> type, n |-> n]

Init ==   \* power-up: the first key change has begun
    /\ reading = 0 /\ status_snapshot = 0 /\ status_pending = FALSE
    /\ last_submitted_status = None /\ sealing = None /\ collided = FALSE
    /\ secure_spi_tx = Buffer("NONE", None)
    /\ management_response_pending = FALSE /\ rekey_in_progress = TRUE
    /\ session_established = FALSE /\ switching = FALSE
    /\ bus = NoTransfer /\ stage = "pcupdate" /\ asked = FALSE
    /\ hold = <<>> /\ fifo = <<>> /\ enc = <<>> /\ line = <<Frame("KEY_UPDATE", None)>>
    /\ session_ready = FALSE /\ shown = None /\ epochs = 1
-----------------------------------------------------------------------------
(* Basys3.                                                                 *)
Measure ==
    /\ reading < MaxReadings /\ reading' = reading + 1
    /\ UNCHANGED <<basys, bus, zybo, line, pc>>

TakeSnapshot ==
    /\ session_established /\ ~status_pending /\ Value(reading) # last_submitted_status
    /\ status_snapshot' = reading /\ status_pending' = TRUE
    /\ UNCHANGED <<collided, reading, last_submitted_status, sealing, secure_spi_tx,
                   management_response_pending, rekey_in_progress, session_established,
                   switching, bus, zybo, line, pc>>

Submit ==
    /\ status_pending /\ session_established /\ ~rekey_in_progress
    /\ ~management_response_pending /\ ~switching /\ sealing = None
    /\ sealing' = status_snapshot /\ last_submitted_status' = Value(status_snapshot)
    /\ status_pending' = FALSE /\ collided' = FALSE
    /\ UNCHANGED <<reading, status_snapshot, secure_spi_tx, management_response_pending,
                   rekey_in_progress, session_established, switching, bus, zybo, line, pc>>

\* Mutation: the result replaces a response that waits.
LoadStatusAlways ==
    /\ sealing # None /\ sealing' = None
    /\ secure_spi_tx' = Buffer("STATUS", sealing)
    /\ UNCHANGED <<collided, reading, status_snapshot, status_pending, last_submitted_status,
                   management_response_pending, rekey_in_progress, session_established,
                   switching, bus, zybo, line, pc>>

(* The result is dropped while a response waits or a key change goes on.   *)
LoadStatus ==
    /\ sealing # None /\ sealing' = None
    /\ secure_spi_tx' = IF ~management_response_pending /\ ~rekey_in_progress
                        THEN Buffer("STATUS", sealing) ELSE secure_spi_tx
    /\ UNCHANGED <<collided, reading, status_snapshot, status_pending, last_submitted_status,
                   management_response_pending, rekey_in_progress, session_established,
                   switching, bus, zybo, line, pc>>

KeyActive ==
    /\ switching /\ switching' = FALSE /\ session_established' = TRUE
    /\ UNCHANGED <<collided, reading, status_snapshot, status_pending, last_submitted_status, sealing,
                   secure_spi_tx, management_response_pending, rekey_in_progress, bus, zybo, line, pc>>
-----------------------------------------------------------------------------
(* A transfer of 384 bits.  In a session there is one for every command or *)
(* 2 s poll of the PC, in a key change one for every frame of a round.     *)
StartTransfer ==
    /\ bus = NoTransfer /\ ~switching /\ stage \in Rounds \cup {"run"}
    /\ bus' = [out |-> IF stage = "run" THEN "COMMAND"
                       ELSE IF asked THEN "POLL" ELSE RoundFrame[stage],
               in |-> secure_spi_tx]
    /\ asked' = (stage # "run")
    /\ management_response_pending' =
          (management_response_pending /\ secure_spi_tx.type \notin Responses)
    /\ UNCHANGED <<collided, reading, status_snapshot, status_pending, last_submitted_status, sealing,
                   secure_spi_tx, rekey_in_progress, session_established, switching,
                   stage, hold, fifo, enc, epochs, line, pc>>

\* Mutation: the status is not sealed again under the new key.
ForgetNothing(shifted) ==
    /\ status_pending' = (status_pending /\ ~shifted)
    /\ UNCHANGED last_submitted_status

(* A COMMIT_ACK that was shifted out starts the key switch, after which    *)
(* the status is to be sealed again.                                       *)
ForgetSubmitted(shifted) ==
    /\ status_pending' = (status_pending /\ ~shifted)
    /\ last_submitted_status' = IF shifted THEN None ELSE last_submitted_status

Respond(type) ==
    secure_spi_tx' = Buffer(type, None) /\ management_response_pending' = TRUE

HandleOut ==
    \/ bus.out = "KEY_UPDATE" /\ Respond("READY") /\ rekey_in_progress' = TRUE
    \/ bus.out = "KEY_COMMIT" /\ Respond("COMMIT_ACK") /\ UNCHANGED rekey_in_progress
    \/ /\ bus.out = "KEY_CONFIRM" /\ session_established
       /\ Respond("CONFIRM_ACK") /\ rekey_in_progress' = FALSE
    \/ /\ bus.out \in {"COMMAND", "POLL"} \/ (bus.out = "KEY_CONFIRM" /\ ~session_established)
       /\ secure_spi_tx' = IF bus.in.type = "COMMIT_ACK" THEN Buffer("NONE", None) ELSE secure_spi_tx
       /\ UNCHANGED <<management_response_pending, rekey_in_progress>>

(* What the ZYBO does with the buffer's content: an answer ends the round  *)
(* that waits for it, a status waits for the decrypter.                    *)
HandleIn ==
    LET next == IF stage = "update" /\ bus.in.type = "READY" THEN "commit"
                ELSE IF stage = "commit" /\ bus.in.type = "COMMIT_ACK" THEN "switch"
                ELSE IF stage = "confirm" /\ bus.in.type = "CONFIRM_ACK" THEN "run"
                ELSE stage
    IN /\ stage' = next
       /\ asked' = (asked /\ next = stage)
       /\ hold' = IF bus.in.type = "STATUS" THEN <<bus.in.n>> ELSE hold

EndTransfer ==
    /\ bus # NoTransfer /\ bus' = NoTransfer
    /\ switching' = (switching \/ bus.in.type = "COMMIT_ACK")
    /\ ForgetSubmitted(bus.in.type = "COMMIT_ACK")
    /\ HandleOut /\ HandleIn
    /\ \/ UNCHANGED <<sealing, collided>>
       \/ bus.out \in Management /\ sealing # None /\ sealing' = None /\ collided' = TRUE
    /\ UNCHANGED <<reading, status_snapshot, session_established, fifo, enc, epochs, line, pc>>
-----------------------------------------------------------------------------
(* ZYBO.                                                                   *)

\* Mutation: a report is put before those that wait.
DecodeInFront ==
    /\ hold # <<>> /\ hold' = <<>>
    /\ fifo' = IF stage = "run" /\ Len(fifo) < FifoCap THEN hold \o fifo ELSE fifo
    /\ UNCHANGED <<reading, basys, bus, stage, asked, enc, epochs, line, pc>>

Decode ==
    /\ hold # <<>> /\ hold' = <<>>
    /\ fifo' = IF stage = "run" /\ Len(fifo) < FifoCap THEN fifo \o hold ELSE fifo
    /\ UNCHANGED <<reading, basys, bus, stage, asked, enc, epochs, line, pc>>

Seal ==
    /\ stage = "run" /\ fifo # <<>> /\ enc = <<>>
    /\ enc' = <<Head(fifo)>> /\ fifo' = Tail(fifo)
    /\ UNCHANGED <<reading, basys, bus, stage, asked, hold, epochs, line, pc>>

(* Outside G_RUN a sealed report is discarded.                             *)
Transmit ==
    /\ enc # <<>> /\ enc' = <<>>
    /\ IF stage = "run"
         THEN Len(line) < LineCap /\ line' = Append(line, Frame("REPORT", Head(enc)))
         ELSE UNCHANGED line
    /\ UNCHANGED <<reading, basys, bus, stage, asked, hold, fifo, epochs, pc>>

(* The rounds with the PC: KEY_UPDATE to begin with, KEY_CONFIRM after the *)
(* switch.                                                                 *)
BeginEpoch ==
    /\ stage = "run" /\ epochs < MaxEpochs /\ Len(line) < LineCap
    /\ epochs' = epochs + 1 /\ stage' = "pcupdate"
    /\ line' = Append(line, Frame("KEY_UPDATE", None))
    /\ UNCHANGED <<reading, basys, bus, asked, hold, fifo, enc, pc>>

ConfirmPc ==
    /\ stage = "switch" /\ stage' = "pcconfirm" /\ Len(line) < LineCap
    /\ line' = Append(line, Frame("KEY_CONFIRM", None))
    /\ UNCHANGED <<reading, basys, bus, asked, hold, fifo, enc, epochs, pc>>
-----------------------------------------------------------------------------
(* The PC's receive thread.                                                *)
PcReceive ==
    /\ line # <<>> /\ line' = Tail(line)
    /\ LET f == Head(line) IN
         \/ /\ f.type = "REPORT" /\ shown' = IF session_ready THEN f.n ELSE shown
            /\ UNCHANGED <<session_ready, stage>>
         \/ /\ f.type = "KEY_UPDATE" /\ session_ready' = FALSE /\ stage' = "update"
            /\ UNCHANGED shown
         \/ /\ f.type = "KEY_CONFIRM" /\ session_ready' = TRUE /\ stage' = "confirm"
            /\ UNCHANGED shown
    /\ UNCHANGED <<reading, basys, bus, asked, hold, fifo, enc, epochs>>

Next == \/ Measure \/ TakeSnapshot \/ Submit \/ LoadStatus \/ KeyActive
        \/ StartTransfer \/ EndTransfer
        \/ Decode \/ Seal \/ Transmit \/ BeginEpoch \/ ConfirmPc \/ PcReceive
Spec == Init /\ [][Next]_vars

(* Both boards are clocked, the PC polls every two seconds and reads.      *)
FairSpec ==
    /\ Spec
    /\ WF_vars(TakeSnapshot) /\ WF_vars(Submit) /\ WF_vars(LoadStatus) /\ WF_vars(KeyActive)
    /\ WF_vars(StartTransfer) /\ WF_vars(EndTransfer) /\ WF_vars(Decode) /\ WF_vars(Seal)
    /\ WF_vars(Transmit) /\ WF_vars(ConfirmPc) /\ WF_vars(PcReceive)
-----------------------------------------------------------------------------
(* Type invariant; a management response never waits without being in the  *)
(* transmit buffer.                                                        *)
TypeOK ==
    /\ {reading, status_snapshot} \subseteq Readings
    /\ {sealing, shown} \subseteq Readings \cup {None}
    /\ last_submitted_status \in {0, 1, None} /\ secure_spi_tx \in Buffers
    /\ {status_pending, management_response_pending, rekey_in_progress, session_established,
        switching, asked, session_ready, collided} \subseteq BOOLEAN
    /\ bus \in [out : Management \cup {"NONE", "COMMAND"}, in : Buffers]
    /\ stage \in Stages /\ epochs \in 1..MaxEpochs
    /\ hold \in Seq(Readings) /\ Len(hold) <= 1
    /\ fifo \in Seq(Readings) /\ Len(fifo) <= FifoCap
    /\ enc \in Seq(Readings) /\ Len(enc) <= 1
    /\ line \in Seq([type : {"REPORT", "KEY_UPDATE", "KEY_CONFIRM"}, n : Readings \cup {None}])
    /\ Len(line) <= LineCap
    /\ management_response_pending => secure_spi_tx.type \in Responses

(* "Always update the latest status into the SPI buffer"                   *)
(* (basys3_secure_rack_control.sv:251): between key changes, what was      *)
(* submitted last is in the transmit buffer or still in the encrypter,     *)
(* though handshake responses use the same buffer and may replace it.      *)
(* Only a status that is sealed in the very cycle in which a handshake     *)
(* frame arrives is lost for it.                                           *)
BufferHoldsLast ==
    (/\ session_established /\ ~switching /\ ~rekey_in_progress
     /\ ~management_response_pending /\ sealing = None /\ last_submitted_status # None /\ ~collided)
    => secure_spi_tx.type = "STATUS" /\ Value(secure_spi_tx.n) = last_submitted_status

(* The control room never goes back to an older reading, though reports    *)
(* are fetched repeatedly, wait in a FIFO and are dropped by key changes.  *)
NeverOlder == [][shown' # None /\ shown' >= shown]_shown

(* The value that stays is shown in the end: whatever key changes and full *)
(* queues dropped, it is read, sealed or fetched again, unless it collided.*)
ReportArrives == <>[](collided \/ (shown # None /\ Value(shown) = Value(reading)))

(* What the handshake's answers share the transmit buffer with.            *)
BufferInv == TypeOK /\ BufferHoldsLast

(* Reports come in order and the last one comes.                           *)
ReportsArrive == NeverOlder /\ ReportArrives
=============================================================================
