------------------------------ MODULE FrameSync ------------------------------
(***************************************************************************)
(* Framing on the serial line between PC and ZYBO.  There are no lengths,  *)
(* gaps or escapes: a frame is FrameSize bytes that begin with A5 5A, and  *)
(* a receiver that has lost its place searches for these two bytes.  The   *)
(* hardware receiver (rtl/secure/secure_uart_frame_rx.sv) does so a byte   *)
(* at a time, the program's (inseok_ex/secure_serial_client.py) on a       *)
(* buffer it fills in chunks.  Both are put at the end of the same line,   *)
(* fed by secure_uart_frame_tx.sv, so that they can be compared.           *)
(***************************************************************************)
EXTENDS Integers, Sequences, FiniteSetsExt, SequencesExt

CONSTANTS FrameSize,    \* 48 in the code
          Frames,       \* frames that are sent
          Noise,        \* what a damaged byte may be read as
          MaxFaults,    \* bound: bytes lost or damaged on the line
          MaxInner,     \* bound: frames that keep a receiver astray
          ChunkCap      \* bound: bytes the program may be behind the line

Magic == <<"A5", "5A">>

ASSUME FrameAssumption ==
    /\ FrameSize \in Nat /\ FrameSize > 2
    /\ {MaxFaults, MaxInner, ChunkCap} \subseteq Nat
    /\ \A f \in Frames : f \in Seq(Range(f)) /\ Len(f) = FrameSize /\ SubSeq(f, 1, 2) = Magic

VARIABLES frame, pos,       \* transmitter: packet_reg, byte_index (0: IDLE)
          faults, lost,     \* bytes damaged so far; whole frames not received
          inner,            \* frames with A5 5A inside, begun while the hardware was astray
          state, packet,    \* hardware receiver; the bytes it has collected
          missed,           \* a byte came while it held a frame
          wire,             \* bytes the program has not read yet
          rx_buffer, consuming,     \* the program's receiver
          ahead, disagree   \* frames of the hardware the program still owes

line == <<frame, pos, faults, lost, inner>>
hardware == <<state, packet, missed>>
program == <<rx_buffer, consuming, disagree>>
lineVars == <<line, hardware, wire, program, ahead>>

LineInit ==
    /\ frame \in Frames /\ pos = 0 /\ faults = 0 /\ lost = 0 /\ inner = 0
    /\ state = "WAIT_A5" /\ packet = <<>> /\ missed = FALSE
    /\ wire = <<>> /\ rx_buffer = <<>> /\ consuming = FALSE
    /\ ahead = <<>> /\ disagree = FALSE

-----------------------------------------------------------------------------
(* A mutant of Next5A. *)
Next5ANoRestart(b) == IF b = "5A" THEN [state |-> "COLLECT", packet |-> Magic]
                                  ELSE [state |-> "WAIT_A5", packet |-> <<>>]

(* The hardware receiver's next state for one byte. *)
Next5A(b) == CASE b = "5A" -> [state |-> "COLLECT", packet |-> Magic]
               [] b = "A5" -> [state |-> "WAIT_5A", packet |-> <<"A5">>]
               [] OTHER    -> [state |-> "WAIT_A5", packet |-> <<>>]

(* A mutant of Collect. *)
CollectTooMany(b) == [state  |-> IF Len(packet) = FrameSize THEN "HOLD" ELSE "COLLECT",
                      packet |-> Append(packet, b)]

Collect(b) == [state  |-> IF Len(packet) = FrameSize - 1 THEN "HOLD" ELSE "COLLECT",
               packet |-> Append(packet, b)]

After(b) ==
    CASE state = "WAIT_A5" -> IF b = "A5" THEN [state |-> "WAIT_5A", packet |-> <<b>>]
                                          ELSE [state |-> state, packet |-> packet]
      [] state = "WAIT_5A" -> Next5A(b)
      [] state = "COLLECT" -> Collect(b)
      [] state = "HOLD"    -> [state |-> state, packet |-> packet]

(* The line carries b; both receivers get it. *)
Carry(b) ==
    LET new == After(b) IN
    /\ Len(wire) < ChunkCap
    /\ wire' = Append(wire, b)
    /\ state' = new.state /\ packet' = new.packet
    /\ missed' = (missed \/ state = "HOLD")
    /\ ahead' = IF new.state = "HOLD" /\ state # "HOLD"
                THEN Append(ahead, new.packet) ELSE ahead

(* R and the sealed bytes of a frame are arbitrary: they may hold A5 5A,    *)
(* and a receiver that searches in them takes it for a beginning.          *)
PlainFrame(f) == \A i \in 2..(FrameSize - 1) : ~(f[i] = "A5" /\ f[i + 1] = "5A")

(* A frame is sent.  The hardware is astray if it is still collecting.     *)
Load(f) ==
    /\ pos = 0
    /\ frame' = f /\ pos' = 1
    /\ IF state = "COLLECT" /\ ~PlainFrame(f) THEN inner < MaxInner /\ inner' = inner + 1
                                              ELSE UNCHANGED inner
    /\ UNCHANGED <<faults, lost, hardware, wire, program, ahead>>

(* Bound: losses are counted up to one more than LossBounded allows. *)
LossCap == 2 * MaxFaults + MaxInner + 1

(* The transmitter moves on; a frame that ends and is not held is lost. *)
NextByte ==
    /\ pos > 0
    /\ pos' = (pos + 1) % (FrameSize + 1)
    /\ lost' = IF pos = FrameSize /\ ~(state' = "HOLD" /\ packet' = frame)
               THEN Min({lost + 1, LossCap}) ELSE lost
    /\ UNCHANGED <<frame, inner, program>>

SendByte ==
    /\ pos > 0 /\ state # "HOLD"
    /\ Carry(frame[pos])
    /\ NextByte
    /\ UNCHANGED faults

(* The line damages or swallows a byte, or the receiver is still in HOLD. *)
Fault == faults < MaxFaults /\ faults' = faults + 1

DamageByte(b) == Fault /\ state # "HOLD" /\ pos > 0 /\ b # frame[pos] /\ Carry(b) /\ NextByte

LoseByte == Fault /\ UNCHANGED <<hardware, wire, ahead>> /\ NextByte

SendIntoHold == Fault /\ state = "HOLD" /\ pos > 0 /\ Carry(frame[pos]) /\ NextByte

(* HOLD ends when the control unit takes the packet. *)
Take ==
    /\ state = "HOLD"
    /\ state' = "WAIT_A5" /\ packet' = <<>>
    /\ UNCHANGED <<line, missed, wire, program, ahead>>

-----------------------------------------------------------------------------
(* The program reads what is waiting and consumes it frame by frame. *)
ReadChunk ==
    /\ ~consuming /\ wire # <<>>
    /\ rx_buffer' = rx_buffer \o wire /\ wire' = <<>>
    /\ consuming' = TRUE
    /\ UNCHANGED <<line, hardware, ahead, disagree>>

MagicAt == {i \in 1..Len(rx_buffer) - 1 : SubSeq(rx_buffer, i, i + 1) = Magic}

(* A mutant of DropNoise. *)
DropNoiseWhole ==
    /\ consuming /\ MagicAt = {}
    /\ rx_buffer' = <<>> /\ consuming' = FALSE
    /\ UNCHANGED <<line, hardware, wire, ahead, disagree>>

DropNoise ==
    /\ consuming /\ MagicAt = {}
    /\ rx_buffer' = IF rx_buffer # <<>> /\ Last(rx_buffer) = "A5" THEN <<"A5">> ELSE <<>>
    /\ consuming' = FALSE
    /\ UNCHANGED <<line, hardware, wire, ahead, disagree>>

Synced == SubSeq(rx_buffer, Min(MagicAt), Len(rx_buffer))

AwaitRest ==
    /\ consuming /\ MagicAt # {} /\ Len(Synced) < FrameSize
    /\ rx_buffer' = Synced /\ consuming' = FALSE
    /\ UNCHANGED <<line, hardware, wire, ahead, disagree>>

CutFrame ==
    /\ consuming /\ MagicAt # {} /\ Len(Synced) >= FrameSize
    /\ rx_buffer' = SubSeq(Synced, FrameSize + 1, Len(Synced))
    /\ disagree' = (disagree \/ ahead = <<>> \/ Head(ahead) # SubSeq(Synced, 1, FrameSize))
    /\ ahead' = IF ahead = <<>> THEN ahead ELSE Tail(ahead)
    /\ UNCHANGED <<line, hardware, wire, consuming>>

LineNext ==
    \/ \E f \in Frames : Load(f)
    \/ SendByte
    \/ \E b \in Noise : DamageByte(b)
    \/ LoseByte
    \/ SendIntoHold
    \/ Take
    \/ ReadChunk \/ DropNoise \/ AwaitRest \/ CutFrame

LineSpec == LineInit /\ [][LineNext]_lineVars

(* The transmitter runs off the baud clock, the receiver off the FPGA's,   *)
(* the receive thread polls every 10 ms and frames are sent periodically.  *)
FairLineSpec ==
    /\ LineSpec
    /\ WF_lineVars(\E f \in Frames : Load(f)) /\ WF_lineVars(SendByte) /\ WF_lineVars(Take)
    /\ WF_lineVars(ReadChunk) /\ WF_lineVars(DropNoise \/ AwaitRest \/ CutFrame)

-----------------------------------------------------------------------------
Bytes == Noise \cup UNION {Range(f) : f \in Frames}

(* Type invariant; the receiver has collected as many bytes as its state says, *)
(* and the program keeps less than a frame between two reads.                  *)
LineTypeOK ==
    /\ frame \in Frames /\ pos \in 0..FrameSize
    /\ faults \in 0..MaxFaults /\ lost \in 0..LossCap /\ inner \in 0..MaxInner
    /\ state \in {"WAIT_A5", "WAIT_5A", "COLLECT", "HOLD"}
    /\ packet \in Seq(Bytes)
    /\ Len(packet) \in CASE state = "WAIT_A5" -> {0} [] state = "WAIT_5A" -> {1}
                         [] state = "COLLECT" -> 2..FrameSize - 1
                         [] state = "HOLD" -> {FrameSize}
    /\ wire \in Seq(Bytes) /\ Len(wire) <= ChunkCap
    /\ rx_buffer \in Seq(Bytes) /\ (~consuming => Len(rx_buffer) < FrameSize)
    /\ {missed, consuming, disagree} \subseteq BOOLEAN

(* However the line is damaged and however the program's reads cut the     *)
(* stream up, the two receivers cut the same frames out of it, true or     *)
(* false, as long as the hardware was never slow to empty HOLD.            *)
SameFrames == missed \/ (~disagree /\ (wire = <<>> /\ ~consuming => ahead = <<>>))

(* A byte lost, damaged or sent into HOLD costs at most two frames: the    *)
(* one it belongs to and the one whose beginning was taken for its rest.   *)
(* A frame with A5 5A inside that begins while the receiver is astray can  *)
(* keep it so and cost one more.                                           *)
LossBounded == /\ lost <= 2 * faults + inner
               /\ faults = 0 => lost = 0

(* Framing recovers: frames are received again after the last fault and    *)
(* the last frame that kept the receiver astray.                           *)
Resync == []<>(state = "HOLD" /\ packet \in Frames)

(* The two receivers stay one protocol: they see the same frames, and of    *)
(* those that were sent all but a few.                                     *)
FramingInv == LineTypeOK /\ SameFrames /\ LossBounded
=============================================================================
