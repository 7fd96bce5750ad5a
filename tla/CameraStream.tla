---------------------------- MODULE CameraStream ----------------------------
(***************************************************************************)
(* tcp_camera_stream.py: the thread behind the two pictures of the monitor *)
(* page.  Channel A is decrypted with the session key, channel B with a    *)
(* master key that the operator may replace by a wrong one.  Unlike the    *)
(* face client this thread starts a key change whenever there is a new R,  *)
(* also in the middle of another one, and it connects only once.  It looks *)
(* for a new R only between two packets, and takes no lock against the UI  *)
(* thread: a frame is worked on in several steps.                          *)
(*                                                                         *)
(* The camera server is external: it is what the client expects of it, and *)
(* its socket the states Python shows of one.  The cipher is not           *)
(* authenticated: a frame under another key decodes to no picture.         *)
(***************************************************************************)
EXTENDS Naturals, Sequences, FiniteSets

CONSTANTS MaxR,       \* bound on the key changes
          MaxRepeats, \* bound on the repeated calls of update_random
          MaxFrames,  \* bound on the frames sent
          MaxFaults,  \* bound on the resets of the connection
          MaxInputs   \* bound on the calls of update_random and the frames together

ASSUME BoundsAssumption ==
    MaxR \in Nat /\ MaxRepeats \in Nat /\ MaxFrames \in Nat /\ MaxFaults \in Nat /\ MaxInputs \in Nat

VARIABLES
    phase,         \* where _run is
    current_R, pending_R, session_key, b_wrong,  \* fields; b_wrong: set_b_master_key(wrong)
    b_session_key, \* channel B's key for the frame in hand
    b_ok,          \* history: the true master key was set at some time since that frame was taken
    lost_R,        \* history: a new R was overwritten before it was seen
    last_a, last_b,                             \* the pictures: 0 for None, else the number of the frame
    net, to_server, to_client, srv_R, srv_key,  \* the connection and the server
    issued, repeats, sent, faults               \* counters of the bounds

fields == <<current_R, pending_R, session_key, b_wrong>>
inHand == <<b_session_key, b_ok>>
frames == <<last_a, last_b>>
server == <<srv_R, srv_key>>
wire   == <<net, to_server, to_client>>
bounds == <<issued, repeats, sent, faults>>
vars   == <<phase, fields, inHand, lost_R, frames, wire, server, bounds>>

Packet == [type : {32, 33, 34, 35, 36, 37, 40}, r : 0..MaxR, n : 0..MaxFrames]
Pkt(type, r) == [type |-> type, r |-> r, n |-> 0]
MasterKey == 0     \* the session key before the first key change
WrongKey == MaxR + 1   \* made of the wrong master key

(* Where _run is: the retry loop of connect, the wait for a first R, the   *)
(* initial handshake, the head of the main loop with a new R ("main"),     *)
(* _recv_frame, and in a frame: before channel A, before the test of       *)
(* b_master_key, and after it on either side.  "clear" is between the two  *)
(* statements that take a new R, "clear0" that of the first handshake.     *)
Decoding == {"channelA", "test", "same", "own"}
Phases == {"connect", "wait", "clear0", "handshake", "main", "clear", "read", "dead"} \cup Decoding

TypeOK ==
    /\ phase \in Phases
    /\ b_session_key \in 0..WrongKey /\ b_ok \in BOOLEAN /\ lost_R \in BOOLEAN
    /\ current_R \in 0..MaxR /\ pending_R \in 0..MaxR /\ session_key \in 0..MaxR
    /\ b_wrong \in BOOLEAN /\ last_a \in 0..MaxFrames /\ last_b \in 0..MaxFrames
    /\ net \in {"none", "up", "down"} /\ to_server \in Seq(Packet) /\ to_client \in Seq(Packet)
    /\ srv_R \in 0..MaxR /\ srv_key \in 0..MaxR
    /\ issued \in 0..MaxR /\ repeats \in 0..MaxRepeats /\ sent \in 0..MaxFrames /\ faults \in 0..MaxFaults

Init ==
    /\ phase = "connect" /\ net = "none" /\ to_server = <<>> /\ to_client = <<>>
    /\ current_R = 0 /\ pending_R = 0 /\ session_key = MasterKey /\ b_wrong = FALSE
    /\ b_session_key = 0 /\ b_ok = FALSE /\ lost_R = FALSE
    /\ last_a = 0 /\ last_b = 0 /\ srv_R = 0 /\ srv_key = 0
    /\ issued = 0 /\ repeats = 0 /\ sent = 0 /\ faults = 0
-----------------------------------------------------------------------------
(* The UI thread: update_random and set_b_master_key.                      *)
UpdateRandom(r) ==
    /\ pending_R' = r
    /\ lost_R' = (lost_R \/ (phase \in {"clear0", "clear"} /\ r # current_R))
    /\ UNCHANGED <<phase, current_R, session_key, b_wrong, inHand, frames, wire, server, sent, faults>>
MoreEvents == issued + repeats + sent < MaxInputs
NewR == issued < MaxR /\ MoreEvents /\ issued' = issued + 1 /\ UpdateRandom(issued + 1) /\ UNCHANGED repeats
SameRAgain == /\ issued > 0 /\ repeats < MaxRepeats /\ MoreEvents
              /\ repeats' = repeats + 1 /\ UpdateRandom(issued) /\ UNCHANGED issued

SetBMasterKey(wrong) ==
    /\ b_wrong' = wrong
    /\ b_ok' = (b_ok \/ (phase \in Decoding /\ ~wrong))
    /\ UNCHANGED <<phase, current_R, pending_R, session_key, b_session_key, lost_R, frames, wire,
                   server, bounds>>
-----------------------------------------------------------------------------
(* Retried on the same socket until it succeeds; never again afterwards.   *)
Connect ==
    /\ phase = "connect"
    /\ phase' = "wait" /\ net' = "up"
    /\ UNCHANGED <<fields, inHand, lost_R, frames, to_server, to_client, server, bounds>>

(* A new R is taken in two statements, without a lock: what update_random  *)
(* writes between them is overwritten.                                     *)
TakeR(from, next) ==
    /\ phase = from /\ pending_R # 0
    /\ current_R' = pending_R /\ phase' = next
    /\ UNCHANGED <<pending_R, session_key, b_wrong, inHand, lost_R, frames, wire, server, bounds>>
TakeFirstR == TakeR("wait", "clear0")
(* A mutant of TakeNewR. *)
TakeNewROnce == current_R = 0 /\ TakeR("main", "clear")

TakeNewR == TakeR("main", "clear")

(* KEY_UPDATE, sent outside of every try: on a broken socket the thread ends. *)
SendKeyUpdate(from, next) ==
    /\ phase = from
    /\ pending_R' = 0
    /\ phase' = IF net = "down" THEN "dead" ELSE next
    /\ to_server' = IF net = "down" THEN to_server ELSE Append(to_server, Pkt(32, current_R))
    /\ UNCHANGED <<current_R, session_key, b_wrong, inHand, lost_R, frames, net, to_client, server, bounds>>
StartHandshake == SendKeyUpdate("clear0", "handshake")
StartKeyChange == SendKeyUpdate("clear", "read")

(* The next iteration, or the first.  Without a new R the thread goes into *)
(* _recv_frame, which goes on over its timeouts until a packet has come.   *)
NextIteration == IF pending_R = 0 THEN "read" ELSE "main"

(* A broken socket reads as None: the thread goes round without a rest.    *)
ReadNothing ==
    /\ phase = "read" /\ net = "down"
    /\ phase' = NextIteration
    /\ UNCHANGED <<fields, inHand, lost_R, frames, wire, server, bounds>>

Packets(type) ==
    /\ phase \in {"handshake", "read"}
    /\ net = "up" /\ to_client # <<>> /\ Head(to_client).type = type
Receive(type) ==
    /\ Packets(type)
    /\ to_client' = Tail(to_client)
    /\ phase' = IF phase = "read" \/ type = 37 THEN NextIteration ELSE phase
    /\ UNCHANGED <<current_R, pending_R, b_wrong, inHand, lost_R, net, server, bounds>>

ReceiveReady ==
    /\ Receive(33)
    /\ to_server' = Append(to_server, Pkt(34, 0))
    /\ UNCHANGED <<session_key, frames>>

(* A mutant of ReceiveCommitAck. *)
CommitAckKeepsKey ==
    /\ Receive(35)
    /\ session_key' = IF session_key = MasterKey THEN current_R ELSE session_key
    /\ to_server' = Append(to_server, Pkt(36, current_R))
    /\ UNCHANGED frames

(* The new key is made of the latest current_R, which need not be the one  *)
(* that the server acknowledges.                                           *)
ReceiveCommitAck ==
    /\ Receive(35)
    /\ session_key' = current_R
    /\ to_server' = Append(to_server, Pkt(36, current_R))
    /\ UNCHANGED frames

ReceiveConfirmAck ==
    /\ Receive(37)
    /\ UNCHANGED <<session_key, frames, to_server>>

(* A picture; during the initial handshake it is thrown away.              *)
SkipFrame ==
    /\ phase = "handshake" /\ Receive(40)
    /\ UNCHANGED <<session_key, frames, to_server>>

(* Else the frame is in hand, here still the head of to_client, until      *)
(* channel B is written.  The key of B is made first, of b_master_key now. *)
ReceiveFrame ==
    /\ phase = "read" /\ Packets(40)
    /\ phase' = "channelA"
    /\ b_session_key' = IF b_wrong THEN WrongKey ELSE current_R
    /\ b_ok' = ~b_wrong
    /\ UNCHANGED <<fields, lost_R, frames, wire, server, bounds>>

Decode(key) == IF Head(to_client).r = key THEN Head(to_client).n ELSE 0
DecodeA ==
    /\ phase = "channelA"
    /\ phase' = "test"
    /\ last_a' = Decode(session_key)
    /\ UNCHANGED <<fields, inHand, lost_R, last_b, wire, server, bounds>>

(* b_master_key is read a second time, ...                                 *)
TestB ==
    /\ phase = "test"
    /\ phase' = IF b_wrong THEN "own" ELSE "same"
    /\ UNCHANGED <<fields, inHand, lost_R, frames, wire, server, bounds>>

WriteB(picture) ==
    /\ last_b' = picture
    /\ phase' = NextIteration /\ to_client' = Tail(to_client)
    /\ b_session_key' = 0 /\ b_ok' = FALSE
    /\ UNCHANGED <<fields, lost_R, last_a, net, to_server, server, bounds>>

(* A mutant of DecodeB. *)
DecodeBWithSession == phase \in {"same", "own"} /\ WriteB(last_a)

(* ... and channel B gets channel A's picture or one of its own key.       *)
DecodeB ==
    \/ phase = "same" /\ WriteB(last_a)
    \/ phase = "own" /\ WriteB(Decode(b_session_key))
-----------------------------------------------------------------------------
(* The server.                                                             *)
Serve(type) ==
    /\ net = "up" /\ to_server # <<>> /\ Head(to_server).type = type
    /\ to_server' = Tail(to_server)
    /\ UNCHANGED <<phase, fields, inHand, lost_R, frames, net, bounds>>
ServeKeyUpdate ==
    /\ Serve(32)
    /\ srv_R' = Head(to_server).r /\ UNCHANGED srv_key
    /\ to_client' = Append(to_client, Pkt(33, 0))
ServeCommit ==
    /\ Serve(34)
    /\ srv_key' = srv_R /\ UNCHANGED srv_R
    /\ to_client' = Append(to_client, Pkt(35, 0))
ServeConfirm ==
    /\ Serve(36)
    /\ to_client' = IF Head(to_server).r = srv_key THEN Append(to_client, Pkt(37, 0)) ELSE to_client
    /\ UNCHANGED server
SendFrame ==
    /\ net = "up" /\ srv_key # 0 /\ sent < MaxFrames /\ MoreEvents
    /\ sent' = sent + 1
    /\ to_client' = Append(to_client, [type |-> 40, r |-> srv_key, n |-> sent + 1])
    /\ UNCHANGED <<phase, fields, inHand, lost_R, frames, net, to_server, server, issued, repeats, faults>>

(* The connection breaks; what was under way is lost, but for the frame in hand. *)
Cut == net = "up" /\ faults < MaxFaults /\ faults' = faults + 1 /\ net' = "down" /\ to_server' = <<>>
Break ==
    /\ Cut
    /\ to_client' = IF phase \in Decoding THEN <<Head(to_client)>> ELSE <<>>
    /\ UNCHANGED <<phase, fields, inHand, lost_R, frames, server, issued, repeats, sent>>

(* It breaks in the payload of a packet or before the client has answered  *)
(* it.  In the main loop the exception blanks both channels; in the        *)
(* handshake it ends the thread.                                           *)
BreakInPacket ==
    /\ Cut
    /\ \E type \in {33, 35, 40} :
         /\ Packets(type)
         /\ \/ /\ phase = "read" /\ phase' = NextIteration
               /\ last_a' = 0 /\ last_b' = 0
            \/ /\ phase = "handshake" /\ type # 40 /\ phase' = "dead"
               /\ UNCHANGED frames
         /\ session_key' = IF type = 35 THEN current_R ELSE session_key
    /\ to_client' = <<>>
    /\ UNCHANGED <<current_R, pending_R, b_wrong, inHand, lost_R, server, issued, repeats, sent>>

ClientStep == \/ Connect \/ TakeFirstR \/ StartHandshake \/ TakeNewR \/ StartKeyChange
              \/ ReadNothing \/ ReceiveReady \/ ReceiveCommitAck \/ ReceiveConfirmAck
              \/ SkipFrame \/ ReceiveFrame \/ DecodeA \/ TestB \/ DecodeB
ServerStep == ServeKeyUpdate \/ ServeCommit \/ ServeConfirm
Next == NewR \/ SameRAgain \/ ClientStep \/ ServerStep \/ SendFrame \/ Break \/ BreakInPacket
        \/ \E wrong \in BOOLEAN : SetBMasterKey(wrong)

(* The two programs run; the pictures need not come.                       *)
Spec == Init /\ [][Next]_vars /\ WF_vars(ClientStep) /\ WF_vars(ServerStep)
-----------------------------------------------------------------------------
(* Whatever key changes overlapped, when none of their packets is under    *)
(* way any more both sides hold the key of the last R that was taken.      *)
OnlyFrames(q) == \A i \in 1..Len(q) : q[i].type = 40
AtRest == phase \in {"main", "read"} \cup Decoding /\ net = "up" /\ OnlyFrames(to_server) /\ OnlyFrames(to_client)
KeysAgreeAtRest == AtRest => session_key = current_R /\ srv_key = current_R

(* A new R becomes the key of the pictures, however it was interleaved     *)
(* with an earlier one.  It waits as long as no packet ends the read that  *)
(* is under way, is lost when it comes between the two statements that     *)
(* take an earlier one, and comes to nothing when the connection breaks.   *)
FollowsR == (pending_R # 0 /\ (phase # "read" \/ to_client # <<>>))
              ~> ((pending_R = 0 /\ session_key = issued) \/ lost_R \/ net = "down")

(* Channel A goes blank only while a key change is under way, or when the  *)
(* connection breaks.                                                      *)
BlankOnlyInKeyChange == [][last_a # 0 /\ last_a' = 0 => ~AtRest \/ net' = "down"]_vars

(* Channel B gets no picture that came after the wrong master key was set: *)
(* only of the frame in hand at that moment may it still show something.   *)
ChannelBBlocked == [][last_b' \notin {0, last_b} => b_ok]_vars
=============================================================================
