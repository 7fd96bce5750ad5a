------------------------- MODULE ControlRoom_proofs -------------------------
(***************************************************************************)
(* The pages of the control-room UI.                                       *)
(* VideoPanel, for any number of key changes, repeats, frames and faults:  *)
(* when none of the packets of overlapping key changes is under way both   *)
(* sides of the channel hold the key of the last R, and what the panel     *)
(* shows changes only for a reason.                                        *)
(* SecurityFlow: the diagram draws its fields and follows one route.       *)
(* FaceOverlay: the card is that of the last search, for its full time.    *)
(* The three share no variable.                                            *)
(***************************************************************************)
EXTENDS VideoPanel, SecurityFlow, FaceOverlay,
        FiniteSetTheorems, WellFoundedInduction, SequenceTheorems, TLAPS


(* There is a packet of a type; every packet of A is followed by one of B. *)
Has(q, type) == \E i \in 1..Len(q) : q[i].type = type
Followed(q, A, B) ==
    \A i \in 1..Len(q) : q[i] \in A => \E j \in (i + 1)..Len(q) : q[j] \in B

Updates(r)   == {pkt \in Packet : pkt.type = 32 /\ pkt.r = r}
OldUpdates   == {pkt \in Packet : pkt.type = 32 /\ pkt.r # current_R}
OldPictures  == {pkt \in Packet : pkt.type = 40 /\ pkt.r # srv_key}
CommitAcks   == {pkt \in Packet : pkt.type = 35}

(* The phases in which the R that the client has taken has been announced. *)
Announced == {"handshake", "main", "read"} \cup Decoding

(* The last KEY_UPDATE that was sent carries current_R, and until both     *)
(* sides have its key one packet of its key change is under way.           *)
KeyOnItsWay ==
    net = "up" /\ phase \in Announced =>
      \/ Has(to_server, 32)
      \/ /\ srv_R = current_R
         /\ \/ Has(to_client, 33) \/ Has(to_server, 34)
            \/ srv_key = current_R /\ (Has(to_client, 35) \/ session_key = current_R)

(* Behind a picture under an earlier key comes the COMMIT_ACK of the next. *)
(* Of a broken connection only the frame in hand is left.                  *)
StreamInv ==
    /\ TypeOK
    /\ phase \in Announced => Followed(to_server, OldUpdates, Updates(current_R))
    /\ net = "up" => Followed(to_client, OldPictures, CommitAcks)
    /\ \A i \in 1..Len(to_client) : to_client[i].type = 40 => to_client[i].n # 0
    /\ phase \in Decoding => to_client # <<>> /\ Head(to_client).type = 40
    /\ KeyOnItsWay
    /\ net # "up" => /\ to_server = <<>>
                     /\ IF phase \in Decoding THEN Tail(to_client) = <<>> ELSE to_client = <<>>
    /\ net = "none" => phase = "connect"

(* Channel B's key for the frame in hand is a wrong one, unless the true   *)
(* key was there at some time.                                             *)
HandInv ==
    phase \in Decoding => b_ok \/ (b_wrong /\ b_session_key = WrongKey /\ phase # "same")

-----------------------------------------------------------------------------
(* Queues of packets.                                                      *)

(* Taking the first packet. *)
LEMMA TakePacket ==
    ASSUME NEW q \in Seq(Packet), q # <<>>
    PROVE  /\ Head(q) \in Packet /\ Head(q) = q[1] /\ Tail(q) \in Seq(Packet)
           /\ Len(Tail(q)) = Len(q) - 1 /\ Len(q) \in Nat \ {0}
           /\ \A i \in 1..Len(Tail(q)) : Tail(q)[i] = q[i + 1]
           /\ \A t : Has(q, t) <=> Head(q).type = t \/ Has(Tail(q), t)
  <1>1. /\ Head(q) \in Packet /\ Head(q) = q[1] /\ Tail(q) \in Seq(Packet)
        /\ Len(Tail(q)) = Len(q) - 1 /\ Len(q) \in Nat \ {0}
    OBVIOUS
  <1>2. \A i \in 1..Len(Tail(q)) : Tail(q)[i] = q[i + 1]
    OBVIOUS
  <1>3. ASSUME NEW t, Has(q, t), Head(q).type # t
        PROVE  Has(Tail(q), t)
    <2>1. PICK i \in 1..Len(q) : q[i].type = t
      BY <1>3 DEF Has
    <2>2. i - 1 \in 1..Len(Tail(q)) /\ Tail(q)[i - 1] = q[i]
      BY <1>1, <1>2, <1>3, <2>1
    <2> QED
      BY <2>1, <2>2 DEF Has
  <1>4. ASSUME NEW t, Head(q).type = t \/ Has(Tail(q), t)
        PROVE  Has(q, t)
    <2>1. CASE Head(q).type = t
      BY <2>1, <1>1 DEF Has
    <2>2. CASE Has(Tail(q), t)
      <3>1. PICK i \in 1..Len(Tail(q)) : Tail(q)[i].type = t
        BY <2>2 DEF Has
      <3>2. i + 1 \in 1..Len(q) /\ q[i + 1].type = t
        BY <3>1, <1>1, <1>2
      <3> QED
        BY <3>2 DEF Has
    <2> QED
      BY <1>4, <2>1, <2>2
  <1> QED
    BY <1>1, <1>2, <1>3, <1>4

(* Sending one. *)
LEMMA PutPacket ==
    ASSUME NEW q \in Seq(Packet), NEW e \in Packet
    PROVE  /\ Append(q, e) \in Seq(Packet) /\ Len(Append(q, e)) = Len(q) + 1 /\ Len(q) \in Nat
           /\ \A i \in 1..Len(q) : Append(q, e)[i] = q[i]
           /\ Append(q, e)[Len(q) + 1] = e
           /\ \A t : Has(Append(q, e), t) <=> Has(q, t) \/ e.type = t
  <1>1. /\ Append(q, e) \in Seq(Packet) /\ Len(Append(q, e)) = Len(q) + 1 /\ Len(q) \in Nat
        /\ \A i \in 1..Len(q) : Append(q, e)[i] = q[i]
        /\ Append(q, e)[Len(q) + 1] = e
    OBVIOUS
  <1>2. \A i \in 1..Len(Append(q, e)) : i \in 1..Len(q) \/ i = Len(q) + 1
    BY <1>1
  <1>3. \A t : Has(Append(q, e), t) <=> Has(q, t) \/ e.type = t
    BY <1>1, <1>2 DEF Has
  <1> QED
    BY <1>1, <1>3

LEMMA HasPut ==
    ASSUME NEW q \in Seq(Packet), NEW e \in Packet
    PROVE  \A t : Has(Append(q, e), t) <=> Has(q, t) \/ t = e.type
  BY PutPacket

(* What is behind a packet stays behind it ... *)
LEMMA FollowedTake ==
    ASSUME NEW q \in Seq(Packet), q # <<>>, NEW A, NEW B, Followed(q, A, B)
    PROVE  /\ Followed(Tail(q), A, B)
           /\ Head(q) \in A => \E j \in 1..Len(Tail(q)) : Tail(q)[j] \in B
  <1>1. ASSUME NEW i \in 1..Len(q), q[i] \in A
        PROVE  \E j \in i..Len(Tail(q)) : Tail(q)[j] \in B
    <2>1. PICK j \in (i + 1)..Len(q) : q[j] \in B
      BY <1>1 DEF Followed
    <2>2. j - 1 \in i..Len(Tail(q)) /\ Tail(q)[j - 1] = q[j]
      BY <2>1, TakePacket
    <2> QED
      BY <2>1, <2>2
  <1>2. Followed(Tail(q), A, B)
    <2> SUFFICES ASSUME NEW i \in 1..Len(Tail(q)), Tail(q)[i] \in A
                 PROVE  \E j \in (i + 1)..Len(Tail(q)) : Tail(q)[j] \in B
      BY DEF Followed
    <2>1. i + 1 \in 1..Len(q) /\ q[i + 1] \in A
      BY TakePacket
    <2> QED
      BY <2>1, <1>1
  <1>3. Head(q) \in A => \E j \in 1..Len(Tail(q)) : Tail(q)[j] \in B
    BY <1>1, TakePacket
  <1> QED
    BY <1>2, <1>3

(* ... a packet that need not be followed changes nothing, and one that    *)
(* others wait for comes behind all of them.                               *)
LEMMA FollowedPut ==
    ASSUME NEW q \in Seq(Packet), NEW e \in Packet, NEW A, NEW B, e \notin A,
           Followed(q, A, B) \/ e \in B
    PROVE  Followed(Append(q, e), A, B)
  <1> SUFFICES ASSUME NEW i \in 1..Len(Append(q, e)), Append(q, e)[i] \in A
               PROVE  \E j \in (i + 1)..Len(Append(q, e)) : Append(q, e)[j] \in B
    BY DEF Followed
  <1>1. i \in 1..Len(q) /\ q[i] \in A
    BY PutPacket
  <1>2. CASE e \in B
    BY <1>1, <1>2, PutPacket
  <1>3. CASE Followed(q, A, B)
    <2>1. PICK j \in (i + 1)..Len(q) : q[j] \in B
      BY <1>1, <1>3 DEF Followed
    <2> QED
      BY <2>1, <1>1, PutPacket
  <1> QED
    BY <1>2, <1>3

-----------------------------------------------------------------------------
(* The stream.                                                             *)

(* The packets that are made. *)
LEMMA PktType ==
    ASSUME NEW t \in {32, 33, 34, 35, 36, 37, 40}, NEW rr \in 0..MaxR
    PROVE  Pkt(t, rr) \in Packet /\ Pkt(t, rr).type = t /\ Pkt(t, rr).r = rr
  BY BoundsAssumption DEF Pkt, Packet

LEMMA StreamInit == Init => StreamInv
  <1> SUFFICES ASSUME Init PROVE StreamInv
    OBVIOUS
  <1>1. TypeOK
    <2>1. <<>> \in Seq(Packet) /\ \A b \in {MaxR, MaxRepeats, MaxFrames, MaxFaults, WrongKey} : 0 \in 0..b
      BY BoundsAssumption DEF WrongKey
    <2> QED
      BY <2>1 DEF Init, TypeOK, MasterKey, Phases
  <1>2. \A A, B : Followed(to_server, A, B) /\ Followed(to_client, A, B)
    BY DEF Init, Followed
  <1> QED
    BY <1>1, <1>2 DEF Init, StreamInv, KeyOnItsWay, Announced, Decoding

(* A step that sends and takes nothing, and leaves what the queues are     *)
(* compared with.                                                          *)
LEMMA StreamKept ==
    ASSUME StreamInv, TypeOK',
           UNCHANGED <<current_R, srv_R, srv_key, session_key, to_server, to_client>>,
           \/ net' = net /\ (phase = "connect" => phase' = "connect")
           \/ phase = "connect" /\ phase' = "wait" /\ net' = "up",
           phase' \in Announced => phase \in Announced,
           phase \in Decoding => phase' \in Decoding,
           phase' \in Decoding => phase \in Decoding \/ (to_client # <<>> /\ Head(to_client).type = 40 /\ net = "up")
    PROVE  StreamInv'
  <1>1. UNCHANGED <<OldUpdates, OldPictures, Updates(current_R)>>
    BY DEF OldUpdates, OldPictures, Updates
  <1>2. net' = "up" => Followed(to_client, OldPictures, CommitAcks)
    BY DEF StreamInv, Followed, Decoding
  <1> QED
    <2>1. net' = "up" => net = "up" \/ phase' = "wait"
      OBVIOUS
    <2>2. KeyOnItsWay'
      BY <2>1 DEF StreamInv, KeyOnItsWay, Has, Announced, Decoding
    <2>3. phase' \in Announced => Followed(to_server, OldUpdates, Updates(current_R))'
      BY <1>1 DEF StreamInv, Followed
    <2>4. net' = "up" => Followed(to_client, OldPictures, CommitAcks)'
      BY <1>1, <1>2 DEF Followed, CommitAcks
    <2>5. net' # "up" => net # "up" /\ net' = net
      OBVIOUS
    <2>6. /\ phase' \in Decoding => to_client' # <<>> /\ Head(to_client').type = 40
          /\ net' = "none" => phase' = "connect"
          /\ net' # "up" => /\ to_server' = <<>>
                            /\ IF phase' \in Decoding THEN Tail(to_client') = <<>> ELSE to_client' = <<>>
      BY <2>5 DEF StreamInv
    <2>7. \A i \in 1..Len(to_client') : to_client'[i].type = 40 => to_client'[i].n # 0
      BY DEF StreamInv
    <2> QED
      BY <2>2, <2>3, <2>4, <2>6, <2>7 DEF StreamInv

(* A new R is taken, and announced next.                                   *)
LEMMA TakeRStep ==
    ASSUME StreamInv, TakeFirstR \/ TakeNewR
    PROVE  StreamInv'
  <1>1. /\ phase \in {"wait", "main"} /\ phase' \in {"clear0", "clear"} /\ current_R' = pending_R
        /\ UNCHANGED <<pending_R, session_key, b_wrong, inHand, lost_R, frames, wire, server, bounds>>
    BY DEF TakeFirstR, TakeNewR, TakeR
  <1>2. TypeOK'
    BY <1>1 DEF StreamInv, TypeOK, Phases, inHand, frames, wire, server, bounds
  <1>3. UNCHANGED OldPictures
    BY <1>1 DEF OldPictures, server
  <1> QED
    BY <1>1, <1>2, <1>3 DEF StreamInv, KeyOnItsWay, Announced, Decoding, wire

LEMMA KeyUpdateStep ==
    ASSUME StreamInv, StartHandshake \/ StartKeyChange
    PROVE  StreamInv'
  <1> DEFINE e == Pkt(32, current_R)
  <1>1. TypeOK
    BY DEF StreamInv
  <1>2. /\ phase \in {"clear0", "clear"} /\ phase' \in {"handshake", "read", "dead"} /\ pending_R' = 0
        /\ IF net = "down" THEN phase' = "dead" /\ to_server' = to_server
           ELSE phase' # "dead" /\ to_server' = Append(to_server, e)
        /\ UNCHANGED <<current_R, session_key, b_wrong, inHand, lost_R, frames, net, to_client, server, bounds>>
    BY DEF StartHandshake, StartKeyChange, SendKeyUpdate
  <1>3. e \in Packet /\ e.type = 32 /\ e.r = current_R
    BY <1>1, PktType DEF TypeOK
  <1> HIDE DEF e
  <1>4. UNCHANGED OldPictures
    BY <1>2 DEF OldPictures, server
  <1>5. net = "up" \/ net = "down"
    BY <1>1, <1>2 DEF StreamInv, TypeOK
  <1>10. /\ Append(to_server, e) \in Seq(Packet) /\ to_server \in Seq(Packet)
         /\ Has(Append(to_server, e), 32)
    <2>1. to_server \in Seq(Packet)
      BY <1>1 DEF TypeOK
    <2> QED
      BY <1>3, <2>1, PutPacket
  <1>6. to_server' \in Seq(Packet)
    BY <1>2, <1>10
  <1>7. TypeOK'
    BY <1>1, <1>2, <1>6, BoundsAssumption DEF TypeOK, Phases, inHand, frames, server, bounds
  <1>8. CASE net = "down"
    BY <1>2, <1>4, <1>7, <1>8 DEF StreamInv, KeyOnItsWay, Announced, Decoding
  <1>9. CASE net = "up"
    <2>1. e \notin OldUpdates' /\ e \in Updates(current_R')
      BY <1>2, <1>3 DEF OldUpdates, Updates
    <2>2. Followed(to_server', OldUpdates', Updates(current_R'))
      BY <1>1, <1>2, <1>3, <1>9, <2>1, FollowedPut DEF TypeOK
    <2>3. Has(to_server', 32)
      BY <1>2, <1>9, <1>10
    <2> QED
      BY <1>2, <1>4, <1>7, <1>9, <2>2, <2>3 DEF StreamInv, KeyOnItsWay, Decoding
  <1> QED
    BY <1>5, <1>8, <1>9

(* The client takes a packet: READY becomes COMMIT, COMMIT_ACK the key.     *)
LEMMA ReceiveTypes ==
    ASSUME StreamInv, NEW t, Receive(t)
    PROVE  /\ TypeOK /\ net = "up" /\ to_client # <<>>
           /\ phase \in {"handshake", "read"} /\ phase' \in {"handshake", "read", "main"}
           /\ phase \in Announced /\ phase' \in Announced /\ phase' \notin Decoding /\ phase' \in Phases
           /\ to_client \in Seq(Packet) /\ Head(to_client).type = t /\ Head(to_client) \in Packet
           /\ to_client' = Tail(to_client) /\ to_client' \in Seq(Packet)
           /\ UNCHANGED <<OldUpdates, OldPictures, Updates(current_R)>>
           /\ UNCHANGED <<current_R, pending_R, b_wrong, inHand, lost_R, net, srv_R, srv_key, bounds>>
           /\ \A k : Has(to_client, k) <=> t = k \/ Has(to_client', k)
           /\ Followed(to_client', OldPictures', CommitAcks)
           /\ \A i \in 1..Len(to_client') : to_client'[i].type = 40 => to_client'[i].n # 0
  <1>1. TypeOK /\ to_client \in Seq(Packet)
    BY DEF StreamInv, TypeOK
  <1>2. /\ net = "up" /\ phase \in {"handshake", "read"} /\ to_client # <<>>
        /\ Head(to_client).type = t /\ to_client' = Tail(to_client)
        /\ phase' \in {"handshake", "read", "main"}
        /\ UNCHANGED <<current_R, pending_R, b_wrong, inHand, lost_R, net, srv_R, srv_key, bounds>>
    BY DEF Receive, Packets, NextIteration, server
  <1>7. /\ phase \in Announced /\ phase' \in Announced
        /\ phase' \notin Decoding /\ phase' \in Phases
    BY <1>2 DEF Announced, Phases, Decoding
  <1>3. UNCHANGED <<OldUpdates, OldPictures, Updates(current_R)>>
    BY <1>2 DEF OldUpdates, OldPictures, Updates
  <1>4. /\ Head(to_client) \in Packet /\ to_client' \in Seq(Packet)
        /\ \A k : Has(to_client, k) <=> t = k \/ Has(to_client', k)
    BY <1>1, <1>2, TakePacket
  <1>5. Followed(to_client', OldPictures', CommitAcks)
    BY <1>1, <1>2, <1>3, FollowedTake DEF StreamInv
  <1>6. \A i \in 1..Len(to_client') : to_client'[i].type = 40 => to_client'[i].n # 0
    BY <1>1, <1>2, TakePacket DEF StreamInv
  <1> QED
    BY <1>1, <1>2, <1>3, <1>4, <1>5, <1>6, <1>7

LEMMA ReceiveReadyStep ==
    ASSUME StreamInv, ReceiveReady
    PROVE  StreamInv'
  <1> DEFINE e == Pkt(34, 0)
  <1>1. Receive(33) /\ to_server' = Append(to_server, e) /\ UNCHANGED <<session_key, frames>>
    BY DEF ReceiveReady
  <1>2. TypeOK
    BY DEF StreamInv
  <1>3. e \in Packet /\ e.type = 34
    BY BoundsAssumption, PktType
  <1> HIDE DEF e
  <1>4. TypeOK'
    <2>1. to_server' \in Seq(Packet) /\ to_client' \in Seq(Packet)
      BY <1>1, <1>2, <1>3, ReceiveTypes, PutPacket DEF TypeOK
    <2> QED
      BY <1>1, <1>2, <2>1, ReceiveTypes DEF TypeOK, inHand, frames, bounds
  <1>5. e \notin OldUpdates'
    BY <1>3 DEF OldUpdates
  <1>6. Followed(to_server', OldUpdates', Updates(current_R'))
    <2>1. /\ to_server \in Seq(Packet) /\ to_server' = Append(to_server, e)
          /\ Followed(to_server, OldUpdates, Updates(current_R))
      BY <1>1, <1>2, ReceiveTypes DEF StreamInv, TypeOK
    <2>2. UNCHANGED <<OldUpdates, Updates(current_R)>>
      BY <1>1, ReceiveTypes
    <2> QED
      BY <1>3, <1>5, <2>1, <2>2, FollowedPut
  <1>7. \A k : Has(to_server', k) <=> Has(to_server, k) \/ k = 34
    <2>1. to_server \in Seq(Packet) /\ to_server' = Append(to_server, e)
      BY <1>1, <1>2 DEF TypeOK
    <2>2. \A k : Has(Append(to_server, e), k) <=> Has(to_server, k) \/ k = e.type
      BY <1>3, <2>1, HasPut
    <2> QED
      BY <1>3, <2>1, <2>2
  <1>8. KeyOnItsWay'
    BY <1>1, <1>7, ReceiveTypes DEF StreamInv, KeyOnItsWay
  <1> QED
    BY <1>1, <1>4, <1>6, <1>8, ReceiveTypes DEF StreamInv

LEMMA ReceiveCommitAckStep ==
    ASSUME StreamInv, ReceiveCommitAck
    PROVE  StreamInv'
  <1> DEFINE e == Pkt(36, current_R)
  <1>1. Receive(35) /\ to_server' = Append(to_server, e) /\ session_key' = current_R
        /\ UNCHANGED frames
    BY DEF ReceiveCommitAck
  <1>2. TypeOK
    BY DEF StreamInv
  <1>3. e \in Packet /\ e.type = 36
    BY <1>2, PktType DEF TypeOK
  <1> HIDE DEF e
  <1>4. TypeOK'
    <2>1. to_server' \in Seq(Packet) /\ to_client' \in Seq(Packet)
      BY <1>1, <1>2, <1>3, ReceiveTypes, PutPacket DEF TypeOK
    <2> QED
      BY <1>1, <1>2, <2>1, ReceiveTypes DEF TypeOK, inHand, frames, bounds
  <1>5. e \notin OldUpdates'
    BY <1>3 DEF OldUpdates
  <1>6. Followed(to_server', OldUpdates', Updates(current_R'))
    <2>1. /\ to_server \in Seq(Packet) /\ to_server' = Append(to_server, e)
          /\ Followed(to_server, OldUpdates, Updates(current_R))
      BY <1>1, <1>2, ReceiveTypes DEF StreamInv, TypeOK
    <2>2. UNCHANGED <<OldUpdates, Updates(current_R)>>
      BY <1>1, ReceiveTypes
    <2> QED
      BY <1>3, <1>5, <2>1, <2>2, FollowedPut
  <1>7. \A k : Has(to_server', k) <=> Has(to_server, k) \/ k = 36
    <2>1. to_server \in Seq(Packet) /\ to_server' = Append(to_server, e)
      BY <1>1, <1>2 DEF TypeOK
    <2>2. \A k : Has(Append(to_server, e), k) <=> Has(to_server, k) \/ k = e.type
      BY <1>3, <2>1, HasPut
    <2> QED
      BY <1>3, <2>1, <2>2
  <1>8. KeyOnItsWay'
    BY <1>1, <1>7, ReceiveTypes DEF StreamInv, KeyOnItsWay
  <1> QED
    BY <1>1, <1>4, <1>6, <1>8, ReceiveTypes DEF StreamInv

(* A CONFIRM_ACK, or a picture during the initial handshake. *)
LEMMA ReceiveConfirmAckStep ==
    ASSUME StreamInv, ReceiveConfirmAck \/ SkipFrame
    PROVE  StreamInv'
  <1>1. PICK t \in {37, 40} : Receive(t) /\ UNCHANGED <<session_key, frames, to_server>>
    BY DEF ReceiveConfirmAck, SkipFrame
  <1>2. TypeOK'
    BY <1>1, ReceiveTypes DEF TypeOK, inHand, frames, bounds
  <1>3. KeyOnItsWay'
    BY <1>1, ReceiveTypes DEF StreamInv, KeyOnItsWay
  <1> QED
    BY <1>1, <1>2, <1>3, ReceiveTypes DEF StreamInv

(* What a frame decodes to. *)
LEMMA DecodeType ==
    ASSUME StreamInv, phase \in Decoding
    PROVE  /\ Head(to_client) \in Packet /\ to_client # <<>> /\ Head(to_client).type = 40
           /\ \A k : Decode(k) \in 0..MaxFrames
  <1>1. to_client \in Seq(Packet) /\ to_client # <<>> /\ Head(to_client).type = 40
    BY DEF StreamInv, TypeOK
  <1>2. Head(to_client) \in Packet
    BY <1>1
  <1> QED
    BY <1>1, <1>2, BoundsAssumption DEF Decode, Packet

(* A frame is taken in hand and tried with the keys. *)
LEMMA FrameInHandSteps ==
    ASSUME StreamInv, ReceiveFrame \/ DecodeA \/ TestB
    PROVE  StreamInv'
  <1> USE DEF Announced, Decoding
  <1>1. CASE ReceiveFrame
    <2>1. WrongKey \in 0..WrongKey /\ \A k \in 0..MaxR : k \in 0..WrongKey
      BY BoundsAssumption DEF WrongKey
    <2>2. TypeOK'
      BY <1>1, <2>1 DEF ReceiveFrame, StreamInv, TypeOK, Phases, fields, frames, wire, server, bounds
    <2> QED
      BY <1>1, <2>2, StreamKept DEF ReceiveFrame, Packets, fields, wire, server
  <1>2. CASE DecodeA
    <2>1. TypeOK'
      BY <1>2, DecodeType DEF DecodeA, StreamInv, TypeOK, Phases, fields, inHand, wire, server, bounds
    <2> QED
      BY <1>2, <2>1, StreamKept DEF DecodeA, fields, wire, server
  <1>3. CASE TestB
    <2>1. TypeOK'
      BY <1>3 DEF TestB, StreamInv, TypeOK, Phases, fields, inHand, frames, wire, server, bounds
    <2> QED
      BY <1>3, <2>1, StreamKept DEF TestB, fields, wire, server
  <1> QED
    BY <1>1, <1>2, <1>3

(* Channel B is written, and the frame is done with. *)
LEMMA DecodeBStep ==
    ASSUME StreamInv, DecodeB
    PROVE  StreamInv'
  <1>1. /\ phase \in Decoding /\ phase' \in {"read", "main"} /\ to_client' = Tail(to_client)
        /\ last_b' = last_a \/ \E k : last_b' = Decode(k)
        /\ b_session_key' = 0 /\ b_ok' = FALSE
        /\ UNCHANGED <<fields, lost_R, last_a, net, to_server, server, bounds>>
    BY DEF DecodeB, WriteB, NextIteration, Decoding
  <1>2. /\ to_client \in Seq(Packet) /\ to_client # <<>> /\ Head(to_client).type = 40
        /\ phase' \in Announced /\ phase' \notin Decoding /\ phase \in Announced
    BY <1>1, DecodeType DEF StreamInv, TypeOK, Announced, Decoding
  <1>3. /\ to_client' \in Seq(Packet)
        /\ \A k : k # 40 => (Has(to_client, k) <=> Has(to_client', k))
        /\ \A i \in 1..Len(to_client') : to_client'[i].type = 40 => to_client'[i].n # 0
    BY <1>1, <1>2, TakePacket DEF StreamInv
  <1>4. TypeOK'
    <2>1. last_b' \in 0..MaxFrames
      BY <1>1, DecodeType DEF StreamInv, TypeOK
    <2>2. 0 \in 0..WrongKey
      BY BoundsAssumption DEF WrongKey
    <2> QED
      BY <1>1, <1>3, <2>1, <2>2 DEF StreamInv, TypeOK, Phases, fields, server, bounds
  <1>5. UNCHANGED <<OldUpdates, OldPictures, Updates(current_R)>>
    BY <1>1 DEF OldUpdates, OldPictures, Updates, fields, server
  <1>6. net = "up" => Followed(to_client', OldPictures, CommitAcks)
    BY <1>1, <1>2, FollowedTake DEF StreamInv
  <1>7. KeyOnItsWay'
    BY <1>1, <1>2, <1>3 DEF StreamInv, KeyOnItsWay, fields, server
  <1>8. phase' \in Announced => Followed(to_server', OldUpdates', Updates(current_R)')
    BY <1>1, <1>2, <1>5 DEF StreamInv
  <1>9. net' = "up" => Followed(to_client', OldPictures', CommitAcks)
    BY <1>1, <1>5, <1>6
  <1>10. /\ net' # "up" => to_server' = <<>> /\ to_client' = <<>>
         /\ net' # "none"
    BY <1>1 DEF StreamInv, Decoding
  <1> QED
    BY <1>2, <1>3, <1>4, <1>7, <1>8, <1>9, <1>10 DEF StreamInv, CommitAcks

(* The server takes a packet.                                              *)
LEMMA ServeTypes ==
    ASSUME StreamInv, NEW t, Serve(t)
    PROVE  /\ TypeOK /\ net = "up" /\ to_server # <<>>
           /\ to_server \in Seq(Packet) /\ Head(to_server).type = t /\ Head(to_server) \in Packet
           /\ to_server' = Tail(to_server) /\ to_server' \in Seq(Packet)
           /\ UNCHANGED <<OldUpdates, Updates(current_R)>>
           /\ UNCHANGED <<phase, fields, inHand, lost_R, frames, net, bounds>>
           /\ \A k : Has(to_server, k) <=> t = k \/ Has(to_server', k)
           /\ phase' \in Announced => Followed(to_server', OldUpdates', Updates(current_R'))
           /\ phase \in Announced /\ Head(to_server) \in OldUpdates => Has(to_server', 32)
  <1>1. TypeOK /\ to_server \in Seq(Packet)
    BY DEF StreamInv, TypeOK
  <1>2. /\ net = "up" /\ to_server # <<>>
        /\ Head(to_server).type = t /\ to_server' = Tail(to_server)
        /\ UNCHANGED <<phase, fields, inHand, lost_R, frames, net, bounds>>
    BY DEF Serve
  <1>3. UNCHANGED <<OldUpdates, Updates(current_R)>>
    BY <1>2 DEF OldUpdates, Updates, fields
  <1>4. /\ Head(to_server) \in Packet /\ to_server' \in Seq(Packet)
        /\ \A k : Has(to_server, k) <=> t = k \/ Has(to_server', k)
    BY <1>1, <1>2, TakePacket
  <1>5. phase \in Announced =>
          /\ Followed(to_server', OldUpdates, Updates(current_R))
          /\ (Head(to_server) \in OldUpdates
              => \E j \in 1..Len(to_server') : to_server'[j] \in Updates(current_R))
    BY <1>1, <1>2, FollowedTake DEF StreamInv
  <1>6. phase' \in Announced => Followed(to_server', OldUpdates', Updates(current_R'))
    BY <1>2, <1>3, <1>5
  <1>7. phase \in Announced /\ Head(to_server) \in OldUpdates => Has(to_server', 32)
    BY <1>5 DEF Has, Updates
  <1> QED
    BY <1>1, <1>2, <1>3, <1>4, <1>6, <1>7

(* The queue to the client with one more packet. *)
LEMMA AnswerTypes ==
    ASSUME StreamInv, net = "up", UNCHANGED phase, NEW e \in Packet, to_client' = Append(to_client, e),
           UNCHANGED srv_key \/ e \in CommitAcks, e \notin OldPictures', e.type = 40 => e.n # 0
    PROVE  /\ to_client' \in Seq(Packet)
           /\ \A k : Has(to_client', k) <=> Has(to_client, k) \/ e.type = k
           /\ Followed(to_client', OldPictures', CommitAcks)
           /\ \A i \in 1..Len(to_client') : to_client'[i].type = 40 => to_client'[i].n # 0
           /\ phase' \in Decoding => to_client' # <<>> /\ Head(to_client').type = 40
  <1>1. to_client \in Seq(Packet)
    BY DEF StreamInv, TypeOK
  <1>6. phase' \in Decoding => to_client' # <<>> /\ Head(to_client').type = 40
    BY <1>1 DEF StreamInv
  <1>2. /\ to_client' \in Seq(Packet)
        /\ \A k : Has(to_client', k) <=> Has(to_client, k) \/ e.type = k
    BY <1>1, PutPacket
  <1>3. Followed(to_client, OldPictures', CommitAcks) \/ e \in CommitAcks
    BY DEF StreamInv, OldPictures
  <1>4. Followed(to_client', OldPictures', CommitAcks)
    BY <1>1, <1>3, FollowedPut
  <1>5. \A i \in 1..Len(to_client') : to_client'[i].type = 40 => to_client'[i].n # 0
    BY <1>1, PutPacket DEF StreamInv
  <1> QED
    BY <1>2, <1>4, <1>5, <1>6

LEMMA ServeKeyUpdateStep ==
    ASSUME StreamInv, ServeKeyUpdate
    PROVE  StreamInv'
  <1> DEFINE e == Pkt(33, 0)
  <1>1. Serve(32) /\ srv_R' = Head(to_server).r /\ UNCHANGED srv_key /\ to_client' = Append(to_client, e)
    BY DEF ServeKeyUpdate
  <1>2. e \in Packet /\ e.type = 33
    BY BoundsAssumption, PktType
  <1> HIDE DEF e
  <1>3. e \notin OldPictures'
    BY <1>2 DEF OldPictures
  <1>4. Head(to_server).r \in 0..MaxR
    BY <1>1, ServeTypes DEF Packet
  <1>5. TypeOK'
    BY <1>1, <1>2, <1>3, <1>4, ServeTypes, AnswerTypes DEF TypeOK, fields, inHand, frames, bounds
  <1>6. phase \in Announced => Has(to_server', 32) \/ srv_R' = current_R
    BY <1>1, ServeTypes DEF OldUpdates
  <1>7. KeyOnItsWay'
    BY <1>1, <1>2, <1>3, <1>6, ServeTypes, AnswerTypes DEF KeyOnItsWay, fields
  <1> QED
    BY <1>1, <1>2, <1>3, <1>5, <1>7, ServeTypes, AnswerTypes DEF StreamInv

LEMMA ServeCommitStep ==
    ASSUME StreamInv, ServeCommit
    PROVE  StreamInv'
  <1> DEFINE e == Pkt(35, 0)
  <1>1. Serve(34) /\ srv_key' = srv_R /\ UNCHANGED srv_R /\ to_client' = Append(to_client, e)
    BY DEF ServeCommit
  <1>2. e \in Packet /\ e.type = 35
    BY BoundsAssumption, PktType
  <1> HIDE DEF e
  <1>3. e \notin OldPictures' /\ e \in CommitAcks
    BY <1>2 DEF OldPictures, CommitAcks
  <1>4. TypeOK'
    BY <1>1, <1>2, <1>3, ServeTypes, AnswerTypes DEF TypeOK, fields, inHand, frames, bounds
  <1>5. KeyOnItsWay'
    BY <1>1, <1>2, <1>3, ServeTypes, AnswerTypes DEF StreamInv, KeyOnItsWay, fields
  <1> QED
    BY <1>1, <1>2, <1>3, <1>4, <1>5, ServeTypes, AnswerTypes DEF StreamInv

LEMMA ServeConfirmStep ==
    ASSUME StreamInv, ServeConfirm
    PROVE  StreamInv'
  <1> DEFINE e == Pkt(37, 0)
  <1>1. Serve(36) /\ UNCHANGED <<srv_R, srv_key>>
    BY DEF ServeConfirm, server
  <1>2. e \in Packet /\ e.type = 37
    BY BoundsAssumption, PktType
  <1>3. to_client' = Append(to_client, e) \/ to_client' = to_client
    BY DEF ServeConfirm
  <1> HIDE DEF e
  <1>4. e \notin OldPictures' /\ UNCHANGED OldPictures
    BY <1>1, <1>2 DEF OldPictures
  <1>5. /\ to_client' \in Seq(Packet)
        /\ \A k \in {33, 35} : Has(to_client', k) <=> Has(to_client, k)
        /\ Followed(to_client', OldPictures', CommitAcks)
        /\ \A i \in 1..Len(to_client') : to_client'[i].type = 40 => to_client'[i].n # 0
        /\ phase' \in Decoding => to_client' # <<>> /\ Head(to_client').type = 40
    <2>1. CASE to_client' = Append(to_client, e)
      BY <1>1, <1>2, <1>4, <2>1, ServeTypes, AnswerTypes
    <2>2. CASE to_client' = to_client
      BY <1>1, <1>4, <2>2, ServeTypes DEF StreamInv, TypeOK
    <2> QED
      BY <1>3, <2>1, <2>2
  <1>6. TypeOK'
    BY <1>1, <1>5, ServeTypes DEF TypeOK, fields, inHand, frames, bounds
  <1>7. KeyOnItsWay'
    BY <1>1, <1>5, ServeTypes DEF StreamInv, KeyOnItsWay, fields
  <1> QED
    BY <1>1, <1>5, <1>6, <1>7, ServeTypes DEF StreamInv

LEMMA SendFrameStep ==
    ASSUME StreamInv, SendFrame
    PROVE  StreamInv'
  <1> DEFINE e == [type |-> 40, r |-> srv_key, n |-> sent + 1]
  <1>1. /\ net = "up" /\ sent < MaxFrames /\ sent' = sent + 1 /\ to_client' = Append(to_client, e)
        /\ UNCHANGED <<phase, fields, inHand, lost_R, frames, net, to_server, srv_R, srv_key, issued, repeats, faults>>
    BY DEF SendFrame, server
  <1>2. TypeOK
    BY DEF StreamInv
  <1>3. sent + 1 \in 1..MaxFrames
    BY <1>1, <1>2, BoundsAssumption DEF TypeOK
  <1>4. e \in Packet /\ e.type = 40 /\ e.r = srv_key /\ e.n # 0
    BY <1>2, <1>3 DEF Packet, TypeOK
  <1> HIDE DEF e
  <1>5. e \notin OldPictures'
    BY <1>1, <1>4 DEF OldPictures
  <1>6. UNCHANGED <<OldUpdates, Updates(current_R)>>
    BY <1>1 DEF OldUpdates, Updates, fields
  <1>7. TypeOK'
    BY <1>1, <1>2, <1>3, <1>4, <1>5, AnswerTypes DEF TypeOK, fields, inHand, frames
  <1>8. KeyOnItsWay'
    BY <1>1, <1>4, <1>5, AnswerTypes DEF StreamInv, KeyOnItsWay, fields
  <1> QED
    BY <1>1, <1>4, <1>5, <1>6, <1>7, <1>8, AnswerTypes DEF StreamInv, fields

(* Only the frame in hand outlives the connection. *)
LEMMA BreakStep ==
    ASSUME StreamInv, Break \/ BreakInPacket
    PROVE  StreamInv'
  <1>1. TypeOK /\ faults' \in 0..MaxFaults /\ net' = "down" /\ to_server' = <<>> /\ <<>> \in Seq(Packet)
    BY EmptySeq, BoundsAssumption DEF StreamInv, TypeOK, Break, BreakInPacket, Cut
  <1>2. CASE Break
    <2>1. CASE phase \in Decoding
      <3>1. Head(to_client) \in Packet /\ to_client' = <<Head(to_client)>> /\ phase' = phase
            /\ Head(to_client) = to_client[1] /\ 1 \in 1..Len(to_client) /\ Head(to_client).type = 40
        BY <1>1, <1>2, <2>1, DecodeType DEF Break, TypeOK
      <3>2. /\ to_client' \in Seq(Packet) /\ Len(to_client') = 1 /\ to_client'[1] = to_client[1]
            /\ to_client' # <<>> /\ Head(to_client') = Head(to_client) /\ Tail(to_client') = <<>>
        BY <3>1
      <3>3. TypeOK'
        BY <1>1, <1>2, <3>2 DEF TypeOK, Break, fields, inHand, frames, server
      <3>4. \A i \in 1..Len(to_client') : to_client'[i].type = 40 => to_client'[i].n # 0
        BY <3>1, <3>2 DEF StreamInv
      <3> QED
        BY <1>1, <2>1, <3>1, <3>2, <3>3, <3>4 DEF StreamInv, KeyOnItsWay, Followed
    <2>2. CASE phase \notin Decoding
      <3>1. to_client' = <<>> /\ phase' = phase
        BY <1>2, <2>2 DEF Break
      <3>2. TypeOK'
        BY <1>1, <1>2, <3>1 DEF TypeOK, Break, fields, inHand, frames, server
      <3> QED
        BY <1>1, <2>2, <3>1, <3>2 DEF StreamInv, KeyOnItsWay, Followed
    <2> QED
      BY <2>1, <2>2
  <1>3. CASE BreakInPacket
    <2>1. /\ to_client' = <<>> /\ phase' \in {"read", "main", "dead"}
          /\ last_a' \in {0, last_a} /\ last_b' \in {0, last_b} /\ session_key' \in {session_key, current_R}
          /\ UNCHANGED <<current_R, pending_R, b_wrong, inHand, lost_R, server, issued, repeats, sent>>
      BY <1>3 DEF BreakInPacket, NextIteration, frames
    <2>2. TypeOK'
      BY <1>1, <2>1, BoundsAssumption DEF TypeOK, Phases, inHand, server
    <2> QED
      BY <1>1, <2>1, <2>2 DEF StreamInv, KeyOnItsWay, Followed, Decoding
  <1> QED
    BY <1>2, <1>3

(* The steps that touch neither the queues nor the keys.                   *)
LEMMA QuietSteps ==
    ASSUME StreamInv, \/ NewR \/ SameRAgain \/ Connect \/ ReadNothing \/ UNCHANGED vars
                      \/ \E wrong \in BOOLEAN : SetBMasterKey(wrong)
    PROVE  StreamInv'
  <1>1. TypeOK
    BY DEF StreamInv
  <1>2. TypeOK'
    <2>1. CASE NewR
      BY <1>1, <2>1, BoundsAssumption
      DEF NewR, UpdateRandom, TypeOK, inHand, frames, wire, server
    <2>2. CASE SameRAgain
      BY <1>1, <2>2, BoundsAssumption
      DEF SameRAgain, UpdateRandom, TypeOK, inHand, frames, wire, server
    <2>3. CASE Connect
      BY <1>1, <2>3 DEF Connect, TypeOK, Phases, fields, inHand, frames, server, bounds
    <2>4. CASE UNCHANGED vars
      BY <1>1, <2>4 DEF vars, TypeOK, fields, inHand, frames, wire, server, bounds
    <2>5. CASE \E wrong \in BOOLEAN : SetBMasterKey(wrong)
      BY <1>1, <2>5 DEF SetBMasterKey, TypeOK, frames, wire, server, bounds
    <2>6. CASE ReadNothing
      BY <1>1, <2>6 DEF ReadNothing, NextIteration, TypeOK, Phases, fields, inHand, frames, wire,
         server, bounds
    <2> QED
      BY <2>1, <2>2, <2>3, <2>4, <2>5, <2>6
  <1>3. /\ UNCHANGED <<current_R, srv_R, srv_key, session_key, to_server, to_client>>
        /\ \/ phase' = phase /\ net' = net
           \/ phase = "connect" /\ phase' = "wait" /\ net' = "up"
           \/ phase = "read" /\ phase' \in {"read", "main"} /\ net' = net
    <2>1. CASE NewR \/ SameRAgain
      BY <2>1 DEF NewR, SameRAgain, UpdateRandom, wire, server
    <2>2. CASE Connect
      BY <2>2 DEF Connect, fields, server
    <2>3. CASE UNCHANGED vars
      BY <2>3 DEF vars, fields, wire, server
    <2>4. CASE \E wrong \in BOOLEAN : SetBMasterKey(wrong)
      BY <2>4 DEF SetBMasterKey, wire, server
    <2>5. CASE ReadNothing
      BY <2>5 DEF ReadNothing, NextIteration, fields, wire, server
    <2> QED
      BY <2>1, <2>2, <2>3, <2>4, <2>5
  <1>4. CASE phase' = phase /\ net' = net
    BY <1>2, <1>3, <1>4, StreamKept
  <1>5. CASE phase' # phase \/ net' # net
    BY <1>2, <1>3, <1>5, StreamKept DEF Announced, Decoding
  <1> QED
    BY <1>4, <1>5

LEMMA StreamNext == StreamInv /\ [Next]_vars => StreamInv'
  <1> SUFFICES ASSUME StreamInv, [Next]_vars PROVE StreamInv'
    OBVIOUS
  <1> QED
    BY QuietSteps, TakeRStep, KeyUpdateStep, ReceiveReadyStep, ReceiveCommitAckStep,
       ReceiveConfirmAckStep, FrameInHandSteps, DecodeBStep, ServeKeyUpdateStep, ServeCommitStep, ServeConfirmStep, SendFrameStep,
       BreakStep
    DEF Next, ClientStep, ServerStep

(* A frame that is shown on channel B has been in hand with the true key.  *)
LEMMA HandInit == Init => HandInv
  BY DEF Init, HandInv, Decoding

LEMMA HandNext ==
    ASSUME HandInv, [Next]_vars
    PROVE  HandInv'
  <1> USE DEF HandInv, Decoding
  <1>1. CASE ReceiveFrame
    BY <1>1 DEF ReceiveFrame, fields
  <1>2. CASE DecodeA \/ TestB
    BY <1>2 DEF DecodeA, TestB, fields, inHand
  <1>3. ASSUME NEW wrong \in BOOLEAN, SetBMasterKey(wrong)
        PROVE  HandInv'
    BY <1>3 DEF SetBMasterKey
  <1>4. CASE NewR \/ SameRAgain \/ ServerStep \/ SendFrame \/ Break \/ UNCHANGED vars
    <2>1. UNCHANGED <<phase, b_wrong, b_ok, b_session_key>>
      BY <1>4 DEF NewR, SameRAgain, UpdateRandom, ServerStep, ServeKeyUpdate, ServeCommit,
         ServeConfirm, Serve, SendFrame, Break, vars, fields, inHand
    <2> QED
      BY <2>1
  <1>5. CASE \/ Connect \/ TakeFirstR \/ StartHandshake \/ TakeNewR \/ StartKeyChange
             \/ ReadNothing \/ ReceiveReady \/ ReceiveCommitAck \/ ReceiveConfirmAck \/ SkipFrame
             \/ DecodeB \/ BreakInPacket
    <2>1. phase' \notin Decoding
      BY <1>5 DEF Connect, TakeFirstR, TakeNewR, TakeR, StartHandshake, StartKeyChange, SendKeyUpdate,
         ReadNothing, ReceiveReady, ReceiveCommitAck, ReceiveConfirmAck, SkipFrame, Receive, Packets,
         DecodeB, WriteB, NextIteration, BreakInPacket
    <2> QED
      BY <2>1
  <1> QED
    BY <1>1, <1>2, <1>3, <1>4, <1>5 DEF Next, ClientStep

(* With no packet of a key change under way every picture that is on its   *)
(* way is under the key of both sides.                                     *)
LEMMA RestingStream ==
    ASSUME StreamInv, AtRest
    PROVE  /\ session_key = current_R /\ srv_key = current_R
           /\ \A i \in 1..Len(to_client) : to_client[i].r = srv_key /\ to_client[i].n # 0
  <1>1. TypeOK /\ \A i \in 1..Len(to_client) : to_client[i] \in Packet
    BY DEF StreamInv, TypeOK
  <1>2. \A t : t # 40 => ~Has(to_server, t) /\ ~Has(to_client, t)
    BY DEF AtRest, OnlyFrames, Has
  <1>3. session_key = current_R /\ srv_key = current_R
    BY <1>2 DEF StreamInv, KeyOnItsWay, AtRest, Announced
  <1>4. ASSUME NEW i \in 1..Len(to_client), to_client[i].r # srv_key
        PROVE  FALSE
    <2>1. to_client[i] \in OldPictures
      BY <1>1, <1>4 DEF OldPictures, AtRest, OnlyFrames
    <2>2. PICK j \in (i + 1)..Len(to_client) : to_client[j] \in CommitAcks
      BY <2>1 DEF StreamInv, Followed, AtRest
    <2>3. j \in 1..Len(to_client) /\ to_client[j].type = 35
      BY <2>2 DEF CommitAcks
    <2> QED
      BY <2>3, <1>2 DEF Has
  <1> QED
    BY <1>3, <1>4 DEF StreamInv, AtRest, OnlyFrames

-----------------------------------------------------------------------------
(* The panel.                                                              *)

PanelInv == StreamInv /\ HandInv /\ PanelTypeOK /\ HealthMatchesPicture

LEMMA PanelInitInv == PanelInit => PanelInv
  <1> SUFFICES ASSUME PanelInit PROVE PanelInv
    OBVIOUS
  <1>1. StreamInv
    BY StreamInit DEF PanelInit
  <1>2. PanelTypeOK
    <2>1. /\ None \in Named \union {None} /\ 0 \in Sizes /\ 1 \in Sizes /\ 0 \in Ticks /\ 0 \in 0..1
      BY DEF Sizes, Ticks
    <2>2. /\ NoSignature \in [frame : Named \union {None}, size : Sizes, tick : Ticks]
          /\ Waiting \in [kind : {"wait", "picture", "error"}, frame : Named \union {None}, static : BOOLEAN]
      BY <2>1 DEF NoSignature, Waiting
    <2> QED
      BY <1>1, <2>1, <2>2 DEF PanelInit, Init, StreamInv, PanelTypeOK
  <1>3. HealthMatchesPicture
    BY DEF PanelInit, HealthMatchesPicture, Waiting
  <1> QED
    BY <1>1, <1>2, <1>3, HandInit DEF PanelInv, PanelInit

(* A step of the panel is one of the stream, one of the key test, or one   *)
(* of the panel alone.                                                     *)
PanelAlone == ChannelA \/ Update \/ HandleEvent \/ \E b \in BOOLEAN : ShowPage(b)
              \/ \E s \in Sizes : Resize(s)

LEMMA PanelSteps ==
    ASSUME [PanelNext]_panelVars
    PROVE  /\ [Next]_vars
           /\ \/ UNCHANGED panel /\ UNCHANGED b_wrong
              \/ PanelAlone
              \/ \E b \in BOOLEAN : SetVideoKeyMode(b)
  <1>1. CASE UNCHANGED panelVars
    BY <1>1 DEF panelVars, vars, frames, fields
  <1>2. CASE PanelAlone
    <2>1. UNCHANGED vars
      BY <1>2 DEF PanelAlone, ChannelA, Update, HandleEvent, SetSecureVideoAllowed, ShowPage, Resize
    <2> QED
      BY <1>2, <2>1
  <1>3. ASSUME NEW b \in BOOLEAN, SetVideoKeyMode(b)
        PROVE  [Next]_vars
    BY <1>3 DEF SetVideoKeyMode, Next
  <1>4. CASE \/ StreamStep(NewR) \/ StreamStep(SameRAgain) \/ StreamStep(ServerStep) \/ StreamStep(Break)
             \/ StreamStep(ClientStep) \/ StreamStep(SendFrame) \/ StreamStep(BreakInPacket)
    <2>1. [Next]_vars /\ UNCHANGED panel
      BY <1>4 DEF StreamStep, Next
    <2>2. UNCHANGED b_wrong
      BY <1>4 DEF StreamStep, NewR, SameRAgain, UpdateRandom, ServerStep, ServeKeyUpdate,
         ServeCommit, ServeConfirm, Serve, Break, BreakInPacket, fields, ClientStep, SendFrame,
         Connect, TakeFirstR, TakeNewR, TakeR, StartHandshake, StartKeyChange, SendKeyUpdate,
         ReadNothing, Receive, ReceiveReady, ReceiveCommitAck, ReceiveConfirmAck, SkipFrame,
         ReceiveFrame, DecodeA, TestB, DecodeB, WriteB
    <2> QED
      BY <2>1, <2>2
  <1> QED
    BY <1>1, <1>2, <1>3, <1>4 DEF PanelNext, UiStep, PanelAlone

LEMMA PanelTypes ==
    ASSUME PanelTypeOK
    PROVE  /\ last_b \in 0..MaxFrames /\ cctv_frame \in {None, ChA} /\ last_frame \in Named \union {None}
           /\ jpeg_error_sim \in BOOLEAN /\ size \in Sizes /\ tick \in 0..1 /\ tick \in Ticks
  <1>1. last_b \in 0..MaxFrames
    BY DEF PanelTypeOK, TypeOK
  <1>2. /\ cctv_frame \in {None, ChA} /\ last_frame \in Named \union {None}
        /\ jpeg_error_sim \in BOOLEAN /\ size \in Sizes /\ tick \in 0..1
    BY DEF PanelTypeOK
  <1>3. tick \in Ticks
    BY <1>2 DEF Ticks
  <1> QED
    BY <1>1, <1>2, <1>3

(* The frame that _update draws is one of the channels'. *)
LEMMA DrawnFrame ==
    ASSUME PanelTypeOK
    PROVE  /\ FrameToDraw \in Named \union {None}
           /\ SignatureOf(FrameToDraw) \in [frame : Named \union {None}, size : Sizes, tick : Ticks]
           /\ NoSignature \in [frame : Named \union {None}, size : Sizes, tick : Ticks]
  <1>1. FrameToDraw \in Named \union {None}
    <2>1. last_b \in Named \union {None} /\ cctv_frame \in Named \union {None}
      BY BoundsAssumption, PanelTypes DEF Named, Frames, ChA, None
    <2> QED
      BY <2>1, PanelTypes DEF FrameToDraw
  <1>2. size \in Sizes /\ 0 \in Sizes /\ tick \in Ticks /\ 0 \in Ticks
    BY PanelTypes DEF Ticks, Sizes
  <1> QED
    BY <1>1, <1>2 DEF SignatureOf, NoSignature

LEMMA UpdatePanel ==
    ASSUME PanelTypeOK, HealthMatchesPicture, TypeOK', Update
    PROVE  PanelTypeOK' /\ HealthMatchesPicture'
  <1> DEFINE drawing == FrameToDraw
  <1>1. /\ last_frame' = IF drawing = None THEN last_frame ELSE drawing
        /\ \/ drawing = None /\ DrawError
           \/ UNCHANGED <<picture, health, tick, signature, last_error>>
           \/ DrawPicture(drawing)
        /\ UNCHANGED <<b_wrong, cctv_frame, mode, active, size>>
    BY DEF Update, vars, fields
  <1>2. /\ drawing \in Named \union {None}
        /\ SignatureOf(drawing) \in [frame : Named \union {None}, size : Sizes, tick : Ticks]
        /\ NoSignature \in [frame : Named \union {None}, size : Sizes, tick : Ticks]
    BY DrawnFrame
  <1> HIDE DEF drawing
  <1>3. /\ cctv_frame' \in {None, ChA} /\ video_invalid_mode' = b_wrong' /\ video_invalid_mode' \in BOOLEAN
        /\ jpeg_error_sim' = video_invalid_mode' /\ custom_error' = jpeg_error_sim'
        /\ active' \in BOOLEAN /\ size' \in Sizes /\ last_frame' \in Named \union {None}
    BY <1>1, <1>2 DEF PanelTypeOK, mode
  <1>4. CASE UNCHANGED <<picture, health, tick, signature, last_error>>
    BY <1>3, <1>4 DEF PanelTypeOK, HealthMatchesPicture
  <1>5. CASE DrawPicture(drawing)
    <2>1. tick' \in 0..1
      <3>1. tick' = 1 \/ tick' = tick
        BY <1>5 DEF DrawPicture, Drawn
      <3> QED
        BY <3>1, PanelTypes
    <2>5. /\ signature' \in [frame : Named \union {None}, size : Sizes, tick : Ticks]
          /\ last_error' = "none"
      <3>1. 2 \in Ticks /\ signature' \in {SignatureOf(drawing), [SignatureOf(drawing) EXCEPT !.tick = 2]}
        <4>1. 2 \in Ticks
          BY DEF Ticks
        <4>2. signature' \in {SignatureOf(drawing), [SignatureOf(drawing) EXCEPT !.tick = 2]}
          BY <1>5 DEF DrawPicture, Drawn
        <4> QED
          BY <4>1, <4>2
      <3> QED
        BY <1>2, <1>5, <3>1 DEF DrawPicture, Drawn
    <2>2. picture' = [kind |-> "picture", frame |-> drawing, static |-> jpeg_error_sim]
      BY <1>5 DEF DrawPicture, ApplyKeyMismatchEffect, Plain, PanelTypeOK
    <2>3. health' = IF jpeg_error_sim THEN "KEY FAIL" ELSE "LIVE"
      BY <1>5 DEF DrawPicture
    <2>4. HealthMatchesPicture'
      BY <2>2, <2>3 DEF HealthMatchesPicture, PanelTypeOK
    <2> QED
      BY <1>2, <1>3, <2>1, <2>2, <2>3, <2>4, <2>5 DEF PanelTypeOK
  <1>6. CASE DrawError /\ ~UNCHANGED <<picture, health, tick, signature, last_error>>
    <2>1. /\ picture' = [kind |-> "error", frame |-> None, static |-> FALSE]
          /\ health' = "DECRYPT FAIL" /\ last_error' \in {"plain", "key"}
          /\ signature' = NoSignature /\ tick' = tick
      BY <1>6 DEF DrawError
    <2>2. HealthMatchesPicture'
      BY <2>1 DEF HealthMatchesPicture
    <2> QED
      BY <1>2, <1>3, <2>1, <2>2 DEF PanelTypeOK
  <1> QED
    BY <1>1, <1>4, <1>5, <1>6

(* A step of the panel that draws nothing and leaves the key test alone. *)
LEMMA PanelKept ==
    ASSUME PanelInv, StreamInv', HandInv', TypeOK',
           UNCHANGED <<b_wrong, mode, last_frame, tick, last_error, picture, health>>,
           signature' \in {signature, NoSignature},
           cctv_frame' \in {None, ChA}, active' \in BOOLEAN, size' \in Sizes
    PROVE  PanelInv'
  <1>1. PanelTypeOK /\ HealthMatchesPicture
    BY DEF PanelInv
  <1>2. signature' \in [frame : Named \union {None}, size : Sizes, tick : Ticks]
    BY <1>1, DrawnFrame DEF PanelTypeOK
  <1>3. HealthMatchesPicture'
    BY <1>1 DEF HealthMatchesPicture
  <1>4. /\ video_invalid_mode' = b_wrong' /\ video_invalid_mode' \in BOOLEAN
        /\ jpeg_error_sim' = video_invalid_mode' /\ custom_error' = jpeg_error_sim'
    BY <1>1 DEF PanelTypeOK, mode
  <1>5. PanelTypeOK'
    BY <1>1, <1>2, <1>4 DEF PanelTypeOK
  <1> QED
    BY <1>3, <1>5 DEF PanelInv

LEMMA PanelNextInv == PanelInv /\ [PanelNext]_panelVars => PanelInv'
  <1> SUFFICES ASSUME PanelInv, [PanelNext]_panelVars PROVE PanelInv'
    OBVIOUS
  <1>1. StreamInv' /\ HandInv' /\ TypeOK'
    BY PanelSteps, StreamNext, HandNext DEF PanelInv, StreamInv
  <1>2. PanelTypeOK /\ HealthMatchesPicture
    BY DEF PanelInv
  <1>0. /\ cctv_frame \in {None, ChA} /\ active \in BOOLEAN /\ size \in Sizes
        /\ jpeg_error_sim = video_invalid_mode /\ custom_error = video_invalid_mode
    BY <1>2 DEF PanelTypeOK
  <1>3. CASE Update
    BY <1>1, <1>2, <1>3, UpdatePanel DEF PanelInv
  <1>4. CASE UNCHANGED panel /\ UNCHANGED b_wrong
    BY <1>0, <1>1, <1>4, PanelKept DEF panel, render
  <1>5. CASE ChannelA \/ HandleEvent \/ (\E b \in BOOLEAN : ShowPage(b)) \/ \E s \in Sizes : Resize(s)
    <2>1. CASE ChannelA
      BY <1>0, <1>1, <2>1, PanelKept DEF ChannelA, vars, fields, render
    <2>2. CASE HandleEvent
      BY <1>0, <1>1, <2>2, PanelKept DEF HandleEvent, SetSecureVideoAllowed, vars, fields, mode
    <2>3. ASSUME NEW b \in BOOLEAN, ShowPage(b)
          PROVE  PanelInv'
      BY <1>0, <1>1, <2>3, PanelKept DEF ShowPage, vars, fields
    <2>4. ASSUME NEW s \in Sizes, Resize(s)
          PROVE  PanelInv'
      BY <1>0, <1>1, <2>4, PanelKept DEF Resize, vars, fields, render
    <2> QED
      BY <1>5, <2>1, <2>2, <2>3, <2>4
  <1>6. ASSUME NEW b \in BOOLEAN, SetVideoKeyMode(b)
        PROVE  PanelInv'
    <2>1. /\ video_invalid_mode' = b /\ jpeg_error_sim' = b /\ custom_error' = b /\ b_wrong' = b
          /\ last_frame' \in {last_frame, cctv_frame}
          /\ UNCHANGED <<cctv_frame, render, active, size>>
      BY <1>6 DEF SetVideoKeyMode, SetBMasterKey
    <2>2. last_frame' \in Named \union {None}
      BY <1>2, <2>1 DEF PanelTypeOK, Named
    <2> QED
      BY <1>1, <1>2, <2>1, <2>2 DEF PanelInv, PanelTypeOK, HealthMatchesPicture, render
  <1> QED
    BY <1>3, <1>4, <1>5, <1>6, PanelSteps DEF PanelAlone

LEMMA PanelAlways == PanelSpec => []PanelInv
  BY PanelInitInv, PanelNextInv, PTL DEF PanelSpec

(* At rest both ends of the channel hold the key of the last R, and the    *)
(* words above the picture are about the picture.                          *)
THEOREM ScreenAgrees == PanelSpec => []ScreenInv
  <1>1. PanelInv => ScreenInv
    BY RestingStream DEF PanelInv, ScreenInv, KeysAgreeAtRest
  <1> QED
    BY <1>1, PanelAlways, PTL

-----------------------------------------------------------------------------
(* What a step may not do.                                                 *)

(* With both keys equal a received frame is a picture. *)
LEMMA BlankStep ==
    ASSUME StreamInv, [Next]_vars, last_a # 0, last_a' = 0
    PROVE  ~AtRest \/ net' = "down"
  <1> SUFFICES ASSUME AtRest, net' # "down" PROVE FALSE
    OBVIOUS
  <1>1. DecodeA
    BY DEF Next, ClientStep, ServerStep, NewR, SameRAgain, UpdateRandom, SetBMasterKey, Connect,
           TakeFirstR, TakeNewR, TakeR, StartHandshake, StartKeyChange, SendKeyUpdate, ReadNothing,
           ReceiveReady, ReceiveCommitAck, ReceiveConfirmAck, SkipFrame, ReceiveFrame, TestB, DecodeB,
           WriteB, ServeKeyUpdate, ServeCommit, ServeConfirm, Serve, SendFrame, Break, BreakInPacket,
           Cut, vars, frames
  <1>2. to_client \in Seq(Packet) /\ to_client # <<>>
    BY <1>1, DecodeType DEF DecodeA, Decoding, StreamInv, TypeOK
  <1>3. Head(to_client) = to_client[1] /\ 1 \in 1..Len(to_client)
    BY <1>2, TakePacket
  <1>4. Decode(session_key) # 0
    BY <1>3, RestingStream DEF Decode
  <1> QED
    BY <1>1, <1>4 DEF DecodeA

(* Channel B is written at the end of a frame that has been in hand. *)
LEMMA BlockedStep ==
    ASSUME StreamInv, HandInv, [Next]_vars, last_b' \notin {0, last_b}
    PROVE  b_ok
  <1>1. DecodeB
    BY DEF Next, ClientStep, ServerStep, NewR, SameRAgain, UpdateRandom, SetBMasterKey, Connect,
           TakeFirstR, TakeNewR, TakeR, StartHandshake, StartKeyChange, SendKeyUpdate, ReadNothing,
           ReceiveReady, ReceiveCommitAck, ReceiveConfirmAck, SkipFrame, ReceiveFrame, DecodeA, TestB,
           ServeKeyUpdate, ServeCommit, ServeConfirm, Serve, SendFrame, Break, BreakInPacket,
           vars, frames
  <1>2. phase \in Decoding /\ (phase = "same" \/ last_b' = Decode(b_session_key))
    BY <1>1 DEF DecodeB, WriteB, Decoding
  <1>3. Decode(WrongKey) = 0
    BY <1>2, DecodeType, BoundsAssumption DEF Decode, WrongKey, Packet
  <1> QED
    BY <1>2, <1>3 DEF HandInv

(* The picture is drawn by _update alone. *)
LEMMA PictureStep ==
    ASSUME PanelTypeOK, [PanelNext]_panelVars, picture' # picture
    PROVE  /\ picture'.static => jpeg_error_sim
           /\ picture'.kind = "error" => FrameToDraw = None
  <1>1. Update
    BY PanelSteps DEF PanelAlone, ChannelA, HandleEvent, SetSecureVideoAllowed, ShowPage, Resize,
                      SetVideoKeyMode, panel, render
  <1>2. CASE FrameToDraw = None
    <2>1. picture' = [kind |-> "error", frame |-> None, static |-> FALSE]
      BY <1>1, <1>2 DEF Update, DrawError
    <2> QED
      BY <1>2, <2>1
  <1>3. CASE FrameToDraw # None
    <2>1. DrawPicture(FrameToDraw)
      BY <1>1, <1>3 DEF Update
    <2>2. picture' = [kind |-> "picture", frame |-> FrameToDraw, static |-> jpeg_error_sim]
      BY <2>1 DEF DrawPicture, ApplyKeyMismatchEffect, Plain, PanelTypeOK
    <2> QED
      BY <2>2
  <1> QED
    BY <1>2, <1>3

(* The picture goes or changes only for a reason the operator can know. *)
THEOREM ChangesHaveACause == PanelSpec => OnlyWithCause
  <1>1. PanelInv /\ [PanelNext]_panelVars => [last_a # 0 /\ last_a' = 0 => ~AtRest \/ net' = "down"]_vars
    BY PanelSteps, BlankStep DEF PanelInv
  <1>2. PanelInv /\ [PanelNext]_panelVars => [last_b' \notin {0, last_b} => b_ok]_vars
    BY PanelSteps, BlockedStep DEF PanelInv
  <1>3. PanelInv /\ [PanelNext]_panelVars
          => [picture'.static /\ ~picture.static => video_invalid_mode]_panelVars
    BY PictureStep DEF PanelInv, PanelTypeOK
  <1>4. PanelInv /\ [PanelNext]_panelVars
          => [picture'.kind = "error" /\ picture.kind # "error"
                => ~(jpeg_error_sim /\ (last_frame # None \/ cctv_frame # None))]_panelVars
    BY PictureStep DEF PanelInv, FrameToDraw
  <1>5. PanelSpec => [][PanelNext]_panelVars
    BY PTL DEF PanelSpec
  <1> QED
    BY <1>1, <1>2, <1>3, <1>4, <1>5, PanelAlways, PTL
    DEF OnlyWithCause, BlankOnlyInKeyChange, ChannelBBlocked, StaticIsManual, NeverEmptyWithFalseKey

-----------------------------------------------------------------------------
(* The diagram of the rack page.                                           *)
(* At most one animation is scheduled, what is left of it is the end of    *)
(* the route, and the stage that is lit is the one before that end.        *)
RouteLeft == jobs[1]
RouteDone == Len(route) - Len(RouteLeft)
Following ==
    jobs # <<>> => /\ Len(jobs) = 1 /\ RouteLeft # <<>> /\ RouteDone \in Nat
                   /\ \A i \in 1..Len(RouteLeft) : RouteLeft[i] = route[RouteDone + i]
                   /\ RouteDone > 0 => active_stage = route[RouteDone]

FlowInv == DiagramInv /\ Following

(* Sequences; the routes of the animations. *)
LEMMA Taking ==
    ASSUME NEW S, NEW q \in Seq(S), q # <<>>
    PROVE  /\ Head(q) \in S /\ Head(q) = q[1] /\ 1 \in 1..Len(q) /\ Len(q) \in Nat
           /\ Tail(q) \in Seq(S) /\ Len(Tail(q)) = Len(q) - 1
           /\ \A i \in 1..Len(Tail(q)) : i + 1 \in 1..Len(q) /\ Tail(q)[i] = q[i + 1]
  OBVIOUS

LEMMA Appending ==
    ASSUME NEW S, NEW q \in Seq(S), NEW e \in S
    PROVE  /\ Append(q, e) \in Seq(S) /\ Len(Append(q, e)) = Len(q) + 1 /\ Len(q) \in Nat
           /\ \A i \in 1..Len(q) : Append(q, e)[i] = q[i]
  OBVIOUS

LEMMA Single ==
    ASSUME NEW S, NEW e \in S
    PROVE  /\ <<e>> \in Seq(S) /\ Len(<<e>>) = 1 /\ <<e>>[1] = e /\ <<e>> # <<>>
           /\ <<>> \in Seq(S) /\ Len(<<>>) = 0 /\ Append(<<>>, e) = <<e>>
  OBVIOUS

LEMMA NoJobs == <<>> \in Seq(Seq(Stages)) /\ Len(<<>>) = 0
  BY EmptySeq

LEMMA Routes == {ToRack, ToDoor, OfFace} \subseteq Seq(Stages)
  <1>1. \A a, b, c, d, e, f, g \in Stages : <<a, b, c, d, e, f, g>> \in Seq(Stages)
    OBVIOUS
  <1>2. \A a, b, c, d \in Stages : <<a, b, c, d>> \in Seq(Stages)
    OBVIOUS
  <1>3. /\ {"pc_uart", "zybo_decrypt", "zybo_command", "zybo_encrypt", "basys_spi"} \subseteq Stages
        /\ {"basys_return", "pc_uart_up", "jetson_door", "jetson_ack", "jetson_face"} \subseteq Stages
    BY DEF Stages
  <1> QED
    BY <1>1, <1>2, <1>3 DEF ToRack, ToDoor, OfFace

LEMMA FlowInit ==
    ASSUME DiagramInit
    PROVE  FlowInv
  <1>1. DiagramTypeOK
    <2>1. 0 \in Randoms /\ 0 \in 0..MaxCommands /\ "" \in Stages
      BY DiagramAssumption DEF Randoms, Stages
    <2>2. sender \in [step : {"idle", "tested", "written", "read"}, key : Randoms]
      BY <2>1 DEF DiagramInit
    <2>3. /\ events \in Seq(Event) /\ Len(events) <= MaxEvents
          /\ jobs \in Seq(Seq(Stages)) /\ Len(jobs) <= 1 /\ route \in Seq(Stages)
      <3>1. events = <<>> /\ jobs = <<>> /\ route = <<>>
        BY DEF DiagramInit
      <3>2. events \in Seq(Event) /\ Len(events) = 0 /\ route \in Seq(Stages)
        BY <3>1, EmptySeq
      <3>3. jobs \in Seq(Seq(Stages)) /\ Len(jobs) = 0
        BY <3>1, NoJobs
      <3> QED
        BY <3>2, <3>3, DiagramAssumption
    <2> QED
      BY <2>1, <2>2, <2>3 DEF DiagramInit, DiagramTypeOK
  <1>2. DrawnIsCurrent /\ DarkWithFalseKey /\ Following
    BY DEF DiagramInit, DrawnIsCurrent, DarkWithFalseKey, Following
  <1> QED
    BY <1>1, <1>2 DEF FlowInv, DiagramInv

(* The client's threads: nothing of the panel changes.                     *)
LEMMA ClientSteps ==
    ASSUME FlowInv,
           \/ KeyUpdate \/ KeyCommit \/ KeyConfirm \/ ReceiveData
           \/ Send \/ EmitSent \/ SendInvalidKey
    PROVE  FlowInv' /\ UNCHANGED active_stage
  <1>1. UNCHANGED <<diagram, view>>
    BY DEF KeyUpdate, KeyCommit, KeyConfirm, ReceiveData,
       Send, EmitSent, SendInvalidKey
  <1>2. DiagramTypeOK
    BY DEF FlowInv, DiagramInv
  <1>3. /\ {epoch, current_random, tx_key, pending_random} \subseteq Randoms
        /\ 0 \in Randoms /\ (epoch < MaxEpochs => epoch + 1 \in Randoms) /\ session_ready \in BOOLEAN
        /\ sender \in [step : {"idle", "tested", "written", "read"}, key : Randoms]
    BY <1>2, DiagramAssumption DEF DiagramTypeOK, Randoms
  <1>4. UNCHANGED events \/ \E e \in Event : events' = Append(events, e) /\ Len(events) < MaxEvents
    <2>1. \A type \in {"rekeying", "secure", "crypto", "attack"}, random \in Randoms, key \in Randoms :
            Emit(type, random, key) =>
              \E e \in Event : events' = Append(events, e) /\ Len(events) < MaxEvents
      BY DEF Emit, Event
    <2>2. CASE KeyUpdate
      BY <1>3, <2>1, <2>2 DEF KeyUpdate
    <2>3. CASE KeyConfirm
      BY <1>3, <2>1, <2>3 DEF KeyConfirm
    <2>4. CASE ReceiveData \/ SendInvalidKey
      BY <1>3, <2>1, <2>4 DEF ReceiveData, SendInvalidKey
    <2>5. CASE EmitSent
      <3>1. sender.key \in Randoms
        BY <1>3
      <3> QED
        BY <1>3, <2>1, <2>5, <3>1 DEF EmitSent
    <2>6. CASE KeyCommit \/ Send
      BY <2>6 DEF KeyCommit, Send
    <2> QED
      BY <2>2, <2>3, <2>4, <2>5, <2>6
  <1>5. events' \in Seq(Event) /\ Len(events') <= MaxEvents
    <2>1. CASE UNCHANGED events
      BY <1>2, <2>1 DEF DiagramTypeOK
    <2>2. CASE \E e \in Event : events' = Append(events, e) /\ Len(events) < MaxEvents
      <3>1. PICK e \in Event : events' = Append(events, e) /\ Len(events) < MaxEvents
        BY <2>2
      <3>2. Len(events') = Len(events) + 1 /\ Len(events) \in Nat /\ events' \in Seq(Event)
        BY <1>2, <3>1, Appending DEF DiagramTypeOK
      <3> QED
        BY <3>1, <3>2, DiagramAssumption
    <2> QED
      BY <1>4, <2>1, <2>2
  <1>6. /\ session_ready' \in BOOLEAN /\ current_random' \in Randoms /\ pending_random' \in Randoms
        /\ tx_key' \in Randoms /\ epoch' \in Randoms
        /\ sender' \in [step : {"idle", "tested", "written", "read"}, key : Randoms]
    <2>1. CASE KeyUpdate
      BY <1>3, <2>1 DEF KeyUpdate
    <2>2. CASE KeyCommit \/ KeyConfirm
      BY <1>3, <2>2 DEF KeyCommit, KeyConfirm
    <2>3. CASE ReceiveData \/ SendInvalidKey
      BY <1>3, <2>3 DEF ReceiveData, SendInvalidKey, client
    <2>4. CASE Send
      BY <1>3, <2>4 DEF Send, client
    <2>5. CASE EmitSent
      BY <1>3, <2>5 DEF EmitSent, client
    <2> QED
      BY <2>1, <2>2, <2>3, <2>4, <2>5
  <1>7. DiagramTypeOK'
    BY <1>1, <1>2, <1>5, <1>6 DEF DiagramTypeOK, diagram, view
  <1>8. DrawnIsCurrent' /\ DarkWithFalseKey' /\ Following'
    BY <1>1 DEF FlowInv, DiagramInv, DrawnIsCurrent, DarkWithFalseKey,
       Following, RouteLeft, RouteDone, diagram, view
  <1> QED
    BY <1>1, <1>7, <1>8 DEF FlowInv, DiagramInv, diagram

(* An event changes the keys that are drawn and no stage. *)
LEMMA UpdateStep ==
    ASSUME FlowInv, UpdateSecurity
    PROVE  FlowInv' /\ UNCHANGED active_stage
  <1>1. DiagramTypeOK
    BY DEF FlowInv, DiagramInv
  <1>2. events \in Seq(Event) /\ events # <<>> /\ events' = Tail(events)
    BY <1>1 DEF DiagramTypeOK, UpdateSecurity
  <1>3. Head(events) \in Event /\ events' \in Seq(Event) /\ Len(events') = Len(events) - 1 /\ Len(events) \in Nat
    BY <1>2, Taking
  <1>4. random_key' \in Randoms /\ diagram_key' \in Randoms \union {Unread}
    BY <1>1, <1>3 DEF UpdateSecurity, DiagramTypeOK, Event
  <1>5. DiagramTypeOK'
    BY <1>1, <1>3, <1>4, DiagramAssumption DEF DiagramTypeOK, UpdateSecurity, client
  <1>6. DrawnIsCurrent'
    BY <1>1 DEF DrawnIsCurrent, UpdateSecurity, Redraw, DiagramTypeOK
  <1>7. DarkWithFalseKey' /\ Following' /\ UNCHANGED active_stage
    BY DEF FlowInv, DiagramInv, DarkWithFalseKey, Following, RouteLeft,
       RouteDone, UpdateSecurity
  <1> QED
    BY <1>5, <1>6, <1>7 DEF FlowInv, DiagramInv

(* A new animation takes the place of the one before it. *)
LEMMA AnimateStep ==
    ASSUME FlowInv,
           NEW stages \in {ToRack, ToDoor, OfFace}, Animate(stages)
    PROVE  FlowInv' /\ UNCHANGED active_stage
  <1>1. DiagramTypeOK /\ flow_enabled = TRUE
    BY DEF FlowInv, DiagramInv, Animate, DiagramTypeOK
  <1>2. stages \in Seq(Stages) /\ "" \in Stages
    BY Routes DEF Stages
  <1>3. /\ route' \in Seq(Stages) /\ Len(route') = Len(stages) + 1 /\ Len(stages) \in Nat
        /\ route' = Append(stages, "") /\ jobs' = <<route'>>
    <2>1. route' = Append(stages, "") /\ jobs' = Append(<<>>, route')
      BY DEF Animate, CancelJobs
    <2>2. route' \in Seq(Stages) /\ Len(route') = Len(stages) + 1 /\ Len(stages) \in Nat
      BY <1>2, <2>1, Appending
    <2>3. Append(<<>>, route') = <<route'>>
      BY <2>2, Single
    <2> QED
      BY <2>1, <2>2, <2>3
  <1>4. jobs' \in Seq(Seq(Stages)) /\ Len(jobs') = 1 /\ jobs'[1] = route' /\ jobs' # <<>>
    BY <1>3, Single
  <1>5. commands' \in 0..MaxCommands
    <2>1. commands \in 0..MaxCommands /\ commands < MaxCommands /\ commands' = commands + 1
      BY <1>1 DEF DiagramTypeOK, Animate
    <2> QED
      BY <2>1, DiagramAssumption
  <1>6. DiagramTypeOK'
    <2>1. UNCHANGED <<client, sender, events, random_key, diagram_key, active_stage, flow_enabled, view>>
      BY DEF Animate
    <2>2. Len(jobs') <= 1
      BY <1>4
    <2> QED
      BY <1>1, <1>3, <1>4, <1>5, <2>1, <2>2 DEF DiagramTypeOK, client, view
  <1>7. Following'
    <2>1. RouteLeft' = route'
      BY <1>4 DEF RouteLeft
    <2>2. Len(route') \in Nat /\ Len(route') # 0
      <3>1. Len(route') = Len(stages) + 1 /\ Len(stages) \in Nat
        BY <1>3
      <3> HIDE <1>3
      <3> QED
        BY <3>1
    <2>3. RouteDone' = 0
      BY <2>1, <2>2 DEF RouteDone
    <2>4. RouteLeft' # <<>>
      BY <1>3, <2>1, <2>2, EmptySeq
    <2>5. \A i \in 1..Len(RouteLeft') : RouteLeft'[i] = route'[RouteDone' + i]
      BY <2>1, <2>3
    <2> QED
      BY <1>4, <2>3, <2>4, <2>5 DEF Following
  <1>8. DrawnIsCurrent' /\ DarkWithFalseKey' /\ UNCHANGED active_stage
    BY <1>1 DEF FlowInv, DiagramInv, DrawnIsCurrent, DarkWithFalseKey,
       Animate, view
  <1> QED
    BY <1>6, <1>7, <1>8 DEF FlowInv, DiagramInv

(* The light moves to the first stage of what is left.                     *)
LEMMA SetStageStep ==
    ASSUME FlowInv, SetStage
    PROVE  /\ FlowInv'
           /\ \/ active_stage' = route[1]
              \/ \E i \in 2..Len(route) : active_stage = route[i - 1] /\ active_stage' = route[i]
  <1>1. DiagramTypeOK /\ Following
    BY DEF FlowInv, DiagramInv
  <1>2. PICK i \in DOMAIN jobs :
            /\ active_stage' = Head(jobs[i])
            /\ jobs' = IF Len(jobs[i]) = 1 THEN SubSeq(jobs, 1, i - 1) \o SubSeq(jobs, i + 1, Len(jobs))
                       ELSE [jobs EXCEPT ![i] = Tail(@)]
    BY DEF SetStage
  <1>3. jobs \in Seq(Seq(Stages)) /\ jobs # <<>> /\ Len(jobs) = 1 /\ i = 1 /\ route \in Seq(Stages)
    BY <1>1, <1>2 DEF DiagramTypeOK, Following
  <1>4. /\ RouteLeft \in Seq(Stages) /\ RouteLeft # <<>> /\ RouteDone \in Nat
        /\ \A k \in 1..Len(RouteLeft) : RouteLeft[k] = route[RouteDone + k]
        /\ RouteDone > 0 => active_stage = route[RouteDone]
    BY <1>1, <1>3 DEF Following, RouteLeft
  <1>5. /\ Head(RouteLeft) \in Stages /\ Head(RouteLeft) = RouteLeft[1] /\ 1 \in 1..Len(RouteLeft) /\ Len(RouteLeft) \in Nat
        /\ Tail(RouteLeft) \in Seq(Stages) /\ Len(Tail(RouteLeft)) = Len(RouteLeft) - 1
        /\ \A k \in 1..Len(Tail(RouteLeft)) : k + 1 \in 1..Len(RouteLeft) /\ Tail(RouteLeft)[k] = RouteLeft[k + 1]
    BY <1>4, Taking
  <1>6. active_stage' = route[RouteDone + 1] /\ active_stage' \in Stages /\ flow_enabled = TRUE
    BY <1>2, <1>3, <1>4, <1>5 DEF RouteLeft, FlowInv, DiagramInv,
       DarkWithFalseKey, DiagramTypeOK
  <1>7. \/ active_stage' = route[1]
        \/ \E k \in 2..Len(route) : active_stage = route[k - 1] /\ active_stage' = route[k]
    <2>1. CASE RouteDone = 0
      BY <1>6, <2>1
    <2>2. CASE RouteDone > 0
      <3>1. RouteDone + 1 \in 2..Len(route) /\ (RouteDone + 1) - 1 = RouteDone
        BY <1>3, <1>4, <1>5, <2>2 DEF RouteDone
      <3> QED
        BY <1>4, <1>6, <2>2, <3>1
    <2> QED
      BY <1>4, <2>1, <2>2
  <1>8. \/ jobs' = <<>> /\ Len(RouteLeft) = 1
        \/ jobs' = <<Tail(RouteLeft)>> /\ Tail(RouteLeft) # <<>>
    <2>1. CASE Len(RouteLeft) = 1
      <3>1. SubSeq(jobs, 1, 0) = <<>> /\ SubSeq(jobs, 2, 1) = <<>>
        BY <1>3
      <3>2. jobs' = <<>> \o <<>>
        BY <1>2, <1>3, <2>1, <3>1 DEF RouteLeft
      <3> QED
        BY <2>1, <3>2
    <2>2. CASE Len(RouteLeft) # 1
      <3>1. jobs' = [jobs EXCEPT ![1] = Tail(RouteLeft)]
        BY <1>2, <1>3, <2>2 DEF RouteLeft
      <3>2. jobs' = <<Tail(RouteLeft)>>
        BY <1>3, <1>5, <3>1
      <3>3. Len(Tail(RouteLeft)) # 0
        BY <1>5, <2>2
      <3>4. Tail(RouteLeft) # <<>>
        BY <1>5, <3>3, EmptySeq
      <3> QED
        BY <3>2, <3>4
    <2> QED
      BY <2>1, <2>2
  <1>9. UNCHANGED <<client, sender, events, random_key, diagram_key, flow_enabled, route, commands, diagram_active, refreshing>>
    BY DEF SetStage
  <1>10. jobs' \in Seq(Seq(Stages)) /\ Len(jobs') <= 1
    <2>1. CASE jobs' = <<>>
      BY <2>1, NoJobs
    <2>2. CASE jobs' = <<Tail(RouteLeft)>>
      <3>1. jobs' \in Seq(Seq(Stages)) /\ Len(jobs') = 1
        BY <1>5, <2>2, Single
      <3> QED
        BY <3>1
    <2> QED
      BY <1>8, <2>1, <2>2
  <1>11. DiagramTypeOK'
    BY <1>1, <1>6, <1>9, <1>10 DEF DiagramTypeOK, client
  <1>12. DrawnIsCurrent' /\ DarkWithFalseKey'
    BY <1>6, <1>9 DEF DrawnIsCurrent, DarkWithFalseKey, SetStage,
       Redraw
  <1>13. Following'
    <2>1. CASE jobs' = <<>>
      BY <2>1 DEF Following
    <2>2. CASE jobs' = <<Tail(RouteLeft)>> /\ Tail(RouteLeft) # <<>>
      <3>1. jobs'[1] = Tail(RouteLeft) /\ Len(jobs') = 1 /\ route' = route
        BY <1>9, <2>2
      <3>2. Len(route') - Len(jobs'[1]) = RouteDone + 1
        BY <1>3, <1>5, <3>1 DEF RouteDone
      <3>3. \A k \in 1..Len(Tail(RouteLeft)) : Tail(RouteLeft)[k] = route[(RouteDone + 1) + k]
        <4> SUFFICES ASSUME NEW k \in 1..Len(Tail(RouteLeft)) PROVE Tail(RouteLeft)[k] = route[(RouteDone + 1) + k]
          OBVIOUS
        <4>1. Tail(RouteLeft)[k] = route[RouteDone + (k + 1)]
          BY <1>4, <1>5
        <4>2. RouteDone + (k + 1) = (RouteDone + 1) + k
          BY <1>4
        <4> QED
          BY <4>1, <4>2
      <3> QED
        <4>1. RouteLeft' = Tail(RouteLeft) /\ RouteDone' = RouteDone + 1 /\ RouteLeft' # <<>> /\ Len(jobs') = 1
          BY <2>2, <3>1, <3>2 DEF RouteLeft, RouteDone
        <4>2. active_stage' = route'[RouteDone']
          BY <1>6, <3>1, <4>1
        <4>3. RouteDone' \in Nat
          BY <1>4, <4>1
        <4>4. \A k \in 1..Len(RouteLeft') : RouteLeft'[k] = route'[RouteDone' + k]
          BY <3>1, <3>3, <4>1
        <4> QED
          BY <4>1, <4>2, <4>3, <4>4 DEF Following
    <2> QED
      BY <1>8, <2>1, <2>2
  <1> QED
    BY <1>7, <1>11, <1>12, <1>13 DEF FlowInv, DiagramInv

(* The false key puts the light out and cancels what is left. *)
LEMMA ModeStep ==
    ASSUME FlowInv, NEW enabled \in BOOLEAN, SetFlowEnabled(enabled)
    PROVE  FlowInv' /\ (active_stage' = active_stage \/ active_stage' = "")
  <1>1. DiagramTypeOK
    BY DEF FlowInv, DiagramInv
  <1>2. UNCHANGED <<client, sender, events, random_key, diagram_key, route, commands, diagram_active, refreshing>>
        /\ flow_enabled' = enabled
    BY DEF SetFlowEnabled
  <1>3. \/ enabled /\ UNCHANGED <<jobs, active_stage>>
        \/ ~enabled /\ jobs' = <<>> /\ active_stage' = ""
    BY DEF SetFlowEnabled
  <1>4. jobs' \in Seq(Seq(Stages)) /\ Len(jobs') <= 1 /\ active_stage' \in Stages
    <2>1. CASE enabled /\ UNCHANGED <<jobs, active_stage>>
      BY <1>1, <2>1 DEF DiagramTypeOK
    <2>2. CASE ~enabled /\ jobs' = <<>> /\ active_stage' = ""
      <3>1. jobs' \in Seq(Seq(Stages)) /\ Len(jobs') = 0
        BY <2>2, NoJobs
      <3> QED
        <4>1. active_stage' \in Stages
          BY <2>2 DEF Stages
        <4>2. Len(jobs') <= 1
          BY <3>1
        <4> QED
          BY <3>1, <4>1, <4>2
    <2> QED
      BY <1>3, <2>1, <2>2
  <1>5. DiagramTypeOK'
    BY <1>1, <1>2, <1>4 DEF DiagramTypeOK, client
  <1>6. DrawnIsCurrent' /\ DarkWithFalseKey'
    <2>1. DarkWithFalseKey'
      BY <1>2, <1>3 DEF DarkWithFalseKey
    <2>2. drawn' = IF diagram_active THEN Picture(random_key, diagram_key, active_stage') ELSE drawn
      BY DEF SetFlowEnabled, Redraw
    <2>3. DrawnIsCurrent'
      BY <1>2, <2>2 DEF DrawnIsCurrent
    <2> QED
      BY <2>1, <2>3
  <1>7. Following'
    BY <1>2, <1>3 DEF FlowInv, Following, RouteLeft, RouteDone
  <1> QED
    BY <1>3, <1>5, <1>6, <1>7 DEF FlowInv, DiagramInv

(* Changes of the page: the canvas alone. *)
LEMMA PageStep ==
    ASSUME FlowInv, Refresh \/ ShowRackPage(TRUE) \/ ShowRackPage(FALSE)
    PROVE  FlowInv' /\ UNCHANGED active_stage
  <1>1. DiagramTypeOK /\ DrawnIsCurrent
    BY DEF FlowInv, DiagramInv
  <1>2. UNCHANGED <<client, sender, events, diagram>>
    BY DEF Refresh, ShowRackPage
  <1>3. diagram_active' \in BOOLEAN /\ refreshing' \in BOOLEAN
    BY <1>1 DEF DiagramTypeOK, Refresh, ShowRackPage
  <1>4. DiagramTypeOK'
    BY <1>1, <1>2, <1>3 DEF DiagramTypeOK, client, diagram
  <1>5. DrawnIsCurrent'
    BY <1>1, <1>2 DEF DrawnIsCurrent, DiagramTypeOK, Refresh, ShowRackPage,
       Redraw, diagram
  <1>6. DarkWithFalseKey' /\ Following' /\ UNCHANGED active_stage
    BY <1>2 DEF FlowInv, DiagramInv, DarkWithFalseKey, Following, RouteLeft,
       RouteDone, diagram
  <1> QED
    BY <1>4, <1>5, <1>6 DEF FlowInv, DiagramInv

(* What LightFollowsRoute says of a step. *)
FollowsRoute ==
    active_stage' # active_stage =>
        \/ active_stage' = "" \/ active_stage' = route[1]
        \/ \E i \in 2..Len(route) : active_stage = route[i - 1] /\ active_stage' = route[i]

LEMMA FlowNext ==
    FlowInv /\ [DiagramNext]_diagramVars => FlowInv' /\ FollowsRoute
  <1> SUFFICES ASSUME FlowInv, [DiagramNext]_diagramVars PROVE FlowInv' /\ FollowsRoute
    OBVIOUS
  <1>1. CASE UNCHANGED diagramVars
    BY <1>1 DEF FlowInv, DiagramInv, DiagramTypeOK, DrawnIsCurrent,
       DarkWithFalseKey, Following, RouteLeft, RouteDone,
                FollowsRoute, diagramVars, client, diagram, view
  <1>2. CASE \/ KeyUpdate \/ KeyCommit \/ KeyConfirm \/ ReceiveData
             \/ Send \/ EmitSent \/ SendInvalidKey
    BY <1>2, ClientSteps DEF FollowsRoute
  <1>3. CASE UpdateSecurity
    BY <1>3, UpdateStep DEF FollowsRoute
  <1>4. CASE SetStage
    BY <1>4, SetStageStep DEF FollowsRoute
  <1>5. CASE Refresh \/ ShowRacks \/ ShowRackPage(FALSE)
    BY <1>5, PageStep DEF FollowsRoute, ShowRacks
  <1>6. CASE \E stages \in {ToRack, ToDoor, OfFace} : Animate(stages)
    BY <1>6, AnimateStep DEF FollowsRoute
  <1>7. CASE \E enabled \in BOOLEAN : SetFlowEnabled(enabled)
    BY <1>7, ModeStep DEF FollowsRoute
  <1> QED
    BY <1>1, <1>2, <1>3, <1>4, <1>5, <1>6, <1>7 DEF DiagramNext

LEMMA FlowAlways == DiagramSpec => []FlowInv
  BY FlowInit, FlowNext, PTL DEF DiagramSpec

(* The diagram draws what its fields say, or a redraw is due, and with the *)
(* false key nothing is lit or scheduled.                                  *)
THEOREM DiagramCorrect == DiagramSpec => []DiagramInv
  BY FlowAlways, PTL DEF FlowInv

(* The light follows the route of the last command. *)
THEOREM OneRoute == DiagramSpec => LightFollowsRoute
  <1>1. FlowInv /\ [DiagramNext]_diagramVars => [FollowsRoute]_diagramVars
    BY FlowNext
  <1> QED
    BY <1>1, FlowAlways, PTL DEF DiagramSpec, LightFollowsRoute, FollowsRoute

-----------------------------------------------------------------------------
(* The Face-ID card of the monitor page.                                   *)
(* The card and its timers: a hidden card has none; of a card that is      *)
(* shown one hide_face job is scheduled, the one the page remembers, and   *)
(* it runs when the card has had its time.                                 *)
CardHidden == /\ overlay = NoCard /\ frame = "none" /\ anim_jobs = {}
          /\ hide_jobs = {} /\ hide_job = -1 /\ shown_for = 0
CardShown  == /\ overlay # NoCard /\ (anim_jobs = {} \/ \E job : anim_jobs = {job})
          /\ hide_job \in 0..Seconds /\ hide_jobs = {hide_job} /\ shown_for = Seconds - hide_job
CardTimers == CardHidden \/ CardShown

LEMMA TimersInit == CardInit => CardTimers
  BY DEF CardInit, CardTimers, CardHidden

(* A card that is shown has the timer of its own and no other. *)
LEMMA ShowFaceShows ==
    ASSUME CardTimers, NEW user, NEW ok, NEW event, ShowFace(user, ok, event)
    PROVE  CardShown'
  <1>1. overlay' # NoCard
    <2>1. "ok" \in DOMAIN overlay'
      BY DEF ShowFace
    <2>2. "ok" \notin DOMAIN NoCard
      BY DEF NoCard
    <2> QED
      BY <2>1, <2>2
  <1>2. anim_jobs' = {} \/ \E job : anim_jobs' = {job}
    BY DEF ShowFace, StartAnimation
  <1>3. hide_job' = Seconds /\ hide_jobs' = {Seconds} /\ shown_for' = 0
    BY DEF ShowFace, CardTimers, CardHidden, CardShown
  <1>4. Seconds \in Nat
    BY CardAssumption
  <1> QED
    <2>1. hide_job' \in 0..Seconds /\ shown_for' = Seconds - hide_job' /\ hide_jobs' = {hide_job'}
      BY <1>3, <1>4
    <2> QED
      BY <1>1, <1>2, <2>1 DEF CardShown

(* Searches show a card or leave it alone. *)
LEMMA PollKeeps ==
    ASSUME CardTimers, NEW gen, NEW user, NEW ok, NEW left, NEW others,
           PollForMatch(gen, user, ok, left, others)
    PROVE  CardTimers' /\ (overlay # NoCard => overlay' # NoCard)
  <1>1. CASE UNCHANGED overlay_v
    BY <1>1 DEF overlay_v, CardTimers, CardHidden, CardShown
  <1>2. CASE \E event : ShowFace(user, ok, event)
    BY <1>2, ShowFaceShows DEF CardTimers, CardShown
  <1> QED
    BY <1>1, <1>2 DEF PollForMatch

LEMMA SearchSteps ==
    ASSUME CardTimers, NEW user, NEW ok, HandleFace(user, ok) \/ DemoFace(user, ok) \/ PollAgain
    PROVE  CardTimers' /\ (overlay # NoCard => overlay' # NoCard)
  <1>1. CASE UNCHANGED overlay_v
    BY <1>1 DEF overlay_v, CardTimers, CardHidden, CardShown
  <1>2. CASE \E gen, u, k, left, others : PollForMatch(gen, u, k, left, others)
    BY <1>2, PollKeeps
  <1>3. CASE \E event : ShowFace(user, ok, event)
    BY <1>3, ShowFaceShows DEF CardTimers, CardShown
  <1>4. HandleFace(user, ok) => UNCHANGED overlay_v \/ \E gen, u, k, left, others : PollForMatch(gen, u, k, left, others)
    BY DEF HandleFace
  <1>5. DemoFace(user, ok) => UNCHANGED overlay_v \/ \E event : ShowFace(user, ok, event)
    BY DEF DemoFace
  <1>6. PollAgain => UNCHANGED overlay_v \/ \E gen, u, k, left, others : PollForMatch(gen, u, k, left, others)
    BY DEF PollAgain
  <1> QED
    BY <1>1, <1>2, <1>3, <1>4, <1>5, <1>6

(* The jobs of the timer: one animation, one hide_face, one clock. *)
LEMMA RenderStep ==
    ASSUME CardTimers, Render
    PROVE  CardTimers' /\ UNCHANGED overlay
  <1>1. PICK job \in anim_jobs : anim_jobs' = anim_jobs \ {job} \/ \E next : anim_jobs' = (anim_jobs \ {job}) \union {next}
    BY DEF Render
  <1>2. CardShown /\ anim_jobs = {job}
    BY <1>1 DEF CardTimers, CardHidden, CardShown
  <1>3. anim_jobs' = {} \/ \E next : anim_jobs' = {next}
    BY <1>1, <1>2
  <1>4. UNCHANGED <<overlay, hide_job, hide_jobs, shown_for>>
    BY DEF Render
  <1> QED
    BY <1>2, <1>3, <1>4 DEF CardTimers, CardShown

LEMMA HideStep ==
    ASSUME CardTimers, HideFace
    PROVE  CardTimers' /\ shown_for = Seconds
  <1>1. CardShown /\ hide_job = 0
    BY DEF HideFace, CardTimers, CardHidden, CardShown
  <1>2. hide_jobs' = {} /\ hide_job' = -1 /\ shown_for' = 0 /\ overlay' = NoCard /\ anim_jobs' = {} /\ frame' = "none"
    BY <1>1 DEF HideFace, StopAnimation, CardShown
  <1> QED
    BY <1>1, <1>2, CardAssumption DEF CardTimers, CardHidden, CardShown

LEMMA TickStep ==
    ASSUME CardTimers, Tick
    PROVE  CardTimers' /\ UNCHANGED overlay
  <1>1. /\ UNCHANGED <<overlay, frame, anim_jobs>> /\ 0 \notin hide_jobs
        /\ hide_jobs' = {left - 1 : left \in hide_jobs}
        /\ hide_job' = IF hide_job > 0 THEN hide_job - 1 ELSE hide_job
        /\ shown_for' = IF overlay = NoCard \/ shown_for = Seconds THEN shown_for ELSE shown_for + 1
    BY DEF Tick
  <1>2. CASE CardHidden
    BY <1>1, <1>2 DEF CardTimers, CardHidden
  <1>3. CASE CardShown
    <2>1. hide_job \in 1..Seconds /\ hide_job' = hide_job - 1 /\ shown_for # Seconds
      BY <1>1, <1>3, CardAssumption DEF CardShown
    <2>2. hide_jobs' = {hide_job'}
      BY <1>1, <1>3, <2>1 DEF CardShown
    <2>3. shown_for' = Seconds - hide_job' /\ hide_job' \in 0..Seconds
      BY <1>1, <1>3, <2>1, CardAssumption DEF CardShown
    <2> QED
      BY <1>1, <1>3, <2>2, <2>3 DEF CardTimers, CardShown
  <1> QED
    BY <1>1, <1>2, <1>3 DEF CardTimers

LEMMA TimersNext ==
    CardTimers /\ [CardNext]_cardVars => CardTimers' /\ (overlay # NoCard /\ overlay' = NoCard => shown_for = Seconds)
  <1> SUFFICES ASSUME CardTimers, [CardNext]_cardVars
               PROVE  CardTimers' /\ (overlay # NoCard /\ overlay' = NoCard => shown_for = Seconds)
    OBVIOUS
  <1>1. CASE UNCHANGED overlay_v
    BY <1>1 DEF overlay_v, CardTimers, CardHidden, CardShown
  <1>2. CASE \E p \in {"monitor", "racks"} : ChangePage(p)
    BY <1>1, <1>2 DEF ChangePage
  <1>3. CASE \E user \in Users, ok \in BOOLEAN : Face(user, ok) \/ \E image \in BOOLEAN : ReceiveTcp(user, ok, image)
    <2> PICK user \in Users, ok \in BOOLEAN : Face(user, ok) \/ \E image \in BOOLEAN : ReceiveTcp(user, ok, image)
      BY <1>3
    <2>1. CASE Face(user, ok)
      BY <2>1, SearchSteps DEF Face
    <2>2. CASE \E image \in BOOLEAN : ReceiveTcp(user, ok, image)
      BY <1>1, <2>2 DEF ReceiveTcp
    <2> QED
      BY <2>1, <2>2
  <1>4. CASE PollAgain
    BY <1>4, SearchSteps
  <1>5. CASE Render \/ Tick
    BY <1>5, RenderStep, TickStep
  <1>6. CASE HideFace
    BY <1>6, HideStep
  <1> QED
    BY <1>1, <1>2, <1>3, <1>4, <1>5, <1>6 DEF CardNext, Timers, cardVars

LEMMA TimersAlways == CardSpec => []CardTimers
  BY TimersInit, TimersNext, PTL DEF CardSpec

(* No animation outlives its card. *)
THEOREM NoAnimationOutlives ==
    CardSpec => []NoAnimationWhenHidden
  <1>1. CardTimers => NoAnimationWhenHidden
    BY DEF CardTimers, CardHidden, CardShown, NoAnimationWhenHidden
  <1> QED
    BY <1>1, TimersAlways, PTL

(* A card stays for its full time unless a later one replaces it. *)
THEOREM FullTime == CardSpec => StaysFullTime
  <1>1. CardTimers /\ [CardNext]_cardVars => [overlay # NoCard /\ overlay' = NoCard => shown_for = Seconds]_cardVars
    BY TimersNext
  <1> QED
    BY <1>1, TimersAlways, PTL DEF CardSpec, StaysFullTime

(* A set of numbers that is not empty has a least element. *)
LEMMA Least ==
    ASSUME NEW T \in SUBSET Nat, T # {}
    PROVE  \E x \in T : \A y \in T : x <= y
  <1> DEFINE Below == {0..n : n \in T}
  <1>1. \A n \in T : IsFiniteSet(0..n)
    BY FS_Interval
  <1>2. Below \subseteq FiniteSubsetsOf(Nat) /\ Below # {}
    <2>1. \A n \in T : 0..n \in FiniteSubsetsOf(Nat)
      <3> TAKE n \in T
      <3>1. 0..n \subseteq Nat /\ IsFiniteSet(0..n)
        BY <1>1
      <3> QED
        BY <3>1 DEF FiniteSubsetsOf
    <2> QED
      BY <2>1
  <1>3. \E x \in Below : \A y \in Below : ~(<<y, x>> \in StrictSubsetOrdering(Nat))
    <2> HIDE DEF Below
    <2> QED
      BY <1>2, FS_StrictSubsetOrderingWellFounded, WFMin
  <1>4. PICK n \in T : \A m \in T : ~(<<0..m, 0..n>> \in StrictSubsetOrdering(Nat))
    BY <1>3
  <1>5. ASSUME NEW m \in T PROVE n <= m
    <2> SUFFICES ASSUME m < n PROVE FALSE
      OBVIOUS
    <2>1. 0..m \subseteq 0..n /\ n \in 0..n /\ n \notin 0..m /\ 0..n \subseteq Nat
      OBVIOUS
    <2> QED
      BY <1>4, <2>1 DEF StrictSubsetOrdering
  <1> QED
    BY <1>5

(* The queue of the TCP events: none is younger than one behind it. *)
Falling(q) == \A i, j \in 1..Len(q) : i < j => q[i].age >= q[j].age
TcpOK == event_queue \in Seq(TcpEvent) /\ pending_events \in Seq(TcpEvent) /\ Falling(Received)

(* What was received, by position. *)
LEMMA ReceivedIs ==
    ASSUME event_queue \in Seq(TcpEvent), pending_events \in Seq(TcpEvent)
    PROVE  /\ Received \in Seq(TcpEvent) /\ Len(Received) = Len(pending_events) + Len(event_queue)
           /\ \A i \in 1..Len(Received) :
                Received[i] = IF i <= Len(pending_events) THEN pending_events[i]
                              ELSE event_queue[i - Len(pending_events)]
  BY DEF Received

LEMMA Ages == ASSUME NEW e \in TcpEvent PROVE e.age \in Nat /\ e.age <= Fresh + 1 /\ Fresh \in Nat
  BY CardAssumption DEF TcpEvent

(* The stale events are the first of what was received ... *)
LEMMA StaleFirst ==
    ASSUME TcpOK
    PROVE  /\ Stale \in 0..Len(Received)
           /\ \A i \in 1..Len(Received) : i <= Stale <=> Received[i].age > Fresh
  <1> DEFINE Kept == {i \in 1..Len(Received) : Received[i].age <= Fresh} \union {Len(Received) + 1}
  <1>1. Received \in Seq(TcpEvent) /\ Len(Received) \in Nat /\ DOMAIN Received = 1..Len(Received)
    BY ReceivedIs DEF TcpOK
  <1>2. \A i \in 1..Len(Received) : Received[i].age \in Nat /\ Fresh \in Nat
    BY <1>1, Ages
  <1>3. PICK first \in Kept : \A i \in Kept : first <= i
    <2>1. Kept \in SUBSET Nat /\ Kept # {}
      BY <1>1
    <2> HIDE DEF Kept
    <2> QED
      BY <2>1, Least
  <1>4. first \in 1..(Len(Received) + 1)
    BY <1>1
  <1>5. ASSUME NEW i \in 1..Len(Received) PROVE i <= first - 1 <=> Received[i].age > Fresh
    <2>1. CASE i < first
      <3>1. i \notin Kept
        BY <1>1, <1>3, <1>4, <2>1
      <3> QED
        BY <1>2, <1>4, <2>1, <3>1
    <2>2. CASE i = first
      <3>1. Received[i].age <= Fresh
        BY <1>1, <2>2
      <3> QED
        BY <1>2, <1>4, <2>2, <3>1
    <2>3. CASE i > first
      <3>1. first \in 1..Len(Received) /\ Received[first].age <= Fresh
        BY <1>1, <1>4, <2>3
      <3>2. Received[first].age >= Received[i].age
        BY <2>3, <3>1 DEF TcpOK, Falling
      <3> QED
        BY <1>2, <1>4, <2>3, <3>1, <3>2
    <2> QED
      BY <1>1, <1>4, <2>1, <2>2, <2>3
  <1>6. \E n \in 0..Len(Received) : \A i \in 1..Len(Received) : i <= n <=> Received[i].age > Fresh
    <2>1. first - 1 \in 0..Len(Received)
      BY <1>1, <1>4
    <2> QED
      BY <1>5, <2>1
  <1> QED
    BY <1>1, <1>6 DEF Stale

(* ... and what is behind them is fresh. *)
LEMMA FreshAre ==
    ASSUME TcpOK
    PROVE  /\ FreshEvents \in Seq(TcpEvent) /\ Falling(FreshEvents)
           /\ \A i \in 1..Len(FreshEvents) : FreshEvents[i].age <= Fresh
  <1>1. Received \in Seq(TcpEvent) /\ Len(Received) \in Nat
    BY ReceivedIs DEF TcpOK
  <1>2. /\ FreshEvents \in Seq(TcpEvent) /\ Len(FreshEvents) = Len(Received) - Stale
        /\ \A i \in 1..Len(FreshEvents) : FreshEvents[i] = Received[Stale + i]
    BY <1>1, StaleFirst DEF FreshEvents
  <1>3. \A i \in 1..Len(FreshEvents) : Stale + i \in 1..Len(Received) /\ ~(Stale + i <= Stale)
    <2>1. Stale \in Nat /\ Stale <= Len(Received)
      BY <1>1, StaleFirst
    <2> QED
      BY <1>1, <1>2, <2>1
  <1>4. \A i \in 1..Len(FreshEvents) : FreshEvents[i].age <= Fresh
    <2> TAKE i \in 1..Len(FreshEvents)
    <2>1. ~(Received[Stale + i].age > Fresh)
      BY <1>3, StaleFirst
    <2>2. Received[Stale + i] \in TcpEvent
      BY <1>1, <1>3
    <2> QED
      BY <1>2, <2>1, <2>2, Ages
  <1>5. Falling(FreshEvents)
    <2> SUFFICES ASSUME NEW i \in 1..Len(FreshEvents), NEW j \in 1..Len(FreshEvents), i < j
                 PROVE  FreshEvents[i].age >= FreshEvents[j].age
      BY DEF Falling
    <2>1. Stale + i < Stale + j
      BY StaleFirst, <1>1
    <2>2. Received[Stale + i].age >= Received[Stale + j].age
      BY <1>3, <2>1 DEF Falling, TcpOK
    <2> QED
      BY <1>2, <2>2
  <1> QED
    BY <1>2, <1>4, <1>5

(* Two sequences, one behind the other. *)
LEMMA Joined ==
    ASSUME NEW S, NEW a \in Seq(S), NEW b \in Seq(S)
    PROVE  /\ a \o b \in Seq(S) /\ Len(a \o b) = Len(a) + Len(b)
           /\ \A i \in 1..Len(a \o b) : (a \o b)[i] = IF i <= Len(a) THEN a[i] ELSE b[i - Len(a)]
  OBVIOUS

(* Without the event of the card the rest keeps its order. *)
LEMMA OneRemoved ==
    ASSUME NEW q \in Seq(TcpEvent), Falling(q), NEW k \in 1..Len(q)
    PROVE  RemoveAt(q, k) \in Seq(TcpEvent) /\ Falling(RemoveAt(q, k))
  <1> DEFINE p == RemoveAt(q, k)
  <1>1. /\ p \in Seq(TcpEvent) /\ Len(p) = Len(q) - 1 /\ Len(q) \in Nat
        /\ \A i \in 1..Len(p) : p[i] = IF i < k THEN q[i] ELSE q[i + 1]
    <2> DEFINE a == SubSeq(q, 1, k - 1)
               b == SubSeq(q, k + 1, Len(q))
    <2>1. a \in Seq(TcpEvent) /\ Len(a) = k - 1 /\ \A i \in 1..Len(a) : a[i] = q[i]
      OBVIOUS
    <2>2. b \in Seq(TcpEvent) /\ Len(b) = Len(q) - k /\ \A i \in 1..Len(b) : b[i] = q[k + i]
      OBVIOUS
    <2>3. p = a \o b
      BY DEF RemoveAt
    <2> HIDE DEF a, b, p
    <2>4. /\ p \in Seq(TcpEvent) /\ Len(p) = Len(a) + Len(b)
          /\ \A i \in 1..Len(p) : p[i] = IF i <= Len(a) THEN a[i] ELSE b[i - Len(a)]
      BY <2>1, <2>2, <2>3, Joined
    <2>5. Len(p) = Len(q) - 1 /\ Len(q) \in Nat /\ k \in Nat
      BY <2>1, <2>2, <2>4
    <2>6. ASSUME NEW i \in 1..Len(p) PROVE p[i] = IF i < k THEN q[i] ELSE q[i + 1]
      <3>1. CASE i < k
        BY <2>1, <2>4, <2>5, <3>1
      <3>2. CASE i >= k
        <4>1. PICK j \in 1..Len(b) : p[i] = b[j] /\ j = i - Len(a)
          BY <2>1, <2>2, <2>4, <2>5, <3>2
        <4>2. k + j = i + 1
          BY <2>1, <2>5, <4>1
        <4>3. b[j] = q[k + j]
          BY <2>2
        <4> QED
          BY <3>2, <2>5, <4>1, <4>2, <4>3
      <3> QED
        BY <2>5, <3>1, <3>2
    <2> QED
      BY <2>4, <2>5, <2>6
  <1>2. \A i, j \in 1..Len(p) : i < j => p[i].age >= p[j].age
    <2> TAKE i, j \in 1..Len(p)
    <2> HAVE i < j
    <2>1. PICK a \in 1..Len(q) : p[i] = q[a] /\ a = IF i < k THEN i ELSE i + 1
      BY <1>1
    <2>2. PICK b \in 1..Len(q) : p[j] = q[b] /\ b = IF j < k THEN j ELSE j + 1
      BY <1>1
    <2>3. a < b
      BY <1>1, <2>1, <2>2
    <2> QED
      BY <2>1, <2>2, <2>3 DEF Falling
  <1> QED
    BY <1>1, <1>2 DEF Falling

(* All that was received is in pending_events. *)
LEMMA OnlyPending ==
    ASSUME pending_events' \in Seq(TcpEvent), Falling(pending_events'), event_queue' = <<>>
    PROVE  TcpOK'
  <1>1. event_queue' \in Seq(TcpEvent)
    BY EmptySeq
  <1>2. Received' = pending_events'
    BY DEF Received
  <1> QED
    BY <1>1, <1>2 DEF TcpOK

(* The newest of the matching events is one of the fresh ones. *)
LEMMA NewestIs ==
    ASSUME TcpOK, NEW user, NEW ok, Matches(user, ok) # {}
    PROVE  Newest(Matches(user, ok)) \in 1..Len(FreshEvents)
  <1> DEFINE M == Matches(user, ok)
             Above == {Len(FreshEvents) - i : i \in M}
  <1>1. M \subseteq 1..Len(FreshEvents) /\ Len(FreshEvents) \in Nat
    BY FreshAre DEF Matches
  <1>2. PICK x \in Above : \A y \in Above : x <= y
    <2>1. Above \in SUBSET Nat /\ Above # {}
      BY <1>1
    <2> HIDE DEF Above
    <2> QED
      BY <2>1, Least
  <1>3. PICK i \in M : x = Len(FreshEvents) - i
    OBVIOUS
  <1>4. \A j \in M : j <= i
    <2> TAKE j \in M
    <2>1. Len(FreshEvents) - j \in Above
      OBVIOUS
    <2>2. x <= Len(FreshEvents) - j
      BY <1>2, <2>1
    <2>3. i \in Nat /\ j \in Nat /\ Len(FreshEvents) \in Nat
      BY <1>1
    <2> HIDE DEF M, Above
    <2> QED
      BY <1>3, <2>2, <2>3
  <1>5. Newest(M) \in M
    BY <1>4 DEF Newest
  <1> QED
    BY <1>1, <1>5

(* The searches: those of this generation look for the identity asked for. *)
SearchOK ==
    /\ page \in {"monitor", "racks"}
    /\ faces \in 0..MaxFaces /\ generation \in 0..faces
    /\ (asked = NoCard \/ asked \in Identity) /\ search \subseteq Job
    /\ \A job \in search : job.gen = generation => asked = [user |-> job.user, ok |-> job.ok]

(* The card and its animation. *)
CardOK ==
    /\ (overlay = NoCard \/ overlay \in Card) /\ tint \in {"none", "red"}
    /\ frame \in {"none", "still", "moving", "final"}
    /\ anim_generation \in Nat /\ anim_jobs \subseteq [gen : 0..anim_generation, step : 1..(MotionFrames - 1)]

CardKept == CardTimers /\ TcpOK /\ SearchOK /\ CardOK

LEMMA KeptInit == CardInit => CardKept
  <1> SUFFICES ASSUME CardInit PROVE CardKept
    OBVIOUS
  <1>1. TcpOK
    <2>1. <<>> \in Seq(TcpEvent) /\ Len(<<>>) = 0
      BY EmptySeq
    <2>2. Received = <<>> /\ event_queue \in Seq(TcpEvent) /\ pending_events \in Seq(TcpEvent)
      BY <2>1 DEF CardInit, Received
    <2> QED
      BY <2>1, <2>2 DEF TcpOK, Falling
  <1>2. SearchOK
    BY CardAssumption DEF CardInit, SearchOK
  <1>3. CardOK
    BY DEF CardInit, CardOK
  <1> QED
    BY <1>1, <1>2, <1>3, TimersInit DEF CardKept

(* A card that is shown carries the identity and the age of its event. *)
LEMMA ShowFaceOK ==
    ASSUME CardOK, NEW user \in Users, NEW ok \in BOOLEAN, NEW event,
           event.age \in 0..(Fresh + 1), ShowFace(user, ok, event)
    PROVE  CardOK' /\ overlay' \in Card /\ overlay'.user = user /\ overlay'.ok = ok /\ overlay'.age = event.age
  <1> DEFINE green == ok /\ user \in Registered
  <1>1. overlay' = [user |-> user, ok |-> ok, green |-> green, age |-> event.age]
    BY DEF ShowFace
  <1>2. green \in BOOLEAN
    OBVIOUS
  <1>3. StartAnimation(green, event.image)
    BY DEF ShowFace
  <1> HIDE DEF green
  <1>4. overlay' \in Card /\ overlay'.user = user /\ overlay'.ok = ok /\ overlay'.age = event.age
    BY <1>1, <1>2 DEF Card
  <1>5. anim_generation' \in Nat /\ anim_generation' = anim_generation + 1
    BY <1>3 DEF StartAnimation, CardOK
  <1>6. tint' \in {"none", "red"} /\ frame' \in {"none", "still", "moving", "final"}
    BY <1>3 DEF StartAnimation, CardOK
  <1>7. anim_jobs' \subseteq [gen : 0..anim_generation', step : 1..(MotionFrames - 1)]
    <2>1. anim_jobs' = {} \/ (MotionFrames # 1 /\ anim_jobs' = {[gen |-> anim_generation', step |-> 1]})
      BY <1>3 DEF StartAnimation
    <2>2. MotionFrames \in Nat \ {0}
      BY CardAssumption
    <2> QED
      BY <1>5, <2>1, <2>2
  <1> QED
    BY <1>4, <1>5, <1>6, <1>7 DEF CardOK

(* A card shown by a search is that of its identity, with a fresh event. *)
LEMMA PollOK ==
    ASSUME CardKept, NEW gen \in 0..MaxFaces, NEW user \in Users, NEW ok \in BOOLEAN,
           NEW left \in 0..Deadline, NEW others, PollForMatch(gen, user, ok, left, others)
    PROVE  /\ TcpOK' /\ CardOK'
           /\ search' = others \/ search' = others \union {[gen |-> gen, user |-> user, ok |-> ok, left |-> left]}
           /\ UNCHANGED overlay \/ (overlay'.user = user /\ overlay'.ok = ok /\ overlay'.age <= Fresh)
  <1> DEFINE M == Matches(user, ok)
             k == Newest(M)
  <1>1. TcpOK /\ CardOK
    BY DEF CardKept
  <1>2. event_queue' = <<>>
    BY DEF PollForMatch
  <1>3. CASE M # {}
    <2>1. k \in 1..Len(FreshEvents)
      BY <1>1, <1>3, NewestIs
    <2>2. /\ pending_events' = RemoveAt(FreshEvents, k) /\ ShowFace(user, ok, FreshEvents[k])
          /\ search' = others
      BY <1>3 DEF PollForMatch
    <2> HIDE DEF M, k
    <2>3. pending_events' \in Seq(TcpEvent) /\ Falling(pending_events')
      BY <1>1, <2>1, <2>2, FreshAre, OneRemoved
    <2>4. FreshEvents[k] \in TcpEvent /\ FreshEvents[k].age <= Fresh
      BY <1>1, <2>1, FreshAre
    <2>5. FreshEvents[k].age \in 0..(Fresh + 1)
      BY <2>4 DEF TcpEvent
    <2>6. /\ CardOK' /\ overlay' \in Card /\ overlay'.user = user /\ overlay'.ok = ok
          /\ overlay'.age = FreshEvents[k].age
      BY <1>1, <2>2, <2>5, ShowFaceOK
    <2> QED
      BY <1>2, <2>2, <2>3, <2>4, <2>6, OnlyPending
  <1>4. CASE M = {}
    <2>1. /\ pending_events' = FreshEvents /\ UNCHANGED overlay_v
          /\ search' = others \/ search' = others \union {[gen |-> gen, user |-> user, ok |-> ok, left |-> left]}
      BY <1>4 DEF PollForMatch
    <2>2. TcpOK'
      BY <1>1, <1>2, <2>1, FreshAre, OnlyPending
    <2>3. CardOK'
      BY <1>1, <2>1 DEF CardOK, overlay_v
    <2> QED
      BY <2>1, <2>2, <2>3 DEF overlay_v
  <1> QED
    BY <1>3, <1>4

(* The parts an action leaves alone. *)
LEMMA Untouched ==
    ASSUME CardKept
    PROVE  /\ UNCHANGED tcp_v => TcpOK'
           /\ UNCHANGED <<page, faces, search_v>> => SearchOK'
           /\ UNCHANGED <<overlay, tint, frame, anim_generation, anim_jobs>> => CardOK'
  <1>1. UNCHANGED tcp_v => TcpOK'
    BY DEF CardKept, TcpOK, tcp_v, Received
  <1>2. UNCHANGED <<page, faces, search_v>> => SearchOK'
    BY DEF CardKept, SearchOK, search_v
  <1>3. UNCHANGED <<overlay, tint, frame, anim_generation, anim_jobs>> => CardOK'
    BY DEF CardKept, CardOK
  <1> QED
    BY <1>1, <1>2, <1>3

(* A new event comes behind the older ones. *)
LEMMA ReceiveTcpKeeps ==
    ASSUME CardKept, NEW user \in Users, NEW ok \in BOOLEAN, NEW image \in BOOLEAN,
           ReceiveTcp(user, ok, image)
    PROVE  TcpOK' /\ SearchOK' /\ CardOK' /\ UNCHANGED overlay
  <1> DEFINE e == [user |-> user, ok |-> ok, image |-> image, age |-> 0]
  <1>1. e \in TcpEvent /\ e.age = 0
    BY CardAssumption DEF TcpEvent
  <1>2. event_queue' = Append(event_queue, e) /\ UNCHANGED <<page, pending_events, search_v, overlay_v, faces>>
    BY DEF ReceiveTcp
  <1> HIDE DEF e
  <1>3. /\ Received \in Seq(TcpEvent) /\ Len(Received) \in Nat
        /\ Received' \in Seq(TcpEvent) /\ Len(Received') = Len(Received) + 1
        /\ \A i \in 1..Len(Received') : Received'[i] = IF i <= Len(Received) THEN Received[i] ELSE e
    <2>1. /\ Len(pending_events) \in Nat /\ Len(event_queue) \in Nat
          /\ event_queue' \in Seq(TcpEvent) /\ Len(event_queue') = Len(event_queue) + 1
          /\ \A i \in 1..Len(event_queue') :
               event_queue'[i] = IF i <= Len(event_queue) THEN event_queue[i] ELSE e
      BY <1>1, <1>2 DEF CardKept, TcpOK
    <2>2. /\ Received' \in Seq(TcpEvent) /\ Len(Received') = Len(pending_events) + Len(event_queue')
          /\ \A i \in 1..Len(Received') :
               Received'[i] = IF i <= Len(pending_events) THEN pending_events[i]
                              ELSE event_queue'[i - Len(pending_events)]
      BY <1>2, <2>1, Joined DEF Received, CardKept, TcpOK
    <2>3. /\ Received \in Seq(TcpEvent) /\ Len(Received) = Len(pending_events) + Len(event_queue)
          /\ \A i \in 1..Len(Received) :
               Received[i] = IF i <= Len(pending_events) THEN pending_events[i]
                             ELSE event_queue[i - Len(pending_events)]
      BY ReceivedIs DEF CardKept, TcpOK
    <2>4. Len(Received') = Len(Received) + 1 /\ Len(Received) \in Nat
      BY <2>1, <2>2, <2>3
    <2>5. ASSUME NEW i \in 1..Len(Received') PROVE Received'[i] = IF i <= Len(Received) THEN Received[i] ELSE e
      <3>1. CASE i <= Len(pending_events)
        BY <2>1, <2>2, <2>3, <3>1
      <3>2. CASE i > Len(pending_events)
        <4>1. PICK k \in 1..Len(event_queue') : k = i - Len(pending_events)
          BY <2>1, <2>2, <3>2
        <4>2. Received'[i] = event_queue'[k] /\ (k <= Len(event_queue) => Received[i] = event_queue[k])
          BY <2>1, <2>2, <2>3, <3>2, <4>1
        <4>3. k <= Len(event_queue) <=> i <= Len(Received)
          BY <2>1, <2>3, <4>1
        <4> QED
          BY <2>1, <4>2, <4>3
      <3> QED
        BY <2>1, <2>4, <3>1, <3>2
    <2> QED
      BY <2>2, <2>3, <2>4, <2>5
  <1>4. Falling(Received')
    <2> SUFFICES ASSUME NEW i \in 1..Len(Received'), NEW j \in 1..Len(Received'), i < j
                 PROVE  Received'[i].age >= Received'[j].age
      BY DEF Falling
    <2>1. i \in 1..Len(Received) /\ Received'[i] = Received[i] /\ Received[i].age \in Nat
      BY <1>3, Ages
    <2>2. CASE j <= Len(Received)
      BY <1>3, <2>1, <2>2 DEF CardKept, TcpOK, Falling
    <2>3. CASE j > Len(Received)
      BY <1>1, <1>3, <2>1, <2>3
    <2> QED
      BY <1>3, <2>2, <2>3
  <1>5. TcpOK'
    BY <1>1, <1>2, <1>4 DEF CardKept, TcpOK
  <1> QED
    BY <1>2, <1>5, Untouched DEF overlay_v

(* A face starts the search of a new generation. *)
LEMMA HandleFaceKeeps ==
    ASSUME CardKept, NEW user \in Users, NEW ok \in BOOLEAN, HandleFace(user, ok)
    PROVE  TcpOK' /\ SearchOK' /\ CardOK'
  <1>1. faces \in 0..MaxFaces /\ faces < MaxFaces /\ faces' = faces + 1 /\ UNCHANGED page /\ MaxFaces \in Nat
    BY CardAssumption DEF HandleFace, CardKept, SearchOK
  <1>2. CASE page = "monitor"
    <2>1. /\ generation' = generation + 1 /\ asked' = [user |-> user, ok |-> ok]
          /\ PollForMatch(generation', user, ok, Deadline, {})
      BY <1>2 DEF HandleFace
    <2>2. generation' \in 0..faces' /\ generation' \in 0..MaxFaces
      BY <1>1, <2>1 DEF CardKept, SearchOK
    <2>3. Deadline \in 0..Deadline
      BY CardAssumption
    <2>4. /\ TcpOK' /\ CardOK'
          /\ search' \subseteq {[gen |-> generation', user |-> user, ok |-> ok, left |-> Deadline]}
      BY <2>1, <2>2, <2>3, PollOK
    <2>5. search' \subseteq Job /\ \A job \in search' : job.user = user /\ job.ok = ok
      BY <2>2, <2>3, <2>4 DEF Job
    <2>6. SearchOK'
      BY <1>1, <2>1, <2>2, <2>5 DEF CardKept, SearchOK, Identity
    <2> QED
      BY <2>4, <2>6
  <1>3. CASE page # "monitor"
    <2>1. UNCHANGED <<search_v, tcp_v, overlay_v>>
      BY <1>3 DEF HandleFace
    <2>2. SearchOK'
      BY <1>1, <2>1 DEF CardKept, SearchOK, search_v
    <2> QED
      BY <2>1, <2>2, Untouched DEF overlay_v
  <1> QED
    BY <1>2, <1>3

LEMMA DemoFaceKeeps ==
    ASSUME CardKept, NEW user \in Users, NEW ok \in BOOLEAN, DemoFace(user, ok)
    PROVE  TcpOK' /\ SearchOK' /\ CardOK'
  <1>1. SearchOK'
    BY CardAssumption DEF DemoFace, CardKept, SearchOK, search_v
  <1>2. CASE page = "monitor"
    <2> DEFINE event == IF event_queue = <<>> THEN [image |-> TRUE, age |-> 0] ELSE Last(event_queue)
    <2>1. event_queue' = <<>> /\ UNCHANGED pending_events /\ ShowFace(user, ok, event)
      BY <1>2 DEF DemoFace
    <2>2. event.age \in 0..(Fresh + 1)
      <3>1. CASE event_queue = <<>>
        BY <3>1, CardAssumption
      <3>2. CASE event_queue # <<>>
        <4>1. event_queue[Len(event_queue)] \in TcpEvent
          BY <3>2 DEF CardKept, TcpOK
        <4> QED
          BY <3>2, <4>1 DEF Last, TcpEvent
      <3> QED
        BY <3>1, <3>2
    <2> HIDE DEF event
    <2>3. CardOK'
      BY <2>1, <2>2, ShowFaceOK DEF CardKept
    <2>4. pending_events \in Seq(TcpEvent) /\ Falling(pending_events)
      <3>1. \A i \in 1..Len(pending_events) : i \in 1..Len(Received) /\ Received[i] = pending_events[i]
        BY ReceivedIs DEF CardKept, TcpOK
      <3> QED
        BY <3>1 DEF CardKept, TcpOK, Falling
    <2> QED
      BY <1>1, <2>1, <2>3, <2>4, OnlyPending
  <1>3. CASE page # "monitor"
    BY <1>1, <1>3, Untouched DEF DemoFace, tcp_v, overlay_v
  <1> QED
    BY <1>2, <1>3

(* A card that a search shows is that of the identity asked for last. *)
LEMMA PollAgainKeeps ==
    ASSUME CardKept, PollAgain
    PROVE  /\ TcpOK' /\ SearchOK' /\ CardOK'
           /\ \/ UNCHANGED overlay
              \/ asked = [user |-> overlay'.user, ok |-> overlay'.ok] /\ overlay'.age <= Fresh
  <1>1. PICK job \in search :
            /\ IF page # "monitor" \/ job.gen # generation
               THEN search' = search \ {job} /\ UNCHANGED <<tcp_v, overlay_v>>
               ELSE PollForMatch(job.gen, job.user, job.ok, job.left, search \ {job})
            /\ UNCHANGED <<page, generation, asked, card_bounds>>
    BY DEF PollAgain
  <1>2. search \subseteq Job /\ job \in Job
    BY DEF CardKept, SearchOK
  <1>3. job = [gen |-> job.gen, user |-> job.user, ok |-> job.ok, left |-> job.left]
    BY <1>2 DEF Job
  <1>4. CASE search' = search \ {job} /\ UNCHANGED <<tcp_v, overlay_v>>
    <2>1. SearchOK'
      BY <1>1, <1>4 DEF CardKept, SearchOK, card_bounds
    <2> QED
      BY <1>4, <2>1, Untouched DEF overlay_v
  <1>5. CASE job.gen = generation /\ PollForMatch(job.gen, job.user, job.ok, job.left, search \ {job})
    <2>1. job.gen \in 0..MaxFaces /\ job.user \in Users /\ job.ok \in BOOLEAN /\ job.left \in 0..Deadline
      BY <1>2 DEF Job
    <2>2. /\ TcpOK' /\ CardOK'
          /\ search' \subseteq search
          /\ UNCHANGED overlay \/ (overlay'.user = job.user /\ overlay'.ok = job.ok /\ overlay'.age <= Fresh)
      BY <1>3, <1>5, <2>1, PollOK
    <2>3. SearchOK'
      BY <1>1, <2>2 DEF CardKept, SearchOK, card_bounds
    <2>4. asked = [user |-> job.user, ok |-> job.ok]
      BY <1>5 DEF CardKept, SearchOK
    <2> QED
      BY <2>2, <2>3, <2>4
  <1> QED
    BY <1>1, <1>4, <1>5

(* The clock ages every event alike. *)
LEMMA TickKeeps ==
    ASSUME CardKept, Tick
    PROVE  TcpOK' /\ SearchOK' /\ CardOK'
  <1>1. CardOK'
    BY Untouched DEF Tick
  <1>2. SearchOK'
    <2>1. \A job \in search : job \in Job /\ job.left > 0
      BY DEF Tick, CardKept, SearchOK
    <2>2. \A job \in search : LET next == [job EXCEPT !.left = @ - 1] IN
             next \in Job /\ next.gen = job.gen /\ next.user = job.user /\ next.ok = job.ok
      BY <2>1, CardAssumption DEF Job
    <2>3. search' = {[job EXCEPT !.left = @ - 1] : job \in search} /\ UNCHANGED <<page, generation, asked, faces>>
      BY DEF Tick, card_bounds
    <2>4. \A next \in search' : next \in Job /\ \E job \in search :
              next.gen = job.gen /\ next.user = job.user /\ next.ok = job.ok
      BY <2>2, <2>3
    <2> QED
      BY <2>3, <2>4 DEF CardKept, SearchOK
  <1>3. TcpOK'
    <2>1. \A e \in TcpEvent : Older(e) \in TcpEvent /\ Older(e).age = IF e.age > Fresh THEN e.age ELSE e.age + 1
      BY CardAssumption DEF Older, TcpEvent
    <2>2. ASSUME NEW q \in Seq(TcpEvent), NEW r, r = [i \in DOMAIN q |-> Older(q[i])]
          PROVE  r \in Seq(TcpEvent) /\ Len(r) = Len(q) /\ \A i \in 1..Len(q) : r[i] = Older(q[i])
      <3>1. DOMAIN q = 1..Len(q) /\ Len(q) \in Nat /\ \A i \in 1..Len(q) : q[i] \in TcpEvent
        OBVIOUS
      <3> QED
        BY <2>1, <2>2, <3>1
    <2>3. /\ pending_events' \in Seq(TcpEvent) /\ Len(pending_events') = Len(pending_events)
          /\ \A i \in 1..Len(pending_events) : pending_events'[i] = Older(pending_events[i])
      BY <2>2 DEF Tick, CardKept, TcpOK
    <2>4. /\ event_queue' \in Seq(TcpEvent) /\ Len(event_queue') = Len(event_queue)
          /\ \A i \in 1..Len(event_queue) : event_queue'[i] = Older(event_queue[i])
      BY <2>2 DEF Tick, CardKept, TcpOK
    <2>5. /\ Received' \in Seq(TcpEvent) /\ Len(Received') = Len(pending_events') + Len(event_queue')
          /\ \A i \in 1..Len(Received') :
               Received'[i] = IF i <= Len(pending_events') THEN pending_events'[i]
                              ELSE event_queue'[i - Len(pending_events')]
      <3>1. Received' = pending_events' \o event_queue'
        BY DEF Received
      <3>2. pending_events' \in Seq(TcpEvent) /\ event_queue' \in Seq(TcpEvent)
        BY <2>3, <2>4
      <3> QED
        BY <3>1, <3>2, Joined
    <2>6. /\ Len(Received') = Len(Received) /\ Received \in Seq(TcpEvent)
          /\ \A i \in 1..Len(Received) : Received'[i] = Older(Received[i])
      <3>1. Len(pending_events) \in Nat /\ Len(event_queue) \in Nat
        BY DEF CardKept, TcpOK
      <3>2. /\ Received \in Seq(TcpEvent) /\ Len(Received) = Len(pending_events) + Len(event_queue)
            /\ \A i \in 1..Len(Received) :
                 Received[i] = IF i <= Len(pending_events) THEN pending_events[i]
                               ELSE event_queue[i - Len(pending_events)]
        BY ReceivedIs DEF CardKept, TcpOK
      <3>3. Len(Received') = Len(Received)
        BY <2>3, <2>4, <2>5, <3>2
      <3>4. ASSUME NEW i \in 1..Len(Received) PROVE Received'[i] = Older(Received[i])
        <4>1. CASE i <= Len(pending_events)
          BY <2>3, <2>5, <3>1, <3>2, <3>3, <4>1
        <4>2. CASE i > Len(pending_events)
          <5>1. PICK k \in 1..Len(event_queue) : k = i - Len(pending_events)
            BY <3>1, <3>2, <4>2
          <5>2. Received'[i] = event_queue'[k] /\ Received[i] = event_queue[k]
            BY <2>3, <2>5, <3>1, <3>2, <3>3, <4>2, <5>1
          <5> QED
            BY <2>4, <5>2
        <4> QED
          BY <3>1, <3>2, <4>1, <4>2
      <3> QED
        BY <3>2, <3>3, <3>4
    <2>7. ASSUME NEW i \in 1..Len(Received), NEW j \in 1..Len(Received), i < j
          PROVE  Received'[i].age >= Received'[j].age
      <3>1. Received[i] \in TcpEvent /\ Received[j] \in TcpEvent /\ Received[i].age >= Received[j].age
        BY <2>6, <2>7 DEF CardKept, TcpOK, Falling
      <3>2. /\ Received[i].age \in Nat /\ Received[j].age \in Nat /\ Fresh \in Nat
            /\ Received[i].age <= Fresh + 1 /\ Received[j].age <= Fresh + 1
        BY <3>1, Ages
      <3> DEFINE x == Received[i].age
                 y == Received[j].age
      <3>3. /\ Received'[i].age = IF x > Fresh THEN x ELSE x + 1
            /\ Received'[j].age = IF y > Fresh THEN y ELSE y + 1
        BY <2>1, <2>6, <3>1
      <3>4. x \in Nat /\ y \in Nat /\ x >= y /\ x <= Fresh + 1 /\ y <= Fresh + 1 /\ Fresh \in Nat
        BY <3>1, <3>2
      <3> HIDE DEF x, y
      <3> QED
        BY <3>3, <3>4
    <2> QED
      BY <2>3, <2>4, <2>6, <2>7 DEF TcpOK, Falling
  <1> QED
    BY <1>1, <1>2, <1>3

LEMMA RenderKeeps ==
    ASSUME CardKept, Render
    PROVE  TcpOK' /\ SearchOK' /\ CardOK'
  <1>1. PICK job \in anim_jobs :
            IF job.gen = anim_generation
            THEN /\ frame' = IF job.step + 1 < MotionFrames THEN "moving" ELSE "final"
                 /\ anim_jobs' = (anim_jobs \ {job}) \union
                        (IF job.step + 1 < MotionFrames THEN {[job EXCEPT !.step = @ + 1]} ELSE {})
            ELSE anim_jobs' = anim_jobs \ {job} /\ UNCHANGED frame
    BY DEF Render
  <1>2. job \in [gen : 0..anim_generation, step : 1..(MotionFrames - 1)] /\ MotionFrames \in Nat
    BY CardAssumption DEF CardKept, CardOK
  <1>3. job.step + 1 < MotionFrames =>
            [job EXCEPT !.step = @ + 1] \in [gen : 0..anim_generation, step : 1..(MotionFrames - 1)]
    BY <1>2
  <1>4. UNCHANGED <<page, tcp_v, search_v, overlay, tint, anim_generation, card_bounds>>
    BY DEF Render
  <1>5. anim_jobs' \subseteq [gen : 0..anim_generation, step : 1..(MotionFrames - 1)] /\
        frame' \in {"none", "still", "moving", "final"}
    BY <1>1, <1>3 DEF CardKept, CardOK
  <1>6. CardOK'
    BY <1>4, <1>5 DEF CardKept, CardOK
  <1> QED
    BY <1>4, <1>6, Untouched DEF card_bounds

LEMMA HideFaceKeeps ==
    ASSUME CardKept, HideFace
    PROVE  TcpOK' /\ SearchOK' /\ CardOK'
  <1>1. UNCHANGED <<page, tcp_v, search_v, tint, card_bounds>> /\ overlay' = NoCard
    BY DEF HideFace
  <1>2. anim_generation' = anim_generation + 1 /\ anim_jobs' = {} /\ frame' = "none"
    BY DEF HideFace, StopAnimation
  <1>3. CardOK'
    BY <1>1, <1>2 DEF CardKept, CardOK
  <1> QED
    BY <1>1, <1>3, Untouched DEF card_bounds

(* What ShowsLastAsked says of a step. *)
ShownWasAsked ==
    (overlay' # overlay /\ overlay' # NoCard /\ faces' = faces) =>
        asked = [user |-> overlay'.user, ok |-> overlay'.ok] /\ overlay'.age <= Fresh

LEMMA KeptNext ==
    CardKept /\ [CardNext]_cardVars => CardKept' /\ ShownWasAsked
  <1> SUFFICES ASSUME CardKept, [CardNext]_cardVars PROVE CardKept' /\ ShownWasAsked
    OBVIOUS
  <1>1. CardTimers'
    BY TimersNext DEF CardKept
  <1>2. CASE UNCHANGED cardVars
    BY <1>1, <1>2, Untouched DEF cardVars, overlay_v, card_bounds, CardKept,
       ShownWasAsked
  <1>3. CASE \E p \in {"monitor", "racks"} : ChangePage(p)
    <2>1. page' \in {"monitor", "racks"} /\ UNCHANGED <<tcp_v, search_v, overlay_v, faces>>
      BY <1>3 DEF ChangePage
    <2>2. SearchOK'
      BY <2>1 DEF CardKept, SearchOK, search_v
    <2> QED
      BY <1>1, <2>1, <2>2, Untouched DEF overlay_v, CardKept, ShownWasAsked
  <1>4. CASE \E user \in Users, ok \in BOOLEAN : Face(user, ok)
    <2>1. PICK user \in Users, ok \in BOOLEAN : HandleFace(user, ok) \/ DemoFace(user, ok)
      BY <1>4 DEF Face
    <2>2. TcpOK' /\ SearchOK' /\ CardOK'
      BY <2>1, HandleFaceKeeps, DemoFaceKeeps
    <2>3. faces' = faces + 1 /\ faces \in Nat
      BY <2>1, CardAssumption DEF HandleFace, DemoFace, CardKept, SearchOK
    <2> QED
      BY <1>1, <2>2, <2>3 DEF CardKept, ShownWasAsked
  <1>5. CASE \E user \in Users, ok \in BOOLEAN : \E image \in BOOLEAN : ReceiveTcp(user, ok, image)
    BY <1>1, <1>5, ReceiveTcpKeeps DEF CardKept, ShownWasAsked
  <1>6. CASE PollAgain
    BY <1>1, <1>6, PollAgainKeeps DEF CardKept, ShownWasAsked
  <1>7. CASE Tick
    BY <1>1, <1>7, TickKeeps, TickStep DEF CardKept, ShownWasAsked
  <1>8. CASE Render
    BY <1>1, <1>8, RenderKeeps, RenderStep DEF CardKept, ShownWasAsked
  <1>9. CASE HideFace
    BY <1>1, <1>9, HideFaceKeeps DEF HideFace, CardKept, ShownWasAsked
  <1> QED
    BY <1>2, <1>3, <1>4, <1>5, <1>6, <1>7, <1>8, <1>9 DEF CardNext, Timers

LEMMA KeptAlways == CardSpec => []CardKept
  BY KeptInit, KeptNext, PTL DEF CardSpec

(* The card, its timers, the searches and the events keep to their types   *)
(* and orders.                                                             *)
THEOREM CardCorrect == CardSpec => []CardInv
  <1>1. CardKept => CardInv
    <2> SUFFICES ASSUME CardKept PROVE CardInv
      OBVIOUS
    <2>1. NoAnimationWhenHidden
      BY DEF CardKept, CardTimers, CardHidden, CardShown, NoAnimationWhenHidden
    <2>2. OldestFirst
      BY ReceivedIs DEF CardKept, TcpOK, Falling, OldestFirst
    <2>3. hide_job \in -1..Seconds /\ hide_jobs \subseteq 0..Seconds /\ shown_for \in 0..Seconds
      BY CardAssumption DEF CardKept, CardTimers, CardHidden, CardShown
    <2>4. generation \in 0..MaxFaces
      BY CardAssumption DEF CardKept, SearchOK
    <2>5. CardTypeOK
      BY <2>3, <2>4 DEF CardTypeOK, CardKept, TcpOK, SearchOK, CardOK
    <2> QED
      BY <2>1, <2>2, <2>5 DEF CardInv
  <1> QED
    BY <1>1, KeptAlways, PTL

(* The card shown by a search is that of the identity asked for last. *)
THEOREM LastAsked == CardSpec => ShowsLastAsked
  <1>1. CardKept /\ [CardNext]_cardVars => [ShownWasAsked]_cardVars
    BY KeptNext
  <1> QED
    BY <1>1, KeptAlways, PTL DEF CardSpec, ShowsLastAsked, ShownWasAsked
=============================================================================
