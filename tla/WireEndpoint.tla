---------------------------- MODULE WireEndpoint ----------------------------
(***************************************************************************)
(* A C++ endpoint at the end of the wire: the controller, which decodes    *)
(* command frames, or the guide, which decodes state frames, from the      *)
(* relay or from the motor partitions of the shared board.  It keeps one   *)
(* frame object and decodes every packet into it; each packet is also      *)
(* judged by the Go parser, which stands before the relay's peers, in the  *)
(* inspector and in the recorder.                                          *)
(***************************************************************************)
EXTENDS WireProtocol

CONSTANTS
  Packet,      \* the packets that may arrive, well formed or not
  Motors,      \* the values of the twelve motors, as a whole
  ZeroMotors,  \* what a new frame object holds
  NoPacket     \* nothing has been decoded yet

Bytes == PacketOf(Motors)

ASSUME EndpointAssumption ==
  /\ ZeroMotors \in Motors
  /\ NoPacket \notin Bytes
  /\ Packet \subseteq Bytes

VARIABLES
  kind,      \* which frame this endpoint decodes
  frame,     \* its frame object
  accepted,  \* decodeFrame's last result
  packet,    \* history: the packet that arrived last
  good       \* history: the last packet for which decodeFrame returned true

vars == <<kind, frame, accepted, packet, good>>
-----------------------------------------------------------------------------
\* Header's and Frame's member initialisers.
NewFrame == [header |-> [type |-> RegisterType, role |-> Guide, sequence |-> 0, session |-> 0],
             motors |-> ZeroMotors]

Init ==
  /\ kind \in Kind
  /\ frame = NewFrame
  /\ accepted = FALSE
  /\ packet = NoPacket
  /\ good = NoPacket

Decode(p) ==
  LET result == DecodeFrame(kind, p, frame) IN
  /\ frame' = result.frame
  /\ accepted' = (result.error = "none")
  /\ packet' = p
  /\ good' = IF result.error = "none" THEN p ELSE good
  /\ UNCHANGED kind

Next == \E p \in Packet : Decode(p)

Spec == Init /\ [][Next]_vars
-----------------------------------------------------------------------------
Headers == [type : Nat, role : Nat, sequence : Nat, session : Nat]

TypeOK ==
  /\ kind \in Kind
  /\ frame \in [header : Headers, motors : Motors]
  /\ accepted \in BOOLEAN
  /\ packet \in Bytes \cup {NoPacket}
  /\ good \in Bytes \cup {NoPacket}

\* The reference for both decoders: p is what encodeFrame writes for a frame
\* whose header names the kind, or what encodeControlPacket writes.
IsFrameOf(k, p) ==
  \E header \in [type : {TypeOf(k)}, role : {RoleOf(k)},
                 sequence : {p.sequence}, session : {p.session}] :
    p = EncodeFrame(k, [header |-> header, motors |-> p.motors])

IsControl(p) ==
  \E header \in [type : ControlTypes, role : Role,
                 sequence : {p.sequence}, session : {p.session}] :
    p = EncodeControl(header, p.motors)

\* The Go parser accepts exactly what the C++ encoders write, save that it
\* insists on a sequence number and a session: the two hand-written codecs
\* agree on every offset, size, type, role and check that the model names.
ParserIsTheEncodersImage ==
  packet # NoPacket =>
    (ParsePacket(packet) = "ok" <=>
       /\ packet.sequence # 0 /\ packet.session # 0
       /\ IsControl(packet) \/ \E k \in Kind : IsFrameOf(k, packet))

\* decodeFrame returns true exactly on the encodings of its own kind.
DecoderIsTheEncodersImage ==
  packet # NoPacket => (accepted <=> IsFrameOf(kind, packet))

\* Parser and decoder accept the encoders' packets and no others.  Together:
\* whatever the relay forwards to a peer, that peer decodes, and a frame of the
\* other kind never passes for one of its own.
CodecsMatch == ParserIsTheEncodersImage /\ DecoderIsTheEncodersImage

\* The motors an endpoint acts on are those of the last packet it accepted,
\* whatever was refused since; refused packets disturb the header at most.
MotorsFromLastGood ==
  frame.motors = IF good = NoPacket THEN ZeroMotors ELSE good.motors

\* When decodeFrame returns true, header and motors are of one packet.
AcceptedFrameIsWhole ==
  accepted => /\ good = packet
              /\ frame = [header |-> HeaderOf(packet), motors |-> packet.motors]
=============================================================================
