------------------------- MODULE BoardInspectorProofs -------------------------
(***************************************************************************)
(* Theorems about the partitions of the board, for any packets that may be *)
(* read from them.  Motors: the Go parser and the C++ decoder accept       *)
(* exactly what the C++ encoders write, and refused packets never reach an *)
(* endpoint's motors.  Observations, of any number of doubles: the         *)
(* encoders, the decoders and the inspector agree, and refused packets     *)
(* never leave finite doubles of two packets in one object.                *)
(***************************************************************************)
EXTENDS BoardInspector, DataFacts, TLAPS

(***************************************************************************)
(* Motor packets.                                                          *)
(***************************************************************************)

\* The sizes and numbers of the format, as the solvers need them.
LEMMA Numbers ==
  /\ HeaderSize = 36 /\ CrcSize = 4 /\ ControlSize = 40
  /\ CommandPayloadSize = 288 /\ StatePayloadSize = 240
  /\ RegisterType = 1 /\ UnregisterType = 2 /\ CommandType = 3 /\ StateType = 4
  /\ Guide = 1 /\ Controller = 2 /\ Role = {1, 2}
  /\ Kind = {"command", "state"}
  BY DEF HeaderSize, CrcSize, ControlSize, CommandPayloadSize, StatePayloadSize,
         RegisterType, UnregisterType, CommandType, StateType, Guide, Controller, Role, Kind

\* What a kind of frame fixes.
LEMMA KindFacts ==
  /\ TypeOf("command") = 3 /\ RoleOf("command") = 1 /\ PayloadOf("command") = 288
  /\ TypeOf("state") = 4 /\ RoleOf("state") = 2 /\ PayloadOf("state") = 240
  BY Numbers DEF TypeOf, RoleOf, PayloadOf

\* The fields that every encoding shares.
Framed(p) ==
  /\ p.magic = Magic /\ p.version = Version /\ p.flags = 0 /\ p.crc
  /\ p.size = HeaderSize + p.payloadSize + CrcSize

\* A packet is determined by its fields.
LEMMA PacketIsItsFields ==
  ASSUME NEW p \in Bytes, NEW header \in Headers, NEW size \in Nat
  PROVE  p = Encoded(header, size, p.motors) <=>
           /\ Framed(p) /\ p.payloadSize = size
           /\ p.type = header.type /\ p.role = header.role
           /\ p.sequence = header.sequence /\ p.session = header.session
<1>1. p = [size |-> p.size, magic |-> p.magic, version |-> p.version, flags |-> p.flags,
           type |-> p.type, role |-> p.role, payloadSize |-> p.payloadSize,
           sequence |-> p.sequence, session |-> p.session, motors |-> p.motors,
           crc |-> p.crc]
  BY DEF Bytes, PacketOf
<1>2. p.crc \in BOOLEAN
  BY DEF Bytes, PacketOf
<1> QED
  BY <1>1, <1>2 DEF Encoded, Framed

\* An encoded frame, field by field.
LEMMA FrameFields ==
  ASSUME NEW p \in Bytes, NEW k \in Kind
  PROVE  IsFrameOf(k, p) <=>
           /\ Framed(p) /\ p.payloadSize = PayloadOf(k)
           /\ p.type = TypeOf(k) /\ p.role = RoleOf(k)
<1> DEFINE header == [type |-> TypeOf(k), role |-> RoleOf(k),
                      sequence |-> p.sequence, session |-> p.session]
<1>1. /\ TypeOf(k) \in Nat /\ RoleOf(k) \in Nat /\ PayloadOf(k) \in Nat
      /\ p.sequence \in Nat /\ p.session \in Nat
  BY Numbers, KindFacts DEF Bytes, PacketOf
<1>2. \A x \in [type : {TypeOf(k)}, role : {RoleOf(k)},
                sequence : {p.sequence}, session : {p.session}] : x = header
  OBVIOUS
<1>5. header \in [type : {TypeOf(k)}, role : {RoleOf(k)},
                 sequence : {p.sequence}, session : {p.session}]
  OBVIOUS
<1>3. header \in Headers
  BY <1>1 DEF Headers
<1>4. IsFrameOf(k, p) <=> p = Encoded(header, PayloadOf(k), p.motors)
  <2> HIDE DEF header
  <2>1. header.type = TypeOf(k) /\ header.role = RoleOf(k)
    BY DEF header
  <2> QED
    BY <1>2, <1>5 DEF IsFrameOf, EncodeFrame
<1> QED
  BY <1>1, <1>3, <1>4, PacketIsItsFields

\* An encoded control packet, field by field.
LEMMA ControlFields ==
  ASSUME NEW p \in Bytes
  PROVE  IsControl(p) <=>
           Framed(p) /\ p.payloadSize = 0 /\ p.type \in ControlTypes /\ p.role \in Role
<1> DEFINE headers == [type : ControlTypes, role : Role,
                       sequence : {p.sequence}, session : {p.session}]
<1>1. /\ p.sequence \in Nat /\ p.session \in Nat /\ ControlTypes \subseteq Nat
      /\ Role \subseteq Nat /\ p.type \in Nat /\ p.role \in Nat
  BY Numbers DEF Bytes, PacketOf, ControlTypes
<1>2. headers \subseteq Headers
  BY <1>1 DEF Headers
<1>3. ASSUME NEW header \in headers
      PROVE  p = EncodeControl(header, p.motors) <=>
               /\ Framed(p) /\ p.payloadSize = 0
               /\ p.type = header.type /\ p.role = header.role
               /\ p.sequence = header.sequence /\ p.session = header.session
  BY <1>2, PacketIsItsFields DEF EncodeControl
<1>4. ASSUME p.type \in ControlTypes, p.role \in Role
      PROVE  \E header \in headers : header.type = p.type /\ header.role = p.role
               /\ header.sequence = p.sequence /\ header.session = p.session
  <2>1. [type |-> p.type, role |-> p.role, sequence |-> p.sequence, session |-> p.session]
          \in headers
    BY <1>4
  <2> QED
    BY <2>1
<1>5. \A header \in headers : header.type \in ControlTypes /\ header.role \in Role
  OBVIOUS
<1> HIDE DEF headers
<1>6. IsControl(p) <=> \E header \in headers : p = EncodeControl(header, p.motors)
  BY DEF IsControl, headers
<1> QED
  BY <1>3, <1>4, <1>5, <1>6
-----------------------------------------------------------------------------
\* The Go parser accepts the encoders' image, as far as it is numbered.
LEMMA ParserImage ==
  ASSUME NEW p \in Bytes
  PROVE  ParsePacket(p) = "ok" <=>
           /\ p.sequence # 0 /\ p.session # 0
           /\ IsControl(p) \/ \E k \in Kind : IsFrameOf(k, p)
<1> DEFINE contract ==
      /\ p.type \in ContractTypes /\ p.role \in Role
      /\ ContractRole(p.type) \in {0, p.role}
      /\ p.payloadSize = ContractPayload(p.type)
<1>1. p.size \in Nat /\ p.payloadSize \in Nat /\ p.crc \in BOOLEAN /\ p.type \in Nat
  BY DEF Bytes, PacketOf
<1>2. Framed(p) => p.size >= ControlSize
  BY <1>1, Numbers DEF Framed
<1>3. ParsePacket(p) = "ok" <=> Framed(p) /\ contract /\ p.sequence # 0 /\ p.session # 0
  <2>1. ~(p.size < ControlSize) <=> p.size >= ControlSize
    BY <1>1, Numbers
  <2> HIDE DEF contract
  <2> QED
    BY <1>2, <2>1 DEF ParsePacket, Framed, contract
<1>4. contract <=>
        \/ p.payloadSize = 0 /\ p.type \in ControlTypes /\ p.role \in Role
        \/ p.payloadSize = 288 /\ p.type = 3 /\ p.role = 1
        \/ p.payloadSize = 240 /\ p.type = 4 /\ p.role = 2
  <2>1. p.type \in ContractTypes <=> p.type \in {1, 2, 3, 4}
    BY <1>1, Numbers DEF ContractTypes
  <2>2. CASE p.type \in {1, 2}
    BY <2>2, Numbers DEF ContractTypes, ContractRole, ContractPayload, ControlTypes
  <2>3. CASE p.type = 3
    BY <2>3, Numbers DEF ContractTypes, ContractRole, ContractPayload, ControlTypes
  <2>4. CASE p.type = 4
    BY <2>4, Numbers DEF ContractTypes, ContractRole, ContractPayload, ControlTypes
  <2>5. CASE p.type \notin {1, 2, 3, 4}
    BY <2>1, <2>5, Numbers DEF ControlTypes
  <2> QED
    BY <2>2, <2>3, <2>4, <2>5
<1>5. (\E k \in Kind : IsFrameOf(k, p)) <=>
        IsFrameOf("command", p) \/ IsFrameOf("state", p)
  BY Numbers
<1>6. /\ IsFrameOf("command", p) <=>
           Framed(p) /\ p.payloadSize = 288 /\ p.type = 3 /\ p.role = 1
      /\ IsFrameOf("state", p) <=>
           Framed(p) /\ p.payloadSize = 240 /\ p.type = 4 /\ p.role = 2
  BY FrameFields, KindFacts, Numbers
<1> HIDE DEF contract
<1> QED
  BY <1>3, <1>4, <1>5, <1>6, ControlFields
-----------------------------------------------------------------------------
\* decodeFrame accepts the encodings of its kind and takes them over whole;
\* when it refuses, the motors stay what they were.
LEMMA DecoderImage ==
  ASSUME NEW p \in Bytes, NEW k \in Kind, NEW f \in [header : Headers, motors : Motors]
  PROVE  LET result == DecodeFrame(k, p, f) IN
         /\ result.error = "none" <=> IsFrameOf(k, p)
         /\ result.error = "none" =>
              result.frame = [header |-> HeaderOf(p), motors |-> p.motors]
         /\ result.error # "none" => result.frame.motors = f.motors
         /\ result.frame \in [header : Headers, motors : Motors]
<1> DEFINE decoded == DecodeHeader(p, f.header)
           typed == [f.header EXCEPT !.type = p.type, !.role = p.role]
           kept == [f EXCEPT !.header = decoded.header]
<1>1. /\ p.size \in Nat /\ p.payloadSize \in Nat /\ p.crc \in BOOLEAN /\ p.type \in Nat
      /\ p.role \in Nat /\ p.sequence \in Nat /\ p.session \in Nat /\ p.motors \in Motors
  BY DEF Bytes, PacketOf
<1>2. /\ f.header \in Headers /\ typed \in Headers /\ HeaderOf(p) \in Headers
  BY <1>1 DEF Headers, HeaderOf
<1>3. decoded.error = "none" <=>
        Framed(p) /\ p.size >= ControlSize
        /\ p.type \in RegisterType .. StateType /\ p.role \in Role
  BY <1>1, Numbers DEF DecodeHeader, Framed
<1>4. decoded.error = "none" => decoded.header = HeaderOf(p)
  BY <1>1 DEF DecodeHeader
<1>5. decoded.header \in {f.header, typed, HeaderOf(p)}
  BY <1>1 DEF DecodeHeader
<1>6. decoded.header \in Headers
  <2> HIDE DEF decoded, typed
  <2> QED
    BY <1>2, <1>5
<1>7. IsFrameOf(k, p) =>
        /\ p.size >= ControlSize /\ p.type \in RegisterType .. StateType /\ p.role \in Role
  <2>1. CASE k = "command"
    BY <1>1, <2>1, FrameFields, KindFacts, Numbers DEF Framed
  <2>2. CASE k = "state"
    BY <1>1, <2>2, FrameFields, KindFacts, Numbers DEF Framed
  <2> QED
    BY <2>1, <2>2, Numbers
<1> HIDE DEF decoded
<1>8. /\ kept \in [header : Headers, motors : Motors] /\ kept.motors = f.motors
  BY <1>6
<1> HIDE DEF kept, typed
<1>9. DecodeFrame(k, p, f) =
        IF decoded.error # "none" THEN [error |-> decoded.error, frame |-> kept]
        ELSE IF p.type # TypeOf(k) \/ p.role # RoleOf(k) THEN [error |-> "type", frame |-> kept]
        ELSE IF p.payloadSize # PayloadOf(k) THEN [error |-> "payload", frame |-> kept]
        ELSE [error |-> "none", frame |-> [header |-> decoded.header, motors |-> p.motors]]
  BY DEF DecodeFrame, decoded, kept
<1>10. IsFrameOf(k, p) <=> Framed(p) /\ p.payloadSize = PayloadOf(k)
                           /\ p.type = TypeOf(k) /\ p.role = RoleOf(k)
  BY FrameFields
<1>11. CASE decoded.error # "none"
  BY <1>3, <1>7, <1>8, <1>9, <1>10, <1>11
<1>12. CASE decoded.error = "none" /\ ~IsFrameOf(k, p)
  BY <1>3, <1>8, <1>9, <1>10, <1>12
<1>13. CASE decoded.error = "none" /\ IsFrameOf(k, p)
  BY <1>1, <1>2, <1>4, <1>9, <1>10, <1>13
<1> QED
  BY <1>11, <1>12, <1>13
-----------------------------------------------------------------------------
EndpointInv ==
  /\ TypeOK /\ ParserIsTheEncodersImage /\ DecoderIsTheEncodersImage
  /\ MotorsFromLastGood /\ AcceptedFrameIsWhole

LEMMA NewEndpoint == Init => EndpointInv
<1> SUFFICES ASSUME Init PROVE EndpointInv
  OBVIOUS
<1>1. NewFrame \in [header : Headers, motors : Motors] /\ NewFrame.motors = ZeroMotors
  BY EndpointAssumption, Numbers DEF NewFrame, Headers
<1> QED
  BY <1>1 DEF Init, EndpointInv, TypeOK, ParserIsTheEncodersImage, DecoderIsTheEncodersImage,
              MotorsFromLastGood, AcceptedFrameIsWhole

LEMMA DecodeInv ==
  ASSUME EndpointInv, NEW p \in Packet, Decode(p)
  PROVE  EndpointInv'
<1> DEFINE result == DecodeFrame(kind, p, frame)
<1>1. /\ p \in Bytes /\ p # NoPacket /\ kind \in Kind
      /\ frame \in [header : Headers, motors : Motors]
  BY EndpointAssumption DEF EndpointInv, TypeOK
<1>2. /\ result.error = "none" <=> IsFrameOf(kind, p)
      /\ result.error = "none" =>
           result.frame = [header |-> HeaderOf(p), motors |-> p.motors]
      /\ result.error # "none" => result.frame.motors = frame.motors
      /\ result.frame \in [header : Headers, motors : Motors]
  BY <1>1, DecoderImage
<1>3. /\ frame' = result.frame /\ accepted' = (result.error = "none")
      /\ packet' = p /\ good' = (IF result.error = "none" THEN p ELSE good)
      /\ kind' = kind
  BY DEF Decode
<1> HIDE DEF result
<1>4. TypeOK'
  BY <1>1, <1>2, <1>3 DEF EndpointInv, TypeOK
<1>5. ParserIsTheEncodersImage'
  BY <1>1, <1>3, ParserImage DEF ParserIsTheEncodersImage
<1>6. DecoderIsTheEncodersImage'
  BY <1>2, <1>3 DEF DecoderIsTheEncodersImage
<1>7. MotorsFromLastGood'
  BY <1>1, <1>2, <1>3 DEF EndpointInv, MotorsFromLastGood
<1>8. AcceptedFrameIsWhole'
  BY <1>2, <1>3 DEF AcceptedFrameIsWhole
<1> QED
  BY <1>4, <1>5, <1>6, <1>7, <1>8 DEF EndpointInv

\* The five invariants together.
THEOREM EndpointInductive == Spec => []EndpointInv
<1>1. ASSUME EndpointInv, UNCHANGED vars PROVE EndpointInv'
  BY <1>1 DEF vars, EndpointInv, TypeOK, ParserIsTheEncodersImage, DecoderIsTheEncodersImage,
              MotorsFromLastGood, AcceptedFrameIsWhole
<1>2. EndpointInv /\ [Next]_vars => EndpointInv'
  BY <1>1, DecodeInv DEF Next
<1> QED
  BY <1>2, NewEndpoint, PTL DEF Spec

\* The Go parser and the C++ decoder accept exactly the encoders' packets.
THEOREM CodecsAgree == Spec => []CodecsMatch
  BY EndpointInductive, PTL DEF EndpointInv, CodecsMatch

\* A refused packet never reaches the motors.
THEOREM MotorsKept == Spec => []MotorsFromLastGood
  BY EndpointInductive, PTL DEF EndpointInv

\* An accepted frame is of one packet.
THEOREM AcceptedWhole == Spec => []AcceptedFrameIsWhole
  BY EndpointInductive, PTL DEF EndpointInv
-----------------------------------------------------------------------------
(***************************************************************************)
(* Observation packets.                                                    *)
(***************************************************************************)

LEMMA SameValues ==
  ASSUME NEW S, NEW T, NEW f \in [S -> T], NEW g \in [S -> T], \A x \in S : f[x] = g[x]
  PROVE  f = g
OBVIOUS

\* The doubles up to the first that is not finite are stored: if all that are
\* in the object then are finite, all of the packet's are, and they are them.
LEMMA StoredValues ==
  ASSUME NEW p, NEW o, p.values \in Values, o.values \in Values,
         NEW stored \in Values,
         \A i \in 1 .. Doubles :
           stored[i] = IF \A j \in 1 .. i - 1 : p.values[j] \in Finite
                       THEN p.values[i] ELSE o.values[i]
  PROVE  /\ AllFinite(p.values) => stored = p.values
         /\ AllFinite(stored) => AllFinite(p.values)
<1>1. Doubles \in Nat \ {0}
  BY ObservationAssumption
<1>2. ASSUME AllFinite(p.values)
      PROVE  stored = p.values
  <2>1. \A i \in 1 .. Doubles : stored[i] = p.values[i]
    BY <1>1, <1>2 DEF AllFinite
  <2> DEFINE places == 1 .. Doubles
             mine == p.values
  <2>2. stored \in [places -> Double] /\ mine \in [places -> Double]
    BY DEF Values
  <2>3. \A i \in places : stored[i] = mine[i]
    BY <2>1
  <2> HIDE DEF places, mine
  <2>4. stored = mine
    BY <2>2, <2>3, SameValues
  <2> QED
    BY <2>4 DEF mine
<1>3. ASSUME ~AllFinite(p.values)
      PROVE  ~AllFinite(stored)
  <2> DEFINE bad == {i \in 1 .. Doubles : p.values[i] \notin Finite}
  <2>1. bad \in SUBSET Nat /\ bad # {}
    BY <1>3 DEF AllFinite
  <2> HIDE DEF bad
  <2>2. PICK i \in bad : \A m \in bad : i <= m
    BY <2>1, Least
  <2>3. i \in 1 .. Doubles /\ p.values[i] \notin Finite
    BY <2>2 DEF bad
  <2>4. \A j \in 1 .. i - 1 : p.values[j] \in Finite
    <3> SUFFICES ASSUME NEW j \in 1 .. i - 1, j \in bad
                 PROVE  FALSE
      BY <1>1, <2>3 DEF bad
    <3> QED
      BY <2>2, <2>3
  <2>5. stored[i] = p.values[i]
    BY <2>3, <2>4
  <2> QED
    BY <2>3, <2>5 DEF AllFinite
<1> QED
  BY <1>2, <1>3
-----------------------------------------------------------------------------
Object == [type : Nat, stamp : Stamp, name : Name, values : Values]

\* What DecodeValues does to the values, for a packet it accepts or refuses.
LEMMA DecodedValues ==
  ASSUME NEW p \in ObservationPackets, NEW o \in Object
  PROVE  /\ DecodeValues(p, o).object \in Object
         /\ DecodeValues(p, o).ok <=> AllFinite(p.values)
         /\ AllFinite(p.values) => DecodeValues(p, o).object.values = p.values
         /\ AllFinite(DecodeValues(p, o).object.values) => AllFinite(p.values)
<1> DEFINE stored == [i \in 1 .. Doubles |->
                        IF \A j \in 1 .. i - 1 : p.values[j] \in Finite
                        THEN p.values[i] ELSE o.values[i]]
           changed == [o EXCEPT !.values = stored]
<1>1. p.values \in Values /\ o.values \in Values
  BY DEF ObservationPackets, Object
<1>2. stored \in Values
  BY <1>1 DEF Values
<1>3. DecodeValues(p, o).object = changed
  BY DEF DecodeValues
<1>4. DecodeValues(p, o).ok <=> AllFinite(p.values)
  BY Zenon DEF DecodeValues
<1>5. (AllFinite(p.values) => stored = p.values) /\ (AllFinite(stored) => AllFinite(p.values))
  <2>1. \A i \in 1 .. Doubles :
          stored[i] = IF \A j \in 1 .. i - 1 : p.values[j] \in Finite
                      THEN p.values[i] ELSE o.values[i]
    OBVIOUS
  <2> HIDE DEF stored
  <2> QED
    BY <1>1, <1>2, <2>1, StoredValues
<1> HIDE DEF stored
<1>6. changed \in Object /\ changed.values = stored
  BY <1>2 DEF Object
<1> HIDE DEF changed
<1> QED
  BY <1>3, <1>4, <1>5, <1>6
\* What the two decoders take, as conditions on the packet.
Good(s, p) ==
  /\ HasEnvelope(s, p) /\ p.type \in TypesOf(s)
  /\ p.name \notin LongName /\ AllFinite(p.values)

\* What becomes of the object.
Outcome(result, p, o) ==
  /\ result.object \in Object
  /\ result.ok => result.object.values = p.values
  /\ result.object.values = o.values \/ (AllFinite(result.object.values) => result.ok)

LEMMA RefusedOutcome ==
  ASSUME NEW p, NEW o, NEW kept \in Object, kept.values = o.values
  PROVE  Outcome(Refused(kept), p, o) /\ ~Refused(kept).ok
<1>1. Refused(kept).object = kept
  BY DEF Refused
<1>2. ~Refused(kept).ok
  BY Zenon DEF Refused
<1> QED
  BY <1>1, <1>2 DEF Outcome

LEMMA TakenOutcome ==
  ASSUME NEW p \in ObservationPackets, NEW o, NEW kept \in Object
  PROVE  /\ Outcome(DecodeValues(p, kept), p, o)
         /\ DecodeValues(p, kept).ok <=> AllFinite(p.values)
BY DecodedValues, Zenon DEF Outcome

LEMMA Decoded ==
  ASSUME NEW p \in ObservationPackets, NEW o \in Object, NEW s \in Schema
  PROVE  /\ Outcome(DecodeSchema(s, p, o), p, o)
         /\ DecodeSchema(s, p, o).ok <=> Good(s, p)
<1>1. p.type \in Nat /\ p.stamp \in Stamp /\ p.name \in Name
  BY DEF ObservationPackets
<1> DEFINE typed == [o EXCEPT !.type = p.type]
           stamped == [typed EXCEPT !.stamp = p.stamp]
           named == [stamped EXCEPT !.name = p.name]
           dated == [o EXCEPT !.stamp = p.stamp, !.name = p.name]
           d == DecodeSchema(s, p, o)
<1>2. typed \in Object /\ typed.values = o.values
  BY <1>1 DEF Object
<1>3. stamped \in Object /\ stamped.values = o.values
  BY <1>1 DEF Object
<1>4. named \in Object
  BY <1>1 DEF Object
<1>5. dated \in Object
  BY <1>1 DEF Object
<1>6. s = "observation" =>
        /\ ~HasEnvelope(s, p) => d = Refused(o)
        /\ HasEnvelope(s, p) /\ p.type \notin TypesOf(s) => d = Refused(typed)
        /\ HasEnvelope(s, p) /\ p.type \in TypesOf(s) /\ p.name \in LongName => d = Refused(stamped)
        /\ HasEnvelope(s, p) /\ p.type \in TypesOf(s) /\ p.name \notin LongName =>
             d = DecodeValues(p, named)
  BY DEF DecodeSchema, DecodeObservation
<1>7. s = "odometry" =>
        /\ ~(HasEnvelope(s, p) /\ p.type \in TypesOf(s) /\ p.name \notin LongName) => d = Refused(o)
        /\ HasEnvelope(s, p) /\ p.type \in TypesOf(s) /\ p.name \notin LongName =>
             d = DecodeValues(p, dated)
  BY DEF DecodeSchema, DecodeOdometry
<1>8. s = "observation" \/ s = "odometry"
  BY DEF Schema
<1> HIDE DEF typed, stamped, named, dated, d
<1>9. CASE ~(HasEnvelope(s, p) /\ p.type \in TypesOf(s) /\ p.name \notin LongName)
  <2>1. \E kept \in Object : kept.values = o.values /\ d = Refused(kept)
    BY <1>2, <1>3, <1>6, <1>7, <1>8, <1>9
  <2>2. PICK kept \in Object : kept.values = o.values /\ d = Refused(kept)
    BY <2>1
  <2>3. Outcome(d, p, o) /\ ~d.ok
    BY <2>2, RefusedOutcome
  <2> QED
    BY <1>9, <2>3 DEF d, Good
<1>10. CASE HasEnvelope(s, p) /\ p.type \in TypesOf(s) /\ p.name \notin LongName
  <2>1. PICK kept \in Object : d = DecodeValues(p, kept)
    BY <1>4, <1>5, <1>6, <1>7, <1>8, <1>10
  <2>2. Outcome(d, p, o) /\ (d.ok <=> AllFinite(p.values))
    BY <2>1, TakenOutcome
  <2> QED
    BY <1>10, <2>2 DEF d, Good
<1> QED
  BY <1>9, <1>10
-----------------------------------------------------------------------------
\* What is known of an observation partition and its consumer.
ObservationInv ==
  /\ schema \in Schema
  /\ object \in Object
  /\ observed \in Seen \cup {NoObservation}
  /\ observed # NoObservation => ~IsMotorSlot(slot)
  /\ FiniteValuesAreOfOnePacket

LEMMA NoPacketIsSeen ==
  ASSUME NEW p \in Seen
  PROVE  p \in ObservationPackets /\ p # NoObservation
BY ObservationAssumption

LEMMA NewObjectIsObject ==
  ASSUME NEW s \in Schema
  PROVE  NewObject(s) \in Object
<1>1. ZeroStamp \in Stamp /\ ZeroName \in Name /\ ZeroDouble \in Double
  BY ObservationAssumption DEF Double
<1>2. [i \in 1 .. Doubles |-> ZeroDouble] \in Values
  BY <1>1 DEF Values
<1> DEFINE zeros == [i \in 1 .. Doubles |-> ZeroDouble]
<1> HIDE DEF zeros
<1>3. NewObject(s) = [type |-> IF s = "observation" THEN 0 ELSE 3, stamp |-> ZeroStamp,
                      name |-> ZeroName, values |-> zeros]
  BY DEF NewObject, zeros
<1> QED
  BY <1>1, <1>2, <1>3 DEF Object, zeros

LEMMA ObservationInit == BInit => ObservationInv
<1> SUFFICES ASSUME BInit
             PROVE  ObservationInv
  OBVIOUS
<1>1. schema \in Schema /\ object = NewObject(schema) /\ observed = NoObservation
      /\ trusted = object.values
  BY DEF BInit, OInit
<1>2. object \in Object
  BY <1>1, NewObjectIsObject
<1> QED
  BY <1>1, <1>2 DEF ObservationInv, FiniteValuesAreOfOnePacket

LEMMA ObservationStep == ObservationInv /\ [BNext]_bvars => ObservationInv'
<1> SUFFICES ASSUME ObservationInv, [BNext]_bvars
             PROVE  ObservationInv'
  OBVIOUS
<1>1. CASE UNCHANGED <<ovars, slot>>
  BY <1>1 DEF ovars, ObservationInv, FiniteValuesAreOfOnePacket, IsMotorSlot
<1>2. ASSUME NEW p \in Seen, Consume(p), ~IsMotorSlot(slot), UNCHANGED slot
      PROVE  ObservationInv'
  <2> DEFINE d == DecodeSchema(schema, p, object)
  <2>1. /\ schema' = schema /\ object' = d.object /\ observed' = p
        /\ trusted' = IF d.ok THEN p.values ELSE trusted
    BY <1>2 DEF Consume
  <2>2. p \in ObservationPackets /\ p # NoObservation
    BY NoPacketIsSeen
  <2>3. Outcome(d, p, object)
    BY <2>2, Decoded DEF ObservationInv
  <2> HIDE DEF d
  <2>4. object' \in Object
    BY <2>1, <2>3 DEF Outcome
  <2>5. FiniteValuesAreOfOnePacket'
    <3>1. AllFinite(object.values) => object.values = trusted
      BY DEF ObservationInv, FiniteValuesAreOfOnePacket
    <3>2. CASE d.ok
      BY <2>1, <2>3, <3>2 DEF Outcome, FiniteValuesAreOfOnePacket
    <3>3. CASE ~d.ok
      <4>1. trusted' = trusted /\ (AllFinite(d.object.values) => d.object.values = object.values)
        BY <2>1, <2>3, <3>3 DEF Outcome
      <4> QED
        BY <2>1, <3>1, <4>1 DEF FiniteValuesAreOfOnePacket
    <3> QED
      BY <3>2, <3>3
  <2>6. ~IsMotorSlot(slot)'
    BY <1>2 DEF IsMotorSlot
  <2> QED
    BY <2>1, <2>2, <2>4, <2>5, <2>6 DEF ObservationInv
<1> QED
  BY <1>1, <1>2 DEF BNext, ONext, bvars

\* The encoder writes exactly the good packets.
LEMMA EncoderImage ==
  ASSUME NEW p \in ObservationPackets, NEW s \in Schema
  PROVE  EncodeObservation(s, p) = p <=> Good(s, p)
<1>1. p = [size |-> p.size, magic |-> p.magic, type |-> p.type, stamp |-> p.stamp,
           name |-> p.name, values |-> p.values, crc |-> p.crc]
  BY DEF ObservationPackets
<1>2. p.crc \in BOOLEAN
  BY DEF ObservationPackets
<1>3. EncodedObservation(s, p) = p <=> HasEnvelope(s, p)
  BY <1>1, <1>2 DEF EncodedObservation, HasEnvelope
<1>4. NoObservation # p
  BY ObservationAssumption
<1> QED
  BY <1>3, <1>4 DEF EncodeObservation, Good

\* The inductive invariant of an observation partition and its consumer.
THEOREM ObservationInductive == BSpec => []ObservationInv
BY ObservationInit, ObservationStep, PTL DEF BSpec

\* However refused packets follow each other, finite doubles are of one packet.
THEOREM ValuesOfOnePacket == BSpec => []FiniteValuesAreOfOnePacket
<1>1. ObservationInv => FiniteValuesAreOfOnePacket
  BY DEF ObservationInv
<1> QED
  BY <1>1, ObservationInductive, PTL

\* Encoders, decoders, the inspector's check and JSON agree on observations.
THEOREM ChecksAgree == BSpec => []ObservationChecksAgree
<1>1. ASSUME ObservationInv
      PROVE  ObservationChecksAgree
  <2> SUFFICES ASSUME observed # NoObservation
               PROVE  /\ (\E s \in Schema : DecodeSchema(s, observed, object).ok) <=>
                           \E s \in Schema : EncodeObservation(s, observed) = observed
                      /\ (\E s \in Schema : DecodeSchema(s, observed, object).ok) <=>
                           /\ ValidObservationPacket(observed)
                           /\ observed.name \notin LongName
                           /\ InspectionPrints
    BY DEF ObservationChecksAgree
  <2>1. observed \in ObservationPackets /\ object \in Object /\ ~IsMotorSlot(slot)
    BY <1>1, NoPacketIsSeen DEF ObservationInv
  <2>2. \A s \in Schema : DecodeSchema(s, observed, object).ok <=> Good(s, observed)
    BY <2>1, Decoded
  <2>3. \A s \in Schema : EncodeObservation(s, observed) = observed <=> Good(s, observed)
    BY <2>1, EncoderImage
  <2>4. ValidObservationPacket(observed) <=>
          \E s \in Schema : HasEnvelope(s, observed) /\ observed.type \in TypesOf(s)
    BY DEF ValidObservationPacket, HasEnvelope
  <2>5. ValidObservationPacket(observed) => (InspectionPrints <=> AllFinite(observed.values))
    BY <2>1 DEF InspectionPrints, Status, ObservationStatus
  <2> QED
    BY <2>2, <2>3, <2>4, <2>5 DEF Good
<1> QED
  BY <1>1, ObservationInductive, PTL
=============================================================================
