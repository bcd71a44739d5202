---------------------------- MODULE WireProtocol ----------------------------
(***************************************************************************)
(* The v2 motor wire format, twice: the encoder and decoder of the C++     *)
(* endpoints (relay_protocol.hpp) and the parser of the Go relay, the      *)
(* inspector and the recorder (parsePacket).  Both read the same bytes, so *)
(* a packet here is the record of what those bytes say, with crc standing  *)
(* for "the last four bytes are the CRC32C of all those before them".      *)
(* Timestamps are carried along by both sides and branched on by neither.  *)
(***************************************************************************)
EXTENDS Naturals

HeaderSize == 36
CrcSize == 4
ControlSize == HeaderSize + CrcSize
CommandPayloadSize == 12 * 24
StatePayloadSize == 12 * 20
CommandSize == HeaderSize + CommandPayloadSize + CrcSize
StateSize == HeaderSize + StatePayloadSize + CrcSize
MaxPacketSize == CommandSize

Magic == "G1SM"
Version == 2

RegisterType == 1
UnregisterType == 2
CommandType == 3
StateType == 4

Guide == 1
Controller == 2
Role == {Guide, Controller}

\* What the bytes of a datagram can say; motors is what its payload can say.
PacketOf(motors) ==
  [size : Nat, magic : STRING, version : Nat, flags : Nat, type : Nat, role : Nat,
   payloadSize : Nat, sequence : Nat, session : Nat, motors : motors, crc : BOOLEAN]
-----------------------------------------------------------------------------
(***************************************************************************)
(* The Go parser.                                                          *)
(***************************************************************************)

\* messageContract: the payload size of a type, and the role that may send
\* it (0 for both).
ContractTypes == RegisterType .. StateType
ContractPayload(type) == CASE type = CommandType -> CommandPayloadSize
                           [] type = StateType   -> StatePayloadSize
                           [] OTHER              -> 0
\* Mutant: the relay takes states from either role.
ContractRoleOfCommands(type) == IF type = CommandType THEN Guide ELSE 0

ContractRole(type) == CASE type = CommandType -> Guide
                        [] type = StateType   -> Controller
                        [] OTHER              -> 0

\* What the parser finds wrong first, or "ok".
ParsePacket(p) ==
  IF p.size < ControlSize THEN "size"
  ELSE IF p.magic # Magic THEN "magic"
  ELSE IF p.version # Version THEN "version"
  ELSE IF p.flags # 0 THEN "flags"
  ELSE IF p.role \notin Role THEN "role"
  ELSE IF p.type \notin ContractTypes THEN "type"
  ELSE IF \/ ContractRole(p.type) \notin {0, p.role}
          \/ p.payloadSize # ContractPayload(p.type)
          \/ p.size # HeaderSize + p.payloadSize + CrcSize
       THEN "payload"
  ELSE IF ~p.crc THEN "crc"
  ELSE IF p.sequence = 0 \/ p.session = 0 THEN "payload"
  ELSE "ok"

HeaderOf(p) == [type |-> p.type, role |-> p.role,
                sequence |-> p.sequence, session |-> p.session]
-----------------------------------------------------------------------------
(***************************************************************************)
(* The C++ encoder.  A frame is a header and the motors' values; the       *)
(* caller fills in the header, which the encoder does not check.           *)
(***************************************************************************)

Kind == {"command", "state"}
TypeOf(kind) == IF kind = "command" THEN CommandType ELSE StateType
RoleOf(kind) == IF kind = "command" THEN Guide ELSE Controller
PayloadOf(kind) == IF kind = "command" THEN CommandPayloadSize ELSE StatePayloadSize

\* encodeHeader, the payload and the checksum over both.
Encoded(header, payloadSize, motors) ==
  [size |-> HeaderSize + payloadSize + CrcSize,
   magic |-> Magic, version |-> Version, flags |-> 0,
   type |-> header.type, role |-> header.role, payloadSize |-> payloadSize,
   sequence |-> header.sequence, session |-> header.session,
   motors |-> motors, crc |-> TRUE]

EncodeFrame(kind, frame) == Encoded(frame.header, PayloadOf(kind), frame.motors)

\* encodeControlPacket refuses every type but these two.
ControlTypes == {RegisterType, UnregisterType}
EncodeControl(header, noMotors) == Encoded(header, 0, noMotors)
-----------------------------------------------------------------------------
(***************************************************************************)
(* The C++ decoder.  It writes into the caller's frame as it goes: type    *)
(* and role before they are checked, the rest of the header once the       *)
(* checksum holds, the motors last.                                        *)
(***************************************************************************)

\* decodeHeader: the error, and what became of the caller's header.
DecodeHeader(p, header) ==
  LET typed == [header EXCEPT !.type = p.type, !.role = p.role]
      Fail(error, left) == [error |-> error, header |-> left]
  IN  IF p.size < ControlSize THEN Fail("size", header)
      ELSE IF p.magic # Magic THEN Fail("magic", header)
      ELSE IF p.version # Version THEN Fail("version", header)
      ELSE IF p.flags # 0 THEN Fail("flags", header)
      ELSE IF p.type \notin RegisterType .. StateType THEN Fail("type", typed)
      ELSE IF p.role \notin Role THEN Fail("role", typed)
      ELSE IF p.size # HeaderSize + p.payloadSize + CrcSize THEN Fail("payload", typed)
      ELSE IF ~p.crc THEN Fail("crc", typed)
      ELSE [error |-> "none", header |-> HeaderOf(p)]

\* Mutant: the motors are copied before the checks.
DecodeFrameEarly(kind, p, frame) ==
  LET decoded == DecodeHeader(p, frame.header)
      right == /\ decoded.error = "none"
               /\ p.type = TypeOf(kind) /\ p.role = RoleOf(kind)
               /\ p.payloadSize = PayloadOf(kind)
  IN  [error |-> IF right THEN "none" ELSE "other",
       frame |-> [header |-> decoded.header, motors |-> p.motors]]

\* decodeFrame into a CommandFrame or a StateFrame.
DecodeFrame(kind, p, frame) ==
  LET decoded == DecodeHeader(p, frame.header)
      kept == [frame EXCEPT !.header = decoded.header]
  IN  IF decoded.error # "none"
      THEN [error |-> decoded.error, frame |-> kept]
      ELSE IF p.type # TypeOf(kind) \/ p.role # RoleOf(kind)
      THEN [error |-> "type", frame |-> kept]
      ELSE IF p.payloadSize # PayloadOf(kind)
      THEN [error |-> "payload", frame |-> kept]
      ELSE [error |-> "none", frame |-> [header |-> decoded.header, motors |-> p.motors]]
-----------------------------------------------------------------------------
\* ReadFromUnix into the relay's buffer of maxPacketSize bytes: the kernel
\* drops the rest of a longer datagram, and what is left is parsed.
Received(datagram) ==
  [datagram EXCEPT !.size = IF datagram.size > MaxPacketSize THEN MaxPacketSize
                            ELSE datagram.size]
=============================================================================
