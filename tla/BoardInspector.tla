--------------------------- MODULE BoardInspector ---------------------------
(***************************************************************************)
(* go1relay -inspect-board: the rows inspectBoard makes of the partitions  *)
(* (motor frames in the first two, observations in the others) and the     *)
(* JSON it makes of the rows.  One partition is at work in a behaviour,    *)
(* the one at slot, with the C++ consumer that decodes it: a motor         *)
(* endpoint or an observation endpoint; how a packet is taken out of its   *)
(* partition is SeqlockPartition's matter.                                 *)
(***************************************************************************)
EXTENDS WireEndpoint, ObservationEndpoint

CONSTANTS
  Slot,           \* the partitions
  NotFiniteMotors \* the values of the motors with a NaN or an infinity

ASSUME InspectorAssumption == Slot \subseteq 0 .. 7 /\ NotFiniteMotors \subseteq Motors

VARIABLE slot

bvars == <<vars, ovars, slot>>
-----------------------------------------------------------------------------
IsMotorSlot(s) == s < 2

\* Mutant: the two layouts are told apart by their length alone.
ValidPacketOfSize(p) ==
  /\ \E s \in Schema : p.size = BytesOf(s) /\ p.magic = MagicOf(s)
  /\ p.type \in 1 .. 3 /\ p.crc

\* validObservationPacket: neither the names nor the doubles are looked at.
ValidObservationPacket(p) ==
  /\ \E s \in Schema : p.size = BytesOf(s) /\ p.magic = MagicOf(s) /\ p.type \in TypesOf(s)
  /\ p.crc

\* The status of a row.  Controls are good motor packets without motors.
MotorStatus(p) ==
  IF p = NoPacket THEN "empty_or_busy"
  ELSE IF ParsePacket(p) # "ok" THEN "invalid_motor_frame"
  ELSE "ok"

ObservationStatus(p) ==
  IF p = NoObservation THEN "empty_or_busy"
  ELSE IF ~ValidObservationPacket(p) THEN "unknown_or_invalid_schema"
  ELSE "ok"

Status == IF IsMotorSlot(slot) THEN MotorStatus(packet) ELSE ObservationStatus(observed)

\* JSON has no NaN and no infinity: with one of them in any row the encoder
\* fails, and no row is printed.
InspectionPrints ==
  Status = "ok" =>
    IF IsMotorSlot(slot)
    THEN packet.type \in {CommandType, StateType} => packet.motors \notin NotFiniteMotors
    ELSE AllFinite(observed.values)
-----------------------------------------------------------------------------
\* The consumer that is not at work is of one kind, lest all be counted twice.
BInit ==
  /\ slot \in Slot /\ Init /\ OInit
  /\ IF IsMotorSlot(slot) THEN schema = "observation" ELSE kind = "command"

BNext ==
  \/ IsMotorSlot(slot) /\ Next /\ UNCHANGED <<ovars, slot>>
  \/ ~IsMotorSlot(slot) /\ ONext /\ UNCHANGED <<vars, slot>>

BSpec == BInit /\ [][BNext]_bvars
-----------------------------------------------------------------------------
\* Five hand-written pieces of one layout agree: what a C++ decoder takes is
\* what its encoder writes, and is what the inspector calls good, apart from
\* names without an end, and can print.  So a partition that was filled through
\* the observation encoders never keeps the inspection of the board from being
\* printed.  (encodeFrame looks at no motor: a motor partition may.)
ObservationChecksAgree ==
  LET Taken == \E s \in Schema : DecodeSchema(s, observed, object).ok
      Written == \E s \in Schema : EncodeObservation(s, observed) = observed
  IN  observed # NoObservation =>
        /\ Taken <=> Written
        /\ Taken <=> /\ ValidObservationPacket(observed) /\ observed.name \notin LongName
                     /\ InspectionPrints
=============================================================================
