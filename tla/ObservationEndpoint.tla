------------------------- MODULE ObservationEndpoint -------------------------
(***************************************************************************)
(* The observation and odometry frames, payload of the board's partitions  *)
(* from the third on: the encoders and decoders of observation_frame.hpp   *)
(* and odometry_frame.hpp, and a consumer that decodes every packet into   *)
(* one object, as the decoders' reference parameter invites it to.  Both   *)
(* frames share their layout; odometry has a type of its own and more      *)
(* doubles.  A packet is the record of what its bytes say.                 *)
(***************************************************************************)
EXTENDS Naturals

CONSTANTS
  Stamp,      \* the values of sim_ns, steady_ns and sequence, as a whole
  Name,       \* the values of parent and child, as a whole
  LongName,   \* those that leave no room for a zero in 64 bytes
  Finite,     \* the doubles that isfinite accepts
  NotFinite,  \* NaN and the infinities
  ZeroStamp, ZeroName, ZeroDouble, \* what a new object holds
  Doubles,    \* how many doubles a frame holds: 10 or 85 in the code
  Seen,       \* the packets that may be read from the partition
  NoObservation  \* no packet

Double == Finite \cup NotFinite
Values == [1 .. Doubles -> Double]

Schema == {"observation", "odometry"}
BytesOf(schema) == IF schema = "observation" THEN 244 ELSE 844
MagicOf(schema) == IF schema = "observation" THEN "OBS1" ELSE "ODO1"
TypesOf(schema) == IF schema = "observation" THEN {1, 2} ELSE {3}

ObservationPackets ==
  [size : Nat, magic : STRING, type : Nat, stamp : Stamp, name : Name,
   values : Values, crc : BOOLEAN]

ASSUME ObservationAssumption ==
  /\ Finite \cap NotFinite = {} /\ Doubles \in Nat \ {0}
  /\ LongName \subseteq Name
  /\ ZeroStamp \in Stamp /\ ZeroName \in Name \ LongName /\ ZeroDouble \in Finite
  /\ Seen \subseteq ObservationPackets /\ NoObservation \notin ObservationPackets

AllFinite(values) == \A i \in 1 .. Doubles : values[i] \in Finite

VARIABLES
  schema,    \* which frame the consumer decodes
  object,    \* its Observation or Odometry
  observed,  \* history: the packet in the partition
  returned,  \* the decoder's last result
  trusted    \* history: the values of the last packet it accepted

ovars == <<schema, object, observed, returned, trusted>>
-----------------------------------------------------------------------------
(***************************************************************************)
(* The encoders: NoObservation where they return false.                    *)
(***************************************************************************)

EncodedObservation(s, o) ==
  [size |-> BytesOf(s), magic |-> MagicOf(s), type |-> o.type, stamp |-> o.stamp,
   name |-> o.name, values |-> o.values, crc |-> TRUE]

\* Mutant: the doubles go out unchecked.
EncodeAnyDoubles(s, o) ==
  IF o.name \in LongName \/ o.type \notin TypesOf(s)
  THEN NoObservation
  ELSE EncodedObservation(s, o)

EncodeObservation(s, o) ==
  IF o.name \in LongName \/ o.type \notin TypesOf(s) \/ ~AllFinite(o.values)
  THEN NoObservation
  ELSE EncodedObservation(s, o)
-----------------------------------------------------------------------------
(***************************************************************************)
(* The decoders: what they return and what they leave of the object.       *)
(***************************************************************************)

Refused(o) == [ok |-> FALSE, object |-> o]

\* Mutant: a double is checked before it is stored.
DecodeCheckedValues(p, o) ==
  LET Good(i) == \A j \in 1 .. i : p.values[j] \in Finite
  IN  [ok |-> AllFinite(p.values),
       object |-> [o EXCEPT !.values =
         [i \in 1 .. Doubles |-> IF Good(i) THEN p.values[i] ELSE o.values[i]]]]

\* The doubles are stored one by one up to the first that is not finite,
\* which is stored as well.
DecodeValues(p, o) ==
  LET Reached(i) == \A j \in 1 .. i - 1 : p.values[j] \in Finite
  IN  [ok |-> AllFinite(p.values),
       object |-> [o EXCEPT !.values =
         [i \in 1 .. Doubles |-> IF Reached(i) THEN p.values[i] ELSE o.values[i]]]]

HasEnvelope(s, p) == p.size = BytesOf(s) /\ p.magic = MagicOf(s) /\ p.crc

\* decodeObservation checks the type and the names after it has stored what
\* comes before them, ...
DecodeObservation(p, o) ==
  LET typed == [o EXCEPT !.type = p.type]
      stamped == [typed EXCEPT !.stamp = p.stamp]
  IN  IF ~HasEnvelope("observation", p) THEN Refused(o)
      ELSE IF p.type \notin TypesOf("observation") THEN Refused(typed)
      ELSE IF p.name \in LongName THEN Refused(stamped)
      ELSE DecodeValues(p, [stamped EXCEPT !.name = p.name])

\* ... decodeOdometry before it stores anything.
DecodeOdometry(p, o) ==
  IF ~HasEnvelope("odometry", p) \/ p.type \notin TypesOf("odometry") \/ p.name \in LongName
  THEN Refused(o)
  ELSE DecodeValues(p, [o EXCEPT !.stamp = p.stamp, !.name = p.name])

DecodeSchema(s, p, o) ==
  IF s = "observation" THEN DecodeObservation(p, o) ELSE DecodeOdometry(p, o)
-----------------------------------------------------------------------------
\* The members' initialisers; an Odometry has no type to initialise.
NewObject(s) ==
  [type |-> IF s = "observation" THEN 0 ELSE 3, stamp |-> ZeroStamp, name |-> ZeroName,
   values |-> [i \in 1 .. Doubles |-> ZeroDouble]]

OInit ==
  /\ schema \in Schema
  /\ object = NewObject(schema)
  /\ observed = NoObservation
  /\ returned = FALSE
  /\ trusted = object.values

Consume(p) ==
  LET result == DecodeSchema(schema, p, object) IN
  /\ object' = result.object
  /\ returned' = result.ok
  /\ observed' = p
  /\ trusted' = IF result.ok THEN p.values ELSE trusted
  /\ UNCHANGED schema

ONext == \E p \in Seen : Consume(p)

OSpec == OInit /\ [][ONext]_ovars
-----------------------------------------------------------------------------
\* A consumer that does not look at the result acts on the values of one
\* packet, the last accepted one, or finds a double that is not finite among
\* them: however refused packets follow each other, the decoders never leave
\* finite doubles of two packets in one object.
FiniteValuesAreOfOnePacket == AllFinite(object.values) => object.values = trusted
=============================================================================
