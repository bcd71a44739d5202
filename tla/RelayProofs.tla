----------------------------- MODULE RelayProofs -----------------------------
(***************************************************************************)
(* For every set of addresses and datagrams, every lease and every width   *)
(* of sequence numbers: the relay's counters add up, and what it forwards  *)
(* during one tenure comes from one endpoint, in strictly rising order.    *)
(***************************************************************************)
EXTENDS Relay, DataFacts, SequenceTheorems, TLAPS

\* What parsePacket lets through.
Headers == [type : ContractTypes, role : Role, sequence : Sequence \ {0}, session : Nat]

WellFormed(h) ==
  /\ h \in Headers
  /\ h.type = CommandType => h.role = Guide
  /\ h.type = StateType => h.role = Controller

LEMMA RoleFacts == Role = {1, 2} /\ Guide = 1 /\ Controller = 2
  BY DEF Role, Guide, Controller

\* A packet that the parser accepts has a header within its contract.
LEMMA ParsedHeader ==
  ASSUME NEW d \in Datagram, ParsePacket(Received(d)) = "ok"
  PROVE  WellFormed(HeaderOf(Received(d))) /\ d.size \in Nat
<1> DEFINE p == Received(d)
<1>1. d \in PacketOf({d.motors}) /\ d.sequence <= MaxSequence /\ MaxSequence \in Nat
  BY RelayAssumption
<1>2. /\ p.type = d.type /\ p.role = d.role /\ p.sequence = d.sequence
      /\ p.session = d.session /\ d.sequence \in Nat /\ d.session \in Nat /\ d.size \in Nat
  BY <1>1 DEF Received, PacketOf
<1> HIDE DEF p
<1>3. /\ p.role \in Role /\ p.type \in ContractTypes
      /\ ContractRole(p.type) \in {0, p.role}
      /\ p.sequence # 0
  BY DEF ParsePacket, p
<1>4. HeaderOf(p) \in Headers
  BY <1>1, <1>2, <1>3 DEF HeaderOf, Headers, Sequence
<1>5. /\ p.type = CommandType => p.role = Guide
      /\ p.type = StateType => p.role = Controller
  BY <1>3, RoleFacts DEF ContractRole, CommandType, StateType
<1> QED
  BY <1>2, <1>4, <1>5 DEF WellFormed, HeaderOf, p

-----------------------------------------------------------------------------
(***************************************************************************)
(* The invariant, initially and over the steps that accept no frame.       *)
(***************************************************************************)

LEMMA EmptyPeerType == EmptyPeer \in Endpoints /\ EmptyPeer.active = FALSE
  BY RelayAssumption DEF EmptyPeer, Endpoints, Sequence

CounterName == {"commands", "states", "dropped", "invalid", "crcErrors", "unauthorized",
                "sequenceGaps", "oldSequence", "registrations", "replacements",
                "unregisters", "expirations"}

LEMMA CounterDomain ==
  /\ DOMAIN ZeroCounters = CounterName
  /\ ZeroCounters \in [CounterName -> Nat]
  BY DEF ZeroCounters, CounterName

LEMMA EmptyTable ==
  ASSUME peers = [role \in Role |-> EmptyPeer], counters = ZeroCounters, clock \in Nat,
         handled = 0, tenures = [role \in Role |-> 0],
         accepted = [role \in Role |-> << >>], written = 0
  PROVE  RelayInv
<1>1. TypeOK
  BY EmptyPeerType, CounterDomain DEF TypeOK
<1>2. PeersAccounted
  BY RoleFacts, EmptyPeerType DEF PeersAccounted, ActivePeers, One, ZeroCounters
<1>3. FramesAccounted
  BY RoleFacts DEF FramesAccounted, ZeroCounters
<1>4. TenureInv /\ AcceptedInOrder /\ TenuresAreExclusive
  BY DEF TenureInv, AcceptedInOrder, TenuresAreExclusive
<1> QED
  BY <1>1, <1>2, <1>3, <1>4 DEF RelayInv

LEMMA InitInv == Init => RelayInv
  BY EmptyTable DEF Init

\* Steps without a new registration or frame: whoever still holds a role is
\* the endpoint that held it, with the data numbers it had.
StillThere(role) ==
  peers'[role].active =>
    /\ peers[role].active
    /\ peers'[role].dataSet = peers[role].dataSet /\ peers'[role].lastData = peers[role].lastData
    /\ peers'[role].address = peers[role].address /\ peers'[role].session = peers[role].session

LEMMA QuietStep ==
  ASSUME RelayInv, UNCHANGED history,
         peers' \in [Role -> Endpoints], counters' \in [CounterName -> Nat],
         clock' \in Nat, handled' \in Nat,
         \A role \in Role : StillThere(role),
         PeersAccounted',
         /\ counters'.commands = counters.commands /\ counters'.states = counters.states
         /\ counters'.dropped = counters.dropped
  PROVE  RelayInv'
<1> USE DEF RelayInv, history
<1>1. TypeOK'
  BY CounterDomain DEF TypeOK
<1>2. FramesAccounted'
  BY DEF FramesAccounted
<1>3. TenureInv'
  <2> SUFFICES ASSUME NEW role \in Role, NEW i \in DOMAIN accepted[role]
               PROVE  HolderKnows(role, accepted[role][i])'
    BY DEF TenureInv
  <2>1. HolderKnows(role, accepted[role][i]) /\ StillThere(role)
    BY DEF TenureInv
  <2> QED
    BY <2>1 DEF HolderKnows, StillThere
<1>4. AcceptedInOrder' /\ TenuresAreExclusive'
  BY DEF AcceptedInOrder, TenuresAreExclusive
<1> QED
  BY <1>1, <1>2, <1>3, <1>4

\* The counters that only say why a datagram was refused.
LEMMA RefusalStep ==
  ASSUME RelayInv, UNCHANGED <<peers, history, clock>>, handled' \in Nat,
         counters' \in [CounterName -> Nat],
         \A name \in CounterName \ {"invalid", "crcErrors", "unauthorized", "oldSequence"} :
           counters'[name] = counters[name]
  PROVE  RelayInv'
<1>1. TypeOK /\ PeersAccounted
  BY DEF RelayInv
<1>2. \A role \in Role : StillThere(role)
  BY DEF StillThere
<1>3. /\ counters'.commands = counters.commands /\ counters'.states = counters.states
      /\ counters'.dropped = counters.dropped
      /\ counters'.registrations = counters.registrations
      /\ counters'.replacements = counters.replacements
      /\ counters'.unregisters = counters.unregisters
      /\ counters'.expirations = counters.expirations
  BY DEF CounterName
<1>4. PeersAccounted'
  BY <1>1, <1>3 DEF PeersAccounted, ActivePeers
<1> QED
  BY <1>1, <1>2, <1>3, <1>4, QuietStep DEF TypeOK

\* Adding to two counters changes no other.
LEMMA CountTwo ==
  ASSUME NEW c \in [CounterName -> Nat], NEW a \in CounterName, NEW b \in CounterName,
         a # b, NEW m \in Nat, NEW n \in Nat, NEW d,
         d = [c EXCEPT ![a] = @ + m, ![b] = @ + n]
  PROVE  /\ d \in [CounterName -> Nat]
         /\ \A name \in CounterName \ {a, b} : d[name] = c[name]
         /\ d[a] = c[a] + m /\ d[b] = c[b] + n
<1> HIDE DEF CounterName
<1> QED
  OBVIOUS

LEMMA RejectInv ==
  ASSUME RelayInv, NEW p, Reject(p), UNCHANGED clock, handled' \in Nat
  PROVE  RelayInv'
<1>1. counters \in [CounterName -> Nat]
  BY CounterDomain DEF RelayInv, TypeOK
<1>2. PICK n \in Nat : counters' = [counters EXCEPT !.invalid = @ + 1, !.crcErrors = @ + n]
  <2>1. One(ParsePacket(p) = "crc") \in Nat
    BY DEF One
  <2> HIDE DEF One
  <2> QED
    BY <2>1, Zenon DEF Reject
<1>3. /\ counters' \in [CounterName -> Nat]
      /\ \A name \in CounterName \ {"invalid", "crcErrors"} : counters'[name] = counters[name]
  <2>1. "invalid" \in CounterName /\ "crcErrors" \in CounterName /\ "invalid" # "crcErrors"
    BY DEF CounterName
  <2> HIDE DEF CounterName
  <2> QED
    BY <1>1, <1>2, <2>1, CountTwo
<1> QED
  BY <1>3, RefusalStep DEF Reject

LEMMA RefuseDataInv ==
  ASSUME RelayInv, NEW h, NEW source, RefuseData(h, source), UNCHANGED clock, handled' \in Nat
  PROVE  RelayInv'
<1>1. counters \in [CounterName -> Nat]
  BY CounterDomain DEF RelayInv, TypeOK
<1>2. /\ counters' \in [CounterName -> Nat]
      /\ \A name \in CounterName \ {"unauthorized", "oldSequence"} :
           counters'[name] = counters[name]
  BY <1>1 DEF RefuseData, CounterName
<1> QED
  BY <1>2, RefusalStep DEF RefuseData
-----------------------------------------------------------------------------
(***************************************************************************)
(* Control frames and the maintenance pass.                                *)
(***************************************************************************)

LEMMA RefreshInv ==
  ASSUME RelayInv, NEW h \in Headers, NEW source, Refresh(h, source),
         UNCHANGED clock, handled' \in Nat
  PROVE  RelayInv'
<1>1. TypeOK /\ PeersAccounted /\ counters \in [CounterName -> Nat]
  BY CounterDomain DEF RelayInv, TypeOK
<1>2. CASE h.sequence <= peers[h.role].lastControl
  <2>1. /\ counters' \in [CounterName -> Nat]
        /\ \A name \in CounterName \ {"oldSequence"} : counters'[name] = counters[name]
    BY <1>1, <1>2 DEF Refresh, CounterName
  <2> QED
    BY <1>2, <2>1, RefusalStep DEF Refresh
<1>3. CASE ~(h.sequence <= peers[h.role].lastControl)
  <2>1. h.role \in Role /\ h.sequence \in Sequence /\ clock \in Nat
    BY <1>1 DEF Headers, TypeOK
  <2>2. peers' = [peers EXCEPT ![h.role].lastControl = h.sequence, ![h.role].lastSeen = clock]
    BY <1>3 DEF Refresh
  <2>3. peers' \in [Role -> Endpoints]
    BY <1>1, <2>1, <2>2 DEF TypeOK, Endpoints
  <2>4. \A role \in Role : StillThere(role) /\ peers'[role].active = peers[role].active
    BY <1>1, <2>1, <2>2 DEF TypeOK, Endpoints, StillThere
  <2>5. PeersAccounted'
    BY <1>1, <1>3, <2>4, RoleFacts DEF PeersAccounted, ActivePeers, Refresh
  <2> QED
    BY <1>1, <1>3, <2>3, <2>4, <2>5, QuietStep DEF Refresh, TypeOK
<1> QED
  BY <1>2, <1>3

LEMMA UnregisterInv ==
  ASSUME RelayInv, NEW h \in Headers, NEW source, Unregister(h, source),
         UNCHANGED clock, handled' \in Nat
  PROVE  RelayInv'
<1>1. TypeOK /\ PeersAccounted /\ counters \in [CounterName -> Nat]
  BY CounterDomain DEF RelayInv, TypeOK
<1> DEFINE mine == FromHolder(h, source) /\ h.sequence > peers[h.role].lastControl
<1>2. CASE ~mine
  <2>1. /\ counters' \in [CounterName -> Nat]
        /\ \A name \in CounterName \ {"unauthorized"} : counters'[name] = counters[name]
    BY <1>1, <1>2 DEF Unregister, CounterName
  <2> QED
    BY <1>2, <2>1, RefusalStep DEF Unregister
<1>3. CASE mine
  <2>1. h.role \in Role /\ peers[h.role].active
    BY <1>3 DEF Headers, FromHolder
  <2>2. peers' = [peers EXCEPT ![h.role] = EmptyPeer]
        /\ counters' = [counters EXCEPT !.unregisters = @ + 1]
    BY <1>3 DEF Unregister
  <2>3. peers' \in [Role -> Endpoints]
    BY <1>1, <2>1, <2>2, EmptyPeerType DEF TypeOK
  <2>4. /\ ~peers'[h.role].active
        /\ \A role \in Role \ {h.role} : peers'[role] = peers[role]
    BY <1>1, <2>1, <2>2, EmptyPeerType DEF TypeOK
  <2>8. \A role \in Role : StillThere(role)
    BY <2>1, <2>4 DEF StillThere
  <2>5. /\ counters' \in [CounterName -> Nat]
        /\ counters'.unregisters = counters.unregisters + 1
        /\ \A name \in CounterName \ {"unregisters"} : counters'[name] = counters[name]
    BY <1>1, <2>2 DEF CounterName
  <2>6. ActivePeers = ActivePeers' + 1
    <3>1. CASE h.role = Guide
      <4>1. ~peers'[Guide].active /\ peers'[Controller] = peers[Controller]
        BY <2>4, <3>1, RoleFacts
      <4> QED
        BY <2>1, <3>1, <4>1 DEF ActivePeers, One
    <3>2. CASE h.role = Controller
      <4>1. ~peers'[Controller].active /\ peers'[Guide] = peers[Guide]
        BY <2>4, <3>2, RoleFacts
      <4> QED
        BY <2>1, <3>2, <4>1 DEF ActivePeers, One
    <3> QED
      BY <2>1, <3>1, <3>2, RoleFacts
  <2>7. PeersAccounted'
    BY <1>1, <2>5, <2>6 DEF PeersAccounted, CounterName, ActivePeers, One
  <2> QED
    BY <1>1, <2>3, <2>5, <2>7, <2>8, QuietStep DEF Unregister, TypeOK, CounterName
<1> QED
  BY <1>2, <1>3
\* One(condition), once and for all.
LEMMA OneValue ==
  ASSUME NEW condition \in BOOLEAN
  PROVE  One(condition) \in {0, 1} /\ (condition => One(condition) = 1)
         /\ (~condition => One(condition) = 0)
  BY DEF One

LEMMA OneOfRole ==
  ASSUME TypeOK
  PROVE  /\ \A role \in Role : peers[role].active \in BOOLEAN
         /\ ActivePeers \in Nat
<1>1. \A role \in Role : peers[role].active \in BOOLEAN
  BY DEF TypeOK, Endpoints
<1>2. One(peers[Guide].active) \in {0, 1} /\ One(peers[Controller].active) \in {0, 1}
  BY <1>1, OneValue, RoleFacts
<1> QED
  BY <1>1, <1>2 DEF ActivePeers

LEMMA NewPeerType ==
  ASSUME TypeOK, NEW h \in Headers, NEW source \in Address
  PROVE  /\ NewPeer(h, source) \in Endpoints
         /\ NewPeer(h, source).active = TRUE
<1>1. h.session \in Nat /\ h.sequence \in Sequence /\ clock \in Nat /\ 0 \in Sequence
  BY RelayAssumption DEF Headers, TypeOK, Sequence
<1> QED
  BY <1>1 DEF NewPeer, Endpoints

LEMMA RegisterInv ==
  ASSUME RelayInv, NEW h \in Headers, NEW source \in Address, Register(h, source),
         UNCHANGED clock, handled' \in Nat
  PROVE  RelayInv'
<1>1. TypeOK /\ PeersAccounted /\ counters \in [CounterName -> Nat]
  BY CounterDomain DEF RelayInv, TypeOK
<1> DEFINE evicted == One(peers[h.role].active)
<1>2. h.role \in Role /\ evicted \in Nat
  BY <1>1, OneOfRole, OneValue DEF Headers
<1>3. /\ peers' \in [Role -> Endpoints]
      /\ peers'[h.role] = NewPeer(h, source)
      /\ \A role \in Role \ {h.role} : peers'[role] = peers[role]
  BY <1>1, <1>2, NewPeerType DEF Register, TypeOK
<1>4. /\ tenures' \in [Role -> Nat]
      /\ tenures'[h.role] = tenures[h.role] + 1
      /\ \A role \in Role \ {h.role} : tenures'[role] = tenures[role]
  BY <1>1, <1>2 DEF Register, TypeOK
<1>5. /\ counters' \in [CounterName -> Nat]
      /\ \A name \in CounterName \ {"registrations", "replacements"} :
           counters'[name] = counters[name]
      /\ counters'.registrations = counters.registrations + 1
      /\ counters'.replacements = counters.replacements + evicted
  <2>1. /\ "registrations" \in CounterName /\ "replacements" \in CounterName
        /\ "registrations" # "replacements"
    BY DEF CounterName
  <2>2. counters' = [counters EXCEPT !.registrations = @ + 1, !.replacements = @ + evicted]
    BY DEF Register
  <2> HIDE DEF CounterName, evicted
  <2> QED
    BY <1>1, <1>2, <2>1, <2>2, CountTwo
<1>6. TypeOK'
  BY <1>1, <1>3, <1>4, <1>5, CounterDomain DEF TypeOK, Register
<1>7. ActivePeers' = ActivePeers + 1 - evicted
  <2>1. \A role \in Role : One(peers[role].active) \in {0, 1}
    BY <1>1, OneOfRole, OneValue
  <2>2. peers'[h.role].active = TRUE /\ One(peers'[h.role].active) = 1
    BY <1>1, <1>3, NewPeerType, OneValue
  <2>3. CASE h.role = Guide
    <3>1. One(peers'[Controller].active) = One(peers[Controller].active)
      BY <1>3, <2>3, RoleFacts
    <3> HIDE DEF One
    <3> QED
      BY <2>1, <2>2, <2>3, <3>1, RoleFacts DEF ActivePeers
  <2>4. CASE h.role = Controller
    <3>1. One(peers'[Guide].active) = One(peers[Guide].active)
      BY <1>3, <2>4, RoleFacts
    <3> HIDE DEF One
    <3> QED
      BY <2>1, <2>2, <2>4, <3>1, RoleFacts DEF ActivePeers
  <2> QED
    BY <1>2, <2>3, <2>4, RoleFacts
<1>8. PeersAccounted'
  <2>1. ActivePeers \in Nat
    BY <1>1, OneOfRole
  <2>2. /\ counters'.unregisters = counters.unregisters
        /\ counters'.expirations = counters.expirations
        /\ \A name \in CounterName : counters[name] \in Nat
        /\ {"registrations", "replacements", "unregisters", "expirations"} \subseteq CounterName
    BY <1>1, <1>5 DEF CounterName
  <2> HIDE DEF CounterName, evicted
  <2> QED
    BY <1>1, <1>2, <1>5, <1>7, <2>1, <2>2 DEF PeersAccounted
<1>9. FramesAccounted'
  <2>1. /\ counters'.commands = counters.commands /\ counters'.states = counters.states
        /\ counters'.dropped = counters.dropped
    BY <1>5 DEF CounterName
  <2> QED
    BY <2>1 DEF RelayInv, FramesAccounted, Register
<1>10. TenureInv'
  <2> SUFFICES ASSUME NEW role \in Role, NEW i \in DOMAIN accepted[role]
               PROVE  HolderKnows(role, accepted[role][i])'
    BY DEF TenureInv, Register
  <2>1. HolderKnows(role, accepted[role][i]) /\ accepted'[role] = accepted[role]
    BY DEF RelayInv, TenureInv, Register
  <2>2. accepted[role][i] \in Entries
    BY <1>1 DEF TypeOK
  <2>3. accepted[role][i].tenure \in Nat
    BY <2>2 DEF Entries
  <2>4. tenures[role] \in Nat
    BY <1>1 DEF TypeOK
  <2>5. CASE role = h.role
    BY <1>4, <2>1, <2>3, <2>4, <2>5 DEF HolderKnows
  <2>6. CASE role # h.role
    BY <1>3, <1>4, <2>1, <2>6 DEF HolderKnows
  <2> QED
    BY <2>5, <2>6
<1>11. AcceptedInOrder' /\ TenuresAreExclusive'
  BY DEF RelayInv, AcceptedInOrder, TenuresAreExclusive, Register
<1> QED
  BY <1>6, <1>8, <1>9, <1>10, <1>11 DEF RelayInv

LEMMA ExpireInv ==
  ASSUME RelayInv, Expire
  PROVE  RelayInv'
<1>1. TypeOK /\ PeersAccounted /\ counters \in [CounterName -> Nat]
  BY CounterDomain DEF RelayInv, TypeOK
<1> DEFINE removed(role) == One(Silent(role))
<1>2. \A role \in Role :
        /\ removed(role) \in {0, 1}
        /\ One(peers[role].active) \in {0, 1}
        /\ One(peers'[role].active) = One(peers[role].active) - removed(role)
        /\ StillThere(role)
        /\ peers'[role] \in Endpoints
  <2> SUFFICES ASSUME NEW role \in Role
               PROVE  /\ removed(role) \in {0, 1}
                      /\ One(peers[role].active) \in {0, 1}
                      /\ One(peers'[role].active) = One(peers[role].active) - removed(role)
                      /\ StillThere(role)
                      /\ peers'[role] \in Endpoints
    OBVIOUS
  <2>1. CASE Silent(role)
    <3>1. peers'[role] = EmptyPeer /\ peers[role].active
      BY <2>1 DEF Expire, Silent
    <3> QED
      BY <2>1, <3>1, EmptyPeerType DEF One, StillThere
  <2>2. CASE ~Silent(role)
    <3>1. peers'[role] = peers[role]
      BY <2>2 DEF Expire
    <3>2. peers[role] \in Endpoints
      BY <1>1 DEF TypeOK
    <3> QED
      BY <2>2, <3>1, <3>2 DEF One, StillThere
  <2> QED
    BY <2>1, <2>2
<1>3. peers' \in [Role -> Endpoints]
  BY <1>2 DEF Expire
<1> DEFINE total == removed(Guide) + removed(Controller)
<1>4. /\ counters' \in [CounterName -> Nat]
      /\ counters'.expirations = counters.expirations + total
      /\ \A name \in CounterName \ {"expirations"} : counters'[name] = counters[name]
  <2>1. counters' = [counters EXCEPT !.expirations = (@ + removed(Guide)) + removed(Controller)]
    BY DEF Expire
  <2>2. removed(Guide) \in Nat /\ removed(Controller) \in Nat
    BY <1>2, RoleFacts
  <2>3. "expirations" \in CounterName
    BY DEF CounterName
  <2> HIDE DEF removed, CounterName
  <2> QED
    BY <1>1, <2>1, <2>2, <2>3
<1>5. ActivePeers' = ActivePeers - total /\ total \in Nat /\ ActivePeers \in Nat
  <2> HIDE DEF removed, One
  <2> QED
    BY <1>2, RoleFacts DEF ActivePeers
<1>6. PeersAccounted'
  <2>1. /\ counters'.registrations = counters.registrations
        /\ counters'.replacements = counters.replacements
        /\ counters'.unregisters = counters.unregisters
        /\ counters.expirations \in Nat /\ counters.registrations \in Nat
        /\ counters.replacements \in Nat /\ counters.unregisters \in Nat
    BY <1>1, <1>4 DEF CounterName
  <2> HIDE DEF total
  <2> QED
    BY <1>1, <1>4, <1>5, <2>1 DEF PeersAccounted
<1>7. /\ counters'.commands = counters.commands /\ counters'.states = counters.states
      /\ counters'.dropped = counters.dropped
  BY <1>4 DEF CounterName
<1> QED
  BY <1>1, <1>2, <1>3, <1>4, <1>6, <1>7, QuietStep DEF Expire, TypeOK

LEMMA ReadClockInv ==
  ASSUME RelayInv, ReadClock
  PROVE  RelayInv'
<1>1. TypeOK /\ counters \in [CounterName -> Nat]
  BY CounterDomain DEF RelayInv, TypeOK
<1>2. clock' \in Nat
  BY <1>1, RelayAssumption DEF ReadClock, TypeOK
<1>3. \A role \in Role : StillThere(role)
  BY DEF ReadClock, StillThere
<1>4. PeersAccounted'
  BY DEF RelayInv, PeersAccounted, ActivePeers, ReadClock
<1> QED
  BY <1>1, <1>2, <1>3, <1>4, QuietStep DEF ReadClock, TypeOK

LEMMA RestartInv ==
  ASSUME RelayInv, Restart
  PROVE  RelayInv'
<1>1. /\ peers' = [role \in Role |-> EmptyPeer] /\ counters' = ZeroCounters
      /\ tenures' = [role \in Role |-> 0] /\ accepted' = [role \in Role |-> << >>]
      /\ handled' = 0 /\ written' = 0
  BY DEF Restart
<1>2. clock' \in Nat
  BY RelayAssumption DEF Restart, RelayInv, TypeOK
<1>3. TypeOK'
  BY <1>1, <1>2, EmptyPeerType, CounterDomain DEF TypeOK
<1>4. PeersAccounted'
  BY <1>1, RoleFacts, EmptyPeerType DEF PeersAccounted, ActivePeers, One, ZeroCounters
<1>5. FramesAccounted'
  BY <1>1, RoleFacts DEF FramesAccounted, ZeroCounters
<1>6. TenureInv' /\ AcceptedInOrder' /\ TenuresAreExclusive'
  BY <1>1 DEF TenureInv, AcceptedInOrder, TenuresAreExclusive
<1> QED
  BY <1>3, <1>4, <1>5, <1>6 DEF RelayInv
-----------------------------------------------------------------------------
(***************************************************************************)
(* Data frames.                                                            *)
(***************************************************************************)

\* The entry that an accepted frame adds to the history.
Entry(h, source, length) ==
  [tenure |-> tenures[h.role], address |-> source, session |-> h.session,
   sequence |-> h.sequence, length |-> length]

\* What appending an entry does to a role's history.
LEMMA AppendEntry ==
  ASSUME NEW s \in Seq(Entries), NEW e \in Entries
  PROVE  /\ Append(s, e) \in Seq(Entries)
         /\ Len(Append(s, e)) = Len(s) + 1
         /\ DOMAIN Append(s, e) = DOMAIN s \cup {Len(s) + 1}
         /\ \A i \in DOMAIN s : i < Len(s) + 1 /\ Append(s, e)[i] = s[i]
         /\ Append(s, e)[Len(s) + 1] = e
  OBVIOUS

LEMMA ForwardDataInv ==
  ASSUME RelayInv, NEW h, WellFormed(h), NEW source \in Address, NEW length \in Nat,
         NEW taken \in BOOLEAN, ForwardData(h, source, length, taken),
         UNCHANGED clock, handled' \in Nat
  PROVE  RelayInv'
<1> DEFINE r == h.role
           e == Entry(h, source, length)
           n == Len(accepted[r])
<1>1. TypeOK /\ PeersAccounted /\ counters \in [CounterName -> Nat]
  BY CounterDomain DEF RelayInv, TypeOK
<1>2. /\ h \in Headers /\ r \in Role
      /\ h.sequence \in Sequence /\ h.sequence \in Nat /\ h.session \in Nat
  BY RelayAssumption DEF WellFormed, Headers, Sequence
<1>3. e \in Entries
  BY <1>1, <1>2 DEF Entry, Entries, TypeOK
<1>4. /\ peers[r] \in Endpoints /\ peers[r].active
      /\ peers[r].address = source /\ peers[r].session = h.session
      /\ peers[r].lastData \in Nat /\ peers[r].dataSet \in BOOLEAN
      /\ peers[r].dataSet => h.sequence > peers[r].lastData
  <2>1. peers[r].active /\ peers[r].address = source /\ peers[r].session = h.session
    BY DEF ForwardData, FromHolder
  <2>2. ~(peers[r].dataSet /\ h.sequence <= peers[r].lastData)
    BY DEF ForwardData, IsOld
  <2>3. peers[r] \in Endpoints
    BY <1>1, <1>2 DEF TypeOK
  <2>4. peers[r].lastData \in Nat /\ peers[r].dataSet \in BOOLEAN
    BY <2>3, RelayAssumption DEF Endpoints, Sequence
  <2> QED
    BY <1>2, <2>1, <2>2, <2>3, <2>4
<1>5. /\ peers' \in [Role -> Endpoints]
      /\ peers'[r].active /\ peers'[r].dataSet /\ peers'[r].lastData = h.sequence
      /\ peers'[r].address = source /\ peers'[r].session = h.session
      /\ \A role \in Role \ {r} : peers'[role] = peers[role]
  <2>1. peers' = [peers EXCEPT ![r].lastData = h.sequence, ![r].dataSet = TRUE,
                               ![r].lastSeen = clock]
    BY DEF ForwardData
  <2>2. clock \in Nat
    BY <1>1 DEF TypeOK
  <2>3. peers' \in [Role -> Endpoints]
    BY <1>1, <1>2, <1>4, <2>1, <2>2 DEF TypeOK, Endpoints
  <2>4. /\ peers'[r].active /\ peers'[r].dataSet /\ peers'[r].lastData = h.sequence
        /\ peers'[r].address = source /\ peers'[r].session = h.session
    BY <1>1, <1>2, <1>4, <2>1 DEF TypeOK, Endpoints
  <2>5. \A role \in Role \ {r} : peers'[role] = peers[role]
    BY <1>1, <2>1 DEF TypeOK
  <2> QED
    BY <2>3, <2>4, <2>5
<1>6. /\ accepted' \in [Role -> Seq(Entries)]
      /\ accepted'[r] = Append(accepted[r], e)
      /\ \A role \in Role \ {r} : accepted'[role] = accepted[role]
  <2>1. accepted' = [accepted EXCEPT ![r] = Append(@, e)]
    BY DEF ForwardData, Entry
  <2>2. accepted \in [Role -> Seq(Entries)]
    BY <1>1 DEF TypeOK
  <2> HIDE DEF e
  <2> QED
    BY <1>2, <1>3, <2>1, <2>2, AppendEntry
<1>7. /\ accepted[r] \in Seq(Entries) /\ n \in Nat
      /\ DOMAIN accepted'[r] = DOMAIN accepted[r] \cup {n + 1}
      /\ \A i \in DOMAIN accepted[r] : i < n + 1 /\ accepted'[r][i] = accepted[r][i]
      /\ accepted'[r][n + 1] = e /\ Len(accepted'[r]) = n + 1
  BY <1>1, <1>2, <1>3, <1>6, AppendEntry DEF TypeOK
<1>8. UNCHANGED tenures /\ tenures[r] \in Nat
  BY <1>1, <1>2 DEF ForwardData, TypeOK
<1>9. /\ e.tenure = tenures[r] /\ e.address = source /\ e.session = h.session
      /\ e.sequence = h.sequence
  BY DEF Entry
<1> HIDE DEF r, e, n
<1>10. \A i \in DOMAIN accepted[r] :
         /\ HolderKnows(r, accepted[r][i])
         /\ accepted[r][i] \in Entries
         /\ accepted[r][i].tenure \in Nat /\ accepted[r][i].sequence \in Nat
  <2> SUFFICES ASSUME NEW i \in DOMAIN accepted[r]
               PROVE  /\ HolderKnows(r, accepted[r][i])
                      /\ accepted[r][i] \in Entries
                      /\ accepted[r][i].tenure \in Nat /\ accepted[r][i].sequence \in Nat
    OBVIOUS
  <2>1. HolderKnows(r, accepted[r][i])
    BY <1>2 DEF RelayInv, TenureInv
  <2>2. accepted[r][i] \in Entries
    BY <1>7
  <2>3. accepted[r][i].tenure \in Nat /\ accepted[r][i].sequence \in Nat
    BY <2>2, RelayAssumption DEF Entries, Sequence
  <2> QED
    BY <2>1, <2>2, <2>3
<1>11. TenureInv'
  <2> SUFFICES ASSUME NEW role \in Role, NEW i \in DOMAIN accepted'[role]
               PROVE  HolderKnows(role, accepted[role][i])'
    BY DEF TenureInv
  <2>1. CASE role # r
    <3>1. HolderKnows(role, accepted[role][i]) /\ accepted'[role] = accepted[role]
      BY <1>6, <2>1 DEF RelayInv, TenureInv
    <3> QED
      BY <1>5, <1>8, <2>1, <3>1 DEF HolderKnows
  <2>2. CASE role = r /\ i = n + 1
    BY <1>2, <1>5, <1>7, <1>8, <1>9, <2>2 DEF HolderKnows
  <2>3. CASE role = r /\ i \in DOMAIN accepted[r]
    <3>1. accepted'[r][i] = accepted[r][i] /\ HolderKnows(r, accepted[r][i])
      BY <1>7, <1>10, <2>3
    <3> QED
      BY <1>2, <1>4, <1>5, <1>8, <1>10, <2>3, <3>1 DEF HolderKnows
  <2> QED
    BY <1>7, <2>1, <2>2, <2>3
<1>12. AcceptedInOrder'
  <2> SUFFICES ASSUME NEW role \in Role,
                      NEW i \in DOMAIN accepted'[role], NEW j \in DOMAIN accepted'[role],
                      i < j
               PROVE  \/ accepted'[role][i].tenure < accepted'[role][j].tenure
                      \/ /\ accepted'[role][i].tenure = accepted'[role][j].tenure
                         /\ accepted'[role][i].sequence < accepted'[role][j].sequence
    BY DEF AcceptedInOrder
  <2>1. CASE role # r
    BY <1>6, <2>1 DEF RelayInv, AcceptedInOrder
  <2>2. CASE role = r /\ i \in DOMAIN accepted[r] /\ j \in DOMAIN accepted[r]
    BY <1>2, <1>7, <2>2 DEF RelayInv, AcceptedInOrder
  <2>3. CASE role = r /\ i \in DOMAIN accepted[r] /\ j = n + 1
    <3>1. accepted'[role][i] = accepted[r][i] /\ accepted'[role][j] = e
      BY <1>7, <2>3
    <3>2. HolderKnows(r, accepted[r][i]) /\ accepted[r][i].tenure \in Nat
          /\ accepted[r][i].sequence \in Nat
      BY <1>10, <2>3
    <3>3. accepted[r][i].tenure < tenures[r] \/ accepted[r][i].tenure = tenures[r]
      BY <1>8, <3>2 DEF HolderKnows
    <3>4. accepted[r][i].tenure = tenures[r] => accepted[r][i].sequence < h.sequence
      BY <1>2, <1>4, <3>2 DEF HolderKnows
    <3> QED
      BY <1>9, <3>1, <3>3, <3>4
  <2>4. CASE role = r /\ i = n + 1
    BY <1>7, <2>4
  <2> QED
    BY <1>7, <2>1, <2>2, <2>3, <2>4
<1>13. TenuresAreExclusive'
  <2> SUFFICES ASSUME NEW role \in Role,
                      NEW i \in DOMAIN accepted'[role], NEW j \in DOMAIN accepted'[role],
                      accepted'[role][i].tenure = accepted'[role][j].tenure
               PROVE  /\ accepted'[role][i].address = accepted'[role][j].address
                      /\ accepted'[role][i].session = accepted'[role][j].session
    BY DEF TenuresAreExclusive
  <2>1. CASE role # r
    BY <1>6, <2>1 DEF RelayInv, TenuresAreExclusive
  <2>2. CASE role = r /\ i \in DOMAIN accepted[r] /\ j \in DOMAIN accepted[r]
    <3>1. accepted'[role][i] = accepted[role][i] /\ accepted'[role][j] = accepted[role][j]
      BY <1>7, <2>2
    <3> QED
      BY <2>2, <3>1 DEF RelayInv, TenuresAreExclusive
  <2>3. CASE role = r /\ (i = n + 1 \/ j = n + 1)
    BY <1>4, <1>7, <1>8, <1>9, <1>10, <2>3 DEF HolderKnows
  <2> QED
    BY <1>7, <2>1, <2>2, <2>3
<1>14. PICK g \in Nat, k \in Nat, c \in Nat, f \in Nat :
         /\ counters' = [counters EXCEPT
              !.sequenceGaps = (@ + g) % (MaxSequence + 1), !.dropped = @ + k,
              !.commands = @ + c, !.states = @ + f]
         /\ k = (IF taken THEN 0 ELSE 1)
         /\ c = (IF r = Guide THEN 1 ELSE 0)
         /\ f = (IF r = Controller THEN 1 ELSE 0)
  <2>1. Gap(h) \in Nat
    <3>1. CASE peers[r].dataSet /\ h.sequence > (peers[r].lastData + 1) % (MaxSequence + 1)
      <4>1. h.sequence - peers[r].lastData - 1 \in Nat
        BY <1>2, <1>4, <3>1
      <4> QED
        BY <3>1, <4>1 DEF Gap, r
    <3>2. CASE ~(peers[r].dataSet /\ h.sequence > (peers[r].lastData + 1) % (MaxSequence + 1))
      BY <3>2, Zenon DEF Gap, r
    <3> QED
      BY <3>1, <3>2
  <2>2. /\ One(~taken) \in Nat /\ One(~taken) = (IF taken THEN 0 ELSE 1)
        /\ One(h.type = CommandType) \in Nat /\ One(h.type = StateType) \in Nat
    BY DEF One
  <2>3. (h.type = CommandType <=> r = Guide) /\ (h.type = StateType <=> r = Controller)
    BY RoleFacts DEF ForwardData, WellFormed, r
  <2>4. /\ One(h.type = CommandType) = (IF r = Guide THEN 1 ELSE 0)
        /\ One(h.type = StateType) = (IF r = Controller THEN 1 ELSE 0)
    BY <2>3 DEF One
  <2>5. counters' = [counters EXCEPT
          !.sequenceGaps = (@ + Gap(h)) % (MaxSequence + 1), !.dropped = @ + One(~taken),
          !.commands = @ + One(h.type = CommandType), !.states = @ + One(h.type = StateType)]
    BY DEF ForwardData
  <2> HIDE DEF One, Gap
  <2> QED
    BY <2>1, <2>2, <2>4, <2>5
<1>15. /\ counters' \in [CounterName -> Nat]
       /\ counters'.dropped = counters.dropped + k
       /\ counters'.commands = counters.commands + c
       /\ counters'.states = counters.states + f
       /\ counters'.registrations = counters.registrations
       /\ counters'.replacements = counters.replacements
       /\ counters'.unregisters = counters.unregisters
       /\ counters'.expirations = counters.expirations
  <2>1. (counters.sequenceGaps + g) % (MaxSequence + 1) \in Nat
    BY <1>1, RelayAssumption DEF CounterName
  <2>2. /\ "sequenceGaps" \in CounterName
        /\ "dropped" \in CounterName \ {"sequenceGaps"}
        /\ "commands" \in CounterName \ {"sequenceGaps", "dropped"}
        /\ "states" \in CounterName \ {"sequenceGaps", "dropped", "commands"}
        /\ {"registrations", "replacements", "unregisters", "expirations"} \subseteq
             CounterName \ {"sequenceGaps", "dropped", "commands", "states"}
    BY DEF CounterName
  <2>3. /\ counters.dropped + k \in Nat /\ counters.commands + c \in Nat
        /\ counters.states + f \in Nat
    BY <1>1, <2>2
  <2> DEFINE gaps == (counters.sequenceGaps + g) % (MaxSequence + 1)
             new(name) == IF name = "sequenceGaps" THEN gaps
                          ELSE IF name = "dropped" THEN counters.dropped + k
                          ELSE IF name = "commands" THEN counters.commands + c
                          ELSE IF name = "states" THEN counters.states + f
                          ELSE counters[name]
  <2>4. counters' = [name \in CounterName |-> new(name)]
    <3> HIDE DEF CounterName, gaps
    <3>1. counters' = [counters EXCEPT
              !.sequenceGaps = gaps, !.dropped = @ + k, !.commands = @ + c, !.states = @ + f]
      BY <1>14 DEF gaps
    <3> QED
      BY <1>1, <2>2, <3>1
  <2>5. \A name \in CounterName : new(name) \in Nat
    <3> HIDE DEF CounterName
    <3> QED
      BY <1>1, <2>1, <2>3
  <2> HIDE DEF CounterName, gaps
  <2> QED
    BY <2>2, <2>4, <2>5
<1>16. PeersAccounted'
  <2>1. ActivePeers' = ActivePeers
    <3>1. CASE r = Guide
      <4>1. peers'[Controller] = peers[Controller] /\ peers'[Guide].active /\ peers[Guide].active
        BY <1>4, <1>5, <3>1, RoleFacts
      <4> QED
        BY <4>1 DEF ActivePeers, One
    <3>2. CASE r = Controller
      <4>1. /\ peers'[Guide] = peers[Guide]
            /\ peers'[Controller].active /\ peers[Controller].active
        BY <1>4, <1>5, <3>2, RoleFacts
      <4> QED
        BY <4>1 DEF ActivePeers, One
    <3> QED
      BY <1>2, <3>1, <3>2, RoleFacts
  <2> QED
    BY <1>1, <1>15, <2>1 DEF PeersAccounted
<1>17. FramesAccounted'
  <2>1. written \in Nat /\ written' \in Nat /\ written' + k = written + 1
    BY <1>1, <1>14 DEF ForwardData, One, TypeOK
  <2>2. /\ counters.commands = Len(accepted[Guide]) /\ counters.states = Len(accepted[Controller])
        /\ counters.commands + counters.states = written + counters.dropped
        /\ counters.commands \in Nat /\ counters.states \in Nat /\ counters.dropped \in Nat
    BY <1>1 DEF RelayInv, FramesAccounted, CounterName
  <2>3. CASE r = Guide
    <3>1. Len(accepted'[Guide]) = Len(accepted[Guide]) + 1 /\ c = 1 /\ f = 0
          /\ accepted'[Controller] = accepted[Controller]
      BY <1>6, <1>7, <1>14, <2>3, RoleFacts DEF n
    <3>2. k \in Nat
      BY <1>14
    <3>3. counters'.commands = Len(accepted'[Guide])
          /\ counters'.states = Len(accepted'[Controller])
      BY <1>15, <2>2, <3>1
    <3>4. counters'.commands + counters'.states = written' + counters'.dropped
      <4>1. /\ counters'.commands = counters.commands + c
            /\ counters'.states = counters.states + f
            /\ counters'.dropped = counters.dropped + k
        BY <1>15
      <4>2. counters.commands \in Nat /\ counters.states \in Nat /\ counters.dropped \in Nat
        BY <2>2
      <4>3. counters.commands + counters.states = written + counters.dropped
        BY <2>2
      <4> QED
        <5>1. c \in Nat /\ f \in Nat /\ c + f = 1
          BY <3>1
        <5>2. counters'.commands + counters'.states = counters.commands + counters.states + 1
          BY <4>1, <4>2, <5>1
        <5>3. written' + counters'.dropped = written + counters.dropped + 1
          <6>1. CASE taken
            <7>1. written' = written + 1 /\ counters'.dropped = counters.dropped
              BY <1>14, <2>1, <4>1, <4>2, <6>1
            <7> QED
              BY <2>1, <4>2, <7>1
          <6>2. CASE ~taken
            <7>1. written' = written /\ counters'.dropped = counters.dropped + 1
              BY <1>14, <2>1, <4>1, <4>2, <6>2
            <7> QED
              BY <2>1, <4>2, <7>1
          <6> QED
            BY <6>1, <6>2
        <5> QED
          BY <4>3, <5>2, <5>3
    <3> QED
      BY <3>3, <3>4 DEF FramesAccounted
  <2>4. CASE r = Controller
    <3>1. Len(accepted'[Controller]) = Len(accepted[Controller]) + 1 /\ c = 0 /\ f = 1
          /\ accepted'[Guide] = accepted[Guide]
      BY <1>6, <1>7, <1>14, <2>4, RoleFacts DEF n
    <3>2. k \in Nat
      BY <1>14
    <3>3. counters'.commands = Len(accepted'[Guide])
          /\ counters'.states = Len(accepted'[Controller])
      BY <1>15, <2>2, <3>1
    <3>4. counters'.commands + counters'.states = written' + counters'.dropped
      <4>1. /\ counters'.commands = counters.commands + c
            /\ counters'.states = counters.states + f
            /\ counters'.dropped = counters.dropped + k
        BY <1>15
      <4>2. counters.commands \in Nat /\ counters.states \in Nat /\ counters.dropped \in Nat
        BY <2>2
      <4>3. counters.commands + counters.states = written + counters.dropped
        BY <2>2
      <4> QED
        <5>1. c \in Nat /\ f \in Nat /\ c + f = 1
          BY <3>1
        <5>2. counters'.commands + counters'.states = counters.commands + counters.states + 1
          BY <4>1, <4>2, <5>1
        <5>3. written' + counters'.dropped = written + counters.dropped + 1
          <6>1. CASE taken
            <7>1. written' = written + 1 /\ counters'.dropped = counters.dropped
              BY <1>14, <2>1, <4>1, <4>2, <6>1
            <7> QED
              BY <2>1, <4>2, <7>1
          <6>2. CASE ~taken
            <7>1. written' = written /\ counters'.dropped = counters.dropped + 1
              BY <1>14, <2>1, <4>1, <4>2, <6>2
            <7> QED
              BY <2>1, <4>2, <7>1
          <6> QED
            BY <6>1, <6>2
        <5> QED
          BY <4>3, <5>2, <5>3
    <3> QED
      BY <3>3, <3>4 DEF FramesAccounted
  <2> QED
    BY <1>2, <2>3, <2>4, RoleFacts
<1>18. TypeOK'
  <2>1. written' \in Nat
    BY <1>1 DEF ForwardData, One, TypeOK
  <2> QED
    BY <1>1, <1>5, <1>6, <1>8, <1>15, <2>1, CounterDomain DEF TypeOK
<1> QED
  BY <1>11, <1>12, <1>13, <1>16, <1>17, <1>18 DEF RelayInv
-----------------------------------------------------------------------------
LEMMA HandleInv ==
  ASSUME RelayInv, NEW d \in Datagram, NEW source \in Address \cup {NoAddress},
         NEW taken \in BOOLEAN, Handle(d, source, taken)
  PROVE  RelayInv'
<1> DEFINE p == Received(d)
           h == HeaderOf(p)
<1>1. UNCHANGED clock /\ handled' \in Nat
  BY DEF Handle, RelayInv, TypeOK
<1>2. CASE Reject(p)
  BY <1>1, <1>2, RejectInv
<1>4. CASE Panic(h, source)
  <2>1. counters' \in [CounterName -> Nat] /\ counters' = counters
    BY <1>4, CounterDomain DEF Panic, RelayInv, TypeOK
  <2> QED
    BY <1>1, <1>4, <2>1, RefusalStep DEF Panic
<1>3. CASE ParsePacket(p) = "ok" /\ ~Reject(p) /\ ~Panic(h, source)
  <2>1. WellFormed(h) /\ h \in Headers /\ d.size \in Nat
    BY <1>3, ParsedHeader DEF WellFormed
  <2>2. \/ Refresh(h, source) \/ Register(h, source) \/ Unregister(h, source)
        \/ RefuseData(h, source) \/ ForwardData(h, source, d.size, taken)
    BY <1>3 DEF Handle
  <2> HIDE DEF h
  <2>3. Register(h, source) \/ ForwardData(h, source, d.size, taken) => source \in Address
    BY DEF Register, ForwardData, FromHolder
  <2> QED
    BY <1>1, <2>1, <2>2, <2>3,
       RefreshInv, RegisterInv, UnregisterInv, RefuseDataInv, ForwardDataInv
<1> QED
  BY <1>2, <1>3, <1>4 DEF Handle

\* The relay's invariant is inductive.
THEOREM RelayInductive == Spec => []RelayInv
<1>1. ASSUME RelayInv, [Next]_vars PROVE RelayInv'
  <2>1. ASSUME NEW d \in Datagram, NEW source \in Address \cup {NoAddress},
               NEW taken \in BOOLEAN, Handle(d, source, taken)
        PROVE  RelayInv'
    BY <1>1, <2>1, HandleInv
  <2>2. CASE Expire
    BY <1>1, <2>2, ExpireInv
  <2>3. CASE ReadClock
    BY <1>1, <2>3, ReadClockInv
  <2>4. CASE Restart
    BY <1>1, <2>4, RestartInv
  <2>5. CASE UNCHANGED vars
    <3> USE <1>1, <2>5 DEF vars, RelayInv
    <3>1. TypeOK'
      BY DEF TypeOK
    <3>2. PeersAccounted' /\ FramesAccounted'
      BY DEF PeersAccounted, ActivePeers, FramesAccounted
    <3>3. TenureInv'
      BY DEF TenureInv, HolderKnows
    <3>4. AcceptedInOrder' /\ TenuresAreExclusive'
      BY DEF AcceptedInOrder, TenuresAreExclusive
    <3> QED
      BY <3>1, <3>2, <3>3, <3>4
  <2> QED
    BY <1>1, <2>1, <2>2, <2>3, <2>4, <2>5 DEF Next
<1> QED
  BY <1>1, InitInv, PTL DEF Spec

\* The table's variables keep their types.
THEOREM RelayTypes == Spec => []TypeOK
  BY RelayInductive, PTL DEF RelayInv

\* Every registration is still active or was counted out in one of three ways.
THEOREM PeersAddUp == Spec => []PeersAccounted
  BY RelayInductive, PTL DEF RelayInv

\* Every accepted frame was written or counted as dropped.
THEOREM FramesAddUp == Spec => []FramesAccounted
  BY RelayInductive, PTL DEF RelayInv

\* No duplicate and no old frame is accepted within a tenure.
THEOREM InOrder == Spec => []AcceptedInOrder
  BY RelayInductive, PTL DEF RelayInv

\* The frames accepted within a tenure come from one endpoint.
THEOREM Exclusive == Spec => []TenuresAreExclusive
  BY RelayInductive, PTL DEF RelayInv

-----------------------------------------------------------------------------
(***************************************************************************)
(* The lengths of what is forwarded.                                       *)
(***************************************************************************)

\* A frame that the parser accepts arrived with the length of its type; only
\* a datagram that fills the receive buffer may have been longer.
LEMMA ParsedLength ==
  ASSUME NEW d \in Datagram, ParsePacket(Received(d)) = "ok"
  PROVE  /\ d.type = CommandType => d.size >= CommandSize
         /\ d.type = StateType => d.size = StateSize
<1> DEFINE p == Received(d)
<1>1. d.size \in Nat /\ d.type \in Nat /\ d \in PacketOf({d.motors})
  BY RelayAssumption DEF PacketOf
<1>2. /\ p.size = IF d.size > MaxPacketSize THEN MaxPacketSize ELSE d.size
      /\ p.type = d.type
  <2> DEFINE n == IF d.size > MaxPacketSize THEN MaxPacketSize ELSE d.size
  <2>1. p = [d EXCEPT !.size = n]
    BY DEF Received
  <2> HIDE DEF p, n
  <2>2. p.size = n /\ p.type = d.type
    BY <1>1, <2>1 DEF PacketOf
  <2> QED
    BY <2>2 DEF n
<1> HIDE DEF p
<1>3. p.payloadSize = ContractPayload(p.type) /\ p.size = HeaderSize + p.payloadSize + CrcSize
  BY DEF ParsePacket, p
<1>4. p.type = CommandType => p.size = CommandSize
  BY <1>3 DEF ContractPayload, CommandSize, CommandType, StateType
<1>5. p.type = StateType => p.size = StateSize
  BY <1>3 DEF ContractPayload, StateSize, StateType, CommandType
<1>6. CommandSize = 328 /\ StateSize = 280 /\ MaxPacketSize = 328
  <2>1. CommandPayloadSize = 288
    BY DEF CommandPayloadSize
  <2>2. StatePayloadSize = 240
    BY DEF StatePayloadSize
  <2>3. HeaderSize = 36 /\ CrcSize = 4
    BY DEF HeaderSize, CrcSize
  <2>4. CommandSize = 328 /\ StateSize = 280
    BY <2>1, <2>2, <2>3 DEF CommandSize, StateSize
  <2> QED
    BY <2>4 DEF MaxPacketSize
<1> QED
  BY <1>1, <1>2, <1>4, <1>5, <1>6

\* The lengths that frames were sent with: a command may be the beginning of a
\* longer datagram, of which the receive buffer holds just that much, a state
\* is as long as it must be.
ForwardedAreNotShort ==
  /\ \A i \in DOMAIN accepted[Guide] : accepted[Guide][i].length >= CommandSize
  /\ \A i \in DOMAIN accepted[Controller] : accepted[Controller][i].length = StateSize

LEMMA ForwardLength ==
  ASSUME RelayInv, ForwardedAreNotShort, NEW h, WellFormed(h), NEW source,
         NEW length, NEW taken \in BOOLEAN, ForwardData(h, source, length, taken),
         h.type = CommandType => length >= CommandSize,
         h.type = StateType => length = StateSize
  PROVE  ForwardedAreNotShort'
<1> DEFINE entry == [tenure |-> tenures[h.role], address |-> source, session |-> h.session,
                     sequence |-> h.sequence, length |-> length]
<1>1. h.role \in Role /\ accepted \in [Role -> Seq(Entries)]
  BY DEF WellFormed, Headers, RelayInv, TypeOK
<1>2. accepted' = [accepted EXCEPT ![h.role] = Append(@, entry)] /\ entry.length = length
  BY DEF ForwardData
<1> HIDE DEF entry
<1>3. /\ h.type \in {CommandType, StateType}
      /\ h.type = CommandType => h.role = Guide
      /\ h.type = StateType => h.role = Controller
  BY DEF ForwardData, WellFormed
<1>4. ASSUME NEW role \in Role, NEW i \in DOMAIN accepted'[role]
      PROVE  \/ i \in DOMAIN accepted[role] /\ accepted'[role][i] = accepted[role][i]
             \/ role = h.role /\ accepted'[role][i] = entry
  <2>1. CASE role = h.role
    <3>1. accepted[role] \in Seq(Entries) /\ accepted'[role] = Append(accepted[role], entry)
      BY <1>1, <1>2, <2>1
    <3> DEFINE s == accepted[role]
    <3>2. /\ Len(s) \in Nat /\ DOMAIN s = 1 .. Len(s)
          /\ Len(Append(s, entry)) = Len(s) + 1
          /\ DOMAIN Append(s, entry) = 1 .. Len(s) + 1
      BY <3>1
    <3>3. CASE i = Len(s) + 1
      BY <2>1, <3>1, <3>3
    <3>4. CASE i # Len(s) + 1
      <4>1. i \in 1 .. Len(s)
        BY <1>4, <3>1, <3>2, <3>4
      <4> QED
        BY <3>1, <3>2, <4>1
    <3> QED
      BY <3>3, <3>4
  <2>2. CASE role # h.role
    BY <1>1, <1>2, <1>4, <2>2
  <2> QED
    BY <2>1, <2>2
<1>5. ASSUME NEW i \in DOMAIN accepted'[Guide]
      PROVE  accepted'[Guide][i].length >= CommandSize
  BY <1>2, <1>3, <1>4, <1>5, RoleFacts DEF ForwardedAreNotShort
<1>6. ASSUME NEW i \in DOMAIN accepted'[Controller]
      PROVE  accepted'[Controller][i].length = StateSize
  BY <1>2, <1>3, <1>4, <1>6, RoleFacts DEF ForwardedAreNotShort
<1> QED
  BY <1>5, <1>6 DEF ForwardedAreNotShort

\* What the relay's check of lengths leaves of MalformedLengthsAreRejected,
\* which is false of commands: nothing that was sent too short is forwarded,
\* and no state that was sent too long.
THEOREM ForwardsNothingShort == Spec => []ForwardedAreNotShort
<1>1. Init => ForwardedAreNotShort
  BY RoleFacts DEF Init, ForwardedAreNotShort
<1>2. ASSUME RelayInv, ForwardedAreNotShort, [Next]_vars PROVE ForwardedAreNotShort'
  <2>1. ASSUME UNCHANGED accepted PROVE ForwardedAreNotShort'
    BY <1>2, <2>1 DEF ForwardedAreNotShort
  <2>2. ASSUME NEW d \in Datagram, NEW source \in Address \cup {NoAddress},
               NEW taken \in BOOLEAN, Handle(d, source, taken)
        PROVE  ForwardedAreNotShort'
    <3> DEFINE h == HeaderOf(Received(d))
    <3>1. CASE ParsePacket(Received(d)) = "ok" /\ ForwardData(h, source, d.size, taken)
      <4>1. h.type = d.type
        BY RelayAssumption DEF HeaderOf, Received, PacketOf
      <4>2. WellFormed(h)
        BY <3>1, ParsedHeader
      <4>3. /\ h.type = CommandType => d.size >= CommandSize
            /\ h.type = StateType => d.size = StateSize
        BY <3>1, <4>1, ParsedLength
      <4> HIDE DEF h
      <4> QED
        BY <1>2, <3>1, <4>2, <4>3, ForwardLength
    <3>2. CASE ~(ParsePacket(Received(d)) = "ok" /\ ForwardData(h, source, d.size, taken))
      <4>1. UNCHANGED accepted
        BY <2>2, <3>2 DEF Handle, Reject, Panic, Refresh, Register, Unregister, RefuseData,
                          history
      <4> QED
        BY <2>1, <4>1
    <3> QED
      BY <3>1, <3>2
  <2>3. CASE Expire \/ ReadClock \/ UNCHANGED vars
    BY <2>1, <2>3 DEF Expire, ReadClock, vars, history
  <2>4. CASE Restart
    BY <2>4, RoleFacts DEF Restart, ForwardedAreNotShort
  <2> QED
    BY <1>2, <2>2, <2>3, <2>4 DEF Next
<1> QED
  BY <1>1, <1>2, RelayInductive, PTL DEF Spec
-----------------------------------------------------------------------------
(***************************************************************************)
(* The sequence gaps.                                                      *)
(***************************************************************************)

\* The terms of TotalSkipped are integers, and so is their sum.
LEMMA SkippedType ==
  ASSUME NEW s \in Seq(Entries)
  PROVE  /\ Len(s) \in Nat /\ DOMAIN s = 1 .. Len(s)
         /\ \A i \in DOMAIN s : Skipped(s, i) \in Int
         /\ TotalSkipped(s) \in Int
<1>1. Len(s) \in Nat /\ DOMAIN s = 1 .. Len(s)
  OBVIOUS
<1>2. \A i \in DOMAIN s : s[i].sequence \in Int
  <2>1. \A i \in DOMAIN s : s[i] \in Entries
    OBVIOUS
  <2> QED
    BY <2>1, RelayAssumption DEF Entries, Sequence
<1>3. ASSUME NEW i \in DOMAIN s PROVE Skipped(s, i) \in Int
  <2>1. CASE i > 1
    <3>1. i - 1 \in DOMAIN s
      BY <1>1, <2>1
    <3> QED
      BY <1>2, <2>1, <3>1 DEF Skipped
  <2>2. CASE ~(i > 1)
    BY <2>2 DEF Skipped
  <2> QED
    BY <2>1, <2>2
<1> DEFINE terms == [i \in DOMAIN s |-> Skipped(s, i)]
<1>4. IsFiniteSet(DOMAIN terms) /\ \A i \in DOMAIN terms : terms[i] \in Int
  BY <1>1, <1>3, FS_Interval
<1> HIDE DEF terms
<1>5. SumFunctionOnSet(terms, DOMAIN terms) \in Int
  BY <1>4, SumType
<1> QED
  BY <1>1, <1>3, <1>5 DEF TotalSkipped, SumFunction, terms

\* A new frame adds what was skipped before it.
LEMMA SkippedByAppend ==
  ASSUME NEW s \in Seq(Entries), NEW e \in Entries
  PROVE  TotalSkipped(Append(s, e)) = TotalSkipped(s) + Skipped(Append(s, e), Len(s) + 1)
<1> DEFINE t == Append(s, e)
           n == Len(s)
           old == [i \in DOMAIN s |-> Skipped(s, i)]
           new == [i \in DOMAIN t |-> Skipped(t, i)]
<1>1. /\ t \in Seq(Entries) /\ n \in Nat /\ DOMAIN s = 1 .. n
      /\ DOMAIN t = DOMAIN s \cup {n + 1}
      /\ \A i \in DOMAIN s : t[i] = s[i]
  BY AppendEntry
<1>2. \A i \in DOMAIN s : Skipped(t, i) = Skipped(s, i)
  <2>1. \A i \in DOMAIN s : i > 1 => i - 1 \in DOMAIN s
    BY <1>1
  <2> HIDE DEF t, n
  <2> QED
    BY <1>1, <2>1 DEF Skipped
<1>3. \A i \in DOMAIN t : Skipped(t, i) \in Int
  BY <1>1, SkippedType
<1>4. TotalSkipped(s) \in Int /\ TotalSkipped(t) = SumFunctionOnSet(new, DOMAIN t)
      /\ TotalSkipped(s) = SumFunctionOnSet(old, DOMAIN s)
  BY SkippedType DEF TotalSkipped, SumFunction
<1>5. IsFiniteSet(DOMAIN s) /\ n + 1 \notin DOMAIN s
  BY <1>1, FS_Interval
<1>6. /\ \A i \in DOMAIN s \cup {n + 1} : new[i] \in Int
      /\ \A i \in DOMAIN s : new[i] = old[i]
      /\ new[n + 1] = Skipped(t, n + 1)
  <2> HIDE DEF t, n
  <2> QED
    BY <1>1, <1>2, <1>3
<1> HIDE DEF new, old, t, n
<1>7. SumFunctionOnSet(new, DOMAIN s \cup {n + 1}) = new[n + 1] + SumFunctionOnSet(new, DOMAIN s)
  BY <1>5, <1>6, SumAdd
<1>8. SumFunctionOnSet(new, DOMAIN s) = SumFunctionOnSet(old, DOMAIN s)
  BY <1>5, <1>6, SumCong
<1>9. TotalSkipped(t) = TotalSkipped(s) + Skipped(t, n + 1)
  BY <1>1, <1>3, <1>4, <1>6, <1>7, <1>8
<1> QED
  BY <1>9 DEF t, n

\* Steps that accept no frame and count no gap.
LEMMA NoGapStep ==
  ASSUME GapsInv, UNCHANGED accepted, counters'.sequenceGaps = counters.sequenceGaps,
         \A role \in Role : peers'[role].dataSet =>
           /\ peers[role].dataSet /\ peers'[role].lastData = peers[role].lastData
           /\ tenures'[role] = tenures[role]
  PROVE  HolderSentNewest' /\ GapsAccounted'
<1>1. HolderSentNewest'
  BY DEF GapsInv, HolderSentNewest, Newest
<1>2. GapsAccounted'
  BY DEF GapsInv, GapsAccounted
<1> QED
  BY <1>1, <1>2

\* Every handler but ForwardData is such a step.
LEMMA ControlStep ==
  ASSUME GapsInv, NEW h \in Headers, NEW source,
         Refresh(h, source) \/ Register(h, source) \/ Unregister(h, source)
           \/ RefuseData(h, source)
  PROVE  HolderSentNewest' /\ GapsAccounted'
<1>1. TypeOK /\ counters \in [CounterName -> Nat] /\ peers \in [Role -> Endpoints]
      /\ tenures \in [Role -> Nat] /\ h.role \in Role
  BY CounterDomain DEF GapsInv, RelayInv, TypeOK, Headers
<1>2. UNCHANGED accepted
  BY DEF Refresh, Register, Unregister, RefuseData, history
<1>3. counters'.sequenceGaps = counters.sequenceGaps
  <2>1. CASE Refresh(h, source)
    BY <1>1, <2>1 DEF Refresh, CounterName
  <2>2. CASE Register(h, source)
    BY <1>1, <2>2 DEF Register, CounterName
  <2>3. CASE Unregister(h, source)
    BY <1>1, <2>3 DEF Unregister, CounterName
  <2>4. CASE RefuseData(h, source)
    BY <1>1, <2>4 DEF RefuseData, CounterName
  <2> QED
    BY <2>1, <2>2, <2>3, <2>4
<1>4. ASSUME NEW role \in Role, peers'[role].dataSet
      PROVE  /\ peers[role].dataSet /\ peers'[role].lastData = peers[role].lastData
             /\ tenures'[role] = tenures[role]
  <2>1. CASE Refresh(h, source)
    BY <1>1, <1>4, <2>1 DEF Refresh, Endpoints, history
  <2>2. CASE Register(h, source)
    <3>1. peers'[h.role] = NewPeer(h, source) /\ ~NewPeer(h, source).dataSet
      BY <1>1, <2>2 DEF Register, NewPeer
    <3>2. role # h.role
      BY <1>4, <3>1
    <3> QED
      BY <1>1, <1>4, <2>2, <3>2 DEF Register
  <2>3. CASE Unregister(h, source)
    <3>1. ~EmptyPeer.dataSet
      BY DEF EmptyPeer
    <3> QED
      BY <1>1, <1>4, <2>3, <3>1 DEF Unregister, history
  <2>4. CASE RefuseData(h, source)
    BY <1>4, <2>4 DEF RefuseData, history
  <2> QED
    BY <2>1, <2>2, <2>3, <2>4
<1> QED
  BY <1>2, <1>3, <1>4, NoGapStep

\* What the relay counts at an accepted frame is what lies between the frame
\* and the one before it in the same tenure.
LEMMA GapIsSkipped ==
  ASSUME GapsInv, NEW h, WellFormed(h), NEW source \in Address, NEW length \in Nat,
         NEW taken \in BOOLEAN, ForwardData(h, source, length, taken)
  PROVE  Gap(h) = Skipped(Append(accepted[h.role], Entry(h, source, length)),
                          Len(accepted[h.role]) + 1)
<1> DEFINE r == h.role
           s == accepted[r]
           n == Len(s)
           t == Append(s, Entry(h, source, length))
           last == peers[r].lastData
<1>1. TypeOK /\ r \in Role /\ h.sequence \in Nat /\ h.sequence <= MaxSequence
      /\ h.session \in Nat /\ h.sequence \in Sequence
  BY RelayAssumption DEF GapsInv, RelayInv, WellFormed, Headers, Sequence
<1>2. s \in Seq(Entries) /\ peers[r] \in Endpoints /\ n \in Nat /\ tenures[r] \in Nat
      /\ DOMAIN s = 1 .. n
  BY <1>1 DEF TypeOK
<1>3. last \in Nat /\ peers[r].active /\ ~IsOld(h) /\ MaxSequence \in Nat
  BY <1>2, RelayAssumption DEF ForwardData, FromHolder, Endpoints, Sequence
<1>4. Entry(h, source, length) \in Entries
  BY <1>1, <1>2 DEF Entry, Entries
<1>5. /\ \A i \in DOMAIN s : t[i] = s[i]
      /\ t[n + 1].sequence = h.sequence
      /\ t[n + 1].tenure = tenures[r]
  BY <1>2, <1>4, AppendEntry DEF Entry
<1>6. CASE peers[r].dataSet
  <2>1. /\ n > 0 /\ s[n].tenure = tenures[r] /\ s[n].sequence = last
    BY <1>1, <1>2, <1>6 DEF GapsInv, HolderSentNewest, Newest
  <2>2. n \in DOMAIN s /\ (n + 1) - 1 = n
    BY <1>2, <2>1
  <2> HIDE DEF s, n, t
  <2>3. Skipped(t, n + 1) = h.sequence - last - 1
    BY <1>2, <1>5, <2>1, <2>2 DEF Skipped
  <2>4. h.sequence > last
    BY <1>1, <1>3, <1>6 DEF IsOld
  <2>5. (last + 1) % (MaxSequence + 1) = last + 1
    BY <1>1, <1>3, <2>4
  <2>6. Gap(h) = h.sequence - last - 1
    BY <1>1, <1>3, <1>6, <2>4, <2>5 DEF Gap
  <2> QED
    BY <2>3, <2>6 DEF s, n, t
<1>7. CASE ~peers[r].dataSet
  <2>1. Gap(h) = 0
    BY <1>7 DEF Gap
  <2>2. ASSUME n > 0 PROVE s[n].tenure # tenures[r]
    <3>1. n \in DOMAIN s
      BY <1>2, <2>2
    <3>2. HolderKnows(r, s[n])
      BY <1>1, <3>1 DEF GapsInv, RelayInv, TenureInv
    <3> QED
      BY <1>3, <1>7, <3>2 DEF HolderKnows
  <2>3. n > 0 => n \in DOMAIN s /\ (n + 1) - 1 = n
    BY <1>2
  <2> HIDE DEF s, n, t
  <2>4. Skipped(t, n + 1) = 0
    BY <1>2, <1>5, <2>2, <2>3 DEF Skipped
  <2> QED
    BY <2>1, <2>4 DEF s, n, t
<1> QED
  BY <1>6, <1>7

LEMMA ForwardGaps ==
  ASSUME GapsInv, NEW h, WellFormed(h), NEW source \in Address, NEW length \in Nat,
         NEW taken \in BOOLEAN, ForwardData(h, source, length, taken)
  PROVE  HolderSentNewest' /\ GapsAccounted'
<1> DEFINE r == h.role
           e == Entry(h, source, length)
<1>1. TypeOK /\ r \in Role /\ h.sequence \in Sequence /\ h.session \in Nat
      /\ MaxSequence \in Nat /\ h.sequence \in Nat
  BY RelayAssumption DEF GapsInv, RelayInv, WellFormed, Headers, Sequence
<1>2. /\ \A role \in Role : accepted[role] \in Seq(Entries)
      /\ tenures[r] \in Nat /\ peers[r] \in Endpoints
  BY <1>1 DEF TypeOK
<1>3. e \in Entries
  BY <1>1, <1>2 DEF Entry, Entries
<1>4. /\ accepted'[r] = Append(accepted[r], e)
      /\ \A role \in Role \ {r} : accepted'[role] = accepted[role]
  BY <1>1 DEF ForwardData, Entry, TypeOK
<1>5. HolderSentNewest'
  <2>1. /\ peers'[r].lastData = h.sequence /\ UNCHANGED tenures
        /\ \A role \in Role \ {r} : peers'[role] = peers[role]
    BY <1>1, <1>2 DEF ForwardData, TypeOK, Endpoints
  <2>2. e.tenure = tenures[r] /\ e.sequence = h.sequence
    BY DEF Entry
  <2>3. accepted'[r] # << >> /\ Newest(r)' = e
    <3>1. Len(accepted'[r]) = Len(accepted[r]) + 1 /\ Len(accepted[r]) \in Nat
          /\ accepted'[r][Len(accepted[r]) + 1] = e
      BY <1>1, <1>2, <1>3, <1>4, AppendEntry
    <3> QED
      BY <3>1 DEF Newest
  <2> HIDE DEF e
  <2>4. ASSUME NEW role \in Role \ {r}, peers'[role].dataSet
        PROVE  /\ accepted'[role] # << >> /\ Newest(role)'.tenure = tenures'[role]
               /\ Newest(role)'.sequence = peers'[role].lastData
    BY <1>4, <2>1, <2>4 DEF GapsInv, HolderSentNewest, Newest
  <2> QED
    BY <2>1, <2>2, <2>3, <2>4 DEF HolderSentNewest
<1>6. /\ TotalSkipped(accepted'[r]) = TotalSkipped(accepted[r]) + Gap(h)
      /\ Gap(h) \in Int
  <2>1. Gap(h) = Skipped(accepted'[r], Len(accepted[r]) + 1)
    BY <1>4, GapIsSkipped
  <2>2. accepted'[r] \in Seq(Entries) /\ Len(accepted[r]) + 1 \in DOMAIN accepted'[r]
    BY <1>1, <1>2, <1>3, <1>4, AppendEntry
  <2> HIDE DEF e, r
  <2> QED
    BY <1>1, <1>2, <1>3, <1>4, <2>1, <2>2, SkippedByAppend, SkippedType
<1>7. counters'.sequenceGaps = (counters.sequenceGaps + Gap(h)) % (MaxSequence + 1)
  <2>1. counters \in [CounterName -> Nat]
    BY <1>1, CounterDomain DEF TypeOK
  <2> HIDE DEF One, Gap
  <2> QED
    BY <2>1 DEF ForwardData, CounterName
<1> DEFINE all == TotalSkipped(accepted[Guide]) + TotalSkipped(accepted[Controller])
<1>8. all' = all + Gap(h) /\ all \in Int
  <2>1. Guide \in Role /\ Controller \in Role /\ Guide # Controller /\ r \in {Guide, Controller}
    BY <1>1, RoleFacts
  <2>2. \A role \in Role : TotalSkipped(accepted[role]) \in Int
    BY <1>2, SkippedType
  <2>3. CASE r = Guide
    <3>1. TotalSkipped(accepted'[Guide]) = TotalSkipped(accepted[Guide]) + Gap(h)
      BY <1>6, <2>3
    <3>2. accepted'[Controller] = accepted[Controller]
      BY <1>4, <2>1, <2>3
    <3> HIDE DEF r, Gap
    <3> QED
      BY <1>6, <2>1, <2>2, <3>1, <3>2
  <2>4. CASE r = Controller
    <3>1. TotalSkipped(accepted'[Controller]) = TotalSkipped(accepted[Controller]) + Gap(h)
      BY <1>6, <2>4
    <3>2. accepted'[Guide] = accepted[Guide]
      BY <1>4, <2>1, <2>4
    <3> HIDE DEF r, Gap
    <3> QED
      BY <1>6, <2>1, <2>2, <3>1, <3>2
  <2> QED
    BY <2>1, <2>3, <2>4
<1>9. counters.sequenceGaps = all % (MaxSequence + 1) /\ MaxSequence + 1 \in Nat \ {0}
  BY <1>1 DEF GapsInv, GapsAccounted
<1>10. counters'.sequenceGaps = all' % (MaxSequence + 1)
  <2> HIDE DEF all
  <2> QED
    BY <1>6, <1>7, <1>8, <1>9, RemainderOfSum
<1> QED
  BY <1>5, <1>10 DEF GapsAccounted

\* A relay that has just started.
LEMMA EmptyGaps ==
  /\ Init => HolderSentNewest /\ GapsAccounted
  /\ Restart => HolderSentNewest' /\ GapsAccounted'
<1>1. TotalSkipped(<< >>) = 0
  <2>1. DOMAIN [i \in DOMAIN << >> |-> Skipped(<< >>, i)] = {}
    OBVIOUS
  <2> QED
    BY <2>1, SumOfNone DEF TotalSkipped, SumFunction
<1>2. 0 % (MaxSequence + 1) = 0
  BY RelayAssumption
<1>3. ASSUME Init PROVE HolderSentNewest /\ GapsAccounted
  BY <1>1, <1>2, <1>3, RoleFacts
     DEF Init, HolderSentNewest, EmptyPeer, GapsAccounted, ZeroCounters
<1>4. ASSUME Restart PROVE HolderSentNewest' /\ GapsAccounted'
  BY <1>1, <1>2, <1>4, RoleFacts
     DEF Restart, HolderSentNewest, EmptyPeer, GapsAccounted, ZeroCounters
<1> QED
  BY <1>3, <1>4

LEMMA GapsStep ==
  ASSUME GapsInv, [Next]_vars
  PROVE  HolderSentNewest' /\ GapsAccounted'
<1>1. counters \in [CounterName -> Nat]
  BY CounterDomain DEF GapsInv, RelayInv, TypeOK
<1>2. ASSUME NEW d \in Datagram, NEW source \in Address \cup {NoAddress},
             NEW taken \in BOOLEAN, Handle(d, source, taken)
      PROVE  HolderSentNewest' /\ GapsAccounted'
  <2> DEFINE p == Received(d)
             h == HeaderOf(p)
  <2>1. CASE Reject(p)
    <3>1. counters'.sequenceGaps = counters.sequenceGaps
      BY <1>1, <2>1 DEF Reject, CounterName
    <3> QED
      BY <2>1, <3>1, NoGapStep DEF Reject, history
  <2>2. CASE Panic(h, source)
    BY <2>2, NoGapStep DEF Panic, history
  <2>3. CASE ParsePacket(p) = "ok" /\ ~Reject(p) /\ ~Panic(h, source)
    <3>1. WellFormed(h) /\ h \in Headers /\ d.size \in Nat
      BY <2>3, ParsedHeader DEF WellFormed
    <3>2. \/ Refresh(h, source) \/ Register(h, source) \/ Unregister(h, source)
          \/ RefuseData(h, source) \/ ForwardData(h, source, d.size, taken)
      BY <1>2, <2>3 DEF Handle
    <3> HIDE DEF h
    <3>3. ForwardData(h, source, d.size, taken) => source \in Address
      BY DEF ForwardData, FromHolder
    <3> QED
      BY <3>1, <3>2, <3>3, ControlStep, ForwardGaps
  <2> QED
    BY <1>2, <2>1, <2>2, <2>3 DEF Handle
<1>3. CASE Expire
  <2>1. counters'.sequenceGaps = counters.sequenceGaps
    BY <1>1, <1>3 DEF Expire, CounterName
  <2>2. \A role \in Role : peers'[role] \in {EmptyPeer, peers[role]}
    BY <1>3 DEF Expire
  <2>3. ~EmptyPeer.dataSet
    BY DEF EmptyPeer
  <2> QED
    BY <1>3, <2>1, <2>2, <2>3, NoGapStep DEF Expire, history
<1>4. CASE ReadClock \/ UNCHANGED vars
  BY <1>4, NoGapStep DEF ReadClock, vars, history
<1>5. CASE Restart
  BY <1>5, EmptyGaps
<1> QED
  BY <1>2, <1>3, <1>4, <1>5 DEF Next

\* The gap counter is the number of sequence numbers skipped within tenures,
\* modulo its width.
THEOREM GapsAddUp == Spec => []GapsAccounted
<1>1. Init => GapsInv
  BY InitInv, EmptyGaps DEF Init, GapsInv
<1>2. GapsInv /\ [Next]_vars /\ RelayInv' => GapsInv'
  BY GapsStep DEF GapsInv
<1>3. GapsInv => GapsAccounted
  BY DEF GapsInv
<1> QED
  BY <1>1, <1>2, <1>3, RelayInductive, PTL DEF Spec
=============================================================================
