-------------------------------- MODULE Relay --------------------------------
(***************************************************************************)
(* The Go relay's endpoint table and what each datagram and each           *)
(* maintenance pass does to it (handle, register, unregister, acceptData,  *)
(* route, expire).  One goroutine runs them one after the other, so each   *)
(* is one action.  What may arrive is any datagram of Datagram from any    *)
(* address: the relay knows its peers only by what they send.  RelayLoop   *)
(* adds the socket, the clients and the loop that calls these actions.     *)
(***************************************************************************)
EXTENDS WireProtocol, Sequences, Functions

CONSTANTS
  Address,       \* the source addresses of datagrams
  NoAddress,     \* the nil address of an empty endpoint
  Datagram,      \* what may be sent to the relay's socket
  MaxSequence,   \* the largest sequence number: 2^64 - 1 in the code
  Lease,         \* how long a silent peer keeps its place
  MaxClock,      \* bound: the clock stops here
  MaxHandled     \* bound: no datagram is handled after this many

ASSUME RelayAssumption ==
  /\ NoAddress \notin Address
  /\ MaxSequence \in Nat \ {0}
  /\ Lease \in Nat /\ MaxClock \in Nat /\ MaxHandled \in Nat
  /\ \A d \in Datagram : d \in PacketOf({d.motors}) /\ d.sequence <= MaxSequence

VARIABLES
  peers,      \* the endpoint of each role
  counters,   \* the relay's metrics
  clock,      \* time.Now(), as the loop last read it
  handled,    \* number of datagrams handled, for the bound MaxHandled
  panicked,   \* the process has ended at a nil address
  tenures,    \* history: per role, the registrations so far
  accepted,   \* history: per role, the data frames acceptData let through
  written     \* history: the frames WriteToUnix took

history == <<tenures, accepted, written>>
vars == <<peers, counters, clock, handled, panicked, tenures, accepted, written>>
-----------------------------------------------------------------------------
EmptyPeer == [active |-> FALSE, address |-> NoAddress, session |-> 0, lastSeen |-> 0,
              lastControl |-> 0, lastData |-> 0, dataSet |-> FALSE]

ZeroCounters == [commands |-> 0, states |-> 0, dropped |-> 0, invalid |-> 0, crcErrors |-> 0,
                 unauthorized |-> 0, sequenceGaps |-> 0, oldSequence |-> 0,
                 registrations |-> 0, replacements |-> 0, unregisters |-> 0,
                 expirations |-> 0]

Init ==
  /\ peers = [role \in Role |-> EmptyPeer]
  /\ counters = ZeroCounters
  /\ clock = 0
  /\ handled = 0
  /\ panicked = FALSE
  /\ tenures = [role \in Role |-> 0]
  /\ accepted = [role \in Role |-> << >>]
  /\ written = 0

One(condition) == IF condition THEN 1 ELSE 0

ActivePeers == One(peers[Guide].active) + One(peers[Controller].active)

Other(role) == IF role = Guide THEN Controller ELSE Guide

\* Mutant: sessions are not compared.
FromHolderOfAnySession(h, source) == peers[h.role].active /\ peers[h.role].address = source

\* The datagram comes from the endpoint that holds its role; NoAddress, the
\* source of a datagram from a socket without a name, is nobody's address.
FromHolder(h, source) ==
  /\ peers[h.role].active /\ source # NoAddress
  /\ peers[h.role].address = source /\ peers[h.role].session = h.session
-----------------------------------------------------------------------------
\* handle, first part: what parsePacket refuses is counted and forgotten.
Reject(p) ==
  /\ ParsePacket(p) # "ok"
  /\ counters' = [counters EXCEPT !.invalid = @ + 1,
                                  !.crcErrors = @ + One(ParsePacket(p) = "crc")]
  /\ UNCHANGED <<peers, history>>

\* Mutant: a heartbeat does not renew the lease.
RefreshNothing(h, source) ==
  /\ h.type = RegisterType /\ FromHolder(h, source)
  /\ peers' = [peers EXCEPT ![h.role].lastControl = h.sequence]
  /\ UNCHANGED <<counters, history>>

\* register, the holder again: a heartbeat renews the lease, an old one not.
Refresh(h, source) ==
  /\ h.type = RegisterType /\ FromHolder(h, source)
  /\ IF h.sequence <= peers[h.role].lastControl
     THEN /\ counters' = [counters EXCEPT !.oldSequence = @ + 1]
          /\ UNCHANGED peers
     ELSE /\ peers' = [peers EXCEPT ![h.role].lastControl = h.sequence,
                                    ![h.role].lastSeen = clock]
          /\ UNCHANGED counters
  /\ UNCHANGED history

\* register, anybody else: the newcomer takes the role over.
NewPeer(h, source) ==
  [active |-> TRUE, address |-> source, session |-> h.session, lastSeen |-> clock,
   lastControl |-> h.sequence, lastData |-> 0, dataSet |-> FALSE]

Register(h, source) ==
  /\ h.type = RegisterType /\ ~FromHolder(h, source) /\ source # NoAddress
  /\ counters' = [counters EXCEPT !.registrations = @ + 1,
                                  !.replacements = @ + One(peers[h.role].active)]
  /\ peers' = [peers EXCEPT ![h.role] = NewPeer(h, source)]
  /\ tenures' = [tenures EXCEPT ![h.role] = @ + 1]
  /\ UNCHANGED <<accepted, written>>

\* register copies *source, also when source is nil.
Panic(h, source) ==
  /\ h.type = RegisterType /\ source = NoAddress
  /\ panicked' = TRUE
  /\ UNCHANGED <<peers, counters, history>>

Unregister(h, source) ==
  /\ h.type = UnregisterType
  /\ IF FromHolder(h, source) /\ h.sequence > peers[h.role].lastControl
     THEN /\ peers' = [peers EXCEPT ![h.role] = EmptyPeer]
          /\ counters' = [counters EXCEPT !.unregisters = @ + 1]
     ELSE /\ counters' = [counters EXCEPT !.unauthorized = @ + 1]
          /\ UNCHANGED peers
  /\ UNCHANGED history

\* Mutant: only the duplicate of the newest frame is refused.
IsOldIfSame(h) ==
  h.sequence = 0 \/ (peers[h.role].dataSet /\ h.sequence = peers[h.role].lastData)

\* acceptData's three refusals.
IsOld(h) ==
  h.sequence = 0 \/ (peers[h.role].dataSet /\ h.sequence <= peers[h.role].lastData)

RefuseData(h, source) ==
  /\ h.type \in {CommandType, StateType}
  /\ \/ /\ ~FromHolder(h, source)
        /\ counters' = [counters EXCEPT !.unauthorized = @ + 1]
     \/ /\ FromHolder(h, source) /\ IsOld(h)
        /\ counters' = [counters EXCEPT !.oldSequence = @ + 1]
  /\ UNCHANGED <<peers, history>>

\* Mutant: the first frame of a tenure counts from zero.
GapFromZero(h) ==
  IF h.sequence > (peers[h.role].lastData + 1) % (MaxSequence + 1)
  THEN h.sequence - peers[h.role].lastData - 1
  ELSE 0

\* The sequence numbers skipped before h, in uint64 arithmetic.
Gap(h) ==
  IF peers[h.role].dataSet /\ h.sequence > (peers[h.role].lastData + 1) % (MaxSequence + 1)
  THEN h.sequence - peers[h.role].lastData - 1
  ELSE 0

\* route: the frame goes to the other role's peer, if there is one and the
\* socket takes it; the datagram as received, whatever its sender's length.
\* commands and states count it either way.
Routable(h) == peers[Other(h.role)].active

\* Mutant: a frame that is dropped is not counted under its type.
ForwardDataCountingTaken(h, source, length, taken) ==
  /\ h.type \in {CommandType, StateType}
  /\ FromHolder(h, source) /\ ~IsOld(h)
  /\ taken => Routable(h)
  /\ peers' = [peers EXCEPT ![h.role].lastData = h.sequence, ![h.role].dataSet = TRUE,
                            ![h.role].lastSeen = clock]
  /\ counters' = [counters EXCEPT
       !.dropped = @ + One(~taken),
       !.commands = @ + One(taken /\ h.type = CommandType),
       !.states = @ + One(taken /\ h.type = StateType)]
  /\ accepted' = [accepted EXCEPT ![h.role] =
       Append(@, [tenure |-> tenures[h.role], address |-> source,
                  session |-> h.session, sequence |-> h.sequence, length |-> length])]
  /\ written' = written + One(taken)
  /\ UNCHANGED tenures

ForwardData(h, source, length, taken) ==
  /\ h.type \in {CommandType, StateType}
  /\ FromHolder(h, source) /\ ~IsOld(h)
  /\ taken => Routable(h)
  /\ peers' = [peers EXCEPT ![h.role].lastData = h.sequence,
                            ![h.role].dataSet = TRUE,
                            ![h.role].lastSeen = clock]
  /\ counters' = [counters EXCEPT
       !.sequenceGaps = (@ + Gap(h)) % (MaxSequence + 1),
       !.dropped = @ + One(~taken),
       !.commands = @ + One(h.type = CommandType),
       !.states = @ + One(h.type = StateType)]
  /\ accepted' = [accepted EXCEPT ![h.role] =
       Append(@, [tenure |-> tenures[h.role], address |-> source,
                  session |-> h.session, sequence |-> h.sequence, length |-> length])]
  /\ written' = written + One(taken)
  /\ UNCHANGED tenures

\* handle: one datagram, of which the socket delivers at most a buffer full;
\* taken says whether WriteToUnix succeeds if the datagram gets that far.
Handle(d, source, taken) ==
  LET p == Received(d)
      h == HeaderOf(p)
  IN  /\ ~panicked
      /\ handled < MaxHandled /\ handled' = handled + 1
      /\ \/ Reject(p) /\ panicked' = panicked
         \/ ParsePacket(p) = "ok" /\ Panic(h, source)
         \/ /\ ParsePacket(p) = "ok" /\ panicked' = panicked
            /\ \/ Refresh(h, source) \/ Register(h, source) \/ Unregister(h, source)
               \/ RefuseData(h, source) \/ ForwardData(h, source, d.size, taken)
      /\ UNCHANGED clock

\* expire: both roles in one pass.
Silent(role) == peers[role].active /\ clock - peers[role].lastSeen > Lease

\* Mutants: a pass counts as one expiration; a pass stops at its first.
ExpirePass ==
  /\ \E role \in Role : Silent(role)
  /\ peers' = [role \in Role |-> IF Silent(role) THEN EmptyPeer ELSE peers[role]]
  /\ counters' = [counters EXCEPT !.expirations = @ + 1]
  /\ panicked' = panicked /\ UNCHANGED <<clock, handled, history>>
ExpireFirst ==
  LET first == IF Silent(Guide) THEN Guide ELSE Controller IN
  /\ Silent(first)
  /\ peers' = [peers EXCEPT ![first] = EmptyPeer]
  /\ counters' = [counters EXCEPT !.expirations = @ + 1]
  /\ panicked' = panicked /\ UNCHANGED <<clock, handled, history>>

Expire ==
  /\ ~panicked
  /\ \E role \in Role : Silent(role)
  /\ peers' = [role \in Role |-> IF Silent(role) THEN EmptyPeer ELSE peers[role]]
  /\ counters' = [counters EXCEPT
       !.expirations = @ + One(Silent(Guide)) + One(Silent(Controller))]
  /\ panicked' = panicked /\ UNCHANGED <<clock, handled, history>>

\* The loop looks at the clock again.
ReadClock ==
  /\ ~panicked
  /\ clock' \in clock + 1 .. MaxClock
  /\ panicked' = panicked /\ UNCHANGED <<peers, counters, handled, history>>

\* The process ends, and another one starts with an empty table.
Restart ==
  /\ peers' = [role \in Role |-> EmptyPeer]
  /\ counters' = ZeroCounters
  /\ handled' = 0
  /\ panicked' = FALSE
  /\ tenures' = [role \in Role |-> 0]
  /\ accepted' = [role \in Role |-> << >>]
  /\ written' = 0
  /\ clock' \in clock .. MaxClock

Next ==
  \/ \E d \in Datagram, source \in Address \cup {NoAddress}, taken \in BOOLEAN :
       Handle(d, source, taken)
  \/ Expire
  \/ ReadClock
  \/ Restart

Spec == Init /\ [][Next]_vars
-----------------------------------------------------------------------------
(***************************************************************************)
(* Properties.                                                             *)
(***************************************************************************)

Sequence == 0 .. MaxSequence

Endpoints == [active : BOOLEAN, address : Address \cup {NoAddress}, session : Nat,
              lastSeen : Nat, lastControl : Sequence, lastData : Sequence,
              dataSet : BOOLEAN]

Entries == [tenure : Nat, address : Address, session : Nat, sequence : Sequence,
            length : Nat]

TypeOK ==
  /\ peers \in [Role -> Endpoints]
  /\ counters \in [DOMAIN ZeroCounters -> Nat]
  /\ clock \in Nat /\ handled \in Nat /\ written \in Nat
  /\ tenures \in [Role -> Nat]
  /\ accepted \in [Role -> Seq(Entries)]

\* Every registration is still there or was ended in exactly one of the three
\* ways that are counted, over any order of replacements, unregistrations and
\* expirations of both roles.
PeersAccounted ==
  counters.registrations =
    counters.replacements + counters.unregisters + counters.expirations + ActivePeers

\* Every frame that acceptData lets through is written once or counted as
\* dropped, and counted under its type; nothing else is written.
FramesAccounted ==
  /\ counters.commands = Len(accepted[Guide])
  /\ counters.states = Len(accepted[Controller])
  /\ counters.commands + counters.states = written + counters.dropped

\* Among the frames of one tenure, from a Register to whatever ends it, the
\* numbers strictly increase: no duplicate and no old frame is forwarded.
AcceptedInOrder ==
  \A role \in Role : \A i, j \in DOMAIN accepted[role] :
    i < j =>
      \/ accepted[role][i].tenure < accepted[role][j].tenure
      \/ /\ accepted[role][i].tenure = accepted[role][j].tenure
         /\ accepted[role][i].sequence < accepted[role][j].sequence

\* All the frames of a tenure come from one address and one session.
TenuresAreExclusive ==
  \A role \in Role : \A i, j \in DOMAIN accepted[role] :
    accepted[role][i].tenure = accepted[role][j].tenure =>
      /\ accepted[role][i].address = accepted[role][j].address
      /\ accepted[role][i].session = accepted[role][j].session

\* What makes both inductive: the frames of the current tenure all came from
\* the endpoint that still holds the role, and it knows its largest number.
HolderKnows(role, entry) ==
  /\ entry.tenure <= tenures[role]
  /\ peers[role].active /\ entry.tenure = tenures[role] =>
       /\ peers[role].dataSet /\ entry.sequence <= peers[role].lastData
       /\ entry.address = peers[role].address /\ entry.session = peers[role].session

TenureInv == \A role \in Role : \A i \in DOMAIN accepted[role] :
               HolderKnows(role, accepted[role][i])

RelayInv ==
  /\ TypeOK /\ PeersAccounted /\ FramesAccounted
  /\ TenureInv /\ AcceptedInOrder /\ TenuresAreExclusive

\* sequenceGaps is the number of sequence numbers skipped between two frames
\* of the same tenure, added over all tenures of both roles: neither the first
\* frame of a tenure nor a refused frame counts.
Skipped(frames, i) ==
  IF i > 1 /\ frames[i - 1].tenure = frames[i].tenure
  THEN frames[i].sequence - frames[i - 1].sequence - 1
  ELSE 0

TotalSkipped(frames) == SumFunction([i \in DOMAIN frames |-> Skipped(frames, i)])

GapsAccounted ==
  counters.sequenceGaps =
    (TotalSkipped(accepted[Guide]) + TotalSkipped(accepted[Controller])) % (MaxSequence + 1)

\* What makes it inductive: once a holder has sent data, its last number is
\* that of the role's last accepted frame.
Newest(role) == accepted[role][Len(accepted[role])]

HolderSentNewest ==
  \A role \in Role : peers[role].dataSet =>
    /\ accepted[role] # << >> /\ Newest(role).tenure = tenures[role]
    /\ Newest(role).sequence = peers[role].lastData

GapsInv == RelayInv /\ HolderSentNewest /\ GapsAccounted

\* What go_relay's README says of duplicates, taken over a whole session: a
\* number that an endpoint's session has used is not accepted again.
SessionNumbersAreUsedOnce ==
  \A role \in Role : \A i, j \in DOMAIN accepted[role] :
    i # j => \/ accepted[role][i].address # accepted[role][j].address
             \/ accepted[role][i].session # accepted[role][j].session
             \/ accepted[role][i].sequence # accepted[role][j].sequence

\* What go_relay's README says of lengths: malformed ones are rejected.  What
\* is forwarded was then sent as long as its type is, to the byte.
MalformedLengthsAreRejected ==
  /\ \A i \in DOMAIN accepted[Guide] : accepted[Guide][i].length = CommandSize
  /\ \A i \in DOMAIN accepted[Controller] : accepted[Controller][i].length = StateSize

\* What go_relay's README says of unregistered addresses: they are rejected,
\* the relay goes on.
UnregisteredAddressesAreRejected == ~panicked
=============================================================================
