------------------------------ MODULE RelayLoop ------------------------------
(***************************************************************************)
(* The relay process around its endpoint table: serve's loop with its      *)
(* signal check, read deadline and maintenance pass, the socket it reads,  *)
(* and the clients that register with it, keep their leases, publish,      *)
(* leave and die.  The table is Relay's; every step of this module is a    *)
(* step of Relay or leaves its variables alone.                            *)
(*                                                                         *)
(* Time is counted in maintenance periods.  The clients are the C++        *)
(* programs that own the other end of the sockets; they are not part of    *)
(* the repository and are modelled from what the relay expects of them.    *)
(***************************************************************************)
EXTENDS WireProtocol, Sequences

CONSTANTS
  Client,        \* client programs; a client's address is its name
  Plays,         \* the role each of them plays
  NoAddress, NoDatagram,
  MaxSequence,   \* the largest sequence number
  Lease,         \* the relay's -lease
  Heartbeat,     \* the clients' registration period
  QueueLimit,    \* datagrams the kernel queues on the relay's socket
  InboxLimit,    \* datagrams the kernel queues on a client's socket
  MaxStall,      \* bound: periods the scheduler takes from the loop in all
  MaxTime,       \* bound: time stops here
  MaxSession,    \* bound: times a client is started
  MaxLaunch,     \* bound: times the relay is started again
  MaxData,       \* bound: per client, data frames in a session
  MaxHandled     \* bound of Relay

Period == 1      \* the 100 ms of nextMaintenance

ASSUME LoopAssumption ==
  /\ Plays \in [Client -> Role]
  /\ {Lease, Heartbeat, MaxStall, MaxTime, MaxSession, MaxLaunch,
     MaxHandled} \subseteq Nat
  /\ MaxData \in [Client -> Nat]
  /\ {QueueLimit, InboxLimit, MaxSequence} \subseteq Nat \ {0}
  /\ Lease > Heartbeat    \* main refuses a lease within the heartbeat

VARIABLES
  peers, counters, clock, handled, tenures, accepted, written,   \* Relay's
  pc,         \* where serve is
  deadline,   \* nextMaintenance, which is also the socket's read deadline
  current,    \* the datagram read and not yet handled
  queue,      \* the relay's socket
  signal,     \* a SIGINT or SIGTERM waits in the channel
  time,       \* the real time; clock is what the loop last read of it
  stalled,    \* periods the loop has been kept waiting
  launches,   \* times the relay was started again
  client,     \* each client's state
  inbox       \* per client: datagrams it has not read yet

table == <<peers, counters, clock, handled, tenures, accepted, written>>
loop == <<pc, deadline, current>>
world == <<time, launches>>
vars == <<table, loop, queue, signal, world, stalled, client, inbox>>

\* What clients send.
Control(c, type, sequence, session) ==
  Encoded([type |-> type, role |-> Plays[c], sequence |-> sequence, session |-> session],
          0, "none")
Data(c, sequence, session) ==
  LET kind == IF Plays[c] = Guide THEN "command" ELSE "state"
  IN  EncodeFrame(kind, [header |-> [type |-> TypeOf(kind), role |-> Plays[c],
                                     sequence |-> sequence, session |-> session],
                         motors |-> "some"])

Sent ==
  {Control(c, type, n, s) :
     c \in Client, type \in ControlTypes, n \in 1 .. MaxSequence, s \in 1 .. MaxSession}
  \cup UNION {{Data(c, n, s) : n \in 1 .. MaxData[c], s \in 1 .. MaxSession} : c \in Client}

Table == INSTANCE Relay WITH Address <- Client, Datagram <- Sent, MaxClock <- MaxTime,
                             panicked <- FALSE   \* the clients name their sockets
-----------------------------------------------------------------------------
DownClient == [up |-> FALSE, session |-> 0, control |-> 0, data |-> 0, due |-> 0, since |-> 0]

Init ==
  /\ Table!Init
  /\ pc = "check" /\ deadline = Period /\ current = NoDatagram
  /\ queue = << >> /\ signal = FALSE
  /\ time = 0 /\ launches = 0 /\ stalled = 0
  /\ client = [c \in Client |-> DownClient]
  /\ inbox = [c \in Client |-> 0]
-----------------------------------------------------------------------------
(***************************************************************************)
(* The clients.                                                            *)
(***************************************************************************)

\* A datagram that finds no socket or a full one is lost to its sender.
Send(c, d) ==
  queue' = IF pc # "stopped" /\ Len(queue) < QueueLimit
           THEN Append(queue, [datagram |-> d, source |-> c]) ELSE queue

Start(c) ==
  /\ ~client[c].up /\ client[c].session < MaxSession
  /\ LET session == client[c].session + 1 IN
     /\ client' = [client EXCEPT ![c] =
          [up |-> TRUE, session |-> session, control |-> 1, data |-> 0,
           due |-> time + Heartbeat, since |-> time]]
     /\ Send(c, Control(c, RegisterType, 1, session))
  /\ UNCHANGED <<table, loop, signal, world, stalled, inbox>>

Beat(c) ==
  /\ client[c].up /\ client[c].due <= time /\ client[c].control < MaxSequence
  /\ client' = [client EXCEPT ![c].control = @ + 1, ![c].due = time + Heartbeat]
  /\ Send(c, Control(c, RegisterType, client[c].control + 1, client[c].session))
  /\ UNCHANGED <<table, loop, signal, world, stalled, inbox>>

Publish(c) ==
  /\ client[c].up /\ client[c].data < MaxData[c]
  /\ client' = [client EXCEPT ![c].data = @ + 1]
  /\ Send(c, Data(c, client[c].data + 1, client[c].session))
  /\ UNCHANGED <<table, loop, signal, world, stalled, inbox>>

Leave(c) ==
  /\ client[c].up /\ client[c].control < MaxSequence
  /\ client' = [client EXCEPT ![c].up = FALSE]
  /\ inbox' = [inbox EXCEPT ![c] = 0]
  /\ Send(c, Control(c, UnregisterType, client[c].control + 1, client[c].session))
  /\ UNCHANGED <<table, loop, signal, world, stalled>>

Die(c) ==
  /\ client[c].up
  /\ client' = [client EXCEPT ![c].up = FALSE]
  /\ inbox' = [inbox EXCEPT ![c] = 0]
  /\ UNCHANGED <<table, loop, queue, signal, world, stalled>>

Receive(c) ==
  /\ inbox[c] > 0
  /\ inbox' = [inbox EXCEPT ![c] = @ - 1]
  /\ UNCHANGED <<table, loop, queue, signal, world, stalled, client>>
-----------------------------------------------------------------------------
(***************************************************************************)
(* serve.                                                                  *)
(***************************************************************************)

\* The select at the top of the loop; on the way out the deferred calls close
\* and remove the socket.
CheckSignal ==
  /\ pc = "check"
  /\ IF signal THEN pc' = "stopped" /\ queue' = << >>
               ELSE pc' = "read" /\ UNCHANGED queue
  /\ UNCHANGED <<table, deadline, current, signal, world, stalled, client, inbox>>

\* time.Now() after the read.
LookAtClock ==
  IF clock = time THEN UNCHANGED table ELSE Table!ReadClock /\ clock' = time

ReadDatagram ==
  /\ pc = "read" /\ queue # << >>
  /\ current' = Head(queue) /\ queue' = Tail(queue)
  /\ pc' = "handle"
  /\ LookAtClock
  /\ UNCHANGED <<deadline, signal, world, stalled, client, inbox>>

\* Mutant: the socket is read without a deadline.
NoDeadline == FALSE

\* Once the deadline has passed, a read fails with a timeout before it looks
\* at the socket, also when datagrams are waiting there.  MaxTime stands for
\* every later time: there no deadline is awaited in vain.
DeadlinePassed == time >= deadline \/ time = MaxTime

ReadTimeout ==
  /\ pc = "read" /\ DeadlinePassed
  /\ pc' = "maintain"
  /\ LookAtClock
  /\ UNCHANGED <<deadline, current, queue, signal, world, stalled, client, inbox>>

\* Where WriteToUnix would send the current datagram; a write to a living
\* client whose queue is full waits, without a deadline, until it has room.
WouldForward ==
  LET p == Received(current.datagram)
      h == HeaderOf(p)
  IN  /\ ParsePacket(p) = "ok" /\ h.type \in {CommandType, StateType}
      /\ Table!FromHolder(h, current.source) /\ ~Table!IsOld(h) /\ Table!Routable(h)

Destination == peers[Table!Other(current.datagram.role)].address

Blocked == WouldForward /\ client[Destination].up /\ inbox[Destination] >= InboxLimit

\* Mutant: a peer that cannot be written to is forgotten.
HandleDatagramForgetting ==
  /\ pc = "handle" /\ ~Blocked
  /\ IF WouldForward /\ ~client[Destination].up
     THEN /\ peers' = [peers EXCEPT ![Table!Other(current.datagram.role)] = Table!EmptyPeer]
          /\ UNCHANGED <<counters, clock, handled, tenures, accepted, written>>
     ELSE Table!Handle(current.datagram, current.source, WouldForward)
  /\ current' = NoDatagram /\ pc' = "maintain"
  /\ UNCHANGED <<deadline, queue, signal, world, stalled, client, inbox>>

HandleDatagram ==
  LET taken == WouldForward /\ client[Destination].up IN
  /\ pc = "handle" /\ ~Blocked
  /\ Table!Handle(current.datagram, current.source, taken)
  /\ inbox' = IF taken THEN [inbox EXCEPT ![Destination] = @ + 1] ELSE inbox
  /\ current' = NoDatagram
  /\ pc' = "maintain"
  /\ UNCHANGED <<deadline, queue, signal, world, stalled, client>>

Maintain ==
  /\ pc = "maintain"
  /\ IF clock >= deadline
     THEN /\ deadline' = clock + Period
          /\ IF \E role \in Role : Table!Silent(role) THEN Table!Expire ELSE UNCHANGED table
     ELSE UNCHANGED <<table, deadline>>
  /\ pc' = "check"
  /\ UNCHANGED <<current, queue, signal, world, stalled, client, inbox>>

ServeStep == CheckSignal \/ ReadDatagram \/ ReadTimeout \/ HandleDatagram \/ Maintain
-----------------------------------------------------------------------------
(***************************************************************************)
(* The world around the loop.                                              *)
(***************************************************************************)

RaiseSignal ==
  /\ pc # "stopped" /\ ~signal /\ signal' = TRUE
  /\ UNCHANGED <<table, loop, queue, world, stalled, client, inbox>>

\* The relay is killed; its queue goes with its socket.
Kill ==
  /\ pc # "stopped"
  /\ pc' = "stopped" /\ queue' = << >> /\ current' = NoDatagram
  /\ UNCHANGED <<table, deadline, signal, world, stalled, client, inbox>>

\* A new relay on the same path: serve removes what is left of the old socket.
Launch ==
  /\ pc = "stopped" /\ launches < MaxLaunch
  /\ Table!Restart /\ clock' = time
  /\ pc' = "check" /\ deadline' = time + Period /\ current' = NoDatagram
  /\ queue' = << >> /\ signal' = FALSE
  /\ launches' = launches + 1
  /\ UNCHANGED <<time, stalled, client, inbox>>

\* The loop has something to do and waits for nobody but the scheduler.
Runnable ==
  \/ pc \in {"check", "maintain"}
  \/ pc = "read" /\ (queue # << >> \/ DeadlinePassed)
  \/ pc = "handle" /\ ~Blocked

\* Clients beat on time and read what they are sent within a period.
ClientsKeepTime ==
  \A c \in Client : client[c].up => time < client[c].due /\ inbox[c] < InboxLimit

Advance ==
  /\ time < MaxTime /\ time' = time + 1
  /\ ClientsKeepTime
  /\ IF Runnable THEN stalled < MaxStall /\ stalled' = stalled + 1 ELSE UNCHANGED stalled
  /\ UNCHANGED <<table, loop, queue, signal, launches, client, inbox>>

ClientStep(c) ==
  Start(c) \/ Beat(c) \/ Publish(c) \/ Leave(c) \/ Die(c) \/ Receive(c)

Next ==
  \/ \E c \in Client : ClientStep(c)
  \/ ServeStep
  \/ RaiseSignal \/ Kill \/ Launch \/ Advance

Spec == Init /\ [][Next]_vars

\* The scheduler runs the loop, clients keep their heartbeats and read their
\* sockets, and time passes.
FairSpec ==
  /\ Spec
  /\ WF_vars(ServeStep) /\ WF_vars(Advance)
  /\ \A c \in Client : WF_vars(Receive(c)) /\ WF_vars(Beat(c))
-----------------------------------------------------------------------------
(***************************************************************************)
(* Properties.                                                             *)
(***************************************************************************)

Holds(c) ==
  LET peer == peers[Plays[c]]
  IN  peer.active /\ peer.address = c /\ peer.session = client[c].session

\* A client that beats on time is never expired: its heartbeat is handled
\* before the maintenance pass that would find it silent, although a timeout
\* goes ahead of datagrams that already wait in the socket.
TimelyPeersStay ==
  [][\A c \in Client :
       (Holds(c) /\ client[c].up /\ counters'.expirations > counters.expirations)
         => peers'[Plays[c]] = peers[Plays[c]]]_vars

\* The other way round: a silent endpoint is removed at the first maintenance
\* pass after its lease, however the passes and the datagrams interleave.
SilentPeersGo ==
  pc # "stopped" =>
    \A role \in Role : peers[role].active =>
      time <= peers[role].lastSeen + Lease + Period + stalled

\* The endpoint table of the running loop behaves as Relay says.
ImplementsRelay == Table!Spec

\* A relay that is told to stop stops, whatever arrives meanwhile, as long as
\* the clients it is writing to read or die.
SignalStops == signal ~> pc = "stopped"

(***************************************************************************)
(* The inductive invariant behind SilentPeersGo and ImplementsRelay.       *)
(***************************************************************************)

Message == [datagram : Sent, source : Client]

Locals == [up : BOOLEAN, session : 0 .. MaxSession, control : 0 .. MaxSequence,
           data : Nat, due : Nat, since : Nat]

Endpoints == [active : BOOLEAN, address : Client \cup {NoAddress}, session : Nat,
              lastSeen : Nat, lastControl : Nat, lastData : Nat, dataSet : BOOLEAN]

LoopTypeOK ==
  /\ pc \in {"check", "read", "handle", "maintain", "stopped"}
  /\ deadline \in Nat /\ time \in Nat /\ clock \in Nat /\ stalled \in Nat
  /\ client \in [Client -> Locals] /\ inbox \in [Client -> Nat]
  /\ peers \in [Role -> Endpoints]

\* What waits at the relay's socket is what a client that was started sends.
MessagesAreSent ==
  /\ \A c \in Client : client[c].up => client[c].session > 0
  /\ queue \in Seq(Message) /\ (pc = "handle" => current \in Message)

\* The next pass is never more than a period ahead of the clock, the loop
\* never later for it than it was stalled, and the last pass left nobody who
\* had been silent for longer than a lease.
PassesAreTimely ==
  /\ deadline <= clock + Period
  /\ pc # "stopped" => time <= deadline + stalled
  /\ \A role \in Role : peers[role].active =>
       /\ peers[role].address \in Client
       /\ deadline <= peers[role].lastSeen + Lease + Period

LoopInv == LoopTypeOK /\ MessagesAreSent /\ PassesAreTimely

(***************************************************************************)
(* What makes TimelyPeersStay hold for any lease with room for a heartbeat *)
(* and the stalls, as long as the socket has room for the heartbeats.      *)
(***************************************************************************)

NoBeatIsLost ==
  [][\A c \in Client : Beat(c) /\ pc # "stopped" => Len(queue) < QueueLimit]_vars

\* A heartbeat of client c, whose state is local, in its present session, and
\* the last one it sent.
IsBeat(m, c, local) ==
  m.source = c /\ m.datagram.type = RegisterType /\ m.datagram.session = local.session
Newest(m, c, local) == IsBeat(m, c, local) /\ m.datagram.sequence = local.control

Waits(c) == \E j \in 1 .. Len(queue) : Newest(queue[j], c, client[c])
Pending(c) == Waits(c) \/ (pc = "handle" /\ Newest(current, c, client[c]))

\* Nothing is on its way or in the table that its client has not sent yet.
Fresh(m, local) ==
  /\ m.datagram.role = Plays[m.source]
  /\ m.datagram.session <= local.session
  /\ IsBeat(m, m.source, local) => m.datagram.sequence <= local.control

AllFresh ==
  /\ \A i \in 1 .. Len(queue) : Fresh(queue[i], client[queue[i].source])
  /\ pc = "handle" => Fresh(current, client[current.source])
  /\ \A role \in Role : peers[role].active =>
       peers[role].session <= client[peers[role].address].session

\* No heartbeat is handled after a newer one.
NewestIsLast ==
  /\ pc = "stopped" => queue = << >>
  /\ \A c \in Client : client[c].up =>
       /\ \A i \in 1 .. Len(queue) : IsBeat(queue[i], c, client[c]) =>
            \E j \in i .. Len(queue) : Newest(queue[j], c, client[c])
       /\ pc = "handle" /\ IsBeat(current, c, client[c]) => Pending(c)

\* Behind the time by no more than the stalls is the loop while it has a
\* datagram in its hands; a client's next heartbeat is due in a period of its.
ClocksAgree ==
  /\ clock <= time /\ stalled <= MaxStall
  /\ pc = "handle" => time <= clock + stalled
  /\ \A role \in Role : peers[role].active => peers[role].lastSeen <= clock
  /\ \A c \in Client : client[c].up =>
       /\ client[c].due <= time + Heartbeat
       /\ pc = "handle" /\ Newest(current, c, client[c]) =>
            client[c].due <= clock + Heartbeat

\* The last heartbeat of whoever holds a role has renewed the lease or is on
\* its way to do so.
SeenInTime(c) ==
  LET peer == peers[Plays[c]]
  IN  /\ peer.lastControl <= client[c].control
      /\ peer.lastControl = client[c].control => client[c].due <= peer.lastSeen + Heartbeat
      /\ peer.lastControl < client[c].control => Pending(c)
      /\ time <= peer.lastSeen + Heartbeat + stalled

HoldersAreSeen ==
  pc # "stopped" => \A c \in Client : client[c].up /\ Holds(c) => SeenInTime(c)

ExpirationsAreCounted == "expirations" \in DOMAIN counters /\ counters.expirations \in Nat

BeatInv ==
  /\ LoopInv /\ AllFresh /\ NewestIsLast /\ ClocksAgree /\ HoldersAreSeen
  /\ ExpirationsAreCounted
=============================================================================
