--------------------------- MODULE RelayLoopProofs ---------------------------
(***************************************************************************)
(* For any clients, lease, queues and stalls: the loop implements Relay's  *)
(* table, and a silent peer goes in time.                                  *)
(***************************************************************************)
EXTENDS RelayLoop, SequenceTheorems, TLAPS

LEMMA TableRoles ==
  /\ Role = {1, 2} /\ Guide = 1 /\ Controller = 2
  /\ Table!Role = Role /\ Table!Guide = Guide /\ Table!Controller = Controller
  BY DEF Role, Guide, Controller, Table!Role, Table!Guide, Table!Controller

-----------------------------------------------------------------------------
(***************************************************************************)
(* What clients send.                                                      *)
(***************************************************************************)

\* The fields of a datagram that the table takes over.
LEMMA SentFields ==
  ASSUME NEW d \in Sent
  PROVE  d.role \in Role /\ d.sequence \in Nat /\ d.session \in Nat
<1>1. CASE \E c \in Client, type \in ControlTypes, n \in 1 .. MaxSequence,
              s \in 1 .. MaxSession : d = Control(c, type, n, s)
  BY <1>1, LoopAssumption DEF Control, Encoded
<1>2. CASE \E c \in Client : \E n \in 1 .. MaxData[c], s \in 1 .. MaxSession : d = Data(c, n, s)
  BY <1>2, LoopAssumption DEF Data, EncodeFrame, Encoded
<1> QED
  BY <1>1, <1>2 DEF Sent

\* The relay parses a copy that is at most cut short.
LEMMA ReceivedHeader ==
  ASSUME NEW d \in Sent
  PROVE  /\ Table!HeaderOf(Table!Received(d)) = HeaderOf(d)
         /\ HeaderOf(Received(d)) = HeaderOf(d)
<1>1. CASE \E c \in Client, type \in ControlTypes, n \in 1 .. MaxSequence,
              s \in 1 .. MaxSession : d = Control(c, type, n, s)
  BY <1>1 DEF Control, Encoded, Received, HeaderOf,
                  Table!Received, Table!HeaderOf
<1>2. CASE \E c \in Client : \E n \in 1 .. MaxData[c], s \in 1 .. MaxSession : d = Data(c, n, s)
  BY <1>2 DEF Data, EncodeFrame, Encoded, Received, HeaderOf,
                  Table!Received, Table!HeaderOf
<1> QED
  BY <1>1, <1>2 DEF Sent

-----------------------------------------------------------------------------
(***************************************************************************)
(* What a step of the table does to its peers.                             *)
(***************************************************************************)

\* Whoever holds a role was seen just now, or held it before and was seen when
\* it was.
SeenThen ==
  \A role \in Role : peers'[role].active =>
    /\ peers'[role].address \in Client
    /\ \/ peers'[role].lastSeen = clock
       \/ peers[role].active /\ peers'[role].lastSeen = peers[role].lastSeen

LEMMA HandlePeers ==
  ASSUME LoopInv, NEW d \in Sent, NEW source \in Client, NEW taken,
         Table!Handle(d, source, taken)
  PROVE  peers' \in [Role -> Endpoints] /\ clock' = clock /\ SeenThen
<1> DEFINE h == Table!HeaderOf(Table!Received(d))
<1>1. h.role \in Role /\ h.sequence \in Nat /\ h.session \in Nat
  <2>1. h = HeaderOf(d)
    BY ReceivedHeader
  <2> HIDE DEF h
  <2> QED
    BY <2>1, SentFields DEF HeaderOf
<1>2. /\ peers \in [Role -> Endpoints] /\ clock \in Nat
      /\ \A role \in Role : peers[role].active => peers[role].address \in Client
  BY DEF LoopInv, LoopTypeOK, PassesAreTimely
<1>3. \/ UNCHANGED peers
      \/ Table!Refresh(h, source) \/ Table!Register(h, source)
      \/ Table!Unregister(h, source) \/ Table!ForwardData(h, source, d.size, taken)
  BY DEF Table!Handle, Table!Reject, Table!Panic, Table!RefuseData
<1>4. clock' = clock
  BY DEF Table!Handle
<1> HIDE DEF h
<1>5. ASSUME NEW peer \in Endpoints, peers' = [peers EXCEPT ![h.role] = peer],
             peer.active =>
               /\ peer.address \in Client
               /\ \/ peer.lastSeen = clock
                  \/ peers[h.role].active /\ peer.lastSeen = peers[h.role].lastSeen
      PROVE  peers' \in [Role -> Endpoints] /\ SeenThen
  BY <1>1, <1>2, <1>5 DEF SeenThen
<1>6. CASE UNCHANGED peers
  BY <1>2, <1>4, <1>6 DEF SeenThen
<1>7. CASE Table!Refresh(h, source)
  <2>1. CASE UNCHANGED peers
    BY <1>6, <2>1
  <2>2. CASE ~UNCHANGED peers
    <3> DEFINE peer == [peers[h.role] EXCEPT !.lastControl = h.sequence, !.lastSeen = clock]
    <3>1. peers' = [peers EXCEPT ![h.role] = peer]
      BY <1>1, <1>2, <1>7, <2>2 DEF Table!Refresh
    <3>2. /\ peer \in Endpoints /\ peer.address = peers[h.role].address
          /\ peer.lastSeen = clock /\ peer.active = peers[h.role].active
      BY <1>1, <1>2 DEF Endpoints
    <3> HIDE DEF peer
    <3> QED
      BY <1>1, <1>2, <1>4, <1>5, <3>1, <3>2
  <2> QED
    BY <2>1, <2>2
<1>8. CASE Table!Register(h, source)
  <2> DEFINE peer == Table!NewPeer(h, source)
  <2>1. peers' = [peers EXCEPT ![h.role] = peer]
    BY <1>8 DEF Table!Register
  <2>2. peer \in Endpoints /\ peer.address = source /\ peer.lastSeen = clock
    BY <1>1, <1>2 DEF Table!NewPeer, Endpoints
  <2> HIDE DEF peer
  <2> QED
    BY <1>4, <1>5, <2>1, <2>2
<1>9. CASE Table!Unregister(h, source)
  <2>1. CASE UNCHANGED peers
    BY <1>6, <2>1
  <2>2. CASE peers' = [peers EXCEPT ![h.role] = Table!EmptyPeer]
    <3>1. Table!EmptyPeer \in Endpoints /\ ~Table!EmptyPeer.active
      BY DEF Table!EmptyPeer, Endpoints
    <3> QED
      BY <1>4, <1>5, <2>2, <3>1
  <2> QED
    BY <1>9, <2>1, <2>2 DEF Table!Unregister
<1>10. CASE Table!ForwardData(h, source, d.size, taken)
  <2> DEFINE peer == [peers[h.role] EXCEPT !.lastData = h.sequence, !.dataSet = TRUE,
                                           !.lastSeen = clock]
  <2>1. peers' = [peers EXCEPT ![h.role] = peer]
    BY <1>1, <1>2, <1>10 DEF Table!ForwardData
  <2>2. /\ peer \in Endpoints /\ peer.address = peers[h.role].address
        /\ peer.lastSeen = clock /\ peer.active = peers[h.role].active
    BY <1>1, <1>2 DEF Endpoints
  <2> HIDE DEF peer
  <2> QED
    BY <1>1, <1>2, <1>4, <1>5, <2>1, <2>2
<1> QED
  BY <1>3, <1>4, <1>6, <1>7, <1>8, <1>9, <1>10

\* LookAtClock changes the clock only, and never puts it back.
LEMMA ClockRises ==
  ASSUME LoopInv, LookAtClock
  PROVE  peers' = peers /\ clock' \in Nat /\ clock <= clock'
<1>1. clock \in Nat /\ time \in Nat
  BY DEF LoopInv, LoopTypeOK
<1>2. CASE UNCHANGED table
  BY <1>1, <1>2 DEF table
<1>3. CASE Table!ReadClock /\ clock' = time
  <2>1. MaxTime \in Nat
    BY LoopAssumption
  <2> QED
    BY <1>1, <1>3, <2>1 DEF Table!ReadClock
<1> QED
  BY <1>2, <1>3 DEF LookAtClock

LEMMA Later ==
  ASSUME NEW a \in Nat, NEW b \in Nat, NEW c \in Nat, a <= b + Period, b <= c
  PROVE  a <= c + Period
  BY DEF Period

\* As long as the peers, the deadline and the time stay, a later clock and
\* another place of the loop leave the passes timely.
LEMMA TimelyFrame ==
  ASSUME LoopInv, UNCHANGED <<peers, deadline, time, stalled>>,
         clock' \in Nat, clock <= clock',
         pc' # "stopped" => pc # "stopped"
  PROVE  PassesAreTimely'
<1>1. deadline \in Nat /\ clock \in Nat /\ deadline <= clock + Period
  BY DEF LoopInv, LoopTypeOK, PassesAreTimely
<1>5. /\ pc # "stopped" => time <= deadline + stalled
      /\ \A role \in Role : peers[role].active =>
           /\ peers[role].address \in Client
           /\ deadline <= peers[role].lastSeen + Lease + Period
  BY DEF LoopInv, PassesAreTimely
<1>2. deadline' <= clock' + Period
  <2>1. deadline <= clock' + Period
    BY <1>1, Later
  <2>2. deadline' = deadline
    OBVIOUS
  <2> QED
    BY <2>1, <2>2
<1>3. pc' # "stopped" => time' <= deadline' + stalled'
  BY <1>5
<1>4. ASSUME NEW role \in Role, peers'[role].active
      PROVE  /\ peers'[role].address \in Client
             /\ deadline' <= peers'[role].lastSeen + Lease + Period
  BY <1>4, <1>5
<1> QED
  BY <1>2, <1>3, <1>4 DEF PassesAreTimely

-----------------------------------------------------------------------------
LEMMA LoopInit == Init => LoopInv
<1> SUFFICES ASSUME Init PROVE LoopInv
  OBVIOUS
<1>1. DownClient \in Locals /\ ~DownClient.up
  BY LoopAssumption DEF DownClient, Locals
<1>2. Table!EmptyPeer \in Endpoints /\ ~Table!EmptyPeer.active
  BY DEF Table!EmptyPeer, Endpoints
<1>3. peers = [role \in Role |-> Table!EmptyPeer] /\ clock = 0
  BY TableRoles DEF Init, Table!Init
<1>4. LoopTypeOK
  BY <1>1, <1>2, <1>3 DEF Init, LoopTypeOK, Period
<1>5. MessagesAreSent
  BY <1>1 DEF Init, MessagesAreSent
<1>6. PassesAreTimely
  BY <1>2, <1>3 DEF Init, PassesAreTimely, Period
<1> QED
  BY <1>4, <1>5, <1>6 DEF LoopInv

\* A client sends one of its messages, and nothing else changes for the loop.
LEMMA SendKeeps ==
  ASSUME LoopInv, NEW c \in Client, NEW d \in Sent, Send(c, d),
         client' \in [Client -> Locals], inbox' \in [Client -> Nat],
         \A e \in Client : client'[e].up => client'[e].session > 0,
         UNCHANGED <<table, loop, world, stalled>>
  PROVE  LoopInv'
<1>1. queue' \in Seq(Message)
  <2>1. [datagram |-> d, source |-> c] \in Message
    BY DEF Message
  <2> QED
    BY <2>1 DEF Send, LoopInv, MessagesAreSent
<1>2. LoopTypeOK'
  BY DEF LoopInv, LoopTypeOK, table, loop, world
<1>3. MessagesAreSent'
  BY <1>1 DEF LoopInv, MessagesAreSent, table, loop
<1>4. PassesAreTimely'
  BY DEF LoopInv, PassesAreTimely, table, loop, world
<1> QED
  BY <1>2, <1>3, <1>4 DEF LoopInv

LEMMA ControlIsSent ==
  ASSUME NEW c \in Client, NEW type \in ControlTypes, NEW n \in 1 .. MaxSequence,
         NEW s \in 1 .. MaxSession
  PROVE  Control(c, type, n, s) \in Sent
  BY DEF Sent

LEMMA LocalsGo ==
  ASSUME NEW local \in Locals, NEW n \in 0 .. MaxSequence, NEW due \in Nat
  PROVE  /\ [local EXCEPT !.control = n, !.due = due] \in Locals
         /\ [local EXCEPT !.control = n, !.due = due].session = local.session
  BY DEF Locals

LEMMA LocalsBeat ==
  ASSUME NEW local \in Locals, NEW n, NEW due
  PROVE  /\ [local EXCEPT !.control = n, !.due = due].control = n
         /\ [local EXCEPT !.control = n, !.due = due].due = due
  BY DEF Locals

LEMMA LocalsPublish ==
  ASSUME NEW local \in Locals, NEW n \in Nat
  PROVE  /\ [local EXCEPT !.data = n] \in Locals
         /\ [local EXCEPT !.data = n].session = local.session
         /\ [local EXCEPT !.data = n].control = local.control
         /\ [local EXCEPT !.data = n].due = local.due
         /\ [local EXCEPT !.data = n].up = local.up
  BY DEF Locals

LEMMA ClientKeeps ==
  ASSUME LoopInv, NEW c \in Client, ClientStep(c)
  PROVE  LoopInv'
<1>1. /\ client \in [Client -> Locals] /\ inbox \in [Client -> Nat] /\ time \in Nat
      /\ client[c].session \in 0 .. MaxSession /\ client[c].control \in 0 .. MaxSequence
      /\ client[c].data \in Nat
      /\ \A e \in Client : client[e].up => client[e].session > 0
  BY DEF LoopInv, LoopTypeOK, MessagesAreSent, Locals
<1>2. MaxSession \in Nat /\ MaxSequence \in Nat \ {0} /\ Heartbeat \in Nat /\ MaxData[c] \in Nat
  BY LoopAssumption
<1>3. RegisterType \in ControlTypes /\ UnregisterType \in ControlTypes
  BY DEF ControlTypes
<1>4. ASSUME NEW local \in Locals, client' = [client EXCEPT ![c] = local],
             local.up => local.session > 0
      PROVE  /\ client' \in [Client -> Locals]
             /\ \A e \in Client : client'[e].up => client'[e].session > 0
  BY <1>1, <1>4
<1>5. CASE Start(c)
  <2> DEFINE session == client[c].session + 1
             local == [up |-> TRUE, session |-> session, control |-> 1, data |-> 0,
                       due |-> time + Heartbeat, since |-> time]
  <2>1. session \in 1 .. MaxSession
    BY <1>1, <1>2, <1>5 DEF Start
  <2>2. local \in Locals /\ local.session > 0
    BY <1>1, <1>2, <2>1 DEF Locals
  <2>3. client' = [client EXCEPT ![c] = local] /\ Send(c, Control(c, RegisterType, 1, session))
    BY <1>5 DEF Start
  <2>4. Control(c, RegisterType, 1, session) \in Sent
    BY <1>2, <1>3, <2>1, ControlIsSent
  <2> HIDE DEF local, session
  <2>5. /\ client' \in [Client -> Locals]
        /\ \A e \in Client : client'[e].up => client'[e].session > 0
    BY <1>4, <2>2, <2>3
  <2> QED
    BY <1>1, <1>5, <2>3, <2>4, <2>5, SendKeeps DEF Start
<1>6. CASE Beat(c)
  <2> DEFINE local == [client[c] EXCEPT !.control = @ + 1, !.due = time + Heartbeat]
             d == Control(c, RegisterType, client[c].control + 1, client[c].session)
  <2>1. /\ client[c].control + 1 \in 1 .. MaxSequence /\ client[c].session \in 1 .. MaxSession
    BY <1>1, <1>2, <1>6 DEF Beat
  <2>2. local \in Locals /\ local.session > 0
    <3>1. client[c] \in Locals /\ client[c].control + 1 \in 0 .. MaxSequence
      BY <1>1, <1>2, <2>1
    <3>2. time + Heartbeat \in Nat
      BY <1>1, <1>2
    <3>3. local \in Locals /\ local.session = client[c].session
      BY <3>1, <3>2, LocalsGo
    <3> QED
      BY <2>1, <3>3
  <2>3. client' = [client EXCEPT ![c] = local] /\ Send(c, d)
    BY <1>1, <1>6 DEF Beat
  <2>4. d \in Sent
    BY <1>3, <2>1, ControlIsSent
  <2> HIDE DEF local, d
  <2>5. /\ client' \in [Client -> Locals]
        /\ \A e \in Client : client'[e].up => client'[e].session > 0
    BY <1>4, <2>2, <2>3
  <2> QED
    BY <1>1, <1>6, <2>3, <2>4, <2>5, SendKeeps DEF Beat
<1>7. CASE Publish(c)
  <2> DEFINE local == [client[c] EXCEPT !.data = @ + 1]
             d == Data(c, client[c].data + 1, client[c].session)
  <2>1. /\ client[c].data + 1 \in 1 .. MaxData[c] /\ client[c].session \in 1 .. MaxSession
    BY <1>1, <1>2, <1>7 DEF Publish
  <2>2. local \in Locals /\ local.session > 0
    BY <1>1, <2>1 DEF Locals
  <2>3. client' = [client EXCEPT ![c] = local] /\ Send(c, d)
    BY <1>1, <1>7 DEF Publish
  <2>4. d \in Sent
    BY <2>1 DEF Sent
  <2> HIDE DEF local, d
  <2>5. /\ client' \in [Client -> Locals]
        /\ \A e \in Client : client'[e].up => client'[e].session > 0
    BY <1>4, <2>2, <2>3
  <2> QED
    BY <1>1, <1>7, <2>3, <2>4, <2>5, SendKeeps DEF Publish
<1>8. CASE Leave(c) \/ Die(c)
  <2> DEFINE local == [client[c] EXCEPT !.up = FALSE]
             d == Control(c, UnregisterType, client[c].control + 1, client[c].session)
  <2>1. local \in Locals /\ ~local.up
    BY <1>1 DEF Locals
  <2>2. client' = [client EXCEPT ![c] = local] /\ inbox' \in [Client -> Nat]
    BY <1>1, <1>8 DEF Leave, Die
  <2> HIDE DEF local
  <2>3. /\ client' \in [Client -> Locals]
        /\ \A e \in Client : client'[e].up => client'[e].session > 0
    BY <1>4, <2>1, <2>2
  <2>4. CASE Leave(c)
    <3>1. /\ client[c].control + 1 \in 1 .. MaxSequence
          /\ client[c].session \in 1 .. MaxSession
      BY <1>1, <1>2, <2>4 DEF Leave
    <3>2. d \in Sent
      BY <1>3, <3>1, ControlIsSent
    <3>3. Send(c, d)
      BY <2>4 DEF Leave
    <3> HIDE DEF d
    <3> QED
      BY <2>2, <2>3, <2>4, <3>2, <3>3, SendKeeps DEF Leave
  <2>5. CASE Die(c)
    BY <2>2, <2>3, <2>5
       DEF Die, LoopInv, LoopTypeOK, MessagesAreSent, PassesAreTimely, table, loop, world
  <2> QED
    BY <1>8, <2>4, <2>5
<1>9. CASE Receive(c)
  <2>1. inbox' \in [Client -> Nat]
    BY <1>1, <1>9 DEF Receive
  <2> QED
    BY <1>9, <2>1
       DEF Receive, LoopInv, LoopTypeOK, MessagesAreSent, PassesAreTimely, table, loop, world
<1> QED
  BY <1>5, <1>6, <1>7, <1>8, <1>9 DEF ClientStep

-----------------------------------------------------------------------------
(***************************************************************************)
(* The steps of serve.                                                     *)
(***************************************************************************)

LEMMA CheckSignalKeeps == LoopInv /\ CheckSignal => LoopInv'
<1> SUFFICES ASSUME LoopInv, CheckSignal PROVE LoopInv'
  OBVIOUS
<1> USE DEF CheckSignal, table, world
<1>1. pc' \in {"stopped", "read"} /\ pc = "check"
  OBVIOUS
<1>2. LoopTypeOK'
  BY <1>1 DEF LoopInv, LoopTypeOK
<1>3. queue' \in Seq(Message)
  <2>1. queue \in Seq(Message) /\ << >> \in Seq(Message)
    BY DEF LoopInv, MessagesAreSent
  <2>2. queue' = queue \/ queue' = << >>
    OBVIOUS
  <2> QED
    BY <2>1, <2>2
<1>4. MessagesAreSent'
  BY <1>1, <1>3 DEF LoopInv, MessagesAreSent
<1>5. PassesAreTimely'
  BY <1>1 DEF LoopInv, PassesAreTimely
<1> QED
  BY <1>2, <1>4, <1>5 DEF LoopInv

LEMMA ReadKeeps == LoopInv /\ (ReadDatagram \/ ReadTimeout) => LoopInv'
<1> SUFFICES ASSUME LoopInv, ReadDatagram \/ ReadTimeout PROVE LoopInv'
  OBVIOUS
<1>1. peers' = peers /\ clock' \in Nat /\ clock <= clock'
  BY ClockRises DEF ReadDatagram, ReadTimeout
<1>2. /\ UNCHANGED <<deadline, time, stalled, client, inbox>>
      /\ pc' \in {"handle", "maintain"} /\ pc = "read"
  BY DEF ReadDatagram, ReadTimeout, world
<1>3. LoopTypeOK'
  BY <1>1, <1>2 DEF LoopInv, LoopTypeOK
<1>4. PassesAreTimely'
  BY <1>1, <1>2, TimelyFrame
<1>5. queue \in Seq(Message)
  BY DEF LoopInv, MessagesAreSent
<1>6. queue' \in Seq(Message) /\ (pc' = "handle" => current' \in Message)
  <2>1. CASE ReadDatagram
    <3>1. Head(queue) \in Message /\ Tail(queue) \in Seq(Message)
      BY <1>5, <2>1, HeadTailProperties DEF ReadDatagram
    <3> QED
      BY <2>1, <3>1 DEF ReadDatagram
  <2>2. CASE ReadTimeout
    BY <1>5, <2>2 DEF ReadTimeout
  <2> QED
    BY <2>1, <2>2
<1>7. MessagesAreSent'
  BY <1>2, <1>6 DEF LoopInv, MessagesAreSent
<1> QED
  BY <1>3, <1>4, <1>7 DEF LoopInv

\* A handled datagram leaves nobody in the table whom the last pass would
\* have removed: it only renews leases.
LEMMA HandleKeeps == LoopInv /\ HandleDatagram => LoopInv'
<1> SUFFICES ASSUME LoopInv, HandleDatagram PROVE LoopInv'
  OBVIOUS
<1>1. PICK taken : Table!Handle(current.datagram, current.source, taken)
  BY DEF HandleDatagram
<1>2. current \in Message
  BY DEF LoopInv, MessagesAreSent, HandleDatagram
<1>3. peers' \in [Role -> Endpoints] /\ clock' = clock /\ SeenThen
  BY <1>1, <1>2, HandlePeers DEF Message
<1>4. /\ UNCHANGED <<deadline, time, stalled, client, queue>>
      /\ pc' = "maintain" /\ pc = "handle"
  BY DEF HandleDatagram, world
<1>5. inbox' \in [Client -> Nat]
  <2>1. inbox \in [Client -> Nat]
    BY DEF LoopInv, LoopTypeOK
  <2>2. inbox' = inbox \/ inbox' = [inbox EXCEPT ![Destination] = @ + 1]
    BY DEF HandleDatagram
  <2> HIDE DEF Destination
  <2>3. \A c \in Client : inbox[c] + 1 \in Nat
    BY <2>1
  <2> QED
    BY <2>1, <2>2, <2>3
<1>6. LoopTypeOK'
  BY <1>3, <1>4, <1>5 DEF LoopInv, LoopTypeOK
<1>7. MessagesAreSent'
  BY <1>4 DEF LoopInv, MessagesAreSent
<1>8. ASSUME NEW role \in Role, peers'[role].active
      PROVE  /\ peers'[role].address \in Client
             /\ deadline <= peers'[role].lastSeen + Lease + Period
  <2>1. peers'[role].address \in Client
    BY <1>3, <1>8 DEF SeenThen
  <2>2. CASE peers'[role].lastSeen = clock
    <3>1. deadline \in Nat /\ clock \in Nat /\ Lease \in Nat /\ deadline <= clock + Period
      BY LoopAssumption DEF LoopInv, LoopTypeOK, PassesAreTimely
    <3>2. clock <= clock + Lease /\ clock + Lease \in Nat
      BY <3>1
    <3>3. deadline <= clock + Lease + Period
      BY <3>1, <3>2, Later
    <3> QED
      BY <2>1, <2>2, <3>3
  <2>3. CASE peers[role].active /\ peers'[role].lastSeen = peers[role].lastSeen
    BY <2>1, <2>3 DEF LoopInv, PassesAreTimely
  <2> QED
    BY <1>3, <1>8, <2>2, <2>3 DEF SeenThen
<1>9. PassesAreTimely'
  BY <1>3, <1>4, <1>8 DEF LoopInv, PassesAreTimely
<1> QED
  BY <1>6, <1>7, <1>9 DEF LoopInv

\* After a pass that was due nobody is left who was silent for longer than a
\* lease at the time of the pass.
LEMMA MaintainKeeps == LoopInv /\ Maintain => LoopInv'
<1> SUFFICES ASSUME LoopInv, Maintain PROVE LoopInv'
  OBVIOUS
<1>1. /\ UNCHANGED <<time, stalled, client, inbox, queue, clock>>
      /\ pc' = "check" /\ pc = "maintain"
  BY DEF Maintain, Table!Expire, table, world
<1>2. MessagesAreSent'
  BY <1>1 DEF LoopInv, MessagesAreSent
<1>3. /\ deadline \in Nat /\ time \in Nat /\ clock \in Nat /\ stalled \in Nat
      /\ peers \in [Role -> Endpoints] /\ Lease \in Nat /\ Period \in Nat
  BY LoopAssumption DEF LoopInv, LoopTypeOK, Period
<1>4. CASE clock < deadline
  <2>1. UNCHANGED <<peers, deadline>>
    BY <1>3, <1>4 DEF Maintain, table
  <2> QED
    BY <1>1, <1>2, <2>1 DEF LoopInv, LoopTypeOK, PassesAreTimely
<1>5. CASE clock >= deadline
  <2>1. deadline' = clock + Period /\ deadline' \in Nat
    BY <1>3, <1>5 DEF Maintain, Period
  <2>2. Table!EmptyPeer \in Endpoints /\ ~Table!EmptyPeer.active
    BY DEF Table!EmptyPeer, Endpoints
  <2>3. \A role \in Role :
          \/ peers'[role] = Table!EmptyPeer
          \/ peers'[role] = peers[role] /\ ~Table!Silent(role)
    <3>1. CASE \E role \in Role : Table!Silent(role)
      <4>1. peers' = [role \in Role |-> IF Table!Silent(role) THEN Table!EmptyPeer
                                                             ELSE peers[role]]
        BY <1>5, <3>1, TableRoles DEF Maintain, Table!Expire
      <4> QED
        BY <4>1
    <3>2. CASE ~\E role \in Role : Table!Silent(role)
      BY <1>5, <3>2 DEF Maintain, table
    <3> QED
      BY <3>1, <3>2
  <2>4. peers' \in [Role -> Endpoints]
    <3>1. CASE \E role \in Role : Table!Silent(role)
      <4>1. peers' = [role \in Role |-> IF Table!Silent(role) THEN Table!EmptyPeer
                                                             ELSE peers[role]]
        BY <1>5, <3>1, TableRoles DEF Maintain, Table!Expire
      <4> QED
        BY <1>3, <2>2, <4>1
    <3>2. CASE ~\E role \in Role : Table!Silent(role)
      BY <1>3, <1>5, <3>2 DEF Maintain, table
    <3> QED
      BY <3>1, <3>2
  <2>5. LoopTypeOK'
    BY <1>1, <2>1, <2>4 DEF LoopInv, LoopTypeOK
  <2>6. time <= deadline' + stalled
    <3>1. time <= deadline + stalled
      BY <1>1 DEF LoopInv, PassesAreTimely
    <3>2. \A d, t, c, n \in Nat : t <= d + n /\ c >= d => t <= c + 1 + n
      OBVIOUS
    <3> QED
      BY <1>3, <1>5, <2>1, <3>1, <3>2 DEF Period
  <2>7. ASSUME NEW role \in Role, peers'[role].active
        PROVE  /\ peers'[role].address \in Client
               /\ deadline' <= peers'[role].lastSeen + Lease + Period
    <3>1. peers'[role] = peers[role] /\ ~Table!Silent(role) /\ peers[role].active
      BY <2>2, <2>3, <2>7
    <3>2. peers[role].lastSeen \in Nat /\ peers[role].address \in Client
      BY <1>3, <3>1 DEF Endpoints, LoopInv, PassesAreTimely
    <3>3. ~(clock - peers[role].lastSeen > Lease)
      BY <3>1 DEF Table!Silent
    <3>4. \A c, seen, lease \in Nat : ~(c - seen > lease) => c + 1 <= seen + lease + 1
      OBVIOUS
    <3>5. clock + 1 <= peers[role].lastSeen + Lease + 1
      BY <1>3, <3>2, <3>3, <3>4
    <3> QED
      BY <2>1, <3>1, <3>2, <3>5 DEF Period
  <2>8. PassesAreTimely'
    <3>1. deadline' <= clock' + Period
      BY <1>1, <1>3, <2>1
    <3> QED
      BY <1>1, <2>6, <2>7, <3>1 DEF PassesAreTimely
  <2> QED
    BY <1>2, <2>5, <2>8 DEF LoopInv
<1> QED
  BY <1>3, <1>4, <1>5

-----------------------------------------------------------------------------
(***************************************************************************)
(* The world.                                                              *)
(***************************************************************************)

LEMMA KillKeeps == LoopInv /\ (RaiseSignal \/ Kill) => LoopInv'
<1> SUFFICES ASSUME LoopInv, RaiseSignal \/ Kill PROVE LoopInv'
  OBVIOUS
<1>1. /\ UNCHANGED <<table, world, stalled, client, inbox, deadline>>
      /\ UNCHANGED pc \/ pc' = "stopped"
  BY DEF RaiseSignal, Kill, loop
<1>2. LoopTypeOK' /\ PassesAreTimely'
  BY <1>1 DEF LoopInv, LoopTypeOK, PassesAreTimely, table, world
<1>3. MessagesAreSent'
  <2>1. CASE RaiseSignal
    BY <1>1, <2>1 DEF RaiseSignal, LoopInv, MessagesAreSent, loop
  <2>2. CASE Kill
    <3>1. pc' = "stopped" /\ queue' \in Seq(Message) /\ client' = client
      BY <1>1, <2>2 DEF Kill
    <3> QED
      BY <3>1 DEF LoopInv, MessagesAreSent
  <2> QED
    BY <2>1, <2>2
<1> QED
  BY <1>2, <1>3 DEF LoopInv

LEMMA LaunchKeeps == LoopInv /\ Launch => LoopInv'
<1> SUFFICES ASSUME LoopInv, Launch PROVE LoopInv'
  OBVIOUS
<1>1. Table!EmptyPeer \in Endpoints /\ ~Table!EmptyPeer.active
  BY DEF Table!EmptyPeer, Endpoints
<1>2. peers' = [role \in Role |-> Table!EmptyPeer] /\ clock' = time
  BY TableRoles DEF Launch, Table!Restart
<1>3. /\ UNCHANGED <<time, stalled, client, inbox>>
      /\ deadline' = time + Period /\ pc' = "check" /\ queue' = << >>
  BY DEF Launch
<1>4. time \in Nat /\ stalled \in Nat
  BY DEF LoopInv, LoopTypeOK
<1>5. LoopTypeOK'
  BY <1>1, <1>2, <1>3, <1>4 DEF LoopInv, LoopTypeOK, Period
<1>6. MessagesAreSent'
  BY <1>3 DEF LoopInv, MessagesAreSent
<1>7. PassesAreTimely'
  <2>1. deadline' <= clock' + Period
    BY <1>2, <1>3, <1>4 DEF Period
  <2>2. time' <= deadline' + stalled'
    BY <1>3, <1>4 DEF Period
  <2>3. \A role \in Role : ~peers'[role].active
    BY <1>1, <1>2
  <2> QED
    BY <2>1, <2>2, <2>3 DEF PassesAreTimely
<1> QED
  BY <1>5, <1>6, <1>7 DEF LoopInv

\* Before time passes every client has read what it was sent, so that the loop
\* is not kept from handling a datagram.
LEMMA NeverBlocked == LoopInv /\ Advance /\ pc = "handle" => ~Blocked
<1>1. SUFFICES ASSUME LoopInv, Advance, pc = "handle", Blocked PROVE FALSE
  OBVIOUS
<1>2. current.datagram \in Sent
  BY <1>1 DEF LoopInv, MessagesAreSent, Message
<1>3. /\ Table!Routable(HeaderOf(Received(current.datagram)))
      /\ client[Destination].up /\ inbox[Destination] >= InboxLimit
  BY <1>1 DEF Blocked, WouldForward
<1>4. HeaderOf(Received(current.datagram)).role = current.datagram.role
  BY <1>2, ReceivedHeader DEF HeaderOf
<1>5. peers[Table!Other(current.datagram.role)].active
  BY <1>3, <1>4 DEF Table!Routable
<1>6. Table!Other(current.datagram.role) \in Role
  BY TableRoles DEF Table!Other
<1>7. Destination \in Client
  BY <1>1, <1>5, <1>6 DEF Destination, LoopInv, PassesAreTimely
<1>8. inbox[Destination] < InboxLimit
  BY <1>1, <1>3, <1>7 DEF Advance, ClientsKeepTime
<1>9. inbox[Destination] \in Nat /\ InboxLimit \in Nat
  BY <1>1, <1>7, LoopAssumption DEF LoopInv, LoopTypeOK
<1> HIDE DEF Destination
<1> QED
  BY <1>3, <1>8, <1>9

\* Time passes only while the loop waits for its deadline, or is stalled: it
\* does not wait for a client, as clients read what they are sent.
LEMMA AdvanceKeeps == LoopInv /\ Advance => LoopInv'
<1> SUFFICES ASSUME LoopInv, Advance PROVE LoopInv'
  OBVIOUS
<1>1. /\ UNCHANGED <<table, loop, queue, client, inbox>> /\ time' = time + 1
      /\ UNCHANGED <<pc, deadline, current, clock, peers>>
  BY DEF Advance, table, loop
<1>2. /\ deadline \in Nat /\ time \in Nat /\ clock \in Nat /\ stalled \in Nat
      /\ inbox \in [Client -> Nat]
  BY DEF LoopInv, LoopTypeOK
<1>3. stalled' = stalled \/ stalled' = stalled + 1
  BY DEF Advance
<1>4. LoopTypeOK'
  BY <1>1, <1>2, <1>3 DEF LoopInv, LoopTypeOK
<1>5. MessagesAreSent'
  BY <1>1 DEF LoopInv, MessagesAreSent
<1>6. pc = "handle" => ~Blocked
  BY NeverBlocked
<1>7. pc' # "stopped" => time' <= deadline' + stalled'
  <2> SUFFICES ASSUME pc # "stopped" PROVE time + 1 <= deadline + stalled'
    BY <1>1
  <2>1. time <= deadline + stalled
    BY DEF LoopInv, PassesAreTimely
  <2>2. CASE Runnable
    <3>1. stalled' = stalled + 1
      BY <2>2 DEF Advance
    <3> QED
      BY <1>2, <2>1, <3>1
  <2>3. CASE ~Runnable
    <3>1. stalled' = stalled
      BY <2>3 DEF Advance
    <3>2. pc = "read"
      BY <1>6, <2>3 DEF Runnable, LoopInv, LoopTypeOK
    <3>3. ~(time >= deadline)
      BY <2>3, <3>2 DEF Runnable, DeadlinePassed
    <3>4. \A t, d, n \in Nat : ~(t >= d) => t + 1 <= d + n
      OBVIOUS
    <3> QED
      BY <1>2, <3>1, <3>3, <3>4
  <2> QED
    BY <2>2, <2>3
<1>8. PassesAreTimely'
  BY <1>1, <1>7 DEF LoopInv, PassesAreTimely
<1> QED
  BY <1>4, <1>5, <1>8 DEF LoopInv

-----------------------------------------------------------------------------
LEMMA LoopStep == LoopInv /\ [Next]_vars => LoopInv'
<1> SUFFICES ASSUME LoopInv, [Next]_vars PROVE LoopInv'
  OBVIOUS
<1>1. CASE UNCHANGED vars
  BY <1>1 DEF vars, table, loop, world, LoopInv, LoopTypeOK, MessagesAreSent, PassesAreTimely
<1> QED
  BY <1>1, ClientKeeps, CheckSignalKeeps, ReadKeeps, HandleKeeps, MaintainKeeps, KillKeeps,
     LaunchKeeps, AdvanceKeeps
     DEF Next, ServeStep

\* What is known of the loop, its clients and its passes.
THEOREM LoopInductive == Spec => []LoopInv
  BY LoopInit, LoopStep, PTL DEF Spec

\* Whoever is silent for a lease goes with the next pass, for any clients,
\* lease, queues and stalls.
THEOREM SilentGo == Spec => []SilentPeersGo
<1>1. LoopInv => SilentPeersGo
  <2> SUFFICES ASSUME LoopInv, pc # "stopped", NEW role \in Role, peers[role].active
               PROVE  time <= peers[role].lastSeen + Lease + Period + stalled
    BY DEF SilentPeersGo
  <2>1. time <= deadline + stalled /\ deadline <= peers[role].lastSeen + Lease + Period
    BY DEF LoopInv, PassesAreTimely
  <2>2. /\ time \in Nat /\ deadline \in Nat /\ stalled \in Nat /\ Lease \in Nat
        /\ peers[role].lastSeen \in Nat /\ Period \in Nat
    BY LoopAssumption DEF LoopInv, LoopTypeOK, Endpoints, Period
  <2>3. \A t, d, n, s, l, p \in Nat : t <= d + n /\ d <= s + l + p => t <= s + l + p + n
    OBVIOUS
  <2> QED
    BY <2>1, <2>2, <2>3
<1> QED
  BY <1>1, LoopInductive, PTL

\* Every step of the loop, of its clients and of the world is a step of the
\* endpoint table or leaves it alone.
THEOREM TableImplemented == Spec => ImplementsRelay
<1>1. Init => Table!Init
  BY DEF Init
<1>2. ASSUME LoopInv, [Next]_vars PROVE [Table!Next]_(Table!vars)
  <2>1. ASSUME UNCHANGED table PROVE UNCHANGED Table!vars
    BY <2>1 DEF table, Table!vars
  <2>2. CASE \E c \in Client : ClientStep(c)
    BY <2>1, <2>2 DEF ClientStep, Start, Beat, Publish, Leave, Die, Receive
  <2>3. CASE ReadDatagram \/ ReadTimeout
    BY <2>1, <2>3 DEF ReadDatagram, ReadTimeout, LookAtClock, Table!Next
  <2>4. CASE HandleDatagram
    <3>1. PICK taken \in BOOLEAN : Table!Handle(current.datagram, current.source, taken)
      <4>1. (WouldForward /\ client[Destination].up) \in BOOLEAN
        OBVIOUS
      <4> QED
        BY <2>4, <4>1 DEF HandleDatagram
    <3>2. current.datagram \in Sent /\ current.source \in Client \cup {NoAddress}
      BY <1>2, <2>4 DEF HandleDatagram, LoopInv, MessagesAreSent, Message
    <3> QED
      BY <3>1, <3>2 DEF Table!Next
  <2>5. CASE Maintain
    BY <2>1, <2>5 DEF Maintain, Table!Next
  <2>6. CASE CheckSignal \/ RaiseSignal \/ Kill \/ Advance \/ UNCHANGED vars
    BY <2>1, <2>6 DEF CheckSignal, RaiseSignal, Kill, Advance, vars
  <2>7. CASE Launch
    BY <2>7 DEF Launch, Table!Next
  <2> QED
    BY <1>2, <2>2, <2>3, <2>4, <2>5, <2>6, <2>7 DEF Next, ServeStep
<1> QED
  BY <1>1, <1>2, LoopInductive, PTL DEF Spec, ImplementsRelay, Table!Spec
-----------------------------------------------------------------------------
(***************************************************************************)
(* Heartbeats.                                                             *)
(***************************************************************************)

LEMMA BeatTypes ==
  ASSUME LoopInv
  PROVE  /\ time \in Nat /\ clock \in Nat /\ stalled \in Nat /\ Heartbeat \in Nat
         /\ queue \in Seq(Message) /\ Len(queue) \in Nat
         /\ \A i \in 1 .. Len(queue) : queue[i] \in Message
         /\ pc = "handle" => current \in Message
         /\ \A c \in Client : /\ Plays[c] \in Role /\ client[c] \in Locals
                              /\ client[c].session \in Nat /\ client[c].control \in Nat
                              /\ client[c].due \in Nat
         /\ \A role \in Role : /\ peers[role].session \in Nat /\ peers[role].lastSeen \in Nat
                               /\ peers[role].lastControl \in Nat
                               /\ peers[role].active => peers[role].address \in Client
<1>1. queue \in Seq(Message) /\ (pc = "handle" => current \in Message)
  BY DEF LoopInv, MessagesAreSent
<1>2. Len(queue) \in Nat /\ \A i \in 1 .. Len(queue) : queue[i] \in Message
  BY <1>1, ElementOfSeq, LenProperties
<1>3. \A c \in Client : /\ Plays[c] \in Role /\ client[c] \in Locals
                        /\ client[c].session \in Nat /\ client[c].control \in Nat
                        /\ client[c].due \in Nat
  BY LoopAssumption DEF LoopInv, LoopTypeOK, Locals
<1>4. \A role \in Role : /\ peers[role].session \in Nat /\ peers[role].lastSeen \in Nat
                         /\ peers[role].lastControl \in Nat
                         /\ peers[role].active => peers[role].address \in Client
  BY DEF LoopInv, LoopTypeOK, PassesAreTimely, Endpoints
<1> QED
  BY <1>1, <1>2, <1>3, <1>4, LoopAssumption DEF LoopInv, LoopTypeOK

LEMMA MessageTypes ==
  ASSUME NEW m \in Message
  PROVE  /\ m.source \in Client /\ m.datagram \in Sent
         /\ m.datagram.role \in Role /\ m.datagram.sequence \in Nat
         /\ m.datagram.session \in Nat
  BY SentFields DEF Message

\* A client's datagram at the end of the queue, if there was room for it.
LEMMA LongerQueue ==
  ASSUME queue \in Seq(Message), NEW m \in Message, queue' = Append(queue, m)
  PROVE  /\ Len(queue') = Len(queue) + 1 /\ Len(queue) \in Nat
         /\ queue'[Len(queue) + 1] = m
         /\ \A i \in 1 .. Len(queue) : queue'[i] = queue[i]
  BY AppendProperties, LenProperties

-----------------------------------------------------------------------------
\* What a step of client c does to what it sends and what is due: it goes, or
\* stays as it is, or begins a session with a heartbeat, or sends the next one.
Goes(c, m, local) ==
  /\ local.session = client[c].session /\ local.control = client[c].control
  /\ \/ ~local.up
     \/ local.up = client[c].up /\ local.due = client[c].due
  /\ m.datagram.type # RegisterType

Begins(c, m, local) ==
  /\ ~client[c].up /\ local.up /\ local.session = client[c].session + 1
  /\ local.due = time + Heartbeat
  /\ m.datagram.type = RegisterType /\ m.datagram.sequence = local.control

Beats(c, m, local) ==
  /\ client[c].up /\ local.session = client[c].session
  /\ local.control = client[c].control + 1 /\ local.due = time + Heartbeat
  /\ m.datagram.type = RegisterType /\ m.datagram.sequence = local.control
  /\ pc # "stopped" => queue' = Append(queue, m)

LEMMA ClientKeepsBeats ==
  ASSUME BeatInv, NEW c \in Client, NEW local \in Locals, NEW m \in Message,
         UNCHANGED <<peers, clock, pc, current, time, stalled>>,
         client' = [client EXCEPT ![c] = local],
         queue' = queue \/ (pc # "stopped" /\ queue' = Append(queue, m)),
         m.source = c, m.datagram.role = Plays[c], m.datagram.session = local.session,
         Goes(c, m, local) \/ Begins(c, m, local) \/ Beats(c, m, local)
  PROVE  AllFresh' /\ NewestIsLast' /\ ClocksAgree' /\ HoldersAreSeen'
<1>1. LoopInv /\ AllFresh /\ NewestIsLast /\ ClocksAgree /\ HoldersAreSeen
  BY DEF BeatInv
<1>2. /\ time \in Nat /\ clock \in Nat /\ stalled \in Nat /\ Heartbeat \in Nat
      /\ queue \in Seq(Message) /\ Len(queue) \in Nat
      /\ \A i \in 1 .. Len(queue) : queue[i] \in Message
      /\ pc = "handle" => current \in Message
      /\ \A e \in Client : /\ Plays[e] \in Role /\ client[e] \in Locals
                           /\ client[e].session \in Nat /\ client[e].control \in Nat
                           /\ client[e].due \in Nat
      /\ \A role \in Role : /\ peers[role].session \in Nat /\ peers[role].lastSeen \in Nat
                            /\ peers[role].lastControl \in Nat
                            /\ peers[role].active => peers[role].address \in Client
  BY <1>1, BeatTypes
<1>3. /\ client'[c] = local /\ local.session \in Nat /\ local.control \in Nat
      /\ local.due \in Nat
      /\ \A e \in Client : e # c => client'[e] = client[e]
  <2>1. client \in [Client -> Locals]
    BY <1>1 DEF LoopInv, LoopTypeOK
  <2> QED
    BY <2>1 DEF Locals
<1>4. /\ Len(queue') \in Nat /\ Len(queue) <= Len(queue')
      /\ \A i \in 1 .. Len(queue) : queue'[i] = queue[i]
      /\ \A i \in 1 .. Len(queue') :
           i \in 1 .. Len(queue) \/ (i = Len(queue) + 1 /\ queue'[i] = m)
  BY <1>2, LongerQueue
<1>5. /\ client[c].session <= local.session
      /\ local.session = client[c].session => client[c].control <= local.control
  BY <1>2, <1>3 DEF Goes, Begins, Beats
\* What was sent before is as fresh as it was.
<1>6. ASSUME NEW n \in Message, Fresh(n, client[n.source])
      PROVE  /\ Fresh(n, client'[n.source])
             /\ \A e \in Client : IsBeat(n, e, client'[e]) =>
                  /\ IsBeat(n, e, client[e])
                  /\ e = c => local.session = client[c].session
  <2>1. n.datagram.session \in Nat /\ n.datagram.sequence \in Nat /\ n.source \in Client
    BY MessageTypes
  <2>2. CASE n.source # c
    BY <1>3, <1>6, <2>1, <2>2 DEF Fresh, IsBeat
  <2>3. CASE n.source = c /\ local.session = client[c].session
    BY <1>2, <1>3, <1>5, <1>6, <2>1, <2>3 DEF Fresh, IsBeat
  <2>4. CASE n.source = c /\ local.session # client[c].session
    BY <1>2, <1>3, <1>5, <1>6, <2>1, <2>4 DEF Fresh, IsBeat
  <2> QED
    BY <2>2, <2>3, <2>4
<1>7. /\ Fresh(m, client'[m.source]) /\ (IsBeat(m, c, client'[c]) => Newest(m, c, client'[c]))
      /\ \A e \in Client : e # c => ~IsBeat(m, e, client'[e])
  <2>1. m.datagram.type = RegisterType => m.datagram.sequence = local.control
    BY DEF Goes, Begins, Beats
  <2> QED
    BY <1>3, <2>1 DEF Fresh, IsBeat, Newest
<1>8. AllFresh'
  <2>1. ASSUME NEW i \in 1 .. Len(queue') PROVE Fresh(queue'[i], client'[queue'[i].source])
    BY <1>1, <1>2, <1>4, <1>6, <1>7 DEF AllFresh
  <2>2. pc' = "handle" => Fresh(current', client'[current'.source])
    BY <1>1, <1>2, <1>6 DEF AllFresh
  <2>3. ASSUME NEW role \in Role, peers[role].active
        PROVE  peers[role].session <= client'[peers[role].address].session
    <3> DEFINE e == peers[role].address
               n == peers[role].session
    <3>1. n <= client[e].session
      BY <1>1, <2>3 DEF AllFresh
    <3>2. n \in Nat
      BY <1>2
    <3>3. e \in Client
      BY <1>2, <2>3
    <3> HIDE DEF e, n
    <3>4. /\ client[e].session <= client'[e].session
          /\ client[e].session \in Nat /\ client'[e].session \in Nat
      BY <1>2, <1>3, <1>5, <3>3
    <3>5. n <= client'[e].session
      BY <3>1, <3>2, <3>4
    <3> QED
      BY <3>5 DEF e, n
  <2> QED
    BY <2>1, <2>2, <2>3 DEF AllFresh
<1>9. ASSUME NEW e \in Client, client'[e].up, e # c
      PROVE  client[e].up /\ client'[e] = client[e]
  BY <1>3, <1>9
<1>10. ASSUME client'[c].up
       PROVE  \/ /\ client[c].up /\ local.session = client[c].session
                 /\ local.control = client[c].control /\ local.due = client[c].due
              \/ ~client[c].up /\ local.session = client[c].session + 1
              \/ Beats(c, m, local)
  BY <1>3, <1>10 DEF Goes, Begins
<1>11. NewestIsLast'
  <2>1. pc' = "stopped" => queue' = << >>
    BY <1>1 DEF NewestIsLast
  <2>2. ASSUME NEW e \in Client, client'[e].up, NEW i \in 1 .. Len(queue'),
               IsBeat(queue'[i], e, client'[e])
        PROVE  \E j \in i .. Len(queue') : Newest(queue'[j], e, client'[e])
    <3>1. CASE i \notin 1 .. Len(queue)
      <4>1. queue'[i] = m /\ e = c
        BY <1>4, <1>7, <2>2, <3>1
      <4>2. Newest(queue'[i], e, client'[e])
        BY <1>7, <2>2, <4>1
      <4>3. i \in i .. Len(queue')
        BY <1>4
      <4> QED
        BY <4>2, <4>3
    <3>2. CASE i \in 1 .. Len(queue)
      <4>1. queue'[i] = queue[i] /\ queue[i] \in Message
            /\ Fresh(queue[i], client[queue[i].source])
        BY <1>1, <1>2, <1>4, <3>2 DEF AllFresh
      <4>2. /\ IsBeat(queue[i], e, client[e])
            /\ e = c => local.session = client[c].session
        BY <1>6, <2>2, <4>1
      <4>3. CASE e # c \/ ~Beats(c, m, local)
        <5>1. client[e].up
          BY <1>2, <1>9, <1>10, <2>2, <4>2, <4>3
        <5>2. PICK j \in i .. Len(queue) : Newest(queue[j], e, client[e])
          BY <1>1, <3>2, <4>2, <5>1 DEF NewestIsLast
        <5>3. j \in 1 .. Len(queue) /\ j \in i .. Len(queue')
          BY <1>2, <1>4, <3>2
        <5>4. /\ client'[e].session = client[e].session
              /\ client'[e].control = client[e].control
          BY <1>2, <1>3, <1>9, <1>10, <2>2, <4>2, <4>3
        <5>5. Newest(queue'[j], e, client'[e])
          BY <1>4, <5>2, <5>3, <5>4 DEF Newest, IsBeat
        <5> QED
          BY <5>3, <5>5
      <4>4. CASE e = c /\ Beats(c, m, local)
        <5>1. queue # << >>
          BY <1>2, <3>2
        <5>2. queue' = Append(queue, m)
          BY <1>1, <4>4, <5>1 DEF Beats, NewestIsLast
        <5>3. queue'[Len(queue) + 1] = m /\ Len(queue') = Len(queue) + 1
          BY <1>2, <5>2, LongerQueue
        <5>4. Newest(m, c, client'[c])
          BY <1>3, <4>4 DEF Beats, Newest, IsBeat
        <5>5. Len(queue) + 1 \in i .. Len(queue')
          BY <1>2, <1>4, <3>2, <5>3
        <5> QED
          BY <4>4, <5>3, <5>4, <5>5
      <4> QED
        BY <4>3, <4>4
    <3> QED
      BY <3>1, <3>2
  <2>3. ASSUME NEW e \in Client, client'[e].up, pc = "handle", IsBeat(current, e, client'[e])
        PROVE  Pending(e)'
    <3>1. current \in Message /\ Fresh(current, client[current.source])
      BY <1>1, <1>2, <2>3 DEF AllFresh
    <3>2. /\ IsBeat(current, e, client[e])
          /\ e = c => local.session = client[c].session
      BY <1>6, <2>3, <3>1
    <3>3. CASE e # c \/ ~Beats(c, m, local)
      <4>1. client[e].up
        BY <1>2, <1>9, <1>10, <2>3, <3>2, <3>3
      <4>2. /\ client'[e].session = client[e].session
            /\ client'[e].control = client[e].control
        BY <1>2, <1>3, <1>9, <1>10, <2>3, <3>2, <3>3
      <4>3. Pending(e)
        BY <1>1, <2>3, <3>2, <4>1 DEF NewestIsLast
      <4>4. CASE Newest(current, e, client[e])
        BY <2>3, <4>2, <4>4 DEF Pending, Newest, IsBeat
      <4>5. CASE Waits(e)
        <5>1. PICK j \in 1 .. Len(queue) : Newest(queue[j], e, client[e])
          BY <4>5 DEF Waits
        <5>2. j \in 1 .. Len(queue') /\ Newest(queue'[j], e, client'[e])
          BY <1>4, <4>2, <5>1 DEF Newest, IsBeat
        <5> QED
          BY <5>2 DEF Pending, Waits
      <4> QED
        BY <4>3, <4>4, <4>5 DEF Pending
    <3>4. CASE e = c /\ Beats(c, m, local)
      <4>1. queue' = Append(queue, m)
        BY <2>3, <3>4 DEF Beats
      <4>2. queue'[Len(queue) + 1] = m /\ Len(queue') = Len(queue) + 1
        BY <1>2, <4>1, LongerQueue
      <4>3. Newest(m, c, client'[c])
        BY <1>3, <3>4 DEF Beats, Newest, IsBeat
      <4>4. Len(queue) + 1 \in 1 .. Len(queue')
        BY <1>2, <4>2
      <4> QED
        BY <3>4, <4>2, <4>3, <4>4 DEF Pending, Waits
    <3> QED
      BY <3>3, <3>4
  <2> QED
    BY <2>1, <2>2, <2>3 DEF NewestIsLast
<1>12. ClocksAgree'
  <2>1. /\ clock' <= time' /\ stalled' <= MaxStall
        /\ pc' = "handle" => time' <= clock' + stalled'
        /\ \A role \in Role : peers'[role].active => peers'[role].lastSeen <= clock'
    BY <1>1 DEF ClocksAgree
  <2>2. ASSUME NEW e \in Client, client'[e].up
        PROVE  /\ client'[e].due <= time + Heartbeat
               /\ pc = "handle" /\ Newest(current, e, client'[e]) =>
                    client'[e].due <= clock + Heartbeat
    <3>1. CASE e # c \/ (client[c].up /\ ~Beats(c, m, local))
      <4>1. /\ client[e].up /\ client'[e].due = client[e].due
            /\ client'[e].session = client[e].session
            /\ client'[e].control = client[e].control
        BY <1>3, <1>9, <1>10, <2>2, <3>1
      <4>2. /\ client[e].due <= time + Heartbeat
            /\ pc = "handle" /\ Newest(current, e, client[e]) =>
                 client[e].due <= clock + Heartbeat
        BY <1>1, <4>1 DEF ClocksAgree
      <4> QED
        BY <4>1, <4>2 DEF Newest, IsBeat
    <3>2. CASE e = c /\ (~client[c].up \/ Beats(c, m, local))
      <4>1. local.due = time + Heartbeat
        BY <1>3, <2>2, <3>2 DEF Goes, Begins, Beats
      <4>2. pc = "handle" => ~Newest(current, c, local)
        <5>1. SUFFICES ASSUME pc = "handle", Newest(current, c, local) PROVE FALSE
          OBVIOUS
        <5>2. current \in Message /\ Fresh(current, client[current.source])
          BY <1>1, <1>2, <5>1 DEF AllFresh
        <5>3. current.source = c /\ current.datagram.sequence = local.control
          BY <5>1 DEF Newest, IsBeat
        <5>4. local.session = client[c].session /\ IsBeat(current, c, client[c])
          BY <1>3, <1>6, <5>1, <5>2 DEF Newest
        <5>5. current.datagram.sequence <= client[c].control
          BY <5>2, <5>3, <5>4 DEF Fresh
        <5>6. local.control = client[c].control + 1
          BY <1>2, <3>2, <5>4, <1>10, <1>3, <2>2 DEF Beats
        <5> QED
          BY <1>2, <5>3, <5>5, <5>6
      <4> QED
        BY <1>2, <1>3, <3>2, <4>1, <4>2
    <3> QED
      BY <3>1, <3>2
  <2> QED
    BY <2>1, <2>2 DEF ClocksAgree
<1>13. HoldersAreSeen'
  <2> SUFFICES ASSUME pc # "stopped", NEW e \in Client, client'[e].up, Holds(e)'
               PROVE  SeenInTime(e)'
    BY DEF HoldersAreSeen
  <2> DEFINE peer == peers[Plays[e]]
  <2>1. /\ peer.active /\ peer.address = e /\ peer.session = client'[e].session
        /\ peer.session <= client[e].session
    BY <1>1, <1>2 DEF Holds, AllFresh
  <2>2. /\ peer.lastControl \in Nat /\ peer.lastSeen \in Nat
        /\ client[e].session \in Nat /\ client[e].control \in Nat /\ Plays[e] \in Role
    BY <1>2
  <2>3. client[e].up /\ client'[e].session = client[e].session
    BY <1>2, <1>3, <1>9, <1>10, <2>1, <2>2 DEF Beats
  <2>4. Holds(e)
    BY <2>1, <2>3 DEF Holds
  <2>5. SeenInTime(e)
    BY <1>1, <2>3, <2>4 DEF HoldersAreSeen
  <2>6. CASE e # c \/ ~Beats(c, m, local)
    <3>1. client'[e].control = client[e].control /\ client'[e].due = client[e].due
      BY <1>2, <1>3, <1>9, <1>10, <2>3, <2>6
    <3>2. Pending(e) => Pending(e)'
      <4>1. CASE pc = "handle" /\ Newest(current, e, client[e])
        BY <2>3, <3>1, <4>1 DEF Pending, Newest, IsBeat
      <4>2. CASE Waits(e)
        <5>1. PICK j \in 1 .. Len(queue) : Newest(queue[j], e, client[e])
          BY <4>2 DEF Waits
        <5>2. j \in 1 .. Len(queue') /\ Newest(queue'[j], e, client'[e])
          BY <1>4, <2>3, <3>1, <5>1 DEF Newest, IsBeat
        <5> QED
          BY <5>2 DEF Pending, Waits
      <4> QED
        BY <4>1, <4>2 DEF Pending
    <3> QED
      BY <2>5, <3>1, <3>2 DEF SeenInTime
  <2>7. CASE e = c /\ Beats(c, m, local)
    <3>1. queue' = Append(queue, m)
      BY <2>7 DEF Beats
    <3>2. queue'[Len(queue) + 1] = m /\ Len(queue') = Len(queue) + 1
      BY <1>2, <3>1, LongerQueue
    <3>3. Newest(m, c, client'[c])
      BY <1>3, <2>7 DEF Beats, Newest, IsBeat
    <3>4. Len(queue) + 1 \in 1 .. Len(queue')
      BY <1>2, <3>2
    <3>5. Pending(c)'
      BY <3>2, <3>3, <3>4 DEF Pending, Waits
    <3>6. client'[c].control = client[c].control + 1
      BY <1>3, <2>7 DEF Beats
    <3>7. peer.lastControl <= client[c].control /\ time <= peer.lastSeen + Heartbeat + stalled
      BY <2>5, <2>7 DEF SeenInTime
    <3> DEFINE last == peer.lastControl
               sent == client[c].control
    <3>8. last \in Nat /\ sent \in Nat /\ last <= sent
      BY <2>2, <2>7, <3>7
    <3> HIDE DEF last, sent
    <3>9. last <= sent + 1 /\ last # sent + 1
      BY <3>8
    <3> QED
      BY <2>7, <3>5, <3>6, <3>7, <3>9 DEF SeenInTime, last, sent
  <2> QED
    BY <2>6, <2>7
<1> QED
  BY <1>8, <1>11, <1>12, <1>13
-----------------------------------------------------------------------------
\* A step that moves no datagram and renews no lease; peers may go.
LEMMA QuietKeepsBeats ==
  ASSUME BeatInv, UNCHANGED <<queue, time, stalled, client>>,
         \A role \in Role : peers'[role] = peers[role] \/ ~peers'[role].active,
         clock' \in Nat, clock <= clock', clock' <= time,
         \/ UNCHANGED <<pc, current, clock>>
         \/ {pc, pc'} \cap {"handle", "stopped"} = {}
  PROVE  AllFresh' /\ NewestIsLast' /\ ClocksAgree' /\ HoldersAreSeen'
<1>1. LoopInv /\ AllFresh /\ NewestIsLast /\ ClocksAgree /\ HoldersAreSeen
  BY DEF BeatInv
<1>2. /\ clock \in Nat /\ \A role \in Role : peers[role].lastSeen \in Nat
      /\ \A c \in Client : Plays[c] \in Role
  BY <1>1, BeatTypes
<1>3. /\ pc' = "handle" => pc = "handle" /\ current' = current /\ clock' = clock
      /\ pc' = "stopped" <=> pc = "stopped"
      /\ pc = "handle" => pc' = "handle"
  OBVIOUS
<1>4. AllFresh'
  BY <1>1, <1>3 DEF AllFresh
<1>5. \A c \in Client : Pending(c)' <=> Pending(c)
  BY <1>3 DEF Pending, Waits
<1>6. NewestIsLast'
  <2>1. pc' = "stopped" => queue' = << >>
    BY <1>1, <1>3 DEF NewestIsLast
  <2>2. ASSUME NEW c \in Client, client'[c].up
        PROVE  /\ \A i \in 1 .. Len(queue') : IsBeat(queue'[i], c, client'[c]) =>
                    \E j \in i .. Len(queue') : Newest(queue'[j], c, client'[c])
               /\ pc' = "handle" /\ IsBeat(current', c, client'[c]) => Pending(c)'
    BY <1>1, <1>3, <1>5, <2>2 DEF NewestIsLast
  <2> QED
    BY <2>1, <2>2 DEF NewestIsLast
<1>7. ClocksAgree'
  <2>1. ASSUME NEW role \in Role, peers'[role].active PROVE peers'[role].lastSeen <= clock'
    <3> DEFINE seen == peers[role].lastSeen
    <3>1. peers'[role] = peers[role] /\ seen <= clock /\ seen \in Nat
      BY <1>1, <1>2, <2>1 DEF ClocksAgree
    <3> HIDE DEF seen
    <3>2. seen <= clock'
      BY <1>2, <3>1
    <3> QED
      BY <3>1, <3>2 DEF seen
  <2> QED
    BY <1>1, <1>3, <2>1 DEF ClocksAgree
<1>8. HoldersAreSeen'
  <2> SUFFICES ASSUME pc' # "stopped", NEW c \in Client, client'[c].up, Holds(c)'
               PROVE  SeenInTime(c)'
    BY DEF HoldersAreSeen
  <2>1. peers'[Plays[c]] = peers[Plays[c]]
    BY <1>2 DEF Holds
  <2>2. Holds(c)
    BY <2>1 DEF Holds
  <2>3. SeenInTime(c)
    BY <1>1, <1>3, <2>2 DEF HoldersAreSeen
  <2> QED
    BY <1>5, <2>1, <2>3 DEF SeenInTime
<1> QED
  BY <1>4, <1>6, <1>7, <1>8

\* A relay that ends leaves no datagram behind.
LEMMA EndKeepsBeats ==
  ASSUME BeatInv, UNCHANGED <<peers, clock, time, stalled, client>>,
         pc' = "stopped", queue' = << >>
  PROVE  AllFresh' /\ NewestIsLast' /\ ClocksAgree' /\ HoldersAreSeen'
<1>1. AllFresh /\ ClocksAgree
  BY DEF BeatInv
<1>2. Len(queue') = 0
  OBVIOUS
<1>3. AllFresh' /\ NewestIsLast' /\ ClocksAgree'
  BY <1>1, <1>2 DEF AllFresh, NewestIsLast, ClocksAgree
<1> QED
  BY <1>3 DEF HoldersAreSeen

LEMMA LaunchKeepsBeats ==
  ASSUME BeatInv, Launch
  PROVE  AllFresh' /\ NewestIsLast' /\ ClocksAgree' /\ HoldersAreSeen'
<1>1. /\ UNCHANGED <<time, stalled, client>> /\ clock' = time
      /\ pc' = "check" /\ queue' = << >> /\ Len(queue') = 0
  BY DEF Launch
<1>2. \A role \in Role : ~peers'[role].active
  BY TableRoles DEF Launch, Table!Restart, Table!EmptyPeer
<1>3. \A c \in Client : Plays[c] \in Role
  BY BeatTypes DEF BeatInv
<1>4. ClocksAgree /\ time \in Nat
  BY BeatTypes DEF BeatInv
<1>5. AllFresh' /\ NewestIsLast' /\ ClocksAgree'
  BY <1>1, <1>2, <1>4 DEF AllFresh, NewestIsLast, ClocksAgree
<1> QED
  BY <1>2, <1>3, <1>5 DEF HoldersAreSeen, Holds

\* A datagram that the loop takes into its hands stays ahead of the others.
LEMMA ReadKeepsBeats ==
  ASSUME BeatInv, ReadDatagram
  PROVE  AllFresh' /\ NewestIsLast' /\ ClocksAgree' /\ HoldersAreSeen'
<1>1. LoopInv /\ AllFresh /\ NewestIsLast /\ ClocksAgree /\ HoldersAreSeen
  BY DEF BeatInv
<1>2. /\ time \in Nat /\ clock \in Nat /\ stalled \in Nat /\ Heartbeat \in Nat
      /\ queue \in Seq(Message) /\ Len(queue) \in Nat
      /\ \A role \in Role : peers[role].lastSeen \in Nat
  BY <1>1, BeatTypes
<1>3. /\ UNCHANGED <<time, stalled, client>> /\ queue # << >>
      /\ current' = Head(queue) /\ queue' = Tail(queue) /\ pc' = "handle" /\ pc = "read"
  BY DEF ReadDatagram, world
<1>4. peers' = peers /\ clock' = time /\ clock <= time
  BY <1>1 DEF ReadDatagram, LookAtClock, Table!ReadClock, table, ClocksAgree
<1>5. /\ current' = queue[1] /\ Len(queue') \in Nat /\ Len(queue) = Len(queue') + 1
      /\ \A i \in 1 .. Len(queue') : queue'[i] = queue[i + 1]
  BY <1>2, <1>3, HeadTailProperties
<1>6. \A i \in 1 .. Len(queue') : i + 1 \in 1 .. Len(queue)
  BY <1>5
<1>7. 1 \in 1 .. Len(queue)
  BY <1>5
<1>8. AllFresh'
  <2>1. ASSUME NEW i \in 1 .. Len(queue') PROVE Fresh(queue'[i], client'[queue'[i].source])
    BY <1>1, <1>3, <1>5, <1>6 DEF AllFresh
  <2>2. Fresh(current', client'[current'.source])
    BY <1>1, <1>3, <1>5, <1>7 DEF AllFresh
  <2> QED
    BY <1>1, <1>3, <1>4, <2>1, <2>2 DEF AllFresh
\* What waits behind an index of the longer queue.
<1>9. ASSUME NEW c \in Client, NEW j \in 1 .. Len(queue), Newest(queue[j], c, client[c])
      PROVE  /\ j = 1 => Newest(current', c, client'[c])
             /\ j # 1 => j - 1 \in 1 .. Len(queue') /\ Newest(queue'[j - 1], c, client'[c])
  <2>1. CASE j = 1
    BY <1>3, <1>5, <1>9, <2>1
  <2>2. CASE j # 1
    <3>1. j - 1 \in 1 .. Len(queue') /\ (j - 1) + 1 = j
      BY <1>5, <2>2
    <3> QED
      BY <1>3, <1>5, <1>9, <2>2, <3>1
  <2> QED
    BY <2>1, <2>2
<1>10. ASSUME NEW c \in Client, NEW j \in 1 .. Len(queue), Newest(queue[j], c, client[c])
       PROVE  Pending(c)'
  BY <1>3, <1>9, <1>10 DEF Pending, Waits
<1>11. NewestIsLast'
  <2>1. ASSUME NEW c \in Client, client'[c].up, NEW i \in 1 .. Len(queue'),
               IsBeat(queue'[i], c, client'[c])
        PROVE  \E j \in i .. Len(queue') : Newest(queue'[j], c, client'[c])
    <3>1. PICK j \in i + 1 .. Len(queue) : Newest(queue[j], c, client[c])
      BY <1>1, <1>3, <1>5, <1>6, <2>1 DEF NewestIsLast
    <3>2. j \in 1 .. Len(queue) /\ j # 1 /\ j - 1 \in i .. Len(queue')
      BY <1>5
    <3> QED
      BY <1>9, <3>1, <3>2
  <2>2. ASSUME NEW c \in Client, client'[c].up, IsBeat(current', c, client'[c])
        PROVE  Pending(c)'
    <3>1. PICK j \in 1 .. Len(queue) : Newest(queue[j], c, client[c])
      BY <1>1, <1>3, <1>5, <1>7, <2>2 DEF NewestIsLast
    <3> QED
      BY <1>10, <3>1
  <2> QED
    BY <1>3, <2>1, <2>2 DEF NewestIsLast
<1>12. ClocksAgree'
  <2>1. ASSUME NEW role \in Role, peers[role].active PROVE peers[role].lastSeen <= time
    <3> DEFINE seen == peers[role].lastSeen
    <3>1. seen <= clock /\ seen \in Nat
      BY <1>1, <1>2, <2>1 DEF ClocksAgree
    <3> HIDE DEF seen
    <3>2. seen <= time
      BY <1>2, <1>4, <3>1
    <3> QED
      BY <3>2 DEF seen
  <2>2. time <= time + stalled /\ stalled <= MaxStall /\ time <= time
    BY <1>1, <1>2 DEF ClocksAgree
  <2>3. \A c \in Client : client[c].up => client[c].due <= time + Heartbeat
    BY <1>1 DEF ClocksAgree
  <2> QED
    BY <1>3, <1>4, <2>1, <2>2, <2>3 DEF ClocksAgree
<1>13. HoldersAreSeen'
  <2> SUFFICES ASSUME NEW c \in Client, client'[c].up, Holds(c)' PROVE SeenInTime(c)'
    BY DEF HoldersAreSeen
  <2>1. SeenInTime(c)
    BY <1>1, <1>3, <1>4 DEF HoldersAreSeen, Holds
  <2>2. Pending(c) => Pending(c)'
    BY <1>3, <1>10 DEF Pending, Waits
  <2> QED
    BY <1>3, <1>4, <2>1, <2>2 DEF SeenInTime
<1> QED
  BY <1>8, <1>11, <1>12, <1>13

\* The clients' steps are of that kind, as long as the socket has room for
\* their heartbeats.
LEMMA ClientsKeepBeats ==
  ASSUME BeatInv, NEW c \in Client, ClientStep(c),
         Beat(c) /\ pc # "stopped" => Len(queue) < QueueLimit
  PROVE  AllFresh' /\ NewestIsLast' /\ ClocksAgree' /\ HoldersAreSeen'
<1>1. /\ client \in [Client -> Locals] /\ client[c] \in Locals /\ time \in Nat
      /\ client[c].session \in 0 .. MaxSession /\ client[c].control \in 0 .. MaxSequence
      /\ client[c].data \in Nat
      /\ client[c].up => client[c].session \in 1 .. MaxSession
  <2>1. LoopTypeOK /\ (client[c].up => client[c].session > 0)
    BY DEF BeatInv, LoopInv, MessagesAreSent
  <2>2. /\ client \in [Client -> Locals] /\ client[c] \in Locals /\ time \in Nat
        /\ client[c].session \in 0 .. MaxSession /\ client[c].control \in 0 .. MaxSequence
        /\ client[c].data \in Nat
    BY <2>1 DEF LoopTypeOK, Locals
  <2>3. \A n \in 0 .. MaxSession : n > 0 => n \in 1 .. MaxSession
    BY LoopAssumption
  <2> QED
    BY <2>1, <2>2, <2>3
<1>2. MaxSession \in Nat /\ MaxSequence \in Nat \ {0} /\ Heartbeat \in Nat /\ MaxData[c] \in Nat
  BY LoopAssumption
<1>3. RegisterType \in ControlTypes /\ UnregisterType \in ControlTypes
  BY DEF ControlTypes
\* What a control datagram says.
<1>4. ASSUME NEW type \in ControlTypes, NEW n \in 1 .. MaxSequence, NEW s \in 1 .. MaxSession
      PROVE  \E m \in Message :
               /\ m = [datagram |-> Control(c, type, n, s), source |-> c] /\ m.source = c
               /\ m.datagram.role = Plays[c] /\ m.datagram.session = s
               /\ m.datagram.type = type /\ m.datagram.sequence = n
  <2>1. Control(c, type, n, s) \in Sent
    BY ControlIsSent
  <2>2. [datagram |-> Control(c, type, n, s), source |-> c] \in Message
    BY <2>1 DEF Message
  <2> QED
    BY <2>2 DEF Control, Encoded
<1>5. ASSUME NEW d, Send(c, d), NEW m, m = [datagram |-> d, source |-> c]
      PROVE  \/ queue' = queue /\ (pc = "stopped" \/ ~(Len(queue) < QueueLimit))
             \/ pc # "stopped" /\ queue' = Append(queue, m)
  BY <1>5 DEF Send
<1>6. CASE Start(c)
  <2> DEFINE session == client[c].session + 1
             local == [up |-> TRUE, session |-> session, control |-> 1, data |-> 0,
                       due |-> time + Heartbeat, since |-> time]
  <2>1. session \in 1 .. MaxSession
    BY <1>1, <1>2, <1>6 DEF Start
  <2>2. local \in Locals
    BY <1>1, <1>2, <2>1 DEF Locals
  <2>3. client' = [client EXCEPT ![c] = local] /\ Send(c, Control(c, RegisterType, 1, session))
    BY <1>6 DEF Start
  <2>4. 1 \in 1 .. MaxSequence
    BY <1>2
  <2>5. PICK m \in Message :
          /\ m = [datagram |-> Control(c, RegisterType, 1, session), source |-> c]
          /\ m.source = c /\ m.datagram.role = Plays[c] /\ m.datagram.session = session
          /\ m.datagram.type = RegisterType /\ m.datagram.sequence = 1
    BY <1>3, <1>4, <2>1, <2>4
  <2>6. Begins(c, m, local)
    BY <1>6, <2>5 DEF Begins, Start
  <2>7. local.session = session
    OBVIOUS
  <2>8. UNCHANGED <<peers, clock, pc, current, time, stalled>>
    BY <1>6 DEF Start, table, loop, world
  <2> HIDE DEF local, session
  <2>9. queue' = queue \/ (pc # "stopped" /\ queue' = Append(queue, m))
    BY <1>5, <2>3, <2>5
  <2> QED
    BY <2>2, <2>3, <2>5, <2>6, <2>7, <2>8, <2>9, ClientKeepsBeats
<1>7. CASE Beat(c)
  <2> DEFINE n == client[c].control + 1
             session == client[c].session
             local == [client[c] EXCEPT !.control = n, !.due = time + Heartbeat]
  <2>1. n \in 1 .. MaxSequence /\ session \in 1 .. MaxSession
    BY <1>1, <1>2, <1>7 DEF Beat
  <2>2. /\ local \in Locals /\ local.session = session /\ local.control = n
        /\ local.due = time + Heartbeat
    <3>1. n \in 0 .. MaxSequence /\ time + Heartbeat \in Nat
      BY <1>1, <1>2, <2>1
    <3>2. local \in Locals /\ local.session = session
      BY <1>1, <3>1, LocalsGo
    <3>3. local.control = n /\ local.due = time + Heartbeat
      BY <1>1, LocalsBeat
    <3> QED
      BY <3>2, <3>3
  <2>3. client' = [client EXCEPT ![c] = local] /\ Send(c, Control(c, RegisterType, n, session))
    BY <1>1, <1>7 DEF Beat
  <2>4. PICK m \in Message :
          /\ m = [datagram |-> Control(c, RegisterType, n, session), source |-> c]
          /\ m.source = c /\ m.datagram.role = Plays[c] /\ m.datagram.session = session
          /\ m.datagram.type = RegisterType /\ m.datagram.sequence = n
    BY <1>3, <1>4, <2>1
  <2>5. UNCHANGED <<peers, clock, pc, current, time, stalled>>
    BY <1>7 DEF Beat, table, loop, world
  <2>6. client[c].up /\ n = client[c].control + 1 /\ session = client[c].session
    BY <1>7 DEF Beat
  <2> HIDE DEF local, session, n
  <2>7. \/ queue' = queue /\ (pc = "stopped" \/ ~(Len(queue) < QueueLimit))
        \/ pc # "stopped" /\ queue' = Append(queue, m)
    BY <1>5, <2>3, <2>4
  <2>8. Beats(c, m, local)
    BY <1>7, <2>2, <2>4, <2>6, <2>7 DEF Beats
  <2> QED
    BY <2>2, <2>3, <2>4, <2>5, <2>7, <2>8, ClientKeepsBeats
<1>8. CASE Publish(c)
  <2> DEFINE n == client[c].data + 1
             session == client[c].session
             local == [client[c] EXCEPT !.data = n]
             m == [datagram |-> Data(c, n, session), source |-> c]
  <2>1. n \in 1 .. MaxData[c] /\ session \in 1 .. MaxSession
    BY <1>1, <1>2, <1>8 DEF Publish
  <2>2. /\ local \in Locals /\ local.session = session /\ local.control = client[c].control
        /\ local.due = client[c].due /\ local.up = client[c].up
    <3>1. n \in Nat
      BY <1>1
    <3> HIDE DEF n
    <3> QED
      BY <1>1, <3>1, LocalsPublish
  <2>3. client' = [client EXCEPT ![c] = local] /\ Send(c, Data(c, n, session))
    BY <1>1, <1>8 DEF Publish
  <2>4. /\ m \in Message /\ m.source = c /\ m.datagram.role = Plays[c]
        /\ m.datagram.session = session /\ m.datagram.type # RegisterType
    <3>1. Data(c, n, session) \in Sent
      BY <2>1 DEF Sent
    <3>2. /\ Data(c, n, session).role = Plays[c] /\ Data(c, n, session).session = session
          /\ Data(c, n, session).type # RegisterType
      BY DEF Data, EncodeFrame, Encoded, TypeOf, RegisterType, CommandType, StateType
    <3> QED
      BY <3>1, <3>2 DEF Message
  <2>5. UNCHANGED <<peers, clock, pc, current, time, stalled>>
    BY <1>8 DEF Publish, table, loop, world
  <2>6. Goes(c, m, local)
    BY <2>2, <2>4 DEF Goes
  <2>7. queue' = queue \/ (pc # "stopped" /\ queue' = Append(queue, m))
    BY <2>3 DEF Send
  <2> HIDE DEF local, session, n, m
  <2> QED
    BY <2>2, <2>3, <2>4, <2>5, <2>6, <2>7, ClientKeepsBeats
<1>9. CASE Leave(c) \/ Die(c)
  <2> DEFINE session == client[c].session
             local == [client[c] EXCEPT !.up = FALSE]
  <2>1. session \in 1 .. MaxSession
    BY <1>1, <1>9 DEF Leave, Die
  <2>2. /\ local \in Locals /\ local.session = session /\ local.control = client[c].control
        /\ ~local.up
    BY <1>1 DEF Locals
  <2>3. client' = [client EXCEPT ![c] = local]
    BY <1>1, <1>9 DEF Leave, Die
  <2>4. PICK n \in 1 .. MaxSequence :
          queue' = queue \/ Send(c, Control(c, UnregisterType, n, session))
    <3>1. CASE Leave(c)
      <4>1. client[c].control + 1 \in 1 .. MaxSequence
        BY <1>1, <1>2, <3>1 DEF Leave
      <4> QED
        BY <3>1, <4>1 DEF Leave
    <3>2. CASE Die(c)
      <4>1. 1 \in 1 .. MaxSequence
        BY <1>2
      <4> QED
        BY <3>2, <4>1 DEF Die
    <3> QED
      BY <1>9, <3>1, <3>2
  <2>5. PICK m \in Message :
          /\ m = [datagram |-> Control(c, UnregisterType, n, session), source |-> c]
          /\ m.source = c /\ m.datagram.role = Plays[c] /\ m.datagram.session = session
          /\ m.datagram.type = UnregisterType /\ m.datagram.sequence = n
    BY <1>3, <1>4, <2>1
  <2>6. UNCHANGED <<peers, clock, pc, current, time, stalled>>
    BY <1>9 DEF Leave, Die, table, loop, world
  <2>7. Goes(c, m, local)
    BY <2>2, <2>5 DEF Goes, UnregisterType, RegisterType
  <2> HIDE DEF local, session
  <2>8. queue' = queue \/ (pc # "stopped" /\ queue' = Append(queue, m))
    BY <1>5, <2>4, <2>5
  <2> QED
    BY <2>2, <2>3, <2>5, <2>6, <2>7, <2>8, ClientKeepsBeats
<1>10. CASE Receive(c)
  <2>1. UNCHANGED <<peers, clock, pc, current, queue, time, stalled, client>>
    BY <1>10 DEF Receive, table, loop, world
  <2> QED
    BY <2>1, QuietKeepsBeats, BeatTypes DEF BeatInv, ClocksAgree
<1> QED
  BY <1>6, <1>7, <1>8, <1>9, <1>10 DEF ClientStep
-----------------------------------------------------------------------------
\* What the loop reads of a heartbeat is what the client sent.
LEMMA HeartbeatParses ==
  ASSUME NEW d \in Sent, d.type = RegisterType
  PROVE  Table!ParsePacket(Table!Received(d)) = "ok"
<1>1. PICK c \in Client, n \in 1 .. MaxSequence, s \in 1 .. MaxSession :
        d = Control(c, RegisterType, n, s)
  <2>1. CASE \E c \in Client, type \in ControlTypes, n \in 1 .. MaxSequence,
                s \in 1 .. MaxSession : d = Control(c, type, n, s)
    <3>1. PICK c \in Client, type \in ControlTypes, n \in 1 .. MaxSequence,
               s \in 1 .. MaxSession : d = Control(c, type, n, s)
      BY <2>1
    <3>2. d.type = type
      BY <3>1 DEF Control, Encoded
    <3> QED
      BY <3>1, <3>2
  <2>2. CASE \E c \in Client : \E n \in 1 .. MaxData[c], s \in 1 .. MaxSession : d = Data(c, n, s)
    BY <2>2 DEF Data, EncodeFrame, Encoded, TypeOf, RegisterType, CommandType, StateType
  <2> QED
    BY <2>1, <2>2 DEF Sent
<1>2. Plays[c] \in {1, 2} /\ n # 0 /\ s # 0
  BY LoopAssumption, TableRoles
<1> QED
  BY <1>1, <1>2
     DEF Control, Encoded, Table!Received, Table!ParsePacket, Table!ControlSize,
         Table!HeaderSize, Table!CrcSize, Table!Magic, Table!Version, Table!Role,
         Table!Guide, Table!Controller, Table!ContractTypes, Table!ContractRole,
         Table!ContractPayload, Table!CommandType, Table!StateType, Table!RegisterType,
         RegisterType, Magic, Version, HeaderSize, CrcSize, Table!MaxPacketSize,
         Table!CommandSize, Table!CommandPayloadSize

\* What may become of the endpoint of a datagram's role: it goes, it stays as
\* it was but for its data, or it is seen with a newer heartbeat.
Stays(d, source, old, new) ==
  /\ new.active = old.active /\ new.address = old.address /\ new.session = old.session
  /\ new.lastControl = old.lastControl
  /\ new.lastSeen = old.lastSeen \/ new.lastSeen = clock
  /\ d.type = RegisterType =>
       /\ old.active /\ old.address = source /\ old.session = d.session
       /\ d.sequence <= old.lastControl

Renewed(d, source, new) ==
  /\ new.active /\ new.address = source /\ new.session = d.session
  /\ new.lastControl = d.sequence /\ new.lastSeen = clock
  /\ d.type = RegisterType

LEMMA HandleOutcome ==
  ASSUME LoopInv, NEW d \in Sent, NEW source \in Client, NEW taken,
         Table!Handle(d, source, taken)
  PROVE  /\ clock' = clock /\ d.role \in Role
         /\ \A role \in Role : role # d.role => peers'[role] = peers[role]
         /\ \/ ~peers'[d.role].active
            \/ Stays(d, source, peers[d.role], peers'[d.role])
            \/ Renewed(d, source, peers'[d.role])
<1> DEFINE h == Table!HeaderOf(Table!Received(d))
<1>1. /\ h.role = d.role /\ h.sequence = d.sequence /\ h.session = d.session
      /\ h.type = d.type
  <2>1. h = HeaderOf(d)
    BY ReceivedHeader
  <2> HIDE DEF h
  <2> QED
    BY <2>1 DEF HeaderOf
<1>2. d.role \in Role /\ peers \in [Role -> Endpoints]
  BY SentFields DEF LoopInv, LoopTypeOK
<1>3. clock' = clock
  BY DEF Table!Handle
<1>4. \/ Table!Reject(Table!Received(d))
      \/ Table!Refresh(h, source) \/ Table!Register(h, source)
      \/ Table!Unregister(h, source) \/ Table!RefuseData(h, source)
      \/ Table!ForwardData(h, source, d.size, taken)
  BY DEF Table!Handle, Table!Panic
<1> HIDE DEF h
<1>5. Table!RegisterType = RegisterType /\ Table!UnregisterType # RegisterType
      /\ RegisterType \notin {Table!CommandType, Table!StateType}
  BY DEF Table!RegisterType, Table!UnregisterType, Table!CommandType, Table!StateType,
         RegisterType
<1>6. ASSUME UNCHANGED peers, d.type # RegisterType
      PROVE  /\ \A role \in Role : role # d.role => peers'[role] = peers[role]
             /\ Stays(d, source, peers[d.role], peers'[d.role])
  BY <1>6 DEF Stays
<1>7. CASE Table!Reject(Table!Received(d))
  BY <1>3, <1>2, <1>6, <1>7, HeartbeatParses DEF Table!Reject
<1>8. CASE Table!Refresh(h, source)
  <2>1. /\ peers[d.role].active /\ peers[d.role].address = source
        /\ peers[d.role].session = d.session /\ d.type = RegisterType
    BY <1>1, <1>5, <1>8 DEF Table!Refresh, Table!FromHolder
  <2>2. CASE d.sequence <= peers[d.role].lastControl
    <3>1. UNCHANGED peers
      BY <1>1, <1>8, <2>2 DEF Table!Refresh
    <3> QED
      BY <1>2, <1>3, <2>1, <2>2, <3>1 DEF Stays
  <2>3. CASE ~(d.sequence <= peers[d.role].lastControl)
    <3>1. peers' = [peers EXCEPT ![d.role].lastControl = d.sequence, ![d.role].lastSeen = clock]
      BY <1>1, <1>8, <2>3 DEF Table!Refresh
    <3>2. peers'[d.role] = [peers[d.role] EXCEPT !.lastControl = d.sequence, !.lastSeen = clock]
      BY <1>2, <3>1
    <3>3. Renewed(d, source, peers'[d.role])
      BY <1>2, <2>1, <3>2 DEF Renewed, Endpoints
    <3> QED
      BY <1>2, <1>3, <3>1, <3>3
  <2> QED
    BY <2>2, <2>3
<1>9. CASE Table!Register(h, source)
  <2>1. peers' = [peers EXCEPT ![d.role] = Table!NewPeer(h, source)] /\ d.type = RegisterType
    BY <1>1, <1>5, <1>9 DEF Table!Register
  <2>2. Renewed(d, source, peers'[d.role])
    BY <1>1, <1>2, <2>1 DEF Renewed, Table!NewPeer
  <2> QED
    BY <1>2, <1>3, <2>1, <2>2
<1>10. CASE Table!Unregister(h, source)
  <2>1. d.type # RegisterType
    BY <1>1, <1>5, <1>10 DEF Table!Unregister
  <2>2. UNCHANGED peers \/ peers' = [peers EXCEPT ![d.role] = Table!EmptyPeer]
    BY <1>1, <1>10 DEF Table!Unregister
  <2> QED
    BY <1>2, <1>3, <1>6, <2>1, <2>2 DEF Table!EmptyPeer
<1>11. CASE Table!RefuseData(h, source)
  <2>1. d.type # RegisterType /\ UNCHANGED peers
    BY <1>1, <1>5, <1>11 DEF Table!RefuseData
  <2> QED
    BY <1>2, <1>3, <1>6, <2>1
<1>12. CASE Table!ForwardData(h, source, d.size, taken)
  <2>1. d.type # RegisterType
    BY <1>1, <1>5, <1>12 DEF Table!ForwardData
  <2>2. peers' = [peers EXCEPT ![d.role].lastData = d.sequence, ![d.role].dataSet = TRUE,
                               ![d.role].lastSeen = clock]
    BY <1>1, <1>12 DEF Table!ForwardData
  <2>3. peers'[d.role] = [peers[d.role] EXCEPT !.lastData = d.sequence, !.dataSet = TRUE,
                                               !.lastSeen = clock]
    BY <1>2, <2>2
  <2>4. Stays(d, source, peers[d.role], peers'[d.role])
    BY <1>2, <2>1, <2>3 DEF Stays, Endpoints
  <2> QED
    BY <1>2, <1>3, <2>2, <2>4
<1> QED
  BY <1>4, <1>7, <1>8, <1>9, <1>10, <1>11, <1>12
\* The last heartbeat of a client that holds a role was on its way, and has
\* been seen now, or it was seen before.
LEMMA HandleKeepsBeats ==
  ASSUME BeatInv, HandleDatagram
  PROVE  AllFresh' /\ NewestIsLast' /\ ClocksAgree' /\ HoldersAreSeen'
<1>1. LoopInv /\ AllFresh /\ NewestIsLast /\ ClocksAgree /\ HoldersAreSeen
  BY DEF BeatInv
<1>2. /\ time \in Nat /\ clock \in Nat /\ stalled \in Nat /\ Heartbeat \in Nat
      /\ current \in Message
      /\ \A e \in Client : /\ Plays[e] \in Role /\ client[e].control \in Nat
                           /\ client[e].due \in Nat
      /\ \A role \in Role : /\ peers[role].lastSeen \in Nat
                            /\ peers[role].lastControl \in Nat
                            /\ peers[role].session \in Nat
  BY <1>1, BeatTypes DEF HandleDatagram
<1> DEFINE d == current.datagram
           s == current.source
<1>3. /\ d \in Sent /\ s \in Client /\ d.sequence \in Nat /\ d.session \in Nat
      /\ d.role = Plays[s]
      /\ d.session <= client[s].session
      /\ IsBeat(current, s, client[s]) => d.sequence <= client[s].control
  BY <1>1, <1>2, MessageTypes DEF HandleDatagram, AllFresh, Fresh
<1>4. /\ UNCHANGED <<time, stalled, client, queue>> /\ pc' = "maintain" /\ pc = "handle"
  BY DEF HandleDatagram, world
<1>5. PICK taken : Table!Handle(d, s, taken)
  BY DEF HandleDatagram
<1>6. /\ clock' = clock /\ d.role \in Role
      /\ \A role \in Role : role # d.role => peers'[role] = peers[role]
      /\ \/ ~peers'[d.role].active
         \/ Stays(d, s, peers[d.role], peers'[d.role])
         \/ Renewed(d, s, peers'[d.role])
  BY <1>1, <1>3, <1>5, HandleOutcome
\* Of one role at a time.
<1>7. ASSUME NEW role \in Role, peers'[role].active
      PROVE  \/ peers'[role] = peers[role] /\ role # d.role
             \/ role = d.role /\ Stays(d, s, peers[role], peers'[role])
             \/ role = d.role /\ Renewed(d, s, peers'[role])
  BY <1>6, <1>7
<1> HIDE DEF d, s
<1>8. AllFresh'
  <2>1. ASSUME NEW role \in Role, peers'[role].active
        PROVE  peers'[role].session <= client[peers'[role].address].session
    <3>1. peers[role].active => peers[role].session <= client[peers[role].address].session
      BY <1>1 DEF AllFresh
    <3>2. CASE peers'[role] = peers[role]
      BY <2>1, <3>1, <3>2
    <3>3. CASE Stays(d, s, peers[role], peers'[role])
      BY <2>1, <3>1, <3>3 DEF Stays
    <3>4. CASE Renewed(d, s, peers'[role])
      BY <1>3, <3>4 DEF Renewed
    <3> QED
      BY <1>7, <2>1, <3>2, <3>3, <3>4
  <2> QED
    BY <1>1, <1>4, <2>1 DEF AllFresh
<1>9. NewestIsLast'
  BY <1>1, <1>4 DEF NewestIsLast
<1>10. ClocksAgree'
  <2>1. ASSUME NEW role \in Role, peers'[role].active PROVE peers'[role].lastSeen <= clock
    <3>1. peers[role].active => peers[role].lastSeen <= clock
      BY <1>1 DEF ClocksAgree
    <3>2. clock <= clock
      BY <1>2
    <3> QED
      BY <1>7, <2>1, <3>1, <3>2 DEF Stays, Renewed
  <2> QED
    BY <1>1, <1>4, <1>6, <2>1 DEF ClocksAgree
<1>11. HoldersAreSeen'
  <2> SUFFICES ASSUME NEW c \in Client, client'[c].up, Holds(c)' PROVE SeenInTime(c)'
    BY DEF HoldersAreSeen
  <2> DEFINE role == Plays[c]
             sent == client[c].control
             due == client[c].due
  <2>1. role \in Role /\ sent \in Nat /\ due \in Nat
    BY <1>2
  <2>2. /\ peers'[role].active /\ peers'[role].address = c
        /\ peers'[role].session = client[c].session /\ client[c].up
    BY <1>4 DEF Holds
  <2>3. Pending(c)' <=> Waits(c)
    BY <1>4 DEF Pending, Waits
  <2>4. Pending(c) => Waits(c) \/ Newest(current, c, client[c])
    BY DEF Pending
  <2>5. Newest(current, c, client[c]) =>
          s = c /\ d.type = RegisterType /\ d.sequence = sent
    BY DEF Newest, IsBeat, d, s
  <2>6. SeenInTime(c)' <=>
          /\ peers'[role].lastControl <= sent
          /\ peers'[role].lastControl = sent => due <= peers'[role].lastSeen + Heartbeat
          /\ peers'[role].lastControl < sent => Waits(c)
          /\ time <= peers'[role].lastSeen + Heartbeat + stalled
    BY <1>4, <2>3 DEF SeenInTime
  <2>7. Holds(c) =>
          /\ peers[role].lastControl <= sent
          /\ peers[role].lastControl = sent => due <= peers[role].lastSeen + Heartbeat
          /\ peers[role].lastControl < sent => Pending(c)
          /\ time <= peers[role].lastSeen + Heartbeat + stalled
    BY <1>1, <1>4, <2>2 DEF HoldersAreSeen, SeenInTime
  <2>8. CASE peers'[role] = peers[role] /\ role # d.role
    <3>1. Holds(c)
      BY <2>2, <2>8 DEF Holds
    <3>2. s # c
      BY <1>3, <2>8
    <3> QED
      BY <2>4, <2>5, <2>6, <2>7, <2>8, <3>1, <3>2
  <2>9. CASE role = d.role /\ Stays(d, s, peers[role], peers'[role])
    <3> DEFINE last == peers[role].lastControl
               old == peers[role].lastSeen
               new == peers'[role].lastSeen
    <3>1. Holds(c)
      BY <2>2, <2>9 DEF Holds, Stays
    <3>2. last \in Nat /\ old \in Nat
      BY <1>2, <2>1
    <3>3. peers'[role].lastControl = last /\ (new = old \/ new = clock) /\ old <= clock
      <4>1. peers[role].active
        BY <3>1 DEF Holds
      <4> QED
        BY <1>1, <2>1, <2>9, <4>1 DEF ClocksAgree, Stays
    <3>4. d.type = RegisterType => d.sequence <= last
      BY <2>9 DEF Stays
    <3>5. /\ last <= sent /\ (last = sent => due <= old + Heartbeat)
          /\ (last < sent => Pending(c)) /\ time <= old + Heartbeat + stalled
      BY <2>7, <3>1
    <3> HIDE DEF last, old, new, role, sent, due
    <3>6. last < sent => Waits(c)
      <4>1. ASSUME last < sent, Newest(current, c, client[c]) PROVE FALSE
        BY <2>1, <2>5, <3>2, <3>4, <4>1
      <4> QED
        BY <2>4, <3>5, <4>1
    <3>7. /\ last = sent => due <= new + Heartbeat
          /\ time <= new + Heartbeat + stalled
      BY <1>2, <2>1, <3>2, <3>3, <3>5
    <3> QED
      BY <2>6, <3>3, <3>5, <3>6, <3>7 DEF new
  <2>10. CASE role = d.role /\ Renewed(d, s, peers'[role])
    <3>1. /\ s = c /\ d.type = RegisterType /\ d.session = client[c].session
          /\ peers'[role].lastControl = d.sequence /\ peers'[role].lastSeen = clock
      BY <2>2, <2>10 DEF Renewed
    <3>2. IsBeat(current, c, client[c])
      BY <3>1 DEF IsBeat, d, s
    <3>3. Newest(current, c, client[c]) <=> d.sequence = sent
      BY <3>2 DEF Newest, d
    <3>4. d.sequence <= sent /\ d.sequence \in Nat
      BY <1>3, <3>1, <3>2
    <3>5. d.sequence = sent => due <= clock + Heartbeat
      BY <1>1, <1>4, <2>2, <3>3 DEF ClocksAgree
    <3>6. d.sequence # sent => Waits(c)
      BY <1>1, <1>4, <2>2, <2>4, <3>2, <3>3 DEF NewestIsLast
    <3>7. time <= clock + Heartbeat + stalled
      <4>1. time <= clock + stalled
        BY <1>1, <1>4 DEF ClocksAgree
      <4> QED
        BY <1>2, <4>1
    <3> DEFINE n == d.sequence
    <3> HIDE DEF n, sent
    <3>8. n < sent => n # sent
      BY <2>1, <3>4 DEF n
    <3> QED
      BY <2>6, <3>1, <3>4, <3>5, <3>6, <3>7, <3>8 DEF n
  <2> QED
    BY <1>7, <2>1, <2>2, <2>8, <2>9, <2>10
<1> QED
  BY <1>8, <1>9, <1>10, <1>11

\* Time does not pass the next heartbeat of a client, nor stands a datagram
\* in the loop's hands or its socket without a stall.
LEMMA AdvanceKeepsBeats ==
  ASSUME BeatInv, Advance
  PROVE  AllFresh' /\ NewestIsLast' /\ ClocksAgree' /\ HoldersAreSeen'
<1>1. LoopInv /\ AllFresh /\ NewestIsLast /\ ClocksAgree /\ HoldersAreSeen
  BY DEF BeatInv
<1>2. /\ time \in Nat /\ clock \in Nat /\ stalled \in Nat /\ Heartbeat \in Nat
      /\ MaxStall \in Nat /\ Len(queue) \in Nat
      /\ \A c \in Client : Plays[c] \in Role /\ client[c].due \in Nat /\ client[c].control \in Nat
      /\ \A role \in Role : /\ peers[role].lastSeen \in Nat
                            /\ peers[role].lastControl \in Nat
  BY <1>1, BeatTypes, LoopAssumption
<1>3. /\ UNCHANGED <<peers, clock, pc, current, queue, client>> /\ time' = time + 1
  BY DEF Advance, table, loop
<1>4. /\ Runnable => stalled < MaxStall /\ stalled' = stalled + 1
      /\ ~Runnable => stalled' = stalled
  BY DEF Advance
<1>5. pc = "handle" => Runnable
  BY <1>1, NeverBlocked DEF Runnable
<1>6. AllFresh'
  BY <1>1, <1>3 DEF AllFresh
<1>7. \A c \in Client : Pending(c)' <=> Pending(c)
  BY <1>3 DEF Pending, Waits
<1>8. NewestIsLast'
  <2>1. ASSUME NEW c \in Client, client[c].up, pc = "handle", IsBeat(current, c, client[c])
        PROVE  Pending(c)'
    BY <1>1, <1>7, <2>1 DEF NewestIsLast
  <2> QED
    BY <1>1, <1>3, <2>1 DEF NewestIsLast
<1>9. ClocksAgree'
  <2>1. clock <= time + 1 /\ stalled' <= MaxStall
    <3>1. clock <= time /\ stalled <= MaxStall
      BY <1>1 DEF ClocksAgree
    <3> QED
      BY <1>2, <1>4, <3>1
  <2>2. pc = "handle" => time + 1 <= clock + stalled'
    <3>1. pc = "handle" => time <= clock + stalled
      BY <1>1 DEF ClocksAgree
    <3> QED
      BY <1>2, <1>4, <1>5, <3>1
  <2>3. ASSUME NEW c \in Client, client[c].up PROVE client[c].due <= (time + 1) + Heartbeat
    <3> DEFINE due == client[c].due
    <3>1. due <= time + Heartbeat /\ due \in Nat
      BY <1>1, <1>2, <2>3 DEF ClocksAgree
    <3> HIDE DEF due
    <3>2. due <= (time + 1) + Heartbeat
      BY <1>2, <3>1
    <3> QED
      BY <3>2 DEF due
  <2> QED
    BY <1>1, <1>3, <2>1, <2>2, <2>3 DEF ClocksAgree
<1>10. HoldersAreSeen'
  <2> SUFFICES ASSUME pc # "stopped", NEW c \in Client, client[c].up, Holds(c)
               PROVE  SeenInTime(c)'
    BY <1>3 DEF HoldersAreSeen, Holds
  <2> DEFINE seen == peers[Plays[c]].lastSeen
             last == peers[Plays[c]].lastControl
             sent == client[c].control
             due == client[c].due
  <2>1. /\ last <= sent /\ (last = sent => due <= seen + Heartbeat)
        /\ (last < sent => Pending(c)) /\ time <= seen + Heartbeat + stalled
    BY <1>1 DEF HoldersAreSeen, SeenInTime
  <2>2. last \in Nat /\ seen \in Nat /\ sent \in Nat /\ due \in Nat
    BY <1>2
  <2>3. time < due
    BY DEF Advance, ClientsKeepTime
  <2>4. ~Runnable => ~Pending(c)
    <3>1. CASE pc = "read"
      <4>1. ~Runnable => queue = << >>
        BY <3>1 DEF Runnable
      <4>2. queue = << >> => Len(queue) = 0
        OBVIOUS
      <4> QED
        BY <3>1, <4>1, <4>2 DEF Pending, Waits
    <3>2. CASE pc # "read"
      BY <1>1, <1>5, <3>2 DEF Runnable, LoopInv, LoopTypeOK
    <3> QED
      BY <3>1, <3>2
  <2> HIDE DEF seen, last, sent, due
  <2>5. time + 1 <= seen + Heartbeat + stalled'
    <3>1. CASE Runnable
      BY <1>2, <1>4, <2>1, <2>2, <3>1
    <3>2. CASE ~Runnable
      <4>1. due <= seen + Heartbeat
        BY <2>1, <2>2, <2>4, <3>2
      <4> QED
        BY <1>2, <1>4, <2>2, <2>3, <3>2, <4>1
    <3> QED
      BY <3>1, <3>2
  <2> QED
    BY <1>3, <1>7, <2>1, <2>5 DEF SeenInTime, seen, last, sent, due
<1> QED
  BY <1>6, <1>8, <1>9, <1>10
LEMMA BeatInit == Init => BeatInv
<1> SUFFICES ASSUME Init PROVE BeatInv
  OBVIOUS
<1>1. /\ queue = << >> /\ Len(queue) = 0 /\ pc = "check" /\ time = 0 /\ stalled = 0
      /\ \A c \in Client : ~client[c].up
  BY DEF Init, DownClient
<1>2. clock = 0 /\ \A role \in Role : ~peers[role].active
  BY TableRoles DEF Init, Table!Init, Table!EmptyPeer
<1>3. MaxStall \in Nat
  BY LoopAssumption
<1>4. AllFresh /\ NewestIsLast /\ ClocksAgree /\ HoldersAreSeen
  BY <1>1, <1>2, <1>3 DEF AllFresh, NewestIsLast, ClocksAgree, HoldersAreSeen
<1>5. ExpirationsAreCounted
  BY DEF Init, Table!Init, Table!ZeroCounters, ExpirationsAreCounted
<1> QED
  BY <1>4, <1>5, LoopInit DEF BeatInv

\* Only a pass that finds somebody silent counts expirations.
LEMMA ExpirationsStep ==
  ASSUME ExpirationsAreCounted, [Next]_vars
  PROVE  /\ ExpirationsAreCounted'
         /\ counters'.expirations > counters.expirations => Maintain /\ Table!Expire
<1> DEFINE Counted == /\ "expirations" \in DOMAIN counters'
                      /\ counters'.expirations = counters.expirations
<1>1. Counted => ExpirationsAreCounted' /\ ~(counters'.expirations > counters.expirations)
  BY DEF ExpirationsAreCounted
<1>2. counters' = counters => Counted
  BY DEF ExpirationsAreCounted
<1> HIDE DEF Counted
<1>3. CASE \E c \in Client : ClientStep(c)
  BY <1>1, <1>2, <1>3 DEF ClientStep, Start, Beat, Publish, Leave, Die, Receive, table
<1>4. CASE CheckSignal \/ RaiseSignal \/ Kill \/ Advance \/ UNCHANGED vars
  BY <1>1, <1>2, <1>4 DEF CheckSignal, RaiseSignal, Kill, Advance, vars, table
<1>5. CASE ReadDatagram \/ ReadTimeout
  BY <1>1, <1>2, <1>5 DEF ReadDatagram, ReadTimeout, LookAtClock, Table!ReadClock, table
<1>6. CASE HandleDatagram
  <2> DEFINE d == current.datagram
             h == Table!HeaderOf(Table!Received(d))
             s == current.source
  <2>1. PICK taken : \/ Table!Reject(Table!Received(d)) \/ Table!Panic(h, s)
                     \/ Table!Refresh(h, s) \/ Table!Register(h, s) \/ Table!Unregister(h, s)
                     \/ Table!RefuseData(h, s) \/ Table!ForwardData(h, s, d.size, taken)
    BY <1>6 DEF HandleDatagram, Table!Handle
  <2> HIDE DEF h, s, d
  <2>2. Table!Reject(Table!Received(d)) => Counted
    BY DEF Table!Reject, ExpirationsAreCounted, Counted
  <2>3. Table!Panic(h, s) => Counted
    BY DEF Table!Panic, ExpirationsAreCounted, Counted
  <2>4. Table!Refresh(h, s) => Counted
    BY DEF Table!Refresh, ExpirationsAreCounted, Counted
  <2>5. Table!Register(h, s) => Counted
    BY DEF Table!Register, ExpirationsAreCounted, Counted
  <2>6. Table!Unregister(h, s) => Counted
    BY DEF Table!Unregister, ExpirationsAreCounted, Counted
  <2>7. Table!RefuseData(h, s) => Counted
    BY DEF Table!RefuseData, ExpirationsAreCounted, Counted
  <2>8. Table!ForwardData(h, s, d.size, taken) => Counted
    BY DEF Table!ForwardData, ExpirationsAreCounted, Counted
  <2> QED
    BY <1>1, <2>1, <2>2, <2>3, <2>4, <2>5, <2>6, <2>7, <2>8
<1>7. CASE Maintain
  <2>1. CASE Table!Expire
    <3> DEFINE before == counters.expirations
               silent == Table!One(Table!Silent(Table!Guide))
                           + Table!One(Table!Silent(Table!Controller))
    <3>1. silent \in Nat /\ before \in Nat
      BY DEF Table!One, ExpirationsAreCounted
    <3>2. /\ counters'.expirations = before + Table!One(Table!Silent(Table!Guide))
                                      + Table!One(Table!Silent(Table!Controller))
          /\ "expirations" \in DOMAIN counters'
      BY <2>1 DEF Table!Expire, ExpirationsAreCounted
    <3>3. counters'.expirations \in Nat
      BY <3>1, <3>2 DEF Table!One
    <3> QED
      BY <1>7, <2>1, <3>2, <3>3 DEF ExpirationsAreCounted
  <2>2. CASE UNCHANGED table
    BY <1>1, <1>2, <2>2 DEF table
  <2> QED
    BY <1>7, <2>1, <2>2 DEF Maintain
<1>8. CASE Launch
  BY <1>8 DEF Launch, Table!Restart, Table!ZeroCounters, ExpirationsAreCounted
<1> QED
  BY <1>3, <1>4, <1>5, <1>6, <1>7, <1>8 DEF Next, ServeStep

LEMMA BeatStep ==
  ASSUME BeatInv, [Next]_vars,
         [\A c \in Client : Beat(c) /\ pc # "stopped" => Len(queue) < QueueLimit]_vars
  PROVE  BeatInv'
<1>1. LoopInv /\ LoopInv'
  BY LoopStep DEF BeatInv
<1>2. /\ clock \in Nat /\ time \in Nat /\ clock <= clock /\ clock <= time
      /\ AllFresh /\ NewestIsLast /\ ClocksAgree /\ HoldersAreSeen
  BY <1>1, BeatTypes DEF BeatInv, ClocksAgree
<1>3. SUFFICES AllFresh' /\ NewestIsLast' /\ ClocksAgree' /\ HoldersAreSeen'
  BY <1>1, ExpirationsStep DEF BeatInv
<1>4. CASE UNCHANGED vars
  BY <1>2, <1>4, QuietKeepsBeats DEF vars, table, loop, world
<1>5. ASSUME NEW c \in Client, ClientStep(c), ~UNCHANGED vars
      PROVE  AllFresh' /\ NewestIsLast' /\ ClocksAgree' /\ HoldersAreSeen'
  BY <1>5, ClientsKeepBeats
<1>6. CASE CheckSignal
  <2>1. CASE signal
    BY <1>6, <2>1, EndKeepsBeats DEF CheckSignal, table, world
  <2>2. CASE ~signal
    BY <1>2, <1>6, <2>2, QuietKeepsBeats DEF CheckSignal, table, world
  <2> QED
    BY <2>1, <2>2
<1>7. CASE ReadTimeout
  <2>1. /\ UNCHANGED <<queue, time, stalled, client>> /\ pc = "read" /\ pc' = "maintain"
    BY <1>7 DEF ReadTimeout, world
  <2>2. peers' = peers /\ clock' \in Nat /\ clock <= clock'
    BY <1>1, <1>7, ClockRises DEF ReadTimeout
  <2>3. clock' <= time
    BY <1>2, <1>7 DEF ReadTimeout, LookAtClock, table
  <2> QED
    BY <2>1, <2>2, <2>3, QuietKeepsBeats
<1>8. CASE Maintain
  <2>1. /\ UNCHANGED <<queue, time, stalled, client, clock>>
        /\ pc = "maintain" /\ pc' = "check"
    BY <1>8 DEF Maintain, Table!Expire, table, world
  <2>2. \A role \in Role : peers'[role] = peers[role] \/ ~peers'[role].active
    BY <1>8, TableRoles DEF Maintain, Table!Expire, Table!EmptyPeer, table
  <2> QED
    BY <1>2, <2>1, <2>2, QuietKeepsBeats
<1>9. CASE RaiseSignal
  BY <1>2, <1>9, QuietKeepsBeats DEF RaiseSignal, table, loop, world
<1>10. CASE Kill
  BY <1>10, EndKeepsBeats DEF Kill, table, world
<1> QED
  BY <1>4, <1>5, <1>6, <1>7, <1>8, <1>9, <1>10, ReadKeepsBeats, HandleKeepsBeats,
     LaunchKeepsBeats, AdvanceKeepsBeats DEF Next, ServeStep

\* With room in the socket for the heartbeats, what is known of them is
\* inductive, for any lease.
THEOREM BeatsInductive == Spec /\ NoBeatIsLost => []BeatInv
<1>1. BeatInv /\ [Next]_vars
        /\ [\A c \in Client : Beat(c) /\ pc # "stopped" => Len(queue) < QueueLimit]_vars
      => BeatInv'
  BY BeatStep
<1> QED
  BY <1>1, BeatInit, PTL DEF Spec, NoBeatIsLost

\* A pass counts an expiration only when it finds somebody silent, and a
\* holder that beats on time is not silent: it was seen a heartbeat and the
\* stalls ago at the latest.
LEMMA HoldersStay ==
  ASSUME Lease >= Heartbeat + MaxStall, BeatInv, Next, NEW c \in Client,
         Holds(c), client[c].up, counters'.expirations > counters.expirations
  PROVE  peers'[Plays[c]] = peers[Plays[c]]
<1>1. LoopInv /\ ClocksAgree /\ HoldersAreSeen /\ ExpirationsAreCounted
  BY DEF BeatInv
<1>2. Maintain /\ Table!Expire
  BY <1>1, ExpirationsStep
<1> DEFINE role == Plays[c]
           seen == peers[role].lastSeen
<1>3. /\ clock \in Nat /\ time \in Nat /\ stalled \in Nat /\ Heartbeat \in Nat
      /\ role \in Role /\ seen \in Nat
  BY <1>1, BeatTypes
<1>4. MaxStall \in Nat /\ Lease \in Nat
  BY LoopAssumption
<1>5. clock <= time /\ stalled <= MaxStall
  BY <1>1 DEF ClocksAgree
<1>6. time <= seen + Heartbeat + stalled
  BY <1>1, <1>2 DEF Maintain, HoldersAreSeen, SeenInTime
<1>7. peers'[role] = IF Table!Silent(role) THEN Table!EmptyPeer ELSE peers[role]
  BY <1>2, <1>3, TableRoles DEF Table!Expire
<1>8. Table!Silent(role) => clock - seen > Lease
  BY DEF Table!Silent
<1> HIDE DEF seen, role
<1>9. ~(clock - seen > Lease)
  BY <1>3, <1>4, <1>5, <1>6
<1> QED
  BY <1>7, <1>8, <1>9 DEF role

\* A client that beats on time keeps its role, whatever stalls the loop,
\* whoever else registers, publishes, leaves or dies, and however its
\* datagrams wait behind others, for every lease that leaves room for a
\* heartbeat and the stalls.
THEOREM TimelyStay ==
  ASSUME Lease >= Heartbeat + MaxStall
  PROVE  Spec /\ NoBeatIsLost => TimelyPeersStay
<1>1. BeatInv /\ [Next]_vars =>
        [\A c \in Client :
           (Holds(c) /\ client[c].up /\ counters'.expirations > counters.expirations)
             => peers'[Plays[c]] = peers[Plays[c]]]_vars
  BY HoldersStay
<1> QED
  BY <1>1, BeatsInductive, PTL DEF Spec, TimelyPeersStay
=============================================================================
