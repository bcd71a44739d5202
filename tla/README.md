# A TLA+ model of 78QuadLink

78QuadLink moves the joint and IMU data of a simulated quadruped between its
processes: through a shared state board in memory, or through a relay of Unix
datagrams, with a recorder, an inspector and a launcher around them. The modules
here model the parts of it that run concurrently, fail, and depend on order;
TLC checks them on small instances, and TLAPS proves the theorems of the
`*Proofs` modules for every value of the constants.

`PROJECT.json` lists the components, the runs, a mutant for every checked
property, the source lines behind every definition, the findings and the
hazards.

    tlc -workers 2 -config SeqlockPartition.cfg MCSeqlockPartition.tla
    tlapm SeqlockPartitionProofs.tla

## 1. The system

| component | source | state | operations | talks to |
|---|---|---|---|---|
| shared board: a partition | `include/quadlink78/shared_state_board.hpp` (`publish`, `snapshot`), `inspect.go` (`readBoardSlot`) | revision, length and payload words in shared memory; an OFD lock per partition | open for writing, publish, close, die; snapshot | controller, simulator, inspector, recorder, all through shared memory |
| shared board: its file | `shared_state_board.hpp` (`open`, `close`), `board.go`, `inspect.go` (`openReadBoard`), `simkit/main.go` | the path, size and header of the file, locks, descriptors, mappings | create, truncate, write the header, remove; open, stat, lock, map, check, close; remove the directory | simkit creates it, everybody opens it |
| motor wire format | `include/quadlink78/relay_protocol.hpp`, `main.go` (`parsePacket`) | the frame object a packet is decoded into | encode, decode, parse | C++ endpoints and the Go relay; also the payload of the board's motor partitions |
| relay: endpoint table | `tools/go_relay/main.go` (`handle`, `register`, `unregister`, `acceptData`, `route`, `expire`) | one endpoint per role, the counters | register, refresh, replace, unregister, forward, expire | receives from and writes to the endpoints |
| relay: service loop | `main.go` (`serve`) | socket, read deadline, signal channel | read, time out, handle, maintain, stop | kernel socket queues, clients, signals |
| recorder | `tools/go_relay/record.go` (`recordBoard`) | last revisions, counters, a bounded queue, the archive, its manifest | sample, enqueue or drop, write, close, seal; verify | reads the board, hands samples to a second goroutine, writes files |
| archive readers | `record.go` (`verifyRecord`), `simkit/archive.go` (`analyzeArchive`) | statistics per slot | verify, analyze | read what the recorder wrote |
| observation and odometry frames | `observation_frame.hpp`, `odometry_frame.hpp`, `inspect.go` (`validObservationPacket`) | the object that a consumer decodes into | encode, decode, validate | payload of the board's partitions from the third on |
| board inspector | `inspect.go` (`inspectBoard`) | none that outlives a call | open, read eight partitions, judge them, print | reads the board and both codecs' packets |
| simkit: run and supervision | `simkit/main.go` (`cli`, `runWithBoard`, `supervise`) | the run's directory, the workload's process group, the channel of signals, a timer, the terminal | start, forward a signal, insist, wait, kill the group, restore the terminal, remove the directory | relay binary (`-init-board`), the workload, the kernel |
| simkit: adapters | `simkit/adapter.go` | none that outlives a call | load a manifest, build an environment | the environment of the workload |
| simkit: robot preparation | `simkit/robot.go` | the output directory with a model and a contract | check the joints, make the directory, write both files | files of the robot's vendor |
| front ends, packaging, assets | `main.go`, scripts, `CMakeLists.txt` | files of a build | parse flags, build, install | the user |

What makes them hard:

- **Partition.** Readers and a writer share words without a lock. A writer may die
  between any two stores and leave an odd revision; another one takes over. A
  reader tries three times and must leave its caller's previous snapshot alone if
  it fails. *Correct:* each snapshot is one whole commit; the revision counts
  commits, because recorder and report compute numbers of commits from it; a view
  never goes back; a call returns, and a polling reader gets the newest commit.
- **File.** Initialising is three system calls, opening five; other programs open,
  die and remove in between. *Correct:* one writer per partition; nobody gets a
  board that is not whole; an initializer undoes its own work and no other's.
- **Wire format.** Two codecs in two languages, written by hand; a decoder that
  writes into its caller's object before it has checked everything. *Correct:* the
  parser accepts what the encoders write and nothing else; refused packets never
  move a motor.
- **Relay.** Datagrams are lost, duplicated, late and from anybody; two clients may
  contend for a role; leases run out; writes fail after the sequence number has
  advanced. *Correct:* within a registration frames come from one endpoint in
  rising order; every registration, frame and gap is counted once; silent peers
  go, punctual ones stay; a signal stops the loop.
- **Recorder.** Two goroutines, a bounded queue, a disk that fails, signals, kill.
  *Correct:* every sample is accounted for; a manifest is only beside a complete
  archive and explains its gaps; the recorder ends.
- **Socket path.** A killed relay leaves its socket; relays on one path remove each
  other's. *Correct:* a relay that ends removes what it made, and one that is alone serves
  at the path.
- **Observations, inspector.** Two C++ codecs and a Go check of one layout; doubles
  that JSON cannot print; decoders that write before they check. *Correct:* all three
  agree, what they let through can be printed, and finite values in a reused object
  are of one packet.
- **Supervision.** A workload that forks, hangs, ignores signals or is suspended;
  signals, a timer and the leader's end in any order; deferred calls that must run
  in exactly one order; a terminal that must be taken back from outside its
  foreground. *Correct:* the board outlives the workload, an exit leaves nothing
  behind and has the leader's status, and each run ends.
- **Adapters, robots, archives.** An inherited environment; two runs on one output
  directory; joints matched by name; two verifiers of one archive. *Correct:* the
  environment is the profile's; a contract lies only beside the model it describes
  and covers its joints one to one; the verifiers agree but for named differences.

## 2. The modules and the code

| module | what it is |
|---|---|
| `SeqlockPartition` | `publish`, `snapshot` and `readBoardSlot`, one action per load and store |
| `AtomicPartition` | the abstract partition: `Commit` and `Snapshot` in one step each |
| `BoardFile` | `initializeBoard`, `Board::open`, `Board::close`, `openReadBoard`, one action per system call |
| `WireProtocol` | `encodeFrame`, `encodeControlPacket`, `decodeHeader`, `decodeFrame`, `parsePacket` as operators on packets |
| `WireEndpoint` | a C++ endpoint that decodes packet after packet into one frame object |
| `Relay` | the endpoint table: `Handle` (with `Register`, `Refresh`, `Unregister`, `ForwardData`, `RefuseData`, `Reject`), `Expire`, `Restart` |
| `RelayLoop` | `serve` with its socket, deadline, signals and clients; instantiates `Relay` and implements it |
| `RelaySocket` | the path of the socket: what `serve` does before and after its loop, in several relays |
| `BackendFiles` | what the backend binary leaves at a path: `BoardFile` or `RelaySocket` |
| `Recorder` | the sampler and the writer goroutine of `recordBoard` |
| `Archive` | `analyzeArchive` step by step, `verifyRecord` as a predicate |
| `ObservationEndpoint` | both observation codecs, and a consumer that decodes packet after packet into one object |
| `BoardInspector` | the judgement of `inspectBoard` on a motor or an observation partition, beside the consumers of the same packets |
| `Adapter` | `loadAdapter` and `environment` as operators |
| `Supervisor` | `cli`, `runWithBoard` and `supervise`, with the workload's processes |
| `RobotPreparation` | `checkJoints`, and `prepareRobot` in one action per system call |
| `Simkit` | one invocation of simkit: `Supervisor`, `Archive` or `RobotPreparation` |
| `SeqlockPartitionProofs`, `BackendFilesProofs`, `BoardInspectorProofs`, `RelayProofs`, `RelayLoopProofs`, `RecorderProofs`, `SimkitProofs` | the theorems |
| `DataFacts` | lemmas for them: induction with sets in place of predicates, sums, remainders |
| `MC*` | instances for TLC |

`Relay` and `WireEndpoint` extend `WireProtocol`; `RelayLoop` has `Relay` as its
instance `Table` and calls its actions from those of the loop. `BoardInspector`
extends `WireEndpoint` and `ObservationEndpoint`: one of the two consumers is at
work, depending on the partition. `Supervisor` extends `Adapter`.

**SeqlockPartition.** `revision`, `length`, `words` are the words of a partition;
`lock` its OFD lock; `writer[w]` and `reader[r]` a program counter with the locals
of `publish` and `snapshot`; `view[r]` the caller's buffer and `last_revision`;
`log` is a history of commits. Every shared access is `__ATOMIC_SEQ_CST` (and
`atomic.LoadUint64` in Go), so that interleavings of the actions are the
behaviours of the program. `publish` is `BeginPublish`, `LoadPrevious`, `StoreOdd`,
`StoreLength`, `StoreWord` once per word, `StoreEven`; `snapshot` is
`BeginSnapshot`, `LoadRevision`, `LoadLength`, `LoadWord` per word, `Recheck`, with
`Retry` for `continue`. `CrashWriter` ends a process anywhere and frees its lock.
Sizes count words of 8 bytes; the padding of the last word is left out.
`readBoardSlot` differs in having no last revision and no limited buffer
(`GoReader`).

**BoardFile.** Each run of `-init-board` makes at most one file, which is named by it.
`path` is the file that the path leads to, `full` and `magic` what has been done to
each file, `unlinked` those whose directory simkit has removed, `lock` the OFD locks
of each file; `init[i]` and `board[p]` say where a run of `-init-board` and a `Board`
object are. A descriptor belongs to its file, not to the path. `Unmap` may happen at
any place: it is `close()`, an error path, or the death of the process. `close()`
unmaps before it closes the descriptor, so the lock outlives the mapping: two steps.
`RemoveFailed` removes whatever file the path leads to by then, or fails, and the
error is dropped. `Unlink` stands for the removal of the run's directory by simkit,
after the initializer it waited for.

**WireProtocol, WireEndpoint.** A packet is a record of its fields: size, magic,
version, type, role, flags, payload size, sequence, session, whether the CRC is
right, and the motors as one value. The numbers of types, roles and sizes are the
code's. `DecodeFrame` returns the error and the object as it is left, also when it
is refused.

**Relay.** `peers`, `counters` and `clock` are the relay's fields; `tenures`,
`accepted` and `written` are histories (a tenure is a registration of a role; what
`acceptData` let through in it). `Handle` is one datagram from `parsePacket` to the
write, `taken` whether the write succeeds. Sequence numbers have the width
`MaxSequence + 1` and `sequenceGaps` wraps like a `uint64`; with `MaxSequence` = 7
the wrap is within reach. A datagram is received through `Received`, which cuts it
to the length of the buffer. Its source may be `NoAddress`, a nil pointer in Go:
`register` follows it, and the relay ends with a panic (`panicked`).

**RelayLoop.** `pc` is the place in `serve`; `queue` the relay's socket, bounded by
the kernel, which refuses what does not fit; `inbox` the clients' sockets; a write
to a living client with a full inbox blocks (`Blocked`). A read fails with a
timeout before it looks at the socket when the deadline has passed; this is how
Go's poller behaves, and why datagrams may wait through a maintenance pass. The
clients (register, heartbeat, publish, leave, die, receive) are external: the C++
endpoints of the integration, of which this repository has only the codec. Time
advances in periods of 100 ms.

**Recorder.** `board[s]` is the newest commit of a slot and whether it decodes;
snapshots are atomic here, as `SeqlockPartition` justifies. `pc` runs through the
select, the slots of a pass, the closing of the queue, the manifest; `writer`,
`item`, `written` and `done` belong to the goroutine. `archive.length` is how many
records have reached the file; a record's parts and gzip's blocks are not
distinguished. Disk operations may fail wherever the code checks an error;
`Crash` kills the process anywhere.

**RelaySocket.** `socket` is the run of the relay whose socket the path leads to, open
or not; `relay[r]` where `serve` is in each run; `alone` a history of the runs beside
which no other was alive. `RemoveOld` and `RemoveSocket` remove whatever is at the path, and
`Chmod` goes by the path, too, as the code does. Every call may fail, the deferred
`os.Remove` (`RemoveSocket`) among them; `Kill` is SIGKILL, or a signal before
`Notify` or after `Stop`.

**Archive.** A file is whether its prefix is right, its records and whether its
stream ends well; a hash stands for the file it was taken of. A manifest has, beside
its fields, what its decoding depends on: whether the file begins with a JSON value of
the right types, how long that is, and whether anything follows it. `verifyRecord` is
`Verifies`: `json.Unmarshal` takes the file as one value and refuses what follows.
`analyzeArchive` is `Open`, `ReadRecord` and `Finish`; its `Decoder.Decode` stops at the
end of the first value, which a `LimitReader` cuts off after 1 MiB.

**ObservationEndpoint, BoardInspector.** A packet is its magic, type, size, whether
its CRC is right, stamps and names as one value each, and its doubles one by one.
`DecodeObservation` returns the consumer's object as it is left: stamps and names
are stored before the doubles, and each double before it is checked.
`ValidObservationPacket` and `InspectionPrints` are the Go check and what
`json.Marshal` can print.

**Supervisor.** `pc` is the place of simkit; `process`, `doomed` and `fate` are the
workload's processes, those that SIGKILL was sent to, and how the leader ended;
`signals` counts what is in the channel of two; `done` is the channel from the
goroutine in `cmd.Wait`; `terminal` and `ttou` the foreground group and whether
SIGTTOU is ignored; `files` and `env` the run's directory and the environment that the
workload was given. The deferred calls of `supervise` are actions in their reverse
order: `KillGroup`, `RestoreTerminal`, `Unsubscribe`, then `Remove`, which may fail
half-way, and whose error is dropped (`unremoved`). A signal that comes while nobody
listens ends simkit, and so does SIGHUP at any time. The processes of the workload are
external: they fork, exit, are suspended and resumed, and heed no signal but SIGKILL,
which takes effect later than it is sent.

**Adapter.** An environment is a function from names to values. The JSON of a
manifest and its descriptive fields are one Boolean.

**RobotPreparation.** A model is the sequence of its joints and whether the rest of
it is sound. `directory`, `urdf` and `contract` are what exists on the disk; a file
is whose it is and whether all of it is there. Several runs share one output
directory; each call may fail and each run may die between any two.

## 3. The runs

| run | bounds | question |
|---|---|---|
| `seqlock` | 2 writers, the Go reader and a C++ reader whose buffer holds 1 of 2 words, 2 values per word, publishes begin up to revision 2 | tears, counts, sizes; the atomic cell; calls return, readers catch up |
| `backend_files` | 2 initializers, 3 programs, 2 slots; 3 relays on one path | one writer, whole boards, clean paths; who is at the socket's path after failures, kills and other relays |
| `inspector` | motor packets of all types and roles around the valid ones, zero and nonzero identifiers, up to 2 damaged fields; observations of both schemas with 2 doubles, finite or not, names with and without an end, 1 damaged field | do five hand-written pieces of two layouts agree; what does a refused packet leave behind |
| `relay` | 5 datagrams, 2 sessions, 2 addresses or none, numbers up to 7, any expiry, restarts | do the counters add up; order and exclusiveness within a tenure |
| `relay_reuse` | as `relay` | finding 1: numbers are accepted again after a new registration |
| `relay_source` | as `relay` | finding 2: a source without an address |
| `relay_lengths` | as `relay` | finding 3: a command with bytes after it |
| `loop_lease` | 2 clients, lease 3, heartbeat 2, time up to 6, one stall | silent peers go, punctual ones stay |
| `loop_traffic` | 2 clients, 2 commands, inboxes of 1, socket queue of 2, one relaunch, time up to 1 | the loop implements `Relay`; a signal stops it |
| `recorder` | 2 slots with 3 and 2 commits, queue of 1, any disk failure, any crash | accounting, order, manifest, gaps, end |
| `simkit` | a workload of 3 processes, 2 exit codes, a channel of 2 signals, manifests of up to 2 profiles, 3 ambient environments, with and without a terminal; archives of up to 3 records of 2 slots and 3 revisions, 1 damaged record, 11 manifests beside those of up to 1 record; models of up to 3 joints for a wire of 2, 2 runs | does every run end cleanly, with the right status and environment, whatever the workload does; statistics against a definition by sets; the two verifiers against each other; contracts against models |
| `supervisor_cleanup` | the workloads of `simkit` | finding 4: ends of simkit that leave the directory |

Why the bounds are enough. *Partition:* a tear needs a payload of two words and a
second publish over the first; three attempts of a reader meet two writers and an
abandoned odd revision. Publishes may begin at the revisions 0, 1 and 2, that is,
over a new partition, a committed one and the remains of a dead writer.
*File:* a second file under the path needs a removal, by the first initializer or by
simkit; a contender that is refused needs two writers, a third program opens across the
change. *Codecs:* each field of
a packet is checked by itself or against one other, so two damaged fields meet every
pair of checks, and two doubles a good one before and after a bad one. *Relay:* five
datagrams hold a registration, a frame, a replacement or expiry, another
registration and the frame again. With a lease of 0 every silent peer may expire at
any pass; how a lease is measured is `loop_lease`'s matter. *Socket:* one relay
that is killed and two that remove each other's, or one after two of them.
*Recorder:* an overwritten commit needs three commits of one slot; a drop needs a
queue of one and a second slot. *Files of simkit:* three records in two slots give each pattern
of rising, repeated and falling neighbours; three joints for a wire of two can be too
many, too few, or two of one name. *Supervision:* a leader, a child that outlives it,
and a grandchild that is forked while the group is being killed; the third signal
meets a full channel.

`CHECK_DEADLOCK FALSE` is set where the system comes to an end: the recorder, the
commands of simkit and a run of it return, the relay stops, and each initializer of a
board runs once.

### Safety properties

For the partition `NoTornSnapshot`, `RevisionCountsCommits`, `SnapshotFitsCaller`
and the refinement `ImplementsAtomicPartition`; for its file `OneWriter`,
`OpenIsReady`, `PathIsWhole`; for the motor codecs `CodecsMatch` and
`MotorsFromLastGood`; for observations and the inspector `ObservationChecksAgree` and
`FiniteValuesAreOfOnePacket`; for the table `PeersAccounted`, `FramesAccounted`,
`GapsAccounted`, `AcceptedInOrder`, `TenuresAreExclusive`;
for the loop `SilentPeersGo`, `TimelyPeersStay` and the refinement `ImplementsRelay`;
for the socket's path `PathLeadsToTheRelay`; for the recorder `SamplesAccounted`,
`OverwritesAccounted`, `WrittenInOrder`, `SealedIsComplete`, `GapsExplained`,
`SuccessIsSealed`; for archives `StatsMatchRecords`, `VerifiersAgree`; for prepared
robots `ContractVouches`, `ContractCoversJoints`; for a run of simkit
`BoardOutlivesWorkload`, `ExitIsClean`, `StatusIsTheLeaders` and
`EnvironmentIsTheProfiles`. Each is stated in words above its definition. The
inductive invariants (`SeqlockInv`, `RecorderInv` and so on, with the type
invariants in them) are proved and not among the runs' properties.

What the checking of them taught:

- `SilentPeersGo` is tight: a silent peer may stay for its lease, one period, and
  the time the scheduler took from the loop.
- `TimelyPeersStay` needs a lease with room for a heartbeat and the stalls. With two
  stalls in this instance a punctual client can be expired, since the deadline goes
  before its waiting heartbeat; the defaults of the code (3 s against 1 s) leave two
  seconds. A loop that is delayed by 100 ms in every pass finds its deadline expired
  at every read and starves the socket.
- Commits before a slot's first sample are not counted as overwritten
  (`record.go:118` requires an earlier revision); `OverwritesAccounted` is stated
  from the first sample on.
- `initializeBoard` removes by name (`board.go:22`). `PathIsWhole` holds all the same,
  with runs of it beside each other and any deaths: while a run is under way its file is
  at the path, so `O_EXCL` keeps every other file away. It rests on simkit alone
  removing the path, after it has waited. Half a board is left by a run that dies or
  whose `os.Remove` fails.
- The two verifiers of an archive part where they decode the manifest: the report
  never sees what follows the first JSON value (`archive.go:59`), `verifyRecord` refuses
  it (`record.go:178`), and only the report refuses a manifest that goes on beyond 1 MiB.
  `VerifiersAgree` names these and the other differences, and says that there are no
  more.
- `ObservationChecksAgree` has an exception for motors: `encodeFrame` does not look at
  them, so that one NaN in a motor partition keeps the whole inspection from being
  printed (`inspect.go:111`). It has another for names without an end, which the Go
  check does not look at.
- `FiniteValuesAreOfOnePacket` is all that a consumer of a reused object may rely on:
  after a refusal, stamps and names may be of another packet than the doubles.
- A second relay on a path takes it away from the first, which serves on without an
  address, and the first one's end removes the second one's socket.
  `PathLeadsToTheRelay` promises something only to relays that are alone.
- The comment at `simkit/main.go:153` says that descendants are stopped before their
  board is unlinked. SIGKILL is sent to them before, and not waited for;
  `BoardOutlivesWorkload` says what holds.
- A suspended workload does not notice the first signal; `RunEnds` holds because of
  the kill after three seconds.

### Findings

1. `relay_reuse`: `register` (`main.go:279`) begins a new endpoint without the last
   data sequence for every sender that is not the current holder, also for a
   session that held the role before. A Register repeated after a replacement,
   expiry or Unregister opens the way for frames that were forwarded already. The
   relay's README (57-58) says that it rejects duplicate and old frames, without
   restricting that to one registration. `AcceptedInOrder` is what the code does
   guarantee.
2. `relay_source`: `register` copies `*source` (`main.go:278`). A datagram from a
   socket that was never bound has no address, its source is nil, and its Register
   ends the relay with a panic; the same README says that unregistered addresses are
   rejected.
3. `relay_lengths`: the receive buffer (`main.go:201`) is exactly one command long, so
   that a longer datagram is cut to a command's length before `parsePacket` compares it,
   and forwarded as the command at its beginning. The same README says that malformed
   lengths are rejected. `ForwardsNothingShort` is what holds: nothing that was sent too
   short is forwarded, and no state that was sent too long.
4. `supervisor_cleanup`: the directory of a run exists from `MkdirTemp` on
   (`simkit/main.go:134`), but SIGINT and SIGTERM are caught only between `Notify` and
   the deferred `Stop`, and SIGHUP never. A signal while the backend initialises the
   board, one between `Stop` and `RemoveAll`, and a hang-up at any time leave the
   directory, though `README.en.md:80` says that a run will clean up on exit.
   `ExitIsClean` is what holds, for exits of simkit by itself.

### Liveness and fairness

- `SnapshotReturns`, `ReadersCatchUp` (`seqlock`): weak fairness of the
  steps inside `publish`, because a process that runs goes on until it crashes, and
  of each reader as a whole, because consumers poll. No writer has to open or to
  publish; readers catch up whenever the writers pause at a committed revision.
- `SignalStops` (`loop_traffic`): weak fairness of the loop (the scheduler runs it),
  of time, of the clients' heartbeats and of their reading. The last one is an
  assumption about the endpoints and not about the relay: `WriteToUnix` has no
  deadline here, and a client that lives and never reads would block it. `MaxTime`
  stands for every later time, so that no deadline lies behind the end of time.
- `RecorderEnds` (`recorder`): weak fairness of both goroutines, strong fairness of
  `SelectStop` and `SelectDone`, because Go's `select` chooses among ready channels
  at random and passes none of them over for ever.
- `RunEnds` (`simkit`): weak fairness of simkit and of its goroutine in `cmd.Wait`
  (they are scheduled), of the timer, and of the delivery of SIGKILL to each process.
  The workload owes nothing: it may hang, ignore every signal or be suspended for
  ever.

## 4. What is proved

For any sets of processes, addresses, packets and payloads, any capacity, lease,
width of numbers and bounds, from the named assumptions on the constants
(`PartitionAssumption`, `BoardFileAssumption`, `EndpointAssumption`,
`ObservationAssumption`, `InspectorAssumption`, `RelayAssumption`,
`RecorderAssumption`, `SupervisorAssumption`, `RobotAssumption`,
`ArchiveAssumption`, `SocketAssumption`, `LoopAssumption`), all of which TLC
evaluates in the runs:

**SeqlockPartitionProofs.** `SeqlockInv` is inductive (`Inductive`); from it follow
`TypeOK`, `NoTornSnapshot`, `RevisionCountsCommits` and `ViewNeverRegresses`, and
`Refinement`: the sequence lock implements the atomic cell. `NoTornSnapshot` alone
is not inductive, as it says nothing of what a reader is about to hand out. The
invariant adds: whoever is inside `publish` holds the lock, and what it has stored
so far is in memory behind an odd revision (`WriterInv`); at an even revision memory
is the last commit, whatever a dead writer left before (`MemoryInv`); and a reader
whose first revision is still there has copied what memory holds (`ReaderInv`). The
step that needs all of them is `Recheck`: an equal, even revision means that memory
was the last commit all along. `FitsTheCaller` has a small
invariant of its own, `FitInv`: a size that was compared with the caller's room stays
for the attempt. For the refinement, `StoreEven` maps to `Commit`, a
successful `Recheck` to `Snapshot`, everything else to a stutter; the witness of
the abstract snapshot is the newest commit at the recheck.

**BackendFilesProofs.** `BoardFileInv` is inductive; `OneWriter`, `OpenIsReady` and
`PathIsWhole` follow. It adds that a Board past the lock holds it (`LocksAreHeld`),
that one past `fstat` has a whole file (`FilesAreFull`: files never shrink), and how
far each file is with the run that makes it (`MakersAreOnTheirWay`). The step that
`PathIsWhole` turns on is `RemoveFailed`: the run is under way, so the path leads to
its own file. For any number of relays on one path `SocketInv` is inductive:
`PathLeadsToTheRelay` says what a relay leaves behind, and `LeftAlone` adds that
nobody else lives beside one that is alone, and that it finds the path free when it
binds.

**RelayProofs.** `RelayInv` is inductive. `AcceptedInOrder` and
`TenuresAreExclusive` speak of histories; `TenureInv` ties them to the table: while
a tenure lasts, its frames came from the endpoint that holds the role, and none
has a number beyond the one it remembers. The counters' invariants
(`PeersAccounted`, `FramesAccounted`) go with them, one lemma per branch of
`Handle`. `ForwardsNothingShort` follows from what the parser compares: a datagram
that fills the receive buffer may have been longer, any other has the length of its
type. `GapsAddUp` says what the gap counter counts: the numbers
skipped between the accepted frames of one tenure, for both roles together and
modulo the counter's width. It needs `HolderSentNewest`, that a holder which has sent
data remembers the number of its role's last accepted frame; the sum over a history
that has grown by a frame is one term more (`SumPlus`), and remainders add up
(`RemainderOfSum`).

**RelayLoopProofs.** For any clients, lease, queues and stalls. `LoopInv` is
inductive; its parts are `MessagesAreSent` (what waits at the socket is what a client
that was started sends) and `PassesAreTimely`: the next pass is at most a period
ahead of the clock, the loop late for it by at most its stalls, and since the last
pass nobody is in the table who was silent for a lease by then. `SilentGo` adds the
three up. Time passes by itself only while the loop waits for its deadline: it never
waits for a client that reads what it is sent, which is what `AdvanceKeeps` takes from
`ClientsKeepTime`. `TableImplemented` maps each of the loop's steps to a step of
`Relay` or to a stutter; `MessagesAreSent` makes what is handled a datagram of `Relay`.

`TimelyStay` proves `TimelyPeersStay` from two hypotheses: the lease has room for a
heartbeat and the stalls (`main.go:157` only asks for more than the heartbeat of 1 s; the
default of 3 s leaves two seconds for the stalls), and no heartbeat finds the relay's socket full
(`NoBeatIsLost`; it holds in the instance of `RelayLoopLease`, where the property is
checked). Without the second one the property is false of the code, as UDP drops what
does not fit. Its invariant is `BeatInv` (`BeatsInductive`, for any lease):
no heartbeat waits behind a newer one of its client's session (`NewestIsLast`), nothing
in the queue or in the table is newer than its client (`AllFresh`), and of a client that
holds a role either the last heartbeat has renewed the lease, and then the next one is due
within a heartbeat of `lastSeen`, or it is on its way (`SeenInTime`). In the latter case
the loop has something to read, so that time passes only as a stall. At a pass the clock is
therefore ahead of `lastSeen` by at most a heartbeat and the stalls, and the pass does not
expire the role. `HeartbeatParses` and `HandleOutcome` say what `Handle` does with such a
heartbeat: it renews the lease, or the role is no longer that client's.

**BoardInspectorProofs.** The motor wire format, for every set of packets:
`ParserImage` and `DecoderImage` reduce acceptance, check by check, to being an
encoder's output; with them `EndpointInv` is inductive, and the parser and the decoder
agree with the encoders (`CodecsAgree`), refused packets keep the motors (`MotorsKept`)
and accepted frames are of one packet (`AcceptedWhole`).

The observation format, for any doubles, names, number of doubles and packets: the
decoder's loop stops at the first double that is not finite, the least one: with
that, `ObservationInductive` knows of the object that its doubles are an initial
part of one packet's, with at most one not finite, over those of an earlier one.
`ValuesOfOnePacket` and `ChecksAgree` follow, the latter check by check for both
schemas.

**RecorderProofs.** For any number of slots, queue capacity and commits.
`RecorderInv` is inductive over all interleavings of the sampler with the writer. It
has two parts beside the types. `EndsInOrder`: the archive is closed only after the
queue was closed and emptied, and the manifest is written after that, from the final
counters; `SealedComplete` and `SuccessSealed` follow. `RevisionsRise`: for each slot
the revisions rise from the archive through the writer's hands and the queue up to
the board; `InOrder` is its first piece, and alone it is not inductive, as it says
nothing of what is still to be written.

`CountsInductive` carries the counters with it. It adds that nothing older than a
slot's first snapshot is on its way (`SampledFromFirst`); with that, `SamplesAddUp` and
`OverwritesAddUp` are inductive: no snapshot is lost without a trace, and what the
manifest calls overwritten is, slot by slot, the commits between the first and the
last snapshot that nobody sampled. `GapsAreExplained` relates the two to what
analyzeArchive computes from the records alone: a slot's gap is at most what was
overwritten there and what was sampled there and not written (`UnobservedBound`);
summed over the slots the latter is what the queue dropped and the check refused, since
the archive is the sum of its slots' records (`CountByClass`).

**SimkitProofs.** `SupervisorInv` says what is known at each place of a run: which
files and whose terminal there are (`Possessions`), what may be alive (`Workload`),
what the status is (`Result`) and how many signals were forwarded (`Grace`). From it
follow `BoardIsThere`, `CleanExit`, `StatusPassesThrough`, and `KillIsLast`: SIGKILL
for a leader that was not waited for comes only after a signal, and three seconds or a
second one. `CleanExit` needs that SIGTTOU is ignored from `Listen` until after
`RestoreTerminal`, also when `Start` fails. `EnvironmentIsGiven` rests on
`EnvironmentInv`, that the adapter loads and has the profile, and on what
`Environment` does with two ambient environments that agree on all that no profile
manages. For prepare-robot, `RobotInductive`: at most one run is past `Mkdir`, and the
files are its own; `ContractIsTrue` follows. `JointsAreCovered` is about the joints:
as many names as the wire has, each of them found, and no name twice leave a
one-to-one assignment, by counting.

For the readers of an archive, of any records, manifest and damage:
`ArchiveInductive`. While the report reads, its statistics are those of the records
behind it (`StatsAreRight`), where a slot's neighbours gain exactly one pair with the
slot's next record (`NewNeighbour`), and it has counted their bytes; at the end the
verdict has grounds in the file (`VerdictHasGrounds`), and the grounds for a refusal are
either `verifyRecord`'s too or one of the named differences; what it accepts,
`verifyRecord` refuses only for data after the manifest (`ReadersAgree`).
`CommandsAreApart` is what lets the theorems about each command speak of `CSpec`, the
composition that is run.

**DataFacts.** Induction on a property cannot be had from the library's theorems,
whose parameter is an operator; `WFMin` has none, and with it `NatInductionOnSet` and
`SubsetInduction` state induction for a set of numbers or of subsets. The sums of the
community modules (`SumFunctionOnSet`, a fold over a set in an order of its own choice)
are reduced to this: a sum does not depend on the order (`SumRemove`), changes with one
value by its difference (`SumChange`), and is monotonic.

**Model-checked only.** Liveness (`SnapshotReturns`, `ReadersCatchUp`, `SignalStops`,
`RecorderEnds`, `RunEnds`) is out of the proof system's reach. All other properties of
the runs that pass are theorems, `TimelyPeersStay` under the hypotheses above.

## 5. What is not modelled

- Memory order weaker than sequential consistency: the code does not use it.
- Bytes: floating-point fields, CRC and SHA-256 computation, gzip, JSON and all
  formatting. A CRC is right or wrong; a hash stands for its file.
- XML and its rewriting, meshes and controller parameters of a robot's model: one
  Boolean of the model. Bytes after a name's first zero in an observation.
- simkit's `doctor`, `version`, `help` and `env`, and the flags of both binaries:
  they print, or refuse, and change nothing. The relay's periodic report.
- Process numbers: the deferred SIGKILL goes to a number whose leader was reaped, and
  which Linux does not give out again before a whole round.
- Descendants of a workload that leave its process group: supervise asks for the
  contrary, and has no means against it.
- Build, packaging and installation scripts, icons, fixtures, measurements: no
  state beyond the files of a build.

## 6. Plan

The order was by what fails in the hardest way: memory shared without locks first,
then the data plane, then the service processes, then what prepares and judges files.
All components with state of their own are modelled now. What is left:

1. A composition of `Recorder` with the partitions of `SeqlockPartition` in place of
   its atomic snapshots, which `ImplementsAtomicPartition` justifies informally now.
2. `Relay`'s theorems for the loop. `TableImplemented` justifies the transfer, which the
   proof system does not make by itself: a temporal theorem of an instance cannot be
   cited.
