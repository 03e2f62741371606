# A formal model of Veracity

Veracity is an event-sourced engine for Dogma applications. This directory holds
TLA+ models of the parts of it that coordinate concurrent work over shared,
durable state, the TLC configurations that check them, and TLAPS proofs of the
results that do not depend on the size of an instance. Every definition that
stands for code is listed in `PROJECT.json` under `map` with the lines it
models. Paths below are relative to the repository; `src/` is its root.

## 1. Inventory

| Component | State | Operations | Interacts with |
|---|---|---|---|
| Integration supervisor, `internal/integration/supervisor.go` | in memory: `journalPos`, `eventStreamID`, `eventOffsetHint`, the state of its state machine; durable: a journal and the set of accepted commands, both named after the handler and so shared by all nodes | `recover` (scan, finish pending work, truncate), `idle`, `acceptCommand`, `handleCommand`, `appendEvents`, `Shutdown` | executors push requests into its queue and wait for an Ack; it calls the handler and an `EventRecorder` |
| Command executor and `ackqueue` | a channel; one place for each acknowledgement | `Push`, `Ack`, `Nack` | the supervisor of the same node |
| Event stream worker, `internal/eventstream/worker.go` | `pos`, `off`; durable: the journal of one stream, shared by all nodes | load the last record, duplicate check, search, append | receives exchanges from its supervisor, answers their producers |
| Event stream supervisor, `internal/eventstream/supervisor.go` | the map of workers, a shutdown latch | `idleState`, `forwardAppendState`, `shutdownState`, start of workers | one goroutine per worker; unbuffered queues and `workerStopped` |
| Exchange queue, signaling, `fsm` | channels, a latch, the current state | `Do`, `Ok`, `Err`; `Signal`; enter, stay, stop, fail, final state | all of the above |
| Registrar, `internal/cluster/registry.go` | the registration of its node in a shared keyspace, a ticker | register, renew, deregister | observers, through the keyspace only |
| Registry observer, same file | the nodes it has published, a ticker, a shutdown latch | poll, delete what has expired, publish | whoever receives `MembershipChanged` |
| Optimistic value and ordered set, `internal/optimistic` | an atomic pointer to a slice; the arrays its versions share | `Add`, `Delete`, `Has`, `Members`, `Apply` with its retries | callers on any goroutine |
| Partitioner, `internal/cluster/partition.go` | an ordered set of node IDs | `AddNode`, `RemoveNode`, `Route` | nothing uses it yet |
| Topic, `internal/messaging/topic.go` | a slice of subscribers under a mutex, a channel of messages, a goroutine | `Subscribe`, `Unsubscribe`, `Publish`, `Close`, `run` | nothing uses it yet |
| Engine and its configuration | none after construction | `Run` starts the registrar and one task for each handler in an errgroup | the first error cancels the context of all |

What is hard about it:

* *Several writers, one journal.* The engines of a cluster run a supervisor for
  each handler and may run a worker for each stream. Nothing but the journal's
  refusal to write at a used position arbitrates between them, and each acts on
  positions and offsets it read earlier.
* *Failures between two effects.* Any call may fail before or after its effect,
  or be abandoned and take effect later; the process may die between any two.
* *Idempotency by hints.* Retried appends are recognised only at or after an
  offset hint. A hint that is too high duplicates events.
* *Goroutines on unbuffered channels.* A worker may end at the moment a request
  is sent to it, and Run must not return before all workers have ended.
* *Shared arrays.* Versions of an optimistic value share the arrays of their
  slices, and a topic delivers to a copy of a list that others change.
* *Leases by wall clock.* A registration is read, compared with the clock and
  written by steps that may each be late, while observers delete what expired.

The hazards, each at its line and with the properties that cover it, are in
`PROJECT.json`.

What makes each component correct:

* integration supervisor: a command is accepted once and one result of it is
  recorded and published once; an Ack is durable; truncation forgets only what
  is finished and remembered; accepted commands are finished in the end;
* event stream worker: a batch is appended once, at contiguous offsets, whatever
  the worker believes; a response is true;
* event stream supervisor: one goroutine per stream, one answer per exchange, no
  goroutine after Run, no circular wait;
* registry: a running node is registered, is never reported as gone, and is
  found; one that stops is forgotten;
* ordered set: calls that do not overlap behave as an atomic set whatever the
  array held before; every call returns;
* partitioner: the route is the first node of the highest score, does not depend
  on the order in which nodes came and went, and changes only for work of nodes
  that join or leave;
* topic: a channel gets every message published while it is subscribed, in order
  and once, none that is published later, and holds up nobody when it leaves.

## 2. Modules

| Module | Models |
|---|---|
| `CommandLifecycle` | abstract: accept, acknowledge, decide, publish, forget |
| `IntegrationSupervisor` | the integration supervisors of one handler |
| `EventStream` | abstract: a batch takes one interval; repeats are told which |
| `EventStreamWorker` | the workers of one stream |
| `EventStreamSupervisor` | the supervisor of one node and its worker goroutines |
| `Registry` | registrars, observers, keyspace and clock |
| `OrderedSet` | the ordered set and the optimistic value, down to array cells |
| `Partitioner` | routes on top of `OrderedSet`, which it extends |
| `Topic` | a topic, its goroutine and the owners of subscribed channels |
| `IntegrationPublicationProofs` | theorems about events on streams and truncation, and the refinement of `CommandLifecycle`, on top of `IntegrationSupervisorProofs` |
| other `*Proofs` | theorems about the module they are named after; `PartitionerProofs` builds on `OrderedSetProofs` |
| `MC*` | instances for TLC |

### IntegrationSupervisor

One step per call that reads or writes something shared. `pc[s]` is the state of
the state machine or the call it makes next: `recover`, `reappend` (appendEvents
called by recover), `idle`, `accept`, `add`, `handle`, `select`, `record`,
`append`, `mark`. `op[s]` is the journal operation in hand; `recovering[s]` says
whether the caller of handleCommand or appendEvents is the loop of recover.

| Code | Action |
|---|---|
| `Run`, scan in `recover` | `Recover` |
| loops over handled and accepted commands | `RecoverHandled`, `RecoverAccepted` |
| `journal.Truncate` | `Truncate`, `TruncateFails` |
| `acceptCommand` up to its append | `AcceptCommand` |
| append of CommandAccepted, Ack | `JournalAccepted` |
| `acceptedCommands.Add` | `AddToAccepted`, `AddFailsAfterAdd` |
| `Handler.HandleCommand` | `HandleCommand` |
| `SelectEventStream` | `SelectEventStream` |
| append of CommandHandled | `JournalHandled` |
| `Events.AppendEvents` | `AppendEvents`, `AppendFailsAfterAppend`, `LateAppend` |
| append of EventsAppendedToStream | `JournalAppended` |
| conflict of any journal append | `Conflict` |
| append that fails although it wrote | `JournalFailsAfterAppend` |
| error without effect; end of Run; death | `Fail`, `Stop`, `Crash` |

Choices worth knowing:

* The event recorder is an interface without an implementation in the
  repository; it is modelled from its use: an append is ignored if the batch is
  on the stream at or after the hint, and a late append may take effect at any
  time. A batch is one place on a stream; the inside of a batch belongs to
  `EventStreamWorker`.
* `eventStreamID == op.GetEventStreamId()` compares pointers, so it is false
  for a record that recovery read back. `SameStreamPointer` says so.
* The scan is one step, although other supervisors may write during it: records
  never change, so what it sees is the journal as it was at its end. A record
  truncated under the scan is one whose command is finished (`TruncatedIsDone`).
* A journal write whose supervisor gave up and that lands later is covered: it is
  what a supervisor does that was delayed before its append and dies after it.

### EventStreamWorker

`Run`, `Receive` (with the duplicate check), `SearchFinds`,
`SearchFindsNothing`, `AppendEvents`, `Conflict`, and the failures `Stop`,
`FailAfterAppend`, `Abandon` with `LateWrite`. A worker searches the records
before its own position, but the scan from the record it finds runs to the end of
the journal, as in `journal.ScanFromSearchResult`. Producers may send any batch
at any time with any hint that is a lower bound in the sense of the comment on
`AppendRequest.OffsetHint`; they need not use the hint of an earlier attempt.
`AppendRequest` promises that a batch is not empty, and so does `Size`.

### EventStreamSupervisor

A send on an unbuffered channel is one step of both sides: `Receive`, `Forward`,
and `ReceiveResult`, the common part of the three places that read
`workerStopped`. The final state of the state machine is `signal` and then
`drain`. `StayInCurrentState` keeps the exchange bound and looks up the worker
anew, so that `ForwardWorkerStopped` leads back to `NoWorker` when the worker
that ended was the one for this stream. A worker value is used again once its
goroutine is gone; `Workers` bounds how many exist at a time.

### Registry

Time is discrete; an expiry is the time left until it, so that the state space
is finite. `Tick` advances all clocks and is held back when a registrar that is
ready to move has waited `MaxDelay`. Renewal is two steps (`Renew` reads and
compares, `Save` writes), as are the observer's `Visit` and `DeleteExpired`.
`BeginSave` takes the time before the write, as `saveRegistration` does. An
observer may be as slow as it likes. Assumptions: all processes read one clock;
`Range` passes on the value a key has when it is visited; a write takes effect
before it returns.

A node ID may be configured (`internal/engineconfig/cluster.go:23-35`), so that one
process uses it after another, and nothing in the code makes the second wait.
`Run` models that. `RunWithCare` is not code: it says what whoever starts the
second process has to see to. Either the registration of the first still lives for
longer than a delay, so that it is replaced before it expires, or it is gone,
no observer is about to delete it once more (`Undisturbed`), and no observer has
found it or still knows the node (`Unknown`). `CarefulSpec` runs registrars in that
way only; `Spec` runs them at any time.

### OrderedSet and Partitioner

The slices of an optimistic value share arrays: `heap` holds the arrays, a slice
is an array and a length. `Begin` loads the pointer; `Probe` is one comparison of
`slices.BinarySearchFunc`; `BeginInsert` and `BeginDelete` decide which cells
`slices.Insert` or `slices.Delete` will move, in their order, and `MoveCell` moves
one; `Swap` is a compare-and-swap that succeeds, `Retry` one that fails and the
load that follows. Members are distinct words and a cell is read or written in
one step, so that the answers found wrong do not depend on torn reads. The
history variables hold what an atomic set would contain, and for each call in
progress the answers it could give at some moment of the call; `overlap` and
`shifted` say what went on at the same time.

`Route` is a caller of `Members` that folds the cells as it reads them. `Hash` is
an arbitrary function of the node; one workload is enough, because nothing is
kept between calls. A panic on an empty set ends the call like an answer.

### Topic

`run` is the goroutine: `Receive`, `CopySubscribers` (under the mutex), then
`Deliver` or `Skip` for each target, the two cases of the `select`. `Subscribe`
and `Unsubscribe` are one step each, for the mutex makes them so. A subscription
is a channel and an id, which stands for its own channel `unsubscribed`. Owners
receive, stop receiving (`StopListening`) and unsubscribe; they subscribe a
channel once at a time, since `Unsubscribe` would miss a second subscription that
it moves from the end of the list into the place it has just looked at. Publishing
after `Close` panics in Go and is left out.

Definitions introduced by a comment "Fault seeded to test P" are not part of a
model. Each is the mutated form of the definition that follows, listed under
`mutants`; with it in place TLC reports P violated, which shows that P can fail.

## 3. Runs

| Run | Instance | Question |
|---|---|---|
| `integration_safety` | 2 supervisors, 2 commands, 3 event IDs, 2 streams | Is every fact about journal, set, truncation, Acks and hints kept, and does every step refine `CommandLifecycle`? |
| `integration_liveness` | 1 supervisor, 2 commands, 1 event ID, 1 stream, 1 foreign batch | Is an acknowledged command finished? |
| `integration_side_effects` | 1 supervisor, 1 command; violated | Does the handler succeed only once? No. |
| `worker` | 2 workers, 2 batches, one of 2 events, 2 late writes | Are batches appended once, contiguously, and answered truthfully; is it an `EventStream`; do retries make progress? |
| `supervisor` | 2 streams, 4 exchanges, 2 workers at a time | One goroutine per stream, one answer, none left; is everything answered, and does Run return? |
| `supervisor_shutdown` | 2 streams, 1 exchange, 2 workers; violated | Does Shutdown stop an idle supervisor? No. |
| `registry` | 1 node run three times with care, 2 observers, interval 3, delay 1 | Does a running node stay registered, found and not reported as gone? |
| `registry_liveness` | 1 node, 1 observer, interval 2, delay 5, two runs | With registrars too slow to renew in time: are the dead forgotten, do observers stop? |
| `registry_restart` | 1 node, 1 observer, interval 3, delay 1, two runs at any time; violated | Does a running node stay registered if its ID was used before? No. |
| `partitioner` | 2 goroutines, 3 nodes, 4 calls, 4 hashes | Is the set exact when calls do not overlap, are appends invisible to readers, are routes right, alike and stable? |
| `ordered_set_overlap` | 2 goroutines, 2 nodes, 4 calls; violated | Are overlapping calls answered as by an atomic set? No. |
| `topic` | 3 channels, 2 messages, 3 subscriptions | Does nobody miss, repeat or reorder a message, or get a late one; does every delivery end? |

Why the bounds are enough. Two supervisors or workers make every conflict, stale
position and takeover possible. Two commands let the hint of one be used by the
next; two streams let a hint belong to the other stream; three event IDs let a
handler that is run again record something new while the old batch still exists.
What more supervisors, or other producers of a stream, could add to the safety
properties is covered by the proofs, which hold for any number of either. In
`worker` the batch of two events lets a hint point inside a record, and two late
writes compete for one position. In `supervisor` three exchanges for one stream
and one for another let requests meet a worker in every state. In `registry` an
interval of three ticks with a delay of one is the smallest that has
`2 * MaxDelay < RenewInterval`; of two observers one can delete what the other has
read, and the third process meets what the second left behind. One node is enough,
since nodes share nothing but the observers' loops. In `partitioner` four calls let an array grow
twice, be shortened and be filled again; two nodes have equal hashes and one has
the hash zero. In `topic` three channels let the removal of one subscriber move
another, and three subscriptions let a channel come back during a delivery.
Bounds are constants: `MaxForeign`, `MaxInflight`, `MaxDelay`, `MaxRuns`,
`MaxCalls`, `HashSize`, `MaxMessages`, `MaxSubscriptions`.

`CHECK_DEADLOCK FALSE` is set where the system may really stop: when no batch is
left to append, when nobody pushes a command, calls a method or publishes.
Symmetry is used in `integration_safety` only, where nothing is checked that
needs fairness.

What the violations show:

* `HandlerSucceedsOnce`: the title of the table test in
  `internal/integration/supervisor_test.go:63` promises that commands are
  executed exactly once. The handler is called again when the append of its
  result fails; only the recorded result is unique.
* `ShutdownStops`: `Supervisor.Shutdown` of the event stream supervisor sets a
  latch that no select looks at.
* `StaysRegistered` with two runs, the second without care: an observer that read the expired registration
  of a dead process deletes the fresh one of the process that replaced it. The
  next renewal fails, and with it the engine. The deletion would have to be
  conditional on the registration that was read.
* `AnswersAreAtomic`: `slices.Insert` and `slices.Delete` work in the array of the
  published slice. A reader meets cells that a deletion has moved but not yet
  published, and a writer that will lose the compare-and-swap has already changed
  the array of the one that wins. The package promises atomic mutations
  (`internal/optimistic/doc.go:1-2`); its test is sequential. Cloning the slice
  before changing it would keep the promise.

## 4. Fairness

Only liveness runs use it.

* Integration: a stopped supervisor is run again and reports a conflict (weak);
  each call that is attempted again and again succeeds in the end (strong),
  since every failure leads back to recover and to the same call. Nobody must
  push a command, stop or crash, and no limit is set on how often they do.
* Worker: the same, and the producer repeats its request (strong, since workers
  come and go).
* Supervisor: goroutines that can move do (weak); a `select` chooses at random
  among ready cases, so none is passed over for ever (strong). A worker need not
  time out, a caller need not cancel.
* Registry: time passes, calls return (weak); the ticker fires, the receiver of
  the events goes on receiving them and a ready case is chosen in the end
  (strong). `ObserverStops` depends on the receiver: `publishState` does not look
  at the latch.
* Ordered set and partitioner: a goroutine that is in a call goes on (weak). A
  retry is a step, so that `EveryCallReturns` says that swaps fail only because
  others succeed.
* Topic: the goroutine goes on, an owner who listens receives, and one who has
  stopped listening unsubscribes in the end (weak). Nobody must publish, subscribe
  or close.

## 5. Proofs

Each proof module defines an invariant, `IInv` unless another name is given below,
shows that it holds initially, is preserved by each action and implies the
property; the temporal step is last. The constants are arbitrary apart from the
assumptions named in the modules.

* `IntegrationSupervisorProofs`: `TypeOK`, `RecordedOnce`, `AckedIsDurable`.
  That no record is written twice is not inductive. The invariant adds the order
  of the records of a command (`Ordered`), that a command is in the accepted set
  as soon as it has a second record or its first was truncated (`SetIsBehind`),
  that the operations in a supervisor's lists and in its hands have no successor
  among the records it knows (`PendingInv`, `OpInv`), and that every command among
  those records is in the set or in its lists or hands (`Cover`), so that an idle
  supervisor at the end of the journal can trust a negative answer of the set. The key lemma is `AppendIsNext`:
  a supervisor whose position is the end of the journal holds a record that does
  not exist yet.
* `IntegrationPublicationProofs`: `PublishedOnce`, `AppendedIsPublished`,
  `OffsetHintIsLowerBound`, `TruncatedIsDone`. Every batch on a stream was
  promised by one record of the journal and is at or after the hint of that
  record; the same record stands behind every late append (`StreamsInv`). Events
  that a supervisor holds and has not recorded are nobody else's (`HeldInv`). A
  supervisor's hint is at most the end of its stream, and what it appends or marks
  is recorded (`PublisherInv`). A repeated append therefore finds the first one,
  however late either takes effect. For truncation, what a recovering supervisor
  has read but not finished is still in its lists or its hands (`RemainingInv`),
  so that what is truncated is finished (`TruncatedInv`). On this rests
  `LifecycleSpec`: each step of the detailed module is one step of
  `CommandLifecycle` or a stutter: records of acceptance and of results are its
  steps of the same name, an append that finds no earlier attempt is its
  publication, a truncation its forgetting. That a publication is the first of its
  command is `PublishedOnce` and the argument about hints above.
* `EventStreamWorkerProofs`: every safety property of the module, and that the
  workers implement `EventStream` (`WorkersImplementStream`). The invariant adds
  that records are ordered and cover each offset, that a worker knows a prefix,
  that the hint of a request it handles is a lower bound, and that a batch it is
  about to append is absent from that prefix; the same of each late write. A
  write that lands at the end of the journal then writes a new batch.
* `EventStreamSupervisorProofs`: every safety property of the module, from
  `MapIsExact`: the map lists exactly the goroutines that exist. Exchanges have at
  most one holder and are unanswered while held.
* `RegistryProofs`: `TypeOK` with no assumption. `StaysRegistered` holds if
  `Prompt` (`2 * MaxDelay < RenewInterval`) and each restart is `Undisturbed`, and
  `NoFalseDeregistration` in `CarefulSpec`, where it is `Unknown` as well. `IInv`
  bounds the time left of the registration of a running node by its clock and its
  lag in each state (`RegistrarsInTime`), and says that an observer deletes only
  what is gone (`TargetsGone`); `KnowInv` adds that an observer misses only nodes
  it has not seen. `FreshIsCareful` shows that node IDs that are never used again
  (`FreshIDs`, `MaxRuns = 1`) need no care: from this follow both properties for
  `Spec`. `registry_restart` shows that one or the other is needed. With the default
  interval of 10 s, `Prompt` allows a step to be late by almost 5 s.
* `TopicProofs`: every safety property of the module. The copy grows stale during
  a delivery; the invariant says that a subscription of the copy that has not
  ended is still in the list, that the copy has no channel twice, that a channel
  still to be passed has not got the message in hand, and that one that is out
  left during this very delivery.
* `OrderedSetProofs`: `TypeOK`, `SequentialIsExact`, `AppendingDisturbsNobody`.
  Two invariants. `IInv` holds however calls overlap: cells change under those who
  read them, but arrays never shrink (`Grows`), so that what a goroutine has
  computed from the length of a slice stays within its array (`SlicesOK`), and so
  do the moves of `Insert` and `Delete`, in place or into a new array (`MovesOK`).
  `ContentInv` says what the cells hold as long as the history is `Quiet`: no two
  writers overlap, and no cell of the published slice was written if a reader
  overlapped a writer. The published slice lists the members unless a lone writer
  is moving its cells (`CurrentOK`); a binary search has ruled out only cells that
  cannot hold its member, in a slice that was current during the call (`SearchIn`);
  a reader has read what its slice lists (`ReadIn`); each cell of a slice that is
  being prepared is right, or one of the moves left to do will write it
  (`Covered`), a move reads a cell that no earlier move writes (`Untouched`), and
  what it copies belongs where it goes (`MoveOK`). When no move is left, the new
  slice lists the new members, and `Swap` may publish it. That `Sorted` lists every
  set of members, and in one way only, would be shown by induction; here the least
  set size or position at which it failed is shown not to exist (`LeastNumber`,
  from the well-foundedness of the numbers in the library).
* `PartitionerProofs`: every safety property of the module. Its steps are steps of
  the ordered set (`RouteUsesSet`). Each cell that is read is a member or cleared,
  and `ConsiderKeepsBest` shows that a pass of the loop takes the best of some
  nodes to the best of these and the next one. For the members themselves the
  result is the node that `Wins`, a relation between a node and the set that
  ignores order and holds of one node at most; a node that wins among some nodes
  wins among any of them that include it, so that a change of the members moves
  work only to the node that joined or from the one that left.

Model-checked only: all liveness properties, which are out of reach of the prover
(fairness, ENABLED), and the four properties that are violated, for which the
counterexample is the result.

## 6. Not modelled

* Encoding, names and addresses, logging and telemetry: no step reads them.
* The engine and its configuration: `Engine.Run` starts a registrar and one task
  for each handler in an errgroup, whose first error cancels the others. In the
  models this is a failure of a context, which may come at any time. The
  configuration is computed sequentially before anything runs.
* The caller's side of `Push` and `Do`. Their timeouts are covered: an Ack or a
  response that nobody reads changes nothing.
* The journal, set and key-value stores, `slices` and xxhash are libraries: their
  contract is modelled as the code relies on it.
* A composition of `IntegrationSupervisor` with `EventStreamWorker`. The
  repository has no implementation of `EventRecorder`: nothing turns
  `SelectEventStream` and `AppendEvents` into requests to the event stream
  supervisor, so that a composition would model code that does not exist. What the
  two sides need of each other is checked on each: `OffsetHintIsLowerBound` is what
  `AppendRequest.OffsetHint` asks for (`IsLowerBound`), and `EventStreamSpec` is
  the idempotent append that `AppendToStream` assumes.
* `signaling.Event` and `fsm` by themselves: the first is used by nothing, the
  second is folded into the program counters.

## 7. Plan

1. Done: the components above, their abstract specifications and the proofs listed.
2. Addresses in the registry: a node that comes back with other addresses before
   its departure was noticed is never published again.
3. When something uses the topic or the partitioner: the composition with its
   caller; a channel that is subscribed twice.
4. The configuration: options that take precedence over the environment, the
   constraint on network addresses (`internal/engineconfig/grpc.go:36-39`), the
   fields a supervisor is given (`internal/engineconfig/app.go:61-67`).

To check a module by hand: `tlc -config Registry.cfg MCRegistry`; to prove:
`tlapm RegistryProofs.tla`.
