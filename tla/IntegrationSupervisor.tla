----------------------- MODULE IntegrationSupervisor -----------------------
(***************************************************************************)
(* The supervisors of one integration handler                              *)
(* (src/internal/integration/supervisor.go).                               *)
(*                                                                         *)
(* Every engine of the cluster runs a Supervisor for every integration     *)
(* handler, and all supervisors of one handler open the same journal and   *)
(* the same accepted-commands set: nothing but the optimistic concurrency  *)
(* check of the journal arbitrates between them.  A supervisor may stop    *)
(* with an error before or after the effect of any call it makes, or crash *)
(* with its whole process, and recovers from the journal when it is run    *)
(* again.  The modules below src/ that the supervisor calls (journal, set, *)
(* handler, event recorder) are modelled by the effects the code relies on.*)
(***************************************************************************)
EXTENDS Naturals, Sequences, FiniteSets

CONSTANTS
  Supervisors,    \* the Supervisor values that share the handler's key
  Commands,       \* message IDs of command envelopes
  EventIDs,       \* message IDs of the first event of a batch of events
  Streams,        \* event streams that SelectEventStream may return
  None,           \* nil
  MaxForeign      \* bound: batches other producers append to each stream

ASSUME ConstantsAssumption ==
  /\ None \notin Commands \cup EventIDs \cup Streams
  /\ MaxForeign \in Nat

VARIABLES
  \* Durable, shared by all supervisors.
  journal,        \* every record ever appended to the journal
  truncated,      \* the records 1..truncated are no longer in the journal
  accepted,       \* the accepted-commands set
  streams,        \* streams[k]: the batches on stream k; a batch is one offset
  late,           \* append requests whose caller gave up before they ran
  \* In the memory of each supervisor.
  pc,             \* the state, or the call the state is about to make
  journalPos,     \* number of records the supervisor believes exist
  unappended,     \* recovery: positions of CommandHandled records to finish
  unhandled,      \* recovery: positions of CommandAccepted records to finish
  recovering,     \* is the work below done by the recover state?
  op,             \* the operation being executed
  eventStreamID, eventOffsetHint,
  \* What the outside world has seen.
  acked,          \* commands some executor received an Ack for
  sideEffects     \* commands for which the handler has returned nil

durable == <<journal, truncated, accepted, streams, late>>
pending == <<unappended, unhandled, recovering>>
memory  == <<eventStreamID, eventOffsetHint>>
local   == <<pc, journalPos, pending, op, memory>>
seen    == <<acked, sideEffects>>
vars    == <<durable, local, seen>>

-----------------------------------------------------------------------------
(* Journal records.  Fields an operation does not have hold nil or zero.   *)

Record == [op     : {"CommandAccepted", "CommandHandled", "EventsAppended"},
           cmd    : Commands,
           events : EventIDs \cup {None},
           stream : Streams \cup {None},
           hint   : Nat]

CommandAccepted(c) ==
  [op |-> "CommandAccepted", cmd |-> c,
   events |-> None, stream |-> None, hint |-> 0]

CommandHandled(c, e, k, h) ==
  [op |-> "CommandHandled", cmd |-> c, events |-> e, stream |-> k, hint |-> h]

EventsAppended(c) ==
  [op |-> "EventsAppended", cmd |-> c,
   events |-> None, stream |-> None, hint |-> 0]

\* A batch on a stream.  Its envelopes carry the command as their cause;
\* batches of other producers have no cause among Commands.
Batch   == [cmd : Commands \cup {None}, id : EventIDs \cup {None}]
Foreign == [cmd |-> None, id |-> None]

Recorded(o, c) ==
  \E i \in 1..Len(journal) : journal[i].op = o /\ journal[i].cmd = c

-----------------------------------------------------------------------------
(* The event recorder: an append is ignored when the batch is already on   *)
(* the stream at or after the hint; before the hint nothing is searched.   *)

PriorAttempts(r) ==
  {i \in 1..Len(streams[r.stream]) :
      i > r.hint /\ streams[r.stream][i].id = r.events}

AppendToStream(r) ==
  IF PriorAttempts(r) # {}
  THEN UNCHANGED streams
  ELSE streams' = [streams EXCEPT ![r.stream] =
                     Append(@, [cmd |-> r.cmd, id |-> r.events])]

\* The EndOffset of the response, in either case.
IsEndOffset(r, end) ==
  IF PriorAttempts(r) # {}
  THEN end \in PriorAttempts(r)
  ELSE end = Len(streams[r.stream]) + 1

-----------------------------------------------------------------------------
Init ==
  /\ journal = <<>> /\ truncated = 0 /\ accepted = {} /\ late = {}
  /\ streams = [k \in Streams |-> <<>>]
  /\ pc = [s \in Supervisors |-> "stopped"]
  /\ journalPos = [s \in Supervisors |-> 0]
  /\ unappended = [s \in Supervisors |-> {}]
  /\ unhandled = [s \in Supervisors |-> {}]
  /\ recovering = [s \in Supervisors |-> FALSE]
  /\ op = [s \in Supervisors |-> None]
  /\ eventStreamID = [s \in Supervisors |-> None]
  /\ eventOffsetHint = [s \in Supervisors |-> 0]
  /\ acked = {} /\ sideEffects = {}

Goto(s, label) == pc' = [pc EXCEPT ![s] = label]

\* Run returns.  The fields of the Supervisor value that a later Run does not
\* set again, eventStreamID and eventOffsetHint, keep their values.
Return(s) ==
  /\ Goto(s, "stopped")
  /\ journalPos' = [journalPos EXCEPT ![s] = 0]
  /\ unappended' = [unappended EXCEPT ![s] = {}]
  /\ unhandled' = [unhandled EXCEPT ![s] = {}]
  /\ recovering' = [recovering EXCEPT ![s] = FALSE]
  /\ op' = [op EXCEPT ![s] = None]

\* The command is finished: back to the loop of recover, or to idle.
Finish(s) ==
  /\ Goto(s, IF recovering[s] THEN "recover" ELSE "idle")
  /\ op' = [op EXCEPT ![s] = None]

\* Fault seeded to test PublishedOnce: no optimistic concurrency check.
Anywhere(s) == TRUE

\* The journal accepts a record only at the first unused position; an append
\* at any other position is a conflict.
AtEnd(s) == journalPos[s] = Len(journal)

AppendRecord(s, r) ==
  /\ AtEnd(s)
  /\ journal' = Append(journal, r)

\* Fault seeded to test TypeOK: the position is bumped once too often.
AdvanceTwice(s) == journalPos' = [journalPos EXCEPT ![s] = @ + 2]

Advance(s) == journalPos' = [journalPos EXCEPT ![s] = @ + 1]

-----------------------------------------------------------------------------
(* Recovery.                                                               *)

\* Fault seeded to test TruncatedIsDone: a handled command is taken for done.
PendingUnlessHandled(o, next) ==
  {i \in truncated + 1 .. Len(journal) :
      /\ journal[i].op = o /\ next = "CommandHandled"
      /\ \A j \in i + 1 .. Len(journal) :
            ~(journal[j].op = next /\ journal[j].cmd = journal[i].cmd)}

\* Fault seeded to test AckedIsEventuallyDone: an accepted command that was not
\* handled is not resumed.
PendingOnceHandled(o, next) ==
  {i \in truncated + 1 .. Len(journal) :
      /\ journal[i].op = o /\ next = "EventsAppended"
      /\ \A j \in i + 1 .. Len(journal) :
            ~(journal[j].op = next /\ journal[j].cmd = journal[i].cmd)}

\* The operations a scan of the journal leaves pending.  A later record of the
\* next kind for the same command removes the first match from the list; the
\* invariant RecordedOnce makes that match the only one.
PendingAfterScan(o, next) ==
  {i \in truncated + 1 .. Len(journal) :
      /\ journal[i].op = o
      /\ \A j \in i + 1 .. Len(journal) :
            ~(journal[j].op = next /\ journal[j].cmd = journal[i].cmd)}

\* Run opens the journal and the set, and recover ranges over the journal.
\* Records never change once written, so the scan is one read of the journal
\* as it is when the scan reaches its end.  Of the handled commands it finds,
\* appendEvents returns at once for those that produced no events.
Recover(s) ==
  /\ pc[s] = "stopped"
  /\ journalPos' = [journalPos EXCEPT ![s] = Len(journal)]
  /\ unappended' = [unappended EXCEPT ![s] =
       {i \in PendingAfterScan("CommandHandled", "EventsAppended") :
          journal[i].events # None}]
  /\ unhandled' = [unhandled EXCEPT ![s] =
                     PendingAfterScan("CommandAccepted", "CommandHandled")]
  /\ recovering' = [recovering EXCEPT ![s] = TRUE]
  /\ Goto(s, "recover")
  /\ UNCHANGED <<durable, op, memory, seen>>

IsFirst(i, S) == i \in S /\ \A j \in S : i <= j

\* The loop over handledCommands.
RecoverHandled(s) ==
  /\ pc[s] = "recover"
  /\ \E i \in unappended[s] :
       /\ IsFirst(i, unappended[s])
       /\ unappended' = [unappended EXCEPT ![s] = @ \ {i}]
       /\ op' = [op EXCEPT ![s] = journal[i]]
  /\ Goto(s, "reappend")
  /\ UNCHANGED <<durable, journalPos, unhandled, recovering, memory, seen>>

\* The loop over acceptedCommands, which calls handleCommand.
RecoverAccepted(s) ==
  /\ pc[s] = "recover"
  /\ unappended[s] = {}
  /\ \E i \in unhandled[s] :
       /\ IsFirst(i, unhandled[s])
       /\ unhandled' = [unhandled EXCEPT ![s] = @ \ {i}]
       /\ op' = [op EXCEPT ![s] = journal[i]]
  /\ Goto(s, "add")
  /\ UNCHANGED <<durable, journalPos, unappended, recovering, memory, seen>>

\* With no pending work left everything up to journalPos is truncated.
Truncate(s) ==
  /\ pc[s] = "recover"
  /\ unappended[s] = {} /\ unhandled[s] = {}
  /\ truncated' = IF journalPos[s] > truncated THEN journalPos[s] ELSE truncated
  /\ Goto(s, "idle")
  /\ recovering' = [recovering EXCEPT ![s] = FALSE]
  /\ UNCHANGED <<journal, accepted, streams, late, journalPos,
                 unappended, unhandled, op, memory, seen>>

\* A truncation that fails may have removed some of the records, oldest first.
TruncateFails(s) ==
  /\ pc[s] = "recover"
  /\ unappended[s] = {} /\ unhandled[s] = {}
  /\ \E t \in truncated .. journalPos[s] : truncated' = t
  /\ Return(s)
  /\ UNCHANGED <<journal, accepted, streams, late, memory, seen>>

-----------------------------------------------------------------------------
(* Accepting a command.                                                    *)

\* Fault seeded to test RecordedOnce: every command is taken for a new one.
NeverAccepted(c) == FALSE

\* idle receives a request from the queue and acceptCommand looks it up.  Any
\* command may be pushed any number of times: executors retry.
AlreadyAccepted(c) == c \in accepted

\* Fault seeded to test AckedIsDurable: the Ack precedes the journal append.
AckThenAccept(s, c) ==
  /\ pc[s] = "idle"
  /\ acked' = acked \cup {c}
  /\ IF AlreadyAccepted(c)
     THEN UNCHANGED <<pc, op>>
     ELSE /\ Goto(s, "accept")
          /\ op' = [op EXCEPT ![s] = CommandAccepted(c)]
  /\ UNCHANGED <<durable, journalPos, pending, memory, sideEffects>>

AcceptCommand(s, c) ==
  /\ pc[s] = "idle"
  /\ IF AlreadyAccepted(c)
     THEN /\ acked' = acked \cup {c}
          /\ UNCHANGED <<pc, op>>
     ELSE /\ Goto(s, "accept")
          /\ op' = [op EXCEPT ![s] = CommandAccepted(c)]
          /\ UNCHANGED acked
  /\ UNCHANGED <<durable, journalPos, pending, memory, sideEffects>>

JournalAccepted(s) ==
  /\ pc[s] = "accept"
  /\ AppendRecord(s, op[s])
  /\ Advance(s)
  /\ acked' = acked \cup {op[s].cmd}
  /\ Goto(s, "add")
  /\ UNCHANGED <<truncated, accepted, streams, late, pending, op, memory,
                 sideEffects>>

-----------------------------------------------------------------------------
(* handleCommand.                                                          *)

\* Fault seeded to test LifecycleSpec: the command is not added to the set.
SkipAddToAccepted(s) ==
  /\ pc[s] = "add"
  /\ Goto(s, "handle")
  /\ UNCHANGED <<durable, journalPos, pending, op, memory, seen>>

AddToAccepted(s) ==
  /\ pc[s] = "add"
  /\ accepted' = accepted \cup {op[s].cmd}
  /\ Goto(s, "handle")
  /\ UNCHANGED <<journal, truncated, streams, late, journalPos, pending, op,
                 memory, seen>>

\* A packer gives every recorded event a new UUID, so a batch is never mistaken
\* for one that still exists somewhere.
EventIDsInUse ==
  {journal[i].events : i \in 1..Len(journal)}
  \cup {op[s].events : s \in {t \in Supervisors :
                               pc[t] \notin {"stopped", "recover", "idle"}}}
  \cup {b.id : b \in UNION {{streams[k][i] : i \in 1..Len(streams[k])} :
                              k \in Streams}}

\* HandleCommand returns nil having recorded a batch of events, or none.  The
\* stream and the hint are those selected earlier, if any.
HandleCommand(s) ==
  /\ pc[s] = "handle"
  /\ \E e \in (EventIDs \ EventIDsInUse) \cup {None} :
       LET target == IF e = None THEN <<None, 0>>
                     ELSE <<eventStreamID[s], eventOffsetHint[s]>>
       IN  /\ op' = [op EXCEPT ![s] =
                       CommandHandled(@.cmd, e, target[1], target[2])]
           /\ Goto(s, IF e # None /\ eventStreamID[s] = None
                      THEN "select" ELSE "record")
  /\ sideEffects' = sideEffects \cup {op[s].cmd}
  /\ UNCHANGED <<durable, journalPos, pending, memory, acked>>

SelectEventStream(s) ==
  /\ pc[s] = "select"
  /\ \E k \in Streams :
       /\ eventStreamID' = [eventStreamID EXCEPT ![s] = k]
       /\ eventOffsetHint' = [eventOffsetHint EXCEPT ![s] = Len(streams[k])]
       /\ op' = [op EXCEPT ![s].stream = k, ![s].hint = Len(streams[k])]
  /\ Goto(s, "record")
  /\ UNCHANGED <<durable, journalPos, pending, seen>>

\* Fault seeded to test AppendedIsPublished: the events are marked as appended
\* without having been appended.
JournalHandledAndMark(s) ==
  /\ pc[s] = "record"
  /\ AppendRecord(s, op[s])
  /\ Advance(s)
  /\ IF op[s].events = None
     THEN Finish(s)
     ELSE Goto(s, "mark") /\ UNCHANGED op
  /\ UNCHANGED <<truncated, accepted, streams, late, pending, memory, seen>>

JournalHandled(s) ==
  /\ pc[s] = "record"
  /\ AppendRecord(s, op[s])
  /\ Advance(s)
  /\ IF op[s].events = None
     THEN Finish(s)
     ELSE Goto(s, "append") /\ UNCHANGED op
  /\ UNCHANGED <<truncated, accepted, streams, late, pending, memory, seen>>

\* Fault seeded to test OffsetHintIsLowerBound: the hint moves whatever stream
\* was appended to.
AnyStreamPointer(s) == TRUE

\* appendEvents.  The hint moves only when the request names the stream by the
\* very pointer held in eventStreamID, which a record read back from the
\* journal ("reappend") never does.
SameStreamPointer(s) == pc[s] = "append"

AppendEvents(s) ==
  /\ pc[s] \in {"append", "reappend"}
  /\ AppendToStream(op[s])
  /\ IF SameStreamPointer(s)
     THEN \E end \in 1 .. Len(streams[op[s].stream]) + 1 :
            /\ IsEndOffset(op[s], end)
            /\ eventOffsetHint' = [eventOffsetHint EXCEPT ![s] = end]
     ELSE UNCHANGED eventOffsetHint
  /\ Goto(s, "mark")
  /\ UNCHANGED <<journal, truncated, accepted, late, journalPos, pending, op,
                 eventStreamID, seen>>

JournalAppended(s) ==
  /\ pc[s] = "mark"
  /\ AppendRecord(s, EventsAppended(op[s].cmd))
  /\ Advance(s)
  /\ Finish(s)
  /\ UNCHANGED <<truncated, accepted, streams, late, pending, memory, seen>>

-----------------------------------------------------------------------------
(* Errors, crashes and the end of Run.                                     *)

\* ctx is done or the shutdown latch is set when the supervisor is idle.
Stop(s) ==
  /\ pc[s] = "idle"
  /\ Return(s)
  /\ UNCHANGED <<durable, memory, seen>>

\* The next call returns an error and has had no effect: an I/O error, a
\* canceled context, an error of the handler.  A request in hand is nacked.
\* The only call of the recover state itself is Truncate; see TruncateFails.
Fail(s) ==
  /\ pc[s] \notin {"stopped", "recover", "idle"}
  /\ Return(s)
  /\ UNCHANGED <<durable, memory, seen>>

\* Append finds a record at journalPos.
Conflict(s) ==
  /\ pc[s] \in {"accept", "record", "mark"}
  /\ ~AtEnd(s)
  /\ Return(s)
  /\ UNCHANGED <<durable, memory, seen>>

\* The record is written but Append returns an error.
JournalFailsAfterAppend(s) ==
  /\ \/ pc[s] \in {"accept", "record"} /\ AppendRecord(s, op[s])
     \/ pc[s] = "mark" /\ AppendRecord(s, EventsAppended(op[s].cmd))
  /\ Return(s)
  /\ UNCHANGED <<truncated, accepted, streams, late, memory, seen>>

\* The command is added but Add returns an error.
AddFailsAfterAdd(s) ==
  /\ pc[s] = "add"
  /\ accepted' = accepted \cup {op[s].cmd}
  /\ Return(s)
  /\ UNCHANGED <<journal, truncated, streams, late, memory, seen>>

\* AppendEvents returns an error although the events are appended, now or,
\* when the caller stopped waiting for the response, at any later time.
AppendFailsAfterAppend(s) ==
  /\ pc[s] \in {"append", "reappend"}
  /\ \/ AppendToStream(op[s]) /\ UNCHANGED late
     \/ late' = late \cup {op[s]} /\ UNCHANGED streams
  /\ Return(s)
  /\ UNCHANGED <<journal, truncated, accepted, memory, seen>>

LateAppend(r) ==
  /\ AppendToStream(r)
  /\ late' = late \ {r}
  /\ UNCHANGED <<journal, truncated, accepted, local, seen>>

\* The process dies, and a new Supervisor value takes its place.
Crash(s) ==
  /\ Return(s)
  /\ eventStreamID' = [eventStreamID EXCEPT ![s] = None]
  /\ eventOffsetHint' = [eventOffsetHint EXCEPT ![s] = 0]
  /\ UNCHANGED <<durable, seen>>

ForeignBatches(k) == {i \in 1..Len(streams[k]) : streams[k][i].id = None}

\* Another producer appends to a stream.
ForeignAppend(k) ==
  /\ Cardinality(ForeignBatches(k)) < MaxForeign
  /\ streams' = [streams EXCEPT ![k] = Append(@, Foreign)]
  /\ UNCHANGED <<journal, truncated, accepted, late, local, seen>>

-----------------------------------------------------------------------------
Step(s) ==
  \/ Recover(s) \/ RecoverHandled(s) \/ RecoverAccepted(s) \/ Truncate(s)
  \/ \E c \in Commands : AcceptCommand(s, c)
  \/ JournalAccepted(s) \/ AddToAccepted(s) \/ HandleCommand(s)
  \/ SelectEventStream(s) \/ JournalHandled(s) \/ AppendEvents(s)
  \/ JournalAppended(s)

Fault(s) ==
  \/ Stop(s) \/ Fail(s) \/ Conflict(s) \/ Crash(s)
  \/ TruncateFails(s) \/ JournalFailsAfterAppend(s)
  \/ AddFailsAfterAdd(s) \/ AppendFailsAfterAppend(s)

Next ==
  \/ \E s \in Supervisors : Step(s) \/ Fault(s)
  \/ \E r \in late : LateAppend(r)
  \/ \E k \in Streams : ForeignAppend(k)

Spec == Init /\ [][Next]_vars

-----------------------------------------------------------------------------
(* Fairness, for liveness only: a supervisor that has stopped is run again,*)
(* its Append sees the conflicting record, and of a call that is made again*)
(* and again, after any number of failures, one succeeds.  Nobody is       *)
(* obliged to push a command or to stop.                                   *)

Fairness ==
  \A s \in Supervisors :
    /\ WF_vars(Recover(s)) /\ WF_vars(Conflict(s))
    /\ SF_vars(RecoverHandled(s)) /\ SF_vars(RecoverAccepted(s))
    /\ SF_vars(JournalAccepted(s)) /\ SF_vars(AddToAccepted(s))
    /\ SF_vars(HandleCommand(s)) /\ SF_vars(SelectEventStream(s))
    /\ SF_vars(JournalHandled(s)) /\ SF_vars(AppendEvents(s))
    /\ SF_vars(JournalAppended(s)) /\ SF_vars(Truncate(s))

FairSpec == Spec /\ Fairness

-----------------------------------------------------------------------------
(* Properties.                                                             *)

OpOf(s) ==
  CASE pc[s] \in {"accept", "add", "handle"} -> "CommandAccepted"
    [] pc[s] \in {"select", "record", "append", "reappend", "mark"} ->
         "CommandHandled"
    [] OTHER -> "none"

\* Types: the operation in hand fits the state of each supervisor, and no
\* supervisor believes the journal longer than it is, so that no append ever
\* leaves a gap in it.
TypeOK ==
  /\ journal \in Seq(Record)
  /\ truncated \in 0..Len(journal)
  /\ accepted \subseteq Commands
  /\ streams \in [Streams -> Seq(Batch)]
  /\ late \subseteq Record
  /\ pc \in [Supervisors -> {"stopped", "recover", "reappend", "idle", "accept",
                             "add", "handle", "select", "record", "append", "mark"}]
  /\ journalPos \in [Supervisors -> 0..Len(journal)]
  /\ unappended \in [Supervisors -> SUBSET (1..Len(journal))]
  /\ unhandled \in [Supervisors -> SUBSET (1..Len(journal))]
  /\ recovering \in [Supervisors -> BOOLEAN]
  /\ op \in [Supervisors -> Record \cup {None}]
  /\ \A s \in Supervisors :
       IF OpOf(s) = "none" THEN op[s] = None
       ELSE op[s] \in Record /\ op[s].op = OpOf(s)
  /\ eventStreamID \in [Supervisors -> Streams \cup {None}]
  /\ eventOffsetHint \in [Supervisors -> Nat]
  /\ acked \subseteq Commands /\ sideEffects \subseteq Commands

\* Whatever supervisors crash, retry or compete, the journal of the handler
\* never accepts a command twice, never records a second result for it and
\* never marks its events appended twice, even when the records of the first
\* time were truncated long ago.
RecordedOnce ==
  \A i, j \in 1..Len(journal) :
    journal[i].op = journal[j].op /\ journal[i].cmd = journal[j].cmd => i = j

BatchesOf(c) ==
  {p \in UNION {{k} \X (1..Len(streams[k])) : k \in Streams} :
     streams[p[1]][p[2]].cmd = c}

\* The events of a command reach one stream, once, although any number of
\* supervisors may have tried to append them, some of them long ago.
PublishedOnce ==
  \A c \in Commands : \A p, q \in BatchesOf(c) : p = q

\* A command whose journal says EventsAppended has on the chosen stream the
\* batch that was recorded for it.
AppendedIsPublished ==
  \A i, j \in 1..Len(journal) :
    /\ journal[i].op = "CommandHandled" /\ journal[j].op = "EventsAppended"
    /\ journal[i].cmd = journal[j].cmd
    => \E n \in 1..Len(streams[journal[i].stream]) :
         streams[journal[i].stream][n].id = journal[i].events

Done(c) ==
  \E i \in 1..Len(journal) :
    /\ journal[i].op = "CommandHandled" /\ journal[i].cmd = c
    /\ journal[i].events # None => BatchesOf(c) # {}

\* Truncation never drops the only record of unfinished work: the command of
\* every truncated record is handled, published, and remembered as accepted.
TruncatedIsDone ==
  \A i \in 1..truncated : Done(journal[i].cmd) /\ journal[i].cmd \in accepted

\* An executor that got an Ack may forget its command: it is in the journal.
AckedIsDurable == \A c \in acked : Recorded("CommandAccepted", c)

\* The promise of the field offset_hint: the events of a CommandHandled record,
\* and of one that is about to be written, are not on the stream before it.
OffsetHintIsLowerBound ==
  LET HintedAt(r) == \A n \in 1..Len(streams[r.stream]) :
                       streams[r.stream][n].id = r.events => r.hint < n
  IN  /\ \A i \in 1..Len(journal) :
           journal[i].events # None => HintedAt(journal[i])
      /\ \A s \in Supervisors :
           pc[s] = "record" /\ op[s].events # None =>
             op[s].hint <= Len(streams[op[s].stream])

\* What of the life cycle of the commands the journal and the streams tell.
AcceptedCommands == {c \in Commands : Recorded("CommandAccepted", c)}
Outcomes ==
  {<<journal[i].cmd, journal[i].events>> :
     i \in {j \in 1..Len(journal) : journal[j].op = "CommandHandled"}}
Publications ==
  {<<streams[p[1]][p[2]].cmd, streams[p[1]][p[2]].id, p>> :
     p \in UNION {BatchesOf(c) : c \in Commands}}
ForgottenCommands ==
  {journal[i].cmd :
     i \in {j \in 1..truncated : journal[j].op = "CommandAccepted"}}

\* The supervisors implement the life cycle of a command: it is accepted once,
\* its outcome is decided once, the events of that outcome are published once,
\* and none of it is forgotten before it is finished.
Lifecycle == INSTANCE CommandLifecycle WITH
  accepted     <- AcceptedCommands,
  acknowledged <- acked,
  outcomes     <- Outcomes,
  published    <- Publications,
  forgotten    <- ForgottenCommands,
  Batches      <- EventIDs

LifecycleSpec == Lifecycle!Spec

\* Every command an executor got an Ack for is, in the end, handled and its
\* events are on a stream.
AckedIsEventuallyDone == \A c \in Commands : c \in acked ~> Done(c)

\* What the title "it executes commands exactly once regardless of errors"
\* promises: the handler does not run to success twice for one command.
HandlerSucceedsOnce ==
  [][\A s \in Supervisors : HandleCommand(s) => op[s].cmd \notin sideEffects]_vars
=============================================================================
