------------------------- MODULE EventStreamWorker -------------------------
(***************************************************************************)
(* The workers of one event stream (src/internal/eventstream/worker.go).   *)
(*                                                                         *)
(* A supervisor runs at most one worker for a stream at a time, but every  *)
(* node of the cluster runs a supervisor, so several workers may append to *)
(* the journal of one stream, each from its own idea of where the journal  *)
(* and the stream end.  Producers retry requests that fail, at any worker. *)
(***************************************************************************)
EXTENDS Naturals, Sequences, FiniteSets

CONSTANTS
  Workers,       \* one worker at a time for each node
  Batches,       \* batches of events, each known by the ID of its first event
  Size,          \* Size[b]: the number of events of batch b; never zero
  None,          \* nil
  MaxInflight    \* bound: abandoned writes on their way at one time

ASSUME SizeAssumption == Size \in [Batches -> Nat \ {0}]

VARIABLES
  journal,       \* the records of the stream's journal
  inflight,      \* journal writes whose worker gave up before they happened
  pc,            \* the state of each worker, or the call it is about to make
  pos, off,      \* where each worker believes the journal and the stream end
  req,           \* the request each worker is handling, or nil
  responses      \* successful responses sent to producers

vars == <<journal, inflight, pc, pos, off, req, responses>>

-----------------------------------------------------------------------------
Offset == Nat

\* Record of the journal.
Record == [batch : Batches, before : Offset, after : Offset]

RecordOf(b, begin) ==
  [batch |-> b, before |-> begin, after |-> begin + Size[b]]

AppendRequest  == [batch : Batches, hint : Offset]
ASSUME NoneAssumption == None \notin AppendRequest

AppendResponse == [batch : Batches, begin : Offset, end : Offset, prior : BOOLEAN]

\* The response to a request for batch b.
Response(b, rec, prior) ==
  [batch |-> b, begin |-> rec.before, end |-> rec.after, prior |-> prior]

\* The offset after the first n records.
EndAt(n) == IF n = 0 THEN 0 ELSE journal[n].after

\* The contract of OffsetHint: the events of the batch are not on the stream
\* before it, and will not be appended there.  What is a valid hint for a batch
\* stays valid, so that a retry may carry its first hint or a later one.
IsLowerBound(h, b) ==
  /\ h <= EndAt(Len(journal))
  /\ \A i \in 1..Len(journal) : journal[i].batch = b => h <= journal[i].before

-----------------------------------------------------------------------------
Init ==
  /\ journal = <<>> /\ inflight = {} /\ responses = {}
  /\ pc  = [w \in Workers |-> "stopped"]
  /\ pos = [w \in Workers |-> 0]
  /\ off = [w \in Workers |-> 0]
  /\ req = [w \in Workers |-> None]

Goto(w, label) == pc' = [pc EXCEPT ![w] = label]

\* Fault seeded to test TypeOK: the position is one too high.
RunAfterEnd(w) ==
  /\ pc[w] = "stopped"
  /\ pos' = [pos EXCEPT ![w] = Len(journal) + 1]
  /\ off' = [off EXCEPT ![w] = EndAt(Len(journal))]
  /\ Goto(w, "idle")
  /\ UNCHANGED <<journal, inflight, req, responses>>

\* Fault seeded to test KnowsPrefix: the position is that of the last record.
RunAtLastRecord(w) ==
  /\ pc[w] = "stopped"
  /\ pos' = [pos EXCEPT ![w] = IF journal = <<>> THEN 0 ELSE Len(journal) - 1]
  /\ off' = [off EXCEPT ![w] = EndAt(Len(journal))]
  /\ Goto(w, "idle")
  /\ UNCHANGED <<journal, inflight, req, responses>>

\* Run reads the last record of the journal.
Run(w) ==
  /\ pc[w] = "stopped"
  /\ pos' = [pos EXCEPT ![w] = Len(journal)]
  /\ off' = [off EXCEPT ![w] = EndAt(Len(journal))]
  /\ Goto(w, "idle")
  /\ UNCHANGED <<journal, inflight, req, responses>>

\* The worker is gone.  The next one starts from nothing.
Return(w) ==
  /\ Goto(w, "stopped")
  /\ pos' = [pos EXCEPT ![w] = 0]
  /\ off' = [off EXCEPT ![w] = 0]
  /\ req' = [req EXCEPT ![w] = None]

-----------------------------------------------------------------------------
\* Fault seeded to test AppendedOnce: the comparison is off by one.
MightBeOlderDuplicates(w, h) == h + 1 < off[w]

MightBeDuplicates(w, h) == h < off[w]

\* A request arrives at an idle worker, for the first time or again.
Receive(w, b, h) ==
  /\ pc[w] = "idle"
  /\ IsLowerBound(h, b)
  /\ req' = [req EXCEPT ![w] = [batch |-> b, hint |-> h]]
  /\ Goto(w, IF MightBeDuplicates(w, h) THEN "search" ELSE "append")
  /\ UNCHANGED <<journal, inflight, pos, off, responses>>

-----------------------------------------------------------------------------
(* findAppendRecord.                                                       *)

\* Fault seeded to test EventStreamSpec: a record does not contain the offset it
\* begins at.
ContainsAfterFirst(rec, o) == rec.before < o /\ o < rec.after

\* The comparison of the binary search yields zero.
Contains(rec, o) == rec.before <= o /\ o < rec.after

\* The search looks among the records the worker knows of, and the scan goes on
\* from the record it finds to the end of the journal.
Scanned(w) ==
  UNION {i..Len(journal) :
           i \in {j \in 1..pos[w] : Contains(journal[j], req[w].hint)}}

\* Fault seeded to test ResponsesAreTrue: the events are not compared.
AnyScanned(w) == Scanned(w)

AppendRecords(w) == {i \in Scanned(w) : journal[i].batch = req[w].batch}

Answer(w, rec, prior) ==
  /\ responses' = responses \cup {Response(req[w].batch, rec, prior)}
  /\ req' = [req EXCEPT ![w] = None]
  /\ Goto(w, "idle")

SearchFinds(w) ==
  /\ pc[w] = "search"
  /\ \E i \in AppendRecords(w) : Answer(w, journal[i], TRUE)
  /\ UNCHANGED <<journal, inflight, pos, off>>

\* Neither the search nor the scan finds a record.
SearchFindsNothing(w) ==
  /\ pc[w] = "search"
  /\ AppendRecords(w) = {}
  /\ Goto(w, "append")
  /\ UNCHANGED <<journal, inflight, pos, off, req, responses>>

-----------------------------------------------------------------------------
\* The journal writes a record only at its first unused position.
AtEnd(p) == p = Len(journal)

NewRecord(w) == RecordOf(req[w].batch, off[w])

\* Fault seeded to test Contiguous: the worker's offset does not advance.
AppendEventsKeepOffset(w) ==
  /\ pc[w] = "append"
  /\ AtEnd(pos[w])
  /\ journal' = Append(journal, NewRecord(w))
  /\ pos' = [pos EXCEPT ![w] = @ + 1]
  /\ Answer(w, NewRecord(w), FALSE)
  /\ UNCHANGED <<inflight, off>>

\* Fault seeded to test RetriedIsAppended: the position does not advance, and
\* neither does the worker when its write conflicts.
ConflictIgnored(w) ==
  /\ pc[w] = "append"
  /\ ~AtEnd(pos[w])
  /\ UNCHANGED vars

AppendEvents(w) ==
  /\ pc[w] = "append"
  /\ AtEnd(pos[w])
  /\ journal' = Append(journal, NewRecord(w))
  /\ pos' = [pos EXCEPT ![w] = @ + 1]
  /\ off' = [off EXCEPT ![w] = NewRecord(w).after]
  /\ Answer(w, NewRecord(w), FALSE)
  /\ UNCHANGED inflight

\* Another worker has written at the position: the worker fails, and so does
\* the request.
Conflict(w) ==
  /\ pc[w] = "append"
  /\ ~AtEnd(pos[w])
  /\ Return(w)
  /\ UNCHANGED <<journal, inflight, responses>>

-----------------------------------------------------------------------------
(* Errors, crashes, and the end of Run.                                    *)

\* The journal, the search or the context fails and nothing has happened; or
\* ctx, the shutdown latch or the idle timeout ends an idle worker; or the
\* process dies.
Stop(w) ==
  /\ pc[w] # "stopped"
  /\ Return(w)
  /\ UNCHANGED <<journal, inflight, responses>>

\* The write happens but Append returns an error, or the process dies before
\* the response: the producer never learns.
FailAfterAppend(w) ==
  /\ pc[w] = "append"
  /\ AtEnd(pos[w])
  /\ journal' = Append(journal, NewRecord(w))
  /\ Return(w)
  /\ UNCHANGED <<inflight, responses>>

\* Append is abandoned while the write is on its way.
Abandon(w) ==
  /\ pc[w] = "append"
  /\ Cardinality(inflight) < MaxInflight
  /\ inflight' = inflight \cup {[pos |-> pos[w], record |-> NewRecord(w)]}
  /\ Return(w)
  /\ UNCHANGED <<journal, responses>>

\* The abandoned write reaches the journal, which refuses it unless its
\* position is still unused.
LateWrite(x) ==
  /\ journal' = IF AtEnd(x.pos) THEN Append(journal, x.record) ELSE journal
  /\ inflight' = inflight \ {x}
  /\ UNCHANGED <<pc, pos, off, req, responses>>

-----------------------------------------------------------------------------
Next ==
  \/ \E w \in Workers :
       \/ Run(w) \/ Stop(w)
       \/ \E b \in Batches : \E h \in 0..EndAt(Len(journal)) : Receive(w, b, h)
       \/ SearchFinds(w) \/ SearchFindsNothing(w)
       \/ AppendEvents(w) \/ Conflict(w) \/ FailAfterAppend(w) \/ Abandon(w)
  \/ \E x \in inflight : LateWrite(x)

Spec == Init /\ [][Next]_vars

(* Fairness, for liveness only: a stopped worker is replaced, the journal     *)
(* reports conflicts, the producer of a batch sends its request again until it*)
(* is appended, and of the calls a worker makes again and again one succeeds. *)
Fairness ==
  /\ \A w \in Workers :
       /\ WF_vars(Run(w)) /\ WF_vars(Conflict(w))
       /\ SF_vars(SearchFinds(w)) /\ SF_vars(SearchFindsNothing(w))
       /\ SF_vars(AppendEvents(w))
  /\ \A b \in Batches :
       SF_vars(\E w \in Workers, h \in 0..EndAt(Len(journal)) : Receive(w, b, h))

FairSpec == Spec /\ Fairness

-----------------------------------------------------------------------------
(* Properties.                                                             *)

\* Types: a worker holds a request exactly while it handles one, and no worker
\* believes the journal longer than it is, so that no append leaves a gap.
TypeOK ==
  /\ journal \in Seq(Record)
  /\ inflight \subseteq [pos : Nat, record : Record]
  /\ pc \in [Workers -> {"stopped", "idle", "search", "append"}]
  /\ pos \in [Workers -> 0..Len(journal)]
  /\ off \in [Workers -> Offset]
  /\ req \in [Workers -> AppendRequest \cup {None}]
  /\ \A w \in Workers : pc[w] \in {"search", "append"} <=> req[w] # None
  /\ responses \subseteq AppendResponse

\* However many workers and retries there are, whatever their hints, and though
\* an append that was reported as failed may take place later, no batch of
\* events is on the stream twice.
AppendedOnce ==
  \A i, j \in 1..Len(journal) : journal[i].batch = journal[j].batch => i = j

\* The records cover the offsets of the stream in order, with no gap and no
\* overlap, although each worker computes them from its own idea of the end.
Contiguous ==
  \A i \in 1..Len(journal) :
    /\ journal[i].before = EndAt(i - 1)
    /\ journal[i].after = journal[i].before + Size[journal[i].batch]

\* A worker may be behind the journal, but what it knows is consistent: the
\* offset it holds is the one at which the record at its position begins.
KnowsPrefix ==
  \A w \in Workers : pc[w] # "stopped" => off[w] = EndAt(pos[w])

\* Every producer that was answered was told where its events are, be it by the
\* worker that appended them or by another that found them.
ResponsesAreTrue ==
  \A r \in responses :
    \E i \in 1..Len(journal) :
      /\ journal[i].batch = r.batch
      /\ journal[i].before = r.begin /\ journal[i].after = r.end

\* The workers implement the event stream.
Stream == INSTANCE EventStream WITH stream <- journal

EventStreamSpec == Stream!Spec

\* A batch whose producer does not give up is appended in the end, whichever
\* workers its requests reach and however stale they are.
RetriedIsAppended ==
  \A b \in Batches : <>(\E i \in 1..Len(journal) : journal[i].batch = b)
=============================================================================
