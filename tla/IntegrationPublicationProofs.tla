-------------------- MODULE IntegrationPublicationProofs --------------------
(***************************************************************************)
(* Proofs about what the supervisors of an integration handler publish and *)
(* what they truncate, on top of the invariant about the journal           *)
(* (IInv of IntegrationSupervisorProofs).                                  *)
(*                                                                         *)
(* A batch of events gets on a stream only by way of its CommandHandled    *)
(* record, and the record names the stream.  Whoever appends it, and       *)
(* however late, finds a batch that is there already, since none is there  *)
(* before the hint of the record: the identifiers are fresh when the       *)
(* record is written, and the hint is at most the length of the stream.    *)
(*                                                                         *)
(* From this it follows that the supervisors implement the life cycle of a *)
(* command (CommandLifecycle): every step they take is, seen from the      *)
(* journal and the streams, a step of the life cycle or none.              *)
(***************************************************************************)
EXTENDS IntegrationSupervisorProofs

-----------------------------------------------------------------------------
(* The inductive invariant about batches.                                  *)

\* Record r is in the journal and has events.
Promised(r) ==
  r.events # None /\ \E i \in 1..Len(journal) : journal[i] = r

BatchOf(r) == [cmd |-> r.cmd, id |-> r.events]

OnStream(r) ==
  \E n \in 1..Len(streams[r.stream]) : streams[r.stream][n] = BatchOf(r)

\* Every batch of a command is promised by a record of the journal.
BatchesPromised ==
  \A k \in Streams : \A n \in 1..Len(streams[k]) :
    \/ streams[k][n] = Foreign
    \/ \E i \in 1..Len(journal) :
         /\ journal[i].events # None /\ journal[i].stream = k
         /\ streams[k][n] = BatchOf(journal[i])

\* No batch is on a stream twice.
BatchesOnce ==
  \A k \in Streams : \A m, n \in 1..Len(streams[k]) :
    streams[k][m].id = streams[k][n].id /\ streams[k][m].id # None => m = n

\* The hint of r is within the stream, and its batch is not before the hint.
HintHolds(r) ==
  /\ r.hint <= Len(streams[r.stream])
  /\ \A n \in 1..Len(streams[r.stream]) :
       streams[r.stream][n].id = r.events => r.hint < n

HintsHold ==
  \A i \in 1..Len(journal) : journal[i].events # None => HintHolds(journal[i])

\* Only CommandHandled records have events, and no two the same.
EventsInv ==
  /\ \A i \in 1..Len(journal) :
       journal[i].events # None => journal[i].op = "CommandHandled"
  /\ \A i, j \in 1..Len(journal) :
       journal[i].events = journal[j].events /\ journal[i].events # None => i = j

\* What is marked as appended is on its stream.
MarkedOnStream ==
  \A i, j \in 1..Len(journal) :
    /\ journal[i].op = "CommandHandled" /\ journal[j].op = "EventsAppended"
    /\ journal[i].cmd = journal[j].cmd
    => journal[i].events # None /\ OnStream(journal[i])

LatePromised == \A r \in late : Promised(r)

StreamsInv ==
  /\ BatchesPromised /\ BatchesOnce /\ HintsHold
  /\ EventsInv /\ MarkedOnStream /\ LatePromised

\* Supervisor s holds the events of a command, not yet in the journal.
Holding(s) == pc[s] \in {"select", "record"} /\ op[s].events # None

\* The events some supervisor holds are nobody else's.
HeldInv ==
  /\ \A s \in Supervisors : Holding(s) =>
       \A i \in 1..Len(journal) : journal[i].events # op[s].events
  /\ \A s, t \in Supervisors :
       Holding(s) /\ Holding(t) /\ op[s].events = op[t].events => s = t

\* What a supervisor is about to do to a stream.
PublisherInv(s) ==
  /\ pc[s] \in {"accept", "add", "handle"} => op[s].events = None
  /\ pc[s] = "record" /\ op[s].events # None =>
       op[s].stream = eventStreamID[s] /\ op[s].hint <= Len(streams[op[s].stream])
  /\ pc[s] \in {"append", "reappend", "mark"} => Promised(op[s])
  /\ pc[s] = "append" => op[s].stream = eventStreamID[s]
  /\ pc[s] = "mark" => OnStream(op[s])
  /\ eventStreamID[s] # None =>
       eventOffsetHint[s] <= Len(streams[eventStreamID[s]])

PubInv ==
  StreamsInv /\ HeldInv /\ \A s \in Supervisors : PublisherInv(s)

-----------------------------------------------------------------------------
(* The inductive invariant about truncation.                               *)

\* The command of every truncated record needs nothing any more.
TruncatedInv ==
  \A i \in 1..truncated : \E j \in 1..Len(journal) :
    /\ journal[j].op = "CommandHandled" /\ journal[j].cmd = journal[i].cmd
    /\ journal[j].events # None =>
         Within(Len(journal), "EventsAppended", journal[i].cmd)

\* While a supervisor recovers, every command of its prefix that is not
\* finished is still to be resumed or in its hands.
RemainingInv(s) ==
  recovering[s] =>
    \A i \in 1..journalPos[s] :
      /\ journal[i].op = "CommandAccepted" =>
           \/ Within(journalPos[s], "CommandHandled", journal[i].cmd)
           \/ i \in unhandled[s]
           \/ /\ pc[s] \in {"add", "handle", "select", "record"}
              /\ op[s].cmd = journal[i].cmd
      /\ journal[i].op = "CommandHandled" /\ journal[i].events # None =>
           \/ Within(journalPos[s], "EventsAppended", journal[i].cmd)
           \/ i \in unappended[s]
           \/ /\ pc[s] \in {"append", "reappend", "mark"}
              /\ op[s].cmd = journal[i].cmd

FinishInv ==
  /\ TruncatedInv
  /\ \A s \in Supervisors : RemainingInv(s)
  /\ \A s \in Supervisors : pc[s] \in {"recover", "reappend"} => recovering[s]

-----------------------------------------------------------------------------
(* Streams only grow.                                                      *)

AppendsBatch(k, b) == streams' = [streams EXCEPT ![k] = Append(@, b)]

StreamsGrow ==
  \A k \in Streams :
    /\ Len(streams[k]) \in Nat /\ Len(streams'[k]) \in Nat
    /\ Len(streams[k]) <= Len(streams'[k])
    /\ \A n \in 1..Len(streams[k]) : streams'[k][n] = streams[k][n]

\* What one more batch does to a stream.
LEMMA StreamAppend ==
  ASSUME TypeOK, NEW k \in Streams, NEW b \in Batch, AppendsBatch(k, b)
  PROVE  /\ Len(streams[k]) \in Nat /\ Len(streams'[k]) = Len(streams[k]) + 1
         /\ \A n \in 1..Len(streams[k]) : streams'[k][n] = streams[k][n]
         /\ streams'[k][Len(streams[k]) + 1] = b
         /\ \A j \in Streams : j # k => streams'[j] = streams[j]
         /\ StreamsGrow
<1>1. streams \in [Streams -> Seq(Batch)]
  BY DEF TypeOK
<1>2. streams[k] \in Seq(Batch)
  BY <1>1
<1>3. streams'[k] = Append(streams[k], b)
  BY <1>1 DEF AppendsBatch
<1>4. /\ Len(streams[k]) \in Nat /\ Len(streams'[k]) = Len(streams[k]) + 1
      /\ \A n \in 1..Len(streams[k]) : streams'[k][n] = streams[k][n]
      /\ streams'[k][Len(streams[k]) + 1] = b
  BY <1>2, <1>3
<1>5. \A j \in Streams : j # k => streams'[j] = streams[j]
  BY <1>1 DEF AppendsBatch
<1>6. \A j \in Streams : Len(streams[j]) \in Nat
  BY <1>1
<1>7. StreamsGrow
  <2>1. ASSUME NEW j \in Streams, j # k
        PROVE  /\ Len(streams[j]) \in Nat /\ Len(streams'[j]) \in Nat
               /\ Len(streams[j]) <= Len(streams'[j])
               /\ \A n \in 1..Len(streams[j]) : streams'[j][n] = streams[j][n]
    BY <1>5, <1>6, <2>1
  <2>2. Len(streams'[k]) \in Nat /\ Len(streams[k]) <= Len(streams'[k])
    BY <1>4
  <2> QED
    BY <1>4, <2>1, <2>2 DEF StreamsGrow
<1> QED
  BY <1>4, <1>5, <1>7

\* A step that appends nothing.
LEMMA StreamsKept ==
  ASSUME TypeOK, streams' = streams
  PROVE  StreamsGrow
<1>1. \A k \in Streams : Len(streams[k]) \in Nat
  BY DEF TypeOK
<1> QED
  BY <1>1 DEF StreamsGrow

\* A record of the journal stays there.
LEMMA PromisedStable ==
  ASSUME TypeOK, Extends, NEW r, Promised(r)
  PROVE  Promised(r)'
<1>1. Len(journal) \in Nat /\ Len(journal') \in Nat /\ Len(journal) <= Len(journal')
      /\ \A i \in 1..Len(journal) : journal'[i] = journal[i]
  BY Grows
<1>2. PICK i \in 1..Len(journal) : journal[i] = r
  BY DEF Promised
<1>3. i \in 1..Len(journal') /\ journal'[i] = r
  BY <1>1, <1>2
<1> QED
  BY <1>3 DEF Promised

\* A batch that is on a stream stays there.
LEMMA OnStreamStable ==
  ASSUME StreamsGrow, NEW r, r.stream \in Streams, OnStream(r)
  PROVE  OnStream(r)'
<1>1. PICK n \in 1..Len(streams[r.stream]) : streams[r.stream][n] = BatchOf(r)
  BY DEF OnStream
<1>2. n \in 1..Len(streams'[r.stream]) /\ streams'[r.stream][n] = BatchOf(r)
  BY <1>1 DEF StreamsGrow
<1> QED
  BY <1>2 DEF OnStream, BatchOf

-----------------------------------------------------------------------------
(* The invariant about batches: what is shared.                            *)

\* A batch that is promised to a stream and not on it may be appended to it,
\* and so may one of another producer.
LEMMA StreamsInvBatch ==
  ASSUME TypeOK, RecordsAddressed, StreamsInv, journal' = journal,
         NEW k \in Streams, NEW b \in Batch, AppendsBatch(k, b),
         \/ b = Foreign
         \/ /\ \E i \in 1..Len(journal) :
                 /\ journal[i].events # None /\ journal[i].stream = k
                 /\ b = BatchOf(journal[i])
            /\ \A n \in 1..Len(streams[k]) : streams[k][n].id # b.id,
         \A r \in late' : Promised(r)
  PROVE  StreamsInv'
<1>0. PICK L \in Nat : L = Len(streams[k])
  BY StreamAppend
<1>1. /\ L = Len(streams[k]) /\ Len(streams'[k]) = L + 1
      /\ \A n \in 1..L : streams'[k][n] = streams[k][n]
      /\ streams'[k][L + 1] = b
      /\ \A j \in Streams : j # k => streams'[j] = streams[j]
  BY <1>0, StreamAppend
<1>2. \A n \in 1..L+1 : n \in 1..L \/ n = L + 1
  OBVIOUS
<1>3. Foreign.id = None
  BY DEF Foreign
<1>4. BatchesPromised'
  <2>1. ASSUME NEW j \in Streams, NEW n \in 1..Len(streams'[j])
        PROVE  \/ streams'[j][n] = Foreign
               \/ \E i \in 1..Len(journal) :
                    /\ journal[i].events # None /\ journal[i].stream = j
                    /\ streams'[j][n] = BatchOf(journal[i])
    <3>1. CASE j = k /\ n = L + 1
      BY <1>1, <3>1
    <3>2. CASE ~(j = k /\ n = L + 1)
      <4>1. n \in 1..Len(streams[j]) /\ streams'[j][n] = streams[j][n]
        BY <1>1, <1>2, <2>1, <3>2
      <4> QED
        BY <4>1 DEF StreamsInv, BatchesPromised
    <3> QED
      BY <3>1, <3>2
  <2> QED
    BY <2>1 DEF BatchesPromised, BatchOf
<1>5. BatchesOnce'
  <2>0. \A m, n \in 1..L : streams[k][m].id = streams[k][n].id
                            /\ streams[k][m].id # None => m = n
    BY <1>1 DEF StreamsInv, BatchesOnce
  <2>1. ASSUME NEW j \in Streams, NEW m \in 1..Len(streams'[j]),
               NEW n \in 1..Len(streams'[j]),
               streams'[j][m].id = streams'[j][n].id, streams'[j][m].id # None
        PROVE  m = n
    <3>1. CASE j # k
      BY <1>1, <2>1, <3>1 DEF StreamsInv, BatchesOnce
    <3>2. CASE j = k
      <4>1. CASE m \in 1..L /\ n \in 1..L
        <5>1. streams'[j][m] = streams[k][m] /\ streams'[j][n] = streams[k][n]
          BY <1>1, <3>2, <4>1
        <5> QED
          BY <2>0, <2>1, <4>1, <5>1
      <4>2. CASE m = L + 1 /\ n \in 1..L
        BY <1>1, <1>3, <2>1, <3>2, <4>2
      <4>3. CASE m \in 1..L /\ n = L + 1
        BY <1>1, <1>3, <2>1, <3>2, <4>3
      <4> QED
        BY <1>1, <1>2, <2>1, <3>2, <4>1, <4>2, <4>3
    <3> QED
      BY <3>1, <3>2
  <2> QED
    BY <2>1 DEF BatchesOnce
<1>6. HintsHold'
  <2>1. ASSUME NEW i \in 1..Len(journal), journal[i].events # None
        PROVE  /\ journal[i].hint <= Len(streams'[journal[i].stream])
               /\ \A n \in 1..Len(streams'[journal[i].stream]) :
                    streams'[journal[i].stream][n].id = journal[i].events =>
                      journal[i].hint < n
    <3>1. journal[i].stream \in Streams
      BY <2>1 DEF RecordsAddressed, Addressed
    <3>2. HintHolds(journal[i])
      BY <2>1 DEF StreamsInv, HintsHold
    <3>3. CASE journal[i].stream # k
      BY <1>1, <3>1, <3>2, <3>3 DEF HintHolds
    <3>4. CASE journal[i].stream = k
      <4>1. journal[i].hint \in Nat
        <5>1. journal \in Seq(Record)
          BY DEF TypeOK
        <5>2. journal[i] \in Record
          BY <5>1
        <5> QED
          BY <5>2 DEF Record
      <4>2. /\ journal[i].hint <= L
            /\ \A n \in 1..L : streams[k][n].id = journal[i].events =>
                                 journal[i].hint < n
        BY <1>1, <3>2, <3>4 DEF HintHolds
      <4>3. journal[i].hint <= L + 1 /\ journal[i].hint < L + 1
        BY <4>1, <4>2
      <4>4. ASSUME NEW n \in 1..L+1, streams'[k][n].id = journal[i].events
            PROVE  journal[i].hint < n
        <5>1. CASE n \in 1..L
          BY <1>1, <4>2, <4>4, <5>1
        <5>2. CASE n = L + 1
          BY <4>3, <5>2
        <5> QED
          BY <1>2, <5>1, <5>2
      <4> QED
        BY <1>1, <3>4, <4>3, <4>4
    <3> QED
      BY <3>3, <3>4
  <2> QED
    BY <2>1 DEF HintsHold, HintHolds
<1>7. EventsInv'
  BY DEF StreamsInv, EventsInv
<1>8. MarkedOnStream'
  <2>1. ASSUME NEW i \in 1..Len(journal), NEW j \in 1..Len(journal),
               journal[i].op = "CommandHandled", journal[j].op = "EventsAppended",
               journal[i].cmd = journal[j].cmd
        PROVE  journal[i].events # None /\ OnStream(journal[i])'
    <3>1. journal[i].events # None /\ OnStream(journal[i])
      BY <2>1 DEF StreamsInv, MarkedOnStream
    <3>2. journal[i].stream \in Streams
      BY <3>1 DEF RecordsAddressed, Addressed
    <3> QED
      BY <3>1, <3>2, StreamAppend, OnStreamStable
  <2> QED
    BY <2>1 DEF MarkedOnStream
<1>9. LatePromised'
  BY DEF LatePromised, Promised
<1> QED
  BY <1>4, <1>5, <1>6, <1>7, <1>8, <1>9 DEF StreamsInv

\* A record of the journal may be appended that is the next of its command, whose
\* events nobody else has and whose hint holds.
LEMMA StreamsInvRecord ==
  ASSUME TypeOK, JournalInv, RecordsAddressed, StreamsInv,
         streams' = streams, late' = late,
         NEW r \in Record, journal' = Append(journal, r), NextRecord(r),
         r.events # None =>
           /\ r.op = "CommandHandled" /\ HintHolds(r)
           /\ \A i \in 1..Len(journal) : journal[i].events # r.events,
         r.op = "EventsAppended" =>
           \E i \in 1..Len(journal) :
             /\ journal[i].op = "CommandHandled" /\ journal[i].cmd = r.cmd
             /\ journal[i].events # None /\ OnStream(journal[i])
  PROVE  StreamsInv'
<1>0. PICK L \in Nat : L = Len(journal)
  BY WithinAppend
<1>1. /\ L = Len(journal) /\ Len(journal') = L + 1
      /\ \A i \in 1..L : journal'[i] = journal[i]
      /\ journal'[L + 1] = r
  BY <1>0, WithinAppend
<1>2. \A i \in 1..L+1 : i \in 1..L \/ i = L + 1
  OBVIOUS
<1>3. 1..L \subseteq 1..L+1
  OBVIOUS
<1>4. BatchesPromised'
  <2>1. ASSUME NEW k \in Streams, NEW n \in 1..Len(streams[k])
        PROVE  \/ streams[k][n] = Foreign
               \/ \E i \in 1..Len(journal') :
                    /\ journal'[i].events # None /\ journal'[i].stream = k
                    /\ streams[k][n] = BatchOf(journal'[i])
    <3>1. CASE streams[k][n] # Foreign
      <4>1. PICK i \in 1..L : /\ journal[i].events # None /\ journal[i].stream = k
                              /\ streams[k][n] = BatchOf(journal[i])
        BY <1>1, <3>1 DEF StreamsInv, BatchesPromised
      <4> QED
        BY <1>1, <1>3, <4>1
    <3> QED
      BY <3>1
  <2> QED
    BY <2>1 DEF BatchesPromised, BatchOf
<1>5. BatchesOnce'
  BY DEF StreamsInv, BatchesOnce
<1>6. HintsHold'
  <2>1. \A i \in 1..L : journal'[i].events # None => HintHolds(journal'[i])
    BY <1>1 DEF StreamsInv, HintsHold
  <2>2. \A i \in 1..L+1 : journal'[i].events # None => HintHolds(journal'[i])
    BY <1>1, <1>2, <2>1
  <2> QED
    BY <1>1, <2>2 DEF HintsHold, HintHolds
<1>7. EventsInv'
  <2>1. \A i \in 1..L+1 : journal'[i].events # None =>
                            journal'[i].op = "CommandHandled"
    BY <1>1, <1>2 DEF StreamsInv, EventsInv
  <2>2. ASSUME NEW i \in 1..L+1, NEW j \in 1..L+1,
               journal'[i].events = journal'[j].events, journal'[i].events # None
        PROVE  i = j
    <3>1. CASE i \in 1..L /\ j \in 1..L
      BY <1>1, <2>2, <3>1 DEF StreamsInv, EventsInv
    <3>2. CASE i = L + 1 /\ j \in 1..L
      BY <1>1, <2>2, <3>2
    <3>3. CASE i \in 1..L /\ j = L + 1
      BY <1>1, <2>2, <3>3
    <3> QED
      BY <1>2, <3>1, <3>2, <3>3
  <2> QED
    BY <1>1, <2>1, <2>2 DEF EventsInv
<1>8. MarkedOnStream'
  <2>1. ASSUME NEW i \in 1..L+1, NEW j \in 1..L+1,
               journal'[i].op = "CommandHandled", journal'[j].op = "EventsAppended",
               journal'[i].cmd = journal'[j].cmd
        PROVE  journal'[i].events # None /\ OnStream(journal'[i])
    <3>1. CASE i \in 1..L /\ j \in 1..L
      BY <1>1, <2>1, <3>1 DEF StreamsInv, MarkedOnStream
    <3>2. CASE i = L + 1 /\ j \in 1..L
      <4>1. ~Within(L, "CommandHandled", r.cmd)
        BY <1>1, <2>1, <3>2 DEF NextRecord
      <4>2. Within(j - 1, "CommandHandled", r.cmd)
        BY <1>1, <2>1, <3>2 DEF JournalInv, Ordered
      <4>3. Within(L, "CommandHandled", r.cmd)
        BY <1>1, <3>2, <4>2 DEF Within
      <4> QED
        BY <4>1, <4>3
    <3>3. CASE i \in 1..L /\ j = L + 1
      <4>1. PICK m \in 1..L : /\ journal[m].op = "CommandHandled"
                              /\ journal[m].cmd = r.cmd
                              /\ journal[m].events # None /\ OnStream(journal[m])
        BY <1>1, <2>1, <3>3
      <4>2. m = i
        BY <1>1, <2>1, <3>3, <4>1 DEF JournalInv, RecordedOnce
      <4> QED
        BY <1>1, <3>3, <4>1, <4>2
    <3>4. ~(i = L + 1 /\ j = L + 1)
      BY <2>1
    <3> QED
      BY <1>2, <3>1, <3>2, <3>3, <3>4
  <2>2. \A i, j \in 1..Len(journal') :
          /\ journal'[i].op = "CommandHandled" /\ journal'[j].op = "EventsAppended"
          /\ journal'[i].cmd = journal'[j].cmd
          => /\ journal'[i].events # None
             /\ \E n \in 1..Len(streams'[journal'[i].stream]) :
                  streams'[journal'[i].stream][n] = BatchOf(journal'[i])
    BY <1>1, <2>1 DEF OnStream
  <2> QED
    BY <2>2 DEF MarkedOnStream, OnStream, BatchOf
<1>9. LatePromised'
  BY PromisedStable DEF Extends, StreamsInv, LatePromised
<1> QED
  BY <1>4, <1>5, <1>6, <1>7, <1>8, <1>9 DEF StreamsInv

\* A step that leaves the journal and the streams alone.
LEMMA StreamsInvQuiet ==
  ASSUME StreamsInv, journal' = journal, streams' = streams,
         \A r \in late' : Promised(r)
  PROVE  StreamsInv'
<1>1. LatePromised'
  BY DEF LatePromised, Promised
<1>2. BatchesPromised' /\ BatchesOnce'
  BY DEF StreamsInv, BatchesPromised, BatchesOnce, BatchOf
<1>3. HintsHold' /\ EventsInv'
  BY DEF StreamsInv, HintsHold, HintHolds, EventsInv
<1>4. MarkedOnStream'
  BY DEF StreamsInv, MarkedOnStream, OnStream, BatchOf
<1> QED
  BY <1>1, <1>2, <1>3, <1>4 DEF StreamsInv

\* The event recorder appends a promised batch unless it is on its stream, and
\* that is where it is afterwards.
LEMMA PublishStep ==
  ASSUME TypeOK, RecordsAddressed, StreamsInv, journal' = journal,
         NEW r \in Record, Promised(r), AppendToStream(r),
         \A q \in late' : Promised(q)
  PROVE  StreamsInv' /\ StreamsGrow /\ OnStream(r)' /\ r.stream \in Streams
<1>1. PICK i \in 1..Len(journal) : journal[i] = r
  BY DEF Promised
<1>2. r.events # None /\ r.stream \in Streams /\ BatchOf(r) \in Batch
  BY <1>1 DEF Promised, RecordsAddressed, Addressed, BatchOf, Batch, Record
<1>3. HintHolds(r)
  BY <1>1, <1>2 DEF StreamsInv, HintsHold
<1>4. CASE PriorAttempts(r) # {}
  <2>1. PICK n \in 1..Len(streams[r.stream]) : streams[r.stream][n].id = r.events
    BY <1>4 DEF PriorAttempts
  <2>2. streams[r.stream][n] # Foreign
    BY <1>2, <2>1 DEF Foreign
  <2>3. PICK j \in 1..Len(journal) : /\ journal[j].events # None
                                     /\ streams[r.stream][n] = BatchOf(journal[j])
    BY <1>2, <2>1, <2>2 DEF StreamsInv, BatchesPromised
  <2>4. journal[j].events = r.events
    BY <2>1, <2>3 DEF BatchOf
  <2>5. j = i
    BY <1>1, <2>3, <2>4 DEF StreamsInv, EventsInv
  <2>6. OnStream(r)
    BY <1>1, <2>1, <2>3, <2>5 DEF OnStream
  <2>7. streams' = streams
    BY <1>4 DEF AppendToStream
  <2> QED
    BY <1>2, <2>6, <2>7, StreamsInvQuiet, StreamsKept, OnStreamStable
<1>5. CASE PriorAttempts(r) = {}
  <2>1. AppendsBatch(r.stream, BatchOf(r))
    BY <1>5 DEF AppendToStream, AppendsBatch, BatchOf
  <2>2. \A n \in 1..Len(streams[r.stream]) :
          streams[r.stream][n].id # BatchOf(r).id
    <3>1. r.hint \in Nat
      BY DEF Record
    <3>2. ASSUME NEW n \in 1..Len(streams[r.stream]),
                 streams[r.stream][n].id = r.events
          PROVE  FALSE
      <4>1. r.hint < n
        BY <1>3, <3>2 DEF HintHolds
      <4>2. n > r.hint
        BY <3>1, <4>1
      <4> QED
        BY <1>5, <3>2, <4>2 DEF PriorAttempts
    <3> QED
      BY <3>2 DEF BatchOf
  <2>3. journal[i].events # None /\ journal[i].stream = r.stream
        /\ BatchOf(r) = BatchOf(journal[i])
    BY <1>1, <1>2
  <2>4. StreamsInv'
    <3> DEFINE b == BatchOf(r)
               k == r.stream
    <3>1. /\ b \in Batch /\ k \in Streams /\ AppendsBatch(k, b)
          /\ \A n \in 1..Len(streams[k]) : streams[k][n].id # b.id
      BY <1>2, <2>1, <2>2
    <3>2. \E m \in 1..Len(journal) :
            /\ journal[m].events # None /\ journal[m].stream = k
            /\ b = BatchOf(journal[m])
      BY <2>3
    <3> HIDE DEF b, k
    <3> QED
      BY <3>1, <3>2, StreamsInvBatch
  <2>5. /\ StreamsGrow
        /\ LET L == Len(streams[r.stream])
           IN  L + 1 \in 1..Len(streams'[r.stream])
               /\ streams'[r.stream][L + 1] = BatchOf(r)
    BY <1>2, <2>1, StreamAppend
  <2>6. OnStream(r)'
    BY <2>5 DEF OnStream, BatchOf
  <2> QED
    BY <1>2, <2>4, <2>5, <2>6
<1> QED
  BY <1>4, <1>5

-----------------------------------------------------------------------------
(* The invariant about batches: what each supervisor holds.                *)

\* The events of supervisor s after a step are nobody else's, if it holds any.
FreshAfter(s) ==
  Holding(s)' =>
    /\ \A i \in 1..Len(journal') : journal'[i].events # op'[s].events
    /\ \A t \in Supervisors :
         t # s /\ Holding(t) => op[t].events # op'[s].events

\* A step in which supervisor s records no events but those it holds.
LEMMA HeldStep ==
  ASSUME TypeOK, HeldInv, NEW s \in Supervisors, Changes(s), FreshAfter(s),
         \/ journal' = journal
         \/ \E r \in Record :
              /\ journal' = Append(journal, r)
              /\ r.events = None \/ (Holding(s) /\ r.events = op[s].events)
  PROVE  HeldInv'
<1>1. ASSUME NEW t \in Supervisors, t # s
      PROVE  pc'[t] = pc[t] /\ op'[t] = op[t] /\ (Holding(t)' <=> Holding(t))
  <2>1. pc'[t] = pc[t] /\ op'[t] = op[t]
    BY <1>1 DEF TypeOK, Changes
  <2> QED
    BY <2>1 DEF Holding
<1>2. ASSUME NEW t \in Supervisors, Holding(t)', NEW i \in 1..Len(journal')
      PROVE  journal'[i].events # op'[t].events
  <2>1. CASE t = s
    BY <1>2, <2>1 DEF FreshAfter
  <2>2. CASE t # s
    <3>1. Holding(t) /\ op'[t] = op[t] /\ op[t].events # None
      BY <1>1, <1>2, <2>2 DEF Holding
    <3>2. CASE i \in 1..Len(journal) /\ journal'[i] = journal[i]
      BY <3>1, <3>2 DEF HeldInv
    <3>3. CASE ~(i \in 1..Len(journal) /\ journal'[i] = journal[i])
      <4>1. PICK r \in Record : /\ journal' = Append(journal, r)
                                /\ \/ r.events = None
                                   \/ Holding(s) /\ r.events = op[s].events
        BY <1>2, <3>3
      <4>2. journal'[i] = r
        BY <1>2, <3>3, <4>1, WithinAppend
      <4> QED
        BY <2>2, <3>1, <4>1, <4>2 DEF HeldInv
    <3> QED
      BY <3>2, <3>3
  <2> QED
    BY <2>1, <2>2
<1>3. ASSUME NEW t \in Supervisors, NEW u \in Supervisors, Holding(t)', Holding(u)',
             op'[t].events = op'[u].events
      PROVE  t = u
  <2>1. CASE t # s /\ u # s
    BY <1>1, <1>3, <2>1 DEF HeldInv
  <2>2. CASE t = s /\ u # s
    BY <1>1, <1>3, <2>2 DEF FreshAfter
  <2>3. CASE t # s /\ u = s
    BY <1>1, <1>3, <2>3 DEF FreshAfter
  <2> QED
    BY <2>1, <2>2, <2>3
<1>4. \A t \in Supervisors : Holding(t)' =>
        \A i \in 1..Len(journal') : journal'[i].events # op'[t].events
  BY <1>2
<1>5. \A t, u \in Supervisors :
        Holding(t)' /\ Holding(u)' /\ op'[t].events = op'[u].events => t = u
  BY <1>3
<1> QED
  BY <1>4, <1>5 DEF HeldInv

\* The stream of the events a supervisor has in its hands.
LEMMA StreamInHand ==
  ASSUME IInv, NEW s \in Supervisors,
         \/ pc[s] = "record" /\ op[s].events # None
         \/ pc[s] \in {"append", "reappend", "mark"} /\ Promised(op[s])
  PROVE  op[s] \in Record /\ op[s].stream \in Streams
<1>1. OpOf(s) # "none" /\ Addressed(op[s])
  BY Parts DEF OpOf, OpInv
<1>2. op[s] \in Record /\ op[s].events # None
  BY <1>1, Parts DEF Promised
<1> QED
  BY <1>1, <1>2 DEF Addressed

\* What a supervisor is about to do to a stream stays right while others take
\* steps.
LEMMA PublisherInvStable ==
  ASSUME IInv, Extends, StreamsGrow, NEW s \in Supervisors, PublisherInv(s),
         pc'[s] = pc[s], op'[s] = op[s], eventStreamID'[s] = eventStreamID[s],
         eventOffsetHint'[s] = eventOffsetHint[s]
  PROVE  PublisherInv(s)'
<1>1. TypeOK /\ eventStreamID[s] \in Streams \cup {None} /\ eventOffsetHint[s] \in Nat
  BY Parts DEF LocalType
<1>2. pc[s] \in {"append", "reappend", "mark"} => Promised(op[s])'
  BY <1>1, PromisedStable DEF PublisherInv
<1>3. pc[s] = "mark" => OnStream(op[s])'
  BY StreamInHand, OnStreamStable DEF PublisherInv
<1>4. pc[s] = "record" /\ op[s].events # None =>
        op[s].stream = eventStreamID[s] /\ op[s].hint <= Len(streams'[op[s].stream])
  <2>1. ASSUME pc[s] = "record", op[s].events # None
        PROVE  op[s].stream = eventStreamID[s]
               /\ op[s].hint <= Len(streams'[op[s].stream])
    <3>1. op[s] \in Record /\ op[s].stream \in Streams
      BY <2>1, StreamInHand
    <3>2. op[s].hint \in Nat
      BY <3>1 DEF Record
    <3> QED
      BY <2>1, <3>1, <3>2 DEF PublisherInv, StreamsGrow
  <2> QED
    BY <2>1
<1>5. eventStreamID[s] # None =>
        eventOffsetHint[s] <= Len(streams'[eventStreamID[s]])
  BY <1>1 DEF PublisherInv, StreamsGrow
<1> QED
  BY <1>2, <1>3, <1>4, <1>5 DEF PublisherInv, Promised, OnStream, BatchOf

\* A step of supervisor s keeps the invariant about batches if it keeps what
\* concerns s and what is shared.
LEMMA PubFrame ==
  ASSUME IInv, PubInv, NEW s \in Supervisors, Changes(s), Extends, StreamsGrow,
         StreamsInv', HeldInv', PublisherInv(s)'
  PROVE  PubInv'
<1>1. ASSUME NEW t \in Supervisors, t # s
      PROVE  PublisherInv(t)'
  <2>1. /\ pc'[t] = pc[t] /\ op'[t] = op[t]
        /\ eventStreamID'[t] = eventStreamID[t]
        /\ eventOffsetHint'[t] = eventOffsetHint[t]
    BY <1>1, Parts DEF Changes
  <2> QED
    BY <2>1, PublisherInvStable DEF PubInv
<1> QED
  BY <1>1 DEF PubInv

\* A step of supervisor s that leaves the journal and the streams alone.
LEMMA QuietPub ==
  ASSUME IInv, PubInv, NEW s \in Supervisors, Changes(s), journal' = journal,
         streams' = streams, late' = late, FreshAfter(s), PublisherInv(s)'
  PROVE  PubInv'
<1>1. TypeOK /\ Extends
  BY DEF IInv, Extends
<1>2. StreamsInv' /\ StreamsGrow
  BY <1>1, StreamsInvQuiet, StreamsKept DEF PubInv, StreamsInv, LatePromised
<1>3. HeldInv'
  BY <1>1, HeldStep DEF PubInv
<1> QED
  BY <1>1, <1>2, <1>3, PubFrame

\* Run returns: the supervisor holds nothing and is about to do nothing.
LEMMA Returned ==
  ASSUME IInv, NEW s \in Supervisors, Return(s), KeepsMemory(s)
  PROVE  /\ Changes(s) /\ pc'[s] = "stopped" /\ recovering'[s] = FALSE
         /\ \/ eventStreamID'[s] = None
            \/ /\ eventStreamID'[s] = eventStreamID[s]
               /\ eventOffsetHint'[s] = eventOffsetHint[s]
<1>1. TypeOK
  BY DEF IInv
<1>2. /\ pc'[s] = "stopped" /\ journalPos'[s] = 0
      /\ unappended'[s] = {} /\ unhandled'[s] = {} /\ recovering'[s] = FALSE
      /\ op'[s] = None
  BY Parts DEF Return, Goto
<1>3. /\ \/ eventStreamID'[s] = None
         \/ /\ eventStreamID'[s] = eventStreamID[s]
            /\ eventOffsetHint'[s] = eventOffsetHint[s]
      /\ eventStreamID' = [eventStreamID EXCEPT ![s] = eventStreamID'[s]]
      /\ eventOffsetHint' = [eventOffsetHint EXCEPT ![s] = eventOffsetHint'[s]]
  <2>1. CASE UNCHANGED memory
    BY <1>1, <2>1 DEF TypeOK, memory
  <2>2. CASE ~UNCHANGED memory
    BY <1>1, <2>2 DEF TypeOK, KeepsMemory
  <2> QED
    BY <2>1, <2>2
<1>4. Changes(s)
  BY <1>1, <1>2, <1>3 DEF Return, Goto, Changes, TypeOK
<1> QED
  BY <1>2, <1>3, <1>4

\* A supervisor that returns leaves the streams as they must be, whether it
\* recorded what it held or not, and whether or not its append goes on late.
LEMMA ReturnPub ==
  ASSUME IInv, PubInv, NEW s \in Supervisors, Return(s), KeepsMemory(s),
         \/ journal' = journal
         \/ \E r \in Record :
              /\ journal' = Append(journal, r)
              /\ r.events = None \/ (Holding(s) /\ r.events = op[s].events),
         StreamsGrow, StreamsInv'
  PROVE  PubInv'
<1>1. TypeOK /\ Extends
  BY DEF IInv, Extends
<1>2. Changes(s) /\ pc'[s] = "stopped"
  BY Returned
<1>3. HeldInv'
  <2>1. FreshAfter(s)
    BY <1>2 DEF FreshAfter, Holding
  <2> QED
    BY <1>1, <1>2, <2>1, HeldStep DEF PubInv
<1>4. PublisherInv(s)'
  <2>1. eventStreamID'[s] # None =>
          eventOffsetHint'[s] <= Len(streams'[eventStreamID'[s]])
    <3>1. CASE eventStreamID'[s] = None
      BY <3>1
    <3>2. CASE eventStreamID'[s] = eventStreamID[s]
               /\ eventOffsetHint'[s] = eventOffsetHint[s]
      BY <3>2, Parts DEF PubInv, PublisherInv, StreamsGrow, LocalType
    <3> QED
      BY <3>1, <3>2, Returned
  <2> QED
    BY <1>2, <2>1 DEF PublisherInv
<1> QED
  BY <1>1, <1>2, <1>3, <1>4, PubFrame

\* Whatever record a supervisor appends, the streams agree with the journal.
LEMMA RecordStep ==
  ASSUME IInv, PubInv, NEW s \in Supervisors, pc[s] \in {"accept", "record", "mark"},
         AtEnd(s), journal' = Append(journal, ToAppend(s)),
         streams' = streams, late' = late
  PROVE  /\ StreamsInv'
         /\ \E r \in Record :
              /\ journal' = Append(journal, r)
              /\ r.events = None \/ (Holding(s) /\ r.events = op[s].events)
<1> DEFINE r == ToAppend(s)
<1>1. /\ r \in Record /\ NextRecord(r) /\ r.cmd = op[s].cmd
      /\ r.op = IF pc[s] = "accept" THEN "CommandAccepted"
                ELSE IF pc[s] = "record" THEN "CommandHandled"
                ELSE "EventsAppended"
  BY AppendIsNext
<1>2. PublisherInv(s) /\ StreamsInv /\ HeldInv
  BY DEF PubInv
<1>3. pc[s] = "accept" => r.events = None
  BY <1>2 DEF PublisherInv, ToAppend
<1>4. pc[s] = "mark" => r.events = None
  BY DEF ToAppend, EventsAppended
<1>5. pc[s] = "record" => r = op[s]
  BY DEF ToAppend
<1>6. r.events # None => Holding(s) /\ r.events = op[s].events /\ r = op[s]
  BY <1>3, <1>4, <1>5 DEF Holding
<1>7. ASSUME r.events # None
      PROVE  /\ r.op = "CommandHandled" /\ HintHolds(r)
             /\ \A i \in 1..Len(journal) : journal[i].events # r.events
  <2>1. pc[s] = "record" /\ r = op[s] /\ op[s].events # None
    BY <1>3, <1>4, <1>5, <1>7
  <2>2. \A i \in 1..Len(journal) : journal[i].events # r.events
    BY <1>2, <1>6, <1>7 DEF HeldInv
  <2>3. r.stream \in Streams /\ r.hint <= Len(streams[r.stream])
    BY <1>2, <2>1, StreamInHand DEF PublisherInv
  <2>4. ASSUME NEW n \in 1..Len(streams[r.stream])
        PROVE  streams[r.stream][n].id # r.events
    <3>1. CASE streams[r.stream][n] = Foreign
      BY <1>7, <3>1 DEF Foreign
    <3>2. CASE \E i \in 1..Len(journal) : streams[r.stream][n] = BatchOf(journal[i])
      BY <2>2, <3>2 DEF BatchOf
    <3> QED
      BY <1>2, <2>3, <3>1, <3>2 DEF StreamsInv, BatchesPromised
  <2>5. HintHolds(r)
    BY <2>3, <2>4 DEF HintHolds
  <2> QED
    BY <1>1, <2>1, <2>2, <2>5
<1>8. ASSUME r.op = "EventsAppended"
      PROVE  \E i \in 1..Len(journal) :
               /\ journal[i].op = "CommandHandled" /\ journal[i].cmd = r.cmd
               /\ journal[i].events # None /\ OnStream(journal[i])
  <2>1. pc[s] = "mark"
    BY <1>1, <1>8
  <2>2. Promised(op[s]) /\ OnStream(op[s])
    BY <1>2, <2>1 DEF PublisherInv
  <2>3. PICK i \in 1..Len(journal) : journal[i] = op[s] /\ journal[i].events # None
    BY <2>2 DEF Promised
  <2>4. journal[i].op = "CommandHandled"
    BY <1>2, <2>3 DEF StreamsInv, EventsInv
  <2> QED
    BY <1>1, <2>2, <2>3, <2>4
<1>9. StreamsInv'
  <2>1. TypeOK /\ JournalInv /\ RecordsAddressed
    BY DEF IInv
  <2>2. journal' = Append(journal, r)
    OBVIOUS
  <2> HIDE DEF r
  <2> QED
    BY <1>1, <1>2, <1>7, <1>8, <2>1, <2>2, StreamsInvRecord
<1> QED
  BY <1>1, <1>6, <1>9

-----------------------------------------------------------------------------
(* The invariant about batches: the actions.                               *)

\* What the invariants say of supervisor s.
LEMMA PubParts ==
  ASSUME IInv, PubInv, NEW s \in Supervisors
  PROVE  /\ TypeOK /\ RecordsAddressed /\ JournalInv
         /\ StreamsInv /\ HeldInv /\ PublisherInv(s)
         /\ BatchesPromised /\ EventsInv /\ LatePromised
         /\ eventStreamID[s] \in Streams \cup {None} /\ eventOffsetHint[s] \in Nat
BY Parts DEF PubInv, StreamsInv, LocalType

\* Recovery reads the journal and changes no stream and no hint.
LEMMA RecoverPub ==
  ASSUME IInv, PubInv, NEW s \in Supervisors, Recover(s)
  PROVE  PubInv'
<1>1. Changes(s) /\ pc'[s] = "recover"
      /\ journal' = journal /\ streams' = streams /\ late' = late
      /\ eventStreamID'[s] = eventStreamID[s]
      /\ eventOffsetHint'[s] = eventOffsetHint[s]
  BY Parts DEF Recover, Goto, Changes, memory, durable, TypeOK
<1>2. FreshAfter(s) /\ PublisherInv(s)'
  BY <1>1, PubParts DEF FreshAfter, Holding, PublisherInv
<1> QED
  BY <1>1, <1>2, QuietPub

\* A handled command that recovery finds is in the journal.
LEMMA RecoverHandledPub ==
  ASSUME IInv, PubInv, NEW s \in Supervisors, RecoverHandled(s)
  PROVE  PubInv'
<1>1. PICK i \in unappended[s] : op' = [op EXCEPT ![s] = journal[i]]
  BY DEF RecoverHandled
<1>2. Changes(s) /\ pc'[s] = "reappend" /\ op'[s] = journal[i]
      /\ journal' = journal /\ streams' = streams /\ late' = late
      /\ eventStreamID'[s] = eventStreamID[s]
      /\ eventOffsetHint'[s] = eventOffsetHint[s]
  BY <1>1, Parts DEF RecoverHandled, Goto, Changes, memory, durable, TypeOK
<1>3. i \in 1..Len(journal) /\ journal[i].events # None
  BY Parts DEF PendingInv, LocalType
<1>4. Promised(op[s])'
  BY <1>2, <1>3 DEF Promised
<1>5. FreshAfter(s) /\ PublisherInv(s)'
  BY <1>2, <1>4, PubParts DEF FreshAfter, Holding, PublisherInv
<1> QED
  BY <1>2, <1>5, QuietPub

\* A command is taken up again with no events in hand.
LEMMA RecoverAcceptedPub ==
  ASSUME IInv, PubInv, NEW s \in Supervisors, RecoverAccepted(s)
  PROVE  PubInv'
<1>1. PICK i \in unhandled[s] : op' = [op EXCEPT ![s] = journal[i]]
  BY DEF RecoverAccepted
<1>2. Changes(s) /\ pc'[s] = "add" /\ op'[s] = journal[i]
      /\ journal' = journal /\ streams' = streams /\ late' = late
      /\ eventStreamID'[s] = eventStreamID[s]
      /\ eventOffsetHint'[s] = eventOffsetHint[s]
  BY <1>1, Parts DEF RecoverAccepted, Goto, Changes, memory, durable, TypeOK
<1>3. i \in 1..Len(journal) /\ journal[i].op = "CommandAccepted"
  BY Parts DEF PendingInv, LocalType
<1>4. journal[i].events = None
  BY <1>3, PubParts DEF EventsInv
<1>5. FreshAfter(s) /\ PublisherInv(s)'
  BY <1>2, <1>4, PubParts DEF FreshAfter, Holding, PublisherInv
<1> QED
  BY <1>2, <1>5, QuietPub

\* Truncation removes no promise: records stay in the journal of the model.
LEMMA TruncatePub ==
  ASSUME IInv, PubInv, NEW s \in Supervisors, Truncate(s)
  PROVE  PubInv'
<1>1. Changes(s) /\ pc'[s] = "idle"
      /\ journal' = journal /\ streams' = streams /\ late' = late
      /\ eventStreamID'[s] = eventStreamID[s]
      /\ eventOffsetHint'[s] = eventOffsetHint[s]
  BY Parts DEF Truncate, Goto, Changes, memory, TypeOK
<1>2. FreshAfter(s) /\ PublisherInv(s)'
  BY <1>1, PubParts DEF FreshAfter, Holding, PublisherInv
<1> QED
  BY <1>1, <1>2, QuietPub

\* An accepted command has no events yet.
LEMMA AcceptCommandPub ==
  ASSUME IInv, PubInv, NEW s \in Supervisors, NEW c \in Commands, AcceptCommand(s, c)
  PROVE  PubInv'
<1>1. /\ UNCHANGED <<journal, streams, late, memory, journalPos, pending>>
      /\ \/ UNCHANGED <<pc, op>>
         \/ /\ pc' = [pc EXCEPT ![s] = "accept"]
            /\ op' = [op EXCEPT ![s] = CommandAccepted(c)]
      /\ pc[s] = "idle"
  BY DEF AcceptCommand, Goto, durable
<1>2. Changes(s)
  BY <1>1, Parts DEF Changes, memory, pending, TypeOK
<1>3. /\ pc'[s] \in {"idle", "accept"}
      /\ pc'[s] = "accept" => op'[s].events = None
      /\ eventStreamID'[s] = eventStreamID[s]
      /\ eventOffsetHint'[s] = eventOffsetHint[s]
  BY <1>1, Parts DEF CommandAccepted, memory
<1>4. FreshAfter(s) /\ PublisherInv(s)'
  BY <1>1, <1>3, PubParts DEF FreshAfter, Holding, PublisherInv
<1> QED
  BY <1>1, <1>2, <1>4, QuietPub

\* The accepted set has no part in publication.
LEMMA AddToAcceptedPub ==
  ASSUME IInv, PubInv, NEW s \in Supervisors, AddToAccepted(s)
  PROVE  PubInv'
<1>1. Changes(s) /\ pc[s] = "add" /\ pc'[s] = "handle" /\ op' = op
      /\ journal' = journal /\ streams' = streams /\ late' = late
      /\ eventStreamID'[s] = eventStreamID[s]
      /\ eventOffsetHint'[s] = eventOffsetHint[s]
  BY Parts DEF AddToAccepted, Goto, Changes, memory, pending, TypeOK
<1>2. FreshAfter(s) /\ PublisherInv(s)'
  BY <1>1, PubParts DEF FreshAfter, Holding, PublisherInv
<1> QED
  BY <1>1, <1>2, QuietPub

\* The events the handler records are new: no record has them, no supervisor
\* holds them and they are on no stream.
LEMMA HandleCommandPub ==
  ASSUME IInv, PubInv, NEW s \in Supervisors, HandleCommand(s)
  PROVE  PubInv'
<1>1. PICK e \in (EventIDs \ EventIDsInUse) \cup {None} :
        LET target == IF e = None THEN <<None, 0>>
                      ELSE <<eventStreamID[s], eventOffsetHint[s]>>
        IN  /\ op' = [op EXCEPT ![s] =
                        CommandHandled(@.cmd, e, target[1], target[2])]
            /\ Goto(s, IF e # None /\ eventStreamID[s] = None
                       THEN "select" ELSE "record")
  BY DEF HandleCommand
<1>2. UNCHANGED <<journal, streams, late, journalPos, pending, memory>>
  BY DEF HandleCommand, durable
<1>3. /\ Changes(s) /\ pc'[s] \in {"select", "record"} /\ op'[s].events = e
      /\ pc'[s] = "record" /\ e # None =>
           /\ op'[s].stream = eventStreamID[s] /\ op'[s].hint = eventOffsetHint[s]
           /\ eventStreamID[s] # None
      /\ eventStreamID'[s] = eventStreamID[s]
      /\ eventOffsetHint'[s] = eventOffsetHint[s]
  BY <1>1, <1>2, Parts DEF Changes, Goto, CommandHandled, memory, pending, TypeOK
<1>4. FreshAfter(s)
  <2>1. ASSUME e # None, NEW i \in 1..Len(journal) PROVE journal[i].events # e
    BY <2>1 DEF EventIDsInUse
  <2>2. ASSUME e # None, NEW t \in Supervisors, Holding(t) PROVE op[t].events # e
    BY <2>2 DEF EventIDsInUse, Holding
  <2> QED
    BY <1>2, <1>3, <2>1, <2>2 DEF FreshAfter, Holding
<1>5. PublisherInv(s)'
  BY <1>2, <1>3, PubParts DEF PublisherInv
<1> QED
  BY <1>2, <1>3, <1>4, <1>5, QuietPub

\* The hint of the record is the length of the selected stream.
LEMMA SelectEventStreamPub ==
  ASSUME IInv, PubInv, NEW s \in Supervisors, SelectEventStream(s)
  PROVE  PubInv'
<1>1. PICK k \in Streams :
        /\ eventStreamID' = [eventStreamID EXCEPT ![s] = k]
        /\ eventOffsetHint' = [eventOffsetHint EXCEPT ![s] = Len(streams[k])]
        /\ op' = [op EXCEPT ![s].stream = k, ![s].hint = Len(streams[k])]
  BY DEF SelectEventStream
<1>2. /\ pc[s] = "select" /\ pc' = [pc EXCEPT ![s] = "record"]
      /\ UNCHANGED <<journal, streams, late, journalPos, pending>>
  BY DEF SelectEventStream, Goto, durable
<1>3. op[s] \in Record
  BY <1>2, Parts DEF OpOf
<1>4. /\ op'[s].events = op[s].events /\ op'[s].stream = k
      /\ op'[s].hint = Len(streams[k])
  BY <1>1, <1>3, Parts DEF Record
<1>5. Changes(s)
  BY <1>1, <1>2, Parts DEF Changes, pending, TypeOK
<1>6. pc'[s] = "record" /\ eventStreamID'[s] = k
      /\ eventOffsetHint'[s] = Len(streams[k])
  BY <1>1, <1>2, Parts
<1>7. FreshAfter(s)
  <2>1. Holding(s)' => Holding(s)
    BY <1>2, <1>4 DEF Holding
  <2> QED
    BY <1>2, <1>4, <2>1, PubParts DEF FreshAfter, HeldInv
<1>8. PublisherInv(s)'
  <2>1. Len(streams[k]) <= Len(streams[k])
    <3>1. Len(streams[k]) \in Nat
      BY PubParts, StreamsKept DEF TypeOK
    <3> QED
      BY <3>1
  <2> QED
    BY <1>2, <1>4, <1>6, <2>1 DEF PublisherInv
<1> QED
  BY <1>2, <1>5, <1>7, <1>8, QuietPub

\* The events are on their stream afterwards, and the hint is at most its end.
LEMMA AppendEventsPub ==
  ASSUME IInv, PubInv, NEW s \in Supervisors, AppendEvents(s)
  PROVE  PubInv'
<1>1. /\ pc[s] \in {"append", "reappend"} /\ pc' = [pc EXCEPT ![s] = "mark"]
      /\ AppendToStream(op[s])
      /\ UNCHANGED <<journal, late, journalPos, pending, op, eventStreamID>>
  BY DEF AppendEvents, Goto
<1>2. Promised(op[s]) /\ op[s] \in Record
  BY <1>1, PubParts, StreamInHand DEF PublisherInv
<1>3. StreamsInv' /\ StreamsGrow /\ OnStream(op[s])' /\ op[s].stream \in Streams
  <2>1. \A q \in late' : Promised(q)
    BY <1>1, PubParts DEF LatePromised
  <2> QED
    BY <1>1, <1>2, <2>1, PubParts, PublishStep
<1>4. \/ UNCHANGED eventOffsetHint
      \/ /\ pc[s] = "append"
         /\ \E end \in 1 .. Len(streams[op[s].stream]) + 1 :
              /\ IsEndOffset(op[s], end)
              /\ eventOffsetHint' = [eventOffsetHint EXCEPT ![s] = end]
  BY DEF AppendEvents, SameStreamPointer
<1>5. eventOffsetHint' = [eventOffsetHint EXCEPT ![s] = eventOffsetHint'[s]]
  BY <1>4, Parts DEF TypeOK
<1>6. Changes(s)
  BY <1>1, <1>5, Parts DEF Changes, pending, TypeOK
<1>7. eventStreamID[s] # None =>
        eventOffsetHint'[s] <= Len(streams'[eventStreamID[s]])
  <2>1. CASE UNCHANGED eventOffsetHint
    BY <1>3, <2>1, PubParts DEF PublisherInv, StreamsGrow
  <2>2. CASE eventOffsetHint' # eventOffsetHint
    <3>1. PICK end \in 1 .. Len(streams[op[s].stream]) + 1 :
            /\ IsEndOffset(op[s], end)
            /\ eventOffsetHint' = [eventOffsetHint EXCEPT ![s] = end]
      BY <1>4, <2>2
    <3>2. eventOffsetHint'[s] = end
      BY <3>1, Parts
    <3>3. eventStreamID[s] = op[s].stream
      BY <1>4, <2>2, PubParts DEF PublisherInv
    <3>4. CASE PriorAttempts(op[s]) # {}
      <4>1. end \in 1..Len(streams[op[s].stream])
        BY <3>1, <3>4 DEF IsEndOffset, PriorAttempts
      <4> QED
        BY <1>3, <3>2, <3>3, <4>1 DEF StreamsGrow
    <3>5. CASE PriorAttempts(op[s]) = {}
      <4>1. end = Len(streams[op[s].stream]) + 1
        BY <3>1, <3>5 DEF IsEndOffset
      <4>2. AppendsBatch(op[s].stream, BatchOf(op[s]))
        BY <1>1, <3>5 DEF AppendToStream, AppendsBatch, BatchOf
      <4>3. BatchOf(op[s]) \in Batch
        BY <1>2 DEF Promised, BatchOf, Batch, Record
      <4>4. Len(streams'[op[s].stream]) = Len(streams[op[s].stream]) + 1
            /\ Len(streams[op[s].stream]) \in Nat
        BY <1>3, <4>2, <4>3, PubParts, StreamAppend
      <4> QED
        BY <3>2, <3>3, <4>1, <4>4
    <3> QED
      BY <3>4, <3>5
  <2> QED
    BY <2>1, <2>2
<1>8. pc'[s] = "mark" /\ op' = op
  BY <1>1, Parts
<1>9. PublisherInv(s)'
  <2>1. Promised(op[s])'
    BY <1>1, <1>2 DEF Promised
  <2> QED
    BY <1>1, <1>3, <1>7, <1>8, <2>1 DEF PublisherInv
<1>10. HeldInv'
  <2>1. FreshAfter(s)
    BY <1>8 DEF FreshAfter, Holding
  <2> QED
    BY <1>1, <1>6, <2>1, PubParts, HeldStep
<1> QED
  BY <1>1, <1>3, <1>6, <1>9, <1>10, PubFrame DEF Extends

\* The actions that write a record and go on.
LEMMA RecordPub ==
  ASSUME IInv, PubInv, NEW s \in Supervisors,
         JournalAccepted(s) \/ JournalHandled(s) \/ JournalAppended(s)
  PROVE  PubInv'
<1>1. /\ pc[s] \in {"accept", "record", "mark"} /\ AtEnd(s)
      /\ journal' = Append(journal, ToAppend(s))
      /\ UNCHANGED <<streams, late, pending, memory>>
      /\ journalPos' = [journalPos EXCEPT ![s] = @ + 1]
  BY DEF JournalAccepted, JournalHandled, JournalAppended, AppendRecord, ToAppend,
         Advance
<1>2. \/ /\ pc[s] = "accept" /\ pc' = [pc EXCEPT ![s] = "add"] /\ op' = op
      \/ /\ pc[s] = "record" /\ op[s].events # None
         /\ pc' = [pc EXCEPT ![s] = "append"] /\ op' = op
      \/ Finish(s)
  BY DEF JournalAccepted, JournalHandled, JournalAppended, Goto
<1>3. Changes(s)
  BY <1>1, <1>2, Parts DEF Changes, Finish, Goto, pending, memory, TypeOK
<1>4. StreamsInv' /\ StreamsGrow /\ Extends
  BY <1>1, RecordStep, PubParts, StreamsKept DEF Extends
<1>5. /\ pc'[s] \in {"add", "append", "recover", "idle"}
      /\ pc'[s] = "add" => pc[s] = "accept" /\ op'[s] = op[s]
      /\ pc'[s] = "append" => pc[s] = "record" /\ op[s].events # None
                              /\ op'[s] = op[s]
      /\ eventStreamID'[s] = eventStreamID[s]
      /\ eventOffsetHint'[s] = eventOffsetHint[s]
  BY <1>1, <1>2, Parts DEF Finish, Goto, memory
<1>6. HeldInv'
  <2>1. FreshAfter(s)
    BY <1>5 DEF FreshAfter, Holding
  <2> QED
    BY <1>1, <1>3, <2>1, PubParts, RecordStep, HeldStep
<1>7. PublisherInv(s)'
  <2>1. ASSUME pc'[s] = "append" PROVE Promised(op[s])'
    <3>1. op[s] \in Record /\ ToAppend(s) = op[s]
      BY <1>5, <2>1, Parts DEF OpOf, ToAppend
    <3>2. Len(journal) \in Nat /\ Len(journal') = Len(journal) + 1
          /\ journal'[Len(journal) + 1] = op[s]
      BY <1>1, <3>1, PubParts, WithinAppend
    <3>3. Len(journal) + 1 \in 1..Len(journal')
      BY <3>2
    <3> QED
      BY <1>5, <2>1, <3>2, <3>3 DEF Promised
  <2>2. op[s].events = None \/ pc[s] # "accept"
    BY PubParts DEF PublisherInv
  <2>3. pc'[s] = "append" => op[s].stream = eventStreamID[s]
    BY <1>5, PubParts DEF PublisherInv
  <2>4. eventStreamID[s] # None => eventOffsetHint[s] <= Len(streams[eventStreamID[s]])
    BY PubParts DEF PublisherInv
  <2> QED
    BY <1>1, <1>5, <2>1, <2>2, <2>3, <2>4 DEF PublisherInv
<1> QED
  BY <1>3, <1>4, <1>6, <1>7, PubFrame

\* The invariant about batches survives every way a supervisor can fail.
LEMMA FaultPub ==
  ASSUME IInv, PubInv, NEW s \in Supervisors, Fault(s)
  PROVE  PubInv'
<1>1. TypeOK /\ StreamsInv /\ StreamsInv /\ RecordsAddressed /\ LatePromised
  BY PubParts
<1>2. ASSUME Return(s), KeepsMemory(s), UNCHANGED <<journal, streams, late>>
      PROVE  PubInv'
  <2>1. StreamsInv' /\ StreamsGrow
    BY <1>1, <1>2, StreamsInvQuiet, StreamsKept DEF LatePromised
  <2> QED
    BY <1>2, <2>1, ReturnPub
<1>3. ASSUME \/ Stop(s) \/ Fail(s) \/ Conflict(s) \/ Crash(s)
             \/ TruncateFails(s) \/ AddFailsAfterAdd(s)
      PROVE  PubInv'
  BY <1>2, <1>3 DEF Stop, Fail, Conflict, Crash, TruncateFails, AddFailsAfterAdd,
                    durable, KeepsMemory
<1>4. ASSUME JournalFailsAfterAppend(s) PROVE PubInv'
  <2>1. /\ pc[s] \in {"accept", "record", "mark"} /\ AtEnd(s)
        /\ journal' = Append(journal, ToAppend(s))
        /\ Return(s) /\ KeepsMemory(s) /\ UNCHANGED <<streams, late>>
    BY <1>4 DEF JournalFailsAfterAppend, AppendRecord, ToAppend, KeepsMemory
  <2> QED
    BY <1>1, <2>1, RecordStep, ReturnPub, StreamsKept
<1>5. ASSUME AppendFailsAfterAppend(s) PROVE PubInv'
  <2>1. /\ pc[s] \in {"append", "reappend"} /\ Return(s) /\ KeepsMemory(s)
        /\ journal' = journal
        /\ \/ AppendToStream(op[s]) /\ UNCHANGED late
           \/ late' = late \cup {op[s]} /\ UNCHANGED streams
    BY <1>5 DEF AppendFailsAfterAppend, KeepsMemory
  <2>2. Promised(op[s]) /\ op[s] \in Record
    BY <2>1, PubParts, StreamInHand DEF PublisherInv
  <2>3. \A q \in late' : Promised(q)
    BY <1>1, <2>1, <2>2 DEF LatePromised
  <2>4. StreamsInv' /\ StreamsGrow
    <3>1. CASE AppendToStream(op[s])
      BY <1>1, <2>1, <2>2, <2>3, <3>1, PublishStep
    <3>2. CASE UNCHANGED streams
      BY <1>1, <2>1, <2>3, <3>2, StreamsInvQuiet, StreamsKept
    <3> QED
      BY <2>1, <3>1, <3>2
  <2> QED
    BY <2>1, <2>4, ReturnPub
<1> QED
  BY <1>3, <1>4, <1>5 DEF Fault

\* What others do to the streams leaves the supervisors as they are.
LEMMA StreamsPub ==
  ASSUME IInv, PubInv, UNCHANGED <<journal, local>>, StreamsInv', StreamsGrow
  PROVE  PubInv'
<1>1. UNCHANGED <<pc, op, eventStreamID, eventOffsetHint>>
  BY DEF local, memory
<1>2. HeldInv'
  BY <1>1 DEF PubInv, HeldInv, Holding
<1>3. \A s \in Supervisors : PublisherInv(s)'
  BY <1>1, PublisherInvStable DEF PubInv, Extends
<1> QED
  BY <1>2, <1>3 DEF PubInv

\* Every step keeps the invariant of publication.
LEMMA NextKeepsPubInv ==
  ASSUME IInv, PubInv, [Next]_vars
  PROVE  PubInv'
<1>1. TypeOK /\ RecordsAddressed /\ StreamsInv /\ LatePromised
  BY DEF IInv, PubInv, StreamsInv
<1>2. ASSUME NEW s \in Supervisors, Step(s) PROVE PubInv'
  BY <1>2, RecoverPub, RecoverHandledPub, RecoverAcceptedPub, TruncatePub,
     AcceptCommandPub, RecordPub, AddToAcceptedPub, HandleCommandPub,
     SelectEventStreamPub, AppendEventsPub DEF Step
<1>3. ASSUME NEW r \in late, LateAppend(r) PROVE PubInv'
  <2>1. r \in Record /\ Promised(r) /\ \A q \in late' : Promised(q)
    BY <1>1, <1>3 DEF LateAppend, LatePromised, TypeOK
  <2>2. AppendToStream(r) /\ UNCHANGED <<journal, local>>
    BY <1>3 DEF LateAppend
  <2> QED
    BY <1>1, <2>1, <2>2, PublishStep, StreamsPub
<1>4. ASSUME NEW k \in Streams, ForeignAppend(k) PROVE PubInv'
  <2>1. Foreign \in Batch
    BY DEF Foreign, Batch
  <2>2. AppendsBatch(k, Foreign) /\ UNCHANGED <<journal, late, local>>
    BY <1>4 DEF ForeignAppend, AppendsBatch
  <2>3. StreamsInv' /\ StreamsGrow
    BY <1>1, <2>1, <2>2, StreamsInvBatch, StreamAppend DEF LatePromised
  <2> QED
    BY <2>2, <2>3, StreamsPub
<1>5. CASE UNCHANGED vars
  <2>1. UNCHANGED <<journal, streams, late, local>>
    BY <1>5 DEF vars, durable
  <2> QED
    BY <1>1, <2>1, StreamsInvQuiet, StreamsKept, StreamsPub DEF LatePromised
<1> QED
  BY <1>2, <1>3, <1>4, <1>5, FaultPub DEF Next

\* With no record and no batch there is nothing to promise.
LEMMA InitPubInv == ASSUME Init PROVE PubInv
<1>1. Len(journal) = 0 /\ \A k \in Streams : Len(streams[k]) = 0
  BY DEF Init
<1>2. StreamsInv
  BY <1>1 DEF Init, StreamsInv, BatchesPromised, BatchesOnce, HintsHold, EventsInv,
              MarkedOnStream, LatePromised
<1>3. HeldInv /\ \A s \in Supervisors : PublisherInv(s)
  BY DEF Init, HeldInv, Holding, PublisherInv
<1> QED
  BY <1>2, <1>3 DEF PubInv

-----------------------------------------------------------------------------
(* The invariant about truncation.                                         *)

\* What was finished stays finished.
LEMMA TruncatedStable ==
  ASSUME TypeOK, Extends, truncated' = truncated, TruncatedInv
  PROVE  TruncatedInv'
<1>0. PICK L \in Nat : L = Len(journal)
  BY Grows
<1>1. /\ L = Len(journal) /\ Len(journal') \in Nat /\ L <= Len(journal')
      /\ \A i \in 1..L : journal'[i] = journal[i]
  BY <1>0, Grows
<1>2. 1..truncated \subseteq 1..L /\ 1..L \subseteq 1..Len(journal')
  BY <1>1 DEF TypeOK
<1>3. ASSUME NEW i \in 1..truncated
      PROVE  \E j \in 1..Len(journal') :
               /\ journal'[j].op = "CommandHandled"
               /\ journal'[j].cmd = journal'[i].cmd
               /\ journal'[j].events # None =>
                    \E m \in 1..Len(journal') :
                      /\ journal'[m].op = "EventsAppended"
                      /\ journal'[m].cmd = journal'[i].cmd
  <2>1. PICK j \in 1..L :
          /\ journal[j].op = "CommandHandled" /\ journal[j].cmd = journal[i].cmd
          /\ journal[j].events # None =>
               \E m \in 1..L :
                 journal[m].op = "EventsAppended" /\ journal[m].cmd = journal[i].cmd
    BY <1>1, <1>3 DEF TruncatedInv, Within
  <2>2. journal'[j] = journal[j] /\ journal'[i] = journal[i] /\ j \in 1..Len(journal')
    BY <1>1, <1>2, <1>3, <2>1
  <2>3. CASE journal[j].events = None
    BY <2>1, <2>2, <2>3
  <2>4. CASE journal[j].events # None
    <3>1. PICK m \in 1..L :
            journal[m].op = "EventsAppended" /\ journal[m].cmd = journal[i].cmd
      BY <2>1, <2>4
    <3>2. m \in 1..Len(journal') /\ journal'[m] = journal[m]
      BY <1>1, <1>2, <3>1
    <3> QED
      BY <2>1, <2>2, <3>1, <3>2
  <2> QED
    BY <2>3, <2>4
<1> QED
  BY <1>3 DEF TruncatedInv, Within

\* A step of supervisor s keeps the invariant about truncation if it keeps what
\* concerns s and what is shared.
LEMMA FinishFrame ==
  ASSUME IInv, FinishInv, NEW s \in Supervisors, Changes(s), Extends,
         TruncatedInv', RemainingInv(s)',
         pc'[s] \in {"recover", "reappend"} => recovering'[s]
  PROVE  FinishInv'
<1>1. ASSUME NEW t \in Supervisors, t # s
      PROVE  /\ pc'[t] = pc[t] /\ journalPos'[t] = journalPos[t]
             /\ unappended'[t] = unappended[t] /\ unhandled'[t] = unhandled[t]
             /\ recovering'[t] = recovering[t] /\ op'[t] = op[t]
  BY <1>1, Parts DEF Changes
<1>2. ASSUME NEW t \in Supervisors, t # s
      PROVE  RemainingInv(t)'
  <2>1. /\ TypeOK /\ journalPos[t] \in 0..Len(journal) /\ RemainingInv(t)
        /\ \A i \in 1..journalPos[t] : journal'[i] = journal[i]
    BY Parts, Grows DEF FinishInv
  <2>2. \A o, c : (\E i \in 1..journalPos[t] :
                     journal'[i].op = o /\ journal'[i].cmd = c)
                  <=> Within(journalPos[t], o, c)
    BY <2>1 DEF Within
  <2>3. ASSUME recovering[t], NEW i \in 1..journalPos[t]
        PROVE  /\ journal'[i].op = "CommandAccepted" =>
                    \/ \E m \in 1..journalPos[t] :
                         /\ journal'[m].op = "CommandHandled"
                         /\ journal'[m].cmd = journal'[i].cmd
                    \/ i \in unhandled[t]
                    \/ /\ pc[t] \in {"add", "handle", "select", "record"}
                       /\ op[t].cmd = journal'[i].cmd
               /\ journal'[i].op = "CommandHandled" /\ journal'[i].events # None =>
                    \/ \E m \in 1..journalPos[t] :
                         /\ journal'[m].op = "EventsAppended"
                         /\ journal'[m].cmd = journal'[i].cmd
                    \/ i \in unappended[t]
                    \/ /\ pc[t] \in {"append", "reappend", "mark"}
                       /\ op[t].cmd = journal'[i].cmd
    <3>1. journal'[i] = journal[i]
      BY <2>1, <2>3
    <3>2. \A o : Within(journalPos[t], o, journal[i].cmd) =>
                   \E m \in 1..journalPos[t] :
                     journal'[m].op = o /\ journal'[m].cmd = journal[i].cmd
      BY <2>2
    <3>3. RemainingInv(t) /\ recovering[t]
      BY <2>1, <2>3
    <3> QED
      BY <3>1, <3>2, <3>3 DEF RemainingInv
  <2>4. pc'[t] = pc[t] /\ op'[t] = op[t] /\ recovering'[t] = recovering[t]
        /\ journalPos'[t] = journalPos[t] /\ unhandled'[t] = unhandled[t]
        /\ unappended'[t] = unappended[t]
    BY <1>1, <1>2
  <2> QED
    BY <2>3, <2>4 DEF RemainingInv, Within
<1>3. \A t \in Supervisors : pc'[t] \in {"recover", "reappend"} => recovering'[t]
  BY <1>1 DEF FinishInv
<1> QED
  BY <1>2, <1>3 DEF FinishInv

\* A step in which supervisor s neither truncates nor recovers afterwards.
LEMMA NotRecovering ==
  ASSUME IInv, FinishInv, NEW s \in Supervisors, Changes(s), Extends,
         truncated' = truncated, recovering'[s] = FALSE,
         pc'[s] \notin {"recover", "reappend"}
  PROVE  FinishInv'
<1>1. TruncatedInv'
  BY TruncatedStable DEF IInv, FinishInv
<1>2. RemainingInv(s)'
  BY DEF RemainingInv
<1> QED
  BY <1>1, <1>2, FinishFrame

\* A step in which supervisor s writes nothing, and the pending operations are
\* those before the step, but for one it takes up or has in its hands already.
LEMMA SameJournal ==
  ASSUME IInv, FinishInv, NEW s \in Supervisors, Changes(s),
         UNCHANGED <<journal, truncated>>, journalPos'[s] = journalPos[s],
         recovering'[s] = recovering[s],
         pc'[s] \in {"recover", "reappend"} => recovering'[s],
         \A i \in unhandled[s] :
           \/ i \in unhandled'[s]
           \/ /\ pc'[s] \in {"add", "handle", "select", "record"}
              /\ op'[s].cmd = journal[i].cmd,
         \A i \in unappended[s] :
           \/ i \in unappended'[s]
           \/ /\ pc'[s] \in {"append", "reappend", "mark"}
              /\ op'[s].cmd = journal[i].cmd,
         pc[s] \in {"add", "handle", "select", "record"} =>
           /\ pc'[s] \in {"add", "handle", "select", "record"}
           /\ op'[s].cmd = op[s].cmd,
         pc[s] \in {"append", "reappend", "mark"} =>
           /\ pc'[s] \in {"append", "reappend", "mark"}
           /\ op'[s].cmd = op[s].cmd
  PROVE  FinishInv'
<1>1. TruncatedInv' /\ Extends
  BY TruncatedStable DEF IInv, FinishInv, Extends
<1>2. RemainingInv(s)'
  <2>1. RemainingInv(s)
    BY DEF FinishInv
  <2>2. \A o, c : Within(journalPos[s], o, c) =>
                    \E i \in 1..journalPos[s] :
                      journal'[i].op = o /\ journal'[i].cmd = c
    BY DEF Within
  <2>3. ASSUME recovering[s], NEW i \in 1..journalPos[s],
               journal[i].op = "CommandAccepted"
        PROVE  \/ Within(journalPos[s], "CommandHandled", journal[i].cmd)
               \/ i \in unhandled'[s]
               \/ /\ pc'[s] \in {"add", "handle", "select", "record"}
                  /\ op'[s].cmd = journal[i].cmd
    BY <2>1, <2>3 DEF RemainingInv
  <2>4. ASSUME recovering[s], NEW i \in 1..journalPos[s],
               journal[i].op = "CommandHandled", journal[i].events # None
        PROVE  \/ Within(journalPos[s], "EventsAppended", journal[i].cmd)
               \/ i \in unappended'[s]
               \/ /\ pc'[s] \in {"append", "reappend", "mark"}
                  /\ op'[s].cmd = journal[i].cmd
    BY <2>1, <2>4 DEF RemainingInv
  <2> QED
    BY <2>2, <2>3, <2>4 DEF RemainingInv, Within
<1> QED
  BY <1>1, <1>2, FinishFrame

-----------------------------------------------------------------------------
(* The invariant about truncation: the actions.                            *)

\* A scan leaves nothing out: what it does not list is finished, or was when it
\* was truncated.
LEMMA RecoverFinish ==
  ASSUME IInv, FinishInv, NEW s \in Supervisors, Recover(s)
  PROVE  FinishInv'
<1> DEFINE L == Len(journal)
<1>1. /\ pc'[s] = "recover" /\ journalPos'[s] = L /\ recovering'[s] = TRUE
      /\ unappended'[s] = {i \in PendingAfterScan("CommandHandled", "EventsAppended") :
                             journal[i].events # None}
      /\ unhandled'[s] = PendingAfterScan("CommandAccepted", "CommandHandled")
      /\ journal' = journal /\ truncated' = truncated
  BY Parts DEF Recover, Goto, durable
<1>2. Changes(s)
  BY <1>1, Parts DEF Recover, Goto, Changes, memory, TypeOK
<1>3. TruncatedInv' /\ Extends
  BY <1>1, TruncatedStable DEF IInv, FinishInv, Extends
<1>4. /\ L \in Nat /\ truncated \in 0..L /\ RecordedOnce
      /\ TruncatedInv
  BY Parts DEF SharedType, JournalInv, FinishInv
<1>5. ASSUME NEW o, NEW next, NEW i \in truncated+1..L, journal[i].op = o,
             i \notin PendingAfterScan(o, next)
      PROVE  Within(L, next, journal[i].cmd)
  <2>1. PICK j \in i+1..L : journal[j].op = next /\ journal[j].cmd = journal[i].cmd
    BY <1>5 DEF PendingAfterScan
  <2>2. j \in 1..L
    BY <1>4, <2>1
  <2> QED
    BY <2>1, <2>2 DEF Within
<1>6. ASSUME NEW i \in 1..L, journal[i].op = "CommandAccepted"
      PROVE  Within(L, "CommandHandled", journal[i].cmd) \/ i \in unhandled'[s]
  <2>1. CASE i <= truncated
    BY <1>4, <2>1 DEF TruncatedInv, Within
  <2>2. CASE i > truncated
    <3>1. i \in truncated+1..L
      BY <1>4, <2>2
    <3>2. \/ i \in PendingAfterScan("CommandAccepted", "CommandHandled")
          \/ Within(L, "CommandHandled", journal[i].cmd)
      BY <1>5, <1>6, <3>1
    <3> QED
      BY <1>1, <3>2
  <2> QED
    BY <1>4, <2>1, <2>2
<1>7. ASSUME NEW i \in 1..L, journal[i].op = "CommandHandled", journal[i].events # None
      PROVE  Within(L, "EventsAppended", journal[i].cmd) \/ i \in unappended'[s]
  <2>1. CASE i <= truncated
    <3>1. PICK j \in 1..L :
            /\ journal[j].op = "CommandHandled" /\ journal[j].cmd = journal[i].cmd
            /\ journal[j].events # None =>
                 Within(L, "EventsAppended", journal[i].cmd)
      BY <1>4, <2>1 DEF TruncatedInv
    <3>2. j = i
      BY <1>4, <1>7, <3>1 DEF RecordedOnce
    <3> QED
      BY <1>7, <3>1, <3>2
  <2>2. CASE i > truncated
    <3>1. i \in truncated+1..L
      BY <1>4, <2>2
    <3>2. \/ i \in PendingAfterScan("CommandHandled", "EventsAppended")
          \/ Within(L, "EventsAppended", journal[i].cmd)
      BY <1>5, <1>7, <3>1
    <3> QED
      BY <1>1, <1>7, <3>2
  <2> QED
    BY <1>4, <2>1, <2>2
<1>8. RemainingInv(s)'
  BY <1>1, <1>6, <1>7 DEF RemainingInv, Within
<1> QED
  BY <1>1, <1>2, <1>3, <1>8, FinishFrame

\* A result leaves the list of a recovering supervisor for its hands, so that it
\* is still among what remains to be done.
LEMMA RecoverHandledFinish ==
  ASSUME IInv, FinishInv, NEW s \in Supervisors, RecoverHandled(s)
  PROVE  FinishInv'
<1>1. PICK i \in unappended[s] :
        /\ unappended' = [unappended EXCEPT ![s] = @ \ {i}]
        /\ op' = [op EXCEPT ![s] = journal[i]]
  BY DEF RecoverHandled
<1>2. /\ pc[s] = "recover" /\ pc'[s] = "reappend" /\ op'[s] = journal[i]
      /\ unappended'[s] = unappended[s] \ {i} /\ unhandled'[s] = unhandled[s]
      /\ journalPos'[s] = journalPos[s] /\ recovering'[s] = recovering[s]
      /\ UNCHANGED <<journal, truncated>>
  BY <1>1, Parts DEF RecoverHandled, Goto, durable
<1>3. Changes(s)
  BY <1>1, <1>2, Parts DEF RecoverHandled, Goto, Changes, memory, TypeOK
<1>4. recovering[s]
  BY <1>2 DEF FinishInv
<1> QED
  BY <1>2, <1>3, <1>4, SameJournal

\* So does a command that was accepted and not handled.
LEMMA RecoverAcceptedFinish ==
  ASSUME IInv, FinishInv, NEW s \in Supervisors, RecoverAccepted(s)
  PROVE  FinishInv'
<1>1. PICK i \in unhandled[s] :
        /\ unhandled' = [unhandled EXCEPT ![s] = @ \ {i}]
        /\ op' = [op EXCEPT ![s] = journal[i]]
  BY DEF RecoverAccepted
<1>2. /\ pc[s] = "recover" /\ pc'[s] = "add" /\ op'[s] = journal[i]
      /\ unhandled'[s] = unhandled[s] \ {i} /\ unappended'[s] = unappended[s]
      /\ journalPos'[s] = journalPos[s] /\ recovering'[s] = recovering[s]
      /\ UNCHANGED <<journal, truncated>>
  BY <1>1, Parts DEF RecoverAccepted, Goto, durable
<1>3. Changes(s)
  BY <1>1, <1>2, Parts DEF RecoverAccepted, Goto, Changes, memory, TypeOK
<1> QED
  BY <1>2, <1>3, SameJournal

\* When nothing is pending every command of the prefix is finished.
LEMMA PrefixIsFinished ==
  ASSUME IInv, FinishInv, NEW s \in Supervisors, pc[s] = "recover",
         unappended[s] = {}, unhandled[s] = {}, NEW i \in 1..journalPos[s]
  PROVE  \E j \in 1..Len(journal) :
           /\ journal[j].op = "CommandHandled" /\ journal[j].cmd = journal[i].cmd
           /\ journal[j].events # None =>
                Within(Len(journal), "EventsAppended", journal[i].cmd)
<1> DEFINE n == journalPos[s]
           c == journal[i].cmd
<1>1. /\ n \in 0..Len(journal) /\ Len(journal) \in Nat
      /\ journal \in Seq(Record) /\ JournalInv
      /\ recovering[s] /\ RemainingInv(s)
  BY Parts DEF FinishInv, SharedType
<1>2. i \in 1..Len(journal) /\ journal[i] \in Record
  BY <1>1
<1>3. \E j \in 1..n : journal[j].op = "CommandHandled" /\ journal[j].cmd = c
  <2>1. CASE journal[i].op = "CommandAccepted"
    BY <1>1, <2>1 DEF RemainingInv, Within
  <2>2. CASE journal[i].op = "CommandHandled"
    BY <2>2
  <2>3. CASE journal[i].op = "EventsAppended"
    <3>1. Within(i - 1, "CommandHandled", c)
      BY <1>1, <1>2, <2>3 DEF JournalInv, Ordered
    <3> QED
      BY <1>1, <3>1 DEF Within
  <2> QED
    BY <1>2, <2>1, <2>2, <2>3 DEF Record
<1>4. PICK j \in 1..n : journal[j].op = "CommandHandled" /\ journal[j].cmd = c
  BY <1>3
<1>5. journal[j].events # None => Within(n, "EventsAppended", c)
  BY <1>1, <1>4 DEF RemainingInv
<1>6. journal[j].events # None => Within(Len(journal), "EventsAppended", c)
  BY <1>1, <1>5 DEF Within
<1> QED
  BY <1>1, <1>4, <1>6

\* A supervisor truncates when its lists and its hands are empty: what it removes
\* is finished, also if the call then fails.
LEMMA TruncateFinish ==
  ASSUME IInv, FinishInv, NEW s \in Supervisors, Truncate(s) \/ TruncateFails(s)
  PROVE  FinishInv'
<1>1. /\ pc[s] = "recover" /\ unappended[s] = {} /\ unhandled[s] = {}
      /\ journal' = journal
      /\ Truncate(s) => pc'[s] = "idle" /\ recovering'[s] = FALSE
  BY Parts DEF Truncate, TruncateFails, Goto
<1>2. Changes(s) /\ pc'[s] \notin {"recover", "reappend"} /\ recovering'[s] = FALSE
  <2>1. CASE Truncate(s)
    BY <1>1, <2>1, Parts DEF Truncate, Goto, Changes, memory, TypeOK
  <2>2. CASE TruncateFails(s)
    <3>1. Return(s) /\ KeepsMemory(s)
      BY <2>2 DEF TruncateFails, KeepsMemory
    <3> QED
      BY <3>1, Returned
  <2> QED
    BY <2>1, <2>2
<1>3. \A i \in 1..truncated' : i \in 1..truncated \/ i \in 1..journalPos[s]
  <2>1. truncated \in Nat /\ journalPos[s] \in Nat
    BY Parts DEF SharedType
  <2>2. CASE Truncate(s)
    BY <2>1, <2>2 DEF Truncate
  <2>3. CASE TruncateFails(s)
    BY <2>1, <2>3 DEF TruncateFails
  <2> QED
    BY <2>2, <2>3
<1>4. TruncatedInv'
  <2>1. ASSUME NEW i \in 1..truncated'
        PROVE  \E j \in 1..Len(journal) :
                 /\ journal[j].op = "CommandHandled" /\ journal[j].cmd = journal[i].cmd
                 /\ journal[j].events # None =>
                      Within(Len(journal), "EventsAppended", journal[i].cmd)
    <3>1. CASE i \in 1..truncated
      BY <3>1 DEF FinishInv, TruncatedInv
    <3>2. CASE i \in 1..journalPos[s]
      BY <1>1, <3>2, PrefixIsFinished
    <3> QED
      BY <1>3, <3>1, <3>2
  <2> QED
    BY <1>1, <2>1 DEF TruncatedInv, Within
<1>5. RemainingInv(s)' /\ Extends
  BY <1>1, <1>2 DEF RemainingInv, Extends
<1> QED
  BY <1>2, <1>4, <1>5, FinishFrame

\* The actions that write nothing and leave the pending operations alone.
LEMMA QuietFinish ==
  ASSUME IInv, FinishInv, NEW s \in Supervisors,
         \/ AddToAccepted(s) \/ HandleCommand(s)
         \/ SelectEventStream(s) \/ AppendEvents(s)
  PROVE  FinishInv'
<1>1. /\ UNCHANGED <<journal, truncated, journalPos, pending>>
      /\ pc[s] \in {"add", "handle", "select", "append", "reappend"}
  BY DEF AddToAccepted, HandleCommand, SelectEventStream, AppendEvents, durable
<1>2. OpOf(s) # "none" /\ op[s] \in Record
  BY <1>1, Parts DEF OpOf
<1>3. /\ op' = [op EXCEPT ![s] = op'[s]] /\ op'[s].cmd = op[s].cmd
      /\ pc' = [pc EXCEPT ![s] = pc'[s]]
      /\ pc[s] \in {"add", "handle", "select"} =>
           pc'[s] \in {"handle", "select", "record"}
      /\ pc[s] \in {"append", "reappend"} => pc'[s] = "mark"
  <2>1. TypeOK
    BY Parts
  <2>2. CASE AddToAccepted(s)
    BY <2>1, <2>2 DEF AddToAccepted, Goto, TypeOK
  <2>3. CASE HandleCommand(s)
    <3>1. PICK e \in (EventIDs \ EventIDsInUse) \cup {None} :
            LET target == IF e = None THEN <<None, 0>>
                          ELSE <<eventStreamID[s], eventOffsetHint[s]>>
            IN  /\ op' = [op EXCEPT ![s] =
                            CommandHandled(@.cmd, e, target[1], target[2])]
                /\ Goto(s, IF e # None /\ eventStreamID[s] = None
                           THEN "select" ELSE "record")
      BY <2>3 DEF HandleCommand
    <3>2. pc[s] = "handle"
      BY <2>3 DEF HandleCommand
    <3> QED
      BY <2>1, <3>1, <3>2 DEF Goto, CommandHandled, TypeOK
  <2>4. CASE SelectEventStream(s)
    <3>1. PICK k \in Streams :
            op' = [op EXCEPT ![s].stream = k, ![s].hint = Len(streams[k])]
      BY <2>4 DEF SelectEventStream
    <3> QED
      BY <1>2, <2>1, <2>4, <3>1 DEF SelectEventStream, Goto, TypeOK, Record
  <2>5. CASE AppendEvents(s)
    BY <2>1, <2>5 DEF AppendEvents, Goto, TypeOK
  <2> QED
    BY <2>2, <2>3, <2>4, <2>5
<1>4. Changes(s)
  <2>1. eventStreamID' = [eventStreamID EXCEPT ![s] = eventStreamID'[s]]
        /\ eventOffsetHint' = [eventOffsetHint EXCEPT ![s] = eventOffsetHint'[s]]
    BY Parts DEF AddToAccepted, HandleCommand, SelectEventStream, AppendEvents,
                 memory, TypeOK
  <2> QED
    BY <1>1, <1>3, <2>1, Parts DEF Changes, pending, TypeOK
<1>5. pc'[s] \in {"handle", "select", "record", "mark"}
  BY <1>1, <1>3
<1>6. /\ unhandled'[s] = unhandled[s] /\ unappended'[s] = unappended[s]
      /\ journalPos'[s] = journalPos[s] /\ recovering'[s] = recovering[s]
  BY <1>1 DEF pending
<1> QED
  BY <1>1, <1>3, <1>4, <1>5, <1>6, SameJournal

\* The record of an operation that recovery took up finishes the command, or
\* leaves its events in the hands of the supervisor.
LEMMA RecordFinish ==
  ASSUME IInv, FinishInv, NEW s \in Supervisors,
         JournalHandled(s) \/ JournalAppended(s)
  PROVE  FinishInv'
<1> DEFINE n == journalPos[s]
           r == ToAppend(s)
<1>1. /\ pc[s] \in {"record", "mark"} /\ AtEnd(s)
      /\ journal' = Append(journal, r)
      /\ UNCHANGED <<truncated, streams, late, pending, memory>>
      /\ journalPos' = [journalPos EXCEPT ![s] = @ + 1]
  BY DEF JournalHandled, JournalAppended, AppendRecord, ToAppend, Advance
<1>2. \/ /\ pc[s] = "record" /\ op[s].events # None
         /\ pc' = [pc EXCEPT ![s] = "append"] /\ op' = op
      \/ Finish(s) /\ (pc[s] = "record" => op[s].events = None)
  BY DEF JournalHandled, JournalAppended, Goto
<1>3. Changes(s)
  BY <1>1, <1>2, Parts DEF Changes, Finish, Goto, pending, memory, TypeOK
<1>4. /\ r \in Record /\ r.cmd = op[s].cmd
      /\ r.op = IF pc[s] = "record" THEN "CommandHandled" ELSE "EventsAppended"
      /\ n = Len(journal)
  BY <1>1, AppendIsNext DEF AtEnd
<1>5. n \in Nat /\ journalPos'[s] = n + 1 /\ recovering'[s] = recovering[s]
      /\ unhandled'[s] = unhandled[s] /\ unappended'[s] = unappended[s]
  BY <1>1, Parts DEF pending
<1>6. /\ \A i \in 1..n : journal'[i] = journal[i]
      /\ journal'[n + 1] = r
  BY <1>1, <1>4, Parts, WithinAppend
<1>7. pc'[s] \in {"recover", "reappend"} => recovering'[s]
  BY <1>1, <1>2, <1>5, Parts DEF Finish, Goto
<1>8. Extends /\ TruncatedInv'
  <2>1. Extends
    BY <1>1, <1>4 DEF Extends
  <2> QED
    BY <1>1, <2>1, TruncatedStable DEF IInv, FinishInv
<1>9. CASE ~recovering[s]
  <2>1. RemainingInv(s)'
    BY <1>5, <1>9 DEF RemainingInv
  <2> QED
    BY <1>3, <1>7, <1>8, <2>1, FinishFrame
<1>10. CASE recovering[s]
  <2>1. RemainingInv(s)
    BY DEF FinishInv
  <2>2. \A o, c : \/ Within(n, o, c)
                  \/ r.op = o /\ r.cmd = c
                  => \E i \in 1..n+1 : journal'[i].op = o /\ journal'[i].cmd = c
    BY <1>5, <1>6 DEF Within
  <2>3. ASSUME NEW i \in 1..n+1, journal'[i].op = "CommandAccepted"
        PROVE  \/ \E j \in 1..n+1 : /\ journal'[j].op = "CommandHandled"
                                    /\ journal'[j].cmd = journal'[i].cmd
               \/ i \in unhandled'[s]
    <3>1. i \in 1..n
      BY <1>1, <1>4, <1>5, <1>6, <2>3
    <3>2. \/ Within(n, "CommandHandled", journal[i].cmd)
          \/ i \in unhandled[s]
          \/ pc[s] = "record" /\ op[s].cmd = journal[i].cmd
      BY <1>1, <1>6, <1>10, <2>1, <2>3, <3>1 DEF RemainingInv
    <3> QED
      BY <1>4, <1>5, <1>6, <2>2, <3>1, <3>2
  <2>4. ASSUME NEW i \in 1..n+1, journal'[i].op = "CommandHandled",
               journal'[i].events # None
        PROVE  \/ \E j \in 1..n+1 : /\ journal'[j].op = "EventsAppended"
                                    /\ journal'[j].cmd = journal'[i].cmd
               \/ i \in unappended'[s]
               \/ pc'[s] = "append" /\ op'[s].cmd = journal'[i].cmd
    <3>1. CASE i \in 1..n
      <4>1. \/ Within(n, "EventsAppended", journal[i].cmd)
            \/ i \in unappended[s]
            \/ pc[s] = "mark" /\ op[s].cmd = journal[i].cmd
        BY <1>1, <1>6, <1>10, <2>1, <2>4, <3>1 DEF RemainingInv
      <4> QED
        BY <1>4, <1>5, <1>6, <2>2, <3>1, <4>1
    <3>2. CASE i = n + 1
      <4>1. pc[s] = "record" /\ r = op[s]
        BY <1>1, <1>4, <1>6, <2>4, <3>2 DEF ToAppend
      <4>2. pc'[s] = "append" /\ op'[s] = op[s]
        BY <1>2, <1>6, <2>4, <3>2, <4>1, Parts
      <4> QED
        BY <1>6, <3>2, <4>1, <4>2
    <3> QED
      BY <1>5, <3>1, <3>2
  <2>5. RemainingInv(s)'
    BY <1>5, <2>3, <2>4 DEF RemainingInv, Within
  <2> QED
    BY <1>3, <1>7, <1>8, <2>5, FinishFrame
<1> QED
  BY <1>9, <1>10

\* A supervisor accepts commands only once it has recovered.
LEMMA AcceptFinish ==
  ASSUME IInv, FinishInv, NEW s \in Supervisors,
         JournalAccepted(s) \/ \E c \in Commands : AcceptCommand(s, c)
  PROVE  FinishInv'
<1>1. /\ pc[s] \in {"idle", "accept"} /\ UNCHANGED <<truncated, pending, memory>>
      /\ \/ pc' = pc
         \/ pc' = [pc EXCEPT ![s] = "accept"]
         \/ pc' = [pc EXCEPT ![s] = "add"]
      /\ op' = op \/ \E q : op' = [op EXCEPT ![s] = q]
      /\ journalPos' = journalPos \/ journalPos' = [journalPos EXCEPT ![s] = @ + 1]
  BY DEF JournalAccepted, AcceptCommand, Goto, Advance, durable
<1>2. Changes(s)
  BY <1>1, Parts DEF Changes, pending, memory, TypeOK
<1>3. recovering'[s] = FALSE /\ pc'[s] \in {"idle", "accept", "add"}
  BY <1>1, Parts DEF PendingInv, pending, LocalType
<1>4. Extends
  <2>1. CASE JournalAccepted(s)
    <3>1. /\ pc[s] = "accept" /\ AtEnd(s) /\ journal' = Append(journal, ToAppend(s))
      BY <2>1 DEF JournalAccepted, AppendRecord, ToAppend
    <3> QED
      BY <3>1, AppendIsNext DEF Extends
  <2>2. CASE journal' = journal
    BY <2>2 DEF Extends
  <2> QED
    BY <2>1, <2>2 DEF AcceptCommand, durable
<1> QED
  BY <1>1, <1>2, <1>3, <1>4, NotRecovering

\* A supervisor that fails or dies loses its lists, and recovers before it
\* truncates.
LEMMA FaultFinish ==
  ASSUME IInv, FinishInv, NEW s \in Supervisors, Fault(s)
  PROVE  FinishInv'
<1>1. CASE TruncateFails(s)
  BY <1>1, TruncateFinish
<1>2. CASE ~TruncateFails(s)
  <2>1. /\ Return(s) /\ KeepsMemory(s) /\ truncated' = truncated
    BY <1>2 DEF Fault, Stop, Fail, Conflict, Crash, JournalFailsAfterAppend,
                AddFailsAfterAdd, AppendFailsAfterAppend, durable, KeepsMemory
  <2>2. Extends
    <3>1. CASE JournalFailsAfterAppend(s)
      <4>1. /\ pc[s] \in {"accept", "record", "mark"} /\ AtEnd(s)
            /\ journal' = Append(journal, ToAppend(s))
        BY <3>1 DEF JournalFailsAfterAppend, AppendRecord, ToAppend
      <4> QED
        BY <4>1, AppendIsNext DEF Extends
    <3>2. CASE ~JournalFailsAfterAppend(s)
      BY <1>2, <3>2 DEF Fault, Stop, Fail, Conflict, Crash, AddFailsAfterAdd,
                        AppendFailsAfterAppend, durable, Extends
    <3> QED
      BY <3>1, <3>2
  <2> QED
    BY <2>1, <2>2, Returned, NotRecovering
<1> QED
  BY <1>1, <1>2

\* Every step keeps the invariant of truncation.
LEMMA NextKeepsFinishInv ==
  ASSUME IInv, FinishInv, [Next]_vars
  PROVE  FinishInv'
<1>1. ASSUME NEW s \in Supervisors, Step(s) PROVE FinishInv'
  BY <1>1, RecoverFinish, RecoverHandledFinish, RecoverAcceptedFinish,
     TruncateFinish, QuietFinish, RecordFinish, AcceptFinish DEF Step
<1>2. ASSUME UNCHANGED <<journal, truncated, local>> PROVE FinishInv'
  <2>1. UNCHANGED <<pc, journalPos, unhandled, unappended, recovering, op>>
    BY <1>2 DEF local, pending
  <2> QED
    BY <1>2, <2>1 DEF FinishInv, TruncatedInv, RemainingInv, Within
<1>3. ASSUME UNCHANGED vars PROVE UNCHANGED <<journal, truncated, local>>
  BY <1>3 DEF vars, durable
<1>4. ASSUME NEW r \in late, LateAppend(r) PROVE UNCHANGED <<journal, truncated, local>>
  BY <1>4 DEF LateAppend
<1>5. ASSUME NEW k \in Streams, ForeignAppend(k)
      PROVE  UNCHANGED <<journal, truncated, local>>
  BY <1>5 DEF ForeignAppend
<1> QED
  BY <1>1, <1>2, <1>3, <1>4, <1>5, FaultFinish DEF Next

\* Nothing is truncated at first, and nobody recovers.
LEMMA InitFinishInv == ASSUME Init PROVE FinishInv
BY DEF Init, FinishInv, TruncatedInv, RemainingInv

-----------------------------------------------------------------------------
(* The theorems.                                                           *)

\* The invariants on which the theorems below rest.
THEOREM Publication == Spec => [](IInv /\ PubInv /\ FinishInv)
<1>1. Init => IInv /\ PubInv /\ FinishInv
  BY InitIInv, InitPubInv, InitFinishInv
<1>2. IInv /\ PubInv /\ FinishInv /\ [Next]_vars => (IInv /\ PubInv /\ FinishInv)'
  BY NextKeepsIInv, NextKeepsPubInv, NextKeepsFinishInv
<1> QED
  BY <1>1, <1>2, PTL DEF Spec

\* A batch of command c is on the stream its CommandHandled record names.
LEMMA BatchesOfCommand ==
  ASSUME TypeOK, PubInv, NEW c \in Commands, NEW p \in BatchesOf(c)
  PROVE  /\ p = <<p[1], p[2]>>
         /\ p[1] \in Streams /\ p[2] \in 1..Len(streams[p[1]])
         /\ \E i \in 1..Len(journal) :
              /\ journal[i].op = "CommandHandled" /\ journal[i].cmd = c
              /\ journal[i].events # None /\ journal[i].stream = p[1]
              /\ streams[p[1]][p[2]] = [cmd |-> c, id |-> journal[i].events]
<1>1. PICK k \in Streams : p \in {k} \X (1..Len(streams[k]))
  BY DEF BatchesOf
<1>2. p = <<p[1], p[2]>> /\ p[1] = k /\ p[2] \in 1..Len(streams[k])
  BY <1>1
<1>3. streams[k][p[2]].cmd = c
  BY <1>2 DEF BatchesOf
<1>4. streams[k][p[2]] # Foreign
  BY <1>3, ConstantsAssumption DEF Foreign
<1>5. PICK i \in 1..Len(journal) :
        /\ journal[i].events # None /\ journal[i].stream = k
        /\ streams[k][p[2]] = BatchOf(journal[i])
  BY <1>2, <1>4 DEF PubInv, StreamsInv, BatchesPromised
<1>6. journal[i].op = "CommandHandled" /\ journal[i].cmd = c
  BY <1>3, <1>5 DEF BatchOf, PubInv, StreamsInv, EventsInv
<1> QED
  BY <1>2, <1>5, <1>6 DEF BatchOf

\* The batch of a record is one of the batches of its command.
LEMMA OnStreamIsBatch ==
  ASSUME NEW r \in Record, r.stream \in Streams, OnStream(r)
  PROVE  BatchesOf(r.cmd) # {}
<1>1. PICK n \in 1..Len(streams[r.stream]) : streams[r.stream][n] = BatchOf(r)
  BY DEF OnStream
<1> DEFINE p == <<r.stream, n>>
<1>2. p \in {r.stream} \X (1..Len(streams[r.stream]))
  BY <1>1
<1>3. p \in UNION {{k} \X (1..Len(streams[k])) : k \in Streams}
  BY <1>2
<1>4. streams[p[1]][p[2]].cmd = r.cmd
  BY <1>1 DEF BatchOf
<1> QED
  BY <1>3, <1>4 DEF BatchesOf

\* The events of a command take one place on one stream, whatever appends are
\* repeated, by whichever supervisor and however late.
THEOREM NeverPublishedTwice == Spec => []PublishedOnce
<1>1. IInv /\ PubInv => PublishedOnce
  <2> SUFFICES ASSUME IInv, PubInv, NEW c \in Commands,
                      NEW p \in BatchesOf(c), NEW q \in BatchesOf(c)
               PROVE  p = q
    BY DEF PublishedOnce
  <2>1. TypeOK /\ RecordedOnce
    BY DEF IInv, JournalInv
  <2>2. PICK i \in 1..Len(journal) :
          /\ journal[i].op = "CommandHandled" /\ journal[i].cmd = c
          /\ journal[i].events # None /\ journal[i].stream = p[1]
          /\ streams[p[1]][p[2]] = [cmd |-> c, id |-> journal[i].events]
    BY <2>1, BatchesOfCommand
  <2>3. PICK j \in 1..Len(journal) :
          /\ journal[j].op = "CommandHandled" /\ journal[j].cmd = c
          /\ journal[j].events # None /\ journal[j].stream = q[1]
          /\ streams[q[1]][q[2]] = [cmd |-> c, id |-> journal[j].events]
    BY <2>1, BatchesOfCommand
  <2>4. i = j
    BY <2>1, <2>2, <2>3 DEF RecordedOnce
  <2>5. /\ p = <<p[1], p[2]>> /\ q = <<q[1], q[2]>>
        /\ p[1] \in Streams /\ p[2] \in 1..Len(streams[p[1]])
        /\ q[1] \in Streams /\ q[2] \in 1..Len(streams[q[1]])
    BY <2>1, BatchesOfCommand
  <2>6. p[1] = q[1] /\ streams[p[1]][p[2]].id = streams[p[1]][q[2]].id
        /\ streams[p[1]][p[2]].id # None
    BY <2>2, <2>3, <2>4
  <2>7. p[2] = q[2]
    BY <2>5, <2>6 DEF PubInv, StreamsInv, BatchesOnce
  <2> QED
    BY <2>5, <2>6, <2>7
<1> QED
  BY <1>1, Publication, PTL

\* A command marked as done in the journal has its events on the stream chosen
\* for them.
THEOREM MarkedIsPublished == Spec => []AppendedIsPublished
<1>1. PubInv => AppendedIsPublished
  <2> SUFFICES ASSUME PubInv, NEW i \in 1..Len(journal), NEW j \in 1..Len(journal),
                      journal[i].op = "CommandHandled",
                      journal[j].op = "EventsAppended",
                      journal[i].cmd = journal[j].cmd
               PROVE  \E n \in 1..Len(streams[journal[i].stream]) :
                        streams[journal[i].stream][n].id = journal[i].events
    BY DEF AppendedIsPublished
  <2>1. OnStream(journal[i])
    BY DEF PubInv, StreamsInv, MarkedOnStream
  <2> QED
    BY <2>1 DEF OnStream, BatchOf
<1> QED
  BY <1>1, Publication, PTL

\* A search for a batch may start at the hint of its record and will not miss it.
THEOREM HintIsLowerBound == Spec => []OffsetHintIsLowerBound
<1>1. IInv /\ PubInv => OffsetHintIsLowerBound
  <2> SUFFICES ASSUME IInv, PubInv PROVE OffsetHintIsLowerBound
    OBVIOUS
  <2>1. \A i \in 1..Len(journal) : journal[i].events # None =>
          \A n \in 1..Len(streams[journal[i].stream]) :
            streams[journal[i].stream][n].id = journal[i].events =>
              journal[i].hint < n
    BY DEF PubInv, StreamsInv, HintsHold, HintHolds
  <2>2. \A s \in Supervisors : pc[s] = "record" /\ op[s].events # None =>
          op[s].hint <= Len(streams[op[s].stream])
    BY DEF PubInv, PublisherInv
  <2> QED
    BY <2>1, <2>2 DEF OffsetHintIsLowerBound
<1> QED
  BY <1>1, Publication, PTL

\* What recovery truncates nobody needs: the command was handled, its events are
\* on their stream, and the set remembers it.
THEOREM TruncatedIsFinished == Spec => []TruncatedIsDone
<1>1. IInv /\ PubInv /\ FinishInv => TruncatedIsDone
  <2> SUFFICES ASSUME IInv, PubInv, FinishInv, NEW i \in 1..truncated
               PROVE  Done(journal[i].cmd) /\ journal[i].cmd \in accepted
    BY DEF TruncatedIsDone
  <2> DEFINE c == journal[i].cmd
  <2>1. /\ truncated \in 0..Len(journal) /\ Len(journal) \in Nat
        /\ journal \in Seq(Record)
    BY DEF IInv, TypeOK
  <2>2. i \in 1..Len(journal)
    BY <2>1
  <2>3. c \in accepted
    BY <2>2 DEF IInv, JournalInv, SetIsBehind
  <2>4. PICK j \in 1..Len(journal) :
          /\ journal[j].op = "CommandHandled" /\ journal[j].cmd = c
          /\ journal[j].events # None => Within(Len(journal), "EventsAppended", c)
    BY DEF FinishInv, TruncatedInv
  <2>5. ASSUME journal[j].events # None
        PROVE  BatchesOf(c) # {}
    <3>1. PICK m \in 1..Len(journal) :
            journal[m].op = "EventsAppended" /\ journal[m].cmd = c
      BY <2>4, <2>5 DEF Within
    <3>2. OnStream(journal[j])
      BY <2>4, <3>1 DEF PubInv, StreamsInv, MarkedOnStream
    <3>3. journal[j] \in Record /\ journal[j].stream \in Streams
      BY <2>1, <2>5 DEF IInv, RecordsAddressed, Addressed
    <3> QED
      BY <2>4, <3>2, <3>3, OnStreamIsBatch
  <2>6. Done(c)
    BY <2>4, <2>5 DEF Done
  <2> QED
    BY <2>3, <2>6
<1> QED
  BY <1>1, Publication, PTL


-----------------------------------------------------------------------------
(* What a step does to the abstract state.                                 *)

\* An abstract step, or none.
Simulates ==
  \/ Lifecycle!Next
  \/ UNCHANGED <<AcceptedCommands, acked, Outcomes, Publications,
                 ForgottenCommands>>

\* The journal and its truncation decide on three parts of the abstract state.
LEMMA JournalPart ==
  ASSUME journal' = journal, truncated' = truncated
  PROVE  UNCHANGED <<AcceptedCommands, Outcomes, ForgottenCommands>>
BY DEF AcceptedCommands, Recorded, Outcomes, ForgottenCommands

\* The streams decide on the fourth.
LEMMA StreamsPart ==
  ASSUME streams' = streams
  PROVE  UNCHANGED Publications
BY DEF Publications, BatchesOf

\* The places of the commands' batches.
Placed(x) ==
  \E k \in Streams : \E n \in 1..Len(streams[k]) :
    streams[k][n].cmd \in Commands
    /\ x = <<streams[k][n].cmd, streams[k][n].id, <<k, n>>>>

AllPlaced == \A x : x \in Publications <=> Placed(x)

\* The publications of the abstract specification are the places on streams that
\* hold a batch of a command.
LEMMA PublicationPlaces == AllPlaced
<1>1. ASSUME NEW x \in Publications
      PROVE  \E k \in Streams : \E n \in 1..Len(streams[k]) :
               streams[k][n].cmd \in Commands
               /\ x = <<streams[k][n].cmd, streams[k][n].id, <<k, n>>>>
  <2>1. PICK c \in Commands : \E p \in BatchesOf(c) :
          x = <<streams[p[1]][p[2]].cmd, streams[p[1]][p[2]].id, p>>
    BY <1>1 DEF Publications
  <2>2. PICK p \in BatchesOf(c) :
          x = <<streams[p[1]][p[2]].cmd, streams[p[1]][p[2]].id, p>>
    BY <2>1
  <2>3. PICK k \in Streams : p \in {k} \X (1..Len(streams[k]))
    BY DEF BatchesOf
  <2>4. p = <<k, p[2]>> /\ p[1] = k /\ p[2] \in 1..Len(streams[k])
    BY <2>3
  <2>5. streams[k][p[2]].cmd = c
    BY <2>4 DEF BatchesOf
  <2> QED
    BY <2>2, <2>4, <2>5
<1>2. ASSUME NEW k \in Streams, NEW n \in 1..Len(streams[k]),
             streams[k][n].cmd \in Commands
      PROVE  <<streams[k][n].cmd, streams[k][n].id, <<k, n>>>> \in Publications
  <2> DEFINE p == <<k, n>>
  <2>1. p[1] = k /\ p[2] = n /\ p \in {k} \X (1..Len(streams[k]))
    OBVIOUS
  <2>2. p \in BatchesOf(streams[k][n].cmd)
    BY <2>1 DEF BatchesOf
  <2> QED
    BY <1>2, <2>1, <2>2 DEF Publications
<1> QED
  BY <1>1, <1>2 DEF AllPlaced, Placed

\* The places, before and after a step.
LEMMA PlacesNow == AllPlaced /\ AllPlaced'
BY PublicationPlaces, PTL

\* A batch of another producer is none of the commands'.
LEMMA ForeignIsNoPublication ==
  ASSUME TypeOK, NEW k \in Streams, AppendsBatch(k, Foreign)
  PROVE  UNCHANGED Publications
<1>1. Foreign \in Batch /\ Foreign.cmd \notin Commands
  BY ConstantsAssumption DEF Foreign, Batch
<1>2. /\ Len(streams[k]) \in Nat /\ Len(streams'[k]) = Len(streams[k]) + 1
      /\ \A n \in 1..Len(streams[k]) : streams'[k][n] = streams[k][n]
      /\ streams'[k][Len(streams[k]) + 1] = Foreign
      /\ \A j \in Streams : j # k => streams'[j] = streams[j]
  BY <1>1, StreamAppend
<1> DEFINE L == Len(streams[k])
<1>3. ASSUME NEW j \in Streams, NEW n \in 1..Len(streams'[j]),
             streams'[j][n].cmd \in Commands
      PROVE  n \in 1..Len(streams[j]) /\ streams'[j][n] = streams[j][n]
  <2>1. CASE j # k
    BY <1>2, <2>1
  <2>2. CASE j = k
    <3>1. n # L + 1
      BY <1>1, <1>2, <1>3, <2>2
    <3>2. n \in 1..L
      BY <1>2, <2>2, <3>1
    <3> QED
      BY <1>2, <2>2, <3>2
  <2> QED
    BY <2>1, <2>2
<1>4. ASSUME NEW j \in Streams, NEW n \in 1..Len(streams[j])
      PROVE  n \in 1..Len(streams'[j]) /\ streams'[j][n] = streams[j][n]
  BY <1>2
<1> HIDE DEF L
<1>5. \A x : Placed(x)' <=> Placed(x)
  BY <1>3, <1>4 DEF Placed
<1> QED
  BY <1>5, PlacesNow DEF AllPlaced

\* A promised batch is published, or was published before.
LEMMA PublishSimulates ==
  ASSUME IInv, PubInv, NEW r \in Record, Promised(r), AppendToStream(r),
         journal' = journal, truncated' = truncated, acked' = acked
  PROVE  Simulates
<1>1. /\ TypeOK /\ RecordsAddressed /\ RecordedOnce
      /\ StreamsInv /\ HintsHold /\ BatchesPromised /\ EventsInv
  BY DEF IInv, JournalInv, PubInv, StreamsInv
<1>2. PICK i \in 1..Len(journal) : journal[i] = r
  BY DEF Promised
<1>3. /\ r.events \in EventIDs /\ r.events # None /\ r.stream \in Streams
      /\ r.cmd \in Commands /\ r.op = "CommandHandled" /\ BatchOf(r) \in Batch
      /\ HintHolds(r) /\ r.hint \in Nat
  BY <1>1, <1>2 DEF Promised, RecordsAddressed, Addressed, BatchOf, Batch, Record,
                    HintsHold, EventsInv
<1>4. CASE PriorAttempts(r) # {}
  BY <1>4, JournalPart, StreamsPart DEF AppendToStream, Simulates
<1>5. CASE PriorAttempts(r) = {}
  <2> DEFINE c == r.cmd
             e == r.events
             k == r.stream
  <2>1. AppendsBatch(k, BatchOf(r))
    BY <1>5 DEF AppendToStream, AppendsBatch, BatchOf
  <2>0. PICK L \in Nat : L = Len(streams[k])
    BY <1>1, <1>3, <2>1, StreamAppend
  <2> DEFINE q == <<c, e, <<k, L + 1>>>>
  <2>2. /\ L = Len(streams[k]) /\ Len(streams'[k]) = L + 1
        /\ \A n \in 1..L : streams'[k][n] = streams[k][n]
        /\ streams'[k][L + 1] = BatchOf(r)
        /\ \A j \in Streams : j # k => streams'[j] = streams[j]
    BY <1>1, <1>3, <2>0, <2>1, StreamAppend
  <2>3. <<c, e>> \in Outcomes
    BY <1>2, <1>3 DEF Outcomes
  <2>4. ASSUME NEW x \in Publications, x[1] = c
        PROVE  FALSE
    <3>1. Placed(x)
      BY <2>4, PlacesNow DEF AllPlaced
    <3>0. PICK j \in Streams : \E n \in 1..Len(streams[j]) : streams[j][n].cmd = c
      BY <2>4, <3>1 DEF Placed
    <3>2. PICK n \in 1..Len(streams[j]) : streams[j][n].cmd = c
      BY <3>0
    <3>3. streams[j][n] # Foreign
      BY <1>3, <3>2, ConstantsAssumption DEF Foreign
    <3>4. PICK m \in 1..Len(journal) :
            /\ journal[m].events # None /\ journal[m].stream = j
            /\ streams[j][n] = BatchOf(journal[m])
      BY <1>1, <3>3 DEF BatchesPromised
    <3>5. m = i
      <4>1. journal[m].op = "CommandHandled" /\ journal[m].cmd = c
        BY <1>1, <3>2, <3>4 DEF EventsInv, BatchOf
      <4> QED
        BY <1>1, <1>2, <1>3, <4>1 DEF RecordedOnce
    <3>6. j = k /\ streams[k][n].id = e
      BY <1>2, <3>4, <3>5 DEF BatchOf
    <3>7. r.hint < n
      BY <1>3, <3>6 DEF HintHolds
    <3>8. n > r.hint
      BY <1>3, <3>7
    <3> QED
      BY <1>5, <3>6, <3>8 DEF PriorAttempts
  <2>5. Publications' = Publications \cup {q}
    <3>1. ASSUME NEW x, Placed(x) PROVE Placed(x)'
      <4>0. PICK j \in Streams : \E n \in 1..Len(streams[j]) :
              streams[j][n].cmd \in Commands
              /\ x = <<streams[j][n].cmd, streams[j][n].id, <<j, n>>>>
        BY <3>1 DEF Placed
      <4>1. PICK n \in 1..Len(streams[j]) :
              streams[j][n].cmd \in Commands
              /\ x = <<streams[j][n].cmd, streams[j][n].id, <<j, n>>>>
        BY <4>0
      <4>2. CASE j = k
        <5>1. n \in 1..L
          BY <2>0, <4>1, <4>2
        <5>2. n \in 1..Len(streams'[k]) /\ streams'[k][n] = streams[k][n]
          BY <2>0, <2>2, <5>1
        <5> QED
          BY <4>1, <4>2, <5>2 DEF Placed
      <4>3. CASE j # k
        <5>1. streams'[j] = streams[j]
          BY <2>2, <4>3
        <5> QED
          BY <4>1, <5>1 DEF Placed
      <4> QED
        BY <4>2, <4>3
    <3>2. Placed(q)'
      <4>1. L + 1 \in 1..Len(streams'[k])
        BY <2>2
      <4>2. streams'[k][L + 1].cmd = c /\ streams'[k][L + 1].id = e
        BY <2>2 DEF BatchOf
      <4> QED
        BY <1>3, <4>1, <4>2 DEF Placed
    <3>3. ASSUME NEW x, Placed(x)' PROVE Placed(x) \/ x = q
      <4>0. PICK j \in Streams : \E n \in 1..Len(streams'[j]) :
              streams'[j][n].cmd \in Commands
              /\ x = <<streams'[j][n].cmd, streams'[j][n].id, <<j, n>>>>
        BY <3>3 DEF Placed
      <4>1. PICK n \in 1..Len(streams'[j]) :
              streams'[j][n].cmd \in Commands
              /\ x = <<streams'[j][n].cmd, streams'[j][n].id, <<j, n>>>>
        BY <4>0
      <4>2. CASE j = k /\ n = L + 1
        BY <2>2, <4>1, <4>2 DEF BatchOf
      <4>3. CASE ~(j = k /\ n = L + 1)
        <5>1. n \in 1..Len(streams[j]) /\ streams'[j][n] = streams[j][n]
          BY <2>2, <4>3
        <5> QED
          BY <4>1, <5>1 DEF Placed
      <4> QED
        BY <4>2, <4>3
    <3> HIDE DEF q
    <3> QED
      BY <3>1, <3>2, <3>3, PlacesNow DEF AllPlaced
  <2>6. q \in Publications' /\ q[1] = c /\ q[2] = e
    BY <2>5
  <2>7. Lifecycle!Publish(c, e)
    <3> HIDE DEF q, k
    <3> QED
      BY <1>3, <2>3, <2>4, <2>5, <2>6, JournalPart DEF Lifecycle!Publish
  <2> QED
    BY <1>3, <2>7 DEF Lifecycle!Next, Simulates
<1> QED
  BY <1>4, <1>5

\* What one more record of the journal does to the abstract state.
LEMMA RecordPart ==
  ASSUME TypeOK, NEW r \in Record, journal' = Append(journal, r), truncated' = truncated
  PROVE  /\ AcceptedCommands' = IF r.op = "CommandAccepted"
                                THEN AcceptedCommands \cup {r.cmd}
                                ELSE AcceptedCommands
         /\ Outcomes' = IF r.op = "CommandHandled"
                        THEN Outcomes \cup {<<r.cmd, r.events>>} ELSE Outcomes
         /\ ForgottenCommands' = ForgottenCommands
<1>0. PICK L \in Nat : L = Len(journal)
  BY WithinAppend
<1>1. /\ L = Len(journal) /\ Len(journal') = L + 1
      /\ \A i \in 1..L : journal'[i] = journal[i]
      /\ journal'[L + 1] = r
  BY <1>0, WithinAppend
<1>2. /\ \A i \in 1..L+1 : i \in 1..L \/ i = L + 1
      /\ 1..L \subseteq 1..L+1 /\ L + 1 \in 1..L+1
      /\ 1..truncated \subseteq 1..L
      /\ r.cmd \in Commands
  BY <1>1 DEF TypeOK, Record
<1>3. \A c : Recorded("CommandAccepted", c)' <=>
        Recorded("CommandAccepted", c) \/ (r.op = "CommandAccepted" /\ r.cmd = c)
  BY <1>1, <1>2 DEF Recorded
<1>4. AcceptedCommands' = IF r.op = "CommandAccepted"
                          THEN AcceptedCommands \cup {r.cmd}
                          ELSE AcceptedCommands
  BY <1>2, <1>3 DEF AcceptedCommands
<1>5. \A x : x \in Outcomes' <=>
        x \in Outcomes \/ (r.op = "CommandHandled" /\ x = <<r.cmd, r.events>>)
  <2>1. ASSUME NEW x \in Outcomes PROVE x \in Outcomes'
    <3>1. PICK i \in 1..L : journal[i].op = "CommandHandled"
                            /\ x = <<journal[i].cmd, journal[i].events>>
      BY <1>1 DEF Outcomes
    <3>2. i \in 1..Len(journal') /\ journal'[i] = journal[i]
      BY <1>1, <1>2
    <3> QED
      BY <3>1, <3>2 DEF Outcomes
  <2>2. r.op = "CommandHandled" => <<r.cmd, r.events>> \in Outcomes'
    BY <1>1, <1>2 DEF Outcomes
  <2>3. ASSUME NEW x \in Outcomes'
        PROVE  x \in Outcomes \/ (r.op = "CommandHandled" /\ x = <<r.cmd, r.events>>)
    <3>1. PICK i \in 1..L+1 : journal'[i].op = "CommandHandled"
                              /\ x = <<journal'[i].cmd, journal'[i].events>>
      BY <1>1 DEF Outcomes
    <3>2. CASE i \in 1..L
      BY <1>1, <3>1, <3>2 DEF Outcomes
    <3>3. CASE i = L + 1
      BY <1>1, <3>1, <3>3
    <3> QED
      BY <1>2, <3>2, <3>3
  <2> QED
    BY <2>1, <2>2, <2>3
<1>6. ForgottenCommands' = ForgottenCommands
  <2>1. \A i \in 1..truncated : journal'[i] = journal[i]
    BY <1>1, <1>2
  <2> QED
    BY <2>1 DEF ForgottenCommands
<1> QED
  BY <1>4, <1>5, <1>6

\* A record is the acceptance of a command, its outcome, or a mark that the
\* abstract state does not show.  The executor is told of an acceptance with its
\* record or later.
LEMMA RecordSimulates ==
  ASSUME IInv, PubInv, NEW s \in Supervisors, pc[s] \in {"accept", "record", "mark"},
         AtEnd(s), journal' = Append(journal, ToAppend(s)),
         streams' = streams, truncated' = truncated,
         acked' = acked \/ (pc[s] = "accept" /\ acked' = acked \cup {op[s].cmd})
  PROVE  Simulates
<1> DEFINE r == ToAppend(s)
           c == r.cmd
<1>1. /\ r \in Record /\ NextRecord(r) /\ r.cmd = op[s].cmd
      /\ r.op = IF pc[s] = "accept" THEN "CommandAccepted"
                ELSE IF pc[s] = "record" THEN "CommandHandled"
                ELSE "EventsAppended"
      /\ journal' = Append(journal, r)
  BY AppendIsNext
<1>2. TypeOK /\ c \in Commands /\ r.events \in EventIDs \cup {None}
  BY <1>1 DEF IInv, Record
<1>3. \A o : Within(Len(journal), o, c) <=> Recorded(o, c)
  BY DEF Within, Recorded
<1> HIDE DEF r
<1>4. /\ AcceptedCommands' = IF r.op = "CommandAccepted"
                             THEN AcceptedCommands \cup {c} ELSE AcceptedCommands
      /\ Outcomes' = IF r.op = "CommandHandled"
                     THEN Outcomes \cup {<<c, r.events>>} ELSE Outcomes
      /\ ForgottenCommands' = ForgottenCommands
      /\ Publications' = Publications
  BY <1>1, <1>2, RecordPart, StreamsPart
<1>5. CASE pc[s] = "accept"
  <2>1. c \notin AcceptedCommands
    BY <1>1, <1>3, <1>5 DEF NextRecord, AcceptedCommands
  <2>2. acked' \in {acked, acked \cup {c}}
    BY <1>1
  <2>3. Lifecycle!Accept(c)
    BY <1>1, <1>4, <1>5, <2>1, <2>2 DEF Lifecycle!Accept
  <2> QED
    BY <1>2, <2>3 DEF Lifecycle!Next, Simulates
<1>6. CASE pc[s] = "record"
  <2>1. c \in AcceptedCommands
    BY <1>1, <1>2, <1>3, <1>6 DEF NextRecord, AcceptedCommands
  <2>2. ~Lifecycle!Decided(c)
    <3>1. ~Recorded("CommandHandled", c)
      BY <1>1, <1>3, <1>6 DEF NextRecord
    <3> QED
      BY <3>1 DEF Lifecycle!Decided, Outcomes, Recorded
  <2>3. Lifecycle!Decide(c, r.events)
    BY <1>1, <1>4, <1>6, <2>1, <2>2 DEF Lifecycle!Decide
  <2> QED
    BY <1>2, <2>3 DEF Lifecycle!Next, Simulates
<1>7. CASE pc[s] = "mark"
  BY <1>1, <1>4, <1>7 DEF Simulates
<1> QED
  BY <1>5, <1>6, <1>7

\* What is truncated is forgotten, and finished.
LEMMA TruncateSimulates ==
  ASSUME IInv, PubInv, FinishInv, (IInv /\ PubInv /\ FinishInv)',
         truncated <= truncated',
         journal' = journal, streams' = streams, acked' = acked
  PROVE  Simulates
<1>1. UNCHANGED <<AcceptedCommands, Outcomes, Publications>>
  BY StreamsPart DEF AcceptedCommands, Recorded, Outcomes
<1>2. /\ truncated \in Nat /\ truncated' \in 0..Len(journal)
      /\ Len(journal) \in Nat /\ journal \in Seq(Record)
  BY DEF IInv, TypeOK
<1> DEFINE D == ForgottenCommands'
<1>3. ForgottenCommands \subseteq D
  BY <1>2 DEF ForgottenCommands
<1>4. D \in SUBSET Commands
  <2>1. \A i \in 1..truncated' : journal[i] \in Record
    BY <1>2
  <2> QED
    BY <2>1 DEF ForgottenCommands, Record
<1>5. ASSUME NEW c \in D
      PROVE  Lifecycle!Finished(c)
  <2>1. PICK i \in 1..truncated' : journal[i].cmd = c
    BY DEF ForgottenCommands
  <2>2. PICK j \in 1..Len(journal) :
          /\ journal[j].op = "CommandHandled" /\ journal[j].cmd = c
          /\ journal[j].events # None =>
               \E m \in 1..Len(journal) :
                 journal[m].op = "EventsAppended" /\ journal[m].cmd = c
    BY <2>1 DEF FinishInv, TruncatedInv, Within
  <2>3. <<c, journal[j].events>> \in Outcomes
    BY <2>2 DEF Outcomes
  <2>4. CASE journal[j].events = None
    BY <2>3, <2>4 DEF Lifecycle!Finished
  <2>5. CASE journal[j].events # None
    <3>1. OnStream(journal[j])
      BY <2>2, <2>5 DEF PubInv, StreamsInv, MarkedOnStream
    <3>2. journal[j].stream \in Streams /\ c \in Commands
      BY <1>4, <2>5 DEF IInv, RecordsAddressed, Addressed
    <3>3. PICK n \in 1..Len(streams[journal[j].stream]) :
            streams[journal[j].stream][n] = BatchOf(journal[j])
      BY <3>1 DEF OnStream
    <3> DEFINE q == <<c, journal[j].events, <<journal[j].stream, n>>>>
    <3>4. Placed(q)
      BY <2>2, <3>2, <3>3 DEF Placed, BatchOf
    <3>5. q \in Publications /\ q[1] = c
      BY <3>4, PlacesNow DEF AllPlaced
    <3> QED
      BY <2>3, <3>5 DEF Lifecycle!Finished
  <2> QED
    BY <2>4, <2>5
<1>6. D = ForgottenCommands \cup D
  BY <1>3
<1> HIDE DEF D
<1>7. Lifecycle!Forget(D)
  BY <1>1, <1>5, <1>6 DEF Lifecycle!Forget, D
<1> QED
  BY <1>4, <1>7 DEF Lifecycle!Next, Simulates

-----------------------------------------------------------------------------
(* The refinement.                                                         *)

\* A step that no part of the abstract state shows.
LEMMA StutterSimulates ==
  ASSUME UNCHANGED <<journal, truncated, streams, acked>>
  PROVE  Simulates
BY JournalPart, StreamsPart DEF Simulates

\* A command that is looked up and found may be acknowledged.
LEMMA AcceptCommandSimulates ==
  ASSUME IInv, NEW s \in Supervisors, NEW c \in Commands, AcceptCommand(s, c)
  PROVE  Simulates
<1>1. UNCHANGED <<journal, truncated, streams>>
  BY DEF AcceptCommand, durable
<1>2. CASE c \in accepted
  <2>1. acked' = acked \cup {c}
    BY <1>2 DEF AcceptCommand, AlreadyAccepted
  <2>2. c \in AcceptedCommands
    BY <1>2 DEF IInv, JournalInv, SetIsBehind, Within, AcceptedCommands, Recorded
  <2>3. Lifecycle!Acknowledge(c)
    BY <1>1, <2>1, <2>2, JournalPart, StreamsPart DEF Lifecycle!Acknowledge
  <2> QED
    BY <2>3 DEF Lifecycle!Next, Simulates
<1>3. CASE c \notin accepted
  BY <1>1, <1>3, StutterSimulates DEF AcceptCommand, AlreadyAccepted
<1> QED
  BY <1>2, <1>3

\* Each step of a supervisor is a step of CommandLifecycle or a stutter.
LEMMA StepSimulates ==
  ASSUME IInv, PubInv, FinishInv, (IInv /\ PubInv /\ FinishInv)',
         NEW s \in Supervisors, Step(s)
  PROVE  Simulates
<1>1. CASE Truncate(s)
  <2>1. truncated <= truncated'
    <3>1. truncated \in Nat /\ journalPos[s] \in Nat
      BY Parts DEF SharedType
    <3> QED
      BY <1>1, <3>1 DEF Truncate
  <2> QED
    BY <1>1, <2>1, TruncateSimulates DEF Truncate, seen
<1>2. CASE AppendEvents(s)
  <2>1. pc[s] \in {"append", "reappend"}
    BY <1>2 DEF AppendEvents
  <2>2. op[s] \in Record /\ Promised(op[s])
    BY <2>1, PubParts, StreamInHand DEF PublisherInv
  <2> QED
    BY <1>2, <2>2, PublishSimulates DEF AppendEvents, seen
<1>3. CASE JournalAccepted(s) \/ JournalHandled(s) \/ JournalAppended(s)
  BY <1>3, RecordSimulates
     DEF JournalAccepted, JournalHandled, JournalAppended, AppendRecord, ToAppend, seen
<1>4. CASE \E c \in Commands : AcceptCommand(s, c)
  BY <1>4, AcceptCommandSimulates
<1>5. CASE \/ Recover(s) \/ RecoverHandled(s) \/ RecoverAccepted(s)
           \/ AddToAccepted(s) \/ HandleCommand(s) \/ SelectEventStream(s)
  BY <1>5, StutterSimulates
     DEF Recover, RecoverHandled, RecoverAccepted, AddToAccepted, HandleCommand,
         SelectEventStream, durable, seen
<1> QED
  BY <1>1, <1>2, <1>3, <1>4, <1>5 DEF Step

\* So is each failure: what took effect before it counts.
LEMMA FaultSimulates ==
  ASSUME IInv, PubInv, FinishInv, (IInv /\ PubInv /\ FinishInv)',
         NEW s \in Supervisors, Fault(s)
  PROVE  Simulates
<1>1. CASE TruncateFails(s)
  <2>1. truncated <= truncated'
    <3>1. truncated \in Nat /\ journalPos[s] \in Nat
      BY Parts DEF SharedType
    <3> QED
      BY <1>1, <3>1 DEF TruncateFails
  <2> QED
    BY <1>1, <2>1, TruncateSimulates DEF TruncateFails, seen
<1>2. CASE JournalFailsAfterAppend(s)
  <2>1. /\ pc[s] \in {"accept", "record", "mark"} /\ AtEnd(s)
        /\ journal' = Append(journal, ToAppend(s))
        /\ UNCHANGED <<streams, truncated, acked>>
    BY <1>2 DEF JournalFailsAfterAppend, AppendRecord, ToAppend, seen
  <2> QED
    BY <2>1, RecordSimulates
<1>3. CASE AppendFailsAfterAppend(s)
  <2>1. /\ pc[s] \in {"append", "reappend"} /\ UNCHANGED <<journal, truncated, acked>>
        /\ AppendToStream(op[s]) \/ UNCHANGED streams
    BY <1>3 DEF AppendFailsAfterAppend, seen
  <2>2. op[s] \in Record /\ Promised(op[s])
    BY <2>1, PubParts, StreamInHand DEF PublisherInv
  <2> QED
    BY <2>1, <2>2, PublishSimulates, StutterSimulates
<1>4. CASE Stop(s) \/ Fail(s) \/ Conflict(s) \/ Crash(s) \/ AddFailsAfterAdd(s)
  BY <1>4, StutterSimulates DEF Stop, Fail, Conflict, Crash, AddFailsAfterAdd,
                                durable, seen
<1> QED
  BY <1>1, <1>2, <1>3, <1>4 DEF Fault

\* So is every step, those of late appends and of other producers included.
LEMMA NextSimulates ==
  ASSUME IInv, PubInv, FinishInv, (IInv /\ PubInv /\ FinishInv)', [Next]_vars
  PROVE  Simulates
<1>1. ASSUME NEW r \in late, LateAppend(r) PROVE Simulates
  <2>1. r \in Record /\ Promised(r)
    BY DEF IInv, TypeOK, PubInv, StreamsInv, LatePromised
  <2> QED
    BY <1>1, <2>1, PublishSimulates DEF LateAppend, seen
<1>2. ASSUME NEW k \in Streams, ForeignAppend(k) PROVE Simulates
  <2>1. AppendsBatch(k, Foreign) /\ UNCHANGED <<journal, truncated, acked>>
    BY <1>2 DEF ForeignAppend, AppendsBatch, seen
  <2>2. UNCHANGED Publications
    BY <2>1, ForeignIsNoPublication DEF IInv
  <2> QED
    BY <2>1, <2>2, JournalPart DEF Simulates
<1>3. CASE UNCHANGED vars
  BY <1>3, StutterSimulates DEF vars, durable, seen
<1> QED
  BY <1>1, <1>2, <1>3, StepSimulates, FaultSimulates DEF Next

\* The supervisors of a handler, with all their failures, conflicts, crashes and
\* retries, do to each command what its life cycle allows: they accept it once,
\* decide on its outcome once, publish that outcome once, and forget it only when
\* it is finished.
THEOREM SupervisorsImplementLifecycle == Spec => LifecycleSpec
<1>1. Init => Lifecycle!Init
  <2> SUFFICES ASSUME Init PROVE Lifecycle!Init
    OBVIOUS
  <2>1. Len(journal) = 0 /\ truncated = 0 /\ acked = {}
    BY DEF Init
  <2>2. \A k \in Streams : Len(streams[k]) = 0
    BY DEF Init
  <2>3. AcceptedCommands = {} /\ Outcomes = {} /\ ForgottenCommands = {}
    BY <2>1 DEF AcceptedCommands, Recorded, Outcomes, ForgottenCommands
  <2>4. Publications = {}
    BY <2>2, PlacesNow DEF AllPlaced, Placed
  <2> QED
    BY <2>1, <2>3, <2>4 DEF Lifecycle!Init
<1>2. Simulates => [Lifecycle!Next]_(Lifecycle!lifecycle)
  BY DEF Simulates, Lifecycle!lifecycle
<1>3. /\ IInv /\ PubInv /\ FinishInv /\ (IInv /\ PubInv /\ FinishInv)' /\ [Next]_vars
      => [Lifecycle!Next]_(Lifecycle!lifecycle)
  BY <1>2, NextSimulates
<1> QED
  BY <1>1, <1>3, Publication, PTL DEF Spec, LifecycleSpec, Lifecycle!Spec
=============================================================================
