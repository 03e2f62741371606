----------------------- MODULE EventStreamWorkerProofs -----------------------
(***************************************************************************)
(* Proofs about the workers of an event stream, for every number of        *)
(* workers and batches and every size of batch.                            *)
(*                                                                         *)
(* The journal only ever grows by the next record of a batch it does not   *)
(* hold (JournalStep).  That is so because a worker that is about to append*)
(* knows that the batch is not among the records before its position, and  *)
(* the journal refuses the write unless there are no others.               *)
(***************************************************************************)
EXTENDS EventStreamWorker, TLAPS

-----------------------------------------------------------------------------
(* The inductive invariant.                                                *)

\* Offsets grow along the journal, and every offset of the stream is covered.
Ordered ==
  \A i, j \in 1..Len(journal) : i < j => journal[i].after <= journal[j].before

Covered ==
  \A o \in Nat : o < EndAt(Len(journal)) =>
    \E i \in 1..Len(journal) : Contains(journal[i], o)

JournalInv == Contiguous /\ Ordered /\ Covered /\ AppendedOnce

\* Batch b is not among the first n records.
Absent(b, n) == \A i \in 1..n : journal[i].batch # b

\* What a worker knows of the journal and of the request it handles.
WorkerInv(w) ==
  /\ pc[w] # "stopped" => off[w] = EndAt(pos[w])
  /\ pc[w] \in {"search", "append"} => IsLowerBound(req[w].hint, req[w].batch)
  /\ pc[w] = "search" => req[w].hint < off[w]
  /\ pc[w] = "append" => Absent(req[w].batch, pos[w])

\* What was known when an abandoned write was sent.
WriteInv(x) ==
  /\ x.pos <= Len(journal)
  /\ x.record = RecordOf(x.record.batch, EndAt(x.pos))
  /\ Absent(x.record.batch, x.pos)

IInv ==
  /\ TypeOK
  /\ JournalInv
  /\ \A w \in Workers : WorkerInv(w)
  /\ \A x \in inflight : WriteInv(x)
  /\ ResponsesAreTrue

-----------------------------------------------------------------------------
(* What a step may do to the journal.                                      *)

NextRecord(b) ==
  /\ Absent(b, Len(journal))
  /\ journal' = Append(journal, RecordOf(b, EndAt(Len(journal))))

JournalStep == journal' = journal \/ \E b \in Batches : NextRecord(b)

\* Offsets of records are natural numbers, and so are those of the prefixes.
LEMMA EndAtType ==
  ASSUME TypeOK, NEW n \in 0..Len(journal)
  PROVE  EndAt(n) \in Nat
<1>1. journal \in Seq(Record)
  BY DEF TypeOK
<1>2. CASE n = 0
  BY <1>2 DEF EndAt
<1>3. CASE n \in 1..Len(journal)
  <2>1. journal[n] \in Record
    BY <1>1, <1>3
  <2>2. journal[n].after \in Nat
    BY <2>1 DEF Record, Offset
  <2> QED
    BY <1>3, <2>2 DEF EndAt
<1> QED
  BY <1>1, <1>2, <1>3

\* A new record has the type of a record and covers at least one offset.
LEMMA RecordOfType ==
  ASSUME NEW b \in Batches, NEW o \in Nat
  PROVE  /\ RecordOf(b, o) \in Record
         /\ RecordOf(b, o).batch = b
         /\ RecordOf(b, o).before = o
         /\ RecordOf(b, o).after = o + Size[b]
         /\ RecordOf(b, o).after > o
BY SizeAssumption DEF RecordOf, Record, Offset

\* Every record of the journal covers at least one offset.
LEMMA RecordSpan ==
  ASSUME TypeOK, JournalInv, NEW i \in 1..Len(journal)
  PROVE  /\ journal[i].batch \in Batches
         /\ journal[i].before \in Nat /\ journal[i].after \in Nat
         /\ journal[i].before < journal[i].after
<1>1. journal[i] \in Record
  BY DEF TypeOK
<1>2. journal[i].after = journal[i].before + Size[journal[i].batch]
  BY DEF JournalInv, Contiguous
<1>3. /\ journal[i].batch \in Batches
      /\ journal[i].before \in Nat /\ journal[i].after \in Nat
  BY <1>1 DEF Record, Offset
<1> QED
  BY <1>2, <1>3, SizeAssumption

\* The records a step leaves alone, and the one it adds.
LEMMA AppendFacts ==
  ASSUME TypeOK, NEW b \in Batches, NextRecord(b)
  PROVE  /\ journal' \in Seq(Record)
         /\ Len(journal') = Len(journal) + 1
         /\ \A i \in 1..Len(journal) : journal'[i] = journal[i]
         /\ journal'[Len(journal) + 1] = RecordOf(b, EndAt(Len(journal)))
         /\ \A n \in 0..Len(journal) : EndAt(n)' = EndAt(n)
         /\ EndAt(Len(journal))' = EndAt(Len(journal)) + Size[b]
<1> DEFINE rec == RecordOf(b, EndAt(Len(journal)))
<1>1. Len(journal) \in Nat /\ EndAt(Len(journal)) \in Nat
  <2>1. Len(journal) \in Nat
    BY DEF TypeOK
  <2> QED
    BY <2>1, EndAtType
<1>2. rec \in Record /\ rec.after = EndAt(Len(journal)) + Size[b]
  BY <1>1, RecordOfType
<1>3. journal \in Seq(Record) /\ journal' = Append(journal, rec)
  BY DEF TypeOK, NextRecord
<1> HIDE DEF rec
<1>4. /\ journal' \in Seq(Record)
      /\ Len(journal') = Len(journal) + 1
      /\ \A i \in 1..Len(journal) : journal'[i] = journal[i]
      /\ journal'[Len(journal) + 1] = rec
  BY <1>2, <1>3
<1>5. \A n \in 0..Len(journal) : EndAt(n)' = EndAt(n)
  BY <1>1, <1>4 DEF EndAt
<1>6. EndAt(Len(journal))' = rec.after
  BY <1>1, <1>4 DEF EndAt
<1> QED
  BY <1>2, <1>4, <1>5, <1>6 DEF rec

\* Such a step keeps the offsets in order and without gaps, and no batch twice.
LEMMA JournalInvStep ==
  ASSUME TypeOK, JournalInv, JournalStep
  PROVE  JournalInv'
<1>1. CASE journal' = journal
  BY <1>1 DEF JournalInv, Contiguous, Ordered, Covered, AppendedOnce, EndAt, Contains
<1>2. ASSUME NEW b \in Batches, NextRecord(b)
      PROVE  JournalInv'
  <2> DEFINE n == Len(journal)
             rec == RecordOf(b, EndAt(n))
  <2>1. n \in Nat /\ EndAt(n) \in Nat
    BY EndAtType DEF TypeOK
  <2>2. /\ rec.batch = b /\ rec.before = EndAt(n)
        /\ rec.after = EndAt(n) + Size[b] /\ rec.after > EndAt(n)
        /\ rec.after \in Nat
    <3>1. /\ rec.batch = b /\ rec.before = EndAt(n)
          /\ rec.after = EndAt(n) + Size[b]
      BY DEF RecordOf
    <3>2. Size[b] \in Nat /\ Size[b] > 0
      BY SizeAssumption
    <3> HIDE DEF rec
    <3> QED
      BY <2>1, <3>1, <3>2
  <2>3. /\ Len(journal') = n + 1
        /\ \A i \in 1..n : journal'[i] = journal[i]
        /\ journal'[n + 1] = rec
        /\ \A m \in 0..n : EndAt(m)' = EndAt(m)
        /\ EndAt(Len(journal))' = rec.after
    BY <1>2, <2>2, AppendFacts
  <2>4. \A i \in 1..n : journal[i].before \in Nat /\ journal[i].after \in Nat
    <3>1. \A i \in 1..n : journal[i] \in Record
      BY DEF TypeOK
    <3> QED
      BY <3>1 DEF Record, Offset
  <2>5. \A i \in 1..n : journal[i].after <= EndAt(n)
    <3> SUFFICES ASSUME NEW i \in 1..n PROVE journal[i].after <= EndAt(n)
      OBVIOUS
    <3>1. CASE i = n
      BY <2>1, <2>4, <3>1 DEF EndAt
    <3>2. CASE i < n
      <4>1. journal[i].after <= journal[n].before
        BY <2>1, <3>2 DEF JournalInv, Ordered
      <4>2. journal[n].before <= journal[n].after
        BY <2>1, <2>4, <3>2, RecordSpan
      <4> QED
        BY <2>1, <2>4, <3>2, <4>1, <4>2 DEF EndAt
    <3> QED
      BY <2>1, <3>1, <3>2
  <2> HIDE DEF rec, n
  <2>6. Contiguous'
    <3> SUFFICES ASSUME NEW i \in 1..(n + 1)
                 PROVE  /\ journal'[i].before = EndAt(i - 1)'
                        /\ journal'[i].after = journal'[i].before + Size[journal'[i].batch]
      BY <2>3 DEF Contiguous
    <3>1. CASE i = n + 1
      BY <2>1, <2>2, <2>3, <3>1
    <3>2. CASE i \in 1..n
      BY <2>1, <2>3, <3>2 DEF JournalInv, Contiguous, n
    <3> QED
      BY <2>1, <3>1, <3>2
  <2>7. Ordered'
    <3> SUFFICES ASSUME NEW i \in 1..(n + 1), NEW j \in 1..(n + 1), i < j
                 PROVE  journal'[i].after <= journal'[j].before
      BY <2>3 DEF Ordered
    <3>1. i \in 1..n
      BY <2>1
    <3>2. CASE j = n + 1
      BY <2>2, <2>3, <2>5, <3>1, <3>2
    <3>3. CASE j \in 1..n
      BY <2>3, <3>1, <3>3 DEF JournalInv, Ordered, n
    <3> QED
      BY <2>1, <3>2, <3>3
  <2>8. Covered'
    <3> SUFFICES ASSUME NEW o \in Nat, o < rec.after
                 PROVE  \E i \in 1..(n + 1) : Contains(journal'[i], o)
      BY <2>3 DEF Covered, Contains
    <3>1. CASE o < EndAt(n)
      <4>1. PICK i \in 1..n : Contains(journal[i], o)
        BY <3>1 DEF JournalInv, Covered, n
      <4> QED
        BY <2>1, <2>3, <4>1 DEF Contains
    <3>2. CASE EndAt(n) <= o
      BY <2>1, <2>2, <2>3, <3>2 DEF Contains
    <3> QED
      BY <2>1, <3>1, <3>2
  <2>9. AppendedOnce'
    <3>1. \A i \in 1..n : journal'[i].batch # b
      BY <1>2, <2>3 DEF NextRecord, Absent, n
    <3>2. journal'[n + 1].batch = b
      BY <2>2, <2>3
    <3>3. \A i, j \in 1..n : journal'[i].batch = journal'[j].batch => i = j
      BY <2>3 DEF JournalInv, AppendedOnce, n
    <3>4. \A i \in 1..(n + 1) : i \in 1..n \/ i = n + 1
      BY <2>1
    <3> QED
      BY <2>3, <3>1, <3>2, <3>3, <3>4 DEF AppendedOnce
  <2> QED
    BY <2>6, <2>7, <2>8, <2>9 DEF JournalInv
<1> QED
  BY <1>1, <1>2 DEF JournalStep

-----------------------------------------------------------------------------
(* What is known of the journal stays true as it grows.                    *)

\* A step leaves the records, and so the prefixes, of the journal as they were.
LEMMA Grows ==
  ASSUME TypeOK, JournalStep
  PROVE  /\ Len(journal) \in Nat /\ Len(journal') \in Nat
         /\ Len(journal) <= Len(journal')
         /\ \A i \in 1..Len(journal) : journal'[i] = journal[i]
         /\ \A n \in 0..Len(journal) : EndAt(n)' = EndAt(n)
         /\ EndAt(Len(journal)) \in Nat /\ EndAt(Len(journal))' \in Nat
         /\ EndAt(Len(journal)) <= EndAt(Len(journal))'
         /\ \A i \in 1..Len(journal') :
              i \in 1..Len(journal) \/ journal'[i].before = EndAt(Len(journal))
<1>1. Len(journal) \in Nat
  BY DEF TypeOK
<1>2. EndAt(Len(journal)) \in Nat
  BY <1>1, EndAtType
<1>3. CASE journal' = journal
  BY <1>1, <1>2, <1>3 DEF EndAt
<1>4. ASSUME NEW b \in Batches, NextRecord(b)
      PROVE  /\ Len(journal') = Len(journal) + 1
             /\ \A i \in 1..Len(journal) : journal'[i] = journal[i]
             /\ \A n \in 0..Len(journal) : EndAt(n)' = EndAt(n)
             /\ EndAt(Len(journal))' = EndAt(Len(journal)) + Size[b]
             /\ Size[b] \in Nat
             /\ journal'[Len(journal) + 1].before = EndAt(Len(journal))
  <2>1. RecordOf(b, EndAt(Len(journal))).before = EndAt(Len(journal))
    BY <1>2, RecordOfType
  <2>2. Size[b] \in Nat
    BY SizeAssumption
  <2> QED
    BY <1>4, <2>1, <2>2, AppendFacts
<1> QED
  BY <1>1, <1>2, <1>3, <1>4 DEF JournalStep

\* The promise a producer made with its hint outlives every append.
LEMMA LowerBoundStable ==
  ASSUME TypeOK, JournalStep, NEW h \in Nat, NEW b \in Batches, IsLowerBound(h, b)
  PROVE  IsLowerBound(h, b)'
<1>1. h <= EndAt(Len(journal))'
  BY Grows DEF IsLowerBound
<1>2. ASSUME NEW i \in 1..Len(journal'), journal'[i].batch = b
      PROVE  h <= journal'[i].before
  BY <1>2, Grows DEF IsLowerBound
<1> QED
  BY <1>1, <1>2 DEF IsLowerBound

\* What a worker knows stays true while the others append (Run, handleAppend).
LEMMA WorkerInvStable ==
  ASSUME TypeOK, JournalStep, NEW w \in Workers, WorkerInv(w),
         pc'[w] = pc[w], pos'[w] = pos[w], off'[w] = off[w], req'[w] = req[w]
  PROVE  WorkerInv(w)'
<1>1. pos[w] \in 0..Len(journal)
  BY DEF TypeOK
<1>2. EndAt(pos[w])' = EndAt(pos[w])
  BY <1>1, Grows DEF EndAt
<1>3. ASSUME pc[w] \in {"search", "append"}
      PROVE  IsLowerBound(req[w].hint, req[w].batch)'
  <2>1. req[w] \in AppendRequest
    BY <1>3 DEF TypeOK
  <2>2. req[w].hint \in Nat /\ req[w].batch \in Batches
    BY <2>1 DEF AppendRequest, Offset
  <2>3. \A h \in Nat, b \in Batches : IsLowerBound(h, b) => IsLowerBound(h, b)'
    BY LowerBoundStable
  <2> QED
    BY <1>3, <2>2, <2>3 DEF WorkerInv, IsLowerBound
<1>4. ASSUME pc[w] = "append" PROVE Absent(req[w].batch, pos[w])'
  <2>1. \A i \in 1..pos[w] : journal'[i] = journal[i]
    BY <1>1, Grows
  <2> QED
    BY <1>4, <2>1 DEF WorkerInv, Absent
<1> QED
  BY <1>2, <1>3, <1>4 DEF WorkerInv

\* What was known when an abandoned write was sent stays true.
LEMMA WriteInvStable ==
  ASSUME TypeOK, JournalStep, NEW x \in inflight, WriteInv(x)
  PROVE  WriteInv(x)'
<1>1. x.pos \in 0..Len(journal)
  BY DEF TypeOK, WriteInv
<1>2. EndAt(x.pos)' = EndAt(x.pos)
  BY <1>1, Grows
<1>3. \A i \in 1..x.pos : journal'[i] = journal[i]
  BY <1>1, Grows
<1>4. x.pos <= Len(journal')
  BY <1>1, Grows
<1> QED
  BY <1>2, <1>3, <1>4 DEF WriteInv, Absent, RecordOf

-----------------------------------------------------------------------------
(* Why a worker that appends does not append twice.                        *)

\* A record of a prefix ends no later than the prefix does.
LEMMA EndAtMonotone ==
  ASSUME TypeOK, JournalInv, NEW n \in 0..Len(journal), NEW i \in 1..n
  PROVE  journal[i].after <= EndAt(n)
<1>1. i \in 1..Len(journal) /\ n \in 1..Len(journal)
  BY DEF TypeOK
<1>2. /\ journal[i].after \in Nat
      /\ journal[n].before \in Nat /\ journal[n].after \in Nat
      /\ journal[n].before < journal[n].after
  BY <1>1, RecordSpan
<1>3. EndAt(n) = journal[n].after
  BY <1>1 DEF EndAt
<1>4. CASE i = n
  BY <1>2, <1>3, <1>4
<1>5. CASE i < n
  <2>1. journal[i].after <= journal[n].before
    BY <1>1, <1>5 DEF JournalInv, Ordered
  <2> QED
    BY <1>2, <1>3, <2>1
<1> QED
  BY <1>1, <1>4, <1>5

\* mightBeDuplicates is right to say no.
LEMMA NoDuplicateBeforeHint ==
  ASSUME TypeOK, JournalInv, NEW h \in Nat, NEW b \in Batches,
         IsLowerBound(h, b), NEW n \in 0..Len(journal), EndAt(n) <= h
  PROVE  Absent(b, n)
<1> SUFFICES ASSUME NEW i \in 1..n, journal[i].batch = b PROVE FALSE
  BY DEF Absent
<1>1. i \in 1..Len(journal)
  BY DEF TypeOK
<1>2. /\ journal[i].before \in Nat /\ journal[i].after \in Nat
      /\ journal[i].before < journal[i].after
  BY <1>1, RecordSpan
<1>3. journal[i].after <= EndAt(n)
  BY EndAtMonotone
<1>4. h <= journal[i].before
  BY <1>1 DEF IsLowerBound
<1>5. EndAt(n) \in Nat
  BY EndAtType
<1> QED
  BY <1>2, <1>3, <1>4, <1>5

\* The scan starts at a record that exists and misses no record it should see.
LEMMA ScanIsComplete ==
  ASSUME TypeOK, JournalInv, NEW w \in Workers, WorkerInv(w),
         pc[w] = "search", AppendRecords(w) = {}
  PROVE  Absent(req[w].batch, pos[w])
<1> DEFINE h == req[w].hint
           b == req[w].batch
<1>1. req[w] \in AppendRequest
  BY DEF TypeOK
<1>2. h \in Nat /\ b \in Batches
  BY <1>1 DEF AppendRequest, Offset
<1>3. pos[w] \in 0..Len(journal) /\ Len(journal) \in Nat
  BY DEF TypeOK
<1>4. h < EndAt(pos[w]) /\ IsLowerBound(h, b)
  BY DEF WorkerInv
<1>5. EndAt(pos[w]) \in Nat /\ EndAt(Len(journal)) \in Nat
  BY <1>3, EndAtType
<1>6. pos[w] \in 1..Len(journal)
  BY <1>2, <1>3, <1>4 DEF EndAt
<1>7. EndAt(pos[w]) = journal[pos[w]].after
  BY <1>6 DEF EndAt
<1>8. EndAt(pos[w]) <= EndAt(Len(journal))
  BY <1>3, <1>6, <1>7, EndAtMonotone
<1>9. PICK j \in 1..Len(journal) : Contains(journal[j], h)
  BY <1>2, <1>4, <1>5, <1>8 DEF JournalInv, Covered
<1>10. journal[j].before \in Nat /\ journal[j].before <= h
  BY <1>9, RecordSpan DEF Contains
<1>11. j \in 1..pos[w]
  <2>1. pos[w] < j => journal[pos[w]].after <= journal[j].before
    BY <1>6 DEF JournalInv, Ordered
  <2> QED
    BY <1>2, <1>3, <1>4, <1>5, <1>7, <1>9, <1>10, <2>1
<1>12. \A i \in j..Len(journal) : journal[i].batch # b
  BY <1>9, <1>11 DEF AppendRecords, Scanned
<1>13. ASSUME NEW i \in 1..pos[w], i < j, journal[i].batch = b PROVE FALSE
  <2>1. i \in 1..Len(journal)
    BY <1>3
  <2>2. journal[i].after <= journal[j].before
    BY <1>13, <2>1 DEF JournalInv, Ordered
  <2>3. h <= journal[i].before
    BY <1>4, <1>13, <2>1 DEF IsLowerBound
  <2> QED
    BY <1>2, <1>10, <2>1, <2>2, <2>3, RecordSpan
<1> QED
  BY <1>3, <1>12, <1>13 DEF Absent

-----------------------------------------------------------------------------
(* The invariant holds initially and is kept by every step.                *)

\* The invariant holds of an empty journal and no worker.
LEMMA InitIInv == ASSUME Init PROVE IInv
<1>1. journal = <<>> /\ Len(journal) = 0
  BY DEF Init
<1>2. TypeOK
  BY <1>1, NoneAssumption DEF Init, TypeOK, Offset
<1>3. JournalInv
  BY <1>1 DEF JournalInv, Contiguous, Ordered, Covered, AppendedOnce, EndAt
<1>4. \A w \in Workers : WorkerInv(w)
  BY DEF Init, WorkerInv
<1> QED
  BY <1>2, <1>3, <1>4 DEF Init, IInv, ResponsesAreTrue

\* A write that the journal takes, at once or late, is of a batch it does not hold.
LEMMA NextJournalStep ==
  ASSUME IInv, [Next]_vars
  PROVE  JournalStep
<1>1. ASSUME NEW w \in Workers, pc[w] = "append", AtEnd(pos[w]),
             journal' = Append(journal, NewRecord(w))
      PROVE  JournalStep
  <2>1. req[w] \in AppendRequest
    BY <1>1 DEF IInv, TypeOK
  <2>2. req[w].batch \in Batches
    BY <2>1 DEF AppendRequest
  <2>3. NextRecord(req[w].batch)
    BY <1>1 DEF IInv, WorkerInv, NextRecord, NewRecord, AtEnd
  <2> QED
    BY <2>2, <2>3 DEF JournalStep
<1>2. ASSUME NEW x \in inflight, AtEnd(x.pos), journal' = Append(journal, x.record)
      PROVE  JournalStep
  <2>1. x.record \in Record
    BY DEF IInv, TypeOK
  <2>2. x.record.batch \in Batches
    BY <2>1 DEF Record
  <2>3. NextRecord(x.record.batch)
    BY <1>2 DEF IInv, WriteInv, NextRecord, AtEnd
  <2> QED
    BY <2>2, <2>3 DEF JournalStep
<1>3. CASE UNCHANGED vars
  BY <1>3 DEF vars, JournalStep
<1>4. ASSUME NEW w \in Workers, AppendEvents(w) \/ FailAfterAppend(w)
      PROVE  JournalStep
  BY <1>1, <1>4 DEF AppendEvents, FailAfterAppend
<1>5. ASSUME NEW x \in inflight, LateWrite(x) PROVE JournalStep
  BY <1>2, <1>5 DEF LateWrite, JournalStep
<1>6. ASSUME NEW w \in Workers,
             \/ Run(w) \/ Stop(w)
             \/ \E b \in Batches, h \in 0..EndAt(Len(journal)) : Receive(w, b, h)
             \/ SearchFinds(w) \/ SearchFindsNothing(w)
             \/ Conflict(w) \/ Abandon(w)
      PROVE  JournalStep
  BY <1>6 DEF Run, Stop, Receive, SearchFinds, SearchFindsNothing, Conflict,
              Abandon, JournalStep
<1> QED
  BY <1>3, <1>4, <1>5, <1>6 DEF Next

\* A step is judged by what it changes: by the workers that move, the writes
\* it abandons and the responses it sends.
SameWorker(w) ==
  pc'[w] = pc[w] /\ pos'[w] = pos[w] /\ off'[w] = off[w] /\ req'[w] = req[w]

Located(r) ==
  \E i \in 1..Len(journal) :
    /\ journal[i].batch = r.batch
    /\ journal[i].before = r.begin /\ journal[i].after = r.end

\* A step keeps the invariant if it keeps the types, what changes of the
\* workers and the writes keeps theirs, and every new response is located.
LEMMA Frame ==
  ASSUME IInv, JournalStep, TypeOK',
         \A w \in Workers : SameWorker(w) \/ WorkerInv(w)',
         \A x \in inflight' : x \in inflight \/ WriteInv(x)',
         \A r \in responses' : r \in responses \/ Located(r)'
  PROVE  IInv'
<1>1. JournalInv'
  BY JournalInvStep DEF IInv
<1>2. \A w \in Workers : WorkerInv(w)'
  BY WorkerInvStable DEF IInv, SameWorker
<1>3. \A x \in inflight' : WriteInv(x)'
  BY WriteInvStable DEF IInv
<1>4. \A r \in responses : Located(r)'
  <2> SUFFICES ASSUME NEW r \in responses PROVE Located(r)'
    OBVIOUS
  <2>1. PICK i \in 1..Len(journal) :
          /\ journal[i].batch = r.batch
          /\ journal[i].before = r.begin /\ journal[i].after = r.end
    BY DEF IInv, ResponsesAreTrue
  <2>2. journal'[i] = journal[i] /\ i \in 1..Len(journal')
    BY <2>1, Grows DEF IInv
  <2> QED
    BY <2>1, <2>2 DEF Located
<1>5. ResponsesAreTrue'
  BY <1>4 DEF ResponsesAreTrue, Located
<1> QED
  BY <1>1, <1>2, <1>3, <1>5 DEF IInv

\* Type correctness of the parts that every kind of step changes alike.
LEMMA JournalType ==
  ASSUME TypeOK, JournalStep
  PROVE  /\ journal' \in Seq(Record)
         /\ \A w \in Workers : pos[w] \in 0..Len(journal')
<1>1. journal' \in Seq(Record)
  BY AppendFacts DEF JournalStep, TypeOK
<1>2. \A w \in Workers : pos[w] \in 0..Len(journal)
  BY DEF TypeOK
<1> QED
  BY <1>1, <1>2, Grows

\* The record a worker is about to write has the type of a record.
LEMMA NewRecordType ==
  ASSUME TypeOK, NEW w \in Workers, pc[w] = "append"
  PROVE  /\ req[w].batch \in Batches /\ req[w].hint \in Nat
         /\ NewRecord(w) \in Record
         /\ NewRecord(w).batch = req[w].batch
         /\ NewRecord(w).before = off[w] /\ NewRecord(w).after \in Nat
<1>1. req[w] \in AppendRequest /\ off[w] \in Nat
  BY DEF TypeOK, Offset
<1>2. req[w].batch \in Batches /\ req[w].hint \in Nat
  BY <1>1 DEF AppendRequest, Offset
<1> QED
  BY <1>1, <1>2, RecordOfType DEF NewRecord, Record, Offset

\* The worker that returns knows nothing, and the others do not move.
LEMMA ReturnKeeps ==
  ASSUME IInv, JournalStep, NEW w \in Workers, Return(w),
         inflight' \subseteq [pos : Nat, record : Record],
         responses' = responses
  PROVE  /\ TypeOK'
         /\ \A v \in Workers : SameWorker(v) \/ WorkerInv(v)'
<1>1. TypeOK
  BY DEF IInv
<1>2. /\ journal' \in Seq(Record)
      /\ \A v \in Workers : pos[v] \in 0..Len(journal')
      /\ Len(journal') \in Nat
  BY <1>1, JournalType, Grows
<1>3. pc' \in [Workers -> {"stopped", "idle", "search", "append"}]
  BY <1>1 DEF Return, Goto, TypeOK
<1>4. pos' \in [Workers -> 0..Len(journal')]
  BY <1>1, <1>2 DEF Return, TypeOK
<1>5. off' \in [Workers -> Offset] /\ req' \in [Workers -> AppendRequest \cup {None}]
  BY <1>1 DEF Return, TypeOK, Offset
<1>6. \A v \in Workers : pc'[v] \in {"search", "append"} <=> req'[v] # None
  BY <1>1 DEF Return, Goto, TypeOK
<1>7. TypeOK'
  BY <1>1, <1>2, <1>3, <1>4, <1>5, <1>6 DEF TypeOK
<1>8. \A v \in Workers \ {w} : SameWorker(v)
  BY <1>1 DEF Return, Goto, TypeOK, SameWorker
<1>9. WorkerInv(w)'
  BY <1>1 DEF Return, Goto, TypeOK, WorkerInv
<1> QED
  BY <1>7, <1>8, <1>9

\* A worker that starts knows the whole journal (Run).
LEMMA RunKeeps ==
  ASSUME IInv, JournalStep, NEW w \in Workers, Run(w)
  PROVE  IInv'
<1>1. TypeOK /\ Len(journal) \in Nat /\ EndAt(Len(journal)) \in Nat
  BY Grows DEF IInv
<1>2. TypeOK'
  BY <1>1 DEF Run, Goto, TypeOK, Offset
<1>3. WorkerInv(w)'
  BY <1>1 DEF Run, Goto, TypeOK, WorkerInv, EndAt
<1>4. \A v \in Workers \ {w} : SameWorker(v)
  BY <1>1 DEF Run, Goto, TypeOK, SameWorker
<1> QED
  BY <1>2, <1>3, <1>4, Frame DEF Run

\* A request whose hint is at or after the worker's offset need not be looked
\* up (mightBeDuplicates).
LEMMA ReceiveKeeps ==
  ASSUME IInv, JournalStep, NEW w \in Workers, NEW b \in Batches, NEW h \in Nat,
         Receive(w, b, h)
  PROVE  IInv'
<1>1. TypeOK /\ JournalInv /\ WorkerInv(w)
  BY DEF IInv
<1>2. [batch |-> b, hint |-> h] \in AppendRequest
  BY DEF AppendRequest, Offset
<1>3. [batch |-> b, hint |-> h] # None
  BY <1>2, NoneAssumption
<1>4. TypeOK'
  BY <1>1, <1>2, <1>3 DEF Receive, Goto, TypeOK
<1>5. req'[w] = [batch |-> b, hint |-> h] /\ pos'[w] = pos[w] /\ off'[w] = off[w]
  BY <1>1 DEF Receive, TypeOK
<1>6. pos[w] \in 0..Len(journal) /\ off[w] = EndAt(pos[w])
  BY <1>1 DEF Receive, TypeOK, WorkerInv
<1>7. /\ journal' = journal
      /\ EndAt(pos[w])' = off'[w]
      /\ IsLowerBound(req[w].hint, req[w].batch)'
  <2>1. journal' = journal /\ IsLowerBound(h, b)
    BY DEF Receive
  <2>2. req'[w].hint = h /\ req'[w].batch = b
    BY <1>5
  <2>3. IsLowerBound(h, b)'
    BY <2>1 DEF IsLowerBound, EndAt
  <2> QED
    BY <1>5, <1>6, <2>1, <2>2, <2>3 DEF IsLowerBound, EndAt
<1>8. ASSUME MightBeDuplicates(w, h) PROVE WorkerInv(w)'
  <2>1. pc'[w] = "search" /\ h < off[w]
    BY <1>1, <1>8 DEF Receive, Goto, TypeOK, MightBeDuplicates
  <2> QED
    BY <1>5, <1>7, <2>1 DEF WorkerInv
<1>9. ASSUME ~MightBeDuplicates(w, h) PROVE WorkerInv(w)'
  <2>1. pc'[w] = "append" /\ ~(h < off[w])
    BY <1>1, <1>9 DEF Receive, Goto, TypeOK, MightBeDuplicates
  <2>2. EndAt(pos[w]) <= h
    BY <1>1, <1>6, <2>1, EndAtType
  <2>3. Absent(b, pos[w])
    BY <1>1, <1>6, <2>2, NoDuplicateBeforeHint DEF Receive
  <2>4. Absent(req[w].batch, pos[w])'
    BY <1>5, <1>7, <2>3 DEF Absent
  <2> QED
    BY <1>7, <2>1, <2>4 DEF WorkerInv
<1>10. \A v \in Workers \ {w} : SameWorker(v)
  BY <1>1 DEF Receive, Goto, TypeOK, SameWorker
<1> QED
  BY <1>4, <1>8, <1>9, <1>10, Frame DEF Receive

\* A response has the type of a response and the offsets of its record.
LEMMA AnswerType ==
  ASSUME NEW b \in Batches, NEW rec \in Record, NEW prior \in BOOLEAN
  PROVE  /\ Response(b, rec, prior) \in AppendResponse
         /\ Response(b, rec, prior).batch = b
         /\ Response(b, rec, prior).begin = rec.before
         /\ Response(b, rec, prior).end = rec.after
BY DEF Response, AppendResponse, Record

\* A search that finds nothing has seen every record the batch may have.
LEMMA SearchKeeps ==
  ASSUME IInv, JournalStep, NEW w \in Workers,
         SearchFinds(w) \/ SearchFindsNothing(w)
  PROVE  IInv'
<1>1. TypeOK /\ JournalInv /\ WorkerInv(w)
  BY DEF IInv
<1>2. journal' = journal /\ pos' = pos /\ off' = off /\ inflight' = inflight
  BY DEF SearchFinds, SearchFindsNothing
<1>3. req[w] \in AppendRequest /\ pc[w] = "search"
  BY <1>1 DEF TypeOK, SearchFinds, SearchFindsNothing
<1>4. req[w].batch \in Batches
  BY <1>3 DEF AppendRequest
<1>5. off[w] = EndAt(pos[w]) /\ EndAt(pos[w])' = EndAt(pos[w])
  BY <1>2, <1>3, <1>1 DEF WorkerInv, EndAt
<1>6. ASSUME NEW i \in AppendRecords(w), Answer(w, journal[i], TRUE)
      PROVE  IInv'
  <2>1. i \in 1..Len(journal) /\ journal[i].batch = req[w].batch
    BY <1>1 DEF AppendRecords, Scanned, TypeOK
  <2>2. journal[i] \in Record
    BY <1>1, <2>1 DEF TypeOK
  <2> DEFINE r == Response(req[w].batch, journal[i], TRUE)
  <2>3. /\ r \in AppendResponse /\ r.batch = req[w].batch
        /\ r.begin = journal[i].before /\ r.end = journal[i].after
    BY <1>4, <2>2, AnswerType
  <2>4. responses' = responses \cup {r}
    BY <1>6 DEF Answer
  <2> HIDE DEF r
  <2>5. \A q \in responses' : q \in responses \/ Located(q)'
    BY <1>2, <2>1, <2>3, <2>4 DEF Located
  <2>6. TypeOK'
    BY <1>1, <1>2, <1>6, <2>3, <2>4 DEF TypeOK, Answer, Goto
  <2>7. WorkerInv(w)'
    <3>1. pc'[w] = "idle"
      BY <1>1, <1>6 DEF Answer, Goto, TypeOK
    <3> QED
      BY <1>2, <1>5, <3>1 DEF WorkerInv
  <2>8. \A v \in Workers \ {w} : SameWorker(v)
    BY <1>1, <1>2, <1>6 DEF Answer, Goto, TypeOK, SameWorker
  <2> QED
    BY <1>2, <2>5, <2>6, <2>7, <2>8, Frame
<1>7. ASSUME SearchFindsNothing(w) PROVE IInv'
  <2>1. pc' = [pc EXCEPT ![w] = "append"] /\ req' = req /\ responses' = responses
    BY <1>7 DEF SearchFindsNothing, Goto
  <2>2. TypeOK'
    BY <1>1, <1>2, <1>3, <2>1 DEF TypeOK
  <2>3. Absent(req[w].batch, pos[w])
    BY <1>1, <1>7, ScanIsComplete DEF SearchFindsNothing
  <2>4. IsLowerBound(req[w].hint, req[w].batch)
    BY <1>1, <1>3 DEF WorkerInv
  <2>5. WorkerInv(w)'
    <3>1. IsLowerBound(req[w].hint, req[w].batch)' /\ Absent(req[w].batch, pos[w])'
      BY <1>2, <2>1, <2>3, <2>4 DEF IsLowerBound, EndAt, Absent
    <3>2. pc'[w] = "append"
      BY <1>1, <2>1 DEF TypeOK
    <3> QED
      BY <1>2, <1>5, <3>1, <3>2 DEF WorkerInv
  <2>6. \A v \in Workers \ {w} : SameWorker(v)
    BY <1>1, <1>2, <2>1 DEF TypeOK, SameWorker
  <2> QED
    BY <1>2, <2>1, <2>2, <2>5, <2>6, Frame
<1> QED
  BY <1>6, <1>7 DEF SearchFinds

\* A worker that appends knows the new end of the stream.
LEMMA AppendKeeps ==
  ASSUME IInv, JournalStep, NEW w \in Workers, AppendEvents(w)
  PROVE  IInv'
<1> DEFINE rec == NewRecord(w)
           r == Response(req[w].batch, rec, FALSE)
<1>1. TypeOK /\ WorkerInv(w)
  BY DEF IInv
<1>2. /\ pc[w] = "append" /\ pos[w] = Len(journal)
      /\ journal' = Append(journal, rec)
      /\ inflight' = inflight
      /\ pos' = [pos EXCEPT ![w] = @ + 1]
      /\ off' = [off EXCEPT ![w] = rec.after]
      /\ responses' = responses \cup {r}
      /\ req' = [req EXCEPT ![w] = None]
      /\ pc' = [pc EXCEPT ![w] = "idle"]
  BY DEF AppendEvents, AtEnd, Answer, Goto
<1>3. /\ req[w].batch \in Batches /\ rec \in Record
      /\ rec.batch = req[w].batch /\ rec.after \in Nat
  BY <1>1, <1>2, NewRecordType
<1>4. /\ r \in AppendResponse /\ r.batch = req[w].batch
      /\ r.begin = rec.before /\ r.end = rec.after
  BY <1>3, AnswerType
<1> HIDE DEF rec, r
<1>5. /\ Len(journal) \in Nat
      /\ Len(journal') = Len(journal) + 1
      /\ journal'[Len(journal) + 1] = rec
  BY <1>1, <1>2, <1>3 DEF TypeOK
<1>6. journal' \in Seq(Record) /\ \A v \in Workers : pos[v] \in 0..Len(journal')
  BY <1>1, JournalType
<1>7. TypeOK'
  <2>1. pos' \in [Workers -> 0..Len(journal')]
    BY <1>1, <1>2, <1>5, <1>6 DEF TypeOK
  <2>2. off' \in [Workers -> Offset]
    BY <1>1, <1>2, <1>3 DEF TypeOK, Offset
  <2>3. \A v \in Workers : pc'[v] \in {"search", "append"} <=> req'[v] # None
    BY <1>1, <1>2 DEF TypeOK
  <2> QED
    BY <1>1, <1>2, <1>4, <1>6, <2>1, <2>2, <2>3 DEF TypeOK
<1>8. WorkerInv(w)'
  <2>1. pc'[w] = "idle" /\ pos'[w] = Len(journal) + 1 /\ off'[w] = rec.after
    BY <1>1, <1>2 DEF TypeOK
  <2>2. EndAt(pos[w])' = rec.after
    BY <1>5, <2>1 DEF EndAt
  <2> QED
    BY <2>1, <2>2 DEF WorkerInv
<1>9. \A q \in responses' : q \in responses \/ Located(q)'
  <2>1. Len(journal) + 1 \in 1..Len(journal')
    BY <1>5
  <2> QED
    BY <1>2, <1>3, <1>4, <1>5, <2>1 DEF Located
<1>10. \A v \in Workers \ {w} : SameWorker(v)
  BY <1>1, <1>2 DEF TypeOK, SameWorker
<1> QED
  BY <1>2, <1>7, <1>8, <1>9, <1>10, Frame

\* An abandoned write carries what the worker knew.
LEMMA AbandonKeeps ==
  ASSUME IInv, JournalStep, NEW w \in Workers, Abandon(w)
  PROVE  IInv'
<1> DEFINE x == [pos |-> pos[w], record |-> NewRecord(w)]
<1>1. TypeOK /\ WorkerInv(w) /\ pc[w] = "append" /\ journal' = journal
  BY DEF IInv, Abandon
<1>2. /\ req[w].batch \in Batches /\ NewRecord(w) \in Record
      /\ NewRecord(w).batch = req[w].batch
  BY <1>1, NewRecordType
<1>3. pos[w] \in 0..Len(journal) /\ Len(journal) \in Nat
  BY <1>1 DEF TypeOK
<1>4. inflight' = inflight \cup {x}
  BY DEF Abandon
<1>5. inflight' \subseteq [pos : Nat, record : Record]
  BY <1>1, <1>2, <1>3, <1>4 DEF TypeOK
<1>6. ASSUME NEW y, y = x PROVE WriteInv(y)'
  <2>1. NewRecord(w) = RecordOf(NewRecord(w).batch, EndAt(pos[w]))
    BY <1>1, <1>2 DEF NewRecord, WorkerInv
  <2>2. Absent(NewRecord(w).batch, pos[w])
    BY <1>1, <1>2 DEF WorkerInv
  <2>3. WriteInv(y)
    BY <1>3, <1>6, <2>1, <2>2 DEF WriteInv
  <2> QED
    BY <1>1, <2>3 DEF WriteInv, EndAt, Absent, RecordOf
<1>7. TypeOK' /\ \A v \in Workers : SameWorker(v) \/ WorkerInv(v)'
  BY <1>5, ReturnKeeps DEF Abandon
<1> QED
  BY <1>4, <1>6, <1>7, Frame DEF Abandon

\* A write that arrives late changes nothing but the journal.
LEMMA LateWriteKeeps ==
  ASSUME IInv, JournalStep, NEW x \in inflight, LateWrite(x)
  PROVE  IInv'
<1>1. TypeOK /\ pc' = pc /\ pos' = pos /\ off' = off /\ req' = req
      /\ responses' = responses /\ inflight' \subseteq inflight
  BY DEF IInv, LateWrite
<1>2. journal' \in Seq(Record) /\ \A v \in Workers : pos[v] \in 0..Len(journal')
  BY <1>1, JournalType
<1>3. TypeOK'
  BY <1>1, <1>2 DEF TypeOK
<1> QED
  BY <1>1, <1>3, Frame DEF SameWorker

\* Every action keeps the invariant.
LEMMA NextKeepsIInv ==
  ASSUME IInv, [Next]_vars
  PROVE  IInv'
<1>1. JournalStep
  BY NextJournalStep
<1>2. TypeOK
  BY DEF IInv
<1>3. ASSUME NEW w \in Workers, Stop(w) \/ Conflict(w) \/ FailAfterAppend(w)
      PROVE  IInv'
  <2>1. Return(w) /\ inflight' = inflight /\ responses' = responses
    BY <1>3 DEF Stop, Conflict, FailAfterAppend
  <2>2. TypeOK' /\ \A v \in Workers : SameWorker(v) \/ WorkerInv(v)'
    BY <1>1, <1>2, <2>1, ReturnKeeps DEF TypeOK
  <2> QED
    BY <1>1, <2>1, <2>2, Frame
<1>4. ASSUME NEW w \in Workers, NEW b \in Batches,
             NEW h \in 0..EndAt(Len(journal)), Receive(w, b, h)
      PROVE  IInv'
  BY <1>1, <1>4, ReceiveKeeps
<1>5. CASE UNCHANGED vars
  BY <1>5 DEF vars, IInv, TypeOK, JournalInv, Contiguous, Ordered, Covered,
              Contains, AppendedOnce, WorkerInv, WriteInv, Absent, IsLowerBound,
              RecordOf, EndAt, ResponsesAreTrue
<1> QED
  BY <1>1, <1>3, <1>4, <1>5, RunKeeps, SearchKeeps, AppendKeeps, AbandonKeeps,
     LateWriteKeeps DEF Next

-----------------------------------------------------------------------------
(* The theorems.                                                           *)

\* The invariant on which the theorems below rest.
THEOREM Invariance == Spec => []IInv
BY InitIInv, NextKeepsIInv, PTL DEF Spec

\* Types, and that no worker ever appends beyond the end of the journal.
THEOREM TypeCorrect == Spec => []TypeOK
BY Invariance, PTL DEF IInv

\* Whatever workers, retries, hints and late writes there are, no batch of
\* events is on the stream twice.
THEOREM NeverAppendedTwice == Spec => []AppendedOnce
BY Invariance, PTL DEF IInv, JournalInv

\* The records cover the offsets of the stream with no gap and no overlap.
THEOREM OffsetsAreContiguous == Spec => []Contiguous
BY Invariance, PTL DEF IInv, JournalInv

\* What a worker knows of the journal, old as it may be, is consistent.
THEOREM WorkersKnowAPrefix == Spec => []KnowsPrefix
<1>1. IInv => KnowsPrefix
  BY DEF IInv, WorkerInv, KnowsPrefix
<1> QED
  BY <1>1, Invariance, PTL

\* Producers are told where their events are.
THEOREM ResponsesAreCorrect == Spec => []ResponsesAreTrue
BY Invariance, PTL DEF IInv

-----------------------------------------------------------------------------
(* Refinement.                                                             *)

\* The end of the abstract stream is the offset after the last record.
LEMMA EndIsEndAt ==
  ASSUME TypeOK
  PROVE  Stream!End = EndAt(Len(journal))
BY DEF TypeOK, Stream!End, EndAt

\* A record that a step adds to the journal is one the abstract stream may
\* append, whether or not the producer learns of it.
LEMMA NewRecordIsAppended ==
  ASSUME TypeOK, NEW b \in Batches, NextRecord(b),
         responses' \in {responses, responses \cup
           {Response(b, RecordOf(b, EndAt(Len(journal))), FALSE)}}
  PROVE  Stream!AppendBatch(b)
<1> DEFINE rec == RecordOf(b, EndAt(Len(journal)))
<1>1. rec = [batch |-> b, before |-> Stream!End, after |-> Stream!End + Size[b]]
  BY EndIsEndAt DEF RecordOf
<1>2. Response(b, rec, FALSE) = Stream!Response(rec, FALSE)
  BY DEF Response, RecordOf, Stream!Response
<1>3. \A i \in 1..Len(journal) : journal[i].batch # b
  BY DEF NextRecord, Absent
<1>4. journal' = Append(journal, rec)
  BY DEF NextRecord
<1>5. responses' \in {responses, responses \cup {Stream!Response(rec, FALSE)}}
  BY <1>2
<1> HIDE DEF rec
<1> QED
  BY <1>1, <1>3, <1>4, <1>5 DEF Stream!AppendBatch

\* Every step of the workers is a step of the stream, or none.
LEMMA NextImplementsStream ==
  ASSUME IInv, [Next]_vars
  PROVE  [Stream!Next]_<<journal, responses>>
<1>1. TypeOK /\ JournalStep
  BY NextJournalStep DEF IInv
<1>2. CASE responses' = responses
  BY <1>1, <1>2, NewRecordIsAppended DEF JournalStep, Stream!Next
<1>3. ASSUME NEW w \in Workers, SearchFinds(w)
      PROVE  Stream!Next
  <2>1. PICK i \in AppendRecords(w) : Answer(w, journal[i], TRUE)
    BY <1>3 DEF SearchFinds
  <2>2. i \in 1..Len(journal) /\ journal[i].batch = req[w].batch
    BY <1>1, <2>1 DEF AppendRecords, Scanned, TypeOK
  <2>3. journal[i] \in Record
    BY <1>1, <2>2 DEF TypeOK
  <2>4. journal[i].batch \in Batches
    BY <2>3 DEF Record
  <2>5. journal' = journal
        /\ responses' = responses \cup {Stream!Response(journal[i], TRUE)}
    BY <1>3, <2>1, <2>2 DEF SearchFinds, Answer, Response, Stream!Response
  <2> QED
    BY <2>2, <2>4, <2>5 DEF Stream!Repeat, Stream!Next
<1>4. ASSUME NEW w \in Workers, AppendEvents(w)
      PROVE  Stream!Next
  <2> DEFINE b == req[w].batch
             rec == RecordOf(b, EndAt(Len(journal)))
  <2>1. pc[w] = "append" /\ pos[w] = Len(journal) /\ WorkerInv(w)
    BY <1>4 DEF AppendEvents, AtEnd, IInv
  <2>2. b \in Batches /\ NewRecord(w) = rec /\ Absent(b, Len(journal))
    BY <1>1, <2>1, NewRecordType DEF NewRecord, WorkerInv
  <2>3. NextRecord(b) /\ responses' = responses \cup {Response(b, rec, FALSE)}
    BY <1>4, <2>2 DEF AppendEvents, Answer, NextRecord
  <2> QED
    BY <1>1, <2>2, <2>3, NewRecordIsAppended DEF Stream!Next
<1>5. ASSUME NEW w \in Workers,
             \/ Run(w) \/ Stop(w) \/ SearchFindsNothing(w) \/ Conflict(w)
             \/ FailAfterAppend(w) \/ Abandon(w)
             \/ \E b \in Batches : \E h \in 0..EndAt(Len(journal)) : Receive(w, b, h)
      PROVE  responses' = responses
  BY <1>5 DEF Run, Stop, SearchFindsNothing, Conflict, FailAfterAppend, Abandon,
              Receive
<1>6. ASSUME NEW x \in inflight, LateWrite(x)
      PROVE  responses' = responses
  BY <1>6 DEF LateWrite
<1>7. CASE UNCHANGED vars
  BY <1>7 DEF vars
<1> QED
  BY <1>2, <1>3, <1>4, <1>5, <1>6, <1>7 DEF Next

\* The workers of a stream, with all their retries, conflicts and failures,
\* implement the stream a producer believes in.
THEOREM WorkersImplementStream == Spec => EventStreamSpec
<1>1. Init => Stream!Init
  BY DEF Init, Stream!Init
<1> QED
  BY <1>1, Invariance, NextImplementsStream, PTL
     DEF Spec, EventStreamSpec, Stream!Spec
=============================================================================
