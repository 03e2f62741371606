-------------------- MODULE IntegrationSupervisorProofs --------------------
(***************************************************************************)
(* Proofs about the supervisors of an integration handler, for every       *)
(* number of supervisors, commands, events and streams.                    *)
(*                                                                         *)
(* A supervisor knows a prefix of the journal, the records before its      *)
(* journalPos, and the journal accepts its next record only if that prefix *)
(* is the whole.  What a supervisor knows of the prefix when it decides on *)
(* an operation (SupervisorInv) is therefore true of the whole journal     *)
(* when the record of the operation is written.                            *)
(***************************************************************************)
EXTENDS IntegrationSupervisor, TLAPS

-----------------------------------------------------------------------------
(* The inductive invariant.                                                *)

\* One of the first n records of the journal is about c and of kind o.
Within(n, o, c) ==
  \E i \in 1..n : journal[i].op = o /\ journal[i].cmd = c

\* A record of a later kind comes after one of the kind before it.
Ordered ==
  \A i \in 1..Len(journal) :
    /\ journal[i].op = "CommandHandled" =>
         Within(i - 1, "CommandAccepted", journal[i].cmd)
    /\ journal[i].op = "EventsAppended" =>
         Within(i - 1, "CommandHandled", journal[i].cmd)

\* A command that may be missing from the accepted-commands set is found by the
\* next recovery: its only record is CommandAccepted, and not truncated.
SetIsBehind ==
  /\ \A i \in 1..Len(journal) :
       i <= truncated \/ journal[i].op # "CommandAccepted" =>
         journal[i].cmd \in accepted
  /\ \A c \in accepted : Within(Len(journal), "CommandAccepted", c)

JournalInv ==
  RecordedOnce /\ Ordered /\ SetIsBehind
  /\ \A c \in acked : Within(Len(journal), "CommandAccepted", c)

\* Events have a stream to go to.
Addressed(r) == r.events # None => r.stream \in Streams

RecordsAddressed == \A i \in 1..Len(journal) : Addressed(journal[i])

\* The work that recovery has found.
PendingInv(s) ==
  /\ ~recovering[s] => unhandled[s] = {} /\ unappended[s] = {}
  /\ pc[s] \in {"stopped", "idle", "accept"} => ~recovering[s]
  /\ pc[s] \notin {"recover", "reappend", "mark"} => unappended[s] = {}
  /\ \A i \in unhandled[s] :
       /\ i <= journalPos[s] /\ journal[i].op = "CommandAccepted"
       /\ ~Within(journalPos[s], "CommandHandled", journal[i].cmd)
  /\ \A i \in unappended[s] :
       /\ i <= journalPos[s] /\ journal[i].op = "CommandHandled"
       /\ journal[i].events # None
       /\ ~Within(journalPos[s], "EventsAppended", journal[i].cmd)

\* The operation in hand is the next of its command, and no other pending
\* operation is of the same command.
OpInv(s) ==
  LET c == op[s].cmd
      n == journalPos[s]
  IN  /\ pc[s] = "accept" => ~Within(n, "CommandAccepted", c)
      /\ pc[s] \in {"add", "handle", "select", "record"} =>
           /\ Within(n, "CommandAccepted", c) /\ ~Within(n, "CommandHandled", c)
           /\ \A i \in unhandled[s] : journal[i].cmd # c
      /\ pc[s] \in {"append", "reappend", "mark"} =>
           /\ Within(n, "CommandHandled", c) /\ ~Within(n, "EventsAppended", c)
           /\ \A i \in unappended[s] : journal[i].cmd # c
      /\ pc[s] \in {"handle", "select", "record", "append", "reappend", "mark"} =>
           c \in accepted
      /\ pc[s] \in {"accept", "record", "append", "reappend", "mark"} =>
           Addressed(op[s])
      /\ pc[s] \in {"append", "reappend"} => op[s].events # None

\* Every command in the supervisor's prefix is known to be accepted, or will be
\* before the supervisor is idle.
Cover(s) ==
  \A i \in 1..journalPos[s] :
    \/ journal[i].cmd \in accepted
    \/ \E j \in unhandled[s] : journal[j].cmd = journal[i].cmd
    \/ pc[s] = "add" /\ op[s].cmd = journal[i].cmd

SupervisorInv(s) == PendingInv(s) /\ OpInv(s) /\ Cover(s)

IInv ==
  /\ TypeOK
  /\ JournalInv
  /\ RecordsAddressed
  /\ \A s \in Supervisors : SupervisorInv(s)

-----------------------------------------------------------------------------
(* Frames: most steps are steps of one supervisor and change little else.  *)

PCs == {"stopped", "recover", "reappend", "idle", "accept", "add", "handle",
        "select", "record", "append", "mark"}

\* The conjuncts of TypeOK about what all supervisors share.
SharedType ==
  /\ journal \in Seq(Record)
  /\ truncated \in 0..Len(journal)
  /\ accepted \subseteq Commands
  /\ streams \in [Streams -> Seq(Batch)]
  /\ late \subseteq Record
  /\ acked \subseteq Commands /\ sideEffects \subseteq Commands

\* The conjuncts of TypeOK about one supervisor.
LocalType(s) ==
  /\ pc[s] \in PCs
  /\ journalPos[s] \in 0..Len(journal)
  /\ unappended[s] \in SUBSET (1..Len(journal))
  /\ unhandled[s] \in SUBSET (1..Len(journal))
  /\ recovering[s] \in BOOLEAN
  /\ IF OpOf(s) = "none" THEN op[s] = None
     ELSE op[s] \in Record /\ op[s].op = OpOf(s)
  /\ eventStreamID[s] \in Streams \cup {None}
  /\ eventOffsetHint[s] \in Nat

\* A step changes the memory of no supervisor but s.
Changes(s) ==
  /\ pc' = [pc EXCEPT ![s] = pc'[s]]
  /\ journalPos' = [journalPos EXCEPT ![s] = journalPos'[s]]
  /\ unappended' = [unappended EXCEPT ![s] = unappended'[s]]
  /\ unhandled' = [unhandled EXCEPT ![s] = unhandled'[s]]
  /\ recovering' = [recovering EXCEPT ![s] = recovering'[s]]
  /\ op' = [op EXCEPT ![s] = op'[s]]
  /\ eventStreamID' = [eventStreamID EXCEPT ![s] = eventStreamID'[s]]
  /\ eventOffsetHint' = [eventOffsetHint EXCEPT ![s] = eventOffsetHint'[s]]

\* The journal grows by at most one record.
Extends == journal' = journal \/ \E r \in Record : journal' = Append(journal, r)

\* The type invariant, divided.
LEMMA TypeParts ==
  ASSUME TypeOK
  PROVE  SharedType /\ \A s \in Supervisors : LocalType(s)
<1>1. SharedType
  BY DEF TypeOK, SharedType
<1>2. ASSUME NEW s \in Supervisors
      PROVE  LocalType(s)
  <2>1. IF OpOf(s) = "none" THEN op[s] = None
        ELSE op[s] \in Record /\ op[s].op = OpOf(s)
    BY DEF TypeOK
  <2>2. pc[s] \in PCs /\ journalPos[s] \in 0..Len(journal)
    BY DEF TypeOK, PCs
  <2>3. /\ unappended[s] \in SUBSET (1..Len(journal))
        /\ unhandled[s] \in SUBSET (1..Len(journal))
        /\ recovering[s] \in BOOLEAN
        /\ eventStreamID[s] \in Streams \cup {None}
        /\ eventOffsetHint[s] \in Nat
    BY DEF TypeOK
  <2> QED
    BY <2>1, <2>2, <2>3 DEF LocalType
<1> QED
  BY <1>1, <1>2

\* A step leaves the records of the journal as they were.
LEMMA Grows ==
  ASSUME TypeOK, Extends
  PROVE  /\ journal' \in Seq(Record)
         /\ Len(journal) \in Nat /\ Len(journal') \in Nat
         /\ Len(journal) <= Len(journal')
         /\ \A i \in 1..Len(journal) : journal'[i] = journal[i]
<1>1. journal \in Seq(Record)
  BY DEF TypeOK
<1> QED
  BY <1>1 DEF Extends

\* What a prefix of the journal contains never changes.
LEMMA WithinStable ==
  ASSUME TypeOK, Extends, NEW n \in 0..Len(journal), NEW o, NEW c
  PROVE  Within(n, o, c)' <=> Within(n, o, c)
<1>1. Len(journal) \in Nat /\ \A i \in 1..Len(journal) : journal'[i] = journal[i]
  BY Grows
<1>2. \A i \in 1..n : journal'[i] = journal[i]
  BY <1>1
<1> QED
  BY <1>2 DEF Within

\* What a supervisor knows stays true while others take steps.
LEMMA SupervisorInvStable ==
  ASSUME TypeOK, Extends, accepted \subseteq accepted',
         NEW s \in Supervisors, SupervisorInv(s),
         pc'[s] = pc[s], journalPos'[s] = journalPos[s],
         unappended'[s] = unappended[s], unhandled'[s] = unhandled[s],
         recovering'[s] = recovering[s], op'[s] = op[s]
  PROVE  SupervisorInv(s)'
<1> DEFINE n == journalPos[s]
<1>1. LocalType(s)
  BY TypeParts
<1>2. n \in 0..Len(journal) /\ Len(journal) \in Nat
  BY <1>1, Grows DEF LocalType
<1>3. \A i \in 1..Len(journal) : journal'[i] = journal[i]
  BY Grows
<1>4. /\ \A i \in unhandled[s] : journal'[i] = journal[i]
      /\ \A i \in unappended[s] : journal'[i] = journal[i]
      /\ \A i \in 1..n : journal'[i] = journal[i]
  BY <1>1, <1>2, <1>3 DEF LocalType
<1>5. \A o, c : Within(n, o, c)' <=> Within(n, o, c)
  BY <1>2, WithinStable
<1>6. \A o, c : (\E i \in 1..n : journal'[i].op = o /\ journal'[i].cmd = c)
                 <=> Within(n, o, c)
  BY <1>4 DEF Within
<1>7. journalPos'[s] = n
  OBVIOUS
<1> HIDE DEF n
<1>8. PendingInv(s)'
  BY <1>4, <1>6, <1>7 DEF SupervisorInv, PendingInv, Within, n
<1>9. OpInv(s)'
  BY <1>4, <1>6, <1>7 DEF SupervisorInv, OpInv, Within, Addressed, n
<1>10. Cover(s)'
  BY <1>4, <1>7 DEF SupervisorInv, Cover, n
<1> QED
  BY <1>8, <1>9, <1>10 DEF SupervisorInv

\* A step of supervisor s keeps the invariant if it keeps what concerns s and
\* what is shared.
LEMMA Frame ==
  ASSUME IInv, NEW s \in Supervisors, Extends, accepted \subseteq accepted',
         Changes(s), LocalType(s)', SharedType', JournalInv',
         RecordsAddressed', SupervisorInv(s)'
  PROVE  IInv'
<1>1. TypeOK /\ \A t \in Supervisors : SupervisorInv(t) /\ LocalType(t)
  BY TypeParts DEF IInv
<1>2. /\ DOMAIN pc = Supervisors /\ DOMAIN journalPos = Supervisors
      /\ DOMAIN unappended = Supervisors /\ DOMAIN unhandled = Supervisors
      /\ DOMAIN recovering = Supervisors /\ DOMAIN op = Supervisors
      /\ DOMAIN eventStreamID = Supervisors
      /\ DOMAIN eventOffsetHint = Supervisors
  BY <1>1 DEF TypeOK
<1>3. ASSUME NEW t \in Supervisors, t # s
      PROVE  /\ pc'[t] = pc[t] /\ journalPos'[t] = journalPos[t]
             /\ unappended'[t] = unappended[t] /\ unhandled'[t] = unhandled[t]
             /\ recovering'[t] = recovering[t] /\ op'[t] = op[t]
             /\ eventStreamID'[t] = eventStreamID[t]
             /\ eventOffsetHint'[t] = eventOffsetHint[t]
  BY <1>2, <1>3 DEF Changes
<1>4. \A t \in Supervisors : SupervisorInv(t)'
  BY <1>1, <1>3, SupervisorInvStable
<1>5. \A t \in Supervisors : LocalType(t)'
  <2>1. ASSUME NEW t \in Supervisors, t # s PROVE LocalType(t)'
    <3>1. Len(journal) \in Nat /\ Len(journal') \in Nat /\ Len(journal) <= Len(journal')
      BY <1>1, Grows
    <3>2. LocalType(t) /\ OpOf(t)' = OpOf(t)
      BY <1>1, <1>3, <2>1 DEF OpOf
    <3> QED
      BY <1>3, <2>1, <3>1, <3>2 DEF LocalType
  <2> QED
    BY <2>1
<1>6. TypeOK'
  <2>1. pc' \in [Supervisors -> PCs]
    BY <1>1, <1>2, <1>5 DEF TypeOK, LocalType, Changes
  <2>2. journalPos' \in [Supervisors -> 0..Len(journal')]
    BY <1>1, <1>2, <1>5 DEF TypeOK, LocalType, Changes
  <2>3. unappended' \in [Supervisors -> SUBSET (1..Len(journal'))]
    BY <1>1, <1>2, <1>5 DEF TypeOK, LocalType, Changes
  <2>4. unhandled' \in [Supervisors -> SUBSET (1..Len(journal'))]
    BY <1>1, <1>2, <1>5 DEF TypeOK, LocalType, Changes
  <2>5. recovering' \in [Supervisors -> BOOLEAN]
    BY <1>1, <1>2, <1>5 DEF TypeOK, LocalType, Changes
  <2>6. eventStreamID' \in [Supervisors -> Streams \cup {None}]
    BY <1>1, <1>2, <1>5 DEF TypeOK, LocalType, Changes
  <2>7. eventOffsetHint' \in [Supervisors -> Nat]
    BY <1>1, <1>2, <1>5 DEF TypeOK, LocalType, Changes
  <2>8. op' \in [Supervisors -> Record \cup {None}]
    BY <1>1, <1>2, <1>5 DEF TypeOK, LocalType, Changes
  <2>9. \A t \in Supervisors :
          IF OpOf(t)' = "none" THEN op'[t] = None
          ELSE op'[t] \in Record /\ op'[t].op = OpOf(t)'
    BY <1>5 DEF LocalType
  <2> QED
    BY <2>1, <2>2, <2>3, <2>4, <2>5, <2>6, <2>7, <2>8, <2>9
       DEF TypeOK, SharedType, PCs
<1> QED
  BY <1>4, <1>6 DEF IInv

-----------------------------------------------------------------------------
(* The journal.                                                            *)

\* Record r is the next of its command.
NextRecord(r) ==
  /\ ~Within(Len(journal), r.op, r.cmd)
  /\ r.op = "CommandHandled" => Within(Len(journal), "CommandAccepted", r.cmd)
  /\ r.op = "EventsAppended" => Within(Len(journal), "CommandHandled", r.cmd)
  /\ r.op # "CommandAccepted" => r.cmd \in accepted
  /\ Addressed(r)

\* What the whole journal contains after an append.
LEMMA WithinAppend ==
  ASSUME TypeOK, NEW r \in Record, journal' = Append(journal, r)
  PROVE  /\ Len(journal) \in Nat /\ Len(journal') = Len(journal) + 1
         /\ journal' \in Seq(Record)
         /\ \A i \in 1..Len(journal) : journal'[i] = journal[i]
         /\ journal'[Len(journal) + 1] = r
         /\ \A o, c : Within(Len(journal), o, c)' <=>
                      Within(Len(journal), o, c) \/ (r.op = o /\ r.cmd = c)
<1>1. journal \in Seq(Record)
  BY DEF TypeOK
<1>2. /\ Len(journal) \in Nat /\ Len(journal') = Len(journal) + 1
      /\ journal' \in Seq(Record)
      /\ \A i \in 1..Len(journal) : journal'[i] = journal[i]
      /\ journal'[Len(journal) + 1] = r
  BY <1>1
<1>3. \A o, c : (\E i \in 1..Len(journal') :
                   journal'[i].op = o /\ journal'[i].cmd = c)
                <=> Within(Len(journal), o, c) \/ (r.op = o /\ r.cmd = c)
  BY <1>2 DEF Within
<1> QED
  BY <1>2, <1>3 DEF Within

\* Records of the whole journal, and of a longer prefix.
LEMMA WithinMonotone ==
  ASSUME TypeOK, NEW m \in Nat, NEW n \in Nat, m <= n, NEW o, NEW c, Within(m, o, c)
  PROVE  Within(n, o, c)
BY DEF Within

\* A record that is the next of its command keeps the journal in order.  The
\* command is acknowledged, if at all, after its CommandAccepted record.
LEMMA JournalInvAppend ==
  ASSUME TypeOK, JournalInv, RecordsAddressed,
         NEW r \in Record, journal' = Append(journal, r), NextRecord(r),
         truncated' = truncated, accepted' = accepted,
         acked' \in {acked, acked \cup {r.cmd}},
         acked' # acked => r.op = "CommandAccepted"
  PROVE  JournalInv' /\ RecordsAddressed'
<1>0. PICK L \in Nat : L = Len(journal)
  BY WithinAppend
<1>1. /\ L \in Nat /\ L = Len(journal) /\ Len(journal') = L + 1
      /\ \A i \in 1..L : journal'[i] = journal[i]
      /\ journal'[L + 1] = r
  BY <1>0, WithinAppend
<1>2. \A i \in 1..L+1 : i \in 1..L \/ i = L + 1
  BY <1>1
<1>3. truncated \in 0..L
  BY <1>1 DEF TypeOK
<1>4. \A i \in 0..L : \A o, c : Within(i, o, c)' <=> Within(i, o, c)
  BY <1>1, WithinStable DEF Extends
<1>5. \A o, c : Within(Len(journal), o, c) => Within(Len(journal), o, c)'
  BY WithinAppend
<1>6. RecordedOnce'
  <2>1. \A i \in 1..L : ~(journal'[i].op = r.op /\ journal'[i].cmd = r.cmd)
    BY <1>1 DEF NextRecord, Within
  <2>2. \A i, j \in 1..L : journal'[i].op = journal'[j].op
                           /\ journal'[i].cmd = journal'[j].cmd => i = j
    BY <1>1 DEF JournalInv, RecordedOnce
  <2> QED
    BY <1>1, <1>2, <2>1, <2>2 DEF RecordedOnce
<1>7. Ordered'
  <2>1. ASSUME NEW i \in 1..L
        PROVE  /\ journal'[i].op = "CommandHandled" =>
                    Within(i - 1, "CommandAccepted", journal[i].cmd)'
               /\ journal'[i].op = "EventsAppended" =>
                    Within(i - 1, "CommandHandled", journal[i].cmd)'
    <3>1. \A k \in 1..i - 1 : journal'[k] = journal[k]
      BY <1>1
    <3>2. journal'[i] = journal[i]
      BY <1>1
    <3>3. /\ journal[i].op = "CommandHandled" =>
               Within(i - 1, "CommandAccepted", journal[i].cmd)
          /\ journal[i].op = "EventsAppended" =>
               Within(i - 1, "CommandHandled", journal[i].cmd)
      BY <1>1 DEF JournalInv, Ordered
    <3> QED
      BY <3>1, <3>2, <3>3 DEF Within
  <2>2. /\ journal'[L+1].op = "CommandHandled" => Within(L, "CommandAccepted", r.cmd)'
        /\ journal'[L+1].op = "EventsAppended" => Within(L, "CommandHandled", r.cmd)'
    BY <1>1, <1>4 DEF NextRecord
  <2>3. L + 1 - 1 = L
    BY <1>1
  <2> QED
    BY <1>1, <1>2, <2>1, <2>2, <2>3 DEF Ordered, Within
<1>8. SetIsBehind'
  <2>1. ASSUME NEW i \in 1..L+1,
               i <= truncated' \/ journal'[i].op # "CommandAccepted"
        PROVE  journal'[i].cmd \in accepted'
    <3>1. CASE i \in 1..L
      BY <1>1, <2>1, <3>1 DEF JournalInv, SetIsBehind
    <3>2. CASE i = L + 1
      BY <1>1, <1>3, <2>1, <3>2 DEF NextRecord
    <3> QED
      BY <1>2, <3>1, <3>2
  <2>2. \A c \in accepted' : Within(Len(journal), "CommandAccepted", c)'
    BY <1>5 DEF JournalInv, SetIsBehind
  <2> QED
    BY <1>1, <2>1, <2>2 DEF SetIsBehind
<1>9. \A c \in acked' : Within(Len(journal), "CommandAccepted", c)'
  <2>1. \A c \in acked : Within(Len(journal), "CommandAccepted", c)'
    BY <1>5 DEF JournalInv
  <2>2. r.op = "CommandAccepted" => Within(Len(journal), "CommandAccepted", r.cmd)'
    BY <1>1, WithinAppend
  <2> QED
    BY <2>1, <2>2
<1>10. RecordsAddressed'
  BY <1>1, <1>2 DEF RecordsAddressed, Addressed, NextRecord
<1>11. JournalInv'
  BY <1>6, <1>7, <1>8, <1>9 DEF JournalInv
<1> QED
  BY <1>10, <1>11

\* A step that leaves the journal, the set and the acknowledgements alone.
LEMMA JournalInvQuiet ==
  ASSUME JournalInv, RecordsAddressed, journal' = journal, truncated' = truncated,
         accepted' = accepted, acked' = acked
  PROVE  JournalInv' /\ RecordsAddressed'
BY DEF JournalInv, RecordedOnce, Ordered, SetIsBehind, Within, RecordsAddressed,
       Addressed

\* The event recorder appends batches.
LEMMA StreamsType ==
  ASSUME TypeOK, NEW r \in Record, AppendToStream(r)
  PROVE  streams' \in [Streams -> Seq(Batch)]
<1>1. streams \in [Streams -> Seq(Batch)]
  BY DEF TypeOK
<1>2. [cmd |-> r.cmd, id |-> r.events] \in Batch
  BY DEF Record, Batch
<1>3. ASSUME streams' = [streams EXCEPT ![r.stream] =
                          Append(@, [cmd |-> r.cmd, id |-> r.events])]
      PROVE  streams' \in [Streams -> Seq(Batch)]
  <2>1. \A k \in Streams : Append(streams[k], [cmd |-> r.cmd, id |-> r.events])
                             \in Seq(Batch)
    BY <1>1, <1>2
  <2> QED
    BY <1>1, <1>3, <2>1
<1> QED
  BY <1>1, <1>3 DEF AppendToStream

-----------------------------------------------------------------------------
(* Run returns, for whatever reason.                                       *)

\* The memory a supervisor keeps from one Run to the next.
KeepsMemory(s) ==
  \/ UNCHANGED memory
  \/ /\ eventStreamID' = [eventStreamID EXCEPT ![s] = None]
     /\ eventOffsetHint' = [eventOffsetHint EXCEPT ![s] = 0]

\* A supervisor that does not run knows nothing.
LEMMA ReturnKeeps ==
  ASSUME IInv, NEW s \in Supervisors, Return(s), KeepsMemory(s), Extends,
         accepted \subseteq accepted', SharedType', JournalInv', RecordsAddressed'
  PROVE  IInv'
<1>1. TypeOK /\ LocalType(s)
  BY TypeParts DEF IInv
<1>2. /\ DOMAIN pc = Supervisors /\ DOMAIN journalPos = Supervisors
      /\ DOMAIN unappended = Supervisors /\ DOMAIN unhandled = Supervisors
      /\ DOMAIN recovering = Supervisors /\ DOMAIN op = Supervisors
      /\ DOMAIN eventStreamID = Supervisors
      /\ DOMAIN eventOffsetHint = Supervisors
  BY <1>1 DEF TypeOK
<1>3. /\ pc'[s] = "stopped" /\ journalPos'[s] = 0
      /\ unappended'[s] = {} /\ unhandled'[s] = {} /\ recovering'[s] = FALSE
      /\ op'[s] = None
  BY <1>2 DEF Return, Goto
<1>4. /\ eventStreamID'[s] \in Streams \cup {None}
      /\ eventOffsetHint'[s] \in Nat
      /\ eventStreamID' = [eventStreamID EXCEPT ![s] = eventStreamID'[s]]
      /\ eventOffsetHint' = [eventOffsetHint EXCEPT ![s] = eventOffsetHint'[s]]
  <2>1. CASE UNCHANGED memory
    BY <1>1, <2>1 DEF TypeOK, memory
  <2>2. CASE ~UNCHANGED memory
    BY <1>1, <2>2 DEF TypeOK, KeepsMemory
  <2> QED
    BY <2>1, <2>2
<1>5. Changes(s)
  BY <1>1, <1>2, <1>3, <1>4 DEF Return, Goto, Changes, TypeOK
<1>6. LocalType(s)'
  <2>1. OpOf(s)' = "none"
    BY <1>3 DEF OpOf
  <2>2. Len(journal') \in Nat
    BY <1>1, Grows
  <2>3. journalPos'[s] \in 0..Len(journal') /\ pc'[s] \in PCs
    BY <1>3, <2>2 DEF PCs
  <2>4. /\ unappended'[s] \in SUBSET (1..Len(journal'))
        /\ unhandled'[s] \in SUBSET (1..Len(journal'))
        /\ recovering'[s] \in BOOLEAN
    BY <1>3
  <2> QED
    BY <1>3, <1>4, <2>1, <2>3, <2>4 DEF LocalType
<1>7. SupervisorInv(s)'
  BY <1>3 DEF SupervisorInv, PendingInv, OpInv, Cover
<1> QED
  BY <1>5, <1>6, <1>7, Frame

\* What a supervisor appends is the next record of its command.
ToAppend(s) == IF pc[s] = "mark" THEN EventsAppended(op[s].cmd) ELSE op[s]

\* At the end of the journal, what a supervisor is about to append is a record of
\* the command in its hands, and no record of that kind and command exists yet.
LEMMA AppendIsNext ==
  ASSUME IInv, NEW s \in Supervisors, pc[s] \in {"accept", "record", "mark"}, AtEnd(s)
  PROVE  /\ ToAppend(s) \in Record /\ NextRecord(ToAppend(s))
         /\ ToAppend(s).cmd = op[s].cmd
         /\ ToAppend(s).op = IF pc[s] = "accept" THEN "CommandAccepted"
                             ELSE IF pc[s] = "record" THEN "CommandHandled"
                             ELSE "EventsAppended"
<1>1. TypeOK /\ LocalType(s) /\ JournalInv /\ OpInv(s)
  BY TypeParts DEF IInv, SupervisorInv
<1>2. op[s] \in Record /\ op[s].op = OpOf(s) /\ op[s].cmd \in Commands
  <2>1. OpOf(s) # "none"
    BY DEF OpOf
  <2>2. op[s] \in Record /\ op[s].op = OpOf(s)
    BY <1>1, <2>1 DEF LocalType
  <2> QED
    BY <2>2 DEF Record
<1>3. journalPos[s] = Len(journal)
  BY DEF AtEnd
<1>4. CASE pc[s] = "accept"
  <2>1. op[s].op = "CommandAccepted" /\ ToAppend(s) = op[s]
    BY <1>2, <1>4 DEF OpOf, ToAppend
  <2>2. ~Within(Len(journal), "CommandAccepted", op[s].cmd) /\ Addressed(op[s])
    BY <1>1, <1>3, <1>4 DEF OpInv
  <2> QED
    BY <1>2, <1>4, <2>1, <2>2 DEF NextRecord
<1>5. CASE pc[s] = "record"
  <2>1. op[s].op = "CommandHandled" /\ ToAppend(s) = op[s]
    BY <1>2, <1>5 DEF OpOf, ToAppend
  <2>2. /\ Within(Len(journal), "CommandAccepted", op[s].cmd)
        /\ ~Within(Len(journal), "CommandHandled", op[s].cmd)
        /\ op[s].cmd \in accepted /\ Addressed(op[s])
    BY <1>1, <1>3, <1>5 DEF OpInv
  <2> QED
    BY <1>2, <1>5, <2>1, <2>2 DEF NextRecord
<1>6. CASE pc[s] = "mark"
  <2>1. /\ ToAppend(s) = EventsAppended(op[s].cmd)
        /\ ToAppend(s) \in Record /\ ToAppend(s).op = "EventsAppended"
        /\ ToAppend(s).cmd = op[s].cmd /\ ToAppend(s).events = None
    BY <1>2, <1>6 DEF ToAppend, EventsAppended, Record
  <2>2. /\ Within(Len(journal), "CommandHandled", op[s].cmd)
        /\ ~Within(Len(journal), "EventsAppended", op[s].cmd)
        /\ op[s].cmd \in accepted
    BY <1>1, <1>3, <1>6 DEF OpInv
  <2> QED
    BY <1>6, <2>1, <2>2 DEF NextRecord, Addressed
<1> QED
  BY <1>4, <1>5, <1>6

-----------------------------------------------------------------------------
(* The actions.                                                            *)

\* What the invariant says of supervisor s and of the shared state.
LEMMA Parts ==
  ASSUME IInv, NEW s \in Supervisors
  PROVE  /\ TypeOK /\ SharedType /\ LocalType(s) /\ JournalInv /\ RecordsAddressed
         /\ PendingInv(s) /\ OpInv(s) /\ Cover(s)
         /\ Len(journal) \in Nat /\ journalPos[s] \in 0..Len(journal)
         /\ DOMAIN pc = Supervisors /\ DOMAIN journalPos = Supervisors
         /\ DOMAIN unappended = Supervisors /\ DOMAIN unhandled = Supervisors
         /\ DOMAIN recovering = Supervisors /\ DOMAIN op = Supervisors
         /\ DOMAIN eventStreamID = Supervisors
         /\ DOMAIN eventOffsetHint = Supervisors
         /\ (OpOf(s) # "none" =>
              op[s] \in Record /\ op[s].op = OpOf(s) /\ op[s].cmd \in Commands)
<1>1. TypeOK
  BY DEF IInv
<1>2. SharedType /\ LocalType(s)
  BY <1>1, TypeParts
<1>3. /\ DOMAIN pc = Supervisors /\ DOMAIN journalPos = Supervisors
      /\ DOMAIN unappended = Supervisors /\ DOMAIN unhandled = Supervisors
      /\ DOMAIN recovering = Supervisors /\ DOMAIN op = Supervisors
      /\ DOMAIN eventStreamID = Supervisors
      /\ DOMAIN eventOffsetHint = Supervisors
  BY <1>1 DEF TypeOK
<1>4. /\ JournalInv /\ RecordsAddressed
      /\ PendingInv(s) /\ OpInv(s) /\ Cover(s)
  BY DEF IInv, SupervisorInv
<1>5. Len(journal) \in Nat /\ journalPos[s] \in 0..Len(journal)
  BY <1>2 DEF SharedType, LocalType
<1>6. OpOf(s) # "none" =>
        op[s] \in Record /\ op[s].op = OpOf(s) /\ op[s].cmd \in Commands
  BY <1>2 DEF LocalType, Record
<1> QED
  BY <1>1, <1>2, <1>3, <1>4, <1>5, <1>6

\* Most actions leave the journal, the set and the acknowledgements alone.
LEMMA QuietStep ==
  ASSUME IInv, NEW s \in Supervisors, Changes(s), LocalType(s)', SupervisorInv(s)',
         journal' = journal, truncated' = truncated, accepted' = accepted,
         acked' = acked, streams' \in [Streams -> Seq(Batch)],
         late' \subseteq Record, sideEffects' \subseteq Commands
  PROVE  IInv'
<1>1. JournalInv' /\ RecordsAddressed'
  BY JournalInvQuiet, Parts
<1>2. SharedType'
  BY Parts DEF SharedType
<1> QED
  BY <1>1, <1>2, Frame DEF Extends

\* A scan finds the pending operations of the journal, and no others.
LEMMA RecoverKeeps ==
  ASSUME IInv, NEW s \in Supervisors, Recover(s)
  PROVE  IInv'
<1> DEFINE L == Len(journal)
<1>1. /\ JournalInv /\ LocalType(s) /\ SharedType /\ L \in Nat
      /\ truncated \in 0..L
  BY Parts DEF SharedType
<1>2. /\ pc[s] = "stopped"
      /\ UNCHANGED <<journal, truncated, accepted, acked, streams, late, sideEffects>>
      /\ pc'[s] = "recover" /\ journalPos'[s] = L /\ recovering'[s] = TRUE
      /\ unappended'[s] = {i \in PendingAfterScan("CommandHandled", "EventsAppended") :
                             journal[i].events # None}
      /\ unhandled'[s] = PendingAfterScan("CommandAccepted", "CommandHandled")
      /\ op'[s] = op[s] /\ eventStreamID'[s] = eventStreamID[s]
      /\ eventOffsetHint'[s] = eventOffsetHint[s]
  BY Parts DEF Recover, Goto, durable, memory, seen
<1>3. Changes(s)
  BY <1>2, Parts DEF Recover, Goto, Changes, memory, TypeOK
<1>4. ASSUME NEW o, NEW next,
             \/ o = "CommandAccepted" /\ next = "CommandHandled"
             \/ o = "CommandHandled" /\ next = "EventsAppended",
             NEW i \in PendingAfterScan(o, next)
      PROVE  i \in 1..L /\ journal[i].op = o /\ ~Within(L, next, journal[i].cmd)
  <2>1. i \in 1..L /\ i > truncated /\ journal[i].op = o
    BY <1>1 DEF PendingAfterScan
  <2>2. ASSUME NEW k \in 1..L, journal[k].op = next, journal[k].cmd = journal[i].cmd
        PROVE  FALSE
    <3>1. PICK m \in 1..k-1 : journal[m].op = o /\ journal[m].cmd = journal[k].cmd
      BY <1>1, <1>4, <2>2 DEF JournalInv, Ordered, Within
    <3>2. m = i
      BY <1>1, <2>1, <2>2, <3>1 DEF JournalInv, RecordedOnce
    <3>3. k \in i+1..L
      BY <1>1, <3>1, <3>2
    <3> QED
      BY <2>2, <3>3 DEF PendingAfterScan
  <2> QED
    BY <2>1, <2>2 DEF Within
<1>5. ASSUME NEW i \in 1..L
      PROVE  journal[i].cmd \in accepted \/ i \in unhandled'[s]
  <2>1. CASE i <= truncated \/ journal[i].op # "CommandAccepted"
    BY <1>1, <2>1 DEF JournalInv, SetIsBehind
  <2>2. CASE /\ i > truncated /\ journal[i].op = "CommandAccepted"
             /\ journal[i].cmd \notin accepted
    <3>1. ASSUME NEW j \in i+1..L, journal[j].op = "CommandHandled",
                 journal[j].cmd = journal[i].cmd
          PROVE  FALSE
      <4>1. j \in 1..L
        BY <1>1
      <4> QED
        BY <1>1, <2>2, <3>1, <4>1 DEF JournalInv, SetIsBehind
    <3>2. i \in truncated+1..L
      BY <1>1, <2>2
    <3> QED
      BY <1>2, <2>2, <3>1, <3>2 DEF PendingAfterScan
  <2> QED
    BY <1>1, <2>1, <2>2
<1>6. LocalType(s)'
  <2>1. unhandled'[s] \in SUBSET (1..L) /\ unappended'[s] \in SUBSET (1..L)
    BY <1>2, <1>4
  <2>2. OpOf(s)' = "none" /\ OpOf(s) = "none"
    BY <1>2 DEF OpOf
  <2>3. journalPos'[s] \in 0..L /\ pc'[s] \in PCs
    BY <1>1, <1>2 DEF PCs
  <2> QED
    BY <1>1, <1>2, <2>1, <2>2, <2>3 DEF LocalType
<1>7. SupervisorInv(s)'
  <2>1. PendingInv(s)'
    BY <1>2, <1>4 DEF PendingInv, Within
  <2>2. OpInv(s)'
    BY <1>2 DEF OpInv
  <2>3. Cover(s)'
    BY <1>2, <1>5 DEF Cover
  <2> QED
    BY <2>1, <2>2, <2>3 DEF SupervisorInv
<1> QED
  BY <1>1, <1>2, <1>3, <1>6, <1>7, QuietStep DEF SharedType

\* Recovery takes up an operation that no other pending operation repeats.
LEMMA RecoverHandledKeeps ==
  ASSUME IInv, NEW s \in Supervisors, RecoverHandled(s)
  PROVE  IInv'
<1>1. PICK i \in unappended[s] :
        /\ unappended' = [unappended EXCEPT ![s] = @ \ {i}]
        /\ op' = [op EXCEPT ![s] = journal[i]]
  BY DEF RecoverHandled
<1>2. /\ pc[s] = "recover"
      /\ UNCHANGED <<journal, truncated, accepted, acked, streams, late, sideEffects>>
      /\ pc'[s] = "reappend" /\ op'[s] = journal[i]
      /\ unappended'[s] = unappended[s] \ {i}
      /\ journalPos'[s] = journalPos[s] /\ unhandled'[s] = unhandled[s]
      /\ recovering'[s] = recovering[s] /\ eventStreamID'[s] = eventStreamID[s]
      /\ eventOffsetHint'[s] = eventOffsetHint[s]
  BY <1>1, Parts DEF RecoverHandled, Goto, durable, memory, seen
<1>3. Changes(s)
  BY <1>1, <1>2, Parts DEF RecoverHandled, Goto, Changes, memory, TypeOK
<1>4. /\ i \in 1..Len(journal) /\ i <= journalPos[s]
      /\ journal[i] \in Record /\ journal[i].op = "CommandHandled"
      /\ journal[i].events # None
      /\ ~Within(journalPos[s], "EventsAppended", journal[i].cmd)
      /\ recovering[s] # FALSE
  <2>1. journal \in Seq(Record) /\ i \in 1..Len(journal)
    BY <1>1, Parts DEF LocalType, SharedType
  <2>2. journal[i] \in Record
    BY <2>1
  <2> QED
    BY <1>1, <2>1, <2>2, Parts DEF PendingInv
<1>5. LocalType(s)'
  <2>1. OpOf(s)' = "CommandHandled"
    BY <1>2 DEF OpOf
  <2> QED
    BY <1>2, <1>4, <2>1, Parts DEF LocalType, PCs
<1>6. PendingInv(s)'
  BY <1>2, <1>4, Parts DEF PendingInv, Within
<1>7. OpInv(s)'
  <2>1. Within(journalPos[s], "CommandHandled", journal[i].cmd)
    BY <1>4, Parts DEF Within
  <2>2. \A j \in unappended[s] \ {i} : journal[j].cmd # journal[i].cmd
    BY <1>4, Parts DEF JournalInv, RecordedOnce, PendingInv, LocalType
  <2>3. journal[i].cmd \in accepted /\ Addressed(journal[i])
    BY <1>4, Parts DEF JournalInv, SetIsBehind, RecordsAddressed
  <2> QED
    BY <1>2, <1>4, <2>1, <2>2, <2>3 DEF OpInv, Within, Addressed
<1>8. Cover(s)'
  BY <1>2, Parts DEF Cover
<1> QED
  BY <1>2, <1>3, <1>5, <1>6, <1>7, <1>8, Parts, QuietStep DEF SupervisorInv, SharedType

\* So it does when it takes up an accepted command.
LEMMA RecoverAcceptedKeeps ==
  ASSUME IInv, NEW s \in Supervisors, RecoverAccepted(s)
  PROVE  IInv'
<1>1. PICK i \in unhandled[s] :
        /\ unhandled' = [unhandled EXCEPT ![s] = @ \ {i}]
        /\ op' = [op EXCEPT ![s] = journal[i]]
  BY DEF RecoverAccepted
<1>2. /\ pc[s] = "recover" /\ unappended[s] = {}
      /\ UNCHANGED <<journal, truncated, accepted, acked, streams, late, sideEffects>>
      /\ pc'[s] = "add" /\ op'[s] = journal[i]
      /\ unhandled'[s] = unhandled[s] \ {i}
      /\ journalPos'[s] = journalPos[s] /\ unappended'[s] = unappended[s]
      /\ recovering'[s] = recovering[s] /\ eventStreamID'[s] = eventStreamID[s]
      /\ eventOffsetHint'[s] = eventOffsetHint[s]
  BY <1>1, Parts DEF RecoverAccepted, Goto, durable, memory, seen
<1>3. Changes(s)
  BY <1>1, <1>2, Parts DEF RecoverAccepted, Goto, Changes, memory, TypeOK
<1>4. /\ i \in 1..Len(journal) /\ i <= journalPos[s]
      /\ journal[i] \in Record /\ journal[i].op = "CommandAccepted"
      /\ ~Within(journalPos[s], "CommandHandled", journal[i].cmd)
      /\ recovering[s] # FALSE
  <2>1. journal \in Seq(Record) /\ i \in 1..Len(journal)
    BY <1>1, Parts DEF LocalType, SharedType
  <2>2. journal[i] \in Record
    BY <2>1
  <2> QED
    BY <1>1, <2>1, <2>2, Parts DEF PendingInv
<1>5. LocalType(s)'
  <2>1. OpOf(s)' = "CommandAccepted"
    BY <1>2 DEF OpOf
  <2> QED
    BY <1>2, <1>4, <2>1, Parts DEF LocalType, PCs
<1>6. PendingInv(s)'
  BY <1>2, <1>4, Parts DEF PendingInv, Within
<1>7. OpInv(s)'
  <2>1. Within(journalPos[s], "CommandAccepted", journal[i].cmd)
    BY <1>4, Parts DEF Within
  <2>2. \A j \in unhandled[s] \ {i} : journal[j].cmd # journal[i].cmd
    BY <1>4, Parts DEF JournalInv, RecordedOnce, PendingInv, LocalType
  <2> QED
    BY <1>2, <1>4, <2>1, <2>2 DEF OpInv, Within
<1>8. Cover(s)'
  BY <1>2, Parts DEF Cover
<1> QED
  BY <1>2, <1>3, <1>5, <1>6, <1>7, <1>8, Parts, QuietStep DEF SupervisorInv, SharedType

\* The commands that recovery leaves behind are in the set, so that their
\* records may be truncated.
LEMMA RecoveredIsAccepted ==
  ASSUME IInv, NEW s \in Supervisors, pc[s] = "recover", unhandled[s] = {},
         journal' = journal, accepted' = accepted, acked' = acked,
         truncated' \in Nat, truncated' <= journalPos[s] \/ truncated' = truncated
  PROVE  JournalInv' /\ RecordsAddressed'
<1>1. JournalInv /\ RecordsAddressed /\ Cover(s) /\ journalPos[s] \in 0..Len(journal)
  BY Parts
<1>2. \A i \in 1..journalPos[s] : journal[i].cmd \in accepted
  BY <1>1 DEF Cover
<1>3. SetIsBehind'
  <2>1. ASSUME NEW i \in 1..Len(journal),
               i <= truncated' \/ journal[i].op # "CommandAccepted"
        PROVE  journal[i].cmd \in accepted
    <3>1. CASE i \in 1..journalPos[s]
      BY <1>2, <3>1
    <3>2. CASE i > journalPos[s]
      <4>1. i <= truncated' => i <= truncated
        BY <1>1, <2>1, <3>2, Parts DEF SharedType
      <4> QED
        BY <1>1, <2>1, <4>1 DEF JournalInv, SetIsBehind
    <3> QED
      BY <1>1, <3>1, <3>2
  <2> QED
    BY <1>1, <2>1 DEF JournalInv, SetIsBehind, Within
<1> QED
  BY <1>1, <1>3 DEF JournalInv, RecordedOnce, Ordered, Within, RecordsAddressed,
                    Addressed

\* The invariant survives a truncation of the journal at the end of recovery: no
\* work is left pending then, neither in the journal nor in the supervisor.
LEMMA TruncateKeeps ==
  ASSUME IInv, NEW s \in Supervisors, Truncate(s)
  PROVE  IInv'
<1>1. /\ pc[s] = "recover" /\ unappended[s] = {} /\ unhandled[s] = {}
      /\ UNCHANGED <<journal, accepted, acked, streams, late, sideEffects>>
      /\ truncated' = IF journalPos[s] > truncated THEN journalPos[s] ELSE truncated
      /\ pc'[s] = "idle" /\ recovering'[s] = FALSE
      /\ op'[s] = op[s] /\ unhandled'[s] = unhandled[s]
      /\ journalPos'[s] = journalPos[s] /\ unappended'[s] = unappended[s]
      /\ eventStreamID'[s] = eventStreamID[s]
      /\ eventOffsetHint'[s] = eventOffsetHint[s]
  BY Parts DEF Truncate, Goto, memory, seen
<1>2. Changes(s)
  BY <1>1, Parts DEF Truncate, Goto, Changes, memory, TypeOK
<1>3. JournalInv' /\ RecordsAddressed'
  BY <1>1, RecoveredIsAccepted, Parts DEF SharedType
<1>4. SharedType'
  BY <1>1, Parts DEF SharedType
<1>5. LocalType(s)'
  <2>1. OpOf(s)' = "none" /\ OpOf(s) = "none"
    BY <1>1 DEF OpOf
  <2> QED
    BY <1>1, <2>1, Parts DEF LocalType, PCs
<1>6. SupervisorInv(s)'
  <2>1. Cover(s)'
    BY <1>1, Parts DEF Cover
  <2>2. PendingInv(s)' /\ OpInv(s)'
    BY <1>1, Parts DEF PendingInv, OpInv
  <2> QED
    BY <2>1, <2>2 DEF SupervisorInv
<1> QED
  BY <1>1, <1>2, <1>3, <1>4, <1>5, <1>6, Frame DEF Extends

\* A truncation that fails half way drops no more than one that succeeds.
LEMMA TruncateFailsKeeps ==
  ASSUME IInv, NEW s \in Supervisors, TruncateFails(s)
  PROVE  IInv'
<1>1. /\ pc[s] = "recover" /\ unhandled[s] = {} /\ Return(s)
      /\ UNCHANGED <<journal, accepted, acked, streams, late, sideEffects, memory>>
      /\ truncated' \in truncated .. journalPos[s]
  BY DEF TruncateFails, seen
<1>2. truncated' \in 0..Len(journal) /\ truncated' <= journalPos[s]
  BY <1>1, Parts DEF SharedType
<1>3. JournalInv' /\ RecordsAddressed'
  BY <1>1, <1>2, RecoveredIsAccepted
<1>4. SharedType'
  BY <1>1, <1>2, Parts DEF SharedType
<1> QED
  BY <1>1, <1>3, <1>4, ReturnKeeps DEF Extends, KeepsMemory

\* A command that is not in the set is not in the prefix an idle supervisor
\* knows, and one that is in the set may be acknowledged.
LEMMA AcceptCommandKeeps ==
  ASSUME IInv, NEW s \in Supervisors, NEW c \in Commands, AcceptCommand(s, c)
  PROVE  IInv'
<1>1. /\ pc[s] = "idle"
      /\ UNCHANGED <<journal, truncated, accepted, streams, late, sideEffects>>
      /\ unhandled'[s] = unhandled[s] /\ journalPos'[s] = journalPos[s]
      /\ unappended'[s] = unappended[s] /\ recovering'[s] = recovering[s]
      /\ eventStreamID'[s] = eventStreamID[s]
      /\ eventOffsetHint'[s] = eventOffsetHint[s]
  BY Parts DEF AcceptCommand, durable, pending, memory
<1>2. Changes(s)
  BY Parts DEF AcceptCommand, Goto, Changes, pending, memory, TypeOK
<1>3. unhandled[s] = {} /\ unappended[s] = {} /\ recovering[s] = FALSE
  BY <1>1, Parts DEF PendingInv, LocalType
<1>4. CASE c \in accepted
  <2>1. acked' = acked \cup {c} /\ pc' = pc /\ op' = op
    BY <1>4 DEF AcceptCommand, AlreadyAccepted
  <2>2. JournalInv' /\ RecordsAddressed'
    <3>1. Within(Len(journal), "CommandAccepted", c)
      BY <1>4, Parts DEF JournalInv, SetIsBehind
    <3>2. \A d \in acked' : Within(Len(journal), "CommandAccepted", d)'
      <4>1. \A d \in acked \cup {c} : Within(Len(journal), "CommandAccepted", d)
        BY <3>1, Parts DEF JournalInv
      <4> QED
        BY <1>1, <2>1, <4>1 DEF Within
    <3>3. RecordedOnce' /\ Ordered' /\ SetIsBehind' /\ RecordsAddressed'
      BY <1>1, Parts DEF JournalInv, RecordedOnce, Ordered, SetIsBehind, Within,
         RecordsAddressed, Addressed
    <3> QED
      BY <3>2, <3>3 DEF JournalInv
  <2>3. SharedType'
    BY <1>1, <2>1, Parts DEF SharedType
  <2>4. LocalType(s)'
    BY <1>1, <2>1, Parts DEF LocalType, OpOf
  <2>5. SupervisorInv(s)'
    BY <1>1, <1>3, <2>1, Parts DEF SupervisorInv, PendingInv, OpInv, Cover
  <2> QED
    BY <1>1, <1>2, <2>2, <2>3, <2>4, <2>5, Frame DEF Extends
<1>5. CASE c \notin accepted
  <2>1. /\ acked' = acked /\ pc'[s] = "accept" /\ op'[s] = CommandAccepted(c)
    BY <1>5, Parts DEF AcceptCommand, AlreadyAccepted, Goto
  <2>2. /\ CommandAccepted(c) \in Record /\ CommandAccepted(c).op = "CommandAccepted"
        /\ CommandAccepted(c).cmd = c /\ CommandAccepted(c).events = None
    BY DEF CommandAccepted, Record
  <2>3. LocalType(s)'
    <3>1. OpOf(s)' = "CommandAccepted"
      BY <2>1 DEF OpOf
    <3> QED
      BY <1>1, <2>1, <2>2, <3>1, Parts DEF LocalType, PCs
  <2>4. ~Within(journalPos[s], "CommandAccepted", c)
    BY <1>1, <1>3, <1>5, Parts DEF Cover, Within
  <2>5. PendingInv(s)' /\ Cover(s)'
    BY <1>1, <1>3, <2>1, Parts DEF PendingInv, Cover
  <2>6. OpInv(s)'
    BY <1>1, <2>1, <2>2, <2>4 DEF OpInv, Within, Addressed
  <2> QED
    BY <1>1, <1>2, <2>1, <2>3, <2>5, <2>6, Parts, QuietStep
       DEF SupervisorInv, SharedType
<1> QED
  BY <1>4, <1>5

\* A supervisor whose record the journal has taken again knows all of it.
LEMMA KnowsAll ==
  ASSUME IInv, NEW s \in Supervisors, NEW r \in Record,
         journal' = Append(journal, r), journalPos[s] = Len(journal),
         journalPos'[s] = journalPos[s] + 1,
         unhandled'[s] = unhandled[s], unappended'[s] = unappended[s]
  PROVE  /\ \A o, c : Within(journalPos[s], o, c)' <=>
                       Within(journalPos[s], o, c) \/ (r.op = o /\ r.cmd = c)
         /\ \A i \in 1..journalPos[s] : journal'[i] = journal[i]
         /\ \A i \in unhandled'[s] : i <= journalPos[s] /\ journal'[i] = journal[i]
         /\ \A i \in unappended'[s] : i <= journalPos[s] /\ journal'[i] = journal[i]
         /\ \A i \in 1..journalPos'[s] : i \in 1..journalPos[s] \/ i = journalPos[s] + 1
         /\ journal'[journalPos[s] + 1] = r
         /\ journalPos'[s] \in 0..Len(journal')
         /\ unhandled'[s] \in SUBSET (1..Len(journal'))
         /\ unappended'[s] \in SUBSET (1..Len(journal'))
         /\ SharedType => journal' \in Seq(Record) /\ truncated \in 0..Len(journal')
<1>1. /\ TypeOK /\ LocalType(s) /\ PendingInv(s) /\ Len(journal) \in Nat
  BY Parts
<1>2. /\ Len(journal') = Len(journal) + 1
      /\ journal' \in Seq(Record)
      /\ \A i \in 1..Len(journal) : journal'[i] = journal[i]
      /\ journal'[Len(journal) + 1] = r
  BY <1>1, WithinAppend
<1>3. \A o, c : Within(Len(journal), o, c)' <=>
                Within(Len(journal), o, c) \/ (r.op = o /\ r.cmd = c)
  BY <1>1, WithinAppend
<1>4. journalPos'[s] = Len(journal')
  BY <1>2
<1>5. \A o, c : Within(journalPos[s], o, c)' <=>
                Within(journalPos[s], o, c) \/ (r.op = o /\ r.cmd = c)
  BY <1>3, <1>4 DEF Within
<1> QED
  BY <1>1, <1>2, <1>4, <1>5 DEF LocalType, SharedType

\* A command whose acceptance is the next record was never handled.
LEMMA JournalAcceptedKeeps ==
  ASSUME IInv, NEW s \in Supervisors, JournalAccepted(s)
  PROVE  IInv'
<1> DEFINE r == op[s]
           p == journalPos[s]
<1>1. /\ pc[s] = "accept" /\ AtEnd(s) /\ p = Len(journal)
      /\ journal' = Append(journal, r)
      /\ UNCHANGED <<truncated, accepted, streams, late, sideEffects>>
      /\ acked' = acked \cup {r.cmd} /\ op'[s] = op[s]
      /\ unhandled'[s] = unhandled[s] /\ journalPos'[s] = p + 1
      /\ unappended'[s] = unappended[s] /\ recovering'[s] = recovering[s]
      /\ eventStreamID'[s] = eventStreamID[s]
      /\ eventOffsetHint'[s] = eventOffsetHint[s] /\ pc'[s] = "add"
  BY Parts DEF JournalAccepted, AppendRecord, AtEnd, Advance, Goto, pending, memory
<1>2. Changes(s)
  BY <1>1, Parts DEF JournalAccepted, Advance, Goto, Changes, pending, memory, TypeOK
<1>3. /\ r \in Record /\ NextRecord(r) /\ r.op = "CommandAccepted"
      /\ r.cmd \in Commands
  <2>1. ToAppend(s) = r
    BY <1>1 DEF ToAppend
  <2>2. OpOf(s) # "none"
    BY <1>1 DEF OpOf
  <2> QED
    BY <1>1, <2>1, <2>2, AppendIsNext, Parts
<1>4. JournalInv' /\ RecordsAddressed'
  BY <1>1, <1>3, JournalInvAppend, Parts
<1>5. unhandled[s] = {} /\ unappended[s] = {} /\ recovering[s] = FALSE
  BY <1>1, Parts DEF PendingInv, LocalType
<1>6. SharedType'
  BY <1>1, <1>3, KnowsAll, Parts DEF SharedType
<1>7. LocalType(s)'
  <2>1. OpOf(s)' = "CommandAccepted"
    BY <1>1 DEF OpOf
  <2> QED
    BY <1>1, <1>3, <2>1, KnowsAll, Parts DEF LocalType, PCs
<1>8. ~Within(p, "CommandHandled", r.cmd)
  <2>1. ASSUME NEW k \in 1..Len(journal), journal[k].op = "CommandHandled",
               journal[k].cmd = r.cmd
        PROVE  FALSE
    <3>1. PICK m \in 1..k-1 : /\ journal[m].op = "CommandAccepted"
                              /\ journal[m].cmd = r.cmd
      BY <2>1, Parts DEF JournalInv, Ordered, Within
    <3>2. m \in 1..Len(journal)
      BY Parts
    <3> QED
      BY <1>3, <3>1, <3>2 DEF NextRecord, Within
  <2> QED
    BY <1>1, <2>1 DEF Within
<1>9. PendingInv(s)'
  BY <1>1, <1>5 DEF PendingInv
<1>10. OpInv(s)'
  <2>1. /\ \E i \in 1..journalPos'[s] : /\ journal'[i].op = "CommandAccepted"
                                       /\ journal'[i].cmd = r.cmd
        /\ ~\E i \in 1..journalPos'[s] : /\ journal'[i].op = "CommandHandled"
                                        /\ journal'[i].cmd = r.cmd
    <3>1. \A i \in 1..p : ~(journal'[i].op = "CommandHandled" /\ journal'[i].cmd = r.cmd)
      BY <1>1, <1>3, <1>8, KnowsAll DEF Within
    <3>2. journal'[p + 1] = r /\ p + 1 \in 1..journalPos'[s]
      BY <1>1, <1>3, KnowsAll, Parts
    <3>3. \A i \in 1..journalPos'[s] : i \in 1..p \/ i = p + 1
      BY <1>1, <1>3, KnowsAll
    <3> QED
      BY <1>3, <3>1, <3>2, <3>3
  <2> QED
    BY <1>1, <1>5, <2>1 DEF OpInv, Within
<1>11. Cover(s)'
  <2>1. \A i \in 1..p : journal'[i].cmd \in accepted
    BY <1>1, <1>3, <1>5, KnowsAll, Parts DEF Cover
  <2>2. journal'[p + 1].cmd = r.cmd
    BY <1>1, <1>3, KnowsAll
  <2>3. \A i \in 1..journalPos'[s] : i \in 1..p \/ i = p + 1
    BY <1>1, <1>3, KnowsAll
  <2> QED
    BY <1>1, <2>1, <2>2, <2>3 DEF Cover
<1>12. SupervisorInv(s)'
  BY <1>9, <1>10, <1>11 DEF SupervisorInv
<1> QED
  BY <1>1, <1>2, <1>3, <1>4, <1>6, <1>7, <1>12, Frame DEF Extends

\* A command is added to the set while its acceptance is in the journal.
LEMMA AddedIsJournaled ==
  ASSUME IInv, NEW s \in Supervisors, pc[s] = "add",
         accepted' = accepted \cup {op[s].cmd}, journal' = journal,
         truncated' = truncated, acked' = acked
  PROVE  JournalInv' /\ RecordsAddressed'
<1>1. Within(Len(journal), "CommandAccepted", op[s].cmd)
  BY WithinMonotone, Parts DEF OpInv
<1>2. \A c \in accepted' : Within(Len(journal), "CommandAccepted", c)
  BY <1>1, Parts DEF JournalInv, SetIsBehind
<1>3. SetIsBehind'
  BY <1>2, Parts DEF JournalInv, SetIsBehind, Within
<1> QED
  BY <1>3, Parts DEF JournalInv, RecordedOnce, Ordered, Within, RecordsAddressed,
     Addressed

\* From then on the set covers the command.
LEMMA AddToAcceptedKeeps ==
  ASSUME IInv, NEW s \in Supervisors, AddToAccepted(s)
  PROVE  IInv'
<1>1. /\ pc[s] = "add"
      /\ UNCHANGED <<journal, truncated, acked, streams, late, sideEffects>>
      /\ accepted' = accepted \cup {op[s].cmd} /\ op'[s] = op[s]
      /\ unhandled'[s] = unhandled[s] /\ journalPos'[s] = journalPos[s]
      /\ unappended'[s] = unappended[s] /\ recovering'[s] = recovering[s]
      /\ eventStreamID'[s] = eventStreamID[s]
      /\ eventOffsetHint'[s] = eventOffsetHint[s] /\ pc'[s] = "handle"
  BY Parts DEF AddToAccepted, Goto, pending, memory, seen
<1>2. Changes(s)
  BY <1>1, Parts DEF AddToAccepted, Goto, Changes, pending, memory, TypeOK
<1>3. JournalInv' /\ RecordsAddressed'
  BY <1>1, AddedIsJournaled
<1>4. op[s].cmd \in Commands
  <2>1. OpOf(s) # "none"
    BY <1>1 DEF OpOf
  <2> QED
    BY <2>1, Parts
<1>5. SharedType'
  BY <1>1, <1>4, Parts DEF SharedType
<1>6. LocalType(s)'
  <2>1. OpOf(s)' = OpOf(s)
    BY <1>1 DEF OpOf
  <2> QED
    BY <1>1, <2>1, Parts DEF LocalType, PCs
<1>7. PendingInv(s)' /\ OpInv(s)' /\ Cover(s)'
  BY <1>1, Parts DEF PendingInv, OpInv, Cover, Within, Addressed
<1>8. SupervisorInv(s)'
  BY <1>7 DEF SupervisorInv
<1> QED
  BY <1>1, <1>2, <1>3, <1>5, <1>6, <1>8, Frame DEF Extends

\* The handler returns: the outcome of the command is in hand.
LEMMA HandleCommandKeeps ==
  ASSUME IInv, NEW s \in Supervisors, HandleCommand(s)
  PROVE  IInv'
<1>1. PICK e \in EventIDs \cup {None} :
        LET target == IF e = None THEN <<None, 0>>
                      ELSE <<eventStreamID[s], eventOffsetHint[s]>>
        IN  /\ op' = [op EXCEPT ![s] =
                        CommandHandled(@.cmd, e, target[1], target[2])]
            /\ Goto(s, IF e # None /\ eventStreamID[s] = None
                       THEN "select" ELSE "record")
  BY DEF HandleCommand
<1> DEFINE k == IF e = None THEN None ELSE eventStreamID[s]
           h == IF e = None THEN 0 ELSE eventOffsetHint[s]
           r == CommandHandled(op[s].cmd, e, k, h)
<1>2. /\ pc[s] = "handle"
      /\ UNCHANGED <<journal, truncated, accepted, acked, streams, late>>
      /\ sideEffects' = sideEffects \cup {op[s].cmd}
      /\ unhandled'[s] = unhandled[s] /\ journalPos'[s] = journalPos[s]
      /\ unappended'[s] = unappended[s] /\ recovering'[s] = recovering[s]
      /\ eventStreamID'[s] = eventStreamID[s]
      /\ eventOffsetHint'[s] = eventOffsetHint[s]
  BY Parts DEF HandleCommand, durable, pending, memory
<1>3. /\ op' = [op EXCEPT ![s] = r] /\ op'[s] = r
      /\ pc'[s] = IF e # None /\ eventStreamID[s] = None THEN "select" ELSE "record"
  BY <1>1, Parts DEF Goto
<1>4. Changes(s)
  BY <1>1, <1>2, <1>3, Parts DEF HandleCommand, Goto, Changes, pending, memory, TypeOK
<1>5. op[s].cmd \in Commands
  <2>1. OpOf(s) # "none"
    BY <1>2 DEF OpOf
  <2> QED
    BY <2>1, Parts
<1>6. /\ r \in Record /\ r.op = "CommandHandled" /\ r.cmd = op[s].cmd
      /\ (pc'[s] = "record" => Addressed(r))
  BY <1>3, <1>5, Parts DEF CommandHandled, Record, LocalType, Addressed
<1> HIDE DEF r
<1>7. LocalType(s)'
  <2>1. OpOf(s)' = "CommandHandled"
    BY <1>3 DEF OpOf
  <2> QED
    BY <1>2, <1>3, <1>6, <2>1, Parts DEF LocalType, PCs
<1>8. PendingInv(s)' /\ Cover(s)'
  <2>1. PendingInv(s) /\ Cover(s) /\ pc[s] # "add"
    BY <1>2, Parts
  <2>2. pc'[s] \in {"select", "record"}
    BY <1>3
  <2>3. PendingInv(s)'
    BY <1>2, <2>1, <2>2 DEF PendingInv, Within
  <2>4. Cover(s)'
    BY <1>2, <2>1, <2>2 DEF Cover
  <2> QED
    BY <2>3, <2>4
<1>9. OpInv(s)'
  <2>1. pc'[s] \in {"select", "record"} /\ (pc'[s] = "record" => Addressed(r))
    BY <1>3, <1>6
  <2>2. /\ Within(journalPos[s], "CommandAccepted", op[s].cmd)
        /\ ~Within(journalPos[s], "CommandHandled", op[s].cmd)
        /\ \A i \in unhandled[s] : journal[i].cmd # op[s].cmd
        /\ op[s].cmd \in accepted
    <3>1. OpInv(s)
      BY Parts
    <3> QED
      BY <1>2, <3>1 DEF OpInv
  <2>3. \A o : Within(journalPos[s], o, op[s].cmd)'
                 <=> Within(journalPos[s], o, r.cmd)
    BY <1>2, <1>3, <1>6 DEF Within
  <2> QED
    BY <1>2, <1>3, <1>6, <2>1, <2>2, <2>3 DEF OpInv, Within, Addressed
<1> QED
  BY <1>2, <1>4, <1>5, <1>7, <1>8, <1>9, QuietStep, Parts DEF SupervisorInv, SharedType

\* The record gets the stream and the hint.
LEMMA SelectEventStreamKeeps ==
  ASSUME IInv, NEW s \in Supervisors, SelectEventStream(s)
  PROVE  IInv'
<1>1. PICK k \in Streams :
        /\ eventStreamID' = [eventStreamID EXCEPT ![s] = k]
        /\ eventOffsetHint' = [eventOffsetHint EXCEPT ![s] = Len(streams[k])]
        /\ op' = [op EXCEPT ![s].stream = k, ![s].hint = Len(streams[k])]
  BY DEF SelectEventStream
<1> DEFINE r == [op[s] EXCEPT !.stream = k, !.hint = Len(streams[k])]
<1>2. /\ pc[s] = "select"
      /\ UNCHANGED <<journal, truncated, accepted, acked, streams, late, sideEffects>>
      /\ unhandled'[s] = unhandled[s] /\ journalPos'[s] = journalPos[s]
      /\ unappended'[s] = unappended[s] /\ recovering'[s] = recovering[s]
      /\ pc'[s] = "record" /\ eventStreamID'[s] = k
      /\ eventOffsetHint'[s] = Len(streams[k]) /\ op'[s] = r
  BY <1>1, Parts DEF SelectEventStream, Goto, durable, pending, seen
<1>3. Changes(s)
  BY <1>1, <1>2, Parts DEF SelectEventStream, Goto, Changes, pending, TypeOK
<1>4. Len(streams[k]) \in Nat
  <2>1. streams[k] \in Seq(Batch)
    BY Parts DEF SharedType
  <2> QED
    BY <2>1
<1>5. op[s] \in Record /\ op[s].op = "CommandHandled"
  <2>1. OpOf(s) = "CommandHandled"
    BY <1>2 DEF OpOf
  <2> QED
    BY <2>1, Parts
<1>6. /\ r \in Record /\ r.op = "CommandHandled" /\ r.cmd = op[s].cmd
      /\ r.stream = k
  BY <1>4, <1>5 DEF Record
<1> HIDE DEF r
<1>7. LocalType(s)'
  <2>1. OpOf(s)' = "CommandHandled"
    BY <1>2 DEF OpOf
  <2> QED
    BY <1>2, <1>4, <1>6, <2>1, Parts DEF LocalType, PCs
<1>8. PendingInv(s)'
  <2>1. PendingInv(s)
    BY Parts
  <2> QED
    BY <1>2, <2>1 DEF PendingInv, Within
<1>9. Cover(s)'
  <2>1. Cover(s)
    BY Parts
  <2> QED
    BY <1>2, <2>1 DEF Cover
<1>10. OpInv(s)'
  <2>1. OpInv(s)
    BY Parts
  <2> QED
    BY <1>2, <1>6, <2>1 DEF OpInv, Within, Addressed
<1>11. SupervisorInv(s)'
  BY <1>8, <1>9, <1>10 DEF SupervisorInv
<1> QED
  BY <1>2, <1>3, <1>7, <1>11, QuietStep, Parts DEF SharedType

\* The events go to the stream the record names.
LEMMA AppendEventsKeeps ==
  ASSUME IInv, NEW s \in Supervisors, AppendEvents(s)
  PROVE  IInv'
<1>1. /\ pc[s] \in {"append", "reappend"}
      /\ UNCHANGED <<journal, truncated, accepted, acked, late, sideEffects>>
      /\ unhandled'[s] = unhandled[s] /\ journalPos'[s] = journalPos[s]
      /\ unappended'[s] = unappended[s] /\ recovering'[s] = recovering[s]
      /\ eventStreamID'[s] = eventStreamID[s] /\ op'[s] = op[s]
      /\ pc'[s] = "mark" /\ AppendToStream(op[s])
  BY Parts DEF AppendEvents, Goto, pending, seen
<1>2. /\ op[s] \in Record /\ op[s].stream \in Streams
      /\ Len(streams[op[s].stream]) \in Nat
  <2>1. OpOf(s) # "none"
    BY <1>1 DEF OpOf
  <2>2. op[s] \in Record /\ op[s].stream \in Streams
    BY <1>1, <2>1, Parts DEF OpInv, Addressed
  <2>3. streams[op[s].stream] \in Seq(Batch)
    BY <2>2, Parts DEF SharedType
  <2> QED
    BY <2>2, <2>3
<1>3. /\ eventOffsetHint' = [eventOffsetHint EXCEPT ![s] = eventOffsetHint'[s]]
      /\ eventOffsetHint'[s] \in Nat
  <2>1. CASE SameStreamPointer(s)
    <3>1. PICK end \in 1 .. Len(streams[op[s].stream]) + 1 :
            eventOffsetHint' = [eventOffsetHint EXCEPT ![s] = end]
      BY <2>1 DEF AppendEvents
    <3>2. end \in Nat
      BY <1>2
    <3> QED
      BY <3>1, <3>2, Parts
  <2>2. CASE ~SameStreamPointer(s)
    <3>1. eventOffsetHint' = eventOffsetHint
      BY <2>2 DEF AppendEvents
    <3> QED
      BY <3>1, Parts DEF TypeOK
  <2> QED
    BY <2>1, <2>2
<1>4. Changes(s)
  BY <1>3, Parts DEF AppendEvents, Goto, Changes, pending, TypeOK
<1>5. streams' \in [Streams -> Seq(Batch)]
  BY <1>1, <1>2, StreamsType, Parts
<1>6. LocalType(s)'
  <2>1. OpOf(s)' = OpOf(s)
    BY <1>1 DEF OpOf
  <2> QED
    BY <1>1, <1>3, <2>1, Parts DEF LocalType, PCs
<1>7. PendingInv(s)'
  BY <1>1, Parts DEF PendingInv, Within
<1>8. OpInv(s)' /\ Cover(s)'
  BY <1>1, Parts DEF OpInv, Cover, Within, Addressed
<1> QED
  BY <1>1, <1>4, <1>5, <1>6, <1>7, <1>8, QuietStep, Parts DEF SupervisorInv, SharedType

\* The outcome of a command is recorded once.  It is finished if it has no
\* events, and otherwise they were never marked as appended.
LEMMA JournalHandledKeeps ==
  ASSUME IInv, NEW s \in Supervisors, JournalHandled(s)
  PROVE  IInv'
<1> DEFINE r == op[s]
           p == journalPos[s]
<1>1. /\ pc[s] = "record" /\ AtEnd(s) /\ p = Len(journal)
      /\ journal' = Append(journal, r)
      /\ UNCHANGED <<truncated, accepted, acked, streams, late, sideEffects>>
      /\ unhandled'[s] = unhandled[s] /\ journalPos'[s] = p + 1
      /\ unappended'[s] = unappended[s] /\ recovering'[s] = recovering[s]
      /\ eventStreamID'[s] = eventStreamID[s]
      /\ eventOffsetHint'[s] = eventOffsetHint[s]
  BY Parts DEF JournalHandled, AppendRecord, AtEnd, Advance, pending, memory, seen
<1>2. Changes(s)
  BY <1>1, Parts DEF JournalHandled, Finish, Advance, Goto, Changes, pending, memory,
                     TypeOK
<1>3. /\ r \in Record /\ NextRecord(r) /\ r.op = "CommandHandled"
      /\ r.cmd \in Commands
  <2>1. ToAppend(s) = r
    BY <1>1 DEF ToAppend
  <2>2. OpOf(s) # "none"
    BY <1>1 DEF OpOf
  <2> QED
    BY <1>1, <2>1, <2>2, AppendIsNext, Parts
<1>4. JournalInv' /\ RecordsAddressed'
  BY <1>1, <1>3, JournalInvAppend, Parts
<1>5. SharedType'
  BY <1>1, <1>3, KnowsAll, Parts DEF SharedType
<1>6. /\ unappended[s] = {} /\ r.cmd \in accepted /\ Addressed(r)
      /\ \A i \in unhandled[s] : journal[i].cmd # r.cmd
  BY <1>1, Parts DEF PendingInv, OpInv
<1>7. /\ \A i \in 1..p : journal'[i] = journal[i]
      /\ \A i \in unhandled[s] : i <= p /\ journal'[i] = journal[i]
      /\ \A i \in 1..journalPos'[s] : i \in 1..p \/ i = p + 1
      /\ journal'[p + 1] = r /\ p + 1 \in 1..journalPos'[s]
  BY <1>1, <1>3, KnowsAll, Parts
<1>8. ~Within(p, "EventsAppended", r.cmd)
  <2>1. ASSUME NEW k \in 1..Len(journal), journal[k].op = "EventsAppended",
               journal[k].cmd = r.cmd
        PROVE  FALSE
    <3>1. PICK m \in 1..k-1 : /\ journal[m].op = "CommandHandled"
                              /\ journal[m].cmd = r.cmd
      BY <2>1, Parts DEF JournalInv, Ordered, Within
    <3>2. m \in 1..Len(journal)
      BY Parts
    <3> QED
      BY <1>3, <3>1, <3>2 DEF NextRecord, Within
  <2> QED
    BY <1>1, <2>1 DEF Within
<1>9. Cover(s)'
  <2>1. \A i \in 1..p : \/ journal'[i].cmd \in accepted
                       \/ \E j \in unhandled[s] : journal'[j].cmd = journal'[i].cmd
    <3>1. Cover(s)
      BY Parts
    <3>2. pc[s] # "add"
      BY <1>1
    <3>3. /\ \A i \in 1..p : journal'[i] = journal[i]
          /\ \A j \in unhandled[s] : journal'[j] = journal[j]
      BY <1>7
    <3> TAKE i \in 1..p
    <3>4. CASE journal[i].cmd \in accepted
      BY <3>3, <3>4
    <3>5. CASE \E j \in unhandled[s] : journal[j].cmd = journal[i].cmd
      BY <3>3, <3>5
    <3> QED
      BY <3>1, <3>2, <3>4, <3>5 DEF Cover
  <2> QED
    BY <1>1, <1>6, <1>7, <2>1 DEF Cover
<1>10. \A i \in unhandled[s] :
         /\ i <= journalPos'[s] /\ journal'[i].op = "CommandAccepted"
         /\ ~\E j \in 1..journalPos'[s] : /\ journal'[j].op = "CommandHandled"
                                        /\ journal'[j].cmd = journal'[i].cmd
  <2> TAKE i \in unhandled[s]
  <2>1. /\ journal'[i] = journal[i] /\ journal[i].op = "CommandAccepted"
        /\ journal[i].cmd # r.cmd
    BY <1>6, <1>7, Parts DEF PendingInv
  <2>2. \A j \in 1..p :
          ~(journal[j].op = "CommandHandled" /\ journal[j].cmd = journal[i].cmd)
    BY Parts DEF PendingInv, Within
  <2>3. i \in Nat /\ p \in Nat /\ i <= p
    BY <1>7, Parts DEF LocalType
  <2>4. ASSUME NEW j \in 1..journalPos'[s], journal'[j].op = "CommandHandled",
               journal'[j].cmd = journal'[i].cmd
        PROVE  FALSE
    <3>1. CASE j \in 1..p
      BY <1>7, <2>1, <2>2, <2>4, <3>1
    <3>2. CASE j = p + 1
      BY <1>7, <2>1, <2>4, <3>2
    <3> QED
      BY <1>7, <3>1, <3>2
  <2> QED
    BY <1>1, <2>1, <2>3, <2>4
<1>11. CASE r.events = None
  <2>1. pc'[s] = (IF recovering[s] THEN "recover" ELSE "idle") /\ op'[s] = None
    BY <1>1, <1>11, Parts DEF JournalHandled, Finish, Goto
  <2>2. LocalType(s)'
    <3>1. OpOf(s)' = "none"
      BY <2>1 DEF OpOf
    <3> QED
      BY <1>1, <1>3, <2>1, <3>1, KnowsAll, Parts DEF LocalType, PCs
  <2>3. PendingInv(s)'
    BY <1>1, <1>6, <1>10, <2>1, Parts DEF PendingInv, Within, LocalType
  <2>4. OpInv(s)'
    BY <2>1 DEF OpInv
  <2> QED
    BY <1>1, <1>2, <1>3, <1>4, <1>5, <1>9, <2>2, <2>3, <2>4, Frame
       DEF SupervisorInv, Extends
<1>12. CASE r.events # None
  <2>1. pc'[s] = "append" /\ op'[s] = r
    BY <1>1, <1>12, Parts DEF JournalHandled, Goto
  <2>2. LocalType(s)'
    <3>1. OpOf(s)' = "CommandHandled"
      BY <2>1 DEF OpOf
    <3> QED
      BY <1>1, <1>3, <2>1, <3>1, KnowsAll, Parts DEF LocalType, PCs
  <2>3. PendingInv(s)'
    BY <1>1, <1>6, <1>10, <2>1, Parts DEF PendingInv, Within, LocalType
  <2>4. /\ \E i \in 1..journalPos'[s] : /\ journal'[i].op = "CommandHandled"
                                      /\ journal'[i].cmd = r.cmd
        /\ ~\E i \in 1..journalPos'[s] : /\ journal'[i].op = "EventsAppended"
                                       /\ journal'[i].cmd = r.cmd
    BY <1>3, <1>7, <1>8 DEF Within
  <2>5. OpInv(s)'
    BY <1>1, <1>6, <1>12, <2>1, <2>4 DEF OpInv, Within, Addressed
  <2> QED
    BY <1>1, <1>2, <1>3, <1>4, <1>5, <1>9, <2>2, <2>3, <2>5, Frame
       DEF SupervisorInv, Extends
<1> QED
  BY <1>11, <1>12

\* A command whose events are marked as appended is finished.
LEMMA JournalAppendedKeeps ==
  ASSUME IInv, NEW s \in Supervisors, JournalAppended(s)
  PROVE  IInv'
<1> DEFINE r == EventsAppended(op[s].cmd)
           p == journalPos[s]
<1>1. /\ pc[s] = "mark" /\ AtEnd(s) /\ p = Len(journal)
      /\ journal' = Append(journal, r)
      /\ UNCHANGED <<truncated, accepted, acked, streams, late, sideEffects>>
      /\ unhandled'[s] = unhandled[s] /\ journalPos'[s] = p + 1
      /\ unappended'[s] = unappended[s] /\ recovering'[s] = recovering[s]
      /\ eventStreamID'[s] = eventStreamID[s]
      /\ eventOffsetHint'[s] = eventOffsetHint[s]
      /\ pc'[s] = (IF recovering[s] THEN "recover" ELSE "idle") /\ op'[s] = None
  BY Parts DEF JournalAppended, Finish, Goto, AppendRecord, AtEnd, Advance, pending,
               memory, seen
<1>2. Changes(s)
  BY <1>1, Parts DEF JournalAppended, Finish, Advance, Goto, Changes, pending, memory,
                     TypeOK
<1>3. /\ r \in Record /\ NextRecord(r) /\ r.op = "EventsAppended"
      /\ r.cmd = op[s].cmd
  <2>1. ToAppend(s) = r
    BY <1>1 DEF ToAppend
  <2> QED
    BY <1>1, <2>1, AppendIsNext
<1> HIDE DEF r
<1>4. JournalInv' /\ RecordsAddressed'
  BY <1>1, <1>3, JournalInvAppend, Parts
<1>5. SharedType'
  BY <1>1, <1>3, KnowsAll, Parts DEF SharedType
<1>6. /\ r.cmd \in accepted
      /\ \A i \in unappended[s] : journal[i].cmd # r.cmd
  BY <1>1, <1>3, Parts DEF OpInv
<1>7. /\ \A i \in 1..p : journal'[i] = journal[i]
      /\ \A i \in unhandled[s] : i <= p + 1 /\ journal'[i] = journal[i]
      /\ \A i \in unappended[s] : i <= p + 1 /\ journal'[i] = journal[i]
      /\ \A i \in 1..journalPos'[s] : i \in 1..p \/ i = p + 1
      /\ journal'[p + 1] = r
  <2>1. /\ \A i \in unhandled[s] : i <= p /\ i \in Nat
        /\ \A i \in unappended[s] : i <= p /\ i \in Nat
        /\ p \in Nat
    BY Parts DEF PendingInv, LocalType
  <2> QED
    BY <1>1, <1>3, <2>1, KnowsAll
<1>8. LocalType(s)'
  <2>1. OpOf(s)' = "none"
    BY <1>1 DEF OpOf
  <2> QED
    BY <1>1, <1>3, <2>1, KnowsAll, Parts DEF LocalType, PCs
<1>9. Cover(s)'
  <2>1. \A i \in 1..p : \/ journal'[i].cmd \in accepted
                       \/ \E j \in unhandled[s] : journal'[j].cmd = journal'[i].cmd
    <3>1. Cover(s)
      BY Parts
    <3>2. pc[s] # "add"
      BY <1>1
    <3>3. /\ \A i \in 1..p : journal'[i] = journal[i]
          /\ \A j \in unhandled[s] : journal'[j] = journal[j]
      BY <1>7
    <3> TAKE i \in 1..p
    <3>4. CASE journal[i].cmd \in accepted
      BY <3>3, <3>4
    <3>5. CASE \E j \in unhandled[s] : journal[j].cmd = journal[i].cmd
      BY <3>3, <3>5
    <3> QED
      BY <3>1, <3>2, <3>4, <3>5 DEF Cover
  <2>2. ASSUME NEW i \in 1..journalPos'[s]
        PROVE  \/ journal'[i].cmd \in accepted
               \/ \E j \in unhandled[s] : journal'[j].cmd = journal'[i].cmd
    <3>1. CASE i \in 1..p
      BY <2>1, <3>1
    <3>2. CASE i = p + 1
      BY <1>6, <1>7, <3>2
    <3> QED
      BY <1>7, <3>1, <3>2
  <2>3. accepted' = accepted /\ unhandled'[s] = unhandled[s]
    BY <1>1
  <2> QED
    BY <2>2, <2>3 DEF Cover
<1>10. \A i \in unhandled[s] :
         /\ i <= journalPos'[s] /\ journal'[i].op = "CommandAccepted"
         /\ ~\E j \in 1..journalPos'[s] : /\ journal'[j].op = "CommandHandled"
                                        /\ journal'[j].cmd = journal'[i].cmd
  <2> TAKE i \in unhandled[s]
  <2>1. /\ journal'[i] = journal[i] /\ journal[i].op = "CommandAccepted"
        /\ i <= p + 1
    BY <1>7, Parts DEF PendingInv
  <2>2. \A j \in 1..p :
          ~(journal[j].op = "CommandHandled" /\ journal[j].cmd = journal[i].cmd)
    BY Parts DEF PendingInv, Within
  <2>3. ASSUME NEW j \in 1..journalPos'[s], journal'[j].op = "CommandHandled",
               journal'[j].cmd = journal'[i].cmd
        PROVE  FALSE
    <3>1. CASE j \in 1..p
      BY <1>7, <2>1, <2>2, <2>3, <3>1
    <3>2. CASE j = p + 1
      BY <1>3, <1>7, <2>3, <3>2
    <3> QED
      BY <1>7, <3>1, <3>2
  <2> QED
    BY <1>1, <2>1, <2>3
<1>11. \A i \in unappended[s] :
         /\ i <= journalPos'[s] /\ journal'[i].op = "CommandHandled"
         /\ journal'[i].events # None
         /\ ~\E j \in 1..journalPos'[s] : /\ journal'[j].op = "EventsAppended"
                                        /\ journal'[j].cmd = journal'[i].cmd
  <2> TAKE i \in unappended[s]
  <2>1. /\ journal'[i] = journal[i] /\ journal[i].op = "CommandHandled"
        /\ journal[i].events # None /\ journal[i].cmd # r.cmd /\ i <= p + 1
    BY <1>6, <1>7, Parts DEF PendingInv
  <2>2. \A j \in 1..p :
          ~(journal[j].op = "EventsAppended" /\ journal[j].cmd = journal[i].cmd)
    BY Parts DEF PendingInv, Within
  <2>3. ASSUME NEW j \in 1..journalPos'[s], journal'[j].op = "EventsAppended",
               journal'[j].cmd = journal'[i].cmd
        PROVE  FALSE
    <3>1. CASE j \in 1..p
      BY <1>7, <2>1, <2>2, <2>3, <3>1
    <3>2. CASE j = p + 1
      BY <1>7, <2>1, <2>3, <3>2
    <3> QED
      BY <1>7, <3>1, <3>2
  <2> QED
    BY <1>1, <2>1, <2>3
<1>12. PendingInv(s)'
  BY <1>1, <1>10, <1>11, Parts DEF PendingInv, Within, LocalType
<1>13. OpInv(s)'
  BY <1>1 DEF OpInv
<1> QED
  BY <1>1, <1>2, <1>3, <1>4, <1>5, <1>8, <1>9, <1>12, <1>13, Frame
     DEF SupervisorInv, Extends

\* A record that is written although Append returns an error was the next one.
LEMMA JournalFailsAfterAppendKeeps ==
  ASSUME IInv, NEW s \in Supervisors, JournalFailsAfterAppend(s)
  PROVE  IInv'
<1>1. /\ pc[s] \in {"accept", "record", "mark"} /\ AtEnd(s)
      /\ journal' = Append(journal, ToAppend(s)) /\ Return(s)
      /\ UNCHANGED <<truncated, accepted, acked, streams, late, sideEffects, memory>>
  BY DEF JournalFailsAfterAppend, AppendRecord, ToAppend, seen
<1>2. ToAppend(s) \in Record /\ NextRecord(ToAppend(s))
  BY <1>1, AppendIsNext
<1>3. JournalInv' /\ RecordsAddressed'
  BY <1>1, <1>2, JournalInvAppend, Parts
<1>4. SharedType'
  <2>1. Len(journal') = Len(journal) + 1 /\ journal' \in Seq(Record)
    BY <1>1, <1>2, WithinAppend, Parts
  <2> QED
    BY <1>1, <2>1, Parts DEF SharedType
<1> QED
  BY <1>1, <1>2, <1>3, <1>4, ReturnKeeps DEF Extends, KeepsMemory

\* So it is with an addition to the set.
LEMMA AddFailsAfterAddKeeps ==
  ASSUME IInv, NEW s \in Supervisors, AddFailsAfterAdd(s)
  PROVE  IInv'
<1>1. /\ pc[s] = "add" /\ accepted' = accepted \cup {op[s].cmd} /\ Return(s)
      /\ UNCHANGED <<journal, truncated, acked, streams, late, sideEffects, memory>>
  BY DEF AddFailsAfterAdd, seen
<1>2. JournalInv' /\ RecordsAddressed'
  BY <1>1, AddedIsJournaled
<1>3. op[s].cmd \in Commands
  <2>1. OpOf(s) # "none"
    BY <1>1 DEF OpOf
  <2> QED
    BY <2>1, Parts
<1>4. SharedType'
  BY <1>1, <1>3, Parts DEF SharedType
<1> QED
  BY <1>1, <1>2, <1>4, ReturnKeeps DEF Extends, KeepsMemory

\* Errors that leave the journal and the set as they are, and crashes.
LEMMA QuietReturnKeeps ==
  ASSUME IInv, NEW s \in Supervisors, Return(s), KeepsMemory(s),
         journal' = journal, truncated' = truncated, accepted' = accepted,
         acked' = acked, sideEffects' = sideEffects,
         streams' \in [Streams -> Seq(Batch)], late' \subseteq Record
  PROVE  IInv'
<1>1. JournalInv' /\ RecordsAddressed'
  BY JournalInvQuiet, Parts
<1>2. SharedType'
  BY Parts DEF SharedType
<1> QED
  BY <1>1, <1>2, ReturnKeeps DEF Extends

\* The invariant survives every way a supervisor can fail, before or after the
\* effect of the call it was making.
LEMMA FaultKeeps ==
  ASSUME IInv, NEW s \in Supervisors, Fault(s)
  PROVE  IInv'
<1>1. SharedType
  BY Parts
<1>2. ASSUME Stop(s) \/ Fail(s) \/ Conflict(s) PROVE IInv'
  BY <1>1, <1>2, QuietReturnKeeps
     DEF Stop, Fail, Conflict, durable, seen, KeepsMemory, SharedType
<1>3. ASSUME Crash(s) PROVE IInv'
  BY <1>1, <1>3, QuietReturnKeeps DEF Crash, durable, seen, KeepsMemory, SharedType
<1>4. ASSUME AppendFailsAfterAppend(s) PROVE IInv'
  <2>1. OpOf(s) # "none"
    BY <1>4 DEF AppendFailsAfterAppend, OpOf
  <2>2. op[s] \in Record
    BY <2>1, Parts
  <2>3. streams' \in [Streams -> Seq(Batch)] /\ late' \subseteq Record
    BY <1>1, <1>4, <2>2, StreamsType, Parts DEF AppendFailsAfterAppend, SharedType
  <2> QED
    BY <1>4, <2>3, QuietReturnKeeps DEF AppendFailsAfterAppend, seen, KeepsMemory
<1> QED
  BY <1>2, <1>3, <1>4, TruncateFailsKeeps, JournalFailsAfterAppendKeeps,
     AddFailsAfterAddKeeps DEF Fault

\* What others do to the streams concerns no supervisor.
LEMMA StreamsStep ==
  ASSUME IInv, UNCHANGED <<journal, truncated, accepted, local, seen>>,
         streams' \in [Streams -> Seq(Batch)], late' \subseteq Record
  PROVE  IInv'
<1>1. TypeOK /\ JournalInv /\ RecordsAddressed
      /\ \A s \in Supervisors : SupervisorInv(s)
  BY DEF IInv
<1>2. /\ UNCHANGED <<journal, truncated, accepted, acked, sideEffects>>
      /\ UNCHANGED <<pc, journalPos, unappended, unhandled, recovering, op>>
      /\ UNCHANGED <<eventStreamID, eventOffsetHint>>
  BY DEF local, pending, memory, seen
<1>3. TypeOK'
  BY <1>1, <1>2 DEF TypeOK, OpOf
<1>4. JournalInv' /\ RecordsAddressed'
  BY <1>1, <1>2, JournalInvQuiet
<1>5. \A s \in Supervisors : SupervisorInv(s)'
  BY <1>1, <1>2, SupervisorInvStable DEF Extends
<1> QED
  BY <1>3, <1>4, <1>5 DEF IInv

\* The invariant holds before anything has happened.
LEMMA InitIInv == ASSUME Init PROVE IInv
<1>1. Len(journal) = 0 /\ journal \in Seq(Record)
  BY DEF Init
<1>2. TypeOK
  BY <1>1 DEF Init, TypeOK, OpOf
<1>3. JournalInv /\ RecordsAddressed
  BY <1>1 DEF Init, JournalInv, RecordedOnce, Ordered, SetIsBehind, RecordsAddressed
<1>4. \A s \in Supervisors : SupervisorInv(s)
  BY DEF Init, SupervisorInv, PendingInv, OpInv, Cover
<1> QED
  BY <1>2, <1>3, <1>4 DEF IInv

\* Every action keeps the invariant.
LEMMA NextKeepsIInv ==
  ASSUME IInv, [Next]_vars
  PROVE  IInv'
<1>1. TypeOK
  BY DEF IInv
<1>2. ASSUME NEW s \in Supervisors, Step(s) PROVE IInv'
  BY <1>2, RecoverKeeps, RecoverHandledKeeps, RecoverAcceptedKeeps, TruncateKeeps,
     AcceptCommandKeeps, JournalAcceptedKeeps, AddToAcceptedKeeps, HandleCommandKeeps,
     SelectEventStreamKeeps, JournalHandledKeeps, AppendEventsKeeps,
     JournalAppendedKeeps DEF Step
<1>3. ASSUME NEW r \in late, LateAppend(r) PROVE IInv'
  <2>1. r \in Record /\ late' \subseteq Record
    BY <1>1, <1>3 DEF LateAppend, TypeOK
  <2> QED
    BY <1>1, <1>3, <2>1, StreamsType, StreamsStep DEF LateAppend
<1>4. ASSUME NEW k \in Streams, ForeignAppend(k) PROVE IInv'
  <2>1. Foreign \in Batch
    BY DEF Foreign, Batch
  <2>2. streams' \in [Streams -> Seq(Batch)] /\ late' \subseteq Record
    BY <1>1, <1>4, <2>1 DEF ForeignAppend, TypeOK
  <2> QED
    BY <1>4, <2>2, StreamsStep DEF ForeignAppend
<1>5. CASE UNCHANGED vars
  BY <1>1, <1>5, StreamsStep DEF vars, durable, TypeOK
<1> QED
  BY <1>2, <1>3, <1>4, <1>5, FaultKeeps DEF Next

-----------------------------------------------------------------------------
(* The theorems.                                                           *)

\* The invariant on which the theorems below rest.
THEOREM Invariance == Spec => []IInv
BY InitIInv, NextKeepsIInv, PTL DEF Spec

\* Types, and that no supervisor believes the journal longer than it is.
THEOREM TypeCorrect == Spec => []TypeOK
BY Invariance, PTL DEF IInv

\* No command is accepted twice, handled twice or marked as appended twice in the
\* journal, whatever supervisors crash, retry and compete, and although recovery
\* sees only what was not truncated.
THEOREM NeverRecordedTwice == Spec => []RecordedOnce
BY Invariance, PTL DEF IInv, JournalInv

\* An executor that is told its command is accepted may forget it.
THEOREM AcknowledgedIsDurable == Spec => []AckedIsDurable
<1>1. IInv => AckedIsDurable
  BY DEF IInv, JournalInv, AckedIsDurable, Recorded, Within
<1> QED
  BY <1>1, Invariance, PTL
=============================================================================
