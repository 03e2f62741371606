----------------------------- MODULE OrderedSet -----------------------------
(***************************************************************************)
(* The ordered set of src/internal/optimistic/orderedset.go on top of the  *)
(* optimistic Value of value.go, down to the cells of the arrays that its  *)
(* slices share.                                                           *)
(*                                                                         *)
(* Apply loads a pointer to a slice, computes another slice and swaps the  *)
(* pointers if nobody else did.  slices.Insert and slices.Delete compute   *)
(* that slice in the array of the old one whenever its capacity allows it, *)
(* so that readers and other writers meet cells that are being moved.  The *)
(* cells are single words; a step reads or writes one of them.             *)
(***************************************************************************)
EXTENDS Naturals, Sequences, FiniteSets

CONSTANTS
  Goroutines,
  Members,      \* values of M, in the order of the Comparator
  None,
  MaxCalls      \* bound: calls of the set's methods

\* Zero, the zero value of M, compares as the least value.
Zero == 0

ASSUME MembersAssumption ==
  Members \subseteq Nat \ {Zero} /\ IsFiniteSet(Members) /\ MaxCalls \in Nat

VARIABLES
  heap,         \* heap[a]: the cells of array a; their number is its capacity
  version,      \* Value.p, as the number of times it was replaced; 0 is nil
  current,      \* the slice that p points to
  \* Per goroutine.
  pc,           \* "idle", "search", "read" (Members), "change"
  call,         \* the method and its argument
  before,       \* the slice that was loaded, with the p it was loaded from
  lo, hi,       \* BinarySearchFunc's i and j
  got,          \* what the caller of Members has read
  todo, after,  \* the moves that are left to do, and the slice to publish
  \* History: what an atomic set would hold and answer.
  members, possible, correct,
  calls, overlap, shifted

shared  == <<heap, version, current>>
local   == <<pc, call, before, lo, hi, got, todo, after>>
history == <<members, possible, correct, calls, overlap, shifted>>
vars    == <<shared, local, history>>

-----------------------------------------------------------------------------
NilSlice == [arr |-> 0, len |-> 0]
Capacity(s) == IF s.arr = 0 THEN 0 ELSE Len(heap[s.arr])

Writes == {"Add", "Delete"}
Calls  == [op : Writes \cup {"Has"}, m : Members] \cup {[op |-> "Members", m |-> None]}

InCall(g) == pc[g] # "idle"

\* The members in order.
Sorted(S) ==
  CHOOSE q \in [1..Cardinality(S) -> S] :
    \A i, j \in 1..Cardinality(S) : i < j => q[i] < q[j]

\* What a set with members S answers: whether m is a member, or all of them.
Truth(c, S) == IF c.op = "Members" THEN Sorted(S) ELSE c.m \in S

Init ==
  /\ heap = <<>> /\ version = 0 /\ current = NilSlice
  /\ pc = [g \in Goroutines |-> "idle"]
  /\ call = [g \in Goroutines |-> None]
  /\ before = [g \in Goroutines |-> None]
  /\ lo = [g \in Goroutines |-> 0] /\ hi = [g \in Goroutines |-> 0]
  /\ got = [g \in Goroutines |-> <<>>]
  /\ todo = [g \in Goroutines |-> <<>>]
  /\ after = [g \in Goroutines |-> NilSlice]
  /\ members = {} /\ possible = [g \in Goroutines |-> {}] /\ correct = TRUE
  /\ calls = 0 /\ overlap = "none" /\ shifted = FALSE

-----------------------------------------------------------------------------
(* History.                                                                *)

Busy(ops) == \E g \in Goroutines : InCall(g) /\ call[g].op \in ops

\* The worst that has happened: calls of writers, or of a writer and a reader,
\* that were in progress at the same time.
OverlapOf(c) ==
  IF \/ overlap = "writers"
     \/ c.op \in Writes /\ Busy(Writes) THEN "writers"
  ELSE IF \/ overlap = "reader"
          \/ c.op \in Writes /\ Busy({"Has", "Members"})
          \/ c.op \notin Writes /\ Busy(Writes) THEN "reader"
  ELSE "none"

\* The call of g is over; a writer that replaced the slice has no answer.
Finish(g) ==
  /\ pc' = [pc EXCEPT ![g] = "idle"]
  /\ call' = [call EXCEPT ![g] = None]
  /\ before' = [before EXCEPT ![g] = None]
  /\ lo' = [lo EXCEPT ![g] = 0] /\ hi' = [hi EXCEPT ![g] = 0]
  /\ got' = [got EXCEPT ![g] = <<>>]
  /\ todo' = [todo EXCEPT ![g] = <<>>]
  /\ after' = [after EXCEPT ![g] = NilSlice]

\* The call returns an answer, correct if an atomic set would have given it at
\* some time during the call.
Answer(g, a) ==
  /\ Finish(g)
  /\ correct' = (correct /\ a \in possible[g])
  /\ possible' = [possible EXCEPT ![g] = {}]
  /\ UNCHANGED <<shared, members, calls, overlap, shifted>>

-----------------------------------------------------------------------------
(* Loading the slice and searching it.                                     *)

Load(g, p, s, op) ==
  /\ before' = [before EXCEPT ![g] = [version |-> p, slice |-> s]]
  /\ lo' = [lo EXCEPT ![g] = 0]
  /\ hi' = [hi EXCEPT ![g] = s.len]
  /\ pc' = [pc EXCEPT ![g] = IF op = "Members" THEN "read" ELSE "search"]

Begin(g, c) ==
  /\ ~InCall(g) /\ calls < MaxCalls
  /\ Load(g, version, current, c.op)
  /\ call' = [call EXCEPT ![g] = c]
  /\ calls' = calls + 1
  /\ overlap' = OverlapOf(c)
  /\ possible' = [possible EXCEPT ![g] = {Truth(c, members)}]
  /\ UNCHANGED <<shared, got, todo, after, members, correct, shifted>>

\* Fault seeded to test AppendingDisturbsNobody: the pointer is loaded again for
\* every access.
CellOfCurrent(g, i) == heap[current.arr][i]

Cell(g, i) == heap[before[g].slice.arr][i]

\* Members returns the slice; its caller reads one cell after the other.
ReadMember(g) ==
  /\ pc[g] = "read" /\ Len(got[g]) < before[g].slice.len
  /\ got' = [got EXCEPT ![g] = Append(@, Cell(g, Len(@) + 1))]
  /\ UNCHANGED <<shared, pc, call, before, lo, hi, todo, after, history>>

ReadAll(g) ==
  /\ pc[g] = "read" /\ Len(got[g]) = before[g].slice.len
  /\ Answer(g, got[g])

Probe(g) ==
  /\ pc[g] = "search" /\ lo[g] < hi[g]
  /\ LET h == (lo[g] + hi[g]) \div 2
     IN  IF Cell(g, h + 1) < call[g].m
         THEN lo' = [lo EXCEPT ![g] = h + 1] /\ UNCHANGED hi
         ELSE hi' = [hi EXCEPT ![g] = h] /\ UNCHANGED lo
  /\ UNCHANGED <<shared, pc, call, before, got, todo, after, history>>

\* The result of the search, with the last comparison it makes.
Searched(g) == pc[g] = "search" /\ lo[g] = hi[g]
Found(g) == lo[g] < before[g].slice.len /\ Cell(g, lo[g] + 1) = call[g].m

\* Has returns, and the function passed to Apply returns false.
NothingToDo(g) ==
  /\ Searched(g)
  /\ \/ call[g].op = "Has"
     \/ Found(g) = (call[g].op = "Add")
  /\ Answer(g, Found(g))

-----------------------------------------------------------------------------
(* slices.Insert and slices.Delete.  A move copies the cell "from" of the  *)
(* old slice to the cell "to" of the new one; from 0 it stores the member  *)
(* that is added, or clears a cell that is no longer used.                 *)

Move(from, to) == [from |-> from, to |-> to]

\* Cells i..n move up, the last first; then the member is stored.
InsertInPlace(n, i) ==
  [k \in 1 .. n - i + 1 |-> Move(n + 1 - k, n + 2 - k)] \o <<Move(0, i)>>

\* The cells are copied to a new array around the member.
InsertByCopy(n, i) ==
  [k \in 1..n |-> Move(k, IF k < i THEN k ELSE k + 1)] \o <<Move(0, i)>>

\* Cells i + 1..n move down, the first first; then the last is cleared.
DeleteInPlace(n, i) ==
  [k \in 1 .. n - i |-> Move(i + k, i + k - 1)] \o <<Move(0, n)>>

\* Fault seeded to test TypeOK: a slice has room for one member more than it has.
HasRoomAtEnd(s) == s.len <= Capacity(s)

HasRoom(s) == s.len < Capacity(s)

\* append doubles the capacity of a slice of pointers, beginning with one.
Grown(s) == [i \in 1 .. (IF s.arr = 0 THEN 1 ELSE 2 * Capacity(s)) |-> Zero]

Change(g, moves, a, s) ==
  /\ todo' = [todo EXCEPT ![g] = moves]
  /\ after' = [after EXCEPT ![g] = [arr |-> a, len |-> s]]
  /\ pc' = [pc EXCEPT ![g] = "change"]
  /\ UNCHANGED <<version, current, call, before, lo, hi, got, history>>

\* Fault seeded to test RoutesAlike: members are inserted at the end.
PositionAtEnd(g) == before[g].slice.len + 1

\* Where the search found the member, or where it belongs.
Position(g) == lo[g] + 1

Insert(g) ==
  LET s == before[g].slice
  IN  IF HasRoom(s)
      THEN /\ Change(g, InsertInPlace(s.len, Position(g)), s.arr, s.len + 1)
           /\ UNCHANGED heap
      ELSE /\ Change(g, InsertByCopy(s.len, Position(g)), Len(heap) + 1, s.len + 1)
           /\ heap' = Append(heap, Grown(s))

\* Fault seeded to test SequentialIsExact: a member is inserted again.
BeginInsertAgain(g) == Searched(g) /\ call[g].op = "Add" /\ Insert(g)

BeginInsert(g) == Searched(g) /\ call[g].op = "Add" /\ ~Found(g) /\ Insert(g)

BeginDelete(g) ==
  LET s == before[g].slice
  IN  /\ Searched(g) /\ call[g].op = "Delete" /\ Found(g)
      /\ Change(g, DeleteInPlace(s.len, Position(g)), s.arr, s.len - 1)
      /\ UNCHANGED heap

\* The value that a move stores.
Moved(g, mv) ==
  IF mv.from # 0 THEN Cell(g, mv.from)
  ELSE IF call[g].op = "Add" THEN call[g].m ELSE Zero

MoveCell(g) ==
  /\ pc[g] = "change" /\ todo[g] # <<>>
  /\ LET mv == Head(todo[g])
     IN  /\ heap' = [heap EXCEPT ![after[g].arr][mv.to] = Moved(g, mv)]
         /\ shifted' = \/ shifted
                       \/ after[g].arr = current.arr /\ mv.to <= current.len
  /\ todo' = [todo EXCEPT ![g] = Tail(@)]
  /\ UNCHANGED <<version, current, pc, call, before, lo, hi, got, after,
                 members, possible, correct, calls, overlap>>

-----------------------------------------------------------------------------
(* CompareAndSwap.                                                         *)

\* The moment at which an atomic set would change.
Swap(g) ==
  LET c == call[g]
      S == IF c.op = "Add" THEN members \cup {c.m} ELSE members \ {c.m}
  IN  /\ pc[g] = "change" /\ todo[g] = <<>>
      /\ version = before[g].version
      /\ current' = after[g]
      /\ version' = version + 1
      /\ Finish(g)
      /\ members' = S
      /\ correct' = (correct /\ S # members)
      /\ possible' = [q \in Goroutines |->
                        IF q = g THEN {}
                        ELSE IF InCall(q) THEN possible[q] \cup {Truth(call[q], S)}
                        ELSE possible[q]]
      /\ UNCHANGED <<heap, calls, overlap, shifted>>

\* Fault seeded to test EveryCallReturns: the loop goes around the swap only.
RetrySwap(g) ==
  /\ pc[g] = "change" /\ todo[g] = <<>>
  /\ version # before[g].version
  /\ UNCHANGED vars

\* The swap fails, and the loop of Apply loads the pointer again.  Pointers are
\* never swapped back, so the two may be taken as one step.
Retry(g) ==
  /\ pc[g] = "change" /\ todo[g] = <<>>
  /\ version # before[g].version
  /\ Load(g, version, current, call[g].op)
  /\ after' = [after EXCEPT ![g] = NilSlice]
  /\ UNCHANGED <<shared, call, got, todo, history>>

-----------------------------------------------------------------------------
\* A goroutine goes on with its call of Add, Delete or Has.
SearchStep(g) ==
  \/ Probe(g) \/ NothingToDo(g)
  \/ BeginInsert(g) \/ BeginDelete(g) \/ MoveCell(g) \/ Swap(g) \/ Retry(g)

Step(g) == SearchStep(g) \/ ReadMember(g) \/ ReadAll(g)

Next ==
  \E g \in Goroutines :
    \/ \E c \in Calls : Begin(g, c)
    \/ Step(g)

Spec == Init /\ [][Next]_vars

\* Goroutines that are in a call go on.
Fairness == \A g \in Goroutines : WF_vars(Step(g))

FairSpec == Spec /\ Fairness

-----------------------------------------------------------------------------
(* Properties.                                                             *)

Slices == {s \in [arr : 0..Len(heap), len : Nat] : s.len <= Capacity(s)}
Cells  == Members \cup {Zero}

\* Types: no slice is longer than its array, and no move leaves the slice that
\* it prepares, whatever other goroutines do to the array meanwhile.
TypeOK ==
  /\ heap \in Seq(Seq(Cells)) /\ version \in Nat
  /\ current \in Slices
  /\ pc \in [Goroutines -> {"idle", "search", "read", "change"}]
  /\ \A g \in Goroutines :
       /\ call[g] \in (IF InCall(g) THEN Calls ELSE {None})
       /\ InCall(g) => before[g].version \in 0..version /\ before[g].slice \in Slices
       /\ InCall(g) => lo[g] <= hi[g] /\ hi[g] <= before[g].slice.len
       /\ got[g] \in Seq(Cells)
       /\ after[g] \in Slices
       /\ \A k \in 1..Len(todo[g]) :
            /\ todo[g][k].to \in 1..Capacity(after[g])
            /\ todo[g][k].from \in 0..Capacity(before[g].slice)
  /\ members \subseteq Members /\ correct \in BOOLEAN /\ shifted \in BOOLEAN
  /\ calls \in 0..MaxCalls /\ overlap \in {"none", "reader", "writers"}

Content == [i \in 1..current.len |-> heap[current.arr][i]]

\* Calls that never overlap behave as calls of an atomic set, and leave exactly
\* its members, in order, in the array, however often it was reused.
SequentialIsExact ==
  overlap = "none" =>
    /\ correct
    /\ (\A g \in Goroutines : ~InCall(g)) => Content = Sorted(members)

\* Readers need not wait for a writer that only appends: as long as no cell of
\* the published slice is written, and writers do not overlap, every answer
\* given to a reader is one of an atomic set.
AppendingDisturbsNobody == overlap # "writers" /\ ~shifted => correct

\* A swap fails only because another call has succeeded, so that of finitely
\* many calls every one returns.
EveryCallReturns == \A g \in Goroutines : InCall(g) ~> ~InCall(g)

\* What "atomic mutations" promises: whatever overlaps, every call is answered
\* as by a set that changes in one step.
AnswersAreAtomic == correct
=============================================================================
