------------------------- MODULE OrderedSetProofs --------------------------
(***************************************************************************)
(* Proofs about the ordered set, for every number of goroutines, members   *)
(* and calls, from two inductive invariants.                               *)
(*                                                                         *)
(* IInv is what holds whatever overlaps: the cells of an array may change  *)
(* under every goroutine that reads them, but arrays never shrink, so that *)
(* what a goroutine has computed from the length of a slice stays within   *)
(* its array (Grows).                                                      *)
(*                                                                         *)
(* ContentInv adds what the cells hold as long as no two writers overlap   *)
(* and no reader runs while cells of the published slice are moved         *)
(* (Quiet): the published slice lists the members, a search has left out   *)
(* only cells that cannot hold its member, and every cell of a slice that  *)
(* is being prepared is right or is written by a move that is left to do.  *)
(***************************************************************************)
EXTENDS OrderedSet, SequenceTheorems, FiniteSetTheorems, WellFoundedInduction,
        TLAPS

-----------------------------------------------------------------------------
(* The inductive invariant.                                                *)

\* Arrays have room for at least one member.
SharedOK ==
  /\ heap \in Seq(Seq(Cells)) /\ version \in Nat /\ current \in Slices
  /\ \A a \in 1..Len(heap) : Len(heap[a]) # 0

PerGoroutine ==
  /\ pc \in [Goroutines -> {"idle", "search", "read", "change"}]
  /\ DOMAIN call = Goroutines /\ DOMAIN before = Goroutines
  /\ DOMAIN lo = Goroutines /\ DOMAIN hi = Goroutines
  /\ DOMAIN got = Goroutines /\ DOMAIN todo = Goroutines
  /\ DOMAIN after = Goroutines

\* A call is in the part of the code that belongs to its method.
CallOK(g) ==
  /\ call[g] \in (IF InCall(g) THEN Calls ELSE {None})
  /\ pc[g] = "search" => call[g].op \in {"Add", "Delete", "Has"}
  /\ pc[g] = "change" => call[g].op \in Writes
  /\ pc[g] = "idle" => got[g] = <<>>
  /\ pc[g] # "change" => todo[g] = <<>>

\* What a goroutine has computed from the slice it loaded fits into the arrays.
SlicesOK(g) ==
  /\ InCall(g) => /\ before[g].version \in 0..version /\ before[g].slice \in Slices
                  /\ lo[g] \in Nat /\ hi[g] \in Nat
                  /\ lo[g] <= hi[g] /\ hi[g] <= before[g].slice.len
  /\ got[g] \in Seq(Cells)
  /\ after[g] \in Slices

Moves(a, b) == [from : 0..a, to : 1..b]

MovesOK(g) ==
  InCall(g) => todo[g] \in Seq(Moves(Capacity(before[g].slice), Capacity(after[g])))

LocalOK(g) == CallOK(g) /\ SlicesOK(g) /\ MovesOK(g)

HistoryOK ==
  /\ members \subseteq Members /\ correct \in BOOLEAN /\ shifted \in BOOLEAN
  /\ calls \in 0..MaxCalls /\ overlap \in {"none", "reader", "writers"}
  /\ DOMAIN possible = Goroutines

IInv ==
  /\ SharedOK /\ PerGoroutine /\ HistoryOK
  /\ \A g \in Goroutines : LocalOK(g)

-----------------------------------------------------------------------------
(* Arrays.                                                                 *)

\* A step of the heap: arrays are added, and none changes its length.
Grows ==
  /\ Len(heap) \in Nat /\ Len(heap') \in Nat /\ Len(heap) <= Len(heap')
  /\ \A a \in 1..Len(heap) : Len(heap'[a]) = Len(heap[a])

\* The capacity of a slice, and where its array is.
LEMMA CapacityFacts ==
  ASSUME SharedOK, NEW s \in Slices
  PROVE  /\ s.arr \in 0..Len(heap) /\ s.len \in Nat /\ s.len <= Capacity(s)
         /\ Capacity(s) \in Nat
         /\ Capacity(s) # 0 <=> s.arr \in 1..Len(heap)
         /\ s.arr \in 1..Len(heap) => /\ heap[s.arr] \in Seq(Cells)
                                      /\ Len(heap[s.arr]) = Capacity(s)
<1>1. s.arr \in 0..Len(heap) /\ s.len \in Nat /\ s.len <= Capacity(s)
  BY DEF Slices
<1>2. Len(heap) \in Nat /\ \A a \in 1..Len(heap) : heap[a] \in Seq(Cells)
  BY ElementOfSeq DEF SharedOK
<1>3. CASE s.arr = 0
  BY <1>1, <1>2, <1>3 DEF Capacity
<1>4. CASE s.arr # 0
  <2>1. s.arr \in 1..Len(heap)
    BY <1>1, <1>2, <1>4
  <2>2. heap[s.arr] \in Seq(Cells) /\ Len(heap[s.arr]) # 0
    BY <1>2, <2>1 DEF SharedOK
  <2>3. Capacity(s) = Len(heap[s.arr])
    BY <1>4 DEF Capacity
  <2> QED
    BY <1>1, <2>1, <2>2, <2>3
<1> QED
  BY <1>3, <1>4

\* A cell within the capacity of a slice holds a member or is cleared.
LEMMA CellFacts ==
  ASSUME SharedOK, NEW s \in Slices, NEW i \in 1..Capacity(s)
  PROVE  heap[s.arr][i] \in Cells
<1>1. s.arr \in 1..Len(heap) /\ heap[s.arr] \in Seq(Cells) /\ Len(heap[s.arr]) = Capacity(s)
  BY CapacityFacts
<1> QED
  BY <1>1, ElementOfSeq

\* A slice stays one, with the same capacity.
LEMMA SlicesSurvive ==
  ASSUME SharedOK, Grows, NEW s \in Slices
  PROVE  s \in Slices' /\ Capacity(s)' = Capacity(s)
<1>1. s \in [arr : 0..Len(heap), len : Nat] /\ s.len <= Capacity(s)
  BY DEF Slices
<1>2. Capacity(s)' = Capacity(s)
  <2>1. CASE s.arr = 0
    BY <2>1 DEF Capacity
  <2>2. CASE s.arr # 0
    <3>1. s.arr \in 1..Len(heap)
      BY <1>1, <2>2 DEF Grows
    <3> QED
      BY <2>2, <3>1 DEF Grows, Capacity
  <2> QED
    BY <2>1, <2>2
<1>3. s \in [arr : 0..Len(heap'), len : Nat]
  BY <1>1 DEF Grows
<1> QED
  BY <1>1, <1>2, <1>3 DEF Slices

\* A heap that does not change grows.
LEMMA SameHeapGrows ==
  ASSUME SharedOK, heap' = heap
  PROVE  Grows
BY DEF SharedOK, Grows

-----------------------------------------------------------------------------
(* Goroutines.                                                             *)

\* A step leaves q's part of the call alone.
Same(q) ==
  /\ pc'[q] = pc[q] /\ call'[q] = call[q] /\ before'[q] = before[q]
  /\ lo'[q] = lo[q] /\ hi'[q] = hi[q]
  /\ got'[q] = got[q] /\ todo'[q] = todo[q] /\ after'[q] = after[q]

\* What holds for a goroutine survives the steps of the others.
LEMMA OthersKeep ==
  ASSUME SharedOK, Grows, version' \in Nat, version <= version',
         NEW q \in Goroutines, Same(q), LocalOK(q)
  PROVE  LocalOK(q)'
<1>1. CallOK(q)'
  BY DEF LocalOK, CallOK, InCall, Same
<1>2. \A s \in Slices : s \in Slices' /\ Capacity(s)' = Capacity(s)
  BY SlicesSurvive
<1>3. after'[q] \in Slices' /\ Capacity(after[q])' = Capacity(after[q])
  <2>1. after[q] \in Slices /\ after'[q] = after[q]
    BY DEF LocalOK, SlicesOK, Same
  <2> QED
    BY <1>2, <2>1 DEF Capacity
<1>4. ASSUME InCall(q)
      PROVE  before'[q].slice \in Slices' /\ Capacity(before[q].slice)' = Capacity(before[q].slice)
  <2>1. before[q].slice \in Slices /\ before'[q] = before[q]
    BY <1>4 DEF LocalOK, SlicesOK, Same
  <2> QED
    BY <1>2, <2>1 DEF Capacity
<1>5. SlicesOK(q)'
  <2>1. InCall(q)' => InCall(q)
    BY DEF InCall, Same
  <2>2. ASSUME InCall(q)
        PROVE  before'[q].version \in 0..version'
    <3>1. before[q].version \in 0..version /\ version \in Nat /\ before'[q] = before[q]
      BY <2>2 DEF LocalOK, SlicesOK, Same, SharedOK
    <3> QED
      BY <3>1
  <2> QED
    BY <1>3, <1>4, <2>1, <2>2 DEF LocalOK, SlicesOK, Same
<1>6. MovesOK(q)'
  <2>1. InCall(q)' => InCall(q)
    BY DEF InCall, Same
  <2> QED
    BY <1>3, <1>4, <2>1 DEF LocalOK, MovesOK, Same
<1> QED
  BY <1>1, <1>5, <1>6 DEF LocalOK

\* A step of g keeps the invariant if it keeps g's part of it.
LEMMA StepKeeps ==
  ASSUME IInv, NEW g \in Goroutines, \A q \in Goroutines : q # g => Same(q),
         Grows, version' \in Nat, version <= version',
         SharedOK', PerGoroutine', HistoryOK', LocalOK(g)'
  PROVE  IInv'
<1>1. SharedOK /\ \A q \in Goroutines : LocalOK(q)
  BY DEF IInv
<1>2. ASSUME NEW q \in Goroutines PROVE LocalOK(q)'
  <2>1. CASE q = g
    BY <2>1
  <2>2. CASE q # g
    BY <1>1, <2>2, OthersKeep
  <2> QED
    BY <2>1, <2>2
<1> QED
  BY <1>2 DEF IInv

\* The zero value of a slice is one.
LEMMA NilSliceFacts == SharedOK => NilSlice \in Slices
<1> SUFFICES ASSUME SharedOK PROVE NilSlice \in Slices
  OBVIOUS
<1>1. Len(heap) \in Nat
  BY DEF SharedOK
<1>2. NilSlice \in [arr : 0..Len(heap), len : Nat]
  BY <1>1 DEF NilSlice
<1>3. NilSlice.len <= Capacity(NilSlice)
  BY DEF NilSlice, Capacity
<1> QED
  BY <1>2, <1>3 DEF Slices

\* A call that returns leaves nothing behind.
LEMMA FinishKeeps ==
  ASSUME IInv, NEW g \in Goroutines, Finish(g), SharedOK'
  PROVE  /\ \A q \in Goroutines : q # g => Same(q)
         /\ PerGoroutine' /\ LocalOK(g)' /\ pc'[g] = "idle"
<1>1. PerGoroutine
  BY DEF IInv
<1>2. /\ pc' = [pc EXCEPT ![g] = "idle"] /\ call' = [call EXCEPT ![g] = None]
      /\ before' = [before EXCEPT ![g] = None]
      /\ lo' = [lo EXCEPT ![g] = 0] /\ hi' = [hi EXCEPT ![g] = 0]
      /\ got' = [got EXCEPT ![g] = <<>>] /\ todo' = [todo EXCEPT ![g] = <<>>]
      /\ after' = [after EXCEPT ![g] = NilSlice]
  BY DEF Finish
<1>3. /\ pc'[g] = "idle" /\ call'[g] = None /\ got'[g] = <<>> /\ todo'[g] = <<>>
      /\ after'[g] = NilSlice
  BY <1>1, <1>2 DEF PerGoroutine
<1>4. \A q \in Goroutines : q # g => Same(q)
  BY <1>1, <1>2 DEF PerGoroutine, Same
<1>5. PerGoroutine'
  BY <1>1, <1>2 DEF PerGoroutine
<1>6. NilSlice \in Slices'
  <2>1. Len(heap') \in Nat
    BY DEF SharedOK
  <2>2. NilSlice \in [arr : 0..Len(heap'), len : Nat]
    BY <2>1 DEF NilSlice
  <2> QED
    BY <2>2 DEF Slices, Capacity, NilSlice
<1>7. CallOK(g)' /\ SlicesOK(g)' /\ MovesOK(g)'
  BY <1>3, <1>6 DEF CallOK, SlicesOK, MovesOK, InCall
<1> QED
  BY <1>3, <1>4, <1>5, <1>7 DEF LocalOK

\* A call that has loaded the slice searches or reads all of it.
LEMMA LoadKeeps ==
  ASSUME IInv, NEW g \in Goroutines, NEW c \in Calls, NEW s \in Slices,
         Load(g, version, s, c.op), UNCHANGED <<shared, got, todo>>,
         todo[g] = <<>>, DOMAIN call' = Goroutines, DOMAIN after' = Goroutines,
         call'[g] = c, after'[g] \in {after[g], NilSlice},
         \A q \in Goroutines : q # g => call'[q] = call[q] /\ after'[q] = after[q]
  PROVE  /\ SharedOK' /\ PerGoroutine' /\ LocalOK(g)' /\ Grows
         /\ version' \in Nat /\ version <= version'
         /\ \A q \in Goroutines : q # g => Same(q)
<1>1. SharedOK /\ PerGoroutine /\ LocalOK(g)
  BY DEF IInv
<1>2. UNCHANGED <<heap, version, current, got, todo>>
  BY DEF shared
<1>3. SharedOK' /\ Grows /\ version' \in Nat /\ version <= version'
  <2>1. SharedOK'
    BY <1>1, <1>2 DEF SharedOK, Slices, Capacity
  <2>2. version \in Nat
    BY <1>1 DEF SharedOK
  <2> QED
    BY <1>1, <1>2, <2>1, <2>2, SameHeapGrows
<1>4. /\ before' = [before EXCEPT ![g] = [version |-> version, slice |-> s]]
      /\ lo' = [lo EXCEPT ![g] = 0] /\ hi' = [hi EXCEPT ![g] = s.len]
      /\ pc' = [pc EXCEPT ![g] = IF c.op = "Members" THEN "read" ELSE "search"]
  BY DEF Load
<1>5. /\ before'[g] = [version |-> version, slice |-> s]
      /\ lo'[g] = 0 /\ hi'[g] = s.len /\ call'[g] = c /\ todo'[g] = <<>>
      /\ pc'[g] = (IF c.op = "Members" THEN "read" ELSE "search")
      /\ got'[g] = got[g]
  BY <1>1, <1>2, <1>4 DEF PerGoroutine
<1>6. \A q \in Goroutines : q # g => Same(q)
  BY <1>1, <1>2, <1>4 DEF PerGoroutine, Same
<1>7. PerGoroutine'
  BY <1>1, <1>2, <1>4 DEF PerGoroutine
<1>8. CallOK(g)'
  <2>1. c.op # "Members" => c.op \in {"Add", "Delete", "Has"}
    BY DEF Calls, Writes
  <2> QED
    BY <1>5, <2>1 DEF CallOK, InCall
<1>9. SlicesOK(g)'
  <2>1. s \in Slices' /\ after'[g] \in Slices'
    <3>1. Slices' = Slices
      BY <1>2 DEF Slices, Capacity
    <3>2. after[g] \in Slices /\ NilSlice \in Slices
      BY <1>1, NilSliceFacts DEF LocalOK, SlicesOK
    <3> QED
      BY <3>1, <3>2
  <2>2. s.len \in Nat /\ version \in Nat
    BY <1>1, CapacityFacts DEF SharedOK
  <2>3. got'[g] \in Seq(Cells)
    BY <1>1, <1>5 DEF LocalOK, SlicesOK
  <2> QED
    BY <1>2, <1>5, <2>1, <2>2, <2>3 DEF SlicesOK
<1>10. MovesOK(g)'
  BY <1>5 DEF MovesOK
<1> QED
  BY <1>3, <1>6, <1>7, <1>8, <1>9, <1>10 DEF LocalOK

-----------------------------------------------------------------------------
(* The steps.                                                              *)

\* The steps that leave the shared state alone.
LEMMA SharedKept ==
  ASSUME IInv, UNCHANGED shared
  PROVE  /\ SharedOK' /\ Grows /\ version' \in Nat /\ version <= version'
         /\ Slices' = Slices
<1>1. SharedOK /\ UNCHANGED <<heap, version, current>>
  BY DEF IInv, shared
<1>2. Slices' = Slices
  BY <1>1 DEF Slices, Capacity
<1>3. SharedOK'
  BY <1>1, <1>2 DEF SharedOK
<1>4. version \in Nat
  BY <1>1 DEF SharedOK
<1> QED
  BY <1>1, <1>2, <1>3, <1>4, SameHeapGrows

\* A call begins with the slice that is published.
LEMMA BeginKeeps ==
  ASSUME IInv, NEW g \in Goroutines, NEW c \in Calls, Begin(g, c)
  PROVE  IInv'
<1>1. SharedOK /\ PerGoroutine /\ HistoryOK /\ LocalOK(g)
  BY DEF IInv
<1>2. /\ pc[g] = "idle" /\ calls < MaxCalls /\ Load(g, version, current, c.op)
      /\ call' = [call EXCEPT ![g] = c] /\ calls' = calls + 1 /\ overlap' = OverlapOf(c)
      /\ UNCHANGED <<shared, got, todo, after, members, correct, shifted>>
  BY DEF Begin, InCall
<1>3. current \in Slices /\ todo[g] = <<>>
  BY <1>1, <1>2 DEF SharedOK, LocalOK, CallOK
<1>4. /\ DOMAIN call' = Goroutines /\ DOMAIN after' = Goroutines
      /\ call'[g] = c /\ after'[g] = after[g]
      /\ \A q \in Goroutines : q # g => call'[q] = call[q] /\ after'[q] = after[q]
  BY <1>1, <1>2 DEF PerGoroutine
<1>5. /\ SharedOK' /\ PerGoroutine' /\ LocalOK(g)' /\ Grows
      /\ version' \in Nat /\ version <= version'
      /\ \A q \in Goroutines : q # g => Same(q)
  BY <1>2, <1>3, <1>4, LoadKeeps
<1>6. HistoryOK'
  <2>1. calls' \in 0..MaxCalls
    BY <1>1, <1>2, MembersAssumption DEF HistoryOK
  <2>2. overlap' \in {"none", "reader", "writers"}
    BY <1>2 DEF OverlapOf
  <2>3. members' \subseteq Members /\ correct' \in BOOLEAN /\ shifted' \in BOOLEAN
    BY <1>1, <1>2 DEF HistoryOK
  <2>4. DOMAIN possible' = Goroutines
    BY <1>1 DEF HistoryOK, Begin
  <2> QED
    BY <2>1, <2>2, <2>3, <2>4 DEF HistoryOK
<1> QED
  BY <1>5, <1>6, StepKeeps

\* A reader reads a cell of its slice.
LEMMA ReadMemberKeeps ==
  ASSUME IInv, NEW g \in Goroutines, ReadMember(g)
  PROVE  /\ IInv' /\ pc' = pc
         /\ \E x \in Cells : got' = [got EXCEPT ![g] = Append(@, x)]
<1> DEFINE s == before[g].slice
           x == Cell(g, Len(got[g]) + 1)
<1>1. SharedOK /\ PerGoroutine /\ HistoryOK /\ LocalOK(g)
  BY DEF IInv
<1>2. /\ pc[g] = "read" /\ Len(got[g]) < s.len
      /\ got' = [got EXCEPT ![g] = Append(@, x)]
      /\ UNCHANGED <<shared, pc, call, before, lo, hi, todo, after, history>>
  BY DEF ReadMember
<1>3. s \in Slices /\ got[g] \in Seq(Cells) /\ after[g] \in Slices
  BY <1>1, <1>2 DEF LocalOK, SlicesOK, InCall
<1>4. x \in Cells
  <2>1. s.len \in Nat /\ s.len <= Capacity(s) /\ Capacity(s) \in Nat
    BY <1>1, <1>3, CapacityFacts
  <2>2. Len(got[g]) \in Nat
    BY <1>3
  <2>3. Len(got[g]) + 1 \in 1..Capacity(s)
    BY <1>2, <2>1, <2>2
  <2>4. heap[s.arr][Len(got[g]) + 1] \in Cells
    BY <1>1, <1>3, <2>3, CellFacts
  <2> QED
    BY <2>4 DEF Cell
<1> HIDE DEF x
<1>5. /\ SharedOK' /\ Grows /\ version' \in Nat /\ version <= version' /\ Slices' = Slices
  BY <1>2, SharedKept
<1>6. got'[g] \in Seq(Cells)
  BY <1>1, <1>2, <1>3, <1>4 DEF PerGoroutine
<1>7. \A q \in Goroutines : q # g => Same(q)
  BY <1>1, <1>2 DEF PerGoroutine, Same
<1>8. PerGoroutine'
  BY <1>1, <1>2 DEF PerGoroutine
<1>9. HistoryOK'
  BY <1>1, <1>2 DEF HistoryOK, history
<1>10. LocalOK(g)'
  <2>1. CallOK(g)'
    BY <1>1, <1>2 DEF LocalOK, CallOK, InCall
  <2>2. SlicesOK(g)'
    BY <1>1, <1>2, <1>5, <1>6 DEF LocalOK, SlicesOK, InCall, shared
  <2>3. MovesOK(g)'
    BY <1>1, <1>2 DEF LocalOK, MovesOK, InCall, Capacity, shared
  <2> QED
    BY <2>1, <2>2, <2>3 DEF LocalOK
<1>11. IInv'
  BY <1>5, <1>7, <1>8, <1>9, <1>10, StepKeeps
<1> QED
  BY <1>2, <1>4, <1>11

\* A call that answers is over.
LEMMA AnswerKeeps ==
  ASSUME IInv, NEW g \in Goroutines, NEW a, Answer(g, a)
  PROVE  IInv' /\ pc' = [pc EXCEPT ![g] = "idle"]
<1>1. HistoryOK
  BY DEF IInv
<1>2. Finish(g) /\ UNCHANGED <<shared, members, calls, overlap, shifted>>
  BY DEF Answer
<1>3. /\ SharedOK' /\ Grows /\ version' \in Nat /\ version <= version'
  BY <1>2, SharedKept
<1>4. PerGoroutine' /\ LocalOK(g)' /\ \A q \in Goroutines : q # g => Same(q)
  BY <1>2, <1>3, FinishKeeps
<1>5. correct' \in BOOLEAN
  BY Zenon DEF Answer
<1>6. HistoryOK'
  <2>1. DOMAIN possible' = Goroutines
    BY <1>1 DEF HistoryOK, Answer
  <2> QED
    BY <1>1, <1>2, <1>5, <2>1 DEF HistoryOK
<1>7. pc' = [pc EXCEPT ![g] = "idle"]
  BY <1>2 DEF Finish
<1> QED
  BY <1>3, <1>4, <1>6, <1>7, StepKeeps

\* The search halves what is left of the slice.
LEMMA ProbeKeeps ==
  ASSUME IInv, NEW g \in Goroutines, Probe(g)
  PROVE  IInv' /\ pc' = pc
<1>1. SharedOK /\ PerGoroutine /\ HistoryOK /\ LocalOK(g)
  BY DEF IInv
<1> DEFINE h == (lo[g] + hi[g]) \div 2
<1>2. /\ pc[g] = "search" /\ lo[g] < hi[g]
      /\ \/ lo' = [lo EXCEPT ![g] = h + 1] /\ UNCHANGED hi
         \/ hi' = [hi EXCEPT ![g] = h] /\ UNCHANGED lo
      /\ UNCHANGED <<shared, pc, call, before, got, todo, after, history>>
  BY DEF Probe
<1>3. /\ SharedOK' /\ Grows /\ version' \in Nat /\ version <= version' /\ Slices' = Slices
  BY <1>2, SharedKept
<1>4. /\ before[g].version \in 0..version /\ before[g].slice \in Slices
      /\ lo[g] \in Nat /\ hi[g] \in Nat /\ lo[g] <= hi[g] /\ hi[g] <= before[g].slice.len
      /\ got[g] \in Seq(Cells) /\ after[g] \in Slices
  BY <1>1, <1>2 DEF LocalOK, SlicesOK, InCall
<1>5. before[g].slice.len \in Nat
  BY <1>4 DEF Slices
<1>6. h \in Nat /\ lo[g] <= h /\ h + 1 <= hi[g]
  BY <1>2, <1>4
<1> HIDE DEF h
<1>7. /\ lo'[g] \in Nat /\ hi'[g] \in Nat /\ lo'[g] <= hi'[g] /\ hi'[g] <= hi[g]
  <2>1. CASE lo' = [lo EXCEPT ![g] = h + 1] /\ UNCHANGED hi
    <3>1. lo'[g] = h + 1 /\ hi'[g] = hi[g]
      BY <1>1, <2>1 DEF PerGoroutine
    <3> QED
      BY <1>4, <1>6, <3>1
  <2>2. CASE hi' = [hi EXCEPT ![g] = h] /\ UNCHANGED lo
    <3>1. hi'[g] = h /\ lo'[g] = lo[g]
      BY <1>1, <2>2 DEF PerGoroutine
    <3> QED
      BY <1>4, <1>6, <3>1
  <2> QED
    BY <1>2, <2>1, <2>2
<1>8. \A q \in Goroutines : q # g => Same(q)
  BY <1>1, <1>2 DEF PerGoroutine, Same
<1>9. PerGoroutine'
  BY <1>1, <1>2 DEF PerGoroutine
<1>10. HistoryOK'
  BY <1>1, <1>2 DEF HistoryOK, history
<1>11. LocalOK(g)'
  <2>1. CallOK(g)'
    BY <1>1, <1>2 DEF LocalOK, CallOK, InCall
  <2>2. hi'[g] <= before[g].slice.len
    BY <1>4, <1>5, <1>7
  <2>3. SlicesOK(g)'
    BY <1>2, <1>3, <1>4, <1>7, <2>2 DEF SlicesOK, shared
  <2>4. MovesOK(g)'
    BY <1>1, <1>2 DEF LocalOK, MovesOK, InCall, Capacity, shared
  <2> QED
    BY <2>1, <2>3, <2>4 DEF LocalOK
<1> QED
  BY <1>2, <1>3, <1>8, <1>9, <1>10, <1>11, StepKeeps

-----------------------------------------------------------------------------
(* The moves.                                                              *)

\* Some moves and a last one.
LEMMA MovesAndOne ==
  ASSUME NEW S, NEW n \in Nat, NEW q \in [1..n -> S], NEW m \in S
  PROVE  q \o <<m>> \in Seq(S)
<1>1. q \in Seq(S) /\ <<m>> \in Seq(S)
  OBVIOUS
<1> QED
  BY <1>1, ConcatProperties

\* slices.Insert stays within the array that has room for the member.
LEMMA InsertInPlaceMoves ==
  ASSUME NEW n \in Nat, NEW i \in 1 .. n + 1, NEW a \in Nat, NEW b \in Nat,
         n <= a, n + 1 <= b
  PROVE  InsertInPlace(n, i) \in Seq(Moves(a, b))
<1> DEFINE q == [k \in 1 .. n - i + 1 |-> Move(n + 1 - k, n + 2 - k)]
<1>1. n - i + 1 \in Nat
  OBVIOUS
<1>2. \A k \in 1 .. n - i + 1 : n + 1 - k \in 0..a /\ n + 2 - k \in 1..b
  OBVIOUS
<1>3. q \in [1 .. n - i + 1 -> Moves(a, b)]
  BY <1>2 DEF Move, Moves
<1>4. Move(0, i) \in Moves(a, b)
  BY DEF Move, Moves
<1> HIDE DEF q
<1>5. q \o <<Move(0, i)>> \in Seq(Moves(a, b))
  BY <1>1, <1>3, <1>4, MovesAndOne
<1> QED
  BY <1>5 DEF q, InsertInPlace

\* So does the copy to a new array.
LEMMA InsertByCopyMoves ==
  ASSUME NEW n \in Nat, NEW i \in 1 .. n + 1, NEW a \in Nat, NEW b \in Nat,
         n <= a, n + 1 <= b
  PROVE  InsertByCopy(n, i) \in Seq(Moves(a, b))
<1> DEFINE q == [k \in 1..n |-> Move(k, IF k < i THEN k ELSE k + 1)]
<1>1. \A k \in 1..n : k \in 0..a /\ (IF k < i THEN k ELSE k + 1) \in 1..b
  OBVIOUS
<1>2. q \in [1..n -> Moves(a, b)]
  BY <1>1 DEF Move, Moves
<1>3. Move(0, i) \in Moves(a, b)
  BY DEF Move, Moves
<1> HIDE DEF q
<1>4. q \o <<Move(0, i)>> \in Seq(Moves(a, b))
  BY <1>2, <1>3, MovesAndOne
<1> QED
  BY <1>4 DEF q, InsertByCopy

\* slices.Delete stays within the slice.
LEMMA DeleteInPlaceMoves ==
  ASSUME NEW n \in Nat, NEW i \in 1..n, NEW a \in Nat, NEW b \in Nat, n <= a, n <= b
  PROVE  DeleteInPlace(n, i) \in Seq(Moves(a, b))
<1> DEFINE q == [k \in 1 .. n - i |-> Move(i + k, i + k - 1)]
<1>1. n - i \in Nat
  OBVIOUS
<1>2. \A k \in 1 .. n - i : i + k \in 0..a /\ i + k - 1 \in 1..b
  OBVIOUS
<1>3. q \in [1 .. n - i -> Moves(a, b)]
  BY <1>2 DEF Move, Moves
<1>4. Move(0, n) \in Moves(a, b)
  BY DEF Move, Moves
<1> HIDE DEF q
<1>5. q \o <<Move(0, n)>> \in Seq(Moves(a, b))
  BY <1>1, <1>3, <1>4, MovesAndOne
<1> QED
  BY <1>5 DEF q, DeleteInPlace

\* A new array that append would make holds the slice and one member more.
LEMMA GrownFacts ==
  ASSUME SharedOK, NEW s \in Slices
  PROVE  /\ Grown(s) \in Seq(Cells) /\ Len(Grown(s)) # 0
         /\ ~HasRoom(s) => s.len + 1 <= Len(Grown(s))
<1> DEFINE n == IF s.arr = 0 THEN 1 ELSE 2 * Capacity(s)
<1>1. /\ s.arr \in 0..Len(heap) /\ Len(heap) \in Nat
      /\ s.len \in Nat /\ s.len <= Capacity(s) /\ Capacity(s) \in Nat
      /\ Capacity(s) # 0 <=> s.arr \in 1..Len(heap)
  BY CapacityFacts DEF SharedOK
<1>2. n \in Nat /\ n # 0 /\ (s.len = Capacity(s) => s.len + 1 <= n)
  BY <1>1
<1>3. Grown(s) = [i \in 1..n |-> Zero] /\ Zero \in Cells
  BY DEF Grown, Cells
<1> HIDE DEF n
<1>4. Grown(s) \in Seq(Cells) /\ Len(Grown(s)) = n
  BY <1>2, <1>3
<1>5. ~HasRoom(s) => s.len = Capacity(s)
  BY <1>1 DEF HasRoom
<1> QED
  BY <1>2, <1>4, <1>5

\* The first step of a change: its moves fit into the slice that it prepares.
LEMMA ChangeKeeps ==
  ASSUME IInv, NEW g \in Goroutines, Searched(g), call[g].op \in Writes,
         NEW moves, NEW a, NEW n, Change(g, moves, a, n), NEW b \in Nat,
         SharedOK', Grows,
         [arr |-> a, len |-> n] \in Slices', (IF a = 0 THEN 0 ELSE Len(heap'[a])) = b,
         moves \in Seq(Moves(Capacity(before[g].slice), b))
  PROVE  IInv' /\ pc' = [pc EXCEPT ![g] = "change"]
<1>1. SharedOK /\ PerGoroutine /\ HistoryOK /\ LocalOK(g)
  BY DEF IInv
<1>2. /\ todo' = [todo EXCEPT ![g] = moves]
      /\ after' = [after EXCEPT ![g] = [arr |-> a, len |-> n]]
      /\ pc' = [pc EXCEPT ![g] = "change"]
      /\ UNCHANGED <<version, current, call, before, lo, hi, got, history>>
  BY DEF Change
<1>3. todo'[g] = moves /\ after'[g] = [arr |-> a, len |-> n] /\ pc'[g] = "change"
  BY <1>1, <1>2 DEF PerGoroutine
<1>4. version' \in Nat /\ version <= version'
  <2>1. version \in Nat
    BY <1>1 DEF SharedOK
  <2> QED
    BY <1>2, <2>1
<1>5. pc[g] = "search" /\ InCall(g)
  BY DEF Searched, InCall
<1>6. before[g].slice \in Slices
  BY <1>1, <1>5 DEF LocalOK, SlicesOK
<1>7. /\ before'[g].slice \in Slices'
      /\ Capacity(before[g].slice)' = Capacity(before[g].slice)
  <2>1. \A s \in Slices : s \in Slices' /\ Capacity(s)' = Capacity(s)
    BY <1>1, SlicesSurvive
  <2> QED
    BY <1>2, <1>6, <2>1 DEF Capacity
<1>8. \A q \in Goroutines : q # g => Same(q)
  BY <1>1, <1>2 DEF PerGoroutine, Same
<1>9. PerGoroutine'
  BY <1>1, <1>2 DEF PerGoroutine
<1>10. HistoryOK'
  BY <1>1, <1>2 DEF HistoryOK, history
<1>11. CallOK(g)'
  BY <1>1, <1>2, <1>3, <1>5 DEF LocalOK, CallOK, InCall
<1>12. SlicesOK(g)'
  BY <1>1, <1>2, <1>3, <1>5, <1>7 DEF LocalOK, SlicesOK
<1>13. MovesOK(g)'
  <2>1. Capacity(after[g])' = b
    BY <1>3 DEF Capacity
  <2> QED
    BY <1>3, <1>7, <2>1 DEF MovesOK
<1>14. IInv'
  BY <1>4, <1>8, <1>9, <1>10, <1>11, <1>12, <1>13, StepKeeps DEF LocalOK
<1> QED
  BY <1>2, <1>14

\* What the search has found about the slice of g.
LEMMA SearchFacts ==
  ASSUME IInv, NEW g \in Goroutines, Searched(g)
  PROVE  /\ before[g].slice \in Slices /\ before[g].slice.len \in Nat
         /\ Position(g) \in 1 .. before[g].slice.len + 1
         /\ Found(g) => Position(g) \in 1 .. before[g].slice.len
         /\ Capacity(before[g].slice) \in Nat
         /\ before[g].slice.len <= Capacity(before[g].slice)
<1>1. SharedOK /\ LocalOK(g) /\ InCall(g) /\ lo[g] = hi[g]
  BY DEF IInv, Searched, InCall
<1>2. /\ before[g].slice \in Slices /\ lo[g] \in Nat /\ hi[g] \in Nat
      /\ hi[g] <= before[g].slice.len
  BY <1>1 DEF LocalOK, SlicesOK
<1>3. /\ before[g].slice.len \in Nat /\ Capacity(before[g].slice) \in Nat
      /\ before[g].slice.len <= Capacity(before[g].slice)
  BY <1>1, <1>2, CapacityFacts
<1>4. Found(g) => lo[g] < before[g].slice.len
  BY DEF Found
<1> QED
  BY <1>1, <1>2, <1>3, <1>4 DEF Position

\* A slice that fits into its array.
LEMMA NewSlice ==
  ASSUME NEW a \in 0..Len(heap'), NEW n \in Nat, NEW b,
         (IF a = 0 THEN 0 ELSE Len(heap'[a])) = b, n <= b
  PROVE  [arr |-> a, len |-> n] \in Slices'
BY DEF Slices, Capacity

\* A member is inserted in place if there is room, and by copy otherwise.
LEMMA BeginInsertKeeps ==
  ASSUME IInv, NEW g \in Goroutines, BeginInsert(g)
  PROVE  IInv' /\ pc' = [pc EXCEPT ![g] = "change"]
<1> DEFINE s == before[g].slice
           n == s.len
           c == Capacity(s)
<1>1. SharedOK /\ Searched(g) /\ call[g].op \in Writes /\ Insert(g)
  BY DEF IInv, BeginInsert, Writes
<1>2. /\ s \in Slices /\ n \in Nat /\ c \in Nat /\ n <= c /\ Position(g) \in 1 .. n + 1
  BY <1>1, SearchFacts
<1>3. Len(heap) \in Nat /\ s.arr \in 0..Len(heap) /\ (c # 0 => s.arr \in 1..Len(heap))
  BY <1>1, <1>2, CapacityFacts DEF SharedOK
<1>4. CASE HasRoom(s)
  <2>1. heap' = heap /\ Change(g, InsertInPlace(n, Position(g)), s.arr, n + 1)
    BY <1>1, <1>4 DEF Insert
  <2>2. n + 1 <= c
    BY <1>2, <1>4 DEF HasRoom
  <2>3. UNCHANGED <<heap, version, current>>
    BY <2>1 DEF Change
  <2>4. SharedOK' /\ Grows
    BY <2>3, SharedKept DEF shared
  <2>5. InsertInPlace(n, Position(g)) \in Seq(Moves(c, c))
    BY <1>2, <2>2, InsertInPlaceMoves
  <2>6. (IF s.arr = 0 THEN 0 ELSE Len(heap'[s.arr])) = c
    BY <2>1 DEF Capacity
  <2>7. [arr |-> s.arr, len |-> n + 1] \in Slices'
    <3>1. n + 1 \in Nat /\ s.arr \in 0..Len(heap')
      BY <1>2, <1>3, <2>1
    <3> HIDE DEF n, c
    <3> QED
      BY <2>2, <2>6, <3>1, NewSlice
  <2> HIDE DEF s, n, c
  <2> QED
    BY <1>1, <1>2, <2>1, <2>4, <2>5, <2>6, <2>7, ChangeKeeps DEF s, n, c
<1>5. CASE ~HasRoom(s)
  <2> DEFINE a == Len(heap) + 1
             b == Len(Grown(s))
  <2>1. /\ heap' = Append(heap, Grown(s))
        /\ Change(g, InsertByCopy(n, Position(g)), a, n + 1)
    BY <1>1, <1>5 DEF Insert
  <2>2. /\ Grown(s) \in Seq(Cells) /\ b \in Nat /\ b # 0 /\ n + 1 <= b
    BY <1>1, <1>2, <1>5, GrownFacts
  <2>3. heap \in Seq(Seq(Cells))
    BY <1>1 DEF SharedOK
  <2>4. /\ heap' \in Seq(Seq(Cells)) /\ Len(heap') = a /\ heap'[a] = Grown(s)
        /\ \A j \in 1..Len(heap) : heap'[j] = heap[j]
    BY <2>1, <2>2, <2>3, AppendProperties
  <2>5. Grows
    BY <1>3, <2>4 DEF Grows
  <2>6. SharedOK'
    <3>1. version' \in Nat /\ current' = current /\ current \in Slices
      BY <1>1, <2>1 DEF SharedOK, Change
    <3>2. current' \in Slices'
      BY <1>1, <2>5, <3>1, SlicesSurvive
    <3>3. \A j \in 1..Len(heap') : Len(heap'[j]) # 0
      <4>1. \A j \in 1..Len(heap') : j = a \/ j \in 1..Len(heap)
        BY <1>3, <2>4
      <4> QED
        BY <1>1, <2>2, <2>4, <4>1 DEF SharedOK
    <3> QED
      BY <2>4, <3>1, <3>2, <3>3 DEF SharedOK
  <2>7. InsertByCopy(n, Position(g)) \in Seq(Moves(c, b))
    BY <1>2, <2>2, InsertByCopyMoves
  <2>8. a # 0 /\ a \in 0..Len(heap')
    BY <1>3, <2>4
  <2>9. (IF a = 0 THEN 0 ELSE Len(heap'[a])) = b
    BY <2>4, <2>8
  <2>10. [arr |-> a, len |-> n + 1] \in Slices'
    <3>1. n + 1 \in Nat /\ n + 1 <= b
      BY <1>2, <2>2
    <3> HIDE DEF a, b, n
    <3> QED
      BY <2>8, <2>9, <3>1, NewSlice
  <2> HIDE DEF s, n, c, a, b
  <2> QED
    BY <1>1, <1>2, <2>1, <2>2, <2>5, <2>6, <2>7, <2>9, <2>10, ChangeKeeps DEF s, n, c
<1> QED
  BY <1>4, <1>5

\* A member is deleted in place.
LEMMA BeginDeleteKeeps ==
  ASSUME IInv, NEW g \in Goroutines, BeginDelete(g)
  PROVE  IInv' /\ pc' = [pc EXCEPT ![g] = "change"]
<1> DEFINE s == before[g].slice
           n == s.len
           c == Capacity(s)
<1>1. /\ SharedOK /\ Searched(g) /\ call[g].op \in Writes /\ Found(g)
      /\ heap' = heap /\ Change(g, DeleteInPlace(n, Position(g)), s.arr, n - 1)
  BY DEF IInv, BeginDelete, Writes
<1>2. /\ s \in Slices /\ n \in Nat /\ c \in Nat /\ n <= c /\ Position(g) \in 1..n
  BY <1>1, SearchFacts
<1>3. Len(heap) \in Nat /\ s.arr \in 0..Len(heap)
  BY <1>1, <1>2, CapacityFacts DEF SharedOK
<1>4. SharedOK' /\ Grows
  <2>1. UNCHANGED <<heap, version, current>>
    BY <1>1 DEF Change
  <2> QED
    BY <2>1, SharedKept DEF shared
<1>5. DeleteInPlace(n, Position(g)) \in Seq(Moves(c, c))
  BY <1>2, DeleteInPlaceMoves
<1>6. n - 1 \in Nat /\ n - 1 <= c
  BY <1>2
<1>7. (IF s.arr = 0 THEN 0 ELSE Len(heap'[s.arr])) = c
  BY <1>1 DEF Capacity
<1>8. [arr |-> s.arr, len |-> n - 1] \in Slices'
  <2>1. s.arr \in 0..Len(heap')
    BY <1>1, <1>3
  <2> HIDE DEF n, c
  <2> QED
    BY <1>6, <1>7, <2>1, NewSlice
<1> HIDE DEF s, n, c
<1> QED
  BY <1>1, <1>2, <1>4, <1>5, <1>7, <1>8, ChangeKeeps DEF s, n, c

\* A cell of one array is written.
LEMMA HeapUpdate ==
  ASSUME NEW S, NEW h \in Seq(Seq(S)), NEW a \in 1..Len(h), NEW i \in 1..Len(h[a]),
         NEW v \in S, NEW r, r = [h EXCEPT ![a][i] = v]
  PROVE  /\ r \in Seq(Seq(S)) /\ Len(r) = Len(h)
         /\ \A b \in 1..Len(h) : Len(r[b]) = Len(h[b])
<1> DEFINE e == [h[a] EXCEPT ![i] = v]
<1>1. h[a] \in Seq(S)
  BY ElementOfSeq
<1>2. e \in Seq(S) /\ Len(e) = Len(h[a])
  BY <1>1, ExceptSeq
<1>3. r = [h EXCEPT ![a] = e]
  OBVIOUS
<1> HIDE DEF e
<1>4. /\ r \in Seq(Seq(S)) /\ Len(r) = Len(h)
      /\ \A b \in 1..Len(h) : r[b] = IF b = a THEN e ELSE h[b]
  <2> DEFINE T == Seq(S)
  <2>1. h \in Seq(T) /\ e \in T
    BY <1>2
  <2> HIDE DEF T
  <2>2. /\ [h EXCEPT ![a] = e] \in Seq(T) /\ Len([h EXCEPT ![a] = e]) = Len(h)
        /\ \A b \in 1..Len(h) : [h EXCEPT ![a] = e][b] = IF b = a THEN e ELSE h[b]
    BY <2>1, ExceptSeq
  <2> QED
    BY <1>3, <2>2 DEF T
<1>5. ASSUME NEW b \in 1..Len(h) PROVE Len(r[b]) = Len(h[b])
  <2>1. CASE b = a
    BY <1>2, <1>4, <2>1
  <2>2. CASE b # a
    BY <1>4, <2>2
  <2> QED
    BY <2>1, <2>2
<1> QED
  BY <1>4, <1>5

\* A move writes a cell of the slice that g prepares, which may be a cell of the
\* slices of others; it stores a member or clears the cell.
LEMMA MoveCellKeeps ==
  ASSUME IInv, NEW g \in Goroutines, MoveCell(g)
  PROVE  IInv' /\ pc' = pc
<1> DEFINE mv == Head(todo[g])
           a == after[g].arr
           v == Moved(g, mv)
           cb == Capacity(before[g].slice)
           ca == Capacity(after[g])
<1>1. SharedOK /\ PerGoroutine /\ HistoryOK /\ LocalOK(g)
  BY DEF IInv
<1>2. /\ pc[g] = "change" /\ todo[g] # <<>>
      /\ heap' = [heap EXCEPT ![a][mv.to] = v]
      /\ todo' = [todo EXCEPT ![g] = Tail(@)]
      /\ UNCHANGED <<version, current, pc, call, before, lo, hi, got, after,
                     members, correct, calls, overlap>>
  BY DEF MoveCell
<1>3. shifted' \in BOOLEAN
  BY Zenon DEF MoveCell
<1>4. InCall(g)
  BY <1>2 DEF InCall
<1>5. before[g].slice \in Slices /\ after[g] \in Slices /\ call[g] \in Calls
      /\ call[g].op \in Writes /\ todo[g] \in Seq(Moves(cb, ca))
  BY <1>1, <1>2, <1>4 DEF LocalOK, SlicesOK, CallOK, MovesOK
<1> HIDE DEF v, cb, ca
<1>6. mv \in Moves(cb, ca) /\ Tail(todo[g]) \in Seq(Moves(cb, ca))
  BY <1>2, <1>5, HeadTailProperties
<1>7. mv.from \in 0..cb /\ mv.to \in 1..ca /\ cb \in Nat /\ ca \in Nat
  <2>1. cb \in Nat /\ ca \in Nat
    BY <1>1, <1>5, CapacityFacts DEF cb, ca
  <2> QED
    BY <1>6, <2>1 DEF Moves
<1>8. v \in Cells
  <2>1. CASE mv.from # 0
    <3>1. mv.from \in 1..cb
      BY <1>7, <2>1
    <3>2. heap[before[g].slice.arr][mv.from] \in Cells
      BY <1>1, <1>5, <3>1, CellFacts DEF cb
    <3>3. v = heap[before[g].slice.arr][mv.from]
      BY <2>1 DEF v, Moved, Cell
    <3> QED
      BY <3>2, <3>3
  <2>2. CASE mv.from = 0
    <3>1. v = IF call[g].op = "Add" THEN call[g].m ELSE Zero
      BY <2>2 DEF v, Moved
    <3>2. call[g].m \in Members
      BY <1>5 DEF Calls, Writes
    <3> QED
      BY <3>1, <3>2 DEF Cells
  <2> QED
    BY <2>1, <2>2
<1>9. a \in 1..Len(heap) /\ mv.to \in 1..Len(heap[a])
  <2>1. ca # 0
    BY <1>7
  <2>2. a \in 1..Len(heap) /\ Len(heap[a]) = ca
    BY <1>1, <1>5, <2>1, CapacityFacts DEF ca
  <2> QED
    BY <1>7, <2>2
<1> HIDE DEF mv, a
<1>10. /\ heap' \in Seq(Seq(Cells)) /\ Len(heap') = Len(heap)
       /\ \A b \in 1..Len(heap) : Len(heap'[b]) = Len(heap[b])
  <2>1. heap \in Seq(Seq(Cells))
    BY <1>1 DEF SharedOK
  <2> QED
    BY <1>2, <1>8, <1>9, <2>1, HeapUpdate
<1>11. Grows
  <2>1. Len(heap) \in Nat
    BY <1>1 DEF SharedOK
  <2> QED
    BY <1>10, <2>1 DEF Grows
<1>12. SharedOK'
  <2>1. version' \in Nat /\ current \in Slices /\ current' = current
    BY <1>1, <1>2 DEF SharedOK
  <2>2. current' \in Slices'
    BY <1>1, <1>11, <2>1, SlicesSurvive
  <2>3. \A b \in 1..Len(heap') : Len(heap'[b]) # 0
    BY <1>1, <1>10 DEF SharedOK
  <2> QED
    BY <1>10, <2>1, <2>2, <2>3 DEF SharedOK
<1>13. version' \in Nat /\ version <= version'
  <2>1. version \in Nat
    BY <1>1 DEF SharedOK
  <2> QED
    BY <1>2, <2>1
<1>14. todo'[g] = Tail(todo[g])
  BY <1>1, <1>2 DEF PerGoroutine
<1>15. \A q \in Goroutines : q # g => Same(q)
  BY <1>1, <1>2 DEF PerGoroutine, Same
<1>16. PerGoroutine'
  BY <1>1, <1>2 DEF PerGoroutine
<1>17. HistoryOK'
  <2>1. UNCHANGED possible
    BY DEF MoveCell
  <2> QED
    BY <1>1, <1>2, <1>3, <2>1 DEF HistoryOK
<1>18. CallOK(g)'
  BY <1>1, <1>2 DEF LocalOK, CallOK, InCall
<1>19. \A s \in Slices : s \in Slices' /\ Capacity(s)' = Capacity(s)
  BY <1>1, <1>11, SlicesSurvive
<1>20. SlicesOK(g)'
  <2>1. before[g].slice \in Slices' /\ after[g] \in Slices'
    BY <1>5, <1>19
  <2> QED
    BY <1>1, <1>2, <1>4, <2>1 DEF LocalOK, SlicesOK
<1>21. MovesOK(g)'
  <2>1. Capacity(before[g].slice)' = cb /\ Capacity(after[g])' = ca
    BY <1>2, <1>5, <1>19 DEF Capacity, cb, ca
  <2> QED
    BY <1>6, <1>14, <2>1 DEF MovesOK
<1>22. IInv'
  BY <1>11, <1>12, <1>13, <1>15, <1>16, <1>17, <1>18, <1>20, <1>21, StepKeeps DEF LocalOK
<1> QED
  BY <1>2, <1>22

\* The slice that g has prepared is published.
LEMMA SwapKeeps ==
  ASSUME IInv, NEW g \in Goroutines, Swap(g)
  PROVE  IInv' /\ pc' = [pc EXCEPT ![g] = "idle"]
<1>1. SharedOK /\ PerGoroutine /\ HistoryOK /\ LocalOK(g)
  BY DEF IInv
<1>2. /\ pc[g] = "change" /\ current' = after[g] /\ version' = version + 1 /\ Finish(g)
      /\ UNCHANGED <<heap, calls, overlap, shifted>>
  BY DEF Swap
<1>3. version \in Nat /\ heap \in Seq(Seq(Cells)) /\ \A a \in 1..Len(heap) : Len(heap[a]) # 0
  BY <1>1 DEF SharedOK
<1>4. Slices' = Slices
  BY <1>2 DEF Slices, Capacity
<1>5. after[g] \in Slices /\ call[g] \in Calls /\ call[g].op \in Writes
  BY <1>1, <1>2 DEF LocalOK, SlicesOK, CallOK, InCall
<1>6. SharedOK'
  BY <1>2, <1>3, <1>4, <1>5 DEF SharedOK
<1>7. Grows /\ version' \in Nat /\ version <= version'
  BY <1>1, <1>2, <1>3, SameHeapGrows
<1>8. PerGoroutine' /\ LocalOK(g)' /\ \A q \in Goroutines : q # g => Same(q)
  BY <1>2, <1>6, FinishKeeps
<1>9. members' \subseteq Members
  <2>1. members \subseteq Members /\ call[g].m \in Members
    BY <1>1, <1>5 DEF HistoryOK, Calls, Writes
  <2>2. members' = IF call[g].op = "Add" THEN members \cup {call[g].m} ELSE members \ {call[g].m}
    BY DEF Swap
  <2> QED
    BY <2>1, <2>2
<1>10. correct' \in BOOLEAN
  BY Zenon DEF Swap
<1>11. HistoryOK'
  <2>1. DOMAIN possible' = Goroutines
    BY DEF Swap
  <2> QED
    BY <1>1, <1>2, <1>9, <1>10, <2>1 DEF HistoryOK
<1>12. pc' = [pc EXCEPT ![g] = "idle"]
  BY <1>2 DEF Finish
<1> QED
  BY <1>6, <1>7, <1>8, <1>11, <1>12, StepKeeps

\* After a failed swap the call begins anew with the slice of the winner.
LEMMA RetryKeeps ==
  ASSUME IInv, NEW g \in Goroutines, Retry(g)
  PROVE  IInv' /\ pc' = [pc EXCEPT ![g] = "search"]
<1>1. SharedOK /\ PerGoroutine /\ HistoryOK /\ LocalOK(g)
  BY DEF IInv
<1>2. /\ pc[g] = "change" /\ todo[g] = <<>>
      /\ Load(g, version, current, call[g].op)
      /\ after' = [after EXCEPT ![g] = NilSlice]
      /\ UNCHANGED <<shared, call, got, todo, history>>
  BY DEF Retry
<1>3. call[g] \in Calls /\ call[g].op \in Writes
  BY <1>1, <1>2 DEF LocalOK, CallOK, InCall
<1>4. current \in Slices
  BY <1>1 DEF SharedOK
<1>5. /\ DOMAIN call' = Goroutines /\ DOMAIN after' = Goroutines
      /\ call'[g] = call[g] /\ after'[g] = NilSlice
      /\ \A q \in Goroutines : q # g => call'[q] = call[q] /\ after'[q] = after[q]
  BY <1>1, <1>2 DEF PerGoroutine
<1>6. /\ SharedOK' /\ PerGoroutine' /\ LocalOK(g)' /\ Grows
      /\ version' \in Nat /\ version <= version'
      /\ \A q \in Goroutines : q # g => Same(q)
  BY <1>2, <1>3, <1>4, <1>5, LoadKeeps
<1>7. HistoryOK'
  BY <1>1, <1>2 DEF HistoryOK, history
<1>8. pc' = [pc EXCEPT ![g] = "search"]
  <2>1. call[g].op # "Members"
    BY <1>3 DEF Writes
  <2> QED
    BY <1>2, <2>1 DEF Load
<1> QED
  BY <1>6, <1>7, <1>8, StepKeeps

\* No step of a search makes a goroutine read.
LEMMA SearchStepKeeps ==
  ASSUME IInv, NEW g \in Goroutines, SearchStep(g)
  PROVE  /\ IInv' /\ pc'[g] # "read" /\ pc[g] # "read"
         /\ \A q \in Goroutines : q # g => pc'[q] = pc[q] /\ got'[q] = got[q]
<1>1. PerGoroutine
  BY DEF IInv
<1>2. pc[g] \in {"search", "change"}
  BY DEF SearchStep, Probe, NothingToDo, BeginInsert, BeginDelete, Searched,
         MoveCell, Swap, Retry
<1>3. IInv' /\ \/ pc' = pc
               \/ \E p \in {"idle", "search", "change"} : pc' = [pc EXCEPT ![g] = p]
  <2>1. CASE Probe(g)
    BY <2>1, ProbeKeeps
  <2>2. CASE NothingToDo(g)
    <3>1. Answer(g, Found(g))
      BY <2>2 DEF NothingToDo
    <3> QED
      BY <3>1, AnswerKeeps
  <2>3. CASE BeginInsert(g)
    BY <2>3, BeginInsertKeeps
  <2>4. CASE BeginDelete(g)
    BY <2>4, BeginDeleteKeeps
  <2>5. CASE MoveCell(g)
    BY <2>5, MoveCellKeeps
  <2>6. CASE Swap(g)
    BY <2>6, SwapKeeps
  <2>7. CASE Retry(g)
    BY <2>7, RetryKeeps
  <2> QED
    BY <2>1, <2>2, <2>3, <2>4, <2>5, <2>6, <2>7 DEF SearchStep
<1>4. pc'[g] # "read" /\ \A q \in Goroutines : q # g => pc'[q] = pc[q]
  BY <1>1, <1>2, <1>3 DEF PerGoroutine
<1>5. UNCHANGED got \/ got' = [got EXCEPT ![g] = <<>>]
  BY DEF SearchStep, Probe, NothingToDo, Answer, Finish, BeginInsert, BeginDelete,
         Insert, Change, MoveCell, Swap, Retry
<1>6. \A q \in Goroutines : q # g => got'[q] = got[q]
  BY <1>1, <1>5 DEF PerGoroutine
<1> QED
  BY <1>2, <1>3, <1>4, <1>6

-----------------------------------------------------------------------------
(* The ordered set.                                                        *)

\* The invariant holds at first.
LEMMA InitOK == Init => IInv
<1> SUFFICES ASSUME Init PROVE IInv
  OBVIOUS
<1>1. heap = <<>> /\ version = 0 /\ current = NilSlice
  BY DEF Init
<1>2. NilSlice \in Slices
  BY <1>1 DEF NilSlice, Slices, Capacity
<1>3. SharedOK
  BY <1>1, <1>2 DEF SharedOK
<1>4. PerGoroutine
  BY DEF Init, PerGoroutine
<1>5. HistoryOK
  <2>1. correct \in BOOLEAN /\ shifted \in BOOLEAN
    BY Zenon DEF Init
  <2>2. members = {} /\ calls = 0 /\ overlap = "none" /\ DOMAIN possible = Goroutines
    BY DEF Init
  <2> QED
    BY <2>1, <2>2, MembersAssumption DEF HistoryOK
<1>6. ASSUME NEW g \in Goroutines PROVE LocalOK(g)
  <2>1. /\ pc[g] = "idle" /\ call[g] = None /\ got[g] = <<>> /\ todo[g] = <<>>
        /\ after[g] = NilSlice
    BY DEF Init
  <2> QED
    BY <1>2, <2>1 DEF LocalOK, CallOK, SlicesOK, MovesOK, InCall
<1> QED
  BY <1>3, <1>4, <1>5, <1>6 DEF IInv

\* The invariant says more than the types.
LEMMA IInvImpliesTypeOK == IInv => TypeOK
<1> SUFFICES ASSUME IInv PROVE TypeOK
  OBVIOUS
<1>1. SharedOK /\ PerGoroutine /\ HistoryOK
  BY DEF IInv
<1>2. ASSUME NEW g \in Goroutines
      PROVE  /\ call[g] \in (IF InCall(g) THEN Calls ELSE {None})
             /\ InCall(g) => before[g].version \in 0..version /\ before[g].slice \in Slices
             /\ InCall(g) => lo[g] <= hi[g] /\ hi[g] <= before[g].slice.len
             /\ got[g] \in Seq(Cells)
             /\ after[g] \in Slices
  BY DEF IInv, LocalOK, CallOK, SlicesOK
<1>3. ASSUME NEW g \in Goroutines, NEW k \in 1..Len(todo[g])
      PROVE  /\ todo[g][k].to \in 1..Capacity(after[g])
             /\ todo[g][k].from \in 0..Capacity(before[g].slice)
  <2>1. pc[g] = "idle" => todo[g] = <<>>
    BY DEF IInv, LocalOK, CallOK
  <2>2. InCall(g)
    BY <2>1 DEF InCall
  <2>3. todo[g] \in Seq(Moves(Capacity(before[g].slice), Capacity(after[g])))
    BY <2>2 DEF IInv, LocalOK, MovesOK
  <2>4. todo[g][k] \in Moves(Capacity(before[g].slice), Capacity(after[g]))
    BY <2>3, ElementOfSeq
  <2> QED
    BY <2>4 DEF Moves
<1> QED
  BY <1>1, <1>2, <1>3 DEF TypeOK, SharedOK, PerGoroutine, HistoryOK

-----------------------------------------------------------------------------
(* The members in order.                                                   *)

\* Sets of numbers have a least element: what induction would show follows from
\* a least counterexample.
LEMMA LeastNumber ==
  ASSUME NEW T \in SUBSET Nat, T # {}
  PROVE  \E x \in T : \A y \in T : x <= y
<1> DEFINE R == {ss \in Nat \X Nat : ss[1] < ss[2]}
<1>1. IsWellFoundedOn(R, Nat)
  BY NatLessThanWellFounded DEF OpToRel
<1>2. ASSUME NEW x \in Nat, NEW y \in Nat, x < y
      PROVE  <<x, y>> \in R
  BY <1>2
<1> HIDE DEF R
<1>3. PICK x \in T : \A y \in T : ~ (<<y, x>> \in R)
  BY <1>1, WFMin
<1>4. ASSUME NEW y \in T PROVE x <= y
  <2>1. x \in Nat /\ y \in Nat
    OBVIOUS
  <2>2. ~ (y < x)
    BY <1>2, <1>3, <2>1
  <2> QED
    BY <2>1, <2>2
<1> QED
  BY <1>4

\* q lists the n elements of S in ascending order.
Lists(q, n, S) ==
  /\ q \in [1..n -> S]
  /\ \A i, j \in 1..n : i < j => q[i] < q[j]
  /\ \A x \in S : \E i \in 1..n : q[i] = x

\* A list has as many elements as its set.
LEMMA ListCounts ==
  ASSUME NEW S \in SUBSET Nat, NEW n \in Nat, NEW q, Lists(q, n, S)
  PROVE  Cardinality(S) = n
<1>1. \A i, j \in 1..n : q[i] = q[j] => i = j
  <2> SUFFICES ASSUME NEW i \in 1..n, NEW j \in 1..n, i # j PROVE q[i] # q[j]
    OBVIOUS
  <2>1. i < j \/ j < i
    OBVIOUS
  <2>2. q[i] \in Nat /\ q[j] \in Nat
    BY DEF Lists
  <2>3. q[i] < q[j] \/ q[j] < q[i]
    BY <2>1 DEF Lists
  <2> QED
    BY <2>2, <2>3
<1>2. q \in Bijection(1..n, S)
  BY <1>1 DEF Lists, Bijection, Injection, Surjection, IsInjective
<1>3. ExistsBijection(1..n, S)
  BY <1>2 DEF ExistsBijection
<1> QED
  BY <1>3, FS_CountingElements

\* There is one way only to list a set.
LEMMA ListsUnique ==
  ASSUME NEW S \in SUBSET Nat, NEW n \in Nat,
         NEW q, Lists(q, n, S), NEW p, Lists(p, n, S)
  PROVE  q = p
<1>1. q \in [1..n -> S] /\ p \in [1..n -> S]
  BY DEF Lists
<1> DEFINE T == {i \in 1..n : q[i] # p[i]}
<1>2. CASE T = {}
  <2>1. \A i \in 1..n : q[i] = p[i]
    BY <1>2
  <2> QED
    BY <1>1, <2>1
<1>3. CASE T # {}
  <2>1. PICK i \in T : \A j \in T : i <= j
    <3>1. T \in SUBSET Nat
      OBVIOUS
    <3> HIDE DEF T
    <3> QED
      BY <1>3, <3>1, LeastNumber
  <2>2. i \in 1..n /\ q[i] # p[i]
    BY <2>1
  <2>3. \A j \in 1..n : j < i => q[j] = p[j]
    BY <2>1, <2>2
  <2>4. ASSUME NEW f, NEW h, Lists(f, n, S), Lists(h, n, S), f[i] < h[i],
               \A j \in 1..n : j < i => f[j] = h[j]
        PROVE  FALSE
    <3>1. f[i] \in S
      BY <2>2, <2>4 DEF Lists
    <3>2. PICK j \in 1..n : h[j] = f[i]
      BY <2>4, <3>1 DEF Lists
    <3>3. h[j] < h[i] /\ h[j] \in Nat /\ h[i] \in Nat
      BY <2>2, <2>4, <3>2 DEF Lists
    <3>4. ~ (i < j) /\ i # j
      BY <2>2, <2>4, <3>3 DEF Lists
    <3>5. j < i
      BY <2>2, <3>4
    <3>6. f[j] = f[i] /\ f[j] < f[i] /\ f[i] \in Nat
      BY <2>2, <2>4, <3>2, <3>5 DEF Lists
    <3> QED
      BY <3>6
  <2>5. q[i] \in Nat /\ p[i] \in Nat
    BY <1>1, <2>2
  <2>6. q[i] < p[i] \/ p[i] < q[i]
    BY <2>2, <2>5
  <2>7. \A j \in 1..n : j < i => p[j] = q[j]
    BY <2>3
  <2> HIDE DEF T
  <2> QED
    BY <2>3, <2>4, <2>6, <2>7
<1> QED
  BY <1>2, <1>3

\* The list with m at position i, for an element m that belongs there.
Inserted(q, n, m, i) ==
  [j \in 1 .. n + 1 |-> IF j < i THEN q[j] ELSE IF j = i THEN m ELSE q[j - 1]]

\* A list with an element inserted where it belongs lists one element more.
LEMMA InsertedLists ==
  ASSUME NEW S \in SUBSET Nat, NEW n \in Nat, NEW q, Lists(q, n, S),
         NEW m \in Nat, NEW i \in 1 .. n + 1,
         \A j \in 1 .. i - 1 : q[j] < m, \A j \in i..n : m < q[j]
  PROVE  Lists(Inserted(q, n, m, i), n + 1, S \cup {m})
<1> DEFINE r == Inserted(q, n, m, i)
           T == S \cup {m}
<1>1. q \in [1..n -> S] /\ \A j \in 1..n : q[j] \in Nat
  BY DEF Lists
<1>2. /\ \A j \in 1 .. i - 1 : r[j] = q[j] /\ j \in 1..n
      /\ r[i] = m
      /\ \A j \in i + 1 .. n + 1 : r[j] = q[j - 1] /\ j - 1 \in i..n
  BY DEF Inserted
<1>3. \A j \in 1 .. n + 1 : j \in 1 .. i - 1 \/ j = i \/ j \in i + 1 .. n + 1
  OBVIOUS
<1>4. r \in [1 .. n + 1 -> T]
  <2>1. \A j \in 1 .. n + 1 : r[j] \in T
    <3>1. \A j \in i..n : j \in 1..n
      OBVIOUS
    <3> HIDE DEF r
    <3> QED
      BY <1>1, <1>2, <1>3, <3>1
  <2>2. r = [j \in 1 .. n + 1 |-> r[j]]
    BY DEF Inserted
  <2> HIDE DEF r, T
  <2> QED
    BY <2>1, <2>2
<1> HIDE DEF r
<1>5. ASSUME NEW j \in 1 .. n + 1, NEW k \in 1 .. n + 1, j < k
      PROVE  r[j] < r[k]
  <2>1. CASE j \in 1 .. i - 1 /\ k \in 1 .. i - 1
    BY <1>2, <1>5, <2>1 DEF Lists
  <2>2. CASE j \in 1 .. i - 1 /\ k = i
    BY <1>2, <2>2
  <2>3. CASE j \in 1 .. i - 1 /\ k \in i + 1 .. n + 1
    <3>1. r[j] = q[j] /\ j \in 1..n /\ r[k] = q[k - 1] /\ k - 1 \in 1..n /\ j < k - 1
      BY <1>2, <2>3
    <3> QED
      BY <3>1 DEF Lists
  <2>4. CASE j = i /\ k \in i + 1 .. n + 1
    BY <1>2, <2>4
  <2>5. CASE j \in i + 1 .. n + 1 /\ k \in i + 1 .. n + 1
    <3>1. /\ r[j] = q[j - 1] /\ j - 1 \in 1..n /\ r[k] = q[k - 1] /\ k - 1 \in 1..n
          /\ j - 1 < k - 1
      BY <1>2, <1>5, <2>5
    <3> QED
      BY <3>1 DEF Lists
  <2> QED
    BY <1>3, <1>5, <2>1, <2>2, <2>3, <2>4, <2>5
<1>6. ASSUME NEW x \in T PROVE \E j \in 1 .. n + 1 : r[j] = x
  <2>1. CASE x = m
    BY <1>2, <2>1
  <2>2. CASE x \in S
    <3>1. PICK j \in 1..n : q[j] = x
      BY <2>2 DEF Lists
    <3>2. CASE j < i
      BY <1>2, <3>1, <3>2
    <3>3. CASE j >= i
      <4>1. j + 1 \in i + 1 .. n + 1 /\ (j + 1) - 1 = j
        BY <3>3
      <4>2. r[j + 1] = q[j]
        BY <1>2, <4>1
      <4> QED
        BY <3>1, <4>1, <4>2
    <3> QED
      BY <3>2, <3>3
  <2> QED
    BY <2>1, <2>2
<1> QED
  BY <1>4, <1>5, <1>6 DEF Lists, r

\* The list without its element at position i.
Deleted(q, n, i) == [j \in 1 .. n - 1 |-> IF j < i THEN q[j] ELSE q[j + 1]]

\* A list with an element deleted lists one element less.
LEMMA DeletedLists ==
  ASSUME NEW S \in SUBSET Nat, NEW n \in Nat, NEW q, Lists(q, n, S), NEW i \in 1..n
  PROVE  Lists(Deleted(q, n, i), n - 1, S \ {q[i]})
<1> DEFINE r == Deleted(q, n, i)
           T == S \ {q[i]}
<1>1. /\ q \in [1..n -> S] /\ \A j \in 1..n : q[j] \in Nat
      /\ \A j, k \in 1..n : j < k => q[j] < q[k]
  BY DEF Lists
<1>2. \A j \in 1..n : j # i => q[j] # q[i]
  <2> SUFFICES ASSUME NEW j \in 1..n, j # i PROVE q[j] # q[i]
    OBVIOUS
  <2>1. j < i \/ i < j
    OBVIOUS
  <2>2. q[j] < q[i] \/ q[i] < q[j]
    BY <1>1, <2>1
  <2>3. q[j] \in Nat /\ q[i] \in Nat
    BY <1>1
  <2> QED
    BY <2>2, <2>3
<1>3. /\ \A j \in 1 .. i - 1 : r[j] = q[j] /\ j \in 1..n /\ j # i
      /\ \A j \in i .. n - 1 : r[j] = q[j + 1] /\ j + 1 \in 1..n /\ j + 1 # i
  BY DEF Deleted
<1>4. \A j \in 1 .. n - 1 : j \in 1 .. i - 1 \/ j \in i .. n - 1
  OBVIOUS
<1>5. r \in [1 .. n - 1 -> T]
  <2>1. \A j \in 1 .. n - 1 : r[j] \in T
    <3> HIDE DEF r
    <3> QED
      BY <1>1, <1>2, <1>3, <1>4
  <2>2. r = [j \in 1 .. n - 1 |-> r[j]]
    BY DEF Deleted
  <2> HIDE DEF r, T
  <2> QED
    BY <2>1, <2>2
<1> HIDE DEF r
<1>6. ASSUME NEW j \in 1 .. n - 1, NEW k \in 1 .. n - 1, j < k
      PROVE  r[j] < r[k]
  <2>1. CASE j \in 1 .. i - 1 /\ k \in 1 .. i - 1
    BY <1>1, <1>3, <1>6, <2>1
  <2>2. CASE j \in 1 .. i - 1 /\ k \in i .. n - 1
    <3>1. r[j] = q[j] /\ j \in 1..n /\ r[k] = q[k + 1] /\ k + 1 \in 1..n /\ j < k + 1
      BY <1>3, <1>6, <2>2
    <3> QED
      BY <1>1, <3>1
  <2>3. CASE j \in i .. n - 1 /\ k \in i .. n - 1
    <3>1. /\ r[j] = q[j + 1] /\ j + 1 \in 1..n /\ r[k] = q[k + 1] /\ k + 1 \in 1..n
          /\ j + 1 < k + 1
      BY <1>3, <1>6, <2>3
    <3> QED
      BY <1>1, <3>1
  <2> QED
    BY <1>4, <1>6, <2>1, <2>2, <2>3
<1>7. ASSUME NEW x \in T PROVE \E j \in 1 .. n - 1 : r[j] = x
  <2>1. PICK j \in 1..n : q[j] = x
    BY DEF Lists
  <2>2. j # i
    BY <2>1
  <2>3. CASE j < i
    BY <1>3, <2>1, <2>3
  <2>4. CASE j > i
    <3>1. j - 1 \in i .. n - 1 /\ (j - 1) + 1 = j /\ j - 1 \in 1 .. n - 1
      BY <2>4
    <3>2. r[j - 1] = q[j]
      BY <1>3, <3>1
    <3> QED
      BY <2>1, <3>1, <3>2
  <2> QED
    BY <2>2, <2>3, <2>4
<1> QED
  BY <1>5, <1>6, <1>7 DEF Lists, r

\* Every finite set has a list: one of least cardinality without a list would
\* have one without its least element.
LEMMA ListsExist ==
  ASSUME NEW S \in SUBSET Nat, IsFiniteSet(S)
  PROVE  \E q : Lists(q, Cardinality(S), S)
<1> DEFINE Bad(U) == IsFiniteSet(U) /\ ~ \E q : Lists(q, Cardinality(U), U)
           T == {Cardinality(U) : U \in {V \in SUBSET Nat : Bad(V)}}
<1>1. SUFFICES ASSUME Bad(S) PROVE FALSE
  OBVIOUS
<1>2. T \in SUBSET Nat /\ T # {}
  <2>1. \A U \in SUBSET Nat : Bad(U) => Cardinality(U) \in Nat
    BY FS_CardinalityType
  <2>2. Cardinality(S) \in T
    BY <1>1
  <2> QED
    BY <2>1, <2>2
<1>3. PICK n \in T : \A k \in T : n <= k
  <2> HIDE DEF T
  <2> QED
    BY <1>2, LeastNumber
<1>4. PICK U \in SUBSET Nat : Bad(U) /\ n = Cardinality(U)
  BY <1>3
<1>5. IsFiniteSet(U) /\ n \in Nat /\ \A q : ~ Lists(q, n, U)
  BY <1>2, <1>3, <1>4
<1>6. U # {}
  <2>1. ASSUME U = {} PROVE Lists(<<>>, n, U)
    <3>1. n = 0
      BY <1>4, <2>1, FS_EmptySet
    <3> QED
      BY <2>1, <3>1 DEF Lists
  <2> QED
    BY <1>5, <2>1
<1>7. PICK m \in U : \A x \in U : m <= x
  BY <1>6, LeastNumber
<1> DEFINE V == U \ {m}
<1>8. IsFiniteSet(V) /\ Cardinality(V) = n - 1 /\ V \in SUBSET Nat
  BY <1>4, <1>5, FS_RemoveElement
<1>9. n - 1 \in Nat
  BY <1>8, FS_CardinalityType
<1>10. PICK q : Lists(q, n - 1, V)
  <2>1. ~ (n <= n - 1)
    BY <1>5
  <2>2. n - 1 \notin T
    BY <1>3, <2>1
  <2>3. ~ Bad(V)
    BY <1>8, <2>2
  <2> QED
    BY <1>8, <2>3
<1>11. \A j \in 1 .. n - 1 : m < q[j]
  <2> SUFFICES ASSUME NEW j \in 1 .. n - 1 PROVE m < q[j]
    OBVIOUS
  <2>1. q[j] \in U /\ q[j] # m
    BY <1>10 DEF Lists
  <2>2. m \in Nat /\ q[j] \in Nat /\ m <= q[j]
    BY <1>7, <2>1
  <2> HIDE DEF V, T, Bad
  <2> QED
    BY <2>1, <2>2
<1> HIDE DEF V, T, Bad
<1>12. Lists(Inserted(q, n - 1, m, 1), (n - 1) + 1, V \cup {m})
  <2>1. m \in Nat /\ 1 \in 1 .. (n - 1) + 1
    BY <1>9
  <2>2. \A j \in 1 .. 1 - 1 : q[j] < m
    OBVIOUS
  <2> QED
    BY <1>8, <1>9, <1>10, <1>11, <2>1, <2>2, InsertedLists
<1>13. V \cup {m} = U /\ (n - 1) + 1 = n
  BY <1>5 DEF V
<1> QED
  BY <1>5, <1>12, <1>13

\* Sorted lists its set, and nothing else does.
LEMMA SortedLists ==
  ASSUME NEW S \in SUBSET Nat, IsFiniteSet(S)
  PROVE  /\ Cardinality(S) \in Nat
         /\ Lists(Sorted(S), Cardinality(S), S)
         /\ \A n \in Nat : \A q : Lists(q, n, S) => n = Cardinality(S) /\ q = Sorted(S)
<1> DEFINE n == Cardinality(S)
           Up(q) == \A i, j \in 1..n : i < j => q[i] < q[j]
<1>1. n \in Nat
  BY FS_CardinalityType
<1>2. PICK p : Lists(p, n, S)
  BY ListsExist
<1>3. \E q \in [1..n -> S] : Up(q)
  BY <1>2 DEF Lists
<1>4. Sorted(S) \in [1..n -> S] /\ Up(Sorted(S))
  <2>1. Sorted(S) = CHOOSE q \in [1..n -> S] : Up(q)
    BY DEF Sorted
  <2> HIDE DEF n, Up
  <2> QED
    BY <1>3, <2>1
<1> DEFINE q == Sorted(S)
<1> HIDE DEF q, n
<1>5. q \in [1..n -> S] /\ \A i, j \in 1..n : i < j => q[i] < q[j]
  BY <1>4 DEF q
<1>6. \A i, j \in 1..n : q[i] = q[j] => i = j
  <2> SUFFICES ASSUME NEW i \in 1..n, NEW j \in 1..n, i # j PROVE q[i] # q[j]
    OBVIOUS
  <2>1. i < j \/ j < i
    OBVIOUS
  <2>2. q[i] < q[j] \/ q[j] < q[i]
    BY <1>5, <2>1
  <2>3. q[i] \in Nat /\ q[j] \in Nat
    BY <1>5
  <2> QED
    BY <2>2, <2>3
<1>7. q \in Surjection(1..n, S)
  <2>1. q \in Injection(1..n, S)
    BY <1>5, <1>6 DEF Injection, IsInjective
  <2>2. Cardinality(1..n) = n
    <3>1. 1 \in Int /\ n \in Int
      BY <1>1
    <3>2. Cardinality(1..n) = IF 1 > n THEN 0 ELSE n - 1 + 1
      BY <3>1, FS_Interval
    <3> QED
      BY <1>1, <3>2
  <2> QED
    BY <2>1, <2>2, FS_Injection DEF n
<1>8. Lists(q, n, S)
  <2>1. \A x \in S : \E i \in 1..n : q[i] = x
    BY <1>7 DEF Surjection
  <2> QED
    BY <1>5, <2>1 DEF Lists
<1>9. ASSUME NEW k \in Nat, NEW f, Lists(f, k, S)
      PROVE  k = n /\ f = q
  <2>1. k = n
    BY <1>9, ListCounts DEF n
  <2> QED
    BY <1>1, <1>8, <1>9, <2>1, ListsUnique
<1> QED
  BY <1>1, <1>8, <1>9 DEF n, q

\* What is used of Sorted for sets of members.
LEMMA SortedFacts ==
  ASSUME NEW S \in SUBSET Members
  PROVE  /\ Cardinality(S) \in Nat /\ Sorted(S) \in [1..Cardinality(S) -> S]
         /\ \A i \in 1..Cardinality(S) : Sorted(S)[i] \in S /\ Sorted(S)[i] \in Nat
         /\ \A i, j \in 1..Cardinality(S) : i < j => Sorted(S)[i] < Sorted(S)[j]
         /\ \A x \in S : \E i \in 1..Cardinality(S) : Sorted(S)[i] = x
<1>1. S \in SUBSET Nat /\ IsFiniteSet(S)
  BY MembersAssumption, FS_Subset
<1>2. Cardinality(S) \in Nat /\ Lists(Sorted(S), Cardinality(S), S)
  BY <1>1, SortedLists
<1> QED
  BY <1>1, <1>2 DEF Lists

\* A member is inserted where the search for it ends.
LEMMA SortedInsert ==
  ASSUME NEW S \in SUBSET Members, NEW m \in Members, m \notin S,
         NEW i \in 1 .. Cardinality(S) + 1,
         \A j \in 1 .. i - 1 : Sorted(S)[j] < m,
         \A j \in i .. Cardinality(S) : m <= Sorted(S)[j]
  PROVE  /\ Cardinality(S \cup {m}) = Cardinality(S) + 1
         /\ Sorted(S \cup {m}) = Inserted(Sorted(S), Cardinality(S), m, i)
<1> DEFINE n == Cardinality(S)
           q == Sorted(S)
           T == S \cup {m}
<1>1. S \in SUBSET Nat /\ IsFiniteSet(S) /\ m \in Nat /\ T \in SUBSET Nat /\ IsFiniteSet(T)
  BY MembersAssumption, FS_Subset
<1>2. n \in Nat /\ Lists(q, n, S)
  BY <1>1, SortedLists
<1>3. \A j \in i..n : m < q[j]
  <2> SUFFICES ASSUME NEW j \in i..n PROVE m < q[j]
    OBVIOUS
  <2>1. j \in 1..n /\ m <= q[j]
    BY <1>2
  <2>2. q[j] \in S /\ q[j] # m
    BY <1>2, <2>1 DEF Lists
  <2>3. q[j] \in Nat
    BY <1>1, <2>2
  <2> HIDE DEF q, n
  <2> QED
    BY <1>1, <2>1, <2>2, <2>3
<1>4. Lists(Inserted(q, n, m, i), n + 1, T)
  <2>1. \A j \in 1 .. i - 1 : q[j] < m
    OBVIOUS
  <2>2. i \in 1 .. n + 1
    OBVIOUS
  <2> HIDE DEF q, n
  <2> QED
    BY <1>1, <1>2, <1>3, <2>1, <2>2, InsertedLists
<1>5. n + 1 \in Nat
  BY <1>2
<1> HIDE DEF q, n, T
<1>6. n + 1 = Cardinality(T) /\ Inserted(q, n, m, i) = Sorted(T)
  BY <1>1, <1>4, <1>5, SortedLists
<1> QED
  BY <1>6 DEF q, n, T

\* A member is deleted where the search has found it.
LEMMA SortedDelete ==
  ASSUME NEW S \in SUBSET Members, NEW i \in 1..Cardinality(S)
  PROVE  /\ Cardinality(S \ {Sorted(S)[i]}) = Cardinality(S) - 1
         /\ Sorted(S \ {Sorted(S)[i]}) = Deleted(Sorted(S), Cardinality(S), i)
<1> DEFINE n == Cardinality(S)
           q == Sorted(S)
           T == S \ {q[i]}
<1>1. S \in SUBSET Nat /\ IsFiniteSet(S) /\ T \in SUBSET Nat
  BY MembersAssumption, FS_Subset
<1>2. IsFiniteSet(T)
  <2>1. T \in SUBSET S
    OBVIOUS
  <2> HIDE DEF T
  <2> QED
    BY <1>1, <2>1, FS_Subset
<1>3. n \in Nat /\ Lists(q, n, S) /\ i \in 1..n
  BY <1>1, SortedLists
<1>4. Lists(Deleted(q, n, i), n - 1, T)
  <2> HIDE DEF q, n
  <2> QED
    BY <1>1, <1>3, DeletedLists
<1>5. n - 1 \in Nat
  BY <1>3
<1> HIDE DEF q, n, T
<1>6. n - 1 = Cardinality(T) /\ Deleted(q, n, i) = Sorted(T)
  BY <1>1, <1>2, <1>4, <1>5, SortedLists
<1> QED
  BY <1>6 DEF q, n, T

-----------------------------------------------------------------------------
(* The content.  As long as no two writers overlap, and no reader runs     *)
(* while a writer moves cells of the published slice, every goroutine      *)
(* knows what its slice holds.                                             *)

Writer(g) == InCall(g) /\ call[g].op \in Writes

\* What overlap says of the calls that are in progress.
OverlapOK ==
  /\ overlap # "writers" => \A g, h \in Goroutines : Writer(g) /\ Writer(h) => g = h
  /\ overlap = "none" => \A g, h \in Goroutines : Writer(g) /\ InCall(h) => g = h

Quiet == overlap # "writers" /\ (overlap = "reader" => ~shifted)

\* The slice lists the members of S.
Holds(s, S) ==
  s.len = Cardinality(S) /\ \A i \in 1..s.len : heap[s.arr][i] = Sorted(S)[i]

\* A writer, alone then, may be moving cells of the published slice.
Disturbed == shifted /\ \E g \in Goroutines : pc[g] = "change"

CurrentOK ==
  current.len = Cardinality(members) /\ (~Disturbed => Holds(current, members))

WriterOK(g) == Writer(g) => before[g].version = version /\ before[g].slice = current

\* Readers do not see the cells that are written behind the published slice.
ReaderOK(g) ==
  ~shifted /\ InCall(g) /\ before[g].slice.arr = current.arr =>
    before[g].slice.len <= current.len

\* The search is in a slice that held the members at some time of the call.
SearchIn(g, S) ==
  /\ Holds(before[g].slice, S)
  /\ (call[g].m \in S) \in possible[g]
  /\ call[g].op \in Writes => S = members
  /\ \A j \in 1..lo[g] : Sorted(S)[j] < call[g].m
  /\ \A j \in hi[g] + 1 .. before[g].slice.len : call[g].m <= Sorted(S)[j]

ReadIn(g, S) ==
  /\ Holds(before[g].slice, S)
  /\ Sorted(S) \in possible[g]
  /\ overlap = "none" => S = members
  /\ Len(got[g]) <= before[g].slice.len
  /\ \A j \in 1..Len(got[g]) : got[g][j] = Sorted(S)[j]

SearchOK(g) == pc[g] = "search" => \E S \in SUBSET Members : SearchIn(g, S)
ReadOK(g)   == pc[g] = "read" => \E S \in SUBSET Members : ReadIn(g, S)

\* The members after the change.
Target(g) ==
  IF call[g].op = "Add" THEN members \cup {call[g].m} ELSE members \ {call[g].m}

\* A move that is left to do reads a cell that was not written yet, and writes
\* what belongs into the new slice.
MoveOK(g, mv) ==
  /\ mv.from = 0 /\ mv.to <= after[g].len =>
       call[g].op = "Add" /\ Sorted(Target(g))[mv.to] = call[g].m
  /\ mv.from # 0 =>
       /\ mv.from <= before[g].slice.len
       /\ heap[before[g].slice.arr][mv.from] = Sorted(members)[mv.from]
       /\ mv.to <= after[g].len => Sorted(Target(g))[mv.to] = Sorted(members)[mv.from]

\* No move writes a cell that a later one reads.
Untouched(g) ==
  after[g].arr = before[g].slice.arr =>
    \A j, k \in 1..Len(todo[g]) :
      j < k /\ todo[g][k].from # 0 => todo[g][j].to # todo[g][k].from

\* Every cell of the new slice is right or will be written.
Covered(g) ==
  \A j \in 1..after[g].len :
    \/ heap[after[g].arr][j] = Sorted(Target(g))[j]
    \/ \E k \in 1..Len(todo[g]) : todo[g][k].to = j

\* Nobody reads an array before it is published.
Private(g) ==
  \/ after[g].arr = current.arr
  \/ \A h \in Goroutines : InCall(h) => before[h].slice.arr # after[g].arr

\* Deleting writes cells of the published slice; inserting makes it longer.
ShiftOK(g) ==
  /\ call[g].op = "Delete" =>
       /\ after[g].arr = current.arr
       /\ shifted \/ todo[g] # <<>>
       /\ \A k \in 1..Len(todo[g]) : todo[g][k].to <= current.len
  /\ call[g].op = "Add" => current.len <= after[g].len

ChangeIn(g) ==
  /\ Target(g) # members
  /\ after[g].len = Cardinality(Target(g)) /\ after[g].arr # 0
  /\ \A k \in 1..Len(todo[g]) : MoveOK(g, todo[g][k])
  /\ Untouched(g) /\ Covered(g) /\ Private(g) /\ ShiftOK(g)

ChangeOK(g) == pc[g] = "change" => ChangeIn(g)

QuietOK ==
  /\ correct /\ CurrentOK
  /\ \A g \in Goroutines :
       WriterOK(g) /\ ReaderOK(g) /\ SearchOK(g) /\ ReadOK(g) /\ ChangeOK(g)

ContentInv == IInv /\ OverlapOK /\ (Quiet => QuietOK)

-----------------------------------------------------------------------------
(* What the steps of others leave alone.                                   *)

\* The cells of every slice stay what they are.
CellsStay == \A s \in Slices : \A i \in 1..Capacity(s) : heap'[s.arr][i] = heap[s.arr][i]

\* Calls that return, or go on, do not overlap.
LEMMA OverlapStays ==
  ASSUME OverlapOK, overlap' = overlap,
         \A h \in Goroutines : InCall(h)' => InCall(h) /\ call'[h] = call[h]
  PROVE  OverlapOK'
<1>1. \A h \in Goroutines : Writer(h)' => Writer(h)
  BY DEF Writer
<1> QED
  BY <1>1 DEF OverlapOK

\* A search of another goroutine goes on.
LEMMA SearchStays ==
  ASSUME SharedOK, NEW q \in Goroutines, Same(q), SearchOK(q),
         call[q].op \in Writes => members' = members,
         possible[q] \subseteq possible'[q],
         \A i \in 1..before[q].slice.len :
           heap'[before[q].slice.arr][i] = heap[before[q].slice.arr][i]
  PROVE  SearchOK(q)'
<1> SUFFICES ASSUME pc'[q] = "search" PROVE \E S \in SUBSET Members : SearchIn(q, S)'
  BY DEF SearchOK
<1>1. PICK S \in SUBSET Members : SearchIn(q, S)
  BY DEF SearchOK, Same
<1>2. Holds(before[q].slice, S)'
  <2>1. Holds(before[q].slice, S)
    BY <1>1 DEF SearchIn
  <2> QED
    BY <2>1 DEF Holds, Same
<1>3. ((call[q].m \in S) \in possible[q])'
  BY <1>1, Zenon DEF SearchIn, Same
<1>4. SearchIn(q, S)'
  BY <1>1, <1>2, <1>3 DEF SearchIn, Same
<1> QED
  BY <1>4

\* So does a reader.
LEMMA ReadStays ==
  ASSUME SharedOK, NEW q \in Goroutines, Same(q), ReadOK(q),
         overlap' = "none" => overlap = "none" /\ members' = members,
         possible[q] \subseteq possible'[q],
         \A i \in 1..before[q].slice.len :
           heap'[before[q].slice.arr][i] = heap[before[q].slice.arr][i]
  PROVE  ReadOK(q)'
<1> SUFFICES ASSUME pc'[q] = "read" PROVE \E S \in SUBSET Members : ReadIn(q, S)'
  BY DEF ReadOK
<1>1. PICK S \in SUBSET Members : ReadIn(q, S)
  BY DEF ReadOK, Same
<1>2. Holds(before[q].slice, S)'
  <2>1. Holds(before[q].slice, S)
    BY <1>1 DEF ReadIn
  <2> QED
    BY <2>1 DEF Holds, Same
<1>3. ReadIn(q, S)'
  BY <1>1, <1>2 DEF ReadIn, Same
<1> QED
  BY <1>3

\* A change of another goroutine goes on while readers come and go.
LEMMA ChangeStays ==
  ASSUME IInv, NEW q \in Goroutines, Same(q), ChangeOK(q), CellsStay,
         UNCHANGED <<current, members, shifted>>,
         \A h \in Goroutines :
           InCall(h)' => \/ InCall(h) /\ before'[h] = before[h]
                         \/ before'[h].slice = current
  PROVE  ChangeOK(q)'
<1> SUFFICES ASSUME pc'[q] = "change" PROVE ChangeIn(q)'
  BY DEF ChangeOK
<1> DEFINE b == before[q].slice
           a == after[q]
<1>1. pc[q] = "change" /\ ChangeIn(q) /\ InCall(q)
  BY DEF ChangeOK, Same, InCall
<1>2. b \in Slices /\ a \in Slices /\ SharedOK /\ todo[q] \in Seq(Moves(Capacity(b), Capacity(a)))
  BY <1>1 DEF IInv, LocalOK, SlicesOK, MovesOK
<1>3. /\ a.len \in Nat /\ a.len <= Capacity(a) /\ Capacity(a) \in Nat
      /\ b.len \in Nat /\ b.len <= Capacity(b) /\ Capacity(b) \in Nat
  BY <1>2, CapacityFacts
<1>4. \A i \in 1..a.len : heap'[a.arr][i] = heap[a.arr][i]
  BY <1>2, <1>3 DEF CellsStay
<1>5. \A i \in 1..b.len : heap'[b.arr][i] = heap[b.arr][i]
  BY <1>2, <1>3 DEF CellsStay
<1>6. Target(q)' = Target(q)
  BY DEF Target, Same
<1>7. ASSUME NEW k \in 1..Len(todo[q]) PROVE MoveOK(q, todo[q][k])'
  <2>1. MoveOK(q, todo[q][k])
    BY <1>1 DEF ChangeIn
  <2>2. todo[q][k].from \in Nat
    <3>1. todo[q][k] \in Moves(Capacity(b), Capacity(a))
      BY <1>2, ElementOfSeq
    <3> QED
      BY <3>1 DEF Moves
  <2>3. /\ todo'[q] = todo[q] /\ before'[q] = before[q] /\ after'[q] = after[q]
        /\ call'[q] = call[q] /\ members' = members
    BY DEF Same
  <2>4. todo[q][k].from # 0 =>
          /\ todo[q][k].from <= b.len
          /\ heap'[b.arr][todo[q][k].from] = Sorted(members)[todo[q][k].from]
    <3>1. todo[q][k].from # 0 =>
            /\ todo[q][k].from <= b.len
            /\ heap[b.arr][todo[q][k].from] = Sorted(members)[todo[q][k].from]
      BY <2>1 DEF MoveOK
    <3>2. todo[q][k].from # 0 /\ todo[q][k].from <= b.len => todo[q][k].from \in 1..b.len
      BY <1>3, <2>2
    <3> HIDE DEF b
    <3> QED
      BY <1>5, <3>1, <3>2
  <2>5. ASSUME NEW mv, MoveOK(q, mv),
               mv.from # 0 => /\ mv.from <= b.len
                              /\ heap'[b.arr][mv.from] = Sorted(members)[mv.from]
        PROVE  MoveOK(q, mv)'
    <3>1. mv.from = 0 /\ mv.to <= after'[q].len =>
            call'[q].op = "Add" /\ Sorted(Target(q)')[mv.to] = call'[q].m
      BY <1>6, <2>3, <2>5 DEF MoveOK
    <3>2. mv.from # 0 =>
            /\ mv.from <= before'[q].slice.len
            /\ heap'[before'[q].slice.arr][mv.from] = Sorted(members')[mv.from]
            /\ mv.to <= after'[q].len =>
                 Sorted(Target(q)')[mv.to] = Sorted(members')[mv.from]
      BY <1>6, <2>3, <2>5 DEF MoveOK
    <3> QED
      BY <3>1, <3>2 DEF MoveOK
  <2> QED
    BY <2>1, <2>3, <2>4, <2>5
<1>8. Covered(q)'
  BY <1>1, <1>4, <1>6 DEF ChangeIn, Covered, Same
<1>9. Untouched(q)'
  BY <1>1 DEF ChangeIn, Untouched, Same
<1>10. Private(q)'
  BY <1>1 DEF ChangeIn, Private, Same
<1>11. ShiftOK(q)'
  BY <1>1 DEF ChangeIn, ShiftOK, Same
<1>12. \A k \in 1..Len(todo'[q]) : MoveOK(q, todo[q][k])'
  BY <1>7 DEF Same
<1>13. Target(q)' # members' /\ after'[q].len = Cardinality(Target(q)') /\ after'[q].arr # 0
  BY <1>1, <1>6 DEF ChangeIn, Same
<1> QED
  BY <1>8, <1>9, <1>10, <1>11, <1>12, <1>13 DEF ChangeIn

\* A step of a call that changes neither the set nor a cell of a slice.
LEMMA LocalStep ==
  ASSUME ContentInv, IInv', NEW g \in Goroutines, InCall(g), pc[g] # "change",
         CellsStay, UNCHANGED <<version, current, members, overlap, shifted>>,
         \A q \in Goroutines : q # g => Same(q) /\ possible'[q] = possible[q],
         InCall(g)' => call'[g] = call[g] /\ before'[g] = before[g],
         Quiet /\ QuietOK => correct' /\ SearchOK(g)' /\ ReadOK(g)' /\ ChangeOK(g)'
  PROVE  ContentInv'
<1>1. IInv /\ OverlapOK /\ SharedOK /\ (Quiet => QuietOK)
  BY DEF ContentInv, IInv
<1>2. \A h \in Goroutines : InCall(h)' => InCall(h) /\ call'[h] = call[h] /\ before'[h] = before[h]
  BY DEF InCall, Same
<1>3. OverlapOK'
  BY <1>1, <1>2, OverlapStays
<1>4. ASSUME Quiet' PROVE QuietOK'
  <2>1. Quiet /\ QuietOK
    BY <1>1, <1>4 DEF Quiet
  <2>2. \A s \in Slices : \A i \in 1..s.len : heap'[s.arr][i] = heap[s.arr][i]
    <3> SUFFICES ASSUME NEW s \in Slices, NEW i \in 1..s.len
                 PROVE  heap'[s.arr][i] = heap[s.arr][i]
      OBVIOUS
    <3>1. s.len \in Nat /\ s.len <= Capacity(s) /\ Capacity(s) \in Nat
      BY <1>1, CapacityFacts
    <3>2. i \in 1..Capacity(s)
      BY <3>1
    <3> QED
      BY <3>2 DEF CellsStay
  <2>3. CurrentOK'
    <3>1. current \in Slices /\ CurrentOK
      BY <1>1, <2>1 DEF SharedOK, QuietOK
    <3>2. Disturbed => Disturbed'
      <4>1. \A q \in Goroutines : pc[q] = "change" => pc'[q] = "change"
        BY DEF Same
      <4> QED
        BY <4>1 DEF Disturbed
    <3>3. Holds(current, members) => Holds(current, members)'
      BY <2>2, <3>1 DEF Holds
    <3> QED
      BY <3>1, <3>2, <3>3 DEF CurrentOK
  <2>4. ASSUME NEW q \in Goroutines
        PROVE  WriterOK(q)' /\ ReaderOK(q)'
    <3>1. WriterOK(q) /\ ReaderOK(q)
      BY <2>1 DEF QuietOK
    <3>2. WriterOK(q)'
      BY <1>2, <3>1 DEF WriterOK, Writer
    <3>3. ReaderOK(q)'
      BY <1>2, <3>1 DEF ReaderOK
    <3> QED
      BY <3>2, <3>3
  <2>5. ASSUME NEW q \in Goroutines, q # g
        PROVE  SearchOK(q)' /\ ReadOK(q)' /\ ChangeOK(q)'
    <3>1. SearchOK(q) /\ ReadOK(q) /\ ChangeOK(q) /\ Same(q) /\ possible'[q] = possible[q]
      BY <2>1, <2>5 DEF QuietOK
    <3>2. ASSUME InCall(q)
          PROVE  \A i \in 1..before[q].slice.len :
                   heap'[before[q].slice.arr][i] = heap[before[q].slice.arr][i]
      <4>1. before[q].slice \in Slices
        BY <1>1, <3>2 DEF IInv, LocalOK, SlicesOK
      <4> QED
        BY <2>2, <4>1
    <3>3. SearchOK(q)'
      <4>1. CASE pc[q] = "search"
        <5>1. InCall(q)
          BY <4>1 DEF InCall
        <5> QED
          BY <1>1, <3>1, <3>2, <5>1, SearchStays
      <4>2. CASE pc[q] # "search"
        BY <3>1, <4>2 DEF SearchOK, Same
      <4> QED
        BY <4>1, <4>2
    <3>4. ReadOK(q)'
      <4>1. CASE pc[q] = "read"
        <5>1. InCall(q)
          BY <4>1 DEF InCall
        <5> QED
          BY <1>1, <3>1, <3>2, <5>1, ReadStays
      <4>2. CASE pc[q] # "read"
        BY <3>1, <4>2 DEF ReadOK, Same
      <4> QED
        BY <4>1, <4>2
    <3>5. ChangeOK(q)'
      BY <1>1, <1>2, <3>1, ChangeStays
    <3> QED
      BY <3>3, <3>4, <3>5
  <2>6. correct' /\ SearchOK(g)' /\ ReadOK(g)' /\ ChangeOK(g)'
    BY <2>1
  <2> QED
    BY <2>3, <2>4, <2>5, <2>6 DEF QuietOK
<1> QED
  BY <1>3, <1>4 DEF ContentInv

\* A heap that does not change.
LEMMA SameCells ==
  ASSUME heap' = heap
  PROVE  CellsStay
BY DEF CellsStay

\* A reader finds the next element in the cell that it reads.
LEMMA ReadMemberContent ==
  ASSUME ContentInv, NEW g \in Goroutines, ReadMember(g)
  PROVE  ContentInv'
<1> DEFINE s == before[g].slice
           n == Len(got[g])
<1>1. IInv /\ SharedOK /\ PerGoroutine /\ LocalOK(g) /\ IInv'
  BY ReadMemberKeeps DEF ContentInv, IInv
<1>2. /\ pc[g] = "read" /\ n < s.len
      /\ got' = [got EXCEPT ![g] = Append(@, Cell(g, n + 1))]
      /\ UNCHANGED <<heap, version, current, pc, call, before, lo, hi, todo, after>>
      /\ UNCHANGED <<members, possible, correct, calls, overlap, shifted>>
  BY DEF ReadMember, shared, history
<1>3. got'[g] = Append(got[g], Cell(g, n + 1)) /\ got[g] \in Seq(Cells)
  BY <1>1, <1>2 DEF PerGoroutine, LocalOK, SlicesOK
<1>4. s \in Slices /\ s.len \in Nat /\ n \in Nat
  BY <1>1, <1>2, <1>3 DEF LocalOK, SlicesOK, InCall, Slices
<1>5. /\ Len(got'[g]) = n + 1
      /\ got'[g][n + 1] = Cell(g, n + 1)
      /\ \A j \in 1..n : got'[g][j] = got[g][j]
  BY <1>3
<1>6. ASSUME Quiet, QuietOK PROVE correct' /\ SearchOK(g)' /\ ReadOK(g)' /\ ChangeOK(g)'
  <2>1. correct /\ ReadOK(g)
    BY <1>6 DEF QuietOK
  <2>2. PICK S \in SUBSET Members : ReadIn(g, S)
    BY <1>2, <2>1 DEF ReadOK
  <2>3. Holds(s, S) /\ \A j \in 1..n : got[g][j] = Sorted(S)[j]
    BY <2>2 DEF ReadIn
  <2>4. Cell(g, n + 1) = Sorted(S)[n + 1]
    <3>1. n + 1 \in 1..s.len
      BY <1>2, <1>4
    <3> QED
      BY <2>3, <3>1 DEF Holds, Cell
  <2>5. \A j \in 1 .. n + 1 : got'[g][j] = Sorted(S)[j]
    <3>1. \A j \in 1 .. n + 1 : j \in 1..n \/ j = n + 1
      BY <1>4
    <3> HIDE DEF n, s
    <3> QED
      BY <1>5, <2>3, <2>4, <3>1
  <2>6. n + 1 <= s.len
    BY <1>2, <1>4
  <2>7. ReadIn(g, S)'
    <3>1. Holds(s, S)'
      BY <1>2, <2>3 DEF Holds
    <3> QED
      BY <1>2, <1>5, <2>2, <2>5, <2>6, <3>1 DEF ReadIn
  <2>8. ReadOK(g)'
    BY <2>7 DEF ReadOK
  <2>9. SearchOK(g)' /\ ChangeOK(g)'
    BY <1>2 DEF SearchOK, ChangeOK
  <2> QED
    BY <1>2, <2>1, <2>8, <2>9
<1>7. \A q \in Goroutines : q # g => Same(q) /\ possible'[q] = possible[q]
  BY <1>1, <1>2 DEF PerGoroutine, Same
<1>8. CellsStay
  BY <1>2, SameCells
<1> QED
  BY <1>1, <1>2, <1>6, <1>7, <1>8, LocalStep DEF InCall

\* An answer that is right leaves everything right.
LEMMA AnswerContent ==
  ASSUME ContentInv, NEW g \in Goroutines, NEW a, Answer(g, a),
         InCall(g), pc[g] # "change",
         Quiet /\ QuietOK => a \in possible[g]
  PROVE  ContentInv'
<1>1. IInv /\ PerGoroutine
  BY DEF ContentInv, IInv
<1>2. /\ Finish(g) /\ correct' = (correct /\ a \in possible[g])
      /\ possible' = [possible EXCEPT ![g] = {}]
      /\ UNCHANGED <<heap, version, current, members, overlap, shifted>>
  BY Zenon DEF Answer, shared
<1>3. IInv' /\ SharedOK'
  BY <1>1, AnswerKeeps DEF IInv
<1>4. pc'[g] = "idle" /\ \A q \in Goroutines : q # g => Same(q)
  BY <1>1, <1>2, <1>3, FinishKeeps
<1>5. \A q \in Goroutines : q # g => possible'[q] = possible[q]
  BY <1>1, <1>2 DEF IInv, HistoryOK
<1>6. ASSUME Quiet, QuietOK PROVE correct' /\ SearchOK(g)' /\ ReadOK(g)' /\ ChangeOK(g)'
  <2>1. correct'
    <3>1. correct /\ a \in possible[g]
      BY <1>6 DEF QuietOK
    <3> QED
      BY <1>2, <3>1, Zenon
  <2>2. SearchOK(g)' /\ ReadOK(g)' /\ ChangeOK(g)'
    BY <1>4 DEF SearchOK, ReadOK, ChangeOK
  <2> QED
    BY <2>1, <2>2
<1>7. CellsStay
  BY <1>2, SameCells
<1>8. ~InCall(g)'
  BY <1>4 DEF InCall
<1> QED
  BY <1>2, <1>3, <1>4, <1>5, <1>6, <1>7, <1>8, LocalStep

\* A reader that has read as many cells as its slice has, has read the members of
\* some time of the call.
LEMMA ReadAllFacts ==
  ASSUME IInv, NEW g \in Goroutines, ReadAll(g), NEW S \in SUBSET Members, ReadIn(g, S)
  PROVE  got[g] = Sorted(S)
<1> DEFINE n == Cardinality(S)
<1>1. got[g] \in Seq(Cells) /\ Len(got[g]) = n
  BY DEF IInv, LocalOK, SlicesOK, ReadAll, ReadIn, Holds
<1>2. n \in Nat /\ Sorted(S) \in [1..n -> S]
  BY SortedFacts
<1>3. got[g] \in [1..n -> Cells]
  BY <1>1, LenProperties
<1>4. \A j \in 1..n : got[g][j] = Sorted(S)[j]
  BY <1>1 DEF ReadIn
<1> HIDE DEF n
<1> QED
  BY <1>2, <1>3, <1>4

\* Members returns what an atomic set would return.
LEMMA ReadAllContent ==
  ASSUME ContentInv, NEW g \in Goroutines, ReadAll(g)
  PROVE  ContentInv'
<1>1. pc[g] = "read" /\ Answer(g, got[g]) /\ IInv
  BY DEF ReadAll, ContentInv
<1>2. ASSUME Quiet, QuietOK PROVE got[g] \in possible[g]
  <2>1. PICK S \in SUBSET Members : ReadIn(g, S)
    BY <1>1, <1>2 DEF QuietOK, ReadOK
  <2>2. got[g] = Sorted(S)
    BY <1>1, <2>1, ReadAllFacts
  <2> QED
    BY <2>1, <2>2 DEF ReadIn
<1>3. InCall(g) /\ pc[g] # "change"
  BY <1>1 DEF InCall
<1> QED
  BY <1>1, <1>2, <1>3, AnswerContent

\* What a search knows of its slice.
LEMMA SearchSlice ==
  ASSUME IInv, NEW g \in Goroutines, pc[g] = "search", NEW S \in SUBSET Members, SearchIn(g, S)
  PROVE  /\ before[g].slice.len = Cardinality(S) /\ Cardinality(S) \in Nat
         /\ lo[g] \in Nat /\ hi[g] \in Nat /\ lo[g] <= hi[g] /\ hi[g] <= Cardinality(S)
         /\ \A j \in 1..Cardinality(S) : Cell(g, j) = Sorted(S)[j] /\ Sorted(S)[j] \in Nat
         /\ call[g].m \in Members /\ call[g].m \in Nat
<1>1. LocalOK(g) /\ InCall(g)
  BY DEF IInv, InCall
<1>2. Holds(before[g].slice, S)
  BY DEF SearchIn
<1>3. before[g].slice.len = Cardinality(S) /\ Cardinality(S) \in Nat
  BY <1>2, SortedFacts DEF Holds
<1>4. lo[g] \in Nat /\ hi[g] \in Nat /\ lo[g] <= hi[g] /\ hi[g] <= Cardinality(S)
  BY <1>1, <1>3 DEF LocalOK, SlicesOK
<1>5. \A j \in 1..Cardinality(S) : Cell(g, j) = Sorted(S)[j] /\ Sorted(S)[j] \in Nat
  BY <1>2, <1>3, SortedFacts DEF Holds, Cell
<1>6. call[g].m \in Members
  BY <1>1 DEF LocalOK, CallOK, Calls, Writes
<1> QED
  BY <1>3, <1>4, <1>5, <1>6, MembersAssumption

\* Everything below the cell that is probed is smaller, everything above larger.
LEMMA ProbeContent ==
  ASSUME ContentInv, NEW g \in Goroutines, Probe(g)
  PROVE  ContentInv'
<1> DEFINE h == (lo[g] + hi[g]) \div 2
           m == call[g].m
<1>1. IInv /\ PerGoroutine /\ IInv'
  BY ProbeKeeps DEF ContentInv, IInv
<1>2. /\ pc[g] = "search" /\ lo[g] < hi[g]
      /\ UNCHANGED <<heap, version, current, pc, call, before, got, todo, after>>
      /\ UNCHANGED <<members, possible, correct, calls, overlap, shifted>>
      /\ \/ Cell(g, h + 1) < m /\ lo' = [lo EXCEPT ![g] = h + 1] /\ UNCHANGED hi
         \/ ~(Cell(g, h + 1) < m) /\ hi' = [hi EXCEPT ![g] = h] /\ UNCHANGED lo
  BY DEF Probe, shared, history
<1>3. \A q \in Goroutines : q # g => Same(q) /\ possible'[q] = possible[q]
  BY <1>1, <1>2 DEF PerGoroutine, Same
<1>4. ASSUME Quiet, QuietOK PROVE correct' /\ SearchOK(g)' /\ ReadOK(g)' /\ ChangeOK(g)'
  <2>1. PICK S \in SUBSET Members : SearchIn(g, S)
    BY <1>2, <1>4 DEF QuietOK, SearchOK
  <2> DEFINE n == Cardinality(S)
             q == Sorted(S)
  <2>2. /\ before[g].slice.len = n /\ n \in Nat
        /\ lo[g] \in Nat /\ hi[g] \in Nat /\ lo[g] <= hi[g] /\ hi[g] <= n
        /\ \A j \in 1..n : Cell(g, j) = q[j] /\ q[j] \in Nat
        /\ m \in Nat
    BY <1>1, <1>2, <2>1, SearchSlice
  <2>3. \A i, j \in 1..n : i < j => q[i] < q[j]
    BY SortedFacts
  <2>4. /\ \A j \in 1..lo[g] : q[j] < m
        /\ \A j \in hi[g] + 1 .. n : m <= q[j]
    BY <2>1, <2>2 DEF SearchIn
  <2>5. h \in Nat /\ h + 1 \in 1..n /\ lo[g] <= h /\ h < hi[g]
    BY <1>2, <2>2
  <2> HIDE DEF h, m, n, q
  <2>6. /\ \A j \in 1..lo'[g] : q[j] < m
        /\ \A j \in hi'[g] + 1 .. n : m <= q[j]
    <3>1. CASE Cell(g, h + 1) < m /\ lo' = [lo EXCEPT ![g] = h + 1] /\ UNCHANGED hi
      <4>1. lo'[g] = h + 1 /\ hi'[g] = hi[g] /\ q[h + 1] < m
        BY <1>1, <2>2, <2>5, <3>1 DEF PerGoroutine
      <4>2. ASSUME NEW j \in 1 .. h + 1 PROVE q[j] < m
        <5>1. j \in 1..n /\ (j < h + 1 \/ j = h + 1)
          BY <2>2, <2>5
        <5>2. q[j] \in Nat /\ q[h + 1] \in Nat /\ (j < h + 1 => q[j] < q[h + 1])
          BY <2>2, <2>3, <2>5, <5>1
        <5> QED
          BY <2>2, <4>1, <5>1, <5>2
      <4> QED
        BY <2>4, <4>1, <4>2
    <3>2. CASE ~(Cell(g, h + 1) < m) /\ hi' = [hi EXCEPT ![g] = h] /\ UNCHANGED lo
      <4>1. lo'[g] = lo[g] /\ hi'[g] = h /\ m <= q[h + 1]
        BY <1>1, <2>2, <2>5, <3>2 DEF PerGoroutine
      <4>2. ASSUME NEW j \in h + 1 .. n PROVE m <= q[j]
        <5>1. j \in 1..n /\ (h + 1 < j \/ j = h + 1)
          BY <2>2, <2>5
        <5>2. q[j] \in Nat /\ q[h + 1] \in Nat /\ (h + 1 < j => q[h + 1] < q[j])
          BY <2>2, <2>3, <2>5, <5>1
        <5> QED
          BY <2>2, <4>1, <5>1, <5>2
      <4> QED
        BY <2>4, <4>1, <4>2
    <3> QED
      BY <1>2, <3>1, <3>2
  <2>7. SearchIn(g, S)'
    <3>1. Holds(before[g].slice, S)'
      BY <1>2, <2>1 DEF SearchIn, Holds
    <3>2. ((m \in S) \in possible[g])'
      BY <1>2, <2>1, Zenon DEF SearchIn, m
    <3> QED
      BY <1>2, <2>1, <2>2, <2>6, <3>1, <3>2 DEF SearchIn, m, n, q
  <2>8. SearchOK(g)'
    BY <2>7 DEF SearchOK
  <2>9. ReadOK(g)' /\ ChangeOK(g)'
    BY <1>2 DEF ReadOK, ChangeOK
  <2>10. correct'
    BY <1>2, <1>4 DEF QuietOK
  <2> QED
    BY <2>8, <2>9, <2>10
<1>5. CellsStay
  BY <1>2, SameCells
<1> HIDE DEF h, m
<1> QED
  BY <1>1, <1>2, <1>3, <1>4, <1>5, LocalStep DEF InCall

\* Where the search ends is the member, or the place where it belongs.
LEMMA SearchEnds ==
  ASSUME IInv, NEW g \in Goroutines, Searched(g), NEW S \in SUBSET Members, SearchIn(g, S)
  PROVE  /\ before[g].slice.len = Cardinality(S) /\ Cardinality(S) \in Nat
         /\ Position(g) \in 1 .. Cardinality(S) + 1
         /\ call[g].m \in Members
         /\ Found(g) <=> call[g].m \in S
         /\ Found(g) => /\ Position(g) \in 1..Cardinality(S)
                        /\ Sorted(S)[Position(g)] = call[g].m
         /\ \A j \in 1 .. Position(g) - 1 : Sorted(S)[j] < call[g].m
         /\ \A j \in Position(g) .. Cardinality(S) : call[g].m <= Sorted(S)[j]
         /\ \A j \in 1..Cardinality(S) : Cell(g, j) = Sorted(S)[j]
<1> DEFINE n == Cardinality(S)
           q == Sorted(S)
           m == call[g].m
           i == lo[g] + 1
<1>1. /\ before[g].slice.len = n /\ n \in Nat
      /\ lo[g] \in Nat /\ hi[g] \in Nat /\ lo[g] <= hi[g] /\ hi[g] <= n
      /\ \A j \in 1..n : Cell(g, j) = q[j] /\ q[j] \in Nat
      /\ m \in Members /\ m \in Nat
  BY SearchSlice DEF Searched
<1>2. lo[g] = hi[g]
  BY DEF Searched
<1>3. i \in 1 .. n + 1
  BY <1>1, <1>2
<1>4. \A j \in 1 .. i - 1 : q[j] < m
  <2>1. i - 1 = lo[g]
    BY <1>1
  <2> HIDE DEF i
  <2> QED
    BY <2>1 DEF SearchIn
<1>5. \A j \in i..n : m <= q[j]
  BY <1>1, <1>2 DEF SearchIn
<1>6. Found(g) <=> i \in 1..n /\ q[i] = m
  BY <1>1 DEF Found
<1>7. ASSUME m \in S PROVE i \in 1..n /\ q[i] = m
  <2>1. PICK j \in 1..n : q[j] = m
    BY <1>7, SortedFacts
  <2>2. i <= j
    BY <1>1, <1>3, <1>4, <2>1
  <2>3. i \in 1..n /\ j \in i..n
    BY <1>1, <1>3, <2>2
  <2>4. i < j => q[i] < q[j]
    BY <2>3, SortedFacts
  <2>5. m <= q[i] /\ q[i] \in Nat
    BY <1>1, <1>5, <2>3
  <2>6. ~ (i < j)
    BY <1>1, <2>1, <2>4, <2>5
  <2>7. i = j
    BY <1>1, <2>2, <2>6
  <2> QED
    BY <2>1, <2>3, <2>7
<1>8. ASSUME i \in 1..n, q[i] = m PROVE m \in S
  BY <1>8, SortedFacts
<1>9. Position(g) = i
  BY DEF Position
<1> HIDE DEF n, q, m, i
<1> QED
  BY <1>1, <1>3, <1>4, <1>5, <1>6, <1>7, <1>8, <1>9 DEF n, q, m

\* Has, and the writers that have nothing to do, answer what is true.
LEMMA NothingToDoContent ==
  ASSUME ContentInv, NEW g \in Goroutines, NothingToDo(g)
  PROVE  ContentInv'
<1>1. IInv /\ Searched(g) /\ pc[g] = "search" /\ Answer(g, Found(g))
  BY DEF ContentInv, NothingToDo, Searched
<1>2. ASSUME Quiet, QuietOK PROVE Found(g) \in possible[g]
  <2>1. PICK S \in SUBSET Members : SearchIn(g, S)
    BY <1>1, <1>2 DEF QuietOK, SearchOK
  <2>2. Found(g) <=> call[g].m \in S
    BY <1>1, <2>1, SearchEnds
  <2>3. Found(g) = (call[g].m \in S)
    BY <2>2 DEF Found
  <2>4. (call[g].m \in S) \in possible[g]
    BY <2>1, Zenon DEF SearchIn
  <2> QED
    BY <2>3, <2>4, Zenon
<1>3. InCall(g) /\ pc[g] # "change"
  BY <1>1 DEF InCall
<1> QED
  BY <1>1, <1>2, <1>3, AnswerContent

\* The elements of a sequence of moves and a last one.
LEMMA OneMore ==
  ASSUME NEW S, NEW n \in Nat, NEW f \in [1..n -> S], NEW m \in S
  PROVE  /\ Len(f \o <<m>>) = n + 1
         /\ \A k \in 1..n : (f \o <<m>>)[k] = f[k]
         /\ (f \o <<m>>)[n + 1] = m
<1>1. f \in Seq(S) /\ Len(f) = n /\ <<m>> \in Seq(S) /\ Len(<<m>>) = 1 /\ <<m>>[1] = m
  OBVIOUS
<1>2. /\ Len(f \o <<m>>) = n + 1
      /\ \A k \in 1 .. n + 1 : (f \o <<m>>)[k] = IF k <= n THEN f[k] ELSE <<m>>[k - n]
  BY <1>1, ConcatProperties
<1>3. (f \o <<m>>)[n + 1] = m
  BY <1>1, <1>2
<1> QED
  BY <1>2, <1>3

\* The moves of slices.Insert in the array of the slice, one by one.
LEMMA InsertInPlaceElements ==
  ASSUME NEW n \in Nat, NEW i \in 1 .. n + 1
  PROVE  /\ Len(InsertInPlace(n, i)) = n - i + 2
         /\ \A k \in 1 .. n - i + 1 : /\ InsertInPlace(n, i)[k].from = n + 1 - k
                                       /\ InsertInPlace(n, i)[k].to = n + 2 - k
         /\ InsertInPlace(n, i)[n - i + 2].from = 0
         /\ InsertInPlace(n, i)[n - i + 2].to = i
<1> DEFINE f == [k \in 1 .. n - i + 1 |-> Move(n + 1 - k, n + 2 - k)]
           S == Moves(n, n + 1)
<1>1. n - i + 1 \in Nat
  OBVIOUS
<1>2. \A k \in 1 .. n - i + 1 : n + 1 - k \in 0..n /\ n + 2 - k \in 1 .. n + 1
  OBVIOUS
<1>3. f \in [1 .. n - i + 1 -> S] /\ Move(0, i) \in S
  BY <1>2 DEF Move, Moves
<1>4. InsertInPlace(n, i) = f \o <<Move(0, i)>>
  BY DEF InsertInPlace
<1>5. \A k \in 1 .. n - i + 1 : f[k].from = n + 1 - k /\ f[k].to = n + 2 - k
  BY DEF Move
<1>6. (n - i + 1) + 1 = n - i + 2
  OBVIOUS
<1> HIDE DEF f, S
<1>7. /\ Len(f \o <<Move(0, i)>>) = (n - i + 1) + 1
      /\ \A k \in 1 .. n - i + 1 : (f \o <<Move(0, i)>>)[k] = f[k]
      /\ (f \o <<Move(0, i)>>)[(n - i + 1) + 1] = Move(0, i)
  BY <1>1, <1>3, OneMore
<1>8. Move(0, i).from = 0 /\ Move(0, i).to = i
  BY DEF Move
<1> QED
  BY <1>4, <1>5, <1>6, <1>7, <1>8

\* The moves of slices.Insert to a new array.
LEMMA InsertByCopyElements ==
  ASSUME NEW n \in Nat, NEW i \in 1 .. n + 1
  PROVE  /\ Len(InsertByCopy(n, i)) = n + 1
         /\ \A k \in 1..n : /\ InsertByCopy(n, i)[k].from = k
                            /\ InsertByCopy(n, i)[k].to = IF k < i THEN k ELSE k + 1
         /\ InsertByCopy(n, i)[n + 1].from = 0 /\ InsertByCopy(n, i)[n + 1].to = i
<1> DEFINE f == [k \in 1..n |-> Move(k, IF k < i THEN k ELSE k + 1)]
           S == Moves(n, n + 1)
<1>1. \A k \in 1..n : k \in 0..n /\ (IF k < i THEN k ELSE k + 1) \in 1 .. n + 1
  OBVIOUS
<1>2. f \in [1..n -> S] /\ Move(0, i) \in S
  BY <1>1 DEF Move, Moves
<1>3. InsertByCopy(n, i) = f \o <<Move(0, i)>>
  BY DEF InsertByCopy
<1>4. \A k \in 1..n : f[k].from = k /\ f[k].to = IF k < i THEN k ELSE k + 1
  BY DEF Move
<1> HIDE DEF f, S
<1>5. /\ Len(f \o <<Move(0, i)>>) = n + 1
      /\ \A k \in 1..n : (f \o <<Move(0, i)>>)[k] = f[k]
      /\ (f \o <<Move(0, i)>>)[n + 1] = Move(0, i)
  BY <1>2, OneMore
<1>6. Move(0, i).from = 0 /\ Move(0, i).to = i
  BY DEF Move
<1> QED
  BY <1>3, <1>4, <1>5, <1>6

\* The moves of slices.Delete.
LEMMA DeleteInPlaceElements ==
  ASSUME NEW n \in Nat, NEW i \in 1..n
  PROVE  /\ Len(DeleteInPlace(n, i)) = n - i + 1
         /\ \A k \in 1 .. n - i : /\ DeleteInPlace(n, i)[k].from = i + k
                                   /\ DeleteInPlace(n, i)[k].to = i + k - 1
         /\ DeleteInPlace(n, i)[n - i + 1].from = 0
         /\ DeleteInPlace(n, i)[n - i + 1].to = n
<1> DEFINE f == [k \in 1 .. n - i |-> Move(i + k, i + k - 1)]
           S == Moves(n, n)
<1>1. n - i \in Nat
  OBVIOUS
<1>2. \A k \in 1 .. n - i : i + k \in 0..n /\ i + k - 1 \in 1..n
  OBVIOUS
<1>3. f \in [1 .. n - i -> S] /\ Move(0, n) \in S
  BY <1>2 DEF Move, Moves
<1>4. DeleteInPlace(n, i) = f \o <<Move(0, n)>>
  BY DEF DeleteInPlace
<1>5. \A k \in 1 .. n - i : f[k].from = i + k /\ f[k].to = i + k - 1
  BY DEF Move
<1> HIDE DEF f, S
<1>6. /\ Len(f \o <<Move(0, n)>>) = n - i + 1
      /\ \A k \in 1 .. n - i : (f \o <<Move(0, n)>>)[k] = f[k]
      /\ (f \o <<Move(0, n)>>)[n - i + 1] = Move(0, n)
  BY <1>1, <1>3, OneMore
<1>7. Move(0, n).from = 0 /\ Move(0, n).to = n
  BY DEF Move
<1> QED
  BY <1>4, <1>5, <1>6, <1>7

\* A new array leaves the others alone.
LEMMA NewArray ==
  ASSUME SharedOK, NEW x \in Seq(Cells), heap' = Append(heap, x)
  PROVE  CellsStay
<1> SUFFICES ASSUME NEW s \in Slices, NEW i \in 1..Capacity(s)
             PROVE  heap'[s.arr][i] = heap[s.arr][i]
  BY DEF CellsStay
<1>1. heap \in Seq(Seq(Cells)) /\ Len(heap) \in Nat
  BY DEF SharedOK
<1>2. Capacity(s) \in Nat /\ (Capacity(s) # 0 <=> s.arr \in 1..Len(heap))
  BY CapacityFacts
<1>3. s.arr \in 1..Len(heap)
  BY <1>2
<1>4. heap'[s.arr] = heap[s.arr]
  BY <1>1, <1>3, AppendProperties
<1> QED
  BY <1>4

\* What a writer that is done searching knows.
LEMMA WriterFacts ==
  ASSUME ContentInv, Quiet, QuietOK, NEW g \in Goroutines, Searched(g), call[g].op \in Writes
  PROVE  /\ before[g].slice = current
         /\ before[g].slice.len = Cardinality(members) /\ Cardinality(members) \in Nat
         /\ Position(g) \in 1 .. Cardinality(members) + 1
         /\ call[g].m \in Members
         /\ Found(g) <=> call[g].m \in members
         /\ Found(g) => /\ Position(g) \in 1..Cardinality(members)
                        /\ Sorted(members)[Position(g)] = call[g].m
         /\ \A j \in 1 .. Position(g) - 1 : Sorted(members)[j] < call[g].m
         /\ \A j \in Position(g) .. Cardinality(members) : call[g].m <= Sorted(members)[j]
         /\ \A j \in 1..Cardinality(members) : Cell(g, j) = Sorted(members)[j]
<1>1. IInv /\ SearchOK(g) /\ WriterOK(g) /\ pc[g] = "search"
  BY DEF ContentInv, QuietOK, Searched
<1>2. before[g].slice = current
  BY <1>1 DEF WriterOK, Writer, InCall
<1>3. PICK S \in SUBSET Members : SearchIn(g, S)
  BY <1>1 DEF SearchOK
<1>4. S = members
  BY <1>3 DEF SearchIn
<1> QED
  BY <1>1, <1>2, <1>3, <1>4, SearchEnds

\* The first step of a change.
LEMMA ChangeContent ==
  ASSUME ContentInv, IInv', NEW g \in Goroutines, Searched(g), CellsStay,
         NEW w, NEW a, NEW n, Change(g, w, a, n),
         Quiet /\ QuietOK => ChangeIn(g)'
  PROVE  ContentInv'
<1>1. IInv /\ PerGoroutine /\ pc[g] = "search"
  BY DEF ContentInv, IInv, Searched
<1>2. /\ todo' = [todo EXCEPT ![g] = w] /\ pc' = [pc EXCEPT ![g] = "change"]
      /\ after' = [after EXCEPT ![g] = [arr |-> a, len |-> n]]
      /\ UNCHANGED <<version, current, call, before, lo, hi, got>>
      /\ UNCHANGED <<members, possible, correct, calls, overlap, shifted>>
  BY DEF Change, history
<1>3. \A q \in Goroutines : q # g => Same(q) /\ possible'[q] = possible[q]
  BY <1>1, <1>2 DEF PerGoroutine, Same
<1>4. pc'[g] = "change"
  BY <1>1, <1>2 DEF PerGoroutine
<1>5. ASSUME Quiet, QuietOK PROVE correct' /\ SearchOK(g)' /\ ReadOK(g)' /\ ChangeOK(g)'
  <2>1. SearchOK(g)' /\ ReadOK(g)' /\ ChangeOK(g)'
    BY <1>4, <1>5 DEF SearchOK, ReadOK, ChangeOK
  <2> QED
    BY <1>2, <1>5, <2>1 DEF QuietOK
<1> QED
  BY <1>1, <1>2, <1>3, <1>5, LocalStep DEF InCall

\* A member that is missing is inserted where it belongs.
LEMMA BeginInsertContent ==
  ASSUME ContentInv, NEW g \in Goroutines, BeginInsert(g)
  PROVE  ContentInv'
<1> DEFINE s == before[g].slice
           n == s.len
           p == Position(g)
           m == call[g].m
           F == Sorted(members \cup {m})
           q == Sorted(members)
<1>1. /\ IInv /\ SharedOK /\ PerGoroutine /\ IInv' /\ Searched(g) /\ pc[g] = "search"
      /\ call[g].op = "Add" /\ call[g].op \in Writes /\ ~Found(g) /\ Insert(g)
  BY BeginInsertKeeps DEF ContentInv, IInv, BeginInsert, Writes, Searched
<1>2. s \in Slices /\ Len(heap) \in Nat /\ s.arr \in 0..Len(heap) /\ n <= Capacity(s)
      /\ Capacity(s) \in Nat
  <2>1. s \in Slices
    BY <1>1, SearchFacts
  <2> QED
    BY <1>1, <2>1, CapacityFacts DEF SharedOK
<1>3. ASSUME Quiet, QuietOK
      PROVE  /\ s = current /\ n = Cardinality(members) /\ n \in Nat /\ p \in 1 .. n + 1
             /\ m \notin members
             /\ Cardinality(members \cup {m}) = n + 1
             /\ \A j \in 1..n : Cell(g, j) = q[j]
             /\ \A j \in 1 .. n + 1 :
                  F[j] = IF j < p THEN q[j] ELSE IF j = p THEN m ELSE q[j - 1]
  <2>1. /\ s = current /\ n = Cardinality(members) /\ n \in Nat /\ p \in 1 .. n + 1
        /\ m \notin members /\ m \in Members
        /\ \A j \in 1 .. p - 1 : q[j] < m
        /\ \A j \in p..n : m <= q[j]
        /\ \A j \in 1..n : Cell(g, j) = q[j]
    BY <1>1, <1>3, WriterFacts
  <2>2. members \in SUBSET Members
    BY <1>1 DEF IInv, HistoryOK
  <2>3. Cardinality(members \cup {m}) = n + 1 /\ F = Inserted(q, n, m, p)
    BY <2>1, <2>2, SortedInsert
  <2> QED
    BY <2>1, <2>3 DEF Inserted
<1>4. CASE HasRoom(s)
  <2> DEFINE w == InsertInPlace(n, p)
  <2>1. heap' = heap /\ Change(g, w, s.arr, n + 1)
    BY <1>1, <1>4 DEF Insert
  <2>2. /\ todo'[g] = w /\ after'[g] = [arr |-> s.arr, len |-> n + 1]
        /\ UNCHANGED <<current, call, before, members, shifted>>
    BY <1>1, <2>1 DEF PerGoroutine, Change, history
  <2>3. ASSUME Quiet, QuietOK PROVE ChangeIn(g)'
    <3>1. /\ s = current /\ n = Cardinality(members) /\ n \in Nat /\ p \in 1 .. n + 1
          /\ m \notin members /\ Cardinality(members \cup {m}) = n + 1
          /\ \A j \in 1..n : heap[s.arr][j] = q[j]
          /\ \A j \in 1 .. n + 1 :
               F[j] = IF j < p THEN q[j] ELSE IF j = p THEN m ELSE q[j - 1]
      BY <1>3, <2>3 DEF Cell
    <3>2. s.arr # 0
      BY <1>4, <3>1 DEF HasRoom, Capacity
    <3>3. /\ Len(todo'[g]) = n - p + 2
          /\ \A k \in 1 .. n - p + 1 : todo'[g][k].from = n + 1 - k /\ todo'[g][k].to = n + 2 - k
          /\ todo'[g][n - p + 2].from = 0 /\ todo'[g][n - p + 2].to = p
      <4>1. n \in Nat /\ p \in 1 .. n + 1 /\ todo'[g] = InsertInPlace(n, p)
        BY <2>2, <3>1
      <4> HIDE DEF n, p, s, F, q, m, w
      <4>2. /\ Len(InsertInPlace(n, p)) = n - p + 2
            /\ \A k \in 1 .. n - p + 1 : /\ InsertInPlace(n, p)[k].from = n + 1 - k
                                          /\ InsertInPlace(n, p)[k].to = n + 2 - k
            /\ InsertInPlace(n, p)[n - p + 2].from = 0
            /\ InsertInPlace(n, p)[n - p + 2].to = p
        BY <4>1, InsertInPlaceElements
      <4> QED
        BY <4>1, <4>2
    <3>4. Target(g)' = members \cup {m} /\ before'[g].slice = s
      BY <1>1, <2>2 DEF Target
    <3> HIDE DEF w, F, q, m
    <3>5. \A k \in 1 .. n - p + 2 : k \in 1 .. n - p + 1 \/ k = n - p + 2
      BY <3>1
    <3>6. ASSUME NEW k \in 1..Len(todo'[g]) PROVE MoveOK(g, todo[g][k])'
      <4>1. CASE k \in 1 .. n - p + 1
        <5>1. todo'[g][k].from = n + 1 - k /\ todo'[g][k].to = n + 2 - k
          BY <3>3, <4>1
        <5>2. n + 1 - k \in 1..n /\ n + 2 - k \in 1 .. n + 1 /\ p < n + 2 - k
              /\ (n + 2 - k) - 1 = n + 1 - k
          BY <3>1, <4>1
        <5>3. F[n + 2 - k] = q[n + 1 - k] /\ heap'[s.arr][n + 1 - k] = q[n + 1 - k]
          BY <2>1, <3>1, <5>2
        <5>4. todo'[g][k].from # 0 /\ todo'[g][k].from <= n
          BY <3>1, <5>1, <5>2
        <5> HIDE DEF n, p, s
        <5> QED
          BY <2>2, <3>4, <5>1, <5>3, <5>4 DEF MoveOK, F, q, n, s
      <4>2. CASE k = n - p + 2
        <5>1. todo'[g][k].from = 0 /\ todo'[g][k].to = p
          BY <3>3, <4>2
        <5>2. F[p] = m
          BY <3>1
        <5> HIDE DEF n, p, s
        <5> QED
          BY <1>1, <2>2, <3>4, <5>1, <5>2 DEF MoveOK, F, m
      <4> QED
        BY <3>3, <3>5, <4>1, <4>2
    <3>7. Untouched(g)'
      <4>1. ASSUME NEW j \in 1..Len(todo'[g]), NEW k \in 1..Len(todo'[g]), j < k, todo'[g][k].from # 0
            PROVE  todo'[g][j].to # todo'[g][k].from
        <5>1. k # n - p + 2
          BY <3>3, <4>1
        <5>2. k \in 1 .. n - p + 1 /\ j \in 1 .. n - p + 1
          BY <3>1, <3>3, <4>1, <5>1
        <5>3. todo'[g][j].to = n + 2 - j /\ todo'[g][k].from = n + 1 - k
          BY <3>3, <5>2
        <5> QED
          BY <3>1, <4>1, <5>2, <5>3
      <4> QED
        BY <2>2, <4>1 DEF Untouched
    <3>8. Covered(g)'
      <4>1. ASSUME NEW j \in 1 .. n + 1
            PROVE  heap'[s.arr][j] = F[j] \/ \E k \in 1..Len(todo'[g]) : todo'[g][k].to = j
        <5>1. CASE j < p
          <6>1. j \in 1..n
            BY <3>1, <5>1
          <6> QED
            BY <2>1, <3>1, <5>1, <6>1
        <5>2. CASE j = p
          <6>1. n - p + 2 \in 1..Len(todo'[g]) /\ todo'[g][n - p + 2].to = j
            BY <3>1, <3>3, <5>2
          <6> QED
            BY <6>1
        <5>3. CASE p < j
          <6>1. n + 2 - j \in 1 .. n - p + 1 /\ n + 2 - (n + 2 - j) = j
            BY <3>1, <5>3
          <6>2. n + 2 - j \in 1..Len(todo'[g])
            BY <3>1, <3>3, <6>1
          <6>3. todo'[g][n + 2 - j].to = j
            BY <3>3, <6>1
          <6> QED
            BY <6>2, <6>3
        <5> QED
          BY <3>1, <5>1, <5>2, <5>3
      <4>2. \A j \in 1 .. n + 1 : heap'[s.arr][j] = F[j] \/ \E k \in 1..Len(todo'[g]) : todo'[g][k].to = j
        BY <4>1
      <4>3. /\ after'[g].len = n + 1 /\ after'[g].arr = s.arr
            /\ Sorted(Target(g)') = F
        BY <2>2, <3>4 DEF F
      <4> HIDE DEF n, s, p
      <4> QED
        BY <4>2, <4>3 DEF Covered
    <3>9. Private(g)' /\ ShiftOK(g)'
      <4>1. after'[g].arr = current'.arr
        BY <2>2, <3>1
      <4>2. call'[g].op = "Add" /\ current'.len <= after'[g].len
        BY <1>1, <2>2, <3>1
      <4> QED
        BY <4>1, <4>2 DEF Private, ShiftOK
    <3>10. Target(g)' # members' /\ after'[g].len = Cardinality(Target(g)') /\ after'[g].arr # 0
      <4>1. members \cup {m} # members
        BY <3>1
      <4> QED
        BY <2>2, <3>1, <3>2, <3>4, <4>1
    <3> QED
      BY <3>6, <3>7, <3>8, <3>9, <3>10 DEF ChangeIn
  <2>4. CellsStay
    BY <2>1, SameCells
  <2> HIDE DEF w, n, s
  <2> QED
    BY <1>1, <2>1, <2>3, <2>4, ChangeContent
<1>5. CASE ~HasRoom(s)
  <2> DEFINE w == InsertByCopy(n, p)
             a == Len(heap) + 1
  <2>1. heap' = Append(heap, Grown(s)) /\ Change(g, w, a, n + 1)
    BY <1>1, <1>5 DEF Insert
  <2>2. CellsStay
    <3>1. Grown(s) \in Seq(Cells)
      BY <1>1, <1>2, GrownFacts
    <3> QED
      BY <1>1, <2>1, <3>1, NewArray
  <2>3. /\ todo'[g] = w /\ after'[g] = [arr |-> a, len |-> n + 1]
        /\ UNCHANGED <<current, call, before, members, shifted>>
    BY <1>1, <2>1 DEF PerGoroutine, Change, history
  <2>4. ASSUME Quiet, QuietOK PROVE ChangeIn(g)'
    <3>1. /\ s = current /\ n = Cardinality(members) /\ n \in Nat /\ p \in 1 .. n + 1
          /\ m \notin members /\ Cardinality(members \cup {m}) = n + 1
          /\ \A j \in 1..n : heap[s.arr][j] = q[j]
          /\ \A j \in 1 .. n + 1 :
               F[j] = IF j < p THEN q[j] ELSE IF j = p THEN m ELSE q[j - 1]
      BY <1>3, <2>4 DEF Cell
    <3>2. a # 0 /\ a # s.arr
      BY <1>2
    <3>3. /\ Len(todo'[g]) = n + 1
          /\ \A k \in 1..n : /\ todo'[g][k].from = k
                             /\ todo'[g][k].to = IF k < p THEN k ELSE k + 1
          /\ todo'[g][n + 1].from = 0 /\ todo'[g][n + 1].to = p
      <4>1. n \in Nat /\ p \in 1 .. n + 1 /\ todo'[g] = InsertByCopy(n, p)
        BY <2>3, <3>1
      <4> HIDE DEF n, p, s, F, q, m
      <4> QED
        BY <4>1, InsertByCopyElements
    <3>4. Target(g)' = members \cup {m} /\ before'[g].slice = s
      BY <1>1, <2>3 DEF Target
    <3>5. \A j \in 1..n : heap'[s.arr][j] = q[j]
      <4>1. \A j \in 1..n : j \in 1..Capacity(s)
        BY <1>2, <3>1
      <4> QED
        BY <1>2, <2>2, <3>1, <4>1 DEF CellsStay
    <3> HIDE DEF w, F, q, m
    <3>6. ASSUME NEW k \in 1..Len(todo'[g]) PROVE MoveOK(g, todo[g][k])'
      <4>1. CASE k \in 1..n
        <5>1. todo'[g][k].from = k /\ todo'[g][k].to = IF k < p THEN k ELSE k + 1
          BY <3>3, <4>1
        <5>2. F[IF k < p THEN k ELSE k + 1] = q[k]
          <6>1. CASE k < p
            BY <3>1, <4>1, <6>1
          <6>2. CASE ~(k < p)
            <7>1. k + 1 \in 1 .. n + 1 /\ p < k + 1 /\ (k + 1) - 1 = k
              BY <3>1, <4>1, <6>2
            <7> QED
              BY <3>1, <6>2, <7>1
          <6> QED
            BY <6>1, <6>2
        <5>3. todo'[g][k].from # 0 /\ todo'[g][k].from <= n /\ heap'[s.arr][todo'[g][k].from] = q[todo'[g][k].from]
          BY <3>1, <3>5, <4>1, <5>1
        <5>4. F[todo'[g][k].to] = q[todo'[g][k].from]
          BY <5>1, <5>2
        <5> HIDE DEF n, p, s
        <5> QED
          BY <2>3, <3>4, <5>3, <5>4 DEF MoveOK, F, q, n, s
      <4>2. CASE k = n + 1
        <5>1. todo'[g][k].from = 0 /\ todo'[g][k].to = p
          BY <3>3, <4>2
        <5>2. F[p] = m
          BY <3>1
        <5> HIDE DEF n, p, s
        <5> QED
          BY <1>1, <2>3, <3>4, <5>1, <5>2 DEF MoveOK, F, m
      <4>3. k \in 1..n \/ k = n + 1
        BY <3>1, <3>3
      <4> QED
        BY <4>1, <4>2, <4>3
    <3>7. Untouched(g)'
      BY <2>3, <3>2, <3>4 DEF Untouched
    <3>8. Covered(g)'
      <4>1. ASSUME NEW j \in 1 .. n + 1
            PROVE  \E k \in 1..Len(todo'[g]) : todo'[g][k].to = j
        <5>1. CASE j < p
          <6>1. j \in 1..n /\ j \in 1..Len(todo'[g])
            BY <3>1, <3>3, <5>1
          <6> QED
            BY <3>3, <5>1, <6>1
        <5>2. CASE j = p
          <6>1. n + 1 \in 1..Len(todo'[g]) /\ todo'[g][n + 1].to = j
            BY <3>1, <3>3, <5>2
          <6> QED
            BY <6>1
        <5>3. CASE p < j
          <6>1. j - 1 \in 1..n /\ ~(j - 1 < p) /\ (j - 1) + 1 = j /\ j - 1 \in 1..Len(todo'[g])
            BY <3>1, <3>3, <5>3
          <6>2. todo'[g][j - 1].to = j
            BY <3>3, <6>1
          <6> QED
            BY <6>1, <6>2
        <5> QED
          BY <3>1, <5>1, <5>2, <5>3
      <4>2. \A j \in 1 .. n + 1 : \E k \in 1..Len(todo'[g]) : todo'[g][k].to = j
        BY <4>1
      <4> HIDE DEF n, s
      <4> QED
        BY <2>3, <4>2 DEF Covered
    <3>9. Private(g)'
      <4>1. ASSUME NEW h \in Goroutines, InCall(h)' PROVE before'[h].slice.arr # a
        <5>1. InCall(h)
          BY <1>1, <2>1, <4>1 DEF InCall, Change, PerGoroutine
        <5>2. before[h].slice \in Slices
          BY <1>1, <5>1 DEF IInv, LocalOK, SlicesOK
        <5>3. before[h].slice.arr \in 0..Len(heap)
          BY <5>2 DEF Slices
        <5> QED
          BY <1>2, <2>3, <5>3
      <4> QED
        BY <2>3, <4>1 DEF Private
    <3>10. ShiftOK(g)'
      BY <1>1, <2>3, <3>1 DEF ShiftOK
    <3>11. Target(g)' # members' /\ after'[g].len = Cardinality(Target(g)') /\ after'[g].arr # 0
      <4>1. members \cup {m} # members
        BY <3>1
      <4> QED
        BY <2>3, <3>1, <3>2, <3>4, <4>1
    <3> QED
      BY <3>6, <3>7, <3>8, <3>9, <3>10, <3>11 DEF ChangeIn
  <2> HIDE DEF w, n, s, a
  <2> QED
    BY <1>1, <2>1, <2>2, <2>4, ChangeContent
<1> QED
  BY <1>4, <1>5

\* A member that is found is deleted.
LEMMA BeginDeleteContent ==
  ASSUME ContentInv, NEW g \in Goroutines, BeginDelete(g)
  PROVE  ContentInv'
<1> DEFINE s == before[g].slice
           n == s.len
           p == Position(g)
           m == call[g].m
           F == Sorted(members \ {m})
           q == Sorted(members)
           w == DeleteInPlace(n, p)
<1>1. /\ IInv /\ SharedOK /\ PerGoroutine /\ IInv' /\ Searched(g)
      /\ call[g].op = "Delete" /\ call[g].op \in Writes /\ Found(g)
      /\ heap' = heap /\ Change(g, w, s.arr, n - 1)
  BY BeginDeleteKeeps DEF ContentInv, IInv, BeginDelete, Writes
<1>2. s \in Slices /\ n <= Capacity(s)
  BY <1>1, SearchFacts
<1>3. /\ todo'[g] = w /\ after'[g] = [arr |-> s.arr, len |-> n - 1]
      /\ UNCHANGED <<current, call, before, members, shifted>>
  BY <1>1 DEF PerGoroutine, Change, history
<1>4. ASSUME Quiet, QuietOK PROVE ChangeIn(g)'
  <2>1. /\ s = current /\ n = Cardinality(members) /\ n \in Nat /\ p \in 1..n
        /\ m \in members /\ q[p] = m
        /\ \A j \in 1..n : heap[s.arr][j] = q[j]
    BY <1>1, <1>4, WriterFacts DEF Cell
  <2>2. /\ Cardinality(members \ {m}) = n - 1
        /\ \A j \in 1 .. n - 1 : F[j] = IF j < p THEN q[j] ELSE q[j + 1]
    <3>1. members \in SUBSET Members
      BY <1>1 DEF IInv, HistoryOK
    <3>2. Cardinality(members \ {m}) = n - 1 /\ F = Deleted(q, n, p)
      BY <2>1, <3>1, SortedDelete
    <3> QED
      BY <3>2 DEF Deleted
  <2>3. s.arr # 0
    BY <1>2, <2>1 DEF Capacity
  <2>4. Target(g)' = members \ {m} /\ before'[g].slice = s
    BY <1>1, <1>3 DEF Target
  <2> HIDE DEF F, q, m
  <2>5. /\ Len(todo'[g]) = n - p + 1
        /\ \A k \in 1 .. n - p : todo'[g][k].from = p + k /\ todo'[g][k].to = p + k - 1
        /\ todo'[g][n - p + 1].from = 0 /\ todo'[g][n - p + 1].to = n
    <3>1. n \in Nat /\ p \in 1..n /\ todo'[g] = DeleteInPlace(n, p)
      BY <1>3, <2>1
    <3> HIDE DEF n, p, s, w
    <3>2. /\ Len(DeleteInPlace(n, p)) = n - p + 1
          /\ \A k \in 1 .. n - p : /\ DeleteInPlace(n, p)[k].from = p + k
                                   /\ DeleteInPlace(n, p)[k].to = p + k - 1
          /\ DeleteInPlace(n, p)[n - p + 1].from = 0
          /\ DeleteInPlace(n, p)[n - p + 1].to = n
      BY <3>1, DeleteInPlaceElements
    <3> QED
      BY <3>1, <3>2
  <2> HIDE DEF w
  <2>6. \A k \in 1 .. n - p + 1 : k \in 1 .. n - p \/ k = n - p + 1
    BY <2>1
  <2>7. ASSUME NEW k \in 1..Len(todo'[g]) PROVE MoveOK(g, todo[g][k])'
    <3>1. CASE k \in 1 .. n - p
      <4>1. todo'[g][k].from = p + k /\ todo'[g][k].to = p + k - 1
        BY <2>5, <3>1
      <4>2. p + k \in 1..n /\ p + k - 1 \in 1 .. n - 1 /\ ~(p + k - 1 < p)
            /\ (p + k - 1) + 1 = p + k
        BY <2>1, <3>1
      <4>3. F[p + k - 1] = q[p + k] /\ heap'[s.arr][p + k] = q[p + k]
        BY <1>1, <2>1, <2>2, <4>2
      <4>4. todo'[g][k].from # 0 /\ todo'[g][k].from <= n
        BY <2>1, <4>1, <4>2
      <4> HIDE DEF n, p, s
      <4> QED
        BY <1>3, <2>4, <4>1, <4>3, <4>4 DEF MoveOK, F, q, n, s
    <3>2. CASE k = n - p + 1
      <4>1. todo'[g][k].from = 0 /\ todo'[g][k].to = n
        BY <2>5, <3>2
      <4>2. after'[g].len = n - 1 /\ ~(n <= n - 1)
        BY <1>3, <2>1
      <4> HIDE DEF n, p, s
      <4> QED
        BY <4>1, <4>2 DEF MoveOK
    <3> QED
      BY <2>5, <2>6, <3>1, <3>2
  <2>8. Untouched(g)'
    <3>1. ASSUME NEW j \in 1..Len(todo'[g]), NEW k \in 1..Len(todo'[g]), j < k,
                 todo'[g][k].from # 0
          PROVE  todo'[g][j].to # todo'[g][k].from
      <4>1. k # n - p + 1
        BY <2>5, <3>1
      <4>2. k \in 1 .. n - p /\ j \in 1 .. n - p
        BY <2>1, <2>5, <3>1, <4>1
      <4>3. todo'[g][j].to = p + j - 1 /\ todo'[g][k].from = p + k
        BY <2>5, <4>2
      <4> QED
        BY <2>1, <3>1, <4>2, <4>3
    <3> QED
      BY <3>1 DEF Untouched
  <2>9. Covered(g)'
    <3>1. ASSUME NEW j \in 1 .. n - 1
          PROVE  heap'[s.arr][j] = F[j] \/ \E k \in 1..Len(todo'[g]) : todo'[g][k].to = j
      <4>1. CASE j < p
        <5>1. j \in 1..n
          BY <2>1
        <5> QED
          BY <1>1, <2>1, <2>2, <4>1, <5>1
      <4>2. CASE ~(j < p)
        <5>1. j - p + 1 \in 1 .. n - p /\ p + (j - p + 1) - 1 = j
          BY <2>1, <4>2
        <5>2. j - p + 1 \in 1..Len(todo'[g])
          BY <2>1, <2>5, <5>1
        <5>3. todo'[g][j - p + 1].to = j
          BY <2>5, <5>1
        <5> QED
          BY <5>2, <5>3
      <4> QED
        BY <4>1, <4>2
    <3>2. /\ after'[g].len = n - 1 /\ after'[g].arr = s.arr
          /\ Sorted(Target(g)') = F
      BY <1>3, <2>4 DEF F
    <3>3. \A j \in 1 .. n - 1 :
            heap'[s.arr][j] = F[j] \/ \E k \in 1..Len(todo'[g]) : todo'[g][k].to = j
      BY <3>1
    <3> HIDE DEF n, s, p
    <3> QED
      BY <3>2, <3>3 DEF Covered
  <2>10. Private(g)'
    BY <1>3, <2>1 DEF Private
  <2>11. ShiftOK(g)'
    <3>1. after'[g].arr = current'.arr /\ current'.len = n
      BY <1>3, <2>1
    <3>2. \A k \in 1..Len(todo'[g]) : todo'[g][k].to <= n
      <4> SUFFICES ASSUME NEW k \in 1..Len(todo'[g]) PROVE todo'[g][k].to <= n
        OBVIOUS
      <4>1. CASE k \in 1 .. n - p
        <5>1. todo'[g][k].to = p + k - 1
          BY <2>5, <4>1
        <5>2. n \in Nat /\ p \in 1..n
          BY <2>1
        <5> HIDE DEF n, p, s
        <5>3. p + k - 1 <= n
          BY <4>1, <5>2
        <5> QED
          BY <5>1, <5>3
      <4>2. CASE k = n - p + 1
        <5>1. todo'[g][k].to = n /\ n \in Nat
          BY <2>1, <2>5, <4>2
        <5> QED
          BY <5>1
      <4> QED
        BY <2>5, <2>6, <4>1, <4>2
    <3>3. todo'[g] # <<>>
      <4>1. Len(todo'[g]) # 0
        BY <2>1, <2>5
      <4> QED
        BY <4>1
    <3>4. call'[g].op # "Add"
      BY <1>1, <1>3
    <3> QED
      BY <3>1, <3>2, <3>3, <3>4 DEF ShiftOK
  <2>12. Target(g)' # members' /\ after'[g].len = Cardinality(Target(g)') /\ after'[g].arr # 0
    <3>1. members \ {m} # members
      BY <2>1
    <3> QED
      BY <1>3, <2>2, <2>3, <2>4, <3>1
  <2> QED
    BY <2>7, <2>8, <2>9, <2>10, <2>11, <2>12 DEF ChangeIn
<1>5. CellsStay
  BY <1>1, SameCells
<1> HIDE DEF w, n, s
<1> QED
  BY <1>1, <1>4, <1>5, ChangeContent

\* What writing one cell changes.
LEMMA HeapCells ==
  ASSUME NEW S, NEW h \in Seq(Seq(S)), NEW a \in 1..Len(h), NEW i \in 1..Len(h[a]),
         NEW v \in S, NEW r, r = [h EXCEPT ![a][i] = v]
  PROVE  /\ r[a][i] = v
         /\ \A b \in 1..Len(h) : \A j \in 1..Len(h[b]) :
              b # a \/ j # i => r[b][j] = h[b][j]
<1> DEFINE e == [h[a] EXCEPT ![i] = v]
<1>1. h[a] \in Seq(S)
  BY ElementOfSeq
<1>2. \A j \in 1..Len(h[a]) : e[j] = IF j = i THEN v ELSE h[a][j]
  BY <1>1, ExceptSeq
<1>3. e \in Seq(S)
  BY <1>1, ExceptSeq
<1>4. r = [h EXCEPT ![a] = e]
  OBVIOUS
<1> HIDE DEF e
<1>5. \A b \in 1..Len(h) : r[b] = IF b = a THEN e ELSE h[b]
  <2> DEFINE T == Seq(S)
  <2>1. h \in Seq(T) /\ e \in T
    BY <1>3
  <2> HIDE DEF T
  <2>2. \A b \in 1..Len(h) : [h EXCEPT ![a] = e][b] = IF b = a THEN e ELSE h[b]
    BY <2>1, ExceptSeq
  <2> QED
    BY <1>4, <2>2
<1>6. r[a][i] = v
  BY <1>2, <1>5
<1>7. ASSUME NEW b \in 1..Len(h), NEW j \in 1..Len(h[b]), b # a \/ j # i
      PROVE  r[b][j] = h[b][j]
  <2>1. CASE b # a
    BY <1>5, <2>1
  <2>2. CASE b = a
    BY <1>2, <1>5, <1>7, <2>2
  <2> QED
    BY <2>1, <2>2
<1> QED
  BY <1>6, <1>7

\* The cell that a move writes, and what the others see of it.
LEMMA MoveFacts ==
  ASSUME IInv, NEW g \in Goroutines, MoveCell(g)
  PROVE  /\ todo[g] \in Seq(Moves(Capacity(before[g].slice), Capacity(after[g])))
         /\ Head(todo[g]).from \in Nat /\ Head(todo[g]).to \in Nat
         /\ heap'[after[g].arr][Head(todo[g]).to] = Moved(g, Head(todo[g]))
         /\ \A s \in Slices : \A j \in 1..Capacity(s) :
              s.arr # after[g].arr \/ j # Head(todo[g]).to =>
                heap'[s.arr][j] = heap[s.arr][j]
<1> DEFINE mv == Head(todo[g])
           a == after[g].arr
           v == Moved(g, mv)
           cb == Capacity(before[g].slice)
           ca == Capacity(after[g])
<1>1. SharedOK /\ LocalOK(g)
  BY DEF IInv
<1>2. /\ pc[g] = "change" /\ todo[g] # <<>>
      /\ heap' = [heap EXCEPT ![a][mv.to] = v]
  BY DEF MoveCell
<1>3. before[g].slice \in Slices /\ after[g] \in Slices /\ call[g] \in Calls
      /\ call[g].op \in Writes /\ todo[g] \in Seq(Moves(cb, ca))
  BY <1>1, <1>2 DEF LocalOK, SlicesOK, CallOK, MovesOK, InCall
<1> HIDE DEF v, cb, ca
<1>4. mv \in Moves(cb, ca)
  BY <1>2, <1>3, HeadTailProperties
<1>5. mv.from \in 0..cb /\ mv.to \in 1..ca /\ cb \in Nat /\ ca \in Nat
  <2>1. cb \in Nat /\ ca \in Nat
    BY <1>1, <1>3, CapacityFacts DEF cb, ca
  <2> QED
    BY <1>4, <2>1 DEF Moves
<1>6. v \in Cells
  <2>1. CASE mv.from # 0
    <3>1. mv.from \in 1..cb
      BY <1>5, <2>1
    <3>2. heap[before[g].slice.arr][mv.from] \in Cells
      BY <1>1, <1>3, <3>1, CellFacts DEF cb
    <3>3. v = heap[before[g].slice.arr][mv.from]
      BY <2>1 DEF v, Moved, Cell
    <3> QED
      BY <3>2, <3>3
  <2>2. CASE mv.from = 0
    <3>1. v = IF call[g].op = "Add" THEN call[g].m ELSE Zero
      BY <2>2 DEF v, Moved
    <3>2. call[g].m \in Members
      BY <1>3 DEF Calls, Writes
    <3> QED
      BY <3>1, <3>2 DEF Cells
  <2> QED
    BY <2>1, <2>2
<1>7. a \in 1..Len(heap) /\ mv.to \in 1..Len(heap[a])
  <2>1. ca # 0
    BY <1>5
  <2>2. a \in 1..Len(heap) /\ Len(heap[a]) = ca
    BY <1>1, <1>3, <2>1, CapacityFacts DEF ca
  <2> QED
    BY <1>5, <2>2
<1> HIDE DEF mv, a
<1>8. /\ heap'[a][mv.to] = v
      /\ \A b \in 1..Len(heap) : \A j \in 1..Len(heap[b]) :
           b # a \/ j # mv.to => heap'[b][j] = heap[b][j]
  <2>1. heap \in Seq(Seq(Cells))
    BY <1>1 DEF SharedOK
  <2> QED
    BY <1>2, <1>6, <1>7, <2>1, HeapCells
<1>9. ASSUME NEW s \in Slices, NEW j \in 1..Capacity(s), s.arr # a \/ j # mv.to
      PROVE  heap'[s.arr][j] = heap[s.arr][j]
  <2>1. Capacity(s) \in Nat /\ Capacity(s) # 0
    BY <1>1, CapacityFacts
  <2>2. s.arr \in 1..Len(heap) /\ Len(heap[s.arr]) = Capacity(s)
    BY <1>1, <2>1, CapacityFacts
  <2> QED
    BY <1>8, <1>9, <2>2
<1> QED
  BY <1>3, <1>5, <1>8, <1>9 DEF mv, a, v, cb, ca

\* What remains to do after a move.
LEMMA MovesLeft ==
  ASSUME NEW S, NEW w \in Seq(S), w # <<>>
  PROVE  /\ 1 \in 1..Len(w) /\ Head(w) = w[1]
         /\ \A k \in 1..Len(Tail(w)) : k + 1 \in 2..Len(w) /\ Tail(w)[k] = w[k + 1]
         /\ \A k \in 1..Len(w) : k # 1 => k - 1 \in 1..Len(Tail(w)) /\ Tail(w)[k - 1] = w[k]
<1>1. Len(w) \in Nat /\ Len(w) # 0
  BY EmptySeq
<1>2. Len(Tail(w)) = Len(w) - 1 /\ \A k \in 1..Len(Tail(w)) : Tail(w)[k] = w[k + 1]
  BY HeadTailProperties
<1>3. Head(w) = w[1]
  BY <1>1
<1>4. ASSUME NEW k \in 1..Len(w), k # 1
      PROVE  k - 1 \in 1..Len(Tail(w)) /\ Tail(w)[k - 1] = w[k]
  <2>1. k - 1 \in 1..Len(Tail(w)) /\ (k - 1) + 1 = k
    BY <1>1, <1>2, <1>4
  <2> QED
    BY <1>2, <2>1
<1> QED
  BY <1>1, <1>2, <1>3, <1>4

\* A move brings the new slice closer to the members after the change.
LEMMA MoveKeepsChange ==
  ASSUME ContentInv, NEW g \in Goroutines, MoveCell(g), ChangeIn(g)
  PROVE  ChangeIn(g)'
<1> DEFINE b == before[g].slice
           a == after[g]
           mv == Head(todo[g])
           w == todo[g]
           q == Sorted(members)
           F == Sorted(Target(g))
<1>1. IInv /\ SharedOK /\ PerGoroutine /\ LocalOK(g)
  BY DEF ContentInv, IInv
<1>2. /\ pc[g] = "change" /\ w # <<>> /\ todo' = [todo EXCEPT ![g] = Tail(@)]
      /\ shifted' <=> (shifted \/ (a.arr = current.arr /\ mv.to <= current.len))
      /\ UNCHANGED <<current, pc, call, before, after, members>>
  BY DEF MoveCell
<1>3. todo'[g] = Tail(w)
  BY <1>1, <1>2 DEF PerGoroutine
<1>4. /\ w \in Seq(Moves(Capacity(b), Capacity(a))) /\ mv.from \in Nat /\ mv.to \in Nat
      /\ heap'[a.arr][mv.to] = Moved(g, mv)
      /\ \A s \in Slices : \A j \in 1..Capacity(s) :
           s.arr # a.arr \/ j # mv.to => heap'[s.arr][j] = heap[s.arr][j]
  BY <1>1, MoveFacts
<1>5. /\ 1 \in 1..Len(w) /\ mv = w[1]
      /\ \A k \in 1..Len(Tail(w)) : k + 1 \in 2..Len(w) /\ Tail(w)[k] = w[k + 1]
      /\ \A k \in 1..Len(w) : k # 1 => k - 1 \in 1..Len(Tail(w)) /\ Tail(w)[k - 1] = w[k]
  BY <1>2, <1>4, MovesLeft
<1>6. b \in Slices /\ a \in Slices /\ call[g].op \in Writes
  BY <1>1, <1>2 DEF LocalOK, SlicesOK, CallOK, InCall
<1>7. /\ a.len \in Nat /\ a.len <= Capacity(a) /\ Capacity(a) \in Nat
      /\ b.len \in Nat /\ b.len <= Capacity(b) /\ Capacity(b) \in Nat
  BY <1>1, <1>6, CapacityFacts
<1>8. /\ Target(g) # members /\ a.len = Cardinality(Target(g)) /\ a.arr # 0
      /\ \A k \in 1..Len(w) : MoveOK(g, w[k])
      /\ Untouched(g) /\ Covered(g) /\ Private(g) /\ ShiftOK(g)
  BY DEF ChangeIn
<1>9. Target(g)' = Target(g)
  BY <1>2 DEF Target
<1>10. ASSUME NEW k \in 1..Len(todo'[g]) PROVE MoveOK(g, todo[g][k])'
  <2>1. k + 1 \in 2..Len(w) /\ k + 1 \in 1..Len(w) /\ todo'[g][k] = w[k + 1]
    <3>1. k + 1 \in 2..Len(w) /\ todo'[g][k] = w[k + 1]
      BY <1>3, <1>5
    <3> HIDE DEF w
    <3> QED
      BY <3>1
  <2> DEFINE x == todo'[g][k]
  <2>2. MoveOK(g, w[k + 1])
    BY <1>8, <2>1
  <2>3. x.from \in 0..Capacity(b)
    <3>1. w[k + 1] \in Moves(Capacity(b), Capacity(a))
      BY <1>4, <2>1, ElementOfSeq
    <3> QED
      BY <2>1, <3>1 DEF Moves
  <2>4. ASSUME x.from # 0
        PROVE  /\ x.from <= b.len /\ heap'[b.arr][x.from] = q[x.from]
               /\ x.to <= a.len => F[x.to] = q[x.from]
    <3>1. /\ x.from <= b.len /\ heap[b.arr][x.from] = q[x.from]
          /\ x.to <= a.len => F[x.to] = q[x.from]
      BY <2>1, <2>2, <2>4 DEF MoveOK
    <3>2. x.from \in 1..Capacity(b)
      BY <1>7, <2>3, <2>4
    <3>3. b.arr = a.arr => mv.to # x.from
      <4>1. 1 < k + 1
        OBVIOUS
      <4> QED
        BY <1>5, <1>8, <2>1, <2>4, <4>1 DEF Untouched
    <3>4. heap'[b.arr][x.from] = heap[b.arr][x.from]
      BY <1>4, <1>6, <3>2, <3>3
    <3> QED
      BY <3>1, <3>4
  <2>5. x.from = 0 /\ x.to <= a.len => call[g].op = "Add" /\ F[x.to] = call[g].m
    BY <2>1, <2>2 DEF MoveOK
  <2>6. Sorted(Target(g)') = F
    BY <1>9
  <2> HIDE DEF F
  <2> QED
    BY <1>2, <2>4, <2>5, <2>6 DEF MoveOK
<1>11. Untouched(g)'
  <2>1. ASSUME a.arr = b.arr, NEW j \in 1..Len(todo'[g]), NEW k \in 1..Len(todo'[g]),
               j < k, todo'[g][k].from # 0
        PROVE  todo'[g][j].to # todo'[g][k].from
    <3>1. /\ j + 1 \in 2..Len(w) /\ k + 1 \in 2..Len(w)
          /\ todo'[g][j] = w[j + 1] /\ todo'[g][k] = w[k + 1]
      BY <1>3, <1>5
    <3>2. j + 1 \in 1..Len(w) /\ k + 1 \in 1..Len(w) /\ j + 1 < k + 1
      BY <2>1, <3>1
    <3> QED
      BY <1>8, <2>1, <3>1, <3>2 DEF Untouched
  <2> QED
    BY <1>2, <2>1 DEF Untouched
<1>12. Covered(g)'
  <2>1. ASSUME NEW j \in 1..a.len
        PROVE  heap'[a.arr][j] = F[j] \/ \E k \in 1..Len(todo'[g]) : todo'[g][k].to = j
    <3>1. CASE j = mv.to
      <4>1. MoveOK(g, mv) /\ mv.to <= a.len
        BY <1>5, <1>7, <1>8, <3>1
      <4>2. CASE mv.from # 0
        <5>1. heap[b.arr][mv.from] = q[mv.from] /\ F[mv.to] = q[mv.from]
          BY <4>1, <4>2 DEF MoveOK
        <5>2. Moved(g, mv) = heap[b.arr][mv.from]
          BY <4>2 DEF Moved, Cell
        <5> QED
          BY <1>4, <3>1, <5>1, <5>2
      <4>3. CASE mv.from = 0
        <5>1. call[g].op = "Add" /\ F[mv.to] = call[g].m
          BY <4>1, <4>3 DEF MoveOK
        <5>2. Moved(g, mv) = call[g].m
          BY <4>3, <5>1 DEF Moved
        <5> QED
          BY <1>4, <3>1, <5>1, <5>2
      <4> QED
        BY <4>2, <4>3
    <3>2. CASE j # mv.to
      <4>1. j \in 1..Capacity(a)
        BY <1>7
      <4>2. heap'[a.arr][j] = heap[a.arr][j]
        BY <1>4, <1>6, <3>2, <4>1
      <4>3. heap[a.arr][j] = F[j] \/ \E k \in 1..Len(w) : w[k].to = j
        BY <1>8 DEF Covered
      <4>4. ASSUME NEW k \in 1..Len(w), w[k].to = j
            PROVE  \E i \in 1..Len(todo'[g]) : todo'[g][i].to = j
        <5>1. k # 1
          BY <1>5, <3>2, <4>4
        <5>2. k - 1 \in 1..Len(todo'[g]) /\ todo'[g][k - 1] = w[k]
          BY <1>3, <1>5, <5>1
        <5> QED
          BY <4>4, <5>2
      <4> QED
        BY <4>2, <4>3, <4>4
    <3> QED
      BY <3>1, <3>2
  <2>2. Sorted(Target(g)') = F /\ after'[g] = a
    BY <1>2, <1>9
  <2> HIDE DEF F
  <2> QED
    BY <2>1, <2>2 DEF Covered
<1>13. Private(g)'
  BY <1>2, <1>8 DEF Private, InCall
<1>14. ShiftOK(g)'
  <2>1. ASSUME call[g].op = "Delete"
        PROVE  /\ a.arr = current.arr /\ shifted'
               /\ \A k \in 1..Len(todo'[g]) : todo'[g][k].to <= current.len
    <3>1. a.arr = current.arr /\ \A k \in 1..Len(w) : w[k].to <= current.len
      BY <1>8, <2>1 DEF ShiftOK
    <3>2. mv.to <= current.len
      BY <1>5, <3>1
    <3>3. ASSUME NEW k \in 1..Len(todo'[g]) PROVE todo'[g][k].to <= current.len
      <4>1. k + 1 \in 2..Len(w) /\ todo'[g][k] = w[k + 1]
        BY <1>3, <1>5
      <4>2. k + 1 \in 1..Len(w)
        BY <4>1
      <4> QED
        BY <3>1, <4>1, <4>2
    <3> QED
      BY <1>2, <3>1, <3>2, <3>3
  <2>2. call[g].op = "Add" => current.len <= a.len
    BY <1>8 DEF ShiftOK
  <2> QED
    BY <1>2, <2>1, <2>2 DEF ShiftOK
<1>15. Target(g)' # members' /\ after'[g].len = Cardinality(Target(g)') /\ after'[g].arr # 0
  BY <1>2, <1>8, <1>9
<1> QED
  BY <1>10, <1>11, <1>12, <1>13, <1>14, <1>15 DEF ChangeIn

\* As long as it is quiet, the writer that moves a cell is the only writer; what
\* the others read is not the cell that it writes.
LEMMA MoveCellContent ==
  ASSUME ContentInv, NEW g \in Goroutines, MoveCell(g)
  PROVE  ContentInv'
<1> DEFINE a == after[g]
           to == Head(todo[g]).to
<1>1. IInv /\ SharedOK /\ PerGoroutine /\ OverlapOK /\ (Quiet => QuietOK) /\ IInv'
  BY MoveCellKeeps DEF ContentInv, IInv
<1>2. /\ pc[g] = "change" /\ InCall(g)
      /\ shifted' <=> (shifted \/ (a.arr = current.arr /\ to <= current.len))
      /\ UNCHANGED <<version, current, pc, call, before, lo, hi, got, after>>
      /\ UNCHANGED <<members, possible, correct, calls, overlap>>
      /\ todo' = [todo EXCEPT ![g] = Tail(@)]
  BY DEF MoveCell, InCall
<1>3. Writer(g)
  BY <1>1, <1>2 DEF IInv, LocalOK, CallOK, Writer
<1>4. OverlapOK'
  BY <1>1, <1>2, OverlapStays DEF InCall
<1>5. ASSUME Quiet' PROVE QuietOK'
  <2>1. Quiet /\ QuietOK
    BY <1>1, <1>2, <1>5 DEF Quiet
  <2>2. ChangeIn(g) /\ CurrentOK /\ correct
    BY <1>2, <2>1 DEF QuietOK, ChangeOK
  <2>3. ASSUME NEW s \in Slices, s.arr = a.arr => s.len < to
        PROVE  \A i \in 1..s.len : heap'[s.arr][i] = heap[s.arr][i]
    <3> SUFFICES ASSUME NEW i \in 1..s.len PROVE heap'[s.arr][i] = heap[s.arr][i]
      OBVIOUS
    <3>1. s.len \in Nat /\ Capacity(s) \in Nat /\ s.len <= Capacity(s) /\ to \in Nat
      BY <1>1, CapacityFacts, MoveFacts
    <3>2. i \in 1..Capacity(s) /\ (s.arr = a.arr => i # to)
      BY <2>3, <3>1
    <3> QED
      BY <1>1, <3>2, MoveFacts
  <2>4. to \in Nat /\ current \in Slices /\ current.len \in Nat
    BY <1>1, CapacityFacts, MoveFacts DEF SharedOK
  <2>5. CurrentOK'
    <3>1. current'.len = Cardinality(members')
      BY <1>2, <2>2 DEF CurrentOK
    <3>2. ASSUME ~Disturbed' PROVE Holds(current, members)'
      <4>1. ~shifted'
        BY <1>2, <3>2 DEF Disturbed
      <4>2. Holds(current, members)
        BY <1>2, <2>2, <4>1 DEF CurrentOK, Disturbed
      <4>3. current.arr = a.arr => current.len < to
        BY <1>2, <2>4, <4>1
      <4>4. \A i \in 1..current.len : heap'[current.arr][i] = heap[current.arr][i]
        BY <2>3, <2>4, <4>3
      <4> QED
        BY <1>2, <4>2, <4>4 DEF Holds
    <3> QED
      BY <3>1, <3>2 DEF CurrentOK
  <2>6. ASSUME NEW h \in Goroutines
        PROVE  WriterOK(h)' /\ ReaderOK(h)'
    <3>1. WriterOK(h) /\ ReaderOK(h)
      BY <2>1 DEF QuietOK
    <3> QED
      BY <1>2, <3>1 DEF WriterOK, ReaderOK, Writer, InCall
  <2>7. ASSUME NEW h \in Goroutines, h # g
        PROVE  SearchOK(h)' /\ ReadOK(h)' /\ ChangeOK(h)'
    <3>1. SearchOK(h) /\ ReadOK(h) /\ ReaderOK(h)
      BY <2>1 DEF QuietOK
    <3>2. CASE ~InCall(h)
      BY <1>2, <3>2 DEF SearchOK, ReadOK, ChangeOK, InCall
    <3>3. CASE InCall(h)
      <4>1. overlap = "reader"
        <5>1. overlap \in {"none", "reader", "writers"}
          BY <1>1 DEF IInv, HistoryOK
        <5>2. overlap # "none"
          BY <1>1, <1>3, <2>7, <3>3 DEF OverlapOK
        <5> QED
          BY <2>1, <5>1, <5>2 DEF Quiet
      <4>2. ~shifted'
        BY <1>2, <1>5, <4>1 DEF Quiet
      <4>3. pc[h] # "change"
        <5>1. ~Writer(h)
          BY <1>1, <1>3, <2>1, <2>7 DEF OverlapOK, Quiet
        <5> QED
          BY <1>1, <3>3, <5>1 DEF IInv, LocalOK, CallOK, Writer
      <4>4. before[h].slice \in Slices /\ before[h].slice.len \in Nat
        BY <1>1, <3>3, CapacityFacts DEF IInv, LocalOK, SlicesOK
      <4>5. before[h].slice.arr = a.arr => before[h].slice.len < to
        <5>1. before[h].slice.arr = a.arr => a.arr = current.arr
          BY <2>2, <3>3 DEF ChangeIn, Private
        <5>2. a.arr = current.arr => current.len < to
          BY <1>2, <2>4, <4>2
        <5>3. before[h].slice.arr = current.arr => before[h].slice.len <= current.len
          BY <1>2, <3>1, <3>3, <4>2 DEF ReaderOK
        <5> QED
          BY <2>4, <4>4, <5>1, <5>2, <5>3
      <4>6. \A i \in 1..before[h].slice.len :
              heap'[before[h].slice.arr][i] = heap[before[h].slice.arr][i]
        BY <2>3, <4>4, <4>5
      <4>7. Same(h)
        BY <1>1, <1>2, <2>7 DEF Same, PerGoroutine
      <4>8. possible[h] \subseteq possible'[h] /\ members' = members /\ overlap' = overlap
        BY <1>2
      <4>9. SearchOK(h)'
        BY <1>1, <3>1, <4>6, <4>7, <4>8, SearchStays
      <4>10. ReadOK(h)'
        BY <1>1, <3>1, <4>6, <4>7, <4>8, ReadStays
      <4>11. ChangeOK(h)'
        BY <1>2, <4>3 DEF ChangeOK
      <4> QED
        BY <4>9, <4>10, <4>11
    <3> QED
      BY <3>2, <3>3
  <2>8. SearchOK(g)' /\ ReadOK(g)' /\ ChangeOK(g)'
    <3>1. ChangeIn(g)'
      BY <2>2, MoveKeepsChange
    <3> QED
      BY <1>2, <3>1 DEF SearchOK, ReadOK, ChangeOK
  <2> QED
    BY <1>2, <2>2, <2>5, <2>6, <2>7, <2>8 DEF QuietOK
<1> QED
  BY <1>1, <1>4, <1>5 DEF ContentInv

\* The published slice holds the members after the change.
LEMMA SwapContent ==
  ASSUME ContentInv, NEW g \in Goroutines, Swap(g)
  PROVE  ContentInv'
<1> DEFINE T == Target(g)
           a == after[g]
<1>1. IInv /\ SharedOK /\ PerGoroutine /\ OverlapOK /\ (Quiet => QuietOK) /\ IInv'
  BY SwapKeeps DEF ContentInv, IInv
<1>2. /\ pc[g] = "change" /\ InCall(g) /\ todo[g] = <<>> /\ Finish(g)
      /\ current' = a /\ version' = version + 1
      /\ members' = T
      /\ UNCHANGED <<heap, calls, overlap, shifted>>
  BY DEF Swap, InCall, Target
<1>3. /\ correct' = (correct /\ T # members)
      /\ possible' = [q \in Goroutines |->
                        IF q = g THEN {}
                        ELSE IF InCall(q) THEN possible[q] \cup {Truth(call[q], T)}
                        ELSE possible[q]]
  BY DEF Swap, Target
<1>4. Writer(g)
  BY <1>1, <1>2 DEF IInv, LocalOK, CallOK, Writer
<1>5. pc'[g] = "idle" /\ \A q \in Goroutines : q # g => Same(q)
  BY <1>1, <1>2, FinishKeeps DEF IInv
<1>6. OverlapOK'
  <2>1. \A h \in Goroutines : InCall(h)' => InCall(h) /\ call'[h] = call[h]
    BY <1>5 DEF InCall, Same
  <2> QED
    BY <1>1, <1>2, <2>1, OverlapStays
<1>7. ASSUME Quiet' PROVE QuietOK'
  <2>1. Quiet /\ QuietOK /\ ChangeIn(g) /\ CurrentOK
    BY <1>1, <1>2, <1>7 DEF Quiet, QuietOK, ChangeOK
  <2>2. T # members /\ a.len = Cardinality(T) /\ Private(g) /\ ShiftOK(g)
    BY <2>1 DEF ChangeIn
  <2>3. \A j \in 1..a.len : heap[a.arr][j] = Sorted(T)[j]
    BY <1>2, <2>1 DEF ChangeIn, Covered
  <2> HIDE DEF T
  <2>4. correct'
    BY <1>3, <2>1, <2>2 DEF QuietOK
  <2>5. CurrentOK'
    <3>1. Holds(current, members)'
      BY <1>2, <2>2, <2>3 DEF Holds
    <3> QED
      BY <3>1 DEF CurrentOK, Holds
  <2>6. ASSUME NEW h \in Goroutines, h # g, InCall(h)
        PROVE  ~Writer(h) /\ overlap # "none"
    BY <1>1, <1>4, <2>1, <2>6 DEF OverlapOK, Quiet
  <2>7. ASSUME NEW h \in Goroutines
        PROVE  WriterOK(h)' /\ ReaderOK(h)' /\ SearchOK(h)' /\ ReadOK(h)' /\ ChangeOK(h)'
    <3>1. CASE ~InCall(h)'
      BY <3>1 DEF WriterOK, ReaderOK, SearchOK, ReadOK, ChangeOK, InCall, Writer
    <3>2. CASE InCall(h)'
      <4>1. h # g
        BY <1>5, <3>2 DEF InCall
      <4>2. Same(h) /\ InCall(h)
        BY <1>5, <3>2, <4>1 DEF InCall, Same
      <4>3. ~Writer(h) /\ overlap # "none"
        BY <2>6, <4>1, <4>2
      <4>4. SearchOK(h) /\ ReadOK(h) /\ ReaderOK(h)
        BY <2>1 DEF QuietOK
      <4>5. call[h].op \notin Writes /\ pc[h] # "change"
        BY <1>1, <4>2, <4>3 DEF Writer, IInv, LocalOK, CallOK
      <4>6. possible[h] \subseteq possible'[h]
        BY <1>3, <4>1, <4>2
      <4>7. SearchOK(h)'
        BY <1>1, <1>2, <4>2, <4>4, <4>5, <4>6, SearchStays
      <4>8. ReadOK(h)'
        BY <1>1, <1>2, <4>2, <4>3, <4>4, <4>6, ReadStays
      <4>9. WriterOK(h)' /\ ChangeOK(h)'
        BY <4>2, <4>3, <4>5 DEF WriterOK, ChangeOK, Writer, Same, InCall
      <4>10. ReaderOK(h)'
        <5>1. ASSUME ~shifted', before'[h].slice.arr = current'.arr
              PROVE  before'[h].slice.len <= current'.len
          <6>1. before'[h] = before[h] /\ before[h].slice.arr = a.arr /\ ~shifted
            BY <1>2, <4>2, <5>1 DEF Same
          <6>2. a.arr = current.arr
            BY <2>2, <4>2, <6>1 DEF Private
          <6>3. before[h].slice.len <= current.len
            BY <4>2, <4>4, <6>1, <6>2 DEF ReaderOK
          <6>4. current.len <= a.len
            <7>1. call[g].op = "Add"
              BY <1>2, <1>4, <2>2, <6>1 DEF ShiftOK, Writer, Writes
            <7> QED
              BY <2>2, <7>1 DEF ShiftOK
          <6>5. before[h].slice.len \in Nat /\ current.len \in Nat /\ a.len \in Nat
            BY <1>1, <1>2, <4>2, CapacityFacts DEF IInv, LocalOK, SlicesOK, SharedOK
          <6> QED
            BY <1>2, <6>1, <6>3, <6>4, <6>5
        <5> QED
          BY <5>1 DEF ReaderOK
      <4> QED
        BY <4>7, <4>8, <4>9, <4>10
    <3> QED
      BY <3>1, <3>2
  <2> QED
    BY <2>4, <2>5, <2>7 DEF QuietOK
<1> QED
  BY <1>1, <1>6, <1>7 DEF ContentInv

\* A swap fails only if writers overlap.
LEMMA RetryContent ==
  ASSUME ContentInv, NEW g \in Goroutines, Retry(g)
  PROVE  ContentInv'
<1>1. IInv /\ PerGoroutine /\ OverlapOK /\ (Quiet => QuietOK) /\ IInv'
  BY RetryKeeps DEF ContentInv, IInv
<1>2. /\ pc[g] = "change" /\ InCall(g) /\ version # before[g].version
      /\ pc' = [pc EXCEPT ![g] = "search"]
      /\ UNCHANGED <<call, overlap, shifted>>
  BY RetryKeeps DEF Retry, InCall, ContentInv, history
<1>3. \A h \in Goroutines : InCall(h)' => InCall(h)
  BY <1>1, <1>2 DEF InCall, PerGoroutine
<1>4. OverlapOK'
  BY <1>1, <1>2, <1>3, OverlapStays
<1>5. ~Quiet
  <2>1. Writer(g)
    BY <1>1, <1>2 DEF IInv, LocalOK, CallOK, Writer
  <2> QED
    BY <1>1, <1>2, <2>1 DEF QuietOK, WriterOK
<1> QED
  BY <1>1, <1>2, <1>4, <1>5 DEF ContentInv, Quiet

\* A call that begins while nobody moves cells of the published slice finds the
\* members in it.
LEMMA BeginContent ==
  ASSUME ContentInv, NEW g \in Goroutines, NEW c \in Calls, Begin(g, c)
  PROVE  ContentInv'
<1>1. IInv /\ SharedOK /\ PerGoroutine /\ OverlapOK /\ (Quiet => QuietOK) /\ IInv'
  BY BeginKeeps DEF ContentInv, IInv
<1>2. /\ pc[g] = "idle" /\ Load(g, version, current, c.op)
      /\ call' = [call EXCEPT ![g] = c] /\ overlap' = OverlapOf(c)
      /\ possible' = [possible EXCEPT ![g] = {Truth(c, members)}]
      /\ UNCHANGED <<heap, version, current, got, todo, after, members, correct, shifted>>
  BY DEF Begin, InCall, shared
<1>3. /\ before'[g] = [version |-> version, slice |-> current]
      /\ lo'[g] = 0 /\ hi'[g] = current.len /\ call'[g] = c /\ got'[g] = <<>>
      /\ possible'[g] = {Truth(c, members)}
      /\ pc'[g] = (IF c.op = "Members" THEN "read" ELSE "search")
  BY <1>1, <1>2 DEF PerGoroutine, IInv, HistoryOK, Load, LocalOK, CallOK
<1>4. \A q \in Goroutines : q # g => Same(q) /\ possible'[q] = possible[q]
  BY <1>1, <1>2 DEF PerGoroutine, IInv, HistoryOK, Load, Same
<1>5. \A q \in Goroutines : q # g => /\ InCall(q)' <=> InCall(q)
                                     /\ Writer(q)' <=> Writer(q)
  BY <1>4 DEF InCall, Writer, Same
<1>6. InCall(g)' /\ ~InCall(g) /\ (Writer(g)' <=> c.op \in Writes)
  BY <1>2, <1>3 DEF InCall, Writer
<1>7. c.op \in {"Add", "Delete", "Has", "Members"}
  BY DEF Calls, Writes
<1>8. \A q \in Goroutines : InCall(q) => call[q].op \in {"Add", "Delete", "Has", "Members"}
  BY <1>1 DEF IInv, LocalOK, CallOK, Calls, Writes
<1>9. /\ overlap' # "writers" =>
           overlap # "writers" /\ (c.op \in Writes => \A q \in Goroutines : ~Writer(q))
      /\ overlap' = "none" =>
           /\ overlap = "none"
           /\ c.op \in Writes => \A q \in Goroutines : ~InCall(q)
           /\ c.op \notin Writes => \A q \in Goroutines : ~Writer(q)
  <2>1. \A q \in Goroutines : Writer(q) => Busy(Writes)
    BY DEF Writer, Busy
  <2>2. \A q \in Goroutines : InCall(q) => Busy(Writes) \/ Busy({"Has", "Members"})
    BY <1>8 DEF Busy, Writes
  <2>3. overlap \in {"none", "reader", "writers"}
    BY <1>1 DEF IInv, HistoryOK
  <2> QED
    BY <1>2, <2>1, <2>2, <2>3 DEF OverlapOf
<1>10. OverlapOK'
  <2>1. ASSUME overlap' # "writers", NEW p \in Goroutines, NEW q \in Goroutines,
               Writer(p)', Writer(q)'
        PROVE  p = q
    BY <1>1, <1>5, <1>6, <1>9, <2>1 DEF OverlapOK
  <2>2. ASSUME overlap' = "none", NEW p \in Goroutines, NEW q \in Goroutines,
               Writer(p)', InCall(q)'
        PROVE  p = q
    BY <1>1, <1>5, <1>6, <1>9, <2>2 DEF OverlapOK
  <2> QED
    BY <2>1, <2>2 DEF OverlapOK
<1>11. ASSUME Quiet' PROVE QuietOK'
  <2>1. Quiet /\ QuietOK /\ CurrentOK
    <3>1. overlap # "writers" /\ (overlap' = "none" => overlap = "none")
      BY <1>9, <1>11 DEF Quiet
    <3>2. overlap = "reader" => ~shifted
      <4>1. overlap' \in {"none", "reader", "writers"}
        BY <1>1 DEF IInv, HistoryOK
      <4> QED
        BY <1>2, <1>11, <3>1, <4>1 DEF Quiet
    <3> QED
      BY <1>1, <3>1, <3>2 DEF Quiet, QuietOK
  <2>2. ~Disturbed
    <3> SUFFICES ASSUME shifted, NEW q \in Goroutines, pc[q] = "change" PROVE FALSE
      BY DEF Disturbed
    <3>1. Writer(q)
      BY <1>1 DEF IInv, LocalOK, CallOK, Writer, InCall
    <3>2. overlap' = "none"
      <4>1. overlap' \in {"none", "reader", "writers"}
        BY <1>1 DEF IInv, HistoryOK
      <4> QED
        BY <1>2, <1>11, <4>1 DEF Quiet
    <3> QED
      BY <1>9, <3>1, <3>2 DEF Writer
  <2>3. Holds(current, members)
    BY <2>1, <2>2 DEF CurrentOK
  <2>4. Holds(before[g].slice, members)'
    BY <1>2, <1>3, <2>3 DEF Holds
  <2>5. CurrentOK'
    BY <1>2, <2>1, <2>3 DEF CurrentOK, Holds
  <2>6. members \in SUBSET Members
    BY <1>1 DEF IInv, HistoryOK
  <2>7. current.len \in Nat
    BY <1>1, CapacityFacts DEF SharedOK
  <2>8. SearchOK(g)'
    <3> SUFFICES ASSUME c.op # "Members" PROVE SearchIn(g, members)'
      BY <1>2, <1>3, <2>6 DEF SearchOK
    <3>1. ((call[g].m \in members) \in possible[g])'
      <4>1. Truth(c, members) = (c.m \in members)
        BY DEF Truth
      <4> QED
        BY <1>2, <1>3, <4>1
    <3>2. 1..lo'[g] = {} /\ hi'[g] + 1 .. before'[g].slice.len = {}
      BY <1>3, <2>7
    <3> QED
      BY <1>2, <2>4, <3>1, <3>2 DEF SearchIn
  <2>9. ReadOK(g)'
    <3> SUFFICES ASSUME c.op = "Members" PROVE ReadIn(g, members)'
      BY <1>2, <1>3, <2>6 DEF ReadOK
    <3>1. Sorted(members) \in possible'[g]
      BY <1>3 DEF Truth
    <3>2. Len(got'[g]) = 0
      BY <1>3
    <3> QED
      BY <1>2, <1>3, <2>4, <2>7, <3>1, <3>2 DEF ReadIn
  <2>10. ChangeOK(g)'
    BY <1>3 DEF ChangeOK
  <2>11. WriterOK(g)' /\ ReaderOK(g)'
    BY <1>2, <1>3, <2>7 DEF WriterOK, ReaderOK
  <2>12. ASSUME NEW q \in Goroutines, q # g
         PROVE  WriterOK(q)' /\ ReaderOK(q)' /\ SearchOK(q)' /\ ReadOK(q)' /\ ChangeOK(q)'
    <3>1. WriterOK(q) /\ ReaderOK(q) /\ SearchOK(q) /\ ReadOK(q) /\ ChangeOK(q)
      BY <2>1 DEF QuietOK
    <3>2. Same(q) /\ possible'[q] = possible[q]
      BY <1>4, <2>12
    <3>3. WriterOK(q)' /\ ReaderOK(q)'
      BY <1>2, <1>5, <2>12, <3>1, <3>2 DEF WriterOK, ReaderOK, Same
    <3>4. SearchOK(q)'
      BY <1>1, <1>2, <3>1, <3>2, SearchStays
    <3>5. ReadOK(q)'
      BY <1>1, <1>2, <1>9, <3>1, <3>2, ReadStays
    <3>6. ChangeOK(q)'
      <4>1. CellsStay
        BY <1>2, SameCells
      <4>2. \A h \in Goroutines :
              InCall(h)' => \/ InCall(h) /\ before'[h] = before[h]
                            \/ before'[h].slice = current
        BY <1>3, <1>4, <1>5 DEF Same
      <4> QED
        BY <1>1, <1>2, <3>1, <3>2, <4>1, <4>2, ChangeStays
    <3> QED
      BY <3>3, <3>4, <3>5, <3>6
  <2>13. correct'
    BY <1>2, <2>1 DEF QuietOK
  <2> QED
    BY <2>5, <2>8, <2>9, <2>10, <2>11, <2>12, <2>13 DEF QuietOK
<1> QED
  BY <1>1, <1>10, <1>11 DEF ContentInv

\* The invariant holds at first: no member, no call.
LEMMA ContentInit == Init => ContentInv
<1> SUFFICES ASSUME Init PROVE ContentInv
  OBVIOUS
<1>1. IInv
  BY InitOK
<1>2. /\ current = NilSlice /\ members = {} /\ overlap = "none" /\ correct = TRUE
      /\ \A g \in Goroutines : pc[g] = "idle"
  BY DEF Init
<1>3. CurrentOK
  <2>1. current.len = 0 /\ Cardinality(members) = 0
    BY <1>2, FS_EmptySet DEF NilSlice
  <2> QED
    BY <2>1 DEF CurrentOK, Holds
<1>4. \A g \in Goroutines : ~InCall(g)
  BY <1>2 DEF InCall
<1>5. \A g \in Goroutines :
        WriterOK(g) /\ ReaderOK(g) /\ SearchOK(g) /\ ReadOK(g) /\ ChangeOK(g)
  BY <1>2, <1>4 DEF WriterOK, ReaderOK, SearchOK, ReadOK, ChangeOK, Writer
<1>6. OverlapOK
  BY <1>4 DEF OverlapOK, Writer
<1> QED
  BY <1>1, <1>2, <1>3, <1>5, <1>6 DEF ContentInv, QuietOK

\* A step in which nothing changes.
LEMMA StutterKeeps ==
  ASSUME IInv, UNCHANGED vars
  PROVE  IInv'
<1>1. UNCHANGED <<heap, version, current>>
      /\ UNCHANGED <<pc, call, before, lo, hi, got, todo, after>>
      /\ UNCHANGED <<members, possible, correct, calls, overlap, shifted>>
  BY DEF vars, shared, local, history
<1>2. SharedOK /\ PerGoroutine /\ HistoryOK /\ \A g \in Goroutines : LocalOK(g)
  BY DEF IInv
<1>3. SharedOK' /\ Grows /\ version' \in Nat /\ version <= version'
  BY <1>1, SharedKept DEF shared
<1>4. PerGoroutine' /\ HistoryOK'
  BY <1>1, <1>2 DEF PerGoroutine, HistoryOK
<1>5. ASSUME NEW g \in Goroutines PROVE LocalOK(g)'
  <2>1. Same(g)
    BY <1>1 DEF Same
  <2> QED
    BY <1>2, <1>3, <2>1, OthersKeep
<1> QED
  BY <1>3, <1>4, <1>5 DEF IInv

\* So does a step in which nothing changes.
LEMMA StutterContent ==
  ASSUME ContentInv, UNCHANGED vars
  PROVE  ContentInv'
<1>1. UNCHANGED <<heap, version, current>>
      /\ UNCHANGED <<pc, call, before, lo, hi, got, todo, after>>
      /\ UNCHANGED <<members, possible, correct, calls, overlap, shifted>>
  BY DEF vars, shared, local, history
<1>2. IInv /\ IInv' /\ SharedOK /\ OverlapOK /\ (Quiet => QuietOK)
  BY StutterKeeps DEF ContentInv, IInv
<1>3. \A g \in Goroutines : Same(g) /\ possible'[g] = possible[g]
  BY <1>1 DEF Same
<1>4. OverlapOK'
  BY <1>1, <1>2, OverlapStays DEF InCall
<1>5. ASSUME Quiet' PROVE QuietOK'
  <2>1. Quiet /\ QuietOK
    BY <1>1, <1>2, <1>5 DEF Quiet
  <2>2. CurrentOK'
    BY <1>1, <2>1 DEF QuietOK, CurrentOK, Holds, Disturbed
  <2>3. ASSUME NEW g \in Goroutines
        PROVE  WriterOK(g)' /\ ReaderOK(g)' /\ SearchOK(g)' /\ ReadOK(g)' /\ ChangeOK(g)'
    <3>1. WriterOK(g) /\ ReaderOK(g) /\ SearchOK(g) /\ ReadOK(g) /\ ChangeOK(g)
      BY <2>1 DEF QuietOK
    <3>2. WriterOK(g)' /\ ReaderOK(g)'
      BY <1>1, <3>1 DEF WriterOK, ReaderOK, Writer, InCall
    <3>3. SearchOK(g)' /\ ReadOK(g)'
      BY <1>1, <1>2, <1>3, <3>1, SearchStays, ReadStays
    <3>4. ChangeOK(g)'
      <4>1. CellsStay
        BY <1>1, SameCells
      <4> QED
        BY <1>1, <1>2, <1>3, <3>1, <4>1, ChangeStays DEF InCall
    <3> QED
      BY <3>2, <3>3, <3>4
  <2>4. correct'
    BY <1>1, <2>1 DEF QuietOK
  <2> QED
    BY <2>2, <2>3, <2>4 DEF QuietOK
<1> QED
  BY <1>2, <1>4, <1>5 DEF ContentInv

\* Every step keeps the invariant.
LEMMA NextContent == ContentInv /\ [Next]_vars => ContentInv'
<1> SUFFICES ASSUME ContentInv, [Next]_vars PROVE ContentInv'
  OBVIOUS
<1>1. ASSUME NEW g \in Goroutines, NEW c \in Calls, Begin(g, c) PROVE ContentInv'
  BY <1>1, BeginContent
<1>2. ASSUME NEW g \in Goroutines, Step(g) PROVE ContentInv'
  <2>1. CASE Probe(g)
    BY <2>1, ProbeContent
  <2>2. CASE NothingToDo(g)
    BY <2>2, NothingToDoContent
  <2>3. CASE BeginInsert(g)
    BY <2>3, BeginInsertContent
  <2>4. CASE BeginDelete(g)
    BY <2>4, BeginDeleteContent
  <2>5. CASE MoveCell(g)
    BY <2>5, MoveCellContent
  <2>6. CASE Swap(g)
    BY <2>6, SwapContent
  <2>7. CASE Retry(g)
    BY <2>7, RetryContent
  <2>8. CASE ReadMember(g)
    BY <2>8, ReadMemberContent
  <2>9. CASE ReadAll(g)
    BY <2>9, ReadAllContent
  <2> QED
    BY <1>2, <2>1, <2>2, <2>3, <2>4, <2>5, <2>6, <2>7, <2>8, <2>9 DEF Step, SearchStep
<1>3. CASE UNCHANGED vars
  BY <1>3, StutterContent
<1> QED
  BY <1>1, <1>2, <1>3 DEF Next

\* The array of the published slice lists the members whenever no call is in
\* progress.
LEMMA QuietContent ==
  ASSUME ContentInv, Quiet
  PROVE  /\ correct
         /\ (\A g \in Goroutines : ~InCall(g)) => Content = Sorted(members)
<1>1. correct /\ CurrentOK
  BY DEF ContentInv, QuietOK
<1>2. ASSUME \A g \in Goroutines : ~InCall(g) PROVE Content = Sorted(members)
  <2> DEFINE n == Cardinality(members)
             q == Sorted(members)
  <2>1. ~Disturbed
    BY <1>2 DEF Disturbed, InCall
  <2>2. current.len = n /\ \A i \in 1..n : heap[current.arr][i] = q[i]
    BY <1>1, <2>1 DEF CurrentOK, Holds
  <2>3. q \in [1..n -> members]
    BY SortedFacts DEF ContentInv, IInv, HistoryOK
  <2>4. Content = [i \in 1..n |-> heap[current.arr][i]]
    BY <2>2 DEF Content
  <2> HIDE DEF n, q
  <2> QED
    BY <2>2, <2>3, <2>4 DEF q
<1> QED
  BY <1>1, <1>2

\* The invariant of every behaviour, from which the theorems follow.
THEOREM ContentInvariant == Spec => []ContentInv
<1>1. Init => ContentInv
  BY ContentInit
<1>2. ContentInv /\ [Next]_vars => ContentInv'
  BY NextContent
<1> QED
  BY <1>1, <1>2, PTL DEF Spec

\* No slice is longer than its array, and no move of Insert or Delete leaves the
\* slice that it prepares, however many goroutines write to one array at a time:
\* orderedset.go cannot index out of bounds.
THEOREM SliceTypes == Spec => []TypeOK
<1>1. ContentInv => TypeOK
  BY IInvImpliesTypeOK DEF ContentInv
<1> QED
  BY <1>1, ContentInvariant, PTL

\* Calls of Add, Delete, Has and Members that never overlap are answered as by an
\* atomic set, and leave exactly its members, in order, however often insertions
\* and deletions reused the array.
THEOREM SequentialCalls == Spec => []SequentialIsExact
<1>1. ContentInv => SequentialIsExact
  <2> SUFFICES ASSUME ContentInv, overlap = "none"
               PROVE  /\ correct
                      /\ (\A g \in Goroutines : ~InCall(g)) => Content = Sorted(members)
    BY DEF SequentialIsExact
  <2>1. Quiet
    BY DEF Quiet
  <2> QED
    BY <2>1, QuietContent
<1> QED
  BY <1>1, ContentInvariant, PTL

\* Has and Members are answered as by an atomic set while one writer adds members
\* behind the end of the published slice, or in a new array.
THEOREM ReadersUndisturbed == Spec => []AppendingDisturbsNobody
<1>1. ContentInv => AppendingDisturbsNobody
  <2> SUFFICES ASSUME ContentInv, overlap # "writers", ~shifted PROVE correct
    BY DEF AppendingDisturbsNobody
  <2>1. Quiet
    BY DEF Quiet
  <2> QED
    BY <2>1, QuietContent
<1> QED
  BY <1>1, ContentInvariant, PTL
=============================================================================
