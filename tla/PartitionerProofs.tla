------------------------- MODULE PartitionerProofs -------------------------
(***************************************************************************)
(* Proofs about the partitioner, for every number of goroutines, nodes and *)
(* hashes, on top of those about the ordered set.  Route is the best of    *)
(* whatever nodes it has read (RouteInv); if it has read the members, that *)
(* is the one that wins among them, whatever their order was (Wins).       *)
(***************************************************************************)
EXTENDS Partitioner, OrderedSetProofs

-----------------------------------------------------------------------------
(* Route.                                                                  *)

\* The variables of the loop of Route.
Bests == [winner : Cells \cup {None}, score : Nat, digest : Nat]

\* b holds the best of the nodes in q: the first of the highest score.
BestOf(q, b) ==
  \/ /\ b = [NoWinner EXCEPT !.digest = b.digest]
     /\ \A j \in 1..Len(q) : Score(q[j]) = 0
  \/ \E i \in 1..Len(q) : FirstBest(q, i) /\ b.winner = q[i] /\ b.score = Score(q[i])

\* Scores are numbers, whatever the hash.
LEMMA ScoreType == \A y \in Cells : Score(y) \in Nat
<1>1. ASSUME NEW y \in Cells PROVE Hash[y] \in Nat
  BY <1>1, HashAssumption DEF Cells
<1> QED
  BY <1>1, HashAssumption DEF Score, Digest

\* The loop keeps the types of its variables.
LEMMA ConsiderType ==
  ASSUME NEW x \in Cells, NEW b \in Bests
  PROVE  Consider(b, x) \in Bests
<1>1. Digest(0, x) \in Nat
  BY ScoreType DEF Score
<1> QED
  BY <1>1 DEF Consider, Bests

\* A step of the loop, with a digest that begins anew for every node, takes the
\* best of some nodes to the best of these and the next one.
LEMMA ConsiderKeepsBest ==
  ASSUME NEW q \in Seq(Cells), NEW x \in Cells, NEW b \in Bests, BestOf(q, b)
  PROVE  BestOf(Append(q, x), Consider(b, x))
<1> DEFINE r == Append(q, x)
           n == Len(q)
<1>1. \A y \in Cells : Score(y) \in Nat
  BY ScoreType
<1> USE DEF Bests
<1>2. n \in Nat /\ \A j \in 1..n : q[j] \in Cells
  BY ElementOfSeq
<1>3. r[n + 1] = x /\ Len(r) = n + 1 /\ \A j \in 1..n : r[j] = q[j]
  OBVIOUS
<1>4. \A j \in 1..n : Score(r[j]) \in Nat /\ Score(r[j]) = Score(q[j])
  BY <1>1, <1>2, <1>3
<1>5. Score(x) \in Nat /\ Score(r[n + 1]) = Score(x)
  BY <1>1, <1>3
<1> HIDE DEF n, r
<1>6. CASE /\ b = [NoWinner EXCEPT !.digest = b.digest]
           /\ \A j \in 1..n : Score(q[j]) = 0
  <2>1. b.score = 0
    BY <1>6 DEF NoWinner
  <2>2. CASE Score(x) > 0
    <3>1. FirstBest(r, n + 1)
      BY <1>2, <1>3, <1>4, <1>5, <1>6, <2>2 DEF FirstBest
    <3>2. Consider(b, x).winner = x /\ Consider(b, x).score = Score(x)
      BY <2>1, <2>2 DEF Consider, Score
    <3>3. n + 1 \in 1..Len(r)
      BY <1>2, <1>3
    <3>4. Consider(b, x).winner = r[n + 1] /\ Consider(b, x).score = Score(r[n + 1])
      BY <1>3, <1>5, <3>2
    <3> QED
      BY <3>1, <3>3, <3>4 DEF BestOf, r
  <2>3. CASE Score(x) = 0
    <3>1. Consider(b, x) = [b EXCEPT !.digest = Digest(0, x)]
      BY <2>1, <2>3 DEF Consider, Score
    <3>2. Consider(b, x) = [NoWinner EXCEPT !.digest = Consider(b, x).digest]
      BY <1>6, <3>1 DEF NoWinner
    <3>3. \A j \in 1..Len(r) : Score(r[j]) = 0
      <4>1. \A j \in 1..Len(r) : j \in 1..n \/ j = n + 1
        BY <1>2, <1>3
      <4> QED
        BY <1>4, <1>5, <1>6, <2>3, <4>1
    <3> QED
      BY <3>2, <3>3 DEF BestOf, r
  <2> QED
    BY <1>5, <2>2, <2>3
<1>7. CASE \E i \in 1..n : FirstBest(q, i) /\ b.winner = q[i] /\ b.score = Score(q[i])
  <2>1. PICK i \in 1..n : FirstBest(q, i) /\ b.winner = q[i] /\ b.score = Score(q[i])
    BY <1>7
  <2>2. CASE Score(x) > Score(q[i])
    <3>1. FirstBest(r, n + 1)
      BY <1>2, <1>3, <1>4, <1>5, <2>1, <2>2 DEF FirstBest, n
    <3>2. Consider(b, x).winner = x /\ Consider(b, x).score = Score(x)
      BY <2>1, <2>2 DEF Consider, Score
    <3>3. n + 1 \in 1..Len(r)
      BY <1>2, <1>3
    <3>4. Consider(b, x).winner = r[n + 1] /\ Consider(b, x).score = Score(r[n + 1])
      BY <1>3, <1>5, <3>2
    <3> QED
      BY <3>1, <3>3, <3>4 DEF BestOf, r
  <2>3. CASE ~(Score(x) > Score(q[i]))
    <3>1. FirstBest(r, i)
      <4>1. /\ i \in 1..n /\ Score(r[i]) = Score(q[i]) /\ Score(q[i]) \in Nat
            /\ Score(r[i]) > 0
        BY <1>4, <2>1 DEF FirstBest
      <4>2. \A j \in 1 .. n + 1 : Score(r[j]) <= Score(r[i])
        <5>1. \A j \in 1..n : Score(r[j]) <= Score(r[i])
          BY <1>4, <2>1, <4>1 DEF FirstBest, n
        <5>2. Score(r[n + 1]) <= Score(r[i])
          BY <1>5, <2>3, <4>1
        <5>3. \A j \in 1 .. n + 1 : j \in 1..n \/ j = n + 1
          BY <1>2
        <5> QED
          BY <5>1, <5>2, <5>3
      <4>3. \A j \in 1 .. i - 1 : Score(r[j]) < Score(r[i])
        <5>1. \A j \in 1 .. i - 1 : j \in 1..n
          BY <1>2, <4>1
        <5> QED
          BY <1>4, <2>1, <4>1, <5>1 DEF FirstBest
      <4> QED
        BY <1>3, <4>1, <4>2, <4>3 DEF FirstBest
    <3>2. Consider(b, x) = [b EXCEPT !.digest = Digest(0, x)]
      BY <2>1, <2>3 DEF Consider, Score
    <3>3. Consider(b, x).winner = r[i] /\ Consider(b, x).score = Score(r[i])
      BY <1>3, <2>1, <3>2
    <3>4. i \in 1..Len(r)
      BY <1>2, <1>3
    <3> QED
      BY <3>1, <3>3, <3>4 DEF BestOf, r
  <2> QED
    BY <2>2, <2>3
<1> QED
  BY <1>6, <1>7 DEF BestOf, n

\* The invariant of the routes.
RouteInv ==
  /\ IInv
  /\ best \in [Goroutines -> Bests]
  /\ \A g \in Goroutines : pc[g] = "read" => BestOf(got[g], best[g])

\* Route begins without a winner.
LEMMA RouteInitOK == RouteInit => RouteInv
<1> SUFFICES ASSUME RouteInit PROVE RouteInv
  OBVIOUS
<1>1. IInv
  BY InitOK DEF RouteInit
<1>2. best \in [Goroutines -> Bests]
  BY DEF RouteInit, NoWinner, Bests
<1>3. \A g \in Goroutines : pc[g] # "read"
  BY DEF RouteInit, Init
<1> QED
  BY <1>1, <1>2, <1>3 DEF RouteInv

\* A call that begins has read nothing, and has no winner.
LEMMA BeginCallKeeps ==
  ASSUME RouteInv, NEW g \in Goroutines, NEW c \in Calls, BeginCall(g, c)
  PROVE  RouteInv'
<1>1. IInv /\ Begin(g, c) /\ best \in [Goroutines -> Bests]
      /\ best' = [best EXCEPT ![g] = NoWinner]
  BY DEF RouteInv, BeginCall
<1>2. IInv'
  BY <1>1, BeginKeeps
<1>3. best' \in [Goroutines -> Bests]
  <2>1. NoWinner \in Bests
    BY DEF NoWinner, Bests
  <2> QED
    BY <1>1, <2>1
<1>4. got' = got /\ \E p \in {"read", "search"} : pc' = [pc EXCEPT ![g] = p]
  BY <1>1 DEF Begin, Load
<1>5. ASSUME NEW q \in Goroutines, pc'[q] = "read"
      PROVE  BestOf(got'[q], best'[q])
  <2>1. CASE q = g
    <3>1. got'[q] = <<>>
      BY <1>1, <1>4, <2>1 DEF IInv, LocalOK, CallOK, Begin, InCall
    <3>2. best'[q] = [NoWinner EXCEPT !.digest = best'[q].digest]
      BY <1>1, <2>1 DEF NoWinner
    <3> QED
      BY <3>1, <3>2 DEF BestOf
  <2>2. CASE q # g
    <3>1. pc[q] = "read" /\ got'[q] = got[q] /\ best'[q] = best[q]
      BY <1>1, <1>4, <1>5, <2>2 DEF IInv, PerGoroutine
    <3> QED
      BY <3>1 DEF RouteInv
  <2> QED
    BY <2>1, <2>2
<1> QED
  BY <1>2, <1>3, <1>5 DEF RouteInv

\* The loop considers the node that is read.
LEMMA CompareKeeps ==
  ASSUME RouteInv, NEW g \in Goroutines, Compare(g)
  PROVE  RouteInv'
<1>1. IInv /\ ReadMember(g) /\ best \in [Goroutines -> Bests]
      /\ best' = [best EXCEPT ![g] = Consider(@, Last(got'[g]))]
  BY DEF RouteInv, Compare
<1>2. IInv' /\ pc' = pc
  BY <1>1, ReadMemberKeeps
<1>3. PICK x \in Cells : got' = [got EXCEPT ![g] = Append(@, x)]
  BY <1>1, ReadMemberKeeps
<1>4. got[g] \in Seq(Cells) /\ DOMAIN got = Goroutines /\ pc[g] = "read"
  BY <1>1 DEF IInv, PerGoroutine, LocalOK, SlicesOK, ReadMember
<1>5. got'[g] = Append(got[g], x)
  BY <1>3, <1>4
<1>6. Last(got'[g]) = x
  BY <1>4, <1>5 DEF Last
<1>7. best[g] \in Bests /\ best'[g] = Consider(best[g], x)
  BY <1>1, <1>6
<1>8. best' \in [Goroutines -> Bests]
  <2>1. Consider(best[g], x) \in Bests
    BY <1>7, ConsiderType
  <2> QED
    BY <1>1, <1>6, <2>1
<1>9. ASSUME NEW q \in Goroutines, pc'[q] = "read"
      PROVE  BestOf(got'[q], best'[q])
  <2>1. CASE q = g
    <3>1. BestOf(got[g], best[g])
      BY <1>4 DEF RouteInv
    <3>2. BestOf(Append(got[g], x), Consider(best[g], x))
      BY <1>4, <1>7, <3>1, ConsiderKeepsBest
    <3> QED
      BY <1>5, <1>7, <2>1, <3>2
  <2>2. CASE q # g
    <3>1. pc[q] = "read" /\ got'[q] = got[q] /\ best'[q] = best[q]
      BY <1>1, <1>2, <1>3, <1>4, <1>9, <2>2
    <3> QED
      BY <3>1 DEF RouteInv
  <2> QED
    BY <2>1, <2>2
<1> QED
  BY <1>2, <1>8, <1>9 DEF RouteInv

\* Route returns.
LEMMA RouteReturnsKeeps ==
  ASSUME RouteInv, NEW g \in Goroutines, RouteReturns(g)
  PROVE  RouteInv'
<1>1. IInv /\ Answer(g, got[g]) /\ best \in [Goroutines -> Bests]
      /\ best' = [best EXCEPT ![g] = NoWinner]
  BY DEF RouteInv, RouteReturns, ReadAll
<1>2. IInv' /\ pc' = [pc EXCEPT ![g] = "idle"]
  BY <1>1, AnswerKeeps
<1>3. best' \in [Goroutines -> Bests]
  <2>1. NoWinner \in Bests
    BY DEF NoWinner, Bests
  <2> QED
    BY <1>1, <2>1
<1>4. got' = [got EXCEPT ![g] = <<>>]
  BY <1>1 DEF Answer, Finish
<1>5. ASSUME NEW q \in Goroutines, pc'[q] = "read"
      PROVE  BestOf(got'[q], best'[q])
  <2>1. q # g /\ pc[q] = "read"
    BY <1>1, <1>2, <1>5 DEF IInv, PerGoroutine
  <2>2. got'[q] = got[q] /\ best'[q] = best[q]
    BY <1>1, <1>4, <2>1 DEF IInv, PerGoroutine
  <2> QED
    BY <2>1, <2>2 DEF RouteInv
<1> QED
  BY <1>2, <1>3, <1>5 DEF RouteInv

\* The other calls do not touch the routes.
LEMMA OtherCallsKeep ==
  ASSUME RouteInv, NEW g \in Goroutines, SearchStep(g), UNCHANGED best
  PROVE  RouteInv'
<1>1. /\ IInv' /\ pc'[g] # "read"
      /\ \A q \in Goroutines : q # g => pc'[q] = pc[q] /\ got'[q] = got[q]
  BY SearchStepKeeps DEF RouteInv
<1>2. best' \in [Goroutines -> Bests]
  BY DEF RouteInv, Bests, Cells
<1>3. ASSUME NEW q \in Goroutines, pc'[q] = "read"
      PROVE  BestOf(got'[q], best'[q])
  <2>1. q # g /\ pc[q] = "read" /\ got'[q] = got[q] /\ best'[q] = best[q]
    BY <1>1, <1>3
  <2> QED
    BY <2>1 DEF RouteInv
<1> QED
  BY <1>1, <1>2, <1>3 DEF RouteInv

\* A step in which nothing changes.
LEMMA RouteStutter ==
  ASSUME RouteInv, UNCHANGED routeVars
  PROVE  RouteInv'
<1>1. UNCHANGED vars /\ best' = best /\ pc' = pc /\ got' = got
  BY DEF routeVars, vars, local
<1>2. IInv'
  BY <1>1, StutterKeeps DEF RouteInv
<1>3. best' \in [Goroutines -> Bests]
      /\ \A g \in Goroutines : pc'[g] = "read" => BestOf(got'[g], best'[g])
  BY <1>1 DEF RouteInv, Bests, Cells
<1> QED
  BY <1>2, <1>3 DEF RouteInv

\* Every step keeps the invariant.
LEMMA RouteNextKeeps == RouteInv /\ [RouteNext]_routeVars => RouteInv'
<1> SUFFICES ASSUME RouteInv, [RouteNext]_routeVars PROVE RouteInv'
  OBVIOUS
<1>1. ASSUME NEW g \in Goroutines, NEW c \in Calls, BeginCall(g, c) PROVE RouteInv'
  BY <1>1, BeginCallKeeps
<1>2. ASSUME NEW g \in Goroutines, RouteStep(g) PROVE RouteInv'
  <2>1. CASE SearchStep(g) /\ UNCHANGED best
    BY <2>1, OtherCallsKeep
  <2>2. CASE Compare(g)
    BY <2>2, CompareKeeps
  <2>3. CASE RouteReturns(g)
    BY <2>3, RouteReturnsKeeps
  <2> QED
    BY <1>2, <2>1, <2>2, <2>3 DEF RouteStep
<1>3. CASE UNCHANGED routeVars
  BY <1>3, RouteStutter
<1> QED
  BY <1>1, <1>2, <1>3 DEF RouteNext

\* The invariant of every behaviour, from which the theorems follow.
THEOREM RouteInvariant == RouteSpec => []RouteInv
<1>1. RouteInit => RouteInv
  BY RouteInitOK
<1>2. RouteInv /\ [RouteNext]_routeVars => RouteInv'
  BY RouteNextKeeps
<1> QED
  BY <1>1, <1>2, PTL DEF RouteSpec

\* Route returns the first node of the highest score among those that it read,
\* even while the cells of its slice change.
THEOREM RouteCorrect == RouteSpec => []RouteIsBest
<1>1. RouteInv => RouteIsBest
  BY DEF RouteInv, BestOf, RouteIsBest
<1> QED
  BY <1>1, RouteInvariant, PTL

-----------------------------------------------------------------------------
(* What Route returns for all the members.                                 *)

\* A loop over the first k nodes of q.
LoopOver(q, k, f) ==
  f = [i \in 0..k |-> IF i = 0 THEN NoWinner ELSE Consider(f[i - 1], q[i])]

\* The loop is defined for every number of nodes: for the least one for which it
\* is not, it would be one node shorter.
LEMMA LoopExists ==
  ASSUME NEW q, NEW n \in Nat
  PROVE  \E f : LoopOver(q, n, f)
<1> DEFINE T == {k \in Nat : ~ \E f : LoopOver(q, k, f)}
<1>1. SUFFICES ASSUME T # {} PROVE FALSE
  OBVIOUS
<1>2. PICK k \in T : \A j \in T : k <= j
  <2>1. T \in SUBSET Nat
    OBVIOUS
  <2> HIDE DEF T
  <2> QED
    BY <1>1, <2>1, LeastNumber
<1>3. k \in Nat /\ ~ \E f : LoopOver(q, k, f)
  BY <1>2
<1>4. CASE k = 0
  <2>1. LoopOver(q, 0, [i \in 0..0 |-> NoWinner])
    BY DEF LoopOver
  <2> QED
    BY <1>3, <1>4, <2>1
<1>5. CASE k # 0
  <2>1. k - 1 \in Nat /\ ~ (k <= k - 1)
    BY <1>3, <1>5
  <2>2. PICK f : LoopOver(q, k - 1, f)
    BY <1>2, <2>1
  <2> DEFINE h == [i \in 0..k |-> IF i = k THEN Consider(f[k - 1], q[k]) ELSE f[i]]
  <2>3. ASSUME NEW i \in 0..k
        PROVE  h[i] = IF i = 0 THEN NoWinner ELSE Consider(h[i - 1], q[i])
    <3>1. CASE i = 0
      BY <1>3, <1>5, <2>1, <2>2, <3>1 DEF LoopOver
    <3>2. CASE i # 0 /\ i # k
      <4>1. i \in 0 .. k - 1 /\ i - 1 \in 0..k /\ i - 1 # k
        BY <1>3, <3>2
      <4>2. h[i] = f[i] /\ h[i - 1] = f[i - 1]
        BY <3>2, <4>1
      <4>3. f[i] = Consider(f[i - 1], q[i])
        BY <2>2, <3>2, <4>1 DEF LoopOver
      <4> QED
        BY <3>2, <4>2, <4>3
    <3>3. CASE i = k
      <4>1. k - 1 \in 0..k /\ k - 1 # k
        BY <2>1
      <4>2. h[k] = Consider(f[k - 1], q[k]) /\ h[k - 1] = f[k - 1]
        BY <3>3, <4>1
      <4> QED
        BY <1>5, <3>3, <4>2
    <3> QED
      BY <3>1, <3>2, <3>3
  <2>4. h = [i \in 0..k |-> h[i]]
    OBVIOUS
  <2> HIDE DEF h
  <2>5. LoopOver(q, k, h)
    BY <2>3, <2>4 DEF LoopOver
  <2> QED
    BY <1>3, <2>5
<1> QED
  BY <1>4, <1>5

\* What the loop computes is the best of the nodes it has gone over.
LEMMA LoopIsBest ==
  ASSUME NEW q \in Seq(Cells), NEW f, LoopOver(q, Len(q), f)
  PROVE  BestOf(q, f[Len(q)])
<1> DEFINE n == Len(q)
           Right(k) == f[k] \in Bests /\ BestOf(SubSeq(q, 1, k), f[k])
           T == {k \in 0..n : ~ Right(k)}
<1>1. n \in Nat
  OBVIOUS
<1>2. f[0] = NoWinner /\ \A i \in 1..n : f[i] = Consider(f[i - 1], q[i])
  BY <1>1 DEF LoopOver
<1>3. ASSUME T # {} PROVE FALSE
  <2>1. PICK k \in T : \A j \in T : k <= j
    <3>1. T \in SUBSET Nat
      OBVIOUS
    <3> HIDE DEF T
    <3> QED
      BY <1>3, <3>1, LeastNumber
  <2>2. k \in 0..n /\ ~ Right(k)
    BY <2>1
  <2>3. CASE k = 0
    <3>1. SubSeq(q, 1, 0) = <<>>
      BY SubSeqEmpty
    <3>2. NoWinner \in Bests /\ BestOf(<<>>, NoWinner)
      BY DEF NoWinner, Bests, BestOf
    <3> QED
      BY <1>2, <2>2, <2>3, <3>1, <3>2
  <2>4. CASE k # 0
    <3> DEFINE j == k - 1
               r == SubSeq(q, 1, j)
    <3>1. j \in 0..n /\ j \in Nat /\ k = j + 1 /\ k \in 1..n /\ ~ (k <= j)
      BY <1>1, <2>2, <2>4
    <3>2. Right(j)
      BY <2>1, <3>1
    <3>3. f[k] = Consider(f[j], q[k]) /\ q[k] \in Cells
      BY <1>2, <3>1, ElementOfSeq
    <3>4. /\ r \in Seq(Cells) /\ Len(r) = j
          /\ \A i \in 1..j : r[i] = q[i]
      <4>1. \A i \in 1..j : q[i] \in Cells /\ 1 + i - 1 = i
        BY <1>1, <3>1, ElementOfSeq
      <4>2. /\ r \in Seq(Cells) /\ Len(r) = IF 1 <= j THEN j - 1 + 1 ELSE 0
            /\ \A i \in 1 .. j - 1 + 1 : r[i] = q[1 + i - 1]
        <5>1. 1 \in Int /\ j \in Int
          BY <3>1
        <5> HIDE DEF j
        <5> QED
          BY <4>1, <5>1, SubSeqProperties
      <4>3. j - 1 + 1 = j /\ (~ (1 <= j) => j = 0)
        BY <3>1
      <4> HIDE DEF r, j
      <4> QED
        BY <3>1, <4>1, <4>2, <4>3
    <3>5. SubSeq(q, 1, k) = Append(r, q[k])
      <4> DEFINE u == SubSeq(q, 1, k)
                 v == Append(r, q[k])
      <4>1. \A i \in 1..k : q[i] \in Cells /\ 1 + i - 1 = i
        BY <1>1, <3>1, ElementOfSeq
      <4>2. /\ u \in Seq(Cells) /\ Len(u) = IF 1 <= k THEN k - 1 + 1 ELSE 0
            /\ \A i \in 1 .. k - 1 + 1 : u[i] = q[1 + i - 1]
        BY <3>1, <4>1, SubSeqProperties
      <4>3. k - 1 + 1 = k /\ 1 <= k
        BY <3>1
      <4> HIDE DEF r, j, u
      <4>4. Len(u) = k /\ \A i \in 1..k : u[i] = q[i]
        BY <4>1, <4>2, <4>3
      <4>5. /\ v \in Seq(Cells) /\ Len(v) = k
            /\ \A i \in 1..k : v[i] = q[i]
        <5>1. v \in Seq(Cells) /\ Len(v) = j + 1 /\ v[j + 1] = q[k] /\ \A i \in 1..j : v[i] = r[i]
          BY <3>3, <3>4
        <5>2. \A i \in 1..k : i \in 1..j \/ i = j + 1
          BY <3>1
        <5> HIDE DEF v
        <5> QED
          BY <3>1, <3>4, <5>1, <5>2
      <4> HIDE DEF v
      <4>6. u = v
        BY <4>2, <4>4, <4>5, SeqEqual
      <4> QED
        BY <4>6 DEF u, v
    <3>6. Right(k)
      <4>1. BestOf(r, f[j]) /\ f[j] \in Bests
        BY <3>2
      <4> HIDE DEF r, j
      <4>2. BestOf(Append(r, q[k]), Consider(f[j], q[k]))
        BY <3>3, <3>4, <4>1, ConsiderKeepsBest
      <4>3. Consider(f[j], q[k]) \in Bests
        BY <3>3, <4>1, ConsiderType
      <4> QED
        BY <3>3, <3>5, <4>2, <4>3
    <3> QED
      BY <2>2, <3>6
  <2> QED
    BY <2>3, <2>4
<1>4. Right(n)
  BY <1>1, <1>3
<1> HIDE DEF T
<1> QED
  BY <1>4, SubSeqFull

\* w wins the members of S: the least one of the highest score above zero.
Wins(S, w) ==
  \/ w = None /\ \A x \in S : Score(x) = 0
  \/ /\ w \in S /\ Score(w) > 0
     /\ \A x \in S : Score(x) <= Score(w) /\ (x < w => Score(x) < Score(w))

\* The best of the members in order is the one that wins.
LEMMA BestWins ==
  ASSUME NEW S \in SUBSET Members, NEW b, BestOf(Sorted(S), b)
  PROVE  Wins(S, b.winner)
<1> DEFINE n == Cardinality(S)
           q == Sorted(S)
<1>1. /\ n \in Nat /\ q \in [1..n -> S]
      /\ \A i \in 1..n : q[i] \in S /\ q[i] \in Nat
      /\ \A i, j \in 1..n : i < j => q[i] < q[j]
      /\ \A x \in S : \E i \in 1..n : q[i] = x
  BY SortedFacts
<1> HIDE DEF n, q
<1>2. Len(q) = n
  BY <1>1
<1>3. CASE /\ b = [NoWinner EXCEPT !.digest = b.digest]
           /\ \A j \in 1..n : Score(q[j]) = 0
  <2>1. b.winner = None
    BY <1>3 DEF NoWinner
  <2>2. \A x \in S : Score(x) = 0
    BY <1>1, <1>3
  <2> QED
    BY <2>1, <2>2 DEF Wins
<1>4. CASE \E i \in 1..n : FirstBest(q, i) /\ b.winner = q[i] /\ b.score = Score(q[i])
  <2>1. PICK i \in 1..n : FirstBest(q, i) /\ b.winner = q[i]
    BY <1>4
  <2>2. q[i] \in S /\ q[i] \in Nat /\ Score(q[i]) > 0
    BY <1>1, <2>1 DEF FirstBest
  <2>3. ASSUME NEW x \in S
        PROVE  Score(x) <= Score(q[i]) /\ (x < q[i] => Score(x) < Score(q[i]))
    <3>1. PICK j \in 1..n : q[j] = x
      BY <1>1
    <3>2. Score(x) <= Score(q[i])
      BY <1>2, <2>1, <3>1 DEF FirstBest
    <3>3. ASSUME x < q[i] PROVE j \in 1 .. i - 1
      <4>1. ~ (i < j) /\ i # j
        BY <1>1, <2>2, <3>1, <3>3
      <4> QED
        BY <1>1, <4>1
    <3> QED
      BY <2>1, <3>1, <3>2, <3>3 DEF FirstBest
  <2> QED
    BY <2>1, <2>2, <2>3 DEF Wins
<1> QED
  BY <1>2, <1>3, <1>4 DEF BestOf, q

\* One member at most wins.
LEMMA WinsOnce ==
  ASSUME NEW S \in SUBSET Members, NEW v, NEW w, Wins(S, v), Wins(S, w)
  PROVE  v = w
<1>1. \A x \in S : Score(x) \in Nat /\ x \in Nat
  BY ScoreType, MembersAssumption DEF Cells
<1>2. CASE \A x \in S : Score(x) = 0
  BY <1>2 DEF Wins
<1>3. CASE ~ \A x \in S : Score(x) = 0
  <2>1. /\ v \in S /\ w \in S
        /\ Score(v) <= Score(w) /\ Score(w) <= Score(v)
        /\ ~ (v < w /\ ~ (Score(v) < Score(w)))
        /\ ~ (w < v /\ ~ (Score(w) < Score(v)))
    BY <1>3 DEF Wins
  <2>2. Score(v) \in Nat /\ Score(w) \in Nat /\ v \in Nat /\ w \in Nat
    BY <1>1, <2>1
  <2> HIDE DEF Score
  <2> QED
    BY <2>1, <2>2
<1> QED
  BY <1>2, <1>3

\* Route returns the member that wins.
LEMMA RouteOfWins ==
  ASSUME NEW S \in SUBSET Members
  PROVE  Wins(S, RouteOf(Sorted(S)))
<1> DEFINE q == Sorted(S)
           n == Len(q)
           loop == CHOOSE f : LoopOver(q, n, f)
<1>1. q \in Seq(Cells)
  <2>1. Cardinality(S) \in Nat /\ q \in [1..Cardinality(S) -> S] /\ S \subseteq Cells
    BY SortedFacts DEF Cells
  <2> HIDE DEF q
  <2>2. q \in [1..Cardinality(S) -> Cells]
    BY <2>1
  <2> QED
    BY <2>1, <2>2
<1>2. LoopOver(q, n, loop)
  <2>1. n \in Nat
    BY <1>1
  <2> HIDE DEF q, n
  <2>2. \E f : LoopOver(q, n, f)
    BY <2>1, LoopExists
  <2> QED
    BY <2>2
<1>3. RouteOf(q) = loop[n].winner
  BY DEF RouteOf, LoopOver
<1> HIDE DEF loop
<1>4. BestOf(q, loop[n])
  <2> HIDE DEF q
  <2> QED
    BY <1>1, <1>2, LoopIsBest
<1> QED
  BY <1>3, <1>4, BestWins

-----------------------------------------------------------------------------
(* The partitioner uses the set, and adds nothing to its steps.            *)

\* Every step of the partitioner is one of the set.
LEMMA RouteNextIsNext == [RouteNext]_routeVars => [Next]_vars
<1>1. ASSUME NEW g \in Goroutines, NEW c \in Calls, BeginCall(g, c) PROVE Next
  BY <1>1 DEF BeginCall, Next
<1>2. ASSUME NEW g \in Goroutines, RouteStep(g) PROVE Next
  <2>1. Step(g)
    BY <1>2 DEF RouteStep, Compare, RouteReturns, Step
  <2> QED
    BY <2>1 DEF Next
<1>3. UNCHANGED routeVars => UNCHANGED vars
  BY DEF routeVars
<1> QED
  BY <1>1, <1>2, <1>3 DEF RouteNext

\* AddNode, RemoveNode and Route are calls of Add, Delete and Members, so that
\* whatever holds of the ordered set holds of the partitioner.
THEOREM RouteUsesSet == RouteSpec => Spec
<1>1. RouteInit => Init
  BY DEF RouteInit
<1> QED
  BY <1>1, RouteNextIsNext, PTL DEF RouteSpec, Spec

\* The nodes of a partitioner are in bounds of their arrays, whatever calls
\* overlap.
THEOREM TypeCorrect == RouteSpec => []TypeOK
BY RouteUsesSet, SliceTypes, PTL

\* AddNode, RemoveNode and Route that do not overlap work on the nodes that an
\* atomic set would hold.
THEOREM SequentialNodes == RouteSpec => []SequentialIsExact
BY RouteUsesSet, SequentialCalls, PTL

\* Route sees the nodes of an atomic set while AddNode appends.
THEOREM RoutesUndisturbed == RouteSpec => []AppendingDisturbsNobody
BY RouteUsesSet, ReadersUndisturbed, PTL

-----------------------------------------------------------------------------
(* Where work goes.                                                        *)

\* A route that no change of the nodes overlaps goes to the member that wins.
LEMMA ReadAllWins ==
  ASSUME RouteInv, ContentInv, NEW g \in Goroutines, ReadAll(g), overlap = "none"
  PROVE  best[g].winner = RouteOf(Sorted(members))
<1>1. IInv /\ pc[g] = "read" /\ BestOf(got[g], best[g])
  BY DEF RouteInv, ReadAll
<1>2. members \in SUBSET Members
  BY <1>1 DEF IInv, HistoryOK
<1>3. ReadOK(g)
  BY DEF ContentInv, Quiet, QuietOK
<1>4. PICK S \in SUBSET Members : ReadIn(g, S)
  BY <1>1, <1>3 DEF ReadOK
<1>5. S = members
  BY <1>4 DEF ReadIn
<1>6. got[g] = Sorted(members)
  BY <1>1, <1>4, <1>5, ReadAllFacts
<1>7. Wins(members, best[g].winner)
  BY <1>1, <1>2, <1>6, BestWins
<1>8. Wins(members, RouteOf(Sorted(members)))
  BY <1>2, RouteOfWins
<1> QED
  BY <1>2, <1>7, <1>8, WinsOnce

\* Partitioners that were told of the same nodes, in whatever order and with
\* whatever nodes in between that have left, route alike, ties included: what
\* Route returns is a function of the set of nodes.
THEOREM EqualNodesRouteAlike == RouteSpec => RoutesAlike
<1>1. RouteInv /\ ContentInv =>
        \A g \in Goroutines :
          ReadAll(g) /\ overlap = "none" => best[g].winner = RouteOf(Sorted(members))
  BY ReadAllWins
<1>2. RouteSpec => []ContentInv
  BY RouteUsesSet, ContentInvariant, PTL
<1> QED
  BY <1>1, <1>2, RouteInvariant, PTL DEF RoutesAlike

\* Only Swap changes the members: it adds one or removes one.
LEMMA MembersGrowOrShrink ==
  ASSUME [Next]_vars
  PROVE  members \subseteq members' \/ members' \subseteq members
<1>1. ASSUME NEW g \in Goroutines, Swap(g)
      PROVE  members \subseteq members' \/ members' \subseteq members
  BY <1>1 DEF Swap
<1>2. ASSUME NEW g \in Goroutines, NEW c \in Calls, Begin(g, c)
      PROVE  members' = members
  BY <1>2 DEF Begin
<1>3. ASSUME NEW g \in Goroutines, Step(g), ~Swap(g)
      PROVE  members' = members
  BY <1>3 DEF Step, SearchStep, Probe, NothingToDo, BeginInsert, BeginDelete, Insert,
              Change, MoveCell, Retry, ReadMember, ReadAll, Answer, history
<1>4. UNCHANGED vars => members' = members
  BY DEF vars, history
<1> QED
  BY <1>1, <1>2, <1>3, <1>4 DEF Next

\* Who wins among some members wins among fewer of them, unless it is not there.
LEMMA WinsFewer ==
  ASSUME NEW S, NEW T, T \subseteq S, NEW w, Wins(S, w), w \notin S \ T
  PROVE  Wins(T, w)
BY DEF Wins

\* When the nodes change, the route does not, except to a node that joined or
\* away from one that left.
LEMMA WinnerMoves ==
  ASSUME NEW S \in SUBSET Members, NEW T \in SUBSET Members,
         S \subseteq T \/ T \subseteq S,
         RouteOf(Sorted(S)) # RouteOf(Sorted(T))
  PROVE  RouteOf(Sorted(T)) \in T \ S \/ RouteOf(Sorted(S)) \in S \ T
<1> DEFINE old == RouteOf(Sorted(S))
           new == RouteOf(Sorted(T))
<1>1. Wins(S, old) /\ Wins(T, new)
  BY RouteOfWins
<1> HIDE DEF old, new
<1>2. CASE S \subseteq T /\ new \notin T \ S
  <2>1. Wins(S, new)
    BY <1>1, <1>2, WinsFewer
  <2> QED
    BY <1>1, <2>1, WinsOnce DEF old, new
<1>3. CASE T \subseteq S /\ old \notin S \ T
  <2>1. Wins(T, old)
    BY <1>1, <1>3, WinsFewer
  <2> QED
    BY <1>1, <2>1, WinsOnce DEF old, new
<1> QED
  BY <1>2, <1>3 DEF old, new

\* A node that joins takes work from others, one that leaves gives its work to
\* others, and no work moves between the nodes that stay.
THEOREM WorkStays == RouteSpec => OnlyChangedNodesMoveWork
<1>1. RouteInv /\ RouteInv' /\ [RouteNext]_routeVars =>
        LET old == RouteOf(Sorted(members))
            new == RouteOf(Sorted(members'))
        IN  old # new => new \in members' \ members \/ old \in members \ members'
  <2> SUFFICES ASSUME RouteInv, RouteInv', [RouteNext]_routeVars,
                      RouteOf(Sorted(members)) # RouteOf(Sorted(members'))
               PROVE  \/ RouteOf(Sorted(members')) \in members' \ members
                      \/ RouteOf(Sorted(members)) \in members \ members'
    OBVIOUS
  <2>1. members \in SUBSET Members /\ members' \in SUBSET Members /\ IInv
    BY DEF RouteInv, IInv, HistoryOK
  <2>2. members \subseteq members' \/ members' \subseteq members
    BY <2>1, RouteNextIsNext, MembersGrowOrShrink
  <2> QED
    BY <2>1, <2>2, WinnerMoves
<1> QED
  BY <1>1, RouteInvariant, PTL DEF OnlyChangedNodesMoveWork, RouteSpec
=============================================================================
