---------------------------- MODULE Partitioner ----------------------------
(***************************************************************************)
(* The partitioner of src/internal/cluster/partition.go, on top of the     *)
(* ordered set of node IDs: AddNode and RemoveNode are Add and Delete, and *)
(* Route compares the nodes that Members returns, one after the other, by  *)
(* their hash with the workload.  One workload is modelled; routes of      *)
(* different workloads do not depend on each other.                        *)
(***************************************************************************)
EXTENDS OrderedSet, SequencesExt

CONSTANTS
  Hash,        \* Hash[m]: what node m and the workload add to a digest
  HashSize     \* bound: the number of hashes

ASSUME HashAssumption ==
  HashSize \in Nat \ {0} /\ Hash \in [Members \cup {Zero} -> 0 .. HashSize - 1]

VARIABLE best  \* per goroutine: winner and score of the loop of Route

routeVars == <<vars, best>>

-----------------------------------------------------------------------------
\* xxhash: the digest d after node and workload were written to it.
Digest(d, node) == (d + Hash[node]) % HashSize

NoWinner == [winner |-> None, score |-> 0, digest |-> 0]

\* Fault seeded to test OnlyChangedNodesMoveWork: the digest is reset only after
\* a node that does not win.
ConsiderResetLate(b, node) ==
  LET d == Digest(b.digest, node)
  IN  IF d > b.score
      THEN [winner |-> node, score |-> d, digest |-> d]
      ELSE [b EXCEPT !.digest = 0]

\* Fault seeded to test RouteIsBest: the score of the winner is not kept.
ConsiderWithoutScore(b, node) ==
  LET d == Digest(0, node)
  IN  IF d > b.score
      THEN [winner |-> node, score |-> 0, digest |-> d]
      ELSE [b EXCEPT !.digest = d]

\* The body of the loop.
Consider(b, node) ==
  LET d == Digest(0, node)
  IN  IF d > b.score
      THEN [winner |-> node, score |-> d, digest |-> d]
      ELSE [b EXCEPT !.digest = d]

\* What Route returns for a sequence of nodes.
RouteOf(nodes) ==
  LET loop[i \in 0..Len(nodes)] ==
        IF i = 0 THEN NoWinner ELSE Consider(loop[i - 1], nodes[i])
  IN  loop[Len(nodes)].winner

RouteInit == Init /\ best = [g \in Goroutines |-> NoWinner]

BeginCall(g, c) ==
  /\ Begin(g, c)
  /\ best' = [best EXCEPT ![g] = NoWinner]

Compare(g) ==
  /\ ReadMember(g)
  /\ best' = [best EXCEPT ![g] = Consider(@, Last(got'[g]))]

\* Route panics if there are no nodes, and returns the winner otherwise.
RouteReturns(g) ==
  /\ ReadAll(g)
  /\ best' = [best EXCEPT ![g] = NoWinner]

RouteStep(g) ==
  \/ SearchStep(g) /\ UNCHANGED best
  \/ Compare(g) \/ RouteReturns(g)

RouteNext ==
  \E g \in Goroutines :
    \/ \E c \in Calls : BeginCall(g, c)
    \/ RouteStep(g)

RouteSpec == RouteInit /\ [][RouteNext]_routeVars

\* Goroutines that are in a call go on.
RouteFairness == \A g \in Goroutines : WF_routeVars(RouteStep(g))

FairRouteSpec == RouteSpec /\ RouteFairness

-----------------------------------------------------------------------------
(* Properties.                                                             *)

Score(node) == Digest(0, node)

\* Position i of q holds the first node of the highest score above zero.
FirstBest(q, i) ==
  /\ Score(q[i]) > 0
  /\ \A j \in 1..Len(q) : Score(q[j]) <= Score(q[i])
  /\ \A j \in 1..i - 1 : Score(q[j]) < Score(q[i])

\* However the cells of the slice change while it reads them, Route is on its
\* way to the first node of the highest score among those that it has read; it
\* has no winner only if all their scores are zero.
RouteIsBest ==
  \A g \in Goroutines :
    pc[g] = "read" =>
      \/ /\ best[g] = [NoWinner EXCEPT !.digest = best[g].digest]
         /\ \A j \in 1..Len(got[g]) : Score(got[g][j]) = 0
      \/ \E i \in 1..Len(got[g]) :
           /\ FirstBest(got[g], i)
           /\ best[g].winner = got[g][i] /\ best[g].score = Score(got[g][i])

\* Partitioners that were told of the same nodes, in whatever order and with
\* whatever nodes in between that have left, route alike, ties included.
RoutesAlike ==
  [][\A g \in Goroutines :
       ReadAll(g) /\ overlap = "none" =>
         best[g].winner = RouteOf(Sorted(members))]_routeVars

\* A node that joins takes work from others, one that leaves gives its work to
\* others, and no work moves between the nodes that stay.
OnlyChangedNodesMoveWork ==
  [][LET old == RouteOf(Sorted(members))
         new == RouteOf(Sorted(members'))
     IN  old # new => \/ new \in members' \ members
                      \/ old \in members \ members']_routeVars
=============================================================================
