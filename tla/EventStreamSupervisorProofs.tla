-------------------- MODULE EventStreamSupervisorProofs --------------------
(***************************************************************************)
(* Proofs about the supervisor of the event streams, for every number of   *)
(* streams, workers and requests.                                          *)
(*                                                                         *)
(* The supervisor's map of workers is exact: it changes in the same step   *)
(* as the goroutine it lists comes to be or is gone (MapIsExact), because  *)
(* the goroutine hands over its result on an unbuffered channel.  What the *)
(* supervisor does with the map is then true of the goroutines.            *)
(***************************************************************************)
EXTENDS EventStreamSupervisor, TLAPS

-----------------------------------------------------------------------------
(* The inductive invariant.                                                *)

\* A goroutine has a stream.
StreamKnown == \A w \in Workers : Live(w) => wstream[w] \in Streams

\* Nothing runs when Run has returned.
StoppedIsDrained == pc = "stopped" => Drained

\* An exchange was received when it is held, and is held until it is answered.
HeldOnce ==
  /\ held # None => held \in received
  /\ \A w \in Workers : wheld[w] # None => wheld[w] \in received /\ wheld[w] # held
  /\ \A v, w \in Workers : wheld[v] # None /\ wheld[v] = wheld[w] => v = w

HeldUntilAnswered ==
  \A x \in Exchanges :
    /\ x \notin received => answers[x] = 0
    /\ x \in received =>
         \/ answers[x] = 1 /\ held # x /\ \A w \in Workers : wheld[w] # x
         \/ answers[x] = 0 /\ (held = x \/ \E w \in Workers : wheld[w] = x)

IInv ==
  /\ TypeOK /\ MapIsExact /\ StreamKnown /\ StoppedIsDrained
  /\ HeldOnce /\ HeldUntilAnswered

-----------------------------------------------------------------------------
(* The parts of the invariant that the map and the exchanges need.         *)

WorkersInv == MapIsExact /\ StreamKnown
ExchangesInv == HeldOnce /\ HeldUntilAnswered

\* What is known of a worker in the map, and of one that is not.
LEMMA MapFacts ==
  ASSUME TypeOK, WorkersInv, NEW w \in Workers
  PROVE  /\ Live(w) => wstream[w] \in Streams /\ workers[wstream[w]] = w
         /\ \A k \in Streams : workers[k] = w => Live(w) /\ wstream[w] = k
BY DEF WorkersInv, MapIsExact, StreamKnown

\* A result that is received removes one worker, from the map and for good.
LEMMA ReceiveResultKeeps ==
  ASSUME TypeOK, WorkersInv, NEW w \in Workers, ReceiveResult(w)
  PROVE  /\ WorkersInv'
         /\ workers' \in [Streams -> Workers \cup {None}]
         /\ wpc' \in [Workers -> {Gone, "starting", "idle", "handle", "returned"}]
         /\ wstream' \in [Workers -> Streams \cup {None}]
         /\ wheld' = wheld
         /\ \A v \in Workers : wpc'[v] = "handle" <=> wpc[v] = "handle"
         /\ wshutdown' \in [Workers -> BOOLEAN] /\ werr' \in [Workers -> BOOLEAN]
<1>1. Live(w) /\ wstream[w] \in Streams /\ workers[wstream[w]] = w
  BY MapFacts DEF ReceiveResult, Live, Gone
<1>2. /\ workers' = [workers EXCEPT ![wstream[w]] = None]
      /\ wpc' = [wpc EXCEPT ![w] = Gone]
      /\ wstream' = [wstream EXCEPT ![w] = None]
      /\ wheld' = wheld /\ wpc[w] = "returned"
      /\ wshutdown' = [wshutdown EXCEPT ![w] = FALSE]
      /\ werr' = [werr EXCEPT ![w] = FALSE]
  BY DEF ReceiveResult
<1>3. /\ workers' \in [Streams -> Workers \cup {None}]
      /\ wpc' \in [Workers -> {Gone, "starting", "idle", "handle", "returned"}]
      /\ wstream' \in [Workers -> Streams \cup {None}]
      /\ wshutdown' \in [Workers -> BOOLEAN] /\ werr' \in [Workers -> BOOLEAN]
  BY <1>2 DEF TypeOK
<1>4. \A v \in Workers : wpc'[v] = "handle" <=> wpc[v] = "handle"
  BY <1>2 DEF TypeOK, Gone
<1>5. ASSUME NEW v \in Workers, v # w
      PROVE  /\ Live(v)' <=> Live(v)
             /\ wstream'[v] = wstream[v]
  BY <1>2, <1>5 DEF TypeOK, Live
<1>6. ~Live(w)' /\ wstream'[w] = None
  BY <1>2 DEF TypeOK, Live
<1>7. MapIsExact'
  <2>1. ASSUME NEW v \in Workers, NEW k \in Streams
        PROVE  workers'[k] = v <=> Live(v)' /\ wstream'[v] = k
    <3>1. workers'[k] = IF k = wstream[w] THEN None ELSE workers[k]
      BY <1>2 DEF TypeOK
    <3>2. workers[k] = v <=> Live(v) /\ wstream[v] = k
      BY DEF WorkersInv, MapIsExact
    <3> QED
      BY <1>1, <1>5, <1>6, <3>1, <3>2, NoneAssumption
  <2> QED
    BY <2>1 DEF MapIsExact, Live
<1>8. StreamKnown'
  BY <1>5, <1>6 DEF WorkersInv, StreamKnown
<1> QED
  BY <1>2, <1>3, <1>4, <1>7, <1>8 DEF WorkersInv

\* A step that changes neither the map nor which goroutines exist.
LEMMA SameWorkersKeep ==
  ASSUME WorkersInv, workers' = workers, wstream' = wstream,
         \A w \in Workers : wpc'[w] = Gone <=> wpc[w] = Gone
  PROVE  WorkersInv'
BY DEF WorkersInv, MapIsExact, StreamKnown, Live

\* A step that changes neither who holds an exchange nor the answers.
LEMMA SameExchangesKeep ==
  ASSUME ExchangesInv, held' = held, wheld' = wheld, received' = received,
         answers' = answers
  PROVE  ExchangesInv'
BY DEF ExchangesInv, HeldOnce, HeldUntilAnswered

\* The supervisor answers the exchange it holds, and lets go of it.
LEMMA RefuseKeeps ==
  ASSUME TypeOK, ExchangesInv, held # None, Refuse, wheld' = wheld,
         received' = received
  PROVE  /\ ExchangesInv' /\ answers' \in [Exchanges -> Nat]
         /\ held' = None /\ pc' = "signal"
<1>1. held \in Exchanges /\ held \in received
  BY DEF TypeOK, ExchangesInv, HeldOnce
<1>2. /\ answers' = [answers EXCEPT ![held] = @ + 1]
      /\ held' = None /\ pc' = "signal"
  BY DEF Refuse, Respond
<1>3. answers[held] = 0 /\ \A w \in Workers : wheld[w] # held
  BY <1>1 DEF ExchangesInv, HeldOnce, HeldUntilAnswered
<1>4. answers' \in [Exchanges -> Nat]
  BY <1>1, <1>2 DEF TypeOK
<1>5. /\ answers'[held] = 1
      /\ \A x \in Exchanges \ {held} : answers'[x] = answers[x]
  BY <1>1, <1>2, <1>3 DEF TypeOK
<1>6. HeldOnce'
  BY <1>2, NoneAssumption DEF ExchangesInv, HeldOnce
<1>7. HeldUntilAnswered'
  <2>1. ASSUME NEW x \in Exchanges
        PROVE  /\ x \notin received => answers'[x] = 0
               /\ x \in received =>
                    \/ answers'[x] = 1 /\ held' # x /\ \A w \in Workers : wheld[w] # x
                    \/ answers'[x] = 0 /\ (held' = x \/ \E w \in Workers : wheld[w] = x)
    <3>1. CASE x = held
      BY <1>1, <1>2, <1>3, <1>5, <3>1, NoneAssumption
    <3>2. CASE x # held
      BY <1>2, <1>5, <3>2, NoneAssumption DEF ExchangesInv, HeldUntilAnswered
    <3> QED
      BY <3>1, <3>2
  <2> QED
    BY <2>1 DEF HeldUntilAnswered
<1> QED
  BY <1>2, <1>4, <1>6, <1>7 DEF ExchangesInv

\* A worker answers the exchange it holds, and lets go of it.
LEMMA WorkerAnswers ==
  ASSUME TypeOK, ExchangesInv, NEW w \in Workers, wpc[w] = "handle",
         Respond(wheld[w]), wheld' = [wheld EXCEPT ![w] = None],
         held' = held, received' = received
  PROVE  ExchangesInv' /\ answers' \in [Exchanges -> Nat]
<1> DEFINE y == wheld[w]
<1>1. y \in Exchanges /\ y \in received /\ y # held /\ y # None
  BY DEF TypeOK, ExchangesInv, HeldOnce
<1>2. answers' = [answers EXCEPT ![y] = @ + 1]
  BY DEF Respond
<1>3. answers[y] = 0
  BY <1>1 DEF ExchangesInv, HeldUntilAnswered
<1>4. answers' \in [Exchanges -> Nat]
  BY <1>1, <1>2 DEF TypeOK
<1>5. /\ answers'[y] = 1
      /\ \A x \in Exchanges \ {y} : answers'[x] = answers[x]
  BY <1>1, <1>2, <1>3 DEF TypeOK
<1>6. /\ wheld'[w] = None
      /\ \A v \in Workers \ {w} : wheld'[v] = wheld[v] /\ wheld[v] # y
  BY <1>1 DEF TypeOK, ExchangesInv, HeldOnce
<1> HIDE DEF y
<1>7. HeldOnce'
  BY <1>6 DEF ExchangesInv, HeldOnce
<1>8. HeldUntilAnswered'
  <2>1. ASSUME NEW x \in Exchanges
        PROVE  /\ x \notin received => answers'[x] = 0
               /\ x \in received =>
                    \/ answers'[x] = 1 /\ held # x /\ \A v \in Workers : wheld'[v] # x
                    \/ answers'[x] = 0 /\ (held = x \/ \E v \in Workers : wheld'[v] = x)
    <3>1. CASE x = y
      BY <1>1, <1>5, <1>6, <3>1
    <3>2. CASE x # y
      <4>1. \A v \in Workers : wheld'[v] = x <=> wheld[v] = x
        BY <1>6, <3>2, NoneAssumption DEF y
      <4> QED
        BY <1>5, <3>2, <4>1 DEF ExchangesInv, HeldUntilAnswered
    <3> QED
      BY <3>1, <3>2
  <2> QED
    BY <2>1 DEF HeldUntilAnswered
<1> QED
  BY <1>4, <1>7, <1>8 DEF ExchangesInv

-----------------------------------------------------------------------------
(* The invariant holds initially and is kept by every step.                *)

\* Nothing runs and nothing was received.
LEMMA InitIInv == ASSUME Init PROVE IInv
<1>1. TypeOK
  BY NoneAssumption DEF Init, TypeOK, Gone
<1>2. MapIsExact /\ StreamKnown /\ StoppedIsDrained
  BY NoneAssumption DEF Init, MapIsExact, StreamKnown, StoppedIsDrained, Drained, Live
<1>3. HeldOnce /\ HeldUntilAnswered
  BY DEF Init, HeldOnce, HeldUntilAnswered
<1> QED
  BY <1>1, <1>2, <1>3 DEF IInv

\* Run, Cancel and Shutdown, and the supervisor's steps that leave the workers
\* and the exchanges alone.
LEMMA ControlKeeps ==
  ASSUME IInv,
         Run \/ Cancel \/ Shutdown \/ IdleCtxDone \/ SignalWorkers \/ Return
  PROVE  IInv'
<1>1. TypeOK /\ WorkersInv /\ ExchangesInv
  BY DEF IInv, WorkersInv, ExchangesInv
<1>2. UNCHANGED <<held, workers, wpc, wstream, wheld, werr, received, answers>>
  BY DEF Run, Cancel, Shutdown, IdleCtxDone, SignalWorkers, Return, worker
<1>3. wshutdown' \in [Workers -> BOOLEAN]
  BY <1>1 DEF Run, Cancel, Shutdown, IdleCtxDone, SignalWorkers, Return, worker, TypeOK
<1>4. /\ ctxDone' \in BOOLEAN /\ shutdown' \in BOOLEAN
      /\ pc' \in {"stopped", "idle", "forward", "signal", "drain"}
      /\ pc' = "forward" <=> pc = "forward"
  BY <1>1 DEF Run, Cancel, Shutdown, IdleCtxDone, SignalWorkers, Return, TypeOK
<1>5. TypeOK'
  BY <1>1, <1>2, <1>3, <1>4 DEF TypeOK
<1>6. WorkersInv' /\ ExchangesInv'
  BY <1>1, <1>2, SameWorkersKeep, SameExchangesKeep
<1>7. StoppedIsDrained'
  BY <1>2 DEF Run, Cancel, Shutdown, IdleCtxDone, SignalWorkers, Return, IInv,
              StoppedIsDrained, Drained
<1> QED
  BY <1>5, <1>6, <1>7 DEF IInv, WorkersInv, ExchangesInv

\* An exchange is received once, and held by the supervisor.
LEMMA ReceiveKeeps ==
  ASSUME IInv, NEW x \in Exchanges, Receive(x)
  PROVE  IInv'
<1>1. TypeOK /\ WorkersInv /\ HeldOnce /\ HeldUntilAnswered
  BY DEF IInv, WorkersInv
<1>2. /\ pc = "idle" /\ x \notin received /\ held = None /\ x # None
      /\ received' = received \cup {x} /\ held' = x /\ pc' = "forward"
      /\ UNCHANGED <<ctxDone, shutdown, workers, wpc, wstream, wheld, wshutdown, werr,
                     answers>>
  BY <1>1, NoneAssumption DEF Receive, worker, TypeOK
<1>3. TypeOK'
  BY <1>1, <1>2 DEF TypeOK
<1>4. WorkersInv'
  BY <1>1, <1>2, SameWorkersKeep
<1>5. HeldOnce' /\ HeldUntilAnswered'
  <2>1. HeldOnce'
    BY <1>1, <1>2 DEF HeldOnce
  <2>2. \A w \in Workers : wheld[w] # x
    BY <1>1, <1>2 DEF HeldOnce
  <2>3. HeldUntilAnswered'
    BY <1>1, <1>2, <2>2, NoneAssumption DEF HeldUntilAnswered
  <2> QED
    BY <2>1, <2>3
<1> QED
  BY <1>2, <1>3, <1>4, <1>5 DEF IInv, WorkersInv, StoppedIsDrained

\* The map and the goroutine come to be together.
LEMMA StartWorkerKeeps ==
  ASSUME IInv, NEW w \in Workers, StartWorker(w)
  PROVE  IInv'
<1> DEFINE k == StreamID[held]
<1>1. TypeOK /\ WorkersInv /\ ExchangesInv
  BY DEF IInv, WorkersInv, ExchangesInv
<1>2. /\ pc = "forward" /\ workers[k] = None /\ wpc[w] = Gone
      /\ wpc' = [wpc EXCEPT ![w] = "starting"]
      /\ wstream' = [wstream EXCEPT ![w] = k]
      /\ workers' = [workers EXCEPT ![k] = w]
      /\ UNCHANGED <<ctxDone, shutdown, pc, held, wheld, wshutdown, werr, received,
                     answers>>
  BY DEF StartWorker, NoWorker
<1>3. k \in Streams
  BY <1>1, <1>2, StreamIDAssumption DEF TypeOK
<1> HIDE DEF k
<1>4. TypeOK'
  BY <1>1, <1>2, <1>3 DEF TypeOK, Gone
<1>5. ~Live(w) /\ \A j \in Streams : workers[j] # w
  BY <1>1, <1>2, MapFacts DEF Live
<1>6. /\ Live(w)' /\ wstream'[w] = k
      /\ \A v \in Workers \ {w} : (Live(v)' <=> Live(v)) /\ wstream'[v] = wstream[v]
  BY <1>1, <1>2 DEF Live, Gone, TypeOK
<1>7. MapIsExact'
  <2>1. ASSUME NEW v \in Workers, NEW j \in Streams
        PROVE  workers'[j] = v <=> Live(v)' /\ wstream'[v] = j
    <3>1. workers'[j] = IF j = k THEN w ELSE workers[j]
      BY <1>1, <1>2 DEF TypeOK
    <3>2. workers[j] = v <=> Live(v) /\ wstream[v] = j
      BY <1>1 DEF WorkersInv, MapIsExact
    <3> QED
      BY <1>2, <1>5, <1>6, <3>1, <3>2, NoneAssumption
  <2> QED
    BY <2>1 DEF MapIsExact, Live
<1>8. StreamKnown'
  BY <1>1, <1>3, <1>6 DEF WorkersInv, StreamKnown
<1>9. ExchangesInv'
  BY <1>1, <1>2, SameExchangesKeep
<1> QED
  BY <1>2, <1>4, <1>7, <1>8, <1>9 DEF IInv, ExchangesInv, StoppedIsDrained

\* The supervisor refuses the exchange it holds.
LEMMA RefusalKeeps ==
  ASSUME IInv, OpenJournalFails \/ ForwardCtxDone
  PROVE  IInv'
<1>1. TypeOK /\ WorkersInv /\ ExchangesInv /\ held # None
  BY DEF IInv, WorkersInv, ExchangesInv, OpenJournalFails, ForwardCtxDone, TypeOK
<1>2. /\ Refuse
      /\ UNCHANGED <<ctxDone, shutdown, workers, wpc, wstream, wheld, wshutdown, werr,
                     received>>
  BY DEF OpenJournalFails, ForwardCtxDone, worker
<1>3. /\ ExchangesInv' /\ answers' \in [Exchanges -> Nat]
      /\ held' = None /\ pc' = "signal"
  BY <1>1, <1>2, RefuseKeeps
<1>4. TypeOK'
  BY <1>1, <1>2, <1>3 DEF TypeOK
<1>5. WorkersInv'
  BY <1>1, <1>2, SameWorkersKeep
<1> QED
  BY <1>3, <1>4, <1>5 DEF IInv, WorkersInv, ExchangesInv, StoppedIsDrained

\* The supervisor receives the result of a worker, in any of its states.
LEMMA ResultKeeps ==
  ASSUME IInv, NEW w \in Workers,
         IdleWorkerStopped(w) \/ ForwardWorkerStopped(w) \/ Drain(w)
  PROVE  IInv'
<1>1. TypeOK /\ WorkersInv /\ ExchangesInv
  BY DEF IInv, WorkersInv, ExchangesInv
<1>2. /\ ReceiveResult(w) /\ wheld' = wheld
      /\ UNCHANGED <<ctxDone, shutdown, received>>
      /\ pc # "stopped" /\ pc' # "stopped"
  BY DEF IdleWorkerStopped, ForwardWorkerStopped, Drain, ReceiveResult, Refuse
<1>3. /\ WorkersInv'
      /\ workers' \in [Streams -> Workers \cup {None}]
      /\ wpc' \in [Workers -> {Gone, "starting", "idle", "handle", "returned"}]
      /\ wstream' \in [Workers -> Streams \cup {None}]
      /\ \A v \in Workers : wpc'[v] = "handle" <=> wpc[v] = "handle"
      /\ wshutdown' \in [Workers -> BOOLEAN] /\ werr' \in [Workers -> BOOLEAN]
  BY <1>1, <1>2, ReceiveResultKeeps
<1>4. ASSUME ForwardWorkerStopped(w), werr[w] PROVE IInv'
  <2>1. Refuse /\ held # None
    BY <1>1, <1>4 DEF ForwardWorkerStopped, TypeOK
  <2>2. /\ ExchangesInv' /\ answers' \in [Exchanges -> Nat]
        /\ held' = None /\ pc' = "signal"
    BY <1>1, <1>2, <2>1, RefuseKeeps
  <2>3. TypeOK'
    BY <1>1, <1>2, <1>3, <2>2 DEF TypeOK
  <2> QED
    BY <1>2, <1>3, <2>2, <2>3 DEF IInv, WorkersInv, ExchangesInv, StoppedIsDrained
<1>5. ASSUME ~(ForwardWorkerStopped(w) /\ werr[w]) PROVE IInv'
  <2>1. /\ held' = held /\ answers' = answers
        /\ pc' = "forward" <=> pc = "forward"
        /\ pc' \in {"stopped", "idle", "forward", "signal", "drain"}
    BY <1>1, <1>5 DEF IdleWorkerStopped, ForwardWorkerStopped, Drain, TypeOK
  <2>2. ExchangesInv'
    BY <1>1, <1>2, <2>1, SameExchangesKeep
  <2>3. TypeOK'
    BY <1>1, <1>2, <1>3, <2>1 DEF TypeOK
  <2> QED
    BY <1>2, <1>3, <2>2, <2>3 DEF IInv, WorkersInv, ExchangesInv, StoppedIsDrained
<1> QED
  BY <1>4, <1>5

\* An exchange passes from the supervisor to a worker that is idle.
LEMMA ForwardKeeps ==
  ASSUME IInv, NEW w \in Workers, Forward(w)
  PROVE  IInv'
<1>1. TypeOK /\ WorkersInv /\ HeldOnce /\ HeldUntilAnswered
  BY DEF IInv, WorkersInv
<1>2. /\ pc = "forward" /\ wpc[w] = "idle" /\ held # None /\ wheld[w] = None
      /\ wpc' = [wpc EXCEPT ![w] = "handle"]
      /\ wheld' = [wheld EXCEPT ![w] = held]
      /\ held' = None /\ pc' = "idle"
      /\ UNCHANGED <<ctxDone, shutdown, workers, wstream, wshutdown, werr, received,
                     answers>>
  BY <1>1 DEF Forward, TypeOK
<1>3. /\ wheld'[w] = held /\ wpc'[w] = "handle"
      /\ \A v \in Workers \ {w} : wheld'[v] = wheld[v] /\ wpc'[v] = wpc[v]
  BY <1>1, <1>2 DEF TypeOK
<1>4. TypeOK'
  <2>1. \A v \in Workers : wpc'[v] = "handle" <=> wheld'[v] # None
    BY <1>1, <1>2, <1>3 DEF TypeOK
  <2> QED
    BY <1>1, <1>2, <2>1 DEF TypeOK
<1>5. WorkersInv'
  <2>1. \A v \in Workers : wpc'[v] = Gone <=> wpc[v] = Gone
    BY <1>2, <1>3 DEF Gone
  <2> QED
    BY <1>1, <1>2, <2>1, SameWorkersKeep
<1>6. HeldOnce'
  BY <1>1, <1>2, <1>3 DEF HeldOnce
<1>7. HeldUntilAnswered'
  <2>1. \A x \in Exchanges : (held = x \/ \E v \in Workers : wheld[v] = x) <=>
                            (\E v \in Workers : wheld'[v] = x)
    BY <1>2, <1>3, NoneAssumption
  <2>2. \A x \in Exchanges : held' # x
    BY <1>2, NoneAssumption
  <2> QED
    BY <1>1, <1>2, <2>1, <2>2 DEF HeldUntilAnswered
<1> QED
  BY <1>2, <1>4, <1>5, <1>6, <1>7 DEF IInv, WorkersInv, StoppedIsDrained

\* What a goroutine does on its own: it stays in the map until its result is
\* received.
LEMMA WorkerKeeps ==
  ASSUME IInv, NEW w \in Workers,
         \/ WorkerLoads(w) \/ WorkerFailsToLoad(w) \/ WorkerStops(w)
         \/ WorkerTimesOut(w) \/ WorkerSucceeds(w) \/ WorkerFails(w)
  PROVE  IInv'
<1>1. TypeOK /\ WorkersInv /\ ExchangesInv
  BY DEF IInv, WorkersInv, ExchangesInv
<1>2. /\ UNCHANGED <<ctxDone, shutdown, pc, held, workers, wstream, wshutdown, received>>
      /\ werr' \in [Workers -> BOOLEAN]
  BY <1>1 DEF WorkerLoads, WorkerFailsToLoad, WorkerStops, WorkerTimesOut,
              WorkerSucceeds, WorkerFails, WorkerReturns, TypeOK
<1>3. /\ wpc' \in [Workers -> {Gone, "starting", "idle", "handle", "returned"}]
      /\ \A v \in Workers \ {w} : wpc'[v] = wpc[v]
      /\ wpc[w] # Gone /\ wpc'[w] # Gone /\ wpc'[w] # "handle"
  BY <1>1 DEF WorkerLoads, WorkerFailsToLoad, WorkerStops, WorkerTimesOut,
              WorkerSucceeds, WorkerFails, WorkerReturns, TypeOK, Gone
<1>4. WorkersInv'
  <2>1. \A v \in Workers : wpc'[v] = Gone <=> wpc[v] = Gone
    BY <1>3
  <2> QED
    BY <1>1, <1>2, <2>1, SameWorkersKeep
<1>5. CASE wpc[w] = "handle"
  <2>1. Respond(wheld[w]) /\ wheld' = [wheld EXCEPT ![w] = None]
    BY <1>5 DEF WorkerLoads, WorkerFailsToLoad, WorkerStops, WorkerTimesOut,
                WorkerSucceeds, WorkerFails
  <2>2. ExchangesInv' /\ answers' \in [Exchanges -> Nat]
    BY <1>1, <1>2, <1>5, <2>1, WorkerAnswers
  <2>3. TypeOK'
    <3>1. \A v \in Workers : wpc'[v] = "handle" <=> wheld'[v] # None
      BY <1>1, <1>3, <2>1 DEF TypeOK
    <3> QED
      BY <1>1, <1>2, <1>3, <2>1, <2>2, <3>1 DEF TypeOK
  <2> QED
    BY <1>2, <1>4, <2>2, <2>3 DEF IInv, WorkersInv, ExchangesInv, StoppedIsDrained,
                                  Drained
<1>6. CASE wpc[w] # "handle"
  <2>1. wheld' = wheld /\ answers' = answers
    BY <1>6 DEF WorkerLoads, WorkerFailsToLoad, WorkerStops, WorkerTimesOut,
                WorkerSucceeds, WorkerFails
  <2>2. ExchangesInv'
    BY <1>1, <1>2, <2>1, SameExchangesKeep
  <2>3. TypeOK'
    <3>1. \A v \in Workers : wpc'[v] = "handle" <=> wheld'[v] # None
      BY <1>1, <1>3, <1>6, <2>1 DEF TypeOK
    <3> QED
      BY <1>1, <1>2, <1>3, <2>1, <3>1 DEF TypeOK
  <2> QED
    BY <1>2, <1>4, <2>2, <2>3 DEF IInv, WorkersInv, ExchangesInv, StoppedIsDrained,
                                  Drained
<1> QED
  BY <1>5, <1>6

\* Every action keeps the invariant.
LEMMA NextKeepsIInv ==
  ASSUME IInv, [Next]_vars
  PROVE  IInv'
<1>1. CASE UNCHANGED vars
  BY <1>1 DEF vars, worker, IInv, TypeOK, MapIsExact, StreamKnown, StoppedIsDrained,
              Drained, HeldOnce, HeldUntilAnswered, Live
<1> QED
  BY <1>1, ControlKeeps, ReceiveKeeps, StartWorkerKeeps, RefusalKeeps, ResultKeeps,
     ForwardKeeps, WorkerKeeps DEF Next

-----------------------------------------------------------------------------
(* The theorems.                                                           *)

\* The invariant on which the theorems below rest.
THEOREM Invariance == Spec => []IInv
BY InitIInv, NextKeepsIInv, PTL DEF Spec

\* Types, and that exchanges are bound to the states that handle them.
THEOREM TypeCorrect == Spec => []TypeOK
BY Invariance, PTL DEF IInv

\* The map lists the goroutines that exist, each under its stream.
THEOREM MapIsAlwaysExact == Spec => []MapIsExact
BY Invariance, PTL DEF IInv

\* No two goroutines of a supervisor manage one stream, whichever of them idles
\* out, fails or starts while a request is being forwarded.
THEOREM StreamHasOneWorker == Spec => []OneWorkerPerStream
<1>1. IInv => OneWorkerPerStream
  BY MapFacts DEF IInv, WorkersInv, OneWorkerPerStream
<1> QED
  BY <1>1, Invariance, PTL

\* Run waits for every goroutine it has started.
THEOREM NoWorkerOutlivesRun == Spec => []RunLeavesNoWorker
<1>1. IInv => RunLeavesNoWorker
  BY MapFacts, NoneAssumption
     DEF IInv, WorkersInv, RunLeavesNoWorker, StoppedIsDrained, Drained
<1> QED
  BY <1>1, Invariance, PTL

\* No exchange is answered twice, and none is lost before it is answered.
THEOREM NeverAnsweredTwice == Spec => []AnsweredOnce
<1>1. ASSUME IInv PROVE AnsweredOnce
  <2>1. TypeOK /\ HeldOnce /\ HeldUntilAnswered
    BY <1>1 DEF IInv
  <2>2. ASSUME NEW x \in received
        PROVE  LET holders == {w \in Workers : wheld[w] = x}
               IN  \/ answers[x] = 1 /\ held # x /\ holders = {}
                   \/ answers[x] = 0 /\ held = x /\ holders = {}
                   \/ answers[x] = 0 /\ held # x /\ \E w \in Workers : holders = {w}
    <3>1. x \in Exchanges /\ x # None
      BY <2>1, NoneAssumption DEF TypeOK
    <3>2. CASE answers[x] = 1 /\ held # x /\ \A w \in Workers : wheld[w] # x
      BY <3>2
    <3>3. CASE answers[x] = 0 /\ held = x
      BY <2>1, <3>1, <3>3 DEF HeldOnce
    <3>4. CASE answers[x] = 0 /\ held # x /\ \E w \in Workers : wheld[w] = x
      <4>1. PICK w \in Workers : wheld[w] = x
        BY <3>4
      <4>2. {v \in Workers : wheld[v] = x} = {w}
        BY <2>1, <3>1, <4>1 DEF HeldOnce
      <4> QED
        BY <3>4, <4>2
    <3> QED
      BY <2>1, <3>1, <3>2, <3>3, <3>4 DEF HeldUntilAnswered
  <2> QED
    BY <2>2 DEF AnsweredOnce
<1> QED
  BY <1>1, Invariance, PTL
=============================================================================
