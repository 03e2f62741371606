----------------------- MODULE EventStreamSupervisor -----------------------
(***************************************************************************)
(* The supervisor of the event streams on one node and the goroutines of   *)
(* its workers (src/internal/eventstream/supervisor.go, and the life of a  *)
(* worker in worker.go).  The goroutines meet on unbuffered channels: the  *)
(* append queue of the supervisor, the append queue of each worker, and    *)
(* workerStopped.  What workers do to the journal of a stream is the       *)
(* subject of module EventStreamWorker; here a request succeeds or fails.  *)
(***************************************************************************)
EXTENDS Naturals

CONSTANTS
  Streams,       \* IDs of event streams
  Exchanges,     \* append requests, each with the channel for its response
  StreamID,      \* StreamID[x]: the stream that exchange x appends to
  Workers,       \* worker values; one that is gone stands for a new one later
  None           \* nil

ASSUME StreamIDAssumption == StreamID \in [Exchanges -> Streams]
ASSUME NoneAssumption == None \notin Exchanges \cup Workers \cup Streams

VARIABLES
  ctxDone,       \* is the context of the current Run canceled?
  shutdown,      \* the shutdown latch of the supervisor
  pc, held,      \* the supervisor's state and the exchange bound to it, if any
  workers,       \* the supervisor's map of workers
  wpc,           \* the state of each worker's goroutine
  wstream,       \* the stream of each worker
  wheld,         \* the exchange each worker is handling
  wshutdown,     \* the shutdown latch of each worker
  werr,          \* did Run of the worker return an error?
  received,      \* exchanges taken from the append queue
  answers        \* number of responses sent to each exchange

worker == <<wpc, wstream, wheld, wshutdown, werr>>
vars == <<ctxDone, shutdown, pc, held, workers, worker, received, answers>>

Gone == "gone"

Init ==
  /\ ctxDone = FALSE /\ shutdown = FALSE
  /\ pc = "stopped" /\ held = None
  /\ workers = [k \in Streams |-> None]
  /\ wpc = [w \in Workers |-> Gone]
  /\ wstream = [w \in Workers |-> None]
  /\ wheld = [w \in Workers |-> None]
  /\ wshutdown = [w \in Workers |-> FALSE]
  /\ werr = [w \in Workers |-> FALSE]
  /\ received = {}
  /\ answers = [x \in Exchanges |-> 0]

\* Sends a response.  The channel has room for one.
Respond(x) == answers' = [answers EXCEPT ![x] = @ + 1]

-----------------------------------------------------------------------------
(* The environment.                                                        *)

\* Run is called, also again after it has returned, with a context.
Run ==
  /\ pc = "stopped"
  /\ pc' = "idle"
  /\ ctxDone' = FALSE
  /\ UNCHANGED <<shutdown, held, workers, worker, received, answers>>

Cancel ==
  /\ pc # "stopped" /\ ~ctxDone
  /\ ctxDone' = TRUE
  /\ UNCHANGED <<shutdown, pc, held, workers, worker, received, answers>>

Shutdown ==
  /\ ~shutdown
  /\ shutdown' = TRUE
  /\ UNCHANGED <<ctxDone, pc, held, workers, worker, received, answers>>

-----------------------------------------------------------------------------
(* The supervisor.  A state machine that stops or fails enters the final   *)
(* state, shutdownState, as "signal".                                      *)

\* The result of a worker arrives: the goroutine of the worker is gone.
ReceiveResult(w) ==
  /\ wpc[w] = "returned"
  /\ workers' = [workers EXCEPT ![wstream[w]] = None]
  /\ wpc' = [wpc EXCEPT ![w] = Gone]
  /\ wstream' = [wstream EXCEPT ![w] = None]
  /\ wshutdown' = [wshutdown EXCEPT ![w] = FALSE]
  /\ werr' = [werr EXCEPT ![w] = FALSE]
  /\ UNCHANGED wheld

\* Fault seeded to test RunLeavesNoWorker: there is no final state.
IdleReturns ==
  /\ pc = "idle" /\ ctxDone
  /\ pc' = "stopped"
  /\ UNCHANGED <<ctxDone, shutdown, held, workers, worker, received, answers>>

IdleCtxDone ==
  /\ pc = "idle" /\ ctxDone
  /\ pc' = "signal"
  /\ UNCHANGED <<ctxDone, shutdown, held, workers, worker, received, answers>>

IdleWorkerStopped(w) ==
  /\ pc = "idle"
  /\ ReceiveResult(w)
  /\ pc' = IF werr[w] THEN "signal" ELSE "idle"
  /\ UNCHANGED <<ctxDone, shutdown, held, received, answers>>

Receive(x) ==
  /\ pc = "idle" /\ x \notin received
  /\ received' = received \cup {x}
  /\ held' = x
  /\ pc' = "forward"
  /\ UNCHANGED <<ctxDone, shutdown, workers, worker, answers>>

\* forwardAppendState looks for the worker each time it is entered.
NoWorker == workers[StreamID[held]] = None

\* Fault seeded to test OneWorkerPerStream: the worker is not put in the map.
StartUnlistedWorker(w) ==
  /\ pc = "forward" /\ NoWorker
  /\ wpc[w] = Gone
  /\ wpc' = [wpc EXCEPT ![w] = "starting"]
  /\ wstream' = [wstream EXCEPT ![w] = StreamID[held]]
  /\ UNCHANGED <<ctxDone, shutdown, pc, held, workers, wheld, wshutdown, werr,
                 received, answers>>

StartWorker(w) ==
  /\ pc = "forward" /\ NoWorker
  /\ wpc[w] = Gone
  /\ wpc' = [wpc EXCEPT ![w] = "starting"]
  /\ wstream' = [wstream EXCEPT ![w] = StreamID[held]]
  /\ workers' = [workers EXCEPT ![StreamID[held]] = w]
  /\ UNCHANGED <<ctxDone, shutdown, pc, held, wheld, wshutdown, werr,
                 received, answers>>

\* The exchange is refused with errShuttingDown, and Run ends.
Refuse ==
  /\ Respond(held)
  /\ held' = None
  /\ pc' = "signal"

OpenJournalFails ==
  /\ pc = "forward" /\ NoWorker
  /\ Refuse
  /\ UNCHANGED <<ctxDone, shutdown, workers, worker, received>>

\* Fault seeded to test EveryExchangeAnswered: no response is sent when the
\* context ends.
ForwardGivesUp ==
  /\ pc = "forward" /\ ~NoWorker
  /\ ctxDone
  /\ held' = None
  /\ pc' = "signal"
  /\ UNCHANGED <<ctxDone, shutdown, workers, worker, received, answers>>

ForwardCtxDone ==
  /\ pc = "forward" /\ ~NoWorker
  /\ ctxDone
  /\ Refuse
  /\ UNCHANGED <<ctxDone, shutdown, workers, worker, received>>

\* Fault seeded to test AnsweredOnce: the exchange is refused but still forwarded.
ForwardWhileStopping(w) ==
  /\ pc = "forward" /\ ~NoWorker
  /\ ReceiveResult(w)
  /\ Respond(held)
  /\ pc' = IF werr[w] THEN "signal" ELSE "forward"
  /\ held' = IF werr[w] THEN None ELSE held
  /\ UNCHANGED <<ctxDone, shutdown, received>>

ForwardWorkerStopped(w) ==
  /\ pc = "forward" /\ ~NoWorker
  /\ ReceiveResult(w)
  /\ IF werr[w] THEN Refuse ELSE UNCHANGED <<pc, held, answers>>
  /\ UNCHANGED <<ctxDone, shutdown, received>>

Forward(w) ==
  /\ pc = "forward" /\ w = workers[StreamID[held]]
  /\ wpc[w] = "idle"
  /\ wpc' = [wpc EXCEPT ![w] = "handle"]
  /\ wheld' = [wheld EXCEPT ![w] = held]
  /\ held' = None
  /\ pc' = "idle"
  /\ UNCHANGED <<ctxDone, shutdown, workers, wstream, wshutdown, werr,
                 received, answers>>

\* Fault seeded to test RunReturns: the workers are not told to shut down.
SignalNobody ==
  /\ pc = "signal"
  /\ pc' = "drain"
  /\ UNCHANGED <<ctxDone, shutdown, held, workers, worker, received, answers>>

\* shutdownState: the loop over the workers.
SignalWorkers ==
  /\ pc = "signal"
  /\ wshutdown' = [w \in Workers |->
                     wshutdown[w] \/ \E k \in Streams : workers[k] = w]
  /\ pc' = "drain"
  /\ UNCHANGED <<ctxDone, shutdown, held, workers, wpc, wstream, wheld, werr,
                 received, answers>>

\* shutdownState: the loop that waits for them, whatever their results.
Drained == \A k \in Streams : workers[k] = None

Drain(w) ==
  /\ pc = "drain" /\ ~Drained
  /\ ReceiveResult(w)
  /\ UNCHANGED <<ctxDone, shutdown, pc, held, received, answers>>

Return ==
  /\ pc = "drain" /\ Drained
  /\ pc' = "stopped"
  /\ UNCHANGED <<ctxDone, shutdown, held, workers, worker, received, answers>>

-----------------------------------------------------------------------------
(* The goroutine of a worker.                                              *)

\* Run reads the last record of the journal.
WorkerLoads(w) ==
  /\ wpc[w] = "starting"
  /\ wpc' = [wpc EXCEPT ![w] = "idle"]
  /\ UNCHANGED <<ctxDone, shutdown, pc, held, workers, wstream, wheld,
                 wshutdown, werr, received, answers>>

\* Run returns, and the goroutine blocks on workerStopped.
WorkerReturns(w, err) ==
  /\ wpc' = [wpc EXCEPT ![w] = "returned"]
  /\ werr' = [werr EXCEPT ![w] = err]
  /\ UNCHANGED <<ctxDone, shutdown, pc, held, workers, wstream, wshutdown,
                 received>>

\* Fault seeded to test TypeOK: the exchange stays bound to the worker.
WorkerKeepsExchange(w) ==
  /\ wpc[w] = "handle"
  /\ Respond(wheld[w])
  /\ wpc' = [wpc EXCEPT ![w] = "idle"]
  /\ UNCHANGED <<ctxDone, shutdown, pc, held, workers, wstream, wheld, wshutdown,
                 werr, received>>

WorkerFailsToLoad(w) ==
  /\ wpc[w] = "starting"
  /\ WorkerReturns(w, TRUE)
  /\ UNCHANGED <<wheld, answers>>

\* The result is ctx.Err(), which is nil unless the context is canceled.
WorkerStops(w) ==
  /\ wpc[w] = "idle" /\ (ctxDone \/ wshutdown[w])
  /\ WorkerReturns(w, ctxDone)
  /\ UNCHANGED <<wheld, answers>>

WorkerTimesOut(w) ==
  /\ wpc[w] = "idle"
  /\ WorkerReturns(w, ctxDone)
  /\ UNCHANGED <<wheld, answers>>

WorkerSucceeds(w) ==
  /\ wpc[w] = "handle"
  /\ Respond(wheld[w])
  /\ wpc' = [wpc EXCEPT ![w] = "idle"]
  /\ wheld' = [wheld EXCEPT ![w] = None]
  /\ UNCHANGED <<ctxDone, shutdown, pc, held, workers, wstream, wshutdown, werr,
                 received>>

WorkerFails(w) ==
  /\ wpc[w] = "handle"
  /\ Respond(wheld[w])
  /\ wheld' = [wheld EXCEPT ![w] = None]
  /\ WorkerReturns(w, TRUE)

-----------------------------------------------------------------------------
Next ==
  \/ Run \/ Cancel \/ Shutdown
  \/ IdleCtxDone \/ OpenJournalFails \/ ForwardCtxDone \/ SignalWorkers \/ Return
  \/ \E x \in Exchanges : Receive(x)
  \/ \E w \in Workers :
       \/ IdleWorkerStopped(w) \/ StartWorker(w) \/ ForwardWorkerStopped(w)
       \/ Forward(w) \/ Drain(w)
       \/ WorkerLoads(w) \/ WorkerFailsToLoad(w) \/ WorkerStops(w)
       \/ WorkerTimesOut(w) \/ WorkerSucceeds(w) \/ WorkerFails(w)

Spec == Init /\ [][Next]_vars

(* Fairness, for liveness only.  Calls to the journal return.  Goroutines that*)
(* can go on do, and a select picks at random among the cases that are ready, *)
(* so that no case is passed over forever.  Nobody is obliged to send a       *)
(* request, to cancel the context or to call Run again, and no worker is      *)
(* obliged to reach its idle timeout.                                         *)
Fairness ==
  /\ SF_vars(IdleCtxDone) /\ SF_vars(ForwardCtxDone)
  /\ WF_vars(OpenJournalFails \/ \E w \in Workers : StartWorker(w))
  /\ WF_vars(SignalWorkers) /\ WF_vars(Return)
  /\ \A w \in Workers :
       /\ SF_vars(IdleWorkerStopped(w)) /\ SF_vars(ForwardWorkerStopped(w))
       /\ SF_vars(Forward(w)) /\ WF_vars(Drain(w))
       /\ WF_vars(WorkerLoads(w) \/ WorkerFailsToLoad(w))
       /\ WF_vars(WorkerStops(w))
       /\ WF_vars(WorkerSucceeds(w) \/ WorkerFails(w))

FairSpec == Spec /\ Fairness

-----------------------------------------------------------------------------
(* Properties.                                                             *)

Live(w) == wpc[w] # Gone

\* Types: an exchange is bound to the supervisor exactly in its forward state,
\* and to a worker exactly while it handles one.
TypeOK ==
  /\ ctxDone \in BOOLEAN /\ shutdown \in BOOLEAN
  /\ pc \in {"stopped", "idle", "forward", "signal", "drain"}
  /\ held \in Exchanges \cup {None}
  /\ pc = "forward" <=> held # None
  /\ workers \in [Streams -> Workers \cup {None}]
  /\ wpc \in [Workers -> {Gone, "starting", "idle", "handle", "returned"}]
  /\ wstream \in [Workers -> Streams \cup {None}]
  /\ wheld \in [Workers -> Exchanges \cup {None}]
  /\ \A w \in Workers : wpc[w] = "handle" <=> wheld[w] # None
  /\ wshutdown \in [Workers -> BOOLEAN] /\ werr \in [Workers -> BOOLEAN]
  /\ received \subseteq Exchanges
  /\ answers \in [Exchanges -> Nat]

\* At no time do two goroutines of one supervisor manage the same stream, not
\* even when one idles out while a request for its stream is being forwarded.
OneWorkerPerStream ==
  \A v, w \in Workers : Live(v) /\ Live(w) /\ wstream[v] = wstream[w] => v = w

\* The map lists the workers whose goroutines exist, so that shutdownState
\* waits for each of them and for no other.
MapIsExact ==
  \A w \in Workers, k \in Streams :
    workers[k] = w <=> Live(w) /\ wstream[w] = k

\* No exchange is answered twice (the second response would block its sender
\* for ever once the caller is gone), and one that is not answered yet is in
\* the hands of exactly one goroutine.
AnsweredOnce ==
  \A x \in received :
    LET holders == {w \in Workers : wheld[w] = x}
    IN  \/ answers[x] = 1 /\ held # x /\ holders = {}
        \/ answers[x] = 0 /\ held = x /\ holders = {}
        \/ answers[x] = 0 /\ held # x /\ \E w \in Workers : holders = {w}

\* When Run has returned, no goroutine of a worker is left behind to append to
\* a stream while another supervisor takes over.
RunLeavesNoWorker == pc = "stopped" => \A w \in Workers : ~Live(w)

\* Every request the supervisor takes is answered, whatever stops or fails.
EveryExchangeAnswered ==
  \A x \in Exchanges : x \in received ~> answers[x] = 1

\* Run returns when its context is canceled and when a worker has failed: the
\* supervisor and its workers never wait for each other in a circle.
RunReturns == (ctxDone \/ pc = "signal") ~> pc = "stopped"

\* What the comment on Shutdown promises: it "stops the supervisor when it next
\* becomes idle".
ShutdownStops == shutdown /\ pc = "idle" ~> pc = "stopped"
=============================================================================
