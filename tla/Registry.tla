------------------------------ MODULE Registry ------------------------------
(***************************************************************************)
(* The cluster registry (src/internal/cluster/registry.go): the registrar  *)
(* of each node writes a registration that expires to a shared keyspace and*)
(* renews it by a ticker; observers poll the keyspace, delete registrations*)
(* that have expired, and publish who joined and who left.                 *)
(*                                                                         *)
(* Time is discrete.  An expiry time is kept as the time that remains until*)
(* it, so all nodes read the same clock.  A registrar makes its next move, *)
(* or its call to the keyspace returns, at most MaxDelay after it can.  The*)
(* poll ticker of an observer may fire at any time.                        *)
(***************************************************************************)
EXTENDS Integers

CONSTANTS
  Nodes,          \* node IDs
  Observers,      \* one observer at a time for each process that has one
  None,           \* nil
  RenewInterval,  \* the interval of a registrar's ticker
  MaxDelay,       \* bound: how long a step that is ready may wait
  MaxRuns         \* bound: how often the registrar of a node is run

ASSUME ConstantsAssumption ==
  /\ None \notin Nodes \cup Int
  /\ RenewInterval \in Nat \ {0} /\ MaxDelay \in Nat /\ MaxRuns \in Nat

VARIABLES
  reg,         \* reg[n]: time until the registration of n expires, or nil
  pc,          \* the state of each registrar, or the call it is making
  pending,     \* time until the expiry a registrar is about to save, or nil
  clock,       \* time since a registrar's ticker last fired
  ticked,      \* is there a tick in the channel of that ticker?
  lag,         \* for how long the next step of a registrar has been ready
  runs,        \* how often the registrar was run
  opc,         \* the state of each observer
  unvisited,   \* the keys that Range has not visited in this poll
  found,       \* the nodes that loadNodes has found so far
  target,      \* the key whose registration the observer is deleting
  known,       \* the field nodes: what the observer has published so far
  oshutdown    \* the shutdown latch of each observer

registrar == <<pc, pending, clock, ticked, lag, runs>>
observer  == <<opc, unvisited, found, target, known, oshutdown>>
vars      == <<reg, registrar, observer>>

-----------------------------------------------------------------------------
\* ExpiresAt of a Registration; -1 is any time in the past.
Expiry == -1 .. 2 * RenewInterval

Init ==
  /\ reg = [n \in Nodes |-> None]
  /\ pc = [n \in Nodes |-> "stopped"]
  /\ pending = [n \in Nodes |-> None]
  /\ clock = [n \in Nodes |-> 0]
  /\ ticked = [n \in Nodes |-> FALSE]
  /\ lag = [n \in Nodes |-> 0]
  /\ runs = [n \in Nodes |-> 0]
  /\ opc = [o \in Observers |-> "stopped"]
  /\ unvisited = [o \in Observers |-> {}]
  /\ found = [o \in Observers |-> {}]
  /\ target = [o \in Observers |-> None]
  /\ known = [o \in Observers |-> {}]
  /\ oshutdown = [o \in Observers |-> FALSE]

-----------------------------------------------------------------------------
(* The registrar.                                                          *)

Goto(n, label) ==
  /\ pc' = [pc EXCEPT ![n] = label]
  /\ lag' = [lag EXCEPT ![n] = 0]

\* Fault seeded to test StaysRegistered: a registration lives for one interval.
OneInterval == RenewInterval

\* Fault seeded to test TypeOK: a registration lives for an interval too long.
ThreeIntervals == 3 * RenewInterval

\* How long a registration is valid.
Lifetime == 2 * RenewInterval

\* saveRegistration computes the expiry time and calls Set.
BeginSave(n) == pending' = [pending EXCEPT ![n] = Lifetime]

\* Run starts the ticker and calls register.
Run(n) ==
  /\ pc[n] = "stopped" /\ runs[n] < MaxRuns
  /\ runs' = [runs EXCEPT ![n] = @ + 1]
  /\ Goto(n, "register")
  /\ BeginSave(n)
  /\ clock' = [clock EXCEPT ![n] = 0]
  /\ UNCHANGED <<reg, ticked, observer>>

\* Run returns.
Return(n) ==
  /\ Goto(n, "stopped")
  /\ pending' = [pending EXCEPT ![n] = None]
  /\ clock' = [clock EXCEPT ![n] = 0]
  /\ ticked' = [ticked EXCEPT ![n] = FALSE]

Save(n) ==
  /\ pc[n] \in {"register", "save"}
  /\ reg' = [reg EXCEPT ![n] = pending[n]]
  /\ pending' = [pending EXCEPT ![n] = None]
  /\ Goto(n, "idle")
  /\ UNCHANGED <<clock, ticked, runs, observer>>

\* The registration is saved but Set returns an error.
FailAfterSave(n) ==
  /\ pc[n] \in {"register", "save"}
  /\ reg' = [reg EXCEPT ![n] = pending[n]]
  /\ Return(n)
  /\ UNCHANGED <<runs, observer>>

TickReady(n) == pc[n] = "idle" /\ ticked[n]

\* renew, up to the value that Get returns.  Before is strict.
Renew(n) ==
  /\ TickReady(n) /\ reg[n] # None
  /\ ticked' = [ticked EXCEPT ![n] = FALSE]
  /\ IF reg[n] < 0
     THEN Goto(n, "expire") /\ UNCHANGED pending
     ELSE Goto(n, "save") /\ BeginSave(n)
  /\ UNCHANGED <<reg, clock, runs, observer>>

RenewUnregistered(n) ==
  /\ TickReady(n) /\ reg[n] = None
  /\ Return(n)
  /\ UNCHANGED <<reg, runs, observer>>

\* The shutdown latch is set when the select looks at it.
BeginDeregister(n) ==
  /\ pc[n] = "idle"
  /\ Goto(n, "deregister")
  /\ UNCHANGED <<reg, pending, clock, ticked, runs, observer>>

\* deleteRegistration, whose result ends Run either way.
Delete(n) ==
  /\ pc[n] \in {"expire", "deregister"}
  /\ reg' = [reg EXCEPT ![n] = None]
  /\ Return(n)
  /\ UNCHANGED <<runs, observer>>

\* A call fails without effect, ctx is canceled, or the process dies.
Stop(n) ==
  /\ pc[n] # "stopped"
  /\ Return(n)
  /\ UNCHANGED <<reg, runs, observer>>

-----------------------------------------------------------------------------
(* Time.                                                                   *)

\* How long ago a registration expired does not matter.
Older(t) == IF t = None \/ t = -1 THEN t ELSE t - 1

Running(n) == pc[n] # "stopped"
Busy(n)    == Running(n) /\ (pc[n] = "idle" => ticked[n])

\* The channel of a ticker holds one tick, and further ticks are dropped.
Tick ==
  /\ \A n \in Nodes : Busy(n) => lag[n] < MaxDelay
  /\ reg' = [n \in Nodes |-> Older(reg[n])]
  /\ pending' = [n \in Nodes |-> Older(pending[n])]
  /\ lag' = [n \in Nodes |-> IF Busy(n) THEN lag[n] + 1 ELSE 0]
  /\ clock' = [n \in Nodes |-> IF Running(n) /\ clock[n] + 1 < RenewInterval
                               THEN clock[n] + 1 ELSE 0]
  /\ ticked' = [n \in Nodes |->
                  ticked[n] \/ (Running(n) /\ clock[n] + 1 = RenewInterval)]
  /\ UNCHANGED <<pc, runs, observer>>

-----------------------------------------------------------------------------
(* The observer.                                                           *)

\* pollState begins to load the nodes.
BeginPoll(o) ==
  /\ opc' = [opc EXCEPT ![o] = "poll"]
  /\ unvisited' = [unvisited EXCEPT ![o] = Nodes]
  /\ found' = [found EXCEPT ![o] = {}]

\* A new observer is run.
ObserverRun(o) ==
  /\ opc[o] = "stopped"
  /\ BeginPoll(o)
  /\ oshutdown' = [oshutdown EXCEPT ![o] = FALSE]
  /\ UNCHANGED <<reg, registrar, target, known>>

\* The ticker fires while the observer is idle, or while nobody receives what it
\* wants to publish.
Poll(o) ==
  /\ opc[o] \in {"idle", "publish"}
  /\ BeginPoll(o)
  /\ UNCHANGED <<reg, registrar, target, known, oshutdown>>

\* Fault seeded to test Forgotten: a registration is current until it is deleted.
NeverExpires(n) == reg[n] # None

\* After is strict.
Current(n) == reg[n] # None /\ reg[n] > 0

\* Range calls loadNodes' function with the value of a key, if it has one.
Visit(o, n) ==
  /\ opc[o] = "poll" /\ n \in unvisited[o]
  /\ unvisited' = [unvisited EXCEPT ![o] = @ \ {n}]
  /\ found' = [found EXCEPT ![o] = IF Current(n) THEN @ \cup {n} ELSE @]
  /\ IF Current(n) \/ reg[n] = None
     THEN UNCHANGED <<opc, target>>
     ELSE /\ opc' = [opc EXCEPT ![o] = "delete"]
          /\ target' = [target EXCEPT ![o] = n]
  /\ UNCHANGED <<reg, registrar, known, oshutdown>>

\* The registration that was found expired is deleted, whatever it is by now.
DeleteExpired(o) ==
  /\ opc[o] = "delete"
  /\ reg' = [reg EXCEPT ![target[o]] = None]
  /\ opc' = [opc EXCEPT ![o] = "poll"]
  /\ target' = [target EXCEPT ![o] = None]
  /\ UNCHANGED <<registrar, unvisited, found, known, oshutdown>>

\* The event that pollState produces.
Registered(o)   == found[o] \ known[o]
Deregistered(o) == known[o] \ found[o]

\* Fault seeded to test NoFalseDeregistration: the poll ends with keys unvisited.
EndPollEarly(o) ==
  /\ opc[o] = "poll"
  /\ opc' = [opc EXCEPT ![o] = IF Registered(o) = {} /\ Deregistered(o) = {}
                               THEN "idle" ELSE "publish"]
  /\ UNCHANGED <<reg, registrar, unvisited, found, target, known, oshutdown>>

\* Fault seeded to test Discovered: nothing is published unless a node has left.
EndPollUnlessLeft(o) ==
  /\ opc[o] = "poll" /\ unvisited[o] = {}
  /\ opc' = [opc EXCEPT ![o] = IF Deregistered(o) = {} THEN "idle" ELSE "publish"]
  /\ UNCHANGED <<reg, registrar, unvisited, found, target, known, oshutdown>>

EndPoll(o) ==
  /\ opc[o] = "poll" /\ unvisited[o] = {}
  /\ opc' = [opc EXCEPT ![o] = IF Registered(o) = {} /\ Deregistered(o) = {}
                               THEN "idle" ELSE "publish"]
  /\ UNCHANGED <<reg, registrar, unvisited, found, target, known, oshutdown>>

\* Somebody receives the event.
Publish(o) ==
  /\ opc[o] = "publish"
  /\ known' = [known EXCEPT ![o] = (@ \cup Registered(o)) \ Deregistered(o)]
  /\ opc' = [opc EXCEPT ![o] = "idle"]
  /\ UNCHANGED <<reg, registrar, unvisited, found, target, oshutdown>>

ObserverReturn(o) ==
  /\ opc' = [opc EXCEPT ![o] = "stopped"]
  /\ unvisited' = [unvisited EXCEPT ![o] = {}]
  /\ found' = [found EXCEPT ![o] = {}]
  /\ target' = [target EXCEPT ![o] = None]
  /\ known' = [known EXCEPT ![o] = {}]
  /\ UNCHANGED <<reg, registrar, oshutdown>>

\* A call fails, ctx is canceled, or the process dies.
ObserverStop(o) == opc[o] # "stopped" /\ ObserverReturn(o)

\* Fault seeded to test ObserverStops: the latch is seen only by an observer that
\* knows no node.
LatchSeenWhenAlone(o) ==
  /\ opc[o] = "idle" /\ oshutdown[o] /\ known[o] = {}
  /\ ObserverReturn(o)

\* The latch ends an idle observer.  No other state looks at it.
IdleShutdown(o) ==
  /\ opc[o] = "idle" /\ oshutdown[o]
  /\ ObserverReturn(o)

ObserverShutdown(o) ==
  /\ ~oshutdown[o] /\ opc[o] # "stopped"
  /\ oshutdown' = [oshutdown EXCEPT ![o] = TRUE]
  /\ UNCHANGED <<reg, registrar, opc, unvisited, found, target, known>>

-----------------------------------------------------------------------------
RegistrarStep(n) ==
  \/ Save(n) \/ Renew(n) \/ RenewUnregistered(n) \/ Delete(n)

PollStep(o) ==
  \/ \E n \in Nodes : Visit(o, n)
  \/ DeleteExpired(o) \/ EndPoll(o)

Others ==
  \/ \E n \in Nodes :
       \/ RegistrarStep(n) \/ BeginDeregister(n) \/ FailAfterSave(n) \/ Stop(n)
  \/ \E o \in Observers :
       \/ ObserverRun(o) \/ Poll(o) \/ PollStep(o) \/ Publish(o)
       \/ ObserverStop(o) \/ IdleShutdown(o) \/ ObserverShutdown(o)
  \/ Tick

Next == (\E n \in Nodes : Run(n)) \/ Others

Spec == Init /\ [][Next]_vars

(* Fairness, for liveness only: time passes, calls to the keyspace return,    *)
(* tickers fire, the receiver of the events does not stop receiving them, and *)
(* a select that is reached again and again does not pass over a ready case.  *)
(* Nobody is obliged to start, stop or shut down anything.                    *)
Fairness ==
  /\ WF_vars(Tick)
  /\ \A n \in Nodes : WF_vars(RegistrarStep(n))
  /\ \A o \in Observers :
       /\ WF_vars(PollStep(o)) /\ SF_vars(Poll(o)) /\ SF_vars(Publish(o))
       /\ SF_vars(IdleShutdown(o))

FairSpec == Spec /\ Fairness

-----------------------------------------------------------------------------
(* A node ID may be configured, so that one process uses it after another. *)
(* Nothing in the code makes the second wait; this is what whoever starts  *)
(* it has to see to.                                                       *)

\* The registration of the last process lives until it can be replaced, or it is
\* gone and no observer is about to delete what replaces it.
Undisturbed(n) ==
  IF reg[n] # None THEN reg[n] > MaxDelay ELSE \A o \in Observers : target[o] # n

\* No observer has published the node, or found what it has yet to publish.
Unknown(n) == \A o \in Observers : n \notin found[o] \cup known[o]

RunWithCare(n) ==
  /\ Run(n)
  /\ Undisturbed(n)
  /\ reg[n] = None => Unknown(n)

CarefulNext == (\E n \in Nodes : RunWithCare(n)) \/ Others

CarefulSpec == Init /\ [][CarefulNext]_vars

FairCarefulSpec == CarefulSpec /\ Fairness

-----------------------------------------------------------------------------
(* Properties.                                                             *)

\* Types: no registration outlives two renewal intervals, an expiry time is
\* pending exactly while a registrar saves one, and an observer has a key to
\* delete exactly while it deletes one.
TypeOK ==
  /\ reg \in [Nodes -> Expiry \cup {None}]
  /\ pc \in [Nodes -> {"stopped", "register", "idle", "save", "expire",
                       "deregister"}]
  /\ pending \in [Nodes -> Expiry \cup {None}]
  /\ \A n \in Nodes : pending[n] # None <=> pc[n] \in {"register", "save"}
  /\ clock \in [Nodes -> 0 .. RenewInterval - 1]
  /\ ticked \in [Nodes -> BOOLEAN]
  /\ lag \in [Nodes -> 0 .. MaxDelay]
  /\ runs \in [Nodes -> 0 .. MaxRuns]
  /\ opc \in [Observers -> {"stopped", "idle", "poll", "delete", "publish"}]
  /\ unvisited \in [Observers -> SUBSET Nodes]
  /\ found \in [Observers -> SUBSET Nodes]
  /\ target \in [Observers -> Nodes \cup {None}]
  /\ \A o \in Observers : target[o] # None <=> opc[o] = "delete"
  /\ known \in [Observers -> SUBSET Nodes]
  /\ oshutdown \in [Observers -> BOOLEAN]

\* The registrar has registered the node, and means to keep it registered.
Member(n) == pc[n] \in {"idle", "save"}

\* While a registrar runs, its node is registered and the registration has not
\* expired, although it is renewed by reading it and then writing it, each late.
StaysRegistered == \A n \in Nodes : Member(n) => Current(n)

\* No observer tells that a node has left whose registrar runs, however long the
\* observer has waited to tell it.
NoFalseDeregistration ==
  [][\A o \in Observers : Publish(o) =>
       \A n \in Deregistered(o) : ~Member(n)]_vars

\* A node that stops, even without deregistering, is in the end known to no
\* observer.
Forgotten ==
  \A n \in Nodes, o \in Observers :
    pc[n] = "stopped" ~> (pc[n] # "stopped" \/ n \notin known[o])

\* A node that registers and stays is in the end known to every observer.
Discovered ==
  \A n \in Nodes, o \in Observers :
    Member(n) /\ opc[o] # "stopped" ~>
      (~Member(n) \/ opc[o] = "stopped" \/ n \in known[o])

\* An observer that is told to shut down stops, provided that somebody receives
\* its events: while it waits to publish one it does not look at the latch.
ObserverStops ==
  \A o \in Observers :
    oshutdown[o] /\ opc[o] # "stopped" ~> opc[o] = "stopped"
=============================================================================
