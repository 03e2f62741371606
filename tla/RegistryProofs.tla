--------------------------- MODULE RegistryProofs ---------------------------
(***************************************************************************)
(* Proofs about the cluster registry, for every number of nodes and        *)
(* observers and every interval and delay.                                 *)
(*                                                                         *)
(* A registration is renewed in time because it lives for two intervals:   *)
(* what remains of it plus the time since the ticker fired is at least two *)
(* intervals once it is saved, and at least one when the ticker has fired  *)
(* again, and the registrar reads and writes it within two delays of that. *)
(* No observer deletes it because an observer deletes only what it has seen*)
(* expired, and a node ID stays expired unless it is used again meanwhile. *)
(* What is asked of a restart is Undisturbed and Unknown; it holds of every*)
(* first run, and so of all runs if node IDs are fresh.                    *)
(***************************************************************************)
EXTENDS Registry, TLAPS

\* The registrar and the keyspace are quick enough.
Prompt == 2 * MaxDelay < RenewInterval

\* A node ID is that of one process, as if it was generated when it started.
FreshIDs == MaxRuns = 1

-----------------------------------------------------------------------------
(* Types.                                                                  *)

\* The step of a ticker's clock and of an expiry time keep their ranges.
LEMMA OlderTypes ==
  ASSUME NEW t \in Expiry \cup {None}
  PROVE  Older(t) \in Expiry \cup {None} /\ (Older(t) = None <=> t = None)
BY ConstantsAssumption DEF Older, Expiry

\* A new registration has a whole lifetime.
LEMMA LifetimeType == Lifetime \in Expiry /\ Lifetime # None
BY ConstantsAssumption DEF Lifetime, Expiry

\* The initial state has the right types.
LEMMA InitTypes == Init => TypeOK
BY ConstantsAssumption DEF Init, TypeOK

\* What the registrar of a node does keeps the types.
LEMMA RegistrarTypes ==
  ASSUME TypeOK, NEW n \in Nodes,
         Run(n) \/ RegistrarStep(n) \/ BeginDeregister(n) \/ FailAfterSave(n)
         \/ Stop(n)
  PROVE  TypeOK'
<1> USE ConstantsAssumption, LifetimeType DEF TypeOK, Goto, Return, observer
<1>1. CASE Run(n)
  BY <1>1 DEF Run, BeginSave
<1>2. CASE Save(n)
  BY <1>2 DEF Save
<1>3. CASE Renew(n)
  BY <1>3 DEF Renew, BeginSave, TickReady
<1>4. CASE RenewUnregistered(n)
  BY <1>4 DEF RenewUnregistered
<1>5. CASE Delete(n)
  BY <1>5 DEF Delete
<1>6. CASE BeginDeregister(n)
  BY <1>6 DEF BeginDeregister
<1>7. CASE FailAfterSave(n)
  BY <1>7 DEF FailAfterSave
<1>8. CASE Stop(n)
  BY <1>8 DEF Stop
<1> QED
  BY <1>1, <1>2, <1>3, <1>4, <1>5, <1>6, <1>7, <1>8 DEF RegistrarStep

\* What an observer does keeps the types.
LEMMA ObserverTypes ==
  ASSUME TypeOK, NEW o \in Observers,
         ObserverRun(o) \/ Poll(o) \/ PollStep(o) \/ Publish(o)
         \/ ObserverStop(o) \/ IdleShutdown(o) \/ ObserverShutdown(o)
  PROVE  TypeOK'
<1> USE ConstantsAssumption DEF TypeOK, registrar
<1>1. CASE ObserverRun(o)
  BY <1>1 DEF ObserverRun, BeginPoll
<1>2. CASE Poll(o)
  BY <1>2 DEF Poll, BeginPoll
<1>3. ASSUME NEW n \in Nodes, Visit(o, n) PROVE TypeOK'
  BY <1>3 DEF Visit
<1>4. CASE DeleteExpired(o)
  BY <1>4 DEF DeleteExpired
<1>5. CASE EndPoll(o)
  BY <1>5 DEF EndPoll
<1>6. CASE Publish(o)
  BY <1>6 DEF Publish, Registered, Deregistered
<1>7. CASE ObserverStop(o) \/ IdleShutdown(o)
  <2>1. ObserverReturn(o)
    BY <1>7 DEF ObserverStop, IdleShutdown
  <2>2. /\ opc' \in [Observers -> {"stopped", "idle", "poll", "delete", "publish"}]
        /\ target' \in [Observers -> Nodes \cup {None}]
        /\ \A q \in Observers : target'[q] # None <=> opc'[q] = "delete"
    BY <2>1 DEF ObserverReturn
  <2>3. /\ unvisited' \in [Observers -> SUBSET Nodes]
        /\ found' \in [Observers -> SUBSET Nodes]
        /\ known' \in [Observers -> SUBSET Nodes]
    BY <2>1 DEF ObserverReturn
  <2> QED
    BY <2>1, <2>2, <2>3 DEF ObserverReturn
<1>8. CASE ObserverShutdown(o)
  BY <1>8 DEF ObserverShutdown
<1> QED
  BY <1>1, <1>2, <1>3, <1>4, <1>5, <1>6, <1>7, <1>8 DEF PollStep

\* Time keeps the types.
LEMMA TickTypes ==
  ASSUME TypeOK, Tick
  PROVE  TypeOK'
<1> USE ConstantsAssumption DEF TypeOK
<1>1. reg' \in [Nodes -> Expiry \cup {None}]
  BY OlderTypes DEF Tick
<1>2. /\ pending' \in [Nodes -> Expiry \cup {None}]
      /\ \A n \in Nodes : pending'[n] # None <=> pc'[n] \in {"register", "save"}
  BY OlderTypes DEF Tick
<1>3. clock' \in [Nodes -> 0 .. RenewInterval - 1]
  BY DEF Tick
<1>4. ticked' \in [Nodes -> BOOLEAN]
  BY DEF Tick
<1>5. lag' \in [Nodes -> 0 .. MaxDelay]
  BY DEF Tick
<1> QED
  BY <1>1, <1>2, <1>3, <1>4, <1>5 DEF Tick, observer

\* Every step keeps the types.
LEMMA NextTypes == TypeOK /\ [Next]_vars => TypeOK'
<1> SUFFICES ASSUME TypeOK, [Next]_vars PROVE TypeOK'
  OBVIOUS
<1>1. CASE Next
  BY <1>1, RegistrarTypes, ObserverTypes, TickTypes DEF Next, Others
<1>2. CASE UNCHANGED vars
  BY <1>2 DEF TypeOK, vars, registrar, observer
<1> QED
  BY <1>1, <1>2

\* Types: see TypeOK.  Whatever the delays and however often a registrar is run,
\* an observer knows what it deletes and a registrar what it saves.
THEOREM TypeCorrect == Spec => []TypeOK
BY InitTypes, NextTypes, PTL DEF Spec

-----------------------------------------------------------------------------
(* The inductive invariant, for a prompt registrar and restarts that are   *)
(* not disturbed.                                                          *)

\* The registrar of the node has registered it or is about to.
Registers(n) == pc[n] \in {"register", "idle", "save"}

\* How an expiry time relates to the registrar's ticker.
InTime(n) ==
  /\ pc[n] = "stopped" => ~ticked[n]
  /\ pc[n] = "register" =>
       /\ ~ticked[n] /\ clock[n] = lag[n] /\ pending[n] + clock[n] >= Lifetime
       /\ reg[n] # None => reg[n] + lag[n] > MaxDelay
  /\ pc[n] = "idle" /\ ~ticked[n] =>
       reg[n] # None /\ reg[n] + clock[n] >= Lifetime
  /\ pc[n] = "idle" /\ ticked[n] =>
       /\ reg[n] # None /\ reg[n] + clock[n] >= RenewInterval
       /\ clock[n] = lag[n]
  /\ pc[n] = "save" =>
       /\ ~ticked[n] /\ clock[n] <= MaxDelay + lag[n]
       /\ pending[n] + clock[n] >= Lifetime
       /\ reg[n] # None /\ reg[n] + clock[n] >= RenewInterval

RegistrarsInTime == \A n \in Nodes : InTime(n)

\* The node is not registered, and nobody is about to register it.
Gone(n) == ~Registers(n) /\ ~Current(n)

\* Observers delete registrations of nodes that are gone.
TargetsGone == \A o \in Observers : opc[o] = "delete" => Gone(target[o])

IInv == TypeOK /\ RegistrarsInTime /\ TargetsGone

\* What an observer has missed is gone.
ObserverKnows(o) ==
  /\ opc[o] \in {"poll", "delete", "publish"} =>
       \A n \in (known[o] \ found[o]) \ unvisited[o] : Gone(n)
  /\ opc[o] = "publish" => unvisited[o] = {}

\* A node that is to be registered anew cannot be missed by anybody.
NewIsUnknown == \A n \in Nodes : pc[n] = "register" /\ reg[n] = None => Unknown(n)

KnowInv == IInv /\ NewIsUnknown /\ \A o \in Observers : ObserverKnows(o)

\* No restart is disturbed.
RestartsUndisturbed == [][\A n \in Nodes : Run(n) => Undisturbed(n)]_vars

-----------------------------------------------------------------------------
(* What follows from the invariant in one state.                           *)

\* The parts of TypeOK that arithmetic needs.
LEMMA NumberTypes ==
  ASSUME TypeOK, NEW n \in Nodes
  PROVE  /\ RenewInterval \in Nat /\ RenewInterval > 0 /\ MaxDelay \in Nat
         /\ Lifetime = 2 * RenewInterval
         /\ reg[n] # None => reg[n] \in Int
         /\ pc[n] \in {"register", "save"} => pending[n] \in Int
         /\ pc[n] \notin {"register", "save"} => pending[n] = None
         /\ clock[n] \in Nat /\ clock[n] < RenewInterval
         /\ lag[n] \in Nat /\ lag[n] <= MaxDelay
         /\ runs[n] \in Nat /\ runs[n] <= MaxRuns
BY ConstantsAssumption DEF TypeOK, Expiry, Lifetime

\* A registration that somebody keeps has not expired.
LEMMA RegisteredIsCurrent ==
  ASSUME TypeOK, RegistrarsInTime, Prompt, NEW n \in Nodes,
         Registers(n), reg[n] # None
  PROVE  Current(n)
<1>1. InTime(n)
  BY DEF RegistrarsInTime
<1>2. CASE pc[n] = "idle" /\ ~ticked[n]
  BY <1>1, <1>2, NumberTypes DEF InTime, Current
<1>3. CASE pc[n] = "idle" /\ ticked[n]
  BY <1>1, <1>3, NumberTypes DEF InTime, Current, Prompt
<1>4. CASE pc[n] = "save"
  BY <1>1, <1>4, NumberTypes DEF InTime, Current, Prompt
<1>5. CASE pc[n] = "register"
  BY <1>1, <1>5, NumberTypes DEF InTime, Current
<1> QED
  BY <1>2, <1>3, <1>4, <1>5 DEF Registers

\* A member's registration has not expired.
LEMMA MemberIsCurrent ==
  ASSUME TypeOK, RegistrarsInTime, Prompt, NEW n \in Nodes, Member(n)
  PROVE  Current(n)
<1>1. Registers(n) /\ reg[n] # None
  BY DEF RegistrarsInTime, InTime, Member, Registers
<1> QED
  BY <1>1, RegisteredIsCurrent

\* A registration that has expired is that of a node that is gone.
LEMMA ExpiredIsGone ==
  ASSUME TypeOK, RegistrarsInTime, Prompt, NEW n \in Nodes,
         reg[n] # None, ~Current(n)
  PROVE  Gone(n)
BY RegisteredIsCurrent DEF Gone

\* A node that is visited and not found is gone, unless it registers anew.
LEMMA MissedIsGone ==
  ASSUME TypeOK, RegistrarsInTime, Prompt, NEW n \in Nodes, ~Current(n),
         ~(pc[n] = "register" /\ reg[n] = None)
  PROVE  Gone(n)
<1>1. CASE Member(n)
  BY <1>1, MemberIsCurrent
<1>2. CASE pc[n] = "register"
  BY <1>2, ExpiredIsGone
<1> QED
  BY <1>1, <1>2 DEF Gone, Registers, Member

-----------------------------------------------------------------------------
(* The steps of registrars and of time.                                    *)

\* The variables of one node keep their values.
SameNode(n) ==
  /\ reg'[n] = reg[n] /\ pc'[n] = pc[n] /\ pending'[n] = pending[n]
  /\ clock'[n] = clock[n] /\ ticked'[n] = ticked[n] /\ lag'[n] = lag[n]

\* A step of the registrar of n that the invariant allows: other nodes stay as
\* they are, n is in time afterwards, and n does not come back unless it is run,
\* which is the only way to have no registration and be about to register.
Allowed(n) ==
  /\ \A m \in Nodes \ {n} : SameNode(m)
  /\ InTime(n)'
  /\ Gone(n) => Gone(n)' \/ Run(n)
  /\ pc'[n] = "register" => Run(n) /\ reg'[n] = reg[n]

\* A run that is not disturbed begins in time.
LEMMA RunIsAllowed ==
  ASSUME IInv, Prompt, NEW n \in Nodes, Run(n), Undisturbed(n)
  PROVE  Allowed(n)
<1>1. /\ reg'[n] = reg[n] /\ pc'[n] = "register" /\ lag'[n] = 0 /\ clock'[n] = 0
      /\ pending'[n] = Lifetime /\ ticked'[n] = ticked[n] /\ ~ticked[n]
  BY DEF IInv, TypeOK, RegistrarsInTime, InTime, Run, Goto, BeginSave
<1>2. \A m \in Nodes \ {n} : SameNode(m)
  BY DEF IInv, TypeOK, Run, Goto, BeginSave, SameNode
<1>3. reg[n] # None => reg[n] \in Int /\ reg[n] > MaxDelay
  BY NumberTypes DEF IInv, Undisturbed
<1>4. Lifetime \in Int /\ MaxDelay \in Int
  BY ConstantsAssumption DEF Lifetime
<1>5. InTime(n)'
  BY <1>1, <1>3, <1>4 DEF InTime
<1> QED
  BY <1>1, <1>2, <1>5 DEF Allowed

\* Every other step of a registrar is allowed, if it is prompt.
LEMMA RegistrarIsAllowed ==
  ASSUME IInv, Prompt, NEW n \in Nodes,
         RegistrarStep(n) \/ BeginDeregister(n) \/ FailAfterSave(n) \/ Stop(n)
  PROVE  Allowed(n) /\ UNCHANGED observer
<1>1. /\ reg \in [Nodes -> Expiry \cup {None}]
      /\ pc \in [Nodes -> {"stopped", "register", "idle", "save", "expire",
                           "deregister"}]
      /\ pending \in [Nodes -> Expiry \cup {None}]
      /\ clock \in [Nodes -> 0 .. RenewInterval - 1]
      /\ ticked \in [Nodes -> BOOLEAN]
      /\ lag \in [Nodes -> 0 .. MaxDelay]
  BY DEF IInv, TypeOK
<1>2. InTime(n)
  BY DEF IInv, RegistrarsInTime
<1>3. /\ RenewInterval \in Nat /\ RenewInterval > 0 /\ MaxDelay \in Nat
      /\ Lifetime = 2 * RenewInterval
      /\ reg[n] # None => reg[n] \in Int
      /\ pc[n] \in {"register", "save"} => pending[n] \in Int
      /\ clock[n] \in Nat /\ clock[n] < RenewInterval
      /\ lag[n] \in Nat /\ lag[n] <= MaxDelay
  BY NumberTypes DEF IInv
<1> USE DEF Allowed, SameNode, InTime, Gone, Registers, Current, Goto, Return
<1>5. CASE Save(n)
  BY <1>1, <1>2, <1>3, <1>5, ConstantsAssumption DEF Save
<1>6. CASE Renew(n)
  <2>1. /\ pc[n] = "idle" /\ ticked[n] /\ clock[n] = lag[n]
        /\ reg[n] # None /\ reg[n] + clock[n] >= RenewInterval
        /\ reg[n] >= 0
    BY <1>2, <1>3, <1>6 DEF Renew, TickReady, Prompt
  <2>2. /\ pc' = [pc EXCEPT ![n] = "save"] /\ lag' = [lag EXCEPT ![n] = 0]
        /\ pending' = [pending EXCEPT ![n] = Lifetime]
        /\ ticked' = [ticked EXCEPT ![n] = FALSE]
        /\ UNCHANGED <<reg, clock, runs, observer>>
    BY <1>3, <1>6, <2>1 DEF Renew, BeginSave
  <2>3. \A m \in Nodes \ {n} : SameNode(m)
    BY <1>1, <2>2
  <2>4. /\ pc'[n] = "save" /\ lag'[n] = 0 /\ pending'[n] = Lifetime
        /\ ticked'[n] = FALSE /\ reg'[n] = reg[n] /\ clock'[n] = clock[n]
    BY <1>1, <2>2
  <2>5. InTime(n)'
    BY <1>3, <2>1, <2>4
  <2> QED
    BY <2>1, <2>2, <2>3, <2>4, <2>5
<1>7. CASE RenewUnregistered(n)
  BY <1>1, <1>2, <1>3, <1>7 DEF RenewUnregistered, TickReady
<1>8. CASE Delete(n)
  BY <1>1, <1>2, <1>3, <1>8 DEF Delete
<1>9. CASE BeginDeregister(n)
  BY <1>1, <1>2, <1>3, <1>9 DEF BeginDeregister
<1>10. CASE FailAfterSave(n)
  BY <1>1, <1>2, <1>3, <1>10 DEF FailAfterSave
<1>11. CASE Stop(n)
  BY <1>1, <1>2, <1>3, <1>11 DEF Stop
<1> QED
  BY <1>5, <1>6, <1>7, <1>8, <1>9, <1>10, <1>11 DEF RegistrarStep

\* Nodes that are gone stay away: what observers delete is still gone.
LEMMA TargetsStay ==
  ASSUME TypeOK, TargetsGone, UNCHANGED observer,
         \A o \in Observers, n \in Nodes :
           opc[o] = "delete" /\ target[o] = n /\ Gone(n) => Gone(n)'
  PROVE  TargetsGone'
<1> SUFFICES ASSUME NEW o \in Observers, opc'[o] = "delete" PROVE Gone(target[o])'
  BY DEF TargetsGone
<1>1. opc[o] = "delete" /\ target'[o] = target[o] /\ target[o] \in Nodes
  BY DEF observer, TypeOK
<1>2. \A n \in Nodes : target[o] = n => Gone(n)'
  BY <1>1 DEF TargetsGone
<1> QED
  BY <1>1, <1>2 DEF Gone, Registers, Current

\* A step of a registrar keeps the invariant.
LEMMA RegistrarKeeps ==
  ASSUME IInv, Prompt, NEW n \in Nodes,
         \/ Run(n) /\ Undisturbed(n)
         \/ RegistrarStep(n) \/ BeginDeregister(n) \/ FailAfterSave(n) \/ Stop(n)
  PROVE  IInv' /\ Allowed(n) /\ UNCHANGED observer
<1>1. Allowed(n) /\ UNCHANGED observer
  BY RegistrarIsAllowed, RunIsAllowed DEF Run
<1>2. TypeOK'
  BY RegistrarTypes DEF IInv
<1>3. RegistrarsInTime'
  BY <1>1 DEF IInv, RegistrarsInTime, InTime, Allowed, SameNode
<1>4. \A m \in Nodes : Gone(m) => Gone(m)' \/ (m = n /\ Run(n))
  BY <1>1 DEF Gone, Registers, Current, Allowed, SameNode
<1>5. ASSUME Run(n), NEW o \in Observers, opc[o] = "delete", target[o] = n, Gone(n)
      PROVE  FALSE
  <2>1. Undisturbed(n) /\ pc[n] = "stopped"
    BY <1>5 DEF Run, RegistrarStep, BeginDeregister, FailAfterSave, Stop, Save, Renew,
                TickReady, RenewUnregistered, Delete
  <2>2. reg[n] # None => reg[n] \in Int /\ MaxDelay \in Nat
    BY NumberTypes DEF IInv
  <2> QED
    BY <1>5, <2>1, <2>2 DEF Undisturbed, Gone, Current
<1>6. TargetsGone'
  BY <1>1, <1>4, <1>5, TargetsStay DEF IInv
<1> QED
  BY <1>1, <1>2, <1>3, <1>6 DEF IInv

\* What has expired stays expired.
LEMMA OlderIsNotCurrent ==
  ASSUME TypeOK, NEW n \in Nodes, ~Current(n), Tick
  PROVE  ~Current(n)'
<1>1. reg'[n] = Older(reg[n]) /\ (reg[n] # None => reg[n] \in Int)
  BY NumberTypes DEF Tick
<1> QED
  BY <1>1 DEF Older, Current

\* The passing of time keeps registrars in time, if they are prompt.
LEMMA TickKeeps ==
  ASSUME IInv, Prompt, Tick
  PROVE  IInv'
<1>1. TypeOK'
  BY TickTypes DEF IInv
<1>2. ASSUME NEW n \in Nodes PROVE InTime(n)'
  <2>1. InTime(n)
    BY DEF IInv, RegistrarsInTime
  <2>2. /\ RenewInterval \in Nat /\ RenewInterval > 0 /\ MaxDelay \in Nat
        /\ Lifetime = 2 * RenewInterval
        /\ reg[n] # None => reg[n] \in Int
        /\ pc[n] \in {"register", "save"} => pending[n] \in Int
        /\ clock[n] \in Nat /\ clock[n] < RenewInterval
        /\ lag[n] \in Nat /\ lag[n] <= MaxDelay
    BY NumberTypes DEF IInv
  <2>3. /\ reg'[n] = Older(reg[n]) /\ pending'[n] = Older(pending[n])
        /\ lag'[n] = IF Busy(n) THEN lag[n] + 1 ELSE 0
        /\ clock'[n] = IF Running(n) /\ clock[n] + 1 < RenewInterval
                       THEN clock[n] + 1 ELSE 0
        /\ ticked'[n] <=> ticked[n] \/ (Running(n) /\ clock[n] + 1 = RenewInterval)
        /\ pc' = pc
        /\ Busy(n) => lag[n] < MaxDelay
        /\ ticked[n] \in BOOLEAN
    BY DEF Tick, IInv, TypeOK
  <2>4. \A t \in Int : t # None /\ (t > 0 => Older(t) = t - 1)
    BY ConstantsAssumption DEF Older
  <2>5. CASE pc[n] = "register"
    <3>1. /\ clock'[n] = clock[n] + 1 /\ lag'[n] = lag[n] + 1 /\ ~ticked'[n]
          /\ clock[n] = lag[n] /\ lag[n] < MaxDelay
      BY <2>1, <2>2, <2>3, <2>5 DEF InTime, Busy, Running, Prompt
    <3>2. pending'[n] + clock'[n] >= Lifetime
      BY <2>1, <2>2, <2>3, <2>4, <2>5, <3>1 DEF InTime
    <3>3. reg'[n] # None => reg'[n] + lag'[n] > MaxDelay
      <4>1. CASE reg[n] = None
        BY <2>3, <4>1 DEF Older
      <4>2. CASE reg[n] # None
        <5>1. reg[n] \in Int /\ reg[n] + lag[n] > MaxDelay /\ reg[n] > 0
          BY <2>1, <2>2, <2>5, <4>2 DEF InTime
        <5>2. reg'[n] = reg[n] - 1
          BY <2>3, <2>4, <5>1
        <5> QED
          BY <2>2, <3>1, <5>1, <5>2
      <4> QED
        BY <4>1, <4>2
    <3> QED
      BY <2>3, <2>5, <3>1, <3>2, <3>3 DEF InTime
  <2>6. CASE pc[n] = "idle" /\ ~ticked[n]
    <3>1. reg[n] \in Int /\ reg[n] > 0 /\ reg[n] + clock[n] >= Lifetime
      BY <2>1, <2>2, <2>6 DEF InTime
    <3>2. reg'[n] = reg[n] - 1 /\ reg'[n] # None
      <4>1. reg[n] - 1 \in Int
        BY <3>1
      <4> QED
        BY <2>3, <2>4, <3>1, <4>1
    <3>3. CASE clock[n] + 1 < RenewInterval
      <4>1. clock'[n] = clock[n] + 1 /\ ~ticked'[n]
        BY <2>2, <2>3, <2>6, <3>3 DEF Running
      <4> QED
        BY <2>2, <2>3, <2>6, <3>1, <3>2, <4>1 DEF InTime
    <3>4. CASE clock[n] + 1 = RenewInterval
      <4>1. clock'[n] = 0 /\ ticked'[n] /\ lag'[n] = 0
        BY <2>2, <2>3, <2>6, <3>4 DEF Running, Busy
      <4> QED
        BY <2>2, <2>3, <2>6, <3>1, <3>2, <3>4, <4>1 DEF InTime
    <3> QED
      BY <2>2, <3>3, <3>4
  <2>7. CASE pc[n] = "idle" /\ ticked[n]
    <3>1. /\ reg[n] \in Int /\ reg[n] + clock[n] >= RenewInterval
          /\ clock[n] = lag[n] /\ lag[n] < MaxDelay /\ reg[n] > 0
      BY <2>1, <2>2, <2>3, <2>7 DEF InTime, Busy, Running, Prompt
    <3>2. reg'[n] = reg[n] - 1 /\ reg'[n] # None
      <4>1. reg[n] - 1 \in Int
        BY <3>1
      <4> QED
        BY <2>3, <2>4, <3>1, <4>1
    <3>3. clock'[n] = clock[n] + 1 /\ lag'[n] = lag[n] + 1 /\ ticked'[n]
      BY <2>2, <2>3, <2>7, <3>1 DEF Running, Busy, Prompt
    <3> QED
      BY <2>2, <2>3, <2>7, <3>1, <3>2, <3>3 DEF InTime
  <2>8. CASE pc[n] = "save"
    BY <2>1, <2>2, <2>3, <2>4, <2>8 DEF InTime, Busy, Running, Prompt
  <2>9. CASE pc[n] \notin {"register", "idle", "save"}
    BY <2>1, <2>3, <2>9 DEF InTime, Running
  <2> QED
    BY <2>5, <2>6, <2>7, <2>8, <2>9
<1>3. RegistrarsInTime'
  BY <1>2 DEF RegistrarsInTime
<1>4. pc' = pc /\ UNCHANGED observer
  BY DEF Tick
<1>5. \A n \in Nodes : Gone(n) => Gone(n)'
  BY <1>4, OlderIsNotCurrent DEF IInv, Gone, Registers
<1>6. TargetsGone'
  BY <1>4, <1>5, TargetsStay DEF IInv
<1> QED
  BY <1>1, <1>3, <1>6 DEF IInv

-----------------------------------------------------------------------------
(* The steps of observers.                                                 *)

\* The parts about registrars hold as long as they and the registry stay.
LEMMA RegistrarsStay ==
  ASSUME RegistrarsInTime, UNCHANGED <<reg, registrar>>
  PROVE  RegistrarsInTime' /\ \A n : Gone(n)' <=> Gone(n)
BY DEF registrar, RegistrarsInTime, InTime, Gone, Registers, Current

\* An observer begins to delete what it sees expired.
LEMMA VisitKeeps ==
  ASSUME IInv, Prompt, NEW o \in Observers, NEW n \in Nodes, Visit(o, n)
  PROVE  IInv'
<1>1. TypeOK'
  BY ObserverTypes DEF PollStep, IInv
<1>2. RegistrarsInTime' /\ \A m : Gone(m)' <=> Gone(m)
  BY RegistrarsStay DEF IInv, Visit
<1>3. ASSUME NEW p \in Observers, opc'[p] = "delete" PROVE Gone(target'[p])
  <2>1. CASE opc[p] = "delete" /\ target'[p] = target[p]
    BY <2>1 DEF IInv, TargetsGone
  <2>2. CASE ~(opc[p] = "delete" /\ target'[p] = target[p])
    <3>1. p = o /\ ~Current(n) /\ reg[n] # None /\ target'[p] = n
      BY <1>3, <2>2 DEF Visit, IInv, TypeOK
    <3> QED
      BY <3>1, ExpiredIsGone DEF IInv
  <2> QED
    BY <2>1, <2>2
<1>4. TargetsGone'
  BY <1>2, <1>3 DEF TargetsGone
<1> QED
  BY <1>1, <1>2, <1>4 DEF IInv

\* The registration an observer deletes is that of a node that is gone.
LEMMA DeleteExpiredKeeps ==
  ASSUME IInv, NEW o \in Observers, DeleteExpired(o)
  PROVE  /\ IInv' /\ pc' = pc
         /\ \A m \in Nodes : Gone(m) => Gone(m)'
         /\ \A m \in Nodes : pc[m] = "register" => reg'[m] = reg[m]
<1>1. TypeOK'
  BY ObserverTypes DEF PollStep, IInv
<1>2. PICK n \in Nodes : target[o] = n
  BY DEF IInv, TypeOK, DeleteExpired
<1>3. Gone(n)
  BY <1>2 DEF IInv, TargetsGone, DeleteExpired
<1>4. /\ reg' = [reg EXCEPT ![n] = None]
      /\ opc' = [opc EXCEPT ![o] = "poll"]
      /\ target' = [target EXCEPT ![o] = None]
      /\ UNCHANGED <<registrar, unvisited, found, known, oshutdown>>
  BY <1>2 DEF DeleteExpired
<1>5. /\ pc' = pc /\ pending' = pending /\ clock' = clock /\ ticked' = ticked
      /\ lag' = lag /\ runs' = runs
  BY <1>4 DEF registrar
<1>6. reg'[n] = None /\ \A m \in Nodes \ {n} : reg'[m] = reg[m]
  BY <1>4 DEF IInv, TypeOK
<1>7. RegistrarsInTime'
  <2> SUFFICES ASSUME NEW m \in Nodes PROVE InTime(m)'
    BY DEF RegistrarsInTime
  <2>1. InTime(m)
    BY DEF IInv, RegistrarsInTime
  <2>2. CASE m = n
    BY <1>3, <1>5, <2>1, <2>2 DEF InTime, Gone, Registers
  <2>3. CASE m # n
    BY <1>5, <1>6, <2>1, <2>3 DEF InTime
  <2> QED
    BY <2>2, <2>3
<1>8. \A m \in Nodes : Gone(m) => Gone(m)'
  BY <1>5, <1>6 DEF Gone, Registers, Current
<1>9. TargetsGone'
  <2> SUFFICES ASSUME NEW p \in Observers, opc'[p] = "delete" PROVE Gone(target[p])'
    BY DEF TargetsGone
  <2>1. opc[p] = "delete" /\ target'[p] = target[p] /\ target[p] \in Nodes
    BY <1>4 DEF IInv, TypeOK
  <2>2. \A m \in Nodes : target[p] = m => Gone(m)'
    BY <1>8, <2>1 DEF IInv, TargetsGone
  <2> QED
    BY <2>1, <2>2 DEF Gone, Registers, Current
<1>10. \A m \in Nodes : pc[m] = "register" => reg'[m] = reg[m]
  BY <1>3, <1>6 DEF Gone, Registers
<1> QED
  BY <1>1, <1>5, <1>7, <1>8, <1>9, <1>10 DEF IInv

\* The other steps of an observer neither write nor begin to delete.
LEMMA ObserverKeeps ==
  ASSUME IInv, NEW o \in Observers,
         ObserverRun(o) \/ Poll(o) \/ EndPoll(o) \/ Publish(o)
         \/ ObserverStop(o) \/ IdleShutdown(o) \/ ObserverShutdown(o)
  PROVE  IInv' /\ UNCHANGED <<reg, registrar>>
<1>1. TypeOK'
  BY ObserverTypes DEF PollStep, IInv
<1>2. UNCHANGED <<reg, registrar>>
  BY DEF ObserverRun, Poll, EndPoll, Publish, ObserverStop, IdleShutdown,
         ObserverReturn, ObserverShutdown
<1>3. RegistrarsInTime' /\ \A m : Gone(m)' <=> Gone(m)
  BY <1>2, RegistrarsStay DEF IInv
<1>4. ASSUME NEW p \in Observers, opc'[p] = "delete"
      PROVE  opc[p] = "delete" /\ target'[p] = target[p]
  BY <1>4 DEF IInv, TypeOK, ObserverRun, Poll, BeginPoll, EndPoll, Publish,
              ObserverStop, IdleShutdown, ObserverReturn, ObserverShutdown
<1>5. TargetsGone'
  BY <1>3, <1>4 DEF IInv, TargetsGone
<1> QED
  BY <1>1, <1>2, <1>3, <1>5 DEF IInv

-----------------------------------------------------------------------------
(* The theorems about registration.                                        *)

\* The initial state satisfies the invariant.
LEMMA InitIInv == Init => IInv
<1> SUFFICES ASSUME Init PROVE IInv
  OBVIOUS
<1>1. TypeOK
  BY InitTypes
<1>2. RegistrarsInTime
  BY DEF Init, RegistrarsInTime, InTime
<1>3. TargetsGone
  BY DEF Init, TargetsGone
<1> QED
  BY <1>1, <1>2, <1>3 DEF IInv

\* Every step keeps the invariant, if registrars are prompt and no restart is
\* disturbed.
LEMMA NextIInv ==
  ASSUME Prompt
  PROVE  /\ IInv
         /\ [Next]_vars
         /\ [\A n \in Nodes : Run(n) => Undisturbed(n)]_vars
         => IInv'
<1> SUFFICES ASSUME IInv, [Next]_vars,
                    [\A n \in Nodes : Run(n) => Undisturbed(n)]_vars
             PROVE  IInv'
  OBVIOUS
<1>1. CASE UNCHANGED vars
  <2>1. UNCHANGED <<reg, registrar>> /\ UNCHANGED observer
    BY <1>1 DEF vars
  <2>2. TypeOK'
    BY <1>1, NextTypes DEF IInv
  <2>3. RegistrarsInTime' /\ \A m : Gone(m)' <=> Gone(m)
    BY <2>1, RegistrarsStay DEF IInv
  <2>4. TargetsGone'
    BY <2>1, <2>3, TargetsStay DEF IInv
  <2> QED
    BY <2>2, <2>3, <2>4 DEF IInv
<1>2. CASE ~UNCHANGED vars
  <2>1. ASSUME NEW n \in Nodes, Run(n) PROVE IInv'
    <3>1. Undisturbed(n)
      BY <1>2, <2>1
    <3> QED
      BY <2>1, <3>1, RegistrarKeeps
  <2>2. ASSUME NEW n \in Nodes,
               \/ RegistrarStep(n) \/ BeginDeregister(n)
               \/ FailAfterSave(n) \/ Stop(n)
        PROVE  IInv'
    BY <2>2, RegistrarKeeps
  <2>3. ASSUME NEW o \in Observers, NEW n \in Nodes, Visit(o, n) PROVE IInv'
    BY <2>3, VisitKeeps
  <2>4. ASSUME NEW o \in Observers, DeleteExpired(o) PROVE IInv'
    BY <2>4, DeleteExpiredKeeps
  <2>5. ASSUME NEW o \in Observers,
               ObserverRun(o) \/ Poll(o) \/ EndPoll(o) \/ Publish(o)
               \/ ObserverStop(o) \/ IdleShutdown(o) \/ ObserverShutdown(o)
        PROVE  IInv'
    BY <2>5, ObserverKeeps
  <2>6. CASE Tick
    BY <2>6, TickKeeps
  <2> QED
    BY <1>2, <2>1, <2>2, <2>3, <2>4, <2>5, <2>6 DEF Next, Others, PollStep
<1> QED
  BY <1>1, <1>2

\* The invariant holds of every behaviour whose restarts are undisturbed.
THEOREM Invariance ==
  ASSUME Prompt
  PROVE  Spec /\ RestartsUndisturbed => []IInv
BY InitIInv, NextIInv, PTL DEF Spec, RestartsUndisturbed

\* A registrar that runs keeps its node registered (StaysRegistered), also under
\* an ID that was used before, if the last registration is replaced before it
\* expires or has been deleted for good.  The margin is that two delays are
\* shorter than the renewal interval.
THEOREM RestartedStaysRegistered ==
  ASSUME Prompt
  PROVE  Spec /\ RestartsUndisturbed => []StaysRegistered
<1>1. IInv => StaysRegistered
  BY MemberIsCurrent DEF IInv, StaysRegistered
<1> QED
  BY <1>1, Invariance, PTL

-----------------------------------------------------------------------------
(* What observers publish.                                                 *)

\* An observer knows the truth as long as it stays as it is, and what was gone
\* and known is still gone.
LEMMA StillKnows ==
  ASSUME NEW o \in Observers, ObserverKnows(o), TypeOK,
         opc'[o] = opc[o] /\ unvisited'[o] = unvisited[o]
           /\ found'[o] = found[o] /\ known'[o] = known[o],
         \A n \in Nodes : n \in known[o] /\ Gone(n) => Gone(n)'
  PROVE  ObserverKnows(o)'
<1>1. known[o] \subseteq Nodes
  BY DEF TypeOK
<1>2. opc[o] \in {"poll", "delete", "publish"} =>
        \A n \in (known[o] \ found[o]) \ unvisited[o] : Gone(n)'
  BY <1>1 DEF ObserverKnows
<1> QED
  BY <1>2 DEF ObserverKnows, Gone, Registers, Current

\* The steps of registrars, if nobody knows a node that registers anew.
LEMMA RegistrarKnow ==
  ASSUME KnowInv, Prompt, NEW n \in Nodes,
         \/ RunWithCare(n)
         \/ RegistrarStep(n) \/ BeginDeregister(n) \/ FailAfterSave(n) \/ Stop(n)
  PROVE  KnowInv'
<1>1. IInv' /\ Allowed(n) /\ UNCHANGED observer
  BY RegistrarKeeps DEF KnowInv, RunWithCare
<1>2. Run(n) /\ reg[n] = None => Unknown(n)
  <2>1. ~Run(n) \/ RunWithCare(n)
    BY DEF Run, RegistrarStep, BeginDeregister, FailAfterSave, Stop, Save, Renew,
           TickReady, RenewUnregistered, Delete
  <2> QED
    BY <2>1 DEF RunWithCare
<1>3. Run(n) /\ Gone(n) => reg[n] = None
  <2>1. ~Run(n) \/ RunWithCare(n)
    BY DEF Run, RegistrarStep, BeginDeregister, FailAfterSave, Stop, Save, Renew,
           TickReady, RenewUnregistered, Delete
  <2>2. reg[n] # None => reg[n] \in Int /\ MaxDelay \in Nat
    BY NumberTypes DEF KnowInv, IInv
  <2> QED
    BY <2>1, <2>2 DEF RunWithCare, Undisturbed, Gone, Current
<1>4. NewIsUnknown'
  <2> SUFFICES ASSUME NEW m \in Nodes, pc'[m] = "register", reg'[m] = None
               PROVE  Unknown(m)'
    BY DEF NewIsUnknown
  <2>1. Unknown(m)
    BY <1>1, <1>2 DEF KnowInv, NewIsUnknown, Allowed, SameNode
  <2> QED
    BY <1>1, <2>1 DEF Unknown, observer
<1>5. ASSUME NEW o \in Observers PROVE ObserverKnows(o)'
  <2>1. ASSUME NEW m \in Nodes, m \in known[o], Gone(m) PROVE Gone(m)'
    <3>1. m # n => Gone(m)'
      BY <1>1, <2>1 DEF Allowed, SameNode, Gone, Registers, Current
    <3>2. m = n => ~Run(n)
      BY <1>2, <1>3, <2>1 DEF Unknown
    <3> QED
      BY <1>1, <2>1, <3>1, <3>2 DEF Allowed
  <2> QED
    BY <1>1, <2>1, StillKnows DEF KnowInv, IInv, observer
<1> QED
  BY <1>1, <1>4, <1>5 DEF KnowInv

\* The passing of time.
LEMMA TickKnow ==
  ASSUME KnowInv, Prompt, Tick
  PROVE  KnowInv'
<1>1. IInv' /\ pc' = pc /\ UNCHANGED observer
  BY TickKeeps DEF KnowInv, Tick
<1>2. \A n \in Nodes : reg'[n] = None => reg[n] = None
  BY NumberTypes, ConstantsAssumption DEF Tick, Older, KnowInv, IInv
<1>3. NewIsUnknown'
  BY <1>1, <1>2 DEF KnowInv, NewIsUnknown, Unknown, observer
<1>4. \A n \in Nodes : Gone(n) => Gone(n)'
  BY <1>1, OlderIsNotCurrent DEF KnowInv, IInv, Gone, Registers
<1>5. ASSUME NEW o \in Observers PROVE ObserverKnows(o)'
  BY <1>1, <1>4, StillKnows DEF KnowInv, IInv, observer
<1> QED
  BY <1>1, <1>3, <1>5 DEF KnowInv

\* A step of one observer that writes nothing.
LEMMA OneObserverMoves ==
  ASSUME KnowInv, IInv', UNCHANGED <<reg, registrar>>, NEW o \in Observers,
         \A p \in Observers \ {o} :
           /\ opc'[p] = opc[p] /\ unvisited'[p] = unvisited[p]
           /\ found'[p] = found[p] /\ known'[p] = known[p],
         \A n \in (found'[o] \cup known'[o]) \ (found[o] \cup known[o]) : Current(n),
         ObserverKnows(o)'
  PROVE  KnowInv'
<1>1. pc' = pc /\ reg' = reg /\ \A n : Gone(n)' <=> Gone(n)
  BY DEF registrar, Gone, Registers, Current
<1>2. NewIsUnknown'
  <2> SUFFICES ASSUME NEW n \in Nodes, pc'[n] = "register", reg'[n] = None
               PROVE  Unknown(n)'
    BY DEF NewIsUnknown
  <2>1. Unknown(n) /\ ~Current(n)
    BY <1>1 DEF KnowInv, NewIsUnknown, Current
  <2> QED
    BY <2>1 DEF Unknown
<1>3. ASSUME NEW p \in Observers \ {o} PROVE ObserverKnows(p)'
  <2>1. ObserverKnows(p) /\ TypeOK
    BY DEF KnowInv, IInv
  <2> QED
    BY <1>1, <2>1, StillKnows
<1> QED
  BY <1>2, <1>3 DEF KnowInv

\* Whatever an observer visits, it learns the truth.
LEMMA VisitKnow ==
  ASSUME KnowInv, Prompt, NEW o \in Observers, NEW n \in Nodes, Visit(o, n)
  PROVE  KnowInv'
<1>1. IInv' /\ UNCHANGED <<reg, registrar>>
  BY VisitKeeps DEF KnowInv, Visit
<1>2. /\ opc[o] = "poll" /\ n \in unvisited[o]
      /\ opc'[o] \in {"poll", "delete"}
      /\ unvisited'[o] = unvisited[o] \ {n} /\ known'[o] = known[o]
      /\ found'[o] = IF Current(n) THEN found[o] \cup {n} ELSE found[o]
      /\ known[o] \subseteq Nodes
  BY DEF Visit, KnowInv, IInv, TypeOK
<1>3. \A p \in Observers \ {o} :
        /\ opc'[p] = opc[p] /\ unvisited'[p] = unvisited[p]
        /\ found'[p] = found[p] /\ known'[p] = known[p]
  BY DEF Visit, KnowInv, IInv, TypeOK
<1>4. \A m : Gone(m)' <=> Gone(m)
  BY <1>1 DEF registrar, Gone, Registers, Current
<1>5. ASSUME NEW m \in (known'[o] \ found'[o]) \ unvisited'[o] PROVE Gone(m)
  <2>1. CASE m = n
    <3>1. ~Current(n)
      BY <1>2, <1>5, <2>1
    <3>2. ~(pc[n] = "register" /\ reg[n] = None)
      BY <1>2, <1>5, <2>1 DEF KnowInv, NewIsUnknown, Unknown
    <3> QED
      BY <2>1, <3>1, <3>2, MissedIsGone DEF KnowInv, IInv
  <2>2. CASE m # n
    BY <1>2, <1>5, <2>2 DEF KnowInv, ObserverKnows
  <2> QED
    BY <2>1, <2>2
<1>6. ObserverKnows(o)'
  BY <1>2, <1>4, <1>5 DEF ObserverKnows
<1>7. \A m \in (found'[o] \cup known'[o]) \ (found[o] \cup known[o]) : Current(m)
  BY <1>2
<1> QED
  BY <1>1, <1>3, <1>6, <1>7, OneObserverMoves

\* A deletion changes nothing that observers know.
LEMMA DeleteExpiredKnow ==
  ASSUME KnowInv, NEW o \in Observers, DeleteExpired(o)
  PROVE  KnowInv'
<1>1. /\ IInv' /\ pc' = pc
      /\ \A m \in Nodes : Gone(m) => Gone(m)'
      /\ \A m \in Nodes : pc[m] = "register" => reg'[m] = reg[m]
  BY DeleteExpiredKeeps DEF KnowInv
<1>2. /\ opc[o] = "delete" /\ opc' = [opc EXCEPT ![o] = "poll"]
      /\ unvisited' = unvisited /\ found' = found /\ known' = known
  BY DEF DeleteExpired
<1>3. NewIsUnknown'
  BY <1>1, <1>2 DEF KnowInv, NewIsUnknown, Unknown
<1>4. ASSUME NEW p \in Observers PROVE ObserverKnows(p)'
  <2>1. CASE p = o
    <3>1. opc'[o] = "poll" /\ known[o] \subseteq Nodes
      BY <1>2 DEF KnowInv, IInv, TypeOK
    <3>2. \A m \in (known[o] \ found[o]) \ unvisited[o] : Gone(m)'
      BY <1>1, <1>2, <3>1 DEF KnowInv, ObserverKnows
    <3> QED
      BY <1>2, <2>1, <3>1, <3>2 DEF ObserverKnows, Gone, Registers, Current
  <2>2. CASE p # o
    <3>1. opc'[p] = opc[p]
      BY <1>2, <2>2 DEF KnowInv, IInv, TypeOK
    <3> QED
      BY <1>1, <1>2, <3>1, StillKnows DEF KnowInv, IInv
  <2> QED
    BY <2>1, <2>2
<1> QED
  BY <1>1, <1>3, <1>4 DEF KnowInv

\* An observer that starts a poll has everything to learn, one that ends a poll
\* has visited every key, and one that publishes has nothing more to tell.
LEMMA ObserverKnow ==
  ASSUME KnowInv, NEW o \in Observers,
         ObserverRun(o) \/ Poll(o) \/ EndPoll(o) \/ Publish(o)
         \/ ObserverStop(o) \/ IdleShutdown(o) \/ ObserverShutdown(o)
  PROVE  KnowInv'
<1>1. IInv' /\ UNCHANGED <<reg, registrar>>
  BY ObserverKeeps DEF KnowInv
<1>2. /\ opc \in [Observers -> {"stopped", "idle", "poll", "delete", "publish"}]
      /\ unvisited \in [Observers -> SUBSET Nodes]
      /\ found \in [Observers -> SUBSET Nodes]
      /\ known \in [Observers -> SUBSET Nodes]
  BY DEF KnowInv, IInv, TypeOK
<1>3. \A p \in Observers \ {o} :
        /\ opc'[p] = opc[p] /\ unvisited'[p] = unvisited[p]
        /\ found'[p] = found[p] /\ known'[p] = known[p]
  BY <1>2 DEF ObserverRun, Poll, BeginPoll, EndPoll, Publish, ObserverStop,
              IdleShutdown, ObserverReturn, ObserverShutdown
<1>4. ObserverKnows(o) /\ \A m : Gone(m)' <=> Gone(m)
  BY <1>1 DEF KnowInv, registrar, Gone, Registers, Current
<1>5. /\ ObserverKnows(o)'
      /\ found'[o] \cup known'[o] \subseteq found[o] \cup known[o]
  <2>1. CASE ObserverRun(o) \/ Poll(o)
    <3>1. /\ opc'[o] = "poll" /\ unvisited'[o] = Nodes
          /\ found'[o] = {} /\ known'[o] = known[o] /\ known[o] \subseteq Nodes
      BY <1>2, <2>1 DEF ObserverRun, Poll, BeginPoll
    <3> QED
      BY <3>1 DEF ObserverKnows
  <2>2. CASE EndPoll(o)
    <3>1. /\ opc[o] = "poll" /\ unvisited[o] = {}
          /\ opc'[o] \in {"idle", "publish"} /\ unvisited'[o] = unvisited[o]
          /\ found'[o] = found[o] /\ known'[o] = known[o]
      BY <1>2, <2>2 DEF EndPoll
    <3> QED
      BY <1>4, <3>1 DEF ObserverKnows
  <2>3. CASE Publish(o)
    <3>1. /\ opc'[o] = "idle" /\ found'[o] = found[o]
          /\ known'[o] \subseteq known[o] \cup found[o]
      BY <1>2, <2>3 DEF Publish, Registered, Deregistered
    <3> QED
      BY <3>1 DEF ObserverKnows
  <2>4. CASE ObserverStop(o) \/ IdleShutdown(o)
    <3>1. opc'[o] = "stopped" /\ found'[o] = {} /\ known'[o] = {}
      BY <1>2, <2>4 DEF ObserverStop, IdleShutdown, ObserverReturn
    <3> QED
      BY <3>1 DEF ObserverKnows
  <2>5. CASE ObserverShutdown(o)
    <3>1. /\ opc' = opc /\ unvisited' = unvisited /\ found' = found
          /\ known' = known
      BY <2>5 DEF ObserverShutdown
    <3> QED
      BY <1>4, <3>1 DEF ObserverKnows
  <2> QED
    BY <2>1, <2>2, <2>3, <2>4, <2>5
<1> QED
  BY <1>1, <1>3, <1>5, OneObserverMoves

\* Every step keeps the invariant, if registrars are prompt and run with care.
LEMMA NextKnow ==
  ASSUME Prompt
  PROVE  KnowInv /\ [CarefulNext]_vars => KnowInv'
<1> SUFFICES ASSUME KnowInv, [CarefulNext]_vars PROVE KnowInv'
  OBVIOUS
<1>1. ASSUME NEW n \in Nodes,
             \/ RunWithCare(n)
             \/ RegistrarStep(n) \/ BeginDeregister(n)
             \/ FailAfterSave(n) \/ Stop(n)
      PROVE  KnowInv'
  BY <1>1, RegistrarKnow
<1>2. ASSUME NEW o \in Observers, NEW n \in Nodes, Visit(o, n) PROVE KnowInv'
  BY <1>2, VisitKnow
<1>3. ASSUME NEW o \in Observers, DeleteExpired(o) PROVE KnowInv'
  BY <1>3, DeleteExpiredKnow
<1>4. ASSUME NEW o \in Observers,
             ObserverRun(o) \/ Poll(o) \/ EndPoll(o) \/ Publish(o)
             \/ ObserverStop(o) \/ IdleShutdown(o) \/ ObserverShutdown(o)
      PROVE  KnowInv'
  BY <1>4, ObserverKnow
<1>5. CASE Tick
  BY <1>5, TickKnow
<1>6. CASE UNCHANGED vars
  <2>1. UNCHANGED <<reg, registrar>> /\ UNCHANGED observer
    BY <1>6 DEF vars
  <2>2. IInv'
    BY <1>6, NextIInv DEF KnowInv
  <2>3. NewIsUnknown'
    BY <2>1 DEF KnowInv, NewIsUnknown, Unknown, observer, registrar
  <2>4. \A n : Gone(n) => Gone(n)'
    BY <2>1 DEF registrar, Gone, Registers, Current
  <2>5. ASSUME NEW o \in Observers PROVE ObserverKnows(o)'
    BY <2>1, <2>4, StillKnows DEF KnowInv, IInv, observer
  <2> QED
    BY <2>2, <2>3, <2>5 DEF KnowInv
<1> QED
  BY <1>1, <1>2, <1>3, <1>4, <1>5, <1>6 DEF CarefulNext, Others, PollStep

\* What is published is true, and what is not found is gone, if registrars are
\* prompt and run with care.
THEOREM KnowInvariance ==
  ASSUME Prompt
  PROVE  CarefulSpec => []KnowInv
<1>1. Init => KnowInv
  <2> SUFFICES ASSUME Init PROVE KnowInv
    OBVIOUS
  <2>1. NewIsUnknown /\ \A o \in Observers : ObserverKnows(o)
    BY DEF Init, NewIsUnknown, ObserverKnows
  <2> QED
    BY <2>1, InitIInv DEF KnowInv
<1> QED
  BY <1>1, NextKnow, PTL DEF CarefulSpec

\* No other step is a run, for a run is counted.
LEMMA OthersAreNotRuns ==
  ASSUME TypeOK, Others, NEW n \in Nodes
  PROVE  ~Run(n)
<1>1. runs' = runs
  BY DEF Others, RegistrarStep, Save, Renew, RenewUnregistered, Delete, BeginDeregister,
         FailAfterSave, Stop, ObserverRun, Poll, PollStep, Visit, DeleteExpired, EndPoll,
         Publish, ObserverStop, IdleShutdown, ObserverReturn, ObserverShutdown, Tick,
         registrar
<1>2. runs[n] \in Nat /\ runs[n] # runs[n] + 1
  BY NumberTypes
<1>3. Run(n) => runs'[n] = runs[n] + 1
  BY DEF Run, TypeOK
<1> QED
  BY <1>1, <1>2, <1>3

\* With care, no restart is disturbed.
LEMMA CarefulIsUndisturbed == CarefulSpec => Spec /\ RestartsUndisturbed
<1>1. [CarefulNext]_vars => [Next]_vars
  BY DEF CarefulNext, Next, RunWithCare
<1>2. TypeOK /\ [CarefulNext]_vars =>
        [\A n \in Nodes : Run(n) => Undisturbed(n)]_vars
  <2> SUFFICES ASSUME TypeOK, CarefulNext, NEW n \in Nodes, Run(n)
               PROVE  Undisturbed(n)
    OBVIOUS
  <2>1. PICK m \in Nodes : RunWithCare(m)
    BY OthersAreNotRuns DEF CarefulNext
  <2>2. runs' = [runs EXCEPT ![m] = @ + 1] /\ runs'[n] = runs[n] + 1
        /\ runs[n] \in Nat
    BY <2>1, NumberTypes DEF RunWithCare, Run, TypeOK
  <2>3. m = n
    BY <2>2
  <2> QED
    BY <2>1, <2>3 DEF RunWithCare
<1>3. CarefulSpec => Spec
  BY <1>1, PTL DEF CarefulSpec, Spec
<1> QED
  BY <1>2, <1>3, TypeCorrect, PTL DEF CarefulSpec, RestartsUndisturbed

\* No observer tells that a running node has left (NoFalseDeregistration), also
\* under an ID that was used before, if the node is run with care.
THEOREM CarefulObserversTellTheTruth ==
  ASSUME Prompt
  PROVE  CarefulSpec => NoFalseDeregistration
<1> DEFINE Truth ==
      \A o \in Observers : Publish(o) => \A n \in Deregistered(o) : ~Member(n)
<1>1. KnowInv => Truth
  <2> SUFFICES ASSUME KnowInv, NEW o \in Observers, Publish(o),
                      NEW n \in Deregistered(o)
               PROVE  ~Member(n)
    OBVIOUS
  <2>1. ObserverKnows(o) /\ opc[o] = "publish"
    BY DEF KnowInv, Publish
  <2>2. Gone(n)
    BY <2>1 DEF ObserverKnows, Deregistered
  <2> QED
    BY <2>2 DEF Gone, Registers, Member
<1>2. KnowInv /\ [CarefulNext]_vars => [Truth]_vars
  BY <1>1
<1> QED
  BY <1>2, KnowInvariance, PTL DEF NoFalseDeregistration, CarefulSpec

\* A node that is run with care stays registered: see StaysRegistered.
THEOREM CarefulStaysRegistered ==
  ASSUME Prompt
  PROVE  CarefulSpec => []StaysRegistered
BY CarefulIsUndisturbed, RestartedStaysRegistered, PTL

-----------------------------------------------------------------------------
(* Fresh node IDs.                                                         *)

\* A node that was never run is in nobody's way.
FirstRun ==
  \A n \in Nodes :
    runs[n] = 0 =>
      /\ pc[n] = "stopped" /\ reg[n] = None /\ Unknown(n)
      /\ \A o \in Observers : target[o] # n

\* What a registrar does, it does to its own node, and not before it is run.
LEMMA RegistrarFirst ==
  ASSUME TypeOK, FirstRun, NEW n \in Nodes,
         \/ Run(n) \/ RegistrarStep(n) \/ BeginDeregister(n)
         \/ FailAfterSave(n) \/ Stop(n)
  PROVE  FirstRun'
<1>1. /\ UNCHANGED observer
      /\ \A m \in Nodes \ {n} :
           runs'[m] = runs[m] /\ pc'[m] = pc[m] /\ reg'[m] = reg[m]
  BY DEF TypeOK, Run, RegistrarStep, BeginDeregister, FailAfterSave, Stop, Save, Renew,
         RenewUnregistered, Delete, Goto, Return
<1>2. runs'[n] # 0
  <2>1. CASE Run(n)
    <3>1. runs'[n] = runs[n] + 1 /\ runs[n] \in Nat
      BY <2>1, NumberTypes DEF Run, TypeOK
    <3> QED
      BY <3>1
  <2>2. CASE ~Run(n)
    <3>1. pc[n] # "stopped" /\ runs' = runs
      BY <2>2 DEF RegistrarStep, BeginDeregister, FailAfterSave, Stop, Save, Renew,
                  RenewUnregistered, TickReady, Delete
    <3> QED
      BY <3>1 DEF FirstRun
  <2> QED
    BY <2>1, <2>2
<1> QED
  BY <1>1, <1>2 DEF FirstRun, Unknown, observer

\* Observers find, publish and delete only what is registered.
LEMMA ObserverFirst ==
  ASSUME TypeOK, FirstRun, NEW o \in Observers,
         ObserverRun(o) \/ Poll(o) \/ PollStep(o) \/ Publish(o)
         \/ ObserverStop(o) \/ IdleShutdown(o) \/ ObserverShutdown(o)
  PROVE  FirstRun'
<1> SUFFICES ASSUME NEW n \in Nodes, runs'[n] = 0
             PROVE  /\ pc'[n] = "stopped" /\ reg'[n] = None /\ Unknown(n)'
                    /\ \A p \in Observers : target'[p] # n
  BY DEF FirstRun
<1>1. UNCHANGED registrar
  BY DEF ObserverRun, Poll, PollStep, Visit, DeleteExpired, EndPoll, Publish,
         ObserverStop, IdleShutdown, ObserverReturn, ObserverShutdown
<1>2. /\ pc[n] = "stopped" /\ reg[n] = None /\ Unknown(n)
      /\ \A p \in Observers : target[p] # n
  BY <1>1 DEF FirstRun, registrar
<1>3. reg'[n] = None
  BY <1>2 DEF TypeOK, ObserverRun, Poll, PollStep, Visit, DeleteExpired, EndPoll, Publish,
              ObserverStop, IdleShutdown, ObserverReturn, ObserverShutdown
<1>4. ASSUME NEW p \in Observers
      PROVE  target'[p] # n /\ n \notin found'[p] \cup known'[p]
  <2>1. target[p] # n /\ n \notin found[p] \cup known[p] /\ n # None
    BY <1>2, ConstantsAssumption DEF Unknown
  <2>2. ASSUME NEW m \in Nodes, Visit(o, m)
        PROVE  target'[p] # n /\ n \notin found'[p] \cup known'[p]
    <3>1. m = n => target' = target /\ found'[p] = found[p]
      BY <1>2, <2>2 DEF Visit, Current, TypeOK
    <3>2. m # n => target'[p] # n /\ n \notin found'[p]
      BY <2>1, <2>2 DEF Visit, TypeOK
    <3> QED
      BY <2>1, <2>2, <3>1, <3>2 DEF Visit
  <2>3. CASE DeleteExpired(o) \/ EndPoll(o) \/ Publish(o) \/ ObserverShutdown(o)
    BY <2>1, <2>3 DEF DeleteExpired, EndPoll, Publish, ObserverShutdown, TypeOK,
                      Registered, Deregistered
  <2>4. CASE ObserverRun(o) \/ Poll(o) \/ ObserverStop(o) \/ IdleShutdown(o)
    BY <2>1, <2>4 DEF ObserverRun, Poll, BeginPoll, ObserverStop, IdleShutdown,
                      ObserverReturn, TypeOK
  <2> QED
    BY <2>2, <2>3, <2>4 DEF PollStep
<1> QED
  BY <1>1, <1>2, <1>3, <1>4 DEF Unknown, registrar

\* Every step keeps FirstRun.
LEMMA NextFirst == TypeOK /\ FirstRun /\ [Next]_vars => FirstRun'
<1> SUFFICES ASSUME TypeOK, FirstRun, [Next]_vars PROVE FirstRun'
  OBVIOUS
<1>1. CASE Tick
  BY <1>1 DEF FirstRun, Unknown, Tick, Older, observer
<1>2. CASE UNCHANGED vars
  BY <1>2 DEF FirstRun, Unknown, vars, registrar, observer
<1> QED
  BY <1>1, <1>2, RegistrarFirst, ObserverFirst DEF Next, Others

\* A process whose ID nobody has used may be run at any time.
THEOREM FreshIsCareful ==
  ASSUME FreshIDs
  PROVE  Spec => CarefulSpec
<1>1. Init => FirstRun
  <2>1. \A n \in Nodes : n # None
    BY ConstantsAssumption
  <2> QED
    BY <2>1 DEF Init, FirstRun, Unknown
<1>2. Spec => []FirstRun
  BY <1>1, NextFirst, TypeCorrect, PTL DEF Spec
<1>3. TypeOK /\ FirstRun /\ [Next]_vars => [CarefulNext]_vars
  <2> SUFFICES ASSUME TypeOK, FirstRun, NEW n \in Nodes, Run(n) PROVE RunWithCare(n)
    BY DEF Next, CarefulNext
  <2>1. runs[n] = 0
    BY NumberTypes DEF Run, FreshIDs
  <2> QED
    BY <2>1 DEF FirstRun, RunWithCare, Undisturbed
<1> QED
  BY <1>2, <1>3, TypeCorrect, PTL DEF Spec, CarefulSpec

\* A registrar that runs keeps its node registered: see StaysRegistered.
THEOREM RunningStaysRegistered ==
  ASSUME Prompt, FreshIDs
  PROVE  Spec => []StaysRegistered
BY FreshIsCareful, CarefulStaysRegistered, PTL

\* No observer tells that a running node has left: see NoFalseDeregistration.
THEOREM ObserversTellTheTruth ==
  ASSUME Prompt, FreshIDs
  PROVE  Spec => NoFalseDeregistration
BY FreshIsCareful, CarefulObserversTellTheTruth, PTL
=============================================================================
