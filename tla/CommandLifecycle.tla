-------------------------- MODULE CommandLifecycle --------------------------
(***************************************************************************)
(* What an integration handler promises about each command, whatever       *)
(* supervisors crash or compete for it: a command is accepted once, its    *)
(* outcome (the batch of events its handler recorded, or none) is decided  *)
(* once, the events of that outcome and no others take one place on a      *)
(* stream, an executor is told of the acceptance only once it is final,    *)
(* and nothing is forgotten before it is finished.                         *)
(***************************************************************************)
CONSTANTS
  Commands,     \* message IDs of command envelopes
  Batches,      \* what the handler may record
  None          \* no events

VARIABLES
  accepted,     \* commands the system is bound to handle
  acknowledged, \* commands an executor was told are accepted
  outcomes,     \* pairs of a command and what it recorded
  published,    \* triples of a command, its batch and the batch's place
  forgotten     \* commands of which nothing but their ID is kept

lifecycle == <<accepted, acknowledged, outcomes, published, forgotten>>

Init ==
  /\ accepted = {} /\ acknowledged = {} /\ forgotten = {}
  /\ outcomes = {} /\ published = {}

Decided(c)  == \E o \in outcomes : o[1] = c
Finished(c) ==
  \E o \in outcomes :
    /\ o[1] = c
    /\ o[2] = None \/ \E p \in published : p[1] = c

Accept(c) ==
  /\ c \notin accepted
  /\ accepted' = accepted \cup {c}
  /\ acknowledged' \in {acknowledged, acknowledged \cup {c}}
  /\ UNCHANGED <<outcomes, published, forgotten>>

Acknowledge(c) ==
  /\ c \in accepted
  /\ acknowledged' = acknowledged \cup {c}
  /\ UNCHANGED <<accepted, outcomes, published, forgotten>>

Decide(c, e) ==
  /\ c \in accepted /\ ~Decided(c)
  /\ outcomes' = outcomes \cup {<<c, e>>}
  /\ UNCHANGED <<accepted, acknowledged, published, forgotten>>

\* The batch takes some place, and the command has none before.
Publish(c, e) ==
  /\ <<c, e>> \in outcomes /\ e # None
  /\ \A q \in published : q[1] # c
  /\ \E q \in published' :
       q[1] = c /\ q[2] = e /\ published' = published \cup {q}
  /\ UNCHANGED <<accepted, acknowledged, outcomes, forgotten>>

Forget(D) ==
  /\ \A c \in D : Finished(c)
  /\ forgotten' = forgotten \cup D
  /\ UNCHANGED <<accepted, acknowledged, outcomes, published>>

Next ==
  \/ \E c \in Commands :
       \/ Accept(c) \/ Acknowledge(c)
       \/ \E e \in Batches \cup {None} :
            Decide(c, e) \/ Publish(c, e)
  \/ \E D \in SUBSET Commands : Forget(D)

Spec == Init /\ [][Next]_lifecycle
=============================================================================
