------------------------------- MODULE Topic -------------------------------
(***************************************************************************)
(* A topic of src/internal/messaging/topic.go: its goroutine hands each    *)
(* message to a copy of the list of subscribers, without the mutex, while  *)
(* channels subscribe and unsubscribe.                                     *)
(*                                                                         *)
(* The owner of a channel subscribes it, receives from it, and unsubscribes*)
(* it when it has stopped receiving.  It does not subscribe it twice at a  *)
(* time: Unsubscribe, whose loop moves the last subscriber to the place of *)
(* the one it removes, would miss a second subscription moved there.  The  *)
(* owner of the topic closes it once, and nobody publishes after that; the *)
(* channel would panic.                                                    *)
(***************************************************************************)
EXTENDS Naturals, Sequences

CONSTANTS
  Channels,            \* channels that are subscribed
  MaxMessages,         \* bound: messages published
  MaxSubscriptions     \* bound: calls of Subscribe

ASSUME BoundsAssumption == MaxMessages \in Nat /\ MaxSubscriptions \in Nat

VARIABLES
  messages,     \* the channel of messages: "nil", "open" or "closed"
  subscribers,  \* the slice of subscribers
  unsubscribed, \* the subscriptions whose channel "unsubscribed" is closed
  run,          \* the goroutine: "none", "receive", "copy", "deliver", "done"
  targets,      \* the copy's subscribers that the loop has not passed yet
  \* The owners of the channels.
  owner,        \* "out", "listening" or "leaving" (subscribed, not receiving)
  received,     \* received[c]: the messages received from c
  \* History.
  published,    \* messages are numbered as they are taken from the channel
  subscriptions,\* number of calls of Subscribe
  since, until  \* since[c], until[c]: "published" at the last subscription of
                \* c and at its end

topic   == <<messages, subscribers, unsubscribed, run, targets>>
owners  == <<owner, received>>
history == <<published, subscriptions, since, until>>
vars    == <<topic, owners, history>>

-----------------------------------------------------------------------------
\* A subscription has a channel "unsubscribed" of its own, its id.
Subscriber == [ch : Channels, id : 1..MaxSubscriptions]

Init ==
  /\ messages = "nil" /\ subscribers = <<>> /\ unsubscribed = {}
  /\ run = "none" /\ targets = <<>>
  /\ owner = [c \in Channels |-> "out"]
  /\ received = [c \in Channels |-> <<>>]
  /\ published = 0 /\ subscriptions = 0
  /\ since = [c \in Channels |-> 0]
  /\ until = [c \in Channels |-> 0]

-----------------------------------------------------------------------------
(* Subscribe and Unsubscribe, under the mutex.                             *)

Subscribe(c) ==
  /\ owner[c] = "out" /\ subscriptions < MaxSubscriptions
  /\ subscribers' = Append(subscribers, [ch |-> c, id |-> subscriptions + 1])
  /\ subscriptions' = subscriptions + 1
  /\ owner' = [owner EXCEPT ![c] = "listening"]
  /\ since' = [since EXCEPT ![c] = published]
  /\ UNCHANGED <<messages, unsubscribed, run, targets, received, published, until>>

StopListening(c) ==
  /\ owner[c] = "listening"
  /\ owner' = [owner EXCEPT ![c] = "leaving"]
  /\ UNCHANGED <<topic, received, history>>

\* Fault seeded to test MissesNothing: the last subscriber is cut off, but not
\* moved to the place that becomes free.
CutOff(i) == SubSeq(subscribers, 1, Len(subscribers) - 1)

\* Fault seeded to test InOrder: the slice is not shortened.
SwapOnly(i) ==
  LET n == Len(subscribers)
  IN  [j \in 1..n |-> IF j = i THEN subscribers[n] ELSE subscribers[j]]

\* Fault seeded to test LateMessagesAreKnown: the goroutine is told, but the
\* subscriber stays in the list.
StillListed(i) == subscribers

Without(i) ==
  LET n == Len(subscribers)
  IN  [j \in 1 .. n - 1 |-> IF j = i THEN subscribers[n] ELSE subscribers[j]]

\* Fault seeded to test Delivers: the goroutine is not told.
ForgetToClose(i) == UNCHANGED unsubscribed

CloseUnsubscribed(i) == unsubscribed' = unsubscribed \cup {subscribers[i].id}

\* An owner may also unsubscribe while it is ready to receive.
Unsubscribe(c) ==
  /\ owner[c] \in {"listening", "leaving"}
  /\ \E i \in 1..Len(subscribers) :
       /\ subscribers[i].ch = c
       /\ subscribers' = Without(i)
       /\ CloseUnsubscribed(i)
  /\ owner' = [owner EXCEPT ![c] = "out"]
  /\ until' = [until EXCEPT ![c] = published]
  /\ UNCHANGED <<messages, run, targets, received, published, subscriptions, since>>

-----------------------------------------------------------------------------
(* Publish and Close.                                                      *)

\* Fault seeded to test TypeOK: every call starts a goroutine.
PublishAgain ==
  /\ messages # "closed"
  /\ messages' = "open" /\ run' = "receive"
  /\ UNCHANGED <<subscribers, unsubscribed, targets, owners, history>>

\* The first call of Publish makes the channel and starts the goroutine.
Publish ==
  /\ messages = "nil"
  /\ messages' = "open" /\ run' = "receive"
  /\ UNCHANGED <<subscribers, unsubscribed, targets, owners, history>>

\* Close makes the channel, without a goroutine, if Publish was never called.
Close ==
  /\ messages # "closed"
  /\ messages' = "closed"
  /\ UNCHANGED <<subscribers, unsubscribed, run, targets, owners, history>>

-----------------------------------------------------------------------------
(* run.                                                                    *)

\* A publisher's send meets the loop of the goroutine.
Receive ==
  /\ run = "receive" /\ messages = "open"
  /\ published < MaxMessages
  /\ published' = published + 1
  /\ run' = "copy"
  /\ UNCHANGED <<messages, subscribers, unsubscribed, targets, owners,
                 subscriptions, since, until>>

CopySubscribers ==
  /\ run = "copy"
  /\ targets' = subscribers
  /\ run' = "deliver"
  /\ UNCHANGED <<messages, subscribers, unsubscribed, owners, history>>

\* The select: the channel takes the message, which it may also do if its owner
\* has unsubscribed it but has not stopped receiving ...
Deliver ==
  /\ run = "deliver" /\ targets # <<>>
  /\ LET c == Head(targets).ch
     IN  /\ owner[c] # "leaving"
         /\ received' = [received EXCEPT ![c] = Append(@, published)]
  /\ targets' = Tail(targets)
  /\ UNCHANGED <<messages, subscribers, unsubscribed, run, owner, history>>

\* ... or the subscription has ended.
Skip ==
  /\ run = "deliver" /\ targets # <<>>
  /\ Head(targets).id \in unsubscribed
  /\ targets' = Tail(targets)
  /\ UNCHANGED <<messages, subscribers, unsubscribed, run, owners, history>>

NextMessage ==
  /\ run = "deliver" /\ targets = <<>>
  /\ run' = "receive"
  /\ UNCHANGED <<messages, subscribers, unsubscribed, targets, owners, history>>

End ==
  /\ run = "receive" /\ messages = "closed"
  /\ run' = "done"
  /\ UNCHANGED <<messages, subscribers, unsubscribed, targets, owners, history>>

RunStep == CopySubscribers \/ Deliver \/ Skip \/ NextMessage \/ End

Next ==
  \/ \E c \in Channels : Subscribe(c) \/ StopListening(c) \/ Unsubscribe(c)
  \/ Publish \/ Close \/ Receive \/ RunStep

Spec == Init /\ [][Next]_vars

\* The goroutine goes on, an owner who listens receives, and an owner who has
\* stopped listening gets to unsubscribe.  That a channel whose subscription has
\* ended takes the message in hand is not assumed.
Fairness ==
  /\ WF_vars(CopySubscribers \/ Skip \/ NextMessage \/ End)
  /\ WF_vars(Deliver /\ owner[Head(targets).ch] = "listening")
  /\ \A c \in Channels : WF_vars(owner[c] = "leaving" /\ Unsubscribe(c))

FairSpec == Spec /\ Fairness

-----------------------------------------------------------------------------
(* Properties.                                                             *)

Subscribed(c) == owner[c] \in {"listening", "leaving"}

\* Types: there is one goroutine at most, which delivers only what it received,
\* and exactly the channels whose owners subscribed them are in the list, once.
TypeOK ==
  /\ messages \in {"nil", "open", "closed"}
  /\ subscribers \in Seq(Subscriber)
  /\ unsubscribed \subseteq 1..MaxSubscriptions
  /\ run \in {"none", "receive", "copy", "deliver", "done"}
  /\ messages = "nil" => run = "none"
  /\ messages = "open" => run \in {"receive", "copy", "deliver"}
  /\ targets \in Seq(Subscriber)
  /\ targets # <<>> => run = "deliver"
  /\ owner \in [Channels -> {"out", "listening", "leaving"}]
  /\ received \in [Channels -> Seq(1..MaxMessages)]
  /\ published \in 0..MaxMessages /\ subscriptions \in 0..MaxSubscriptions
  /\ since \in [Channels -> 0..MaxMessages]
  /\ until \in [Channels -> 0..MaxMessages]

\* The message in hand is still to be handed to c.
Pending(c) ==
  \/ run = "copy"
  \/ \E k \in 1..Len(targets) : targets[k].ch = c /\ targets[k].id \notin unsubscribed

\* A channel gets every message that is published while it is subscribed,
\* whichever other channels come and go during a publication.
MissesNothing ==
  \A c \in Channels : Subscribed(c) =>
    \A m \in since[c] + 1 .. published :
      \/ \E k \in 1..Len(received[c]) : received[c][k] = m
      \/ m = published /\ Pending(c)

\* It gets them in the order of publication and none twice, although it may be
\* subscribed anew while a message is still on its way to it.
InOrder ==
  \A c \in Channels : \A j, k \in 1..Len(received[c]) :
    j < k => received[c][j] < received[c][k]

\* Once Unsubscribe has returned, a channel can still get the one message whose
\* delivery was under way, and none that is published later.
LateMessagesAreKnown ==
  \A c \in Channels : owner[c] = "out" =>
    \A k \in 1..Len(received[c]) : received[c][k] <= until[c]

\* A subscriber that stops receiving and then unsubscribes, which needs the
\* mutex, does not hold up the others: every delivery comes to an end.
Delivers == run = "copy" ~> run \in {"receive", "done"}
=============================================================================
