---------------------------- MODULE TopicProofs ----------------------------
(***************************************************************************)
(* Proofs about the topic, for every number of channels, messages and      *)
(* subscriptions.                                                          *)
(*                                                                         *)
(* The goroutine delivers to a copy of the list that grows stale while it  *)
(* does.  What keeps deliveries right is that a subscription of the copy   *)
(* that has not ended is still in the list (TargetsAreListed), so that the *)
(* loop skips nobody who is subscribed, and that the copy has no channel   *)
(* twice and is of one message only (NotYetReceived, LeftDuringDelivery).  *)
(***************************************************************************)
EXTENDS Topic, TLAPS

-----------------------------------------------------------------------------
(* The inductive invariant.                                                *)

Listed(c) == \E i \in 1..Len(subscribers) : subscribers[i].ch = c

\* The list holds the channels that are subscribed, each once, under the ids of
\* subscriptions that have not ended.
ListIsExact ==
  /\ \A c \in Channels : Subscribed(c) <=> Listed(c)
  /\ unsubscribed \subseteq 1..subscriptions
  /\ \A i \in 1..Len(subscribers) :
       /\ subscribers[i].id \in 1..subscriptions
       /\ subscribers[i].id \notin unsubscribed
  /\ \A i, j \in 1..Len(subscribers) : i # j =>
       /\ subscribers[i].ch # subscribers[j].ch
       /\ subscribers[i].id # subscribers[j].id

\* Targets are different channels; one whose subscription goes on is listed.
TargetsAreListed ==
  /\ \A k \in 1..Len(targets) :
       \/ targets[k].id \in unsubscribed
       \/ \E i \in 1..Len(subscribers) : subscribers[i] = targets[k]
  /\ \A j, k \in 1..Len(targets) : j # k => targets[j].ch # targets[k].ch

\* A message is delivered after it was taken, and no message comes early.
MessageInHand ==
  /\ run \in {"copy", "deliver"} => published > 0
  /\ \A c \in Channels : \A j \in 1..Len(received[c]) : received[c][j] <= published

\* A channel that the loop has still to pass does not have the message in hand.
NotYetReceived ==
  \A c \in Channels :
    (run = "copy" \/ \E k \in 1..Len(targets) : targets[k].ch = c) =>
      \A j \in 1..Len(received[c]) : received[c][j] < published

\* A target that is out was unsubscribed during this delivery.
LeftDuringDelivery ==
  \A k \in 1..Len(targets) :
    owner[targets[k].ch] = "out" => until[targets[k].ch] = published

IInv ==
  /\ TypeOK /\ ListIsExact /\ TargetsAreListed /\ MessageInHand
  /\ NotYetReceived /\ LeftDuringDelivery
  /\ MissesNothing /\ InOrder /\ LateMessagesAreKnown

-----------------------------------------------------------------------------
(* Initial states and types.                                               *)

\* The invariant holds of a new topic.
LEMMA InitIInv == Init => IInv
<1> SUFFICES ASSUME Init PROVE IInv
  OBVIOUS
<1> USE BoundsAssumption
<1>1. TypeOK
  BY DEF Init, TypeOK
<1>2. ListIsExact /\ TargetsAreListed
  BY DEF Init, ListIsExact, Listed, Subscribed, TargetsAreListed
<1>3. MessageInHand /\ NotYetReceived /\ LeftDuringDelivery
  BY DEF Init, MessageInHand, NotYetReceived, LeftDuringDelivery
<1>4. MissesNothing /\ InOrder /\ LateMessagesAreKnown
  BY DEF Init, MissesNothing, Subscribed, InOrder, LateMessagesAreKnown
<1> QED
  BY <1>1, <1>2, <1>3, <1>4 DEF IInv

\* The subscriber at i is removed: the others stay, at one place each.
LEMMA WithoutFacts ==
  ASSUME TypeOK, NEW i \in 1..Len(subscribers)
  PROVE  LET n == Len(subscribers)
             from(j) == IF j = i THEN n ELSE j
         IN  /\ Without(i) \in Seq(Subscriber) /\ Len(Without(i)) = n - 1
             /\ \A j \in 1 .. n - 1 :
                  from(j) \in 1..n /\ from(j) # i /\ Without(i)[j] = subscribers[from(j)]
             /\ \A k \in 1..n : k # i =>
                  \E j \in 1 .. n - 1 : from(j) = k /\ Without(i)[j] = subscribers[k]
<1> DEFINE n == Len(subscribers)
           from(j) == IF j = i THEN n ELSE j
<1>1. subscribers \in Seq(Subscriber) /\ n \in Nat /\ i \in 1..n
  BY DEF TypeOK
<1>2. \A j \in 1 .. n - 1 : from(j) \in 1..n /\ from(j) # i
  BY <1>1
<1>3. Without(i) = [j \in 1 .. n - 1 |-> subscribers[from(j)]]
  BY DEF Without
<1>4. \A j \in 1..n : subscribers[j] \in Subscriber
  BY <1>1
<1>5. Without(i) \in [1 .. n - 1 -> Subscriber]
  BY <1>2, <1>3, <1>4
<1>6. n - 1 \in Nat
  BY <1>1
<1>7. Without(i) \in Seq(Subscriber) /\ Len(Without(i)) = n - 1
  BY <1>5, <1>6
<1>8. \A j \in 1 .. n - 1 : Without(i)[j] = subscribers[from(j)]
  BY <1>3
<1>9. ASSUME NEW k \in 1..n, k # i
      PROVE  \E j \in 1 .. n - 1 : from(j) = k /\ Without(i)[j] = subscribers[k]
  <2>1. CASE k = n
    <3>1. i \in 1 .. n - 1 /\ from(i) = k
      BY <1>1, <1>9, <2>1
    <3> QED
      BY <1>8, <3>1
  <2>2. CASE k # n
    <3>1. k \in 1 .. n - 1 /\ from(k) = k
      BY <1>1, <1>9, <2>2
    <3> QED
      BY <1>8, <3>1
  <2> QED
    BY <2>1, <2>2
<1> QED
  BY <1>2, <1>7, <1>8, <1>9

\* A message in hand has a number.
LEMMA InHandIsMessage ==
  ASSUME TypeOK, MessageInHand, run \in {"copy", "deliver"}
  PROVE  published \in 1..MaxMessages
BY BoundsAssumption DEF TypeOK, MessageInHand

\* An element of a sequence is in the set it is a sequence over.
LEMMA ElementOfSeq ==
  ASSUME NEW S, NEW q \in Seq(S), NEW i \in 1..Len(q)
  PROVE  q[i] \in S
OBVIOUS

\* The copy of the list names channels.
LEMMA TargetChannels ==
  ASSUME TypeOK
  PROVE  \A k \in 1..Len(targets) : targets[k].ch \in Channels
<1>1. targets \in Seq(Subscriber)
  BY DEF TypeOK
<1>2. \A k \in 1..Len(targets) : targets[k] \in Subscriber
  BY <1>1, ElementOfSeq
<1> QED
  BY <1>2 DEF Subscriber

\* The targets that are left are targets.
LEMMA TailFacts ==
  ASSUME TypeOK, targets # <<>>
  PROVE  /\ Tail(targets) \in Seq(Subscriber) /\ Head(targets) \in Subscriber
         /\ Len(targets) \in Nat \ {0} /\ Head(targets) = targets[1]
         /\ Len(Tail(targets)) = Len(targets) - 1
         /\ \A k \in 1..Len(Tail(targets)) :
              k + 1 \in 2..Len(targets) /\ Tail(targets)[k] = targets[k + 1]
         /\ \A k \in 2..Len(targets) :
              k - 1 \in 1..Len(Tail(targets)) /\ Tail(targets)[k - 1] = targets[k]
<1>1. targets \in Seq(Subscriber) /\ targets # <<>>
  BY DEF TypeOK
<1>2. /\ Tail(targets) \in Seq(Subscriber) /\ Head(targets) \in Subscriber
      /\ Len(targets) \in Nat \ {0} /\ Head(targets) = targets[1]
      /\ Len(Tail(targets)) = Len(targets) - 1
  BY <1>1
<1>3. \A k \in 1..Len(Tail(targets)) : Tail(targets)[k] = targets[k + 1]
  BY <1>1, <1>2
<1> QED
  BY <1>2, <1>3

\* Every step keeps the types.
LEMMA NextTypes ==
  ASSUME IInv, [Next]_vars
  PROVE  TypeOK'
<1> USE BoundsAssumption
<1>t. TypeOK /\ MessageInHand /\ ListIsExact
  BY DEF IInv
<1>1. ASSUME NEW c \in Channels, Subscribe(c) PROVE TypeOK'
  <2>1. [ch |-> c, id |-> subscriptions + 1] \in Subscriber
    BY <1>t, <1>1 DEF Subscribe, TypeOK, Subscriber
  <2>2. subscribers' \in Seq(Subscriber)
    BY <1>t, <1>1, <2>1 DEF Subscribe, TypeOK
  <2>3. since' \in [Channels -> 0..MaxMessages]
    BY <1>t, <1>1 DEF Subscribe, TypeOK
  <2>4. owner' \in [Channels -> {"out", "listening", "leaving"}]
    BY <1>t, <1>1 DEF Subscribe, TypeOK
  <2>5. subscriptions' \in 0..MaxSubscriptions
    BY <1>t, <1>1 DEF Subscribe, TypeOK
  <2> QED
    BY <1>t, <1>1, <2>2, <2>3, <2>4, <2>5 DEF Subscribe, TypeOK
<1>2. ASSUME NEW c \in Channels, StopListening(c) PROVE TypeOK'
  BY <1>t, <1>2 DEF StopListening, topic, history, TypeOK
<1>3. ASSUME NEW c \in Channels, Unsubscribe(c) PROVE TypeOK'
  <2>1. PICK i \in 1..Len(subscribers) :
          subscribers' = Without(i) /\ unsubscribed' = unsubscribed \cup {subscribers[i].id}
    BY <1>3 DEF Unsubscribe, CloseUnsubscribed
  <2>2. subscribers' \in Seq(Subscriber)
    BY <1>t, <2>1, WithoutFacts
  <2>3. subscribers[i].id \in 1..MaxSubscriptions
    BY <1>t DEF TypeOK, ListIsExact
  <2>4. unsubscribed' \subseteq 1..MaxSubscriptions
    BY <1>t, <2>1, <2>3 DEF TypeOK
  <2>5. /\ until' \in [Channels -> 0..MaxMessages]
        /\ owner' \in [Channels -> {"out", "listening", "leaving"}]
    BY <1>t, <1>3 DEF Unsubscribe, TypeOK
  <2> QED
    BY <1>t, <1>3, <2>2, <2>4, <2>5 DEF Unsubscribe, TypeOK
<1>4. CASE Publish
  BY <1>t, <1>4 DEF Publish, owners, history, TypeOK
<1>5. CASE Close
  BY <1>t, <1>5 DEF Close, owners, history, TypeOK
<1>6. CASE Receive
  BY <1>t, <1>6 DEF Receive, owners, TypeOK
<1>7. CASE CopySubscribers
  BY <1>t, <1>7 DEF CopySubscribers, owners, history, TypeOK
<1>8. CASE Deliver
  <2>1. published \in 1..MaxMessages
    BY <1>t, <1>8, InHandIsMessage DEF Deliver
  <2>2. Tail(targets) \in Seq(Subscriber)
    BY <1>t, <1>8, TailFacts DEF Deliver
  <2>3. received' \in [Channels -> Seq(1..MaxMessages)]
    <3> DEFINE c == Head(targets).ch
    <3>1. c \in Channels
      BY <1>t, <1>8, TailFacts DEF Deliver, Subscriber
    <3>2. received' = [received EXCEPT ![c] = Append(@, published)]
      BY <1>8 DEF Deliver
    <3>3. received \in [Channels -> Seq(1..MaxMessages)]
      BY <1>t DEF TypeOK
    <3>4. Append(received[c], published) \in Seq(1..MaxMessages)
      BY <2>1, <3>1, <3>3
    <3> HIDE DEF c
    <3> QED
      BY <3>2, <3>3, <3>4
  <2> QED
    BY <1>t, <1>8, <2>2, <2>3 DEF Deliver, history, TypeOK
<1>9. CASE Skip
  <2>1. Tail(targets) \in Seq(Subscriber)
    BY <1>t, <1>9, TailFacts DEF Skip
  <2> QED
    BY <1>t, <1>9, <2>1 DEF Skip, owners, history, TypeOK
<1>10. CASE NextMessage
  BY <1>t, <1>10 DEF NextMessage, owners, history, TypeOK
<1>11. CASE End
  BY <1>t, <1>11 DEF End, owners, history, TypeOK
<1>12. CASE UNCHANGED vars
  BY <1>t, <1>12 DEF vars, topic, owners, history, TypeOK
<1> QED
  BY <1>1, <1>2, <1>3, <1>4, <1>5, <1>6, <1>7, <1>8, <1>9, <1>10, <1>11, <1>12
     DEF Next, RunStep

-----------------------------------------------------------------------------
(* The owners of channels.                                                 *)

\* A new subscription is listed and, even during a delivery, promises nothing
\* about the message in hand.
LEMMA SubscribeKeeps ==
  ASSUME IInv, TypeOK', NEW c \in Channels, Subscribe(c)
  PROVE  IInv'
<1> DEFINE n == Len(subscribers)
           s == [ch |-> c, id |-> subscriptions + 1]
<1>1. /\ TypeOK /\ ListIsExact /\ TargetsAreListed /\ MessageInHand
      /\ NotYetReceived /\ LeftDuringDelivery
      /\ MissesNothing /\ InOrder /\ LateMessagesAreKnown
  BY DEF IInv
<1>2. /\ owner[c] = "out" /\ owner' = [owner EXCEPT ![c] = "listening"]
      /\ since' = [since EXCEPT ![c] = published]
      /\ subscribers' = Append(subscribers, s) /\ subscriptions' = subscriptions + 1
      /\ UNCHANGED <<unsubscribed, run, targets, received, published, until>>
  BY DEF Subscribe
<1>3. /\ subscribers \in Seq(Subscriber) /\ owner \in [Channels -> {"out", "listening", "leaving"}]
      /\ since \in [Channels -> 0..MaxMessages] /\ published \in Nat
      /\ subscriptions \in Nat
  BY <1>1, BoundsAssumption DEF TypeOK
<1>4. /\ n \in Nat /\ Len(subscribers') = n + 1 /\ subscribers'[n + 1] = s
      /\ \A i \in 1..n : subscribers'[i] = subscribers[i]
  BY <1>2, <1>3
<1>5. \A d \in Channels : d # c => owner'[d] = owner[d] /\ since'[d] = since[d]
  BY <1>2, <1>3
<1>6. owner'[c] = "listening" /\ since'[c] = published
  BY <1>2, <1>3
<1>7. \A i \in 1..n : subscribers[i].ch # c
  BY <1>1, <1>2 DEF ListIsExact, Listed, Subscribed
<1>8. \A i \in 1..n :
        subscribers[i].id \in 1..subscriptions /\ subscribers[i].id \notin unsubscribed
  BY <1>1 DEF ListIsExact
<1>9. ListIsExact'
  <2>1. ASSUME NEW d \in Channels PROVE Subscribed(d)' <=> Listed(d)'
    <3>1. CASE d = c
      BY <1>4, <1>6, <3>1 DEF Subscribed, Listed
    <3>2. CASE d # c
      <4>1. Subscribed(d)' <=> Subscribed(d)
        BY <1>5, <3>2 DEF Subscribed
      <4>2. Listed(d)' <=> Listed(d)
        BY <1>4, <3>2 DEF Listed
      <4> QED
        BY <1>1, <4>1, <4>2 DEF ListIsExact
    <3> QED
      BY <3>1, <3>2
  <2>2. unsubscribed' \subseteq 1..subscriptions'
    BY <1>1, <1>2, <1>3 DEF ListIsExact
  <2>3. subscriptions + 1 \notin unsubscribed
    BY <1>1, <1>3 DEF ListIsExact
  <2>4. ASSUME NEW i \in 1..Len(subscribers')
        PROVE  /\ subscribers'[i].id \in 1..subscriptions'
               /\ subscribers'[i].id \notin unsubscribed'
    <3>1. CASE i = n + 1
      BY <1>2, <1>3, <1>4, <2>3, <3>1
    <3>2. CASE i \in 1..n
      BY <1>2, <1>3, <1>4, <1>8, <3>2
    <3> QED
      BY <1>4, <3>1, <3>2
  <2>5. ASSUME NEW i \in 1..Len(subscribers'), NEW j \in 1..Len(subscribers'), i # j
        PROVE  /\ subscribers'[i].ch # subscribers'[j].ch
               /\ subscribers'[i].id # subscribers'[j].id
    <3>1. CASE i \in 1..n /\ j \in 1..n
      BY <1>1, <1>4, <2>5, <3>1 DEF ListIsExact
    <3>2. CASE i = n + 1 /\ j \in 1..n
      BY <1>3, <1>4, <1>7, <1>8, <3>2
    <3>3. CASE j = n + 1 /\ i \in 1..n
      BY <1>3, <1>4, <1>7, <1>8, <3>3
    <3> QED
      BY <1>4, <2>5, <3>1, <3>2, <3>3
  <2> QED
    BY <2>1, <2>2, <2>4, <2>5 DEF ListIsExact
<1>10. TargetsAreListed'
  <2>1. ASSUME NEW k \in 1..Len(targets), NEW i \in 1..n, subscribers[i] = targets[k]
        PROVE  \E j \in 1..Len(subscribers') : subscribers'[j] = targets[k]
    BY <1>4, <2>1
  <2> QED
    BY <1>1, <1>2, <2>1 DEF TargetsAreListed
<1>11. MessageInHand' /\ NotYetReceived' /\ InOrder'
  BY <1>1, <1>2 DEF MessageInHand, NotYetReceived, InOrder
<1>12. LeftDuringDelivery'
  <2>1. \A k \in 1..Len(targets) : targets[k].ch \in Channels
    BY <1>1, TargetChannels
  <2>2. \A k \in 1..Len(targets) :
          owner'[targets[k].ch] = "out" => owner[targets[k].ch] = "out"
    BY <1>5, <1>6, <2>1
  <2> QED
    BY <1>1, <1>2, <2>2 DEF LeftDuringDelivery
<1>13. MissesNothing'
  <2> SUFFICES ASSUME NEW d \in Channels, Subscribed(d)',
                      NEW m \in since'[d] + 1 .. published'
               PROVE  \/ \E k \in 1..Len(received'[d]) : received'[d][k] = m
                      \/ m = published' /\ Pending(d)'
    BY DEF MissesNothing
  <2>1. d # c
    BY <1>2, <1>3, <1>6
  <2>2. Subscribed(d) /\ m \in since[d] + 1 .. published
    BY <1>2, <1>5, <2>1 DEF Subscribed
  <2>3. Pending(d)' <=> Pending(d)
    BY <1>2 DEF Pending
  <2> QED
    BY <1>1, <1>2, <2>2, <2>3 DEF MissesNothing
<1>14. LateMessagesAreKnown'
  BY <1>1, <1>2, <1>5, <1>6 DEF LateMessagesAreKnown
<1> QED
  BY <1>9, <1>10, <1>11, <1>12, <1>13, <1>14 DEF IInv

\* The subscription of c ends; every other target keeps its place in the list.
LEMMA UnsubscribeKeeps ==
  ASSUME IInv, TypeOK', NEW c \in Channels, Unsubscribe(c)
  PROVE  IInv'
<1>1. /\ TypeOK /\ ListIsExact /\ TargetsAreListed /\ MessageInHand
      /\ NotYetReceived /\ LeftDuringDelivery
      /\ MissesNothing /\ InOrder /\ LateMessagesAreKnown
  BY DEF IInv
<1>2. PICK i \in 1..Len(subscribers) :
        /\ subscribers[i].ch = c /\ subscribers' = Without(i)
        /\ unsubscribed' = unsubscribed \cup {subscribers[i].id}
  BY DEF Unsubscribe, CloseUnsubscribed
<1> DEFINE n == Len(subscribers)
           from(j) == IF j = i THEN n ELSE j
<1>3. /\ owner' = [owner EXCEPT ![c] = "out"] /\ until' = [until EXCEPT ![c] = published]
      /\ UNCHANGED <<run, targets, received, published, subscriptions, since>>
  BY DEF Unsubscribe
<1>4. /\ owner \in [Channels -> {"out", "listening", "leaving"}]
      /\ until \in [Channels -> 0..MaxMessages] /\ published \in Nat
  <2>1. /\ owner \in [Channels -> {"out", "listening", "leaving"}]
        /\ until \in [Channels -> 0..MaxMessages] /\ published \in 0..MaxMessages
    BY <1>1 DEF TypeOK
  <2> QED
    BY <2>1, BoundsAssumption
<1>5. \A d \in Channels : d # c => owner'[d] = owner[d] /\ until'[d] = until[d]
  BY <1>3, <1>4
<1>6. owner'[c] = "out" /\ until'[c] = published
  BY <1>3, <1>4
<1>7. /\ Len(subscribers') = n - 1
      /\ \A j \in 1 .. n - 1 :
           from(j) \in 1..n /\ from(j) # i /\ subscribers'[j] = subscribers[from(j)]
      /\ \A k \in 1..n : k # i => \E j \in 1 .. n - 1 : subscribers'[j] = subscribers[k]
  <2>1. /\ Len(Without(i)) = n - 1
        /\ \A j \in 1 .. n - 1 :
             from(j) \in 1..n /\ from(j) # i /\ Without(i)[j] = subscribers[from(j)]
    BY <1>1, WithoutFacts
  <2>2. \A k \in 1..n : k # i => \E j \in 1 .. n - 1 : Without(i)[j] = subscribers[k]
    BY <1>1, WithoutFacts
  <2>3. subscribers' = Without(i)
    BY <1>2
  <2> QED
    BY <2>1, <2>2, <2>3
<1>8. \A k \in 1..n : k # i => subscribers[k].ch # c /\ subscribers[k].id # subscribers[i].id
  <2>1. \A j, k \in 1..n : j # k =>
          subscribers[j].ch # subscribers[k].ch /\ subscribers[j].id # subscribers[k].id
    BY <1>1 DEF ListIsExact
  <2>2. subscribers[i].ch = c /\ i \in 1..n
    BY <1>2
  <2> QED
    BY <2>1, <2>2
<1>9. ListIsExact'
  <2>1. ASSUME NEW d \in Channels PROVE Subscribed(d)' <=> Listed(d)'
    <3>1. CASE d = c
      <4>1. ~Subscribed(d)'
        BY <1>6, <3>1 DEF Subscribed
      <4>2. ~Listed(d)'
        BY <1>7, <1>8, <3>1 DEF Listed
      <4> QED
        BY <4>1, <4>2
    <3>2. CASE d # c
      <4>1. Subscribed(d)' <=> Subscribed(d)
        BY <1>5, <3>2 DEF Subscribed
      <4>2. ASSUME Listed(d) PROVE Listed(d)'
        <5>1. PICK k \in 1..n : subscribers[k].ch = d
          BY <4>2 DEF Listed
        <5>2. k # i
          BY <1>2, <3>2, <5>1
        <5>3. PICK j \in 1 .. n - 1 : subscribers'[j] = subscribers[k]
          BY <1>7, <5>2
        <5> QED
          BY <1>7, <5>1, <5>3 DEF Listed
      <4>3. ASSUME Listed(d)' PROVE Listed(d)
        BY <1>7, <4>3 DEF Listed
      <4> QED
        BY <1>1, <4>1, <4>2, <4>3 DEF ListIsExact
    <3> QED
      BY <3>1, <3>2
  <2>2. unsubscribed' \subseteq 1..subscriptions'
    BY <1>1, <1>2, <1>3 DEF ListIsExact
  <2>3. ASSUME NEW j \in 1..Len(subscribers')
        PROVE  /\ subscribers'[j].id \in 1..subscriptions'
               /\ subscribers'[j].id \notin unsubscribed'
    <3>1. from(j) \in 1..n /\ from(j) # i /\ subscribers'[j] = subscribers[from(j)]
      BY <1>7
    <3>2. subscribers[from(j)].id \in 1..subscriptions /\ subscribers[from(j)].id \notin unsubscribed
      BY <1>1, <3>1 DEF ListIsExact
    <3> QED
      BY <1>2, <1>3, <1>8, <3>1, <3>2
  <2>4. ASSUME NEW j \in 1..Len(subscribers'), NEW k \in 1..Len(subscribers'), j # k
        PROVE  /\ subscribers'[j].ch # subscribers'[k].ch
               /\ subscribers'[j].id # subscribers'[k].id
    <3>1. j \in 1 .. n - 1 /\ k \in 1 .. n - 1
      BY <1>7
    <3>2. from(j) # from(k)
      BY <2>4, <3>1
    <3>3. from(j) \in 1..n /\ from(k) \in 1..n
      BY <1>7, <3>1
    <3>4. subscribers'[j] = subscribers[from(j)] /\ subscribers'[k] = subscribers[from(k)]
      BY <1>7, <3>1
    <3> HIDE DEF from
    <3> QED
      BY <1>1, <3>2, <3>3, <3>4 DEF ListIsExact
  <2> QED
    BY <2>1, <2>2, <2>3, <2>4 DEF ListIsExact
<1>10. TargetsAreListed'
  <2>1. ASSUME NEW k \in 1..Len(targets), targets[k].id \notin unsubscribed'
        PROVE  \E j \in 1..Len(subscribers') : subscribers'[j] = targets[k]
    <3>1. PICK l \in 1..n : subscribers[l] = targets[k]
      BY <1>1, <1>2, <2>1 DEF TargetsAreListed
    <3>2. l # i
      BY <1>2, <2>1, <3>1
    <3> QED
      BY <1>7, <3>1, <3>2
  <2> QED
    BY <1>1, <1>3, <2>1 DEF TargetsAreListed
<1>11. MessageInHand' /\ NotYetReceived' /\ InOrder'
  BY <1>1, <1>3 DEF MessageInHand, NotYetReceived, InOrder
<1>12. LeftDuringDelivery'
  <2>1. \A k \in 1..Len(targets) : targets[k].ch \in Channels
    BY <1>1, TargetChannels
  <2>2. ASSUME NEW k \in 1..Len(targets), owner'[targets[k].ch] = "out"
        PROVE  until'[targets[k].ch] = published
    <3>1. CASE targets[k].ch = c
      BY <1>6, <3>1
    <3>2. CASE targets[k].ch # c
      BY <1>1, <1>5, <2>1, <2>2, <3>2 DEF LeftDuringDelivery
    <3> QED
      BY <3>1, <3>2
  <2> QED
    BY <1>3, <2>2 DEF LeftDuringDelivery
<1>13. MissesNothing'
  <2> SUFFICES ASSUME NEW d \in Channels, Subscribed(d)',
                      NEW m \in since'[d] + 1 .. published'
               PROVE  \/ \E k \in 1..Len(received'[d]) : received'[d][k] = m
                      \/ m = published' /\ Pending(d)'
    BY DEF MissesNothing
  <2>1. d # c
    BY <1>6 DEF Subscribed
  <2>2. Subscribed(d) /\ m \in since[d] + 1 .. published
    BY <1>3, <1>5, <2>1 DEF Subscribed
  <2>3. ASSUME Pending(d) PROVE Pending(d)'
    <3>1. CASE run = "copy"
      BY <1>3, <3>1 DEF Pending
    <3>2. CASE run # "copy"
      <4>1. PICK k \in 1..Len(targets) : targets[k].ch = d /\ targets[k].id \notin unsubscribed
        BY <2>3, <3>2 DEF Pending
      <4>2. PICK l \in 1..n : subscribers[l] = targets[k]
        BY <1>1, <4>1 DEF TargetsAreListed
      <4>3. l # i
        BY <1>2, <2>1, <4>1, <4>2
      <4>4. targets[k].id \notin unsubscribed'
        BY <1>2, <1>8, <4>1, <4>2, <4>3
      <4> QED
        BY <1>3, <4>1, <4>4 DEF Pending
    <3> QED
      BY <3>1, <3>2
  <2> QED
    BY <1>1, <1>3, <2>2, <2>3 DEF MissesNothing
<1>14. LateMessagesAreKnown'
  <2>1. \A k \in 1..Len(received[c]) : received[c][k] <= until'[c]
    BY <1>1, <1>6 DEF MessageInHand
  <2> QED
    BY <1>1, <1>3, <1>5, <2>1 DEF LateMessagesAreKnown
<1> QED
  BY <1>9, <1>10, <1>11, <1>12, <1>13, <1>14 DEF IInv

-----------------------------------------------------------------------------
(* The goroutine.                                                          *)

\* The next message is higher than any other, and for everybody in the list.
LEMMA ReceiveKeeps ==
  ASSUME IInv, TypeOK', Receive
  PROVE  IInv'
<1>1. /\ TypeOK /\ ListIsExact /\ TargetsAreListed /\ MessageInHand
      /\ NotYetReceived /\ LeftDuringDelivery
      /\ MissesNothing /\ InOrder /\ LateMessagesAreKnown
  BY DEF IInv
<1>2. /\ run = "receive" /\ run' = "copy" /\ published' = published + 1
      /\ UNCHANGED <<subscribers, unsubscribed, targets, owner, received,
                     subscriptions, since, until>>
  BY DEF Receive, owners
<1>3. targets = <<>> /\ Len(targets) = 0
  BY <1>1, <1>2 DEF TypeOK
<1>4. /\ published \in Nat /\ since \in [Channels -> 0..MaxMessages]
      /\ received \in [Channels -> Seq(1..MaxMessages)]
  BY <1>1, BoundsAssumption DEF TypeOK
<1>5. ListIsExact'
  BY <1>1, <1>2 DEF ListIsExact, Listed, Subscribed
<1>6. TargetsAreListed' /\ LeftDuringDelivery'
  BY <1>2, <1>3 DEF TargetsAreListed, LeftDuringDelivery
<1>7. \A d \in Channels : \A j \in 1..Len(received[d]) : received[d][j] \in Nat
  <2> TAKE d \in Channels
  <2>1. received[d] \in Seq(1..MaxMessages)
    BY <1>4
  <2>2. \A j \in 1..Len(received[d]) : received[d][j] \in 1..MaxMessages
    BY <2>1, ElementOfSeq
  <2> QED
    BY <2>2
<1>8. MessageInHand' /\ NotYetReceived'
  BY <1>1, <1>2, <1>4, <1>7 DEF MessageInHand, NotYetReceived
<1>9. MissesNothing'
  <2> SUFFICES ASSUME NEW d \in Channels, Subscribed(d)',
                      NEW m \in since'[d] + 1 .. published'
               PROVE  \/ \E k \in 1..Len(received'[d]) : received'[d][k] = m
                      \/ m = published' /\ Pending(d)'
    BY DEF MissesNothing
  <2>1. Subscribed(d) /\ ~Pending(d)
    BY <1>2, <1>3 DEF Subscribed, Pending
  <2>2. CASE m = published'
    BY <1>2, <2>2 DEF Pending
  <2>3. CASE m # published'
    <3>1. since[d] \in Nat
      BY <1>4
    <3>2. m \in since[d] + 1 .. published
      BY <1>2, <1>4, <2>3, <3>1
    <3> QED
      BY <1>1, <1>2, <2>1, <3>2 DEF MissesNothing
  <2> QED
    BY <2>2, <2>3
<1>10. InOrder' /\ LateMessagesAreKnown'
  BY <1>1, <1>2 DEF InOrder, LateMessagesAreKnown
<1> QED
  BY <1>5, <1>6, <1>8, <1>9, <1>10 DEF IInv

\* The copy has everybody who is subscribed.
LEMMA CopySubscribersKeeps ==
  ASSUME IInv, TypeOK', CopySubscribers
  PROVE  IInv'
<1>1. /\ TypeOK /\ ListIsExact /\ MessageInHand /\ NotYetReceived
      /\ MissesNothing /\ InOrder /\ LateMessagesAreKnown
  BY DEF IInv
<1>2. /\ run = "copy" /\ run' = "deliver" /\ targets' = subscribers
      /\ UNCHANGED <<subscribers, unsubscribed, owner, received,
                     published, subscriptions, since, until>>
  BY DEF CopySubscribers, owners, history
<1>3. ListIsExact'
  BY <1>1, <1>2 DEF ListIsExact, Listed, Subscribed
<1>4. TargetsAreListed'
  BY <1>1, <1>2 DEF ListIsExact, TargetsAreListed
<1>5. MessageInHand' /\ NotYetReceived'
  BY <1>1, <1>2 DEF MessageInHand, NotYetReceived
<1>6. LeftDuringDelivery'
  <2>1. ASSUME NEW k \in 1..Len(subscribers) PROVE owner[subscribers[k].ch] # "out"
    <3>1. subscribers \in Seq(Subscriber)
      BY <1>1 DEF TypeOK
    <3>2. subscribers[k].ch \in Channels
      <4>1. subscribers[k] \in Subscriber
        BY <3>1, ElementOfSeq
      <4> QED
        BY <4>1 DEF Subscriber
    <3>3. Listed(subscribers[k].ch)
      BY DEF Listed
    <3> QED
      BY <1>1, <3>2, <3>3 DEF ListIsExact, Subscribed
  <2> QED
    BY <1>2, <2>1 DEF LeftDuringDelivery
<1>7. MissesNothing'
  <2> SUFFICES ASSUME NEW d \in Channels, Subscribed(d)',
                      NEW m \in since'[d] + 1 .. published'
               PROVE  \/ \E k \in 1..Len(received'[d]) : received'[d][k] = m
                      \/ m = published' /\ Pending(d)'
    BY DEF MissesNothing
  <2>1. Subscribed(d) /\ m \in since[d] + 1 .. published
    BY <1>2 DEF Subscribed
  <2>2. PICK i \in 1..Len(subscribers) : subscribers[i].ch = d
    BY <1>1, <2>1 DEF ListIsExact, Listed
  <2>3. subscribers[i].id \notin unsubscribed
    BY <1>1 DEF ListIsExact
  <2>4. Pending(d)'
    BY <1>2, <2>2, <2>3 DEF Pending
  <2> QED
    BY <1>1, <1>2, <2>1, <2>4 DEF MissesNothing
<1>8. InOrder' /\ LateMessagesAreKnown'
  BY <1>1, <1>2 DEF InOrder, LateMessagesAreKnown
<1> QED
  BY <1>3, <1>4, <1>5, <1>6, <1>7, <1>8 DEF IInv

\* What passing a target does not disturb.
LEMMA PassedTarget ==
  ASSUME IInv, run = "deliver", run' = "deliver", targets # <<>>, targets' = Tail(targets),
         UNCHANGED <<subscribers, unsubscribed, owner, history>>
  PROVE  /\ ListIsExact' /\ TargetsAreListed' /\ LeftDuringDelivery'
         /\ \A d \in Channels : d # targets[1].ch => (Pending(d) => Pending(d)')
         /\ \A k \in 1..Len(targets') :
              /\ targets'[k].ch # targets[1].ch
              /\ \E j \in 1..Len(targets) : targets[j] = targets'[k]
<1>1. TypeOK /\ ListIsExact /\ TargetsAreListed /\ LeftDuringDelivery
  BY DEF IInv
<1>2. UNCHANGED <<published, subscriptions, since, until>>
  BY DEF history
<1>3. /\ Len(targets) \in Nat \ {0} /\ Len(targets') = Len(targets) - 1
      /\ \A k \in 1..Len(targets') :
           k + 1 \in 2..Len(targets) /\ targets'[k] = targets[k + 1]
      /\ \A k \in 2..Len(targets) :
           k - 1 \in 1..Len(targets') /\ targets'[k - 1] = targets[k]
  BY <1>1, TailFacts
<1>4. ListIsExact'
  BY <1>1, <1>2 DEF ListIsExact, Listed, Subscribed
<1>5. \A k \in 1..Len(targets') : \E j \in 2..Len(targets) : targets[j] = targets'[k]
  BY <1>3
<1>6. \A k \in 1..Len(targets') :
        \/ targets'[k].id \in unsubscribed
        \/ \E i \in 1..Len(subscribers) : subscribers[i] = targets'[k]
  BY <1>1, <1>3, <1>5 DEF TargetsAreListed
<1>7. ASSUME NEW j \in 1..Len(targets'), NEW k \in 1..Len(targets'), j # k
      PROVE  targets'[j].ch # targets'[k].ch
  <2>1. /\ j + 1 \in 1..Len(targets) /\ k + 1 \in 1..Len(targets) /\ j + 1 # k + 1
        /\ targets'[j] = targets[j + 1] /\ targets'[k] = targets[k + 1]
    BY <1>3, <1>7
  <2> QED
    BY <1>1, <2>1 DEF TargetsAreListed
<1>8. TargetsAreListed'
  BY <1>6, <1>7 DEF TargetsAreListed
<1>9. LeftDuringDelivery'
  BY <1>1, <1>2, <1>3, <1>5 DEF LeftDuringDelivery
<1>10. ASSUME NEW d \in Channels, d # targets[1].ch, Pending(d)
       PROVE  Pending(d)'
  <2>1. PICK k \in 1..Len(targets) : targets[k].ch = d /\ targets[k].id \notin unsubscribed
    BY <1>10 DEF Pending
  <2>2. k \in 2..Len(targets)
    BY <1>3, <1>10, <2>1
  <2>3. k - 1 \in 1..Len(targets') /\ targets'[k - 1] = targets[k]
    BY <1>3, <2>2
  <2> QED
    BY <2>1, <2>3 DEF Pending
<1>11. ASSUME NEW k \in 1..Len(targets')
       PROVE  targets'[k].ch # targets[1].ch
  <2>1. /\ k + 1 \in 1..Len(targets) /\ 1 \in 1..Len(targets) /\ k + 1 # 1
        /\ targets'[k] = targets[k + 1]
    BY <1>3
  <2> QED
    BY <1>1, <2>1 DEF TargetsAreListed
<1> QED
  BY <1>3, <1>4, <1>5, <1>8, <1>9, <1>10, <1>11

\* The first target has not got the message yet, and is not passed again.
LEMMA DeliverKeeps ==
  ASSUME IInv, TypeOK', Deliver
  PROVE  IInv'
<1> DEFINE c == targets[1].ch
           n == Len(received[c])
<1>1. /\ TypeOK /\ TargetsAreListed /\ MessageInHand
      /\ NotYetReceived /\ LeftDuringDelivery
      /\ MissesNothing /\ InOrder /\ LateMessagesAreKnown
  BY DEF IInv
<1>2. /\ run = "deliver" /\ run' = "deliver" /\ targets # <<>> /\ targets' = Tail(targets)
      /\ Head(targets) = targets[1] /\ 1 \in 1..Len(targets) /\ Head(targets) \in Subscriber
      /\ UNCHANGED <<subscribers, unsubscribed, owner, history>>
  BY <1>1, TailFacts DEF Deliver
<1>3. UNCHANGED <<published, subscriptions, since, until>>
  BY <1>2 DEF history
<1>4. /\ c \in Channels /\ published \in Nat
      /\ received \in [Channels -> Seq(1..MaxMessages)]
  <2>1. c \in Channels
    BY <1>1, <1>2, TargetChannels
  <2>2. published \in Nat /\ received \in [Channels -> Seq(1..MaxMessages)]
    BY <1>1, BoundsAssumption DEF TypeOK
  <2> QED
    BY <2>1, <2>2
<1>5. owner[c] # "leaving" /\ received' = [received EXCEPT ![c] = Append(@, published)]
  BY <1>2 DEF Deliver
<1>6. \A d \in Channels : d # c => received'[d] = received[d]
  BY <1>4, <1>5
<1>7. received[c] \in Seq(1..MaxMessages) /\ received'[c] = Append(received[c], published)
  BY <1>4, <1>5
<1>8. /\ n \in Nat /\ Len(received'[c]) = n + 1 /\ received'[c][n + 1] = published
      /\ \A j \in 1..n : received'[c][j] = received[c][j] /\ received[c][j] \in Nat
  <2>1. n \in Nat /\ Len(received'[c]) = n + 1 /\ received'[c][n + 1] = published
    BY <1>7
  <2>2. \A j \in 1..n : received'[c][j] = received[c][j]
    BY <1>7
  <2>3. \A j \in 1..n : received[c][j] \in 1..MaxMessages
    BY <1>7, ElementOfSeq
  <2> QED
    BY <2>1, <2>2, <2>3
<1>9. \A j \in 1..n : received[c][j] < published
  BY <1>1, <1>2, <1>4 DEF NotYetReceived
<1>10. /\ ListIsExact' /\ TargetsAreListed' /\ LeftDuringDelivery'
       /\ \A d \in Channels : d # c => (Pending(d) => Pending(d)')
       /\ \A k \in 1..Len(targets') :
            targets'[k].ch # c /\ \E j \in 1..Len(targets) : targets[j] = targets'[k]
  BY <1>2, PassedTarget
<1> HIDE DEF c, n
<1>11. MessageInHand'
  <2>1. ASSUME NEW j \in 1..Len(received'[c])
        PROVE  received'[c][j] <= published
    <3>1. CASE j = n + 1
      BY <1>4, <1>8, <3>1
    <3>2. CASE j # n + 1
      <4>1. j \in 1..n
        BY <1>8, <3>2
      <4>2. received'[c][j] = received[c][j] /\ received[c][j] \in Nat
        BY <1>8, <4>1
      <4>3. received[c][j] < published
        BY <1>9, <4>1
      <4>4. published \in Nat
        BY <1>4
      <4> QED
        BY <4>2, <4>3, <4>4
    <3> QED
      BY <3>1, <3>2
  <2>2. \A d \in Channels : d # c =>
          \A j \in 1..Len(received'[d]) : received'[d][j] <= published
    BY <1>1, <1>6 DEF MessageInHand
  <2> QED
    BY <1>1, <1>2, <1>3, <2>1, <2>2 DEF MessageInHand
<1>12. NotYetReceived'
  <2> SUFFICES ASSUME NEW d \in Channels, NEW k \in 1..Len(targets'), targets'[k].ch = d
               PROVE  \A j \in 1..Len(received'[d]) : received'[d][j] < published'
    BY <1>2 DEF NotYetReceived
  <2>1. d # c
    BY <1>10
  <2>2. \E j \in 1..Len(targets) : targets[j].ch = d
    BY <1>10
  <2> QED
    BY <1>1, <1>3, <1>6, <2>1, <2>2 DEF NotYetReceived
<1>13. MissesNothing'
  <2> SUFFICES ASSUME NEW d \in Channels, Subscribed(d)',
                      NEW m \in since'[d] + 1 .. published'
               PROVE  \/ \E k \in 1..Len(received'[d]) : received'[d][k] = m
                      \/ m = published' /\ Pending(d)'
    BY DEF MissesNothing
  <2>1. Subscribed(d) /\ m \in since[d] + 1 .. published
    BY <1>2, <1>3 DEF Subscribed
  <2>2. \/ \E k \in 1..Len(received[d]) : received[d][k] = m
        \/ m = published /\ Pending(d)
    BY <1>1, <2>1 DEF MissesNothing
  <2>3. CASE d # c
    BY <1>3, <1>6, <1>10, <2>2, <2>3
  <2>4. CASE d = c /\ m = published
    <3>1. n + 1 \in 1..Len(received'[c])
      BY <1>8
    <3> QED
      BY <1>8, <2>4, <3>1
  <2>5. CASE d = c /\ m # published
    <3>1. PICK k \in 1..n : received[c][k] = m
      BY <2>2, <2>5 DEF n
    <3>2. k \in 1..Len(received'[c]) /\ received'[c][k] = m
      BY <1>8, <3>1
    <3> QED
      BY <2>5, <3>2
  <2> QED
    BY <2>3, <2>4, <2>5
<1>14. InOrder'
  <2> SUFFICES ASSUME NEW d \in Channels, NEW j \in 1..Len(received'[d]),
                      NEW k \in 1..Len(received'[d]), j < k
               PROVE  received'[d][j] < received'[d][k]
    BY DEF InOrder
  <2>1. CASE d # c
    BY <1>1, <1>6, <2>1 DEF InOrder
  <2>2. CASE d = c /\ k = n + 1
    <3>1. j \in 1..n
      BY <1>8, <2>2
    <3> QED
      BY <1>8, <1>9, <2>2, <3>1
  <2>3. CASE d = c /\ k # n + 1
    <3>1. j \in 1..n /\ k \in 1..n
      BY <1>8, <2>3
    <3>2. received[c][j] < received[c][k]
      BY <1>1, <1>4, <3>1 DEF InOrder, n
    <3> QED
      BY <1>8, <2>3, <3>1, <3>2
  <2> QED
    BY <2>1, <2>2, <2>3
<1>15. LateMessagesAreKnown'
  <2> SUFFICES ASSUME NEW d \in Channels, owner[d] = "out", NEW k \in 1..Len(received'[d])
               PROVE  received'[d][k] <= until[d]
    BY <1>2, <1>3 DEF LateMessagesAreKnown
  <2>1. CASE d # c
    BY <1>1, <1>6, <2>1 DEF LateMessagesAreKnown
  <2>2. CASE d = c
    <3>1. until[c] = published
      BY <1>1, <1>2, <2>2 DEF LeftDuringDelivery, c
    <3>2. CASE k = n + 1
      BY <1>4, <1>8, <2>2, <3>1, <3>2
    <3>3. CASE k # n + 1
      <4>1. k \in 1..n
        BY <1>8, <2>2, <3>3
      <4>2. received'[c][k] = received[c][k] /\ received[c][k] \in Nat
        BY <1>8, <4>1
      <4>3. received[c][k] < published /\ published \in Nat
        BY <1>4, <1>9, <4>1
      <4> QED
        BY <2>2, <3>1, <4>2, <4>3
    <3> QED
      BY <3>2, <3>3
  <2> QED
    BY <2>1, <2>2
<1> QED
  BY <1>10, <1>11, <1>12, <1>13, <1>14, <1>15 DEF IInv

\* A target that is skipped is one whose subscription has ended.
LEMMA SkipKeeps ==
  ASSUME IInv, TypeOK', Skip
  PROVE  IInv'
<1>1. /\ TypeOK /\ TargetsAreListed /\ MessageInHand /\ NotYetReceived
      /\ MissesNothing /\ InOrder /\ LateMessagesAreKnown
  BY DEF IInv
<1>2. /\ run = "deliver" /\ run' = "deliver" /\ targets # <<>> /\ targets' = Tail(targets)
      /\ Head(targets) = targets[1] /\ Head(targets).id \in unsubscribed
      /\ UNCHANGED <<subscribers, unsubscribed, owner, history>> /\ UNCHANGED received
  BY <1>1, TailFacts DEF Skip, owners
<1>3. UNCHANGED <<published, subscriptions, since, until>>
  BY <1>2 DEF history
<1>4. /\ ListIsExact' /\ TargetsAreListed' /\ LeftDuringDelivery'
      /\ \A d \in Channels : d # targets[1].ch => (Pending(d) => Pending(d)')
      /\ \A k \in 1..Len(targets') : \E j \in 1..Len(targets) : targets[j] = targets'[k]
  BY <1>2, PassedTarget
<1>5. MessageInHand' /\ InOrder' /\ LateMessagesAreKnown'
  BY <1>1, <1>2, <1>3 DEF MessageInHand, InOrder, LateMessagesAreKnown
<1>6. NotYetReceived'
  BY <1>1, <1>2, <1>3, <1>4 DEF NotYetReceived
<1>7. ASSUME NEW d \in Channels, Pending(d)
      PROVE  Pending(d)'
  <2>1. CASE d # targets[1].ch
    BY <1>4, <1>7, <2>1
  <2>2. CASE d = targets[1].ch
    <3>1. PICK k \in 1..Len(targets) : targets[k].ch = d /\ targets[k].id \notin unsubscribed
      BY <1>2, <1>7 DEF Pending
    <3>2. k # 1
      BY <1>2, <3>1
    <3>3. 1 \in 1..Len(targets)
      BY <1>1, <1>2, TailFacts
    <3> QED
      BY <1>1, <2>2, <3>1, <3>2, <3>3 DEF TargetsAreListed
  <2> QED
    BY <2>1, <2>2
<1>8. MissesNothing'
  BY <1>1, <1>2, <1>3, <1>7 DEF MissesNothing, Subscribed
<1> QED
  BY <1>4, <1>5, <1>6, <1>8 DEF IInv

\* Steps that touch neither the list nor the message in hand.
LEMMA OthersKeep ==
  ASSUME IInv, TypeOK',
         UNCHANGED <<subscribers, unsubscribed, targets, received, history>>,
         run' = "copy" <=> run = "copy",
         run' = "deliver" => run = "deliver",
         \A c \in Channels :
           (owner'[c] = "out" <=> owner[c] = "out") /\ (Subscribed(c)' <=> Subscribed(c))
  PROVE  IInv'
<1>1. /\ TypeOK /\ ListIsExact /\ TargetsAreListed /\ MessageInHand
      /\ NotYetReceived /\ LeftDuringDelivery
      /\ MissesNothing /\ InOrder /\ LateMessagesAreKnown
  BY DEF IInv
<1>2. UNCHANGED <<published, subscriptions, since, until>>
  BY DEF history
<1>3. ListIsExact' /\ TargetsAreListed'
  BY <1>1, <1>2 DEF ListIsExact, Listed, TargetsAreListed
<1>4. MessageInHand' /\ NotYetReceived' /\ InOrder'
  BY <1>1, <1>2 DEF MessageInHand, NotYetReceived, InOrder
<1>5. LeftDuringDelivery' /\ LateMessagesAreKnown'
  BY <1>1, <1>2, TargetChannels DEF LeftDuringDelivery, LateMessagesAreKnown
<1>6. \A c \in Channels : Pending(c)' <=> Pending(c)
  BY DEF Pending
<1>7. MissesNothing'
  BY <1>1, <1>2, <1>6 DEF MissesNothing
<1> QED
  BY <1>3, <1>4, <1>5, <1>7 DEF IInv

\* Every step keeps the invariant.
LEMMA NextIInv ==
  ASSUME IInv, [Next]_vars
  PROVE  IInv'
<1>1. TypeOK /\ TypeOK'
  BY NextTypes DEF IInv
<1>2. ASSUME NEW c \in Channels, Subscribe(c) PROVE IInv'
  BY <1>1, <1>2, SubscribeKeeps
<1>3. ASSUME NEW c \in Channels, Unsubscribe(c) PROVE IInv'
  BY <1>1, <1>3, UnsubscribeKeeps
<1>4. ASSUME NEW c \in Channels, StopListening(c) PROVE IInv'
  <2>1. /\ owner[c] = "listening" /\ owner' = [owner EXCEPT ![c] = "leaving"]
        /\ owner \in [Channels -> {"out", "listening", "leaving"}]
    BY <1>1, <1>4 DEF StopListening, TypeOK
  <2>2. \A d \in Channels :
          (owner'[d] = "out" <=> owner[d] = "out") /\ (Subscribed(d)' <=> Subscribed(d))
    BY <2>1 DEF Subscribed
  <2>3. UNCHANGED <<subscribers, unsubscribed, targets, received, history>> /\ UNCHANGED run
    BY <1>4 DEF StopListening, topic
  <2> QED
    BY <1>1, <2>2, <2>3, OthersKeep
<1>5. ASSUME UNCHANGED <<subscribers, unsubscribed, targets, owners, history>>,
             run' = "copy" <=> run = "copy", run' = "deliver" => run = "deliver"
      PROVE  IInv'
  <2>1. UNCHANGED owner /\ UNCHANGED received
    BY <1>5 DEF owners
  <2>2. \A d \in Channels :
          (owner'[d] = "out" <=> owner[d] = "out") /\ (Subscribed(d)' <=> Subscribed(d))
    BY <2>1 DEF Subscribed
  <2> QED
    BY <1>1, <1>5, <2>1, <2>2, OthersKeep
<1>6. CASE Publish
  <2>1. run # "copy"
    BY <1>1, <1>6 DEF Publish, TypeOK
  <2> QED
    BY <1>5, <1>6, <2>1 DEF Publish
<1>7. CASE Close
  BY <1>5, <1>7 DEF Close
<1>8. CASE Receive
  BY <1>1, <1>8, ReceiveKeeps
<1>9. CASE CopySubscribers
  BY <1>1, <1>9, CopySubscribersKeeps
<1>10. CASE Deliver
  BY <1>1, <1>10, DeliverKeeps
<1>11. CASE Skip
  BY <1>1, <1>11, SkipKeeps
<1>12. CASE NextMessage
  BY <1>5, <1>12 DEF NextMessage
<1>13. CASE End
  BY <1>5, <1>13 DEF End
<1>14. CASE UNCHANGED vars
  <2>1. UNCHANGED <<subscribers, unsubscribed, targets, owners, history>> /\ UNCHANGED run
    BY <1>14 DEF vars, topic
  <2> QED
    BY <1>5, <2>1
<1> QED
  BY <1>2, <1>3, <1>4, <1>6, <1>7, <1>8, <1>9, <1>10, <1>11, <1>12, <1>13, <1>14
     DEF Next, RunStep

-----------------------------------------------------------------------------
(* Theorems.                                                               *)

\* The invariant holds of every behaviour.
THEOREM Invariance == Spec => []IInv
BY InitIInv, NextIInv, PTL DEF Spec

\* There is one goroutine, and it delivers only what it took: see TypeOK.
THEOREM TypeCorrect == Spec => []TypeOK
<1>1. IInv => TypeOK
  BY DEF IInv
<1> QED
  BY <1>1, Invariance, PTL

\* A channel that is subscribed gets every message: see MissesNothing.
THEOREM NothingIsMissed == Spec => []MissesNothing
<1>1. IInv => MissesNothing
  BY DEF IInv
<1> QED
  BY <1>1, Invariance, PTL

\* Messages arrive in order and once: see InOrder.
THEOREM OrderIsKept == Spec => []InOrder
<1>1. IInv => InOrder
  BY DEF IInv
<1> QED
  BY <1>1, Invariance, PTL

\* Nothing published after Unsubscribe arrives: see LateMessagesAreKnown.
THEOREM UnsubscribeIsFinal == Spec => []LateMessagesAreKnown
<1>1. IInv => LateMessagesAreKnown
  BY DEF IInv
<1> QED
  BY <1>1, Invariance, PTL
=============================================================================
