---------------------------- MODULE EventStream ----------------------------
(***************************************************************************)
(* What an event stream promises its producers: each batch of events takes *)
(* one interval of offsets, the one that starts where the stream ended,    *)
(* and whoever asks for a batch to be appended, and is answered, is told   *)
(* that interval and whether an earlier attempt had appended it.           *)
(***************************************************************************)
EXTENDS Naturals, Sequences

CONSTANTS
  Batches,   \* batches of events, each known by the ID of its first event
  Size       \* the number of events of a batch

VARIABLES
  stream,    \* the batches with their offsets, in order
  responses  \* the successful responses producers were sent

End == IF stream = <<>> THEN 0 ELSE stream[Len(stream)].after

Init == stream = <<>> /\ responses = {}

Response(rec, prior) ==
  [batch |-> rec.batch, begin |-> rec.before, end |-> rec.after,
   prior |-> prior]

\* The producer may or may not learn that its batch was appended.
AppendBatch(b) ==
  LET rec == [batch |-> b, before |-> End, after |-> End + Size[b]]
  IN  /\ \A i \in 1..Len(stream) : stream[i].batch # b
      /\ stream' = Append(stream, rec)
      /\ responses' \in {responses, responses \cup {Response(rec, FALSE)}}

Repeat(b) ==
  /\ \E i \in 1..Len(stream) :
       /\ stream[i].batch = b
       /\ responses' = responses \cup {Response(stream[i], TRUE)}
  /\ UNCHANGED stream

Next == \E b \in Batches : AppendBatch(b) \/ Repeat(b)

Spec == Init /\ [][Next]_<<stream, responses>>
=============================================================================
