----------------------------- MODULE LogQueue ------------------------------
(***************************************************************************)
(* The access-log queue (cdn-log/src/queue.rs) and its sinks                 *)
(* (cdn-log/src/sink).  Every request offers one message per channel to a    *)
(* bounded queue without waiting; one consumer takes batches, groups them by *)
(* destination and hands each group to the sink; a group the sink reports as *)
(* failed is written to the local log.                                       *)
(***************************************************************************)
EXTENDS Naturals, Sequences, SequencesExt

CONSTANTS
  Entries,    \* log entries, one per request
  Unreached,  \* those of requests that never reached an origin: no phase timings
  Channels,   \* the destinations of the enabled channels, in push_log's order
  Phases,     \* the channels among them that are about a phase
  Capacity,   \* of the queue (8192)
  BatchSize   \* messages per batch (128)

VARIABLES
  sink,       \* the kind of sink configured
  at,         \* at[e]: the channel push_log is at for e
  queue,      \* the mpsc channel: <<destination, payload>>
  batches,    \* batches[d]: the group of d that is not yet dealt with
  sending,    \* the group at the sink: destination, entries done, error met
  out,        \* out[d]: what has arrived at d
  local,      \* the messages in the local log
  accepted,   \* the messages the queue took
  claimed     \* messages that did not arrive although the sink had no error

vars == <<sink, at, queue, batches, sending, out, local, accepted, claimed>>

Dests == ToSet(Channels)
\* kafka behaves as nats does.
Sinks == {"nats", "pulsar", "rabbitmq", "redis"}

\* Sinks that wait for no answer that tells of a loss: rabbitmq never asks for
\* confirms and takes a Nack for one, nats is done when the message is buffered
\* (and drops the acknowledgement of JetStream), kafka's acks may be 0.
Unconfirmed == {"nats", "rabbitmq"}

NoGroups == [d \in Dests |-> <<>>]
Idle == [dest |-> "none", done |-> 0, err |-> FALSE]

Init ==
  /\ sink \in Sinks
  /\ at = [e \in Entries |-> 1]
  /\ queue = <<>> /\ batches = NoGroups /\ sending = Idle
  /\ out = NoGroups /\ local = {} /\ accepted = {} /\ claimed = {}

\* The channel has data for e: the phases only when an origin was reached.
Applies(c, e) == c \in Phases => e \notin Unreached

\* push_log at one channel: try_send drops the message when the queue is full.
push_log(e) ==
  /\ at[e] <= Len(Channels)
  /\ at' = [at EXCEPT ![e] = @ + 1]
  /\ LET m == <<Channels[at[e]], <<e, at[e]>>>> IN
     \/ /\ Len(queue) = Capacity \/ ~Applies(at[e], e)
        /\ UNCHANGED <<queue, accepted>>
     \/ /\ Len(queue) < Capacity /\ Applies(at[e], e)
        /\ queue' = Append(queue, m)
        /\ accepted' = accepted \cup {m}
  /\ UNCHANGED <<sink, batches, sending, out, local, claimed>>

\* Mutant: a group is filled from the front.
GroupReversed(raw, d) ==
  LET mine == SelectSeq(raw, LAMBDA m : m[1] = d)
  IN  [i \in DOMAIN mine |-> mine[Len(mine) + 1 - i][2]]

\* The entries of raw for d, in their order.
Group(raw, d) ==
  LET mine == SelectSeq(raw, LAMBDA m : m[1] = d)
  IN  [i \in DOMAIN mine |-> mine[i][2]]

\* log_consumer: one message is waited for, more are taken while there are any.
Drain ==
  /\ batches = NoGroups /\ queue # <<>>
  /\ LET n == IF Len(queue) < BatchSize THEN Len(queue) ELSE BatchSize IN
       /\ batches' = [d \in Dests |-> Group(SubSeq(queue, 1, n), d)]
       /\ queue' = SubSeq(queue, n + 1, Len(queue))
  /\ UNCHANGED <<sink, at, sending, out, local, accepted, claimed>>

Messages(d, es) == {<<d, es[i]>> : i \in DOMAIN es}

\* sink.send begins with the next group, in the order of a HashMap.
SendGroup(d) ==
  /\ sending = Idle /\ batches[d] # <<>>
  /\ sending' = [Idle EXCEPT !.dest = d]
  /\ UNCHANGED <<sink, at, queue, batches, out, local, accepted, claimed>>

\* Mutant: redis reports a failed entry and keeps nothing.
RedisForgets(m) == {}

\* The redis sink writes a failed entry to the local log itself.
RedisKeeps(m) == {m}

\* One entry at the sink.  It may arrive although an error is reported (the answer
\* was lost), and a sink without confirmations may lose it without one.  kafka, nats
\* and pulsar go on after an error; rabbitmq goes on when a confirmation fails and
\* gives up when the publish does; redis reports no error.
SendEntry ==
  LET d == sending.dest
      group == batches[d]
      e == group[sending.done + 1]
  IN
  /\ sending # Idle /\ sending.done < Len(group)
  /\ \E arrives, error \in BOOLEAN :
       /\ arrives \/ error \/ sink \in Unconfirmed
       /\ claimed' = IF arrives \/ error THEN claimed ELSE claimed \cup {<<d, e>>}
       /\ out' = IF arrives THEN [out EXCEPT ![d] = Append(@, e)] ELSE out
       /\ local' = IF error /\ sink = "redis" THEN local \cup RedisKeeps(<<d, e>>) ELSE local
       /\ \/ sending' = [sending EXCEPT !.done = @ + 1,
                                         !.err = @ \/ (error /\ sink # "redis")]
          \/ /\ sink = "rabbitmq" /\ error
             /\ sending' = [sending EXCEPT !.done = Len(group), !.err = TRUE]
  /\ UNCHANGED <<sink, at, queue, batches, accepted>>

\* get_channel, get_producer or is_available fails before the first entry; nats and
\* kafka have their client from the start.
NoConnection ==
  /\ sending # Idle /\ sending.done = 0 /\ sink # "nats"
  /\ sending' = [sending EXCEPT !.done = Len(batches[sending.dest]), !.err = TRUE]
  /\ UNCHANGED <<sink, at, queue, batches, out, local, accepted, claimed>>

\* send has returned: on an error the whole group goes to the local log.
GroupSent ==
  LET d == sending.dest IN
  /\ sending # Idle /\ sending.done = Len(batches[d])
  /\ local' = IF sending.err THEN local \cup Messages(d, batches[d]) ELSE local
  /\ batches' = [batches EXCEPT ![d] = <<>>]
  /\ sending' = Idle
  /\ UNCHANGED <<sink, at, queue, out, accepted, claimed>>

log_consumer ==
  Drain \/ SendEntry \/ NoConnection \/ GroupSent \/ \E d \in Dests : SendGroup(d)

Next == log_consumer \/ \E e \in Entries : push_log(e)

Spec == Init /\ [][Next]_vars

-----------------------------------------------------------------------------

\* What is still to come out for d: the rest of its group, then the queue.
Pending(d) ==
  LET skip == IF sending.dest = d THEN sending.done ELSE 0
  IN  SubSeq(batches[d], skip + 1, Len(batches[d])) \o Group(queue, d)

Payloads == Entries \X DOMAIN Channels

Abstract == INSTANCE LossyFifo WITH Entries <- Payloads, pending <- [d \in Dests |-> Pending(d)]

\* Queue, batches and groups together are a lossy first-in first-out channel per
\* destination: whatever sink is used and wherever it fails, a destination sees its
\* entries in the order push_log queued them and each at most once.
DeliveredInOrder == Abstract!Spec

\* A message the queue accepted is not lost by the node: it is on its way, at its
\* destination or in the local log, also when a sink fails in the middle of a group or
\* gives up the rest of it (queue.rs 45-53, sink/*.rs).  The one exception is an entry
\* that a sink without confirmations took without an error and never delivered.
Recorded ==
  \A m \in accepted :
    \/ m \in ToSet(queue)
    \/ m[2] \in ToSet(batches[m[1]])
    \/ m[2] \in ToSet(out[m[1]])
    \/ m \in local
    \/ sink \in Unconfirmed /\ m \in claimed
=============================================================================
