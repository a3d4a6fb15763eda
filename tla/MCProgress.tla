----------------------------- MODULE MCProgress -----------------------------
(***************************************************************************)
(* The places where somebody waits for somebody else: misses that wait for   *)
(* the leader of their key (Coalescing), players that wait for a segment     *)
(* (LiveStore), and origins whose probe must tell that they are down         *)
(* (OriginPool without requests).  They share no state, so a behaviour runs  *)
(* one of them, chosen at the start.                                         *)
(***************************************************************************)
EXTENDS Coalescing, TLC

VARIABLES
  part,
  stream, session, reader, ending, abandoned, raced,    \* LiveStore
  up, config, health, probe, conns, client, flips, closed, orders,
  faulty, left, stale, dropped    \* OriginPool

\* An RTMP and an SRT encoder race for a stream name, and one player asks for the
\* first part of the first segment (published as a part, then inside the segment,
\* then evicted with it) or for the second segment.
Ingest ==
  INSTANCE LiveStore WITH
     Sessions <- {"rtmp", "srt"}, Rtmp <- {"rtmp"}, Names <- {"a"}, Readers <- {"player"},
     Targets <- {<<0, 0>>, <<1, None>>}, LLHLS <- TRUE, MaxSegments <- 2, MaxStreams <- 1,
     MaxSeq <- 3, MaxShared <- 1, MaxParts <- 1

Probes ==
  INSTANCE OriginPool WITH
     Origins <- {"o"}, Backups <- {}, Requests <- {}, Retries <- 2,
     PassiveDown <- 2, PassiveUp <- 1, ProbeDown <- 2, ProbeUp <- 2,
     Orders <- {"config", "panic"}, MaxFlips <- 3, MaxClosed <- 0, MaxOrders <- 2,
     req <- client

fetchVars == <<entry, req, puts, cached>>
liveVars == <<stream, session, reader, ending, abandoned, raced>>
probeVars == <<up, config, health, probe, conns, client, flips, closed, orders,
               faulty, left, stale, dropped>>

allVars == <<part, fetchVars, liveVars, probeVars>>

ProgressInit ==
  /\ part \in {"fetch", "live", "probe"}
  /\ Init /\ Ingest!Init /\ Probes!Init

ProgressNext ==
  \/ part = "fetch" /\ Next /\ UNCHANGED <<part, liveVars, probeVars>>
  \/ part = "live" /\ Ingest!Next /\ UNCHANGED <<part, fetchVars, probeVars>>
  \/ part = "probe" /\ Probes!Next /\ UNCHANGED <<part, fetchVars, liveVars>>

\* Probes!Fairness, owed only where the probes run: elsewhere the supervisor could
\* always start one and never does.  Nothing is enabled in the other two parts while
\* they do not run.
ProbeFairness ==
  /\ WF_probeVars(part = "probe" /\ Probes!Reconcile)
  /\ WF_probeVars(part = "probe" /\ Probes!Probing("o"))

ProgressSpec ==
  /\ ProgressInit /\ [][ProgressNext]_allVars
  /\ Fairness /\ Ingest!Fairness /\ ProbeFairness

-----------------------------------------------------------------------------

\* Segments and parts of the store agree with the segmenter that fills it
\* (store.rs 244-301, segmenter.rs).
WindowConsistent == Ingest!WindowConsistent

\* No wake-up of a held playlist request is lost (blocking.rs 19-35, store.rs 321-334).
NoLostWakeup == Ingest!NoLostWakeup

\* A held request that did not time out is answered with its target, a complete
\* playlist, or one that begins after the target (manifest/mod.rs 52-95).
AnswerHasTarget == Ingest!AnswerHasTarget

\* Every playlist request is answered (blocking.rs 37-45).
RequestsAnswered == Ingest!RequestsAnswered

=============================================================================
