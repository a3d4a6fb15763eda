----------------------------- MODULE LiveStore -----------------------------
(***************************************************************************)
(* Live ingest (cdn-ingest): RTMP and SRT sessions create streams, feed a    *)
(* private segmenter and publish what it completes; players ask for          *)
(* playlists and may be held until a segment or part exists.  A stream has   *)
(* one lock: everything done under one acquisition is one step, and so is    *)
(* each half of create_stream.  Nothing calls remove_stream or               *)
(* remove_stale_streams, so a stream stays in the map.                       *)
(***************************************************************************)
EXTENDS Integers, Sequences, FiniteSets, TLC

CONSTANTS
  Sessions,     \* encoder connections
  Rtmp,         \* those of them that speak RTMP; the others speak SRT
  Names,        \* streams that the stream keys authorise, as app/stream_name
  Readers,      \* playlist requests with _HLS_msn
  Targets,      \* what they ask for: pairs of _HLS_msn and _HLS_part, or None
  LLHLS,        \* ll_hls.enabled
  MaxSegments,  \* max_segments: the ring buffer of a stream
  MaxStreams,   \* max_streams
  MaxSeq,       \* bound on the segments of a stream
  MaxShared,    \* bound on those of two streams together
  MaxParts,     \* bound on the parts of a segment
  None          \* no stream, no part

VARIABLES
  stream,     \* the store: a function on the keys it holds
  session,    \* per connection: phase, stream and segmenter
  reader,     \* per playlist request: phase, stream, target
  ending,     \* streams with a spawned end_stream task
  abandoned,  \* history: streams whose session left without end_stream
  raced       \* history: two creations were under way at once

vars == <<stream, session, reader, ending, abandoned, raced>>

Init ==
  /\ stream = << >>
  /\ session = [s \in Sessions |-> [pc |-> "open", name |-> None, seg |-> None]]
  /\ reader = [r \in Readers |-> [pc |-> "idle", name |-> None, msn |-> 0, part |-> None,
                                  timed |-> FALSE, got |-> FALSE]]
  /\ ending = {} /\ abandoned = {} /\ raced = FALSE

-----------------------------------------------------------------------------
(* LiveSegmenter.  Time is abstracted to whether a frame comes at least       *)
(* segment_duration or part_duration after the start of the running segment   *)
(* or part; both are positive, so the frame that sets a start never does.     *)
(* Timestamps of the two tracks are subtracted in different time scales and   *)
(* may wrap, which makes any later frame long.  Audio samples decide nothing. *)

\* config: video_config is set; built: init_segment_built; next, index: next
\* sequence and part index; start, pstart: segment_start_dts and part_start_dts
\* are set; video, pvideo: there are video samples in the segment and the part.
NewSegmenter ==
  [config |-> FALSE, built |-> FALSE, next |-> 0, index |-> 0,
   start |-> FALSE, pstart |-> FALSE, video |-> FALSE, pvideo |-> FALSE]

\* Mutant: the part index runs on over segments.
CutKeepsIndex(g) ==
  [g EXCEPT !.next = @ + 1, !.start = FALSE, !.video = FALSE,
            !.pstart = @ /\ ~(LLHLS /\ g.pvideo), !.pvideo = @ /\ ~LLHLS]

\* cut_segment, which also cuts the remaining part.
CutSegment(g) ==
  [g EXCEPT !.next = @ + 1, !.start = FALSE, !.video = FALSE, !.index = 0,
            !.pstart = @ /\ ~(LLHLS /\ g.pvideo), !.pvideo = @ /\ ~LLHLS]

CutPart(g) == [g EXCEPT !.index = @ + 1, !.pstart = FALSE, !.pvideo = FALSE]

\* push_frame builds the init segment as soon as there is a video configuration.
BuildsInit(g) == g.config /\ ~g.built

\* push_frame for a frame of the video (keyframe or not) or audio track that is
\* `long` after the start of the segment and `plong` after that of the part.
\* A segment carries only the part cut with it.
PushFrame(g, video, key, long, plong) ==
  LET init == BuildsInit(g)
      g1   == [g EXCEPT !.built = @ \/ init, !.start = TRUE, !.pstart = TRUE]
      cut  == key /\ g.video /\ g.start /\ long
      g2   == IF cut THEN CutSegment(g1) ELSE g1
      part == LLHLS /\ g.pstart /\ plong /\ g2.pvideo
      g3   == IF part THEN CutPart(g2) ELSE g2
  IN [init    |-> init,
      parts   |-> IF part THEN <<g2.index>> ELSE << >>,
      segment |-> IF cut THEN <<[sequence |-> g.next, media |-> g.config,
                                 parts |-> IF LLHLS /\ g.pvideo THEN <<g.index>> ELSE << >>]>>
                         ELSE << >>,
      seg     |-> [g3 EXCEPT !.video = @ \/ video, !.pvideo = @ \/ video]]

-----------------------------------------------------------------------------
(* LiveStream *)

\* next is next_sequence and current_part_sequence, which are always equal.
NewStream ==
  [init |-> FALSE, segments |-> << >>, media_sequence |-> 0, next |-> 0,
   current_parts |-> << >>, ended |-> FALSE, waiters |-> {}]

\* Mutant: the segment under way counts as there.
OneTooEarly(st, msn, part) ==
  \/ st.segments # << >> /\ msn <= st.segments[Len(st.segments)].sequence + 1
  \/ msn = st.next /\ Len(st.current_parts) > (IF part = None THEN 0 ELSE part)

is_available(st, msn, part) ==
  \/ st.segments # << >> /\ msn <= st.segments[Len(st.segments)].sequence
  \/ msn = st.next /\ Len(st.current_parts) > (IF part = None THEN 0 ELSE part)

notify_waiters(st) ==
  [st EXCEPT !.waiters = {r \in @ : /\ ~is_available(st, reader[r].msn, reader[r].part)
                                    /\ ~st.ended}]

push_part(st, index) == notify_waiters([st EXCEPT !.current_parts = Append(@, index)])

push_segment(st, segment) ==
  LET all  == Append(st.segments, segment)
      over == IF Len(all) > MaxSegments THEN Len(all) - MaxSegments ELSE 0
  IN notify_waiters([st EXCEPT !.segments = SubSeq(all, over + 1, Len(all)),
                               !.media_sequence = @ + over,
                               !.current_parts = << >>,
                               !.next = @ + 1])

\* apply_segmenter_output, under one write lock: init segment, parts, segment.
apply_segmenter_output(st, out) ==
  LET s1 == [st EXCEPT !.init = @ \/ out.init]
      s2 == IF out.parts = << >> THEN s1 ELSE push_part(s1, out.parts[1])
  IN IF out.segment = << >> THEN s2 ELSE push_segment(s2, out.segment[1])

-----------------------------------------------------------------------------
(* Sessions *)

Over == [pc |-> "over", name |-> None, seg |-> None]

Live(s) == session[s].pc \in {"live", "finished"}

WithinBounds(s, seg) ==
  /\ seg.next <= MaxSeq /\ seg.index <= MaxParts
  /\ \A n \in DOMAIN stream \ {session[s].name} : stream[n].next + seg.next <= MaxShared

\* What a session leaves behind that is neither ended nor about to be: an RTMP
\* connection that publishes again or fails does not end its running stream.
Left(s) == IF session[s].pc = "live" THEN {session[s].name} ELSE {}

Full == Cardinality(DOMAIN stream) >= MaxStreams

\* Publish, first half: the key is valid and create_stream compares the number of
\* streams with the limit.  Only an RTMP connection can publish more than once.
CreateCheck(s, n) ==
  /\ session[s].pc = "open" \/ (s \in Rtmp /\ Live(s))
  /\ abandoned' = abandoned \cup Left(s)
  /\ IF Full
     THEN /\ session' = [session EXCEPT ![s] = Over]
          /\ UNCHANGED raced
     ELSE /\ session' = [session EXCEPT ![s].pc = "creating", ![s].name = n]
          /\ raced' = (raced \/ \E q \in Sessions : session[q].pc = "creating")
  /\ UNCHANGED <<stream, reader, ending>>

\* Second half: the entry must be vacant.
Vacant(n) == n \notin DOMAIN stream

CreateInsert(s) ==
  /\ session[s].pc = "creating"
  /\ IF Vacant(session[s].name)
     THEN /\ stream' = session[s].name :> NewStream @@ stream
          /\ session' = [session EXCEPT ![s].pc = "live", ![s].seg = NewSegmenter]
     ELSE /\ session' = [session EXCEPT ![s] = Over]
          /\ UNCHANGED stream
  /\ UNCHANGED <<reader, ending, abandoned, raced>>

\* An RTMP sequence header sets the video configuration; the SRT path never does.
SetVideoConfig(s) ==
  /\ s \in Rtmp /\ session[s].pc = "live"
  /\ session' = [session EXCEPT ![s].seg.config = TRUE]
  /\ UNCHANGED <<stream, reader, ending, abandoned, raced>>

\* A frame goes through the segmenter and into the store.
Frame(s, video, key, long, plong) ==
  /\ session[s].pc = "live"
  /\ key => video
  /\ long => key      \* only a keyframe cuts a segment
  /\ LET out == PushFrame(session[s].seg, video, key, long, plong) IN
       /\ WithinBounds(s, out.seg)
       /\ session' = [session EXCEPT ![s].seg = out.seg]
       /\ stream' = [stream EXCEPT ![session[s].name] = apply_segmenter_output(@, out)]
  /\ UNCHANGED <<reader, ending, abandoned, raced>>

\* PublishStreamFinished: end_stream spawns its task; the connection stays, and
\* the RTMP library delivers no more frames for it.
PublishFinished(s) ==
  /\ s \in Rtmp /\ session[s].pc = "live"
  /\ ending' = ending \cup {session[s].name}
  /\ session' = [session EXCEPT ![s].pc = "finished"]
  /\ UNCHANGED <<stream, reader, abandoned, raced>>

\* end_stream after the loop, if a stream was published.
CleanUp(s) == IF Live(s) THEN {session[s].name} ELSE {}

\* The connection closes, or an SRT receive fails: the loop is left by break.
Disconnect(s) ==
  /\ session[s].pc = "open" \/ Live(s)
  /\ ending' = ending \cup CleanUp(s)
  /\ session' = [session EXCEPT ![s] = Over]
  /\ UNCHANGED <<stream, reader, abandoned, raced>>

\* An RTMP read, write or protocol error, or a key that is not valid, leaves
\* handle_rtmp_connection at once.
Fail(s) ==
  /\ s \in Rtmp /\ (session[s].pc = "open" \/ Live(s))
  /\ abandoned' = abandoned \cup Left(s)
  /\ session' = [session EXCEPT ![s] = Over]
  /\ UNCHANGED <<stream, reader, ending, raced>>

\* The task spawned by end_stream takes the lock.
EndTask(n) ==
  /\ n \in ending
  /\ ending' = ending \ {n}
  /\ stream' = [stream EXCEPT ![n].ended = TRUE, ![n].waiters = {}]
  /\ UNCHANGED <<session, reader, abandoned, raced>>

-----------------------------------------------------------------------------
(* serve_manifest with _HLS_msn and _HLS_part; a request without them only     *)
(* reads, as the requests for segments and parts do.                          *)

Ready(st, r) == is_available(st, r.msn, r.part) \/ st.ended

\* wait_for_availability looks first under the read lock.
Ask(r, n, msn, part) ==
  /\ reader[r].pc = "idle" /\ n \in DOMAIN stream
  /\ LET asked == [reader[r] EXCEPT !.name = n, !.msn = msn, !.part = part] IN
       reader' = [reader EXCEPT ![r] =
                    [asked EXCEPT !.pc = IF Ready(stream[n], asked) THEN "serve" ELSE "checked"]]
  /\ UNCHANGED <<stream, session, ending, abandoned, raced>>

\* Mutant: no second look under the write lock.
NoSecondLook(r) == FALSE

SecondLook(r) == Ready(stream[reader[r].name], reader[r])

Register(r) ==
  /\ reader[r].pc = "checked"
  /\ IF SecondLook(r)
     THEN /\ reader' = [reader EXCEPT ![r].pc = "serve"]
          /\ UNCHANGED stream
     ELSE /\ reader' = [reader EXCEPT ![r].pc = "waiting"]
          /\ stream' = [stream EXCEPT ![reader[r].name].waiters = @ \cup {r}]
  /\ UNCHANGED <<session, ending, abandoned, raced>>

Registered(r) == r \in stream[reader[r].name].waiters

\* The oneshot was sent.
Woken(r) ==
  /\ reader[r].pc = "waiting" /\ ~Registered(r)
  /\ reader' = [reader EXCEPT ![r].pc = "serve"]
  /\ UNCHANGED <<stream, session, ending, abandoned, raced>>

\* Mutant: a wait without limit.
NeverTimesOut(r) == FALSE

\* The six seconds are over; the registration stays in the list.
MayTimeOut(r) == reader[r].pc = "waiting" /\ Registered(r)

TimeOut(r) ==
  /\ MayTimeOut(r)
  /\ reader' = [reader EXCEPT ![r].pc = "serve", ![r].timed = TRUE]
  /\ UNCHANGED <<stream, session, ending, abandoned, raced>>

\* generate_live_manifest: the segments of the window, the parts of the running
\* segment, and the end of the list.  got: the target is among them, or the
\* playlist shows that it will not come, being complete or beginning after it.
Listed(st, msn, part) ==
  \/ \E i \in DOMAIN st.segments : st.segments[i].sequence = msn
  \/ /\ LLHLS /\ msn = st.next
     /\ \E k \in DOMAIN st.current_parts : part = None \/ st.current_parts[k] = part

Serve(r) ==
  /\ reader[r].pc = "serve"
  /\ LET st == stream[reader[r].name] IN
       reader' = [reader EXCEPT ![r].pc = "served",
                                ![r].got = \/ Listed(st, reader[r].msn, reader[r].part)
                                           \/ st.ended \/ reader[r].msn < st.media_sequence]
  /\ UNCHANGED <<stream, session, ending, abandoned, raced>>

\* serve_part: whether a part is found in the window or in the running segment.
serve_part(st, sequence, index) ==
  \/ \E i \in DOMAIN st.segments : /\ st.segments[i].sequence = sequence
                                   /\ \E k \in DOMAIN st.segments[i].parts :
                                        st.segments[i].parts[k] = index
  \/ sequence = st.next /\ \E k \in DOMAIN st.current_parts : st.current_parts[k] = index

-----------------------------------------------------------------------------
Encoder(s) ==
  \/ \E n \in Names : CreateCheck(s, n)
  \/ CreateInsert(s) \/ SetVideoConfig(s) \/ PublishFinished(s) \/ Disconnect(s) \/ Fail(s)
  \/ \E video, key, long, plong \in BOOLEAN : Frame(s, video, key, long, plong)

Player(r) == Register(r) \/ Woken(r) \/ TimeOut(r) \/ Serve(r)

Next ==
  \/ \E s \in Sessions : Encoder(s)
  \/ \E n \in Names : EndTask(n)
  \/ \E r \in Readers, n \in Names, t \in Targets : Ask(r, n, t[1], t[2])
  \/ \E r \in Readers : Player(r)

Spec == Init /\ [][Next]_vars

\* The runtime polls requests and spawned tasks, and timers fire; encoders owe
\* nothing.
Fairness ==
  (\A r \in Readers : WF_vars(Player(r))) /\ (\A n \in Names : WF_vars(EndTask(n)))

FairSpec == Spec /\ Fairness

-----------------------------------------------------------------------------
(* Properties. *)

\* Every variable has its type; a running session's stream and every stream about
\* to end are in the store.
TypeOK ==
  /\ DOMAIN stream \subseteq Names
  /\ \A n \in DOMAIN stream : stream[n].ended \in BOOLEAN /\ stream[n].waiters \subseteq Readers
  /\ \A s \in Sessions : /\ session[s].pc \in {"open", "creating", "live", "finished", "over"}
                         /\ Live(s) => session[s].name \in DOMAIN stream
  /\ \A r \in Readers : /\ reader[r].pc \in {"idle", "checked", "waiting", "serve", "served"}
                        /\ reader[r].pc # "idle" => reader[r].name \in DOMAIN stream
  /\ ending \cup abandoned \subseteq DOMAIN stream
  /\ raced \in BOOLEAN

\* The window a player sees is consistent with the segmenter that fills it: the
\* segments are consecutive from media_sequence and at most max_segments, parts
\* of the running segment are numbered from 0, and the counters of store and
\* segmenter, which advance separately, agree.
WindowConsistent ==
  /\ \A n \in DOMAIN stream :
       LET st == stream[n] IN
       /\ Len(st.segments) <= MaxSegments
       /\ st.media_sequence + Len(st.segments) = st.next
       /\ \A i \in DOMAIN st.segments : st.segments[i].sequence = st.media_sequence + i - 1
       /\ \A i \in DOMAIN st.current_parts : st.current_parts[i] = i - 1
  /\ \A s \in Sessions : session[s].pc = "live" =>
       LET st == stream[session[s].name] IN
       /\ session[s].seg.next = st.next
       /\ session[s].seg.index = Len(st.current_parts)

\* No wake-up is lost: a request stays registered only while what it waits for is
\* missing and the stream goes on, although it looked before it registered.
NoLostWakeup ==
  \A n \in DOMAIN stream : \A r \in stream[n].waiters : ~Ready(stream[n], reader[r])

\* A blocking request that did not time out gets a playlist that lists its target,
\* is complete, or begins after the target, whatever was published and evicted
\* between the check and the answer: the check compares numbers only (store.rs
\* 303-319), the playlist is written from the window (manifest/mod.rs 52-95).
AnswerHasTarget == \A r \in Readers : reader[r].pc = "served" /\ ~reader[r].timed => reader[r].got

\* A playlist never lists a segment with video without the init segment.
MediaHasInit ==
  \A n \in DOMAIN stream : \A i \in DOMAIN stream[n].segments :
    stream[n].segments[i].media => stream[n].init

\* A stream has an encoder, has ended or is about to, unless its RTMP connection
\* left by an error or published again.
OnlyErrorsAbandon ==
  \A n \in DOMAIN stream :
    \/ stream[n].ended \/ n \in ending \cup abandoned
    \/ \E s \in Sessions : session[s].pc = "live" /\ session[s].name = n

\* At most max_streams streams exist unless two creations overlapped.
LimitKeptAlone == ~raced => Cardinality(DOMAIN stream) <= MaxStreams

\* Nothing is published on an ended stream and it does not come back.
EndIsFinal ==
  [][\A n \in DOMAIN stream : stream[n].ended => stream'[n] = stream[n]]_vars

\* Every playlist request is answered, also when the encoder is gone for good.
RequestsAnswered == \A r \in Readers : reader[r].pc # "idle" ~> reader[r].pc = "served"

\* A part that can be fetched stays so until its segment leaves the window.
PartsKept ==
  [][\A n \in DOMAIN stream : \A q \in 0..MaxSeq, i \in 0..MaxParts :
       serve_part(stream[n], q, i) =>
         serve_part(stream'[n], q, i) \/ q < stream'[n].media_sequence]_vars

=============================================================================
