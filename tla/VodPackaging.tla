---------------------------- MODULE VodPackaging ----------------------------
(***************************************************************************)
(* On-the-fly packaging of an MP4 file as HLS: the sample tables of the    *)
(* file (mp4_parse.rs), the segments and parts cut from them               *)
(* (fmp4_gen.rs), and the playlists that name them (hls_manifest.rs).      *)
(*                                                                         *)
(* A track is a record                                                     *)
(*   [id, kind, timescale, stts, ctts, stsc, stsz, stco, allSync, stss,    *)
(*    duration]                                                            *)
(* with the run-length tables of the file.  stts and ctts are sequences of *)
(* [count, delta] and [count, offset]; stsc is a sequence of [first, per]; *)
(* stss is the set of 1-based sync samples and allSync says that the file  *)
(* has no stss table.  Samples are numbered from 0 and a file is the       *)
(* sequence of its byte positions.                                         *)
(*                                                                         *)
(* The times of a track are in ticks, timescale of them to the second; the *)
(* movie has a duration and a timescale of its own, from mvhd.  Durations  *)
(* given by the configuration are in fractions of a second, Scale of them  *)
(* to the second; the code multiplies them by the track's timescale and    *)
(* truncates.  Timescales are positive.                                    *)
(***************************************************************************)
EXTENDS Integers, Sequences, FiniteSets, FiniteSetsExt, SequencesExt

Scale == 2

Tick(track, d) == (d * track.timescale) \div Scale

(***************************************************************************)
(* The sample tables.                                                      *)
(***************************************************************************)
Before(runs, i) == FoldLeft(LAMBDA n, e : n + e.count, 0, SubSeq(runs, 1, i - 1))

total_samples(stts) == Before(stts, Len(stts) + 1)

sample_to_dts(stts, sample) ==
    FoldLeft(LAMBDA a, e : LET n == Min({a.left, e.count})
                           IN  [dts |-> a.dts + n * e.delta, left |-> a.left - n],
             [dts |-> 0, left |-> sample], stts).dts

dts_to_sample(stts, target) ==
    FoldLeft(LAMBDA a, e :
                 IF a.found THEN a
                 ELSE IF a.dts + e.count * e.delta > target
                 THEN [a EXCEPT !.sample = @ + (target - a.dts) \div e.delta,
                                !.found = TRUE]
                 ELSE [a EXCEPT !.dts = @ + e.count * e.delta, !.sample = @ + e.count],
             [dts |-> 0, sample |-> 0, found |-> FALSE], stts).sample

\* The run of a table that holds a sample; empty past the table's end.
RunOf(runs, sample) ==
    {i \in DOMAIN runs : Before(runs, i) <= sample /\ sample < Before(runs, i + 1)}

get_sample_duration(stts, sample) ==
    LET run == RunOf(stts, sample)
    IN  IF run # {} THEN stts[Min(run)].delta
        ELSE IF stts = <<>> THEN 0 ELSE Last(stts).delta

get_cts_offset(ctts, sample) ==
    LET run == RunOf(ctts, sample) IN IF run = {} THEN 0 ELSE ctts[Min(run)].offset

is_sync(track, sample) == track.allSync \/ sample + 1 \in track.stss

nearest_sync_sample(track, sample) ==
    LET before == {x \in track.stss : x <= sample}
    IN  IF is_sync(track, sample) THEN sample
        ELSE IF before = {} THEN 0 ELSE Max(before) - 1

\* The last run of stsc has no end of its own: u32::MAX in the code.
MaxChunk == 1000

NextFirst(stsc, i) == IF i < Len(stsc) THEN stsc[i + 1].first ELSE MaxChunk

SamplesBefore(stsc, i) ==
    FoldLeft(LAMBDA n, j : n + (NextFirst(stsc, j) - stsc[j].first) * stsc[j].per,
             0, [j \in 1 .. i - 1 |-> j])

\* 0-based chunk of a sample; empty when stsc has no run for it.
sample_to_chunk(stsc, sample) ==
    {stsc[i].first - 1 + (sample - SamplesBefore(stsc, i)) \div stsc[i].per :
        i \in {j \in DOMAIN stsc : /\ SamplesBefore(stsc, j) <= sample
                                   /\ sample < SamplesBefore(stsc, j + 1)}}

first_sample_of_chunk(stsc, chunk) ==
    {SamplesBefore(stsc, i) + (chunk + 1 - stsc[i].first) * stsc[i].per :
        i \in {j \in DOMAIN stsc : stsc[j].first <= chunk + 1 /\ chunk + 1 < NextFirst(stsc, j)}}

SizeOf(track, sample) == IF sample < Len(track.stsz) THEN track.stsz[sample + 1] ELSE 0

\* The position of a sample in the file; empty when a table does not know it.
get_sample_offset(track, sample) ==
    {track.stco[c + 1] + MapThenSumSet(LAMBDA s : SizeOf(track, s),
                            Min(first_sample_of_chunk(track.stsc, c)) .. sample - 1) :
        c \in {x \in sample_to_chunk(track.stsc, sample) :
                  x < Len(track.stco) /\ sample < Len(track.stsz)}}

(***************************************************************************)
(* Which samples a segment and a part hold.                                *)
(***************************************************************************)
\* The end of a segment moves on to the next sync sample of a video track.
AlignEnd(track, end) ==
    LET total == total_samples(track.stts)
        after == {x \in track.stss : x > end}
    IN  IF end >= total THEN total
        ELSE IF track.kind # "video" \/ track.allSync THEN end
        ELSE IF after = {} THEN total ELSE Min(after) - 1

segment_sample_range(track, index, segment_duration) ==
    LET at    == dts_to_sample(track.stts, Tick(track, index * segment_duration))
        start == IF track.kind = "video" THEN nearest_sync_sample(track, at) ELSE at
        end   == AlignEnd(track, dts_to_sample(track.stts,
                                   Tick(track, (index + 1) * segment_duration)))
    IN  IF total_samples(track.stts) = 0 THEN <<0, 0>> ELSE <<start, Max({start, end})>>

\* Mutant: a part is made of two samples at the least; the playlist's copy is not.
TwoAtLeast(track, sample, segEnd, part_duration) ==
    LET target == sample_to_dts(track.stts, sample) + Tick(track, part_duration)
    IN  Min({segEnd, Max({sample + 2, dts_to_sample(track.stts, target)})})

\* The end of the part that starts at a sample: one sample at the least.
PartEnd(track, sample, segEnd, part_duration) ==
    LET target == sample_to_dts(track.stts, sample) + Tick(track, part_duration)
    IN  Min({segEnd, Max({sample + 1, dts_to_sample(track.stts, target)})})

\* The sample at which each part of a segment starts; the segment's end once
\* the parts are used up.
PartStart(track, index, segment_duration, part_duration) ==
    LET seg == segment_sample_range(track, index, segment_duration)
        cut[p \in 0 .. seg[2] - seg[1] + 1] ==
            IF p = 0 THEN seg[1]
            ELSE IF cut[p - 1] >= seg[2] THEN seg[2]
            ELSE PartEnd(track, cut[p - 1], seg[2], part_duration)
    IN  cut

part_sample_range(track, index, part, segment_duration, part_duration) ==
    LET cut  == PartStart(track, index, segment_duration, part_duration)
        last == Max(DOMAIN cut)
    IN  IF part < last THEN <<cut[part], cut[part + 1]>> ELSE <<cut[last], cut[last]>>

(***************************************************************************)
(* Fragments: moof and mdat.                                               *)
(***************************************************************************)
\* A traf without samples has no tfdt and no trun.
build_traf_for_sample_range(track, file, start, end) ==
    LET At(s)     == get_sample_offset(track, s)
        Copied(s) == At(s) # {} /\ Min(At(s)) + SizeOf(track, s) <= Len(file)
        Entry(s)  == [duration |-> get_sample_duration(track.stts, s),
                      size |-> IF Copied(s) THEN SizeOf(track, s) ELSE 0,
                      sync |-> is_sync(track, s), cts |-> get_cts_offset(track.ctts, s)]
        Bytes(s)  == IF Copied(s)
                     THEN SubSeq(file, Min(At(s)) + 1, Min(At(s)) + SizeOf(track, s)) ELSE <<>>
    IN  [id |-> track.id,
         dts |-> IF start < end THEN sample_to_dts(track.stts, start) ELSE 0,
         entries |-> [k \in 1 .. end - start |-> Entry(start + k - 1)],
         data |-> FlattenSeq([k \in 1 .. end - start |-> Bytes(start + k - 1)])]

\* A live track brings its samples: [data, duration, sync, cts] each.
build_live_traf(track) ==
    [id |-> track.id, dts |-> IF track.samples = <<>> THEN 0 ELSE track.base_dts,
     entries |-> [k \in DOMAIN track.samples |->
                    [duration |-> track.samples[k].duration, size |-> Len(track.samples[k].data),
                     sync |-> track.samples[k].sync, cts |-> track.samples[k].cts]],
     data |-> FlattenSeq([k \in DOMAIN track.samples |-> track.samples[k].data])]

\* Bytes of traf and tfhd, and of tfdt and trun when there are samples.
TrafSize(traf) == 24 + IF traf.entries = <<>> THEN 0 ELSE 40 + 16 * Len(traf.entries)

MoofSize(trafs) == 24 + MapThenSumSet(LAMBDA j : TrafSize(trafs[j]), DOMAIN trafs)

\* Bytes of mdat before the data of track k.
DataBefore(trafs, k) == MapThenSumSet(LAMBDA j : Len(trafs[j].data), 1 .. k - 1)


\* The first pass measures moof (its header and mfhd take 24 bytes); the second
\* writes into each trun where its track's data starts, counted from moof.
Fragment(sequence, trafs) ==
    LET moof == MoofSize(trafs)
    IN  [sequence |-> sequence, moof |-> moof,
         trafs |-> [k \in DOMAIN trafs |->
                      [id |-> trafs[k].id, dts |-> trafs[k].dts, entries |-> trafs[k].entries,
                       data_offset |-> moof + 8 + DataBefore(trafs, k)]],
         mdat |-> FlattenSeq([k \in DOMAIN trafs |-> trafs[k].data])]

generate_live_media_segment(sequence, tracks) ==
    Fragment(sequence, [k \in DOMAIN tracks |-> build_live_traf(tracks[k])])

generate_media_segment(tracks, file, index, segment_duration) ==
    Fragment(index + 1,
             [k \in DOMAIN tracks |->
                LET r == segment_sample_range(tracks[k], index, segment_duration)
                IN  build_traf_for_sample_range(tracks[k], file, r[1], r[2])])

generate_partial_segment(tracks, file, index, part, segment_duration, part_duration) ==
    Fragment(index * 1000 + part + 1,
             [k \in DOMAIN tracks |->
                LET r == part_sample_range(tracks[k], index, part, segment_duration, part_duration)
                IN  build_traf_for_sample_range(tracks[k], file, r[1], r[2])])

\* What the init segment declares: a trak and a trex for every track.
generate_init_segment(tracks) ==
    [traks |-> [k \in DOMAIN tracks |-> [id |-> tracks[k].id, kind |-> tracks[k].kind]],
     trexs |-> [k \in DOMAIN tracks |-> tracks[k].id]]

(***************************************************************************)
(* Playlists.                                                              *)
(***************************************************************************)
\* The first video track, or the first track.
Leading(tracks) ==
    LET video == {k \in DOMAIN tracks : tracks[k].kind = "video"}
    IN  tracks[IF video = {} THEN 1 ELSE Min(video)]

\* Mutant: the duration in mvhd is taken for seconds.
TicksAsSeconds(movie, segment_duration) ==
    IF segment_duration <= 0 \/ movie.duration <= 0 THEN 0
    ELSE (Scale * movie.duration + segment_duration - 1) \div segment_duration

\* The movie's duration divided by the segments', rounded up.
compute_segment_count(movie, segment_duration) ==
    LET unit == movie.timescale * segment_duration
    IN  IF segment_duration <= 0 \/ movie.duration <= 0 THEN 0
        ELSE (Scale * movie.duration + unit - 1) \div unit

\* The playlist's own copy of the alignment in segment_sample_range.
ListedEnd(track, index, segment_duration) ==
    LET total == total_samples(track.stts)
        at    == dts_to_sample(track.stts, Tick(track, (index + 1) * segment_duration))
        next  == {x \in track.stss : x >= at + 1}
    IN  IF at >= total THEN total
        ELSE IF track.kind # "video" \/ track.allSync THEN at
        ELSE IF next = {} THEN total ELSE Min(next) - 1

compute_segment_durations(movie, segment_duration) ==
    LET track == Leading(movie.tracks)
        count == compute_segment_count(movie, segment_duration)
        Step(a, index) ==
            LET end == ListedEnd(track, index, segment_duration)
                to  == IF end >= total_samples(track.stts) THEN track.duration
                       ELSE sample_to_dts(track.stts, end)
            IN  IF end <= a.prev /\ index < count - 1 THEN a
                ELSE [prev |-> end,
                      list |-> Append(a.list, [index |-> index,
                                  duration |-> to - sample_to_dts(track.stts, a.prev)])]
    IN  FoldLeft(Step, [prev |-> 0, list |-> <<>>], [i \in 1 .. count |-> i - 1]).list

\* The playlist's own copy of the loop in part_sample_range: one part after the
\* other until the segment's end, a part for each turn at the most.
compute_segment_parts(movie, index, segment_duration, part_duration) ==
    LET track == Leading(movie.tracks)
        seg   == segment_sample_range(track, index, segment_duration)
        Dts(sample) == sample_to_dts(track.stts, sample)
        Turn(a, k) ==
            LET to  == dts_to_sample(track.stts, Dts(a.current) + Tick(track, part_duration))
                end == Min({seg[2], IF to <= a.current THEN a.current + 1 ELSE to})
            IN  IF a.current >= seg[2] THEN a
                ELSE [current |-> end,
                      parts |-> Append(a.parts,
                                  [part |-> Len(a.parts), independent |-> is_sync(track, a.current),
                                   duration |-> Dts(end) - Dts(a.current)])]
    IN  FoldLeft(Turn, [current |-> seg[1], parts |-> <<>>], [k \in 1 .. seg[2] - seg[1] |-> k]).parts

\* EXT-X-TARGETDURATION: the longest segment, in seconds, rounded up.
Target(track, segments) ==
    (Max({0} \cup {segments[k].duration : k \in DOMAIN segments}) + track.timescale - 1)
        \div track.timescale

\* Durations are given in ticks of the leading track.
generate_media_playlist(movie, segment_duration) ==
    LET segments == compute_segment_durations(movie, segment_duration)
    IN  [segments |-> [k \in DOMAIN segments |->
                          [index |-> segments[k].index, duration |-> segments[k].duration,
                           parts |-> <<>>]],
         target |-> Target(Leading(movie.tracks), segments)]

generate_ll_hls_playlist(movie, segment_duration, part_duration) ==
    LET segments == compute_segment_durations(movie, segment_duration)
    IN  [segments |-> [k \in DOMAIN segments |->
                          [index |-> segments[k].index, duration |-> segments[k].duration,
                           parts |-> compute_segment_parts(movie, segments[k].index,
                                                           segment_duration, part_duration)]],
         target |-> Target(Leading(movie.tracks), segments)]

(***************************************************************************)
(* The file's boxes.  A box of a trak is "ok", "missing" or "bad": cut     *)
(* short, or followed by an atom that overruns its container.              *)
(***************************************************************************)
BoxOrder == <<"tkhd", "mdia", "mdhd", "hdlr", "minf", "stbl",
              "stts", "stsc", "stsz", "stco", "stss", "ctts">>

Containers == {"mdia", "minf", "stbl"}

Headers == {"tkhd", "mdhd", "hdlr"}

\* A missing table reads as an empty one: without stss every sample is sync.
ReadTables(track, box) ==
    [track EXCEPT !.stts = IF box["stts"] = "ok" THEN @ ELSE <<>>,
                  !.stsc = IF box["stsc"] = "ok" THEN @ ELSE <<>>,
                  !.stsz = IF box["stsz"] = "ok" THEN @ ELSE <<>>,
                  !.stco = IF box["stco"] = "ok" THEN @ ELSE <<>>,
                  !.ctts = IF box["ctts"] = "ok" THEN @ ELSE <<>>,
                  !.allSync = @ \/ box["stss"] # "ok"]

\* "track", "none" (a trak that is passed over) or "error".
parse_trak(trak) ==
    LET stops == {i \in DOMAIN BoxOrder :
                     \/ trak.box[BoxOrder[i]] = "bad"
                     \/ trak.box[BoxOrder[i]] = "missing" /\ BoxOrder[i] \in Containers \cup Headers}
        first == BoxOrder[Min(stops)]
    IN  IF stops = {} THEN "track"
        ELSE IF trak.box[first] = "bad" \/ first \in Headers THEN "error" ELSE "none"

\* The movie a file holds, or {} when it cannot be read.
parse_mp4(mp4) ==
    LET kept == SelectSeq(mp4.traks, LAMBDA t : parse_trak(t) = "track")
    IN  IF \/ ~mp4.header \/ kept = <<>>
           \/ \E k \in DOMAIN mp4.traks : parse_trak(mp4.traks[k]) = "error"
        THEN {}
        ELSE {[duration |-> mp4.duration, timescale |-> mp4.timescale,
               tracks |-> [k \in DOMAIN kept |-> ReadTables(kept[k].track, kept[k].box)]]}

(***************************************************************************)
(* One request: a sequence holding the answer, or empty for an error.      *)
(* segment_duration and part_duration are the site's.                      *)
(***************************************************************************)
process_packaging_request(mp4, request, segment_duration, part_duration) ==
    LET Answer(movie) ==
            LET count == compute_segment_count(movie, segment_duration)
            IN  CASE request.type = "manifest" ->
                       <<generate_media_playlist(movie, segment_duration)>>
                  [] request.type = "ll_manifest" ->
                       <<generate_ll_hls_playlist(movie, segment_duration, part_duration)>>
                  [] request.type = "init" -> <<generate_init_segment(movie.tracks)>>
                  [] request.type = "segment" ->
                       IF request.index >= count THEN <<>>
                       ELSE <<generate_media_segment(movie.tracks, mp4.file, request.index,
                                                     segment_duration)>>
                  [] request.type = "part" ->
                       IF \/ request.index >= count
                          \/ request.part >= Len(compute_segment_parts(movie, request.index,
                                                    segment_duration, part_duration))
                       THEN <<>>
                       ELSE <<generate_partial_segment(movie.tracks, mp4.file, request.index,
                                request.part, segment_duration, part_duration)>>
    IN  FlattenSeq([k \in 1 .. Cardinality(parse_mp4(mp4)) |->
                      Answer(CHOOSE movie \in parse_mp4(mp4) : TRUE)])
=============================================================================
