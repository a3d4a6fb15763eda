----------------------------- MODULE ImageRules -----------------------------
(***************************************************************************)
(* Image optimisation: the parameters of a request (params.rs), the output *)
(* format (negotiate.rs) and the size of the result (processor.rs).        *)
(*                                                                         *)
(* The pixel ratio is in quarters (4 is 1.0).  A scale is a fraction       *)
(* <<n, d>>; the code computes it in double precision.  An absent option   *)
(* is the empty set, a present one a singleton.                            *)
(***************************************************************************)
EXTENDS Integers, Sequences, FiniteSets, FiniteSetsExt, SequencesExt

The(option) == CHOOSE x \in option : TRUE

Quarters == 4

\* round(a * n / d), halves up.
Scaled(a, s) == (2 * a * s[1] + s[2]) \div (2 * s[2])

\* A query is a record with, per parameter, the values that parse in their
\* order; a format that is not known is "unknown".  The last value counts.
LastOf(values, ignored) ==
    LET at == {i \in DOMAIN values : values[i] \notin ignored}
    IN  IF at = {} THEN {} ELSE {values[Max(at)]}

Within(v, lo, hi) == Max({lo, Min({v, hi})})

\* The parameters; empty when no parameter is about images.
from_query(query, config) ==
    LET width   == LastOf(query.w, {0})
        height  == LastOf(query.h, {0})
        fit     == LastOf(query.fit, {})
        quality == LastOf(query.q, {})
        dpr     == LastOf(query.dpr, {})
    IN  IF width = {} /\ height = {} /\ \A key \in {"fit", "fmt", "q", "dpr"} : query[key] = <<>>
        THEN {}
        ELSE {[width |-> width, height |-> height,
               fit |-> IF fit = {} THEN "contain" ELSE The(fit),
               format |-> LastOf(query.fmt, {"auto", "unknown"}),
               format_auto |-> LastOf(query.fmt, {"unknown"}) \subseteq {"auto"},
               quality |-> IF quality = {} THEN config.default_quality
                           ELSE Within(The(quality), 1, 100),
               dpr |-> IF dpr = {} THEN Quarters ELSE Within(The(dpr), Quarters, 4 * Quarters)]}

\* Mutant: the limit is applied before the pixel ratio.
ClampsUnscaled(params, config) ==
    [params EXCEPT !.width  = {Min({w, config.max_width}) : w \in @},
                   !.height = {Min({h, config.max_height}) : h \in @}]

clamp(params, config) ==
    [params EXCEPT
        !.width  = {Min({w, (config.max_width * Quarters) \div params.dpr}) : w \in @},
        !.height = {Min({h, (config.max_height * Quarters) \div params.dpr}) : h \in @}]

effective_width(params)  == {Scaled(w, <<params.dpr, Quarters>>) : w \in params.width}

effective_height(params) == {Scaled(h, <<params.dpr, Quarters>>) : h \in params.height}

(***************************************************************************)
(* The output format and whether it was negotiated.  accept is a sequence  *)
(* of [token, quality].                                                    *)
(***************************************************************************)
client_accepts(accept, format) ==
    \E i \in DOMAIN accept : accept[i].quality > 0 /\ accept[i].token \in {format, "image/*", "*/*"}

negotiate_format(accept, explicit, config, original) ==
    LET hits == {i \in DOMAIN config.formats : client_accepts(accept, config.formats[i])}
    IN  IF explicit # {} THEN [format |-> The(explicit), auto |-> FALSE]
        ELSE IF hits # {} THEN [format |-> config.formats[Min(hits)], auto |-> TRUE]
        ELSE [format |-> IF original = {} THEN "jpeg" ELSE The(original), auto |-> FALSE]

(***************************************************************************)
(* Sizes.                                                                  *)
(***************************************************************************)
AtMost(s, t) == s[1] * t[2] <= t[1] * s[2]

Smaller(s, t) == IF AtMost(s, t) THEN s ELSE t

Larger(s, t) == IF AtMost(s, t) THEN t ELSE s

\* [w, h, crop]: the size to resize to, and the size to crop it to.
calculate_dimensions(w0, h0, target_w, target_h, fit) ==
    LET tw    == IF target_w = {} THEN w0 ELSE The(target_w)
        th    == IF target_h = {} THEN h0 ELSE The(target_h)
        rw    == <<tw, w0>>
        rh    == <<th, h0>>
        one   == <<1, 1>>
        scale == CASE fit = "contain" -> Smaller(rw, rh)
                   [] fit = "inside"  -> Smaller(Smaller(rw, rh), one)
                   [] fit = "cover"   -> Larger(rw, rh)
                   [] fit = "outside" -> Smaller(Larger(rw, rh), one)
                   [] fit = "fill"    -> one
        w     == Scaled(w0, scale)
        h     == Scaled(h0, scale)
        crops == /\ fit \in {"cover", "outside"} /\ target_w # {} /\ target_h # {}
                 /\ w > tw \/ h > th
    IN  IF tw = 0 \/ th = 0 THEN [w |-> w0, h |-> h0, crop |-> <<>>]
        ELSE IF fit = "fill" THEN [w |-> tw, h |-> th, crop |-> <<>>]
        ELSE [w |-> Max({w, 1}), h |-> Max({h, 1}),
              crop |-> IF crops THEN <<Min({tw, w}), Min({th, h})>> ELSE <<>>]

\* The size of the image after resize_image.
resize_image(w0, h0, target_w, target_h, fit) ==
    LET to == calculate_dimensions(w0, h0, target_w, target_h, fit)
    IN  IF \/ to.w = w0 /\ to.h = h0 /\ to.crop = <<>>
           \/ fit \in {"inside", "outside"} /\ to.w >= w0 /\ to.h >= h0
        THEN <<w0, h0>>
        ELSE IF to.crop # <<>> THEN to.crop ELSE <<to.w, to.h>>

process_image(w0, h0, params) ==
    LET w == effective_width(params)
        h == effective_height(params)
    IN  IF w \cup h = {} THEN <<w0, h0>> ELSE resize_image(w0, h0, w, h, params.fit)
=============================================================================
