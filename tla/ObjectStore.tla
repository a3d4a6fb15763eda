----------------------------- MODULE ObjectStore -----------------------------
(***************************************************************************)
(* Purging a site through the object store (oss.rs): list_objects follows  *)
(* continuation tokens up to MaxKeys names, delete_objects_batch deletes   *)
(* them chunk by chunk, and other requests store and delete objects        *)
(* between any two calls.  The store itself is external: it lists in name   *)
(* order, may refuse single names of a chunk, and may fail a call before   *)
(* or after applying it.                                                   *)
(***************************************************************************)
EXTENDS Integers, Sequences, FiniteSets, FiniteSetsExt, SequencesExt

CONSTANTS
  Names,       \* the object names of the site, numbered in listing order
  PageSize,    \* names per listing page and per delete call (1000 in the code)
  MaxKeys      \* the names listed at most (1000000 in the code)

VARIABLES
  bucket,      \* the names stored
  purge,       \* [pc, token, keys, at, ok]: the purge in progress
  steady,      \* the names stored since the purge began and not written since
  refused      \* the names the store refused to delete

vars == <<bucket, purge, steady, refused>>

Idle == [pc |-> "idle", token |-> 0, keys |-> <<>>, at |-> 0, ok |-> FALSE]

Init ==
  /\ bucket \in SUBSET Names
  /\ purge = Idle /\ steady = {} /\ refused = {}

-----------------------------------------------------------------------------

\* Another request stores or deletes an object.
put_object(n) ==
  /\ purge.pc \in {"list", "delete"}
  /\ bucket' = bucket \cup {n} /\ steady' = steady \ {n}
  /\ UNCHANGED <<purge, refused>>

delete_object(n) ==
  /\ purge.pc \in {"list", "delete"} /\ n \in bucket
  /\ bucket' = bucket \ {n} /\ steady' = steady \ {n}
  /\ UNCHANGED <<purge, refused>>

delete_site_oss_only ==
  /\ purge.pc = "idle"
  /\ purge' = [purge EXCEPT !.pc = "list"]
  /\ steady' = bucket
  /\ UNCHANGED <<bucket, refused>>

Ended(ok) == [purge EXCEPT !.pc = "done", !.ok = ok]

\* The first n names after a token.
Page(token, n) ==
  LET after == {k \in bucket : k > token}
  IN  {k \in after : Cardinality({j \in after : j < k}) < n}

\* Mutant: the token of the answer is not read.
TokenUnread(token, page) == {}

\* The continuation token of an answer: there is one when names remain.
parse_list_objects_v2(token, page) ==
  IF \E k \in bucket : k > token /\ k \notin page THEN {Max(page)} ELSE {}

\* One page; the purge goes on to delete when there is no token or no room.
list_objects ==
  /\ purge.pc = "list"
  /\ LET room == MaxKeys - Len(purge.keys)
         page == Page(purge.token, Min({room, PageSize}))
         next == parse_list_objects_v2(purge.token, page)
         keys == purge.keys \o SetToSortSeq(page, <)
     IN  purge' = IF next # {} /\ Len(keys) < MaxKeys
                  THEN [purge EXCEPT !.keys = keys, !.token = Max(next)]
                  ELSE IF keys = <<>> THEN Ended(TRUE)
                  ELSE [purge EXCEPT !.keys = keys, !.pc = "delete"]
  /\ UNCHANGED <<bucket, steady, refused>>

Chunk == SubSeq(purge.keys, purge.at + 1, Min({purge.at + PageSize, Len(purge.keys)}))

\* One chunk is deleted but for the names in no, whose errors are not read.  The
\* count of the answer is not kept: the request asks for a quiet one, which lists no
\* deleted name, so the code returns 0 (oss.rs:366 says "the total count of
\* successfully deleted objects").
delete_objects_batch(no) ==
  LET chunk == Range(Chunk)
      told  == [purge EXCEPT !.at = @ + Len(Chunk)]
  IN  /\ purge.pc = "delete" /\ no \subseteq chunk
      /\ bucket' = bucket \ (chunk \ no)
      /\ refused' = refused \cup no
      /\ purge' = IF told.at < Len(purge.keys) THEN told ELSE [told EXCEPT !.pc = "done", !.ok = TRUE]
      /\ UNCHANGED steady

\* A call fails, a delete before or after the store applied it.
CallFails ==
  /\ purge.pc \in {"list", "delete"}
  /\ purge' = Ended(FALSE)
  /\ \/ UNCHANGED bucket
     \/ purge.pc = "delete" /\ bucket' = bucket \ Range(Chunk)
  /\ UNCHANGED <<steady, refused>>

Next ==
  \/ \E n \in Names : put_object(n) \/ delete_object(n)
  \/ delete_site_oss_only \/ list_objects \/ CallFails
  \/ \E no \in SUBSET Range(Chunk) : delete_objects_batch(no)

Spec == Init /\ [][Next]_vars

-----------------------------------------------------------------------------

\* When a purge through the object store reports success and its listing was
\* not cut at MaxKeys, every object that was there when it began and was not
\* written again is gone, unless the store refused that name, however other
\* requests store and delete between the pages (oss.rs list_objects and
\* delete_objects_batch, storage.rs delete_site_oss_only).
ListedAreGone ==
  purge.pc = "done" /\ purge.ok /\ Len(purge.keys) < MaxKeys
    => steady \cap bucket \subseteq refused
=============================================================================
