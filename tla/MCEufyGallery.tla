--------------------------- MODULE MCEufyGallery ---------------------------
(***************************************************************************)
(* Three camera clips for a ring of two, so that every discovery may evict *)
(* and an evicted clip may come back; one test clip; one request that may  *)
(* be overtaken by discoveries and reconnects; an LRU of one; at most      *)
(* MaxWarming thumbnails still to be fetched ahead.  The directory has at  *)
(* most MaxFaults faults at a time: a manifest that was not written, files *)
(* that were not removed.                                                  *)
(***************************************************************************)
EXTENDS EufyGallery, TLC

CONSTANTS a, b, c, x, r1

MaxWarming == 1
MaxFaults == 1

MCClips == {a, b, c}
MCInjected == {x}
MCRequests == {r1}
MCSymmetry == Permutations(MCClips)
Faults == Cardinality(left.thumbs) + Cardinality(left.videos) + (IF written THEN 0 ELSE 1)
MCBound == Cardinality(warming) <= MaxWarming /\ Faults <= MaxFaults
=============================================================================
