--------------------------- MODULE MCHostPlayback ----------------------------
(* HostPlayback with two sources, three entries and two streams for TLC. *)
EXTENDS HostPlayback, TLC

\* s1 and s2 are queued under their own ids, e3 plays s1 once more.
MCSourceOf == [e \in EntryIds |-> IF e = "e3" THEN "s1" ELSE e]

\* Stream ids are only compared with one another.
MCSymmetry == Permutations(Streams)
=============================================================================
