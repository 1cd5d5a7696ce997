--------------------------- MODULE MCSearchIndex ---------------------------
(* Instances of SearchIndex for TLC. *)
EXTENDS SearchIndex, TLC

CONSTANTS a, b, note, w1, w2

TwoFields == {"status", "title"}
OneNote == {note}
TwoValues == {a, b}
TwoWorkers == {w1, w2}
WorkerSymmetry == Permutations(TwoWorkers)
=============================================================================
