-------------------------- MODULE MCStatusHistory --------------------------
(* Instances of StatusHistory for TLC. *)
EXTENDS StatusHistory, TLC

CONSTANTS undetermined, verified, owner, journalist, t1, t2

StatusesTwo == {undetermined, verified}
OwnerOnly == {owner}
OwnerAndJournalist == {owner, journalist}
OneThread == {t1}
TwoThreads == {t1, t2}

ThreadSymmetry == Permutations(TwoThreads)
=============================================================================
