---------------------------- MODULE MCStatusUndo ----------------------------
(* Instances of StatusUndo for TLC. *)
EXTENDS StatusUndo

CONSTANTS undetermined, verified, owner, owner2, contributor, t1

StatusesTwo == {undetermined, verified}
TwoOwners == {owner, owner2}
Everybody == {owner, owner2, contributor}
OneThread == {t1}
=============================================================================
