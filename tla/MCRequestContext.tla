--------------------------- MODULE MCRequestContext ---------------------------
(* Instance of RequestContext for TLC. *)
EXTENDS RequestContext, TLC

CONSTANTS t1, t2, u1, u2, u3, T1, T2

TwoThreads == {t1, t2}
TwoTeams == {T1, T2}
ThreeUsers == {u1, u2, u3}

\* u1 owns T1, all else contribute.
OneOwner == [u \in ThreeUsers |-> [T \in TwoTeams |->
               IF u = u1 /\ T = T1 THEN "owner" ELSE "contributor"]]

\* u1 is in T1, u2 in T2.
TwoOfThree == [u \in ThreeUsers |-> CASE u = u1 -> <<T1>> [] u = u2 -> <<T2>> [] u = u3 -> <<>>]

AllThreads == Permutations(TwoThreads)
=============================================================================
