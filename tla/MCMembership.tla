---------------------------- MODULE MCMembership ----------------------------
(* Instances of Membership for TLC. *)
EXTENDS Membership, TLC

CONSTANTS u1, u2, u3, t1, t2

TwoUsers == {u1, u2}
ThreeUsers == {u1, u2, u3}
OneThread == {t1}
TwoThreads == {t1, t2}

Join(role) == <<"member", role>>

\* A ban that demotes, and a promotion that lifts a ban.
BanAsEditor == <<Nil, "banned", "editor">>
Promote == <<Nil, "member", "owner">>

\* The row becomes another user's; naming the user it is of changes nothing.
Hand(u) == <<u, Nil, Nil>>

\* Of a contributor it is a promotion, of an owner a demotion.
MakeEditor == <<Nil, Nil, "editor">>
Demote == <<Nil, Nil, "contributor">>

JoinAsEditor == {Join("editor")}
JoinAsContributor == {Join("contributor")}
BansAndHands == {BanAsEditor, Promote} \cup {Hand(u) : u \in TwoUsers}
RoleChanges == {Promote, MakeEditor, Demote}

Symmetry == Permutations(TwoUsers) \cup Permutations(TwoThreads)
=============================================================================
