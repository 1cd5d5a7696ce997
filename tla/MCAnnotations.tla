--------------------------- MODULE MCAnnotations ---------------------------
(* Instances of Annotations for TLC. *)
EXTENDS Annotations, TLC

CONSTANTS t1, t2

TwoThreads == {t1, t2}
TwoTeams == {"home", "away"}
TwoUsers == {"author", "owner"}

\* The author contributes at home only; the owner of the home team edits in both.
RolesOfAll == [T \in TwoTeams |-> [u \in TwoUsers |->
                 CASE T = "home" /\ u = "author" -> "contributor"
                   [] T = "home" /\ u = "owner" -> "owner"
                   [] T = "away" /\ u = "author" -> Nil
                   [] T = "away" /\ u = "owner" -> "editor"]]

ThreeCallers == {[user |-> "author", team |-> "home"], [user |-> "owner", team |-> "home"],
                 [user |-> "owner", team |-> "away"]}

TwoTexts == {"Spam", "a"}
TwoFields == {"title", "description"}

\* The author has added the media, and those of the other teams too.
AuthorOfAll == [media \in Media |-> "author"]

FourDrafts == {[kind |-> "Tag", text |-> "a", at |-> Here],
               [kind |-> "Flag", text |-> "Spam", at |-> Here],
               [kind |-> "Comment", text |-> "a", at |-> Here],
               [kind |-> "Comment", text |-> "a", at |-> "away"]}

\* Another text, a media of the other team, and back.
ThreeChanges == {[text |-> "Spam", at |-> Nil], [text |-> Nil, at |-> "away"],
                 [text |-> Nil, at |-> Here]}

\* A title, a description, both teams, and a title with a team.
FourEdits == {[embed |-> [title |-> "a", description |-> Nil], team |-> Nil],
              [embed |-> [title |-> Nil, description |-> "a"], team |-> "away"],
              [embed |-> Nothing, team |-> "away"],
              [embed |-> Nothing, team |-> "home"]}

AllThreads == Permutations(TwoThreads)
=============================================================================
