-------------------------- MODULE MCMediaCreation --------------------------
(* Instances of MediaCreation for TLC. *)
EXTENDS MediaCreation

CONSTANTS url, other, alias, author, p1, p2, t1, t2

\* Two links of one author; `alias` leads to the first.
TwoUrls == {url, other}
ThreeSpellings == {url, other, alias}
NormalOf == [s \in ThreeSpellings |-> IF s = alias THEN url ELSE s]
OneAuthor == {author}
AuthorOfAll == [u \in TwoUrls |-> author]
OneProject == {p1}
TwoProjects == {p1, p2}
TwoThreads == {t1, t2}
=============================================================================
