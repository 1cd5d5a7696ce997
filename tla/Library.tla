------------------------------ MODULE Library ------------------------------
(***************************************************************************)
(* What a team is promised of its links: whatever overlaps, breaks or is   *)
(* refused, a link is added at once with its project media and the account *)
(* of its author, or not at all; a project media is created of a link      *)
(* there is, and only an update may name another id for it; and only       *)
(* project media are changed or taken away.                                *)
(***************************************************************************)
EXTENDS Naturals

CONSTANTS Projects, Urls, AuthorOf, Nil,
          Strays   \* ids that an update may name, whether or not a link has them

VARIABLES links, accounts, pms

vars == <<links, accounts, pms>>

Ids(rows) == {r.id : r \in rows}

\* One row is added to a table, with an id of its own.
Gains(rows, new, r) == r.id \notin Ids(rows) /\ new = rows \cup {r}

Known(url, rows) == \E r \in rows : r.url = url

\* A link without an account is one whose author could not be read.
Attributed(l, accs) == \/ l.account = Nil
                       \/ [id |-> l.account, url |-> AuthorOf[l.url]] \in accs

-----------------------------------------------------------------------------
Init == links = {} /\ accounts = {} /\ pms = {}

\* A project gets a link that is there.
Collect == \E pm \in pms' : /\ pm.project \in Projects
                            /\ pm.media \in Ids(links)
                            /\ Gains(pms, pms', pm)
                            /\ UNCHANGED <<links, accounts>>

\* An account for a URL that has none.
Enlist(a) == ~Known(a.url, accounts) /\ Gains(accounts, accounts', a)

\* A project gets a new link, with the account of its author: one that is there, or
\* one that is added with it.
Publish == \E l \in links', pm \in pms' :
             /\ l.url \in Urls
             /\ ~Known(l.url, links)
             /\ Gains(links, links', l)
             /\ \/ UNCHANGED accounts
                \/ \E a \in accounts' : a.url = AuthorOf[l.url] /\ Enlist(a)
             /\ Attributed(l, accounts')
             /\ pm.project \in Projects
             /\ pm.media = l.id
             /\ Gains(pms, pms', pm)

\* createAccount.
Register == /\ \E a \in accounts' : Enlist(a)
            /\ UNCHANGED <<links, pms>>

\* One project media is given another project or another id of a media.
Reassign == \E pm \in pms, q \in pms' : /\ q.id = pm.id
                                        /\ q.project \in Projects
                                        /\ q.media \in Ids(links) \cup Strays
                                        /\ pms' = (pms \ {pm}) \cup {q}
                                        /\ UNCHANGED <<links, accounts>>

Remove == \E pm \in pms : pms' = pms \ {pm} /\ UNCHANGED <<links, accounts>>

Next == Collect \/ Publish \/ Register \/ Reassign \/ Remove

Spec == Init /\ [][Next]_vars
=============================================================================
