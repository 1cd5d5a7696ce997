--------------------------- MODULE MediaCreation ---------------------------
(***************************************************************************)
(* How links get into projects: createProjectMedia with the URL of a link  *)
(* or the id of one, createAccount, and the update and destruction of      *)
(* project media (app/models/project_media.rb, app/models/link.rb,         *)
(* app/models/account.rb, lib/pender_data.rb).                             *)
(*                                                                         *)
(* A request is one transaction of PostgreSQL, READ COMMITTED, from the    *)
(* first validation to the last callback: a query sees what others have    *)
(* committed.  The URLs of links and of accounts have unique indexes, and  *)
(* an INSERT waits for the transaction that has inserted the same URL and  *)
(* not ended yet.  Project media have no such index.  Pender, the service  *)
(* that parses URLs, may refuse one at any time.                           *)
(*                                                                         *)
(* Left out: claims and uploaded images; updateAccount, destroyAccount,    *)
(* and the destruction of a media through a destroy mutation of something  *)
(* else, which destroys whatever the global id names                       *)
(* (graphql_crud_operations.rb:48-51, ability.rb:47-49).  Here links and   *)
(* accounts stay.                                                          *)
(***************************************************************************)
EXTENDS Naturals

CONSTANTS Projects, Threads,
          Spellings,  \* URLs as users give them
          Urls,       \* those among them that Pender answers with
          Normal,     \* the URL Pender answers for each spelling
          Authors,    \* URLs of accounts
          AuthorOf,   \* the author of the item at each URL
          Strays,     \* bound: ids, of a link or of none, that requests may name
          MaxBegun,   \* bound: no request begins after this many
          Nil

ASSUME UrlsAssumption == Urls \subseteq Spellings /\ Normal \in [Spellings -> Urls]
ASSUME AuthorsAssumption == AuthorOf \in [Urls -> Authors]
ASSUME BoundAssumption == MaxBegun \in Nat
ASSUME StraysAssumption == Strays \subseteq Nat

VARIABLES links,     \* committed rows of `medias`
          accounts,  \* committed rows of `accounts`
          pms,       \* committed rows of `project_medias`
          nextId,    \* sequence of ids
          req,       \* the request of each thread, with what its transaction inserted
          begun,
          alone      \* history: no request has overlapped another, and no project
                     \* media was given another project or another media

vars == <<links, accounts, pms, nextId, req, begun, alone>>

Link == [id : Nat, url : Urls, account : Nat \cup {Nil}]
Account == [id : Nat, url : Authors]
ProjectMedia == [id : Nat, project : Projects, media : Nat]

ASSUME NilAssumption == Nil \notin Projects \cup Spellings \cup Authors \cup Nat
                                  \cup Link \cup Account \cup ProjectMedia

Idle == [pc |-> "idle", project |-> Nil, url |-> Nil, author |-> Nil, media |-> Nil,
         link |-> Nil, account |-> Nil, loaded |-> Nil]

Request == [pc : {"idle", "normalize", "find", "validate", "link", "author", "account",
                  "check", "store", "move"},
            project : Projects \cup {Nil}, url : Spellings \cup {Nil},
            author : Authors \cup {Nil}, media : Nat \cup {Nil},
            link : Link \cup {Nil}, account : Account \cup {Nil},
            loaded : ProjectMedia \cup {Nil}]

\* What a request has found by the time it needs it.
Filled(r) == /\ r.pc \in {"normalize", "find", "validate", "link"} => r.url # Nil
             /\ r.pc \in {"link", "author"} => r.url \in Urls
             /\ r.pc = "author" => r.link # Nil
             /\ r.pc = "account" => r.author # Nil
             /\ r.pc = "check" => Nil \notin {r.project, r.media}
             /\ r.pc = "store" => r.project = Nil \/ r.media # Nil
             /\ r.pc = "move" => Nil \notin {r.project, r.media, r.loaded}

TypeOK == /\ links \subseteq Link
          /\ accounts \subseteq Account
          /\ pms \subseteq ProjectMedia
          /\ nextId \in Nat
          /\ req \in [Threads -> Request]
          /\ begun \in Nat
          /\ alone \in BOOLEAN
          /\ \A t \in Threads : Filled(req[t])

-----------------------------------------------------------------------------
Serve(t, r) == req' = [req EXCEPT ![t] = r]

Goes(t, pc) == Serve(t, [req[t] EXCEPT !.pc = pc])

\* The ids of the links there are.
LinkIds == {l.id : l \in links}

\* What a query finds: the committed rows with that URL.
Links(url) == {l \in links : l.url = url}
Accounts(author) == {a \in accounts : a.url = author}

\* Another transaction has inserted the URL and has not ended.
LinkHeld(t) == \E s \in Threads \ {t} : req[s].link # Nil /\ req[s].link.url = req[t].url
AccountHeld(t) ==
  \E s \in Threads \ {t} : req[s].account # Nil /\ req[s].account.url = req[t].author

\* The rows with what a transaction inserted.
With(rows, own) == IF own = Nil THEN rows ELSE rows \cup {own}

\* The request ends: with an error its transaction is rolled back.
Refuse(t) == /\ Serve(t, Idle)
             /\ UNCHANGED <<links, accounts, pms, nextId, begun, alone>>

Begin(t, r) == /\ req[t] = Idle
               /\ begun < MaxBegun
               /\ begun' = begun + 1
               /\ alone' = (alone /\ \A s \in Threads : req[s] = Idle)
               /\ Serve(t, r)
               /\ UNCHANGED <<links, accounts, pms, nextId>>

-----------------------------------------------------------------------------
Init == /\ links = {}
        /\ accounts = {}
        /\ pms = {}
        /\ nextId = 1
        /\ req = [t \in Threads |-> Idle]
        /\ begun = 0
        /\ alone = TRUE

\* createProjectMedia with a URL.
BeginUrl(t, p, s) ==
  Begin(t, [Idle EXCEPT !.pc = "normalize", !.project = p, !.url = s])

\* createProjectMedia with an id.
BeginMedia(t, p, media) ==
  Begin(t, [Idle EXCEPT !.pc = "check", !.project = p, !.media = media])

\* createAccount, validated: no account has that URL.
BeginAccount(t, a) ==
  /\ Accounts(a) = {}
  /\ Begin(t, [Idle EXCEPT !.pc = "account", !.author = a])

\* updateProjectMedia, up to the assignment of a project and of a media: nothing asks
\* whether there is a media with that id.
BeginMove(t, pm, p, media) ==
  Begin(t, [Idle EXCEPT !.pc = "move", !.project = p, !.media = media, !.loaded = pm])

\* m.valid?, for the URL as Pender spells it; an error leaves it as it was given.
Normalize(t) ==
  /\ req[t].pc = "normalize"
  /\ \E url \in {Normal[req[t].url], req[t].url} :
       Serve(t, [req[t] EXCEPT !.pc = "find", !.url = url])
  /\ UNCHANGED <<links, accounts, pms, nextId, begun, alone>>

\* find_or_create_by finds the link, or turns to create it.
Find(t) ==
  /\ req[t].pc = "find"
  /\ \/ /\ Links(req[t].url) = {}
        /\ Goes(t, "validate")
     \/ \E l \in Links(req[t].url) :
          Serve(t, [req[t] EXCEPT !.pc = "check", !.media = l.id])
  /\ UNCHANGED <<links, accounts, pms, nextId, begun, alone>>

\* Mutant of Validate: without url_is_unique.
ValidateUnchecked(t) ==
  /\ req[t].pc = "validate"
  /\ \/ /\ Serve(t, [req[t] EXCEPT !.pc = "link", !.url = Normal[@]])
        /\ UNCHANGED <<links, accounts, pms, nextId, begun, alone>>
     \/ Refuse(t)

\* Mutant of Validate: the URL stays as it was given.
ValidateRaw(t) ==
  /\ req[t].pc = "validate"
  /\ \/ /\ Links(Normal[req[t].url]) = {}
        /\ Goes(t, "link")
        /\ UNCHANGED <<links, accounts, pms, nextId, begun, alone>>
     \/ Refuse(t)

\* The new link is validated: Pender has an item at its URL, and no media has the
\* URL it answers with.  An invalid link is not saved, and a project media without
\* a media is refused.
Validate(t) ==
  /\ req[t].pc = "validate"
  /\ \/ /\ Links(Normal[req[t].url]) = {}
        /\ Serve(t, [req[t] EXCEPT !.pc = "link", !.url = Normal[@]])
        /\ UNCHANGED <<links, accounts, pms, nextId, begun, alone>>
     \/ Refuse(t)

\* Mutant of InsertLink: without the unique index of `medias`.
InsertLinkAlways(t) ==
  /\ req[t].pc = "link"
  /\ Serve(t, [req[t] EXCEPT !.pc = "author",
                             !.link = [id |-> nextId, url |-> req[t].url, account |-> Nil]])
  /\ nextId' = nextId + 1
  /\ UNCHANGED <<links, accounts, pms, begun, alone>>

\* INSERT INTO medias: waits while another transaction holds the URL.
InsertLink(t) ==
  /\ req[t].pc = "link"
  /\ ~LinkHeld(t)
  /\ Links(req[t].url) = {}
  /\ Serve(t, [req[t] EXCEPT !.pc = "author",
                             !.link = [id |-> nextId, url |-> req[t].url, account |-> Nil]])
  /\ nextId' = nextId + 1
  /\ UNCHANGED <<links, accounts, pms, begun, alone>>

\* Mutant of LinkTaken: the error is rescued, and the INSERT tried again.
LinkTakenAgain(t) ==
  /\ req[t].pc = "link"
  /\ Links(req[t].url) # {}
  /\ UNCHANGED vars

\* ... and RecordNotUnique, which nobody rescues before the controller.
LinkTaken(t) ==
  /\ req[t].pc = "link"
  /\ Links(req[t].url) # {}
  /\ Refuse(t)

\* Link#set_account: the account of the author is validated, to be created; one that
\* is there already, or that Pender refuses, is looked up.
Author(t) ==
  /\ req[t].pc = "author"
  /\ LET a == AuthorOf[req[t].url]
         mine == [req[t] EXCEPT !.media = req[t].link.id]
     IN  \/ /\ Accounts(a) = {}
            /\ Serve(t, [mine EXCEPT !.pc = "account", !.author = a])
         \/ \E id \in {b.id : b \in Accounts(a)} \cup {Nil} :
              Serve(t, [mine EXCEPT !.pc = "check", !.link.account = id])
  /\ UNCHANGED <<links, accounts, pms, nextId, begun, alone>>

\* Mutant of Accounted: create_source fails and is rescued; the account is rolled back to
\* its savepoint, and the link is saved with it all the same.
AccountedRescued(r, a) == IF r.link = Nil THEN [r EXCEPT !.pc = "store"]
                          ELSE [r EXCEPT !.pc = "check", !.link.account = a.id]

\* The request once its account is inserted: a link is saved with it.
Accounted(r, a) == IF r.link = Nil THEN [r EXCEPT !.pc = "store", !.account = a]
                   ELSE [r EXCEPT !.pc = "check", !.account = a, !.link.account = a.id]

\* INSERT INTO accounts, and the source that is created with it.
InsertAccount(t) ==
  /\ req[t].pc = "account"
  /\ ~AccountHeld(t)
  /\ Accounts(req[t].author) = {}
  /\ Serve(t, Accounted(req[t], [id |-> nextId, url |-> req[t].author]))
  /\ nextId' = nextId + 1
  /\ UNCHANGED <<links, accounts, pms, begun, alone>>

AccountTaken(t) ==
  /\ req[t].pc = "account"
  /\ Accounts(req[t].author) # {}
  /\ Refuse(t)

InProject(p, media) == \E pm \in pms : pm.project = p /\ pm.media = media

\* Mutant of Check: only a link that was just created is looked for.
CheckNewLinks(t) ==
  /\ req[t].pc = "check"
  /\ IF req[t].link # Nil /\ InProject(req[t].project, req[t].media) THEN Refuse(t)
     ELSE /\ Goes(t, "store")
          /\ UNCHANGED <<links, accounts, pms, nextId, begun, alone>>

\* ProjectMedia#is_unique.
Check(t) ==
  /\ req[t].pc = "check"
  /\ IF InProject(req[t].project, req[t].media) THEN Refuse(t)
     ELSE /\ Goes(t, "store")
          /\ UNCHANGED <<links, accounts, pms, nextId, begun, alone>>

\* The request creates a project media, of an id that no link has.
Dangling(t) == req[t].project # Nil /\ req[t].link = Nil /\ req[t].media \notin LinkIds

\* set_quote_embed, the first callback after the INSERT, fails without a media.
NoMedia(t) == /\ req[t].pc = "store"
              /\ Dangling(t)
              /\ Refuse(t)

\* INSERT INTO project_medias, the callbacks, and COMMIT; createAccount only commits.
Store(t) ==
  /\ req[t].pc = "store"
  /\ ~Dangling(t)
  /\ IF req[t].project = Nil THEN UNCHANGED <<pms, nextId>>
     ELSE /\ pms' = pms \cup {[id |-> nextId, project |-> req[t].project,
                               media |-> req[t].media]}
          /\ nextId' = nextId + 1
  /\ links' = With(links, req[t].link)
  /\ accounts' = With(accounts, req[t].account)
  /\ Serve(t, Idle)
  /\ UNCHANGED <<begun, alone>>

\* What an UPDATE writes: a column that was not changed keeps what the row has now.
Column(loaded, assigned, now) == IF assigned = loaded THEN now ELSE assigned

Moved(r, pm) == [pm EXCEPT !.project = Column(r.loaded.project, r.project, @),
                           !.media = Column(r.loaded.media, r.media, @)]

\* UPDATE project_medias, if the row is still there; is_unique is asked on create only.
Move(t) ==
  /\ req[t].pc = "move"
  /\ pms' = {IF pm.id = req[t].loaded.id THEN Moved(req[t], pm) ELSE pm : pm \in pms}
  /\ alone' = (alone /\ pms' = pms)
  /\ Serve(t, Idle)
  /\ UNCHANGED <<links, accounts, nextId, begun>>

\* Mutant of Raise: the link was saved in a transaction of its own.
RaiseKeepsLink(t) ==
  /\ req[t].pc # "idle"
  /\ links' = With(links, req[t].link)
  /\ Serve(t, Idle)
  /\ UNCHANGED <<accounts, pms, nextId, begun, alone>>

\* A permission is refused, a callback raises, or the process dies.
Raise(t) == /\ req[t].pc # "idle"
            /\ Refuse(t)

\* destroyProjectMedia: the link stays.
Destroy(pm) == /\ pms' = pms \ {pm}
               /\ UNCHANGED <<links, accounts, nextId, req, begun, alone>>

-----------------------------------------------------------------------------
Begins(t) == \/ \E p \in Projects : \/ \E s \in Spellings : BeginUrl(t, p, s)
                                    \/ \E media \in LinkIds \cup Strays : BeginMedia(t, p, media)
                                    \/ \E pm \in pms, media \in LinkIds \cup Strays :
                                         BeginMove(t, pm, p, media)
             \/ \E a \in Authors : BeginAccount(t, a)

Progress(t) == \/ Normalize(t) \/ Find(t) \/ Validate(t)
               \/ InsertLink(t) \/ LinkTaken(t)
               \/ Author(t) \/ InsertAccount(t) \/ AccountTaken(t)
               \/ Check(t) \/ NoMedia(t) \/ Store(t) \/ Move(t)

Next == \/ \E t \in Threads : Begins(t) \/ Progress(t) \/ Raise(t)
        \/ \E pm \in pms : Destroy(pm)

Spec == Init /\ [][Next]_vars

\* A request goes on: the calls of Pender time out, and so does nothing else.
FairSpec == Spec /\ \A t \in Threads : WF_vars(Progress(t))

-----------------------------------------------------------------------------
\* A URL has one link, however requests for it overlap (migrate/20160810165248), and
\* the links of one author that have an account have the same one (link.rb:20-31).
LinksAndAuthorsUnique ==
  \A l, m \in links :
    /\ l.url = m.url => l = m
    /\ l.account # Nil => [id |-> l.account, url |-> AuthorOf[l.url]] \in accounts
    /\ AuthorOf[l.url] = AuthorOf[m.url] /\ Nil \notin {l.account, m.account}
         => l.account = m.account

\* What refuses or breaks a createProjectMedia leaves nothing behind: a link appears
\* together with a project media of it.
LinksComeWithMedia ==
  [][\A l \in links' \ links : \E pm \in pms' \ pms : pm.media = l.id]_vars

\* "This media already exists in this project" (project_media.rb:193; "should be
\* unique", project_media_test.rb:383-394): a media is in a project once.
OncePerProject ==
  \A m, n \in pms : m.project = n.project /\ m.media = n.media => m = n

\* While no two requests overlap and nothing is moved, is_unique is enough.
AloneOncePerProject == alone => OncePerProject

\* A request by itself is never refused by an index: url_is_unique comes first.
AloneNeverTaken ==
  alone => \A t \in Threads :
             /\ req[t].pc = "link" => Links(req[t].url) = {}
             /\ req[t].pc = "account" => Accounts(req[t].author) = {}

Promised == INSTANCE Library

\* However requests overlap, break or are refused, the tables change as if each request
\* were served at once, and a project media is created of a link there is: no foreign key
\* sees to it (project_media.rb:193-213, link.rb:20-44).  Only an update may give it an
\* id that no link has.
ImplementsLibrary == Promised!Spec

\* Requests that wait for each other's URLs all come to an end.
RequestsEnd == \A t \in Threads : req[t] # Idle ~> req[t] = Idle
=============================================================================
