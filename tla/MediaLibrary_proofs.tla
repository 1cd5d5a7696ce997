------------------------ MODULE MediaLibrary_proofs ------------------------
(***************************************************************************)
(* MediaCreation implements Library, for any projects, URLs, authors,      *)
(* threads and number of requests; and why requests that wait for each     *)
(* other's URLs do not wait in a circle.                                   *)
(***************************************************************************)
EXTENDS MediaCreation_proofs

USE UrlsAssumption, AuthorsAssumption, BoundAssumption, NilAssumption

Ids(rows) == {r.id : r \in rows}

\* The account a request has inserted is the one its link refers to, and a media it has
\* not inserted is the id of a link or one that was named.
Owned(r) ==
  /\ r.account # Nil => \/ r.link = Nil /\ r.project = Nil
                        \/ /\ r.link # Nil
                           /\ r.account.url = AuthorOf[r.link.url]
                           /\ r.link.account = r.account.id
  /\ r.pc \in {"check", "store", "move"} /\ r.project # Nil /\ r.link = Nil
       => r.media \in Ids(links) \cup Strays

\* What a request has inserted has ids that nobody else has.
LinkIdOwn(t) ==
  req[t].link # Nil =>
    /\ req[t].link.id < nextId
    /\ req[t].link.id \notin Ids(links)
    /\ \A s \in Threads : s # t /\ req[s].link # Nil => req[s].link.id # req[t].link.id

AccountIdOwn(t) ==
  req[t].account # Nil =>
    /\ req[t].account.id < nextId
    /\ req[t].account.id \notin Ids(accounts)
    /\ \A s \in Threads : s # t /\ req[s].account # Nil =>
         req[s].account.id # req[t].account.id

RowsInv == /\ \A l \in links : l.id < nextId
           /\ \A a \in accounts : a.id < nextId
           /\ \A p, q \in pms : p.id = q.id => p = q
           /\ \A pm \in pms : pm.media \in Ids(links) \cup Strays

LibraryInv ==
  RowsInv /\ \A t \in Threads : Owned(req[t]) /\ LinkIdOwn(t) /\ AccountIdOwn(t)

LEMMA InitLibrary == Init => LibraryInv
  BY DEF Init, LibraryInv, RowsInv, Owned, LinkIdOwn, AccountIdOwn, Idle

\* Ids are numbers.
LEMMA IdFacts ==
  ASSUME IInv
  PROVE  /\ nextId \in Nat /\ req \in [Threads -> Request]
         /\ \A l \in links : l.id \in Nat
         /\ \A a \in accounts : a.id \in Nat
         /\ \A t \in Threads : /\ req[t].link # Nil => req[t].link.id \in Nat
                               /\ req[t].account # Nil => req[t].account.id \in Nat
<1>1. /\ nextId \in Nat /\ req \in [Threads -> Request]
      /\ links \subseteq Link /\ accounts \subseteq Account
  BY DEF IInv, TypeOK
<1>2. \A t \in Threads : req[t].link \in Link \cup {Nil} /\ req[t].account \in Account \cup {Nil}
  BY <1>1 DEF Request
<1> QED
  BY <1>1, <1>2 DEF Link, Account

\* One request goes on or ends, and adds no row but the project media; what it inserts has
\* the next id.
LEMMA ServeLibrary ==
  ASSUME IInv, LibraryInv, NEW t \in Threads, NEW r, Serve(t, r),
         UNCHANGED <<links, accounts>>,
         nextId' = nextId \/ nextId' = nextId + 1,
         r.link # Nil => \/ req[t].link # Nil /\ r.link.id = req[t].link.id
                         \/ r.link.id = nextId /\ nextId' = nextId + 1,
         r.account # Nil => \/ req[t].account # Nil /\ r.account.id = req[t].account.id
                            \/ r.account.id = nextId /\ nextId' = nextId + 1,
         Owned(r), RowsInv'
  PROVE  LibraryInv'
<1>1. /\ nextId \in Nat /\ \A s \in Threads \ {t} : req'[s] = req[s]
      /\ req'[t] = r
  BY IdFacts DEF Serve
<1>2. ASSUME NEW s \in Threads PROVE Owned(req[s])'
  <2>1. Owned(req'[s])
    BY <1>1 DEF LibraryInv
  <2> QED
    BY <2>1 DEF Owned, Ids
<1>3. \A s \in Threads : req[s].link # Nil => req[s].link.id # nextId
  BY IdFacts DEF LibraryInv, LinkIdOwn
<1>4. nextId \notin Ids(links) /\ nextId \notin Ids(accounts)
  BY IdFacts DEF LibraryInv, RowsInv, Ids
<1>5. ASSUME NEW s \in Threads PROVE LinkIdOwn(s)'
  <2> SUFFICES ASSUME req'[s].link # Nil
               PROVE  /\ req'[s].link.id < nextId'
                      /\ req'[s].link.id \notin Ids(links)
                      /\ \A u \in Threads : u # s /\ req'[u].link # Nil =>
                           req'[u].link.id # req'[s].link.id
    BY DEF LinkIdOwn, Ids
  <2>1. \A u \in Threads : LinkIdOwn(u)
    BY DEF LibraryInv
  <2>2. req'[s].link.id < nextId' /\ req'[s].link.id \notin Ids(links)
    BY <1>1, <1>4, <2>1, IdFacts DEF LinkIdOwn
  <2>3. ASSUME NEW u \in Threads, u # s, req'[u].link # Nil
        PROVE  req'[u].link.id # req'[s].link.id
    BY <1>1, <1>3, <2>1, <2>3 DEF LinkIdOwn
  <2> QED
    BY <2>2, <2>3
<1>6. \A s \in Threads : req[s].account # Nil => req[s].account.id # nextId
  BY IdFacts DEF LibraryInv, AccountIdOwn
<1>7. ASSUME NEW s \in Threads PROVE AccountIdOwn(s)'
  <2> SUFFICES ASSUME req'[s].account # Nil
               PROVE  /\ req'[s].account.id < nextId'
                      /\ req'[s].account.id \notin Ids(accounts)
                      /\ \A u \in Threads : u # s /\ req'[u].account # Nil =>
                           req'[u].account.id # req'[s].account.id
    BY DEF AccountIdOwn, Ids
  <2>1. \A u \in Threads : AccountIdOwn(u)
    BY DEF LibraryInv
  <2>2. req'[s].account.id < nextId' /\ req'[s].account.id \notin Ids(accounts)
    BY <1>1, <1>4, <2>1, IdFacts DEF AccountIdOwn
  <2>3. ASSUME NEW u \in Threads, u # s, req'[u].account # Nil
        PROVE  req'[u].account.id # req'[s].account.id
    BY <1>1, <1>6, <2>1, <2>3 DEF AccountIdOwn
  <2> QED
    BY <2>2, <2>3
<1> QED
  BY <1>2, <1>5, <1>7 DEF LibraryInv

\* With the same rows and a sequence that only goes on, the rows fit still.
LEMMA RowsKept ==
  ASSUME IInv, RowsInv, UNCHANGED <<links, accounts, pms>>,
         nextId' = nextId \/ nextId' = nextId + 1
  PROVE  RowsInv'
  BY IdFacts DEF RowsInv, Ids

\* A request that ends owns nothing.
LEMMA FinishLibrary ==
  ASSUME IInv, LibraryInv, NEW t \in Threads, Serve(t, Idle), UNCHANGED <<links, accounts, nextId>>,
         RowsInv'
  PROVE  LibraryInv'
<1>1. Idle.link = Nil /\ Idle.account = Nil /\ Owned(Idle)
  BY DEF Idle, Owned
<1> QED
  BY <1>1, ServeLibrary

\* A request that goes on with what it has inserted, and inserts nothing.
LEMMA GoOnLibrary ==
  ASSUME IInv, LibraryInv, NEW t \in Threads, NEW r, Serve(t, r), Owned(r),
         UNCHANGED <<links, accounts, pms, nextId>>,
         r.link # Nil => req[t].link # Nil /\ r.link.id = req[t].link.id,
         r.account # Nil => req[t].account # Nil /\ r.account.id = req[t].account.id
  PROVE  LibraryInv'
<1>1. RowsInv'
  BY RowsKept DEF LibraryInv
<1> QED
  BY <1>1, ServeLibrary

\* A request that begins names a link there is, or a stray id.
LEMMA BeginsLibrary ==
  ASSUME IInv, LibraryInv, NEW t \in Threads, Begins(t)
  PROVE  LibraryInv'
<1>1. ASSUME NEW r, Begin(t, r), r.link = Nil, r.account = Nil, Owned(r) PROVE LibraryInv'
  BY <1>1, GoOnLibrary DEF Begin
<1>2. ASSUME NEW p \in Projects, NEW s \in Spellings, BeginUrl(t, p, s)
      PROVE  LibraryInv'
  BY <1>1, <1>2 DEF BeginUrl, Idle, Owned
<1>3. ASSUME NEW p \in Projects, NEW media \in LinkIds \cup Strays, BeginMedia(t, p, media)
      PROVE  LibraryInv'
  BY <1>1, <1>3 DEF BeginMedia, Idle, Owned, LinkIds, Ids
<1>4. ASSUME NEW a \in Authors, BeginAccount(t, a)
      PROVE  LibraryInv'
  BY <1>1, <1>4 DEF BeginAccount, Idle, Owned
<1>5. ASSUME NEW p \in Projects, NEW pm \in pms,
             NEW media \in LinkIds \cup Strays, BeginMove(t, pm, p, media)
      PROVE  LibraryInv'
  BY <1>1, <1>5 DEF BeginMove, Idle, Owned, LinkIds, Ids
<1> QED
  BY <1>2, <1>3, <1>4, <1>5 DEF Begins

\* The steps that only read.
LEMMA ReadLibrary ==
  ASSUME IInv, LibraryInv, NEW t \in Threads,
         Normalize(t) \/ Find(t) \/ Validate(t) \/ Check(t) \/ Author(t)
         \/ LinkTaken(t) \/ AccountTaken(t) \/ NoMedia(t) \/ Raise(t)
  PROVE  LibraryInv'
<1>1. req[t] \in Request /\ Filled(req[t]) /\ Coherent(req[t], accounts) /\ Owned(req[t])
  BY RequestFacts DEF LibraryInv
<1>2. ASSUME Refuse(t) PROVE LibraryInv'
  BY <1>2, RowsKept, FinishLibrary DEF Refuse, LibraryInv
<1>3. CASE Normalize(t)
  <2>1. PICK url : Serve(t, [req[t] EXCEPT !.pc = "find", !.url = url])
    BY <1>3 DEF Normalize
  <2> DEFINE r == [req[t] EXCEPT !.pc = "find", !.url = url]
  <2>2. r.link = Nil /\ r.account = Nil /\ Owned(r)
    BY <1>1, <1>3 DEF Request, Coherent, Normalize, Owned
  <2> QED
    BY <1>3, <2>1, <2>2, GoOnLibrary DEF Normalize
<1>4. CASE Find(t)
  <2>1. CASE Goes(t, "validate")
    <3> DEFINE r == [req[t] EXCEPT !.pc = "validate"]
    <3>1. r.link = Nil /\ r.account = Nil /\ Owned(r)
      BY <1>1, <1>4 DEF Request, Coherent, Find, Owned
    <3> QED
      BY <1>4, <2>1, <3>1, GoOnLibrary DEF Find, Goes
  <2>2. ASSUME NEW l \in links,
               Serve(t, [req[t] EXCEPT !.pc = "check", !.media = l.id])
        PROVE  LibraryInv'
    <3> DEFINE r == [req[t] EXCEPT !.pc = "check", !.media = l.id]
    <3>1. l.id \in Ids(links)
      BY DEF Ids
    <3>2. r.link = Nil /\ r.account = Nil /\ Owned(r)
      BY <1>1, <1>4, <3>1 DEF Request, Coherent, Find, Owned
    <3> QED
      BY <1>4, <2>2, <3>2, GoOnLibrary DEF Find
  <2> QED
    BY <1>4, <2>1, <2>2 DEF Find, Links
<1>5. CASE Validate(t)
  <2> DEFINE r == [req[t] EXCEPT !.pc = "link", !.url = Normal[@]]
  <2>1. r.link = Nil /\ r.account = Nil /\ Owned(r)
    BY <1>1, <1>5 DEF Request, Coherent, Validate, Owned
  <2> QED
    BY <1>2, <1>5, <2>1, GoOnLibrary DEF Validate
<1>6. CASE Check(t)
  <2> DEFINE r == [req[t] EXCEPT !.pc = "store"]
  <2>1. r.link = req[t].link /\ r.account = req[t].account /\ Owned(r)
    BY <1>1, <1>6 DEF Request, Check, Owned
  <2>2. CASE Goes(t, "store")
    BY <1>6, <2>1, <2>2, GoOnLibrary DEF Check, Goes, Refuse
  <2> QED
    BY <1>2, <1>6, <2>2 DEF Check
<1>7. CASE Author(t)
  <2> DEFINE mine == [req[t] EXCEPT !.media = req[t].link.id]
  <2>1. req[t].link \in Link /\ req[t].account = Nil /\ req[t].link # Nil
    BY <1>1, <1>7 DEF Author, Filled, Coherent, Request
  <2>2. ASSUME NEW a, Serve(t, [mine EXCEPT !.pc = "account", !.author = a])
        PROVE  LibraryInv'
    <3> DEFINE r == [mine EXCEPT !.pc = "account", !.author = a]
    <3>1. r.link = req[t].link /\ r.account = Nil /\ Owned(r)
      BY <1>1, <2>1 DEF Request, Owned
    <3> QED
      BY <1>7, <2>1, <2>2, <3>1, GoOnLibrary DEF Author
  <2>3. ASSUME NEW id \in Nat \cup {Nil}, Serve(t, [mine EXCEPT !.pc = "check", !.link.account = id])
        PROVE  LibraryInv'
    <3> DEFINE r == [mine EXCEPT !.pc = "check", !.link.account = id]
    <3>1. r.link = [req[t].link EXCEPT !.account = id] /\ r.account = Nil
      BY <1>1, <2>1 DEF Request
    <3>2. r.link \in Link /\ r.link.id = req[t].link.id
      BY <2>1, <3>1 DEF Link
    <3>3. r.link # Nil
      BY <3>2
    <3> QED
      BY <1>7, <2>1, <2>3, <3>1, <3>2, <3>3, GoOnLibrary DEF Author, Owned
  <2>4. \A a : {b.id : b \in Accounts(a)} \subseteq Nat
    BY IdFacts DEF Accounts
  <2> QED
    BY <1>7, <2>2, <2>3, <2>4 DEF Author
<1> QED
  BY <1>2, <1>3, <1>4, <1>5, <1>6, <1>7 DEF LinkTaken, AccountTaken, NoMedia, Raise

\* What is inserted takes the next id.
LEMMA InsertLibrary ==
  ASSUME IInv, LibraryInv, NEW t \in Threads, InsertLink(t) \/ InsertAccount(t)
  PROVE  LibraryInv'
<1>1. req[t] \in Request /\ Filled(req[t]) /\ Coherent(req[t], accounts) /\ Owned(req[t])
  BY RequestFacts DEF LibraryInv
<1>2. RowsInv'
  BY RowsKept DEF InsertLink, InsertAccount, LibraryInv
<1>3. CASE InsertLink(t)
  <2> DEFINE r == [req[t] EXCEPT !.pc = "author",
                                 !.link = [id |-> nextId, url |-> req[t].url, account |-> Nil]]
  <2>1. r.link.id = nextId /\ r.account = Nil /\ Owned(r)
    BY <1>1, <1>3 DEF InsertLink, Request, Coherent, Owned
  <2> QED
    BY <1>2, <1>3, <2>1, ServeLibrary DEF InsertLink
<1>4. CASE InsertAccount(t)
  <2> DEFINE a == [id |-> nextId, url |-> req[t].author]
             r == Accounted(req[t], a)
  <2>1. Serve(t, r) /\ nextId' = nextId + 1 /\ UNCHANGED <<links, accounts>>
    BY <1>4 DEF InsertAccount
  <2>2. CASE req[t].link = Nil
    <3>1. r.link = Nil /\ r.account = a /\ r.project = Nil
      BY <1>1, <1>4, <2>2 DEF InsertAccount, Accounted, Request, Coherent
    <3>2. Owned(r) /\ r.account.id = nextId
      BY <3>1 DEF Owned
    <3> HIDE DEF r
    <3> QED
      BY <1>2, <2>1, <3>1, <3>2, ServeLibrary
  <2>3. CASE req[t].link # Nil
    <3>1. req[t].link \in Link /\ nextId \in Nat
      BY <1>1, <2>3, IdFacts DEF Request
    <3>2. r.link = [req[t].link EXCEPT !.account = nextId] /\ r.account = a
      BY <1>1, <2>3 DEF Accounted, Request
    <3>3. /\ r.link \in Link /\ r.link.id = req[t].link.id /\ r.link.url = req[t].link.url
          /\ r.link.account = nextId
      BY <3>1, <3>2 DEF Link
    <3>4. a.url = AuthorOf[req[t].link.url]
      BY <1>1, <1>4, <2>3 DEF InsertAccount, Coherent
    <3>5. Owned(r) /\ r.account.id = nextId
      <4>1. r.link # Nil /\ r.account.id = nextId /\ r.account.url = a.url
        BY <3>2, <3>3
      <4>2. r.account.url = AuthorOf[r.link.url] /\ r.link.account = r.account.id
        BY <3>3, <3>4, <4>1
      <4> HIDE DEF r
      <4> QED
        BY <4>1, <4>2 DEF Owned
    <3> HIDE DEF r
    <3> QED
      BY <1>2, <2>1, <2>3, <3>3, <3>5, ServeLibrary
  <2> QED
    BY <2>2, <2>3
<1> QED
  BY <1>3, <1>4

\* An update leaves the ids of the project media, and gives them links there are or
\* stray ids.
LEMMA MoveRows ==
  ASSUME IInv, LibraryInv, NEW t \in Threads, Move(t)
  PROVE  /\ RowsInv'
         /\ \A pm \in pms : /\ Moved(req[t], pm).id = pm.id
                            /\ Moved(req[t], pm).project \in Projects
                            /\ Moved(req[t], pm).media \in Ids(links) \cup Strays
<1> DEFINE m(pm) == Moved(req[t], pm)
           n(pm) == IF pm.id = req[t].loaded.id THEN m(pm) ELSE pm
<1>1. req[t] \in Request /\ Filled(req[t]) /\ Coherent(req[t], accounts) /\ Owned(req[t])
      /\ req[t].pc = "move" /\ req[t].link = Nil /\ pms \subseteq ProjectMedia
  BY RequestFacts DEF LibraryInv, Move, Coherent
<1>2. req[t].project \in Projects /\ req[t].media \in Ids(links) \cup Strays
  BY <1>1 DEF Filled, Request, Owned
<1>3. \A pm \in pms : pm.media \in Ids(links) \cup Strays
  BY DEF LibraryInv, RowsInv
<1>4. ASSUME NEW pm \in pms
      PROVE  m(pm).id = pm.id /\ m(pm).project \in Projects /\ m(pm).media \in Ids(links) \cup Strays
  <2>1. pm \in ProjectMedia
    BY <1>1
  <2>2. /\ m(pm).id = pm.id
        /\ m(pm).project \in {req[t].project, pm.project}
        /\ m(pm).media \in {req[t].media, pm.media}
    BY <2>1 DEF Moved, Column, ProjectMedia
  <2>3. pm.project \in Projects
    BY <2>1 DEF ProjectMedia
  <2> QED
    BY <1>2, <1>3, <2>2, <2>3
<1>5. pms' = {n(pm) : pm \in pms}
  BY DEF Move
<1>6. \A pm \in pms : n(pm).id = pm.id /\ n(pm).media \in Ids(links) \cup Strays
  BY <1>3, <1>4
<1>7. \A p, q \in pms' : p.id = q.id => p = q
  <2> SUFFICES ASSUME NEW p \in pms, NEW q \in pms, n(p).id = n(q).id PROVE n(p) = n(q)
    BY <1>5
  <2>1. p.id = q.id
    BY <1>6
  <2>2. p = q
    BY <2>1 DEF LibraryInv, RowsInv
  <2> QED
    BY <2>2
<1>8. \A pm \in pms' : pm.media \in Ids(links) \cup Strays
  BY <1>5, <1>6
<1>9. RowsInv'
  BY <1>7, <1>8 DEF RowsInv, Ids, LibraryInv, Move
<1> QED
  BY <1>4, <1>9

\* What a request commits: the rows it has inserted, and a project media with a new id.
LEMMA StoreRows ==
  ASSUME IInv, LibraryInv, NEW t \in Threads, Store(t)
  PROVE  RowsInv'
<1> DEFINE l == req[t].link
           a == req[t].account
           new == [id |-> nextId, project |-> req[t].project, media |-> req[t].media]
<1>1. /\ Coherent(req[t], accounts) /\ Owned(req[t]) /\ req[t].pc = "store"
      /\ LinkIdOwn(t) /\ AccountIdOwn(t) /\ RowsInv /\ nextId \in Nat
  BY RequestFacts DEF LibraryInv, Store
<1>2. nextId' = nextId \/ nextId' = nextId + 1
  BY DEF Store
<1>3. /\ links' = With(links, l) /\ accounts' = With(accounts, a)
      /\ links \subseteq links' /\ accounts \subseteq accounts'
  BY DEF Store, With
<1>4. \A k \in links' : k.id < nextId'
  BY <1>1, <1>2, <1>3, IdFacts DEF With, LinkIdOwn, RowsInv
<1>5. \A b \in accounts' : b.id < nextId'
  BY <1>1, <1>2, <1>3, IdFacts DEF With, AccountIdOwn, RowsInv
<1>6. Ids(links) \subseteq Ids(links')
  BY <1>3 DEF Ids
<1>7. CASE req[t].project = Nil
  <2>1. pms' = pms
    BY <1>7 DEF Store
  <2> QED
    BY <1>1, <1>4, <1>5, <1>6, <2>1 DEF RowsInv
<1>8. CASE req[t].project # Nil
  <2>1. pms' = pms \cup {new}
    BY <1>8 DEF Store
  <2>2. new.media \in Ids(links')
    <3>1. CASE l = Nil
      BY <1>6, <1>8, <3>1 DEF Store, Dangling, LinkIds, Ids
    <3>2. CASE l # Nil
      BY <1>1, <1>3, <3>2 DEF Coherent, With, Ids
    <3> QED
      BY <3>1, <3>2
  <2>3. \A pm \in pms : pm.id \in Nat /\ pm.id < nextId
    BY RequestFacts DEF IInv, IdsInv, ProjectMedia
  <2>4. \A p, q \in pms' : p.id = q.id => p = q
    <3> SUFFICES ASSUME NEW p \in pms', NEW q \in pms', p.id = q.id PROVE p = q
      OBVIOUS
    <3>1. CASE p \in pms /\ q \in pms
      BY <1>1, <3>1 DEF RowsInv
    <3>2. ASSUME NEW o \in pms PROVE o.id # new.id
      BY <1>1, <2>3
    <3> QED
      BY <2>1, <3>1, <3>2
  <2>5. \A pm \in pms' : pm.media \in Ids(links') \cup Strays
    BY <1>1, <1>6, <2>1, <2>2 DEF RowsInv
  <2> QED
    BY <1>4, <1>5, <2>4, <2>5 DEF RowsInv, Ids
<1> QED
  BY <1>7, <1>8

\* What is committed is nobody else's.
LEMMA StoreLibrary ==
  ASSUME IInv, LibraryInv, NEW t \in Threads, Store(t)
  PROVE  LibraryInv'
<1>1. /\ nextId \in Nat /\ \A s \in Threads \ {t} : req'[s] = req[s]
      /\ req'[t].link = Nil /\ req'[t].account = Nil /\ req'[t].project = Nil
  BY IdFacts DEF Store, Serve, Idle
<1>2. nextId' = nextId \/ nextId' = nextId + 1
  BY DEF Store
<1>3. Ids(links) \subseteq Ids(links')
  BY DEF Store, With, Ids
<1>4. \A s \in Threads : Owned(req[s]) /\ LinkIdOwn(s) /\ AccountIdOwn(s)
  BY DEF LibraryInv
<1>5. ASSUME NEW s \in Threads PROVE Owned(req[s])'
  <2>1. s # t => Owned(req'[s])
    BY <1>1, <1>4
  <2> QED
    BY <1>1, <1>3, <2>1 DEF Owned
<1>6. ASSUME NEW s \in Threads PROVE LinkIdOwn(s)'
  <2> SUFFICES ASSUME req'[s].link # Nil
               PROVE  /\ req'[s].link.id < nextId'
                      /\ req'[s].link.id \notin Ids(links')
                      /\ \A u \in Threads : u # s /\ req'[u].link # Nil =>
                           req'[u].link.id # req'[s].link.id
    BY DEF LinkIdOwn, Ids
  <2>1. s # t /\ req'[s] = req[s] /\ req[s].link # Nil
    BY <1>1
  <2>2. req[s].link.id < nextId'
    BY <1>2, <1>4, <2>1, IdFacts DEF LinkIdOwn
  <2>3. req[s].link.id \notin Ids(links')
    <3>1. req[s].link.id \notin Ids(links)
      BY <1>4, <2>1 DEF LinkIdOwn
    <3>2. req[t].link # Nil => req[t].link.id # req[s].link.id
      BY <1>4, <2>1 DEF LinkIdOwn
    <3> QED
      BY <3>1, <3>2 DEF Ids, Store, With
  <2>4. \A u \in Threads : u # s /\ req'[u].link # Nil => req'[u].link.id # req[s].link.id
    BY <1>1, <1>4, <2>1 DEF LinkIdOwn
  <2> QED
    BY <2>1, <2>2, <2>3, <2>4
<1>7. ASSUME NEW s \in Threads PROVE AccountIdOwn(s)'
  <2> SUFFICES ASSUME req'[s].account # Nil
               PROVE  /\ req'[s].account.id < nextId'
                      /\ req'[s].account.id \notin Ids(accounts')
                      /\ \A u \in Threads : u # s /\ req'[u].account # Nil =>
                           req'[u].account.id # req'[s].account.id
    BY DEF AccountIdOwn, Ids
  <2>1. s # t /\ req'[s] = req[s] /\ req[s].account # Nil
    BY <1>1
  <2>2. req[s].account.id < nextId'
    BY <1>2, <1>4, <2>1, IdFacts DEF AccountIdOwn
  <2>3. req[s].account.id \notin Ids(accounts')
    <3>1. req[s].account.id \notin Ids(accounts)
      BY <1>4, <2>1 DEF AccountIdOwn
    <3>2. req[t].account # Nil => req[t].account.id # req[s].account.id
      BY <1>4, <2>1 DEF AccountIdOwn
    <3> QED
      BY <3>1, <3>2 DEF Ids, Store, With
  <2>4. \A u \in Threads : u # s /\ req'[u].account # Nil =>
          req'[u].account.id # req[s].account.id
    BY <1>1, <1>4, <2>1 DEF AccountIdOwn
  <2> QED
    BY <2>1, <2>2, <2>3, <2>4
<1> QED
  BY <1>5, <1>6, <1>7, StoreRows DEF LibraryInv

LEMMA StepLibrary == IInv /\ LibraryInv /\ [Next]_vars => LibraryInv'
<1> SUFFICES ASSUME IInv, LibraryInv, [Next]_vars PROVE LibraryInv'
  OBVIOUS
<1>1. ASSUME NEW t \in Threads, Begins(t) PROVE LibraryInv'
  BY <1>1, BeginsLibrary
<1>2. ASSUME NEW t \in Threads, Progress(t) \/ Raise(t) PROVE LibraryInv'
  <2>1. CASE Move(t)
    BY <2>1, MoveRows, FinishLibrary DEF Move
  <2> QED
    BY <1>2, <2>1, ReadLibrary, InsertLibrary, StoreLibrary DEF Progress
<1>3. ASSUME NEW pm \in pms, Destroy(pm) PROVE LibraryInv'
  <2>1. RowsInv'
    BY <1>3 DEF Destroy, LibraryInv, RowsInv, Ids
  <2> QED
    BY <1>3, <2>1 DEF Destroy, LibraryInv, Owned, LinkIdOwn, AccountIdOwn, Ids
<1>4. CASE UNCHANGED vars
  BY <1>4 DEF vars, LibraryInv, RowsInv, Owned, LinkIdOwn, AccountIdOwn, Ids
<1> QED
  BY <1>1, <1>2, <1>3, <1>4 DEF Next

-----------------------------------------------------------------------------
\* Steps that change no table are none of Library's.
LEMMA TablesKept == UNCHANGED <<links, accounts, pms>> => UNCHANGED Promised!vars
  BY DEF Promised!vars

\* The commit of a request is one step of Library: a project media of a link that is
\* there, a link with its project media and its account, or an account.
LEMMA StoreRefines ==
  ASSUME IInv, LibraryInv, NEW t \in Threads, Store(t)
  PROVE  [Promised!Next]_Promised!vars
<1> DEFINE l == req[t].link
           a == req[t].account
           new == [id |-> nextId, project |-> req[t].project, media |-> req[t].media]
<1>1. /\ Coherent(req[t], accounts) /\ Owned(req[t]) /\ req[t].pc = "store"
      /\ LinkIdOwn(t) /\ AccountIdOwn(t) /\ req[t] \in Request
      /\ l # Nil => LinkFree(t, l.url)
      /\ a # Nil => AccountFree(t, a.url)
  BY RequestFacts DEF LibraryInv, Store
<1>2. links' = With(links, l) /\ accounts' = With(accounts, a)
  BY DEF Store
<1>3. ASSUME a # Nil PROVE a \in accounts' /\ Promised!Enlist(a)
  <2>1. accounts' = accounts \cup {a} /\ a.id \notin Ids(accounts)
    BY <1>1, <1>2, <1>3 DEF With, AccountIdOwn
  <2>2. ~Promised!Known(a.url, accounts)
    BY <1>1, <1>3 DEF Promised!Known, AccountFree, Accounts
  <2> QED
    BY <2>1, <2>2 DEF Promised!Enlist, Promised!Gains, Promised!Ids, Ids
<1>4. CASE req[t].project = Nil
  <2>1. pms' = pms /\ links' = links
    BY <1>1, <1>2, <1>4 DEF Store, Coherent, With
  <2>2. CASE a = Nil
    BY <1>2, <2>1, <2>2, TablesKept DEF With
  <2>3. CASE a # Nil
    <3>1. Promised!Register
      BY <1>3, <2>1, <2>3 DEF Promised!Register
    <3> QED
      BY <3>1 DEF Promised!Next
  <2> QED
    BY <2>2, <2>3
<1>5. CASE req[t].project # Nil
  <2>1. pms' = pms \cup {new} /\ new.project \in Projects
    BY <1>1, <1>5 DEF Store, Request
  <2>2. new.id \notin Promised!Ids(pms)
    BY RequestFacts DEF IInv, IdsInv, ProjectMedia, Promised!Ids
  <2>3. new \in pms' /\ Promised!Gains(pms, pms', new)
    BY <2>1, <2>2 DEF Promised!Gains
  <2>4. CASE l = Nil
    <3>1. a = Nil /\ req[t].media \in Ids(links)
      BY <1>1, <1>5, <2>4 DEF Owned, Store, Dangling, LinkIds, Ids
    <3>2. UNCHANGED <<links, accounts>>
      BY <1>2, <2>4, <3>1 DEF With
    <3>3. new.media \in Promised!Ids(links)
      BY <3>1 DEF Ids, Promised!Ids
    <3>4. Promised!Collect
      BY <2>1, <2>3, <3>2, <3>3 DEF Promised!Collect
    <3> QED
      BY <3>4 DEF Promised!Next
  <2>5. CASE l # Nil
    <3>1. l.url \in Urls /\ l \in links'
      BY <1>1, <1>2, <2>5 DEF Request, Link, With
    <3>2. ~Promised!Known(l.url, links)
      BY <1>1, <2>5 DEF LinkFree, Links, Promised!Known
    <3>3. Promised!Gains(links, links', l)
      BY <1>1, <1>2, <2>5 DEF With, LinkIdOwn, Promised!Gains, Promised!Ids, Ids
    <3>4. \/ UNCHANGED accounts
          \/ \E b \in accounts' : b.url = AuthorOf[l.url] /\ Promised!Enlist(b)
      <4>1. CASE a = Nil
        BY <1>2, <4>1 DEF With
      <4>2. CASE a # Nil
        BY <1>1, <1>3, <2>5, <4>2 DEF Owned
      <4> QED
        BY <4>1, <4>2
    <3>5. Promised!Attributed(l, accounts')
      BY <1>1, <1>2, <2>5 DEF Coherent, Attributed, Promised!Attributed
    <3>6. new.media = l.id
      BY <1>1, <2>5 DEF Coherent
    <3>7. Promised!Publish
      BY <2>1, <2>3, <3>1, <3>2, <3>3, <3>4, <3>5, <3>6 DEF Promised!Publish
    <3> QED
      BY <3>7 DEF Promised!Next
  <2> QED
    BY <2>4, <2>5
<1> QED
  BY <1>4, <1>5

\* An update changes one project media, if it is still there.
LEMMA MoveRefines ==
  ASSUME IInv, LibraryInv, NEW t \in Threads, Move(t)
  PROVE  [Promised!Next]_Promised!vars
<1> DEFINE id == req[t].loaded.id
           n(pm) == IF pm.id = id THEN Moved(req[t], pm) ELSE pm
<1>1. /\ UNCHANGED <<links, accounts>>
      /\ pms' = {n(pm) : pm \in pms}
      /\ \A p, q \in pms : p.id = q.id => p = q
  BY DEF Move, LibraryInv, RowsInv
<1>2. CASE \A pm \in pms : pm.id # id
  <2>1. \A pm \in pms : n(pm) = pm
    BY <1>2
  <2>2. pms' = pms
    BY <1>1, <2>1
  <2> QED
    BY <1>1, <2>2, TablesKept
<1>3. ASSUME NEW pm \in pms, pm.id = id PROVE Promised!Next
  <2> DEFINE q == Moved(req[t], pm)
  <2>1. q.id = pm.id /\ q.project \in Projects /\ q.media \in Promised!Ids(links) \cup Strays
    BY MoveRows DEF Ids, Promised!Ids
  <2>2. n(pm) = q /\ \A o \in pms : o # pm => n(o) = o
    BY <1>1, <1>3
  <2>3. pms' = (pms \ {pm}) \cup {q} /\ q \in pms'
    BY <1>1, <2>2
  <2>4. Promised!Reassign
    BY <1>1, <2>1, <2>3 DEF Promised!Reassign
  <2> QED
    BY <2>4 DEF Promised!Next
<1> QED
  BY <1>2, <1>3

LEMMA StepRefines ==
  ASSUME IInv, LibraryInv, [Next]_vars
  PROVE  [Promised!Next]_Promised!vars
<1>1. ASSUME NEW t \in Threads, Begins(t) PROVE UNCHANGED Promised!vars
  BY <1>1, TablesKept DEF Begins, BeginUrl, BeginMedia, BeginMove, BeginAccount, Begin
<1>2. ASSUME NEW t \in Threads, Progress(t) \/ Raise(t)
      PROVE  [Promised!Next]_Promised!vars
  <2>1. CASE Normalize(t) \/ Find(t) \/ Validate(t) \/ InsertLink(t) \/ LinkTaken(t)
             \/ Author(t) \/ InsertAccount(t) \/ AccountTaken(t) \/ Check(t) \/ NoMedia(t)
             \/ Raise(t)
    BY <2>1, TablesKept DEF Normalize, Find, Validate, InsertLink, LinkTaken, Author,
       InsertAccount, AccountTaken, Check, NoMedia, Raise, Refuse
  <2> QED
    BY <1>2, <2>1, StoreRefines, MoveRefines DEF Progress
<1>3. ASSUME NEW pm \in pms, Destroy(pm) PROVE Promised!Next
  BY <1>3 DEF Destroy, Promised!Next, Promised!Remove
<1>4. CASE UNCHANGED vars
  BY <1>4, TablesKept DEF vars
<1> QED
  BY <1>1, <1>2, <1>3, <1>4 DEF Next

\* In every reachable state a project media is of a link there is, unless a request named
\* an id that no link has, and no two rows of a table have one id, inserted or committed:
\* what a transaction has inserted is referred to by its own project media only, though
\* no foreign key guards media_id (project_media.rb:11, 193-198).
THEOREM Referential == Spec => []LibraryInv
  BY InitLibrary, StepLibrary, Inductive, PTL DEF Spec

\* However requests overlap, break or are refused, the tables change as if each request
\* were served at once (project_media.rb:193-213, link.rb:20-44, account.rb:63-68).
THEOREM LibraryKept == Spec => ImplementsLibrary
<1>1. Init => Promised!Init
  BY DEF Init, Promised!Init
<1>2. IInv /\ LibraryInv /\ [Next]_vars => [Promised!Next]_Promised!vars
  BY StepRefines
<1> QED
  BY <1>1, <1>2, Inductive, Referential, PTL DEF Spec, ImplementsLibrary, Promised!Spec

-----------------------------------------------------------------------------
\* A request that has to wait for the end of another one.
Waits(t) == \/ req[t].pc = "link" /\ LinkHeld(t)
            \/ req[t].pc = "account" /\ AccountHeld(t)

\* Unless all are idle, some request does not wait.
SomeoneGoesOn ==
  (\E t \in Threads : req[t] # Idle) => \E t \in Threads : req[t] # Idle /\ ~Waits(t)

\* Who has inserted an account waits for nobody, and who has inserted a link for such a
\* one at most: a link is inserted before the account of its author in every request
\* (Link#set_account is an after_create, link.rb:20-31).
THEOREM NoCircle == Spec => []SomeoneGoesOn
<1>1. IInv => SomeoneGoesOn
  <2> SUFFICES ASSUME IInv, NEW t \in Threads, req[t] # Idle
               PROVE  \E s \in Threads : req[s] # Idle /\ ~Waits(s)
    BY DEF SomeoneGoesOn
  <2>1. \A s \in Threads : Coherent(req[s], accounts)
    BY RequestFacts
  <2>2. ASSUME NEW s \in Threads, req[s].account # Nil PROVE req[s] # Idle /\ ~Waits(s)
    BY <2>1, <2>2 DEF Coherent, Idle, Waits
  <2>3. ASSUME NEW s \in Threads, req[s].pc = "account", AccountHeld(s)
        PROVE  \E u \in Threads : req[u] # Idle /\ ~Waits(u)
    BY <2>2, <2>3 DEF AccountHeld
  <2>4. ASSUME NEW s \in Threads, req[s].link # Nil
        PROVE  \E u \in Threads : req[u] # Idle /\ ~Waits(u)
    <3>1. req[s] # Idle /\ req[s].pc # "link"
      BY <2>1, <2>4 DEF Coherent, Idle
    <3> QED
      BY <2>3, <3>1 DEF Waits
  <2>5. CASE req[t].pc = "link" /\ LinkHeld(t)
    BY <2>4, <2>5 DEF LinkHeld
  <2> QED
    BY <2>3, <2>5 DEF Waits
<1> QED
  BY <1>1, Inductive, PTL

\* How far a request has come.
Stage == [normalize |-> 1, find |-> 2, validate |-> 3, link |-> 4, author |-> 5,
          account |-> 6, check |-> 7, store |-> 8, move |-> 8]

\* Each step of a request begins it, ends it or brings it further: nothing is done twice.
Further(t) == \/ req'[t] = req[t]
              \/ req[t] = Idle
              \/ req'[t] = Idle
              \/ Stage[req'[t].pc] > Stage[req[t].pc]

GoesForward == [][\A t \in Threads : Further(t)]_vars

\* From where to where a request goes on.
Turns == {<<"normalize", "find">>, <<"find", "validate">>, <<"find", "check">>,
          <<"validate", "link">>, <<"link", "author">>, <<"author", "account">>,
          <<"author", "check">>, <<"account", "check">>, <<"account", "store">>,
          <<"check", "store">>}

LEMMA TurnsGoForward ==
  ASSUME NEW a, NEW b, <<a, b>> \in Turns
  PROVE  Stage[b] > Stage[a]
<1>1. /\ Stage["normalize"] = 1 /\ Stage["find"] = 2 /\ Stage["validate"] = 3
      /\ Stage["link"] = 4 /\ Stage["author"] = 5 /\ Stage["account"] = 6
      /\ Stage["check"] = 7 /\ Stage["store"] = 8
  BY DEF Stage
<1> QED
  BY <1>1 DEF Turns

\* The steps that take a request further.
LEMMA ProgressTurns ==
  ASSUME IInv, NEW t \in Threads, Progress(t)
  PROVE  \/ Serve(t, Idle)
         \/ \E r : Serve(t, r) /\ <<req[t].pc, r.pc>> \in Turns
<1>1. req[t] \in Request
  BY RequestFacts
<1>2. ASSUME Refuse(t) PROVE Serve(t, Idle)
  BY <1>2 DEF Refuse
<1>3. CASE Normalize(t)
  <2>1. PICK url : Serve(t, [req[t] EXCEPT !.pc = "find", !.url = url])
    BY <1>3 DEF Normalize
  <2>2. [req[t] EXCEPT !.pc = "find", !.url = url].pc = "find" /\ req[t].pc = "normalize"
    BY <1>1, <1>3 DEF Normalize, Request
  <2> QED
    BY <2>1, <2>2 DEF Turns
<1>4. CASE Find(t)
  <2>1. req[t].pc = "find" /\ [req[t] EXCEPT !.pc = "validate"].pc = "validate"
    BY <1>1, <1>4 DEF Find, Request
  <2>2. CASE Goes(t, "validate")
    BY <2>1, <2>2 DEF Goes, Turns
  <2>3. ASSUME NEW id, Serve(t, [req[t] EXCEPT !.pc = "check", !.media = id])
        PROVE  \E r : Serve(t, r) /\ <<req[t].pc, r.pc>> \in Turns
    <3>1. [req[t] EXCEPT !.pc = "check", !.media = id].pc = "check"
      BY <1>1 DEF Request
    <3> QED
      BY <2>1, <2>3, <3>1 DEF Turns
  <2> QED
    BY <1>4, <2>2, <2>3 DEF Find
<1>5. CASE Validate(t)
  <2> DEFINE r == [req[t] EXCEPT !.pc = "link", !.url = Normal[@]]
  <2>1. r.pc = "link" /\ req[t].pc = "validate"
    BY <1>1, <1>5 DEF Validate, Request
  <2>2. Serve(t, r) \/ Refuse(t)
    BY <1>5 DEF Validate
  <2> HIDE DEF r
  <2> QED
    BY <1>2, <2>1, <2>2 DEF Turns
<1>6. CASE InsertLink(t)
  <2> DEFINE r == [req[t] EXCEPT !.pc = "author",
                                 !.link = [id |-> nextId, url |-> req[t].url, account |-> Nil]]
  <2>1. r.pc = "author" /\ req[t].pc = "link" /\ Serve(t, r)
    BY <1>1, <1>6 DEF InsertLink, Request
  <2> HIDE DEF r
  <2> QED
    BY <2>1 DEF Turns
<1>7. CASE Author(t)
  <2> DEFINE mine == [req[t] EXCEPT !.media = req[t].link.id]
  <2>1. req[t].pc = "author"
    BY <1>7 DEF Author
  <2>2. ASSUME NEW a, Serve(t, [mine EXCEPT !.pc = "account", !.author = a])
        PROVE  \E r : Serve(t, r) /\ <<req[t].pc, r.pc>> \in Turns
    <3>1. [mine EXCEPT !.pc = "account", !.author = a].pc = "account"
      BY <1>1 DEF Request
    <3> QED
      BY <2>1, <2>2, <3>1 DEF Turns
  <2>3. ASSUME NEW id, Serve(t, [mine EXCEPT !.pc = "check", !.link.account = id])
        PROVE  \E r : Serve(t, r) /\ <<req[t].pc, r.pc>> \in Turns
    <3>1. [mine EXCEPT !.pc = "check", !.link.account = id].pc = "check"
      BY <1>1 DEF Request
    <3> QED
      BY <2>1, <2>3, <3>1 DEF Turns
  <2> QED
    BY <1>7, <2>2, <2>3 DEF Author
<1>8. CASE InsertAccount(t)
  <2> DEFINE a == [id |-> nextId, url |-> req[t].author]
  <2>1. /\ req[t].pc = "account"
        /\ Serve(t, Accounted(req[t], a))
        /\ Accounted(req[t], a).pc \in {"check", "store"}
    BY <1>1, <1>8 DEF InsertAccount, Accounted, Request
  <2> QED
    BY <2>1 DEF Turns
<1>9. CASE Check(t)
  <2>1. req[t].pc = "check" /\ [req[t] EXCEPT !.pc = "store"].pc = "store"
    BY <1>1, <1>9 DEF Check, Request
  <2>2. Refuse(t) \/ Serve(t, [req[t] EXCEPT !.pc = "store"])
    BY <1>9 DEF Check, Goes
  <2> QED
    BY <1>2, <2>1, <2>2 DEF Turns
<1>10. CASE LinkTaken(t) \/ AccountTaken(t) \/ NoMedia(t) \/ Store(t) \/ Move(t)
  BY <1>2, <1>10 DEF LinkTaken, AccountTaken, NoMedia, Store, Move
<1> QED
  BY <1>3, <1>4, <1>5, <1>6, <1>7, <1>8, <1>9, <1>10 DEF Progress

\* A request ends after eight steps at most: with NoCircle, what RequestsEnd needs besides
\* a fair scheduler.
THEOREM Forward == Spec => GoesForward
<1>1. ASSUME IInv, [Next]_vars PROVE \A t \in Threads : Further(t)
  <2>1. req \in [Threads -> Request]
    BY <1>1 DEF IInv, TypeOK
  <2>2. ASSUME NEW t \in Threads, NEW r, Serve(t, r),
               req[t] = Idle \/ r = Idle \/ <<req[t].pc, r.pc>> \in Turns
        PROVE  \A s \in Threads : Further(s)
    <3>1. req'[t] = r /\ \A s \in Threads \ {t} : req'[s] = req[s]
      BY <2>1, <2>2 DEF Serve
    <3>2. Further(t)
      BY <2>2, <3>1, TurnsGoForward DEF Further
    <3> QED
      BY <3>1, <3>2 DEF Further
  <2>3. ASSUME NEW t \in Threads, Begins(t) PROVE \A s \in Threads : Further(s)
    BY <2>2, <2>3 DEF Begins, BeginUrl, BeginMedia, BeginMove, BeginAccount, Begin
  <2>4. ASSUME NEW t \in Threads, Progress(t) PROVE \A s \in Threads : Further(s)
    BY <1>1, <2>2, <2>4, ProgressTurns
  <2>5. ASSUME NEW t \in Threads, Raise(t) PROVE \A s \in Threads : Further(s)
    BY <2>2, <2>5 DEF Raise, Refuse
  <2>6. ASSUME UNCHANGED req PROVE \A s \in Threads : Further(s)
    BY <2>6 DEF Further
  <2>7. ASSUME NEW pm \in pms, Destroy(pm) PROVE UNCHANGED req
    BY <2>7 DEF Destroy
  <2> QED
    BY <1>1, <2>3, <2>4, <2>5, <2>6, <2>7 DEF Next, vars
<1>2. IInv /\ [Next]_vars => [\A t \in Threads : Further(t)]_vars
  BY <1>1
<1> QED
  BY <1>2, Inductive, PTL DEF Spec, GoesForward
=============================================================================
