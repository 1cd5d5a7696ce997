----------------------- MODULE MediaCreation_proofs -----------------------
(***************************************************************************)
(* Theorems about MediaCreation, for any projects, URLs, authors, threads  *)
(* and number of requests.                                                 *)
(***************************************************************************)
EXTENDS MediaCreation, TLAPS

USE UrlsAssumption, AuthorsAssumption, BoundAssumption, NilAssumption

\* The account of a link is an account of the author of its URL.
Attributed(l, accs) ==
  l.account # Nil => [id |-> l.account, url |-> AuthorOf[l.url]] \in accs

\* What a request has inserted fits what it has read.
Coherent(r, accs) ==
  /\ r.pc \in {"idle", "normalize", "find", "validate", "link", "move"}
       => r.link = Nil /\ r.account = Nil
  /\ r.pc \in {"normalize", "find", "validate", "link"} => r.project # Nil
  /\ r.pc \in {"author", "account"} => r.account = Nil
  /\ r.pc = "account" => r.link # Nil \/ r.project = Nil
  /\ r.link # Nil => /\ r.project # Nil
                     /\ r.url = r.link.url
                     /\ r.pc # "author" => r.media = r.link.id
                     /\ r.pc \in {"author", "account"} => r.link.account = Nil
                     /\ r.pc = "account" => r.author = AuthorOf[r.url]
                     /\ Attributed(r.link, With(accs, r.account))

\* Nobody but t has the URL, committed or not.
LinkFree(t, u) == /\ Links(u) = {}
                  /\ \A s \in Threads : s # t /\ req[s].link # Nil => req[s].link.url # u

AccountFree(t, a) ==
  /\ Accounts(a) = {}
  /\ \A s \in Threads : s # t /\ req[s].account # Nil => req[s].account.url # a

UrlsInv == /\ \A l, m \in links : l.url = m.url => l = m
           /\ \A a, b \in accounts : a.url = b.url => a = b
           /\ \A l \in links : Attributed(l, accounts)

RequestsInv == \A t \in Threads :
  /\ Coherent(req[t], accounts)
  /\ req[t].link # Nil => LinkFree(t, req[t].link.url)
  /\ req[t].account # Nil => AccountFree(t, req[t].account.url)

IdsInv == \A pm \in pms : pm.id < nextId

\* What a request that is alone has read still holds.
Undisturbed(r) == /\ r.pc = "link" => Links(r.url) = {}
                  /\ r.pc = "account" => Accounts(r.author) = {}
                  /\ r.pc = "store" /\ r.project # Nil => ~InProject(r.project, r.media)

AloneInv ==
  alone => /\ OncePerProject
           /\ \A t \in Threads : Undisturbed(req[t])
           /\ \A s, t \in Threads : s = t \/ req[s] = Idle \/ req[t] = Idle

IInv == TypeOK /\ UrlsInv /\ RequestsInv /\ IdsInv /\ AloneInv

-----------------------------------------------------------------------------
\* The request without a transaction is a request, and fits everything.
LEMMA IdleFacts ==
  /\ Idle \in Request /\ Filled(Idle) /\ Idle.link = Nil /\ Idle.account = Nil
  /\ \A accs : Coherent(Idle, accs)
  /\ Undisturbed(Idle)
  BY DEF Idle, Request, Filled, Coherent, Undisturbed

THEOREM Initially == Init => IInv
<1> SUFFICES ASSUME Init PROVE IInv
  OBVIOUS
<1>1. \A t \in Threads : req[t] = Idle
  BY DEF Init
<1>2. TypeOK
  BY <1>1, IdleFacts DEF Init, TypeOK
<1>3. UrlsInv
  BY DEF Init, UrlsInv
<1>4. RequestsInv
  BY <1>1, IdleFacts DEF RequestsInv
<1>5. IdsInv
  BY DEF Init, IdsInv
<1>6. AloneInv
  BY <1>1, IdleFacts DEF Init, AloneInv, OncePerProject
<1> QED
  BY <1>2, <1>3, <1>4, <1>5, <1>6 DEF IInv

\* A step of one request that commits nothing keeps the invariant, if the request
\* becomes a coherent one and holds no URL that another one has.
LEMMA ServeStep ==
  ASSUME IInv, NEW t \in Threads, NEW r \in Request,
         Serve(t, r), UNCHANGED <<links, accounts, pms>>,
         nextId' \in Nat, nextId' >= nextId, begun' \in Nat, alone' \in BOOLEAN,
         alone' => alone /\ (\A s \in Threads \ {t} : req[s] = Idle) /\ Undisturbed(r),
         Filled(r), Coherent(r, accounts),
         r.link # Nil => LinkFree(t, r.link.url),
         r.account # Nil => AccountFree(t, r.account.url)
  PROVE  IInv'
<1> USE DEF IInv
<1>1. /\ req' \in [Threads -> Request]
      /\ req'[t] = r
      /\ \A s \in Threads \ {t} : req'[s] = req[s]
  BY DEF Serve, TypeOK
<1>2. TypeOK'
  BY <1>1 DEF TypeOK
<1>3. UrlsInv'
  BY DEF UrlsInv, Attributed
<1>4. RequestsInv'
  <2> SUFFICES ASSUME NEW s \in Threads
               PROVE  /\ Coherent(req[s], accounts)'
                      /\ (req[s].link # Nil => LinkFree(s, req[s].link.url))'
                      /\ (req[s].account # Nil => AccountFree(s, req[s].account.url))'
    BY DEF RequestsInv
  <2>1. CASE s = t
    <3>1. Coherent(req[s], accounts)'
      BY <1>1, <2>1 DEF Coherent, Attributed, With
    <3>2. (req[s].link # Nil => LinkFree(s, req[s].link.url))'
      BY <1>1, <2>1 DEF LinkFree, Links
    <3>3. (req[s].account # Nil => AccountFree(s, req[s].account.url))'
      BY <1>1, <2>1 DEF AccountFree, Accounts
    <3> QED
      BY <3>1, <3>2, <3>3
  <2>2. CASE s # t
    <3>1. Coherent(req[s], accounts)'
      <4>1. Coherent(req[s], accounts)
        BY DEF RequestsInv
      <4>2. req'[s] = req[s] /\ accounts' = accounts
        BY <1>1, <2>2
      <4> HIDE DEF IInv
      <4> QED
        BY <4>1, <4>2 DEF Coherent, Attributed, With
    <3>2. (req[s].link # Nil => LinkFree(s, req[s].link.url))'
      <4> SUFFICES ASSUME req[s].link # Nil
                   PROVE  LinkFree(s, req[s].link.url)'
        BY <1>1, <2>2
      <4>1. LinkFree(s, req[s].link.url)
        BY DEF RequestsInv
      <4>2. r.link # Nil => r.link.url # req[s].link.url
        BY <2>2 DEF LinkFree
      <4> QED
        BY <1>1, <2>2, <4>1, <4>2 DEF LinkFree, Links
    <3>3. (req[s].account # Nil => AccountFree(s, req[s].account.url))'
      <4> SUFFICES ASSUME req[s].account # Nil
                   PROVE  AccountFree(s, req[s].account.url)'
        BY <1>1, <2>2
      <4>1. AccountFree(s, req[s].account.url)
        BY DEF RequestsInv
      <4>2. r.account # Nil => r.account.url # req[s].account.url
        BY <2>2 DEF AccountFree
      <4> QED
        BY <1>1, <2>2, <4>1, <4>2 DEF AccountFree, Accounts
    <3> QED
      BY <3>1, <3>2, <3>3
  <2> QED
    BY <2>1, <2>2
<1>5. IdsInv'
  BY DEF IdsInv, TypeOK, ProjectMedia
<1>6. AloneInv'
  <2> SUFFICES ASSUME alone' PROVE AloneInv'
    BY DEF AloneInv
  <2>1. OncePerProject'
    BY DEF AloneInv, OncePerProject
  <2>2. \A s \in Threads : Undisturbed(req[s])' <=> Undisturbed(req'[s])
    BY DEF Undisturbed, Links, Accounts, InProject
  <2>3. \A s \in Threads : Undisturbed(req'[s])
    BY <1>1 DEF AloneInv
  <2>4. \A s, u \in Threads : s = u \/ req'[s] = Idle \/ req'[u] = Idle
    BY <1>1
  <2> QED
    BY <2>1, <2>2, <2>3, <2>4 DEF AloneInv
<1> QED
  BY <1>2, <1>3, <1>4, <1>5, <1>6

\* While no two requests overlap, the others are idle.
LEMMA OthersIdle ==
  ASSUME IInv, alone, NEW t \in Threads, req[t] # Idle
  PROVE  \A s \in Threads \ {t} : req[s] = Idle
  BY DEF IInv, AloneInv

LEMMA NotIdle ==
  ASSUME NEW t \in Threads, req[t].pc # "idle"
  PROVE  req[t] # Idle
  BY DEF Idle

\* A request that is refused leaves nothing.
LEMMA RefuseStep ==
  ASSUME IInv, NEW t \in Threads, req[t].pc # "idle", Refuse(t)
  PROVE  IInv'
<1>1. alone => \A s \in Threads \ {t} : req[s] = Idle
  BY NotIdle, OthersIdle
<1> QED
  BY <1>1, IdleFacts, ServeStep DEF Refuse, IInv, TypeOK

\* What the invariant says of one request.
LEMMA RequestFacts ==
  ASSUME IInv, NEW t \in Threads
  PROVE  /\ req[t] \in Request /\ Filled(req[t]) /\ Coherent(req[t], accounts)
         /\ req[t].link # Nil => LinkFree(t, req[t].link.url)
         /\ req[t].account # Nil => AccountFree(t, req[t].account.url)
         /\ alone => Undisturbed(req[t])
         /\ links \subseteq Link /\ accounts \subseteq Account /\ pms \subseteq ProjectMedia
         /\ nextId \in Nat /\ begun \in Nat /\ alone \in BOOLEAN
<1>1. /\ req[t] \in Request /\ Filled(req[t])
      /\ links \subseteq Link /\ accounts \subseteq Account /\ pms \subseteq ProjectMedia
      /\ nextId \in Nat /\ begun \in Nat /\ alone \in BOOLEAN
  BY DEF IInv, TypeOK
<1>2. /\ Coherent(req[t], accounts)
      /\ req[t].link # Nil => LinkFree(t, req[t].link.url)
      /\ req[t].account # Nil => AccountFree(t, req[t].account.url)
  BY DEF IInv, RequestsInv
<1>3. alone => Undisturbed(req[t])
  BY DEF IInv, AloneInv
<1> QED
  BY <1>1, <1>2, <1>3

\* ServeStep for a request that goes on and has inserted nothing more.
LEMMA ReadStep ==
  ASSUME IInv, NEW t \in Threads, NEW r \in Request, req[t].pc # "idle",
         Serve(t, r), UNCHANGED <<links, accounts, pms, nextId, begun, alone>>,
         alone => Undisturbed(r), Filled(r), Coherent(r, accounts),
         r.link = Nil \/ (req[t].link # Nil /\ r.link.url = req[t].link.url),
         r.account = req[t].account
  PROVE  IInv'
<1>1. alone => \A s \in Threads \ {t} : req[s] = Idle
  BY NotIdle, OthersIdle
<1> QED
  BY <1>1, RequestFacts, ServeStep

\* A request that begins has read and inserted nothing.
LEMMA BeginStep ==
  ASSUME IInv, NEW t \in Threads, NEW r \in Request, Begin(t, r),
         Undisturbed(r), Filled(r), Coherent(r, accounts), r.link = Nil, r.account = Nil
  PROVE  IInv'
<1>1. begun' \in Nat /\ alone' \in BOOLEAN /\ nextId' = nextId /\ nextId \in Nat
  BY RequestFacts DEF Begin
<1>2. alone' => alone /\ \A s \in Threads \ {t} : req[s] = Idle
  BY DEF Begin
<1> QED
  BY <1>1, <1>2, ServeStep DEF Begin

\* The ids a request may name are numbers.
LEMMA NamedIds == ASSUME IInv PROVE LinkIds \cup Strays \subseteq Nat
<1>1. links \subseteq Link
  BY DEF IInv, TypeOK
<1> QED
  BY <1>1, StraysAssumption DEF LinkIds, Link

LEMMA BeginsStep ==
  ASSUME IInv, NEW t \in Threads, Begins(t)
  PROVE  IInv'
<1> USE DEF Idle, Request, Filled, Coherent, Undisturbed
<1>1. ASSUME NEW p \in Projects, NEW s \in Spellings, BeginUrl(t, p, s)
      PROVE  IInv'
  BY <1>1, BeginStep DEF BeginUrl
<1>2. ASSUME NEW p \in Projects, NEW media \in LinkIds \cup Strays, BeginMedia(t, p, media)
      PROVE  IInv'
  <2>1. media \in Nat
    BY NamedIds
  <2> QED
    BY <1>2, <2>1, BeginStep DEF BeginMedia
<1>3. ASSUME NEW a \in Authors, BeginAccount(t, a)
      PROVE  IInv'
  BY <1>3, BeginStep DEF BeginAccount
<1>4. ASSUME NEW p \in Projects, NEW pm \in pms,
             NEW media \in LinkIds \cup Strays, BeginMove(t, pm, p, media)
      PROVE  IInv'
  <2>1. pm \in ProjectMedia /\ media \in Nat
    BY NamedIds, RequestFacts DEF ProjectMedia
  <2> QED
    BY <1>4, <2>1, BeginStep DEF BeginMove
<1> QED
  BY <1>1, <1>2, <1>3, <1>4 DEF Begins

-----------------------------------------------------------------------------
\* The steps that read.
LEMMA LookupStep ==
  ASSUME IInv, NEW t \in Threads, Normalize(t) \/ Find(t) \/ Validate(t)
  PROVE  IInv'
<1>1. /\ req[t] \in Request /\ Filled(req[t]) /\ Coherent(req[t], accounts)
      /\ links \subseteq Link
  BY RequestFacts
<1>2. CASE Normalize(t)
  <2>1. PICK u \in {Normal[req[t].url], req[t].url} :
          Serve(t, [req[t] EXCEPT !.pc = "find", !.url = u])
    BY <1>2 DEF Normalize
  <2>2. u \in Spellings
    BY <1>1, <1>2 DEF Normalize, Request, Filled
  <2>3. [req[t] EXCEPT !.pc = "find", !.url = u] \in Request
    BY <1>1, <2>2 DEF Request
  <2> QED
    BY <1>1, <1>2, <2>1, <2>2, <2>3, ReadStep
       DEF Normalize, Request, Filled, Coherent, Undisturbed
<1>3. CASE Find(t) /\ Goes(t, "validate")
  <2>1. [req[t] EXCEPT !.pc = "validate"] \in Request
    BY <1>1 DEF Request
  <2> QED
    BY <1>1, <1>3, <2>1, ReadStep DEF Find, Goes, Request, Filled, Coherent, Undisturbed
<1>4. CASE Find(t) /\ \E l \in Links(req[t].url) :
             Serve(t, [req[t] EXCEPT !.pc = "check", !.media = l.id])
  <2>1. PICK l \in links : Serve(t, [req[t] EXCEPT !.pc = "check", !.media = l.id])
    BY <1>4 DEF Links
  <2>2. l.id \in Nat
    BY <1>1 DEF Link
  <2>3. [req[t] EXCEPT !.pc = "check", !.media = l.id] \in Request
    BY <1>1, <2>2 DEF Request
  <2> QED
    BY <1>1, <1>4, <2>1, <2>2, <2>3, ReadStep
       DEF Find, Request, Filled, Coherent, Undisturbed
<1>5. CASE Validate(t) /\ Refuse(t)
  BY <1>5, RefuseStep DEF Validate
<1>6. CASE Validate(t) /\ ~Refuse(t)
  <2> DEFINE r == [req[t] EXCEPT !.pc = "link", !.url = Normal[@]]
  <2>1. /\ Links(Normal[req[t].url]) = {} /\ Serve(t, r)
        /\ UNCHANGED <<links, accounts, pms, nextId, begun, alone>>
    BY <1>6 DEF Validate
  <2>2. Normal[req[t].url] \in Urls
    BY <1>1, <1>6 DEF Validate, Request, Filled
  <2>3. r \in Request /\ r.url = Normal[req[t].url]
    BY <1>1, <2>2 DEF Request
  <2> QED
    BY <1>1, <1>6, <2>1, <2>2, <2>3, ReadStep
       DEF Validate, Request, Filled, Coherent, Undisturbed
<1> QED
  BY <1>2, <1>3, <1>4, <1>5, <1>6 DEF Find

LEMMA AuthorStep ==
  ASSUME IInv, NEW t \in Threads, Author(t)
  PROVE  IInv'
<1> DEFINE a == AuthorOf[req[t].url]
           mine == [req[t] EXCEPT !.media = req[t].link.id]
<1>1. /\ req[t] \in Request /\ Filled(req[t]) /\ Coherent(req[t], accounts)
      /\ req[t].pc = "author" /\ accounts \subseteq Account
      /\ UNCHANGED <<links, accounts, pms, nextId, begun, alone>>
  BY RequestFacts DEF Author
<1>2. /\ req[t].link # Nil /\ req[t].link \in Link /\ req[t].url = req[t].link.url
      /\ req[t].account = Nil /\ req[t].project # Nil /\ a \in Authors
  BY <1>1 DEF Filled, Coherent, Request
<1>3. mine \in Request /\ mine.media = req[t].link.id /\ mine.link = req[t].link
  BY <1>1, <1>2 DEF Request, Link
<1>4. CASE Accounts(a) = {} /\ Serve(t, [mine EXCEPT !.pc = "account", !.author = a])
  <2> DEFINE r == [mine EXCEPT !.pc = "account", !.author = a]
  <2>1. /\ r \in Request /\ r.pc = "account" /\ r.author = a /\ r.media = r.link.id
        /\ r.link = req[t].link /\ r.account = Nil /\ r.url = req[t].url
        /\ r.project = req[t].project
    <3>1. req[t].link.id \in Nat
      BY <1>2 DEF Link
    <3>2. r = [req[t] EXCEPT !.media = req[t].link.id, !.pc = "account", !.author = a]
      OBVIOUS
    <3> HIDE DEF r, a, mine
    <3> QED
      BY <1>1, <1>2, <3>1, <3>2 DEF Request
  <2>2. Filled(r) /\ Coherent(r, accounts) /\ Undisturbed(r)
    BY <1>1, <1>2, <1>4, <2>1 DEF Filled, Coherent, Undisturbed, Attributed
  <2> HIDE DEF r
  <2>3. Serve(t, r)
    BY <1>4 DEF r
  <2> QED
    BY <1>1, <1>2, <2>1, <2>2, <2>3, ReadStep
<1>5. CASE \E id \in {b.id : b \in Accounts(a)} \cup {Nil} :
             Serve(t, [mine EXCEPT !.pc = "check", !.link.account = id])
  <2>1. PICK id \in {b.id : b \in Accounts(a)} \cup {Nil} :
          Serve(t, [mine EXCEPT !.pc = "check", !.link.account = id])
    BY <1>5
  <2> DEFINE r == [mine EXCEPT !.pc = "check", !.link.account = id]
  <2>2. id # Nil => [id |-> id, url |-> a] \in accounts
    <3> SUFFICES ASSUME id # Nil PROVE [id |-> id, url |-> a] \in accounts
      OBVIOUS
    <3>1. PICK b \in accounts : b.url = a /\ b.id = id
      BY <2>1 DEF Accounts
    <3>2. b = [id |-> id, url |-> a]
      BY <1>1, <3>1 DEF Account
    <3> QED
      BY <3>1, <3>2
  <2>3. id \in Nat \cup {Nil}
    BY <1>1 DEF Accounts, Account
  <2>4. r.link = [req[t].link EXCEPT !.account = id]
    BY <1>3 DEF Request
  <2>5. r.link \in Link /\ r.link.account = id /\ r.link.url = req[t].url
        /\ r.link.id = req[t].link.id
    BY <1>2, <2>3, <2>4 DEF Link
  <2>6. /\ r \in Request /\ r.pc = "check" /\ r.media = r.link.id /\ r.account = Nil
        /\ r.url = req[t].url /\ r.project = req[t].project /\ r.media \in Nat
    <3>1. r = [req[t] EXCEPT !.pc = "check", !.media = req[t].link.id, !.link = r.link]
      BY <1>1, <2>4 DEF Request
    <3>2. req[t].link.id \in Nat
      BY <1>2 DEF Link
    <3> HIDE DEF r
    <3> QED
      BY <1>1, <1>2, <2>5, <3>1, <3>2 DEF Request
  <2>7. Filled(r) /\ Coherent(r, accounts) /\ Undisturbed(r)
    BY <1>1, <1>2, <2>2, <2>5, <2>6 DEF Filled, Coherent, Undisturbed, Attributed, With
  <2> HIDE DEF r
  <2>8. Serve(t, r)
    BY <2>1 DEF r
  <2> QED
    BY <1>1, <1>2, <2>5, <2>6, <2>7, <2>8, ReadStep
<1> QED
  BY <1>4, <1>5 DEF Author

LEMMA CheckStep ==
  ASSUME IInv, NEW t \in Threads, Check(t)
  PROVE  IInv'
<1>1. /\ req[t] \in Request /\ Filled(req[t]) /\ Coherent(req[t], accounts)
  BY RequestFacts
<1>2. CASE Refuse(t)
  BY <1>2, RefuseStep DEF Check
<1>3. CASE ~Refuse(t)
  <2> DEFINE r == [req[t] EXCEPT !.pc = "store"]
  <2>1. /\ Serve(t, r) /\ ~InProject(req[t].project, req[t].media)
        /\ UNCHANGED <<links, accounts, pms, nextId, begun, alone>>
    BY <1>3 DEF Check, Goes
  <2>2. r \in Request
    BY <1>1 DEF Request
  <2>3. Filled(r) /\ Undisturbed(r)
    BY <1>1, <1>3, <2>1 DEF Check, Filled, Undisturbed, Request
  <2>4. Coherent(r, accounts)
    BY <1>1, <1>3 DEF Check, Coherent, Request
  <2>5. r.link = req[t].link /\ r.account = req[t].account /\ req[t].pc = "check"
    BY <1>1, <1>3 DEF Check, Request
  <2> HIDE DEF r
  <2> QED
    BY <2>1, <2>2, <2>3, <2>4, <2>5, ReadStep
<1> QED
  BY <1>2, <1>3

-----------------------------------------------------------------------------
\* The steps that insert a row which has a unique index.
LEMMA InsertLinkStep ==
  ASSUME IInv, NEW t \in Threads, InsertLink(t)
  PROVE  IInv'
<1> DEFINE l == [id |-> nextId, url |-> req[t].url, account |-> Nil]
           r == [req[t] EXCEPT !.pc = "author", !.link = l]
<1>1. /\ req[t] \in Request /\ Filled(req[t]) /\ Coherent(req[t], accounts)
      /\ req[t].pc = "link" /\ nextId \in Nat /\ begun \in Nat /\ alone \in BOOLEAN
      /\ Serve(t, r) /\ nextId' = nextId + 1
      /\ UNCHANGED <<links, accounts, pms, begun, alone>>
  BY RequestFacts DEF InsertLink
<1>2. l \in Link /\ l # Nil
  BY <1>1 DEF Link, Filled
<1>3. LinkFree(t, l.url)
  BY <1>1 DEF InsertLink, LinkHeld, LinkFree
<1>4. /\ r \in Request /\ r.pc = "author" /\ r.link = l /\ r.account = Nil
      /\ r.url = l.url /\ r.project # Nil /\ r.url \in Urls
  BY <1>1, <1>2 DEF Request, Filled, Coherent
<1>5. Filled(r) /\ Coherent(r, accounts) /\ Undisturbed(r)
  BY <1>2, <1>4 DEF Filled, Coherent, Undisturbed, Attributed
<1>6. alone => \A s \in Threads \ {t} : req[s] = Idle
  BY <1>1, NotIdle, OthersIdle
<1> HIDE DEF r, l
<1> QED
  BY <1>1, <1>3, <1>4, <1>5, <1>6, ServeStep

LEMMA InsertAccountStep ==
  ASSUME IInv, NEW t \in Threads, InsertAccount(t)
  PROVE  IInv'
<1> DEFINE a == [id |-> nextId, url |-> req[t].author]
           r == Accounted(req[t], a)
<1>1. /\ req[t] \in Request /\ Filled(req[t]) /\ Coherent(req[t], accounts)
      /\ req[t].link # Nil => LinkFree(t, req[t].link.url)
      /\ req[t].pc = "account" /\ nextId \in Nat /\ begun \in Nat /\ alone \in BOOLEAN
      /\ Serve(t, r) /\ nextId' = nextId + 1
      /\ UNCHANGED <<links, accounts, pms, begun, alone>>
  BY RequestFacts DEF InsertAccount
<1>2. a \in Account /\ a # Nil /\ a.id \in Nat
  BY <1>1 DEF Account, Filled, Request
<1>3. AccountFree(t, a.url)
  BY <1>1 DEF InsertAccount, AccountHeld, AccountFree
<1>4. ASSUME req[t].link = Nil
      PROVE  /\ r \in Request /\ Filled(r) /\ Coherent(r, accounts) /\ Undisturbed(r)
             /\ r.account = a
             /\ r.link # Nil => LinkFree(t, r.link.url)
  <2>1. r = [req[t] EXCEPT !.pc = "store", !.account = a]
    BY <1>4 DEF Accounted
  <2>2. /\ r \in Request /\ r.pc = "store" /\ r.account = a /\ r.link = Nil /\ r.project = Nil
    BY <1>1, <1>2, <1>4, <2>1 DEF Request, Coherent
  <2>3. Filled(r) /\ Coherent(r, accounts) /\ Undisturbed(r)
    BY <2>2 DEF Filled, Coherent, Undisturbed
  <2> QED
    BY <1>2, <2>2, <2>3
<1>5. ASSUME req[t].link # Nil
      PROVE  /\ r \in Request /\ Filled(r) /\ Coherent(r, accounts) /\ Undisturbed(r)
             /\ r.account = a
             /\ r.link # Nil => LinkFree(t, r.link.url)
  <2> DEFINE l == [req[t].link EXCEPT !.account = a.id]
  <2>1. r = [req[t] EXCEPT !.pc = "check", !.account = a, !.link.account = a.id]
    BY <1>5 DEF Accounted
  <2>2. l \in Link /\ l.id = req[t].link.id /\ l.url = req[t].link.url /\ l.account = a.id
    BY <1>1, <1>2, <1>5 DEF Request, Link
  <2>3. r = [req[t] EXCEPT !.pc = "check", !.account = a, !.link = l]
    BY <1>1, <2>1 DEF Request
  <2> HIDE DEF l, r
  <2>4. /\ r \in Request /\ r.pc = "check" /\ r.account = a /\ r.link = l
        /\ r.media = req[t].media /\ r.url = req[t].url /\ r.project = req[t].project
    BY <1>1, <1>2, <2>2, <2>3 DEF Request
  <2>5. a = [id |-> l.account, url |-> AuthorOf[l.url]]
    BY <1>1, <1>5, <2>2 DEF Coherent
  <2>6. /\ r.project # Nil /\ r.media = l.id /\ l.id \in Nat /\ r.url = l.url
    BY <1>1, <1>5, <2>2, <2>4 DEF Coherent, Link
  <2>7. Filled(r) /\ Coherent(r, accounts) /\ Undisturbed(r)
    BY <1>2, <2>4, <2>5, <2>6 DEF Filled, Coherent, Undisturbed, Attributed, With
  <2> QED
    BY <1>1, <1>2, <1>5, <2>2, <2>4, <2>7
<1>6. alone => \A s \in Threads \ {t} : req[s] = Idle
  BY <1>1, NotIdle, OthersIdle
<1> HIDE DEF r, a
<1>7. /\ r \in Request /\ Filled(r) /\ Coherent(r, accounts) /\ Undisturbed(r)
      /\ r.account = a
      /\ r.link # Nil => LinkFree(t, r.link.url)
  BY <1>1, <1>4, <1>5
<1> QED
  BY <1>1, <1>3, <1>6, <1>7, ServeStep

-----------------------------------------------------------------------------
\* The steps that change the tables.
LEMMA StoreStep ==
  ASSUME IInv, NEW t \in Threads, Store(t)
  PROVE  IInv'
<1> DEFINE r == req[t]
           new == [id |-> nextId, project |-> r.project, media |-> r.media]
<1>1. /\ r \in Request /\ Filled(r) /\ Coherent(r, accounts) /\ r.pc = "store"
      /\ r.link # Nil => LinkFree(t, r.link.url)
      /\ r.account # Nil => AccountFree(t, r.account.url)
      /\ links \subseteq Link /\ accounts \subseteq Account /\ pms \subseteq ProjectMedia
      /\ nextId \in Nat
  BY RequestFacts DEF Store
<1>2. /\ links' = With(links, r.link) /\ accounts' = With(accounts, r.account)
      /\ Serve(t, Idle) /\ begun' = begun /\ alone' = alone
  BY DEF Store
<1>3. \/ r.project = Nil /\ pms' = pms /\ nextId' = nextId
      \/ r.project # Nil /\ pms' = pms \cup {new} /\ nextId' = nextId + 1
  BY DEF Store
<1>4. r.project # Nil => new \in ProjectMedia
  BY <1>1 DEF ProjectMedia, Filled, Request
<1>5. req' \in [Threads -> Request] /\ req'[t] = Idle
      /\ \A s \in Threads \ {t} : req'[s] = req[s]
  BY <1>2, IdleFacts DEF Serve, IInv, TypeOK
<1>6. (r.link = Nil \/ r.link \in Link) /\ (r.account = Nil \/ r.account \in Account)
  BY <1>1 DEF Request
<1>7. TypeOK'
  <2>1. links' \subseteq Link /\ accounts' \subseteq Account
    BY <1>1, <1>2, <1>6 DEF With
  <2>2. pms' \subseteq ProjectMedia /\ nextId' \in Nat
    BY <1>1, <1>3, <1>4
  <2>3. \A s \in Threads : Filled(req'[s])
    BY <1>5, IdleFacts DEF IInv, TypeOK
  <2> QED
    BY <1>2, <1>5, <2>1, <2>2, <2>3 DEF IInv, TypeOK
<1>8. UrlsInv'
  <2>1. \A l, m \in links' : l.url = m.url => l = m
    BY <1>1, <1>2 DEF IInv, UrlsInv, LinkFree, Links, With
  <2>2. \A a, b \in accounts' : a.url = b.url => a = b
    BY <1>1, <1>2 DEF IInv, UrlsInv, AccountFree, Accounts, With
  <2>3. \A l \in links' : Attributed(l, accounts')
    BY <1>1, <1>2 DEF IInv, UrlsInv, Coherent, Attributed, With
  <2> QED
    BY <2>1, <2>2, <2>3 DEF UrlsInv, Attributed
<1>9. RequestsInv'
  <2> SUFFICES ASSUME NEW s \in Threads
               PROVE  /\ Coherent(req[s], accounts)'
                      /\ (req[s].link # Nil => LinkFree(s, req[s].link.url))'
                      /\ (req[s].account # Nil => AccountFree(s, req[s].account.url))'
    BY DEF RequestsInv
  <2>1. CASE s = t
    BY <1>5, <2>1 DEF Coherent, Idle
  <2>2. CASE s # t
    <3>1. /\ Coherent(req[s], accounts) /\ req'[s] = req[s]
          /\ req[s].link # Nil => LinkFree(s, req[s].link.url)
          /\ req[s].account # Nil => AccountFree(s, req[s].account.url)
      BY <1>5, <2>2, RequestFacts
    <3>2. accounts \subseteq accounts' /\ With(accounts, req[s].account)
            \subseteq With(accounts', req[s].account)
      BY <1>2 DEF With
    <3>3. Coherent(req[s], accounts)'
      BY <3>1, <3>2 DEF Coherent, Attributed, With
    <3>4. (req[s].link # Nil => LinkFree(s, req[s].link.url))'
      BY <1>1, <1>2, <1>5, <2>2, <3>1, IdleFacts DEF LinkFree, Links, With
    <3>5. (req[s].account # Nil => AccountFree(s, req[s].account.url))'
      BY <1>1, <1>2, <1>5, <2>2, <3>1, IdleFacts DEF AccountFree, Accounts, With
    <3> QED
      BY <3>3, <3>4, <3>5
  <2> QED
    BY <2>1, <2>2
<1>10. IdsInv'
  BY <1>1, <1>3 DEF IInv, IdsInv, ProjectMedia
<1>11. AloneInv'
  <2> SUFFICES ASSUME alone PROVE AloneInv'
    BY <1>2 DEF AloneInv
  <2>1. \A s \in Threads : req'[s] = Idle
    BY <1>1, <1>5, NotIdle, OthersIdle
  <2>2. OncePerProject'
    BY <1>1, <1>3, RequestFacts DEF IInv, AloneInv, OncePerProject, Undisturbed, InProject
  <2>3. \A s \in Threads : Undisturbed(req[s])'
    BY <2>1 DEF Undisturbed, Idle
  <2> QED
    BY <2>1, <2>2, <2>3 DEF AloneInv
<1> QED
  BY <1>7, <1>8, <1>9, <1>10, <1>11 DEF IInv

\* Changes of the project media alone, by a request that ends or by none.
LEMMA ProjectMediaStep ==
  ASSUME IInv, pms' \subseteq ProjectMedia, \A pm \in pms' : pm.id < nextId,
         UNCHANGED <<links, accounts, nextId, begun>>, alone' \in BOOLEAN,
         req' = req \/ \E t \in Threads : Serve(t, Idle),
         alone' => alone /\ pms' \subseteq pms
  PROVE  IInv'
<1>1. req' \in [Threads -> Request] /\ \A s \in Threads : req'[s] \in {req[s], Idle}
  BY IdleFacts DEF Serve, IInv, TypeOK
<1>2. TypeOK'
  <2>1. \A s \in Threads : Filled(req'[s])
    BY <1>1, IdleFacts DEF IInv, TypeOK
  <2> QED
    BY <1>1, <2>1 DEF IInv, TypeOK
<1>3. UrlsInv'
  BY DEF IInv, UrlsInv, Attributed
<1>4. RequestsInv'
  <2> SUFFICES ASSUME NEW s \in Threads
               PROVE  /\ Coherent(req[s], accounts)'
                      /\ (req[s].link # Nil => LinkFree(s, req[s].link.url))'
                      /\ (req[s].account # Nil => AccountFree(s, req[s].account.url))'
    BY DEF RequestsInv
  <2>1. /\ Coherent(req[s], accounts)
        /\ req[s].link # Nil => LinkFree(s, req[s].link.url)
        /\ req[s].account # Nil => AccountFree(s, req[s].account.url)
    BY RequestFacts
  <2>2. Coherent(req[s], accounts)'
    BY <1>1, <2>1, IdleFacts DEF Coherent, Attributed, With
  <2>3. (req[s].link # Nil => LinkFree(s, req[s].link.url))'
    BY <1>1, <2>1, IdleFacts DEF LinkFree, Links
  <2>4. (req[s].account # Nil => AccountFree(s, req[s].account.url))'
    BY <1>1, <2>1, IdleFacts DEF AccountFree, Accounts
  <2> QED
    BY <2>2, <2>3, <2>4
<1>5. IdsInv'
  BY DEF IdsInv
<1>6. AloneInv'
  <2> SUFFICES ASSUME alone' PROVE AloneInv'
    BY DEF AloneInv
  <2>1. OncePerProject' /\ \A s, u \in Threads : s = u \/ req'[s] = Idle \/ req'[u] = Idle
    BY <1>1 DEF IInv, AloneInv, OncePerProject
  <2>2. ASSUME NEW s \in Threads PROVE Undisturbed(req[s])'
    <3>1. Undisturbed(req'[s])
      BY <1>1, IdleFacts DEF IInv, AloneInv
    <3> QED
      BY <3>1 DEF Undisturbed, Links, Accounts, InProject
  <2> QED
    BY <2>1, <2>2 DEF AloneInv
<1> QED
  BY <1>2, <1>3, <1>4, <1>5, <1>6 DEF IInv

LEMMA MoveStep ==
  ASSUME IInv, NEW t \in Threads, Move(t)
  PROVE  IInv'
<1> DEFINE r == req[t]
<1>1. /\ r \in Request /\ Filled(r) /\ r.pc = "move" /\ alone \in BOOLEAN
      /\ pms \subseteq ProjectMedia
  BY RequestFacts DEF Move
<1>2. \A pm \in pms : Moved(r, pm) \in ProjectMedia /\ Moved(r, pm).id = pm.id
  BY <1>1 DEF Moved, Column, ProjectMedia, Request, Filled
<1>3. \A q \in pms' : \E pm \in pms : q = Moved(r, pm) \/ q = pm
  BY DEF Move
<1>4. \A q \in pms' : q \in ProjectMedia /\ q.id < nextId
  BY <1>1, <1>2, <1>3 DEF IInv, IdsInv
<1>5. alone' \in BOOLEAN /\ (alone' => alone /\ pms' = pms)
  BY <1>1 DEF Move
<1> QED
  BY <1>4, <1>5, ProjectMediaStep DEF Move

LEMMA DestroyStep ==
  ASSUME IInv, NEW pm \in pms, Destroy(pm)
  PROVE  IInv'
<1>1. pms' \subseteq pms /\ pms \subseteq ProjectMedia /\ alone \in BOOLEAN
  BY DEF Destroy, IInv, TypeOK
<1> QED
  BY <1>1, ProjectMediaStep DEF Destroy, IInv, IdsInv

THEOREM Invariance == IInv /\ [Next]_vars => IInv'
<1> SUFFICES ASSUME IInv, [Next]_vars PROVE IInv'
  OBVIOUS
<1>1. CASE UNCHANGED vars
  BY <1>1 DEF vars, IInv, TypeOK, UrlsInv, RequestsInv, IdsInv, AloneInv, LinkFree,
              AccountFree, Links, Accounts, OncePerProject, Undisturbed, InProject,
              Coherent, Attributed, With, Filled
<1>2. ASSUME NEW t \in Threads, Begins(t) PROVE IInv'
  BY <1>2, BeginsStep
<1>3. ASSUME NEW t \in Threads, Progress(t) PROVE IInv'
  <2>1. CASE Normalize(t) \/ Find(t) \/ Validate(t)
    BY <2>1, LookupStep
  <2>2. CASE InsertLink(t)
    BY <2>2, InsertLinkStep
  <2>3. CASE LinkTaken(t) \/ AccountTaken(t) \/ NoMedia(t)
    BY <2>3, RefuseStep DEF LinkTaken, AccountTaken, NoMedia
  <2>4. CASE Author(t)
    BY <2>4, AuthorStep
  <2>5. CASE InsertAccount(t)
    BY <2>5, InsertAccountStep
  <2>6. CASE Check(t)
    BY <2>6, CheckStep
  <2>7. CASE Store(t)
    BY <2>7, StoreStep
  <2>8. CASE Move(t)
    BY <2>8, MoveStep
  <2> QED
    BY <1>3, <2>1, <2>2, <2>3, <2>4, <2>5, <2>6, <2>7, <2>8 DEF Progress
<1>4. ASSUME NEW t \in Threads, Raise(t) PROVE IInv'
  BY <1>4, RefuseStep DEF Raise
<1>5. ASSUME NEW pm \in pms, Destroy(pm) PROVE IInv'
  BY <1>5, DestroyStep
<1> QED
  BY <1>1, <1>2, <1>3, <1>4, <1>5 DEF Next

-----------------------------------------------------------------------------
\* A step that adds a link adds a project media of it.
LEMMA LinkStep ==
  ASSUME IInv, [Next]_vars, NEW l \in links' \ links
  PROVE  \E pm \in pms' \ pms : pm.media = l.id
<1>1. PICK t \in Threads : Store(t)
  BY DEF Next, vars, Begins, BeginUrl, BeginMedia, BeginAccount, BeginMove, Begin, Progress,
         Normalize, Find, Validate, InsertLink, LinkTaken, Author, InsertAccount,
         AccountTaken, Check, NoMedia, Move, Raise, Refuse, Destroy
<1>2. req[t].link # Nil /\ l = req[t].link
  BY <1>1 DEF Store, With
<1>3. Coherent(req[t], accounts) /\ req[t].pc = "store"
  BY <1>1, RequestFacts DEF Store
<1>4. req[t].project # Nil /\ req[t].media = l.id
  BY <1>2, <1>3 DEF Coherent
<1> DEFINE new == [id |-> nextId, project |-> req[t].project, media |-> req[t].media]
<1>5. new \in pms' /\ new.media = l.id
  BY <1>1, <1>4 DEF Store
<1>6. new \notin pms
  BY RequestFacts DEF IInv, IdsInv
<1> QED
  BY <1>5, <1>6

\* IInv holds in every reachable state.
THEOREM Inductive == Spec => []IInv
  BY Initially, Invariance, PTL DEF Spec

\* The tables and the requests are well typed (db/schema.rb), whatever overlaps.
THEOREM TypeCorrect == Spec => []TypeOK
<1>1. IInv => TypeOK
  BY DEF IInv
<1> QED
  BY <1>1, Inductive, PTL

\* However requests overlap, a URL has one link and the links of an author share its
\* account (the unique indexes, and Link#set_account).
THEOREM Uniqueness == Spec => []LinksAndAuthorsUnique
<1>1. IInv => LinksAndAuthorsUnique
  <2> SUFFICES ASSUME IInv, NEW l \in links, NEW m \in links
               PROVE  /\ l.url = m.url => l = m
                      /\ l.account # Nil
                           => [id |-> l.account, url |-> AuthorOf[l.url]] \in accounts
                      /\ AuthorOf[l.url] = AuthorOf[m.url] /\ Nil \notin {l.account, m.account}
                           => l.account = m.account
    BY DEF LinksAndAuthorsUnique
  <2>1. (l.url = m.url => l = m) /\ Attributed(l, accounts) /\ Attributed(m, accounts)
    BY DEF IInv, UrlsInv
  <2>2. \A a, b \in accounts : a.url = b.url => a = b
    BY DEF IInv, UrlsInv
  <2>3. ASSUME AuthorOf[l.url] = AuthorOf[m.url], l.account # Nil, m.account # Nil
        PROVE  l.account = m.account
    <3> DEFINE a == [id |-> l.account, url |-> AuthorOf[l.url]]
               b == [id |-> m.account, url |-> AuthorOf[m.url]]
    <3>1. a \in accounts /\ b \in accounts /\ a.url = b.url
      BY <2>1, <2>3 DEF Attributed
    <3>2. a = b
      BY <2>2, <3>1
    <3>3. a.id = b.id
      BY <3>2
    <3> QED
      BY <3>3
  <2> QED
    BY <2>1, <2>3 DEF Attributed
<1> QED
  BY <1>1, Inductive, PTL

\* is_unique is enough for requests that do not overlap (project_media.rb:191-194).
THEOREM OnceAlone == Spec => []AloneOncePerProject
<1>1. IInv => AloneOncePerProject
  BY DEF IInv, AloneInv, AloneOncePerProject
<1> QED
  BY <1>1, Inductive, PTL

\* An index never refuses a request that is alone (link.rb:39-44, account.rb:63-68).
THEOREM NeverTakenAlone == Spec => []AloneNeverTaken
<1>1. IInv => AloneNeverTaken
  BY DEF IInv, AloneInv, AloneNeverTaken, Undisturbed
<1> QED
  BY <1>1, Inductive, PTL

\* A refused or broken createProjectMedia leaves no link (project_media.rb:196-201 runs
\* inside the transaction of the project media).
THEOREM LinksNeverAlone == Spec => LinksComeWithMedia
<1>1. IInv /\ [Next]_vars => [\A l \in links' \ links :
                                 \E pm \in pms' \ pms : pm.media = l.id]_vars
  BY LinkStep
<1> QED
  BY <1>1, Inductive, PTL DEF Spec, LinksComeWithMedia
=============================================================================
