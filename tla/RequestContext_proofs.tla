----------------------- MODULE RequestContext_proofs -----------------------
(***************************************************************************)
(* Theorems about RequestContext, for any users, roles, teams, threads and *)
(* number of requests.                                                     *)
(***************************************************************************)
EXTENDS RequestContext, SequenceTheorems, TLAPS

USE RolesAssumption, JoinedAssumption, BoundsAssumption, NilAssumption

Request == {Idle} \cup Asking \cup Switching \cup Entering

\* The teams that somebody was ever a member of: none, for who is not registered.
EverOf(u, e) == IF u \in Users THEN e[u] \cup {Nil} ELSE {Nil}

\* A thread knows no current team its user was never in.
Known(l, e) == l.at \in EverOf(l.user, e)

\* The thread is in the name of the request's user and in the request's team.
InPlace(l, r, e) ==
  /\ l.user = r.user
  /\ IF r.slug # Nil THEN l.team = r.slug ELSE l.team \in EverOf(r.user, e)

Fits(l, r, e) == /\ r.pc \in {"query", "switch"} => InPlace(l, r, e)
                 /\ r.pc = "switch" => r.slug \in EverOf(r.user, e)
                 /\ r.pc = "provider" => r.at \in EverOf(r.user, e)

DataOK == /\ status \in [Users -> {"none", "unconfirmed", "confirmed", "deleted"}]
          /\ joined \in [Users -> Seq(Teams)]
          /\ current \in [Users -> TeamOrNil]
          /\ ever \in [Users -> SUBSET Teams]
          /\ begun \in 0..MaxRequests
          /\ moves \in 0..MaxMoves

EverInv == \A u \in Users : /\ current[u] \in ever[u] \cup {Nil}
                            /\ \A i \in DOMAIN joined[u] : joined[u][i] \in ever[u]

ThreadsInv == \A t \in Threads : Known(local[t], ever) /\ Fits(local[t], req[t], ever)

DecisionInv == ActsAsItself /\ InItsTeam /\ EntryNotRefused

IInv == TypeOK /\ EverInv /\ ThreadsInv /\ DecisionInv

-----------------------------------------------------------------------------
LEMMA Typed ==
  ASSUME TypeOK, NEW t \in Threads
  PROVE  /\ local[t] \in Local
         /\ req[t] \in Request
         /\ req[t] = Idle <=> req[t].pc = "idle"
         /\ req[t].pc = "query" => req[t] \in Asking
         /\ req[t].pc = "switch" => req[t] \in Switching
         /\ req[t].pc = "provider" => req[t] \in Entering
<1>1. req[t] \in Request /\ local[t] \in Local
  BY DEF TypeOK, Request
<1> QED
  BY <1>1 DEF Request, Idle, Asking, Switching, Entering

LEMMA AsUserFacts ==
  ASSUME TypeOK, EverInv, NEW l \in Local, NEW u \in Someone \cup {Nil}
  PROVE  /\ AsUser(l, u) \in Local
         /\ AsUser(l, u).user = u /\ AsUser(l, u).team = l.team
         /\ Known(AsUser(l, u), ever)
  BY DEF AsUser, Local, Known, EverOf, EverInv, Someone, TypeOK, TeamOrNil

LEMMA ClearedFacts ==
  ASSUME NEW l \in Local
  PROVE  /\ Cleared(l) \in Local
         /\ Cleared(l).user = Nil
         /\ Known(Cleared(l), ever)
  BY DEF Cleared, Local, Known, EverOf, TeamOrNil

LEMMA CurrentTeamFacts ==
  ASSUME TypeOK, EverInv, NEW l \in Local, Known(l, ever)
  PROVE  CurrentTeam(l) \in TeamOrNil /\ CurrentTeam(l) \in EverOf(l.user, ever)
<1>1. CASE l.at # Nil
  BY <1>1 DEF CurrentTeam, Known, Local
<1>2. CASE l.at = Nil /\ l.user \in Users /\ joined[l.user] # <<>>
  <2>1. joined[l.user] \in Seq(Teams)
    BY <1>2 DEF TypeOK
  <2>2. Len(joined[l.user]) \in DOMAIN joined[l.user]
    BY <1>2, <2>1
  <2>3. CurrentTeam(l) = joined[l.user][Len(joined[l.user])]
    BY <1>2 DEF CurrentTeam
  <2> QED
    BY <1>2, <2>1, <2>2, <2>3 DEF EverInv, EverOf, TeamOrNil
<1>3. CASE l.at = Nil /\ ~(l.user \in Users /\ joined[l.user] # <<>>)
  BY <1>3 DEF CurrentTeam, EverOf, TeamOrNil
<1> QED
  BY <1>1, <1>2, <1>3

LEMMA AbleFacts ==
  ASSUME TypeOK, EverInv, NEW l \in Local, Known(l, ever)
  PROVE  /\ Able(l) \in Local
         /\ Able(l).user = l.user /\ Able(l).at = l.at
         /\ Known(Able(l), ever)
         /\ l.team # Nil => Able(l).team = l.team
         /\ l.team = Nil => Able(l).team \in EverOf(l.user, ever)
  BY CurrentTeamFacts DEF Able, Local, Known

LEMMA CheckedFacts ==
  ASSUME TypeOK, EverInv, NEW l \in Local, Known(l, ever)
  PROVE  /\ Checked(l) \in Local
         /\ Checked(l).user = l.user
         /\ Known(Checked(l), ever)
         /\ l.team # Nil => Checked(l).team = l.team
         /\ l.team = Nil => Checked(l).team \in EverOf(l.user, ever) \cup {Nil}
  BY AbleFacts DEF Checked

LEMMA SelfMayUpdate == \A l : \A u : l.user = u => MayUpdateUser(l, u)
  BY DEF MayUpdateUser

\* A step of one thread keeps the invariant, if what it leaves the thread and the
\* request with fit each other.
LEMMA ThreadStep ==
  ASSUME IInv, NEW t \in Threads, NEW l \in Local, NEW r \in Request,
         Leave(t, l), Serve(t, r), DataOK', EverInv',
         \A u \in Users : ever[u] \subseteq ever'[u],
         Known(l, ever'), Fits(l, r, ever'),
         decision' \in Decision \cup {Nil}, DecisionInv'
  PROVE  IInv'
<1> USE DEF IInv
<1>1. /\ local' = [local EXCEPT ![t] = l] /\ local' \in [Threads -> Local]
      /\ req' = [req EXCEPT ![t] = r] /\ req' \in [Threads -> Request]
  BY DEF Leave, Serve, TypeOK, Request
<1>2. TypeOK'
  BY <1>1 DEF TypeOK, DataOK, Request
<1>3. ASSUME NEW s \in Threads
      PROVE  Known(local'[s], ever') /\ Fits(local'[s], req'[s], ever')
  <2>1. CASE s = t
    BY <1>1, <2>1 DEF TypeOK
  <2>2. CASE s # t
    <3>1. local'[s] = local[s] /\ req'[s] = req[s]
      BY <1>1, <2>2 DEF TypeOK
    <3>2. Known(local[s], ever) /\ Fits(local[s], req[s], ever)
      BY DEF ThreadsInv
    <3>3. \A u : EverOf(u, ever) \subseteq EverOf(u, ever')
      BY DEF EverOf
    <3> QED
      BY <3>1, <3>2, <3>3 DEF Known, Fits, InPlace
  <2> QED
    BY <2>1, <2>2
<1> QED
  BY <1>2, <1>3 DEF ThreadsInv

\* ... or the request is as it was.
LEMMA SameRequest ==
  ASSUME TypeOK, NEW t \in Threads, UNCHANGED req
  PROVE  Serve(t, req[t]) /\ req[t] \in Request
  BY DEF Serve, TypeOK, Request

LEMMA IdleFits == Idle \in Request /\ \A l, e : Fits(l, Idle, e)
  BY DEF Idle, Request, Fits

\* What is known of a thread and fits its request does so when users join teams.
LEMMA Monotone ==
  ASSUME TypeOK, \A u \in Users : ever[u] \subseteq ever'[u], NEW l, NEW r
  PROVE  /\ Known(l, ever) => Known(l, ever')
         /\ Fits(l, r, ever) => Fits(l, r, ever')
<1>1. \A u : EverOf(u, ever) \subseteq EverOf(u, ever')
  BY DEF EverOf
<1> QED
  BY <1>1 DEF Known, Fits, InPlace

\* The rows a step leaves alone stay as they should be.
LEMMA RowsKept ==
  ASSUME TypeOK, EverInv, UNCHANGED <<joined, current, ever>>,
         status' \in [Users -> {"none", "unconfirmed", "confirmed", "deleted"}],
         begun' \in 0..MaxRequests, moves' \in 0..MaxMoves
  PROVE  DataOK' /\ EverInv' /\ \A u \in Users : ever[u] \subseteq ever'[u]
  BY DEF TypeOK, EverInv, DataOK

LEMMA NotAsked ==
  ASSUME decision' = Nil
  PROVE  decision' \in Decision \cup {Nil} /\ DecisionInv'
  BY DEF DecisionInv, ActsAsItself, InItsTeam, EntryNotRefused

\* What makes an answer one the invariants allow.
LEMMA Asked ==
  ASSUME NEW h \in Handlers, NEW u \in Users \cup {Nil}, NEW l \in Local,
         NEW slug \in TeamOrNil, NEW ok \in BOOLEAN, Ask(h, u, l, slug, ok),
         h \notin OfAccounts /\ l.user # Nil => l.user = u,
         h = "query" /\ l.user # Nil => IF slug # Nil THEN l.team = slug
                                        ELSE l.team \in ever'[u] \cup {Nil},
         h \notin OfAccounts \cup {"query"} /\ l.user # Nil /\ ~ok
           => h = "provider" /\ \E T \in ever'[u] : ~IsMember(u, T)'
  PROVE  decision' \in Decision \cup {Nil} /\ DecisionInv'
<1>1. CASE l.user = Nil
  BY <1>1, NotAsked DEF Ask
<1>2. CASE l.user # Nil
  <2>1. decision' = [handler |-> h, for |-> u, by |-> l.user, team |-> l.team,
                     slug |-> slug, ok |-> ok]
    BY <1>2 DEF Ask
  <2>2. decision' \in Decision
    BY <1>2, <2>1 DEF Decision, Local
  <2>3. ActsAsItself'
    BY <1>2, <2>1 DEF ActsAsItself
  <2>4. InItsTeam'
    BY <1>2, <2>1 DEF InItsTeam
  <2>5. EntryNotRefused'
    BY <1>2, <2>1 DEF EntryNotRefused
  <2> QED
    BY <2>2, <2>3, <2>4, <2>5 DEF DecisionInv
<1> QED
  BY <1>1, <1>2

\* A query asks in its user's name and in its team, and leaves the thread so.
LEMMA AskerFacts ==
  ASSUME IInv, NEW t \in Threads, req[t].pc = "query"
  PROVE  /\ Asker(t) \in Local
         /\ Known(Asker(t), ever)
         /\ InPlace(Asker(t), req[t], ever)
         /\ Fits(Asker(t), req[t], ever)
         /\ req[t].user \in Users \cup {Nil} /\ req[t].slug \in TeamOrNil
<1>1. local[t] \in Local /\ req[t] \in Asking
  BY Typed DEF IInv
<1>2. Known(local[t], ever) /\ InPlace(local[t], req[t], ever)
  BY DEF IInv, ThreadsInv, Fits
<1>3. TypeOK /\ EverInv
  BY DEF IInv
<1>4. /\ Asker(t) \in Local /\ Known(Asker(t), ever)
      /\ Asker(t).user = local[t].user
      /\ local[t].team # Nil => Asker(t).team = local[t].team
      /\ local[t].team = Nil => Asker(t).team \in EverOf(local[t].user, ever) \cup {Nil}
  BY <1>1, <1>2, <1>3, CheckedFacts DEF Asker
<1>5. InPlace(Asker(t), req[t], ever)
  BY <1>2, <1>4 DEF InPlace, EverOf
<1> QED
  BY <1>1, <1>4, <1>5 DEF Fits, Asking

LEMMA AsksFacts ==
  ASSUME IInv, NEW t \in Threads, NEW ok \in BOOLEAN, Asks(t, ok),
         \A u \in Users : ever[u] \subseteq ever'[u]
  PROVE  decision' \in Decision \cup {Nil} /\ DecisionInv'
<1> DEFINE l == Asker(t)
<1>1. /\ l \in Local /\ InPlace(l, req[t], ever)
      /\ req[t].user \in Users \cup {Nil} /\ req[t].slug \in TeamOrNil
  BY AskerFacts DEF Asks
<1>2. Ask("query", req[t].user, l, req[t].slug, ok)
  BY DEF Asks
<1>3. l.user = req[t].user
  BY <1>1 DEF InPlace
<1>4. l.user # Nil => IF req[t].slug # Nil THEN l.team = req[t].slug
                      ELSE l.team \in ever'[req[t].user] \cup {Nil}
  BY <1>1, <1>3 DEF InPlace, EverOf
<1> HIDE DEF l
<1> QED
  BY <1>1, <1>2, <1>3, <1>4, Asked DEF Handlers

\* A query that changes no row.
LEMMA QueryKeeps ==
  ASSUME IInv, NEW t \in Threads, NEW ok \in BOOLEAN, Asks(t, ok),
         NEW r \in {req[t], Idle}, Serve(t, r), DataOK', EverInv',
         \A u \in Users : ever[u] \subseteq ever'[u]
  PROVE  IInv'
<1>1. Asker(t) \in Local /\ Known(Asker(t), ever) /\ Fits(Asker(t), req[t], ever)
  BY AskerFacts DEF Asks
<1>2. Leave(t, Asker(t))
  BY DEF Asks
<1>3. r \in Request
  BY Typed, IdleFits DEF IInv
<1>4. TypeOK
  BY DEF IInv
<1>5. Fits(Asker(t), r, ever)
  BY <1>1, IdleFits
<1>6. Known(Asker(t), ever') /\ Fits(Asker(t), r, ever')
  BY <1>1, <1>4, <1>5, Monotone
<1>7. decision' \in Decision \cup {Nil} /\ DecisionInv'
  BY AsksFacts
<1> QED
  BY <1>1, <1>2, <1>3, <1>6, <1>7, ThreadStep

\* A step that leaves its thread idle and touches no row but `users`.
LEMMA EndsIdle ==
  ASSUME IInv, NEW t \in Threads, NEW l \in Local, Leave(t, l), Serve(t, Idle),
         Known(l, ever), UNCHANGED <<joined, current, ever>>,
         status' \in [Users -> {"none", "unconfirmed", "confirmed", "deleted"}],
         begun' \in 0..MaxRequests, moves' \in 0..MaxMoves,
         decision' \in Decision \cup {Nil}, DecisionInv'
  PROVE  IInv'
<1>1. TypeOK /\ EverInv
  BY DEF IInv
<1>2. DataOK' /\ EverInv' /\ \A u \in Users : ever[u] \subseteq ever'[u]
  BY <1>1, RowsKept
<1>3. Known(l, ever') /\ Fits(l, Idle, ever') /\ Idle \in Request
  BY <1>1, <1>2, Monotone, IdleFits
<1> QED
  BY <1>2, <1>3, ThreadStep

LEMMA BeginFacts ==
  ASSUME TypeOK, NEW t \in Threads, Begin(t)
  PROVE  begun' \in 0..MaxRequests /\ moves' \in 0..MaxMoves /\ UNCHANGED ever
  BY DEF Begin, TypeOK

\* What is done at once leaves its thread idle.
LEMMA AtOnceFacts ==
  ASSUME TypeOK, NEW t \in Threads, AtOnce(t)
  PROVE  /\ begun' \in 0..MaxRequests /\ moves' \in 0..MaxMoves /\ UNCHANGED ever
         /\ Serve(t, Idle)
  BY BeginFacts DEF AtOnce, Begin, Serve, TypeOK

LEMMA Answers == \A l, u : MayUpdateUser(l, u) \in BOOLEAN /\ MayDestroyUser(l, u) \in BOOLEAN
  BY DEF MayUpdateUser, MayDestroyUser

LEMMA StatusSet ==
  ASSUME TypeOK, NEW u \in Users, NEW s \in {"none", "unconfirmed", "confirmed", "deleted"}
  PROVE  [status EXCEPT ![u] = s] \in [Users -> {"none", "unconfirmed", "confirmed", "deleted"}]
  BY DEF TypeOK

\* A thread as it is, to begin with.
LEMMA Thread ==
  ASSUME IInv, NEW t \in Threads
  PROVE  local[t] \in Local /\ Known(local[t], ever) /\ TypeOK /\ EverInv
  BY Typed DEF IInv, ThreadsInv

-----------------------------------------------------------------------------
LEMMA AnonymousStep == ASSUME IInv, NEW t \in Threads, Anonymous(t) PROVE IInv'
<1>1. TypeOK /\ local[t] \in Local
  BY Thread
<1>2. Serve(t, Idle)
  BY <1>1 DEF Anonymous, Serve, TypeOK
<1> QED
  BY <1>1, <1>2, ClearedFacts, NotAsked, EndsIdle DEF Anonymous, TypeOK

LEMMA RejectedStep == ASSUME IInv, NEW t \in Threads, Rejected(t) PROVE IInv'
<1>1. TypeOK /\ EverInv /\ local[t] \in Local
  BY Thread
<1>2. PICK u \in Someone : Leave(t, AsUser(local[t], u))
  BY DEF Rejected, Someone
<1>3. AsUser(local[t], u) \in Local /\ Known(AsUser(local[t], u), ever)
  BY <1>1, AsUserFacts
<1>4. /\ begun' \in 0..MaxRequests /\ moves' \in 0..MaxMoves
      /\ UNCHANGED <<joined, current, ever, status>> /\ Serve(t, Idle)
  BY <1>1, AtOnceFacts DEF Rejected
<1> QED
  BY <1>1, <1>2, <1>3, <1>4, NotAsked, EndsIdle DEF Rejected, TypeOK

LEMMA MeStep == ASSUME IInv, NEW t \in Threads, NEW u \in Users, Me(t, u) PROVE IInv'
<1>1. TypeOK /\ EverInv /\ local[t] \in Local /\ Known(local[t], ever)
  BY Thread
<1> DEFINE l == Checked(local[t])
<1>2. l \in Local /\ Known(l, ever)
  BY <1>1, CheckedFacts
<1>3. /\ begun' \in 0..MaxRequests /\ moves' \in 0..MaxMoves
      /\ UNCHANGED <<joined, current, ever, status>> /\ Serve(t, Idle)
  BY <1>1, AtOnceFacts DEF Me
<1>4. Leave(t, l) /\ Ask("me", u, l, Nil, TRUE)
  BY DEF Me
<1> HIDE DEF l
<1>5. decision' \in Decision \cup {Nil} /\ DecisionInv'
  BY <1>2, <1>4, Asked DEF Handlers, OfAccounts, TeamOrNil
<1> QED
  BY <1>1, <1>2, <1>3, <1>4, <1>5, EndsIdle DEF TypeOK

LEMMA DeleteStep == ASSUME IInv, NEW t \in Threads, NEW u \in Users, Delete(t, u) PROVE IInv'
<1>1. TypeOK /\ EverInv /\ local[t] \in Local /\ Known(local[t], ever)
  BY Thread
<1> DEFINE l == Checked(local[t])
           ok == Allowed(l, MayDestroyUser(l, u))
<1>2. l \in Local /\ Known(l, ever)
  BY <1>1, CheckedFacts
<1>3. ok \in BOOLEAN
  BY Answers DEF Allowed
<1>4. /\ begun' \in 0..MaxRequests /\ moves' \in 0..MaxMoves
      /\ UNCHANGED <<joined, current, ever>> /\ Serve(t, Idle)
  BY <1>1, AtOnceFacts DEF Delete
<1>5. /\ Leave(t, l) /\ Ask("delete", u, l, Nil, ok)
      /\ status' = [status EXCEPT ![u] = IF ok THEN "deleted" ELSE @]
  BY DEF Delete
<1> HIDE DEF l, ok
<1>6. decision' \in Decision \cup {Nil} /\ DecisionInv'
  BY <1>2, <1>3, <1>5, Asked DEF Handlers, OfAccounts, TeamOrNil
<1>7. status' \in [Users -> {"none", "unconfirmed", "confirmed", "deleted"}]
  BY <1>1, <1>5 DEF TypeOK
<1> QED
  BY <1>2, <1>4, <1>5, <1>6, <1>7, EndsIdle

LEMMA UpdateStep == ASSUME IInv, NEW t \in Threads, NEW u \in Users, Update(t, u) PROVE IInv'
<1>1. TypeOK /\ EverInv /\ local[t] \in Local /\ Known(local[t], ever)
  BY Thread
<1>2. /\ begun' \in 0..MaxRequests /\ moves' \in 0..MaxMoves
      /\ UNCHANGED <<joined, current, ever, status>> /\ Serve(t, Idle)
  BY <1>1, AtOnceFacts DEF Update
<1>3. status' \in [Users -> {"none", "unconfirmed", "confirmed", "deleted"}]
  BY <1>1, <1>2 DEF TypeOK
<1> DEFINE l == Checked(local[t])
           ok == Allowed(l, MayUpdateUser(l, u))
<1>4. CASE Leave(t, IF ok THEN AsUser(l, u) ELSE l) /\ Ask("update", u, l, Nil, ok)
  <2>1. l \in Local /\ Known(l, ever)
    BY <1>1, CheckedFacts
  <2>2. ok \in BOOLEAN
    BY Answers DEF Allowed
  <2> HIDE DEF l, ok
  <2>3. decision' \in Decision \cup {Nil} /\ DecisionInv'
    BY <1>4, <2>1, <2>2, Asked DEF Handlers, OfAccounts, TeamOrNil
  <2>4. AsUser(l, u) \in Local /\ Known(AsUser(l, u), ever)
    BY <1>1, <2>1, AsUserFacts DEF Someone
  <2>5. PICK m \in Local : Known(m, ever) /\ Leave(t, m)
    BY <1>4, <2>1, <2>4
  <2> QED
    BY <1>2, <1>3, <2>3, <2>5, EndsIdle
<1>5. CASE Leave(t, AsUser(local[t], u)) /\ decision' = Nil
  <2>1. AsUser(local[t], u) \in Local /\ Known(AsUser(local[t], u), ever)
    BY <1>1, AsUserFacts DEF Someone
  <2> QED
    BY <1>2, <1>3, <1>5, <2>1, NotAsked, EndsIdle
<1> QED
  BY <1>4, <1>5 DEF Update

LEMMA SignInStep == ASSUME IInv, NEW t \in Threads, NEW u \in Users, SignIn(t, u) PROVE IInv'
<1>1. TypeOK /\ EverInv /\ local[t] \in Local /\ Known(local[t], ever)
  BY Thread
<1>2. /\ begun' \in 0..MaxRequests /\ moves' \in 0..MaxMoves
      /\ UNCHANGED <<joined, current, ever, status>> /\ Serve(t, Idle)
  BY <1>1, AtOnceFacts DEF SignIn
<1>3. status' \in [Users -> {"none", "unconfirmed", "confirmed", "deleted"}]
  BY <1>1, <1>2 DEF TypeOK
<1> DEFINE l == Checked(BeforeEntry(local[t]))
           m == Able(AsUser(l, u))
<1>4. l \in Local /\ l.user = Nil
  BY <1>1, ClearedFacts DEF BeforeEntry, Checked
<1>5. Allowed(l, MayUpdateUser(l, u)) = TRUE
  BY <1>4 DEF Allowed
<1>6. Leave(t, m) /\ Ask("sign_in", u, m, Nil, TRUE)
  BY <1>5 DEF SignIn
<1> HIDE DEF l
<1>7. AsUser(l, u) \in Local /\ AsUser(l, u).user = u /\ Known(AsUser(l, u), ever)
  BY <1>1, <1>4, AsUserFacts DEF Someone
<1>8. m \in Local /\ Known(m, ever) /\ m.user = u
  BY <1>1, <1>7, AbleFacts
<1> HIDE DEF m
<1>9. decision' \in Decision \cup {Nil} /\ DecisionInv'
  BY <1>6, <1>8, Asked DEF Handlers, TeamOrNil
<1> QED
  BY <1>2, <1>3, <1>6, <1>8, <1>9, EndsIdle

LEMMA SignUpStep == ASSUME IInv, NEW t \in Threads, NEW u \in Users, SignUp(t, u) PROVE IInv'
<1>1. TypeOK /\ EverInv /\ local[t] \in Local /\ Known(local[t], ever)
  BY Thread
<1>2. /\ begun' \in 0..MaxRequests /\ moves' \in 0..MaxMoves
      /\ UNCHANGED <<joined, current, ever>> /\ Serve(t, Idle)
  BY <1>1, AtOnceFacts DEF SignUp
<1> DEFINE l == Able(AsUser(local[t], u))
<1>3. CASE /\ status' = [status EXCEPT ![u] = "unconfirmed"]
           /\ Leave(t, l)
           /\ Ask("sign_up", u, l, Nil, MayUpdateUser(l, u))
  <2>1. AsUser(local[t], u) \in Local /\ AsUser(local[t], u).user = u
        /\ Known(AsUser(local[t], u), ever)
    BY <1>1, AsUserFacts DEF Someone
  <2>2. l \in Local /\ Known(l, ever) /\ l.user = u
    BY <1>1, <2>1, AbleFacts
  <2> HIDE DEF l
  <2>3. MayUpdateUser(l, u) = TRUE
    BY <2>2, SelfMayUpdate, Answers
  <2>4. decision' \in Decision \cup {Nil} /\ DecisionInv'
    BY <1>3, <2>2, <2>3, Asked DEF Handlers, TeamOrNil
  <2>5. status' \in [Users -> {"none", "unconfirmed", "confirmed", "deleted"}]
    BY <1>1, <1>3, StatusSet
  <2> QED
    BY <1>2, <1>3, <2>2, <2>4, <2>5, EndsIdle
<1>4. CASE Leave(t, AsUser(local[t], Guest)) /\ decision' = Nil /\ UNCHANGED status
  <2>1. AsUser(local[t], Guest) \in Local /\ Known(AsUser(local[t], Guest), ever)
    BY <1>1, AsUserFacts DEF Someone
  <2>2. status' \in [Users -> {"none", "unconfirmed", "confirmed", "deleted"}]
    BY <1>1, <1>4 DEF TypeOK
  <2> QED
    BY <1>2, <1>4, <2>1, <2>2, NotAsked, EndsIdle
<1> QED
  BY <1>3, <1>4 DEF SignUp

LEMMA ConfirmStep == ASSUME IInv, NEW t \in Threads, NEW u \in Users, Confirm(t, u) PROVE IInv'
<1>1. TypeOK /\ EverInv /\ local[t] \in Local /\ Known(local[t], ever)
  BY Thread
<1>2. /\ begun' \in 0..MaxRequests /\ moves' \in 0..MaxMoves
      /\ UNCHANGED <<joined, current, ever>> /\ Serve(t, Idle)
  BY <1>1, AtOnceFacts DEF Confirm
<1> DEFINE l == Checked(BeforeEntry(local[t]))
<1>3. l \in Local /\ l.user = Nil
  BY <1>1, ClearedFacts DEF BeforeEntry, Checked
<1>4. Allowed(l, MayUpdateUser(l, u)) = TRUE
  BY <1>3 DEF Allowed
<1>5. /\ Leave(t, AsUser(l, u)) /\ Ask("confirm", u, l, Nil, TRUE)
      /\ status' = [status EXCEPT ![u] = "confirmed"]
  BY <1>4 DEF Confirm
<1> HIDE DEF l
<1>6. AsUser(l, u) \in Local /\ Known(AsUser(l, u), ever)
  BY <1>1, <1>3, AsUserFacts DEF Someone
<1>7. decision' = Nil
  BY <1>3, <1>5 DEF Ask
<1>8. status' \in [Users -> {"none", "unconfirmed", "confirmed", "deleted"}]
  BY <1>1, <1>5, StatusSet
<1> QED
  BY <1>2, <1>5, <1>6, <1>7, <1>8, NotAsked, EndsIdle

LEMMA FindByProviderStep ==
  ASSUME IInv, NEW t \in Threads, NEW u \in Users, FindByProvider(t, u) PROVE IInv'
<1> DEFINE r == [pc |-> "provider", user |-> u, found |-> status[u] = "confirmed",
                 at |-> current[u]]
<1>1. TypeOK /\ EverInv /\ local[t] \in Local /\ Known(local[t], ever)
  BY Thread
<1>2. /\ begun' \in 0..MaxRequests /\ moves' \in 0..MaxMoves
      /\ UNCHANGED <<joined, current, ever, status, local>> /\ Serve(t, r) /\ decision' = Nil
  BY <1>1, BeginFacts DEF FindByProvider
<1>3. Leave(t, local[t])
  BY <1>1, <1>2 DEF Leave, TypeOK
<1>4. r \in Request
  BY <1>1 DEF Request, Entering, TypeOK
<1>5. current[u] \in ever[u] \cup {Nil}
  BY <1>1 DEF EverInv
<1>6. Fits(local[t], r, ever)
  BY <1>5 DEF Fits, EverOf
<1>7. status' \in [Users -> {"none", "unconfirmed", "confirmed", "deleted"}]
  BY <1>1, <1>2 DEF TypeOK
<1> HIDE DEF r
<1>8. DataOK' /\ EverInv' /\ \A v \in Users : ever[v] \subseteq ever'[v]
  BY <1>1, <1>2, <1>7, RowsKept
<1>9. Known(local[t], ever') /\ Fits(local[t], r, ever')
  BY <1>1, <1>6, <1>8, Monotone
<1> QED
  BY <1>1, <1>2, <1>3, <1>4, <1>8, <1>9, NotAsked, ThreadStep

LEMMA SaveByProviderStep ==
  ASSUME IInv, NEW t \in Threads, SaveByProvider(t) PROVE IInv'
<1>1. TypeOK /\ EverInv /\ local[t] \in Local /\ Known(local[t], ever)
  BY Thread
<1>2. req[t] \in Entering
  BY <1>1, Typed DEF SaveByProvider
<1>3. PICK u \in Users, at \in TeamOrNil : req[t].user = u /\ req[t].at = at
  BY <1>2 DEF Entering
<1> DEFINE l == [AsUser(local[t], u) EXCEPT !.at = at]
<1>4. at \in ever[u] \cup {Nil}
  BY <1>3 DEF IInv, ThreadsInv, Fits, SaveByProvider, EverOf
<1>5. AsUser(local[t], u) \in Local /\ AsUser(local[t], u).user = u
  BY <1>1, <1>3, AsUserFacts DEF Someone
<1>6. l \in Local /\ l.user = u /\ Known(l, ever)
  BY <1>3, <1>4, <1>5 DEF Local, Known, EverOf
<1>7. /\ begun' \in 0..MaxRequests /\ moves' \in 0..MaxMoves
      /\ UNCHANGED <<joined, current, ever>> /\ Serve(t, Idle)
  BY <1>1 DEF SaveByProvider, TypeOK
<1>8. UNCHANGED status => status' \in [Users -> {"none", "unconfirmed", "confirmed", "deleted"}]
  BY <1>1 DEF TypeOK
<1>9. CASE Leave(t, AsUser(local[t], Guest)) /\ decision' = Nil /\ UNCHANGED status
  <2>1. AsUser(local[t], Guest) \in Local /\ Known(AsUser(local[t], Guest), ever)
    BY <1>1, AsUserFacts DEF Someone
  <2> QED
    BY <1>7, <1>8, <1>9, <2>1, NotAsked, EndsIdle
<1>10. CASE ~Valid(u, at) /\ Leave(t, l) /\ Ask("provider", u, l, Nil, FALSE) /\ UNCHANGED status
  <2>1. at # Nil /\ ~IsMember(u, at)
    BY <1>10 DEF Valid
  <2>2. \E T \in ever'[u] : ~IsMember(u, T)'
    BY <1>4, <1>7, <2>1 DEF IsMember
  <2> HIDE DEF l
  <2>3. decision' \in Decision \cup {Nil} /\ DecisionInv'
    BY <1>3, <1>6, <1>10, <2>2, Asked DEF Handlers, TeamOrNil
  <2> QED
    BY <1>6, <1>7, <1>8, <1>10, <2>3, EndsIdle
<1>11. CASE /\ Leave(t, Able(l)) /\ Ask("provider", u, Able(l), Nil, MayUpdateUser(Able(l), u))
            /\ status' = IF req[t].found THEN status ELSE [status EXCEPT ![u] = "confirmed"]
  <2>1. Able(l) \in Local /\ Able(l).user = u /\ Known(Able(l), ever)
    BY <1>1, <1>6, AbleFacts
  <2>2. MayUpdateUser(Able(l), u) = TRUE
    BY <2>1, SelfMayUpdate, Answers
  <2>3. status' \in [Users -> {"none", "unconfirmed", "confirmed", "deleted"}]
    BY <1>1, <1>3, <1>11, StatusSet DEF TypeOK
  <2> DEFINE m == Able(l)
             ok == MayUpdateUser(m, u)
  <2>4. Ask("provider", u, m, Nil, ok) /\ m \in Local /\ m.user = u /\ ok = TRUE
    BY <1>11, <2>1, <2>2
  <2> HIDE DEF m, ok
  <2>5. decision' \in Decision \cup {Nil} /\ DecisionInv'
    BY <1>3, <2>4, Asked DEF Handlers, TeamOrNil
  <2> QED
    BY <1>7, <1>11, <2>1, <2>3, <2>5, EndsIdle
<1> QED
  BY <1>3, <1>9, <1>10, <1>11 DEF SaveByProvider

-----------------------------------------------------------------------------
\* The filters set the user and the team, by whatever way somebody is authenticated.
LEMMA FilteredFacts ==
  ASSUME TypeOK, EverInv, NEW l \in Local, Known(l, ever), NEW u \in Users \cup {Nil},
         NEW via \in {"token", "session", "about"}, via = "token" => u \in Users,
         NEW slug \in TeamOrNil
  PROVE  /\ Authenticated(l, u, via) \in Local
         /\ Filtered(l, u, slug, via) \in Local
         /\ Filtered(l, u, slug, via).user = u
         /\ Filtered(l, u, slug, via).team = slug
         /\ Known(Filtered(l, u, slug, via), ever)
<1>1. Authenticated(l, u, via) \in Local
  <2>1. CASE via = "token"
    <3>1. AsUser(l, u) \in Local /\ Known(AsUser(l, u), ever)
      BY AsUserFacts DEF Someone
    <3> QED
      BY <2>1, <3>1, AbleFacts DEF Authenticated
  <2>2. CASE via = "session"
    BY <2>2, ClearedFacts DEF Authenticated
  <2>3. CASE via = "about"
    BY <2>3 DEF Authenticated
  <2> QED
    BY <2>1, <2>2, <2>3
<1> DEFINE m == AsUser(Authenticated(l, u, via), u)
<1>2. m \in Local /\ m.user = u /\ Known(m, ever)
  BY <1>1, AsUserFacts DEF Someone
<1>3. Filtered(l, u, slug, via) = [m EXCEPT !.team = slug]
  BY DEF Filtered, InContext, WithUser
<1> HIDE DEF m
<1> QED
  BY <1>1, <1>2, <1>3 DEF Local, Known, TeamOrNil

LEMMA BeginQueryStep ==
  ASSUME IInv, NEW t \in Threads, NEW u \in Users, NEW slug \in TeamOrNil,
         NEW via \in {"token", "session", "about"}, BeginQuery(t, u, slug, via)
  PROVE  IInv'
<1>1. TypeOK /\ EverInv /\ local[t] \in Local /\ Known(local[t], ever)
  BY Thread
<1> DEFINE l == Filtered(local[t], u, slug, via)
           r == [pc |-> IF MustSwitch(u, slug) THEN "switch" ELSE "query",
                 user |-> u, slug |-> slug]
<1>2. l \in Local /\ l.user = u /\ l.team = slug /\ Known(l, ever)
  BY <1>1, FilteredFacts
<1>3. /\ begun' \in 0..MaxRequests /\ moves' \in 0..MaxMoves
      /\ UNCHANGED <<joined, current, ever, status>>
      /\ Leave(t, l) /\ Serve(t, r)
  BY <1>1, BeginFacts DEF BeginQuery
<1>4. MustSwitch(u, slug) => slug \in Teams /\ slug \in ever[u]
  BY <1>1 DEF MustSwitch, TeamOrNil, IsMember, EverInv
<1>5. r \in Request
  BY <1>4 DEF Request, Asking, Switching
<1>6. Fits(l, r, ever)
  BY <1>2, <1>4 DEF Fits, InPlace, EverOf
<1>7. decision' \in Decision \cup {Nil} /\ DecisionInv'
  <2>1. CASE via = "token"
    <3> DEFINE m == Authenticated(local[t], u, via)
               ok == MayUpdateUser(m, u)
    <3>1. AsUser(local[t], u) \in Local /\ AsUser(local[t], u).user = u
          /\ Known(AsUser(local[t], u), ever)
      BY <1>1, AsUserFacts DEF Someone
    <3>2. m \in Local /\ m.user = u
      BY <1>1, <2>1, <3>1, AbleFacts DEF Authenticated
    <3>3. ok = TRUE
      BY <3>2, SelfMayUpdate, Answers
    <3>4. Ask("token", u, m, slug, ok)
      BY <2>1 DEF BeginQuery
    <3> HIDE DEF m, ok
    <3> QED
      BY <3>2, <3>3, <3>4, Asked DEF Handlers
  <2>2. CASE via # "token"
    BY <2>2, NotAsked DEF BeginQuery
  <2> QED
    BY <2>1, <2>2
<1> HIDE DEF l, r
<1>8. status' \in [Users -> {"none", "unconfirmed", "confirmed", "deleted"}]
  BY <1>1, <1>3 DEF TypeOK
<1>9. DataOK' /\ EverInv' /\ \A v \in Users : ever[v] \subseteq ever'[v]
  BY <1>1, <1>3, <1>8, RowsKept
<1>10. Known(l, ever') /\ Fits(l, r, ever')
  BY <1>1, <1>2, <1>6, <1>9, Monotone
<1> QED
  BY <1>2, <1>3, <1>5, <1>7, <1>9, <1>10, ThreadStep

LEMMA BeginAboutStep ==
  ASSUME IInv, NEW t \in Threads, NEW slug \in TeamOrNil, BeginAbout(t, slug)
  PROVE  IInv'
<1>1. TypeOK /\ EverInv /\ local[t] \in Local /\ Known(local[t], ever)
  BY Thread
<1> DEFINE l == Filtered(local[t], Nil, slug, "about")
           r == [pc |-> "query", user |-> Nil, slug |-> slug]
<1>2. l \in Local /\ l.user = Nil /\ l.team = slug /\ Known(l, ever)
  BY <1>1, FilteredFacts
<1>3. /\ begun' \in 0..MaxRequests /\ moves' \in 0..MaxMoves
      /\ UNCHANGED <<joined, current, ever, status>>
      /\ Leave(t, l) /\ Serve(t, r) /\ decision' = Nil
  BY <1>1, BeginFacts DEF BeginAbout
<1>4. r \in Request
  BY DEF Request, Asking
<1>5. Fits(l, r, ever)
  BY <1>2 DEF Fits, InPlace, EverOf
<1> HIDE DEF l, r
<1>6. status' \in [Users -> {"none", "unconfirmed", "confirmed", "deleted"}]
  BY <1>1, <1>3 DEF TypeOK
<1>7. DataOK' /\ EverInv' /\ \A v \in Users : ever[v] \subseteq ever'[v]
  BY <1>1, <1>3, <1>6, RowsKept
<1>8. Known(l, ever') /\ Fits(l, r, ever')
  BY <1>1, <1>2, <1>5, <1>7, Monotone
<1> QED
  BY <1>2, <1>3, <1>4, <1>7, <1>8, NotAsked, ThreadStep

LEMMA SwitchStep == ASSUME IInv, NEW t \in Threads, Switch(t) PROVE IInv'
<1>1. TypeOK /\ EverInv /\ local[t] \in Local /\ Known(local[t], ever)
  BY Thread
<1>2. req[t] \in Switching
  BY <1>1, Typed DEF Switch
<1>3. PICK u \in Users, slug \in Teams :
        req[t] = [pc |-> "switch", user |-> u, slug |-> slug]
  BY <1>2 DEF Switching
<1>4. slug \in ever[u] /\ slug # Nil /\ local[t].user = u /\ local[t].team = slug
  <2>1. req[t].pc = "switch" /\ req[t].user = u /\ req[t].slug = slug
    BY <1>3
  <2>2. Fits(local[t], req[t], ever)
    BY DEF IInv, ThreadsInv
  <2>3. slug \in EverOf(u, ever) /\ InPlace(local[t], req[t], ever)
    BY <2>1, <2>2 DEF Fits
  <2> QED
    BY <2>1, <2>3 DEF EverOf, InPlace
<1> DEFINE a == [local[t] EXCEPT !.at = slug]
           l == Able(a)
<1>5. a \in Local /\ a.user = u /\ a.team = slug /\ Known(a, ever)
  BY <1>1, <1>4 DEF Local, TeamOrNil, Known, EverOf
<1>6. /\ begun' \in 0..MaxRequests /\ moves' \in 0..MaxMoves
      /\ UNCHANGED <<joined, ever, status>>
  BY <1>1 DEF Switch, TypeOK
<1>7. status' \in [Users -> {"none", "unconfirmed", "confirmed", "deleted"}]
  BY <1>1, <1>6 DEF TypeOK
<1>8. CASE /\ current' = [current EXCEPT ![u] = slug]
           /\ Leave(t, l)
           /\ Ask("switch", u, l, slug, TRUE)
           /\ Serve(t, [req[t] EXCEPT !.pc = "query"])
  <2> DEFINE r == [req[t] EXCEPT !.pc = "query"]
  <2>1. l \in Local /\ l.user = u /\ l.team = slug /\ Known(l, ever)
    BY <1>1, <1>4, <1>5, AbleFacts
  <2>2. r \in Request
    BY <1>3 DEF Request, Asking, TeamOrNil
  <2>3. Fits(l, r, ever)
    BY <1>3, <1>4, <2>1 DEF Fits, InPlace, EverOf
  <2> HIDE DEF l
  <2>4. decision' \in Decision \cup {Nil} /\ DecisionInv'
    BY <1>8, <2>1, Asked DEF Handlers, TeamOrNil
  <2>5. DataOK' /\ EverInv' /\ \A v \in Users : ever[v] \subseteq ever'[v]
    BY <1>1, <1>4, <1>6, <1>7, <1>8 DEF TypeOK, EverInv, DataOK, TeamOrNil
  <2> HIDE DEF r
  <2>6. Known(l, ever') /\ Fits(l, r, ever')
    BY <1>1, <2>1, <2>3, <2>5, Monotone
  <2>7. Leave(t, l) /\ Serve(t, r)
    BY <1>8 DEF r
  <2> QED
    BY <2>1, <2>2, <2>4, <2>5, <2>6, <2>7, ThreadStep
<1> HIDE DEF a
<1>9. CASE Leave(t, a) /\ decision' = Nil /\ Serve(t, Idle) /\ UNCHANGED current
  BY <1>5, <1>6, <1>7, <1>9, NotAsked, EndsIdle
<1>10. req[t].user = u /\ req[t].slug = slug
  BY <1>3
<1> QED
  BY <1>8, <1>9, <1>10, Zenon DEF Switch, a

LEMMA LookStep == ASSUME IInv, NEW t \in Threads, Look(t) PROVE IInv'
<1>1. TypeOK /\ EverInv
  BY Thread
<1>2. /\ Asks(t, TRUE) /\ UNCHANGED <<status, joined, current, req, ever, begun, moves>>
  BY DEF Look
<1>3. Serve(t, req[t])
  BY <1>1, <1>2, SameRequest
<1>4. DataOK' /\ EverInv' /\ \A v \in Users : ever[v] \subseteq ever'[v]
  BY <1>1, <1>2 DEF TypeOK, EverInv, DataOK
<1> QED
  BY <1>2, <1>3, <1>4, QueryKeeps

LEMMA JoinStep == ASSUME IInv, NEW t \in Threads, NEW T \in Teams, Join(t, T) PROVE IInv'
<1>1. TypeOK /\ EverInv
  BY Thread
<1>2. PICK u \in Users : req[t].user = u
  <2>1. req[t] \in Asking
    BY <1>1, Typed DEF Join, Move
  <2> QED
    BY <2>1 DEF Asking, Join, Move
<1>3. /\ Asks(t, TRUE)
      /\ joined' = [joined EXCEPT ![u] = Append(@, T)]
      /\ ever' = [ever EXCEPT ![u] = @ \cup {T}]
      /\ UNCHANGED <<status, current, begun, req>>
  BY <1>2 DEF Join, Move
<1>4. Serve(t, req[t])
  BY <1>1, <1>3, SameRequest
<1>5. joined[u] \in Seq(Teams)
  BY <1>1 DEF TypeOK
<1>6. /\ joined'[u] = Append(joined[u], T) /\ joined'[u] \in Seq(Teams)
      /\ \A v \in Users \ {u} : joined'[v] = joined[v] /\ ever'[v] = ever[v]
      /\ ever'[u] = ever[u] \cup {T}
  BY <1>1, <1>3, <1>5 DEF TypeOK
<1>7. DataOK'
  <2>1. moves' \in 0..MaxMoves
    BY <1>1 DEF Join, Move, TypeOK
  <2> QED
    BY <1>1, <1>3, <1>6, <2>1 DEF TypeOK, DataOK
<1>8. \A v \in Users : ever[v] \subseteq ever'[v]
  BY <1>6
<1>9. ASSUME NEW v \in Users
      PROVE  /\ current'[v] \in ever'[v] \cup {Nil}
             /\ \A i \in DOMAIN joined'[v] : joined'[v][i] \in ever'[v]
  <2>1. current'[v] \in ever'[v] \cup {Nil}
    BY <1>1, <1>3, <1>8 DEF EverInv
  <2>2. \A i \in DOMAIN joined[v] : joined[v][i] \in ever[v]
    BY <1>1 DEF EverInv
  <2>3. CASE v = u
    <3>1. \A i \in DOMAIN Append(joined[u], T) :
            \/ i \in DOMAIN joined[u] /\ Append(joined[u], T)[i] = joined[u][i]
            \/ Append(joined[u], T)[i] = T
      BY <1>5
    <3> QED
      BY <1>6, <2>1, <2>2, <2>3, <3>1
  <2>4. CASE v # u
    BY <1>6, <2>1, <2>2, <2>4
  <2> QED
    BY <2>3, <2>4
<1>10. EverInv'
  BY <1>9 DEF EverInv
<1> QED
  BY <1>3, <1>4, <1>7, <1>8, <1>10, QueryKeeps

\* The rows that are left are some of the rows there were.
LEMMA WithoutFacts ==
  ASSUME NEW s \in Seq(Teams), NEW i \in DOMAIN s
  PROVE  /\ Without(s, i) \in Seq(Teams)
         /\ \A j \in DOMAIN Without(s, i) : \E k \in DOMAIN s : Without(s, i)[j] = s[k]
<1>1. Len(s) \in Nat /\ DOMAIN s = 1..Len(s) /\ \A k \in 1..Len(s) : s[k] \in Teams
  OBVIOUS
<1>2. Len(s) - 1 \in Nat
  BY <1>1
<1>3. \A j \in 1..Len(s) - 1 : IF j < i THEN j \in 1..Len(s) ELSE j + 1 \in 1..Len(s)
  BY <1>1
<1>4. Without(s, i) \in [1..Len(s) - 1 -> Teams]
  BY <1>1, <1>3 DEF Without
<1>5. Without(s, i) \in Seq(Teams)
  BY <1>2, <1>4, SeqDef
<1>6. DOMAIN Without(s, i) = 1..Len(s) - 1
  BY DEF Without
<1>7. ASSUME NEW j \in DOMAIN Without(s, i)
      PROVE  \E k \in DOMAIN s : Without(s, i)[j] = s[k]
  BY <1>1, <1>3, <1>6 DEF Without
<1> QED
  BY <1>5, <1>7

LEMMA QuitStep == ASSUME IInv, NEW t \in Threads, Quit(t) PROVE IInv'
<1>1. TypeOK /\ EverInv
  BY Thread
<1>2. PICK u \in Users : req[t].user = u
  <2>1. req[t] \in Asking
    BY <1>1, Typed DEF Quit, Move
  <2> QED
    BY <2>1 DEF Asking, Quit, Move
<1> DEFINE ok == RoleOf(Asker(t)) # Nil
<1>3. PICK i \in DOMAIN joined[u] :
        joined' = IF ok THEN [joined EXCEPT ![u] = Without(@, i)] ELSE joined
  BY <1>2 DEF Quit
<1>4. /\ Asks(t, ok) /\ UNCHANGED <<status, current, begun, ever>>
      /\ Serve(t, IF ok THEN req[t] ELSE Idle)
  BY DEF Quit, Move
<1>5. ok \in BOOLEAN
  OBVIOUS
<1> HIDE DEF ok
<1>6. moves' \in 0..MaxMoves
  BY <1>1 DEF Quit, Move, TypeOK
<1>7. joined[u] \in Seq(Teams)
  BY <1>1 DEF TypeOK
<1>8. /\ joined'[u] \in Seq(Teams)
      /\ \A j \in DOMAIN joined'[u] : \E k \in DOMAIN joined[u] : joined'[u][j] = joined[u][k]
      /\ \A v \in Users \ {u} : joined'[v] = joined[v]
      /\ joined' \in [Users -> Seq(Teams)]
  <2>1. CASE ok
    <3>1. /\ joined'[u] = Without(joined[u], i)
          /\ \A v \in Users \ {u} : joined'[v] = joined[v]
      BY <1>1, <1>3, <2>1 DEF TypeOK
    <3>2. joined'[u] \in Seq(Teams)
      BY <1>7, <3>1, WithoutFacts
    <3>3. joined' \in [Users -> Seq(Teams)]
      BY <1>1, <1>3, <2>1, <3>1, <3>2 DEF TypeOK
    <3> QED
      BY <1>7, <3>1, <3>2, <3>3, WithoutFacts
  <2>2. CASE ~ok
    BY <1>1, <1>3, <1>7, <2>2 DEF TypeOK
  <2> QED
    BY <2>1, <2>2
<1>9. DataOK'
  BY <1>1, <1>4, <1>6, <1>8 DEF TypeOK, DataOK
<1>10. EverInv'
  <2>1. ASSUME NEW v \in Users
        PROVE  /\ current'[v] \in ever'[v] \cup {Nil}
               /\ \A j \in DOMAIN joined'[v] : joined'[v][j] \in ever'[v]
    <3>1. CASE v = u
      BY <1>1, <1>4, <1>8, <3>1 DEF EverInv
    <3>2. CASE v # u
      BY <1>1, <1>4, <1>8, <3>2 DEF EverInv
    <3> QED
      BY <3>1, <3>2
  <2> QED
    BY <2>1 DEF EverInv
<1>11. PICK r \in {req[t], Idle} : Serve(t, r)
  BY <1>4
<1> QED
  BY <1>4, <1>5, <1>9, <1>10, <1>11, QueryKeeps

LEMMA UpdateUserStep ==
  ASSUME IInv, NEW t \in Threads, NEW v \in Users, NEW T \in Teams, UpdateUser(t, v, T)
  PROVE  IInv'
<1>1. TypeOK /\ EverInv
  BY Thread
<1> DEFINE ok == MayUpdateUser(Asker(t), v)
<1>2. ok \in BOOLEAN
  BY Answers
<1>3. /\ Asks(t, ok) /\ UNCHANGED <<status, joined, ever, begun, moves>>
      /\ current' = IF Accepted(v, T, ok) THEN [current EXCEPT ![v] = T] ELSE current
      /\ Serve(t, IF Accepted(v, T, ok) THEN req[t] ELSE Idle)
  BY DEF UpdateUser
<1> HIDE DEF ok
<1>4. Accepted(v, T, ok) => T \in ever[v]
  BY <1>1 DEF Accepted, Valid, IsMember, EverInv
<1>5. current' \in [Users -> TeamOrNil] /\ \A w \in Users : current'[w] \in ever[w] \cup {Nil}
  BY <1>1, <1>3, <1>4 DEF TypeOK, EverInv, TeamOrNil
<1>6. DataOK' /\ EverInv' /\ \A w \in Users : ever[w] \subseteq ever'[w]
  BY <1>1, <1>3, <1>5 DEF TypeOK, EverInv, DataOK
<1>7. PICK r \in {req[t], Idle} : Serve(t, r)
  BY <1>3
<1> QED
  BY <1>2, <1>3, <1>6, <1>7, QueryKeeps

LEMMA FinishStep == ASSUME IInv, NEW t \in Threads, Finish(t) PROVE IInv'
<1>1. TypeOK /\ EverInv /\ local[t] \in Local /\ Known(local[t], ever)
  BY Thread
<1>2. /\ Serve(t, Idle) /\ decision' = Nil
      /\ UNCHANGED <<status, joined, current, local, ever, begun, moves>>
  BY DEF Finish
<1>3. Leave(t, local[t])
  BY <1>1, <1>2 DEF Leave, TypeOK
<1> QED
  BY <1>1, <1>2, <1>3, NotAsked, EndsIdle DEF TypeOK

-----------------------------------------------------------------------------
LEMMA Initially == Init => IInv
<1> SUFFICES ASSUME Init PROVE IInv
  OBVIOUS
<1>1. joined \in [Users -> Seq(Teams)]
  BY DEF Init
<1>2. TypeOK
  <2>1. local \in [Threads -> Local]
    BY DEF Init, Local, TeamOrNil
  <2>2. ever \in [Users -> SUBSET Teams]
    <3>1. ASSUME NEW u \in Users PROVE {joined[u][i] : i \in DOMAIN joined[u]} \subseteq Teams
      BY <1>1
    <3> QED
      BY <3>1 DEF Init
  <2>3. /\ status \in [Users -> {"none", "unconfirmed", "confirmed", "deleted"}]
        /\ current \in [Users -> TeamOrNil]
        /\ begun \in 0..MaxRequests /\ moves \in 0..MaxMoves
        /\ decision \in Decision \cup {Nil}
        /\ req \in [Threads -> {Idle} \cup Asking \cup Switching \cup Entering]
    BY DEF Init, TeamOrNil
  <2> QED
    BY <1>1, <2>1, <2>2, <2>3 DEF TypeOK
<1>3. EverInv
  BY DEF Init, EverInv
<1>4. ThreadsInv
  BY IdleFits DEF Init, ThreadsInv, Known, EverOf
<1>5. DecisionInv
  BY DEF Init, DecisionInv, ActsAsItself, InItsTeam, EntryNotRefused
<1> QED
  BY <1>2, <1>3, <1>4, <1>5 DEF IInv

LEMMA Stutters == IInv /\ UNCHANGED vars => IInv'
  BY DEF vars, IInv, TypeOK, EverInv, ThreadsInv, DecisionInv, ActsAsItself, InItsTeam,
         EntryNotRefused, IsMember, Known, Fits, InPlace, EverOf

LEMMA Inductive == IInv /\ [Next]_vars => IInv'
<1> SUFFICES ASSUME IInv, [Next]_vars PROVE IInv'
  OBVIOUS
<1>1. CASE UNCHANGED vars
  BY <1>1, Stutters
<1>2. ASSUME NEW t \in Threads, GraphQL(t) PROVE IInv'
  BY <1>2, BeginQueryStep, BeginAboutStep, SwitchStep, LookStep, FinishStep, QuitStep,
     JoinStep, UpdateUserStep DEF GraphQL
<1>3. ASSUME NEW t \in Threads, Entry(t) PROVE IInv'
  BY <1>3, AnonymousStep, RejectedStep, SaveByProviderStep, SignInStep, SignUpStep,
     ConfirmStep, FindByProviderStep DEF Entry
<1>4. ASSUME NEW t \in Threads, Account(t) PROVE IInv'
  BY <1>4, MeStep, UpdateStep, DeleteStep DEF Account
<1> QED
  BY <1>1, <1>2, <1>3, <1>4 DEF Next

\* The inductive invariant: every thread and its request fit each other, whatever the
\* thread served before.
THEOREM Invariance == Spec => []IInv
  BY Initially, Inductive, PTL DEF Spec

\* Every variable keeps its type in every execution.
THEOREM TypeCorrect == Spec => []TypeOK
<1>1. IInv => TypeOK
  BY DEF IInv
<1> QED
  BY <1>1, Invariance, PTL

\* A pooled thread never lends the user it served before to a GraphQL request, a sign
\* in, a sign up, a confirmation or a provider.
THEOREM OwnName == Spec => []ActsAsItself
<1>1. IInv => ActsAsItself
  BY DEF IInv, DecisionInv
<1> QED
  BY <1>1, Invariance, PTL

\* A query is decided in the team it names, or in one its user was in.
THEOREM OwnTeam == Spec => []InItsTeam
<1>1. IInv => InItsTeam
  BY DEF IInv, DecisionInv
<1> QED
  BY <1>1, Invariance, PTL

\* The current team of a user is one it was a member of.
THEOREM CurrentJoined == Spec => []CurrentTeamWasJoined
<1>1. IInv => CurrentTeamWasJoined
  BY DEF IInv, EverInv, CurrentTeamWasJoined
<1> QED
  BY <1>1, Invariance, PTL

\* Only who left its current team is kept from entering, and only by a provider.
THEOREM MayEnter == Spec => []EntryNotRefused
<1>1. IInv => EntryNotRefused
  BY DEF IInv, DecisionInv
<1> QED
  BY <1>1, Invariance, PTL
=============================================================================
