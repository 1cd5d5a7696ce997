--------------------------- MODULE RequestContext ---------------------------
(***************************************************************************)
(* In whose name, and in which team, permissions are decided.  User.current *)
(* and Team.current are values of the thread (Thread.current[:user] and    *)
(* [:team]); a thread of the pool serves one request after another and     *)
(* nothing clears them in between.  Ability.new completes the team with    *)
(* ||= from the user that is there (app/models/ability.rb:6-7), which has  *)
(* the current team it was loaded with.                                    *)
(*                                                                         *)
(* The requests are those of the controllers under app/controllers/api/v1: *)
(* GraphQL (its filters, then a query that joins or leaves teams and       *)
(* updates users), `me`, sign in, sign out, sign up, confirmation, sign in *)
(* by a provider, update and deletion of an account.  A role is read from  *)
(* the rows here; that it is cached is the subject of Membership.          *)
(***************************************************************************)
EXTENDS Permissions, Sequences

CONSTANTS Users, Threads, Teams,
          RoleIn,       \* the role each user has in each team while it is a member
          Joined,       \* the teams each user starts in, oldest first
          Newcomers,    \* the users that are not registered yet
          MaxRequests,  \* bound: how many requests of somebody are served
          MaxMoves,     \* bound: how often somebody joins or leaves a team
          Guest,        \* a user that was not saved: it has no id
          Nil

ASSUME RolesAssumption == RoleIn \in [Users -> [Teams -> Roles]]
ASSUME JoinedAssumption == Joined \in [Users -> Seq(Teams)] /\ Newcomers \subseteq Users
ASSUME BoundsAssumption == MaxRequests \in Nat /\ MaxMoves \in Nat
ASSUME NilAssumption == Nil \notin Users \cup Teams \cup {Guest} /\ Guest \notin Users

VARIABLES status,    \* the row of each user in `users`
          joined,    \* the teams each user is a member of, in the order of the rows
          current,   \* users.current_team_id
          local,     \* Thread.current: the user, its current_team_id as loaded, the team
          req,       \* the request each thread serves
          decision,  \* history: the permission that was asked for in the last step
          ever,      \* history: the teams each user was ever a member of
          begun, moves

vars == <<status, joined, current, local, req, decision, ever, begun, moves>>

TeamOrNil == Teams \cup {Nil}
Someone == Users \cup {Guest}
Local == [user : Someone \cup {Nil}, at : TeamOrNil, team : TeamOrNil]

Idle == [pc |-> "idle"]
Asking == [pc : {"query"}, user : Users \cup {Nil}, slug : TeamOrNil]
Switching == [pc : {"switch"}, user : Users, slug : Teams]
Entering == [pc : {"provider"}, user : Users, found : BOOLEAN, at : TeamOrNil]

Handlers == {"token", "switch", "query", "me", "sign_in", "sign_up", "confirm", "provider",
             "update", "delete"}
Decision == [handler : Handlers, for : Users \cup {Nil}, by : Someone, team : TeamOrNil,
             slug : TeamOrNil, ok : BOOLEAN]

TypeOK == /\ status \in [Users -> {"none", "unconfirmed", "confirmed", "deleted"}]
          /\ joined \in [Users -> Seq(Teams)]
          /\ current \in [Users -> TeamOrNil]
          /\ local \in [Threads -> Local]
          /\ req \in [Threads -> {Idle} \cup Asking \cup Switching \cup Entering]
          /\ decision \in Decision \cup {Nil}
          /\ ever \in [Users -> SUBSET Teams]
          /\ begun \in 0..MaxRequests
          /\ moves \in 0..MaxMoves

-----------------------------------------------------------------------------
IsMember(u, T) == \E i \in DOMAIN joined[u] : joined[u][i] = T

\* User#current_team of the user of a thread: by the column it was loaded with, else
\* its newest team.
CurrentTeam(l) == IF l.at # Nil THEN l.at
                  ELSE IF l.user \in Users /\ joined[l.user] # <<>>
                       THEN joined[l.user][Len(joined[l.user])]
                  ELSE Nil

\* Ability.new, where somebody is the current user.
Able(l) == [l EXCEPT !.team = IF @ = Nil THEN CurrentTeam(l) ELSE @]

\* User.current = ...
AsUser(l, u) == [l EXCEPT !.user = u, !.at = IF u \in Users THEN current[u] ELSE Nil]

\* The role the user of a thread has in its team.
RoleOf(l) == IF l.user \in Users /\ l.team # Nil /\ IsMember(l.user, l.team)
             THEN RoleIn[l.user][l.team] ELSE Nil

\* The user has a row in the team of the thread with one of the roles.
Serves(l, u, roles) == l.team # Nil /\ IsMember(u, l.team) /\ RoleIn[u][l.team] \in roles

MayUpdateUser(l, u) ==
  \/ l.user = u
  \/ RoleOf(l) = "admin"
  \/ AtLeast(RoleOf(l), "journalist") /\ Serves(l, u, {"journalist", "contributor"})
  \/ AtLeast(RoleOf(l), "editor") /\ Serves(l, u, {"editor"})
  \/ AtLeast(RoleOf(l), "owner") /\ Serves(l, u, {"owner"})

MayDestroyUser(l, u) ==
  \/ RoleOf(l) = "admin"
  \/ AtLeast(RoleOf(l), "owner") /\ Serves(l, u, Roles \ {"admin"})

\* user_is_member_in_current_team
Valid(u, T) == T = Nil \/ IsMember(u, T)

\* check_ability and check_destroy_ability: nobody is asked without a current user.
Checked(l) == IF l.user = Nil THEN l ELSE Able(l)
Allowed(l, may) == l.user = Nil \/ may

\* History: what was asked, if somebody was.
Ask(handler, u, l, slug, ok) ==
  decision' = IF l.user = Nil THEN Nil
              ELSE [handler |-> handler, for |-> u, by |-> l.user, team |-> l.team,
                    slug |-> slug, ok |-> ok]

\* The rows of a user once the i-th is destroyed.
Without(s, i) == [j \in 1..Len(s) - 1 |-> IF j < i THEN s[j] ELSE s[j + 1]]

Leave(t, l) == local' = [local EXCEPT ![t] = l]
Serve(t, r) == req' = [req EXCEPT ![t] = r]

Begin(t) == /\ req[t] = Idle
            /\ begun < MaxRequests
            /\ begun' = begun + 1
            /\ UNCHANGED <<ever, moves>>

\* A handler that is done with its first step.
AtOnce(t) == Begin(t) /\ UNCHANGED req

Cleared(l) == [l EXCEPT !.user = Nil, !.at = Nil]

-----------------------------------------------------------------------------
Init == /\ status = [u \in Users |-> IF u \in Newcomers THEN "none" ELSE "confirmed"]
        /\ joined = [u \in Users |-> IF u \in Newcomers THEN <<>> ELSE Joined[u]]
        /\ current = [u \in Users |-> Nil]
        /\ local = [t \in Threads |-> [user |-> Nil, at |-> Nil, team |-> Nil]]
        /\ req = [t \in Threads |-> Idle]
        /\ decision = Nil
        /\ ever = [u \in Users |-> {joined[u][i] : i \in DOMAIN joined[u]}]
        /\ begun = 0
        /\ moves = 0

\* authenticate_user!: a token signs in, which saves the time of it; else the session is
\* asked, and only for a query named About nobody is.
Authenticated(l, u, via) == CASE via = "token" -> Able(AsUser(l, u))
                              [] via = "session" -> Cleared(l)
                              [] via = "about" -> l

\* Mutant of WithUser: with ||=.
WithUserUnlessSet(l, u) == IF l.user = Nil THEN AsUser(l, u) ELSE l

\* set_current_user.
WithUser(l, u) == AsUser(l, u)

\* Mutant of InContext: the team is set when there is one.
InContextNamed(l, slug) == [l EXCEPT !.team = IF slug = Nil THEN @ ELSE slug]

\* load_context_team: nil when none is named, or none is found.
InContext(l, slug) == [l EXCEPT !.team = slug]

Filtered(l, u, slug, via) == InContext(WithUser(Authenticated(l, u, via), u), slug)

\* Mutant of MustSwitch: whatever the context team is.
MustSwitchAnyway(u, slug) == current[u] # slug

\* The conditions of set_current_team.
MustSwitch(u, slug) == slug # Nil /\ IsMember(u, slug) /\ current[u] # slug

\* A GraphQL request up to its query, or to the save! of set_current_team.
BeginQuery(t, u, slug, via) ==
  /\ Begin(t)
  /\ status[u] = "confirmed"
  /\ Leave(t, Filtered(local[t], u, slug, via))
  /\ IF via = "token"
     THEN LET l == Authenticated(local[t], u, via) IN Ask("token", u, l, slug, MayUpdateUser(l, u))
     ELSE decision' = Nil
  /\ Serve(t, [pc |-> IF MustSwitch(u, slug) THEN "switch" ELSE "query",
               user |-> u, slug |-> slug])
  /\ UNCHANGED <<status, joined, current>>

\* Who queries About without a session changes nothing.
BeginAbout(t, slug) == /\ Begin(t)
                       /\ Leave(t, Filtered(local[t], Nil, slug, "about"))
                       /\ Serve(t, [pc |-> "query", user |-> Nil, slug |-> slug])
                       /\ decision' = Nil
                       /\ UNCHANGED <<status, joined, current>>

\* set_current_team: a user that has left meanwhile is invalid, which nobody rescues.
Switch(t) ==
  /\ req[t].pc = "switch"
  /\ LET u == req[t].user
         slug == req[t].slug
         l == Able([local[t] EXCEPT !.at = slug])
     IN \/ /\ Valid(u, slug) /\ MayUpdateUser(l, u)
           /\ current' = [current EXCEPT ![u] = slug]
           /\ Leave(t, l)
           /\ Ask("switch", u, l, slug, TRUE)
           /\ Serve(t, [req[t] EXCEPT !.pc = "query"])
        \/ /\ ~Valid(u, slug)
           /\ Leave(t, [local[t] EXCEPT !.at = slug])
           /\ decision' = Nil
           /\ Serve(t, Idle)
           /\ UNCHANGED current
  /\ UNCHANGED <<status, joined, ever, begun, moves>>

\* The thread once a query asked for a permission.
Asker(t) == Checked(local[t])

\* A query asks for a permission, by a field or a mutation, and gets it or does not.
Asks(t, ok) == /\ req[t].pc = "query"
               /\ Leave(t, Asker(t))
               /\ Ask("query", req[t].user, Asker(t), req[t].slug, ok)

\* A field that is there for all, as permissions and what everybody reads.
Look(t) == /\ Asks(t, TRUE)
           /\ UNCHANGED <<status, joined, current, req, ever, begun, moves>>

Move(t) == /\ req[t].pc = "query"
           /\ req[t].user # Nil
           /\ moves < MaxMoves
           /\ moves' = moves + 1
           /\ UNCHANGED <<status, current, begun>>

\* createTeamUser for oneself.
Join(t, T) == LET u == req[t].user
              IN /\ Move(t)
                 /\ ~IsMember(u, T)
                 /\ Asks(t, TRUE)
                 /\ joined' = [joined EXCEPT ![u] = Append(@, T)]
                 /\ ever' = [ever EXCEPT ![u] = @ \cup {T}]
                 /\ UNCHANGED req

\* destroyTeamUser of a row of one's own: it takes a role in the context team.
Quit(t) == LET u == req[t].user
               ok == RoleOf(Asker(t)) # Nil
           IN /\ Move(t)
              /\ Asks(t, ok)
              /\ \E i \in DOMAIN joined[u] :
                   joined' = IF ok THEN [joined EXCEPT ![u] = Without(@, i)] ELSE joined
              /\ Serve(t, IF ok THEN req[t] ELSE Idle)
              /\ UNCHANGED ever

\* Mutant of Accepted: saved without validation.
AcceptedAnyway(v, T, ok) == ok

\* save! of a user with T for its current team: valid and permitted.
Accepted(v, T, ok) == Valid(v, T) /\ ok

\* updateUser sets the current team of v.
UpdateUser(t, v, T) ==
  LET ok == MayUpdateUser(Asker(t), v)
  IN /\ req[t].pc = "query" /\ req[t].user # Nil
     /\ status[v] = "confirmed"
     /\ Asks(t, ok)
     /\ current' = IF Accepted(v, T, ok) THEN [current EXCEPT ![v] = T] ELSE current
     /\ Serve(t, IF Accepted(v, T, ok) THEN req[t] ELSE Idle)
     /\ UNCHANGED <<status, joined, ever, begun, moves>>

\* The response is rendered; the thread keeps what was set.
Finish(t) == /\ req[t].pc = "query"
             /\ Serve(t, Idle)
             /\ decision' = Nil
             /\ UNCHANGED <<status, joined, current, local, ever, begun, moves>>

-----------------------------------------------------------------------------
\* A 401 of GraphQL or of a sign in, a sign out, a logout: User.current = nil.
Anonymous(t) == /\ req[t] = Idle
                /\ Leave(t, Cleared(local[t]))
                /\ decision' = Nil
                /\ UNCHANGED <<status, joined, current, req, ever, begun, moves>>

\* A token of who has not confirmed, or a confirmation with a wrong token: the current
\* user is set, and the request refused.
Rejected(t) == /\ AtOnce(t)
               /\ \E u \in {v \in Users : status[v] = "unconfirmed"} \cup {Guest} :
                    Leave(t, AsUser(local[t], u))
               /\ decision' = Nil
               /\ UNCHANGED <<status, joined, current>>

\* `me`, by token or session, with the permissions of whom the thread was left with.
Me(t, u) == LET l == Checked(local[t])
            IN /\ AtOnce(t)
               /\ status[u] \in {"confirmed", "unconfirmed"}
               /\ Leave(t, l)
               /\ Ask("me", u, l, Nil, TRUE)
               /\ UNCHANGED <<status, joined, current>>

\* Mutant of BeforeEntry: the thread is entered as it was left.
AsLeft(l) == l

\* User.current = nil, before warden authenticates or a token confirms.
BeforeEntry(l) == Cleared(l)

\* Sign in: the save of its time, then the user with its permissions.
SignIn(t, u) ==
  LET l == Checked(BeforeEntry(local[t]))
      ok == Allowed(l, MayUpdateUser(l, u))
      m == IF ok THEN Able(AsUser(l, u)) ELSE l
  IN /\ AtOnce(t)
     /\ status[u] = "confirmed"
     /\ Leave(t, m)
     /\ Ask("sign_in", u, m, Nil, ok)
     /\ UNCHANGED <<status, joined, current>>

\* Sign up: the current user is the one that is built, saved or not; its image is set
\* by a second save.
SignUp(t, u) ==
  LET l == Able(AsUser(local[t], u))
  IN /\ AtOnce(t)
     /\ status[u] = "none"
     /\ \/ /\ status' = [status EXCEPT ![u] = "unconfirmed"]
           /\ Leave(t, l)
           /\ Ask("sign_up", u, l, Nil, MayUpdateUser(l, u))
        \/ /\ Leave(t, AsUser(local[t], Guest))
           /\ decision' = Nil
           /\ UNCHANGED status
     /\ UNCHANGED <<joined, current>>

\* The link of the mail: saved in nobody's name.
Confirm(t, u) ==
  LET l == Checked(BeforeEntry(local[t]))
      ok == Allowed(l, MayUpdateUser(l, u))
  IN /\ AtOnce(t)
     /\ status[u] = "unconfirmed"
     /\ status' = [status EXCEPT ![u] = IF ok THEN "confirmed" ELSE @]
     /\ Leave(t, IF ok THEN AsUser(l, u) ELSE l)
     /\ Ask("confirm", u, l, Nil, ok)
     /\ UNCHANGED <<joined, current>>

\* from_omniauth looks for the user of the provider ...
FindByProvider(t, u) ==
  /\ Begin(t)
  /\ status[u] \in {"none", "confirmed"}
  /\ Serve(t, [pc |-> "provider", user |-> u, found |-> status[u] = "confirmed",
               at |-> current[u]])
  /\ decision' = Nil
  /\ UNCHANGED <<status, joined, current, local>>

\* ... and saves it: the unique index refuses a second row, the validation who is no
\* member of its current team, as it was loaded.
SaveByProvider(t) ==
  LET u == req[t].user
      l == [AsUser(local[t], u) EXCEPT !.at = req[t].at]
  IN /\ req[t].pc = "provider"
     /\ \/ /\ ~req[t].found /\ status[u] # "none"
           /\ Leave(t, AsUser(local[t], Guest))
           /\ decision' = Nil
           /\ UNCHANGED status
        \/ /\ req[t].found /\ ~Valid(u, req[t].at)
           /\ Leave(t, l)
           /\ Ask("provider", u, l, Nil, FALSE)
           /\ UNCHANGED status
        \/ /\ IF req[t].found THEN Valid(u, req[t].at) ELSE status[u] = "none"
           /\ Leave(t, Able(l))
           /\ Ask("provider", u, Able(l), Nil, MayUpdateUser(Able(l), u))
           /\ status' = IF req[t].found THEN status ELSE [status EXCEPT ![u] = "confirmed"]
     /\ Serve(t, Idle)
     /\ UNCHANGED <<joined, current, ever, begun, moves>>

\* PUT /users: saved in the name of whom the thread was left with, then the current user
\* is set, unless the save was refused; an invalid one is not even asked for.
Update(t, u) ==
  LET l == Checked(local[t])
      ok == Allowed(l, MayUpdateUser(l, u))
  IN /\ AtOnce(t)
     /\ status[u] = "confirmed"
     /\ \/ /\ Valid(u, current[u])
           /\ Leave(t, IF ok THEN AsUser(l, u) ELSE l)
           /\ Ask("update", u, l, Nil, ok)
        \/ /\ Leave(t, AsUser(local[t], u))
           /\ decision' = Nil
     /\ UNCHANGED <<status, joined, current>>

\* DELETE /users: destroyed in the name of whom the thread was left with.
Delete(t, u) ==
  LET l == Checked(local[t])
      ok == Allowed(l, MayDestroyUser(l, u))
  IN /\ AtOnce(t)
     /\ status[u] = "confirmed"
     /\ status' = [status EXCEPT ![u] = IF ok THEN "deleted" ELSE @]
     /\ Leave(t, l)
     /\ Ask("delete", u, l, Nil, ok)
     /\ UNCHANGED <<joined, current>>

-----------------------------------------------------------------------------
GraphQL(t) ==
  \/ \E u \in Users, slug \in TeamOrNil, via \in {"token", "session", "about"} :
       BeginQuery(t, u, slug, via)
  \/ \E slug \in TeamOrNil : BeginAbout(t, slug)
  \/ Switch(t) \/ Look(t) \/ Finish(t)
  \/ Quit(t) \/ \E T \in Teams : Join(t, T)
  \/ \E v \in Users, T \in Teams : UpdateUser(t, v, T)

Entry(t) == \/ Anonymous(t) \/ Rejected(t) \/ SaveByProvider(t)
            \/ \E u \in Users : SignIn(t, u) \/ SignUp(t, u) \/ Confirm(t, u) \/ FindByProvider(t, u)

Account(t) == \E u \in Users : Me(t, u) \/ Update(t, u) \/ Delete(t, u)

Next == \E t \in Threads : GraphQL(t) \/ Entry(t) \/ Account(t)

Spec == Init /\ [][Next]_vars

-----------------------------------------------------------------------------
OfAccounts == {"me", "update", "delete"}

\* Whoever the thread served before, a GraphQL request, a sign in, a sign up, a
\* confirmation and a provider are decided in the name of the user they are of
\* (base_api_controller.rb:67, graphql_controller.rb:42, sessions_controller.rb:8-11).
ActsAsItself == decision # Nil /\ decision.handler \notin OfAccounts => decision.by = decision.for

\* A query is decided in the team it names; one that names none in a team its user was
\* a member of at some time, never in the one the thread was left with
\* (graphql_controller.rb:45-52, ability.rb:7).
InItsTeam ==
  decision # Nil /\ decision.handler = "query"
  => IF decision.slug # Nil THEN decision.team = decision.slug
     ELSE decision.team \in ever[decision.for] \cup {Nil}

\* A user's current team is one it was a member of, however its memberships and its
\* requests interleave (user.rb:211-216).
CurrentTeamWasJoined == \A u \in Users : current[u] \in ever[u] \cup {Nil}

\* Nobody is kept from entering by whom the thread served before; by a provider, only
\* who has left a team (user.rb:56-57, sessions_controller.rb:8).
EntryNotRefused ==
  decision # Nil /\ ~decision.ok
  => \/ decision.handler \in OfAccounts \cup {"query"}
     \/ decision.handler = "provider" /\ \E T \in ever[decision.for] : ~IsMember(decision.for, T)
=============================================================================
