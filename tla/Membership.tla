----------------------------- MODULE Membership -----------------------------
(***************************************************************************)
(* The members of one public team: the rows of `team_users`, the requests  *)
(* that create, update and destroy them (app/models/team_user.rb), the     *)
(* permissions asked on the way (app/models/ability.rb) and the cached     *)
(* roles that decide them (User#role).                                     *)
(*                                                                         *)
(* The team is the context of every request; how it comes to be is the     *)
(* subject of RequestContext.  A role is read from the                     *)
(* database, then from the cache until the entry expires; a create looks   *)
(* for a duplicate before it inserts, and an update saves a row it loaded  *)
(* earlier.  Time is counted in ticks, far longer than a query: what save! *)
(* asks, validates and writes is one step.                                 *)
(*                                                                         *)
(* updateTeamUser may name another user for the row, and another team      *)
(* (team_user_mutations.rb:9-15).  The user is modelled.  The team is not: *)
(* no row goes to another team or comes from one, though an editor of      *)
(* another team may name its own for a row of this one (ability.rb:71).    *)
(***************************************************************************)
EXTENDS Permissions

CONSTANTS Users, Threads,
          TTL,      \* 30 seconds (user.rb:35), in ticks
          Joins,    \* bound: <<status, role>> a create may ask for
          Changes,  \* bound: <<user, status, role>> an update may ask for, Nil for none
          MaxRows,  \* bound: no create begins after this many rows
          Nil

Statuses == {"member", "requested", "invited", "banned"}

ASSUME TTLAssumption == TTL \in Nat \ {0}
ASSUME BoundsAssumption == /\ MaxRows \in Nat
                           /\ Joins \subseteq Statuses \X Roles
                           /\ Changes \subseteq (Users \cup {Nil}) \X (Statuses \cup {Nil}) \X (Roles \cup {Nil})
ASSUME NilAssumption == Nil \notin Roles /\ Nil \notin Statuses /\ Nil \notin Users

VARIABLES rows,      \* team_users of the team
          nextRow,
          cache,     \* the live entries of Rails.cache: role_{team}_{user}
          req,       \* the request each thread serves
          since      \* history: ticks since each user last had each role, up to TTL

vars == <<rows, nextRow, cache, req, since>>

RoleOrNil == Roles \cup {Nil}
Row == [id : Nat, user : Users, status : Statuses, role : Roles]
Entry == [role : RoleOrNil, age : 0..TTL - 1]
NoEntry == [role |-> Nil, age |-> TTL]
Idle == [pc |-> "idle"]
Creating == [pc : {"create"}, user : Users, status : Statuses, role : Roles]
Updating == [pc : {"update"}, by : Users, row : Row, user : Users \cup {Nil},
             status : Statuses \cup {Nil}, role : RoleOrNil]

TypeOK == /\ rows \subseteq Row
          /\ nextRow \in Nat
          /\ cache \in [Users -> Entry \cup {NoEntry}]
          /\ req \in [Threads -> {Idle} \cup Creating \cup Updating]
          /\ since \in [Users -> [RoleOrNil -> 0..TTL]]

-----------------------------------------------------------------------------
Memberships(rs, u) == {m \in rs : m.user = u /\ m.status = "member"}

\* The role of a user in the database: that of its row, if it is a member's.
RoleIn(rs, u) == IF Memberships(rs, u) = {} THEN Nil
                 ELSE (CHOOSE m \in Memberships(rs, u) : TRUE).role

Live(u) == cache[u] # NoEntry

\* User#role: read from the cache while there is an entry for it.
RoleOf(u) == IF Live(u) THEN cache[u].role ELSE RoleIn(rows, u)

\* The cache once the roles of the users in `us` have been asked for.
Asked(us) == [u \in Users |-> IF u \in us /\ ~Live(u) THEN [role |-> RoleOf(u), age |-> 0]
                              ELSE cache[u]]

\* Ability on create: oneself as a member or to ask for it, others up to one's rank.
MayCreate(u, user, status, role) ==
  \/ u = user /\ status \in {"member", "requested"}
  \/ AtLeast(RoleOf(u), "journalist") /\ role \in {"journalist", "contributor"}
  \/ AtLeast(RoleOf(u), "editor") /\ role = "editor"
  \/ AtLeast(RoleOf(u), "owner") /\ role = "owner"
  \/ RoleOf(u) = "admin"

EditorReach == {"editor", "journalist", "contributor"}
OwnerReach == EditorReach \cup {"owner"}

\* Mutant of MayUpdate: without a look at the role the user is known by.
MayUpdateAnybody(u, user, role) ==
  \/ /\ u # user
     /\ \/ AtLeast(RoleOf(u), "editor") /\ role \in EditorReach
        \/ AtLeast(RoleOf(u), "owner") /\ role \in OwnerReach
  \/ RoleOf(u) = "admin"

\* Ability on update: the row of somebody else, when the role the row is to have
\* and the role the user it is to be of is known by are both within reach.
MayUpdate(u, user, role) ==
  \/ /\ u # user
     /\ \/ /\ AtLeast(RoleOf(u), "editor")
           /\ role \in EditorReach /\ RoleOf(user) \in EditorReach \cup {Nil}
        \/ /\ AtLeast(RoleOf(u), "owner")
           /\ role \in OwnerReach /\ RoleOf(user) \in OwnerReach \cup {Nil}
  \/ RoleOf(u) = "admin"

\* Ability on destroy: one's own row, with a role in the team.
MayDestroy(u, user) == \/ u = user /\ RoleOf(u) # Nil
                       \/ RoleOf(u) = "admin"

\* History: the roles users have once the rows are `rs`.
Seen(rs) == [u \in Users |-> [since[u] EXCEPT ![RoleIn(rs, u)] = 0]]

\* History: the same a tick later.
Older == [u \in Users |-> [r \in RoleOrNil |->
            IF r = RoleIn(rows, u) THEN 0
            ELSE IF since[u][r] < TTL THEN since[u][r] + 1 ELSE TTL]]

Serve(t, r) == req' = [req EXCEPT ![t] = r]

\* What a request does before its query: the user's abilities are loaded.
Enter(u) == cache' = Asked({u})

-----------------------------------------------------------------------------
Init == /\ rows = {}
        /\ nextRow = 1
        /\ cache = [u \in Users |-> NoEntry]
        /\ req = [t \in Threads |-> Idle]
        /\ since = [u \in Users |-> [r \in RoleOrNil |-> IF r = Nil THEN 0 ELSE TTL]]

\* Team#add_user_to_team: who creates the team owns it and works in it.
Found(u) ==
  /\ nextRow = 1
  /\ rows' = {[id |-> 1, user |-> u, status |-> "member", role |-> "owner"]}
  /\ nextRow' = 2
  /\ since' = Seen(rows')
  /\ UNCHANGED <<cache, req>>

\* A query that changes no membership.
Visit(u) == /\ Enter(u)
            /\ UNCHANGED <<rows, nextRow, req, since>>

\* createTeamUser up to its INSERT: there is no such row, and the user may.
BeginCreate(t, u, user, status, role) ==
  /\ req[t] = Idle
  /\ nextRow \in 2..MaxRows
  /\ \A m \in rows : m.user # user
  /\ MayCreate(u, user, status, role)
  /\ Enter(u)
  /\ Serve(t, [pc |-> "create", user |-> user, status |-> status, role |-> role])
  /\ UNCHANGED <<rows, nextRow, since>>

\* Mutant of Insert: without the unique index of `team_users`.
InsertAlways(t) ==
  /\ req[t].pc = "create"
  /\ rows' = rows \cup {[id |-> nextRow, user |-> req[t].user,
                         status |-> req[t].status, role |-> req[t].role]}
  /\ nextRow' = nextRow + 1
  /\ since' = Seen(rows')
  /\ Serve(t, Idle)
  /\ UNCHANGED cache

\* The INSERT: the unique index of `team_users` refuses a second row.
Insert(t) ==
  /\ req[t].pc = "create"
  /\ \A m \in rows : m.user # req[t].user
  /\ rows' = rows \cup {[id |-> nextRow, user |-> req[t].user,
                         status |-> req[t].status, role |-> req[t].role]}
  /\ nextRow' = nextRow + 1
  /\ since' = Seen(rows')
  /\ Serve(t, Idle)
  /\ UNCHANGED cache

RecordNotUnique(t) ==
  /\ req[t].pc = "create"
  /\ \E m \in rows : m.user = req[t].user
  /\ Serve(t, Idle)
  /\ UNCHANGED <<rows, nextRow, cache, since>>

\* updateTeamUser: the row is loaded, and what it is asked to have of a user, a
\* status and a role is assigned.
BeginUpdate(t, u, m, user, status, role) ==
  /\ req[t] = Idle
  /\ Enter(u)
  /\ Serve(t, [pc |-> "update", by |-> u, row |-> m, user |-> user,
               status |-> status, role |-> role])
  /\ UNCHANGED <<rows, nextRow, since>>

\* Mutant of Asking: the default status is set on update as on create.
AskingDefault(r) == [r.row EXCEPT !.user = IF r.user = Nil THEN @ ELSE r.user,
                                  !.status = IF r.status = Nil THEN "member" ELSE r.status,
                                  !.role = IF r.role = Nil THEN @ ELSE r.role]

\* The values an update asks for, where it asks, and those it loaded.
Asking(r) == [r.row EXCEPT !.user = IF r.user = Nil THEN @ ELSE r.user,
                           !.status = IF r.status = Nil THEN @ ELSE r.status,
                           !.role = IF r.role = Nil THEN @ ELSE r.role]

Column(old, new, stored) == IF new # old THEN new ELSE stored

\* The UPDATE: the columns that differ from what was loaded, in the row of that
\* id, if there still is one.
Written(r) ==
  {IF m.id = r.row.id
   THEN [m EXCEPT !.user = Column(r.row.user, Asking(r).user, @),
                  !.status = Column(r.row.status, Asking(r).status, @),
                  !.role = Column(r.row.role, Asking(r).role, @)]
   ELSE m : m \in rows}

\* "already joined this team": the user the row is to be of has another by now.
AlreadyJoined(r) == \E m \in rows : m.user = Asking(r).user /\ m.id # r.row.id

\* Mutant of Save: a row that is gone is created again.
SaveRecreates(t) ==
  /\ req[t].pc = "update"
  /\ ~AlreadyJoined(req[t])
  /\ cache' = Asked({req[t].by, Asking(req[t]).user})
  /\ rows' = Written(req[t]) \cup
               (IF \E m \in rows : m.id = req[t].row.id THEN {} ELSE {Asking(req[t])})
  /\ since' = Seen(rows')
  /\ Serve(t, Idle)
  /\ UNCHANGED nextRow

\* save!: validated, then permitted, then written.
Save(t) ==
  /\ req[t].pc = "update"
  /\ \/ /\ AlreadyJoined(req[t])
        /\ UNCHANGED <<rows, cache>>
     \/ /\ ~AlreadyJoined(req[t])
        /\ cache' = Asked({req[t].by, Asking(req[t]).user})
        /\ rows' = IF MayUpdate(req[t].by, Asking(req[t]).user, Asking(req[t]).role)
                   THEN Written(req[t]) ELSE rows
  /\ since' = Seen(rows')
  /\ Serve(t, Idle)
  /\ UNCHANGED nextRow

\* destroyTeamUser.
Destroy(u, m) ==
  /\ MayDestroy(u, m.user)
  /\ Enter(u)
  /\ rows' = rows \ {m}
  /\ since' = Seen(rows')
  /\ UNCHANGED <<nextRow, req>>

\* Mutants of Tick: entries expire a tick late; entries do not expire.
TickLate ==
  /\ cache' = [u \in Users |-> IF ~Live(u) \/ cache[u].age = TTL THEN NoEntry
                               ELSE [cache[u] EXCEPT !.age = @ + 1]]
  /\ since' = Older
  /\ UNCHANGED <<rows, nextRow, req>>

TickKeepsEntries ==
  /\ cache' = cache
  /\ since' = Older
  /\ UNCHANGED <<rows, nextRow, req>>

\* Time passes, and the entries that are TTL old expire.
Tick ==
  /\ cache' = [u \in Users |-> IF ~Live(u) \/ cache[u].age + 1 = TTL THEN NoEntry
                               ELSE [cache[u] EXCEPT !.age = @ + 1]]
  /\ since' = Older
  /\ UNCHANGED <<rows, nextRow, req>>

-----------------------------------------------------------------------------
Requests(t) ==
  \/ \E u, user \in Users, ask \in Joins : BeginCreate(t, u, user, ask[1], ask[2])
  \/ \E u \in Users, m \in rows, ask \in Changes :
       BeginUpdate(t, u, m, ask[1], ask[2], ask[3])
  \/ Insert(t) \/ RecordNotUnique(t) \/ Save(t)

Next == \/ \E u \in Users : Found(u) \/ Visit(u)
        \/ \E t \in Threads : Requests(t)
        \/ \E u \in Users, m \in rows : Destroy(u, m)
        \/ Tick

Spec == Init /\ [][Next]_vars

-----------------------------------------------------------------------------
\* However creates overlap, a user has one row in the team
\* (team_user.rb:10, migrate/20160822140558).
OneRowPerUser == \A m, n \in rows : m.user = n.user => m = n

\* A role that permissions are decided by is one the user had less than 30
\* seconds ago: a demotion, a ban or a departure takes effect in that time,
\* however often the role is asked for (user.rb:31-41).
RecentRole == \A u \in Users : since[u][RoleOf(u)] < TTL

IsBanned(u) == \E m \in rows : m.user = u /\ m.status = "banned"

\* A ban is lifted by a request that asks for another status, or with the row: when
\* it is destroyed or made another user's.  An update that loaded the row before the
\* ban and is after the role leaves it standing.
BanStands ==
  [][\A u \in Users :
       IsBanned(u) /\ ~IsBanned(u)' /\ (\E m \in rows' : m.user = u)
       => \E t \in Threads : /\ req[t] # Idle /\ req'[t] = Idle
                             /\ req[t].status \in Statuses \ {"banned"}]_vars

\* A row that was destroyed does not come back with a save of who loaded it before.
LeftStaysLeft ==
  [][\A n \in rows' : n.id < nextRow => \E m \in rows : m.id = n.id]_vars

\* A save by somebody that is not known as an owner changes the row of a member who
\* is: one that was loaded as that user's and is to stay that user's.
Overrules(t, m) == /\ req[t] # Idle /\ req'[t] = Idle /\ req[t].pc = "update"
                   /\ req[t].row.user = m.user /\ req[t].user \in {Nil, m.user}
                   /\ m.status = "member" /\ m.role = "owner" /\ m \notin rows'
                   /\ ~AtLeast(RoleOf(req[t].by), "owner")

\* Had no other role for as long as an entry lives.
Settled(u, role) == \A r \in RoleOrNil \ {role} : since[u][r] = TTL

\* An owner that has been one for 30 seconds is not overruled, though the role that
\* protects it is cached, by the very check that lets a row be changed
\* (ability.rb:68-71).  A request that names another user for the row takes it from
\* any owner: the role asked for is then that of the user named.
SettledOwnersStay ==
  [][\A t \in Threads, m \in rows : Settled(m.user, "owner") => ~Overrules(t, m)]_vars

\* "should not downgrade higher roles" (team_user_test.rb:166-180), settled or not.
HigherRolesStay == [][\A t \in Threads, m \in rows : ~Overrules(t, m)]_vars
=============================================================================
