------------------------- MODULE Membership_proofs -------------------------
(***************************************************************************)
(* Theorems about Membership, for any users, threads, TTL and requests.    *)
(***************************************************************************)
EXTENDS Membership, TLAPS

USE TTLAssumption, BoundsAssumption, NilAssumption

\* A cached role is one the user had no longer ago than the entry is old, and the
\* role in the database is one the user has now.
FreshInv == \A u \in Users : /\ Live(u) => since[u][cache[u].role] <= cache[u].age
                             /\ since[u][RoleIn(rows, u)] = 0

\* The ids of the rows are theirs alone.
IdsInv == /\ \A m \in rows : m.id < nextRow
          /\ \A m, n \in rows : m.id = n.id => m = n

IInv == TypeOK /\ IdsInv /\ OneRowPerUser /\ FreshInv

\* The parts of the invariant that each group of variables carries.
CacheOK(c) == c \in [Users -> Entry \cup {NoEntry}]

SinceOK(s) == s \in [Users -> [RoleOrNil -> 0..TTL]]

ReqOK(r) == r \in [Threads -> {Idle} \cup Creating \cup Updating]

\* The role in the database is a role or none.
LEMMA RoleInType ==
  ASSUME NEW rs \in SUBSET Row, NEW u \in Users
  PROVE  RoleIn(rs, u) \in RoleOrNil
<1>1. CASE Memberships(rs, u) = {}
  BY <1>1 DEF RoleIn, RoleOrNil
<1>2. CASE Memberships(rs, u) # {}
  <2>1. (CHOOSE m \in Memberships(rs, u) : TRUE) \in Memberships(rs, u)
    BY <1>2
  <2>2. (CHOOSE m \in Memberships(rs, u) : TRUE) \in Row
    BY <2>1 DEF Memberships
  <2> QED
    BY <1>2, <2>2 DEF RoleIn, RoleOrNil, Row
<1> QED
  BY <1>1, <1>2

\* An entry that is read or written now holds a role the user had recently.
LEMMA RoleOfType ==
  ASSUME IInv, NEW u \in Users
  PROVE  /\ RoleOf(u) \in RoleOrNil
         /\ since[u][RoleOf(u)] \in 0..TTL - 1
<1>1. RoleIn(rows, u) \in RoleOrNil
  BY RoleInType DEF IInv, TypeOK
<1>2. CASE Live(u)
  <2>1. cache[u] \in Entry
    BY <1>2 DEF Live, IInv, TypeOK
  <2>2. cache[u].role \in RoleOrNil /\ cache[u].age \in 0..TTL - 1
    BY <2>1 DEF Entry
  <2>3. since[u][cache[u].role] \in 0..TTL /\ since[u][cache[u].role] <= cache[u].age
    BY <1>2, <2>2 DEF IInv, TypeOK, FreshInv
  <2> QED
    BY <1>2, <2>2, <2>3 DEF RoleOf
<1>3. CASE ~Live(u)
  BY <1>1, <1>3 DEF RoleOf, IInv, FreshInv
<1> QED
  BY <1>2, <1>3

\* Asking for roles keeps the cache true: what is added is the role of now.
LEMMA AskedFresh ==
  ASSUME IInv, NEW us \in SUBSET Users
  PROVE  /\ CacheOK(Asked(us))
         /\ \A u \in Users : Asked(us)[u] # NoEntry
              => since[u][Asked(us)[u].role] <= Asked(us)[u].age
<1>1. ASSUME NEW u \in Users
      PROVE  /\ Asked(us)[u] \in Entry \cup {NoEntry}
             /\ Asked(us)[u] # NoEntry => since[u][Asked(us)[u].role] <= Asked(us)[u].age
  <2>1. RoleIn(rows, u) \in RoleOrNil /\ since[u][RoleIn(rows, u)] = 0
    BY RoleInType DEF IInv, TypeOK, FreshInv
  <2>2. CASE u \in us /\ ~Live(u)
    <3>1. Asked(us)[u] = [role |-> RoleIn(rows, u), age |-> 0]
      BY <2>2 DEF Asked, RoleOf
    <3>2. [role |-> RoleIn(rows, u), age |-> 0] \in Entry
      BY <2>1 DEF Entry
    <3> QED
      BY <2>1, <3>1, <3>2
  <2>3. CASE ~(u \in us /\ ~Live(u))
    <3>1. Asked(us)[u] = cache[u]
      BY <2>3 DEF Asked
    <3> QED
      BY <3>1 DEF IInv, TypeOK, FreshInv, Live
  <2> QED
    BY <2>2, <2>3
<1> QED
  BY <1>1 DEF CacheOK, Asked

\* Recording the roles users have now keeps the history of the others.
LEMMA SeenFresh ==
  ASSUME IInv, NEW rs \in SUBSET Row
  PROVE  /\ SinceOK(Seen(rs))
         /\ \A u \in Users : /\ Seen(rs)[u][RoleIn(rs, u)] = 0
                             /\ \A r \in RoleOrNil : Seen(rs)[u][r] <= since[u][r]
<1>1. ASSUME NEW u \in Users
      PROVE  /\ Seen(rs)[u] \in [RoleOrNil -> 0..TTL]
             /\ Seen(rs)[u][RoleIn(rs, u)] = 0
             /\ \A r \in RoleOrNil : Seen(rs)[u][r] <= since[u][r]
  <2>1. since[u] \in [RoleOrNil -> 0..TTL]
    BY DEF IInv, TypeOK
  <2>2. RoleIn(rs, u) \in RoleOrNil
    BY RoleInType
  <2>3. Seen(rs)[u] = [since[u] EXCEPT ![RoleIn(rs, u)] = 0]
    BY DEF Seen
  <2> QED
    BY <2>1, <2>2, <2>3
<1> QED
  BY <1>1 DEF SinceOK, Seen

\* A step that serves a request: well-typed rows and requests, a cache that asked
\* and a history that saw, keep the invariant.
LEMMA ServedIInv ==
  ASSUME IInv, NEW us \in SUBSET Users,
         rows' \in SUBSET Row, nextRow' \in Nat, ReqOK(req'),
         IdsInv', OneRowPerUser',
         cache' \in {cache, Asked(us)},
         since' = Seen(rows') \/ UNCHANGED <<rows, since>>
  PROVE  IInv'
<1>1. CacheOK(cache') /\ \A u \in Users : cache'[u] # NoEntry
                           => since[u][cache'[u].role] <= cache'[u].age
  <2>1. CASE cache' = cache
    BY <2>1 DEF IInv, TypeOK, FreshInv, Live, CacheOK
  <2>2. CASE cache' = Asked(us)
    BY <2>2, AskedFresh
  <2> QED
    BY <2>1, <2>2
<1>2. /\ SinceOK(since')
      /\ \A u \in Users : /\ since'[u][RoleIn(rows', u)] = 0
                          /\ \A r \in RoleOrNil : since'[u][r] <= since[u][r]
  <2>1. CASE since' = Seen(rows')
    BY <2>1, SeenFresh
  <2>2. CASE UNCHANGED <<rows, since>>
    <3>1. \A u \in Users, r \in RoleOrNil : since[u][r] \in 0..TTL
      BY DEF IInv, TypeOK
    <3> QED
      BY <2>2, <3>1 DEF IInv, TypeOK, FreshInv, SinceOK
  <2> QED
    BY <2>1, <2>2
<1>3. TypeOK'
  BY <1>1, <1>2 DEF TypeOK, CacheOK, SinceOK, ReqOK
<1>4. ASSUME NEW u \in Users, cache'[u] # NoEntry
      PROVE  since'[u][cache'[u].role] <= cache'[u].age
  <2>1. cache'[u].role \in RoleOrNil /\ cache'[u].age \in 0..TTL - 1
    BY <1>1, <1>4 DEF CacheOK, Entry
  <2>2. since'[u][cache'[u].role] \in 0..TTL /\ since[u][cache'[u].role] \in 0..TTL
    BY <1>2, <2>1 DEF SinceOK, IInv, TypeOK
  <2> QED
    BY <1>1, <1>2, <1>4, <2>1, <2>2
<1>5. FreshInv'
  BY <1>2, <1>4 DEF FreshInv, Live
<1> QED
  BY <1>3, <1>5 DEF IInv

\* The invariant holds to begin with.
LEMMA InitIInv == Init => IInv
<1> SUFFICES ASSUME Init PROVE IInv
  OBVIOUS
<1>1. TypeOK
  BY DEF Init, TypeOK, RoleOrNil
<1>2. OneRowPerUser
  BY DEF Init, OneRowPerUser
<1>3. ASSUME NEW u \in Users PROVE ~Live(u) /\ RoleIn(rows, u) = Nil
  BY DEF Init, Live, RoleIn, Memberships
<1>4. FreshInv
  BY <1>3 DEF Init, FreshInv, RoleOrNil
<1>5. IdsInv
  BY DEF Init, IdsInv
<1> QED
  BY <1>1, <1>2, <1>4, <1>5 DEF IInv

\* A thread that turns to a well-typed request leaves the requests well typed.
LEMMA ServeType ==
  ASSUME IInv, NEW t \in Threads, NEW r \in {Idle} \cup Creating \cup Updating, Serve(t, r)
  PROVE  ReqOK(req')
  BY DEF Serve, ReqOK, IInv, TypeOK

\* Entering a request asks for the user's role.
LEMMA EnterType ==
  ASSUME IInv, NEW u \in Users, Enter(u)
  PROVE  {u} \in SUBSET Users /\ cache' = Asked({u})
  BY DEF Enter, IInv, TypeOK

\* What an update asks for is a row, of the user it names or of the one it loaded.
LEMMA AskingType ==
  ASSUME NEW r \in Updating
  PROVE  /\ Asking(r) \in Row
         /\ Asking(r).user = IF r.user = Nil THEN r.row.user ELSE r.user
         /\ Asking(r).status = IF r.status = Nil THEN r.row.status ELSE r.status
  BY DEF Asking, Updating, Row, RoleOrNil

\* The row that an UPDATE makes of one.
Updated(r, m) == IF m.id = r.row.id
                 THEN [m EXCEPT !.user = Column(r.row.user, Asking(r).user, @),
                                !.status = Column(r.row.status, Asking(r).status, @),
                                !.role = Column(r.row.role, Asking(r).role, @)]
                 ELSE m

LEMMA UpdatedType ==
  ASSUME IInv, NEW r \in Updating, NEW m \in rows
  PROVE  /\ Updated(r, m) \in Row
         /\ Updated(r, m).id = m.id
         /\ m.id # r.row.id => Updated(r, m) = m
         /\ m.id = r.row.id =>
              /\ Updated(r, m).user = Column(r.row.user, Asking(r).user, m.user)
              /\ Updated(r, m).status = Column(r.row.status, Asking(r).status, m.status)
<1>1. m \in Row /\ r.row \in Row /\ Asking(r) \in Row
  BY AskingType DEF IInv, TypeOK, Updating
<1> QED
  BY <1>1 DEF Updated, Column, Row

LEMMA WrittenIs == ASSUME NEW r PROVE Written(r) = {Updated(r, m) : m \in rows}
  BY DEF Written, Updated

\* An UPDATE keeps the rows well typed and, of a user that has no other row, one to
\* a user.
LEMMA WrittenType ==
  ASSUME IInv, NEW r \in Updating, ~AlreadyJoined(r)
  PROVE  /\ Written(r) \in SUBSET Row
         /\ \A m, n \in Written(r) : m.user = n.user => m = n
<1>1. Written(r) \in SUBSET Row
  BY WrittenIs, UpdatedType
<1>2. ASSUME NEW a \in rows, NEW b \in rows, Updated(r, a).user = Updated(r, b).user
      PROVE  a = b
  <2>1. CASE a.user = b.user
    BY <2>1 DEF IInv, OneRowPerUser
  <2>2. CASE a.id = r.row.id /\ b.id = r.row.id
    BY <2>2 DEF IInv, IdsInv
  <2>3. CASE a.id # r.row.id /\ b.id # r.row.id
    BY <1>2, <2>3, UpdatedType DEF IInv, OneRowPerUser
  <2>4. CASE a.id = r.row.id /\ b.id # r.row.id
    BY <1>2, <2>1, <2>4, UpdatedType DEF AlreadyJoined, Column
  <2>5. CASE a.id # r.row.id /\ b.id = r.row.id
    BY <1>2, <2>1, <2>5, UpdatedType DEF AlreadyJoined, Column
  <2> QED
    BY <2>2, <2>3, <2>4, <2>5
<1> QED
  BY <1>1, <1>2, WrittenIs

\* Saving an update keeps the invariant.
LEMMA SaveIInv == ASSUME IInv, NEW t \in Threads, Save(t) PROVE IInv'
<1> DEFINE r == req[t]
           us == {r.by, Asking(r).user}
<1>1. r \in Updating
  BY DEF Save, IInv, TypeOK, Idle, Creating
<1>2. rows' = rows \/ (rows' = Written(r) /\ ~AlreadyJoined(r))
  BY DEF Save
<1>3. rows' \in SUBSET Row /\ OneRowPerUser'
  BY <1>1, <1>2, WrittenType DEF IInv, TypeOK, OneRowPerUser
<1>4. us \in SUBSET Users
  BY <1>1, AskingType DEF Updating, Row
<1>5. cache' \in {cache, Asked(us)}
  BY DEF Save
<1>6. ReqOK(req')
  BY ServeType DEF Save
<1>7. nextRow' \in Nat /\ since' = Seen(rows') /\ nextRow' = nextRow
  BY DEF Save, IInv, TypeOK
<1>8. IdsInv'
  <2>1. CASE rows' = rows
    BY <1>7, <2>1 DEF IInv, IdsInv
  <2>2. CASE rows' = Written(r)
    <3>1. rows' = {Updated(r, m) : m \in rows}
      BY <2>2, WrittenIs
    <3>2. \A m \in rows : Updated(r, m).id = m.id
      BY <1>1, UpdatedType
    <3> QED
      BY <1>7, <3>1, <3>2 DEF IInv, IdsInv
  <2> QED
    BY <1>2, <2>1, <2>2
<1> QED
  BY <1>3, <1>4, <1>5, <1>6, <1>7, <1>8, ServedIInv

\* Inserting a row keeps the invariant: the index refuses a second row.
LEMMA InsertIInv == ASSUME IInv, NEW t \in Threads, Insert(t) PROVE IInv'
<1>1. req[t] \in Creating
  BY DEF Insert, IInv, TypeOK, Idle, Updating
<1> DEFINE m == [id |-> nextRow, user |-> req[t].user,
                 status |-> req[t].status, role |-> req[t].role]
<1>2. m \in Row /\ m.user = req[t].user
  BY <1>1 DEF Row, Creating, IInv, TypeOK
<1>3. rows' = rows \cup {m} /\ \A n \in rows : n.user # req[t].user
  BY DEF Insert
<1>4. rows' \in SUBSET Row /\ OneRowPerUser'
  BY <1>2, <1>3 DEF IInv, TypeOK, OneRowPerUser
<1>5. ReqOK(req')
  BY ServeType DEF Insert
<1>6. nextRow' \in Nat /\ since' = Seen(rows') /\ cache' = cache
  BY DEF Insert, IInv, TypeOK
<1>7. IdsInv'
  <2>1. /\ nextRow \in Nat /\ nextRow' = nextRow + 1 /\ m.id = nextRow
        /\ \A n \in rows : n.id \in Nat /\ n.id < nextRow
    BY DEF Insert, IInv, TypeOK, IdsInv, Row
  <2>2. \A n \in rows' : n.id < nextRow'
    BY <1>3, <2>1
  <2>3. \A a, b \in rows' : a.id = b.id => a = b
    BY <1>3, <2>1 DEF IInv, IdsInv
  <2> QED
    BY <2>2, <2>3 DEF IdsInv
<1> QED
  BY <1>4, <1>5, <1>6, <1>7, ServedIInv

\* Founding the team keeps the invariant.
LEMMA FoundIInv == ASSUME IInv, NEW u \in Users, Found(u) PROVE IInv'
<1>1. rows' \in SUBSET Row /\ OneRowPerUser' /\ IdsInv'
  BY DEF Found, Row, Statuses, Roles, OneRowPerUser, IdsInv
<1>2. ReqOK(req') /\ nextRow' \in Nat
  BY DEF Found, IInv, TypeOK, ReqOK
<1>3. since' = Seen(rows') /\ cache' = cache
  BY DEF Found
<1> QED
  BY <1>1, <1>2, <1>3, ServedIInv

\* Destroying a row keeps the invariant.
LEMMA DestroyIInv == ASSUME IInv, NEW u \in Users, NEW m \in rows, Destroy(u, m) PROVE IInv'
<1>1. rows' \in SUBSET Row /\ OneRowPerUser' /\ IdsInv'
  BY DEF Destroy, IInv, TypeOK, OneRowPerUser, IdsInv
<1>2. ReqOK(req') /\ nextRow' \in Nat
  BY DEF Destroy, IInv, TypeOK, ReqOK
<1>3. {u} \in SUBSET Users /\ cache' = Asked({u})
  BY EnterType DEF Destroy
<1>4. since' = Seen(rows')
  BY DEF Destroy
<1> QED
  BY <1>1, <1>2, <1>3, <1>4, ServedIInv

\* A request that begins, or a visit, keeps the invariant.
LEMMA BeginIInv ==
  ASSUME IInv, NEW u \in Users, Enter(u), ReqOK(req'), UNCHANGED <<rows, nextRow, since>>
  PROVE  IInv'
<1>1. {u} \in SUBSET Users /\ cache' = Asked({u})
  BY EnterType
<1>2. rows' \in SUBSET Row /\ nextRow' \in Nat /\ OneRowPerUser' /\ IdsInv'
  BY DEF IInv, TypeOK, OneRowPerUser, IdsInv
<1> QED
  BY <1>1, <1>2, ServedIInv

\* A tick ages the entries and the history alike.
LEMMA TickIInv == ASSUME IInv, Tick PROVE IInv'
<1>1. ASSUME NEW u \in Users
      PROVE  /\ cache'[u] \in Entry \cup {NoEntry}
             /\ since'[u] \in [RoleOrNil -> 0..TTL]
             /\ since'[u][RoleIn(rows', u)] = 0
             /\ cache'[u] # NoEntry => since'[u][cache'[u].role] <= cache'[u].age
  <2>1. RoleIn(rows, u) \in RoleOrNil
    BY RoleInType DEF IInv, TypeOK
  <2>2. since'[u] = [r \in RoleOrNil |->
                       IF r = RoleIn(rows, u) THEN 0
                       ELSE IF since[u][r] < TTL THEN since[u][r] + 1 ELSE TTL]
    BY DEF Tick, Older
  <2>3. since[u] \in [RoleOrNil -> 0..TTL]
    BY DEF IInv, TypeOK
  <2>4. since'[u] \in [RoleOrNil -> 0..TTL] /\ since'[u][RoleIn(rows, u)] = 0
    BY <2>1, <2>2, <2>3
  <2>5. rows' = rows
    BY DEF Tick
  <2>6. CASE ~Live(u) \/ cache[u].age + 1 = TTL
    BY <2>4, <2>5, <2>6 DEF Tick
  <2>7. CASE Live(u) /\ cache[u].age + 1 # TTL
    <3>1. cache[u] \in Entry /\ since[u][cache[u].role] <= cache[u].age
      BY <2>7 DEF Live, IInv, TypeOK, FreshInv
    <3>2. cache[u].role \in RoleOrNil /\ cache[u].age \in 0..TTL - 1
      BY <3>1 DEF Entry
    <3>3. cache'[u] = [cache[u] EXCEPT !.age = @ + 1]
      BY <2>7 DEF Tick
    <3>4. cache'[u].role = cache[u].role /\ cache'[u].age = cache[u].age + 1
          /\ cache'[u] \in Entry
      BY <2>7, <3>1, <3>2, <3>3 DEF Entry
    <3>5. since'[u][cache[u].role] <= cache[u].age + 1
      BY <2>2, <2>3, <3>1, <3>2
    <3> QED
      BY <2>4, <2>5, <3>4, <3>5
  <2> QED
    BY <2>6, <2>7
<1>2. CacheOK(cache') /\ SinceOK(since')
  BY <1>1 DEF CacheOK, SinceOK, Tick, Older
<1>3. TypeOK' /\ OneRowPerUser' /\ IdsInv'
  BY <1>2 DEF CacheOK, SinceOK, Tick, IInv, TypeOK, OneRowPerUser, IdsInv
<1>4. FreshInv'
  BY <1>1 DEF FreshInv, Live
<1> QED
  BY <1>3, <1>4 DEF IInv

\* The invariant is inductive: every step keeps it.
LEMMA StepIInv == IInv /\ [Next]_vars => IInv'
<1> SUFFICES ASSUME IInv, [Next]_vars PROVE IInv'
  OBVIOUS
<1>1. ASSUME NEW u \in Users, Found(u) PROVE IInv'
  BY <1>1, FoundIInv
<1>2. ASSUME NEW u \in Users, Visit(u) PROVE IInv'
  <2>1. ReqOK(req')
    BY <1>2 DEF Visit, ReqOK, IInv, TypeOK
  <2> QED
    BY <1>2, <2>1, BeginIInv DEF Visit
<1>3. ASSUME NEW t \in Threads, NEW u \in Users, NEW user \in Users, NEW ask \in Joins,
             BeginCreate(t, u, user, ask[1], ask[2])
      PROVE  IInv'
  <2>1. [pc |-> "create", user |-> user, status |-> ask[1], role |-> ask[2]] \in Creating
    BY DEF Creating
  <2>2. ReqOK(req')
    BY <1>3, <2>1, ServeType DEF BeginCreate
  <2> QED
    BY <1>3, <2>2, BeginIInv DEF BeginCreate
<1>4. ASSUME NEW t \in Threads, NEW u \in Users, NEW m \in rows, NEW ask \in Changes,
             BeginUpdate(t, u, m, ask[1], ask[2], ask[3])
      PROVE  IInv'
  <2>1. [pc |-> "update", by |-> u, row |-> m, user |-> ask[1],
         status |-> ask[2], role |-> ask[3]] \in Updating
    BY DEF Updating, IInv, TypeOK, RoleOrNil
  <2>2. ReqOK(req')
    BY <1>4, <2>1, ServeType DEF BeginUpdate
  <2> QED
    BY <1>4, <2>2, BeginIInv DEF BeginUpdate
<1>5. ASSUME NEW t \in Threads, Insert(t) PROVE IInv'
  BY <1>5, InsertIInv
<1>6. ASSUME NEW t \in Threads, RecordNotUnique(t) PROVE IInv'
  <2>1. ReqOK(req')
    BY <1>6, ServeType DEF RecordNotUnique
  <2> QED
    BY <1>6, <2>1 DEF RecordNotUnique, ReqOK, IInv, TypeOK, IdsInv, OneRowPerUser, FreshInv, Live
<1>7. ASSUME NEW t \in Threads, Save(t) PROVE IInv'
  BY <1>7, SaveIInv
<1>8. ASSUME NEW u \in Users, NEW m \in rows, Destroy(u, m) PROVE IInv'
  BY <1>8, DestroyIInv
<1>9. ASSUME Tick PROVE IInv'
  BY <1>9, TickIInv
<1>10. CASE UNCHANGED vars
  BY <1>10 DEF vars, IInv, TypeOK, IdsInv, OneRowPerUser, FreshInv, Live
<1>11. ASSUME NEW t \in Threads, Requests(t) PROVE IInv'
  BY <1>3, <1>4, <1>5, <1>6, <1>7, <1>11 DEF Requests
<1> QED
  BY <1>1, <1>2, <1>8, <1>9, <1>10, <1>11 DEF Next

\* In every state of every run the state is well typed, users have one row each
\* and what the cache holds is recent.
THEOREM Invariance == Spec => []IInv
  BY InitIInv, StepIInv, PTL DEF Spec

\* Type correctness of Membership.
THEOREM TypeCorrect == Spec => []TypeOK
  BY Invariance, PTL DEF IInv

\* However many creates overlap, a user never has two rows in the team
\* (migrate/20160822140558).
THEOREM Uniqueness == Spec => []OneRowPerUser
  BY Invariance, PTL DEF IInv

\* Whatever the requests and however often they ask for roles, the role a user's
\* permissions are decided by is one it had less than TTL ago (User#role).
THEOREM Staleness == Spec => []RecentRole
<1>1. ASSUME IInv, NEW u \in Users PROVE since[u][RoleOf(u)] < TTL
  <2>1. since[u][RoleOf(u)] \in 0..TTL - 1
    BY <1>1, RoleOfType
  <2> QED
    BY <2>1
<1>2. IInv => RecentRole
  BY <1>1 DEF RecentRole
<1> QED
  BY <1>2, Invariance, PTL

\* The rows change when the team is founded, when a row is inserted, saved or destroyed.
LEMMA RowsStep ==
  ASSUME [Next]_vars
  PROVE  \/ \E u \in Users : Found(u)
         \/ \E t \in Threads : Insert(t)
         \/ /\ nextRow' = nextRow
            /\ \/ rows' = rows
               \/ \E t \in Threads : Save(t) /\ rows' = Written(req[t])
               \/ \E m \in rows : rows' = rows \ {m}
  BY DEF Next, vars, Visit, Requests, BeginCreate, BeginUpdate, RecordNotUnique,
         Save, Destroy, Tick

\* A save keeps the ids of the rows.
LEMMA WrittenKeepsIds ==
  ASSUME IInv, NEW r \in Updating, NEW n \in Written(r)
  PROVE  \E m \in rows : m.id = n.id
  BY WrittenIs, UpdatedType

\* A row that was destroyed does not come back with a save of who loaded it before
\* (an UPDATE of no row, GraphqlCrudOperations.safe_save).
THEOREM NoReturn == Spec => LeftStaysLeft
<1>1. ASSUME IInv, [Next]_vars, NEW n \in rows', n.id < nextRow
      PROVE  \E m \in rows : m.id = n.id
  <2>1. nextRow \in Nat
    BY <1>1 DEF IInv, TypeOK
  <2>2. CASE \E u \in Users : Found(u)
    BY <1>1, <2>2 DEF Found
  <2>3. CASE \E t \in Threads : Insert(t)
    BY <1>1, <2>1, <2>3 DEF Insert
  <2>4. ASSUME NEW t \in Threads, Save(t), rows' = Written(req[t])
        PROVE  \E m \in rows : m.id = n.id
    <3>1. req[t] \in Updating
      BY <1>1, <2>4 DEF Save, IInv, TypeOK, Idle, Creating
    <3> QED
      BY <1>1, <2>4, <3>1, WrittenKeepsIds
  <2> QED
    BY <1>1, <2>2, <2>3, <2>4, RowsStep
<1>2. IInv /\ [Next]_vars => [\A n \in rows' : n.id < nextRow => \E m \in rows : m.id = n.id]_vars
  BY <1>1
<1> QED
  BY <1>2, Invariance, PTL DEF Spec, LeftStaysLeft

\* There are no rows before the team is founded.
FirstInv == nextRow \in Nat \ {0} /\ (nextRow = 1 => rows = {})

LEMMA FirstInvariance == Spec => []FirstInv
<1>1. Init => FirstInv
  BY DEF Init, FirstInv
<1>2. ASSUME FirstInv, [Next]_vars PROVE FirstInv'
  <2>1. CASE (\E u \in Users : Found(u)) \/ \E t \in Threads : Insert(t)
    BY <1>2, <2>1 DEF Found, Insert, FirstInv
  <2>2. CASE nextRow' = nextRow /\ (rows = {} => rows' = {})
    BY <1>2, <2>2 DEF FirstInv
  <2>3. \A r : rows = {} => Written(r) = {}
    BY DEF Written
  <2> QED
    BY <1>2, <2>1, <2>2, <2>3, RowsStep
<1> QED
  BY <1>1, <1>2, PTL DEF Spec

\* A save that lifts a ban, and does not give the row away, asks for another status:
\* what it loaded before the ban it does not write.
LEMMA SaveLiftsBan ==
  ASSUME IInv, NEW t \in Threads, Save(t), rows' = Written(req[t]),
         NEW m \in rows, m.status = "banned",
         \A n \in rows' : n.user = m.user => n.status # "banned",
         \E n \in rows' : n.user = m.user
  PROVE  req[t] # Idle /\ req'[t] = Idle /\ req[t].status \in Statuses \ {"banned"}
<1> DEFINE r == req[t]
<1>1. r \in Updating
  BY DEF Save, IInv, TypeOK, Idle, Creating
<1>2. m \in Row /\ r.row \in Row /\ r.status \in Statuses \cup {Nil}
  BY <1>1 DEF IInv, TypeOK, Updating
<1>3. PICK p \in rows : Updated(r, p).user = m.user /\ Updated(r, p) \in rows'
  BY WrittenIs
<1>4. p = m
  <2>1. Updated(r, m) \in rows'
    BY WrittenIs
  <2>2. IInv' /\ rows' \subseteq Row
    BY SaveIInv DEF IInv, TypeOK
  <2>3. CASE p.id # r.row.id
    BY <1>1, <1>3, <2>3, UpdatedType DEF IInv, OneRowPerUser
  <2>4. CASE p.id = r.row.id /\ m.id # r.row.id
    BY <1>1, <1>3, <2>1, <2>2, <2>4, UpdatedType DEF IInv, OneRowPerUser
  <2>5. CASE p.id = r.row.id /\ m.id = r.row.id
    BY <2>5 DEF IInv, IdsInv
  <2> QED
    BY <2>3, <2>4, <2>5
<1>5. Updated(r, m).status # "banned"
  BY <1>3, <1>4
<1>6. m.id = r.row.id /\ Column(r.row.status, Asking(r).status, m.status) # "banned"
  BY <1>1, <1>5, UpdatedType
<1>7. r.status \in Statuses \ {"banned"}
  BY <1>1, <1>2, <1>6, AskingType DEF Column
<1>8. r # Idle
  BY DEF Save, Idle
<1>9. req'[t] = Idle
  BY DEF Save, Serve, IInv, TypeOK
<1> QED
  BY <1>7, <1>8, <1>9

\* While the user has its row, a ban is lifted only by a request that asks for another
\* status, however late an update of something else is saved.
THEOREM BansStand == Spec => BanStands
<1>1. ASSUME IInv, FirstInv, [Next]_vars, NEW u \in Users,
             IsBanned(u), ~IsBanned(u)', \E m \in rows' : m.user = u
      PROVE  \E t \in Threads : /\ req[t] # Idle /\ req'[t] = Idle
                                /\ req[t].status \in Statuses \ {"banned"}
  <2>1. PICK m \in rows : m.user = u /\ m.status = "banned"
    BY <1>1 DEF IsBanned
  <2>2. m \notin rows' /\ \A n \in rows' : n.user = m.user => n.status # "banned"
    BY <1>1, <2>1 DEF IsBanned
  <2>3. CASE \E v \in Users : Found(v)
    BY <1>1, <2>1, <2>3 DEF Found, FirstInv
  <2>4. CASE \E t \in Threads : Insert(t)
    BY <2>2, <2>4 DEF Insert
  <2>5. CASE \E t \in Threads : Save(t) /\ rows' = Written(req[t])
    BY <1>1, <2>1, <2>2, <2>5, SaveLiftsBan
  <2>6. CASE \E n \in rows : rows' = rows \ {n}
    BY <1>1, <2>1, <2>2, <2>6 DEF IInv, OneRowPerUser
  <2> QED
    BY <1>1, <2>2, <2>3, <2>4, <2>5, <2>6, RowsStep
<1>2. IInv /\ FirstInv /\ [Next]_vars =>
        [\A u \in Users :
           IsBanned(u) /\ ~IsBanned(u)' /\ (\E m \in rows' : m.user = u)
           => \E t \in Threads : /\ req[t] # Idle /\ req'[t] = Idle
                                 /\ req[t].status \in Statuses \ {"banned"}]_vars
  BY <1>1
<1> QED
  BY <1>2, Invariance, FirstInvariance, PTL DEF Spec, BanStands

-----------------------------------------------------------------------------
\* Who had one role only for the life of an entry is known by it.
LEMMA SettledIsKnown ==
  ASSUME IInv, NEW u \in Users, NEW role \in Roles, Settled(u, role)
  PROVE  RoleOf(u) = role
<1>1. RoleOf(u) \in RoleOrNil /\ since[u][RoleOf(u)] \in 0..TTL - 1
  BY RoleOfType
<1> QED
  BY <1>1 DEF Settled

\* Whoever has been an owner for 30 seconds is overruled by owners only, for any roles,
\* cached as they may be, and any number of requests that leave the row its user.
THEOREM OwnersStay == Spec => SettledOwnersStay
<1>1. ASSUME IInv, [Next]_vars, NEW t \in Threads, NEW m \in rows,
             Settled(m.user, "owner")
      PROVE  ~Overrules(t, m)
  <2> SUFFICES ASSUME Overrules(t, m) PROVE FALSE
    OBVIOUS
  <2> DEFINE r == req[t]
  <2>1. /\ r.pc = "update" /\ req'[t] # r /\ req'[t] = Idle
        /\ r.row.user = m.user /\ r.user \in {Nil, m.user}
        /\ m \notin rows' /\ ~AtLeast(RoleOf(r.by), "owner")
    BY DEF Overrules
  <2>2. r \in Updating
    BY <1>1, <2>1 DEF IInv, TypeOK, Idle, Creating
  <2>3. Save(t)
    <3>1. PICK s \in Threads : Requests(s)
      BY <1>1, <2>1 DEF Next, vars, Found, Visit, Destroy, Tick
    <3>2. s = t
      BY <1>1, <2>1, <3>1 DEF Requests, BeginCreate, BeginUpdate, Insert, RecordNotUnique,
         Save, Serve, IInv, TypeOK
    <3> QED
      BY <2>1, <3>1, <3>2 DEF Requests, BeginCreate, BeginUpdate, Insert, RecordNotUnique, Idle
  <2>4. MayUpdate(r.by, Asking(r).user, Asking(r).role)
    BY <2>1, <2>3 DEF Save
  <2>5. Asking(r).user = m.user /\ m.user \in Users
    BY <1>1, <2>1, <2>2, AskingType DEF IInv, TypeOK, Row
  <2>6. RoleOf(m.user) = "owner"
    BY <1>1, <2>5, SettledIsKnown DEF Roles
  <2>7. RoleOf(m.user) \notin EditorReach \cup {Nil}
    BY <2>6, NilAssumption DEF EditorReach, Roles
  <2>8. RoleOf(r.by) = "admin" => AtLeast(RoleOf(r.by), "owner")
    BY DEF AtLeast, Rank, Roles
  <2> QED
    BY <2>1, <2>4, <2>5, <2>7, <2>8 DEF MayUpdate
<1>2. IInv /\ [Next]_vars =>
        [\A t \in Threads, m \in rows : Settled(m.user, "owner") => ~Overrules(t, m)]_vars
  BY <1>1
<1> QED
  BY <1>2, Invariance, PTL DEF Spec, SettledOwnersStay
=============================================================================
