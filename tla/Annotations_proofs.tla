------------------------ MODULE Annotations_proofs ------------------------
(***************************************************************************)
(* Theorems about Annotations, for any roles, teams, users, threads, TTL   *)
(* and number of requests.                                                 *)
(***************************************************************************)
EXTENDS Annotations, TLAPS

USE RolesAssumption, TTLAssumption, CallersAssumption, DraftsAssumption, EditsAssumption,
    BoundAssumption, NilAssumption

\* A team that is cached was the team of the media no longer ago than the entry is old.
Fresh(entry) == entry # NoEntry => since[entry.team] <= entry.age

FreshInv == /\ home # Nil => since[home] = 0
            /\ Fresh(cache)

\* A row that is to be saved is of the kind it was read with.
RowsInv ==
  /\ \A m \in rows : m.id < nextId
  /\ \A m, n \in rows : m.id = n.id => m.kind = n.kind
  /\ \A t \in Threads : req[t].pc = "save" =>
       /\ req[t].row.id < nextId
       /\ \A m \in rows : m.id = req[t].row.id => m.kind = req[t].row.kind

\* Of the embeds there is an oldest, as ids are given in order.
OldestInv ==
  /\ \A e \in overrides : e.id < nextId
  /\ overrides # {} => \E e \in overrides : \A d \in overrides : e.id <= d.id

\* What a request that is alone has looked for is still so.
Undisturbed(r) ==
  /\ r.pc = "insert" /\ r.kind = "Tag" => Tags(r.text, r.at) = {}
  /\ r.pc = "override" => \/ overrides = {} /\ r.loaded = Nil
                          \/ overrides = {r.loaded} /\ r.loaded \in Embed

AtMostOne == overrides = {} \/ \E e \in Embed : overrides = {e}

TagsUnique == \A m, n \in rows :
                m.kind = "Tag" /\ n.kind = "Tag" /\ m.text = n.text /\ m.at = n.at => m = n

AloneInv ==
  alone => /\ TagsUnique
           /\ AtMostOne
           /\ Shown = chosen
           /\ \A t \in Threads : Undisturbed(req[t])
           /\ \A s, t \in Threads : s = t \/ req[s] = Idle \/ req[t] = Idle

IInv == TypeOK /\ FreshInv /\ RowsInv /\ OldestInv /\ AloneInv

Request == {Idle} \cup Creating \cup Changing \cup Removing \cup Updating

-----------------------------------------------------------------------------
\* The step a request is at tells what it is.
LEMMA Typed ==
  ASSUME TypeOK, NEW t \in Threads
  PROVE  /\ req[t] \in Request
         /\ req[t] = Idle <=> req[t].pc = "idle"
         /\ req[t].pc = "insert" => req[t] \in Creating
         /\ req[t].pc = "save" => req[t] \in Changing
         /\ req[t].pc = "delete" => req[t] \in Removing
         /\ req[t].pc \in {"override", "move"} => req[t] \in Updating
<1>1. req[t] \in Request
  BY DEF TypeOK, Request
<1> QED
  BY <1>1 DEF Request, Idle, Creating, Changing, Removing, Updating

LEMMA AskedFacts ==
  ASSUME TypeOK, FreshInv, NEW media
  PROVE  Asked(media) \in Entry \cup {NoEntry} /\ Fresh(Asked(media))
<1>1. CASE media = Here /\ ~Live /\ home # Nil
  <2>1. Asked(media) = [team |-> home, age |-> 0] /\ home \in Teams
    BY <1>1 DEF Asked, TypeOK
  <2>2. since[home] = 0
    BY <1>1 DEF FreshInv
  <2>3. [team |-> home, age |-> 0] \in Entry
    BY <2>1 DEF Entry
  <2> QED
    BY <2>1, <2>2, <2>3 DEF Fresh
<1>2. CASE ~(media = Here /\ ~Live /\ home # Nil)
  BY <1>2 DEF Asked, TypeOK, FreshInv
<1> QED
  BY <1>1, <1>2

\* The team that decides was the team of the media less than TTL ago.
LEMMA SeenIsRecent ==
  ASSUME TypeOK, FreshInv, Found(Here)
  PROVE  TeamSeen(Here) \in Teams /\ since[TeamSeen(Here)] < TTL
<1>1. CASE Live
  <2>1. cache \in Entry
    BY <1>1 DEF Live, TypeOK
  <2> QED
    BY <1>1, <2>1 DEF Live, TeamSeen, FreshInv, Fresh, Entry, TypeOK
<1>2. CASE ~Live
  BY <1>2 DEF Found, TeamSeen, FreshInv, TypeOK
<1> QED
  BY <1>1, <1>2

\* An UPDATE leaves the row its id and kind, and its media unless another was assigned.
LEMMA ChangedFacts ==
  ASSUME NEW m \in Row, NEW r \in Changing
  PROVE  /\ Changed(m, r) \in Row
         /\ Changed(m, r).id = m.id
         /\ Changed(m, r).kind = m.kind
         /\ Changed(m, r).at = IF r.at # r.row.at THEN r.at ELSE m.at
<1>1. r.text \in Texts /\ r.at \in Media
  BY DEF Changing
<1> QED
  BY <1>1 DEF Changed, Row

LEMMA MergeFacts ==
  ASSUME NEW new \in Data, NEW old \in Data
  PROVE  Merge(old, new) \in Data /\ Merge(Nothing, new) = new
  BY DEF Merge, Data, Nothing

LEMMA NothingIsData == Nothing \in Data
  BY DEF Nothing, Data

LEMMA OneShown ==
  ASSUME NEW e \in Embed, overrides = {e}
  PROVE  Oldest = e /\ Shown = e.data
<1>1. e.id <= e.id
  BY DEF Embed
<1> QED
  BY <1>1 DEF Oldest, Shown

LEMMA OldestIsOne ==
  ASSUME TypeOK, AtMostOne, overrides # {}
  PROVE  Oldest \in Embed /\ overrides = {Oldest}
<1>1. PICK e \in Embed : overrides = {e}
  BY DEF AtMostOne
<1> QED
  BY <1>1, OneShown

LEMMA ServeFacts ==
  ASSUME TypeOK, NEW t \in Threads, NEW r, Serve(t, r)
  PROVE  req'[t] = r /\ \A s \in Threads \ {t} : req'[s] = req[s]
  BY DEF Serve, TypeOK

-----------------------------------------------------------------------------
LEMMA RefuseTypes ==
  ASSUME TypeOK, FreshInv, NEW t \in Threads, Refuse(t)
  PROVE  TypeOK'
  BY AskedFacts DEF Refuse, Serve, TypeOK

LEMMA BeginTypes ==
  ASSUME TypeOK, NEW t \in Threads, NEW r \in Request, Begin(t, r),
         cache' \in Entry \cup {NoEntry}
  PROVE  TypeOK'
<1>1. begun' \in 0..MaxRequests
  BY DEF Begin, TypeOK
<1> QED
  BY <1>1 DEF Begin, Serve, TypeOK, Request

LEMMA UpdateIsRequest ==
  ASSUME TypeOK, home # Nil, NEW who \in Callers, NEW edit \in Edits,
         NEW found \in Embed \cup {Nil}
  PROVE  Update(who, edit, found) \in Updating
  BY DEF Update, Updating, Data, TypeOK

\* The oldest embed is one of them.
LEMMA OldestIsEmbed ==
  ASSUME TypeOK, OldestInv, overrides # {}
  PROVE  Oldest \in overrides /\ Oldest \in Embed
  BY DEF OldestInv, Oldest, TypeOK

LEMMA OverriddenFacts ==
  ASSUME TypeOK, OldestInv, NEW r \in Updating
  PROVE  /\ Overridden(r) \subseteq Embed
         /\ \A e \in Overridden(r) : \/ \E d \in overrides : d.id = e.id
                                     \/ r.loaded = Nil /\ e.id = nextId
<1>1. CASE r.loaded = Nil
  <2>1. Overridden(r) = overrides \cup {[id |-> nextId, data |-> r.info]}
    BY <1>1 DEF Overridden
  <2>2. [id |-> nextId, data |-> r.info] \in Embed
    BY DEF Embed, Updating, TypeOK
  <2> QED
    BY <1>1, <2>1, <2>2 DEF TypeOK
<1>2. CASE r.loaded # Nil
  <2>1. Merge(r.loaded.data, r.info) \in Data
    BY <1>2, MergeFacts DEF Updating, Embed
  <2>2. \A e \in overrides : e \in Embed /\ [e EXCEPT !.data = Merge(r.loaded.data, r.info)] \in Embed
    BY <2>1 DEF Embed, TypeOK
  <2>3. \A e \in overrides : [e EXCEPT !.data = Merge(r.loaded.data, r.info)].id = e.id
    BY <2>2 DEF Embed
  <2>4. Overridden(r) = {IF e.id = r.loaded.id /\ Merge(e.data, r.info) # e.data
                         THEN [e EXCEPT !.data = Merge(r.loaded.data, r.info)] ELSE e
                         : e \in overrides}
    BY <1>2 DEF Overridden
  <2> QED
    BY <2>2, <2>3, <2>4
<1> QED
  BY <1>1, <1>2

\* Every action keeps the types.
LEMMA TypeStep == IInv /\ [Next]_vars => TypeOK'
<1> SUFFICES ASSUME IInv, [Next]_vars PROVE TypeOK'
  OBVIOUS
<1> USE DEF IInv
<1>0. CASE UNCHANGED vars
  BY <1>0 DEF vars, TypeOK
<1>1. ASSUME NEW t \in Threads, NEW who \in Callers, NEW draft \in Drafts,
             BeginCreate(t, who, draft)
      PROVE  TypeOK'
  <2>1. [pc |-> "insert", who |-> who, kind |-> draft.kind, text |-> draft.text,
         at |-> draft.at] \in Request
    BY DEF Request, Creating
  <2> QED
    BY <1>1, <2>1, BeginTypes DEF BeginCreate, TypeOK
<1>2. ASSUME NEW t \in Threads, Insert(t) PROVE TypeOK'
  <2>1. CASE Refuse(t)
    BY <2>1, RefuseTypes
  <2>2. CASE ~Refuse(t)
    <3>1. req[t] \in Creating
      BY <1>2, Typed DEF Insert
    <3>2. [id |-> nextId, kind |-> req[t].kind, text |-> req[t].text,
           by |-> req[t].who.user, at |-> req[t].at] \in Row
      BY <3>1 DEF Row, Creating, TypeOK
    <3>3. UNCHANGED <<overrides, home, begun, since, chosen, alone>>
      BY <1>2, <2>2 DEF Insert
    <3> QED
      BY <1>2, <2>2, <3>2, <3>3, AskedFacts DEF Insert, Serve, TypeOK
  <2> QED
    BY <2>1, <2>2
<1>3. ASSUME NEW t \in Threads, NEW who \in Callers, NEW m \in rows, NEW change \in Changes,
             BeginChange(t, who, m, change)
      PROVE  TypeOK'
  <2> DEFINE r == [pc |-> "save", who |-> who, row |-> m,
                   text |-> IF change.text = Nil THEN m.text ELSE change.text,
                   at |-> IF change.at = Nil THEN m.at ELSE change.at]
  <2>1. r \in Request
    BY ChangesAssumption DEF Request, Changing, TypeOK, Row
  <2> HIDE DEF r
  <2>2. Begin(t, r)
    BY <1>3 DEF BeginChange, r
  <2> QED
    BY <1>3, <2>1, <2>2, BeginTypes, AskedFacts DEF BeginChange
<1>4. ASSUME NEW t \in Threads, Save(t) PROVE TypeOK'
  <2>1. CASE Refuse(t)
    BY <2>1, RefuseTypes
  <2>2. CASE ~Refuse(t)
    <3>1. req[t] \in Changing
      BY <1>4, Typed DEF Save
    <3>2. \A m \in rows : Changed(m, req[t]) \in Row
      BY <3>1, ChangedFacts DEF TypeOK
    <3>3. rows' \subseteq Row
      BY <1>4, <2>2, <3>2 DEF Save, TypeOK
    <3>4. alone' \in BOOLEAN
      BY <1>4, <2>2 DEF Save, TypeOK
    <3> QED
      BY <1>4, <2>2, <3>3, <3>4, AskedFacts DEF Save, Serve, TypeOK
  <2> QED
    BY <2>1, <2>2
<1>5. ASSUME NEW t \in Threads, NEW who \in Callers, NEW m \in rows, BeginRemove(t, who, m)
      PROVE  TypeOK'
  <2>1. [pc |-> "delete", who |-> who, row |-> m] \in Request
    BY DEF Request, Removing, TypeOK
  <2> QED
    BY <1>5, <2>1, BeginTypes DEF BeginRemove, TypeOK
<1>6. ASSUME NEW t \in Threads, Delete(t) PROVE TypeOK'
  <2>1. CASE Refuse(t)
    BY <2>1, RefuseTypes
  <2>2. CASE ~Refuse(t)
    BY <1>6, <2>2, AskedFacts DEF Delete, Serve, TypeOK
  <2> QED
    BY <2>1, <2>2
<1>7. ASSUME NEW t \in Threads, NEW who \in Callers, NEW edit \in Edits,
             BeginUpdate(t, who, edit)
      PROVE  TypeOK'
  <2>1. (IF overrides = {} THEN Nil ELSE Oldest) \in Embed \cup {Nil}
    BY OldestIsEmbed
  <2>2. Update(who, edit, IF overrides = {} THEN Nil ELSE Oldest) \in Request
    BY <1>7, <2>1, UpdateIsRequest DEF BeginUpdate, Request
  <2> QED
    BY <1>7, <2>2, BeginTypes DEF BeginUpdate, TypeOK
<1>8. ASSUME NEW t \in Threads, SaveOverride(t) PROVE TypeOK'
  <2>1. CASE Refuse(t)
    BY <2>1, RefuseTypes
  <2>2. CASE ~Refuse(t)
    <3>1. req[t] \in Updating
      BY <1>8, Typed DEF SaveOverride
    <3>2. [req[t] EXCEPT !.pc = "move"] \in Updating
      BY <3>1 DEF Updating
    <3>3. Overridden(req[t]) \subseteq Embed
      BY <3>1, OverriddenFacts
    <3>4. Merge(chosen, req[t].info) \in Data
      BY <3>1, MergeFacts DEF TypeOK, Updating
    <3> QED
      BY <1>8, <2>2, <3>2, <3>3, <3>4, AskedFacts DEF SaveOverride, Serve, TypeOK
  <2> QED
    BY <2>1, <2>2
<1>9. ASSUME NEW t \in Threads, Move(t) PROVE TypeOK'
  <2>1. req[t] \in Updating
    BY <1>9, Typed DEF Move
  <2>2. home' \in Teams \cup {Nil}
    BY <1>9, <2>1 DEF Move, TypeOK, Updating
  <2>3. since' \in [Teams -> 0..TTL]
    BY <1>9, <2>2 DEF Move, Seen, TypeOK
  <2> QED
    BY <1>9, <2>2, <2>3 DEF Move, Serve, TypeOK
<1>10. ASSUME NEW t \in Threads, Abort(t) PROVE TypeOK'
  BY <1>10, RefuseTypes DEF Abort
<1>11. ASSUME NEW who \in Callers, DestroyMedia(who) PROVE TypeOK'
  BY <1>11 DEF DestroyMedia, TypeOK
<1>12. CASE Look
  BY <1>12, AskedFacts DEF Look, TypeOK
<1>13. CASE Tick
  <2>1. since' \in [Teams -> 0..TTL]
    BY <1>13 DEF Tick, TypeOK
  <2>2. cache' \in Entry \cup {NoEntry}
    <3>1. CASE ~Live \/ cache.age + 1 = TTL
      BY <1>13, <3>1 DEF Tick
    <3>2. CASE ~(~Live \/ cache.age + 1 = TTL)
      <4>1. cache \in Entry
        BY <3>2 DEF Live, TypeOK
      <4> QED
        BY <1>13, <3>2, <4>1 DEF Tick, Entry
    <3> QED
      BY <3>1, <3>2
  <2> QED
    BY <1>13, <2>1, <2>2 DEF Tick, TypeOK
<1> QED
  BY <1>0, <1>1, <1>2, <1>3, <1>4, <1>5, <1>6, <1>7, <1>8, <1>9, <1>10, <1>11, <1>12, <1>13
     DEF Next, Progress, Begins

-----------------------------------------------------------------------------
\* Reading the team leaves the cache fresh.
LEMMA AskingIsFresh ==
  ASSUME TypeOK, FreshInv, UNCHANGED <<home, since>>, cache' = cache \/ \E media : cache' = Asked(media)
  PROVE  FreshInv'
  BY AskedFacts DEF FreshInv, Fresh

LEMMA FreshStep == IInv /\ [Next]_vars => FreshInv'
<1> SUFFICES ASSUME IInv, [Next]_vars PROVE FreshInv'
  OBVIOUS
<1> USE DEF IInv
<1>1. ASSUME NEW t \in Threads, Move(t) PROVE FreshInv'
  <2>1. req[t] \in Updating /\ home' \in Teams \cup {Nil} /\ cache' = cache
    BY <1>1, Typed DEF Move, TypeOK, Updating
  <2>2. since' = IF home' = Nil THEN since ELSE [since EXCEPT ![home'] = 0]
    BY <1>1 DEF Move, Seen
  <2>3. home' # Nil => since'[home'] = 0
    BY <2>1, <2>2 DEF TypeOK
  <2>4. \A entry \in Entry : since[entry.team] <= entry.age => since'[entry.team] <= entry.age
    BY <2>1, <2>2 DEF TypeOK, Entry
  <2> QED
    BY <2>1, <2>3, <2>4 DEF FreshInv, Fresh, TypeOK
<1>2. ASSUME NEW who \in Callers, DestroyMedia(who) PROVE FreshInv'
  BY <1>2 DEF DestroyMedia, FreshInv, Fresh
<1>3. CASE Tick
  <2>1. home' = home /\ (home # Nil => since'[home] = 0)
    BY <1>3 DEF Tick, TypeOK
  <2>2. CASE ~Live \/ cache.age + 1 = TTL
    BY <1>3, <2>1, <2>2 DEF Tick, FreshInv, Fresh
  <2>3. CASE ~(~Live \/ cache.age + 1 = TTL)
    <3>1. cache \in Entry /\ since[cache.team] <= cache.age
      BY <2>3 DEF Live, TypeOK, FreshInv, Fresh
    <3>2. cache' = [cache EXCEPT !.age = @ + 1]
      BY <1>3, <2>3 DEF Tick
    <3>3. cache'.team = cache.team /\ cache'.age = cache.age + 1
      BY <3>1, <3>2 DEF Entry
    <3>4. since'[cache.team] <= since[cache.team] + 1
      BY <1>3, <3>1 DEF Tick, TypeOK, Entry
    <3>5. since'[cache'.team] <= cache'.age
      BY <3>1, <3>3, <3>4, TypeStep, Typed DEF TypeOK, Entry
    <3> QED
      BY <2>1, <3>5 DEF FreshInv, Fresh
  <2> QED
    BY <2>2, <2>3
<1>4. CASE UNCHANGED vars
  BY <1>4 DEF vars, FreshInv, Fresh
<1>5. ASSUME NEW t \in Threads,
             Insert(t) \/ Save(t) \/ Delete(t) \/ SaveOverride(t) \/ Abort(t)
             \/ \E who \in Callers : Begins(t, who)
      PROVE  FreshInv'
  <2>1. UNCHANGED <<home, since>> /\ (cache' = cache \/ \E media : cache' = Asked(media))
    BY <1>5 DEF Insert, Save, Delete, SaveOverride, Abort, Begins, BeginCreate, BeginChange,
                BeginRemove, BeginUpdate, Begin, Refuse
  <2> QED
    BY <2>1, AskingIsFresh
<1>6. CASE Look
  BY <1>6, AskingIsFresh DEF Look
<1> QED
  BY <1>1, <1>2, <1>3, <1>4, <1>5, <1>6 DEF Next, Progress

\* Ids are given in order and a row keeps its kind.
LEMMA RowsStep == IInv /\ [Next]_vars => RowsInv'
<1> SUFFICES ASSUME IInv, [Next]_vars PROVE RowsInv'
  OBVIOUS
<1> USE DEF IInv
<1>1. ASSUME UNCHANGED rows, nextId' \in Nat, nextId' >= nextId,
             \A t \in Threads : \/ req'[t] = req[t]
                                \/ req'[t].pc # "save"
                                \/ req'[t].pc = "save" /\ req'[t].row \in rows
      PROVE  RowsInv'
  <2>1. \A m \in rows : m.id < nextId' /\ m.id \in Nat
    BY <1>1 DEF RowsInv, TypeOK, Row
  <2>2. \A t \in Threads : req[t].pc = "save" => req[t].row.id \in Nat
    BY Typed DEF Changing, Row
  <2>3. ASSUME NEW t \in Threads, req'[t].pc = "save"
        PROVE  /\ req'[t].row.id < nextId'
               /\ \A m \in rows : m.id = req'[t].row.id => m.kind = req'[t].row.kind
    <3>1. CASE req'[t] = req[t]
      <4>1. /\ req[t].row.id < nextId
            /\ \A m \in rows : m.id = req[t].row.id => m.kind = req[t].row.kind
        BY <2>3, <3>1 DEF RowsInv
      <4>2. req[t].row.id < nextId'
        BY <1>1, <2>2, <2>3, <3>1, <4>1 DEF TypeOK
      <4> QED
        BY <3>1, <4>1, <4>2
    <3>2. CASE req'[t].row \in rows
      BY <2>1, <3>2 DEF RowsInv
    <3> QED
      BY <1>1, <2>3, <3>1, <3>2
  <2> QED
    BY <1>1, <2>1, <2>3 DEF RowsInv
<1>2. ASSUME NEW t \in Threads, Insert(t), ~Refuse(t) PROVE RowsInv'
  <2>1. req[t] \in Creating
    BY <1>2, Typed DEF Insert
  <2> DEFINE new == [id |-> nextId, kind |-> req[t].kind, text |-> req[t].text,
                     by |-> req[t].who.user, at |-> req[t].at]
  <2>2. rows' = rows \cup {new} /\ nextId' = nextId + 1 /\ Serve(t, Idle)
    BY <1>2 DEF Insert
  <2>3. new.id = nextId
    OBVIOUS
  <2>4. \A m \in rows : m.id \in Nat /\ m.id < nextId
    BY DEF RowsInv, TypeOK, Row
  <2>5. \A s \in Threads : req'[s] = req[s] \/ req'[s].pc = "idle"
    BY <2>2, ServeFacts DEF Idle
  <2>6. \A s \in Threads : req[s].pc = "save" => req[s].row.id \in Nat /\ req[s].row.id < nextId
    BY Typed DEF RowsInv, Changing, Row
  <2>7. nextId \in Nat
    BY DEF TypeOK
  <2> HIDE DEF new
  <2>8. \A m \in rows' : m.id < nextId'
    BY <2>2, <2>3, <2>4, <2>7
  <2>9. \A m, n \in rows' : m.id = n.id => m.kind = n.kind
    BY <2>2, <2>3, <2>4, <2>7 DEF RowsInv
  <2>10. ASSUME NEW s \in Threads, req'[s].pc = "save"
         PROVE  /\ req'[s].row.id < nextId'
                /\ \A m \in rows' : m.id = req'[s].row.id => m.kind = req'[s].row.kind
    <3>1. req'[s] = req[s]
      BY <2>5, <2>10
    <3> QED
      BY <2>2, <2>3, <2>6, <2>7, <2>10, <3>1 DEF RowsInv
  <2> QED
    BY <2>8, <2>9, <2>10 DEF RowsInv
<1>3. ASSUME NEW t \in Threads, Save(t), ~Refuse(t) PROVE RowsInv'
  <2>1. req[t] \in Changing
    BY <1>3, Typed DEF Save
  <2>2. \A m \in rows : /\ Changed(m, req[t]).id = m.id
                        /\ Changed(m, req[t]).kind = m.kind
    BY <2>1, ChangedFacts DEF TypeOK
  <2>3. \A n \in rows' : \E m \in rows : n.id = m.id /\ n.kind = m.kind
    <3>1. rows' = {IF m.id = req[t].row.id THEN Changed(m, req[t]) ELSE m : m \in rows}
      BY <1>3 DEF Save
    <3> QED
      BY <2>2, <3>1
  <2>4. nextId' = nextId /\ \A s \in Threads : req'[s] = req[s] \/ req'[s].pc = "idle"
    BY <1>3, ServeFacts DEF Save, Idle
  <2> QED
    BY <2>3, <2>4 DEF RowsInv
<1>4. ASSUME NEW t \in Threads, Delete(t), ~Refuse(t) PROVE RowsInv'
  <2>1. rows' \subseteq rows /\ nextId' = nextId
    BY <1>4 DEF Delete
  <2>2. \A s \in Threads : req'[s] = req[s] \/ req'[s].pc = "idle"
    BY <1>4, ServeFacts DEF Delete, Idle
  <2> QED
    BY <2>1, <2>2 DEF RowsInv
<1>5. ASSUME NEW t \in Threads, NEW who \in Callers, Begins(t, who) PROVE RowsInv'
  <2>1. PICK r : Begin(t, r) /\ (r.pc = "save" => r.row \in rows)
    <3>1. CASE \E draft \in Drafts : BeginCreate(t, who, draft)
      BY <3>1 DEF BeginCreate
    <3>2. CASE \E m \in rows : BeginRemove(t, who, m)
      BY <3>2 DEF BeginRemove
    <3>3. CASE \E m \in rows, change \in Changes : BeginChange(t, who, m, change)
      BY <3>3 DEF BeginChange
    <3>4. CASE \E edit \in Edits : BeginUpdate(t, who, edit)
      <4>1. PICK edit \in Edits : BeginUpdate(t, who, edit)
        BY <3>4
      <4> DEFINE r == Update(who, edit, IF overrides = {} THEN Nil ELSE Oldest)
      <4>2. Begin(t, r) /\ r.pc # "save"
        BY <4>1 DEF BeginUpdate, Update
      <4> QED
        BY <4>2
    <3> QED
      BY <1>5, <3>1, <3>2, <3>3, <3>4 DEF Begins
  <2>2. req'[t] = r /\ \A s \in Threads \ {t} : req'[s] = req[s]
    BY <2>1, ServeFacts DEF Begin
  <2>3. UNCHANGED <<rows, nextId>>
    BY <2>1 DEF Begin
  <2> QED
    BY <1>1, <2>1, <2>2, <2>3 DEF TypeOK
<1>6. ASSUME NEW t \in Threads, Refuse(t) PROVE RowsInv'
  <2>1. UNCHANGED <<rows, nextId>> /\ Serve(t, Idle)
    BY <1>6 DEF Refuse
  <2>2. \A s \in Threads : req'[s] = req[s] \/ req'[s].pc = "idle"
    BY <2>1, ServeFacts DEF Idle
  <2> QED
    BY <1>1, <2>1, <2>2 DEF TypeOK
<1>7. ASSUME NEW t \in Threads, SaveOverride(t), ~Refuse(t) PROVE RowsInv'
  <2>1. req[t] \in Updating
    BY <1>7, Typed DEF SaveOverride
  <2>2. [req[t] EXCEPT !.pc = "move"].pc # "save"
    BY <2>1 DEF Updating
  <2>3. UNCHANGED rows /\ nextId' \in {nextId, nextId + 1} /\ Serve(t, [req[t] EXCEPT !.pc = "move"])
    BY <1>7 DEF SaveOverride
  <2>4. \A s \in Threads : req'[s] = req[s] \/ req'[s].pc # "save"
    BY <2>2, <2>3, ServeFacts
  <2>5. nextId' \in Nat /\ nextId' >= nextId
    BY <2>3 DEF TypeOK
  <2> QED
    BY <1>1, <2>3, <2>4, <2>5
<1>8. ASSUME NEW t \in Threads, Move(t) PROVE RowsInv'
  <2>1. UNCHANGED <<rows, nextId>> /\ Serve(t, Idle)
    BY <1>8 DEF Move
  <2>2. \A s \in Threads : req'[s] = req[s] \/ req'[s].pc = "idle"
    BY <2>1, ServeFacts DEF Idle
  <2> QED
    BY <1>1, <2>1, <2>2 DEF TypeOK
<1>9. ASSUME UNCHANGED <<rows, nextId, req>> PROVE RowsInv'
  BY <1>1, <1>9 DEF TypeOK
<1> QED
  BY <1>2, <1>3, <1>4, <1>5, <1>6, <1>7, <1>8, <1>9
     DEF Next, Progress, Abort, DestroyMedia, Look, Tick, vars

LEMMA OldestStep == IInv /\ [Next]_vars => OldestInv'
<1> SUFFICES ASSUME IInv, [Next]_vars PROVE OldestInv'
  OBVIOUS
<1> USE DEF IInv
<1>1. ASSUME NEW t \in Threads, SaveOverride(t), ~Refuse(t) PROVE OldestInv'
  <2>1. req[t] \in Updating
    BY <1>1, Typed DEF SaveOverride
  <2>2. overrides' = Overridden(req[t])
        /\ nextId' = IF req[t].loaded = Nil THEN nextId + 1 ELSE nextId
    BY <1>1 DEF SaveOverride
  <2>3. \A e \in overrides : e.id \in Nat /\ e.id < nextId
    BY DEF OldestInv, TypeOK, Embed
  <2>4. nextId \in Nat
    BY DEF TypeOK
  <2>5. \A e \in overrides' : e.id < nextId'
    BY <2>1, <2>2, <2>3, <2>4, OverriddenFacts
  <2>6. CASE overrides = {}
    <3>1. CASE req[t].loaded = Nil
      <4>1. overrides' = {[id |-> nextId, data |-> req[t].info]}
        BY <2>2, <2>6, <3>1 DEF Overridden
      <4> QED
        BY <2>4, <2>5, <4>1 DEF OldestInv
    <3>2. CASE req[t].loaded # Nil
      BY <2>2, <2>6, <3>2 DEF Overridden, OldestInv
    <3> QED
      BY <3>1, <3>2
  <2>7. CASE overrides # {}
    <3>1. PICK e \in overrides : \A d \in overrides : e.id <= d.id
      BY <2>7 DEF OldestInv
    <3>2. \E a \in overrides' : a.id = e.id
      <4>1. CASE req[t].loaded = Nil
        BY <2>2, <4>1 DEF Overridden
      <4>2. CASE req[t].loaded # Nil
        <5> DEFINE F(d) == IF d.id = req[t].loaded.id /\ Merge(d.data, req[t].info) # d.data
                           THEN [d EXCEPT !.data = Merge(req[t].loaded.data, req[t].info)] ELSE d
        <5>1. overrides' = {F(d) : d \in overrides}
          BY <2>2, <4>2 DEF Overridden
        <5>2. F(e).id = e.id
          BY DEF Embed, TypeOK
        <5> HIDE DEF F
        <5> QED
          BY <5>1, <5>2
      <4> QED
        BY <4>1, <4>2
    <3>3. PICK a \in overrides' : a.id = e.id
      BY <3>2
    <3>4. \A d \in overrides' : a.id <= d.id
      BY <2>1, <2>2, <2>3, <2>4, <3>1, <3>3, OverriddenFacts
    <3> QED
      BY <2>5, <3>3, <3>4 DEF OldestInv
  <2> QED
    BY <2>6, <2>7
<1>2. ASSUME UNCHANGED overrides, nextId' \in {nextId, nextId + 1} PROVE OldestInv'
  <2>1. \A e \in overrides : e.id \in Nat /\ e.id < nextId /\ nextId \in Nat
    BY DEF OldestInv, TypeOK, Embed
  <2> QED
    BY <1>2, <2>1 DEF OldestInv
<1>3. ASSUME NEW t \in Threads, Insert(t) \/ Save(t) \/ Delete(t) \/ Move(t) \/ Refuse(t)
             \/ \E who \in Callers : Begins(t, who)
      PROVE  OldestInv'
  <2>1. UNCHANGED overrides /\ nextId' \in {nextId, nextId + 1}
    BY <1>3 DEF Insert, Save, Delete, Move, Refuse, Begins, BeginCreate, BeginChange,
                BeginRemove, BeginUpdate, Begin
  <2> QED
    BY <1>2, <2>1
<1> QED
  BY <1>1, <1>2, <1>3 DEF Next, Progress, Abort, DestroyMedia, Look, Tick, vars

-----------------------------------------------------------------------------
\* A request that was alone leaves every thread idle when it ends.
LEMMA AloneEnds ==
  ASSUME IInv, NEW t \in Threads, req[t] # Idle, Serve(t, Idle), alone' => alone,
         alone' => TagsUnique' /\ AtMostOne' /\ (Shown = chosen)'
  PROVE  AloneInv'
<1> SUFFICES ASSUME alone' PROVE AloneInv'
  BY DEF AloneInv
<1>1. \A s \in Threads : req'[s] = Idle
  BY ServeFacts DEF IInv, AloneInv
<1>2. \A s \in Threads : Undisturbed(req[s])'
  BY <1>1 DEF Undisturbed, Idle
<1> QED
  BY <1>1, <1>2 DEF AloneInv

\* The embed of a request that is alone is what the media is shown with.
LEMMA OverrideAlone ==
  ASSUME IInv, alone, NEW t \in Threads, SaveOverride(t), ~Refuse(t)
  PROVE  AtMostOne' /\ (Shown = chosen)'
<1> USE DEF IInv
<1>1. /\ req[t] \in Updating
      /\ overrides' = Overridden(req[t])
      /\ chosen' = Merge(chosen, req[t].info)
      /\ Shown = chosen
      /\ chosen \in Data /\ req[t].info \in Data
  BY Typed DEF SaveOverride, AloneInv, TypeOK, Updating
<1>2. CASE overrides = {} /\ req[t].loaded = Nil
  <2> DEFINE e == [id |-> nextId, data |-> req[t].info]
  <2>1. overrides' = {e} /\ e \in Embed /\ e.data = req[t].info
    BY <1>1, <1>2 DEF Overridden, Embed, TypeOK
  <2>2. chosen' = req[t].info
    BY <1>1, <1>2, MergeFacts DEF Shown
  <2>3. Oldest' = e
    <3>1. e.id <= e.id
      BY <2>1 DEF Embed
    <3> QED
      BY <2>1, <3>1 DEF Oldest
  <2> QED
    BY <2>1, <2>2, <2>3 DEF AtMostOne, Shown
<1>3. CASE overrides = {req[t].loaded} /\ req[t].loaded \in Embed
  <2> DEFINE d == req[t].loaded
             e == [d EXCEPT !.data = Merge(d.data, req[t].info)]
  <2>1. /\ d.data \in Data
        /\ Merge(d.data, req[t].info) \in Data
        /\ e \in Embed /\ e.data = Merge(d.data, req[t].info)
    BY <1>1, <1>3, MergeFacts DEF Embed
  <2>2. Shown = d.data
    BY <1>3, OneShown
  <2>3. overrides' = {IF Merge(d.data, req[t].info) # d.data THEN e ELSE d}
    BY <1>1, <1>3 DEF Overridden
  <2>4. PICK f \in Embed : overrides' = {f} /\ f.data = Merge(d.data, req[t].info)
    BY <1>3, <2>1, <2>3
  <2>5. Oldest' = f
    <3>1. f.id <= f.id
      BY <2>4 DEF Embed
    <3> QED
      BY <2>4, <3>1 DEF Oldest
  <2> QED
    BY <1>1, <2>2, <2>4, <2>5 DEF AtMostOne, Shown
<1>4. Undisturbed(req[t])
  BY DEF AloneInv
<1> QED
  BY <1>2, <1>3, <1>4 DEF SaveOverride, Undisturbed

LEMMA AloneStep == IInv /\ [Next]_vars => AloneInv'
<1> SUFFICES ASSUME IInv, [Next]_vars PROVE AloneInv'
  OBVIOUS
<1> USE DEF IInv
<1>1. ASSUME NEW t \in Threads, NEW who \in Callers, Begins(t, who) PROVE AloneInv'
  <2> SUFFICES ASSUME alone' PROVE AloneInv'
    BY DEF AloneInv
  <2>1. PICK r : Begin(t, r) /\ Undisturbed(r)
    <3>1. CASE \E draft \in Drafts : BeginCreate(t, who, draft)
      <4>1. PICK draft \in Drafts : BeginCreate(t, who, draft)
        BY <3>1
      <4> DEFINE r == [pc |-> "insert", who |-> who, kind |-> draft.kind,
                       text |-> draft.text, at |-> draft.at]
      <4>2. /\ r.pc = "insert" /\ r.kind = draft.kind
            /\ r.text = draft.text /\ r.at = draft.at
        OBVIOUS
      <4>3. Begin(t, r) /\ (draft.kind = "Tag" => Tags(draft.text, draft.at) = {})
        BY <4>1 DEF BeginCreate
      <4> HIDE DEF r
      <4> QED
        BY <4>2, <4>3 DEF Undisturbed
    <3>2. CASE \E m \in rows : BeginRemove(t, who, m)
      BY <3>2 DEF BeginRemove, Undisturbed
    <3>3. CASE \E m \in rows, change \in Changes : BeginChange(t, who, m, change)
      BY <3>3 DEF BeginChange, Undisturbed
    <3>4. CASE \E edit \in Edits : BeginUpdate(t, who, edit)
      <4>1. PICK edit \in Edits : BeginUpdate(t, who, edit)
        BY <3>4
      <4> DEFINE r == Update(who, edit, IF overrides = {} THEN Nil ELSE Oldest)
      <4>2. Begin(t, r)
        BY <4>1 DEF BeginUpdate
      <4>3. alone
        BY <4>2 DEF Begin
      <4>4. CASE overrides = {}
        <5>1. r.loaded = Nil /\ r.pc # "insert"
          BY <4>4 DEF Update
        <5> HIDE DEF r
        <5> QED
          BY <4>2, <4>4, <5>1 DEF Undisturbed
      <4>5. CASE overrides # {}
        <5>1. r.loaded = Oldest /\ r.pc # "insert"
          BY <4>5 DEF Update
        <5>2. Oldest \in Embed /\ overrides = {Oldest}
          BY <4>3, <4>5, OldestIsOne DEF AloneInv
        <5> HIDE DEF r
        <5> QED
          BY <4>2, <5>1, <5>2 DEF Undisturbed
      <4> QED
        BY <4>4, <4>5
    <3> QED
      BY <1>1, <3>1, <3>2, <3>3, <3>4 DEF Begins
  <2>2. /\ alone /\ \A s \in Threads : req[s] = Idle
        /\ req'[t] = r /\ \A s \in Threads \ {t} : req'[s] = req[s]
        /\ UNCHANGED <<rows, overrides, chosen>>
    BY <2>1, ServeFacts DEF Begin
  <2>3. Undisturbed(req[t])'
    BY <2>1, <2>2 DEF Undisturbed, Tags
  <2>4. \A s \in Threads \ {t} : Undisturbed(req[s])'
    BY <2>2 DEF Undisturbed, Idle
  <2>5. TagsUnique' /\ AtMostOne' /\ (Shown = chosen)'
    BY <2>2 DEF AloneInv, TagsUnique, AtMostOne, Shown, Oldest
  <2> QED
    BY <2>2, <2>3, <2>4, <2>5 DEF AloneInv
<1>2. ASSUME NEW t \in Threads, Insert(t), ~Refuse(t) PROVE AloneInv'
  <2>1. req[t] \in Creating /\ req[t] # Idle
    BY <1>2, Typed DEF Insert
  <2> DEFINE new == [id |-> nextId, kind |-> req[t].kind, text |-> req[t].text,
                     by |-> req[t].who.user, at |-> req[t].at]
  <2>2. /\ rows' = rows \cup {new} /\ Serve(t, Idle)
        /\ UNCHANGED <<overrides, chosen, alone>>
    BY <1>2 DEF Insert
  <2>3. ASSUME alone PROVE TagsUnique'
    <3>1. new.kind = "Tag" => \A m \in rows : m.kind = "Tag" => m.text # new.text \/ m.at # new.at
      BY <1>2, <2>3 DEF Insert, AloneInv, Undisturbed, Tags
    <3> HIDE DEF new
    <3> QED
      BY <2>2, <2>3, <3>1 DEF AloneInv, TagsUnique
  <2>4. ASSUME alone PROVE AtMostOne' /\ (Shown = chosen)'
    BY <2>2, <2>4 DEF AloneInv, AtMostOne, Shown, Oldest
  <2> QED
    BY <2>1, <2>2, <2>3, <2>4, AloneEnds
<1>3. ASSUME NEW t \in Threads, Save(t), ~Refuse(t) PROVE AloneInv'
  <2>1. req[t] \in Changing /\ req[t] # Idle
    BY <1>3, Typed DEF Save
  <2>2. /\ rows' = {IF m.id = req[t].row.id THEN Changed(m, req[t]) ELSE m : m \in rows}
        /\ alone' = (alone /\ (rows' = rows \/ req[t].row.kind # "Tag"))
        /\ Serve(t, Idle)
        /\ UNCHANGED <<overrides, chosen>>
    BY <1>3 DEF Save
  <2>3. ASSUME alone' PROVE TagsUnique'
    <3>1. CASE rows' = rows
      BY <2>2, <2>3, <3>1 DEF AloneInv, TagsUnique
    <3>2. CASE req[t].row.kind # "Tag"
      <4>1. \A m \in rows : m.id = req[t].row.id => m.kind = req[t].row.kind
        BY <1>3 DEF RowsInv, Save
      <4>2. \A m \in rows : Changed(m, req[t]).kind = m.kind
        BY <2>1, ChangedFacts DEF TypeOK
      <4>3. ASSUME NEW n \in rows', n.kind = "Tag" PROVE n \in rows
        <5>1. PICK m \in rows : n = IF m.id = req[t].row.id THEN Changed(m, req[t]) ELSE m
          BY <2>2
        <5>2. CASE m.id = req[t].row.id
          <6>1. n.kind = m.kind
            BY <4>2, <5>1
          <6> QED
            BY <3>2, <4>1, <4>3, <5>2, <6>1
        <5>3. CASE m.id # req[t].row.id
          BY <5>1, <5>3
        <5> QED
          BY <5>2, <5>3
      <4> QED
        BY <2>2, <2>3, <4>3 DEF AloneInv, TagsUnique
    <3> QED
      BY <2>2, <2>3, <3>1, <3>2
  <2>4. ASSUME alone' PROVE AtMostOne' /\ (Shown = chosen)'
    BY <2>2, <2>4 DEF AloneInv, AtMostOne, Shown, Oldest
  <2> QED
    BY <2>1, <2>2, <2>3, <2>4, AloneEnds
<1>4. ASSUME NEW t \in Threads, Delete(t), ~Refuse(t) PROVE AloneInv'
  <2>1. req[t] # Idle
    BY <1>4, Typed DEF Delete
  <2>2. rows' \subseteq rows /\ Serve(t, Idle) /\ UNCHANGED <<overrides, chosen, alone>>
    BY <1>4 DEF Delete
  <2>3. ASSUME alone PROVE TagsUnique' /\ AtMostOne' /\ (Shown = chosen)'
    BY <2>2, <2>3 DEF AloneInv, TagsUnique, AtMostOne, Shown, Oldest
  <2> QED
    BY <2>1, <2>2, <2>3, AloneEnds
<1>5. ASSUME NEW t \in Threads, req[t] # Idle, Refuse(t) \/ Move(t) PROVE AloneInv'
  <2>1. Serve(t, Idle) /\ UNCHANGED <<rows, overrides, chosen, alone>>
    BY <1>5 DEF Refuse, Move
  <2>2. ASSUME alone PROVE TagsUnique' /\ AtMostOne' /\ (Shown = chosen)'
    BY <2>1, <2>2 DEF AloneInv, TagsUnique, AtMostOne, Shown, Oldest
  <2> QED
    BY <1>5, <2>1, <2>2, AloneEnds
<1>6. ASSUME NEW t \in Threads, SaveOverride(t), ~Refuse(t) PROVE AloneInv'
  <2> SUFFICES ASSUME alone' PROVE AloneInv'
    BY DEF AloneInv
  <2>1. /\ req[t] \in Updating /\ req[t] # Idle
        /\ Serve(t, [req[t] EXCEPT !.pc = "move"])
        /\ UNCHANGED <<rows, alone>>
    BY <1>6, Typed DEF SaveOverride
  <2>2. AtMostOne' /\ (Shown = chosen)' /\ TagsUnique'
    BY <1>6, <2>1, OverrideAlone DEF AloneInv, TagsUnique
  <2>3. req'[t].pc = "move" /\ \A s \in Threads \ {t} : req'[s] = Idle
    BY <2>1, ServeFacts DEF AloneInv, Updating
  <2>4. \A s \in Threads : Undisturbed(req[s])'
    BY <2>3 DEF Undisturbed, Idle
  <2> QED
    BY <2>2, <2>3, <2>4 DEF AloneInv
<1>7. ASSUME UNCHANGED <<rows, overrides, chosen, req, alone>> PROVE AloneInv'
  BY <1>7 DEF AloneInv, TagsUnique, AtMostOne, Shown, Oldest, Undisturbed, Tags
<1>8. ASSUME NEW t \in Threads, Progress(t) \/ Abort(t) PROVE req[t] # Idle
  BY <1>8 DEF Progress, Abort, Insert, Save, Delete, SaveOverride, Move, Idle
<1> QED
  BY <1>1, <1>2, <1>3, <1>4, <1>5, <1>6, <1>7, <1>8
     DEF Next, Progress, Abort, DestroyMedia, Look, Tick, vars

-----------------------------------------------------------------------------
LEMMA Initially == Init => IInv
<1> SUFFICES ASSUME Init PROVE IInv
  OBVIOUS
<1>1. /\ \A t \in Threads : req[t] = Idle
      /\ rows = {} /\ nextId = 1 /\ alone = TRUE /\ cache = NoEntry /\ begun = 0
      /\ req \in [Threads -> {Idle}]
  BY DEF Init
<1>2. /\ chosen \in Data /\ AtMostOne /\ Shown = chosen
      /\ overrides \subseteq Embed
      /\ \A e \in overrides : e.id = 0
  <2>1. CASE overrides = {} /\ chosen = Nothing
    BY <2>1, NothingIsData DEF AtMostOne, Shown
  <2>2. CASE \E edit \in Edits : /\ overrides = {[id |-> 0, data |-> edit.embed]}
                                 /\ chosen = edit.embed
    <3>1. PICK edit \in Edits : /\ overrides = {[id |-> 0, data |-> edit.embed]}
                                /\ chosen = edit.embed
      BY <2>2
    <3>2. edit.embed \in Data
      BY DEF Data
    <3>3. [id |-> 0, data |-> edit.embed] \in Embed
      BY <3>2 DEF Embed
    <3> QED
      BY <3>1, <3>2, <3>3, OneShown DEF AtMostOne
  <2> QED
    BY <2>1, <2>2 DEF Init
<1>3. TypeOK
  BY <1>1, <1>2 DEF Init, TypeOK, Request
<1>4. FreshInv
  BY DEF Init, FreshInv, Fresh
<1>5. RowsInv
  BY <1>1 DEF RowsInv, Idle
<1>6. OldestInv
  BY <1>1, <1>2 DEF OldestInv
<1>7. AloneInv
  BY <1>1, <1>2 DEF AloneInv, TagsUnique, Undisturbed, Idle
<1> QED
  BY <1>3, <1>4, <1>5, <1>6, <1>7 DEF IInv

\* The parts are inductive together.
THEOREM Invariance == Spec => []IInv
<1>1. IInv /\ [Next]_vars => IInv'
  BY TypeStep, FreshStep, RowsStep, OldestStep, AloneStep DEF IInv
<1> QED
  BY <1>1, Initially, PTL DEF Spec

\* Rows, embeds, cache entries and requests are what Annotations says they are.
THEOREM TypeCorrect == Spec => []TypeOK
<1>1. IInv => TypeOK
  BY DEF IInv
<1> QED
  BY <1>1, Invariance, PTL

\* Requests that do not overlap never give a media the same tag twice.
THEOREM TagsOnce == Spec => []AloneTagsUnique
<1>1. IInv => AloneTagsUnique
  BY DEF IInv, AloneInv, TagsUnique, AloneTagsUnique
<1> QED
  BY <1>1, Invariance, PTL

\* Requests that do not overlap never lose a title or a description that was set.
THEOREM TitlesStand == Spec => []AloneTitlesStand
<1>1. IInv => AloneTitlesStand
  BY DEF IInv, AloneInv, AloneTitlesStand
<1> QED
  BY <1>1, Invariance, PTL

\* An INSERT or an UPDATE that names another media adds no annotation to this one.
LEMMA NoneArrives ==
  ASSUME IInv, NEW t \in Threads, Insert(t) \/ Save(t), ~Refuse(t), req[t].at # Here
  PROVE  Ids(Ours)' \subseteq Ids(Ours) /\ (req[t].pc = "insert" => Ours' = Ours)
<1>1. CASE Insert(t)
  BY <1>1 DEF Insert, Ours, Ids
<1>2. CASE Save(t)
  <2>1. req[t] \in Changing /\ req[t].pc # "insert"
    BY <1>2, Typed DEF Save, IInv
  <2>2. rows' = {IF m.id = req[t].row.id THEN Changed(m, req[t]) ELSE m : m \in rows}
    BY <1>2 DEF Save
  <2>3. ASSUME NEW n \in Ours' PROVE \E m \in Ours : m.id = n.id
    <3>1. PICK m \in rows : n = IF m.id = req[t].row.id THEN Changed(m, req[t]) ELSE m
      BY <2>2, <2>3 DEF Ours
    <3>2. n.at = Here
      BY <2>3 DEF Ours
    <3>3. m.at = Here /\ m.id = n.id
      BY <2>1, <3>1, <3>2, ChangedFacts DEF IInv, TypeOK
    <3> QED
      BY <3>3 DEF Ours
  <2> QED
    BY <2>1, <2>3 DEF Ids
<1> QED
  BY <1>1, <1>2

\* Only who acts in a team the media was in less than TTL ago, or has another media
\* decide, changes its annotations.
THEOREM TeamChanges == Spec => ChangedByItsTeam
<1> DEFINE A == \A t \in Threads :
                  Ours' # Ours /\ req[t] # Idle /\ req'[t] = Idle
                  => \/ RoleOf(req[t].who) = "admin"
                     \/ req[t].pc = "insert" /\ req[t].kind = "Comment"
                     \/ since[req[t].who.team] < TTL
                     \/ DecidedElsewhere(req[t])
<1>1. IInv /\ [Next]_vars => [A]_vars
  <2> SUFFICES ASSUME IInv, [Next]_vars, NEW t \in Threads,
                      Ours' # Ours, req[t] # Idle, req'[t] = Idle,
                      RoleOf(req[t].who) # "admin",
                      ~(req[t].pc = "insert" /\ req[t].kind = "Comment")
               PROVE  since[req[t].who.team] < TTL \/ DecidedElsewhere(req[t])
    OBVIOUS
  <2>1. PICK s \in Threads : (Insert(s) \/ Save(s) \/ Delete(s)) /\ ~Refuse(s)
    <3>1. \A s \in Threads, who \in Callers : Begins(s, who) => rows' = rows
      BY DEF Begins, BeginCreate, BeginChange, BeginRemove, BeginUpdate, Begin
    <3>2. rows' # rows
      BY DEF Ours
    <3> QED
      BY <3>1, <3>2 DEF Next, Progress, SaveOverride, Move, Abort, Refuse, DestroyMedia, Look,
                        Tick, vars
  <2>2. s = t
    BY <2>1, ServeFacts DEF IInv, Insert, Save, Delete
  <2>3. req[t].who \in Callers
    BY <2>1, <2>2, Typed DEF IInv, Insert, Save, Delete, Creating, Changing, Removing
  <2> DEFINE media == IF req[t].pc = "delete" THEN req[t].row.at ELSE req[t].at
  <2>4. TeamSeen(media) = req[t].who.team
    BY <2>1, <2>2 DEF Insert, Save, Delete, MayAnnotate, MayChange, MayRemove, InTeam
  <2>5. CASE media = Here
    <3>1. TeamSeen(Here) \in Teams
      BY <2>3, <2>4, <2>5
    <3>2. ~Live => TeamSeen(Here) = home
      BY DEF TeamSeen
    <3>3. Found(Here)
      BY <3>1, <3>2 DEF Found, Media
    <3> QED
      BY <2>4, <2>5, <3>3, SeenIsRecent DEF IInv
  <2>6. CASE media # Here
    <3>1. media = req[t].who.team
      BY <2>4, <2>6 DEF TeamSeen
    <3>2. req[t].pc # "insert"
      BY <2>1, <2>2, <2>6, NoneArrives DEF Insert, Save, Delete
    <3> QED
      BY <2>1, <2>2, <3>1, <3>2 DEF DecidedElsewhere, Insert, Save, Delete
  <2> QED
    BY <2>5, <2>6
<1> QED
  BY <1>1, Invariance, PTL DEF Spec, ChangedByItsTeam

\* What annotates or entitles a media finds it, and the cache forgets it after TTL.
THEOREM NoneLate == Spec => NoLateAnnotations
<1> DEFINE A == \/ Ids(Ours)' \subseteq Ids(Ours) /\ overrides' = overrides
                \/ \E T \in Teams : since[T] < TTL
<1>1. IInv /\ [Next]_vars => [A]_vars
  <2> SUFFICES ASSUME IInv, [Next]_vars, ~(\E T \in Teams : since[T] < TTL)
               PROVE  Ids(Ours)' \subseteq Ids(Ours) /\ overrides' = overrides
    OBVIOUS
  <2>1. ~Found(Here)
    BY SeenIsRecent DEF IInv
  <2>2. CASE UNCHANGED <<rows, overrides>>
    BY <2>2 DEF Ids, Ours
  <2>3. ASSUME NEW t \in Threads, Insert(t) \/ Save(t), ~Refuse(t)
        PROVE  Ids(Ours)' \subseteq Ids(Ours) /\ overrides' = overrides
    <3>1. req[t].at # Here /\ overrides' = overrides
      BY <2>1, <2>3 DEF Insert, Save
    <3> QED
      BY <2>3, <3>1, NoneArrives
  <2>4. ASSUME NEW t \in Threads, Delete(t), ~Refuse(t)
        PROVE  Ids(Ours)' \subseteq Ids(Ours) /\ overrides' = overrides
    BY <2>4 DEF Delete, Ids, Ours
  <2>5. \A t \in Threads : SaveOverride(t) => Refuse(t)
    BY <2>1 DEF SaveOverride
  <2>6. \A s \in Threads, who \in Callers : Begins(s, who) => UNCHANGED <<rows, overrides>>
    BY DEF Begins, BeginCreate, BeginChange, BeginRemove, BeginUpdate, Begin
  <2> QED
    BY <2>2, <2>3, <2>4, <2>5, <2>6
       DEF Next, Progress, Move, Abort, Refuse, DestroyMedia, Look, Tick, vars
<1> QED
  BY <1>1, Invariance, PTL DEF Spec, NoLateAnnotations
=============================================================================
