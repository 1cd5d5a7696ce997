----------------------------- MODULE Annotations -----------------------------
(***************************************************************************)
(* The annotations of one project media: its tags, flags and comments      *)
(* (app/models/annotations/, app/models/concerns/annotation_base.rb) and   *)
(* the embed that overrides its title (ProjectMedia#embed=), while the     *)
(* media itself is moved between teams or destroyed.                       *)
(*                                                                         *)
(* Permissions on an annotation are decided by the team of the project of  *)
(* the media, which is read through a cache: load_polymorphic keeps the    *)
(* whole object for 30 seconds.  A tag is looked for before it is          *)
(* inserted, an embed before it is initiated, and no index stands behind   *)
(* either.  Teams are public, so that nobody is refused to read; roles are *)
(* given, their changes are the subject of Membership.                     *)
(*                                                                         *)
(* An update may name another media for an annotation (annotated_id,       *)
(* annotated_type), and only the media it names is then asked for its      *)
(* team.  For each team there is one other media, that stays as it is; it  *)
(* is named by its team.                                                   *)
(***************************************************************************)
EXTENDS Permissions

CONSTANTS Users, Threads, Teams,
          Here,        \* the project media this module is about
          RoleIn,      \* the role of each user in each team, Nil for none
          Adder,       \* the user of each project media
          MediaOwner,  \* the user of its media
          TTL,         \* 30 seconds (annotation_base.rb:248), in ticks
          Texts,       \* texts of comments, of tags, flags and titles
          Fields,      \* fields of an embed that override: title, description
          Callers,     \* who sends requests: a user and the team of the context
          Drafts,      \* bound: the annotations that are asked for
          Changes,     \* bound: the updates of them that are asked for, and
          Edits,       \* bound: those of the media, Nil standing for what a
                       \* request does not assign
          MaxRequests, \* bound: how many requests are served
          Nil

Media == Teams \cup {Here}

ASSUME RolesAssumption == RoleIn \in [Teams -> [Users -> Roles \cup {Nil}]]
ASSUME TTLAssumption == TTL \in Nat \ {0}
ASSUME CallersAssumption == Callers \subseteq [user : Users, team : Teams]
ASSUME DraftsAssumption == Drafts \subseteq [kind : Kinds, text : Texts, at : Media]
ASSUME ChangesAssumption == Changes \subseteq [text : Texts \cup {Nil}, at : Media \cup {Nil}]
ASSUME EditsAssumption == Edits \subseteq [embed : [Fields -> Texts \cup {Nil}],
                                           team : Teams \cup {Nil}]
ASSUME BoundAssumption == MaxRequests \in Nat

Row == [id : Nat, kind : Kinds, text : Texts, by : Users, at : Media]
Data == [Fields -> Texts \cup {Nil}]
Embed == [id : Nat, data : Data]

ASSUME NilAssumption == Nil \notin Media \cup Texts \cup Roles \cup Embed /\ Here \notin Teams

VARIABLES rows,       \* the tags, flags and comments, each with the media it is on
          overrides,  \* its annotations of type embed
          nextId,
          home,       \* the team of the project the media is in, Nil once destroyed
          cache,      \* the entry find_projectmedia_{id} of Rails.cache
          req,        \* the request each thread serves
          begun,      \* bound: the requests that were begun
          since,      \* history: ticks since the media was in each team, up to TTL
          chosen,     \* history: what was last set for each field
          alone       \* history: no request has overlapped another, no tag was renamed

vars == <<rows, overrides, nextId, home, cache, req, begun, since, chosen, alone>>

Entry == [team : Teams, age : 0..TTL - 1]
NoEntry == [team |-> Nil, age |-> TTL]

Idle == [pc |-> "idle"]
Creating == [pc : {"insert"}, who : Callers, kind : Kinds, text : Texts, at : Media]
Changing == [pc : {"save"}, who : Callers, row : Row, text : Texts, at : Media]
Removing == [pc : {"delete"}, who : Callers, row : Row]
Updating == [pc : {"override", "move"}, who : Callers, loaded : Embed \cup {Nil}, info : Data,
             from : Teams, dest : Teams]

TypeOK == /\ rows \subseteq Row
          /\ overrides \subseteq Embed
          /\ nextId \in Nat
          /\ home \in Teams \cup {Nil}
          /\ cache \in Entry \cup {NoEntry}
          /\ req \in [Threads -> {Idle} \cup Creating \cup Changing \cup Removing \cup Updating]
          /\ begun \in 0..MaxRequests
          /\ since \in [Teams -> 0..TTL]
          /\ chosen \in Data
          /\ alone \in BOOLEAN

-----------------------------------------------------------------------------
Live == cache # NoEntry

\* `annotated`: from the cache while there is an entry, else with a find that raises
\* once the media is destroyed.
Found(media) == media = Here => Live \/ home # Nil

\* get_team: the team of the annotated object, as it was when it was cached.
TeamSeen(media) == IF media # Here THEN media ELSE IF Live THEN cache.team ELSE home

\* The cache once `annotated` was asked for.
Asked(media) ==
  IF media = Here /\ ~Live /\ home # Nil THEN [team |-> home, age |-> 0] ELSE cache

RoleOf(who) == RoleIn[who.team][who.user]

InTeam(who, media) == TeamSeen(media) = who.team

Serve(t, r) == req' = [req EXCEPT ![t] = r]

Begin(t, r) == /\ req[t] = Idle
               /\ begun < MaxRequests
               /\ begun' = begun + 1
               /\ alone' = (alone /\ \A s \in Threads : req[s] = Idle)
               /\ Serve(t, r)
               /\ UNCHANGED <<rows, overrides, nextId, home, since, chosen>>

Tags(text, media) == {m \in rows : m.kind = "Tag" /\ m.text = text /\ m.at = media}

\* The request ends with an error: a rule may refuse before it asks for the team.
Refuse(t) == /\ Serve(t, Idle)
             /\ cache' \in {cache, Asked(Here)}
             /\ UNCHANGED <<rows, overrides, nextId, home, begun, since, chosen, alone>>

Nothing == [f \in Fields |-> Nil]

\* What is kept of `old` where `new` says nothing (override_embed_data skips blanks).
Merge(old, new) == [f \in Fields |-> IF new[f] = Nil THEN old[f] ELSE new[f]]

\* get_annotations('embed').last: the list is newest first.
Oldest == CHOOSE e \in overrides : \A d \in overrides : e.id <= d.id

\* ProjectMedia#embed: what the media is shown with, Nil for what Pender gave.
Shown == IF overrides = {} THEN Nothing ELSE Oldest.data

\* History: the media is in `h` now.
Seen(h) == IF h = Nil THEN since ELSE [since EXCEPT ![h] = 0]

-----------------------------------------------------------------------------
\* A claim or a file starts with an embed for its title, a link with none.
Init == /\ rows = {}
        /\ \/ overrides = {} /\ chosen = Nothing
           \/ \E edit \in Edits : /\ overrides = {[id |-> 0, data |-> edit.embed]}
                                  /\ chosen = edit.embed
        /\ nextId = 1
        /\ home \in Teams
        /\ cache = NoEntry
        /\ req = [t \in Threads |-> Idle]
        /\ begun = 0
        /\ since = [T \in Teams |-> IF T = home THEN 0 ELSE TTL]
        /\ alone = TRUE

\* Mutant of BeginCreate: without the uniqueness of tags.
BeginCreateUnchecked(t, who, draft) ==
  /\ Begin(t, [pc |-> "insert", who |-> who, kind |-> draft.kind, text |-> draft.text,
                at |-> draft.at])
  /\ UNCHANGED cache

\* createTag, createFlag, createComment up to the validation: no such tag is there.
BeginCreate(t, who, draft) ==
  /\ draft.kind = "Tag" => Tags(draft.text, draft.at) = {}
  /\ Begin(t, [pc |-> "insert", who |-> who, kind |-> draft.kind, text |-> draft.text,
                at |-> draft.at])
  /\ UNCHANGED cache

\* Mutant of Insert: the media is not asked for, and a tag is for any contributor.
InsertAnyway(t) ==
  /\ req[t].pc = "insert"
  /\ IF AtLeast(RoleOf(req[t].who), "contributor")
     THEN /\ rows' = rows \cup {[id |-> nextId, kind |-> req[t].kind, text |-> req[t].text,
                                 by |-> req[t].who.user, at |-> req[t].at]}
          /\ nextId' = nextId + 1
          /\ cache' = Asked(req[t].at)
          /\ Serve(t, Idle)
          /\ UNCHANGED <<overrides, home, begun, since, chosen, alone>>
     ELSE Refuse(t)

\* The rest of save!: permission, INSERT, and the callbacks, which need the media.
Insert(t) ==
  /\ req[t].pc = "insert"
  /\ IF /\ Found(req[t].at)
        /\ MayAnnotate(RoleOf(req[t].who), req[t].kind, req[t].text,
                       InTeam(req[t].who, req[t].at), req[t].who.user = Adder[req[t].at])
     THEN /\ rows' = rows \cup {[id |-> nextId, kind |-> req[t].kind, text |-> req[t].text,
                                 by |-> req[t].who.user, at |-> req[t].at]}
          /\ nextId' = nextId + 1
          /\ cache' = Asked(req[t].at)
          /\ Serve(t, Idle)
          /\ UNCHANGED <<overrides, home, begun, since, chosen, alone>>
     ELSE Refuse(t)

\* updateTag, updateFlag, updateComment: the row is loaded and read, which asks for
\* its team, and a text or another media assigned.
BeginChange(t, who, m, change) ==
  /\ Found(m.at)
  /\ Begin(t, [pc |-> "save", who |-> who, row |-> m,
                text |-> IF change.text = Nil THEN m.text ELSE change.text,
                at |-> IF change.at = Nil THEN m.at ELSE change.at])
  /\ cache' = Asked(m.at)

\* The UPDATE of `m`, which may have changed since: the columns that were assigned.
Changed(m, r) == [m EXCEPT !.text = IF r.text # r.row.text THEN r.text ELSE @,
                           !.at = IF r.at # r.row.at THEN r.at ELSE @]

\* save!: permission, asked of the media as it was just assigned, and the UPDATE of a
\* row that may be gone.
Save(t) ==
  /\ req[t].pc = "save"
  /\ IF /\ Found(req[t].at)
        /\ MayChange(RoleOf(req[t].who), req[t].row.kind, InTeam(req[t].who, req[t].at),
                     req[t].row.by = req[t].who.user)
     THEN /\ rows' = {IF m.id = req[t].row.id THEN Changed(m, req[t]) ELSE m : m \in rows}
          /\ alone' = (alone /\ (rows' = rows \/ req[t].row.kind # "Tag"))
          /\ cache' = Asked(req[t].at)
          /\ Serve(t, Idle)
          /\ UNCHANGED <<overrides, nextId, home, begun, since, chosen>>
     ELSE Refuse(t)

\* destroyTag, destroyFlag, destroyComment: find.
BeginRemove(t, who, m) ==
  /\ Begin(t, [pc |-> "delete", who |-> who, row |-> m])
  /\ UNCHANGED cache

\* Mutant of Delete: owners destroy in every team.
DeleteAnywhere(t) ==
  /\ req[t].pc = "delete"
  /\ IF MayRemove(RoleOf(req[t].who), req[t].row.kind, TRUE)
     THEN /\ rows' = {m \in rows : m.id # req[t].row.id}
          /\ cache' = Asked(req[t].row.at)
          /\ Serve(t, Idle)
          /\ UNCHANGED <<overrides, nextId, home, begun, since, chosen, alone>>
     ELSE Refuse(t)

\* ... and destroy: permission, DELETE.
Delete(t) ==
  /\ req[t].pc = "delete"
  /\ IF MayRemove(RoleOf(req[t].who), req[t].row.kind, InTeam(req[t].who, req[t].row.at))
     THEN /\ rows' = {m \in rows : m.id # req[t].row.id}
          /\ cache' = Asked(req[t].row.at)
          /\ Serve(t, Idle)
          /\ UNCHANGED <<overrides, nextId, home, begun, since, chosen, alone>>
     ELSE Refuse(t)

\* The update `edit` of the media as it was loaded, with the embed that was found.
Update(who, edit, found) ==
  [pc |-> IF edit.embed = Nothing THEN "move" ELSE "override", who |-> who, loaded |-> found,
   info |-> edit.embed, from |-> home, dest |-> IF edit.team = Nil THEN home ELSE edit.team]

\* Mutant of BeginUpdate: an embed is always initiated.
BeginUpdateAnew(t, who, edit) ==
  /\ home # Nil
  /\ Begin(t, Update(who, edit, Nil))
  /\ UNCHANGED cache

\* updateProjectMedia: the media is loaded, and `embed=` looks for its embed.
BeginUpdate(t, who, edit) ==
  /\ home # Nil
  /\ Begin(t, Update(who, edit, IF overrides = {} THEN Nil ELSE Oldest))
  /\ UNCHANGED cache

\* The embed once `info` is saved: initiated, or the column `data` written whole.
Overridden(r) ==
  IF r.loaded = Nil THEN overrides \cup {[id |-> nextId, data |-> r.info]}
  ELSE {IF e.id = r.loaded.id /\ Merge(e.data, r.info) # e.data
        THEN [e EXCEPT !.data = Merge(r.loaded.data, r.info)] ELSE e : e \in overrides}

\* override_embed_data: the embed is saved by the assignment, before the media is.
SaveOverride(t) ==
  /\ req[t].pc = "override"
  /\ IF Found(Here) /\ MayOverride(RoleOf(req[t].who))
     THEN /\ overrides' = Overridden(req[t])
          /\ nextId' = IF req[t].loaded = Nil THEN nextId + 1 ELSE nextId
          /\ chosen' = Merge(chosen, req[t].info)
          /\ cache' = Asked(Here)
          /\ Serve(t, [req[t] EXCEPT !.pc = "move"])
          /\ UNCHANGED <<rows, home, begun, since, alone>>
     ELSE Refuse(t)

\* save! of the media, asked for the team it is to be in; a project that was not
\* assigned another value is not written.
Move(t) ==
  /\ req[t].pc = "move"
  /\ IF /\ home # Nil /\ req[t].dest # req[t].from
        /\ MayUpdateMedia(RoleOf(req[t].who), req[t].dest = req[t].who.team,
                          req[t].who.user = MediaOwner)
     THEN home' = req[t].dest
     ELSE home' = home
  /\ since' = Seen(home')
  /\ Serve(t, Idle)
  /\ UNCHANGED <<rows, overrides, nextId, cache, begun, chosen, alone>>

\* A process dies, or Pusher, Slack or a validation raises.
Abort(t) == /\ req[t] # Idle
            /\ Refuse(t)

\* destroyProjectMedia; annotations stay.
DestroyMedia(who) ==
  /\ home # Nil
  /\ MayDestroyMedia(RoleOf(who), home = who.team, who.user = MediaOwner)
  /\ home' = Nil
  /\ UNCHANGED <<rows, overrides, nextId, cache, req, begun, since, chosen, alone>>

\* A query of the annotations, which reads the team of each.
Look == /\ cache' = Asked(Here)
        /\ UNCHANGED <<rows, overrides, nextId, home, req, begun, since, chosen, alone>>

\* Mutant of Tick: the entry expires a tick late.
TickLate ==
  /\ cache' = IF ~Live \/ cache.age = TTL THEN NoEntry ELSE [cache EXCEPT !.age = @ + 1]
  /\ since' = [T \in Teams |-> IF T = home THEN 0
                               ELSE IF since[T] < TTL THEN since[T] + 1 ELSE TTL]
  /\ UNCHANGED <<rows, overrides, nextId, home, req, begun, chosen, alone>>

\* Time passes, and an entry that is TTL old expires.
Tick ==
  /\ cache' = IF ~Live \/ cache.age + 1 = TTL THEN NoEntry ELSE [cache EXCEPT !.age = @ + 1]
  /\ since' = [T \in Teams |-> IF T = home THEN 0
                               ELSE IF since[T] < TTL THEN since[T] + 1 ELSE TTL]
  /\ UNCHANGED <<rows, overrides, nextId, home, req, begun, chosen, alone>>

-----------------------------------------------------------------------------
Begins(t, who) ==
  \/ \E draft \in Drafts : BeginCreate(t, who, draft)
  \/ \E m \in rows : BeginRemove(t, who, m)
  \/ \E m \in rows, change \in Changes : BeginChange(t, who, m, change)
  \/ \E edit \in Edits : BeginUpdate(t, who, edit)

Progress(t) == Insert(t) \/ Save(t) \/ Delete(t) \/ SaveOverride(t) \/ Move(t)

Next == \/ \E t \in Threads : Progress(t) \/ Abort(t) \/ \E who \in Callers : Begins(t, who)
        \/ \E who \in Callers : DestroyMedia(who)
        \/ Look
        \/ Tick

Spec == Init /\ [][Next]_vars

-----------------------------------------------------------------------------
\* While no two requests overlap, a media has a tag once ("already exists", tag.rb:10).
AloneTagsUnique ==
  alone => \A m, n \in rows :
             m.kind = "Tag" /\ n.kind = "Tag" /\ m.text = n.text /\ m.at = n.at => m = n

\* While no two requests overlap, the media is shown with what was last set for each
\* field, whatever else was set since (project_media.rb:142-150, 222-225).
AloneTitlesStand == alone => Shown = chosen

Ours == {m \in rows : m.at = Here}

\* The request was decided by another media of its own team: it takes the annotation
\* there, or has loaded it from there before it came here.
DecidedElsewhere(r) == \/ r.pc = "save" /\ r.at = r.who.team
                       \/ r.pc = "delete" /\ r.row.at = r.who.team

\* Whatever moves the media and its annotations, and however often they are read, the
\* annotations of the media are changed in the name of a team that it was in less than
\* 30 seconds ago, or by a request that another media of its own team has decided, as
\* an update may name one (tag_mutations.rb:8-13, annotation_base.rb:173-180); comments
\* are open to all teams, and admins change what they like.
ChangedByItsTeam ==
  [][\A t \in Threads :
       Ours' # Ours /\ req[t] # Idle /\ req'[t] = Idle
       => \/ RoleOf(req[t].who) = "admin"
          \/ req[t].pc = "insert" /\ req[t].kind = "Comment"
          \/ since[req[t].who.team] < TTL
          \/ DecidedElsewhere(req[t])]_vars

Ids(S) == {m.id : m \in S}

\* A media that was destroyed gets no annotation, new or from another media, and no title
\* 30 seconds later.
NoLateAnnotations ==
  [][\/ Ids(Ours)' \subseteq Ids(Ours) /\ overrides' = overrides
     \/ \E T \in Teams : since[T] < TTL]_vars
=============================================================================
