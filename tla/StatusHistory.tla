--------------------------- MODULE StatusHistory ---------------------------
(***************************************************************************)
(* The verification status of one project media: its row in `annotations`, *)
(* the PaperTrail versions of that row, and the GraphQL requests that      *)
(* change it (app/models/annotations/status.rb, the base in                *)
(* app/models/concerns/annotation_base.rb, and                             *)
(* app/graph/mutations/graphql_crud_operations.rb).                        *)
(*                                                                         *)
(* A request runs in a thread of the application server.  An update loads  *)
(* the row, assigns and saves; a destroy does not delete: it reads the     *)
(* newest version, saves the row with the values of that version and then  *)
(* deletes the newest version, in separate transactions.  Nothing locks    *)
(* the row across these steps.                                             *)
(*                                                                         *)
(* A save is one transaction, but PostgreSQL runs it at READ COMMITTED:    *)
(* each of its queries sees what is committed when it runs.  So it is a    *)
(* step for the status it will announce as the old one, one for the        *)
(* validation, one for the UPDATE and the labels of the Slack message, and *)
(* one for the COMMIT.  From the UPDATE to the COMMIT the transaction      *)
(* holds the lock of the row, if it writes any column.                     *)
(*                                                                         *)
(* Left out: annotated_id and annotated_type, which updateStatus may       *)
(* assign too (status_mutations.rb:8-13); the status stays with its media. *)
(***************************************************************************)
EXTENDS Naturals

CONSTANTS Statuses,       \* the status identifiers a team may offer
          DefaultStatus,  \* Status.default_id
          Users, Journalists, Owners,  \* by the role each has in the team, or above
          Threads,        \* threads of the application server
          MaxVersions,    \* bound: no update starts after this many versions
          Nil

Row == [status : Statuses, annotator : Users]

\* A version keeps the attributes the row had before a change; the version
\* written when the row is created keeps none.
Version == [id : Nat \ {0}, object : Row \cup {Nil}]

ASSUME StatusesAssumption == DefaultStatus \in Statuses
ASSUME RolesAssumption == Owners \subseteq Journalists /\ Journalists \subseteq Users
ASSUME BoundAssumption == MaxVersions \in Nat
ASSUME NilAssumption == Nil \notin Row /\ Nil \notin Version /\ Nil \notin Users

VARIABLES row,         \* the annotation, Nil while it does not exist
          versions,    \* the rows of `versions` that belong to it
          nextId,      \* sequence of the ids of `versions`
          listed,      \* statuses the team offers now (Status.possible_values)
          slack,       \* the team's slack_notifications_enabled
          req,         \* the request each thread is serving
          seen,        \* the lists in force since each thread's request began, as
                       \* long as it may still save the row
          held,        \* history: the statuses the row has had
          steady       \* history: no settings saved since all threads were last idle

vars == <<row, versions, nextId, listed, slack, req, seen, held, steady>>

Idle == [pc |-> "idle", step |-> "loaded", user |-> Nil, loaded |-> Nil, target |-> Nil,
         previous |-> Nil, restored |-> Nil, newest |-> Nil]

\* "step" is how far the save of an update or of a revert has come, "previous"
\* the status it announces as the one replaced.
Request == [pc : {"idle", "update", "destroy", "revert", "reverted", "drop"},
            step : {"loaded", "previous", "valid", "written"},
            user : Users \cup {Nil},
            loaded : Row \cup {Nil}, target : Row \cup {Nil},
            previous : Statuses \cup {Nil},
            restored : Version \cup {Nil}, newest : Version \cup {Nil}]

TypeOK == /\ row \in Row \cup {Nil}
          /\ versions \subseteq Version
          /\ nextId \in Nat \ {0}
          /\ listed \subseteq Statuses
          /\ slack \in BOOLEAN
          /\ req \in [Threads -> Request]
          /\ seen \in [Threads -> SUBSET SUBSET Statuses]
          /\ held \subseteq Statuses
          /\ steady \in BOOLEAN
          /\ \A t \in Threads :
               /\ req[t].pc # "idle" => req[t].user \in Users
               /\ req[t].pc \in {"update", "revert"} =>
                    req[t].loaded # Nil /\ req[t].target # Nil
               /\ req[t].pc = "drop" => req[t].newest # Nil

-----------------------------------------------------------------------------
Newest(v) == v \in versions /\ \A w \in versions : w.id <= v.id

Finish(t) == /\ req' = [req EXCEPT ![t] = Idle]
             /\ seen' = [seen EXCEPT ![t] = {}]

\* ProjectMedia#last_status: the default stands in for a missing row.
LastStatus == IF row = Nil THEN DefaultStatus ELSE row.status

\* Ability: journalists and above create and update a status, owners destroy it
\* and its versions.
MayUpdate(t) == req[t].user \in Journalists

MayDestroy(t) == req[t].user \in Owners

Saving(t) == req[t].pc \in {"update", "revert"}

\* Mutant of StatusIsValid: validation forgotten.
AnyStatusIsValid(t, list) == TRUE

\* The status to be written is one of a list of the team's.
StatusIsValid(t, list) == req[t].target.status \in list

\* Mutant of CanNotify: the label of the status replaced is not looked up.
CanNotifyNew(t) == slack => req[t].target.status \in listed

\* The Slack message can be put together: it looks up the labels of the status
\* that is being replaced and of the new one, and raises inside the transaction
\* if the team does not list one.
CanNotify(t) == slack => {req[t].previous, req[t].target.status} \subseteq listed

\* This save has columns to write, so its UPDATE takes the lock of the row.
Writes(t) == req[t].target # req[t].loaded

\* Another transaction has written the row and not committed yet.
Locked(t) == /\ row # Nil
             /\ \E u \in Threads \ {t} : Saving(u) /\ req[u].step = "written" /\ Writes(u)

Column(old, new, current) == IF new # old THEN new ELSE current

\* ActiveRecord writes the columns that differ from what this request loaded,
\* and an UPDATE of a row that is gone touches nothing.
Written(l, n) ==
  IF row = Nil THEN Nil
  ELSE [status    |-> Column(l.status, n.status, row.status),
        annotator |-> Column(l.annotator, n.annotator, row.annotator)]

WriteRow(t) == /\ row' = Written(req[t].loaded, req[t].target)
               /\ held' = IF row' = Nil THEN held ELSE held \cup {row'.status}

-----------------------------------------------------------------------------
Init == /\ row = Nil
        /\ versions = {}
        /\ nextId = 1
        /\ listed = Statuses
        /\ slack = FALSE
        /\ req = [t \in Threads |-> Idle]
        /\ seen = [t \in Threads |-> {}]
        /\ held = {}
        /\ steady = TRUE

\* Mutant of Create: after_save instead of after_create.
CreateIfMissing(u) == /\ row = Nil
                      /\ DefaultStatus \in listed
                      /\ row' = [status |-> DefaultStatus, annotator |-> u]
                      /\ versions' = versions \cup {[id |-> nextId, object |-> Nil]}
                      /\ nextId' = nextId + 1
                      /\ held' = held \cup {DefaultStatus}
                      /\ UNCHANGED <<listed, slack, req, seen, steady>>

\* ProjectMedia#set_initial_media_status, in the transaction that creates the
\* project media: no permission is asked, but the default has to be listed.
Create(u) == /\ nextId = 1
             /\ DefaultStatus \in listed
             /\ row' = [status |-> DefaultStatus, annotator |-> u]
             /\ versions' = {[id |-> 1, object |-> Nil]}
             /\ nextId' = 2
             /\ held' = held \cup {DefaultStatus}
             /\ UNCHANGED <<listed, slack, req, seen, steady>>

\* A request begins: the lists it may read are the present one and those to come.
StartReading(t) == /\ seen' = [seen EXCEPT ![t] = {listed}]
                   /\ steady' = (steady \/ \A u \in Threads : req[u].pc = "idle")

\* updateStatus: object_from_id loads the row, safe_save assigns the new status,
\* set_annotator makes the current user its annotator.
BeginUpdate(t, u, s) ==
  /\ req[t].pc = "idle"
  /\ row # Nil
  /\ nextId <= MaxVersions
  /\ req' = [req EXCEPT ![t] = [Idle EXCEPT !.pc = "update", !.user = u,
                                            !.loaded = row,
                                            !.target = [status |-> s, annotator |-> u]]]
  /\ StartReading(t)
  /\ UNCHANGED <<row, versions, nextId, listed, slack, held>>

\* store_previous_status, before the validation: the status of the media as it
\* is stored now.
StorePrevious(t) ==
  /\ Saving(t)
  /\ req[t].step = "loaded"
  /\ req' = [req EXCEPT ![t].step = "previous", ![t].previous = LastStatus]
  /\ UNCHANGED <<row, versions, nextId, listed, slack, seen, held, steady>>

\* status_is_valid: the team is read from the database, or from the request's
\* query cache if it was read earlier in the request.
Validate(t) ==
  /\ Saving(t)
  /\ req[t].step = "previous"
  /\ \E list \in seen[t] : StatusIsValid(t, list)
  /\ req' = [req EXCEPT ![t].step = "valid"]
  /\ UNCHANGED <<row, versions, nextId, listed, slack, seen, held, steady>>

\* The permission is checked, the UPDATE waits for the lock of the row and takes
\* it, and notify_slack looks up the labels in the team as it is stored then.
Announce(t) ==
  /\ Saving(t)
  /\ req[t].step = "valid"
  /\ MayUpdate(t)
  /\ Writes(t) => ~Locked(t)
  /\ CanNotify(t)
  /\ req' = [req EXCEPT ![t].step = "written"]
  /\ UNCHANGED <<row, versions, nextId, listed, slack, seen, held, steady>>

\* The COMMIT of an update, which adds a version when an attribute of the object
\* in memory has changed, whether or not the row is still there.
SaveUpdate(t) ==
  /\ req[t].pc = "update"
  /\ req[t].step = "written"
  /\ WriteRow(t)
  /\ IF req[t].target # req[t].loaded
     THEN /\ versions' = versions \cup {[id |-> nextId, object |-> req[t].loaded]}
          /\ nextId' = nextId + 1
     ELSE UNCHANGED <<versions, nextId>>
  /\ Finish(t)
  /\ UNCHANGED <<listed, slack, steady>>

\* destroyStatus: the row is found, and its newest version is read.
BeginDestroy(t, u) ==
  /\ req[t].pc = "idle"
  /\ row # Nil
  /\ \/ /\ versions = {}
        /\ req' = [req EXCEPT ![t] = [Idle EXCEPT !.pc = "destroy", !.user = u]]
     \/ \E v \in versions :
          /\ Newest(v)
          /\ req' = [req EXCEPT ![t] = [Idle EXCEPT !.pc = "destroy", !.user = u,
                                                    !.target = v.object,
                                                    !.restored = v]]
  /\ StartReading(t)
  /\ UNCHANGED <<row, versions, nextId, listed, slack, held>>

\* Mutant of Reify: a row that is gone goes unnoticed.
ReifyUnchecked(t) ==
  /\ req[t].pc = "destroy"
  /\ req[t].target # Nil
  /\ req' = [req EXCEPT ![t].pc = "revert", ![t].loaded = row,
                        ![t].target.annotator = req[t].user]
  /\ UNCHANGED <<row, versions, nextId, listed, slack, seen, held, steady>>

\* previous_version.reify: the attributes of the version laid over the row as it
\* is now; the annotator becomes the current user when the result is validated.
Reify(t) ==
  /\ req[t].pc = "destroy"
  /\ req[t].target # Nil
  /\ row # Nil
  /\ req' = [req EXCEPT ![t].pc = "revert", ![t].loaded = row,
                        ![t].target.annotator = req[t].user]
  /\ UNCHANGED <<row, versions, nextId, listed, slack, seen, held, steady>>

\* Mutant of SaveRevert: with versioning.
SaveRevertVersioned(t) ==
  /\ req[t].pc = "revert"
  /\ req[t].step = "written"
  /\ WriteRow(t)
  /\ versions' = versions \cup {[id |-> nextId, object |-> req[t].loaded]}
  /\ nextId' = nextId + 1
  /\ req' = [req EXCEPT ![t] = [Idle EXCEPT !.pc = "reverted", !.user = req[t].user,
                                            !.restored = req[t].restored]]
  /\ seen' = [seen EXCEPT ![t] = {}]
  /\ UNCHANGED <<listed, slack, steady>>

\* The COMMIT of widget.save!, without versioning.
SaveRevert(t) ==
  /\ req[t].pc = "revert"
  /\ req[t].step = "written"
  /\ WriteRow(t)
  /\ req' = [req EXCEPT ![t] = [Idle EXCEPT !.pc = "reverted", !.user = req[t].user,
                                            !.restored = req[t].restored]]
  /\ seen' = [seen EXCEPT ![t] = {}]
  /\ UNCHANGED <<versions, nextId, listed, slack, steady>>

\* Mutant of PickVersion: versions.first.
PickOldestVersion(t) ==
  /\ req[t].pc = "reverted"
  /\ \E v \in versions :
       /\ \A w \in versions : v.id <= w.id
       /\ req' = [req EXCEPT ![t].pc = "drop", ![t].newest = v]
  /\ UNCHANGED <<row, versions, nextId, listed, slack, seen, held, steady>>

\* self.versions.last: read again, after the save.
PickVersion(t) ==
  /\ req[t].pc = "reverted"
  /\ \E v \in versions :
       /\ Newest(v)
       /\ req' = [req EXCEPT ![t].pc = "drop", ![t].newest = v]
  /\ UNCHANGED <<row, versions, nextId, listed, slack, seen, held, steady>>

\* ... .destroy of that version, which asks for the owner's permission and for
\* the status the version belongs to.
DropVersion(t) ==
  /\ req[t].pc = "drop"
  /\ MayDestroy(t)
  /\ row # Nil
  /\ versions' = versions \ {req[t].newest}
  /\ Finish(t)
  /\ UNCHANGED <<row, nextId, listed, slack, held, steady>>

\* Nothing to revert to: Annotation.find(id).destroy deletes the row and leaves
\* its versions.
Withdraw(t) ==
  /\ req[t].pc = "destroy"
  /\ req[t].target = Nil
  /\ MayDestroy(t)
  /\ row # Nil
  /\ ~Locked(t)
  /\ row' = Nil
  /\ Finish(t)
  /\ UNCHANGED <<versions, nextId, listed, slack, held, steady>>

\* A step that raises ends the request there: what earlier steps of the request
\* have committed stays.
Raises(t) ==
  \/ /\ Saving(t)
     /\ req[t].step = "previous"
     /\ \E list \in seen[t] : ~StatusIsValid(t, list)
  \/ /\ Saving(t)
     /\ req[t].step = "valid"
     /\ ~MayUpdate(t) \/ ((Writes(t) => ~Locked(t)) /\ ~CanNotify(t))
  \/ req[t].pc = "destroy" /\ row = Nil
  \/ req[t].pc = "destroy" /\ req[t].target = Nil /\ ~MayDestroy(t)
  \/ req[t].pc = "reverted" /\ versions = {}
  \/ req[t].pc = "drop" /\ (~MayDestroy(t) \/ row = Nil)

\* Mutant of Fail: the version of an update is written before it is validated,
\* with the new attributes, and stays when the update is refused.
FailLeavesVersion(t) ==
  /\ Raises(t)
  /\ Finish(t)
  /\ IF req[t].pc = "update"
     THEN /\ versions' = versions \cup {[id |-> nextId, object |-> req[t].target]}
          /\ nextId' = nextId + 1
     ELSE UNCHANGED <<versions, nextId>>
  /\ UNCHANGED <<row, listed, slack, held, steady>>

Fail(t) == /\ Raises(t)
           /\ Finish(t)
           /\ UNCHANGED <<row, versions, nextId, listed, slack, held, steady>>

\* The process that serves the request dies.
Crash(t) == /\ req[t].pc # "idle"
            /\ Finish(t)
            /\ UNCHANGED <<row, versions, nextId, listed, slack, held, steady>>

\* destroyVersion: an owner deletes any version of an existing status.
DestroyVersion(v) == /\ Owners # {}
                     /\ row # Nil
                     /\ versions' = versions \ {v}
                     /\ UNCHANGED <<row, nextId, listed, slack, req, seen, held, steady>>

\* The team's settings are saved: its list of statuses, never empty, and Slack.
SetTeam(list, on) == /\ list # {}
                     /\ <<list, on>> # <<listed, slack>>
                     /\ listed' = list
                     /\ slack' = on
                     /\ seen' = [t \in Threads |-> IF seen[t] = {} THEN {}
                                                  ELSE seen[t] \cup {list}]
                     /\ steady' = \A t \in Threads : req[t].pc = "idle"
                     /\ UNCHANGED <<row, versions, nextId, req, held>>

-----------------------------------------------------------------------------
Begin(t) == \E u \in Users : \/ \E s \in Statuses : BeginUpdate(t, u, s)
                             \/ BeginDestroy(t, u)

Progress(t) == \/ StorePrevious(t) \/ Validate(t) \/ Announce(t)
               \/ SaveUpdate(t) \/ Reify(t) \/ SaveRevert(t) \/ PickVersion(t)
               \/ DropVersion(t) \/ Withdraw(t) \/ Fail(t)

Settings == \E list \in SUBSET Statuses, on \in BOOLEAN : SetTeam(list, on)

\* Requests that run to their end, and the team's settings.
RequestNext == \/ \E u \in Users : Create(u)
               \/ \E t \in Threads : Begin(t) \/ Progress(t)
               \/ Settings

Next == \/ RequestNext
        \/ \E t \in Threads : Crash(t)
        \/ \E v \in versions : DestroyVersion(v)

Spec == Init /\ [][Next]_vars

RequestSpec == Init /\ [][RequestNext]_vars

-----------------------------------------------------------------------------
\* Destroying a status never invents one: a destroy that changes the status
\* gives the row a status it has had before, whatever other requests did since
\* the version was read (Status#destroy, status.rb:92-103).
RestoresHeldStatus ==
  [][\A t \in Threads : req[t].pc = "revert" /\ req'[t] # req[t] /\ row' # Nil
                          => row'.status \in held]_vars

\* A status that was withdrawn stays withdrawn: a request that loaded the row
\* earlier cannot bring it back by saving.
WithdrawnStaysWithdrawn == [][row = Nil /\ nextId > 1 => row' = Nil]_vars

\* However the list changes between load, validation and commit, or between the
\* version and its revert, a status that a request writes is one the team has
\* offered since that request began (Status#status_is_valid, status.rb:111-117):
\* an update that waits for another's lock and a revert to an old version included.
WritesOfferedStatus ==
  [][\A t \in Threads :
       /\ Saving(t) /\ req'[t] # req[t]
       /\ row # Nil /\ row' # Nil /\ row'.status # row.status
       => \E list \in seen[t] : row'.status \in list]_vars

\* While Slack is on and no settings are saved, no change of status goes by that
\* could not be announced with the labels of both the status that is replaced and
\* the one that replaces it (Status#id_to_label, status.rb:83-86), although the
\* old one is read before the UPDATE and requests overlap.
AnnouncedChangesAreNamed ==
  [][/\ steady /\ slack
     /\ row # Nil /\ row' # Nil /\ row'.status # row.status
     => {row.status, row'.status} \subseteq listed]_vars

\* "should revert status" (status.rb:93): the version a destroy deletes is the
\* one whose values it has put back.
DropsVersionRestored ==
  [][\A t \in Threads : req[t].pc = "drop" /\ versions' # versions /\ req'[t] # req[t]
                          => req[t].newest = req[t].restored]_vars

\* A destroy that is refused for lack of permission changes nothing: only owners
\* can destroy a status (ability_test.rb:713-751).
RefusedDestroyChangesNothing ==
  [][\A t \in Threads :
       /\ req[t].pc \in {"destroy", "revert", "reverted", "drop"}
       /\ req[t].user \notin Owners
       /\ req'[t] # req[t]
       => row' = row /\ versions' = versions]_vars
=============================================================================
