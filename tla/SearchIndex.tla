---------------------------- MODULE SearchIndex ----------------------------
(***************************************************************************)
(* The Elasticsearch copy of one project media: its document, with the     *)
(* status, title and description, and the child documents of its comments  *)
(* (app/models/project_media.rb, app/models/concerns/annotation_base.rb,   *)
(* app/workers/elastic_search_worker.rb).                                  *)
(*                                                                         *)
(* Saving an annotation queues a Sidekiq job that carries the annotation   *)
(* as it was saved.  A worker searches for the media's document, sets the  *)
(* job's field in what it found and stores the whole document.  A search   *)
(* sees the index as of its last refresh.                                  *)
(***************************************************************************)
EXTENDS Naturals

CONSTANTS Fields,    \* fields of the document that jobs update
          Notes,     \* the comments of the media
          Values, Initial,
          Workers,   \* threads of Sidekiq
          MaxJobs,   \* bound: nothing is saved after this many jobs
          MaxTries,  \* bound: retries of a job before Sidekiq gives it up
          Nil

ASSUME InitialAssumption == Initial \in Values
ASSUME KeysAssumption == Fields \cap Notes = {} /\ "status" \in Fields
ASSUME BoundsAssumption == MaxJobs \in Nat /\ MaxTries \in Nat
ASSUME NilAssumption == Nil \notin Values /\ Nil \notin [Fields -> Values]

VARIABLES media,     \* the project media's row
          db,        \* what the database holds for each field and comment
          doc,       \* the document in the index
          children,  \* the child documents in the index
          found,     \* the document as a search sees it
          jobs,      \* the queue, with the jobs scheduled and to be retried
          nextJob,
          work,      \* what each worker is at
          queued,    \* history: the values jobs were queued with, those of saves that
                     \* rolled back included
          smooth     \* history: no save has overlapped another, no job was lost and
                     \* no transaction rolled back

vars == <<media, db, doc, children, found, jobs, nextJob, work, queued, smooth>>

Keys == Fields \cup Notes
Document == [Fields -> Values]
Job == [id : Nat, key : Keys, value : Values, tries : Nat]
Free == [pc |-> "free", job |-> Nil, copy |-> Nil]
Busy == [pc : {"child", "parent"}, job : Job, copy : Document]

TypeOK == /\ media \in {"absent", "saving", "present", "rolled back", "destroyed"}
          /\ db \in [Keys -> Values \cup {Nil}]
          /\ doc \in Document \cup {Nil}
          /\ children \in [Notes -> Values \cup {Nil}]
          /\ found \in Document \cup {Nil}
          /\ jobs \subseteq Job
          /\ nextJob \in Nat
          /\ work \in [Workers -> Busy \cup {Free}]
          /\ queued \in [Keys -> SUBSET Values]
          /\ smooth \in BOOLEAN

-----------------------------------------------------------------------------
Idle(w) == work[w] = Free

\* Nothing is on its way into the index, and a search sees all of it.
Quiet == /\ jobs = {}
         /\ \A w \in Workers : Idle(w)
         /\ found = doc

\* perform_in: the job carries the value of the annotation in memory.
Queue(k, v) == /\ jobs' = jobs \cup {[id |-> nextJob, key |-> k, value |-> v, tries |-> 0]}
               /\ nextJob' = nextJob + 1
               /\ queued' = [queued EXCEPT ![k] = @ \cup {v}]

FreshDocument == [f \in Fields |-> Initial]

Init == /\ media = "absent"
        /\ db = [k \in Keys |-> Nil]
        /\ doc = Nil
        /\ children = [n \in Notes |-> Nil]
        /\ found = Nil
        /\ jobs = {}
        /\ nextJob = 0
        /\ work = [w \in Workers |-> Free]
        /\ queued = [k \in Keys |-> {}]
        /\ smooth = TRUE

\* The after_create callbacks of a project media, inside its transaction: the
\* initial status queues its job, and the document is stored.
Create == /\ media = "absent"
          /\ media' = "saving"
          /\ db' = [k \in Keys |-> IF k \in Fields THEN Initial ELSE Nil]
          /\ jobs' = {[id |-> nextJob, key |-> "status", value |-> Initial, tries |-> 0]}
          /\ nextJob' = nextJob + 1
          /\ queued' = [k \in Keys |-> IF k \in Fields THEN {Initial} ELSE {}]
          /\ doc' = FreshDocument
          /\ UNCHANGED <<children, found, work, smooth>>

Commit == /\ media = "saving"
          /\ media' = "present"
          /\ UNCHANGED <<db, doc, children, found, jobs, nextJob, work, queued, smooth>>

\* A later callback raises (the Slack message, the notification queue): the rows
\* are gone, the document and the job are not.
RollBack == /\ media = "saving"
            /\ media' = "rolled back"
            /\ smooth' = FALSE
            /\ UNCHANGED <<db, doc, children, found, jobs, nextJob, work, queued>>

\* A comment that was destroyed, or whose creation rolled back, is not saved again.
Savable(k) == k \in Notes => db[k] # Nil \/ queued[k] = {}

\* An annotation is created or updated: its after_save queues the job.
Save(k, v) == /\ media = "present"
              /\ Savable(k)
              /\ nextJob < MaxJobs
              /\ db' = [db EXCEPT ![k] = v]
              /\ Queue(k, v)
              /\ smooth' = (smooth /\ Quiet)
              /\ UNCHANGED <<media, doc, children, found, work>>

\* The same, but the transaction rolls back after the job was queued: a comment's
\* Slack message is put together after that.
SaveRollsBack(k, v) == /\ media = "present"
                       /\ Savable(k)
                       /\ nextJob < MaxJobs
                       /\ Queue(k, v)
                       /\ smooth' = FALSE
                       /\ UNCHANGED <<media, db, doc, children, found, work>>

\* Destroying a comment or the project media leaves the index alone.
DestroyNote(n) == /\ media = "present"
                  /\ db[n] # Nil
                  /\ db' = [db EXCEPT ![n] = Nil]
                  /\ UNCHANGED <<media, doc, children, found, jobs, nextJob, work, queued, smooth>>

Destroy == /\ media = "present"
           /\ media' = "destroyed"
           /\ UNCHANGED <<db, doc, children, found, jobs, nextJob, work, queued, smooth>>

-----------------------------------------------------------------------------
\* Mutant of Take: nobody checks that the parent was found.
TakeUnchecked(w, j) ==
  /\ Idle(w)
  /\ jobs' = jobs \ {j}
  /\ work' = [work EXCEPT ![w] = [pc |-> IF j.key \in Notes THEN "child" ELSE "parent",
                                  job |-> j, copy |-> found]]
  /\ UNCHANGED <<media, db, doc, children, found, nextJob, queued, smooth>>

\* ElasticSearchWorker#perform, up to the search for the parent: a job whose
\* parent is not found is done.
Take(w, j) ==
  /\ Idle(w)
  /\ jobs' = jobs \ {j}
  /\ work' = IF found = Nil THEN work
             ELSE [work EXCEPT ![w] = [pc |-> IF j.key \in Notes THEN "child" ELSE "parent",
                                       job |-> j, copy |-> found]]
  /\ UNCHANGED <<media, db, doc, children, found, nextJob, queued, smooth>>

\* The child document of a comment is stored ...
StoreChild(w) ==
  /\ work[w].pc = "child"
  /\ children' = [children EXCEPT ![work[w].job.key] = work[w].job.value]
  /\ work' = [work EXCEPT ![w].pc = "parent"]
  /\ UNCHANGED <<media, db, doc, found, jobs, nextJob, queued, smooth>>

\* Mutants of Updated: every key of the annotation's data goes to every field; none
\* is taken for a field of the document.
UpdatedNone(copy, j) == copy

UpdatedAll(copy, j) == IF j.key \in Fields THEN [f \in Fields |-> j.value] ELSE copy

\* The document as a worker stores it: the copy it found, with the job's field
\* set; for a comment, the copy as it is, to move last_activity_at.
Updated(copy, j) == IF j.key \in Fields THEN [copy EXCEPT ![j.key] = j.value] ELSE copy

\* Mutant of StoreParent: storing the document runs the callback that queues the job.
StoreParentRequeues(w) ==
  /\ work[w].pc = "parent"
  /\ doc' = Updated(work[w].copy, work[w].job)
  /\ jobs' = jobs \cup {work[w].job}
  /\ work' = [work EXCEPT ![w] = Free]
  /\ UNCHANGED <<media, db, children, found, nextJob, queued, smooth>>

\* ... and the parent, whole, over what the index holds by now.
StoreParent(w) ==
  /\ work[w].pc = "parent"
  /\ doc' = Updated(work[w].copy, work[w].job)
  /\ work' = [work EXCEPT ![w] = Free]
  /\ UNCHANGED <<media, db, children, found, jobs, nextJob, queued, smooth>>

\* Elasticsearch does not answer: Sidekiq runs the job again later, a number of
\* times, and then gives it up.
Retry(w) ==
  /\ ~Idle(w)
  /\ work[w].job.tries < MaxTries
  /\ jobs' = jobs \cup {[work[w].job EXCEPT !.tries = @ + 1]}
  /\ work' = [work EXCEPT ![w] = Free]
  /\ UNCHANGED <<media, db, doc, children, found, nextJob, queued, smooth>>

\* The job is given up, or the process that ran it is killed.
Lose(w) ==
  /\ ~Idle(w)
  /\ work' = [work EXCEPT ![w] = Free]
  /\ smooth' = FALSE
  /\ UNCHANGED <<media, db, doc, children, found, jobs, nextJob, queued>>

Refresh == /\ found # doc
           /\ found' = doc
           /\ UNCHANGED <<media, db, doc, children, jobs, nextJob, work, queued, smooth>>

-----------------------------------------------------------------------------
Saves == \E k \in Keys, v \in Values : Save(k, v)

Work(w) == (\E j \in jobs : Take(w, j)) \/ StoreChild(w) \/ StoreParent(w)

\* Nothing fails.
PlainNext == \/ Create \/ Commit \/ Saves
             \/ \E n \in Notes : DestroyNote(n)
             \/ Destroy
             \/ \E w \in Workers : Work(w)
             \/ Refresh

Next == \/ PlainNext
        \/ RollBack
        \/ \E k \in Keys, v \in Values : SaveRollsBack(k, v)
        \/ \E w \in Workers : Retry(w) \/ Lose(w)

Spec == Init /\ [][Next]_vars

PlainSpec == Init /\ [][PlainNext]_vars

\* Transactions end, Sidekiq runs its workers, and the index refreshes itself
\* every second.
FairSpec == /\ Spec
            /\ WF_vars(Commit)
            /\ WF_vars(Refresh)
            /\ \A w \in Workers : WF_vars(Work(w))

-----------------------------------------------------------------------------
\* The index never shows in a field or comment a value that no job was queued with
\* for that very field or comment, in whatever order the jobs run, retry and
\* overwrite each other; the save the job was queued by may have rolled back.
IndexHoldsQueuedValues ==
  /\ doc # Nil => \A f \in Fields : doc[f] \in queued[f]
  /\ \A n \in Notes : children[n] # Nil => children[n] \in queued[n]

\* The index agrees with the database.
IndexMatches == /\ doc # Nil
                /\ \A f \in Fields : doc[f] = db[f]
                /\ \A n \in Notes : db[n] # Nil => children[n] = db[n]

\* If every save has waited for the one before to reach the search, retries or
\* not, the index agrees with the database whenever it is quiet.
SmoothIndexMatches == smooth /\ Quiet /\ media = "present" => IndexMatches

\* Once saves have stopped, and if they were spaced, searches settle on the
\* values saved last.
SearchSettles == <>[](smooth /\ media = "present" => Quiet /\ IndexMatches)

\* "resave parent to update last_activity_at" (annotation_base.rb:225): that a
\* comment's job stores the parent again takes no field back that was up to date.
CommentsLeaveFields ==
  [][\A w \in Workers :
       /\ work[w].pc = "parent" /\ work[w].job.key \in Notes /\ work'[w] # work[w]
       => \A f \in Fields : doc[f] = db[f] => doc'[f] = db[f]]_vars
=============================================================================
