------------------------- MODULE SearchIndex_proofs -------------------------
(***************************************************************************)
(* Theorems about SearchIndex, for any fields, comments, values, workers,  *)
(* jobs and retries.                                                       *)
(***************************************************************************)
EXTENDS SearchIndex, TLAPS

USE InitialAssumption, KeysAssumption, BoundsAssumption, NilAssumption

\* While saves are spaced, one job at most is outstanding: in the queue or with a
\* worker.
OneJob == /\ \A i, j \in jobs : i = j
          /\ \A w \in Workers : ~Idle(w) => jobs = {} /\ \A v \in Workers : Idle(v) \/ v = w

\* A job carries the value in the database, unless its comment was destroyed;
\* it is the only reason for a search, or for a worker's copy, to differ from it
\* in a field, and a comment's job is queued only once a search finds the parent.
Current(j) == /\ db[j.key] \in {j.value, Nil}
              /\ found # Nil => \A f \in Fields \ {j.key} : found[f] = db[f]
              /\ j.key \in Notes => found # Nil

JobsCurrent == /\ \A j \in jobs : Current(j)
               /\ \A w \in Workers : ~Idle(w) => /\ Current(work[w].job)
                                                 /\ found # Nil
                                                 /\ \A f \in Fields \ {work[w].job.key} :
                                                      work[w].copy[f] = db[f]
                                                 /\ work[w].pc = "child" => work[w].job.key \in Notes

\* Some outstanding job is for k.
Pending(k) == \/ \E j \in jobs : j.key = k
              \/ \E w \in Workers : ~Idle(w) /\ work[w].job.key = k

\* Some outstanding job has yet to store the child document of n.
PendingChild(n) == \/ \E j \in jobs : j.key = n
                   \/ \E w \in Workers : work[w].pc = "child" /\ work[w].job.key = n

\* What the index lacks, an outstanding job brings.
Covered == /\ doc # Nil => \A f \in Fields : doc[f] = db[f] \/ (found # Nil /\ Pending(f))
           /\ \A n \in Notes : db[n] \in {Nil, children[n]} \/ PendingChild(n)
           /\ media # "absent" => doc # Nil /\ \A f \in Fields : db[f] # Nil
           /\ found # Nil => doc # Nil

\* Nothing is there before the project media is.
Blank == media = "absent" => /\ doc = Nil /\ found = Nil /\ jobs = {}
                             /\ \A w \in Workers : Idle(w)

SmoothInv == smooth => OneJob /\ JobsCurrent /\ Covered /\ Blank

IInv == TypeOK /\ SmoothInv

\* A worker that is not idle is busy with a well-typed job.
LEMMA BusyType ==
  ASSUME TypeOK, NEW w \in Workers
  PROVE  /\ ~Idle(w) <=> work[w] \in Busy
         /\ ~Idle(w) <=> work[w].pc # "free"
<1>1. \A b \in Busy : b.pc # "free"
  BY DEF Busy
<1>2. Free.pc = "free"
  BY DEF Free
<1>3. work[w] \in Busy \/ work[w] = Free
  BY DEF TypeOK
<1> QED
  BY <1>1, <1>2, <1>3 DEF Idle

\* What a job does to a document is a document.
LEMMA UpdatedType ==
  ASSUME NEW copy \in Document, NEW j \in Job
  PROVE  Updated(copy, j) \in Document
  BY DEF Updated, Document, Job, Keys

\* Type correctness holds to begin with.
LEMMA InitType == Init => TypeOK
  BY DEF Init, TypeOK, Keys

\* Queueing a job keeps the queue well typed.
LEMMA QueueType ==
  ASSUME TypeOK, NEW k \in Keys, NEW v \in Values, Queue(k, v)
  PROVE  jobs' \subseteq Job /\ nextJob' \in Nat /\ queued' \in [Keys -> SUBSET Values]
<1>1. nextJob \in Nat
  BY DEF TypeOK
<1>2. [id |-> nextJob, key |-> k, value |-> v, tries |-> 0] \in Job
  BY <1>1 DEF Job
<1>3. jobs' \subseteq Job /\ nextJob' \in Nat
  <2>1. jobs \subseteq Job
    BY DEF TypeOK
  <2>2. jobs' = jobs \cup {[id |-> nextJob, key |-> k, value |-> v, tries |-> 0]}
    BY DEF Queue
  <2>3. nextJob' = nextJob + 1
    BY DEF Queue
  <2> QED
    BY <1>1, <1>2, <2>1, <2>2, <2>3
<1>4. queued[k] \cup {v} \in SUBSET Values
  BY DEF TypeOK
<1>5. queued' \in [Keys -> SUBSET Values]
  BY <1>4 DEF TypeOK, Queue
<1> QED
  BY <1>3, <1>5

\* Creating the project media keeps the types.
LEMMA CreateType == ASSUME TypeOK, Create PROVE TypeOK'
<1>1. "status" \in Keys /\ nextJob \in Nat
  BY DEF Keys, TypeOK
<1>2. jobs' \subseteq Job /\ nextJob' \in Nat
  <2>1. [id |-> nextJob, key |-> "status", value |-> Initial, tries |-> 0] \in Job
    BY <1>1 DEF Job
  <2> QED
    BY <1>1, <2>1 DEF Create
<1>3. db' \in [Keys -> Values \cup {Nil}] /\ queued' \in [Keys -> SUBSET Values]
  BY DEF Create
<1>4. doc' \in Document
  BY DEF Create, FreshDocument, Document
<1> QED
  BY <1>2, <1>3, <1>4 DEF Create, TypeOK

\* A worker's step keeps the types.
LEMMA WorkType == ASSUME TypeOK, NEW w \in Workers, Work(w) PROVE TypeOK'
<1>1. ASSUME NEW j \in jobs, Take(w, j) PROVE TypeOK'
  <2>1. j \in Job /\ jobs' \subseteq Job
    BY <1>1 DEF Take, TypeOK
  <2>2. CASE found = Nil
    BY <1>1, <2>1, <2>2 DEF Take, TypeOK
  <2>3. CASE found # Nil
    <3>1. [pc |-> IF j.key \in Notes THEN "child" ELSE "parent", job |-> j, copy |-> found] \in Busy
      BY <2>1, <2>3 DEF Busy, TypeOK
    <3>2. work' \in [Workers -> Busy \cup {Free}]
      BY <1>1, <2>3, <3>1 DEF Take, TypeOK
    <3> QED
      BY <1>1, <2>1, <3>2 DEF Take, TypeOK
  <2> QED
    BY <2>2, <2>3
<1>2. CASE StoreChild(w)
  <2>1. work[w] \in Busy
    BY <1>2, BusyType DEF StoreChild
  <2>2. [work[w] EXCEPT !.pc = "parent"] \in Busy /\ work[w].job.value \in Values
    BY <2>1 DEF Busy, Job
  <2> QED
    BY <1>2, <2>2 DEF StoreChild, TypeOK
<1>3. CASE StoreParent(w)
  <2>1. work[w] \in Busy
    BY <1>3, BusyType DEF StoreParent
  <2>2. doc' \in Document
    BY <1>3, <2>1, UpdatedType DEF StoreParent, Busy
  <2> QED
    BY <1>3, <2>2 DEF StoreParent, TypeOK
<1> QED
  BY <1>1, <1>2, <1>3 DEF Work

\* A retry or a loss keeps the types.
LEMMA FailureType == ASSUME TypeOK, NEW w \in Workers, Retry(w) \/ Lose(w) PROVE TypeOK'
<1>1. CASE Retry(w)
  <2>1. work[w].job \in Job
    BY <1>1, BusyType DEF Retry, Busy
  <2>2. [work[w].job EXCEPT !.tries = @ + 1] \in Job
    BY <2>1 DEF Job
  <2>3. jobs' \subseteq Job
    BY <1>1, <2>2 DEF Retry, TypeOK
  <2> QED
    BY <1>1, <2>3 DEF Retry, TypeOK
<1>2. CASE Lose(w)
  BY <1>2 DEF Lose, TypeOK
<1> QED
  BY <1>1, <1>2

\* Every step keeps the types.
LEMMA StepType == TypeOK /\ [Next]_vars => TypeOK'
<1> SUFFICES ASSUME TypeOK, [Next]_vars PROVE TypeOK'
  OBVIOUS
<1>1. CASE Create
  BY <1>1, CreateType
<1>2. CASE Commit \/ RollBack \/ Destroy
  BY <1>2 DEF Commit, RollBack, Destroy, TypeOK
<1>3. ASSUME NEW k \in Keys, NEW v \in Values, Save(k, v) PROVE TypeOK'
  <2>1. db' \in [Keys -> Values \cup {Nil}] /\ smooth' \in BOOLEAN
    BY <1>3 DEF Save, TypeOK
  <2>2. jobs' \subseteq Job /\ nextJob' \in Nat /\ queued' \in [Keys -> SUBSET Values]
    BY <1>3, QueueType DEF Save
  <2> QED
    BY <1>3, <2>1, <2>2 DEF Save, TypeOK
<1>4. ASSUME NEW k \in Keys, NEW v \in Values, SaveRollsBack(k, v) PROVE TypeOK'
  <2>1. jobs' \subseteq Job /\ nextJob' \in Nat /\ queued' \in [Keys -> SUBSET Values]
    BY <1>4, QueueType DEF SaveRollsBack
  <2> QED
    BY <1>4, <2>1 DEF SaveRollsBack, TypeOK
<1>5. ASSUME NEW n \in Notes, DestroyNote(n) PROVE TypeOK'
  BY <1>5 DEF DestroyNote, TypeOK
<1>6. ASSUME NEW w \in Workers, Work(w) PROVE TypeOK'
  BY <1>6, WorkType
<1>7. ASSUME NEW w \in Workers, Retry(w) \/ Lose(w) PROVE TypeOK'
  BY <1>7, FailureType
<1>8. CASE Refresh
  BY <1>8 DEF Refresh, TypeOK
<1>9. CASE UNCHANGED vars
  BY <1>9 DEF vars, TypeOK
<1>10. CASE PlainNext
  BY <1>1, <1>2, <1>3, <1>5, <1>6, <1>8, <1>10 DEF PlainNext, Saves
<1> QED
  BY <1>2, <1>4, <1>7, <1>9, <1>10 DEF Next

\* With no job outstanding, the index holds what the database does.
LEMMA QuietCovered ==
  ASSUME TypeOK, Covered, jobs = {}, \A w \in Workers : Idle(w)
  PROVE  /\ doc # Nil => \A f \in Fields : doc[f] = db[f]
         /\ \A n \in Notes : db[n] \in {Nil, children[n]}
<1>1. \A k \in Keys : ~Pending(k) /\ ~PendingChild(k)
  BY DEF Pending, PendingChild, Idle, Free
<1> QED
  BY <1>1 DEF Covered, Keys

\* While saves are spaced, the job of a busy worker is the only one.
LEMMA OnlyJob ==
  ASSUME TypeOK, OneJob, NEW w \in Workers, ~Idle(w)
  PROVE  /\ jobs = {} /\ \A v \in Workers \ {w} : work[v] = Free
         /\ \A k \in Keys : Pending(k) <=> k = work[w].job.key
         /\ \A k \in Keys : PendingChild(k) <=> k = work[w].job.key /\ work[w].pc = "child"
<1>1. jobs = {} /\ \A v \in Workers \ {w} : Idle(v)
  BY DEF OneJob
<1>2. \A v \in Workers \ {w} : work[v].pc # "child"
  BY <1>1 DEF Idle, Free
<1> QED
  BY <1>1, <1>2 DEF Pending, PendingChild, Idle

\* Creating the project media.
LEMMA CreateSmooth == ASSUME IInv, Create, smooth PROVE SmoothInv'
<1>0. PICK j : jobs' = {j} /\ j.key = "status" /\ j.value = Initial
  <2>1. jobs' = {[id |-> nextJob, key |-> "status", value |-> Initial, tries |-> 0]}
    BY DEF Create
  <2> WITNESS [id |-> nextJob, key |-> "status", value |-> Initial, tries |-> 0]
  <2> QED
    BY <2>1
<1>1. doc' = [f \in Fields |-> Initial] /\ found' = Nil /\ work' = work
      /\ media' = "saving" /\ children' = children
  BY DEF Create, IInv, SmoothInv, Blank, FreshDocument
<1>2. \A w \in Workers : Idle(w)'
  BY DEF Create, IInv, SmoothInv, Blank, Idle
<1>3. \A f \in Fields : f \in Keys /\ db'[f] = Initial
  BY DEF Create, Keys
<1>4. \A n \in Notes : n \in Keys /\ db'[n] = Nil
  BY DEF Create, Keys
<1>5. OneJob'
  BY <1>0, <1>2 DEF OneJob
<1>7. Current(j)'
  BY <1>1, <1>3, <1>0 DEF Current
<1>8. JobsCurrent'
  BY <1>0, <1>2, <1>7 DEF JobsCurrent
<1>9. doc' # Nil
  BY <1>1
<1>10. Covered'
  BY <1>1, <1>3, <1>4, <1>9 DEF Covered
<1> QED
  BY <1>1, <1>5, <1>8, <1>10 DEF SmoothInv, Blank

\* A save that waited for the index to be quiet.
LEMMA SaveSmooth ==
  ASSUME IInv, NEW k \in Keys, NEW v \in Values, Save(k, v), smooth, Quiet
  PROVE  SmoothInv'
<1>0. PICK j : jobs' = {j} /\ j.key = k /\ j.value = v
  <2>1. jobs' = {[id |-> nextJob, key |-> k, value |-> v, tries |-> 0]}
    BY DEF Save, Queue, Quiet
  <2> WITNESS [id |-> nextJob, key |-> k, value |-> v, tries |-> 0]
  <2> QED
    BY <2>1
<1>1. db' = [db EXCEPT ![k] = v]
      /\ UNCHANGED <<media, doc, children, found, work>> /\ media = "present"
  BY DEF Save, Queue, Quiet
<1>2. \A w \in Workers : Idle(w)'
  BY DEF Save, Quiet, Idle
<1>3. /\ found = doc /\ doc # Nil
      /\ \A f \in Fields : doc[f] = db[f] /\ db[f] # Nil
      /\ \A n \in Notes : db[n] \in {Nil, children[n]}
  BY <1>1, QuietCovered DEF IInv, SmoothInv, Covered, Quiet
<1>4. \A i \in Keys : db'[i] = IF i = k THEN v ELSE db[i]
  BY <1>1 DEF IInv, TypeOK
<1>6. Current(j)'
  BY <1>1, <1>3, <1>4, <1>0 DEF Current, Keys
<1>7. OneJob' /\ JobsCurrent'
  BY <1>0, <1>2, <1>6 DEF OneJob, JobsCurrent
<1>8. Pending(k)' /\ PendingChild(k)'
  BY <1>1, <1>0 DEF Pending, PendingChild
<1>9. \A f \in Fields : db'[f] # Nil /\ (doc'[f] = db'[f] \/ (found' # Nil /\ Pending(f)'))
  BY <1>1, <1>3, <1>4, <1>8 DEF Keys
<1>10. \A n \in Notes : db'[n] \in {Nil, children'[n]} \/ PendingChild(n)'
  BY <1>1, <1>3, <1>4, <1>8 DEF Keys
<1>11. Covered'
  BY <1>1, <1>3, <1>9, <1>10 DEF Covered
<1> QED
  BY <1>1, <1>7, <1>11 DEF SmoothInv, Blank

\* A comment is destroyed: its job, if any, is still current.
LEMMA DestroyNoteSmooth ==
  ASSUME IInv, NEW n \in Notes, DestroyNote(n), smooth
  PROVE  SmoothInv'
<1>1. UNCHANGED <<media, doc, children, found, jobs, work>> /\ media = "present"
  BY DEF DestroyNote
<1>2. \A i \in Keys : db'[i] = IF i = n THEN Nil ELSE db[i]
  BY DEF DestroyNote, IInv, TypeOK
<1>3. \A f \in Fields : f \in Keys /\ f # n /\ db'[f] = db[f]
  BY <1>2 DEF Keys
<1>4. \A i \in Keys : Pending(i)' = Pending(i) /\ PendingChild(i)' = PendingChild(i)
  BY <1>1 DEF Pending, PendingChild, Idle
<1>5. OneJob'
  BY <1>1 DEF IInv, SmoothInv, OneJob, Idle
<1>6. ASSUME NEW j \in Job, Current(j) PROVE Current(j)'
  BY <1>1, <1>2, <1>3, <1>6 DEF Current, Job
<1>7. \A w \in Workers : ~Idle(w) => work[w].job \in Job
  BY BusyType DEF IInv, Busy
<1>8. JobsCurrent'
  BY <1>1, <1>3, <1>6, <1>7 DEF IInv, TypeOK, SmoothInv, JobsCurrent, Idle
<1>9. \A m \in Notes : db'[m] \in {Nil, children'[m]} \/ PendingChild(m)'
  BY <1>1, <1>2, <1>4 DEF IInv, SmoothInv, Covered, Keys
<1>10. Covered'
  BY <1>1, <1>3, <1>4, <1>9 DEF IInv, SmoothInv, Covered
<1> QED
  BY <1>1, <1>5, <1>8, <1>10 DEF SmoothInv, Blank

\* A worker takes the only job.
LEMMA TakeSmooth ==
  ASSUME IInv, smooth, NEW w \in Workers, NEW j \in jobs, Take(w, j)
  PROVE  SmoothInv'
<1>1. /\ jobs = {j} /\ jobs' = {} /\ \A v \in Workers : work[v] = Free
      /\ Current(j) /\ j \in Job
  BY DEF IInv, TypeOK, SmoothInv, OneJob, JobsCurrent, Idle, Take
<1>2. UNCHANGED <<media, db, doc, children, found, smooth>> /\ media # "absent"
  BY DEF Take, IInv, SmoothInv, Blank
<1>3. \A k \in Keys : (Pending(k) <=> k = j.key) /\ (PendingChild(k) <=> k = j.key)
  BY <1>1 DEF Pending, PendingChild, Idle, Free
<1>4. CASE found = Nil
  <2>1. work' = work /\ j.key \notin Notes
    BY <1>1, <1>4 DEF Take, Current
  <2>2. OneJob' /\ JobsCurrent'
    BY <1>1, <2>1 DEF OneJob, JobsCurrent, Idle
  <2>3. \A n \in Notes : db[n] \in {Nil, children[n]}
    BY <1>3, <2>1 DEF IInv, SmoothInv, Covered, Keys
  <2>4. \A f \in Fields : doc # Nil => doc[f] = db[f]
    BY <1>4 DEF IInv, SmoothInv, Covered
  <2>5. Covered'
    BY <1>2, <1>4, <2>3, <2>4 DEF IInv, SmoothInv, Covered
  <2> QED
    BY <1>2, <2>2, <2>5 DEF SmoothInv, Blank
<1>5. CASE found # Nil
  <2>1. \A v \in Workers : work'[v] =
          IF v = w THEN [pc |-> IF j.key \in Notes THEN "child" ELSE "parent",
                         job |-> j, copy |-> found]
          ELSE Free
    BY <1>1, <1>5 DEF Take, IInv, TypeOK
  <2>2. /\ work'[w].job = j /\ work'[w].copy = found /\ ~Idle(w)'
        /\ work'[w].pc = "child" <=> j.key \in Notes
    BY <2>1 DEF Idle, Free
  <2>3. \A v \in Workers : v # w => Idle(v)'
    BY <2>1 DEF Idle
  <2>4. OneJob'
    BY <1>1, <2>3 DEF OneJob
  <2>5. Current(j)'
    BY <1>1, <1>2 DEF Current
  <2>6. \A f \in Fields \ {j.key} : found[f] = db'[f]
    BY <1>1, <1>2, <1>5 DEF Current
  <2>7. JobsCurrent'
    BY <1>1, <1>2, <1>5, <2>2, <2>3, <2>5, <2>6 DEF JobsCurrent
  <2>8. Pending(j.key)' /\ (j.key \in Notes => PendingChild(j.key)')
    BY <2>2 DEF Pending, PendingChild
  <2>9. Covered'
    BY <1>2, <1>3, <2>8 DEF IInv, SmoothInv, Covered, Keys
  <2> QED
    BY <1>2, <2>4, <2>7, <2>9 DEF SmoothInv, Blank
<1> QED
  BY <1>4, <1>5

\* What spaced saves say of a busy worker, whose job is the only one.
LEMMA BusyWorker ==
  ASSUME IInv, smooth, NEW w \in Workers, ~Idle(w)
  PROVE  /\ work[w] \in Busy /\ jobs = {} /\ \A v \in Workers \ {w} : work[v] = Free
         /\ Current(work[w].job) /\ found # Nil /\ doc # Nil /\ media # "absent"
         /\ \A f \in Fields \ {work[w].job.key} : work[w].copy[f] = db[f] /\ doc[f] = db[f]
         /\ \A f \in Fields : db[f] # Nil
         /\ \A n \in Notes : \/ db[n] \in {Nil, children[n]}
                             \/ n = work[w].job.key /\ work[w].pc = "child"
<1>1. TypeOK /\ OneJob /\ JobsCurrent /\ Covered /\ Blank
  BY DEF IInv, SmoothInv
<1>2. work[w] \in Busy /\ jobs = {} /\ \A v \in Workers \ {w} : work[v] = Free
  BY <1>1, BusyType, OnlyJob
<1>3. /\ \A f \in Fields : Pending(f) <=> f = work[w].job.key
      /\ \A n \in Notes : PendingChild(n) <=> n = work[w].job.key /\ work[w].pc = "child"
  BY <1>1, OnlyJob DEF Keys
<1>4. media # "absent"
  BY <1>1 DEF Blank
<1> QED
  BY <1>1, <1>2, <1>3, <1>4 DEF JobsCurrent, Covered

\* The child document of the only job is stored.
LEMMA StoreChildSmooth ==
  ASSUME IInv, smooth, NEW w \in Workers, StoreChild(w)
  PROVE  SmoothInv'
<1> DEFINE job == work[w].job
<1>1. work[w].pc = "child" /\ ~Idle(w)
  BY DEF StoreChild, Idle, Free
<1>2. UNCHANGED <<media, db, doc, found, jobs, smooth>>
  BY DEF StoreChild
<1>3. /\ work'[w].job = job /\ work'[w].copy = work[w].copy /\ work'[w].pc = "parent"
      /\ ~Idle(w)' /\ \A v \in Workers \ {w} : work'[v] = Free
  BY <1>1, BusyWorker DEF StoreChild, IInv, TypeOK, Busy, Idle, Free
<1>4. \A n \in Notes : children'[n] = IF n = job.key THEN job.value ELSE children[n]
  BY DEF StoreChild, IInv, TypeOK
<1>5. \A n \in Notes : db[n] \in {Nil, children'[n]}
  BY <1>1, <1>4, BusyWorker DEF Current
<1>6. OneJob'
  BY <1>1, <1>2, <1>3, BusyWorker DEF OneJob, Idle
<1>7. JobsCurrent'
  <2>1. Current(job)' <=> Current(job)
    BY <1>2, <1>3 DEF Current
  <2> QED
    BY <1>1, <1>2, <1>3, <2>1, BusyWorker DEF JobsCurrent, Current, Idle
<1>8. Covered'
  <2>1. Pending(job.key)'
    BY <1>3 DEF Pending
  <2> QED
    BY <1>1, <1>2, <1>3, <1>5, <2>1, BusyWorker DEF Covered
<1> QED
  BY <1>1, <1>2, <1>6, <1>7, <1>8, BusyWorker DEF SmoothInv, Blank

\* The document of the only job is stored: no job is left, and nothing to bring.
LEMMA StoreParentSmooth ==
  ASSUME IInv, smooth, NEW w \in Workers, StoreParent(w)
  PROVE  SmoothInv'
<1>1. work[w].pc = "parent" /\ ~Idle(w)
  BY DEF StoreParent, Idle, Free
<1>2. UNCHANGED <<media, db, children, found, jobs, smooth>>
  BY DEF StoreParent
<1>3. work[w].copy \in Document /\ work[w].job \in Job
  BY <1>1, BusyWorker DEF Busy
<1>4. doc' = Updated(work[w].copy, work[w].job) /\ doc' \in Document
  BY <1>3, UpdatedType DEF StoreParent
<1>5. \A f \in Fields : doc'[f] = db[f]
  BY <1>1, <1>3, <1>4, BusyWorker DEF Updated, Current, Document, Job
<1>6. \A v \in Workers : Idle(v)'
  BY <1>1, BusyWorker DEF StoreParent, Idle, IInv, TypeOK
<1>7. OneJob' /\ JobsCurrent'
  BY <1>1, <1>2, <1>6, BusyWorker DEF OneJob, JobsCurrent
<1>8. Covered'
  BY <1>1, <1>2, <1>4, <1>5, BusyWorker DEF Covered, Document
<1> QED
  BY <1>1, <1>2, <1>7, <1>8, BusyWorker DEF SmoothInv, Blank

\* The only job goes back to the queue.
LEMMA RetrySmooth ==
  ASSUME IInv, smooth, NEW w \in Workers, Retry(w)
  PROVE  SmoothInv'
<1>1. ~Idle(w) /\ UNCHANGED <<media, db, doc, children, found, smooth>>
  BY DEF Retry
<1>2. PICK j : jobs' = {j} /\ j.key = work[w].job.key /\ j.value = work[w].job.value
  <2>1. work[w].job \in Job /\ jobs' = {[work[w].job EXCEPT !.tries = @ + 1]}
    BY <1>1, BusyWorker DEF Retry, Busy
  <2> WITNESS [work[w].job EXCEPT !.tries = @ + 1]
  <2> QED
    BY <2>1 DEF Job
<1>3. \A v \in Workers : Idle(v)'
  BY <1>1, BusyWorker DEF Retry, Idle, IInv, TypeOK
<1>4. Current(j)'
  BY <1>1, <1>2, BusyWorker DEF Current
<1>5. OneJob' /\ JobsCurrent'
  BY <1>2, <1>3, <1>4 DEF OneJob, JobsCurrent
<1>6. Pending(j.key)' /\ PendingChild(j.key)'
  BY <1>2 DEF Pending, PendingChild
<1>7. Covered'
  BY <1>1, <1>2, <1>6, BusyWorker DEF Covered
<1> QED
  BY <1>1, <1>5, <1>7, BusyWorker DEF SmoothInv, Blank

\* A search sees the document as it is now.
LEMMA RefreshSmooth == ASSUME IInv, smooth, Refresh PROVE SmoothInv'
<1>1. found' = doc /\ UNCHANGED <<media, db, doc, children, jobs, work, smooth>>
  BY DEF Refresh
<1>2. OneJob /\ JobsCurrent /\ Covered /\ Blank /\ TypeOK
  BY DEF IInv, SmoothInv
<1>3. /\ found # Nil => doc # Nil
      /\ \A k \in Keys : Pending(k)' = Pending(k) /\ PendingChild(k)' = PendingChild(k)
  BY <1>1, <1>2 DEF Covered, Pending, PendingChild, Idle
<1>4. ASSUME NEW j \in jobs PROVE Current(j)'
  <2>1. Current(j) /\ jobs = {j} /\ \A v \in Workers : Idle(v)
    BY <1>2 DEF JobsCurrent, OneJob
  <2>2. \A f \in Fields : Pending(f) => f = j.key
    BY <2>1 DEF Pending
  <2> QED
    BY <1>1, <1>2, <1>3, <2>1, <2>2 DEF Current, Covered
<1>5. ASSUME NEW w \in Workers, ~Idle(w) PROVE Current(work[w].job)' /\ found' # Nil
  <2>1. /\ Current(work[w].job) /\ found # Nil /\ doc # Nil
        /\ \A f \in Fields \ {work[w].job.key} : doc[f] = db[f]
    BY <1>5, BusyWorker
  <2> QED
    BY <1>1, <2>1 DEF Current
<1>6. OneJob' /\ JobsCurrent'
  BY <1>1, <1>2, <1>4, <1>5 DEF OneJob, JobsCurrent, Idle
<1>7. Covered'
  BY <1>1, <1>2, <1>3 DEF Covered, Keys
<1> QED
  BY <1>1, <1>2, <1>6, <1>7 DEF SmoothInv, Blank, Idle

\* A step that leaves alone what the invariant speaks of, or ends the spaced run.
LEMMA OtherSmooth ==
  ASSUME IInv,
         \/ smooth' = FALSE
         \/ /\ UNCHANGED <<db, doc, children, found, jobs, work, smooth>>
            /\ media' # "absent" /\ (media # "absent" \/ media' = media)
         \/ UNCHANGED <<media, db, doc, children, found, jobs, work, smooth>>
  PROVE  SmoothInv'
<1>1. CASE smooth' = FALSE
  BY <1>1 DEF SmoothInv
<1>2. CASE /\ UNCHANGED <<db, doc, children, found, jobs, work, smooth>>
           /\ media' = media \/ (media # "absent" /\ media' # "absent")
  BY <1>2 DEF IInv, SmoothInv, OneJob, JobsCurrent, Covered, Blank, Current, Pending,
              PendingChild, Idle
<1> QED
  BY <1>1, <1>2

\* Every step preserves the invariant.
LEMMA StepSmooth == IInv /\ [Next]_vars => SmoothInv'
<1> SUFFICES ASSUME IInv, [Next]_vars PROVE SmoothInv'
  OBVIOUS
<1>1. CASE Create
  BY <1>1, CreateSmooth DEF Create, SmoothInv
<1>2. CASE Commit \/ RollBack \/ Destroy
  BY <1>2, OtherSmooth DEF Commit, RollBack, Destroy
<1>3. ASSUME NEW k \in Keys, NEW v \in Values, Save(k, v) PROVE SmoothInv'
  <2>1. CASE smooth /\ Quiet
    BY <1>3, <2>1, SaveSmooth
  <2>2. CASE ~(smooth /\ Quiet)
    BY <1>3, <2>2 DEF Save, SmoothInv
  <2> QED
    BY <2>1, <2>2
<1>4. ASSUME NEW k \in Keys, NEW v \in Values, SaveRollsBack(k, v) PROVE SmoothInv'
  BY <1>4 DEF SaveRollsBack, SmoothInv
<1>5. ASSUME NEW n \in Notes, DestroyNote(n) PROVE SmoothInv'
  BY <1>5, DestroyNoteSmooth DEF DestroyNote, SmoothInv
<1>6. ASSUME NEW w \in Workers, Work(w) PROVE SmoothInv'
  <2>1. ASSUME NEW j \in jobs, Take(w, j) PROVE SmoothInv'
    BY <2>1, TakeSmooth DEF Take, SmoothInv
  <2>2. CASE StoreChild(w)
    BY <2>2, StoreChildSmooth DEF StoreChild, SmoothInv
  <2>3. CASE StoreParent(w)
    BY <2>3, StoreParentSmooth DEF StoreParent, SmoothInv
  <2> QED
    BY <1>6, <2>1, <2>2, <2>3 DEF Work
<1>7. ASSUME NEW w \in Workers, Retry(w) \/ Lose(w) PROVE SmoothInv'
  BY <1>7, RetrySmooth DEF Retry, Lose, SmoothInv
<1>8. CASE Refresh
  BY <1>8, RefreshSmooth DEF Refresh, SmoothInv
<1>9. CASE UNCHANGED vars
  BY <1>9, OtherSmooth DEF vars
<1>10. CASE PlainNext
  BY <1>1, <1>2, <1>3, <1>5, <1>6, <1>8, <1>10 DEF PlainNext, Saves
<1> QED
  BY <1>2, <1>4, <1>7, <1>9, <1>10 DEF Next

\* The inductive invariant holds of every behaviour, failures included.
THEOREM Invariance == Spec => []IInv
<1>1. Init => IInv
  <2>1. Init => SmoothInv
    BY DEF Init, SmoothInv, OneJob, JobsCurrent, Covered, Blank, Idle, Keys
  <2> QED
    BY <2>1, InitType DEF IInv
<1>2. IInv /\ [Next]_vars => IInv'
  BY StepType, StepSmooth DEF IInv
<1> QED
  BY <1>1, <1>2, PTL DEF Spec

\* The rows, the documents, the queue and the workers are well typed.
THEOREM TypeCorrect == Spec => []TypeOK
<1>1. IInv => TypeOK
  BY DEF IInv
<1> QED
  BY <1>1, Invariance, PTL

\* If every save waited for the one before to reach the search, the index agrees
\* with the database whenever it is quiet, whatever the workers retried.
THEOREM SpacedSaves == Spec => []SmoothIndexMatches
<1>1. IInv => SmoothIndexMatches
  <2> SUFFICES ASSUME IInv, smooth, Quiet, media = "present" PROVE IndexMatches
    BY DEF SmoothIndexMatches
  <2>1. TypeOK /\ Covered /\ doc # Nil
    BY DEF IInv, SmoothInv, Covered
  <2> QED
    BY <2>1, QuietCovered DEF Quiet, IndexMatches
<1> QED
  BY <1>1, Invariance, PTL

\* While saves are spaced, one job at most is under way, and nothing is forgotten: what
\* the documents lack of the rows, that job is still to bring, however often it is
\* retried (annotation_base.rb:200-228, elastic_search_worker.rb:5-13).
THEOREM NothingForgotten == Spec => [](smooth => OneJob /\ Covered)
<1>1. IInv => (smooth => OneJob /\ Covered)
  BY DEF IInv, SmoothInv
<1> QED
  BY <1>1, Invariance, PTL

-----------------------------------------------------------------------------
\* Every document that is stored, found or carried by a worker, and every job, holds
\* values that jobs were queued with; and before the project media there are none.
ValuesInv ==
  /\ doc # Nil => \A f \in Fields : doc[f] \in queued[f]
  /\ found # Nil => \A f \in Fields : found[f] \in queued[f]
  /\ \A n \in Notes : children[n] # Nil => children[n] \in queued[n]
  /\ \A j \in jobs : j.value \in queued[j.key]
  /\ \A w \in Workers : ~Idle(w) => /\ work[w].job.value \in queued[work[w].job.key]
                                    /\ \A f \in Fields : work[w].copy[f] \in queued[f]
  /\ media = "absent" => /\ doc = Nil /\ found = Nil /\ jobs = {}
                         /\ \A w \in Workers : Idle(w)
                         /\ \A n \in Notes : children[n] = Nil

\* The values queued only grow, so that queueing a job changes nothing else.
LEMMA QueueValues ==
  ASSUME TypeOK, ValuesInv, NEW k \in Keys, NEW v \in Values, Queue(k, v), media # "absent",
         UNCHANGED <<media, doc, children, found, work>>
  PROVE  ValuesInv'
<1>1. \A h \in Keys : queued[h] \subseteq queued'[h]
  BY DEF Queue, TypeOK
<1>2. v \in queued'[k]
  BY DEF Queue, TypeOK
<1>3. \A j \in jobs : j.key \in Keys
  BY DEF TypeOK, Job
<1>4. \A j \in jobs' : j.value \in queued'[j.key]
  BY <1>1, <1>2, <1>3 DEF Queue, ValuesInv
<1>5. ASSUME NEW w \in Workers, ~Idle(w)
      PROVE  /\ work[w].job.value \in queued'[work[w].job.key]
             /\ \A f \in Fields : work[w].copy[f] \in queued'[f]
  <2>1. work[w].job.key \in Keys
    BY <1>5, BusyType DEF Busy, Job
  <2> QED
    BY <1>1, <1>5, <2>1 DEF ValuesInv, Keys
<1>6. \A h \in Fields \cup Notes : queued[h] \subseteq queued'[h]
  BY <1>1 DEF Keys
<1> QED
  BY <1>4, <1>5, <1>6 DEF ValuesInv, Idle

LEMMA TakeValues ==
  ASSUME TypeOK, ValuesInv, NEW w \in Workers, NEW j \in jobs, Take(w, j)
  PROVE  ValuesInv'
<1>1. j.value \in queued[j.key] /\ media # "absent" /\ jobs' \subseteq jobs
  BY DEF ValuesInv, Take
<1>2. ASSUME NEW v \in Workers, work'[v] # Free
      PROVE  /\ work'[v].job.value \in queued[work'[v].job.key]
             /\ \A f \in Fields : work'[v].copy[f] \in queued[f]
  <2>1. CASE work'[v] = work[v]
    BY <1>2, <2>1 DEF ValuesInv, Idle
  <2>2. CASE work'[v] # work[v]
    <3>1. found # Nil /\ work'[v].job = j /\ work'[v].copy = found
      BY <2>2 DEF Take, TypeOK
    <3> QED
      BY <1>1, <3>1 DEF ValuesInv
  <2> QED
    BY <2>1, <2>2
<1> QED
  BY <1>1, <1>2 DEF ValuesInv, Take, Idle

LEMMA StoreValues ==
  ASSUME TypeOK, ValuesInv, NEW w \in Workers, StoreChild(w) \/ StoreParent(w)
  PROVE  ValuesInv'
<1>1. ~Idle(w) /\ work[w] \in Busy /\ media # "absent"
  BY BusyType DEF StoreChild, StoreParent, ValuesInv
<1>2. /\ work[w].job.value \in queued[work[w].job.key]
      /\ \A f \in Fields : work[w].copy[f] \in queued[f]
  BY <1>1 DEF ValuesInv
<1>3. ASSUME NEW v \in Workers, work'[v] # Free
      PROVE  work[v] # Free /\ work'[v].job = work[v].job /\ work'[v].copy = work[v].copy
  <2>1. CASE v = w /\ StoreChild(w)
    <3>1. work'[v] = [work[w] EXCEPT !.pc = "parent"]
      BY <2>1 DEF StoreChild, TypeOK
    <3> QED
      BY <1>1, <2>1, <3>1 DEF Busy, Idle
  <2>2. CASE v = w /\ StoreParent(w)
    BY <1>3, <2>2 DEF StoreParent, TypeOK
  <2>3. CASE v # w
    BY <1>3, <2>3 DEF StoreChild, StoreParent, TypeOK
  <2> QED
    BY <2>1, <2>2, <2>3
<1>4. \A f \in Fields : doc' # Nil => doc'[f] \in queued[f]
  <2>1. CASE StoreChild(w)
    BY <2>1 DEF StoreChild, ValuesInv
  <2>2. CASE StoreParent(w)
    <3>1. work[w].copy \in Document /\ doc' = Updated(work[w].copy, work[w].job)
      BY <1>1, <2>2 DEF StoreParent, Busy
    <3> QED
      BY <1>2, <3>1 DEF Updated, Document
  <2> QED
    BY <2>1, <2>2
<1>5. \A n \in Notes : children'[n] # Nil => children'[n] \in queued[n]
  BY <1>2 DEF StoreChild, StoreParent, ValuesInv, TypeOK
<1>6. jobs' = jobs /\ media' = media /\ found' = found /\ queued' = queued
  BY DEF StoreChild, StoreParent
<1> QED
  BY <1>1, <1>3, <1>4, <1>5, <1>6 DEF ValuesInv, Idle

LEMMA FailureValues ==
  ASSUME TypeOK, ValuesInv, NEW w \in Workers, Retry(w) \/ Lose(w)
  PROVE  ValuesInv'
<1>1. ~Idle(w) /\ work[w].job \in Job /\ media # "absent"
  BY BusyType DEF Retry, Lose, Busy, ValuesInv
<1>2. work[w].job.value \in queued[work[w].job.key]
  BY <1>1 DEF ValuesInv
<1>3. \A v \in Workers : work'[v] = Free \/ work'[v] = work[v]
  BY DEF Retry, Lose, TypeOK
<1>4. \A j \in jobs' : j.value \in queued[j.key]
  BY <1>1, <1>2 DEF Retry, Lose, ValuesInv, Job
<1> QED
  BY <1>1, <1>3, <1>4 DEF Retry, Lose, ValuesInv, Idle

LEMMA CreateValues == ASSUME TypeOK, ValuesInv, Create PROVE ValuesInv'
<1>1. "status" \in Fields
  OBVIOUS
<1>2. \A w \in Workers : work[w] = Free
  BY DEF Create, ValuesInv, Idle
<1> QED
  BY <1>1, <1>2 DEF Create, ValuesInv, FreshDocument, Idle, Keys

LEMMA StepValues == TypeOK /\ ValuesInv /\ [Next]_vars => ValuesInv'
<1> SUFFICES ASSUME TypeOK, ValuesInv, [Next]_vars PROVE ValuesInv'
  OBVIOUS
<1>1. CASE Create
  BY <1>1, CreateValues
<1>2. CASE Commit \/ RollBack \/ Destroy
  BY <1>2 DEF Commit, RollBack, Destroy, ValuesInv, Idle
<1>3. ASSUME NEW k \in Keys, NEW v \in Values, Save(k, v) \/ SaveRollsBack(k, v)
      PROVE  ValuesInv'
  BY <1>3, QueueValues DEF Save, SaveRollsBack
<1>4. ASSUME NEW n \in Notes, DestroyNote(n) PROVE ValuesInv'
  BY <1>4 DEF DestroyNote, ValuesInv, Idle
<1>5. ASSUME NEW w \in Workers, Work(w) PROVE ValuesInv'
  BY <1>5, TakeValues, StoreValues DEF Work
<1>6. ASSUME NEW w \in Workers, Retry(w) \/ Lose(w) PROVE ValuesInv'
  BY <1>6, FailureValues
<1>7. CASE Refresh
  BY <1>7 DEF Refresh, ValuesInv, Idle
<1>8. CASE UNCHANGED vars
  BY <1>8 DEF vars, ValuesInv, Idle
<1>9. CASE PlainNext
  BY <1>1, <1>2, <1>3, <1>4, <1>5, <1>7, <1>9 DEF PlainNext, Saves
<1> QED
  BY <1>2, <1>3, <1>6, <1>8, <1>9 DEF Next

\* Whatever the order of the jobs, their retries and the age of the documents they
\* start from, the index shows no value that no job was queued with for that field or comment.
THEOREM OnlyQueuedValues == Spec => []IndexHoldsQueuedValues
<1>1. Init => ValuesInv
  BY DEF Init, ValuesInv, Idle
<1>2. Spec => []ValuesInv
  BY <1>1, StepValues, TypeCorrect, PTL DEF Spec
<1>3. ValuesInv => IndexHoldsQueuedValues
  BY DEF ValuesInv, IndexHoldsQueuedValues
<1> QED
  BY <1>2, <1>3, PTL
=============================================================================
