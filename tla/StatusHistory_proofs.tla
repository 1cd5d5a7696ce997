------------------------ MODULE StatusHistory_proofs ------------------------
(***************************************************************************)
(* Theorems about StatusHistory, for any statuses, users, roles, number of *)
(* threads and versions.                                                   *)
(***************************************************************************)
EXTENDS StatusHistory, TLAPS

\* Whatever the row, a version or a request in flight holds as a status was the
\* status of the row at some time.
HeldInv ==
  /\ row # Nil => row.status \in held
  /\ \A v \in versions : v.object # Nil => v.object.status \in held
  /\ \A t \in Threads : /\ req[t].loaded # Nil => req[t].loaded.status \in held
                        /\ req[t].pc \in {"destroy", "revert"} /\ req[t].target # Nil
                             => req[t].target.status \in held

IInv == TypeOK /\ HeldInv

USE NilAssumption, RolesAssumption, StatusesAssumption

\* What a save writes: a row with the status asked for or the one stored, and
\* nothing when there is no row.
LEMMA WriteRowType ==
  ASSUME TypeOK, NEW t \in Threads, req[t].loaded # Nil, req[t].target # Nil, WriteRow(t)
  PROVE  /\ row' \in Row \cup {Nil}
         /\ held' \subseteq Statuses
         /\ held \subseteq held'
         /\ row' # Nil => row'.status \in held'
         /\ row = Nil => row' = Nil
         /\ row' # Nil => row'.status \in {req[t].target.status, row.status}
  BY DEF TypeOK, Request, Row, WriteRow, Written, Column

\* The invariant holds to begin with.
LEMMA InitIInv == Init => IInv
<1> SUFFICES ASSUME Init PROVE IInv
  OBVIOUS
<1>1. Idle \in Request
  BY DEF Idle, Request
<1>2. TypeOK
  <2>1. req \in [Threads -> Request]
    BY <1>1 DEF Init
  <2>2. \A t \in Threads : req[t].pc = "idle"
    BY DEF Init, Idle
  <2>3. slack \in BOOLEAN
    BY DEF Init
  <2>4. /\ row \in Row \cup {Nil}
        /\ versions \subseteq Version
        /\ nextId \in Nat \ {0}
        /\ listed \subseteq Statuses
        /\ held \subseteq Statuses
    BY DEF Init
  <2>5. seen \in [Threads -> SUBSET SUBSET Statuses] /\ steady \in BOOLEAN
    BY DEF Init
  <2>6. \A t \in Threads :
           /\ req[t].pc # "idle" => req[t].user \in Users
           /\ req[t].pc \in {"update", "revert"} =>
                req[t].loaded # Nil /\ req[t].target # Nil
           /\ req[t].pc = "drop" => req[t].newest # Nil
    BY <2>2
  <2> QED
    BY <2>1, <2>3, <2>4, <2>5, <2>6 DEF TypeOK
<1>3. HeldInv
  BY DEF Init, HeldInv, Idle
<1> QED
  BY <1>2, <1>3 DEF IInv

\* What a thread's request has to satisfy for HeldInv and the last part of TypeOK.
GoodRequest(r, h) ==
  /\ r.pc # "idle" => r.user \in Users
  /\ r.pc \in {"update", "revert"} => r.loaded # Nil /\ r.target # Nil
  /\ r.pc = "drop" => r.newest # Nil
  /\ r.loaded # Nil => r.loaded.status \in h
  /\ r.pc \in {"destroy", "revert"} /\ r.target # Nil => r.target.status \in h

\* The part of the invariant that does not speak of the requests.
DataInv == /\ row \in Row \cup {Nil}
           /\ versions \subseteq Version
           /\ nextId \in Nat \ {0}
           /\ listed \subseteq Statuses
           /\ slack \in BOOLEAN
           /\ held \subseteq Statuses
           /\ row # Nil => row.status \in held
           /\ \A v \in versions : v.object # Nil => v.object.status \in held

\* The types of the lists read and of the history of the settings.
ReadsType == seen \in [Threads -> SUBSET SUBSET Statuses] /\ steady \in BOOLEAN

\* The invariant by parts: the data, the lists read, and the request of each thread.
LEMMA IInvParts ==
  IInv <=> /\ DataInv /\ ReadsType /\ req \in [Threads -> Request]
           /\ \A t \in Threads : GoodRequest(req[t], held)
  BY DEF IInv, TypeOK, HeldInv, DataInv, ReadsType, GoodRequest

\* A thread that begins to read, ends, or does neither leaves the lists well typed.
LEMMA ReadsTyped ==
  ASSUME IInv, NEW t \in Threads,
         \/ UNCHANGED <<seen, steady>>
         \/ StartReading(t)
         \/ seen' = [seen EXCEPT ![t] = {}] /\ UNCHANGED steady
  PROVE  ReadsType'
<1>1. /\ seen \in [Threads -> SUBSET SUBSET Statuses] /\ steady \in BOOLEAN
      /\ listed \subseteq Statuses
  BY DEF IInv, TypeOK
<1>2. CASE StartReading(t)
  <2>1. seen' \in [Threads -> SUBSET SUBSET Statuses]
    BY <1>1, <1>2 DEF StartReading
  <2>2. steady' \in BOOLEAN
    BY <1>1, <1>2, ZenonT(30) DEF StartReading
  <2> QED
    BY <2>1, <2>2 DEF ReadsType
<1>3. CASE UNCHANGED <<seen, steady>>
  BY <1>1, <1>3 DEF ReadsType
<1>4. CASE seen' = [seen EXCEPT ![t] = {}] /\ UNCHANGED steady
  BY <1>1, <1>4 DEF ReadsType
<1> QED
  BY <1>2, <1>3, <1>4

\* One thread turns to a good request, and the statuses held only grow.
LEMMA ServeIInv ==
  ASSUME IInv, NEW t \in Threads, NEW r \in Request,
         req' = [req EXCEPT ![t] = r],
         DataInv', ReadsType', held \subseteq held', GoodRequest(r, held')
  PROVE  IInv'
<1>1. req' \in [Threads -> Request]
  BY IInvParts
<1>2. ASSUME NEW u \in Threads PROVE GoodRequest(req'[u], held')
  <2>1. CASE u = t
    BY <2>1, IInvParts
  <2>2. CASE u # t
    BY <2>2, IInvParts DEF GoodRequest
  <2> QED
    BY <2>1, <2>2
<1>3. IInv' <=> /\ DataInv' /\ ReadsType' /\ req' \in [Threads -> Request]
                /\ \A u \in Threads : GoodRequest(req'[u], held')
  BY DEF IInv, TypeOK, HeldInv, DataInv, ReadsType, GoodRequest
<1> QED
  BY <1>1, <1>2, <1>3

\* A thread that ends its request keeps the invariant.
LEMMA FinishIInv ==
  ASSUME IInv, NEW t \in Threads, Finish(t), UNCHANGED steady, DataInv', held \subseteq held'
  PROVE  IInv'
<1>1. Idle \in Request /\ GoodRequest(Idle, held')
  BY DEF Idle, Request, GoodRequest
<1>2. ReadsType'
  BY ReadsTyped DEF Finish
<1> QED
  BY <1>1, <1>2, ServeIInv DEF Finish

\* The save of an update keeps the invariant: the version it adds holds what
\* the request loaded.
LEMMA SaveUpdateIInv == ASSUME IInv, NEW t \in Threads, SaveUpdate(t) PROVE IInv'
<1>1. /\ req[t].loaded \in Row /\ req[t].loaded.status \in held
      /\ req[t].target \in Row
  BY DEF IInv, TypeOK, HeldInv, SaveUpdate, Request
<1>2. /\ row' \in Row \cup {Nil} /\ held' \subseteq Statuses /\ held \subseteq held'
      /\ row' # Nil => row'.status \in held'
  BY <1>1, WriteRowType DEF SaveUpdate, IInv
<1>3. nextId \in Nat \ {0} /\ versions \subseteq Version
  BY DEF IInv, TypeOK
<1>4. nextId' \in Nat \ {0}
  BY <1>3 DEF SaveUpdate
<1>5. versions' \subseteq versions \cup {[id |-> nextId, object |-> req[t].loaded]}
  BY DEF SaveUpdate
<1>6. [id |-> nextId, object |-> req[t].loaded] \in Version
  BY <1>1, <1>3 DEF Version
<1>7. \A v \in versions' : v.object # Nil => v.object.status \in held'
  BY <1>1, <1>2, <1>5 DEF IInv, HeldInv
<1>8. listed' \subseteq Statuses /\ slack' \in BOOLEAN
  BY DEF SaveUpdate, IInv, TypeOK
<1>9. DataInv'
  BY <1>2, <1>3, <1>4, <1>5, <1>6, <1>7, <1>8 DEF DataInv
<1> QED
  BY <1>2, <1>9, FinishIInv DEF SaveUpdate

\* A step that leaves the data alone keeps its part of the invariant.
LEMMA DataUnchanged ==
  ASSUME IInv, UNCHANGED <<row, nextId, listed, slack, held>>, versions' \subseteq versions
  PROVE  DataInv' /\ held \subseteq held'
  BY DEF IInv, TypeOK, HeldInv, DataInv

\* Loading the row for an update keeps the invariant.
LEMMA BeginUpdateIInv ==
  ASSUME IInv, NEW t \in Threads, NEW u \in Users, NEW s \in Statuses, BeginUpdate(t, u, s)
  PROVE  IInv'
<1> DEFINE r == [Idle EXCEPT !.pc = "update", !.user = u, !.loaded = row,
                             !.target = [status |-> s, annotator |-> u]]
<1>1. [status |-> s, annotator |-> u] \in Row
  BY DEF Row
<1>2. r \in Request /\ GoodRequest(r, held')
  BY <1>1 DEF BeginUpdate, IInv, TypeOK, HeldInv, Request, Idle, GoodRequest
<1>3. req' = [req EXCEPT ![t] = r]
  BY DEF BeginUpdate
<1>4. DataInv' /\ held \subseteq held'
  BY DataUnchanged DEF BeginUpdate
<1>5. ReadsType'
  BY ReadsTyped DEF BeginUpdate
<1> QED
  BY <1>2, <1>3, <1>4, <1>5, ServeIInv

\* Reading the newest version for a destroy keeps the invariant.
LEMMA BeginDestroyIInv ==
  ASSUME IInv, NEW t \in Threads, NEW u \in Users, BeginDestroy(t, u)
  PROVE  IInv'
<1>1. DataInv' /\ held \subseteq held'
  BY DataUnchanged DEF BeginDestroy
<1>2. ReadsType'
  BY ReadsTyped DEF BeginDestroy
<1>3. CASE versions = {} /\ req' = [req EXCEPT ![t] = [Idle EXCEPT !.pc = "destroy", !.user = u]]
  <2> DEFINE r == [Idle EXCEPT !.pc = "destroy", !.user = u]
  <2>1. r \in Request /\ GoodRequest(r, held')
    BY DEF Request, Idle, GoodRequest
  <2> QED
    BY <1>1, <1>3, <1>2, <2>1, ServeIInv
<1>4. CASE \E v \in versions :
             req' = [req EXCEPT ![t] = [Idle EXCEPT !.pc = "destroy", !.user = u,
                                                    !.target = v.object, !.restored = v]]
  <2>1. PICK v \in versions :
             req' = [req EXCEPT ![t] = [Idle EXCEPT !.pc = "destroy", !.user = u,
                                                    !.target = v.object, !.restored = v]]
    BY <1>4
  <2> DEFINE r == [Idle EXCEPT !.pc = "destroy", !.user = u, !.target = v.object,
                               !.restored = v]
  <2>2. v \in Version /\ v.object \in Row \cup {Nil}
    BY DEF IInv, TypeOK, Version
  <2>3. r \in Request /\ GoodRequest(r, held')
    BY <2>2, <1>1 DEF Request, Idle, GoodRequest, IInv, HeldInv
  <2> QED
    BY <1>1, <1>2, <2>1, <2>3, ServeIInv
<1> QED
  BY <1>3, <1>4 DEF BeginDestroy

\* Reifying a version keeps the invariant.
LEMMA ReifyIInv == ASSUME IInv, NEW t \in Threads, Reify(t) PROVE IInv'
<1> DEFINE r == [req[t] EXCEPT !.pc = "revert", !.loaded = row,
                               !.target.annotator = req[t].user]
<1>1. req[t] \in Request /\ req[t].user \in Users /\ req[t].target \in Row
  BY DEF Reify, IInv, TypeOK, Request
<1>2. r \in Request
  BY <1>1 DEF Request, Row, IInv, TypeOK
<1>3. GoodRequest(r, held')
  BY <1>1, <1>2 DEF Request, Row, Reify, GoodRequest, IInv, TypeOK, HeldInv
<1>4. req' = [req EXCEPT ![t] = r]
  BY DEF Reify
<1>5. DataInv' /\ held \subseteq held'
  BY DataUnchanged DEF Reify
<1>6. ReadsType'
  BY ReadsTyped DEF Reify
<1> QED
  BY <1>2, <1>3, <1>4, <1>5, <1>6, ServeIInv

\* A step of a save that comes before its commit keeps the invariant.
LEMMA SavingIInv ==
  ASSUME IInv, NEW t \in Threads, StorePrevious(t) \/ Validate(t) \/ Announce(t)
  PROVE  IInv'
<1>1. PICK r \in Request :
         /\ req' = [req EXCEPT ![t] = r]
         /\ r.pc = req[t].pc /\ r.user = req[t].user /\ r.loaded = req[t].loaded
         /\ r.target = req[t].target /\ r.newest = req[t].newest
  <2>1. req[t] \in Request /\ LastStatus \in Statuses
    BY DEF IInv, TypeOK, LastStatus, Row
  <2>2. CASE StorePrevious(t)
    <3> DEFINE r == [req[t] EXCEPT !.step = "previous", !.previous = LastStatus]
    <3>1. r \in Request
      BY <2>1 DEF Request
    <3>2. req' = [req EXCEPT ![t] = r]
      BY <2>2 DEF StorePrevious
    <3>3. /\ r.pc = req[t].pc /\ r.user = req[t].user /\ r.loaded = req[t].loaded
          /\ r.target = req[t].target /\ r.newest = req[t].newest
      BY <2>1 DEF Request
    <3> QED
      BY <3>1, <3>2, <3>3
  <2>3. ASSUME NEW x \in {"valid", "written"}, req' = [req EXCEPT ![t].step = x]
        PROVE  \E r \in Request :
                  /\ req' = [req EXCEPT ![t] = r]
                  /\ r.pc = req[t].pc /\ r.user = req[t].user /\ r.loaded = req[t].loaded
                  /\ r.target = req[t].target /\ r.newest = req[t].newest
    <3> DEFINE r == [req[t] EXCEPT !.step = x]
    <3>1. r \in Request
      BY <2>1 DEF Request
    <3>2. req' = [req EXCEPT ![t] = r]
      BY <2>3
    <3>3. /\ r.pc = req[t].pc /\ r.user = req[t].user /\ r.loaded = req[t].loaded
          /\ r.target = req[t].target /\ r.newest = req[t].newest
      BY <2>1 DEF Request
    <3> QED
      BY <3>1, <3>2, <3>3
  <2> QED
    BY <2>2, <2>3 DEF Validate, Announce
<1>2. DataInv' /\ held \subseteq held'
  BY DataUnchanged DEF StorePrevious, Validate, Announce
<1>3. ReadsType'
  BY ReadsTyped DEF StorePrevious, Validate, Announce
<1>4. GoodRequest(r, held')
  BY <1>1, <1>2, IInvParts DEF GoodRequest
<1> QED
  BY <1>1, <1>2, <1>3, <1>4, ServeIInv

\* Saving a revert keeps the invariant: what it writes comes from a version.
LEMMA SaveRevertIInv == ASSUME IInv, NEW t \in Threads, SaveRevert(t) PROVE IInv'
<1> DEFINE r == [Idle EXCEPT !.pc = "reverted", !.user = req[t].user,
                             !.restored = req[t].restored]
<1>1. req[t] \in Request /\ req[t].user \in Users
      /\ req[t].loaded # Nil /\ req[t].target # Nil
  BY DEF SaveRevert, IInv, TypeOK
<1>2. r \in Request /\ GoodRequest(r, held')
  BY <1>1 DEF Request, Idle, GoodRequest
<1>3. /\ row' \in Row \cup {Nil} /\ held' \subseteq Statuses /\ held \subseteq held'
      /\ row' # Nil => row'.status \in held'
  BY <1>1, WriteRowType DEF SaveRevert, IInv
<1>4. UNCHANGED <<versions, nextId, listed, slack>>
  BY DEF SaveRevert
<1>5. DataInv'
  BY <1>3, <1>4 DEF IInv, TypeOK, HeldInv, DataInv
<1>6. req' = [req EXCEPT ![t] = r]
  BY DEF SaveRevert
<1>7. ReadsType'
  BY ReadsTyped DEF SaveRevert
<1> QED
  BY <1>2, <1>3, <1>5, <1>6, <1>7, ServeIInv

\* Picking the version to delete keeps the invariant.
LEMMA PickVersionIInv == ASSUME IInv, NEW t \in Threads, PickVersion(t) PROVE IInv'
<1>1. PICK v \in versions : req' = [req EXCEPT ![t].pc = "drop", ![t].newest = v]
  BY DEF PickVersion
<1> DEFINE r == [req[t] EXCEPT !.pc = "drop", !.newest = v]
<1>2. req[t] \in Request /\ req[t].user \in Users /\ v \in Version
  BY DEF PickVersion, IInv, TypeOK
<1>3. r \in Request
  BY <1>2 DEF Request
<1>4. GoodRequest(r, held')
  BY <1>2, NilAssumption DEF GoodRequest, Request, PickVersion, IInv, HeldInv
<1>5. req' = [req EXCEPT ![t] = r]
  BY <1>1
<1>6. DataInv' /\ held \subseteq held'
  BY DataUnchanged DEF PickVersion
<1>7. ReadsType'
  BY ReadsTyped DEF PickVersion
<1> QED
  BY <1>3, <1>4, <1>5, <1>6, <1>7, ServeIInv

\* Withdrawing the status keeps the invariant.
LEMMA WithdrawIInv == ASSUME IInv, NEW t \in Threads, Withdraw(t) PROVE IInv'
<1>1. DataInv' /\ held \subseteq held'
  BY DEF Withdraw, IInv, TypeOK, HeldInv, DataInv
<1> QED
  BY <1>1, FinishIInv DEF Withdraw

\* Creating the status keeps the invariant.
LEMMA CreateIInv == ASSUME IInv, NEW u \in Users, Create(u) PROVE IInv'
<1>1. [status |-> DefaultStatus, annotator |-> u] \in Row
  BY DEF Row
<1>2. [id |-> 1, object |-> Nil] \in Version
  BY DEF Version
<1>3. DataInv' /\ held \subseteq held'
  BY <1>1, <1>2 DEF Create, IInv, TypeOK, HeldInv, DataInv
<1>4. TypeOK'
  BY <1>3 DEF DataInv, Create, IInv, TypeOK
<1>5. HeldInv'
  BY <1>3 DEF DataInv, Create, IInv, HeldInv
<1> QED
  BY <1>4, <1>5 DEF IInv

\* The invariant is inductive: every step keeps it.
LEMMA StepIInv == IInv /\ [Next]_vars => IInv'
<1> SUFFICES ASSUME IInv, [Next]_vars PROVE IInv'
  OBVIOUS
<1>1. ASSUME NEW u \in Users, Create(u) PROVE IInv'
  BY <1>1, CreateIInv
<1>2. ASSUME NEW t \in Threads, Begin(t) PROVE IInv'
  BY <1>2, BeginUpdateIInv, BeginDestroyIInv DEF Begin
<1>3. ASSUME NEW t \in Threads, SaveUpdate(t) PROVE IInv'
  BY <1>3, SaveUpdateIInv
<1>4. ASSUME NEW t \in Threads, Reify(t) PROVE IInv'
  BY <1>4, ReifyIInv
<1>5. ASSUME NEW t \in Threads, SaveRevert(t) PROVE IInv'
  BY <1>5, SaveRevertIInv
<1>6. ASSUME NEW t \in Threads, PickVersion(t) PROVE IInv'
  BY <1>6, PickVersionIInv
<1>7. ASSUME NEW t \in Threads, DropVersion(t) PROVE IInv'
  <2>1. DataInv' /\ held \subseteq held'
    BY <1>7, DataUnchanged DEF DropVersion
  <2> QED
    BY <1>7, <2>1, FinishIInv DEF DropVersion
<1>8. ASSUME NEW t \in Threads, Withdraw(t) PROVE IInv'
  BY <1>8, WithdrawIInv
<1>9. ASSUME NEW t \in Threads, Fail(t) \/ Crash(t) PROVE IInv'
  <2>1. DataInv' /\ held \subseteq held'
    BY <1>9, DataUnchanged DEF Fail, Crash
  <2> QED
    BY <1>9, <2>1, FinishIInv DEF Fail, Crash
<1>10. ASSUME NEW v \in versions, DestroyVersion(v) PROVE IInv'
  BY <1>10 DEF DestroyVersion, IInv, TypeOK, HeldInv
<1>11. ASSUME Settings PROVE IInv'
  BY <1>11 DEF Settings, SetTeam, IInv, TypeOK, HeldInv
<1>13. ASSUME NEW t \in Threads, StorePrevious(t) \/ Validate(t) \/ Announce(t) PROVE IInv'
  BY <1>13, SavingIInv
<1>12. CASE UNCHANGED vars
  BY <1>12 DEF vars, IInv, TypeOK, HeldInv
<1> QED
  BY <1>1, <1>2, <1>3, <1>4, <1>5, <1>6, <1>7, <1>8, <1>9, <1>10, <1>11, <1>12,
     <1>13 DEF Next, RequestNext, Progress

\* In every state of every run, the state is well typed, and no version and no
\* request holds a status that the row has not had.
THEOREM Invariance == Spec => []IInv
  BY InitIInv, StepIInv, PTL DEF Spec

\* Type correctness of StatusHistory.
THEOREM TypeCorrect == Spec => []TypeOK
  BY Invariance, PTL DEF IInv

\* The steps of a request that leave the row alone.
Quiet(t) == \/ Begin(t) \/ StorePrevious(t) \/ Validate(t) \/ Announce(t) \/ Reify(t)
            \/ PickVersion(t) \/ DropVersion(t) \/ Fail(t) \/ Crash(t)

\* The steps of Next, by what they do to the row.
LEMMA Steps ==
  ASSUME Next
  PROVE  \/ \E u \in Users : Create(u)
         \/ \E t \in Threads : SaveUpdate(t) \/ SaveRevert(t) \/ Withdraw(t) \/ Quiet(t)
         \/ Settings
         \/ \E v \in versions : DestroyVersion(v)
  BY DEF Next, RequestNext, Progress, Quiet

LEMMA QuietStep == ASSUME NEW t \in Threads, Quiet(t) PROVE UNCHANGED row
<1>1. CASE Begin(t)
  BY <1>1 DEF Begin, BeginUpdate, BeginDestroy
<1>2. CASE StorePrevious(t) \/ Validate(t) \/ Announce(t)
  BY <1>2 DEF StorePrevious, Validate, Announce
<1>3. CASE Reify(t) \/ PickVersion(t) \/ DropVersion(t)
  BY <1>3 DEF Reify, PickVersion, DropVersion, Finish
<1>4. CASE Fail(t) \/ Crash(t)
  BY <1>4 DEF Fail, Crash, Finish
<1> QED
  BY <1>1, <1>2, <1>3, <1>4 DEF Quiet

\* Only a thread's own step changes its request, and while a thread saves only
\* its commit writes the row.
LEMMA OtherThread ==
  ASSUME Next, req \in [Threads -> Request], NEW t \in Threads,
         Saving(t), req'[t] # req[t]
  PROVE  SaveUpdate(t) \/ SaveRevert(t) \/ UNCHANGED row
<1>1. ASSUME NEW u \in Threads, SaveUpdate(u) \/ SaveRevert(u)
      PROVE  u = t
  BY <1>1 DEF SaveUpdate, SaveRevert, Finish
<1>2. ASSUME NEW u \in Threads, Withdraw(u) PROVE FALSE
  BY <1>2 DEF Withdraw, Finish, Saving
<1>3. ASSUME NEW u \in Threads, Quiet(u) PROVE UNCHANGED row
  BY <1>3, QuietStep
<1>4. ASSUME NEW u \in Users, Create(u) PROVE FALSE
  BY <1>4 DEF Create
<1>5. ASSUME Settings PROVE FALSE
  BY <1>5 DEF Settings, SetTeam
<1>6. ASSUME NEW v \in versions, DestroyVersion(v) PROVE FALSE
  BY <1>6 DEF DestroyVersion
<1> QED
  BY <1>1, <1>2, <1>3, <1>4, <1>5, <1>6, Steps

\* A destroy that changes the status gives the row a status it has had before
\* (Status#destroy, status.rb:92-103), with any number of concurrent requests.
THEOREM DestroyRestoresHeldStatus == Spec => RestoresHeldStatus
<1> DEFINE Restores == \A t \in Threads :
                         req[t].pc = "revert" /\ req'[t] # req[t] /\ row' # Nil
                           => row'.status \in held
<1>1. ASSUME IInv, Next, NEW t \in Threads,
             req[t].pc = "revert", req'[t] # req[t], row' # Nil
      PROVE  row'.status \in held
  <2>1. row # Nil => row.status \in held
    BY <1>1 DEF IInv, HeldInv
  <2>2. req[t].loaded # Nil /\ req[t].target # Nil /\ req[t].target.status \in held
    BY <1>1 DEF IInv, TypeOK, HeldInv
  <2>3. CASE SaveRevert(t)
    BY <2>1, <2>2, <2>3, <1>1, WriteRowType DEF SaveRevert, IInv
  <2>4. CASE UNCHANGED row
    BY <2>1, <2>4, <1>1
  <2>5. CASE SaveUpdate(t)
    BY <2>5, <1>1 DEF SaveUpdate
  <2> QED
    BY <1>1, <2>3, <2>4, <2>5, OtherThread DEF IInv, TypeOK, Saving
<1>2. IInv /\ [Next]_vars => [Restores]_vars
  BY <1>1
<1> QED
  BY <1>2, Invariance, PTL DEF RestoresHeldStatus, Spec

\* A withdrawn status stays withdrawn (Annotation.find(id).destroy, status.rb:96):
\* no request that loaded it earlier brings it back.
THEOREM NoResurrection == Spec => WithdrawnStaysWithdrawn
<1>1. ASSUME Next, row = Nil, nextId > 1 PROVE row' = Nil
  <2>1. ASSUME NEW t \in Threads, SaveUpdate(t) \/ SaveRevert(t) \/ Withdraw(t) PROVE row' = Nil
    BY <1>1, <2>1 DEF SaveUpdate, SaveRevert, Withdraw, WriteRow, Written
  <2>2. ASSUME NEW t \in Threads, Quiet(t) PROVE row' = Nil
    BY <1>1, <2>2, QuietStep
  <2>3. ASSUME NEW u \in Users, Create(u) PROVE FALSE
    BY <1>1, <2>3 DEF Create
  <2>4. ASSUME Settings PROVE row' = Nil
    BY <1>1, <2>4 DEF Settings, SetTeam
  <2>5. ASSUME NEW v \in versions, DestroyVersion(v) PROVE row' = Nil
    BY <1>1, <2>5 DEF DestroyVersion
  <2> QED
    BY <1>1, <2>1, <2>2, <2>3, <2>4, <2>5, Steps
<1>2. [Next]_vars => [row = Nil /\ nextId > 1 => row' = Nil]_vars
  BY <1>1
<1> QED
  BY <1>2, PTL DEF Spec, WithdrawnStaysWithdrawn

\* What the save of thread t has found out so far: it is still true that the new
\* status was on a list read since the request began; and as long as no settings
\* are saved, that both statuses are listed now, the old one if the stored status
\* is no other.
Served(t) ==
  LET r == req[t]
  IN  /\ r.pc = "idle" => seen[t] = {}
      /\ r.pc = "destroy" => r.step = "loaded"
      /\ Saving(t) /\ r.step \in {"valid", "written"} =>
           \E list \in seen[t] : r.target.status \in list
      /\ steady => seen[t] \subseteq {listed}
      /\ steady /\ slack /\ Saving(t) /\ r.step = "written" => r.previous \in listed
      /\ steady /\ Saving(t) /\ r.step # "loaded" /\ row # Nil =>
           row.status \in listed \/ row.status = r.previous

\* There is no row before the first version.
FirstInv == nextId = 1 => row = Nil

ServedInv == FirstInv /\ \A t \in Threads : Served(t)

LEMMA InitServed == Init => ServedInv
  BY DEF Init, ServedInv, FirstInv, Served, Idle, Saving

\* What a thread has found out stays true while others write, if what they write
\* is listed or the settings change.
LEMMA OthersKeepServed ==
  ASSUME NEW t \in Threads, Served(t), req'[t] = req[t], seen'[t] = seen[t],
         UNCHANGED <<listed, slack>>,
         steady' => steady \/ req[t].pc = "idle",
         row' # Nil => \/ steady' => row'.status \in listed
                       \/ row # Nil /\ row'.status = row.status
  PROVE  Served(t)'
<1>1. CASE req[t].pc = "idle"
  BY <1>1 DEF Served, Saving
<1>2. CASE req[t].pc # "idle"
  BY <1>2 DEF Served, Saving
<1> QED
  BY <1>1, <1>2

\* A commit writes the status asked for, which is listed if the settings are
\* steady, or leaves the status as it is.
LEMMA CommitListed ==
  ASSUME IInv, NEW t \in Threads, Served(t), SaveUpdate(t) \/ SaveRevert(t)
  PROVE  /\ Saving(t) /\ req[t].step = "written"
         /\ row = Nil => row' = Nil
         /\ steady => req[t].target.status \in listed
         /\ row' # Nil => row'.status \in {req[t].target.status, row.status}
<1>1. Saving(t) /\ req[t].step = "written" /\ WriteRow(t)
  BY DEF SaveUpdate, SaveRevert, Saving
<1>2. req[t].loaded # Nil /\ req[t].target # Nil
  BY <1>1 DEF IInv, TypeOK, Saving
<1>3. steady => req[t].target.status \in listed
  BY <1>1 DEF Served
<1> QED
  BY <1>1, <1>2, <1>3, WriteRowType DEF IInv

\* After a commit every thread's findings are still true.
LEMMA CommitServed ==
  ASSUME IInv, \A t \in Threads : Served(t),
         NEW t \in Threads, SaveUpdate(t) \/ SaveRevert(t)
  PROVE  \A u \in Threads : Served(u)'
<1>1. /\ row = Nil => row' = Nil
      /\ steady => req[t].target.status \in listed
      /\ row' # Nil => row'.status \in {req[t].target.status, row.status}
  BY CommitListed
<1>2. UNCHANGED <<listed, slack, steady>>
  BY DEF SaveUpdate, SaveRevert
<1>3. req'[t].pc \in {"idle", "reverted"} /\ seen'[t] = {}
  <2>1. req \in [Threads -> Request] /\ seen \in [Threads -> SUBSET SUBSET Statuses]
    BY DEF IInv, TypeOK
  <2>2. CASE SaveUpdate(t)
    BY <2>1, <2>2 DEF SaveUpdate, Finish, Idle
  <2>3. CASE SaveRevert(t)
    BY <2>1, <2>3 DEF SaveRevert, Idle
  <2> QED
    BY <2>2, <2>3
<1>4. Served(t)'
  BY <1>3 DEF Served, Saving
<1>5. ASSUME NEW u \in Threads, u # t PROVE Served(u)'
  <2>1. req'[u] = req[u] /\ seen'[u] = seen[u]
    BY <1>5 DEF SaveUpdate, SaveRevert, Finish, IInv, TypeOK
  <2> QED
    BY <1>1, <1>2, <2>1, OthersKeepServed
<1> QED
  BY <1>4, <1>5

\* The beginning of a request keeps the findings.
LEMMA BeginServed ==
  ASSUME IInv, \A t \in Threads : Served(t), NEW t \in Threads, Begin(t)
  PROVE  \A u \in Threads : Served(u)'
<1> DEFINE Begun == /\ StartReading(t) /\ UNCHANGED <<row, listed, slack>>
                   /\ req'[t].pc \in {"update", "destroy"} /\ req'[t].step = "loaded"
                   /\ \A u \in Threads \ {t} : req'[u] = req[u]
<1>1. Begun
  <2>1. req \in [Threads -> Request]
    BY DEF IInv, TypeOK
  <2>2. ASSUME NEW u \in Users, NEW x \in Statuses, BeginUpdate(t, u, x)
        PROVE  Begun
    BY <2>1, <2>2 DEF BeginUpdate, Idle
  <2>3. ASSUME NEW u \in Users, BeginDestroy(t, u)
        PROVE  Begun
    BY <2>1, <2>3 DEF BeginDestroy, Idle
  <2> QED
    BY <2>2, <2>3 DEF Begin
<1>2. seen'[t] = {listed} /\ \A u \in Threads \ {t} : seen'[u] = seen[u]
  BY <1>1 DEF StartReading, IInv, TypeOK
<1>3. Served(t)'
  BY <1>1, <1>2 DEF Served, Saving
<1>4. ASSUME NEW u \in Threads, u # t PROVE Served(u)'
  <2>1. steady' => steady \/ req[u].pc = "idle"
    BY <1>1 DEF StartReading
  <2> QED
    BY <1>1, <1>2, <1>4, <2>1, OthersKeepServed
<1> QED
  BY <1>3, <1>4

\* The steps of a save before its commit keep the findings and add to them.
LEMMA SavingServed ==
  ASSUME IInv, \A t \in Threads : Served(t), NEW t \in Threads,
         StorePrevious(t) \/ Validate(t) \/ Announce(t)
  PROVE  \A u \in Threads : Served(u)'
<1>1. /\ UNCHANGED <<row, listed, slack, seen, steady>>
      /\ Saving(t) /\ Saving(t)'
      /\ req'[t].pc = req[t].pc /\ req'[t].target = req[t].target
      /\ \A u \in Threads \ {t} : req'[u] = req[u]
  BY DEF StorePrevious, Validate, Announce, Saving, IInv, TypeOK, Request
<1>2. CASE StorePrevious(t)
  <2>1. req'[t].step = "previous" /\ req'[t].previous = LastStatus
    BY <1>2 DEF StorePrevious, IInv, TypeOK, Request
  <2> QED
    BY <1>1, <2>1, OthersKeepServed DEF Served, Saving, LastStatus
<1>3. CASE Validate(t)
  <2>1. /\ req'[t].step = "valid" /\ req'[t].previous = req[t].previous
        /\ req[t].step = "previous" /\ \E list \in seen[t] : StatusIsValid(t, list)
    BY <1>3 DEF Validate, IInv, TypeOK, Request
  <2> QED
    BY <1>1, <2>1, OthersKeepServed DEF Served, Saving, StatusIsValid
<1>4. CASE Announce(t)
  <2>1. /\ req'[t].step = "written" /\ req'[t].previous = req[t].previous
        /\ req[t].step = "valid" /\ CanNotify(t)
    BY <1>4 DEF Announce, IInv, TypeOK, Request
  <2> QED
    BY <1>1, <2>1, OthersKeepServed DEF Served, Saving, CanNotify
<1> QED
  BY <1>2, <1>3, <1>4

\* The other steps of a request keep the findings: it saves no longer, or not yet.
LEMMA RestServed ==
  ASSUME IInv, \A t \in Threads : Served(t), NEW t \in Threads,
         \/ Reify(t) \/ PickVersion(t) \/ DropVersion(t) \/ Withdraw(t)
         \/ Fail(t) \/ Crash(t)
  PROVE  \A u \in Threads : Served(u)'
<1>1. /\ UNCHANGED <<listed, slack, steady>> /\ row' \in {row, Nil}
      /\ \A u \in Threads \ {t} : req'[u] = req[u] /\ seen'[u] = seen[u]
  BY DEF Reify, PickVersion, DropVersion, Withdraw, Fail, Crash, Finish, IInv, TypeOK
<1>2. CASE Reify(t)
  <2>1. /\ req'[t].pc = "revert" /\ req'[t].step = "loaded" /\ seen'[t] = seen[t]
    BY <1>2 DEF Reify, Served, IInv, TypeOK, Request
  <2> QED
    BY <1>1, <2>1, OthersKeepServed DEF Served, Saving
<1>3. CASE PickVersion(t)
  <2>1. req'[t].pc = "drop" /\ seen'[t] = seen[t]
    <3>1. PICK v \in versions : req' = [req EXCEPT ![t].pc = "drop", ![t].newest = v]
      BY <1>3 DEF PickVersion
    <3> QED
      <4>1. req \in [Threads -> Request] /\ UNCHANGED seen
        BY <1>3 DEF PickVersion, IInv, TypeOK
      <4>2. req[t] \in Request
        BY <4>1
      <4>3. req'[t] = [req[t] EXCEPT !.pc = "drop", !.newest = v]
        BY <3>1, <4>1
      <4> QED
        BY <4>1, <4>2, <4>3 DEF Request
  <2> QED
    BY <1>1, <2>1, OthersKeepServed DEF Served, Saving
<1>4. CASE DropVersion(t) \/ Withdraw(t) \/ Fail(t) \/ Crash(t)
  <2>1. req'[t].pc = "idle" /\ seen'[t] = {}
    BY <1>4 DEF DropVersion, Withdraw, Fail, Crash, Finish, Idle, IInv, TypeOK
  <2> QED
    BY <1>1, <2>1, OthersKeepServed DEF Served, Saving
<1> QED
  BY <1>2, <1>3, <1>4

\* New settings end what was steady, unless no thread has a request.
LEMMA SettingsServed ==
  ASSUME IInv, \A t \in Threads : Served(t), Settings
  PROVE  \A t \in Threads : Served(t)'
<1> SUFFICES ASSUME NEW t \in Threads PROVE Served(t)'
  OBVIOUS
<1>1. /\ UNCHANGED <<row, req>> /\ steady' = \A u \in Threads : req[u].pc = "idle"
      /\ seen[t] = {} => seen'[t] = {}
      /\ seen[t] \subseteq seen'[t]
  BY DEF Settings, SetTeam
<1> QED
  BY <1>1 DEF Served, Saving

\* The findings of every thread are inductive.
LEMMA ServedStep == IInv /\ ServedInv /\ [Next]_vars => ServedInv'
<1> SUFFICES ASSUME IInv, ServedInv, [Next]_vars PROVE ServedInv'
  OBVIOUS
<1>1. FirstInv'
  <2>1. nextId \in Nat \ {0}
    BY DEF IInv, TypeOK
  <2>2. ASSUME NEW t \in Threads, SaveUpdate(t) \/ SaveRevert(t) PROVE FirstInv'
    <3>1. row = Nil => row' = Nil
      BY <2>2, CommitListed DEF ServedInv
    <3>2. nextId' = 1 => nextId = 1
      BY <2>1, <2>2 DEF SaveUpdate, SaveRevert
    <3> QED
      BY <3>1, <3>2 DEF ServedInv, FirstInv
  <2>3. ASSUME NEW t \in Threads, Withdraw(t) \/ Quiet(t) PROVE row' \in {row, Nil} /\ UNCHANGED nextId
    <3>1. CASE Withdraw(t)
      BY <3>1 DEF Withdraw
    <3>2. CASE Quiet(t)
      BY <3>2, QuietStep DEF Quiet, Begin, BeginUpdate, BeginDestroy, StorePrevious, Validate,
         Announce, Reify, PickVersion, DropVersion, Fail, Crash
    <3> QED
      BY <2>3, <3>1, <3>2
  <2>4. ASSUME NEW u \in Users, Create(u) PROVE nextId' = 2
    BY <2>4 DEF Create
  <2>5. ASSUME Settings \/ \E v \in versions : DestroyVersion(v) PROVE UNCHANGED <<row, nextId>>
    BY <2>5 DEF Settings, SetTeam, DestroyVersion
  <2>6. CASE UNCHANGED vars
    BY <2>6 DEF ServedInv, FirstInv, vars
  <2> QED
    BY <2>2, <2>3, <2>4, <2>5, <2>6, Steps DEF ServedInv, FirstInv
<1>2. \A t \in Threads : Served(t)'
  <2>1. ASSUME NEW t \in Threads, SaveUpdate(t) \/ SaveRevert(t) PROVE \A u \in Threads : Served(u)'
    BY <2>1, CommitServed DEF ServedInv
  <2>2. ASSUME NEW t \in Threads, Withdraw(t) \/ Quiet(t) PROVE \A u \in Threads : Served(u)'
    BY <2>2, BeginServed, SavingServed, RestServed DEF ServedInv, Quiet
  <2>3. ASSUME NEW u \in Users, Create(u) PROVE \A t \in Threads : Served(t)'
    <3>1. row' # Nil => row'.status \in listed
      BY <2>3 DEF Create
    <3> QED
      BY <2>3, <3>1, OthersKeepServed DEF Create, ServedInv
  <2>4. ASSUME Settings PROVE \A t \in Threads : Served(t)'
    BY <2>4, SettingsServed DEF ServedInv
  <2>5. ASSUME (\E v \in versions : DestroyVersion(v)) \/ UNCHANGED vars
        PROVE  \A t \in Threads : Served(t)'
    <3>1. UNCHANGED <<row, listed, slack, req, seen, steady>>
      BY <2>5 DEF DestroyVersion, vars
    <3> QED
      BY <3>1, OthersKeepServed DEF ServedInv
  <2> QED
    BY <2>1, <2>2, <2>3, <2>4, <2>5, Steps
<1> QED
  BY <1>1, <1>2 DEF ServedInv

LEMMA ServedAlways == Spec => []ServedInv
  BY InitServed, ServedStep, Invariance, PTL DEF Spec

\* A status that a request writes is one the team has offered since the request
\* began (Status#status_is_valid, status.rb:111-117), whatever settings and whatever
\* other requests commit between its queries.
THEOREM OfferedWrites == Spec => WritesOfferedStatus
<1> DEFINE Offered ==
      \A t \in Threads :
        /\ Saving(t) /\ req'[t] # req[t]
        /\ row # Nil /\ row' # Nil /\ row'.status # row.status
        => \E list \in seen[t] : row'.status \in list
<1>1. ASSUME IInv, ServedInv, Next, NEW t \in Threads, Saving(t), req'[t] # req[t],
             row # Nil, row' # Nil, row'.status # row.status
      PROVE  \E list \in seen[t] : row'.status \in list
  <2>1. SaveUpdate(t) \/ SaveRevert(t)
    BY <1>1, OtherThread DEF IInv, TypeOK
  <2>2. req[t].step = "written" /\ row'.status = req[t].target.status
    BY <1>1, <2>1, CommitListed DEF ServedInv
  <2> QED
    BY <1>1, <2>2 DEF ServedInv, Served
<1>2. IInv /\ ServedInv /\ [Next]_vars => [Offered]_vars
  BY <1>1
<1> QED
  BY <1>2, Invariance, ServedAlways, PTL DEF Spec, WritesOfferedStatus

\* While Slack is on and no settings are saved, a status that is replaced and the
\* one that replaces it have labels (Status#id_to_label, status.rb:83-86), by updates
\* and by destroys, however the requests overlap.
THEOREM NamedChanges == Spec => AnnouncedChangesAreNamed
<1> DEFINE Named == /\ steady /\ slack
                    /\ row # Nil /\ row' # Nil /\ row'.status # row.status
                    => {row.status, row'.status} \subseteq listed
<1>1. ASSUME IInv, ServedInv, Next, steady, slack, row # Nil, row' # Nil,
             row'.status # row.status
      PROVE  {row.status, row'.status} \subseteq listed
  <2>1. ASSUME NEW t \in Threads, SaveUpdate(t) \/ SaveRevert(t)
        PROVE  {row.status, row'.status} \subseteq listed
    <3>1. Saving(t) /\ req[t].step = "written" /\ row'.status \in listed
      BY <1>1, <2>1, CommitListed DEF ServedInv
    <3>2. row.status \in listed
      BY <1>1, <3>1 DEF ServedInv, Served
    <3> QED
      BY <3>1, <3>2
  <2>2. ASSUME NEW t \in Threads, Withdraw(t) PROVE FALSE
    BY <1>1, <2>2 DEF Withdraw
  <2>3. ASSUME NEW t \in Threads, Quiet(t) PROVE FALSE
    BY <1>1, <2>3, QuietStep
  <2>4. ASSUME NEW u \in Users, Create(u) PROVE FALSE
    BY <1>1, <2>4 DEF Create, ServedInv, FirstInv
  <2>5. ASSUME Settings \/ \E v \in versions : DestroyVersion(v) PROVE FALSE
    BY <1>1, <2>5 DEF Settings, SetTeam, DestroyVersion
  <2> QED
    BY <1>1, <2>1, <2>2, <2>3, <2>4, <2>5, Steps
<1>2. IInv /\ ServedInv /\ [Next]_vars => [Named]_vars
  BY <1>1
<1> QED
  BY <1>2, Invariance, ServedAlways, PTL DEF Spec, AnnouncedChangesAreNamed
=============================================================================
