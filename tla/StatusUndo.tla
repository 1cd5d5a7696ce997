----------------------------- MODULE StatusUndo -----------------------------
(***************************************************************************)
(* The status history as a stack: when one request runs at a time and each *)
(* runs to its end, StatusHistory implements UndoStack.                    *)
(***************************************************************************)
EXTENDS StatusHistory, Sequences, FiniteSets

\* The states the versions keep, oldest first: every version but the one
\* written at creation, which keeps none.
Kept == {v \in versions : v.object # Nil}

\* The objects of a set of versions, in the order of their ids.
ObjectsOf(vs) == [i \in 1..Cardinality(vs) |->
                    (CHOOSE v \in vs : Cardinality({w \in vs : w.id < v.id}) = i - 1).object]

\* Between the save of a revert and the deletion of its version, the newest kept
\* state is the one that has been put back already.
Reverting == \E t \in Threads : req[t].pc \in {"reverted", "drop"}

StatesOfStatus == IF row = Nil THEN <<>>
                  ELSE LET kept == ObjectsOf(Kept)
                      IN  Append(IF Reverting THEN SubSeq(kept, 1, Len(kept) - 1) ELSE kept,
                                 row)

Undo == INSTANCE UndoStack WITH stack <- StatesOfStatus,
                                withdrawn <- row = Nil /\ nextId > 1

\* One at a time, a destroy that ends takes back the last change and nothing
\* else (Status#destroy, status.rb:92-103; status_test.rb:330-357).
ImplementsUndoStack == Undo!Spec

\* Mutant of LogEntries: only the version of the creation is left out.
LogEntriesFromFirst == IF Cardinality(versions) < 2 THEN <<>>
                       ELSE Append(Tail(ObjectsOf(versions)), row)

\* The annotations log shows a status only once it has been changed: then what
\* each version after the second keeps, and the present status
\* (ProjectMedia#get_annotations_log, project_media.rb:88-99).
LogEntries == IF Cardinality(versions) < 2 THEN <<>>
              ELSE Append(Tail(Tail(ObjectsOf(versions))), row)

\* At rest, the log has one entry for every change that has not been undone: it
\* shows every state of the status but the one it was created in.
LogShowsEveryChange ==
  (row # Nil /\ \A t \in Threads : req[t].pc = "idle") =>
    LogEntries = Tail(StatesOfStatus)
=============================================================================
