------------------------------ MODULE UndoStack ------------------------------
(***************************************************************************)
(* What a status promises to the people who use it: a stack of the states  *)
(* the status has been in, who last touched each, and an undo that takes   *)
(* back exactly the last change.  Undoing the first state withdraws the    *)
(* status for good.                                                        *)
(***************************************************************************)
EXTENDS Sequences, Naturals

CONSTANTS Statuses, Users

VARIABLES stack,      \* the states, the one in force last
          withdrawn

vars == <<stack, withdrawn>>

Entry == [status : Statuses, annotator : Users]

TypeOK == stack \in Seq(Entry) /\ withdrawn \in BOOLEAN

Init == stack = <<>> /\ withdrawn = FALSE

Open(e) == /\ stack = <<>>
           /\ ~withdrawn
           /\ stack' = <<e>>
           /\ UNCHANGED withdrawn

\* A change that changes nothing leaves no trace.
Change(e) == /\ stack # <<>>
             /\ e # stack[Len(stack)]
             /\ stack' = Append(stack, e)
             /\ UNCHANGED withdrawn

\* The status below comes back, in the name of the user who undoes.
Undo(u) == /\ Len(stack) > 1
           /\ stack' = Append(SubSeq(stack, 1, Len(stack) - 2),
                              [stack[Len(stack) - 1] EXCEPT !.annotator = u])
           /\ UNCHANGED withdrawn

Withdraw == /\ Len(stack) = 1
            /\ stack' = <<>>
            /\ withdrawn' = TRUE

Next == \/ \E e \in Entry : Open(e) \/ Change(e)
        \/ \E u \in Users : Undo(u)
        \/ Withdraw

Spec == Init /\ [][Next]_vars
=============================================================================
