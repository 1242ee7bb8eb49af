----------------------------- MODULE OutputOrder -----------------------------
(***************************************************************************)
(* What the output of a decoder promises, whatever its buffer does: a row  *)
(* of the log is a picture that was coded for output and is not in the log *)
(* yet, and rows come in output order: by coded video sequence, then by    *)
(* POC, also with respect to the pictures that have been coded and wait.   *)
(***************************************************************************)
EXTENDS Integers, Sequences

VARIABLES
    due,    \* <<cvs, poc>> of the pictures coded for output so far
    log     \* the rows written so far

LogRows == {log[i] : i \in 1..Len(log)}
Waiting == due \ LogRows

Earlier(a, b) == a[1] < b[1] \/ (a[1] = b[1] /\ a[2] < b[2])

Init == due = {} /\ log = <<>>

\* The log grows by these pictures, the earliest first, before any that is left.
Emit(rows) ==
    LET new == Len(log) + 1 .. Len(log') IN
    /\ Len(log) <= Len(log')
    /\ \A i \in 1..Len(log) : log'[i] = log[i]
    /\ {log'[i] : i \in new} = rows
    /\ \A i, j \in new : i < j => Earlier(log'[i], log'[j])
    /\ \A a \in rows, b \in Waiting \ rows : Earlier(a, b)

\* A picture is coded that follows, in output order, all that were written.
Code(new) ==
    /\ due' = due \cup new
    /\ \A a \in new, i \in 1..Len(log') : Earlier(log'[i], a)

Next == \E rows \in SUBSET Waiting :
           /\ Emit(rows)
           /\ due' = due \/ Code(due' \ due)

Spec == Init /\ [][Next]_<<due, log>>
=============================================================================
