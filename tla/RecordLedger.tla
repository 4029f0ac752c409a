----------------------------- MODULE RecordLedger -----------------------------
(***************************************************************************)
(* What an annotated input file promises to the billing system it feeds.   *)
(* Every line carries a mark, and the business work of a line (onDetail)   *)
(* is done some number of times.  Work may only be done for a line that is *)
(* not marked done, a line is marked done only after its work was done,    *)
(* and done is for ever.  How files are read, passes repeated, and reads   *)
(* or writes fail is left to the implementation, module RecordReader.      *)
(***************************************************************************)
EXTENDS Naturals

CONSTANTS
    Line,    \* the lines of the file
    Marks    \* the marks a line may carry, "done" among them

VARIABLES
    mark,      \* the annotation of each line
    applied    \* how often the work of each line has been done

ledger == <<mark, applied>>

Init ==
    /\ mark \in [Line -> Marks]
    /\ applied = [i \in Line |-> 0]

\* The work of line i is done (once more).
Work(i) ==
    /\ mark[i] # "done"
    /\ applied' = [applied EXCEPT ![i] = @ + 1]
    /\ UNCHANGED mark

\* Line i is marked m.
Mark(i, m) ==
    /\ mark[i] # "done"
    /\ m = "done" => applied[i] > 0
    /\ mark' = [mark EXCEPT ![i] = m]
    /\ UNCHANGED applied

Next == \E i \in Line : Work(i) \/ \E m \in Marks : Mark(i, m)

Spec == Init /\ [][Next]_ledger
=============================================================================
