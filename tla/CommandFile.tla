----------------------------- MODULE CommandFile -----------------------------
(***************************************************************************)
(* f_CommandFileReader::runCommandFile of fsys/, run again and again over  *)
(* one file of commands.                                                   *)
(*                                                                         *)
(* Every line is a command for doCommand (the derived class), unless its   *)
(* first character says otherwise.  When doCommand answers true that       *)
(* character is overwritten in place with block_char, and no later run     *)
(* executes the line.  A `line' is what one fgets reads: one of more than  *)
(* 1023 characters is several lines to this reader.                        *)
(***************************************************************************)
EXTENDS Integers

CONSTANTS
    N,           \* lines of the file
    Layouts,     \* what the lines of the file may be
    Hopeless,    \* commands doCommand never executes
    MaxFaults    \* bound: crashes, failing calls, passing refusals

Line  == 1..N
Kinds == {"command", "comment", "empty"}
Marks == {"open", "done"}

ASSUME CommandFileAssumption ==
    /\ N \in Nat \ {0}
    /\ Layouts \subseteq [Line -> Kinds]
    /\ Hopeless \subseteq Line
    /\ MaxFaults \in Nat

VARIABLES
    layout,    \* the kind of each line
    mark,      \* on disk: "done" is block_char in front of the line
    pc,        \* where runCommandFile is
    pos,       \* the line the next fgets reads
    torn,      \* the file position is inside line pos, behind its first character
    erred,     \* err_count # 0
    result,    \* return_code
    faults,    \* faults so far
    troubled,  \* history: in this run a call failed or the process died
    applied,   \* history: how often each command was executed
    hit        \* history: faults between its execution and its mark

history == <<troubled, applied, hit>>
vars == <<layout, mark, pc, pos, torn, erred, result, faults, history>>

FlagsOK ==
    /\ torn \in BOOLEAN
    /\ erred \in BOOLEAN
    /\ result \in BOOLEAN
    /\ troubled \in BOOLEAN

TypeOK ==
    /\ FlagsOK
    /\ layout \in Layouts
    /\ mark \in [Line -> Marks]
    /\ pc \in {"closed", "reading", "marking"}
    /\ pos \in 1..N + 1
    /\ pc = "marking" => pos \in Line
    /\ faults \in 0..MaxFaults
    /\ applied \in [Line -> Nat]
    /\ hit \in [Line -> Nat]

Init ==
    /\ layout \in Layouts
    /\ mark \in [Line -> Marks]
    /\ pc = "closed"
    /\ pos = 1
    /\ torn = FALSE
    /\ erred = FALSE
    /\ result = FALSE
    /\ faults = 0
    /\ troubled = TRUE
    /\ applied = [i \in Line |-> 0]
    /\ hit = [i \in Line |-> 0]

Fault == faults < MaxFaults /\ faults' = faults + 1

-----------------------------------------------------------------------------
(* One call of runCommandFile.                                             *)

\* The file is not there or cannot be opened for writing: false, all counts 0.
RunRefused ==
    /\ pc = "closed"
    /\ Fault
    /\ erred' = FALSE /\ result' = FALSE /\ troubled' = TRUE
    /\ UNCHANGED <<layout, mark, pc, pos, torn, applied, hit>>

\* A plausible slip: the counters not reset.
RunOn ==
    /\ pc = "closed"
    /\ pc' = "reading" /\ pos' = 1 /\ torn' = FALSE
    /\ result' = FALSE /\ troubled' = FALSE
    /\ UNCHANGED <<layout, mark, erred, faults, applied, hit>>

\* reset, init and fopen.
Run ==
    /\ pc = "closed"
    /\ pc' = "reading" /\ pos' = 1 /\ torn' = FALSE
    /\ erred' = FALSE /\ result' = FALSE /\ troubled' = FALSE
    /\ UNCHANGED <<layout, mark, faults, applied, hit>>

AtCommand == pc = "reading" /\ pos <= N /\ ~torn /\ layout[pos] = "command"

\* A plausible slip: the line behind an empty one read in its place.
SkipLineTwice ==
    /\ pc = "reading" /\ pos <= N /\ ~torn
    /\ layout[pos] # "command" \/ mark[pos] = "done"
    /\ pos' = IF layout[pos] = "empty" THEN pos + 2 ELSE pos + 1
    /\ UNCHANGED <<layout, mark, pc, torn, erred, result, faults, history>>

\* An empty, a commented or a blocked line.
SkipLine ==
    /\ pc = "reading" /\ pos <= N /\ ~torn
    /\ layout[pos] # "command" \/ mark[pos] = "done"
    /\ pos' = pos + 1
    /\ UNCHANGED <<layout, mark, pc, torn, erred, result, faults, history>>

\* What is left of a torn line is no command doCommand knows.
RefuseTornLine ==
    /\ pc = "reading" /\ pos <= N /\ torn
    /\ erred' = (erred \/ layout[pos] = "command")
    /\ torn' = FALSE /\ pos' = pos + 1
    /\ UNCHANGED <<layout, mark, pc, result, faults, history>>

\* A plausible slip: blocked lines are counted and executed all the same.
DoCommandAgain ==
    /\ AtCommand /\ pos \notin Hopeless
    /\ applied' = [applied EXCEPT ![pos] = @ + 1]
    /\ pc' = "marking"
    /\ UNCHANGED <<layout, mark, pos, torn, erred, result, faults, troubled, hit>>

\* doCommand executes the line.
DoCommand ==
    /\ AtCommand /\ mark[pos] = "open" /\ pos \notin Hopeless
    /\ applied' = [applied EXCEPT ![pos] = @ + 1]
    /\ pc' = "marking"
    /\ UNCHANGED <<layout, mark, pos, torn, erred, result, faults, troubled, hit>>

\* A plausible slip: the first failing command ends the run.
CommandEndsRun ==
    /\ AtCommand /\ mark[pos] = "open"
    /\ \/ pos \in Hopeless /\ UNCHANGED faults
       \/ pos \notin Hopeless /\ Fault
    /\ erred' = TRUE
    /\ pc' = "closed" /\ result' = FALSE
    /\ UNCHANGED <<layout, mark, pos, torn, history>>

\* doCommand answers false; the line stays as it is.
CommandFails ==
    /\ AtCommand /\ mark[pos] = "open"
    /\ \/ pos \in Hopeless /\ UNCHANGED faults
       \/ pos \notin Hopeless /\ Fault
    /\ erred' = TRUE
    /\ pos' = pos + 1
    /\ UNCHANGED <<layout, mark, pc, torn, result, history>>

\* A plausible slip: fputc without the seek to begin_line.
BlockNextLine ==
    /\ pc = "marking"
    /\ mark' = IF pos < N THEN [mark EXCEPT ![pos + 1] = "done"] ELSE mark
    /\ pos' = pos + 1 /\ pc' = "reading"
    /\ UNCHANGED <<layout, torn, erred, result, faults, history>>

\* fseek to begin_line, fputc, fseek to next_line.
BlockLine ==
    /\ pc = "marking"
    /\ mark' = [mark EXCEPT ![pos] = "done"]
    /\ pos' = pos + 1 /\ pc' = "reading"
    /\ UNCHANGED <<layout, torn, erred, result, faults, history>>

Struck == hit' = [hit EXCEPT ![pos] = @ + 1]

\* fputc fails; nobody looks, and the second seek goes on to the next line.
FputcFails ==
    /\ pc = "marking"
    /\ Fault /\ Struck
    /\ troubled' = TRUE
    /\ pos' = pos + 1 /\ pc' = "reading"
    /\ UNCHANGED <<layout, mark, torn, erred, result, applied>>

\* The second seek, which flushes the character, fails: it may or may not have
\* reached the disk, and the next fgets starts behind it.
FseekFails ==
    /\ pc = "marking"
    /\ Fault /\ Struck
    /\ troubled' = TRUE
    /\ mark' \in {mark, [mark EXCEPT ![pos] = "done"]}
    /\ torn' = TRUE /\ pc' = "reading"
    /\ UNCHANGED <<layout, pos, erred, result, applied>>

Return == pc' = "closed" /\ result' = ~erred

EndOfFile ==
    /\ pc = "reading" /\ pos = N + 1
    /\ Return
    /\ UNCHANGED <<layout, mark, pos, torn, erred, faults, history>>

\* fgets returns NULL on a read error too.
ReadErrorTakenForEnd ==
    /\ pc = "reading" /\ pos <= N
    /\ Fault /\ Return
    /\ troubled' = TRUE
    /\ UNCHANGED <<layout, mark, pos, torn, erred, applied, hit>>

\* The process dies.  A character fputc had in its buffer is lost.
Crash ==
    /\ pc # "closed"
    /\ Fault
    /\ pc' = "closed" /\ result' = FALSE /\ troubled' = TRUE
    /\ IF pc = "marking" THEN Struck ELSE UNCHANGED hit
    /\ UNCHANGED <<layout, mark, pos, torn, erred, applied>>

-----------------------------------------------------------------------------
Work ==
    \/ SkipLine \/ RefuseTornLine \/ DoCommand \/ CommandFails
    \/ BlockLine \/ EndOfFile

Trouble == RunRefused \/ FputcFails \/ FseekFails \/ ReadErrorTakenForEnd \/ Crash

Next == Run \/ Work \/ Trouble

Spec == Init /\ [][Next]_vars

\* A run that was begun goes on, and the file is run again and again until its
\* commands are done.
FairSpec == Spec /\ WF_vars(Work) /\ WF_vars(Run)
-----------------------------------------------------------------------------
(* Properties.                                                             *)

\* A command is executed once, plus once for each crash or failing write that
\* came between its execution and its mark; what is open was executed only so.
OnceUnlessStruck ==
    \A i \in Line :
        applied[i] <= hit[i] + (IF mark[i] = "done" \/ (pc = "marking" /\ pos = i)
                                THEN 1 ELSE 0)

\* A run without trouble returns true exactly if it leaves no command open behind
\* it, whatever the runs before it have met with.  The true of a troubled run is
\* still about all it has read: a command left open there was executed, and its
\* mark struck; what is not told is where a read error ended the run.
TrueMeansDone ==
    pc = "closed" =>
        /\ ~troubled => (result <=> \A i \in Line : layout[i] = "command" => mark[i] = "done")
        /\ result => \A i \in Line : i < pos /\ layout[i] = "command" =>
                         mark[i] = "done" \/ hit[i] > 0

\* The file keeps the promises of RecordLedger, doCommand being the work: a
\* blocked command is never executed, and none is blocked but after it was.
Ledger == INSTANCE RecordLedger WITH mark <- mark, applied <- applied, Line <- Line, Marks <- Marks
LedgerSpec == Ledger!Spec

\* Every command that doCommand can execute is blocked in the end, one behind
\* a command that always fails included.
EveryCommandSettles ==
    \A i \in Line \ Hopeless : layout[i] = "command" ~> mark[i] = "done"
=============================================================================
