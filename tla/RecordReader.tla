----------------------------- MODULE RecordReader -----------------------------
(***************************************************************************)
(* The annotated record files of fsys/: f_FileReader (open, read, filter   *)
(* and annotate lines in place), f_FileRecordReader::readFile (one pass    *)
(* over a file) and f_FileAnnotationConfig.                                *)
(*                                                                         *)
(* The first character of a line says what became of the record: readFile  *)
(* hands each record that is still to do to onDetail and then overwrites   *)
(* that character with onDetail's answer.  A file is read again and again, *)
(* in whatever state the pass before it (finished, thrown out of, or       *)
(* crashed) left it.  The file is modelled line by line: `mark' is the     *)
(* first character, `layout' what determineRecordType makes of the rest.   *)
(***************************************************************************)
EXTENDS Integers, FiniteSets

CONSTANTS
    N,            \* lines of the file
    Layouts,      \* what the lines of the file may be
    FirstMarks,   \* the annotations the file may arrive with
    Targets,      \* what setTarget may be called with
    Answers,      \* the final answers of onDetail
    Refusals,     \* its answers that leave the record to be done
    Throwing,     \* records whose onDetail always throws, before its work
    MaxFaults     \* bound: crashes, failing writes, passing refusals and throws

Line  == 1..N
Marks == {"open", "done", "dup", "error", "loaderr", "comment", "none"}
Kinds == {"header", "trailer", "ghead", "gtrail", "detail", "comment", "empty"}
Codes == {"Success", "Failure", "NothingToDo", "CompleteWithErrors", "Unread"}

ASSUME RecordReaderAssumption ==
    /\ N \in Nat \ {0}
    /\ Layouts \subseteq [Line -> Kinds]
    /\ FirstMarks \subseteq Marks
    /\ Targets \subseteq Marks \cup {"all"} /\ "all" \in Targets
    /\ Answers \subseteq {"done", "dup"}
    /\ Refusals \subseteq {"open", "error", "loaderr"}
    /\ Throwing \subseteq Line
    /\ MaxFaults \in Nat

VARIABLES
    layout,    \* the kind of each line
    mark,      \* on disk: the first character of each line
    pc,        \* where readFile is
    pos,       \* the line the next fgets reads
    torn,      \* the file position is inside line pos, behind its mark
    cur,       \* the line m_pos_begin points at
    answer,    \* the annotation onDetail returned
    target,    \* config.m_target
    rc,        \* readFile's rc
    cnt,       \* the m_count_... members
    result,    \* what the last readFile returned
    faults,    \* faults so far
    tried,     \* history: records onDetail was called for in this pass
    unwritten, \* history: of these, the ones whose annotation failed
    applied,   \* history: how often the work of each record was done
    hit        \* history: faults that struck a record between work and mark

\* The counters that decide something or that the report is built from.
Counters == {"records", "attempted", "success", "parse_errors", "load_errors",
             "duplicates", "skips", "already_done", "already_duplicate", "bad_lines"}

history == <<tried, unwritten, applied, hit>>
vars == <<layout, mark, pc, pos, torn, cur, answer, target, rc, cnt, result, faults,
          history>>

PCs == {"closed", "reading", "typing", "working", "annotating"}

TypeOK ==
    /\ layout \in Layouts
    /\ mark \in [Line -> Marks]
    /\ pc \in PCs
    /\ pos \in 1..N + 1
    /\ torn \in BOOLEAN
    /\ cur \in Line
    /\ answer \in Marks
    /\ target \in Targets
    /\ rc \in Codes
    /\ cnt \in [Counters -> Nat]
    /\ result \in Codes
    /\ faults \in 0..MaxFaults
    /\ tried \subseteq Line
    /\ unwritten \subseteq Line
    /\ applied \in [Line -> Nat]
    /\ hit \in [Line -> 0..MaxFaults]

Init ==
    /\ layout \in Layouts
    /\ mark \in {m \in [Line -> FirstMarks] :
                   \A i \in Line : layout[i] = "empty" => m[i] = "none"}
    /\ pc = "closed"
    /\ pos = 1
    /\ torn = FALSE
    /\ cur = 1
    /\ answer = "none"
    /\ target = "all"
    /\ rc = "Success"
    /\ cnt = [c \in Counters |-> 0]
    /\ result = "Unread"
    /\ faults = 0
    /\ tried = {}
    /\ unwritten = {}
    /\ applied = [i \in Line |-> 0]
    /\ hit = [i \in Line |-> 0]

-----------------------------------------------------------------------------
(* f_FileAnnotationConfig and the filter of getNextRecord.                 *)

IsAnnotated(m) == m # "none"

\* m_target is All unless set to one of the annotations.
FilterIsSet == target # "all" /\ target # "none"

\* A plausible slip: asking for the target before the mark `done'.
WantedTargetFirst(m) ==
    IF FilterIsSet THEN m = target ELSE m \in {"open", "error", "loaderr"}

\* A plausible slip: forgetting the records in error.
WantedOpenOnly(m) ==
    /\ m # "done"
    /\ IF FilterIsSet THEN m = target ELSE m = "open"

\* The records a pass works on.
Wanted(m) ==
    /\ m # "done"
    /\ IF FilterIsSet THEN m = target ELSE m \in {"open", "error", "loaderr"}

\* Which counters getNextRecord bumps for an annotated line it passes over.
Bumped(m) ==
    CASE m = "comment" -> {}
      [] m = "done" -> {"already_done", "records"}
      [] m = "dup" /\ ~FilterIsSet -> {"already_duplicate", "records"}
      [] OTHER -> {"skips", "records"}

Bump(cs) == [c \in Counters |-> IF c \in cs THEN cnt[c] + 1 ELSE cnt[c]]

-----------------------------------------------------------------------------
(* One call of readFile.                                                   *)

Fault == faults < MaxFaults /\ faults' = faults + 1

\* fopen fails: readFile throws, its counters reset and nothing read.
OpenFails ==
    /\ pc = "closed"
    /\ Fault
    /\ cnt' = [c \in Counters |-> 0]
    /\ result' = "Unread" /\ tried' = {} /\ unwritten' = {}
    /\ UNCHANGED <<layout, mark, pc, pos, torn, cur, answer, target, rc, applied, hit>>

\* A plausible slip: readFile without its reset.
OpenFileNoReset(t) ==
    /\ pc = "closed"
    /\ target' = t
    /\ pc' = "reading" /\ pos' = 1 /\ torn' = FALSE
    /\ rc' = "Success"
    /\ tried' = {} /\ unwritten' = {}
    /\ UNCHANGED <<layout, mark, cur, answer, cnt, result, faults, applied, hit>>

\* setTarget(t), then readFile: reset and openFile.
OpenFile(t) ==
    /\ pc = "closed"
    /\ target' = t
    /\ pc' = "reading" /\ pos' = 1 /\ torn' = FALSE
    /\ rc' = "Success"
    /\ cnt' = [c \in Counters |-> 0]
    /\ tried' = {} /\ unwritten' = {}
    /\ UNCHANGED <<layout, mark, cur, answer, result, faults, applied, hit>>

\* fgets from inside a line: what is left of it carries no annotation.
ReadTornLine ==
    /\ pc = "reading" /\ pos <= N /\ torn
    /\ torn' = FALSE /\ pos' = pos + 1
    /\ cnt' = Bump({"bad_lines"})
    /\ UNCHANGED <<layout, mark, pc, cur, answer, target, rc, result, faults, history>>

\* getNextRecord reads a line and passes over it.
SkipLine ==
    /\ pc = "reading" /\ pos <= N /\ ~torn
    /\ \/ layout[pos] = "empty" /\ UNCHANGED cnt
       \/ /\ layout[pos] # "empty" /\ ~IsAnnotated(mark[pos])
          /\ cnt' = Bump({"bad_lines"})
       \/ /\ layout[pos] # "empty" /\ IsAnnotated(mark[pos])
          /\ mark[pos] = "comment" \/ ~Wanted(mark[pos])
          /\ cnt' = Bump(Bumped(mark[pos]))
    /\ cur' = pos /\ pos' = pos + 1
    /\ UNCHANGED <<layout, mark, pc, torn, answer, target, rc, result, faults, history>>

\* getNextRecord reads a line and returns it.
TakeLine ==
    /\ pc = "reading" /\ pos <= N /\ ~torn
    /\ layout[pos] # "empty" /\ IsAnnotated(mark[pos])
    /\ mark[pos] # "comment" /\ Wanted(mark[pos])
    /\ cur' = pos /\ pos' = pos + 1
    /\ pc' = "typing"
    /\ UNCHANGED <<layout, mark, torn, answer, target, rc, cnt, result, faults, history>>

\* A header or trailer: the callback's code stands until the next record.
HandleHeaderOrTrailer(code) ==
    /\ pc = "typing"
    /\ layout[cur] \in {"header", "trailer", "ghead", "gtrail"}
    /\ rc' = code
    /\ pc' = "reading"
    /\ UNCHANGED <<layout, mark, pos, torn, cur, answer, target, cnt, result, faults,
                   history>>

\* Its callback throws: readFile closes the file and returns.
HeaderThrows ==
    /\ pc = "typing"
    /\ layout[cur] \in {"header", "trailer", "ghead", "gtrail"}
    /\ Fault
    /\ rc' = "Success"
    /\ pc' = "closed" /\ result' = "Failure"
    /\ UNCHANGED <<layout, mark, pos, torn, cur, answer, target, cnt, history>>

\* A line behind the comment prefix is annotated as a comment.
HandleComment ==
    /\ pc = "typing" /\ layout[cur] = "comment"
    /\ rc' = "Success"
    /\ answer' = "comment"
    /\ pc' = "annotating"
    /\ UNCHANGED <<layout, mark, pos, torn, cur, target, cnt, result, faults, history>>

HandleDetail ==
    /\ pc = "typing" /\ layout[cur] = "detail"
    /\ rc' = "Success"
    /\ cnt' = Bump({"attempted", "records"})
    /\ tried' = tried \cup {cur}
    /\ pc' = "working"
    /\ UNCHANGED <<layout, mark, pos, torn, cur, answer, target, result, faults,
                   unwritten, applied, hit>>

\* onDetail does the work and answers; a duplicate is not worked again.
OnDetailAnswers(a) ==
    /\ pc = "working" /\ cur \notin Throwing
    /\ answer' = a
    /\ applied' = IF a = "done" THEN [applied EXCEPT ![cur] = @ + 1] ELSE applied
    /\ pc' = "annotating"
    /\ UNCHANGED <<layout, mark, pos, torn, cur, target, rc, cnt, result, faults, tried,
                   unwritten, hit>>

\* onDetail does not do the work and says so.
OnDetailRefuses(a) ==
    /\ pc = "working" /\ cur \notin Throwing
    /\ Fault
    /\ answer' = a
    /\ pc' = "annotating"
    /\ UNCHANGED <<layout, mark, pos, torn, cur, target, rc, cnt, result, history>>

\* onDetail throws, before its work or after it: the pass ends here.
OnDetailThrows ==
    /\ pc = "working"
    /\ \/ cur \in Throwing /\ UNCHANGED <<faults, applied, hit>>
       \/ /\ cur \notin Throwing /\ Fault
          /\ \/ UNCHANGED <<applied, hit>>
             \/ /\ applied' = [applied EXCEPT ![cur] = @ + 1]
                /\ hit' = [hit EXCEPT ![cur] = @ + 1]
    /\ pc' = "closed" /\ result' = "Failure"
    /\ UNCHANGED <<layout, mark, pos, torn, cur, answer, target, rc, cnt, tried, unwritten>>

\* Which counter annotateCurrentRecord bumps.
CounterOf(a) ==
    CASE a = "done" -> {"success"}
      [] a = "error" -> {"parse_errors"}
      [] a = "loaderr" -> {"load_errors"}
      [] a = "dup" -> {"duplicates"}
      [] OTHER -> {}

\* A plausible slip: seeking to m_pos_next instead of m_pos_begin.
AnnotateNext ==
    /\ pc = "annotating"
    /\ mark' = IF pos <= N THEN [mark EXCEPT ![pos] = answer] ELSE mark
    /\ cnt' = Bump(CounterOf(answer))
    /\ pc' = "reading"
    /\ UNCHANGED <<layout, pos, torn, cur, answer, target, rc, result, faults, history>>

\* A plausible slip: writing m_target instead of the annotation.
AnnotateTarget ==
    /\ pc = "annotating"
    /\ mark' = [mark EXCEPT ![cur] = target]
    /\ cnt' = Bump(CounterOf(answer))
    /\ pc' = "reading"
    /\ UNCHANGED <<layout, pos, torn, cur, answer, target, rc, result, faults, history>>

\* annotateCurrentRecord overwrites the first character of the record.
Annotate ==
    /\ pc = "annotating"
    /\ mark' = [mark EXCEPT ![cur] = answer]
    /\ cnt' = Bump(CounterOf(answer))
    /\ pc' = "reading"
    /\ UNCHANGED <<layout, pos, torn, cur, answer, target, rc, result, faults, history>>

Struck == hit' = IF layout[cur] = "detail" THEN [hit EXCEPT ![cur] = @ + 1] ELSE hit

\* ftell fails: nothing is written, and the next record is read.
AnnotateFailsAtFtell ==
    /\ pc = "annotating"
    /\ Fault /\ Struck
    /\ unwritten' = unwritten \cup {cur}
    /\ pc' = "reading"
    /\ UNCHANGED <<layout, mark, pos, torn, cur, answer, target, rc, cnt, result, tried, applied>>

\* fputc fails: readFile does not look at the code, and the file is left
\* positioned at the start of the record, which is read again.
AnnotateFailsAtFputc ==
    /\ pc = "annotating"
    /\ Fault /\ Struck
    /\ unwritten' = unwritten \cup {cur}
    /\ pos' = cur /\ pc' = "reading"
    /\ UNCHANGED <<layout, mark, torn, cur, answer, target, rc, cnt, result, tried, applied>>

\* The fseek back, which flushes the character, fails: it may or may not have
\* reached the disk, and the next read starts behind it.
AnnotateFailsAtFseek ==
    /\ pc = "annotating"
    /\ Fault /\ Struck
    /\ unwritten' = unwritten \cup {cur}
    /\ mark' \in {mark, [mark EXCEPT ![cur] = answer]}
    /\ pos' = cur /\ torn' = TRUE /\ pc' = "reading"
    /\ UNCHANGED <<layout, cur, answer, target, rc, cnt, result, tried, applied>>

\* readFile sums up, and onFinal passes the sum on.
SumUp ==
    /\ pc' = "closed"
    /\ result' =
         IF cnt["bad_lines"] > 0 \/ cnt["parse_errors"] > 0 \/ cnt["load_errors"] > 0
         THEN "CompleteWithErrors"
         ELSE IF cnt["success"] = 0 THEN "NothingToDo" ELSE rc
    /\ rc' = result'
    /\ UNCHANGED <<layout, mark, pos, torn, cur, answer, target, cnt, history>>

\* getNextRecord returns EndOfFile.
EndOfPass == pc = "reading" /\ pos = N + 1 /\ SumUp /\ UNCHANGED faults

\* fgets returns NULL on a read error too: the rest of the file is not read.
ReadErrorTakenForEnd == pc = "reading" /\ pos <= N /\ Fault /\ SumUp

\* The process dies.  A character fputc had in its buffer is lost.
Crash ==
    /\ pc # "closed"
    /\ Fault
    /\ pc' = "closed" /\ result' = "Unread"
    /\ IF pc = "annotating" THEN Struck ELSE UNCHANGED hit
    /\ UNCHANGED <<layout, mark, pos, torn, cur, answer, target, rc, cnt, tried,
                   unwritten, applied>>

-----------------------------------------------------------------------------
Pass ==
    \/ ReadTornLine \/ SkipLine \/ TakeLine
    \/ \E code \in {"Success", "Failure"} : HandleHeaderOrTrailer(code)
    \/ HandleComment \/ HandleDetail
    \/ \E a \in Answers : OnDetailAnswers(a)
    \/ OnDetailThrows \/ Annotate \/ EndOfPass

Trouble ==
    \/ OpenFails \/ Crash \/ HeaderThrows \/ ReadErrorTakenForEnd
    \/ AnnotateFailsAtFtell \/ AnnotateFailsAtFputc \/ AnnotateFailsAtFseek
    \/ \E a \in Refusals : OnDetailRefuses(a)

Next == Pass \/ Trouble \/ \E t \in Targets : OpenFile(t)

Spec == Init /\ [][Next]_vars

\* A pass that was begun goes on, and unfiltered passes are made again and
\* again: the file is the input of a batch job.
FairSpec == Spec /\ WF_vars(Pass) /\ SF_vars(OpenFile("all"))
-----------------------------------------------------------------------------
(* Properties.                                                             *)

\* The business work of a record (a deposit, say) is done once, plus once for
\* each failing write, exception or crash that struck between the work and its
\* annotation; for a record that is not (about to be) marked done there is no
\* work but what was struck, and none ever for one that arrived done.
OnceUnlessStruck ==
    \A i \in Line :
        applied[i] <= hit[i] + (IF \/ mark[i] = "done"
                                   \/ pc = "annotating" /\ cur = i /\ answer = "done"
                                THEN 1 ELSE 0)

\* Records in the care of readFile: it works on those not yet done for good.
ToDo(i) == layout[i] = "detail" /\ mark[i] \in {"open", "error", "loaderr"}

\* What readFile returns is about the pass it ended, not about an earlier one:
\* errors are reported exactly if a record of this pass was left in error or
\* a line it read had no annotation, Success means that something was done,
\* and NothingToDo that nothing was (unless an annotation was not written).
HonestResult ==
    (pc = "closed" /\ unwritten = {}) =>
        /\ result \in {"Success", "NothingToDo", "CompleteWithErrors"} =>
              (result = "CompleteWithErrors" <=>
                  \/ \E i \in tried : mark[i] \in {"error", "loaderr"}
                  \/ \E i \in Line : i < pos /\ layout[i] # "empty" /\ mark[i] = "none")
        /\ result = "Success" => \E i \in tried : mark[i] = "done"
        /\ result = "NothingToDo" => \A i \in tried : mark[i] # "done"

\* The file keeps the promises of RecordLedger: through repeated passes,
\* failing annotations and crashes a done record is never worked on again nor
\* unmarked ("never re-do dones"), and none is marked done but after its work.
Ledger == INSTANCE RecordLedger WITH mark <- mark, applied <- applied, Line <- Line, Marks <- Marks
LedgerSpec == Ledger!Spec

\* A record that is to do is done or found a duplicate sooner or later, if no
\* record that is to do at or before it makes onDetail throw each time: such
\* a record ends every pass, and nothing behind it is ever reached.
Reachable(i) == \A j \in Throwing : j <= i => ~ToDo(j)
EveryRecordSettles ==
    \A i \in Line : ToDo(i) /\ Reachable(i) ~> mark[i] \in {"done", "dup"}
=============================================================================
