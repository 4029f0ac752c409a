-------------------------- MODULE RecordReaderProofs --------------------------
(***************************************************************************)
(* Proofs about module RecordReader, for files of any length and content,  *)
(* any set of targets and answers, and any number of faults.               *)
(***************************************************************************)
EXTENDS RecordReader, TLAPS

\* The record in hand is not done; done is answered after the work, and for
\* details only.
HandOK ==
    /\ pc \in {"typing", "working", "annotating"} => mark[cur] # "done"
    /\ pc = "working" => layout[cur] = "detail"
    /\ pc = "annotating" /\ answer = "done" => layout[cur] = "detail" /\ applied[cur] > 0

StrikesAreFaults == \A i \in Line : hit[i] <= faults

IInv == TypeOK /\ HandOK /\ StrikesAreFaults /\ OnceUnlessStruck

-----------------------------------------------------------------------------
\* Bumping counters keeps them numbers.
LEMMA BumpType == ASSUME NEW cs, TypeOK PROVE Bump(cs) \in [Counters -> Nat]
BY DEF TypeOK, Bump

LEMMA InitIInv == Init => IInv
<1> SUFFICES ASSUME Init PROVE IInv
  OBVIOUS
<1>1. mark \in [Line -> Marks] /\ layout \in Layouts
  BY RecordReaderAssumption DEF Init
<1>2. TypeOK
  <2>1. 1 \in Line /\ 1 \in 1..N + 1 /\ "all" \in Targets /\ 0 \in 0..MaxFaults
    BY RecordReaderAssumption DEF Line
  <2>2. QED
    BY <1>1, <2>1 DEF Init, TypeOK, Marks, PCs, Codes
<1>3. HandOK /\ StrikesAreFaults /\ OnceUnlessStruck
  BY <1>1 DEF Init, HandOK, StrikesAreFaults, OnceUnlessStruck
<1>4. QED
  BY <1>2, <1>3 DEF IInv

LEMMA NextIInv == IInv /\ [Next]_vars => IInv'
<1> SUFFICES ASSUME IInv, [Next]_vars PROVE IInv'
  OBVIOUS
<1> USE RecordReaderAssumption
<1> USE DEF TypeOK, HandOK, StrikesAreFaults, OnceUnlessStruck, vars, history, Fault
<1>0. IInv = (TypeOK /\ HandOK /\ StrikesAreFaults /\ OnceUnlessStruck)
  BY DEF IInv
<1>1. CASE OpenFails
  BY <1>1, BumpType DEF IInv, OpenFails, PCs, Codes
<1>2. ASSUME NEW t \in Targets, OpenFile(t) PROVE IInv'
  <2>1. 1 \in 1..N + 1 /\ [c \in Counters |-> 0] \in [Counters -> Nat]
    OBVIOUS
  <2>2. TypeOK'
    BY <1>2, <2>1 DEF IInv, OpenFile, PCs, Codes
  <2>3. HandOK'
    BY <1>2, <2>1 DEF IInv, OpenFile
  <2>4. StrikesAreFaults'
    BY <1>2, <2>1 DEF IInv, OpenFile
  <2>5. OnceUnlessStruck'
    BY <1>2, <2>1 DEF IInv, OpenFile
  <2>6. QED
    BY <2>2, <2>3, <2>4, <2>5 DEF IInv
<1>3. CASE ReadTornLine
  <2>1. pos + 1 \in 1..N + 1
    BY <1>3 DEF IInv, ReadTornLine
  <2>2. TypeOK'
    BY <1>3, <2>1, BumpType DEF IInv, ReadTornLine
  <2>3. HandOK'
    BY <1>3, <2>1 DEF IInv, ReadTornLine
  <2>4. StrikesAreFaults'
    BY <1>3, <2>1 DEF IInv, ReadTornLine
  <2>5. OnceUnlessStruck'
    BY <1>3, <2>1 DEF IInv, ReadTornLine
  <2>6. QED
    BY <2>2, <2>3, <2>4, <2>5 DEF IInv
<1>4. CASE SkipLine
  <2>1. pos \in Line /\ pos + 1 \in 1..N + 1
    BY <1>4 DEF IInv, SkipLine, Line
  <2>2. TypeOK'
    BY <1>4, <2>1, BumpType DEF IInv, SkipLine
  <2>3. HandOK'
    BY <1>4, <2>1 DEF IInv, SkipLine
  <2>4. StrikesAreFaults'
    BY <1>4, <2>1 DEF IInv, SkipLine
  <2>5. OnceUnlessStruck'
    BY <1>4, <2>1 DEF IInv, SkipLine
  <2>6. QED
    BY <2>2, <2>3, <2>4, <2>5 DEF IInv
<1>5. CASE TakeLine
  <2>1. pos \in Line /\ pos + 1 \in 1..N + 1
    BY <1>5 DEF IInv, TakeLine, Line
  <2>2. TypeOK'
    BY <1>5, <2>1 DEF IInv, TakeLine, PCs, Codes
  <2>3. HandOK'
    BY <1>5, <2>1 DEF IInv, TakeLine, Wanted
  <2>4. StrikesAreFaults' /\ OnceUnlessStruck'
    BY <1>5 DEF IInv, TakeLine
  <2> QED
    BY <2>2, <2>3, <2>4 DEF IInv
<1>6. ASSUME NEW code \in {"Success", "Failure"}, HandleHeaderOrTrailer(code) PROVE IInv'
  <2>1. TypeOK'
    BY <1>6, BumpType DEF IInv, HandleHeaderOrTrailer, PCs, Codes
  <2>2. HandOK'
    BY <1>6 DEF IInv, HandleHeaderOrTrailer
  <2>3. StrikesAreFaults' /\ OnceUnlessStruck'
    BY <1>6 DEF IInv, HandleHeaderOrTrailer
  <2> QED
    BY <2>1, <2>2, <2>3 DEF IInv
<1>7. CASE HeaderThrows
  BY <1>7, BumpType DEF IInv, HeaderThrows, PCs, Codes
<1>8. CASE HandleComment
  BY <1>8, BumpType DEF IInv, HandleComment, PCs, Codes, Marks
<1>9. CASE HandleDetail
  BY <1>9, BumpType DEF IInv, HandleDetail, PCs, Codes
<1>10. ASSUME NEW a \in Answers, OnDetailAnswers(a) PROVE IInv'
  BY <1>10, BumpType DEF IInv, OnDetailAnswers, PCs, Codes, Marks
<1>11. ASSUME NEW a \in Refusals, OnDetailRefuses(a) PROVE IInv'
  BY <1>11, BumpType DEF IInv, OnDetailRefuses, PCs, Codes, Marks
<1>12. CASE OnDetailThrows
  BY <1>12, BumpType DEF IInv, OnDetailThrows, PCs, Codes
<1>13. CASE Annotate
  BY <1>13, BumpType DEF IInv, Annotate, PCs, Codes
<1>13a. CASE AnnotateFailsAtFtell
  <2>1. cur \in 1..N + 1
    BY DEF IInv, Line
  <2>2. \A i \in Line : hit'[i] <= faults'
                 /\ (i # cur => hit'[i] = hit[i]) /\ hit[i] <= hit'[i]
    BY <1>13a DEF IInv, AnnotateFailsAtFtell, Struck
  <2>3. TypeOK'
    BY <1>13a, <2>1, <2>2 DEF IInv, AnnotateFailsAtFtell, Struck, PCs
  <2>4. HandOK'
    BY <1>13a, <2>1, <2>2 DEF IInv, AnnotateFailsAtFtell
  <2>5. StrikesAreFaults'
    BY <1>13a, <2>1, <2>2 DEF IInv, AnnotateFailsAtFtell
  <2>6. OnceUnlessStruck'
    BY <1>13a, <2>1, <2>2 DEF IInv, AnnotateFailsAtFtell, Struck
  <2>7. QED
    BY <2>3, <2>4, <2>5, <2>6 DEF IInv
<1>14. CASE AnnotateFailsAtFputc
  <2>1. cur \in 1..N + 1
    BY DEF IInv, Line
  <2>2. \A i \in Line : hit'[i] <= faults'
                 /\ (i # cur => hit'[i] = hit[i]) /\ hit[i] <= hit'[i]
    BY <1>14 DEF IInv, AnnotateFailsAtFputc, Struck
  <2>3. TypeOK'
    BY <1>14, <2>1, <2>2 DEF IInv, AnnotateFailsAtFputc, Struck, PCs
  <2>4. HandOK'
    BY <1>14, <2>1, <2>2 DEF IInv, AnnotateFailsAtFputc
  <2>5. StrikesAreFaults'
    BY <1>14, <2>1, <2>2 DEF IInv, AnnotateFailsAtFputc
  <2>6. OnceUnlessStruck'
    BY <1>14, <2>1, <2>2 DEF IInv, AnnotateFailsAtFputc, Struck
  <2>7. QED
    BY <2>3, <2>4, <2>5, <2>6 DEF IInv
<1>15. CASE AnnotateFailsAtFseek
  <2>1. cur \in 1..N + 1
    BY DEF IInv, Line
  <2>2. \A i \in Line : hit'[i] <= faults'
                 /\ (i # cur => hit'[i] = hit[i]) /\ hit[i] <= hit'[i]
    BY <1>15 DEF IInv, AnnotateFailsAtFseek, Struck
  <2>3. TypeOK'
    BY <1>15, <2>1, <2>2 DEF IInv, AnnotateFailsAtFseek, Struck, PCs
  <2>4. HandOK'
    BY <1>15, <2>1, <2>2 DEF IInv, AnnotateFailsAtFseek
  <2>5. StrikesAreFaults'
    BY <1>15, <2>1, <2>2 DEF IInv, AnnotateFailsAtFseek
  <2>6. OnceUnlessStruck'
    BY <1>15, <2>1, <2>2 DEF IInv, AnnotateFailsAtFseek, Struck
  <2>7. QED
    BY <2>3, <2>4, <2>5, <2>6 DEF IInv
<1>16. CASE EndOfPass \/ ReadErrorTakenForEnd
  BY <1>16 DEF IInv, EndOfPass, ReadErrorTakenForEnd, SumUp, PCs, Codes
<1>17. CASE Crash
  BY <1>17, BumpType DEF IInv, Crash, PCs, Codes, Struck
<1>18. CASE UNCHANGED vars
  BY <1>18 DEF IInv
<1> HIDE DEF vars
<1>19. QED
  BY <1>1, <1>2, <1>3, <1>4, <1>5, <1>6, <1>7, <1>8, <1>9, <1>10, <1>11, <1>12, <1>13, <1>13a, <1>14, <1>15, <1>16, <1>17, <1>18 DEF Next, Pass, Trouble

LEMMA SpecIInv == Spec => []IInv
BY InitIInv, NextIInv, PTL DEF Spec

\* Every state of the reader is of its type.
THEOREM TypeCorrect == Spec => []TypeOK
BY SpecIInv, PTL DEF IInv

\* A record's work is done once, and once more for each fault that struck
\* between the work and its annotation: in files of any length, over any
\* number of passes.
THEOREM WorkIsDoneOnce == Spec => []OnceUnlessStruck
BY SpecIInv, PTL DEF IInv

-----------------------------------------------------------------------------
(* The reader implements RecordLedger: each step works on a line that is   *)
(* not done, marks such a line, or leaves marks and work alone.            *)

LEMMA WorkStep ==
    ASSUME IInv, pc = "working", mark' = mark,
           applied' = [applied EXCEPT ![cur] = @ + 1]
    PROVE  Ledger!Next
BY DEF IInv, TypeOK, HandOK, Ledger!Next, Ledger!Work

LEMMA MarkStep ==
    ASSUME IInv, pc = "annotating", mark' = [mark EXCEPT ![cur] = answer],
           applied' = applied
    PROVE  Ledger!Next
BY DEF IInv, TypeOK, HandOK, Ledger!Next, Ledger!Mark

LEMMA LedgerStep == IInv /\ [Next]_vars => [Ledger!Next]_(Ledger!ledger)
<1> SUFFICES ASSUME IInv, [Next]_vars,
                    ~ UNCHANGED <<mark, applied>>
             PROVE  Ledger!Next
  BY DEF Ledger!ledger
<1>1. \/ \E a \in Answers : OnDetailAnswers(a)
      \/ OnDetailThrows \/ Annotate \/ AnnotateFailsAtFseek
  BY DEF Next, Pass, Trouble, vars, history, OpenFile, OpenFails, ReadTornLine, SkipLine,
         TakeLine, HandleHeaderOrTrailer, HeaderThrows, HandleComment, HandleDetail,
         OnDetailRefuses, AnnotateFailsAtFtell, AnnotateFailsAtFputc, EndOfPass, 
         ReadErrorTakenForEnd, SumUp, Crash
<1>2. ASSUME NEW a \in Answers, OnDetailAnswers(a) PROVE Ledger!Next
  BY <1>2, WorkStep DEF OnDetailAnswers
<1>3. CASE OnDetailThrows
  BY <1>3, WorkStep DEF OnDetailThrows
<1>4. CASE Annotate
  BY <1>4, MarkStep DEF Annotate, history
<1>5. CASE AnnotateFailsAtFseek
  BY <1>5, MarkStep DEF AnnotateFailsAtFseek
<1>6. QED
  BY <1>1, <1>2, <1>3, <1>4, <1>5

\* The annotated file keeps the promises of RecordLedger, whatever it arrives
\* with and whatever fails: "never re-do dones", and done only after the work.
THEOREM ReaderKeepsLedger == Spec => LedgerSpec
<1>1. Init => Ledger!Init
  BY RecordReaderAssumption DEF Init, Ledger!Init
<1>2. QED
  BY <1>1, LedgerStep, SpecIInv, PTL DEF Spec, LedgerSpec, Ledger!Spec

-----------------------------------------------------------------------------
(* The result of a pass is about that pass.  As long as every annotation   *)
(* is written, the counters that decide the result agree with the marks of *)
(* the records tried so far and of the lines read so far.                  *)

\* The records of this pass whose annotation has been written.
Settled == tried \ (IF pc \in {"working", "annotating"} THEN {cur} ELSE {})

Place ==
    /\ ~torn /\ rc \in {"Success", "Failure"}
    /\ \A i \in tried : i < pos /\ layout[i] = "detail"
    /\ pc \in {"typing", "working", "annotating"} =>
          cur < pos /\ layout[cur] # "empty" /\ mark[cur] # "none"
    /\ pc = "typing" => cur \notin tried
    /\ pc = "working" => cur \in tried
    /\ pc = "annotating" =>
          /\ answer \in Answers \cup Refusals \cup {"comment"}
          /\ cur \notin tried => answer = "comment"

ErrorsCounted ==
    (cnt["parse_errors"] > 0 \/ cnt["load_errors"] > 0)
      <=> \E i \in Settled : mark[i] \in {"error", "loaderr"}
SuccessCounted == cnt["success"] > 0 <=> \E i \in Settled : mark[i] = "done"
BadLinesCounted ==
    cnt["bad_lines"] > 0
      <=> \E i \in Line : i < pos /\ layout[i] # "empty" /\ mark[i] = "none"

PassInv ==
    (pc # "closed" /\ unwritten = {}) =>
        Place /\ ErrorsCounted /\ SuccessCounted /\ BadLinesCounted

LEMMA PassStep == IInv /\ PassInv /\ [Next]_vars => PassInv'
<1> SUFFICES ASSUME IInv, PassInv, [Next]_vars, pc' # "closed", unwritten' = {}
             PROVE  (Place /\ ErrorsCounted /\ SuccessCounted /\ BadLinesCounted)'
  BY DEF PassInv
<1> DEFINE Goal == (Place /\ ErrorsCounted /\ SuccessCounted /\ BadLinesCounted)'
<1>1. /\ cnt \in [Counters -> Nat] /\ pos \in 1..N + 1 /\ pos \in Nat /\ N \in Nat /\ cur \in Line /\ Line \subseteq Nat
      /\ mark \in [Line -> Marks] /\ tried \subseteq Line
  BY RecordReaderAssumption DEF IInv, TypeOK, Line
<1>2. ASSUME NEW t \in Targets, OpenFile(t) PROVE Goal
  BY <1>2, <1>1, RecordReaderAssumption
     DEF OpenFile, Place, ErrorsCounted, SuccessCounted, BadLinesCounted, Settled, Counters, Line
<1>3. ASSUME pc # "closed", unwritten = {}
      PROVE  Place /\ ErrorsCounted /\ SuccessCounted /\ BadLinesCounted
  BY <1>3 DEF PassInv
<1>4. CASE ReadTornLine
  BY <1>3, <1>4 DEF ReadTornLine, Place, history
<1>5. CASE SkipLine
  <2>1. Place /\ ErrorsCounted /\ SuccessCounted /\ BadLinesCounted
    BY <1>3, <1>5 DEF SkipLine, history
  <2>2. /\ pos \in Line /\ pc = "reading" /\ pc' = "reading" /\ pos' = pos + 1
        /\ UNCHANGED <<layout, mark, torn, rc, tried, unwritten>>
    BY <1>1, <1>5 DEF SkipLine, history, Line
  <2>3. /\ \A c \in {"parse_errors", "load_errors", "success"} : cnt'[c] = cnt[c]
        /\ IF layout[pos] # "empty" /\ mark[pos] = "none"
           THEN cnt'["bad_lines"] = cnt["bad_lines"] + 1
           ELSE cnt'["bad_lines"] = cnt["bad_lines"]
    BY <1>1, <1>5 DEF SkipLine, Bump, Bumped, IsAnnotated, Counters
  <2>4. Place' /\ ErrorsCounted' /\ SuccessCounted'
    BY <1>1, <2>1, <2>2, <2>3 DEF Place, ErrorsCounted, SuccessCounted, Settled
  <2>5. BadLinesCounted'
    <3>1. \A i \in Line : i < pos' <=> i < pos \/ i = pos
      BY <1>1, <2>2
    <3>2. cnt["bad_lines"] \in Nat
      BY <1>1 DEF Counters
    <3>3. QED
      BY <2>1, <2>2, <2>3, <3>1, <3>2 DEF BadLinesCounted
  <2>6. QED
    BY <2>4, <2>5
<1>6. CASE TakeLine
  <2>1. Place /\ ErrorsCounted /\ SuccessCounted /\ BadLinesCounted
    BY <1>3, <1>6 DEF TakeLine, history
  <2>2. /\ pos \in Line /\ pc = "reading" /\ pc' = "typing" /\ pos' = pos + 1 /\ cur' = pos
        /\ layout[pos] # "empty" /\ mark[pos] # "none"
        /\ UNCHANGED <<layout, mark, torn, rc, cnt, tried, unwritten>>
    BY <1>1, <1>6 DEF TakeLine, history, Line, IsAnnotated
  <2>3. Place'
    BY <1>1, <2>1, <2>2 DEF Place
  <2>4. ErrorsCounted' /\ SuccessCounted'
    BY <2>1, <2>2 DEF ErrorsCounted, SuccessCounted, Settled
  <2>5. BadLinesCounted'
    <3>1. \A i \in Line : i < pos' <=> i < pos \/ i = pos
      BY <1>1, <2>2
    <3>2. QED
      BY <2>1, <2>2, <3>1 DEF BadLinesCounted
  <2>6. QED
    BY <2>3, <2>4, <2>5
<1>7. ASSUME NEW code \in {"Success", "Failure"}, HandleHeaderOrTrailer(code) PROVE Goal
  BY <1>1, <1>3, <1>7
     DEF HandleHeaderOrTrailer, history, Place, ErrorsCounted, SuccessCounted,
         BadLinesCounted, Settled
<1>8. CASE HandleComment
  <2>1. Place /\ ErrorsCounted /\ SuccessCounted /\ BadLinesCounted
    BY <1>3, <1>8 DEF HandleComment, history
  <2>2. mark[cur] # "none"
    BY <1>8, <2>1 DEF HandleComment, Place
  <2>3. Place'
    BY <1>1, <1>8, <2>1, <2>2 DEF Place, HandleComment, history
  <2>4. ErrorsCounted' /\ SuccessCounted' /\ BadLinesCounted'
    BY <1>8, <2>1 DEF HandleComment, history, Place, ErrorsCounted, SuccessCounted,
                      BadLinesCounted, Settled
  <2>5. QED
    BY <2>3, <2>4
<1>9. CASE HandleDetail
  <2>1. Place /\ ErrorsCounted /\ SuccessCounted /\ BadLinesCounted
    BY <1>3, <1>9 DEF HandleDetail
  <2>2. \A c \in {"parse_errors", "load_errors", "success", "bad_lines"} : cnt'[c] = cnt[c]
    BY <1>1, <1>9 DEF HandleDetail, Bump, Counters
  <2>3. Settled' = Settled
    BY <1>9, <2>1 DEF HandleDetail, Settled, Place
  <2>4. Place'
    BY <1>1, <1>9, <2>1 DEF HandleDetail, Place
  <2>5. ErrorsCounted' /\ SuccessCounted' /\ BadLinesCounted'
    BY <1>9, <2>1, <2>2, <2>3 DEF HandleDetail, ErrorsCounted, SuccessCounted,
                                  BadLinesCounted
  <2>6. QED
    BY <2>4, <2>5
<1>10. ASSUME pc = "working", UNCHANGED <<layout, mark, pos, torn, cur, rc, cnt, tried>>,
              unwritten' = unwritten, pc' = "annotating", answer' \in Answers \cup Refusals
       PROVE  Goal
  <2>1. /\ Place /\ ErrorsCounted /\ SuccessCounted /\ BadLinesCounted
        /\ cur \in tried
    BY <1>3, <1>10 DEF Place
  <2>2. Settled' = Settled
    BY <1>10 DEF Settled
  <2>3. Place'
    BY <1>10, <2>1 DEF Place
  <2>4. QED
    BY <1>10, <2>1, <2>2, <2>3 DEF ErrorsCounted, SuccessCounted, BadLinesCounted
<1>11. CASE Annotate
  <2>1. Place /\ ErrorsCounted /\ SuccessCounted /\ BadLinesCounted
    BY <1>3, <1>11 DEF Annotate, history
  <2>2. /\ pc = "annotating" /\ pc' = "reading"
        /\ UNCHANGED <<layout, pos, torn, rc, cur, tried, unwritten>>
        /\ mark' = [mark EXCEPT ![cur] = answer]
        /\ cnt' = Bump(CounterOf(answer))
    BY <1>11 DEF Annotate, history
  <2>3. /\ answer # "none" /\ mark'[cur] = answer
        /\ \A i \in Line : i # cur => mark'[i] = mark[i]
    BY <1>1, <2>1, <2>2, RecordReaderAssumption DEF Place
  <2>4. Place'
    BY <2>1, <2>2 DEF Place
  <2>5. BadLinesCounted'
    <3>1. cnt'["bad_lines"] = cnt["bad_lines"]
      BY <1>1, <2>2 DEF Bump, CounterOf, Counters
    <3>2. mark[cur] # "none"
      BY <2>1, <2>2 DEF Place
    <3>3. QED
      BY <1>1, <2>1, <2>2, <2>3, <3>1, <3>2 DEF BadLinesCounted
  <2>6. /\ \A i \in Settled : i # cur /\ i \in Line
        /\ \A i \in Line : i \in Settled' <=> i \in Settled \/ (i = cur /\ cur \in tried)
        /\ Settled' \subseteq Line
    BY <2>2 DEF Settled, IInv, TypeOK
  <2>7. ErrorsCounted'
    <3>1. (cnt'["parse_errors"] > 0 \/ cnt'["load_errors"] > 0)
            <=> \/ cnt["parse_errors"] > 0 \/ cnt["load_errors"] > 0
                \/ answer \in {"error", "loaderr"}
      BY <1>1, <2>2 DEF Bump, CounterOf, Counters
    <3>2. answer \in {"error", "loaderr"} => cur \in tried
      BY <2>1, <2>2 DEF Place
    <3>3. QED
      BY <1>1, <2>1, <2>3, <2>6, <3>1, <3>2 DEF ErrorsCounted
  <2>8. SuccessCounted'
    <3>1. cnt'["success"] > 0 <=> cnt["success"] > 0 \/ answer = "done"
      BY <1>1, <2>2 DEF Bump, CounterOf, Counters
    <3>2. answer = "done" => cur \in tried
      BY <2>1, <2>2 DEF Place
    <3>3. QED
      BY <1>1, <2>1, <2>3, <2>6, <3>1, <3>2 DEF SuccessCounted
  <2>9. QED
    BY <2>4, <2>5, <2>7, <2>8
<1>12. CASE UNCHANGED vars
  BY <1>3, <1>12 DEF vars, history, Place, ErrorsCounted, SuccessCounted, BadLinesCounted,
                     Settled
<1>13. \/ \E t \in Targets : OpenFile(t)
       \/ ReadTornLine \/ SkipLine \/ TakeLine
       \/ \E code \in {"Success", "Failure"} : HandleHeaderOrTrailer(code)
       \/ HandleComment \/ HandleDetail
       \/ /\ pc = "working" /\ UNCHANGED <<layout, mark, pos, torn, cur, rc, cnt, tried>>
          /\ unwritten' = unwritten /\ pc' = "annotating"
          /\ answer' \in Answers \cup Refusals
       \/ Annotate \/ UNCHANGED vars
  BY DEF Next, Pass, Trouble, history, OnDetailAnswers, OnDetailRefuses, OnDetailThrows,
         OpenFails, Crash, HeaderThrows, AnnotateFailsAtFtell, AnnotateFailsAtFputc, AnnotateFailsAtFseek,
         EndOfPass,
         ReadErrorTakenForEnd, SumUp
<1>14. QED
  BY <1>2, <1>4, <1>5, <1>6, <1>7, <1>8, <1>9, <1>10, <1>11, <1>12, <1>13

\* A pass that is over said what it did.
LEMMA ResultStep == IInv /\ PassInv /\ HonestResult /\ [Next]_vars => HonestResult'
<1> SUFFICES ASSUME IInv, PassInv, HonestResult, [Next]_vars,
                    pc' = "closed", unwritten' = {}
             PROVE  HonestResult'
  BY DEF HonestResult
<1>1. CASE EndOfPass \/ ReadErrorTakenForEnd
  <2>1. /\ pc = "reading" /\ UNCHANGED <<layout, mark, tried, unwritten, pos>>
        /\ result' = IF \/ cnt["bad_lines"] > 0 \/ cnt["parse_errors"] > 0
                        \/ cnt["load_errors"] > 0
                     THEN "CompleteWithErrors"
                     ELSE IF cnt["success"] = 0 THEN "NothingToDo" ELSE rc
    BY <1>1 DEF EndOfPass, ReadErrorTakenForEnd, SumUp, history
  <2>2. Place /\ ErrorsCounted /\ SuccessCounted /\ BadLinesCounted
    BY <2>1 DEF PassInv
  <2>3. Settled = tried /\ cnt["success"] \in Nat
    BY <2>1 DEF Settled, IInv, TypeOK, Counters
  <2>4. /\ result' = "CompleteWithErrors"
             <=> \/ \E i \in tried : mark[i] \in {"error", "loaderr"}
                 \/ \E i \in Line : i < pos /\ layout[i] # "empty" /\ mark[i] = "none"
        /\ result' = "Success" => \E i \in tried : mark[i] = "done"
        /\ result' = "NothingToDo" => \A i \in tried : mark[i] # "done"
    BY <2>1, <2>2, <2>3 DEF Place, ErrorsCounted, SuccessCounted, BadLinesCounted
  <2>5. QED
    BY <2>1, <2>4 DEF HonestResult
<1>2. CASE UNCHANGED <<pc, pos, layout, mark, tried, unwritten, result>>
  BY <1>2 DEF HonestResult
<1>3. CASE result' \in {"Unread", "Failure"}
  BY <1>3 DEF HonestResult
<1>4. \/ EndOfPass \/ ReadErrorTakenForEnd
      \/ UNCHANGED <<pc, pos, layout, mark, tried, unwritten, result>>
      \/ result' \in {"Unread", "Failure"}
  BY DEF Next, Pass, Trouble, vars, history, OpenFile, ReadTornLine, SkipLine, TakeLine,
         HandleHeaderOrTrailer, HandleComment, HandleDetail, OnDetailAnswers,
         OnDetailRefuses, OnDetailThrows, Annotate, OpenFails, Crash, HeaderThrows,
         AnnotateFailsAtFtell, AnnotateFailsAtFputc, AnnotateFailsAtFseek
<1>5. QED
  BY <1>1, <1>2, <1>3, <1>4

\* What readFile returns is about the pass it ended: it reports errors exactly
\* if a record of the pass was left in error or a line had no annotation, and
\* success exactly if something was done.
THEOREM ResultIsHonest == Spec => []HonestResult
<1>1. Init => PassInv /\ HonestResult
  BY DEF Init, PassInv, HonestResult
<1>2. QED
  BY <1>1, PassStep, ResultStep, SpecIInv, PTL DEF Spec
=============================================================================
