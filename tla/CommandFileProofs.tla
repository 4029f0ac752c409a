-------------------------- MODULE CommandFileProofs --------------------------
(***************************************************************************)
(* Proofs about module CommandFile, for files of any length and any number *)
(* of faults.                                                              *)
(***************************************************************************)
EXTENDS CommandFile, TLAPS

\* A command that is being marked was executed and is still open.
MarkingOK ==
    pc = "marking" =>
        /\ layout[pos] = "command" /\ mark[pos] = "open" /\ ~torn
        /\ applied[pos] > 0
        /\ applied[pos] <= hit[pos] + 1

\* In a run without trouble err_count tells of the commands left open so far.
ErredTells ==
    (pc # "closed" /\ ~troubled) =>
        /\ ~torn
        /\ erred <=> \E i \in Line : i < pos /\ layout[i] = "command" /\ mark[i] = "open"

\* In any run, as long as err_count is 0, what was left open so far was struck.
UnerredTells ==
    (pc # "closed" /\ ~erred) =>
        \A i \in Line : i < pos /\ layout[i] = "command" => mark[i] = "done" \/ hit[i] > 0

IInv == TypeOK /\ MarkingOK /\ OnceUnlessStruck /\ ErredTells /\ UnerredTells /\ TrueMeansDone
-----------------------------------------------------------------------------
LEMMA InitIInv == Init => IInv
<1> SUFFICES ASSUME Init PROVE IInv
  OBVIOUS
<1>1. TypeOK
  <2>1. FlagsOK
    BY DEF Init, FlagsOK
  <2> QED
    BY <2>1, CommandFileAssumption DEF Init, TypeOK, Line, Marks
<1>2. MarkingOK /\ ErredTells /\ UnerredTells
  BY DEF Init, MarkingOK, ErredTells, UnerredTells
<1>3. OnceUnlessStruck
  BY DEF Init, OnceUnlessStruck
<1>4. TrueMeansDone
  BY DEF Init, TrueMeansDone
<1> QED
  BY <1>1, <1>2, <1>3, <1>4 DEF IInv

LEMMA FlagsStep == TypeOK /\ [Next]_vars => FlagsOK'
<1> SUFFICES ASSUME TypeOK, [Next]_vars PROVE FlagsOK'
  OBVIOUS
<1> USE CommandFileAssumption
<1> USE DEF TypeOK, FlagsOK, Line, Marks, history, Fault
<1>1. CASE Run
  BY <1>1 DEF Run
<1>2. CASE SkipLine
  BY <1>2 DEF SkipLine
<1>3. CASE RefuseTornLine
  BY <1>3 DEF RefuseTornLine
<1>4. CASE DoCommand
  BY <1>4 DEF DoCommand, AtCommand
<1>5. CASE CommandFails
  BY <1>5 DEF CommandFails, AtCommand
<1>6. CASE BlockLine
  BY <1>6 DEF BlockLine
<1>7. CASE EndOfFile
  BY <1>7 DEF EndOfFile, Return
<1>8. CASE RunRefused
  BY <1>8 DEF RunRefused
<1>9. CASE FputcFails
  BY <1>9 DEF FputcFails, Struck
<1>10. CASE FseekFails
  BY <1>10 DEF FseekFails, Struck
<1>11. CASE ReadErrorTakenForEnd
  BY <1>11 DEF ReadErrorTakenForEnd, Return
<1>12. CASE Crash
  BY <1>12 DEF Crash, Struck
<1>13. CASE UNCHANGED vars
  BY <1>13 DEF vars
<1> QED
  BY <1>1, <1>2, <1>3, <1>4, <1>5, <1>6, <1>7, <1>8, <1>9, <1>10, <1>11, <1>12, <1>13 DEF Next, Work, Trouble

\* A line counted once more.
LEMMA Counts ==
    ASSUME NEW f \in [Line -> Nat], NEW i \in Line
    PROVE  LET g == [f EXCEPT ![i] = @ + 1] IN
           /\ g \in [Line -> Nat] /\ f[i] \in Nat /\ g[i] = f[i] + 1
           /\ \A j \in Line : j # i => g[j] = f[j]
  OBVIOUS

LEMMA TypeStep == TypeOK /\ MarkingOK /\ [Next]_vars => TypeOK'
<1> SUFFICES ASSUME TypeOK, MarkingOK, [Next]_vars PROVE TypeOK'
  OBVIOUS
<1>0. FlagsOK'
  BY FlagsStep
<1> USE CommandFileAssumption
<1> USE DEF TypeOK, MarkingOK, Line, Marks, history, Fault
<1>1. CASE Run
  BY <1>0, <1>1 DEF Run
<1>2. CASE SkipLine
  BY <1>0, <1>2 DEF SkipLine
<1>3. CASE RefuseTornLine
  BY <1>0, <1>3 DEF RefuseTornLine
<1>4. CASE DoCommand
  <2>1. applied' \in [Line -> Nat]
    BY <1>4, Counts DEF DoCommand, AtCommand
  <2>2. UNCHANGED <<layout, mark, pos, faults, hit>> /\ pc' = "marking" /\ pos \in Line
    BY <1>4 DEF DoCommand, AtCommand
  <2> QED
    BY <1>0, <2>1, <2>2
<1>5. CASE CommandFails
  <2>1. /\ pos \in Line /\ pos' = pos + 1 /\ faults' \in {faults, faults + 1}
        /\ faults' \in 0..MaxFaults
    BY <1>5 DEF CommandFails, AtCommand
  <2>2. UNCHANGED <<layout, mark, pc, applied, hit>> /\ pc = "reading"
    BY <1>5 DEF CommandFails, AtCommand
  <2> QED
    BY <1>0, <2>1, <2>2
<1>6. CASE BlockLine
  BY <1>0, <1>6 DEF BlockLine
<1>7. CASE EndOfFile
  BY <1>0, <1>7 DEF EndOfFile, Return
<1>8. CASE RunRefused
  BY <1>0, <1>8 DEF RunRefused
<1>9. CASE FputcFails
  <2>1. hit' \in [Line -> Nat]
    BY <1>9, Counts DEF FputcFails, Struck
  <2>2. /\ pos \in Line /\ pos' = pos + 1 /\ pc' = "reading"
        /\ faults' = faults + 1 /\ faults < MaxFaults
        /\ UNCHANGED <<layout, mark, applied>>
    BY <1>9 DEF FputcFails
  <2> QED
    BY <1>0, <2>1, <2>2
<1>10. CASE FseekFails
  <2>1. hit' \in [Line -> Nat]
    BY <1>10, Counts DEF FseekFails, Struck
  <2>2. mark' \in [Line -> Marks]
    BY <1>10 DEF FseekFails
  <2>3. /\ pos \in Line /\ pos' = pos /\ pc' = "reading"
        /\ faults' = faults + 1 /\ faults < MaxFaults
        /\ UNCHANGED <<layout, applied>>
    BY <1>10 DEF FseekFails
  <2> QED
    BY <1>0, <2>1, <2>2, <2>3
<1>11. CASE ReadErrorTakenForEnd
  BY <1>0, <1>11 DEF ReadErrorTakenForEnd, Return
<1>12. CASE Crash
  <2>1. hit' \in [Line -> Nat]
    <3>1. CASE pc = "marking"
      BY <1>12, <3>1, Counts DEF Crash, Struck
    <3>2. CASE pc # "marking"
      BY <1>12, <3>2 DEF Crash
    <3> QED
      BY <3>1, <3>2
  <2>2. pc' = "closed" /\ faults' = faults + 1 /\ faults < MaxFaults
        /\ UNCHANGED <<layout, mark, pos, applied>>
    BY <1>12 DEF Crash
  <2> QED
    BY <1>0, <2>1, <2>2
<1>13. CASE UNCHANGED vars
  BY <1>0, <1>13 DEF vars
<1> QED
  BY <1>1, <1>2, <1>3, <1>4, <1>5, <1>6, <1>7, <1>8, <1>9, <1>10, <1>11, <1>12, <1>13 DEF Next, Work, Trouble

LEMMA MarkingStep == TypeOK /\ MarkingOK /\ OnceUnlessStruck /\ [Next]_vars => MarkingOK'
<1> SUFFICES ASSUME TypeOK, MarkingOK, OnceUnlessStruck, [Next]_vars PROVE MarkingOK'
  OBVIOUS
<1> USE CommandFileAssumption
<1> USE DEF TypeOK, MarkingOK, OnceUnlessStruck, Line, Marks, history, Fault
<1>1. CASE Run
  BY <1>1 DEF Run
<1>2. CASE SkipLine
  BY <1>2 DEF SkipLine
<1>3. CASE RefuseTornLine
  BY <1>3 DEF RefuseTornLine
<1>4. CASE DoCommand
  <2>1. /\ pos \in Line /\ applied' = [applied EXCEPT ![pos] = @ + 1]
        /\ pos' = pos /\ layout' = layout /\ mark' = mark /\ torn' = torn /\ hit' = hit
        /\ pc # "marking" /\ layout[pos] = "command" /\ mark[pos] = "open" /\ ~torn
    BY <1>4 DEF DoCommand, AtCommand
  <2>2. applied[pos] \in Nat /\ applied'[pos] = applied[pos] + 1
    BY <2>1, Counts
  <2>3. hit[pos] \in Nat /\ applied[pos] <= hit[pos]
    <3>1. hit[pos] \in Nat
      BY <2>1
    <3>2. applied[pos] <= hit[pos] + 0
      BY <2>1
    <3> QED
      BY <3>1, <3>2
  <2> QED
    BY <2>1, <2>2, <2>3
<1>5. CASE CommandFails
  BY <1>5 DEF CommandFails, AtCommand
<1>6. CASE BlockLine
  BY <1>6 DEF BlockLine
<1>7. CASE EndOfFile
  BY <1>7 DEF EndOfFile, Return
<1>8. CASE RunRefused
  BY <1>8 DEF RunRefused
<1>9. CASE FputcFails
  BY <1>9 DEF FputcFails, Struck
<1>10. CASE FseekFails
  BY <1>10 DEF FseekFails, Struck
<1>11. CASE ReadErrorTakenForEnd
  BY <1>11 DEF ReadErrorTakenForEnd, Return
<1>12. CASE Crash
  BY <1>12 DEF Crash, Struck
<1>13. CASE UNCHANGED vars
  BY <1>13 DEF vars
<1> QED
  BY <1>1, <1>2, <1>3, <1>4, <1>5, <1>6, <1>7, <1>8, <1>9, <1>10, <1>11, <1>12, <1>13 DEF Next, Work, Trouble

LEMMA OnceStep == TypeOK /\ MarkingOK /\ OnceUnlessStruck /\ [Next]_vars => OnceUnlessStruck'
<1> SUFFICES ASSUME TypeOK, MarkingOK, OnceUnlessStruck, [Next]_vars PROVE OnceUnlessStruck'
  OBVIOUS
<1> USE CommandFileAssumption
<1> USE DEF TypeOK, MarkingOK, OnceUnlessStruck, Line, Marks, history, Fault
<1>1. CASE Run
  BY <1>1 DEF Run
<1>2. CASE SkipLine
  BY <1>2 DEF SkipLine
<1>3. CASE RefuseTornLine
  BY <1>3 DEF RefuseTornLine
<1>4. CASE DoCommand
  BY <1>4 DEF DoCommand, AtCommand
<1>5. CASE CommandFails
  BY <1>5 DEF CommandFails, AtCommand
<1>6. CASE BlockLine
  BY <1>6 DEF BlockLine
<1>7. CASE EndOfFile
  BY <1>7 DEF EndOfFile, Return
<1>8. CASE RunRefused
  BY <1>8 DEF RunRefused
<1>9. CASE FputcFails
  BY <1>9 DEF FputcFails, Struck
<1>10. CASE FseekFails
  <2>1. /\ pos \in Line /\ hit' = [hit EXCEPT ![pos] = @ + 1] /\ applied' = applied
        /\ mark' \in {mark, [mark EXCEPT ![pos] = "done"]} /\ pc = "marking" /\ pos' = pos
    BY <1>10 DEF FseekFails, Struck
  <2>2. hit'[pos] = hit[pos] + 1 /\ \A j \in Line : j # pos => hit'[j] = hit[j] /\ mark'[j] = mark[j]
    BY <2>1, Counts
  <2>3. \A j \in Line : applied[j] \in Nat /\ hit[j] \in Nat
    OBVIOUS
  <2> QED
    BY <2>1, <2>2, <2>3
<1>11. CASE ReadErrorTakenForEnd
  BY <1>11 DEF ReadErrorTakenForEnd, Return
<1>12. CASE Crash
  <2>1. CASE pc # "marking"
    BY <1>12, <2>1 DEF Crash
  <2>2. CASE pc = "marking"
    <3>1. /\ pos \in Line /\ hit' = [hit EXCEPT ![pos] = @ + 1]
          /\ applied' = applied /\ mark' = mark /\ pos' = pos
      BY <1>12, <2>2 DEF Crash, Struck
    <3>2. hit'[pos] = hit[pos] + 1 /\ \A j \in Line : j # pos => hit'[j] = hit[j]
      BY <3>1, Counts
    <3>3. \A j \in Line : applied[j] \in Nat /\ hit[j] \in Nat
      OBVIOUS
    <3> QED
      BY <2>2, <3>1, <3>2, <3>3
  <2> QED
    BY <2>1, <2>2
<1>13. CASE UNCHANGED vars
  BY <1>13 DEF vars
<1> QED
  BY <1>1, <1>2, <1>3, <1>4, <1>5, <1>6, <1>7, <1>8, <1>9, <1>10, <1>11, <1>12, <1>13 DEF Next, Work, Trouble

LEMMA ErredStep == TypeOK /\ MarkingOK /\ ErredTells /\ [Next]_vars => ErredTells'
<1> SUFFICES ASSUME TypeOK, MarkingOK, ErredTells, [Next]_vars PROVE ErredTells'
  OBVIOUS
<1> USE CommandFileAssumption
<1> USE DEF TypeOK, FlagsOK, MarkingOK, ErredTells, Line, Marks, history, Fault
<1>1. CASE Run
  BY <1>1 DEF Run
<1>2. CASE SkipLine
  BY <1>2 DEF SkipLine
<1>3. CASE RefuseTornLine
  BY <1>3 DEF RefuseTornLine
<1>4. CASE DoCommand
  BY <1>4 DEF DoCommand, AtCommand
<1>5. CASE CommandFails
  BY <1>5 DEF CommandFails, AtCommand
<1>6. CASE BlockLine
  BY <1>6 DEF BlockLine
<1>7. CASE EndOfFile
  BY <1>7 DEF EndOfFile, Return
<1>8. CASE RunRefused
  BY <1>8 DEF RunRefused
<1>9. CASE FputcFails
  BY <1>9 DEF FputcFails, Struck
<1>10. CASE FseekFails
  BY <1>10 DEF FseekFails, Struck
<1>11. CASE ReadErrorTakenForEnd
  BY <1>11 DEF ReadErrorTakenForEnd, Return
<1>12. CASE Crash
  BY <1>12 DEF Crash, Struck
<1>13. CASE UNCHANGED vars
  BY <1>13 DEF vars
<1> QED
  BY <1>1, <1>2, <1>3, <1>4, <1>5, <1>6, <1>7, <1>8, <1>9, <1>10, <1>11, <1>12, <1>13 DEF Next, Work, Trouble

\* What a run leaves open without counting an error was struck.
LEMMA UnerredStep == TypeOK /\ MarkingOK /\ UnerredTells /\ [Next]_vars => UnerredTells'
<1> SUFFICES ASSUME TypeOK, MarkingOK, UnerredTells, [Next]_vars PROVE UnerredTells'
  OBVIOUS
<1> USE CommandFileAssumption
<1> USE DEF TypeOK, FlagsOK, MarkingOK, UnerredTells, Line, Marks, history, Fault
<1>1. CASE Run
  BY <1>1 DEF Run
<1>2. CASE SkipLine
  BY <1>2 DEF SkipLine
<1>3. CASE RefuseTornLine
  <2>1. /\ pos \in Line /\ pos' = pos + 1 /\ pc # "closed"
        /\ UNCHANGED <<layout, mark, hit>>
    BY <1>3 DEF RefuseTornLine
  <2>2. ~erred' => ~erred /\ layout[pos] # "command"
    BY <1>3, Zenon DEF RefuseTornLine
  <2>3. \A j \in Line : j < pos' => j = pos \/ j < pos
    BY <2>1
  <2> QED
    BY <2>1, <2>2, <2>3
<1>4. CASE DoCommand
  BY <1>4 DEF DoCommand, AtCommand
<1>5. CASE CommandFails
  BY <1>5 DEF CommandFails, AtCommand
<1>6. CASE BlockLine
  BY <1>6 DEF BlockLine
<1>7. CASE EndOfFile
  BY <1>7 DEF EndOfFile, Return
<1>8. CASE RunRefused
  BY <1>8 DEF RunRefused
<1>9. CASE FputcFails
  <2>1. pos \in Line /\ pos' = pos + 1 /\ hit' = [hit EXCEPT ![pos] = @ + 1]
        /\ UNCHANGED <<layout, mark, erred>> /\ pc # "closed"
    BY <1>9 DEF FputcFails, Struck
  <2>2. hit'[pos] > 0 /\ \A j \in Line : j # pos => hit'[j] = hit[j]
    BY <2>1, Counts
  <2>3. \A j \in Line : j < pos' => j = pos \/ j < pos
    BY <2>1
  <2> QED
    BY <2>1, <2>2, <2>3
<1>10. CASE FseekFails
  <2>1. pos \in Line /\ pos' = pos /\ hit' = [hit EXCEPT ![pos] = @ + 1]
        /\ mark' \in {mark, [mark EXCEPT ![pos] = "done"]}
        /\ UNCHANGED <<layout, erred>> /\ pc # "closed"
    BY <1>10 DEF FseekFails, Struck
  <2>2. \A j \in Line : j < pos => hit'[j] = hit[j] /\ mark'[j] = mark[j]
    BY <2>1, Counts
  <2> QED
    BY <2>1, <2>2
<1>11. CASE ReadErrorTakenForEnd
  BY <1>11 DEF ReadErrorTakenForEnd, Return
<1>12. CASE Crash
  BY <1>12 DEF Crash, Struck
<1>13. CASE UNCHANGED vars
  BY <1>13 DEF vars
<1> QED
  BY <1>1, <1>2, <1>3, <1>4, <1>5, <1>6, <1>7, <1>8, <1>9, <1>10, <1>11, <1>12, <1>13 DEF Next, Work, Trouble

LEMMA ResultStep == TypeOK /\ ErredTells /\ UnerredTells /\ TrueMeansDone /\ [Next]_vars => TrueMeansDone'
<1> SUFFICES ASSUME TypeOK, ErredTells, UnerredTells, TrueMeansDone, [Next]_vars PROVE TrueMeansDone'
  OBVIOUS
<1> USE CommandFileAssumption
<1> USE DEF TypeOK, FlagsOK, ErredTells, UnerredTells, TrueMeansDone, Line, Marks, history, Fault
<1>1. CASE Run
  BY <1>1 DEF Run
<1>2. CASE SkipLine
  BY <1>2 DEF SkipLine
<1>3. CASE RefuseTornLine
  BY <1>3 DEF RefuseTornLine
<1>4. CASE DoCommand
  BY <1>4 DEF DoCommand, AtCommand
<1>5. CASE CommandFails
  BY <1>5 DEF CommandFails, AtCommand
<1>6. CASE BlockLine
  BY <1>6 DEF BlockLine
<1>7. CASE EndOfFile
  <2>1. /\ pc' = "closed" /\ pc = "reading" /\ pos = N + 1
        /\ UNCHANGED <<layout, mark, troubled>>
        /\ result' <=> ~erred
    BY <1>7 DEF EndOfFile, Return
  <2>2. ~troubled => (erred <=> \E i \in Line : layout[i] = "command" /\ mark[i] = "open")
    BY <2>1
  <2>3. \A i \in Line : mark[i] = "open" <=> mark[i] # "done"
    OBVIOUS
  <2>4. result' => \A i \in Line : i < pos /\ layout[i] = "command" => mark[i] = "done" \/ hit[i] > 0
    BY <2>1
  <2>5. UNCHANGED <<pos, hit>>
    BY <1>7 DEF EndOfFile
  <2> QED
    BY <2>1, <2>2, <2>3, <2>4, <2>5
<1>8. CASE RunRefused
  BY <1>8 DEF RunRefused
<1>9. CASE FputcFails
  BY <1>9 DEF FputcFails, Struck
<1>10. CASE FseekFails
  BY <1>10 DEF FseekFails, Struck
<1>11. CASE ReadErrorTakenForEnd
  BY <1>11 DEF ReadErrorTakenForEnd, Return
<1>12. CASE Crash
  BY <1>12 DEF Crash, Struck
<1>13. CASE UNCHANGED vars
  BY <1>13 DEF vars
<1> QED
  BY <1>1, <1>2, <1>3, <1>4, <1>5, <1>6, <1>7, <1>8, <1>9, <1>10, <1>11, <1>12, <1>13 DEF Next, Work, Trouble

LEMMA NextIInv == IInv /\ [Next]_vars => IInv'
BY TypeStep, MarkingStep, OnceStep, ErredStep, UnerredStep, ResultStep DEF IInv

\* The invariant holds of every reachable state.
THEOREM Invariant == Spec => []IInv
BY InitIInv, NextIInv, PTL DEF Spec

\* The variables keep their types.
THEOREM TypeCorrect == Spec => []TypeOK
BY Invariant, PTL DEF IInv

\* A command is executed once, and once more for each fault between its
\* execution and its mark, in files of any length.
THEOREM CommandIsDoneOnce == Spec => []OnceUnlessStruck
BY Invariant, PTL DEF IInv

\* What runCommandFile returns tells whether a command is left open; in a run
\* that a fault struck its true still vouches for what it has read.
THEOREM ResultTells == Spec => []TrueMeansDone
BY Invariant, PTL DEF IInv

LEMMA InitLedger == Init => Ledger!Init
BY DEF Init, Ledger!Init

LEMMA NextLedger == IInv /\ [Next]_vars => [Ledger!Next]_(Ledger!ledger)
<1> SUFFICES ASSUME IInv, [Next]_vars PROVE [Ledger!Next]_(Ledger!ledger)
  OBVIOUS
<1> USE CommandFileAssumption
<1>1. CASE DoCommand
  <2>1. pos \in Line /\ Ledger!Work(pos)
    BY <1>1 DEF DoCommand, AtCommand, IInv, TypeOK, Line, Ledger!Work
  <2> QED
    BY <2>1 DEF Ledger!Next
<1>2. ASSUME pc = "marking", mark' = [mark EXCEPT ![pos] = "done"], UNCHANGED applied
      PROVE  Ledger!Next
  <2>1. pos \in Line /\ Ledger!Mark(pos, "done")
    BY <1>2 DEF IInv, TypeOK, MarkingOK, Ledger!Mark
  <2> QED
    BY <2>1 DEF Ledger!Next, Marks
<1>3. CASE BlockLine
  BY <1>2, <1>3 DEF BlockLine, history
<1>4. CASE FseekFails
  BY <1>2, <1>4 DEF FseekFails, Ledger!ledger
<1>5. CASE \/ Run \/ SkipLine \/ RefuseTornLine \/ CommandFails \/ EndOfFile \/ RunRefused
           \/ FputcFails \/ ReadErrorTakenForEnd \/ Crash \/ UNCHANGED vars
  BY <1>5 DEF Run, SkipLine, RefuseTornLine, CommandFails, EndOfFile, RunRefused, FputcFails,
     ReadErrorTakenForEnd, Crash, vars, history, Ledger!ledger
<1> QED
  BY <1>1, <1>3, <1>4, <1>5 DEF Next, Work, Trouble

\* The command file implements the abstract ledger: no command is executed that
\* is blocked, and none blocked that was not executed.
THEOREM CommandFileKeepsLedger == Spec => LedgerSpec
<1>1. IInv /\ IInv' /\ [Next]_vars => [Ledger!Next]_(Ledger!ledger)
  BY NextLedger
<1> QED
  BY <1>1, InitLedger, Invariant, PTL DEF Spec, LedgerSpec, Ledger!Spec
=============================================================================
