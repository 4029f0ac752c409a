---------------------------- MODULE SpoolerProofs ----------------------------
(***************************************************************************)
(* Proofs about module Spooler, for all input files, directories,          *)
(* configurations, outcomes and bounds that satisfy its assumptions.       *)
(***************************************************************************)
EXTENDS Spooler, FiniteSetTheorems, TLAPS

\* The states of the process with a file in hand, with a state to send it to,
\* and with the new file made.
InHand == {"process", "create", "openin", "copy", "unlink"}
Moving == {"create", "openin", "copy", "unlink"}
Made   == {"openin", "copy", "unlink"}

\* While the process walks, a descriptor is free for the directory, and two
\* more while it copies.
Descriptors ==
    /\ pc \in InHand \cup {"walk"} => leaked < MaxFds
    /\ pc = "copy" => leaked + 3 <= MaxFds

\* What the process knows of the file in hand and of its copy.
HandOK ==
    /\ pc \in InHand => cur \in File /\ Present(cur) /\ cur.place \in Sees[phase]
    /\ pc = "process" => phase = "Spool"
    /\ pc \in Moving => target \in config /\ (target = "Backup" => phase = "Pending")
    /\ pc \in Made =>
          /\ dest \in File /\ dest # cur
          /\ dest.place = Lands[target] /\ dest.src = cur.src
          /\ Present(dest) /\ disk[dest] <= disk[cur]
    /\ pc = "unlink" =>
          /\ target # "Backup"
          /\ cur.src \notin misread => disk[dest] = disk[cur]

\* Files descend from what was delivered, and strikes are faults.
Histories ==
    /\ \A x \in File : Present(x) => x.src \in arrived
    /\ \A f \in Sources : hit[f] <= faults

IInv == TypeOK /\ Descriptors /\ HandOK /\ Histories
-----------------------------------------------------------------------------
LEMMA InitIInv == Init => IInv
BY BoundsAssumption DEF Init, IInv, TypeOK, Descriptors, HandOK, Histories, Present, InHand, Moving, Made, PCs, SpoolState

LEMMA NextIInv == IInv /\ [Next]_vars => IInv'
<1> SUFFICES ASSUME IInv, [Next]_vars PROVE IInv'
  OBVIOUS
<1> USE BoundsAssumption, ConfigAssumption
<1> USE DEF IInv, TypeOK, Descriptors, HandOK, Histories, Present, InHand, Moving, Made, PCs, SpoolState, vars, dirVars, handVars, history,
            NoFault, Fault, DropHand, NextEntry, LeavePhase, GiveUp
<1>1. ASSUME NEW f \in Sources, Deliver(f) PROVE IInv'
  <2>1. Delivered(f) \in File /\ Delivered(f).src = f
    BY <1>1 DEF Delivered, File
  <2>2. TypeOK'
    BY <1>1, <2>1 DEF Deliver
  <2>3. Descriptors'
    BY <1>1 DEF Deliver
  <2>4. HandOK'
    BY <1>1, <2>1 DEF Deliver
  <2>5. Histories'
    BY <1>1, <2>1 DEF Deliver
  <2>6. QED
    BY <2>2, <2>3, <2>4, <2>5
<1>2. CASE RunSpooler
  BY <1>2 DEF RunSpooler
<1>3. CASE NoDirectoryConfig
  BY <1>3 DEF NoDirectoryConfig
<1>4. CASE OpenDir
  BY <1>4 DEF OpenDir, Visible
<1>5. CASE EndOfDir
  BY <1>5 DEF EndOfDir
<1>6. ASSUME NEW x \in File, ReadPending(x) PROVE IInv'
  BY <1>6 DEF ReadPending, SendTo, Unread
<1>7. ASSUME NEW x \in File, ReadSpool(x) PROVE IInv'
  BY <1>7 DEF ReadSpool, Unread
<1>8. ASSUME NEW next \in Outcomes, Process(next) PROVE IInv'
  BY <1>8 DEF Process, SendTo
<1>9. CASE CreateDest
  <2>1. PICK x \in FreeNames(cur.src, target) :
          disk' = [disk EXCEPT ![x] = 0] /\ dest' = x
    BY <1>9 DEF CreateDest
  <2>2. /\ x \in File /\ x.place = Lands[target] /\ x.src = cur.src /\ ~Present(x)
        /\ cur \in File /\ Present(cur) /\ x # cur
    BY <1>9 DEF CreateDest, FreeNames
  <2>3. /\ disk' \in [File -> -1..Lines] /\ disk'[x] = 0
        /\ \A y \in File : y # x => disk'[y] = disk[y]
    BY <2>1, <2>2
  <2>4. TypeOK'
    BY <1>9, <2>1, <2>2, <2>3 DEF CreateDest
  <2>5. Descriptors'
    BY <1>9 DEF CreateDest
  <2>6. HandOK'
    BY <1>9, <2>1, <2>2, <2>3 DEF CreateDest
  <2>7. Histories'
    BY <1>9, <2>2, <2>3 DEF CreateDest
  <2>8. QED
    BY <2>4, <2>5, <2>6, <2>7
<1>10. CASE OpenSource
  BY <1>10 DEF OpenSource
<1>11. CASE CopyLine
  BY <1>11 DEF CopyLine
<1>12. CASE EndOfFile
  BY <1>12 DEF EndOfFile, CopyDone, SendTo, BackingUp
<1>13. CASE Unlink
  BY <1>13 DEF Unlink
<1>14. CASE OpenDirFails
  BY <1>14 DEF OpenDirFails
<1>15. CASE CreateDestFails
  BY <1>15 DEF CreateDestFails, CopyFails
<1>16. CASE OpenSourceFails
  BY <1>16 DEF OpenSourceFails, CopyFails
<1>17. CASE CopyLineFails
  BY <1>17 DEF CopyLineFails, CopyFails
<1>18. CASE ReadErrorTakenForEnd
  BY <1>18 DEF ReadErrorTakenForEnd, CopyDone, SendTo, BackingUp
<1>19. CASE UnlinkFails
  BY <1>19 DEF UnlinkFails
<1>20. CASE Crash
  <2>1. TypeOK'
    <3>1. CASE cur \in File
      <4>1. cur.src \in Sources
        BY <3>1 DEF File
      <4>2. QED
        BY <1>20, <3>1, <4>1 DEF Crash
    <3>2. CASE cur \notin File
      BY <1>20, <3>2 DEF Crash
    <3>3. QED
      BY <3>1, <3>2
  <2>2. Descriptors' /\ HandOK' /\ Histories'
    BY <1>20 DEF Crash
  <2>3. QED
    BY <2>1, <2>2
<1>21. CASE UNCHANGED vars
  BY <1>21
<1> HIDE DEF IInv, vars
<1>22. QED
  BY <1>1, <1>2, <1>3, <1>4, <1>5, <1>6, <1>7, <1>8, <1>9, <1>10, <1>11, <1>12, <1>13, <1>14, <1>15, <1>16, <1>17, <1>18, <1>19, <1>20, <1>21 DEF Next, Run, Trouble

LEMMA SpecIInv == Spec => []IInv
BY InitIInv, NextIInv, PTL DEF Spec

-----------------------------------------------------------------------------
(* Only four steps touch the files, and none takes a misread source back.  *)

LEMMA FileSteps ==
    ASSUME IInv, [Next]_vars
    PROVE  /\ misread \subseteq misread' /\ config' = config
           /\ \/ UNCHANGED <<disk, arrived, config>>
              \/ \E f \in Sources : Deliver(f)
              \/ CreateDest \/ CopyLine \/ Unlink
BY DEF Next, Run, Trouble, vars, history, NoFault, Fault, Deliver, RunSpooler,
       NoDirectoryConfig, OpenDir, EndOfDir, ReadPending, ReadSpool, Process, CreateDest,
       OpenSource, CopyLine, EndOfFile, Unlink, OpenDirFails, CreateDestFails,
       OpenSourceFails, CopyLineFails, ReadErrorTakenForEnd, UnlinkFails, Crash

\* The new file of CreateDest; the other files stay as they are.
LEMMA CreateDestEffect ==
    ASSUME IInv, CreateDest
    PROVE  \E x \in File :
             /\ x.place = Lands[target] /\ x.src = cur.src /\ disk[x] = -1 /\ x # cur
             /\ disk' \in [File -> -1..Lines] /\ disk' = [disk EXCEPT ![x] = 0]
<1>1. PICK x \in FreeNames(cur.src, target) : disk' = [disk EXCEPT ![x] = 0]
  BY DEF CreateDest
<1>2. /\ x \in File /\ x.place = Lands[target] /\ x.src = cur.src /\ ~Present(x)
      /\ Present(cur)
  BY DEF FreeNames, IInv, HandOK, InHand, CreateDest
<1>3. disk \in [File -> -1..Lines] /\ Lines \in Nat
  BY BoundsAssumption DEF IInv, TypeOK
<1>4. disk[x] = -1 /\ x # cur /\ disk' \in [File -> -1..Lines]
  BY <1>1, <1>2, <1>3 DEF Present
<1>5. QED
  BY <1>1, <1>2, <1>4

\* CopyLine adds a line to a file that holds fewer than the file in hand.
LEMMA CopyLineEffect ==
    ASSUME IInv, CopyLine
    PROVE  /\ disk \in [File -> -1..Lines] /\ dest \in File
           /\ 0 <= disk[dest] /\ disk[dest] < Lines
           /\ disk' = [disk EXCEPT ![dest] = disk[dest] + 1]
BY BoundsAssumption DEF IInv, TypeOK, HandOK, InHand, Moving, Made, CopyLine, Present

\* Unlink removes a file whose copy, elsewhere, holds as much.
LEMMA UnlinkEffect ==
    ASSUME IInv, Unlink
    PROVE  /\ disk \in [File -> -1..Lines]
           /\ cur \in File /\ dest \in File /\ dest # cur /\ dest.src = cur.src
           /\ cur.place \in Sees[phase] /\ phase \in {"Pending", "Spool"}
           /\ dest.place = Lands[target] /\ target \in SpoolState \ {"Backup"}
           /\ cur.src \notin misread => disk[dest] = disk[cur]
           /\ disk' = [disk EXCEPT ![cur] = -1]
           /\ misread' = misread
BY DEF IInv, TypeOK, HandOK, InHand, Moving, Made, Unlink, NoFault, history

\* Deliver makes a complete file in the inbox.
LEMMA DeliverEffect ==
    ASSUME IInv, NEW f \in Sources, Deliver(f)
    PROVE  /\ Delivered(f) \in File /\ disk[Delivered(f)] = -1
           /\ disk \in [File -> -1..Lines]
           /\ disk' = [disk EXCEPT ![Delivered(f)] = Lines]
           /\ arrived' = arrived \cup {f} /\ misread' = misread
<1>1. Delivered(f) \in File /\ Delivered(f).src = f
  BY BoundsAssumption, ConfigAssumption DEF Delivered, File
<1>2. disk \in [File -> -1..Lines] /\ Lines \in Nat
  BY BoundsAssumption DEF IInv, TypeOK
<1>3. disk[Delivered(f)] = -1
  BY <1>1, <1>2 DEF IInv, Histories, Deliver, Present
<1>4. QED
  BY <1>1, <1>2, <1>3 DEF Deliver, history

-----------------------------------------------------------------------------
\* Every state of the spooler is of its type.
THEOREM TypeCorrect == Spec => []TypeOK
BY SpecIInv, PTL DEF IInv

\* moveFile loses no input file: whatever fails, each one delivered keeps a
\* complete copy outside the backup directory, unless a read error took part.
THEOREM NothingIsLost == Spec => []NoLoss
<1>1. Init => NoLoss
  BY DEF Init, NoLoss
<1>2. ASSUME IInv, NoLoss, [Next]_vars PROVE NoLoss'
  <2> SUFFICES ASSUME NEW f \in arrived' \ misread' PROVE Kept(f)'
    BY DEF NoLoss
  <2>1. f \notin misread /\ disk \in [File -> -1..Lines] /\ Lines \in Nat \ {0}
    BY <1>2, FileSteps, BoundsAssumption DEF IInv, TypeOK
  <2>2. CASE UNCHANGED <<disk, arrived, config>>
    BY <1>2, <2>1, <2>2 DEF NoLoss, Kept
  <2>3. ASSUME NEW g \in Sources, Deliver(g) PROVE Kept(f)'
    <3>1. /\ Delivered(g) \in File /\ disk[Delivered(g)] = -1
          /\ disk' = [disk EXCEPT ![Delivered(g)] = Lines]
          /\ arrived' = arrived \cup {g}
      BY <1>2, <2>3, DeliverEffect
    <3>2. CASE f = g
      <4>1. disk'[Delivered(g)] = Lines /\ Delivered(g).src = f
        BY <2>1, <3>1, <3>2 DEF Delivered
      <4>2. Delivered(g).place # Lands["Backup"]
        BY ApartAssumption DEF Delivered
      <4>3. QED
        BY <3>1, <4>1, <4>2 DEF Kept
    <3>3. CASE f # g
      BY <1>2, <2>1, <3>1, <3>3 DEF NoLoss, Kept
    <3>4. QED
      BY <3>2, <3>3
  <2>4. CASE CreateDest
    <3>1. PICK x \in File : disk[x] = -1 /\ disk' = [disk EXCEPT ![x] = 0]
      BY <1>2, <2>4, CreateDestEffect
    <3>2. f \in arrived
      BY <2>4 DEF CreateDest
    <3>3. PICK y \in File : y.src = f /\ disk[y] = Lines /\ y.place # Lands["Backup"]
      BY <1>2, <2>1, <3>2 DEF NoLoss, Kept
    <3>4. disk'[y] = Lines
      BY <2>1, <3>1, <3>3
    <3>5. QED
      BY <3>3, <3>4 DEF Kept
  <2>5. CASE CopyLine
    BY <1>2, <2>1, <2>5, CopyLineEffect DEF NoLoss, Kept, CopyLine
  <2>6. CASE Unlink
    <3>1. PICK x \in File : x.src = f /\ disk[x] = Lines /\ x.place # Lands["Backup"]
      BY <1>2, <2>1, <2>6 DEF NoLoss, Kept, Unlink
    <3>2. CASE x = cur
      <4>1. /\ dest \in File /\ dest.src = f /\ disk'[dest] = Lines
            /\ dest.place # Lands["Backup"]
        BY <1>2, <2>1, <2>6, <3>1, <3>2, UnlinkEffect, ApartAssumption
      <4>2. QED
        BY <4>1 DEF Kept, Unlink
    <3>3. CASE x # cur
      BY <1>2, <2>1, <2>6, <3>1, <3>3, UnlinkEffect DEF Kept
    <3>4. QED
      BY <3>2, <3>3
  <2>7. QED
    BY <1>2, <2>2, <2>3, <2>4, <2>5, <2>6, FileSteps
<1>3. QED
  BY <1>1, <1>2, SpecIInv, PTL DEF Spec

\* No step truncates a file or removes it before another holds as much: names
\* are never reused over a live file, and unlink follows a whole copy only.
THEOREM NothingIsOverwritten == Spec => NothingOverwritten
<1>1. ASSUME IInv, [Next]_vars, NEW y \in File PROVE Outlived(y)
  <2>1. disk \in [File -> -1..Lines] /\ Lines \in Nat
    BY <1>1, BoundsAssumption DEF IInv, TypeOK
  <2>2. CASE UNCHANGED <<disk, arrived, config>>
    BY <2>1, <2>2 DEF Outlived
  <2>3. ASSUME NEW g \in Sources, Deliver(g) PROVE Outlived(y)
    <3>1. disk' = [disk EXCEPT ![Delivered(g)] = Lines]
      BY <1>1, <2>3, DeliverEffect
    <3>2. QED
      BY <1>1, <2>1, <3>1 DEF Outlived
  <2>4. CASE CreateDest
    BY <1>1, <2>1, <2>4, CreateDestEffect DEF Outlived
  <2>5. CASE CopyLine
    BY <1>1, <2>1, <2>5, CopyLineEffect DEF Outlived
  <2>6. CASE Unlink
    <3>1. CASE y = cur /\ cur.src \notin misread
      BY <1>1, <2>1, <2>6, <3>1, UnlinkEffect DEF Outlived
    <3>2. CASE y = cur /\ cur.src \in misread
      BY <1>1, <2>1, <2>6, <3>2, UnlinkEffect DEF Outlived
    <3>3. CASE y # cur
      BY <1>1, <2>1, <2>6, <3>3, UnlinkEffect DEF Outlived
    <3>4. QED
      BY <3>1, <3>2, <3>3
  <2>7. QED
    BY <1>1, <2>2, <2>3, <2>4, <2>5, <2>6, FileSteps
<1>2. IInv /\ [Next]_vars => [\A x \in File : Outlived(x)]_vars
  BY <1>1
<1>3. QED
  BY <1>2, SpecIInv, PTL DEF Spec, NothingOverwritten

-----------------------------------------------------------------------------
(* The backup comes first.  A file outside the backup directory either has *)
(* its backup or is still the input file as it was delivered, and what is  *)
(* about to be moved has its backup.                                       *)

Backed ==
    \A x \in File :
        (Present(x) /\ x.place # Lands["Backup"] /\ x.src \notin misread)
          => HasBackup(x.src) \/ (x.place = Inbox /\ disk[x] = Lines)
HandBacked ==
    (pc \in Moving /\ target # "Backup" /\ cur.src \notin misread) => HasBackup(cur.src)
BackupInv == "Backup" \in config => Backed /\ HandBacked

\* A complete backup stays.
LEMMA BackupStays ==
    ASSUME IInv, [Next]_vars, NEW f, HasBackup(f)
    PROVE  HasBackup(f)'
<1>1. PICK x \in File : x.src = f /\ disk[x] = Lines /\ x.place = Lands["Backup"]
  BY DEF HasBackup
<1>2. disk \in [File -> -1..Lines] /\ Lines \in Nat \ {0}
  BY BoundsAssumption DEF IInv, TypeOK
<1>3. disk'[x] = Lines
  <2>1. CASE UNCHANGED <<disk, arrived, config>>
    BY <1>1, <2>1
  <2>2. ASSUME NEW g \in Sources, Deliver(g) PROVE disk'[x] = Lines
    BY <1>1, <1>2, <2>2, DeliverEffect
  <2>3. CASE CreateDest
    BY <1>1, <1>2, <2>3, CreateDestEffect
  <2>4. CASE CopyLine
    BY <1>1, <1>2, <2>4, CopyLineEffect
  <2>5. CASE Unlink
    BY <1>1, <1>2, <2>5, UnlinkEffect, ApartAssumption
  <2>6. QED
    BY <2>1, <2>2, <2>3, <2>4, <2>5, FileSteps
<1>4. QED
  BY <1>1, <1>3 DEF HasBackup

LEMMA BackedStep ==
    ASSUME IInv, [Next]_vars, Backed, HandBacked
    PROVE  Backed'
<1> SUFFICES ASSUME NEW y \in File, Present(y)', y.place # Lands["Backup"],
                    y.src \notin misread'
             PROVE  HasBackup(y.src)' \/ (y.place = Inbox /\ disk'[y] = Lines)
  BY DEF Backed
<1>1. y.src \notin misread /\ disk \in [File -> -1..Lines] /\ Lines \in Nat \ {0}
  BY FileSteps, BoundsAssumption DEF IInv, TypeOK
<1>2. ASSUME disk'[y] = disk[y]
      PROVE  HasBackup(y.src)' \/ (y.place = Inbox /\ disk'[y] = Lines)
  BY <1>1, <1>2, BackupStays DEF Backed, Present
<1>3. CASE UNCHANGED <<disk, arrived, config>>
  BY <1>2, <1>3
<1>4. ASSUME NEW g \in Sources, Deliver(g)
      PROVE  HasBackup(y.src)' \/ (y.place = Inbox /\ disk'[y] = Lines)
  <2>1. Delivered(g).place = Inbox /\ disk' = [disk EXCEPT ![Delivered(g)] = Lines]
    BY <1>4, DeliverEffect DEF Delivered
  <2>2. CASE y = Delivered(g)
    BY <1>1, <2>1, <2>2
  <2>3. CASE y # Delivered(g)
    BY <1>1, <1>2, <2>1, <2>3
  <2>4. QED
    BY <2>2, <2>3
<1>5. CASE CreateDest
  <2>1. PICK x \in File : /\ x.place = Lands[target] /\ x.src = cur.src
                          /\ disk' = [disk EXCEPT ![x] = 0]
    BY <1>5, CreateDestEffect
  <2>2. CASE y = x
    <3>1. HasBackup(y.src)
      BY <1>1, <1>5, <2>1, <2>2 DEF HandBacked, CreateDest, Moving
    <3>2. QED
      BY <3>1, BackupStays
  <2>3. CASE y # x
    BY <1>1, <1>2, <2>1, <2>3
  <2>4. QED
    BY <2>2, <2>3
<1>6. CASE CopyLine
  <2>1. disk' = [disk EXCEPT ![dest] = disk[dest] + 1]
    BY <1>6, CopyLineEffect
  <2>2. CASE y = dest
    <3>1. HasBackup(y.src)
      BY <1>1, <1>6, <2>2 DEF HandBacked, CopyLine, Moving, Made, IInv, HandOK
    <3>2. QED
      BY <3>1, BackupStays
  <2>3. CASE y # dest
    BY <1>1, <1>2, <2>1, <2>3
  <2>4. QED
    BY <2>2, <2>3
<1>7. CASE Unlink
  <2>1. disk' = [disk EXCEPT ![cur] = -1]
    BY <1>7, UnlinkEffect
  <2>2. y # cur
    BY <1>1, <2>1 DEF Present
  <2>3. QED
    BY <1>1, <1>2, <2>1, <2>2
<1>8. QED
  BY <1>3, <1>4, <1>5, <1>6, <1>7, FileSteps

LEMMA HandBackedStep ==
    ASSUME IInv, [Next]_vars, "Backup" \in config, Backed, HandBacked
    PROVE  HandBacked'
<1> SUFFICES ASSUME (pc \in Moving /\ target # "Backup")', (cur.src \notin misread)'
             PROVE  HasBackup(cur.src)'
  BY DEF HandBacked
<1>1. ASSUME cur' = cur, HasBackup(cur.src) PROVE HasBackup(cur.src)'
  BY <1>1, BackupStays DEF HasBackup
<1>2. ASSUME cur' = cur, target' = target, pc \in Moving PROVE HasBackup(cur.src)'
  BY <1>1, <1>2, FileSteps DEF HandBacked
<1>3. ASSUME NEW x \in File, ReadPending(x) PROVE FALSE
  BY <1>3, FileSteps DEF ReadPending, SendTo, GiveUp, Moving
<1>4. ASSUME NEW next \in Outcomes, Process(next) PROVE HasBackup(cur.src)'
  <2>1. cur' = cur /\ cur \in File /\ Present(cur) /\ cur.place \in Sees["Spool"]
    BY <1>4 DEF Process, SendTo, GiveUp, NextEntry, DropHand, Moving, IInv, HandOK, InHand
  <2>2. cur.place # Inbox /\ cur.place # Lands["Backup"]
    BY <2>1, ApartAssumption
  <2>3. HasBackup(cur.src)
    BY <2>1, <2>2, FileSteps DEF Backed
  <2>4. QED
    BY <1>1, <2>1, <2>3
<1>5. CASE EndOfFile
  <2>1. /\ cur' = cur /\ cur \in File /\ dest \in File /\ dest.src = cur.src
        /\ Present(cur) /\ cur.place \in Sees[phase] /\ phase \in {"Pending", "Spool"}
        /\ dest.place = Lands[target] /\ disk[dest] = disk[cur]
    BY <1>5 DEF EndOfFile, CopyDone, SendTo, GiveUp, handVars, Moving, Made, InHand, IInv,
                HandOK, TypeOK
  <2>2. CASE target = "Backup"
    <3>1. cur.place # Lands["Backup"]
      BY <2>1, ApartAssumption
    <3>2. HasBackup(cur.src) \/ disk[cur] = Lines
      BY <2>1, <3>1, FileSteps DEF Backed
    <3>3. HasBackup(cur.src)
      BY <2>1, <2>2, <3>2 DEF HasBackup
    <3>4. QED
      BY <1>1, <2>1, <3>3
  <2>3. CASE target # "Backup"
    <3>1. cur.src \notin misread /\ pc \in Moving
      BY <1>5, <2>1, FileSteps DEF EndOfFile, Moving
    <3>2. QED
      BY <1>1, <2>1, <2>3, <3>1 DEF HandBacked
  <2>4. QED
    BY <2>2, <2>3
<1>6. CASE ReadErrorTakenForEnd
  <2>1. cur' = cur /\ cur.src \in misread'
    BY <1>6 DEF ReadErrorTakenForEnd, CopyDone, SendTo, GiveUp, handVars, Moving
  <2>2. QED
    BY <2>1
<1>7. \/ cur' = cur /\ target' = target /\ pc \in Moving
      \/ \E x \in File : ReadPending(x)
      \/ \E next \in Outcomes : Process(next)
      \/ EndOfFile \/ ReadErrorTakenForEnd
  BY DEF Next, Run, Trouble, vars, handVars, Moving, Deliver, RunSpooler,
         NoDirectoryConfig, GiveUp, OpenDir, OpenDirFails, LeavePhase, DropHand, ReadSpool,
         EndOfDir, CreateDest, CreateDestFails, CopyFails, NextEntry, OpenSource,
         OpenSourceFails, CopyLine, CopyLineFails, Unlink, UnlinkFails, Crash
<1>8. QED
  BY <1>2, <1>3, <1>4, <1>5, <1>6, <1>7

\* With a backup directory configured nothing gets past Pending before a whole
\* copy of its input is in the backup directory, where it stays.
THEOREM BackupComesFirst == Spec => []BackupFirst
<1>1. Init => BackupInv
  BY DEF Init, BackupInv, Backed, HandBacked, Present, Moving
<1>2. IInv /\ [Next]_vars /\ BackupInv => BackupInv'
  BY FileSteps, BackedStep, HandBackedStep DEF BackupInv
<1>3. IInv /\ BackupInv => BackupFirst
  BY DEF BackupInv, Backed, BackupFirst
<1>4. QED
  BY <1>1, <1>2, <1>3, SpecIInv, PTL DEF Spec

-----------------------------------------------------------------------------
(* Nothing is processed twice without a fault.  What has been processed    *)
(* and what waits to be is one for each delivery and one for each fault,   *)
(* and one more while a file is in two places or on its way out.           *)

\* The places a walk visits, and the files of f that lie there.
Walked == UNION {Sees[ph] : ph \in {"Pending", "Spool"}}
Waiting(f) == {x \in File : x.src = f /\ Present(x) /\ x.place \in Walked}

\* A configuration that moves every processed file on, to where no walk goes.
Forward ==
    /\ Outcomes \subseteq SpoolState \ {"Spool"}
    /\ \A c \in Configs : "Spool" \in c /\ Outcomes \subseteq c
    /\ \A s \in Outcomes : Lands[s] \notin Walked

\* Names and descriptors last.
Lasting == ~Exhausted /\ (pc = "create" => FreeNames(cur.src, target) # {})

\* Where a file in hand is on its way to.
Heading ==
    pc \in Moving => target \in (IF phase = "Spool" THEN Outcomes ELSE {"Backup", "Spool"})

\* f counts twice: processed and not yet gone, or in both directories.
Twofold(f) ==
    /\ cur.src = f
    /\ \/ phase = "Spool" /\ pc \in Moving
       \/ phase = "Pending" /\ pc \in Made /\ target = "Spool"

One(b) == IF b THEN 1 ELSE 0

Fitting(f) == \A s \in SpoolState : <<f, s>> \notin TooLong

Balance(f) ==
    /\ IsFiniteSet(Waiting(f))
    /\ worked[f] + Cardinality(Waiting(f)) <= One(f \in arrived) + hit[f] + One(Twofold(f))

Balanced == \A f \in Sources : Fitting(f) => Balance(f)

LEMMA HeadingStep ==
    ASSUME IInv, Heading, Forward, [Next]_vars PROVE Heading'
<1> USE DEF Heading, Moving
<1>1. ASSUME NEW x \in File, ReadPending(x) PROVE Heading'
  BY <1>1 DEF ReadPending, SendTo, GiveUp
<1>2. ASSUME NEW next \in Outcomes, Process(next) PROVE Heading'
  BY <1>2 DEF Process, SendTo, GiveUp, NextEntry, Forward, IInv, HandOK
<1>3. CASE EndOfFile \/ ReadErrorTakenForEnd
  BY <1>3 DEF EndOfFile, ReadErrorTakenForEnd, CopyDone, BackingUp, SendTo, GiveUp, dirVars, handVars
<1>4. \/ pc' \notin Moving
      \/ pc \in Moving /\ UNCHANGED <<phase, target>>
      \/ \E x \in File : ReadPending(x)
      \/ \E next \in Outcomes : Process(next)
      \/ EndOfFile \/ ReadErrorTakenForEnd
  BY DEF Next, Run, Trouble, vars, dirVars, handVars, Deliver, RunSpooler,
         NoDirectoryConfig, GiveUp, OpenDir, OpenDirFails, LeavePhase, ReadSpool,
         EndOfDir, CreateDest, CreateDestFails, CopyFails, NextEntry, OpenSource,
         OpenSourceFails, CopyLine, CopyLineFails, Unlink, UnlinkFails, Crash
<1> QED
  BY <1>1, <1>2, <1>3, <1>4

-----------------------------------------------------------------------------
\* What a change of one file means for the files that wait.
LEMMA Waits ==
    ASSUME disk \in [File -> -1..Lines], Lines \in Nat, NEW f, NEW x \in File,
           NEW v \in -1..Lines, disk' = [disk EXCEPT ![x] = v]
    PROVE  /\ x.src # f \/ x.place \notin Walked => Waiting(f)' = Waiting(f)
           /\ v = -1 => Waiting(f)' = Waiting(f) \ {x}
           /\ x.src = f /\ x.place \in Walked /\ v >= 0 => Waiting(f)' = Waiting(f) \cup {x}
<1>1. \A y \in File : y # x => disk'[y] = disk[y]
  OBVIOUS
<1>2. disk'[x] = v /\ v \in Int
  OBVIOUS
<1>3. Walked' = Walked
  BY DEF Walked
<1>4. Waiting(f)' = {y \in File : y.src = f /\ disk'[y] >= 0 /\ y.place \in Walked}
  BY <1>3 DEF Waiting, Present
<1>5. Waiting(f) = {y \in File : y.src = f /\ disk[y] >= 0 /\ y.place \in Walked}
  BY DEF Waiting, Present
<1> QED
  BY <1>1, <1>2, <1>4, <1>5

\* One more, at most.
LEMMA OneMore ==
    ASSUME NEW S, IsFiniteSet(S), NEW x, NEW T, T = S \/ T = S \cup {x}
    PROVE  /\ IsFiniteSet(T) /\ Cardinality(S) \in Nat /\ Cardinality(T) \in Nat
           /\ Cardinality(T) <= Cardinality(S) + 1
<1>1. Cardinality(S) \in Nat
  BY FS_CardinalityType
<1>2. IsFiniteSet(S \cup {x}) /\ Cardinality(S \cup {x}) \in {Cardinality(S), Cardinality(S) + 1}
  BY FS_AddElement
<1> QED
  BY <1>1, <1>2

LEMMA OneLess ==
    ASSUME NEW S, IsFiniteSet(S), NEW x
    PROVE  /\ IsFiniteSet(S \ {x}) /\ Cardinality(S) \in Nat /\ Cardinality(S \ {x}) \in Nat
           /\ Cardinality(S \ {x}) = IF x \in S THEN Cardinality(S) - 1 ELSE Cardinality(S)
BY FS_RemoveElement, FS_CardinalityType

LEMMA CountTypes ==
    ASSUME IInv, NEW f \in Sources, IsFiniteSet(Waiting(f))
    PROVE  /\ Cardinality(Waiting(f)) \in Nat /\ worked[f] \in Nat /\ hit[f] \in Nat
           /\ One(f \in arrived) \in {0, 1} /\ One(Twofold(f)) \in {0, 1}
BY FS_CardinalityType, BoundsAssumption DEF IInv, TypeOK, One

\* Where no file comes or goes and none is processed.
LEMMA Plain ==
    ASSUME IInv, IInv', NEW f \in Sources, Balance(f), Waiting(f)' = Waiting(f),
           UNCHANGED <<arrived, worked>>,
           \/ hit'[f] = hit[f] /\ (Twofold(f) => Twofold(f)')
           \/ hit'[f] = hit[f] + 1
    PROVE  Balance(f)'
<1>1. /\ Cardinality(Waiting(f)) \in Nat /\ worked[f] \in Nat /\ hit[f] \in Nat
      /\ One(f \in arrived) \in {0, 1} /\ One(Twofold(f)) \in {0, 1}
  BY CountTypes DEF Balance
<1>2. One(f \in arrived)' = One(f \in arrived) /\ One(Twofold(f))' \in {0, 1}
  BY DEF One
<1>3. hit[f] + One(Twofold(f)) <= hit'[f] + One(Twofold(f))'
  BY <1>1, <1>2 DEF One
<1> QED
  BY <1>1, <1>2, <1>3 DEF Balance

LEMMA DeliverBalance ==
    ASSUME IInv, NEW f \in Sources, Balance(f), NEW g \in Sources, Deliver(g)
    PROVE  Balance(f)'
<1>1. /\ Delivered(g) \in File /\ Delivered(g).src = g /\ g \notin arrived
      /\ disk \in [File -> -1..Lines] /\ Lines \in Nat
      /\ disk' = [disk EXCEPT ![Delivered(g)] = Lines] /\ arrived' = arrived \cup {g}
  BY DeliverEffect, BoundsAssumption DEF Deliver, Delivered
<1>2. UNCHANGED <<hit, worked, pc, phase, cur, target>>
  BY DEF Deliver, dirVars, handVars, history
<1>3. Waiting(f)' = Waiting(f) \/ (f = g /\ Waiting(f)' = Waiting(f) \cup {Delivered(g)})
  <2>1. Lines \in -1..Lines /\ Lines >= 0
    BY <1>1
  <2> QED
    BY <1>1, <2>1, Waits
<1>4. /\ Cardinality(Waiting(f)) \in Nat /\ worked[f] \in Nat /\ hit[f] \in Nat
      /\ One(f \in arrived) \in {0, 1} /\ One(Twofold(f)) \in {0, 1}
  BY CountTypes DEF Balance
<1>5. One(Twofold(f))' = One(Twofold(f))
  BY <1>2 DEF Twofold
<1>6. CASE Waiting(f)' = Waiting(f)
  <2>1. One(f \in arrived)' >= One(f \in arrived) /\ One(f \in arrived)' \in {0, 1}
    BY <1>1, <1>4 DEF One
  <2> QED
    BY <1>2, <1>4, <1>5, <1>6, <2>1 DEF Balance
<1>7. CASE f = g /\ Waiting(f)' = Waiting(f) \cup {Delivered(g)}
  <2>1. One(f \in arrived)' = 1 /\ One(f \in arrived) = 0
    BY <1>1, <1>7 DEF One
  <2>2. /\ IsFiniteSet(Waiting(f)') /\ Cardinality(Waiting(f)') \in Nat
        /\ Cardinality(Waiting(f)') <= Cardinality(Waiting(f)) + 1
    BY <1>7, OneMore DEF Balance
  <2> QED
    BY <1>2, <1>4, <1>5, <2>1, <2>2 DEF Balance
<1> QED
  BY <1>3, <1>6, <1>7

LEMMA CreateDestBalance ==
    ASSUME IInv, Heading, Forward, NEW f \in Sources, Balance(f), CreateDest
    PROVE  Balance(f)'
<1>1. PICK x \in File : /\ x.place = Lands[target] /\ x.src = cur.src
                        /\ disk' = [disk EXCEPT ![x] = 0]
  BY CreateDestEffect
<1>2. disk \in [File -> -1..Lines] /\ Lines \in Nat /\ 0 \in -1..Lines
  BY BoundsAssumption DEF IInv, TypeOK
<1>3. /\ pc = "create" /\ pc' = "openin"
      /\ UNCHANGED <<arrived, hit, worked, phase, cur, target>>
  BY DEF CreateDest, NoFault, dirVars, history
<1>4. /\ Cardinality(Waiting(f)) \in Nat /\ worked[f] \in Nat /\ hit[f] \in Nat
      /\ One(f \in arrived) \in {0, 1} /\ One(Twofold(f)) \in {0, 1}
  BY CountTypes DEF Balance
<1>5. One(f \in arrived)' = One(f \in arrived)
  BY <1>3 DEF One
<1>6. One(Twofold(f)) <= One(Twofold(f))' /\ One(Twofold(f))' \in {0, 1}
  BY <1>3 DEF One, Twofold, Moving, Made
<1>7. CASE x.src # f \/ x.place \notin Walked
  <2>1. Waiting(f)' = Waiting(f)
    BY <1>1, <1>2, <1>7, Waits
  <2> QED
    BY <1>3, <1>4, <1>5, <1>6, <2>1 DEF Balance
<1>8. CASE x.src = f /\ x.place \in Walked
  <2>1. Waiting(f)' = Waiting(f) \cup {x}
    <3>1. 0 >= 0
      OBVIOUS
    <3> QED
      BY <1>1, <1>2, <1>8, <3>1, Waits
  <2>2. /\ IsFiniteSet(Waiting(f)') /\ Cardinality(Waiting(f)') \in Nat
        /\ Cardinality(Waiting(f)') <= Cardinality(Waiting(f)) + 1
    BY <2>1, OneMore DEF Balance
  <2>3. phase = "Pending" /\ target = "Spool"
    <3>1. Lands["Backup"] \notin Walked
      BY ApartAssumption DEF Walked
    <3> QED
      BY <1>1, <1>3, <1>8, <3>1 DEF Heading, Moving, Forward, IInv, TypeOK
  <2>4. ~Twofold(f) /\ Twofold(f)'
    BY <1>1, <1>3, <1>8, <2>3 DEF Twofold, Made, Moving
  <2>5. One(Twofold(f)) = 0 /\ One(Twofold(f))' = 1
    BY <2>4 DEF One
  <2> QED
    BY <1>3, <1>4, <1>5, <2>2, <2>5 DEF Balance
<1> QED
  BY <1>7, <1>8

LEMMA CopyLineBalance ==
    ASSUME IInv, IInv', NEW f \in Sources, Balance(f), CopyLine
    PROVE  Balance(f)'
<1>1. /\ disk \in [File -> -1..Lines] /\ dest \in File /\ Lines \in Nat
      /\ disk[dest] \in Int /\ 0 <= disk[dest] /\ disk[dest] + 1 \in -1..Lines /\ disk[dest] + 1 >= 0
      /\ disk' = [disk EXCEPT ![dest] = disk[dest] + 1]
  BY CopyLineEffect, BoundsAssumption
<1>2. Waiting(f)' = Waiting(f)
  <2>1. CASE dest.src # f \/ dest.place \notin Walked
    BY <1>1, <2>1, Waits
  <2>2. CASE dest.src = f /\ dest.place \in Walked
    <3>1. Waiting(f)' = Waiting(f) \cup {dest}
      BY <1>1, <2>2, Waits
    <3>2. dest \in Waiting(f)
      BY <1>1, <2>2 DEF Waiting, Present
    <3> QED
      BY <3>1, <3>2
  <2> QED
    BY <2>1, <2>2
<1>3. UNCHANGED <<arrived, hit, worked, phase, cur, target, pc>>
  BY DEF CopyLine, NoFault, dirVars, handVars, history
<1> QED
  BY <1>2, <1>3, Plain DEF Twofold

LEMMA UnlinkBalance ==
    ASSUME IInv, Heading, Forward, NEW f \in Sources, Balance(f), Unlink
    PROVE  Balance(f)'
<1>1. /\ disk \in [File -> -1..Lines] /\ Lines \in Nat /\ cur \in File
      /\ cur.place \in Sees[phase] /\ phase \in {"Pending", "Spool"}
      /\ target \in SpoolState \ {"Backup"}
      /\ disk' = [disk EXCEPT ![cur] = -1] /\ -1 \in -1..Lines
  BY UnlinkEffect, BoundsAssumption
<1>2. pc = "unlink" /\ pc' = "walk" /\ UNCHANGED <<arrived, hit, worked>> /\ Present(cur)
  BY DEF Unlink, NoFault, history, IInv, HandOK, InHand
<1>3. /\ Cardinality(Waiting(f)) \in Nat /\ worked[f] \in Nat /\ hit[f] \in Nat
      /\ One(f \in arrived) \in {0, 1} /\ One(Twofold(f)) \in {0, 1}
  BY CountTypes DEF Balance
<1>4. One(f \in arrived)' = One(f \in arrived) /\ One(Twofold(f))' = 0
  BY <1>2 DEF One, Twofold, Moving, Made
<1>5. Waiting(f)' = Waiting(f) \ {cur}
  BY <1>1, Waits
<1>6. /\ IsFiniteSet(Waiting(f)') /\ Cardinality(Waiting(f)') \in Nat
      /\ Cardinality(Waiting(f)') =
            IF cur \in Waiting(f) THEN Cardinality(Waiting(f)) - 1 ELSE Cardinality(Waiting(f))
  BY <1>5, OneLess DEF Balance
<1>7. CASE cur.src = f
  <2>1. cur \in Waiting(f)
    BY <1>1, <1>2, <1>7 DEF Waiting, Walked
  <2>2. Cardinality(Waiting(f)') = Cardinality(Waiting(f)) - 1
    BY <1>6, <2>1
  <2> QED
    BY <1>2, <1>3, <1>4, <1>6, <2>2 DEF Balance
<1>8. CASE cur.src # f
  <2>1. One(Twofold(f)) = 0
    BY <1>8 DEF One, Twofold
  <2>2. Cardinality(Waiting(f)') = Cardinality(Waiting(f))
    BY <1>6, <1>8 DEF Waiting
  <2> QED
    BY <1>2, <1>3, <1>4, <1>6, <2>1, <2>2 DEF Balance
<1> QED
  BY <1>7, <1>8

LEMMA ProcessBalance ==
    ASSUME IInv, Forward, NEW f \in Sources, Balance(f), NEW next \in Outcomes, Process(next)
    PROVE  Balance(f)'
<1>1. /\ pc = "process" /\ phase = "Spool" /\ cur \in File
      /\ next \in SpoolState \ {"Spool"} /\ next \in config
  BY DEF Process, Forward, IInv, HandOK, InHand, TypeOK
<1>2. pc' = "create" /\ cur' = cur /\ phase' = phase
  BY <1>1 DEF Process, SendTo, SpoolState
<1>3. Waiting(f)' = Waiting(f) /\ UNCHANGED <<arrived, hit>>
  BY DEF Process, Waiting, Present, Walked
<1>4. /\ Cardinality(Waiting(f)) \in Nat /\ worked[f] \in Nat /\ hit[f] \in Nat
      /\ One(f \in arrived) \in {0, 1} /\ One(Twofold(f)) \in {0, 1}
  BY CountTypes DEF Balance
<1>5. One(Twofold(f)) = 0
  BY <1>1 DEF One, Twofold, Moving, Made
<1>6. CASE cur.src = f
  <2>1. One(Twofold(f))' = 1
    BY <1>1, <1>2, <1>6 DEF One, Twofold, Moving
  <2>2. worked'[f] \in Nat /\ worked'[f] <= worked[f] + 1
    BY <1>4, <1>6, BoundsAssumption DEF Process, IInv, TypeOK
  <2> QED
    BY <1>3, <1>4, <1>5, <2>1, <2>2 DEF Balance, One
<1>7. CASE cur.src # f
  <2>1. worked'[f] = worked[f]
    BY <1>7 DEF Process, IInv, TypeOK
  <2>2. One(Twofold(f))' \in {0, 1}
    BY DEF One
  <2> QED
    BY <1>3, <1>4, <1>5, <2>1, <2>2 DEF Balance, One
<1> QED
  BY <1>6, <1>7

\* The other steps: what was twofold stays so, unless a fault struck it.
LEMMA QuietSteps ==
    ASSUME IInv, Heading, Forward, Lasting, [Next]_vars, NEW f \in Sources, Fitting(f)
    PROVE  \/ \E g \in Sources : Deliver(g)
           \/ CreateDest \/ CopyLine \/ Unlink
           \/ \E next \in Outcomes : Process(next)
           \/ /\ UNCHANGED <<disk, arrived, worked>>
              /\ \/ hit'[f] = hit[f] /\ (Twofold(f) => Twofold(f)')
                 \/ hit'[f] = hit[f] + 1
<1> USE DEF Twofold, Moving, Made
<1> DEFINE Same == UNCHANGED <<disk, arrived, worked>>
           Struck == hit'[f] = hit[f] + 1
           Spared == hit'[f] = hit[f] /\ (Twofold(f) => Twofold(f)')
<1>0. /\ hit \in [Sources -> 0..MaxFaults] /\ MaxFaults \in Nat
      /\ cur \in File \cup {NoFile} /\ target \in SpoolState
      /\ pc \in Moving => cur \in File
  BY BoundsAssumption DEF IInv, TypeOK, HandOK, InHand
<1>1. Fault => UNCHANGED worked /\ (IF cur \in File /\ cur.src = f THEN Struck ELSE hit'[f] = hit[f])
  <2>1. \A x \in File : x.src \in Sources
    BY DEF File
  <2> QED
    BY <1>0, <2>1 DEF Fault
<1>2. ASSUME Fault, UNCHANGED <<disk, arrived>> PROVE Same /\ (Struck \/ Spared)
  <2>1. Twofold(f) => Struck
    BY <1>0, <1>1, <1>2
  <2> QED
    BY <1>1, <1>2, <2>1
<1>3. NoFault => hit' = hit /\ worked' = worked
  BY DEF NoFault, history
<1>4. CASE RunSpooler \/ NoDirectoryConfig \/ OpenDir \/ EndOfDir \/ OpenDirFails
  BY <1>2, <1>3, <1>4 DEF RunSpooler, NoDirectoryConfig, OpenDir, EndOfDir, OpenDirFails, history
<1>5. CASE \E x \in File : ReadPending(x) \/ ReadSpool(x)
  BY <1>3, <1>5 DEF ReadPending, ReadSpool, Unread
<1>6. CASE OpenSource
  BY <1>3, <1>6 DEF OpenSource, dirVars, handVars
<1>7. CASE EndOfFile
  BY <1>3, <1>7 DEF EndOfFile, CopyDone, BackingUp, SendTo, dirVars, handVars
<1>8. CASE CreateDestFails
  <2>1. Fault /\ UNCHANGED <<disk, arrived>>
    BY <1>8, BoundsAssumption DEF CreateDestFails, Lasting, Exhausted, IInv, TypeOK
  <2> QED
    BY <1>2, <2>1
<1>9. CASE OpenSourceFails
  <2>1. Fault /\ UNCHANGED <<disk, arrived>>
    BY <1>9 DEF OpenSourceFails, Lasting, Exhausted
  <2> QED
    BY <1>2, <2>1
<1>10. CASE CopyLineFails
  <2>1. CASE Fault
    BY <1>2, <1>10, <2>1 DEF CopyLineFails
  <2>2. CASE NextTooLong /\ NoFault
    <3>1. cur.src # f
      BY <1>0, <2>2 DEF NextTooLong, Fitting
    <3> QED
      BY <1>3, <1>10, <2>2, <3>1 DEF CopyLineFails
  <2> QED
    BY <1>10, <2>1, <2>2 DEF CopyLineFails
<1>11. CASE ReadErrorTakenForEnd
  <2>1. /\ Same /\ pc = "copy" /\ cur \in File
        /\ hit' = [hit EXCEPT ![cur.src] = @ + 1]
    BY <1>0, <1>11 DEF ReadErrorTakenForEnd
  <2>2. CASE cur.src = f
    BY <1>0, <2>1, <2>2
  <2>3. CASE cur.src # f
    BY <1>0, <2>1, <2>3
  <2> QED
    BY <2>2, <2>3
<1>12. CASE UnlinkFails \/ Crash
  BY <1>2, <1>12 DEF UnlinkFails, Crash
<1>13. CASE UNCHANGED vars
  BY <1>13 DEF vars, dirVars, handVars, history
<1> QED
  BY <1>4, <1>5, <1>6, <1>7, <1>8, <1>9, <1>10, <1>11, <1>12, <1>13 DEF Next, Run, Trouble

\* Each fault makes doProcessOneFile run for a source at most once more than it
\* should, in every configuration that moves processed files on, as long as
\* names and descriptors last.
THEOREM NotTwice ==
    ASSUME Forward PROVE Spec /\ []Lasting => []TwiceOnlyAfterFault
<1>1. Init => Heading /\ Balanced
  <2> SUFFICES ASSUME Init PROVE Heading /\ Balanced
    OBVIOUS
  <2>1. Heading
    BY DEF Init, Heading, Moving
  <2>2. ASSUME NEW f \in Sources PROVE Balance(f)
    <3>1. Waiting(f) = {}
      BY <2>2 DEF Init, Waiting, Present
    <3>2. worked[f] = 0 /\ hit[f] = 0 /\ f \notin arrived /\ ~Twofold(f)
      BY DEF Init, Twofold, Moving, Made
    <3> QED
      BY <3>1, <3>2, FS_EmptySet DEF Balance, One
  <2> QED
    BY <2>1, <2>2 DEF Balanced
<1>2. ASSUME IInv, IInv', Heading, Balanced, Lasting, [Next]_vars PROVE Heading' /\ Balanced'
  <2>1. Heading'
    BY <1>2, HeadingStep
  <2>2. ASSUME NEW f \in Sources, Fitting(f) PROVE Balance(f)'
    <3>1. Balance(f)
      BY <1>2, <2>2 DEF Balanced
    <3>2. CASE \E g \in Sources : Deliver(g)
      BY <1>2, <3>1, <3>2, DeliverBalance
    <3>3. CASE CreateDest
      BY <1>2, <3>1, <3>3, CreateDestBalance
    <3>4. CASE CopyLine
      BY <1>2, <3>1, <3>4, CopyLineBalance
    <3>5. CASE Unlink
      BY <1>2, <3>1, <3>5, UnlinkBalance
    <3>6. CASE \E next \in Outcomes : Process(next)
      BY <1>2, <3>1, <3>6, ProcessBalance
    <3>7. CASE /\ UNCHANGED <<disk, arrived, worked>>
               /\ \/ hit'[f] = hit[f] /\ (Twofold(f) => Twofold(f)')
                  \/ hit'[f] = hit[f] + 1
      <4>1. Waiting(f)' = Waiting(f)
        BY <3>7 DEF Waiting, Present, Walked
      <4> QED
        BY <1>2, <3>1, <3>7, <4>1, Plain
    <3> QED
      BY <1>2, <2>2, <3>2, <3>3, <3>4, <3>5, <3>6, <3>7, QuietSteps
  <2> QED
    BY <2>1, <2>2 DEF Balanced, Fitting
<1>3. IInv /\ Balanced => TwiceOnlyAfterFault
  <2> SUFFICES ASSUME IInv, Balanced, NEW f \in Sources, Fitting(f)
               PROVE  worked[f] <= 1 + hit[f]
    BY DEF TwiceOnlyAfterFault, Fitting
  <2>1. Balance(f)
    BY DEF Balanced
  <2>2. /\ Cardinality(Waiting(f)) \in Nat /\ worked[f] \in Nat /\ hit[f] \in Nat
        /\ One(f \in arrived) \in {0, 1} /\ One(Twofold(f)) \in {0, 1}
    BY <2>1, CountTypes DEF Balance
  <2>3. Twofold(f) => Cardinality(Waiting(f)) # 0
    <3>1. Twofold(f) => cur \in Waiting(f)
      BY DEF Twofold, Moving, Made, IInv, HandOK, InHand, Waiting, Walked
    <3> QED
      BY <2>1, <3>1, FS_EmptySet DEF Balance
  <2> QED
    BY <2>1, <2>2, <2>3 DEF Balance, One
<1> QED
  BY <1>1, <1>2, <1>3, SpecIInv, PTL DEF Spec
=============================================================================
