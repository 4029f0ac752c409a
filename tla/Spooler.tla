------------------------------- MODULE Spooler -------------------------------
(***************************************************************************)
(* The file spooler of fsys/: class f_Spooler over f_Dir and f_File.       *)
(*                                                                         *)
(* One call of runSpooler walks the Pending directory, copies every file   *)
(* it finds to Backup and moves it to Spool, then walks the Spool          *)
(* directory, hands every file to doProcessOneFile and moves it to the     *)
(* directory of the state that call returns.  A move is a copy followed by *)
(* an unlink; nothing is atomic but the single system calls, so a failing  *)
(* call or a crash leaves the directories as the calls before it left      *)
(* them.  The program is run again and again (by hand or by cron).         *)
(*                                                                         *)
(* A file is identified by where it lies (a directory and an extension),   *)
(* the input file it descends from, and the number createDatestampFile     *)
(* put into its name; its content is the number of lines of that input     *)
(* file it holds.  Line texts, annotations and date stamps are left out.   *)
(***************************************************************************)
EXTENDS Integers, FiniteSets

CONSTANTS
    Sources,     \* the input files that are delivered
    Lines,       \* how many lines a complete input file has
    Copies,      \* how many names createDatestampFile tries for one root
    Places,      \* the (directory, extension) pairs in use
    Configs,     \* the configurations loadSpoolerProperties may produce: for
                 \* each the set of states that get a SpoolConfig
    Lands,       \* where the file created for a state lands (a function on SpoolState)
    Sees,        \* the places a walk of the directory of a state visits
    Inbox,       \* where input files are delivered
    Outcomes,    \* what doProcessOneFile may return
    TooLong,     \* <<f, s>>: the last line of f overflows the buffer on its way to s
    MaxFds,      \* descriptors the process may hold
    MaxFaults,   \* bound: failing system calls and crashes
    MaxWorked    \* bound: the counter of doProcessOneFile calls saturates here

SpoolState == {"Spool", "Pending", "Processed", "Suspense", "Backup", "Error"}

ASSUME BoundsAssumption ==
    /\ Lines \in Nat \ {0}
    /\ Copies \in Nat \ {0}
    /\ MaxFds \in Nat
    /\ MaxFaults \in Nat
    /\ MaxWorked \in Nat

ASSUME ConfigAssumption ==
    /\ Configs \subseteq SUBSET SpoolState
    /\ \A c \in Configs : \A s \in c : Lands[s] \in Places
    /\ Sees \in [{"Pending", "Spool"} -> SUBSET Places]
    /\ Inbox \in Places
    /\ Outcomes \subseteq (SpoolState \ {"Backup"}) \cup {"NoChange"}

\* What an operator's configuration looks like in every test of the
\* repository; the code does not check it.
ASSUME ApartAssumption ==
    /\ Inbox \notin Sees["Spool"]
    /\ Lands["Backup"] # Inbox
    /\ \A s \in SpoolState \ {"Backup"} : Lands[s] # Lands["Backup"]
    /\ \A ph \in {"Pending", "Spool"} : Lands["Backup"] \notin Sees[ph]

VARIABLES
    config,      \* m_spool_configs: the states that are configured
    disk,        \* lines held by each file, -1 when there is no such file
    arrived,     \* input files delivered so far
    pc,          \* where the process is
    phase,       \* which processDirectory of runSpooler is running
    snapshot,    \* entries of the directory when it was opened
    seen,        \* entries readdir has returned from it
    cur,         \* fname: the file in hand
    target,      \* the state it is being copied or moved to
    dest,        \* the file copyFile created
    leaked,      \* descriptors that will never be closed
    faults,      \* failing calls and crashes so far
    hit,         \* history: those that struck while a source was in hand
    misread,     \* history: sources a read error cut short
    worked       \* history: doProcessOneFile calls per source

dirVars  == <<phase, snapshot, seen>>
handVars == <<cur, target, dest>>
history  == <<hit, misread, worked>>
vars == <<config, disk, arrived, pc, dirVars, handVars, leaked, faults, history>>

-----------------------------------------------------------------------------
(* Files and directories.                                                  *)

File   == [place : Places, src : Sources, copy : 1..Copies]
NoFile == [place |-> "none", src |-> "none", copy |-> 0]
PCs    == {"idle", "open", "walk", "process", "create", "openin", "copy", "unlink"}

Present(x)  == disk[x] >= 0
Visible(ph) == {x \in File : Present(x) /\ x.place \in Sees[ph]}

\* A plausible slip: creating the file without O_EXCL.
AnyNames(f, s) == {x \in File : x.place = Lands[s] /\ x.src = f}

\* The names createDatestampFile can still create for f in the place of s.
FreeNames(f, s) ==
    {x \in File : x.place = Lands[s] /\ x.src = f /\ ~Present(x)}

\* doCopyOneFile(fname, Backup) as opposed to a doMoveOneFile.
BackingUp == phase = "Pending" /\ target = "Backup"

TypeOK ==
    /\ config \in Configs
    /\ disk \in [File -> -1..Lines]
    /\ arrived \subseteq Sources
    /\ pc \in PCs
    /\ phase \in {"Pending", "Spool"}
    /\ snapshot \subseteq File
    /\ seen \subseteq File
    /\ cur \in File \cup {NoFile}
    /\ target \in SpoolState
    /\ dest \in File \cup {NoFile}
    /\ leaked \in 0..MaxFds
    /\ faults \in 0..MaxFaults
    /\ hit \in [Sources -> 0..MaxFaults]
    /\ misread \subseteq Sources
    /\ worked \in [Sources -> 0..MaxWorked]

Init ==
    /\ config \in Configs
    /\ disk = [x \in File |-> -1]
    /\ arrived = {}
    /\ pc = "idle"
    /\ phase = "Pending"
    /\ snapshot = {}
    /\ seen = {}
    /\ cur = NoFile
    /\ target = "Pending"
    /\ dest = NoFile
    /\ leaked = 0
    /\ faults = 0
    /\ hit = [f \in Sources |-> 0]
    /\ misread = {}
    /\ worked = [f \in Sources |-> 0]

-----------------------------------------------------------------------------
(* Control: what follows when a call returns or throws.                    *)

\* A failing system call, charged to the source in hand.
Fault ==
    /\ faults < MaxFaults
    /\ faults' = faults + 1
    /\ hit' = IF cur \in File THEN [hit EXCEPT ![cur.src] = @ + 1] ELSE hit
    /\ UNCHANGED <<misread, worked>>

NoFault == UNCHANGED <<faults, history>>

DropHand == cur' = NoFile /\ target' = "Pending" /\ dest' = NoFile

\* The loop of processDirectory goes on to the next entry.
NextEntry == pc' = "walk" /\ UNCHANGED dirVars /\ DropHand

\* A plausible slip: runSpooler ends when the Pending directory is done.
LeaveForGood ==
    /\ pc' = "idle" /\ phase' = "Pending"
    /\ snapshot' = {} /\ seen' = {}
    /\ DropHand

\* processDirectory returns to runSpooler, which runs Spool after Pending.
LeavePhase ==
    /\ IF phase = "Pending"
       THEN pc' = "open" /\ phase' = "Spool"
       ELSE pc' = "idle" /\ phase' = "Pending"
    /\ snapshot' = {} /\ seen' = {}
    /\ DropHand

\* A p_Exception that runSpooler catches.
GiveUp ==
    /\ pc' = "idle" /\ phase' = "Pending"
    /\ snapshot' = {} /\ seen' = {}
    /\ DropHand

\* doMoveOneFile or doCopyOneFile of x to state s, with `entries' the entries
\* read so far: a state without a configuration is an exception, which leaves
\* the directory open for ever.
SendTo(x, s, entries) ==
    \/ /\ s \in config
       /\ pc' = "create" /\ cur' = x /\ target' = s /\ dest' = NoFile
       /\ seen' = entries
       /\ UNCHANGED <<phase, snapshot, leaked>>
    \/ /\ s \notin config
       /\ GiveUp
       /\ leaked' = leaked + 1

\* Plausible slips: moveFile not looking at copyFile's return code, and
\* processDirectory not looking at doCopyOneFile's.
UnlinkAnyway(lost) ==
    /\ pc' = "unlink" /\ UNCHANGED <<dirVars, handVars>>
    /\ leaked' = leaked + lost
SpoolAnyway(lost) ==
    \/ BackingUp /\ SendTo(cur, "Spool", seen)
    \/ ~BackingUp /\ NextEntry /\ leaked' = leaked + lost

\* copyFile returned an error: the file in hand stays where it is.  A copy
\* loop left by `return' has closed neither of its two files.
CopyFails(lost) == NextEntry /\ leaked' = leaked + lost

\* A plausible slip: a move that forgets to unlink.
CopyOnly ==
    \/ BackingUp /\ SendTo(cur, "Spool", seen)
    \/ ~BackingUp /\ NextEntry /\ UNCHANGED leaked

\* copyFile returned Success: after the backup comes the move to Spool, in a
\* move the unlink.
CopyDone ==
    \/ BackingUp /\ SendTo(cur, "Spool", seen)
    \/ ~BackingUp /\ pc' = "unlink" /\ UNCHANGED <<dirVars, handVars, leaked>>

-----------------------------------------------------------------------------
(* The environment.                                                        *)

Delivered(f) == [place |-> Inbox, src |-> f, copy |-> 1]

\* An input file appears in the pending directory, complete (renamed into it).
Deliver(f) ==
    /\ f \notin arrived
    /\ arrived' = arrived \cup {f}
    /\ disk' = [disk EXCEPT ![Delivered(f)] = Lines]
    /\ UNCHANGED <<config, pc, dirVars, handVars, leaked, faults, history>>

\* The process dies; the kernel closes its descriptors.
Crash ==
    /\ pc # "idle"
    /\ Fault
    /\ GiveUp
    /\ leaked' = 0
    /\ UNCHANGED <<config, disk, arrived>>

-----------------------------------------------------------------------------
(* The walk of a directory.                                                *)

RunSpooler ==
    /\ pc = "idle"
    /\ pc' = "open"
    /\ UNCHANGED <<config, disk, arrived, dirVars, handVars, leaked, faults, history>>

NoDirectoryConfig ==
    /\ pc = "open" /\ phase \notin config
    /\ GiveUp
    /\ NoFault
    /\ UNCHANGED <<config, disk, arrived, leaked>>

OpenDir ==
    /\ pc = "open" /\ phase \in config /\ leaked < MaxFds
    /\ pc' = "walk"
    /\ snapshot' = Visible(phase)
    /\ seen' = {}
    /\ NoFault
    /\ UNCHANGED <<config, disk, arrived, phase, handVars, leaked>>

\* opendir fails, or finds no descriptor free; runSpooler does not look at
\* the return code and goes on.
OpenDirFails ==
    /\ pc = "open" /\ phase \in config
    /\ \/ leaked = MaxFds /\ NoFault
       \/ Fault
    /\ LeavePhase
    /\ UNCHANGED <<config, disk, arrived, leaked>>

\* readdir returns x: any file that is there and was not returned before.
Unread(x) == pc = "walk" /\ Present(x) /\ x.place \in Sees[phase] /\ x \notin seen

ReadPending(x) ==
    /\ Unread(x) /\ phase = "Pending"
    /\ SendTo(x, IF "Backup" \in config THEN "Backup" ELSE "Spool", seen \cup {x})
    /\ NoFault
    /\ UNCHANGED <<config, disk, arrived>>

ReadSpool(x) ==
    /\ Unread(x) /\ phase = "Spool"
    /\ pc' = "process" /\ cur' = x /\ seen' = seen \cup {x}
    /\ NoFault
    /\ UNCHANGED <<config, disk, arrived, phase, snapshot, target, dest, leaked>>

\* readdir has returned every entry that was there when the directory was
\* opened and still is; later ones it may return or not.
EndOfDir ==
    /\ pc = "walk"
    /\ \A x \in snapshot : Present(x) => x \in seen
    /\ LeavePhase
    /\ NoFault
    /\ UNCHANGED <<config, disk, arrived, leaked>>

\* doProcessOneFile does its work and names the next state.
Process(next) ==
    /\ pc = "process"
    /\ worked' = IF worked[cur.src] < MaxWorked
                 THEN [worked EXCEPT ![cur.src] = @ + 1] ELSE worked
    /\ \/ next \in {"Spool", "NoChange"} /\ NextEntry /\ UNCHANGED leaked
       \/ next \notin {"Spool", "NoChange"} /\ SendTo(cur, next, seen)
    /\ UNCHANGED <<config, disk, arrived, faults, hit, misread>>

-----------------------------------------------------------------------------
(* copyFile and moveFile.                                                  *)

\* createDatestampFile makes the first name that is free; O_EXCL never opens
\* a file that exists.
CreateDest ==
    /\ pc = "create" /\ leaked + 2 <= MaxFds
    /\ \E x \in FreeNames(cur.src, target) :
         /\ \A y \in FreeNames(cur.src, target) : x.copy <= y.copy
         /\ disk' = [disk EXCEPT ![x] = 0]
         /\ dest' = x
    /\ pc' = "openin"
    /\ NoFault
    /\ UNCHANGED <<config, arrived, dirVars, cur, target, leaked>>

\* No name or descriptor is left, or the directory or file cannot be made.
CreateDestFails ==
    /\ pc = "create"
    /\ \/ FreeNames(cur.src, target) = {} /\ NoFault
       \/ leaked + 2 > MaxFds /\ NoFault
       \/ Fault
    /\ CopyFails(0)
    /\ UNCHANGED <<config, disk, arrived>>

OpenSource ==
    /\ pc = "openin" /\ leaked + 3 <= MaxFds
    /\ pc' = "copy"
    /\ NoFault
    /\ UNCHANGED <<config, disk, arrived, dirVars, handVars, leaked>>

\* fopen fails: the new file is closed and stays, empty.
OpenSourceFails ==
    /\ pc = "openin"
    /\ \/ leaked + 3 > MaxFds /\ NoFault
       \/ Fault
    /\ CopyFails(0)
    /\ UNCHANGED <<config, disk, arrived>>

\* The line about to be read does not fit into the buffer.
NextTooLong == <<cur.src, target>> \in TooLong /\ disk[dest] + 1 = Lines

\* A plausible slip: looking for the end of the file after the write.
CopyLineAgain ==
    /\ pc = "copy" /\ disk[dest] <= disk[cur] /\ ~NextTooLong
    /\ disk' = [disk EXCEPT ![dest] = @ + 1]
    /\ NoFault
    /\ UNCHANGED <<config, arrived, pc, dirVars, handVars, leaked>>

CopyLine ==
    /\ pc = "copy" /\ disk[dest] < disk[cur] /\ ~NextTooLong
    /\ disk' = [disk EXCEPT ![dest] = @ + 1]
    /\ NoFault
    /\ UNCHANGED <<config, arrived, pc, dirVars, handVars, leaked>>

\* MemRangeError, or a short write: the new file stays, truncated.
CopyLineFails ==
    /\ pc = "copy" /\ disk[dest] < disk[cur]
    /\ \/ NextTooLong /\ NoFault
       \/ ~NextTooLong /\ Fault
    /\ CopyFails(2)
    /\ UNCHANGED <<config, disk, arrived>>

EndOfFile ==
    /\ pc = "copy" /\ disk[dest] = disk[cur]
    /\ CopyDone
    /\ NoFault
    /\ UNCHANGED <<config, disk, arrived>>

\* fgets returns NULL on a read error too, and nobody asks ferror.
ReadErrorTakenForEnd ==
    /\ pc = "copy" /\ disk[dest] < disk[cur]
    /\ faults < MaxFaults
    /\ faults' = faults + 1
    /\ hit' = [hit EXCEPT ![cur.src] = @ + 1]
    /\ misread' = misread \cup {cur.src}
    /\ CopyDone
    /\ UNCHANGED <<config, disk, arrived, worked>>

Unlink ==
    /\ pc = "unlink"
    /\ disk' = [disk EXCEPT ![cur] = -1]
    /\ pc' = "walk"
    /\ snapshot' = snapshot \ {cur} /\ seen' = seen \ {cur}
    /\ DropHand
    /\ NoFault
    /\ UNCHANGED <<config, arrived, phase, leaked>>

\* The file is now in both places; the next run finds it again.
UnlinkFails ==
    /\ pc = "unlink"
    /\ Fault
    /\ NextEntry
    /\ UNCHANGED <<config, disk, arrived, leaked>>

-----------------------------------------------------------------------------
(* The specification.  The program is run again and again and each call    *)
(* returns; deliveries, faults and crashes happen or not.                  *)

Run ==
    \/ RunSpooler \/ NoDirectoryConfig \/ OpenDir \/ EndOfDir
    \/ \E x \in File : ReadPending(x) \/ ReadSpool(x)
    \/ \E next \in Outcomes : Process(next)
    \/ CreateDest \/ OpenSource \/ CopyLine \/ EndOfFile \/ Unlink

Trouble ==
    \/ OpenDirFails \/ CreateDestFails \/ OpenSourceFails \/ CopyLineFails
    \/ ReadErrorTakenForEnd \/ UnlinkFails \/ Crash

Next == Run \/ Trouble \/ \E f \in Sources : Deliver(f)

Spec == Init /\ [][Next]_vars

\* Every step of the process is taken as long as it can be; which of its
\* outcomes a system call has is not ours to assume.
FairSpec == Spec /\ WF_vars(Run \/ Trouble)
-----------------------------------------------------------------------------
(* Properties.                                                             *)

\* A complete copy of f lies outside the backup directory.
Kept(f) == \E x \in File : x.src = f /\ disk[x] = Lines /\ x.place # Lands["Backup"]

\* moveFile unlinks only what copyFile has copied whole: whatever call fails
\* and wherever the process dies, a delivered input file survives, complete,
\* in some working directory.  Only a read error, which copyFile takes for the
\* end of the file, can lose one.
NoLoss == \A f \in arrived \ misread : Kept(f)

\* With a Backup directory configured no file gets past Pending (even in
\* part) before a complete copy of its input is in Backup, and that copy stays.
HasBackup(f) == \E x \in File : x.src = f /\ disk[x] = Lines /\ x.place = Lands["Backup"]
BackupFirst ==
    "Backup" \in config =>
        \A x \in File :
            (Present(x) /\ x.place # Inbox /\ x.place # Lands["Backup"]
                /\ x.src \notin misread)
              => HasBackup(x.src)

\* A file on disk only ever grows, unless it is unlinked, and then another
\* file holds at least what it held: no name is reused over a live file by
\* createDatestampFile and nothing is removed on the strength of a failed copy.
Outlived(x) ==
    \/ disk'[x] >= disk[x]
    \/ disk'[x] = -1 /\ x.src \in misread
    \/ disk'[x] = -1 /\ \E y \in File \ {x} : y.src = x.src /\ disk'[y] >= disk[x]
NothingOverwritten == [][\A x \in File : Outlived(x)]_vars

\* Each failing call or crash that strikes a source makes doProcessOneFile run
\* for it at most once more than it should: duplicates are bounded by faults
\* (for sources whose lines always fit, and while names and descriptors last).
TwiceOnlyAfterFault ==
    \A f \in Sources :
        (\A s \in SpoolState : <<f, s>> \notin TooLong) => worked[f] <= 1 + hit[f]

\* Descriptors or names have run out for the process.
Exhausted == leaked + 3 > MaxFds
Settled(f) ==
    /\ Kept(f)
    /\ \A x \in File : x.src = f /\ Present(x) =>
           x.place \notin Sees["Pending"] \cup Sees["Spool"]

\* Every delivered file is processed and out of the Pending and Spool
\* directories sooner or later, however other files fare, unless a read error
\* cut it short or descriptors leaked by failed copies have run out.
EveryFileSettles ==
    \A f \in {g \in Sources : \A s \in SpoolState : <<g, s>> \notin TooLong} :
        f \in arrived ~> (Settled(f) /\ worked[f] > 0) \/ f \in misread \/ Exhausted
=============================================================================
