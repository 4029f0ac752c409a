# Verification of the billing test framework

The repository is a C++ library for a billing department: it spools record
files through directories, reads them record by record, parses the records and
runs billing operations for them against a BRM ("Infranet", "Portal") server.
This directory holds TLA+ models of that code, TLC configurations that check
them on small instances, and proofs that TLAPS checks for every value of the
constants. Every definition is translated from the source; `PROJECT.json` maps
each to its lines.

## The system

| Part | State it keeps | Operations | What is hard | What makes it correct |
|---|---|---|---|---|
| Spooler `fsys/f_Spooler` | spool configuration; everything else is in the directories | runSpooler, processDirectory, copyFile, moveFile, doProcessOneFile (virtual) | nothing is atomic; failing calls, crashes, leaks, files arriving during a walk | no input is lost or overwritten, backup first, processed once, every file settles |
| Directory and file helpers `fsys/f_Dir`, `f_File`, `f_FileName` | current directory, extension list | OpenDir/ReadDir, pathWalk, createDatestampFile, mkdirRecursive | shared `current_dir`, exclusive creation with retries | a walk meets each file, a name is never reused |
| Record reader `fsys/f_FileReader`, `f_FileRecordReader`, `f_FileAnnotationConfig` | FILE position, counters, target filter, error record; the marks are in the file | readFile, getNextRecord, annotateCurrentRecord, setTarget | marks are written in place behind the work; repeated passes over whatever a pass left | done is done once and for ever, honest results, every record settles |
| Command file reader `fsys/f_CommandFileReader` | FILE position, counters | runCommandFile, doCommand (virtual) | as above, without an error path | a command is executed once |
| Configurators `fsys/*Configurator.h`, `f_PropertiesReader` | group and parser under construction | readPropertiesFile with onGroup, onElem, onGroupFinal | state of one group carried into the next, files cut anywhere | a group's columns stay with the group |
| BRM session `pin/pin_Session` | context pointer, error buffer, database number | OpenConnection, call_opcode, transaction_* | silent reconnect, sticky errors, a broken context taken for a good one | what is reported agrees with what the server did |
| Billing operations `bs/function` | none between calls | sixteen on one account, deposit_charges, createAccount | several opcodes without a transaction, check then act, lost answers, mixed conventions for answers | once, and `yes' only if done |
| Billing objects `bs/obj` | cache of plan and deals, account look-ups | DealCache.initialize, createPlanFlist, AccountInfo | stale or half-filled cache, deals put into a changing plan | a cache is used only when filled |
| Parsers `parser` | column definitions, sticky error, map of parsers by state | defineColumn, parseRecord, readParserConfigFile, getParser | overlap of columns, damaged files, empty fields | fields are what the definition says |
| Sign-up client `bs_SignupClient`, `tcp` | descriptor, buffer, stream | bsSignup: Connect, Write_buffer, Read_buffer | pieces, signals, timeouts, broken connections | what comes back and how it ended are true; it returns |
| Value types `ctype` | values | conversions, tokenizer | edges of dates and decimals | round trips |
| Other clients `http`, `bsi`, `zcast`, `oci++`, `signup` | handles, last response | connect, send, read | external libraries | - |
| Logging `logCpp`, `logSimple`, `platform/p_Log` | streams | write | - | - |
| Vendored `xml`, `crypt`, `curl`, `gpg`, `lib` | - | - | - | - |

A driver builds a spooler whose doProcessOneFile runs a record reader over the
file, whose onDetail parses the record and calls a billing operation, which
calls opcodes through the session. All calls are synchronous, in one thread;
concurrency comes from other processes (producers of files, other operators at
the BRM server, a second run), and failure from the system calls, the
connection and the death of the process between any two of them.

## The modules

| Module | What it is | Code |
|---|---|---|
| `Spooler` | the spooler as a process over directories, one action per system call that matters | `fsys/f_Spooler.cpp`, `f_Dir.cpp`, `f_File.cpp`, `f_FileName.cpp` |
| `MCSpooler`, `SpoolerFaults.cfg`, `SpoolerLacking.cfg` | instances for TLC | layouts of `unit_test/ut_Spooler.cpp` |
| `SpoolerProofs` | proofs about `Spooler` | |
| `RecordLedger` | abstract: what an annotated file promises | |
| `RecordReader` | one pass of readFile, line by line, passes repeated; implements `RecordLedger` | `fsys/f_FileRecordReader.cpp`, `f_FileReader.cpp`, `f_FileAnnotationConfig.h` |
| `MCRecordReader`, `RecordReader.cfg` | instance for TLC | |
| `RecordReaderProofs` | proofs about `RecordReader`, the refinement among them | |
| `CommandFile` | runCommandFile line by line, repeated; implements `RecordLedger` too | `fsys/f_CommandFileReader` |
| `MCCommandFile`, `CommandFile.cfg`; `CommandFileProofs` | instance for TLC; proofs | |
| `Parser` | one parser: definition of columns, parsing of a record | `parser/c_Parser.h`, `c_ParserFixedLength.h`, `c_ParserDelimited.h`, tokenize of `ctype/c_Strings.h` |
| `ParserConfig` | the parsers of a reader, configured from properties files and parser files; extends `Parser` | `fsys/f_FileReaderConfigurator.h`, `f_PropertiesReader.cpp`, `parser/c_ParserFactory.cpp` |
| `MCParserConfig`, `ParserConfig.cfg`, `ColumnOverlap.cfg`, `UnknownClass.cfg`; `ParserConfigProofs` | instances for TLC; proofs | |
| `PinSession` | connection state and the outcomes of one opcode call | `pin/pin_Session.cpp` |
| `Deposits` | deposit_charges of several operators over `PinSession` and the data base | `bs/function/bs_DepositAccountAuths.cpp`, `bs/obj/bs_AccountInfo.cpp` (getPayType) |
| `MCDeposits`, `DepositsRaced.cfg`, `DepositsSettle.cfg` | instances for TLC | |
| `DepositsProofs` | proofs about `Deposits` (and, through it, `PinSession`) | |
| `BillingOps` | the operations on one account over `PinSession`, each a script of tests, look-ups and writes | the other files of `bs/function`, look-ups of `bs/obj` |
| `MCBillingOps`, `BillingOps.cfg`; `BillingOpsProofs` | instance for TLC; proofs | |
| `CreateAccount` | createAccount over `PinSession` and the cache | `bs/function/bs_CreateBillingAccount.cpp`, `bs/obj/bs_DealCache.cpp` |
| `MCCreateAccount`, `CreateAccount.cfg`; `CreateAccountProofs` | instance for TLC; proofs | |
| `SignupClient` | bsSignup with the connection and its server | `bs/function/bs_SignupClient.cpp`, `tcp/tcp_Client.cpp`, `tcp_Session.cpp` |
| `MCSignupClient`, `SignupClient.cfg`; `SignupClientProofs` | instance for TLC; proofs | |

Definitions whose comment begins with "A plausible slip" are not part of a
specification: each is a variant of the definition behind it, listed under
`mutants` in `PROJECT.json`, with which a property must fail.

### Spooler

The state of a spooler is on disk. A file is a place (directory and
extension), the input file it descends from and the number in its name; its
content is the number of lines it holds (`disk`, -1 for no file). Date stamps
and line texts are left out; names are `Copies` distinct ones per place and
input, created with O_EXCL. `pc` follows processDirectory, copyFile and
moveFile; `phase` says which of the two processDirectory calls of runSpooler
is running. Error returns go to the next entry (`CopyFails`), exceptions to
the end of the run (`GiveUp`). `leaked` counts the descriptors that the error
returns in copyFile's loop and exceptions during a walk never close.
doProcessOneFile is virtual: `Process` answers any of `Outcomes`.

Files are delivered at any time, complete; any system call may fail, the
process may die anywhere, `MaxFaults` times altogether. A failing read ends
copyFile's loop like the end of the file (`ReadErrorTakenForEnd`).

### RecordReader

`mark` is the first character of each line, `layout` what
determineRecordType makes of the line. One action per exit of getNextRecord
(skip, take, end), per branch of readFile, per answer of onDetail and per way
annotateCurrentRecord ends: it may fail at ftell, before anything is written,
at fputc and at fseek. `applied` counts the work done for each record.
A failing fputc leaves the file position at the record, a failing fseek
inside it (`torn`); both codes are ignored by readFile, as the code does. The
process may die anywhere; what fputc has buffered is lost.

`RecordLedger` promises: work is done for undone lines only, a line is marked
done only behind its work, done is for ever. `LedgerSpec` says RecordReader
keeps that promise; the refinement mapping is the identity on `mark` and
`applied`.

### CommandFile

The command file reader marks lines in place as well, with one mark
(`block_char`), and has no error path: a command that doCommand refuses stays
open, and only `err_count` remembers it. A failing fputc is noticed by nobody
and the second seek goes on; a failing second seek leaves the file position
behind the first character, so that the next fgets reads a command without it
(`torn`), which doCommand does not know. The reader implements the same
`RecordLedger`, with the commands executed for the work.

### Parser and ParserConfig

A parser is its columns and its sticky error. A column is a name, a position
(delimited) and a range (fixed length); a record is its length and, field by
field, whether there is anything in it, which is all the tokenizer looks at.
`m_protect_field_name` and `m_reject_overlaps` are true in every parser the
program makes. The tokenizer passes over empty fields, so a column of a
delimited record gets a field behind the one it names as soon as an empty one
comes before: `ParsedAsDefined` says exactly when a column gets its own field, and
that the order of the fields is kept all the same.

A configuration file is what its next line turns out to be, so that files cut
anywhere, short of any line or with a line too long are among the inputs. The
call-backs of the properties file are `Group`, `Elem`, `GroupFinal`; the lines
of the parser file `ParserLine`, `PassOver`, `InitLine`, `ColumnLine`,
`EndOfBlock`. The histories `groups`, `opened`, `source` and `by` say where a
column and a table entry came from. In getParser a `<parser` line met before a
class is passed over (`PassOver`): the state before it gets the class and columns
behind it. In `groups` the block passed over is then one without a class.
`OneClassOnly` says how far such mixing goes, in both kinds of files: blocks
without a class may lose or lend columns, but two with a class each never meet
in one parser. A line that does not fit the buffer breaks the stream, and the loop
over the lines never ends (`LineTooLong`, `Spin`); nothing is claimed of such a
file but the invariants. Of readPropertiesFile's two calls in
loadReaderProperties the one for annotations is left out: it sets the targets
that RecordReader takes as a constant.

### PinSession and Deposits

A session's context is absent, live or stale (the connection is broken but
pcm_get_session still names a session: isConnected believes it). A call of
call_opcode is performed, refused, lost (sent, then the connection breaks),
dead (made on a stale context) or unsent (no connection can be opened:
false, with a clear error buffer). `Deposits` adds what each call of
deposit_charges does: two searches, then for each payment transaction_exists
and the collect. The data base is the only memory; a lost collect stays
`inflight` until the server performs or drops it, at any later time.
An account without a pay type ends the call as a search that is refused does,
and is counted as one.

Taken from how the code uses the Infranet library: the PIN_FLIST functions do
nothing once the error buffer holds an error, so the loop of deposit_charges
ends when a collect is refused; and it goes on when the collect was unsent,
because that leaves no error.

### BillingOps

Every other operation on one account is a straight line of tests of the
arguments, look-ups and one write (ActivateLEC: two). The differences between
them are what can go wrong: which error buffer a look-up uses, what it answers
when it finds nothing (a false that is PIN_RESULT_PASS for its caller, or
nothing at all), whether the output list is the caller's, whether the answer is
taken from the call or from the buffer. So an operation is data here, a
sequence of steps (`Script`), and the actions are the semantics of a step. The
first half of a script is the wrapper that translates the arguments, the second
the base function. What the data base knows of the account is a set of facts,
constant in a behaviour.

NoBlindWrite holds every write to the whole list of facts its input list is
filled from (`Needed`), but for three that the code does without
(`Dispensable`): loadVoipCDRUsage sends an empty serial number when
findMemberServiceId finds none (`bs_LoadUsage.cpp:93-94, 169, 196`),
updateStatus sends flags 0 when they cannot be read
(`bs_UpdateStatus.cpp:185-215`), and refundAccount takes BILLINFO_OBJ as an
optional field and sends NULL when the balance group has none
(`bs_RefundAccount.cpp:182-192`). The last is not excused when the call that
should have told the billinfo failed: then the error in the buffer keeps the
refund from being sent.

The caller is outside the repository: it repeats what was answered `no', with
its error buffer and output list clean or as they were left, and turns to
another request when it has its answer.

### CreateAccount

The cache (`plan`, `cached`, `initialized`) is filled by two searches, in one
process; deals may go on and off sale between them and after. `PutDeal` puts a
deal where addDeal's loops put it: into the first service of its type without a
deal, or into a new one. An address is the first of the record's fields, and
defaults, as the code writes them over one another (`ContactAddress`,
`BillingAddress`, `PayAddress`). A commit whose answer is lost may have made the
account; the caller repeats it, and the model lets the repeated commit succeed.
Whether the data base would refuse the login a second time is outside the code;
if it did, EveryRecordIsAnswered would not hold for that record.

### SignupClient

One request, then select and recv until the server has closed. The bytes of an
answer are numbered; `buffer` is not cleared between two pieces, and all of it
is put out, so that behind a piece shorter than the one before the tail of that
comes again: `returned` may repeat bytes. EndingIsTrue bounds that: no byte is
skipped or comes before one sent earlier, and of as many in a row as the buffer
holds one is new. A piece that fills the buffer leaves no 0 in it; what
operator<< reads next is the lowest byte of `buff_max`, the member behind, which
is 0 because `buff_max` is 1024 (`tcp_Client.h`, on a little-endian machine and
without padding between), so that it stops there. The model takes the piece as
put out whole, and rests on that.
bsSignup's answer is false in every case, because Read_buffer never returns
Success; what a caller can use is the text.

## The runs

| Run | Instance and bounds | What it shows |
|---|---|---|
| `spooler_faults` | two files of two lines, three names per place, two faults, every state configured that is used | no loss, backup first, duplicates bounded by faults, nothing overwritten, every file settles |
| `spooler_lacking` | two files of one line, two names, one fault, configurations without Backup, Spool or Processed, one file with a line too long, seven descriptors | the safety promises when configuration, buffer and descriptors run out |
| `record_reader` | four layouts of three lines, any of three marks each, four targets, one record that always throws, two faults | work at most once unless struck, honest results, refinement of the ledger, every reachable record settles |
| `deposits_raced` | two operators, one authorization, three faults | one deposit but for strikes and races |
| `deposits_settle` | one operator, three authorizations (all fields; no TRANS_ID; no AMOUNT), two faults | amounts not mixed up, true means recorded, every authorization on record sooner or later |
| `command_file` | four files of three lines, one command that always fails, three faults | executed once unless struck, true means done (and, of a troubled run, executed), refinement of the ledger, every command that can be executed settles |
| `billing_ops` | one caller, 26 requests: every operation by its wrapper, base functions and arguments that lead elsewhere; four accounts, one fault, three successes of a request | not twice but for lost answers, yes means done, an account half activated only after a fault, no write with a fact missing but the three of `Dispensable`, promising requests succeed |
| `create_account` | one process, four records, four deals (two with one id, one that comes and goes), a plan with a free and a taken service, two faults | what is committed is what was asked for and in its place, true means created, every record answered true |
| `parser_config` | two states (one with `*`), two groups, three columns of five kinds, records with empty fields and short ones | columns apart and with their group, two groups with a class each never in one parser, records parsed as defined |
| `column_overlap` | the same | a violation: two columns with a field or characters in common |
| `unknown_class` | the same | a violation: columns of an unknown class accepted |
| `signup_client` | a buffer of three bytes, answers of up to five, two signals | the text and the ending are true, every call returns if a server that has begun to answer closes |

The two violations are findings, with the comment or test they contradict:

- `column_overlap`: "no overlapping fields" (`c_Parser.h:68`; test 5 of
  `ut_ParserDelimited.cpp`). The `else if` for delimited parsers belongs to the
  inner `if` and is dead; and a fixed-length column that encloses another passes
  the test of its two ends. What does hold is `ColumnsSound`.
- `unknown_class`: columns of a group without a known parser are to be refused
  (`f_FileReaderConfigurator.h:145`), but the parser of the group before is still
  there. What does hold is `OwnColumns` and
  `OneClassOnly`.

Why the bounds are enough. Two lines distinguish an empty, a truncated and a
whole copy, and three names a first try, a retry and one more. Two files are
needed for one to disturb the walk of the other. Two faults let a fault strike
the recovery from another. Three lines put a record in front of and behind the
one in trouble. A race takes two operators and one authorization; a reused
flist takes one payment behind another, and three of them make every kind the
one before every other. An unsent collect takes two faults (the connection
lost, the new one refused). Deposits, counters and `inflight` are not bounded
by hand: faults bound them. `MaxWorked` lets the work counter saturate above
what the faults allow. Deadlock is checked in every run.
A caller of BillingOps has at most one request at a time and the data base's
facts do not change, so one caller meets every order of its own calls; two
would only share the bound on faults. Two groups and three columns put one
parser before another and one column before and behind the refused one. A
buffer of three and five bytes make a full piece, a short one behind a longer
one, and a piece that is cut. `spooler_lacking` and `deposits_settle` check
what the other run of their module does not; the safety properties both could
check are theorems.

What the properties say, and what they do not: the strike and race terms in
`OnceUnlessStruck`, `TwiceOnlyAfterFault` and `OnceUnlessStruckOrRaced` are
what the code leaves open, not what its users would wish for. A crash between
work and annotation, a search that fails in transaction_exists, a lost answer
and two operators between check and collect each may repeat the work; nothing
else does.

## Fairness

All liveness of jobs assumes a program that is run again and again: one more
call of runSpooler, readFile, runCommandFile or deposit_charges is always
coming.

- `Spooler!FairSpec`: weak fairness of the process as a whole. The code is
  sequential and does not wait; which outcome a system call has is left open,
  so faults are part of the fair action and are bounded only in number.
- `RecordReader!FairSpec`: weak fairness of a pass, strong fairness of
  unfiltered passes. A filtered pass may be asked for at any time, and without
  unfiltered ones nobody works on the open records; strong, because other
  passes come between.
- `Deposits!FairSpec`: weak fairness of each operator's steps, strong fairness
  of the program's end while it has a context. Without an end a stale context
  would fail every call for ever, since isConnected believes it: call_opcode
  replaces an absent context, never a stale one. The destructor closes
  nothing; the end of the process does.

- `CommandFile!FairSpec`: weak fairness of a run's steps and of the next run.
- `BillingOps!FairSpec`, `CreateAccount!FairSpec`: weak fairness of the steps of
  a call; strong fairness of the caller's coming back with the same request (in
  BillingOps: with a clean buffer and list), because it may do otherwise in
  between; strong fairness of the program's end, in CreateAccount only while its
  context is stale, for the reason given for Deposits.
- `SignupClient!FairSpec`: weak fairness of the client's steps, among them the
  timeout of select, and of a server that has begun to answer closing the
  connection. The second is an assumption about bs_signupd, which is not in the
  repository, and it is needed: within its loop recv has no timeout, and a
  server that falls silent behind its first byte keeps the client for ever.

Nothing else is assumed of the environment: deliveries, authorizations, drops,
signals and the server's late answers happen or not.

## The proofs

All theorems hold for every value of the constants that satisfies the named
assumptions of the modules (`BoundsAssumption`, `ConfigAssumption`,
`ApartAssumption`, `RecordReaderAssumption`, `CommandFileAssumption`,
`PinSessionAssumption`, `DepositsAssumption`, `BillingOpsAssumption`,
`CreateAccountAssumption`, `ParserConfigAssumption`, `SignupAssumption`).
`ApartAssumption` is about the operator's configuration:
the Backup directory is nobody else's, and the inbox is not the spool
directory. The code does not check it; the tests' configurations satisfy it.

- `SpoolerProofs`. `IInv` adds to the types what the process knows of the file
  in hand (`HandOK`: it exists, the new file is another one, of the same input
  and no longer, and before the unlink it is as long), `Descriptors` and
  `Histories`. NoLoss is not inductive without the first: an unlink step is
  safe only because the copy in hand is whole and lies outside Backup.
  `BackupInv` adds that the file in hand, once past its backup, has one.
  `NotTwice` is a count (`Balance`): the times a source was worked on and the
  copies of it that a walk will still meet (`Waiting`) are together at most its
  arrival, the faults that struck it, and one while it is processed and not yet
  gone, or lies in both directories (`Twofold`). Its hypotheses: every
  configuration moves what was processed to where no walk goes (`Forward`), and
  names and descriptors last (`[]Lasting`). Without either the statement is
  false of the code, which processes a file left in the spool directory on
  every run. Both hold in the instance of `spooler_faults`.
- `RecordReaderProofs`. `IInv` adds that the record in hand is not done and
  that done is answered behind the work; the refinement follows step by step
  (`WorkStep`, `MarkStep`). HonestResult needs `PassInv`: as long as every
  annotation was written, the counters agree with the marks of the records
  tried and the lines read so far (`ErrorsCounted`, `SuccessCounted`,
  `BadLinesCounted`).
- `DepositsProofs`. `OneLeft` is the heart: an operator past transaction_exists
  has the one deposit without a strike still before it, as long as nobody raced;
  `LostAreStruck` carries it over the server's late answers. TrueMeansRecorded
  needs `Accounted`: what the search found is ahead, in hand, on record or
  unsent; and that an unsent collect leaves rc false (`Hidden`), so that only one
  behind it can turn the answer. `OwnPayment` says whose amount the reused
  flist may hold.
- `CommandFileProofs`. `MarkingOK` says that a command being marked is
  open, and was executed at most once more than faults explain; `ErredTells` that
  without trouble the lines read so far are done or err_count is set, and
  `UnerredTells` that with trouble, and err_count 0, those that are not were
  executed and struck. The
  refinement of the ledger follows as for the record reader.
- `BillingOpsProofs`. `ScriptSteps` types the script of every operation, and
  says which of its steps can be answered `yes'. The invariant `UnderWay` says
  that what is left of a script consists of such steps and that a call under way
  has not answered `yes'; so a repetition can only follow a write whose answer
  was lost (`NotTwice`). Every action comes down to seven moves of one client
  over its script (`Moves`: `Begins`, `Passes`, `Finds`, `Stops`, `Carries`,
  `Fails`, `Rests`; `NextMoves`), and what the sixteen scripts have in common is
  proved of their texts once and for all: a collect looks for each fact in one
  place (`Lone`), the activation follows the billing day with a list of its own
  (`Followed`), and every fact a write needs, but for the three of `Dispensable`, is looked up
  before it, with a miss that ends the operation or an error in the buffer of the
  write (`Supplied`).
  Each becomes an invariant of what is left of a script: `Unfound` for
  `YesIsTrue`, `HalfInv` for `NeverHalfActive`, `Seen` for `NeverBlind`.
- `CreateAccountProofs`. `Placed` is preserved by putting a deal into a free
  service or adding one (`PlacedWith`, `PlacedAnd`); the number of services a
  deal is in follows the ids looked for (`Counted`, `CountWith`, `CountAnd`,
  `CountStep`), without a recursive count; `StockOK` bounds the cache by the
  deals that were on sale throughout, and at any time. `TypeCorrect` is its part
  on types.
- `ParserConfigProofs`. `DefineSound` is about defineColumn alone: a column that
  is accepted keeps the columns apart. The invariant adds (`New`, `Reading`)
  that the parser a known group fills is in no table entry yet and has only
  columns of that group, so that only unknown groups can touch a parser in use.
  `TokenIs` says which field a token is: the k-th that is not empty, at or behind
  the k-th, found by counting and the least-number principle (`TokenExists`,
  `Least`). `ParsesAsDefined` needs that a parser in use only gets longer
  (`Prolonged`), that no delimited column names a field 0 (`Positioned`), and
  that the record in hand agrees with the columns it was parsed with (`Kept`);
  `TokenAt` and `TokensOrdered` turn that into the field and its order.
  `ClassesAreApart` looks from one group of a parser to another (`Near`), and
  from those of the parser in hand to the last group (`NearLast`), which may
  still lend it columns; the blocks passed over are without a class (`Passed`).
- `SignupClientProofs`. The invariant (`Stream`) is that for some k the bytes 1 to
  k have been read, each for the first time behind the one before it
  (`Complete`), and those that wait follow on them: the bytes that come twice
  out of the buffer are among the k. `GoesOn` is the step from one piece to the
  next. What is put out at once begins with a new byte and is no longer than the
  buffer, so of `BuffMax` bytes in a row one is new (`Renewal`). `Silent` is about the timeout: a second select
  comes only after the end of input, when it cannot time out, or after a signal.

Model-checked only: all liveness, which with the fairness it rests on is out of
the prover's reach. Every invariant, action property and refinement that a
passing run checks is also a theorem; `TwiceOnlyAfterFault` is one under the
hypotheses above.

## What is left out, and why

- Names, date stamps, log lines and line texts: no property here is about
  them. Sub-directories are flattened into the places a walk visits (`Sees`).
  pathWalk, whose `current_dir` is wrong behind a sub-directory, has no caller.
- In annotateCurrentRecord the seek to the record's start is not among the
  failing calls: its offset came from ftell on the same regular file.
- A line longer than the reader's buffer is one line in RecordReader, and several
  in CommandFile.
- One spooler process: two would share directories without any guard, and
  nothing in the repository promises anything about them.
- Of pin_Session the transactions: every call in bs/function that would open one
  is commented out; what is left is an abort in bs_ReceiveCheckPayment.
- bs_SimulateACHReturn and bs_SimulateChargeback write test files for the
  payment processor's interface; bs_PostpSession, GPGInterface, the Oracle
  wrappers and bsi_Client are calls of libraries that are not in the repository,
  and no program in it but a demonstration uses them.
- Dates, decimals, rule sets and enumerations: conversions of one value without
  state.
- Field by field copying between flists and records, except where an operation
  depends on whether the field is there.
- Pure output (logging, printing), third-party code (tinyxml, MD5) and the
  headers of external libraries, which together are more than a fifth of the
  lines under `src/`.

## What could follow

1. A second spooler process, if the users decide what two should guarantee.
