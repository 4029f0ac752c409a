------------------------------ MODULE BillingOps ------------------------------
(***************************************************************************)
(* The operations of bs/function on one account, and the look-ups of       *)
(* bs/obj they are made of.                                                *)
(*                                                                         *)
(* Every operation is a straight line of tests of its arguments, look-ups  *)
(* each of which may end it, and one write (ActivateLEC: two), all through *)
(* pin_Session::call_opcode.  So an operation is written here as a script, *)
(* a sequence of steps, and the actions say what a step does to the        *)
(* session, the caller's error buffer, its output list and its answer.     *)
(* What a look-up finds is a set of facts, and a write has a name.         *)
(*                                                                         *)
(* The caller is not part of the repository.  Here it repeats a request    *)
(* answered `no' as long as it may succeed, and hands over its error       *)
(* buffer and output list either clean or as the call before left them.    *)
(***************************************************************************)
EXTENDS PinSession, Sequences

CONSTANTS
    Requests,    \* the requests that are made
    Worlds,      \* what the data base may know of the account
    MaxCount     \* bound: how often one request may be carried out

Ops == {"activateLEC", "adjustItem", "adjustCash", "adjustResource", "cancel",
        "delete", "status", "collect", "check", "refund", "chargeback", "payinfo",
        "contact", "recourse", "usage", "voip"}

\* by: the account is named by account_no or account_obj_id0, or its poid is
\* handed to the base function, which skips the arguments' translation.
\* value: the amount, status or pay type is good or bad, or it is special: the
\* amount FULL, or an activation without flags.
\* service: what the arguments say of the service.
RequestType ==
    [op : Ops, by : {"no", "id0", "poid"}, value : {"good", "bad", "special"},
     service : {"none", "type", "id0"}]

Writes == (Ops \ {"activateLEC"}) \cup {"billingDay", "activate"}

Facts == {"account", "complete", "payType", "balGroup", "billinfo", "payinfo", "ach",
          "item", "service", "payment", "owes", "credit", "serial", "flags"}

ASSUME BillingOpsAssumption ==
    /\ Requests \subseteq RequestType
    /\ Worlds \subseteq SUBSET Facts
    /\ MaxCount \in Nat

VARIABLES
    has,         \* data base: what it knows of the account
    request,     \* the request of each caller
    todo,        \* the steps its operation has not taken yet
    answer,      \* what the operation answered last
    ebuf,        \* the caller's error buffer holds an error
    list,        \* the caller's output list is there already
    wrote,       \* history: the writes the server made in this try
    found,       \* history: the facts looked up in this try
    count,       \* history: how often the request was carried out
    struck       \* history: how often it was, and the answer was lost

caller  == <<request, answer, ebuf, list>>
history == <<wrote, found, count, struck>>
vars    == <<sessionVars, has, todo, caller, history>>

-----------------------------------------------------------------------------
(* Steps.                                                                  *)

\* A test of the arguments, PIN_ERR_CLEAR_ERR, a test of the error buffer.
Check(ok, errs) == <<[do |-> "check", ok |-> ok, miss |-> "no", errs |-> errs]>>
Clear == <<[do |-> "clear"]>>
Untroubled == <<[do |-> "untroubled"]>>

\* A look-up with an error buffer of its own, or with the caller's.  If it
\* fails or finds nothing the operation answers `miss', or goes on, and the
\* caller's buffer is set, kept, or either.  `also' is what the same call tells
\* if it is there, and it is no miss if it is not.
LookStep(facts, miss, errs) ==
    [do |-> "look", facts |-> facts, also |-> {}, miss |-> miss, errs |-> errs,
     callers |-> FALSE]
Find(facts, miss, errs) == <<LookStep(facts, miss, errs)>>
Read(facts, miss, errs) == <<[LookStep(facts, miss, errs) EXCEPT !.callers = TRUE]>>

\* A write: the output list it uses, what a success and a call that failed
\* without an error are answered, whether there is a result to look at, and
\* whether the operation puts an error of its own if there is none.
WriteStep(name) ==
    [do |-> "write", name |-> name, callers |-> TRUE, list |-> "callers", ok |-> "yes",
     quiet |-> "no", result |-> FALSE, sets |-> FALSE]
Write(name) == <<WriteStep(name)>>
OwnListWrite(name) == <<[WriteStep(name) EXCEPT !.list = "own"]>>

-----------------------------------------------------------------------------
(* The look-ups of bs/obj.                                                 *)

\* bs_NvRecord::resolve_AccountPoid, and the same in CollectAccount and
\* RefundAccount: a poid made from ACCOUNT_OBJ_ID0 is not accepted, rc being
\* false, and an account with a missing field is found without its poid.
LoadByAccountNo == {"account", "complete"}
ResolveAccountPoid(r) ==
    IF r.by = "no" THEN Find(LoadByAccountNo, "no", "set") ELSE Check(FALSE, "set")

PayType == Find({"payType"}, "no", "keep")

\* getService_and_BalGrpPoids and the FLD_TAKE behind it, which puts an error
\* if there is no list.
BalGroup(miss) == Find({"balGroup"}, miss, "either")

\* getBilling_and_PaymentInfo and the tests of what it returns.
BillingAndPaymentInfo(miss) ==
    Find({"billinfo"}, miss, "keep") \o Find({"payinfo"}, miss, "keep")
        \o Find({"ach"}, miss, "keep")

AccountBalance(sign) == Find({sign}, "no", "either")

ServiceByAccountType == Find({"service"}, "no", "set")

-----------------------------------------------------------------------------
(* The operations: the translation of the arguments, and the base function. *)

AmountGiven(r) == Check(r.value = "good", "set")
AmountOrFull(r, sign) == IF r.value = "special" THEN AccountBalance(sign) ELSE AmountGiven(r)

ActivateLECArgs(r) == ResolveAccountPoid(r)

\* A plausible slip: one call by a name the server has no opcode for.
ActivateLECOneCall(r) == Clear \o PayType \o Write(r.op)

\* A plausible slip: the two calls share the caller's output list.
ActivateLECOneList(r) ==
    Clear \o PayType \o <<[WriteStep("billingDay") EXCEPT !.ok = "next"]>> \o Write("activate")

ActivateLEC(r) ==
    Clear \o PayType
        \o <<[WriteStep("billingDay") EXCEPT !.list = "own", !.ok = "next"]>>
        \o <<[WriteStep("activate") EXCEPT !.list = "fresh"]>>

AdjustItemArgs(r) == ResolveAccountPoid(r) \o AmountGiven(r)
AdjustItem(r) ==
    Clear \o Read({"item"}, "no", "set") \o Read({"item"}, "on", "set") \o Write("adjustItem")

AdjustCashBalanceArgs(r) == ResolveAccountPoid(r) \o AmountGiven(r)
AdjustCashBalance(r) == Clear \o BalGroup("no") \o Write("adjustCash")

\* The base function never assigns its rc.
AdjustResourceBalanceArgs(r) == ResolveAccountPoid(r) \o AmountGiven(r)
AdjustResourceBalance(r) ==
    Clear \o BalGroup("no") \o <<[WriteStep("adjustResource") EXCEPT !.ok = "no"]>>

CancelAccountArgs(r) == ResolveAccountPoid(r)

\* A plausible slip: the answer taken from the error buffer.
CancelByBuffer(r) == Clear \o <<[WriteStep("cancel") EXCEPT !.quiet = "yes"]>>

CancelAccount(r) == Clear \o Write("cancel")

\* bs_AccountInfo::deleteByAccountNo has an error buffer of its own.
DeleteByAccountNo(r) ==
    Find(LoadByAccountNo, "no", "keep")
        \o <<[WriteStep("delete") EXCEPT !.callers = FALSE, !.list = "own"]>>

\* A poid made from SERVICE_OBJ_ID0 is not accepted either, and an error that
\* was in the caller's buffer before is taken for one of the look-ups.
UpdateStatusArgs(r) ==
    Check(r.value # "bad", "set") \o ResolveAccountPoid(r)
        \o (CASE r.service = "id0" -> Check(FALSE, "set")
              [] r.service = "type" -> ServiceByAccountType
              [] r.service = "none" -> <<>>)
        \o Untroubled
UpdateStatus(r) ==
    Clear \o (IF r.value = "special" THEN Find({"flags"}, "on", "keep") ELSE <<>>)
        \o Write("status")

\* `return false' is the 0 of PIN_RESULT_PASS.
CollectAccountArgs(r) == ResolveAccountPoid(r) \o AmountOrFull(r, "owes")
CollectAccount(r) ==
    Clear \o PayType \o BalGroup("yes") \o BillingAndPaymentInfo("yes")
        \o <<[WriteStep("collect") EXCEPT !.result = TRUE]>>

ReceiveCheckPaymentArgs(r) == ResolveAccountPoid(r) \o AmountGiven(r)
ReceiveCheckPayment(r) ==
    Clear \o PayType \o Find({"balGroup"}, "no", "set") \o BillingAndPaymentInfo("no")
        \o <<[WriteStep("check") EXCEPT !.result = TRUE, !.sets = TRUE]>>

RefundAccountArgs(r) == ResolveAccountPoid(r) \o AmountOrFull(r, "credit") \o Clear

\* PCM_OP_READ_FLDS on the balance group: its BILLINFO_OBJ is taken as an
\* optional field, and the refund is sent with NULL if there is none.
BillinfoOfBalGroup == [LookStep({"balGroup"}, "on", "set") EXCEPT !.also = {"billinfo"}]

\* A plausible slip: a buffer of its own for that call.
RefundOwnBuffer(r) ==
    BalGroup("on") \o <<[BillinfoOfBalGroup EXCEPT !.errs = "keep"]>> \o OwnListWrite("refund")

RefundAccount(r) ==
    BalGroup("on") \o <<[BillinfoOfBalGroup EXCEPT !.callers = TRUE]>> \o OwnListWrite("refund")

\* The wrapper puts an error for a failed call if there is none.
ChargebackAccountArgs(r) == ResolveAccountPoid(r) \o AmountGiven(r)
ChargebackAccount(r) ==
    Clear \o Read({"balGroup"}, "no", "set") \o Read({"payment"}, "no", "set")
        \o <<[WriteStep("chargeback") EXCEPT !.sets = (r.by = "no")]>>

\* The pay type of the arguments does not reach the record, whose n_billType
\* stays 0.
UpdatePayinfoArgs(r) == ResolveAccountPoid(r)
UpdatePayinfo(r) ==
    Clear \o Check(r.by = "poid" /\ r.value = "good", "set") \o Write("payinfo")

UpdateContactInfoArgs(r) == ResolveAccountPoid(r)
UpdateContactInfo(r) == Clear \o OwnListWrite("contact")

\* An amount that cannot be read leaves an error in the buffer, and there is no
\* input list then; the answer is whether the buffer is clear in the end.
CreateLECRecourse(r) ==
    Clear \o <<[do |-> "check", ok |-> r.value = "good", miss |-> "on", errs |-> "set"]>>
        \o <<[WriteStep("recourse") EXCEPT !.quiet = "yes"]>>

LoadUsageArgs(r) == ResolveAccountPoid(r)
LoadUsage(r) ==
    Clear \o Check(r.value = "good", "keep") \o Read({"service"}, "no", "either")
        \o Write("usage")

LoadVoipCDRUsage(r) ==
    ResolveAccountPoid(r) \o Find({"serial"}, "on", "keep") \o Write("voip")

Translation(r) ==
    CASE r.op = "activateLEC" -> ActivateLECArgs(r)
      [] r.op = "adjustItem" -> AdjustItemArgs(r)
      [] r.op = "adjustCash" -> AdjustCashBalanceArgs(r)
      [] r.op = "adjustResource" -> AdjustResourceBalanceArgs(r)
      [] r.op = "cancel" -> CancelAccountArgs(r)
      [] r.op = "status" -> UpdateStatusArgs(r)
      [] r.op = "collect" -> CollectAccountArgs(r)
      [] r.op = "check" -> ReceiveCheckPaymentArgs(r)
      [] r.op = "refund" -> RefundAccountArgs(r)
      [] r.op = "chargeback" -> ChargebackAccountArgs(r)
      [] r.op = "payinfo" -> UpdatePayinfoArgs(r)
      [] r.op = "contact" -> UpdateContactInfoArgs(r)
      [] r.op = "usage" -> LoadUsageArgs(r)
      [] OTHER -> <<>>

Base(r) ==
    CASE r.op = "activateLEC" -> ActivateLEC(r)
      [] r.op = "adjustItem" -> AdjustItem(r)
      [] r.op = "adjustCash" -> AdjustCashBalance(r)
      [] r.op = "adjustResource" -> AdjustResourceBalance(r)
      [] r.op = "cancel" -> CancelAccount(r)
      [] r.op = "delete" -> DeleteByAccountNo(r)
      [] r.op = "status" -> UpdateStatus(r)
      [] r.op = "collect" -> CollectAccount(r)
      [] r.op = "check" -> ReceiveCheckPayment(r)
      [] r.op = "refund" -> RefundAccount(r)
      [] r.op = "chargeback" -> ChargebackAccount(r)
      [] r.op = "payinfo" -> UpdatePayinfo(r)
      [] r.op = "contact" -> UpdateContactInfo(r)
      [] r.op = "recourse" -> CreateLECRecourse(r)
      [] r.op = "usage" -> LoadUsage(r)
      [] r.op = "voip" -> LoadVoipCDRUsage(r)

Script(r) == IF r.by = "poid" THEN Base(r) ELSE Translation(r) \o Base(r)

\* Nothing in a request or the data base stands in its way.
Promising(r) ==
    \A i \in DOMAIN Script(r) :
        LET s == Script(r)[i] IN
        /\ s.do = "check" => s.ok
        /\ s.do = "look" => s.facts \subseteq has
        /\ s.do = "write" => s.ok # "no"

-----------------------------------------------------------------------------
(* The callers.                                                            *)

Init ==
    /\ SessionInit
    /\ has \in Worlds
    /\ request \in [Clients -> Requests]
    /\ todo = [c \in Clients |-> <<>>]
    /\ answer = [c \in Clients |-> "no"]
    /\ ebuf = [c \in Clients |-> FALSE]
    /\ list = [c \in Clients |-> FALSE]
    /\ wrote = [c \in Clients |-> {}]
    /\ found = [c \in Clients |-> {}]
    /\ count = [c \in Clients |-> 0]
    /\ struck = [c \in Clients |-> 0]

StepType ==
    [do : {"check"}, ok : BOOLEAN, miss : {"no", "on"}, errs : {"set", "keep"}]
    \cup [do : {"clear", "untroubled"}]
    \cup [do : {"look"}, facts : SUBSET Facts, also : SUBSET Facts,
          miss : {"no", "yes", "on"}, errs : {"set", "keep", "either"}, callers : BOOLEAN]
    \cup [do : {"write"}, name : Writes, callers : BOOLEAN,
          list : {"callers", "own", "fresh"}, ok : {"yes", "no", "next"},
          quiet : {"yes", "no"}, result : BOOLEAN, sets : BOOLEAN]

TypeOK ==
    /\ SessionTypeOK
    /\ has \in Worlds
    /\ request \in [Clients -> Requests]
    /\ todo \in [Clients -> Seq(StepType)]
    /\ answer \in [Clients -> {"yes", "no"}]
    /\ ebuf \in [Clients -> BOOLEAN]
    /\ list \in [Clients -> BOOLEAN]
    /\ wrote \in [Clients -> SUBSET Writes]
    /\ found \in [Clients -> SUBSET Facts]
    /\ count \in [Clients -> Nat]
    /\ struck \in [Clients -> Nat]

Idle(c) == todo[c] = <<>>

Try(c, r) ==
    /\ todo' = [todo EXCEPT ![c] = Script(r)]
    /\ answer' = [answer EXCEPT ![c] = "no"]
    /\ wrote' = [wrote EXCEPT ![c] = {}]
    /\ found' = [found EXCEPT ![c] = {}]
    /\ UNCHANGED <<sessionVars, has>>

\* The caller makes a request again, with a clean buffer and list.
Repeat(c) ==
    /\ Idle(c) /\ answer[c] = "no" /\ count[c] < MaxCount
    /\ Try(c, request[c])
    /\ ebuf' = [ebuf EXCEPT ![c] = FALSE]
    /\ list' = [list EXCEPT ![c] = FALSE]
    /\ UNCHANGED <<request, count, struck>>

\* ... or with those of the call before.
RepeatAsIs(c) ==
    /\ Idle(c) /\ answer[c] = "no" /\ count[c] < MaxCount
    /\ Try(c, request[c])
    /\ UNCHANGED <<request, ebuf, list, count, struck>>

\* It turns to another request, buffer and list as they are, when the one it
\* had was answered `yes' or never will be.
Turn(c, r) ==
    /\ Idle(c) /\ (answer[c] = "yes" \/ ~Promising(request[c]))
    /\ Try(c, r)
    /\ request' = [request EXCEPT ![c] = r]
    /\ count' = [count EXCEPT ![c] = 0]
    /\ struck' = [struck EXCEPT ![c] = 0]
    /\ UNCHANGED <<ebuf, list>>

\* Its program ends, and is run again.
Exit(c) ==
    /\ Idle(c)
    /\ EndProcess(c)
    /\ UNCHANGED <<faults, has, todo, caller, history>>

ConnectionDrops(c) == Drop(c) /\ UNCHANGED <<has, todo, caller, history>>

-----------------------------------------------------------------------------
(* The steps of an operation.                                              *)

Step(c) == Head(todo[c])
At(c, do) == todo[c] # <<>> /\ Step(c).do = do

Proceed(c) == todo' = [todo EXCEPT ![c] = Tail(@)] /\ UNCHANGED answer
Answer(c, a) ==
    /\ todo' = [todo EXCEPT ![c] = <<>>]
    /\ answer' = [answer EXCEPT ![c] = a]

Put(c, errors) == \E e \in errors : ebuf' = [ebuf EXCEPT ![c] = e]

\* A test or look-up comes to nothing; `before' is the caller's buffer then.
Miss(c, before) ==
    /\ IF Step(c).miss = "on" THEN Proceed(c) ELSE Answer(c, Step(c).miss)
    /\ Put(c, CASE Step(c).errs = "set" -> {TRUE}
                [] Step(c).errs = "keep" -> {before}
                [] Step(c).errs = "either" -> {TRUE, before})
    /\ UNCHANGED <<has, request, list, history>>

TestArguments(c) ==
    /\ At(c, "check")
    /\ UNCHANGED sessionVars
    /\ \/ Step(c).ok /\ Proceed(c) /\ UNCHANGED <<has, request, ebuf, list, history>>
       \/ ~Step(c).ok /\ Miss(c, ebuf[c])

ClearError(c) ==
    /\ At(c, "clear")
    /\ Proceed(c) /\ Put(c, {FALSE})
    /\ UNCHANGED <<sessionVars, has, request, list, history>>

TestBuffer(c) ==
    /\ At(c, "untroubled")
    /\ IF ebuf[c] THEN Answer(c, "no") ELSE Proceed(c)
    /\ UNCHANGED <<sessionVars, has, request, ebuf, list, history>>

\* There is an error in the buffer the input list was made with, so there is
\* no input list: call_opcode clears the caller's buffer, connects and refuses.
NoInput(c) == Step(c).callers /\ ebuf[c]
Connect(c) == ctx' = [ctx EXCEPT ![c] = OpenConnection(c)] /\ UNCHANGED faults

LookUp(c) ==
    /\ At(c, "look") /\ ~NoInput(c)
    /\ Step(c).facts \subseteq has
    /\ Performed(c)
    /\ Proceed(c)
    /\ found' = [found EXCEPT ![c] = @ \cup Step(c).facts \cup (Step(c).also \cap has)]
    /\ UNCHANGED <<has, request, ebuf, list, wrote, count, struck>>

LookUpMisses(c) ==
    /\ At(c, "look")
    /\ \/ NoInput(c) /\ (Connect(c) \/ Unsent(c))
       \/ ~NoInput(c) /\ ~(Step(c).facts \subseteq has) /\ Performed(c)
       \/ ~NoInput(c) /\ Failing(c)
    /\ Miss(c, IF Step(c).callers THEN FALSE ELSE ebuf[c])

\* call_opcode finds a list in the output argument, deletes it and refuses.
OutputTaken(c) == Step(c).list = "callers" /\ list[c]

Sendable(c) == At(c, "write") /\ ~NoInput(c) /\ ~OutputTaken(c)

Wrote(c) ==
    /\ wrote' = [wrote EXCEPT ![c] = @ \cup {Step(c).name}]
    /\ count' = IF Step(c).ok = "next" THEN count ELSE [count EXCEPT ![c] = @ + 1]
    /\ UNCHANGED found

GetList(c) == list' = [list EXCEPT ![c] = @ \/ Step(c).list # "own"]

\* A plausible slip: a success of the last write not told.
WriteForgetful(c) ==
    /\ Sendable(c)
    /\ Performed(c)
    /\ Wrote(c) /\ GetList(c)
    /\ IF Step(c).ok = "next" THEN Proceed(c) ELSE Answer(c, "no")
    /\ UNCHANGED <<has, request, ebuf, struck>>

Perform(c) ==
    /\ Sendable(c)
    /\ Performed(c)
    /\ Wrote(c) /\ GetList(c)
    /\ IF Step(c).ok = "next" THEN Proceed(c) ELSE Answer(c, Step(c).ok)
    /\ UNCHANGED <<has, request, ebuf, struck>>

\* The server makes the payment an unsuccessful one.
Decline(c) ==
    /\ Sendable(c) /\ Step(c).result
    /\ Refused(c)
    /\ GetList(c)
    /\ Answer(c, "no") /\ Put(c, {Step(c).sets})
    /\ UNCHANGED <<has, request, history>>

Fail(c) ==
    /\ Sendable(c)
    /\ Refused(c) \/ Dead(c)
    /\ Answer(c, "no") /\ Put(c, {ebuf[c] \/ Step(c).callers})
    /\ UNCHANGED <<has, request, list, history>>

Lose(c) ==
    /\ Sendable(c)
    /\ Lost(c)
    /\ \/ UNCHANGED history
       \/ /\ Wrote(c)
          /\ struck' = IF Step(c).ok = "next" THEN struck ELSE [struck EXCEPT ![c] = @ + 1]
    /\ Answer(c, "no") /\ Put(c, {ebuf[c] \/ Step(c).callers})
    /\ UNCHANGED <<has, request, list>>

\* The call is not sent, and leaves no error: there is no connection, or
\* call_opcode does not like its arguments.
Withhold(c) ==
    /\ At(c, "write")
    /\ \/ Unsent(c) /\ UNCHANGED list
       \/ NoInput(c) /\ Connect(c) /\ UNCHANGED list
       \/ /\ ~NoInput(c) /\ OutputTaken(c) /\ Connect(c)
          /\ list' = [list EXCEPT ![c] = FALSE]
    /\ Answer(c, Step(c).quiet)
    /\ Put(c, {IF Step(c).callers THEN Step(c).sets ELSE ebuf[c]})
    /\ UNCHANGED <<has, request, history>>

Operate(c) ==
    \/ TestArguments(c) \/ ClearError(c) \/ TestBuffer(c)
    \/ LookUp(c) \/ LookUpMisses(c)
    \/ Perform(c) \/ Decline(c) \/ Fail(c) \/ Lose(c) \/ Withhold(c)

Next ==
    \E c \in Clients :
        \/ Operate(c) \/ Repeat(c) \/ RepeatAsIs(c) \/ \E r \in Requests : Turn(c, r)
        \/ Exit(c) \/ ConnectionDrops(c)

Spec == Init /\ [][Next]_vars

\* An operation that was begun goes on; a caller comes back with a clean buffer
\* and list, and starts its program afresh now and then.
FairSpec ==
    /\ Spec
    /\ \A c \in Clients :
          WF_vars(Operate(c)) /\ SF_vars(Repeat(c)) /\ SF_vars(Exit(c) /\ ctx' # ctx)

-----------------------------------------------------------------------------
(* Properties.                                                             *)

\* A caller that repeats what was answered `no' does not do it twice, but for
\* the calls whose answer was lost; not so adjustResource, whose base function
\* answers `no' whatever the server has done.
OnceUnlessLost ==
    \A c \in Clients :
        request[c].op # "adjustResource" =>
            count[c] <= struck[c] + (IF answer[c] = "yes" THEN 1 ELSE 0)

LastWrite(r) == IF r.op = "activateLEC" THEN "activate" ELSE r.op

CollectNeeds == {"payType", "balGroup", "billinfo", "payinfo", "ach"}

\* `yes' means that the server has done it, although the answer is taken from
\* the call's return value here and from the error buffer there.  Two are not
\* to be believed: a collect that misses a fact answers false, which is
\* PIN_RESULT_PASS; and a recourse only looks at the buffer, which a call that
\* was never sent leaves clear.
YesMeansDone ==
    \A c \in Clients :
        (Idle(c) /\ answer[c] = "yes") =>
            \/ LastWrite(request[c]) \in wrote[c]
            \/ request[c].op = "collect" /\ ~(CollectNeeds \subseteq found[c])
            \/ request[c].op = "recourse"

\* The billing day of a LEC account is set and the account not active only
\* where a connection failed or a call was refused: the list the first call
\* leaves behind, or one the caller had, never stops the second.
HalfActiveOnlyAfterFault ==
    \A c \in Clients :
        (Idle(c) /\ "billingDay" \in wrote[c] /\ "activate" \notin wrote[c]) => faults > 0

\* The facts the list of the last write is filled from.
Needed(r) ==
    (IF r.by = "no" /\ r.op # "recourse" THEN LoadByAccountNo ELSE {}) \cup
    (CASE r.op = "activateLEC" -> {"payType"}
       [] r.op = "adjustItem" -> {"item"}
       [] r.op \in {"adjustCash", "adjustResource"} -> {"balGroup"}
       [] r.op \in {"collect", "check"} -> CollectNeeds
       [] r.op = "refund" -> {"balGroup", "billinfo"}
       [] r.op = "chargeback" -> {"balGroup", "payment"}
       [] r.op = "usage" -> {"service"}
       [] r.op = "voip" -> {"serial"}
       [] OTHER -> {}) \cup
    (CASE r.op = "collect" /\ r.by = "no" /\ r.value = "special" -> {"owes"}
       [] r.op = "refund" /\ r.by = "no" /\ r.value = "special" -> {"credit"}
       [] r.op = "status" /\ r.by = "no" /\ r.service = "type" -> {"service"}
       [] OTHER -> {}) \cup
    (IF r.op = "status" /\ r.value = "special" THEN {"flags"} ELSE {})

\* Three are done without: a usage is loaded with an empty serial number and a
\* status set with flags 0 when the look-up misses or fails; a refund is sent
\* with a NULL billinfo, but only when the balance group has none.
Dispensable(c) ==
    CASE request[c].op = "voip" -> {"serial"}
      [] request[c].op = "status" -> {"flags"}
      [] request[c].op = "refund" -> {"billinfo"} \ has
      [] OTHER -> {}

\* No write is made with another fact of its list missing, and no refund with
\* NULL for a billinfo that a failed call has not told: where an operation goes
\* on after a look-up that failed, the error in the buffer keeps the list from
\* being made.
NoBlindWrite ==
    \A c \in Clients : wrote[c] # {} => Needed(request[c]) \subseteq found[c] \cup Dispensable(c)

\* A request nothing stands in the way of succeeds in the end, if its caller
\* repeats it with a clean buffer and list and starts afresh now and then.
EveryPromisingRequestSucceeds ==
    \A c \in Clients, r \in Requests :
        (request[c] = r /\ Promising(r)) ~> (request[c] = r /\ answer[c] = "yes")
=============================================================================
