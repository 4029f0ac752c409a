-------------------------- MODULE BillingOpsProofs --------------------------
(***************************************************************************)
(* Proofs about module BillingOps, for any requests, data bases, callers   *)
(* and faults.                                                             *)
(***************************************************************************)
EXTENDS BillingOps, SequenceTheorems, TLAPS

\* The steps an operation may have.  Only a collect answers `yes' when a look-up
\* misses, and only a refund is told of more than it must find; the success of a write is answered `yes' only for the last one of its
\* operation, and `no' only by adjustResource; a call that was not sent is
\* answered `yes' only by a recourse; and only activateLEC has a billing day set.
StepsOf(op) ==
    {s \in StepType :
        /\ s.do = "look" => /\ s.miss = "yes" => op = "collect"
                            /\ s.also \subseteq (IF op = "refund" THEN {"billinfo"} ELSE {})
        /\ s.do = "write" =>
              /\ s.ok = "no" => op = "adjustResource"
              /\ s.ok = "yes" => s.name = IF op = "activateLEC" THEN "activate" ELSE op
              /\ s.quiet = "yes" => op = "recourse"
              /\ s.name = "billingDay" => op = "activateLEC" /\ s.ok = "next" /\ s.callers}

\* ... of which these write nothing.
ReadsOf(op) == {s \in StepsOf(op) : s.do # "write"}

\* An operation under way has not answered, and what it still has to do are
\* steps of its own.
UnderWay ==
    \A c \in Clients :
        /\ todo[c] \in Seq(StepsOf(request[c].op))
        /\ ~Idle(c) => answer[c] = "no"

IInv == TypeOK /\ UnderWay /\ OnceUnlessLost
-----------------------------------------------------------------------------
(* Scripts.                                                                *)

LEMMA Single == ASSUME NEW S, NEW s \in S PROVE <<s>> \in Seq(S)
OBVIOUS

LEMMA Append2 == ASSUME NEW S, NEW s \in Seq(S), NEW t \in Seq(S) PROVE s \o t \in Seq(S)
BY ConcatProperties

LEMMA ReadsAreSteps == ASSUME NEW op PROVE Seq(ReadsOf(op)) \subseteq Seq(StepsOf(op))
BY DEF ReadsOf

LEMMA SimpleSteps ==
    ASSUME NEW op
    PROVE  /\ Clear \in Seq(ReadsOf(op))
           /\ Untroubled \in Seq(ReadsOf(op))
           /\ \A ok \in BOOLEAN, errs \in {"set", "keep"} :
                 Check(ok, errs) \in Seq(ReadsOf(op))
BY DEF Clear, Untroubled, Check, ReadsOf, StepsOf, StepType

LEMMA Looks ==
    ASSUME NEW op, NEW facts \in SUBSET Facts, NEW miss \in {"no", "yes", "on"},
           NEW errs \in {"set", "keep", "either"}, miss # "yes" \/ op = "collect"
    PROVE  /\ Find(facts, miss, errs) \in Seq(ReadsOf(op))
           /\ Read(facts, miss, errs) \in Seq(ReadsOf(op))
<1> DEFINE l == LookStep(facts, miss, errs)
<1>1. l \in ReadsOf(op) /\ [l EXCEPT !.callers = TRUE] \in ReadsOf(op)
  BY DEF LookStep, ReadsOf, StepsOf, StepType
<1> QED
  BY <1>1, Single DEF Find, Read

LEMMA RefundLooks == <<[BillinfoOfBalGroup EXCEPT !.callers = TRUE]>> \in Seq(ReadsOf("refund"))
<1>1. [BillinfoOfBalGroup EXCEPT !.callers = TRUE] \in ReadsOf("refund")
  BY DEF BillinfoOfBalGroup, LookStep, ReadsOf, StepsOf, StepType, Facts
<1> QED
  BY <1>1, Single

LEMMA WriteSteps ==
    ASSUME NEW op \in Ops \ {"activateLEC"}
    PROVE  /\ WriteStep(op) \in StepsOf(op)
           /\ Write(op) \in Seq(StepsOf(op))
           /\ OwnListWrite(op) \in Seq(StepsOf(op))
<1>0. op \in Writes /\ op # "billingDay" /\ op # "activateLEC"
  BY DEF Writes, Ops
<1>1. WriteStep(op) \in StepsOf(op)
  BY <1>0 DEF WriteStep, StepsOf, StepType
<1>2. [WriteStep(op) EXCEPT !.list = "own"] \in StepsOf(op)
  BY <1>0 DEF WriteStep, StepsOf, StepType
<1> QED
  BY <1>1, <1>2 DEF Write, OwnListWrite

LEMMA LookUps ==
    ASSUME NEW r \in RequestType, NEW op, NEW miss \in {"no", "yes", "on"}, NEW sign \in Facts,
           miss # "yes" \/ op = "collect"
    PROVE  /\ ResolveAccountPoid(r) \in Seq(ReadsOf(op))
           /\ PayType \in Seq(ReadsOf(op))
           /\ BalGroup(miss) \in Seq(ReadsOf(op))
           /\ BillingAndPaymentInfo(miss) \in Seq(ReadsOf(op))
           /\ AccountBalance(sign) \in Seq(ReadsOf(op))
           /\ ServiceByAccountType \in Seq(ReadsOf(op))
           /\ AmountGiven(r) \in Seq(ReadsOf(op))
           /\ AmountOrFull(r, sign) \in Seq(ReadsOf(op))
<1>1. /\ LoadByAccountNo \in SUBSET Facts
      /\ \A f \in Facts : {f} \in SUBSET Facts
      /\ {"payType", "balGroup", "billinfo", "payinfo", "ach", "service"} \subseteq Facts
  BY DEF LoadByAccountNo, Facts
<1>2. ResolveAccountPoid(r) \in Seq(ReadsOf(op))
  BY <1>1, SimpleSteps, Looks DEF ResolveAccountPoid
<1>3. PayType \in Seq(ReadsOf(op)) /\ ServiceByAccountType \in Seq(ReadsOf(op))
  BY <1>1, Looks DEF PayType, ServiceByAccountType
<1>4. BalGroup(miss) \in Seq(ReadsOf(op)) /\ AccountBalance(sign) \in Seq(ReadsOf(op))
  BY <1>1, Looks DEF BalGroup, AccountBalance
<1>5. BillingAndPaymentInfo(miss) \in Seq(ReadsOf(op))
  <2>1. \A f \in {"billinfo", "payinfo", "ach"} : Find({f}, miss, "keep") \in Seq(ReadsOf(op))
    BY <1>1, Looks
  <2> QED
    BY <2>1, Append2 DEF BillingAndPaymentInfo
<1>6. AmountGiven(r) \in Seq(ReadsOf(op))
  BY SimpleSteps DEF AmountGiven
<1> QED
  BY <1>2, <1>3, <1>4, <1>5, <1>6 DEF AmountOrFull

\* The translation of the arguments writes nothing.
LEMMA TranslationReads == ASSUME NEW r \in RequestType PROVE Translation(r) \in Seq(ReadsOf(r.op))
<1> DEFINE S == Seq(ReadsOf(r.op))
<1>1. /\ ResolveAccountPoid(r) \in S
      /\ AmountGiven(r) \in S
      /\ AmountOrFull(r, "owes") \in S
      /\ AmountOrFull(r, "credit") \in S
      /\ ServiceByAccountType \in S
  BY LookUps DEF Facts
<1>2. /\ Clear \in S /\ Untroubled \in S /\ <<>> \in S
      /\ Check(r.value # "bad", "set") \in S
      /\ Check(FALSE, "set") \in S
  <2>1. (r.value # "bad") \in BOOLEAN
    OBVIOUS
  <2>2. \A ok \in BOOLEAN, errs \in {"set", "keep"} : Check(ok, errs) \in S
    BY SimpleSteps
  <2>3. Clear \in S /\ Untroubled \in S /\ <<>> \in S
    BY SimpleSteps
  <2> HIDE DEF S
  <2> QED
    BY <2>1, <2>2, <2>3, Zenon
<1>3. UpdateStatusArgs(r) \in S
  <2>1. (CASE r.service = "id0" -> Check(FALSE, "set")
            [] r.service = "type" -> ServiceByAccountType
            [] r.service = "none" -> <<>>) \in S
    BY <1>1, <1>2 DEF RequestType
  <2> HIDE DEF S
  <2> QED
    BY <1>1, <1>2, <2>1, Append2 DEF UpdateStatusArgs, S
<1>4. /\ ResolveAccountPoid(r) \o AmountGiven(r) \in S
      /\ ResolveAccountPoid(r) \o AmountOrFull(r, "owes") \in S
      /\ ResolveAccountPoid(r) \o AmountOrFull(r, "credit") \o Clear \in S
  BY <1>1, <1>2, Append2
<1> HIDE DEF S
<1>5. Translation(r) \in S
  BY <1>1, <1>2, <1>3, <1>4 DEF Translation, ActivateLECArgs, AdjustItemArgs, AdjustCashBalanceArgs,
     AdjustResourceBalanceArgs, CancelAccountArgs, CollectAccountArgs,
     ReceiveCheckPaymentArgs, RefundAccountArgs, ChargebackAccountArgs,
     UpdatePayinfoArgs, UpdateContactInfoArgs, LoadUsageArgs
<1> QED
  BY <1>5 DEF S

\* ... and the base function is made of the operation's steps.
LEMMA BaseSteps == ASSUME NEW r \in RequestType PROVE Base(r) \in Seq(StepsOf(r.op))
<1> DEFINE S == Seq(StepsOf(r.op))
<1> SUFFICES Base(r) \in S
  OBVIOUS
<1>1. /\ PayType \in S
      /\ BalGroup("no") \in S /\ BalGroup("on") \in S
      /\ BillingAndPaymentInfo("no") \in S
      /\ r.op = "collect" => BalGroup("yes") \in S /\ BillingAndPaymentInfo("yes") \in S
      /\ ResolveAccountPoid(r) \in S
  BY LookUps, ReadsAreSteps DEF Facts
<1>2. /\ Clear \in S /\ <<>> \in S
      /\ Check(r.by = "poid" /\ r.value = "good", "set") \in S
      /\ Check(r.value = "good", "keep") \in S
  <2>1. (r.by = "poid" /\ r.value = "good") \in BOOLEAN /\ (r.value = "good") \in BOOLEAN
    OBVIOUS
  <2>2. \A ok \in BOOLEAN, errs \in {"set", "keep"} : Check(ok, errs) \in S
    BY SimpleSteps, ReadsAreSteps
  <2>3. Clear \in S /\ <<>> \in S
    BY SimpleSteps, ReadsAreSteps
  <2> HIDE DEF S
  <2> QED
    BY <2>1, <2>2, <2>3, Zenon
<1>3. /\ \A f \in Facts, miss \in {"no", "on"}, errs \in {"set", "keep", "either"} :
            Find({f}, miss, errs) \in S /\ Read({f}, miss, errs) \in S
      /\ Find(LoadByAccountNo, "no", "keep") \in S
  <2>1. \A facts \in SUBSET Facts, miss \in {"no", "on"}, errs \in {"set", "keep", "either"} :
           /\ Find(facts, miss, errs) \in Seq(ReadsOf(r.op))
           /\ Read(facts, miss, errs) \in Seq(ReadsOf(r.op))
    BY Looks
  <2>2. Seq(ReadsOf(r.op)) \subseteq S
    BY ReadsAreSteps
  <2>3. LoadByAccountNo \in SUBSET Facts
    BY DEF LoadByAccountNo, Facts
  <2> HIDE DEF S
  <2>4. \A f \in Facts : {f} \in SUBSET Facts
    OBVIOUS
  <2> QED
    BY <2>1, <2>2, <2>3, <2>4
<1>4. \A f \in {"item", "balGroup", "flags", "payment", "service", "serial"} : f \in Facts
  BY DEF Facts
<1>5. r.op # "activateLEC" => Write(r.op) \in S /\ OwnListWrite(r.op) \in S
  BY WriteSteps DEF RequestType
<1>7. CASE r.op = "activateLEC"
  <2>1. /\ <<[WriteStep("billingDay") EXCEPT !.list = "own", !.ok = "next"]>> \in S
        /\ <<[WriteStep("activate") EXCEPT !.list = "fresh"]>> \in S
    <3>1. [WriteStep("billingDay") EXCEPT !.list = "own", !.ok = "next"] \in StepsOf(r.op)
      BY <1>7 DEF WriteStep, StepsOf, StepType, Writes
    <3>2. [WriteStep("activate") EXCEPT !.list = "fresh"] \in StepsOf(r.op)
      BY <1>7 DEF WriteStep, StepsOf, StepType, Writes
    <3> QED
      BY <3>1, <3>2, Single
  <2> HIDE DEF S
  <2>2. ActivateLEC(r) \in S
    BY <1>1, <1>2, <2>1, Append2 DEF ActivateLEC, S
  <2> QED
    BY <1>7, <2>2 DEF Base
<1>8. CASE r.op = "adjustResource"
  <2>1. <<[WriteStep("adjustResource") EXCEPT !.ok = "no"]>> \in S
    <3>1. [WriteStep("adjustResource") EXCEPT !.ok = "no"] \in StepsOf(r.op)
      BY <1>8 DEF WriteStep, StepsOf, StepType, Writes, Ops
    <3> QED
      BY <3>1, Single
  <2>2. AdjustResourceBalance(r) \in S
    BY <1>1, <1>2, <2>1, Append2 DEF AdjustResourceBalance
  <2> QED
    BY <1>8, <2>2 DEF Base
<1>9. CASE r.op \in {"delete", "collect", "check", "chargeback", "recourse"}
  <2>1. /\ r.op = "delete" =>
              <<[WriteStep("delete") EXCEPT !.callers = FALSE, !.list = "own"]>> \in S
        /\ r.op = "collect" => <<[WriteStep("collect") EXCEPT !.result = TRUE]>> \in S
        /\ r.op = "check" => <<[WriteStep("check") EXCEPT !.result = TRUE, !.sets = TRUE]>> \in S
        /\ r.op = "chargeback" => <<[WriteStep("chargeback") EXCEPT !.sets = (r.by = "no")]>> \in S
        /\ r.op = "recourse" => <<[WriteStep("recourse") EXCEPT !.quiet = "yes"]>> \in S
        /\ <<[do |-> "check", ok |-> r.value = "good", miss |-> "on", errs |-> "set"]>> \in S
    <3>1. ASSUME r.op = "delete"
          PROVE  [WriteStep("delete") EXCEPT !.callers = FALSE, !.list = "own"] \in StepsOf(r.op)
      BY <3>1 DEF WriteStep, StepsOf, StepType, Writes, Ops
    <3>2. ASSUME r.op = "collect"
          PROVE  [WriteStep("collect") EXCEPT !.result = TRUE] \in StepsOf(r.op)
      BY <3>2 DEF WriteStep, StepsOf, StepType, Writes, Ops
    <3>3. ASSUME r.op = "check"
          PROVE  [WriteStep("check") EXCEPT !.result = TRUE, !.sets = TRUE] \in StepsOf(r.op)
      BY <3>3 DEF WriteStep, StepsOf, StepType, Writes, Ops
    <3>4. ASSUME r.op = "chargeback"
          PROVE  [WriteStep("chargeback") EXCEPT !.sets = (r.by = "no")] \in StepsOf(r.op)
      <4>1. \A b \in BOOLEAN : [WriteStep("chargeback") EXCEPT !.sets = b] \in StepsOf(r.op)
        BY <3>4 DEF WriteStep, StepsOf, StepType, Writes, Ops
      <4>2. (r.by = "no") \in BOOLEAN
        OBVIOUS
      <4> QED
        BY <4>1, <4>2, Zenon
    <3>5. ASSUME r.op = "recourse"
          PROVE  [WriteStep("recourse") EXCEPT !.quiet = "yes"] \in StepsOf(r.op)
      BY <3>5 DEF WriteStep, StepsOf, StepType, Writes, Ops
    <3>6. [do |-> "check", ok |-> r.value = "good", miss |-> "on", errs |-> "set"] \in StepsOf(r.op)
      BY DEF StepsOf, StepType
    <3> HIDE DEF S
    <3> QED
      BY <3>1, <3>2, <3>3, <3>4, <3>5, <3>6, Single DEF S
  <2>2. ASSUME r.op = "delete" PROVE DeleteByAccountNo(r) \in S
    BY <2>2, <1>3, <2>1, Append2 DEF DeleteByAccountNo
  <2>3. ASSUME r.op = "collect" PROVE CollectAccount(r) \in S
    <3> HIDE DEF S
    <3> QED BY <2>3, <1>1, <1>2, <2>1, Append2 DEF CollectAccount, S
  <2>4. ASSUME r.op = "check" PROVE ReceiveCheckPayment(r) \in S
    <3>1. Find({"balGroup"}, "no", "set") \in S
      BY <2>4, <1>3, <1>4
    <3> HIDE DEF S
    <3> QED BY <2>4, <1>1, <1>2, <2>1, <3>1, Append2 DEF ReceiveCheckPayment, S
  <2>5. ASSUME r.op = "chargeback" PROVE ChargebackAccount(r) \in S
    <3>1. Read({"balGroup"}, "no", "set") \in S /\ Read({"payment"}, "no", "set") \in S
      BY <2>5, <1>3, <1>4
    <3> HIDE DEF S
    <3> QED BY <2>5, <1>2, <2>1, <3>1, Append2 DEF ChargebackAccount, S
  <2>6. ASSUME r.op = "recourse" PROVE CreateLECRecourse(r) \in S
    BY <2>6, <1>2, <2>1, Append2 DEF CreateLECRecourse
  <2> HIDE DEF S
  <2> QED
    BY <1>9, <2>2, <2>3, <2>4, <2>5, <2>6 DEF Base
<1>10. CASE r.op \in {"adjustItem", "adjustCash", "cancel", "status"}
  <2>1. ASSUME r.op = "adjustItem" PROVE AdjustItem(r) \in S
    <3>1. /\ Read({"item"}, "no", "set") \in S /\ Read({"item"}, "on", "set") \in S
          /\ Write("adjustItem") \in S
      BY <2>1, <1>3, <1>4, <1>5 DEF Ops
    <3> HIDE DEF S
    <3> QED BY <2>1, <1>2, <3>1, Append2 DEF AdjustItem, S
  <2>2. ASSUME r.op = "adjustCash" PROVE AdjustCashBalance(r) \in S
    <3>1. Write("adjustCash") \in S
      BY <2>2, <1>5 DEF Ops
    <3> QED BY <2>2, <1>1, <1>2, <3>1, Append2 DEF AdjustCashBalance
  <2>3. ASSUME r.op = "cancel" PROVE CancelAccount(r) \in S
    <3>1. Write("cancel") \in S
      BY <2>3, <1>5 DEF Ops
    <3> QED BY <2>3, <1>2, <3>1, Append2 DEF CancelAccount
  <2>4. ASSUME r.op = "status" PROVE UpdateStatus(r) \in S
    <3>1. Write("status") \in S /\ Find({"flags"}, "on", "keep") \in S
      BY <2>4, <1>3, <1>4, <1>5 DEF Ops
    <3> QED BY <2>4, <1>2, <3>1, Append2 DEF UpdateStatus
  <2> HIDE DEF S
  <2> QED
    BY <1>10, <2>1, <2>2, <2>3, <2>4 DEF Base
<1>11. CASE r.op \in {"refund", "payinfo", "contact", "usage", "voip"}
  <2>1. ASSUME r.op = "refund" PROVE RefundAccount(r) \in S
    <3>1. /\ <<[BillinfoOfBalGroup EXCEPT !.callers = TRUE]>> \in S
          /\ OwnListWrite("refund") \in S
      BY <2>1, <1>5, RefundLooks, ReadsAreSteps DEF Ops
    <3> QED BY <2>1, <1>1, <3>1, Append2 DEF RefundAccount
  <2>2. ASSUME r.op = "payinfo" PROVE UpdatePayinfo(r) \in S
    <3>1. Write("payinfo") \in S
      BY <2>2, <1>5 DEF Ops
    <3> QED BY <2>2, <1>2, <3>1, Append2 DEF UpdatePayinfo
  <2>3. ASSUME r.op = "contact" PROVE UpdateContactInfo(r) \in S
    <3>1. OwnListWrite("contact") \in S
      BY <2>3, <1>5 DEF Ops
    <3> QED BY <2>3, <1>2, <3>1, Append2 DEF UpdateContactInfo
  <2>4. ASSUME r.op = "usage" PROVE LoadUsage(r) \in S
    <3>1. Write("usage") \in S /\ Read({"service"}, "no", "either") \in S
      BY <2>4, <1>3, <1>4, <1>5 DEF Ops
    <3> HIDE DEF S
    <3> QED BY <2>4, <1>2, <3>1, Append2 DEF LoadUsage, S
  <2>5. ASSUME r.op = "voip" PROVE LoadVoipCDRUsage(r) \in S
    <3>1. Write("voip") \in S /\ Find({"serial"}, "on", "keep") \in S
      BY <2>5, <1>3, <1>4, <1>5 DEF Ops
    <3> QED BY <2>5, <1>1, <3>1, Append2 DEF LoadVoipCDRUsage
  <2> HIDE DEF S
  <2> QED
    BY <1>11, <2>1, <2>2, <2>3, <2>4, <2>5 DEF Base
<1> QED
  BY <1>7, <1>8, <1>9, <1>10, <1>11 DEF RequestType, Ops

\* The script of every request consists of the steps of its operation.
LEMMA ScriptSteps == ASSUME NEW r \in RequestType PROVE Script(r) \in Seq(StepsOf(r.op))
<1>1. Translation(r) \in Seq(StepsOf(r.op))
  BY TranslationReads, ReadsAreSteps
<1> QED
  BY <1>1, BaseSteps, Append2 DEF Script
-----------------------------------------------------------------------------
(* Steps of the system.                                                    *)

\* Going on leaves steps of the operation, and answering none.
LEMMA Going ==
    ASSUME TypeOK, UnderWay, NEW c \in Clients, todo[c] # <<>>
    PROVE  /\ Step(c) \in StepsOf(request[c].op)
           /\ Step(c) \in StepType
           /\ Proceed(c) => /\ todo' \in [Clients -> Seq(StepType)]
                            /\ answer' = answer
                            /\ \A d \in Clients : todo'[d] \in Seq(StepsOf(request[d].op))
                            /\ \A d \in Clients \ {c} : todo'[d] = todo[d]
                            /\ answer[c] = "no"
           /\ \A a \in {"yes", "no"} :
                 Answer(c, a) => /\ todo' \in [Clients -> Seq(StepType)]
                                 /\ answer' \in [Clients -> {"yes", "no"}]
                                 /\ answer'[c] = a /\ todo'[c] = <<>>
                                 /\ \A d \in Clients : todo'[d] \in Seq(StepsOf(request[d].op))
                                 /\ \A d \in Clients \ {c} : todo'[d] = todo[d] /\ answer'[d] = answer[d]
<1>1. Step(c) \in StepsOf(request[c].op) /\ Step(c) \in StepType
  BY HeadTailProperties DEF UnderWay, Step, StepsOf
<1>2. Tail(todo[c]) \in Seq(StepsOf(request[c].op)) /\ Tail(todo[c]) \in Seq(StepType)
  BY HeadTailProperties DEF UnderWay, TypeOK
<1>3. answer[c] = "no"
  BY DEF UnderWay, Idle
<1>4. \A d \in Clients : todo[d] \in Seq(StepsOf(request[d].op))
  BY DEF UnderWay
<1>5. ASSUME Proceed(c)
      PROVE  /\ todo' \in [Clients -> Seq(StepType)]
             /\ answer' = answer
             /\ \A d \in Clients : todo'[d] \in Seq(StepsOf(request[d].op))
             /\ \A d \in Clients \ {c} : todo'[d] = todo[d]
  <2>1. todo' = [todo EXCEPT ![c] = Tail(todo[c])] /\ answer' = answer
    BY <1>5 DEF Proceed
  <2>2. todo \in [Clients -> Seq(StepType)]
    BY DEF TypeOK
  <2> QED
    BY <1>2, <1>4, <2>1, <2>2
<1>6. ASSUME NEW a \in {"yes", "no"}, Answer(c, a)
      PROVE  /\ todo' \in [Clients -> Seq(StepType)]
             /\ answer' \in [Clients -> {"yes", "no"}]
             /\ answer'[c] = a /\ todo'[c] = <<>>
             /\ \A d \in Clients : todo'[d] \in Seq(StepsOf(request[d].op))
             /\ \A d \in Clients \ {c} : todo'[d] = todo[d] /\ answer'[d] = answer[d]
  <2>1. todo' = [todo EXCEPT ![c] = <<>>] /\ answer' = [answer EXCEPT ![c] = a]
    BY <1>6 DEF Answer
  <2>2. todo \in [Clients -> Seq(StepType)] /\ answer \in [Clients -> {"yes", "no"}]
    BY DEF TypeOK
  <2>3. \A S : <<>> \in Seq(S)
    OBVIOUS
  <2> QED
    BY <1>4, <2>1, <2>2, <2>3
<1> QED
  BY <1>1, <1>3, <1>5, <1>6

\* A step of an operation that carries nothing out.
LEMMA Unhurt ==
    ASSUME IInv, NEW c \in Clients, todo[c] # <<>>,
           Proceed(c) \/ \E a \in {"yes", "no"} : Answer(c, a),
           SessionTypeOK', ebuf' \in [Clients -> BOOLEAN], list' \in [Clients -> BOOLEAN],
           found' \in [Clients -> SUBSET Facts],
           UNCHANGED <<has, request, wrote, count, struck>>
    PROVE  IInv'
<1>1. /\ todo' \in [Clients -> Seq(StepType)]
      /\ answer' \in [Clients -> {"yes", "no"}]
      /\ \A d \in Clients : todo'[d] \in Seq(StepsOf(request[d].op))
      /\ \A d \in Clients : todo'[d] # <<>> => answer'[d] = "no"
      /\ answer[c] = "no"
      /\ \A d \in Clients \ {c} : answer'[d] = answer[d]
  BY Going DEF IInv, TypeOK, UnderWay, Idle
<1>2. TypeOK'
  BY <1>1 DEF IInv, TypeOK
<1>3. UnderWay'
  BY <1>1 DEF UnderWay, Idle
<1>4. OnceUnlessLost'
  <2> SUFFICES ASSUME NEW d \in Clients, request[d].op # "adjustResource"
               PROVE  count[d] <= struck[d] + (IF answer'[d] = "yes" THEN 1 ELSE 0)
    BY DEF OnceUnlessLost
  <2>1. count[d] <= struck[d] + (IF answer[d] = "yes" THEN 1 ELSE 0)
    BY DEF IInv, OnceUnlessLost
  <2>2. count[d] \in Nat /\ struck[d] \in Nat
    BY DEF IInv, TypeOK
  <2> QED
    BY <1>1, <2>1, <2>2
<1> QED
  BY <1>2, <1>3, <1>4 DEF IInv

LEMMA SessionStep ==
    ASSUME SessionTypeOK, NEW c \in Clients
    PROVE  /\ Performed(c) => SessionTypeOK'
           /\ Refused(c) => SessionTypeOK'
           /\ Lost(c) => SessionTypeOK'
           /\ Dead(c) => SessionTypeOK'
           /\ Unsent(c) => SessionTypeOK'
           /\ Drop(c) => SessionTypeOK'
           /\ Connect(c) => SessionTypeOK'
           /\ EndProcess(c) /\ UNCHANGED faults => SessionTypeOK'
           /\ UNCHANGED sessionVars => SessionTypeOK'
BY PinSessionAssumption DEF SessionTypeOK, Contexts, Performed, Refused, Lost, Dead, Unsent, Drop, Connect,
   EndProcess, OpenConnection, IsConnected, Fault, sessionVars

LEMMA MissStep ==
    ASSUME IInv, NEW c \in Clients, todo[c] # <<>>, Step(c).do \in {"check", "look"},
           NEW before \in BOOLEAN, Miss(c, before), SessionTypeOK'
    PROVE  IInv'
<1>1. Step(c) \in StepType
  BY Going DEF IInv
<1>2. Step(c).miss \in {"no", "yes", "on"} /\ Step(c).errs \in {"set", "keep", "either"}
  BY <1>1 DEF StepType
<1>3. Proceed(c) \/ \E a \in {"yes", "no"} : Answer(c, a)
  BY <1>2 DEF Miss
<1>4. ebuf' \in [Clients -> BOOLEAN]
  <2>1. ebuf \in [Clients -> BOOLEAN]
    BY DEF IInv, TypeOK
  <2>2. \E e \in BOOLEAN : ebuf' = [ebuf EXCEPT ![c] = e]
    BY <1>2 DEF Miss, Put
  <2> QED
    BY <2>1, <2>2
<1> QED
  BY <1>3, <1>4, Unhurt DEF Miss, IInv, TypeOK, history

LEMMA NextIInv == IInv /\ [Next]_vars => IInv'
<1> SUFFICES ASSUME IInv, [Next]_vars PROVE IInv'
  OBVIOUS
<1> USE BillingOpsAssumption
<1>0. TypeOK /\ UnderWay /\ OnceUnlessLost /\ SessionTypeOK
  BY DEF IInv, TypeOK
<1>1. ASSUME NEW c \in Clients, TestArguments(c) PROVE IInv'
  <2>1. todo[c] # <<>> /\ Step(c).do = "check" /\ SessionTypeOK'
    BY <1>0, <1>1, SessionStep DEF TestArguments, At
  <2>2. CASE Proceed(c) /\ UNCHANGED <<has, request, ebuf, list, history>>
    BY <1>0, <2>1, <2>2, Unhurt DEF TypeOK, history
  <2>3. CASE Miss(c, ebuf[c])
    BY <1>0, <2>1, <2>3, MissStep DEF TypeOK
  <2> QED
    BY <1>1, <2>2, <2>3 DEF TestArguments
<1>2. ASSUME NEW c \in Clients, ClearError(c) PROVE IInv'
  <2>1. todo[c] # <<>> /\ SessionTypeOK' /\ ebuf' \in [Clients -> BOOLEAN]
    BY <1>0, <1>2, SessionStep DEF ClearError, At, Put, TypeOK
  <2> QED
    BY <1>0, <1>2, <2>1, Unhurt DEF ClearError, TypeOK, history
<1>3. ASSUME NEW c \in Clients, TestBuffer(c) PROVE IInv'
  <2>1. todo[c] # <<>> /\ SessionTypeOK'
    BY <1>0, <1>3, SessionStep DEF TestBuffer, At
  <2> QED
    BY <1>0, <1>3, <2>1, Unhurt DEF TestBuffer, TypeOK, history
<1>4. ASSUME NEW c \in Clients, LookUp(c) PROVE IInv'
  <2>1. todo[c] # <<>> /\ SessionTypeOK'
    BY <1>0, <1>4, SessionStep DEF LookUp, At
  <2>2. Step(c) \in StepType /\ Step(c).do = "look"
    BY <1>0, <1>4, <2>1, Going DEF LookUp, At
  <2>3. Step(c).facts \in SUBSET Facts
    BY <2>2 DEF StepType
  <2>4. found' \in [Clients -> SUBSET Facts]
    BY <1>0, <1>4, <2>3 DEF LookUp, TypeOK
  <2> QED
    BY <1>0, <1>4, <2>1, <2>4, Unhurt DEF LookUp, TypeOK
<1>5. ASSUME NEW c \in Clients, LookUpMisses(c) PROVE IInv'
  <2>1. todo[c] # <<>> /\ SessionTypeOK' /\ Step(c).do = "look"
    BY <1>0, <1>5, SessionStep DEF LookUpMisses, At, Failing
  <2>2. (IF Step(c).callers THEN FALSE ELSE ebuf[c]) \in BOOLEAN
    BY <1>0 DEF TypeOK
  <2>3. Miss(c, IF Step(c).callers THEN FALSE ELSE ebuf[c])
    BY <1>5 DEF LookUpMisses
  <2> HIDE <1>0
  <2> QED
    BY <2>1, <2>2, <2>3, MissStep
<1>6. ASSUME NEW c \in Clients, Perform(c) PROVE IInv'
  <2>1. todo[c] # <<>> /\ SessionTypeOK' /\ Step(c).do = "write"
    BY <1>0, <1>6, SessionStep DEF Perform, Sendable, At
  <2>2. Step(c) \in StepsOf(request[c].op) /\ Step(c) \in StepType
    BY <1>0, <2>1, Going
  <2>3. /\ Step(c).name \in Writes
        /\ Step(c).ok \in {"yes", "no", "next"}
        /\ Step(c).ok = "no" => request[c].op = "adjustResource"
    BY <2>1, <2>2 DEF StepsOf, StepType
  <2>4. /\ wrote' \in [Clients -> SUBSET Writes]
        /\ list' \in [Clients -> BOOLEAN]
    BY <1>0, <1>6, <2>3 DEF Perform, Wrote, GetList, TypeOK
  <2>5. count' \in [Clients -> Nat]
    BY <1>0, <1>6, <2>3 DEF Perform, Wrote, TypeOK
  <2>6. CASE Step(c).ok = "next"
    <3>1. Proceed(c) /\ UNCHANGED <<count, struck, found, has, request, ebuf>>
      BY <1>6, <2>6 DEF Perform, Wrote
    <3>2. TypeOK' /\ UnderWay'
      BY <1>0, <2>1, <2>4, <3>1, Going DEF TypeOK, UnderWay, Idle
    <3>3. OnceUnlessLost'
      BY <1>0, <2>1, <3>1, Going DEF OnceUnlessLost
    <3> QED
      BY <3>2, <3>3 DEF IInv
  <2>7. CASE Step(c).ok # "next"
    <3>1. /\ Answer(c, Step(c).ok)
          /\ Step(c).ok \in {"yes", "no"}
          /\ count' = [count EXCEPT ![c] = @ + 1]
          /\ UNCHANGED <<struck, found, has, request, ebuf>>
      BY <1>6, <2>3, <2>7 DEF Perform, Wrote
    <3>2. /\ todo' \in [Clients -> Seq(StepType)]
          /\ answer' \in [Clients -> {"yes", "no"}]
          /\ answer'[c] = Step(c).ok /\ todo'[c] = <<>>
          /\ \A d \in Clients : todo'[d] \in Seq(StepsOf(request[d].op))
          /\ \A d \in Clients \ {c} : todo'[d] = todo[d] /\ answer'[d] = answer[d]
      BY <1>0, <2>1, <3>1, Going
    <3>3. TypeOK'
      BY <1>0, <2>1, <2>4, <2>5, <3>1, <3>2 DEF TypeOK
    <3>4. UnderWay'
      BY <1>0, <3>1, <3>2 DEF UnderWay, Idle
    <3>5. OnceUnlessLost'
      <4> SUFFICES ASSUME NEW d \in Clients, request[d].op # "adjustResource"
                   PROVE  count'[d] <= struck[d] + (IF answer'[d] = "yes" THEN 1 ELSE 0)
        BY <3>1 DEF OnceUnlessLost
      <4>1. count[d] <= struck[d] + (IF answer[d] = "yes" THEN 1 ELSE 0)
        BY <1>0 DEF OnceUnlessLost
      <4>2. count[d] \in Nat /\ struck[d] \in Nat /\ answer[c] = "no"
        BY <1>0, <2>1 DEF TypeOK, UnderWay, Idle
      <4>3. CASE d = c
        BY <1>0, <2>3, <3>1, <3>2, <4>1, <4>2, <4>3 DEF TypeOK
      <4>4. CASE d # c
        BY <1>0, <3>1, <3>2, <4>1, <4>4 DEF TypeOK
      <4> QED
        BY <4>3, <4>4
    <3> QED
      BY <3>3, <3>4, <3>5 DEF IInv
  <2> QED
    BY <2>6, <2>7
<1>7. ASSUME NEW c \in Clients, Decline(c) PROVE IInv'
  <2>1. todo[c] # <<>> /\ SessionTypeOK' /\ Step(c).do = "write"
    BY <1>0, <1>7, SessionStep DEF Decline, Sendable, At
  <2>2. Step(c) \in StepType
    BY <1>0, <2>1, Going
  <2>3. Step(c).sets \in BOOLEAN
    BY <2>1, <2>2 DEF StepType
  <2>4. ebuf' \in [Clients -> BOOLEAN] /\ list' \in [Clients -> BOOLEAN]
    BY <1>0, <1>7, <2>3 DEF Decline, GetList, Put, TypeOK
  <2> QED
    BY <1>0, <1>7, <2>1, <2>4, Unhurt DEF Decline, TypeOK, history
<1>8. ASSUME NEW c \in Clients, Fail(c) PROVE IInv'
  <2>1. todo[c] # <<>> /\ SessionTypeOK' /\ Step(c).do = "write"
    BY <1>0, <1>8, SessionStep DEF Fail, Sendable, At
  <2>2. Step(c) \in StepType
    BY <1>0, <2>1, Going
  <2>3. ebuf' \in [Clients -> BOOLEAN]
    BY <1>0, <1>8 DEF Fail, Put, TypeOK
  <2> QED
    BY <1>0, <1>8, <2>1, <2>3, Unhurt DEF Fail, TypeOK, history
<1>9. ASSUME NEW c \in Clients, Lose(c) PROVE IInv'
  <2>1. todo[c] # <<>> /\ SessionTypeOK' /\ Step(c).do = "write" /\ Answer(c, "no")
    BY <1>0, <1>9, SessionStep DEF Lose, Sendable, At
  <2>2. Step(c) \in StepType
    BY <1>0, <2>1, Going
  <2>3. ebuf' \in [Clients -> BOOLEAN]
    BY <1>0, <1>9 DEF Lose, Put, TypeOK
  <2>4. CASE UNCHANGED history
    BY <1>0, <1>9, <2>1, <2>3, <2>4, Unhurt DEF Lose, TypeOK, history
  <2>5. CASE /\ Wrote(c)
             /\ struck' = IF Step(c).ok = "next" THEN struck ELSE [struck EXCEPT ![c] = @ + 1]
    <3>1. Step(c).name \in Writes
      BY <2>1, <2>2 DEF StepType
    <3>2. wrote' \in [Clients -> SUBSET Writes] /\ count' \in [Clients -> Nat]
          /\ struck' \in [Clients -> Nat] /\ found' = found
      BY <1>0, <2>5, <3>1 DEF Wrote, TypeOK
    <3>3. /\ todo' \in [Clients -> Seq(StepType)]
          /\ answer' \in [Clients -> {"yes", "no"}]
          /\ answer'[c] = "no" /\ todo'[c] = <<>>
          /\ \A d \in Clients : todo'[d] \in Seq(StepsOf(request[d].op))
          /\ \A d \in Clients \ {c} : todo'[d] = todo[d] /\ answer'[d] = answer[d]
      BY <1>0, <2>1, Going
    <3>4. UNCHANGED <<has, request, list>>
      BY <1>9 DEF Lose
    <3>5. TypeOK'
      BY <1>0, <2>1, <2>3, <3>2, <3>3, <3>4 DEF TypeOK
    <3>6. UnderWay'
      BY <1>0, <3>3, <3>4 DEF UnderWay, Idle
    <3>7. OnceUnlessLost'
      <4> SUFFICES ASSUME NEW d \in Clients, request[d].op # "adjustResource"
                   PROVE  count'[d] <= struck'[d] + (IF answer'[d] = "yes" THEN 1 ELSE 0)
        BY <3>4 DEF OnceUnlessLost
      <4>1. count[d] <= struck[d] + (IF answer[d] = "yes" THEN 1 ELSE 0)
        BY <1>0 DEF OnceUnlessLost
      <4>2. count[d] \in Nat /\ struck[d] \in Nat /\ answer[c] = "no"
        BY <1>0, <2>1 DEF TypeOK, UnderWay, Idle
      <4>3. CASE d = c
        BY <1>0, <2>5, <3>3, <4>1, <4>2, <4>3 DEF TypeOK, Wrote
      <4>4. CASE d # c
        BY <1>0, <2>5, <3>3, <4>1, <4>4 DEF TypeOK, Wrote
      <4> QED
        BY <4>3, <4>4
    <3> QED
      BY <3>5, <3>6, <3>7 DEF IInv
  <2> QED
    BY <1>9, <2>4, <2>5 DEF Lose
<1>10. ASSUME NEW c \in Clients, Withhold(c) PROVE IInv'
  <2>1. todo[c] # <<>> /\ SessionTypeOK' /\ Step(c).do = "write"
    BY <1>0, <1>10, SessionStep DEF Withhold, At
  <2>2. Step(c) \in StepType
    BY <1>0, <2>1, Going
  <2>3. Step(c).quiet \in {"yes", "no"} /\ Step(c).sets \in BOOLEAN /\ Step(c).callers \in BOOLEAN
    BY <2>1, <2>2 DEF StepType
  <2>4. ebuf' \in [Clients -> BOOLEAN]
    <3>1. (IF Step(c).callers THEN Step(c).sets ELSE ebuf[c]) \in BOOLEAN
      BY <1>0, <2>3 DEF TypeOK
    <3>2. ebuf \in [Clients -> BOOLEAN]
      BY <1>0 DEF TypeOK
    <3>3. ebuf' = [ebuf EXCEPT ![c] = IF Step(c).callers THEN Step(c).sets ELSE ebuf[c]]
      BY <1>10 DEF Withhold, Put
    <3> QED
      BY <3>1, <3>2, <3>3
  <2>5. list' \in [Clients -> BOOLEAN]
    BY <1>0, <1>10 DEF Withhold, TypeOK
  <2> QED
    BY <1>0, <1>10, <2>1, <2>3, <2>4, <2>5, Unhurt DEF Withhold, TypeOK, history
<1>11. ASSUME NEW c \in Clients, NEW r \in Requests, Try(c, r), request' = [request EXCEPT ![c] = r],
              ebuf' \in [Clients -> BOOLEAN], list' \in [Clients -> BOOLEAN],
              \/ r = request[c] /\ answer[c] = "no" /\ UNCHANGED <<count, struck>>
              \/ /\ count' = [count EXCEPT ![c] = 0]
                 /\ struck' = [struck EXCEPT ![c] = 0]
       PROVE  IInv'
  <2>1. r \in RequestType /\ Script(r) \in Seq(StepsOf(r.op))
    BY ScriptSteps
  <2>2. Script(r) \in Seq(StepType)
    BY <2>1 DEF StepsOf
  <2>3. TypeOK'
    BY <1>0, <1>11, <2>2 DEF TypeOK, Try, SessionTypeOK, sessionVars
  <2>4. UnderWay'
    BY <1>0, <1>11, <2>1 DEF TypeOK, UnderWay, Idle, Try
  <2>5. OnceUnlessLost'
    BY <1>0, <1>11 DEF TypeOK, OnceUnlessLost, Try
  <2> QED
    BY <2>3, <2>4, <2>5 DEF IInv
<1>12. ASSUME NEW c \in Clients, Repeat(c) \/ RepeatAsIs(c) PROVE IInv'
  <2>1. request[c] \in Requests /\ request' = [request EXCEPT ![c] = request[c]]
    BY <1>0, <1>12 DEF TypeOK, Repeat, RepeatAsIs
  <2>2. ebuf' \in [Clients -> BOOLEAN] /\ list' \in [Clients -> BOOLEAN]
    BY <1>0, <1>12 DEF TypeOK, Repeat, RepeatAsIs
  <2> QED
    BY <1>11, <1>12, <2>1, <2>2 DEF Repeat, RepeatAsIs
<1>13. ASSUME NEW c \in Clients, NEW r \in Requests, Turn(c, r) PROVE IInv'
  BY <1>0, <1>11, <1>13 DEF TypeOK, Turn
<1>14. ASSUME NEW c \in Clients, Exit(c) \/ ConnectionDrops(c) PROVE IInv'
  <2>1. SessionTypeOK' /\ UNCHANGED <<has, todo, caller, history>>
    BY <1>0, <1>14, SessionStep DEF Exit, ConnectionDrops
  <2> QED
    BY <1>0, <2>1 DEF IInv, TypeOK, UnderWay, Idle, OnceUnlessLost, caller, history
<1>15. ASSUME UNCHANGED vars PROVE IInv'
  BY <1>0, <1>15 DEF IInv, TypeOK, SessionTypeOK, UnderWay, Idle, OnceUnlessLost, vars, sessionVars, caller, history
<1> QED
  BY <1>1, <1>2, <1>3, <1>4, <1>5, <1>6, <1>7, <1>8, <1>9, <1>10, <1>12, <1>13, <1>14, <1>15 DEF Next, Operate

LEMMA InitIInv == Init => IInv
BY BillingOpsAssumption, PinSessionAssumption DEF Init, SessionInit, IInv, TypeOK, SessionTypeOK, Contexts, UnderWay, Idle, OnceUnlessLost

\* The invariant holds of every reachable state.
THEOREM Invariant == Spec => []IInv
BY InitIInv, NextIInv, PTL DEF Spec

\* The variables keep their types, the steps an operation has left among them.
THEOREM TypeCorrect == Spec => []TypeOK
BY Invariant, PTL DEF IInv

\* No request but adjustResource is carried out again that was carried out and
\* answered, for all requests, data bases, callers and faults.
THEOREM NotTwice == Spec => []OnceUnlessLost
BY Invariant, PTL DEF IInv
-----------------------------------------------------------------------------
(* What a step of the system is to one caller.                             *)

\* It rests, turns to a request (again), or is at a step of its operation.
Rests(c) ==
    UNCHANGED <<todo[c], answer[c], ebuf[c], wrote[c], found[c], request[c]>>

Begins(c) ==
    /\ request'[c] \in RequestType
    /\ todo'[c] = Script(request'[c]) /\ answer'[c] = "no"
    /\ wrote'[c] = {} /\ found'[c] = {}

\* A test is passed or a look-up that failed passed over.
Passes(c) ==
    /\ todo[c] # <<>> /\ Step(c).do # "write"
    /\ Step(c).do = "look" => Step(c).miss = "on" /\ (Step(c).errs = "set" => ebuf'[c])
    /\ todo'[c] = Tail(todo[c])
    /\ UNCHANGED <<answer[c], wrote[c], found[c], request[c]>>

\* A look-up finds its facts.
Finds(c) ==
    /\ At(c, "look")
    /\ todo'[c] = Tail(todo[c])
    /\ found'[c] = found[c] \cup Step(c).facts \cup (Step(c).also \cap has)
    /\ UNCHANGED <<answer[c], ebuf[c], wrote[c], request[c]>>

\* A test or look-up ends the operation.
Stops(c) ==
    /\ todo[c] # <<>> /\ Step(c).do # "write"
    /\ todo'[c] = <<>>
    /\ answer'[c] = "no" \/ (Step(c).do = "look" /\ Step(c).miss = "yes")
    /\ UNCHANGED <<wrote[c], found[c], request[c]>>

\* A write is made; only a fault keeps what it is answered from the caller.
Carries(c) ==
    /\ Sendable(c)
    /\ wrote'[c] = wrote[c] \cup {Step(c).name}
    /\ UNCHANGED <<found[c], request[c]>>
    /\ \/ Step(c).ok = "next" /\ todo'[c] = Tail(todo[c]) /\ UNCHANGED <<answer[c], ebuf[c]>>
       \/ Step(c).ok # "next" /\ todo'[c] = <<>> /\ answer'[c] = Step(c).ok
       \/ todo'[c] = <<>> /\ answer'[c] = "no" /\ faults' > faults

\* A write is not made, or not to the caller's knowledge.
Fails(c) ==
    /\ At(c, "write")
    /\ todo'[c] = <<>> /\ answer'[c] \in {"no", Step(c).quiet}
    /\ UNCHANGED <<wrote[c], found[c], request[c]>>
    /\ \/ NoInput(c) \/ OutputTaken(c) \/ Step(c).result
       \/ faults' > faults \/ ctx[c] = "stale"

Moves(c) ==
    Rests(c) \/ Begins(c) \/ Passes(c) \/ Finds(c) \/ Stops(c) \/ Carries(c) \/ Fails(c)

\* What a test or look-up that comes to nothing does.
LEMMA MissMoves ==
    ASSUME IInv, NEW c \in Clients, todo[c] # <<>>, Step(c).do \in {"check", "look"},
           NEW before \in BOOLEAN, Miss(c, before)
    PROVE  Passes(c) \/ Stops(c)
<1>1. /\ Step(c) \in StepType
      /\ todo \in [Clients -> Seq(StepType)] /\ answer \in [Clients -> {"yes", "no"}]
      /\ ebuf \in [Clients -> BOOLEAN]
  BY Going DEF IInv, TypeOK
<1>2. /\ Step(c).miss \in {"no", "yes", "on"}
      /\ Step(c).do = "check" => Step(c).miss # "yes"
      /\ Step(c).do # "write"
  BY <1>1 DEF StepType
<1>3. UNCHANGED <<wrote[c], found[c], request[c]>>
  BY DEF Miss, history
<1>4. CASE Step(c).miss = "on"
  <2>1. todo'[c] = Tail(todo[c]) /\ answer' = answer
    BY <1>1, <1>4 DEF Miss, Proceed
  <2>2. Step(c).errs = "set" => ebuf'[c]
    BY <1>1 DEF Miss, Put
  <2> QED
    BY <1>2, <1>3, <1>4, <2>1, <2>2 DEF Passes
<1>5. CASE Step(c).miss # "on"
  <2>1. todo'[c] = <<>> /\ answer'[c] = Step(c).miss
    BY <1>1, <1>5 DEF Miss, Answer
  <2> QED
    BY <1>2, <1>3, <1>5, <2>1 DEF Stops
<1> QED
  BY <1>4, <1>5

\* An operation touches nothing of the other callers.
LEMMA OthersRest ==
    ASSUME IInv, NEW c \in Clients, Operate(c), NEW d \in Clients \ {c}
    PROVE  Rests(d)
<1>1. /\ todo' [d] = todo[d] /\ answer'[d] = answer[d]
  BY DEF IInv, TypeOK, Operate, TestArguments, ClearError, TestBuffer, LookUp, LookUpMisses, Perform,
         Decline, Fail, Lose, Withhold, Miss, Proceed, Answer
<1>2. ebuf'[d] = ebuf[d]
  BY DEF IInv, TypeOK, Operate, TestArguments, ClearError, TestBuffer, LookUp, LookUpMisses, Perform,
         Decline, Fail, Lose, Withhold, Miss, Put
<1>3. wrote'[d] = wrote[d] /\ found'[d] = found[d] /\ request'[d] = request[d]
  BY DEF IInv, TypeOK, Operate, TestArguments, ClearError, TestBuffer, LookUp, LookUpMisses, Perform,
         Decline, Fail, Lose, Withhold, Miss, Wrote, history
<1> QED
  BY <1>1, <1>2, <1>3 DEF Rests

LEMMA OperateMoves ==
    ASSUME IInv, NEW c \in Clients, Operate(c)
    PROVE  Moves(c)
<1>0. /\ todo \in [Clients -> Seq(StepType)] /\ answer \in [Clients -> {"yes", "no"}]
      /\ ebuf \in [Clients -> BOOLEAN]
      /\ wrote \in [Clients -> SUBSET Writes] /\ found \in [Clients -> SUBSET Facts]
      /\ faults \in Nat
  BY PinSessionAssumption DEF IInv, TypeOK, SessionTypeOK
<1>1. CASE TestArguments(c)
  <2>1. todo[c] # <<>> /\ Step(c).do = "check"
    BY <1>1 DEF TestArguments, At
  <2>2. CASE Proceed(c) /\ UNCHANGED <<has, request, ebuf, list, history>>
    BY <1>0, <2>1, <2>2 DEF Proceed, history, Passes, Moves
  <2>3. CASE Miss(c, ebuf[c])
    BY <1>0, <2>1, <2>3, MissMoves DEF Moves
  <2> QED
    BY <1>1, <2>2, <2>3 DEF TestArguments
<1>2. CASE ClearError(c) \/ (TestBuffer(c) /\ ~ebuf[c])
  BY <1>0, <1>2 DEF ClearError, TestBuffer, At, Proceed, history, Passes, Moves
<1>3. CASE TestBuffer(c) /\ ebuf[c]
  BY <1>0, <1>3 DEF TestBuffer, At, Answer, history, Stops, Moves
<1>4. CASE LookUp(c)
  BY <1>0, <1>4 DEF LookUp, Proceed, Finds, Moves
<1>5. CASE LookUpMisses(c)
  <2>1. todo[c] # <<>> /\ Step(c).do = "look" /\ Miss(c, IF Step(c).callers THEN FALSE ELSE ebuf[c])
    BY <1>5 DEF LookUpMisses, At
  <2>2. (IF Step(c).callers THEN FALSE ELSE ebuf[c]) \in BOOLEAN
    BY <1>0
  <2> QED
    BY <2>1, <2>2, MissMoves DEF Moves
<1>6. CASE Perform(c)
  <2>1. Sendable(c) /\ wrote'[c] = wrote[c] \cup {Step(c).name} /\ UNCHANGED <<found[c], request[c]>>
    BY <1>0, <1>6 DEF Perform, Wrote
  <2>2. CASE Step(c).ok = "next"
    BY <1>0, <1>6, <2>1, <2>2 DEF Perform, Proceed, Carries, Moves
  <2>3. CASE Step(c).ok # "next"
    <3>1. todo'[c] = <<>> /\ answer'[c] = Step(c).ok
      BY <1>0, <1>6, <2>3 DEF Perform, Answer
    <3> QED
      BY <2>1, <2>3, <3>1 DEF Carries, Moves
  <2> QED
    BY <2>2, <2>3
<1>7. CASE Decline(c)
  <2>1. At(c, "write") /\ todo'[c] = <<>> /\ answer'[c] = "no" /\ Step(c).result
    BY <1>0, <1>7 DEF Decline, Sendable, Answer
  <2> QED
    BY <1>7, <2>1 DEF Decline, history, Fails, Moves
<1>8. CASE Fail(c)
  <2>1. At(c, "write") /\ todo'[c] = <<>> /\ answer'[c] = "no"
    BY <1>0, <1>8 DEF Fail, Sendable, Answer
  <2>2. faults' > faults \/ ctx[c] = "stale"
    BY <1>0, <1>8 DEF Fail, Refused, Dead, Fault
  <2> QED
    BY <1>8, <2>1, <2>2 DEF Fail, history, Fails, Moves
<1>9. CASE Lose(c)
  <2>1. Sendable(c) /\ At(c, "write") /\ todo'[c] = <<>> /\ answer'[c] = "no" /\ request' = request
    BY <1>0, <1>9 DEF Lose, Sendable, Answer
  <2>2. faults' > faults
    BY <1>0, <1>9 DEF Lose, Lost, Fault
  <2>3. CASE UNCHANGED history
    BY <2>1, <2>2, <2>3 DEF history, Fails, Moves
  <2>4. CASE Wrote(c)
    BY <1>0, <2>1, <2>2, <2>4 DEF Wrote, Carries, Moves
  <2> QED
    BY <1>9, <2>3, <2>4 DEF Lose
<1>10. CASE Withhold(c)
  <2>1. At(c, "write") /\ todo'[c] = <<>> /\ answer'[c] = Step(c).quiet
    BY <1>0, <1>10 DEF Withhold, Answer
  <2>2. NoInput(c) \/ OutputTaken(c) \/ faults' > faults
    BY <1>0, <1>10 DEF Withhold, Unsent, Fault
  <2> QED
    BY <1>10, <2>1, <2>2 DEF Withhold, history, Fails, Moves
<1> QED
  BY <1>1, <1>2, <1>3, <1>4, <1>5, <1>6, <1>7, <1>8, <1>9, <1>10 DEF Operate, TestBuffer

\* Every step of the system is one of the moves to every caller.
LEMMA NextMoves == ASSUME IInv, [Next]_vars, NEW d \in Clients PROVE Moves(d)
<1>0. /\ todo \in [Clients -> Seq(StepType)] /\ answer \in [Clients -> {"yes", "no"}]
      /\ wrote \in [Clients -> SUBSET Writes] /\ found \in [Clients -> SUBSET Facts]
      /\ request \in [Clients -> Requests] /\ Requests \subseteq RequestType
      /\ ebuf \in [Clients -> BOOLEAN]
  BY BillingOpsAssumption DEF IInv, TypeOK
<1>1. CASE \E c \in Clients : Operate(c)
  BY <1>1, OthersRest, OperateMoves DEF Moves
<1>2. ASSUME NEW c \in Clients, NEW r \in Requests, Try(c, r), request' = [request EXCEPT ![c] = r],
             \A e \in Clients \ {c} : ebuf'[e] = ebuf[e]
      PROVE  Moves(d)
  <2>1. CASE d = c
    BY <1>0, <1>2, <2>1 DEF Try, Begins, Moves
  <2>2. CASE d # c
    BY <1>0, <1>2, <2>2 DEF Try, Rests, Moves
  <2> QED
    BY <2>1, <2>2
<1>3. ASSUME NEW c \in Clients, Repeat(c) \/ RepeatAsIs(c) PROVE Moves(d)
  <2>1. request' = [request EXCEPT ![c] = request[c]] /\ request[c] \in Requests
    BY <1>0, <1>3 DEF Repeat, RepeatAsIs
  <2>2. Try(c, request[c]) /\ \A e \in Clients \ {c} : ebuf'[e] = ebuf[e]
    BY <1>0, <1>3 DEF Repeat, RepeatAsIs
  <2> QED
    BY <1>2, <2>1, <2>2
<1>4. ASSUME NEW c \in Clients, NEW r \in Requests, Turn(c, r) PROVE Moves(d)
  BY <1>2, <1>4 DEF Turn
<1>5. CASE UNCHANGED <<has, todo, caller, history>>
  BY <1>5 DEF caller, history, Rests, Moves
<1> QED
  BY <1>1, <1>3, <1>4, <1>5 DEF Next, Exit, ConnectionDrops, vars
-----------------------------------------------------------------------------
(* How the scripts are built.                                              *)

\* A look-up whose miss is answered `yes' looks for something a collect needs
\* that nothing before it looks for and that is not among F.
Lone(s, F) ==
    \A i \in DOMAIN s :
        s[i].do = "look" /\ s[i].miss = "yes" =>
            \E f \in (s[i].facts \cap CollectNeeds) \ F :
                \A j \in 1..(i - 1) : s[j].do = "look" => f \notin s[j].facts

\* No look-up is for more than F.
Looking(s, F) == \A i \in DOMAIN s : s[i].do = "look" => s[i].facts \subseteq F

\* Behind the billing day comes the activation, with a list of its own.
Activation == [WriteStep("activate") EXCEPT !.list = "fresh"]
Followed(s) ==
    \A i \in DOMAIN s :
        s[i].do = "write" /\ s[i].name = "billingDay" =>
            i + 1 \in DOMAIN s /\ s[i + 1] = Activation

\* Step i comes behind a look-up of f that either ends the operation when it
\* misses or is the last step, with an error put into the buffer i is called with.
Supplied(s, f, i) ==
    \E j \in 1..(i - 1) :
        /\ s[j].do = "look"
        /\ \/ f \in s[j].facts /\ s[j].miss # "on"
           \/ /\ f \in s[j].facts \cup s[j].also
              /\ j = i - 1 /\ s[j].errs = "set" /\ s[i].callers

Guarded(s, f) == \A i \in DOMAIN s : s[i].do = "write" => Supplied(s, f, i)
Brings(s, f) ==
    \E j \in DOMAIN s : s[j].do = "look" /\ f \in s[j].facts /\ s[j].miss # "on"

LEMMA Concats ==
    ASSUME NEW S, NEW s \in Seq(S), NEW t \in Seq(S)
    PROVE  /\ s \o t \in Seq(S)
           /\ DOMAIN s = 1..Len(s) /\ DOMAIN t = 1..Len(t) /\ Len(s) \in Nat /\ Len(t) \in Nat
           /\ DOMAIN (s \o t) = 1..(Len(s) + Len(t))
           /\ \A i \in DOMAIN s : (s \o t)[i] = s[i]
           /\ \A i \in DOMAIN t : (s \o t)[Len(s) + i] = t[i]
           /\ \A i \in DOMAIN (s \o t) :
                 \/ i \in DOMAIN s /\ (s \o t)[i] = s[i]
                 \/ i - Len(s) \in DOMAIN t /\ (s \o t)[i] = t[i - Len(s)]
BY ConcatProperties

LEMMA LookingConcat ==
    ASSUME NEW S, NEW s \in Seq(S), NEW t \in Seq(S), NEW F, NEW G, Looking(s, F), Looking(t, G)
    PROVE  Looking(s \o t, F \cup G)
BY Concats DEF Looking

LEMMA LoneConcat ==
    ASSUME NEW S, NEW s \in Seq(S), NEW t \in Seq(S), NEW F, NEW G,
           Looking(s, G), Lone(s, F), Lone(t, F \cup G)
    PROVE  Lone(s \o t, F)
<1> DEFINE u == s \o t
<1> SUFFICES ASSUME NEW i \in DOMAIN u, u[i].do = "look", u[i].miss = "yes"
             PROVE  \E f \in (u[i].facts \cap CollectNeeds) \ F :
                        \A j \in 1..(i - 1) : u[j].do = "look" => f \notin u[j].facts
  BY DEF Lone
<1>1. /\ DOMAIN s = 1..Len(s) /\ DOMAIN t = 1..Len(t) /\ Len(s) \in Nat /\ Len(t) \in Nat
      /\ DOMAIN u = 1..(Len(s) + Len(t))
      /\ \A j \in DOMAIN s : u[j] = s[j]
      /\ \A j \in DOMAIN u : j \in DOMAIN s \/ (j - Len(s) \in DOMAIN t /\ u[j] = t[j - Len(s)])
  BY Concats
<1> HIDE DEF u
<1>2. CASE i \in DOMAIN s
  <2>1. PICK f \in (s[i].facts \cap CollectNeeds) \ F :
           \A j \in 1..(i - 1) : s[j].do = "look" => f \notin s[j].facts
    BY <1>1, <1>2 DEF Lone
  <2>2. \A j \in 1..(i - 1) : u[j] = s[j]
    BY <1>1, <1>2
  <2> QED
    BY <1>1, <1>2, <2>1, <2>2
<1>3. CASE i \notin DOMAIN s
  <2>1. i - Len(s) \in DOMAIN t /\ u[i] = t[i - Len(s)]
    BY <1>1, <1>3
  <2>2. PICK f \in (t[i - Len(s)].facts \cap CollectNeeds) \ (F \cup G) :
           \A j \in 1..(i - Len(s) - 1) : t[j].do = "look" => f \notin t[j].facts
    BY <2>1 DEF Lone
  <2>3. ASSUME NEW j \in 1..(i - 1), u[j].do = "look" PROVE f \notin u[j].facts
    <3>1. CASE j \in DOMAIN s
      <4>1. u[j] = s[j]
        BY <1>1, <3>1
      <4>2. s[j].facts \subseteq G
        BY <2>3, <3>1, <4>1 DEF Looking
      <4> QED
        BY <2>2, <4>1, <4>2
    <3>2. CASE j \notin DOMAIN s
      <4>1. j \in DOMAIN u /\ j \in Int /\ i \in Int
        BY <1>1
      <4>2. j - Len(s) \in DOMAIN t /\ u[j] = t[j - Len(s)]
        BY <1>1, <3>2, <4>1
      <4>3. j - Len(s) \in 1..(i - Len(s) - 1)
        BY <1>1, <4>1, <4>2
      <4> QED
        BY <2>2, <2>3, <4>2, <4>3
    <3> QED
      BY <3>1, <3>2
  <2> QED
    BY <2>1, <2>2, <2>3
<1> QED
  BY <1>2, <1>3

\* The look-ups of a collect are each for something of their own.
LEMMA LoneLooks ==
    ASSUME NEW f \in CollectNeeds, NEW errs, NEW F, f \notin F
    PROVE  Lone(Find({f}, "yes", errs), F) /\ Looking(Find({f}, "yes", errs), {f})
<1>1. Find({f}, "yes", errs) =
        <<[do |-> "look", facts |-> {f}, also |-> {}, miss |-> "yes", errs |-> errs,
           callers |-> FALSE]>>
  BY DEF Find, LookStep
<1>2. Looking(Find({f}, "yes", errs), {f})
  BY <1>1 DEF Looking
<1>3. Lone(Find({f}, "yes", errs), F)
  <2> DEFINE s == Find({f}, "yes", errs)
  <2> SUFFICES ASSUME NEW i \in DOMAIN s
               PROVE  \E g \in (s[i].facts \cap CollectNeeds) \ F :
                          \A j \in 1..(i - 1) : s[j].do = "look" => g \notin s[j].facts
    BY DEF Lone
  <2>1. i = 1 /\ s[i].facts = {f}
    BY <1>1
  <2>2. 1..(i - 1) = {}
    BY <2>1
  <2> HIDE DEF s
  <2> QED
    BY <2>1, <2>2
<1> QED
  BY <1>2, <1>3

\* The look-ups of a script are for facts.
LEMMA StepsLook ==
    ASSUME NEW op, NEW s \in Seq(StepsOf(op))
    PROVE  Looking(s, Facts)
<1> SUFFICES ASSUME NEW i \in DOMAIN s, s[i].do = "look"
             PROVE  s[i].facts \subseteq Facts
  BY DEF Looking
<1>1. s[i] \in StepsOf(op)
  OBVIOUS
<1>2. s[i] \in StepType
  BY <1>1 DEF StepsOf
<1> QED
  BY <1>2 DEF StepType

LEMMA LoneScript == ASSUME NEW r \in RequestType PROVE Lone(Script(r), {})
<1>0. Script(r) \in Seq(StepsOf(r.op))
  BY ScriptSteps
<1>1. CASE r.op # "collect"
  BY <1>0, <1>1 DEF Lone, StepsOf
<1>2. CASE r.op = "collect"
  <2> DEFINE S == Seq(StepsOf(r.op))
             D == Facts \ CollectNeeds
             P1 == Clear \o PayType
             P2 == P1 \o BalGroup("yes")
             P3 == P2 \o BillingAndPaymentInfo("yes")
             W == <<[WriteStep("collect") EXCEPT !.result = TRUE]>>
  <2>1. /\ Clear \in S /\ PayType \in S /\ BalGroup("yes") \in S
        /\ BillingAndPaymentInfo("yes") \in S
        /\ Translation(r) \in S
        /\ ResolveAccountPoid(r) \in S /\ AmountOrFull(r, "owes") \in S
        /\ \A f \in CollectNeeds : Find({f}, "yes", "keep") \in S
    <3>1. \A f \in CollectNeeds : {f} \in SUBSET Facts
      BY DEF CollectNeeds, Facts
    <3> QED
      BY <1>2, <3>1, LookUps, Looks, SimpleSteps, TranslationReads, ReadsAreSteps DEF Facts
  <2>2. W \in S
    <3>1. [WriteStep("collect") EXCEPT !.result = TRUE] \in StepsOf(r.op)
      BY <1>2 DEF WriteStep, StepsOf, StepType, Writes, Ops
    <3> QED
      BY <3>1, Single
  <2>3. P1 \in S /\ P2 \in S /\ P3 \in S
    <3> HIDE DEF S
    <3> QED BY <2>1, Append2 DEF S
  <2>4. Lone(P1, D) /\ Looking(P1, {"payType"})
    <3>1. Lone(Clear, D) /\ Looking(Clear, {}) /\ Lone(PayType, D) /\ Looking(PayType, {"payType"})
      BY DEF Clear, PayType, Find, LookStep, Lone, Looking
    <3>2. D \cup {} = D /\ {} \cup {"payType"} = {"payType"}
      OBVIOUS
    <3> HIDE DEF D
    <3>3. Looking(P1, {} \cup {"payType"})
      BY <2>1, <3>1, LookingConcat
    <3>4. Lone(PayType, D \cup {})
      BY <3>1, <3>2
    <3>5. Lone(P1, D)
      BY <2>1, <3>1, <3>4, LoneConcat
    <3> QED
      BY <3>2, <3>3, <3>5
  <2>5. Lone(P2, D) /\ Looking(P2, {"payType", "balGroup"})
    <3>1. "balGroup" \in CollectNeeds /\ "balGroup" \notin D \cup {"payType"}
      BY DEF CollectNeeds
    <3>2. Lone(BalGroup("yes"), D \cup {"payType"}) /\ Looking(BalGroup("yes"), {"balGroup"})
      BY <3>1, LoneLooks DEF BalGroup
    <3>3. {"payType"} \cup {"balGroup"} = {"payType", "balGroup"}
      OBVIOUS
    <3> HIDE DEF D, P1
    <3>4. Looking(P2, {"payType"} \cup {"balGroup"})
      BY <2>1, <2>3, <2>4, <3>2, LookingConcat
    <3>5. Lone(P2, D)
      BY <2>1, <2>3, <2>4, <3>2, LoneConcat
    <3> QED
      BY <3>3, <3>4, <3>5
  <2>6. Lone(BillingAndPaymentInfo("yes"), D \cup {"payType", "balGroup"})
    <3> DEFINE E == D \cup {"payType", "balGroup"}
               B == Find({"billinfo"}, "yes", "keep")
               I == Find({"payinfo"}, "yes", "keep")
               A == Find({"ach"}, "yes", "keep")
    <3>1. /\ {"billinfo", "payinfo", "ach"} \subseteq CollectNeeds
          /\ "billinfo" \notin E
          /\ "payinfo" \notin E \cup {"billinfo"}
          /\ "ach" \notin E \cup {"billinfo", "payinfo"}
      BY DEF CollectNeeds
    <3>2. /\ Lone(B, E) /\ Looking(B, {"billinfo"})
          /\ Lone(I, E \cup {"billinfo"}) /\ Looking(I, {"payinfo"})
          /\ Lone(A, E \cup {"billinfo", "payinfo"})
      BY <3>1, LoneLooks
    <3>3. B \in S /\ I \in S /\ A \in S /\ B \o I \in S
      <4>1. B \in S /\ I \in S /\ A \in S
        BY <2>1, <3>1
      <4> HIDE DEF B, I, A
      <4> QED BY <4>1, Append2
    <3> HIDE DEF E, B, I, A
    <3>4. Lone(B \o I, E) /\ Looking(B \o I, {"billinfo", "payinfo"})
      <4>1. {"billinfo"} \cup {"payinfo"} = {"billinfo", "payinfo"}
        OBVIOUS
      <4>2. Looking(B \o I, {"billinfo"} \cup {"payinfo"})
        BY <3>2, <3>3, LookingConcat
      <4>3. Lone(B \o I, E)
        BY <3>2, <3>3, LoneConcat
      <4> QED
        BY <4>1, <4>2, <4>3
    <3>5. Lone(B \o I \o A, E)
      BY <3>2, <3>3, <3>4, LoneConcat
    <3> QED
      BY <3>5 DEF E, B, I, A, BillingAndPaymentInfo
  <2>7. Lone(P3, D)
    <3> HIDE DEF D, P2
    <3> QED BY <2>1, <2>3, <2>5, <2>6, LoneConcat
  <2>8. Lone(P3 \o W, D)
    <3>1. \A F : Lone(W, F)
      BY DEF Lone, WriteStep
    <3> HIDE DEF D, P3, W
    <3>2. Looking(P3, Facts)
      BY <2>3, StepsLook
    <3> QED BY <2>2, <2>3, <2>7, <3>1, <3>2, LoneConcat
  <2>9. Base(r) = P3 \o W
    BY <1>2 DEF Base, CollectAccount
  <2>10. Base(r) \in S
    <3> HIDE DEF P3, W
    <3> QED BY <2>2, <2>3, <2>9, Append2
  <2>11. Lone(Base(r), {})
    BY <2>8, <2>9 DEF Lone
  <2>12. Translation(r) = ResolveAccountPoid(r) \o AmountOrFull(r, "owes")
    BY <1>2 DEF Translation, CollectAccountArgs
  <2>13. Looking(Translation(r), D)
    <3>1. Looking(ResolveAccountPoid(r), D)
      <4>1. LoadByAccountNo \subseteq D
        BY DEF LoadByAccountNo, Facts, CollectNeeds
      <4> HIDE DEF D
      <4> QED BY <4>1 DEF ResolveAccountPoid, Find, LookStep, Check, Looking
    <3>2. Looking(AmountOrFull(r, "owes"), D)
      <4>1. {"owes"} \subseteq D
        BY DEF Facts, CollectNeeds
      <4> HIDE DEF D
      <4> QED BY <4>1 DEF AmountOrFull, AccountBalance, AmountGiven, Find, LookStep, Check, Looking
    <3>3. D \cup D = D
      OBVIOUS
    <3> HIDE DEF D
    <3> QED
      BY <2>1, <2>12, <3>1, <3>2, <3>3, LookingConcat
  <2>14. Lone(Translation(r), {})
    <3>1. Lone(ResolveAccountPoid(r), {})
      BY DEF ResolveAccountPoid, Find, LookStep, Check, Lone
    <3>2. \A F : Lone(AmountOrFull(r, "owes"), F)
      BY DEF AmountOrFull, AccountBalance, AmountGiven, Find, LookStep, Check, Lone
    <3>3. Looking(ResolveAccountPoid(r), Facts)
      BY <2>1 DEF Looking, StepsOf, StepType
    <3>4. Lone(ResolveAccountPoid(r) \o AmountOrFull(r, "owes"), {})
      BY <2>1, <3>1, <3>2, <3>3, LoneConcat
    <3> QED
      BY <2>12, <3>4
  <2>15. Lone(Translation(r) \o Base(r), {})
    <3>1. {} \cup D = D
      OBVIOUS
    <3> HIDE DEF D, P3, W
    <3> QED BY <2>1, <2>8, <2>9, <2>10, <2>13, <2>14, <3>1, LoneConcat
  <2> QED
    BY <2>11, <2>15 DEF Script
<1> QED
  BY <1>1, <1>2

LEMMA FollowedScript == ASSUME NEW r \in RequestType PROVE Followed(Script(r))
<1>0. Script(r) \in Seq(StepsOf(r.op))
  BY ScriptSteps
<1>1. CASE r.op # "activateLEC"
  BY <1>0, <1>1 DEF Followed, StepsOf
<1>2. CASE r.op = "activateLEC"
  <2> DEFINE S == Seq(StepsOf(r.op))
             R == Seq(ReadsOf(r.op))
             B == [WriteStep("billingDay") EXCEPT !.list = "own", !.ok = "next"]
  <2>1. B \in StepsOf(r.op) /\ Activation \in StepsOf(r.op)
    BY <1>2 DEF WriteStep, Activation, StepsOf, StepType, Writes
  <2>2. ASSUME NEW s \in R PROVE Followed(s \o <<B>> \o <<Activation>>)
    <3>1. \A i \in DOMAIN s : s[i].do # "write"
      BY DEF ReadsOf
    <3>2. s \in S
      BY ReadsAreSteps
    <3>3. /\ DOMAIN (s \o <<B>> \o <<Activation>>) = 1..(Len(s) + 2)
          /\ \A i \in DOMAIN s : (s \o <<B>> \o <<Activation>>)[i] = s[i]
          /\ DOMAIN s = 1..Len(s) /\ Len(s) \in Nat
          /\ (s \o <<B>> \o <<Activation>>)[Len(s) + 1] = B
          /\ (s \o <<B>> \o <<Activation>>)[Len(s) + 2] = Activation
      <4> HIDE DEF B
      <4> QED BY <2>1, <3>2
    <3>4. Activation.name # "billingDay"
      BY DEF Activation, WriteStep
    <3> DEFINE u == s \o <<B>> \o <<Activation>>
    <3> HIDE DEF B, u
    <3>5. ASSUME NEW i \in DOMAIN u, u[i].do = "write", u[i].name = "billingDay"
          PROVE  i + 1 \in DOMAIN u /\ u[i + 1] = Activation
      <4>1. i \notin DOMAIN s
        BY <3>1, <3>3, <3>5 DEF u
      <4>2. i # Len(s) + 2
        BY <3>3, <3>4, <3>5 DEF u
      <4>3. i = Len(s) + 1
        BY <3>3, <4>1, <4>2 DEF u
      <4> QED
        BY <3>3, <4>3 DEF u
    <3> QED
      BY <3>5 DEF Followed, u
  <2>3. Clear \in R /\ PayType \in R /\ Translation(r) \in R
    BY LookUps, SimpleSteps, TranslationReads DEF Facts
  <2>4. Clear \o PayType \in R /\ Translation(r) \o (Clear \o PayType) \in R
    <3>1. Clear \o PayType \in R
      BY <2>3, Append2
    <3> QED
      BY <2>3, <3>1, Append2
  <2>5. Base(r) = Clear \o PayType \o <<B>> \o <<Activation>>
    BY <1>2 DEF Base, ActivateLEC, Activation
  <2>6. Translation(r) \o Base(r)
          = Translation(r) \o (Clear \o PayType) \o <<B>> \o <<Activation>>
    <3>1. Clear \o PayType \in S /\ Translation(r) \in S
      BY <2>3, <2>4, ReadsAreSteps
    <3>2. <<B>> \in S /\ <<Activation>> \in S
      BY <2>1
    <3> HIDE DEF B, S
    <3>3. \A t, s, a, b \in S : t \o (s \o a \o b) = t \o s \o a \o b
      <4> DEFINE Q == StepsOf(r.op)
                 Cat(x, y) == x \o y
      <4> HIDE DEF Q
      <4>1. ASSUME NEW x \in Seq(Q), NEW y \in Seq(Q), NEW z \in Seq(Q)
            PROVE  Cat(Cat(x, y), z) = Cat(x, Cat(y, z))
        BY ConcatAssociative, SMT
      <4>2. ASSUME NEW x \in Seq(Q), NEW y \in Seq(Q) PROVE Cat(x, y) \in Seq(Q)
        BY Append2
      <4> HIDE DEF Cat
      <4>3. \A t, s, a, b \in Seq(Q) : Cat(t, Cat(Cat(s, a), b)) = Cat(Cat(Cat(t, s), a), b)
        BY <4>1, <4>2
      <4>4. \A t, s, a, b \in Seq(Q) : t \o (s \o a \o b) = t \o s \o a \o b
        BY <4>3 DEF Cat
      <4> QED
        BY <4>4 DEF Q, S
    <3> QED
      BY <2>5, <3>1, <3>2, <3>3
  <2> HIDE DEF B
  <2> QED
    BY <2>2, <2>4, <2>5, <2>6 DEF Script
<1> QED
  BY <1>1, <1>2

\* A look-up that ends the operation when it misses guards every write behind.
LEMMA ReadsThen ==
    ASSUME NEW op, NEW s \in Seq(ReadsOf(op)), NEW T, NEW t \in Seq(T), NEW f
    PROVE  /\ Brings(s, f) => Guarded(s \o t, f)
           /\ Guarded(t, f) => Guarded(s \o t, f)
<1> DEFINE u == s \o t
<1>1. /\ DOMAIN s = 1..Len(s) /\ DOMAIN t = 1..Len(t) /\ Len(s) \in Nat /\ Len(t) \in Nat
      /\ \A j \in DOMAIN s : u[j] = s[j]
      /\ \A j \in DOMAIN t : u[Len(s) + j] = t[j]
      /\ \A j \in DOMAIN u : j \in DOMAIN s \/ (j - Len(s) \in DOMAIN t /\ u[j] = t[j - Len(s)])
      /\ DOMAIN u = 1..(Len(s) + Len(t))
  <2>1. s \in Seq(ReadsOf(op) \cup T) /\ t \in Seq(ReadsOf(op) \cup T)
    OBVIOUS
  <2> QED
    BY <2>1, Concats
<1>2. \A j \in DOMAIN s : s[j].do # "write"
  BY DEF ReadsOf
<1> HIDE DEF u
<1>3. ASSUME Brings(s, f), NEW i \in DOMAIN u, u[i].do = "write" PROVE Supplied(u, f, i)
  <2>1. i \notin DOMAIN s
    BY <1>1, <1>2, <1>3
  <2>2. PICK j \in DOMAIN s : s[j].do = "look" /\ f \in s[j].facts /\ s[j].miss # "on"
    BY <1>3 DEF Brings
  <2>3. j \in 1..(i - 1) /\ u[j] = s[j]
    BY <1>1, <2>1
  <2> QED
    BY <2>2, <2>3 DEF Supplied
<1>4. ASSUME Guarded(t, f), NEW i \in DOMAIN u, u[i].do = "write" PROVE Supplied(u, f, i)
  <2>1. i - Len(s) \in DOMAIN t /\ u[i] = t[i - Len(s)]
    BY <1>1, <1>2, <1>4
  <2>2. PICK j \in 1..(i - Len(s) - 1) :
           /\ t[j].do = "look"
           /\ \/ f \in t[j].facts /\ t[j].miss # "on"
              \/ /\ f \in t[j].facts \cup t[j].also
                 /\ j = i - Len(s) - 1 /\ t[j].errs = "set" /\ t[i - Len(s)].callers
    BY <1>4, <2>1 DEF Guarded, Supplied
  <2>3. Len(s) + j \in 1..(i - 1) /\ u[Len(s) + j] = t[j]
    <3>1. i \in Int /\ j \in Int /\ j >= 1 /\ j <= i - Len(s) - 1 /\ i - Len(s) <= Len(t)
      BY <1>1, <2>1
    <3>2. j \in DOMAIN t /\ Len(s) + j \in 1..(i - 1)
      BY <1>1, <3>1
    <3> QED
      BY <1>1, <3>2
  <2>4. j = i - Len(s) - 1 => Len(s) + j = i - 1
    BY <1>1
  <2> QED
    BY <2>1, <2>2, <2>3, <2>4 DEF Supplied
<1> QED
  BY <1>3, <1>4 DEF Guarded, u

LEMMA BringsConcat ==
    ASSUME NEW S, NEW s \in Seq(S), NEW t \in Seq(S), NEW f, Brings(s, f) \/ Brings(t, f)
    PROVE  Brings(s \o t, f)
<1>1. /\ DOMAIN s = 1..Len(s) /\ DOMAIN t = 1..Len(t) /\ Len(s) \in Nat /\ Len(t) \in Nat
      /\ \A j \in DOMAIN s : j \in DOMAIN (s \o t) /\ (s \o t)[j] = s[j]
      /\ \A j \in DOMAIN t : Len(s) + j \in DOMAIN (s \o t) /\ (s \o t)[Len(s) + j] = t[j]
  BY Concats
<1> QED
  BY <1>1 DEF Brings

LEMMA LooksBring ==
    ASSUME NEW facts, NEW f \in facts, NEW miss, miss # "on", NEW errs
    PROVE  Brings(Find(facts, miss, errs), f) /\ Brings(Read(facts, miss, errs), f)
<1>1. ASSUME NEW x, x.do = "look", x.facts = facts, x.miss = miss PROVE Brings(<<x>>, f)
  <2>1. 1 \in DOMAIN <<x>> /\ <<x>>[1] = x
    OBVIOUS
  <2> QED
    BY <1>1, <2>1 DEF Brings
<1> QED
  BY <1>1 DEF Find, Read, LookStep

\* Where the account is looked up by its number no write is made without it.
LEMMA AccountGuarded ==
    ASSUME NEW r \in RequestType, r.by = "no", r.op # "recourse", NEW f \in LoadByAccountNo
    PROVE  Guarded(Script(r), f)
<1> DEFINE R == Seq(ReadsOf(r.op))
<1>1. /\ Translation(r) \in R /\ ResolveAccountPoid(r) \in R
      /\ AmountGiven(r) \in R /\ AmountOrFull(r, "owes") \in R /\ AmountOrFull(r, "credit") \in R
      /\ Clear \in R /\ Untroubled \in R /\ ServiceByAccountType \in R /\ <<>> \in R
  BY LookUps, SimpleSteps, TranslationReads DEF Facts
<1>2. Check(FALSE, "set") \in R /\ Check(r.value # "bad", "set") \in R
  <2>1. (r.value # "bad") \in BOOLEAN
    OBVIOUS
  <2>2. \A ok \in BOOLEAN, errs \in {"set", "keep"} : Check(ok, errs) \in R
    BY SimpleSteps
  <2> HIDE DEF R
  <2> QED
    BY <2>1, <2>2, Zenon
<1>3. Base(r) \in Seq(StepsOf(r.op)) /\ Script(r) = Translation(r) \o Base(r)
  BY BaseSteps DEF Script
<1>4. Brings(ResolveAccountPoid(r), f)
  BY LooksBring DEF ResolveAccountPoid
<1>5. ASSUME NEW s \in R PROVE Brings(ResolveAccountPoid(r) \o s, f)
  BY <1>1, <1>4, <1>5, BringsConcat
<1>6. CASE r.op \in {"activateLEC", "cancel", "payinfo", "contact", "usage"}
  BY <1>1, <1>3, <1>4, <1>6, ReadsThen DEF Translation, ActivateLECArgs, CancelAccountArgs, UpdatePayinfoArgs,
     UpdateContactInfoArgs, LoadUsageArgs
<1>7. CASE r.op \in {"adjustItem", "adjustCash", "adjustResource", "check", "chargeback"}
  <2>1. Translation(r) = ResolveAccountPoid(r) \o AmountGiven(r)
    BY <1>7 DEF Translation, AdjustItemArgs, AdjustCashBalanceArgs, AdjustResourceBalanceArgs,
       ReceiveCheckPaymentArgs, ChargebackAccountArgs
  <2> HIDE DEF R
  <2>2. Brings(Translation(r), f)
    BY <1>1, <1>5, <2>1
  <2> QED
    BY <1>1, <1>3, <2>2, ReadsThen DEF R
<1>8. CASE r.op = "collect"
  <2>1. Translation(r) = ResolveAccountPoid(r) \o AmountOrFull(r, "owes")
    BY <1>8 DEF Translation, CollectAccountArgs
  <2> HIDE DEF R
  <2>2. Brings(Translation(r), f)
    BY <1>1, <1>5, <2>1
  <2> QED
    BY <1>1, <1>3, <2>2, ReadsThen DEF R
<1>9. CASE r.op = "refund"
  <2>1. Translation(r) = ResolveAccountPoid(r) \o AmountOrFull(r, "credit") \o Clear
    BY <1>9 DEF Translation, RefundAccountArgs
  <2> DEFINE A == ResolveAccountPoid(r) \o AmountOrFull(r, "credit")
  <2>2. A \in R /\ Brings(A, f)
    BY <1>1, <1>5, Append2
  <2> HIDE DEF A
  <2>3. Brings(A \o Clear, f)
    BY <1>1, <2>2, BringsConcat
  <2> QED
    BY <1>1, <1>3, <2>1, <2>3, ReadsThen DEF A
<1>10. CASE r.op = "status"
  <2> DEFINE C == Check(r.value # "bad", "set")
             V == CASE r.service = "id0" -> Check(FALSE, "set")
                    [] r.service = "type" -> ServiceByAccountType
                    [] r.service = "none" -> <<>>
  <2>1. Translation(r) = C \o ResolveAccountPoid(r) \o V \o Untroubled
    BY <1>10 DEF Translation, UpdateStatusArgs
  <2>2. C \in R /\ V \in R
    BY <1>1, <1>2 DEF RequestType
  <2> HIDE DEF R, C, V
  <2>3. C \o ResolveAccountPoid(r) \in R /\ Brings(C \o ResolveAccountPoid(r), f)
    BY <1>1, <1>4, <2>2, Append2, BringsConcat DEF R
  <2> DEFINE A == C \o ResolveAccountPoid(r)
  <2> HIDE DEF A
  <2>4. A \o V \in R /\ Brings(A \o V, f)
    BY <2>2, <2>3, Append2, BringsConcat DEF R, A
  <2>5. Brings(A \o V \o Untroubled, f)
    BY <1>1, <2>4, BringsConcat DEF R
  <2>6. Brings(Translation(r), f)
    BY <2>1, <2>5 DEF A
  <2> QED
    BY <1>1, <1>3, <2>6, ReadsThen DEF R
<1>11. CASE r.op = "delete"
  <2> DEFINE L == Find(LoadByAccountNo, "no", "keep")
             w == [WriteStep("delete") EXCEPT !.callers = FALSE, !.list = "own"]
  <2>1. Base(r) = L \o <<w>>
    BY <1>11 DEF Base, DeleteByAccountNo
  <2>2. L \in R /\ Brings(L, f)
    BY Looks, LooksBring DEF LoadByAccountNo, Facts
  <2> HIDE DEF L, w
  <2>3. <<w>> \in Seq({w})
    OBVIOUS
  <2>4. Guarded(Base(r), f)
    BY <2>1, <2>2, <2>3, ReadsThen
  <2> QED
    BY <1>1, <1>3, <2>4, ReadsThen
<1>12. CASE r.op = "voip"
  <2> DEFINE L == Find({"serial"}, "on", "keep")
             A == ResolveAccountPoid(r) \o L
             w == WriteStep("voip")
  <2>1. Base(r) = A \o <<w>>
    BY <1>12 DEF Base, LoadVoipCDRUsage, Write
  <2>2. L \in R
    BY Looks DEF Facts
  <2>3. A \in R /\ Brings(A, f)
    <3> HIDE DEF L
    <3> QED BY <1>1, <1>5, <2>2, Append2
  <2> HIDE DEF A, w
  <2>4. <<w>> \in Seq({w})
    OBVIOUS
  <2>5. Guarded(Base(r), f)
    BY <2>1, <2>3, <2>4, ReadsThen
  <2> QED
    BY <1>1, <1>3, <2>5, ReadsThen
<1> QED
  BY <1>6, <1>7, <1>8, <1>9, <1>10, <1>11, <1>12 DEF RequestType, Ops

LEMMA EndsInWrite ==
    ASSUME NEW op, NEW s \in Seq(ReadsOf(op)), NEW f, Brings(s, f), NEW w
    PROVE  Guarded(s \o <<w>>, f)
<1>1. <<w>> \in Seq({w})
  OBVIOUS
<1> QED
  BY <1>1, ReadsThen

\* What a base function looks up for its write stands before the write.
LEMMA BaseGuarded ==
    ASSUME NEW r \in RequestType, NEW f,
           \/ r.op = "activateLEC" /\ f \in {"payType"}
           \/ r.op = "adjustItem" /\ f \in {"item"}
           \/ r.op \in {"adjustCash", "adjustResource"} /\ f \in {"balGroup"}
           \/ r.op = "refund" /\ f \in {"balGroup", "billinfo"}
           \/ r.op \in {"collect", "check"} /\ f \in CollectNeeds
           \/ r.op = "chargeback" /\ f \in {"balGroup", "payment"}
           \/ r.op = "usage" /\ f \in {"service"}
    PROVE  Guarded(Base(r), f)
<1> DEFINE R == Seq(ReadsOf(r.op))
<1>1. /\ Clear \in R /\ PayType \in R
      /\ BalGroup("no") \in R /\ BalGroup("on") \in R
      /\ BillingAndPaymentInfo("no") \in R
      /\ r.op = "collect" => BalGroup("yes") \in R /\ BillingAndPaymentInfo("yes") \in R
  BY LookUps, SimpleSteps DEF Facts
<1>2. \A g \in Facts, miss \in {"no", "on"}, errs \in {"set", "keep", "either"} :
         Find({g}, miss, errs) \in R /\ Read({g}, miss, errs) \in R
  BY Looks DEF Facts
<1>3. \A g, miss, errs :
         miss # "on" => Brings(Find({g}, miss, errs), g) /\ Brings(Read({g}, miss, errs), g)
  BY LooksBring
<1>4. Brings(PayType, "payType") /\ Brings(BalGroup("no"), "balGroup") /\ Brings(BalGroup("yes"), "balGroup")
  BY <1>3 DEF PayType, BalGroup
<1>5. ASSUME NEW miss \in {"no", "yes"}, miss = "no" \/ r.op = "collect",
             NEW g \in {"billinfo", "payinfo", "ach"}
      PROVE  Brings(BillingAndPaymentInfo(miss), g)
  <2> DEFINE B == Find({"billinfo"}, miss, "keep")
             I == Find({"payinfo"}, miss, "keep")
             A == Find({"ach"}, miss, "keep")
  <2>1. B \in R /\ I \in R /\ A \in R
    <3>1. \A h \in {"billinfo", "payinfo", "ach"} : {h} \in SUBSET Facts
      BY DEF Facts
    <3> QED
      BY <1>5, <3>1, Looks
  <2>2. Brings(B, "billinfo") /\ Brings(I, "payinfo") /\ Brings(A, "ach")
    BY <1>3, <1>5
  <2> HIDE DEF B, I, A
  <2>3. B \o I \in R /\ (g # "ach" => Brings(B \o I, g))
    BY <1>5, <2>1, <2>2, Append2, BringsConcat
  <2>4. Brings(B \o I \o A, g)
    <3> HIDE DEF R
    <3> QED BY <1>5, <2>1, <2>2, <2>3, BringsConcat DEF R
  <2> QED
    BY <2>4 DEF BillingAndPaymentInfo, B, I, A
<1>6. CASE r.op = "activateLEC"
  <2> DEFINE P == Clear \o PayType
             b == [WriteStep("billingDay") EXCEPT !.list = "own", !.ok = "next"]
             a == [WriteStep("activate") EXCEPT !.list = "fresh"]
  <2>1. P \in R /\ Brings(P, "payType")
    BY <1>1, <1>4, Append2, BringsConcat
  <2>2. Base(r) = P \o <<b>> \o <<a>>
    BY <1>6 DEF Base, ActivateLEC
  <2> HIDE DEF P, a, b
  <2>3. <<b>> \in Seq({a, b}) /\ <<a>> \in Seq({a, b}) /\ <<b>> \o <<a>> \in Seq({a, b})
    OBVIOUS
  <2>4. P \o <<b>> \o <<a>> = P \o (<<b>> \o <<a>>)
    BY <2>1
  <2> QED
    BY <1>6, <2>1, <2>2, <2>3, <2>4, ReadsThen
<1>7. CASE r.op = "adjustItem"
  <2> DEFINE A == Clear \o Read({"item"}, "no", "set")
             P == A \o Read({"item"}, "on", "set")
  <2>1. Base(r) = P \o <<WriteStep("adjustItem")>>
    BY <1>7 DEF Base, AdjustItem, Write
  <2>2. Read({"item"}, "no", "set") \in R /\ Read({"item"}, "on", "set") \in R
    BY <1>2 DEF Facts
  <2>3. A \in R /\ Brings(A, "item")
    BY <1>1, <1>3, <2>2, Append2, BringsConcat
  <2> HIDE DEF A
  <2>4. P \in R /\ Brings(P, "item")
    BY <2>2, <2>3, Append2, BringsConcat
  <2> HIDE DEF P
  <2> QED
    BY <1>7, <2>1, <2>4, EndsInWrite
<1>8. CASE r.op = "adjustCash"
  <2> DEFINE P == Clear \o BalGroup("no")
  <2>1. Base(r) = P \o <<WriteStep("adjustCash")>>
    BY <1>8 DEF Base, AdjustCashBalance, Write
  <2>2. P \in R /\ Brings(P, "balGroup")
    BY <1>1, <1>4, Append2, BringsConcat
  <2> HIDE DEF P
  <2> QED
    BY <1>8, <2>1, <2>2, EndsInWrite
<1>9. CASE r.op = "adjustResource"
  <2> DEFINE P == Clear \o BalGroup("no")
  <2>1. Base(r) = P \o <<[WriteStep("adjustResource") EXCEPT !.ok = "no"]>>
    BY <1>9 DEF Base, AdjustResourceBalance
  <2>2. P \in R /\ Brings(P, "balGroup")
    BY <1>1, <1>4, Append2, BringsConcat
  <2> HIDE DEF P
  <2> QED
    BY <1>9, <2>1, <2>2, EndsInWrite
<1>10. CASE r.op = "refund"
  <2> DEFINE x == LookStep({"balGroup"}, "on", "either")
             y == [BillinfoOfBalGroup EXCEPT !.callers = TRUE]
             w == [WriteStep("refund") EXCEPT !.list = "own"]
  <2>1. Base(r) = <<x>> \o <<y>> \o <<w>>
    BY <1>10 DEF Base, RefundAccount, BalGroup, Find, OwnListWrite
  <2>2. /\ w.callers /\ y.do = "look" /\ x.do = "look" /\ y.errs = "set"
        /\ f \in y.facts \cup y.also
    BY <1>10 DEF WriteStep, LookStep, BillinfoOfBalGroup
  <2> HIDE DEF x, y, w
  <2>3. /\ DOMAIN Base(r) = 1..3
        /\ Base(r)[1] = x /\ Base(r)[2] = y /\ Base(r)[3] = w
    <3> DEFINE T == {x, y, w}
               A == <<x>> \o <<y>>
    <3>1. <<x>> \in Seq(T) /\ <<y>> \in Seq(T) /\ <<w>> \in Seq(T)
      OBVIOUS
    <3>2. /\ Len(<<x>>) = 1 /\ Len(<<y>>) = 1 /\ Len(<<w>>) = 1
          /\ <<x>>[1] = x /\ <<y>>[1] = y /\ <<w>>[1] = w
      OBVIOUS
    <3> HIDE DEF T
    <3>3. A \in Seq(T) /\ Len(A) = 2 /\ A[1] = x /\ A[2] = y
      BY <3>1, <3>2, ConcatProperties
    <3> HIDE DEF A
    <3>4. A \o <<w>> \in Seq(T) /\ Len(A \o <<w>>) = 3
          /\ (A \o <<w>>)[1] = x /\ (A \o <<w>>)[2] = y /\ (A \o <<w>>)[3] = w
      <4>1. A \o <<w>> \in Seq(T) /\ Len(A \o <<w>>) = Len(A) + Len(<<w>>)
        BY <3>1, <3>3, ConcatProperties, Zenon
      <4>2. \A i \in 1..(Len(A) + Len(<<w>>)) :
               (A \o <<w>>)[i] = IF i <= Len(A) THEN A[i] ELSE <<w>>[i - Len(A)]
        BY <3>1, <3>3, ConcatProperties, Zenon
      <4>3. Len(A) + Len(<<w>>) = 3 /\ 1 <= Len(A) /\ 2 <= Len(A) /\ ~(3 <= Len(A)) /\ 3 - Len(A) = 1
        BY <3>2, <3>3
      <4>4. 1 \in 1..3 /\ 2 \in 1..3 /\ 3 \in 1..3
        OBVIOUS
      <4> QED
        BY <3>2, <3>3, <4>1, <4>2, <4>3, <4>4, Zenon
    <3>5. DOMAIN (A \o <<w>>) = 1..3
      BY <3>4
    <3> QED
      BY <2>1, <3>4, <3>5 DEF A
  <2>4. Supplied(Base(r), f, 3)
    <3>1. 2 \in 1..(3 - 1) /\ 2 = 3 - 1
      OBVIOUS
    <3> QED
      BY <2>2, <2>3, <3>1 DEF Supplied
  <2>5. \A i \in DOMAIN Base(r) : Base(r)[i].do = "write" => i = 3
    BY <2>2, <2>3
  <2> QED
    BY <1>10, <2>4, <2>5 DEF Guarded
<1>11. CASE r.op \in {"collect", "check"}
  <2> DEFINE m == IF r.op = "collect" THEN "yes" ELSE "no"
             G == IF r.op = "collect" THEN BalGroup("yes") ELSE Find({"balGroup"}, "no", "set")
             A == Clear \o PayType
             P == A \o G
             Q == P \o BillingAndPaymentInfo(m)
  <2>1. G \in R /\ Brings(G, "balGroup")
    BY <1>1, <1>2, <1>3, <1>4 DEF Facts
  <2>2. BillingAndPaymentInfo(m) \in R
        /\ \A g \in {"billinfo", "payinfo", "ach"} : Brings(BillingAndPaymentInfo(m), g)
    BY <1>1, <1>5
  <2>3. PICK w : Base(r) = Q \o <<w>>
    BY <1>11 DEF Base, CollectAccount, ReceiveCheckPayment
  <2>4. A \in R /\ Brings(A, "payType")
    BY <1>1, <1>4, Append2, BringsConcat
  <2> HIDE DEF A, G, m
  <2>5. P \in R /\ Brings(P, "payType") /\ Brings(P, "balGroup")
    BY <2>1, <2>4, Append2, BringsConcat
  <2> HIDE DEF P
  <2>6. Q \in R /\ \A g \in CollectNeeds : Brings(Q, g)
    BY <2>2, <2>5, Append2, BringsConcat DEF CollectNeeds
  <2> HIDE DEF Q
  <2> QED
    BY <1>11, <2>3, <2>6, EndsInWrite
<1>12. CASE r.op = "chargeback"
  <2> DEFINE A == Clear \o Read({"balGroup"}, "no", "set")
             P == A \o Read({"payment"}, "no", "set")
  <2>1. Base(r) = P \o <<[WriteStep("chargeback") EXCEPT !.sets = (r.by = "no")]>>
    BY <1>12 DEF Base, ChargebackAccount
  <2>2. Read({"balGroup"}, "no", "set") \in R /\ Read({"payment"}, "no", "set") \in R
    BY <1>2 DEF Facts
  <2>3. A \in R /\ Brings(A, "balGroup")
    BY <1>1, <1>3, <2>2, Append2, BringsConcat
  <2> HIDE DEF A
  <2>4. P \in R /\ Brings(P, "balGroup") /\ Brings(P, "payment")
    BY <1>3, <2>2, <2>3, Append2, BringsConcat
  <2> HIDE DEF P
  <2> QED
    BY <1>12, <2>1, <2>4, EndsInWrite
<1>13. CASE r.op = "usage"
  <2> DEFINE A == Clear \o Check(r.value = "good", "keep")
             P == A \o Read({"service"}, "no", "either")
  <2>1. Base(r) = P \o <<WriteStep("usage")>>
    BY <1>13 DEF Base, LoadUsage, Write
  <2>2. Check(r.value = "good", "keep") \in R
    <3>1. (r.value = "good") \in BOOLEAN
      OBVIOUS
    <3>2. \A ok \in BOOLEAN, errs \in {"set", "keep"} : Check(ok, errs) \in R
      BY SimpleSteps
    <3> HIDE DEF R
    <3> QED
      BY <3>1, <3>2, Zenon
  <2>3. Read({"service"}, "no", "either") \in R
    BY <1>2 DEF Facts
  <2>4. A \in R
    BY <1>1, <2>2, Append2
  <2> HIDE DEF A
  <2>5. P \in R /\ Brings(P, "service")
    BY <1>3, <2>3, <2>4, Append2, BringsConcat
  <2> HIDE DEF P
  <2> QED
    BY <1>13, <2>1, <2>5, EndsInWrite
<1> QED
  BY <1>6, <1>7, <1>8, <1>9, <1>10, <1>11, <1>12, <1>13

\* What the arguments are completed with stands before every write, too.
LEMMA TranslationGuarded ==
    ASSUME NEW r \in RequestType, r.by = "no", NEW f,
           \/ r.op = "collect" /\ r.value = "special" /\ f = "owes"
           \/ r.op = "refund" /\ r.value = "special" /\ f = "credit"
           \/ r.op = "status" /\ r.service = "type" /\ f = "service"
    PROVE  Guarded(Script(r), f)
<1> DEFINE R == Seq(ReadsOf(r.op))
<1>1. /\ Translation(r) \in R /\ ResolveAccountPoid(r) \in R
      /\ AmountOrFull(r, "owes") \in R /\ AmountOrFull(r, "credit") \in R
      /\ Clear \in R /\ Untroubled \in R /\ ServiceByAccountType \in R
  BY LookUps, SimpleSteps, TranslationReads DEF Facts
<1>2. SUFFICES Brings(Translation(r), f)
  BY <1>1, BaseSteps, ReadsThen DEF Script
<1>3. CASE r.op \in {"collect", "refund"}
  <2>1. Brings(AmountOrFull(r, f), f) /\ AmountOrFull(r, f) \in R
    BY <1>1, <1>3, LooksBring DEF AmountOrFull, AccountBalance
  <2> DEFINE A == ResolveAccountPoid(r) \o AmountOrFull(r, f)
  <2> HIDE DEF R
  <2>2. A \in R /\ Brings(A, f)
    BY <1>1, <2>1, Append2, BringsConcat DEF R
  <2>3. Translation(r) = A \/ Translation(r) = A \o Clear
    BY <1>3 DEF Translation, CollectAccountArgs, RefundAccountArgs
  <2> HIDE DEF A
  <2>4. Brings(A \o Clear, f)
    BY <1>1, <2>2, BringsConcat DEF R
  <2> QED
    BY <2>2, <2>3, <2>4
<1>4. CASE r.op = "status"
  <2> DEFINE C == Check(r.value # "bad", "set")
             A == C \o ResolveAccountPoid(r)
             B == A \o ServiceByAccountType
  <2>1. Translation(r) = B \o Untroubled
    BY <1>4 DEF Translation, UpdateStatusArgs
  <2>2. Brings(ServiceByAccountType, f)
    BY <1>4, LooksBring DEF ServiceByAccountType
  <2>3. C \in R
    <3>1. (r.value # "bad") \in BOOLEAN
      OBVIOUS
    <3>2. \A ok \in BOOLEAN, errs \in {"set", "keep"} : Check(ok, errs) \in R
      BY SimpleSteps
    <3> HIDE DEF R
    <3> QED
      BY <3>1, <3>2, Zenon
  <2> HIDE DEF R, C
  <2>4. A \in R
    BY <1>1, <2>3, Append2 DEF R
  <2> HIDE DEF A
  <2>5. B \in R /\ Brings(B, f)
    BY <1>1, <2>2, <2>4, Append2, BringsConcat DEF R
  <2> HIDE DEF B
  <2> QED
    BY <1>1, <2>1, <2>5, BringsConcat DEF R
<1> QED
  BY <1>3, <1>4

\* The misses of a VoIP usage's and a status's look-up stop nothing.
Spared(r) == CASE r.op = "voip" -> {"serial"} [] r.op = "status" -> {"flags"} [] OTHER -> {}

LEMMA GuardedScript ==
    ASSUME NEW r \in RequestType, NEW f \in Needed(r) \ Spared(r) PROVE Guarded(Script(r), f)
<1>1. CASE r.by = "no" /\ r.op # "recourse" /\ f \in LoadByAccountNo
  BY <1>1, AccountGuarded
<1>2. CASE /\ r.by = "no"
           /\ \/ r.op = "collect" /\ r.value = "special" /\ f = "owes"
              \/ r.op = "refund" /\ r.value = "special" /\ f = "credit"
              \/ r.op = "status" /\ r.service = "type" /\ f = "service"
  BY <1>2, TranslationGuarded
<1>3. CASE \/ r.op = "activateLEC" /\ f \in {"payType"}
           \/ r.op = "adjustItem" /\ f \in {"item"}
           \/ r.op \in {"adjustCash", "adjustResource"} /\ f \in {"balGroup"}
           \/ r.op = "refund" /\ f \in {"balGroup", "billinfo"}
           \/ r.op \in {"collect", "check"} /\ f \in CollectNeeds
           \/ r.op = "chargeback" /\ f \in {"balGroup", "payment"}
           \/ r.op = "usage" /\ f \in {"service"}
  <2>1. Guarded(Base(r), f)
    BY <1>3, BaseGuarded
  <2>2. Guarded(Translation(r) \o Base(r), f)
    BY <2>1, TranslationReads, BaseSteps, ReadsThen
  <2> QED
    BY <2>1, <2>2 DEF Script
<1>4. CASE r.op \in {"voip", "status"}
  BY <1>1, <1>2, <1>4 DEF Needed, Spared
<1>5. CASE r.op \in {"collect", "refund"}
  BY <1>1, <1>2, <1>3, <1>5 DEF Needed
<1>6. CASE r.op \notin {"voip", "status", "collect", "refund"}
  BY <1>1, <1>3, <1>6 DEF Needed
<1> QED
  BY <1>4, <1>5, <1>6
-----------------------------------------------------------------------------
(* What the moves keep.                                                    *)

LEMMA Tails ==
    ASSUME NEW s \in Seq(StepType), s # <<>>
    PROVE  /\ DOMAIN s = 1..Len(s) /\ Len(s) \in Nat /\ Len(s) >= 1
           /\ 1 \in DOMAIN s /\ Head(s) = s[1]
           /\ Tail(s) \in Seq(StepType)
           /\ DOMAIN Tail(s) = 1..(Len(s) - 1)
           /\ \A i \in DOMAIN Tail(s) : i + 1 \in DOMAIN s /\ Tail(s)[i] = s[i + 1]
BY HeadTailProperties

LEMMA LoneTail ==
    ASSUME NEW s \in Seq(StepType), s # <<>>, NEW F, Lone(s, F)
    PROVE  /\ Lone(Tail(s), F)
           /\ Head(s).do = "look" => Lone(Tail(s), F \cup Head(s).facts)
<1> SUFFICES ASSUME NEW G, G = F \/ (Head(s).do = "look" /\ G = F \cup Head(s).facts),
                    NEW i \in DOMAIN Tail(s), Tail(s)[i].do = "look", Tail(s)[i].miss = "yes"
             PROVE  \E f \in (Tail(s)[i].facts \cap CollectNeeds) \ G :
                        \A j \in 1..(i - 1) : Tail(s)[j].do = "look" => f \notin Tail(s)[j].facts
  BY DEF Lone
<1>1. i + 1 \in DOMAIN s /\ Tail(s)[i] = s[i + 1] /\ i \in Nat /\ i >= 1
  BY Tails
<1>2. PICK f \in (s[i + 1].facts \cap CollectNeeds) \ F :
         \A j \in 1..i : s[j].do = "look" => f \notin s[j].facts
  <2>1. (i + 1) - 1 = i
    BY <1>1
  <2> QED
    BY <1>1, <2>1 DEF Lone
<1>3. f \notin G
  <2>1. 1 \in 1..i /\ s[1] = Head(s)
    BY <1>1, Tails
  <2> QED
    BY <1>2, <2>1
<1>4. \A j \in 1..(i - 1) : j + 1 \in 1..i /\ Tail(s)[j] = s[j + 1]
  BY <1>1, Tails
<1> QED
  BY <1>1, <1>2, <1>3, <1>4

\* What a collect still looks for it has not found.
Unfound == \A c \in Clients : Lone(todo[c], found[c])

LEMMA YesStep ==
    ASSUME IInv, IInv', Unfound, YesMeansDone, [Next]_vars
    PROVE  Unfound' /\ YesMeansDone'
<1> DEFINE Done(c) ==
             (Idle(c) /\ answer[c] = "yes") =>
                 \/ LastWrite(request[c]) \in wrote[c]
                 \/ request[c].op = "collect" /\ ~(CollectNeeds \subseteq found[c])
                 \/ request[c].op = "recourse"
<1> SUFFICES ASSUME NEW c \in Clients PROVE Lone(todo'[c], found'[c]) /\ Done(c)'
  BY DEF Unfound, YesMeansDone
<1>1. /\ Lone(todo[c], found[c]) /\ Done(c)
      /\ todo[c] \in Seq(StepType)
      /\ todo[c] # <<>> => answer[c] = "no"
      /\ todo[c] # <<>> => Step(c) \in StepsOf(request[c].op) /\ Step(c) \in StepType
  BY Going DEF Unfound, YesMeansDone, IInv, TypeOK, UnderWay, Idle
<1>2. \A F : Lone(<<>>, F)
  BY DEF Lone
<1>3. CASE Rests(c)
  BY <1>1, <1>3 DEF Rests, Idle
<1>4. CASE Begins(c)
  BY <1>4, LoneScript DEF Begins
<1>5. CASE Passes(c)
  BY <1>1, <1>5, LoneTail DEF Passes
<1>6. CASE Finds(c)
  <2>1. CASE request[c].op = "collect"
    <3>1. Step(c).also = {}
      BY <1>1, <1>6, <2>1 DEF Finds, At, StepsOf
    <3> QED
      BY <1>1, <1>6, <3>1, LoneTail DEF Finds, At, Step
  <2>2. CASE request[c].op # "collect"
    <3>1. todo'[c] \in Seq(StepsOf(request[c].op)) /\ request'[c] = request[c]
      BY <1>6 DEF IInv, UnderWay, Finds
    <3>2. \A F : Lone(todo'[c], F)
      BY <2>2, <3>1 DEF Lone, StepsOf
    <3> QED
      BY <1>1, <1>6, <3>2 DEF Finds, At
  <2> QED
    BY <2>1, <2>2
<1>7. CASE Stops(c)
  <2>1. ASSUME Step(c).do = "look", Step(c).miss = "yes"
        PROVE  request'[c].op = "collect" /\ ~(CollectNeeds \subseteq found'[c])
    <3>1. request[c].op = "collect"
      BY <1>1, <1>7, <2>1 DEF Stops, StepsOf
    <3>2. 1 \in DOMAIN todo[c] /\ todo[c][1] = Step(c)
      BY <1>1, <1>7, Tails DEF Stops, Step
    <3>3. \E f \in (Step(c).facts \cap CollectNeeds) \ found[c] : TRUE
      BY <1>1, <2>1, <3>2 DEF Lone
    <3> QED
      BY <1>7, <3>1, <3>3 DEF Stops
  <2> QED
    BY <1>2, <1>7, <2>1 DEF Stops
<1>8. CASE Carries(c)
  <2>1. todo[c] # <<>> /\ Step(c).do = "write"
    BY <1>8 DEF Carries, Sendable, At
  <2>2. CASE Step(c).ok = "next" /\ todo'[c] = Tail(todo[c]) /\ UNCHANGED <<answer[c], ebuf[c]>>
    BY <1>1, <1>8, <2>1, <2>2, LoneTail DEF Carries
  <2>3. CASE todo'[c] = <<>> /\ answer'[c] = Step(c).ok
    <3>1. Step(c).ok = "yes" => Step(c).name = LastWrite(request[c])
      BY <1>1, <2>1 DEF StepsOf, LastWrite
    <3>2. wrote'[c] = wrote[c] \cup {Step(c).name} /\ request'[c] = request[c]
      BY <1>8 DEF Carries
    <3> QED
      BY <1>2, <2>3, <3>1, <3>2
  <2>4. CASE todo'[c] = <<>> /\ answer'[c] = "no"
    BY <1>2, <2>4
  <2> QED
    BY <1>8, <2>2, <2>3, <2>4 DEF Carries
<1>9. CASE Fails(c)
  <2>1. todo[c] # <<>> /\ Step(c).do = "write"
    BY <1>9 DEF Fails, At
  <2>2. Step(c).quiet = "yes" => request[c].op = "recourse"
    BY <1>1, <2>1 DEF StepsOf
  <2> QED
    BY <1>2, <1>9, <2>2 DEF Fails
<1> QED
  BY <1>3, <1>4, <1>5, <1>6, <1>7, <1>8, <1>9, NextMoves DEF Moves

\* What an operation answers `yes' has been done, but for a collect that misses
\* a fact and for a recourse: for all requests, data bases, callers and faults.
THEOREM YesIsTrue == Spec => []YesMeansDone
<1>1. Init => Unfound /\ YesMeansDone
  BY DEF Init, Unfound, Lone, YesMeansDone
<1>2. IInv /\ IInv' /\ Unfound /\ YesMeansDone /\ [Next]_vars => Unfound' /\ YesMeansDone'
  BY YesStep
<1> QED
  BY <1>1, <1>2, Invariant, PTL DEF Spec
-----------------------------------------------------------------------------
\* A connection is broken only by a fault.
BrokenByFault == \A c \in Clients : ctx[c] = "stale" => faults > 0

LEMMA FaultStep ==
    ASSUME SessionTypeOK, BrokenByFault, [Next]_vars
    PROVE  BrokenByFault' /\ faults' >= faults /\ faults' \in Int
<1>0. faults \in Nat /\ ctx \in [Clients -> Contexts]
  BY PinSessionAssumption DEF SessionTypeOK
<1>1. ASSUME NEW c \in Clients,
             \/ Performed(c) \/ Refused(c) \/ Lost(c) \/ Dead(c) \/ Unsent(c) \/ Drop(c)
             \/ Connect(c) \/ (EndProcess(c) /\ UNCHANGED faults)
      PROVE  BrokenByFault' /\ faults' >= faults /\ faults' \in Int
  <2>1. faults' \in {faults, faults + 1}
    BY <1>1 DEF Performed, Refused, Lost, Dead, Unsent, Drop, Connect, Fault
  <2>2. \A d \in Clients \ {c} : ctx'[d] = ctx[d]
    BY <1>0, <1>1 DEF Performed, Refused, Lost, Dead, Unsent, Drop, Connect, EndProcess
  <2>3. ctx'[c] = "stale" => faults' > 0
    <3>1. CASE Lost(c) \/ Drop(c)
      BY <1>0, <3>1 DEF Lost, Drop, Fault
    <3>2. CASE Dead(c)
      BY <1>0, <3>2 DEF Dead, BrokenByFault
    <3>3. CASE Performed(c) \/ Refused(c) \/ Unsent(c) \/ EndProcess(c)
      BY <1>0, <3>3 DEF Performed, Refused, Unsent, EndProcess
    <3>4. CASE Connect(c)
      <4>1. ctx'[c] = OpenConnection(c) /\ faults' = faults
        BY <1>0, <3>4 DEF Connect
      <4>2. ctx'[c] = "stale" => ctx[c] = "stale"
        BY <4>1 DEF OpenConnection
      <4> QED
        BY <4>1, <4>2 DEF BrokenByFault
    <3> QED
      BY <1>1, <3>1, <3>2, <3>3, <3>4
  <2> QED
    BY <1>0, <2>1, <2>2, <2>3 DEF BrokenByFault
<1>2. CASE UNCHANGED sessionVars
  BY <1>0, <1>2 DEF sessionVars, BrokenByFault
<1>3. ASSUME NEW c \in Clients, Operate(c)
      PROVE  \/ Performed(c) \/ Refused(c) \/ Lost(c) \/ Dead(c) \/ Unsent(c) \/ Connect(c)
             \/ UNCHANGED sessionVars
  BY <1>3 DEF Operate, TestArguments, ClearError, TestBuffer, LookUp, LookUpMisses, Perform, Decline, Fail,
     Lose, Withhold, Failing
<1>4. ASSUME NEW c \in Clients, Exit(c) \/ ConnectionDrops(c)
      PROVE  Drop(c) \/ (EndProcess(c) /\ UNCHANGED faults)
  BY <1>4 DEF Exit, ConnectionDrops
<1>5. ASSUME NEW c \in Clients, Repeat(c) \/ RepeatAsIs(c) \/ \E r \in Requests : Turn(c, r)
      PROVE  UNCHANGED sessionVars
  BY <1>5 DEF Repeat, RepeatAsIs, Turn, Try, sessionVars
<1> QED
  BY <1>1, <1>2, <1>3, <1>4, <1>5 DEF Next, vars, sessionVars

\* As long as nothing failed, an account with a billing day that is not active
\* has its activation next, with a buffer and a list it cannot be refused for.
HalfWay ==
    \A c \in Clients :
        "billingDay" \in wrote[c] /\ "activate" \notin wrote[c] =>
            faults > 0 \/ (todo[c] # <<>> /\ Head(todo[c]) = Activation /\ ~ebuf[c])

HalfInv ==
    /\ BrokenByFault
    /\ \A c \in Clients : Followed(todo[c])
    /\ HalfWay

LEMMA FollowedTail ==
    ASSUME NEW s \in Seq(StepType), s # <<>>, Followed(s) PROVE Followed(Tail(s))
<1> SUFFICES ASSUME NEW i \in DOMAIN Tail(s), Tail(s)[i].do = "write", Tail(s)[i].name = "billingDay"
             PROVE  i + 1 \in DOMAIN Tail(s) /\ Tail(s)[i + 1] = Activation
  BY DEF Followed
<1>1. i + 1 \in DOMAIN s /\ Tail(s)[i] = s[i + 1] /\ i \in Nat
  BY Tails
<1>2. (i + 1) + 1 \in DOMAIN s /\ s[(i + 1) + 1] = Activation
  BY <1>1 DEF Followed
<1>3. i + 1 \in DOMAIN Tail(s)
  BY <1>1, <1>2, Tails
<1> QED
  BY <1>2, <1>3, Tails

LEMMA HalfStep ==
    ASSUME IInv, IInv', HalfInv, [Next]_vars
    PROVE  HalfInv'
<1>0. BrokenByFault' /\ faults' >= faults /\ faults' \in Int /\ faults \in Nat
  BY FaultStep, PinSessionAssumption DEF IInv, TypeOK, SessionTypeOK, HalfInv
<1> DEFINE Half(c) ==
             "billingDay" \in wrote[c] /\ "activate" \notin wrote[c] =>
                 faults > 0 \/ (todo[c] # <<>> /\ Head(todo[c]) = Activation /\ ~ebuf[c])
<1> SUFFICES ASSUME NEW c \in Clients PROVE Followed(todo'[c]) /\ Half(c)'
  BY <1>0 DEF HalfInv, HalfWay
<1>1. /\ Followed(todo[c]) /\ Half(c)
      /\ todo[c] \in Seq(StepType)
      /\ todo[c] # <<>> => Step(c) \in StepsOf(request[c].op) /\ Step(c) \in StepType
      /\ ctx[c] = "stale" => faults > 0
  BY Going DEF HalfInv, HalfWay, BrokenByFault, IInv, TypeOK
<1>2. Followed(<<>>)
  BY DEF Followed
<1>3. Activation.do = "write" /\ Activation.name = "activate" /\ Activation.ok = "yes"
      /\ Activation.list = "fresh" /\ ~Activation.result
  BY DEF Activation, WriteStep
<1>4. CASE Rests(c)
  BY <1>0, <1>1, <1>4 DEF Rests
<1>5. CASE Begins(c)
  BY <1>5, FollowedScript DEF Begins
<1>6. CASE Passes(c) \/ Finds(c) \/ Stops(c)
  <2>1. todo[c] # <<>> /\ Step(c).do # "write" /\ wrote'[c] = wrote[c]
        /\ todo'[c] \in {<<>>, Tail(todo[c])}
    BY <1>6 DEF Passes, Finds, Stops, At
  <2>2. Head(todo[c]) # Activation
    BY <1>3, <2>1 DEF Step
  <2>3. Followed(todo'[c])
    BY <1>1, <1>2, <2>1, FollowedTail
  <2> QED
    BY <1>0, <1>1, <2>1, <2>2, <2>3
<1>7. CASE Carries(c)
  <2>1. todo[c] # <<>> /\ Step(c).do = "write" /\ ~NoInput(c)
        /\ wrote'[c] = wrote[c] \cup {Step(c).name} /\ todo'[c] \in {<<>>, Tail(todo[c])}
    BY <1>7 DEF Carries, Sendable, At
  <2>2. Followed(todo'[c])
    BY <1>1, <1>2, <2>1, FollowedTail
  <2>3. CASE Step(c).name = "billingDay"
    <3>1. Step(c).ok = "next" /\ Step(c).callers /\ ~ebuf[c]
      BY <1>1, <2>1, <2>3 DEF StepsOf, NoInput
    <3>2. faults' > faults \/ (todo'[c] = Tail(todo[c]) /\ ebuf'[c] = ebuf[c])
      BY <1>7, <3>1 DEF Carries
    <3>3. Tail(todo[c]) # <<>> /\ Head(Tail(todo[c])) = Activation
      <4>1. 1 + 1 \in DOMAIN todo[c] /\ todo[c][1 + 1] = Activation
        BY <1>1, <2>1, <2>3, Tails DEF Followed, Step
      <4>2. 1 \in DOMAIN Tail(todo[c]) /\ Tail(todo[c])[1] = Activation
        BY <1>1, <2>1, <4>1, Tails
      <4>3. Tail(todo[c]) # <<>>
        <5>1. \A s : 1 \in DOMAIN s => s # <<>>
          OBVIOUS
        <5> QED
          BY <4>2, <5>1, Zenon
      <4>4. Head(Tail(todo[c])) = Tail(todo[c])[1]
        BY <1>1, <2>1, <4>3, Tails
      <4> QED
        BY <4>2, <4>3, <4>4
    <3>4. faults' > faults => faults' > 0
      BY <1>0
    <3>5. faults' > 0 \/ (todo'[c] # <<>> /\ Head(todo'[c]) = Activation /\ ~ebuf'[c])
      BY <3>1, <3>2, <3>3, <3>4, Zenon
    <3>6. Half(c)'
      BY <3>5, Zenon
    <3> QED
      BY <2>2, <3>6, Zenon
  <2>4. CASE Step(c).name # "billingDay"
    <3>1. Head(todo[c]) = Activation => "activate" \in wrote'[c]
      BY <1>3, <2>1 DEF Step
    <3>2. "activate" \in wrote[c] => "activate" \in wrote'[c]
      BY <2>1
    <3>3. "billingDay" \in wrote'[c] => "billingDay" \in wrote[c]
      BY <2>1, <2>4
    <3>4. "billingDay" \in wrote'[c] /\ "activate" \notin wrote'[c] => faults > 0
      BY <1>1, <3>1, <3>2, <3>3
    <3>5. faults > 0 => faults' > 0
      BY <1>0
    <3>6. Half(c)'
      BY <3>4, <3>5, Zenon
    <3> HIDE DEF Half
    <3> QED
      BY <2>2, <3>6
  <2> QED
    BY <2>3, <2>4
<1>8. CASE Fails(c)
  <2>1. todo'[c] = <<>> /\ wrote'[c] = wrote[c]
    BY <1>8 DEF Fails
  <2>2. ASSUME Head(todo[c]) = Activation, ~ebuf[c] PROVE faults' > 0
    <3>1. ~NoInput(c) /\ ~OutputTaken(c) /\ ~Step(c).result
      BY <1>3, <2>2 DEF NoInput, OutputTaken, Step
    <3> QED
      BY <1>0, <1>1, <1>8, <3>1 DEF Fails
  <2> QED
    BY <1>0, <1>1, <1>2, <2>1, <2>2
<1> QED
  BY <1>4, <1>5, <1>6, <1>7, <1>8, NextMoves DEF Moves

\* Nothing but a fault leaves a LEC account with its billing day set and not
\* active: for all requests, data bases and callers.
THEOREM NeverHalfActive == Spec => []HalfActiveOnlyAfterFault
<1>1. Init => HalfInv
  BY DEF Init, SessionInit, HalfInv, BrokenByFault, Followed, HalfWay
<1>2. IInv /\ IInv' /\ HalfInv /\ [Next]_vars => HalfInv'
  BY HalfStep
<1>3. HalfInv => HalfActiveOnlyAfterFault
  BY DEF HalfInv, HalfWay, HalfActiveOnlyAfterFault, Idle
<1> QED
  BY <1>1, <1>2, <1>3, Invariant, PTL DEF Spec
-----------------------------------------------------------------------------
\* Every fact a write needs is found or done without, or looked up before it, or
\* missing with an error in the buffer the write is called with.
Known(c) == found[c] \cup Dispensable(c)
Seen ==
    \A c \in Clients : \A f \in Needed(request[c]), i \in DOMAIN todo[c] :
        todo[c][i].do = "write" =>
            \/ f \in Known(c)
            \/ Supplied(todo[c], f, i)
            \/ i = 1 /\ ebuf[c] /\ todo[c][1].callers

LEMMA HasStays == [Next]_vars => has' = has
BY DEF Next, vars, Operate, TestArguments, ClearError, TestBuffer, LookUp, LookUpMisses, Miss, Perform,
       Decline, Fail, Lose, Withhold, Repeat, RepeatAsIs, Turn, Try, Exit, ConnectionDrops

LEMMA SeenStep ==
    ASSUME IInv, IInv', Seen, NoBlindWrite, [Next]_vars
    PROVE  Seen' /\ NoBlindWrite'
<1> DEFINE SeenBy(c, f, i) ==
             todo[c][i].do = "write" =>
                 \/ f \in Known(c)
                 \/ Supplied(todo[c], f, i)
                 \/ i = 1 /\ ebuf[c] /\ todo[c][1].callers
<1> SUFFICES ASSUME NEW c \in Clients
             PROVE  /\ \A f \in Needed(request'[c]), i \in DOMAIN todo'[c] : SeenBy(c, f, i)'
                    /\ wrote'[c] # {} => Needed(request'[c]) \subseteq Known(c)'
  BY DEF Seen, NoBlindWrite, Known
<1>0. request'[c] = request[c] => Dispensable(c)' = Dispensable(c)
  BY HasStays DEF Dispensable
<1>1. /\ \A f \in Needed(request[c]), i \in DOMAIN todo[c] : SeenBy(c, f, i)
      /\ wrote[c] # {} => Needed(request[c]) \subseteq Known(c)
      /\ todo[c] \in Seq(StepType)
  BY DEF Seen, NoBlindWrite, IInv, TypeOK, Known
<1>2. CASE Rests(c)
  BY <1>0, <1>1, <1>2 DEF Rests, Known
<1>3. CASE Begins(c)
  <2>1. request'[c] \in RequestType /\ todo'[c] = Script(request'[c]) /\ wrote'[c] = {}
    BY <1>3 DEF Begins
  <2>2. Spared(request'[c]) \subseteq Known(c)'
    BY DEF Spared, Known, Dispensable
  <2> QED
    BY <2>1, <2>2, GuardedScript DEF Guarded
<1>4. CASE Passes(c) \/ Finds(c)
  <2>1. /\ todo[c] # <<>> /\ Step(c) = todo[c][1]
        /\ todo'[c] = Tail(todo[c]) /\ UNCHANGED <<wrote[c], request[c]>>
        /\ found[c] \subseteq found'[c]
        /\ Step(c).do = "look" =>
              \/ Step(c).facts \cup (Step(c).also \cap has) \subseteq found'[c]
              \/ Step(c).miss = "on" /\ (Step(c).errs = "set" => ebuf'[c])
    BY <1>1, <1>4, Tails DEF Passes, Finds, At, Step
  <2>3. Known(c) \subseteq Known(c)'
    BY <1>0, <2>1 DEF Known
  <2>4. Step(c).do = "look" => Step(c).also \ has \subseteq Known(c)'
    <3>1. Step(c) \in StepsOf(request[c].op)
      BY <2>1, Going DEF IInv
    <3>2. Step(c).do = "look" =>
            Step(c).also \subseteq (IF request[c].op = "refund" THEN {"billinfo"} ELSE {})
      BY <3>1 DEF StepsOf
    <3>3. request[c].op = "refund" => Dispensable(c)' = {"billinfo"} \ has
      BY <1>0, <2>1 DEF Dispensable
    <3> QED
      BY <3>2, <3>3 DEF Known
  <2>2. ASSUME NEW f \in Needed(request[c]), NEW i \in DOMAIN Tail(todo[c]), Tail(todo[c])[i].do = "write"
        PROVE  \/ f \in Known(c)'
               \/ Supplied(Tail(todo[c]), f, i)
               \/ i = 1 /\ ebuf'[c] /\ Tail(todo[c])[1].callers
    <3>1. i + 1 \in DOMAIN todo[c] /\ Tail(todo[c])[i] = todo[c][i + 1] /\ i \in Nat /\ i >= 1
      BY <1>1, <2>1, Tails
    <3>2. f \in Known(c) \/ Supplied(todo[c], f, i + 1)
      BY <1>1, <2>2, <3>1
    <3>3. ASSUME Supplied(todo[c], f, i + 1), f \notin Known(c)'
          PROVE  Supplied(Tail(todo[c]), f, i) \/ (i = 1 /\ ebuf'[c] /\ Tail(todo[c])[1].callers)
      <4>1. PICK j \in 1..i :
               /\ todo[c][j].do = "look"
               /\ \/ f \in todo[c][j].facts /\ todo[c][j].miss # "on"
                  \/ /\ f \in todo[c][j].facts \cup todo[c][j].also
                     /\ j = i /\ todo[c][j].errs = "set" /\ todo[c][i + 1].callers
        <5>1. (i + 1) - 1 = i
          BY <3>1
        <5> QED
          BY <3>3, <5>1 DEF Supplied
      <4>2. CASE j = 1
        <5>1. f \notin found'[c] /\ f \notin Step(c).also \ has
          BY <2>1, <2>4, <3>3, <4>1, <4>2 DEF Known
        <5> QED
          BY <2>1, <3>1, <4>1, <4>2, <5>1
      <4>3. CASE j # 1
        <5>1. j - 1 \in 1..(i - 1) /\ Tail(todo[c])[j - 1] = todo[c][j]
              /\ (j = i => j - 1 = i - 1)
          <6>1. j - 1 \in 1..(i - 1) /\ j - 1 \in DOMAIN Tail(todo[c]) /\ (j - 1) + 1 = j
            BY <1>1, <2>1, <3>1, <4>3, Tails
          <6> QED
            BY <1>1, <2>1, <6>1, Tails
        <5> QED
          BY <3>1, <4>1, <5>1 DEF Supplied
      <4> QED
        BY <4>2, <4>3
    <3> QED
      BY <2>3, <3>2, <3>3
  <2> QED
    BY <1>1, <2>1, <2>2, <2>3
<1>5. CASE Stops(c) \/ Fails(c)
  BY <1>0, <1>1, <1>5 DEF Stops, Fails, Known
<1>6. CASE Carries(c)
  <2>1. /\ todo[c] # <<>> /\ Step(c) = todo[c][1] /\ 1 \in DOMAIN todo[c] /\ Step(c).do = "write"
        /\ ~(Step(c).callers /\ ebuf[c])
        /\ UNCHANGED <<found[c], request[c]>>
    BY <1>1, <1>6, Tails DEF Carries, Sendable, At, NoInput, Step
  <2>2. ASSUME NEW f \in Needed(request[c]) PROVE f \in Known(c)
    <3>1. ~Supplied(todo[c], f, 1)
      BY DEF Supplied
    <3> QED
      BY <1>1, <2>1, <3>1
  <2>3. Known(c)' = Known(c)
    BY <1>0, <2>1 DEF Known
  <2> QED
    BY <2>1, <2>2, <2>3
<1> QED
  BY <1>2, <1>3, <1>4, <1>5, <1>6, NextMoves DEF Moves

\* No write is made before the facts its list is filled from were looked up and
\* found, but for the serial number of a VoIP usage, the flags of a status, and a
\* billinfo the balance group has not got: for all requests, data bases, callers
\* and faults.
THEOREM NeverBlind == Spec => []NoBlindWrite
<1>1. Init => Seen /\ NoBlindWrite
  BY DEF Init, Seen, NoBlindWrite
<1>2. IInv /\ IInv' /\ Seen /\ NoBlindWrite /\ [Next]_vars => Seen' /\ NoBlindWrite'
  BY SeenStep
<1> QED
  BY <1>1, <1>2, Invariant, PTL DEF Spec
=============================================================================
