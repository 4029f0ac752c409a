------------------------------- MODULE Deposits -------------------------------
(***************************************************************************)
(* bs_DepositAccountAuths::deposit_charges of bs/function, run for one     *)
(* account by several operators, again and again.                          *)
(*                                                                         *)
(* It searches the authorizations of the account, asks for each whether it *)
(* was deposited already (transaction_exists) and collects it if not.  No  *)
(* transaction or lock holds the three steps together; the only memory is  *)
(* the server's data base, and a failing search counts as `not deposited'. *)
(***************************************************************************)
EXTENDS PinSession

CONSTANTS
    Auths,       \* the authorizations the account may come to have
    Anonymous,   \* those whose payment has no TRANS_ID
    NoAmount,    \* those whose payment has no AMOUNT
    None         \* no authorization

ASSUME DepositsAssumption ==
    /\ Anonymous \subseteq Auths
    /\ NoAmount \subseteq Auths
    /\ None \notin Auths

VARIABLES
    authorized,  \* data base: the authorizations of the account
    made,        \* data base: deposits per authorization (an anonymous one is
                 \* collected in every run, and counted once)
    declined,    \* data base: authorizations with a deposit that did not pass
    inflight,    \* deposits sent whose client has lost the connection
    pc,          \* where deposit_charges is
    todo,        \* results of the first search the loop has not reached
    cur,         \* the payment in hand
    amountOf,    \* whose amount d_flistp carries
    rc,          \* rc, and after the return what was returned
    found,       \* history: what the first search of this call returned
    unsent,      \* history: payments whose collect call was not sent
    sent,        \* history: collect calls, the payment and whose amount they carry
    struck,      \* history: failing calls per authorization
    raced        \* history: authorizations two operators had in hand at once

database == <<authorized, made, declined, inflight>>
locals   == <<pc, todo, cur, amountOf, rc>>
history  == <<found, unsent, sent, struck, raced>>
vars     == <<sessionVars, database, locals, history>>

PCs == {"idle", "search", "paytype", "loop", "check", "collect"}

TypeOK ==
    /\ SessionTypeOK
    /\ authorized \subseteq Auths
    /\ made \in [Auths -> Nat]
    /\ declined \subseteq Auths
    /\ inflight \in [Auths -> Nat]
    /\ pc \in [Clients -> PCs]
    /\ todo \in [Clients -> SUBSET Auths]
    /\ cur \in [Clients -> Auths \cup {None}]
    /\ amountOf \in [Clients -> Auths \cup {None}]
    /\ rc \in [Clients -> BOOLEAN]
    /\ found \in [Clients -> SUBSET Auths]
    /\ unsent \in [Clients -> SUBSET Auths]
    /\ sent \subseteq [payment : Auths, amount : Auths \cup {None}]
    /\ struck \in [Auths -> Nat]
    /\ raced \subseteq Auths

Init ==
    /\ SessionInit
    /\ authorized = {}
    /\ made = [p \in Auths |-> 0]
    /\ declined = {}
    /\ inflight = [p \in Auths |-> 0]
    /\ pc = [c \in Clients |-> "idle"]
    /\ todo = [c \in Clients |-> {}]
    /\ cur = [c \in Clients |-> None]
    /\ amountOf = [c \in Clients |-> None]
    /\ rc = [c \in Clients |-> FALSE]
    /\ found = [c \in Clients |-> {}]
    /\ unsent = [c \in Clients |-> {}]
    /\ sent = {}
    /\ struck = [p \in Auths |-> 0]
    /\ raced = {}

-----------------------------------------------------------------------------
(* The server.                                                             *)

\* A payment event with command AUTH_ONLY and result PASS appears.
Authorize(p) ==
    /\ p \notin authorized
    /\ authorized' = authorized \cup {p}
    /\ UNCHANGED <<sessionVars, made, declined, inflight, locals, history>>

\* The server makes the deposit, or records one that did not pass.
Charge(p) ==
    \/ /\ made' = [made EXCEPT ![p] = IF p \in Anonymous THEN 1 ELSE @ + 1]
       /\ UNCHANGED declined
    \/ declined' = declined \cup {p} /\ UNCHANGED made

\* The server gets round to a collect call nobody waits for any more, or
\* drops it with the connection it came from.
ServerPerforms(p) ==
    /\ inflight[p] > 0
    /\ inflight' = [inflight EXCEPT ![p] = @ - 1]
    /\ Charge(p)
    /\ UNCHANGED <<sessionVars, authorized, locals, history>>

ServerDrops(p) ==
    /\ inflight[p] > 0
    /\ inflight' = [inflight EXCEPT ![p] = @ - 1]
    /\ UNCHANGED <<sessionVars, authorized, made, declined, locals, history>>

-----------------------------------------------------------------------------
(* deposit_charges.                                                        *)

Goto(c, x) == pc' = [pc EXCEPT ![c] = x]

\* The call returns; what it had in hand is freed.
Return(c, value) ==
    /\ Goto(c, "idle")
    /\ rc' = [rc EXCEPT ![c] = value]
    /\ todo' = [todo EXCEPT ![c] = {}]
    /\ cur' = [cur EXCEPT ![c] = None]
    /\ amountOf' = [amountOf EXCEPT ![c] = None]
    /\ found' = [found EXCEPT ![c] = {}]
    /\ unsent' = [unsent EXCEPT ![c] = {}]

Call(c) ==
    /\ pc[c] = "idle"
    /\ Goto(c, "search")
    /\ UNCHANGED <<sessionVars, database, todo, cur, amountOf, rc, history>>

\* A plausible slip: the empty element of the results taken for a payment.
FindNullToo(c) ==
    /\ pc[c] = "search"
    /\ Performed(c)
    /\ todo' = [todo EXCEPT ![c] = authorized \cup {None}]
    /\ found' = [found EXCEPT ![c] = authorized]
    /\ Goto(c, "paytype")
    /\ UNCHANGED <<database, cur, amountOf, rc, unsent, sent, struck, raced>>

FindAuths(c) ==
    /\ pc[c] = "search"
    /\ Performed(c)
    /\ todo' = [todo EXCEPT ![c] = authorized]
    /\ found' = [found EXCEPT ![c] = authorized]
    /\ Goto(c, "paytype")
    /\ UNCHANGED <<database, cur, amountOf, rc, unsent, sent, struck, raced>>

\* bs_AccountInfo::getPayType makes a search of its own.
GetPayType(c) ==
    /\ pc[c] = "paytype"
    /\ Performed(c)
    /\ rc' = [rc EXCEPT ![c] = TRUE]
    /\ Goto(c, "loop")
    /\ UNCHANGED <<database, todo, cur, amountOf, history>>

\* A search fails.  An account without a pay type ends the call in the same way,
\* and counts as one whose search was refused.
SearchFails(c) ==
    /\ pc[c] \in {"search", "paytype"}
    /\ Failing(c)
    /\ Return(c, FALSE)
    /\ UNCHANGED <<database, sent, struck, raced>>

\* A plausible slip: the amount set once, with the fields that never change.
FillOnce(c, p) ==
    amountOf' = IF p \in NoAmount \/ amountOf[c] # None THEN amountOf
                                                       ELSE [amountOf EXCEPT ![c] = p]

\* d_flistp is filled with what the payment has; it keeps the amount of an
\* earlier payment if this one has none.
Fill(c, p) == amountOf' = IF p \in NoAmount THEN amountOf ELSE [amountOf EXCEPT ![c] = p]

\* The next result; without a TRANS_ID there is nothing to look for.
NextPayment(c, p) ==
    /\ pc[c] = "loop" /\ p \in todo[c]
    /\ todo' = [todo EXCEPT ![c] = @ \ {p}]
    /\ cur' = [cur EXCEPT ![c] = p]
    /\ IF p \in Anonymous
       THEN Goto(c, "collect") /\ Fill(c, p)
       ELSE Goto(c, "check") /\ UNCHANGED amountOf
    /\ UNCHANGED <<sessionVars, database, rc, history>>

\* transaction_exists looks for a deposit with this TRANS_ID, passed or not.
Recorded(p) == made[p] > 0 \/ p \in declined

\* A plausible slip: no `continue'.
ExistsForgotten(c) ==
    /\ pc[c] = "check" /\ Recorded(cur[c])
    /\ Performed(c)
    /\ Goto(c, "collect") /\ Fill(c, cur[c])
    /\ UNCHANGED <<database, todo, cur, rc, history>>

Exists(c) ==
    /\ pc[c] = "check" /\ Recorded(cur[c])
    /\ Performed(c)
    /\ Goto(c, "loop")
    /\ UNCHANGED <<database, todo, cur, amountOf, rc, history>>

ExistsNot(c) ==
    /\ pc[c] = "check" /\ ~Recorded(cur[c])
    /\ Performed(c)
    /\ Goto(c, "collect") /\ Fill(c, cur[c])
    /\ UNCHANGED <<database, todo, cur, rc, history>>

\* The payment in hand was struck by a failing call.
Strike(c) == struck' = [struck EXCEPT ![cur[c]] = @ + 1]

\* A failing search counts as `not deposited'.
CheckFails(c) ==
    /\ pc[c] = "check"
    /\ Failing(c)
    /\ Strike(c)
    /\ Goto(c, "collect") /\ Fill(c, cur[c])
    /\ UNCHANGED <<database, todo, cur, rc, found, unsent, sent, raced>>

-----------------------------------------------------------------------------
(* The collect call, and how it may end.                                   *)

Send(c) == sent' = sent \cup {[payment |-> cur[c], amount |-> amountOf[c]]}

InHandElsewhere(c) ==
    \E d \in Clients \ {c} : pc[d] = "collect" /\ cur[d] = cur[c]

\* A plausible slip: `break' behind the collect.
CollectAndStop(c) ==
    /\ pc[c] = "collect"
    /\ Performed(c)
    /\ Charge(cur[c])
    /\ sent' = sent \cup {[payment |-> cur[c], amount |-> amountOf[c]]}
    /\ raced' = IF InHandElsewhere(c) THEN raced \cup {cur[c]} ELSE raced
    /\ Return(c, TRUE)
    /\ UNCHANGED <<authorized, inflight, struck>>

Collect(c) ==
    /\ pc[c] = "collect"
    /\ Performed(c)
    /\ Charge(cur[c])
    /\ Send(c)
    /\ raced' = IF InHandElsewhere(c) THEN raced \cup {cur[c]} ELSE raced
    /\ rc' = [rc EXCEPT ![c] = TRUE]
    /\ Goto(c, "loop")
    /\ UNCHANGED <<authorized, inflight, todo, cur, amountOf, found, unsent, struck>>

\* A plausible slip: the result of the collect not assigned to rc.
RefusalIgnored(c) ==
    /\ pc[c] = "collect"
    /\ Refused(c) \/ Dead(c)
    /\ Return(c, rc[c])
    /\ UNCHANGED <<database, sent, struck, raced>>

\* With an error in the error buffer PIN_FLIST_ELEM_GET_NEXT returns nothing,
\* so that the loop ends.
CollectRefused(c) ==
    /\ pc[c] = "collect"
    /\ Refused(c) \/ Dead(c)
    /\ Return(c, FALSE)
    /\ UNCHANGED <<database, sent, struck, raced>>

CollectLost(c) ==
    /\ pc[c] = "collect"
    /\ Lost(c)
    /\ Send(c) /\ Strike(c)
    /\ inflight' = [inflight EXCEPT ![cur[c]] = @ + 1]
    /\ Return(c, FALSE)
    /\ UNCHANGED <<authorized, made, declined, raced>>

\* False, but without an error: the loop goes on.
CollectUnsent(c) ==
    /\ pc[c] = "collect"
    /\ Unsent(c)
    /\ rc' = [rc EXCEPT ![c] = FALSE]
    /\ unsent' = [unsent EXCEPT ![c] = @ \cup {cur[c]}]
    /\ Goto(c, "loop")
    /\ UNCHANGED <<database, todo, cur, amountOf, found, sent, struck, raced>>

EndOfLoop(c) ==
    /\ pc[c] = "loop" /\ todo[c] = {}
    /\ Return(c, rc[c])
    /\ UNCHANGED <<sessionVars, database, sent, struck, raced>>

-----------------------------------------------------------------------------
(* The processes.                                                          *)

ConnectionDrops(c) == Drop(c) /\ UNCHANGED <<database, locals, history>>

\* The program ends between two calls of deposit_charges.
Exit(c) ==
    /\ pc[c] = "idle"
    /\ EndProcess(c)
    /\ UNCHANGED <<faults, database, locals, history>>

\* The process dies, perhaps with a collect call on its way.
Crash(c) ==
    /\ pc[c] # "idle"
    /\ Fault
    /\ EndProcess(c)
    /\ Return(c, FALSE)
    /\ \/ UNCHANGED <<inflight, sent, struck>>
       \/ /\ pc[c] = "collect" /\ OpenConnection(c) = "live"
          /\ Send(c) /\ Strike(c)
          /\ inflight' = [inflight EXCEPT ![cur[c]] = @ + 1]
    /\ UNCHANGED <<authorized, made, declined, raced>>

Step(c) ==
    \/ Call(c) \/ FindAuths(c) \/ GetPayType(c) \/ SearchFails(c)
    \/ \E p \in Auths : NextPayment(c, p)
    \/ Exists(c) \/ ExistsNot(c) \/ CheckFails(c)
    \/ Collect(c) \/ CollectRefused(c) \/ CollectLost(c) \/ CollectUnsent(c)
    \/ EndOfLoop(c)

Next ==
    \/ \E c \in Clients : Step(c) \/ ConnectionDrops(c) \/ Exit(c) \/ Crash(c)
    \/ \E p \in Auths : Authorize(p) \/ ServerPerforms(p) \/ ServerDrops(p)

Spec == Init /\ [][Next]_vars

\* A call that was begun goes on; the program is ended and run again.
FairSpec ==
    Spec /\ \A c \in Clients : WF_vars(Step(c)) /\ SF_vars(Exit(c) /\ ctx' # ctx)

-----------------------------------------------------------------------------
(* Properties.                                                             *)

\* An authorization with an id is deposited once, plus once for each failing
\* call about it (a search that counted as `no', a collect whose answer was
\* lost), unless two operators had passed transaction_exists for it at once.
OnceUnlessStruckOrRaced ==
    \A p \in Auths \ (Anonymous \cup raced) : made[p] + inflight[p] <= 1 + struck[p]

\* When deposit_charges returns true every authorization its search has found
\* has a deposit on record, but for those whose collect call found no
\* connection: that call is false without an error, and only the success of
\* another authorization of the same search hides it.
TrueMeansRecorded ==
    [][\A c \in Clients :
         (pc[c] # "idle" /\ pc'[c] = "idle" /\ rc'[c]) =>
             /\ \A p \in found[c] : Recorded(p) \/ p \in unsent[c]
             /\ unsent[c] = {} \/ \E p \in found[c] \ unsent[c] : Recorded(p)]_vars

\* A collect call carries the amount of its own payment, if that has one.  The
\* flist that is reused for all payments brings in a stranger's only if not, and
\* then that of a payment this very call has found and had in hand before.
OwnAmount ==
    /\ \A s \in sent : s.amount = s.payment \/ s.payment \in NoAmount
    /\ \A c \in Clients : amountOf[c] = None \/ amountOf[c] \in found[c] \ todo[c]

\* Every authorization has a deposit on record sooner or later.
EveryAuthSettles == \A p \in Auths : p \in authorized ~> Recorded(p)
=============================================================================
