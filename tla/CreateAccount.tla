----------------------------- MODULE CreateAccount -----------------------------
(***************************************************************************)
(* bs_CreateBillingAccount::createAccount of bs/function, with the cache   *)
(* of bs/obj/bs_DealCache it makes the plan of an account from.            *)
(*                                                                         *)
(* The cache is one per process and is filled once, by two searches.  The  *)
(* deals a sign-up record asks for are put into the services of a copy of  *)
(* the universal plan, one after the other; the flist with services,       *)
(* addresses and pay type is then committed in one call.                   *)
(***************************************************************************)
EXTENDS PinSession, Sequences

CONSTANTS
    Types,       \* the service types
    Deals,       \* the poids of the deals
    Id,          \* UNTD_FLD_DEAL_ID of a deal
    Permitted,   \* PIN_FLD_PERMITTED, the service type a deal is for
    Seasonal,    \* the deals that are on sale and off again
    Plans,       \* what plans named `UOL Universal Plan' there may be
    Records,     \* the sign-up records
    NoDeal       \* no DEAL_OBJ in a service

Service == [type : Types, deal : Deals \cup {NoDeal}]

Fields == {"address", "city", "state", "zip"}
PayTypes == {"dd", "cc", "invoice", "lec", "other"}

\* A record: the deal ids of s_addDeals, the fields that are filled in of the
\* contact and the billing address, and the pay type.
RecordType ==
    [deals : Seq(Int), contact : SUBSET Fields, billing : SUBSET Fields, pay : PayTypes]

ASSUME CreateAccountAssumption ==
    /\ NoDeal \notin Deals
    /\ Permitted \in [Deals -> Types]
    /\ Id \in [Deals -> Int]
    /\ Seasonal \subseteq Deals
    /\ Plans \subseteq Seq(Service)
    /\ Records \subseteq RecordType

VARIABLES
    universal,    \* data base: the plans of that name
    onSale,       \* data base: the deals on sale
    initialized,  \* m_initialized of each process' cache
    plan,         \* universal_plan_flistp: no plan, or one
    cached,       \* the deals in deal_flistp
    pc,           \* where createAccount is
    record,       \* its argument
    left,         \* the deal ids that have not been looked for
    placing,      \* the deals of the id before that have no service yet
    services,     \* c_flistp: the services
    answer,       \* what createAccount returned last
    steady, ever, \* history: the deals on sale at all times, and at any time, of the process
    account,      \* history: the server made the account in this call
    unsent        \* history: the commit of this call found no connection

cache   == <<initialized, plan, cached>>
local   == <<left, placing, services>>
history == <<steady, ever, account, unsent>>
vars == <<sessionVars, universal, onSale, cache, pc, record, local, answer, history>>

FlagsOK ==
    /\ initialized \in [Clients -> BOOLEAN]
    /\ account \in [Clients -> BOOLEAN]
    /\ unsent \in [Clients -> BOOLEAN]

TypeOK ==
    /\ SessionTypeOK
    /\ FlagsOK
    /\ universal \subseteq Plans
    /\ onSale \subseteq Deals
    /\ plan \in [Clients -> SUBSET Plans]
    /\ cached \in [Clients -> SUBSET Deals]
    /\ pc \in [Clients -> {"idle", "plan", "deals", "build", "commit"}]
    /\ record \in [Clients -> Records]
    /\ left \in [Clients -> Seq(Int)]
    /\ placing \in [Clients -> SUBSET Deals]
    /\ services \in [Clients -> Seq(Service)]
    /\ answer \in [Clients -> {"yes", "no"}]
    /\ steady \in [Clients -> SUBSET Deals]
    /\ ever \in [Clients -> SUBSET Deals]

Init ==
    /\ SessionInit
    /\ universal \in SUBSET Plans
    /\ onSale \in SUBSET Deals
    /\ Deals \ Seasonal \subseteq onSale
    /\ initialized = [c \in Clients |-> FALSE]
    /\ plan = [c \in Clients |-> {}]
    /\ cached = [c \in Clients |-> {}]
    /\ pc = [c \in Clients |-> "idle"]
    /\ record \in [Clients -> Records]
    /\ left = [c \in Clients |-> <<>>]
    /\ placing = [c \in Clients |-> {}]
    /\ services = [c \in Clients |-> <<>>]
    /\ answer = [c \in Clients |-> "no"]
    /\ steady = [c \in Clients |-> onSale]
    /\ ever = [c \in Clients |-> onSale]
    /\ account = [c \in Clients |-> FALSE]
    /\ unsent = [c \in Clients |-> FALSE]

-----------------------------------------------------------------------------
(* The data base, the caller and the process.                              *)

\* A deal is put on sale or taken off.
Market ==
    \E d \in Seasonal :
        /\ onSale' = IF d \in onSale THEN onSale \ {d} ELSE onSale \cup {d}
        /\ steady' = [c \in Clients |-> steady[c] \cap onSale']
        /\ ever' = [c \in Clients |-> ever[c] \cup onSale']
        /\ UNCHANGED <<sessionVars, universal, cache, pc, record, local, answer, account, unsent>>

\* createPlanFlist begins: a copy of the cached plan.
Copy(c) ==
    /\ pc' = [pc EXCEPT ![c] = "build"]
    /\ left' = [left EXCEPT ![c] = record'[c].deals]
    /\ placing' = [placing EXCEPT ![c] = {}]
    /\ \E p \in plan'[c] : services' = [services EXCEPT ![c] = p]

Reset(c) ==
    /\ initialized' = [initialized EXCEPT ![c] = FALSE]
    /\ plan' = [plan EXCEPT ![c] = {}]
    /\ cached' = [cached EXCEPT ![c] = {}]

\* createAccount as far as the cache: a filled cache is used as it is, any
\* other is emptied first.  That a filled one has a plan is an invariant, and
\* so createAccount's answer to a plan flist that is NULL is never given.
Create(c) ==
    /\ answer' = [answer EXCEPT ![c] = "no"]
    /\ account' = [account EXCEPT ![c] = FALSE]
    /\ unsent' = [unsent EXCEPT ![c] = FALSE]
    /\ \/ initialized[c] /\ UNCHANGED cache /\ Copy(c)
       \/ ~initialized[c] /\ Reset(c) /\ pc' = [pc EXCEPT ![c] = "plan"] /\ UNCHANGED local
    /\ UNCHANGED <<sessionVars, universal, onSale, steady, ever>>

\* The caller tries a record again that was answered false, or takes the next.
Repeat(c) == pc[c] = "idle" /\ answer[c] = "no" /\ UNCHANGED record /\ Create(c)

TakeNext(c) ==
    /\ pc[c] = "idle" /\ (answer[c] = "yes" \/ universal = {})
    /\ \E r \in Records : record' = [record EXCEPT ![c] = r]
    /\ Create(c)

\* The process ends, and is started again.
Exit(c) ==
    /\ pc[c] = "idle"
    /\ EndProcess(c)
    /\ Reset(c)
    /\ steady' = [steady EXCEPT ![c] = onSale]
    /\ ever' = [ever EXCEPT ![c] = onSale]
    /\ UNCHANGED <<faults, universal, onSale, pc, record, local, answer, account, unsent>>

ConnectionDrops(c) ==
    Drop(c) /\ UNCHANGED <<universal, onSale, cache, pc, record, local, answer, history>>

-----------------------------------------------------------------------------
(* bs_DealCache::initialize.                                               *)

Return(c, a) == pc' = [pc EXCEPT ![c] = "idle"] /\ answer' = [answer EXCEPT ![c] = a]

\* A plausible slip: the cache called initialized with the first search.
PlanIsEnough(c) ==
    /\ pc[c] = "plan" /\ universal # {}
    /\ Performed(c)
    /\ \E p \in universal : plan' = [plan EXCEPT ![c] = {p}]
    /\ initialized' = [initialized EXCEPT ![c] = TRUE]
    /\ pc' = [pc EXCEPT ![c] = "deals"]
    /\ UNCHANGED <<universal, onSale, cached, record, local, answer, history>>

\* getUniversalPlan finds plans, and takes any of them.
GetUniversalPlan(c) ==
    /\ pc[c] = "plan" /\ universal # {}
    /\ Performed(c)
    /\ \E p \in universal : plan' = [plan EXCEPT ![c] = {p}]
    /\ pc' = [pc EXCEPT ![c] = "deals"]
    /\ UNCHANGED <<universal, onSale, initialized, cached, record, local, answer, history>>

\* A plausible slip: the cache called initialized before it is filled.
InitializedTooEarly(c) ==
    /\ pc[c] = "plan"
    /\ (universal = {} /\ Performed(c)) \/ Failing(c)
    /\ initialized' = [initialized EXCEPT ![c] = TRUE]
    /\ Return(c, "no")
    /\ UNCHANGED <<universal, onSale, plan, cached, record, local, history>>

\* It finds none, or the search fails.
NoUniversalPlan(c) ==
    /\ pc[c] = "plan"
    /\ (universal = {} /\ Performed(c)) \/ Failing(c)
    /\ Return(c, "no")
    /\ UNCHANGED <<universal, onSale, cache, record, local, history>>

\* cacheDeals; that no deal is on sale is no reason not to be content.
CacheDeals(c) ==
    /\ pc[c] = "deals"
    /\ Performed(c)
    /\ cached' = [cached EXCEPT ![c] = onSale]
    /\ initialized' = [initialized EXCEPT ![c] = TRUE]
    /\ UNCHANGED <<universal, onSale, plan, record, answer, history>>
    /\ Copy(c)

CacheDealsFails(c) ==
    /\ pc[c] = "deals"
    /\ Failing(c)
    /\ Return(c, "no")
    /\ UNCHANGED <<universal, onSale, cache, record, local, history>>

-----------------------------------------------------------------------------
(* createPlanFlist and addDeal.                                            *)

Building(c) ==
    /\ pc[c] = "build"
    /\ UNCHANGED <<sessionVars, universal, onSale, cache, record, answer, history>>

\* addDeal for the next id: its deals among the cached ones, maybe none.
LookForDeals(c) ==
    /\ Building(c)
    /\ placing[c] = {} /\ left[c] # <<>>
    /\ placing' = [placing EXCEPT ![c] = {d \in cached[c] : Id[d] = Head(left[c])}]
    /\ left' = [left EXCEPT ![c] = Tail(@)]
    /\ UNCHANGED <<pc, services>>

\* The slots of a deal: services of its type without a deal.
Slots(s, d) == {i \in DOMAIN s : s[i].type = Permitted[d] /\ s[i].deal = NoDeal}

IsFirst(i, slots) == i \in slots /\ \A j \in slots : i <= j

NewService(c, type, d) ==
    services' = [services EXCEPT ![c] = Append(@, [type |-> type, deal |-> d])]

\* A plausible slip: DEAL_OBJ of the service not looked at.
InAnyService(c, d) ==
    LET own == {i \in DOMAIN services[c] : services[c][i].type = Permitted[d]} IN
    \/ \E i \in own : IsFirst(i, own) /\ services' = [services EXCEPT ![c][i].deal = d]
    \/ own = {} /\ NewService(c, Permitted[d], d)

\* A plausible slip: the new service made of the deal's poid in place of its
\* permitted type.
NewServiceOfDeal(c, d) ==
    LET slots == Slots(services[c], d) IN
    \/ \E i \in slots : IsFirst(i, slots) /\ services' = [services EXCEPT ![c][i].deal = d]
    \/ slots = {} /\ NewService(c, d, d)

\* The first slot, or else a service more.
PutDeal(c, d) ==
    LET slots == Slots(services[c], d) IN
    \/ \E i \in slots : IsFirst(i, slots) /\ services' = [services EXCEPT ![c][i].deal = d]
    \/ slots = {} /\ NewService(c, Permitted[d], d)

AddDeal(c) ==
    /\ Building(c)
    /\ \E d \in placing[c] :
          /\ PutDeal(c, d)
          /\ placing' = [placing EXCEPT ![c] = @ \ {d}]
    /\ UNCHANGED <<pc, left>>

EndOfDeals(c) ==
    /\ Building(c)
    /\ placing[c] = {} /\ left[c] = <<>>
    /\ pc' = [pc EXCEPT ![c] = "commit"]
    /\ UNCHANGED local

-----------------------------------------------------------------------------
(* What is committed.                                                      *)

\* The city alone is no address: one given without the rest is overwritten.
Empty(fields) == fields \subseteq {"city"}
Given(fields, by) == [f \in Fields |-> IF f \in fields THEN by ELSE ""]

ContactAddress(r) ==
    IF Empty(r.contact) THEN [f \in Fields |-> "default"] ELSE Given(r.contact, "contact")

\* A plausible slip: the billing address copied before the default is set.
BillingFirst(r) ==
    IF Empty(r.billing) THEN Given(r.contact, "contact") ELSE Given(r.billing, "billing")

BillingAddress(r) ==
    IF Empty(r.billing) THEN ContactAddress(r) ELSE Given(r.billing, "billing")

\* The address of the payinfo; LEC has a telephone number instead.
PayAddress(r) ==
    CASE r.pay = "dd" -> ContactAddress(r)
      [] r.pay \in {"cc", "invoice"} -> BillingAddress(r)
      [] OTHER -> Given({}, "")

\* The server may make the account whenever it is asked to.  A commit that is
\* repeated because the answer to one that made it was lost is one more: whether
\* the data base refuses a login it has got is outside the code.
Commit(c) ==
    /\ pc[c] = "commit"
    /\ Performed(c)
    /\ Return(c, "yes")
    /\ account' = [account EXCEPT ![c] = TRUE]
    /\ UNCHANGED <<universal, onSale, cache, record, local, steady, ever, unsent>>

\* A plausible slip: the answer given before the error is looked at.
CommitErrorIgnored(c) ==
    /\ pc[c] = "commit"
    /\ Refused(c) \/ Lost(c) \/ Dead(c)
    /\ Return(c, "yes")
    /\ UNCHANGED <<universal, onSale, cache, record, local, history>>

\* An error; with a lost connection the account may have been made.
CommitFails(c) ==
    /\ pc[c] = "commit"
    /\ \/ (Refused(c) \/ Dead(c)) /\ UNCHANGED account
       \/ Lost(c) /\ \E made \in BOOLEAN : account' = [account EXCEPT ![c] = made]
    /\ Return(c, "no")
    /\ UNCHANGED <<universal, onSale, cache, record, local, steady, ever, unsent>>

\* call_opcode's false is not looked at, and there is no error.
CommitUnsent(c) ==
    /\ pc[c] = "commit"
    /\ Unsent(c)
    /\ Return(c, "yes")
    /\ unsent' = [unsent EXCEPT ![c] = TRUE]
    /\ UNCHANGED <<universal, onSale, cache, record, local, steady, ever, account>>

Operate(c) ==
    \/ GetUniversalPlan(c) \/ NoUniversalPlan(c) \/ CacheDeals(c) \/ CacheDealsFails(c)
    \/ LookForDeals(c) \/ AddDeal(c) \/ EndOfDeals(c)
    \/ Commit(c) \/ CommitFails(c) \/ CommitUnsent(c)

Next ==
    \/ Market
    \/ \E c \in Clients :
          \/ Operate(c) \/ Repeat(c) \/ TakeNext(c) \/ Exit(c) \/ ConnectionDrops(c)

Spec == Init /\ [][Next]_vars

\* A call that was begun goes on, the caller comes back with a record that was
\* answered false, and starts its program afresh if a connection stays broken.
FairSpec ==
    /\ Spec
    /\ \A c \in Clients :
          WF_vars(Operate(c)) /\ SF_vars(Repeat(c)) /\ SF_vars(Exit(c) /\ ctx[c] = "stale")

-----------------------------------------------------------------------------
(* Properties.                                                             *)

Count(s, d) == Cardinality({i \in DOMAIN s : s[i].deal = d})
Times(r, d) == Cardinality({i \in DOMAIN r.deals : r.deals[i] = Id[d]})

\* The plan a process makes its accounts from.
OwnPlan(c) == CHOOSE p \in plan[c] : TRUE
Added(c, d) == Count(services[c], d) - Count(OwnPlan(c), d)

\* A deal the record asks for that was on sale whenever the process might have
\* looked is in as many services as it was asked for times, and none is that
\* was on sale at no such time: a cache that was half filled is never used.
DealsAsAsked(c) ==
    \A d \in Deals :
        /\ Added(c, d) \in {0, Times(record[c], d)}
        /\ d \in steady[c] => Added(c, d) = Times(record[c], d)
        /\ d \notin ever[c] => Added(c, d) = 0

\* Nothing is committed whose contact address, or the address of a payinfo that
\* has one, is blank: the defaults reach the billing address as well.
Addressed(c) ==
    LET r == record[c] IN
    /\ \E f \in Fields \ {"city"} : ContactAddress(r)[f] # ""
    /\ r.pay \in {"dd", "cc", "invoice"} =>
          \E f \in Fields \ {"city"} : PayAddress(r)[f] # ""

\* What is committed is what the sign-up record asked for.
AsAsked == \A c \in Clients : pc[c] = "commit" => DealsAsAsked(c) /\ Addressed(c)

\* s is plan p with deals added as they should be.
Placed(p, s) ==
    LET New(i) == i > Len(p) \/ p[i].deal = NoDeal IN
    /\ Len(p) <= Len(s)
    /\ \A i \in 1..Len(p) : s[i].type = p[i].type /\ (New(i) \/ s[i].deal = p[i].deal)
    /\ \A i \in 1..Len(s) : (New(i) /\ s[i].deal # NoDeal) => s[i].type = Permitted[s[i].deal]
    /\ \A i \in 1..Len(s), j \in 1..Len(s) :
          (i > Len(p) /\ s[i].type = s[j].type) => s[j].deal # NoDeal

\* The services of the plan are still there with the deals they had, every deal
\* that was added is in a service it is permitted in, and no service was added
\* while one of the same type had no deal.
InItsPlace ==
    \A c \in Clients : pc[c] = "commit" => \A p \in plan[c] : Placed(p, services[c])

\* True means that the server has made the account, but for a commit that found
\* no connection: only the error buffer is looked at, and there is no error.
YesMeansCreated ==
    \A c \in Clients : pc[c] = "idle" /\ answer[c] = "yes" => account[c] \/ unsent[c]

\* Every record is answered true in the end if there is a universal plan,
\* whatever failed while the cache was being filled.
EveryRecordIsAnswered ==
    \A c \in Clients, r \in Records :
        (record[c] = r /\ universal # {}) ~> (record[c] = r /\ answer[c] = "yes")
=============================================================================
