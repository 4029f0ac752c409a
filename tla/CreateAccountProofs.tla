------------------------- MODULE CreateAccountProofs -------------------------
(***************************************************************************)
(* Proofs about module CreateAccount, for any deals, plans, records,       *)
(* processes and faults.                                                   *)
(***************************************************************************)
EXTENDS CreateAccount, FiniteSetTheorems, TLAPS

\* A cache that is called initialized has a plan, ...
PlanOK ==
    \A c \in Clients :
        /\ plan[c] = {} \/ \E p \in Plans : plan[c] = {p}
        /\ initialized[c] \/ pc[c] = "deals" => plan[c] # {}

PhaseOK ==
    \A c \in Clients :
        /\ pc[c] \in {"build", "commit"} => initialized[c]
        /\ pc[c] = "commit" => left[c] = <<>> /\ placing[c] = {}

\* ... and the deals in it are those that a search of the process has found.
StockOK ==
    \A c \in Clients :
        /\ initialized[c] => steady[c] \subseteq cached[c] /\ cached[c] \subseteq ever[c]
        /\ steady[c] \subseteq onSale /\ onSale \subseteq ever[c]

CacheOK == PlanOK /\ PhaseOK /\ StockOK

BuiltOf(c) == pc[c] \in {"build", "commit"}

PlacedOK ==
    \A c \in Clients : BuiltOf(c) => \A p \in plan[c] : Placed(p, services[c])

\* The ids that were looked for are the first k of the record's.
Looked(c, k) ==
    /\ k \in 0..Len(record[c].deals)
    /\ Len(left[c]) = Len(record[c].deals) - k
    /\ \A j \in 1..Len(left[c]) : left[c][j] = record[c].deals[k + j]

\* How often x is among the first k of f.
Hits(f, x, k) == Cardinality({i \in 1..k : f[i] = x})

Due(c, k, d) == IF d \in cached[c] THEN Hits(record[c].deals, Id[d], k) ELSE 0

Waiting(c, d) == IF d \in placing[c] THEN 1 ELSE 0

CountOK ==
    \A c \in Clients : BuiltOf(c) =>
        \E k \in Nat :
            /\ Looked(c, k)
            /\ \A d \in Deals, p \in plan[c] :
                  Count(services[c], d) + Waiting(c, d) = Count(p, d) + Due(c, k, d)

IInv == TypeOK /\ CacheOK /\ PlacedOK /\ CountOK /\ YesMeansCreated
-----------------------------------------------------------------------------
(* Types.                                                                  *)

LEMMA SessionStep ==
    ASSUME SessionTypeOK, NEW c \in Clients
    PROVE  /\ Performed(c) => SessionTypeOK'
           /\ Failing(c) => SessionTypeOK'
           /\ Drop(c) => SessionTypeOK'
           /\ EndProcess(c) /\ UNCHANGED faults => SessionTypeOK'
           /\ UNCHANGED sessionVars => SessionTypeOK'
BY PinSessionAssumption DEF SessionTypeOK, Contexts, Performed, Failing, Refused, Lost, Dead, Unsent, Drop,
   EndProcess, OpenConnection, IsConnected, Fault, sessionVars

LEMMA PutDealType ==
    ASSUME TypeOK, NEW c \in Clients, NEW d \in Deals, PutDeal(c, d)
    PROVE  services' \in [Clients -> Seq(Service)]
<1>0. services \in [Clients -> Seq(Service)] /\ Permitted[d] \in Types
  BY CreateAccountAssumption DEF TypeOK
<1> DEFINE s == services[c]
           slots == Slots(s, d)
<1>1. ASSUME NEW i \in slots, services' = [services EXCEPT ![c][i].deal = d]
      PROVE  services' \in [Clients -> Seq(Service)]
  <2>1. s \in Seq(Service) /\ i \in 1..Len(s)
    BY <1>0, <1>1 DEF Slots
  <2>2. s[i] \in Service
    BY <2>1
  <2>3. [s[i] EXCEPT !.deal = d] \in Service
    BY <2>2 DEF Service
  <2>4. [s EXCEPT ![i] = [s[i] EXCEPT !.deal = d]] \in Seq(Service)
    BY <2>1, <2>3
  <2>5. services' = [services EXCEPT ![c] = [s EXCEPT ![i] = [s[i] EXCEPT !.deal = d]]]
    BY <1>1
  <2> QED
    BY <1>0, <2>4, <2>5
<1>2. CASE NewService(c, Permitted[d], d)
  <2>1. [type |-> Permitted[d], deal |-> d] \in Service
    BY <1>0 DEF Service
  <2>2. Append(s, [type |-> Permitted[d], deal |-> d]) \in Seq(Service)
    BY <1>0, <2>1
  <2> QED
    BY <1>0, <1>2, <2>2 DEF NewService
<1> QED
  BY <1>1, <1>2 DEF PutDeal

LEMMA CopyType ==
    ASSUME TypeOK, NEW c \in Clients, Copy(c), record' \in [Clients -> Records],
           plan' \in [Clients -> SUBSET Plans]
    PROVE  /\ pc' = [pc EXCEPT ![c] = "build"]
           /\ left' \in [Clients -> Seq(Int)]
           /\ placing' \in [Clients -> SUBSET Deals]
           /\ services' \in [Clients -> Seq(Service)]
<1>1. record'[c].deals \in Seq(Int)
  BY CreateAccountAssumption DEF RecordType
<1>2. left' \in [Clients -> Seq(Int)]
  BY <1>1 DEF Copy, TypeOK
<1>3. placing' \in [Clients -> SUBSET Deals]
  BY DEF Copy, TypeOK
<1>4. services' \in [Clients -> Seq(Service)]
  <2>1. PICK p \in plan'[c] : services' = [services EXCEPT ![c] = p]
    BY DEF Copy
  <2>2. p \in Seq(Service)
    BY CreateAccountAssumption
  <2>3. services \in [Clients -> Seq(Service)]
    BY DEF TypeOK
  <2> QED
    BY <2>1, <2>2, <2>3
<1> QED
  BY <1>2, <1>3, <1>4 DEF Copy

LEMMA TypeStep == TypeOK /\ [Next]_vars => TypeOK'
<1> SUFFICES ASSUME TypeOK, [Next]_vars PROVE TypeOK'
  OBVIOUS
<1> USE DEF history, cache, local
<1>1. CASE Market
  BY <1>1, CreateAccountAssumption, SessionStep DEF Market, TypeOK, FlagsOK, SessionTypeOK, sessionVars
<1>2. ASSUME NEW c \in Clients, Create(c), record' \in [Clients -> Records] PROVE TypeOK'
  <2>1. /\ FlagsOK' /\ SessionTypeOK' /\ universal' \subseteq Plans /\ onSale' \subseteq Deals
        /\ plan' \in [Clients -> SUBSET Plans] /\ cached' \in [Clients -> SUBSET Deals]
        /\ answer' \in [Clients -> {"yes", "no"}]
        /\ steady' \in [Clients -> SUBSET Deals] /\ ever' \in [Clients -> SUBSET Deals]
    BY <1>2 DEF Create, Reset, TypeOK, FlagsOK, SessionTypeOK, sessionVars
  <2>2. CASE initialized[c] /\ Copy(c)
    BY <1>2, <2>1, <2>2, CopyType DEF TypeOK
  <2>3. CASE pc' = [pc EXCEPT ![c] = "plan"] /\ UNCHANGED local
    BY <1>2, <2>1, <2>3 DEF TypeOK
  <2> QED
    BY <1>2, <2>2, <2>3 DEF Create
<1>3. ASSUME NEW c \in Clients, Repeat(c) \/ TakeNext(c) PROVE TypeOK'
  <2>1. Create(c) /\ record' \in [Clients -> Records]
    BY <1>3 DEF Repeat, TakeNext, TypeOK
  <2> QED
    BY <1>2, <2>1
<1>4. ASSUME NEW c \in Clients, Exit(c) PROVE TypeOK'
  <2>1. SessionTypeOK'
    BY <1>4, SessionStep DEF Exit, TypeOK
  <2> QED
    BY <1>4, <2>1 DEF Exit, Reset, TypeOK, FlagsOK
<1>5. ASSUME NEW c \in Clients, ConnectionDrops(c) PROVE TypeOK'
  <2>1. SessionTypeOK'
    BY <1>5, SessionStep DEF ConnectionDrops, TypeOK
  <2> QED
    BY <1>5, <2>1 DEF ConnectionDrops, TypeOK, FlagsOK
<1>6. ASSUME NEW c \in Clients, GetUniversalPlan(c) PROVE TypeOK'
  <2>1. SessionTypeOK'
    BY <1>6, SessionStep DEF GetUniversalPlan, TypeOK
  <2> QED
    BY <1>6, <2>1 DEF GetUniversalPlan, TypeOK, FlagsOK
<1>7. ASSUME NEW c \in Clients, NoUniversalPlan(c) \/ CacheDealsFails(c) PROVE TypeOK'
  <2>1. SessionTypeOK'
    BY <1>7, SessionStep DEF NoUniversalPlan, CacheDealsFails, TypeOK
  <2> QED
    BY <1>7, <2>1 DEF NoUniversalPlan, CacheDealsFails, Return, TypeOK, FlagsOK
<1>8. ASSUME NEW c \in Clients, CacheDeals(c) PROVE TypeOK'
  <2>1. SessionTypeOK'
    BY <1>8, SessionStep DEF CacheDeals, TypeOK
  <2>2. Copy(c) /\ record' \in [Clients -> Records] /\ plan' \in [Clients -> SUBSET Plans]
    BY <1>8 DEF CacheDeals, TypeOK
  <2>3. FlagsOK'
    BY <1>8 DEF CacheDeals, TypeOK, FlagsOK
  <2> QED
    BY <1>8, <2>1, <2>2, <2>3, CopyType DEF CacheDeals, TypeOK
<1>9. ASSUME NEW c \in Clients, Building(c), pc' \in {pc, [pc EXCEPT ![c] = "commit"]},
             left' \in [Clients -> Seq(Int)], placing' \in [Clients -> SUBSET Deals],
             services' \in [Clients -> Seq(Service)]
      PROVE  TypeOK'
  <2>1. FlagsOK'
    BY <1>9 DEF Building, TypeOK, FlagsOK
  <2>2. SessionTypeOK'
    BY <1>9, SessionStep DEF Building, TypeOK
  <2>3. pc' \in [Clients -> {"idle", "plan", "deals", "build", "commit"}]
    BY <1>9 DEF TypeOK
  <2> QED
    BY <1>9, <2>1, <2>2, <2>3 DEF Building, TypeOK
<1>10. ASSUME NEW c \in Clients, LookForDeals(c) \/ AddDeal(c) \/ EndOfDeals(c) PROVE TypeOK'
  <2>1. CASE LookForDeals(c)
    <3>1. Tail(left[c]) \in Seq(Int)
      BY <2>1 DEF LookForDeals, TypeOK
    <3>2. left' \in [Clients -> Seq(Int)] /\ placing' \in [Clients -> SUBSET Deals]
      BY <2>1, <3>1 DEF LookForDeals, TypeOK
    <3> QED
      BY <1>9, <2>1, <3>2 DEF LookForDeals, TypeOK
  <2>2. CASE AddDeal(c)
    <3>1. services' \in [Clients -> Seq(Service)]
      BY <2>2, PutDealType DEF AddDeal, TypeOK
    <3>2. placing' \in [Clients -> SUBSET Deals]
      BY <2>2 DEF AddDeal, TypeOK
    <3> QED
      BY <1>9, <2>2, <3>1, <3>2 DEF AddDeal, TypeOK
  <2>3. CASE EndOfDeals(c)
    BY <1>9, <2>3 DEF EndOfDeals, TypeOK
  <2> QED
    BY <1>10, <2>1, <2>2, <2>3
<1>11. ASSUME NEW c \in Clients, Commit(c) \/ CommitFails(c) \/ CommitUnsent(c) PROVE TypeOK'
  <2>1. SessionTypeOK'
    BY <1>11, SessionStep DEF Commit, CommitFails, CommitUnsent, Failing, TypeOK
  <2>2. FlagsOK'
    <3>1. /\ UNCHANGED initialized
          /\ account' = account \/ \E made \in BOOLEAN : account' = [account EXCEPT ![c] = made]
          /\ unsent' = unsent \/ unsent' = [unsent EXCEPT ![c] = TRUE]
      BY <1>11 DEF Commit, CommitFails, CommitUnsent, cache, history
    <3>2. FlagsOK
      BY DEF TypeOK
    <3> QED
      BY <3>1, <3>2 DEF FlagsOK
  <2>3. UNCHANGED <<universal, onSale, cache, record, local, steady, ever>>
    BY <1>11 DEF Commit, CommitFails, CommitUnsent
  <2>4. pc' = [pc EXCEPT ![c] = "idle"] /\ \E a \in {"yes", "no"} : answer' = [answer EXCEPT ![c] = a]
    BY <1>11 DEF Commit, CommitFails, CommitUnsent, Return
  <2> QED
    BY <2>1, <2>2, <2>3, <2>4 DEF TypeOK
<1>12. CASE UNCHANGED vars
  BY <1>12 DEF vars, sessionVars, TypeOK, FlagsOK, SessionTypeOK
<1> QED
  BY <1>1, <1>3, <1>4, <1>5, <1>6, <1>7, <1>8, <1>10, <1>11, <1>12 DEF Next, Operate

-----------------------------------------------------------------------------
(* The cache, and what createAccount answers.                              *)

LEMMA PlanStep == TypeOK /\ PlanOK /\ [Next]_vars => PlanOK'
<1> SUFFICES ASSUME TypeOK, PlanOK, [Next]_vars PROVE PlanOK'
  OBVIOUS
<1> USE DEF history, cache, local, PlanOK
<1>0. /\ plan \in [Clients -> SUBSET Plans] /\ initialized \in [Clients -> BOOLEAN]
      /\ universal \subseteq Plans
      /\ pc \in [Clients -> {"idle", "plan", "deals", "build", "commit"}]
  BY DEF TypeOK, FlagsOK
<1>1. CASE Market
  BY <1>0, <1>1 DEF Market
<1>2. ASSUME NEW c \in Clients, Repeat(c) \/ TakeNext(c) PROVE PlanOK'
  <2>1. Create(c)
    BY <1>2 DEF Repeat, TakeNext
  <2>2. CASE initialized[c] /\ UNCHANGED cache /\ Copy(c)
    BY <1>0, <2>1, <2>2 DEF Create, Copy
  <2>3. CASE Reset(c) /\ pc' = [pc EXCEPT ![c] = "plan"] /\ UNCHANGED local
    BY <1>0, <2>1, <2>3 DEF Create, Reset
  <2> QED
    BY <2>1, <2>2, <2>3 DEF Create
<1>3. ASSUME NEW c \in Clients, Exit(c) PROVE PlanOK'
  BY <1>0, <1>3 DEF Exit, Reset
<1>4. ASSUME NEW c \in Clients, ConnectionDrops(c) PROVE PlanOK'
  BY <1>4 DEF ConnectionDrops
<1>5. ASSUME NEW c \in Clients, GetUniversalPlan(c) PROVE PlanOK'
  BY <1>0, <1>5 DEF GetUniversalPlan
<1>6. ASSUME NEW c \in Clients, NoUniversalPlan(c) \/ CacheDealsFails(c) PROVE PlanOK'
  BY <1>0, <1>6 DEF NoUniversalPlan, CacheDealsFails, Return
<1>7. ASSUME NEW c \in Clients, CacheDeals(c) PROVE PlanOK'
  BY <1>0, <1>7 DEF CacheDeals, Copy
<1>8. ASSUME NEW c \in Clients, LookForDeals(c) \/ AddDeal(c) \/ EndOfDeals(c) PROVE PlanOK'
  BY <1>0, <1>8 DEF LookForDeals, AddDeal, EndOfDeals, Building
<1>9. ASSUME NEW c \in Clients, Commit(c) \/ CommitFails(c) \/ CommitUnsent(c) PROVE PlanOK'
  BY <1>0, <1>9 DEF Commit, CommitFails, CommitUnsent, Return
<1>10. CASE UNCHANGED vars
  BY <1>10 DEF vars
<1> QED
  BY <1>1, <1>2, <1>3, <1>4, <1>5, <1>6, <1>7, <1>8, <1>9, <1>10 DEF Next, Operate

LEMMA PhaseStep == TypeOK /\ PhaseOK /\ [Next]_vars => PhaseOK'
<1> SUFFICES ASSUME TypeOK, PhaseOK, [Next]_vars PROVE PhaseOK'
  OBVIOUS
<1> USE DEF history, cache, local, PhaseOK
<1>0. /\ left \in [Clients -> Seq(Int)] /\ placing \in [Clients -> SUBSET Deals]
      /\ initialized \in [Clients -> BOOLEAN]
      /\ pc \in [Clients -> {"idle", "plan", "deals", "build", "commit"}]
  BY DEF TypeOK, FlagsOK
<1>1. CASE Market
  BY <1>0, <1>1 DEF Market
<1>2. ASSUME NEW c \in Clients, Repeat(c) \/ TakeNext(c) PROVE PhaseOK'
  <2>1. Create(c)
    BY <1>2 DEF Repeat, TakeNext
  <2>2. CASE initialized[c] /\ UNCHANGED cache /\ Copy(c)
    BY <1>0, <2>1, <2>2 DEF Create, Copy
  <2>3. CASE Reset(c) /\ pc' = [pc EXCEPT ![c] = "plan"] /\ UNCHANGED local
    BY <1>0, <2>1, <2>3 DEF Create, Reset
  <2> QED
    BY <2>1, <2>2, <2>3 DEF Create
<1>3. ASSUME NEW c \in Clients, Exit(c) PROVE PhaseOK'
  BY <1>0, <1>3 DEF Exit, Reset
<1>4. ASSUME NEW c \in Clients, ConnectionDrops(c) PROVE PhaseOK'
  BY <1>4 DEF ConnectionDrops
<1>5. ASSUME NEW c \in Clients, GetUniversalPlan(c) PROVE PhaseOK'
  BY <1>0, <1>5 DEF GetUniversalPlan
<1>6. ASSUME NEW c \in Clients, NoUniversalPlan(c) \/ CacheDealsFails(c) PROVE PhaseOK'
  BY <1>0, <1>6 DEF NoUniversalPlan, CacheDealsFails, Return
<1>7. ASSUME NEW c \in Clients, CacheDeals(c) PROVE PhaseOK'
  BY <1>0, <1>7 DEF CacheDeals, Copy
<1>8. ASSUME NEW c \in Clients, LookForDeals(c) \/ AddDeal(c) \/ EndOfDeals(c) PROVE PhaseOK'
  BY <1>0, <1>8 DEF LookForDeals, AddDeal, EndOfDeals, Building
<1>9. ASSUME NEW c \in Clients, Commit(c) \/ CommitFails(c) \/ CommitUnsent(c) PROVE PhaseOK'
  BY <1>0, <1>9 DEF Commit, CommitFails, CommitUnsent, Return
<1>10. CASE UNCHANGED vars
  BY <1>10 DEF vars
<1> QED
  BY <1>1, <1>2, <1>3, <1>4, <1>5, <1>6, <1>7, <1>8, <1>9, <1>10 DEF Next, Operate

LEMMA StockStep == TypeOK /\ StockOK /\ [Next]_vars => StockOK'
<1> SUFFICES ASSUME TypeOK, StockOK, [Next]_vars PROVE StockOK'
  OBVIOUS
<1> USE DEF history, cache, local, StockOK
<1>0. /\ cached \in [Clients -> SUBSET Deals] /\ initialized \in [Clients -> BOOLEAN]
      /\ steady \in [Clients -> SUBSET Deals] /\ ever \in [Clients -> SUBSET Deals]
  BY DEF TypeOK, FlagsOK
<1>1. CASE Market
  BY <1>0, <1>1 DEF Market
<1>2. ASSUME NEW c \in Clients, Repeat(c) \/ TakeNext(c) PROVE StockOK'
  <2>1. Create(c)
    BY <1>2 DEF Repeat, TakeNext
  <2>2. CASE initialized[c] /\ UNCHANGED cache /\ Copy(c)
    BY <1>0, <2>1, <2>2 DEF Create, Copy
  <2>3. CASE Reset(c) /\ pc' = [pc EXCEPT ![c] = "plan"] /\ UNCHANGED local
    BY <1>0, <2>1, <2>3 DEF Create, Reset
  <2> QED
    BY <2>1, <2>2, <2>3 DEF Create
<1>3. ASSUME NEW c \in Clients, Exit(c) PROVE StockOK'
  BY <1>0, <1>3 DEF Exit, Reset
<1>4. ASSUME NEW c \in Clients, ConnectionDrops(c) PROVE StockOK'
  BY <1>4 DEF ConnectionDrops
<1>5. ASSUME NEW c \in Clients, GetUniversalPlan(c) PROVE StockOK'
  BY <1>0, <1>5 DEF GetUniversalPlan
<1>6. ASSUME NEW c \in Clients, NoUniversalPlan(c) \/ CacheDealsFails(c) PROVE StockOK'
  BY <1>0, <1>6 DEF NoUniversalPlan, CacheDealsFails, Return
<1>7. ASSUME NEW c \in Clients, CacheDeals(c) PROVE StockOK'
  BY <1>0, <1>7 DEF CacheDeals, Copy
<1>8. ASSUME NEW c \in Clients, LookForDeals(c) \/ AddDeal(c) \/ EndOfDeals(c) PROVE StockOK'
  BY <1>0, <1>8 DEF LookForDeals, AddDeal, EndOfDeals, Building
<1>9. ASSUME NEW c \in Clients, Commit(c) \/ CommitFails(c) \/ CommitUnsent(c) PROVE StockOK'
  BY <1>0, <1>9 DEF Commit, CommitFails, CommitUnsent, Return
<1>10. CASE UNCHANGED vars
  BY <1>10 DEF vars
<1> QED
  BY <1>1, <1>2, <1>3, <1>4, <1>5, <1>6, <1>7, <1>8, <1>9, <1>10 DEF Next, Operate

LEMMA YesStep == TypeOK /\ YesMeansCreated /\ [Next]_vars => YesMeansCreated'
<1> SUFFICES ASSUME TypeOK, YesMeansCreated, [Next]_vars PROVE YesMeansCreated'
  OBVIOUS
<1> USE DEF history, cache, local
<1>0. /\ answer \in [Clients -> {"yes", "no"}] /\ account \in [Clients -> BOOLEAN]
      /\ unsent \in [Clients -> BOOLEAN]
      /\ pc \in [Clients -> {"idle", "plan", "deals", "build", "commit"}]
  BY DEF TypeOK, FlagsOK
<1>1. ASSUME NEW c \in Clients, Repeat(c) \/ TakeNext(c) PROVE YesMeansCreated'
  BY <1>0, <1>1 DEF Repeat, TakeNext, Create, Copy, YesMeansCreated
<1>2. CASE Market \/ UNCHANGED vars
  BY <1>2 DEF Market, vars, YesMeansCreated
<1>3. ASSUME NEW c \in Clients, Exit(c) \/ ConnectionDrops(c) PROVE YesMeansCreated'
  BY <1>3 DEF Exit, ConnectionDrops, YesMeansCreated
<1>4. ASSUME NEW c \in Clients, NoUniversalPlan(c) \/ CacheDealsFails(c) PROVE YesMeansCreated'
  BY <1>0, <1>4 DEF NoUniversalPlan, CacheDealsFails, Return, YesMeansCreated
<1>5. ASSUME NEW c \in Clients, GetUniversalPlan(c) \/ CacheDeals(c) PROVE YesMeansCreated'
  BY <1>0, <1>5 DEF GetUniversalPlan, CacheDeals, Copy, YesMeansCreated
<1>6. ASSUME NEW c \in Clients, LookForDeals(c) \/ AddDeal(c) \/ EndOfDeals(c) PROVE YesMeansCreated'
  BY <1>0, <1>6 DEF LookForDeals, AddDeal, EndOfDeals, Building, YesMeansCreated
<1>7. ASSUME NEW c \in Clients, Commit(c) PROVE YesMeansCreated'
  BY <1>0, <1>7 DEF Commit, Return, YesMeansCreated
<1>8. ASSUME NEW c \in Clients, CommitFails(c) PROVE YesMeansCreated'
  BY <1>0, <1>8 DEF CommitFails, Return, YesMeansCreated
<1>9. ASSUME NEW c \in Clients, CommitUnsent(c) PROVE YesMeansCreated'
  BY <1>0, <1>9 DEF CommitUnsent, Return, YesMeansCreated
<1> QED
  BY <1>1, <1>2, <1>3, <1>4, <1>5, <1>6, <1>7, <1>8, <1>9 DEF Next, Operate
-----------------------------------------------------------------------------
(* What a deal that is put into its place changes.                         *)

With(s, i, d) == [s EXCEPT ![i] = [s[i] EXCEPT !.deal = d]]
And(s, d) == Append(s, [type |-> Permitted[d], deal |-> d])

\* The two outcomes of PutDeal.
LEMMA PutDealCases ==
    ASSUME TypeOK, NEW c \in Clients, NEW d \in Deals, PutDeal(c, d)
    PROVE  \/ \E i \in Slots(services[c], d) :
                 services' = [services EXCEPT ![c] = With(services[c], i, d)]
           \/ /\ Slots(services[c], d) = {}
              /\ services' = [services EXCEPT ![c] = And(services[c], d)]
BY DEF PutDeal, NewService, With, And

LEMMA WithIs ==
    ASSUME NEW s \in Seq(Service), NEW d \in Deals, NEW i \in Slots(s, d)
    PROVE  /\ i \in 1..Len(s) /\ s[i].type = Permitted[d] /\ s[i].deal = NoDeal
           /\ With(s, i, d) \in Seq(Service)
           /\ Len(With(s, i, d)) = Len(s)
           /\ \A j \in 1..Len(s) :
                 /\ With(s, i, d)[j].type = s[j].type
                 /\ With(s, i, d)[j].deal = IF j = i THEN d ELSE s[j].deal
<1>1. i \in 1..Len(s) /\ s[i].type = Permitted[d] /\ s[i].deal = NoDeal /\ s[i] \in Service
  BY DEF Slots
<1>2. [s[i] EXCEPT !.deal = d] \in Service
  BY <1>1 DEF Service
<1>3. \A j \in 1..Len(s) : s[j] \in Service
  OBVIOUS
<1> QED
  BY <1>1, <1>2, <1>3 DEF With, Service

LEMMA AndIs ==
    ASSUME NEW s \in Seq(Service), NEW d \in Deals
    PROVE  /\ And(s, d) \in Seq(Service)
           /\ Len(And(s, d)) = Len(s) + 1
           /\ \A j \in 1..Len(s) : And(s, d)[j] = s[j]
           /\ And(s, d)[Len(s) + 1].type = Permitted[d]
           /\ And(s, d)[Len(s) + 1].deal = d
<1>1. [type |-> Permitted[d], deal |-> d] \in Service
  BY CreateAccountAssumption DEF Service
<1> QED
  BY <1>1 DEF And

LEMMA PlacedSelf == ASSUME NEW p \in Seq(Service) PROVE Placed(p, p)
BY DEF Placed

LEMMA PlacedWith ==
    ASSUME NEW p \in Seq(Service), NEW s \in Seq(Service), NEW d \in Deals, Placed(p, s),
           NEW i \in Slots(s, d)
    PROVE  Placed(p, With(s, i, d))
<1> DEFINE t == With(s, i, d)
<1>1. /\ i \in 1..Len(s) /\ s[i].type = Permitted[d] /\ s[i].deal = NoDeal /\ d # NoDeal
      /\ Len(t) = Len(s)
      /\ \A j \in 1..Len(s) : t[j].type = s[j].type /\ t[j].deal = IF j = i THEN d ELSE s[j].deal
  BY WithIs, CreateAccountAssumption
<1> HIDE DEF t
<1>2. Len(p) \in Nat /\ Len(s) \in Nat /\ Len(p) <= Len(s)
  BY DEF Placed
<1>3. \A j \in 1..Len(p) : j \in 1..Len(s)
  BY <1>2
<1>4. \A j \in 1..Len(p) :
         /\ t[j].type = p[j].type
         /\ (j > Len(p) \/ p[j].deal = NoDeal) \/ t[j].deal = p[j].deal
  BY <1>1, <1>3 DEF Placed
<1>5. \A j \in 1..Len(t) :
         ((j > Len(p) \/ p[j].deal = NoDeal) /\ t[j].deal # NoDeal) => t[j].type = Permitted[t[j].deal]
  BY <1>1 DEF Placed
<1>6. \A j \in 1..Len(t), k \in 1..Len(t) :
         (j > Len(p) /\ t[j].type = t[k].type) => t[k].deal # NoDeal
  BY <1>1 DEF Placed
<1> QED
  BY <1>1, <1>2, <1>4, <1>5, <1>6 DEF Placed, t

LEMMA PlacedAnd ==
    ASSUME NEW p \in Seq(Service), NEW s \in Seq(Service), NEW d \in Deals, Placed(p, s),
           Slots(s, d) = {}
    PROVE  Placed(p, And(s, d))
<1> DEFINE t == And(s, d)
<1>1. /\ d # NoDeal /\ Len(t) = Len(s) + 1
      /\ \A j \in 1..Len(s) : t[j] = s[j]
      /\ t[Len(s) + 1].type = Permitted[d] /\ t[Len(s) + 1].deal = d
  BY AndIs, CreateAccountAssumption
<1> HIDE DEF t
<1>2. Len(p) \in Nat /\ Len(s) \in Nat
  OBVIOUS
<1>3. \A j \in 1..Len(s) : s[j].type = Permitted[d] => s[j].deal # NoDeal
  BY DEF Slots
<1>4. Len(p) <= Len(s)
  BY DEF Placed
<1>5. \A j \in 1..Len(p) : t[j] = s[j]
  BY <1>1, <1>2, <1>4
<1>6. \A j \in 1..Len(t) : j \in 1..Len(s) \/ j = Len(s) + 1
  BY <1>1, <1>2
<1>7. \A j \in 1..Len(t), k \in 1..Len(t) :
         (j > Len(p) /\ t[j].type = t[k].type) => t[k].deal # NoDeal
  <2> SUFFICES ASSUME NEW j \in 1..Len(t), NEW k \in 1..Len(t), j > Len(p), t[j].type = t[k].type
               PROVE  t[k].deal # NoDeal
    OBVIOUS
  <2>1. CASE k = Len(s) + 1
    BY <1>1, <2>1
  <2>2. CASE k \in 1..Len(s) /\ j = Len(s) + 1
    BY <1>1, <1>3, <2>2
  <2>3. CASE k \in 1..Len(s) /\ j \in 1..Len(s)
    BY <1>1, <2>3 DEF Placed
  <2> QED
    BY <1>6, <2>1, <2>2, <2>3
<1>8. \A j \in 1..Len(t) :
         ((j > Len(p) \/ p[j].deal = NoDeal) /\ t[j].deal # NoDeal) => t[j].type = Permitted[t[j].deal]
  <2> SUFFICES ASSUME NEW j \in 1..Len(t), j > Len(p) \/ p[j].deal = NoDeal, t[j].deal # NoDeal
               PROVE  t[j].type = Permitted[t[j].deal]
    OBVIOUS
  <2>1. CASE j = Len(s) + 1
    BY <1>1, <2>1
  <2>2. CASE j \in 1..Len(s)
    BY <1>1, <2>2 DEF Placed
  <2> QED
    BY <1>6, <2>1, <2>2
<1>9. \A j \in 1..Len(p) :
         /\ t[j].type = p[j].type
         /\ (j > Len(p) \/ p[j].deal = NoDeal) \/ t[j].deal = p[j].deal
  BY <1>5 DEF Placed
<1>10. Len(p) <= Len(t)
  BY <1>1, <1>2, <1>4
<1> QED
  BY <1>7, <1>8, <1>9, <1>10 DEF Placed, t

LEMMA Counted ==
    ASSUME NEW s \in Seq(Service), NEW e
    PROVE  /\ IsFiniteSet({j \in DOMAIN s : s[j].deal = e})
           /\ Count(s, e) \in Nat
<1>1. DOMAIN s = 1..Len(s) /\ Len(s) \in Nat
  OBVIOUS
<1>2. IsFiniteSet(1..Len(s))
  BY <1>1, FS_Interval
<1>3. IsFiniteSet({j \in DOMAIN s : s[j].deal = e})
  BY <1>1, <1>2, FS_Subset
<1> QED
  BY <1>3, FS_CardinalityType DEF Count

LEMMA CountWith ==
    ASSUME NEW s \in Seq(Service), NEW d \in Deals, NEW e \in Deals, NEW i \in Slots(s, d)
    PROVE  Count(With(s, i, d), e) = Count(s, e) + (IF e = d THEN 1 ELSE 0)
<1> DEFINE t == With(s, i, d)
           S == {j \in DOMAIN s : s[j].deal = e}
           T == {j \in DOMAIN t : t[j].deal = e}
<1>1. /\ i \in 1..Len(s) /\ s[i].deal = NoDeal /\ NoDeal \notin Deals
      /\ DOMAIN t = 1..Len(s) /\ DOMAIN s = 1..Len(s)
      /\ \A j \in 1..Len(s) : t[j].deal = IF j = i THEN d ELSE s[j].deal
  BY WithIs, CreateAccountAssumption
<1>2. T = IF e = d THEN S \cup {i} ELSE S
  <2> HIDE DEF t
  <2> QED
    BY <1>1
<1>3. i \notin S
  BY <1>1
<1>4. Count(s, e) = Cardinality(S) /\ Count(t, e) = Cardinality(T)
  BY DEF Count
<1>5. IsFiniteSet(S) /\ Cardinality(S) \in Nat
  BY <1>4, Counted
<1>6. Cardinality(S \cup {i}) = Cardinality(S) + 1
  BY <1>3, <1>5, FS_AddElement
<1> HIDE DEF t, S, T
<1> QED
  BY <1>2, <1>4, <1>5, <1>6 DEF t

LEMMA CountAnd ==
    ASSUME NEW s \in Seq(Service), NEW d \in Deals, NEW e \in Deals
    PROVE  Count(And(s, d), e) = Count(s, e) + (IF e = d THEN 1 ELSE 0)
<1> DEFINE t == And(s, d)
           n == Len(s) + 1
           S == {j \in DOMAIN s : s[j].deal = e}
           T == {j \in DOMAIN t : t[j].deal = e}
<1>1. /\ Len(s) \in Nat /\ DOMAIN t = 1..n /\ DOMAIN s = 1..Len(s)
      /\ \A j \in 1..Len(s) : t[j] = s[j]
      /\ t[n].deal = d
  BY AndIs
<1>2. T = IF e = d THEN S \cup {n} ELSE S
  <2> HIDE DEF t
  <2>1. \A j \in 1..n : j \in 1..Len(s) \/ j = n
    BY <1>1
  <2> QED
    BY <1>1, <2>1
<1>3. n \notin S
  <2> HIDE DEF t
  <2> QED
    BY <1>1
<1>4. Count(s, e) = Cardinality(S) /\ Count(t, e) = Cardinality(T)
  BY DEF Count
<1>5. IsFiniteSet(S) /\ Cardinality(S) \in Nat
  BY <1>4, Counted
<1>6. Cardinality(S \cup {n}) = Cardinality(S) + 1
  BY <1>3, <1>5, FS_AddElement
<1> HIDE DEF t, S, T, n
<1> QED
  BY <1>2, <1>4, <1>5, <1>6 DEF t
-----------------------------------------------------------------------------
(* The services of a plan.                                                 *)

\* What a step leaves alone for a client that is building.
Same(c) ==
    /\ plan'[c] = plan[c] /\ services'[c] = services[c] /\ cached'[c] = cached[c]
    /\ record'[c] = record[c] /\ left'[c] = left[c] /\ placing'[c] = placing[c]

\* A client that is building after a step was building before and nothing of it
\* changed, or it has copied its plan, looked for an id or put a deal.
LEMMA BuildingSteps ==
    ASSUME TypeOK, PhaseOK, [Next]_vars, NEW c \in Clients, BuiltOf(c)'
    PROVE  \/ BuiltOf(c) /\ Same(c)
           \/ (Repeat(c) \/ TakeNext(c) \/ CacheDeals(c)) /\ Copy(c)
           \/ LookForDeals(c)
           \/ AddDeal(c)
<1> USE DEF history, cache, local
<1>0. /\ plan \in [Clients -> SUBSET Plans] /\ cached \in [Clients -> SUBSET Deals]
      /\ services \in [Clients -> Seq(Service)] /\ record \in [Clients -> Records]
      /\ left \in [Clients -> Seq(Int)] /\ placing \in [Clients -> SUBSET Deals]
      /\ initialized \in [Clients -> BOOLEAN]
      /\ pc \in [Clients -> {"idle", "plan", "deals", "build", "commit"}]
  BY DEF TypeOK, FlagsOK
<1>1. CASE Market \/ UNCHANGED vars
  BY <1>1 DEF Market, vars, BuiltOf, Same
<1>2. ASSUME NEW b \in Clients, Repeat(b) \/ TakeNext(b)
      PROVE  \/ BuiltOf(c) /\ Same(c)
             \/ (Repeat(c) \/ TakeNext(c)) /\ Copy(c)
  <2>1. Create(b) /\ \A a \in Clients : a # b => record'[a] = record[a]
    BY <1>0, <1>2 DEF Repeat, TakeNext
  <2>2. CASE b = c
    BY <1>0, <1>2, <2>1, <2>2 DEF Create, BuiltOf
  <2>3. CASE b # c /\ initialized[b] /\ UNCHANGED cache /\ Copy(b)
    BY <1>0, <2>1, <2>3 DEF Copy, BuiltOf, Same
  <2>4. CASE b # c /\ Reset(b) /\ pc' = [pc EXCEPT ![b] = "plan"] /\ UNCHANGED local
    BY <1>0, <2>1, <2>4 DEF Reset, BuiltOf, Same
  <2> QED
    BY <2>1, <2>2, <2>3, <2>4 DEF Create
<1>3. ASSUME NEW b \in Clients, Exit(b) PROVE BuiltOf(c) /\ Same(c)
  BY <1>0, <1>3 DEF Exit, Reset, BuiltOf, Same
<1>4. ASSUME NEW b \in Clients, ConnectionDrops(b) PROVE BuiltOf(c) /\ Same(c)
  BY <1>4 DEF ConnectionDrops, BuiltOf, Same
<1>5. ASSUME NEW b \in Clients, GetUniversalPlan(b) PROVE BuiltOf(c) /\ Same(c)
  BY <1>0, <1>5 DEF GetUniversalPlan, BuiltOf, Same
<1>6. ASSUME NEW b \in Clients, NoUniversalPlan(b) \/ CacheDealsFails(b) PROVE BuiltOf(c) /\ Same(c)
  BY <1>0, <1>6 DEF NoUniversalPlan, CacheDealsFails, Return, BuiltOf, Same
<1>7. ASSUME NEW b \in Clients, CacheDeals(b)
      PROVE  (BuiltOf(c) /\ Same(c)) \/ (CacheDeals(c) /\ Copy(c))
  <2>1. CASE b = c
    BY <1>7, <2>1 DEF CacheDeals
  <2>2. CASE b # c
    BY <1>0, <1>7, <2>2 DEF CacheDeals, Copy, BuiltOf, Same
  <2> QED
    BY <2>1, <2>2
<1>8. ASSUME NEW b \in Clients, LookForDeals(b)
      PROVE  (BuiltOf(c) /\ Same(c)) \/ LookForDeals(c)
  BY <1>0, <1>8 DEF LookForDeals, Building, BuiltOf, Same
<1>9. ASSUME NEW b \in Clients, AddDeal(b)
      PROVE  (BuiltOf(c) /\ Same(c)) \/ AddDeal(c)
  <2>1. CASE b = c
    BY <1>9, <2>1
  <2>2. CASE b # c
    <3>1. PICK d \in placing[b] : PutDeal(b, d) /\ placing' = [placing EXCEPT ![b] = @ \ {d}]
      BY <1>9 DEF AddDeal
    <3>2. d \in Deals
      BY <1>0
    <3>3. services'[c] = services[c]
      BY <1>0, <2>2, <3>1, <3>2, PutDealCases
    <3> QED
      BY <1>0, <1>9, <2>2, <3>1, <3>3 DEF AddDeal, Building, BuiltOf, Same
  <2> QED
    BY <2>1, <2>2
<1>10. ASSUME NEW b \in Clients, EndOfDeals(b) PROVE BuiltOf(c) /\ Same(c)
  BY <1>0, <1>10 DEF EndOfDeals, Building, BuiltOf, Same
<1>11. ASSUME NEW b \in Clients, Commit(b) \/ CommitFails(b) \/ CommitUnsent(b)
       PROVE  BuiltOf(c) /\ Same(c)
  BY <1>0, <1>11 DEF Commit, CommitFails, CommitUnsent, Return, BuiltOf, Same
<1> QED
  BY <1>1, <1>2, <1>3, <1>4, <1>5, <1>6, <1>7, <1>8, <1>9, <1>10, <1>11 DEF Next, Operate

\* The copy of a plan.
LEMMA Copied ==
    ASSUME TypeOK, PlanOK', TypeOK', NEW c \in Clients, Copy(c), BuiltOf(c)'
    PROVE  \E p \in Plans :
              /\ plan'[c] = {p} /\ services'[c] = p /\ p \in Seq(Service)
              /\ left'[c] = record'[c].deals /\ placing'[c] = {}
<1>0. /\ services \in [Clients -> Seq(Service)] /\ left \in [Clients -> Seq(Int)]
      /\ placing \in [Clients -> SUBSET Deals]
  BY DEF TypeOK
<1>1. PICK p \in plan'[c] : services' = [services EXCEPT ![c] = p]
  BY DEF Copy
<1>2. plan'[c] = {p} /\ p \in Plans
  BY <1>1 DEF PlanOK
<1>3. p \in Seq(Service)
  BY <1>2, CreateAccountAssumption
<1> QED
  BY <1>0, <1>1, <1>2, <1>3 DEF Copy

LEMMA PlacedStep == TypeOK /\ TypeOK' /\ PhaseOK /\ PlanOK' /\ PlacedOK /\ [Next]_vars => PlacedOK'
<1> SUFFICES ASSUME TypeOK, TypeOK', PhaseOK, PlanOK', PlacedOK, [Next]_vars,
                    NEW c \in Clients, BuiltOf(c)', NEW p \in plan'[c]
             PROVE  Placed(p, services'[c])
  BY DEF PlacedOK, BuiltOf
<1>0. /\ services \in [Clients -> Seq(Service)] /\ plan' \in [Clients -> SUBSET Plans]
      /\ placing \in [Clients -> SUBSET Deals]
  BY DEF TypeOK
<1>1. CASE BuiltOf(c) /\ Same(c)
  BY <1>1 DEF Same, PlacedOK
<1>2. CASE Copy(c)
  <2>1. p \in Seq(Service) /\ services'[c] = p
    BY <1>2, Copied
  <2> QED
    BY <2>1, PlacedSelf
<1>3. CASE LookForDeals(c)
  <2>1. BuiltOf(c) /\ services'[c] = services[c] /\ plan'[c] = plan[c]
    BY <1>3 DEF LookForDeals, Building, BuiltOf, cache
  <2> QED
    BY <2>1 DEF PlacedOK
<1>4. CASE AddDeal(c)
  <2>1. PICK d \in placing[c] : PutDeal(c, d)
    BY <1>4 DEF AddDeal
  <2>2. d \in Deals /\ services[c] \in Seq(Service) /\ BuiltOf(c) /\ plan'[c] = plan[c]
    BY <1>0, <1>4 DEF AddDeal, Building, BuiltOf, cache
  <2>3. Placed(p, services[c]) /\ p \in Seq(Service)
    BY <1>0, <2>2, CreateAccountAssumption DEF PlacedOK
  <2>4. \/ \E i \in Slots(services[c], d) : services'[c] = With(services[c], i, d)
        \/ Slots(services[c], d) = {} /\ services'[c] = And(services[c], d)
    BY <1>0, <2>1, <2>2, PutDealCases
  <2> QED
    BY <2>2, <2>3, <2>4, PlacedWith, PlacedAnd
<1> QED
  BY <1>1, <1>2, <1>3, <1>4, BuildingSteps
-----------------------------------------------------------------------------
(* How often a deal was added.                                             *)

LEMMA Nothing == ASSUME NEW f, NEW x PROVE Hits(f, x, 0) = 0
<1>1. {i \in 1..0 : f[i] = x} = {}
  OBVIOUS
<1> QED
  BY <1>1, FS_EmptySet DEF Hits

\* One id more.
LEMMA OneMore ==
    ASSUME NEW f, NEW x, NEW k \in Nat
    PROVE  /\ Hits(f, x, k) \in Nat
           /\ Hits(f, x, k + 1) = Hits(f, x, k) + (IF f[k + 1] = x THEN 1 ELSE 0)
<1> DEFINE S == {i \in 1..k : f[i] = x}
           T == {i \in 1..(k + 1) : f[i] = x}
<1>1. T = IF f[k + 1] = x THEN S \cup {k + 1} ELSE S
  OBVIOUS
<1>2. k + 1 \notin S
  OBVIOUS
<1>3. IsFiniteSet(S)
  <2>1. S \subseteq 1..k /\ IsFiniteSet(1..k)
    BY FS_Interval
  <2> QED
    BY <2>1, FS_Subset
<1>4. Cardinality(S) \in Nat
  BY <1>3, FS_CardinalityType
<1>5. Cardinality(S \cup {k + 1}) = Cardinality(S) + 1
  BY <1>2, <1>3, FS_AddElement
<1> HIDE DEF S, T
<1>6. Cardinality(T) = Cardinality(S) + (IF f[k + 1] = x THEN 1 ELSE 0)
  BY <1>1, <1>4, <1>5
<1> QED
  BY <1>4, <1>6 DEF S, T, Hits

LEMMA CountStep ==
    TypeOK /\ TypeOK' /\ PhaseOK /\ PlanOK' /\ CountOK /\ [Next]_vars => CountOK'
<1> DEFINE Agrees(c, k, d, p) == Count(services[c], d) + Waiting(c, d) = Count(p, d) + Due(c, k, d)
<1> SUFFICES ASSUME TypeOK, TypeOK', PhaseOK, PlanOK', CountOK, [Next]_vars,
                    NEW c \in Clients, BuiltOf(c)'
             PROVE  \E k \in Nat : Looked(c, k)' /\ \A d \in Deals, p \in plan'[c] : Agrees(c, k, d, p)'
  BY DEF CountOK, BuiltOf
<1>0. /\ services \in [Clients -> Seq(Service)] /\ plan' \in [Clients -> SUBSET Plans]
      /\ placing \in [Clients -> SUBSET Deals] /\ left \in [Clients -> Seq(Int)]
      /\ cached \in [Clients -> SUBSET Deals] /\ record' \in [Clients -> Records]
  BY DEF TypeOK
<1>1. CASE BuiltOf(c) /\ Same(c)
  <2>1. PICK k \in Nat : Looked(c, k) /\ \A d \in Deals, p \in plan[c] : Agrees(c, k, d, p)
    BY <1>1 DEF CountOK
  <2>2. Looked(c, k)'
    BY <1>1, <2>1 DEF Looked, Same
  <2>3. \A d \in Deals, p \in plan'[c] : Agrees(c, k, d, p)'
    BY <1>1, <2>1 DEF Same, Due, Waiting
  <2> QED
    BY <2>2, <2>3
<1>2. CASE Copy(c)
  <2>1. PICK p \in Plans :
           /\ plan'[c] = {p} /\ services'[c] = p /\ p \in Seq(Service)
           /\ left'[c] = record'[c].deals /\ placing'[c] = {}
    BY <1>2, Copied
  <2>2. record'[c].deals \in Seq(Int)
    BY <1>0, CreateAccountAssumption DEF RecordType
  <2>3. Looked(c, 0)'
    BY <2>1, <2>2 DEF Looked
  <2>4. ASSUME NEW d \in Deals PROVE Agrees(c, 0, d, p)'
    <3>1. Due(c, 0, d)' = 0
      BY Nothing DEF Due
    <3>2. Waiting(c, d)' = 0
      BY <2>1 DEF Waiting
    <3>3. Count(p, d) \in Nat
      BY <2>1, Counted
    <3> QED
      BY <2>1, <3>1, <3>2, <3>3
  <2> QED
    BY <2>1, <2>3, <2>4
<1>3. CASE LookForDeals(c)
  <2>1. /\ BuiltOf(c) /\ services'[c] = services[c] /\ plan'[c] = plan[c]
        /\ cached'[c] = cached[c] /\ record'[c] = record[c]
        /\ placing[c] = {} /\ left[c] # <<>> /\ left'[c] = Tail(left[c])
        /\ placing'[c] = {d \in cached[c] : Id[d] = Head(left[c])}
    BY <1>0, <1>3 DEF LookForDeals, Building, BuiltOf, cache
  <2>2. PICK k \in Nat : Looked(c, k) /\ \A d \in Deals, p \in plan[c] : Agrees(c, k, d, p)
    BY <2>1 DEF CountOK
  <2>3. /\ left[c] \in Seq(Int) /\ Len(left[c]) \in Nat \ {0}
        /\ record[c].deals \in Seq(Int)
    BY <1>0, <2>1, CreateAccountAssumption DEF RecordType
  <2>4. Looked(c, k + 1)'
    <3>1. Len(Tail(left[c])) = Len(left[c]) - 1 /\ \A j \in 1..Len(Tail(left[c])) : Tail(left[c])[j] = left[c][j + 1]
      BY <2>3
    <3>2. /\ k \in 0..Len(record[c].deals) /\ Len(left[c]) = Len(record[c].deals) - k
          /\ \A j \in 1..Len(left[c]) : left[c][j] = record[c].deals[k + j]
      BY <2>2 DEF Looked
    <3>3. \A j \in 1..(Len(left[c]) - 1) : left[c][j + 1] = record[c].deals[(k + 1) + j]
      <4> SUFFICES ASSUME NEW j \in 1..(Len(left[c]) - 1)
                   PROVE  left[c][j + 1] = record[c].deals[(k + 1) + j]
        OBVIOUS
      <4>1. j + 1 \in 1..Len(left[c]) /\ k + (j + 1) = (k + 1) + j
        BY <2>3
      <4> QED
        BY <3>2, <4>1
    <3>4. k + 1 \in 0..Len(record[c].deals) /\ Len(left[c]) - 1 = Len(record[c].deals) - (k + 1)
      BY <2>3, <3>2
    <3> QED
      BY <2>1, <3>1, <3>3, <3>4 DEF Looked
  <2>5. Head(left[c]) = record[c].deals[k + 1]
    BY <2>2, <2>3 DEF Looked
  <2>6. ASSUME NEW d \in Deals, NEW p \in plan'[c] PROVE Agrees(c, k + 1, d, p)'
    <3>1. Agrees(c, k, d, p)
      BY <2>1, <2>2
    <3>2. p \in Seq(Service)
      BY <1>0, CreateAccountAssumption
    <3>3. Count(services[c], d) \in Nat /\ Count(p, d) \in Nat
      BY <1>0, <3>2, Counted
    <3> DEFINE C(n) == Hits(record[c].deals, Id[d], n)
    <3>4. C(k) \in Nat /\ C(k + 1) = C(k) + (IF record[c].deals[k + 1] = Id[d] THEN 1 ELSE 0)
      BY <2>2, OneMore
    <3>5. /\ Due(c, k, d) = IF d \in cached[c] THEN C(k) ELSE 0
          /\ Due(c, k + 1, d)' = IF d \in cached[c] THEN C(k + 1) ELSE 0
      BY <2>1 DEF Due
    <3>6. Waiting(c, d) = 0 /\ Waiting(c, d)' = IF d \in cached[c] /\ Id[d] = record[c].deals[k + 1] THEN 1 ELSE 0
      BY <2>1, <2>5 DEF Waiting
    <3>7. services'[c] = services[c]
      BY <2>1
    <3>8. Count(services'[c], d) = Count(services[c], d)
      BY <3>7
    <3> HIDE DEF C
    <3>9. Count(services[c], d) + Waiting(c, d)' = Count(p, d) + Due(c, k + 1, d)'
      BY <3>1, <3>3, <3>4, <3>5, <3>6
    <3> QED
      BY <3>8, <3>9
  <2> QED
    BY <2>4, <2>6
<1>4. CASE AddDeal(c)
  <2>1. PICK d \in placing[c] : PutDeal(c, d) /\ placing' = [placing EXCEPT ![c] = @ \ {d}]
    BY <1>4 DEF AddDeal
  <2>2. /\ BuiltOf(c) /\ plan'[c] = plan[c] /\ cached'[c] = cached[c] /\ record'[c] = record[c]
        /\ left'[c] = left[c]
    BY <1>4 DEF AddDeal, Building, BuiltOf, cache
  <2>3. d \in Deals /\ services[c] \in Seq(Service) /\ placing'[c] = placing[c] \ {d}
    BY <1>0, <2>1
  <2>4. PICK k \in Nat : Looked(c, k) /\ \A e \in Deals, p \in plan[c] : Agrees(c, k, e, p)
    BY <2>2 DEF CountOK
  <2>5. Looked(c, k)'
    BY <2>2, <2>4 DEF Looked
  <2>6. \A e \in Deals : Count(services'[c], e) = Count(services[c], e) + (IF e = d THEN 1 ELSE 0)
    <3>1. \/ \E i \in Slots(services[c], d) : services'[c] = With(services[c], i, d)
          \/ services'[c] = And(services[c], d)
      BY <1>0, <2>1, <2>3, PutDealCases
    <3> QED
      BY <2>3, <3>1, CountWith, CountAnd
  <2>7. ASSUME NEW e \in Deals, NEW p \in plan'[c] PROVE Agrees(c, k, e, p)'
    <3>1. Agrees(c, k, e, p)
      BY <2>2, <2>4
    <3>2. Count(services[c], e) \in Nat
      BY <2>3, Counted
    <3>3. Due(c, k, e)' = Due(c, k, e)
      BY <2>2 DEF Due
    <3>4. Waiting(c, e) = Waiting(c, e)' + (IF e = d THEN 1 ELSE 0) /\ Waiting(c, e)' \in Nat
      BY <2>1, <2>3 DEF Waiting
    <3> QED
      BY <2>6, <3>1, <3>2, <3>3, <3>4
  <2> QED
    BY <2>5, <2>7
<1> QED
  BY <1>1, <1>2, <1>3, <1>4, BuildingSteps
-----------------------------------------------------------------------------
LEMMA InitIInv == Init => IInv
<1> SUFFICES ASSUME Init PROVE IInv
  OBVIOUS
<1>1. FlagsOK
  BY DEF Init, FlagsOK
<1>2. SessionTypeOK
  BY PinSessionAssumption DEF Init, SessionInit, SessionTypeOK, Contexts
<1>3. TypeOK
  BY <1>1, <1>2 DEF Init, TypeOK
<1>4. CacheOK
  BY DEF Init, CacheOK, PlanOK, PhaseOK, StockOK
<1>5. PlacedOK /\ CountOK /\ YesMeansCreated
  BY DEF Init, PlacedOK, CountOK, YesMeansCreated, BuiltOf
<1> QED
  BY <1>3, <1>4, <1>5 DEF IInv

LEMMA NextIInv == IInv /\ [Next]_vars => IInv'
<1> SUFFICES ASSUME IInv, [Next]_vars PROVE IInv'
  OBVIOUS
<1>1. TypeOK /\ PlanOK /\ PhaseOK /\ StockOK /\ PlacedOK /\ CountOK /\ YesMeansCreated
  BY DEF IInv, CacheOK
<1>2. TypeOK'
  BY <1>1, TypeStep
<1>3. PlanOK' /\ PhaseOK' /\ StockOK' /\ YesMeansCreated'
  BY <1>1, PlanStep, PhaseStep, StockStep, YesStep
<1>4. PlacedOK' /\ CountOK'
  BY <1>1, <1>2, <1>3, PlacedStep, CountStep
<1> QED
  BY <1>2, <1>3, <1>4 DEF IInv, CacheOK

\* The invariant holds of every reachable state.
THEOREM Invariant == Spec => []IInv
BY InitIInv, NextIInv, PTL DEF Spec

\* The variables keep their types.
THEOREM TypeCorrect == Spec => []TypeOK
BY Invariant, PTL DEF IInv

\* True means that the server has made the account, or that nothing was sent.
THEOREM YesIsHonest == Spec => []YesMeansCreated
BY Invariant, PTL DEF IInv

\* The services of the plan survive, every added deal is where it is permitted,
\* and none got a new service while an old one was free.
THEOREM DealsInPlace == Spec => []InItsPlace
<1>1. IInv => InItsPlace
  BY DEF IInv, PlacedOK, InItsPlace, BuiltOf
<1> QED
  BY <1>1, Invariant, PTL

\* An address that is given by street, state or zip, or by default, reaches the
\* contact and the payinfo.
LEMMA Addresses == ASSUME TypeOK, NEW c \in Clients PROVE Addressed(c)
<1>1. record[c] \in RecordType
  BY CreateAccountAssumption DEF TypeOK
<1>2. "" # "contact" /\ "" # "billing" /\ "" # "default"
  OBVIOUS
<1> DEFINE r == record[c]
<1>3. \E f \in Fields \ {"city"} : ContactAddress(r)[f] # ""
  <2>1. CASE Empty(r.contact)
    BY <1>2, <2>1 DEF ContactAddress, Fields
  <2>2. CASE ~Empty(r.contact)
    BY <1>1, <1>2, <2>2 DEF ContactAddress, Fields, Empty, Given, RecordType
  <2> QED
    BY <2>1, <2>2
<1>4. \E f \in Fields \ {"city"} : BillingAddress(r)[f] # ""
  <2>1. CASE Empty(r.billing)
    BY <1>3, <2>1 DEF BillingAddress
  <2>2. CASE ~Empty(r.billing)
    BY <1>1, <1>2, <2>2 DEF BillingAddress, Fields, Empty, Given, RecordType
  <2> QED
    BY <2>1, <2>2
<1> QED
  BY <1>3, <1>4 DEF Addressed, PayAddress

\* What is committed has the deals the record asks for, each as often as it was
\* asked for, and an address wherever one is needed.
THEOREM CommittedAsAsked == Spec => []AsAsked
<1>1. ASSUME IInv, NEW c \in Clients, pc[c] = "commit", NEW d \in Deals
      PROVE  /\ Added(c, d) = IF d \in cached[c] THEN Times(record[c], d) ELSE 0
             /\ Times(record[c], d) \in Nat
             /\ steady[c] \subseteq cached[c] /\ cached[c] \subseteq ever[c]
  <2>1. /\ TypeOK /\ PlanOK /\ PhaseOK /\ StockOK /\ CountOK /\ BuiltOf(c)
        /\ record[c].deals \in Seq(Int)
    BY <1>1, CreateAccountAssumption DEF IInv, CacheOK, BuiltOf, TypeOK, RecordType
  <2>2. left[c] = <<>> /\ placing[c] = {} /\ initialized[c]
    BY <1>1, <2>1 DEF PhaseOK
  <2>3. PICK k \in Nat :
           /\ Looked(c, k)
           /\ \A p \in plan[c] : Count(services[c], d) + Waiting(c, d) = Count(p, d) + Due(c, k, d)
    BY <2>1 DEF CountOK
  <2>4. k = Len(record[c].deals)
    BY <2>1, <2>2, <2>3 DEF Looked
  <2>5. Hits(record[c].deals, Id[d], k) = Times(record[c], d)
    <3> DEFINE f == record[c].deals
    <3>1. DOMAIN f = 1..k
      BY <2>1, <2>4
    <3>2. Hits(f, Id[d], k) = Cardinality({i \in 1..k : f[i] = Id[d]})
      BY DEF Hits
    <3>3. Times(record[c], d) = Cardinality({i \in DOMAIN f : f[i] = Id[d]})
      BY DEF Times
    <3> HIDE DEF f
    <3>4. Hits(f, Id[d], k) = Times(record[c], d)
      BY <3>1, <3>2, <3>3
    <3> QED
      BY <3>4 DEF f
  <2>6. Times(record[c], d) \in Nat
    BY <2>3, <2>5, OneMore
  <2>7. OwnPlan(c) \in plan[c] /\ OwnPlan(c) \in Seq(Service)
    BY <2>1, <2>2, CreateAccountAssumption DEF PlanOK, OwnPlan
  <2>8. Count(services[c], d) \in Nat /\ Count(OwnPlan(c), d) \in Nat
    BY <2>1, <2>7, Counted DEF TypeOK
  <2>9. Waiting(c, d) = 0
    BY <2>2 DEF Waiting
  <2>10. Count(services[c], d) = Count(OwnPlan(c), d) + Due(c, k, d)
    BY <2>3, <2>7, <2>8, <2>9
  <2>11. Due(c, k, d) = IF d \in cached[c] THEN Times(record[c], d) ELSE 0
    BY <2>5 DEF Due
  <2>12. steady[c] \subseteq cached[c] /\ cached[c] \subseteq ever[c]
    BY <2>1, <2>2 DEF StockOK
  <2> QED
    BY <2>6, <2>8, <2>10, <2>11, <2>12 DEF Added
<1>2. IInv => AsAsked
  <2> SUFFICES ASSUME IInv, NEW c \in Clients, pc[c] = "commit"
               PROVE  DealsAsAsked(c) /\ Addressed(c)
    BY DEF AsAsked
  <2>1. DealsAsAsked(c)
    BY <1>1 DEF DealsAsAsked
  <2>2. Addressed(c)
    BY Addresses DEF IInv
  <2> QED
    BY <2>1, <2>2
<1> QED
  BY <1>2, Invariant, PTL
=============================================================================
