---------------------------- MODULE DepositsProofs ----------------------------
(***************************************************************************)
(* Proofs about module Deposits, for any number of operators,              *)
(* authorizations and faults.                                              *)
(***************************************************************************)
EXTENDS Deposits, TLAPS

\* A payment in hand is an authorization; only a named one is looked for; and
\* the flist of a collect carries the amount of its payment if that has one.
HandOK ==
    \A c \in Clients :
        /\ pc[c] \in {"check", "collect"} => cur[c] \in Auths
        /\ pc[c] = "check" => cur[c] \notin Anonymous
        /\ pc[c] = "collect" => amountOf[c] = cur[c] \/ cur[c] \in NoAmount

\* What is still on its way was struck when its client lost it.
LostAreStruck == \A p \in Auths : inflight[p] <= struck[p]

\* An operator who has passed transaction_exists has the one deposit without
\* a strike before it.
OneLeft ==
    \A c \in Clients : \A p \in Auths \ (Anonymous \cup raced) :
        pc[c] = "collect" /\ cur[c] = p => made[p] + inflight[p] <= struck[p]

\* The number of deposits, with what makes it inductive.
Bounded == OnceUnlessStruckOrRaced /\ LostAreStruck /\ OneLeft

\* What the search has found is ahead, in hand, on record or was not sent.
Accounted ==
    \A c \in Clients : \A p \in found[c] :
        /\ pc[c] = "paytype" => p \in todo[c]
        /\ pc[c] \in {"loop", "check", "collect"} =>
              \/ p \in todo[c]
              \/ pc[c] # "loop" /\ p = cur[c]
              \/ Recorded(p)
              \/ p \in unsent[c]

\* What a call has in hand, has not sent, or carries the amount of is among what
\* its search has found and is not ahead any more.
InHand ==
    \A c \in Clients :
        /\ pc[c] \in {"idle", "search"} => todo[c] = {} /\ found[c] = {}
        /\ pc[c] \in {"idle", "search", "paytype"} => unsent[c] = {} /\ amountOf[c] = None
        /\ todo[c] \subseteq found[c]
        /\ unsent[c] \subseteq found[c] \ todo[c]
        /\ amountOf[c] = None \/ amountOf[c] \in found[c] \ todo[c]
        /\ pc[c] \in {"check", "collect"} => cur[c] \in found[c] \ todo[c] /\ cur[c] \notin unsent[c]

\* Behind a collect that was not sent rc is true only for the success of another.
Hidden ==
    \A c \in Clients :
        pc[c] \in {"loop", "check", "collect"} /\ rc[c] /\ unsent[c] # {} =>
            \E p \in found[c] \ unsent[c] : Recorded(p)

\* What was sent carries the amount of its payment, if that has one.
OwnPayment == \A s \in sent : s.amount = s.payment \/ s.payment \in NoAmount

IInv == TypeOK /\ HandOK /\ OwnPayment /\ Bounded /\ Accounted /\ InHand /\ Hidden
-----------------------------------------------------------------------------
LEMMA InitIInv == Init => IInv
BY PinSessionAssumption DEF Init, SessionInit, IInv, Bounded, TypeOK, SessionTypeOK, Contexts, PCs,
   OnceUnlessStruckOrRaced, OwnPayment, HandOK, LostAreStruck, OneLeft, Accounted, InHand, Hidden

LEMMA TypeStep == TypeOK /\ HandOK /\ [Next]_vars => TypeOK'
<1> SUFFICES ASSUME TypeOK, HandOK, [Next]_vars PROVE TypeOK'
  OBVIOUS
<1> USE PinSessionAssumption
<1> USE DEF TypeOK, SessionTypeOK, Contexts, PCs, vars, sessionVars, database, locals, history, Goto, Fault
<1>1. ASSUME NEW p \in Auths, Authorize(p) PROVE TypeOK'
  BY <1>1 DEF Authorize
<1>2. ASSUME NEW p \in Auths, ServerPerforms(p) PROVE TypeOK'
  BY <1>2 DEF ServerPerforms, Charge
<1>3. ASSUME NEW p \in Auths, ServerDrops(p) PROVE TypeOK'
  BY <1>3 DEF ServerDrops
<1>4. ASSUME NEW c \in Clients, Call(c) PROVE TypeOK'
  BY <1>4 DEF Call
<1>5. ASSUME NEW c \in Clients, FindAuths(c) PROVE TypeOK'
  BY <1>5 DEF FindAuths, Performed
<1>6. ASSUME NEW c \in Clients, GetPayType(c) PROVE TypeOK'
  BY <1>6 DEF GetPayType, Performed
<1>7. ASSUME NEW c \in Clients, SearchFails(c) PROVE TypeOK'
  BY <1>7 DEF SearchFails, Return, Failing, Refused, Lost, Dead, Unsent
<1>8. ASSUME NEW c \in Clients, NEW p \in Auths, NextPayment(c, p) PROVE TypeOK'
  BY <1>8 DEF NextPayment, Fill
<1>9. ASSUME NEW c \in Clients, Exists(c) PROVE TypeOK'
  BY <1>9 DEF Exists, Performed
<1>10. ASSUME NEW c \in Clients, ExistsNot(c) PROVE TypeOK'
  BY <1>10 DEF ExistsNot, Performed, Fill, HandOK
<1>11. ASSUME NEW c \in Clients, CheckFails(c) PROVE TypeOK'
  <2>1. SessionTypeOK'
    BY <1>11 DEF CheckFails, Failing, Refused, Lost, Dead, Unsent
  <2>2. struck' \in [Auths -> Nat]
    BY <1>11 DEF CheckFails, Strike, HandOK
  <2>3. amountOf' \in [Clients -> Auths \cup {None}]
    BY <1>11 DEF CheckFails, Fill, HandOK
  <2> QED
    BY <1>11, <2>1, <2>2, <2>3 DEF CheckFails
<1>12. ASSUME NEW c \in Clients, Collect(c) PROVE TypeOK'
  BY <1>12 DEF Collect, Performed, Charge, Send, HandOK
<1>13. ASSUME NEW c \in Clients, CollectRefused(c) PROVE TypeOK'
  BY <1>13 DEF CollectRefused, Refused, Dead, Return
<1>14. ASSUME NEW c \in Clients, CollectLost(c) PROVE TypeOK'
  BY <1>14 DEF CollectLost, Lost, Send, Strike, Return, HandOK
<1>15. ASSUME NEW c \in Clients, CollectUnsent(c) PROVE TypeOK'
  BY <1>15 DEF CollectUnsent, Unsent, HandOK
<1>16. ASSUME NEW c \in Clients, EndOfLoop(c) PROVE TypeOK'
  BY <1>16 DEF EndOfLoop, Return
<1>17. ASSUME NEW c \in Clients, ConnectionDrops(c) PROVE TypeOK'
  BY <1>17 DEF ConnectionDrops, Drop
<1>18. ASSUME NEW c \in Clients, Exit(c) PROVE TypeOK'
  BY <1>18 DEF Exit, EndProcess
<1>19. ASSUME NEW c \in Clients, Crash(c) PROVE TypeOK'
  <2>1. /\ SessionTypeOK' /\ authorized' \subseteq Auths /\ made' \in [Auths -> Nat]
        /\ declined' \subseteq Auths /\ raced' \subseteq Auths
    BY <1>19 DEF Crash, EndProcess
  <2>2. /\ pc' \in [Clients -> PCs] /\ todo' \in [Clients -> SUBSET Auths]
        /\ cur' \in [Clients -> Auths \cup {None}] /\ amountOf' \in [Clients -> Auths \cup {None}]
        /\ rc' \in [Clients -> BOOLEAN]
        /\ found' \in [Clients -> SUBSET Auths] /\ unsent' \in [Clients -> SUBSET Auths]
    BY <1>19 DEF Crash, Return
  <2>3. /\ inflight' \in [Auths -> Nat] /\ struck' \in [Auths -> Nat]
        /\ sent' \subseteq [payment : Auths, amount : Auths \cup {None}]
    BY <1>19 DEF Crash, Send, Strike, HandOK
  <2>4. QED
    BY <2>1, <2>2, <2>3
<1>20. CASE UNCHANGED vars
  BY <1>20
<1> HIDE DEF TypeOK, vars
<1>21. QED
  BY <1>1, <1>2, <1>3, <1>4, <1>5, <1>6, <1>7, <1>8, <1>9, <1>10, <1>11, <1>12, <1>13,
     <1>14, <1>15, <1>16, <1>17, <1>18, <1>19, <1>20 DEF Next, Step

\* The flist of a collect carries the amount of its payment.
LEMMA OwnStep == TypeOK /\ HandOK /\ OwnPayment /\ [Next]_vars => HandOK' /\ OwnPayment'
<1> SUFFICES ASSUME TypeOK, HandOK, OwnPayment, [Next]_vars PROVE HandOK' /\ OwnPayment'
  OBVIOUS
<1> USE DEF TypeOK, HandOK, OwnPayment, PCs, vars, database, locals, history, Goto, Return, Fill, Send
<1>1. ASSUME NEW p \in Auths, Authorize(p) \/ ServerPerforms(p) \/ ServerDrops(p)
      PROVE  HandOK' /\ OwnPayment'
  BY <1>1 DEF Authorize, ServerPerforms, ServerDrops
<1>2. ASSUME NEW c \in Clients, Call(c) \/ FindAuths(c) \/ GetPayType(c) \/ SearchFails(c) \/ EndOfLoop(c)
      PROVE  HandOK' /\ OwnPayment'
  BY <1>2 DEF Call, FindAuths, GetPayType, SearchFails, EndOfLoop
<1>3. ASSUME NEW c \in Clients, NEW p \in Auths, NextPayment(c, p) PROVE HandOK' /\ OwnPayment'
  BY <1>3 DEF NextPayment
<1>4. ASSUME NEW c \in Clients, Exists(c) \/ ExistsNot(c) \/ CheckFails(c) PROVE HandOK' /\ OwnPayment'
  BY <1>4 DEF Exists, ExistsNot, CheckFails
<1>5. ASSUME NEW c \in Clients, Collect(c) PROVE HandOK' /\ OwnPayment'
  BY <1>5 DEF Collect
<1>6. ASSUME NEW c \in Clients, CollectRefused(c) \/ CollectUnsent(c) PROVE HandOK' /\ OwnPayment'
  BY <1>6 DEF CollectRefused, CollectUnsent
<1>7. ASSUME NEW c \in Clients, CollectLost(c) PROVE HandOK' /\ OwnPayment'
  BY <1>7 DEF CollectLost
<1>8. ASSUME NEW c \in Clients, ConnectionDrops(c) \/ Exit(c) PROVE HandOK' /\ OwnPayment'
  BY <1>8 DEF ConnectionDrops, Exit
<1>9. ASSUME NEW c \in Clients, Crash(c) PROVE HandOK' /\ OwnPayment'
  BY <1>9 DEF Crash
<1>10. CASE UNCHANGED vars
  BY <1>10
<1> HIDE DEF HandOK, OwnPayment, vars
<1>11. QED
  BY <1>1, <1>2, <1>3, <1>4, <1>5, <1>6, <1>7, <1>8, <1>9, <1>10 DEF Next, Step

\* What a call works on is what its search has found, in hand at most once.
LEMMA InHandStep == TypeOK /\ InHand /\ [Next]_vars => InHand'
<1> SUFFICES ASSUME TypeOK, InHand, [Next]_vars PROVE InHand'
  OBVIOUS
<1> USE DEF TypeOK, InHand, PCs, vars, locals, history, Goto, Return, Fill
<1>1. ASSUME UNCHANGED <<locals, history>> PROVE InHand'
  BY <1>1
<1>2. ASSUME NEW p \in Auths, Authorize(p) \/ ServerPerforms(p) \/ ServerDrops(p) PROVE InHand'
  BY <1>1, <1>2 DEF Authorize, ServerPerforms, ServerDrops
<1>3. ASSUME NEW c \in Clients, Call(c) \/ SearchFails(c) \/ EndOfLoop(c) PROVE InHand'
  BY <1>3 DEF Call, SearchFails, EndOfLoop
<1>4. ASSUME NEW c \in Clients, FindAuths(c) PROVE InHand'
  BY <1>4 DEF FindAuths
<1>5. ASSUME NEW c \in Clients, GetPayType(c) PROVE InHand'
  BY <1>5 DEF GetPayType
<1>6. ASSUME NEW c \in Clients, NEW p \in Auths, NextPayment(c, p) PROVE InHand'
  BY <1>6 DEF NextPayment
<1>7. ASSUME NEW c \in Clients, Exists(c) \/ ExistsNot(c) \/ CheckFails(c) PROVE InHand'
  BY <1>7 DEF Exists, ExistsNot, CheckFails
<1>8. ASSUME NEW c \in Clients, Collect(c) PROVE InHand'
  BY <1>8 DEF Collect
<1>9. ASSUME NEW c \in Clients, CollectRefused(c) \/ CollectLost(c) \/ Crash(c) PROVE InHand'
  BY <1>9 DEF CollectRefused, CollectLost, Crash
<1>10. ASSUME NEW c \in Clients, CollectUnsent(c) PROVE InHand'
  BY <1>10 DEF CollectUnsent
<1>11. ASSUME NEW c \in Clients, ConnectionDrops(c) \/ Exit(c) PROVE InHand'
  BY <1>1, <1>11 DEF ConnectionDrops, Exit
<1>12. CASE UNCHANGED vars
  BY <1>1, <1>12
<1> HIDE DEF InHand, vars
<1>13. QED
  BY <1>2, <1>3, <1>4, <1>5, <1>6, <1>7, <1>8, <1>9, <1>10, <1>11, <1>12 DEF Next, Step

\* Deposits stay within the strikes, from whatever action.
LEMMA BoundedStep == TypeOK /\ HandOK /\ Bounded /\ [Next]_vars => Bounded'
<1> SUFFICES ASSUME TypeOK, HandOK, Bounded, [Next]_vars PROVE Bounded'
  OBVIOUS
<1> USE DEF TypeOK, HandOK, Bounded, OnceUnlessStruckOrRaced, LostAreStruck, OneLeft, PCs,
            vars, database, locals, history, Goto, Return, Strike
<1>1. ASSUME NEW p \in Auths, Authorize(p) \/ ServerDrops(p) PROVE Bounded'
  BY <1>1 DEF Authorize, ServerDrops
<1>2. ASSUME NEW p \in Auths, ServerPerforms(p) PROVE Bounded'
  BY <1>2 DEF ServerPerforms, Charge
<1>3. ASSUME NEW c \in Clients, Call(c) \/ FindAuths(c) \/ GetPayType(c) \/ SearchFails(c) \/ EndOfLoop(c)
      PROVE  Bounded'
  BY <1>3 DEF Call, FindAuths, GetPayType, SearchFails, EndOfLoop
<1>4. ASSUME NEW c \in Clients, NEW p \in Auths, NextPayment(c, p) PROVE Bounded'
  BY <1>4 DEF NextPayment
<1>5. ASSUME NEW c \in Clients, Exists(c) PROVE Bounded'
  BY <1>5 DEF Exists
<1>6. ASSUME NEW c \in Clients, ExistsNot(c) PROVE Bounded'
  BY <1>6 DEF ExistsNot, Recorded
<1>7. ASSUME NEW c \in Clients, CheckFails(c) PROVE Bounded'
  BY <1>7 DEF CheckFails
<1>8. ASSUME NEW c \in Clients, Collect(c) PROVE Bounded'
  BY <1>8 DEF Collect, Charge, InHandElsewhere
<1>9. ASSUME NEW c \in Clients, CollectRefused(c) \/ CollectUnsent(c) PROVE Bounded'
  BY <1>9 DEF CollectRefused, CollectUnsent
<1>10. ASSUME NEW c \in Clients, CollectLost(c) PROVE Bounded'
  BY <1>10 DEF CollectLost
<1>11. ASSUME NEW c \in Clients, ConnectionDrops(c) \/ Exit(c) PROVE Bounded'
  BY <1>11 DEF ConnectionDrops, Exit
<1>12. ASSUME NEW c \in Clients, Crash(c) PROVE Bounded'
  <2>1. /\ UNCHANGED <<made, raced>>
        /\ \A d \in Clients : pc'[d] = "collect" => pc[d] = "collect" /\ cur'[d] = cur[d]
    BY <1>12 DEF Crash
  <2>2. CASE UNCHANGED <<inflight, struck>>
    BY <2>1, <2>2
  <2>3. CASE pc[c] = "collect" /\ Strike(c) /\ inflight' = [inflight EXCEPT ![cur[c]] = @ + 1]
    BY <2>1, <2>3
  <2>4. QED
    BY <1>12, <2>2, <2>3 DEF Crash
<1>13. CASE UNCHANGED vars
  BY <1>13
<1> HIDE DEF Bounded, vars
<1>14. QED
  BY <1>1, <1>2, <1>3, <1>4, <1>5, <1>6, <1>7, <1>8, <1>9, <1>10, <1>11, <1>12, <1>13 DEF Next, Step

\* What was recorded stays so.
LEMMA RecordStep == TypeOK /\ [Next]_vars => \A p \in Auths : Recorded(p) => Recorded(p)'
<1> SUFFICES ASSUME TypeOK, [Next]_vars, NEW p \in Auths, Recorded(p) PROVE Recorded(p)'
  OBVIOUS
<1> USE DEF TypeOK, Recorded, vars, database
<1>1. ASSUME UNCHANGED <<made, declined>> PROVE Recorded(p)'
  BY <1>1
<1>2. ASSUME NEW q \in Auths \cup {None}, Charge(q) PROVE Recorded(p)'
  BY <1>2 DEF Charge
<1>3. ASSUME NEW c \in Clients, Collect(c) PROVE Recorded(p)'
  BY <1>2, <1>3 DEF Collect
<1>4. ASSUME NEW c \in Clients, Step(c), ~Collect(c) PROVE Recorded(p)'
  BY <1>1, <1>4 DEF Step, Call, FindAuths, GetPayType, SearchFails, NextPayment, Exists, ExistsNot,
     CheckFails, CollectRefused, CollectLost, CollectUnsent, EndOfLoop
<1>5. ASSUME NEW c \in Clients, ConnectionDrops(c) \/ Exit(c) \/ Crash(c) PROVE Recorded(p)'
  BY <1>1, <1>5 DEF ConnectionDrops, Exit, Crash
<1>6. ASSUME NEW q \in Auths, Authorize(q) \/ ServerPerforms(q) \/ ServerDrops(q) PROVE Recorded(p)'
  BY <1>1, <1>2, <1>6 DEF Authorize, ServerPerforms, ServerDrops
<1>7. CASE UNCHANGED vars
  BY <1>1, <1>7
<1> HIDE DEF Recorded, vars
<1>8. QED
  BY <1>3, <1>4, <1>5, <1>6, <1>7 DEF Next

\* Nothing the search has found gets out of sight.
LEMMA AccountedStep == TypeOK /\ HandOK /\ Accounted /\ [Next]_vars => Accounted'
<1> SUFFICES ASSUME TypeOK, HandOK, Accounted, [Next]_vars PROVE Accounted'
  OBVIOUS
<1>0. \A p \in Auths : Recorded(p) => Recorded(p)'
  BY RecordStep
<1> USE DEF TypeOK, HandOK, Accounted, PCs, vars, locals, history, Goto, Return
<1>1. ASSUME UNCHANGED <<locals, history>> PROVE Accounted'
  BY <1>0, <1>1
<1>2. ASSUME NEW p \in Auths, Authorize(p) \/ ServerPerforms(p) \/ ServerDrops(p) PROVE Accounted'
  BY <1>1, <1>2 DEF Authorize, ServerPerforms, ServerDrops
<1>3. ASSUME NEW c \in Clients, Call(c) \/ SearchFails(c) \/ EndOfLoop(c) PROVE Accounted'
  BY <1>0, <1>3 DEF Call, SearchFails, EndOfLoop
<1>4. ASSUME NEW c \in Clients, FindAuths(c) \/ GetPayType(c) PROVE Accounted'
  BY <1>0, <1>4 DEF FindAuths, GetPayType
<1>5. ASSUME NEW c \in Clients, NEW p \in Auths, NextPayment(c, p) PROVE Accounted'
  BY <1>0, <1>5 DEF NextPayment, Fill
<1>6. ASSUME NEW c \in Clients, Exists(c) \/ ExistsNot(c) \/ CheckFails(c) PROVE Accounted'
  BY <1>0, <1>6 DEF Exists, ExistsNot, CheckFails
<1>7. ASSUME NEW c \in Clients, Collect(c) PROVE Accounted'
  <2>1. Recorded(cur[c])'
    BY <1>7 DEF Collect, Charge, Recorded
  <2>2. QED
    BY <1>0, <1>7, <2>1 DEF Collect
<1>8. ASSUME NEW c \in Clients, CollectRefused(c) \/ CollectLost(c) \/ Crash(c) PROVE Accounted'
  BY <1>0, <1>8 DEF CollectRefused, CollectLost, Crash
<1>9. ASSUME NEW c \in Clients, CollectUnsent(c) PROVE Accounted'
  BY <1>0, <1>9 DEF CollectUnsent
<1>10. ASSUME NEW c \in Clients, ConnectionDrops(c) \/ Exit(c) PROVE Accounted'
  BY <1>1, <1>10 DEF ConnectionDrops, Exit
<1>11. CASE UNCHANGED vars
  BY <1>1, <1>11
<1> HIDE DEF Accounted, vars
<1>12. QED
  BY <1>2, <1>3, <1>4, <1>5, <1>6, <1>7, <1>8, <1>9, <1>10, <1>11 DEF Next, Step

\* A true of rc behind a collect that was not sent has been earned by another.
LEMMA HiddenStep == TypeOK /\ InHand /\ Hidden /\ [Next]_vars => Hidden'
<1> SUFFICES ASSUME TypeOK, InHand, Hidden, [Next]_vars, NEW c \in Clients,
                    pc'[c] \in {"loop", "check", "collect"}, rc'[c], unsent'[c] # {}
             PROVE  \E p \in found'[c] \ unsent'[c] : Recorded(p)'
  BY DEF Hidden
<1>0. \A p \in Auths : Recorded(p) => Recorded(p)'
  BY RecordStep
<1>1. ASSUME UNCHANGED <<rc[c], unsent[c], found[c]>>, pc[c] \in {"loop", "check", "collect"}
      PROVE  \E p \in found'[c] \ unsent'[c] : Recorded(p)'
  BY <1>0, <1>1 DEF Hidden, TypeOK
<1>2. CASE Collect(c)
  <2>1. Recorded(cur[c])'
    BY <1>2 DEF Collect, Charge, Recorded, TypeOK, InHand
  <2> QED
    BY <1>2, <2>1 DEF Collect, InHand
<1> DEFINE Kept == /\ pc[c] \in {"loop", "check", "collect"}
                   /\ Collect(c) \/ UNCHANGED <<rc[c], unsent[c], found[c]>>
<1>3. Kept
  <2> USE DEF TypeOK, InHand, PCs, vars, database, locals, history, Goto, Return
  <2>1. ASSUME UNCHANGED <<locals, history>> PROVE Kept
    BY <2>1
  <2>2. ASSUME NEW d \in Clients, Call(d) \/ SearchFails(d) \/ FindAuths(d) \/ GetPayType(d) \/ EndOfLoop(d)
        PROVE  Kept
    <3>1. CASE Call(d)
      BY <3>1 DEF Call
    <3>2. CASE SearchFails(d)
      BY <3>2 DEF SearchFails
    <3>3. CASE FindAuths(d)
      BY <3>3 DEF FindAuths
    <3>4. CASE GetPayType(d)
      BY <3>4 DEF GetPayType
    <3>5. CASE EndOfLoop(d)
      BY <3>5 DEF EndOfLoop
    <3> HIDE DEF Kept, TypeOK, InHand
    <3> QED
      BY <2>2, <3>1, <3>2, <3>3, <3>4, <3>5
  <2>3. ASSUME NEW d \in Clients, NEW p \in Auths, NextPayment(d, p) PROVE Kept
    BY <2>3 DEF NextPayment
  <2>4. ASSUME NEW d \in Clients, Exists(d) \/ ExistsNot(d) \/ CheckFails(d) PROVE Kept
    BY <2>4 DEF Exists, ExistsNot, CheckFails
  <2>5. ASSUME NEW d \in Clients, Collect(d) PROVE Kept
    BY <2>5 DEF Collect
  <2>6. ASSUME NEW d \in Clients, CollectUnsent(d) PROVE Kept
    BY <2>6 DEF CollectUnsent
  <2>7. ASSUME NEW d \in Clients, CollectRefused(d) \/ CollectLost(d) \/ Crash(d) PROVE Kept
    <3>1. Return(d, FALSE)
      BY <2>7 DEF CollectRefused, CollectLost, Crash
    <3> QED
      BY <3>1
  <2>8. ASSUME NEW d \in Clients, ConnectionDrops(d) \/ Exit(d) PROVE Kept
    BY <2>1, <2>8 DEF ConnectionDrops, Exit
  <2>9. ASSUME NEW p \in Auths, Authorize(p) \/ ServerPerforms(p) \/ ServerDrops(p) PROVE Kept
    BY <2>1, <2>9 DEF Authorize, ServerPerforms, ServerDrops
  <2>10. CASE UNCHANGED vars
    BY <2>1, <2>10
  <2> HIDE DEF vars, Kept, TypeOK, InHand
  <2> QED
    BY <2>2, <2>3, <2>4, <2>5, <2>6, <2>7, <2>8, <2>9, <2>10 DEF Next, Step
<1> QED
  BY <1>1, <1>2, <1>3

LEMMA SpecIInv == Spec => []IInv
<1>1. IInv /\ [Next]_vars => IInv'
  BY TypeStep, OwnStep, BoundedStep, AccountedStep, InHandStep, HiddenStep DEF IInv
<1>2. QED
  BY InitIInv, <1>1, PTL DEF Spec
-----------------------------------------------------------------------------
\* Every variable of the session and of deposit_charges keeps its type.
THEOREM TypeCorrect == Spec => []TypeOK
<1>1. IInv => TypeOK
  BY DEF IInv
<1>2. QED
  BY SpecIInv, <1>1, PTL

\* deposit_charges makes one deposit per authorization with a TRANS_ID, and one
\* more for each failing call about it, if no two operators raced for it.
THEOREM DepositedOnce == Spec => []OnceUnlessStruckOrRaced
<1>1. IInv => OnceUnlessStruckOrRaced
  BY DEF IInv, Bounded
<1>2. QED
  BY SpecIInv, <1>1, PTL

\* A collect call of deposit_charges carries the amount of its own payment, if
\* that has one, and else none or that of one the same call has had in hand.
THEOREM AmountIsOwn == Spec => []OwnAmount
<1>1. IInv => OwnAmount
  BY DEF IInv, OwnPayment, OwnAmount, InHand
<1>2. QED
  BY SpecIInv, <1>1, PTL

\* The true of deposit_charges vouches for every authorization it has found,
\* but for those whose collect call found no connection, and these are hidden by
\* another that is on record.
THEOREM TrueIsHonest == Spec => TrueMeansRecorded
<1> DEFINE Honest ==
      \A c \in Clients :
         (pc[c] # "idle" /\ pc'[c] = "idle" /\ rc'[c]) =>
             /\ \A p \in found[c] : Recorded(p) \/ p \in unsent[c]
             /\ unsent[c] = {} \/ \E p \in found[c] \ unsent[c] : Recorded(p)
<1>1. IInv /\ [Next]_vars => [Honest]_vars
  <2> SUFFICES ASSUME IInv, [Next]_vars, NEW c \in Clients,
                      pc[c] # "idle", pc'[c] = "idle", rc'[c]
               PROVE  /\ \A p \in found[c] : Recorded(p) \/ p \in unsent[c]
                      /\ unsent[c] = {} \/ \E p \in found[c] \ unsent[c] : Recorded(p)
    OBVIOUS
  <2> USE DEF IInv, TypeOK
  <2>1. EndOfLoop(c)
    <3> USE DEF vars, database, locals, history, Goto, Return
    <3>1. ASSUME NEW d \in Clients, Step(d) PROVE d = c /\ EndOfLoop(c)
      <4>1. d = c
        BY <3>1 DEF Step, Call, FindAuths, GetPayType, SearchFails, NextPayment, Exists, ExistsNot,
           CheckFails, Collect, CollectRefused, CollectLost, CollectUnsent, EndOfLoop
      <4>2. ~SearchFails(c) /\ ~CollectRefused(c) /\ ~CollectLost(c)
        BY DEF SearchFails, CollectRefused, CollectLost
      <4>3. QED
        BY <3>1, <4>1, <4>2 DEF Step, Call, FindAuths, GetPayType, NextPayment, Exists, ExistsNot,
           CheckFails, Collect, CollectUnsent
    <3>2. ASSUME NEW d \in Clients, ConnectionDrops(d) \/ Exit(d) \/ Crash(d) PROVE FALSE
      BY <3>2 DEF ConnectionDrops, Exit, Crash
    <3>3. ASSUME NEW q \in Auths, Authorize(q) \/ ServerPerforms(q) \/ ServerDrops(q) PROVE FALSE
      BY <3>3 DEF Authorize, ServerPerforms, ServerDrops
    <3>4. QED
      BY <3>1, <3>2, <3>3 DEF Next
  <2>2. QED
    BY <2>1 DEF EndOfLoop, Accounted, Hidden, Return
<1>2. QED
  BY SpecIInv, <1>1, PTL DEF Spec, TrueMeansRecorded
=============================================================================
