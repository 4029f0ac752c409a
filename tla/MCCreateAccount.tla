--------------------------- MODULE MCCreateAccount ---------------------------
(* A plan with a free dial service and a mail service that has a deal; two  *)
(* deals of one id for two types, and one that comes and goes.              *)
EXTENDS CreateAccount

DealIds == [dial |-> 1, mail |-> 1, extra |-> 2, own |-> 3]
DealTypes == [dial |-> "dial", mail |-> "mail", extra |-> "dial", own |-> "mail"]

OnePlan == {<<[type |-> "dial", deal |-> NoDeal], [type |-> "mail", deal |-> "own"]>>}

Record(deals, contact, billing, pay) ==
    [deals |-> deals, contact |-> contact, billing |-> billing, pay |-> pay]

SomeRecords == {Record(<<1>>, {"city"}, {}, "cc"),
                Record(<<1, 2>>, {"zip"}, {"address", "city"}, "invoice"),
                Record(<<2, 2>>, {}, {"state"}, "dd"),
                Record(<<3, 9>>, {"address"}, {"city"}, "lec")}
=============================================================================
