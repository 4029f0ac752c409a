----------------------------- MODULE MCDeposits -----------------------------
(* An authorization with all its fields, one without a TRANS_ID and one     *)
(* without an AMOUNT.                                                       *)
EXTENDS Deposits

Nameless == {"p2"}
Amountless == {"p3"}
=============================================================================
