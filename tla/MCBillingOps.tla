---------------------------- MODULE MCBillingOps ----------------------------
(* Every operation by its wrapper, with good arguments; the base functions  *)
(* that differ by more than the look-up of the account; and the arguments   *)
(* that lead elsewhere.                                                     *)
EXTENDS BillingOps

Request(op, by, value, service) == [op |-> op, by |-> by, value |-> value, service |-> service]

UsedRequests ==
    {Request(op, "no", "good", "none") : op \in Ops}
    \cup {Request(op, "poid", "good", "none") : op \in {"payinfo", "chargeback", "collect"}}
    \cup {Request("refund", "no", "special", "none"), Request("collect", "no", "special", "none"),
          Request("status", "no", "special", "type"), Request("status", "no", "good", "id0"),
          Request("cancel", "id0", "good", "none"), Request("recourse", "no", "bad", "none"),
          Request("adjustCash", "no", "bad", "none")}

\* An account with everything; one with what no write can do without missing;
\* one that cannot be paid for; an unknown one.
UsedWorlds ==
    {Facts, Facts \ {"serial", "flags", "balGroup", "item"}, Facts \ {"billinfo", "service", "payment"}, {}}
=============================================================================
