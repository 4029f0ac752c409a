------------------------------ MODULE PinSession ------------------------------
(***************************************************************************)
(* The BRM session of pin/: class pin_Session, without its transactions.   *)
(*                                                                         *)
(* A session is a context pointer that every opcode call tests first; if   *)
(* there is no connection call_opcode opens one, silently.  The Infranet   *)
(* server and the network are outside: a call is performed, refused, or    *)
(* lost with the connection, and a connection may break between calls.     *)
(* Each operator below is one outcome of a call; what the call does to the *)
(* data base is added by the module that makes it.                         *)
(***************************************************************************)
EXTENDS Integers, FiniteSets

CONSTANTS
    Clients,     \* the processes, each with a session of its own
    MaxFaults    \* bound: refused calls, broken connections, failed connects

ASSUME PinSessionAssumption == MaxFaults \in Nat

VARIABLES
    ctx,         \* ctxp of each session
    faults       \* faults so far

sessionVars == <<ctx, faults>>

\* No context (or one of whose session pcm_get_session knows no more: that is
\* taken for none); a connection; a broken one that still names its session.
Contexts == {"null", "live", "stale"}

SessionTypeOK ==
    /\ ctx \in [Clients -> Contexts]
    /\ faults \in 0..MaxFaults

SessionInit ==
    /\ ctx = [c \in Clients |-> "null"]
    /\ faults = 0

Fault == faults < MaxFaults /\ faults' = faults + 1

-----------------------------------------------------------------------------
IsConnected(c) == ctx[c] \in {"live", "stale"}

\* OpenConnection: the context call_opcode goes on with.
OpenConnection(c) == IF IsConnected(c) THEN ctx[c] ELSE "live"

\* The server performs the opcode and its answer arrives: call_opcode is true.
Performed(c) ==
    /\ OpenConnection(c) = "live"
    /\ ctx' = [ctx EXCEPT ![c] = "live"]
    /\ UNCHANGED faults

\* The server answers with an error.
Refused(c) ==
    /\ OpenConnection(c) = "live"
    /\ Fault
    /\ ctx' = [ctx EXCEPT ![c] = "live"]

\* The connection breaks after the call was sent; pcm_op returns an error and
\* what the server makes of the call is unknown.
Lost(c) ==
    /\ OpenConnection(c) = "live"
    /\ Fault
    /\ \E x \in {"stale", "null"} : ctx' = [ctx EXCEPT ![c] = x]

\* The call is made on a broken connection: an error, and nothing is sent.
Dead(c) ==
    /\ ctx[c] = "stale"
    /\ \E x \in {"stale", "null"} : ctx' = [ctx EXCEPT ![c] = x]
    /\ UNCHANGED faults

\* There is no connection and none can be opened: call_opcode is false and
\* leaves no error in the error buffer, which it has cleared.
Unsent(c) ==
    /\ ~IsConnected(c)
    /\ Fault
    /\ ctx' = [ctx EXCEPT ![c] = "null"]

Failing(c) == Refused(c) \/ Lost(c) \/ Dead(c) \/ Unsent(c)

\* Between calls the server ends, or the network does.
Drop(c) ==
    /\ ctx[c] = "live"
    /\ Fault
    /\ \E x \in {"stale", "null"} : ctx' = [ctx EXCEPT ![c] = x]

\* The process ends (the destructor closes nothing; the kernel does).
EndProcess(c) == ctx' = [ctx EXCEPT ![c] = "null"]
=============================================================================
