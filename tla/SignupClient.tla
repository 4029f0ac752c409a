----------------------------- MODULE SignupClient -----------------------------
(***************************************************************************)
(* bs_SignupClient::bsSignup over tcp_Client and tcp_Session: one request  *)
(* is sent, and what the server answers is read until it closes.  The      *)
(* server (bs_signupd) and the network are external: the answer to a whole *)
(* request comes in pieces of any size, and the connection may be closed   *)
(* or broken at any time.                                                  *)
(*                                                                         *)
(* The bytes of an answer are numbered from 1.  An object of tcp_Client    *)
(* serves one call.                                                        *)
(***************************************************************************)
EXTENDS Integers, Sequences

CONSTANTS
    BuffMax,     \* tcp_Client::buff_max
    MaxBytes,    \* bound: bytes of an answer
    MaxSignals   \* bound: signals in a call

ASSUME SignupAssumption ==
    BuffMax \in Nat \ {0} /\ MaxBytes \in Nat /\ MaxSignals \in Nat

VARIABLES
    pc,        \* where bsSignup is
    rc,        \* how the last call ended
    conn,      \* the connection: open, closed by the server, or reset
    buffer,    \* tcp_Client::buffer, up to its first NUL
    returned,  \* tcp_Client::returnStream, the result_set of the call
    trys,      \* trys of Read_buffer
    served,    \* what the server has of the request
    sent,      \* bytes the server has sent
    arrived,   \* bytes that wait in the socket
    signals    \* signals in this call

vars == <<pc, rc, conn, buffer, returned, trys, served, sent, arrived, signals>>

Init ==
    /\ pc = "idle" /\ rc = "none" /\ conn = "closed"
    /\ buffer = <<>> /\ returned = <<>> /\ trys = 0
    /\ served = "none" /\ sent = 0 /\ arrived = <<>>
    /\ signals = 0

\* The end of bsSignup; its answer is false whatever rc is, since Read_buffer
\* never returns Success.
Ends(code) == pc' = "idle" /\ rc' = code

-----------------------------------------------------------------------------
(* The client.                                                             *)

\* Connect; its timeout is not used.
Connect ==
    /\ pc = "idle"
    /\ \/ pc' = "write" /\ conn' = "open" /\ UNCHANGED rc
       \/ Ends("can not connect") /\ conn' = "closed"
    /\ buffer' = <<>> /\ returned' = <<>> /\ trys' = 0
    /\ served' = "none" /\ sent' = 0 /\ arrived' = <<>>
    /\ signals' = 0

\* One send: what it did not take of the request is not sent again.
WriteBuffer ==
    /\ pc = "write"
    /\ \/ conn # "reset" /\ pc' = "select" /\ served' \in {"part", "whole"} /\ UNCHANGED rc
       \/ Ends("can not write") /\ UNCHANGED served
    /\ buffer' = <<>>
    /\ UNCHANGED <<conn, returned, trys, sent, arrived, signals>>

Readable == arrived # <<>> \/ conn # "open"

Select ==
    /\ pc = "select"
    /\ IF Readable THEN pc' = "recv" /\ trys' = trys + 1 /\ UNCHANGED rc
       ELSE Ends("ServerTimedOut") /\ UNCHANGED trys
    /\ UNCHANGED <<conn, buffer, returned, served, sent, arrived, signals>>

\* select fails, as it does on a signal.
SelectFails ==
    /\ pc = "select" /\ signals < MaxSignals
    /\ Ends("BadSocket")
    /\ signals' = signals + 1
    /\ UNCHANGED <<conn, buffer, returned, trys, served, sent, arrived>>

\* What recv takes.
Piece == IF Len(arrived) < BuffMax THEN Len(arrived) ELSE BuffMax

\* recv writes over the start of the buffer: behind a piece shorter than the one
\* before there is still the tail of that.
Written ==
    [i \in 1..(IF Piece < Len(buffer) THEN Len(buffer) ELSE Piece) |->
        IF i <= Piece THEN arrived[i] ELSE buffer[i]]

\* A plausible slip: a piece that leaves room in the buffer taken for the last.
ReceiveToShort ==
    /\ pc = "recv" /\ arrived # <<>>
    /\ buffer' = Written
    /\ arrived' = SubSeq(arrived, Piece + 1, Len(arrived))
    /\ IF Piece < BuffMax THEN Ends("NoMoreInput") ELSE UNCHANGED <<pc, rc>>
    /\ returned' = returned \o Written
    /\ UNCHANGED <<conn, trys, served, sent, signals>>

\* The buffer is put out up to its first NUL.  A piece that fills it leaves none,
\* and the text ends there only because the byte behind the buffer, the first of
\* the member buff_max, is 0.
Receive ==
    /\ pc = "recv" /\ arrived # <<>>
    /\ buffer' = Written
    /\ arrived' = SubSeq(arrived, Piece + 1, Len(arrived))
    /\ returned' = returned \o Written
    /\ UNCHANGED <<pc, rc, conn, trys, served, sent, signals>>

\* A plausible slip: the tries counted from each select.
EndOfInputAnew ==
    /\ pc = "recv" /\ arrived = <<>> /\ conn = "closed"
    /\ IF trys < 2 THEN pc' = "select" /\ buffer' = <<>> /\ trys' = 0 /\ UNCHANGED rc
       ELSE Ends("NoMoreInput") /\ UNCHANGED <<buffer, trys>>
    /\ UNCHANGED <<conn, returned, served, sent, arrived, signals>>

EndOfInput ==
    /\ pc = "recv" /\ arrived = <<>> /\ conn = "closed"
    /\ IF trys < 2 THEN pc' = "select" /\ buffer' = <<>> /\ UNCHANGED rc
       ELSE Ends("NoMoreInput") /\ UNCHANGED buffer
    /\ UNCHANGED <<conn, returned, trys, served, sent, arrived, signals>>

ReadFails ==
    /\ pc = "recv" /\ arrived = <<>> /\ conn = "reset"
    /\ Ends("IOReadFailed")
    /\ UNCHANGED <<conn, buffer, returned, trys, served, sent, arrived, signals>>

\* EINTR, while recv waits for more: it has no timeout.
Interrupted ==
    /\ pc = "recv" /\ ~Readable /\ signals < MaxSignals
    /\ pc' = "select"
    /\ buffer' = <<>>
    /\ signals' = signals + 1
    /\ UNCHANGED <<rc, conn, returned, trys, served, sent, arrived>>

-----------------------------------------------------------------------------
(* The server and the network.                                             *)

Answer(n) ==
    /\ pc # "idle" /\ conn = "open" /\ served = "whole"
    /\ sent' = sent + n
    /\ arrived' = arrived \o [i \in 1..n |-> sent + i]
    /\ UNCHANGED <<pc, rc, conn, buffer, returned, trys, served, signals>>

Close ==
    /\ pc # "idle" /\ conn = "open"
    /\ conn' = "closed"
    /\ UNCHANGED <<pc, rc, buffer, returned, trys, served, sent, arrived, signals>>

\* Some of what has not been read may be gone.
Reset ==
    /\ pc # "idle" /\ conn = "open"
    /\ conn' = "reset"
    /\ \E n \in 0..Len(arrived) : arrived' = SubSeq(arrived, 1, n)
    /\ UNCHANGED <<pc, rc, buffer, returned, trys, served, sent, signals>>

-----------------------------------------------------------------------------
Steps == WriteBuffer \/ Select \/ Receive \/ EndOfInput \/ ReadFails

Next ==
    \/ Connect \/ Steps
    \/ SelectFails \/ Interrupted
    \/ \E n \in 1..(MaxBytes - sent) : Answer(n)
    \/ Close \/ Reset

Spec == Init /\ [][Next]_vars

\* The client goes on, and a server that has begun to answer closes.
FairSpec == Spec /\ WF_vars(Steps) /\ WF_vars(sent > 0 /\ Close)

-----------------------------------------------------------------------------
(* Properties.                                                             *)

\* What a call returns and how it says it ended agree with what came over the
\* connection: however the answer is cut into pieces, and in spite of signals,
\* no byte is skipped and none comes before one sent earlier.  Bytes may come
\* again, since the buffer is not cleared between pieces, but of as many in a row
\* as the buffer holds one is always new.  After NoMoreInput the answer is all
\* there, after ServerTimedOut none of it was, unless there was a signal, and
\* IOReadFailed means a broken connection.
EndingIsTrue ==
    LET read == sent - Len(arrived) IN
    /\ conn # "reset" => {returned[i] : i \in DOMAIN returned} = 1..read
    /\ \A i \in DOMAIN returned : \A b \in 1..returned[i] : \E j \in 1..i : returned[j] = b
    /\ \A i \in 1..(Len(returned) - BuffMax + 1) : \E j \in i..(i + BuffMax - 1) :
          \A h \in 1..(j - 1) : returned[h] < returned[j]
    /\ pc = "idle" =>
         /\ rc = "NoMoreInput" => conn = "closed" /\ read = sent
         /\ rc = "ServerTimedOut" => returned = <<>> \/ signals > 0
         /\ rc = "IOReadFailed" => conn = "reset"
         /\ rc \in {"can not connect", "can not write"} => returned = <<>>

\* A call comes to an end, if a server that has begun to answer closes: end of
\* input is retried once only, and with a cut request or a dead server the
\* select times out.
EveryCallReturns == pc # "idle" ~> pc = "idle"
=============================================================================
