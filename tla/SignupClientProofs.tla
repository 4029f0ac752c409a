-------------------------- MODULE SignupClientProofs --------------------------
(***************************************************************************)
(* Proofs about SignupClient, for a buffer and answers of any length and   *)
(* any number of signals: what a call returns, and how it says it ended,   *)
(* agree with what came over the connection.                               *)
(***************************************************************************)
EXTENDS SignupClient, TLAPS

Types ==
    /\ pc \in {"idle", "write", "select", "recv"}
    /\ conn \in {"open", "closed", "reset"}
    /\ buffer \in Seq(Nat) /\ returned \in Seq(Nat) /\ arrived \in Seq(Nat)
    /\ sent \in Nat /\ signals \in Nat

\* s has the bytes 1 to k, each for the first time behind the one before it.
Complete(s, k) ==
    /\ \A i \in 1..Len(s) : s[i] \in 1..k
    /\ \A b \in 1..k : \E i \in 1..Len(s) : s[i] = b
    /\ \A i \in 1..Len(s) : \A b \in 1..s[i] : \E j \in 1..i : s[j] = b

\* The first k bytes have been read, and those that wait follow on them.
Read(k) ==
    /\ k \in Nat
    /\ Complete(returned, k)
    /\ \A i \in 1..Len(buffer) : buffer[i] \in 1..k
    /\ \A i \in 1..Len(arrived) : arrived[i] = k + i
    /\ conn # "reset" => k + Len(arrived) = sent

Stream == \E k \in Nat : Read(k)

\* Nothing has come when the select can time out, unless there was a signal:
\* behind the end of input it never does.
Silent ==
    /\ pc = "write" => returned = <<>>
    /\ pc = "select" => returned = <<>> \/ signals > 0 \/ conn = "closed"

Ending ==
    pc = "idle" =>
        /\ rc = "NoMoreInput" => conn = "closed" /\ arrived = <<>>
        /\ rc = "ServerTimedOut" => returned = <<>> \/ signals > 0
        /\ rc = "IOReadFailed" => conn = "reset"
        /\ rc \in {"can not connect", "can not write"} => returned = <<>>

\* Of any BuffMax bytes in a row one is new.
Renewed(s) ==
    \A i \in 1..(Len(s) - BuffMax + 1) : \E j \in i..(i + BuffMax - 1) :
        \A h \in 1..(j - 1) : s[h] < s[j]

Renewal == Len(buffer) <= BuffMax /\ Renewed(returned)

IInv == Types /\ Stream /\ Renewal /\ Silent /\ Ending

-----------------------------------------------------------------------------
LEMMA Initially == Init => IInv
<1> SUFFICES ASSUME Init PROVE IInv
  OBVIOUS
<1>1. Types /\ Silent /\ Ending
  BY DEF Init, Types, Silent, Ending
<1>2. Read(0)
  BY DEF Init, Read, Complete
<1>3. Renewal
  BY SignupAssumption DEF Init, Renewal, Renewed
<1> QED
  BY <1>1, <1>2, <1>3 DEF IInv, Stream

\* Nothing that the stream is about changes.
LEMMA Quiet ==
    ASSUME Types, Stream, UNCHANGED <<returned, arrived, sent>>,
           buffer' \in {buffer, <<>>}, conn' = conn
    PROVE  Stream'
<1>1. PICK k \in Nat : Read(k)
  BY DEF Stream
<1>2. Read(k)'
  <2>1. Complete(returned, k)'
    BY <1>1 DEF Read, Complete
  <2>2. \A i \in 1..Len(buffer') : buffer'[i] \in 1..k
    BY <1>1 DEF Read
  <2> QED
    BY <1>1, <2>1, <2>2 DEF Read
<1> QED
  BY <1>2 DEF Stream

\* A new call.
LEMMA Fresh ==
    ASSUME returned' = <<>>, buffer' = <<>>, arrived' = <<>>, sent' = 0
    PROVE  Stream'
<1>1. Read(0)'
  BY DEF Read, Complete
<1> QED
  BY <1>1 DEF Stream

-----------------------------------------------------------------------------
(* Receive.                                                                *)

LEMMA PieceIs ==
    ASSUME Types
    PROVE  /\ Piece \in 0..Len(arrived)
           /\ Written \in [1..(IF Piece < Len(buffer) THEN Len(buffer) ELSE Piece) -> Nat]
           /\ Written \in Seq(Nat)
           /\ Len(Written) >= Piece
           /\ \A i \in 1..Piece : Written[i] = arrived[i]
           /\ \A i \in 1..Len(Written) : i > Piece => i \in 1..Len(buffer) /\ Written[i] = buffer[i]
<1> DEFINE m == IF Piece < Len(buffer) THEN Len(buffer) ELSE Piece
<1>1. Piece \in 0..Len(arrived)
  BY SignupAssumption DEF Types, Piece
<1>2. m \in Nat /\ m >= Piece /\ (m > Piece => m = Len(buffer))
  BY <1>1 DEF Types
<1>3. \A i \in 1..m : (IF i <= Piece THEN arrived[i] ELSE buffer[i]) \in Nat
  BY <1>1, <1>2 DEF Types
<1>4. Written = [i \in 1..m |-> IF i <= Piece THEN arrived[i] ELSE buffer[i]]
  BY DEF Written
<1> HIDE DEF m
<1>5. Written \in [1..m -> Nat]
  BY <1>3, <1>4
<1>6. Written \in Seq(Nat) /\ Len(Written) = m
  BY <1>2, <1>5
<1>7. \A i \in 1..Piece : Written[i] = arrived[i]
  BY <1>1, <1>2, <1>4
<1>8. \A i \in 1..m : i > Piece => i \in 1..Len(buffer) /\ Written[i] = buffer[i]
  BY <1>1, <1>2, <1>4 DEF Types
<1> QED
  BY <1>1, <1>2, <1>5, <1>6, <1>7, <1>8 DEF m

\* Behind bytes 1 to k a piece that goes on from k + 1, and then bytes that have
\* been there.
LEMMA GoesOn ==
    ASSUME NEW k \in Nat, NEW n \in Nat, NEW s \in Seq(Nat), NEW t \in Seq(Nat),
           Complete(s, k), n <= Len(t),
           \A i \in 1..n : t[i] = k + i,
           \A i \in 1..Len(t) : i > n => t[i] \in 1..k
    PROVE  Complete(s \o t, k + n)
<1> DEFINE u == s \o t
<1>1. /\ Len(s) \in Nat /\ Len(t) \in Nat /\ Len(u) = Len(s) + Len(t)
      /\ \A i \in 1..Len(s) : u[i] = s[i]
      /\ \A i \in 1..Len(t) : u[Len(s) + i] = t[i]
  OBVIOUS
<1> HIDE DEF u
<1>2. \A i \in 1..Len(s) : s[i] \in 1..k
  BY DEF Complete
<1>3. \A i \in 1..Len(u) : i \in 1..Len(s) \/ (i - Len(s) \in 1..Len(t) /\ u[i] = t[i - Len(s)])
  <2> TAKE i \in 1..Len(u)
  <2>1. CASE i <= Len(s)
    BY <1>1, <2>1
  <2>2. CASE i > Len(s)
    <3>1. i - Len(s) \in 1..Len(t) /\ Len(s) + (i - Len(s)) = i
      BY <1>1, <2>2
    <3> QED
      BY <1>1, <3>1
  <2> QED
    BY <1>1, <2>1, <2>2
<1>4. \A b \in 1..k : \E j \in 1..Len(s) : u[j] = b
  BY <1>1 DEF Complete
<1>5. \A b \in (k + 1)..(k + n) : Len(s) + (b - k) \in 1..Len(u) /\ u[Len(s) + (b - k)] = b
  <2> TAKE b \in (k + 1)..(k + n)
  <2>1. b - k \in 1..n /\ b - k \in 1..Len(t) /\ k + (b - k) = b
    BY <1>1
  <2>2. t[b - k] = b
    BY <2>1
  <2>3. u[Len(s) + (b - k)] = t[b - k]
    BY <1>1, <2>1
  <2>4. Len(s) + (b - k) \in 1..Len(u)
    BY <1>1, <2>1
  <2> QED
    BY <2>2, <2>3, <2>4
<1>6. ASSUME NEW i \in 1..Len(u)
      PROVE  u[i] \in 1..(k + n) /\ \A b \in 1..u[i] : \E j \in 1..i : u[j] = b
  <2>1. CASE i \in 1..Len(s)
    <3>1. u[i] = s[i] /\ s[i] \in 1..k
      BY <1>1, <1>2, <2>1
    <3>2. \A b \in 1..s[i] : \E j \in 1..i : s[j] = b
      BY <2>1 DEF Complete
    <3>3. \A j \in 1..i : u[j] = s[j]
      BY <1>1, <2>1
    <3>4. u[i] \in 1..(k + n)
      BY <3>1
    <3> QED
      BY <3>1, <3>2, <3>3, <3>4
  <2>2. CASE i - Len(s) \in 1..n /\ i \notin 1..Len(s)
    <3>1. u[i] = t[i - Len(s)]
      BY <1>3, <2>2
    <3>2. u[i] = k + (i - Len(s))
      BY <2>2, <3>1
    <3>3. u[i] \in 1..(k + n)
      BY <1>1, <2>2, <3>2
    <3>4. ASSUME NEW b \in 1..u[i] PROVE \E j \in 1..i : u[j] = b
      <4>0. b \in Nat /\ b >= 1 /\ b <= k + (i - Len(s)) /\ i > Len(s)
        BY <1>1, <2>2, <3>2, <3>3
      <4>1. CASE b <= k
        <5>1. PICK j \in 1..Len(s) : u[j] = b
          BY <1>4, <4>0, <4>1
        <5>2. j \in 1..i
          BY <1>1, <4>0
        <5> QED
          BY <5>1, <5>2
      <4>2. CASE b > k
        <5>1. b \in (k + 1)..(k + n) /\ Len(s) + (b - k) \in 1..i
          BY <1>1, <2>2, <4>0, <4>2
        <5> QED
          BY <1>5, <5>1
      <4> QED
        BY <4>0, <4>1, <4>2
    <3> QED
      BY <3>3, <3>4
  <2>3. CASE i - Len(s) \notin 1..n /\ i \notin 1..Len(s)
    <3>1. u[i] = t[i - Len(s)] /\ i - Len(s) \in 1..Len(t)
      BY <1>3, <2>3
    <3>2. i - Len(s) > n /\ i > Len(s)
      BY <1>1, <2>3, <3>1
    <3>3. u[i] \in 1..k
      BY <3>1, <3>2
    <3>4. \A b \in 1..u[i] : b \in 1..k
      BY <3>3
    <3>5. \A j \in 1..Len(s) : j \in 1..i
      BY <1>1, <3>2
    <3>6. u[i] \in 1..(k + n)
      BY <3>3
    <3> QED
      BY <1>4, <3>4, <3>5, <3>6
  <2> QED
    BY <2>1, <2>2, <2>3
<1>7. ASSUME NEW b \in 1..(k + n) PROVE \E i \in 1..Len(u) : u[i] = b
  <2>1. CASE b \in 1..k
    <3>1. \A j \in 1..Len(s) : j \in 1..Len(u)
      BY <1>1
    <3> QED
      BY <1>4, <2>1, <3>1
  <2>2. CASE b \in (k + 1)..(k + n)
    BY <1>5, <2>2
  <2> QED
    BY <2>1, <2>2
<1>8. Complete(u, k + n)
  BY <1>6, <1>7 DEF Complete
<1> QED
  BY <1>8 DEF u

LEMMA ReceiveStream == ASSUME Types, Stream, Receive PROVE Stream'
<1>1. PICK k \in Nat : Read(k)
  BY DEF Stream
<1> DEFINE n == Piece
<1>2. /\ n \in Nat /\ n <= Len(arrived) /\ Len(arrived) \in Nat
      /\ Written \in Seq(Nat) /\ n <= Len(Written)
      /\ \A i \in 1..n : Written[i] = arrived[i]
      /\ \A i \in 1..Len(Written) : i > n => i \in 1..Len(buffer) /\ Written[i] = buffer[i]
  BY PieceIs DEF Types
<1> HIDE DEF n
<1>3. \A i \in 1..n : Written[i] = k + i
  BY <1>1, <1>2 DEF Read
<1>4. \A i \in 1..Len(Written) : i > n => Written[i] \in 1..k
  BY <1>1, <1>2 DEF Read
<1>5. Complete(returned', k + n)
  <2>1. Complete(returned, k) /\ returned \in Seq(Nat)
    BY <1>1 DEF Read, Types
  <2>2. Complete(returned \o Written, k + n)
    BY <1>2, <1>3, <1>4, <2>1, GoesOn
  <2> QED
    BY <2>2 DEF Receive
<1>6. ASSUME NEW i \in 1..Len(buffer') PROVE buffer'[i] \in 1..(k + n)
  <2>1. buffer' = Written
    BY DEF Receive
  <2>2. CASE i <= n
    <3>1. Written[i] = k + i
      BY <1>2, <1>3, <2>1, <2>2
    <3> QED
      BY <1>2, <2>1, <2>2, <3>1
  <2>3. CASE i > n
    BY <1>2, <1>4, <2>1, <2>3
  <2> QED
    BY <1>2, <2>1, <2>2, <2>3
<1>7. /\ Len(arrived') = Len(arrived) - n
      /\ \A i \in 1..Len(arrived') : arrived'[i] = (k + n) + i
  <2>1. arrived' = SubSeq(arrived, n + 1, Len(arrived))
    BY DEF Receive, n
  <2>2. Len(arrived') = Len(arrived) - n
    BY <1>2, <2>1 DEF Types
  <2>3. ASSUME NEW i \in 1..Len(arrived') PROVE arrived'[i] = (k + n) + i
    <3>1. n + i \in 1..Len(arrived) /\ arrived'[i] = arrived[n + i]
      BY <1>2, <2>1, <2>2 DEF Types
    <3>2. arrived[n + i] = k + (n + i)
      BY <1>1, <3>1 DEF Read
    <3> QED
      BY <1>2, <3>1, <3>2
  <2> QED
    BY <2>2, <2>3
<1>8. conn' # "reset" => (k + n) + Len(arrived') = sent'
  <2>1. conn # "reset" => k + Len(arrived) = sent
    BY <1>1 DEF Read
  <2>2. conn' = conn /\ sent' = sent
    BY DEF Receive
  <2>3. (k + n) + (Len(arrived) - n) = k + Len(arrived)
    BY <1>2
  <2> QED
    BY <1>7, <2>1, <2>2, <2>3
<1>9. PICK q \in Nat : q = k + n
  BY <1>2
<1>10. Read(q)'
  BY <1>5, <1>6, <1>7, <1>8, <1>9 DEF Read, Complete
<1> QED
  BY <1>10 DEF Stream

LEMMA Joined ==
    ASSUME NEW s \in Seq(Nat), NEW t \in Seq(Nat)
    PROVE  /\ s \o t \in Seq(Nat) /\ Len(s \o t) = Len(s) + Len(t)
           /\ \A i \in 1..Len(s) : (s \o t)[i] = s[i]
           /\ \A i \in 1..Len(t) : (s \o t)[Len(s) + i] = t[i]
OBVIOUS

\* A piece that begins with a new byte, and with what is left behind it is no
\* longer than the buffer, keeps new bytes coming.
LEMMA GoesOnRenewed ==
    ASSUME NEW k \in Nat, NEW s \in Seq(Nat), NEW t \in Seq(Nat),
           Complete(s, k), Renewed(s), Len(t) <= BuffMax, Len(t) > 0, t[1] = k + 1
    PROVE  Renewed(s \o t)
<1> DEFINE u == s \o t
<1>1. /\ Len(s) \in Nat /\ Len(t) \in Nat /\ Len(u) = Len(s) + Len(t)
      /\ \A i \in 1..Len(s) : u[i] = s[i]
      /\ \A i \in 1..Len(t) : u[Len(s) + i] = t[i]
  BY Joined
<1> HIDE DEF u
<1>2. BuffMax \in Nat \ {0}
  BY SignupAssumption
<1>3. ASSUME NEW i \in 1..(Len(u) - BuffMax + 1)
      PROVE  \E j \in i..(i + BuffMax - 1) : \A h \in 1..(j - 1) : u[h] < u[j]
  <2>1. CASE i + BuffMax - 1 <= Len(s)
    <3>1. i \in 1..(Len(s) - BuffMax + 1)
      BY <1>1, <1>2, <2>1
    <3>2. PICK j \in i..(i + BuffMax - 1) : \A h \in 1..(j - 1) : s[h] < s[j]
      BY <3>1 DEF Renewed
    <3>3. \A h \in 1..j : u[h] = s[h]
      BY <1>1, <1>2, <2>1, <3>2
    <3>4. j \in 1..j /\ \A h \in 1..(j - 1) : h \in 1..j
      BY <1>1, <1>2, <3>2
    <3> QED
      BY <3>2, <3>3, <3>4
  <2>2. CASE i + BuffMax - 1 > Len(s)
    <3>1. i <= Len(s) + 1
      BY <1>1, <1>2
    <3>2. Len(s) + 1 \in i..(i + BuffMax - 1)
      BY <1>1, <1>2, <2>2, <3>1
    <3>3. u[Len(s) + 1] = k + 1
      BY <1>1
    <3>4. ASSUME NEW h \in 1..((Len(s) + 1) - 1) PROVE u[h] < u[Len(s) + 1]
      <4>1. h \in 1..Len(s) /\ s[h] \in 1..k
        BY <1>1 DEF Complete
      <4> QED
        BY <1>1, <3>3, <4>1
    <3> QED
      BY <3>2, <3>4
  <2> QED
    BY <1>1, <1>2, <2>1, <2>2
<1>4. Renewed(u)
  BY <1>3 DEF Renewed
<1> QED
  BY <1>4 DEF u

LEMMA ReceiveRenewal == ASSUME Types, Stream, Renewal, Receive PROVE Renewal'
<1>1. PICK k \in Nat : Read(k)
  BY DEF Stream
<1>2. /\ Piece \in 1..Len(arrived) /\ Piece <= BuffMax
      /\ Written \in Seq(Nat) /\ Len(Written) <= BuffMax /\ Len(Written) > 0
  <2>1. Len(arrived) > 0 /\ BuffMax \in Nat \ {0}
    BY SignupAssumption DEF Types, Receive
  <2>2. Piece \in 1..Len(arrived) /\ Piece <= BuffMax
    BY <2>1 DEF Types, Piece
  <2>3. Len(Written) = IF Piece < Len(buffer) THEN Len(buffer) ELSE Piece
    BY <2>2, PieceIs DEF Types
  <2> QED
    BY <2>2, <2>3, PieceIs DEF Types, Renewal
<1>3. Written[1] = k + 1
  BY <1>1, <1>2, PieceIs DEF Read, Types
<1>4. Renewed(returned \o Written)
  BY <1>1, <1>2, <1>3, GoesOnRenewed DEF Read, Renewal, Types
<1>5. returned' = returned \o Written /\ buffer' = Written
  BY DEF Receive
<1> QED
  BY <1>2, <1>4, <1>5 DEF Renewal, Renewed

\* Where nothing is received, and the buffer is kept or cleared.
LEMMA OtherRenewal ==
    ASSUME Types, Renewal, returned' \in {returned, <<>>}, buffer' \in {buffer, <<>>}
    PROVE  Renewal'
<1>1. Len(<<>>) = 0 /\ BuffMax \in Nat \ {0}
  BY SignupAssumption
<1>2. Len(buffer') <= BuffMax
  BY <1>1 DEF Renewal
<1>3. CASE returned' = <<>>
  BY <1>1, <1>2, <1>3 DEF Renewal, Renewed
<1>4. CASE returned' = returned
  BY <1>2, <1>4 DEF Renewal, Renewed
<1> QED
  BY <1>3, <1>4

\* The bytes that an answer adds.
LEMMA MoreIs ==
    ASSUME NEW m \in Nat, NEW n \in Nat
    PROVE  /\ [i \in 1..n |-> m + i] \in Seq(Nat)
           /\ Len([i \in 1..n |-> m + i]) = n
           /\ \A i \in 1..n : [j \in 1..n |-> m + j][i] = m + i
<1>1. \A i \in 1..n : m + i \in Nat
  OBVIOUS
<1>2. [i \in 1..n |-> m + i] \in [1..n -> Nat]
  BY <1>1
<1> DEFINE f == [i \in 1..n |-> m + i]
<1>3. \A i \in 1..n : f[i] = m + i
  OBVIOUS
<1>4. f \in [1..n -> Nat]
  BY <1>2
<1> HIDE DEF f
<1>5. f \in Seq(Nat) /\ Len(f) = n
  BY <1>4
<1> QED
  BY <1>3, <1>5 DEF f

LEMMA AnswerStream ==
    ASSUME Types, Stream, NEW n \in 1..(MaxBytes - sent), Answer(n) PROVE Stream'
<1>1. PICK k \in Nat : Read(k)
  BY DEF Stream
<1> DEFINE more == [i \in 1..n |-> sent + i]
<1>2. n \in Nat /\ sent \in Nat /\ Len(arrived) \in Nat /\ k + Len(arrived) = sent
  BY <1>1, SignupAssumption DEF Types, Read, Answer
<1>3. more \in Seq(Nat) /\ Len(more) = n /\ \A i \in 1..n : more[i] = sent + i
  BY <1>2, MoreIs
<1>4. arrived' = arrived \o more /\ sent' = sent + n
  BY DEF Answer
<1>5. /\ Len(arrived') = Len(arrived) + n
      /\ \A i \in 1..Len(arrived) : arrived'[i] = arrived[i]
      /\ \A i \in 1..n : arrived'[Len(arrived) + i] = sent + i
  <2> HIDE DEF more
  <2>1. arrived \in Seq(Nat)
    BY DEF Types
  <2>2. /\ Len(arrived \o more) = Len(arrived) + Len(more)
        /\ \A i \in 1..Len(arrived) : (arrived \o more)[i] = arrived[i]
        /\ \A i \in 1..Len(more) : (arrived \o more)[Len(arrived) + i] = more[i]
    BY <1>3, <2>1, Joined
  <2> QED
    BY <1>3, <1>4, <2>2
<1>6. ASSUME NEW i \in 1..Len(arrived') PROVE arrived'[i] = k + i
  <2>1. CASE i <= Len(arrived)
    <3>1. i \in 1..Len(arrived)
      BY <1>2, <2>1
    <3> QED
      BY <1>1, <1>5, <3>1 DEF Read
  <2>2. CASE i > Len(arrived)
    <3>1. i - Len(arrived) \in 1..n /\ Len(arrived) + (i - Len(arrived)) = i
      BY <1>2, <1>5, <2>2
    <3>2. arrived'[i] = sent + (i - Len(arrived))
      BY <1>5, <3>1
    <3> QED
      BY <1>2, <3>1, <3>2
  <2> QED
    BY <1>2, <2>1, <2>2
<1>7. k + Len(arrived') = sent'
  BY <1>2, <1>4, <1>5
<1>8. Read(k)'
  BY <1>1, <1>6, <1>7 DEF Read, Complete, Answer
<1> QED
  BY <1>8 DEF Stream

\* A broken connection, and one that is closed.
LEMMA BreaksStream == ASSUME Types, Stream, Close \/ Reset PROVE Stream'
<1>1. PICK k \in Nat : Read(k)
  BY DEF Stream
<1>2. CASE Close
  <2>1. Read(k)'
    BY <1>1, <1>2 DEF Read, Complete, Close
  <2> QED
    BY <2>1 DEF Stream
<1>3. CASE Reset
  <2>1. PICK n \in 0..Len(arrived) : arrived' = SubSeq(arrived, 1, n)
    BY <1>3 DEF Reset
  <2>2. Len(arrived') = n /\ \A i \in 1..n : arrived'[i] = arrived[i] /\ i \in 1..Len(arrived)
    BY <2>1 DEF Types
  <2>3. \A i \in 1..Len(arrived') : arrived'[i] = k + i
    BY <1>1, <2>2 DEF Read
  <2>4. Read(k)'
    BY <1>1, <1>3, <2>3 DEF Read, Complete, Reset
  <2> QED
    BY <2>4 DEF Stream
<1> QED
  BY <1>2, <1>3

-----------------------------------------------------------------------------
LEMMA Empty == <<>> \in Seq(Nat)
OBVIOUS

LEMMA Cut ==
    ASSUME NEW s \in Seq(Nat), NEW n \in 0..Len(s) PROVE SubSeq(s, 1, n) \in Seq(Nat)
OBVIOUS

LEMMA AnswerTypes ==
    ASSUME NEW m \in Nat, NEW n \in 1..(MaxBytes - m), NEW s \in Seq(Nat)
    PROVE  s \o [i \in 1..n |-> m + i] \in Seq(Nat) /\ m + n \in Nat
<1>1. n \in Nat
  BY SignupAssumption
<1>2. [i \in 1..n |-> m + i] \in Seq(Nat)
  BY <1>1, MoreIs
<1> DEFINE f == [i \in 1..n |-> m + i]
<1>3. f \in Seq(Nat)
  BY <1>2
<1> HIDE DEF f
<1>4. s \o f \in Seq(Nat)
  BY <1>3, Joined
<1> QED
  BY <1>1, <1>4 DEF f

LEMMA Step == IInv /\ [Next]_vars => IInv'
<1> SUFFICES ASSUME Types, Stream, Renewal, Silent, Ending, [Next]_vars PROVE IInv'
  BY DEF IInv
<1>0. Renewal'
  <2>1. CASE Receive
    BY <2>1, ReceiveRenewal
  <2>2. CASE ~Receive
    <3>1. returned' \in {returned, <<>>} /\ buffer' \in {buffer, <<>>}
      BY <2>2 DEF Next, Steps, vars, Connect, WriteBuffer, Select, SelectFails, EndOfInput, ReadFails,
         Interrupted, Answer, Close, Reset
    <3> QED
      BY <3>1, OtherRenewal
  <2> QED
    BY <2>1, <2>2
<1> USE DEF Types, Silent, Ending, Ends
<1>1. CASE Connect
  <2>1. Stream'
    BY <1>1, Fresh DEF Connect
  <2>2. Types'
    <3>1. pc' \in {"idle", "write", "select", "recv"} /\ conn' \in {"open", "closed", "reset"}
      BY <1>1 DEF Connect
    <3>2. buffer' = <<>> /\ returned' = <<>> /\ arrived' = <<>> /\ sent' = 0 /\ signals' = 0
      BY <1>1 DEF Connect
    <3> QED
      BY <3>1, <3>2, Empty
  <2>3. Silent' /\ Ending'
    BY <1>1 DEF Connect
  <2> QED
    BY <1>0, <2>1, <2>2, <2>3 DEF IInv
<1>2. CASE WriteBuffer
  <2>1. Stream'
    BY <1>2, Quiet DEF WriteBuffer
  <2>2. Types' /\ Silent' /\ Ending'
    BY <1>2 DEF WriteBuffer
  <2> QED
    BY <1>0, <2>1, <2>2 DEF IInv
<1>3. CASE Select
  <2>1. Stream'
    BY <1>3, Quiet DEF Select
  <2>2. Types' /\ Silent' /\ Ending'
    BY <1>3 DEF Select, Readable
  <2> QED
    BY <1>0, <2>1, <2>2 DEF IInv
<1>4. CASE SelectFails
  <2>1. Stream'
    BY <1>4, Quiet DEF SelectFails
  <2>2. Types' /\ Silent' /\ Ending'
    BY <1>4 DEF SelectFails
  <2> QED
    BY <1>0, <2>1, <2>2 DEF IInv
<1>5. CASE Receive
  <2>1. Stream'
    BY <1>5, ReceiveStream
  <2>2. buffer' \in Seq(Nat) /\ returned' \in Seq(Nat) /\ arrived' \in Seq(Nat)
    <3>1. Piece \in 0..Len(arrived) /\ Written \in Seq(Nat)
      BY PieceIs
    <3> QED
      BY <1>5, <3>1 DEF Receive
  <2>3. Types' /\ Silent' /\ Ending'
    BY <1>5, <2>2 DEF Receive
  <2> QED
    BY <1>0, <2>1, <2>3 DEF IInv
<1>6. CASE EndOfInput
  <2>1. Stream'
    BY <1>6, Quiet DEF EndOfInput
  <2>2. Types' /\ Silent' /\ Ending'
    BY <1>6 DEF EndOfInput
  <2> QED
    BY <1>0, <2>1, <2>2 DEF IInv
<1>7. CASE ReadFails
  <2>1. Stream'
    BY <1>7, Quiet DEF ReadFails
  <2>2. Types' /\ Silent' /\ Ending'
    BY <1>7 DEF ReadFails
  <2> QED
    BY <1>0, <2>1, <2>2 DEF IInv
<1>8. CASE Interrupted
  <2>1. Stream'
    BY <1>8, Quiet DEF Interrupted
  <2>2. Types' /\ Silent' /\ Ending'
    BY <1>8 DEF Interrupted
  <2> QED
    BY <1>0, <2>1, <2>2 DEF IInv
<1>9. ASSUME NEW n \in 1..(MaxBytes - sent), Answer(n) PROVE IInv'
  <2>1. Stream'
    BY <1>9, AnswerStream
  <2>2. sent \in Nat /\ arrived \in Seq(Nat)
    OBVIOUS
  <2>3. arrived' \in Seq(Nat) /\ sent' \in Nat
    BY <1>9, <2>2, AnswerTypes DEF Answer
  <2>4. Types' /\ Silent' /\ Ending'
    BY <1>9, <2>3 DEF Answer
  <2> QED
    BY <1>0, <2>1, <2>4 DEF IInv
<1>10. CASE Close
  <2>1. Stream'
    BY <1>10, BreaksStream
  <2>2. Types' /\ Silent' /\ Ending'
    BY <1>10 DEF Close
  <2> QED
    BY <1>0, <2>1, <2>2 DEF IInv
<1>11. CASE Reset
  <2>1. Stream'
    BY <1>11, BreaksStream
  <2>2. arrived' \in Seq(Nat)
    <3>1. PICK n \in 0..Len(arrived) : arrived' = SubSeq(arrived, 1, n)
      BY <1>11 DEF Reset
    <3>2. SubSeq(arrived, 1, n) \in Seq(Nat)
      BY Cut
    <3> QED
      BY <3>1, <3>2
  <2>3. Types' /\ Silent' /\ Ending'
    BY <1>11, <2>2 DEF Reset
  <2> QED
    BY <1>0, <2>1, <2>3 DEF IInv
<1>12. CASE UNCHANGED vars
  <2>1. Stream'
    BY <1>12, Quiet DEF vars
  <2>2. Types' /\ Silent' /\ Ending'
    BY <1>12 DEF vars
  <2> QED
    BY <1>0, <2>1, <2>2 DEF IInv
<1> QED
  BY <1>1, <1>2, <1>3, <1>4, <1>5, <1>6, <1>7, <1>8, <1>9, <1>10, <1>11, <1>12 DEF Next, Steps

\* The inductive invariant of SignupClient.
THEOREM Invariant == Spec => []IInv
BY Initially, Step, PTL DEF Spec

\* What tcp_Client::Read_buffer has put together, and the code it ends with,
\* agree with what came over the connection, for buffers and answers of any
\* length and any number of signals.
THEOREM EndingTells == Spec => []EndingIsTrue
<1>1. IInv => EndingIsTrue
  <2> SUFFICES ASSUME IInv PROVE EndingIsTrue
    OBVIOUS
  <2>1. PICK k \in Nat : Read(k)
    BY DEF IInv, Stream
  <2>2. /\ DOMAIN returned = 1..Len(returned)
        /\ Len(arrived) \in Nat /\ sent \in Nat
    BY DEF IInv, Types
  <2>3. conn # "reset" => sent - Len(arrived) = k
    BY <2>1, <2>2 DEF Read
  <2>4. conn # "reset" => {returned[i] : i \in DOMAIN returned} = 1..(sent - Len(arrived))
    <3>1. \A i \in 1..Len(returned) : returned[i] \in 1..k
      BY <2>1 DEF Read, Complete
    <3>2. \A b \in 1..k : \E i \in 1..Len(returned) : returned[i] = b
      BY <2>1 DEF Read, Complete
    <3>3. {returned[i] : i \in 1..Len(returned)} = 1..k
      BY <3>1, <3>2
    <3> QED
      BY <2>2, <2>3, <3>3
  <2>5. \A i \in DOMAIN returned : \A b \in 1..returned[i] : \E j \in 1..i : returned[j] = b
    BY <2>1, <2>2 DEF Read, Complete
  <2>6. arrived = <<>> => sent - Len(arrived) = sent
    BY <2>2
  <2>7. pc = "idle" =>
          /\ rc = "NoMoreInput" => conn = "closed" /\ sent - Len(arrived) = sent
          /\ rc = "ServerTimedOut" => returned = <<>> \/ signals > 0
          /\ rc = "IOReadFailed" => conn = "reset"
          /\ rc \in {"can not connect", "can not write"} => returned = <<>>
    BY <2>6 DEF IInv, Ending
  <2> QED
    BY <2>4, <2>5, <2>7 DEF EndingIsTrue, IInv, Renewal, Renewed
<1> QED
  BY <1>1, Invariant, PTL
=============================================================================
