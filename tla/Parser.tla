------------------------------- MODULE Parser -------------------------------
(***************************************************************************)
(* A parser of parser/ (c_Parser, c_ParserFixedLength, c_ParserDelimited): *)
(* its columns are defined one by one, then it takes records apart.  The   *)
(* flags m_protect_field_name and m_reject_overlaps are true here: every   *)
(* parser the program makes has them true, only unit tests clear them.     *)
(***************************************************************************)
EXTENDS Integers, Sequences, FiniteSets

Classes == {"simple_delimited", "simple_fixed"}

Column == [name : STRING, position : Int, first : Int, last : Int]

\* A record, as far as parsing it goes: its length, and for each of the fields
\* between its delimiters whether there is anything in it.
Record == [size : Nat, fields : Seq(BOOLEAN)]

NewParser(class) == [class |-> class, columns |-> <<>>, error |-> "none"]

Malformed(p, cd) ==
    \/ cd.name = ""
    \/ p.class = "simple_delimited" /\ cd.position <= 0
    \/ p.class = "simple_fixed" /\ (cd.first <= 0 \/ cd.first > cd.last)

\* A plausible slip: the new end tested twice, and the new start not at all.
EndsOnly(p, cd) ==
    \E i \in DOMAIN p.columns : LET d == p.columns[i] IN
        \/ d.name = cd.name
        \/ p.class = "simple_fixed" /\ cd.last \in d.first..d.last

\* A plausible slip: names not compared.
ColumnsOnly(p, cd) ==
    \E i \in DOMAIN p.columns : LET d == p.columns[i] IN
        p.class = "simple_fixed" /\ (cd.first \in d.first..d.last \/ cd.last \in d.first..d.last)

\* testOverlap.  The test of positions is the `else' of the inner `if', inside
\* the branch of fixed length, and never reached for a delimited parser.
Overlaps(p, cd) ==
    \E i \in DOMAIN p.columns : LET d == p.columns[i] IN
        \/ d.name = cd.name
        \/ p.class = "simple_fixed" /\ (cd.first \in d.first..d.last \/ cd.last \in d.first..d.last)

Accepts(p, cd) == p.error = "none" /\ ~Malformed(p, cd) /\ ~Overlaps(p, cd)

\* defineColumn: an error of before stays what it is.
Define(p, cd) ==
    IF Accepts(p, cd) THEN [p EXCEPT !.columns = Append(@, cd)]
    ELSE IF p.error = "none" THEN [p EXCEPT !.error = "definition"]
    ELSE p

-----------------------------------------------------------------------------
(* parseRecord.                                                            *)

\* The first fields of a record that have anything in them.
Filled(rec, n) == {i \in 1..n : rec.fields[i]}

\* The tokens of a record: the tokenizer skips fields with nothing in them.
Tokens(rec) ==
    LET filled == Filled(rec, Len(rec.fields)) IN
    [k \in 1..Cardinality(filled) |-> CHOOSE i \in filled : Cardinality(Filled(rec, i)) = k]

Fits(p, cd, rec) ==
    IF p.class = "simple_fixed" THEN cd.last <= rec.size ELSE cd.position <= Len(Tokens(rec))

\* What a column has of a record: characters first to last, or a field.
Value(p, cd, rec) ==
    IF p.class = "simple_fixed" THEN <<cd.first, cd.last>> ELSE <<Tokens(rec)[cd.position]>>

Parses(p, rec) ==
    /\ p.class = "simple_fixed" => rec.size > 0
    /\ \A i \in DOMAIN p.columns : Fits(p, p.columns[i], rec)

\* The error of a definition is forgotten as well.
AfterParse(p, rec) == [p EXCEPT !.error = IF Parses(p, rec) THEN "none" ELSE "parse"]

\* The map that a record is parsed into: map::insert keeps a name it has.
Parsed(p, rec) ==
    [n \in {p.columns[i].name : i \in DOMAIN p.columns} |->
        LET Own == {i \in DOMAIN p.columns : p.columns[i].name = n}
            i == CHOOSE i \in Own : \A j \in Own : i <= j
        IN Value(p, p.columns[i], rec)]
=============================================================================
