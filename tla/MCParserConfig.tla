---------------------------- MODULE MCParserConfig ----------------------------
(* Two names, one with a `*'; columns that are disjoint, that overlap at   *)
(* either end, enclose one another, share a position, or are no columns;     *)
(* records with empty fields and short ones.                                 *)
EXTENDS ParserConfig

TwoNames == <<"*", "detail">>
AsCovered == [n \in {"*", "detail"} |-> IF n = "*" THEN {"detail"} ELSE {}]

Col(name, position, first, last) ==
    [name |-> name, position |-> position, first |-> first, last |-> last]

SomeColumns == {Col("a", 1, 2, 3), Col("b", 2, 3, 5), Col("b", 1, 1, 4),
                Col("c", 2, 4, 4), Col("c", 0, 3, 2)}

SomeRecords == {[size |-> 0, fields |-> <<>>], [size |-> 3, fields |-> <<TRUE, TRUE>>],
                [size |-> 5, fields |-> <<TRUE, FALSE, TRUE>>]}
=============================================================================
