-------------------------- MODULE ParserConfigProofs --------------------------
(***************************************************************************)
(* Proofs about ParserConfig, for any columns, names, records and bounds:  *)
(* the columns of a parser can be told apart, the parser a group gave to   *)
(* the factory has the columns of that group, a record that parses has for *)
(* each column what its definition says, and no parser is put together     *)
(* from two groups that have a class each.                                 *)
(***************************************************************************)
EXTENDS ParserConfig, FiniteSetTheorems, WellFoundedInduction, TLAPS

\* What a group can ask to be the parser of.
Asked == States \cup {""}

Parser == [class : Classes, columns : Seq(Column), error : {"none", "definition", "parse"}]

Shape ==
    /\ heap \in Seq(Parser)
    /\ source \in Seq(Seq(Nat)) /\ Len(source) = Len(heap)
    /\ groups \in Seq([state : Asked, known : BOOLEAN])
    /\ current \in 0..Len(heap)
    /\ opened \in 0..Len(groups)
    /\ DOMAIN by = DOMAIN table
    /\ \A s \in DOMAIN table : table[s] \in 1..Len(heap) /\ by[s] \in 1..Len(groups)

\* Every column is a column of some group.
SourceOK ==
    \A o \in 1..Len(heap) :
        /\ Len(source[o]) = Len(heap[o].columns)
        /\ \A k \in 1..Len(source[o]) : source[o][k] \in 1..Len(groups)

\* The current parser is a new one: its columns are those of the last group.
New ==
    /\ current # 0
    /\ heap[current].error = "none"
    /\ \A s \in DOMAIN table : table[s] # current
    /\ \A k \in 1..Len(source[current]) : source[current][k] = Len(groups)

Last == groups[Len(groups)]

\* What is known while a file is read.
Reading ==
    /\ inTarget => pc = "properties"
    /\ (inTarget \/ pc \in {"init", "columns"}) => opened # 0 /\ groups[opened].state = state
    /\ inTarget => opened = Len(groups)
    /\ (inTarget /\ Last.known) => New
    /\ pc \in {"init", "columns"} => Last.known /\ (groups[opened].known => opened = Len(groups))
    /\ pc = "columns" => New

IInv == Shape /\ SourceOK /\ ColumnsSound /\ OwnColumns /\ Reading

-----------------------------------------------------------------------------

\* defineColumn keeps a parser's columns apart: of two that overlap, the later
\* has both ends outside the earlier.
LEMMA DefineSound ==
    ASSUME NEW p \in Parser, NEW cd \in Column,
           \A i, j \in DOMAIN p.columns : i < j =>
              /\ p.columns[i].name # p.columns[j].name
              /\ p.class = "simple_fixed" =>
                  \/ p.columns[j].last < p.columns[i].first
                  \/ p.columns[i].last < p.columns[j].first
                  \/ /\ p.columns[j].first < p.columns[i].first
                     /\ p.columns[i].last < p.columns[j].last
    PROVE  LET c == Define(p, cd).columns IN
           \A i, j \in DOMAIN c : i < j =>
              /\ c[i].name # c[j].name
              /\ p.class = "simple_fixed" =>
                  \/ c[j].last < c[i].first
                  \/ c[i].last < c[j].first
                  \/ c[j].first < c[i].first /\ c[i].last < c[j].last
<1>1. CASE ~Accepts(p, cd)
  BY <1>1 DEF Define, Parser
<1>2. CASE Accepts(p, cd)
  <2> DEFINE c == Append(p.columns, cd)
  <2>1. Define(p, cd).columns = c
    BY <1>2 DEF Define, Parser
  <2>2. /\ p.columns \in Seq(Column) /\ Len(c) = Len(p.columns) + 1
        /\ \A i \in 1..Len(p.columns) : c[i] = p.columns[i] /\ c[i] \in Column
        /\ c[Len(c)] = cd
    BY DEF Parser
  <2> HIDE DEF c
  <2>3. ASSUME NEW i \in 1..Len(p.columns)
        PROVE  /\ c[i].name # cd.name
               /\ p.class = "simple_fixed" =>
                   \/ cd.last < c[i].first \/ c[i].last < cd.first
                   \/ cd.first < c[i].first /\ c[i].last < cd.last
    <3>1. /\ p.columns[i].name # cd.name
          /\ p.class = "simple_fixed" =>
                 /\ cd.first \notin p.columns[i].first..p.columns[i].last
                 /\ cd.last \notin p.columns[i].first..p.columns[i].last
                 /\ cd.first <= cd.last
      <4>1. i \in DOMAIN p.columns
        BY <2>2
      <4>2. ~Overlaps(p, cd) /\ ~Malformed(p, cd)
        BY <1>2 DEF Accepts
      <4>3. /\ p.columns[i].name # cd.name
            /\ p.class = "simple_fixed" =>
                   /\ cd.first \notin p.columns[i].first..p.columns[i].last
                   /\ cd.last \notin p.columns[i].first..p.columns[i].last
        BY <4>1, <4>2 DEF Overlaps
      <4>4. p.class = "simple_fixed" => cd.first <= cd.last
        <5>1. cd.first \in Int /\ cd.last \in Int
          BY DEF Column
        <5>2. p.class = "simple_fixed" => ~(cd.first > cd.last)
          BY <4>2, Zenon DEF Malformed
        <5> QED
          BY <5>1, <5>2
      <4> QED
        BY <4>3, <4>4
    <3>2. c[i] = p.columns[i] /\ c[i].first \in Int /\ c[i].last \in Int
      BY <2>2 DEF Column
    <3>3. cd.first \in Int /\ cd.last \in Int
      BY DEF Column
    <3> QED
      BY <3>1, <3>2, <3>3
  <2>4. ASSUME NEW i \in 1..Len(c), NEW j \in 1..Len(c), i < j
        PROVE  /\ c[i].name # c[j].name
               /\ p.class = "simple_fixed" =>
                   \/ c[j].last < c[i].first
                   \/ c[i].last < c[j].first
                   \/ c[j].first < c[i].first /\ c[i].last < c[j].last
    <3>0. Len(p.columns) \in Nat
      BY <2>2
    <3>1. CASE j = Len(c)
      <4>1. i \in 1..Len(p.columns)
        BY <2>2, <2>4, <3>0, <3>1
      <4>2. c[j] = cd
        BY <2>2, <3>1
      <4> QED
        BY <2>3, <4>1, <4>2
    <3>2. CASE j # Len(c)
      <4>1. /\ i \in 1..Len(p.columns) /\ j \in 1..Len(p.columns)
            /\ i \in DOMAIN p.columns /\ j \in DOMAIN p.columns
        BY <2>2, <2>4, <3>0, <3>2
      <4>2. c[i] = p.columns[i] /\ c[j] = p.columns[j]
        BY <2>2, <4>1
      <4> QED
        BY <2>4, <4>1, <4>2
    <3> QED
      BY <3>1, <3>2
  <2>5. DOMAIN c = 1..Len(c)
    BY <2>2 DEF c
  <2> QED
    BY <2>1, <2>4, <2>5
<1> QED
  BY <1>1, <1>2

\* What a definition does to the parsers and to where their columns are from.
LEMMA TryDoes ==
    ASSUME Shape, SourceOK, NEW cd \in Column, current # 0, Try(cd)
    PROVE  /\ heap' \in Seq(Parser) /\ source' \in Seq(Seq(Nat))
           /\ Len(heap') = Len(heap) /\ Len(source') = Len(heap)
           /\ \A o \in 1..Len(heap) : o # current => heap'[o] = heap[o] /\ source'[o] = source[o]
           /\ heap'[current] = Define(heap[current], cd)
           /\ IF Accepts(heap[current], cd)
              THEN /\ heap'[current].columns = Append(heap[current].columns, cd)
                   /\ heap'[current].error = "none"
                   /\ source'[current] = Append(source[current], Len(groups))
              ELSE /\ heap'[current].columns = heap[current].columns
                   /\ source' = source
<1>1. current \in 1..Len(heap) /\ heap[current] \in Parser /\ source[current] \in Seq(Nat)
  BY DEF Shape
<1>2. heap[current].columns \in Seq(Column)
  BY <1>1 DEF Parser
<1>3. Define(heap[current], cd) \in Parser
  <2> DEFINE p == heap[current]
  <2>1. Append(p.columns, cd) \in Seq(Column)
    BY <1>2
  <2>2. [p EXCEPT !.columns = Append(p.columns, cd)] \in Parser
    BY <1>1, <2>1 DEF Parser
  <2>3. [p EXCEPT !.error = "definition"] \in Parser
    BY <1>1 DEF Parser
  <2> QED
    BY <1>1, <2>2, <2>3 DEF Define
<1>4. heap' = [heap EXCEPT ![current] = Define(heap[current], cd)]
  BY DEF Try
<1>5. /\ heap' \in Seq(Parser) /\ Len(heap') = Len(heap)
      /\ heap'[current] = Define(heap[current], cd)
      /\ \A o \in 1..Len(heap) : o # current => heap'[o] = heap[o]
  BY <1>1, <1>3, <1>4 DEF Shape
<1>6. CASE Accepts(heap[current], cd)
  <2>1. source' = [source EXCEPT ![current] = Append(source[current], Len(groups))]
    BY <1>6 DEF Try
  <2>2. Append(source[current], Len(groups)) \in Seq(Nat)
    BY <1>1 DEF Shape
  <2>3. /\ source' \in Seq(Seq(Nat)) /\ Len(source') = Len(heap)
        /\ source'[current] = Append(source[current], Len(groups))
        /\ \A o \in 1..Len(heap) : o # current => source'[o] = source[o]
    BY <1>1, <2>1, <2>2 DEF Shape
  <2>4. /\ heap'[current].columns = Append(heap[current].columns, cd)
        /\ heap'[current].error = "none"
    BY <1>1, <1>5, <1>6 DEF Define, Accepts, Parser
  <2> QED
    BY <1>5, <1>6, <2>3, <2>4
<1>7. CASE ~Accepts(heap[current], cd)
  <2>1. source' = source
    BY <1>7 DEF Try
  <2>2. heap'[current].columns = heap[current].columns
    BY <1>1, <1>5, <1>7 DEF Define, Parser
  <2> QED
    BY <1>5, <1>7, <2>1, <2>2 DEF Shape
<1> QED
  BY <1>6, <1>7

-----------------------------------------------------------------------------

LEMMA Initially == Init => IInv
<1> SUFFICES ASSUME Init PROVE IInv
  OBVIOUS
<1>1. /\ DOMAIN heap = {} /\ DOMAIN table = {} /\ DOMAIN by = {}
      /\ Len(heap) = 0 /\ Len(source) = 0 /\ Len(groups) = 0
      /\ heap \in Seq(Parser) /\ source \in Seq(Seq(Nat))
      /\ groups \in Seq([state : Asked, known : BOOLEAN])
  <2>1. heap = <<>> /\ source = <<>> /\ groups = <<>> /\ table = <<>> /\ by = <<>>
    BY DEF Init
  <2> QED
    BY <2>1
<1>2. current = 0 /\ opened = 0 /\ inTarget = FALSE /\ pc = "idle"
  BY DEF Init
<1>3. Shape
  BY <1>1, <1>2 DEF Shape
<1>4. SourceOK
  BY <1>1 DEF SourceOK
<1>5. ColumnsSound
  BY <1>1 DEF ColumnsSound, Objects
<1>6. OwnColumns
  BY <1>1 DEF OwnColumns
<1>7. Reading
  BY <1>2 DEF Reading
<1> QED
  BY <1>3, <1>4, <1>5, <1>6, <1>7 DEF IInv

\* The parsers are as they were.
LEMMA SameColumns ==
    ASSUME ColumnsSound, heap' = heap PROVE ColumnsSound'
  BY DEF ColumnsSound, Objects

\* A parser more is one without columns.
LEMMA MakeSound ==
    ASSUME Shape, SourceOK, ColumnsSound, NEW class \in Classes, Make(class)
    PROVE  /\ heap' \in Seq(Parser) /\ source' \in Seq(Seq(Nat))
           /\ Len(heap') = Len(heap) + 1 /\ Len(source') = Len(heap) + 1
           /\ current' = Len(heap) + 1
           /\ \A o \in 1..Len(heap) : heap'[o] = heap[o] /\ source'[o] = source[o]
           /\ heap'[current'].columns = <<>> /\ heap'[current'].error = "none"
           /\ source'[current'] = <<>>
           /\ ColumnsSound'
<1>1. NewParser(class) \in Parser
  BY DEF NewParser, Parser
<1>2. /\ heap' = Append(heap, NewParser(class)) /\ source' = Append(source, <<>>)
      /\ current' = Len(heap) + 1
  BY DEF Make
<1>3. /\ heap' \in Seq(Parser) /\ Len(heap') = Len(heap) + 1
      /\ heap'[current'] = NewParser(class)
      /\ \A o \in 1..Len(heap) : heap'[o] = heap[o]
  BY <1>1, <1>2 DEF Shape
<1>4. /\ source' \in Seq(Seq(Nat)) /\ Len(source') = Len(heap) + 1
      /\ source'[current'] = <<>>
      /\ \A o \in 1..Len(heap) : source'[o] = source[o]
  BY <1>2 DEF Shape
<1>5. heap'[current'].columns = <<>> /\ heap'[current'].error = "none"
  BY <1>3 DEF NewParser
<1>6. ColumnsSound'
  <2>1. DOMAIN heap' = 1..(Len(heap) + 1) /\ DOMAIN heap = 1..Len(heap)
    BY <1>3 DEF Shape
  <2>2. ASSUME NEW o \in DOMAIN heap', NEW i \in DOMAIN heap'[o].columns,
               NEW j \in DOMAIN heap'[o].columns
        PROVE  o \in 1..Len(heap) /\ heap'[o] = heap[o]
    BY <1>2, <1>3, <1>5, <2>1, <2>2
  <2> QED
    BY <2>1, <2>2 DEF ColumnsSound, Objects
<1> QED
  BY <1>2, <1>3, <1>4, <1>5, <1>6

\* A column more, or none.
LEMMA TrySound ==
    ASSUME Shape, SourceOK, ColumnsSound, NEW cd \in Column, current # 0, Try(cd)
    PROVE  ColumnsSound'
<1>1. current \in 1..Len(heap) /\ heap[current] \in Parser
  BY DEF Shape
<1>2. /\ heap' \in Seq(Parser) /\ Len(heap') = Len(heap)
      /\ \A o \in 1..Len(heap) : o # current => heap'[o] = heap[o]
      /\ heap'[current] = Define(heap[current], cd)
  BY TryDoes
<1>3. DOMAIN heap' = 1..Len(heap) /\ DOMAIN heap = 1..Len(heap)
  BY <1>2 DEF Shape
<1>4. heap'[current].class = heap[current].class
  BY <1>1, <1>2 DEF Define, Parser
<1> DEFINE Apart(c, class) ==
      \A i, j \in DOMAIN c : i < j =>
        /\ c[i].name # c[j].name
        /\ class = "simple_fixed" =>
              \/ c[j].last < c[i].first
              \/ c[i].last < c[j].first
              \/ c[j].first < c[i].first /\ c[i].last < c[j].last
<1>5. \A o \in 1..Len(heap) : Apart(heap[o].columns, heap[o].class)
  BY <1>3 DEF ColumnsSound, Objects
<1>6. Apart(heap'[current].columns, heap'[current].class)
  BY <1>1, <1>2, <1>4, <1>5, DefineSound
<1>7. \A o \in 1..Len(heap) : Apart(heap'[o].columns, heap'[o].class)
  BY <1>2, <1>5, <1>6
<1> QED
  BY <1>3, <1>7 DEF ColumnsSound, Objects
-----------------------------------------------------------------------------
(* The five ways the parsers, the table and the groups change.             *)

\* They grow: a parser without columns more, a group more, or a group known no
\* longer.
LEMMA Grows ==
    ASSUME Shape, SourceOK, OwnColumns,
           heap' \in Seq(Parser), source' \in Seq(Seq(Nat)),
           Len(heap') >= Len(heap), Len(source') = Len(heap'),
           \A o \in 1..Len(heap) : heap'[o] = heap[o] /\ source'[o] = source[o],
           \A o \in 1..Len(heap') : o > Len(heap) => heap'[o].columns = <<>> /\ source'[o] = <<>>,
           groups' \in Seq([state : Asked, known : BOOLEAN]),
           Len(groups') >= Len(groups),
           \A g \in 1..Len(groups) :
              groups'[g].state = groups[g].state /\ (groups'[g].known => groups[g].known),
           UNCHANGED <<table, by>>,
           current' \in 0..Len(heap'), opened' \in 0..Len(groups')
    PROVE  Shape' /\ SourceOK' /\ OwnColumns'
<1>0. /\ Len(heap) \in Nat /\ Len(heap') \in Nat /\ Len(groups) \in Nat /\ Len(groups') \in Nat
      /\ Len(source) = Len(heap)
      /\ DOMAIN groups = 1..Len(groups) /\ DOMAIN groups' = 1..Len(groups')
  BY DEF Shape
<1>1. Shape'
  BY <1>0 DEF Shape
<1>2. SourceOK'
  <2> SUFFICES ASSUME NEW o \in 1..Len(heap')
               PROVE  /\ Len(source'[o]) = Len(heap'[o].columns)
                      /\ \A k \in 1..Len(source'[o]) : source'[o][k] \in 1..Len(groups')
    BY DEF SourceOK
  <2>1. CASE o \in 1..Len(heap)
    <3>1. heap'[o] = heap[o] /\ source'[o] = source[o]
      BY <2>1
    <3>2. /\ Len(source[o]) = Len(heap[o].columns)
          /\ \A k \in 1..Len(source[o]) : source[o][k] \in 1..Len(groups)
      BY <2>1 DEF SourceOK
    <3>3. ASSUME NEW k \in 1..Len(source[o]) PROVE source[o][k] \in 1..Len(groups')
      <4>1. source[o][k] \in 1..Len(groups)
        BY <3>2
      <4>2. 1..Len(groups) \subseteq 1..Len(groups')
        BY <1>0
      <4> QED
        BY <4>1, <4>2
    <3> QED
      BY <3>1, <3>2, <3>3
  <2>2. CASE o > Len(heap)
    BY <2>2
  <2> QED
    BY <1>0, <2>1, <2>2
<1>3. OwnColumns'
  <2> SUFFICES ASSUME NEW s \in DOMAIN table, groups'[by[s]].known
               PROVE  /\ groups'[by[s]].state = s
                      /\ \A k \in DOMAIN source'[table[s]] :
                            source'[table[s]][k] = by[s] \/ ~groups'[source'[table[s]][k]].known
                      /\ heap'[table[s]].error = "definition" =>
                            \E g \in DOMAIN groups' : g > by[s] /\ ~groups'[g].known
    BY DEF OwnColumns
  <2>1. /\ table[s] \in 1..Len(heap) /\ by[s] \in 1..Len(groups)
        /\ groups[by[s]].known
    BY DEF Shape
  <2>2. heap'[table[s]] = heap[table[s]] /\ source'[table[s]] = source[table[s]]
    BY <2>1
  <2>3. DOMAIN source[table[s]] = 1..Len(source[table[s]])
    <3>1. \A i \in 1..Len(source) : source[i] \in Seq(Nat)
      BY DEF Shape
    <3>2. source[table[s]] \in Seq(Nat)
      BY <1>0, <2>1, <3>1
    <3> QED
      BY <3>2
  <2>4. \A k \in DOMAIN source[table[s]] : source[table[s]][k] \in 1..Len(groups)
    BY <2>1, <2>3 DEF SourceOK
  <2>5. /\ groups[by[s]].state = s
        /\ \A k \in DOMAIN source[table[s]] :
              source[table[s]][k] = by[s] \/ ~groups[source[table[s]][k]].known
        /\ heap[table[s]].error = "definition" =>
              \E g \in DOMAIN groups : g > by[s] /\ ~groups[g].known
    BY <2>1 DEF OwnColumns
  <2>6. groups'[by[s]].state = s
    BY <2>1, <2>5
  <2>7. \A k \in DOMAIN source'[table[s]] :
           source'[table[s]][k] = by[s] \/ ~groups'[source'[table[s]][k]].known
    <3> DEFINE own == source[table[s]]
    <3>1. own = source'[table[s]]
      BY <2>2
    <3>2. /\ \A k \in DOMAIN own : own[k] \in 1..Len(groups)
          /\ \A k \in DOMAIN own : own[k] = by[s] \/ ~groups[own[k]].known
      BY <2>4, <2>5
    <3>3. \A g \in 1..Len(groups) : groups'[g].known => groups[g].known
      OBVIOUS
    <3> HIDE DEF own
    <3>4. \A k \in DOMAIN own : own[k] = by[s] \/ ~groups'[own[k]].known
      BY <3>2, <3>3, Zenon
    <3> QED
      BY <3>1, <3>4
  <2>8. heap'[table[s]].error = "definition" =>
           \E g \in DOMAIN groups' : g > by[s] /\ ~groups'[g].known
    <3> SUFFICES ASSUME heap'[table[s]].error = "definition"
                 PROVE  \E g \in DOMAIN groups' : g > by[s] /\ ~groups'[g].known
      OBVIOUS
    <3>1. PICK g \in DOMAIN groups : g > by[s] /\ ~groups[g].known
      BY <2>2, <2>5
    <3>2. g \in DOMAIN groups' /\ ~groups'[g].known
      BY <1>0, <3>1
    <3> QED
      BY <3>1, <3>2
  <2> QED
    BY <2>6, <2>7, <2>8
<1> QED
  BY <1>1, <1>2, <1>3

\* A column is defined: of a new parser, or by a group of no known class.
LEMMA Defines ==
    ASSUME Shape, SourceOK, OwnColumns, NEW cd \in Column, current # 0, Len(groups) # 0,
           Last.known => New,
           Try(cd), UNCHANGED <<table, groups, opened, by>>, current' \in {0, current}
    PROVE  Shape' /\ SourceOK' /\ OwnColumns'
<1>0. /\ Len(heap) \in Nat /\ Len(groups) \in Nat /\ Len(source) = Len(heap)
      /\ Len(groups) \in 1..Len(groups) /\ current \in 1..Len(heap)
      /\ DOMAIN groups = 1..Len(groups)
  BY DEF Shape
<1> DEFINE kept == Accepts(heap[current], cd)
<1>1. /\ heap' \in Seq(Parser) /\ source' \in Seq(Seq(Nat))
      /\ Len(heap') = Len(heap) /\ Len(source') = Len(heap)
      /\ \A o \in 1..Len(heap) : o # current => heap'[o] = heap[o] /\ source'[o] = source[o]
      /\ kept => /\ heap'[current].columns = Append(heap[current].columns, cd)
                 /\ source'[current] = Append(source[current], Len(groups))
      /\ ~kept => heap'[current].columns = heap[current].columns /\ source' = source
  BY TryDoes
<1>2. Shape'
  <2>1. /\ groups \in Seq([state : Asked, known : BOOLEAN])
        /\ current \in 0..Len(heap) /\ opened \in 0..Len(groups)
        /\ DOMAIN by = DOMAIN table
        /\ \A s \in DOMAIN table : table[s] \in 1..Len(heap) /\ by[s] \in 1..Len(groups)
    BY DEF Shape
  <2>2. current' \in 0..Len(heap)
    BY <1>0, <2>1
  <2> QED
    BY <1>1, <2>1, <2>2, Zenon DEF Shape
<1>3. heap[current].columns \in Seq(Column) /\ source[current] \in Seq(Nat)
  <2>1. heap[current] \in Parser /\ source[current] \in Seq(Nat)
    BY <1>0 DEF Shape
  <2> QED
    BY <2>1 DEF Parser
<1>4. \A k \in DOMAIN source'[current] :
         source'[current][k] = Len(groups) \/ (k \in DOMAIN source[current] /\ source'[current][k] = source[current][k])
  <2>1. CASE kept
    <3>1. source'[current] = Append(source[current], Len(groups))
      BY <1>1, <2>1
    <3> QED
      BY <1>0, <1>3, <3>1
  <2>2. CASE ~kept
    BY <1>1, <2>2
  <2> QED
    BY <2>1, <2>2
<1>5. SourceOK'
  <2> SUFFICES ASSUME NEW o \in 1..Len(heap)
               PROVE  /\ Len(source'[o]) = Len(heap'[o].columns)
                      /\ \A k \in 1..Len(source'[o]) : source'[o][k] \in 1..Len(groups)
    BY <1>1 DEF SourceOK
  <2>1. CASE o # current
    BY <1>1, <2>1 DEF SourceOK
  <2>2. CASE o = current
    <3>1. Len(source[current]) = Len(heap[current].columns)
      BY <1>0 DEF SourceOK
    <3>2. Len(source'[current]) = Len(heap'[current].columns)
      <4>1. CASE kept
        <5>1. /\ source'[current] = Append(source[current], Len(groups))
              /\ heap'[current].columns = Append(heap[current].columns, cd)
          BY <1>1, <4>1
        <5> QED
          BY <1>0, <1>3, <3>1, <5>1
      <4>2. CASE ~kept
        BY <1>1, <3>1, <4>2
      <4> QED
        BY <4>1, <4>2
    <3>3. \A k \in DOMAIN source[current] : source[current][k] \in 1..Len(groups)
      BY <1>0, <1>3 DEF SourceOK
    <3>4. DOMAIN source'[current] = 1..Len(source'[current])
      BY <1>0, <1>1
    <3> QED
      BY <1>0, <1>4, <2>2, <3>2, <3>3, <3>4
  <2> QED
    BY <2>1, <2>2
<1>6. OwnColumns'
  <2> SUFFICES ASSUME NEW s \in DOMAIN table, groups[by[s]].known
               PROVE  /\ groups[by[s]].state = s
                      /\ \A k \in DOMAIN source'[table[s]] :
                            source'[table[s]][k] = by[s] \/ ~groups[source'[table[s]][k]].known
                      /\ heap'[table[s]].error = "definition" =>
                            \E g \in DOMAIN groups : g > by[s] /\ ~groups[g].known
    BY DEF OwnColumns
  <2>1. table[s] \in 1..Len(heap) /\ by[s] \in 1..Len(groups)
    BY DEF Shape
  <2>2. /\ groups[by[s]].state = s
        /\ \A k \in DOMAIN source[table[s]] :
              source[table[s]][k] = by[s] \/ ~groups[source[table[s]][k]].known
        /\ heap[table[s]].error = "definition" =>
              \E g \in DOMAIN groups : g > by[s] /\ ~groups[g].known
    BY DEF OwnColumns
  <2>3. CASE table[s] # current
    BY <1>1, <2>1, <2>2, <2>3
  <2>4. CASE table[s] = current
    <3>1. ~Last.known
      BY <2>4 DEF New
    <3>2. ~groups[Len(groups)].known
      BY <3>1 DEF Last
    <3>3. by[s] < Len(groups)
      BY <1>0, <2>1, <3>2
    <3> QED
      BY <1>0, <1>4, <2>2, <2>4, <3>2, <3>3
  <2> QED
    BY <2>3, <2>4
<1> QED
  BY <1>2, <1>5, <1>6

\* A parser comes into the table: a new one, or one a group of no known class
\* or without a class of its own has found.
LEMMA Inserts ==
    ASSUME Shape, SourceOK, OwnColumns, current # 0, opened # 0,
           groups[opened].state = state,
           groups[opened].known => New /\ opened = Len(groups),
           Insert(state), UNCHANGED <<heap, groups, opened, source>>, current' \in {0, current}
    PROVE  Shape' /\ SourceOK' /\ OwnColumns'
<1>0. /\ Len(heap) \in Nat /\ current \in 1..Len(heap) /\ opened \in 1..Len(groups)
      /\ source[current] \in Seq(Nat) /\ DOMAIN by = DOMAIN table
  BY DEF Shape
<1>1. SourceOK'
  BY DEF SourceOK
<1>2. CASE state \in DOMAIN table
  <2>1. UNCHANGED <<table, by>>
    BY <1>2 DEF Insert
  <2> QED
    BY <1>0, <1>1, <2>1 DEF Shape, OwnColumns
<1>3. CASE state \notin DOMAIN table
  <2>1. /\ DOMAIN table' = DOMAIN table \cup {state} /\ DOMAIN by' = DOMAIN table'
        /\ table'[state] = current /\ by'[state] = opened
        /\ \A s \in DOMAIN table : table'[s] = table[s] /\ by'[s] = by[s]
    BY <1>0, <1>3 DEF Insert
  <2>2. Shape'
    BY <1>0, <2>1 DEF Shape
  <2>3. OwnColumns'
    <3> SUFFICES ASSUME NEW s \in DOMAIN table', groups[by'[s]].known
                 PROVE  /\ groups[by'[s]].state = s
                        /\ \A k \in DOMAIN source[table'[s]] :
                              source[table'[s]][k] = by'[s] \/ ~groups[source[table'[s]][k]].known
                        /\ heap[table'[s]].error = "definition" =>
                              \E g \in DOMAIN groups : g > by'[s] /\ ~groups[g].known
      BY DEF OwnColumns
    <3>1. CASE s = state
      <4>1. New /\ opened = Len(groups)
        BY <2>1, <3>1
      <4>2. DOMAIN source[current] = 1..Len(source[current])
        BY <1>0
      <4> QED
        BY <2>1, <3>1, <4>1, <4>2 DEF New
    <3>2. CASE s # state
      BY <2>1, <3>2 DEF OwnColumns
    <3> QED
      BY <3>1, <3>2
  <2> QED
    BY <1>1, <2>2, <2>3
<1> QED
  BY <1>2, <1>3

\* A record is parsed: only the error of the parser changes.
LEMMA ParsesOnly ==
    ASSUME IInv, NEW s \in States, NEW rec \in Records, ParseRecord(s, rec)
    PROVE  Shape' /\ SourceOK' /\ ColumnsSound' /\ OwnColumns'
<1> DEFINE o == LookUp(s)
<1>0. Shape /\ SourceOK /\ ColumnsSound /\ OwnColumns
  BY DEF IInv
<1>1. heap' = [heap EXCEPT ![o] = AfterParse(heap[o], rec)]
  BY DEF ParseRecord
<1> HIDE DEF o
<1>2. UNCHANGED <<table, current, groups, opened, source, by>>
  BY DEF ParseRecord
<1>3. DOMAIN heap = 1..Len(heap)
  BY <1>0 DEF Shape
<1>a. DOMAIN heap' = 1..Len(heap)
  BY <1>1, <1>3
<1>4. ASSUME NEW x \in 1..Len(heap)
      PROVE  /\ heap'[x] \in Parser
             /\ heap'[x].columns = heap[x].columns
             /\ heap'[x].class = heap[x].class
             /\ heap'[x].error = "definition" => heap[x].error = "definition"
  <2>1. heap[x] \in Parser
    BY <1>0 DEF Shape
  <2>2. heap'[x] = heap[x] \/ heap'[x] = AfterParse(heap[x], rec)
    BY <1>1, <1>3
  <2>3. /\ AfterParse(heap[x], rec) \in Parser
        /\ AfterParse(heap[x], rec).columns = heap[x].columns
        /\ AfterParse(heap[x], rec).class = heap[x].class
        /\ AfterParse(heap[x], rec).error # "definition"
    BY <2>1 DEF AfterParse, Parser
  <2> QED
    BY <2>1, <2>2, <2>3
<1>5. heap' \in Seq(Parser) /\ Len(heap') = Len(heap)
  <2>1. heap' \in [1..Len(heap) -> Parser]
    <3>1. heap' = [x \in 1..Len(heap) |-> heap'[x]]
      BY <1>1, <1>3
    <3> QED
      BY <1>4, <3>1, Zenon
  <2>2. Len(heap) \in Nat
    BY <1>0 DEF Shape
  <2>3. heap' \in Seq(Parser)
    BY <2>1, <2>2
  <2> QED
    BY <1>a, <2>2, <2>3
<1>6. Shape'
  BY <1>0, <1>2, <1>5 DEF Shape
<1>7. SourceOK'
  <2> SUFFICES ASSUME NEW x \in 1..Len(heap)
               PROVE  /\ Len(source[x]) = Len(heap'[x].columns)
                      /\ \A k \in 1..Len(source[x]) : source[x][k] \in 1..Len(groups)
    BY <1>2, <1>5 DEF SourceOK
  <2>1. heap'[x].columns = heap[x].columns
    BY <1>4
  <2> QED
    BY <1>0, <2>1 DEF SourceOK
<1>8. ColumnsSound'
  <2> SUFFICES ASSUME NEW x \in DOMAIN heap', NEW i \in DOMAIN heap'[x].columns,
                      NEW j \in DOMAIN heap'[x].columns, i < j
               PROVE  LET c == heap'[x].columns IN
                      /\ c[i].name # c[j].name
                      /\ heap'[x].class = "simple_fixed" =>
                            \/ c[j].last < c[i].first \/ c[i].last < c[j].first
                            \/ c[j].first < c[i].first /\ c[i].last < c[j].last
    BY DEF ColumnsSound, Objects
  <2>1. x \in DOMAIN heap /\ heap'[x].columns = heap[x].columns /\ heap'[x].class = heap[x].class
    BY <1>3, <1>a, <1>4
  <2> QED
    BY <1>0, <2>1 DEF ColumnsSound, Objects
<1>9. OwnColumns'
  <2> SUFFICES ASSUME NEW t \in DOMAIN table, groups[by[t]].known
               PROVE  /\ groups[by[t]].state = t
                      /\ \A k \in DOMAIN source[table[t]] :
                            source[table[t]][k] = by[t] \/ ~groups[source[table[t]][k]].known
                      /\ heap'[table[t]].error = "definition" =>
                            \E g \in DOMAIN groups : g > by[t] /\ ~groups[g].known
    BY <1>2 DEF OwnColumns
  <2>1. table[t] \in 1..Len(heap)
    BY <1>0 DEF Shape
  <2>2. heap'[table[t]].error = "definition" => heap[table[t]].error = "definition"
    BY <1>4, <2>1
  <2> QED
    BY <1>0, <2>2 DEF OwnColumns
<1> QED
  BY <1>6, <1>7, <1>8, <1>9
-----------------------------------------------------------------------------
(* One step.                                                               *)

\* Nothing but where reading has got to changes.
LEMMA Quiet ==
    ASSUME IInv, UNCHANGED <<heap, table, groups, opened, source, by>>, current' \in {0, current},
           Reading'
    PROVE  IInv'
<1>1. Shape' /\ SourceOK' /\ OwnColumns'
  BY Grows DEF IInv, Shape
<1>2. ColumnsSound'
  BY SameColumns DEF IInv
<1> QED
  BY <1>1, <1>2 DEF IInv

\* After Stop nothing is known, and nothing has to be.
LEMMA Stopped == ASSUME Stop PROVE Reading' /\ current' = 0
  BY DEF Stop, Reading

\* A parser just made is new.
LEMMA MadeNew ==
    ASSUME Shape, SourceOK, ColumnsSound, NEW class \in Classes, Make(class), UNCHANGED table
    PROVE  New'
<1>1. /\ current' = Len(heap) + 1 /\ heap'[current'].error = "none" /\ source'[current'] = <<>>
  BY MakeSound
<1>2. Len(heap) \in Nat /\ \A s \in DOMAIN table : table[s] \in 1..Len(heap)
  BY DEF Shape
<1>3. current' # 0 /\ \A s \in DOMAIN table' : table'[s] # current'
  BY <1>1, <1>2
<1>4. \A k \in 1..Len(source'[current']) : source'[current'][k] = Len(groups')
  BY <1>1
<1> QED
  BY <1>1, <1>3, <1>4 DEF New

\* A new parser that accepts a column stays new.
LEMMA TriedNew ==
    ASSUME Shape, SourceOK, New, NEW cd \in Column, Try(cd), Accepts(heap[current], cd),
           UNCHANGED <<table, groups, current>>
    PROVE  New'
<1>1. /\ current # 0 /\ \A s \in DOMAIN table : table[s] # current
      /\ \A k \in 1..Len(source[current]) : source[current][k] = Len(groups)
  BY DEF New
<1>2. heap'[current].error = "none" /\ source'[current] = Append(source[current], Len(groups))
  BY <1>1, TryDoes
<1>3. source[current] \in Seq(Nat) /\ Len(groups) \in Nat
  BY <1>1 DEF Shape
<1>4. \A k \in 1..Len(source'[current]) : source'[current][k] = Len(groups)
  BY <1>1, <1>2, <1>3
<1> QED
  BY <1>1, <1>2, <1>4 DEF New

\* onGroup: a group more, and a parser more if the class is known.
LEMMA GroupStep ==
    ASSUME IInv, NEW s \in Asked, NEW class, Group(s, class)
    PROVE  IInv'
<1> DEFINE g == [state |-> s, known |-> class \in Classes]
<1>0. Shape /\ SourceOK /\ ColumnsSound /\ OwnColumns
  BY DEF IInv
<1>1. /\ groups' = Append(groups, g) /\ opened' = Len(groups) + 1 /\ state' = s
      /\ inTarget' = TRUE /\ pc' = "properties" /\ UNCHANGED <<table, by>>
  BY DEF Group, Begins
<1>2. /\ groups' \in Seq([state : Asked, known : BOOLEAN])
      /\ Len(groups') = Len(groups) + 1 /\ Len(groups) \in Nat
      /\ \A i \in 1..Len(groups) : groups'[i] = groups[i]
      /\ groups'[Len(groups')] = g
  <2>1. g \in [state : Asked, known : BOOLEAN]
    OBVIOUS
  <2> HIDE DEF g
  <2> QED
    BY <1>0, <1>1, <2>1 DEF Shape
<1>3. groups'[opened'].state = state' /\ opened' = Len(groups') /\ opened' # 0
  BY <1>1, <1>2
<1>4. CASE class \in Classes
  <2>1. Make(class)
    BY <1>4 DEF Group
  <2>2. /\ heap' \in Seq(Parser) /\ source' \in Seq(Seq(Nat))
        /\ Len(heap') = Len(heap) + 1 /\ Len(source') = Len(heap) + 1
        /\ current' = Len(heap) + 1
        /\ \A o \in 1..Len(heap) : heap'[o] = heap[o] /\ source'[o] = source[o]
        /\ heap'[current'].columns = <<>> /\ source'[current'] = <<>>
        /\ ColumnsSound'
    BY <1>0, <1>4, <2>1, MakeSound
  <2>3. Len(heap) \in Nat
    BY <1>0 DEF Shape
  <2>4. Shape' /\ SourceOK' /\ OwnColumns'
    <3>1. \A o \in 1..Len(heap') : o > Len(heap) => heap'[o].columns = <<>> /\ source'[o] = <<>>
      BY <2>2, <2>3
    <3>2. current' \in 0..Len(heap') /\ opened' \in 0..Len(groups')
      BY <1>2, <1>3, <2>2, <2>3
    <3>3. /\ Len(heap') >= Len(heap) /\ Len(source') = Len(heap')
          /\ Len(groups') >= Len(groups)
          /\ \A i \in 1..Len(groups) :
                groups'[i].state = groups[i].state /\ (groups'[i].known => groups[i].known)
      <4>1. Len(heap') >= Len(heap) /\ Len(source') = Len(heap')
        BY <2>2, <2>3
      <4>2. \A i \in 1..Len(groups) : groups'[i] = groups[i]
        BY <1>2
      <4>3. Len(groups') >= Len(groups)
        BY <1>2
      <4> QED
        BY <4>1, <4>2, <4>3
    <3>4. groups' \in Seq([state : Asked, known : BOOLEAN]) /\ UNCHANGED <<table, by>>
      BY <1>1, <1>2
    <3>5. /\ heap' \in Seq(Parser) /\ source' \in Seq(Seq(Nat))
          /\ \A o \in 1..Len(heap) : heap'[o] = heap[o] /\ source'[o] = source[o]
      BY <2>2
    <3> QED
      BY <1>0, <3>1, <3>2, <3>3, <3>4, <3>5, Grows
  <2>5. New'
    BY <1>0, <1>1, <1>4, <2>1, MadeNew
  <2>6. Reading'
    BY <1>1, <1>3, <2>5, Zenon DEF Reading
  <2> QED
    BY <2>2, <2>4, <2>6 DEF IInv
<1>5. CASE class \notin Classes
  <2>1. UNCHANGED <<heap, source, current>>
    BY <1>5 DEF Group
  <2>2. ~Last'.known
    BY <1>2, <1>5 DEF Last
  <2>3. Shape' /\ SourceOK' /\ OwnColumns'
    BY <1>0, <1>1, <1>2, <2>1, Grows DEF Shape
  <2>4. Reading'
    BY <1>1, <1>3, <2>2, Zenon DEF Reading
  <2> QED
    BY <1>0, <2>1, <2>3, <2>4, SameColumns DEF IInv
<1> QED
  BY <1>4, <1>5

\* onElem.
LEMMA ElemStep ==
    ASSUME IInv, NEW cd \in Column, Elem(cd)
    PROVE  IInv'
<1>0. Shape /\ SourceOK /\ ColumnsSound /\ OwnColumns /\ Reading
  BY DEF IInv
<1>1. pc = "properties" /\ inTarget /\ UNCHANGED <<table, groups, opened, by>>
  BY DEF Elem
<1>2. /\ opened # 0 /\ groups[opened].state = state /\ opened = Len(groups) /\ Len(groups) # 0
      /\ Last.known => New
  BY <1>0, <1>1 DEF Reading
<1>3. CASE current = 0
  BY <1>1, <1>3, Stopped, Quiet DEF Elem
<1>4. CASE current # 0
  <2>1. Try(cd)
    BY <1>4 DEF Elem
  <2>2. CASE Accepts(heap[current], cd)
    <3>1. UNCHANGED <<pc, current, state, inTarget>>
      BY <1>4, <2>2 DEF Elem
    <3>2. Shape' /\ SourceOK' /\ OwnColumns' /\ ColumnsSound'
      BY <1>0, <1>1, <1>2, <1>4, <2>1, <3>1, Defines, TrySound
    <3>3. Last.known => New'
      BY <1>0, <1>1, <1>2, <2>1, <2>2, <3>1, TriedNew
    <3>4. Last' = Last
      BY <1>1 DEF Last
    <3>5. Reading'
      BY <1>1, <1>2, <3>1, <3>3, <3>4, Zenon DEF Reading
    <3> QED
      BY <3>2, <3>5 DEF IInv
  <2>3. CASE ~Accepts(heap[current], cd)
    <3>1. Stop
      BY <1>4, <2>3 DEF Elem
    <3>2. Reading' /\ current' = 0
      BY <3>1, Stopped
    <3>3. Shape' /\ SourceOK' /\ OwnColumns' /\ ColumnsSound'
      BY <1>0, <1>1, <1>2, <1>4, <2>1, <3>2, Defines, TrySound
    <3> QED
      BY <3>2, <3>3 DEF IInv
  <2> QED
    BY <2>2, <2>3
<1> QED
  BY <1>3, <1>4

\* onGroupFinal.
LEMMA GroupFinalStep ==
    ASSUME IInv, GroupFinal
    PROVE  IInv'
<1>0. Shape /\ SourceOK /\ ColumnsSound /\ OwnColumns /\ Reading
  BY DEF IInv
<1>1. /\ pc = "properties" /\ pc' = pc /\ inTarget /\ inTarget' = FALSE
      /\ UNCHANGED <<heap, current, state, groups, opened, source>>
  BY DEF GroupFinal
<1>2. Reading'
  BY <1>1 DEF Reading
<1>3. CASE current # 0 /\ state # "" /\ heap[current].columns # <<>>
  <2>1. Insert(state)
    BY <1>3 DEF GroupFinal
  <2>2. /\ opened # 0 /\ groups[opened].state = state /\ opened = Len(groups)
        /\ Last.known => New
    BY <1>0, <1>1 DEF Reading
  <2>3. groups[opened].known => New /\ opened = Len(groups)
    BY <2>2 DEF Last
  <2>4. Shape' /\ SourceOK' /\ OwnColumns'
    BY <1>0, <1>1, <1>3, <2>1, <2>2, <2>3, Inserts
  <2> QED
    BY <1>0, <1>1, <1>2, <2>4, SameColumns DEF IInv
<1>4. CASE ~(current # 0 /\ state # "" /\ heap[current].columns # <<>>)
  <2>1. UNCHANGED <<table, by>>
    BY <1>4 DEF GroupFinal
  <2> QED
    BY <1>1, <1>2, <2>1, Quiet
<1> QED
  BY <1>3, <1>4

\* A line <parser, where a block begins.
LEMMA ParserLineStep ==
    ASSUME IInv, NEW s \in Asked, ParserLine(s)
    PROVE  IInv'
<1> DEFINE g == [state |-> s, known |-> TRUE]
<1>0. Shape /\ SourceOK /\ ColumnsSound /\ OwnColumns /\ Reading
  BY DEF IInv
<1>1. /\ groups' = Append(groups, g) /\ opened' = Len(groups) + 1 /\ state' = s
      /\ pc = "outer" /\ pc' = "init" /\ UNCHANGED <<heap, table, current, inTarget, source, by>>
  BY DEF ParserLine, Begins
<1>2. /\ groups' \in Seq([state : Asked, known : BOOLEAN])
      /\ Len(groups') = Len(groups) + 1 /\ Len(groups) \in Nat
      /\ \A i \in 1..Len(groups) : groups'[i] = groups[i]
      /\ groups'[Len(groups')] = g
  <2>1. g \in [state : Asked, known : BOOLEAN]
    OBVIOUS
  <2> HIDE DEF g
  <2> QED
    BY <1>0, <1>1, <2>1 DEF Shape
<1>3. /\ groups'[opened'].state = state' /\ opened' = Len(groups') /\ opened' # 0
      /\ groups'[Len(groups')].known
  BY <1>1, <1>2
<1>4. Shape' /\ SourceOK' /\ OwnColumns'
  BY <1>0, <1>1, <1>2, Grows DEF Shape
<1>5. ~inTarget
  BY <1>0, <1>1 DEF Reading
<1>6. Reading'
  BY <1>1, <1>3, <1>5, Zenon DEF Reading, Last
<1> QED
  BY <1>0, <1>1, <1>4, <1>6, SameColumns DEF IInv

\* A class not known makes the last group one of no known class.
LEMMA Forgotten ==
    ASSUME Shape, Len(groups) # 0
    PROVE  /\ LastUnknown \in Seq([state : Asked, known : BOOLEAN])
           /\ Len(LastUnknown) = Len(groups) /\ ~LastUnknown[Len(groups)].known
           /\ \A g \in 1..Len(groups) : /\ LastUnknown[g].state = groups[g].state
                                        /\ LastUnknown[g].known => groups[g].known
<1> DEFINE Group_ == [state : Asked, known : BOOLEAN]
           n == Len(groups)
           u == [groups[n] EXCEPT !.known = FALSE]
<1>1. groups \in Seq(Group_) /\ n \in 1..Len(groups)
  BY DEF Shape
<1>2. groups[n] \in Group_
  <2> HIDE DEF Group_
  <2> QED
    BY <1>1
<1>3. u \in Group_ /\ u.state = groups[n].state /\ u.known = FALSE
  BY <1>2
<1>4. LastUnknown = [groups EXCEPT ![n] = u]
  BY DEF LastUnknown
<1> HIDE DEF u
<1> QED
  BY <1>1, <1>3, <1>4

LEMMA PassOverStep ==
    ASSUME IInv, NEW s \in Asked, PassOver(s)
    PROVE  IInv'
<1> DEFINE g == [state |-> s, known |-> TRUE]
<1>0. Shape /\ SourceOK /\ ColumnsSound /\ OwnColumns /\ Reading
  BY DEF IInv
<1>1. /\ groups' = Append(LastUnknown, g)
      /\ pc = "init" /\ UNCHANGED <<heap, table, current, state, inTarget, pc, opened, source, by>>
  BY DEF PassOver
<1>2. opened # 0 /\ groups[opened].state = state /\ (groups[opened].known => opened = Len(groups))
  BY <1>0, <1>1 DEF Reading
<1>3. opened \in 1..Len(groups) /\ Len(groups) \in Nat /\ Len(groups) # 0
  BY <1>0, <1>2 DEF Shape
<1>4. /\ LastUnknown \in Seq([state : Asked, known : BOOLEAN])
      /\ Len(LastUnknown) = Len(groups) /\ ~LastUnknown[Len(groups)].known
      /\ \A i \in 1..Len(groups) : /\ LastUnknown[i].state = groups[i].state
                                   /\ LastUnknown[i].known => groups[i].known
  BY <1>0, <1>3, Forgotten
<1>5. g \in [state : Asked, known : BOOLEAN] /\ g.known
  OBVIOUS
<1> HIDE DEF g
<1>6. /\ groups' \in Seq([state : Asked, known : BOOLEAN])
      /\ Len(groups') = Len(groups) + 1 /\ groups'[Len(groups')] = g
      /\ \A i \in 1..Len(groups) : groups'[i] = LastUnknown[i]
  <2> DEFINE R == [state : Asked, known : BOOLEAN]
             u == LastUnknown
  <2>1. u \in Seq(R) /\ Len(u) = Len(groups) /\ g \in R /\ groups' = Append(u, g)
    BY <1>1, <1>4, <1>5
  <2> HIDE DEF R, u
  <2>2. /\ groups' \in Seq(R) /\ Len(groups') = Len(groups) + 1 /\ groups'[Len(groups')] = g
        /\ \A i \in 1..Len(groups) : groups'[i] = u[i]
    BY <1>3, <2>1
  <2> QED
    BY <2>2 DEF R, u
<1>7. Shape' /\ SourceOK' /\ OwnColumns'
  <2>1. \A i \in 1..Len(groups) :
           groups'[i].state = groups[i].state /\ (groups'[i].known => groups[i].known)
    BY <1>4, <1>6
  <2> QED
    BY <1>0, <1>1, <1>3, <1>6, <2>1, Grows DEF Shape
<1>8. /\ groups'[opened].state = state /\ ~groups'[opened].known /\ groups'[Len(groups')].known
  BY <1>2, <1>3, <1>4, <1>5, <1>6
<1>9. ~inTarget
  BY <1>0, <1>1 DEF Reading
<1>10. Reading'
  BY <1>1, <1>2, <1>8, <1>9, Zenon DEF Reading, Last
<1> QED
  BY <1>0, <1>1, <1>7, <1>10, SameColumns DEF IInv

\* The line with the class.
LEMMA InitLineStep ==
    ASSUME IInv, NEW class, InitLine(class)
    PROVE  IInv'
<1>0. Shape /\ SourceOK /\ ColumnsSound /\ OwnColumns /\ Reading
  BY DEF IInv
<1>1. pc = "init" /\ UNCHANGED <<table, opened, by>>
  BY DEF InitLine
<1>2. /\ opened # 0 /\ groups[opened].state = state /\ ~inTarget /\ Last.known
      /\ (groups[opened].known => opened = Len(groups))
  BY <1>0, <1>1 DEF Reading
<1>3. Len(groups) \in Nat /\ Len(groups) # 0 /\ opened \in 0..Len(groups)
  BY <1>0, <1>2 DEF Shape
<1>4. CASE class \in Classes
  <2>1. Make(class) /\ pc' = "columns" /\ UNCHANGED <<state, inTarget, groups>>
    BY <1>4 DEF InitLine
  <2>2. /\ heap' \in Seq(Parser) /\ source' \in Seq(Seq(Nat))
        /\ Len(heap') = Len(heap) + 1 /\ Len(source') = Len(heap) + 1
        /\ current' = Len(heap) + 1
        /\ \A o \in 1..Len(heap) : heap'[o] = heap[o] /\ source'[o] = source[o]
        /\ heap'[current'].columns = <<>> /\ source'[current'] = <<>>
        /\ ColumnsSound'
    BY <1>0, <1>4, <2>1, MakeSound
  <2>3. Len(heap) \in Nat /\ groups \in Seq([state : Asked, known : BOOLEAN])
    BY <1>0 DEF Shape
  <2>4. Shape' /\ SourceOK' /\ OwnColumns'
    <3>1. \A o \in 1..Len(heap') : o > Len(heap) => heap'[o].columns = <<>> /\ source'[o] = <<>>
      BY <2>2, <2>3
    <3>2. /\ current' \in 0..Len(heap') /\ opened' \in 0..Len(groups')
          /\ Len(heap') >= Len(heap) /\ Len(source') = Len(heap')
          /\ Len(groups') >= Len(groups)
      BY <1>1, <1>3, <2>1, <2>2, <2>3
    <3>3. /\ heap' \in Seq(Parser) /\ source' \in Seq(Seq(Nat))
          /\ \A o \in 1..Len(heap) : heap'[o] = heap[o] /\ source'[o] = source[o]
          /\ groups' = groups /\ UNCHANGED <<table, by>>
      BY <1>1, <2>1, <2>2
    <3> QED
      BY <1>0, <2>3, <3>1, <3>2, <3>3, Grows
  <2>5. New'
    BY <1>0, <1>1, <1>4, <2>1, MadeNew
  <2>6. Last' = Last
    BY <2>1 DEF Last
  <2>7. Reading'
    BY <1>1, <1>2, <2>1, <2>5, <2>6, Zenon DEF Reading
  <2> QED
    BY <2>2, <2>4, <2>7 DEF IInv
<1>5. CASE class \notin Classes
  <2>1. Stop /\ groups' = LastUnknown /\ UNCHANGED <<heap, source>>
    BY <1>5 DEF InitLine
  <2>2. Reading' /\ current' = 0
    BY <2>1, Stopped
  <2>3. /\ groups' \in Seq([state : Asked, known : BOOLEAN]) /\ Len(groups') = Len(groups)
        /\ \A g \in 1..Len(groups) :
              groups'[g].state = groups[g].state /\ (groups'[g].known => groups[g].known)
    BY <1>0, <1>3, <2>1, Forgotten
  <2>4. Shape' /\ SourceOK' /\ OwnColumns'
    BY <1>0, <1>1, <1>3, <2>1, <2>2, <2>3, Grows DEF Shape
  <2> QED
    BY <1>0, <2>1, <2>2, <2>4, SameColumns DEF IInv
<1> QED
  BY <1>4, <1>5

\* A line of a block.
LEMMA ColumnLineStep ==
    ASSUME IInv, NEW cd \in Column, ColumnLine(cd)
    PROVE  IInv'
<1>0. Shape /\ SourceOK /\ ColumnsSound /\ OwnColumns /\ Reading
  BY DEF IInv
<1>1. pc = "columns" /\ Try(cd) /\ UNCHANGED <<table, groups, opened, by>>
  BY DEF ColumnLine
<1>2. /\ opened # 0 /\ groups[opened].state = state /\ ~inTarget /\ New /\ Last.known
      /\ (groups[opened].known => opened = Len(groups))
  BY <1>0, <1>1 DEF Reading
<1>3. Len(groups) # 0 /\ current # 0
  BY <1>0, <1>2 DEF Shape, New
<1>4. CASE Accepts(heap[current], cd)
  <2>1. UNCHANGED <<current, state, inTarget, pc>>
    BY <1>4 DEF ColumnLine
  <2>2. Shape' /\ SourceOK' /\ OwnColumns' /\ ColumnsSound'
    BY <1>0, <1>1, <1>2, <1>3, <2>1, Defines, TrySound
  <2>3. New'
    BY <1>0, <1>1, <1>2, <1>4, <2>1, TriedNew
  <2>4. Last' = Last
    BY <1>1 DEF Last
  <2>5. Reading'
    BY <1>1, <1>2, <2>1, <2>3, <2>4, Zenon DEF Reading
  <2> QED
    BY <2>2, <2>5 DEF IInv
<1>5. CASE ~Accepts(heap[current], cd)
  <2>1. Stop
    BY <1>5 DEF ColumnLine
  <2>2. Reading' /\ current' = 0
    BY <2>1, Stopped
  <2>3. Shape' /\ SourceOK' /\ OwnColumns' /\ ColumnsSound'
    BY <1>0, <1>1, <1>2, <1>3, <2>2, Defines, TrySound
  <2> QED
    BY <2>2, <2>3 DEF IInv
<1> QED
  BY <1>4, <1>5

\* The end of a block.
LEMMA EndOfBlockStep ==
    ASSUME IInv, EndOfBlock
    PROVE  IInv'
<1>0. Shape /\ SourceOK /\ ColumnsSound /\ OwnColumns /\ Reading
  BY DEF IInv
<1>1. pc = "columns" /\ UNCHANGED <<heap, groups, opened, source>>
  BY DEF EndOfBlock
<1>2. /\ opened # 0 /\ groups[opened].state = state /\ ~inTarget /\ New
      /\ (groups[opened].known => New /\ opened = Len(groups)) /\ current # 0
  BY <1>0, <1>1 DEF Reading, New
<1>3. CASE state = ""
  <2>1. Stop /\ UNCHANGED <<table, by>>
    BY <1>3 DEF EndOfBlock
  <2> QED
    BY <1>1, <2>1, Stopped, Quiet
<1>4. CASE state # ""
  <2>1. Insert(state) /\ pc' = "outer" /\ current' = 0 /\ UNCHANGED <<state, inTarget>>
    BY <1>4 DEF EndOfBlock
  <2>2. Shape' /\ SourceOK' /\ OwnColumns'
    BY <1>0, <1>1, <1>2, <2>1, Inserts
  <2>3. Reading'
    BY <1>2, <2>1 DEF Reading
  <2> QED
    BY <1>0, <1>1, <2>2, <2>3, SameColumns DEF IInv
<1> QED
  BY <1>3, <1>4

-----------------------------------------------------------------------------

\* Every step keeps the invariant.
LEMMA Step == IInv /\ [Next]_vars => IInv'
<1> SUFFICES ASSUME IInv, [Next]_vars PROVE IInv'
  OBVIOUS
<1>0. Reading
  BY DEF IInv
<1>c. Columns \subseteq Column
  BY ParserConfigAssumption
<1>1. CASE UNCHANGED vars
  <2>1. Reading'
    BY <1>0, <1>1 DEF vars, Reading, New, Last
  <2> QED
    BY <1>1, <2>1, Quiet DEF vars
<1>2. CASE LoadReaderProperties \/ ReadParserConfigFile
  <2>1. Reading'
    BY <1>0, <1>2 DEF LoadReaderProperties, ReadParserConfigFile, Reading
  <2> QED
    BY <1>2, <2>1, Quiet DEF LoadReaderProperties, ReadParserConfigFile
<1>3. ASSUME NEW s \in States \cup {""}, NEW class, Group(s, class) PROVE IInv'
  BY <1>3, GroupStep DEF Asked
<1>4. ASSUME NEW cd \in Columns, Elem(cd) \/ ColumnLine(cd) PROVE IInv'
  BY <1>4, <1>c, ElemStep, ColumnLineStep
<1>5. CASE GroupFinal \/ EndOfBlock
  BY <1>5, GroupFinalStep, EndOfBlockStep
<1>6. CASE EndOfProperties \/ EndOfFile
  BY <1>6, Stopped, Quiet DEF EndOfProperties, EndOfFile
<1>7. ASSUME NEW s \in States \cup {""}, ParserLine(s) \/ PassOver(s) PROVE IInv'
  BY <1>7, ParserLineStep, PassOverStep DEF Asked
<1>8. ASSUME NEW class, InitLine(class) PROVE IInv'
  BY <1>8, InitLineStep
<1>9. CASE LineTooLong
  <2>1. CASE pc' = "broken" /\ pc \in {"outer", "init"} /\ UNCHANGED <<current, state, inTarget>>
    <3>1. Reading'
      BY <1>0, <2>1 DEF Reading
    <3> QED
      BY <1>9, <2>1, <3>1, Quiet DEF LineTooLong
  <2>2. CASE Stop
    BY <1>9, <2>2, Stopped, Quiet DEF LineTooLong
  <2> QED
    BY <1>9, <2>1, <2>2 DEF LineTooLong
<1>10. CASE Spin
  BY <1>1, <1>10 DEF Spin
<1>11. ASSUME NEW s \in States, NEW rec \in Records, ParseRecord(s, rec) PROVE IInv'
  <2>1. Reading'
    BY <1>0, <1>11 DEF ParseRecord, Reading
  <2> QED
    BY <1>11, <2>1, ParsesOnly DEF IInv
<1>12. CASE ReadLine
  BY <1>3, <1>4, <1>5, <1>6, <1>7, <1>8, <1>9, <1>12 DEF ReadLine
<1> QED
  BY <1>1, <1>2, <1>10, <1>11, <1>12 DEF Next

\* What is known of the parsers, their table and the file that is read.
THEOREM Invariant == Spec => []IInv
  BY Initially, Step, PTL DEF Spec

\* Two columns of a parser have different names, and two of fixed length overlap
\* only if the later one encloses the earlier: defineColumn and testOverlap.
THEOREM ColumnsAreSound == Spec => []ColumnsSound
<1>1. IInv => ColumnsSound
  BY DEF IInv
<1> QED
  BY <1>1, Invariant, PTL

\* The parser a group of a known class gave to the factory has the columns of
\* that group and no other: onGroup, onElem, onGroupFinal and getParser.
THEOREM ColumnsAreOwn == Spec => []OwnColumns
<1>1. IInv => OwnColumns
  BY DEF IInv
<1> QED
  BY <1>1, Invariant, PTL
-----------------------------------------------------------------------------
(* The tokens of a record.                                                 *)

LEMMA LessIs ==
    ASSUME NEW x \in Nat, NEW y \in Nat, ~(<<y, x>> \in {ss \in Nat \X Nat : ss[1] < ss[2]})
    PROVE  x <= y
OBVIOUS

\* A set of numbers that is not empty has a least one.
LEMMA Least ==
    ASSUME NEW S \in SUBSET Nat, S # {}
    PROVE  \E n \in S : \A m \in S : n <= m
<1> DEFINE R == OpToRel(<, Nat)
<1>1. IsWellFoundedOn(R, Nat)
  BY NatLessThanWellFounded
<1>2. R = {ss \in Nat \X Nat : ss[1] < ss[2]}
  BY DEF OpToRel
<1> HIDE DEF R
<1>3. PICK x \in S : \A y \in S : ~(<<y, x>> \in R)
  BY <1>1, WFMin
<1>4. ASSUME NEW y \in S PROVE x <= y
  <2>1. ~(<<y, x>> \in {ss \in Nat \X Nat : ss[1] < ss[2]})
    BY <1>2, <1>3
  <2> HIDE <1>2, <1>3
  <2> QED
    BY <2>1, LessIs
<1> QED
  BY <1>4

\* Field by field the number of those that are filled grows by one or stays.
LEMMA FilledGrows ==
    ASSUME NEW rec, NEW n \in Nat
    PROVE  /\ IsFiniteSet(Filled(rec, n))
           /\ Cardinality(Filled(rec, n)) \in 0..n
           /\ Cardinality(Filled(rec, n + 1)) =
                 IF rec.fields[n + 1] THEN Cardinality(Filled(rec, n)) + 1
                 ELSE Cardinality(Filled(rec, n))
<1>1. IsFiniteSet(1..n) /\ Cardinality(1..n) = n
  BY FS_Interval
<1>2. Filled(rec, n) \in SUBSET (1..n)
  BY DEF Filled
<1>3. /\ IsFiniteSet(Filled(rec, n)) /\ Cardinality(Filled(rec, n)) <= n
      /\ Cardinality(Filled(rec, n)) \in Nat
  BY <1>1, <1>2, FS_Subset, FS_CardinalityType
<1>4. 1..(n + 1) = (1..n) \cup {n + 1} /\ n + 1 \notin 1..n
  OBVIOUS
<1>5. CASE rec.fields[n + 1]
  <2>1. Filled(rec, n + 1) = Filled(rec, n) \cup {n + 1} /\ n + 1 \notin Filled(rec, n)
    BY <1>4, <1>5 DEF Filled
  <2> QED
    BY <1>3, <1>5, <2>1, FS_AddElement
<1>6. CASE ~rec.fields[n + 1]
  <2>1. Filled(rec, n + 1) = Filled(rec, n)
    BY <1>4, <1>6 DEF Filled
  <2> QED
    BY <1>3, <1>6, <2>1
<1> QED
  BY <1>5, <1>6

\* There is a k-th filled field, if so many fields are filled.
LEMMA TokenExists ==
    ASSUME NEW rec, NEW n \in Nat, NEW k \in 1..Cardinality(Filled(rec, n))
    PROVE  \E i \in Filled(rec, n) : Cardinality(Filled(rec, i)) = k
<1> DEFINE Count(i) == Cardinality(Filled(rec, i))
           S == {i \in Nat : Count(i) >= k}
<1>1. \A i \in Nat :
         /\ Count(i) \in 0..i
         /\ Count(i + 1) = IF rec.fields[i + 1] THEN Count(i) + 1 ELSE Count(i)
  BY FilledGrows
<1>2. k \in Nat /\ k >= 1 /\ k <= Count(n)
  BY <1>1
<1> HIDE DEF Count
<1>3. n \in S
  BY <1>1, <1>2
<1>4. PICK i \in S : \A j \in S : i <= j
  <2>1. S \in SUBSET Nat /\ S # {}
    BY <1>3
  <2> HIDE DEF S
  <2> QED
    BY <2>1, Least
<1>5. i \in Nat /\ Count(i) >= k /\ i <= n
  BY <1>3, <1>4
<1>6. i # 0
  <2>1. Count(0) = 0
    BY <1>1
  <2> QED
    BY <1>2, <1>5, <2>1
<1>7. i - 1 \in Nat /\ (i - 1) + 1 = i
  BY <1>5, <1>6
<1>8. Count(i - 1) < k
  <2>1. i - 1 \notin S
    BY <1>4, <1>5, <1>7
  <2>2. Count(i - 1) \in Nat
    BY <1>1, <1>7
  <2> QED
    BY <1>2, <1>7, <2>1, <2>2
<1>9. Count(i) = IF rec.fields[i] THEN Count(i - 1) + 1 ELSE Count(i - 1)
  <2>1. Count((i - 1) + 1) = IF rec.fields[(i - 1) + 1] THEN Count(i - 1) + 1 ELSE Count(i - 1)
    BY <1>1, <1>7
  <2> QED
    BY <1>7, <2>1
<1>10. rec.fields[i] /\ Count(i) = k
  <2>1. Count(i - 1) \in Nat
    BY <1>1, <1>7
  <2> QED
    BY <1>2, <1>5, <1>8, <1>9, <2>1
<1>11. i \in Filled(rec, n)
  BY <1>5, <1>6, <1>10 DEF Filled
<1> QED
  BY <1>10, <1>11 DEF Count

\* Token k is the filled field with just k filled ones up to it.
LEMMA TokenIs ==
    ASSUME NEW rec \in Record, NEW k \in Nat \ {0}, k <= Len(Tokens(rec))
    PROVE  LET t == Tokens(rec)[k] IN
           t \in 1..Len(rec.fields) /\ rec.fields[t] /\ Cardinality(Filled(rec, t)) = k
<1> DEFINE n == Len(rec.fields)
           all == Filled(rec, n)
           t == CHOOSE i \in all : Cardinality(Filled(rec, i)) = k
<1>1. n \in Nat
  BY DEF Record
<1> HIDE DEF n
<1>2. Cardinality(all) \in Nat /\ k \in 1..Cardinality(all) /\ Tokens(rec)[k] = t
  <2>1. Cardinality(all) \in Nat
    BY <1>1, FilledGrows
  <2>2. Tokens(rec) = [j \in 1..Cardinality(all) |-> CHOOSE i \in all : Cardinality(Filled(rec, i)) = j]
    BY DEF Tokens, n
  <2> HIDE DEF all
  <2>3. Len(Tokens(rec)) = Cardinality(all)
    BY <2>1, <2>2
  <2>4. k \in 1..Cardinality(all)
    BY <2>1, <2>3
  <2> QED
    BY <2>1, <2>2, <2>4
<1>3. \E i \in all : Cardinality(Filled(rec, i)) = k
  BY <1>1, <1>2, TokenExists
<1>4. t \in all /\ Cardinality(Filled(rec, t)) = k
  BY <1>3
<1> HIDE DEF t
<1>5. t \in 1..n /\ rec.fields[t]
  BY <1>1, <1>4 DEF Filled
<1> QED
  BY <1>2, <1>4, <1>5 DEF n

\* It is field k or one behind it, and field k just if all up to there are filled.
LEMMA TokenAt ==
    ASSUME NEW rec, NEW t \in Nat, rec.fields[t], NEW k \in Nat, Cardinality(Filled(rec, t)) = k
    PROVE  t >= k /\ (t = k <=> \A i \in 1..k : rec.fields[i])
<1>0. IsFiniteSet(Filled(rec, t)) /\ Cardinality(Filled(rec, t)) \in 0..t
  BY FilledGrows
<1>1. t >= k
  BY <1>0
<1>2. ASSUME \A i \in 1..k : rec.fields[i], t > k
      PROVE  FALSE
  <2>1. (1..k) \cup {t} \in SUBSET Filled(rec, t)
    BY <1>2 DEF Filled
  <2>2. IsFiniteSet(1..k) /\ Cardinality(1..k) = k /\ t \notin 1..k
    BY <1>2, FS_Interval
  <2>3. Cardinality((1..k) \cup {t}) = Cardinality(1..k) + 1
    BY <2>2, FS_AddElement, Zenon
  <2>4. Cardinality((1..k) \cup {t}) <= Cardinality(Filled(rec, t))
    BY <1>0, <2>1, FS_Subset, Zenon
  <2> QED
    BY <2>2, <2>3, <2>4
<1>3. ASSUME t = k, NEW i \in 1..k, ~rec.fields[i] PROVE FALSE
  <2>1. Filled(rec, t) \in SUBSET (1..k)
    BY <1>3 DEF Filled
  <2>2. IsFiniteSet(1..k) /\ Cardinality(1..k) = k
    BY FS_Interval
  <2>3. Filled(rec, t) # 1..k
    BY <1>3 DEF Filled
  <2>4. Cardinality(Filled(rec, t)) < Cardinality(1..k)
    BY <2>1, <2>2, <2>3, FS_Subset, Zenon
  <2> QED
    BY <2>2, <2>4
<1> QED
  BY <1>1, <1>2, <1>3

\* The tokens are in the order of the fields.
LEMMA TokensOrdered ==
    ASSUME NEW rec, NEW t \in Nat, NEW u \in Nat, Cardinality(Filled(rec, t)) < Cardinality(Filled(rec, u))
    PROVE  t < u
<1>1. ASSUME u <= t PROVE FALSE
  <2>1. Filled(rec, u) \in SUBSET Filled(rec, t)
    BY <1>1 DEF Filled
  <2>2. IsFiniteSet(Filled(rec, t)) /\ Cardinality(Filled(rec, t)) \in Nat /\ Cardinality(Filled(rec, u)) \in Nat
    BY FilledGrows
  <2>3. Cardinality(Filled(rec, u)) <= Cardinality(Filled(rec, t))
    BY <2>1, <2>2, FS_Subset, Zenon
  <2> QED
    BY <2>2, <2>3
<1> QED
  BY <1>1
-----------------------------------------------------------------------------
(* The last record parsed.                                                 *)

\* What a column of a parser has of a record, and where.
Right(p, cd, rec, value) ==
    IF p.class = "simple_fixed"
    THEN value = <<cd.first, cd.last>> /\ cd.last <= rec.size
    ELSE /\ value[1] \in Nat /\ rec.fields[value[1]]
         /\ Cardinality(Filled(rec, value[1])) = cd.position

\* A delimited parser has no column of a field that is none.
Positioned ==
    \A o \in 1..Len(heap) : heap[o].class # "simple_fixed" =>
        \A k \in 1..Len(heap[o].columns) : heap[o].columns[k].position > 0

\* The columns the record was parsed with are still the first of its parser.
Kept ==
    parsed.ok =>
        /\ parsed.parser \in 1..Len(heap)
        /\ parsed.columns \in 0..Len(heap[parsed.parser].columns)
        /\ \A k \in 1..parsed.columns :
              Right(heap[parsed.parser], heap[parsed.parser].columns[k], parsed.record,
                    parsed.tokens[heap[parsed.parser].columns[k].name])

\* A parser keeps its class and columns; at most it gets one more, a proper one.
Prolongs(q, p) ==
    /\ q.class = p.class
    /\ Len(p.columns) \in Nat /\ Len(q.columns) \in {Len(p.columns), Len(p.columns) + 1}
    /\ \A k \in 1..Len(p.columns) : q.columns[k] = p.columns[k]
    /\ Len(q.columns) # Len(p.columns) => ~Malformed(p, q.columns[Len(q.columns)])

\* The parsers of before are prolonged, and one more has no columns.
Prolonged ==
    /\ Len(heap) \in Nat /\ Len(heap') \in Nat /\ Len(heap') >= Len(heap)
    /\ \A o \in 1..Len(heap) : Prolongs(heap'[o], heap[o])
    /\ \A o \in 1..Len(heap') : o > Len(heap) => heap'[o].columns = <<>>

LEMMA SameProlonged == ASSUME Shape, heap' = heap PROVE Prolonged
<1>1. Len(heap) \in Nat /\ \A o \in 1..Len(heap) : heap[o] \in Parser
  BY DEF Shape
<1>2. \A o \in 1..Len(heap) : Len(heap[o].columns) \in Nat
  BY <1>1 DEF Parser
<1> QED
  BY <1>1, <1>2 DEF Prolonged, Prolongs

LEMMA MakeProlonged ==
    ASSUME Shape, SourceOK, ColumnsSound, NEW class \in Classes, Make(class) PROVE Prolonged
<1>1. /\ Len(heap) \in Nat /\ \A o \in 1..Len(heap) : heap[o] \in Parser
  BY DEF Shape
<1>2. \A o \in 1..Len(heap) : Len(heap[o].columns) \in Nat
  BY <1>1 DEF Parser
<1>3. /\ Len(heap') = Len(heap) + 1 /\ current' = Len(heap) + 1
      /\ \A o \in 1..Len(heap) : heap'[o] = heap[o]
      /\ heap'[current'].columns = <<>>
  BY MakeSound
<1> QED
  BY <1>1, <1>2, <1>3 DEF Prolonged, Prolongs

LEMMA TryProlonged ==
    ASSUME Shape, SourceOK, NEW cd \in Column, current # 0, Try(cd) PROVE Prolonged
<1>1. /\ Len(heap) \in Nat /\ \A o \in 1..Len(heap) : heap[o] \in Parser
      /\ current \in 1..Len(heap)
  BY DEF Shape
<1>2. \A o \in 1..Len(heap) : heap[o].columns \in Seq(Column) /\ Len(heap[o].columns) \in Nat
  BY <1>1 DEF Parser
<1>3. /\ Len(heap') = Len(heap)
      /\ \A o \in 1..Len(heap) : o # current => heap'[o] = heap[o]
      /\ heap'[current] = Define(heap[current], cd)
  BY TryDoes
<1> DEFINE p == heap[current]
           q == heap'[current]
<1>4. p \in Parser /\ p.columns \in Seq(Column) /\ q = Define(p, cd)
  BY <1>1, <1>2, <1>3
<1> HIDE DEF p, q
<1>5. Prolongs(q, p)
  <2>1. CASE Accepts(p, cd)
    <3>1. q = [p EXCEPT !.columns = Append(p.columns, cd)]
      BY <1>4, <2>1 DEF Define
    <3>2. q.columns = Append(p.columns, cd) /\ q.class = p.class
      BY <1>4, <3>1 DEF Parser
    <3>3. /\ Len(q.columns) = Len(p.columns) + 1 /\ Len(p.columns) \in Nat
          /\ \A k \in 1..Len(p.columns) : q.columns[k] = p.columns[k]
          /\ q.columns[Len(p.columns) + 1] = cd
      BY <1>4, <3>2
    <3>4. ~Malformed(p, cd)
      BY <2>1 DEF Accepts
    <3> QED
      BY <3>2, <3>3, <3>4 DEF Prolongs
  <2>2. CASE ~Accepts(p, cd)
    <3>1. q.columns = p.columns /\ q.class = p.class
      BY <1>4, <2>2 DEF Define, Parser
    <3>2. Len(p.columns) \in Nat
      BY <1>4
    <3> QED
      BY <3>1, <3>2 DEF Prolongs
  <2> QED
    BY <2>1, <2>2
<1>6. \A o \in 1..Len(heap) : o # current => Prolongs(heap'[o], heap[o])
  BY <1>2, <1>3 DEF Prolongs
<1> QED
  BY <1>1, <1>3, <1>5, <1>6 DEF Prolonged, p, q

LEMMA ParseProlonged ==
    ASSUME IInv, NEW s \in States, NEW rec \in Records, ParseRecord(s, rec) PROVE Prolonged
<1>1. Len(heap) \in Nat /\ heap \in Seq(Parser)
  BY DEF IInv, Shape
<1>2. heap' = [heap EXCEPT ![LookUp(s)] = AfterParse(heap[LookUp(s)], rec)]
  BY DEF ParseRecord
<1>3. Len(heap') = Len(heap)
  <2> DEFINE v == AfterParse(heap[LookUp(s)], rec)
  <2> HIDE DEF v
  <2> QED BY <1>1, <1>2 DEF v
<1>4. ASSUME NEW o \in 1..Len(heap) PROVE Prolongs(heap'[o], heap[o])
  <2>1. heap[o] \in Parser
    BY <1>1
  <2>2. heap'[o] = heap[o] \/ heap'[o] = AfterParse(heap[o], rec)
    BY <1>1, <1>2
  <2>3. heap'[o].columns = heap[o].columns /\ heap'[o].class = heap[o].class
    BY <2>1, <2>2 DEF AfterParse, Parser
  <2>4. Len(heap[o].columns) \in Nat
    BY <2>1 DEF Parser
  <2> QED
    BY <2>3, <2>4 DEF Prolongs
<1> QED
  BY <1>1, <1>3, <1>4 DEF Prolonged

\* Every step prolongs the parsers, and only ParseRecord parses.
LEMMA StepProlongs ==
    ASSUME IInv, [Next]_vars
    PROVE  Prolonged /\ (parsed' = parsed \/ \E s \in States, rec \in Records : ParseRecord(s, rec))
<1>0. Shape /\ SourceOK /\ ColumnsSound /\ Reading
  BY DEF IInv
<1>1. CASE UNCHANGED <<heap, parsed>>
  BY <1>0, <1>1, SameProlonged
<1>2. ASSUME NEW s, NEW class, Group(s, class) \/ InitLine(class)
      PROVE  Prolonged /\ parsed' = parsed
  <2>1. parsed' = parsed
    BY <1>2 DEF Group, InitLine
  <2>2. heap' = heap \/ (class \in Classes /\ Make(class))
    BY <1>2 DEF Group, InitLine
  <2> QED
    BY <1>0, <2>1, <2>2, SameProlonged, MakeProlonged
<1>3. ASSUME NEW cd \in Columns, Elem(cd) \/ ColumnLine(cd)
      PROVE  Prolonged /\ parsed' = parsed
  <2>1. cd \in Column
    BY ParserConfigAssumption
  <2>2. parsed' = parsed
    BY <1>3 DEF Elem, ColumnLine
  <2>3. heap' = heap \/ (current # 0 /\ Try(cd))
    BY <1>0, <1>3 DEF Elem, ColumnLine, Reading, New
  <2> QED
    BY <1>0, <2>1, <2>2, <2>3, SameProlonged, TryProlonged
<1>4. ASSUME NEW s \in States, NEW rec \in Records, ParseRecord(s, rec)
      PROVE  Prolonged
  BY <1>4, ParseProlonged
<1>5. CASE \/ UNCHANGED vars \/ LoadReaderProperties \/ ReadParserConfigFile \/ Spin
           \/ GroupFinal \/ EndOfProperties \/ EndOfBlock \/ EndOfFile \/ LineTooLong
           \/ \E s \in States \cup {""} : ParserLine(s) \/ PassOver(s)
  <2>1. UNCHANGED <<heap, parsed>>
    BY <1>5 DEF vars, LoadReaderProperties, ReadParserConfigFile, Spin, GroupFinal, EndOfProperties,
       EndOfBlock, EndOfFile, LineTooLong, ParserLine, PassOver
  <2> QED
    BY <1>1, <2>1
<1>6. CASE ReadLine
  BY <1>2, <1>3, <1>5, <1>6 DEF ReadLine
<1> QED
  BY <1>4, <1>5, <1>6 DEF Next

\* The parser a state gets is one that there is.
LEMMA LooksUp ==
    ASSUME Shape, NEW s, LookUp(s) # 0 PROVE LookUp(s) \in 1..Len(heap)
<1>1. CASE s \in DOMAIN table
  BY <1>1 DEF LookUp, Shape
<1>2. CASE s \notin DOMAIN table
  <2> DEFINE M == {i \in DOMAIN Names : Names[i] \in DOMAIN table /\ s \in Covered[Names[i]]}
             i == CHOOSE i \in M : \A j \in M : i <= j
  <2>1. M # {} /\ LookUp(s) = table[Names[i]]
    BY <1>2 DEF LookUp
  <2>2. M \in SUBSET Nat
    <3>1. DOMAIN Names = 1..Len(Names) /\ Len(Names) \in Nat
      <4>1. \A S, q : q \in Seq(S) => DOMAIN q = 1..Len(q) /\ Len(q) \in Nat
        OBVIOUS
      <4> QED
        BY <4>1, ParserConfigAssumption, Zenon
    <3>2. M \subseteq DOMAIN Names
      OBVIOUS
    <3> HIDE DEF M
    <3> QED
      BY <3>1, <3>2
  <2>3. \E n \in M : \A j \in M : n <= j
    <3> HIDE DEF M
    <3> QED BY <2>1, <2>2, Least
  <2>4. i \in M
    BY <2>3
  <2> QED
    BY <2>1, <2>4 DEF Shape
<1> QED
  BY <1>1, <1>2

\* A record that parses has for a column what the column names.
LEMMA ParsedRight ==
    ASSUME NEW p \in Parser, NEW rec \in Record, Parses(p, rec),
           \A i, j \in DOMAIN p.columns : i < j => p.columns[i].name # p.columns[j].name,
           p.class # "simple_fixed" => \A k \in 1..Len(p.columns) : p.columns[k].position > 0,
           NEW k \in 1..Len(p.columns)
    PROVE  Right(p, p.columns[k], rec, Parsed(p, rec)[p.columns[k].name])
<1> DEFINE cd == p.columns[k]
           n == cd.name
           Own == {i \in DOMAIN p.columns : p.columns[i].name = n}
           i == CHOOSE i \in Own : \A j \in Own : i <= j
<1>1. DOMAIN p.columns = 1..Len(p.columns) /\ k \in DOMAIN p.columns /\ cd \in Column
      /\ Len(p.columns) \in Nat /\ k \in Nat
  BY DEF Parser
<1>2. Own = {k}
  <2>1. k \in Own
    BY <1>1
  <2>2. ASSUME NEW j \in Own PROVE j = k
    <3>1. j \in DOMAIN p.columns /\ p.columns[j].name = p.columns[k].name /\ j \in Nat
      BY <1>1
    <3>2. ~(j < k) /\ ~(k < j)
      BY <1>1, <3>1
    <3> QED
      BY <1>1, <3>1, <3>2
  <2> HIDE DEF Own
  <2> QED
    BY <2>1, <2>2
<1>3. i = k
  <2>1. k \in Own /\ \A j \in Own : k <= j
    BY <1>1, <1>2
  <2> HIDE DEF Own
  <2>2. i \in Own
    BY <2>1
  <2> HIDE DEF i
  <2> QED
    BY <1>2, <2>2
<1>4. Parsed(p, rec)[n] = Value(p, p.columns[i], rec)
  <2>1. n \in {p.columns[j].name : j \in DOMAIN p.columns}
    BY <1>1
  <2> QED
    BY <2>1 DEF Parsed
<1>5. Parsed(p, rec)[n] = Value(p, cd, rec)
  <2> HIDE DEF i
  <2> QED BY <1>3, <1>4
<1>6. Fits(p, cd, rec)
  BY <1>1 DEF Parses
<1>7. CASE p.class = "simple_fixed"
  BY <1>5, <1>6, <1>7 DEF Right, Fits, Value
<1>8. CASE p.class # "simple_fixed"
  <2> HIDE DEF n, Own, i
  <2>1. cd.position \in Nat \ {0} /\ cd.position <= Len(Tokens(rec))
    BY <1>1, <1>6, <1>8 DEF Column, Fits
  <2> HIDE DEF cd
  <2>2. LET t == Tokens(rec)[cd.position] IN
        /\ t \in Nat /\ rec.fields[t]
        /\ Cardinality(Filled(rec, t)) = cd.position
    BY <2>1, TokenIs
  <2>3. Parsed(p, rec)[n] = <<Tokens(rec)[cd.position]>>
    BY <1>5, <1>8 DEF Value
  <2>4. Parsed(p, rec)[n][1] = Tokens(rec)[cd.position]
    BY <2>3
  <2> HIDE <2>3
  <2>5. Right(p, cd, rec, Parsed(p, rec)[n])
    BY <1>8, <2>2, <2>4 DEF Right
  <2> QED
    BY <2>5 DEF cd, n
<1> QED
  BY <1>7, <1>8

LEMMA KeptStep ==
    ASSUME IInv, Positioned, Kept, [Next]_vars PROVE Positioned' /\ Kept'
<1>0. Shape /\ SourceOK /\ ColumnsSound
  BY DEF IInv
<1>1. Prolonged
  BY StepProlongs
<1>2. /\ Len(heap) \in Nat /\ Len(heap') \in Nat /\ Len(heap') >= Len(heap)
      /\ \A o \in 1..Len(heap) : Prolongs(heap'[o], heap[o]) /\ heap[o] \in Parser
  BY <1>0, <1>1 DEF Prolonged, Shape
<1>3. Positioned'
  <2> SUFFICES ASSUME NEW o \in 1..Len(heap'), heap'[o].class # "simple_fixed",
                      NEW k \in 1..Len(heap'[o].columns)
               PROVE  heap'[o].columns[k].position > 0
    BY DEF Positioned
  <2>1. o \in 1..Len(heap)
    <3>1. ~(o > Len(heap))
      <4>1. o > Len(heap) => heap'[o].columns = <<>>
        BY <1>1 DEF Prolonged
      <4>2. Len(<<>>) = 0 /\ ~\E x \in 1..0 : TRUE
        OBVIOUS
      <4> QED
        BY <4>1, <4>2
    <3> QED
      BY <1>2, <3>1
  <2>2. Prolongs(heap'[o], heap[o]) /\ heap[o] \in Parser
    BY <1>2, <2>1
  <2>3. CASE k \in 1..Len(heap[o].columns)
    BY <2>1, <2>2, <2>3 DEF Positioned, Prolongs
  <2>4. CASE k \notin 1..Len(heap[o].columns)
    <3>1. ~Malformed(heap[o], heap'[o].columns[k]) /\ heap[o].class = "simple_delimited"
      <4>1. k = Len(heap'[o].columns) /\ Len(heap'[o].columns) # Len(heap[o].columns)
        BY <2>2, <2>4 DEF Prolongs
      <4>2. heap[o].class = "simple_delimited"
        BY <2>2 DEF Prolongs, Parser, Classes
      <4> QED
        BY <2>2, <4>1, <4>2 DEF Prolongs
    <3>2. ~(heap'[o].columns[k].position <= 0)
      BY <3>1, Zenon DEF Malformed
    <3>3. heap'[o].columns[k].position \in Int
      <4>1. heap'[o] \in Parser
        <5>1. Shape'
          BY Step DEF IInv
        <5> QED
          BY <5>1 DEF Shape
      <4>2. heap'[o].columns[k] \in Column
        BY <4>1 DEF Parser
      <4> QED
        BY <4>2 DEF Column
    <3> QED
      BY <3>2, <3>3
  <2> QED
    BY <2>3, <2>4
<1>4. ASSUME parsed' = parsed PROVE Kept'
  <2> DEFINE o == parsed.parser
  <2> SUFFICES ASSUME parsed.ok
               PROVE  /\ o \in 1..Len(heap')
                      /\ parsed.columns \in 0..Len(heap'[o].columns)
                      /\ \A k \in 1..parsed.columns :
                            Right(heap'[o], heap'[o].columns[k], parsed.record,
                                  parsed.tokens[heap'[o].columns[k].name])
    BY <1>4 DEF Kept
  <2>1. /\ o \in 1..Len(heap) /\ parsed.columns \in 0..Len(heap[o].columns)
        /\ \A k \in 1..parsed.columns :
              Right(heap[o], heap[o].columns[k], parsed.record, parsed.tokens[heap[o].columns[k].name])
    BY DEF Kept
  <2>2. Prolongs(heap'[o], heap[o])
    BY <1>2, <2>1
  <2>3. \A k \in 1..parsed.columns : heap'[o].columns[k] = heap[o].columns[k]
    BY <2>1, <2>2 DEF Prolongs
  <2>4. heap'[o].class = heap[o].class /\ parsed.columns \in 0..Len(heap'[o].columns)
    <3> DEFINE new == heap'[o]
               old == heap[o]
               read == parsed.columns
    <3>1. Prolongs(new, old) /\ read \in 0..Len(old.columns)
      BY <2>1, <2>2
    <3> HIDE DEF new, old, read
    <3>2. new.class = old.class /\ Len(old.columns) \in Nat
          /\ Len(new.columns) \in {Len(old.columns), Len(old.columns) + 1}
      BY <3>1 DEF Prolongs
    <3>3. read \in 0..Len(new.columns)
      BY <3>1, <3>2
    <3> QED
      BY <3>2, <3>3 DEF new, old, read
  <2>5. o \in 1..Len(heap')
    BY <1>2, <2>1
  <2> HIDE DEF o
  <2>6. \A k \in 1..parsed.columns :
           Right(heap'[o], heap'[o].columns[k], parsed.record, parsed.tokens[heap'[o].columns[k].name])
    BY <2>1, <2>3, <2>4 DEF Right
  <2> QED
    BY <2>4, <2>5, <2>6
<1>5. ASSUME NEW s \in States, NEW rec \in Records, ParseRecord(s, rec) PROVE Kept'
  <2> DEFINE o == LookUp(s)
             p == heap[o]
  <2>1. /\ parsed' = [parser |-> o, columns |-> Len(p.columns), ok |-> Parses(p, rec),
                      record |-> rec, tokens |-> IF Parses(p, rec) THEN Parsed(p, rec) ELSE <<>>]
        /\ heap' = [heap EXCEPT ![o] = AfterParse(p, rec)]
        /\ o # 0
    BY <1>5 DEF ParseRecord
  <2>2. o \in 1..Len(heap) /\ p \in Parser /\ rec \in Record
    <3>1. o \in 1..Len(heap)
      BY <1>0, <2>1, LooksUp
    <3>2. \A x \in 1..Len(heap) : heap[x] \in Parser
      BY <1>0 DEF Shape
    <3>3. rec \in Record
      BY ParserConfigAssumption
    <3> QED
      BY <3>1, <3>2, <3>3
  <2>3. /\ \A i, j \in DOMAIN p.columns : i < j => p.columns[i].name # p.columns[j].name
        /\ p.class # "simple_fixed" => \A k \in 1..Len(p.columns) : p.columns[k].position > 0
    <3>1. o \in DOMAIN heap
      BY <1>0, <2>2 DEF Shape
    <3> QED
      BY <1>0, <2>2, <3>1 DEF ColumnsSound, Objects, Positioned
  <2>4. heap'[o].columns = p.columns /\ heap'[o].class = p.class
    <3>1. heap'[o] = AfterParse(p, rec)
      BY <1>0, <2>1, <2>2 DEF Shape
    <3> QED
      BY <2>2, <3>1 DEF AfterParse, Parser
  <2>5. Len(p.columns) \in Nat
    BY <2>2 DEF Parser
  <2> HIDE DEF o, p
  <2>6. ASSUME Parses(p, rec), NEW k \in 1..Len(p.columns)
        PROVE  Right(heap'[o], heap'[o].columns[k], rec, Parsed(p, rec)[heap'[o].columns[k].name])
    <3>1. Right(p, p.columns[k], rec, Parsed(p, rec)[p.columns[k].name])
      BY <2>2, <2>3, <2>6, ParsedRight
    <3> QED
      BY <2>4, <3>1 DEF Right
  <2>7. Len(heap') = Len(heap)
    <3> DEFINE v == AfterParse(p, rec)
    <3> HIDE DEF v
    <3> QED BY <1>0, <2>1 DEF v, Shape
  <2>8. parsed'.ok => Parses(p, rec) /\ parsed'.tokens = Parsed(p, rec)
    BY <2>1
  <2>9. parsed'.parser = o /\ parsed'.columns = Len(p.columns) /\ parsed'.record = rec
    BY <2>1
  <2> HIDE <2>1
  <2> QED
    BY <2>2, <2>4, <2>5, <2>6, <2>7, <2>8, <2>9 DEF Kept
<1> QED
  BY <1>3, <1>4, <1>5, StepProlongs

LEMMA KeptDefined == ASSUME IInv, Positioned, Kept PROVE ParsedAsDefined
<1> DEFINE p == heap[parsed.parser]
           rec == parsed.record
           Of(k) == parsed.tokens[p.columns[k].name]
<1> SUFFICES ASSUME parsed.ok, NEW k \in 1..parsed.columns
             PROVE  IF p.class = "simple_fixed"
                    THEN Of(k) = <<p.columns[k].first, p.columns[k].last>> /\ p.columns[k].last <= rec.size
                    ELSE LET position == p.columns[k].position
                             field == Of(k)[1]
                         IN /\ rec.fields[field] /\ field >= position
                            /\ field = position <=> \A i \in 1..position : rec.fields[i]
                            /\ \A j \in 1..parsed.columns :
                                  p.columns[j].position < position => Of(j)[1] < field
  BY DEF ParsedAsDefined
<1>1. \A j \in 1..parsed.columns : Right(p, p.columns[j], rec, Of(j))
  BY DEF Kept
<1>2. CASE p.class = "simple_fixed"
  BY <1>1, <1>2 DEF Right
<1>3. CASE p.class # "simple_fixed"
  <2>1. \A j \in 1..parsed.columns :
           /\ Of(j)[1] \in Nat /\ rec.fields[Of(j)[1]]
           /\ Cardinality(Filled(rec, Of(j)[1])) = p.columns[j].position
           /\ p.columns[j].position \in Nat
    <3> SUFFICES ASSUME NEW j \in 1..parsed.columns
                 PROVE  /\ Of(j)[1] \in Nat /\ rec.fields[Of(j)[1]]
                        /\ Cardinality(Filled(rec, Of(j)[1])) = p.columns[j].position
                        /\ p.columns[j].position \in Nat
      OBVIOUS
    <3> HIDE DEF p, rec, Of
    <3>1. Right(p, p.columns[j], rec, Of(j))
      BY <1>1
    <3>2. /\ Of(j)[1] \in Nat /\ rec.fields[Of(j)[1]]
          /\ Cardinality(Filled(rec, Of(j)[1])) = p.columns[j].position
      BY <1>3, <3>1 DEF Right
    <3>3. Cardinality(Filled(rec, Of(j)[1])) \in Nat
      BY <3>2, FilledGrows
    <3> QED
      BY <3>2, <3>3
  <2> HIDE DEF p, rec, Of
  <2>2. /\ Of(k)[1] >= p.columns[k].position
        /\ Of(k)[1] = p.columns[k].position <=> \A i \in 1..p.columns[k].position : rec.fields[i]
    BY <2>1, TokenAt
  <2>3. ASSUME NEW j \in 1..parsed.columns, p.columns[j].position < p.columns[k].position
        PROVE  Of(j)[1] < Of(k)[1]
    BY <2>1, <2>3, TokensOrdered
  <2> QED
    BY <1>3, <2>1, <2>2, <2>3
<1> QED
  BY <1>2, <1>3

\* A record that parses has for every column of its parser the characters the
\* column names, or the field that is the position-th of those not empty: the one
\* the column names just when none up to there is empty.  For any columns and
\* records: defineColumn, tokenize and parseRecord of both parsers.
THEOREM ParsesAsDefined == Spec => []ParsedAsDefined
<1>1. Init => Positioned /\ Kept
  <2> SUFFICES ASSUME Init PROVE Positioned /\ Kept
    OBVIOUS
  <2>1. Len(heap) = 0 /\ ~parsed.ok
    BY DEF Init, NoRecord
  <2> QED
    BY <2>1 DEF Positioned, Kept
<1>2. IInv /\ Positioned /\ Kept /\ [Next]_vars => Positioned' /\ Kept'
  BY KeptStep
<1>3. IInv /\ Positioned /\ Kept => ParsedAsDefined
  BY KeptDefined
<1> QED
  BY <1>1, <1>2, <1>3, Invariant, PTL DEF Spec
-----------------------------------------------------------------------------
(* Groups of a class are not mixed.                                        *)

\* Group g has put parser o into the table, or has a column in it.
Has(o, g) ==
    \/ \E k \in 1..Len(source[o]) : source[o][k] = g
    \/ \E s \in DOMAIN table : table[s] = o /\ by[s] = g

OneKnown(a, b) == \A g, h \in a..b : groups[g].known /\ groups[h].known => g = h

\* It is enough to look from one group of a parser to another.
Near ==
    \A o \in 1..Len(heap) : \A a, b \in 1..Len(groups) : Has(o, a) /\ Has(o, b) => OneKnown(a, b)

\* The current parser can have more of the last group.
NearLast ==
    current # 0 => \A a \in 1..Len(groups) : Has(current, a) => OneKnown(a, Len(groups))

\* The blocks passed over are without a class, and between files and blocks there
\* is no parser in hand.
Passed ==
    /\ pc \in {"init", "columns"} => \A g \in opened..Len(groups) : groups[g].known => g = Len(groups)
    /\ pc \in {"idle", "outer", "init", "broken"} => current = 0

MixInv == Near /\ NearLast /\ Passed

\* The groups grow, or lose the class of one, and no parser has more of them.
LEMMA NearSame ==
    ASSUME Shape, Near, Len(groups') >= Len(groups), Len(groups') \in Nat,
           \A g \in 1..Len(groups) : groups'[g].known => groups[g].known,
           \A o \in 1..Len(heap'), g \in 1..Len(groups') :
              Has(o, g)' => o \in 1..Len(heap) /\ g \in 1..Len(groups) /\ Has(o, g)
    PROVE  Near'
<1> SUFFICES ASSUME NEW o \in 1..Len(heap'), NEW a \in 1..Len(groups'), NEW b \in 1..Len(groups'),
                    Has(o, a)', Has(o, b)', NEW g \in a..b, NEW h \in a..b,
                    groups'[g].known, groups'[h].known
             PROVE  g = h
  BY DEF Near, OneKnown
<1>1. /\ o \in 1..Len(heap) /\ a \in 1..Len(groups) /\ b \in 1..Len(groups)
      /\ Has(o, a) /\ Has(o, b) /\ Len(groups) \in Nat
  BY DEF Shape
<1>2. g \in 1..Len(groups) /\ h \in 1..Len(groups)
  BY <1>1
<1>3. groups[g].known /\ groups[h].known
  BY <1>2
<1> QED
  BY <1>1, <1>3 DEF Near, OneKnown

\* The current parser has more of a group x, from which to the others it has of
\* there is one class at most.
LEMMA NearMore ==
    ASSUME Shape, Near, current # 0, UNCHANGED groups, Len(heap') = Len(heap),
           NEW x \in 1..Len(groups), OneKnown(x, x),
           \A a \in 1..Len(groups) : Has(current, a) => OneKnown(a, x) /\ OneKnown(x, a),
           \A o \in 1..Len(heap), g \in 1..Len(groups) :
              Has(o, g)' => Has(o, g) \/ (o = current /\ g = x)
    PROVE  Near'
<1> SUFFICES ASSUME NEW o \in 1..Len(heap), NEW a \in 1..Len(groups), NEW b \in 1..Len(groups),
                    Has(o, a)', Has(o, b)'
             PROVE  OneKnown(a, b)'
  BY DEF Near
<1>1. CASE Has(o, a) /\ Has(o, b)
  BY <1>1 DEF Near, OneKnown
<1>2. CASE ~Has(o, a) \/ ~Has(o, b)
  <2>1. /\ o = current
        /\ Has(current, a) \/ a = x
        /\ Has(current, b) \/ b = x
        /\ a = x \/ b = x
    BY <1>2
  <2>2. OneKnown(a, b)
    BY <2>1
  <2> QED
    BY <2>2 DEF OneKnown
<1> QED
  BY <1>1, <1>2

\* One group alone has one class at most.
LEMMA OneAlone == ASSUME NEW x \in Nat PROVE OneKnown(x, x)
  BY DEF OneKnown

\* Nothing is added, and the parser in hand stays or is put down.
LEMMA MixQuiet ==
    ASSUME IInv, MixInv, UNCHANGED <<table, source, by>>, Len(heap') = Len(heap),
           Len(groups') = Len(groups),
           \A g \in 1..Len(groups) : groups'[g].known => groups[g].known,
           current' \in {0, current}, Passed'
    PROVE  MixInv'
<1>0. Shape /\ Near /\ NearLast /\ Len(groups) \in Nat
  BY DEF IInv, MixInv, Shape
<1>1. \A o, g : Has(o, g)' => Has(o, g)
  BY DEF Has
<1>2. Near'
  BY <1>0, <1>1, NearSame
<1>3. NearLast'
  <2> SUFFICES ASSUME current' # 0, NEW a \in 1..Len(groups), Has(current, a),
                      NEW g \in a..Len(groups), NEW h \in a..Len(groups),
                      groups'[g].known, groups'[h].known
               PROVE  g = h
    BY <1>1 DEF NearLast, OneKnown
  <2>1. groups[g].known /\ groups[h].known
    BY <1>0
  <2> QED
    BY <1>0, <2>1 DEF NearLast, OneKnown
<1> QED
  BY <1>2, <1>3 DEF MixInv

\* onGroup.
LEMMA MixGroup ==
    ASSUME IInv, IInv', MixInv, NEW s \in Asked, NEW class, Group(s, class)
    PROVE  MixInv'
<1> DEFINE g == [state |-> s, known |-> class \in Classes]
<1>0. Shape /\ SourceOK /\ ColumnsSound /\ Near /\ NearLast
  BY DEF IInv, MixInv
<1>1. /\ groups' = Append(groups, g) /\ pc' = "properties" /\ UNCHANGED <<table, by>>
  BY DEF Group, Begins
<1>2. /\ Len(groups') = Len(groups) + 1 /\ Len(groups) \in Nat /\ Len(heap) \in Nat
      /\ \A i \in 1..Len(groups) : groups'[i] = groups[i]
      /\ groups'[Len(groups')].known = (class \in Classes)
  <2>1. groups' \in Seq([state : Asked, known : BOOLEAN]) /\ g.known = (class \in Classes)
    BY DEF IInv, Shape
  <2> HIDE DEF g
  <2> QED
    BY <1>0, <1>1, <2>1 DEF Shape
<1>3. Passed'
  BY <1>1 DEF Passed
<1>4. CASE class \in Classes
  <2>1. /\ Len(heap') = Len(heap) + 1 /\ current' = Len(heap) + 1
        /\ \A o \in 1..Len(heap) : source'[o] = source[o]
        /\ source'[current'] = <<>>
    BY <1>0, <1>4, MakeSound DEF Group
  <2>2. \A t \in DOMAIN table : table[t] \in 1..Len(heap) /\ by[t] \in 1..Len(groups)
    BY <1>0 DEF Shape
  <2>3. \A a : ~Has(current, a)'
    <3>1. \A t \in DOMAIN table : table[t] # current'
      BY <1>2, <2>1, <2>2
    <3>2. Len(source'[current']) = 0
      BY <2>1
    <3> QED
      BY <1>1, <3>1, <3>2 DEF Has
  <2>4. ASSUME NEW o \in 1..Len(heap'), NEW a \in 1..Len(groups'), Has(o, a)'
        PROVE  o \in 1..Len(heap) /\ a \in 1..Len(groups) /\ Has(o, a)
    <3>1. o \in 1..Len(heap)
      BY <1>2, <2>1, <2>3, <2>4
    <3>2. Has(o, a)
      BY <1>1, <2>1, <2>4, <3>1 DEF Has
    <3>3. a \in 1..Len(groups)
      BY <1>0, <2>2, <3>1, <3>2 DEF Has, SourceOK
    <3> QED
      BY <3>1, <3>2, <3>3
  <2>5. Near'
    BY <1>0, <1>2, <2>4, NearSame
  <2>6. NearLast'
    BY <2>3 DEF NearLast
  <2> QED
    BY <1>3, <2>5, <2>6 DEF MixInv
<1>5. CASE class \notin Classes
  <2>1. UNCHANGED <<heap, source, current>>
    BY <1>5 DEF Group
  <2>2. \A o, a : Has(o, a)' => Has(o, a)
    BY <1>1, <2>1 DEF Has
  <2>3. \A o \in 1..Len(heap) : \A a : Has(o, a) => a \in 1..Len(groups)
    BY <1>0 DEF Has, SourceOK, Shape
  <2>4. Near'
    BY <1>0, <1>2, <2>1, <2>2, <2>3, NearSame
  <2>5. NearLast'
    <3> SUFFICES ASSUME current' # 0, NEW a \in 1..Len(groups'), Has(current, a)',
                        NEW i \in a..Len(groups'), NEW j \in a..Len(groups'),
                        groups'[i].known, groups'[j].known
                 PROVE  i = j
      BY DEF NearLast, OneKnown
    <3>1. current # 0 /\ Has(current, a) /\ a \in 1..Len(groups)
      BY <1>0, <2>1, <2>2, <2>3 DEF Shape
    <3>2. i # Len(groups') /\ j # Len(groups')
      BY <1>2, <1>5
    <3>3. i \in a..Len(groups) /\ j \in a..Len(groups)
      BY <1>2, <3>1, <3>2
    <3>4. groups[i].known /\ groups[j].known
      BY <1>2, <3>1, <3>3
    <3> QED
      BY <1>0, <3>1, <3>3, <3>4 DEF NearLast, OneKnown
  <2> QED
    BY <1>3, <2>4, <2>5 DEF MixInv
<1> QED
  BY <1>4, <1>5

\* A column that is tried: onElem, and a line of a block.
LEMMA MixTry ==
    ASSUME IInv, MixInv, NEW cd \in Column, current # 0, Try(cd), Len(groups) # 0,
           UNCHANGED <<table, groups, by>>, current' \in {0, current}, Passed'
    PROVE  MixInv'
<1>0. Shape /\ SourceOK /\ Near /\ NearLast
  BY DEF IInv, MixInv
<1>1. Len(groups) \in 1..Len(groups) /\ current \in 1..Len(heap) /\ source[current] \in Seq(Nat)
  BY <1>0 DEF Shape
<1>2. /\ Len(heap') = Len(heap)
      /\ \A o \in 1..Len(heap) : o # current => source'[o] = source[o]
      /\ source'[current] = source[current] \/ source'[current] = Append(source[current], Len(groups))
  BY <1>0, TryDoes
<1>3. \A o \in 1..Len(heap), g \in 1..Len(groups) :
         Has(o, g)' => Has(o, g) \/ (o = current /\ g = Len(groups))
  <2> SUFFICES ASSUME NEW o \in 1..Len(heap), NEW g \in 1..Len(groups), Has(o, g)',
                      ~(o = current /\ g = Len(groups))
               PROVE  Has(o, g)
    OBVIOUS
  <2>1. CASE \E t \in DOMAIN table : table[t] = o /\ by[t] = g
    BY <2>1 DEF Has
  <2>2. CASE \E k \in 1..Len(source'[o]) : source'[o][k] = g
    <3> PICK k \in 1..Len(source'[o]) : source'[o][k] = g
      BY <2>2
    <3>1. CASE source'[o] = source[o]
      BY <3>1 DEF Has
    <3>2. CASE o = current /\ source'[current] = Append(source[current], Len(groups))
      <4>1. k \in 1..Len(source[current]) /\ source[current][k] = g
        BY <1>1, <3>2
      <4> QED
        BY <3>2, <4>1 DEF Has
    <3> QED
      BY <1>2, <3>1, <3>2
  <2> QED
    BY <2>1, <2>2 DEF Has
<1>4. OneKnown(Len(groups), Len(groups))
  BY <1>1, OneAlone
<1>5. \A a \in 1..Len(groups) :
         Has(current, a) => OneKnown(a, Len(groups)) /\ OneKnown(Len(groups), a)
  <2> SUFFICES ASSUME NEW a \in 1..Len(groups), Has(current, a)
               PROVE  OneKnown(a, Len(groups)) /\ OneKnown(Len(groups), a)
    OBVIOUS
  <2>1. \A g \in Len(groups)..a : g = Len(groups)
    BY <1>1
  <2>2. OneKnown(Len(groups), a)
    BY <2>1 DEF OneKnown
  <2> QED
    BY <1>0, <2>2 DEF NearLast
<1>6. Near'
  BY <1>0, <1>1, <1>2, <1>3, <1>4, <1>5, NearMore
<1>7. NearLast'
  <2>1. ASSUME NEW a \in 1..Len(groups), current' # 0, Has(current, a)'
        PROVE  OneKnown(a, Len(groups))
    <3>1. current' = current
      BY <2>1
    <3>2. \A o \in 1..Len(heap) : o = current' => Has(o, a)'
      BY <2>1 DEF Has
    <3>3. ASSUME NEW o \in 1..Len(heap), o = current
          PROVE  Has(o, a) \/ a = Len(groups)
      <4>1. Has(o, a)'
        BY <3>1, <3>2, <3>3
      <4> QED
        BY <1>3, <3>3, <4>1
    <3>4. Has(current, a) \/ a = Len(groups)
      BY <1>1, <3>3
    <3> QED
      BY <1>4, <1>5, <3>4
  <2> QED
    BY <2>1 DEF NearLast, OneKnown
<1> QED
  BY <1>6, <1>7 DEF MixInv

\* A parser that is put into the table: onGroupFinal, and the end of a block.
LEMMA MixInsert ==
    ASSUME IInv, MixInv, NEW s, current # 0, Insert(s), UNCHANGED <<heap, groups, source>>,
           opened \in 1..Len(groups), OneKnown(opened, Len(groups)),
           \A a \in 1..Len(groups) : Has(current, a) => OneKnown(a, opened) /\ OneKnown(opened, a),
           current' # 0 => current' = current /\ opened = Len(groups),
           Passed'
    PROVE  MixInv'
<1>0. Shape /\ Near /\ NearLast
  BY DEF IInv, MixInv
<1>1. \A o, g : Has(o, g)' => Has(o, g) \/ (o = current /\ g = opened)
  <2>1. CASE s \in DOMAIN table
    BY <2>1 DEF Insert, Has
  <2>2. CASE s \notin DOMAIN table
    <3>1. /\ DOMAIN by = DOMAIN table
          /\ table' = [t \in DOMAIN table \cup {s} |-> IF t = s THEN current ELSE table[t]]
          /\ by' = [t \in DOMAIN by \cup {s} |-> IF t = s THEN opened ELSE by[t]]
      BY <1>0, <2>2 DEF Insert, Shape
    <3>2. /\ DOMAIN table' = DOMAIN table \cup {s}
          /\ table'[s] = current /\ by'[s] = opened
          /\ \A t \in DOMAIN table : table'[t] = table[t] /\ by'[t] = by[t]
      BY <2>2, <3>1
    <3> QED
      BY <3>2 DEF Has
  <2> QED
    BY <2>1, <2>2
<1>2. OneKnown(opened, opened)
  BY OneAlone DEF Shape
<1>3. Near'
  BY <1>0, <1>1, <1>2, NearMore
<1>4. NearLast'
  <2> SUFFICES ASSUME current' # 0, NEW a \in 1..Len(groups), Has(current, a)'
               PROVE  OneKnown(a, Len(groups))
    BY DEF NearLast, OneKnown
  <2>1. current' = current /\ opened = Len(groups)
    OBVIOUS
  <2>2. \A o : o = current' => Has(o, a)'
    BY DEF Has
  <2>3. ASSUME NEW o, o = current
        PROVE  Has(o, a) \/ a = opened
    <3>1. Has(o, a)'
      BY <2>1, <2>2, <2>3
    <3> QED
      BY <1>1, <2>3, <3>1
  <2>4. Has(current, a) \/ a = opened
    BY <2>3
  <2> QED
    BY <2>1, <2>4
<1> QED
  BY <1>3, <1>4, <1>0 DEF MixInv

\* A line <parser: groups more, and no parser in hand.
LEMMA MixLines ==
    ASSUME IInv, MixInv, current = 0, UNCHANGED <<heap, table, current, source, by>>,
           Len(groups') = Len(groups) + 1,
           \A g \in 1..Len(groups) : groups'[g].known => groups[g].known,
           Passed'
    PROVE  MixInv'
<1>0. Shape /\ SourceOK /\ Near /\ Len(groups) \in Nat
  BY DEF IInv, MixInv, Shape
<1>1. \A o, g : Has(o, g)' => Has(o, g)
  BY DEF Has
<1>2. \A o \in 1..Len(heap) : \A g : Has(o, g) => g \in 1..Len(groups)
  BY <1>0 DEF Has, SourceOK, Shape
<1>3. Near'
  BY <1>0, <1>1, <1>2, NearSame
<1> QED
  BY <1>3 DEF MixInv, NearLast

\* The line with the class: a new parser, which no group has.
LEMMA MixMake ==
    ASSUME IInv, MixInv, NEW class \in Classes, Make(class), UNCHANGED <<table, by, groups>>, Passed'
    PROVE  MixInv'
<1>0. Shape /\ SourceOK /\ ColumnsSound /\ Near /\ Len(groups) \in Nat /\ Len(heap) \in Nat
  BY DEF IInv, MixInv, Shape
<1>1. /\ Len(heap') = Len(heap) + 1 /\ current' = Len(heap) + 1
      /\ \A o \in 1..Len(heap) : source'[o] = source[o]
      /\ source'[current'] = <<>>
  BY <1>0, MakeSound
<1>2. \A t \in DOMAIN table : table[t] \in 1..Len(heap) /\ by[t] \in 1..Len(groups)
  BY <1>0 DEF Shape
<1>3. \A a : ~Has(current, a)'
  <2>1. \A t \in DOMAIN table : table[t] # current'
    BY <1>0, <1>1, <1>2
  <2>2. Len(source'[current']) = 0
    BY <1>1
  <2> QED
    BY <2>1, <2>2 DEF Has
<1>4. ASSUME NEW o \in 1..Len(heap'), NEW a \in 1..Len(groups'), Has(o, a)'
      PROVE  o \in 1..Len(heap) /\ a \in 1..Len(groups) /\ Has(o, a)
  <2>1. o \in 1..Len(heap)
    BY <1>0, <1>1, <1>3, <1>4
  <2> QED
    BY <1>1, <1>4, <2>1 DEF Has
<1>5. Near'
  BY <1>0, <1>4, NearSame
<1> QED
  BY <1>3, <1>5 DEF MixInv, NearLast

\* A line <parser, where a block begins.
LEMMA MixParserLine ==
    ASSUME IInv, MixInv, NEW s \in Asked, ParserLine(s)
    PROVE  MixInv'
<1>i. /\ Shape /\ Reading /\ Passed
      /\ Len(groups) \in Nat /\ opened \in 0..Len(groups)
  <2>1. Shape /\ Reading /\ Passed
    BY DEF IInv, MixInv
  <2> QED
    BY <2>1 DEF Shape
<1> DEFINE x == [state |-> s, known |-> TRUE]
<1>1. /\ groups' = Append(groups, x) /\ opened' = Len(groups) + 1 /\ pc' = "init"
      /\ UNCHANGED <<heap, table, current, source, by>> /\ current = 0
  BY <1>i DEF ParserLine, Begins, Passed
<1>2. /\ Len(groups') = Len(groups) + 1
      /\ \A i \in 1..Len(groups) : groups'[i] = groups[i]
  <2>1. x \in [state : Asked, known : BOOLEAN]
    BY DEF Asked
  <2> HIDE DEF x
  <2>2. groups' = Append(groups, x) /\ groups \in Seq([state : Asked, known : BOOLEAN])
    BY <1>i, <1>1 DEF Shape
  <2> QED
    BY <2>1, <2>2
<1>3. Passed'
  <2>1. opened' = Len(groups') /\ \A g \in opened'..Len(groups') : g = Len(groups')
    <3>1. Len(groups') = Len(groups) + 1 /\ Len(groups) \in Nat /\ opened' = Len(groups) + 1
      BY <1>i, <1>1, <1>2
    <3> HIDE DEF x
    <3> QED
      BY <3>1
  <2> QED
    BY <1>1, <2>1 DEF Passed
<1> QED
  BY <1>i, <1>1, <1>2, <1>3, MixLines

\* And one that is passed over.
LEMMA MixPassOver ==
    ASSUME IInv, MixInv, NEW s \in Asked, PassOver(s)
    PROVE  MixInv'
<1>i. /\ Shape /\ Reading /\ Passed
      /\ Len(groups) \in Nat /\ opened \in 0..Len(groups)
  <2>1. Shape /\ Reading /\ Passed
    BY DEF IInv, MixInv
  <2> QED
    BY <2>1 DEF Shape
<1> DEFINE x == [state |-> s, known |-> TRUE]
           u == LastUnknown
<1>1. /\ groups' = Append(LastUnknown, x) /\ pc = "init" /\ current = 0
      /\ UNCHANGED <<heap, table, current, pc, opened, source, by>>
      /\ opened # 0
      /\ \A g \in opened..Len(groups) : groups[g].known => g = Len(groups)
  BY <1>i DEF PassOver, Passed, Reading
<1>0. opened \in 1..Len(groups) /\ Len(groups) # 0
  <2>1. opened # 0
    BY <1>1
  <2> HIDE DEF u, x
  <2> QED
    BY <1>i, <2>1
<1>2. /\ LastUnknown \in Seq([state : Asked, known : BOOLEAN])
      /\ Len(LastUnknown) = Len(groups) /\ ~LastUnknown[Len(groups)].known
      /\ \A g \in 1..Len(groups) : LastUnknown[g].known => groups[g].known
  BY <1>i, <1>0, Forgotten
<1>3. /\ Len(groups') = Len(groups) + 1
      /\ \A i \in 1..Len(groups) : groups'[i] = LastUnknown[i]
  <2> DEFINE R == [state : Asked, known : BOOLEAN]
  <2>1. u \in Seq(R) /\ Len(u) = Len(groups) /\ x \in R /\ groups' = Append(u, x)
    BY <1>1, <1>2 DEF Asked
  <2> HIDE DEF R, u, x
  <2>2. Len(groups') = Len(groups) + 1 /\ \A i \in 1..Len(groups) : groups'[i] = u[i]
    <3>1. Len(groups) \in Nat
      BY <1>i
    <3> QED
      BY <2>1, <3>1
  <2> QED
    BY <2>2 DEF u
<1>4. \A g \in opened..Len(groups) : ~groups'[g].known
  <2> SUFFICES ASSUME NEW g \in opened..Len(groups) PROVE ~groups'[g].known
    OBVIOUS
  <2> HIDE DEF u, x
  <2>1. g \in 1..Len(groups)
    BY <1>i, <1>0
  <2> QED
    BY <1>1, <1>2, <1>3, <2>1
<1>5. Passed'
  <2>1. \A g \in opened..Len(groups') : g = Len(groups') \/ g \in opened..Len(groups)
    <3>1. Len(groups') = Len(groups) + 1 /\ Len(groups) \in Nat /\ opened \in Nat
      BY <1>i, <1>0, <1>3
    <3> HIDE DEF u, x
    <3> QED
      BY <3>1
  <2> QED
    BY <1>1, <1>4, <2>1 DEF Passed
<1> QED
  BY <1>i, <1>1, <1>2, <1>3, <1>5, MixLines

\* Every step keeps them apart.
LEMMA MixStep == IInv /\ MixInv /\ [Next]_vars => MixInv'
<1> SUFFICES ASSUME IInv, MixInv, [Next]_vars PROVE MixInv'
  OBVIOUS
<1>0. /\ Shape /\ Reading /\ Passed /\ Near /\ NearLast
      /\ Len(groups) \in Nat /\ opened \in 0..Len(groups) /\ current \in 0..Len(heap)
      /\ Columns \subseteq Column
  <2>1. Shape /\ Reading /\ Passed /\ Near /\ NearLast
    BY DEF IInv, MixInv
  <2>2. Len(groups) \in Nat /\ opened \in 0..Len(groups) /\ current \in 0..Len(heap)
    BY <2>1 DEF Shape
  <2> QED
    BY <2>1, <2>2, ParserConfigAssumption
<1>1. CASE UNCHANGED vars
  <2>1. Passed'
    BY <1>0, <1>1 DEF vars, Passed
  <2> QED
    BY <1>0, <1>1, <2>1, MixQuiet DEF vars
<1>2. CASE LoadReaderProperties \/ ReadParserConfigFile
  <2>1. Passed'
    BY <1>0, <1>2 DEF LoadReaderProperties, ReadParserConfigFile, Passed
  <2> QED
    BY <1>0, <1>2, <2>1, MixQuiet DEF LoadReaderProperties, ReadParserConfigFile
<1>3. ASSUME NEW s \in States \cup {""}, NEW class, Group(s, class) PROVE MixInv'
  <2>1. IInv'
    BY Step
  <2> QED
    BY <1>3, <2>1, MixGroup DEF Asked
<1>4. ASSUME NEW cd \in Columns, Elem(cd) PROVE MixInv'
  <2>1. /\ pc = "properties" /\ inTarget /\ UNCHANGED <<table, groups, opened, by>>
        /\ Len(groups) # 0
    BY <1>0, <1>4 DEF Elem, Reading
  <2>2. CASE Stop
    <3>1. current' = 0 /\ Passed'
      BY <2>2 DEF Stop, Passed
    <3>2. CASE current = 0
      BY <1>0, <1>4, <2>1, <3>1, <3>2, MixQuiet DEF Elem
    <3>3. CASE current # 0
      BY <1>0, <1>4, <2>1, <3>1, <3>3, MixTry DEF Elem
    <3> QED
      BY <3>2, <3>3
  <2>3. CASE current # 0 /\ UNCHANGED <<pc, current, state, inTarget>>
    <3>1. Passed'
      BY <1>0, <2>1, <2>3 DEF Passed
    <3> QED
      BY <1>0, <1>4, <2>1, <2>3, <3>1, MixTry DEF Elem
  <2> QED
    BY <1>4, <2>2, <2>3 DEF Elem
<1>5. ASSUME NEW cd \in Columns, ColumnLine(cd) PROVE MixInv'
  <2>1. /\ pc = "columns" /\ Try(cd) /\ UNCHANGED <<table, groups, opened, by>>
        /\ current # 0 /\ Len(groups) # 0
    BY <1>0, <1>5 DEF ColumnLine, Reading, New
  <2>2. current' \in {0, current} /\ Passed'
    <3>1. CASE Stop
      BY <3>1 DEF Stop, Passed
    <3>2. CASE UNCHANGED <<current, state, inTarget, pc>>
      BY <1>0, <2>1, <3>2 DEF Passed
    <3> QED
      BY <1>5, <3>1, <3>2 DEF ColumnLine
  <2> QED
    BY <1>0, <2>1, <2>2, MixTry
<1>6. CASE GroupFinal
  <2>1. /\ pc' = "properties" /\ opened = Len(groups) /\ opened # 0
        /\ UNCHANGED <<heap, current, groups, source>>
    BY <1>0, <1>6 DEF GroupFinal, Reading
  <2>2. Passed'
    BY <2>1 DEF Passed
  <2>3. CASE UNCHANGED <<table, by>>
    BY <1>0, <2>1, <2>2, <2>3, MixQuiet
  <2>4. CASE current # 0 /\ Insert(state)
    <3>1. OneKnown(opened, Len(groups))
      BY <1>0, <2>1, OneAlone
    <3>2. \A a \in 1..Len(groups) : Has(current, a) => OneKnown(a, opened) /\ OneKnown(opened, a)
      <4> SUFFICES ASSUME NEW a \in 1..Len(groups), Has(current, a)
                   PROVE  OneKnown(a, opened) /\ OneKnown(opened, a)
        OBVIOUS
      <4>1. \A g \in opened..a : g = opened
        BY <1>0, <2>1
      <4>2. OneKnown(opened, a)
        BY <4>1 DEF OneKnown
      <4> QED
        BY <1>0, <2>1, <2>4, <4>2 DEF NearLast
    <3>3. opened \in 1..Len(groups)
      BY <1>0, <2>1
    <3> QED
      BY <2>1, <2>2, <2>4, <3>1, <3>2, <3>3, MixInsert
  <2> QED
    BY <1>6, <2>3, <2>4 DEF GroupFinal
<1>7. CASE EndOfBlock
  <2>1. /\ pc = "columns" /\ current # 0 /\ opened # 0 /\ current' = 0
        /\ \A g \in opened..Len(groups) : groups[g].known => g = Len(groups)
        /\ \A t \in DOMAIN table : table[t] # current
        /\ \A k \in 1..Len(source[current]) : source[current][k] = Len(groups)
        /\ UNCHANGED <<heap, groups, source>> /\ pc' \in {"idle", "outer"}
    BY <1>0, <1>7 DEF EndOfBlock, Stop, Reading, New, Passed
  <2>2. Passed'
    BY <2>1 DEF Passed
  <2>3. CASE UNCHANGED <<table, by>>
    BY <1>0, <2>1, <2>2, <2>3, MixQuiet
  <2>4. CASE Insert(state)
    <3>1. OneKnown(opened, Len(groups))
      BY <2>1 DEF OneKnown
    <3>2. \A a \in 1..Len(groups) : Has(current, a) => OneKnown(a, opened) /\ OneKnown(opened, a)
      <4> SUFFICES ASSUME NEW a \in 1..Len(groups), Has(current, a)
                   PROVE  OneKnown(a, opened) /\ OneKnown(opened, a)
        OBVIOUS
      <4>1. a = Len(groups)
        BY <2>1 DEF Has
      <4>2. \A g \in a..opened : g = a
        BY <1>0, <4>1
      <4>3. OneKnown(a, opened)
        BY <4>2 DEF OneKnown
      <4> QED
        BY <3>1, <4>1, <4>3
    <3>3. opened \in 1..Len(groups)
      BY <1>0, <2>1
    <3> QED
      BY <2>1, <2>2, <2>4, <3>1, <3>2, <3>3, MixInsert
  <2> QED
    BY <1>7, <2>3, <2>4 DEF EndOfBlock
<1>8. CASE EndOfProperties \/ EndOfFile
  <2>1. current' = 0 /\ Passed' /\ UNCHANGED <<heap, table, groups, source, by>>
    BY <1>8 DEF EndOfProperties, EndOfFile, Stop, Passed
  <2> QED
    BY <1>0, <2>1, MixQuiet
<1>9. ASSUME NEW s \in States \cup {""}, ParserLine(s) \/ PassOver(s) PROVE MixInv'
  BY <1>9, MixParserLine, MixPassOver DEF Asked
<1>11. ASSUME NEW class, InitLine(class) PROVE MixInv'
  <2>1. pc = "init" /\ current = 0 /\ UNCHANGED <<table, opened, by>> /\ opened # 0
    BY <1>0, <1>11 DEF InitLine, Passed, Reading
  <2>2. CASE class \in Classes
    <3>1. Make(class) /\ pc' = "columns" /\ UNCHANGED groups
      BY <1>11, <2>2 DEF InitLine
    <3>2. Passed'
      BY <1>0, <2>1, <3>1 DEF Passed
    <3> QED
      BY <2>1, <2>2, <3>1, <3>2, MixMake
  <2>3. CASE class \notin Classes
    <3>1. Stop /\ groups' = LastUnknown /\ UNCHANGED <<heap, source>>
      BY <1>11, <2>3 DEF InitLine
    <3>2. current' = 0 /\ Passed'
      BY <3>1 DEF Stop, Passed
    <3>3. /\ Len(groups') = Len(groups)
          /\ \A g \in 1..Len(groups) : groups'[g].known => groups[g].known
      BY <1>0, <2>1, <3>1, Forgotten
    <3> QED
      BY <1>0, <2>1, <3>1, <3>2, <3>3, MixQuiet
  <2> QED
    BY <2>2, <2>3
<1>12. CASE LineTooLong
  <2>1. /\ UNCHANGED <<heap, table, groups, opened, source, by>>
        /\ current' \in {0, current} /\ Passed'
    BY <1>0, <1>12 DEF LineTooLong, Stop, Passed
  <2> QED
    BY <1>0, <2>1, MixQuiet
<1>13. ASSUME NEW s \in States, NEW rec \in Records, ParseRecord(s, rec) PROVE MixInv'
  <2>1. UNCHANGED <<table, current, pc, groups, opened, source, by>> /\ Len(heap') = Len(heap)
    <3>1. heap' = [heap EXCEPT ![LookUp(s)] = AfterParse(heap[LookUp(s)], rec)]
      BY <1>13 DEF ParseRecord
    <3> QED
      BY <1>0, <1>13, <3>1 DEF ParseRecord, Shape
  <2>2. Passed'
    BY <1>0, <2>1 DEF Passed
  <2> QED
    BY <1>0, <2>1, <2>2, MixQuiet
<1>14. CASE ReadLine
  BY <1>3, <1>4, <1>5, <1>6, <1>7, <1>8, <1>9, <1>11, <1>12, <1>14 DEF ReadLine
<1> QED
  BY <1>1, <1>2, <1>13, <1>14 DEF Next, Spin

\* However a file is cut or damaged, no parser is put together from two groups
\* that have a class each, nor handed on across such a group: onGroup, onElem,
\* onGroupFinal, readParserConfigFile and getParser.
THEOREM ClassesAreApart == Spec => []OneClassOnly
<1>1. Init => MixInv
  <2> SUFFICES ASSUME Init PROVE MixInv
    OBVIOUS
  <2>1. Len(heap) = 0 /\ current = 0 /\ pc = "idle"
    BY DEF Init
  <2> QED
    BY <2>1 DEF MixInv, Near, NearLast, Passed
<1>2. IInv /\ MixInv => OneClassOnly
  <2> SUFFICES ASSUME IInv, MixInv, NEW s \in DOMAIN table
               PROVE  LET o == table[s]
                          Its == {by[s]} \cup {source[o][k] : k \in DOMAIN source[o]}
                          Span == {g \in DOMAIN groups : \E a, b \in Its : a <= g /\ g <= b}
                      IN \A g, h \in Span : groups[g].known /\ groups[h].known => g = h
    BY DEF OneClassOnly
  <2> DEFINE o == table[s]
             Its == {by[s]} \cup {source[o][k] : k \in DOMAIN source[o]}
  <2>1. /\ o \in 1..Len(heap) /\ by[s] \in 1..Len(groups) /\ DOMAIN source[o] = 1..Len(source[o])
        /\ \A k \in 1..Len(source[o]) : source[o][k] \in 1..Len(groups)
        /\ DOMAIN groups = 1..Len(groups) /\ Len(groups) \in Nat
    <3>1. s \in DOMAIN by /\ Shape /\ SourceOK
      BY DEF IInv, Shape
    <3>2. /\ o \in 1..Len(heap) /\ by[s] \in 1..Len(groups)
          /\ \A k \in 1..Len(source[o]) : source[o][k] \in 1..Len(groups)
      BY <3>1 DEF Shape, SourceOK
    <3>3. DOMAIN source[o] = 1..Len(source[o])
      BY <3>1, <3>2 DEF Shape
    <3>4. DOMAIN groups = 1..Len(groups) /\ Len(groups) \in Nat
      BY <3>1 DEF Shape
    <3> QED
      BY <3>2, <3>3, <3>4
  <2>2. \A a \in Its : a \in 1..Len(groups) /\ Has(o, a)
    BY <2>1 DEF Has
  <2> HIDE DEF o, Its
  <2>3. ASSUME NEW g \in 1..Len(groups), NEW h \in 1..Len(groups), groups[g].known, groups[h].known,
               NEW a \in Its, NEW b \in Its, a <= g, h <= b, g <= h
        PROVE  g = h
    <3>1. OneKnown(a, b)
      BY <2>1, <2>2 DEF MixInv, Near
    <3>2. g \in a..b /\ h \in a..b
      BY <2>1, <2>2, <2>3
    <3> QED
      BY <2>3, <3>1, <3>2 DEF OneKnown
  <2>4. ASSUME NEW g \in 1..Len(groups), NEW h \in 1..Len(groups), groups[g].known, groups[h].known,
               \E a, b \in Its : a <= g /\ g <= b, \E a, b \in Its : a <= h /\ h <= b
        PROVE  g = h
    <3>1. g <= h \/ h <= g
      BY <2>1
    <3> QED
      BY <2>3, <2>4, <3>1
  <2> QED
    BY <2>1, <2>4 DEF o, Its
<1>3. IInv /\ MixInv /\ [Next]_vars => MixInv'
  BY MixStep
<1> QED
  BY <1>1, <1>2, <1>3, Invariant, PTL DEF Spec
=============================================================================
