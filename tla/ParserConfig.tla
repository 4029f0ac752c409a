----------------------------- MODULE ParserConfig -----------------------------
(***************************************************************************)
(* The parsers of a record reader and the two ways they are configured:    *)
(* from a properties file (f_PropertiesReader with the call-backs of       *)
(* f_FileReaderConfigurator) and from a parser file                        *)
(* (c_ParserFactory::readParserConfigFile).  Both put them into the map of *)
(* one c_ParserFactory, by the state they are for.                         *)
(*                                                                         *)
(* A file is what the next line turns out to be, up to MaxGroups groups    *)
(* and MaxColumns columns; it may end anywhere, be short of any line, or   *)
(* have a line longer than the buffer.                                     *)
(***************************************************************************)
EXTENDS Parser

CONSTANTS
    Names,       \* the states of the files, in the order of the map
    Covered,     \* what states a name with a `*' matches
    Columns,     \* the columns of the files
    Records,     \* the records
    MaxGroups,   \* bound: groups in all the files
    MaxColumns   \* bound: columns in all the files

ASSUME ParserConfigAssumption ==
    /\ Names \in Seq(STRING \ {""})
    /\ Columns \subseteq Column
    /\ Records \subseteq Record
    /\ MaxGroups \in Nat /\ MaxColumns \in Nat

States == {Names[i] : i \in DOMAIN Names}

VARIABLES
    heap,     \* the parsers made, an object each
    table,    \* c_ParserFactory::parsers: which object a state has
    current,  \* the configurator's parser, and the parser of getParser: 0 is NULL
    state,    \* parse_state, and line of readParserConfigFile
    inTarget, \* in_target of readPropertiesFile
    pc,       \* what is read
    parsed,   \* the last record parsed
    groups,   \* history: the groups of the files, and whether their class was known
    opened,   \* history: the group that set state
    source,   \* history: the group of each column of each parser
    by        \* history: the group that put a state into the table

vars == <<heap, table, current, state, inTarget, pc, parsed, groups, opened, source, by>>

NoRecord == [parser |-> 0, columns |-> 0, ok |-> FALSE, record |-> {}, tokens |-> <<>>]

Init ==
    /\ heap = <<>> /\ source = <<>> /\ groups = <<>>
    /\ table = <<>> /\ by = <<>>
    /\ current = 0 /\ state = "" /\ inTarget = FALSE /\ opened = 0
    /\ pc = "idle"
    /\ parsed = NoRecord

Objects == DOMAIN heap

-----------------------------------------------------------------------------
(* What both have in common.                                               *)

Begins(s, known) ==
    /\ Len(groups) < MaxGroups
    /\ groups' = Append(groups, [state |-> s, known |-> known])
    /\ opened' = Len(groups) + 1
    /\ state' = s

Make(class) ==
    /\ heap' = Append(heap, NewParser(class))
    /\ source' = Append(source, <<>>)
    /\ current' = Len(heap) + 1

\* defineColumn of the current parser.
Try(cd) ==
    LET p == heap[current] IN
    /\ heap' = [heap EXCEPT ![current] = Define(p, cd)]
    /\ source' = IF Accepts(p, cd)
                 THEN [source EXCEPT ![current] = Append(@, Len(groups))] ELSE source

\* map::insert keeps the parser that a state has.
Insert(s) ==
    IF s \in DOMAIN table THEN UNCHANGED <<table, by>>
    ELSE /\ table' = [t \in DOMAIN table \cup {s} |-> IF t = s THEN current ELSE table[t]]
         /\ by' = [t \in DOMAIN by \cup {s} |-> IF t = s THEN opened ELSE by[t]]

\* Reading is over; the configurator and the stream are gone.
Stop ==
    /\ pc' = "idle"
    /\ current' = 0 /\ state' = "" /\ inTarget' = FALSE

-----------------------------------------------------------------------------
(* The properties file.                                                    *)

LoadReaderProperties ==
    /\ pc = "idle"
    /\ pc' = "properties"
    /\ UNCHANGED <<heap, table, current, state, inTarget, parsed, groups, opened, source, by>>

\* A plausible slip: a parser of the same class used again.
ReusingGroup(s, class) ==
    /\ pc = "properties"
    /\ Begins(s, class \in Classes)
    /\ inTarget' = TRUE
    /\ IF class \in Classes /\ (current = 0 \/ heap[current].class # class) THEN Make(class)
       ELSE UNCHANGED <<heap, source, current>>
    /\ UNCHANGED <<table, pc, parsed, by>>

\* onGroup; a class that is not known leaves parser as it is.
Group(s, class) ==
    /\ pc = "properties"
    /\ Begins(s, class \in Classes)
    /\ inTarget' = TRUE
    /\ IF class \in Classes THEN Make(class) ELSE UNCHANGED <<heap, source, current>>
    /\ UNCHANGED <<table, pc, parsed, by>>

\* onElem; it throws without a parser and when the column is refused.
Elem(cd) ==
    /\ pc = "properties" /\ inTarget
    /\ IF current = 0 THEN Stop /\ UNCHANGED <<heap, source>>
       ELSE /\ Try(cd)
            /\ IF Accepts(heap[current], cd) THEN UNCHANGED <<pc, current, state, inTarget>> ELSE Stop
    /\ UNCHANGED <<table, parsed, groups, opened, by>>

\* onGroupFinal; a parser without columns or state is left out.
GroupFinal ==
    /\ pc = "properties" /\ inTarget
    /\ inTarget' = FALSE
    /\ IF current # 0 /\ state # "" /\ heap[current].columns # <<>>
       THEN Insert(state) ELSE UNCHANGED <<table, by>>
    /\ UNCHANGED <<heap, current, state, pc, parsed, groups, opened, source>>

EndOfProperties ==
    /\ pc = "properties"
    /\ Stop
    /\ UNCHANGED <<heap, table, parsed, groups, opened, source, by>>

-----------------------------------------------------------------------------
(* The parser file.                                                        *)

ReadParserConfigFile ==
    /\ pc = "idle"
    /\ pc' = "outer"
    /\ UNCHANGED <<heap, table, current, state, inTarget, parsed, groups, opened, source, by>>

\* A line <parser state=s>.
ParserLine(s) ==
    /\ pc = "outer"
    /\ Begins(s, TRUE)
    /\ pc' = "init"
    /\ UNCHANGED <<heap, table, current, inTarget, parsed, source, by>>

LastUnknown == [groups EXCEPT ![Len(groups)].known = FALSE]

\* A plausible slip: the column loop does not look for such a line.
PassOverAnywhere(s) ==
    /\ pc \in {"init", "columns"}
    /\ Len(groups) < MaxGroups
    /\ groups' = Append(IF pc = "init" THEN LastUnknown ELSE groups, [state |-> s, known |-> TRUE])
    /\ UNCHANGED <<heap, table, current, state, inTarget, pc, parsed, opened, source, by>>

\* Such a line met where getParser still looks for a class: it is passed over,
\* and the class behind it is taken for the state before it.
PassOver(s) ==
    /\ pc = "init"
    /\ Len(groups) < MaxGroups
    /\ groups' = Append(LastUnknown, [state |-> s, known |-> TRUE])
    /\ UNCHANGED <<heap, table, current, state, inTarget, pc, parsed, opened, source, by>>

\* The line with the class.
InitLine(class) ==
    /\ pc = "init"
    /\ IF class \in Classes
       THEN Make(class) /\ pc' = "columns" /\ UNCHANGED <<state, inTarget, groups>>
       ELSE Stop /\ groups' = LastUnknown /\ UNCHANGED <<heap, source>>
    /\ UNCHANGED <<table, parsed, opened, by>>

\* A plausible slip: errs not counted where defineColumn fails.
ColumnLineKept(cd) ==
    /\ pc = "columns"
    /\ Try(cd)
    /\ UNCHANGED <<table, current, state, inTarget, pc, parsed, groups, opened, by>>

\* A line of a block; one without a name is a column without a name.  The parser
\* that refuses a column is not handed out.
ColumnLine(cd) ==
    /\ pc = "columns"
    /\ Try(cd)
    /\ IF Accepts(heap[current], cd) THEN UNCHANGED <<current, state, inTarget, pc>> ELSE Stop
    /\ UNCHANGED <<table, parsed, groups, opened, by>>

\* The line </parser>, or a file that ends with the last column.
EndOfBlock ==
    /\ pc = "columns"
    /\ IF state = "" THEN Stop /\ UNCHANGED <<table, by>>
       ELSE /\ Insert(state)
            /\ pc' = "outer" /\ current' = 0
            /\ UNCHANGED <<state, inTarget>>
    /\ UNCHANGED <<heap, parsed, groups, opened, source>>

\* The end of the file; inside a block it is an error.
EndOfFile ==
    /\ pc \in {"outer", "init", "columns"}
    /\ Stop
    /\ UNCHANGED <<heap, table, parsed, groups, opened, source, by>>

\* A line longer than the buffer breaks the stream, and eof() never comes true:
\* only in a block is the empty line that is read then an error.
LineTooLong ==
    /\ \/ pc \in {"outer", "init"} /\ pc' = "broken" /\ UNCHANGED <<current, state, inTarget>>
       \/ pc \in {"init", "columns"} /\ Stop
    /\ UNCHANGED <<heap, table, parsed, groups, opened, source, by>>

Spin == pc = "broken" /\ UNCHANGED vars

-----------------------------------------------------------------------------
(* c_ParserFactory::getParser(state), and a record parsed.                 *)

\* The parser of a state, or of the first name in the map that matches it.
LookUp(s) ==
    IF s \in DOMAIN table THEN table[s]
    ELSE LET Matching == {i \in DOMAIN Names : Names[i] \in DOMAIN table /\ s \in Covered[Names[i]]} IN
         IF Matching = {} THEN 0 ELSE table[Names[CHOOSE i \in Matching : \A j \in Matching : i <= j]]

ParseRecord(s, rec) ==
    /\ pc = "idle" /\ LookUp(s) # 0
    /\ LET p == heap[LookUp(s)] IN
       /\ parsed' = [parser |-> LookUp(s), columns |-> Len(p.columns), ok |-> Parses(p, rec),
                     record |-> rec, tokens |-> IF Parses(p, rec) THEN Parsed(p, rec) ELSE <<>>]
       /\ heap' = [heap EXCEPT ![LookUp(s)] = AfterParse(p, rec)]
    /\ UNCHANGED <<table, current, state, inTarget, pc, groups, opened, source, by>>

\* Bound: columns in all the files.
Room == LET Number[i \in 0..Len(heap)] == IF i = 0 THEN 0 ELSE Number[i - 1] + Len(heap[i].columns)
        IN Number[Len(heap)] < MaxColumns

ReadLine ==
    \/ \E s \in States \cup {""}, class \in Classes \cup {"other"} : Group(s, class)
    \/ \E cd \in Columns : Room /\ (Elem(cd) \/ ColumnLine(cd))
    \/ GroupFinal \/ EndOfProperties
    \/ \E s \in States \cup {""} : ParserLine(s) \/ PassOver(s)
    \/ \E class \in Classes \cup {"other"} : InitLine(class)
    \/ EndOfBlock \/ EndOfFile \/ LineTooLong

Next ==
    \/ LoadReaderProperties \/ ReadParserConfigFile
    \/ ReadLine \/ Spin
    \/ \E s \in States, rec \in Records : ParseRecord(s, rec)

Spec == Init /\ [][Next]_vars

-----------------------------------------------------------------------------
(* Properties.                                                             *)

\* The columns of a parser can be told apart: no name comes twice, and columns
\* of fixed length overlap only if the later one encloses the earlier one.
ColumnsSound ==
    \A o \in Objects : LET c == heap[o].columns IN
        \A i, j \in DOMAIN c : i < j =>
            /\ c[i].name # c[j].name
            /\ heap[o].class = "simple_fixed" =>
                  \/ c[j].last < c[i].first \/ c[i].last < c[j].first
                  \/ c[j].first < c[i].first /\ c[i].last < c[j].last

\* The parser that a group put into the table has the columns of that very
\* group, and all that it asked for: none is left over from a group before or
\* comes from one behind, and none was refused.  Only a group of an unknown
\* class, which works on the parser it finds, is not bound to that.
OwnColumns ==
    \A s \in DOMAIN table : groups[by[s]].known =>
        LET o == table[s] IN
        /\ groups[by[s]].state = s
        /\ \A k \in DOMAIN source[o] : source[o][k] = by[s] \/ ~groups[source[o][k]].known
        /\ heap[o].error = "definition" => \E g \in DOMAIN groups : g > by[s] /\ ~groups[g].known

\* A record that parses has a value for every column.  Of fixed length it is the
\* characters of the column, which are characters of the record.  Of a delimited
\* record it is a field that is not empty, in the order of the positions; since
\* empty fields are not counted it lies at the position or behind it, and is the
\* field the column names exactly when none up to there is empty.
ParsedAsDefined ==
    parsed.ok =>
        LET p == heap[parsed.parser]
            rec == parsed.record
            Of(k) == parsed.tokens[p.columns[k].name]
        IN \A k \in 1..parsed.columns :
             IF p.class = "simple_fixed"
             THEN Of(k) = <<p.columns[k].first, p.columns[k].last>> /\ p.columns[k].last <= rec.size
             ELSE LET position == p.columns[k].position
                      field == Of(k)[1]
                  IN /\ rec.fields[field] /\ field >= position
                     /\ field = position <=> \A i \in 1..position : rec.fields[i]
                     /\ \A j \in 1..parsed.columns :
                           p.columns[j].position < position => Of(j)[1] < field

\* From the group that put a parser into the table and the groups its columns
\* come from, and all between these, at most one has a class that is known: two
\* groups, each with a class of its own, are never mixed, nor is a parser handed
\* on across such a group, however groups without one lie around it.
OneClassOnly ==
    \A s \in DOMAIN table :
        LET o == table[s]
            Its == {by[s]} \cup {source[o][k] : k \in DOMAIN source[o]}
            Span == {g \in DOMAIN groups : \E a, b \in Its : a <= g /\ g <= b}
        IN \A g, h \in Span : groups[g].known /\ groups[h].known => g = h

\* `no overlapping fields' (c_Parser.h): two columns of a parser never have a
\* character or a field in common.
NoOverlappingFields ==
    \A o \in Objects : LET c == heap[o].columns IN
        \A i, j \in DOMAIN c : i # j =>
            IF heap[o].class = "simple_fixed"
            THEN c[j].last < c[i].first \/ c[i].last < c[j].first
            ELSE c[i].position # c[j].position

\* `If parser is null here, it means that we never found a parent element that
\* could define a known parser' (f_FileReaderConfigurator.h): the columns of a
\* group whose class is not known are refused.
UnknownClassRefused ==
    \A o \in Objects : \A k \in DOMAIN source[o] : groups[source[o][k]].known
=============================================================================
