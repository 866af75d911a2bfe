------------------------------- MODULE DocScan -------------------------------
(***************************************************************************)
(* tools/docjson/read.py, declarations: the fields of a struct, private    *)
(* ones included, found in the lines of its source without a parser.       *)
(*                                                                         *)
(* A line is what it `is` to the compiler, and what the scan can see: the  *)
(* name and the type on it, how many brackets it leaves open, and whether  *)
(* a comment stands behind the code.  A "struct" line may go on in         *)
(* "header" lines, and a "field" in "more" lines; "local" is an annotated  *)
(* variable of a method, "flush" is text of a docstring in column zero.    *)
(***************************************************************************)
EXTENDS Integers, SequencesExt

CONSTANT Noted      \* the spelling of a type with a comment behind it

ColumnZero == {"top", "flush"}
FieldLike == {"field", "local"}

EndsInColon(line) == line.is \in {"struct", "header", "def"} /\ ~line.note
IsWhole(opens, line) == opens = 0 /\ EndsInColon(line)

Spelled(line) == IF line.note THEN Noted ELSE line.type
Entry(line) == [name |-> line.name, type |-> Spelled(line)]

ScanStart == [header |-> FALSE, opens |-> 0, inside |-> FALSE, pending |-> 0, found |-> <<>>]

\* A declaration is read to its end, whatever is in column zero before it.
ReadHeader(scan, line) ==
    LET opens == scan.opens + line.opens
    IN  [scan EXCEPT !.opens = opens, !.header = ~IsWhole(opens, line)]

ReadStruct(struct, scan, line) ==
    [scan EXCEPT !.inside = (line.name = struct), !.pending = 0,
                 !.opens = line.opens, !.header = ~IsWhole(line.opens, line)]

\* A type is joined until its brackets balance.
ReadMore(scan, line) ==
    [scan EXCEPT !.pending = IF @ + line.opens > 0 THEN @ + line.opens ELSE 0,
                 !.found[Len(scan.found)].type = IF line.note THEN Noted ELSE @]

\* At any indentation.
ReadField(scan, line) ==
    [scan EXCEPT !.found = Append(@, Entry(line)),
                 !.pending = IF line.opens > 0 THEN line.opens ELSE 0]

\* Takes the declaration for one line.
ScanLine_OneLine(struct, scan, line) ==
    IF line.is = "struct" THEN [scan EXCEPT !.inside = (line.name = struct), !.pending = 0]
    ELSE IF ~scan.inside THEN scan
    ELSE IF line.is \in ColumnZero \cup {"header"} THEN [scan EXCEPT !.inside = FALSE]
    ELSE IF scan.pending > 0 THEN ReadMore(scan, line)
    ELSE IF line.is \in FieldLike THEN ReadField(scan, line) ELSE scan

ScanLine(struct, scan, line) ==
    IF scan.header THEN ReadHeader(scan, line)
    ELSE IF line.is = "struct" THEN ReadStruct(struct, scan, line)
    ELSE IF ~scan.inside THEN scan
    ELSE IF line.is \in ColumnZero THEN [scan EXCEPT !.inside = FALSE]
    ELSE IF scan.pending > 0 THEN ReadMore(scan, line)
    ELSE IF line.is \in FieldLike THEN ReadField(scan, line) ELSE scan

Declarations(lines, struct) ==
    LET scan[n \in 0 .. Len(lines)] ==
            IF n = 0 THEN ScanStart ELSE ScanLine(struct, scan[n - 1], lines[n])
    IN  scan[Len(lines)].found

NamesIn(entries) == {entries[i].name : i \in DOMAIN entries}

\* Of two entries of one name the dict keeps the later one.
SpellingOf(entries, name) ==
    entries[CHOOSE i \in DOMAIN entries :
        /\ entries[i].name = name
        /\ \A j \in DOMAIN entries : entries[j].name = name => j <= i].type

-----------------------------------------------------------------------------
(* What the compiler reads *)

Declares(line) == line.is = "struct"
Starts == {"struct", "field", "local"}
GoesOn == {"header", "more"}
Kinds == Starts \cup GoesOn \cup ColumnZero \cup {"def", "text", "blank"}

\* The brackets of a declaration or a type that are open at the end of a line.
Opened(before, line) ==
    IF line.is \in Starts THEN line.opens
    ELSE IF line.is \in GoesOn THEN before + line.opens ELSE 0

OpenAfter(lines) ==
    LET open[n \in 0 .. Len(lines)] == IF n = 0 THEN 0 ELSE Opened(open[n - 1], lines[n])
    IN  open

\* What the compiler takes: a declaration and a type go on while a bracket is
\* open and no longer, and no two structs of a module have one name.
IsSource(lines) ==
    LET open == OpenAfter(lines)
    IN  /\ \A n \in 1 .. Len(lines) :
            lines[n].is \in Kinds /\ lines[n].opens \in Int /\ open[n] \in Nat
        /\ \A n \in 1 .. Len(lines) :
            /\ lines[n].is = "header" <=>
                    n > 1 /\ lines[n - 1].is \in {"struct", "header"} /\ open[n - 1] > 0
            /\ lines[n].is = "more" <=>
                    n > 1 /\ lines[n - 1].is \in {"field", "local", "more"} /\ open[n - 1] > 0
        /\ \A i, j \in 1 .. Len(lines) :
            Declares(lines[i]) /\ Declares(lines[j]) /\ lines[i].name = lines[j].name => i = j

DeclaredIn(lines, struct) ==
    \E i \in 1 .. Len(lines) : Declares(lines[i]) /\ lines[i].name = struct

\* The numbers of the lines of a struct: from the one that declares it to the
\* next of the module itself.
BodyLines(lines, struct) ==
    LET at == CHOOSE i \in 1 .. Len(lines) : Declares(lines[i]) /\ lines[i].name = struct
    IN  {i \in at .. Len(lines) : \A k \in at + 1 .. i : lines[k].is \notin {"struct", "top"}}

OwnFields(lines, struct) == {i \in BodyLines(lines, struct) : lines[i].is = "field"}

\* A source the scan says it can read: no comment behind a declaration of a
\* struct or inside a type, and no text of a docstring in column zero.
Readable(lines) ==
    \A i \in 1 .. Len(lines) :
        /\ lines[i].is \in {"struct", "header", "more"} => ~lines[i].note
        /\ lines[i].is # "flush"

NoLocals(lines, struct) == \A i \in BodyLines(lines, struct) : lines[i].is # "local"

\* Entries are those of some lines, in their order.
AreEntriesOf(entries, lines, S) ==
    /\ Len(entries) = Cardinality(S)
    /\ \A i \in S : entries[Cardinality({j \in S : j <= i})] = Entry(lines[i])

\* tools/docjson/read.py:102, which has to agree with Mojo about where the
\* body of a struct starts and stops and what a field looks like: no field is
\* missed, however the declaration and the types are broken into lines, and
\* where no method annotates a variable nothing else is taken for one.
ScanAgrees(lines, struct) ==
    LET own == OwnFields(lines, struct)
        got == Declarations(lines, struct)
    IN  /\ \A i \in own : lines[i].name \in NamesIn(got)
        /\ NoLocals(lines, struct) => AreEntriesOf(got, lines, own)
=============================================================================
