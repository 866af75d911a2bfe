---------------------------- MODULE UnicodeTables ----------------------------
(***************************************************************************)
(* The Unicode tables: tools/gen/ucd.py derives them from the character    *)
(* database, tools/gen/unicode.py lays them out in core/unicode/data.mojo, *)
(* and core/unicode/letter.mojo searches them.  The question is whether    *)
(* what a search answers is what the database says.                        *)
(*                                                                         *)
(* A file is its rows.  A run of code points is kept as the three numbers  *)
(* that are shifted into one word; each of them has the 21 bits it needs.  *)
(* A loop over the code points is an action per code point where the loop  *)
(* carries state, and one action where each round is on its own.           *)
(***************************************************************************)
EXTENDS Integers, Sequences, FiniteSets

CONSTANTS
    MAX_RUNE, MAX_LATIN1, MAX_ASCII,
    MAX_16,         \* 0xFFFF: where sixteen bit runs end
    LINEAR_MAX,     \* the longest table that is scanned, not searched
    CAPITALS,       \* 'A' .. 'Z'
    CASE_SHIFT,     \* 'a' - 'A'
    DERIVED,        \* the categories that get a table whoever has them
    Files           \* the databases to derive tables from

ASSUME LimitsAssumption ==
    /\ MAX_ASCII \in Nat /\ MAX_LATIN1 \in Nat /\ MAX_16 \in Nat /\ MAX_RUNE \in Nat
    /\ MAX_ASCII <= MAX_LATIN1 /\ MAX_LATIN1 <= MAX_16 /\ MAX_16 < MAX_RUNE
    /\ CAPITALS \subseteq 1 .. MAX_ASCII /\ CASE_SHIFT \in Nat \ {0}

Code == 0 .. MAX_RUNE

Lu == <<"L", "u">>
Ll == <<"L", "l">>
Lt == <<"L", "t">>
Lo == <<"L", "o">>
Cc == <<"C", "c">>
Cf == <<"C", "f">>
Cn == <<"C", "n">>
LC == <<"L", "C">>

ASSUME DerivedAssumption ==
    <<"L">> \in DERIVED /\ \A cat \in DERIVED : cat \in Seq(STRING) /\ Len(cat) \in {1, 2}

-----------------------------------------------------------------------------
(* What a database says, read from its rows alone, and what all of them keep: *)
(* tests/data/ucd does, and every database the standard may publish has to.   *)

RowsOf(f, c) == {i \in DOMAIN f.rows : c \in f.rows[i].first .. f.rows[i].last}

GivenCategory(f, c) ==
    IF RowsOf(f, c) = {} THEN Cn ELSE f.rows[CHOOSE i \in RowsOf(f, c) : TRUE].category

GivenCase(f, field, c) ==
    IF RowsOf(f, c) = {} THEN c
    ELSE LET given == f.rows[CHOOSE i \in RowsOf(f, c) : TRUE][field]
         IN  IF given = 0 THEN c ELSE given

\* The full foldings and the Turkic ones are not simple.
Simple(f) == {g \in f.foldings : g.status \notin {"F", "T"}}

Canonical(f, c) ==
    LET to == {g.to : g \in {h \in Simple(f) : h.code = c}}
    IN  IF to = {} THEN c ELSE CHOOSE x \in to : TRUE

Fields ==
    [first : Code, last : Code, category : (STRING \X STRING) \ {LC},
     upper : Code, lower : Code, title : Code]

\* A block has no case.  A letter is its own letter of its case; only what has
\* another case has a title case; and what folds with both of its cases is one
\* of three.
RowIsSound(f, row) ==
    /\ row.first <= row.last /\ row.last < MAX_RUNE
    /\ row.first < row.last => {row.upper, row.lower, row.title} = {0}
    /\ row.category = Lu => row.upper \in {0, row.first}
    /\ row.category = Ll => row.lower \in {0, row.first}
    /\ row.category = Lt => row.title \in {0, row.first}
    /\ row.upper # 0 \/ row.lower # 0 \/ row.title \in {0, row.first}
    /\ \/ row.upper \in {0, row.first} \/ row.lower \in {0, row.first}
       \/ /\ row.upper # row.lower
          /\ Canonical(f, row.upper) = Canonical(f, row.first)
          /\ Canonical(f, row.lower) = Canonical(f, row.first)

\* The rows are in order, so they are apart; the case of a case is itself.
RowsAreSound(f) ==
    /\ \A i \in DOMAIN f.rows : RowIsSound(f, f.rows[i])
    /\ \A i, j \in DOMAIN f.rows :
        /\ i < j => f.rows[i].last < f.rows[j].first
        /\ f.rows[j].first = f.rows[i].upper => f.rows[j].upper \in {0, f.rows[j].first}
        /\ f.rows[j].first = f.rows[i].lower => f.rows[j].lower \in {0, f.rows[j].first}
    /\ {Lu, Ll, Lt} \subseteq {f.rows[i].category : i \in DOMAIN f.rows} \cup DERIVED

\* A code point folds to one, which folds to itself.
FoldingsAreSound(f) ==
    \A g, h \in Simple(f) : (g.code = h.code => g.to = h.to) /\ g.to # h.code

AsciiIsSound(f) ==
    \A c \in 0 .. MAX_ASCII :
        LET small == c - CASE_SHIFT \in CAPITALS
        IN  /\ GivenCase(f, "upper", c) = IF small THEN c - CASE_SHIFT ELSE c
            /\ GivenCase(f, "title", c) = IF small THEN c - CASE_SHIFT ELSE c
            /\ GivenCase(f, "lower", c) = IF c \in CAPITALS THEN c + CASE_SHIFT ELSE c

ASSUME FilesAssumption ==
    \A f \in Files :
        /\ f.rows \in Seq(Fields)
        /\ f.foldings \subseteq
                [code : Code \ {0}, status : {"C", "S", "F", "T"}, to : Code \ {0}]
        /\ \A s \in DOMAIN f.scripts : f.scripts[s] \subseteq Code
        /\ RowsAreSound(f) /\ FoldingsAreSound(f) /\ AsciiIsSound(f)

-----------------------------------------------------------------------------
VARIABLES
    files,      \* the database that was vendored
    stage,      \* which function of the generators is running
    at,         \* the row, or the code point, its loop has come to
    chars,      \* Database.chars
    orbits,     \* the groups _build_orbits makes, by code point
    todo,       \* the names of the tables still to be added
    name,       \* the table that is being packed
    r16, r32,   \* its runs
    current,    \* the run that is being extended
    words,      \* every run of every table, end to end
    where,      \* RangeTable: where in words the runs of a name are
    cases,      \* the rows of CaseRanges
    start, previous     \* the first and the last code point of the run of cases

dbVars == <<files, chars, orbits>>
packVars == <<todo, name, r16, r32, current, words, where>>
caseVars == <<cases, start, previous>>
vars == <<files, stage, at, chars, orbits, todo, name, r16, r32, current, words, where,
          cases, start, previous>>

UnreadChar == [category |-> Cn, upper |-> 0, lower |-> 0, title |-> 0,
               fold |-> 0, orbit |-> 0, assigned |-> FALSE]

NoRun == [lo |-> 0, hi |-> -1, stride |-> 1]
RunOf(lo, hi, stride) == [lo |-> lo, hi |-> hi, stride |-> stride]

NoState == [point |-> 0, kind |-> "none", up |-> 0, low |-> 0, title |-> 0]
NoStart == [NoState EXCEPT !.point = -1]

Init ==
    /\ files \in Files
    /\ stage = "chars" /\ at = 1
    /\ chars = [c \in Code |-> UnreadChar]
    /\ orbits = [c \in Code |-> {}]
    /\ todo = {} /\ name = <<>>
    /\ r16 = <<>> /\ r32 = <<>> /\ current = NoRun
    /\ words = <<>> /\ where = <<>>
    /\ cases = <<>> /\ start = NoStart /\ previous = NoState

-----------------------------------------------------------------------------
(* Reading the database *)

\* What one row of UnicodeData.txt makes of a code point: a letter's own case
\* is the code point itself, whatever the row says.
Assigned(row, c) ==
    [UnreadChar EXCEPT
        !.assigned = TRUE,
        !.category = row.category,
        !.upper = IF row.category = Lu THEN c ELSE row.upper,
        !.lower = IF row.category = Ll THEN c ELSE row.lower,
        !.title = IF row.category = Lt THEN c ELSE row.title]

\* A row, or the pair of rows that stand for a block.
LoadRow ==
    /\ stage = "chars" /\ at <= Len(files.rows)
    /\ LET row == files.rows[at]
       IN  chars' = [c \in Code |-> IF c \in row.first .. row.last
                                    THEN Assigned(row, c) ELSE chars[c]]
    /\ at' = at + 1
    /\ UNCHANGED <<files, stage, orbits, packVars, caseVars>>

\* Only the common and the simple foldings are one code point to one.
LoadFolding ==
    /\ stage = "chars" /\ at > Len(files.rows)
    /\ LET kept == {f \in files.foldings : f.status \in {"C", "S"}}
       IN  chars' = [c \in Code |->
                [chars[c] EXCEPT !.fold = IF \E f \in kept : f.code = c
                                          THEN (CHOOSE f \in kept : f.code = c).to
                                          ELSE 0]]
    /\ stage' = "gather"
    /\ UNCHANGED <<files, at, orbits, packVars, caseVars>>

-----------------------------------------------------------------------------
(* The four passes of _build_orbits *)

GatherFolds ==
    /\ stage = "gather"
    /\ orbits' = [c \in Code |->
            LET from == {d \in Code : chars[d].fold = c}
            IN  IF c = 0 \/ from = {} THEN {} ELSE from \cup {c}]
    /\ stage' = "unfolded"
    /\ UNCHANGED <<files, at, chars, packVars, caseVars>>

Folded(c) == IF chars[c].fold = 0 THEN c ELSE chars[c].fold

OtherCase(c) ==
    \/ chars[c].upper # 0 /\ chars[c].upper # c
    \/ chars[c].lower # 0 /\ chars[c].lower # c

AddUnfolded ==
    /\ stage = "unfolded"
    /\ orbits' = [c \in Code |->
            IF orbits[Folded(c)] = {} /\ OtherCase(c) THEN {c} ELSE orbits[c]]
    /\ stage' = "defaults"
    /\ UNCHANGED <<files, at, chars, packVars, caseVars>>

\* Takes every pair for one.
DefaultPair_Any(orbit) == Cardinality(orbit) = 2

\* The pairs SimpleFold gets right from the case mappings alone.
DefaultPair(orbit) ==
    /\ Cardinality(orbit) = 2
    /\ \E a, b \in orbit : a # b /\ chars[a].upper = b /\ chars[b].lower = a

DropDefaults ==
    /\ stage = "defaults"
    /\ orbits' = [c \in Code |-> IF DefaultPair(orbits[c]) THEN {} ELSE orbits[c]]
    /\ stage' = "link"
    /\ UNCHANGED <<files, at, chars, packVars, caseVars>>

LeastIn(S) == CHOOSE x \in S : \A y \in S : x <= y

\* The next of a set, going round.
After(S, c) ==
    LET above == {x \in S : x > c} IN LeastIn(IF above = {} THEN S ELSE above)

OrbitsWith(c) == {o \in {orbits[d] : d \in Code} : c \in o}

-----------------------------------------------------------------------------
(* The sets that get a table *)

Categories == {chars[c].category : c \in Code} \cup {Cn} \cup DERIVED

InCategory(cat) ==
    {c \in Code :
        \/ chars[c].category = cat
        \/ cat = LC /\ chars[c].category \in {Ll, Lt, Lu}
        \/ Len(cat) = 1 /\ Head(chars[c].category) = Head(cat)}

InCategoryForFolding(cat) == IF cat = LC THEN {} ELSE InCategory(cat)

\* What folds like a member of the set without being one.
FoldExceptions(inside) ==
    LET Reached(c) == IF chars[c].orbit = 0
                      THEN {c} \cup ({chars[c].upper, chars[c].lower} \ {0})
                      ELSE {d \in Code : \E o \in OrbitsWith(c) : d \in o}
    IN  (UNION {Reached(c) : c \in inside}) \ inside

\* The code points of the table of a name; blob goes through the names.
CodesOf(n) ==
    CASE n[1] = "category"      -> InCategory(n[2])
      [] n[1] = "script"        -> files.scripts[n[2]]
      [] n[1] = "fold_category" -> FoldExceptions(InCategoryForFolding(n[2]))
      [] n[1] = "fold_script"   -> FoldExceptions(files.scripts[n[2]])

Names == ({"category", "fold_category"} \X Categories)
         \cup ({"script", "fold_script"} \X DOMAIN files.scripts)

\* The fourth pass, which makes a cycle of every group left.
LinkCycles ==
    /\ stage = "link"
    /\ chars' = [c \in Code |->
            [chars[c] EXCEPT !.orbit =
                IF OrbitsWith(c) = {} THEN 0 ELSE After(CHOOSE o \in OrbitsWith(c) : TRUE, c)]]
    /\ todo' = Names
    /\ stage' = "blob"
    /\ UNCHANGED <<files, at, orbits, name, r16, r32, current, words, where, caseVars>>

-----------------------------------------------------------------------------
(* Packing a set into runs, and laying the tables end to end *)

\* The order of the names only moves the tables about.
NextTable ==
    /\ stage = "blob" /\ todo # {}
    /\ name' = CHOOSE n \in todo : TRUE
    /\ todo' = todo \ {name'}
    /\ \/ /\ name'[1] \in {"category", "script"} \/ CodesOf(name') # {}
          /\ stage' = "pack"
       \/ /\ name'[1] \in {"fold_category", "fold_script"} /\ CodesOf(name') = {}
          /\ stage' = "blob"
    /\ at' = 0 /\ r16' = <<>> /\ r32' = <<>> /\ current' = NoRun
    /\ UNCHANGED <<dbVars, words, where, caseVars>>

Extends(run, c) == run.lo = run.hi \/ c - run.hi = run.stride

\* A code point of the set, or one that is not in it.
PackOne ==
    /\ stage = "pack" /\ at <= MAX_RUNE
    /\ IF at \notin CodesOf(name) THEN UNCHANGED <<current, r16, r32>>
       ELSE LET close == current # NoRun /\ ~Extends(current, at)
                crossed == current # NoRun /\ current.hi <= MAX_16 /\ at > MAX_16
            IN  /\ current' = IF current = NoRun \/ close \/ crossed
                              THEN RunOf(at, at, 1)
                              ELSE RunOf(current.lo, at, at - current.hi)
                /\ r16' = IF (close \/ crossed) /\ current.hi <= MAX_16
                          THEN Append(r16, current) ELSE r16
                /\ r32' = IF close /\ current.hi > MAX_16
                          THEN Append(r32, current) ELSE r32
    /\ at' = at + 1
    /\ UNCHANGED <<dbVars, stage, todo, name, words, where, caseVars>>

\* The run in hand belongs to the half it began in.
PackLast ==
    /\ stage = "pack" /\ at = MAX_RUNE + 1
    /\ r16' = IF current # NoRun /\ current.hi <= MAX_16 THEN Append(r16, current) ELSE r16
    /\ r32' = IF current # NoRun /\ current.hi > MAX_16 THEN Append(r32, current) ELSE r32
    /\ current' = NoRun
    /\ stage' = "add"
    /\ UNCHANGED <<dbVars, at, todo, name, words, where, caseVars>>

\* Counts a run that only begins in Latin-1.
LatinRuns_Begins ==
    Cardinality({i \in DOMAIN r16 : \A j \in 1 .. i : r16[j].lo <= MAX_LATIN1})

\* How many runs from the first are wholly within Latin-1.
LatinRuns ==
    Cardinality({i \in DOMAIN r16 : \A j \in 1 .. i : r16[j].hi <= MAX_LATIN1})

\* The tables that hold these very runs already.
Same ==
    {n \in DOMAIN where :
        /\ where[n].n16 = Len(r16) /\ where[n].n32 = Len(r32)
        /\ r16 \o r32 = SubSeq(words, where[n].at + 1, where[n].at + where[n].n16 + where[n].n32)}

With(f, x, v) == [y \in DOMAIN f \cup {x} |-> IF y = x THEN v ELSE f[y]]

Add ==
    /\ stage = "add"
    /\ IF Same # {}
       THEN /\ where' = With(where, name, where[CHOOSE n \in Same : TRUE])
            /\ UNCHANGED words
       ELSE /\ where' = With(where, name, [at |-> Len(words), n16 |-> Len(r16),
                                           n32 |-> Len(r32), latin |-> LatinRuns])
            /\ words' = words \o r16 \o r32
    /\ stage' = "blob"
    /\ UNCHANGED <<dbVars, at, todo, name, r16, r32, current, caseVars>>

\* Everything is packed.  A pair of a fold orbit is two sixteen bit numbers.
LeaveBlob ==
    /\ stage = "blob" /\ todo = {}
    /\ stage' = IF \A c \in Code : chars[c].orbit # 0 => c <= MAX_16 /\ chars[c].orbit <= MAX_16
                THEN "cases" ELSE "raised"
    /\ at' = 0
    /\ UNCHANGED <<dbVars, packVars, caseVars>>

-----------------------------------------------------------------------------
(* The rows of CaseRanges *)

UPPER_LOWER == MAX_RUNE + 1

KindOf(char, c) ==
    IF ~char.assigned THEN "missing"
    ELSE IF char.upper = c THEN "upper"
    ELSE IF char.lower = c THEN "lower"
    ELSE IF char.title = c THEN "title"
    ELSE IF char.lower # 0 THEN "upper"
    ELSE IF char.upper # 0 THEN "lower" ELSE "none"

CaseStateOf(c) ==
    LET char == chars[c]
        Delta(x) == IF x = 0 \/ ~char.assigned THEN 0 ELSE x - c
    IN  [point |-> c, kind |-> KindOf(char, c), up |-> Delta(char.upper),
         low |-> Delta(char.lower), title |-> Delta(char.title)]

Deltas(s) == <<s.up, s.low, s.title>>

StartsUpperLower(s) == Deltas(s) = <<0, 1, 0>>
StartsLowerUpper(s) == Deltas(s) = <<-1, 0, -1>>

\* Looks only at the first half of a pair.
Adjacent_First(p, s) ==
    /\ s.point = p.point + 1
    /\ \/ /\ s.kind = p.kind /\ p.kind \notin {"none", "missing"}
          /\ Deltas(s) = Deltas(p)
       \/ /\ s.kind # p.kind
          /\ p.kind = "upper" => s.kind = "lower"
          /\ p.kind = "lower" => s.kind = "upper"
          /\ StartsUpperLower(IF p.kind = "lower" THEN s ELSE p)

\* Whether s, the next code point, continues the run that ends at p.
Adjacent(p, s) ==
    /\ s.point = p.point + 1
    /\ \/ /\ s.kind = p.kind /\ p.kind \notin {"none", "missing"}
          /\ Deltas(s) = Deltas(p)
       \/ /\ s.kind # p.kind
          /\ p.kind = "upper" => s.kind = "lower"
          /\ p.kind = "lower" => s.kind = "upper"
          /\ LET first == IF p.kind = "lower" THEN s ELSE p
                 second == IF p.kind = "lower" THEN p ELSE s
             IN  StartsUpperLower(first) /\ StartsLowerUpper(second)

RowOf(lo, hi) ==
    [lo |-> lo.point, hi |-> hi.point,
     delta |-> IF hi.point > lo.point /\ StartsUpperLower(lo)
               THEN <<UPPER_LOWER, UPPER_LOWER, UPPER_LOWER>> ELSE Deltas(lo)]

\* A run that has no deltas is not written, and one that begins with the lower
\* half of a pair has no form it could be written in.
CaseScan ==
    /\ stage = "cases" /\ at <= MAX_RUNE
    /\ LET state == CaseStateOf(at)
           written == start # NoStart /\ Deltas(start) # <<0, 0, 0>>
           backward == written /\ previous.point > start.point /\ StartsLowerUpper(start)
       IN  /\ previous' = state
           /\ IF Adjacent(previous, state)
              THEN UNCHANGED <<stage, cases, start>>
              ELSE /\ stage' = IF backward THEN "raised" ELSE stage
                   /\ cases' = IF written /\ ~backward
                               THEN Append(cases, RowOf(start, previous)) ELSE cases
                   /\ start' = IF state.kind \in {"missing", "none"} THEN NoStart ELSE state
    /\ at' = at + 1
    /\ UNCHANGED <<dbVars, packVars>>

\* The bits of the Latin-1 table that the predicates below test.
LatinBits(category) ==
    CASE category = Lu -> {"pLu"} [] category = Ll -> {"pLl"}
      [] category = Lo -> {"pLu", "pLl"}
      [] category[1] \in {"N", "P", "S", "Z", "C"} -> {category[1]}

KnownInLatin1(category) ==
    \/ category \in {Lu, Ll, Lo, Cc, Cf, <<"N", "d">>, <<"N", "o">>, <<"Z", "s">>}
    \/ category[1] \in {"P", "S"}

\* The end of data_file: a run still open is not written, and a category that
\* Latin-1 does not have today stops the generator.
CaseEnd ==
    /\ stage = "cases" /\ at = MAX_RUNE + 1
    /\ stage' = IF \A c \in 0 .. MAX_LATIN1 : KnownInLatin1(chars[c].category)
                THEN "done" ELSE "raised"
    /\ UNCHANGED <<dbVars, at, packVars, caseVars>>

-----------------------------------------------------------------------------
Next == \/ LoadRow \/ LoadFolding
        \/ GatherFolds \/ AddUnfolded \/ DropDefaults \/ LinkCycles
        \/ NextTable \/ PackOne \/ PackLast \/ Add \/ LeaveBlob
        \/ CaseScan \/ CaseEnd

Spec == Init /\ [][Next]_vars
=============================================================================
