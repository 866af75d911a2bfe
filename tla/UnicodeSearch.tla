---------------------------- MODULE UnicodeSearch ----------------------------
(***************************************************************************)
(* core/unicode/letter.mojo and graphic.mojo over the tables of            *)
(* core/unicode/data.mojo: how a code point is looked up, mapped and       *)
(* folded, and what the answers have to be.                                *)
(*                                                                         *)
(* The tables are those the generators of UnicodeTables leave when they    *)
(* end; a search starts in a finished table and changes nothing, so it is  *)
(* an operator.  A rune is signed and may be any number.                   *)
(***************************************************************************)
EXTENDS UnicodeTables

Rune == -1 .. MAX_RUNE + 1

\* A negative rune is compared as a word above every code point.
Unsigned(r) == IF r < 0 THEN MAX_RUNE + 1 - r ELSE r

-----------------------------------------------------------------------------
(* Range tables *)

RangeAt(index) == words[index + 1]

OnStride(run, r) == run.stride = 1 \/ (r - run.lo) % run.stride = 0

\* The scan stops at the first run that ends at or after r.
Scan(low, count, r) ==
    LET ends == {i \in low .. low + count - 1 : r < RangeAt(i).lo \/ r <= RangeAt(i).hi}
    IN  /\ ends # {}
        /\ r >= RangeAt(LeastIn(ends)).lo
        /\ OnStride(RangeAt(LeastIn(ends)), r)

Search(first, count, r) ==
    LET end == first + count
        found[span \in (first .. end) \X (first .. end)] ==
            LET middle == (span[1] + span[2]) \div 2
                run == RangeAt(middle)
            IN  /\ span[1] < span[2]
                /\ IF run.lo <= r /\ r <= run.hi THEN OnStride(run, r)
                   ELSE IF r < run.lo THEN found[<<span[1], middle>>]
                   ELSE found[<<middle + 1, span[2]>>]
    IN  found[<<first, end>>]

Is16(first, count, r) ==
    IF count <= LINEAR_MAX \/ r <= MAX_LATIN1 THEN Scan(first, count, r)
                                              ELSE Search(first, count, r)

Is32(first, count, r) ==
    IF count <= LINEAR_MAX THEN Scan(first, count, r) ELSE Search(first, count, r)

IsFrom(table, skip, r) ==
    LET u == Unsigned(r)
    IN  IF table.n16 > skip /\ u <= RangeAt(table.at + table.n16 - 1).hi
        THEN Is16(table.at + skip, table.n16 - skip, u)
        ELSE /\ table.n32 > 0
             /\ r >= 0 /\ u >= RangeAt(table.at + table.n16).lo
             /\ Is32(table.at + table.n16, table.n32, u)

IsIn(table, r) == IsFrom(table, 0, r)
IsExcludingLatin(table, r) == IsFrom(table, table.latin, r)

TableOf(n) == where[n]
Category(cat) == TableOf(<<"category", cat>>)

\* The byte of Latin-1, or the table above it.
LatinOr(r, cat, bits) ==
    IF r \in 0 .. MAX_LATIN1 THEN LatinBits(chars[r].category) \in bits
                             ELSE IsExcludingLatin(Category(cat), r)

IsLetter(r) == LatinOr(r, <<"L">>, {{"pLu"}, {"pLl"}, {"pLu", "pLl"}})
IsUpper(r)  == LatinOr(r, Lu, {{"pLu"}})
IsLower(r)  == LatinOr(r, Ll, {{"pLl"}})
IsTitle(r)  == LatinOr(r, Lt, {})

-----------------------------------------------------------------------------
(* Case *)

UPPER_CASE == 0
LOWER_CASE == 1
TITLE_CASE == 2

\* An alternating row answers from the low bit of the offset.
Apply(row, case, r) ==
    IF row.delta[case + 1] > MAX_RUNE
    THEN row.lo + 2 * ((r - row.lo) \div 2) + (case % 2)
    ELSE r + row.delta[case + 1]

To(case, r) ==
    LET end == Len(cases)
        mapped[span \in (0 .. end) \X (0 .. end)] ==
            LET middle == (span[1] + span[2]) \div 2
                row == cases[middle + 1]
            IN  IF span[1] >= span[2] THEN r
                ELSE IF row.lo <= r /\ r <= row.hi THEN Apply(row, case, r)
                ELSE IF r < row.lo THEN mapped[<<span[1], middle>>]
                ELSE mapped[<<middle + 1, span[2]>>]
    IN  mapped[<<0, end>>]

ToUpper(r) ==
    IF r > MAX_ASCII THEN To(UPPER_CASE, r)
    ELSE IF r - CASE_SHIFT \in CAPITALS THEN r - CASE_SHIFT ELSE r

ToLower(r) ==
    IF r > MAX_ASCII THEN To(LOWER_CASE, r)
    ELSE IF r \in CAPITALS THEN r + CASE_SHIFT ELSE r

ToTitle(r) ==
    IF r > MAX_ASCII THEN To(TITLE_CASE, r)
    ELSE IF r - CASE_SHIFT \in CAPITALS THEN r - CASE_SHIFT ELSE r

-----------------------------------------------------------------------------
(* Folding *)

\* The table for ASCII is made from the database.
SimpleFoldOf(c) ==
    IF chars[c].orbit # 0 THEN chars[c].orbit
    ELSE IF chars[c].lower \notin {0, c} THEN chars[c].lower
    ELSE IF chars[c].upper \notin {0, c} THEN chars[c].upper ELSE c

\* Row i of the table of orbits, which is in the order of the code points.
CaseOrbit == {c \in Code : chars[c].orbit # 0}
OrbitRow(i) == CHOOSE c \in CaseOrbit : Cardinality({d \in CaseOrbit : d < c}) = i

\* The first row that is not below r.
OrbitSearch(r) ==
    LET end == Cardinality(CaseOrbit)
        first[span \in (0 .. end) \X (0 .. end)] ==
            LET middle == (span[1] + span[2]) \div 2
            IN  IF span[1] >= span[2] THEN span[1]
                ELSE IF OrbitRow(middle) < r THEN first[<<middle + 1, span[2]>>]
                ELSE first[<<span[1], middle>>]
    IN  first[<<0, end>>]

SimpleFold(r) ==
    IF r < 0 \/ r > MAX_RUNE THEN r
    ELSE IF r <= MAX_ASCII THEN SimpleFoldOf(r)
    ELSE LET row == OrbitSearch(r)
         IN  IF row < Cardinality(CaseOrbit) /\ OrbitRow(row) = r THEN chars[r].orbit
             ELSE IF ToLower(r) # r THEN ToLower(r) ELSE ToUpper(r)

-----------------------------------------------------------------------------
(* What the database says of the tables *)

FoldClass(f, c) == {d \in Code : Canonical(f, d) = Canonical(f, c)}

GivenInCategory(f, cat) ==
    IF cat = LC THEN {c \in Code : GivenCategory(f, c) \in {Lu, Ll, Lt}}
    ELSE {c \in Code : SubSeq(GivenCategory(f, c), 1, Len(cat)) = cat}

GivenExceptions(f, inside) == (UNION {FoldClass(f, c) : c \in inside}) \ inside

GivenCodes(f, n) ==
    CASE n[1] = "category" -> GivenInCategory(f, n[2])
      [] n[1] = "script" -> f.scripts[n[2]]
      [] n[1] = "fold_category" ->
            GivenExceptions(f, IF n[2] = LC THEN {} ELSE GivenInCategory(f, n[2]))
      [] n[1] = "fold_script" -> GivenExceptions(f, f.scripts[n[2]])

-----------------------------------------------------------------------------
(* Properties *)

\* tools/gen/ucd.py:401, letter.mojo:232 to 326 and graphic.mojo:90 to 182: a
\* finished table answers for every rune, negative and too large ones with it,
\* what the database says, whether it is scanned or searched, strided or not,
\* shared with another name or its own, with its Latin-1 runs or without them;
\* and so do is_letter, is_upper, is_lower and is_title, which answer Latin-1
\* from a byte.
TablesExact == stage = "done" =>
    /\ \A n \in DOMAIN where : \A r \in Rune :
        /\ IsIn(TableOf(n), r) <=> r \in GivenCodes(files, n)
        /\ r > MAX_LATIN1 => (IsExcludingLatin(TableOf(n), r) <=> r \in GivenCodes(files, n))
    /\ \A n \in Names : GivenCodes(files, n) = {} \/ n \in DOMAIN where
    /\ \A c \in Code :
        /\ IsLetter(c) <=> GivenCategory(files, c)[1] = "L"
        /\ IsUpper(c) <=> GivenCategory(files, c) = Lu
        /\ IsLower(c) <=> GivenCategory(files, c) = Ll
        /\ IsTitle(c) <=> GivenCategory(files, c) = Lt

\* ucd.py:516 and letter.mojo:371: packing equal deltas and alternating pairs
\* into rows loses no mapping and maps no code point that has none, whichever
\* way the runs of neighbours fall.
CaseExact == stage = "done" =>
    \A c \in Code :
        /\ ToUpper(c) = GivenCase(files, "upper", c)
        /\ ToLower(c) = GivenCase(files, "lower", c)
        /\ ToTitle(c) = GivenCase(files, "title", c)

\* ucd.py:261 and letter.mojo:526: simple_fold goes from each code point to the
\* next that folds to the same thing, and from the largest to the smallest,
\* with the pairs left out of the table found from the case mappings.
FoldExact == stage = "done" => \A c \in Code : SimpleFold(c) = After(FoldClass(files, c), c)
=============================================================================
