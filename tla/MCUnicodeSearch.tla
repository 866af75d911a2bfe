--------------------------- MODULE MCUnicodeSearch ---------------------------
(* Databases for UnicodeSearch: ASCII with two letters, and letters of every *)
(* kind the real file has at 5 .. 11, where 5 is the rest of Latin-1 and 10  *)
(* and 11 are beyond sixteen bits.  Like U+10FFFF, the last one is nothing.  *)
EXTENDS UnicodeSearch

MCCapitals == {1, 2}
MCDerived == {<<"L", "C">>, <<"L">>, <<"N">>, Lt}
Nl == <<"N", "l">>

Row(c, category, upper, lower, title) ==
    [first |-> c, last |-> c, category |-> category,
     upper |-> upper, lower |-> lower, title |-> title]
Fold(code, to) == [code |-> code, status |-> "C", to |-> to]

Ascii == {Row(0, Cc, 0, 0, 0), Row(1, Lu, 0, 3, 0), Row(2, Lu, 0, 4, 0),
          Row(3, Ll, 1, 0, 1), Row(4, Ll, 2, 0, 2)}
AsciiFolds == {Fold(1, 3), Fold(2, 4)}
Free == 5 .. 11

\* What a piece of a database is: its rows and its foldings.
Piece(rows, foldings) == [rows |-> rows, foldings |-> foldings]
Nothing == Piece({}, {})

Letters(u, l) == Piece({Row(u, Lu, 0, l, 0), Row(l, Ll, u, 0, u)}, {Fold(u, l)})
Numerals(u, l) == Piece({Row(u, Nl, 0, l, 0), Row(l, Nl, u, 0, u)}, {Fold(u, l)})
Cherokee(u, l) == Piece({Row(u, Lu, 0, l, 0), Row(l, Ll, u, 0, u)}, {Fold(l, u)})
Digraph(u, t, l) ==
    Piece({Row(u, Lu, 0, l, t), Row(t, Lt, u, l, 0), Row(l, Ll, u, 0, t)},
          {Fold(u, l), Fold(t, l)})

Kelvin(c) == Piece({Row(c, Lu, 0, 3, 0)}, {Fold(c, 3)})
LongS(c) == Piece({Row(c, Ll, 1, 0, 1)}, {Fold(c, 3)})
Dotted(c) == Piece({Row(c, Lu, 0, 3, 0)}, {[code |-> c, status |-> s, to |-> 3] : s \in {"F", "T"}})
SharpS(s, capital) == Piece({Row(s, Ll, 0, 0, 0), Row(capital, Lu, 0, s, 0)}, {Fold(capital, s)})
Plain(c, category) == Piece({Row(c, category, 0, 0, 0)}, {})

\* A second small form of the letters u, l.
Variant(c, u, l) == Piece({Row(c, Ll, u, 0, u)}, {Fold(c, l)})

CodesIn(piece) == {row.first : row \in piece.rows}
Disjoint(p, q) == CodesIn(p) \cap CodesIn(q) = {}
Both(p, q) == Piece(p.rows \cup q.rows, p.foldings \cup q.foldings)

TwoPairs ==
    {Both(Letters(u, l), q) :
        <<u, l>> \in {p \in Free \X Free : p[1] # p[2]},
        q \in {Nothing} \cup {Letters(x, x + 1) : x \in {5, 7, 10}}}

\* A union of pieces that claim one code point twice is not a database.
Sound(p) == Cardinality(CodesIn(p)) = Cardinality(p.rows)

Digraphs == {Digraph(x, y, z) : x \in Free, y \in Free, z \in Free}

Extras ==
    {Both(p, q) :
        p \in UNION {{Letters(x, x + 1), Numerals(x, x + 1), Cherokee(x, x + 1)} : x \in {6, 8}},
        q \in UNION {{Kelvin(c), LongS(c), Dotted(c), Plain(c, Lo)} : c \in Free}}

Sharps == {SharpS(c, d) : c \in Free, d \in Free}

Backwards == {Both(Letters(5, 9), Both(Variant(6, 5, 9), Letters(7, 8)))}

Pieces == {p \in TwoPairs \cup Digraphs \cup Extras \cup Sharps \cup Backwards : Sound(p)}

\* The fifth code point is in Latin-1, which has no gaps.
Filled(p) == IF 5 \in CodesIn(p) THEN p ELSE Both(p, Plain(5, Lo))

InOrder(rows) ==
    [i \in 1 .. Cardinality(rows) |->
        CHOOSE x \in rows : Cardinality({y \in rows : y.first < x.first}) = i - 1]

Database(p, scripts) ==
    [rows |-> InOrder(Ascii \cup Filled(p).rows),
     foldings |-> AsciiFolds \cup p.foldings,
     scripts |-> scripts]

Block == Piece({[Row(7, Lo, 0, 0, 0) EXCEPT !.last = 10]}, {})

\* Databases with letters, and databases with sets of every shape.
MCFiles ==
    {Database(p, [n \in {"Cased"} |-> {3} \cup {row.first : row \in {x \in p.rows : x.lower # 0}}])
        : p \in Pieces}
    \cup
    {Database(Block, [n \in {"Any", "Low"} |-> IF n = "Any" THEN S ELSE S \cap 0 .. 5])
        : S \in {T \cup U : T \in {{}, {1, 2, 4}}, U \in SUBSET (5 .. 11)}}
=============================================================================
