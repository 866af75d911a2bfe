----------------------------- MODULE MCTreeTools -----------------------------
(* Trees for TreeTools.  The packages a and b, with c under a, in every graph *)
(* of up to three; small faults of two packages; and drafts of a package b    *)
(* that publishes what a declares.                                            *)
EXTENDS TreeTools, TLC

Core(n) == <<"core">> \o n
A == Core(<<"a">>)
B == Core(<<"b">>)
C == Core(<<"a", "c">>)
Cx == Core(<<"a", "cx">>)       \* its text runs on where that of C ends
K == Core(<<"a", "k">>)         \* a file of a
Nowhere == Core(<<"z">>)

Order == <<Core(<<>>), A, C, Cx, K, B, Nowhere, <<"other", "a">>, <<"other", "a", "c">>, <<"tests">>, <<"tests", "lint">>>>
MCNames == {Order[i] : i \in DOMAIN Order}
MCPosition == [n \in MCNames |-> CHOOSE i \in DOMAIN Order : Order[i] = n]
MCBelow(m, k) == Len(m) > Len(k) /\ SubSeq(m, 1, Len(k)) = k
MCStartsWith(m, k) == m = k \/ MCBelow(m, k) \/ (m = Cx /\ k = C)
MCPathOf(n) == Core(Tail(n))
MCCore == Core(<<>>)
MCFixtures == <<"tests", "lint">>

Sorted(S) ==
    CHOOSE s \in [1 .. Cardinality(S) -> S] :
        \A i, j \in DOMAIN s : i < j => MCPosition[s[i]] < MCPosition[s[j]]

Manifest(name, tier, deps) ==
    [name |-> name, tier |-> tier, deps |-> deps, unsafe |-> FALSE, go |-> "none"]

Import(from, name) == [from |-> from, name |-> name, as |-> name, example |-> FALSE]
File(dir, imports) ==
    [dir |-> dir, module |-> dir, generated |-> FALSE, marks |-> {}, declares |-> {},
     imports |-> {Import(n, "x") : n \in imports}]

\* Packages that import exactly what they declare.
Grown(deps, tiers) ==
    [manifests |-> [d \in DOMAIN deps |-> Manifest(d, tiers[d], Sorted(deps[d]))],
     files |-> {File(d, deps[d]) : d \in DOMAIN deps}]

Three == {A, B, C}
SomeTiers == {[d \in Three |-> CASE d = A -> t[1] [] d = B -> t[2] [] d = C -> t[3]] :
                t \in {<<0, 0, 0>>, <<0, 1, 2>>, <<0, 1, 1>>, <<2, 1, 0>>, <<1, 2, 0>>}}
Threes == {Grown(deps, tiers) : deps \in [Three -> SUBSET Three], tiers \in SomeTiers}
Twos == {Grown(deps, tiers) : deps \in [{A, B} -> SUBSET {A, B, Nowhere}], tiers \in [{A, B} -> 0 .. 2]}

\* b over a and c, by what its manifest says and its code imports.
Stack(deps, imports) ==
    [manifests |-> (A :> Manifest(A, 0, <<>>) @@ C :> Manifest(C, 0, <<>>) @@ B :> Manifest(B, 1, deps)),
     files |-> {File(A, {}), [File(A, {}) EXCEPT !.module = K], [File(A, {}) EXCEPT !.module = Cx],
                File(C, {}), File(B, imports)}]
Layers == {Stack(deps, imports) : deps \in {<<>>, <<A>>, <<C>>, <<A, C>>, <<C, A>>},
                                  imports \in SUBSET {A, C, Cx, K}}

Marked == {[Stack(<<A>>, {A}) EXCEPT !.files = {[f EXCEPT !.marks = marks] : f \in @}] :
            marks \in SUBSET {"unsafe", "fallible next", "must"}}
Misnamed == {[Stack(<<A>>, {A}) EXCEPT !.manifests[d].name = n] : d \in {A, C}, n \in {B, <<"other", "a">>}}
Planned == {[Stack(<<A>>, {A}) EXCEPT !.files = {f \in @ : f.dir # d}] : d \in {A, B, C}}

\* A name the linter takes for the place it is in, so that what is imported
\* from there is charged to the package above; a module with the name of a
\* package that has no code.
Misled ==
    {[Stack(<<A>>, {A, C}) EXCEPT !.manifests[C].name = <<"other", "a", "c">>]}
    \cup {[Stack(<<C>>, {C}) EXCEPT !.files = {IF f.dir = B THEN f ELSE [f EXCEPT !.dir = A] : f \in @}]}

MCGraphs == Misled \cup Threes \cup Twos \cup Layers \cup Marked \cup Misnamed \cup Planned

Node(kind, name, members) == [kind |-> kind, name |-> name, members |-> members]
Buffer == Node("struct", "Buffer", {"read"})
MCGo == ("a" :> {[kind |-> "type", name |-> <<"Buffer">>], [kind |-> "method", name |-> <<"Buffer", "Read">>]}
         @@ "b" :> {[kind |-> "type", name |-> <<"Buffer">>], [kind |-> "method", name |-> <<"Buffer", "Read">>],
                    [kind |-> "func", name |-> <<"Len">>]}
         @@ "syscall" :> {[kind |-> "func", name |-> <<"Len">>]})
MCSnake(n) == CASE n = "Read" -> "read" [] n = "Len" -> "len" [] OTHER -> n

\* What b may publish of a, and declare itself.
Ways ==
    {{}, {Import(A, "Buffer")}, {Import(A, "_hidden")}, {Import(K, "Buffer")},
     {[Import(A, "Buffer") EXCEPT !.as = "Other"]}, {[Import(A, "Buffer") EXCEPT !.example = TRUE]}}
Draft(go, ways, here) ==
    [manifests |-> (A :> [Manifest(A, 0, <<>>) EXCEPT !.go = "a"]
                    @@ B :> [Manifest(B, IF ways = {} THEN 0 ELSE 1, IF ways = {} THEN <<>> ELSE <<A>>) EXCEPT !.go = go]),
     files |-> {[File(A, {}) EXCEPT !.module = K, !.declares = {Buffer}], File(A, {}),
                [File(B, {}) EXCEPT !.declares = here, !.imports = ways]}]
\* b publishes what a publishes in turn, and a has a type of that name or not.
Chain(here) ==
    [manifests |-> (Nowhere :> Manifest(Nowhere, 0, <<>>)
                    @@ A :> Manifest(A, 1, <<Nowhere>>)
                    @@ B :> [Manifest(B, 2, <<A>>) EXCEPT !.go = "b"]),
     files |-> {[File(Nowhere, {}) EXCEPT !.declares = {Buffer}],
                [File(A, {}) EXCEPT !.imports = {Import(Nowhere, "Buffer")}, !.declares = here],
                [File(B, {}) EXCEPT !.imports = {Import(A, "Buffer")}]}]
\* c under a has a type, which b owes and a does or does not; a declares it
\* too, or b publishes it from a, or none of this.
Nested(here, ways) ==
    [manifests |-> (A :> [Manifest(A, 0, <<>>) EXCEPT !.go = "a"]
                    @@ C :> Manifest(C, 0, <<>>)
                    @@ B :> [Manifest(B, 1, <<A>>) EXCEPT !.go = "b"]),
     files |-> {[File(A, {}) EXCEPT !.declares = here],
                [File(C, {}) EXCEPT !.declares = {Buffer}],
                [File(B, {}) EXCEPT !.imports = ways]}]
Nestings ==
    {Nested(here, ways) : here \in {{}, {Buffer}}, ways \in {{}, {Import(A, "Buffer")}, {Import(C, "Buffer")}}}
MCDrafts ==
    Nestings
    \cup {Draft("b", ways, here) : ways \in Ways, here \in {{}, {Node("function", "len", {})}}}
    \cup {Draft(go, {}, {Node("struct", "_Own", {"read"})}) : go \in {"syscall", "misspelt"}}
    \cup {[Draft("b", {}, {}) EXCEPT !.files = {f \in @ : f.dir = A}]}
    \cup {Chain(here) : here \in {{}, {Node("struct", "Buffer", {})}}}

Nothing == <<>>
MCLines ==
    {[waived |-> Nothing, renamed |-> Nothing],
     [waived |-> (<<"b", <<"Len">>>> :> "why"), renamed |-> Nothing],
     [waived |-> (<<"b", <<"Len">>>> :> ""), renamed |-> Nothing],
     [waived |-> (<<"b", <<"Cap">>>> :> "why"), renamed |-> Nothing],
     [waived |-> Nothing, renamed |-> (<<"b", <<"Len">>>> :> <<"__len__">>)],
     [waived |-> Nothing, renamed |-> (<<"b", <<"Len">>>> :> <<"len">>)]}
=============================================================================
