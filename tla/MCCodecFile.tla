----------------------------- MODULE MCCodecFile -----------------------------
(* Packages for CodecFile: a module p.m with the structs A and B, a module   *)
(* p.n with C, and the ways the first may import from the second.            *)
EXTENDS CodecFile

MCNoted == [head |-> <<"#">>, args |-> <<>>]
MCPrelude == {"Int", "String", "Optional", "List", "Dict"}

T(n) == [head |-> <<n>>, args |-> <<>>]
Of(n, t) == [head |-> <<n>>, args |-> <<t>>]
DictOf(t) == [head |-> <<"Dict">>, args |-> <<T("String"), t>>]
Qualified(a, n) == [head |-> <<a, n>>, args |-> <<>>]

Leaves == {T(n) : n \in {"Int", "String", "RawMessage", "A", "B", "C", "D", "T", "def", "Big", "#"}}
          \cup {Qualified("y", "C")}
Once == UNION {{Of("Optional", t), Of("List", t), DictOf(t)} : t \in Leaves}
MCTexts == Leaves \cup Once \cup UNION {{Of("Optional", t), Of("List", t), DictOf(t)} : t \in Once}

Tag(parts) == [parts |-> parts, suspicious |-> FALSE]
NoTag == Tag(<<>>)
OmitTag == Tag(<<"", "omitempty">>)
SkipTag == Tag(<<"-">>)

\* A field as it is written and as mojo doc prints it.
Field(n, t, tag) == [name |-> n, written |-> t, rendered |-> t, tag |-> tag]

Line(is, n, t, opens) == [is |-> is, name |-> n, type |-> t, opens |-> opens, note |-> FALSE]
Plain(is) == Line(is, "", T("#"), 0)
WithNote(line) == [line EXCEPT !.note = TRUE]
FieldLine(f) == Line("field", f.name, f.written, 0)

\* A draft of a struct: what mojo doc says, how its source declares it, and
\* the lines after its fields.
Struct(fields) ==
    [asked |-> TRUE, fieldwise |-> TRUE, parameters |-> {}, fields |-> fields,
     header |-> <<Line("struct", "", T("#"), 0)>>, after |-> <<>>]

SourceOf(n, draft) ==
    <<Plain("top")>>
    \o [draft.header EXCEPT ![1].name = n]
    \o [i \in DOMAIN draft.fields |-> FieldLine(draft.fields[i])]
    \o draft.after
DocOf(n, draft) ==
    [name |-> n, asked |-> draft.asked, fieldwise |-> draft.fieldwise, parameters |-> draft.parameters,
     fields |-> [i \in DOMAIN draft.fields |->
                    [k \in {"name", "rendered", "tag"} |-> draft.fields[i][k]]]]

Import(target, declared, local) == [target |-> target, declared |-> declared, local |-> local]
Raw == Import(<<"core", "encoding", "json">>, "RawMessage", "")

Module(path, drafts, imports) ==
    [path |-> path, declares |-> DOMAIN drafts, imports |-> imports,
     lines |-> FlattenSeq([i \in DOMAIN SetToSeq(DOMAIN drafts) |->
                SourceOf(SetToSeq(DOMAIN drafts)[i], drafts[SetToSeq(DOMAIN drafts)[i]])]),
     aliases |-> <<[target |-> <<"p", "n">>, alias |-> "y"]>>]

PathOf(n) == IF n = "C" THEN <<"p", "n", "C">> ELSE <<"p", "m", n>>

\* A package out of its structs by name, and the import lines of p.m.
Package(drafts, imports) ==
    [modules |-> [m \in {<<"p", "m">>, <<"p", "n">>} |->
                    LET here == {n \in DOMAIN drafts : (n = "C") = (m = <<"p", "n">>)}
                    IN  Module(m, [n \in here |-> drafts[n]], IF m = <<"p", "m">> THEN imports ELSE <<>>)],
     structs |-> [s \in {PathOf(n) : n \in DOMAIN drafts} |-> DocOf(NameOf(s), drafts[NameOf(s)])]]

OneStruct(fields) == Package([n \in {"A"} |-> Struct(fields)], <<Raw>>)

\* What commas and omitted fields there may be.
Commas ==
    {OneStruct([i \in 1 .. 3 |-> Field(<<"e", "f", "g">>[i], c[i][1], c[i][2])]) :
        c \in [1 .. 3 -> {<<T("Int"), NoTag>>, <<Of("Optional", T("Int")), OmitTag>>}]}

\* What a type may be.
Shapes ==
    {OneStruct(<<Field("f", t, tag), Field("g", u[1], u[2])>>) :
        t \in {T("Int"), T("String"), T("RawMessage"), Of("Optional", T("Int")), Of("List", T("Int")),
               DictOf(T("Int")), Of("Optional", T("RawMessage")), Of("List", Of("Optional", T("Int"))),
               Of("Optional", Of("Optional", T("Int"))), DictOf(Of("List", T("Int"))),
               T("def"), T("Big"), Of("Int", T("Int"))} \cap MCTexts,
        tag \in {NoTag, Tag(<<"k">>), OmitTag},
        u \in {<<T("Int"), NoTag>>, <<Of("List", T("Int")), OmitTag>>, <<T("Int"), SkipTag>>}}

\* What a tag may say.
Tags ==
    {OneStruct(<<Field("f", Of("Optional", T("Int")), tag), Field("g", T("Int"), NoTag)>>) :
        tag \in {Tag(p) : p \in {<<"-", "">>, <<"n", "omitEmpty">>, <<"n", "", "omitempty">>,
                                 <<"n", "omitempty", "omitempty">>, <<"quote">>, <<"g">>}}
                \cup {[NoTag EXCEPT !.suspicious = TRUE]}}

\* Structs that hold one another, and whose own fault keeps one out.
Faults(struct) ==
    {struct, [struct EXCEPT !.asked = FALSE], [struct EXCEPT !.fieldwise = FALSE],
     [struct EXCEPT !.after = <<Line("field", "_secret", T("Int"), 0)>>], [struct EXCEPT !.parameters = {"T"}]}

Chains ==
    {Package([n \in {"A", "B", "C"} |-> CASE n = "A" -> a [] n = "B" -> b [] n = "C" -> c],
             <<Import(<<"p", "n">>, "C", "")>>) :
        a \in Faults(Struct(<<Field("f", Of("List", T("B")), NoTag)>>)),
        b \in Faults(Struct(<<Field("g", Of("Optional", T("C")), NoTag)>>)),
        c \in Faults(Struct(<<Field("h", T("Int"), NoTag)>>))}
    \cup
    UNION {{Package([n \in {"A", "B"} |-> CASE n = "A" -> a [] n = "B" -> b], <<>>) :
                a \in Faults(Struct(<<Field("f", Of(outer, T("B")), OmitTag)>>)),
                b \in Faults(Struct(<<Field("g", Of("Optional", T("A")), NoTag)>>))
                      \cup {Struct(<<Field("g", T("Int"), SkipTag)>>)}}
           : outer \in {"List", "Optional"}}

\* The ways one module names a struct of another, and of two of one name.
Imports ==
    {Package([n \in {"A", "C"} |-> IF n = "A" THEN Struct(<<Field("f", t, NoTag)>>)
                                   ELSE Struct(<<Field("h", T("Int"), NoTag)>>)], <<line>>) :
        t \in {T("C"), T("D"), Qualified("y", "C")},
        line \in {Import(<<"p", "n">>, "C", ""), Import(<<"p">>, "C", ""),
                  Import(<<"p", "n">>, "C", "D"), Import(<<"x">>, "C", "")}}

\* A comment behind the declaration hides the fields from the scan, and the
\* type is as mojo doc prints it.
Printed ==
    {Package([n \in {"A", "C"} |->
                IF n = "A" THEN [Struct(<<[Field("f", w, NoTag) EXCEPT !.rendered = T("C")]>>)
                                    EXCEPT !.header = <<WithNote(Line("struct", "", T("#"), 0))>>]
                ELSE Struct(<<Field("h", T("Int"), NoTag)>>)],
             <<Import(<<"p", "n">>, "C", IF w = T("C") THEN "" ELSE "D")>>) : w \in {T("C"), T("D")}}

Twin ==
    LET one == Struct(<<Field("g", T("Int"), NoTag)>>)
        p == Package([n \in {"A", "B", "C"} |->
                IF n = "A" THEN Struct(<<Field("f", T("B"), NoTag)>>) ELSE one], <<>>)
    IN  {[p EXCEPT !.structs = [s \in DOMAIN @ \cup {<<"p", "n", "B">>} |->
                                    IF s \in DOMAIN @ THEN @[s] ELSE DocOf("B", one)],
                   !.modules[<<"p", "n">>].declares = {"B", "C"},
                   !.modules[<<"p", "n">>].lines = @ \o SourceOf("B", one)]}

\* How a source may be laid out: a declaration and a type on several lines,
\* private fields, comments, methods that annotate a variable, and text in
\* column zero.
Headers ==
    LET open == Line("struct", "", T("#"), 1)
        more == Plain("header")
        close == Line("header", "", T("#"), -1)
    IN  {<<Line("struct", "", T("#"), 0)>>, <<WithNote(Line("struct", "", T("#"), 0))>>,
         <<open, close>>, <<open, more, close>>, <<open, WithNote(more), WithNote(close)>>}

Method(locals) == <<Plain("def")>> \o locals
Pieces ==
    {<<Line("field", "_p", T("Int"), 0)>>,
     <<Line("field", "_q", Of("List", T("Int")), 1), Plain("more"), Line("more", "", T("#"), -1)>>,
     <<WithNote(Line("field", "_r", T("Int"), 0))>>,
     Method(<<Plain("text")>>), Method(<<Line("local", "x", T("Int"), 0)>>),
     Method(<<Line("local", "e", T("String"), 0)>>),
     <<Plain("flush")>>, <<Plain("blank"), Plain("text")>>}

Layouts ==
    {Package([n \in {"A", "B"} |->
                [Struct(<<Field("e", T("Int"), NoTag)>>) EXCEPT
                    !.asked = (n = "A"),
                    !.header = IF n = "A" THEN header ELSE @,
                    !.after = IF n = "A" THEN FlattenSeq(pieces) ELSE @]], <<>>) :
        header \in Headers, pieces \in {p \in BoundedSeq(Pieces, 3) : IsInjective(p)}}

MCPackages == Commas \cup Shapes \cup Tags \cup Chains \cup Imports \cup Printed \cup Twin \cup Layouts

MCScalars(kind) ==
    CASE kind = "int"    -> {<<"int", 0>>, <<"int", 1>>}
      [] kind = "string" -> {<<"string", "">>}
      [] kind = "raw"    -> {<<"raw", <<>>>>, <<"raw", <<Null>>>>, <<"raw", <<<<"[">>, Null, <<"]">>>>>>}
MCSnake(n) == n
=============================================================================
