------------------------------ MODULE CodecFile ------------------------------
(***************************************************************************)
(* tools/codec/emit.py and run.py: the file that is written for a plan,    *)
(* and what it does when it is built and run.  A generated function is the *)
(* operator it stands for; a document is its tokens, where a key has its   *)
(* colon with it.  The scanner is core/encoding/json/codec.mojo, without   *)
(* its limit on nesting, the widths of numbers and the text of failures.   *)
(*                                                                         *)
(* Every value is marked with what it is: <<"int", 1>>, <<"some", v>>,     *)
(* <<"list", s>>, <<"dict", f>> and <<"obj", f>>, f from keys to values.   *)
(***************************************************************************)
EXTENDS CodecPlan, SequencesExt

CONSTANTS
    Scalars(_),     \* the values of a scalar kind, and of a raw message
    LONGEST,        \* how long a list gets
    Keys,           \* the keys a dictionary may have
    DEPTH,          \* how deep the values that are written go
    Snake(_)        \* the name of a struct in the name of a function

VARIABLES
    file,       \* json_codec.mojo: the codecs in it
    top,        \* the struct the document is of
    sent,       \* the values a document was made from
    doc,
    strict,     \* disallow_unknown
    back        \* what unmarshal_json gave

fileVars == <<file, top, sent, doc, strict, back>>
vars == <<package, stage, todo, known, reasons, file, top, sent, doc, strict, back>>

NoAnswer == [ok |-> FALSE, v |-> <<"none">>, at |-> 0]

Init ==
    /\ PlanInit
    /\ file = {} /\ top = <<>> /\ sent = <<>> /\ doc = <<>> /\ strict = FALSE /\ back = NoAnswer

Plan == PlanNext /\ UNCHANGED fileVars

-----------------------------------------------------------------------------
(* build and generate *)

Decodable(s) == \A i \in DOMAIN known[s].members : ~known[s].members[i].skip

\* A problem anywhere stops the whole file.
Generate ==
    /\ stage = "planned"
    /\ IF Planned = Asked /\ Asked # {} THEN file' = Planned /\ stage' = "written"
                                        ELSE UNCHANGED file /\ stage' = "refused"
    /\ UNCHANGED <<package, todo, known, reasons, top, sent, doc, strict, back>>

\* What the compiler asks of the file: that a decoder calls decoders that are
\* in it, that no two of them have one name, that a struct is made of all its
\* fields, and that a field is read into the type it has.
CallsDefined ==
    \A s \in {u \in file : Decodable(u)} : \A n \in StructsIn(known[s]) : Decodable(NestedPath(n))

NamesDistinct ==
    \A s, u \in {x \in file : Decodable(x)} : Snake(NameOf(s)) = Snake(NameOf(u)) => s = u

FieldsComplete ==
    \A s \in {x \in file : Decodable(x)} :
        LET lines == ModuleOf(s).lines
        IN  {lines[i].name : i \in OwnFields(lines, NameOf(s))} = PublicNames(package.structs[s])

\* The path of what is in the containers of a type.
LeafPath(s, field) ==
    LET leaf[t \in Texts] ==
            LET path == AsWritten(ModuleOf(s), {}, t.head).path
            IN  IF path \in {<<"Optional">>, <<"List">>, <<"Dict">>} /\ t.args # <<>>
                THEN leaf[t.args[Len(t.args)]] ELSE path
        lines == ModuleOf(s).lines
        own == OwnFields(lines, NameOf(s))
    IN  leaf[lines[CHOOSE i \in own : lines[i].name = field.name].type]

LeafIs(e, path) ==
    CASE e.kind = "struct" -> path # <<>> /\ ResolveIn(Structs, path) = {NestedPath(e.spell)}
      [] e.kind = "raw"    -> path = RAW
      [] OTHER             -> path = <<e.spell>>

TypesAgree ==
    \A s \in file : \A i \in {j \in DOMAIN Fields(s) : ~known[s].members[j].skip} :
        LeafIs(known[s].members[i].enc, LeafPath(s, Fields(s)[i]))

Compile ==
    /\ stage = "written"
    /\ stage' = IF CallsDefined /\ NamesDistinct /\ FieldsComplete /\ TypesAgree THEN "built" ELSE "broken"
    /\ UNCHANGED <<package, todo, known, reasons, fileVars>>

-----------------------------------------------------------------------------
(* The encoder *)

Null == <<"null">>
Comma == <<",">>
KeyOf(n) == <<"key", n>>

Separated(pieces) ==
    FlattenSeq([i \in DOMAIN pieces |-> IF i = 1 THEN pieces[i] ELSE <<Comma>> \o pieces[i]])

\* omitempty's test, for the kinds that may have it.
Holds(e, v) == CASE KindOf(e) = "optional" -> v # <<"none">>
                 [] KindOf(e) \in {"list", "raw"} -> v[2] # <<>>
                 [] KindOf(e) = "dict" -> DOMAIN v[2] # {}

MembersOnWire(s) == SelectSeq(known[s].members, LAMBDA m : ~m.skip)

RECURSIVE Encode(_, _), EncodeFrom(_, _, _, _)

Encode(e, v) ==
    CASE KindOf(e) = "optional" -> IF v = <<"none">> THEN <<Null>> ELSE Encode(InnerOf(e), v[2])
      [] KindOf(e) = "list" ->
            <<<<"[">>>> \o Separated([i \in DOMAIN v[2] |-> Encode(InnerOf(e), v[2][i])]) \o <<<<"]">>>>
      [] KindOf(e) = "dict" ->
            LET keys == SetToSeq(DOMAIN v[2])
            IN  <<<<"{">>>>
                \o Separated([i \in DOMAIN keys |-> <<KeyOf(keys[i])>> \o Encode(InnerOf(e), v[2][keys[i]])])
                \o <<<<"}">>>>
      [] KindOf(e) = "raw" -> IF v[2] = <<>> THEN <<Null>> ELSE v[2]
      [] KindOf(e) = "struct" ->
            <<<<"{">>>> \o EncodeFrom(MembersOnWire(NestedPath(e.spell)), v[2], 1, FALSE) \o <<<<"}">>>>
      [] OTHER -> <<v>>

\* The members from the i-th on.  After one that is always written every comma
\* is certain; before it, whether there is one is found out by the flag.
EncodeFrom(members, fields, i, wrote) ==
    IF i > Len(members) THEN <<>>
    ELSE LET m == members[i]
             certain == \E j \in 1 .. i - 1 : ~members[j].omit
             comma == certain \/ wrote
             rest(flag) == EncodeFrom(members, fields, i + 1, flag)
         IN  IF m.omit /\ ~Holds(m.enc, fields[m.name]) THEN rest(wrote)
             ELSE (IF comma THEN <<Comma>> ELSE <<>>)
                  \o <<KeyOf(m.json)>> \o Encode(m.enc, fields[m.name])
                  \o rest(wrote \/ (m.omit /\ ~certain))

EncodingOfStruct(s) == Encoding(<<>>, "struct", NameOf(s))

-----------------------------------------------------------------------------
(* The decoder: from a position, the value and the position after it *)

TokenAt(i) == IF i \in DOMAIN doc THEN doc[i] ELSE <<"end">>
Read(v, at) == [ok |-> TRUE, v |-> v, at |-> at]

Opening(i) == Cardinality({j \in 1 .. i : doc[j] \in {<<"[">>, <<"{">>}})
              - Cardinality({j \in 1 .. i : doc[j] \in {<<"]">>, <<"}">>}})

\* Where the value at i ends.
ValueEnd(i) ==
    LET from == IF i = 1 THEN 0 ELSE Opening(i - 1)
    IN  CHOOSE j \in i .. Len(doc) : /\ Opening(j) = from
                                     /\ \A k \in i .. j - 1 : Opening(k) # from

EmptyOf(kind) == CASE kind = "optional" -> <<"none">>
                   [] kind = "list" -> <<"list", <<>>>>
                   [] kind = "raw"  -> <<"raw", <<>>>>
                   [] kind = "dict" -> <<"dict", [k \in {} |-> Null]>>

\* Keeps the first value of a repeated key.
Put_First(f, k, v) == [x \in DOMAIN f \cup {k} |-> IF x \in DOMAIN f THEN f[x] ELSE v]

Put(f, k, v) == [x \in DOMAIN f \cup {k} |-> IF x = k THEN v ELSE f[x]]

\* The object at hand: a key the document repeats replaces what it had.
Construct(s, got, at) ==
    LET members == known[s].members
        By(n) == CHOOSE i \in DOMAIN members : members[i].name = n
        Missing(m) == m.json \notin DOMAIN got
    IN  IF \E i \in DOMAIN members : Missing(members[i]) /\ KindOf(members[i].enc) \notin ABSENT
        THEN NoAnswer
        ELSE Read(<<"obj", [n \in {members[i].name : i \in DOMAIN members} |->
                LET m == members[By(n)]
                IN  IF Missing(m) THEN EmptyOf(KindOf(m.enc)) ELSE got[m.json]]>>, at)

RECURSIVE Decode(_, _), Items(_, _, _), Entries(_, _, _), Object(_, _, _)

Decode(e, i) ==
    CASE KindOf(e) = "optional" ->
            IF TokenAt(i) = Null THEN Read(<<"none">>, i + 1)
            ELSE LET r == Decode(InnerOf(e), i)
                 IN  IF r.ok THEN Read(<<"some", r.v>>, r.at) ELSE NoAnswer
      [] KindOf(e) = "list" ->
            IF TokenAt(i) # <<"[">> THEN NoAnswer
            ELSE IF TokenAt(i + 1) = <<"]">> THEN Read(<<"list", <<>>>>, i + 2)
            ELSE Items(InnerOf(e), i + 1, <<>>)
      [] KindOf(e) = "dict" ->
            IF TokenAt(i) # <<"{">> THEN NoAnswer
            ELSE IF TokenAt(i + 1) = <<"}">> THEN Read(EmptyOf("dict"), i + 2)
            ELSE Entries(InnerOf(e), i + 1, [k \in {} |-> Null])
      [] KindOf(e) = "struct" ->
            LET s == NestedPath(e.spell)
            IN  IF TokenAt(i) # <<"{">> THEN NoAnswer
                ELSE IF TokenAt(i + 1) = <<"}">> THEN Construct(s, [k \in {} |-> Null], i + 2)
                ELSE Object(s, i + 1, [k \in {} |-> Null])
      [] KindOf(e) = "raw" ->
            LET end == ValueEnd(i) IN Read(<<"raw", SubSeq(doc, i, end)>>, end + 1)
      [] OTHER -> IF TokenAt(i)[1] = KindOf(e) THEN Read(TokenAt(i), i + 1) ELSE NoAnswer

Items(e, i, got) ==
    LET r == Decode(e, i)
        held == Append(got, r.v)
    IN  IF ~r.ok THEN NoAnswer
        ELSE IF TokenAt(r.at) = Comma THEN Items(e, r.at + 1, held)
        ELSE IF TokenAt(r.at) = <<"]">> THEN Read(<<"list", held>>, r.at + 1) ELSE NoAnswer

Entries(e, i, got) ==
    IF TokenAt(i)[1] # "key" THEN NoAnswer
    ELSE LET r == Decode(e, i + 1)
             held == Put(got, TokenAt(i)[2], r.v)
         IN  IF ~r.ok THEN NoAnswer
             ELSE IF TokenAt(r.at) = Comma THEN Entries(e, r.at + 1, held)
             ELSE IF TokenAt(r.at) = <<"}">> THEN Read(<<"dict", held>>, r.at + 1) ELSE NoAnswer

Object(s, i, got) ==
    IF TokenAt(i)[1] # "key" THEN NoAnswer
    ELSE LET key == TokenAt(i)[2]
             matching == {j \in DOMAIN known[s].members : known[s].members[j].json = key}
             r == IF matching # {} THEN Decode(known[s].members[CHOOSE j \in matching : TRUE].enc, i + 1)
                  ELSE IF strict THEN NoAnswer ELSE Read(Null, ValueEnd(i + 1) + 1)
             held == IF matching = {} THEN got ELSE Put(got, key, r.v)
         IN  IF ~r.ok THEN NoAnswer
             ELSE IF TokenAt(r.at) = Comma THEN Object(s, r.at + 1, held)
             ELSE IF TokenAt(r.at) = <<"}">> THEN Construct(s, held, r.at + 1) ELSE NoAnswer
-----------------------------------------------------------------------------
(* A program that uses the file *)

RECURSIVE ValuesOf(_, _)
ValuesOf(e, depth) ==
    CASE KindOf(e) = "optional" ->
            {<<"none">>} \cup {<<"some", v>> : v \in ValuesOf(InnerOf(e), depth)}
      [] KindOf(e) = "list" ->
            {<<"list", vs>> : vs \in BoundedSeq(ValuesOf(InnerOf(e), depth), LONGEST)}
      [] KindOf(e) = "dict" ->
            {<<"dict", f>> : f \in UNION {[K -> ValuesOf(InnerOf(e), depth)] : K \in SUBSET Keys}}
      [] KindOf(e) = "struct" ->
            LET members == known[NestedPath(e.spell)].members
                of == [n \in {members[i].name : i \in DOMAIN members} |->
                        LET m == members[CHOOSE i \in DOMAIN members : members[i].name = n]
                        IN  IF depth = 0 THEN {} ELSE IF m.skip THEN {Null}
                            ELSE ValuesOf(m.enc, depth - 1)]
            IN  {<<"obj", f>> : f \in {g \in [DOMAIN of -> UNION {of[n] : n \in DOMAIN of}] :
                                        \A n \in DOMAIN of : g[n] \in of[n]}}
      [] OTHER -> Scalars(KindOf(e))

ValuesIn(s) == ValuesOf(EncodingOfStruct(s), DEPTH)

Marshal ==
    /\ stage = "built"
    /\ \E s \in file : \E v \in ValuesIn(s) : \E b \in BOOLEAN :
        /\ top' = s /\ sent' = <<v>> /\ strict' = b
        /\ doc' = Encode(EncodingOfStruct(s), v)
    /\ stage' = "sent"
    /\ UNCHANGED <<package, todo, known, reasons, file, back>>

\* A document of another program: one object after the other in one pair of
\* braces, with a key of its own at the end or not.
MembersOf(s, v) == EncodeFrom(MembersOnWire(s), v[2], 1, FALSE)
Stray == <<KeyOf("?"), <<"[">>, <<"{">>, KeyOf("?"), Null, <<"}">>, Comma, Null, <<"]">>>>

Arrive ==
    /\ stage = "built"
    /\ \E s \in file : \E v, w \in ValuesIn(s) : \E b, stray \in BOOLEAN :
        /\ top' = s /\ sent' = <<v, w>> /\ strict' = b
        /\ doc' = LET parts == <<MembersOf(s, v), MembersOf(s, w), IF stray THEN Stray ELSE <<>>>>
                  IN  <<<<"{">>>> \o Separated(SelectSeq(parts, LAMBDA x : x # <<>>)) \o <<<<"}">>>>
    /\ stage' = "sent"
    /\ UNCHANGED <<package, todo, known, reasons, file, back>>

\* Nothing may follow the value.
Unmarshal ==
    /\ stage = "sent" /\ Decodable(top)
    /\ back' = LET r == Decode(EncodingOfStruct(top), 1)
               IN  IF r.ok /\ r.at = Len(doc) + 1 THEN r ELSE NoAnswer
    /\ stage' = "read back"
    /\ UNCHANGED <<package, todo, known, reasons, file, top, sent, doc, strict>>

Next == Plan \/ Generate \/ Compile \/ Marshal \/ Arrive \/ Unmarshal

Spec == Init /\ [][Next]_vars

-----------------------------------------------------------------------------
(* Properties *)

\* What a reader gets of a value.  Something written as null cannot be told
\* from nothing, and an empty raw message is a null once it is written.
RECURSIVE Settled(_, _)
Settled(e, v) ==
    CASE KindOf(e) = "optional" ->
            IF v = <<"none">> \/ Encode(InnerOf(e), v[2]) = <<Null>> THEN <<"none">>
            ELSE <<"some", Settled(InnerOf(e), v[2])>>
      [] KindOf(e) = "list" -> <<"list", [i \in DOMAIN v[2] |-> Settled(InnerOf(e), v[2][i])]>>
      [] KindOf(e) = "dict" -> <<"dict", [k \in DOMAIN v[2] |-> Settled(InnerOf(e), v[2][k])]>>
      [] KindOf(e) = "struct" ->
            <<"obj", [n \in DOMAIN v[2] |->
                LET members == known[NestedPath(e.spell)].members
                    m == members[CHOOSE i \in DOMAIN members : members[i].name = n]
                IN  IF m.omit /\ ~Holds(m.enc, v[2][n]) THEN v[2][n] ELSE Settled(m.enc, v[2][n])]>>
      [] KindOf(e) = "raw" -> IF v[2] = <<>> THEN <<"raw", <<Null>>>> ELSE v
      [] OTHER -> v

\* The later of two values, field by field, where it was written at all.
Later(s, v, w) ==
    LET members == known[s].members
    IN  <<"obj", [n \in DOMAIN v[2] |->
            LET m == members[CHOOSE i \in DOMAIN members : members[i].name = n]
            IN  IF m.omit /\ ~Holds(m.enc, w[2][n]) THEN v[2][n] ELSE w[2][n]]>>

HasStray == \E i \in DOMAIN doc : doc[i] = KeyOf("?")

\* emit.py:192 to 493 against plan.py:5 and emit.py:281: whatever a struct
\* holds and however its keys are tagged and left out, the generated decoder
\* reads what the generated encoder wrote; of two values one after the other in
\* one object it takes the last of each repeated key; and it refuses an unknown
\* key only when asked. The keys of a value come in the order of the fields.
ReadsBack == stage = "read back" =>
    LET v == IF Len(sent) = 1 THEN sent[1] ELSE Later(top, sent[1], sent[2])
    IN  IF strict /\ HasStray THEN ~back.ok
        ELSE back.ok /\ back.v = Settled(EncodingOfStruct(top), v)
=============================================================================
