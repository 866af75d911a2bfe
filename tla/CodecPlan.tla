------------------------------ MODULE CodecPlan ------------------------------
(***************************************************************************)
(* tools/codec/plan.py, with tags.py and the part of docjson it reads      *)
(* through: which structs of a package get a codec, and what is said of    *)
(* the others.  A struct is known by its path.  The order of the structs   *)
(* decides only the order of the file and of the messages, and the text of *)
(* a message is left out: a reason is the rule that was broken.            *)
(***************************************************************************)
EXTENDS DocNames, FiniteSets

CONSTANTS
    Packages,       \* what mojo doc and the sources of a package may hold
    INVALID_NAMES   \* the names Go would throw away

\* The compiler took the package that mojo doc described.
ASSUME SourcesAssumption ==
    \A p \in Packages :
        /\ \A m \in DOMAIN p.modules : p.modules[m].lines \in Seq(Range(p.modules[m].lines))
                                      /\ IsSource(p.modules[m].lines)
        /\ \A s \in DOMAIN p.structs :
            LET m == SubSeq(s, 1, Len(s) - 1)
            IN  /\ m \in DOMAIN p.modules
                /\ p.modules[m].lines = <<>> \/ DeclaredIn(p.modules[m].lines, s[Len(s)])

VARIABLES
    package,
    stage,
    todo,       \* the structs of the second pass still to be looked at
    known,      \* the codec of each struct that asked, or none yet
    reasons     \* what was said of each

planVars == <<package, stage, todo, known, reasons>>

NoCodec == [planned |-> FALSE, members |-> <<>>]
CodecOf(members) == [planned |-> TRUE, members |-> members]

Structs == DOMAIN package.structs
Asked == {s \in Structs : package.structs[s].asked}
NameOf(s) == s[Len(s)]
ModuleOf(s) == package.modules[SubSeq(s, 1, Len(s) - 1)]

PlanInit ==
    /\ package \in Packages
    /\ stage = "read"
    /\ todo = {} /\ known = <<>> /\ reasons = <<>>

-----------------------------------------------------------------------------
(* Tags *)

\* The parts of the json value between its commas; none of them without a tag.
Skips(tag) == tag.parts = <<"-">>
TagName(field) ==
    IF field.tag.parts = <<>> \/ Skips(field.tag) \/ field.tag.parts[1] = "" THEN field.name
    ELSE field.tag.parts[1]

\* The trailing comma of "-," is the one that means something.
OptionsOf(tag) ==
    IF tag.parts \in {<<>>, <<"-">>, <<"-", "">>} THEN {} ELSE 2 .. Len(tag.parts)

OmitsEmpty(tag) == \E i \in OptionsOf(tag) : tag.parts[i] = "omitempty"

TagProblems(field) ==
    LET tag == field.tag
        options == OptionsOf(tag)
    IN  {"suspicious" : x \in {TRUE} \cap {tag.suspicious}}
        \cup {IF tag.parts[i] = "" THEN "stray comma" ELSE "unknown option" :
                i \in {j \in options : tag.parts[j] # "omitempty"}}
        \cup {"twice" : p \in {q \in options \X options :
                q[1] < q[2] /\ tag.parts[q[1]] = tag.parts[q[2]] /\ tag.parts[q[1]] # ""}}
        \cup {"invalid name" : x \in {y \in {TagName(field)} :
                y \in INVALID_NAMES /\ tag.parts # <<>> /\ ~Skips(tag)}}

-----------------------------------------------------------------------------
(* Encodings *)

SIGNED == {"Int", "Int8", "Int16", "Int32", "Int64"}
UNSIGNED == {"UInt", "UInt8", "UInt16", "UInt32", "UInt64"}
FLOATING == {"Float32", "Float64"}
RAW == <<"core", "encoding", "json", "RawMessage">>

ABSENT == {"optional", "list", "dict", "raw"}

\* The containers a type is inside of, outermost first, and what is in them.
\* A dictionary is keyed by strings, so it is known by its values.
Encoding(outer, kind, spell) == [outer |-> outer, kind |-> kind, spell |-> spell]
Refused == Encoding(<<>>, "refused", "")

KindOf(e) == IF e.outer = <<>> THEN e.kind ELSE e.outer[1]
InnerOf(e) == [e EXCEPT !.outer = Tail(e.outer)]

ScalarKind(n) ==
    CASE n = "Bool"      -> "bool"
      [] n \in SIGNED    -> "int"
      [] n \in UNSIGNED  -> "uint"
      [] n \in FLOATING  -> "float"
      [] n = "String"    -> "string"
      [] OTHER           -> "none"

Container(n, count) ==
    CASE n = "Optional" /\ count = 1 -> "optional"
      [] n = "List" /\ count = 1     -> "list"
      [] n = "Dict" /\ count = 2     -> "dict"
      [] OTHER                       -> "none"

\* What the type of a field turns into.  The scalars and the containers are
\* known by their names and everything else by where it was found.
EncodingIn(structs, asked, m, struct, field) ==
    LET enc[t \in Texts] ==
            LET ref == HeadRef(m, struct, field, t.head)
                n == IF Len(t.head) = 1 THEN t.head[1] ELSE ""
                kind == Container(n, Len(t.args))
                inner == enc[t.args[Len(t.args)]]
                nested == ResolveIn(structs, ref.path)
            IN  IF ~Resolved(ref) THEN Refused
                ELSE IF ScalarKind(n) # "none" THEN Encoding(<<>>, ScalarKind(n), n)
                ELSE IF ref.path = RAW THEN Encoding(<<>>, "raw", "RawMessage")
                ELSE IF kind # "none"
                THEN IF \/ kind = "dict" /\ t.args[1].head # <<"String">>
                        \/ inner.kind = "refused" THEN Refused
                     ELSE [inner EXCEPT !.outer = <<kind>> \o inner.outer]
                ELSE IF nested # {} /\ nested \subseteq asked
                THEN Encoding(<<>>, "struct", NameOf(CHOOSE u \in nested : TRUE))
                ELSE Refused
    IN  enc[FieldText(m, struct, field)]

EncodingOf(s, field) == EncodingIn(Structs, Asked, ModuleOf(s), package.structs[s], field)

-----------------------------------------------------------------------------
(* One struct *)

Fields(s) == package.structs[s].fields

MemberOf(s, i) ==
    LET field == Fields(s)[i]
    IN  IF Skips(field.tag)
        THEN [name |-> field.name, json |-> "", enc |-> Refused, omit |-> FALSE, skip |-> TRUE]
        ELSE [name |-> field.name, json |-> TagName(field), enc |-> EncodingOf(s, field),
              omit |-> OmitsEmpty(field.tag), skip |-> FALSE]

Members(s) == [i \in DOMAIN Fields(s) |-> MemberOf(s, i)]

\* Go writes both keys and reads the last one, which loses a field.
SameName(members, read) ==
    \E i, j \in read : i # j /\ members[i].json = members[j].json

\* What is wrong with a struct of a module, given what its fields turn into.
ProblemsIn(struct, m, members) ==
    LET written == {i \in DOMAIN members : ~members[i].skip}
        read == {i \in written : members[i].enc.kind # "refused"}
        If(reason, broken) == {x \in {reason} : broken}
    IN  If("generic", struct.parameters # {})
        \cup If("private fields", Hidden(m, struct) # {})
        \cup If("not fieldwise", ~(struct.fieldwise /\ HasSource(m)))
        \cup (UNION {TagProblems(struct.fields[i]) : i \in DOMAIN struct.fields})
        \cup If("no JSON", read # written)
        \cup If("omitempty", \E i \in read :
                members[i].omit /\ KindOf(members[i].enc) \notin ABSENT)
        \cup If("same name", SameName(members, read))

ProblemsOf(s) == ProblemsIn(package.structs[s], ModuleOf(s), Members(s))

-----------------------------------------------------------------------------
(* The three passes of plan *)

Twins(s) == {u \in Asked : NameOf(u) = NameOf(s)}
HasTwin(s) == Twins(s) # {s}

FindTwins ==
    /\ stage = "read"
    /\ known' = [s \in Asked |-> NoCodec]
    /\ reasons' = [s \in Asked |-> {r \in {"twin"} : HasTwin(s)}]
    /\ todo' = {s \in Asked : ~HasTwin(s)}
    /\ stage' = "one"
    /\ UNCHANGED package

PlanOne ==
    /\ stage = "one" /\ todo # {}
    /\ LET s == CHOOSE x \in todo : TRUE
       IN  /\ IF ProblemsOf(s) = {}
              THEN known' = [known EXCEPT ![s] = CodecOf(Members(s))] /\ UNCHANGED reasons
              ELSE reasons' = [reasons EXCEPT ![s] = ProblemsOf(s)] /\ UNCHANGED known
           /\ todo' = todo \ {s}
    /\ UNCHANGED <<package, stage>>

StructsIn(codec) ==
    {codec.members[i].enc.spell :
        i \in {j \in DOMAIN codec.members : codec.members[j].enc.kind = "struct"}}

\* A codec refers to another by the name of the struct.
NestedPath(n) == CHOOSE u \in Asked : NameOf(u) = n

Planned == {s \in Asked : known[s].planned}
NamesOf(S) == {NameOf(s) : s \in S}

Gone == {s \in Planned : ~(StructsIn(known[s]) \subseteq NamesOf(Planned))}

LeaveOne ==
    /\ stage = "one" /\ todo = {}
    /\ stage' = "fall"
    /\ UNCHANGED <<package, todo, known, reasons>>

\* Refuses only what holds a refused struct itself.
FallOut_Once ==
    /\ stage = "fall" /\ Gone # {}
    /\ known' = [s \in Asked |-> IF s \in Gone THEN NoCodec ELSE known[s]]
    /\ reasons' = [s \in Asked |-> IF s \in Gone THEN {"holds a refused one"} ELSE reasons[s]]
    /\ stage' = "planned"
    /\ UNCHANGED <<package, todo>>

FallOut ==
    /\ stage = "fall" /\ Gone # {}
    /\ known' = [s \in Asked |-> IF s \in Gone THEN NoCodec ELSE known[s]]
    /\ reasons' = [s \in Asked |-> IF s \in Gone THEN {"holds a refused one"} ELSE reasons[s]]
    /\ UNCHANGED <<package, stage, todo>>

PlanDone ==
    /\ stage = "fall" /\ Gone = {}
    /\ stage' = "planned"
    /\ UNCHANGED <<package, todo, known, reasons>>

PlanNext == FindTwins \/ PlanOne \/ LeaveOne \/ FallOut \/ PlanDone
PlanSpec == PlanInit /\ [][PlanNext]_planVars

-----------------------------------------------------------------------------
(* Properties *)

\* The structs the fields of a struct lead to, by their names.
HeldBy(s) == {MemberOf(s, i).enc.spell :
                i \in {j \in DOMAIN Fields(s) : MemberOf(s, j).enc.kind = "struct"}}

\* A set of structs that can all have a codec in one file.
Writable(X) ==
    \A s \in X : ~HasTwin(s) /\ ProblemsOf(s) = {} /\ HeldBy(s) \subseteq NamesOf(X)

\* plan.py:274: the passes refuse whatever holds something refused, through any
\* number of others and round any cycle of them, and refuse nothing else: what
\* is planned is the largest set of structs that can be written, and a struct
\* has a reason against it exactly when it is not in it.
PlanIsGreatest == stage = "planned" =>
    /\ Writable(Planned)
    /\ \A X \in SUBSET Asked : Writable(X) => X \subseteq Planned
    /\ \A s \in Asked : reasons[s] = {} <=> s \in Planned

\* tools/docjson/read.py:102: a source that is laid out as the scan expects is
\* read as the compiler reads it.
SourceIsRead == stage = "read" =>
    \A s \in Structs : LET lines == ModuleOf(s).lines
                       IN  Readable(lines) => lines = <<>> \/ ScanAgrees(lines, NameOf(s))
=============================================================================
