------------------------------- MODULE DocNames -------------------------------
(***************************************************************************)
(* tools/docjson/read.py: what a type name in a field means.  A package is *)
(* the modules mojo doc reports with what their sources add: the names     *)
(* they declare, their import lines in order, the lines fields are looked  *)
(* for in, and their structs.  A dotted name is the sequence of its parts, *)
(* and a type as it is spelled is a head name with arguments; Texts is     *)
(* closed under taking arguments, so what recurses on a type is a function *)
(* on Texts.                                                               *)
(***************************************************************************)
EXTENDS DocScan

CONSTANTS
    Texts,      \* the spellings of types
    PRELUDE     \* the names in scope without an import

ASSUME TextsClosed ==
    /\ Noted \in Texts /\ Noted.args = <<>>
    /\ \A t \in Texts : /\ t.head \in Seq(STRING) /\ Len(t.head) >= 1
                        /\ \A i \in DOMAIN t.args : t.args[i] \in Texts

Callable == <<"def">>

\* Settled by the last line that brings it in.
LastBinding(lines, Binds(_)) ==
    LET at == {i \in DOMAIN lines : Binds(lines[i])}
    IN  lines[CHOOSE i \in at : \A j \in at : j <= i]

TargetPath(line) == Append(line.target, line.declared)

\* An empty source has no import lines, whatever the module holds.
HasSource(m) == m.lines # <<>>
ImportsOf(m) == IF HasSource(m) THEN m.imports ELSE <<>>
AliasesOf(m) == IF HasSource(m) THEN m.aliases ELSE <<>>

LocalName(line) == IF line.local = "" THEN line.declared ELSE line.local

Names(m) == {LocalName(ImportsOf(m)[i]) : i \in DOMAIN ImportsOf(m)}
Declared(m) == {ImportsOf(m)[i].declared : i \in {j \in DOMAIN ImportsOf(m) : ImportsOf(m)[j].local = ""}}
Aliased(m) == {ImportsOf(m)[i].declared : i \in {j \in DOMAIN ImportsOf(m) : ImportsOf(m)[j].local # ""}}
ModuleAliases(m) == {AliasesOf(m)[i].alias : i \in DOMAIN AliasesOf(m)}

NamePath(m, n) ==
    LET Binds(line) == LocalName(line) = n IN TargetPath(LastBinding(ImportsOf(m), Binds))
DeclaredPath(m, n) ==
    LET Binds(line) == line.local = "" /\ line.declared = n
    IN  TargetPath(LastBinding(ImportsOf(m), Binds))
AliasedPath(m, n) ==
    LET Binds(line) == line.local # "" /\ line.declared = n
    IN  TargetPath(LastBinding(ImportsOf(m), Binds))
AliasTarget(m, n) ==
    LET Binds(line) == line.alias = n IN LastBinding(AliasesOf(m), Binds).target

Ref(kind, path) == [kind |-> kind, path |-> path]
Unknown == Ref("unknown", <<>>)
Resolved(ref) == ref.kind \in {"prelude", "local", "imported", "parameter"}

\* The head of a type as the source spells it.
AsWritten(m, parameters, head) ==
    LET n == head[1]
    IN  IF head = Callable THEN Ref("callable", <<>>)
        ELSE IF Len(head) > 1
        THEN IF n \in ModuleAliases(m)
             THEN Ref("imported", AliasTarget(m, n) \o Tail(head)) ELSE Unknown
        ELSE IF n \in parameters  THEN Ref("parameter", <<>>)
        ELSE IF n \in m.declares  THEN Ref("local", Append(m.path, n))
        ELSE IF n \in Names(m)    THEN Ref("imported", NamePath(m, n))
        ELSE IF n \in PRELUDE     THEN Ref("prelude", head) ELSE Unknown

\* The head as mojo doc prints it, which is the name it was declared with.
AsRendered(m, parameters, head) ==
    LET n == head[1]
        settled == IF n \in m.declares THEN {Ref("local", Append(m.path, n))}
                   ELSE IF n \in Declared(m) THEN {Ref("imported", DeclaredPath(m, n))}
                   ELSE IF n \in PRELUDE THEN {Ref("prelude", head)} ELSE {}
        renamed == {Ref("imported", AliasedPath(m, n)) : x \in {n} \cap Aliased(m)}
    IN  IF head = Callable THEN Ref("callable", <<>>)
        ELSE IF n \in parameters THEN Ref("parameter", <<>>)
        ELSE IF \/ n \in m.declares /\ n \in Declared(m)
                \/ settled # {} /\ renamed # {} THEN Ref("ambiguous", <<>>)
        ELSE IF settled \cup renamed = {} THEN Unknown
        ELSE CHOOSE x \in settled \cup renamed : TRUE

\* The source is better evidence, where the scan of it found the field.
IsFound(m, struct, field) == field.name \in NamesIn(Declarations(m.lines, struct.name))
FieldText(m, struct, field) ==
    IF IsFound(m, struct, field) THEN SpellingOf(Declarations(m.lines, struct.name), field.name)
    ELSE field.rendered
HeadRef(m, struct, field, head) ==
    IF IsFound(m, struct, field) THEN AsWritten(m, struct.parameters, head)
    ELSE AsRendered(m, struct.parameters, head)

\* The fields the scan saw and mojo doc does not report.
PublicNames(struct) == NamesIn(struct.fields)
Hidden(m, struct) == NamesIn(Declarations(m.lines, struct.name)) \ PublicNames(struct)

\* The structs of a package a path may lead to: the one declared at it, or the
\* only one of that name in the modules under where it leads. A name alone
\* leads nowhere, and no module is under that.
ResolveIn(structs, path) ==
    LET where == SubSeq(path, 1, Len(path) - 1)
        under == {p \in structs :
                    /\ where # <<>> /\ p[Len(p)] = path[Len(path)]
                    /\ Len(p) > Len(path)
                    /\ SubSeq(p, 1, Len(where)) = where}
    IN  IF path = <<>> THEN {}
        ELSE IF path \in structs THEN {path}
        ELSE IF \E p \in under : under = {p} THEN under ELSE {}
=============================================================================
