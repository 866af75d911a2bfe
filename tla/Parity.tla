-------------------------------- MODULE Parity --------------------------------
(***************************************************************************)
(* tools/parity/run.py and rules.py: how much of Go's exported surface is  *)
(* here.  A symbol of Go is its kind and its name, of one part or, for a   *)
(* member, two.  The report is left out; what counts is the block in the   *)
(* README, and whether the run was green.                                  *)
(***************************************************************************)
EXTENDS PackageTree

CONSTANTS
    Go,         \* goapi.txt: the symbols of each package of Go
    Snake(_),   \* CamelCase as snake_case
    PRIVATE,    \* names with one underscore in front
    Unset       \* no block in the README; no run since the last edit

ASSUME GoIsFinite ==
    IsFiniteSet(DOMAIN Go) /\ \A g \in DOMAIN Go : IsFiniteSet(Go[g])

VARIABLES
    waived,     \* waivers.toml: a reason for each symbol it names
    renamed,    \* renames.toml: the name of each symbol it names
    readme,     \* the numbers in the README
    ran         \* how the last run went

parityVars == <<waived, renamed, readme, ran>>

KEEP == {"type", "const", "var"}
Keys == UNION {{<<g, s.name>> : s \in Go[g]} : g \in DOMAIN Go}

\* What the rule makes of a name nobody renamed.
Ruled(s) ==
    IF s.kind \in KEEP THEN s.name
    ELSE [s.name EXCEPT ![Len(s.name)] = Snake(@)]

MojoName(g, s) ==
    IF <<g, s.name>> \in DOMAIN renamed THEN renamed[<<g, s.name>>] ELSE Ruled(s)

\* A line without a reason waives nothing.
IsWaived(g, s) ==
    <<g, s.name>> \in DOMAIN waived /\ waived[<<g, s.name>>] # ""

-----------------------------------------------------------------------------
(* What is here *)

\* The public names of one declaration.  A private type is not one of them,
\* but its members keep its name in front.
Declared(node) ==
         {<<n>> : n \in {node.name} \ PRIVATE}
    \cup {<<node.name, m>> :
            m \in {x \in node.members : node.kind \in {"struct", "trait"} /\ x \notin PRIVATE}}

\* mojo doc of a directory, the packages under it included, and nothing when
\* it failed.
Doc(dir, failing) ==
    IF dir \in failing THEN {}
    ELSE UNION {Declared(n) : n \in UNION {f.declares : f \in {g \in files : AtOrBelow(g.dir, dir)}}}

Inits(p) == {f \in files : f.module = p.path}
Published(p) == {i \in UNION {f.imports : f \in Inits(p)} : i.as \notin PRIVATE}

\* A type brings its members, from the package it was imported from.
Members(from, owners, failing) ==
    IF Below(from, CORE) /\ from \in DOMAIN manifests
    THEN {n \in Doc(from, failing) : Len(n) = 2 /\ n[1] \in owners} ELSE {}

\* Publishes a type without its members.
Reexported_Bare(p, failing) == {<<i.as>> : i \in Published(p)}

Reexported(p, failing) ==
    UNION {{<<i.as>>} \cup Members(i.from, {i.as}, failing) : i \in Published(p)}

Measurable(p, mojo) == Started(p) /\ mojo
Exported(p, mojo, failing) ==
    IF Measurable(p, mojo) THEN Doc(p.path, failing) \cup Reexported(p, failing) ELSE {}

-----------------------------------------------------------------------------
(* What is owed *)

Results == {p \in Packages : p.go # "none" /\ p.go \in DOMAIN Go}
Misspelt == {p \in Packages : p.go # "none" /\ p.go \notin DOMAIN Go}

Wanted(p) == {s \in Go[p.go] : ~IsWaived(p.go, s)}
Present(p, mojo, failing) ==
    {s \in Wanted(p) : MojoName(p.go, s) \in Exported(p, mojo, failing)}

\* Lines of the two files that point at nothing, or say what the rule says.
Stale ==
         {<<"not in Go", k>> : k \in (DOMAIN renamed \cup DOMAIN waived) \ Keys}
    \cup {<<"already the rule", k>> : k \in {l \in DOMAIN renamed :
            \E s \in IF l[1] \in DOMAIN Go THEN Go[l[1]] ELSE {} :
                s.name = l[2] /\ Ruled(s) = renamed[l]}}

\* syscall is measured, and is not in the sums.
Counted == {p \in Results : p.go # "syscall"}

Block(mojo, failing) ==
    [rows |-> Cardinality(DOMAIN Go),
     here |-> Cardinality(Results),
     owed |-> Cardinality(UNION {{p} \X Wanted(p) : p \in Counted}),
     present |-> Cardinality(UNION {{p} \X Present(p, mojo, failing) : p \in Counted}),
     started |-> Cardinality({p \in Results : Measurable(p, mojo)})]

Sound == Misspelt = {} /\ Stale = {} /\ Results # {}

-----------------------------------------------------------------------------

ParityInit == readme = Unset /\ ran = Unset

Ended(green, answered) == ran' = [green |-> green, answered |-> answered]
Answered(mojo, failing) == mojo /\ failing = {}

\* A package nobody has, by our name or by Go's: the run ends before it looks
\* at the README.
NoPackageCalled(called) ==
    /\ \A p \in Results : called # p.name
    /\ Ended(FALSE, FALSE)
    /\ UNCHANGED <<waived, renamed, readme>>

Check(mojo, failing) ==
    /\ Ended(Sound /\ readme # Unset /\ readme = Block(mojo, failing), Answered(mojo, failing))
    /\ UNCHANGED <<waived, renamed, readme>>

\* Without a block there is nowhere to write, and without Mojo nothing to
\* write; a problem somewhere else does not stop the writing.
CannotWrite(mojo) ==
    /\ readme = Unset \/ ~mojo
    /\ Ended(FALSE, FALSE)
    /\ UNCHANGED <<waived, renamed, readme>>

Write(mojo, failing) ==
    /\ readme # Unset /\ mojo
    /\ readme' = Block(mojo, failing)
    /\ Ended(Sound, Answered(mojo, failing))
    /\ UNCHANGED <<waived, renamed>>

ParityRun ==
    \/ \E called \in Names : NoPackageCalled(called)
    \/ \E mojo \in BOOLEAN :
        \/ CannotWrite(mojo)
        \/ \E failing \in SUBSET DOMAIN manifests : Check(mojo, failing) \/ Write(mojo, failing)

-----------------------------------------------------------------------------

DeclaredBy(f, name) == \E n \in f.declares : name \in Declared(n)

\* A file of the package, not of one under it, declares it.
Offers(dir, name) == \E f \in Sources(dir) : DeclaredBy(f, name)

\* A package under it declares it, and the package does not: for mojo doc of
\* the directory that is the same.
Lends(dir, name) ==
    /\ ~Offers(dir, name)
    /\ \E f \in files : AtOrBelow(f.dir, dir) /\ DeclaredBy(f, name)

\* The type that is imported has a member, in the package it is imported from
\* or, if that only publishes it in turn, wherever it comes from.
Brings(i, member) ==
    IF Offers(i.from, <<i.name>>) THEN Offers(i.from, <<i.name, member>>)
    ELSE \E f \in files : AtOrBelow(f.dir, CORE) /\ DeclaredBy(f, <<i.name, member>>)

\* What a program can import from a package: what is declared in it, and what
\* its __init__ imports, a type with its members.
Importable(p, name) ==
    \/ Offers(p.path, name)
    \/ \E f \in Inits(p) : \E i \in f.imports :
            /\ ~i.example /\ i.as \notin PRIVATE
            /\ \/ name = <<i.as>>
               \/ Len(name) = 2 /\ name = <<i.as, name[2]>> /\ Brings(i, name[2])

\* Imports parity cannot follow: an example in a docstring counts as one, a
\* type under another name, from a module, or from a package that publishes
\* it in turn loses its members.
Plain(i) == ~i.example /\ i.as = i.name
Followed(i) ==
    Below(i.from, CORE) /\ i.from \in DOMAIN manifests /\ Offers(i.from, <<i.name>>)

\* What is owed, package by package, and what of it a program can import from
\* the package that owes it.
Owed ==
    UNION {{p} \X {s \in Go[p.go] : ~IsWaived(p.go, s)} :
            p \in {q \in Packages : q.go \notin {"none", "syscall"}}}
OwedName(o) == MojoName(o[1].go, o[2])
Offered == {o \in Owed : Started(o[1]) /\ Importable(o[1], OwedName(o))}

\* What a package takes from other packages to publish it.
Takes(p) == UNION {f.imports : f \in Inits(p)}
AllPublished == UNION {Takes(p) : p \in Packages}

\* What a package owes and only a package under it has, or under one it
\* publishes from.
Lent == {o \in Owed : \E dir \in {o[1].path} \cup {i.from : i \in Takes(o[1])} :
                        Lends(dir, OwedName(o))}

\* After a green run in which mojo doc answered, the README owes what Go
\* exports and nobody waived, and both escape hatches point at Go. Of what is
\* owed it claims nothing but what can be imported from the package that owes
\* it and, which lib/tree.py says it does not, what a package under that one
\* lends; and where types are published from the packages that declare them it
\* misses nothing that can be imported (tools/parity/run.py:15, :233 and :314).
GreenIsTrue ==
    ran # Unset /\ ran.green /\ ran.answered =>
        /\ readme.owed = Cardinality(Owed)
        /\ (\A i \in AllPublished : Plain(i)) =>
            readme.present <= Cardinality(Offered \cup Lent)
        /\ (\A i \in AllPublished : Plain(i) /\ Followed(i)) =>
            readme.present >= Cardinality(Offered)
        /\ DOMAIN waived \cup DOMAIN renamed \subseteq Keys
=============================================================================
