--------------------------------- MODULE Lint ---------------------------------
(***************************************************************************)
(* tools/lint/run.py: the linter.  The walk over the manifests is the      *)
(* code's recursion a call at a time: a frame is one call of walk, with    *)
(* the dependency it is at and the deepest so far.  What a line of a       *)
(* source looks like is its marks; what a problem says is left out.        *)
(***************************************************************************)
EXTENDS PackageTree

VARIABLES
    at,         \* how far the linter is
    pkgs,       \* the packages it read
    todo,       \* those whose tier is not compared yet
    frames,     \* the calls of walk, the innermost last
    depth,      \* the tier each name turned out to have
    problems

lintVars == <<at, pkgs, todo, frames, depth, problems>>

LintInit ==
    /\ at = "idle" /\ pkgs = {} /\ todo = {}
    /\ frames = <<>> /\ depth = <<>> /\ problems = {}

Known == {p.name : p \in pkgs}
ByName(n) == Named(pkgs, n)

-----------------------------------------------------------------------------
(* The manifests *)

InOrder(p) ==
    \A i, j \in DOMAIN p.deps : i < j => Position[p.deps[i]] <= Position[p.deps[j]]

ManifestProblems ==
         {<<"not where it lives", p>> : p \in {q \in pkgs : q.path # PathOf(q.name)}}
    \cup {<<"no such package", p>> : p \in {q \in pkgs : ~(DepsOf(q) \subseteq Known)}}
    \cup {<<"out of order", p>> : p \in {q \in pkgs : ~InOrder(q)}}

Start ==
    /\ at \in {"idle", "done"}
    /\ at' = "manifests"
    /\ pkgs' = Packages
    /\ todo' = pkgs'
    /\ frames' = <<>> /\ depth' = <<>> /\ problems' = {}

CheckManifests ==
    /\ at = "manifests"
    /\ at' = "graph"
    /\ problems' = problems \cup ManifestProblems
    /\ UNCHANGED <<pkgs, todo, frames, depth>>

Call(n) == [name |-> n, next |-> 1, deepest |-> -1]
Top == frames[Len(frames)]
DepOfTop == ByName(Top.name).deps[Top.next]
AtTop == at = "graph" /\ frames # <<>>
HasNext == Top.next \in DOMAIN ByName(Top.name).deps

AtFirst(p) ==
    /\ at = "graph" /\ frames = <<>> /\ p \in todo
    /\ \A q \in todo : Position[p.name] <= Position[q.name]

\* A name that was walked already answers from memory.
Walk ==
    /\ \E p \in todo :
        /\ AtFirst(p)
        /\ p.name \notin DOMAIN depth
        /\ frames' = <<Call(p.name)>>
    /\ UNCHANGED <<at, pkgs, todo, depth, problems>>

Compare ==
    /\ \E p \in todo :
        /\ AtFirst(p)
        /\ p.name \in DOMAIN depth
        /\ todo' = todo \ {p}
        /\ problems' = problems \cup {<<"tier", q>> : q \in {r \in {p} : r.tier # depth[r.name]}}
    /\ UNCHANGED <<at, pkgs, frames, depth>>

Took(value) ==
    [name |-> Top.name, next |-> Top.next + 1,
     deepest |-> IF value > Top.deepest THEN value ELSE Top.deepest]

PassUnknown ==
    /\ AtTop /\ HasNext
    /\ DepOfTop \notin Known
    /\ frames' = [frames EXCEPT ![Len(frames)] = [Top EXCEPT !.next = @ + 1]]
    /\ UNCHANGED <<at, pkgs, todo, depth, problems>>

Take ==
    /\ AtTop /\ HasNext
    /\ DepOfTop \in Known \cap DOMAIN depth
    /\ frames' = [frames EXCEPT ![Len(frames)] = Took(depth[DepOfTop])]
    /\ UNCHANGED <<at, pkgs, todo, depth, problems>>

Visiting == {frames[i].name : i \in DOMAIN frames}

\* Answers zero and says nothing.
CloseCycle_Silent ==
    /\ AtTop /\ HasNext
    /\ DepOfTop \in Visiting \ DOMAIN depth
    /\ frames' = [frames EXCEPT ![Len(frames)] = Took(0)]
    /\ UNCHANGED <<at, pkgs, todo, depth, problems>>

CloseCycle ==
    /\ AtTop /\ HasNext
    /\ DepOfTop \in Visiting \ DOMAIN depth
    /\ frames' = [frames EXCEPT ![Len(frames)] = Took(0)]
    /\ problems' = problems \cup {<<"cycle", DepOfTop>>}
    /\ UNCHANGED <<at, pkgs, todo, depth>>

Enter ==
    /\ AtTop /\ HasNext
    /\ DepOfTop \in Known \ (DOMAIN depth \cup Visiting)
    /\ frames' = Append(frames, Call(DepOfTop))
    /\ UNCHANGED <<at, pkgs, todo, depth, problems>>

Leave ==
    /\ AtTop /\ ~HasNext
    /\ depth' = [n \in DOMAIN depth \cup {Top.name} |->
                    IF n = Top.name THEN 1 + Top.deepest ELSE depth[n]]
    /\ frames' = SubSeq(frames, 1, Len(frames) - 1)
    /\ UNCHANGED <<at, pkgs, todo, problems>>

-----------------------------------------------------------------------------
(* The sources *)

\* The imports the pattern finds in the text, the ones of examples included: the
\* model is given them. Of a line with several modules that is the first alone.
ImportsIn(f) == {i.from : i \in {j \in f.imports : AtOrBelow(j.from, CORE)}}

\* The package an import is of: the one with the longest name its text
\* starts with.
Candidates(m) == {k \in Known : StartsWith(m, k)}
Owner(m) ==
    IF Candidates(m) = {} THEN m
    ELSE CHOOSE k \in Candidates(m) : \A j \in Candidates(m) : StartsWith(k, j)

Used(p) == {Owner(m) : m \in UNION {ImportsIn(f) : f \in p.sources}} \ {p.name}

LayerProblemsOf(p) ==
         {<<"undeclared", p, n>> : n \in Used(p) \ DepsOf(p)}
    \cup {<<"never imported", p, n>> : n \in DepsOf(p) \ Used(p)}

LayerProblems == UNION {LayerProblemsOf(p) : p \in {q \in pkgs : Started(q)}}

UnsafeProblems ==
    UNION {{<<"unsafe", f>> : f \in {g \in p.sources : "unsafe" \in g.marks}}
           : p \in {q \in pkgs : ~q.unsafe}}

TextProblems ==
         {<<"__next__ raises", f>> : f \in {g \in MojoSources : "fallible next" \in g.marks}}
    \cup {<<"must_ on a variable", f>> : f \in {g \in MojoSources : "must" \in g.marks}}

CheckSources ==
    /\ at = "graph" /\ frames = <<>> /\ todo = {}
    /\ at' = "done"
    /\ problems' = problems \cup LayerProblems \cup UnsafeProblems \cup TextProblems
    /\ UNCHANGED <<pkgs, todo, frames, depth>>

LintNext ==
    \/ Start \/ CheckManifests \/ Walk \/ Compare \/ PassUnknown \/ Take
    \/ CloseCycle \/ Enter \/ Leave \/ CheckSources

-----------------------------------------------------------------------------

\* The package a name is in, by its dots: the deepest that holds it.
IsIn(m, q) ==
    /\ AtOrBelow(m, q.name)
    /\ \A r \in pkgs : AtOrBelow(m, r.name) => ~Below(r.name, q.name)

\* No package has a name that the text of the import runs past in the middle
\* of a part.
Clean(m) == \A r \in pkgs : StartsWith(m, r.name) => AtOrBelow(m, r.name)

\* What a linter without a problem promises: a tier is one more than the
\* deepest dependency, so there is no cycle, and what the code of a package
\* imports is itself or a package of a lower tier
\* (tools/lint/run.py:117, tools/lint/run.py:163).
GreenMeansLayered ==
    at = "done" /\ problems = {} =>
        \A p \in pkgs :
            /\ \/ DepsOf(p) = {} /\ p.tier = 0
               \/ \E q \in pkgs : q.name \in DepsOf(p) /\ p.tier = q.tier + 1
            /\ \A q \in pkgs : q.name \in DepsOf(p) => q.tier < p.tier
            /\ \A f \in p.sources, q \in pkgs : \A m \in ImportsIn(f) :
                    Clean(m) /\ IsIn(m, q) => q = p \/ q.tier < p.tier
=============================================================================
