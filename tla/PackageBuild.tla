----------------------------- MODULE PackageBuild -----------------------------
(***************************************************************************)
(* tools/pkgbuild/run.py: each package built in a scratch tree that holds  *)
(* it, what its manifest needs, and nothing else.                          *)
(***************************************************************************)
EXTENDS PackageTree

CONSTANT NotRun

VARIABLE broken     \* the packages the last run could not build

Called(n) == Named(Packages, n)
AllNames == {p.name : p \in Packages}
Asks(names) == UNION {DepsOf(Called(n)) : n \in names \cap AllNames}

\* Follows the needs of the package itself and not theirs.
Closure_Direct(p) == {p.name} \cup DepsOf(p)

\* Everything a package needs, itself included; the order of the queue does
\* not show.
Closure(p) ==
    LET after[k \in 0 .. Cardinality(AllNames)] ==
            IF k = 0 THEN {p.name} ELSE after[k - 1] \cup Asks(after[k - 1])
    IN  after[Cardinality(AllNames)]

\* A directory is copied down to the packages under it.
Copied(dir) ==
    {f \in files :
        /\ AtOrBelow(f.dir, dir)
        /\ ~\E d \in DOMAIN manifests : Below(d, dir) /\ AtOrBelow(f.dir, d)}

Scratch(p) == UNION {Copied(Called(n).path) : n \in Closure(p)}

\* mojo precompile, as far as names go: every import of the code in the tree
\* it is given finds its file there.
CodeImports(f) == {i.from : i \in {j \in f.imports : ~j.example}}
Precompiles(sources) ==
    \A f \in sources : \A m \in CodeImports(f) : \E g \in sources : g.module = m

Builds(p) == Closure(p) \subseteq AllNames /\ Precompiles(Scratch(p))

BuildInit == broken = NotRun

\* A manifest without code is a plan, and there is nothing to build.
Build == broken' = {p \in Packages : Started(p) /\ ~Builds(p)}
=============================================================================
