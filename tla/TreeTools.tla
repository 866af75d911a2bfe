------------------------------ MODULE TreeTools ------------------------------
(***************************************************************************)
(* The tree of packages, the people who edit it, and the three tools of    *)
(* `pixi run check` and CI that read it: the linter, the parity count and  *)
(* the build of each package alone.  The tools run one at a time and       *)
(* nobody edits while one of them runs; what a tool said is of the tree    *)
(* since the last edit.                                                    *)
(***************************************************************************)
EXTENDS Lint, Parity, PackageBuild

CONSTANTS
    Graphs,     \* trees that are linted and built, and not edited
    Drafts,     \* trees that are edited into one another
    Lines       \* what waivers.toml and renames.toml may hold

ASSUME TreesAreTyped ==
    \A t \in Graphs \cup Drafts :
        /\ DOMAIN t.manifests \subseteq Names
        /\ IsFiniteSet(DOMAIN t.manifests)
        /\ \A d \in DOMAIN t.manifests :
                /\ t.manifests[d].name \in Names
                /\ t.manifests[d].tier \in Int
                /\ t.manifests[d].deps \in Seq(Names)
        /\ \A f \in t.files : f.dir \in Names /\ \A i \in f.imports : i.from \in Names

vars == <<tree, lintVars, parityVars, broken>>

IsDraft == [manifests |-> manifests, files |-> files] \in Drafts

Init ==
    /\ \E t \in Graphs \cup Drafts : manifests = t.manifests /\ files = t.files
    /\ waived = <<>> /\ renamed = <<>>
    /\ LintInit /\ ParityInit /\ BuildInit

-----------------------------------------------------------------------------

Quiet == at \in {"idle", "done"}

\* What the tools said was of another tree.
Forget ==
    /\ at' = "idle" /\ pkgs' = {} /\ todo' = {}
    /\ frames' = <<>> /\ depth' = <<>> /\ problems' = {}
    /\ ran' = Unset /\ broken' = NotRun

EditTree ==
    /\ Quiet /\ IsDraft
    /\ \E t \in Drafts : manifests' = t.manifests /\ files' = t.files
    /\ Forget
    /\ UNCHANGED <<waived, renamed, readme>>

EditLines ==
    /\ Quiet /\ IsDraft
    /\ \E l \in Lines : waived' = l.waived /\ renamed' = l.renamed
    /\ Forget
    /\ UNCHANGED <<tree, readme>>

Empty == [rows |-> 0, here |-> 0, owed |-> 0, present |-> 0, started |-> 0]

\* The block is lost, or put back with nothing in it yet.
EditReadme ==
    /\ Quiet /\ IsDraft
    /\ \E text \in {Unset, Empty} : readme' = text
    /\ Forget
    /\ UNCHANGED <<tree, waived, renamed>>

LintStep == LintNext /\ UNCHANGED <<tree, parityVars, broken>>
ParityStep == Quiet /\ IsDraft /\ ParityRun /\ UNCHANGED <<tree, lintVars, broken>>
BuildStep == Quiet /\ Build /\ UNCHANGED <<tree, lintVars, parityVars>>

Next == EditTree \/ EditLines \/ EditReadme \/ LintStep \/ ParityStep \/ BuildStep

Spec == Init /\ [][Next]_vars

-----------------------------------------------------------------------------

\* The package a name is in, by the directories: the deepest that holds it.
Holds(q, m) ==
    /\ AtOrBelow(m, q.path)
    /\ \A r \in Packages : AtOrBelow(m, r.path) => ~Below(r.path, q.path)

\* The tree as a whole is in order: names begin with core, and what the code
\* of a package imports is a file of the package the name is in.
Whole ==
    /\ \A p \in Packages : AtOrBelow(p.name, CORE)
    /\ \A p \in Packages : \A f \in p.sources : \A m \in CodeImports(f) :
            Clean(m) /\ \E q \in Packages : Holds(q, m) /\ \E g \in q.sources : g.module = m

\* "An import the manifest did not declare fails to resolve": when the linter
\* has no problem with a tree that builds as a whole, every package in it
\* builds with what its manifest needs and nothing else
\* (tools/pkgbuild/run.py:4).
StandsAlone ==
    at = "done" /\ problems = {} /\ broken # NotRun /\ Whole => broken = {}
=============================================================================
