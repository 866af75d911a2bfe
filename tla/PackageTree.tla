------------------------------ MODULE PackageTree ------------------------------
(***************************************************************************)
(* tools/lib/tree.py: the packages of the library, as every tool reads     *)
(* them.  A package is a directory with a PACKAGE.toml; its sources are    *)
(* the files under it that no package further down answers for.  A         *)
(* directory is written as the name its files are imported by.             *)
(***************************************************************************)
EXTENDS Integers, Sequences, FiniteSets

CONSTANTS
    Names,              \* dotted names and directories
    Position,           \* the place of each in the order of text
    Below(_, _),        \* the first is in a directory under the second
    StartsWith(_, _),   \* the text of the first starts with the second
    PathOf(_),          \* "core" and the parts of a name after its first
    CORE,
    FIXTURES            \* tests/lint

\* What dots and letters give: the names a name is below are its beginnings,
\* they are in a line, and a name that begins with "core" is its own path.
ASSUME NamesAreText ==
    /\ CORE \in Names
    /\ \A m \in Names : m = CORE \/ Below(m, CORE) => PathOf(m) = m
    /\ \A m, k, j \in Names : Below(m, k) /\ Below(k, j) => Below(m, j)
    /\ \A m, k \in Names : Below(m, k) => StartsWith(m, k)
    /\ \A m, k \in Names : StartsWith(m, k) /\ StartsWith(k, m) => m = k
    /\ \A m \in Names : StartsWith(m, m)
    /\ \A m, k, j \in Names :
            /\ k = m \/ Below(m, k)
            /\ j = m \/ Below(m, j)
            => j = k \/ Below(k, j) \/ Below(j, k)

ASSUME OrderOfText == Position \in [Names -> Nat]

VARIABLES
    manifests,      \* the PACKAGE.toml of each directory that has one
    files           \* the Mojo files under core and tests

tree == <<manifests, files>>

AtOrBelow(m, k) == m = k \/ Below(m, k)

\* The files of a package are not those of the packages under it.
Sources(dir) ==
    {f \in files :
        /\ AtOrBelow(f.dir, dir)
        /\ \A d \in DOMAIN manifests : Below(d, dir) => ~AtOrBelow(f.dir, d)}

Package(dir) ==
    [path |-> dir, name |-> manifests[dir].name, tier |-> manifests[dir].tier,
     deps |-> manifests[dir].deps, unsafe |-> manifests[dir].unsafe,
     go |-> manifests[dir].go, sources |-> Sources(dir)]

Packages == {Package(d) : d \in {e \in DOMAIN manifests : AtOrBelow(e, CORE)}}
Started(p) == p.sources # {}

\* Of two packages with one name, a dictionary by name keeps the later.
Named(pkgs, n) ==
    CHOOSE p \in pkgs :
        p.name = n /\ \A q \in pkgs : q.name = n => Position[q.path] <= Position[p.path]

DepsOf(p) == {p.deps[i] : i \in DOMAIN p.deps}

\* Every file that is ours: not what is there to fail, nor what is generated.
MojoSources ==
    {f \in files : ~AtOrBelow(f.dir, FIXTURES) /\ ~f.generated}
=============================================================================
