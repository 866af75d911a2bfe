---------------------------- MODULE TreeToolsProofs ----------------------------
(***************************************************************************)
(* What a green tool promises of a tree, whatever its packages are and     *)
(* however it is edited between runs.                                      *)
(*                                                                         *)
(* The linter: the tree is layered.  Everything is said of a walk that has *)
(* found no problem: with one, nothing is promised.  The invariant is that *)
(* of a depth first search: what is in depth is final and one more than    *)
(* its deepest dependency, and a frame has taken the deepest of what it    *)
(* passed.                                                                 *)
(*                                                                         *)
(* The build: what the linter has no problem with is closed under what the *)
(* code imports, so each package builds with what its manifest needs.      *)
(*                                                                         *)
(* The count: what a green run wrote or compared is what can be imported.  *)
(***************************************************************************)
EXTENDS TreeTools, FiniteSetTheorems, WellFoundedInduction, TLAPS

FilesTyped(fs) == \A f \in fs : f.dir \in Names /\ \A i \in f.imports : i.from \in Names

TreeTyped ==
    /\ DOMAIN manifests \subseteq Names
    /\ IsFiniteSet(DOMAIN manifests)
    /\ \A d \in DOMAIN manifests :
            /\ manifests[d].name \in Names
            /\ manifests[d].tier \in Int
            /\ manifests[d].deps \in Seq(Names)
    /\ FilesTyped(files)

PkgsTyped ==
    /\ \A p \in pkgs :
            /\ p.name \in Names /\ p.path \in Names /\ p.tier \in Int
            /\ p.deps \in Seq(Names)
            /\ FilesTyped(p.sources)
    /\ \A p, q \in pkgs : p.path = q.path => p = q

\* No two packages share a name, and every dependency is one.
ManifestsRight ==
    \A p \in pkgs : p.path = PathOf(p.name) /\ DepsOf(p) \subseteq Known

Passed(n, k) == {ByName(n).deps[j] : j \in {i \in DOMAIN ByName(n).deps : i < k}}

Calls == [name : Names, next : Nat, deepest : Int]

DeepestOf(S, value) ==
    /\ \A d \in S : d \in DOMAIN depth /\ depth[d] <= value
    /\ IF S = {} THEN value = -1 ELSE \E d \in S : depth[d] = value

Walked ==
    /\ DOMAIN depth \subseteq Known
    /\ \A n \in DOMAIN depth :
            /\ depth[n] \in Nat
            /\ DeepestOf(DepsOf(ByName(n)), depth[n] - 1)

FrameRight(f) ==
    /\ f.name \in Known \ DOMAIN depth
    /\ f.next \in Nat \ {0}
    /\ f.next <= Len(ByName(f.name).deps) + 1
    /\ f.deepest \in Int
    /\ DeepestOf(Passed(f.name, f.next), f.deepest)

FramesRight ==
    /\ frames \in Seq(Calls)
    /\ \A i \in DOMAIN frames : FrameRight(frames[i])
    /\ \A i, j \in DOMAIN frames : frames[i].name = frames[j].name => i = j

Compared ==
    /\ todo \subseteq pkgs
    /\ \A p \in pkgs \ todo : p.name \in DOMAIN depth /\ p.tier = depth[p.name]

\* What the code imports is declared.
ImportsDeclared ==
    \A p, q \in pkgs : \A f \in p.sources : \A m \in ImportsIn(f) :
        Clean(m) /\ IsIn(m, q) => q = p \/ q.name \in DepsOf(p)

WalkRight ==
    /\ ManifestsRight /\ Walked /\ FramesRight /\ Compared
    /\ at = "done" => todo = {} /\ ImportsDeclared

IInv ==
    /\ TreeTyped
    /\ PkgsTyped
    /\ at \in {"idle", "manifests", "graph", "done"}
    /\ at = "manifests" => frames = <<>> /\ depth = <<>> /\ todo = pkgs
    /\ at \in {"graph", "done"} /\ problems = {} => WalkRight

-----------------------------------------------------------------------------
(* One package to a name, so the name leads to it. *)

LEMMA NameLeads ==
    ASSUME PkgsTyped, ManifestsRight
    PROVE  /\ \A p, q \in pkgs : p.name = q.name => p = q
           /\ \A p \in pkgs : ByName(p.name) = p
           /\ \A n \in Known : ByName(n) \in pkgs /\ ByName(n).name = n
<1>1. \A p, q \in pkgs : p.name = q.name => p = q
    BY DEF PkgsTyped, ManifestsRight
<1>2. ASSUME NEW p \in pkgs PROVE ByName(p.name) = p
    <2>1. \A q \in pkgs : q.name = p.name => Position[q.path] <= Position[p.path]
        BY <1>1, OrderOfText DEF PkgsTyped
    <2>2. ByName(p.name) \in pkgs /\ ByName(p.name).name = p.name
        BY <2>1 DEF ByName, Named
    <2> QED BY <1>1, <2>2
<1> QED BY <1>1, <1>2 DEF Known

LEMMA PackagesTyped ==
    ASSUME TreeTyped, pkgs' = Packages
    PROVE  PkgsTyped'
<1>1. ASSUME NEW d \in DOMAIN manifests
      PROVE  /\ Package(d).name \in Names /\ Package(d).path = d /\ Package(d).tier \in Int
             /\ Package(d).deps \in Seq(Names) /\ FilesTyped(Package(d).sources)
    BY DEF TreeTyped, Package, Sources, FilesTyped
<1>2. \A p \in pkgs' : \E d \in DOMAIN manifests : p = Package(d)
    BY DEF Packages
<1> QED BY <1>1, <1>2 DEF PkgsTyped, TreeTyped

\* What is said of the packages and of the depths stays while they do.
LEMMA SamePackages ==
    ASSUME pkgs' = pkgs
    PROVE  /\ Known' = Known
           /\ \A n : ByName(n)' = ByName(n)
           /\ \A n, k : Passed(n, k)' = Passed(n, k)
           /\ ImportsDeclared' <=> ImportsDeclared
           /\ ManifestsRight' <=> ManifestsRight
<1>1. Known' = Known
    BY DEF Known
<1>2. \A n : ByName(n)' = ByName(n)
    BY DEF ByName
<1>3. \A n, k : Passed(n, k)' = Passed(n, k)
    BY <1>2 DEF Passed
<1>4. ImportsDeclared' <=> ImportsDeclared
    BY DEF ImportsDeclared, Clean, IsIn
<1>5. ManifestsRight' <=> ManifestsRight
    BY <1>1 DEF ManifestsRight
<1> QED BY <1>1, <1>2, <1>3, <1>4, <1>5

LEMMA SameDepth ==
    ASSUME pkgs' = pkgs, depth' = depth
    PROVE  /\ Walked' <=> Walked
           /\ \A f : FrameRight(f)' <=> FrameRight(f)
<1>1. \A S, v : DeepestOf(S, v)' <=> DeepestOf(S, v)
    BY DEF DeepestOf
<1> QED BY <1>1, SamePackages DEF Walked, FrameRight

\* A name that is walked leads to a package whose dependencies are packages.
LEMMA NextDep ==
    ASSUME PkgsTyped, ManifestsRight, FramesRight, AtTop
    PROVE  /\ Len(frames) \in Nat \ {0} /\ Len(frames) \in DOMAIN frames
           /\ frames \in Seq(Calls)
           /\ Top = frames[Len(frames)]
           /\ Top \in Calls
           /\ FrameRight(Top)
           /\ ByName(Top.name) \in pkgs
           /\ ByName(Top.name).deps \in Seq(Names)
           /\ HasNext => DepOfTop \in Known /\ Top.next \in 1 .. Len(ByName(Top.name).deps)
           /\ ~HasNext => Top.next = Len(ByName(Top.name).deps) + 1
<1>1. /\ Len(frames) \in Nat \ {0} /\ Len(frames) \in DOMAIN frames
      /\ Top = frames[Len(frames)] /\ FrameRight(Top)
    BY DEF AtTop, FramesRight, Top
<1>2. ByName(Top.name) \in pkgs
    BY <1>1, NameLeads DEF FrameRight
<1>3. ByName(Top.name).deps \in Seq(Names) /\ DepsOf(ByName(Top.name)) \subseteq Known
    BY <1>2 DEF PkgsTyped, ManifestsRight
<1>4. HasNext => DepOfTop \in DepsOf(ByName(Top.name))
    BY DEF HasNext, DepOfTop, DepsOf
<1>5. ~HasNext => Top.next = Len(ByName(Top.name).deps) + 1
    BY <1>1, <1>3 DEF HasNext, FrameRight
<1>6. Top \in Calls
    BY <1>1 DEF FramesRight
<1> QED BY <1>1, <1>2, <1>3, <1>4, <1>5, <1>6 DEF FramesRight, HasNext

\* The names before the next one, when it is passed.
LEMMA PassedOne ==
    ASSUME NEW n, NEW k \in DOMAIN ByName(n).deps, ByName(n).deps \in Seq(Names)
    PROVE  Passed(n, k + 1) = Passed(n, k) \cup {ByName(n).deps[k]}
BY DEF Passed

LEMMA PassedAll ==
    ASSUME NEW n, ByName(n).deps \in Seq(Names)
    PROVE  /\ Passed(n, 1) = {}
           /\ Passed(n, Len(ByName(n).deps) + 1) = DepsOf(ByName(n))
BY DEF Passed, DepsOf

-----------------------------------------------------------------------------
(* The steps of the walk *)

\* A step that changes the innermost call and nothing else of the walk.
LEMMA TopStep ==
    ASSUME PkgsTyped, WalkRight, AtTop,
           NEW f \in Calls,
           f.name = Top.name, FrameRight(f),
           frames' = [frames EXCEPT ![Len(frames)] = f],
           UNCHANGED <<at, pkgs, todo, depth>>
    PROVE  WalkRight'
<1>1. /\ ManifestsRight' /\ Walked' /\ Compared'
      /\ at' = "done" => todo' = {} /\ ImportsDeclared'
    BY SamePackages, SameDepth DEF WalkRight, Compared
<1>2. \A g : FrameRight(g)' <=> FrameRight(g)
    BY SameDepth
<1>3. FramesRight'
    <2>1. frames' \in Seq(Calls)
        BY NextDep DEF WalkRight
    <2>2. \A i \in DOMAIN frames' : frames'[i] = IF i = Len(frames) THEN f ELSE frames[i]
        BY NextDep DEF WalkRight
    <2>3. DOMAIN frames' = DOMAIN frames
        OBVIOUS
    <2> QED BY <2>1, <2>2, <2>3, <1>2, NextDep DEF WalkRight, FramesRight
<1> QED BY <1>1, <1>3 DEF WalkRight

LEMMA TakeStep ==
    ASSUME PkgsTyped, WalkRight, Take
    PROVE  WalkRight'
<1> DEFINE d == DepOfTop
           f == Took(depth[d])
<1> USE DEF WalkRight
<1>1. AtTop /\ HasNext /\ d \in DOMAIN depth
    BY DEF Take
<1>2. depth[d] \in Nat
    BY <1>1 DEF Walked
<1>3. Top \in Calls
    BY <1>1, NextDep
<1>4. /\ f \in Calls
      /\ f.name = Top.name /\ f.next = Top.next + 1
      /\ f.deepest = IF depth[d] > Top.deepest THEN depth[d] ELSE Top.deepest
    BY <1>2, <1>3 DEF Took, Calls
<1>5. FrameRight(f)
    <2>1. Passed(f.name, f.next) = Passed(Top.name, Top.next) \cup {d}
        BY <1>1, <1>4, NextDep, PassedOne DEF DepOfTop
    <2>2. DeepestOf(Passed(Top.name, Top.next), Top.deepest) /\ Top.deepest \in Int
        BY <1>1, NextDep DEF FrameRight
    <2>3. DeepestOf(Passed(f.name, f.next), f.deepest)
        <3>1. \A e \in Passed(Top.name, Top.next) : depth[e] \in Nat
            BY <2>2 DEF DeepestOf, Walked
        <3>2. Passed(Top.name, Top.next) = {} => Top.deepest = -1
            BY <2>2 DEF DeepestOf
        <3> QED BY <1>1, <1>2, <1>4, <2>1, <2>2, <3>1, <3>2 DEF DeepestOf
    <2>4. /\ Top.name \in Known \ DOMAIN depth /\ Top.next \in Nat /\ Top.deepest \in Int
          /\ Top.next <= Len(ByName(Top.name).deps) /\ Len(ByName(Top.name).deps) \in Nat
        BY <1>1, NextDep DEF FrameRight
    <2> HIDE DEF f
    <2> QED BY <1>2, <1>4, <2>3, <2>4 DEF FrameRight
<1>6. frames' = [frames EXCEPT ![Len(frames)] = f] /\ UNCHANGED <<at, pkgs, todo, depth>>
    BY DEF Take
<1> QED BY <1>1, <1>4, <1>5, <1>6, TopStep

LEMMA EnterStep ==
    ASSUME PkgsTyped, WalkRight, Enter
    PROVE  WalkRight'
<1> DEFINE f == Call(DepOfTop)
<1> USE DEF WalkRight
<1>1. AtTop /\ HasNext /\ DepOfTop \in Known \ (DOMAIN depth \cup Visiting)
    BY DEF Enter
<1>2. frames' = Append(frames, f) /\ UNCHANGED <<at, pkgs, todo, depth>>
    BY DEF Enter
<1>3. f = [name |-> DepOfTop, next |-> 1, deepest |-> -1] /\ FrameRight(f)
    <2>1. ByName(DepOfTop).deps \in Seq(Names)
        BY <1>1, NameLeads DEF PkgsTyped
    <2> QED BY <1>1, <2>1, PassedAll DEF Call, FrameRight, DeepestOf
<1>4. Known \subseteq Names
    BY DEF Known, PkgsTyped
<1>5. FramesRight'
    <2>1. \A g : FrameRight(g)' <=> FrameRight(g)
        BY <1>2, SameDepth
    <2>2. frames' \in Seq(Calls)
        BY <1>1, <1>2, <1>3, <1>4 DEF FramesRight, Calls
    <2>3. /\ DOMAIN frames' = 1 .. Len(frames) + 1
          /\ \A i \in 1 .. Len(frames) : frames'[i] = frames[i]
          /\ frames'[Len(frames) + 1] = f
        BY <1>2 DEF FramesRight
    <2>4. \A i \in 1 .. Len(frames) : frames[i].name # f.name
        BY <1>1, <1>3 DEF Visiting, FramesRight
    <2>5. DOMAIN frames = 1 .. Len(frames) /\ Len(frames) \in Nat
        BY DEF FramesRight
    <2>6. \A i \in DOMAIN frames' : FrameRight(frames'[i])
        BY <2>3, <2>5, <1>3 DEF FramesRight
    <2>7. \A i, j \in DOMAIN frames' : frames'[i].name = frames'[j].name => i = j
        BY <2>3, <2>4, <2>5 DEF FramesRight
    <2> QED BY <2>1, <2>2, <2>6, <2>7 DEF FramesRight
<1>6. /\ ManifestsRight' /\ Walked' /\ Compared'
      /\ at' = "done" => todo' = {} /\ ImportsDeclared'
    BY <1>2, SamePackages, SameDepth DEF Compared
<1> QED BY <1>5, <1>6

LEMMA WalkStep ==
    ASSUME PkgsTyped, WalkRight, Walk
    PROVE  WalkRight'
<1> USE DEF WalkRight
<1>1. PICK p \in todo : AtFirst(p) /\ p.name \notin DOMAIN depth /\ frames' = <<Call(p.name)>>
    BY DEF Walk
<1>2. UNCHANGED <<at, pkgs, todo, depth>>
    BY DEF Walk
<1>3. p \in pkgs /\ p.name \in Known /\ p.name \in Names
    BY <1>1 DEF Compared, Known, PkgsTyped
<1>4. FrameRight(Call(p.name))
    <2>1. ByName(p.name).deps \in Seq(Names)
        BY <1>3, NameLeads DEF PkgsTyped
    <2> QED BY <1>1, <1>3, <2>1, PassedAll DEF Call, FrameRight, DeepestOf
<1>5. FramesRight'
    <2>1. \A g : FrameRight(g)' <=> FrameRight(g)
        BY <1>2, SameDepth
    <2> QED BY <1>1, <1>3, <1>4, <2>1 DEF FramesRight, Call, Calls
<1>6. /\ ManifestsRight' /\ Walked' /\ Compared'
      /\ at' = "done" => todo' = {} /\ ImportsDeclared'
    BY <1>2, SamePackages, SameDepth DEF Compared
<1> QED BY <1>5, <1>6

LEMMA LeaveStep ==
    ASSUME PkgsTyped, WalkRight, Leave
    PROVE  WalkRight'
<1> USE DEF WalkRight
<1>0. PICK n, rest : n = Top.name /\ rest = Len(frames) - 1
    OBVIOUS
<1>1. AtTop /\ ~HasNext /\ UNCHANGED <<at, pkgs, todo>>
    BY DEF Leave
<1>2. /\ depth' = [m \in DOMAIN depth \cup {n} |-> IF m = n THEN 1 + Top.deepest ELSE depth[m]]
      /\ frames' = SubSeq(frames, 1, rest)
    BY <1>0 DEF Leave
<1>3. n \in Known \ DOMAIN depth /\ Top.deepest \in Int
    BY <1>0, <1>1, NextDep DEF FrameRight
<1>4. /\ DOMAIN depth' = DOMAIN depth \cup {n}
      /\ \A m \in DOMAIN depth : depth'[m] = depth[m]
      /\ depth'[n] = 1 + Top.deepest
    BY <1>2, <1>3
<1>5. \A S, v : DeepestOf(S, v) => DeepestOf(S, v)'
    BY <1>4 DEF DeepestOf
<1>6. /\ Known' = Known
      /\ \A m : ByName(m)' = ByName(m)
      /\ \A m, k : Passed(m, k)' = Passed(m, k)
    BY <1>1, SamePackages
<1>7. DeepestOf(DepsOf(ByName(n)), Top.deepest)
    BY <1>0, <1>1, NextDep, PassedAll DEF FrameRight
<1>8. Walked'
    <2>1. Top.deepest >= -1
        BY <1>3, <1>7 DEF DeepestOf, Walked
    <2>2. \A m \in DOMAIN depth : DeepestOf(DepsOf(ByName(m)), depth[m] - 1)'
        BY <1>4, <1>5, <1>6 DEF Walked
    <2>3. DeepestOf(DepsOf(ByName(n)), depth[n] - 1)'
        BY <1>3, <1>4, <1>5, <1>6, <1>7
    <2> QED BY <1>3, <1>4, <1>6, <2>1, <2>2, <2>3 DEF Walked
<1>9. FramesRight'
    <2>0. /\ rest \in Nat /\ Len(frames) = rest + 1
          /\ frames \in Seq(Calls)
          /\ DOMAIN frames = 1 .. rest + 1 /\ frames[rest + 1].name = n
        BY <1>0, <1>1, NextDep
    <2>1. /\ frames' \in Seq(Calls)
          /\ DOMAIN frames' = 1 .. rest
          /\ \A i \in 1 .. rest : frames'[i] = frames[i]
        BY <1>2, <2>0
    <2>2. \A i \in 1 .. rest : frames[i].name # n
        BY <2>0 DEF FramesRight
    <2>3. ASSUME NEW i \in 1 .. rest PROVE FrameRight(frames[i])'
        <3>1. PICK g : g = frames[i]
            OBVIOUS
        <3>2. FrameRight(g) /\ g.name # n
            BY <2>0, <2>2, <3>1 DEF FramesRight
        <3>3. FrameRight(g)'
            BY <1>4, <1>5, <1>6, <3>2 DEF FrameRight
        <3> QED BY <2>1, <3>1, <3>3
    <2> QED BY <2>0, <2>1, <2>3 DEF FramesRight
<1>10. /\ ManifestsRight' /\ Compared'
       /\ at' = "done" => todo' = {} /\ ImportsDeclared'
    BY <1>1, <1>4, SamePackages DEF Compared
<1> QED BY <1>8, <1>9, <1>10

LEMMA CompareStep ==
    ASSUME PkgsTyped, WalkRight, Compare, problems' = {}
    PROVE  WalkRight'
<1> USE DEF WalkRight
<1>1. PICK p \in todo : /\ p.name \in DOMAIN depth
                        /\ todo' = todo \ {p}
                        /\ problems' = problems \cup
                             {<<"tier", q>> : q \in {r \in {p} : r.tier # depth[r.name]}}
    BY DEF Compare
<1>2. UNCHANGED <<at, pkgs, frames, depth>> /\ at = "graph"
    BY DEF Compare, AtFirst
<1>3. p.tier = depth[p.name]
    BY <1>1
<1>4. Compared'
    BY <1>1, <1>2, <1>3 DEF Compared
<1>5. ManifestsRight' /\ Walked' /\ FramesRight' /\ at' # "done"
    BY <1>2, SamePackages, SameDepth DEF FramesRight
<1> QED BY <1>4, <1>5

-----------------------------------------------------------------------------
(* The sources *)

\* Names without a clash: the package the text leads to is the one the dots
\* lead to, since what holds a name is in a line.
LEMMA OwnerIsHolder ==
    ASSUME PkgsTyped, NEW m \in Names, NEW q \in pkgs, Clean(m), IsIn(m, q)
    PROVE  Owner(m) = q.name
<1>1. Candidates(m) \subseteq Names /\ q.name \in Candidates(m)
    BY NamesAreText DEF Candidates, Known, PkgsTyped, IsIn, AtOrBelow
<1>2. ASSUME NEW j \in Candidates(m) PROVE StartsWith(q.name, j)
    <2>1. AtOrBelow(m, j) /\ ~Below(j, q.name)
        BY DEF Candidates, Known, Clean, IsIn
    <2>2. j \in Names /\ q.name \in Names
        BY <1>1
    <2> QED BY <2>1, <2>2, NamesAreText DEF IsIn, AtOrBelow
<1>3. /\ Owner(m) \in Candidates(m)
      /\ \A j \in Candidates(m) : StartsWith(Owner(m), j)
    <2>1. \E k \in Candidates(m) : \A j \in Candidates(m) : StartsWith(k, j)
        BY <1>1, <1>2
    <2>2. Owner(m) = CHOOSE k \in Candidates(m) : \A j \in Candidates(m) : StartsWith(k, j)
        BY <1>1 DEF Owner
    <2> QED BY <2>1, <2>2
<1> QED BY <1>1, <1>2, <1>3, NamesAreText

LEMMA SourcesStep ==
    ASSUME PkgsTyped, WalkRight, CheckSources, problems' = {}
    PROVE  WalkRight'
<1> USE DEF WalkRight
<1>1. /\ UNCHANGED <<pkgs, todo, frames, depth>> /\ todo = {} /\ LayerProblems = {}
    BY DEF CheckSources
<1>2. ImportsDeclared
    <2> SUFFICES ASSUME NEW p \in pkgs, NEW q \in pkgs, NEW f \in p.sources,
                        NEW m \in ImportsIn(f), Clean(m), IsIn(m, q), q # p
                 PROVE  q.name \in DepsOf(p)
        BY DEF ImportsDeclared
    <2>1. m \in Names
        BY DEF ImportsIn, PkgsTyped, FilesTyped
    <2>2. Owner(m) = q.name /\ q.name # p.name
        BY <2>1, OwnerIsHolder, NameLeads
    <2>3. q.name \in Used(p)
        BY <2>2 DEF Used
    <2>4. Started(p)
        BY DEF Started
    <2>5. ASSUME q.name \notin DepsOf(p) PROVE FALSE
        <3>1. p \in {r \in pkgs : Started(r)}
            BY <2>4
        <3>2. <<"undeclared", p, q.name>> \in LayerProblemsOf(p)
            BY <2>3, <2>5 DEF LayerProblemsOf
        <3>3. <<"undeclared", p, q.name>> \in LayerProblems
            BY <3>1, <3>2 DEF LayerProblems
        <3> QED BY <1>1, <3>3
    <2> QED BY <2>5
<1>3. /\ ManifestsRight' /\ Walked' /\ FramesRight' /\ Compared' /\ ImportsDeclared'
    BY <1>1, <1>2, SamePackages, SameDepth DEF FramesRight, Compared
<1> QED BY <1>1, <1>3

LEMMA ManifestsStep ==
    ASSUME PkgsTyped, frames = <<>>, depth = <<>>, todo = pkgs, CheckManifests, problems' = {}
    PROVE  WalkRight'
<1>1. ManifestProblems = {} /\ UNCHANGED <<pkgs, todo, frames, depth>> /\ at' = "graph"
    BY DEF CheckManifests
<1>2. ManifestsRight'
    BY <1>1, SamePackages DEF ManifestProblems, ManifestsRight
<1>3. Walked' /\ Compared'
    BY <1>1 DEF Walked, Compared
<1>4. FramesRight'
    BY <1>1 DEF FramesRight
<1> QED BY <1>1, <1>2, <1>3, <1>4 DEF WalkRight

-----------------------------------------------------------------------------

LEMMA InvInit == Init => IInv
<1> SUFFICES ASSUME Init PROVE IInv
    OBVIOUS
<1>1. TreeTyped
    BY TreesAreTyped DEF Init, TreeTyped, FilesTyped
<1>2. at = "idle" /\ pkgs = {}
    BY DEF Init, LintInit
<1> QED BY <1>1, <1>2 DEF IInv, PkgsTyped

LEMMA InvStep == IInv /\ [Next]_vars => IInv'
<1> SUFFICES ASSUME IInv, [Next]_vars PROVE IInv'
    OBVIOUS
<1> USE DEF IInv
<1>1. CASE EditTree
    <2>1. TreeTyped'
        BY <1>1, TreesAreTyped DEF EditTree, TreeTyped, FilesTyped
    <2> QED BY <1>1, <2>1 DEF EditTree, Forget, PkgsTyped
<1>2. CASE EditLines \/ EditReadme
    <2>1. TreeTyped'
        BY <1>2 DEF EditLines, EditReadme, tree, TreeTyped, FilesTyped
    <2> QED BY <1>2, <2>1 DEF EditLines, EditReadme, Forget, PkgsTyped
<1>3. CASE UNCHANGED <<tree, lintVars>>
    <2>1. TreeTyped' /\ PkgsTyped'
        BY <1>3 DEF tree, lintVars, TreeTyped, FilesTyped, PkgsTyped
    <2>2. WalkRight' <=> WalkRight
        BY <1>3, SamePackages, SameDepth DEF lintVars, WalkRight, FramesRight, Compared
    <2> QED BY <1>3, <2>1, <2>2 DEF lintVars
<1>4. CASE LintStep
    <2>1. TreeTyped'
        BY <1>4 DEF LintStep, tree, TreeTyped, FilesTyped
    <2>2. CASE Start
        BY <2>1, <2>2, PackagesTyped DEF Start
    <2>3. CASE CheckManifests
        <3>1. PkgsTyped'
            BY <2>3 DEF CheckManifests, PkgsTyped, FilesTyped
        <3> QED BY <2>1, <2>3, <3>1, ManifestsStep DEF CheckManifests
    <2>4. ASSUME at = "graph", at' \in {"graph", "done"}, UNCHANGED pkgs,
                 problems \subseteq problems', problems' = {} => WalkRight'
          PROVE  IInv'
        <3>1. PkgsTyped'
            BY <2>4 DEF PkgsTyped, FilesTyped
        <3> QED BY <2>1, <2>4, <3>1
    <2>5. CASE Walk
        BY <2>4, <2>5, WalkStep DEF Walk, AtFirst
    <2>6. CASE Compare
        BY <2>4, <2>6, CompareStep DEF Compare, AtFirst
    <2>7. CASE PassUnknown
        <3>1. ~(problems = {})
            BY <2>7, NextDep DEF PassUnknown, AtTop, WalkRight
        <3> QED BY <2>4, <2>7, <3>1 DEF PassUnknown, AtTop
    <2>8. CASE Take
        BY <2>4, <2>8, TakeStep DEF Take, AtTop
    <2>9. CASE CloseCycle
        BY <2>4, <2>9 DEF CloseCycle, AtTop
    <2>10. CASE Enter
        BY <2>4, <2>10, EnterStep DEF Enter, AtTop
    <2>11. CASE Leave
        BY <2>4, <2>11, LeaveStep DEF Leave, AtTop
    <2>12. CASE CheckSources
        BY <2>4, <2>12, SourcesStep DEF CheckSources
    <2> QED BY <1>4, <2>2, <2>3, <2>5, <2>6, <2>7, <2>8, <2>9, <2>10, <2>11, <2>12
            DEF LintStep, LintNext
<1>5. CASE ParityStep \/ BuildStep \/ UNCHANGED vars
    BY <1>3, <1>5 DEF ParityStep, BuildStep, vars
<1> QED BY <1>1, <1>2, <1>4, <1>5 DEF Next

LEMMA InvLayers == IInv => GreenMeansLayered
<1> SUFFICES ASSUME IInv, at = "done", problems = {}, NEW p \in pkgs
             PROVE  /\ \/ DepsOf(p) = {} /\ p.tier = 0
                       \/ \E q \in pkgs : q.name \in DepsOf(p) /\ p.tier = q.tier + 1
                    /\ \A q \in pkgs : q.name \in DepsOf(p) => q.tier < p.tier
                    /\ \A f \in p.sources, q \in pkgs : \A m \in ImportsIn(f) :
                            Clean(m) /\ IsIn(m, q) => q = p \/ q.tier < p.tier
    BY DEF GreenMeansLayered
<1>1. /\ PkgsTyped /\ ManifestsRight /\ Walked /\ ImportsDeclared
      /\ \A q \in pkgs : q.name \in DOMAIN depth /\ q.tier = depth[q.name]
    BY DEF IInv, WalkRight, Compared
<1>2. ByName(p.name) = p /\ DepsOf(p) \subseteq Known
    BY <1>1, NameLeads DEF ManifestsRight
<1>3. DeepestOf(DepsOf(p), p.tier - 1)
    BY <1>1, <1>2 DEF Walked
<1>4. \A q \in pkgs : q.tier \in Int
    BY <1>1 DEF PkgsTyped
<1>5. \A q \in pkgs : q.name \in DepsOf(p) => q.tier < p.tier
    BY <1>1, <1>3, <1>4 DEF DeepestOf
<1>6. CASE DepsOf(p) = {}
    BY <1>1, <1>3, <1>4, <1>5, <1>6 DEF DeepestOf, ImportsDeclared
<1>7. CASE DepsOf(p) # {}
    <2>1. PICK d \in DepsOf(p) : depth[d] = p.tier - 1
        BY <1>3, <1>7 DEF DeepestOf
    <2>2. PICK q \in pkgs : q.name = d
        BY <1>2 DEF Known
    <2>3. p.tier = q.tier + 1
        BY <1>1, <1>4, <2>1, <2>2
    <2> QED BY <1>1, <1>5, <2>2, <2>3 DEF ImportsDeclared
<1> QED BY <1>6, <1>7

\* For every tree of packages, however it is edited between runs and whatever
\* the other tools are doing to the README: what a green linter has seen is
\* layered (check_graph and check_layering of tools/lint/run.py).
THEOREM LintKeepsLayers == Spec => []GreenMeansLayered
<1>1. Init => IInv
    BY InvInit
<1>2. IInv /\ [Next]_vars => IInv'
    BY InvStep
<1>3. IInv => GreenMeansLayered
    BY InvLayers
<1> QED BY <1>1, <1>2, <1>3, PTL DEF Spec

-----------------------------------------------------------------------------
(* The build: natural numbers first. *)

LEMMA LeastNatural ==
    ASSUME NEW T \in SUBSET Nat, T # {}
    PROVE  \E x \in T : \A y \in T : x <= y
<1> DEFINE R == OpToRel(<, Nat)
<1>1. IsWellFoundedOn(R, Nat)
    BY NatLessThanWellFounded, Zenon
<1>2. \A x, y \in Nat : y < x => <<y, x>> \in R
    BY Zenon DEF OpToRel
<1> HIDE DEF R
<1>3. \E x \in T : \A y \in T : ~(<<y, x>> \in R)
    BY <1>1, WFMin, Zenon
<1>4. PICK x \in T : \A y \in T : ~(<<y, x>> \in R)
    BY <1>3
<1>5. \A y \in T : ~(y < x)
    BY <1>2, <1>4
<1> QED BY <1>4, <1>5

LEMMA UpTo ==
    ASSUME NEW S \in SUBSET Nat, NEW n \in Nat, 0 \in S, \A k \in 0 .. n - 1 : k \in S => k + 1 \in S
    PROVE  n \in S
<1> SUFFICES ASSUME (0 .. n) \ S # {} PROVE FALSE
    OBVIOUS
<1>1. PICK x \in (0 .. n) \ S : \A y \in (0 .. n) \ S : x <= y
    <2>1. (0 .. n) \ S \in SUBSET Nat
        OBVIOUS
    <2> QED BY <2>1, LeastNatural, Zenon
<1>2. x # 0 /\ x - 1 \in 0 .. n - 1 /\ x - 1 \in 0 .. n /\ x - 1 < x
    BY <1>1
<1>3. x - 1 \in S
    BY <1>1, <1>2
<1>4. (x - 1) + 1 = x
    BY <1>1
<1> QED BY <1>1, <1>2, <1>3, <1>4

-----------------------------------------------------------------------------
(* What a package needs *)

\* A tree the linter has no problem with, said of the tree: packages are where
\* their names live, what they declare exists, and what they import is declared.
CleanHere(m) == \A r \in Packages : StartsWith(m, r.name) => AtOrBelow(m, r.name)
InHere(m, q) ==
    /\ AtOrBelow(m, q.name)
    /\ \A r \in Packages : AtOrBelow(m, r.name) => ~Below(r.name, q.name)

PlacesRight == \A p \in Packages : p.path = PathOf(p.name) /\ DepsOf(p) \subseteq AllNames

Declares ==
    \A p, q \in Packages : \A f \in p.sources : \A m \in ImportsIn(f) :
        CleanHere(m) /\ InHere(m, q) => q = p \/ q.name \in DepsOf(p)

WholeHere ==
    /\ \A p \in Packages : AtOrBelow(p.name, CORE)
    /\ \A p \in Packages : \A f \in p.sources : \A m \in CodeImports(f) :
            CleanHere(m) /\ \E q \in Packages : Holds(q, m) /\ \E g \in q.sources : g.module = m

LEMMA PackagesAre ==
    ASSUME TreeTyped
    PROVE  \A p \in Packages :
                /\ p.path \in DOMAIN manifests /\ p.path \in Names /\ AtOrBelow(p.path, CORE)
                /\ p = Package(p.path) /\ p.name \in Names /\ FilesTyped(p.sources)
                /\ p.sources = Sources(p.path) /\ p.sources \subseteq files
<1> SUFFICES ASSUME NEW d \in DOMAIN manifests, AtOrBelow(d, CORE)
             PROVE  /\ Package(d).path = d /\ d \in Names
                    /\ Package(d).name \in Names /\ FilesTyped(Package(d).sources)
                    /\ Package(d).sources = Sources(d) /\ Sources(d) \subseteq files
    BY DEF Packages
<1> QED BY DEF TreeTyped, Package, Sources, FilesTyped

LEMMA CalledIs ==
    ASSUME TreeTyped, PlacesRight, NEW p \in Packages
    PROVE  Called(p.name) = p
<1>1. \A q \in Packages : q.name = p.name => q = p
    BY PackagesAre DEF PlacesRight
<1>2. \A q \in Packages : q.name = p.name => Position[q.path] <= Position[p.path]
    BY <1>1, PackagesAre, OrderOfText
<1>3. Called(p.name) \in Packages /\ Called(p.name).name = p.name
    <2>1. Called(p.name) = CHOOSE q \in Packages : q.name = p.name
                /\ \A r \in Packages : r.name = p.name => Position[r.path] <= Position[q.path]
        BY DEF Called, Named
    <2> QED BY <1>2, <2>1
<1> QED BY <1>1, <1>3

LEMMA NamesAreFinite ==
    ASSUME TreeTyped
    PROVE  IsFiniteSet(Packages) /\ IsFiniteSet(AllNames) /\ Cardinality(AllNames) \in Nat
<1> DEFINE D == {e \in DOMAIN manifests : AtOrBelow(e, CORE)}
           f == [d \in D |-> Package(d)]
<1>1. IsFiniteSet(D)
    BY FS_Subset DEF TreeTyped
<1>2. f \in Surjection(D, Packages)
    BY DEF Surjection, Packages
<1>3. IsFiniteSet(Packages)
    BY <1>1, <1>2, FS_Surjection
<1> DEFINE g == [p \in Packages |-> p.name]
<1>4. g \in Surjection(Packages, AllNames)
    BY DEF Surjection, AllNames
<1>5. IsFiniteSet(AllNames)
    BY <1>3, <1>4, FS_Surjection
<1> QED BY <1>3, <1>5, FS_CardinalityType

\* g holds what is reached in ever more steps.
Reaches(p, n, g) ==
    g = [k \in 0 .. n |-> IF k = 0 THEN {p.name} ELSE g[k - 1] \cup Asks(g[k - 1])]

LEMMA ReachesEvery ==
    ASSUME NEW p, NEW n \in Nat
    PROVE  \E g : Reaches(p, n, g)
<1> DEFINE S == {k \in Nat : \E g : Reaches(p, k, g)}
<1>1. 0 \in S
    <2> DEFINE f == [k \in 0 .. 0 |-> {p.name}]
    <2>1. f = [k \in 0 .. 0 |-> IF k = 0 THEN {p.name} ELSE f[k - 1] \cup Asks(f[k - 1])]
        OBVIOUS
    <2>2. Reaches(p, 0, f)
        BY <2>1 DEF Reaches
    <2> QED BY <2>2
<1>2. ASSUME NEW k \in 0 .. n - 1, k \in S PROVE k + 1 \in S
    <2>1. PICK f : Reaches(p, k, f)
        BY <1>2
    <2> DEFINE g == [l \in 0 .. k + 1 |-> IF l = k + 1 THEN f[k] \cup Asks(f[k]) ELSE f[l]]
    <2>2. ASSUME NEW l \in 0 .. k + 1
          PROVE  g[l] = IF l = 0 THEN {p.name} ELSE g[l - 1] \cup Asks(g[l - 1])
        <3>1. CASE l = k + 1
            <4>1. l - 1 = k /\ k \in 0 .. k + 1 /\ k # k + 1 /\ l # 0
                BY <3>1
            <4>2. g[k] = f[k] /\ g[l] = f[k] \cup Asks(f[k])
                BY <3>1, <4>1
            <4> HIDE DEF g
            <4> QED BY <3>1, <4>1, <4>2
        <3>2. CASE l # k + 1 /\ l # 0
            <4>1. l \in 0 .. k /\ l - 1 \in 0 .. k + 1 /\ l - 1 # k + 1
                BY <3>2
            <4>2. g[l - 1] = f[l - 1] /\ g[l] = f[l]
                BY <3>2, <4>1
            <4>3. f[l] = f[l - 1] \cup Asks(f[l - 1])
                BY <2>1, <3>2, <4>1, Zenon DEF Reaches
            <4> HIDE DEF g
            <4> QED BY <3>2, <4>2, <4>3
        <3>3. CASE l = 0
            <4>1. 0 \in 0 .. k /\ 0 # k + 1
                OBVIOUS
            <4>2. f[0] = {p.name}
                BY <2>1, <4>1, Zenon DEF Reaches
            <4>3. g[0] = f[0]
                BY <4>1
            <4> HIDE DEF g
            <4> QED BY <3>3, <4>2, <4>3
        <3> QED BY <3>1, <3>2, <3>3
    <2>3. g = [l \in 0 .. k + 1 |-> g[l]]
        OBVIOUS
    <2> HIDE DEF g
    <2>4. g = [l \in 0 .. k + 1 |-> IF l = 0 THEN {p.name} ELSE g[l - 1] \cup Asks(g[l - 1])]
        BY <2>2, <2>3, Zenon
    <2>5. Reaches(p, k + 1, g)
        BY <2>4, Zenon DEF Reaches
    <2> QED BY <2>5
<1>3. S \in SUBSET Nat
    OBVIOUS
<1>4. n \in S
    <2> HIDE DEF S
    <2> QED BY <1>1, <1>2, <1>3, UpTo
<1> QED BY <1>4

LEMMA ClosureReaches ==
    ASSUME NEW p, Cardinality(AllNames) \in Nat
    PROVE  \E g : Reaches(p, Cardinality(AllNames), g) /\ Closure(p) = g[Cardinality(AllNames)]
<1> DEFINE g == CHOOSE g : Reaches(p, Cardinality(AllNames), g)
<1>1. Reaches(p, Cardinality(AllNames), g)
    BY ReachesEvery, Zenon
<1>2. Closure(p) = g[Cardinality(AllNames)]
    BY Zenon DEF Closure, Reaches
<1> QED BY <1>1, <1>2

LEMMA AsksAreNames ==
    ASSUME TreeTyped, PlacesRight, NEW names
    PROVE  Asks(names) \subseteq AllNames
<1> SUFFICES ASSUME NEW n \in names \cap AllNames PROVE DepsOf(Called(n)) \subseteq AllNames
    BY DEF Asks
<1>1. PICK p \in Packages : p.name = n
    BY DEF AllNames
<1> QED BY <1>1, CalledIs DEF PlacesRight

\* Each step reaches a name more until nothing more is asked for, and there
\* are no more names than steps.
LEMMA ClosureIsClosed ==
    ASSUME TreeTyped, PlacesRight, NEW p \in Packages
    PROVE  p.name \in Closure(p) /\ Closure(p) \subseteq AllNames /\ Asks(Closure(p)) \subseteq Closure(p)
<1> DEFINE n == Cardinality(AllNames)
<1>1. n \in Nat /\ IsFiniteSet(AllNames)
    BY NamesAreFinite
<1>2. PICK g : Reaches(p, n, g) /\ Closure(p) = g[n]
    BY <1>1, ClosureReaches, Zenon
<1> HIDE DEF n
<1> DEFINE Right(k, names) ==
        /\ p.name \in names /\ names \subseteq AllNames
        /\ Asks(names) \subseteq names \/ Cardinality(names) >= k + 1
           S == {k \in Nat : k \in 0 .. n => Right(k, g[k])}
<1>3. 0 \in S
    <2>1. g[0] = {p.name}
        <3>1. 0 \in 0 .. n
            BY <1>1
        <3> QED BY <1>2, <3>1, Zenon DEF Reaches
    <2>2. p.name \in AllNames /\ Cardinality({p.name}) = 1
        BY FS_Singleton DEF AllNames
    <2> QED BY <2>1, <2>2
<1>4. ASSUME NEW k \in 0 .. n - 1, k \in S PROVE k + 1 \in S
    <2>1. k \in Nat /\ k \in 0 .. n /\ k + 1 \in 0 .. n /\ k + 1 # 0 /\ (k + 1) - 1 = k
        BY <1>1
    <2>2. Right(k, g[k])
        BY <1>4, <2>1
    <2>3. g[k + 1] = g[k] \cup Asks(g[k])
        BY <1>2, <2>1, Zenon DEF Reaches
    <2>4. g[k + 1] \subseteq AllNames /\ p.name \in g[k + 1]
        BY <2>2, <2>3, AsksAreNames
    <2>5. CASE Asks(g[k]) \subseteq g[k]
        <3>1. g[k + 1] = g[k]
            BY <2>3, <2>5
        <3>2. Right(k + 1, g[k + 1])
            BY <2>4, <2>5, <3>1
        <3> QED BY <2>1, <3>2
    <2>6. CASE ~(Asks(g[k]) \subseteq g[k])
        <3>1. PICK x : x \in Asks(g[k]) \ g[k]
            BY <2>6
        <3>2. Cardinality(g[k]) >= k + 1
            BY <2>2, <2>6
        <3>3. IsFiniteSet(g[k]) /\ IsFiniteSet(g[k + 1])
            BY <1>1, <2>2, <2>4, FS_Subset
        <3>4. Cardinality(g[k] \cup {x}) = Cardinality(g[k]) + 1
            BY <3>1, <3>3, FS_AddElement
        <3>5. g[k] \cup {x} \in SUBSET g[k + 1]
            BY <2>3, <3>1
        <3>6. Cardinality(g[k] \cup {x}) <= Cardinality(g[k + 1])
            BY <3>3, <3>5, FS_Subset
        <3>7. Cardinality(g[k]) \in Nat /\ Cardinality(g[k + 1]) \in Nat
            BY <3>3, FS_CardinalityType
        <3>8. Cardinality(g[k + 1]) >= (k + 1) + 1
            BY <2>1, <3>2, <3>4, <3>6, <3>7
        <3>9. Right(k + 1, g[k + 1])
            BY <2>4, <3>8
        <3> QED BY <2>1, <3>9
    <2> QED BY <2>5, <2>6
<1>5. n \in S
    <2>1. S \in SUBSET Nat
        OBVIOUS
    <2> HIDE DEF S
    <2> QED BY <1>1, <1>3, <1>4, <2>1, UpTo
<1>6. Right(n, g[n])
    BY <1>1, <1>5
<1>7. ~(Cardinality(g[n]) >= n + 1)
    <2>1. g[n] \in SUBSET AllNames
        BY <1>6
    <2>2. Cardinality(g[n]) <= n /\ IsFiniteSet(g[n])
        BY <1>1, <2>1, FS_Subset DEF n
    <2>3. Cardinality(g[n]) \in Nat
        BY <2>2, FS_CardinalityType
    <2> QED BY <1>1, <2>2, <2>3
<1> QED BY <1>2, <1>6, <1>7

\* What lies above a name that is above core is above core.
LEMMA ImportsAreOfCore ==
    ASSUME TreeTyped, NEW p \in Packages, NEW f \in p.sources, NEW m \in CodeImports(f),
           NEW q \in Packages, Holds(q, m)
    PROVE  m \in Names /\ m \in ImportsIn(f)
<1>1. m \in Names
    BY PackagesAre DEF CodeImports, FilesTyped
<1>2. AtOrBelow(m, CORE)
    BY <1>1, PackagesAre, NamesAreText DEF Holds, AtOrBelow
<1> QED BY <1>1, <1>2 DEF CodeImports, ImportsIn

\* The packages of a clean and whole tree build alone.
LEMMA CleanTreeBuilds ==
    ASSUME TreeTyped, PlacesRight, Declares, WholeHere, NEW p \in Packages
    PROVE  Builds(p)
<1>1. p.name \in Closure(p) /\ Closure(p) \subseteq AllNames /\ Asks(Closure(p)) \subseteq Closure(p)
    BY ClosureIsClosed
<1>2. ASSUME NEW q \in Packages
      PROVE  q.path = q.name /\ Called(q.name).path = q.name /\ q.sources = Copied(q.path)
    <2>1. q.path = q.name
        BY PackagesAre, NamesAreText DEF PlacesRight, WholeHere, AtOrBelow
    <2>2. q.sources = Copied(q.path)
        BY PackagesAre DEF Sources, Copied
    <2> QED BY <2>1, <2>2, CalledIs
<1>3. ASSUME NEW f \in Scratch(p), NEW m \in CodeImports(f)
      PROVE  \E g \in Scratch(p) : g.module = m
    <2>1. PICK n \in Closure(p) : f \in Copied(Called(n).path)
        BY DEF Scratch
    <2>2. PICK q \in Packages : q.name = n
        BY <1>1, <2>1 DEF AllNames
    <2>3. f \in q.sources
        BY <1>2, <2>1, <2>2
    <2>4. CleanHere(m)
        BY <2>3 DEF WholeHere
    <2>5. PICK r \in Packages : Holds(r, m) /\ \E g \in r.sources : g.module = m
        BY <2>3 DEF WholeHere
    <2>6. m \in ImportsIn(f)
        BY <2>3, <2>5, ImportsAreOfCore
    <2>7. InHere(m, r)
        BY <1>2, <2>5 DEF Holds, InHere
    <2>8. r = q \/ r.name \in DepsOf(q)
        BY <2>3, <2>4, <2>6, <2>7 DEF Declares
    <2>9. r.name \in Closure(p)
        <3>1. DepsOf(q) \subseteq Asks(Closure(p))
            BY <1>1, <2>1, <2>2, CalledIs DEF Asks
        <3> QED BY <1>1, <2>1, <2>2, <2>8, <3>1
    <2>10. r.sources \subseteq Scratch(p)
        BY <1>2, <2>9 DEF Scratch
    <2> QED BY <2>5, <2>10
<1> QED BY <1>1, <1>3 DEF Builds, Precompiles

-----------------------------------------------------------------------------
(* What the tools said is of the tree as it is *)

LEMMA SameTree ==
    ASSUME UNCHANGED tree
    PROVE  /\ Packages' = Packages
           /\ PlacesRight' <=> PlacesRight
           /\ Declares' <=> Declares
           /\ WholeHere' <=> WholeHere
           /\ TreeTyped' <=> TreeTyped
<1>1. manifests' = manifests /\ files' = files
    BY DEF tree
<1>2. \A d : Sources(d)' = Sources(d)
    BY <1>1 DEF Sources
<1>3. \A d : Package(d)' = Package(d)
    BY <1>1, <1>2 DEF Package
<1>4. Packages' = Packages
    BY <1>1, <1>3 DEF Packages
<1>5. AllNames' = AllNames
    BY <1>4 DEF AllNames
<1>6. PlacesRight' <=> PlacesRight
    BY <1>4, <1>5 DEF PlacesRight
<1>7. \A m, q : (CleanHere(m)' <=> CleanHere(m)) /\ (InHere(m, q)' <=> InHere(m, q)) /\ (Holds(q, m)' <=> Holds(q, m))
    BY <1>4 DEF CleanHere, InHere, Holds
<1>8. Declares' <=> Declares
    BY <1>4, <1>7 DEF Declares
<1>9. WholeHere' <=> WholeHere
    BY <1>4, <1>7 DEF WholeHere
<1>10. TreeTyped' <=> TreeTyped
    BY <1>1 DEF TreeTyped
<1> QED BY <1>4, <1>6, <1>8, <1>9, <1>10

LintSaw == at # "idle" => pkgs = Packages
BuildSaw == broken # NotRun /\ PlacesRight /\ Declares /\ WholeHere => broken = {}

ToolsInv == IInv /\ LintSaw /\ BuildSaw

LEMMA ToolsBegin == Init => ToolsInv
BY InvInit DEF Init, LintInit, BuildInit, ToolsInv, LintSaw, BuildSaw

LEMMA ToolsStep == ToolsInv /\ [Next]_vars => ToolsInv'
<1> SUFFICES ASSUME ToolsInv, [Next]_vars PROVE LintSaw' /\ BuildSaw'
    BY InvStep DEF ToolsInv
<1> USE DEF ToolsInv
<1>1. CASE EditTree \/ EditLines \/ EditReadme
    BY <1>1 DEF EditTree, EditLines, EditReadme, Forget, LintSaw, BuildSaw
<1>2. CASE LintStep
    <2>1. UNCHANGED <<tree, broken>>
        BY <1>2 DEF LintStep
    <2>2. CASE Start
        BY <2>1, <2>2, SameTree DEF Start, LintSaw, BuildSaw
    <2>3. CASE ~Start
        <3>1. at # "idle" /\ pkgs' = pkgs
            <4>1. \/ CheckManifests \/ Walk \/ Compare \/ PassUnknown \/ Take
                  \/ CloseCycle \/ Enter \/ Leave \/ CheckSources
                BY <1>2, <2>3 DEF LintStep, LintNext
            <4>2. CheckManifests \/ CheckSources => at # "idle" /\ pkgs' = pkgs
                BY DEF CheckManifests, CheckSources
            <4>3. Walk \/ Compare => at # "idle" /\ pkgs' = pkgs
                BY DEF Walk, Compare, AtFirst
            <4>4. PassUnknown \/ Take \/ CloseCycle \/ Enter \/ Leave => at # "idle" /\ pkgs' = pkgs
                BY DEF PassUnknown, Take, CloseCycle, Enter, Leave, AtTop
            <4> QED BY <4>1, <4>2, <4>3, <4>4
        <3> QED BY <2>1, <3>1, SameTree DEF LintSaw, BuildSaw
    <2> QED BY <2>2, <2>3
<1>3. CASE ParityStep \/ UNCHANGED vars
    <2>1. UNCHANGED <<tree, lintVars, broken>>
        BY <1>3 DEF ParityStep, vars
    <2> QED BY <2>1, SameTree DEF lintVars, LintSaw, BuildSaw
<1>4. CASE BuildStep
    <2>1. UNCHANGED <<tree, lintVars>> /\ Build
        BY <1>4 DEF BuildStep
    <2>2. LintSaw'
        BY <2>1, SameTree DEF lintVars, LintSaw
    <2>3. ASSUME PlacesRight, Declares, WholeHere PROVE broken' = {}
        BY <2>1, <2>3, CleanTreeBuilds DEF IInv, Build
    <2> QED BY <2>1, <2>2, <2>3, SameTree DEF BuildSaw
<1> QED BY <1>1, <1>2, <1>3, <1>4 DEF Next

LEMMA ToolsAlways == Spec => []ToolsInv
<1> QED BY ToolsBegin, ToolsStep, PTL DEF Spec

\* For every tree whose names begin with core, whose imports are clear and
\* which builds as a whole: when the linter has no problem with it, every
\* package in it builds with what its manifest reaches and nothing else
\* (check_layering of tools/lint/run.py, closure of tools/pkgbuild/run.py).
THEOREM PackagesStandAlone == Spec => []StandsAlone
<1>1. ToolsInv => StandsAlone
    <2> SUFFICES ASSUME ToolsInv, at = "done", problems = {}, broken # NotRun, Whole
                 PROVE  broken = {}
        BY DEF StandsAlone
    <2>1. pkgs = Packages /\ WalkRight
        BY DEF ToolsInv, LintSaw, IInv
    <2>2. PlacesRight
        BY <2>1 DEF WalkRight, ManifestsRight, Known, PlacesRight, AllNames
    <2>3. Declares
        BY <2>1 DEF WalkRight, ImportsDeclared, Declares, Clean, IsIn, CleanHere, InHere
    <2>4. WholeHere
        BY <2>1 DEF Whole, WholeHere, Clean, CleanHere
    <2> QED BY <2>2, <2>3, <2>4 DEF ToolsInv, BuildSaw
<1> QED BY <1>1, ToolsAlways, PTL

-----------------------------------------------------------------------------
(* The count *)

LEMMA SameCount ==
    ASSUME UNCHANGED <<tree, waived, renamed>>
    PROVE  Sound' = Sound /\ Block(TRUE, {})' = Block(TRUE, {})
<1>1. /\ manifests' = manifests /\ files' = files /\ waived' = waived /\ renamed' = renamed
      /\ Packages' = Packages
    BY SameTree DEF tree
<1>2. Results' = Results /\ Misspelt' = Misspelt
    BY <1>1 DEF Results, Misspelt
<1>3. Counted' = Counted
    BY <1>2 DEF Counted
<1>4. Stale' = Stale
    BY <1>1 DEF Stale
<1>5. Sound' = Sound
    BY <1>2, <1>4, Zenon DEF Sound
<1>6. \A p : Wanted(p)' = Wanted(p)
    BY <1>1 DEF Wanted, IsWaived
<1>7. \A d : Doc(d, {})' = Doc(d, {})
    BY <1>1 DEF Doc
<1>8. \A p : Published(p)' = Published(p)
    BY <1>1 DEF Published, Inits
<1>9. \A from, owners : Members(from, owners, {})' = Members(from, owners, {})
    BY <1>1, <1>7 DEF Members
<1>10. \A p : Reexported(p, {})' = Reexported(p, {})
    BY <1>8, <1>9 DEF Reexported
<1>11. \A p : Exported(p, TRUE, {})' = Exported(p, TRUE, {})
    BY <1>7, <1>10 DEF Exported, Measurable, Started
<1>12. \A g, s : MojoName(g, s)' = MojoName(g, s)
    BY <1>1 DEF MojoName
<1>13. ASSUME NEW p PROVE Present(p, TRUE, {})' = Present(p, TRUE, {})
    <2>1. Wanted(p)' = Wanted(p) /\ Exported(p, TRUE, {})' = Exported(p, TRUE, {})
        BY <1>6, <1>11
    <2>2. \A s : MojoName(p.go, s)' = MojoName(p.go, s)
        BY <1>12
    <2>3. \A s : s \in Present(p, TRUE, {})' <=> s \in Present(p, TRUE, {})
        BY <2>1, <2>2, Zenon DEF Present
    <2> QED BY <2>3, Zenon DEF Present
<1>14. Block(TRUE, {})' = Block(TRUE, {})
    BY <1>2, <1>3, <1>6, <1>13 DEF Block, Measurable, Started
<1> QED BY <1>5, <1>14

\* A green run that could ask about everything left, or found, the numbers of
\* the tree in the README.
CountSaw ==
    ran # Unset /\ ran.green /\ ran.answered => Sound /\ readme = Block(TRUE, {})

LEMMA CountBegins == Init => CountSaw
BY DEF Init, ParityInit, CountSaw

LEMMA CountStep == CountSaw /\ [Next]_vars => CountSaw'
<1> SUFFICES ASSUME CountSaw, [Next]_vars PROVE CountSaw'
    OBVIOUS
<1>1. CASE EditTree \/ EditLines \/ EditReadme
    BY <1>1 DEF EditTree, EditLines, EditReadme, Forget, CountSaw
<1>2. CASE UNCHANGED <<tree, parityVars>>
    <2>1. UNCHANGED <<tree, waived, renamed>> /\ readme' = readme /\ ran' = ran
        BY <1>2 DEF parityVars
    <2> QED BY <2>1, SameCount DEF CountSaw
<1>3. CASE LintStep \/ BuildStep \/ UNCHANGED vars
    BY <1>2, <1>3 DEF LintStep, BuildStep, vars
<1>4. CASE ParityStep
    <2>1. UNCHANGED tree /\ ParityRun
        BY <1>4 DEF ParityStep
    <2>2. ASSUME Ended(FALSE, FALSE) PROVE CountSaw'
        BY <2>2 DEF Ended, CountSaw
    <2>3. ASSUME NEW mojo \in BOOLEAN, NEW failing,
                 Check(mojo, failing) \/ Write(mojo, failing)
          PROVE  CountSaw'
        <3>1. UNCHANGED <<waived, renamed>>
            BY <2>3 DEF Check, Write
        <3>2. ran'.green /\ ran'.answered => Sound /\ readme' = Block(mojo, failing)
            <4>1. CASE Check(mojo, failing)
                <5>1. ran'.green <=> Sound /\ readme # Unset /\ readme = Block(mojo, failing)
                    BY <4>1 DEF Check, Ended
                <5>2. readme' = readme
                    BY <4>1 DEF Check
                <5> QED BY <5>1, <5>2
            <4>2. CASE Write(mojo, failing)
                <5>1. ran'.green <=> Sound
                    BY <4>2 DEF Write, Ended
                <5>2. readme' = Block(mojo, failing)
                    BY <4>2 DEF Write
                <5> QED BY <5>1, <5>2
            <4> QED BY <2>3, <4>1, <4>2
        <3>3. ran'.answered <=> mojo /\ failing = {}
            <4>1. Ended(Sound /\ readme # Unset /\ readme = Block(mojo, failing), Answered(mojo, failing))
                  \/ Ended(Sound, Answered(mojo, failing))
                BY <2>3, Zenon DEF Check, Write
            <4>2. ran'.answered = Answered(mojo, failing)
                BY <4>1 DEF Ended
            <4> QED BY <4>2, Zenon DEF Answered
        <3>4. ran'.green /\ ran'.answered => Sound /\ readme' = Block(TRUE, {})
            BY <3>2, <3>3, Zenon
        <3> QED BY <2>1, <3>1, <3>4, SameCount, Zenon DEF CountSaw
    <2>4. CASE \E called \in Names : NoPackageCalled(called)
        BY <2>2, <2>4 DEF NoPackageCalled
    <2>5. CASE \E mojo \in BOOLEAN : CannotWrite(mojo)
        BY <2>2, <2>5 DEF CannotWrite
    <2> QED BY <2>1, <2>3, <2>4, <2>5 DEF ParityRun
<1> QED BY <1>1, <1>3, <1>4 DEF Next

\* A declaration's names have one part or two, and a type's own name has none
\* of its members'.
LEMMA NamesOfOne ==
    ASSUME NEW n, NEW name \in Declared(n)
    PROVE  \/ name = <<n.name>> /\ Len(name) = 1
           \/ /\ Len(name) = 2 /\ name[1] = n.name /\ name = <<n.name, name[2]>>
<1>1. CASE name = <<n.name>>
    BY <1>1
<1>2. CASE \E m \in n.members : name = <<n.name, m>>
    BY <1>2
<1> QED BY <1>1, <1>2 DEF Declared

\* mojo doc of a directory has what the package in it declares, and nothing
\* else but what the packages under it lend.
LEMMA DocIsOffered ==
    ASSUME NEW d, NEW name
    PROVE  name \in Doc(d, {}) <=> Offers(d, name) \/ Lends(d, name)
BY DEF Doc, Offers, Lends, DeclaredBy, Sources

\* What a package publishes of a plain import can be imported from it.
LEMMA ReexportedCanBeImported ==
    ASSUME NEW p, NEW i \in Published(p), Plain(i),
           NEW name \in {<<i.as>>} \cup Members(i.from, {i.as}, {}),
           ~Lends(i.from, name)
    PROVE  Importable(p, name)
<1>1. PICK f \in Inits(p) : i \in f.imports
    BY DEF Published
<1>2. ~i.example /\ i.as = i.name /\ i.as \notin PRIVATE
    BY DEF Plain, Published
<1>3. CASE name = <<i.as>>
    BY <1>1, <1>2, <1>3 DEF Importable
<1>4. CASE name \in Members(i.from, {i.as}, {})
    <2>1. /\ name \in Doc(i.from, {}) /\ Len(name) = 2 /\ name[1] = i.as
          /\ i.from \in DOMAIN manifests
        BY <1>4 DEF Members
    <2>2. PICK f1 \in Sources(i.from) : DeclaredBy(f1, name)
        BY <2>1, DocIsOffered DEF Offers
    <2>3. PICK n \in f1.declares : name \in Declared(n)
        BY <2>2 DEF DeclaredBy
    <2>4. name = <<i.as, name[2]>> /\ n.name = i.as
        BY <2>1, <2>3, NamesOfOne
    <2>5. <<i.name>> \in Declared(n)
        BY <1>2, <2>4 DEF Declared
    <2>6. Offers(i.from, <<i.name>>)
        BY <2>2, <2>3, <2>5 DEF Offers, DeclaredBy
    <2>7. Offers(i.from, <<i.name, name[2]>>)
        BY <1>2, <2>2, <2>4 DEF Offers
    <2>8. Brings(i, name[2])
        BY <2>6, <2>7 DEF Brings
    <2> QED BY <1>1, <1>2, <2>1, <2>4, <2>8 DEF Importable
<1> QED BY <1>3, <1>4

\* And, when the type is declared where it is imported from, what can be
\* imported of it is published.
LEMMA ImportedIsReexported ==
    ASSUME NEW p, NEW name, Importable(p, name), ~Offers(p.path, name),
           \A i \in Published(p) : Plain(i) /\ Followed(i)
    PROVE  name \in Reexported(p, {})
<1>1. PICK f \in Inits(p) : \E i \in f.imports :
            /\ ~i.example /\ i.as \notin PRIVATE
            /\ \/ name = <<i.as>>
               \/ Len(name) = 2 /\ name = <<i.as, name[2]>> /\ Brings(i, name[2])
    BY DEF Importable
<1>2. PICK i \in f.imports :
            /\ ~i.example /\ i.as \notin PRIVATE
            /\ \/ name = <<i.as>>
               \/ Len(name) = 2 /\ name = <<i.as, name[2]>> /\ Brings(i, name[2])
    BY <1>1
<1>3. i \in Published(p)
    BY <1>1, <1>2 DEF Published
<1>4. Plain(i) /\ Followed(i)
    BY <1>3
<1>5. name \in {<<i.as>>} \cup Members(i.from, {i.as}, {})
    <2>1. CASE name = <<i.as>>
        BY <2>1
    <2>2. CASE Len(name) = 2 /\ name = <<i.as, name[2]>> /\ Brings(i, name[2])
        <3>1. Offers(i.from, name)
            BY <1>4, <2>2 DEF Plain, Followed, Brings
        <3>2. name \in Doc(i.from, {})
            BY <3>1, DocIsOffered
        <3>3. name[1] = i.as
            BY <2>2
        <3> QED BY <1>4, <2>2, <3>2, <3>3 DEF Members, Followed
    <2> QED BY <1>2, <2>1, <2>2
<1> QED BY <1>3, <1>5 DEF Reexported

Symbols == UNION {Go[g] : g \in DOMAIN Go}

LEMMA SymbolsAreFinite == IsFiniteSet(Symbols)
<1> DEFINE Sets == {Go[g] : g \in DOMAIN Go}
           F == [g \in DOMAIN Go |-> Go[g]]
<1>1. F \in Surjection(DOMAIN Go, Sets)
    BY DEF Surjection
<1>2. IsFiniteSet(Sets)
    BY <1>1, FS_Surjection, GoIsFinite
<1>3. \A T \in Sets : IsFiniteSet(T)
    BY GoIsFinite
<1> QED BY <1>2, <1>3, FS_UNION DEF Symbols

\* For every tree, every surface of Go and every way the two files can be
\* edited: after a green run in which mojo doc answered, the README owes what
\* it should and the two files point at Go; what it claims of that can be
\* imported from the package that owes it, or only a package under one that is
\* asked declares it; and where every published import can be followed, nothing
\* that can be imported is missing (measure, main and stale of
\* tools/parity/run.py).
THEOREM ReadmeIsTrue == Spec => []GreenIsTrue
<1>1. TreeTyped /\ CountSaw => GreenIsTrue
    <2> SUFFICES ASSUME TreeTyped, CountSaw, ran # Unset, ran.green, ran.answered
                 PROVE  GreenIsTrue
        BY DEF GreenIsTrue
    <2> DEFINE owed == Owed
               offered == Offered
               lent == Lent
               published == AllPublished
               present == UNION {{p} \X Present(p, TRUE, {}) : p \in Counted}
    <2>1. Misspelt = {} /\ Stale = {} /\ readme = Block(TRUE, {})
        BY DEF CountSaw, Sound
    <2>2. Counted = {q \in Packages : q.go \notin {"none", "syscall"}}
        BY <2>1 DEF Counted, Results, Misspelt
    <2>3. readme.owed = Cardinality(owed)
        BY <2>1, <2>2 DEF Block, Wanted, Owed
    <2>4. readme.present = Cardinality(present)
        BY <2>1 DEF Block
    <2>5. DOMAIN waived \cup DOMAIN renamed \subseteq Keys
        BY <2>1 DEF Stale
    <2>6. \A o : o \in owed <=> /\ o \in Packages \X Symbols
                                /\ o[1] \in Counted /\ o[2] \in Wanted(o[1])
        BY <2>2 DEF Wanted, Symbols, Counted, Results, Owed
    <2>7. \A o : o \in present <=> /\ o \in owed
                                   /\ o[2] \in Present(o[1], TRUE, {})
        <3> DEFINE Of(p) == Present(p, TRUE, {})
        <3>1. \A p \in Counted : Of(p) \subseteq Wanted(p) /\ p \in Packages /\ Wanted(p) \subseteq Symbols
            BY DEF Present, Wanted, Symbols, Counted, Results
        <3>2. present = UNION {{p} \X Of(p) : p \in Counted}
            OBVIOUS
        <3> HIDE DEF Of, present, owed
        <3>3. \A o : o \in present <=> /\ o \in Packages \X Symbols /\ o[1] \in Counted
                                       /\ o[2] \in Of(o[1])
            BY <3>1, <3>2
        <3> QED BY <2>6, <3>1, <3>3 DEF Of
    <2>8. IsFiniteSet(owed)
        <3>1. IsFiniteSet(Packages \X Symbols)
            BY NamesAreFinite, SymbolsAreFinite, FS_Product
        <3>2. owed \subseteq Packages \X Symbols
            BY <2>6
        <3> HIDE DEF owed
        <3> QED BY <3>1, <3>2, FS_Subset
    <2>9. \A p \in Packages : \A i \in Published(p) : i \in published
        BY DEF Published, Takes, AllPublished
    <2>10. ASSUME \A i \in published : Plain(i) PROVE present \subseteq offered \cup lent
        <3> HIDE DEF present, owed
        <3> SUFFICES ASSUME NEW o \in present, o \notin lent PROVE o \in offered
            BY Zenon
        <3>1. o \in owed /\ o[1] \in Packages /\ o[2] \in Present(o[1], TRUE, {})
            <4>1. o \in owed /\ o[2] \in Present(o[1], TRUE, {})
                BY <2>7, Zenon
            <4>2. o \in Packages \X Symbols
                BY <2>6, <4>1, Zenon
            <4> QED BY <4>1, <4>2
        <3> DEFINE p == o[1]
                   name == MojoName(p.go, o[2])
        <3>2. name \in Exported(p, TRUE, {})
            BY <3>1 DEF Present
        <3>7. ~Lends(p.path, name) /\ \A i \in Takes(p) : ~Lends(i.from, name)
            BY <3>1, Zenon DEF Lent, OwedName, owed, lent
        <3>8. Published(p) \subseteq Takes(p)
            BY DEF Published, Takes
        <3> HIDE DEF owed, name, p, lent
        <3>3. Started(p) /\ name \in Doc(p.path, {}) \cup Reexported(p, {})
            BY <3>2 DEF Exported, Measurable
        <3>4. ASSUME name \in Doc(p.path, {}) PROVE Importable(p, name)
            BY <3>4, <3>7, DocIsOffered DEF Importable
        <3>5. ASSUME name \in Reexported(p, {}) PROVE Importable(p, name)
            <4>1. PICK i \in Published(p) : name \in {<<i.as>>} \cup Members(i.from, {i.as}, {})
                BY <3>5 DEF Reexported
            <4>2. Plain(i)
                BY <2>9, <2>10, <3>1, <4>1 DEF p
            <4> QED BY <3>7, <3>8, <4>1, <4>2, ReexportedCanBeImported
        <3>6. Started(p) /\ Importable(p, name)
            BY <3>3, <3>4, <3>5, Zenon
        <3> QED BY <3>1, <3>6, Zenon DEF p, name, offered, owed, Offered, OwedName
    <2>11. ASSUME \A i \in published : Plain(i) /\ Followed(i)
           PROVE  offered \subseteq present
        <3> HIDE DEF present, owed
        <3> SUFFICES ASSUME NEW o \in offered PROVE o \in present
            BY Zenon
        <3> DEFINE p == o[1]
                   name == MojoName(p.go, o[2])
        <3>1. o \in owed /\ p \in Packages /\ o[2] \in Wanted(p)
            <4>1. o \in owed
                BY Zenon DEF offered, owed, Offered
            <4>2. o \in Packages \X Symbols /\ o[2] \in Wanted(o[1])
                BY <2>6, <4>1, Zenon
            <4> QED BY <4>1, <4>2
        <3>2. Started(p) /\ Importable(p, name)
            BY Zenon DEF offered, Offered, OwedName
        <3> HIDE DEF name, p, offered
        <3>3. \A i \in Published(p) : Plain(i) /\ Followed(i)
            BY <2>9, <2>11, <3>1
        <3>4. name \in Doc(p.path, {}) \cup Reexported(p, {})
            BY <3>2, <3>3, DocIsOffered, ImportedIsReexported
        <3>5. name \in Exported(p, TRUE, {})
            BY <3>2, <3>4 DEF Exported, Measurable
        <3>6. o[2] \in Present(o[1], TRUE, {})
            BY <3>1, <3>5 DEF Present, p, name
        <3> QED BY <2>7, <3>1, <3>6
    <2>12. offered \subseteq owed
        BY DEF Offered
    <2>16. lent \subseteq owed
        BY DEF Lent
    <2>17. present \subseteq owed
        BY <2>7, Zenon
    <2> HIDE DEF owed, offered, lent, present, published
    <2>13. IsFiniteSet(offered \cup lent) /\ IsFiniteSet(present)
        BY <2>8, <2>12, <2>16, <2>17, FS_Subset
    <2>14. (\A i \in published : Plain(i)) => readme.present <= Cardinality(offered \cup lent)
        BY <2>4, <2>10, <2>13, FS_Subset
    <2>15. (\A i \in published : Plain(i) /\ Followed(i)) => readme.present >= Cardinality(offered)
        <3> SUFFICES ASSUME \A i \in published : Plain(i) /\ Followed(i)
                     PROVE  Cardinality(offered) <= Cardinality(present)
            BY <2>4, <2>8, <2>12, <2>13, FS_Subset, FS_CardinalityType
        <3> QED BY <2>11, <2>13, FS_Subset
    <2> QED BY <2>3, <2>5, <2>14, <2>15 DEF GreenIsTrue, owed, offered, lent, published
<1>2. ToolsInv => TreeTyped
    BY DEF ToolsInv, IInv
<1>3. Spec => []CountSaw
    BY CountBegins, CountStep, PTL DEF Spec
<1> QED BY <1>1, <1>2, <1>3, ToolsAlways, PTL
=============================================================================
