----------------------------- MODULE VfsProofs -----------------------------
(***************************************************************************)
(* What holds of the file system a session's shell shows, for any golden   *)
(* rootfs, any default tree, any paths typed and any number of commands:   *)
(* the layers stay trees that ls and cd agree on, a path means what its    *)
(* components say, and what is written or removed is seen to be.           *)
(***************************************************************************)
EXTENDS Vfs, SequenceTheorems, FiniteSetTheorems, WellFoundedInduction, TLAPS

\* The provers of a leaf that names none, in turn, and the seconds each has.
USE SMTT(20), ZenonT(20), Z3T(20)

-----------------------------------------------------------------------------
(* Paths *)

Paths == Seq(Names)

\* The directory of a path and its name make up the path.
LEMMA PathFacts ==
  ASSUME NEW p \in Paths, p # <<>>
  PROVE  /\ Parent(p) \in Paths /\ Len(Parent(p)) = Len(p) - 1 /\ Len(p) \in Nat \ {0}
         /\ \A i \in 1..(Len(p) - 1) : Parent(p)[i] = p[i]
         /\ Name(p) \in Names /\ p = Append(Parent(p), Name(p)) /\ Parent(p) # p
<1>1. Len(p) \in Nat \ {0} /\ \A i \in 1..Len(p) : p[i] \in Names
  BY DEF Paths
<1>2. /\ Parent(p) \in Paths /\ Len(Parent(p)) = Len(p) - 1
      /\ \A i \in 1..(Len(p) - 1) : Parent(p)[i] = p[i]
  BY <1>1 DEF Parent, Paths
<1>3. Name(p) \in Names
  BY <1>1 DEF Name
<1>4. p = Append(Parent(p), Name(p))
  BY <1>1, <1>2, <1>3 DEF Name, Paths
<1> QED
  BY <1>1, <1>2, <1>3, <1>4

\* A path below a directory has the directory's path and its own name.
LEMMA ChildFacts ==
  ASSUME NEW p \in Paths, NEW n \in Names
  PROVE  /\ Append(p, n) \in Paths \ {<<>>}
         /\ Parent(Append(p, n)) = p /\ Name(Append(p, n)) = n
<1>1. /\ Append(p, n) \in Paths /\ Len(Append(p, n)) = Len(p) + 1 /\ Len(p) \in Nat
      /\ (\A i \in 1..Len(p) : Append(p, n)[i] = p[i]) /\ Append(p, n)[Len(p) + 1] = n
  BY DEF Paths
<1>2. Append(p, n) # <<>> /\ Name(Append(p, n)) = n
  BY <1>1 DEF Name
<1>3. Parent(Append(p, n)) = p
  <2>1. /\ Parent(Append(p, n)) \in Paths /\ Len(Parent(Append(p, n))) = Len(p)
        /\ \A i \in 1..Len(p) : Parent(Append(p, n))[i] = p[i]
    <3> DEFINE q == Append(p, n)
    <3>1. q \in Paths /\ q # <<>>
      BY <1>1, <1>2
    <3> HIDE DEF q
    <3>2. /\ Parent(q) \in Paths /\ Len(Parent(q)) = Len(q) - 1
          /\ \A i \in 1..(Len(q) - 1) : Parent(q)[i] = q[i]
      BY <3>1, PathFacts, Zenon
    <3> QED
      BY <1>1, <3>2 DEF q
  <2> QED
    BY <2>1, SeqEqual DEF Paths
<1> QED
  BY <1>1, <1>2, <1>3

\* What is below the directory of a path is below the path's.
LEMMA AboveFacts ==
  ASSUME NEW p \in Paths, NEW q \in Paths, q # <<>>
  PROVE  /\ Above(p, Parent(q)) => Above(p, q)
         /\ Above(p, p) /\ (p # <<>> => ~Above(p, Parent(p)))
<1>1. Len(p) \in Nat /\ Len(q) \in Nat
  BY DEF Paths
<1>2. ASSUME Above(p, Parent(q)) PROVE Above(p, q)
  <2>1. /\ Len(Parent(q)) = Len(q) - 1 /\ Parent(q) \in Paths
        /\ \A i \in 1..(Len(q) - 1) : Parent(q)[i] = q[i]
    BY PathFacts
  <2>2. Len(p) <= Len(q) - 1 /\ SubSeq(Parent(q), 1, Len(p)) = p
    BY <1>2, <2>1 DEF Above
  <2>3. SubSeq(q, 1, Len(p)) = SubSeq(Parent(q), 1, Len(p))
    BY <1>1, <2>1, <2>2 DEF Paths
  <2> QED
    BY <1>1, <2>2, <2>3 DEF Above
<1>3. Above(p, p)
  BY <1>1 DEF Above, Paths
<1>4. p # <<>> => ~Above(p, Parent(p))
  BY <1>1, PathFacts DEF Above
<1> QED
  BY <1>2, <1>3, <1>4

\* The paths up to p are paths, each but the shortest below another of them.
LEMMA UptoFacts ==
  ASSUME NEW p \in Paths, NEW q \in Upto(p)
  PROVE  /\ q \in Paths \ {<<>>} /\ Len(q) <= Len(p) /\ Len(q) \in Nat
         /\ Parent(q) = <<>> \/ Parent(q) \in Upto(p)
<1>1. PICK i \in 1..Len(p) : q = SubSeq(p, 1, i)
  BY DEF Upto
<1>2. Len(p) \in Nat
  BY DEF Paths
<1>3. q \in Paths /\ Len(q) = i /\ \A j \in 1..i : q[j] = p[j]
  BY <1>1, <1>2 DEF Paths
<1>4. q # <<>>
  BY <1>1, <1>3
<1>5. Parent(q) = SubSeq(p, 1, i - 1)
  BY <1>1, <1>2, <1>3 DEF Parent, Paths
<1>6. Parent(q) = <<>> \/ Parent(q) \in Upto(p)
  <2>1. CASE i = 1
    <3>1. SubSeq(p, 1, 0) = <<>> /\ i - 1 = 0
      BY <1>2, <2>1 DEF Paths
    <3> QED
      BY <1>5, <3>1, Zenon
  <2>2. CASE i # 1
    <3>1. i - 1 \in 1..Len(p)
      BY <1>2, <2>2
    <3> QED
      BY <1>5, <3>1, Zenon DEF Upto
  <2> QED
    BY <2>1, <2>2
<1> QED
  BY <1>1, <1>2, <1>3, <1>4, <1>6

-----------------------------------------------------------------------------
(* Trees *)

\* The upperdir of a mount that failed starts as a tree.
LEMMA EmptyTree == IsTree(<<>>)
  BY DEF IsTree

\* What is removed takes everything below it along.
LEMMA WithoutTree ==
  ASSUME NEW t, IsTree(t), NEW p \in Paths
  PROVE  IsTree(Without(t, p))
<1> DEFINE u == Without(t, p)
<1>1. /\ DOMAIN u = {r \in DOMAIN t : ~Above(p, r)}
      /\ \A q \in DOMAIN u : u[q] = t[q]
  BY DEF Without
<1>2. DOMAIN t \subseteq Paths \ {<<>>}
  BY DEF IsTree, Paths
<1> HIDE DEF u
<1>3. ASSUME NEW q \in DOMAIN u
      PROVE  IsDir(u, Parent(q)) /\ IsNode(u[q])
  <2>1. q \in DOMAIN t /\ ~Above(p, q) /\ q \in Paths /\ q # <<>> /\ u[q] = t[q]
    BY <1>1, <1>2, <1>3
  <2>2. IsDir(t, Parent(q)) /\ IsNode(t[q])
    BY <2>1, Zenon DEF IsTree
  <2>3. ~Above(p, Parent(q))
    BY <2>1, AboveFacts, Zenon
  <2>4. IsDir(u, Parent(q))
    BY <1>1, <2>2, <2>3, Zenon DEF IsDir, Exists, Node
  <2> QED
    BY <2>1, <2>2, <2>4, Zenon
<1>4. IsTree(u)
  BY <1>1, <1>2, <1>3, Zenon DEF IsTree, Paths
<1> QED
  BY <1>4 DEF u

\* A node takes its place below a directory.
LEMMA WithTree ==
  ASSUME NEW t, IsTree(t), NEW p \in Paths \ {<<>>}, IsDir(t, Parent(p)),
         NEW node, IsNode(node)
  PROVE  IsTree(With(t, p, node))
<1> DEFINE u == With(t, p, node)
<1>1. /\ DOMAIN u = {r \in DOMAIN t : ~Above(p, r)} \cup {p}
      /\ \A q \in DOMAIN u : u[q] = IF q = p THEN node ELSE t[q]
  BY DEF With, Without
<1>2. DOMAIN t \subseteq Paths \ {<<>>}
  BY DEF IsTree, Paths
<1> HIDE DEF u
<1>3. ASSUME NEW q \in Paths, IsDir(t, q), ~Above(p, q)
      PROVE  IsDir(u, q)
  <2>1. q # p
    BY <1>3, AboveFacts, Zenon
  <2> QED
    BY <1>1, <1>3, <2>1, Zenon DEF IsDir, Exists, Node
<1>4. ASSUME NEW q \in DOMAIN u
      PROVE  IsDir(u, Parent(q)) /\ IsNode(u[q])
  <2>1. CASE q = p
    <3>1. ~Above(p, Parent(p)) /\ Parent(p) \in Paths
      BY AboveFacts, PathFacts, Zenon
    <3> QED
      BY <1>1, <1>3, <1>4, <2>1, <3>1, Zenon
  <2>2. CASE q # p
    <3>1. q \in DOMAIN t /\ ~Above(p, q) /\ q \in Paths /\ q # <<>> /\ u[q] = t[q]
      BY <1>1, <1>2, <1>4, <2>2
    <3>2. IsDir(t, Parent(q)) /\ IsNode(t[q])
      BY <3>1, Zenon DEF IsTree
    <3>3. ~Above(p, Parent(q)) /\ Parent(q) \in Paths
      BY <3>1, AboveFacts, PathFacts, Zenon
    <3> QED
      BY <1>3, <3>1, <3>2, <3>3, Zenon
  <2> QED
    BY <2>1, <2>2
<1>5. DOMAIN u \subseteq Paths \ {<<>>}
  BY <1>1, <1>2
<1>6. IsTree(u)
  BY <1>4, <1>5, Zenon DEF IsTree, Paths
<1> QED
  BY <1>6 DEF u

\* What create_dir_all makes: directories all the way, where no file stops it.
LEMMA CreateFacts ==
  ASSUME NEW t, IsTree(t), NEW p \in Paths
  PROVE  /\ IsTree(CreateDirAll(t, p))
         /\ (\A q \in Upto(p) : ~IsFile(t, q)) => IsDir(CreateDirAll(t, p), p)
         /\ \A q \in Paths \ Upto(p) : /\ Exists(CreateDirAll(t, p), q) = Exists(t, q)
                                       /\ Exists(t, q) => Node(CreateDirAll(t, p), q) = Node(t, q)
<1> DEFINE u == CreateDirAll(t, p)
<1>1. CASE \E q \in Upto(p) : IsFile(t, q)
  BY <1>1 DEF CreateDirAll
<1>2. CASE \A q \in Upto(p) : ~IsFile(t, q)
  <2>1. /\ DOMAIN u = DOMAIN t \cup Upto(p)
        /\ \A q \in DOMAIN u : u[q] = IF q \in DOMAIN t THEN t[q] ELSE Dir
    BY <1>2 DEF CreateDirAll
  <2>2. DOMAIN t \subseteq Paths \ {<<>>} /\ Upto(p) \subseteq Paths \ {<<>>}
    BY UptoFacts, Zenon DEF IsTree, Paths
  <2>3. Dir.dir = TRUE /\ IsNode(Dir)
    BY DEF Dir, IsNode
  <2> HIDE DEF u
  <2>4. ASSUME NEW q \in Upto(p) PROVE IsDir(u, q)
    <3>1. q \in DOMAIN u /\ q # <<>>
      BY <2>1, <2>2, <2>4
    <3>2. CASE q \in DOMAIN t
      <4>1. ~IsFile(t, q)
        BY <1>2, <2>4
      <4>2. u[q] = t[q] /\ t[q].dir
        BY <2>1, <3>1, <3>2, <4>1, Zenon DEF IsFile, Exists, Node
      <4> QED
        BY <3>1, <4>2, Zenon DEF IsDir, Exists, Node
    <3>3. CASE q \notin DOMAIN t
      BY <2>1, <2>3, <3>1, <3>3, Zenon DEF IsDir, Exists, Node
    <3> QED
      BY <3>2, <3>3
  <2>5. IsDir(u, <<>>)
    BY <2>3 DEF IsDir, Exists, Node
  <2>6. ASSUME NEW q, IsDir(t, q) PROVE IsDir(u, q)
    BY <2>1, <2>6, Zenon DEF IsDir, Exists, Node
  <2>7. ASSUME NEW q \in DOMAIN u
        PROVE  IsDir(u, Parent(q)) /\ IsNode(u[q])
    <3>1. CASE q \in DOMAIN t
      <4>1. IsDir(t, Parent(q)) /\ IsNode(t[q])
        BY <3>1, Zenon DEF IsTree
      <4> QED
        BY <2>1, <2>6, <2>7, <3>1, <4>1, Zenon
    <3>2. CASE q \notin DOMAIN t
      <4>1. q \in Upto(p) /\ u[q] = Dir
        BY <2>1, <2>7, <3>2, Zenon
      <4>2. IsDir(u, Parent(q))
        BY <2>4, <2>5, <4>1, UptoFacts, Zenon
      <4> QED
        BY <2>3, <4>1, <4>2
    <3> QED
      BY <3>1, <3>2
  <2>8. IsTree(u)
    BY <2>1, <2>2, <2>7, Zenon DEF IsTree, Paths
  <2>9. IsDir(u, p)
    <3>1. CASE p = <<>>
      BY <2>5, <3>1
    <3>2. CASE p # <<>>
      <4>1. Len(p) \in 1..Len(p) /\ p = SubSeq(p, 1, Len(p))
        BY <3>2, PathFacts DEF Paths
      <4>2. p \in Upto(p)
        BY <4>1, Zenon DEF Upto
      <4> QED
        BY <2>4, <4>2
    <3> QED
      BY <3>1, <3>2
  <2>10. ASSUME NEW q \in Paths \ Upto(p)
         PROVE  Exists(u, q) = Exists(t, q) /\ (Exists(t, q) => Node(u, q) = Node(t, q))
    BY <2>1, <2>10 DEF Exists, Node
  <2> QED
    BY <2>8, <2>9, <2>10 DEF u
<1> QED
  BY <1>1, <1>2

-----------------------------------------------------------------------------
(* resolve *)

\* A set of naturals that is not empty has a least element.
LEMMA LeastNatural ==
  ASSUME NEW S \in SUBSET Nat, S # {}
  PROVE  \E x \in S : \A y \in S : x <= y
<1>1. PICK x \in S : \A y \in S : ~(<<y, x>> \in OpToRel(<, Nat))
  BY WFMin, NatLessThanWellFounded, Zenon
<1>2. \A y \in S : ~(y < x)
  BY <1>1, Zenon DEF OpToRel
<1> QED
  BY <1>2

\* f[i] is what resolve has made of the base and the first i components.
Resolves(f, base, s, n) ==
    f = [i \in 0..n |-> IF i = 0 THEN base ELSE Component(f[i - 1], s[i])]

\* A component leaves a path.
LEMMA ComponentFacts ==
  ASSUME NEW p \in Paths, NEW c \in STRING
  PROVE  Component(p, c) \in Paths
<1>1. CASE c = "."
  BY <1>1 DEF Component
<1>2. CASE c = ".."
  <2>1. CASE p = <<>>
    BY <1>2, <2>1 DEF Component
  <2>2. CASE p # <<>>
    BY <1>2, <2>2, PathFacts DEF Component
  <2> QED
    BY <2>1, <2>2, Zenon
<1>3. CASE c \notin Dots
  <2>1. c \in Names /\ Component(p, c) = Append(p, c)
    BY <1>3 DEF Component, Names, Dots
  <2> QED
    BY <2>1, ChildFacts, Zenon
<1> QED
  BY <1>1, <1>2, <1>3 DEF Dots

\* The components can be taken one after the other.
LEMMA ResolvesExists ==
  ASSUME NEW base, NEW s, NEW n \in Nat
  PROVE  \E f : Resolves(f, base, s, n)
<1> DEFINE Bad == {k \in Nat : ~\E f : Resolves(f, base, s, k)}
<1>1. SUFFICES ASSUME Bad # {} PROVE FALSE
  OBVIOUS
<1>2. PICK k \in Bad : \A j \in Bad : k <= j
  <2>1. Bad \in SUBSET Nat
    OBVIOUS
  <2> HIDE DEF Bad
  <2> QED
    BY <1>1, <2>1, LeastNatural, Zenon
<1>3. k \in Nat /\ ~\E f : Resolves(f, base, s, k)
  BY <1>2
<1>4. CASE k = 0
  <2> DEFINE f == [i \in 0..0 |-> base]
  <2>1. f = [i \in 0..0 |-> IF i = 0 THEN base ELSE Component(f[i - 1], s[i])]
    OBVIOUS
  <2>2. Resolves(f, base, s, 0)
    BY <2>1 DEF Resolves
  <2> QED
    BY <1>3, <1>4, <2>2
<1>5. CASE k # 0
  <2>1. k - 1 \in Nat /\ k - 1 \notin Bad
    BY <1>2, <1>3, <1>5
  <2>2. PICK g : Resolves(g, base, s, k - 1)
    BY <2>1
  <2> DEFINE f == [i \in 0..k |-> IF i <= k - 1 THEN g[i] ELSE Component(g[k - 1], s[k])]
             h == [i \in 0..k |-> IF i = 0 THEN base ELSE Component(f[i - 1], s[i])]
  <2>3. \A i \in 0..(k - 1) : g[i] = IF i = 0 THEN base ELSE Component(g[i - 1], s[i])
    BY <2>2 DEF Resolves
  <2>4. \A i \in 0..k : f[i] = h[i]
    <3> SUFFICES ASSUME NEW i \in 0..k PROVE f[i] = h[i]
      OBVIOUS
    <3>1. f[i] = (IF i <= k - 1 THEN g[i] ELSE Component(g[k - 1], s[k]))
          /\ h[i] = IF i = 0 THEN base ELSE Component(f[i - 1], s[i])
      OBVIOUS
    <3>2. i # 0 => i - 1 \in 0..k /\ i - 1 <= k - 1
      BY <1>3
    <3>3. i # 0 => f[i - 1] = g[i - 1]
      BY <3>2
    <3> HIDE DEF f, h
    <3>4. CASE i <= k - 1
      <4>1. i \in 0..(k - 1)
        BY <1>3, <3>4
      <4> QED
        BY <2>3, <3>1, <3>3, <3>4, <4>1, Zenon
    <3>5. CASE ~(i <= k - 1)
      <4>1. i = k /\ i # 0
        BY <1>3, <1>5, <3>5
      <4> QED
        BY <3>1, <3>3, <3>5, <4>1, Zenon
    <3> QED
      BY <3>4, <3>5
  <2>5. f = h
    <3>1. f = [i \in 0..k |-> f[i]] /\ h = [i \in 0..k |-> h[i]]
      OBVIOUS
    <3> HIDE DEF f, h
    <3> QED
      BY <2>4, <3>1
  <2>6. Resolves(f, base, s, k)
    BY <2>5 DEF Resolves
  <2> QED
    BY <1>3, <2>6
<1> QED
  BY <1>4, <1>5

\* Where a target is resolved from.
LEMMA BaseFacts ==
  ASSUME NEW t \in Targets, current_path \in Paths
  PROVE  Base(t) \in Paths /\ t.comps \in Seq(STRING) /\ Len(t.comps) \in Nat
<1>1. t.from \in {"root", "home", "here"} /\ t.comps \in Seq(STRING)
  BY VfsAssumption
<1>2. <<>> \in Paths /\ <<Home>> \in Paths
  BY VfsAssumption DEF Paths
<1> QED
  BY <1>1, <1>2 DEF Base

\* resolve takes the components of a target one after the other.
LEMMA ResolveFacts ==
  ASSUME NEW t \in Targets, current_path \in Paths
  PROVE  \E f : /\ resolve(t) = f[Len(t.comps)] /\ f[0] = Base(t)
                /\ \A i \in 0..Len(t.comps) : f[i] \in Paths
                /\ \A i \in 1..Len(t.comps) : f[i] = Component(f[i - 1], t.comps[i])
<1> DEFINE n == Len(t.comps)
           f == CHOOSE g : g = [i \in 0..n |-> IF i = 0 THEN Base(t) ELSE Component(g[i - 1], t.comps[i])]
<1>1. Base(t) \in Paths /\ t.comps \in Seq(STRING) /\ n \in Nat /\ \A i \in 1..n : t.comps[i] \in STRING
  BY BaseFacts, LenProperties
<1>2. resolve(t) = f[n]
  BY DEF resolve
<1>3. f = [i \in 0..n |-> IF i = 0 THEN Base(t) ELSE Component(f[i - 1], t.comps[i])]
  <2>1. \E g : g = [i \in 0..n |-> IF i = 0 THEN Base(t) ELSE Component(g[i - 1], t.comps[i])]
    <3>1. PICK g : Resolves(g, Base(t), t.comps, n)
      BY <1>1, ResolvesExists, Zenon
    <3>2. g = [i \in 0..n |-> IF i = 0 THEN Base(t) ELSE Component(g[i - 1], t.comps[i])]
      BY <3>1, Zenon DEF Resolves
    <3> QED
      BY <3>2, Zenon
  <2> QED
    BY <2>1, Zenon
<1> HIDE DEF f, n
<1>4. /\ \A i \in 0..n : f[i] = IF i = 0 THEN Base(t) ELSE Component(f[i - 1], t.comps[i])
  BY <1>3, Zenon
<1>5. f[0] = Base(t) /\ \A i \in 1..n : f[i] = Component(f[i - 1], t.comps[i])
  <2>1. 0 \in 0..n /\ \A i \in 1..n : i \in 0..n /\ i # 0
    BY <1>1
  <2> QED
    BY <1>4, <2>1, Zenon
<1>6. \A i \in 0..n : f[i] \in Paths
  <2> DEFINE Bad == {i \in 0..n : f[i] \notin Paths}
  <2> SUFFICES ASSUME Bad # {} PROVE FALSE
    OBVIOUS
  <2>1. PICK k \in Bad : \A j \in Bad : k <= j
    <3>1. Bad \in SUBSET Nat
      BY <1>1
    <3> HIDE DEF Bad
    <3> QED
      BY <3>1, LeastNatural, Zenon
  <2>2. k \in 1..n /\ k - 1 \in 0..n /\ k - 1 \notin Bad
    <3>1. k \in 0..n /\ f[k] \notin Paths
      BY <2>1
    <3>2. k # 0
      BY <1>1, <1>5, <3>1, Zenon
    <3>3. k \in 1..n /\ k - 1 \in 0..n /\ ~(k <= k - 1)
      BY <1>1, <3>1, <3>2
    <3> HIDE DEF Bad
    <3> QED
      BY <2>1, <3>3, Zenon
  <2>3. f[k - 1] \in Paths /\ f[k] \notin Paths
    BY <2>1, <2>2
  <2>4. f[k] = Component(f[k - 1], t.comps[k]) /\ t.comps[k] \in STRING
    BY <1>1, <1>5, <2>2
  <2> QED
    BY <2>3, <2>4, ComponentFacts, Zenon
<1> QED
  BY <1>2, <1>5, <1>6 DEF n

-----------------------------------------------------------------------------
(* The invariant *)

All == {"session", "golden", "memory"}

\* Every layer is a tree, and the session is at a path without "." or "..".
VfsInv ==
    /\ root \in {"session", "golden", "none"} /\ current_path \in Paths
    /\ DOMAIN tree = All /\ \A l \in All : IsTree(tree[l])

\* Every command works on a path without dots.
LEMMA ResolvePath ==
  ASSUME VfsInv, NEW t \in Targets
  PROVE  resolve(t) \in Paths
<1>1. PICK f : /\ resolve(t) = f[Len(t.comps)]
               /\ \A i \in 0..Len(t.comps) : f[i] \in Paths
  BY ResolveFacts, Zenon DEF VfsInv
<1>2. Len(t.comps) \in 0..Len(t.comps)
  BY BaseFacts DEF VfsInv
<1> QED
  BY <1>1, <1>2, Zenon

\* An operand of a command names something below the root.
LEMMA OperandFacts ==
  ASSUME VfsInv, NEW p \in Paths, Operand(p)
  PROVE  p # <<>> /\ Parent(p) \in Paths
<1>1. p # <<>>
  BY VfsAssumption DEF Operand
<1> QED
  BY <1>1, PathFacts

\* What a command finds at mount_root is a tree, even where there is none.
LEMMA DiskTree ==
  ASSUME VfsInv
  PROVE  IsTree(Disk)
<1>1. CASE root = "none"
  BY <1>1, EmptyTree DEF Disk
<1>2. CASE root # "none"
  BY <1>2 DEF Disk, VfsInv, All
<1> QED
  BY <1>1, <1>2

\* A command that leaves trees on disk and in memory keeps the invariant.
LEMMA ChangeKeeps ==
  ASSUME VfsInv, NEW d, NEW m, IsTree(d), IsTree(m), Change(d, m)
  PROVE  VfsInv'
<1>1. /\ root' = root /\ current_path' = current_path
      /\ tree' = [l \in DOMAIN tree |-> CASE l = "memory" -> m [] l = root -> d [] OTHER -> tree[l]]
  BY DEF Change
<1>2. DOMAIN tree' = All
  BY <1>1 DEF VfsInv
<1>3. ASSUME NEW l \in All PROVE IsTree(tree'[l])
  <2>1. tree'[l] = CASE l = "memory" -> m [] l = root -> d [] OTHER -> tree[l]
    BY <1>1, <1>3 DEF VfsInv
  <2>2. tree'[l] \in {m, d, tree[l]}
    BY <2>1
  <2>3. IsTree(tree[l])
    BY <1>3, Zenon DEF VfsInv
  <2>4. tree'[l] = m \/ tree'[l] = d \/ tree'[l] = tree[l]
    BY <2>2, Zenon
  <2> QED
    BY <2>3, <2>4, Zenon
<1> QED
  BY <1>1, <1>2, <1>3, Zenon DEF VfsInv

\* mkdir and touch put a node only below a directory and only where nothing is.
LEMMA AddTree ==
  ASSUME NEW t, IsTree(t), NEW p \in Paths \ {<<>>},
         NEW node, IsNode(node)
  PROVE  IsTree(Add(t, p, node))
<1>1. CASE IsDir(t, Parent(p)) /\ ~Exists(t, p)
  <2>1. IsTree(With(t, p, node))
    BY <1>1, WithTree, Zenon
  <2> QED
    BY <1>1, <2>1 DEF Add
<1>2. CASE ~(IsDir(t, Parent(p)) /\ ~Exists(t, p))
  BY <1>2 DEF Add
<1> QED
  BY <1>1, <1>2

\* The write of a redirection on disk leaves a tree, also where it fails halfway.
LEMMA DiskWrittenTree ==
  ASSUME NEW t, IsTree(t), NEW p \in Paths \ {<<>>}, NEW text, NEW append
  PROVE  IsTree(DiskWritten(t, p, text, append))
<1> DEFINE u == CreateDirAll(t, Parent(p))
           node == Written(u, p, text, append)
<1>1. Parent(p) \in Paths
  BY PathFacts
<1>2. IsTree(u)
  BY <1>1, CreateFacts
<1>3. IsNode(node)
  BY DEF IsNode, Written, File
<1>4. DiskWritten(t, p, text, append) =
        IF IsDir(u, Parent(p)) /\ ~IsDir(u, p) THEN With(u, p, node) ELSE u
  BY DEF DiskWritten
<1> HIDE DEF u, node
<1>5. IsDir(u, Parent(p)) => IsTree(With(u, p, node))
  BY <1>2, <1>3, WithTree, Zenon
<1> QED
  BY <1>2, <1>4, <1>5, Zenon

\* Every command and every download keeps the layers trees.
LEMMA VfsStep == VfsInv /\ [Next]_vars => VfsInv'
<1> SUFFICES ASSUME VfsInv, [Next]_vars PROVE VfsInv'
  OBVIOUS
<1>1. IsTree(Disk) /\ IsTree(tree["memory"])
  BY DiskTree DEF VfsInv, All
<1>2. IsNode(Dir) /\ \A x : IsNode(File(x))
  BY DEF IsNode, Dir, File
<1>3. CASE UNCHANGED vars
  BY <1>3 DEF vars, VfsInv
<1>4. ASSUME NEW t \in Targets, cd(t) PROVE VfsInv'
  BY <1>4, ResolvePath DEF cd, VfsInv
<1>5. ASSUME NEW t \in Targets, NEW parents \in BOOLEAN, mkdir(t, parents) PROVE VfsInv'
  <2> DEFINE p == resolve(t)
             d == CreateDirAll(Disk, p)
             m == IF parents THEN CreateDirAll(tree["memory"], p) ELSE Add(tree["memory"], p, Dir)
  <2>1. p \in Paths /\ Operand(p) /\ Change(d, m)
    BY <1>5, ResolvePath DEF mkdir
  <2>2. p # <<>>
    BY <2>1, OperandFacts
  <2>3. IsTree(d) /\ IsTree(m)
    <3> HIDE DEF p
    <3>1. IsTree(d) /\ IsTree(CreateDirAll(tree["memory"], p))
      BY <1>1, <2>1, CreateFacts, Zenon
    <3>2. IsTree(Add(tree["memory"], p, Dir))
      BY <1>1, <1>2, <2>1, <2>2, AddTree, Zenon
    <3> QED
      BY <3>1, <3>2, Zenon
  <2> QED
    BY <2>1, <2>3, ChangeKeeps
<1>6. ASSUME NEW t \in Targets, touch(t) PROVE VfsInv'
  <2> DEFINE p == resolve(t)
             u == CreateDirAll(Disk, Parent(p))
             d == Add(u, p, File(<<>>))
             m == Add(tree["memory"], p, File(<<>>))
  <2>1. p \in Paths /\ Operand(p) /\ Change(d, m)
    BY <1>6, ResolvePath DEF touch
  <2>2. p # <<>> /\ Parent(p) \in Paths
    BY <2>1, OperandFacts
  <2>3. IsTree(u)
    BY <1>1, <2>2, CreateFacts
  <2>4. IsTree(d) /\ IsTree(m)
    <3> HIDE DEF u, p
    <3> QED
      BY <1>1, <1>2, <2>1, <2>2, <2>3, AddTree, Zenon
  <2> QED
    BY <2>1, <2>4, ChangeKeeps
<1>7. ASSUME NEW t \in Targets, NEW recursive \in BOOLEAN, NEW force \in BOOLEAN,
             rm(t, recursive, force)
      PROVE  VfsInv'
  <2> DEFINE p == resolve(t)
             d == Removed(Disk, p, recursive)
             m == Removed(tree["memory"], p, recursive)
  <2>1. p \in Paths /\ Change(d, m)
    BY <1>7, ResolvePath DEF rm
  <2>2. IsTree(d) /\ IsTree(m)
    BY <1>1, <2>1, WithoutTree DEF Removed
  <2> QED
    BY <2>1, <2>2, ChangeKeeps
<1>8. ASSUME NEW text, NEW t \in Targets, NEW append \in BOOLEAN, write_file(t, text, append)
      PROVE  VfsInv'
  <2> DEFINE p == resolve(t)
             d == DiskWritten(Disk, p, text, append)
             w == With(tree["memory"], p, Written(tree["memory"], p, text, append))
             m == IF IsDir(tree["memory"], Parent(p)) THEN w ELSE tree["memory"]
  <2>1. p \in Paths /\ Operand(p) /\ Change(d, m)
    BY <1>8, ResolvePath DEF write_file
  <2>2. p # <<>>
    BY <2>1, OperandFacts
  <2>3. IsNode(Written(tree["memory"], p, text, append))
    BY DEF IsNode, Written, File
  <2>4. IsDir(tree["memory"], Parent(p)) => IsTree(w)
    <3> HIDE DEF p
    <3> QED
      BY <1>1, <2>1, <2>2, <2>3, WithTree, Zenon
  <2>5. IsTree(d) /\ IsTree(m)
    <3> HIDE DEF p, w
    <3> QED
      BY <1>1, <2>1, <2>2, <2>4, DiskWrittenTree, Zenon
  <2> QED
    BY <2>1, <2>5, ChangeKeeps
<1>9. ASSUME NEW n \in Fetched, NEW payload \in Payloads, FetchLands(n, payload) PROVE VfsInv'
  <2> DEFINE p == <<Home, n>>
             d == With(Disk, p, File(<<payload>>))
  <2>1. IsDir(Disk, <<Home>>) /\ Change(d, tree["memory"])
    BY <1>9 DEF FetchLands
  <2>2. p \in Paths /\ p # <<>> /\ Parent(p) = <<Home>>
    <3>1. <<Home>> \in Paths /\ n \in Names /\ p = Append(<<Home>>, n)
      BY VfsAssumption DEF Paths
    <3> HIDE DEF p
    <3> QED
      BY <3>1, ChildFacts
  <2>3. IsTree(d)
    <3> HIDE DEF p
    <3> QED
      BY <1>1, <1>2, <2>1, <2>2, WithTree, Zenon
  <2> QED
    BY <1>1, <2>1, <2>3, ChangeKeeps
<1> QED
  BY <1>3, <1>4, <1>5, <1>6, <1>7, <1>8, <1>9 DEF Next, Redirect

\* The session starts in root's home, over trees.
LEMMA VfsStarts == Init => VfsInv
<1> SUFFICES ASSUME Init PROVE VfsInv
  OBVIOUS
<1>1. IsTree(Golden) /\ IsTree(Default) /\ IsTree(<<>>) /\ <<Home>> \in Paths
  BY VfsAssumption, EmptyTree DEF Paths
<1>2. /\ root \in {"session", "golden", "none"} /\ current_path = <<Home>>
      /\ tree \in [session : {Golden, <<>>}, golden : {Golden}, memory : {Default}]
  BY DEF Init
<1>3. DOMAIN tree = All
  BY <1>2 DEF All
<1>4. tree["session"] \in {Golden, <<>>} /\ tree["golden"] = Golden /\ tree["memory"] = Default
  BY <1>2
<1>5. \A l \in All : IsTree(tree[l])
  BY <1>1, <1>4, Zenon DEF All
<1> QED
  BY <1>1, <1>2, <1>3, <1>5 DEF VfsInv

\* The inductive invariant of the shell's file system: the current path has no
\* dots in it and every layer is a tree, after any commands and downloads.
THEOREM VfsKept == Spec => []VfsInv
<1>1. Init => VfsInv
  BY VfsStarts
<1>2. VfsInv /\ [Next]_vars => VfsInv'
  BY VfsStep
<1> QED
  BY <1>1, <1>2, PTL DEF Spec

-----------------------------------------------------------------------------
(* Reading *)

\* The names ls finds in a layer are those of the paths below the directory.
LEMMA ChildrenFacts ==
  ASSUME VfsInv, NEW l \in All, NEW p \in Paths
  PROVE  /\ Children(l, p) \subseteq Names
         /\ \A n \in Names : n \in Children(l, p) <=> Append(p, n) \in DOMAIN tree[l]
<1>1. DOMAIN tree[l] \subseteq Paths \ {<<>>}
  BY DEF VfsInv, IsTree, Paths
<1>2. Children(l, p) \subseteq Names
  BY <1>1, PathFacts DEF Children
<1>3. ASSUME NEW n \in Names
      PROVE  n \in Children(l, p) <=> Append(p, n) \in DOMAIN tree[l]
  <2>1. ASSUME n \in Children(l, p) PROVE Append(p, n) \in DOMAIN tree[l]
    <3>1. PICK q \in DOMAIN tree[l] : Parent(q) = p /\ n = Name(q)
      BY <2>1 DEF Children
    <3>2. q = Append(Parent(q), Name(q))
      BY <1>1, <3>1, PathFacts
    <3> QED
      BY <3>1, <3>2, Zenon
  <2>2. ASSUME Append(p, n) \in DOMAIN tree[l] PROVE n \in Children(l, p)
    <3>1. Parent(Append(p, n)) = p /\ Name(Append(p, n)) = n
      BY <1>3, ChildFacts
    <3> QED
      BY <2>2, <3>1, Zenon DEF Children
  <2> QED
    BY <2>1, <2>2
<1> QED
  BY <1>2, <1>3, Zenon

\* What ls lists below a directory, and what cd and cat find there.
LEMMA LsFacts ==
  ASSUME VfsInv, NEW p \in Paths
  PROVE  /\ DOMAIN ls(p) = {n \in Names : \E l \in Layers : Append(p, n) \in DOMAIN tree[l]}
         /\ \A n \in DOMAIN ls(p) : ls(p)[n] = SeenDir(Append(p, n))
<1> DEFINE Has(l, n) == Append(p, n) \in DOMAIN tree[l]
           lower == Inserted(Entries("memory", p), Entries("golden", p))
<1>1. ASSUME NEW l \in All
      PROVE  /\ DOMAIN Entries(l, p) = {n \in Names : Has(l, n)}
             /\ \A n \in DOMAIN Entries(l, p) : Entries(l, p)[n] = tree[l][Append(p, n)].dir
  <2>1. DOMAIN Entries(l, p) = Children(l, p)
    BY DEF Entries
  <2>2. Children(l, p) = {n \in Names : Has(l, n)}
    BY <1>1, ChildrenFacts, Zenon
  <2> QED
    BY <2>1, <2>2 DEF Entries
<1>2. {"golden", "memory"} \subseteq All /\ (root # "none" => root \in All)
  BY DEF VfsInv, All
<1>3. /\ DOMAIN lower = {n \in Names : Has("golden", n) \/ Has("memory", n)}
      /\ \A n \in DOMAIN lower :
            lower[n] = IF Has("golden", n) THEN tree["golden"][Append(p, n)].dir
                                           ELSE tree["memory"][Append(p, n)].dir
  BY <1>1, <1>2, ZenonT(30) DEF Inserted
<1>4. ASSUME NEW n \in Names
      PROVE  /\ \A l : Exists(tree[l], Append(p, n)) <=> Has(l, n)
             /\ \A l \in All : Has(l, n) =>
                   IsDir(tree[l], Append(p, n)) = tree[l][Append(p, n)].dir
  <2>1. Append(p, n) # <<>>
    BY <1>4, ChildFacts
  <2>2. \A l \in All : Has(l, n) => tree[l][Append(p, n)].dir \in BOOLEAN
    BY <1>4, Zenon DEF VfsInv, IsTree, IsNode
  <2> QED
    BY <2>1, <2>2 DEF Exists, IsDir, Node
<1>5. \A n \in Names : Top(Append(p, n)) =
            IF root # "none" /\ Has(root, n) THEN root
            ELSE IF Has("golden", n) THEN "golden" ELSE "memory"
  BY <1>4 DEF Top, First, Layers
<1>6. CASE root = "none"
  <2>1. ls(p) = lower /\ Layers = {"golden", "memory"}
    BY <1>6 DEF ls, Layers
  <2> HIDE DEF lower
  <2>2. DOMAIN ls(p) = {n \in Names : \E l \in Layers : Has(l, n)}
    BY <1>3, <2>1
  <2>3. ASSUME NEW n \in DOMAIN ls(p)
        PROVE  ls(p)[n] = SeenDir(Append(p, n))
    BY <1>2, <1>3, <1>4, <1>5, <1>6, <2>1, <2>3 DEF SeenDir
  <2> QED
    BY <2>2, <2>3
<1>7. CASE root # "none"
  <2>1. ls(p) = Inserted(lower, Entries(root, p)) /\ Layers = {root, "golden", "memory"}
    BY <1>7 DEF ls, Layers
  <2> HIDE DEF lower
  <2>2. /\ DOMAIN ls(p) = {n \in Names : Has(root, n) \/ Has("golden", n) \/ Has("memory", n)}
        /\ \A n \in DOMAIN ls(p) : ls(p)[n] = IF Has(root, n) THEN tree[root][Append(p, n)].dir ELSE lower[n]
    <3> DEFINE E == Entries(root, p)
    <3>1. /\ DOMAIN E = {n \in Names : Has(root, n)}
          /\ \A n \in DOMAIN E : E[n] = tree[root][Append(p, n)].dir
      BY <1>1, <1>2, <1>7, Zenon
    <3>2. /\ DOMAIN ls(p) = DOMAIN lower \cup DOMAIN E
          /\ \A n \in DOMAIN ls(p) : ls(p)[n] = IF n \in DOMAIN E THEN E[n] ELSE lower[n]
      BY <2>1 DEF Inserted
    <3> HIDE DEF E
    <3>3. DOMAIN ls(p) = {n \in Names : Has(root, n) \/ Has("golden", n) \/ Has("memory", n)}
      BY <1>3, <3>1, <3>2, Zenon
    <3> QED
      BY <3>1, <3>2, <3>3, Zenon
  <2>3. ASSUME NEW n \in DOMAIN ls(p)
        PROVE  ls(p)[n] = SeenDir(Append(p, n))
    <3>1. n \in Names
      BY <2>2, <2>3, Zenon
    <3>2. CASE Has(root, n)
      <4>1. Top(Append(p, n)) = root /\ ls(p)[n] = tree[root][Append(p, n)].dir
        BY <1>5, <1>7, <2>2, <2>3, <3>1, <3>2, Zenon
      <4> QED
        BY <1>2, <1>4, <1>7, <3>1, <3>2, <4>1, Zenon DEF SeenDir
    <3>3. CASE ~Has(root, n)
      <4>1. n \in DOMAIN lower /\ ls(p)[n] = lower[n]
        BY <1>3, <2>2, <2>3, <3>3
      <4>2. Top(Append(p, n)) = IF Has("golden", n) THEN "golden" ELSE "memory"
        BY <1>5, <3>1, <3>3, Zenon
      <4> QED
        BY <1>2, <1>3, <1>4, <3>1, <4>1, <4>2 DEF SeenDir
    <3> QED
      BY <3>2, <3>3
  <2> QED
    BY <2>1, <2>2, <2>3
<1> QED
  BY <1>6, <1>7

\* The layers stay trees whatever part of a command fails, and ls lists below a
\* directory the names that cd and cat find there, as the kind they take them for.
THEOREM LsAgreesWithCd == Spec => []LsAgrees
<1>1. VfsInv => LsAgrees
  <2> SUFFICES ASSUME VfsInv PROVE LsAgrees
    OBVIOUS
  <2> DEFINE places == {<<>>} \cup UNION {DOMAIN tree[l] : l \in Layers}
  <2>1. DOMAIN tree = All /\ \A l \in All : IsTree(tree[l])
    BY DEF VfsInv
  <2>2. Layers \subseteq All
    BY DEF VfsInv, Layers, All
  <2>3. places \subseteq Paths
    <3>1. \A l \in Layers : DOMAIN tree[l] \subseteq Paths
      BY <2>1, <2>2 DEF IsTree, Paths
    <3>2. <<>> \in Paths
      BY DEF Paths
    <3> QED
      BY <3>1, <3>2
  <2>4. ASSUME NEW p \in places
        PROVE  /\ {Append(p, n) : n \in DOMAIN ls(p)} = {q \in places \ {<<>>} : Parent(q) = p}
               /\ \A n \in DOMAIN ls(p) : ls(p)[n] = SeenDir(Append(p, n))
    <3>1. p \in Paths
      BY <2>3, <2>4
    <3>2. /\ DOMAIN ls(p) = {n \in Names : \E l \in Layers : Append(p, n) \in DOMAIN tree[l]}
          /\ \A n \in DOMAIN ls(p) : ls(p)[n] = SeenDir(Append(p, n))
      BY <3>1, LsFacts, Zenon
    <3>3. ASSUME NEW n \in DOMAIN ls(p)
          PROVE  Append(p, n) \in {q \in places \ {<<>>} : Parent(q) = p}
      <4>1. n \in Names /\ \E l \in Layers : Append(p, n) \in DOMAIN tree[l]
        BY <3>2, <3>3, Zenon
      <4>2. Append(p, n) # <<>> /\ Parent(Append(p, n)) = p
        BY <3>1, <4>1, ChildFacts
      <4> QED
        BY <4>1, <4>2
    <3>4. ASSUME NEW q \in places \ {<<>>}, Parent(q) = p
          PROVE  \E n \in DOMAIN ls(p) : q = Append(p, n)
      <4>1. q \in Paths /\ q # <<>> /\ \E l \in Layers : q \in DOMAIN tree[l]
        BY <2>3, <3>4
      <4>2. Name(q) \in Names /\ q = Append(p, Name(q))
        BY <3>4, <4>1, PathFacts
      <4> HIDE DEF places
      <4> QED
        BY <3>2, <4>1, <4>2, Zenon
    <3> HIDE DEF places
    <3> QED
      BY <3>2, <3>3, <3>4, Zenon
  <2> QED
    BY <2>1, <2>4, Zenon DEF LsAgrees
<1> QED
  BY <1>1, VfsKept, PTL

-----------------------------------------------------------------------------
(* Writing and removing *)

\* A command changes the tree at mount_root and the one in memory.
LEMMA ChangeFacts ==
  ASSUME VfsInv, NEW d, NEW m, Change(d, m)
  PROVE  /\ root' = root /\ tree'["memory"] = m
         /\ root # "none" => tree'[root] = d
<1>1. /\ root' = root
      /\ tree' = [l \in DOMAIN tree |-> CASE l = "memory" -> m [] l = root -> d [] OTHER -> tree[l]]
  BY DEF Change
<1>2. "memory" \in DOMAIN tree /\ (root # "none" => root \in DOMAIN tree /\ root # "memory")
  BY DEF VfsInv, All
<1> QED
  BY <1>1, <1>2

\* After rm -r no layer has anything at the path or below it but the golden
\* rootfs, where that is not what the session writes to.
THEOREM RemovedStaysGone == Spec => RemovedIsGone
<1> DEFINE Gone(t) ==
      rm(t, TRUE, FALSE) =>
         \A l \in Layers : \A q \in DOMAIN tree'[l] :
            Above(resolve(t), q) => l = "golden" /\ root # "golden"
<1>1. ASSUME VfsInv, NEW t \in Targets PROVE Gone(t)
  <2> SUFFICES ASSUME rm(t, TRUE, FALSE), NEW l \in Layers, NEW q \in DOMAIN tree'[l],
                      Above(resolve(t), q), ~(l = "golden" /\ root # "golden")
               PROVE  FALSE
    OBVIOUS
  <2>1. /\ tree'["memory"] = Removed(tree["memory"], resolve(t), TRUE)
        /\ root # "none" => tree'[root] = Removed(Disk, resolve(t), TRUE)
    BY <1>1, ChangeFacts, Zenon DEF rm
  <2>2. \A u : Removed(u, resolve(t), TRUE) = Without(u, resolve(t))
    BY DEF Removed
  <2>3. l = "memory" \/ (l = root /\ root # "none")
    BY DEF Layers
  <2>4. tree'[l] = Without(tree["memory"], resolve(t)) \/ tree'[l] = Without(Disk, resolve(t))
    BY <2>1, <2>2, <2>3, Zenon
  <2>5. \A u : \A r \in DOMAIN Without(u, resolve(t)) : ~Above(resolve(t), r)
    BY DEF Without
  <2> QED
    BY <2>4, <2>5, Zenon
<1>2. VfsInv => \A t \in Targets : Gone(t)
  BY <1>1, Zenon
<1>3. VfsInv /\ [Next]_vars => [\A t \in Targets : Gone(t)]_vars
  BY <1>2, Zenon
<1> QED
  BY <1>3, VfsKept, PTL DEF Spec, RemovedIsGone

\* What a session with a sandbox writes it reads back: write_file makes the file
\* in the layer that is looked at first, unless a file is in the way above it or
\* a directory in its place.
THEOREM WritesAreRead == Spec => ReadYourWrites
<1> DEFINE Read(t, l) ==
      /\ root # "none"
      /\ write_file(t, <<l>>, FALSE)
      /\ ~SeenDir(resolve(t))
      /\ \A q \in Upto(Parent(resolve(t))) : SeenDir(q)
      => SeenFile(resolve(t), <<l>>)'
<1>1. ASSUME VfsInv, NEW t \in Targets, NEW l \in Lines PROVE Read(t, l)
  <2> DEFINE p == resolve(t)
             disk == tree[root]
             u == CreateDirAll(disk, Parent(p))
             node == File(<<l>>)
  <2> SUFFICES ASSUME root # "none", write_file(t, <<l>>, FALSE), ~SeenDir(p),
                      \A q \in Upto(Parent(p)) : SeenDir(q)
               PROVE  SeenFile(resolve(t), <<l>>)'
    OBVIOUS
  <2>1. /\ p \in Paths /\ Operand(p) /\ IsTree(disk) /\ Disk = disk
    BY <1>1, ResolvePath DEF write_file, VfsInv, Disk, All
  <2>2. p # <<>> /\ Parent(p) \in Paths /\ Len(Parent(p)) < Len(p)
    BY <1>1, <2>1, OperandFacts, PathFacts
  <2>3. root' = root /\ tree'[root] = DiskWritten(disk, p, <<l>>, FALSE)
    BY <1>1, <2>1, ChangeFacts, Zenon DEF write_file
  <2>4. ASSUME NEW q, Exists(disk, q) PROVE SeenDir(q) = IsDir(disk, q)
    BY <2>4 DEF SeenDir, Top, First, Layers
  <2> HIDE DEF p, disk
  <2>5. \A q \in Upto(Parent(p)) : ~IsFile(disk, q)
    BY <2>4, Zenon DEF IsFile, IsDir
  <2>6. /\ IsDir(u, Parent(p)) /\ IsTree(u)
        /\ \A q \in Paths \ Upto(Parent(p)) : /\ Exists(u, q) = Exists(disk, q)
                                              /\ Exists(disk, q) => Node(u, q) = Node(disk, q)
    BY <2>1, <2>2, <2>5, CreateFacts, Zenon
  <2>7. p \notin Upto(Parent(p))
    BY <2>1, <2>2, UptoFacts
  <2> HIDE DEF u
  <2>8. ~IsDir(u, p)
    BY <2>1, <2>4, <2>6, <2>7, Zenon DEF IsDir
  <2>9. DiskWritten(disk, p, <<l>>, FALSE) = With(u, p, node)
    BY <2>6, <2>8 DEF DiskWritten, Written, u
  <2>10. p \in DOMAIN With(u, p, node) /\ With(u, p, node)[p] = node
    BY DEF With
  <2>11. Exists(tree'[root], p) /\ Node(tree'[root], p) = node /\ IsFile(tree'[root], p)
    <3>1. p \in DOMAIN tree'[root] /\ tree'[root][p] = node
      BY <2>3, <2>9, <2>10, Zenon
    <3>2. Exists(tree'[root], p) /\ Node(tree'[root], p) = node
      BY <2>2, <3>1, Zenon DEF Exists, Node
    <3>3. node.dir = FALSE
      BY DEF File
    <3> QED
      BY <3>2, <3>3 DEF IsFile
  <2>12. resolve(t)' = resolve(t)
    <3> DEFINE R(b) == LET parts[i \in 0..Len(t.comps)] ==
                               IF i = 0 THEN b ELSE Component(parts[i - 1], t.comps[i])
                       IN  parts[Len(t.comps)]
    <3>1. resolve(t) = R(Base(t)) /\ resolve(t)' = R(Base(t)')
      BY DEF resolve
    <3>2. Base(t)' = Base(t)
      BY DEF Base, write_file, Change
    <3> HIDE DEF R
    <3> QED
      BY <3>1, <3>2
  <2>13. /\ root' # "none" /\ Exists(tree'[root'], resolve(t)')
         /\ IsFile(tree'[root'], resolve(t)') /\ Node(tree'[root'], resolve(t)') = File(<<l>>)
    BY <2>3, <2>11, <2>12, Zenon DEF p
  <2> QED
    BY <2>13, Zenon DEF SeenFile, Top, First, Layers
<1>2. VfsInv => \A t \in Targets : \A l \in Lines : Read(t, l)
  BY <1>1, Zenon
<1>3. VfsInv /\ [Next]_vars => [\A t \in Targets : \A l \in Lines : Read(t, l)]_vars
  BY <1>2, Zenon
<1> QED
  BY <1>3, VfsKept, PTL DEF Spec, ReadYourWrites

-----------------------------------------------------------------------------
(* What a path means *)

\* The names, or the "..", among the components i to j.
Tally(s, i, j, dots) == Cardinality({k \in i..j : s[k] # "." /\ ((s[k] = "..") = dots)})

\* By how much the names outnumber the ".." after the i-th of n components.
Balance(s, i, n) == Tally(s, i + 1, n, FALSE) - Tally(s, i + 1, n, TRUE)

\* Where the names stand that survive the first n components.
Kept(s, n) == {i \in 1..n : s[i] \notin Dots /\ \A j \in i..n : Balance(s, i, j) >= 0}

\* The next component counts, or it does not.
LEMMA TallyStep ==
  ASSUME NEW s, NEW i \in Nat, NEW n \in Nat, i <= n + 1, NEW dots \in BOOLEAN
  PROVE  /\ Tally(s, i, n, dots) \in Nat
         /\ Tally(s, i, n + 1, dots) = Tally(s, i, n, dots)
              + IF s[n + 1] # "." /\ ((s[n + 1] = "..") = dots) THEN 1 ELSE 0
<1> DEFINE P(k) == s[k] # "." /\ ((s[k] = "..") = dots)
           S == {k \in i..n : P(k)}
           T == {k \in i..(n + 1) : P(k)}
<1>1. IsFiniteSet(S) /\ Cardinality(S) \in Nat
  <2>1. IsFiniteSet(i..n)
    BY FS_Interval
  <2>2. S \subseteq i..n
    OBVIOUS
  <2> HIDE DEF S
  <2> QED
    BY <2>1, <2>2, FS_Subset, FS_CardinalityType, Zenon
<1>2. Tally(s, i, n, dots) = Cardinality(S) /\ Tally(s, i, n + 1, dots) = Cardinality(T)
  BY Zenon DEF Tally
<1>3. n + 1 \notin S /\ i..(n + 1) = (i..n) \cup {n + 1}
  OBVIOUS
<1> HIDE DEF P
<1>4. CASE P(n + 1)
  <2>1. T = S \cup {n + 1}
    BY <1>3, <1>4, Zenon
  <2> HIDE DEF S, T
  <2>2. Cardinality(T) = Cardinality(S) + 1
    BY <1>1, <1>3, <2>1, FS_AddElement
  <2> QED
    BY <1>1, <1>2, <1>4, <2>2 DEF P
<1>5. CASE ~P(n + 1)
  <2>1. T = S
    BY <1>3, <1>5, Zenon
  <2> HIDE DEF S, T
  <2> QED
    BY <1>1, <1>2, <1>5, <2>1 DEF P
<1> QED
  BY <1>4, <1>5

\* A name adds to the balance, ".." takes from it, "." does not count.
LEMMA BalanceStep ==
  ASSUME NEW s, NEW n \in Nat, NEW i \in 0..n
  PROVE  /\ Balance(s, i, n) \in Int
         /\ Balance(s, i, n + 1) = CASE s[n + 1] = "."  -> Balance(s, i, n)
                                     [] s[n + 1] = ".." -> Balance(s, i, n) - 1
                                     [] OTHER           -> Balance(s, i, n) + 1
<1>1. i + 1 \in Nat /\ i + 1 <= n + 1
  OBVIOUS
<1> DEFINE a == Tally(s, i + 1, n, FALSE)
           b == Tally(s, i + 1, n, TRUE)
           c == Tally(s, i + 1, n + 1, FALSE)
           d == Tally(s, i + 1, n + 1, TRUE)
<1>2. a \in Nat /\ c = a + IF s[n + 1] # "." /\ ((s[n + 1] = "..") = FALSE) THEN 1 ELSE 0
  BY <1>1, TallyStep, Zenon
<1>3. b \in Nat /\ d = b + IF s[n + 1] # "." /\ ((s[n + 1] = "..") = TRUE) THEN 1 ELSE 0
  BY <1>1, TallyStep, Zenon
<1>4. Balance(s, i, n) = a - b /\ Balance(s, i, n + 1) = c - d
  BY DEF Balance
<1> HIDE DEF a, b, c, d
<1> QED
  BY <1>2, <1>3, <1>4

\* Nothing follows the last component.
LEMMA BalanceLast ==
  ASSUME NEW s, NEW n \in Nat
  PROVE  Balance(s, n, n) = 0
<1>1. Tally(s, n + 1, n, FALSE) = 0 /\ Tally(s, n + 1, n, TRUE) = 0
  <2>1. (n + 1)..n = {}
    OBVIOUS
  <2>2. \A dots : {k \in (n + 1)..n : s[k] # "." /\ ((s[k] = "..") = dots)} = {}
    BY <2>1, Zenon
  <2> QED
    BY <2>2, FS_EmptySet, Zenon DEF Tally
<1>2. Balance(s, n, n) = 0 - 0
  BY <1>1, Zenon DEF Balance
<1> QED
  BY <1>2

\* One more component takes back the names that the balance no longer covers.
LEMMA KeptStep ==
  ASSUME NEW s, NEW n \in Nat
  PROVE  Kept(s, n + 1) = {i \in Kept(s, n) : Balance(s, i, n + 1) >= 0}
                            \cup (IF s[n + 1] \in Dots THEN {} ELSE {n + 1})
<1>1. ASSUME NEW i \in 1..n
      PROVE  i \in Kept(s, n + 1) <=> i \in Kept(s, n) /\ Balance(s, i, n + 1) >= 0
  <2>1. i..(n + 1) = (i..n) \cup {n + 1} /\ i \in 1..(n + 1)
    OBVIOUS
  <2> QED
    BY <1>1, <2>1, Zenon DEF Kept
<1>2. n + 1 \in Kept(s, n + 1) <=> s[n + 1] \notin Dots
  <2>1. (n + 1)..(n + 1) = {n + 1} /\ n + 1 \in 1..(n + 1)
    OBVIOUS
  <2>2. Balance(s, n + 1, n + 1) >= 0
    BY BalanceLast
  <2> QED
    BY <2>1, <2>2, Zenon DEF Kept
<1>3. /\ Kept(s, n + 1) \subseteq (1..n) \cup {n + 1} /\ Kept(s, n) \subseteq 1..n
      /\ n + 1 \notin 1..n
  BY DEF Kept
<1> QED
  BY <1>1, <1>2, <1>3

\* The names of the path p are the ones that survive the first n components: the
\* k-th of them stands at w[k], and as many names outweigh the ".." behind it as
\* there are names above it.
Stacked(s, n, p, w) ==
    /\ w \in [1..Len(p) -> 1..n]
    /\ \A j, k \in 1..Len(p) : j < k => w[j] < w[k]
    /\ Kept(s, n) = {w[k] : k \in 1..Len(p)}
    /\ \A k \in 1..Len(p) : s[w[k]] = p[k] /\ Balance(s, w[k], n) = Len(p) - k

\* resolve goes over "." and stays where it is.
LEMMA StackDot ==
  ASSUME NEW s, NEW n \in Nat, NEW p \in Paths, NEW w, Stacked(s, n, p, w), s[n + 1] = "."
  PROVE  Stacked(s, n + 1, p, w)
<1>1. Len(p) \in Nat
  BY PathFacts
<1>2. /\ w \in [1..Len(p) -> 1..n] /\ Kept(s, n) = {w[k] : k \in 1..Len(p)}
      /\ \A k \in 1..Len(p) : s[w[k]] = p[k] /\ Balance(s, w[k], n) = Len(p) - k
      /\ \A j, k \in 1..Len(p) : j < k => w[j] < w[k]
  BY Zenon DEF Stacked
<1>3. ASSUME NEW k \in 1..Len(p)
      PROVE  Balance(s, w[k], n + 1) = Len(p) - k
  <2>1. w[k] \in 0..n
    BY <1>2
  <2> QED
    BY <1>2, <2>1, BalanceStep
<1>4. \A k \in 1..Len(p) : Balance(s, w[k], n + 1) >= 0
  BY <1>1, <1>3
<1>5. Kept(s, n + 1) = {w[k] : k \in 1..Len(p)}
  <2>1. "." \in Dots
    BY DEF Dots
  <2>2. Kept(s, n + 1) = {i \in Kept(s, n) : Balance(s, i, n + 1) >= 0}
    BY <2>1, KeptStep
  <2> QED
    BY <1>2, <1>4, <2>2, Zenon
<1>6. w \in [1..Len(p) -> 1..(n + 1)]
  BY <1>2
<1> QED
  BY <1>2, <1>3, <1>5, <1>6, Zenon DEF Stacked

\* A name is pushed on top.
LEMMA StackName ==
  ASSUME NEW s, NEW n \in Nat, NEW p \in Paths, NEW w, Stacked(s, n, p, w), s[n + 1] \notin Dots
  PROVE  \E v : Stacked(s, n + 1, Append(p, s[n + 1]), v)
<1> DEFINE m == Len(p)
           q == Append(p, s[n + 1])
           v == [k \in 1..(m + 1) |-> IF k = m + 1 THEN n + 1 ELSE w[k]]
<1>1. m \in Nat
  BY PathFacts
<1>2. /\ w \in [1..m -> 1..n] /\ Kept(s, n) = {w[k] : k \in 1..m}
      /\ \A k \in 1..m : s[w[k]] = p[k] /\ Balance(s, w[k], n) = m - k
      /\ \A j, k \in 1..m : j < k => w[j] < w[k]
  BY Zenon DEF Stacked
<1>3. Len(q) = m + 1 /\ q[m + 1] = s[n + 1] /\ \A k \in 1..m : q[k] = p[k]
  <2>1. p \in Seq(Names)
    BY DEF Paths
  <2> QED
    BY <2>1
<1> HIDE DEF m, q
<1>4. /\ \A k \in 1..m : k \in 1..(m + 1) /\ k # m + 1 /\ k < m + 1
      /\ 1..(m + 1) = (1..m) \cup {m + 1}
      /\ \A j \in 1..(m + 1) : ~(m + 1 < j)
  BY <1>1
<1>5. v[m + 1] = n + 1 /\ \A k \in 1..m : v[k] = w[k]
  BY <1>4
<1>6. v \in [1..(m + 1) -> 1..(n + 1)]
  BY <1>1, <1>2
<1> HIDE DEF v
<1>7. \A k \in 1..m : w[k] \in 0..n /\ w[k] < n + 1
  BY <1>2
<1>8. ASSUME NEW k \in 1..m
      PROVE  Balance(s, w[k], n + 1) = m + 1 - k
  <2>1. s[n + 1] # "." /\ s[n + 1] # ".."
    BY DEF Dots
  <2>2. w[k] \in 0..n /\ Balance(s, w[k], n) = m - k
    BY <1>2, <1>7
  <2>3. Balance(s, w[k], n + 1) = Balance(s, w[k], n) + 1
    BY <2>1, <2>2, BalanceStep
  <2> QED
    BY <1>1, <2>2, <2>3
<1>9. Balance(s, n + 1, n + 1) = m + 1 - (m + 1)
  BY <1>1, BalanceLast
<1>10. \A k \in 1..m : Balance(s, w[k], n + 1) >= 0
  BY <1>1, <1>8
<1>11. Kept(s, n + 1) = {v[k] : k \in 1..(m + 1)}
  <2>1. Kept(s, n + 1) = {i \in Kept(s, n) : Balance(s, i, n + 1) >= 0} \cup {n + 1}
    BY KeptStep
  <2>2. Kept(s, n + 1) = {w[k] : k \in 1..m} \cup {n + 1}
    BY <1>2, <1>10, <2>1, Zenon
  <2> QED
    BY <1>4, <1>5, <2>2
<1>12. \A j, k \in 1..(m + 1) : j < k => v[j] < v[k]
  BY <1>2, <1>4, <1>5, <1>7, Zenon
<1>13. \A k \in 1..(m + 1) : s[v[k]] = q[k] /\ Balance(s, v[k], n + 1) = m + 1 - k
  BY <1>2, <1>3, <1>4, <1>5, <1>8, <1>9, Zenon
<1>14. Stacked(s, n + 1, q, v)
  <2>1. m + 1 = Len(q)
    BY <1>3
  <2>2. v \in [1..Len(q) -> 1..(n + 1)] /\ Kept(s, n + 1) = {v[k] : k \in 1..Len(q)}
    BY <1>6, <1>11, <2>1
  <2>3. \A j, k \in 1..Len(q) : j < k => v[j] < v[k]
    BY <1>12, <2>1
  <2>4. ASSUME NEW k \in 1..Len(q)
        PROVE  s[v[k]] = q[k] /\ Balance(s, v[k], n + 1) = Len(q) - k
    <3>1. k \in 1..(m + 1) /\ m + 1 - k = Len(q) - k
      BY <1>1, <2>1
    <3> QED
      BY <1>13, <3>1, Zenon
  <2> QED
    BY <2>2, <2>3, <2>4, Zenon DEF Stacked
<1> QED
  BY <1>14, Zenon DEF q

\* ".." takes the top away; only that name's balance was not above zero.
LEMMA StackUp ==
  ASSUME NEW s, NEW n \in Nat, NEW p \in Paths, p # <<>>, NEW w, Stacked(s, n, p, w), s[n + 1] = ".."
  PROVE  \E v : Stacked(s, n + 1, Parent(p), v)
<1> DEFINE m == Len(p)
           q == Parent(p)
           v == [k \in 1..(m - 1) |-> w[k]]
<1>1. m \in Nat \ {0} /\ Len(q) = m - 1 /\ \A k \in 1..(m - 1) : q[k] = p[k]
  BY PathFacts
<1>2. /\ w \in [1..m -> 1..n] /\ Kept(s, n) = {w[k] : k \in 1..m}
      /\ \A k \in 1..m : s[w[k]] = p[k] /\ Balance(s, w[k], n) = m - k
      /\ \A j, k \in 1..m : j < k => w[j] < w[k]
  BY Zenon DEF Stacked
<1> HIDE DEF m, q
<1>4. 1..m = (1..(m - 1)) \cup {m} /\ \A k \in 1..(m - 1) : k \in 1..m /\ k # m
  BY <1>1
<1>5. \A k \in 1..(m - 1) : v[k] = w[k]
  OBVIOUS
<1>6. v \in [1..(m - 1) -> 1..(n + 1)]
  BY <1>1, <1>2
<1> HIDE DEF v
<1>8. ASSUME NEW k \in 1..m
      PROVE  Balance(s, w[k], n + 1) = m - 1 - k
  <2>1. w[k] \in 0..n /\ Balance(s, w[k], n) = m - k
    BY <1>2
  <2>2. Balance(s, w[k], n + 1) = Balance(s, w[k], n) - 1
    BY <2>1, BalanceStep
  <2> QED
    BY <1>1, <2>1, <2>2
<1>10. (\A k \in 1..(m - 1) : Balance(s, w[k], n + 1) >= 0) /\ ~(Balance(s, w[m], n + 1) >= 0)
  BY <1>1, <1>8
<1>11. Kept(s, n + 1) = {v[k] : k \in 1..(m - 1)}
  <2>1. ".." \in Dots
    BY DEF Dots
  <2>2. Kept(s, n + 1) = {i \in Kept(s, n) : Balance(s, i, n + 1) >= 0}
    BY <2>1, KeptStep
  <2>3. Kept(s, n + 1) = {w[k] : k \in 1..(m - 1)}
    <3>1. ASSUME NEW i \in Kept(s, n + 1)
          PROVE  i \in {w[k] : k \in 1..(m - 1)}
      <4>1. PICK k \in 1..m : i = w[k]
        BY <1>2, <2>2, <3>1, Zenon
      <4>2. k # m
        BY <1>10, <2>2, <3>1, <4>1, Zenon
      <4> QED
        BY <1>4, <4>1, <4>2, Zenon
    <3>2. \A k \in 1..(m - 1) : w[k] \in Kept(s, n + 1)
      BY <1>2, <1>4, <1>10, <2>2, Zenon
    <3> QED
      BY <3>1, <3>2, Zenon
  <2> QED
    BY <1>5, <2>3
<1>12. \A j, k \in 1..(m - 1) : j < k => v[j] < v[k]
  BY <1>2, <1>4, <1>5, Zenon
<1>13. \A k \in 1..(m - 1) : s[v[k]] = q[k] /\ Balance(s, v[k], n + 1) = m - 1 - k
  BY <1>1, <1>2, <1>4, <1>5, <1>8, Zenon
<1>14. Stacked(s, n + 1, q, v)
  <2>1. m - 1 = Len(q)
    BY <1>1
  <2>2. v \in [1..Len(q) -> 1..(n + 1)] /\ Kept(s, n + 1) = {v[k] : k \in 1..Len(q)}
    BY <1>6, <1>11, <2>1
  <2>3. \A j, k \in 1..Len(q) : j < k => v[j] < v[k]
    BY <1>12, <2>1
  <2>4. \A k \in 1..Len(q) : s[v[k]] = q[k] /\ Balance(s, v[k], n + 1) = Len(q) - k
    BY <1>13, <2>1, Zenon
  <2> QED
    BY <2>2, <2>3, <2>4, Zenon DEF Stacked
<1> QED
  BY <1>14, Zenon DEF q

\* ".." in the root changes nothing.
LEMMA StackRoot ==
  ASSUME NEW s, NEW n \in Nat, NEW w, Stacked(s, n, <<>>, w), s[n + 1] = ".."
  PROVE  Stacked(s, n + 1, <<>>, w)
<1> DEFINE m == Len(<<>>)
<1>1. 1..m = {}
  OBVIOUS
<1>2. w \in [1..m -> 1..n] /\ Kept(s, n) = {w[k] : k \in 1..m}
  BY Zenon DEF Stacked
<1> HIDE DEF m
<1>3. w \in [1..m -> 1..(n + 1)]
  BY <1>1, <1>2
<1>4. ".." \in Dots
  BY DEF Dots
<1>5. Kept(s, n + 1) = {i \in Kept(s, n) : Balance(s, i, n + 1) >= 0}
  BY <1>4, KeptStep
<1>6. Kept(s, n + 1) = {w[k] : k \in 1..m}
  BY <1>1, <1>2, <1>5, Zenon
<1> QED
  BY <1>1, <1>3, <1>6, Zenon DEF Stacked, m

\* One turn of resolve's loop keeps the path and the surviving names together.
LEMMA StackStep ==
  ASSUME NEW s, NEW n \in Nat, NEW p \in Paths, NEW w, Stacked(s, n, p, w)
  PROVE  \E v : Stacked(s, n + 1, Component(p, s[n + 1]), v)
<1> DEFINE c == s[n + 1]
<1>1. CASE c = "."
  <2>1. Component(p, c) = p
    BY <1>1 DEF Component
  <2> QED
    BY <1>1, <2>1, StackDot, Zenon
<1>2. CASE c = ".." /\ p = <<>>
  <2>1. Component(p, c) = <<>>
    BY <1>2 DEF Component
  <2> QED
    BY <1>2, <2>1, StackRoot, Zenon
<1>3. CASE c = ".." /\ p # <<>>
  <2>1. Component(p, c) = Parent(p)
    BY <1>3 DEF Component
  <2> QED
    BY <1>3, <2>1, StackUp, Zenon
<1>4. CASE c \notin Dots
  <2>1. Component(p, c) = Append(p, c)
    BY <1>4 DEF Component, Dots
  <2> QED
    BY <1>4, <2>1, StackName, Zenon
<1> QED
  BY <1>1, <1>2, <1>3, <1>4 DEF Dots

\* The path that resolve starts from has no dots: all its names survive.
LEMMA StackBase ==
  ASSUME NEW s, NEW p \in Paths, \A i \in 1..Len(p) : s[i] = p[i]
  PROVE  \E w : Stacked(s, Len(p), p, w)
<1> DEFINE m == Len(p)
           w == [k \in 1..m |-> k]
<1>1. m \in Nat /\ \A i \in 1..m : s[i] \notin Dots /\ s[i] # "." /\ s[i] # ".."
  <2>1. m \in Nat /\ \A i \in 1..m : p[i] \in Names
    BY DEF Paths
  <2> QED
    BY <2>1 DEF Names, Dots
<1> HIDE DEF m
<1>2. ASSUME NEW i \in 1..m, NEW j \in i..m
      PROVE  Balance(s, i, j) = j - i
  <2>1. {k \in (i + 1)..j : s[k] # "." /\ ((s[k] = "..") = FALSE)} = (i + 1)..j
    <3>1. \A k \in (i + 1)..j : k \in 1..m
      BY <1>1
    <3> QED
      BY <1>1, <3>1, Zenon
  <2>2. {k \in (i + 1)..j : s[k] # "." /\ ((s[k] = "..") = TRUE)} = {}
    <3>1. \A k \in (i + 1)..j : k \in 1..m
      BY <1>1
    <3> QED
      BY <1>1, <3>1, Zenon
  <2>3. Cardinality((i + 1)..j) = j - i
    <3>1. i + 1 \in Int /\ j \in Int /\ i <= j
      BY <1>1
    <3>2. Cardinality((i + 1)..j) = IF i + 1 > j THEN 0 ELSE j - (i + 1) + 1
      BY <3>1, FS_Interval
    <3> QED
      BY <3>1, <3>2
  <2>4. Balance(s, i, j) = (j - i) - 0
    BY <2>1, <2>2, <2>3, FS_EmptySet, Zenon DEF Balance, Tally
  <2> QED
    BY <1>1, <2>4
<1>3. ASSUME NEW i \in 1..m, NEW j \in i..m
      PROVE  Balance(s, i, j) >= 0
  BY <1>1, <1>2
<1>4. Kept(s, m) = 1..m
  BY <1>1, <1>3, Zenon DEF Kept
<1>5. w \in [1..m -> 1..m] /\ \A k \in 1..m : w[k] = k
  OBVIOUS
<1> HIDE DEF w
<1>6. \A k \in 1..m : m \in k..m
  BY <1>1
<1>7. 1..m = {w[k] : k \in 1..m}
  BY <1>5
<1>8. \A k \in 1..m : s[w[k]] = p[k] /\ Balance(s, w[k], m) = m - k
  BY <1>2, <1>5, <1>6, Zenon DEF m
<1>9. \A j, k \in 1..m : j < k => w[j] < w[k]
  BY <1>5, Zenon
<1>10. Stacked(s, m, p, w)
  BY <1>4, <1>5, <1>7, <1>8, <1>9, Zenon DEF Stacked, m
<1> QED
  BY <1>10, Zenon DEF m

\* What resolve returns, whatever the path typed: the names that survive it.
LEMMA ResolveStacked ==
  ASSUME NEW t \in Targets, current_path \in Paths
  PROVE  LET s == Base(t) \o t.comps
         IN  resolve(t) \in Paths /\ \E w : Stacked(s, Len(s), resolve(t), w)
<1> DEFINE s == Base(t) \o t.comps
           b == Len(Base(t))
           n == Len(t.comps)
<1>1. Base(t) \in Paths /\ t.comps \in Seq(STRING) /\ n \in Nat
  BY BaseFacts
<1>2. b \in Nat
  BY <1>1 DEF Paths
<1>3. Len(s) = b + n /\ (\A i \in 1..b : s[i] = Base(t)[i]) /\ \A i \in 1..n : s[b + i] = t.comps[i]
  <2>1. Base(t) \in Seq(STRING)
    BY <1>1 DEF Paths, Names
  <2> QED
    BY <1>1, <2>1
<1>4. PICK f : /\ resolve(t) = f[n] /\ f[0] = Base(t)
               /\ \A i \in 0..n : f[i] \in Paths
               /\ \A i \in 1..n : f[i] = Component(f[i - 1], t.comps[i])
  BY ResolveFacts, Zenon
<1>5. \E w : Stacked(s, b, Base(t), w)
  BY <1>1, <1>3, StackBase, Zenon
<1> HIDE DEF s, b, n
<1> DEFINE Bad == {i \in 0..n : ~ \E w : Stacked(s, b + i, f[i], w)}
<1>6. Bad = {}
  <2> SUFFICES ASSUME Bad # {} PROVE FALSE
    OBVIOUS
  <2>1. PICK k \in Bad : \A j \in Bad : k <= j
    <3>1. Bad \in SUBSET Nat
      BY <1>1
    <3> HIDE DEF Bad
    <3> QED
      BY <3>1, LeastNatural, Zenon
  <2>2. k \in 0..n /\ ~ \E w : Stacked(s, b + k, f[k], w)
    BY <2>1, Zenon
  <2>3. k # 0
    <3>1. b + 0 = b
      BY <1>2
    <3> QED
      BY <1>4, <1>5, <2>2, <3>1, Zenon
  <2>4. k \in 1..n /\ k - 1 \in 0..n /\ ~(k <= k - 1) /\ b + (k - 1) \in Nat /\ b + (k - 1) + 1 = b + k
    BY <1>1, <1>2, <2>2, <2>3
  <2>5. PICK w : Stacked(s, b + (k - 1), f[k - 1], w)
    BY <2>1, <2>4, Zenon
  <2>6. f[k - 1] \in Paths /\ f[k] = Component(f[k - 1], s[b + k])
    BY <1>3, <1>4, <2>4, Zenon
  <2>7. \E v : Stacked(s, b + (k - 1) + 1, Component(f[k - 1], s[b + (k - 1) + 1]), v)
    BY <2>4, <2>5, <2>6, StackStep, Zenon
  <2>8. \E v : Stacked(s, b + k, f[k], v)
    BY <2>4, <2>6, <2>7, Zenon
  <2> QED
    BY <2>2, <2>8, Zenon
<1>7. n \in 0..n
  BY <1>1
<1>8. \E w : Stacked(s, b + n, f[n], w)
  BY <1>6, <1>7, Zenon
<1> QED
  BY <1>3, <1>4, <1>7, <1>8, Zenon DEF s

\* An increasing list has as many values up to the k-th as its rank says.
LEMMA Ranked ==
  ASSUME NEW m \in Nat, NEW w \in [1..m -> Nat], \A i, j \in 1..m : i < j => w[i] < w[j],
         NEW k \in 0..m
  PROVE  Cardinality({w[i] : i \in 1..k}) = k
<1> DEFINE S == {w[i] : i \in 1..k}
           g == [i \in 1..k |-> w[i]]
<1>1. k \in Nat /\ \A i \in 1..k : i \in 1..m
  OBVIOUS
<1>2. g \in [1..k -> S]
  OBVIOUS
<1>3. \A i, j \in 1..k : g[i] = g[j] => i = j
  <2> SUFFICES ASSUME NEW i \in 1..k, NEW j \in 1..k, g[i] = g[j]
               PROVE  i = j
    OBVIOUS
  <2>1. i \in 1..m /\ j \in 1..m /\ w[i] = w[j] /\ w[i] \in Nat /\ w[j] \in Nat
    BY <1>1
  <2>2. ~(i < j) /\ ~(j < i)
    BY <2>1
  <2> QED
    BY <2>2
<1>4. \A x \in S : \E i \in 1..k : g[i] = x
  OBVIOUS
<1>5. DOMAIN g = 1..k
  OBVIOUS
<1> HIDE DEF g, S
<1>6. g \in Bijection(1..k, S)
  BY <1>2, <1>3, <1>4, <1>5, Zenon DEF Bijection, Injection, Surjection, IsInjective
<1>7. ExistsBijection(1..k, S)
  BY <1>6 DEF ExistsBijection
<1>8. Cardinality(S) = k
  BY <1>1, <1>7, FS_CountingElements
<1> QED
  BY <1>8 DEF S

\* The names that survive, counted in either of the two ways.
LEMMA SurvivingKept ==
  ASSUME NEW s, Len(s) \in Nat
  PROVE  Surviving(s) = Kept(s, Len(s))
<1> DEFINE n == Len(s)
<1>1. ASSUME NEW i \in 1..n, NEW j \in i..n
      PROVE  Balance(s, i, j) >= 0 <=> Tally(s, i + 1, j, TRUE) <= Tally(s, i + 1, j, FALSE)
  <2>1. i + 1 \in Nat /\ j \in Nat /\ i + 1 <= j + 1
    OBVIOUS
  <2> DEFINE a == Tally(s, i + 1, j, FALSE)
             b == Tally(s, i + 1, j, TRUE)
  <2>2. a \in Nat /\ b \in Nat
    BY <2>1, TallyStep, Zenon
  <2>3. Balance(s, i, j) = a - b
    BY Zenon DEF Balance
  <2> HIDE DEF a, b
  <2>4. Balance(s, i, j) >= 0 <=> b <= a
    BY <2>2, <2>3
  <2> QED
    BY <2>4, Zenon DEF a, b
<1>2. Surviving(s) = {i \in 1..n : /\ s[i] \notin Dots
                                  /\ \A j \in i..n : Tally(s, i + 1, j, TRUE) <= Tally(s, i + 1, j, FALSE)}
  BY Zenon DEF Surviving, Tally
<1> QED
  BY <1>1, <1>2, Zenon DEF Kept

\* A resolved path holds exactly the names that no later ".." takes back, in the
\* order in which the current path and the typed one give them, whatever the mix of
\* names, "." and ".." typed (Vfs::resolve's loop over the components).
LEMMA NormalPath ==
  ASSUME VfsInv
  PROVE  ResolveNormal
<1> SUFFICES ASSUME NEW t \in Targets
             PROVE  LET s    == Base(t) \o t.comps
                        kept == Surviving(s)
                    IN  /\ Len(resolve(t)) = Cardinality(kept)
                        /\ \A i \in kept : resolve(t)[Cardinality({j \in kept : j <= i})] = s[i]
  BY Zenon DEF ResolveNormal
<1> DEFINE s == Base(t) \o t.comps
           p == resolve(t)
           m == Len(p)
           kept == Surviving(s)
<1>1. current_path \in Paths
  BY DEF VfsInv
<1>2. p \in Paths /\ \E w : Stacked(s, Len(s), p, w)
  BY <1>1, ResolveStacked, Zenon
<1>3. Len(s) \in Nat
  <2>1. Base(t) \in Seq(STRING) /\ t.comps \in Seq(STRING)
    BY <1>1, BaseFacts DEF Paths, Names
  <2> QED
    BY <2>1
<1>4. m \in Nat
  BY <1>2 DEF Paths
<1>5. PICK w : Stacked(s, Len(s), p, w)
  BY <1>2, Zenon
<1>6. kept = Kept(s, Len(s))
  BY <1>3, SurvivingKept, Zenon
<1> HIDE DEF s, p, m, kept
<1>7. /\ w \in [1..m -> 1..Len(s)] /\ kept = {w[k] : k \in 1..m}
      /\ \A k \in 1..m : s[w[k]] = p[k]
      /\ \A j, k \in 1..m : j < k => w[j] < w[k]
  BY <1>5, <1>6, Zenon DEF Stacked, m
<1>8. w \in [1..m -> Nat]
  BY <1>3, <1>7
<1>9. Cardinality(kept) = m
  <2>1. m \in 0..m
    BY <1>4
  <2> QED
    BY <1>4, <1>7, <1>8, <2>1, Ranked, Zenon
<1>10. ASSUME NEW i \in kept
       PROVE  p[Cardinality({j \in kept : j <= i})] = s[i]
  <2>1. PICK k \in 1..m : i = w[k]
    BY <1>7, Zenon
  <2>2. {j \in kept : j <= i} = {w[h] : h \in 1..k}
    <3>1. ASSUME NEW h \in 1..m
          PROVE  w[h] <= w[k] <=> h \in 1..k
      <4>1. w[h] \in Nat /\ w[k] \in Nat
        BY <1>8, <2>1
      <4>2. CASE h < k
        BY <1>7, <2>1, <4>1, <4>2
      <4>3. CASE h = k
        BY <2>1, <4>1, <4>3
      <4>4. CASE k < h
        BY <1>7, <2>1, <4>1, <4>4
      <4> QED
        BY <2>1, <4>2, <4>3, <4>4
    <3>2. \A h \in 1..k : h \in 1..m
      BY <1>4, <2>1
    <3> QED
      BY <1>7, <2>1, <3>1, <3>2, Zenon
  <2>3. k \in 0..m
    BY <1>4, <2>1
  <2>4. Cardinality({j \in kept : j <= i}) = k
    BY <1>4, <1>7, <1>8, <2>2, <2>3, Ranked, Zenon
  <2> QED
    BY <1>7, <2>1, <2>4, Zenon
<1> QED
  BY <1>9, <1>10, Zenon DEF s, p, m, kept

\* Every path that a command resolves is normal, wherever cd, rm, mkdir and the
\* downloads have led the session (Vfs::resolve).
THEOREM ResolveIsNormal == Spec => []ResolveNormal
BY VfsKept, NormalPath, PTL
=============================================================================
