------------------------ MODULE MetadataStoreProofs ------------------------
(***************************************************************************)
(* Proofs about MetadataStore for every set of names and metadata values   *)
(* and all bounds: its type invariant, that RAM and disk agree, that the   *)
(* store can always be loaded again, that acknowledged changes stay, that  *)
(* the directories on disk stay a tree, that list and stat agree on it,    *)
(* and that seen from outside the store is the durable tree of Namespace.  *)
(***************************************************************************)
EXTENDS MetadataStore, SequenceTheorems, FiniteSetTheorems, TLAPS

-----------------------------------------------------------------------------
(* Paths *)

\* A path is a non-empty sequence of at most MaxDepth components.
LEMMA PathIsSeq ==
    ASSUME NEW p
    PROVE  p \in Path <=> p \in Seq(Component) /\ Len(p) \in 1..MaxDepth
<1>1. ASSUME p \in Path
      PROVE  p \in Seq(Component) /\ Len(p) \in 1..MaxDepth
  <2>1. PICK n \in 1..MaxDepth : p \in [1..n -> Component]
    BY <1>1 DEF Path
  <2>2. n \in Nat
    BY MaxDepthAssumption
  <2> QED
    BY <2>1, <2>2
<1>2. ASSUME p \in Seq(Component), Len(p) \in 1..MaxDepth
      PROVE  p \in Path
  <2>1. p \in [1..Len(p) -> Component]
    BY <1>2
  <2> QED
    BY <1>2, <2>1 DEF Path
<1> QED
  BY <1>1, <1>2

\* A prefix of a path is a path.
LEMMA PrefixInPath ==
    ASSUME NEW p \in Path, NEW k \in 1..Len(p)
    PROVE  SubSeq(p, 1, k) \in Path /\ Len(SubSeq(p, 1, k)) = k
<1>1. p \in Seq(Component) /\ Len(p) \in 1..MaxDepth
  BY PathIsSeq
<1>2. k \in Nat /\ k >= 1 /\ k <= MaxDepth
  BY <1>1, MaxDepthAssumption
<1>3. \A i \in 1..k : p[i] \in Component
  BY <1>1, <1>2
<1>4. SubSeq(p, 1, k) \in Seq(Component) /\ Len(SubSeq(p, 1, k)) = k
  BY <1>2, <1>3, SubSeqProperties
<1>5. Len(SubSeq(p, 1, k)) \in 1..MaxDepth
  BY <1>2, <1>4, MaxDepthAssumption
<1>6. SubSeq(p, 1, k) \in Path
  BY <1>4, <1>5, PathIsSeq
<1> QED
  BY <1>4, <1>6

\* The directories a path goes through are paths.
LEMMA AncestorsInPath ==
    ASSUME NEW p \in Path
    PROVE  Ancestors(p) \subseteq Path
<1>1. Len(p) \in Nat
  BY PathIsSeq, MaxDepthAssumption
<1>2. \A k \in 1..(Len(p) - 1) : SubSeq(p, 1, k) \in Path
  BY <1>1, PrefixInPath
<1> QED
  BY <1>2 DEF Ancestors

\* Two paths below the same directory that are moved to the same place were
\* the same path.
LEMMA RebaseInjective ==
    ASSUME NEW p \in Path, NEW q \in Path, NEW old \in Path, NEW new \in Path,
           Inside(p, old), Inside(q, old), Rebase(p, old, new) = Rebase(q, old, new)
    PROVE  p = q
<1> DEFINE k == Len(old)
           P == SubSeq(p, k + 1, Len(p))
           Q == SubSeq(q, k + 1, Len(q))
<1>1. /\ p \in Seq(Component) /\ q \in Seq(Component) /\ old \in Seq(Component) /\ new \in Seq(Component)
      /\ k \in Nat /\ k <= Len(p) /\ k <= Len(q)
  BY PathIsSeq, MaxDepthAssumption DEF Inside
<1>2. /\ P \in Seq(Component) /\ Len(P) = Len(p) - k
      /\ \A i \in 1..Len(P) : P[i] = p[k + i]
  BY <1>1, SubSeqProperties
<1>3. /\ Q \in Seq(Component) /\ Len(Q) = Len(q) - k
      /\ \A i \in 1..Len(Q) : Q[i] = q[k + i]
  BY <1>1, SubSeqProperties
<1>4. new \o P = new \o Q
  BY DEF Rebase
<1> HIDE DEF P, Q
<1>5. Len(P) = Len(Q) /\ \A i \in 1..Len(P) : P[i] = Q[i]
  <2>1. Len(new \o P) = Len(new) + Len(P) /\ Len(new \o Q) = Len(new) + Len(Q)
    BY <1>1, <1>2, <1>3, ConcatProperties
  <2>0. Len(new) \in Nat /\ Len(P) \in Nat /\ Len(Q) \in Nat
    BY <1>1, <1>2, <1>3, LenProperties
  <2>2. Len(P) = Len(Q)
    BY <1>4, <2>0, <2>1
  <2>3. ASSUME NEW i \in 1..Len(P) PROVE P[i] = Q[i]
    <3>1. (new \o P)[Len(new) + i] = P[i] /\ (new \o Q)[Len(new) + i] = Q[i]
      BY <1>1, <1>2, <1>3, <2>2
    <3> QED
      BY <1>4, <3>1
  <2> QED
    BY <2>2, <2>3
<1>6. Len(p) = Len(q)
  BY <1>1, <1>2, <1>3, <1>5
<1>7. ASSUME NEW i \in 1..Len(p) PROVE p[i] = q[i]
  <2>1. CASE i <= k
    <3>1. SubSeq(p, 1, k)[i] = p[i] /\ SubSeq(q, 1, k)[i] = q[i]
      BY <1>1, <2>1
    <3> QED
      BY <3>1 DEF Inside
  <2>2. CASE i > k
    <3>1. i - k \in 1..Len(P) /\ k + (i - k) = i
      BY <1>1, <1>2, <2>2
    <3> QED
      BY <1>2, <1>3, <1>5, <3>1
  <2> QED
    BY <1>1, <2>1, <2>2
<1> QED
  BY <1>1, <1>6, <1>7

\* The components of a path.
LEMMA PathFacts ==
    ASSUME NEW p \in Path
    PROVE  /\ p \in Seq(Component) /\ Len(p) \in Nat /\ Len(p) >= 1 /\ Len(p) <= MaxDepth
           /\ \A i \in 1..Len(p) : p[i] \in Component
<1>1. p \in Seq(Component) /\ Len(p) \in 1..MaxDepth
  BY PathIsSeq
<1> QED BY <1>1, MaxDepthAssumption

\* The components of a prefix.
LEMMA PrefixFacts ==
    ASSUME NEW p \in Path, NEW k \in 1..Len(p)
    PROVE  \A i \in 1..k : SubSeq(p, 1, k)[i] = p[i]
<1>1. Len(p) \in Nat /\ \A i \in 1..k : p[i] \in Component
  BY PathFacts
<1>2. \A i \in 1..(k - 1 + 1) : SubSeq(p, 1, k)[i] = p[1 + i - 1]
  BY <1>1, SubSeqProperties
<1> QED BY <1>1, <1>2

\* Paths with the same components are the same.
LEMMA PathEqual ==
    ASSUME NEW p \in Path, NEW q \in Path, Len(p) = Len(q), \A i \in 1..Len(p) : p[i] = q[i]
    PROVE  p = q
BY PathFacts, SeqEqual

\* path_is_inside, component by component.
LEMMA InsideIff ==
    ASSUME NEW p \in Path, NEW d \in Path
    PROVE  Inside(p, d) <=> Len(d) <= Len(p) /\ \A i \in 1..Len(d) : p[i] = d[i]
<1>1. Len(p) \in Nat /\ Len(d) \in Nat /\ Len(d) >= 1
  BY PathFacts
<1>2. CASE Len(d) <= Len(p)
  <2> DEFINE s == SubSeq(p, 1, Len(d))
  <2>1. Len(d) \in 1..Len(p)
    BY <1>1, <1>2
  <2>2. s \in Path /\ Len(s) = Len(d) /\ \A i \in 1..Len(d) : s[i] = p[i]
    BY <2>1, PrefixInPath, PrefixFacts
  <2>3. s = d <=> \A i \in 1..Len(d) : p[i] = d[i]
    <3> HIDE DEF s
    <3>1. ASSUME \A i \in 1..Len(d) : p[i] = d[i] PROVE s = d
      BY <2>2, <3>1, PathEqual
    <3> QED BY <2>2, <3>1
  <2> QED BY <1>2, <2>3 DEF Inside
<1>3. CASE ~(Len(d) <= Len(p))
  BY <1>3 DEF Inside
<1> QED BY <1>2, <1>3

\* The directories a path goes through are those it is properly inside of.
LEMMA AncestorIff ==
    ASSUME NEW p \in Path, NEW a \in Path
    PROVE  a \in Ancestors(p) <=> Inside(p, a) /\ Len(a) < Len(p)
<1>1. Len(p) \in Nat /\ Len(a) \in Nat /\ Len(a) >= 1
  BY PathFacts
<1>2. ASSUME a \in Ancestors(p) PROVE Inside(p, a) /\ Len(a) < Len(p)
  <2>1. PICK k \in 1..(Len(p) - 1) : a = SubSeq(p, 1, k)
    BY <1>2 DEF Ancestors
  <2>2. k \in 1..Len(p) /\ k < Len(p)
    BY <1>1
  <2>3. Len(a) = k
    BY <2>1, <2>2, PrefixInPath
  <2> QED BY <1>1, <2>1, <2>2, <2>3 DEF Inside
<1>3. ASSUME Inside(p, a), Len(a) < Len(p) PROVE a \in Ancestors(p)
  <2>1. Len(a) \in 1..(Len(p) - 1)
    BY <1>1, <1>3
  <2> QED BY <1>3, <2>1 DEF Inside, Ancestors
<1> QED BY <1>2, <1>3

\* What is inside a directory is it or goes through it.
LEMMA InsideCases ==
    ASSUME NEW p \in Path, NEW d \in Path, Inside(p, d)
    PROVE  p = d \/ d \in Ancestors(p)
<1>1. Len(p) \in Nat /\ Len(d) \in Nat
  BY PathFacts
<1>2. Len(d) <= Len(p) /\ \A i \in 1..Len(d) : p[i] = d[i]
  BY InsideIff
<1>3. CASE Len(d) < Len(p)
  BY <1>3, AncestorIff
<1>4. CASE Len(d) = Len(p)
  BY <1>2, <1>4, PathEqual
<1> QED BY <1>1, <1>2, <1>3, <1>4

\* Being inside is transitive.
LEMMA InsideTransitive ==
    ASSUME NEW p \in Path, NEW q \in Path, NEW d \in Path, Inside(p, q), Inside(q, d)
    PROVE  Inside(p, d)
<1>1. Len(p) \in Nat /\ Len(q) \in Nat /\ Len(d) \in Nat
  BY PathFacts
<1>2. Len(q) <= Len(p) /\ \A i \in 1..Len(q) : p[i] = q[i]
  BY InsideIff
<1>3. Len(d) <= Len(q) /\ \A i \in 1..Len(d) : q[i] = d[i]
  BY InsideIff
<1>4. Len(d) <= Len(p) /\ \A i \in 1..Len(d) : p[i] = d[i]
  BY <1>1, <1>2, <1>3
<1> QED BY <1>4, InsideIff

\* A path is inside itself and goes not through itself.
LEMMA InsideSelf ==
    ASSUME NEW p \in Path
    PROVE  Inside(p, p) /\ p \notin Ancestors(p)
<1>1. Len(p) \in Nat
  BY PathFacts
<1>2. Inside(p, p)
  BY <1>1, InsideIff
<1> QED BY <1>1, <1>2, AncestorIff

\* When the parent of a path is in a tree of directories, so are all the
\* directories the path goes through; and the other way round.
LEMMA ParentAncestors ==
    ASSUME NEW p \in Path, NEW D \in SUBSET Path, \A d \in D : Ancestors(d) \subseteq D
    PROVE  ParentIn(p, D) <=> Ancestors(p) \subseteq D
<1>1. Len(p) \in Nat /\ Len(p) >= 1
  BY PathFacts
<1>2. ASSUME Ancestors(p) \subseteq D PROVE ParentIn(p, D)
  <2>1. Len(p) > 1 => Len(p) - 1 \in 1..(Len(p) - 1)
    BY <1>1
  <2> QED BY <1>2, <2>1 DEF ParentIn, Ancestors
<1>3. ASSUME ParentIn(p, D), NEW a \in Ancestors(p) PROVE a \in D
  <2> DEFINE q == SubSeq(p, 1, Len(p) - 1)
  <2>1. a \in Path
    BY AncestorsInPath
  <2>2. /\ Len(a) < Len(p) /\ Len(a) \in Nat /\ Len(a) >= 1
        /\ \A i \in 1..Len(a) : p[i] = a[i]
    BY <2>1, AncestorIff, InsideIff, PathFacts
  <2>3. Len(p) - 1 \in 1..Len(p) /\ Len(p) > 1
    BY <1>1, <2>2
  <2>4. q \in Path /\ Len(q) = Len(p) - 1 /\ \A i \in 1..Len(p) - 1 : q[i] = p[i]
    BY <2>3, PrefixInPath, PrefixFacts
  <2>5. q \in D
    BY <1>3, <2>3 DEF ParentIn
  <2> HIDE DEF q
  <2>6. Len(a) <= Len(q) /\ \A i \in 1..Len(a) : q[i] = a[i]
    BY <1>1, <2>2, <2>4
  <2>7. Inside(q, a)
    BY <2>1, <2>4, <2>6, InsideIff
  <2> QED BY <2>1, <2>4, <2>5, <2>7, InsideCases
<1> QED BY <1>2, <1>3

\* The components of a path that is moved.
LEMMA RebaseFacts ==
    ASSUME NEW p \in Path, NEW old \in Path, NEW new \in Path, Inside(p, old)
    PROVE  /\ Rebase(p, old, new) \in Seq(Component)
           /\ Len(Rebase(p, old, new)) = Len(new) + (Len(p) - Len(old))
           /\ \A i \in 1..Len(new) : Rebase(p, old, new)[i] = new[i]
           /\ \A i \in 1..Len(p) - Len(old) :
                 Rebase(p, old, new)[Len(new) + i] = p[Len(old) + i]
<1> DEFINE s == SubSeq(p, Len(old) + 1, Len(p))
<1>1. /\ Len(p) \in Nat /\ Len(old) \in Nat /\ Len(new) \in Nat /\ Len(old) <= Len(p)
      /\ new \in Seq(Component) /\ \A i \in 1..Len(p) : p[i] \in Component
  BY PathFacts DEF Inside
<1>2. \A i \in Len(old) + 1..Len(p) : p[i] \in Component
  BY <1>1
<1>3. /\ s \in Seq(Component)
      /\ Len(s) = (IF Len(old) + 1 <= Len(p) THEN Len(p) - (Len(old) + 1) + 1 ELSE 0)
      /\ \A i \in 1..Len(p) - (Len(old) + 1) + 1 : s[i] = p[Len(old) + 1 + i - 1]
  BY <1>1, <1>2, SubSeqProperties
<1> HIDE DEF s
<1>4. Len(s) = Len(p) - Len(old) /\ \A i \in 1..Len(p) - Len(old) : s[i] = p[Len(old) + i]
  BY <1>1, <1>3
<1>5. /\ new \o s \in Seq(Component) /\ Len(new \o s) = Len(new) + Len(s)
      /\ \A i \in 1..Len(new) + Len(s) :
            (new \o s)[i] = IF i <= Len(new) THEN new[i] ELSE s[i - Len(new)]
  BY <1>1, <1>3, ConcatProperties
<1>6. Rebase(p, old, new) = new \o s
  BY DEF Rebase, s
<1>7. \A i \in 1..Len(new) : (new \o s)[i] = new[i]
  BY <1>1, <1>4, <1>5
<1>8. \A i \in 1..Len(p) - Len(old) : (new \o s)[Len(new) + i] = s[i]
  BY <1>1, <1>4, <1>5
<1> QED BY <1>1, <1>4, <1>5, <1>6, <1>7, <1>8

\* What is moved to new is inside new.
LEMMA RebaseInside ==
    ASSUME NEW p \in Path, NEW old \in Path, NEW new \in Path, Inside(p, old),
           Rebase(p, old, new) \in Path
    PROVE  Inside(Rebase(p, old, new), new)
<1>1. Len(p) \in Nat /\ Len(old) \in Nat /\ Len(new) \in Nat /\ Len(old) <= Len(p)
  BY PathFacts DEF Inside
<1>2. Len(new) <= Len(Rebase(p, old, new))
  BY <1>1, RebaseFacts
<1> QED BY <1>2, RebaseFacts, InsideIff

\* The directories a moved path goes through are those new goes through, and
\* the moved ones of those it went through below old.
LEMMA RebaseAncestors ==
    ASSUME NEW p \in Path, NEW old \in Path, NEW new \in Path, Inside(p, old),
           Rebase(p, old, new) \in Path, NEW a \in Ancestors(Rebase(p, old, new))
    PROVE  \/ a \in Ancestors(new)
           \/ \E b \in Ancestors(p) : Inside(b, old) /\ a = Rebase(b, old, new)
<1> DEFINE r == Rebase(p, old, new)
<1>1. /\ Len(p) \in Nat /\ Len(old) \in Nat /\ Len(old) >= 1 /\ Len(new) \in Nat
      /\ Len(old) <= Len(p) /\ \A i \in 1..Len(old) : p[i] = old[i]
  BY PathFacts, InsideIff
<1>2. /\ Len(r) = Len(new) + (Len(p) - Len(old))
      /\ \A i \in 1..Len(new) : r[i] = new[i]
      /\ \A i \in 1..Len(p) - Len(old) : r[Len(new) + i] = p[Len(old) + i]
  BY RebaseFacts
<1> HIDE DEF r
<1>3. r \in Path /\ a \in Ancestors(r)
  BY DEF r
<1>4. a \in Path
  BY <1>3, AncestorsInPath
<1>5. /\ Len(a) \in Nat /\ Len(a) >= 1 /\ Len(a) < Len(r) /\ Len(r) \in Nat
      /\ \A i \in 1..Len(a) : r[i] = a[i]
  BY <1>3, <1>4, AncestorIff, InsideIff, PathFacts
<1>6. CASE Len(a) < Len(new)
  <2>1. Len(a) <= Len(new) /\ \A i \in 1..Len(a) : new[i] = a[i]
    BY <1>1, <1>2, <1>5, <1>6
  <2> QED BY <1>4, <1>6, <2>1, InsideIff, AncestorIff
<1>7. CASE Len(a) >= Len(new)
  <2> DEFINE k == Len(a) - Len(new) + Len(old)
  <2>1. k \in 1..Len(p) /\ k < Len(p) /\ k >= Len(old)
    BY <1>1, <1>2, <1>5, <1>7
  <2>2. PICK b \in Path : Len(b) = k /\ \A i \in 1..k : b[i] = p[i]
    BY <2>1, PrefixInPath, PrefixFacts
  <2>3. Len(b) <= Len(p) /\ \A i \in 1..Len(b) : p[i] = b[i]
    BY <2>1, <2>2
  <2>4. Len(old) <= Len(b) /\ \A i \in 1..Len(old) : b[i] = old[i]
    BY <1>1, <2>1, <2>2
  <2>5. Inside(b, old) /\ b \in Ancestors(p)
    BY <2>1, <2>2, <2>3, <2>4, InsideIff, AncestorIff
  <2> DEFINE s == Rebase(b, old, new)
  <2>6. /\ s \in Seq(Component) /\ Len(s) = Len(new) + (k - Len(old))
        /\ \A i \in 1..Len(new) : s[i] = new[i]
        /\ \A i \in 1..k - Len(old) : s[Len(new) + i] = b[Len(old) + i]
    <3>1. /\ s \in Seq(Component) /\ Len(s) = Len(new) + (Len(b) - Len(old))
          /\ \A i \in 1..Len(new) : s[i] = new[i]
          /\ \A i \in 1..Len(b) - Len(old) : s[Len(new) + i] = b[Len(old) + i]
      BY <2>5, RebaseFacts
    <3> HIDE DEF s, k
    <3> QED BY <2>2, <3>1
  <2> HIDE DEF s
  <2>7. Len(s) = Len(a)
    BY <1>1, <1>5, <2>6
  <2>8. ASSUME NEW i \in 1..Len(a) PROVE s[i] = a[i]
    <3>1. CASE i <= Len(new)
      <4>1. i \in 1..Len(new)
        BY <1>5, <3>1
      <4> QED BY <1>2, <1>5, <2>6, <4>1
    <3>2. CASE i > Len(new)
      <4> DEFINE j == i - Len(new)
      <4>1. /\ j \in 1..k - Len(old) /\ j \in 1..Len(p) - Len(old) /\ Len(new) + j = i
            /\ Len(old) + j \in 1..k
        BY <1>1, <1>5, <2>1, <3>2
      <4> HIDE DEF j
      <4>2. s[i] = b[Len(old) + j] /\ b[Len(old) + j] = p[Len(old) + j]
        BY <2>2, <2>6, <4>1
      <4>3. r[i] = p[Len(old) + j]
        BY <1>2, <4>1
      <4> QED BY <1>5, <4>2, <4>3
    <3> QED BY <1>1, <1>5, <3>1, <3>2
  <2>9. s = a
    <3>1. a \in Seq(Component)
      BY <1>4, PathFacts
    <3> QED BY <2>6, <2>7, <2>8, <3>1, SeqEqual
  <2> QED BY <2>5, <2>9 DEF s
<1> QED BY <1>1, <1>5, <1>6, <1>7

-----------------------------------------------------------------------------
(* Names of files and of temporary files *)

\* The names the store accepts are the paths that do not end in ".tmp".
LEMMA FileNameFacts ==
    /\ FileName \subseteq Path
    /\ \A p : valid_filename(p) <=> p \in FileName
    /\ \A p \in Path : p \in FileName <=> ~EndsInTmp(p)
BY DEF FileName, valid_filename

\* A temporary file lies beside its file, and only its name ends in ".tmp".
LEMMA TemporaryFacts ==
    ASSUME NEW p \in Path
    PROVE  /\ TemporaryPath(p) \in Path
           /\ TemporaryPath(p) \notin FileName
           /\ Len(TemporaryPath(p)) = Len(p)
           /\ TemporaryPath(p)[Len(p)] = <<p[Len(p)][1], ".tmp">>
           /\ \A i \in 1..Len(p) : i # Len(p) => TemporaryPath(p)[i] = p[i]
<1> DEFINE n == Len(p)
           t == TemporaryPath(p)
<1>1. /\ p \in Seq(Component) /\ n \in Nat /\ n >= 1 /\ n <= MaxDepth
      /\ \A i \in 1..n : p[i] \in Component
  BY PathFacts
<1>2. t = [i \in 1..n |-> IF i = n THEN <<p[n][1], ".tmp">> ELSE p[i]]
  BY <1>1 DEF TemporaryPath
<1>3. <<p[n][1], ".tmp">> \in Component
  <2>1. p[n] \in Component
    BY <1>1
  <2>2. p[n][1] \in Name
    BY <2>1 DEF Component
  <2> QED BY <2>2 DEF Component
<1>4. /\ t \in Seq(Component) /\ Len(t) = n /\ t[n] = <<p[n][1], ".tmp">>
      /\ \A i \in 1..n : i # n => t[i] = p[i]
  <2>1. t \in [1..n -> Component]
    BY <1>1, <1>2, <1>3
  <2>2. t[n] = <<p[n][1], ".tmp">>
    BY <1>1, <1>2
  <2>3. \A i \in 1..n : i # n => t[i] = p[i]
    BY <1>2
  <2> HIDE DEF t
  <2> QED BY <1>1, <2>1, <2>2, <2>3
<1> HIDE DEF t
<1>5. t \in Path
  BY <1>1, <1>4, PathIsSeq
<1>6. EndsInTmp(t)
  BY <1>4 DEF EndsInTmp
<1> QED BY <1>4, <1>5, <1>6, FileNameFacts DEF t

\* A temporary file is in the directories its file is in.
LEMMA TemporaryInside ==
    ASSUME NEW p \in Path
    PROVE  /\ \A d \in Path : Len(d) < Len(p) =>
                 (Inside(TemporaryPath(p), d) <=> Inside(p, d))
           /\ Ancestors(TemporaryPath(p)) = Ancestors(p)
<1> DEFINE t == TemporaryPath(p)
<1>1. /\ t \in Path /\ Len(t) = Len(p) /\ Len(p) \in Nat
      /\ \A i \in 1..Len(p) : i # Len(p) => t[i] = p[i]
  BY TemporaryFacts, PathFacts
<1> HIDE DEF t
<1>2. ASSUME NEW d \in Path, Len(d) < Len(p) PROVE Inside(t, d) <=> Inside(p, d)
  <2>1. Len(d) \in Nat
    BY PathFacts
  <2>2. \A i \in 1..Len(d) : i \in 1..Len(p) /\ i # Len(p)
    BY <1>1, <1>2, <2>1
  <2>3. \A i \in 1..Len(d) : t[i] = p[i]
    BY <1>1, <2>2
  <2> QED BY <1>1, <2>3, InsideIff
<1>3. ASSUME NEW a \in Path PROVE a \in Ancestors(t) <=> a \in Ancestors(p)
  BY <1>1, <1>2, AncestorIff
<1>4. Ancestors(t) \subseteq Path /\ Ancestors(p) \subseteq Path
  BY <1>1, AncestorsInPath
<1> QED BY <1>2, <1>3, <1>4 DEF t

\* A temporary file inside what has the name of a file is properly inside,
\* and so is its file.
LEMMA TemporaryBelow ==
    ASSUME NEW p \in Path, NEW old \in FileName, Inside(TemporaryPath(p), old)
    PROVE  Inside(p, old) /\ Len(old) < Len(p)
<1> DEFINE t == TemporaryPath(p)
<1>1. /\ t \in Path /\ t \notin FileName /\ Len(t) = Len(p) /\ old \in Path
      /\ Inside(t, old)
  BY TemporaryFacts, FileNameFacts
<1> HIDE DEF t
<1>2. old \in Ancestors(t)
  BY <1>1, InsideCases
<1>3. Len(old) < Len(p)
  BY <1>1, <1>2, AncestorIff
<1> QED BY <1>1, <1>3, TemporaryInside

\* A file name that is moved stays one: either its last component stays, or
\* it is that of the new name.
LEMMA RebaseFileName ==
    ASSUME NEW p \in FileName, NEW old \in Path, NEW new \in FileName, Inside(p, old),
           Rebase(p, old, new) \in Path
    PROVE  Rebase(p, old, new) \in FileName
<1> DEFINE r == Rebase(p, old, new)
<1>1. /\ p \in Path /\ new \in Path /\ Len(p) \in Nat /\ Len(old) \in Nat /\ Len(new) \in Nat
      /\ Len(new) >= 1 /\ Len(old) <= Len(p)
  BY FileNameFacts, PathFacts DEF Inside
<1>2. /\ Len(r) = Len(new) + (Len(p) - Len(old))
      /\ \A i \in 1..Len(new) : r[i] = new[i]
      /\ \A i \in 1..Len(p) - Len(old) : r[Len(new) + i] = p[Len(old) + i]
  BY <1>1, RebaseFacts
<1> HIDE DEF r
<1>3. r[Len(r)] = new[Len(new)] \/ r[Len(r)] = p[Len(p)]
  <2>1. CASE Len(p) = Len(old)
    <3>1. Len(r) = Len(new) /\ Len(new) \in 1..Len(new)
      BY <1>1, <1>2, <2>1
    <3> QED BY <1>2, <3>1
  <2>2. CASE Len(p) # Len(old)
    <3> DEFINE i == Len(p) - Len(old)
    <3>1. /\ i \in 1..Len(p) - Len(old) /\ Len(new) + i = Len(r)
          /\ Len(old) + i = Len(p)
      BY <1>1, <1>2, <2>2
    <3> HIDE DEF i
    <3> QED BY <1>2, <3>1
  <2> QED BY <2>1, <2>2
<1>4. p[Len(p)][2] # ".tmp" /\ new[Len(new)][2] # ".tmp"
  BY <1>1, FileNameFacts DEF EndsInTmp
<1>5. ~EndsInTmp(r)
  BY <1>3, <1>4 DEF EndsInTmp
<1> QED BY <1>5, FileNameFacts DEF r

\* The temporary file of a file that is moved with its directory moves with it.
LEMMA RebaseTemporary ==
    ASSUME NEW p \in Path, NEW old \in Path, NEW new \in Path, Inside(p, old),
           Len(old) < Len(p), Rebase(p, old, new) \in Path
    PROVE  TemporaryPath(Rebase(p, old, new)) = Rebase(TemporaryPath(p), old, new)
<1> DEFINE r == Rebase(p, old, new)
           t == TemporaryPath(p)
           x == TemporaryPath(r)
           y == Rebase(t, old, new)
<1>1. /\ Len(p) \in Nat /\ Len(old) \in Nat /\ Len(new) \in Nat /\ Len(old) < Len(p)
      /\ new \in Seq(Component)
  BY PathFacts
<1>2. /\ Len(r) = Len(new) + (Len(p) - Len(old))
      /\ \A i \in 1..Len(new) : r[i] = new[i]
      /\ \A i \in 1..Len(p) - Len(old) : r[Len(new) + i] = p[Len(old) + i]
  BY RebaseFacts
<1>3. /\ t \in Path /\ Len(t) = Len(p) /\ t[Len(p)] = <<p[Len(p)][1], ".tmp">>
      /\ \A i \in 1..Len(p) : i # Len(p) => t[i] = p[i]
      /\ Inside(t, old)
  BY TemporaryFacts, TemporaryInside
<1>4. /\ x \in Path /\ Len(x) = Len(r) /\ x[Len(r)] = <<r[Len(r)][1], ".tmp">>
      /\ \A i \in 1..Len(r) : i # Len(r) => x[i] = r[i]
  BY TemporaryFacts
<1> HIDE DEF t, r, x
<1>5. /\ y \in Seq(Component) /\ Len(y) = Len(new) + (Len(t) - Len(old))
      /\ \A i \in 1..Len(new) : y[i] = new[i]
      /\ \A i \in 1..Len(t) - Len(old) : y[Len(new) + i] = t[Len(old) + i]
  <2>1. t \in Path /\ Inside(t, old)
    BY <1>3
  <2>2. y \in Seq(Component) /\ Len(y) = Len(new) + (Len(t) - Len(old))
    BY <2>1, RebaseFacts
  <2>3. \A i \in 1..Len(new) : y[i] = new[i]
    BY <2>1, RebaseFacts
  <2>4. \A i \in 1..Len(t) - Len(old) : y[Len(new) + i] = t[Len(old) + i]
    BY <2>1, RebaseFacts, Zenon
  <2> QED BY <2>2, <2>3, <2>4
<1> HIDE DEF y
<1>6. Len(x) = Len(y)
  BY <1>1, <1>2, <1>3, <1>4, <1>5
<1>7. ASSUME NEW i \in 1..Len(x) PROVE x[i] = y[i]
  <2>1. CASE i <= Len(new)
    <3>1. i \in 1..Len(new) /\ i \in 1..Len(r) /\ i # Len(r)
      BY <1>1, <1>2, <1>4, <2>1
    <3> QED BY <1>2, <1>4, <1>5, <3>1
  <2>2. CASE i > Len(new)
    <3> DEFINE j == i - Len(new)
    <3>0. i \in 1..Len(r) /\ Len(r) = Len(new) + (Len(p) - Len(old))
      BY <1>2, <1>4
    <3>1. /\ j \in 1..Len(p) - Len(old) /\ Len(new) + j = i /\ i \in 1..Len(r)
          /\ Len(old) + j \in 1..Len(p) /\ (i = Len(r) <=> Len(old) + j = Len(p))
      <4>1. i \in Nat /\ i > Len(new) /\ i <= Len(new) + (Len(p) - Len(old))
        BY <1>1, <3>0, <2>2
      <4> QED BY <1>1, <3>0, <4>1
    <3> HIDE DEF j
    <3>2. r[i] = p[Len(old) + j] /\ y[i] = t[Len(old) + j]
      BY <1>2, <1>3, <1>5, <3>1
    <3>3. CASE i = Len(r)
      BY <1>3, <1>4, <3>1, <3>2, <3>3
    <3>4. CASE i # Len(r)
      BY <1>3, <1>4, <3>1, <3>2, <3>4
    <3> QED BY <3>3, <3>4
  <2> QED BY <1>1, <1>2, <1>4, <2>1, <2>2
<1>8. x \in Seq(Component)
  BY <1>4, PathFacts
<1> QED BY <1>5, <1>6, <1>7, <1>8, SeqEqual DEF x, y, r, t

-----------------------------------------------------------------------------
(* The inductive invariant *)

\* Inside publish RAM lags one effect behind the disk: applying the effect of
\* the running call to RAM gives what is on disk.
RamInv ==
    /\ Agreement
    /\ pc = "publish" => Loaded(files) = Published(data)

\* The temporary file of a write is complete when it is about to be renamed.
TmpInv ==
    /\ pc \in {"write", "commit"} => op.path \in DOMAIN tmps
    /\ pc = "commit" => tmps[op.path] = op.meta

\* The running rename re-keys entries that exist to paths within the bound.
RenameInv ==
    /\ NoInternalError
    /\ pc = "publish" /\ op.kind = "rename" =>
          \A q \in op.entries : Rebase(q, op.path, op.dest) \in FileName

\* The inductive invariant.
IInv == TypeOK /\ RamInv /\ TmpInv /\ Recoverable /\ RenameInv

-----------------------------------------------------------------------------
(* Reading back what the three kinds of disk change leave *)

\* After a metadata file is written, load_from_storage reads back the old map
\* with that one entry added or replaced.
LEMMA LoadedSet ==
    ASSUME NEW f, NEW p, NEW m
    PROVE  Loaded(Set(f, p, m)) = Set(Loaded(f), p, [path |-> p, meta |-> m])
BY DEF Loaded, Set

\* After metadata files are removed, load_from_storage reads back the old map
\* without their entries.
LEMMA LoadedDrop ==
    ASSUME NEW f, NEW S
    PROVE  Loaded(Drop(f, S)) = Drop(Loaded(f), S)
BY DEF Loaded, Drop

\* After files were moved on disk, load_from_storage reads back the old map
\* re-keyed, with the path in each entry brought up to date, as rename does.
LEMMA LoadedMove ==
    ASSUME NEW f, NEW moved \in SUBSET DOMAIN f, NEW old, NEW new
    PROVE  LET g == MoveKeys(Loaded(f), moved, old, new)
           IN  Loaded(MoveKeys(f, moved, old, new))
                 = [q \in DOMAIN g |-> [path |-> q, meta |-> g[q].meta]]
<1> DEFINE m == MoveKeys(f, moved, old, new)
           g == MoveKeys(Loaded(f), moved, old, new)
           D == MoveAll(DOMAIN f, moved, old, new)
<1>1. DOMAIN m = D /\ DOMAIN g = D
  BY DEF MoveKeys, Loaded
<1>2. ASSUME NEW q \in D
      PROVE  [path |-> q, meta |-> g[q].meta] = [path |-> q, meta |-> m[q]]
  <2>1. CASE \E p \in moved : Rebase(p, old, new) = q
    <3> DEFINE c == CHOOSE p \in moved : Rebase(p, old, new) = q
    <3>1. c \in moved
      BY <2>1
    <3>2. m[q] = f[c] /\ g[q] = Loaded(f)[c]
      BY <2>1, DOMAIN Loaded(f) = DOMAIN f DEF MoveKeys, Loaded
    <3> QED
      BY <3>1, <3>2 DEF Loaded
  <2>2. CASE ~\E p \in moved : Rebase(p, old, new) = q
    <3>1. q \in DOMAIN f
      BY <2>2 DEF MoveAll
    <3>2. m[q] = f[q] /\ g[q] = Loaded(f)[q]
      BY <2>2 DEF MoveKeys, Loaded
    <3> QED
      BY <3>1, <3>2 DEF Loaded
  <2> QED
    BY <2>1, <2>2
<1>3. Loaded(m) = [q \in D |-> [path |-> q, meta |-> m[q]]]
  BY <1>1 DEF Loaded
<1> QED
  BY <1>1, <1>2, <1>3

-----------------------------------------------------------------------------
(* Facts about the helpers *)

\* Metadata and a torn write are both contents of a file.
LEMMA ContentFacts == Torn \in Content /\ Meta \subseteq Content
BY DEF Content

\* Adding an entry to a map keeps the map's type.
LEMMA SetType ==
    ASSUME NEW D, NEW T, NEW f, NEW k \in D, NEW v \in T,
           DOMAIN f \subseteq D, f \in [DOMAIN f -> T]
    PROVE  /\ DOMAIN Set(f, k, v) \subseteq D
           /\ Set(f, k, v) \in [DOMAIN Set(f, k, v) -> T]
BY DEF Set

\* Removing entries from a map keeps the map's type.
LEMMA DropType ==
    ASSUME NEW D, NEW T, NEW f, NEW S,
           DOMAIN f \subseteq D, f \in [DOMAIN f -> T]
    PROVE  /\ DOMAIN Drop(f, S) \subseteq D
           /\ Drop(f, S) \in [DOMAIN Drop(f, S) -> T]
BY DEF Drop

\* Moving keys invents no value, and keeps the domain within D when the moved
\* keys stay within D.
LEMMA MoveKeysType ==
    ASSUME NEW D, NEW T, NEW f, NEW moved \in SUBSET DOMAIN f, NEW old, NEW new,
           DOMAIN f \subseteq D, f \in [DOMAIN f -> T],
           \A p \in moved : Rebase(p, old, new) \in D
    PROVE  LET g == MoveKeys(f, moved, old, new) IN
           /\ DOMAIN g \subseteq D
           /\ g \in [DOMAIN g -> T]
<1> DEFINE g == MoveKeys(f, moved, old, new)
<1>1. DOMAIN g = MoveAll(DOMAIN f, moved, old, new)
  BY DEF MoveKeys
<1>2. DOMAIN g \subseteq D
  BY <1>1 DEF MoveAll
<1>3. ASSUME NEW q \in DOMAIN g
      PROVE  g[q] \in T
  <2>1. CASE \E p \in moved : Rebase(p, old, new) = q
    <3> DEFINE c == CHOOSE p \in moved : Rebase(p, old, new) = q
    <3>1. c \in moved
      BY <2>1
    <3>2. g[q] = f[c]
      BY <1>1, <2>1 DEF MoveKeys
    <3> QED
      BY <3>1, <3>2
  <2>2. CASE ~\E p \in moved : Rebase(p, old, new) = q
    BY <1>1, <2>2 DEF MoveKeys, MoveAll
  <2> QED
    BY <2>1, <2>2
<1>4. g = [q \in DOMAIN g |-> g[q]]
  BY <1>1 DEF MoveKeys
<1> QED
  BY <1>2, <1>3, <1>4

-----------------------------------------------------------------------------
(* The invariant holds initially and every action keeps it *)

\* The invariant holds before the process is first started.
LEMMA InitIInv == Init => IInv
BY BoundsAssumption
   DEF Init, IInv, TypeOK, RamInv, TmpInv, RenameInv, NoInternalError, Agreement, Recoverable, Op, NoOp

\* A call that returns an error before it changed anything keeps the invariant.
LEMMA RefuseIInv ==
    ASSUME IInv, pc \notin {"down", "publish"},
           NEW r \in (Errors \ {"READ_FAILURE"}) \cup {"OK"}, Refuse(r)
    PROVE  IInv'
BY DEF Refuse, Return, disk, IInv, TypeOK, RamInv, TmpInv, RenameInv, NoInternalError, Agreement,
       Recoverable, Loaded, Op, NoOp

\* Entering write_metadata_file keeps the invariant.
LEMMA BeginIInv ==
    ASSUME IInv, pc = "idle", NEW p \in FileName, NEW m \in Meta, begin_write(p, m)
    PROVE  IInv'
BY DEF begin_write, disk, IInv, TypeOK, RamInv, TmpInv, RenameInv, NoInternalError, Agreement,
       Recoverable, Loaded, Op, NoOp

\* add_metadata keeps the invariant.
LEMMA AddIInv ==
    ASSUME IInv, pc = "idle", NEW p, NEW m \in Meta, add_metadata(p, m)
    PROVE  IInv'
BY RefuseIInv, BeginIInv, FileNameFacts DEF add_metadata, Errors

\* update_metadata keeps the invariant.
LEMMA UpdateIInv ==
    ASSUME IInv, pc = "idle", NEW p, NEW m \in Meta, update_metadata(p, m)
    PROVE  IInv'
BY AddIInv, BeginIInv DEF update_metadata, IInv, TypeOK

\* create_directories keeps the invariant, done or failed half-way.
LEMMA MkdirsIInv ==
    ASSUME IInv, create_directories
    PROVE  IInv'
<1> DEFINE missing == Ancestors(op.path) \ dirs
<1>1. CASE Refuse("INVALID_PATH") \/ Refuse("WRITE_FAILURE")
  BY <1>1, RefuseIInv DEF create_directories, Errors
<1>2. ASSUME NEW d \in missing, dirs' = dirs \cup {d},
             UNCHANGED <<data, files, tmps, pc, op, reply, promised, faults>>
      PROVE  IInv'
  <2>1. dirs' \subseteq Path
    BY <1>2, AncestorsInPath, FileNameFacts, op.path \in FileName
       DEF create_directories, IInv, TypeOK, Op, NoOp
  <2> QED
    BY <1>2, <2>1 DEF create_directories, IInv, TypeOK, RamInv, TmpInv, RenameInv, NoInternalError,
                      Agreement, Recoverable, Loaded, Published
<1>3. CASE /\ pc' = "open"
           /\ UNCHANGED <<data, disk, op, reply, promised, faults>>
  BY <1>3 DEF create_directories, IInv, TypeOK, RamInv, TmpInv, RenameInv, NoInternalError, disk,
              Agreement, Recoverable, Loaded
<1> QED
  BY <1>1, <1>2, <1>3 DEF create_directories

\* What Published does, for each kind of call.
LEMMA PublishedCases ==
    ASSUME NEW d
    PROVE  /\ op.kind = "put" => Published(d) =
                Set(d, op.path, [path |-> op.path, meta |-> op.meta])
           /\ op.kind = "remove" => Published(d) = Drop(d, {op.path})
           /\ op.kind = "rename" => Published(d) =
                 LET f == MoveKeys(d, op.entries, op.path, op.dest)
                 IN [q \in DOMAIN f |-> [path |-> q, meta |-> f[q].meta]]
BY DEF Published, Rekeyed

\* Opening the temporary file, even over an old one, keeps the invariant.
LEMMA OpenIInv ==
    ASSUME IInv, open_temporary
    PROVE  IInv'
<1>1. CASE Refuse("WRITE_FAILURE")
  BY <1>1, RefuseIInv DEF open_temporary, Errors
<1>2. CASE /\ tmps' = Set(tmps, op.path, Torn)
           /\ pc' = "write"
           /\ UNCHANGED <<data, files, dirs, op, reply, promised, faults>>
  <2>1. op.path \in FileName
    BY DEF open_temporary, IInv, TypeOK, Op, NoOp
  <2>2. /\ DOMAIN tmps' \subseteq FileName
        /\ tmps' \in [DOMAIN tmps' -> Content]
    BY <1>2, <2>1, SetType, ContentFacts DEF IInv, TypeOK
  <2>3. op.path \in DOMAIN tmps'
    BY <1>2 DEF Set
  <2> QED
    BY <1>2, <2>2, <2>3 DEF open_temporary, IInv, TypeOK, RamInv, TmpInv, RenameInv, NoInternalError,
                            Agreement, Recoverable, Loaded
<1> QED
  BY <1>1, <1>2 DEF open_temporary

\* Writing the temporary file, or failing to, keeps the invariant.
LEMMA WriteIInv ==
    ASSUME IInv, write_temporary
    PROVE  IInv'
<1>0. op.path \in DOMAIN tmps /\ op.meta \in Meta
  BY DEF write_temporary, IInv, TypeOK, TmpInv, Op, NoOp
<1>1. CASE /\ tmps' = [tmps EXCEPT ![op.path] = op.meta]
           /\ pc' = "commit"
           /\ UNCHANGED <<data, files, dirs, op, reply, promised, faults>>
  BY <1>0, <1>1, ContentFacts DEF write_temporary, IInv, TypeOK, RamInv, TmpInv, RenameInv, NoInternalError,
                    Agreement, Recoverable, Loaded
<1>2. CASE /\ faults < MaxFaults
           /\ faults' = faults + 1
           /\ Return("WRITE_FAILURE")
           /\ UNCHANGED <<data, disk, promised>>
  BY <1>2, BoundsAssumption DEF write_temporary, IInv, TypeOK, RamInv, TmpInv, RenameInv, NoInternalError,
                    Agreement, Recoverable, Loaded, Return, disk, Errors, Op, NoOp
<1> QED
  BY <1>1, <1>2 DEF write_temporary

\* Renaming the temporary file to its final name, or failing to, keeps the
\* invariant: afterwards RAM is behind by exactly this call.
LEMMA CommitIInv ==
    ASSUME IInv, commit_temporary
    PROVE  IInv'
<1>0. /\ op.path \in DOMAIN tmps /\ op.path \in FileName /\ op.meta \in Meta
      /\ tmps[op.path] = op.meta /\ op.kind = "put" /\ data = Loaded(files)
  BY DEF commit_temporary, IInv, TypeOK, RamInv, TmpInv, RenameInv, NoInternalError, Agreement, Op, NoOp
<1>D. /\ DOMAIN Drop(tmps, {op.path}) \subseteq FileName
      /\ Drop(tmps, {op.path}) \in [DOMAIN Drop(tmps, {op.path}) -> Content]
  BY DropType DEF IInv, TypeOK
<1>1. CASE /\ files' = Set(files, op.path, tmps[op.path])
           /\ tmps' = Drop(tmps, {op.path})
           /\ pc' = "publish"
           /\ UNCHANGED <<data, dirs, op, reply, promised, faults>>
  <2>1. Loaded(files') = Published(data)
    BY <1>0, <1>1, LoadedSet, PublishedCases
  <2>2. /\ DOMAIN files' \subseteq FileName
        /\ files' \in [DOMAIN files' -> Content]
    BY <1>0, <1>1, SetType, ContentFacts DEF IInv, TypeOK
  <2>5. \A p \in DOMAIN files' : files'[p] \in Meta
    BY <1>0, <1>1 DEF IInv, Recoverable, Set
  <2>3. Published(data)' = Published(data)
    BY <1>1 DEF Published
  <2>4. TypeOK'
    BY <1>0, <1>1, <1>D, <2>2 DEF IInv, TypeOK
  <2> QED
    BY <1>0, <1>1, <2>1, <2>3, <2>4, <2>5
       DEF IInv, RamInv, TmpInv, RenameInv, NoInternalError, Agreement, Recoverable, Loaded
<1>2. CASE /\ faults < MaxFaults
           /\ faults' = faults + 1
           /\ tmps' \in {tmps, Drop(tmps, {op.path})}
           /\ Return("WRITE_FAILURE")
           /\ UNCHANGED <<data, files, dirs, promised>>
  <2>1. DOMAIN tmps' \subseteq FileName /\ tmps' \in [DOMAIN tmps' -> Content]
    BY <1>2, <1>D DEF IInv, TypeOK
  <2> QED
    BY <1>2, <2>1, BoundsAssumption
       DEF commit_temporary, IInv, TypeOK, RamInv, TmpInv, RenameInv, NoInternalError, Agreement,
           Recoverable, Loaded, Return, Errors, Op, NoOp
<1> QED
  BY <1>1, <1>2 DEF commit_temporary

\* What NowPromised does, for each kind of call.
LEMMA NowPromisedCases ==
    /\ op.kind = "put" => NowPromised = Set(promised, op.path, op.meta)
    /\ op.kind = "remove" => NowPromised = Drop(promised, {op.path})
    /\ op.kind = "rename" => NowPromised =
          MoveKeys(promised, op.entries \cap DOMAIN promised, op.path, op.dest)
BY DEF NowPromised

\* What callers were told stays a map from paths to contents.
LEMMA NowPromisedType ==
    ASSUME IInv, pc = "publish"
    PROVE  /\ DOMAIN NowPromised \subseteq FileName
           /\ NowPromised \in [DOMAIN NowPromised -> Content]
<1>0. DOMAIN promised \subseteq FileName /\ promised \in [DOMAIN promised -> Content]
  BY DEF IInv, TypeOK
<1>1. CASE op.kind = "put"
  <2>1. op.path \in FileName /\ op.meta \in Content
    BY <1>1, ContentFacts DEF IInv, TypeOK, Op, NoOp
  <2> DEFINE f == Set(promised, op.path, op.meta)
  <2>2. NowPromised = f
    BY <1>1, NowPromisedCases
  <2>3. DOMAIN f \subseteq FileName /\ f \in [DOMAIN f -> Content]
    BY <1>0, <2>1, SetType
  <2> HIDE DEF f
  <2> QED
    BY <2>2, <2>3
<1>2. CASE op.kind = "remove"
  <2> DEFINE f == Drop(promised, {op.path})
  <2>1. NowPromised = f
    BY <1>2, NowPromisedCases
  <2>2. DOMAIN f \subseteq FileName /\ f \in [DOMAIN f -> Content]
    BY <1>0, DropType
  <2> HIDE DEF f
  <2> QED BY <2>1, <2>2
<1>3. CASE op.kind = "rename"
  <2>1. \A q \in op.entries \cap DOMAIN promised :
            Rebase(q, op.path, op.dest) \in FileName
    BY <1>3 DEF IInv, RenameInv
  <2> DEFINE moved == op.entries \cap DOMAIN promised
             f == MoveKeys(promised, moved, op.path, op.dest)
  <2>2. NowPromised = f
    BY <1>3, NowPromisedCases
  <2>3. moved \in SUBSET DOMAIN promised
    OBVIOUS
  <2>4. DOMAIN f \subseteq FileName /\ f \in [DOMAIN f -> Content]
    <3> HIDE DEF moved
    <3> QED
      BY <1>0, <2>1, <2>3, MoveKeysType DEF moved
  <2> HIDE DEF f
  <2> QED
    BY <2>2, <2>4
<1> QED
  BY <1>1, <1>2, <1>3 DEF IInv, TypeOK, Op, NoOp

\* Bringing RAM in line after the disk has changed keeps the invariant.
LEMMA PublishIInv ==
    ASSUME IInv, publish
    PROVE  IInv'
<1>1. data' = Loaded(files) /\ UNCHANGED <<files, dirs, tmps, faults>>
  BY DEF publish, IInv, RamInv, disk
<1>2. pc' = "idle" /\ op' = NoOp /\ reply' = "OK"
  BY DEF publish, Return
<1>3. DOMAIN promised' \subseteq FileName /\ promised' \in [DOMAIN promised' -> Content]
  BY NowPromisedType DEF publish
<1>4. data' \in [DOMAIN data' -> Entry] /\ DOMAIN data' \subseteq FileName
  BY <1>1 DEF Loaded, Entry, IInv, TypeOK
<1>5. TypeOK'
  BY <1>1, <1>2, <1>3, <1>4 DEF IInv, TypeOK, Op, NoOp
<1> QED
  BY <1>1, <1>2, <1>5
     DEF IInv, RamInv, TmpInv, RenameInv, NoInternalError, Agreement,
         Recoverable, Loaded

\* remove_metadata keeps the invariant.
LEMMA RemoveIInv ==
    ASSUME IInv, pc = "idle", NEW p, remove_metadata(p)
    PROVE  IInv'
<1>1. CASE Refuse("NOT_FOUND") \/ Refuse("WRITE_FAILURE")
  BY <1>1, RefuseIInv DEF Errors
<1>2. CASE /\ p \in DOMAIN files
           /\ files' = Drop(files, {p})
           /\ op' = [kind |-> "remove", path |-> p]
           /\ pc' = "publish"
           /\ UNCHANGED <<data, dirs, tmps, reply, promised, faults>>
  <2>1. Loaded(files') = Drop(data, {p})
    BY <1>2, LoadedDrop DEF IInv, RamInv, Agreement
  <2>2. Loaded(files)' = Published(data)'
    BY <1>2, <2>1 DEF Published, Loaded
  <2>3. DOMAIN files' \subseteq FileName /\ files' \in [DOMAIN files' -> Content]
    BY <1>2, DropType DEF IInv, TypeOK
  <2>4. TypeOK'
    BY <1>2, <2>3 DEF IInv, TypeOK, Op
  <2>5. Recoverable'
    BY <1>2 DEF IInv, Recoverable, Drop
  <2> QED
    BY <1>2, <2>2, <2>4, <2>5
       DEF IInv, RamInv, TmpInv, RenameInv, NoInternalError, Agreement
<1> QED
  BY <1>1, <1>2 DEF remove_metadata

\* A step of the idle store that changes directories only.
LEMMA DirsIInv ==
    ASSUME IInv, pc = "idle", dirs' \subseteq Path, Return("OK"),
           UNCHANGED <<data, files, tmps, promised, faults>>
    PROVE  IInv'
BY DEF Return, IInv, TypeOK, RamInv, TmpInv, RenameInv, NoInternalError,
       Agreement, Recoverable, Loaded, Op, NoOp

\* make_directory keeps the invariant.
LEMMA MakeDirectoryIInv ==
    ASSUME IInv, pc = "idle", NEW p, make_directory(p)
    PROVE  IInv'
<1>1. CASE \E r \in {"INVALID_PATH", "ALREADY_EXISTS", "WRITE_FAILURE"} : Refuse(r)
  BY <1>1, RefuseIInv DEF Errors
<1>2. CASE /\ valid_filename(p)
           /\ dirs' = dirs \cup {p} /\ Return("OK")
           /\ UNCHANGED <<data, files, tmps, promised, faults>>
  <2>1. dirs' \subseteq Path
    BY <1>2 DEF valid_filename, IInv, TypeOK
  <2> QED
    BY <1>2, <2>1, DirsIInv
<1> QED
  BY <1>1, <1>2 DEF make_directory

\* remove_directory keeps the invariant.
LEMMA RemoveDirectoryIInv ==
    ASSUME IInv, pc = "idle", NEW p, remove_directory(p)
    PROVE  IInv'
<1>1. CASE \E r \in {"INVALID_PATH", "NOT_FOUND", "WRITE_FAILURE"} : Refuse(r)
  BY <1>1, RefuseIInv DEF Errors
<1>2. CASE /\ dirs' = dirs \ {p} /\ Return("OK")
           /\ UNCHANGED <<data, files, tmps, promised, faults>>
  <2>1. dirs' \subseteq Path
    BY <1>2 DEF IInv, TypeOK
  <2> QED
    BY <1>2, <2>1, DirsIInv
<1> QED
  BY <1>1, <1>2 DEF remove_directory

\* RAM holds what the file system moves: the entries a rename re-keys are the
\* files it moves.
LEMMA RenamedAreMoved ==
    ASSUME IInv, pc = "idle", NEW old
    PROVE  /\ renamed_entries(old) = MovedFiles(old)
           /\ MovedFiles(old) \in SUBSET DOMAIN files
           /\ DOMAIN data = DOMAIN files
BY DEF IInv, RamInv, Agreement, Loaded, renamed_entries, MovedFiles

\* What rename moves is inside the old path, and stays within the bound on
\* paths: files remain files in name.
LEMMA MovedInPath ==
    ASSUME IInv, NEW old \in FileName, NEW new \in FileName,
           \A q \in MovedFiles(old) \cup MovedDirs(old) \cup MovedTmps(old) :
               Len(Rebase(q, old, new)) <= MaxDepth
    PROVE  /\ \A q \in MovedFiles(old) \cup MovedDirs(old) \cup MovedTmps(old) :
                 Inside(q, old) /\ Rebase(q, old, new) \in Path
           /\ \A q \in MovedFiles(old) \cup MovedTmps(old) : Rebase(q, old, new) \in FileName
           /\ \A q \in MovedTmps(old) : Len(old) < Len(q)
<1>0. /\ old \in Path /\ new \in Path /\ DOMAIN files \subseteq FileName
      /\ DOMAIN tmps \subseteq FileName /\ dirs \subseteq Path /\ FileName \subseteq Path
  BY FileNameFacts DEF IInv, TypeOK
<1>1. ASSUME NEW q \in MovedTmps(old) PROVE q \in FileName /\ Inside(q, old) /\ Len(old) < Len(q)
  <2>1. q \in DOMAIN tmps /\ Inside(TemporaryPath(q), old)
    BY <1>1 DEF MovedTmps
  <2> QED BY <1>0, <2>1, TemporaryBelow
<1>2. ASSUME NEW q \in MovedFiles(old) PROVE q \in FileName /\ Inside(q, old)
  BY <1>0, <1>2, InsideSelf DEF MovedFiles
<1>3. ASSUME NEW q \in MovedDirs(old) PROVE q \in Path /\ Inside(q, old)
  BY <1>0, <1>3 DEF MovedDirs
<1>4. ASSUME NEW q \in MovedFiles(old) \cup MovedDirs(old) \cup MovedTmps(old)
      PROVE  q \in Path /\ Inside(q, old) /\ Rebase(q, old, new) \in Path
  <2>1. q \in Path /\ Inside(q, old)
    BY <1>0, <1>1, <1>2, <1>3
  <2> DEFINE r == Rebase(q, old, new)
  <2>2. r \in Seq(Component) /\ Len(r) = Len(new) + (Len(q) - Len(old)) /\ Len(r) <= MaxDepth
    BY <1>0, <2>1, RebaseFacts
  <2>3. /\ Len(q) \in Nat /\ Len(old) \in Nat /\ Len(new) \in Nat /\ Len(new) >= 1
        /\ Len(old) <= Len(q)
    BY <1>0, <2>1, PathFacts DEF Inside
  <2> HIDE DEF r
  <2>4. Len(r) \in 1..MaxDepth
    BY <2>2, <2>3, MaxDepthAssumption
  <2>5. r \in Path
    BY <2>2, <2>4, PathIsSeq
  <2> QED BY <2>1, <2>5 DEF r
<1>5. ASSUME NEW q \in MovedFiles(old) \cup MovedTmps(old) PROVE Rebase(q, old, new) \in FileName
  <2>1. q \in FileName /\ Inside(q, old) /\ Rebase(q, old, new) \in Path
    BY <1>1, <1>2, <1>4
  <2> QED BY <1>0, <2>1, RebaseFileName
<1> QED BY <1>1, <1>4, <1>5

\* The step of rename that changes the disk.
LEMMA RenameDiskIInv ==
    ASSUME IInv, pc = "idle", NEW old \in FileName, NEW new \in FileName,
           \A q \in renamed_entries(old) : Rebase(q, old, new) \notin DOMAIN data,
           \A q \in MovedFiles(old) \cup MovedDirs(old) \cup MovedTmps(old) :
               Len(Rebase(q, old, new)) <= MaxDepth,
           files' = MoveKeys(files, MovedFiles(old), old, new),
           dirs' = MoveAll(dirs, MovedDirs(old), old, new),
           tmps' = MoveKeys(tmps, MovedTmps(old), old, new),
           op' = [kind |-> "rename", path |-> old, dest |-> new,
                  entries |-> renamed_entries(old)],
           pc' = "publish",
           UNCHANGED <<data, reply, promised, faults>>
    PROVE  IInv'
<1> DEFINE moved == MovedFiles(old)
           f == MoveKeys(files, moved, old, new)
           g == MoveKeys(Loaded(files), moved, old, new)
<1>1. /\ renamed_entries(old) = moved /\ moved \in SUBSET DOMAIN files
      /\ data = Loaded(files) /\ DOMAIN data = DOMAIN files
  BY RenamedAreMoved DEF IInv, RamInv, Agreement
<1>2. Loaded(f) = [q \in DOMAIN g |-> [path |-> q, meta |-> g[q].meta]]
  <2> HIDE DEF moved
  <2> QED
    BY <1>1, LoadedMove
<1>3. (Loaded(files) = Published(data))'
  <2>1. Published(data)' = [q \in DOMAIN g |-> [path |-> q, meta |-> g[q].meta]]
    <3>1. op'.kind = "rename" /\ op'.entries = moved /\ op'.path = old
          /\ op'.dest = new /\ data' = Loaded(files)
      BY <1>1
    <3> QED
      BY <3>1 DEF Published, Rekeyed
  <2>2. Loaded(files)' = Loaded(f)
    BY DEF Loaded
  <2> QED
    BY <1>2, <2>1, <2>2
<1>4. DOMAIN f \subseteq FileName /\ f \in [DOMAIN f -> Content]
  <2>1. \A q \in moved : Rebase(q, old, new) \in FileName
    BY MovedInPath
  <2> HIDE DEF moved
  <2> QED
    BY <1>1, <2>1, MoveKeysType DEF IInv, TypeOK
<1>5. DOMAIN f \subseteq FileName /\ f \in [DOMAIN f -> Meta]
  <2>1. \A q \in moved : Rebase(q, old, new) \in FileName
    BY MovedInPath
  <2>2. files \in [DOMAIN files -> Meta]
    BY DEF IInv, TypeOK, Recoverable
  <2> HIDE DEF moved
  <2> QED
    BY <1>1, <2>1, <2>2, MoveKeysType DEF IInv, TypeOK
<1>6. DOMAIN tmps' \subseteq FileName /\ tmps' \in [DOMAIN tmps' -> Content]
  <2>1. MovedTmps(old) \in SUBSET DOMAIN tmps
    BY DEF MovedTmps
  <2>2. \A q \in MovedTmps(old) : Rebase(q, old, new) \in FileName
    BY MovedInPath
  <2> QED
    BY <2>1, <2>2, MoveKeysType DEF IInv, TypeOK
<1>7. dirs' \subseteq Path
  BY MovedInPath DEF MoveAll, IInv, TypeOK
<1>8. op' \in Op /\ op'.kind = "rename" /\ op'.entries = moved
      /\ op'.path = old /\ op'.dest = new
  BY <1>1 DEF Op, IInv, TypeOK
<1>9. TypeOK'
  <2> HIDE DEF f
  <2>1. files' = f
    BY DEF f
  <2> QED
    BY <1>4, <1>6, <1>7, <1>8, <2>1 DEF IInv, TypeOK
<1>10. RenameInv'
  BY <1>1, <1>8, MovedInPath DEF RenameInv, NoInternalError, IInv
<1>11. Recoverable'
  <2> HIDE DEF f
  <2>1. files' = f
    BY DEF f
  <2> QED
    BY <1>5, <2>1 DEF Recoverable
<1> QED
  BY <1>3, <1>9, <1>10, <1>11 DEF IInv, RamInv, TmpInv, Agreement

\* rename keeps the invariant, refused or not.
LEMMA RenameIInv ==
    ASSUME IInv, pc = "idle", NEW old, NEW new, rename(old, new)
    PROVE  IInv'
<1>1. CASE \E r \in {"INVALID_PATH", "NOT_FOUND", "OK", "ALREADY_EXISTS",
                     "WRITE_FAILURE"} : Refuse(r)
  BY <1>1, RefuseIInv DEF Errors
<1>2. CASE renamed_entries(old) \ DOMAIN data # {}
  BY <1>2, RenamedAreMoved
<1>3. CASE ~(\E r \in {"INVALID_PATH", "NOT_FOUND", "OK", "ALREADY_EXISTS",
                       "WRITE_FAILURE"} : Refuse(r))
           /\ renamed_entries(old) \ DOMAIN data = {}
  BY <1>3, RenameDiskIInv, FileNameFacts DEF rename
<1> QED
  BY <1>1, <1>2, <1>3

\* Whatever call the worker makes keeps the invariant.
LEMMA CallIInv == ASSUME IInv, Call PROVE IInv'
BY AddIInv, UpdateIInv, RemoveIInv, MakeDirectoryIInv, RemoveDirectoryIInv,
   RenameIInv DEF Call

\* The death of the process at any point keeps the invariant.
LEMMA CrashIInv == ASSUME IInv, Crash PROVE IInv'
<1>1. DOMAIN promised' \subseteq FileName /\ promised' \in [DOMAIN promised' -> Content]
  BY DropType DEF Crash, IInv, TypeOK
<1> QED
  BY <1>1, BoundsAssumption
     DEF Crash, disk, IInv, TypeOK, RamInv, TmpInv, RenameInv, NoInternalError,
         Agreement, Recoverable, Op, NoOp

\* load_from_storage keeps the invariant.
LEMMA LoadIInv == ASSUME IInv, load_from_storage PROVE IInv'
<1>1. data' \in [DOMAIN data' -> Entry] /\ DOMAIN data' \subseteq FileName
  BY DEF load_from_storage, Loaded, Entry, IInv, TypeOK
<1>2. Loaded(files)' = data'
  BY DEF load_from_storage, disk, Loaded
<1> QED
  BY <1>1, <1>2
     DEF load_from_storage, disk, IInv, TypeOK, RamInv, TmpInv, RenameInv,
         NoInternalError, Agreement, Recoverable

\* Every step, stuttering included, keeps the invariant.
LEMMA NextIInv == ASSUME IInv, [Next]_vars PROVE IInv'
<1>1. CASE UNCHANGED vars
  BY <1>1 DEF vars, disk, IInv, TypeOK, RamInv, TmpInv, RenameInv,
     NoInternalError, Agreement, Recoverable, Loaded, Published
<1> QED
  BY <1>1, CallIInv, MkdirsIInv, OpenIInv, WriteIInv, CommitIInv, PublishIInv,
     CrashIInv, LoadIInv DEF Next

\* The inductive invariant holds in every reachable state of MetadataStore,
\* whatever calls were made and wherever they failed or the process died.
THEOREM StoreInvariant == Spec => []IInv
BY InitIInv, NextIInv, PTL DEF Spec

\* The variables of the store keep their types.
THEOREM TypeCorrect == Spec => []TypeOK
<1>1. IInv => TypeOK
  BY DEF IInv
<1> QED
  BY <1>1, StoreInvariant, PTL

\* Whenever MetadataStore accepts a call, its RAM map is exactly what
\* load_from_storage would read back from disk.
THEOREM RamAgreesWithDisk == Spec => []Agreement
<1>1. IInv => Agreement
  BY DEF IInv, RamInv
<1> QED
  BY <1>1, StoreInvariant, PTL

\* No sequence of calls, failures and crashes leaves a metadata file that
\* load_from_storage refuses.
THEOREM AlwaysRecoverable == Spec => []Recoverable
<1>1. IInv => Recoverable
  BY DEF IInv
<1> QED
  BY <1>1, StoreInvariant, PTL

\* The error returns of rename that would leave RAM half re-keyed are
\* unreachable.
THEOREM RenameNeverFailsInside == Spec => []NoInternalError
<1>1. IInv => NoInternalError
  BY DEF IInv, RenameInv
<1> QED
  BY <1>1, StoreInvariant, PTL

-----------------------------------------------------------------------------
(* What was acknowledged stays *)

\* The files f hold everything that g promises.
Kept(g, f) == \A p \in DOMAIN g : p \in DOMAIN f /\ f[p] = g[p]

\* Inside publish the disk already holds what is about to be promised, and
\* everything promised before that the running call is not about.
PromiseInv ==
    /\ pc # "publish" => Kept(promised, files)
    /\ pc = "publish" => Kept(NowPromised, files) /\ Kept(Drop(promised, InDoubt), files)

\* Moving files on disk and the promises about them side by side keeps the
\* promises, when no two files are moved to the same place and none over
\* another.
LEMMA KeptMove ==
    ASSUME NEW f, NEW g, NEW old, NEW new, NEW moved \in SUBSET DOMAIN f, Kept(g, f),
           \A p, q \in moved : Rebase(p, old, new) = Rebase(q, old, new) => p = q,
           \A p \in moved : Rebase(p, old, new) \notin DOMAIN f
    PROVE  /\ Kept(MoveKeys(g, moved \cap DOMAIN g, old, new), MoveKeys(f, moved, old, new))
           /\ Kept(Drop(g, moved), MoveKeys(f, moved, old, new))
<1> DEFINE F == MoveKeys(f, moved, old, new)
           G == MoveKeys(g, moved \cap DOMAIN g, old, new)
<1>1. DOMAIN F = (DOMAIN f \ moved) \cup {Rebase(p, old, new) : p \in moved}
  BY DEF MoveKeys, MoveAll
<1>2. DOMAIN G = (DOMAIN g \ (moved \cap DOMAIN g))
                   \cup {Rebase(p, old, new) : p \in moved \cap DOMAIN g}
  BY DEF MoveKeys, MoveAll
<1>3. ASSUME NEW p \in moved
      PROVE  Rebase(p, old, new) \in DOMAIN F /\ F[Rebase(p, old, new)] = f[p]
  <2> DEFINE q == Rebase(p, old, new)
             c == CHOOSE x \in moved : Rebase(x, old, new) = q
  <2>1. c \in moved /\ Rebase(c, old, new) = q
    BY <1>3
  <2>2. c = p
    BY <2>1
  <2>3. q \in MoveAll(DOMAIN f, moved, old, new)
    BY DEF MoveAll
  <2>4. F[q] = f[c]
    BY <2>3 DEF MoveKeys
  <2> QED
    BY <2>2, <2>3, <2>4, <1>1
<1>4. ASSUME NEW q \in DOMAIN f \ moved
      PROVE  q \in DOMAIN F /\ F[q] = f[q]
  <2>1. ~\E p \in moved : Rebase(p, old, new) = q
    BY <1>4
  <2>2. q \in MoveAll(DOMAIN f, moved, old, new)
    BY DEF MoveAll
  <2> QED
    BY <1>1, <2>1, <2>2 DEF MoveKeys
<1>5. ASSUME NEW p \in moved \cap DOMAIN g
      PROVE  G[Rebase(p, old, new)] = g[p]
  <2> DEFINE q == Rebase(p, old, new)
             c == CHOOSE x \in moved \cap DOMAIN g : Rebase(x, old, new) = q
  <2>1. c \in moved \cap DOMAIN g /\ Rebase(c, old, new) = q
    BY <1>5
  <2>2. c = p
    BY <2>1
  <2>3. q \in MoveAll(DOMAIN g, moved \cap DOMAIN g, old, new)
    BY DEF MoveAll
  <2>4. G[q] = g[c]
    BY <2>3 DEF MoveKeys
  <2> QED
    BY <2>2, <2>4
<1>6. ASSUME NEW q \in DOMAIN g, q \notin moved
      PROVE  G[q] = g[q]
  <2>1. q \in DOMAIN f
    BY <1>6 DEF Kept
  <2>2. ~\E p \in moved \cap DOMAIN g : Rebase(p, old, new) = q
    BY <2>1
  <2>3. q \in MoveAll(DOMAIN g, moved \cap DOMAIN g, old, new)
    BY <1>6 DEF MoveAll
  <2> QED
    BY <2>2, <2>3 DEF MoveKeys
<1>7. ASSUME NEW q \in DOMAIN G
      PROVE  q \in DOMAIN F /\ F[q] = G[q]
  <2>1. CASE \E p \in moved \cap DOMAIN g : q = Rebase(p, old, new)
    BY <1>3, <1>5, <2>1 DEF Kept
  <2>2. CASE q \in DOMAIN g /\ q \notin moved
    BY <1>4, <1>6, <2>2 DEF Kept
  <2> QED
    BY <1>2, <1>7, <2>1, <2>2
<1>8. ASSUME NEW q \in DOMAIN Drop(g, moved)
      PROVE  q \in DOMAIN F /\ F[q] = Drop(g, moved)[q]
  <2>1. q \in DOMAIN g /\ q \notin moved /\ Drop(g, moved)[q] = g[q]
    BY <1>8 DEF Drop
  <2> QED
    BY <1>4, <2>1 DEF Kept
<1> HIDE DEF F, G
<1>9. Kept(G, F) /\ Kept(Drop(g, moved), F)
  BY <1>7, <1>8 DEF Kept
<1> QED
  BY <1>9 DEF F, G

\* A step that touches neither the files nor the promises keeps them.
LEMMA SamePromise ==
    ASSUME PromiseInv, pc # "publish", pc' # "publish", UNCHANGED <<files, promised>>
    PROVE  PromiseInv'
BY DEF PromiseInv, Kept

\* A write that reaches its final name puts on disk what publish is about to
\* promise.
LEMMA CommitPromise ==
    ASSUME IInv, PromiseInv, commit_temporary PROVE PromiseInv'
<1>1. CASE pc' # "publish"
  BY <1>1, SamePromise DEF commit_temporary, Return
<1>2. CASE pc' = "publish"
  <2>1. /\ files' = Set(files, op.path, op.meta) /\ promised' = promised /\ op' = op
        /\ op.kind = "put" /\ Kept(promised, files)
    BY <1>2 DEF commit_temporary, Return, IInv, TypeOK, TmpInv, PromiseInv
  <2>2. NowPromised' = Set(promised, op.path, op.meta) /\ InDoubt' = {op.path}
    BY <2>1 DEF NowPromised, InDoubt
  <2>3. Kept(NowPromised', files') /\ Kept(Drop(promised, {op.path}), files')
    BY <2>1, <2>2 DEF Kept, Set, Drop
  <2> QED
    BY <1>2, <2>1, <2>2, <2>3 DEF PromiseInv, Kept
<1> QED
  BY <1>1, <1>2

\* remove_metadata takes away only what publish stops promising.
LEMMA RemovePromise ==
    ASSUME IInv, PromiseInv, pc = "idle", NEW p, remove_metadata(p) PROVE PromiseInv'
<1>1. CASE pc' # "publish"
  BY <1>1, SamePromise DEF remove_metadata, Refuse, Return, disk
<1>2. CASE pc' = "publish"
  <2>1. /\ files' = Drop(files, {p}) /\ promised' = promised
        /\ op' = [kind |-> "remove", path |-> p] /\ Kept(promised, files)
    BY <1>2 DEF remove_metadata, Refuse, Return, PromiseInv
  <2>2. NowPromised' = Drop(promised, {p}) /\ InDoubt' = {p}
    BY <2>1 DEF NowPromised, InDoubt
  <2>3. Kept(Drop(promised, {p}), files')
    BY <2>1 DEF Kept, Drop
  <2> QED
    BY <1>2, <2>1, <2>2, <2>3 DEF PromiseInv, Kept
<1> QED
  BY <1>1, <1>2

\* rename moves what was promised and nothing else over it.
LEMMA RenamePromise ==
    ASSUME IInv, PromiseInv, pc = "idle", NEW old, NEW new, rename(old, new)
    PROVE  PromiseInv'
<1>1. CASE pc' # "publish"
  BY <1>1, SamePromise DEF rename, Refuse, Return, disk
<1>2. CASE pc' = "publish"
  <2> DEFINE moved == MovedFiles(old)
  <2>1. /\ old \in FileName /\ new \in FileName
        /\ \A q \in renamed_entries(old) : Rebase(q, old, new) \notin DOMAIN data
        /\ files' = MoveKeys(files, moved, old, new) /\ promised' = promised
        /\ op' = [kind |-> "rename", path |-> old, dest |-> new,
                  entries |-> renamed_entries(old)]
    BY <1>2, FileNameFacts DEF rename, Refuse, Return
  <2>2. renamed_entries(old) = moved /\ moved \in SUBSET DOMAIN files
        /\ DOMAIN data = DOMAIN files /\ Kept(promised, files)
    BY RenamedAreMoved DEF PromiseInv
  <2>3. \A p, q \in moved : Rebase(p, old, new) = Rebase(q, old, new) => p = q
    <3>1. CASE old \in DOMAIN files
      BY <3>1 DEF MovedFiles
    <3>2. CASE old \notin DOMAIN files
      <4>1. \A p \in moved : p \in Path /\ Inside(p, old)
        BY <2>2, <3>2, FileNameFacts DEF MovedFiles, IInv, TypeOK
      <4> HIDE DEF moved
      <4> QED
        BY <2>1, <4>1, FileNameFacts, RebaseInjective
    <3> QED
      BY <3>1, <3>2
  <2> HIDE DEF moved
  <2>4. /\ Kept(MoveKeys(promised, moved \cap DOMAIN promised, old, new), files')
        /\ Kept(Drop(promised, moved), files')
    BY <2>1, <2>2, <2>3, KeptMove
  <2>5. /\ NowPromised' = MoveKeys(promised, moved \cap DOMAIN promised, old, new)
        /\ InDoubt' = moved
    BY <2>1, <2>2 DEF NowPromised, InDoubt
  <2> QED
    BY <1>2, <2>1, <2>4, <2>5 DEF PromiseInv, Kept
<1> QED
  BY <1>1, <1>2

\* Whatever call the worker makes keeps the promises.
LEMMA CallPromise ==
    ASSUME IInv, PromiseInv, Call PROVE PromiseInv'
<1>1. pc = "idle"
  BY DEF Call
<1>2. ASSUME NEW p, NEW m, add_metadata(p, m) \/ update_metadata(p, m) PROVE PromiseInv'
  BY <1>1, <1>2, SamePromise
     DEF update_metadata, add_metadata, begin_write, Refuse, Return, disk
<1>3. ASSUME NEW p, make_directory(p) \/ remove_directory(p) PROVE PromiseInv'
  BY <1>1, <1>3, SamePromise
     DEF make_directory, remove_directory, Refuse, Return, disk
<1> QED
  BY <1>1, <1>2, <1>3, RemovePromise, RenamePromise DEF Call

\* Returning OK promises only what is on disk.
LEMMA PublishPromise ==
    ASSUME PromiseInv, publish PROVE PromiseInv'
BY DEF publish, Return, disk, PromiseInv, Kept

\* A crash puts only the files of the running call in doubt.
LEMMA CrashPromise ==
    ASSUME PromiseInv, Crash PROVE PromiseInv'
BY DEF Crash, disk, PromiseInv, Kept, Drop

\* Every step keeps the promises.
LEMMA NextPromise ==
    ASSUME IInv, PromiseInv, [Next]_vars PROVE PromiseInv'
<1>1. CASE create_directories
  BY <1>1, SamePromise DEF create_directories, Refuse, Return, disk
<1>2. CASE open_temporary \/ write_temporary
  BY <1>2, SamePromise DEF open_temporary, write_temporary, Refuse, Return, disk
<1>3. CASE load_from_storage
  BY <1>3, SamePromise DEF load_from_storage, disk
<1>4. CASE UNCHANGED vars
  BY <1>4 DEF vars, PromiseInv, Kept, NowPromised, InDoubt, Drop
<1> QED
  BY <1>1, <1>2, <1>3, <1>4, CallPromise, CommitPromise, PublishPromise, CrashPromise
     DEF Next

\* What MetadataStore has acknowledged is on disk between two calls and after
\* every crash: no failed call and no crash in a call about other files takes
\* it away.
THEOREM AcknowledgedStays == Spec => []PromiseKept
<1>1. Init => PromiseInv
  BY DEF Init, PromiseInv, Kept
<1>2. IInv /\ PromiseInv /\ [Next]_vars => PromiseInv'
  BY NextPromise
<1>3. PromiseInv => PromiseKept
  BY DEF PromiseInv, PromiseKept, Kept
<1> QED
  BY <1>1, <1>2, <1>3, StoreInvariant, PTL DEF Spec

-----------------------------------------------------------------------------
(* The tree on disk: the inductive invariant *)

\* The running write will put its file where there is no directory, and from
\* the opening of the temporary file on the directories are there.
WriteInv ==
    /\ pc \in {"mkdirs", "open", "write", "commit"} => op.path \notin dirs
    /\ pc \in {"open", "write", "commit"} => Ancestors(op.path) \subseteq dirs

TreeInv == TreeShape /\ WriteInv

\* The temporary files but for that of the running write.
LeftOver == IF pc \in {"write", "commit"} THEN DOMAIN tmps \ {op.path} ELSE DOMAIN tmps

\* Each temporary file that is left over is from a fault of its own.
LeftOverInv ==
    /\ IsFiniteSet(DOMAIN tmps)
    /\ Cardinality(LeftOver) <= faults

-----------------------------------------------------------------------------
(* Moving a directory *)

\* Entries whose directories exist, some of them moved with a directory to a
\* new place whose directories exist, find theirs at the new place.
LEMMA MovedHasParents ==
    ASSUME NEW D \in SUBSET Path, \A d \in D : Ancestors(d) \subseteq D,
           NEW old \in Path, NEW new \in Path, ParentIn(new, D), ~Inside(new, old),
           NEW X \in SUBSET Path, \A x \in X : Ancestors(x) \subseteq D,
           NEW M \in SUBSET X, \A q \in M : Inside(q, old) /\ Rebase(q, old, new) \in Path,
           \A q \in X \ M : q = old \/ ~Inside(q, old)
    PROVE  \A x \in MoveAll(X, M, old, new) :
               Ancestors(x) \subseteq MoveAll(D, {q \in D : Inside(q, old)}, old, new)
<1> DEFINE N == {q \in D : Inside(q, old)}
           E == MoveAll(D, N, old, new)
<1>1. \A a \in D : ~Inside(a, old) => a \in E
  BY DEF MoveAll
<1>2. \A a \in D : Inside(a, old) => Rebase(a, old, new) \in E
  BY DEF MoveAll
<1>3. ASSUME NEW x \in X \ M PROVE Ancestors(x) \subseteq E
  <2> SUFFICES ASSUME NEW a \in Ancestors(x) PROVE a \in E
    OBVIOUS
  <2>1. a \in D /\ a \in Path /\ x \in Path
    OBVIOUS
  <2>2. Inside(x, a) /\ Len(a) < Len(x) /\ Len(a) \in Nat /\ Len(x) \in Nat
    BY <2>1, AncestorIff, PathFacts
  <2>3. ~Inside(a, old)
    <3>1. CASE x = old
      BY <2>2, <3>1 DEF Inside
    <3>2. CASE x # old
      BY <2>1, <2>2, <3>2, InsideTransitive
    <3> QED BY <3>1, <3>2
  <2> QED BY <1>1, <2>1, <2>3
<1>4. ASSUME NEW q \in M PROVE Ancestors(Rebase(q, old, new)) \subseteq E
  <2> SUFFICES ASSUME NEW a \in Ancestors(Rebase(q, old, new)) PROVE a \in E
    OBVIOUS
  <2>1. q \in Path /\ Inside(q, old) /\ Rebase(q, old, new) \in Path /\ Ancestors(q) \subseteq D
    OBVIOUS
  <2>2. CASE a \in Ancestors(new)
    <3>1. a \in D /\ a \in Path
      BY <2>2, ParentAncestors
    <3>2. Inside(new, a)
      BY <2>2, <3>1, AncestorIff
    <3>3. ~Inside(a, old)
      BY <3>1, <3>2, InsideTransitive
    <3> QED BY <1>1, <3>1, <3>3
  <2>3. CASE \E b \in Ancestors(q) : Inside(b, old) /\ a = Rebase(b, old, new)
    BY <1>2, <2>1, <2>3
  <2> HIDE DEF E
  <2> QED BY <2>1, <2>2, <2>3, RebaseAncestors
<1> HIDE DEF E
<1> QED BY <1>3, <1>4 DEF MoveAll, E

\* In a tree, nothing is below a path that is not a directory of it.
LEMMA NothingBelow ==
    ASSUME NEW D \in SUBSET Path, NEW x \in Path, Ancestors(x) \subseteq D,
           NEW new \in Path, new \notin D, x # new
    PROVE  ~Inside(x, new)
BY InsideCases

\* Files and directories that were apart are apart after some of them moved
\* to a place where there was nothing.
LEMMA MovedApart ==
    ASSUME NEW D \in SUBSET Path, NEW F \in SUBSET Path, F \cap D = {},
           \A x \in F \cup D : Ancestors(x) \subseteq D,
           NEW old \in Path, NEW new \in Path, new \notin F \cup D,
           NEW M \in SUBSET F, NEW N \in SUBSET D,
           \A q \in M \cup N : Inside(q, old) /\ Rebase(q, old, new) \in Path
    PROVE  MoveAll(F, M, old, new) \cap MoveAll(D, N, old, new) = {}
<1>1. ASSUME NEW x \in F \cup D, NEW q \in M \cup N PROVE x # Rebase(q, old, new)
  <2>1. ~Inside(x, new)
    BY NothingBelow
  <2>2. Inside(Rebase(q, old, new), new)
    BY RebaseInside
  <2> QED BY <2>1, <2>2
<1>2. ASSUME NEW p \in M, NEW q \in N PROVE Rebase(p, old, new) # Rebase(q, old, new)
  <2>1. p # q /\ p \in Path /\ q \in Path
    OBVIOUS
  <2> QED BY <2>1, RebaseInjective
<1> QED BY <1>1, <1>2 DEF MoveAll

-----------------------------------------------------------------------------
(* The tree stays a tree *)

\* A step that leaves the disk alone and begins no write.
LEMMA SameTree ==
    ASSUME TreeInv, UNCHANGED disk,
           \/ pc' \notin {"mkdirs", "open", "write", "commit"}
           \/ pc' = pc /\ op' = op
    PROVE  TreeInv'
BY DEF TreeInv, TreeShape, WriteInv, TmpPlaces, disk

\* The parts of TreeShape, with the types that the facts about paths need.
LEMMA TreeFacts ==
    ASSUME IInv, TreeInv
    PROVE  /\ DOMAIN files \in SUBSET Path /\ dirs \in SUBSET Path /\ DOMAIN tmps \in SUBSET Path
           /\ DOMAIN files \in SUBSET FileName
           /\ TmpPlaces \in SUBSET Path /\ TmpPlaces \cap FileName = {}
           /\ DOMAIN files \cap dirs = {} /\ TmpPlaces \cap dirs = {}
           /\ \A p \in DOMAIN files \cup dirs \cup TmpPlaces : Ancestors(p) \subseteq dirs
<1>1. /\ DOMAIN files \in SUBSET FileName /\ dirs \in SUBSET Path
      /\ DOMAIN tmps \in SUBSET FileName
  BY DEF IInv, TypeOK
<1>2. TmpPlaces \in SUBSET Path /\ TmpPlaces \cap FileName = {}
  BY <1>1, FileNameFacts, TemporaryFacts DEF TmpPlaces
<1> QED BY <1>1, <1>2, FileNameFacts DEF TreeInv, TreeShape

\* A write begins: its path is new, or that of a file.
LEMMA BeginTree ==
    ASSUME IInv, TreeInv, pc = "idle", NEW p, NEW m, begin_write(p, m),
           p \in DOMAIN files \/ ~exists(p)
    PROVE  TreeInv'
<1>1. p \notin dirs
  BY TreeFacts DEF exists
<1> QED BY <1>1 DEF begin_write, TreeInv, TreeShape, WriteInv, TmpPlaces, disk

\* add_metadata and update_metadata keep the tree.
LEMMA PutTree ==
    ASSUME IInv, TreeInv, pc = "idle", NEW p, NEW m, add_metadata(p, m) \/ update_metadata(p, m)
    PROVE  TreeInv'
<1>1. DOMAIN data = DOMAIN files
  BY DEF IInv, RamInv, Agreement, Loaded
<1>2. ASSUME NEW r, Refuse(r) PROVE TreeInv'
  BY <1>2, SameTree DEF Refuse, Return
<1> QED BY <1>1, <1>2, BeginTree DEF add_metadata, update_metadata

\* create_directories keeps the tree, done or failed half-way.
LEMMA MkdirsTree ==
    ASSUME IInv, TreeInv, create_directories
    PROVE  TreeInv'
<1> DEFINE missing == Ancestors(op.path) \ dirs
<1>1. op.path \in Path /\ op.path \notin dirs
  <2>1. op.path \in FileName
    BY DEF create_directories, IInv, TypeOK, Op, NoOp
  <2> QED BY <2>1, FileNameFacts DEF create_directories, TreeInv, WriteInv
<1>2. ASSUME NEW r, Refuse(r) PROVE TreeInv'
  BY <1>2, SameTree DEF Refuse, Return
<1>3. ASSUME NEW d \in missing, missing \cap (DOMAIN files \cup TmpPlaces) = {},
             ParentIn(d, dirs), dirs' = dirs \cup {d},
             UNCHANGED <<data, files, tmps, pc, op, reply, promised, faults>>
      PROVE  TreeInv'
  <2>1. d \in Path /\ d # op.path
    BY <1>1, AncestorsInPath, InsideSelf
  <2>2. Ancestors(d) \subseteq dirs
    BY <1>3, <2>1, TreeFacts, ParentAncestors
  <2>3. d \notin DOMAIN files \cup TmpPlaces
    BY <1>3
  <2>4. TmpPlaces' = TmpPlaces
    BY <1>3 DEF TmpPlaces
  <2> QED BY <1>1, <1>3, <2>1, <2>2, <2>3, <2>4, TreeFacts
          DEF create_directories, TreeInv, TreeShape, WriteInv
<1>4. ASSUME missing = {}, pc' = "open", UNCHANGED <<data, disk, op, reply, promised, faults>>
      PROVE  TreeInv'
  BY <1>1, <1>4 DEF TreeInv, TreeShape, WriteInv, TmpPlaces, disk
<1> QED BY <1>2, <1>3, <1>4 DEF create_directories

\* The steps on the temporary file keep the tree, and so does the rename that
\* puts it under its final name.
LEMMA WriteTree ==
    ASSUME IInv, TreeInv, open_temporary \/ write_temporary \/ commit_temporary
    PROVE  TreeInv'
<1>1. op.path \notin dirs /\ Ancestors(op.path) \subseteq dirs
  BY DEF open_temporary, write_temporary, commit_temporary, TreeInv, WriteInv
<1>2. DOMAIN tmps' \subseteq DOMAIN tmps \cup {op.path} /\ DOMAIN files' \subseteq DOMAIN files \cup {op.path}
  BY DEF open_temporary, write_temporary, commit_temporary, Refuse, disk, Set, Drop
<1>3. dirs' = dirs /\ (op' = op \/ pc' = "idle")
  BY DEF open_temporary, write_temporary, commit_temporary, Refuse, Return, disk
<1>4. Ancestors(TemporaryPath(op.path)) = Ancestors(op.path)
  <2>1. op.path \in FileName
    BY DEF open_temporary, write_temporary, commit_temporary, IInv, TypeOK, Op, NoOp
  <2> QED BY <2>1, FileNameFacts, TemporaryInside
<1>5. op.path \in DOMAIN tmps' => TemporaryPath(op.path) \notin dirs
  <2>1. CASE op.path \in DOMAIN tmps
    BY <2>1, TreeFacts DEF TmpPlaces
  <2>2. CASE op.path \notin DOMAIN tmps
    BY <2>2 DEF open_temporary, write_temporary, commit_temporary, Refuse, disk, Set, Drop
  <2> QED BY <2>1, <2>2
<1>6. /\ TmpPlaces' \cap dirs = {}
      /\ \A t \in TmpPlaces' : Ancestors(t) \subseteq dirs
  BY <1>1, <1>2, <1>4, <1>5, TreeFacts DEF TmpPlaces
<1> QED BY <1>1, <1>2, <1>3, <1>6, TreeFacts DEF TreeInv, TreeShape, WriteInv

\* remove_metadata takes a leaf.
LEMMA RemoveTree ==
    ASSUME TreeInv, pc = "idle", NEW p, remove_metadata(p)
    PROVE  TreeInv'
<1>1. ASSUME NEW r, Refuse(r) PROVE TreeInv'
  BY <1>1, SameTree DEF Refuse, Return
<1>2. ASSUME files' = Drop(files, {p}), pc' = "publish", UNCHANGED <<dirs, tmps>> PROVE TreeInv'
  <2>1. DOMAIN files' \subseteq DOMAIN files
    BY <1>2 DEF Drop
  <2> QED BY <1>2, <2>1 DEF TreeInv, TreeShape, WriteInv, TmpPlaces
<1> QED BY <1>1, <1>2 DEF remove_metadata

\* make_directory adds a leaf, remove_directory takes one.
LEMMA DirectoryTree ==
    ASSUME IInv, TreeInv, pc = "idle", NEW p, make_directory(p) \/ remove_directory(p)
    PROVE  TreeInv'
<1>1. ASSUME NEW r, Refuse(r) PROVE TreeInv'
  BY <1>1, SameTree DEF Refuse, Return
<1>2. ASSUME p \in FileName, ParentIn(p, dirs), ~exists(p), dirs' = dirs \cup {p}, Return("OK"),
             UNCHANGED <<files, tmps>>
      PROVE  TreeInv'
  <2>1. Ancestors(p) \subseteq dirs
    BY <1>2, FileNameFacts, TreeFacts, ParentAncestors
  <2>2. p \notin TmpPlaces /\ TmpPlaces' = TmpPlaces
    BY <1>2, TreeFacts DEF TmpPlaces
  <2> QED BY <1>2, <2>1, <2>2 DEF exists, Return, TreeInv, TreeShape, WriteInv
<1>3. ASSUME p \in dirs, Empty(p), dirs' = dirs \ {p}, Return("OK"), UNCHANGED <<files, tmps>>
      PROVE  TreeInv'
  <2>1. ASSUME NEW q \in DOMAIN files \cup dirs \cup TmpPlaces PROVE p \notin Ancestors(q)
    <3>1. q \in Path /\ p \in Path
      BY <1>3, TreeFacts
    <3>2. CASE q = p
      BY <3>1, <3>2, InsideSelf
    <3>3. CASE q # p
      BY <1>3, <3>1, <3>3, AncestorIff DEF Empty
    <3> QED BY <3>2, <3>3
  <2>2. TmpPlaces' = TmpPlaces
    BY <1>3 DEF TmpPlaces
  <2> QED BY <1>3, <2>1, <2>2 DEF Return, TreeInv, TreeShape, WriteInv
<1> QED BY <1>1, <1>2, <1>3, FileNameFacts DEF make_directory, remove_directory

\* What a rename that reaches the disk moves: everything inside old, whether
\* old is a file or a directory, and nothing else.
LEMMA RenameMoves ==
    ASSUME IInv, TreeInv, pc = "idle", NEW old, NEW new, rename(old, new), pc' = "publish"
    PROVE  /\ old \in Path /\ new \in Path /\ new \in FileName /\ old \in DOMAIN files \cup dirs
           /\ new \notin DOMAIN files \cup dirs /\ ParentIn(new, dirs) /\ ~Inside(new, old)
           /\ \A q \in MovedFiles(old) \cup MovedDirs(old) \cup MovedTmps(old) :
                 Inside(q, old) /\ Rebase(q, old, new) \in Path
           /\ files' = MoveKeys(files, MovedFiles(old), old, new)
           /\ dirs' = MoveAll(dirs, MovedDirs(old), old, new)
           /\ tmps' = MoveKeys(tmps, MovedTmps(old), old, new)
           /\ MovedFiles(old) = {q \in DOMAIN files : Inside(q, old)}
           /\ MovedDirs(old) = {q \in dirs : Inside(q, old)}
           /\ MovedTmps(old) = {q \in DOMAIN tmps : Inside(TemporaryPath(q), old)}
           /\ \A q \in MovedTmps(old) : Len(old) < Len(q)
<1>0. /\ old \in FileName /\ new \in FileName
      /\ \A q \in MovedFiles(old) \cup MovedDirs(old) \cup MovedTmps(old) :
            Len(Rebase(q, old, new)) <= MaxDepth
  BY FileNameFacts DEF rename, Refuse, Return
<1>1. /\ old \in Path /\ new \in Path /\ new \in FileName /\ exists(old) /\ ~exists(new)
      /\ ParentIn(new, dirs) /\ ~Inside(new, old)
      /\ \A q \in MovedFiles(old) \cup MovedDirs(old) \cup MovedTmps(old) :
            Inside(q, old) /\ Rebase(q, old, new) \in Path
      /\ \A q \in MovedTmps(old) : Len(old) < Len(q)
      /\ files' = MoveKeys(files, MovedFiles(old), old, new)
      /\ dirs' = MoveAll(dirs, MovedDirs(old), old, new)
      /\ tmps' = MoveKeys(tmps, MovedTmps(old), old, new)
  BY <1>0, MovedInPath, FileNameFacts DEF rename, Refuse, Return
<1>2. Inside(old, old)
  BY <1>1, InsideSelf
<1>3. CASE old \in DOMAIN files
  <2>1. old \notin dirs
    BY <1>3, TreeFacts
  <2>2. ASSUME NEW q \in DOMAIN files \cup dirs \cup TmpPlaces, q # old PROVE ~Inside(q, old)
    BY <1>1, <2>1, <2>2, TreeFacts, NothingBelow
  <2>3. MovedFiles(old) = {old} /\ MovedDirs(old) = {} /\ MovedTmps(old) = {}
    BY <1>3 DEF MovedFiles, MovedDirs, MovedTmps
  <2>4. \A q \in DOMAIN tmps : ~Inside(TemporaryPath(q), old)
    BY <1>0, <2>2, TreeFacts DEF TmpPlaces
  <2> QED BY <1>1, <1>2, <1>3, <2>1, <2>2, <2>3, <2>4 DEF exists
<1>4. CASE old \notin DOMAIN files
  <2>1. /\ MovedFiles(old) = {q \in DOMAIN files : Inside(q, old)}
        /\ MovedDirs(old) = {q \in dirs : Inside(q, old)}
        /\ MovedTmps(old) = {q \in DOMAIN tmps : Inside(TemporaryPath(q), old)}
    BY <1>4 DEF MovedFiles, MovedDirs, MovedTmps
  <2> QED BY <1>1, <2>1 DEF exists
<1> QED BY <1>3, <1>4

\* rename keeps the tree, refused or not.
LEMMA RenameTree ==
    ASSUME IInv, TreeInv, pc = "idle", NEW old, NEW new, rename(old, new)
    PROVE  TreeInv'
<1>1. CASE pc' # "publish"
  <2>1. \E r : Refuse(r)
    BY <1>1 DEF rename
  <2> QED BY <2>1, SameTree DEF Refuse, Return
<1>2. CASE pc' = "publish"
  <2> DEFINE F == MovedFiles(old)
             D == MovedDirs(old)
             T == MovedTmps(old)
             P == {TemporaryPath(q) : q \in T}
  <2>1. /\ old \in Path /\ new \in Path /\ new \in FileName /\ new \notin DOMAIN files \cup dirs
        /\ ParentIn(new, dirs) /\ ~Inside(new, old)
        /\ \A q \in F \cup D \cup T : Inside(q, old) /\ Rebase(q, old, new) \in Path
        /\ files' = MoveKeys(files, F, old, new) /\ dirs' = MoveAll(dirs, D, old, new)
        /\ tmps' = MoveKeys(tmps, T, old, new)
        /\ F = {q \in DOMAIN files : Inside(q, old)} /\ D = {q \in dirs : Inside(q, old)}
        /\ T = {q \in DOMAIN tmps : Inside(TemporaryPath(q), old)}
        /\ \A q \in T : Len(old) < Len(q)
    BY <1>2, RenameMoves
  <2> HIDE DEF F, D, T
  <2>2. /\ DOMAIN files' = MoveAll(DOMAIN files, F, old, new)
        /\ DOMAIN tmps' = MoveAll(DOMAIN tmps, T, old, new)
    BY <2>1 DEF MoveKeys
  <2>3. /\ F \in SUBSET DOMAIN files /\ D \in SUBSET dirs /\ P \in SUBSET TmpPlaces
        /\ P = {t \in TmpPlaces : Inside(t, old)}
    BY <2>1 DEF TmpPlaces
  <2>8. \A q \in T : /\ Inside(TemporaryPath(q), old)
                     /\ TemporaryPath(Rebase(q, old, new)) = Rebase(TemporaryPath(q), old, new)
                     /\ TemporaryPath(Rebase(q, old, new)) \in Path
    BY <2>1, TreeFacts, RebaseTemporary, TemporaryFacts
  <2>9. TmpPlaces' = MoveAll(TmpPlaces, P, old, new)
    <3>1. TmpPlaces' = {TemporaryPath(q) : q \in DOMAIN tmps \ T}
                          \cup {TemporaryPath(Rebase(q, old, new)) : q \in T}
      BY <2>2 DEF TmpPlaces, MoveAll
    <3>2. {TemporaryPath(q) : q \in DOMAIN tmps \ T} = TmpPlaces \ P
      BY <2>1, <2>3 DEF TmpPlaces
    <3>3. {TemporaryPath(Rebase(q, old, new)) : q \in T} = {Rebase(t, old, new) : t \in P}
      BY <2>8
    <3> HIDE DEF P
    <3> QED BY <3>1, <3>2, <3>3 DEF MoveAll
  <2>10. \A t \in P : Inside(t, old) /\ Rebase(t, old, new) \in Path
    BY <2>8
  <2> HIDE DEF P
  <2>4. DOMAIN files' \cap dirs' = {}
    BY <2>1, <2>2, <2>3, TreeFacts, MovedApart
  <2>11. TmpPlaces' \cap dirs' = {}
    <3>1. new \notin TmpPlaces \cup dirs
      BY <2>1, TreeFacts
    <3> QED BY <2>1, <2>3, <2>9, <2>10, <3>1, TreeFacts, MovedApart
  <2>5. \A x \in DOMAIN files' : Ancestors(x) \subseteq dirs'
    <3>1. \A q \in DOMAIN files \ F : q = old \/ ~Inside(q, old)
      BY <2>1
    <3> QED BY <2>1, <2>2, <2>3, <3>1, TreeFacts, MovedHasParents
  <2>6. \A x \in dirs' : Ancestors(x) \subseteq dirs'
    <3>1. \A q \in dirs \ D : q = old \/ ~Inside(q, old)
      BY <2>1
    <3> QED BY <2>1, <2>2, <2>3, <3>1, TreeFacts, MovedHasParents
  <2>7. \A x \in TmpPlaces' : Ancestors(x) \subseteq dirs'
    <3>1. \A t \in TmpPlaces \ P : t = old \/ ~Inside(t, old)
      BY <2>3
    <3> QED BY <2>1, <2>3, <2>9, <2>10, <3>1, TreeFacts, MovedHasParents
  <2> QED BY <1>2, <2>4, <2>5, <2>6, <2>7, <2>11 DEF TreeInv, TreeShape, WriteInv
<1> QED BY <1>1, <1>2

\* Every step keeps the tree.
LEMMA NextTree == ASSUME IInv, TreeInv, [Next]_vars PROVE TreeInv'
<1>1. CASE Call
  BY <1>1, PutTree, RemoveTree, DirectoryTree, RenameTree DEF Call
<1>2. CASE publish \/ Crash \/ load_from_storage
  BY <1>2, SameTree DEF publish, Return, Crash, load_from_storage
<1>3. CASE UNCHANGED vars
  BY <1>3, SameTree DEF vars, disk
<1> QED BY <1>1, <1>2, <1>3, MkdirsTree, WriteTree DEF Next

\* TreeInv holds in every reachable state.
THEOREM TreeInvariant == Spec => []TreeInv
<1>1. Init => TreeInv
  BY DEF Init, TreeInv, TreeShape, WriteInv, TmpPlaces
<1>2. IInv /\ TreeInv /\ [Next]_vars => TreeInv'
  BY NextTree
<1> QED BY <1>1, <1>2, StoreInvariant, PTL DEF Spec

\* Whatever MetadataStore is asked to write, remove or rename, and wherever it
\* fails or dies, the directory of metadata files stays a tree.
THEOREM DiskIsTree == Spec => []TreeShape
<1>1. TreeInv => TreeShape
  BY DEF TreeInv
<1> QED BY <1>1, TreeInvariant, PTL

-----------------------------------------------------------------------------
(* What list shows *)

\* Moving some of finitely many entries makes no more of them.
LEMMA MovedFinite ==
    ASSUME NEW X, IsFiniteSet(X), NEW M \in SUBSET X, NEW old, NEW new
    PROVE  /\ IsFiniteSet(MoveAll(X, M, old, new))
           /\ Cardinality(MoveAll(X, M, old, new)) <= Cardinality(X)
<1> DEFINE Y == MoveAll(X, M, old, new)
           f == [x \in X |-> IF x \in M THEN Rebase(x, old, new) ELSE x]
<1>1. f \in [X -> Y]
  BY DEF MoveAll
<1>2. \A y \in Y : \E x \in X : f[x] = y
  BY DEF MoveAll
<1> HIDE DEF f, Y
<1>3. f \in Surjection(X, Y)
  BY <1>1, <1>2 DEF Surjection
<1>4. IsFiniteSet(Y) /\ Cardinality(Y) <= Cardinality(X)
  BY <1>3, FS_Surjection
<1> QED BY <1>4 DEF Y

\* Every step keeps LeftOverInv: only a fault leaves a temporary file, and it
\* leaves that of the running write.
LEMMA NextLeftOver == ASSUME IInv, TreeInv, LeftOverInv, [Next]_vars PROVE LeftOverInv'
<1>1. /\ IsFiniteSet(DOMAIN tmps) /\ IsFiniteSet(LeftOver) /\ Cardinality(LeftOver) \in Nat
      /\ Cardinality(LeftOver) <= faults /\ faults \in Nat
  <2>1. IsFiniteSet(DOMAIN tmps) /\ LeftOver \in SUBSET DOMAIN tmps
    BY DEF LeftOverInv, LeftOver
  <2>2. IsFiniteSet(LeftOver)
    BY <2>1, FS_Subset
  <2> QED BY <2>1, <2>2, FS_CardinalityType, BoundsAssumption DEF LeftOverInv, IInv, TypeOK
<1>2. ASSUME DOMAIN tmps' \in SUBSET (DOMAIN tmps \cup {op.path}), LeftOver' \in SUBSET LeftOver,
             faults' = faults
      PROVE  LeftOverInv'
  <2>1. IsFiniteSet(DOMAIN tmps')
    BY <1>1, <1>2, FS_AddElement, FS_Subset
  <2>2. Cardinality(LeftOver') <= Cardinality(LeftOver) /\ IsFiniteSet(LeftOver')
    BY <1>1, <1>2, FS_Subset
  <2>3. Cardinality(LeftOver') \in Nat
    BY <2>2, FS_CardinalityType
  <2> QED BY <1>1, <1>2, <2>1, <2>2, <2>3 DEF LeftOverInv
<1>3. ASSUME DOMAIN tmps' \in SUBSET (LeftOver \cup {op.path}), faults' = faults + 1,
             LeftOver' = DOMAIN tmps'
      PROVE  LeftOverInv'
  <2> DEFINE S == LeftOver \cup {op.path}
  <2>1. IsFiniteSet(S) /\ Cardinality(S) <= Cardinality(LeftOver) + 1 /\ Cardinality(S) \in Nat
    <3>1. /\ IsFiniteSet(S)
          /\ Cardinality(S) = IF op.path \in LeftOver THEN Cardinality(LeftOver)
                              ELSE Cardinality(LeftOver) + 1
      BY <1>1, FS_AddElement
    <3> HIDE DEF S
    <3> QED BY <1>1, <3>1
  <2>2. IsFiniteSet(DOMAIN tmps') /\ Cardinality(DOMAIN tmps') <= Cardinality(S)
    BY <1>3, <2>1, FS_Subset
  <2>3. Cardinality(DOMAIN tmps') \in Nat
    BY <2>2, FS_CardinalityType
  <2> HIDE DEF S
  <2> QED BY <1>1, <1>3, <2>1, <2>2, <2>3 DEF LeftOverInv
<1>4. ASSUME UNCHANGED <<tmps, faults>>, pc \notin {"write", "commit"}, pc' \notin {"write", "commit"}
      PROVE  LeftOverInv'
  BY <1>2, <1>4 DEF LeftOver
<1>5. CASE open_temporary
  <2>1. ASSUME Refuse("WRITE_FAILURE") PROVE LeftOverInv'
    BY <1>4, <1>5, <2>1 DEF open_temporary, Refuse, Return, disk
  <2>2. ASSUME tmps' = Set(tmps, op.path, Torn), pc' = "write", op' = op, faults' = faults
        PROVE  LeftOverInv'
    <3>1. DOMAIN tmps' = DOMAIN tmps \cup {op.path}
      BY <2>2 DEF Set
    <3>2. LeftOver' \in SUBSET LeftOver
      BY <1>5, <2>2, <3>1 DEF open_temporary, LeftOver
    <3> QED BY <1>2, <2>2, <3>1, <3>2
  <2> QED BY <1>5, <2>1, <2>2 DEF open_temporary
<1>6. CASE write_temporary
  <2>1. ASSUME tmps' = [tmps EXCEPT ![op.path] = op.meta], pc' = "commit", op' = op, faults' = faults
        PROVE  LeftOverInv'
    <3>1. DOMAIN tmps' = DOMAIN tmps
      BY <2>1
    <3>2. LeftOver' = LeftOver
      BY <1>6, <2>1, <3>1 DEF write_temporary, LeftOver
    <3> QED BY <1>2, <2>1, <3>1, <3>2
  <2>2. ASSUME faults' = faults + 1, Return("WRITE_FAILURE"), tmps' = tmps PROVE LeftOverInv'
    <3>1. DOMAIN tmps' \in SUBSET (LeftOver \cup {op.path}) /\ LeftOver' = DOMAIN tmps'
      BY <1>6, <2>2 DEF write_temporary, Return, LeftOver
    <3> QED BY <1>3, <2>2, <3>1
  <2> QED BY <1>6, <2>1, <2>2 DEF write_temporary, disk
<1>7. CASE commit_temporary
  <2>1. ASSUME tmps' = Drop(tmps, {op.path}), pc' = "publish", faults' = faults PROVE LeftOverInv'
    <3>1. DOMAIN tmps' = DOMAIN tmps \ {op.path}
      BY <2>1 DEF Drop
    <3>2. LeftOver' = LeftOver
      BY <1>7, <2>1, <3>1 DEF commit_temporary, LeftOver
    <3> QED BY <1>2, <2>1, <3>1, <3>2
  <2>2. ASSUME faults' = faults + 1, Return("WRITE_FAILURE"), tmps' \in {tmps, Drop(tmps, {op.path})}
        PROVE  LeftOverInv'
    <3>1. DOMAIN tmps' \in SUBSET DOMAIN tmps
      BY <2>2 DEF Drop
    <3>2. DOMAIN tmps' \in SUBSET (LeftOver \cup {op.path}) /\ LeftOver' = DOMAIN tmps'
      BY <1>7, <2>2, <3>1 DEF commit_temporary, Return, LeftOver
    <3> QED BY <1>3, <2>2, <3>2
  <2> QED BY <1>7, <2>1, <2>2 DEF commit_temporary
<1>8. CASE Crash
  <2>1. DOMAIN tmps' \in SUBSET (LeftOver \cup {op.path}) /\ LeftOver' = DOMAIN tmps'
    BY <1>8 DEF Crash, disk, LeftOver
  <2> QED BY <1>3, <1>8, <2>1 DEF Crash
<1>9. ASSUME pc = "idle", NEW old, NEW new, rename(old, new) PROVE LeftOverInv'
  <2>1. CASE pc' # "publish"
    BY <1>4, <1>9, <2>1 DEF rename, Refuse, Return, disk
  <2>2. CASE pc' = "publish"
    <3>1. /\ tmps' = MoveKeys(tmps, MovedTmps(old), old, new)
          /\ MovedTmps(old) \in SUBSET DOMAIN tmps /\ faults' = faults
      BY <1>9, <2>2, RenameMoves DEF rename, Refuse, Return
    <3>2. DOMAIN tmps' = MoveAll(DOMAIN tmps, MovedTmps(old), old, new)
      BY <3>1 DEF MoveKeys
    <3>3. /\ IsFiniteSet(DOMAIN tmps') /\ Cardinality(DOMAIN tmps') <= Cardinality(DOMAIN tmps)
          /\ Cardinality(DOMAIN tmps') \in Nat
      BY <1>1, <3>1, <3>2, MovedFinite, FS_CardinalityType
    <3>4. LeftOver' = DOMAIN tmps' /\ LeftOver = DOMAIN tmps
      BY <1>9, <2>2 DEF LeftOver
    <3> QED BY <1>1, <3>1, <3>3, <3>4 DEF LeftOverInv
  <2> QED BY <2>1, <2>2
<1>10. CASE Call
  <2>1. pc = "idle"
    BY <1>10 DEF Call
  <2>2. ASSUME NEW p, NEW m, add_metadata(p, m) \/ update_metadata(p, m) PROVE LeftOverInv'
    BY <1>4, <2>1, <2>2 DEF add_metadata, update_metadata, begin_write, Refuse, Return, disk
  <2>3. ASSUME NEW p, remove_metadata(p) \/ make_directory(p) \/ remove_directory(p)
        PROVE  LeftOverInv'
    BY <1>4, <2>1, <2>3 DEF remove_metadata, make_directory, remove_directory, Refuse, Return, disk
  <2> QED BY <1>9, <1>10, <2>1, <2>2, <2>3 DEF Call
<1>11. CASE create_directories
  BY <1>4, <1>11 DEF create_directories, Refuse, Return, disk
<1>12. CASE publish \/ load_from_storage
  BY <1>4, <1>12 DEF publish, load_from_storage, Return, disk
<1>13. CASE UNCHANGED vars
  BY <1>13 DEF vars, LeftOverInv, LeftOver
<1> QED BY <1>5, <1>6, <1>7, <1>8, <1>10, <1>11, <1>12, <1>13 DEF Next

\* Of all names the store accepts list and stat say the same, and each ".tmp"
\* file that list shows besides is from a failed write or a crash of its own.
THEOREM ListAgreesWithStat == Spec => []ListingMatchesStat
<1>1. Init => LeftOverInv
  <2> SUFFICES ASSUME Init PROVE LeftOverInv
    OBVIOUS
  <2>1. DOMAIN tmps = {} /\ LeftOver = {} /\ faults = 0
    BY DEF Init, LeftOver
  <2> QED BY <2>1, FS_EmptySet DEF LeftOverInv
<1>2. IInv /\ TreeInv /\ LeftOverInv /\ [Next]_vars => LeftOverInv'
  BY NextLeftOver
<1>3. IInv /\ TreeInv /\ LeftOverInv => ListingMatchesStat
  <2> SUFFICES ASSUME IInv, TreeInv, LeftOverInv, pc = "idle" PROVE ListingMatchesStat
    BY DEF ListingMatchesStat
  <2>1. DOMAIN data = DOMAIN files
    BY DEF IInv, RamInv, Agreement, Loaded
  <2>2. ASSUME NEW d, NEW e \in list(d)
        PROVE  \/ e.path \in DOMAIN files /\ e.type = "FILE"
               \/ e.path \in dirs /\ e.type = "DIRECTORY"
               \/ e.path \in TmpPlaces /\ e.type = "FILE"
    BY <2>2 DEF list, Listed
  <2>3. ASSUME NEW d, NEW e \in list(d), valid_filename(e.path) PROVE stat(e.path) = e.type
    <3>1. e.path \notin TmpPlaces
      BY <2>3, TreeFacts, FileNameFacts
    <3>2. CASE e.path \in DOMAIN files /\ e.type = "FILE"
      BY <2>1, <2>3, <3>2 DEF stat, get_metadata
    <3>3. CASE e.path \in dirs /\ e.type = "DIRECTORY"
      <4>1. e.path \notin DOMAIN data
        BY <2>1, <3>3, TreeFacts
      <4> QED BY <2>3, <3>3, <4>1 DEF stat, get_metadata
    <3> QED BY <2>2, <3>1, <3>2, <3>3
  <2>4. ASSUME NEW d, NEW p \in Listed(d, FileName), stat(p) \in {"FILE", "DIRECTORY"}
        PROVE  [path |-> p, type |-> stat(p)] \in list(d)
    <3>1. \A S : p \in S => p \in Listed(d, S)
      BY DEF Listed
    <3>2. CASE stat(p) = "FILE"
      <4>1. p \in Listed(d, DOMAIN files)
        BY <2>1, <3>1, <3>2 DEF stat, get_metadata
      <4> QED BY <3>2, <4>1 DEF list
    <3>3. CASE stat(p) = "DIRECTORY"
      <4>1. p \in Listed(d, dirs)
        BY <3>1, <3>3 DEF stat, get_metadata
      <4> QED BY <3>3, <4>1 DEF list
    <3> QED BY <2>4, <3>2, <3>3
  <2> DEFINE S == {e \in UNION {list(d) : d \in dirs \cup {<< >>}} :
                      e.type = "FILE" /\ ~valid_filename(e.path)}
  <2>5. Cardinality(S) <= faults
    <3> DEFINE Shown == {[path |-> TemporaryPath(q), type |-> "FILE"] : q \in DOMAIN tmps}
               g == [q \in DOMAIN tmps |-> [path |-> TemporaryPath(q), type |-> "FILE"]]
    <3>1. S \subseteq Shown
      <4> SUFFICES ASSUME NEW e \in S PROVE e \in Shown
        OBVIOUS
      <4>1. PICK d : e \in list(d)
        OBVIOUS
      <4>2. e.path \in TmpPlaces /\ e.type = "FILE"
        BY <2>2, <4>1, TreeFacts, FileNameFacts
      <4>3. e = [path |-> e.path, type |-> "FILE"]
        BY <4>1, <4>2 DEF list
      <4> QED BY <4>2, <4>3 DEF TmpPlaces
    <3>2. g \in Surjection(DOMAIN tmps, Shown)
      BY DEF Surjection
    <3>3. IsFiniteSet(DOMAIN tmps) /\ Cardinality(DOMAIN tmps) <= faults
      BY DEF LeftOverInv, LeftOver
    <3> HIDE DEF Shown, g, S
    <3>4. IsFiniteSet(Shown) /\ Cardinality(Shown) <= Cardinality(DOMAIN tmps)
      BY <3>2, <3>3, FS_Surjection
    <3>5. IsFiniteSet(S) /\ Cardinality(S) <= Cardinality(Shown)
      BY <3>1, <3>4, FS_Subset
    <3>6. /\ Cardinality(S) \in Nat /\ Cardinality(Shown) \in Nat
          /\ Cardinality(DOMAIN tmps) \in Nat /\ faults \in Nat
      BY <3>3, <3>4, <3>5, FS_CardinalityType, BoundsAssumption DEF IInv, TypeOK
    <3> QED BY <3>3, <3>4, <3>5, <3>6
  <2> QED BY <2>3, <2>4, <2>5 DEF ListingMatchesStat
<1> QED BY <1>1, <1>2, <1>3, StoreInvariant, TreeInvariant, PTL DEF Spec

-----------------------------------------------------------------------------
(* The store implements Namespace *)

\* The operators of Namespace are those of the store.
LEMMA SamePaths ==
    /\ NS!Path = Path
    /\ \A p, q : NS!Inside(p, q) = Inside(p, q)
    /\ \A p, D : NS!ParentIn(p, D) = ParentIn(p, D)
    /\ \A S, M, p, q : NS!MoveAll(S, M, p, q) = MoveAll(S, M, p, q)
    /\ \A f, M, p, q : NS!MoveKeys(f, M, p, q) = MoveKeys(f, M, p, q)
BY DEF NS!Component, Component, NS!Path, Path, NS!Inside, Inside, NS!ParentIn, ParentIn, NS!Rebase, Rebase,
       NS!MoveAll, MoveAll, NS!MoveKeys, MoveKeys

\* A step of the store that is none of the tree.
NoTreeStep == UNCHANGED <<files, dirs>>

\* A write changes the tree when the temporary file gets its final name.
LEMMA CommitRefines ==
    ASSUME IInv, TreeInv, commit_temporary
    PROVE  NS!Next \/ NoTreeStep
<1>1. CASE files' = Set(files, op.path, tmps[op.path]) /\ dirs' = dirs
  <2>1. op.path \in Path /\ op.meta \in Meta /\ tmps[op.path] = op.meta
    BY FileNameFacts DEF commit_temporary, IInv, TypeOK, TmpInv, Op, NoOp
  <2>2. op.path \notin dirs /\ Ancestors(op.path) \subseteq dirs
    BY DEF commit_temporary, TreeInv, WriteInv
  <2>3. ParentIn(op.path, dirs)
    BY <2>1, <2>2, TreeFacts, ParentAncestors
  <2>4. NS!PutFile(op.path, op.meta)
    BY <1>1, <2>1, <2>2, <2>3, SamePaths DEF NS!PutFile, Set
  <2> QED BY <2>1, <2>4, SamePaths DEF NS!Next
<1>2. CASE UNCHANGED <<files, dirs>>
  BY <1>2 DEF NoTreeStep
<1> QED BY <1>1, <1>2 DEF commit_temporary

\* create_directories adds one directory at a time.
LEMMA MkdirsRefines ==
    ASSUME IInv, TreeInv, create_directories
    PROVE  NS!Next \/ NoTreeStep
<1> DEFINE missing == Ancestors(op.path) \ dirs
<1>1. op.path \in Path
  BY FileNameFacts DEF create_directories, IInv, TypeOK, Op, NoOp
<1>2. ASSUME NEW d \in missing, missing \cap DOMAIN files = {}, ParentIn(d, dirs),
             dirs' = dirs \cup {d}, files' = files
      PROVE  NS!Next
  <2>1. d \in Path /\ d \notin DOMAIN files \cup dirs
    BY <1>1, <1>2, AncestorsInPath
  <2>2. NS!AddDir(d)
    BY <1>2, <2>1, SamePaths DEF NS!AddDir, NS!Entries
  <2> QED BY <2>1, <2>2, SamePaths DEF NS!Next
<1>3. ASSUME UNCHANGED disk PROVE NoTreeStep
  BY <1>3 DEF disk, NoTreeStep
<1> QED BY <1>2, <1>3 DEF create_directories, Refuse

\* remove_metadata, make_directory and remove_directory are one step each.
LEMMA LeafRefines ==
    ASSUME IInv, NEW p, remove_metadata(p) \/ make_directory(p) \/ remove_directory(p)
    PROVE  NS!Next \/ NoTreeStep
<1>1. DOMAIN files \subseteq Path /\ dirs \subseteq Path
  BY FileNameFacts DEF IInv, TypeOK
<1>2. ASSUME p \in DOMAIN files, files' = Drop(files, {p}), dirs' = dirs PROVE NS!Next
  <2>1. NS!DropFile(p)
    BY <1>2 DEF NS!DropFile, Drop
  <2> QED BY <1>1, <1>2, <2>1, SamePaths DEF NS!Next, NS!Entries
<1>3. ASSUME p \in Path, ParentIn(p, dirs), ~exists(p), dirs' = dirs \cup {p}, files' = files
      PROVE  NS!Next
  <2>1. NS!AddDir(p)
    BY <1>3, SamePaths DEF NS!AddDir, NS!Entries, exists
  <2> QED BY <1>3, <2>1, SamePaths DEF NS!Next
<1>4. ASSUME p \in dirs, Empty(p), dirs' = dirs \ {p}, files' = files PROVE NS!Next
  <2>1. NS!DropDir(p)
    BY <1>4, SamePaths DEF NS!DropDir, NS!Entries, Empty
  <2> QED BY <1>1, <1>4, <2>1, SamePaths DEF NS!Next, NS!Entries
<1>5. ASSUME NEW r, Refuse(r) PROVE NoTreeStep
  BY <1>5 DEF Refuse, disk, NoTreeStep
<1> QED BY <1>2, <1>3, <1>4, <1>5
        DEF remove_metadata, make_directory, remove_directory, valid_filename

\* rename moves a file, or a directory with all that is in it, at once.
LEMMA RenameRefines ==
    ASSUME IInv, TreeInv, pc = "idle", NEW old, NEW new, rename(old, new)
    PROVE  NS!Next \/ NoTreeStep
<1>1. CASE pc' # "publish"
  <2>1. \E r : Refuse(r)
    BY <1>1 DEF rename
  <2> QED BY <2>1 DEF Refuse, disk, NoTreeStep
<1>2. CASE pc' = "publish"
  <2>1. NS!Move(old, new)
    <3>1. /\ old \in DOMAIN files \cup dirs /\ new \notin DOMAIN files \cup dirs
          /\ ParentIn(new, dirs) /\ ~Inside(new, old)
          /\ files' = MoveKeys(files, MovedFiles(old), old, new)
          /\ dirs' = MoveAll(dirs, MovedDirs(old), old, new)
      BY <1>2, RenameMoves
    <3>2. /\ MovedFiles(old) = {q \in DOMAIN files : NS!Inside(q, old)}
          /\ MovedDirs(old) = {q \in dirs : NS!Inside(q, old)}
      BY <1>2, RenameMoves, SamePaths
    <3> QED BY <3>1, <3>2, SamePaths DEF NS!Move, NS!Entries
  <2>2. old \in Path /\ new \in Path
    BY <1>2, RenameMoves
  <2>3. old \in NS!Entries
    BY <2>1 DEF NS!Move
  <2> QED BY <2>1, <2>2, <2>3, SamePaths DEF NS!Next
<1> QED BY <1>1, <1>2

\* MetadataStore implements Namespace: every step, failures and crashes
\* included, is one atomic change of a durable tree or none.
THEOREM StoreImplementsTree == Spec => TreeSpec
<1>1. Init => NS!Init
  BY DEF Init, NS!Init
<1>2. ASSUME IInv, TreeInv, [Next]_vars PROVE NS!Next \/ NoTreeStep
  <2>1. CASE Call
    <3>1. pc = "idle"
      BY <2>1 DEF Call
    <3>2. ASSUME NEW p, NEW m, add_metadata(p, m) \/ update_metadata(p, m) PROVE NoTreeStep
      BY <3>2 DEF add_metadata, update_metadata, begin_write, Refuse, disk, NoTreeStep
    <3> QED BY <1>2, <2>1, <3>1, <3>2, LeafRefines, RenameRefines DEF Call
  <2>2. CASE open_temporary \/ write_temporary \/ publish \/ Crash \/ load_from_storage
    BY <2>2 DEF open_temporary, write_temporary, publish, Crash, load_from_storage, Refuse, disk,
                NoTreeStep
  <2>3. CASE UNCHANGED vars
    BY <2>3 DEF vars, NoTreeStep
  <2> QED BY <1>2, <2>1, <2>2, <2>3, MkdirsRefines, CommitRefines DEF Next
<1>3. IInv /\ TreeInv /\ [Next]_vars => [NS!Next]_<<files, dirs>>
  BY <1>2 DEF NoTreeStep
<1> QED BY <1>1, <1>3, StoreInvariant, TreeInvariant, PTL DEF Spec, TreeSpec, NS!Spec
=============================================================================
