----------------------------- MODULE SyncProofs -----------------------------
(***************************************************************************)
(* Proofs about Trees and Sync.  First what the proofs about the listing   *)
(* rest on: how the prefixes of paths lie to each other, induction along a *)
(* path, and that a listing in pages leaves nothing out.  Then, for any    *)
(* trees, patterns, roots and numbers of tries, failures and changes by    *)
(* others: the variables keep their types, and a command that was not told *)
(* to delete loses nothing.                                                *)
(***************************************************************************)
EXTENDS Sync, SequenceTheorems, FiniteSetTheorems, WellFoundedInduction, TLAPS

-----------------------------------------------------------------------------
\* Trees are closed under what is done to them.
LEMMA LastType == ASSUME NEW p \in Path PROVE Last(p) \in Nat \ {0}
<1>1. p \in Seq(Nat \ {0}) /\ Len(p) \in 1..Len(p)
  BY PathAssumption
<1> QED BY <1>1 DEF Last

LEMMA EntryType ==
  ASSUME NEW keys, NEW d \in Dir, NEW m, NEW e \in Page(keys, d, m)
  PROVE  e[1] \in Path
<1>1. e \in Entries(keys, d)
  BY DEF Page, After
<1>2. Inside[d] \subseteq Path
  BY DEF Inside
<1>3. PICK q \in Inside[d] : \/ e = <<q, "file">>
                             \/ e = <<q, "dir">>
  BY <1>1 DEF Entries
<1> QED BY <1>2, <1>3

LEMMA MarkerType ==
  ASSUME NEW keys, NEW d \in Dir, NEW m, NEW n \in Markers(Page(keys, d, m))
  PROVE  n \in Nat
<1>1. PICK e \in Page(keys, d, m) : n = Rank(e)
  BY DEF Markers
<1>2. Last(e[1]) \in Nat
  BY EntryType, LastType
<1> QED BY <1>1, <1>2 DEF Rank

LEMMA EnterType ==
  ASSUME NEW t \in Tree, NEW keys, NEW d \in Dir, NEW m
  PROVE  Enter(t, Page(keys, d, m)) \in Tree
<1>1. \A e \in Page(keys, d, m) : e[1] \in Path
  BY EntryType
<1>2. /\ {e[1] : e \in {x \in Page(keys, d, m) : x[2] = "file"}} \subseteq Path
      /\ {e[1] : e \in {x \in Page(keys, d, m) : x[2] = "dir"}} \subseteq Path
  BY <1>1
<1> QED BY <1>2 DEF Enter, Tree

LEMMA WithoutType ==
  ASSUME NEW t \in Tree, NEW gone
  PROVE  Without(t, gone) \in Tree
BY DEF Without, Tree

LEMMA MergeType ==
  ASSUME NEW trees \in SUBSET Tree
  PROVE  Merge(trees) \in Tree
BY DEF Merge, Tree

-----------------------------------------------------------------------------
\* Prefixes of paths.
LEMMA PathType ==
  ASSUME NEW p \in Dir
  PROVE  /\ p \in Seq(Nat \ {0})
         /\ Len(p) \in Nat
         /\ p \in Path => Len(p) > 0
         /\ p = <<>> <=> Len(p) = 0
         /\ \A i \in 1..Len(p) : p[i] \in Nat \ {0}
<1>1. p \in Seq(Nat \ {0}) /\ (p \in Path => Len(p) > 0)
  BY PathAssumption, EmptySeq DEF Dir
<1>2. Len(p) \in Nat /\ (p = <<>> <=> Len(p) = 0)
  BY <1>1, LenProperties, EmptySeq
<1>3. \A i \in 1..Len(p) : p[i] \in Nat \ {0}
  BY <1>1, ElementOfSeq
<1> QED BY <1>1, <1>2, <1>3

LEMMA RootIsNoPath == <<>> \notin Path
BY PathType DEF Dir

LEMMA CutType ==
  ASSUME NEW p \in Dir, NEW n \in 0..Len(p)
  PROVE  /\ SubSeq(p, 1, n) \in Seq(Nat \ {0})
         /\ Len(SubSeq(p, 1, n)) = n
         /\ \A i \in 1..n : SubSeq(p, 1, n)[i] = p[i]
<1>1. n \in Int /\ 1 \in Int /\ n - 1 + 1 = n /\ (IF 1 <= n THEN n - 1 + 1 ELSE 0) = n
  BY PathType
<1>2. \A i \in 1..n : p[i] \in Nat \ {0}
  BY PathType
<1>3. /\ SubSeq(p, 1, n) \in Seq(Nat \ {0})
      /\ Len(SubSeq(p, 1, n)) = (IF 1 <= n THEN n - 1 + 1 ELSE 0)
      /\ \A i \in 1..(n - 1 + 1) : SubSeq(p, 1, n)[i] = p[1 + i - 1]
  BY <1>1, <1>2, SubSeqProperties
<1>4. \A i \in 1..n : 1 + i - 1 = i
  OBVIOUS
<1> QED BY <1>1, <1>3, <1>4

LEMMA CutIsPath ==
  ASSUME NEW p \in Path, NEW n \in 0..Len(p)
  PROVE  /\ SubSeq(p, 1, n) \in Dir
         /\ n > 0 => SubSeq(p, 1, n) \in Path
<1>1. CASE n = 0
  BY <1>1, SubSeqEmpty DEF Dir
<1>2. CASE n > 0
  <2>1. n \in 1..Len(p)
    BY <1>2, PathType DEF Dir
  <2> QED BY <2>1, PathAssumption DEF Dir
<1> QED BY <1>1, <1>2, PathType DEF Dir

LEMMA StrictPrefix ==
  ASSUME NEW a \in Dir, NEW p \in Dir
  PROVE  IsStrictPrefix(a, p) <=> Len(a) < Len(p) /\ \A i \in 1..Len(a) : a[i] = p[i]
<1>1. SubSeq(a, 1, Len(a)) = a
  BY PathType, SubSeqFull
<1>2. ASSUME IsStrictPrefix(a, p)
      PROVE  Len(a) < Len(p) /\ \A i \in 1..Len(a) : a[i] = p[i]
  <2>1. Len(a) <= Len(p) /\ a = SubSeq(p, 1, Len(a)) /\ a # p
    BY <1>1, <1>2 DEF IsStrictPrefix, IsPrefix
  <2>2. Len(a) # Len(p)
    BY <2>1, PathType, SubSeqFull
  <2>3. Len(a) \in 0..Len(p)
    BY <2>1, PathType
  <2> QED BY <2>1, <2>2, <2>3, PathType, CutType
<1>3. ASSUME Len(a) < Len(p), \A i \in 1..Len(a) : a[i] = p[i]
      PROVE  IsStrictPrefix(a, p)
  <2>1. Len(a) \in 0..Len(p) /\ Len(a) <= Len(p)
    BY <1>3, PathType
  <2>2. a = SubSeq(p, 1, Len(a))
    BY <1>3, <2>1, CutType, PathType, SeqEqual
  <2>3. a # p
    BY <1>3, PathType
  <2> QED BY <1>1, <2>1, <2>2, <2>3 DEF IsStrictPrefix, IsPrefix
<1> QED BY <1>2, <1>3

LEMMA AboveCut ==
  ASSUME NEW p \in Path
  PROVE  /\ \A a \in Above[p] : /\ a \in Path /\ Len(a) \in 1..(Len(p) - 1)
                                /\ a = SubSeq(p, 1, Len(a))
         /\ \A n \in 1..(Len(p) - 1) : SubSeq(p, 1, n) \in Above[p]
<1>1. p \in Dir
  BY DEF Dir
<1>2. ASSUME NEW a \in Above[p]
      PROVE  a \in Path /\ Len(a) \in 1..(Len(p) - 1) /\ a = SubSeq(p, 1, Len(a))
  <2>1. a \in Path /\ a \in Dir /\ IsStrictPrefix(a, p)
    BY <1>2 DEF Above, Dir
  <2>2. Len(a) < Len(p) /\ \A i \in 1..Len(a) : a[i] = p[i]
    BY <1>1, <2>1, StrictPrefix
  <2>3. Len(a) \in 1..(Len(p) - 1) /\ Len(a) \in 0..Len(p)
    BY <1>1, <2>1, <2>2, PathType
  <2>4. a = SubSeq(p, 1, Len(a))
    BY <1>1, <2>1, <2>2, <2>3, CutType, PathType, SeqEqual
  <2> QED BY <2>1, <2>3, <2>4
<1>3. ASSUME NEW n \in 1..(Len(p) - 1)
      PROVE  SubSeq(p, 1, n) \in Above[p]
  <2>1. n \in 0..Len(p) /\ n > 0 /\ n < Len(p)
    BY <1>1, PathType
  <2>2. SubSeq(p, 1, n) \in Path /\ SubSeq(p, 1, n) \in Dir
    BY <2>1, CutIsPath
  <2>3. IsStrictPrefix(SubSeq(p, 1, n), p)
    BY <1>1, <2>1, <2>2, CutType, StrictPrefix
  <2> QED BY <2>2, <2>3 DEF Above
<1> QED BY <1>2, <1>3

LEMMA AboveBelow ==
  ASSUME NEW a \in Path, NEW q \in Path
  PROVE  /\ a \in Above[q] <=> q \in Below[a]
         /\ a \notin Above[a]
         /\ Below[<<>>] = Path
<1>1. a \in Dir /\ <<>> \in Dir
  BY DEF Dir
<1>2. \A p \in Path : IsStrictPrefix(<<>>, p)
  <2>1. Len(<<>>) = 0 /\ \A i \in 1..0 : FALSE
    BY <1>1, PathType
  <2>2. ASSUME NEW p \in Path PROVE p \in Dir /\ Len(p) > 0
    BY PathType DEF Dir
  <2> QED BY <1>1, <2>1, <2>2, StrictPrefix
<1> QED BY <1>1, <1>2 DEF Above, Below, IsStrictPrefix

LEMMA AboveIsTransitive ==
  ASSUME NEW c \in Path, NEW b \in Above[c], NEW a \in Above[b]
  PROVE  a \in Above[c]
<1>1. /\ a \in Path /\ b \in Path /\ a \in Dir /\ b \in Dir /\ c \in Dir
      /\ IsStrictPrefix(a, b) /\ IsStrictPrefix(b, c)
  BY DEF Above, Dir
<1>2. /\ Len(a) < Len(b) /\ \A i \in 1..Len(a) : a[i] = b[i]
      /\ Len(b) < Len(c) /\ \A i \in 1..Len(b) : b[i] = c[i]
  BY <1>1, StrictPrefix
<1>3. /\ Len(a) < Len(c) /\ \A i \in 1..Len(a) : a[i] = c[i]
  BY <1>1, <1>2, PathType
<1> QED BY <1>1, <1>3, StrictPrefix DEF Above

\* The directories of one path lie in a line.
LEMMA AboveIsALine ==
  ASSUME NEW q \in Path, NEW a \in Above[q] \cup {q}, NEW b \in Above[q] \cup {q}
  PROVE  a = b \/ a \in Above[b] \/ b \in Above[a]
<1>1. a \in Path /\ b \in Path /\ a \in Dir /\ b \in Dir /\ q \in Dir
  BY DEF Above, Dir
<1>2. /\ \A i \in 1..Len(a) : a[i] = q[i]
      /\ \A i \in 1..Len(b) : b[i] = q[i]
  BY <1>1, StrictPrefix DEF Above
<1>3. CASE Len(a) = Len(b)
  BY <1>1, <1>2, <1>3, PathType, SeqEqual
<1>4. CASE Len(a) < Len(b)
  BY <1>1, <1>2, <1>4, PathType, StrictPrefix DEF Above
<1>5. CASE Len(b) < Len(a)
  BY <1>1, <1>2, <1>5, PathType, StrictPrefix DEF Above
<1>6. Len(a) \in Nat /\ Len(b) \in Nat
  BY <1>1, PathType
<1> QED BY <1>3, <1>4, <1>5, <1>6

\* One step along a path.
LEMMA CutInside ==
  ASSUME NEW p \in Path, NEW n \in 0..(Len(p) - 1)
  PROVE  /\ SubSeq(p, 1, n) \in Dir
         /\ SubSeq(p, 1, n + 1) \in Inside[SubSeq(p, 1, n)]
         /\ SubSeq(p, 1, n + 1) \in Above[p] \cup {p}
         /\ n + 1 = Len(p) => SubSeq(p, 1, n + 1) = p
<1> DEFINE d == SubSeq(p, 1, n)
           q == SubSeq(p, 1, n + 1)
<1>1. /\ p \in Dir /\ n \in 0..Len(p) /\ n + 1 \in 0..Len(p) /\ n + 1 > 0
      /\ Len(p) \in Nat /\ n \in Nat
  BY PathType DEF Dir
<1>2. /\ d \in Dir /\ Len(d) = n /\ \A i \in 1..n : d[i] = p[i]
      /\ q \in Path /\ q \in Dir /\ Len(q) = n + 1 /\ \A i \in 1..(n + 1) : q[i] = p[i]
  BY <1>1, CutType, CutIsPath
<1>3. n + 1 = Len(p) => q = p
  BY <1>1, PathType, SubSeqFull
<1> HIDE DEF d, q
<1>4. Front(q) = d
  <2>1. /\ n \in 0..Len(q) /\ Len(q) - 1 = n
    BY <1>1, <1>2
  <2>2. /\ SubSeq(q, 1, n) \in Seq(Nat \ {0}) /\ Len(SubSeq(q, 1, n)) = n
        /\ \A i \in 1..n : SubSeq(q, 1, n)[i] = q[i]
    BY <1>2, <2>1, CutType
  <2>3. \A i \in 1..n : i \in 1..(n + 1)
    BY <1>1
  <2>4. SubSeq(q, 1, n) = d
    <3>1. \A i \in 1..n : SubSeq(q, 1, n)[i] = d[i]
      BY <1>2, <2>2, <2>3
    <3>2. d \in Seq(Nat \ {0})
      BY <1>2, PathType
    <3>3. Len(SubSeq(q, 1, n)) = Len(d) /\ Len(SubSeq(q, 1, n)) = n
      BY <1>2, <2>2
    <3> QED BY <2>2, <3>1, <3>2, <3>3, SeqEqual
  <2> QED BY <2>1, <2>4 DEF Front
<1>5. q \in Above[p] \cup {p}
  <2>1. CASE n + 1 = Len(p)
    BY <1>3, <2>1
  <2>2. CASE n + 1 # Len(p)
    <3>1. Len(q) < Len(p)
      BY <1>1, <1>2, <2>2
    <3> QED BY <1>1, <1>2, <3>1, StrictPrefix DEF Above
  <2> QED BY <2>1, <2>2
<1> QED BY <1>2, <1>3, <1>4, <1>5 DEF Inside, d, q

\* What is above an entry of a directory is the directory and what is above that.
LEMMA InsideAbove ==
  ASSUME NEW d \in Dir, NEW q \in Inside[d]
  PROVE  /\ q \in Path
         /\ d = <<>> => Above[q] = {}
         /\ d # <<>> => d \in Path /\ Above[q] = Above[d] \cup {d}
<1>1. q \in Path /\ q \in Dir /\ SubSeq(q, 1, Len(q) - 1) = d
  BY DEF Inside, Front, Dir
<1>2. Len(q) \in Nat /\ Len(q) > 0 /\ Len(q) - 1 \in 0..Len(q)
  BY <1>1, PathType
<1>3. Len(d) = Len(q) - 1 /\ \A i \in 1..Len(d) : d[i] = q[i]
  BY <1>1, <1>2, CutType
<1>4. CASE d = <<>>
  <2>1. Len(d) = 0
    BY <1>4, PathType
  <2>2. ASSUME NEW a \in Above[q] PROVE FALSE
    <3>1. Len(a) \in 1..(Len(q) - 1)
      BY <1>1, <2>2, AboveCut
    <3>2. Len(q) - 1 = 0
      BY <1>3, <2>1
    <3> QED BY <1>2, <3>1, <3>2
  <2> QED BY <1>1, <1>4, <2>2
<1>5. CASE d # <<>>
  <2>1. d \in Path
    BY <1>5 DEF Dir
  <2>2. d \in Above[q]
    BY <1>1, <1>2, <1>3, <2>1, StrictPrefix DEF Above
  <2>3. Above[d] \subseteq Above[q]
    BY <1>1, <2>2, AboveIsTransitive
  <2>4. ASSUME NEW a \in Above[q] PROVE a \in Above[d] \cup {d}
    <3>1. a = d \/ a \in Above[d] \/ d \in Above[a]
      BY <1>1, <2>2, AboveIsALine
    <3>2. ASSUME d \in Above[a] PROVE FALSE
      <4>1. a \in Path /\ Len(a) \in 1..(Len(q) - 1)
        BY <1>1, AboveCut
      <4>2. Len(d) \in 1..(Len(a) - 1)
        BY <3>2, <4>1, AboveCut
      <4> QED BY <1>2, <1>3, <4>1, <4>2
    <3> QED BY <3>1, <3>2
  <2> QED BY <1>1, <1>5, <2>1, <2>2, <2>3, <2>4
<1> QED BY <1>4, <1>5

\* A path that is in some directory is in one of those at the top.
LEMMA AboveHasTop ==
  ASSUME NEW q \in Path, Above[q] # {}
  PROVE  Above[q] \cap Inside[<<>>] # {}
<1>1. PICK a \in Above[q] : Len(a) \in 1..(Len(q) - 1)
  BY AboveCut
<1>2. Len(q) \in Nat
  BY PathType DEF Dir
<1>3. 0 \in 0..(Len(q) - 1) /\ 1 \in 1..(Len(q) - 1) /\ 0 + 1 = 1
  BY <1>1, <1>2
<1>4. SubSeq(q, 1, 0) = <<>>
  BY SubSeqEmpty
<1>5. SubSeq(q, 1, 0 + 1) \in Inside[SubSeq(q, 1, 0)]
  BY <1>3, CutInside
<1>6. SubSeq(q, 1, 1) \in Inside[<<>>]
  BY <1>3, <1>4, <1>5
<1>7. SubSeq(q, 1, 1) \in Above[q]
  BY <1>3, AboveCut
<1> QED BY <1>6, <1>7

\* Two directories with a common path below lie in a line.
LEMMA FromIsALine ==
  ASSUME NEW a \in Path, NEW b \in Path, NEW q \in From(a) \cap From(b)
  PROVE  a = b \/ a \in Above[b] \/ b \in Above[a]
<1>1. q \in Path
  BY DEF From, Below, Dir
<1>2. a \in Above[q] \cup {q} /\ b \in Above[q] \cup {q}
  BY <1>1, AboveBelow DEF From
<1> QED BY <1>1, <1>2, AboveIsALine

\* Induction along a path, from a minimal counterexample.
LEMMA PathInduction ==
  ASSUME NEW p \in Path, NEW S, <<>> \in S,
         \A n \in 0..(Len(p) - 2) : SubSeq(p, 1, n) \in S => SubSeq(p, 1, n + 1) \in S
  PROVE  \A n \in 0..(Len(p) - 1) : SubSeq(p, 1, n) \in S
<1> DEFINE T == {n \in 0..(Len(p) - 1) : SubSeq(p, 1, n) \notin S}
<1> SUFFICES ASSUME T # {} PROVE FALSE
  OBVIOUS
<1>1. Len(p) \in Nat
  BY PathType DEF Dir
<1>2. T \subseteq Nat
  BY <1>1
<1>3. PICK x \in T : \A y \in T : ~ (<<y, x>> \in OpToRel(<, Nat))
  BY <1>2, NatLessThanWellFounded, WFMin
<1>4. x \in Nat /\ x \in 0..(Len(p) - 1) /\ SubSeq(p, 1, x) \notin S
  BY <1>1
<1>5. x # 0
  <2>1. SubSeq(p, 1, 0) = <<>>
    BY SubSeqEmpty
  <2> QED BY <1>4, <2>1
<1>6. x - 1 \in 0..(Len(p) - 2) /\ x - 1 \in 0..(Len(p) - 1) /\ (x - 1) + 1 = x
  BY <1>1, <1>4, <1>5
<1>7. x - 1 \in T
  BY <1>4, <1>6
<1>8. <<x - 1, x>> \in OpToRel(<, Nat)
  BY <1>4, <1>6 DEF OpToRel
<1> QED BY <1>3, <1>7, <1>8

-----------------------------------------------------------------------------
\* Pages.
LEMMA EntryOf ==
  ASSUME NEW keys, NEW d \in Dir, NEW e \in Entries(keys, d)
  PROVE  \E q \in Inside[d] : \/ q \in keys /\ e = <<q, "file">>
                              \/ keys \cap Below[q] # {} /\ e = <<q, "dir">>
BY DEF Entries

LEMMA RankType ==
  ASSUME NEW q \in Path, NEW kind \in {"file", "dir"}
  PROVE  Rank(<<q, kind>>) \in Nat /\ Rank(<<q, kind>>) > 0
<1>1. Last(q) \in Nat \ {0}
  BY LastType
<1>2. <<q, kind>>[1] = q
  OBVIOUS
<1> QED BY <1>1, <1>2 DEF Rank

LEMMA EntryRank ==
  ASSUME NEW keys, NEW d \in Dir, NEW e \in Entries(keys, d)
  PROVE  Rank(e) \in Nat
<1>1. PICK q \in Inside[d] : e = <<q, "file">> \/ e = <<q, "dir">>
  BY EntryOf
<1> QED BY <1>1, RankType DEF Inside

LEMMA EntriesAreFinite ==
  ASSUME NEW keys, NEW d \in Dir
  PROVE  IsFiniteSet(Entries(keys, d))
<1>1. IsFiniteSet({"file", "dir"})
  <2>1. IsFiniteSet({"file"}) /\ IsFiniteSet({"dir"})
    BY FS_Singleton
  <2>2. {"file", "dir"} = {"file"} \cup {"dir"}
    OBVIOUS
  <2> QED BY <2>1, <2>2, FS_Union
<1>2. IsFiniteSet(Path \X {"file", "dir"})
  BY <1>1, PathAssumption, FS_Product
<1>3. Entries(keys, d) \subseteq Path \X {"file", "dir"}
  BY EntryOf DEF Inside
<1> QED BY <1>2, <1>3, FS_Subset

\* A page is what comes first: nothing before an entry of a page is left out.
LEMMA PageIsFirst ==
  ASSUME NEW keys, NEW d \in Dir, NEW k \in Nat,
         NEW e \in Page(keys, d, k), NEW x \in Entries(keys, d),
         Rank(x) > k, Rank(x) <= Rank(e)
  PROVE  x \in Page(keys, d, k)
<1> DEFINE after == After(keys, d, k)
           Before(y) == {z \in after : Rank(z) < Rank(y)}
<1>1. /\ x \in after /\ e \in after
      /\ Cardinality(Before(e)) < PageSize
      /\ after \subseteq Entries(keys, d)
  BY DEF Page, After
<1>2. IsFiniteSet(Before(e))
  <2>1. Before(e) \subseteq Entries(keys, d)
    BY <1>1
  <2> QED BY <2>1, EntriesAreFinite, FS_Subset
<1>3. Before(x) \subseteq Before(e)
  BY <1>1, EntryRank
<1>4. Cardinality(Before(x)) <= Cardinality(Before(e))
  BY <1>2, <1>3, FS_Subset
<1>5. IsFiniteSet(Before(x))
  BY <1>2, <1>3, FS_Subset
<1>6. Cardinality(Before(x)) \in Nat /\ Cardinality(Before(e)) \in Nat /\ PageSize \in Nat
  BY <1>2, <1>5, FS_CardinalityType, PathAssumption
<1>7. Cardinality(Before(x)) < PageSize
  BY <1>1, <1>4, <1>6
<1> QED BY <1>1, <1>7 DEF Page

\* Whichever node the marker is taken from, what it passes over has been read.
LEMMA MarkerIsSafe ==
  ASSUME NEW keys, NEW d \in Dir, NEW k \in Nat, NEW m \in Markers(Page(keys, d, k)),
         NEW x \in Entries(keys, d), Rank(x) > k, Rank(x) <= m
  PROVE  x \in Page(keys, d, k)
<1>1. PICK e \in Page(keys, d, k) : m = Rank(e)
  BY DEF Markers
<1> QED BY <1>1, PageIsFirst

LEMMA LastPage ==
  ASSUME NEW keys, NEW d \in Dir, NEW k \in Nat, ~IsTruncated(keys, d, k),
         NEW x \in Entries(keys, d), Rank(x) > k
  PROVE  x \in Page(keys, d, k)
BY DEF IsTruncated, After

\* What is entered in a tree.
LEMMA EnteredNodes ==
  ASSUME NEW t \in Tree, NEW keys, NEW d \in Dir, NEW k
  PROVE  LET all == Enter(t, Page(keys, d, k)) IN
         /\ t.files \subseteq all.files /\ t.dirs \subseteq all.dirs /\ t.odd = all.odd
         /\ all.files \subseteq t.files \cup (keys \cap Inside[d])
         /\ all.dirs \subseteq t.dirs \cup {q \in Inside[d] : keys \cap Below[q] # {}}
         /\ \A q : <<q, "file">> \in Page(keys, d, k) => q \in all.files
         /\ \A q : <<q, "dir">> \in Page(keys, d, k) => q \in all.dirs
<1> DEFINE page == Page(keys, d, k)
           all == Enter(t, page)
           files == {e[1] : e \in {x \in page : x[2] = "file"}}
           dirs == {e[1] : e \in {x \in page : x[2] = "dir"}}
<1>1. all.files = t.files \cup files /\ all.dirs = t.dirs \cup dirs /\ all.odd = t.odd
  BY DEF Enter, Tree
<1>2. page \subseteq Entries(keys, d)
  BY DEF Page, After
<1>3. files \subseteq keys \cap Inside[d]
  BY <1>2, EntryOf
<1>4. dirs \subseteq {q \in Inside[d] : keys \cap Below[q] # {}}
  BY <1>2, EntryOf
<1>5. ASSUME NEW q, <<q, "file">> \in page PROVE q \in files
  <2>1. <<q, "file">>[1] = q /\ <<q, "file">>[2] = "file"
    OBVIOUS
  <2> QED BY <1>5, <2>1
<1>6. ASSUME NEW q, <<q, "dir">> \in page PROVE q \in dirs
  <2>1. <<q, "dir">>[1] = q /\ <<q, "dir">>[2] = "dir"
    OBVIOUS
  <2> QED BY <1>6, <2>1
<1> HIDE DEF all, files, dirs, page
<1>7. /\ t.files \subseteq all.files /\ t.dirs \subseteq all.dirs /\ t.odd = all.odd
      /\ all.files \subseteq t.files \cup (keys \cap Inside[d])
      /\ all.dirs \subseteq t.dirs \cup {q \in Inside[d] : keys \cap Below[q] # {}}
      /\ \A q : <<q, "file">> \in page => q \in all.files
      /\ \A q : <<q, "dir">> \in page => q \in all.dirs
  BY <1>1, <1>3, <1>4, <1>5, <1>6
<1> QED BY <1>7 DEF all, page

-----------------------------------------------------------------------------
\* What is planned are transfers.
LEMMA TasksType ==
  ASSUME NEW kind \in {"put", "del", "get", "getdir", "unlink", "acl"},
         NEW r \in Root, NEW paths \in SUBSET Path
  PROVE  Tasks(kind, r, paths) \subseteq Transfer
BY DEF Tasks, Transfer

LEMMA UploadTasksType ==
  ASSUME NEW r \in Root, NEW l \in Tree, NEW m \in Tree
  PROVE  process_upload(r, l, m) \subseteq Transfer
<1>1. Uploads(l, m) \subseteq Path
  BY DEF Uploads, Tree
<1>2. Deletions(l, m) \subseteq Path
  <2>1. \A p : Included(m, p) \subseteq Path
    BY DEF Included, Tree
  <2> QED BY <2>1 DEF Deletions, Tree
<1> QED BY <1>1, <1>2, TasksType DEF process_upload

LEMMA DownloadTasksType ==
  ASSUME have \in SUBSET Root, have # {}, listed \in [Root -> Tree], NEW l \in Tree, NEW m
  PROVE  process_downloads(l, m) \subseteq Transfer
<1>1. ASSUME NEW r \in have
      PROVE  /\ Tasks("get", r, Downloads(l, m, r) \ l.dirs) \subseteq Transfer
             /\ Tasks("getdir", r, Downloads(l, m, r) \cap l.dirs) \subseteq Transfer
  <2>1. Downloads(l, m, r) \subseteq Path
    BY <1>1 DEF Downloads, Tree
  <2> QED BY <1>1, <2>1, TasksType
<1>2. Tasks("unlink", CHOOSE r \in have : TRUE, Unseen(l, m)) \subseteq Transfer
  <2>1. Unseen(l, m) \subseteq Path
    BY DEF Unseen, Files, Tree
  <2>2. (CHOOSE r \in have : TRUE) \in Root
    OBVIOUS
  <2> QED BY <2>1, <2>2, TasksType
<1> QED BY <1>1, <1>2 DEF process_downloads

LEMMA RmTasksType ==
  ASSUME have \in SUBSET Root, listed \in [Root -> Tree]
  PROVE  UNION {Tasks("del", r, Included(listed[r], <<>>)) : r \in have} \subseteq Transfer
<1>1. ASSUME NEW r \in have
      PROVE  Tasks("del", r, Included(listed[r], <<>>)) \subseteq Transfer
  <2>1. Included(listed[r], <<>>) \subseteq Path
    BY <1>1 DEF Included, Tree
  <2> QED BY <1>1, <2>1, TasksType
<1> QED BY <1>1

LEMMA MakeDirsType ==
  ASSUME disk \in Tree, NEW l, NEW dirs \in SUBSET Path
  PROVE  MakeDirs(l, dirs) \in Tree
BY DEF MakeDirs, Tree

LEMMA EffectType ==
  ASSUME disk \in Tree, store \in [Root -> SUBSET Path], NEW x \in Transfer, Effect(x)
  PROVE  /\ disk' \in Tree
         /\ store' \in [Root -> SUBSET Path]
<1>1. x[2] \in Root /\ x[3] \in Path
  BY DEF Transfer
<1>2. disk' \in Tree
  <2> DEFINE rest == Without(disk, Clearing(x))
  <2>1. rest \in Tree
    BY WithoutType
  <2>2. [rest EXCEPT !.files = @ \cup {x[3]}, !.odd = @ \ {x[3]}] \in Tree
    BY <1>1, <2>1 DEF Tree
  <2> HIDE DEF rest
  <2>3. \/ disk' = rest
        \/ disk' = [rest EXCEPT !.files = @ \cup {x[3]}, !.odd = @ \ {x[3]}]
    BY DEF Effect, rest
  <2> QED BY <2>1, <2>2, <2>3
<1>3. store' \in [Root -> SUBSET Path]
  <2>1. \/ store' = [store EXCEPT ![x[2]] = @ \cup {x[3]}]
        \/ store' = [store EXCEPT ![x[2]] = @ \ {x[3]}]
        \/ store' = store
    BY DEF Effect
  <2> QED BY <1>1, <2>1
<1> QED BY <1>2, <1>3

-----------------------------------------------------------------------------
\* The types hold because tasks list only roots the command names.
Cell == [pc : {"idle", "reading", "done", "cut", "failed"},
         attempt : 0..(MaxAttempts - 1), marker : Nat]

OnlyItsRoots == \A t \in Listing : lister[t].pc # "idle" => t[1] \in cmd.roots

Fresh == step = "start" => f = 0

TypeInv == TypeOK /\ OnlyItsRoots /\ Fresh

LEMMA Bounds ==
  /\ MaxAttempts \in Nat /\ MaxAttempts > 0
  /\ MAX_LISTINGS \in Nat /\ MAX_LISTINGS > 0
  /\ MaxFaults \in Nat /\ MaxSilent \in Nat /\ MaxChanges \in Nat
BY SyncAssumption

LEMMA FaultType == ASSUME TypeOK, Fault PROVE faults' \in 0..MaxFaults
<1>1. faults \in 0..MaxFaults /\ faults > 0 /\ faults' = faults - 1
  BY DEF TypeOK, Fault
<1>2. MaxFaults \in Nat
  BY Bounds
<1> QED BY <1>1, <1>2

LEMMA SilenceType == ASSUME TypeOK, Silence PROVE silent' \in 0..MaxSilent
<1>1. silent \in 0..MaxSilent /\ silent > 0 /\ silent' = silent - 1
  BY DEF TypeOK, Silence
<1>2. MaxSilent \in Nat
  BY Bounds
<1> QED BY <1>1, <1>2

LEMMA CellType == Idle \in Cell /\ Reading \in Cell
BY Bounds DEF Cell, Idle, Reading

LEMMA BeginListingType ==
  ASSUME TypeInv, BeginListing, f < MAX_LISTINGS, UNCHANGED cmd
  PROVE  /\ lister' \in [Listing -> Cell]
         /\ listed' \in [Root -> Tree]
         /\ have' \subseteq cmd.roots
         /\ f' \in 0..MAX_LISTINGS
         /\ step' = "listing"
         /\ OnlyItsRoots'
<1>1. lister' \in [Listing -> Cell]
  BY CellType DEF BeginListing
<1>2. listed' \in [Root -> Tree]
  BY DEF BeginListing, Empty, Tree
<1>3. f' \in 0..MAX_LISTINGS
  <2>1. f \in 0..MAX_LISTINGS /\ f' = f + 1
    BY DEF BeginListing, TypeInv, TypeOK
  <2>2. MAX_LISTINGS \in Nat
    BY Bounds
  <2> QED BY <2>1, <2>2
<1>4. OnlyItsRoots'
  BY DEF BeginListing, OnlyItsRoots, Idle, Reading
<1> QED BY <1>1, <1>2, <1>3, <1>4 DEF BeginListing

LEMMA InitType == Init => TypeInv
<1> SUFFICES ASSUME Init PROVE TypeInv
  OBVIOUS
<1>1. cmd \in Worlds
  BY SyncAssumption DEF Init
<1>2. cmd.keys \in [Root -> SUBSET Path] /\ cmd.target \in Tree
      /\ cmd.faults \in 0..MaxFaults /\ cmd.silent \in 0..MaxSilent
      /\ cmd.changes \in 0..MaxChanges
  BY <1>1 DEF Worlds
<1>3. lister \in [Listing -> Cell]
  BY CellType DEF Init
<1>4. listed \in [Root -> Tree]
  BY DEF Init, Empty, Tree
<1>5. f \in 0..MAX_LISTINGS
  BY Bounds DEF Init
<1>6. OnlyItsRoots
  BY DEF Init, OnlyItsRoots, Idle
<1> QED BY <1>1, <1>2, <1>3, <1>4, <1>5, <1>6
    DEF Init, TypeInv, TypeOK, Cell, Fresh

\* A directory of which no more is read.
LEMMA EndListingType ==
  ASSUME TypeInv, NEW t \in Listing, lister[t].pc = "reading",
         NEW all \in Tree, NEW end \in {"done", "cut"}, EndListing(t, all, end),
         faults' \in 0..MaxFaults, silent' \in 0..MaxSilent, UNCHANGED <<changes, always, ever>>
  PROVE  TypeInv'
<1> DEFINE r == t[1]
           d == t[2]
           subdirs == all.dirs \cap Inside[d]
<1>1. /\ r \in Root /\ d \in Dir
      /\ lister \in [Listing -> Cell] /\ lister[t] \in Cell
      /\ r \in cmd.roots
  BY DEF Listing, TypeInv, TypeOK, Cell, OnlyItsRoots
<1> HIDE DEF d
<1>2. lister' = [x \in Listing |->
                   IF x = t THEN [lister[t] EXCEPT !.pc = end]
                   ELSE IF x[1] = r /\ x[2] \in subdirs THEN Reading ELSE lister[x]]
  BY DEF EndListing, d
<1>3. lister' \in [Listing -> Cell]
  <2>1. [lister[t] EXCEPT !.pc = end] \in Cell
    BY <1>1 DEF Cell
  <2> HIDE DEF subdirs
  <2> QED BY <1>1, <1>2, <2>1, CellType
<1>4. OnlyItsRoots'
  BY <1>1, <1>2 DEF EndListing, TypeInv, OnlyItsRoots
<1>5. listed' \in [Root -> Tree]
  BY <1>1 DEF EndListing, TypeInv, TypeOK
<1>6. queue' \subseteq Transfer
  <2>1. Tasks("acl", r, all.files \cap Inside[d]) \subseteq Transfer
    BY <1>1, TasksType DEF Tree
  <2>2. publish_subdir_task(r, all.files \cap Inside[d]) \subseteq Transfer
    BY <2>1 DEF publish_subdir_task, Tasks
  <2> QED BY <2>2 DEF EndListing, d, TypeInv, TypeOK
<1>7. have' \subseteq cmd.roots
  BY <1>1 DEF EndListing, TypeInv, TypeOK
<1> QED
  BY <1>3, <1>4, <1>5, <1>6, <1>7 DEF EndListing, TypeInv, TypeOK, Cell, Fresh, result

\* The steps that list.
LEMMA ListingType ==
  ASSUME TypeInv, NEW t \in Listing,
         ReadPage(t) \/ FinishListing(t) \/ ListingCut(t) \/ ListingFails(t)
  PROVE  TypeInv'
<1> DEFINE r == t[1]
           d == t[2]
           page == Page(store[r], d, lister[t].marker)
<1>1. /\ r \in Root /\ d \in Dir
      /\ lister \in [Listing -> Cell] /\ lister[t] \in Cell
      /\ lister[t].pc = "reading"
      /\ r \in cmd.roots
  BY DEF Listing, TypeInv, TypeOK, Cell, OnlyItsRoots, ReadPage, FinishListing, ListingCut,
         ListingFails, Runs
<1>2. Enter(listed[r], page) \in Tree
  BY <1>1, EnterType DEF TypeInv, TypeOK
<1> HIDE DEF page, d
<1>3. CASE ReadPage(t)
  <2>1. PICK m \in Markers(page) : lister' = [lister EXCEPT ![t].marker = m]
    BY <1>3 DEF ReadPage, page, d
  <2>2. m \in Nat
    BY <1>1, MarkerType DEF page
  <2>3. lister' \in [Listing -> Cell]
    <3>1. [lister[t] EXCEPT !.marker = m] \in Cell
      BY <1>1, <2>2 DEF Cell
    <3> QED BY <1>1, <2>1, <3>1
  <2>4. OnlyItsRoots'
    BY <1>1, <1>3, <2>1 DEF ReadPage, TypeInv, OnlyItsRoots, Cell
  <2>5. listed' \in [Root -> Tree]
    BY <1>1, <1>2, <1>3 DEF ReadPage, page, d, TypeInv, TypeOK
  <2> QED BY <1>3, <2>3, <2>4, <2>5 DEF ReadPage, TypeInv, TypeOK, Cell, Fresh, env, result
<1>4. CASE FinishListing(t)
  BY <1>1, <1>2, <1>4, EndListingType DEF FinishListing, page, d, env, TypeInv, TypeOK
<1>6. CASE ListingCut(t)
  BY <1>1, <1>6, EndListingType, SilenceType DEF ListingCut, TypeInv, TypeOK
<1>5. CASE ListingFails(t)
  <2>1. /\ lister' \in [Listing -> Cell]
        /\ OnlyItsRoots'
    <3>1. CASE /\ lister[t].attempt + 1 < MaxAttempts
               /\ lister' = [lister EXCEPT ![t].attempt = @ + 1, ![t].marker = 0]
      <4>1. [lister[t] EXCEPT !.attempt = @ + 1, !.marker = 0] \in Cell
        <5>1. /\ lister[t].attempt \in 0..(MaxAttempts - 1)
              /\ lister[t].attempt + 1 < MaxAttempts
          BY <1>1, <3>1 DEF Cell
        <5>2. lister[t].attempt + 1 \in 0..(MaxAttempts - 1)
          BY <5>1, Bounds
        <5> QED BY <1>1, <5>2 DEF Cell
      <4>2. lister' = [lister EXCEPT ![t] = [lister[t] EXCEPT !.attempt = @ + 1, !.marker = 0]]
        BY <1>1, <3>1
      <4>3. lister' \in [Listing -> Cell]
        BY <1>1, <4>1, <4>2
      <4>4. OnlyItsRoots'
        BY <1>1, <1>5, <4>2 DEF ListingFails, TypeInv, OnlyItsRoots
      <4> QED BY <4>3, <4>4
    <3>2. CASE lister' = [lister EXCEPT ![t].pc = "failed"]
      <4>1. [lister[t] EXCEPT !.pc = "failed"] \in Cell
        BY <1>1 DEF Cell
      <4>2. OnlyItsRoots'
        BY <1>1, <1>5, <3>2 DEF ListingFails, TypeInv, OnlyItsRoots
      <4> QED BY <1>1, <3>2, <4>1, <4>2
    <3> QED BY <1>5, <3>1, <3>2 DEF ListingFails
  <2>2. listed' \in [Root -> Tree]
    <3>1. Empty \in Tree
      BY DEF Empty, Tree
    <3> QED BY <1>1, <1>5, <3>1 DEF ListingFails, TypeInv, TypeOK
  <2>3. failing' \in BOOLEAN /\ faults' \in 0..MaxFaults
    BY <1>5, FaultType DEF ListingFails, TypeInv, TypeOK
  <2> QED
    BY <1>5, <2>1, <2>2, <2>3
    DEF ListingFails, TypeInv, TypeOK, Cell, Fresh, Runs, result
<1> QED BY <1>3, <1>4, <1>5, <1>6

\* The steps of the command up to the plan.
LEMMA CommandType ==
  ASSUME TypeInv, Start \/ MainFails \/ NextRoot \/ Relist \/ WalkEnds \/ RunEnds
  PROVE  TypeInv'
<1>1. CASE Start
  <2>1. CASE BeginListing
    <3>1. f < MAX_LISTINGS
      BY <1>1, Bounds DEF Start, TypeInv, Fresh
    <3>2. UNCHANGED cmd
      BY <1>1 DEF Start
    <3>3. rc' \in {"none", "ok", "failed", "not found", "fatal", "crash"}
      BY <1>1 DEF Start, End, TypeInv, TypeOK
    <3> QED
      BY <1>1, <2>1, <3>1, <3>2, <3>3, BeginListingType
      DEF Start, TypeInv, TypeOK, Cell, Fresh, env, result
  <2>2. CASE /\ step' \in {"over", "main"} /\ UNCHANGED <<f, tree>>
             /\ rc' \in {"fatal", rc}
    BY <1>1, <2>2 DEF Start, TypeInv, TypeOK, OnlyItsRoots, Fresh, tree, env, result
  <2> QED BY <1>1, <2>1, <2>2 DEF Start, End
<1>2. CASE MainFails
  <2>1. faults' \in 0..MaxFaults
    BY <1>2, FaultType DEF MainFails, TypeInv
  <2> QED BY <1>2, <2>1 DEF MainFails, End, TypeInv, TypeOK, OnlyItsRoots, Fresh, tree, result
<1>3. CASE NextRoot
  <2>1. CASE UNCHANGED lister
    <3>1. step' \in {"main", "listing"}
      BY <1>3 DEF NextRoot
    <3> QED BY <1>3, <2>1, <3>1 DEF NextRoot, TypeInv, TypeOK, OnlyItsRoots, Fresh, env, result
  <2>2. CASE /\ UNCHANGED step
             /\ \E r \in cmd.roots : lister' = [lister EXCEPT ![Top(r)] = Reading]
    <3>1. PICK r \in cmd.roots : lister' = [lister EXCEPT ![Top(r)] = Reading]
      BY <2>2
    <3>2. lister' \in [Listing -> Cell]
      BY <3>1, CellType DEF TypeInv, TypeOK, Cell
    <3>3. OnlyItsRoots'
      <4>1. Top(r)[1] = r
        BY DEF Top
      <4>2. \A t \in Listing : t # Top(r) => lister'[t] = lister[t]
        BY <3>1 DEF TypeInv, TypeOK
      <4> QED BY <1>3, <4>1, <4>2 DEF NextRoot, TypeInv, OnlyItsRoots
    <3> QED BY <1>3, <2>2, <3>2, <3>3 DEF NextRoot, TypeInv, TypeOK, Cell, Fresh, env, result
  <2> QED BY <1>3, <2>1, <2>2 DEF NextRoot
<1>4. CASE Relist
  <2>1. BeginListing /\ f < MAX_LISTINGS /\ UNCHANGED cmd
    BY <1>4 DEF Relist
  <2> QED
    BY <1>4, <2>1, BeginListingType DEF Relist, TypeInv, TypeOK, Cell, Fresh, env, result
<1>5. CASE WalkEnds
  <2>1. get_size \in Nat
    <3>1. UNION {listed[r].files : r \in cmd.roots} \subseteq Path
      <4>1. ASSUME NEW r \in cmd.roots PROVE listed[r].files \subseteq Path
        BY DEF TypeInv, TypeOK, Worlds, Tree
      <4> QED BY <4>1
    <3> QED BY <3>1, PathAssumption, FS_Subset, FS_CardinalityType DEF get_size
  <2>2. num' \in Nat
    BY <1>5, <2>1 DEF WalkEnds, TypeInv, TypeOK
  <2>3. rc' \in {"ok", "failed"} /\ step' = "over"
    BY <1>5 DEF WalkEnds, End
  <2> QED
    BY <1>5, <2>2, <2>3 DEF WalkEnds, TypeInv, TypeOK, OnlyItsRoots, Fresh, tree, env, result
<1>6. CASE RunEnds
  <2>1. rc' \in {"ok", "failed"} /\ step' = "over"
    BY <1>6 DEF RunEnds, End
  <2> QED BY <1>6, <2>1 DEF RunEnds, TypeInv, TypeOK, OnlyItsRoots, Fresh, tree, env, result
<1> QED BY <1>1, <1>2, <1>3, <1>4, <1>5, <1>6

\* The plan.
LEMMA TreesType ==
  ASSUME TypeInv
  PROVE  /\ have \in SUBSET Root
         /\ Remotes \in Tree
         /\ build_local_dir(disk) \in Tree
         /\ Merge({build_local_dir(t) : t \in cmd.sources}) \in Tree
<1>1. have \in SUBSET Root
  BY DEF TypeInv, TypeOK, Worlds
<1>2. {listed[r] : r \in have} \in SUBSET Tree
  <2>1. ASSUME NEW r \in have PROVE listed[r] \in Tree
    BY <1>1 DEF TypeInv, TypeOK
  <2> QED BY <2>1
<1>3. \A t \in Tree : build_local_dir(t) \in Tree
  BY WithoutType DEF build_local_dir
<1>4. {build_local_dir(t) : t \in cmd.sources} \in SUBSET Tree
  <2>1. cmd.sources \in SUBSET Tree
    BY DEF TypeInv, TypeOK, Worlds
  <2> QED BY <1>3, <2>1
<1>5. disk \in Tree
  BY DEF TypeInv, TypeOK
<1>6. Remotes \in Tree
  BY <1>2, MergeType DEF Remotes
<1>7. Merge({build_local_dir(t) : t \in cmd.sources}) \in Tree
  BY <1>4, MergeType
<1> QED BY <1>1, <1>3, <1>5, <1>6, <1>7

LEMMA EnteredType ==
  ASSUME NEW l, NEW m \in Tree
  PROVE  Entered(l, m) \in SUBSET Path
BY DEF Entered, Tree

LEMMA PlanType ==
  ASSUME TypeInv, PlanUpload \/ PlanDownload \/ NoDownload \/ MkdirFails \/ PlanRm
  PROVE  TypeInv'
<1> DEFINE locals == build_local_dir(disk)
           dirs == Entered(locals, Remotes)
<1>1. CASE PlanUpload
  <2>1. queue' \subseteq Transfer
    <3>1. CASE UNCHANGED queue
      BY <3>1 DEF TypeInv, TypeOK
    <3>2. CASE \E r \in have :
            queue' = process_upload(r, Merge({build_local_dir(t) : t \in cmd.sources}), Remotes)
      <4>1. PICK r \in have :
              queue' = process_upload(r, Merge({build_local_dir(t) : t \in cmd.sources}), Remotes)
        BY <3>2
      <4> QED BY <4>1, TreesType, UploadTasksType
    <3> QED BY <1>1, <3>1, <3>2 DEF PlanUpload
  <2>2. step' \in {"moving", "over"} /\ rc' \in {"crash", rc}
    BY <1>1 DEF PlanUpload, End
  <2> QED
    BY <1>1, <2>1, <2>2 DEF PlanUpload, TypeInv, TypeOK, OnlyItsRoots, Fresh, tree, env, result
<1>2. CASE PlanDownload
  <2>1. queue' \subseteq Transfer
    <3>1. CASE UNCHANGED queue
      BY <3>1 DEF TypeInv, TypeOK
    <3>2. CASE queue' = process_downloads(locals, Remotes) /\ have # {}
      BY <3>2, TreesType, DownloadTasksType DEF TypeInv, TypeOK
    <3> QED BY <1>2, <3>1, <3>2 DEF PlanDownload
  <2>2. disk' \in Tree
    BY <1>2, TreesType, EnteredType, MakeDirsType DEF PlanDownload, TypeInv, TypeOK
  <2>3. step' \in {"moving", "over"} /\ rc' \in {"not found", rc}
    BY <1>2 DEF PlanDownload, End
  <2> QED
    BY <1>2, <2>1, <2>2, <2>3
    DEF PlanDownload, TypeInv, TypeOK, OnlyItsRoots, Fresh, tree, env, result
<1>3. CASE NoDownload
  <2>1. step' = "over" /\ rc' \in {"crash", "fatal"}
    BY <1>3 DEF NoDownload, End
  <2> QED BY <1>3, <2>1 DEF NoDownload, TypeInv, TypeOK, OnlyItsRoots, Fresh, tree, env, result
<1>4. CASE MkdirFails
  <2>1. disk' \in Tree
    <3>1. PICK d \in dirs \ disk.dirs, made \in SUBSET dirs :
            disk' = Without(MakeDirs(locals, made), Files(locals) \cap {d})
      BY <1>4 DEF MkdirFails
    <3>2. made \in SUBSET Path
      BY <3>1, TreesType, EnteredType
    <3>3. MakeDirs(locals, made) \in Tree
      BY <3>2, MakeDirsType DEF TypeInv, TypeOK
    <3> QED BY <3>1, <3>3, WithoutType
  <2>2. faults' \in 0..MaxFaults
    BY <1>4, FaultType DEF MkdirFails, TypeInv, TypeOK
  <2>3. step' = "over" /\ rc' = "fatal"
    BY <1>4 DEF MkdirFails, End
  <2> QED
    BY <1>4, <2>1, <2>2, <2>3 DEF MkdirFails, TypeInv, TypeOK, OnlyItsRoots, Fresh, tree, result
<1>5. CASE PlanRm
  <2>1. queue' \subseteq Transfer
    BY <1>5, TreesType, RmTasksType DEF PlanRm, TypeInv, TypeOK
  <2>2. step' \in {"moving", "over"} /\ rc' \in {"fatal", rc}
    BY <1>5 DEF PlanRm, End
  <2> QED
    BY <1>5, <2>1, <2>2 DEF PlanRm, TypeInv, TypeOK, OnlyItsRoots, Fresh, tree, env, result
<1> QED BY <1>1, <1>2, <1>3, <1>4, <1>5

\* The transfers.
LEMMA MovingType ==
  ASSUME TypeInv, NEW x \in queue, Move(x) \/ MoveLost(x) \/ Skip(x) \/ MoveFails(x)
  PROVE  TypeInv'
<1>1. x \in Transfer /\ disk \in Tree /\ store \in [Root -> SUBSET Path]
  BY DEF TypeInv, TypeOK
<1>2. queue' \subseteq Transfer /\ done' \subseteq Transfer /\ lost' \subseteq Transfer
  BY <1>1 DEF Move, MoveLost, Skip, MoveFails, TypeInv, TypeOK, result
<1>3. disk' \in Tree /\ store' \in [Root -> SUBSET Path]
  BY <1>1, EffectType, WithoutType DEF Move, MoveLost, Skip, MoveFails
<1>4. faults' \in 0..MaxFaults /\ silent' \in 0..MaxSilent
  BY FaultType, SilenceType DEF Move, MoveLost, Skip, MoveFails, TypeInv, TypeOK, env, result
<1>5. num' \in Nat
  <2>1. num' = num \/ num' = num + 1
    BY DEF Move, MoveLost, Skip, MoveFails, result
  <2>2. num \in Nat
    BY DEF TypeInv, TypeOK
  <2> QED BY <2>1, <2>2
<1>6. failing' \in BOOLEAN
  BY DEF Move, MoveLost, Skip, MoveFails, TypeInv, TypeOK
<1>7. UNCHANGED <<cmd, step, f, lister, listed, have, rc, changes, always, ever>>
  BY DEF Move, MoveLost, Skip, MoveFails, tree, env, result
<1> QED
  BY <1>2, <1>3, <1>4, <1>5, <1>6, <1>7 DEF TypeInv, TypeOK, OnlyItsRoots, Fresh

LEMMA OthersType == ASSUME TypeInv, OthersChange PROVE TypeInv'
<1>1. PICK r \in Root, p \in Path :
        /\ store' = [store EXCEPT ![r] = IF p \in @ THEN @ \ {p} ELSE @ \cup {p}]
        /\ always' = [always EXCEPT ![r] = @ \ {p}]
        /\ ever' = [ever EXCEPT ![r] = @ \cup {p}]
  BY DEF OthersChange, TypeInv, TypeOK, Worlds
<1>2. /\ store' \in [Root -> SUBSET Path]
      /\ always' \in [Root -> SUBSET Path]
      /\ ever' \in [Root -> SUBSET Path]
  BY <1>1 DEF TypeInv, TypeOK
<1>3. changes' \in 0..MaxChanges
  <2>1. changes \in 0..MaxChanges /\ changes > 0 /\ changes' = changes - 1
    BY DEF OthersChange, TypeInv, TypeOK
  <2> QED BY <2>1, Bounds
<1> QED BY <1>2, <1>3 DEF OthersChange, TypeInv, TypeOK, OnlyItsRoots, Fresh, tree, result

LEMMA TypeStep == TypeInv /\ [Next]_vars => TypeInv'
<1> SUFFICES ASSUME TypeInv, [Next]_vars PROVE TypeInv'
  OBVIOUS
<1>1. CASE Command
  BY <1>1, ListingType, CommandType, PlanType, MovingType DEF Command
<1>2. CASE OthersChange
  BY <1>2, OthersType
<1>3. CASE UNCHANGED vars
  BY <1>3 DEF vars, tree, env, result, TypeInv, TypeOK, OnlyItsRoots, Fresh
<1> QED BY <1>1, <1>2, <1>3 DEF Next, Over

\* The variables of a command keep their types, with any number of directories,
\* failures and tries: no list is added for a root the command does not name, and
\* the runs of the listing stay within MAX_LISTINGS.
THEOREM TypeCorrect == Spec => []TypeOK
<1>1. TypeInv => TypeOK
  BY DEF TypeInv
<1> QED BY <1>1, InitType, TypeStep, PTL DEF Spec

-----------------------------------------------------------------------------
\* What a command may lose is decided when transfers are queued.
MayDelete == cmd.verb = "rm" \/ (cmd.verb = "upload" /\ cmd.delete_missing)
MayUnlink == cmd.verb = "download" /\ cmd.delete_missing

QueueIsMild ==
  \A x \in queue : /\ x[1] = "del" => MayDelete
                   /\ x[1] \in {"getdir", "unlink"} => MayUnlink

LossInv ==
  /\ QueueIsMild
  /\ NothingElseIsLost

LEMMA TaskKind ==
  ASSUME NEW kind, NEW r, NEW paths, NEW x \in Tasks(kind, r, paths)
  PROVE  x[1] = kind /\ x[2] = r /\ x[3] \in paths
BY DEF Tasks

LEMMA MildUpload ==
  ASSUME NEW r, NEW l, NEW m, NEW x \in process_upload(r, l, m), cmd.verb = "upload"
  PROVE  /\ x[1] = "del" => MayDelete
         /\ x[1] \notin {"getdir", "unlink"}
<1>1. \/ x \in Tasks("put", r, Uploads(l, m))
      \/ cmd.delete_missing /\ x \in Tasks("del", r, Deletions(l, m))
  BY DEF process_upload
<1> QED BY <1>1, TaskKind DEF MayDelete

LEMMA MildDownload ==
  ASSUME NEW l, NEW m, NEW x \in process_downloads(l, m), cmd.verb = "download"
  PROVE  /\ x[1] # "del"
         /\ x[1] \in {"getdir", "unlink"} => MayUnlink
<1>1. CASE \E r \in have : x \in Tasks("get", r, Downloads(l, m, r) \ l.dirs)
  BY <1>1, TaskKind
<1>2. CASE \E r \in have : x \in Tasks("getdir", r, Downloads(l, m, r) \cap l.dirs)
  <2>1. PICK r \in have : x \in Tasks("getdir", r, Downloads(l, m, r) \cap l.dirs)
    BY <1>2
  <2>2. x[1] = "getdir" /\ x[3] \in Downloads(l, m, r) \cap l.dirs
    BY <2>1, TaskKind
  <2> QED BY <2>2 DEF Downloads, MayUnlink
<1>3. CASE /\ cmd.delete_missing
           /\ x \in Tasks("unlink", CHOOSE r \in have : TRUE, Unseen(l, m))
  BY <1>3, TaskKind DEF MayUnlink
<1> QED BY <1>1, <1>2, <1>3 DEF process_downloads

LEMMA SameCommand == ASSUME [Next]_vars PROVE UNCHANGED cmd
BY DEF Next, Command, Start, MainFails, NextRoot, ReadPage, FinishListing, EndListing,
       ListingCut, ListingFails, Relist, WalkEnds, PlanUpload, PlanDownload, NoDownload, MkdirFails, PlanRm,
       Move, MoveLost, Skip, MoveFails, RunEnds, OthersChange, Over, vars, env, result

LEMMA QueueStep ==
  ASSUME TypeInv, QueueIsMild, [Next]_vars
  PROVE  QueueIsMild'
<1>1. UNCHANGED cmd
  BY SameCommand
<1>2. CASE queue' \subseteq queue
  BY <1>1, <1>2 DEF QueueIsMild, MayDelete, MayUnlink
<1>3. CASE \E t \in Listing : FinishListing(t) \/ ListingCut(t)
  <2>1. PICK t \in Listing : FinishListing(t) \/ ListingCut(t)
    BY <1>3
  <2>2. PICK files : queue' = queue \cup publish_subdir_task(t[1], files)
    BY <2>1 DEF FinishListing, ListingCut, EndListing
  <2>3. \A x \in publish_subdir_task(t[1], files) : x[1] = "acl"
    BY DEF publish_subdir_task
  <2> QED BY <1>1, <2>2, <2>3 DEF QueueIsMild, MayDelete, MayUnlink
<1>4. CASE PlanUpload
  <2>1. \/ UNCHANGED queue
        \/ \E r, l : queue' = process_upload(r, l, Remotes)
    BY <1>4 DEF PlanUpload
  <2>2. cmd.verb = "upload"
    BY <1>4 DEF PlanUpload, Listed
  <2> QED BY <1>1, <1>2, <2>1, <2>2, MildUpload DEF QueueIsMild, MayDelete, MayUnlink
<1>5. CASE PlanDownload
  <2>1. \/ UNCHANGED queue
        \/ \E l : queue' = process_downloads(l, Remotes)
    BY <1>5 DEF PlanDownload
  <2>2. cmd.verb = "download"
    BY <1>5 DEF PlanDownload, Listed
  <2> QED BY <1>1, <1>2, <2>1, <2>2, MildDownload DEF QueueIsMild, MayDelete, MayUnlink
<1>6. CASE PlanRm
  <2>1. \/ UNCHANGED queue
        \/ \A x \in queue' : \E r, paths : x \in Tasks("del", r, paths)
    BY <1>6 DEF PlanRm
  <2>2. cmd.verb = "rm"
    BY <1>6 DEF PlanRm, Listed
  <2> QED BY <1>1, <1>2, <2>1, <2>2, TaskKind DEF QueueIsMild, MayDelete, MayUnlink
<1>7. \/ queue' \subseteq queue
      \/ \E t \in Listing : FinishListing(t) \/ ListingCut(t)
      \/ PlanUpload \/ PlanDownload \/ PlanRm
  BY DEF Next, Command, Start, MainFails, NextRoot, ReadPage, ListingFails,
         Relist, WalkEnds, NoDownload, MkdirFails,
         Move, MoveLost, Skip, MoveFails, RunEnds, OthersChange, Over, vars, env, result
<1> QED BY <1>2, <1>3, <1>4, <1>5, <1>6, <1>7

\* Without -D a download makes room only where nothing is.
LEMMA MadeDirs ==
  ASSUME NEW l \in Tree, NEW m, disk \in Tree, ~cmd.delete_missing,
         NEW dirs \in SUBSET Entered(l, m)
  PROVE  Files(disk) \subseteq Files(MakeDirs(l, dirs)) /\ disk.dirs \subseteq MakeDirs(l, dirs).dirs
<1>1. Files(l) \cap dirs = {}
  BY DEF Entered
<1> QED BY <1>1 DEF MakeDirs, Files

LEMMA MildEffect ==
  ASSUME NEW x \in Transfer, disk \in Tree, Effect(x), x[1] \notin {"getdir", "unlink"}
  PROVE  Files(disk) \subseteq Files(disk') /\ disk.dirs \subseteq disk'.dirs
<1>1. Without(disk, Clearing(x)) = disk
  BY DEF Without, Clearing, Tree
<1>2. \/ disk' = disk
      \/ disk' = [disk EXCEPT !.files = @ \cup {x[3]}, !.odd = @ \ {x[3]}]
  BY <1>1 DEF Effect
<1> QED BY <1>2 DEF Files, Tree

\* The keys that others have left alone leave the store only with a "del".
LEMMA StoreStep ==
  ASSUME TypeInv, [Next]_vars, NEW r \in Root, NEW p \in always'[r] \ store'[r]
  PROVE  /\ p \in always[r]
         /\ p \in store[r] => \E x \in queue : x[1] = "del" /\ x[3] = p /\ x[2] = r
<1>0. /\ store \in [Root -> SUBSET Path] /\ always \in [Root -> SUBSET Path]
      /\ queue \subseteq Transfer
  BY DEF TypeInv, TypeOK
<1>1. ASSUME NEW x \in queue, Effect(x), UNCHANGED always
      PROVE  /\ p \in always[r]
             /\ p \in store[r] => x[1] = "del" /\ x[3] = p /\ x[2] = r
  <2>1. \/ x[1] = "put" /\ store' = [store EXCEPT ![x[2]] = @ \cup {x[3]}]
        \/ x[1] = "del" /\ store' = [store EXCEPT ![x[2]] = @ \ {x[3]}]
        \/ store' = store
    BY <1>1 DEF Effect
  <2>2. x[2] \in Root
    BY <1>0 DEF Transfer
  <2> QED BY <1>0, <1>1, <2>1, <2>2
<1>2. CASE UNCHANGED <<store, always>>
  BY <1>2
<1>3. CASE OthersChange
  <2>1. PICK s \in Root, q \in Path :
          /\ store' = [store EXCEPT ![s] = IF q \in @ THEN @ \ {q} ELSE @ \cup {q}]
          /\ always' = [always EXCEPT ![s] = @ \ {q}]
    BY <1>3 DEF OthersChange, TypeInv, TypeOK, Worlds
  <2>2. CASE s # r
    BY <1>0, <2>1, <2>2
  <2>3. CASE s = r
    <3>1. p \in always[r] /\ p # q
      BY <1>0, <2>1, <2>3
    <3>2. p \notin store[r]
      BY <1>0, <2>1, <2>3, <3>1
    <3> QED BY <3>1, <3>2
  <2> QED BY <2>2, <2>3
<1>4. \/ UNCHANGED <<store, always>>
      \/ OthersChange
      \/ \E x \in queue : Effect(x) /\ UNCHANGED always
  BY DEF Next, Command, Start, MainFails, NextRoot, ReadPage, FinishListing, EndListing,
         ListingCut, ListingFails, Relist, WalkEnds, PlanUpload, PlanDownload, NoDownload, MkdirFails, PlanRm,
         Move, MoveLost, Skip, MoveFails, RunEnds, Over, vars, env, result
<1> QED BY <1>1, <1>2, <1>3, <1>4

LEMMA DiskStep ==
  ASSUME [Next]_vars
  PROVE  \/ UNCHANGED disk
         \/ PlanDownload \/ MkdirFails
         \/ \E x \in queue : Effect(x) \/ disk' = Without(disk, Clearing(x))
BY DEF Next, Command, Start, MainFails, NextRoot, ReadPage, FinishListing, EndListing,
       ListingCut, ListingFails, Relist, WalkEnds, PlanUpload, NoDownload, PlanRm,
       Move, MoveLost, Skip, MoveFails, RunEnds, OthersChange, Over, vars, env, result

LEMMA LossStep == ASSUME TypeInv, LossInv, [Next]_vars PROVE LossInv'
<1>1. QueueIsMild'
  BY QueueStep DEF LossInv
<1>2. UNCHANGED cmd
  BY SameCommand
<1>3. ASSUME ~MayDelete, NEW r \in Root PROVE always'[r] \subseteq store'[r]
  <2>1. always[r] \subseteq store[r]
    BY <1>3 DEF LossInv, NothingElseIsLost, MayDelete
  <2> QED BY <1>3, <2>1, StoreStep DEF LossInv, QueueIsMild
<1>4. ASSUME ~MayUnlink
      PROVE  Files(cmd.target) \subseteq Files(disk') /\ cmd.target.dirs \subseteq disk'.dirs
  <2>1. Files(cmd.target) \subseteq Files(disk) /\ cmd.target.dirs \subseteq disk.dirs
    BY <1>4 DEF LossInv, NothingElseIsLost, MayUnlink
  <2> DEFINE locals == build_local_dir(disk)
             dirs == Entered(locals, Remotes)
  <2>2. disk \in Tree /\ locals \in Tree
    BY TreesType DEF TypeInv, TypeOK
  <2>3. CASE UNCHANGED disk
    BY <2>1, <2>3
  <2>4. CASE PlanDownload
    <3>1. ~cmd.delete_missing
      BY <1>4, <2>4 DEF PlanDownload, Listed, MayUnlink
    <3>2. disk' = MakeDirs(locals, dirs)
      BY <2>4 DEF PlanDownload
    <3> QED BY <2>1, <2>2, <3>1, <3>2, MadeDirs
  <2>5. CASE MkdirFails
    <3>1. ~cmd.delete_missing
      BY <1>4, <2>5 DEF MkdirFails, Listed, MayUnlink
    <3>2. PICK d \in dirs, made \in SUBSET dirs :
            disk' = Without(MakeDirs(locals, made), Files(locals) \cap {d})
      BY <2>5 DEF MkdirFails
    <3>3. Files(locals) \cap {d} = {}
      BY <3>1 DEF Entered
    <3>4. MakeDirs(locals, made) \in Tree
      BY <2>2, MakeDirsType, EnteredType, TreesType
    <3>5. disk' = MakeDirs(locals, made)
      BY <3>2, <3>3, <3>4 DEF Without, Tree
    <3> QED BY <2>1, <2>2, <3>1, <3>5, MadeDirs
  <2>6. CASE \E x \in queue : \/ Effect(x)
                              \/ disk' = Without(disk, Clearing(x))
    <3>1. PICK x \in queue : \/ Effect(x)
                             \/ disk' = Without(disk, Clearing(x))
      BY <2>6
    <3>2. x \in Transfer /\ x[1] \notin {"getdir", "unlink"}
      BY <1>4 DEF LossInv, QueueIsMild, TypeInv, TypeOK
    <3>3. CASE Effect(x)
      BY <2>1, <2>2, <3>2, <3>3, MildEffect
    <3>4. CASE disk' = Without(disk, Clearing(x))
      <4>1. disk' = disk
        BY <2>2, <3>2, <3>4 DEF Without, Clearing, Tree
      <4> QED BY <2>1, <4>1
    <3> QED BY <3>1, <3>3, <3>4
  <2>7. \/ UNCHANGED disk
        \/ PlanDownload \/ MkdirFails
        \/ \E x \in queue : Effect(x) \/ disk' = Without(disk, Clearing(x))
    BY DiskStep
  <2> QED BY <2>3, <2>4, <2>5, <2>6, <2>7
<1>5. NothingElseIsLost'
  BY <1>2, <1>3, <1>4 DEF NothingElseIsLost, MayDelete, MayUnlink
<1> QED BY <1>1, <1>5 DEF LossInv

\* A command other than rm that was not given -D deletes nothing, in the bucket or
\* on the disk, with any trees, whatever fails and whatever others do; and a
\* command that may delete on one side touches nothing on the other.
THEOREM NothingIsLost == Spec => []NothingElseIsLost
<1>1. Init => LossInv
  BY DEF Init, LossInv, QueueIsMild, NothingElseIsLost
<1>2. TypeInv /\ LossInv /\ [Next]_vars => LossInv'
  BY LossStep
<1>3. LossInv => NothingElseIsLost
  BY DEF LossInv
<1> QED BY <1>1, <1>2, <1>3, InitType, TypeStep, PTL DEF Spec
=============================================================================
