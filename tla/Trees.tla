------------------------------- MODULE Trees --------------------------------
(***************************************************************************)
(* The trees es3 compares: local_dir (es3/sync.cpp) and s3_directory       *)
(* (es3/connection.h), and the pages in which S3 answers a listing.        *)
(*                                                                         *)
(* A path is the sequence of its names, relative to the directory that is  *)
(* synchronised; a name is the number of its place in the order of names.  *)
(* The bucket is a set of keys: a directory there is a common prefix.      *)
(***************************************************************************)
EXTENDS Naturals, Sequences, FiniteSets, SequencesExt

CONSTANTS
  Path,      \* the paths of files and directories
  PageSize   \* entries of one answer of S3 (1000)

ASSUME PathAssumption ==
  /\ IsFiniteSet(Path)
  /\ \A p \in Path : p \in Seq(Nat \ {0}) /\ Len(p) > 0
  /\ \A p \in Path : \A n \in 1..Len(p) : SubSeq(p, 1, n) \in Path
  /\ PageSize \in Nat \ {0}

Dir == Path \cup {<<>>}

\* The directories a path is in, the starting one left out, and what is below it.
Above == [p \in Path |-> {a \in Path : IsStrictPrefix(a, p)}]
Below == [p \in Dir |-> {q \in Path : IsStrictPrefix(p, q)}]
Inside == [d \in Dir |-> {q \in Path : Front(q) = d}]
From(p) == Below[p] \cup {p}

\* unsyncable_ files (symbolic links, devices) are only known to be there.
Tree == [files : SUBSET Path, odd : SUBSET Path, dirs : SUBSET Path]
Empty == [files |-> {}, odd |-> {}, dirs |-> {}]
Files(t) == t.files \cup t.odd

\* Every entry of a proper tree is in a directory, and has one kind.
IsProper(t) ==
  /\ \A p \in Files(t) \cup t.dirs : Above[p] \subseteq t.dirs
  /\ t.files \cap t.odd = {} /\ Files(t) \cap t.dirs = {}

Without(t, gone) ==
  [files |-> t.files \ gone, odd |-> t.odd \ gone, dirs |-> t.dirs \ gone]

Merge(trees) ==
  [files |-> UNION {t.files : t \in trees},
   odd   |-> UNION {t.odd : t \in trees},
   dirs  |-> UNION {t.dirs : t \in trees}]

\* Mutant: the same file in both trees is not noticed.
Collide_ShadowOnly(left, right) ==
  Files(left) \cap right.dirs # {} \/ left.dirs \cap Files(right) # {}

\* merge_to_left gives up: the same file twice, or a file where a directory is.
Collide(left, right) ==
  \/ Files(left) \cap (Files(right) \cup right.dirs) # {}
  \/ left.dirs \cap Files(right) # {}

-----------------------------------------------------------------------------
\* What S3 lists for a directory: keys and common prefixes in one order, in which
\* "a" comes before "a/".
Entries(keys, d) ==
  {<<p, "file">> : p \in keys \cap Inside[d]}
    \cup {<<q, "dir">> : q \in {q \in Inside[d] : keys \cap Below[q] # {}}}

Rank(e) == 2 * Last(e[1]) + (IF e[2] = "dir" THEN 1 ELSE 0)

After(keys, d, marker) == {e \in Entries(keys, d) : Rank(e) > marker}

Page(keys, d, marker) ==
  {e \in After(keys, d, marker) :
     Cardinality({x \in After(keys, d, marker) : Rank(x) < Rank(e)}) < PageSize}

\* Mutant: the first answer is taken for the whole directory.
IsTruncated_Never(keys, d, marker) == FALSE

IsTruncated(keys, d, marker) == After(keys, d, marker) # Page(keys, d, marker)

\* Mutant: the marker is never set.
Markers_Unset(page) == {0}

\* The next marker is the name in the last node of the answer, where keys and
\* prefixes are grouped, not in the order of names.
Markers(page) ==
  {Rank(e) : e \in {e \in page : \A x \in page : x[2] = e[2] => Rank(x) <= Rank(e)}}

\* The nodes of an answer are entered in files_ and subdirs_.
Enter(t, page) ==
  [t EXCEPT !.files = @ \cup {e[1] : e \in {x \in page : x[2] = "file"}},
            !.dirs  = @ \cup {e[1] : e \in {x \in page : x[2] = "dir"}}]
=============================================================================
