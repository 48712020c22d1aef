--------------------------- MODULE ListingProofs ----------------------------
(***************************************************************************)
(* Proofs about the listing of Sync: whatever is tried again and whatever  *)
(* others do to the bucket meanwhile, the trees that are planned with have *)
(* all the keys that were there all the time, and no others.               *)
(***************************************************************************)
EXTENDS SyncProofs

-----------------------------------------------------------------------------
\* While the bucket is listed nothing is transferred but grants.
Early == step \in {"start", "main", "listing"}

QueueStage == Early => disk = cmd.target /\ \A x \in queue : x[1] = "acl"

StoreBounds ==
  \A r \in Root : /\ always[r] \subseteq ever[r]
                  /\ Early => always[r] \subseteq store[r] /\ store[r] \subseteq ever[r]

\* A tree holds what was in the bucket at some time, with what is above it.
TreeBounds ==
  \A r \in Root : /\ listed[r].files \subseteq ever[r]
                  /\ \A q \in listed[r].dirs : ever[r] \cap Below[q] # {}

Rooted ==
  /\ \A r \in Root : \A p \in listed[r].files \cup listed[r].dirs : Above[p] \subseteq listed[r].dirs
  /\ \A t \in Listing : lister[t].pc # "idle" /\ t[2] # <<>> => t[2] \in listed[t[1]].dirs

\* The tasks of subdirectories exist only when their root has been listed, so that
\* a new tree for the root takes nothing from them.
TopFirst ==
  \A t \in Listing : t[2] # <<>> /\ lister[t].pc # "idle" =>
    lister[Top(t[1])].pc \in {"done", "cut", "failed"}

\* What a task has got past is in the tree, and its subdirectories have tasks.
Past(t, e) ==
  \/ lister[t].pc = "done"
  \/ lister[t].pc = "reading" /\ Rank(e) <= lister[t].marker

FilesRead ==
  \A t \in Listing : \A p \in always[t[1]] \cap Inside[t[2]] :
    Past(t, <<p, "file">>) => p \in listed[t[1]].files

DirsRead ==
  \A t \in Listing : \A q \in Inside[t[2]] : always[t[1]] \cap Below[q] # {} =>
    /\ Past(t, <<q, "dir">>) => q \in listed[t[1]].dirs
    /\ lister[t].pc = "done" => lister[<<t[1], q>>].pc # "idle"

TopsRun ==
  /\ step \in {"listing", "moving"} => \A r \in cmd.roots : lister[Top(r)].pc # "idle"
  /\ \A r \in cmd.roots : lister[Top(r)].pc = "done" => r \in have
  /\ step = "moving" => \A t \in Listing : lister[t].pc # "reading"

ListInv ==
  /\ QueueStage /\ StoreBounds /\ TreeBounds /\ Rooted /\ TopFirst
  /\ FilesRead /\ DirsRead /\ TopsRun

LEMMA ListInit == Init => ListInv
<1> SUFFICES ASSUME Init PROVE ListInv
  OBVIOUS
<1>1. QueueStage
  BY DEF Init, QueueStage
<1>2. StoreBounds
  BY DEF Init, StoreBounds
<1>3. TreeBounds /\ Rooted
  BY DEF Init, TreeBounds, Rooted, Empty, Idle
<1>4. \A t \in Listing : lister[t].pc = "idle"
  BY DEF Init, Idle
<1>5. TopFirst /\ FilesRead /\ DirsRead
  BY <1>4 DEF TopFirst, FilesRead, DirsRead, Past
<1>6. TopsRun
  <2>1. step = "start"
    BY DEF Init
  <2>2. \A r \in cmd.roots : Top(r) \in Listing
    BY InitType DEF TypeInv, TypeOK, Worlds, Top, Listing, Dir
  <2> QED BY <1>4, <2>1, <2>2 DEF TopsRun
<1> QED BY <1>1, <1>2, <1>3, <1>5, <1>6 DEF ListInv

LEMMA ListingPair ==
  ASSUME NEW t \in Listing
  PROVE  /\ t = <<t[1], t[2]>> /\ t[1] \in Root /\ t[2] \in Dir
         /\ Top(t[1]) \in Listing /\ Top(t[1])[1] = t[1] /\ Top(t[1])[2] = <<>>
         /\ t[2] = <<>> <=> t = Top(t[1])
         /\ \A q \in Path : <<t[1], q>> \in Listing
BY DEF Listing, Top, Dir

-----------------------------------------------------------------------------
LEMMA StageStep ==
  ASSUME TypeInv, ListInv, [Next]_vars
  PROVE  QueueStage' /\ StoreBounds'
<1>0. /\ UNCHANGED cmd /\ disk \in Tree
      /\ always \in [Root -> SUBSET Path] /\ ever \in [Root -> SUBSET Path]
      /\ store \in [Root -> SUBSET Path]
      /\ QueueStage /\ StoreBounds
  BY SameCommand DEF TypeInv, TypeOK, ListInv
<1>1. CASE UNCHANGED <<store, disk, always, ever>> /\ ~Early'
  BY <1>0, <1>1 DEF QueueStage, StoreBounds
<1>2. CASE UNCHANGED <<store, disk, always, ever>> /\ Early /\ queue' \subseteq queue
  BY <1>0, <1>2 DEF QueueStage, StoreBounds
<1>3. CASE ~Early' /\ UNCHANGED <<always, ever>>
  BY <1>0, <1>3 DEF QueueStage, StoreBounds
<1>4. CASE \E t \in Listing : FinishListing(t) \/ ListingCut(t)
  <2>1. PICK t \in Listing : FinishListing(t) \/ ListingCut(t)
    BY <1>4
  <2>2. \E files : queue' = queue \cup publish_subdir_task(t[1], files)
    BY <2>1 DEF FinishListing, ListingCut, EndListing
  <2>4. \A files : \A x \in publish_subdir_task(t[1], files) : x[1] = "acl"
    BY DEF publish_subdir_task
  <2>3. Early /\ UNCHANGED <<store, disk, always, ever>>
    BY <1>4 DEF FinishListing, ListingCut, EndListing, Runs, Early, env
  <2> QED BY <1>0, <2>2, <2>3, <2>4 DEF QueueStage, StoreBounds
<1>5. CASE \E x \in queue : Move(x) \/ MoveLost(x) \/ Skip(x) \/ MoveFails(x)
  <2>1. PICK x \in queue : Move(x) \/ MoveLost(x) \/ Skip(x) \/ MoveFails(x)
    BY <1>5
  <2>2. /\ UNCHANGED <<step, always, ever>> /\ queue' \subseteq queue
    BY <2>1 DEF Move, MoveLost, Skip, MoveFails, env
  <2>3. CASE ~Early
    BY <1>3, <2>2, <2>3 DEF Early
  <2>4. CASE Early
    <3>1. x[1] = "acl"
      BY <1>0, <2>4 DEF QueueStage
    <3>2. Without(disk, Clearing(x)) = disk
      BY <1>0, <3>1 DEF Clearing, Without, Tree
    <3>3. UNCHANGED <<store, disk>>
      BY <2>1, <3>1, <3>2 DEF Move, MoveLost, Skip, MoveFails, Effect
    <3> QED BY <1>2, <2>2, <2>4, <3>3
  <2> QED BY <2>3, <2>4
<1>6. CASE OthersChange
  <2>1. PICK s \in Root, q \in Path :
          /\ store' = [store EXCEPT ![s] = IF q \in @ THEN @ \ {q} ELSE @ \cup {q}]
          /\ always' = [always EXCEPT ![s] = @ \ {q}]
          /\ ever' = [ever EXCEPT ![s] = @ \cup {q}]
    BY <1>6 DEF OthersChange, TypeInv, TypeOK, Worlds
  <2>2. UNCHANGED <<disk, queue, step>> /\ Early
    BY <1>6 DEF OthersChange, Early
  <2>3. ASSUME NEW r \in Root
        PROVE  /\ always'[r] \subseteq ever'[r]
               /\ always'[r] \subseteq store'[r] /\ store'[r] \subseteq ever'[r]
    <3>1. always[r] \subseteq store[r] /\ store[r] \subseteq ever[r]
      BY <1>0, <2>2 DEF StoreBounds
    <3>2. CASE s = r
      BY <1>0, <2>1, <3>1, <3>2
    <3>3. CASE s # r
      BY <1>0, <2>1, <3>1, <3>3
    <3> QED BY <3>2, <3>3
  <2> QED BY <1>0, <2>2, <2>3 DEF QueueStage, StoreBounds
<1>7. ASSUME \/ Start \/ MainFails \/ NextRoot \/ Relist \/ WalkEnds \/ RunEnds
             \/ PlanUpload \/ PlanDownload \/ NoDownload \/ MkdirFails \/ PlanRm
             \/ UNCHANGED vars
             \/ \E t \in Listing : ReadPage(t) \/ ListingFails(t)
      PROVE  \/ UNCHANGED <<store, disk, always, ever>> /\ Early /\ queue' \subseteq queue
             \/ ~Early' /\ UNCHANGED <<always, ever>>
  <2>1. CASE \/ Start \/ NextRoot \/ Relist \/ \E t \in Listing : ReadPage(t) \/ ListingFails(t)
    BY <2>1 DEF Start, NextRoot, Relist, ReadPage, ListingFails, Runs, Settled, Early, env
  <2>2. CASE MainFails \/ WalkEnds \/ RunEnds \/ NoDownload \/ MkdirFails
    BY <2>2 DEF MainFails, WalkEnds, RunEnds, NoDownload, MkdirFails, End, Early, env
  <2>3. CASE PlanUpload \/ PlanDownload \/ PlanRm
    BY <2>3 DEF PlanUpload, PlanDownload, PlanRm, End, Early, env
  <2>4. CASE UNCHANGED vars
    BY <2>4 DEF vars, env, Early
  <2> QED BY <1>7, <2>1, <2>2, <2>3, <2>4
<1> QED
  BY <1>2, <1>3, <1>4, <1>5, <1>6, <1>7 DEF Next, Command, Over

TreeInv == TreeBounds /\ Rooted /\ TopFirst /\ FilesRead /\ DirsRead

\* Steps that list nothing: keys are at most taken out of always and added to ever.
LEMMA TreeStays ==
  ASSUME TreeInv, UNCHANGED tree,
         \A r \in Root : always'[r] \subseteq always[r] /\ ever[r] \subseteq ever'[r]
  PROVE  TreeInv'
<1>1. UNCHANGED <<lister, listed, have>>
  BY DEF tree
<1>2. TreeBounds'
  <2>1. ASSUME NEW r \in Root
        PROVE  /\ listed[r].files \subseteq ever'[r]
               /\ \A q \in listed[r].dirs : ever'[r] \cap Below[q] # {}
    <3>1. /\ listed[r].files \subseteq ever[r]
          /\ \A q \in listed[r].dirs : ever[r] \cap Below[q] # {}
          /\ ever[r] \subseteq ever'[r]
      BY <2>1 DEF TreeInv, TreeBounds
    <3> QED BY <3>1
  <2> QED BY <1>1, <2>1 DEF TreeBounds
<1>3. Rooted' /\ TopFirst'
  BY <1>1 DEF TreeInv, Rooted, TopFirst
<1>4. \A t \in Listing : always'[t[1]] \subseteq always[t[1]]
  BY ListingPair
<1>5. FilesRead'
  BY <1>1, <1>4 DEF TreeInv, FilesRead, Past
<1>6. DirsRead'
  <2>1. ASSUME NEW t \in Listing, NEW q \in Inside[t[2]], always'[t[1]] \cap Below[q] # {}
        PROVE  /\ Past(t, <<q, "dir">>)' => q \in listed'[t[1]].dirs
               /\ lister'[t].pc = "done" => lister'[<<t[1], q>>].pc # "idle"
    <3>1. always[t[1]] \cap Below[q] # {}
      BY <1>4, <2>1
    <3> QED BY <1>1, <2>1, <3>1 DEF TreeInv, DirsRead, Past
  <2> QED BY <2>1 DEF DirsRead
<1> QED BY <1>2, <1>3, <1>5, <1>6 DEF TreeInv

\* A new run of the listing starts with empty trees and only the tasks of the roots.
LEMMA TreeBegins ==
  ASSUME BeginListing, UNCHANGED <<always, ever>>
  PROVE  TreeInv'
<1>1. \A r \in Root : listed'[r] = Empty
  BY DEF BeginListing
<1>2. \A t \in Listing : /\ lister'[t] = Idle \/ lister'[t] = Reading
                         /\ t[2] # <<>> => lister'[t] = Idle
  BY DEF BeginListing
<1>3. TreeBounds'
  BY <1>1 DEF TreeBounds, Empty
<1>4. Rooted' /\ TopFirst'
  BY <1>1, <1>2, ListingPair DEF Rooted, TopFirst, Idle, Empty
<1>5. ASSUME NEW t \in Listing, NEW q \in Inside[t[2]], NEW kind \in {"file", "dir"}
      PROVE  ~Past(t, <<q, kind>>)' /\ lister'[t].pc # "done"
  <2>1. q \in Path
    BY ListingPair DEF Inside
  <2>2. /\ lister'[t].marker = 0 /\ lister'[t].pc \in {"idle", "reading"}
    BY <1>2 DEF Idle, Reading
  <2>3. Rank(<<q, kind>>) \in Nat /\ Rank(<<q, kind>>) > 0
    BY <2>1, RankType
  <2> QED BY <2>2, <2>3 DEF Past
<1>6. FilesRead' /\ DirsRead'
  BY <1>5 DEF FilesRead, DirsRead
<1> QED BY <1>3, <1>4, <1>6 DEF TreeInv

\* A task begins, begins again with the first page, or fails; the trees stay.
LEMMA TaskMoves ==
  ASSUME TreeInv, NEW z \in Listing, UNCHANGED <<listed, always, ever>>,
         \A t \in Listing : t # z => lister'[t] = lister[t],
         \/ lister[z].pc = "reading"
         \/ lister[z].pc = "idle" /\ z[2] = <<>>,
         \/ lister'[z].pc = "reading" /\ lister'[z].marker = 0
         \/ lister'[z].pc = "failed"
  PROVE  TreeInv'
<1>1. TreeBounds'
  BY DEF TreeInv, TreeBounds
<1>2. Rooted'
  BY DEF TreeInv, Rooted
<1>3. TopFirst'
  <2>1. ASSUME NEW t \in Listing, t[2] # <<>>, lister'[t].pc # "idle"
        PROVE  lister'[Top(t[1])].pc \in {"done", "cut", "failed"}
    <3>1. lister[t].pc # "idle"
      BY <2>1
    <3>2. lister[Top(t[1])].pc \in {"done", "cut", "failed"} /\ Top(t[1]) \in Listing
      BY <2>1, <3>1, ListingPair DEF TreeInv, TopFirst
    <3> QED BY <3>2
  <2> QED BY <2>1 DEF TopFirst
<1>4. ASSUME NEW t \in Listing, NEW q \in Inside[t[2]], NEW kind \in {"file", "dir"}
      PROVE  /\ Past(t, <<q, kind>>)' => t # z /\ Past(t, <<q, kind>>)
             /\ lister'[t].pc = "done" => t # z
             /\ lister[<<t[1], q>>].pc # "idle" => lister'[<<t[1], q>>].pc # "idle"
  <2>1. q \in Path /\ <<t[1], q>> \in Listing
    BY ListingPair DEF Inside
  <2>2. Rank(<<q, kind>>) \in Nat /\ Rank(<<q, kind>>) > 0
    BY <2>1, RankType
  <2>3. Past(t, <<q, kind>>)' => t # z /\ Past(t, <<q, kind>>)
    <3>1. CASE t = z
      BY <2>2, <3>1 DEF Past
    <3>2. CASE t # z
      BY <3>2 DEF Past
    <3> QED BY <3>1, <3>2
  <2>4. lister'[t].pc = "done" => t # z
    OBVIOUS
  <2>5. lister[<<t[1], q>>].pc # "idle" => lister'[<<t[1], q>>].pc # "idle"
    BY <2>1
  <2> QED BY <2>3, <2>4, <2>5
<1>5. FilesRead'
  <2>1. ASSUME NEW t \in Listing, NEW p \in always'[t[1]] \cap Inside[t[2]], Past(t, <<p, "file">>)'
        PROVE  p \in listed'[t[1]].files
    <3>1. Past(t, <<p, "file">>) /\ p \in always[t[1]] \cap Inside[t[2]]
      BY <1>4, <2>1
    <3> QED BY <3>1 DEF TreeInv, FilesRead
  <2> QED BY <2>1 DEF FilesRead
<1>6. DirsRead'
  <2>1. ASSUME NEW t \in Listing, NEW q \in Inside[t[2]], always'[t[1]] \cap Below[q] # {}
        PROVE  /\ Past(t, <<q, "dir">>)' => q \in listed'[t[1]].dirs
               /\ lister'[t].pc = "done" => lister'[<<t[1], q>>].pc # "idle"
    <3>1. always[t[1]] \cap Below[q] # {}
      BY <2>1
    <3>2. /\ Past(t, <<q, "dir">>) => q \in listed[t[1]].dirs
          /\ lister[t].pc = "done" => lister[<<t[1], q>>].pc # "idle"
      BY <3>1 DEF TreeInv, DirsRead
    <3> QED BY <1>4, <3>2
  <2> QED BY <2>1 DEF DirsRead
<1> QED BY <1>1, <1>2, <1>3, <1>5, <1>6 DEF TreeInv

\* The task of a root is tried again: it is the only one of its root.
LEMMA TreeRestarts ==
  ASSUME TreeInv, NEW z \in Listing, z[2] = <<>>, UNCHANGED <<always, ever>>,
         listed \in [Root -> Tree], listed' = [listed EXCEPT ![z[1]] = Empty],
         \A t \in Listing : t # z => lister'[t] = lister[t],
         lister[z].pc = "reading",
         lister'[z].pc = "reading" /\ lister'[z].marker = 0
  PROVE  TreeInv'
<1>1. /\ \A r \in Root : r # z[1] => listed'[r] = listed[r]
      /\ listed'[z[1]] = Empty
  BY ListingPair
<1>2. TreeBounds'
  BY <1>1 DEF TreeInv, TreeBounds, Empty
<1>3. ASSUME NEW t \in Listing, t[1] = z[1], t # z
      PROVE  lister[t].pc = "idle" /\ lister'[t].pc = "idle"
  <2>1. t[2] # <<>> /\ Top(t[1]) = z
    BY <1>3, ListingPair
  <2> QED BY <1>3, <2>1 DEF TreeInv, TopFirst
<1>4. Rooted'
  <2>1. \A r \in Root : \A p \in listed'[r].files \cup listed'[r].dirs :
          Above[p] \subseteq listed'[r].dirs
    BY <1>1 DEF TreeInv, Rooted, Empty
  <2>2. ASSUME NEW t \in Listing, lister'[t].pc # "idle", t[2] # <<>>
        PROVE  t[2] \in listed'[t[1]].dirs
    <3>1. t # z /\ t[1] # z[1]
      BY <1>3, <2>2
    <3>2. t[2] \in listed[t[1]].dirs
      BY <2>2, <3>1 DEF TreeInv, Rooted
    <3> QED BY <1>1, <3>1, <3>2, ListingPair
  <2> QED BY <2>1, <2>2 DEF Rooted
<1>5. TopFirst'
  <2>1. ASSUME NEW t \in Listing, t[2] # <<>>, lister'[t].pc # "idle"
        PROVE  lister'[Top(t[1])].pc \in {"done", "cut", "failed"}
    <3>1. t # z /\ t[1] # z[1] /\ Top(t[1]) \in Listing /\ Top(t[1]) # z
      BY <1>3, <2>1, ListingPair
    <3> QED BY <2>1, <3>1 DEF TreeInv, TopFirst
  <2> QED BY <2>1 DEF TopFirst
<1>6. ASSUME NEW t \in Listing, NEW q \in Inside[t[2]], NEW kind \in {"file", "dir"},
             Past(t, <<q, kind>>)' \/ lister'[t].pc = "done"
      PROVE  /\ t[1] # z[1]
             /\ Past(t, <<q, kind>>)' => Past(t, <<q, kind>>)
             /\ lister'[<<t[1], q>>] = lister[<<t[1], q>>]
             /\ lister'[t] = lister[t]
  <2>1. q \in Path /\ <<t[1], q>> \in Listing
    BY ListingPair DEF Inside
  <2>2. Rank(<<q, kind>>) \in Nat /\ Rank(<<q, kind>>) > 0
    BY <2>1, RankType
  <2>3. t # z
    BY <1>6, <2>2 DEF Past
  <2>4. t[1] # z[1]
    BY <1>3, <1>6, <2>3 DEF Past
  <2>5. <<t[1], q>> # z
    BY <2>4
  <2> QED BY <2>1, <2>3, <2>4, <2>5 DEF Past
<1>7. FilesRead'
  <2>1. ASSUME NEW t \in Listing, NEW p \in always'[t[1]] \cap Inside[t[2]], Past(t, <<p, "file">>)'
        PROVE  p \in listed'[t[1]].files
    <3>1. Past(t, <<p, "file">>) /\ p \in always[t[1]] \cap Inside[t[2]] /\ t[1] # z[1]
      BY <1>6, <2>1
    <3>2. p \in listed[t[1]].files
      BY <3>1 DEF TreeInv, FilesRead
    <3> QED BY <1>1, <3>1, <3>2, ListingPair
  <2> QED BY <2>1 DEF FilesRead
<1>8. DirsRead'
  <2>1. ASSUME NEW t \in Listing, NEW q \in Inside[t[2]], always'[t[1]] \cap Below[q] # {}
        PROVE  /\ Past(t, <<q, "dir">>)' => q \in listed'[t[1]].dirs
               /\ lister'[t].pc = "done" => lister'[<<t[1], q>>].pc # "idle"
    <3>1. /\ Past(t, <<q, "dir">>) => q \in listed[t[1]].dirs
          /\ lister[t].pc = "done" => lister[<<t[1], q>>].pc # "idle"
      BY <2>1 DEF TreeInv, DirsRead
    <3> QED BY <1>1, <1>6, <3>1, ListingPair
  <2> QED BY <2>1 DEF DirsRead
<1> QED BY <1>2, <1>4, <1>5, <1>7, <1>8 DEF TreeInv

\* An answer is entered in the tree.
LEMMA TreeGrows ==
  ASSUME TreeInv, NEW z \in Listing, NEW k \in Nat, lister[z].pc = "reading",
         listed \in [Root -> Tree], UNCHANGED ever,
         always[z[1]] \subseteq store[z[1]], store[z[1]] \subseteq ever[z[1]],
         listed' = [listed EXCEPT ![z[1]] = Enter(@, Page(store[z[1]], z[2], k))]
  PROVE  /\ TreeBounds'
         /\ \A r \in Root : \A p \in listed'[r].files \cup listed'[r].dirs :
              Above[p] \subseteq listed'[r].dirs
         /\ \A r \in Root : /\ listed[r].files \subseteq listed'[r].files
                            /\ listed[r].dirs \subseteq listed'[r].dirs
<1> DEFINE w == z[1]
           d == z[2]
           all == Enter(listed[w], Page(store[w], d, k))
<1>1. w \in Root /\ d \in Dir /\ listed[w] \in Tree
  BY ListingPair
<1>2. /\ listed'[w] = all
      /\ \A r \in Root : r # w => listed'[r] = listed[r]
  BY <1>1
<1>3. /\ listed[w].files \subseteq all.files /\ listed[w].dirs \subseteq all.dirs
      /\ all.files \subseteq listed[w].files \cup (store[w] \cap Inside[d])
      /\ all.dirs \subseteq listed[w].dirs \cup {q \in Inside[d] : store[w] \cap Below[q] # {}}
  BY <1>1, EnteredNodes
<1> HIDE DEF all, w, d
<1>4. /\ all.files \subseteq ever[w]
      /\ \A q \in all.dirs : ever[w] \cap Below[q] # {}
  <2>1. store[w] \subseteq ever[w] /\ listed[w].files \subseteq ever[w]
        /\ \A q \in listed[w].dirs : ever[w] \cap Below[q] # {}
    BY <1>1 DEF TreeInv, TreeBounds, w
  <2> QED BY <1>3, <2>1
<1>5. TreeBounds'
  BY <1>2, <1>4 DEF TreeInv, TreeBounds
<1>6. ASSUME NEW p \in all.files \cup all.dirs PROVE Above[p] \subseteq all.dirs
  <2>1. CASE p \in listed[w].files \cup listed[w].dirs
    BY <1>1, <1>3, <2>1 DEF TreeInv, Rooted
  <2>2. CASE p \in Inside[d]
    <3>1. CASE d = <<>>
      BY <1>1, <2>2, <3>1, InsideAbove
    <3>2. CASE d # <<>>
      <4>1. d \in listed[w].dirs
        BY <3>2 DEF TreeInv, Rooted, w, d
      <4>2. Above[d] \subseteq listed[w].dirs
        BY <1>1, <4>1 DEF TreeInv, Rooted
      <4>3. Above[p] = Above[d] \cup {d}
        BY <1>1, <2>2, <3>2, InsideAbove
      <4> QED BY <1>3, <4>1, <4>2, <4>3
    <3> QED BY <3>1, <3>2
  <2> QED BY <1>3, <2>1, <2>2
<1> QED BY <1>2, <1>3, <1>5, <1>6 DEF TreeInv, Rooted

LEMMA PastEntered ==
  ASSUME NEW z \in Listing, NEW k \in Nat, NEW q \in Inside[z[2]], NEW kind \in {"file", "dir"},
         listed \in [Root -> Tree], always[z[1]] \subseteq store[z[1]],
         listed' = [listed EXCEPT ![z[1]] = Enter(@, Page(store[z[1]], z[2], k))],
         kind = "file" => q \in always[z[1]],
         kind = "dir" => always[z[1]] \cap Below[q] # {},
         Rank(<<q, kind>>) > k,
         \/ ~IsTruncated(store[z[1]], z[2], k)
         \/ \E m \in Markers(Page(store[z[1]], z[2], k)) : Rank(<<q, kind>>) <= m
  PROVE  /\ kind = "file" => q \in listed'[z[1]].files
         /\ kind = "dir" => q \in listed'[z[1]].dirs
<1> DEFINE w == z[1]
           d == z[2]
           page == Page(store[w], d, k)
<1>1. w \in Root /\ d \in Dir /\ listed[w] \in Tree
  BY ListingPair
<1>2. <<q, kind>> \in Entries(store[w], d)
  <2>1. CASE kind = "file"
    BY <2>1 DEF Entries
  <2>2. CASE kind = "dir"
    <3>1. store[w] \cap Below[q] # {}
      BY <2>2
    <3> QED BY <2>2, <3>1 DEF Entries
  <2> QED BY <2>1, <2>2
<1>3. <<q, kind>> \in page
  BY <1>1, <1>2, LastPage, MarkerIsSafe
<1>4. listed'[w] = Enter(listed[w], page)
  BY <1>1
<1> QED BY <1>1, <1>3, <1>4, EnteredNodes

LEMMA TreeReads ==
  ASSUME TypeInv, StoreBounds, TreeInv, NEW z \in Listing, ReadPage(z) \/ FinishListing(z)
  PROVE  TreeInv'
<1> DEFINE w == z[1]
           d == z[2]
           k == lister[z].marker
<1>1. /\ w \in Root /\ d \in Dir /\ k \in Nat /\ listed \in [Root -> Tree]
      /\ lister[z].pc = "reading"
      /\ always[w] \subseteq store[w] /\ store[w] \subseteq ever[w]
      /\ UNCHANGED <<always, ever>>
      /\ listed' = [listed EXCEPT ![w] = Enter(@, Page(store[w], d, k))]
  BY ListingPair
  DEF ReadPage, FinishListing, EndListing, Runs, TypeInv, TypeOK, StoreBounds, Early, env
<1>2. /\ TreeBounds'
      /\ \A r \in Root : \A p \in listed'[r].files \cup listed'[r].dirs :
           Above[p] \subseteq listed'[r].dirs
      /\ \A r \in Root : /\ listed[r].files \subseteq listed'[r].files
                         /\ listed[r].dirs \subseteq listed'[r].dirs
  BY <1>1, TreeGrows
\* What happens to the tasks.
<1> DEFINE subdirs == listed'[w].dirs \cap Inside[d]
<1>3. /\ \A t \in Listing : t # z =>
           \/ lister'[t] = lister[t]
           \/ lister'[t] = Reading /\ t[1] = w /\ t[2] \in subdirs
      /\ \/ /\ lister'[z].pc = "reading"
            /\ lister'[z].marker \in Markers(Page(store[w], d, k))
            /\ \A t \in Listing : t # z => lister'[t] = lister[t]
         \/ /\ lister'[z].pc = "done" /\ ~IsTruncated(store[w], d, k)
            /\ \A t \in Listing : t[1] = w /\ t[2] \in subdirs => lister'[t].pc # "idle"
  <2>1. CASE ReadPage(z)
    <3>1. PICK m \in Markers(Page(store[w], d, k)) : lister' = [lister EXCEPT ![z].marker = m]
      BY <2>1 DEF ReadPage
    <3>2. lister \in [Listing -> Cell]
      BY DEF TypeInv, TypeOK, Cell
    <3>3. lister'[z].pc = "reading" /\ lister'[z].marker = m
      BY <1>1, <3>1, <3>2 DEF Cell
    <3> QED BY <3>1, <3>2, <3>3
  <2>2. CASE FinishListing(z)
    <3>1. listed'[w] = Enter(listed[w], Page(store[w], d, k))
      BY <1>1
    <3>2. lister' = [t \in Listing |->
                       IF t = z THEN [lister[z] EXCEPT !.pc = "done"]
                       ELSE IF t[1] = w /\ t[2] \in subdirs THEN Reading ELSE lister[t]]
      BY <2>2, <3>1 DEF FinishListing, EndListing
    <3>3. ~IsTruncated(store[w], d, k)
      BY <2>2 DEF FinishListing
    <3>4. lister[z] \in Cell
      BY DEF TypeInv, TypeOK, Cell
    <3>5. lister'[z].pc = "done"
      BY <3>2, <3>4 DEF Cell
    <3> HIDE DEF subdirs
    <3> QED BY <3>2, <3>3, <3>5 DEF Reading
  <2> QED BY <2>1, <2>2
<1>4. subdirs \subseteq Path
  BY <1>1 DEF Inside
<1> HIDE DEF subdirs
<1>5. \A t \in Listing : lister[t].pc # "idle" => lister'[t].pc # "idle"
  BY <1>3 DEF Reading
<1>6. ASSUME NEW t \in Listing, NEW q \in Inside[t[2]], NEW kind \in {"file", "dir"}, t # z
      PROVE  /\ Past(t, <<q, kind>>)' => Past(t, <<q, kind>>)
             /\ lister'[t].pc = "done" => lister[t].pc = "done"
  <2>1. q \in Path
    BY ListingPair DEF Inside
  <2>2. Rank(<<q, kind>>) \in Nat /\ Rank(<<q, kind>>) > 0
    BY <2>1, RankType
  <2>3. CASE lister'[t] = lister[t]
    BY <2>3 DEF Past
  <2>4. CASE lister'[t] = Reading
    BY <2>2, <2>4 DEF Past, Reading
  <2> QED BY <1>3, <1>6, <2>3, <2>4
<1>7. ASSUME NEW q \in Inside[d], NEW kind \in {"file", "dir"}, Past(z, <<q, kind>>)'
      PROVE  \/ Past(z, <<q, kind>>)
             \/ /\ Rank(<<q, kind>>) > k
                /\ \/ ~IsTruncated(store[w], d, k)
                   \/ \E m \in Markers(Page(store[w], d, k)) : Rank(<<q, kind>>) <= m
  <2>1. Rank(<<q, kind>>) \in Nat
    BY <1>1, RankType DEF Inside
  <2>2. CASE Rank(<<q, kind>>) <= k
    BY <1>1, <2>2 DEF Past
  <2>3. CASE Rank(<<q, kind>>) > k
    BY <1>3, <1>7, <2>3 DEF Past
  <2> QED BY <1>1, <2>1, <2>2, <2>3
<1>8. Rooted'
  <2>1. ASSUME NEW t \in Listing, lister'[t].pc # "idle", t[2] # <<>>
        PROVE  t[2] \in listed'[t[1]].dirs
    <3>1. CASE lister[t].pc # "idle"
      <4>1. t[2] \in listed[t[1]].dirs
        BY <2>1, <3>1 DEF TreeInv, Rooted
      <4> QED BY <1>2, <4>1, ListingPair
    <3>2. CASE lister[t].pc = "idle"
      <4>1. t[1] = w /\ t[2] \in subdirs
        BY <1>1, <1>3, <2>1, <3>2
      <4> QED BY <4>1 DEF subdirs
    <3> QED BY <3>1, <3>2
  <2> QED BY <1>2, <2>1 DEF Rooted
<1>9. TopFirst'
  <2>1. ASSUME NEW t \in Listing, t[2] # <<>>, lister'[t].pc # "idle"
        PROVE  lister'[Top(t[1])].pc \in {"done", "cut", "failed"}
    <3>1. Top(t[1]) \in Listing /\ Top(t[1])[2] = <<>> /\ Top(t[1])[1] = t[1]
      BY ListingPair
    <3>2. CASE Top(t[1]) = z
      <4>1. lister[t].pc = "idle"
        BY <1>1, <2>1, <3>2 DEF TreeInv, TopFirst
      <4>2. t # z /\ lister'[t] # lister[t]
        BY <2>1, <3>1, <3>2, <4>1
      <4>3. t[2] \in subdirs /\ t[1] = w
        BY <1>3, <4>2
      <4>4. lister'[z].pc = "done"
        BY <1>3, <4>2
      <4> QED BY <3>2, <4>4
    <3>3. CASE Top(t[1]) # z
      <4>1. lister'[Top(t[1])] = lister[Top(t[1])]
        BY <1>3, <1>4, <3>1, <3>3, RootIsNoPath
      <4>2. CASE lister[t].pc # "idle"
        BY <2>1, <4>1, <4>2 DEF TreeInv, TopFirst
      <4>3. CASE lister[t].pc = "idle"
        <5>1. t # z /\ t[1] = w
          BY <1>1, <1>3, <2>1, <4>3
        <5>2. z[2] # <<>>
          BY <3>3, <5>1, ListingPair
        <5> QED BY <1>1, <4>1, <5>1, <5>2 DEF TreeInv, TopFirst
      <4> QED BY <4>2, <4>3
    <3> QED BY <3>2, <3>3
  <2> QED BY <2>1 DEF TopFirst
<1>10. FilesRead'
  <2>1. ASSUME NEW t \in Listing, NEW p \in always[t[1]] \cap Inside[t[2]], Past(t, <<p, "file">>)'
        PROVE  p \in listed'[t[1]].files
    <3>1. CASE Past(t, <<p, "file">>)
      <4>1. p \in listed[t[1]].files
        BY <2>1, <3>1 DEF TreeInv, FilesRead
      <4> QED BY <1>2, <4>1, ListingPair
    <3>2. CASE ~Past(t, <<p, "file">>)
      <4>1. t = z
        BY <1>6, <2>1, <3>2
      <4>2. /\ Rank(<<p, "file">>) > k
            /\ \/ ~IsTruncated(store[w], d, k)
               \/ \E m \in Markers(Page(store[w], d, k)) : Rank(<<p, "file">>) <= m
        BY <1>7, <2>1, <3>2, <4>1
      <4> QED BY <1>1, <2>1, <4>1, <4>2, PastEntered
    <3> QED BY <3>1, <3>2
  <2> QED BY <1>1, <2>1 DEF FilesRead
<1>11. DirsRead'
  <2>1. ASSUME NEW t \in Listing, NEW q \in Inside[t[2]], always[t[1]] \cap Below[q] # {}
        PROVE  /\ Past(t, <<q, "dir">>)' => q \in listed'[t[1]].dirs
               /\ lister'[t].pc = "done" => lister'[<<t[1], q>>].pc # "idle"
    <3>1. ASSUME Past(t, <<q, "dir">>)' PROVE q \in listed'[t[1]].dirs
      <4>1. CASE Past(t, <<q, "dir">>)
        <5>1. q \in listed[t[1]].dirs
          BY <2>1, <4>1 DEF TreeInv, DirsRead
        <5> QED BY <1>2, <5>1, ListingPair
      <4>2. CASE ~Past(t, <<q, "dir">>)
        <5>1. t = z
          BY <1>6, <2>1, <3>1, <4>2
        <5>2. /\ Rank(<<q, "dir">>) > k
              /\ \/ ~IsTruncated(store[w], d, k)
                 \/ \E m \in Markers(Page(store[w], d, k)) : Rank(<<q, "dir">>) <= m
          BY <1>7, <2>1, <3>1, <4>2, <5>1
        <5> QED BY <1>1, <2>1, <5>1, <5>2, PastEntered
      <4> QED BY <4>1, <4>2
    <3>2. ASSUME lister'[t].pc = "done" PROVE lister'[<<t[1], q>>].pc # "idle"
      <4>1. <<t[1], q>> \in Listing /\ <<t[1], q>>[1] = t[1] /\ <<t[1], q>>[2] = q
        BY ListingPair DEF Inside
      <4>2. CASE t # z
        <5>1. lister[t].pc = "done"
          BY <1>6, <2>1, <3>2, <4>2
        <5>2. lister[<<t[1], q>>].pc # "idle"
          BY <2>1, <5>1 DEF TreeInv, DirsRead
        <5> QED BY <1>5, <4>1, <5>2
      <4>3. CASE t = z
        <5>1. q \in subdirs
          <6>1. Past(t, <<q, "dir">>)'
            BY <3>2 DEF Past
          <6> QED BY <2>1, <3>1, <4>3, <6>1 DEF subdirs
        <5> QED BY <1>3, <3>2, <4>1, <4>3, <5>1
      <4> QED BY <4>2, <4>3
    <3> QED BY <3>1, <3>2
  <2> QED BY <1>1, <2>1 DEF DirsRead
<1> QED BY <1>2, <1>8, <1>9, <1>10, <1>11 DEF TreeInv

\* A task ends early: what is in the tree stays, and it has got past nothing.
LEMMA TreeCut ==
  ASSUME TypeInv, TreeInv, NEW z \in Listing, ListingCut(z)
  PROVE  TreeInv'
<1> DEFINE w == z[1]
           subdirs == listed[w].dirs \cap Inside[z[2]]
<1>1. /\ w \in Root /\ lister[z].pc = "reading" /\ lister[z] \in Cell
      /\ UNCHANGED <<always, ever>>
      /\ lister' = [t \in Listing |->
                      IF t = z THEN [lister[z] EXCEPT !.pc = "cut"]
                      ELSE IF t[1] = w /\ t[2] \in subdirs THEN Reading ELSE lister[t]]
  BY ListingPair DEF ListingCut, EndListing, Runs, TypeInv, TypeOK, Cell
<1>2. listed' = listed
  BY <1>1 DEF ListingCut, EndListing, TypeInv, TypeOK
<1>3. /\ subdirs \subseteq listed[w].dirs /\ subdirs \subseteq Path
  BY ListingPair DEF Inside
<1> HIDE DEF subdirs
<1>4. /\ lister'[z].pc = "cut"
      /\ \A t \in Listing : t # z =>
           \/ lister'[t] = lister[t]
           \/ lister'[t] = Reading /\ t[1] = w /\ t[2] \in subdirs
  BY <1>1 DEF Cell
<1>5. \A t \in Listing : lister[t].pc # "idle" => lister'[t].pc # "idle"
  BY <1>4 DEF Reading
<1>6. ASSUME NEW t \in Listing, NEW q \in Inside[t[2]], NEW kind \in {"file", "dir"}
      PROVE  /\ Past(t, <<q, kind>>)' => Past(t, <<q, kind>>)
             /\ lister'[t].pc = "done" => lister[t].pc = "done"
             /\ <<t[1], q>> \in Listing
  <2>1. q \in Path /\ <<t[1], q>> \in Listing
    BY ListingPair DEF Inside
  <2>2. Rank(<<q, kind>>) \in Nat /\ Rank(<<q, kind>>) > 0
    BY <2>1, RankType
  <2>3. CASE t = z
    BY <1>4, <2>1, <2>3 DEF Past
  <2>4. CASE lister'[t] = lister[t]
    BY <2>1, <2>4 DEF Past
  <2>5. CASE lister'[t] = Reading
    BY <2>1, <2>2, <2>5 DEF Past, Reading
  <2> QED BY <1>4, <2>3, <2>4, <2>5
<1>7. TreeBounds'
  BY <1>1, <1>2 DEF TreeInv, TreeBounds
<1>8. Rooted'
  <2>1. ASSUME NEW t \in Listing, lister'[t].pc # "idle", t[2] # <<>>
        PROVE  t[2] \in listed[t[1]].dirs
    <3>1. CASE lister[t].pc # "idle"
      BY <2>1, <3>1 DEF TreeInv, Rooted
    <3>2. CASE lister[t].pc = "idle"
      <4>1. t # z /\ lister'[t] # lister[t]
        BY <1>1, <2>1, <3>2
      <4> QED BY <1>3, <1>4, <4>1
    <3> QED BY <3>1, <3>2
  <2> QED BY <1>2, <2>1 DEF TreeInv, Rooted
<1>9. TopFirst'
  <2>1. ASSUME NEW t \in Listing, t[2] # <<>>, lister'[t].pc # "idle"
        PROVE  lister'[Top(t[1])].pc \in {"done", "cut", "failed"}
    <3>1. Top(t[1]) \in Listing /\ Top(t[1])[2] = <<>> /\ Top(t[1])[1] = t[1]
      BY ListingPair
    <3>2. CASE Top(t[1]) = z
      BY <1>4, <3>2
    <3>3. CASE Top(t[1]) # z
      <4>1. lister'[Top(t[1])] = lister[Top(t[1])]
        BY <1>3, <1>4, <3>1, <3>3, RootIsNoPath
      <4>2. CASE lister[t].pc # "idle"
        BY <2>1, <4>1, <4>2 DEF TreeInv, TopFirst
      <4>3. CASE lister[t].pc = "idle"
        <5>1. t # z /\ t[1] = w
          BY <1>1, <1>4, <2>1, <4>3
        <5>2. z[2] # <<>>
          BY <3>3, <5>1, ListingPair
        <5> QED BY <1>1, <4>1, <5>1, <5>2 DEF TreeInv, TopFirst
      <4> QED BY <4>2, <4>3
    <3> QED BY <3>2, <3>3
  <2> QED BY <2>1 DEF TopFirst
<1>10. FilesRead'
  <2>1. ASSUME NEW t \in Listing, NEW p \in always[t[1]] \cap Inside[t[2]], Past(t, <<p, "file">>)'
        PROVE  p \in listed[t[1]].files
    BY <1>6, <2>1 DEF TreeInv, FilesRead
  <2> QED BY <1>1, <1>2, <2>1 DEF FilesRead
<1>11. DirsRead'
  <2>1. ASSUME NEW t \in Listing, NEW q \in Inside[t[2]], always[t[1]] \cap Below[q] # {}
        PROVE  /\ Past(t, <<q, "dir">>)' => q \in listed[t[1]].dirs
               /\ lister'[t].pc = "done" => lister'[<<t[1], q>>].pc # "idle"
    <3>1. /\ Past(t, <<q, "dir">>) => q \in listed[t[1]].dirs
          /\ lister[t].pc = "done" => lister[<<t[1], q>>].pc # "idle"
      BY <2>1 DEF TreeInv, DirsRead
    <3> QED BY <1>5, <1>6, <3>1
  <2> QED BY <1>1, <1>2, <2>1 DEF DirsRead
<1> QED BY <1>7, <1>8, <1>9, <1>10, <1>11 DEF TreeInv

LEMMA TreeFails ==
  ASSUME TypeInv, TreeInv, NEW z \in Listing, ListingFails(z)
  PROVE  TreeInv'
<1>1. /\ lister \in [Listing -> Cell] /\ listed \in [Root -> Tree]
      /\ lister[z].pc = "reading" /\ UNCHANGED <<always, ever>>
  BY DEF TypeInv, TypeOK, Cell, ListingFails, Runs
<1>2. CASE /\ lister' = [lister EXCEPT ![z].attempt = @ + 1, ![z].marker = 0]
           /\ listed' = IF z[2] = <<>> THEN [listed EXCEPT ![z[1]] = Empty] ELSE listed
  <2>1. /\ \A t \in Listing : t # z => lister'[t] = lister[t]
        /\ lister'[z].pc = "reading" /\ lister'[z].marker = 0
    BY <1>1, <1>2 DEF Cell
  <2>2. CASE z[2] = <<>>
    BY <1>1, <1>2, <2>1, <2>2, TreeRestarts
  <2>3. CASE z[2] # <<>>
    BY <1>1, <1>2, <2>1, <2>3, TaskMoves
  <2> QED BY <2>2, <2>3
<1>3. CASE lister' = [lister EXCEPT ![z].pc = "failed"] /\ UNCHANGED listed
  <2>1. /\ \A t \in Listing : t # z => lister'[t] = lister[t]
        /\ lister'[z].pc = "failed"
    BY <1>1, <1>3 DEF Cell
  <2> QED BY <1>1, <1>3, <2>1, TaskMoves
<1> QED BY <1>2, <1>3 DEF ListingFails

LEMMA TreeNextRoot ==
  ASSUME TypeInv, TreeInv, NextRoot
  PROVE  TreeInv'
<1>1. /\ lister \in [Listing -> Cell]
      /\ UNCHANGED <<listed, have, always, ever>>
      /\ cmd.roots \subseteq Root
  BY DEF TypeInv, TypeOK, Cell, NextRoot, env, Worlds
<1>2. CASE UNCHANGED lister
  BY <1>1, <1>2, TreeStays DEF tree
<1>3. CASE \E r \in {r \in cmd.roots : lister[Top(r)].pc = "idle"} :
             lister' = [lister EXCEPT ![Top(r)] = Reading]
  <2>1. PICK r \in cmd.roots : /\ lister[Top(r)].pc = "idle"
                               /\ lister' = [lister EXCEPT ![Top(r)] = Reading]
    BY <1>3
  <2>2. Top(r) \in Listing /\ Top(r)[2] = <<>>
    BY <1>1 DEF Top, Listing, Dir
  <2>3. /\ \A t \in Listing : t # Top(r) => lister'[t] = lister[t]
        /\ lister'[Top(r)] = Reading
    BY <1>1, <2>1, <2>2
  <2>4. lister'[Top(r)].pc = "reading" /\ lister'[Top(r)].marker = 0
    BY <2>3 DEF Reading
  <2> QED BY <1>1, <2>1, <2>2, <2>3, <2>4, TaskMoves
<1> QED BY <1>2, <1>3 DEF NextRoot

\* All other steps leave the trees alone.
LEMMA OtherSteps ==
  ASSUME [Next]_vars, ~NextRoot, ~Relist, ~(Start /\ BeginListing),
         ~ \E t \in Listing : ReadPage(t) \/ FinishListing(t) \/ ListingCut(t) \/ ListingFails(t)
  PROVE  UNCHANGED tree
BY DEF Next, Command, Start, MainFails, WalkEnds, PlanUpload, PlanDownload, NoDownload,
       MkdirFails, PlanRm, Move, MoveLost, Skip, MoveFails, RunEnds, OthersChange, Over, vars, tree

LEMMA OthersTakeAndAdd ==
  ASSUME TypeInv, [Next]_vars, NEW r \in Root
  PROVE  always'[r] \subseteq always[r] /\ ever[r] \subseteq ever'[r]
<1>1. CASE OthersChange
  <2>1. PICK s \in Root, q \in Path :
          /\ always' = [always EXCEPT ![s] = @ \ {q}]
          /\ ever' = [ever EXCEPT ![s] = @ \cup {q}]
    BY <1>1 DEF OthersChange, TypeInv, TypeOK, Worlds
  <2>2. always \in [Root -> SUBSET Path] /\ ever \in [Root -> SUBSET Path]
    BY DEF TypeInv, TypeOK
  <2> QED BY <2>1, <2>2
<1>2. CASE UNCHANGED <<always, ever>>
  BY <1>2
<1>3. OthersChange \/ UNCHANGED <<always, ever>>
  BY DEF Next, Command, Start, MainFails, NextRoot, ReadPage, FinishListing, EndListing,
         ListingCut, ListingFails, Relist, WalkEnds, PlanUpload, PlanDownload, NoDownload, MkdirFails, PlanRm,
         Move, MoveLost, Skip, MoveFails, RunEnds, Over, vars, env
<1> QED BY <1>1, <1>2, <1>3

LEMMA TreeStep == ASSUME TypeInv, ListInv, [Next]_vars PROVE TreeInv'
<1>0. TreeInv /\ StoreBounds
  BY DEF ListInv, TreeInv
<1>1. CASE \E t \in Listing : ReadPage(t) \/ FinishListing(t) \/ ListingCut(t) \/ ListingFails(t)
  BY <1>0, <1>1, TreeReads, TreeCut, TreeFails
<1>2. CASE Relist \/ (Start /\ BeginListing)
  <2>1. BeginListing /\ UNCHANGED <<always, ever>>
    BY <1>2 DEF Relist, Start, env
  <2> QED BY <2>1, TreeBegins
<1>3. CASE NextRoot
  BY <1>0, <1>3, TreeNextRoot
<1>4. CASE UNCHANGED tree
  BY <1>0, <1>4, OthersTakeAndAdd, TreeStays
<1> QED BY <1>1, <1>2, <1>3, <1>4, OtherSteps

LEMMA TopsStep == ASSUME TypeInv, TopsRun, [Next]_vars PROVE TopsRun'
<1>0. /\ UNCHANGED cmd /\ lister \in [Listing -> Cell] /\ have \subseteq cmd.roots
      /\ \A r \in cmd.roots : r \in Root /\ Top(r) \in Listing
                              /\ Top(r)[1] = r /\ Top(r)[2] = <<>>
  BY SameCommand DEF TypeInv, TypeOK, Cell, Worlds, Top, Listing, Dir
<1>1. CASE BeginListing /\ step' = "listing"
  BY <1>0, <1>1 DEF BeginListing, TopsRun, Reading
<1>2. CASE NextRoot
  <2>1. CASE /\ \A r \in cmd.roots : lister[Top(r)].pc # "idle"
             /\ step' = "listing" /\ UNCHANGED <<lister, have>>
    BY <1>0, <2>1 DEF TopsRun
  <2>2. CASE /\ step' = "main" /\ UNCHANGED have
             /\ \E s \in cmd.roots : lister' = [lister EXCEPT ![Top(s)] = Reading]
    BY <1>0, <2>2 DEF TopsRun, Reading
  <2> QED BY <1>2, <2>1, <2>2 DEF NextRoot
<1>3. ASSUME NEW z \in Listing,
             ReadPage(z) \/ FinishListing(z) \/ ListingCut(z) \/ ListingFails(z)
      PROVE  TopsRun'
  <2>1. /\ UNCHANGED step /\ step # "moving" /\ lister[z].pc = "reading"
        /\ have \subseteq have'
    BY <1>3 DEF ReadPage, FinishListing, EndListing, ListingCut, ListingFails, Runs
  <2>2. /\ \A t \in Listing : lister[t].pc # "idle" => lister'[t].pc # "idle"
        /\ \A t \in Listing : lister'[t].pc = "done" =>
             lister[t].pc = "done" \/ (t = z /\ FinishListing(z))
    <3>1. CASE ReadPage(z)
      <4>1. PICK m : lister' = [lister EXCEPT ![z].marker = m]
        BY <3>1 DEF ReadPage
      <4> QED BY <1>0, <4>1 DEF Cell
    <3>2. CASE FinishListing(z)
      <4>1. PICK S : lister' = [t \in Listing |->
                       IF t = z THEN [lister[z] EXCEPT !.pc = "done"]
                       ELSE IF t[1] = z[1] /\ t[2] \in S THEN Reading ELSE lister[t]]
        BY <3>2 DEF FinishListing, EndListing
      <4> QED BY <1>0, <3>2, <4>1 DEF Cell, Reading
    <3>4. CASE ListingCut(z)
      <4>1. PICK S : lister' = [t \in Listing |->
                       IF t = z THEN [lister[z] EXCEPT !.pc = "cut"]
                       ELSE IF t[1] = z[1] /\ t[2] \in S THEN Reading ELSE lister[t]]
        BY <3>4 DEF ListingCut, EndListing
      <4> QED BY <1>0, <3>4, <4>1 DEF Cell, Reading
    <3>3. CASE ListingFails(z)
      <4>1. \/ lister' = [lister EXCEPT ![z].attempt = @ + 1, ![z].marker = 0]
            \/ lister' = [lister EXCEPT ![z].pc = "failed"]
        BY <3>3 DEF ListingFails
      <4>2. /\ \A t \in Listing : t # z => lister'[t] = lister[t]
            /\ lister'[z].pc \in {"reading", "failed"}
        BY <1>0, <2>1, <4>1 DEF Cell
      <4> QED BY <2>1, <4>2
    <3> QED BY <1>3, <3>1, <3>2, <3>3, <3>4
  <2>3. ASSUME NEW r \in cmd.roots, lister'[Top(r)].pc = "done" PROVE r \in have'
    <3>1. CASE lister[Top(r)].pc = "done"
      BY <2>1, <3>1 DEF TopsRun
    <3>2. CASE Top(r) = z /\ FinishListing(z)
      BY <1>0, <3>2 DEF FinishListing, EndListing
    <3> QED BY <1>0, <2>2, <2>3, <3>1, <3>2
  <2> QED BY <1>0, <2>1, <2>2, <2>3 DEF TopsRun
<1>4. CASE /\ UNCHANGED <<lister, have>>
           /\ \/ step' = step
              \/ step' \in {"main", "over"}
              \/ Settled
  <2>1. CASE Settled
    BY <1>0, <1>4, <2>1 DEF TopsRun, Settled
  <2> QED BY <1>0, <1>4, <2>1 DEF TopsRun
<1>5. ASSUME ~NextRoot,
             ~ \E z \in Listing :
                 ReadPage(z) \/ FinishListing(z) \/ ListingCut(z) \/ ListingFails(z)
      PROVE  \/ BeginListing /\ step' = "listing"
             \/ /\ UNCHANGED <<lister, have>>
                /\ \/ step' = step
                   \/ step' \in {"main", "over"}
                   \/ Settled
  <2>1. CASE Start \/ Relist
    BY <2>1 DEF Start, Relist, BeginListing, End, tree
  <2>2. CASE MainFails \/ WalkEnds \/ NoDownload \/ MkdirFails \/ RunEnds
    BY <2>2 DEF MainFails, WalkEnds, NoDownload, MkdirFails, RunEnds, End, tree
  <2>3. CASE PlanUpload \/ PlanDownload \/ PlanRm
    BY <2>3 DEF PlanUpload, PlanDownload, PlanRm, Listed, tree
  <2>4. CASE \E x \in queue : Move(x) \/ MoveLost(x) \/ Skip(x) \/ MoveFails(x)
    BY <2>4 DEF Move, MoveLost, Skip, MoveFails, tree
  <2>5. CASE OthersChange \/ UNCHANGED vars
    BY <2>5 DEF OthersChange, vars, tree
  <2> QED BY <1>5, <2>1, <2>2, <2>3, <2>4, <2>5 DEF Next, Command, Over
<1> QED BY <1>1, <1>2, <1>3, <1>4, <1>5

LEMMA ListStep == TypeInv /\ ListInv /\ [Next]_vars => ListInv'
<1> SUFFICES ASSUME TypeInv, ListInv, [Next]_vars PROVE ListInv'
  OBVIOUS
<1> QED BY StageStep, TreeStep, TopsStep DEF ListInv, TreeInv

-----------------------------------------------------------------------------
LEMMA FrontIsDirectory == ASSUME NEW p \in Path PROVE Front(p) \in Dir /\ p \in Inside[Front(p)]
<1>1. Len(p) \in Nat /\ Len(p) > 0
  BY PathType DEF Dir
<1>2. Len(p) - 1 \in 0..(Len(p) - 1) /\ (Len(p) - 1) + 1 = Len(p)
  BY <1>1
<1> QED BY <1>2, CutInside DEF Front

\* Induction along the path of a key: the tasks of the directories it is in are
\* done, one after the other.
LEMMA DirectoryIsDone ==
  ASSUME TypeInv, ListInv, ~Partial, Settled \/ step = "moving",
         NEW r \in cmd.roots, NEW p \in always[r]
  PROVE  /\ <<r, Front(p)>> \in Listing /\ p \in Inside[Front(p)]
         /\ lister[<<r, Front(p)>>].pc = "done"
<1>1. /\ r \in Root /\ p \in Path /\ Len(p) \in Nat /\ Len(p) > 0
      /\ Top(r) \in Listing
  BY PathType DEF TypeInv, TypeOK, Worlds, Dir, Top, Listing
<1>2. \A t \in Listing : lister[t].pc # "idle" => lister[t].pc = "done"
  <2>1. lister \in [Listing -> Cell]
    BY DEF TypeInv, TypeOK, Cell
  <2>2. \A t \in Listing : lister[t].pc \notin {"reading", "cut", "failed"}
    BY DEF ListInv, TopsRun, Settled, Partial, Cut
  <2> QED BY <2>1, <2>2 DEF Cell
<1> DEFINE S == {d \in Dir : lister[<<r, d>>].pc = "done"}
<1>3. <<>> \in S
  <2>1. lister[Top(r)].pc # "idle"
    BY DEF ListInv, TopsRun, Settled
  <2> QED BY <1>1, <1>2, <2>1 DEF Top, Dir
<1>4. ASSUME NEW n \in 0..(Len(p) - 2), SubSeq(p, 1, n) \in S
      PROVE  SubSeq(p, 1, n + 1) \in S
  <2> DEFINE d == SubSeq(p, 1, n)
             q == SubSeq(p, 1, n + 1)
  <2>1. n \in 0..(Len(p) - 1) /\ n + 1 \in 1..(Len(p) - 1)
    BY <1>1
  <2>2. d \in Dir /\ q \in Inside[d]
    BY <1>1, <2>1, CutInside
  <2>3. q \in Above[p]
    BY <1>1, <2>1, AboveCut
  <2>4. q \in Path /\ q \in Dir /\ <<r, d>> \in Listing /\ <<r, q>> \in Listing
    BY <1>1, <2>2 DEF Inside, Dir, Listing
  <2>5. p \in Below[q]
    BY <1>1, <2>3, <2>4, AboveBelow
  <2>6. lister[<<r, d>>].pc = "done"
    BY <1>4
  <2> HIDE DEF d, q
  <2>7. <<r, d>>[1] = r /\ <<r, d>>[2] = d
    OBVIOUS
  <2>8. always[r] \cap Below[q] # {}
    BY <2>5
  <2>9. lister[<<r, q>>].pc # "idle"
    BY <2>2, <2>4, <2>6, <2>7, <2>8 DEF ListInv, DirsRead
  <2> QED BY <1>2, <2>4, <2>9 DEF q
<1>5. \A n \in 0..(Len(p) - 1) : SubSeq(p, 1, n) \in S
  <2> HIDE DEF S
  <2> QED BY <1>1, <1>3, <1>4, PathInduction
<1>6. Front(p) = SubSeq(p, 1, Len(p) - 1)
  BY DEF Front
<1>7. Front(p) \in Dir /\ p \in Inside[Front(p)]
  BY <1>1, FrontIsDirectory
<1>8. lister[<<r, Front(p)>>].pc = "done"
  <2>1. Len(p) - 1 \in 0..(Len(p) - 1)
    BY <1>1
  <2> QED BY <1>5, <1>6, <2>1
<1> QED BY <1>1, <1>7, <1>8 DEF Listing

LEMMA KeysAreListed ==
  ASSUME TypeInv, ListInv, ~Partial, Settled \/ step = "moving",
         NEW r \in cmd.roots, NEW p \in always[r]
  PROVE  p \in listed[r].files /\ Above[p] \subseteq listed[r].dirs
<1> DEFINE t == <<r, Front(p)>>
<1>1. /\ t \in Listing /\ t[1] = r /\ t[2] = Front(p)
      /\ p \in Inside[Front(p)] /\ lister[t].pc = "done"
  BY DirectoryIsDone
<1> HIDE DEF t
<1>2. Past(t, <<p, "file">>)
  BY <1>1 DEF Past
<1>3. p \in listed[r].files
  BY <1>1, <1>2 DEF ListInv, FilesRead
<1>4. r \in Root
  BY DEF TypeInv, TypeOK, Worlds
<1> QED BY <1>3, <1>4 DEF ListInv, Rooted

LEMMA ListedWhole == TypeInv /\ ListInv => ListingComplete
<1> SUFFICES ASSUME TypeInv, ListInv, Settled \/ step = "moving", ~Partial
             PROVE  /\ have = cmd.roots
                    /\ \A r \in have : /\ always[r] \subseteq listed[r].files
                                       /\ listed[r].files \subseteq ever[r]
  BY DEF ListingComplete
<1>1. cmd.roots \subseteq Root /\ have \subseteq cmd.roots
  BY DEF TypeInv, TypeOK, Worlds
<1>2. cmd.roots \subseteq have
  <2>1. ASSUME NEW r \in cmd.roots PROVE r \in have
    <3>1. Top(r) \in Listing /\ lister[Top(r)] \in Cell
      BY <1>1 DEF Top, Listing, Dir, TypeInv, TypeOK, Cell
    <3>2. lister[Top(r)].pc \notin {"idle", "reading", "cut", "failed"}
      BY <3>1 DEF ListInv, TopsRun, Settled, Partial, Cut
    <3>3. lister[Top(r)].pc = "done"
      BY <3>1, <3>2 DEF Cell
    <3> QED BY <3>3 DEF ListInv, TopsRun
  <2> QED BY <2>1
<1>3. \A r \in cmd.roots : always[r] \subseteq listed[r].files
  BY KeysAreListed
<1>4. \A r \in cmd.roots : listed[r].files \subseteq ever[r]
  BY <1>1 DEF ListInv, TreeBounds
<1> QED BY <1>1, <1>2, <1>3, <1>4

\* The trees a command plans with are complete: for buckets of any depth, pages of
\* any size, markers from either group of nodes, retries that begin again with the
\* first page and others who store and delete keys meanwhile, every key that was
\* there all the time is in the tree unless a directory was given up.
THEOREM TreesAreComplete == Spec => []ListingComplete
<1> QED
  BY InitType, TypeStep, ListInit, ListStep, ListedWhole, PTL DEF Spec
=============================================================================
