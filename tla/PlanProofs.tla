----------------------------- MODULE PlanProofs -----------------------------
(***************************************************************************)
(* Proofs about the plans of Sync and the transfers they lead to: -D and   *)
(* rm delete only what they may, the transfers that run at the same time   *)
(* keep out of each other's way, and a command that ends with success has  *)
(* done its work.                                                          *)
(***************************************************************************)
EXTENDS ListingProofs

-----------------------------------------------------------------------------
\* The whole command: its world is one of those assumed, and the rest holds.
Inv == TypeInv /\ ListInv /\ cmd \in World

LEMMA InvHolds == Spec => []Inv
<1>1. Init => Inv
  BY InitType, ListInit DEF Init, Inv
<1>2. Inv /\ [Next]_vars => Inv'
  BY TypeStep, ListStep, SameCommand DEF Inv
<1> QED BY <1>1, <1>2, PTL DEF Spec

\* After the plan nothing is listed any more, and the queue gets shorter.
LEMMA Phases ==
  ASSUME Inv, [Next]_vars
  PROVE  \/ Early'
         \/ (PlanUpload \/ PlanDownload \/ PlanRm) /\ Settled /\ UNCHANGED <<lister, always, ever>>
         \/ queue' \subseteq queue /\ UNCHANGED <<lister, always, ever>>
<1>1. CASE \/ Start \/ NextRoot \/ Relist
           \/ \E t \in Listing : ReadPage(t) \/ FinishListing(t) \/ ListingCut(t) \/ ListingFails(t)
  <2>1. Early' \/ (queue' \subseteq queue /\ UNCHANGED <<lister, always, ever>>)
    BY <1>1 DEF Start, BeginListing, End, NextRoot, Relist, ReadPage, FinishListing, EndListing,
               ListingCut, ListingFails, Runs, Early, tree, env
  <2> QED BY <2>1
<1>2. CASE PlanUpload \/ PlanDownload \/ PlanRm
  BY <1>2 DEF PlanUpload, PlanDownload, PlanRm, Listed, tree, env
<1>3. CASE MainFails \/ WalkEnds \/ NoDownload \/ MkdirFails \/ RunEnds \/ UNCHANGED vars
  BY <1>3 DEF MainFails, WalkEnds, NoDownload, MkdirFails, RunEnds, vars, tree, env, result
<1>4. CASE \E x \in queue : Move(x) \/ MoveLost(x) \/ Skip(x) \/ MoveFails(x)
  BY <1>4 DEF Move, MoveLost, Skip, MoveFails, tree, env
<1>5. CASE OthersChange
  BY <1>5 DEF OthersChange, Early
<1> QED BY <1>1, <1>2, <1>3, <1>4, <1>5 DEF Next, Command, Over

LEMMA EarlyQueue == ASSUME Inv, [Next]_vars, Early'
                    PROVE  (\A x \in queue' : x[1] = "acl") /\ disk' = cmd.target
BY StageStep, SameCommand DEF Inv, QueueStage

-----------------------------------------------------------------------------
\* rm.
Careful(p) == check_included("remote", p) /\ (cmd.recursive \/ Above[p] = {})

RmInv ==
  cmd.verb = "rm" => /\ \A x \in queue : x[1] = "del" => Careful(x[3])
                     /\ RmIsCareful

LEMMA PlannedRm ==
  ASSUME Inv, PlanRm, NEW x \in queue'
  PROVE  Careful(x[3])
<1>1. queue = {} /\ cmd.verb = "rm"
  BY DEF PlanRm, Listed, Settled
<1>2. PICK r \in have : x \in Tasks("del", r, Included(listed[r], <<>>))
  BY <1>1 DEF PlanRm, End
<1>3. cmd.recursive \/ listed[r].dirs \cap Inside[<<>>] = {}
  BY <1>1, <1>2 DEF PlanRm, End
<1>4. x[3] \in Included(listed[r], <<>>)
  BY <1>2, TaskKind
<1>5. x[3] \in listed[r].files /\ check_included("remote", x[3])
  BY <1>4 DEF Included
<1>6. r \in Root /\ x[3] \in Path
  BY <1>5 DEF Inv, TypeInv, TypeOK, Worlds, Tree
<1>7. Above[x[3]] \subseteq listed[r].dirs
  BY <1>5, <1>6 DEF Inv, ListInv, Rooted
<1>8. cmd.recursive \/ Above[x[3]] = {}
  BY <1>3, <1>6, <1>7, AboveHasTop
<1> QED BY <1>5, <1>8 DEF Careful

LEMMA RmStep == ASSUME Inv, RmInv, [Next]_vars PROVE RmInv'
<1>1. UNCHANGED cmd
  BY SameCommand
<1>2. \A p : Careful(p)' <=> Careful(p)
  BY <1>1 DEF Careful, check_included, Spaced
<1> SUFFICES ASSUME cmd.verb = "rm"
             PROVE  /\ \A x \in queue' : x[1] = "del" => Careful(x[3])
                    /\ \A r \in Root : \A p \in always'[r] \ store'[r] : Careful(p)
  BY <1>1, <1>2 DEF RmInv, RmIsCareful, Careful
<1>3. \A x \in queue : x[1] = "del" => Careful(x[3])
  BY DEF RmInv
<1>4. \A x \in queue' : x[1] = "del" => Careful(x[3])
  <2>1. CASE PlanUpload \/ PlanDownload
    BY <2>1 DEF PlanUpload, PlanDownload, Listed
  <2>2. CASE PlanRm
    BY <2>2, PlannedRm
  <2>3. CASE Early'
    BY <2>3, EarlyQueue
  <2>4. CASE queue' \subseteq queue
    BY <1>3, <2>4
  <2> QED BY <2>1, <2>2, <2>3, <2>4, Phases
<1>5. ASSUME NEW r \in Root, NEW p \in always'[r] \ store'[r] PROVE Careful(p)
  <2>1. /\ p \in always[r]
        /\ p \in store[r] => \E x \in queue : x[1] = "del" /\ x[3] = p
    BY <1>5, StoreStep DEF Inv
  <2>2. CASE p \in store[r]
    BY <1>3, <2>1, <2>2
  <2>3. CASE p \notin store[r]
    BY <2>1, <2>3 DEF RmInv, RmIsCareful, Careful
  <2> QED BY <2>2, <2>3
<1> QED BY <1>4, <1>5

\* rm deletes only what is included, and without -r only what is not in a
\* subdirectory: a tree without subdirectories is one without keys in them.
THEOREM RmKeepsTheRest == Spec => []RmIsCareful
<1>1. Init => RmInv
  BY DEF Init, RmInv, RmIsCareful
<1>2. Inv /\ RmInv /\ [Next]_vars => RmInv'
  BY RmStep
<1>3. RmInv => RmIsCareful
  BY DEF RmInv, RmIsCareful
<1> QED BY <1>1, <1>2, <1>3, InvHolds, PTL DEF Spec

-----------------------------------------------------------------------------
\* Uploads.  What the program sees of its sources still has every directory that
\* something is in.
LEMMA LocalsAreRooted ==
  ASSUME Inv, NEW p \in Files(Locals) \cup Locals.dirs
  PROVE  Above[p] \subseteq Locals.dirs
<1>1. PICK t \in cmd.sources : p \in Files(build_local_dir(t)) \cup build_local_dir(t).dirs
  <2>1. \/ \E t \in cmd.sources : p \in Files(build_local_dir(t))
        \/ \E t \in cmd.sources : p \in build_local_dir(t).dirs
    BY DEF Locals, Merge, Files
  <2> QED BY <2>1
<1>2. t \in Tree /\ IsProper(t)
  BY SyncAssumption DEF Inv, TypeInv, TypeOK, Worlds
<1>3. /\ p \in Path /\ ~Spaced(p) /\ p \in Files(t) \cup t.dirs
  BY <1>1, <1>2 DEF build_local_dir, Without, Files, Tree
<1>4. Above[p] \subseteq t.dirs
  BY <1>2, <1>3 DEF IsProper
<1>5. ASSUME NEW a \in Above[p] PROVE a \in build_local_dir(t).dirs
  <2>1. a \in Path
    BY <1>3 DEF Above
  <2>2. Above[a] \subseteq Above[p]
    BY <1>3, AboveIsTransitive
  <2>3. ~Spaced(a)
    BY <1>3, <2>2 DEF Spaced
  <2> QED BY <1>4, <2>3 DEF build_local_dir, Without
<1> QED BY <1>5 DEF Locals, Merge

\* A key that is deleted has no local file of its name: neither one that is unseen,
\* nor one below a directory that is cleared.
LEMMA DeletedIsNotLocal ==
  ASSUME Inv, NEW m \in Tree, NEW p \in Deletions(Locals, m)
  PROVE  p \notin Files(Locals)
<1>1. CASE p \in UNION {Included(m, d) : d \in ClearedDirs(Locals, m)}
  <2>1. PICK d \in ClearedDirs(Locals, m) : p \in Included(m, d)
    BY <1>1
  <2>2. d \in Path /\ d \notin Locals.dirs /\ p \in Below[d] /\ p \in Path
    BY <2>1 DEF ClearedDirs, Included, Tree
  <2>3. d \in Above[p]
    BY <2>2, AboveBelow
  <2> QED BY <2>2, <2>3, LocalsAreRooted
<1>2. CASE p \notin Files(Locals)
  BY <1>2
<1> QED BY <1>1, <1>2 DEF Deletions

LEMMA PlannedUpload ==
  ASSUME Inv, PlanUpload, NEW x \in queue'
  PROVE  /\ \E r \in have : \/ x \in Tasks("put", r, Uploads(Locals, Remotes))
                            \/ x \in Tasks("del", r, Deletions(Locals, Remotes))
         /\ x[1] = "put" => x[3] \in Locals.files
         /\ x[1] = "del" => x[3] \notin Files(Locals)
         /\ x[1] \in {"put", "del"} /\ x = <<x[1], x[2], x[3]>> /\ x[2] \in have
<1>1. queue = {}
  BY DEF PlanUpload, Listed, Settled
<1>2. PICK r \in have : x \in process_upload(r, Locals, Remotes)
  BY <1>1 DEF PlanUpload, Locals
<1>3. Remotes \in Tree
  BY TreesType DEF Inv
<1>4. CASE x \in Tasks("put", r, Uploads(Locals, Remotes))
  <2>1. x[1] = "put" /\ x[2] = r /\ x[3] \in Uploads(Locals, Remotes) /\ x = <<x[1], x[2], x[3]>>
    BY <1>4 DEF Tasks
  <2> QED BY <1>4, <2>1 DEF Uploads
<1>5. CASE x \in Tasks("del", r, Deletions(Locals, Remotes))
  <2>1. x[1] = "del" /\ x[2] = r /\ x[3] \in Deletions(Locals, Remotes) /\ x = <<x[1], x[2], x[3]>>
    BY <1>5 DEF Tasks
  <2> QED BY <1>3, <1>5, <2>1, DeletedIsNotLocal
<1> QED BY <1>2, <1>4, <1>5 DEF process_upload

-----------------------------------------------------------------------------
\* Downloads.  The trees of the roots do not collide with each other; a key that is
\* also a directory is one in the same root.
LEMMA RemotesInv ==
  ASSUME Inv
  PROVE  /\ have \subseteq Root /\ have \subseteq cmd.roots
         /\ \A r \in have : listed[r] \in Tree
         /\ \A p \in Remotes.files : p \in Path /\ \E r \in have : p \in listed[r].files
         /\ \A p \in Remotes.dirs : p \in Path /\ \E r \in have : p \in listed[r].dirs
         /\ \A r \in have : /\ listed[r].files \subseteq Remotes.files
                            /\ listed[r].dirs \subseteq Remotes.dirs
<1>1. have \subseteq Root /\ have \subseteq cmd.roots /\ \A r \in have : listed[r] \in Tree
  BY DEF Inv, TypeInv, TypeOK, Worlds
<1>2. Remotes.files = UNION {t.files : t \in {listed[r] : r \in have}}
      /\ Remotes.dirs = UNION {t.dirs : t \in {listed[r] : r \in have}}
  BY DEF Remotes, Merge
<1>3. /\ \A p \in Remotes.files : \E r \in have : p \in listed[r].files
      /\ \A p \in Remotes.dirs : \E r \in have : p \in listed[r].dirs
      /\ \A r \in have : /\ listed[r].files \subseteq Remotes.files
                         /\ listed[r].dirs \subseteq Remotes.dirs
  BY <1>2
<1> QED BY <1>1, <1>3 DEF Tree

LEMMA RemotesAreRooted ==
  ASSUME Inv, NEW p \in Remotes.files \cup Remotes.dirs
  PROVE  Above[p] \subseteq Remotes.dirs
<1>1. PICK r \in have : p \in listed[r].files \cup listed[r].dirs
  BY RemotesInv
<1>2. Above[p] \subseteq listed[r].dirs
  BY <1>1, RemotesInv DEF Inv, ListInv, Rooted
<1> QED BY <1>2, RemotesInv

LEMMA KeyAndDirectory ==
  ASSUME Inv, ~RemotesCollide, NEW r \in have, NEW p \in listed[r].files, p \in Remotes.dirs
  PROVE  p \in listed[r].dirs /\ Below[p] \cap ever[r] # {}
<1>1. PICK s \in have : p \in listed[s].dirs
  BY RemotesInv
<1>2. r = s
  BY <1>1 DEF RemotesCollide, Collide, Files
<1>3. r \in Root
  BY RemotesInv
<1> QED BY <1>1, <1>2, <1>3 DEF Inv, ListInv, TreeBounds

LEMMA OneRoot ==
  ASSUME ~RemotesCollide, NEW r \in have, NEW s \in have, NEW p,
         p \in listed[r].files, p \in listed[s].files
  PROVE  r = s
BY DEF RemotesCollide, Collide, Files

\* The kinds of downloads, for local trees l.
IsGet(x, l) ==
  /\ x[1] = IF x[3] \in l.dirs THEN "getdir" ELSE "get"
  /\ x[2] \in have /\ x[3] \in listed[x[2]].files /\ x[3] \in Remotes.files

IsUnlink(x) ==
  /\ x[1] = "unlink" /\ x[2] = CHOOSE r \in have : TRUE
  /\ x[3] \notin Remotes.files \cup Remotes.dirs /\ Above[x[3]] \subseteq Remotes.dirs

LEMMA PlannedDownload ==
  ASSUME Inv, PlanDownload, NEW x \in queue'
  PROVE  /\ x \in Transfer /\ x = <<x[1], x[2], x[3]>> /\ x[3] \in Path
         /\ IsGet(x, build_local_dir(disk)) \/ IsUnlink(x)
<1> DEFINE l == build_local_dir(disk)
<1>1. queue = {} /\ have # {}
  BY DEF PlanDownload, Listed, Settled
<1>2. x \in process_downloads(l, Remotes)
  BY <1>1 DEF PlanDownload
<1>3. /\ have \in SUBSET Root /\ listed \in [Root -> Tree] /\ l \in Tree
  BY TreesType DEF Inv, TypeInv, TypeOK
<1>4. x \in Transfer
  BY <1>1, <1>2, <1>3, DownloadTasksType
<1>5. x = <<x[1], x[2], x[3]>> /\ x[3] \in Path
  BY <1>4 DEF Transfer
<1> HIDE DEF l
<1>6. CASE \E r \in have : x \in Tasks("get", r, Downloads(l, Remotes, r) \ l.dirs)
  <2>1. PICK r \in have : x \in Tasks("get", r, Downloads(l, Remotes, r) \ l.dirs)
    BY <1>6
  <2>2. x[1] = "get" /\ x[2] = r /\ x[3] \in Downloads(l, Remotes, r) \ l.dirs
    BY <2>1, TaskKind
  <2> QED BY <1>4, <1>5, <2>2, RemotesInv DEF IsGet, Downloads, l
<1>7. CASE \E r \in have : x \in Tasks("getdir", r, Downloads(l, Remotes, r) \cap l.dirs)
  <2>1. PICK r \in have : x \in Tasks("getdir", r, Downloads(l, Remotes, r) \cap l.dirs)
    BY <1>7
  <2>2. x[1] = "getdir" /\ x[2] = r /\ x[3] \in Downloads(l, Remotes, r) \cap l.dirs
    BY <2>1, TaskKind
  <2> QED BY <1>4, <1>5, <2>2, RemotesInv DEF IsGet, Downloads, l
<1>8. CASE x \in Tasks("unlink", CHOOSE r \in have : TRUE, Unseen(l, Remotes))
  <2>1. /\ x[1] = "unlink" /\ x[2] = (CHOOSE r \in have : TRUE)
        /\ x[3] \in Unseen(l, Remotes)
    BY <1>8, TaskKind
  <2> QED BY <1>4, <1>5, <2>1 DEF IsUnlink, Unseen
<1> QED BY <1>2, <1>6, <1>7, <1>8 DEF process_downloads

-----------------------------------------------------------------------------
\* Transfers that are queued together keep apart.
Apart(x, y) ==
  \/ {x[1], y[1]} \subseteq {"put", "del", "acl"} /\ x[2] # y[2]
  \/ Concerns(x) \cap Concerns(y) = {}
  \/ Replaces(x, y) \/ Replaces(y, x)

LEMMA RemoteApart ==
  ASSUME NEW x, NEW y, x # y, x = <<x[1], x[2], x[3]>>, y = <<y[1], y[2], y[3]>>,
         x[1] \in {"put", "del", "acl"}, y[1] \in {"put", "del", "acl"},
         x[3] = y[3] => x[1] = y[1]
  PROVE  Apart(x, y)
<1>1. Clearing(x) = {} /\ Clearing(y) = {}
  BY DEF Clearing
<1>2. CASE x[3] = y[3]
  <2>1. x[2] # y[2]
    BY <1>2
  <2> QED BY <2>1 DEF Apart
<1>3. CASE x[3] # y[3]
  BY <1>1, <1>3 DEF Apart, Concerns
<1> QED BY <1>2, <1>3

LEMMA ConcernsFrom ==
  ASSUME NEW x, x[3] \in Path
  PROVE  Concerns(x) \subseteq From(x[3])
BY DEF Concerns, Clearing, From

\* A download that concerns what another does further down clears a directory for a
\* key that has keys below it.
LEMMA DownloadReplaces ==
  ASSUME Inv, ~RemotesCollide, NEW l, NEW x, NEW y, x[3] \in Path, y[3] \in Path,
         IsGet(x, l) \/ IsUnlink(x), IsGet(y, l) \/ IsUnlink(y),
         x[3] \in Above[y[3]], Concerns(x) \cap Concerns(y) # {}
  PROVE  Replaces(x, y)
<1>1. x[3] \in Remotes.dirs
  BY RemotesAreRooted DEF IsGet, IsUnlink
<1>2. IsGet(x, l)
  BY <1>1 DEF IsUnlink
<1>3. Below[x[3]] \cap ever[x[2]] # {}
  BY <1>1, <1>2, KeyAndDirectory DEF IsGet
<1>4. y[3] \in Below[x[3]]
  BY AboveBelow
<1>5. x[1] = "getdir"
  <2>1. ASSUME x[1] = "get" PROVE FALSE
    <3>1. Concerns(x) = {x[3]}
      BY <2>1 DEF Concerns, Clearing
    <3>2. x[3] \in From(y[3])
      BY <3>1, ConcernsFrom
    <3>3. x[3] = y[3] \/ y[3] \in Above[x[3]]
      BY <3>2, AboveBelow DEF From
    <3>4. x[3] \in Above[x[3]]
      BY <3>3, AboveIsTransitive
    <3> QED BY <3>4, AboveBelow
  <2> QED BY <1>2, <2>1 DEF IsGet
<1> QED BY <1>3, <1>4, <1>5 DEF Replaces

LEMMA DownloadsApart ==
  ASSUME Inv, ~RemotesCollide, NEW l,
         NEW x, NEW y, x # y, x = <<x[1], x[2], x[3]>>, y = <<y[1], y[2], y[3]>>,
         x[3] \in Path, y[3] \in Path,
         IsGet(x, l) \/ IsUnlink(x), IsGet(y, l) \/ IsUnlink(y)
  PROVE  Concerns(x) \cap Concerns(y) = {} \/ Replaces(x, y) \/ Replaces(y, x)
<1> SUFFICES ASSUME NEW q \in Concerns(x), q \in Concerns(y)
             PROVE  Replaces(x, y) \/ Replaces(y, x)
  OBVIOUS
<1>1. q \in From(x[3]) \cap From(y[3])
  BY ConcernsFrom
<1>2. \/ x[3] = y[3] \/ x[3] \in Above[y[3]] \/ y[3] \in Above[x[3]]
  BY <1>1, FromIsALine
<1>3. x[3] # y[3]
  <2> SUFFICES ASSUME x[3] = y[3] PROVE FALSE
    OBVIOUS
  <2>1. CASE IsGet(x, l) /\ IsGet(y, l)
    <3>1. x[2] = y[2]
      BY <2>1, OneRoot DEF IsGet
    <3> QED BY <2>1, <3>1 DEF IsGet
  <2>2. CASE IsUnlink(x) /\ IsUnlink(y)
    BY <2>2 DEF IsUnlink
  <2>3. ~(IsGet(x, l) /\ IsUnlink(y)) /\ ~(IsUnlink(x) /\ IsGet(y, l))
    BY DEF IsGet, IsUnlink
  <2> QED BY <2>1, <2>2, <2>3
<1>4. CASE x[3] \in Above[y[3]]
  BY <1>4, DownloadReplaces
<1>5. CASE y[3] \in Above[x[3]]
  BY <1>5, DownloadReplaces
<1> QED BY <1>2, <1>3, <1>4, <1>5

LEMMA EverGrows ==
  ASSUME Inv, [Next]_vars
  PROVE  /\ \A r \in Root : ever[r] \subseteq ever'[r] /\ always'[r] \subseteq always[r]
         /\ \A r \in Root : \A p : Clashes(r, p) => Clashes(r, p)'
<1>1. \A r \in Root : ever[r] \subseteq ever'[r] /\ always'[r] \subseteq always[r]
  BY OthersTakeAndAdd DEF Inv
<1> QED BY <1>1 DEF Clashes

LEMMA ApartBefore ==
  ASSUME Inv, [Next]_vars, NEW x \in Transfer, NEW y \in Transfer, Apart(x, y)
  PROVE  Apart(x, y)'
<1>1. x[2] \in Root /\ y[2] \in Root
  BY DEF Transfer
<1>2. /\ Replaces(x, y) => Replaces(x, y)'
      /\ Replaces(y, x) => Replaces(y, x)'
  BY <1>1, EverGrows DEF Replaces
<1>3. Concerns(x)' = Concerns(x) /\ Concerns(y)' = Concerns(y)
  BY DEF Concerns, Clearing
<1> QED BY <1>2, <1>3 DEF Apart

LEMMA ApartStep == ASSUME Inv, TransfersAreApart, [Next]_vars PROVE TransfersAreApart'
<1> SUFFICES ASSUME NEW x \in queue', NEW y \in queue', x # y PROVE Apart(x, y)'
  BY DEF TransfersAreApart, Apart
<1>2. queue' \subseteq Transfer
  BY TypeStep DEF Inv, TypeInv, TypeOK
<1>3. /\ x = <<x[1], x[2], x[3]>> /\ x[3] \in Path
      /\ y = <<y[1], y[2], y[3]>> /\ y[3] \in Path
  BY <1>2 DEF Transfer
<1> SUFFICES Apart(x, y)
  BY <1>2, ApartBefore
<1>4. CASE queue' \subseteq queue
  BY <1>4 DEF TransfersAreApart, Apart
<1>5. CASE Early'
  BY <1>3, <1>5, EarlyQueue, RemoteApart
<1>6. CASE PlanUpload
  <2>1. /\ x[1] = "put" => x[3] \in Locals.files
        /\ x[1] = "del" => x[3] \notin Files(Locals)
        /\ y[1] = "put" => y[3] \in Locals.files
        /\ y[1] = "del" => y[3] \notin Files(Locals)
        /\ x[1] \in {"put", "del"} /\ y[1] \in {"put", "del"}
    BY <1>6, PlannedUpload
  <2>2. x[3] = y[3] => x[1] = y[1]
    BY <2>1 DEF Files
  <2> QED BY <1>3, <2>1, <2>2, RemoteApart
<1>7. CASE PlanDownload
  <2>1. ~RemotesCollide
    BY <1>7 DEF PlanDownload
  <2>2. /\ IsGet(x, build_local_dir(disk)) \/ IsUnlink(x)
        /\ IsGet(y, build_local_dir(disk)) \/ IsUnlink(y)
    BY <1>7, PlannedDownload
  <2> QED BY <1>3, <2>1, <2>2, DownloadsApart DEF Apart
<1>8. CASE PlanRm
  <2>1. ASSUME NEW z \in queue' PROVE z[1] = "del"
    <3>1. queue = {}
      BY <1>8 DEF PlanRm, Listed, Settled
    <3>2. \E r \in have : z \in Tasks("del", r, Included(listed[r], <<>>))
      BY <1>8, <3>1 DEF PlanRm
    <3> QED BY <3>2, TaskKind
  <2> QED BY <1>3, <2>1, RemoteApart
<1> QED BY <1>4, <1>5, <1>6, <1>7, <1>8, Phases

\* No two transfers that the agenda may run at the same time concern the same file,
\* or a file and a directory around it, for trees of any shape from any number of
\* roots; except a download that puts a file in the place of a local directory while
\* there are keys below its own, and what is fetched or removed in that directory.
THEOREM TransfersKeepApart == Spec => []TransfersAreApart
<1>1. Init => TransfersAreApart
  BY DEF Init, TransfersAreApart
<1>2. Inv /\ TransfersAreApart /\ [Next]_vars => TransfersAreApart'
  BY ApartStep
<1> QED BY <1>1, <1>2, InvHolds, PTL DEF Spec

-----------------------------------------------------------------------------
\* -D.
KeepUploads ==
  cmd.verb = "upload" =>
    /\ \A x \in queue : x[1] = "del" => x[3] \notin Files(Locals)
    /\ \A r \in Root : (always[r] \ store[r]) \cap Files(Locals) = {}

KeepDownloads ==
  cmd.verb = "download" /\ ~Partial => \A r \in cmd.roots :
    /\ \A x \in queue : \A p \in Clearing(x) \cap always[r] \cap Files(cmd.target) : Clashes(r, p)
    /\ \A p \in (Files(cmd.target) \ Files(disk)) \cap always[r] : Clashes(r, p)

LEMMA KeepUploadsStep == ASSUME Inv, KeepUploads, [Next]_vars PROVE KeepUploads'
<1>1. UNCHANGED cmd /\ Locals' = Locals
  <2>1. UNCHANGED cmd
    BY SameCommand
  <2> QED BY <2>1 DEF Locals, build_local_dir, Spaced
<1> SUFFICES ASSUME cmd.verb = "upload"
             PROVE  /\ \A x \in queue' : x[1] = "del" => x[3] \notin Files(Locals)
                    /\ \A r \in Root : (always'[r] \ store'[r]) \cap Files(Locals) = {}
  BY <1>1 DEF KeepUploads
<1>2. \A x \in queue' : x[1] = "del" => x[3] \notin Files(Locals)
  <2>1. CASE PlanDownload \/ PlanRm
    BY <2>1 DEF PlanDownload, PlanRm, Listed
  <2>2. CASE PlanUpload
    BY <2>2, PlannedUpload
  <2>3. CASE Early'
    BY <2>3, EarlyQueue
  <2>4. CASE queue' \subseteq queue
    BY <2>4 DEF KeepUploads
  <2> QED BY <2>1, <2>2, <2>3, <2>4, Phases
<1>3. ASSUME NEW r \in Root, NEW p \in always'[r] \ store'[r] PROVE p \notin Files(Locals)
  <2>1. /\ p \in always[r]
        /\ p \in store[r] => \E x \in queue : x[1] = "del" /\ x[3] = p
    BY <1>3, StoreStep DEF Inv
  <2> QED BY <2>1 DEF KeepUploads
<1> QED BY <1>2, <1>3

\* What a download with -D makes room for is not in the way of a key that has nothing
\* to do with another.
LEMMA MakesRoom ==
  ASSUME Inv, ~RemotesCollide, ~Partial, Settled, disk = cmd.target,
         NEW r \in cmd.roots, NEW p \in always[r], ~Clashes(r, p)
  PROVE  /\ p \notin Remotes.dirs
         /\ \A x : IsUnlink(x) /\ x[3] \in Path => p \notin From(x[3])
         /\ \A x : IsGet(x, build_local_dir(disk)) /\ x[1] = "getdir" /\ p \in Files(disk) =>
              p \notin From(x[3])
<1>1. r \in have /\ r \in Root /\ p \in listed[r].files /\ p \in Path
  BY ListedWhole DEF Inv, ListingComplete, TypeInv, TypeOK, Worlds
<1>2. p \in Remotes.files /\ p \notin Remotes.dirs /\ Above[p] \subseteq listed[r].dirs
      /\ listed[r].dirs \subseteq Remotes.dirs
  <2>1. p \notin Remotes.dirs
    BY <1>1, KeyAndDirectory DEF Clashes
  <2>2. Above[p] \subseteq listed[r].dirs
    BY <1>1 DEF Inv, ListInv, Rooted
  <2> QED BY <1>1, <2>1, <2>2, RemotesInv
<1>3. ASSUME NEW a \in Path, p \in From(a) PROVE p = a \/ a \in Above[p]
  BY <1>1, <1>3, AboveBelow DEF From
<1>4. ASSUME NEW x, IsUnlink(x), x[3] \in Path PROVE p \notin From(x[3])
  BY <1>2, <1>3, <1>4 DEF IsUnlink
<1>5. ASSUME NEW x, IsGet(x, build_local_dir(disk)), x[1] = "getdir", p \in Files(disk)
      PROVE  p \notin From(x[3])
  <2>1. x[2] \in have /\ x[3] \in listed[x[2]].files /\ x[3] \in Path
    BY <1>5, RemotesInv DEF IsGet
  <2>2. x[3] \in disk.dirs
    BY <1>5 DEF IsGet, build_local_dir, Without
  <2>3. Files(disk) \cap disk.dirs = {}
    BY SyncAssumption DEF Inv, IsProper
  <2>4. ASSUME x[3] \in Above[p] PROVE FALSE
    <3>1. x[3] \in listed[r].dirs
      BY <1>2, <2>4
    <3>2. x[2] = r
      BY <1>1, <2>1, <3>1 DEF RemotesCollide, Collide, Files
    <3>3. x[3] \in ever[r]
      BY <1>1, <2>1, <3>2 DEF Inv, ListInv, TreeBounds
    <3> QED BY <2>4, <3>3 DEF Clashes
  <2> QED BY <1>3, <1>5, <2>1, <2>2, <2>3, <2>4
<1> QED BY <1>2, <1>4, <1>5

LEMMA LostToDirs ==
  ASSUME disk \in Tree, NEW l, NEW dirs, NEW gone
  PROVE  /\ Files(disk) \ Files(MakeDirs(l, dirs)) \subseteq dirs
         /\ Files(disk) \ Files(Without(MakeDirs(l, dirs), gone)) \subseteq dirs \cup gone
BY DEF Files, MakeDirs, Without, Tree

LEMMA LostToMoves ==
  ASSUME disk \in Tree, NEW x, Effect(x) \/ disk' = Without(disk, Clearing(x))
  PROVE  Files(disk) \ Files(disk') \subseteq Clearing(x)
<1> DEFINE rest == Without(disk, Clearing(x))
<1>1. rest \in Tree /\ Files(disk) \ Files(rest) \subseteq Clearing(x)
  BY DEF Without, Tree, Files
<1>2. \/ disk' = rest
      \/ disk' = [rest EXCEPT !.files = @ \cup {x[3]}, !.odd = @ \ {x[3]}]
  BY DEF Effect
<1> HIDE DEF rest
<1>3. Files(rest) \subseteq Files(disk')
  BY <1>1, <1>2 DEF Files, Tree
<1> QED BY <1>1, <1>3

LEMMA KeepDownloadsStep == ASSUME Inv, KeepDownloads, [Next]_vars PROVE KeepDownloads'
<1>1. UNCHANGED cmd /\ disk \in Tree
  BY SameCommand DEF Inv, TypeInv, TypeOK
<1> SUFFICES ASSUME cmd.verb = "download", ~Partial', NEW r \in cmd.roots
             PROVE  /\ \A x \in queue' :
                         \A p \in Clearing(x) \cap always'[r] \cap Files(cmd.target) : Clashes(r, p)'
                    /\ \A p \in (Files(cmd.target) \ Files(disk')) \cap always'[r] : Clashes(r, p)'
  BY <1>1 DEF KeepDownloads, Clearing
<1>3. r \in Root /\ always'[r] \subseteq always[r] /\ \A p : Clashes(r, p) => Clashes(r, p)'
  BY EverGrows DEF Inv, TypeInv, TypeOK, Worlds
<1>4. CASE Early'
  <2>1. (\A x \in queue' : Clearing(x) = {}) /\ disk' = cmd.target
    BY <1>4, EarlyQueue DEF Clearing
  <2> QED BY <2>1
<1>5. CASE PlanDownload \/ MkdirFails
  <2> DEFINE locals == build_local_dir(disk)
             dirs == Entered(locals, Remotes)
  <2>1. Settled /\ queue = {} /\ Early /\ ~RemotesCollide /\ UNCHANGED <<lister, always>>
    BY <1>5 DEF PlanDownload, MkdirFails, Listed, Settled, Early, tree, env
  <2>2. ~Partial /\ disk = cmd.target
    BY <2>1 DEF Partial, Cut, Inv, ListInv, QueueStage
  <2>3. dirs \subseteq Remotes.dirs
    BY DEF Entered
  <2>4. Files(disk) \ Files(disk') \subseteq dirs
    <3>1. CASE PlanDownload
      BY <1>1, <3>1, LostToDirs DEF PlanDownload
    <3>2. CASE MkdirFails
      <4>1. PICK d \in dirs, made \in SUBSET dirs :
              disk' = Without(MakeDirs(locals, made), Files(locals) \cap {d})
        BY <3>2 DEF MkdirFails
      <4>2. Files(disk) \ Files(disk') \subseteq made \cup (Files(locals) \cap {d})
        BY <1>1, <4>1, LostToDirs
      <4> QED BY <4>2
    <3> QED BY <1>5, <3>1, <3>2
  <2>5. ASSUME NEW x \in queue', NEW p \in always[r], p \in Clearing(x), p \in Files(cmd.target),
               ~Clashes(r, p)
        PROVE  FALSE
    <3>1. x \in queue' /\ PlanDownload
      BY <1>5, <2>1 DEF MkdirFails
    <3>2. x[3] \in Path /\ (IsGet(x, locals) \/ IsUnlink(x))
      BY <3>1, PlannedDownload
    <3>3. x[1] \in {"getdir", "unlink"} /\ p \in From(x[3])
      BY <2>5 DEF Clearing
    <3>4. CASE IsUnlink(x)
      BY <2>1, <2>2, <2>5, <3>2, <3>3, <3>4, MakesRoom
    <3>5. CASE IsGet(x, locals)
      <4>1. x[1] = "getdir"
        BY <3>3, <3>5 DEF IsGet
      <4> QED BY <2>1, <2>2, <2>5, <3>3, <3>5, <4>1, MakesRoom
    <3> QED BY <3>2, <3>4, <3>5
  <2>6. ASSUME NEW p \in always[r], p \in Files(cmd.target), p \notin Files(disk'), ~Clashes(r, p)
        PROVE  FALSE
    <3>1. p \in Remotes.dirs
      BY <2>2, <2>3, <2>4, <2>6
    <3> QED BY <2>1, <2>2, <2>6, <3>1, MakesRoom
  <2> QED BY <1>3, <2>5, <2>6
<1>6. CASE ~Early' /\ ~PlanDownload /\ ~MkdirFails
  <2>1. queue' \subseteq queue /\ UNCHANGED <<lister, always, ever>>
    BY <1>6, Phases DEF PlanUpload, PlanRm, Listed
  <2>2. ~Partial
    BY <2>1 DEF Partial, Cut
  <2>3. /\ \A x \in queue :
             \A p \in Clearing(x) \cap always[r] \cap Files(cmd.target) : Clashes(r, p)
        /\ \A p \in (Files(cmd.target) \ Files(disk)) \cap always[r] : Clashes(r, p)
    BY <2>2 DEF KeepDownloads
  <2>4. UNCHANGED disk \/ \E x \in queue : Files(disk) \ Files(disk') \subseteq Clearing(x)
    BY <1>1, <1>6, DiskStep, LostToMoves
  <2>5. \A p \in (Files(cmd.target) \ Files(disk')) \cap always[r] : Clashes(r, p)
    BY <2>3, <2>4
  <2> QED BY <1>3, <2>1, <2>3, <2>5
<1> QED BY <1>4, <1>5, <1>6

\* What the program does not see of its sources has a space in its name.
LEMMA UnseenSources ==
  ASSUME Inv, NEW p \in Files(Merge(cmd.sources)), ~Spaced(p)
  PROVE  p \in Files(Locals)
<1>1. PICK t \in cmd.sources : p \in Files(t)
  <2>1. \/ \E t \in cmd.sources : p \in t.files
        \/ \E t \in cmd.sources : p \in t.odd
    BY DEF Merge, Files
  <2> QED BY <2>1 DEF Files
<1>2. p \in Files(build_local_dir(t))
  BY <1>1 DEF build_local_dir, Without, Files
<1>3. \/ p \in UNION {s.files : s \in {build_local_dir(u) : u \in cmd.sources}}
      \/ p \in UNION {s.odd : s \in {build_local_dir(u) : u \in cmd.sources}}
  BY <1>2 DEF Files
<1> QED BY <1>3 DEF Locals, Merge, Files

\* -D deletes what is missing and nothing else: an upload never a key that has a local
\* file, even if the listing failed, except that the program does not see a local file
\* with a space in its name; a download never a local file that has had a key all the
\* time, if the bucket was listed to its end, except one whose key is also a directory
\* or is below another key.
THEOREM OnlyMissingGoes == Spec => []DeletesOnlyMissing
<1>1. Init => KeepUploads /\ KeepDownloads
  BY DEF Init, KeepUploads, KeepDownloads, Clearing
<1>2. Inv /\ KeepUploads /\ KeepDownloads /\ [Next]_vars => KeepUploads' /\ KeepDownloads'
  BY KeepUploadsStep, KeepDownloadsStep
<1>3. Inv /\ KeepUploads /\ KeepDownloads => DeletesOnlyMissing
  BY UnseenSources DEF KeepUploads, KeepDownloads, DeletesOnlyMissing
<1> QED BY <1>1, <1>2, <1>3, InvHolds, PTL DEF Spec
-----------------------------------------------------------------------------
\* Commands that end well.  No failure is forgotten: the transfers run without one,
\* and a directory whose listing failed counts as one.
Failed == \E t \in Listing : lister[t].pc = "failed"
Clean == ~failing /\ ~Cut /\ (step = "moving" \/ rc = "ok")

EndInv ==
  /\ step # "over" => rc = "none"
  /\ rc = "ok" => ~failing /\ queue = {}
  /\ Failed => failing
  /\ Early => \A x \in done : x[1] = "acl"
  /\ step = "moving" => Synchronizer

LEMMA NothingAfterTheEnd == ASSUME [Next]_vars, step = "over" PROVE UNCHANGED vars
BY DEF Next, Command, Start, MainFails, NextRoot, ReadPage, FinishListing, EndListing, ListingCut, ListingFails,
       Runs, Relist, WalkEnds, PlanUpload, PlanDownload, NoDownload, MkdirFails, PlanRm,
       Listed, Settled, Move, MoveLost, Skip, MoveFails, RunEnds, OthersChange, Over

LEMMA SamePatterns ==
  ASSUME UNCHANGED cmd
  PROVE  /\ \A side, p : check_included(side, p)' <=> check_included(side, p)
         /\ \A p : Spaced(p)' <=> Spaced(p)
BY DEF check_included, Spaced

LEMMA ResultStep ==
  ASSUME Inv, EndInv, [Next]_vars
  PROVE  /\ step' # "over" => rc' = "none"
         /\ rc' = "ok" => ~failing' /\ queue' = {}
<1>1. CASE step = "over"
  BY <1>1, NothingAfterTheEnd DEF EndInv, vars, env, result
<1>2. CASE step # "over" /\ rc' = rc
  BY <1>2 DEF EndInv
<1>3. CASE step' = "over" /\ rc' \in {"fatal", "crash", "not found"}
  BY <1>3
<1>4. CASE WalkEnds \/ RunEnds
  BY <1>4 DEF WalkEnds, RunEnds, End, Settled
<1>5. \/ rc' = rc
      \/ step' = "over" /\ rc' \in {"fatal", "crash", "not found"}
      \/ WalkEnds \/ RunEnds
  BY DEF Next, Command, Start, MainFails, NextRoot, ReadPage, FinishListing, EndListing, ListingCut, ListingFails,
         Relist, PlanUpload, PlanDownload, NoDownload, MkdirFails, PlanRm, End,
         Move, MoveLost, Skip, MoveFails, OthersChange, Over, vars, env, result
<1> QED BY <1>1, <1>2, <1>3, <1>4, <1>5

LEMMA FailureIsKept == ASSUME [Next]_vars, failing PROVE failing'
BY DEF Next, Command, Start, MainFails, NextRoot, ReadPage, FinishListing, EndListing, ListingCut, ListingFails,
       Relist, WalkEnds, PlanUpload, PlanDownload, NoDownload, MkdirFails, PlanRm,
       Move, MoveLost, Skip, MoveFails, RunEnds, OthersChange, Over, vars, env, result

LEMMA FailedStep == ASSUME Inv, EndInv, [Next]_vars PROVE Failed' => failing'
<1> SUFFICES ASSUME NEW t \in Listing, lister'[t].pc = "failed" PROVE failing'
  BY DEF Failed
<1>1. CASE lister[t].pc = "failed"
  BY <1>1, FailureIsKept DEF EndInv, Failed
<1>2. CASE lister[t].pc # "failed"
  <2>1. CASE BeginListing \/ NextRoot
    <3>1. lister'[t] \in {Reading, Idle, lister[t]}
      BY <2>1 DEF BeginListing, NextRoot, Inv, TypeInv, TypeOK
    <3> QED BY <1>2, <3>1 DEF Reading, Idle
  <2>2. ASSUME NEW z \in Listing, ReadPage(z) \/ FinishListing(z) \/ ListingCut(z) PROVE FALSE
    <3>1. lister \in [Listing -> Cell]
      BY DEF Inv, TypeInv, TypeOK, Cell
    <3>2. CASE ReadPage(z)
      BY <1>2, <3>1, <3>2 DEF ReadPage, Cell
    <3>3. CASE FinishListing(z) \/ ListingCut(z)
      BY <1>2, <3>1, <3>3 DEF FinishListing, ListingCut, EndListing, Cell, Reading
    <3> QED BY <2>2, <3>2, <3>3
  <2>3. CASE \E z \in Listing : ListingFails(z)
    <3>1. PICK z \in Listing : ListingFails(z)
      BY <2>3
    <3>2. lister \in [Listing -> Cell]
      BY DEF Inv, TypeInv, TypeOK, Cell
    <3>3. CASE lister' = [lister EXCEPT ![z].attempt = @ + 1, ![z].marker = 0]
      BY <1>2, <3>2, <3>3 DEF Cell
    <3> QED BY <3>1, <3>3 DEF ListingFails
  <2>4. CASE UNCHANGED tree
    BY <1>2, <2>4 DEF tree
  <2> QED BY <2>1, <2>2, <2>3, <2>4, OtherSteps DEF Relist
<1> QED BY <1>1, <1>2

LEMMA EndStep == ASSUME Inv, EndInv, [Next]_vars PROVE EndInv'
<1>1. ASSUME Early', NEW x \in done' PROVE x[1] = "acl"
  <2>1. CASE x \in done
    <3>1. Early
      BY <1>1 DEF Early, Next, Command, Start, MainFails, NextRoot, ReadPage, FinishListing, EndListing,
                  ListingCut, ListingFails, Runs, Relist, WalkEnds, PlanUpload, PlanDownload, NoDownload,
                  MkdirFails, PlanRm, Listed, Settled, End, Move, MoveLost, Skip, MoveFails, RunEnds,
                  OthersChange, Over, vars, env, result
    <3> QED BY <2>1, <3>1 DEF EndInv
  <2>2. CASE x \notin done
    <3>1. \E y \in queue : Move(y)
      BY <1>1, <2>2 DEF Next, Command, Start, MainFails, NextRoot, ReadPage, FinishListing, EndListing,
                  ListingCut, ListingFails, Relist, WalkEnds, PlanUpload, PlanDownload, NoDownload,
                  MkdirFails, PlanRm, MoveLost, Skip, MoveFails, RunEnds, OthersChange, Over,
                  vars, env, result
    <3>2. PICK y \in queue : Move(y)
      BY <3>1
    <3>3. x = y /\ Early
      BY <1>1, <2>2, <3>2 DEF Move, Early
    <3> QED BY <3>3 DEF Inv, ListInv, QueueStage
  <2> QED BY <2>1, <2>2
<1>2. Early' => \A x \in done' : x[1] = "acl"
  BY <1>1
<1>3. step' = "moving" => Synchronizer'
  <2>1. step' = "moving" => step = "moving" \/ PlanUpload \/ PlanDownload \/ PlanRm
    BY DEF Next, Command, Start, BeginListing, MainFails, NextRoot, ReadPage, FinishListing, EndListing,
           ListingCut, ListingFails, Relist, WalkEnds, NoDownload, MkdirFails, End,
           Move, MoveLost, Skip, MoveFails, RunEnds, OthersChange, Over, vars, env, result
  <2>2. PlanUpload \/ PlanDownload \/ PlanRm => Synchronizer
    BY DEF PlanUpload, PlanDownload, PlanRm, Listed, Synchronizer
  <2> QED BY <2>1, <2>2, SameCommand DEF EndInv, Synchronizer
<1> QED BY <1>2, <1>3, ResultStep, FailedStep DEF EndInv

\* A command that compares gets there by a plan of whole trees, and by transfers that
\* succeed, or seem to.
LEMMA CleanStep ==
  ASSUME Inv, EndInv, [Next]_vars, Synchronizer, Clean'
  PROVE  \/ /\ PlanUpload \/ PlanDownload \/ PlanRm
            /\ step' = "moving" /\ Settled /\ ~Partial
         \/ Clean /\ \E x \in queue : (Move(x) \/ MoveLost(x)) /\ step = "moving"
         \/ Clean /\ UNCHANGED <<store, disk, queue, done, lost, always, ever>>
<1>1. ~failing
  BY FailureIsKept DEF Clean
<1>2. CASE step = "over"
  BY <1>2, NothingAfterTheEnd DEF vars, tree, env, result, Clean, Cut
<1>3. CASE step # "over" /\ (PlanUpload \/ PlanDownload \/ PlanRm)
  <2>1. Settled /\ (step' = "moving" \/ rc' # "ok") /\ rc = "none" /\ UNCHANGED lister
    BY <1>3 DEF PlanUpload, PlanDownload, PlanRm, Listed, End, EndInv, tree
  <2>2. step' = "moving" \/ rc' \in {"crash", "not found", "fatal"}
    BY <1>3 DEF PlanUpload, PlanDownload, PlanRm, End
  <2>3. ~Partial
    BY <1>1, <2>1 DEF Clean, Cut, Partial, EndInv, Failed
  <2> QED BY <1>3, <2>1, <2>2, <2>3 DEF Clean
<1>4. CASE step # "over" /\ \E x \in queue : Move(x) \/ MoveLost(x)
  <2>1. rc' = "none" /\ step' = step /\ UNCHANGED lister
    BY <1>4 DEF Move, MoveLost, EndInv, tree
  <2> QED BY <1>1, <1>4, <2>1 DEF Clean, Cut
<1>5. CASE RunEnds
  BY <1>1, <1>5 DEF RunEnds, Clean, Cut, tree, env, result
<1>6. CASE \E x \in queue : MoveFails(x)
  BY <1>6 DEF MoveFails, Clean
<1>7. CASE WalkEnds
  BY <1>7 DEF WalkEnds
<1>8. CASE MainFails \/ NoDownload \/ MkdirFails
  BY <1>8 DEF MainFails, NoDownload, MkdirFails, End, Clean
<1>9. CASE \/ Start \/ NextRoot \/ Relist \/ OthersChange
           \/ \E t \in Listing : ReadPage(t) \/ FinishListing(t) \/ ListingCut(t) \/ ListingFails(t)
           \/ \E x \in queue : Skip(x)
  <2>1. Early
    BY <1>9 DEF Start, NextRoot, Relist, Settled, OthersChange, ReadPage, FinishListing, EndListing,
                ListingCut, ListingFails, Runs, Skip, Early
  <2>2. step' \in {"main", "listing"} \/ step' = step \/ rc' = "fatal"
    BY <1>9 DEF Start, BeginListing, End, NextRoot, Relist, OthersChange, ReadPage,
                FinishListing, EndListing, ListingCut, ListingFails, Skip
  <2>3. rc' = rc \/ rc' = "fatal"
    BY <1>9 DEF Start, BeginListing, End, NextRoot, Relist, OthersChange, ReadPage,
                FinishListing, EndListing, ListingCut, ListingFails, Skip
  <2>4. rc = "none"
    BY <2>1 DEF Early, EndInv
  <2>5. step' # "moving" \/ rc' = "fatal"
    BY <2>1, <2>2 DEF Early
  <2>6. CASE rc' = "fatal"
    <3>1. step' # "moving"
      BY <2>6, ResultStep
    <3> QED BY <2>6, <3>1 DEF Clean
  <2> QED BY <2>3, <2>4, <2>5, <2>6 DEF Clean
<1>10. CASE UNCHANGED vars
  BY <1>10 DEF vars, tree, env, result, Clean, Cut
<1> QED BY <1>2, <1>3, <1>4, <1>5, <1>6, <1>7, <1>8, <1>9, <1>10 DEF Next, Command, Over

\* What a transfer does to the bucket.
LEMMA MovedKeys ==
  ASSUME Inv, NEW x \in queue, Effect(x), NEW r \in Root
  PROVE  /\ x = <<x[1], x[2], x[3]>>
         /\ x[1] = "put" /\ x[2] = r => store'[r] = store[r] \cup {x[3]}
         /\ x[1] = "del" /\ x[2] = r => store'[r] = store[r] \ {x[3]}
         /\ x[1] \notin {"put", "del"} \/ x[2] # r => store'[r] = store[r]
<1>1. store \in [Root -> SUBSET Path] /\ x \in Transfer
  BY DEF Inv, TypeInv, TypeOK
<1>2. x = <<x[1], x[2], x[3]>> /\ x[2] \in Root
  BY <1>1 DEF Transfer
<1>3. \/ x[1] = "put" /\ store' = [store EXCEPT ![x[2]] = @ \cup {x[3]}]
      \/ x[1] = "del" /\ store' = [store EXCEPT ![x[2]] = @ \ {x[3]}]
      \/ x[1] \notin {"put", "del"} /\ store' = store
  BY DEF Effect
<1> QED BY <1>1, <1>2, <1>3

LEMMA WholeTrees ==
  ASSUME Inv, Settled, ~Partial, NEW r \in cmd.roots
  PROVE  r \in Root /\ have = cmd.roots
         /\ always[r] \subseteq listed[r].files /\ listed[r].files \subseteq ever[r]
BY ListedWhole DEF Inv, ListingComplete, TypeInv, TypeOK, Worlds

-----------------------------------------------------------------------------
\* rm: an included key is gone, or about to go, or its request passed for done.
RmWhole ==
  cmd.verb = "rm" /\ Clean =>
    /\ \A x \in queue : x[1] = "del"
    /\ \A r \in cmd.roots : \A p \in always[r] \cap store[r] :
         check_included("remote", p) => <<"del", r, p>> \in queue \cup lost

LEMMA RmWholeStep == ASSUME Inv, EndInv, RmWhole, [Next]_vars PROVE RmWhole'
<1>1. UNCHANGED cmd
  BY SameCommand
<1> SUFFICES ASSUME cmd.verb = "rm", Clean'
             PROVE  /\ \A x \in queue' : x[1] = "del"
                    /\ \A r \in cmd.roots : \A p \in always'[r] \cap store'[r] :
                         check_included("remote", p) => <<"del", r, p>> \in queue' \cup lost'
  BY <1>1, SamePatterns DEF RmWhole
<1>2. CASE PlanRm /\ step' = "moving" /\ Settled /\ ~Partial
  <2>1. /\ queue' = UNION {Tasks("del", r, Included(listed[r], <<>>)) : r \in have}
        /\ UNCHANGED <<store, always>> /\ step # "moving"
    BY <1>2 DEF PlanRm, End, env, Settled
  <2>2. \A x \in queue' : x[1] = "del"
    BY <2>1, TaskKind
  <2>3. ASSUME NEW r \in cmd.roots, NEW p \in always[r], check_included("remote", p)
        PROVE  <<"del", r, p>> \in queue'
    <3>1. r \in have /\ p \in listed[r].files /\ p \in Path
      BY <1>2, <2>3, WholeTrees DEF Inv, TypeInv, TypeOK
    <3>2. p \in Included(listed[r], <<>>)
      BY <2>3, <3>1, AboveBelow DEF Included
    <3> QED BY <2>1, <3>1, <3>2 DEF Tasks
  <2> QED BY <2>1, <2>2, <2>3
<1>3. CASE Clean /\ \E x \in queue : Move(x)
  <2>1. PICK x \in queue : Move(x)
    BY <1>3
  <2>2. /\ Effect(x) /\ queue' = queue \ {x} /\ UNCHANGED <<always, lost>> /\ x[1] = "del"
        /\ \A y \in queue : y[1] = "del"
    BY <1>3, <2>1 DEF Move, env, RmWhole
  <2>3. ASSUME NEW r \in cmd.roots, NEW p \in always[r] \cap store'[r], check_included("remote", p)
        PROVE  <<"del", r, p>> \in queue' \cup lost'
    <3>1. r \in Root
      BY DEF Inv, TypeInv, TypeOK, Worlds
    <3>2. p \in store[r] /\ x # <<"del", r, p>>
      BY <2>2, <2>3, <3>1, MovedKeys
    <3> QED BY <1>3, <2>2, <2>3, <3>2 DEF RmWhole
  <2> QED BY <2>2, <2>3
<1>4. CASE Clean /\ \E x \in queue : MoveLost(x)
  <2>1. PICK x \in queue : MoveLost(x)
    BY <1>4
  <2>2. queue' = queue \ {x} /\ lost' = lost \cup {x} /\ UNCHANGED <<store, always>>
    BY <2>1 DEF MoveLost
  <2> QED BY <1>4, <2>2 DEF RmWhole
<1>5. CASE Clean /\ UNCHANGED <<store, queue, lost, always>>
  BY <1>5 DEF RmWhole
<1> QED BY <1>2, <1>3, <1>4, <1>5, CleanStep DEF Synchronizer, PlanUpload, PlanDownload, Listed

-----------------------------------------------------------------------------
\* The first of the directories of a path that is not in S.
LEMMA FirstOutside ==
  ASSUME NEW p \in Path, NEW S, ~(Above[p] \subseteq S)
  PROVE  \E a \in Above[p] : a \in Path /\ a \notin S /\ Above[a] \subseteq S
<1> DEFINE T == {Len(a) : a \in Above[p] \ S}
<1>1. \A a \in Above[p] : a \in Path /\ Len(a) \in Nat
  BY AboveCut, PathType DEF Dir
<1>2. T \subseteq Nat /\ T # {}
  BY <1>1
<1>3. PICK n \in T : \A m \in T : ~(<<m, n>> \in OpToRel(<, Nat))
  BY <1>2, NatLessThanWellFounded, WFMin
<1>4. PICK a \in Above[p] \ S : n = Len(a)
  BY <1>3
<1>5. ASSUME NEW b \in Above[a] PROVE b \in S
  <2>1. b \in Above[p]
    BY <1>1, <1>4, AboveIsTransitive
  <2>2. Len(b) < Len(a)
    <3>1. a \in Path /\ Len(a) \in Nat /\ Len(b) \in Nat
      BY <1>1, <1>4, <2>1
    <3>2. Len(b) \in 1..(Len(a) - 1)
      BY <3>1, AboveCut
    <3> QED BY <3>1, <3>2
  <2>3. <<Len(b), Len(a)>> \in OpToRel(<, Nat)
    BY <1>1, <1>4, <2>1, <2>2 DEF OpToRel
  <2> QED BY <1>3, <1>4, <2>1, <2>3
<1> QED BY <1>1, <1>4, <1>5

-----------------------------------------------------------------------------
\* sync to the bucket: an included local file is uploaded, or about to be, or has no
\* room, or passed for uploaded; with -D a key that nothing local has the name of is
\* about to go, unless it is below one that is in the place of a local directory.
UploadWhole ==
  cmd.verb = "upload" /\ Clean => \A r \in cmd.roots :
    /\ \A x \in queue : x[1] \in {"put", "del"}
    /\ \A p \in Locals.files : check_included("local", p) =>
         \/ <<"put", r, p>> \in queue \cup lost
         \/ p \in store[r] /\ <<"put", r, p>> \in done
         \/ ~cmd.delete_missing /\ Clashes(r, p)
    /\ cmd.delete_missing => \A p \in store[r] \cap always[r] :
         \/ <<"put", r, p>> \in queue \cup done \cup lost
         \/ <<"del", r, p>> \in queue \cup lost
         \/ p \in Held \/ ~check_included("remote", p)
         \/ Above[p] \cap Locals.dirs \cap ever[r] # {}

LEMMA PlannedTree ==
  ASSUME Inv, PlanUpload, step' = "moving"
  PROVE  \E r \in have : queue' = process_upload(r, Locals, Remotes)
BY DEF PlanUpload, End, Locals

LEMMA OnlyRoot ==
  ASSUME Inv, cmd.verb \in {"upload", "du"}, NEW r \in cmd.roots
  PROVE  cmd.roots = {r}
<1>1. \E s \in Root : cmd.roots = {s}
  BY SyncAssumption DEF Inv
<1> QED BY <1>1

\* A file that is not uploaded has a directory in its place, or a file in its way.
LEMMA UploadsAllThatFit ==
  ASSUME Inv, Settled, NEW r \in have, have = {r},
         NEW p \in Locals.files, check_included("local", p)
  PROVE  \/ p \in Uploads(Locals, Remotes)
         \/ ~cmd.delete_missing /\ Clashes(r, p)
<1>1. r \in Root /\ TreeBounds
  BY RemotesInv DEF Inv, ListInv
<1>2. ASSUME p \in Remotes.dirs PROVE Below[p] \cap ever[r] # {}
  <2>1. p \in listed[r].dirs
    BY <1>2, RemotesInv
  <2> QED BY <1>1, <2>1 DEF TreeBounds
<1>3. ASSUME NEW a \in Above[p], a \in Remotes.files PROVE a \in ever[r]
  <2>1. a \in listed[r].files
    BY <1>3, RemotesInv
  <2> QED BY <1>1, <2>1 DEF TreeBounds
<1> QED BY <1>2, <1>3 DEF Uploads, Clashes

\* The first directory of a key that is no local one is cleared, with the key.
LEMMA DeletesAllThatGo ==
  ASSUME Inv, Settled, NEW r \in have, have = {r}, cmd.delete_missing,
         NEW p \in listed[r].files, check_included("remote", p), p \notin Held
  PROVE  \/ p \in Uploads(Locals, Remotes) \cup Deletions(Locals, Remotes)
         \/ Above[p] \cap Locals.dirs \cap ever[r] # {}
<1>1. /\ r \in Root /\ p \in Path /\ p \in Remotes.files
      /\ Remotes.files \subseteq ever[r] /\ Above[p] \subseteq Remotes.dirs
  <2>1. r \in Root /\ TreeBounds /\ Remotes.files = listed[r].files
    BY RemotesInv DEF Inv, ListInv
  <2> QED BY <2>1, RemotesInv, RemotesAreRooted DEF TreeBounds
<1> SUFFICES ASSUME Above[p] \cap Locals.dirs \cap Remotes.files = {}
             PROVE  p \in Uploads(Locals, Remotes) \cup Deletions(Locals, Remotes)
  BY <1>1
<1>2. \A a \in Above[p] \cup {p} : p \in From(a)
  BY <1>1, AboveBelow DEF From, Above
<1>3. \A a \in Above[p] \cup {p} :
        a \in Files(Locals) => a \in Locals.files /\ check_included("local", a)
  BY <1>2 DEF Held, Files
<1>5. LooksAt(Locals, Remotes, p)
  BY DEF LooksAt
<1>6. CASE p \in Files(Locals)
  BY <1>3, <1>6 DEF Uploads
<1>7. CASE p \notin Files(Locals) /\ Above[p] \subseteq Locals.dirs
  BY <1>1, <1>5, <1>7 DEF Deletions
<1>8. CASE ~(Above[p] \subseteq Locals.dirs)
  <2>1. PICK a \in Above[p] : a \in Path /\ a \notin Locals.dirs /\ Above[a] \subseteq Locals.dirs
    BY <1>1, <1>8, FirstOutside
  <2>2. Above[a] \subseteq Above[p]
    BY <1>1, AboveIsTransitive
  <2>3. LooksAt(Locals, Remotes, a)
    BY <2>2 DEF LooksAt
  <2>4. a \in ClearedDirs(Locals, Remotes)
    BY <1>1, <1>3, <2>1, <2>3 DEF ClearedDirs
  <2>5. p \in Below[a]
    BY <1>1, <2>1, AboveBelow
  <2>6. p \in Included(Remotes, a)
    BY <1>1, <2>5 DEF Included
  <2> QED BY <2>4, <2>6 DEF Deletions
<1> QED BY <1>6, <1>7, <1>8

LEMMA UploadWholeStep ==
  ASSUME Inv, EndInv, KeepUploads, UploadWhole, [Next]_vars
  PROVE  UploadWhole'
<1>1. UNCHANGED cmd /\ Locals' = Locals /\ Held' = Held
  <2>1. UNCHANGED cmd
    BY SameCommand
  <2>2. Locals' = Locals
    BY <2>1 DEF Locals, build_local_dir, Spaced
  <2> QED BY <2>1, <2>2, SamePatterns DEF Held
<1> SUFFICES ASSUME cmd.verb = "upload", Clean', NEW r \in cmd.roots
             PROVE  /\ \A x \in queue' : x[1] \in {"put", "del"}
                    /\ \A p \in Locals.files : check_included("local", p) =>
                         \/ <<"put", r, p>> \in queue' \cup lost'
                         \/ p \in store'[r] /\ <<"put", r, p>> \in done'
                         \/ ~cmd.delete_missing /\ Clashes(r, p)'
                    /\ cmd.delete_missing => \A p \in store'[r] \cap always'[r] :
                         \/ <<"put", r, p>> \in queue' \cup done' \cup lost'
                         \/ <<"del", r, p>> \in queue' \cup lost'
                         \/ p \in Held \/ ~check_included("remote", p)
                         \/ Above[p] \cap Locals.dirs \cap ever'[r] # {}
  BY <1>1, SamePatterns DEF UploadWhole
<1>2. r \in Root /\ cmd.roots = {r}
  BY OnlyRoot DEF Inv, TypeInv, TypeOK, Worlds
<1>3. CASE PlanUpload /\ step' = "moving" /\ Settled /\ ~Partial
  <2>1. have = {r} /\ always[r] \subseteq listed[r].files
    BY <1>2, <1>3, WholeTrees
  <2>2. queue' = process_upload(r, Locals, Remotes) /\ UNCHANGED <<store, always, ever>>
    BY <1>3, <2>1, PlannedTree DEF PlanUpload, env
  <2>3. /\ \A p \in Uploads(Locals, Remotes) : <<"put", r, p>> \in queue'
        /\ cmd.delete_missing =>
             \A p \in Deletions(Locals, Remotes) : <<"del", r, p>> \in queue'
    BY <2>2 DEF process_upload, Tasks
  <2>4. \A x \in queue' : x[1] \in {"put", "del"}
    BY <1>3, PlannedUpload
  <2>5. ASSUME NEW p \in Locals.files, check_included("local", p)
        PROVE  \/ <<"put", r, p>> \in queue'
               \/ ~cmd.delete_missing /\ Clashes(r, p)'
    BY <1>3, <2>1, <2>2, <2>3, <2>5, UploadsAllThatFit DEF Clashes
  <2>6. ASSUME cmd.delete_missing, NEW p \in always[r], p \notin Held, check_included("remote", p)
        PROVE  \/ <<"put", r, p>> \in queue' \/ <<"del", r, p>> \in queue'
               \/ Above[p] \cap Locals.dirs \cap ever'[r] # {}
    <3>1. p \in listed[r].files /\ r \in have
      BY <2>1
    <3>2. \/ p \in Uploads(Locals, Remotes) \cup Deletions(Locals, Remotes)
          \/ Above[p] \cap Locals.dirs \cap ever[r] # {}
      BY <1>3, <2>1, <2>6, <3>1, DeletesAllThatGo
    <3> QED BY <2>2, <2>3, <2>6, <3>2
  <2> QED BY <1>2, <2>2, <2>4, <2>5, <2>6
<1>4. CASE Clean /\ \E x \in queue : Move(x)
  <2>1. PICK x \in queue : Move(x)
    BY <1>4
  <2>2. /\ Effect(x) /\ queue' = queue \ {x} /\ done' = done \cup {x}
        /\ UNCHANGED <<lost, always, ever>>
        /\ x = <<x[1], x[2], x[3]>> /\ x[1] \in {"put", "del"}
        /\ x[1] = "del" => x[3] \notin Locals.files
    BY <1>4, <2>1, MovedKeys, <1>2 DEF Move, env, UploadWhole, KeepUploads, Files
  <2>3. /\ x[1] = "put" /\ x[2] = r => store'[r] = store[r] \cup {x[3]}
        /\ x[1] = "del" /\ x[2] = r => store'[r] = store[r] \ {x[3]}
        /\ x[2] # r => store'[r] = store[r]
    BY <1>2, <2>2, MovedKeys
  <2>4. \A y \in queue' : y[1] \in {"put", "del"}
    BY <1>4, <2>2 DEF UploadWhole
  <2>5. ASSUME NEW p \in Locals.files, check_included("local", p)
        PROVE  \/ <<"put", r, p>> \in queue' \cup lost'
               \/ p \in store'[r] /\ <<"put", r, p>> \in done'
               \/ ~cmd.delete_missing /\ Clashes(r, p)'
    <3>1. \/ <<"put", r, p>> \in queue \cup lost
          \/ p \in store[r] /\ <<"put", r, p>> \in done
          \/ ~cmd.delete_missing /\ Clashes(r, p)'
      BY <1>4, <2>2, <2>5 DEF UploadWhole, Clashes
    <3>2. p \in store[r] => p \in store'[r]
      BY <2>2, <2>3
    <3>3. CASE x = <<"put", r, p>>
      <4>1. x[1] = "put" /\ x[2] = r /\ x[3] = p
        BY <3>3
      <4> QED BY <2>2, <2>3, <3>3, <4>1
    <3>4. CASE x # <<"put", r, p>>
      BY <2>2, <3>1, <3>2, <3>4
    <3> QED BY <3>3, <3>4
  <2>6. ASSUME cmd.delete_missing, NEW p \in store'[r] \cap always[r], p \notin Held,
               check_included("remote", p), Above[p] \cap Locals.dirs \cap ever[r] = {}
        PROVE  \/ <<"put", r, p>> \in queue' \cup done' \cup lost'
               \/ <<"del", r, p>> \in queue' \cup lost'
    <3>1. CASE p \in store[r]
      <4>1. <<"put", r, p>> \in queue \cup done \cup lost \/ <<"del", r, p>> \in queue \cup lost
        BY <1>4, <2>6, <3>1 DEF UploadWhole
      <4>2. x # <<"del", r, p>>
        BY <2>3, <2>6
      <4> QED BY <2>2, <4>1, <4>2
    <3>2. CASE p \notin store[r]
      <4>1. x[1] = "put" /\ x[2] = r /\ x[3] = p
        BY <2>2, <2>3, <2>6, <3>2
      <4> QED BY <2>2, <4>1
    <3> QED BY <3>1, <3>2
  <2> QED BY <1>2, <2>2, <2>4, <2>5, <2>6
<1>5. CASE Clean /\ \E x \in queue : MoveLost(x)
  <2>1. PICK x \in queue : MoveLost(x)
    BY <1>5
  <2>2. queue' = queue \ {x} /\ lost' = lost \cup {x} /\ UNCHANGED <<store, done, always, ever>>
    BY <2>1 DEF MoveLost
  <2>3. queue' \subseteq queue /\ queue \cup lost = queue' \cup lost'
    BY <2>1, <2>2
  <2>4. \A p : Clashes(r, p)' <=> Clashes(r, p)
    BY <2>2 DEF Clashes
  <2> QED BY <1>2, <1>5, <2>2, <2>3, <2>4 DEF UploadWhole
<1>6. CASE Clean /\ UNCHANGED <<store, queue, done, lost, always, ever>>
  BY <1>2, <1>6 DEF UploadWhole, Clashes
<1> QED BY <1>3, <1>4, <1>5, <1>6, CleanStep DEF Synchronizer, PlanRm, PlanDownload, Listed

-----------------------------------------------------------------------------
\* sync from the bucket: an included key is on the disk or about to be fetched, or has
\* no room, and no transfer to come takes it away again, or only with the directory that
\* gives way to a key of the same root; with -D a local file without a key is about to go.
DownloadWhole ==
  cmd.verb = "download" /\ Clean =>
    /\ \A x \in queue :
         /\ x[1] \in {"get", "getdir", "unlink"}
         /\ \A p \in Fetched \cap Clearing(x) : x[1] = "getdir" /\ x[3] \in Above[p]
         /\ x[1] = "getdir" =>
              \A r \in cmd.roots : always[r] \cap Below[x[3]] # {} => x[2] = r
    /\ \A r \in cmd.roots : \A p \in always[r] : check_included("remote", p) =>
         \/ \E x \in queue : x[1] \in {"get", "getdir"} /\ x[3] = p
         \/ p \in disk.files \cap Fetched
         \/ ~cmd.delete_missing /\ (p \in cmd.target.dirs \/ Above[p] \cap Files(cmd.target) # {})
         \/ p \in Fetched /\ \E a \in Above[p] : <<"getdir", r, a>> \in done
    /\ cmd.delete_missing => \A p \in Files(disk) \ Fetched :
         \/ Spaced(p)
         \/ \E r \in cmd.roots : \E q \in ever[r] : p \in From(q) /\ ~check_included("remote", q)
         \/ \E x \in queue : p \in Concerns(x)

\* A key that is not fetched has a local directory in its place, or a file in its way.
LEMMA FetchesAllThatFit ==
  ASSUME Inv, NEW r \in have, NEW p \in listed[r].files, check_included("remote", p)
  PROVE  \/ p \in Downloads(build_local_dir(disk), Remotes, r)
         \/ ~cmd.delete_missing /\ (p \in disk.dirs \/ Above[p] \cap Files(disk) # {})
<1> DEFINE l == build_local_dir(disk)
<1>1. l.dirs \subseteq disk.dirs /\ Files(l) \subseteq Files(disk)
  BY DEF build_local_dir, Without, Files
<1>2. p \in Path /\ p \in Remotes.files /\ Above[p] \subseteq Remotes.dirs
  BY RemotesInv, RemotesAreRooted DEF Tree
<1> HIDE DEF l
<1>3. ASSUME NEW a \in Above[p], a \notin Entered(l, Remotes)
      PROVE  ~cmd.delete_missing /\ Above[p] \cap Files(disk) # {}
  <2>1. ~cmd.delete_missing /\ (Above[a] \cup {a}) \cap Files(l) # {}
    BY <1>2, <1>3 DEF Entered
  <2>2. Above[a] \subseteq Above[p]
    BY <1>2, AboveIsTransitive
  <2> QED BY <1>1, <2>1, <2>2
<1>4. \/ p \in Downloads(l, Remotes, r)
      \/ ~(Above[p] \subseteq Entered(l, Remotes))
      \/ ~cmd.delete_missing /\ p \in disk.dirs
  BY <1>1 DEF Downloads
<1> QED BY <1>3, <1>4 DEF l

\* The first directory of a local file that is no remote one gives way, and the file
\* with it.
LEMMA ClearsAllThatGo ==
  ASSUME Inv, disk = cmd.target, cmd.delete_missing,
         NEW p \in Files(disk), ~Spaced(p), p \notin Remotes.dirs
  PROVE  \/ \E r \in have : \E q \in ever[r] : p \in From(q) /\ ~check_included("remote", q)
         \/ \E x \in process_downloads(build_local_dir(disk), Remotes) : p \in Concerns(x)
<1> DEFINE l == build_local_dir(disk)
           work == process_downloads(l, Remotes)
<1>1. disk \in Tree /\ p \in Path
  BY DEF Inv, TypeInv, TypeOK, Tree, Files
<1>2. p \in Files(l) /\ Above[p] \subseteq l.dirs
  <2>1. Above[p] \subseteq disk.dirs
    BY SyncAssumption DEF Inv, IsProper
  <2>2. ASSUME NEW a \in Above[p] PROVE ~Spaced(a) /\ a \in Path
    <3>1. a \in Path /\ Above[a] \subseteq Above[p]
      BY <1>1, AboveIsTransitive DEF Above
    <3> QED BY <3>1 DEF Spaced
  <2> QED BY <2>1, <2>2 DEF build_local_dir, Without, Files
<1>3. \A a \in Above[p] \cup {p} : p \in From(a)
  BY <1>1, AboveBelow DEF From, Above
<1>4. Entered(l, Remotes) = Remotes.dirs
  BY DEF Entered
<1> HIDE DEF l
<1>5. ASSUME NEW a \in Above[p] \cup {p}, a \in Remotes.files, a \in Above[p] => a \in l.dirs,
             Above[a] \subseteq Remotes.dirs
      PROVE  \/ \E r \in have : \E q \in ever[r] : p \in From(q) /\ ~check_included("remote", q)
             \/ \E x \in work : p \in Concerns(x)
  <2>1. PICK r \in have : a \in listed[r].files
    BY <1>5, RemotesInv
  <2>2. a \in ever[r]
    BY <2>1, RemotesInv DEF Inv, ListInv, TreeBounds
  <2>3. CASE ~check_included("remote", a)
    BY <1>3, <2>2, <2>3
  <2>4. CASE check_included("remote", a)
    <3>1. a \in Downloads(l, Remotes, r)
      BY <1>4, <1>5, <2>1, <2>4 DEF Downloads
    <3>2. CASE a \in l.dirs
      <4>1. <<"getdir", r, a>> \in work
        BY <3>1, <3>2 DEF process_downloads, Tasks
      <4>2. p \in Concerns(<<"getdir", r, a>>)
        BY <1>3 DEF Concerns, Clearing
      <4> QED BY <4>1, <4>2
    <3>3. CASE a \notin l.dirs
      <4>1. <<"get", r, a>> \in work /\ a = p
        BY <1>5, <3>1, <3>3 DEF process_downloads, Tasks
      <4>2. p \in Concerns(<<"get", r, p>>)
        BY DEF Concerns
      <4> QED BY <4>1, <4>2
    <3> QED BY <3>2, <3>3
  <2> QED BY <2>3, <2>4
<1>6. ASSUME NEW a \in Above[p] \cup {p}, a \in Files(l) \cup l.dirs,
             a \notin Remotes.files \cup Remotes.dirs, Above[a] \subseteq Remotes.dirs
      PROVE  \E x \in work : p \in Concerns(x)
  <2>1. a \in Unseen(l, Remotes)
    BY <1>6 DEF Unseen
  <2>2. << "unlink", CHOOSE r \in have : TRUE, a>> \in work
    BY <2>1 DEF process_downloads, Tasks
  <2>3. p \in Concerns(<< "unlink", CHOOSE r \in have : TRUE, a>>)
    BY <1>3 DEF Concerns, Clearing
  <2> QED BY <2>2, <2>3
<1> HIDE DEF work
<1>7. CASE Above[p] \subseteq Remotes.dirs
  <2>1. p \notin Above[p]
    BY <1>1, AboveBelow
  <2> QED BY <1>2, <1>5, <1>6, <1>7, <2>1 DEF work, l
<1>8. CASE ~(Above[p] \subseteq Remotes.dirs)
  <2>1. PICK a \in Above[p] : a \notin Remotes.dirs /\ Above[a] \subseteq Remotes.dirs
    BY <1>1, <1>8, FirstOutside
  <2>2. a \in l.dirs
    BY <1>2
  <2> QED BY <1>5, <1>6, <2>1, <2>2 DEF work, l
<1> QED BY <1>7, <1>8

\* What a transfer does to the disk.
LEMMA MovedFiles ==
  ASSUME Inv, NEW x \in queue, Effect(x)
  PROVE  /\ Files(disk') \subseteq (Files(disk) \ Clearing(x)) \cup {x[3]}
         /\ x[1] \notin {"get", "getdir"} => Files(disk') \subseteq Files(disk) \ Clearing(x)
         /\ x[1] \in {"get", "getdir"} => x[3] \in disk'.files
         /\ disk.files \ Clearing(x) \subseteq disk'.files
<1> DEFINE rest == Without(disk, Clearing(x))
<1>1. /\ rest \in Tree /\ Files(rest) = Files(disk) \ Clearing(x)
      /\ rest.files = disk.files \ Clearing(x)
  BY DEF Without, Tree, Files, Inv, TypeInv, TypeOK
<1>2. /\ x[1] \in {"get", "getdir"} =>
           disk' = [rest EXCEPT !.files = @ \cup {x[3]}, !.odd = @ \ {x[3]}]
      /\ x[1] \notin {"get", "getdir"} => disk' = rest
  BY DEF Effect
<1> HIDE DEF rest
<1>3. CASE x[1] \in {"get", "getdir"}
  <2>1. disk'.files = rest.files \cup {x[3]} /\ disk'.odd = rest.odd \ {x[3]}
    BY <1>1, <1>2, <1>3 DEF Tree
  <2> QED BY <1>1, <1>3, <2>1 DEF Files
<1>4. CASE x[1] \notin {"get", "getdir"}
  BY <1>1, <1>2, <1>4
<1> QED BY <1>3, <1>4

LEMMA DownloadPlanned ==
  ASSUME Inv, EndInv, PlanDownload, step' = "moving", ~Partial
  PROVE  DownloadWhole'
<1> DEFINE l == build_local_dir(disk)
<1>1. /\ Settled /\ queue = {} /\ disk = cmd.target /\ disk \in Tree
      /\ queue' = process_downloads(l, Remotes) /\ disk' = MakeDirs(l, Entered(l, Remotes))
      /\ UNCHANGED <<cmd, always, ever, done>>
  <2>1. Settled /\ queue = {} /\ Early
    BY DEF PlanDownload, Listed, Settled, Early
  <2>2. disk = cmd.target /\ disk \in Tree
    BY <2>1 DEF Inv, ListInv, QueueStage, TypeInv, TypeOK
  <2> QED BY <2>1, <2>2 DEF PlanDownload, End, env, result
<1>2. Fetched' = {}
  <2>1. \A x \in done : x[1] = "acl"
    BY <1>1 DEF EndInv, Settled, Early
  <2> QED BY <1>1, <2>1 DEF Fetched
<1>3. ASSUME NEW x \in queue' PROVE x[1] \in {"get", "getdir", "unlink"}
  BY PlannedDownload DEF IsGet, IsUnlink
<1>4. ASSUME NEW r \in cmd.roots
      PROVE  r \in have /\ have = cmd.roots /\ always[r] \subseteq listed[r].files
  BY <1>1, WholeTrees
<1>5. ASSUME NEW r \in cmd.roots, NEW p \in always[r], check_included("remote", p)
      PROVE  \/ \E x \in queue' : x[1] \in {"get", "getdir"} /\ x[3] = p
             \/ /\ ~cmd.delete_missing
                /\ p \in cmd.target.dirs \/ Above[p] \cap Files(cmd.target) # {}
  <2>1. r \in have /\ p \in listed[r].files
    BY <1>4
  <2>2. CASE p \in Downloads(l, Remotes, r)
    <3>1. CASE p \in l.dirs
      <4>1. <<"getdir", r, p>> \in queue'
        BY <1>1, <2>1, <2>2, <3>1 DEF process_downloads, Tasks
      <4> QED BY <4>1
    <3>2. CASE p \notin l.dirs
      <4>1. <<"get", r, p>> \in queue'
        BY <1>1, <2>1, <2>2, <3>2 DEF process_downloads, Tasks
      <4> QED BY <4>1
    <3> QED BY <3>1, <3>2
  <2>3. CASE p \notin Downloads(l, Remotes, r)
    BY <1>1, <1>5, <2>1, <2>3, FetchesAllThatFit
  <2> QED BY <2>2, <2>3
<1>6. ASSUME cmd.delete_missing, NEW p \in Files(disk'), ~Spaced(p)
      PROVE  \/ \E r \in cmd.roots : \E q \in ever[r] :
                  p \in From(q) /\ ~check_included("remote", q)
             \/ \E x \in queue' : p \in Concerns(x)
  <2>1. p \in Files(disk)
    BY <1>1 DEF MakeDirs, Files
  <2>2. p \in Path
    BY <1>1, <2>1 DEF Files, Tree
  <2>3. p \in Files(l)
    BY <1>6, <2>1, <2>2 DEF build_local_dir, Without, Files
  <2>4. p \notin Entered(l, Remotes)
    <3> HIDE DEF l
    <3> QED BY <1>1, <2>3 DEF MakeDirs, Files
  <2>5. p \notin Remotes.dirs
    BY <1>6, <2>4 DEF Entered
  <2>6. have \subseteq cmd.roots
    BY DEF Inv, TypeInv, TypeOK
  <2> QED BY <1>1, <1>6, <2>1, <2>5, <2>6, ClearsAllThatGo
<1>7. ASSUME NEW x \in queue', x[1] = "getdir", NEW r \in cmd.roots, NEW p \in always[r],
             p \in Below[x[3]]
      PROVE  x[2] = r
  <2>1. x[2] \in have /\ x[3] \in listed[x[2]].files /\ x[3] \in Path
    BY <1>7, PlannedDownload DEF IsGet, IsUnlink
  <2>2. r \in have /\ p \in listed[r].files /\ p \in Path
    BY <1>4, RemotesInv DEF Tree
  <2>3. x[3] \in Above[p]
    BY <1>7, <2>1, <2>2, AboveBelow
  <2>4. x[3] \in listed[r].dirs
    BY <2>2, <2>3, RemotesInv DEF Inv, ListInv, Rooted
  <2> QED BY <2>1, <2>2, <2>4 DEF PlanDownload, RemotesCollide, Collide, Files
<1>8. \A x \in queue' : Concerns(x)' = Concerns(x) /\ Clearing(x)' = Clearing(x)
  BY DEF Concerns, Clearing
<1> HIDE DEF l
<1> QED BY <1>1, <1>2, <1>3, <1>5, <1>6, <1>7, <1>8, SamePatterns DEF DownloadWhole

LEMMA DownloadMoves ==
  ASSUME Inv, TransfersAreApart, Clean, DownloadWhole, NEW x \in queue, Move(x)
  PROVE  DownloadWhole'
<1> SUFFICES ASSUME cmd.verb = "download"
             PROVE  DownloadWhole'
  BY DEF DownloadWhole, Move
<1>1. /\ Effect(x) /\ queue' = queue \ {x} /\ done' = done \cup {x}
      /\ UNCHANGED <<cmd, always, ever>>
  BY DEF Move, env
<1>2. /\ \A y \in queue :
           /\ y[1] \in {"get", "getdir", "unlink"}
           /\ \A p \in Fetched \cap Clearing(y) : y[1] = "getdir" /\ y[3] \in Above[p]
           /\ y[1] = "getdir" =>
                \A r \in cmd.roots : always[r] \cap Below[y[3]] # {} => y[2] = r
      /\ \A r \in cmd.roots : \A p \in always[r] : check_included("remote", p) =>
           \/ \E y \in queue : y[1] \in {"get", "getdir"} /\ y[3] = p
           \/ p \in disk.files \cap Fetched
           \/ ~cmd.delete_missing /\ (p \in cmd.target.dirs \/ Above[p] \cap Files(cmd.target) # {})
           \/ p \in Fetched /\ \E a \in Above[p] : <<"getdir", r, a>> \in done
      /\ cmd.delete_missing => \A p \in Files(disk) \ Fetched :
           \/ Spaced(p)
           \/ \E r \in cmd.roots : \E q \in ever[r] : p \in From(q) /\ ~check_included("remote", q)
           \/ \E y \in queue : p \in Concerns(y)
  BY DEF DownloadWhole
<1>3. Fetched' = IF x[1] \in {"get", "getdir"} THEN Fetched \cup {x[3]} ELSE Fetched
  BY <1>1 DEF Fetched
<1>4. x[3] \in Concerns(x) /\ Concerns(x) = {x[3]} \cup Clearing(x)
  BY DEF Concerns
<1>5. ASSUME NEW y \in queue', NEW p \in Fetched', p \in Clearing(y)
      PROVE  y[1] = "getdir" /\ y[3] \in Above[p]
  <2>1. y \in queue /\ y # x
    BY <1>1
  <2>2. CASE p \in Fetched
    BY <1>2, <1>5, <2>1, <2>2
  <2>3. CASE p = x[3]
    <3>1. p \in Concerns(x) \cap Concerns(y)
      BY <1>4, <1>5, <2>3 DEF Concerns
    <3>2. x[1] \in {"get", "getdir", "unlink"}
      BY <1>2
    <3>3. Replaces(x, y) \/ Replaces(y, x)
      BY <2>1, <3>1, <3>2 DEF TransfersAreApart
    <3>4. x[3] \in Path /\ y[3] \in Path
      <4>1. x \in Transfer /\ y \in Transfer
        BY <2>1 DEF Inv, TypeInv, TypeOK
      <4> QED BY <4>1 DEF Transfer
    <3>5. p \in From(y[3])
      BY <1>5 DEF Clearing
    <3>6. CASE Replaces(x, y)
      <4>1. x[3] \in Above[y[3]]
        BY <3>4, <3>6, AboveBelow DEF Replaces
      <4>2. x[3] = y[3] \/ y[3] \in Above[x[3]]
        BY <2>3, <3>4, <3>5, AboveBelow DEF From
      <4>3. x[3] \in Above[x[3]] \/ y[3] \in Above[y[3]]
        BY <3>4, <4>1, <4>2, AboveIsTransitive
      <4> QED BY <3>4, <4>3, AboveBelow
    <3>7. CASE Replaces(y, x)
      BY <2>3, <3>4, <3>7, AboveBelow DEF Replaces
    <3> QED BY <3>3, <3>6, <3>7
  <2> QED BY <1>3, <2>2, <2>3
<1>6. ASSUME NEW r \in cmd.roots, NEW p \in always[r], check_included("remote", p)
      PROVE  \/ \E y \in queue' : y[1] \in {"get", "getdir"} /\ y[3] = p
             \/ p \in disk'.files \cap Fetched'
             \/ /\ ~cmd.delete_missing
                /\ p \in cmd.target.dirs \/ Above[p] \cap Files(cmd.target) # {}
             \/ p \in Fetched' /\ \E a \in Above[p] : <<"getdir", r, a>> \in done'
  <2>1. CASE \E y \in queue : y[1] \in {"get", "getdir"} /\ y[3] = p
    <3>1. PICK y \in queue : y[1] \in {"get", "getdir"} /\ y[3] = p
      BY <2>1
    <3>2. CASE y = x
      BY <1>1, <1>3, <3>1, <3>2, MovedFiles
    <3>3. CASE y # x
      BY <1>1, <3>1, <3>3
    <3> QED BY <3>2, <3>3
  <2>2. CASE p \in disk.files \cap Fetched /\ p \notin Clearing(x)
    BY <1>1, <1>3, <2>2, MovedFiles
  <2>3. CASE p \in Fetched /\ p \in Clearing(x)
    <3>1. x[1] = "getdir" /\ x[3] \in Above[p]
      BY <1>2, <2>3
    <3>2. x \in Transfer /\ p \in Path
      BY <1>6 DEF Inv, TypeInv, TypeOK, Worlds
    <3>3. x = <<"getdir", x[2], x[3]>> /\ x[3] \in Path
      BY <3>1, <3>2 DEF Transfer
    <3>4. p \in Below[x[3]]
      BY <3>1, <3>2, <3>3, AboveBelow
    <3>5. x[2] = r
      BY <1>2, <1>6, <3>1, <3>4
    <3> QED BY <1>1, <1>3, <2>3, <3>1, <3>3, <3>5
  <2>4. CASE p \in Fetched /\ \E a \in Above[p] : <<"getdir", r, a>> \in done
    BY <1>1, <1>3, <2>4
  <2> QED BY <1>2, <1>6, <2>1, <2>2, <2>3, <2>4
<1>7. ASSUME cmd.delete_missing, NEW p \in Files(disk') \ Fetched', ~Spaced(p)
      PROVE  \/ \E r \in cmd.roots : \E q \in ever[r] :
                  p \in From(q) /\ ~check_included("remote", q)
             \/ \E y \in queue' : p \in Concerns(y)
  <2>1. p \in Files(disk) \ Clearing(x) /\ p \notin Fetched
        /\ (x[1] \in {"get", "getdir"} => p # x[3])
    BY <1>1, <1>3, <1>7, MovedFiles
  <2>2. p \notin Concerns(x)
    <3>1. CASE x[1] = "unlink"
      <4>1. Clearing(x) = From(x[3])
        BY <3>1 DEF Clearing
      <4>2. x[3] \in Clearing(x)
        BY <4>1 DEF From
      <4> QED BY <1>4, <2>1, <4>2
    <3>2. CASE x[1] # "unlink"
      BY <1>2, <1>4, <2>1, <3>2
    <3> QED BY <3>1, <3>2
  <2> QED BY <1>1, <1>2, <1>7, <2>1, <2>2
<1>8. \A y \in queue' : Concerns(y)' = Concerns(y) /\ Clearing(y)' = Clearing(y)
  BY DEF Concerns, Clearing
<1> QED BY <1>1, <1>2, <1>5, <1>6, <1>7, <1>8, SamePatterns DEF DownloadWhole

LEMMA DownloadWholeStep ==
  ASSUME Inv, EndInv, TransfersAreApart, DownloadWhole, [Next]_vars
  PROVE  DownloadWhole'
<1> SUFFICES ASSUME cmd.verb = "download", Clean' PROVE DownloadWhole'
  BY SameCommand DEF DownloadWhole
<1>1. CASE PlanDownload /\ step' = "moving" /\ ~Partial
  BY <1>1, DownloadPlanned
<1>2. CASE Clean /\ \E x \in queue : Move(x)
  BY <1>2, DownloadMoves
<1>3. CASE Clean /\ \E x \in queue : MoveLost(x)
  BY <1>3 DEF DownloadWhole, MoveLost
<1>4. CASE Clean /\ UNCHANGED <<disk, queue, done, always, ever>>
  <2>1. UNCHANGED cmd
    BY SameCommand
  <2> QED BY <1>4, <2>1, SamePatterns DEF DownloadWhole, Concerns, Clearing, Fetched
<1> QED BY <1>1, <1>2, <1>3, <1>4, CleanStep DEF Synchronizer, PlanRm, PlanUpload, Listed

-----------------------------------------------------------------------------
\* publish: a directory is listed once, after the one it is in, so that a file has one
\* transfer, which is queued, or done and counted, or lost and counted.
Ended(t) == lister[t].pc \in {"done", "cut"}

ParentsFirst ==
  \A t \in Listing : \A q \in Inside[t[2]] :
    lister[<<t[1], q>>].pc # "idle" => Ended(t)

Gone == done \cup lost

PublishWhole ==
  cmd.verb = "publish" /\ ~failing =>
    /\ \A x \in queue \cup Gone : x[1] = "acl" /\ Ended(<<x[2], Front(x[3])>>)
    /\ queue \cap Gone = {} /\ IsFiniteSet(Gone) /\ num = Cardinality(Gone)
    /\ \A t \in Listing : lister[t].pc = "done" =>
         \A p \in always[t[1]] \cap Inside[t[2]] : check_included("remote", p) =>
           <<"acl", t[1], p>> \in queue \cup Gone

\* The steps of the listing, by what they do to the tasks.
LEMMA TaskSteps ==
  ASSUME Inv, [Next]_vars, NEW t \in Listing
  PROVE  \/ BeginListing /\ Synchronizer
         \/ lister'[t] = lister[t]
         \/ NextRoot /\ lister[t].pc = "idle" /\ t[2] = <<>> /\ lister'[t] = Reading
         \/ (ReadPage(t) \/ ListingFails(t)) /\ lister[t].pc = "reading" /\ ~Ended(t)'
         \/ \E z \in Listing : FinishListing(z) \/ ListingCut(z)
<1>1. lister \in [Listing -> Cell]
  BY DEF Inv, TypeInv, TypeOK, Cell
<1>2. CASE NextRoot
  <2>1. \A r \in cmd.roots : Top(r)[2] = <<>>
    BY DEF Top
  <2> QED BY <1>1, <1>2, <2>1 DEF NextRoot
<1>3. ASSUME NEW z \in Listing, ReadPage(z) PROVE
        \/ lister'[t] = lister[t]
        \/ ReadPage(t) /\ lister[t].pc = "reading" /\ ~Ended(t)'
  <2>1. PICK m : lister' = [lister EXCEPT ![z].marker = m]
    BY <1>3 DEF ReadPage
  <2>2. CASE t = z
    BY <1>1, <1>3, <2>1, <2>2 DEF Cell, ReadPage, Runs, Ended
  <2>3. CASE t # z
    BY <1>1, <2>1, <2>3
  <2> QED BY <2>2, <2>3
<1>4. ASSUME NEW z \in Listing, ListingFails(z) PROVE
        \/ lister'[t] = lister[t]
        \/ ListingFails(t) /\ lister[t].pc = "reading" /\ ~Ended(t)'
  <2>1. \/ lister' = [lister EXCEPT ![z].attempt = @ + 1, ![z].marker = 0]
        \/ lister' = [lister EXCEPT ![z].pc = "failed"]
    BY <1>4 DEF ListingFails
  <2>2. CASE t = z
    BY <1>1, <1>4, <2>1, <2>2 DEF Cell, ListingFails, Runs, Ended
  <2>3. CASE t # z
    BY <1>1, <2>1, <2>3
  <2> QED BY <2>2, <2>3
<1>5. CASE Relist \/ (Start /\ BeginListing)
  <2>1. BeginListing
    BY <1>5 DEF Relist
  <2>2. Relist => Synchronizer
    BY DEF Relist
  <2>3. Start /\ BeginListing => Synchronizer
    BY DEF Start, BeginListing, End
  <2> QED BY <1>5, <2>1, <2>2, <2>3
<1>6. CASE UNCHANGED tree
  BY <1>6 DEF tree
<1> QED BY <1>2, <1>3, <1>4, <1>5, <1>6, OtherSteps

LEMMA FinishedTasks ==
  ASSUME Inv, ParentsFirst, NEW z \in Listing, FinishListing(z) \/ ListingCut(z)
  PROVE  /\ lister[z].pc = "reading" /\ Ended(z)'
         /\ \A t \in Listing : t # z =>
              \/ lister'[t] = lister[t]
              \/ /\ lister'[t] = Reading /\ lister[t].pc = "idle"
                 /\ t[1] = z[1] /\ t[2] \in Inside[z[2]]
<1>1. lister \in [Listing -> Cell] /\ lister[z].pc = "reading"
  BY DEF Inv, TypeInv, TypeOK, Cell, FinishListing, ListingCut, Runs
<1>2. PICK all, end :
        EndListing(z, all, end) /\ end \in {"done", "cut"}
  BY DEF FinishListing, ListingCut
<1> DEFINE subdirs == all.dirs \cap Inside[z[2]]
<1>3. lister' = [t \in Listing |->
                   IF t = z THEN [lister[z] EXCEPT !.pc = end]
                   ELSE IF t[1] = z[1] /\ t[2] \in subdirs THEN Reading ELSE lister[t]]
  BY <1>2 DEF EndListing
<1>4. subdirs \subseteq Inside[z[2]]
  OBVIOUS
<1> HIDE DEF subdirs
<1>5. lister'[z].pc = end
  BY <1>1, <1>3 DEF Cell
<1>6. ASSUME NEW t \in Listing, t # z, lister'[t] # lister[t]
      PROVE  lister'[t] = Reading /\ lister[t].pc = "idle" /\ t[1] = z[1] /\ t[2] \in Inside[z[2]]
  <2>1. lister'[t] = Reading /\ t[1] = z[1] /\ t[2] \in Inside[z[2]]
    BY <1>3, <1>4, <1>6
  <2>2. t = <<z[1], t[2]>>
    BY <2>1, ListingPair
  <2>3. lister[t].pc = "idle"
    BY <1>1, <2>1, <2>2 DEF ParentsFirst, Ended
  <2> QED BY <2>1, <2>3
<1> QED BY <1>1, <1>2, <1>5, <1>6 DEF Ended

LEMMA ParentsStep == ASSUME Inv, ParentsFirst, [Next]_vars PROVE ParentsFirst'
<1> SUFFICES ASSUME NEW t \in Listing, NEW q \in Inside[t[2]], lister'[<<t[1], q>>].pc # "idle"
             PROVE  Ended(t)'
  BY DEF ParentsFirst
<1> DEFINE s == <<t[1], q>>
<1>1. /\ s \in Listing /\ s[1] = t[1] /\ s[2] = q /\ q # <<>> /\ t = <<t[1], t[2]>>
      /\ t[1] \in Root /\ t[2] \in Dir /\ Front(q) = t[2]
  BY ListingPair, RootIsNoPath DEF Inside
<1> HIDE DEF s
<1>2. lister[s].pc # "idle" => Ended(t)
  BY <1>1 DEF ParentsFirst, s
<1>3. CASE BeginListing
  BY <1>1, <1>3 DEF BeginListing, Idle, s
<1>4. CASE \E z \in Listing : FinishListing(z) \/ ListingCut(z)
  <2>1. PICK z \in Listing : FinishListing(z) \/ ListingCut(z)
    BY <1>4
  <2>2. CASE lister[s].pc # "idle"
    BY <1>2, <2>1, <2>2, FinishedTasks DEF Ended
  <2>3. CASE lister[s].pc = "idle"
    <3>1. s # z /\ lister'[s] # lister[s]
      BY <1>1, <2>1, <2>3, FinishedTasks DEF s
    <3>2. t[1] = z[1] /\ q \in Inside[z[2]]
      BY <1>1, <2>1, <3>1, FinishedTasks
    <3>3. z[2] = Front(q) /\ z = <<z[1], z[2]>>
      BY <3>2, ListingPair DEF Inside
    <3>4. t = z
      BY <1>1, <3>2, <3>3
    <3> QED BY <2>1, <3>4, FinishedTasks
  <2> QED BY <2>2, <2>3
<1>5. CASE ~BeginListing /\ ~ \E z \in Listing : FinishListing(z) \/ ListingCut(z)
  <2>1. lister[s].pc # "idle"
    BY <1>1, <1>5, TaskSteps DEF s
  <2>2. Ended(t)
    BY <1>2, <2>1
  <2> QED BY <1>5, <2>2, TaskSteps DEF Ended
<1> QED BY <1>3, <1>4, <1>5

LEMMA PublishFinishes ==
  ASSUME Inv, Inv', ParentsFirst, PublishWhole, cmd.verb = "publish", ~failing, UNCHANGED cmd,
         NEW z \in Listing, FinishListing(z) \/ ListingCut(z)
  PROVE  PublishWhole'
<1> DEFINE new == {<<"acl", z[1], p>> : p \in listed'[z[1]].files \cap Inside[z[2]]}
<1>1. /\ queue' = queue \cup new /\ Gone' = Gone /\ UNCHANGED <<num, always>>
      /\ z[1] \in Root /\ z[2] \in Dir /\ z = <<z[1], z[2]>>
  <2>1. listed \in [Root -> Tree] /\ z[1] \in Root /\ z[2] \in Dir /\ z = <<z[1], z[2]>>
    BY ListingPair DEF Inv, TypeInv, TypeOK
  <2>2. PICK all, end : EndListing(z, all, end) /\ UNCHANGED always
    BY DEF FinishListing, ListingCut, env
  <2>3. listed'[z[1]] = all
    BY <2>1, <2>2 DEF EndListing
  <2> QED BY <2>1, <2>2, <2>3 DEF EndListing, publish_subdir_task, result, Gone
<1>2. \A x \in new : /\ x[1] = "acl" /\ x[2] = z[1] /\ x[3] \in Inside[z[2]]
                     /\ <<x[2], Front(x[3])>> = z
  BY <1>1 DEF Inside
<1>3. /\ \A x \in queue \cup Gone : x[1] = "acl" /\ Ended(<<x[2], Front(x[3])>>)
      /\ queue \cap Gone = {} /\ IsFiniteSet(Gone) /\ num = Cardinality(Gone)
      /\ \A t \in Listing : lister[t].pc = "done" =>
           \A p \in always[t[1]] \cap Inside[t[2]] : check_included("remote", p) =>
             <<"acl", t[1], p>> \in queue \cup Gone
  BY DEF PublishWhole
<1> HIDE DEF new
<1>4. ASSUME NEW x \in queue \cup Gone
      PROVE  <<x[2], Front(x[3])>> \in Listing
  <2>1. x \in Transfer
    BY DEF Inv, TypeInv, TypeOK, Gone
  <2>2. x[2] \in Root /\ x[3] \in Path
    BY <2>1 DEF Transfer
  <2> QED BY <2>2, FrontIsDirectory DEF Listing
<1>5. lister[z].pc = "reading" /\ Ended(z)' /\ ~Ended(z)
  BY FinishedTasks DEF Ended
<1>6. ASSUME NEW t \in Listing, t # z
      PROVE  (Ended(t)' <=> Ended(t)) /\ (lister'[t].pc = "done" <=> lister[t].pc = "done")
  BY <1>6, FinishedTasks DEF Reading, Ended
<1>7. ASSUME NEW x \in queue' \cup Gone
      PROVE  x[1] = "acl" /\ Ended(<<x[2], Front(x[3])>>)'
  <2>1. CASE x \in queue \cup Gone
    <3>1. Ended(<<x[2], Front(x[3])>>) /\ x[1] = "acl"
      BY <1>3, <2>1
    <3>2. <<x[2], Front(x[3])>> \in Listing /\ <<x[2], Front(x[3])>> # z
      BY <1>4, <1>5, <2>1, <3>1
    <3> QED BY <1>6, <3>1, <3>2
  <2>2. CASE x \in new
    BY <1>2, <1>5, <2>2
  <2> QED BY <1>1, <2>1, <2>2
<1>8. queue' \cap Gone = {}
  <2>1. ASSUME NEW x \in new, x \in Gone PROVE FALSE
    <3>1. Ended(z)
      BY <1>2, <1>3, <2>1
    <3> QED BY <1>5, <3>1
  <2> QED BY <1>1, <1>3, <2>1
<1>9. ASSUME NEW t \in Listing, lister'[t].pc = "done",
             NEW p \in always[t[1]] \cap Inside[t[2]], check_included("remote", p)
      PROVE  <<"acl", t[1], p>> \in queue' \cup Gone
  <2>1. CASE t = z
    <3>1. Past(t, <<p, "file">>)'
      BY <1>9 DEF Past
    <3>2. p \in listed'[t[1]].files
      <4>1. FilesRead'
        BY DEF Inv, ListInv
      <4> QED BY <1>1, <1>9, <3>1, <4>1 DEF FilesRead
    <3> QED BY <1>1, <1>9, <2>1, <3>2 DEF new
  <2>2. CASE t # z
    BY <1>1, <1>3, <1>6, <1>9, <2>2
  <2> QED BY <2>1, <2>2
<1> QED BY <1>1, <1>3, <1>7, <1>8, <1>9, SamePatterns DEF PublishWhole

LEMMA PublishMoves ==
  ASSUME Inv, PublishWhole, cmd.verb = "publish", ~failing,
         NEW x \in queue, Move(x) \/ MoveLost(x) \/ Skip(x)
  PROVE  PublishWhole'
<1>1. /\ \A y \in queue \cup Gone : y[1] = "acl" /\ Ended(<<y[2], Front(y[3])>>)
      /\ queue \cap Gone = {} /\ IsFiniteSet(Gone) /\ num = Cardinality(Gone)
      /\ \A t \in Listing : lister[t].pc = "done" =>
           \A p \in always[t[1]] \cap Inside[t[2]] : check_included("remote", p) =>
             <<"acl", t[1], p>> \in queue \cup Gone
  BY DEF PublishWhole
<1>2. UNCHANGED <<cmd, lister, always>> /\ queue' = queue \ {x} /\ \A t : Ended(t)' <=> Ended(t)
  BY DEF Move, MoveLost, Skip, tree, env, Ended
<1>3. CASE Move(x) \/ MoveLost(x)
  <2>1. Gone' = Gone \cup {x} /\ num' = num + 1 /\ x \notin Gone
    BY <1>1, <1>3 DEF Move, MoveLost, Gone
  <2>2. IsFiniteSet(Gone') /\ num' = Cardinality(Gone')
    BY <1>1, <2>1, FS_AddElement
  <2>3. \A y \in queue' \cup Gone' : y[1] = "acl" /\ Ended(<<y[2], Front(y[3])>>)'
    BY <1>1, <1>2, <2>1
  <2>4. queue' \cap Gone' = {} /\ queue \cup Gone = queue' \cup Gone'
    BY <1>1, <1>2, <2>1
  <2> QED BY <1>1, <1>2, <2>2, <2>3, <2>4, SamePatterns DEF PublishWhole
<1>4. CASE Skip(x)
  <2>1. Gone' = Gone /\ UNCHANGED num /\ ~check_included("remote", x[3])
    BY <1>4 DEF Skip, result, Gone
  <2>2. \A t \in Listing : \A p : x = <<"acl", t[1], p>> => ~check_included("remote", p)
    BY <2>1
  <2>3. \A t \in Listing : lister[t].pc = "done" =>
          \A p \in always[t[1]] \cap Inside[t[2]] : check_included("remote", p) =>
            <<"acl", t[1], p>> \in queue' \cup Gone
    BY <1>1, <1>2, <2>2
  <2> QED BY <1>1, <1>2, <2>1, <2>3, SamePatterns DEF PublishWhole
<1> QED BY <1>3, <1>4

LEMMA PublishWholeStep ==
  ASSUME Inv, Inv', ParentsFirst, PublishWhole, [Next]_vars
  PROVE  PublishWhole'
<1>1. UNCHANGED cmd
  BY SameCommand
<1> SUFFICES ASSUME cmd.verb = "publish", ~failing', ~failing PROVE PublishWhole'
  BY <1>1, FailureIsKept DEF PublishWhole
<1>2. CASE \E z \in Listing : FinishListing(z) \/ ListingCut(z)
  BY <1>1, <1>2, PublishFinishes
<1>3. CASE \E x \in queue : Move(x) \/ MoveLost(x) \/ Skip(x)
  BY <1>3, PublishMoves
<1>4. CASE /\ ~ \E z \in Listing : FinishListing(z) \/ ListingCut(z)
           /\ ~ \E x \in queue : Move(x) \/ MoveLost(x) \/ Skip(x)
  <2>1. UNCHANGED <<queue, done, lost, num>>
    BY <1>4 DEF Next, Command, Start, MainFails, NextRoot, ReadPage, ListingFails, Relist,
                WalkEnds, PlanUpload, PlanDownload, NoDownload, MkdirFails, PlanRm, Listed,
                MoveFails, RunEnds, OthersChange, Over, vars, env, result
  <2>2. ASSUME NEW t \in Listing
        PROVE  (Ended(t)' <=> Ended(t)) /\ (lister'[t].pc = "done" <=> lister[t].pc = "done")
    BY <1>4, TaskSteps DEF Synchronizer, Reading, Ended
  <2>3. ASSUME NEW r \in Root PROVE always'[r] \subseteq always[r]
    BY OthersTakeAndAdd DEF Inv
  <2>4. /\ \A x \in queue \cup Gone : x[1] = "acl" /\ Ended(<<x[2], Front(x[3])>>)
        /\ queue \cap Gone = {} /\ IsFiniteSet(Gone) /\ num = Cardinality(Gone)
        /\ \A t \in Listing : lister[t].pc = "done" =>
             \A p \in always[t[1]] \cap Inside[t[2]] : check_included("remote", p) =>
               <<"acl", t[1], p>> \in queue \cup Gone
    BY DEF PublishWhole
  <2>5. ASSUME NEW x \in queue \cup Gone PROVE Ended(<<x[2], Front(x[3])>>)'
    <3>1. x \in Transfer
      BY DEF Inv, TypeInv, TypeOK, Gone
    <3>2. x[2] \in Root /\ x[3] \in Path
      BY <3>1 DEF Transfer
    <3>3. <<x[2], Front(x[3])>> \in Listing
      BY <3>2, FrontIsDirectory DEF Listing
    <3> QED BY <2>2, <2>4, <3>3
  <2>6. ASSUME NEW t \in Listing, lister'[t].pc = "done",
               NEW p \in always'[t[1]] \cap Inside[t[2]], check_included("remote", p)
        PROVE  <<"acl", t[1], p>> \in queue \cup Gone
    BY <2>2, <2>3, <2>4, <2>6, ListingPair
  <2>7. Gone' = Gone
    BY <2>1 DEF Gone
  <2> QED BY <1>1, <2>1, <2>4, <2>5, <2>6, <2>7, SamePatterns DEF PublishWhole
<1> QED BY <1>2, <1>3, <1>4

-----------------------------------------------------------------------------
\* du and publish, when they end.
WalkIsDone ==
  rc = "ok" /\ ~Cut =>
    /\ cmd.verb = "publish" =>
         /\ \A r \in cmd.roots : \A p \in always[r] :
              check_included("remote", p) => <<"acl", r, p>> \in Gone
         /\ num = Cardinality(Gone)
    /\ cmd.verb = "du" => \A r \in cmd.roots :
         Cardinality(always[r]) <= num /\ num <= Cardinality(ever[r])

LEMMA AllArePublished ==
  ASSUME Inv, PublishWhole, cmd.verb = "publish", Settled, ~Partial, ~failing,
         NEW r \in cmd.roots, NEW p \in always[r], check_included("remote", p)
  PROVE  <<"acl", r, p>> \in Gone
<1> DEFINE t == <<r, Front(p)>>
<1>1. /\ t \in Listing /\ t[1] = r /\ p \in Inside[t[2]] /\ lister[t].pc = "done"
      /\ queue = {}
  BY DirectoryIsDone DEF Inv, Settled
<1> HIDE DEF t
<1> QED BY <1>1 DEF PublishWhole

LEMMA SizeIsBetween ==
  ASSUME Inv, cmd.verb = "du", Settled, ~Partial, NEW r \in cmd.roots
  PROVE  Cardinality(always[r]) <= get_size /\ get_size <= Cardinality(ever[r])
<1>1. cmd.roots = {r}
  BY OnlyRoot
<1>2. get_size = Cardinality(listed[r].files)
  <2>1. UNION {listed[s].files : s \in cmd.roots} = listed[r].files
    BY <1>1
  <2> QED BY <2>1 DEF get_size
<1>3. always[r] \subseteq listed[r].files /\ listed[r].files \subseteq ever[r]
  BY WholeTrees
<1>4. ever[r] \subseteq Path
  BY WholeTrees DEF Inv, TypeInv, TypeOK
<1>5. IsFiniteSet(ever[r])
  BY <1>4, PathAssumption, FS_Subset
<1>6. IsFiniteSet(listed[r].files) /\ Cardinality(listed[r].files) <= Cardinality(ever[r])
  BY <1>3, <1>5, FS_Subset
<1>7. Cardinality(always[r]) <= Cardinality(listed[r].files)
  BY <1>3, <1>6, FS_Subset
<1> QED BY <1>2, <1>6, <1>7

LEMMA WalkStep == ASSUME Inv, EndInv, PublishWhole, WalkIsDone, [Next]_vars PROVE WalkIsDone'
<1>1. UNCHANGED cmd
  BY SameCommand
<1>2. CASE step = "over"
  BY <1>1, <1>2, NothingAfterTheEnd, SamePatterns DEF WalkIsDone, vars, tree, env, result, Cut, Gone
<1>3. CASE WalkEnds
  <2>1. UNCHANGED <<always, ever, done, lost, lister>> /\ Settled
    BY <1>3 DEF WalkEnds, env, tree
  <2> SUFFICES ASSUME rc' = "ok", ~Cut' PROVE WalkIsDone'
    BY DEF WalkIsDone
  <2>2. ~failing /\ ~Partial
    <3>1. ~failing
      BY <1>3 DEF WalkEnds, End
    <3> QED BY <2>1, <3>1 DEF EndInv, Failed, Partial, Cut
  <2>3. ASSUME cmd.verb = "publish"
        PROVE  /\ num' = Cardinality(Gone)
               /\ \A r \in cmd.roots : \A p \in always[r] :
                    check_included("remote", p) => <<"acl", r, p>> \in Gone
    <3>1. num' = num
      BY <1>3, <2>3 DEF WalkEnds
    <3>2. num = Cardinality(Gone)
      BY <2>2, <2>3 DEF PublishWhole
    <3> QED BY <2>1, <2>2, <2>3, <3>1, <3>2, AllArePublished
  <2>4. ASSUME cmd.verb = "du", NEW r \in cmd.roots
        PROVE  Cardinality(always[r]) <= num' /\ num' <= Cardinality(ever[r])
    <3>1. num' = get_size
      BY <1>3, <2>2, <2>4 DEF WalkEnds
    <3> QED BY <2>1, <2>2, <2>4, <3>1, SizeIsBetween
  <2> QED BY <1>1, <2>1, <2>3, <2>4, SamePatterns DEF WalkIsDone, Gone
<1>4. CASE RunEnds
  BY <1>1, <1>4 DEF RunEnds, EndInv, Synchronizer, WalkIsDone
<1>5. CASE step # "over" /\ ~WalkEnds /\ ~RunEnds
  <2>1. rc = "none"
    BY <1>5 DEF EndInv
  <2>2. rc' # "ok"
    BY <1>5, <2>1 DEF Next, Command, Start, MainFails, NextRoot, ReadPage, FinishListing, EndListing,
         ListingCut, ListingFails, Relist, PlanUpload, PlanDownload, NoDownload, MkdirFails, PlanRm, End,
         Move, MoveLost, Skip, MoveFails, OthersChange, Over, vars, env, result
  <2> QED BY <2>2 DEF WalkIsDone
<1> QED BY <1>2, <1>3, <1>4, <1>5

-----------------------------------------------------------------------------
\* What is done and what is still queued make up the whole work of each command.
DoneInv ==
  /\ EndInv /\ KeepUploads /\ TransfersAreApart /\ ParentsFirst
  /\ RmWhole /\ UploadWhole /\ DownloadWhole /\ PublishWhole /\ WalkIsDone

LEMMA DoneInit == ASSUME Init PROVE DoneInv
<1>1. /\ step = "start" /\ rc = "none" /\ ~failing /\ queue = {} /\ num = 0
      /\ done = {} /\ lost = {}
      /\ \A t \in Listing : lister[t].pc = "idle"
  BY DEF Init, Idle
<1>2. EndInv /\ ~Clean
  BY <1>1 DEF EndInv, Failed, Clean
<1>3. ParentsFirst
  <2>1. ASSUME NEW t \in Listing, NEW q \in Inside[t[2]] PROVE <<t[1], q>> \in Listing
    BY ListingPair DEF Inside
  <2> QED BY <1>1, <2>1 DEF ParentsFirst
<1>4. PublishWhole
  BY <1>1, FS_EmptySet DEF PublishWhole, Gone
<1>5. KeepUploads /\ TransfersAreApart
  BY <1>1 DEF Init, KeepUploads, TransfersAreApart
<1> QED
  BY <1>1, <1>2, <1>3, <1>4, <1>5
  DEF DoneInv, RmWhole, UploadWhole, DownloadWhole, WalkIsDone

LEMMA AllIsDone == ASSUME DoneInv PROVE SuccessMeansDone
<1> SUFFICES ASSUME rc = "ok", ~Cut PROVE SuccessMeansDone
  BY DEF SuccessMeansDone
<1>1. Clean /\ queue = {}
  BY DEF DoneInv, EndInv, Clean
<1>2. ASSUME cmd.verb = "upload", NEW r \in cmd.roots PROVE UploadIsDone(r)
  BY <1>1, <1>2 DEF DoneInv, UploadWhole, UploadIsDone
<1>3. ASSUME cmd.verb = "download" PROVE DownloadIsDone
  BY <1>1, <1>3 DEF DoneInv, DownloadWhole, DownloadIsDone
<1>4. ASSUME cmd.verb = "rm", NEW r \in cmd.roots, NEW p \in always[r] \cap store[r]
      PROVE  <<"del", r, p>> \in lost \/ ~check_included("remote", p)
  BY <1>1, <1>4 DEF DoneInv, RmWhole
<1> QED BY <1>2, <1>3, <1>4 DEF SuccessMeansDone, DoneInv, WalkIsDone, Gone

\* A command that reports success, if no listing was cut short unseen, has done its work
\* but for requests that passed for done, for any trees, sizes of page, tries, failures
\* and changes by others.  After a sync every included file of the source is in the
\* target and was put there by this command, unless something without -D has its place,
\* or the directory it was fetched into gave way to a key that is a directory too; with
\* -D nothing else is left but what the patterns, or a file that cannot be copied,
\* protect, and keys below one in the place of a local directory; after rm no included
\* key is left; publish has published every included key and has counted what it
\* published; and what du says lies between the number of keys that were there all the
\* time and that of all that ever were.  All is said of keys that others left alone.
THEOREM SuccessIsNoLie == Spec => []SuccessMeansDone
<1>1. Init => DoneInv
  BY DoneInit
<1>2. Inv /\ Inv' /\ DoneInv /\ [Next]_vars => DoneInv'
  BY EndStep, KeepUploadsStep, ApartStep, ParentsStep, RmWholeStep, UploadWholeStep,
     DownloadWholeStep, PublishWholeStep, WalkStep DEF DoneInv
<1>3. DoneInv => SuccessMeansDone
  BY AllIsDone
<1> QED BY <1>1, <1>2, <1>3, InvHolds, PTL DEF Spec
=============================================================================
