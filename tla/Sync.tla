-------------------------------- MODULE Sync --------------------------------
(***************************************************************************)
(* The commands that walk a tree in the bucket: sync (es3/sync.cpp,        *)
(* do_rsync), rm (do_rm), du (do_du) and publish (do_publish), from the    *)
(* listing of directories over the plan made of the two trees to the       *)
(* transfers, with requests that fail, requests that pass for done though  *)
(* nothing was, and others who change the bucket while it is listed.  A    *)
(* transfer is one step here; what happens inside it is the subject of     *)
(* Upload and Download.                                                    *)
(***************************************************************************)
EXTENDS Trees

CONSTANTS
  Root,          \* directories in the bucket a command may name
  MaxAttempts,   \* tries of a task (10 in the code)
  MAX_LISTINGS,  \* runs of the listing (3 in the code)
  MaxFaults,     \* bound on failures of requests and of system calls
  MaxSilent,     \* bound on requests that fail and pass for done
  MaxChanges,    \* bound on what others change
  World          \* command lines, with the trees they find

Verb == {"upload", "download", "rm", "du", "publish"}

\* In a world: the command, its options and arguments; the keys below each root;
\* the local sources of an upload, the local target of a download; the paths with
\* a space in their last name; the paths the patterns of -I and -E reject, which
\* are matched against absolute names and so differ from side to side; and the
\* failures, seen and unseen, and changes by others that may still come.
Worlds ==
  [verb : Verb, delete_missing : BOOLEAN, recursive : BOOLEAN,
   roots : SUBSET Root, keys : [Root -> SUBSET Path],
   sources : SUBSET Tree, target : Tree, spaced : SUBSET Path,
   rejected : [{"local", "remote"} -> SUBSET Path],
   faults : 0..MaxFaults, silent : 0..MaxSilent, changes : 0..MaxChanges]

ASSUME SyncAssumption ==
  /\ MaxAttempts \in Nat \ {0}
  /\ MAX_LISTINGS \in Nat \ {0}
  /\ MaxFaults \in Nat /\ MaxSilent \in Nat /\ MaxChanges \in Nat
  /\ World \subseteq Worlds
  /\ \A w \in World :
       /\ w.roots # {}
       /\ w.verb \in {"upload", "du"} => \E r \in Root : w.roots = {r}
       /\ w.verb = "upload" => w.sources # {}
       /\ IsProper(w.target) /\ \A t \in w.sources : IsProper(t)

VARIABLES
  cmd,      \* the command and its arguments
  store,    \* the keys below each root
  disk,     \* the local target of a download
  step,     \* where the command is
  f,        \* the number of the run of the listing
  lister,   \* the tasks that list one directory each
  listed,   \* s3_directory: what has been entered in the tree of a root
  have,     \* remote_lists: the roots whose tree has been added
  failing,  \* num_failed_ of the agenda is not zero
  queue,    \* transfers that are scheduled
  done,     \* transfers that ended well
  lost,     \* transfers that ended well and did nothing
  num,      \* the counter du and publish print
  rc,       \* how the command ended
  faults, silent, changes,  \* what may still go wrong
  always, ever      \* the keys others have left alone, and all there have been

tree == <<lister, listed, have>>
env == <<faults, silent, changes, always, ever>>
result == <<done, lost, num>>
vars == <<cmd, store, disk, step, f, tree, failing, queue, result, rc, env>>

\* A task lists one directory of one root; a transfer has a kind, a root, a path.
Listing == Root \X Dir
Top(r) == << r, <<>> >>
Transfer == {"put", "del", "get", "getdir", "unlink", "acl"} \X Root \X Path

Idle == [pc |-> "idle", attempt |-> 0, marker |-> 0]
Reading == [pc |-> "reading", attempt |-> 0, marker |-> 0]
Synchronizer == cmd.verb \in {"upload", "download", "rm"}

TypeOK ==
  /\ cmd \in Worlds
  /\ store \in [Root -> SUBSET Path]
  /\ disk \in Tree
  /\ step \in {"start", "main", "listing", "moving", "over"}
  /\ f \in 0..MAX_LISTINGS
  /\ lister \in [Listing -> [pc : {"idle", "reading", "done", "cut", "failed"},
                             attempt : 0..(MaxAttempts - 1), marker : Nat]]
  /\ listed \in [Root -> Tree]
  /\ have \subseteq cmd.roots
  /\ failing \in BOOLEAN
  /\ queue \subseteq Transfer /\ done \subseteq Transfer /\ lost \subseteq Transfer
  /\ num \in Nat
  /\ rc \in {"none", "ok", "failed", "not found", "fatal", "crash"}
  /\ faults \in 0..MaxFaults /\ silent \in 0..MaxSilent /\ changes \in 0..MaxChanges
  /\ always \in [Root -> SUBSET Path] /\ ever \in [Root -> SUBSET Path]

Init ==
  /\ cmd \in World
  /\ store = cmd.keys /\ disk = cmd.target
  /\ step = "start" /\ f = 0
  /\ lister = [t \in Listing |-> Idle]
  /\ listed = [r \in Root |-> Empty]
  /\ have = {} /\ queue = {} /\ done = {} /\ lost = {}
  /\ failing = FALSE /\ num = 0 /\ rc = "none"
  /\ faults = cmd.faults /\ silent = cmd.silent /\ changes = cmd.changes
  /\ always = cmd.keys /\ ever = cmd.keys

-----------------------------------------------------------------------------
\* Names with a space are skipped, with all that is below them.
Spaced(p) == (Above[p] \cup {p}) \cap cmd.spaced # {}

check_included(side, p) == ~Spaced(p) /\ p \notin cmd.rejected[side]

\* check_entry: the local tree as the program sees it.
build_local_dir(t) == Without(t, {p \in Path : Spaced(p)})

\* The command ends: exceptions reach main(), which exits with 8.
End(code) == step' = "over" /\ rc' = code

\* Something that may fail does.
Fault == faults > 0 /\ faults' = faults - 1

\* A request is answered below 400 by something that is no success, a redirection
\* for one: check_for_errors does not mind.
Silence == silent > 0 /\ silent' = silent - 1

\* prepare_remote_list is scheduled for every root, with a new tree.
BeginListing ==
  /\ step' = "listing" /\ f' = f + 1
  /\ lister' = [t \in Listing |-> IF t[1] \in cmd.roots /\ t[2] = <<>> THEN Reading ELSE Idle]
  /\ listed' = [r \in Root |-> Empty]
  /\ have' = {}

\* The arguments are looked at.  An upload merges its sources before it asks for
\* the remote side; du and publish list the roots in the thread of the command.
Start ==
  /\ step = "start"
  /\ IF cmd.verb = "upload"
          /\ \E s, t \in cmd.sources : s # t /\ Collide(build_local_dir(s), build_local_dir(t))
     THEN End("fatal") /\ UNCHANGED <<f, tree>>
     ELSE IF Synchronizer THEN BeginListing /\ UNCHANGED rc
     ELSE step' = "main" /\ UNCHANGED <<f, tree, rc>>
  /\ UNCHANGED <<cmd, store, disk, failing, queue, result, env>>

\* find_region, or the listing of a root in the thread of the command, fails.
MainFails ==
  /\ step \in {"start", "main"}
  /\ Fault /\ End("fatal")
  /\ UNCHANGED <<cmd, store, disk, f, tree, failing, queue, result, silent, changes, always, ever>>

\* The thread of the command lists one root after the other and runs the agenda.
NextRoot ==
  /\ step = "main"
  /\ \A r \in Root : lister[Top(r)].pc # "reading"
  /\ LET left == {r \in cmd.roots : lister[Top(r)].pc = "idle"} IN
     \/ /\ left = {} /\ step' = "listing"
        /\ UNCHANGED lister
     \/ /\ \E r \in left : lister' = [lister EXCEPT ![Top(r)] = Reading]
        /\ UNCHANGED step
  /\ UNCHANGED <<cmd, store, disk, f, listed, have, failing, queue, result, rc, env>>

\* Tasks run when the agenda does.
Runs(t) ==
  /\ lister[t].pc = "reading"
  /\ (step = "listing" \/ (step = "main" /\ t[2] = <<>>))

\* list_files_shallow reads an answer that is not the last one.
ReadPage(t) ==
  LET page == Page(store[t[1]], t[2], lister[t].marker) IN
  /\ Runs(t)
  /\ IsTruncated(store[t[1]], t[2], lister[t].marker)
  /\ listed' = [listed EXCEPT ![t[1]] = Enter(@, page)]
  /\ \E m \in Markers(page) : lister' = [lister EXCEPT ![t].marker = m]
  /\ UNCHANGED <<cmd, store, disk, step, f, have, failing, queue, result, rc, env>>

\* publish_subdir_task: one task for each file of the directory it listed.
publish_subdir_task(r, files) ==
  IF cmd.verb = "publish" THEN {<<"acl", r, p>> : p \in files} ELSE {}

\* The answers were read, and the task schedules a task for each subdirectory and,
\* when it publishes, for each file; the tree of a root is added to the list.
EndListing(t, all, end) ==
  LET r == t[1]
      d == t[2]
      subdirs == all.dirs \cap Inside[d]
  IN
  /\ listed' = [listed EXCEPT ![r] = all]
  /\ lister' = [x \in Listing |->
                  IF x = t THEN [lister[t] EXCEPT !.pc = end]
                  ELSE IF x[1] = r /\ x[2] \in subdirs THEN Reading ELSE lister[x]]
  /\ have' = IF d = <<>> THEN have \cup {r} ELSE have
  /\ queue' = queue \cup publish_subdir_task(r, all.files \cap Inside[d])
  /\ UNCHANGED <<cmd, store, disk, step, f, failing, result, rc>>

\* list_files_shallow reads the last answer.
FinishListing(t) ==
  /\ Runs(t)
  /\ ~IsTruncated(store[t[1]], t[2], lister[t].marker)
  /\ EndListing(t, Enter(listed[t[1]], Page(store[t[1]], t[2], lister[t].marker)), "done")
  /\ UNCHANGED env

\* It reads one that is no listing, and takes the directory to end there.
ListingCut(t) ==
  /\ Runs(t)
  /\ Silence
  /\ EndListing(t, listed[t[1]], "cut")
  /\ UNCHANGED <<faults, changes, always, ever>>

\* A request of a listing task fails.  A new try starts with the first page; it
\* keeps what is in the tree, but prepare_remote_list makes a new one.
ListingFails(t) ==
  /\ Runs(t) /\ step = "listing"
  /\ Fault
  /\ \/ /\ lister[t].attempt + 1 < MaxAttempts
        /\ lister' = [lister EXCEPT ![t].attempt = @ + 1, ![t].marker = 0]
        /\ listed' = IF t[2] = <<>> THEN [listed EXCEPT ![t[1]] = Empty] ELSE listed
        /\ UNCHANGED failing
     \/ /\ lister' = [lister EXCEPT ![t].pc = "failed"]
        /\ failing' = TRUE
        /\ UNCHANGED listed
  /\ UNCHANGED <<cmd, store, disk, step, f, have, queue, result, rc, silent, changes, always, ever>>

\* run() returns when the tasks are gone.
Settled ==
  /\ step = "listing" /\ queue = {}
  /\ \A t \in Listing : lister[t].pc # "reading"

\* Mutant: the runs of the listing are not counted.
Relist_Uncounted ==
  /\ Settled /\ Synchronizer
  /\ failing
  /\ BeginListing
  /\ UNCHANGED <<cmd, store, disk, failing, queue, result, rc, env>>

\* create_schedule lists again after a run with failures, and since run() counts
\* the failures of all runs, again after that.
Relist ==
  /\ Settled /\ Synchronizer
  /\ failing /\ f < MAX_LISTINGS
  /\ BeginListing
  /\ UNCHANGED <<cmd, store, disk, failing, queue, result, rc, env>>

\* After the last one it goes on with what it has: no task is left in the queue,
\* so tasks_count() is zero however many failed.
Listed(verb) == Settled /\ cmd.verb = verb /\ (failing => f = MAX_LISTINGS)

get_size == Cardinality(UNION {listed[r].files : r \in cmd.roots})

\* do_du adds up the tree; do_publish has counted.
WalkEnds ==
  /\ Settled /\ ~Synchronizer
  /\ End(IF failing THEN "failed" ELSE "ok")
  /\ num' = IF cmd.verb = "du" /\ ~failing THEN get_size ELSE num
  /\ UNCHANGED <<cmd, store, disk, f, tree, failing, queue, done, lost, env>>

-----------------------------------------------------------------------------
\* The plan: what is to be transferred, from the trees of both sides.
Remotes == Merge({listed[r] : r \in have})
RemotesCollide == \E r, s \in have : r # s /\ Collide(listed[r], listed[s])
Tasks(kind, r, paths) == {<<kind, r, p>> : p \in paths}

\* The remote directory of a local one is not looked at below a key that is in its
\* place, even if there are keys in the directory too.
LooksAt(locals, remotes, p) == Above[p] \cap locals.dirs \cap remotes.files = {}

\* Mutant: what is there already is left alone, as in the check mode.
Uploads_NewOnly(locals, remotes) ==
  {p \in locals.files : check_included("local", p) /\ p \notin remotes.files \cup remotes.dirs}

\* process_upload: local files whose place is not taken, or may be cleared.
Uploads(locals, remotes) ==
  {p \in locals.files :
     /\ check_included("local", p)
     /\ \/ cmd.delete_missing
        \/ p \notin remotes.dirs /\ Above[p] \cap remotes.files = {}}

\* delete_possibly_recursive: all the included keys below the directory.
Included(remotes, p) == {q \in remotes.files \cap Below[p] : check_included("remote", q)}

\* process_upload: a remote directory goes when nothing local has its name, or
\* when a local file takes its place.
ClearedDirs(locals, remotes) ==
  {p \in remotes.dirs \ locals.dirs :
     /\ Above[p] \subseteq locals.dirs /\ LooksAt(locals, remotes, p)
     /\ \/ p \notin Files(locals)
        \/ p \in locals.files /\ check_included("local", p)}

\* Mutant: a file is taken out of unseen only after the patterns were asked.
Deletions_FilterFirst(locals, remotes) ==
  {p \in remotes.files :
     /\ Above[p] \subseteq locals.dirs /\ LooksAt(locals, remotes, p)
     /\ p \notin {q \in Files(locals) : check_included("local", q)}}

\* process_upload: the keys nothing local has the name of (unseen), those that
\* are in the place of a local directory, and the content of cleared directories.
Deletions(locals, remotes) ==
  {p \in remotes.files :
     /\ Above[p] \subseteq locals.dirs /\ LooksAt(locals, remotes, p)
     /\ p \notin Files(locals)}
    \cup UNION {Included(remotes, p) : p \in ClearedDirs(locals, remotes)}

process_upload(r, locals, remotes) ==
  Tasks("put", r, Uploads(locals, remotes))
    \cup (IF cmd.delete_missing THEN Tasks("del", r, Deletions(locals, remotes)) ELSE {})

\* Without the list of the only root remotes is a null pointer.
PlanUpload ==
  /\ Listed("upload")
  /\ \/ have = {} /\ End("crash") /\ UNCHANGED queue
     \/ \E r \in have :
          /\ queue' = process_upload(r, Merge({build_local_dir(t) : t \in cmd.sources}), Remotes)
          /\ step' = "moving" /\ UNCHANGED rc
  /\ UNCHANGED <<cmd, store, disk, f, tree, failing, result, env>>

\* Mutant: a file in the way of a directory is removed without -D.
Entered_Always(locals, remotes) == remotes.dirs

\* process_downloads enters a remote directory unless a local file is in its place
\* or above it and may not be removed; it is created, and such a file removed, at once.
Entered(locals, remotes) ==
  {d \in remotes.dirs : cmd.delete_missing \/ (Above[d] \cup {d}) \cap Files(locals) = {}}

MakeDirs(locals, dirs) ==
  [files |-> disk.files \ (Files(locals) \cap dirs),
   odd   |-> disk.odd \ (Files(locals) \cap dirs),
   dirs  |-> disk.dirs \cup (dirs \ (Files(disk) \ Files(locals)))]

\* The files of a root to be downloaded.
Downloads(locals, remotes, r) ==
  {p \in listed[r].files :
     /\ check_included("remote", p) /\ Above[p] \subseteq Entered(locals, remotes)
     /\ p \in locals.dirs => cmd.delete_missing}

\* unseen: what the remote side has no name for, in the directories of both.
Unseen(locals, remotes) ==
  {p \in Files(locals) \cup locals.dirs :
     Above[p] \subseteq remotes.dirs /\ p \notin remotes.files \cup remotes.dirs}

process_downloads(locals, remotes) ==
  (UNION {Tasks("get", r, Downloads(locals, remotes, r) \ locals.dirs)
            \cup Tasks("getdir", r, Downloads(locals, remotes, r) \cap locals.dirs) : r \in have})
    \cup (IF cmd.delete_missing
          THEN Tasks("unlink", CHOOSE r \in have : TRUE, Unseen(locals, remotes)) ELSE {})

\* A skipped local file is in the place of a directory above d: mkdir fails.
Hopeless(locals, d) == Above[d] \cap (Files(disk) \ Files(locals)) # {}

PlanDownload ==
  LET locals == build_local_dir(disk)
      dirs == Entered(locals, Remotes)
  IN
  /\ Listed("download") /\ have # {} /\ ~RemotesCollide
  /\ \A d \in dirs : ~Hopeless(locals, d)
  /\ disk' = MakeDirs(locals, dirs)
  /\ \/ /\ Remotes = Empty /\ End("not found")
        /\ UNCHANGED queue
     \/ /\ Remotes # Empty /\ step' = "moving"
        /\ queue' = process_downloads(locals, Remotes)
        /\ UNCHANGED rc
  /\ UNCHANGED <<cmd, store, f, tree, failing, result, env>>

\* Two remote trees collide, or there is none, which is a null pointer.
NoDownload ==
  /\ Listed("download") /\ (have = {} \/ RemotesCollide)
  /\ End(IF have = {} THEN "crash" ELSE "fatal")
  /\ UNCHANGED <<cmd, store, disk, f, tree, failing, queue, result, env>>

\* A directory cannot be made: the exception leaves the tasks behind, but not what
\* has been removed and made so far.
MkdirFails ==
  LET locals == build_local_dir(disk)
      dirs == Entered(locals, Remotes)
  IN
  /\ Listed("download") /\ have # {} /\ ~RemotesCollide
  /\ \E d \in dirs \ disk.dirs :
       /\ \/ Hopeless(locals, d) /\ UNCHANGED faults
          \/ Fault
       /\ \E made \in SUBSET {x \in dirs : ~Hopeless(locals, x)} :
            /\ d \notin made /\ \A x \in made \cup {d} : Above[x] \subseteq made
            /\ disk' = Without(MakeDirs(locals, made), Files(locals) \cap {d})
  /\ End("fatal")
  /\ UNCHANGED <<cmd, store, f, tree, failing, queue, result, silent, changes, always, ever>>

\* Mutant: subdirectories are not looked for.
PlanRm_Anything ==
  /\ Listed("rm")
  /\ queue' = UNION {Tasks("del", r, Included(listed[r], <<>>)) : r \in have}
  /\ step' = "moving"
  /\ UNCHANGED <<cmd, store, disk, f, tree, failing, result, rc, env>>

\* create_schedule in delete_mode: rm deletes what it listed and is included, but
\* nothing at all if it finds a subdirectory and was not told -r.
PlanRm ==
  /\ Listed("rm")
  /\ \/ /\ ~cmd.recursive /\ \E r \in have : listed[r].dirs \cap Inside[<<>>] # {}
        /\ End("fatal") /\ UNCHANGED queue
     \/ /\ cmd.recursive \/ \A r \in have : listed[r].dirs \cap Inside[<<>>] = {}
        /\ queue' = UNION {Tasks("del", r, Included(listed[r], <<>>)) : r \in have}
        /\ step' = "moving" /\ UNCHANGED rc
  /\ UNCHANGED <<cmd, store, disk, f, tree, failing, result, env>>

-----------------------------------------------------------------------------
\* The transfers, in any order.
Clearing(x) == IF x[1] \in {"getdir", "unlink"} THEN From(x[3]) ELSE {}

CanGet(t, p) == p \notin t.dirs /\ Above[p] \subseteq t.dirs

\* What a transfer needs to succeed: the object, and room for the local file.
\* publish_file_task does nothing for a key that is not included.
Possible(x) ==
  CASE x[1] \in {"get", "getdir"} ->
         x[3] \in store[x[2]] /\ CanGet(Without(disk, Clearing(x)), x[3])
    [] x[1] = "acl" -> x[3] \in store[x[2]] /\ check_included("remote", x[3])
    [] OTHER -> TRUE

Effect(x) ==
  /\ store' = CASE x[1] = "put" -> [store EXCEPT ![x[2]] = @ \cup {x[3]}]
                [] x[1] = "del" -> [store EXCEPT ![x[2]] = @ \ {x[3]}]
                [] OTHER -> store
  /\ disk' = LET rest == Without(disk, Clearing(x)) IN
             IF x[1] \in {"get", "getdir"}
             THEN [rest EXCEPT !.files = @ \cup {x[3]}, !.odd = @ \ {x[3]}] ELSE rest

Move(x) ==
  /\ x \in queue /\ step \in {"listing", "moving"}
  /\ Possible(x)
  /\ Effect(x)
  /\ queue' = queue \ {x} /\ done' = done \cup {x}
  /\ num' = IF x[1] = "acl" THEN num + 1 ELSE num
  /\ UNCHANGED <<cmd, step, f, tree, failing, lost, rc, env>>

\* A request of a transfer passes for done though S3 did nothing; of an upload also
\* when its parts were lost count of.
MoveLost(x) ==
  /\ x \in queue /\ step \in {"listing", "moving"}
  /\ x[1] \in {"put", "del", "acl"}
  /\ x[1] = "acl" => check_included("remote", x[3])
  /\ Silence
  /\ queue' = queue \ {x} /\ lost' = lost \cup {x}
  /\ num' = IF x[1] = "acl" THEN num + 1 ELSE num
  /\ UNCHANGED <<cmd, store, disk, step, f, tree, failing, done, rc,
                 faults, changes, always, ever>>

\* A key publish is not to touch.
Skip(x) ==
  /\ x \in queue /\ step = "listing"
  /\ x[1] = "acl" /\ ~check_included("remote", x[3])
  /\ queue' = queue \ {x}
  /\ UNCHANGED <<cmd, store, disk, step, f, tree, failing, result, rc, env>>

\* A transfer fails for good: before it did anything, after it removed the
\* directory in its way, or although S3 has done what it was asked to do.
MoveFails(x) ==
  /\ x \in queue /\ step \in {"listing", "moving"}
  /\ x[1] = "acl" => check_included("remote", x[3])
  /\ \/ ~Possible(x) /\ UNCHANGED faults
     \/ Fault
  /\ \/ UNCHANGED <<store, disk>>
     \/ disk' = Without(disk, Clearing(x)) /\ UNCHANGED store
     \/ x[1] \in {"put", "del"} /\ Effect(x)
  /\ queue' = queue \ {x} /\ failing' = TRUE
  /\ UNCHANGED <<cmd, step, f, tree, result, rc, silent, changes, always, ever>>

\* The last run returns the failures of the listing too.
RunEnds ==
  /\ step = "moving" /\ queue = {}
  /\ End(IF failing THEN "failed" ELSE "ok")
  /\ UNCHANGED <<cmd, store, disk, f, tree, failing, queue, result, env>>

\* Others store or delete a key while the bucket is listed.
OthersChange ==
  /\ step \in {"start", "main", "listing"} /\ changes > 0
  /\ changes' = changes - 1
  /\ \E r \in cmd.roots, p \in Path :
       /\ store' = [store EXCEPT ![r] = IF p \in @ THEN @ \ {p} ELSE @ \cup {p}]
       /\ always' = [always EXCEPT ![r] = @ \ {p}]
       /\ ever' = [ever EXCEPT ![r] = @ \cup {p}]
  /\ UNCHANGED <<cmd, disk, step, f, tree, failing, queue, result, rc, faults, silent>>

Over == step = "over" /\ UNCHANGED vars

Command ==
  \/ Start \/ MainFails \/ NextRoot
  \/ \E t \in Listing : ReadPage(t) \/ FinishListing(t) \/ ListingCut(t) \/ ListingFails(t)
  \/ Relist \/ WalkEnds
  \/ PlanUpload \/ PlanDownload \/ NoDownload \/ MkdirFails \/ PlanRm
  \/ \E x \in queue : Move(x) \/ MoveLost(x) \/ Skip(x) \/ MoveFails(x)
  \/ RunEnds

Next == Command \/ OthersChange \/ Over

Spec == Init /\ [][Next]_vars

\* Some thread of the command has its next step, and gets the time to take it.
FairSpec == Spec /\ WF_vars(Command)
-----------------------------------------------------------------------------
Locals == Merge({build_local_dir(t) : t \in cmd.sources})

\* Some directory was not listed to its end in the last run of the listing: its
\* task failed, or it was cut short without anybody noticing.
Cut == \E t \in Listing : lister[t].pc = "cut"
Partial == Cut \/ \E t \in Listing : lister[t].pc = "failed"

\* The key p of a root is, or was, also the name of a directory there, or below
\* another key.
Clashes(r, p) == (Above[p] \cup Below[p]) \cap ever[r] # {}

\* When every directory was listed to its end, the tree of a root has every key that
\* was there all the time and none that never was, however the answers were cut into
\* pages, whatever was tried again and whatever others did meanwhile.
ListingComplete ==
  (Settled \/ step = "moving") /\ ~Partial =>
    /\ have = cmd.roots
    /\ \A r \in have : always[r] \subseteq listed[r].files /\ listed[r].files \subseteq ever[r]

\* What a local file that is not uploaded keeps from being deleted: its name, and
\* what is below it.
Held ==
  UNION {From(p) : p \in Locals.odd \cup {q \in Locals.files : ~check_included("local", q)}}

\* Keys below one that is in the place of a local directory are not looked at.
UploadIsDone(r) ==
  /\ \A p \in Locals.files : check_included("local", p) =>
       \/ p \in store[r] /\ <<"put", r, p>> \in done
       \/ <<"put", r, p>> \in lost
       \/ ~cmd.delete_missing /\ Clashes(r, p)
  /\ cmd.delete_missing => \A p \in store[r] \cap always[r] :
       \/ <<"put", r, p>> \in done \cup lost \/ <<"del", r, p>> \in lost
       \/ p \in Held \/ ~check_included("remote", p)
       \/ Above[p] \cap Locals.dirs \cap ever[r] # {}

Fetched == {x[3] : x \in {x \in done : x[1] \in {"get", "getdir"}}}

\* What is fetched below a key that takes the place of a local directory may be
\* removed with that.
DownloadIsDone ==
  /\ \A r \in cmd.roots : \A p \in always[r] : check_included("remote", p) =>
       \/ p \in disk.files \cap Fetched
       \/ ~cmd.delete_missing /\ (p \in cmd.target.dirs \/ Above[p] \cap Files(cmd.target) # {})
       \/ p \in Fetched /\ \E a \in Above[p] : <<"getdir", r, a>> \in done
  /\ cmd.delete_missing => \A p \in Files(disk) \ Fetched :
       \/ Spaced(p)
       \/ \E r \in cmd.roots : \E q \in ever[r] : p \in From(q) /\ ~check_included("remote", q)

\* A command that reports success, when every directory was listed to its end, has
\* done its work but for the requests that S3 passed over in silence: after sync
\* every included file of the source is in the target, and with -D nothing else is,
\* except what the patterns or a file that cannot be copied protect, or what has to
\* do with a key that is a directory too; after rm no included key is left; publish
\* has published all of them, and its count and that of du are right.
SuccessMeansDone ==
  rc = "ok" /\ ~Cut =>
    /\ cmd.verb = "upload" => \A r \in cmd.roots : UploadIsDone(r)
    /\ cmd.verb = "download" => DownloadIsDone
    /\ cmd.verb = "rm" => \A r \in cmd.roots : \A p \in always[r] \cap store[r] :
                            <<"del", r, p>> \in lost \/ ~check_included("remote", p)
    /\ cmd.verb = "publish" =>
         /\ \A r \in cmd.roots : \A p \in always[r] :
              check_included("remote", p) => <<"acl", r, p>> \in done \cup lost
         /\ num = Cardinality(done \cup lost)
    /\ cmd.verb = "du" => \A r \in cmd.roots :
         Cardinality(always[r]) <= num /\ num <= Cardinality(ever[r])

\* -D deletes no key that has a local file of its name, except one with a space,
\* which is not looked at; and when every directory was listed to its end no local
\* file that has a key of its name, filtered or not, except one whose key has to do
\* with another that is a directory too.  No failure of a transfer changes that.
DeletesOnlyMissing ==
  /\ cmd.verb = "upload" =>
       \A r \in Root : \A p \in (always[r] \ store[r]) \cap Files(Merge(cmd.sources)) : Spaced(p)
  /\ cmd.verb = "download" /\ ~Partial =>
       \A r \in cmd.roots : \A p \in (Files(cmd.target) \ Files(disk)) \cap always[r] : Clashes(r, p)

\* Without -D no command but rm loses anything, at any moment and whatever fails.
NothingElseIsLost ==
  /\ cmd.verb # "rm" /\ ~(cmd.verb = "upload" /\ cmd.delete_missing) =>
       \A r \in Root : always[r] \subseteq store[r]
  /\ ~(cmd.verb = "download" /\ cmd.delete_missing) =>
       Files(cmd.target) \subseteq Files(disk) /\ cmd.target.dirs \subseteq disk.dirs

\* rm without -r deletes nothing in subdirectories, and never what is not included,
\* of the keys others leave alone; a listing that failed does not matter.
RmIsCareful ==
  cmd.verb = "rm" => \A r \in Root : \A p \in always[r] \ store[r] :
    check_included("remote", p) /\ (cmd.recursive \/ Above[p] = {})

Concerns(x) == {x[3]} \cup Clearing(x)

\* The transfer x puts a file in the place of a local directory, in which y has
\* something to do, as there are keys below that of x.
Replaces(x, y) ==
  x[1] = "getdir" /\ y[3] \in Below[x[3]] /\ Below[x[3]] \cap ever[x[2]] # {}

\* The agenda runs transfers in any order: no two that are queued concern the same
\* file, or one file and the directory of it that the other clears away, unless that
\* directory gives way to a key that is the name of a directory too.
TransfersAreApart ==
  \A x, y \in queue : x # y =>
    \/ {x[1], y[1]} \subseteq {"put", "del", "acl"} /\ x[2] # y[2]
    \/ Concerns(x) \cap Concerns(y) = {}
    \/ Replaces(x, y) \/ Replaces(y, x)

\* Every command comes to its end.
CommandEnds == <>(step = "over")

\* "Delete missing files from the sync destination" (commands.cpp:45): a download
\* deletes no local file whose key has been in the bucket all the time.
OnlyMissingDeleted ==
  cmd.verb = "download" =>
    \A r \in cmd.roots : (Files(cmd.target) \ Files(disk)) \cap always[r] = {}
=============================================================================
