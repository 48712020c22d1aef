# Verification of es3

es3 (Extreme S3) is a command line client that copies trees of files to and
from Amazon S3: `rsync`, `cp`, `ls`, `du`, `rm`, `cat` and their mass variants.
It is fast because it does everything at once: files, blocks of a file,
segments of a download and pages of a listing are tasks of one executor, which
runs them on three classes of threads and gives them memory from one budget.
This directory holds TLA+ models of that machinery, the TLC configurations that
check them on small instances, and proofs, checked by TLAPS, of what holds for
instances of every size. Paths such as `agenda.cpp:132` are below `src/es3/`.

The repository has no tests; the only statements about behaviour beside the code
are its comments, assertions and option texts.

## 1. Inventory

| Component | State it keeps | Operations | Talks to |
|---|---|---|---|
| **agenda** (`agenda.*`) | queue `tasks_` by class and size, `classes_`, `num_working_`, `segments_in_flight_`, counters of submitted, done and failed tasks, mutex and condition | `schedule`, `claim_task`, `cleanup`, the loop of a worker, `get_segments` and `segment_deleter`, `run`, `draw_progress` | calls the body of every task; tasks call `schedule` |
| **uploader** (`uploader.*`) | `upload_content`: upload id, etags, parts completed, mutex | `file_uploader`, `file_pump`, `part_upload_task`, `remote_file_deleter` | compressor (call-back `on_finish_`), connection, agenda |
| **compressor** (`compressor.*`) | `file_compressor`: blocks pending, results; `scattered_files`: temporary files, removed with the last owner | `file_compressor`, `compress_task`, `on_complete`, `file_decompressor`, `should_compress` | uploader, agenda, scratch directory |
| **downloader** (`downloader.*`) | `download_content`: segments read, names, `delete_temp_file_`, mutex | `file_downloader`, `download_segment_task`, `write_segment_task`, the two deleting tasks, `do_cat` | connection, file_decompressor, agenda, file system |
| **connection** (`connection.*`) | header list, number of LIST requests | `prepare`, `checked`, `check_for_errors`, `upload_data` with `check_part`, `initiate_multipart`, `complete_multipart`, `download_data`, `find_mtime_and_size`, listing, `find_region` | context, S3 |
| **context** (`context.*`) | idle handles per bucket, borrowed handles, use counts, error buffers, mutex | `get_curl`, `release_curl`, `taint`, `err_buf_for`, `reset` | connection, `synchronizer::create_schedule` |
| **sync** (`sync.*`) | local tree, remote tree, include and exclude patterns | listing tasks, `create_schedule`, `process_upload`, `process_downloads`, deletions | agenda, connection, uploader, downloader |
| **commands** (`commands.*`), **main** | options | one function per verb, with loops that repeat failed runs | everything |
| **helpers** (`common`, `errors`, `base64`, `pattern_match`, `mimes`, `scope_guard`) | none | pure functions, exception classes with the severities `errNone`, `errWarn`, `errFatal` | |

How they interact. A command puts first tasks into the agenda and calls `run()`,
which starts the crew and joins it. Every body runs on a worker; it may schedule
further tasks and hand a memory segment to each. An exception of severity
`errWarn` makes the executor run *the same task object* again, up to ten times;
anything else counts the task as failed. Tasks of one transfer share a content
object through `shared_ptr`, and destructors do real work: the last owner of a
segment returns it to the budget, the last owner of a content removes the
temporary files. Every request borrows a curl handle from the shared context.

What is hard here, and what makes each component right:

- *agenda*: one condition variable for waiters of three classes; `notify_one`;
  two of the size buckets scanned; segments returned outside the task that asked for
  them. Right if its counters agree with its threads, the budget is kept, nothing is
  executed twice or forgotten, nobody sleeps beside work, and `run()` ends.
- *uploader, compressor*: parts race to begin the multipart upload and to be the
  last; a body may be retried after half of its effects; answers of S3 may be
  lost. Right if the object is assembled exactly from parts the store has and a run
  without failures has uploaded the file.
- *downloader*: the object may change between HEAD and the ranged reads; segments are
  written in any order; temporary files change owner. Right if a wrong file is never
  taken for up to date, the target is replaced once and whole, and temporary
  files are gone afterwards.
- *context*: handles are recycled, and so are their addresses. Right if no handle
  is shared or freed in use and one that was tainted is never lent again.
- *sync, commands*: a listing comes in pages, may fail half-way and is repeated while
  others change the bucket; a plan is made from it and carried out in any order. Right if
  the trees that are compared are complete, only what is really missing is deleted, and a
  command that reports success has made both sides agree.

The full list of hazards, each with its line and the properties that cover it, is in
`PROJECT.json`.

## 2. Modules and plan

```
WorkPool  <--refined by--  Agenda  <--  MCAgenda, AgendaProofs
   ^
 Bodies   (WorkPool plus retries: the executor as its users see it)
   ^---- Upload    <--  UploadProofs                    Partition  <--  Upload,
   ^---- Download  <--  MCDownload, DownloadProofs           Download, PartitionProofs
ConnPool  <--  MCConnPool, ConnPoolProofs
Trees  <--  Sync  <--  MCSync, SyncProofs  <--  ListingProofs  <--  PlanProofs
```

| Module | Models | Status |
|---|---|---|
| `Agenda` | the executor, critical section by critical section | done, proved |
| `WorkPool` | what the executor promises: each task is executed once, `run()` returns when all are done | done, `Agenda` is proved to implement it |
| `Bodies` | `WorkPool` with the loop of retries around each body | done |
| `Partition` | blocks of a file, parts, pumps, segments: sizes, offsets and numbers | done, proved |
| `Upload` | file_uploader, file_compressor, compress_task, file_pump, part_upload_task, the requests of a multipart upload and the store | done, safety proved, `SuccessMeansUploaded` for one part |
| `Download` | file_downloader, download_segment_task, write_segment_task, file_decompressor, HEAD and GET, other clients | done, safety proved |
| `ConnPool` | conn_context and its users | done, proved |
| `Trees` | local_dir and s3_directory, merging, the pages of a listing and its markers | done, proved |
| `Sync` | `create_schedule`, listing tasks, the plans of uploads, downloads and deletions, publish, du, rm, and how a command ends | done, safety proved |

A transfer is a single step of `Sync`; what happens inside it is the subject of `Upload` and
`Download`, which show that it either has its whole effect or is reported as failed, but for
findings 2 and 3 and for answers that pass for success (section 5): an upload may be reported as done
though nothing was stored, which is the step `MoveLost` of `Sync`.

Every safety and action property that a passing run checks is also a theorem, two of them in
the cases in which they are true (section 6). That `Agenda` implements `Bodies` is not planned: `Bodies` remembers which tasks failed and how many tries each one took, which the
executor forgets when a task object is gone, so a refinement would need history variables
added to `Agenda`; the order of the queue and the tasks' exclusiveness, which the
transfers rely on, is what `Refinement` proves of `WorkPool`.

## 3. How the models correspond to the code

`PROJECT.json` ("map") names the lines of every definition.

**Agenda.** Everything under `m_` is one action: `Claim`, `WaitForWork` and `Leave` are the
three ways out of one round of `claim_task`; `schedule`, `cleanup` and
`DropSegment` (the deleter of a segment) are the other critical sections. A thread is at
`claiming`, `waiting` (on `condition_`), `running` (in a body) or
`dropping` (the task object has been counted as done, its segments are
being released). `notify_one` wakes one arbitrary waiter, and a wait may end without cause
(`WakeUp`), as the condition variable allows; no property relies on that it does. A body is abstract: it schedules its
children, in any order with other steps, and then ends well, warns or fails. `order`
stands for the position in the deques. `get_segments` is part of
`Claim`, for it runs before the mutex is released.

**WorkPool / Bodies.** The executor without queue, classes and budget. `Upload` and `Download`
take it through `INSTANCE` and add the bodies; each body is several actions, cut
where it takes or releases a mutex, sends a request or schedules a task. Any number
of bodies may be under way at once: this allows every interleaving the executor
allows, and the class limits only remove some.

**Upload.** `store` is the bucket: uploads begun, the one still open, parts
stored, the object, and `unheeded`, the parts for whose task S3 has answered with a status below 400
without doing what it was asked: `check_for_errors` takes a redirection for success
(`connection.cpp:108`), and `complete_multipart` does not read an answer of 200 that holds
an `<Error>` document. A part whose PUT was answered so is at `"blank"`, for it has no etag. A request may
also fail before or after S3 acted on it, so answers are lost. `Initiate` is the section of
`part_upload_task` under the content's mutex; it may also end fatally after the store began an upload, as the
request for the list of uploads can be refused. `Put` is `upload_data` with its `check_part`, `Count` is the
section that counts and, for the last part, calls `complete_multipart` *before* its body can be retried.
`on_complete` reads the number of pending blocks after the lock is gone
(`compressor.cpp:192`), which is the step of a block at `"pending"`. `gen` tells apart
the uploads that two blocks may start. The numbers of blocks, parts and pumps, and which pump
reads which part, come from the sizes of the file and of a segment by the operators of
`Partition`, as in `file_compressor` and `start_upload`.

**Download.** The versions of the object are numbered in the order in which they are stored; each has
a size and a modification time of its own (`Size`, `Time`). The time need not grow, for
es3 itself stores a file with an older time whenever it differs from that of the object, and is 0 if the
object has none: such an object is fetched every time. Contents are sequences of pieces, one per segment, each remembering the
version it came from, so a mixed file is visible. `seen` is the version HEAD told of, or 0 when HEAD
was answered with an error other than 404, which `find_mtime_and_size` takes for an object
without time, as long as the answer says it is (`HeadErrors` are the runs in which that may happen);
the ranged reads go on from there. `Satisfiable` says
when the range computed from the size HEAD told still lies in the object there is by
now, and a local file is up to date only if size and time agree. `RemoteChanges` is anyone else who stores
or removes the object, between any two requests. `temp_exists` is the name of the
temporary file on disk; `Forget` is the destructor of the shared content.

**ConnPool.** `get_curl` is one of `Reuse`, `Create` and `Renew`; a freed address may be
returned by `curl_easy_init` again, which may also return none (`InitFails`); the handle that was to be
renewed is freed by then. `taint` is `check_for_errors` finding an HTTP error, and `tainted` are the
handles it was called for. A HEAD answered with an error is not among them:
`find_mtime_and_size` reads the status itself, and ends here with `release_curl` like a request that went well.
`AskErrorBuffer` and `err_buf_for` are a request curl itself failed:
the map is read without a lock, so the look-up has a begin and an end.
`check_part` sends its request while the handle of the upload is still
held, hence two handles per thread, both for the same bucket.

**Trees.** A path is the sequence of its names below the directory that is synchronised; a name is
a number, its place in the order of names, starting with 1. A directory of the
bucket is a common prefix of keys and exists as long as they do. `Page` is one answer of
S3, in its order; `Markers` is what `list_files_shallow` may send next, the name in the last
node, where keys and prefixes stand in two groups of either order.

**Sync.** The constant `World` is a set of command lines with the trees they find. A
listing task is a pair of root and directory: it reads pages (`ReadPage`), ends and schedules its
subdirectories (`FinishListing`), or fails (`ListingFails`), after which its next try begins with
the first page but with what is already in the tree, except that `prepare_remote_list` makes
a new tree. `ListingCut` is the silent end of the loop: an answer below 400 without the elements
of a listing counts as the last page (`connection.cpp:353`), and the directory is at `"cut"`; it goes on
like one that is done (`EndListing`). In the same way `MoveLost` ends a put, a deletion or a publication that S3 did
not carry out, and puts it into `lost`; `silent` bounds both. `have` are the roots whose tree has been added to `remote_lists`. Since only
whether `num_failed_` is zero is ever asked, `failing` is a Boolean; it is never reset, as in
the code, where `run()` adds up the failures of all runs. Sync and rm list in the agenda;
du and publish list the roots in the thread of the command (`NextRoot`), where a failure
ends it. The procedures that make the plan recurse over both trees at once; `Uploads`, `Deletions`,
`Entered`, `Downloads` and `Unseen` are the sets of what they reach, with the conditions collected
along the way. `PlanDownload` contains the changes `process_downloads` makes to the disk while
it plans; the order of directories within it is left open, so `MkdirFails` lets any part of the
tree that is closed under its parents have been made. Transfers leave the queue in any
order, and each may fail before or after its effect. A null pointer where no root could be
listed is the end `"crash"`.

## 4. Runs

| Run | Instance | What it shows |
|---|---|---|
| `agenda_transfer` | 3 workers, one per class; uploader, two pumps (2 and 1 of 2 segments), three parts; two tries, two runs | counters agree with threads, budget and limits kept, no task twice, nobody leaves early, no deadlock, ownership of segments, `run()` finishes all, `WorkPool` implemented |
| `agenda_live` | uploader that schedules two pumps and a CPU bound task, a part; fairness | a sleeping worker is never alone; without segments it never sleeps beside a task it could run; `run()` returns |
| `agenda_unbound` | violation | unbound tasks do not borrow idle threads (finding) |
| `upload_plain` | a file of 5 bytes in 3 parts of 2 at most, 2 pumps, 2 tries | etags are of stored parts; unless S3 gave an answer below 400 without doing what it was asked, completion only with all parts, and a run without failures that counted no part again has uploaded the file; uploads left open only by tries that ended with an error |
| `upload_packed` | 4 bytes compressed to 2: 2 blocks, 1 part, 2 tries; fairness | no failure means the file is there, unless S3 gave such an answer; temporary files live as long as needed and no longer, even if the upload is started twice; `run()` returns |
| `upload_retried` | violation | a retried completion never completes (finding) |
| `upload_twice` | violation: 2 blocks, 2 parts | an upload started twice is completed with parts missing (finding) |
| `download` | 2 versions, 3 and 4 bytes in 2 segments each, the second compressed and with an earlier time, 2 tries, two runs, the first with a directory in the way and a HEAD that may be answered with an error; fairness | a stale or mixed file never looks up to date, unless an earlier version had the same time; the target is replaced once, whole; success means downloaded; temporary files are gone; `run()` returns |
| `conn_pool` | 2 threads, 2 buckets, 5 addresses, reuse limit 3 | each handle in one place, books agree, uses and pool bounded, tainted handles retired |
| `conn_pool_race` | violation | the unlocked look-up may find nothing (finding) |
| `sync` | all five commands on the worlds of `MCSync`; fairness | trees are complete unless a directory failed or was cut short; success means both sides agree; -D deletes only what is missing; nothing else is deleted; rm keeps what it must; no two queued transfers concern the same path; the command ends. The exceptions are listed below the table |
| `sync_partial` | violation: a download with -D, three failures | files are deleted that exist in the bucket (finding) |

*Exceptions.* Some properties of `sync` name cases in which the code does not keep them; each stands in the
definition, and section 5 tells what the code does there.

| Property | Does not hold for |
|---|---|
| `ListingComplete` | a run of the listing in which a directory failed or was cut short (`Partial`) |
| `SuccessMeansDone` | a listing that was cut short (`Cut`); requests in `lost`; an upload without -D where the key is below another or a directory of keys; with -D, a file that was fetched into a directory which then gave way to a key; with -D, keys below a key that is in the place of a local directory, and what local files that are not uploaded protect |
| `DeletesOnlyMissing` | keys of local files with a space in the name; for downloads, a partial listing and keys that are directories of keys too, or below one (`Clashes`) |
| `TransfersAreApart` | a key that replaces a local directory, and the keys below it (`Replaces`) |

Keys that clash are exercised by the worlds `Clashing` and by all pairs of trees, names with a space by
`Sources` and `Spaces`, the answers that pass for success by `Silent`.

*Bounds and why they are enough.* Two segments are the least for which one task can hold
what another waits for; with six tasks the three size buckets 0, 1, 2 occur, so
the two scanned ones leave one out. Three parts over two pumps give one pump that ends
before the other begins. Two tries show everything a retry can break, a third adds
nothing but length; ten is the number in the code. The compressed file of
`upload_packed` has one part, because with two the finding of `upload_twice` breaks
the promises; what several parts do is in `upload_plain`. Two versions with the same number of
segments give mixtures of old and new; as the second is longer, the last range of either
is short, or cut off, in the other; its time is earlier, as after the restoration of an old file.
A third version that has the time of the first would only reach what `TimeIsNew` excepts. An error of
HEAD in the first run leaves the second one to find what it did. The worlds of `MCSync` are, without failures, every pair of
local tree and bucket on three paths, once with two levels and once with three, with and without
-D and with one path rejected by the patterns, and every bucket of four keys for
the other commands; and, chosen by hand, trees with failures and changes by others, listings
of two pages whose first ends with a key or a prefix (`PageSize` 2), three failed listings, two
roots that share a directory, a file or collide, two sources, names with spaces, up to two requests that S3 passes over in silence
(`MaxSilent`), and keys that are names of directories too, with a failure.
Three failures spoil all `MAX_LISTINGS` runs of the listing; others change the bucket only until
the plan is made: of later changes the command cannot know, and `SuccessMeansDone`
compares both sides as it leaves them. Five addresses are one more than two
threads can hold for one bucket, so `PoolIsBounded` could fail; a reuse limit of 3 lets a
handle be used again exactly once before it is renewed. `MaxRuns`,
`MaxAttempts`, `NumRuns`, `NumVersions`, `Handle`, `MaxHeld`, `HeadErrors`, `MaxFaults`, `MaxSilent` and `MaxChanges` are the only bounds on
behaviour. Symmetry is used for threads, handles and buckets in safety runs only.

*Deadlock* is checked in all runs of `Upload`, `Download` and `Sync`. It is switched off for
`Agenda`, which stops after `MaxRuns` runs (`NeverStuck` states freedom from
deadlock), and for `ConnPool`, where a null error buffer ends the process.

*Fairness.* `agenda_live`: weak fairness of every worker's next step, of the progress
thread and of the join; the operating system schedules every thread, and bodies
end because every request has a time-out in curl and every loop in a
body is finite (for the exception see `uploader.cpp:210` in the hazards). No fairness of
`notify_one`'s choice is assumed. `upload_packed` and `download`: weak fairness of each
task's start and of each body, which `Agenda` provides. `sync`: weak fairness of the command,
that is, of its own thread and of the crew together. Nothing is assumed of other
clients of the store, nor that any request ever succeeds.

## 5. Findings

1. `agenda.cpp:129`: unbound tasks do not borrow threads from other classes although the
   comment announces it (`agenda_unbound`).
2. `uploader.cpp:123`: when `complete_multipart` ends with a warning, the retry counts the
   part again, the test for equality is passed over, and the run reports success
   without an object (`upload_retried`).
3. `compressor.cpp:192`: two blocks may both find themselves last and start the
   upload twice; parts of both are counted together and the upload is completed with
   etags missing (`upload_twice`).
4. `context.h:60`: the map of error buffers is read without the mutex
   (`conn_pool_race`).
5. `sync.cpp:319`: after three listings with failures the plan is made from an incomplete tree,
   in which a directory that could not be listed counts as empty; a download with -D deletes the
   local files below it (`sync_partial`).

Seen while modelling, and without a run of their own. Most are steps of the models, where a property
excepts them by name; the others are hazards:

- `connection.cpp:108`: `check_for_errors` takes every status below 400 for success. A PUT of a
  single part or a DELETE answered with a redirection is reported as done and was not
  (`Unheeded` in `Upload`, `MoveLost` in `Sync`).
- `connection.cpp:709`: `complete_multipart` never reads the answer. S3 may answer a completion that
  fails late with 200 and an `<Error>` document; all tasks then succeed without an object (`complete_multipart`).
- `connection.cpp:353`: an answer without `ListBucketResult` or `IsTruncated`, such as the document of a
  redirection, ends the listing of a directory as if it were complete (`ListingCut`). With -D a download then deletes
  local files whose keys do exist, without any failure.
- `sync.cpp:484`: with keys `a` and `a/b`, a local directory `a` and -D, the download of `a`, which removes the
  directory, and that of `a/b` are queued together. Whatever their order, they do not both last: `a/b` fails if `a` is
  a file by then, and if it came first its file is removed again and the command reports success (`Replaces`).
- `connection.cpp:481`: a HEAD answered with an error other than 404 counts as an object that was found. A download
  then takes the length of the answer for that of the object and may end in success with a part of it (`seen` = 0);
  an upload goes on as if the object differed. The handle of that request is lent again untainted.
- `uploader.cpp:263`, `downloader.cpp:218`: a local file is up to date if time and size agree, and an upload restores older
  times too. A local mixture of an earlier version with that time and a later one may pass for up to date; the
  premise `TimeIsNew` of `StaleNeverLooksFresh` is where this is left out.
- `sync.cpp:453`: keys and local files whose names are unseen on the other side are deleted
  without asking the include and exclude patterns; those in unseen directories are asked.
- `connection.cpp:307`: the limit on concurrent LIST requests is counted per connection
  object, of which every task has its own, so it limits nothing.
- `sync.cpp:676`: a retry of `print_subdir_task` schedules its subdirectories again.
- `commands.cpp:146`: the retry loops of `do_rsync` and `do_rm` never go round: they return when
  there are failures, and when there are none no task is left. As `run()` returns the failures
  of all runs so far, a sync whose listing failed once reports failure even if the
  listing was repeated with success and everything was transferred.
- `sync.cpp:316`: if no root was listed at all the plan dereferences a null pointer.
- `sync.cpp:64`: local names with a space are skipped, so that with -D their keys
  count as missing and are deleted.
- `pattern_match.hpp:44`: a range in a character class leaves out its last character.
- `agenda.cpp:160`: a claim that takes the last task with one number of segments lets
  `claim_task` see the tasks with another, but wakes nobody for them. With tasks of several
  requirements in the queue a worker may therefore sleep beside a task it could run until some
  body ends. Nothing in the repository promises more; `NoLostWakeup` is stated for
  agendas in which nobody asks for segments, and `NeverAllAsleep` for all.

## 6. Proofs

`AgendaProofs` proves, for every crew, limits, task tree, number of segments, tries and runs
that satisfy the named assumptions of `Agenda`:

- `TypeCorrect`, `CountersAreRight`, `BudgetIsKept`, `TasksAreExclusive`, `Termination`,
  `SegmentsAreOwned`: the conjuncts of the inductive invariant `IInv`;
- `NoDeadlock`: `NeverStuck`, with the reason why two buckets suffice;
- `RunIsComplete`: what holds when `run()` returns;
- `NobodyOversleeps`: `NoLostWakeup`, from an invariant of its own;
- `Refinement`: `Spec => Pool!Spec`, the executor implements `WorkPool`.

The argument. None of the six properties is inductive alone. That `segments_in_flight_` never
exceeds the budget needs it to be the number of segments that have an owner
(`Accounting`), which needs to know when an owner set becomes empty, that
is, who owns a segment: the task it was allocated for or the one it was handed to,
as long as the object lives (`Ownership`). That a segment of a running
task is still its own, so that handing it on is not a resurrection, needs that no second
worker runs the same object (`OneExecutor`). A worker leaves
for good only if `num_working_` is really the number of running bodies. `IInv` is
therefore their conjunction; it is preserved by every action, one lemma per
conjunct and action group, with the cardinality lemmas stated once. `NeverStuck` follows from
`IInv`: with no body running and no object being released every class has room and all
segments are free, and the smallest non-empty bucket is
scanned. `NobodyOversleeps` rests on `WakeInv`: nobody sleeps once the queue is empty and no body
runs, and, as long as no task has asked for segments, a sleeper means that there are at least
as many workers on their way to `claim_task` as there are tasks it could hand out, counted
over the three classes as the smaller of the tasks queued and the places free
(`Open <= Cardinality(Awake)`). Each action moves the two sides together: `schedule` adds one task
and wakes one sleeper, `cleanup` frees one place and its own worker goes to look, a claim takes one from both
sides, and a worker falls asleep only when nothing is open. That the last of them is
not left asleep is `NeverStuck` again. `Refinement` maps pending, active and finished to the queue, the running
bodies and the rest.

Assumptions: at least one thread per class and as many threads as places
(`agenda::agenda`, `main.cpp:300`), no task asks for more segments than exist, and a task that
receives a segment asks for none itself.

`ConnPoolProofs` proves, for any threads, buckets, addresses and limits that satisfy
`PoolAssumption`:

- `TypeCorrect`, `HandlesHaveOnePlace`, `BooksAgree`, `UseStaysBounded`: the conjuncts of the
  inductive invariant `IInv`;
- `TaintedStaysRetired`: no step lends a handle for which `taint` was called (which is not so for the HTTP error of a
  HEAD, section 5);
- `PoolStaysBounded`: `PoolIsBounded`, from a bound on what all threads hold and from the order
  of `get_curl`, which makes a handle only when none is idle under the key.

The argument. A handle is lent from the top of a stack or made anew; the lemmas `Appended`
and `Shortened` say what that does to a sequence without repetitions, `PopOne`, `LendOne` and
`LendPlaces` what it does to the places of all handles. `Books` needs `OnePlace`: when
`Renew` or `reset` frees a handle its entries are erased, which is right only if nobody else
holds it. `OnePlace` needs `Books` in turn: `release_curl` puts a handle on the stack of the
key it is entered as borrowed for, and would lose it if there were no entry. `UseIsBounded` speaks of the uses since the handle was made and holds
because the maps of the pool never lag behind them, not even when an
address is used again. `TaintedIsRetired` follows since `taint` puts the count
over the limit, only the freeing of the handle resets it, and `Reuse` compares it with the limit.

`PartitionProofs` proves, for files, blocks and segments of every size: pieces are neither empty nor
too long and end inside the file (`PiecesFit`), no byte is in two (`PiecesAreApart`), every
byte is in one (`PiecesCover`); a pump asks for at least one segment and for at most half
of those in flight, but for none if only one may be in flight, where `start_upload` would
not get on (`PumpsAreSmall`); every block but the last, which may have a single byte, has at least `MINIMAL_BLOCK`
bytes, and the number of blocks exceeds the capability by one at most, if the capability is not above
`MINIMAL_BLOCK` (`BlocksAreFew`). All rest on `Offsets`, where the
pieces begin, and that on division with remainder. Integers are unbounded there: sizes are
`uint64_t` in the code and no sum exceeds the size of the file by more than one piece.

`SyncProofs`, `ListingProofs` and `PlanProofs` prove about `Sync`, for any finite set of
paths, roots, page size, tries, failures, changes by others and worlds that satisfy the
named assumptions:

- `TypeCorrect`: the types, from the invariant `TypeInv`, which adds that a command lists and
  transfers only below its own roots;
- `NothingIsLost`: `NothingElseIsLost`, since nothing that deletes is queued without -D;
- `TreesAreComplete`: `ListingComplete`, for listings that read every directory to its end;
- `RmKeepsTheRest`: `RmIsCareful`;
- `TransfersKeepApart`: `TransfersAreApart`, but for a key that replaces a local directory and the keys below it;
- `OnlyMissingGoes`: `DeletesOnlyMissing`, but for names with a space and, in downloads, for partial listings and
  keys that clash;
- `SuccessIsNoLie`: `SuccessMeansDone`, for listings that were not cut short and but for requests S3 passed over in
  silence; the exceptions for keys that clash are in the table of section 4.

No trees, keys or answers are excluded by a premise of the model: what the exceptions name is in it.

The argument. `SyncProofs` begins with the facts on prefixes and pages: the marker grows with each page, and
an entry below it that was there all the time has been in some page, whatever was stored
or deleted between two requests. `ListInv` carries this through the listing: a task that is
reading has entered everything below its marker, one that is done everything in its
directory, and every directory it entered has a task of its own. `ListingComplete` follows by
induction along the path of a key (`PathInduction`, itself proved with a least
counterexample): the task of each directory on it is done, since that of the directory
above scheduled it. A directory that was cut short has no such claim, and the theorem says
nothing of a listing with one. The first three
theorems of `PlanProofs` begin at the plan: they show each conjunct of the sets of the plan
to imply the property when the queue is filled, and that later steps only take from the queue.
`DeletesOnlyMissing` needs `ListingComplete` for downloads, as only a complete tree tells what
is missing; finding 5 and the listing that is cut short are where that hypothesis ends.

`SuccessIsNoLie` is the other direction: not that nothing too much is done, but that nothing is
left out. A command that ends well has never had a failure (`EndInv`), and a directory that was
left out counts as one unless it was cut short, which is excepted, so its plan was made from whole trees (`WholeTrees`). From there each verb has an
invariant that says of every path that its work is done, is queued, or is excused, and that nothing queued
undoes it: `RmWhole`, `UploadWhole`, `DownloadWhole`, `PublishWhole`. At the plan this is a matter of
the recursion over both trees: a file that is not transferred has another in its way, and a path
that the other tree lacks has a first directory that it lacks (`FirstOutside`), where the
recursion stops and orders the deletion of everything below. A transfer then carries its path from
queued to done, or to `lost`. That it takes nothing away from another one is `TransfersAreApart` for a download, where a file
fetched into a directory that gives way to a key is the excuse of `DownloadWhole`, and, for an
upload, that no key with a local file is ever queued for deletion (`KeepUploads`, from
`OnlyMissingGoes`). `PublishWhole` also counts, and so needs each file to be queued once: a
directory is listed after the one it is in and only once (`ParentsFirst`).

`UploadProofs` proves, for files, blocks and segments of every size, any capabilities and tries that
satisfy `UploadAssumption`:

- `TypeCorrect`; `EtagsBelongToParts`: `EtagsAreStored`; `OrphansAreBounded`:
  `OrphansComeFromRetries`; `PumpsFindTheirFiles`: `FilesOutlivePumps`; `TemporaryFilesAreRemoved`:
  `ScratchCleaned`;
- `LostOnlyByRecountOrAnswer`: `UploadedWhenCountedOnce`, a run without failures has uploaded the file unless
  more parts were counted than there are, or S3 gave an answer below 400 without doing what it was asked;
- `CountsAllParts`: `CompletedHasAllParts` as long as one block started the upload, and
  `PlainCountsAllParts`: without that condition for files that are not compressed;
- `OnePartIsUploaded`: `SuccessMeansUploaded` for files of one part.

`CompletedHasAllParts` and `SuccessMeansUploaded` have the premise that there was no such answer (`unheeded = {}`).
Beside that the last two are as much as is true: with two starters `CompletedHasAllParts` fails (finding 3), and with
two parts `SuccessMeansUploaded` does (finding 2); the runs check both on an instance
where they hold.

The argument. `Exec` says where the task objects are, in the terms of `Bodies`, and one lemma per
operation of `Bodies` what it does to that. The rest of `Inv` has two halves. `Asked` follows a part: what it
sends belongs to an upload that was begun, and once it is to be counted the store has it. `Counting`
compares the count with the set of parts that ended well: until it is complete both agree, a
retry only makes the count larger, and when the two agree at the end the object is there,
a part failed, or an answer was not what it seemed. `Blocks`, `Files` and `Handing` follow the file: `num_pending_` is the
number of blocks not recorded, whoever finds it zero starts the upload or has started it,
recorded files stay as long as a holder of the `scattered_files` is alive, and a task that
ended well has scheduled all its children. So, if nothing failed, every part has been scheduled
and counted, and the number of parts, a finite set, settles the rest. `OrphansComeFromRetries`
is inductive beside these: a part that begins an upload after a lost answer has left a try that
ended with an error.

`DownloadProofs` proves, for any number of runs, versions, sizes and tries that satisfy
`DownloadAssumption`: `TypeCorrect`; `StaleFilesAreFetched`: `StaleNeverLooksFresh`, as long as no earlier version had the time of the current
one (`TimeIsNew`);
`SuccessIsWhole`: `SuccessMeansDownloaded`; `TemporaryFileIsOwned`: `TempCleaned`; and
`ReplacementIsWhole`: the action property `ReplacedWhole`.

The argument. `Chain` follows one segment from its task to memory, to the temporary file and to the
count. Pieces are never older than the version HEAD saw nor newer than what the bucket has
(`Pieces`, `TargetInv`); a file that passes for up to date has the time of the current
version, which was never the time of another one before, so HEAD saw that version and all pieces are of it. `Counting` makes `segments_read_` the
number of segments written and counted, so the write that finds it complete has all of them
behind it and is the only one to do so: there is one decompressor at most, and
`delete_temp_file_` says whether it has taken the temporary file over (`Temporary`). `Replaced` holds
from then on: the file is in place, or its decompressor is still alive, or the run has
a failure.

The inductive invariants of `Upload` and `Download`, `WakeInv` of the executor and the
invariants of `SuccessIsNoLie` were checked with TLC on small instances before they were proved.

Only model-checked: `CompletedHasAllParts` and `SuccessMeansUploaded` beyond the cases above, on the
instances of the runs; liveness (`RunReturns`, `UploadReturns`, `DownloadReturns`,
`CommandEnds`), since neither fairness nor ENABLED is within the prover's reach.

## 7. Not modelled, and assumptions

- Statistics, progress line, `print_queue`, logging, option parsing, signing of requests,
  XML, the table of MIME types.
- The copying of bytes inside `file_pump` and zlib: sizes and offsets are in `Partition`, the bytes
  themselves are not modelled. Files with more than `MAX_PART_NUM` parts or
  `MAX_SEGMENTS` segments, which end in an error.
- `ls`, `lsr`, `test`, `touch` and `mass_rm`: sequences of requests that keep no state, or
  only print.
- `base64.cpp` and `pattern_match.hpp`: third-party functions on strings. `Sync` takes the set of
  paths the patterns reject as part of a world, whatever the patterns are.
- An upload target or a path of rm without a trailing slash, which lists by prefix, and keys
  that end with a slash, which the listing ignores.
- Keys that are also the names of directories of other keys are in the model of `Sync`, with the transfers they make
  clash; `SuccessMeansDone`, `DeletesOnlyMissing` and `TransfersAreApart` except them as the table of section 4 says.
- The file the decompressor writes beside the target until it renames it.
- `err(errWarn) << ...` is taken to throw in its destructor, as the code intends.
- Assertions are compiled out, as in the release build, where a model goes on after them.
- At least two segments may be in flight (`UploadAssumption`); with one,
  `start_upload` divides the work into empty pumps for ever (see the hazards).
- Answers below 400 that mean no success are in the models for PUT, completion, DELETE, ACL requests and
  listings. Those to the requests that begin an upload or look for a part have no id or part in them, on which the
  code warns, as modelled. A ranged read answered so is taken to have another length than was asked for, on
  which the code warns too; the document of a redirection that has this very length would be taken for the segment.
- Nobody writes to the local file while it is transferred.
