------------------------------ MODULE Download ------------------------------
(***************************************************************************)
(* The download of one object: file_downloader, download_segment_task and  *)
(* write_segment_task (es3/downloader.cpp), file_decompressor              *)
(* (es3/compressor.cpp), and the HEAD and GET requests they send           *)
(* (es3/connection.cpp), while others replace or remove the object.        *)
(*                                                                         *)
(* The command may repeat the download: run r has tasks and a              *)
(* download_content of its own, and one run is over before the next one    *)
(* starts.  Contents are counted in segments.  Versions of the object are  *)
(* numbered in the order they are stored; the modification time a version  *)
(* carries is whatever its uploader said: it may be that of an older one,  *)
(* earlier than that, or missing.                                          *)
(***************************************************************************)
EXTENDS Partition, FiniteSets

CONSTANTS
  NoTask,      \* the caller of run()
  NumRuns,     \* how often the command downloads the object
  NumVersions, \* bound on the versions of the object
  MAX_SEGMENTS,
  Size,        \* bytes of each version of the object
  Time,        \* its x-amz-meta-last-modified, 0 when it carries none
  segment_size,
  Compressed,  \* the versions that carry x-amz-meta-compressed
  DeleteDir,   \* the runs with delete_dir_: a directory was in the way
  HeadErrors,  \* the runs whose HEAD may be answered by an error that is not heeded
  MaxAttempts  \* tries of a task (10 in the code)

Version == 1..NumVersions
Seg == 1..MAX_SEGMENTS
Segs == [v \in Version |-> number_of_segments(Size[v], segment_size)]
Runs == 1..NumRuns

ASSUME DownloadAssumption ==
  /\ NumRuns \in Nat \ {0}
  /\ NumVersions \in Nat \ {0}
  /\ MAX_SEGMENTS \in Nat \ {0}
  /\ segment_size \in Nat \ {0}
  /\ Size \in [Version -> Nat]
  /\ Time \in [Version -> Nat]
  /\ \A v \in Version : Segs[v] <= MAX_SEGMENTS
  /\ Compressed \subseteq Version
  /\ DeleteDir \subseteq Runs
  /\ HeadErrors \subseteq Runs
  /\ MaxAttempts \in Nat \ {0}

Downloader(r) == [kind |-> "downloader", run |-> r, num |-> 0]
Segment(r, n) == [kind |-> "segment", run |-> r, num |-> n]
Write(r, n) == [kind |-> "write", run |-> r, num |-> n]
Decompressor(r, n) == [kind |-> "decompressor", run |-> r, num |-> n]

Task == [kind : {"downloader"}, run : Runs, num : {0}]
          \cup [kind : {"segment", "write", "decompressor"}, run : Runs, num : Seg]

\* The decompressor is scheduled by the write that finds itself the last one.
Parent ==
  [t \in Task |-> CASE t.kind = "downloader" -> NoTask
                    [] t.kind = "segment" -> Downloader(t.run)
                    [] t.kind = "write" -> Segment(t.run, t.num)
                    [] t.kind = "decompressor" -> Write(t.run, t.num)]

VARIABLES
  pending, active, finished, main,  \* the executor, as in Bodies
  failed, attempt, pc,
  round,          \* the run that is under way, or was last
  seen,           \* download_content: the version whose mtime_ and sizes HEAD
                  \* found, 0 when they are those of an error answer
  num_segments_,  \* download_content
  segments_read_, \* download_content: segments counted as written
  delete_temp_file_,  \* download_content
  memory,         \* the version of the segment a task has in memory
  temp,           \* the temporary file: version of each segment, 0 is a hole
  temp_exists,    \* whether it has a name on the disk
  target,         \* the local file: mtime and the version of each segment
  remote,         \* object store: the version of the object stored last
  removed         \* object store: the object has been deleted

exec == <<pending, active, finished, main, failed, attempt, pc>>
content == <<seen, num_segments_, segments_read_, delete_temp_file_>>
store == <<remote, removed>>
local == <<temp, temp_exists, target>>
vars == <<exec, round, content, memory, local, store>>

Body == INSTANCE Bodies

\* The pieces of a file are a function on an initial part of Seg; no file at all
\* has time 0 and no pieces.  Of a compressed version the size is that of the
\* file it unpacks to, which is told apart by the version just as well.
Absent == [mtime |-> 0, size |-> 0, pieces |-> <<>>]
Whole(v) == [mtime |-> Time[v], size |-> Size[v], pieces |-> [n \in 1..Segs[v] |-> v]]

TypeOK ==
  /\ pending \subseteq Task /\ active \subseteq Task /\ finished \subseteq Task
  /\ main \in {"idle", "joining"}
  /\ failed \subseteq finished
  /\ attempt \in [Task -> 0..MaxAttempts]
  /\ pc \in [Task -> {"none", "entry", "spawning"}]
  /\ round \in 0..NumRuns
  /\ seen \in Version \cup {0}
  /\ num_segments_ \in Seg \cup {0}
  /\ segments_read_ \in 0..num_segments_
  /\ memory \in [Seg -> Version \cup {0}]
  /\ temp \in [Seg -> Version \cup {0}]
  /\ temp_exists \in BOOLEAN
  /\ target.mtime \in Nat /\ target.size \in Nat
  /\ \E k \in Seg \cup {0} : target.pieces \in [1..k -> Version \cup {0}]
  /\ remote \in Version
  /\ removed \in BOOLEAN
  /\ delete_temp_file_ \in BOOLEAN

\* The local file is missing or was downloaded before.
Init ==
  /\ Body!InitBodies
  /\ round = 0
  /\ seen = 0 /\ num_segments_ = 0 /\ segments_read_ = 0
  /\ delete_temp_file_ = TRUE
  /\ memory = [n \in Seg |-> 0]
  /\ temp = [n \in Seg |-> 0] /\ temp_exists = FALSE
  /\ target \in {Absent, Whole(1)}
  /\ remote = 1 /\ removed = FALSE

-----------------------------------------------------------------------------
Start(t) ==
  /\ Body!Enter(t)
  /\ UNCHANGED <<round, content, memory, local, store>>

\* What makes a local file count as up to date: modification time and size.  An
\* object without a time is fetched every time.
LooksUpToDate ==
  /\ ~removed /\ Time[remote] # 0
  /\ target.mtime = Time[remote]
  /\ target.size = Size[remote]

\* The temporary file is removed with the download_content, which the segment
\* and write tasks share, unless a decompressor has taken it over.
Users(r) == {t \in Task : t.run = r /\ t.kind # "decompressor"}

\* Mutant: only the tasks that are being executed keep the file.
Forget_ActiveOnly(r) ==
  temp_exists' = (temp_exists /\ (delete_temp_file_ => active' \cap Users(r) # {}))

Forget(r) ==
  temp_exists' = (temp_exists /\
    (delete_temp_file_ => (pending' \cup active') \cap Users(r) # {}))

\* file_downloader::operator() with nothing to do.
SkipDownload(r) ==
  /\ pc[Downloader(r)] = "entry"
  /\ LooksUpToDate /\ r \notin DeleteDir
  /\ Body!End(Downloader(r), TRUE)
  /\ UNCHANGED <<round, content, memory, local, store>>

\* Whatever is in the way goes first, before the object is even looked up: the
\* directory that was found there, or a file somebody put in its place.
Cleared(r) == IF r \in DeleteDir THEN Absent ELSE target

\* Mutant: the temporary file takes the name of the target.
BeginDownload_InPlace(r) ==
  /\ pc[Downloader(r)] = "entry"
  /\ ~removed /\ ~LooksUpToDate
  /\ seen' = remote /\ num_segments_' = Segs[remote]
  /\ segments_read_' = 0 /\ delete_temp_file_' = TRUE
  /\ temp' = [n \in Seg |-> 0] /\ temp_exists' = TRUE
  /\ target' = [Whole(remote) EXCEPT !.pieces = [n \in 1..Segs[remote] |-> 0]]
  /\ Body!Goto(Downloader(r), "spawning")
  /\ UNCHANGED <<round, memory, store>>

\* The object is looked up and the temporary file created.  An error status
\* other than 404 reads as an object without time, uncompressed and as long as
\* the answer says it is.
BeginDownload(r) ==
  /\ pc[Downloader(r)] = "entry"
  /\ \/ /\ ~removed /\ (r \in DeleteDir \/ ~LooksUpToDate)
        /\ seen' = remote /\ num_segments_' = Segs[remote]
     \/ r \in HeadErrors /\ seen' = 0 /\ num_segments_' \in Seg
  /\ segments_read_' = 0 /\ delete_temp_file_' = TRUE
  /\ target' = Cleared(r)
  /\ temp' = [n \in Seg |-> 0] /\ temp_exists' = TRUE
  /\ Body!Goto(Downloader(r), "spawning")
  /\ UNCHANGED <<round, memory, store>>

\* No answer (warning), no such object, or no temporary file (fatal).
DownloaderFails(r) ==
  /\ pc[Downloader(r)] = "entry"
  /\ Body!Warn(Downloader(r)) \/ Body!End(Downloader(r), FALSE)
  /\ target' = Cleared(r)
  /\ UNCHANGED <<round, content, memory, temp, temp_exists, store>>

\* The loop of file_downloader schedules a task for each segment.
SpawnSegment(r, n) ==
  /\ pc[Downloader(r)] = "spawning"
  /\ n <= num_segments_
  /\ \A k \in 1..(n - 1) : Segment(r, k) \in pending \cup active \cup finished
  /\ Body!Spawn(Segment(r, n))
  /\ UNCHANGED <<round, content, memory, local, store>>

Spawned(r) ==
  /\ pc[Downloader(r)] = "spawning"
  /\ Segment(r, num_segments_) \in pending \cup active \cup finished
  /\ Body!End(Downloader(r), TRUE)
  /\ Forget(r)
  /\ UNCHANGED <<round, content, memory, temp, target, store>>

-----------------------------------------------------------------------------
\* The range of the segment, as HEAD promised it, lies in the object as it is now;
\* the range of an empty object, which ends before it begins, is that of any object,
\* and that of an error answer may lie in the object or not.
Satisfiable(n) ==
  /\ ~removed
  /\ seen # 0 =>
       /\ Piece(n, Size[seen], segment_size) \subseteq 0..(Size[remote] - 1)
       /\ Size[seen] = 0 => Size[remote] = 0

\* download_segment_task: a ranged GET must return exactly the bytes HEAD
\* promised, whatever version the object has by now.
Get(r, n) ==
  LET t == Segment(r, n) IN
  /\ pc[t] = "entry"
  /\ \/ /\ Satisfiable(n)
        /\ memory' = [memory EXCEPT ![n] = remote]
        /\ Body!Goto(t, "spawning")
        /\ UNCHANGED temp_exists
     \/ /\ Body!Warn(t) \/ Body!End(t, FALSE)
        /\ Forget(r)
        /\ UNCHANGED memory
  /\ UNCHANGED <<round, content, temp, target, store>>

\* The segment is handed to a write task.
SpawnWrite(r, n) ==
  LET t == Segment(r, n) IN
  /\ pc[t] = "spawning"
  /\ \/ /\ Body!Spawn(Write(r, n))
        /\ UNCHANGED temp_exists
     \/ /\ Write(r, n) \in pending \cup active \cup finished
        /\ Body!End(t, TRUE)
        /\ Forget(r)
  /\ UNCHANGED <<round, content, memory, temp, target, store>>

\* write_segment_task::do_write
do_write(r, n) ==
  LET t == Write(r, n) IN
  /\ pc[t] = "entry"
  /\ \/ /\ temp_exists
        /\ temp' = [temp EXCEPT ![n] = memory[n]]
        /\ Body!Goto(t, "spawning")
        /\ UNCHANGED temp_exists
     \/ /\ Body!End(t, FALSE)
        /\ Forget(r)
        /\ UNCHANGED temp
  /\ UNCHANGED <<round, content, memory, target, store>>

\* The file is complete: it gets the time HEAD found, then the name of the target.
\* (The length of an error answer is not kept: a file without time never passes
\* for up to date.)
Replace ==
  target' = [mtime |-> IF seen = 0 THEN 0 ELSE Time[seen],
             size |-> IF seen = 0 THEN 0 ELSE Size[seen],
             pieces |-> [k \in 1..num_segments_ |-> temp[k]]]

\* Mutant: the write before the last one completes the file.
Count_OneEarly(r, n) ==
  LET t == Write(r, n) IN
  /\ pc[t] = "spawning"
  /\ segments_read_' = segments_read_ + 1
  /\ IF segments_read_ + 2 >= num_segments_ THEN Replace ELSE UNCHANGED target
  /\ Body!End(t, TRUE)
  /\ Forget(r)
  /\ UNCHANGED <<round, seen, num_segments_, delete_temp_file_, memory, temp, store>>

\* Mutant: the segments are counted from zero but compared as from one.
Count_Never(r, n) ==
  LET t == Write(r, n) IN
  /\ pc[t] = "spawning"
  /\ segments_read_' = segments_read_ + 1
  /\ IF segments_read_ = num_segments_ THEN Replace ELSE UNCHANGED target
  /\ Body!End(t, TRUE)
  /\ Forget(r)
  /\ UNCHANGED <<round, seen, num_segments_, delete_temp_file_, memory, temp, store>>

\* write_segment_task under m_: the segment is counted, and the last one either
\* replaces the target or schedules the decompressor.
Count(r, n) ==
  LET t == Write(r, n)
      last == segments_read_' = num_segments_
  IN
  /\ pc[t] = "spawning"
  /\ Decompressor(r, n) \notin pending \cup active \cup finished
  /\ segments_read_' = segments_read_ + 1
  /\ \/ /\ ~last
        /\ Body!End(t, TRUE) /\ Forget(r)
        /\ UNCHANGED <<target, delete_temp_file_>>
     \/ /\ last /\ seen \notin Compressed
        /\ \/ Replace /\ temp_exists' = FALSE /\ Body!End(t, TRUE)
           \/ UNCHANGED target /\ Body!End(t, FALSE) /\ Forget(r)
        /\ UNCHANGED delete_temp_file_
     \/ /\ last /\ seen \in Compressed
        /\ Body!Spawn(Decompressor(r, n))
        /\ delete_temp_file_' = FALSE
        /\ UNCHANGED <<target, temp_exists>>
  /\ UNCHANGED <<round, seen, num_segments_, memory, temp, store>>

\* The decompressor owns the file now; the write task ends.
HandedOver(r, n) ==
  /\ pc[Write(r, n)] = "spawning"
  /\ Decompressor(r, n) \in pending \cup active \cup finished
  /\ Body!End(Write(r, n), TRUE)
  /\ UNCHANGED <<round, content, memory, local, store>>

\* file_decompressor: the file is unpacked beside the target and takes its
\* place, or it does not unpack (pieces of several versions may not).  Either
\* way the destructor removes the source.
Decompress(r, n) ==
  LET t == Decompressor(r, n) IN
  /\ pc[t] = "entry"
  /\ \/ temp_exists /\ Replace /\ Body!End(t, TRUE)
     \/ UNCHANGED target /\ Body!End(t, FALSE)
  /\ temp_exists' = FALSE
  /\ UNCHANGED <<round, content, memory, temp, store>>

-----------------------------------------------------------------------------
\* Somebody else stores the next version of the object, or removes it.
RemoteChanges ==
  /\ \/ remote + 1 \in Version /\ remote' = remote + 1 /\ removed' = FALSE
     \/ ~removed /\ removed' = TRUE /\ UNCHANGED remote
  /\ UNCHANGED <<exec, round, content, memory, local>>

\* The command schedules the download and runs the agenda; what the run before
\* kept in its tasks and its content is gone with them.
Submit ==
  /\ main = "idle" /\ round < NumRuns
  /\ round = 0 \/ Downloader(round) \in finished
  /\ round' = round + 1
  /\ Body!Schedule(Downloader(round'))
  /\ attempt' = [t \in Task |-> 0]
  /\ memory' = [n \in Seg |-> 0]
  /\ seen' = 0 /\ num_segments_' = 0 /\ segments_read_' = 0
  /\ delete_temp_file_' = TRUE
  /\ temp' = [n \in Seg |-> 0]
  /\ UNCHANGED <<failed, pc, temp_exists, target, store>>

run ==
  /\ Body!Run /\ UNCHANGED <<failed, attempt, pc>>
  /\ UNCHANGED <<round, content, memory, local, store>>

Return ==
  /\ Body!Return /\ UNCHANGED <<failed, attempt, pc>>
  /\ UNCHANGED <<round, content, memory, local, store>>

SegmentStep(r, n) ==
  \/ SpawnSegment(r, n)
  \/ Get(r, n) \/ SpawnWrite(r, n)
  \/ do_write(r, n) \/ Count(r, n) \/ HandedOver(r, n)
  \/ Decompress(r, n)

DownloaderStep(r) ==
  SkipDownload(r) \/ BeginDownload(r) \/ DownloaderFails(r) \/ Spawned(r)

Next ==
  \/ \E t \in Task : Start(t)
  \/ \E r \in Runs : DownloaderStep(r) \/ \E n \in Seg : SegmentStep(r, n)
  \/ RemoteChanges
  \/ Submit \/ run \/ Return

Spec == Init /\ [][Next]_vars

\* The executor starts what is queued and every body is a thread of its own.
Fairness ==
  /\ \A t \in Task : WF_vars(Start(t))
  /\ \A r \in Runs : WF_vars(DownloaderStep(r))
  /\ \A r \in Runs : \A n \in Seg : WF_vars(SegmentStep(r, n))
  /\ WF_vars(Return)

FairSpec == Spec /\ Fairness

-----------------------------------------------------------------------------
\* No version stored before carried the time of the current one.  The code does
\* not see to that: an upload takes the time of the local file, an older one too,
\* whenever the two differ.
TimeIsNew == \A v \in 1..(remote - 1) : Time[v] # Time[remote]

\* A local file that passes for up to date is the current object, segment by
\* segment, as long as that has a time no version before it had: a file that was
\* pieced together from several versions, or not written to the end, is fetched
\* again by the next run.
StaleNeverLooksFresh == LooksUpToDate /\ TimeIsNew => target = Whole(remote)

\* The local file changes in one step, from what it was to a file all of whose
\* segments have been written (or it is cleared away on request); so a crash at
\* any moment leaves one or the other.
ReplacedWhole ==
  [][target' # target =>
        \/ round \in DeleteDir /\ target' = Absent
        \/ /\ DOMAIN target'.pieces = 1..num_segments_
           /\ \A n \in 1..num_segments_ : target'.pieces[n] # 0]_vars

\* When run() reports no failure and the object is still the one HEAD saw, the
\* local file is that object, whatever was retried on the way.
SuccessMeansDownloaded ==
  /\ main = "idle" /\ round # 0 /\ Downloader(round) \in finished
  /\ \A t \in failed : t.run # round
  /\ ~removed /\ remote = seen
  => target = Whole(remote)

\* No temporary file outlives the run, and none is removed while a segment has
\* still to be written to it or a decompressor to read it.
TempCleaned ==
  /\ main = "idle" => ~temp_exists
  /\ \A t \in pending \cup active :
        \/ t.kind = "decompressor"
        \/ t.kind = "write" /\ pc[t] # "spawning"
        => temp_exists

\* The run comes to its end although the object changes under it.
DownloadReturns == main = "joining" ~> main = "idle"
=============================================================================
