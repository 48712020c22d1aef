------------------------------- MODULE Upload -------------------------------
(***************************************************************************)
(* The upload of one file: file_uploader, file_pump and part_upload_task   *)
(* (es3/uploader.cpp), file_compressor and compress_task                   *)
(* (es3/compressor.cpp), and the requests they send to the object store    *)
(* (es3/connection.cpp).                                                   *)
(*                                                                         *)
(* The tasks run on the executor, of which this module knows what Bodies   *)
(* says: any number of scheduled tasks may be under way at once.  The      *)
(* mutexes lock_ and m_ make one action of what they protect.              *)
(***************************************************************************)
EXTENDS Partition, FiniteSets

CONSTANTS
  NoTask,        \* the caller of run()
  Compress,      \* should_compress holds and do_compression_ is set
  FileSize,      \* bytes of the file
  PackedSize,    \* bytes of its compressed blocks
  segment_size,  \* bytes of a part
  MINIMAL_BLOCK, \* bytes a block has at least (1048576 in the code)
  CPUCapability, \* get_capability(taskCPUBound)
  IOCapability,  \* get_capability(taskIOBound)
  MaxInFlight,   \* max_in_flight()
  MaxAttempts    \* tries of a task (10 in the code)

\* start_upload makes no progress with less than two segments in flight;
\* should_compress keeps small files as they are.
ASSUME UploadAssumption ==
  /\ Compress \in BOOLEAN
  /\ FileSize \in Nat /\ PackedSize \in Nat
  /\ segment_size \in Nat \ {0} /\ MINIMAL_BLOCK \in Nat \ {0}
  /\ Compress => FileSize > MINIMAL_BLOCK
  /\ CPUCapability \in Nat \ {0} /\ IOCapability \in Nat \ {0}
  /\ MaxInFlight \in Nat \ {0, 1}
  /\ MaxAttempts \in Nat \ {0}

\* The blocks of file_compressor, the parts and pumps of start_upload.
NumBlocks ==
  IF Compress THEN NumPieces(FileSize, block_sz(FileSize, MINIMAL_BLOCK, CPUCapability)) ELSE 1
NumParts == number_of_segments(IF Compress THEN PackedSize ELSE FileSize, segment_size)
PerPump == num_per_pump(NumParts, IOCapability, MaxInFlight)
NumPumps == NumPieces(NumParts, PerPump)

\* The pump that reads a part.
PumpOf(n) == CHOOSE k \in 1..NumPumps : n - 1 \in Piece(k, NumParts, PerPump)

\* The task objects.  A compressed upload is started by the block that finds
\* itself the last one; gen names that block, 0 an upload of the plain file.
Uploader == [kind |-> "uploader", gen |-> 0, num |-> 0]
Compressor == [kind |-> "compressor", gen |-> 0, num |-> 0]
Block(b) == [kind |-> "block", gen |-> 0, num |-> b]
Pump(g, k) == [kind |-> "pump", gen |-> g, num |-> k]
Part(g, n) == [kind |-> "part", gen |-> g, num |-> n]

Parts == 1..NumParts
Gen == IF Compress THEN 1..NumBlocks ELSE {0}
PartTask == {Part(g, n) : g \in Gen, n \in Parts}
PumpTask == {Pump(g, k) : g \in Gen, k \in 1..NumPumps}
BlockTask == IF Compress THEN {Block(b) : b \in 1..NumBlocks} ELSE {}
Task == {Uploader} \cup (IF Compress THEN {Compressor} ELSE {})
          \cup BlockTask \cup PumpTask \cup PartTask

Parent ==
  [t \in Task |-> CASE t.kind = "uploader" -> NoTask
                    [] t.kind = "compressor" -> Uploader
                    [] t.kind = "block" -> Compressor
                    [] t.kind = "pump" -> IF Compress THEN Block(t.gen) ELSE Uploader
                    [] t.kind = "part" -> Pump(t.gen, PumpOf(t.num))]

VARIABLES
  pending, active, finished, main,  \* the executor, as in WorkPool
  failed,          \* the tasks num_failed_ counts
  attempt,         \* the try a task is at
  pc,              \* how far the body of a task has come
  num_pending_,    \* file_compressor: blocks to go
  scratch,         \* blocks whose temporary file is on the disk
  upload_id_,      \* upload_content: the multipart upload, 0 if there is none
  num_completed_,  \* upload_content: parts counted as uploaded
  etags_,          \* upload_content: parts whose etag is known
  initiated,       \* object store: number of multipart uploads ever begun
  open,            \* object store: those neither completed nor aborted
  stored,          \* object store: the parts upload upload_id_ has received
  object,          \* object store: "old" or "new", what the key holds
  unheeded         \* object store: the parts for whose task it has answered with a
                   \* status below 400 to a request it did not carry out

pool == <<pending, active, finished, main>>
content == <<upload_id_, num_completed_, etags_>>
store == <<initiated, open, stored, object, unheeded>>
vars == <<pool, failed, attempt, pc, num_pending_, scratch, content, store>>

Body == INSTANCE Bodies

Scheduled == pending \cup active \cup finished

TypeOK ==
  /\ pending \subseteq Task /\ active \subseteq Task /\ finished \subseteq Task
  /\ main \in {"idle", "joining"}
  /\ failed \subseteq finished
  /\ attempt \in [Task -> 0..MaxAttempts]
  /\ pc \in [Task -> {"none", "entry", "pending", "spawning", "putting", "counting", "blank"}]
  /\ num_pending_ \in Int
  /\ scratch \subseteq 1..NumBlocks
  /\ upload_id_ \in Nat
  /\ num_completed_ \in Nat
  /\ etags_ \subseteq Parts
  /\ initiated \in Nat
  /\ open \subseteq 1..initiated
  /\ stored \subseteq Parts
  /\ object \in {"old", "new"}
  /\ unheeded \subseteq Parts

Init ==
  /\ Body!InitBodies
  /\ num_pending_ = 0
  /\ scratch = {}
  /\ upload_id_ = 0 /\ num_completed_ = 0 /\ etags_ = {}
  /\ initiated = 0 /\ open = {} /\ stored = {}
  /\ object \in {"old", "new"}
  /\ unheeded = {}

-----------------------------------------------------------------------------
\* The executor takes a task and enters its body.
Start(t) ==
  /\ Body!Enter(t)
  /\ UNCHANGED <<num_pending_, scratch, content, store>>

\* The temporary files belong to a scattered_files object that the compressor,
\* its blocks and the pumps share; its last owner removes the recorded ones.
Holders == BlockTask \cup PumpTask \cup {Compressor}
Recorded == {b \in 1..NumBlocks :
               /\ Compress
               /\ \/ Block(b) \in finished \ failed
                  \/ pc[Block(b)] \in {"pending", "spawning"}}

\* Mutant: a pump that is still queued does not own the files.
Disowned_ActiveOnly(t, files) ==
  IF t \in Holders /\ active \cap Holders \subseteq {t}
    THEN files \ Recorded ELSE files

\* Mutant: files of a pump that failed are not removed.
Disowned_KeptByPump(t, files) ==
  IF t \in BlockTask /\ (pending \cup active) \cap Holders \subseteq {t}
    THEN files \ Recorded ELSE files

Disowned(t, files) ==
  IF t \in Holders /\ (pending \cup active) \cap Holders \subseteq {t}
    THEN files \ Recorded ELSE files

-----------------------------------------------------------------------------
\* file_uploader::operator(): the key is up to date, so nothing is done.  The
\* status of the HEAD request is not looked at, an error reads as "no object".
SkipUpload ==
  /\ pc[Uploader] = "entry"
  /\ object = "new"
  /\ Body!End(Uploader, TRUE)
  /\ UNCHANGED <<num_pending_, scratch, content, store>>

BeginUpload ==
  /\ pc[Uploader] = "entry"
  /\ Body!Goto(Uploader, "spawning")
  /\ UNCHANGED <<num_pending_, scratch, content, store>>

\* The file cannot be read (fatal) or the HEAD request got no answer (warning).
UploaderFails ==
  /\ pc[Uploader] = "entry"
  /\ Body!Warn(Uploader) \/ Body!End(Uploader, FALSE)
  /\ UNCHANGED <<num_pending_, scratch, content, store>>

\* file_compressor::operator() up to the loop.
BeginCompression ==
  /\ Compress /\ pc[Compressor] = "entry"
  /\ \/ Body!Goto(Compressor, "spawning") /\ num_pending_' = NumBlocks
     \/ Body!End(Compressor, FALSE) /\ UNCHANGED num_pending_
  /\ UNCHANGED <<scratch, content, store>>

\* compress_task: the block is compressed into a temporary file and on_complete
\* records it under m_; or the task dies on the way, perhaps leaving the file.
CompressBlock(b) ==
  /\ Compress /\ pc[Block(b)] = "entry"
  /\ \/ /\ scratch' = scratch \cup {b}
        /\ num_pending_' = num_pending_ - 1
        /\ Body!Goto(Block(b), "pending")
     \/ /\ \E files \in {scratch, scratch \cup {b}} :
              scratch' = Disowned(Block(b), files)
        /\ Body!End(Block(b), FALSE)
        /\ UNCHANGED num_pending_
  /\ UNCHANGED <<content, store>>

\* on_complete after m_ is released: whoever reads zero calls start_upload.
on_complete(b) ==
  /\ Compress /\ pc[Block(b)] = "pending"
  /\ \/ num_pending_ = 0 /\ Body!Goto(Block(b), "spawning") /\ UNCHANGED scratch
     \/ /\ num_pending_ # 0
        /\ Body!End(Block(b), TRUE)
        /\ scratch' = Disowned(Block(b), scratch)
  /\ UNCHANGED <<num_pending_, content, store>>

\* A task is in the loop that schedules the tasks of its next stage; the body
\* of a pump is nothing else.
InLoop(t) == pc[t] = "spawning" \/ (t \in PumpTask /\ pc[t] = "entry")

\* One turn of that loop: blocks in
\* file_compressor, pumps in start_upload, a part for each segment that
\* file_pump has read.
Spawn(t) ==
  /\ InLoop(t)
  /\ \E u \in Task \ Scheduled :
        /\ Parent[u] = t
        /\ \A v \in Task \ Scheduled : Parent[v] = t => u.num <= v.num
        /\ Body!Spawn(u)
  /\ UNCHANGED <<num_pending_, scratch, content, store>>

\* The last one is scheduled, the body returns.
Spawned(t) ==
  /\ InLoop(t)
  /\ \A u \in Task : Parent[u] = t => u \in Scheduled
  /\ Body!End(t, TRUE)
  /\ scratch' = Disowned(t, scratch)
  /\ UNCHANGED <<num_pending_, content, store>>

\* A pump cannot open or read the file: the segments left are not uploaded.
PumpFails(t) ==
  /\ t \in PumpTask /\ InLoop(t)
  /\ \E u \in Task \ Scheduled : Parent[u] = t
  /\ Body!End(t, FALSE)
  /\ scratch' = Disowned(t, scratch)
  /\ UNCHANGED <<num_pending_, content, store>>

-----------------------------------------------------------------------------
is_multipart == NumParts > 1

\* Mutant: every part begins a multipart upload of its own.
Initiate_Each(t) ==
  /\ t \in PartTask /\ pc[t] = "entry"
  /\ IF ~is_multipart
       THEN Body!Goto(t, "putting") /\ UNCHANGED <<upload_id_, store>>
       ELSE /\ initiated' = initiated + 1
            /\ open' = open \cup {initiated'}
            /\ upload_id_' = initiated'
            /\ Body!Goto(t, "putting")
            /\ stored' = {}
            /\ UNCHANGED <<object, unheeded>>
  /\ UNCHANGED <<num_pending_, scratch, num_completed_, etags_>>

\* part_upload_task, under lock_: the first part begins the multipart upload
\* (initiate_multipart).  The store may have begun it although the answer is
\* lost, its listing does not show it yet (then the next try begins another) or
\* the request for that listing is refused, which is fatal.
Initiate(t) ==
  /\ t \in PartTask /\ pc[t] = "entry"
  /\ \/ /\ ~is_multipart \/ upload_id_ # 0
        /\ Body!Goto(t, "putting")
        /\ UNCHANGED <<upload_id_, store>>
     \/ /\ is_multipart /\ upload_id_ = 0
        /\ \/ /\ initiated' = initiated + 1
              /\ open' = open \cup {initiated'}
              /\ \/ upload_id_' = initiated' /\ Body!Goto(t, "putting")
                 \/ (Body!Warn(t) \/ Body!End(t, FALSE)) /\ UNCHANGED upload_id_
           \/ /\ Body!Warn(t) \/ Body!End(t, FALSE)
              /\ UNCHANGED <<upload_id_, initiated, open>>
        /\ UNCHANGED <<stored, object, unheeded>>
  /\ UNCHANGED <<num_pending_, scratch, num_completed_, etags_>>

\* The object store receives part n, or the whole object if it is the only one.
Receive(n) ==
  /\ \/ is_multipart /\ upload_id_ \in open
        /\ stored' = stored \cup {n} /\ UNCHANGED object
     \/ ~is_multipart /\ object' = "new" /\ UNCHANGED stored
  /\ UNCHANGED <<initiated, open, unheeded>>

\* It answers with a status below 400 that means no success, such as a redirect;
\* for check_for_errors only 400 and more are errors.
Unheeded(n) ==
  /\ unheeded' = unheeded \cup {n}
  /\ UNCHANGED <<initiated, open, stored, object>>

\* Mutant: the answer is not looked at.
Put_Unverified(t) ==
  /\ t \in PartTask /\ pc[t] = "putting"
  /\ Receive(t.num) \/ UNCHANGED store
  /\ Body!Goto(t, "counting")
  /\ UNCHANGED <<num_pending_, scratch, content>>

\* s3_connection::upload_data: the part is received, and for a multipart upload
\* seen in its list of parts; or something fails, before or after the store
\* received it.  A PUT to an upload that is no longer open is refused.  A PUT that
\* is not heeded brings no etag; it goes unnoticed for a single part, and for one
\* of several if an earlier try has stored it (the assertion on the etag ends a
\* debug build).
Put(t) ==
  /\ t \in PartTask /\ pc[t] = "putting"
  /\ \/ Receive(t.num) /\ Body!Goto(t, "counting")
     \/ /\ is_multipart => upload_id_ \in open /\ t.num \in stored
        /\ Unheeded(t.num)
        /\ Body!Goto(t, "blank")
     \/ /\ Receive(t.num) \/ UNCHANGED store
        /\ Body!Warn(t) \/ Body!End(t, FALSE)
  /\ UNCHANGED <<num_pending_, scratch, content>>

\* s3_connection::complete_multipart with the etags collected so far.  The
\* store assembles the object if it knows the upload and no etag is missing.
\* The request or its answer may be lost (warning).  The body of the answer is not
\* looked at: a status below 400 is a success even if nothing was assembled, as
\* in an answer 200 with an Error in its body.
complete_multipart(t) ==
  \/ /\ upload_id_ \in open /\ etags_' = Parts
     /\ object' = "new"
     /\ open' = open \ {upload_id_}
     /\ UNCHANGED <<initiated, stored, unheeded>>
     /\ Body!End(t, TRUE) \/ Body!Warn(t)
  \/ Unheeded(t.num) /\ Body!End(t, TRUE)
  \/ UNCHANGED store /\ (Body!Warn(t) \/ Body!End(t, FALSE))

\* Mutant: the counter is read before this part is added.
Count_Late(t) ==
  /\ t \in PartTask /\ pc[t] \in {"counting", "blank"}
  /\ num_completed_' = num_completed_ + 1
  /\ etags_' = IF pc[t] = "blank" THEN etags_ \ {t.num} ELSE etags_ \cup {t.num}
  /\ IF num_completed_ = NumParts /\ upload_id_ # 0
       THEN complete_multipart(t)
       ELSE Body!End(t, TRUE) /\ UNCHANGED store
  /\ UNCHANGED <<num_pending_, scratch, upload_id_>>

\* Mutant: the part is counted although its etag is not known yet.
Count_NoEtag(t) ==
  /\ t \in PartTask /\ pc[t] \in {"counting", "blank"}
  /\ num_completed_' = num_completed_ + 1
  /\ UNCHANGED etags_
  /\ IF num_completed_' = NumParts /\ upload_id_ # 0
       THEN complete_multipart(t)
       ELSE Body!End(t, TRUE) /\ UNCHANGED store
  /\ UNCHANGED <<num_pending_, scratch, upload_id_>>

\* part_upload_task, under lock_: the part is counted, its etag kept, and the
\* one that makes the count complete asks for the object to be assembled.
Count(t) ==
  /\ t \in PartTask /\ pc[t] \in {"counting", "blank"}
  /\ num_completed_' = num_completed_ + 1
  /\ etags_' = IF pc[t] = "blank" THEN etags_ \ {t.num} ELSE etags_ \cup {t.num}
  /\ IF num_completed_' = NumParts /\ upload_id_ # 0
       THEN complete_multipart(t)
       ELSE Body!End(t, TRUE) /\ UNCHANGED store
  /\ UNCHANGED <<num_pending_, scratch, upload_id_>>

-----------------------------------------------------------------------------
\* The command: schedule the uploader, run the agenda.
Submit ==
  /\ Body!Spawn(Uploader)
  /\ UNCHANGED <<num_pending_, scratch, content, store>>

run ==
  /\ Body!Run
  /\ UNCHANGED <<failed, attempt, pc, num_pending_, scratch, content, store>>

Return ==
  /\ Body!Return
  /\ UNCHANGED <<failed, attempt, pc, num_pending_, scratch, content, store>>

Step(t) ==
  \/ Start(t)
  \/ Spawn(t) \/ Spawned(t) \/ PumpFails(t)
  \/ Initiate(t) \/ Put(t) \/ Count(t)

Next ==
  \/ \E t \in Task : Step(t)
  \/ SkipUpload \/ BeginUpload \/ UploaderFails
  \/ BeginCompression
  \/ \E b \in 1..NumBlocks : CompressBlock(b) \/ on_complete(b)
  \/ Submit \/ run \/ Return

Spec == Init /\ [][Next]_vars

\* The executor starts what is queued and every body is a thread of its own.
Fairness ==
  /\ \A t \in Task : WF_vars(Step(t))
  /\ WF_vars(SkipUpload \/ BeginUpload \/ UploaderFails)
  /\ WF_vars(BeginCompression)
  /\ \A b \in 1..NumBlocks : WF_vars(CompressBlock(b) \/ on_complete(b))
  /\ WF_vars(Return)

FairSpec == Spec /\ Fairness

-----------------------------------------------------------------------------
\* Every etag that complete_multipart would send belongs to a part which the
\* upload named by upload_id_ has received, whatever was retried or lost.
EtagsAreStored == is_multipart => etags_ \subseteq stored

\* "We've completed the upload!": when as many parts are counted as there are,
\* every one of them has been uploaded (part_upload_task), if the store heeded
\* what it did not refuse.
CompletedHasAllParts == num_completed_ >= NumParts /\ unheeded = {} => etags_ = Parts

UploadOver == main = "idle" /\ Uploader \in finished

\* "Check if the upload is completed": when all tasks of the upload have ended
\* well, run() reports no failure and the store heeded what it did not refuse,
\* the key holds the new content.
SuccessMeansUploaded == UploadOver /\ failed = {} /\ unheeded = {} => object = "new"

\* The same for an upload in which no part was counted again by a second try: a
\* file is lost silently only by a retry of the completing part or by an answer
\* below 400 to a request that was not carried out.
UploadedWhenCountedOnce ==
  UploadOver /\ failed = {} /\ unheeded = {} /\ num_completed_ <= NumParts => object = "new"

\* The tries that ended with an error: all of a task but its last, and that one if
\* the task failed.
EndedTries ==
  {x \in PartTask \X (1..MaxAttempts) :
     x[2] < attempt[x[1]] \/ (x[2] = attempt[x[1]] /\ x[1] \in failed)}

\* A multipart upload left open on the store beside the one in use was begun by
\* a try that ended with an error: lock_ lets only one part begin it.
OrphansComeFromRetries == Cardinality(open \ {upload_id_}) <= Cardinality(EndedTries)

\* While a pump has yet to read, the temporary files of all blocks exist: the
\* upload starts after the last block and the files outlive the last pump.
FilesOutlivePumps ==
  Compress /\ (pending \cup active) \cap PumpTask # {} => scratch = 1..NumBlocks

\* The run leaves no temporary file behind, except those of blocks that failed.
ScratchCleaned ==
  main = "idle" => scratch \subseteq {b \in 1..NumBlocks : Block(b) \in failed}

\* However often requests fail, the run comes to its end.
UploadReturns == main = "joining" ~> main = "idle"
=============================================================================
