--------------------------- MODULE DownloadProofs ---------------------------
(***************************************************************************)
(* Proofs about Download.  The inductive invariant Inv follows every       *)
(* segment from its GET to the file (Chain), keeps the count of the        *)
(* segments written equal to those that are (Counting), says who owns the  *)
(* temporary file (Temporary), and puts every piece between the version    *)
(* HEAD found and the one the object has now (Pieces, TargetInv).          *)
(***************************************************************************)
EXTENDS Download, PartitionProofs, FiniteSetTheorems

-----------------------------------------------------------------------------
\* The task objects of different kinds, runs and segments are different ones.
LEMMA TaskFacts ==
  /\ \A r \in Runs : /\ Downloader(r) \in Task /\ Downloader(r).run = r
                     /\ Downloader(r).kind = "downloader"
  /\ \A r \in Runs, n \in Seg :
       /\ Segment(r, n) \in Task /\ Segment(r, n).run = r
       /\ Segment(r, n).kind = "segment" /\ Segment(r, n).num = n
       /\ Write(r, n) \in Task /\ Write(r, n).run = r
       /\ Write(r, n).kind = "write" /\ Write(r, n).num = n
       /\ Decompressor(r, n) \in Task /\ Decompressor(r, n).run = r
       /\ Decompressor(r, n).kind = "decompressor" /\ Decompressor(r, n).num = n
BY DEF Task, Downloader, Segment, Write, Decompressor, Runs, Seg

LEMMA TaskCases ==
  ASSUME NEW t \in Task
  PROVE  /\ t.run \in Runs
         /\ \/ t = Downloader(t.run)
            \/ t.num \in Seg /\ t = Segment(t.run, t.num)
            \/ t.num \in Seg /\ t = Write(t.run, t.num)
            \/ t.num \in Seg /\ t = Decompressor(t.run, t.num)
BY DEF Task, Downloader, Segment, Write, Decompressor, Runs, Seg

LEMMA TaskKinds ==
  ASSUME NEW t \in Task
  PROVE  /\ t.kind = "downloader" => t = Downloader(t.run)
         /\ t.kind = "write" => t.num \in Seg /\ t = Write(t.run, t.num)
BY DEF Task, Downloader, Write

\* No version is empty of segments.
LEMMA SegsType ==
  /\ Segs \in [Version -> Seg] /\ Version \subseteq Nat \ {0} /\ 1 \in Version
  /\ Seg \subseteq Nat \ {0} /\ 1 \in Seg /\ Runs \subseteq Nat \ {0}
<1>1. ASSUME NEW v \in Version PROVE Segs[v] \in Nat \ {0}
  <2>1. Size[v] \in Nat /\ segment_size \in Nat \ {0}
    BY DownloadAssumption
  <2>2. Size[v] # 0 => NumPieces(Size[v], segment_size) \in Nat \ {0}
    <3>1. NumPieces(Size[v], segment_size) \in Nat
      BY <2>1, Offsets
    <3>2. Size[v] # 0 => NumPieces(Size[v], segment_size) # 0
      <4>1. Size[v] <= segment_size * NumPieces(Size[v], segment_size)
        BY <2>1, Offsets
      <4> QED BY <2>1, <4>1
    <3> QED BY <3>1, <3>2
  <2> QED BY <2>1, <2>2 DEF Segs, number_of_segments
<1>2. Segs \in [Version -> Seg]
  <2>1. \A v \in Version : Segs[v] <= MAX_SEGMENTS
    BY DownloadAssumption
  <2>2. MAX_SEGMENTS \in Nat
    BY DownloadAssumption
  <2>3. \A v \in Version : Segs[v] \in Seg
    BY <1>1, <2>1, <2>2 DEF Seg
  <2> QED BY <2>3 DEF Segs
<1> QED BY <1>2, DownloadAssumption DEF Version, Seg, Runs

-----------------------------------------------------------------------------
Live == pending \cup active
Scheduled == Live \cup finished

Exec ==
  /\ pending \subseteq Task /\ active \subseteq Task /\ finished \subseteq Task
  /\ main \in {"idle", "joining"}
  /\ failed \subseteq finished
  /\ attempt \in [Task -> 0..MaxAttempts]
  /\ pc \in [Task -> {"none", "entry", "spawning"}]
  /\ pending \cap active = {} /\ pending \cap finished = {} /\ active \cap finished = {}
  /\ \A t \in Task : t \in active <=> pc[t] # "none"
  /\ round \in 0..NumRuns
  /\ \A t \in Live : t.run = round
  /\ \A t \in Scheduled : t.run <= round
  /\ main = "idle" => active = {} /\ \A t \in pending : t.kind = "downloader"

LEMMA EnterFacts ==
  ASSUME Exec, NEW t \in Task, Body!Enter(t), UNCHANGED round
  PROVE  /\ Exec' /\ t \in pending /\ t.run = round
         /\ pending' = pending \ {t} /\ active' = active \cup {t}
         /\ UNCHANGED <<finished, main, failed>>
         /\ pc' = [pc EXCEPT ![t] = "entry"]
<1> USE DownloadAssumption DEF Body!Enter, Body!Start
<1> QED BY DEF Exec, Live, Scheduled

LEMMA GotoFacts ==
  ASSUME Exec, NEW t \in Task, NEW w \in {"entry", "spawning"},
         pc[t] # "none", Body!Goto(t, w), UNCHANGED round
  PROVE  /\ Exec' /\ t \in active /\ t.run = round
         /\ UNCHANGED <<pending, active, finished, main, failed>>
         /\ pc' = [pc EXCEPT ![t] = w]
<1> USE DEF Body!Goto, Body!vars
<1> QED BY DEF Exec, Live, Scheduled

LEMMA SpawnFacts ==
  ASSUME Exec, NEW t \in Task, NEW u \in Task, pc[t] # "none", u.run = t.run,
         Body!Spawn(u), UNCHANGED round
  PROVE  /\ Exec' /\ t \in active /\ t.run = round /\ u \notin Scheduled
         /\ pending' = pending \cup {u} /\ UNCHANGED <<active, finished, main, failed, pc>>
<1> USE DEF Body!Spawn, Body!Schedule, Body!bodies
<1> QED BY DEF Exec, Live, Scheduled

LEMMA EndFacts ==
  ASSUME Exec, NEW t \in Task, NEW ok \in BOOLEAN, pc[t] # "none",
         Body!End(t, ok), UNCHANGED round
  PROVE  /\ Exec' /\ t \in active /\ t.run = round
         /\ active' = active \ {t} /\ finished' = finished \cup {t}
         /\ UNCHANGED <<pending, main>>
         /\ failed' = IF ok THEN failed ELSE failed \cup {t}
         /\ pc' = [pc EXCEPT ![t] = "none"]
<1> USE DEF Body!End, Body!Finish
<1> QED BY DEF Exec, Live, Scheduled

LEMMA WarnFacts ==
  ASSUME Exec, NEW t \in Task, pc[t] # "none", Body!Warn(t), UNCHANGED round
  PROVE  /\ Exec' /\ t \in active /\ t.run = round
         /\ \/ /\ UNCHANGED <<pending, active, finished, main, failed>>
               /\ pc' = [pc EXCEPT ![t] = "entry"]
            \/ Body!End(t, FALSE)
<1>1. CASE Body!End(t, FALSE)
  BY <1>1, EndFacts
<1>2. CASE /\ attempt[t] < MaxAttempts
           /\ attempt' = [attempt EXCEPT ![t] = @ + 1]
           /\ pc' = [pc EXCEPT ![t] = "entry"]
           /\ UNCHANGED <<Body!vars, failed>>
  <2> USE DownloadAssumption DEF Body!vars
  <2> QED BY <1>2 DEF Exec, Live, Scheduled
<1> QED BY <1>1, <1>2 DEF Body!Warn

-----------------------------------------------------------------------------
\* The rest of the type invariant.
Types ==
  /\ seen \in Version \cup {0}
  /\ num_segments_ \in Seg \cup {0}
  /\ segments_read_ \in Nat
  /\ memory \in [Seg -> Version \cup {0}]
  /\ temp \in [Seg -> Version \cup {0}]
  /\ temp_exists \in BOOLEAN /\ delete_temp_file_ \in BOOLEAN
  /\ target.mtime \in Nat /\ target.size \in Nat
  /\ \E k \in Seg \cup {0} : target.pieces \in [1..k -> Version \cup {0}]
  /\ remote \in Version
  /\ removed \in BOOLEAN

Begun == num_segments_ # 0

\* Before the first run; and how far the downloader of this run has come.
Beginning ==
  /\ seen # 0 => num_segments_ = Segs[seen] /\ seen <= remote
  /\ round = 0 => ~Begun /\ segments_read_ = 0 /\ \A n \in Seg : memory[n] = 0 /\ temp[n] = 0
  /\ round # 0 =>
       /\ Downloader(round) \in Scheduled
       /\ pc[Downloader(round)] = "spawning" => Begun
       /\ Begun => /\ Downloader(round) \notin pending /\ pc[Downloader(round)] # "entry"
                   /\ Downloader(round) \in finished \ failed
                        => \A n \in 1..num_segments_ : Segment(round, n) \in Scheduled

\* How far segment n has come.
Chain(n) ==
  /\ Segment(round, n) \in Scheduled =>
       n <= num_segments_ /\ \A k \in 1..(n - 1) : Segment(round, k) \in Scheduled
  /\ memory[n] # 0 => Segment(round, n) \in Scheduled
  /\ pc[Segment(round, n)] = "spawning" => memory[n] # 0
  /\ Segment(round, n) \in finished \ failed => Write(round, n) \in Scheduled
  /\ Write(round, n) \in Scheduled => memory[n] # 0 /\ pc[Segment(round, n)] # "entry" 
                                      /\ Segment(round, n) \notin pending
  /\ temp[n] # 0 => /\ Write(round, n) \in Scheduled \ pending
                    /\ pc[Write(round, n)] # "entry"
  /\ pc[Write(round, n)] = "spawning" => temp[n] # 0
  /\ Write(round, n) \in finished \ failed => temp[n] # 0
  /\ Decompressor(round, n) \in Scheduled => temp[n] # 0
  /\ pc[Decompressor(round, n)] # "spawning"

\* What was read is not older than what HEAD found, nor newer than what there is.
Pieces ==
  \A n \in Seg : /\ memory[n] # 0 => seen <= memory[n] /\ memory[n] <= remote
                 /\ temp[n] # 0 => seen <= temp[n] /\ temp[n] <= remote

\* The segments that are in the file and counted.
Counted ==
  {n \in Seg : /\ temp[n] # 0
               /\ pc[Write(round, n)] = "spawning" => Decompressor(round, n) \in Scheduled}

Counting ==
  round # 0 =>
    /\ segments_read_ = Cardinality(Counted)
    /\ \A n \in Seg : Decompressor(round, n) \in Scheduled => segments_read_ = num_segments_
    /\ delete_temp_file_ <=> \A n \in Seg : Decompressor(round, n) \notin Scheduled
    /\ \A m, n \in Seg :
         Decompressor(round, m) \in Scheduled /\ Decompressor(round, n) \in Scheduled => m = n

Temporary ==
  /\ temp_exists =>
       /\ Begun
       /\ IF delete_temp_file_ THEN Live \cap Users(round) # {}
          ELSE \E t \in Live : t.kind = "decompressor"
  /\ segments_read_ < num_segments_ /\ Live \cap Users(round) # {} => temp_exists
  /\ \A t \in Live : t.kind = "decompressor" => temp_exists

\* The local file was downloaded as version s: it has that one's time, size and
\* segments, and what is in it is no older than that, nor newer than what there is.
DownloadedAs(s) ==
  /\ target.mtime = Time[s] /\ target.size = Size[s]
  /\ DOMAIN target.pieces = 1..Segs[s]
  /\ \A n \in 1..Segs[s] : s <= target.pieces[n] /\ target.pieces[n] <= remote

\* A local file with a time was downloaded as some version there has been.
TargetInv ==
  /\ target.mtime # 0 => \E s \in Version : s <= remote /\ DownloadedAs(s)
  /\ target = [mtime |-> target.mtime, size |-> target.size, pieces |-> target.pieces]

Complete == [mtime |-> IF seen = 0 THEN 0 ELSE Time[seen],
             size |-> IF seen = 0 THEN 0 ELSE Size[seen],
             pieces |-> [k \in 1..num_segments_ |-> temp[k]]]

Replaced ==
  Begun /\ segments_read_ = num_segments_ =>
    \/ \E t \in failed : t.run = round
    \/ \E t \in Live : t.kind = "decompressor"
    \/ target = Complete

Inv ==
  /\ Exec /\ Types /\ Beginning
  /\ round # 0 => \A n \in Seg : Chain(n)
  /\ Pieces /\ Counting /\ Temporary /\ TargetInv /\ Replaced

-----------------------------------------------------------------------------
LEMMA CountedFacts ==
  ASSUME Inv, round # 0
  PROVE  /\ Counted \subseteq 1..num_segments_ /\ IsFiniteSet(Counted)
         /\ segments_read_ \in 0..num_segments_ /\ num_segments_ \in Nat
         /\ \A n \in Seg : n \notin Counted /\ n <= num_segments_ => segments_read_ < num_segments_
         /\ segments_read_ = num_segments_ => Counted = 1..num_segments_
<1>1. num_segments_ \in Nat /\ Seg \subseteq Nat \ {0}
  BY SegsType DEF Inv, Types
<1>2. Counted \subseteq 1..num_segments_
  <2>1. ASSUME NEW n \in Counted PROVE n \in Seg /\ n <= num_segments_
    BY <2>1 DEF Inv, Chain, Counted, Scheduled, Live
  <2>2. \A n \in Seg : n <= num_segments_ => n \in 1..num_segments_
    BY <1>1
  <2> QED BY <2>1, <2>2
<1>3. /\ IsFiniteSet(1..num_segments_) /\ Cardinality(1..num_segments_) = num_segments_
  BY <1>1, FS_Interval
<1>4. /\ IsFiniteSet(Counted) /\ Cardinality(Counted) \in Nat
      /\ Cardinality(Counted) <= num_segments_
      /\ Cardinality(Counted) = num_segments_ => Counted = 1..num_segments_
  BY <1>2, <1>3, FS_Subset, FS_CardinalityType
<1>5. segments_read_ = Cardinality(Counted)
  BY DEF Inv, Counting
<1>6. ASSUME NEW n \in Seg, n \notin Counted, n <= num_segments_
      PROVE  segments_read_ < num_segments_
  <2>1. n \in 1..num_segments_
    BY <1>1, <1>6
  <2> QED BY <1>1, <1>4, <1>5, <1>6, <2>1
<1> QED BY <1>1, <1>2, <1>4, <1>5, <1>6

LEMMA StartStep == ASSUME Inv, NEW t \in Task, Start(t) PROVE Inv'
<1>1. /\ Exec' /\ t \in pending /\ t.run = round /\ round \in Runs /\ round # 0
      /\ pending' = pending \ {t} /\ active' = active \cup {t}
      /\ UNCHANGED <<finished, main, failed>>
      /\ pc' = [pc EXCEPT ![t] = "entry"]
      /\ UNCHANGED <<round, content, memory, local, store>>
  BY EnterFacts, TaskCases, SegsType DEF Start, Inv
<1>2. Live' = Live /\ Scheduled' = Scheduled /\ t \in Live /\ pc[t] = "none"
  BY <1>1 DEF Live, Scheduled, Inv, Exec
<1> USE <1>1, <1>2 DEF content, local, store
<1>3. Types' /\ Pieces' /\ TargetInv'
  BY DEF Inv, Types, Pieces, TargetInv, DownloadedAs
<1>4. Beginning'
  BY TaskFacts DEF Inv, Exec, Beginning, Begun
<1>5. ASSUME NEW n \in Seg PROVE Chain(n)'
  <2>1. Chain(n)
    BY DEF Inv
  <2>2. pc' \in [Task -> {"none", "entry", "spawning"}] /\ pc \in [Task -> {"none", "entry", "spawning"}]
    BY DEF Exec, Inv
  <2>3. /\ Segment(round, n) \in Task /\ Write(round, n) \in Task /\ Decompressor(round, n) \in Task
    BY TaskFacts
  <2> QED BY <2>1, <2>2, <2>3 DEF Chain
<1>6. Counted' = Counted
  BY TaskFacts DEF Inv, Exec, Chain, Counted
<1>7. Counting'
  BY <1>6 DEF Inv, Counting
<1>8. Temporary' /\ Replaced'
  BY DEF Inv, Temporary, Replaced, Begun, Users, Complete
<1> QED BY <1>3, <1>4, <1>5, <1>7, <1>8 DEF Inv

-----------------------------------------------------------------------------
\* A task that is being executed belongs to this run.
LEMMA RunFacts ==
  ASSUME Inv, NEW t \in Task, pc[t] # "none"
  PROVE  t \in active /\ t.run = round /\ round \in Runs /\ round # 0
BY TaskCases, SegsType DEF Inv, Exec, Live

\* Before the object is looked up there is nothing of this run but its first task.
LEMMA NothingYet ==
  ASSUME Inv, NEW r \in Runs, pc[Downloader(r)] = "entry"
  PROVE  /\ r = round /\ round # 0 /\ Downloader(r) \in active
         /\ ~Begun /\ num_segments_ = 0 /\ seen = 0 /\ segments_read_ = 0 /\ ~temp_exists
         /\ \A n \in Seg :
              /\ Segment(r, n) \notin Scheduled /\ Write(r, n) \notin Scheduled
              /\ Decompressor(r, n) \notin Scheduled
              /\ memory[n] = 0 /\ temp[n] = 0
<1>1. r = round /\ round # 0 /\ Downloader(r) \in active
  BY TaskFacts, RunFacts
<1>2. ~Begun /\ num_segments_ = 0
  BY <1>1 DEF Inv, Beginning, Begun
<1>3. seen = 0 /\ ~temp_exists
  <2>1. seen # 0 => num_segments_ \in Seg /\ 0 \notin Seg
    BY SegsType DEF Inv, Beginning, Types
  <2>2. temp_exists => Begun
    BY DEF Inv, Temporary
  <2> QED BY <1>2, <2>1, <2>2
<1>4. segments_read_ = 0
  BY <1>1, <1>2, CountedFacts
<1>5. ASSUME NEW n \in Seg
      PROVE  /\ Segment(r, n) \notin Scheduled /\ Write(r, n) \notin Scheduled
             /\ Decompressor(r, n) \notin Scheduled
             /\ memory[n] = 0 /\ temp[n] = 0
  <2>1. Chain(n)
    BY <1>1 DEF Inv
  <2>2. ~(n <= 0)
    BY SegsType
  <2> QED BY <1>1, <1>2, <2>1, <2>2 DEF Chain, Scheduled
<1> QED BY <1>1, <1>2, <1>3, <1>4, <1>5

\* No file at all is a possible target.
LEMMA NoFile ==
  ASSUME target' = Absent, remote' \in Version, Inv
  PROVE  /\ TargetInv' /\ target.mtime' = 0 /\ target.size' = 0
         /\ \E k \in Seg \cup {0} : target'.pieces \in [1..k -> Version \cup {0}]
<1>1. <<>> \in [1..0 -> Version \cup {0}]
  OBVIOUS
<1> QED BY <1>1 DEF Absent, TargetInv, DownloadedAs

LEMMA SkipStep == ASSUME Inv, NEW r \in Runs, SkipDownload(r) PROVE Inv'
<1> DEFINE t == Downloader(r)
<1>1. /\ r = round /\ round # 0 /\ ~Begun /\ num_segments_ = 0 /\ ~temp_exists /\ segments_read_ = 0
      /\ \A n \in Seg :
              /\ Segment(r, n) \notin Scheduled /\ Write(r, n) \notin Scheduled
              /\ Decompressor(r, n) \notin Scheduled
              /\ memory[n] = 0 /\ temp[n] = 0
  BY NothingYet DEF SkipDownload
<1>2. /\ Exec' /\ t \in active
      /\ active' = active \ {t} /\ finished' = finished \cup {t}
      /\ UNCHANGED <<pending, main, failed>>
      /\ pc' = [pc EXCEPT ![t] = "none"]
      /\ UNCHANGED <<round, content, memory, local, store>>
  BY TaskFacts, EndFacts DEF SkipDownload, Inv
<1>3. Live' \subseteq Live /\ Scheduled' = Scheduled
  BY <1>2 DEF Live, Scheduled
<1> USE <1>1, <1>2, <1>3 DEF content, local, store
<1>4. Types' /\ Pieces' /\ TargetInv' /\ Temporary' /\ Replaced'
  BY DEF Inv, Types, Pieces, TargetInv, DownloadedAs, Temporary, Replaced, Begun
<1>5. Beginning'
  BY DEF Inv, Beginning, Begun
<1>6. ASSUME NEW n \in Seg PROVE Chain(n)'
  BY TaskFacts DEF Inv, Exec, Chain, Scheduled, Live
<1>7. Counted' = Counted
  BY DEF Counted
<1>8. Counting'
  BY <1>7 DEF Inv, Counting
<1> QED BY <1>4, <1>5, <1>6, <1>8 DEF Inv

LEMMA FailsStep == ASSUME Inv, NEW r \in Runs, DownloaderFails(r) PROVE Inv'
<1> DEFINE t == Downloader(r)
<1>1. /\ r = round /\ round # 0 /\ ~Begun /\ num_segments_ = 0 /\ ~temp_exists /\ segments_read_ = 0
      /\ t \in Task
      /\ \A n \in Seg :
              /\ Segment(r, n) \notin Scheduled /\ Write(r, n) \notin Scheduled
              /\ Decompressor(r, n) \notin Scheduled
              /\ memory[n] = 0 /\ temp[n] = 0
  BY NothingYet, TaskFacts DEF DownloaderFails
<1>2. /\ Exec'
      /\ \/ UNCHANGED <<pending, active, finished, main, failed>> /\ pc' = [pc EXCEPT ![t] = "entry"]
         \/ /\ active' = active \ {t} /\ finished' = finished \cup {t} /\ failed' = failed \cup {t}
            /\ UNCHANGED <<pending, main>> /\ pc' = [pc EXCEPT ![t] = "none"]
      /\ UNCHANGED <<round, content, memory, temp, temp_exists, store>>
      /\ target' = Cleared(r)
  <2>1. CASE Body!Warn(t)
    BY <1>1, <2>1, EndFacts, WarnFacts DEF DownloaderFails, Inv
  <2>2. CASE Body!End(t, FALSE)
    BY <1>1, <2>2, EndFacts DEF DownloaderFails, Inv
  <2> QED BY <2>1, <2>2 DEF DownloaderFails
<1>3. Live' \subseteq Live /\ Scheduled' = Scheduled
  BY <1>2, NothingYet DEF Live, Scheduled, DownloaderFails
<1> USE <1>1, <1>2, <1>3 DEF content, local, store
<1>4. Types' /\ TargetInv'
  <2>1. CASE target' = target
    BY <2>1 DEF Inv, Types, TargetInv, DownloadedAs
  <2>2. CASE target' = Absent
    BY <2>2, NoFile DEF Inv, Types
  <2> QED BY <2>1, <2>2 DEF Cleared
<1>5. Pieces' /\ Temporary' /\ Replaced'
  BY DEF Inv, Types, Pieces, Temporary, Replaced, Begun
<1>6. Beginning'
  BY DEF Inv, Exec, Beginning, Begun, Live, Scheduled
<1>7. ASSUME NEW n \in Seg PROVE Chain(n)'
  BY TaskFacts DEF Inv, Exec, Chain, Scheduled, Live
<1>8. Counted' = Counted
  BY DEF Counted
<1>9. Counting'
  BY <1>8 DEF Inv, Counting
<1> QED BY <1>4, <1>5, <1>6, <1>7, <1>9 DEF Inv

LEMMA BeginStep == ASSUME Inv, NEW r \in Runs, BeginDownload(r) PROVE Inv'
<1> DEFINE t == Downloader(r)
<1>1. /\ r = round /\ round # 0 /\ ~Begun /\ t \in active /\ t \in Task
      /\ \A n \in Seg :
              /\ Segment(r, n) \notin Scheduled /\ Write(r, n) \notin Scheduled
              /\ Decompressor(r, n) \notin Scheduled
              /\ memory[n] = 0
  BY NothingYet, TaskFacts DEF BeginDownload
<1>2. /\ Exec' /\ UNCHANGED <<pending, active, finished, main, failed>>
      /\ pc' = [pc EXCEPT ![t] = "spawning"]
      /\ UNCHANGED <<round, memory, store>>
      /\ segments_read_' = 0 /\ delete_temp_file_' = TRUE
      /\ target' = Cleared(r)
      /\ temp' = [n \in Seg |-> 0] /\ temp_exists' = TRUE
  BY <1>1, GotoFacts DEF BeginDownload, Inv
<1>3. \/ seen' = remote /\ num_segments_' = Segs[remote]
      \/ seen' = 0 /\ num_segments_' \in Seg
  BY DEF BeginDownload
<1>4. Live' = Live /\ Scheduled' = Scheduled /\ t \in Live /\ t \in Users(round) /\ t \in Scheduled
  BY <1>1, <1>2, TaskFacts DEF Live, Scheduled, Users
<1> USE <1>1, <1>2, <1>3, <1>4 DEF store
<1>5. num_segments_' \in Seg /\ seen' \in Version \cup {0} /\ num_segments_' # 0 /\ remote \in Version
  BY SegsType DEF Inv, Types
<1>6. Types' /\ TargetInv'
  <2>1. CASE target' = target
    BY <1>5, <2>1 DEF Inv, Types, TargetInv, DownloadedAs
  <2>2. CASE target' = Absent
    BY <1>5, <2>2, NoFile DEF Inv, Types
  <2> QED BY <2>1, <2>2 DEF Cleared
<1>7. Pieces'
  BY DEF Pieces
<1>8. ASSUME NEW n \in Seg PROVE Chain(n)'
  BY TaskFacts DEF Inv, Exec, Chain, Scheduled, Live
<1>9. Beginning'
  BY <1>5, SegsType DEF Inv, Exec, Beginning, Begun, Live
<1>10. Counted' = {} /\ Cardinality(Counted') = 0
  BY FS_EmptySet DEF Counted
<1>11. Counting'
  BY <1>10 DEF Counting
<1>12. \A x \in Live : x.kind # "decompressor"
  BY TaskCases, TaskFacts DEF Inv, Exec, Live, Scheduled
<1>13. Temporary' /\ Replaced'
  BY <1>5, <1>12 DEF Temporary, Replaced, Begun, Users
<1> QED BY <1>6, <1>7, <1>8, <1>9, <1>11, <1>13 DEF Inv

-----------------------------------------------------------------------------
\* A decompressor owns the temporary file, and nothing is left to be written.
LEMMA Owner ==
  ASSUME Inv, NEW t \in Live, t.kind = "decompressor"
  PROVE  /\ t.num \in Seg /\ t = Decompressor(round, t.num) /\ round # 0
         /\ ~delete_temp_file_ /\ segments_read_ = num_segments_ /\ temp_exists
<1>1. t \in Task /\ t.run = round /\ t \in Scheduled
  BY DEF Inv, Exec, Live, Scheduled
<1>2. t.num \in Seg /\ t = Decompressor(round, t.num) /\ round # 0
  <2>1. round \in Runs /\ round # 0
    BY <1>1, TaskCases, SegsType
  <2>2. t # Downloader(round) /\ t # Segment(round, t.num) /\ t # Write(round, t.num)
    BY <2>1 DEF Downloader, Segment, Write
  <2> QED BY <1>1, <2>1, <2>2, TaskCases
<1> QED BY <1>1, <1>2 DEF Inv, Counting, Temporary

\* The temporary file is forgotten when nobody needs it any more.
LEMMA ForgetFacts ==
  ASSUME Inv, round # 0, Forget(round), UNCHANGED <<round, delete_temp_file_, num_segments_>>,
         Live' \subseteq Live, \A x \in Live : x.kind = "decompressor" => x \in Live',
         segments_read_' \in Nat, segments_read_' >= segments_read_
  PROVE  Temporary' /\ temp_exists' \in BOOLEAN
<1>1. /\ temp_exists \in BOOLEAN /\ delete_temp_file_ \in BOOLEAN
      /\ segments_read_ \in Nat /\ num_segments_ \in Nat
  <2>1. Types
    BY DEF Inv
  <2>2. /\ temp_exists \in BOOLEAN /\ delete_temp_file_ \in BOOLEAN
        /\ segments_read_ \in Nat /\ num_segments_ \in Seg \cup {0}
    BY <2>1 DEF Types
  <2> QED BY <2>2, SegsType
<1>2. Users(round)' = Users(round)
  BY DEF Users
<1>3. temp_exists' = (temp_exists /\ (delete_temp_file_ => Live' \cap Users(round) # {}))
  BY DEF Forget, Live
<1>4. ASSUME temp_exists'
      PROVE  Begun' /\ IF delete_temp_file_' THEN (Live \cap Users(round))' # {}
                       ELSE \E t \in Live' : t.kind = "decompressor"
  <2>1. temp_exists
    BY <1>1, <1>3, <1>4
  <2>2. Begun'
    BY <2>1 DEF Inv, Temporary, Begun
  <2>3. CASE delete_temp_file_
    BY <1>1, <1>2, <1>3, <1>4, <2>2, <2>3
  <2>4. CASE ~delete_temp_file_
    BY <2>1, <2>2, <2>4 DEF Inv, Temporary
  <2> QED BY <2>3, <2>4
<1>5. ASSUME segments_read_' < num_segments_', (Live \cap Users(round))' # {}
      PROVE  temp_exists'
  <2>1. segments_read_ < num_segments_
    BY <1>1, <1>5
  <2>2. Live \cap Users(round) # {}
    BY <1>2, <1>5
  <2>3. temp_exists
    BY <2>1, <2>2 DEF Inv, Temporary
  <2> QED BY <1>2, <1>3, <1>5, <2>3
<1>6. ASSUME NEW t \in Live', t.kind = "decompressor" PROVE temp_exists'
  BY <1>3, <1>6, Owner
<1>7. Temporary'
  BY <1>4, <1>5, <1>6 DEF Temporary
<1> QED BY <1>1, <1>3, <1>7

LEMMA SpawnSegmentStep ==
  ASSUME Inv, NEW r \in Runs, NEW n \in Seg, SpawnSegment(r, n) PROVE Inv'
<1> DEFINE t == Downloader(r)
           u == Segment(r, n)
<1>1. /\ r = round /\ round # 0 /\ t \in active /\ t \in Task /\ u \in Task
      /\ u.run = r /\ t.run = r /\ u.kind = "segment" /\ t.kind = "downloader"
  BY TaskFacts, RunFacts DEF SpawnSegment
<1>2. /\ Exec' /\ u \notin Scheduled
      /\ pending' = pending \cup {u} /\ UNCHANGED <<active, finished, main, failed, pc>>
      /\ UNCHANGED <<round, content, memory, local, store>>
      /\ n <= num_segments_
      /\ \A k \in 1..(n - 1) : Segment(r, k) \in Scheduled
  BY <1>1, SpawnFacts DEF SpawnSegment, Inv, Live, Scheduled
<1>3. /\ Live' = Live \cup {u} /\ Scheduled' = Scheduled \cup {u}
      /\ t \in Live \cap Users(round)
  BY <1>1, <1>2 DEF Live, Scheduled, Users
<1> USE <1>1, <1>2, <1>3 DEF content, local, store
<1>4. Types' /\ Pieces' /\ TargetInv'
  BY DEF Inv, Types, Pieces, TargetInv, DownloadedAs
<1>5. Beginning'
  BY DEF Inv, Exec, Beginning, Begun
<1>6. ASSUME NEW m \in Seg PROVE Chain(m)'
  <2>1. Chain(m)
    BY DEF Inv
  <2>2. /\ Write(round, m) # u /\ Decompressor(round, m) # u /\ (Segment(round, m) = u => m = n)
    BY TaskFacts
  <2> HIDE DEF u
  <2> QED BY <2>1, <2>2 DEF Chain
<1>7. Counted' = Counted
  BY TaskFacts DEF Counted
<1>8. Counting'
  BY <1>7, TaskFacts DEF Inv, Counting
<1>9. Users(round)' = Users(round)
  BY DEF Users
<1>10. Temporary' /\ Replaced'
  BY <1>9 DEF Inv, Temporary, Replaced, Begun, Complete
<1> QED BY <1>4, <1>5, <1>6, <1>8, <1>10 DEF Inv

LEMMA SpawnedStep == ASSUME Inv, NEW r \in Runs, Spawned(r) PROVE Inv'
<1> DEFINE t == Downloader(r)
<1>1. /\ r = round /\ round # 0 /\ t \in active /\ t \in Task /\ t.kind = "downloader"
  BY TaskFacts, RunFacts DEF Spawned
<1>2. /\ Exec'
      /\ active' = active \ {t} /\ finished' = finished \cup {t}
      /\ UNCHANGED <<pending, main, failed>>
      /\ pc' = [pc EXCEPT ![t] = "none"]
      /\ UNCHANGED <<round, content, memory, temp, target, store>>
      /\ Forget(round)
  BY <1>1, EndFacts DEF Spawned, Inv
<1>3. Live' = Live \ {t} /\ Scheduled' = Scheduled
  BY <1>1, <1>2 DEF Live, Scheduled, Inv, Exec
<1> USE <1>1, <1>2, <1>3 DEF content, store
<1>4. segments_read_ \in Nat /\ num_segments_ \in Seg \cup {0}
  BY DEF Inv, Types
<1>5. Temporary' /\ temp_exists' \in BOOLEAN
  BY <1>4, ForgetFacts
<1>6. Types' /\ Pieces' /\ TargetInv'
  BY <1>5 DEF Inv, Types, Pieces, TargetInv, DownloadedAs
<1>7. Beginning'
  <2>1. num_segments_ \in Seg /\ Begun
    BY <1>4 DEF Spawned, Inv, Beginning, Begun
  <2>2. \A n \in 1..num_segments_ : Segment(round, n) \in Scheduled
    <3>1. Segment(round, num_segments_) \in Scheduled
      BY DEF Spawned, Scheduled, Live
    <3>2. \A n \in 1..(num_segments_ - 1) : Segment(round, n) \in Scheduled
      BY <2>1, <3>1 DEF Inv, Chain
    <3>3. num_segments_ \in Nat
      BY <2>1, SegsType
    <3> QED BY <3>1, <3>2, <3>3
  <2> QED BY <2>2 DEF Inv, Exec, Beginning, Begun
<1>8. ASSUME NEW m \in Seg PROVE Chain(m)'
  <2>1. Chain(m)
    BY DEF Inv
  <2>2. /\ Write(round, m) # t /\ Decompressor(round, m) # t /\ Segment(round, m) # t
    BY TaskFacts
  <2> HIDE DEF t
  <2> QED BY <2>1, <2>2 DEF Chain, Inv, Exec
<1>9. Counted' = Counted
  BY TaskFacts DEF Counted, Inv, Exec
<1>10. Counting'
  BY <1>9 DEF Inv, Counting
<1>11. Replaced'
  BY DEF Inv, Replaced, Begun, Complete
<1> QED BY <1>5, <1>6, <1>7, <1>8, <1>10, <1>11 DEF Inv

-----------------------------------------------------------------------------
\* What a task leaves behind that ends, or starts over, without having done anything:
\* a segment that was not read, one that was handed on, a write that failed.
LEMMA LeaveStep ==
  ASSUME Inv, NEW n \in Seg, NEW t \in {Segment(round, n), Write(round, n)}, Exec', round # 0,
         pc[t] # "none", t \in active, round \in Runs,
         UNCHANGED <<round, content, memory, temp, target, store>>, Forget(round),
         \/ /\ UNCHANGED <<pending, active, finished, main, failed>>
            /\ pc' = [pc EXCEPT ![t] = "entry"]
            /\ pc[t] = "entry"
         \/ /\ active' = active \ {t} /\ finished' = finished \cup {t}
            /\ UNCHANGED <<pending, main>>
            /\ \/ failed' = failed \cup {t}
               \/ failed' = failed /\ t = Segment(round, n) /\ Write(round, n) \in Scheduled
            /\ pc' = [pc EXCEPT ![t] = "none"]
            /\ t = Write(round, n) => pc[t] = "entry"
  PROVE  Inv'
<1>1. /\ t \in Task /\ t # Downloader(round) /\ t.run = round /\ t.kind # "decompressor"
      /\ \A m \in Seg : t # Decompressor(round, m)
  BY TaskFacts
<1>2. /\ Scheduled' = Scheduled /\ Live' \subseteq Live
      /\ \A x \in Live : x # t => x \in Live'
  <2>1. CASE UNCHANGED <<pending, active, finished>>
    BY <2>1 DEF Live, Scheduled
  <2>2. CASE /\ active' = active \ {t} /\ finished' = finished \cup {t} /\ UNCHANGED pending
    BY <2>2 DEF Live, Scheduled
  <2> QED BY <2>1, <2>2
<1> USE <1>1, <1>2 DEF content, store
<1>3. segments_read_ \in Nat
  BY DEF Inv, Types
<1>4. Temporary' /\ temp_exists' \in BOOLEAN
  BY <1>3, ForgetFacts
<1>5. Types' /\ Pieces' /\ TargetInv'
  BY <1>4 DEF Inv, Types, Pieces, TargetInv, DownloadedAs
<1>6. Beginning'
  <2> DEFINE d == Downloader(round)
  <2>1. d \in Task /\ pc \in [Task -> {"none", "entry", "spawning"}]
    BY TaskFacts DEF Inv, Exec
  <2>2. pc'[d] = pc[d] /\ pending' = pending
    BY <2>1
  <2>3. d \in finished' \ failed' => d \in finished \ failed
    OBVIOUS
  <2> HIDE DEF d
  <2> QED BY <2>2, <2>3 DEF Inv, Beginning, Begun, d
<1>7. ASSUME NEW m \in Seg PROVE Chain(m)'
  <2>1. Chain(m)
    BY DEF Inv
  <2>2. /\ t = Segment(round, n) => Write(round, m) # t /\ (m # n => Segment(round, m) # t)
        /\ t = Write(round, n) => Segment(round, m) # t /\ (m # n => Write(round, m) # t)
    BY TaskFacts
  <2>3. /\ pc \in [Task -> {"none", "entry", "spawning"}]
        /\ active \cap finished = {} /\ pending \cap active = {} /\ failed \subseteq finished
    BY DEF Inv, Exec
  <2>4. /\ Segment(round, m) \in Task /\ Write(round, m) \in Task /\ Decompressor(round, m) \in Task
    BY TaskFacts
  <2>5. CASE UNCHANGED <<pending, active, finished, failed>> /\ pc' = pc
    BY <2>1, <2>5 DEF Chain
  <2>6. CASE pc' = [pc EXCEPT ![t] = "none"] /\ t = Segment(round, n)
    BY <2>1, <2>2, <2>3, <2>4, <2>6 DEF Chain
  <2>7. CASE pc' = [pc EXCEPT ![t] = "none"] /\ t = Write(round, n)
    BY <2>1, <2>2, <2>3, <2>4, <2>7 DEF Chain
  <2> QED BY <2>3, <2>5, <2>6, <2>7
<1>8. Counted' = Counted
  <2>1. ASSUME NEW m \in Seg, temp[m] # 0 PROVE pc'[Write(round, m)] = pc[Write(round, m)]
    BY <2>1, TaskFacts DEF Inv, Exec, Chain
  <2> QED BY <2>1 DEF Counted
<1>9. Counting'
  BY <1>8 DEF Inv, Counting
<1>10. failed \subseteq failed'
  OBVIOUS
<1>11. Replaced'
  BY <1>10 DEF Inv, Replaced, Begun, Complete
<1> QED BY <1>4, <1>5, <1>6, <1>7, <1>9, <1>11 DEF Inv

LEMMA GetStep == ASSUME Inv, NEW r \in Runs, NEW n \in Seg, Get(r, n) PROVE Inv'
<1> DEFINE t == Segment(r, n)
<1>1. /\ r = round /\ round # 0 /\ t \in active /\ t \in Task /\ t.kind = "segment"
      /\ pc[t] = "entry"
  BY TaskFacts, RunFacts DEF Get
<1>2. CASE /\ Satisfiable(n)
           /\ memory' = [memory EXCEPT ![n] = remote]
           /\ Body!Goto(t, "spawning")
           /\ UNCHANGED temp_exists
  <2>1. /\ Exec' /\ UNCHANGED <<pending, active, finished, main, failed>>
        /\ pc' = [pc EXCEPT ![t] = "spawning"]
        /\ UNCHANGED <<round, content, temp, target, store, temp_exists>>
        /\ memory' = [memory EXCEPT ![n] = remote]
    BY <1>1, <1>2, GotoFacts DEF Get, Inv
  <2>2. /\ remote \in Version /\ seen <= remote /\ remote # 0
        /\ memory \in [Seg -> Version \cup {0}] /\ remote <= remote
    BY <1>2, SegsType DEF Satisfiable, Inv, Types, Beginning
  <2>3. Live' = Live /\ Scheduled' = Scheduled /\ t \in Scheduled
    BY <1>1, <2>1 DEF Live, Scheduled
  <2> USE <1>1, <2>1, <2>2, <2>3 DEF content, store
  <2>4. Types' /\ Pieces' /\ TargetInv'
    BY DEF Inv, Types, Pieces, TargetInv, DownloadedAs
  <2>5. Beginning'
    BY TaskFacts DEF Inv, Exec, Beginning, Begun
  <2>6. ASSUME NEW m \in Seg PROVE Chain(m)'
    <3>1. Chain(m)
      BY DEF Inv
    <3>2. Write(round, m) # t /\ (Segment(round, m) = t => m = n) /\ Decompressor(round, m) # t
      BY TaskFacts
    <3>3. pc \in [Task -> {"none", "entry", "spawning"}] /\ pending \cap active = {}
          /\ active \cap finished = {}
      BY DEF Inv, Exec
    <3> QED BY <3>1, <3>2, <3>3 DEF Chain
  <2>7. Counted' = Counted
    BY TaskFacts DEF Counted, Inv, Exec
  <2>8. Counting'
    BY <2>7 DEF Inv, Counting
  <2>9. Temporary' /\ Replaced'
    BY DEF Inv, Temporary, Replaced, Begun, Complete, Users
  <2> QED BY <2>4, <2>5, <2>6, <2>8, <2>9 DEF Inv
<1>3. CASE /\ Body!Warn(t) \/ Body!End(t, FALSE)
           /\ Forget(r)
           /\ UNCHANGED memory
  <2>1. UNCHANGED <<round, content, memory, temp, target, store>>
    BY <1>3 DEF Get
  <2>2. CASE Body!End(t, FALSE)
    BY <1>1, <1>3, <2>1, <2>2, EndFacts, LeaveStep DEF Inv
  <2>3. CASE Body!Warn(t)
    BY <1>1, <1>3, <2>1, <2>2, <2>3, WarnFacts, LeaveStep DEF Inv
  <2> QED BY <1>3, <2>2, <2>3
<1> QED BY <1>2, <1>3 DEF Get

LEMMA SpawnWriteStep == ASSUME Inv, NEW r \in Runs, NEW n \in Seg, SpawnWrite(r, n) PROVE Inv'
<1> DEFINE t == Segment(r, n)
           u == Write(r, n)
<1>1. /\ r = round /\ round # 0 /\ t \in active /\ t \in Task /\ t.kind = "segment"
      /\ u \in Task /\ u.kind = "write" /\ u.run = t.run
      /\ pc[t] = "spawning" /\ memory[n] # 0
  <2>1. r = round /\ round # 0 /\ pc[t] = "spawning"
    BY TaskFacts, RunFacts DEF SpawnWrite
  <2>2. Chain(n)
    BY <2>1 DEF Inv
  <2> QED BY <2>1, <2>2, TaskFacts, RunFacts DEF Chain
<1>2. CASE Body!Spawn(u) /\ UNCHANGED temp_exists
  <2>1. /\ Exec' /\ u \notin Scheduled
        /\ pending' = pending \cup {u} /\ UNCHANGED <<active, finished, main, failed, pc>>
        /\ UNCHANGED <<round, content, memory, temp, target, store, temp_exists>>
    BY <1>1, <1>2, SpawnFacts DEF SpawnWrite, Inv
  <2>2. /\ Live' = Live \cup {u} /\ Scheduled' = Scheduled \cup {u}
        /\ t \in Live \cap Users(round)
    <3>1. t.run = round
      BY <1>1, TaskFacts
    <3>2. t \in Live \cap Users(round)
      BY <1>1, <3>1 DEF Live, Users
    <3>3. Live' = Live \cup {u}
      BY <2>1 DEF Live
    <3>4. Scheduled' = Scheduled \cup {u}
      BY <2>1, <3>3 DEF Scheduled
    <3> QED BY <3>2, <3>3, <3>4
  <2> USE <1>1, <2>1, <2>2 DEF content, store
  <2>3. Types' /\ Pieces' /\ TargetInv'
    BY DEF Inv, Types, Pieces, TargetInv, DownloadedAs
  <2>4. Beginning'
    BY TaskFacts DEF Inv, Exec, Beginning, Begun
  <2>5. ASSUME NEW m \in Seg PROVE Chain(m)'
    <3>1. Chain(m)
      BY DEF Inv
    <3>2. /\ Segment(round, m) # u /\ Decompressor(round, m) # u /\ (Write(round, m) = u => m = n)
      BY TaskFacts
    <3>3. pending \cap active = {} /\ t = Segment(round, n)
      BY DEF Inv, Exec
    <3> HIDE DEF u, t
    <3> QED BY <3>1, <3>2, <3>3 DEF Chain
  <2>6. Counted' = Counted
    BY TaskFacts DEF Counted
  <2>7. Counting'
    BY <2>6, TaskFacts DEF Inv, Counting
  <2>8. Users(round)' = Users(round)
    BY DEF Users
  <2>9. Temporary' /\ Replaced'
    BY <2>8 DEF Inv, Temporary, Replaced, Begun, Complete
  <2> QED BY <2>3, <2>4, <2>5, <2>7, <2>9 DEF Inv
<1>3. CASE u \in Scheduled /\ Body!End(t, TRUE) /\ Forget(r)
  <2>1. UNCHANGED <<round, content, memory, temp, target, store>>
    BY DEF SpawnWrite
  <2>2. /\ Exec' /\ active' = active \ {t} /\ finished' = finished \cup {t}
        /\ UNCHANGED <<pending, main, failed>>
        /\ pc' = [pc EXCEPT ![t] = "none"]
    BY <1>1, <1>3, <2>1, EndFacts DEF Inv
  <2>3. t = Segment(round, n) /\ t # Write(round, n) /\ Write(round, n) \in Scheduled
        /\ pc[t] # "none" /\ round \in Runs /\ Forget(round)
    BY <1>1, <1>3, TaskFacts
  <2> HIDE DEF t, u
  <2> QED BY <1>1, <2>1, <2>2, <2>3, LeaveStep
<1> QED BY <1>2, <1>3 DEF SpawnWrite, Scheduled, Live

LEMMA WriteStep == ASSUME Inv, NEW r \in Runs, NEW n \in Seg, do_write(r, n) PROVE Inv'
<1> DEFINE t == Write(r, n)
<1>1. /\ r = round /\ round # 0 /\ t \in active /\ t \in Task /\ t.kind = "write"
      /\ pc[t] = "entry"
  BY TaskFacts, RunFacts DEF do_write
<1>2. Chain(n) /\ memory[n] # 0 /\ temp[n] = 0 /\ n <= num_segments_ /\ n \notin Counted
      /\ Decompressor(round, n) \notin Scheduled
  <2>1. Chain(n)
    BY <1>1 DEF Inv
  <2> QED BY <1>1, <2>1 DEF Chain, Scheduled, Live, Counted
<1>3. CASE /\ temp' = [temp EXCEPT ![n] = memory[n]]
           /\ Body!Goto(t, "spawning")
           /\ UNCHANGED temp_exists
  <2>1. /\ Exec' /\ UNCHANGED <<pending, active, finished, main, failed>>
        /\ pc' = [pc EXCEPT ![t] = "spawning"]
        /\ UNCHANGED <<round, content, memory, target, store, temp_exists>>
        /\ temp' = [temp EXCEPT ![n] = memory[n]]
    BY <1>1, <1>3, GotoFacts DEF do_write, Inv
  <2>2. /\ memory \in [Seg -> Version \cup {0}] /\ temp \in [Seg -> Version \cup {0}]
        /\ pc \in [Task -> {"none", "entry", "spawning"}] /\ pending \cap active = {}
        /\ active \cap finished = {}
    BY DEF Inv, Types, Exec
  <2>3. Live' = Live /\ Scheduled' = Scheduled /\ t \in Scheduled
    BY <1>1, <2>1 DEF Live, Scheduled
  <2> USE <1>1, <1>2, <2>1, <2>2, <2>3 DEF content, store
  <2>4. Types' /\ TargetInv'
    BY DEF Inv, Types, TargetInv, DownloadedAs
  <2>5. Pieces'
    BY DEF Inv, Pieces
  <2>6. Beginning'
    BY TaskFacts DEF Inv, Exec, Beginning, Begun
  <2>7. ASSUME NEW m \in Seg PROVE Chain(m)'
    <3>1. Chain(m)
      BY DEF Inv
    <3>2. Segment(round, m) # t /\ (Write(round, m) = t => m = n) /\ Decompressor(round, m) # t
      BY TaskFacts
    <3>3. t = Write(round, n)
      OBVIOUS
    <3> HIDE DEF t
    <3> QED BY <3>1, <3>2, <3>3 DEF Chain
  <2>8. Counted' = Counted
    <3>1. \A m \in Seg : m # n => Write(round, m) # t /\ Write(round, m) \in Task
      BY TaskFacts
    <3> QED BY <3>1 DEF Counted
  <2>9. Counting'
    BY <2>8 DEF Inv, Counting
  <2>10. segments_read_ < num_segments_
    BY CountedFacts
  <2>11. Temporary' /\ Replaced'
    BY <2>10, SegsType DEF Inv, Types, Temporary, Replaced, Begun, Users
  <2> QED BY <2>4, <2>5, <2>6, <2>7, <2>9, <2>11 DEF Inv
<1>4. CASE Body!End(t, FALSE) /\ Forget(r) /\ UNCHANGED temp
  <2>1. UNCHANGED <<round, content, memory, temp, target, store>>
    BY <1>4 DEF do_write
  <2>2. /\ Exec' /\ active' = active \ {t} /\ finished' = finished \cup {t}
        /\ UNCHANGED <<pending, main>> /\ failed' = failed \cup {t}
        /\ pc' = [pc EXCEPT ![t] = "none"]
    BY <1>1, <1>4, <2>1, EndFacts DEF Inv
  <2>3. round \in Runs /\ t \in {Segment(round, n), Write(round, n)} /\ Forget(round)
    BY <1>1, <1>4
  <2> HIDE DEF t
  <2> QED BY <1>1, <2>1, <2>2, <2>3, LeaveStep
<1> QED BY <1>3, <1>4 DEF do_write

LEMMA HandedOverStep == ASSUME Inv, NEW r \in Runs, NEW n \in Seg, HandedOver(r, n) PROVE Inv'
<1> DEFINE t == Write(r, n)
<1>1. /\ r = round /\ round # 0 /\ t \in active /\ t \in Task /\ t.kind = "write"
      /\ pc[t] = "spawning" /\ Decompressor(round, n) \in Scheduled
  BY TaskFacts, RunFacts DEF HandedOver, Scheduled, Live
<1>2. /\ Exec'
      /\ active' = active \ {t} /\ finished' = finished \cup {t}
      /\ UNCHANGED <<pending, main, failed>>
      /\ pc' = [pc EXCEPT ![t] = "none"]
      /\ UNCHANGED <<round, content, memory, local, store>>
  BY <1>1, EndFacts DEF HandedOver, Inv
<1>3. Live' = Live \ {t} /\ Scheduled' = Scheduled
  BY <1>1, <1>2 DEF Live, Scheduled, Inv, Exec
<1>4. /\ ~delete_temp_file_ /\ segments_read_ = num_segments_ /\ temp[n] # 0
      /\ num_segments_ \in Nat
  BY <1>1, SegsType DEF Inv, Counting, Chain, Types
<1>5. /\ pc \in [Task -> {"none", "entry", "spawning"}] /\ pending \cap active = {}
      /\ active \cap finished = {} /\ failed \subseteq finished
  BY DEF Inv, Exec
<1> USE <1>1, <1>2, <1>3, <1>4, <1>5 DEF content, local, store
<1>6. Types' /\ Pieces' /\ TargetInv'
  BY DEF Inv, Types, Pieces, TargetInv, DownloadedAs
<1>7. Beginning'
  BY TaskFacts DEF Inv, Exec, Beginning, Begun
<1>8. ASSUME NEW m \in Seg PROVE Chain(m)'
  <2>1. Chain(m)
    BY DEF Inv
  <2>2. Segment(round, m) # t /\ (Write(round, m) = t => m = n) /\ Decompressor(round, m) # t
    BY TaskFacts
  <2>3. t = Write(round, n) /\ Write(round, m) \in Task /\ Segment(round, m) \in Task
        /\ Decompressor(round, m) \in Task
    BY TaskFacts
  <2> HIDE DEF t
  <2> QED BY <2>1, <2>2, <2>3 DEF Chain
<1>9. Counted' = Counted
  <2>1. \A m \in Seg : (m # n => Write(round, m) # t) /\ Write(round, m) \in Task
    BY TaskFacts
  <2> QED BY <2>1 DEF Counted
<1>10. Counting'
  BY <1>9 DEF Inv, Counting
<1>11. Temporary' /\ Replaced'
  BY DEF Inv, Temporary, Replaced, Begun, Complete
<1> QED BY <1>6, <1>7, <1>8, <1>10, <1>11 DEF Inv

-----------------------------------------------------------------------------
\* What takes the name of the target has no holes, and nothing in it is older than
\* its time.
LEMMA ReplaceFacts ==
  ASSUME Inv, round # 0, Begun, Replace, \A k \in 1..num_segments_ : temp[k] # 0,
         UNCHANGED <<seen, num_segments_, temp, remote>>
  PROVE  /\ target' = Complete /\ Complete' = Complete /\ TargetInv'
         /\ target.mtime' \in Nat /\ target.size' \in Nat
         /\ \E k \in Seg \cup {0} : target'.pieces \in [1..k -> Version \cup {0}]
<1>1. target' = Complete /\ Complete' = Complete
  BY DEF Replace, Complete
<1>2. /\ seen \in Version \cup {0} /\ num_segments_ \in Seg /\ num_segments_ \in Nat
      /\ temp \in [Seg -> Version \cup {0}] /\ 0 \notin Version
      /\ Size \in [Version -> Nat] /\ Time \in [Version -> Nat]
      /\ seen # 0 => num_segments_ = Segs[seen] /\ seen <= remote
  BY SegsType, DownloadAssumption DEF Inv, Types, Beginning, Begun
<1>3. 1..num_segments_ \subseteq Seg
  BY <1>2, DownloadAssumption DEF Seg
<1>4. /\ target'.mtime = IF seen = 0 THEN 0 ELSE Time[seen]
      /\ target'.size = IF seen = 0 THEN 0 ELSE Size[seen]
      /\ target'.pieces = [k \in 1..num_segments_ |-> temp[k]]
  BY <1>1 DEF Complete
<1>5. target'.pieces \in [1..num_segments_ -> Version \cup {0}]
  BY <1>2, <1>3, <1>4
<1>6. TargetInv'
  <2>1. \A k \in 1..num_segments_ : seen <= temp[k] /\ temp[k] <= remote
    BY <1>3 DEF Inv, Pieces
  <2>2. target' = [mtime |-> target'.mtime, size |-> target'.size, pieces |-> target'.pieces]
    BY <1>1, <1>4 DEF Complete
  <2>3. ASSUME seen # 0 PROVE seen \in Version /\ seen <= remote' /\ DownloadedAs(seen)'
    BY <1>2, <1>4, <2>1, <2>3 DEF DownloadedAs
  <2>4. target'.mtime # 0 => seen # 0
    BY <1>4
  <2>5. UNCHANGED seen /\ UNCHANGED <<Version, Time, Size, Segs>>
    OBVIOUS
  <2>6. target'.mtime # 0 => \E s \in Version : s <= remote' /\ DownloadedAs(s)'
    BY <2>3, <2>4
  <2> QED BY <2>2, <2>6 DEF TargetInv, DownloadedAs
<1>7. target'.mtime \in Nat /\ target'.size \in Nat
  BY <1>2, <1>4
<1> QED BY <1>1, <1>2, <1>5, <1>6, <1>7

\* A segment is counted once, and the last one finds all the others written.
LEMMA CountFacts ==
  ASSUME Inv, NEW r \in Runs, NEW n \in Seg, Count(r, n)
  PROVE  /\ r = round /\ round # 0 /\ Write(r, n) \in active
         /\ temp[n] # 0 /\ Begun /\ temp_exists /\ delete_temp_file_
         /\ segments_read_ < num_segments_ /\ segments_read_ \in Nat /\ num_segments_ \in Seg
         /\ \A m \in Seg : Decompressor(round, m) \notin Scheduled
         /\ \A x \in Live : x.kind # "decompressor"
         /\ segments_read_' = Cardinality(Counted \cup {n})
         /\ segments_read_' = num_segments_ => \A k \in 1..num_segments_ : temp[k] # 0
<1>1. /\ r = round /\ round # 0 /\ Write(r, n) \in active /\ pc[Write(r, n)] = "spawning"
      /\ Decompressor(r, n) \notin Scheduled /\ segments_read_' = segments_read_ + 1
  BY TaskFacts, RunFacts DEF Count, Scheduled, Live
<1>2. Chain(n)
  BY <1>1 DEF Inv
<1>3. temp[n] # 0 /\ n <= num_segments_ /\ n \notin Counted
  BY <1>1, <1>2 DEF Chain, Counted, Scheduled, Live
<1>4. /\ Counted \subseteq 1..num_segments_ /\ IsFiniteSet(Counted)
      /\ segments_read_ < num_segments_ /\ num_segments_ \in Nat
      /\ segments_read_ \in Nat /\ segments_read_ = Cardinality(Counted)
  BY <1>1, <1>3, CountedFacts DEF Inv, Counting, Types
<1>5. num_segments_ \in Seg /\ Begun
  BY <1>4 DEF Inv, Types, Begun
<1>6. \A m \in Seg : Decompressor(round, m) \notin Scheduled
  BY <1>1, <1>4 DEF Inv, Counting
<1>7. delete_temp_file_
  BY <1>1, <1>6 DEF Inv, Counting
<1>8. temp_exists
  <2>1. Write(r, n) \in Live \cap Users(round)
    BY <1>1, TaskFacts DEF Live, Users
  <2> QED BY <1>4, <2>1 DEF Inv, Temporary
<1>9. \A x \in Live : x.kind # "decompressor"
  BY <1>7, Owner
<1>10. segments_read_' = Cardinality(Counted \cup {n})
  BY <1>1, <1>3, <1>4, FS_AddElement
<1>11. ASSUME segments_read_' = num_segments_ PROVE \A k \in 1..num_segments_ : temp[k] # 0
  <2>1. Counted \cup {n} \subseteq 1..num_segments_
    BY <1>3, <1>4, SegsType
  <2>2. IsFiniteSet(1..num_segments_) /\ Cardinality(1..num_segments_) = num_segments_
    BY <1>4, FS_Interval
  <2>3. Counted \cup {n} = 1..num_segments_
    BY <1>10, <1>11, <2>1, <2>2, FS_Subset
  <2> QED BY <1>3, <2>3 DEF Counted
<1> QED BY <1>1, <1>3, <1>4, <1>5, <1>6, <1>7, <1>8, <1>9, <1>10, <1>11

LEMMA CountStep == ASSUME Inv, NEW r \in Runs, NEW n \in Seg, Count(r, n) PROVE Inv'
<1> DEFINE t == Write(r, n)
           u == Decompressor(r, n)
<1>1. /\ r = round /\ round # 0 /\ t \in active
      /\ temp[n] # 0 /\ Begun /\ temp_exists /\ delete_temp_file_
      /\ segments_read_ < num_segments_ /\ segments_read_ \in Nat /\ num_segments_ \in Seg
      /\ \A m \in Seg : Decompressor(round, m) \notin Scheduled
      /\ \A x \in Live : x.kind # "decompressor"
      /\ segments_read_' = Cardinality(Counted \cup {n})
  BY CountFacts
<1>2. /\ t \in Task /\ u \in Task /\ t.kind = "write" /\ u.kind = "decompressor"
      /\ t.run = round /\ u.run = round /\ t # u
      /\ \A m \in Seg : /\ Segment(round, m) \in Task /\ Write(round, m) \in Task
                        /\ Decompressor(round, m) \in Task
                        /\ Segment(round, m) # t /\ Segment(round, m) # u
                        /\ Write(round, m) # u /\ Decompressor(round, m) # t
                        /\ m # n => Write(round, m) # t /\ Decompressor(round, m) # u
      /\ t # Downloader(round) /\ u # Downloader(round) /\ Downloader(round) \in Task
  BY <1>1, TaskFacts
<1>3. /\ UNCHANGED <<round, seen, num_segments_, memory, temp, store>>
      /\ segments_read_' = segments_read_ + 1 /\ pc[t] = "spawning"
  BY DEF Count
<1>4. /\ pc \in [Task -> {"none", "entry", "spawning"}]
      /\ pending \cap active = {} /\ active \cap finished = {} /\ failed \subseteq finished
  BY DEF Inv, Exec
<1>5. Pieces'
  BY <1>3 DEF Inv, Pieces, store
<1>6. segments_read_' \in Nat /\ segments_read_' >= segments_read_
  BY <1>1, <1>3
<1>7. ASSUME NEW ok \in BOOLEAN, Body!End(t, ok), UNCHANGED delete_temp_file_
      PROVE  /\ Exec' /\ Beginning' /\ Counting' /\ \A m \in Seg : Chain(m)'
             /\ Live' \subseteq Live /\ \A x \in Live : x.kind = "decompressor" => x \in Live'
             /\ ~ok => t \in failed'
  <2>1. /\ Exec' /\ active' = active \ {t} /\ finished' = finished \cup {t}
        /\ UNCHANGED <<pending, main>>
        /\ failed' = IF ok THEN failed ELSE failed \cup {t}
        /\ pc' = [pc EXCEPT ![t] = "none"]
    BY <1>2, <1>3, <1>7, EndFacts DEF Inv
  <2>2. Live' = Live \ {t} /\ Scheduled' = Scheduled
    BY <1>1, <1>4, <2>1 DEF Live, Scheduled
  <2> HIDE DEF t, u
  <2> USE <1>1, <1>2, <1>3, <1>4, <2>1, <2>2
  <2>3. Beginning'
    <3> DEFINE d == Downloader(round)
    <3>1. pc'[d] = pc[d]
      OBVIOUS
    <3>2. d \in finished' \ failed' => d \in finished \ failed
      OBVIOUS
    <3> HIDE DEF d
    <3> QED BY <3>1, <3>2 DEF Inv, Beginning, Begun, d, store
  <2>4. ASSUME NEW m \in Seg PROVE Chain(m)'
    <3>1. Chain(m)
      BY DEF Inv
    <3>2. m = n => Write(round, m) = t
      BY DEF t
    <3> QED BY <3>1, <3>2 DEF Chain
  <2>5. Counted' = Counted \cup {n}
    <3>1. Write(round, n) = t
      BY DEF t
    <3> QED BY <3>1 DEF Counted
  <2>6. Counting'
    BY <1>7, <2>5 DEF Counting
  <2> QED BY <2>1, <2>2, <2>3, <2>4, <2>6
<1>8. CASE /\ segments_read_' # num_segments_ /\ Body!End(t, TRUE) /\ Forget(r)
           /\ UNCHANGED <<target, delete_temp_file_>>
  <2>1. Temporary' /\ temp_exists' \in BOOLEAN
    BY <1>1, <1>3, <1>6, <1>7, <1>8, ForgetFacts
  <2>2. Types' /\ TargetInv'
    BY <1>3, <1>6, <1>8, <2>1 DEF Inv, Types, TargetInv, DownloadedAs, store
  <2>3. Replaced'
    BY <1>3, <1>8 DEF Replaced
  <2> QED BY <1>5, <1>7, <1>8, <2>1, <2>2, <2>3 DEF Inv
<1>9. CASE /\ segments_read_' = num_segments_ /\ Replace /\ temp_exists' = FALSE
           /\ Body!End(t, TRUE) /\ UNCHANGED delete_temp_file_
  <2>1. \A k \in 1..num_segments_ : temp[k] # 0
    BY <1>9, CountFacts
  <2>2. /\ target' = Complete /\ Complete' = Complete /\ TargetInv'
        /\ target.mtime' \in Nat /\ target.size' \in Nat
        /\ \E k \in Seg \cup {0} : target'.pieces \in [1..k -> Version \cup {0}]
    BY <1>1, <1>3, <1>9, <2>1, ReplaceFacts DEF store
  <2>3. Types'
    BY <1>3, <1>6, <1>9, <2>2 DEF Inv, Types, store
  <2>4. Temporary'
    <3>1. ~(segments_read_' < num_segments_') /\ ~temp_exists'
      BY <1>3, <1>6, <1>9
    <3>2. \A x \in Live' : x.kind # "decompressor"
      BY <1>1, <1>7, <1>9
    <3> QED BY <3>1, <3>2 DEF Temporary
  <2>5. Replaced'
    BY <2>2 DEF Replaced
  <2> QED BY <1>5, <1>7, <1>9, <2>2, <2>3, <2>4, <2>5 DEF Inv
<1>10. CASE /\ segments_read_' = num_segments_ /\ UNCHANGED target
            /\ Body!End(t, FALSE) /\ Forget(r) /\ UNCHANGED delete_temp_file_
  <2>1. Temporary' /\ temp_exists' \in BOOLEAN
    BY <1>1, <1>3, <1>6, <1>7, <1>10, ForgetFacts
  <2>2. Types' /\ TargetInv'
    BY <1>3, <1>6, <1>10, <2>1 DEF Inv, Types, TargetInv, DownloadedAs, store
  <2>3. Replaced'
    BY <1>2, <1>3, <1>7, <1>10 DEF Replaced
  <2> QED BY <1>5, <1>7, <1>10, <2>1, <2>2, <2>3 DEF Inv
<1>11. CASE /\ segments_read_' = num_segments_ /\ Body!Spawn(u)
            /\ delete_temp_file_' = FALSE /\ UNCHANGED <<target, temp_exists>>
  <2>1. /\ Exec' /\ u \notin Scheduled
        /\ pending' = pending \cup {u} /\ UNCHANGED <<active, finished, main, failed, pc>>
    BY <1>2, <1>3, <1>11, SpawnFacts DEF Inv
  <2>2. Live' = Live \cup {u} /\ Scheduled' = Scheduled \cup {u}
    BY <2>1 DEF Live, Scheduled
  <2> HIDE DEF t, u
  <2> USE <1>1, <1>2, <1>3, <1>4, <1>11, <2>1, <2>2
  <2>3. Types' /\ TargetInv'
    BY <1>6 DEF Inv, Types, TargetInv, DownloadedAs, store
  <2>4. Beginning'
    BY DEF Inv, Beginning, Begun, store
  <2>5. ASSUME NEW m \in Seg PROVE Chain(m)'
    <3>1. Chain(m)
      BY DEF Inv
    <3> QED BY <3>1 DEF Chain
  <2>6. Counted' = Counted \cup {n}
    <3>1. Write(round, n) = t /\ Decompressor(round, n) = u
      BY DEF t, u
    <3>2. \A m \in Seg : m # n => (Decompressor(round, m) \in Scheduled' <=> Decompressor(round, m) \in Scheduled)
      OBVIOUS
    <3> QED BY <3>1, <3>2 DEF Counted
  <2>7. Counting'
    <3>1. Decompressor(round, n) \in Scheduled'
      BY DEF u
    <3> QED BY <2>6, <3>1 DEF Inv, Counting
  <2>8. Temporary' /\ Replaced'
    BY DEF Temporary, Replaced, Begun
  <2> QED BY <1>5, <2>1, <2>3, <2>4, <2>5, <2>7, <2>8 DEF Inv
<1> QED BY <1>8, <1>9, <1>10, <1>11 DEF Count

LEMMA DecompressStep == ASSUME Inv, NEW r \in Runs, NEW n \in Seg, Decompress(r, n) PROVE Inv'
<1> DEFINE t == Decompressor(r, n)
<1>1. /\ r = round /\ round # 0 /\ t \in active /\ t \in Task /\ t.kind = "decompressor"
      /\ t.run = round /\ pc[t] = "entry" /\ t \in Live /\ t \in Scheduled
  BY TaskFacts, RunFacts DEF Decompress, Live, Scheduled
<1>2. /\ segments_read_ = num_segments_ /\ ~delete_temp_file_ /\ num_segments_ \in Nat /\ Begun
      /\ \A k \in 1..num_segments_ : temp[k] # 0
  <2>1. segments_read_ = num_segments_ /\ ~delete_temp_file_ /\ temp_exists
    BY <1>1, Owner
  <2>2. Counted = 1..num_segments_ /\ num_segments_ \in Nat
    BY <1>1, <2>1, CountedFacts
  <2> QED BY <2>1, <2>2 DEF Counted, Inv, Temporary
<1>3. /\ UNCHANGED <<round, content, memory, temp, store>> /\ temp_exists' = FALSE
  BY DEF Decompress
<1>4. PICK ok \in BOOLEAN : /\ Body!End(t, ok)
                            /\ IF ok THEN Replace ELSE UNCHANGED target
  BY DEF Decompress
<1>5. /\ Exec' /\ active' = active \ {t} /\ finished' = finished \cup {t}
      /\ UNCHANGED <<pending, main>>
      /\ failed' = IF ok THEN failed ELSE failed \cup {t}
      /\ pc' = [pc EXCEPT ![t] = "none"]
  BY <1>1, <1>3, <1>4, EndFacts DEF Inv
<1>6. /\ pc \in [Task -> {"none", "entry", "spawning"}]
      /\ pending \cap active = {} /\ active \cap finished = {} /\ failed \subseteq finished
  BY DEF Inv, Exec
<1>7. Live' = Live \ {t} /\ Scheduled' = Scheduled
  BY <1>1, <1>5, <1>6 DEF Live, Scheduled
<1>8. \A x \in Live' : x.kind # "decompressor"
  <2>1. ASSUME NEW x \in Live', x.kind = "decompressor" PROVE FALSE
    <3>1. x \in Live /\ x # t
      BY <1>7
    <3>2. x.num \in Seg /\ x = Decompressor(round, x.num) /\ Chain(x.num) /\ Chain(n)
      BY <1>1, <2>1, <3>1, Owner DEF Inv
    <3>3. t \in Scheduled /\ x \in Scheduled
      BY <1>1, <3>1 DEF Scheduled
    <3> QED BY <1>1, <3>1, <3>2, <3>3 DEF Inv, Counting
  <2> QED BY <2>1
<1>9. t # Downloader(round) /\ Downloader(round) \in Task
      /\ \A m \in Seg : /\ Segment(round, m) \in Task /\ Write(round, m) \in Task
                        /\ Decompressor(round, m) \in Task
                        /\ Segment(round, m) # t /\ Write(round, m) # t
  BY <1>1, TaskFacts
<1>10. /\ TargetInv' /\ target.mtime' \in Nat /\ target.size' \in Nat
       /\ \E k \in Seg \cup {0} : target'.pieces \in [1..k -> Version \cup {0}]
       /\ ok => target' = Complete'
  <2>1. CASE ok
    BY <1>1, <1>2, <1>3, <1>4, <2>1, ReplaceFacts DEF content, store
  <2>2. CASE ~ok
    BY <1>3, <1>4, <2>2 DEF Inv, Types, TargetInv, DownloadedAs, store
  <2> QED BY <2>1, <2>2
<1>11. Types' /\ Pieces'
  BY <1>3, <1>10 DEF Inv, Types, Pieces, content, store
<1> HIDE DEF t
<1>12. Beginning'
  <2> DEFINE d == Downloader(round)
  <2>1. pc'[d] = pc[d]
    BY <1>5, <1>6, <1>9
  <2>2. d \in finished' \ failed' => d \in finished \ failed
    BY <1>5, <1>9
  <2> HIDE DEF d
  <2> QED BY <1>3, <1>5, <1>7, <2>1, <2>2 DEF Inv, Beginning, Begun, d, content, store
<1>13. ASSUME NEW m \in Seg PROVE Chain(m)'
  <2>1. Chain(m)
    BY <1>1 DEF Inv
  <2> QED BY <1>3, <1>5, <1>6, <1>7, <1>9, <2>1 DEF Chain, content
<1>14. Counted' = Counted
  BY <1>3, <1>5, <1>6, <1>7, <1>9 DEF Counted
<1>15. Counting'
  BY <1>3, <1>7, <1>14 DEF Inv, Counting, content
<1>16. Temporary'
  BY <1>2, <1>3, <1>8 DEF Temporary, content
<1>17. Replaced'
  BY <1>1, <1>3, <1>5, <1>10 DEF Replaced
<1> QED BY <1>5, <1>11, <1>10, <1>12, <1>13, <1>15, <1>16, <1>17 DEF Inv

-----------------------------------------------------------------------------
\* Nothing that is in a file gets newer than the object by the object's changing.
LEMMA RemoteChangesStep == ASSUME Inv, RemoteChanges PROVE Inv'
<1>1. UNCHANGED <<exec, round, content, memory, local>> /\ removed' \in BOOLEAN
  BY DEF RemoteChanges, Inv, Types
<1>2. remote \in Version /\ remote' \in Version /\ Version \subseteq Nat /\ remote <= remote'
  BY SegsType DEF RemoteChanges, Inv, Types
<1>3. \A v \in Version \cup {0} : v \in Nat /\ (v <= remote => v <= remote')
  BY <1>2
<1> USE <1>1, <1>2 DEF exec, content, local
<1>4. Live' = Live /\ Scheduled' = Scheduled /\ Exec'
  BY DEF Live, Scheduled, Inv, Exec
<1>5. Types'
  BY DEF Inv, Types
<1>6. Beginning'
  BY <1>3, <1>4 DEF Inv, Types, Beginning, Begun
<1>7. Pieces'
  <2>1. memory \in [Seg -> Version \cup {0}] /\ temp \in [Seg -> Version \cup {0}]
    BY DEF Inv, Types
  <2> QED BY <1>3, <2>1 DEF Inv, Pieces
<1>8. TargetInv'
  <2>1. ASSUME target.mtime # 0
        PROVE  \E s \in Version : s <= remote' /\ DownloadedAs(s)'
    <3>1. PICK s \in Version : s <= remote /\ DownloadedAs(s)
      BY <2>1 DEF Inv, TargetInv
    <3>2. \A n \in 1..Segs[s] : target.pieces[n] \in Version \cup {0}
      BY <3>1 DEF Inv, Types, DownloadedAs
    <3>3. DownloadedAs(s)'
      BY <1>3, <3>1, <3>2 DEF DownloadedAs
    <3> QED BY <1>3, <3>1, <3>3
  <2> QED BY <2>1 DEF Inv, TargetInv
<1>9. ASSUME NEW n \in Seg, round # 0 PROVE Chain(n)'
  BY <1>4, <1>9 DEF Inv, Chain
<1>10. Counted' = Counted
  BY <1>4 DEF Counted
<1>11. Counting'
  BY <1>4, <1>10 DEF Inv, Counting
<1>12. Temporary' /\ Replaced'
  BY <1>4 DEF Inv, Temporary, Replaced, Begun, Users, Complete
<1> QED BY <1>4, <1>5, <1>6, <1>7, <1>8, <1>9, <1>11, <1>12 DEF Inv

\* Between two runs nothing is left of the one before.
LEMMA IdleFacts ==
  ASSUME Inv, main = "idle", round = 0 \/ Downloader(round) \in finished
  PROVE  pending = {} /\ active = {} /\ Live = {} /\ ~temp_exists
<1>1. active = {}
  BY DEF Inv, Exec
<1>2. ASSUME NEW t \in pending PROVE FALSE
  <2>1. t \in Task /\ t.run = round /\ t.kind = "downloader" /\ t \notin finished
    BY DEF Inv, Exec, Live
  <2>2. round \in Runs /\ round # 0
    BY <2>1, TaskCases, SegsType
  <2>3. t # Segment(round, t.num) /\ t # Write(round, t.num) /\ t # Decompressor(round, t.num)
    BY <2>1 DEF Segment, Write, Decompressor
  <2> QED BY <2>1, <2>2, <2>3, TaskCases
<1>3. pending = {} /\ Live = {}
  BY <1>1, <1>2 DEF Live
<1>4. temp_exists => Live # {}
  BY DEF Inv, Temporary
<1> QED BY <1>1, <1>3, <1>4

LEMMA SubmitStep == ASSUME Inv, Submit PROVE Inv'
<1> DEFINE t == Downloader(round')
<1>1. /\ pending = {} /\ active = {} /\ Live = {} /\ ~temp_exists /\ main = "idle"
  BY IdleFacts DEF Submit
<1>2. round \in Nat /\ round' = round + 1 /\ round' \in Runs /\ round' # 0 /\ round' \in 0..NumRuns
  BY DownloadAssumption DEF Submit, Inv, Exec, Runs
<1>3. t \in Task /\ t.run = round' /\ t.kind = "downloader"
  BY <1>2, TaskFacts
<1>4. /\ pending' = {t} /\ UNCHANGED <<active, finished, main, failed, pc, temp_exists, target, store>>
      /\ attempt' = [x \in Task |-> 0] /\ memory' = [n \in Seg |-> 0] /\ temp' = [n \in Seg |-> 0]
      /\ seen' = 0 /\ num_segments_' = 0 /\ segments_read_' = 0 /\ delete_temp_file_' = TRUE
      /\ t \notin finished
  BY <1>1 DEF Submit, Body!Schedule
<1>5. \A x \in finished : x \in Task /\ x.run <= round
  BY DEF Inv, Exec, Scheduled
<1>6. \A x \in Task : pc[x] = "none"
  BY <1>1 DEF Inv, Exec
<1>7. Live' = {t} /\ Scheduled' = finished \cup {t}
  BY <1>1, <1>4 DEF Live, Scheduled
<1>8. \A x \in finished : x.run # round'
  BY <1>2, <1>5 DEF Task, Runs
<1> USE <1>1, <1>2, <1>3, <1>4 DEF store
<1> HIDE DEF t
<1>9. Exec'
  <2>1. attempt' \in [Task -> 0..MaxAttempts]
    BY DownloadAssumption
  <2>2. \A x \in Scheduled' : x.run <= round'
    BY <1>5, <1>7 DEF Task, Runs
  <2> QED BY <1>6, <1>7, <2>1, <2>2 DEF Inv, Exec
<1>10. Types'
  BY DEF Inv, Types
<1>11. Beginning'
  BY <1>6, <1>7 DEF Beginning, Begun, t
<1>12. Pieces' /\ TargetInv'
  BY DEF Inv, Pieces, TargetInv, DownloadedAs
<1>13. ASSUME NEW n \in Seg
       PROVE  /\ Segment(round', n) \in Task /\ Segment(round', n) \notin Scheduled'
              /\ Write(round', n) \in Task /\ Write(round', n) \notin Scheduled'
              /\ Decompressor(round', n) \in Task /\ Decompressor(round', n) \notin Scheduled'
  BY <1>7, <1>8, TaskFacts
<1>14. ASSUME NEW n \in Seg PROVE Chain(n)'
  BY <1>6, <1>13 DEF Chain, Scheduled
<1>15. Counted' = {} /\ Cardinality(Counted') = 0
  BY FS_EmptySet DEF Counted
<1>16. Counting'
  BY <1>13, <1>15 DEF Counting
<1>17. Temporary' /\ Replaced'
  BY <1>7 DEF Temporary, Replaced, Begun
<1> QED BY <1>9, <1>10, <1>11, <1>12, <1>14, <1>16, <1>17 DEF Inv

\* The calls of run() and its return leave everything else alone.
LEMMA MainStep ==
  ASSUME Inv, UNCHANGED <<pending, active, finished, failed, attempt, pc, round, content,
                          memory, local, store>>,
         main' \in {"idle", "joining"},
         main' = "idle" => active = {} /\ \A t \in pending : t.kind = "downloader"
  PROVE  Inv'
<1> USE DEF content, local, store
<1>1. Live' = Live /\ Scheduled' = Scheduled /\ Exec'
  BY DEF Live, Scheduled, Inv, Exec
<1>2. Types' /\ Beginning' /\ Pieces' /\ TargetInv'
  BY <1>1 DEF Inv, Types, Beginning, Begun, Pieces, TargetInv, DownloadedAs
<1>3. ASSUME NEW n \in Seg, round # 0 PROVE Chain(n)'
  BY <1>1, <1>3 DEF Inv, Chain
<1>4. Counted' = Counted
  BY <1>1 DEF Counted
<1>5. Counting'
  BY <1>1, <1>4 DEF Inv, Counting
<1>6. Temporary' /\ Replaced'
  BY <1>1 DEF Inv, Temporary, Replaced, Begun, Users, Complete
<1> QED BY <1>1, <1>2, <1>3, <1>5, <1>6 DEF Inv

LEMMA InitStep == ASSUME Init PROVE Inv
<1> USE DEF Init, Body!InitBodies, Body!Init
<1>1. Live = {} /\ Scheduled = {}
  BY DEF Live, Scheduled
<1>2. Exec
  BY <1>1, DownloadAssumption DEF Exec
<1>3. Whole(1).mtime \in Nat /\ Whole(1).size \in Nat /\ Size[1] \in Nat /\ Segs[1] \in Seg
  BY SegsType, DownloadAssumption DEF Whole
<1>4. /\ target.mtime \in Nat /\ target.size \in Nat
      /\ \E k \in Seg \cup {0} : target.pieces \in [1..k -> Version \cup {0}]
      /\ TargetInv
  <2>1. CASE target = Absent
    <3>1. <<>> \in [1..0 -> Version \cup {0}]
      OBVIOUS
    <3> QED BY <2>1, <3>1 DEF Absent, TargetInv, DownloadedAs
  <2>2. CASE target = Whole(1)
    <3>1. target.pieces \in [1..Segs[1] -> Version \cup {0}]
      BY <2>2, SegsType DEF Whole
    <3>2. target.mtime = Time[1] /\ target.size = Size[1] /\ remote = 1
      BY <2>2 DEF Whole
    <3>3. target.pieces = [n \in 1..Segs[1] |-> 1]
      BY <2>2 DEF Whole
    <3>4. 1 \in Version /\ 1 <= remote /\ DownloadedAs(1)
      BY <3>2, <3>3, SegsType DEF DownloadedAs
    <3>5. TargetInv
      BY <2>2, <3>4 DEF Whole, TargetInv, DownloadedAs
    <3>6. target.mtime \in Nat /\ target.size \in Nat
      BY <1>3, <2>2
    <3> QED BY <1>3, <3>1, <3>5, <3>6
  <2> QED BY <2>1, <2>2
<1>5. Types
  BY <1>4, SegsType DEF Types
<1>6. Beginning /\ Pieces /\ Counting /\ Temporary /\ Replaced
  BY <1>1 DEF Beginning, Begun, Pieces, Counting, Temporary, Replaced
<1> QED BY <1>2, <1>4, <1>5, <1>6 DEF Inv

\* The inductive invariant, step by step.
LEMMA InvStep == Inv /\ [Next]_vars => Inv'
<1> SUFFICES ASSUME Inv, [Next]_vars PROVE Inv'
  OBVIOUS
<1>1. ASSUME NEW t \in Task, Start(t) PROVE Inv'
  BY <1>1, StartStep
<1>2. ASSUME NEW r \in Runs, DownloaderStep(r) PROVE Inv'
  BY <1>2, SkipStep, BeginStep, FailsStep, SpawnedStep DEF DownloaderStep
<1>3. ASSUME NEW r \in Runs, NEW n \in Seg, SegmentStep(r, n) PROVE Inv'
  BY <1>3, SpawnSegmentStep, GetStep, SpawnWriteStep, WriteStep, CountStep, HandedOverStep,
     DecompressStep DEF SegmentStep
<1>4. CASE RemoteChanges
  BY <1>4, RemoteChangesStep
<1>5. CASE Submit
  BY <1>5, SubmitStep
<1>6. CASE run
  BY <1>6, MainStep DEF run, Body!Run
<1>7. CASE Return
  BY <1>7, MainStep DEF Return, Body!Return
<1>8. CASE UNCHANGED vars
  BY <1>8, MainStep DEF vars, exec, Inv, Exec
<1> QED BY <1>1, <1>2, <1>3, <1>4, <1>5, <1>6, <1>7, <1>8 DEF Next

\* Inv holds of every state of the download, whatever the number of runs, versions and
\* segments.
THEOREM Invariance == Spec => []Inv
BY InitStep, InvStep, PTL DEF Spec

-----------------------------------------------------------------------------
\* Every variable has its type; the segments counted are never more than there are.
THEOREM TypeCorrect == Spec => []TypeOK
<1>1. ASSUME Inv PROVE TypeOK
  <2>1. segments_read_ \in 0..num_segments_
    <3>1. CASE round # 0
      BY <1>1, <3>1, CountedFacts
    <3>2. CASE round = 0
      BY <1>1, <3>2, SegsType DEF Inv, Types, Beginning, Begun
    <3> QED BY <3>1, <3>2
  <2> QED BY <1>1, <2>1 DEF TypeOK, Inv, Exec, Types
<1> QED BY <1>1, Invariance, PTL

\* A file that passes for up to date is the object, provided no version before it
\* carried its time: the version the file was downloaded as is the current one then,
\* and what is in the file is no older than that and no newer than the object.
THEOREM StaleFilesAreFetched == Spec => []StaleNeverLooksFresh
<1>1. ASSUME Inv, LooksUpToDate, TimeIsNew PROVE target = Whole(remote)
  <2>1. /\ target.mtime = Time[remote] /\ target.mtime # 0
        /\ remote \in Version /\ remote # 0 /\ remote \in Nat
    BY <1>1, SegsType DEF LooksUpToDate, Inv, Types
  <2>2. PICK s \in Version : s <= remote /\ DownloadedAs(s)
    BY <1>1, <2>1 DEF Inv, TargetInv
  <2>3. s = remote
    <3>1. s \in Nat \ {0} /\ Time[s] = Time[remote]
      BY <2>1, <2>2, SegsType DEF DownloadedAs
    <3>2. s \notin 1..(remote - 1)
      BY <1>1, <3>1 DEF TimeIsNew
    <3> QED BY <2>1, <2>2, <3>1, <3>2
  <2>4. PICK k \in Seg \cup {0} : target.pieces \in [1..k -> Version \cup {0}]
    BY <1>1 DEF Inv, Types
  <2>5. DOMAIN target.pieces = 1..Segs[remote] /\ target.size = Size[remote]
    BY <2>2, <2>3 DEF DownloadedAs
  <2>6. ASSUME NEW n \in 1..Segs[remote] PROVE target.pieces[n] = remote
    <3>1. target.pieces[n] \in Nat
      <4>1. n \in DOMAIN target.pieces
        BY <2>5
      <4>2. target.pieces[n] \in Version \cup {0}
        BY <2>4, <4>1
      <4>3. \A v \in Version \cup {0} : v \in Nat
        BY SegsType
      <4> QED BY <4>2, <4>3
    <3>2. remote <= target.pieces[n] /\ target.pieces[n] <= remote
      BY <2>2, <2>3 DEF DownloadedAs
    <3> QED BY <2>1, <3>1, <3>2
  <2>7. target.pieces = [n \in 1..Segs[remote] |-> remote]
    BY <2>4, <2>5, <2>6
  <2>8. target = [mtime |-> target.mtime, size |-> target.size, pieces |-> target.pieces]
    BY <1>1 DEF Inv, TargetInv
  <2> QED BY <2>1, <2>5, <2>7, <2>8 DEF Whole
<1>2. Inv => StaleNeverLooksFresh
  BY <1>1 DEF StaleNeverLooksFresh
<1> QED BY <1>2, Invariance, PTL

\* A run that reports no failure has left the object HEAD saw under its name, if it is
\* still the current one: every segment was read, written and counted.
THEOREM SuccessIsWhole == Spec => []SuccessMeansDownloaded
<1>1. ASSUME Inv, main = "idle", round # 0, Downloader(round) \in finished,
             \A t \in failed : t.run # round, remote = seen
      PROVE  target = Whole(remote)
  <2>1. Live = {} /\ Scheduled = finished /\ active = {}
    BY <1>1, IdleFacts DEF Scheduled
  <2>2. round \in Runs /\ remote \in Version /\ remote # 0 /\ remote \in Nat
    BY <1>1, SegsType, DownloadAssumption DEF Inv, Exec, Types, Runs
  <2>3. /\ num_segments_ = Segs[remote] /\ Begun /\ num_segments_ \in Nat
        /\ 1..num_segments_ \subseteq Seg
    <3>1. num_segments_ = Segs[remote] /\ num_segments_ \in Seg
      BY <1>1, <2>2, SegsType DEF Inv, Beginning
    <3> QED BY <3>1, SegsType, DownloadAssumption DEF Begun, Seg
  <2>4. ASSUME NEW n \in 1..num_segments_ PROVE temp[n] # 0 /\ n \in Counted
    <3>1. n \in Seg /\ Chain(n)
      BY <1>1, <2>3 DEF Inv
    <3>2. /\ Downloader(round) \notin failed /\ Segment(round, n) \notin failed
          /\ Write(round, n) \notin failed
      BY <1>1, <2>2, <3>1, TaskFacts
    <3>3. Segment(round, n) \in finished
      BY <1>1, <2>1, <2>3, <3>2 DEF Inv, Beginning
    <3>4. Write(round, n) \in finished
      BY <2>1, <3>1, <3>2, <3>3 DEF Chain
    <3>5. temp[n] # 0
      BY <3>1, <3>2, <3>4 DEF Chain
    <3>6. pc[Write(round, n)] # "spawning"
      BY <1>1, <2>1, <2>2, <3>1, TaskFacts DEF Inv, Exec
    <3> QED BY <3>1, <3>5, <3>6 DEF Counted
  <2>5. Counted = 1..num_segments_ /\ segments_read_ = num_segments_
    <3>1. Counted = 1..num_segments_
      BY <1>1, <2>4, CountedFacts
    <3>2. Cardinality(1..num_segments_) = num_segments_
      BY <2>3, FS_Interval
    <3> QED BY <1>1, <3>1, <3>2 DEF Inv, Counting
  <2>6. target = Complete
    BY <1>1, <2>1, <2>3, <2>5 DEF Inv, Replaced
  <2>7. \A n \in 1..num_segments_ : temp[n] = remote
    <3>1. \A n \in 1..num_segments_ : temp[n] \in Version \cup {0}
      BY <1>1, <2>3 DEF Inv, Types
    <3>2. \A v \in Version \cup {0} : v \in Nat
      BY SegsType
    <3>3. \A n \in 1..num_segments_ : remote <= temp[n] /\ temp[n] <= remote
      BY <1>1, <2>3, <2>4 DEF Inv, Pieces
    <3>4. ASSUME NEW n \in 1..num_segments_ PROVE temp[n] = remote
      <4>1. temp[n] \in Nat /\ remote <= temp[n] /\ temp[n] <= remote
        BY <3>1, <3>2, <3>3
      <4> QED BY <2>2, <4>1
    <3> QED BY <3>4
  <2> QED BY <1>1, <2>2, <2>3, <2>6, <2>7 DEF Complete, Whole
<1>2. Inv => SuccessMeansDownloaded
  BY <1>1 DEF SuccessMeansDownloaded
<1> QED BY <1>2, Invariance, PTL

\* The temporary file has a name exactly as long as somebody needs it: it is gone when
\* run() returns, and there for every write to come and for the decompressor.
THEOREM TemporaryFileIsOwned == Spec => []TempCleaned
<1>1. ASSUME Inv, main = "idle" PROVE ~temp_exists
  <2>1. ASSUME temp_exists PROVE FALSE
    <3>1. active = {} /\ \A t \in pending : t.kind = "downloader"
      BY <1>1 DEF Inv, Exec
    <3>2. PICK t \in Live : IF delete_temp_file_ THEN t \in Users(round) ELSE t.kind = "decompressor"
      BY <1>1, <2>1 DEF Inv, Temporary
    <3>3. t \in pending /\ t \in Task /\ t.run = round /\ t.kind = "downloader"
      BY <1>1, <3>1, <3>2 DEF Live, Inv, Exec
    <3>4. round \in Runs /\ round # 0 /\ t = Downloader(round)
      BY <3>3, TaskCases, TaskKinds, SegsType
    <3> QED BY <1>1, <2>1, <3>3, <3>4 DEF Inv, Temporary, Beginning
  <2> QED BY <2>1
<1>2. ASSUME Inv, NEW t \in pending \cup active, t.kind = "write", pc[t] # "spawning"
      PROVE  temp_exists
  <2>1. t \in Live /\ t \in Task /\ t.run = round
    BY <1>2 DEF Live, Inv, Exec
  <2>2. round \in Runs /\ round # 0 /\ t.num \in Seg /\ t = Write(round, t.num)
    BY <1>2, <2>1, TaskCases, TaskKinds, SegsType
  <2>3. Chain(t.num)
    BY <1>2, <2>2 DEF Inv
  <2>4. temp[t.num] = 0 /\ t.num <= num_segments_
    <3>1. t \in Scheduled /\ (t \in active => pc[t] = "entry")
      BY <1>2, <2>1 DEF Scheduled, Inv, Exec
    <3> QED BY <2>1, <2>2, <2>3, <3>1 DEF Chain, Scheduled, Live
  <2>5. segments_read_ < num_segments_
    BY <1>2, <2>2, <2>4, CountedFacts DEF Counted
  <2>6. t \in Live \cap Users(round)
    BY <1>2, <2>1 DEF Users
  <2> QED BY <1>2, <2>5, <2>6 DEF Inv, Temporary
<1>3. ASSUME Inv, NEW t \in pending \cup active, t.kind = "decompressor" PROVE temp_exists
  BY <1>3, Owner DEF Live
<1>4. Inv => TempCleaned
  BY <1>1, <1>2, <1>3 DEF TempCleaned
<1> QED BY <1>4, Invariance, PTL

\* What ReplacedWhole says of one step.
WholeStep ==
  target' # target =>
    \/ round \in DeleteDir /\ target' = Absent
    \/ /\ DOMAIN target'.pieces = 1..num_segments_
       /\ \A n \in 1..num_segments_ : target'.pieces[n] # 0

\* The local file is never seen half written: a step that changes it puts a file there
\* that has all its segments, or clears away what was in the way.
THEOREM ReplacementIsWhole == Spec => ReplacedWhole
<1>1. ASSUME Inv, NEW r \in Runs, DownloaderStep(r) PROVE WholeStep
  <2>1. target' # target => target' = Absent /\ r \in DeleteDir /\ pc[Downloader(r)] = "entry"
    BY <1>1 DEF DownloaderStep, SkipDownload, BeginDownload, DownloaderFails, Spawned, Cleared, local
  <2> QED BY <1>1, <2>1, NothingYet DEF WholeStep
<1>2. ASSUME Inv, Replace, \A k \in 1..num_segments_ : temp[k] # 0 PROVE WholeStep
  <2>1. target'.pieces = [k \in 1..num_segments_ |-> temp[k]]
    BY <1>2 DEF Replace
  <2> QED BY <1>2, <2>1 DEF WholeStep
<1>3. ASSUME Inv, NEW r \in Runs, NEW n \in Seg, Count(r, n), target' # target PROVE WholeStep
  <2>1. Replace /\ segments_read_' = num_segments_
    BY <1>3 DEF Count
  <2> QED BY <1>2, <1>3, <2>1, CountFacts
<1>4. ASSUME Inv, NEW r \in Runs, NEW n \in Seg, Decompress(r, n), target' # target PROVE WholeStep
  <2>1. Replace
    BY <1>4 DEF Decompress
  <2>2. Decompressor(r, n) \in Live /\ round # 0 /\ Decompressor(r, n).kind = "decompressor"
    BY <1>4, TaskFacts, RunFacts DEF Decompress, Live
  <2>3. Counted = 1..num_segments_
    BY <1>4, <2>2, Owner, CountedFacts
  <2> QED BY <1>2, <1>4, <2>1, <2>3 DEF Counted
<1>5. ASSUME Inv, NEW r \in Runs, NEW n \in Seg, SegmentStep(r, n) PROVE WholeStep
  <2>1. target' # target => Count(r, n) \/ Decompress(r, n)
    BY <1>5 DEF SegmentStep, SpawnSegment, Get, SpawnWrite, do_write, HandedOver, local
  <2> QED BY <1>3, <1>4, <1>5, <2>1 DEF WholeStep
<1>6. Inv /\ [Next]_vars => [WholeStep]_vars
  <2> SUFFICES ASSUME Inv, Next PROVE WholeStep
    OBVIOUS
  <2>1. target' # target => \E r \in Runs : DownloaderStep(r) \/ \E n \in Seg : SegmentStep(r, n)
    BY DEF Next, Start, RemoteChanges, Submit, run, Return, local
  <2> QED BY <1>1, <1>5, <2>1 DEF WholeStep
<1>7. Spec => [][WholeStep]_vars
  BY <1>6, Invariance, PTL DEF Spec
<1> QED BY <1>7 DEF WholeStep, ReplacedWhole
=============================================================================
