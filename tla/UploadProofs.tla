---------------------------- MODULE UploadProofs ----------------------------
(***************************************************************************)
(* Proofs about Upload.  The inductive invariant Inv has two halves that   *)
(* meet only in the executor: what the parts ask of the object store       *)
(* (Asked, Counting), and how the blocks and pumps hand the file and its   *)
(* temporary files on to them (Blocks, Files, Handing).                    *)
(***************************************************************************)
EXTENDS Upload, PartitionProofs, FiniteSetTheorems

-----------------------------------------------------------------------------
\* There is something to upload, and every part has a pump that reads it.
LEMMA Sizes ==
  /\ NumParts \in Nat \ {0} /\ NumBlocks \in Nat \ {0} /\ NumPumps \in Nat
  /\ \A n \in Parts : PumpOf(n) \in 1..NumPumps
  /\ MaxAttempts \in Nat \ {0} /\ Compress \in BOOLEAN
<1>1. ASSUME NEW size \in Nat \ {0}, NEW unit \in Nat \ {0}
      PROVE  NumPieces(size, unit) \in Nat \ {0}
  <2>1. NumPieces(size, unit) \in Nat /\ size <= unit * NumPieces(size, unit)
    BY Offsets
  <2>2. NumPieces(size, unit) # 0
    BY <2>1
  <2> QED BY <2>1, <2>2
<1>2. NumParts \in Nat \ {0}
  <2>1. (IF Compress THEN PackedSize ELSE FileSize) \in Nat
    BY UploadAssumption
  <2> QED BY <1>1, <2>1, UploadAssumption DEF NumParts, number_of_segments
<1>3. NumBlocks \in Nat \ {0}
  <2>1. CASE Compress
    <3> DEFINE size == block_sz(FileSize, MINIMAL_BLOCK, CPUCapability)
    <3>1. FileSize \in Nat \ {0} /\ FileSize > MINIMAL_BLOCK
      BY <2>1, UploadAssumption
    <3>2. size \in Nat /\ size >= MINIMAL_BLOCK
      BY <3>1, BlockSize, UploadAssumption
    <3>3. size \in Nat \ {0}
      BY <3>2, UploadAssumption
    <3> HIDE DEF size
    <3>4. NumPieces(FileSize, size) \in Nat \ {0}
      BY <1>1, <3>1, <3>3
    <3> QED BY <2>1, <3>4 DEF NumBlocks, size
  <2>2. CASE ~Compress
    BY <2>2 DEF NumBlocks
  <2> QED BY <2>1, <2>2
<1>4. PerPump \in Nat \ {0}
  <2>1. MaxInFlight \in Nat /\ MaxInFlight > 1 /\ MaxInFlight # 0 /\ IOCapability \in Nat \ {0}
        /\ NumParts \in Nat /\ MaxInFlight \div 2 \in Nat
    BY <1>2, UploadAssumption
  <2>2. PerPump \in 1..(MaxInFlight \div 2)
    BY <2>1, PumpsAreSmall DEF PerPump
  <2> QED BY <2>1, <2>2
<1>5. NumPumps \in Nat
  BY <1>2, <1>4, Offsets DEF NumPumps
<1>6. ASSUME NEW n \in Parts PROVE PumpOf(n) \in 1..NumPumps
  <2>1. n - 1 \in 0..(NumParts - 1)
    BY <1>2 DEF Parts
  <2>2. \E k \in 1..NumPumps : n - 1 \in Piece(k, NumParts, PerPump)
    BY <1>2, <1>4, <2>1, PiecesCover DEF NumPumps
  <2> QED BY <2>2 DEF PumpOf
<1> QED BY <1>2, <1>3, <1>5, <1>6, UploadAssumption

\* A task is known by its kind.
LEMMA TaskFacts ==
  /\ Uploader \in Task /\ Uploader.kind = "uploader"
  /\ Compress => Compressor \in Task
  /\ Compressor.kind = "compressor"
  /\ \A t \in BlockTask : /\ Compress /\ t \in Task /\ t.kind = "block"
                          /\ t.num \in 1..NumBlocks /\ t = Block(t.num)
  /\ \A b \in 1..NumBlocks : /\ Compress => Block(b) \in BlockTask
                             /\ Block(b).kind = "block" /\ Block(b).num = b
  /\ \A t \in PumpTask : t \in Task /\ t.kind = "pump"
  /\ \A t \in PartTask : /\ t \in Task /\ t.kind = "part" /\ t.gen \in Gen /\ t.num \in Parts
                         /\ t = Part(t.gen, t.num)
  /\ \A t \in Task : \/ t = Uploader
                     \/ t = Compressor /\ Compress
                     \/ t \in BlockTask \/ t \in PumpTask \/ t \in PartTask
<1> USE DEF Uploader, Compressor, Block, Pump, Part
<1>1. /\ Uploader \in Task /\ Uploader.kind = "uploader"
      /\ Compress => Compressor \in Task
      /\ Compressor.kind = "compressor"
  BY DEF Task
<1>2. \A t \in BlockTask : /\ Compress /\ t \in Task /\ t.kind = "block"
                           /\ t.num \in 1..NumBlocks /\ t = Block(t.num)
  BY DEF Task, BlockTask
<1>3. \A b \in 1..NumBlocks : /\ Compress => Block(b) \in BlockTask
                              /\ Block(b).kind = "block" /\ Block(b).num = b
  BY DEF BlockTask
<1>4. \A t \in PumpTask : t \in Task /\ t.kind = "pump"
  BY DEF Task, PumpTask
<1>5. \A t \in PartTask : /\ t \in Task /\ t.kind = "part" /\ t.gen \in Gen /\ t.num \in Parts
                          /\ t = Part(t.gen, t.num)
  BY DEF Task, PartTask
<1>6. \A t \in Task :
        \/ t = Uploader
        \/ t = Compressor /\ Compress
        \/ t \in BlockTask \/ t \in PumpTask \/ t \in PartTask
  BY DEF Task
<1> QED BY <1>1, <1>2, <1>3, <1>4, <1>5, <1>6

\* Who schedules whom.
LEMMA Parents ==
  /\ Parent[Uploader] = NoTask
  /\ Compress => Parent[Compressor] = Uploader
  /\ \A t \in BlockTask : Parent[t] = Compressor
  /\ \A t \in PumpTask : Parent[t] = IF Compress THEN Block(t.gen) ELSE Uploader
  /\ \A g \in Gen, k \in 1..NumPumps : Pump(g, k) \in PumpTask /\ Pump(g, k).gen = g
  /\ \A t \in PartTask : Parent[t] = Pump(t.gen, PumpOf(t.num)) /\ Parent[t] \in PumpTask
  /\ \A t \in PumpTask : t.gen \in Gen
<1>1. \A t \in Task : Parent[t] = CASE t.kind = "uploader" -> NoTask
                                    [] t.kind = "compressor" -> Uploader
                                    [] t.kind = "block" -> Compressor
                                    [] t.kind = "pump" -> IF Compress THEN Block(t.gen) ELSE Uploader
                                    [] t.kind = "part" -> Pump(t.gen, PumpOf(t.num))
  BY DEF Parent
<1>2. \A g \in Gen, k \in 1..NumPumps : Pump(g, k) \in PumpTask /\ Pump(g, k).gen = g
  BY DEF PumpTask, Pump
<1>3. \A t \in PartTask : Pump(t.gen, PumpOf(t.num)) \in PumpTask
  BY <1>2, TaskFacts, Sizes
<1>4. \A t \in PumpTask : t.gen \in Gen
  BY DEF PumpTask, Pump
<1>5. Parent[Uploader] = NoTask /\ (Compress => Parent[Compressor] = Uploader)
  BY <1>1, TaskFacts
<1>6. \A t \in BlockTask : Parent[t] = Compressor
  BY <1>1, TaskFacts
<1>7. \A t \in PumpTask : Parent[t] = IF Compress THEN Block(t.gen) ELSE Uploader
  BY <1>1, TaskFacts
<1>8. \A t \in PartTask : Parent[t] = Pump(t.gen, PumpOf(t.num))
  BY <1>1, TaskFacts
<1> QED BY <1>2, <1>3, <1>4, <1>5, <1>6, <1>7, <1>8

\* There are finitely many parts.
LEMMA PartsFinite ==
  IsFiniteSet(PartTask) /\ IsFiniteSet(Parts) /\ Cardinality(Parts) = NumParts
<1> DEFINE f == [x \in Gen \X Parts |-> Part(x[1], x[2])]
<1>1. IsFiniteSet(Parts) /\ Cardinality(Parts) = NumParts
  BY Sizes, FS_Interval DEF Parts
<1>2. IsFiniteSet(Gen)
  <2>1. IsFiniteSet(1..NumBlocks)
    BY Sizes, FS_Interval
  <2>2. IsFiniteSet({0})
    BY FS_Singleton
  <2> QED BY <2>1, <2>2 DEF Gen
<1>3. IsFiniteSet(Gen \X Parts)
  BY <1>1, <1>2, FS_Product
<1>4. f \in Surjection(Gen \X Parts, PartTask)
  <2>1. f \in [Gen \X Parts -> PartTask]
    BY DEF PartTask
  <2>2. \A t \in PartTask : \E x \in Gen \X Parts : f[x] = t
    <3>1. ASSUME NEW t \in PartTask PROVE \E x \in Gen \X Parts : f[x] = t
      <4>1. t.gen \in Gen /\ t.num \in Parts /\ t = Part(t.gen, t.num)
        BY TaskFacts
      <4>2. <<t.gen, t.num>> \in Gen \X Parts
        BY <4>1
      <4> QED BY <4>1, <4>2
    <3> QED BY <3>1
  <2> QED BY <2>1, <2>2 DEF Surjection
<1>5. IsFiniteSet(PartTask)
  BY <1>3, <1>4, FS_Surjection
<1> QED BY <1>1, <1>5

-----------------------------------------------------------------------------
Live == pending \cup active

Exec ==
  /\ pending \subseteq Task /\ active \subseteq Task /\ finished \subseteq Task
  /\ main \in {"idle", "joining"}
  /\ failed \subseteq finished
  /\ attempt \in [Task -> 0..MaxAttempts]
  /\ pc \in [Task -> {"none", "entry", "pending", "spawning", "putting", "counting", "blank"}]
  /\ pending \cap active = {} /\ pending \cap finished = {} /\ active \cap finished = {}
  /\ \A t \in Task : t \in active <=> pc[t] # "none"
  /\ \A t \in Task : attempt[t] = 0 <=> t \notin active \cup finished
  /\ main = "idle" => active = {} /\ pending \subseteq {Uploader}

\* What the steps of Bodies do to the executor.
LEMMA EnterFacts ==
  ASSUME Exec, NEW t \in Task, Body!Enter(t)
  PROVE  /\ Exec' /\ t \in pending /\ pc[t] = "none" /\ t \notin finished
         /\ pending' = pending \ {t} /\ active' = active \cup {t}
         /\ UNCHANGED <<finished, main, failed>>
         /\ pc' = [pc EXCEPT ![t] = "entry"]
         /\ attempt[t] = 0 /\ attempt' = [attempt EXCEPT ![t] = 1]
<1> USE Sizes DEF Body!Enter, Body!Start
<1> QED BY DEF Exec

LEMMA GotoFacts ==
  ASSUME Exec, NEW t \in Task, pc[t] # "none",
         NEW w \in {"entry", "pending", "spawning", "putting", "counting", "blank"}, Body!Goto(t, w)
  PROVE  /\ Exec' /\ t \in active
         /\ UNCHANGED <<pending, active, finished, main, failed, attempt>>
         /\ pc' = [pc EXCEPT ![t] = w]
<1> USE DEF Body!Goto, Body!vars
<1> QED BY DEF Exec

LEMMA SpawnFacts ==
  ASSUME Exec, NEW u \in Task, u = Uploader \/ Parent[u] \in active, Body!Spawn(u)
  PROVE  /\ Exec' /\ u \notin Scheduled
         /\ pending' = pending \cup {u} /\ UNCHANGED <<active, finished, main, failed, pc, attempt>>
<1> USE DEF Body!Spawn, Body!Schedule, Body!bodies, Scheduled
<1> QED BY DEF Exec

LEMMA EndFacts ==
  ASSUME Exec, NEW t \in Task, NEW ok \in BOOLEAN, Body!End(t, ok)
  PROVE  /\ Exec' /\ t \in active /\ t \notin finished
         /\ active' = active \ {t} /\ finished' = finished \cup {t}
         /\ UNCHANGED <<pending, main, attempt>>
         /\ failed' = IF ok THEN failed ELSE failed \cup {t}
         /\ pc' = [pc EXCEPT ![t] = "none"]
<1> USE DEF Body!End, Body!Finish
<1> QED BY DEF Exec

LEMMA WarnFacts ==
  ASSUME Exec, NEW t \in Task, pc[t] # "none", Body!Warn(t)
  PROVE  \/ /\ Exec' /\ t \in active /\ t \notin finished
            /\ UNCHANGED <<pending, active, finished, main, failed>>
            /\ attempt[t] \in 1..(MaxAttempts - 1)
            /\ attempt' = [attempt EXCEPT ![t] = @ + 1]
            /\ pc' = [pc EXCEPT ![t] = "entry"]
         \/ Body!End(t, FALSE)
<1>1. CASE Body!End(t, FALSE)
  BY <1>1
<1>2. CASE /\ attempt[t] < MaxAttempts
           /\ attempt' = [attempt EXCEPT ![t] = @ + 1]
           /\ pc' = [pc EXCEPT ![t] = "entry"]
           /\ UNCHANGED <<Body!vars, failed>>
  <2> USE Sizes DEF Body!vars
  <2>1. t \in active /\ t \notin finished /\ attempt[t] \in 1..(MaxAttempts - 1)
    BY <1>2 DEF Exec
  <2>2. Exec'
    BY <1>2, <2>1 DEF Exec
  <2> QED BY <1>2, <2>1, <2>2
<1> QED BY <1>1, <1>2 DEF Body!Warn

-----------------------------------------------------------------------------
\* How far a body of each kind can have come.
Kinds ==
  /\ pc[Uploader] \in {"none", "entry", "spawning"}
  /\ Compress => pc[Compressor] \in {"none", "entry", "spawning"}
  /\ \A t \in BlockTask : pc[t] \in {"none", "entry", "pending", "spawning"}
  /\ \A t \in PumpTask : pc[t] \in {"none", "entry"}
  /\ \A t \in PartTask : pc[t] \in {"none", "entry", "putting", "counting", "blank"}

\* The rest of the type invariant.
Types ==
  /\ num_pending_ \in Int
  /\ scratch \subseteq 1..NumBlocks
  /\ upload_id_ \in Nat /\ upload_id_ <= initiated
  /\ num_completed_ \in Nat
  /\ etags_ \subseteq Parts
  /\ initiated \in Nat
  /\ open \subseteq 1..initiated
  /\ stored \subseteq Parts
  /\ object \in {"old", "new"}
  /\ unheeded \subseteq Parts

\* The parts that were uploaded: their tasks ended well.
Done == PartTask \cap (finished \ failed)

\* What is asked of the object store for a part, and what it has by then.
Asked ==
  /\ \A t \in PartTask :
       /\ pc[t] \in {"putting", "counting", "blank"} /\ is_multipart => upload_id_ # 0
       /\ pc[t] = "blank" => unheeded # {}
       /\ pc[t] = "counting" => IF is_multipart THEN t.num \in stored ELSE object = "new"
  /\ is_multipart => etags_ \subseteq stored
  /\ ~is_multipart /\ Done # {} => object = "new" \/ unheeded # {}

\* One block has started the upload, not two.
StartedOnce == \A s, t \in PartTask \cap Scheduled : s.gen = t.gen

\* Until it is complete the count is that of the parts uploaded; from then on it is
\* ahead of them, unless the object was assembled, a part failed or the store did
\* not heed a request.
Counting ==
  /\ num_completed_ >= Cardinality(Done)
  /\ num_completed_ < NumParts => /\ num_completed_ = Cardinality(Done)
                                  /\ unheeded = {} => etags_ = {t.num : t \in Done}
  /\ num_completed_ >= NumParts /\ unheeded = {} =>
       /\ StartedOnce => etags_ = Parts
       /\ \/ object = "new"
          \/ failed \cap PartTask # {}
          \/ num_completed_ > Cardinality(Done)

\* All that a task has to schedule is scheduled.
Handed(t) == \A u \in Task : Parent[u] = t => u \in Scheduled

\* The loop of file_compressor is under way or over.
Compressing == pc[Compressor] = "spawning" \/ Compressor \in finished \ failed

\* num_pending_ counts the blocks not recorded yet, and the last of them starts the
\* upload.
Blocks ==
  Compress =>
    /\ BlockTask \cap Scheduled # {} => Compressing
    /\ Compressing => num_pending_ = NumBlocks - Cardinality(Recorded)
    /\ (\E t \in BlockTask : pc[t] = "spawning") \/ PumpTask \cap Scheduled # {}
         => Recorded = 1..NumBlocks
    /\ Recorded = 1..NumBlocks =>
         \E t \in BlockTask : \/ pc[t] \in {"pending", "spawning"}
                              \/ t \in finished /\ Handed(t)

\* The recorded files are there as long as somebody holds them.
Files ==
  /\ Live \cap Holders # {} => Recorded \subseteq scratch
  /\ Live \cap Holders = {} => scratch \cap Recorded = {}
  /\ scratch \subseteq Recorded \cup {b \in 1..NumBlocks : Compress /\ Block(b) \in failed}

\* Who ended well has handed on all of its work.
Handing ==
  /\ Compress /\ Compressor \in finished \ failed => Handed(Compressor)
  /\ \A t \in PumpTask : t \in finished \ failed => Handed(t)
  /\ Uploader \in finished \ failed => object = "new" \/ Handed(Uploader)

Inv ==
  /\ Exec /\ Kinds /\ Types /\ Asked /\ Counting /\ OrphansComeFromRetries
  /\ Blocks /\ Files /\ Handing

-----------------------------------------------------------------------------
LEMMA Finite ==
  /\ \A S \in SUBSET PartTask : IsFiniteSet(S) /\ Cardinality(S) \in Nat
  /\ \A S \in SUBSET (PartTask \X (1..MaxAttempts)) : IsFiniteSet(S) /\ Cardinality(S) \in Nat
  /\ \A S \in SUBSET (1..NumBlocks) :
       /\ IsFiniteSet(S) /\ Cardinality(S) \in Nat
       /\ Cardinality(S) = NumBlocks <=> S = 1..NumBlocks
<1>1. IsFiniteSet(1..MaxAttempts)
  BY Sizes, FS_Interval
<1>2. IsFiniteSet(PartTask \X (1..MaxAttempts))
  BY <1>1, PartsFinite, FS_Product
<1>3. IsFiniteSet(1..NumBlocks) /\ Cardinality(1..NumBlocks) = NumBlocks
  BY Sizes, FS_Interval
<1>4. \A S \in SUBSET PartTask : IsFiniteSet(S) /\ Cardinality(S) \in Nat
  BY PartsFinite, FS_Subset, FS_CardinalityType
<1>5. \A S \in SUBSET (PartTask \X (1..MaxAttempts)) : IsFiniteSet(S) /\ Cardinality(S) \in Nat
  BY <1>2, FS_Subset, FS_CardinalityType
<1>6. \A S \in SUBSET (1..NumBlocks) :
       /\ IsFiniteSet(S) /\ Cardinality(S) \in Nat
       /\ Cardinality(S) = NumBlocks <=> S = 1..NumBlocks
  BY <1>3, FS_Subset, FS_CardinalityType
<1> QED BY <1>4, <1>5, <1>6

LEMMA DoneFinite ==
  /\ IsFiniteSet(Done) /\ Cardinality(Done) \in Nat
  /\ IsFiniteSet(Done') /\ Cardinality(Done') \in Nat
  /\ IsFiniteSet(EndedTries) /\ Cardinality(EndedTries) \in Nat
  /\ IsFiniteSet(EndedTries') /\ Cardinality(EndedTries') \in Nat
<1>1. Done \in SUBSET PartTask /\ Done' \in SUBSET PartTask
  BY DEF Done
<1>2. /\ EndedTries \in SUBSET (PartTask \X (1..MaxAttempts))
      /\ EndedTries' \in SUBSET (PartTask \X (1..MaxAttempts))
  BY DEF EndedTries
<1> QED BY <1>1, <1>2, Finite

\* The tries that ended with an error stay what they are.
LEMMA TriesGrow ==
  ASSUME Exec, Exec', failed \subseteq failed',
         \A t \in PartTask : attempt[t] <= attempt'[t]
  PROVE  EndedTries \subseteq EndedTries' /\ Cardinality(EndedTries) <= Cardinality(EndedTries')
<1>1. ASSUME NEW x \in EndedTries PROVE x \in EndedTries'
  <2>1. /\ x \in PartTask \X (1..MaxAttempts) /\ x[1] \in PartTask /\ x[2] \in Nat
        /\ x[2] < attempt[x[1]] \/ (x[2] = attempt[x[1]] /\ x[1] \in failed)
    BY Sizes DEF EndedTries
  <2>2. attempt[x[1]] \in Nat /\ attempt'[x[1]] \in Nat /\ attempt[x[1]] <= attempt'[x[1]]
    BY <2>1, TaskFacts, Sizes DEF Exec
  <2>3. x[2] < attempt'[x[1]] \/ (x[2] = attempt'[x[1]] /\ x[1] \in failed')
    BY <2>1, <2>2
  <2> QED BY <2>1, <2>3 DEF EndedTries
<1>2. EndedTries \subseteq EndedTries'
  BY <1>1
<1> QED BY <1>2, DoneFinite, FS_Subset

\* A body of another kind leaves the parts alone.
LEMMA Elsewhere ==
  ASSUME Inv, Exec', UNCHANGED <<content, store>>, failed \subseteq failed', Done' = Done,
         Scheduled \subseteq Scheduled',
         \A t \in PartTask : attempt[t] <= attempt'[t] /\ pc'[t] \in {pc[t], "entry"}
  PROVE  Asked' /\ Counting' /\ OrphansComeFromRetries'
<1> USE DEF content, store
<1>1. Asked'
  BY DEF Inv, Asked, is_multipart
<1>2. StartedOnce' => StartedOnce
  BY DEF StartedOnce
<1>3. Counting'
  BY <1>2 DEF Inv, Counting
<1>4. Cardinality(EndedTries) <= Cardinality(EndedTries')
  BY TriesGrow DEF Inv
<1>5. open \ {upload_id_} \in SUBSET (1..initiated)
  BY DEF Inv, Types
<1>6. Cardinality(open \ {upload_id_}) \in Nat
  <2>1. IsFiniteSet(1..initiated)
    BY FS_Interval DEF Inv, Types
  <2> QED BY <1>5, <2>1, FS_Subset, FS_CardinalityType
<1>7. OrphansComeFromRetries'
  BY <1>4, <1>6, DoneFinite DEF Inv, OrphansComeFromRetries
<1> QED BY <1>1, <1>3, <1>7

-----------------------------------------------------------------------------
\* What the step of a part does to the executor.
Moves(t) ==
  /\ Exec' /\ t \in active /\ t \notin finished
  /\ UNCHANGED <<pending, main, num_pending_, scratch>>
  /\ Scheduled' = Scheduled
  /\ failed \subseteq failed' /\ failed' \subseteq failed \cup {t}
  /\ finished \subseteq finished' /\ finished' \subseteq finished \cup {t}
  /\ \A u \in Task : u # t => /\ pc'[u] = pc[u] /\ attempt'[u] = attempt[u]
                              /\ u \in active' <=> u \in active
  /\ pc'[t] \in {"none", "entry", "putting", "counting", "blank"}
  /\ EndedTries \subseteq EndedTries'

\* It goes on, ends well, or with an error.
Went(t, w) ==
  Moves(t) /\ pc' = [pc EXCEPT ![t] = w] /\ UNCHANGED failed /\ Done' = Done
Ended(t) ==
  Moves(t) /\ pc'[t] = "none" /\ UNCHANGED failed /\ Done' = Done \cup {t} /\ t \notin Done
Erred(t) ==
  /\ Moves(t) /\ pc'[t] \in {"none", "entry"} /\ Done' = Done
  /\ Cardinality(EndedTries) + 1 <= Cardinality(EndedTries')
  /\ t \in failed' \/ failed' = failed

LEMMA PartGoes ==
  ASSUME Inv, NEW t \in PartTask, NEW w \in {"putting", "counting", "blank"}, pc[t] # "none",
         Body!Goto(t, w), UNCHANGED <<num_pending_, scratch>>
  PROVE  Went(t, w)
<1>1. /\ Exec' /\ t \in active /\ t \in Task
      /\ UNCHANGED <<pending, active, finished, main, failed, attempt>>
      /\ pc' = [pc EXCEPT ![t] = w]
  BY TaskFacts, GotoFacts DEF Inv
<1>2. EndedTries' = EndedTries /\ Done' = Done /\ Scheduled' = Scheduled
  BY <1>1 DEF EndedTries, Done, Scheduled
<1> QED BY <1>1, <1>2 DEF Went, Moves, Inv, Exec

LEMMA PartEnds ==
  ASSUME Inv, NEW t \in PartTask, Body!End(t, TRUE), UNCHANGED <<num_pending_, scratch>>
  PROVE  Ended(t)
<1>1. /\ Exec' /\ t \in active /\ t \in Task /\ t \notin finished
      /\ active' = active \ {t} /\ finished' = finished \cup {t}
      /\ UNCHANGED <<pending, main, failed, attempt>>
      /\ pc' = [pc EXCEPT ![t] = "none"]
  BY TaskFacts, EndFacts DEF Inv
<1>2. EndedTries' = EndedTries /\ Scheduled' = Scheduled
  BY <1>1 DEF EndedTries, Scheduled
<1>3. Done' = Done \cup {t} /\ t \notin Done
  BY <1>1 DEF Done, Inv, Exec
<1> QED BY <1>1, <1>2, <1>3 DEF Ended, Moves, Inv, Exec

LEMMA PartErrs ==
  ASSUME Inv, NEW t \in PartTask, pc[t] # "none", Body!Warn(t) \/ Body!End(t, FALSE),
         UNCHANGED <<num_pending_, scratch>>
  PROVE  Erred(t)
<1> DEFINE x == <<t, attempt[t]>>
<1>0. t \in Task /\ t \in active /\ t \notin finished /\ t \notin failed
      /\ attempt[t] \in 1..MaxAttempts /\ attempt[t] # 0 /\ attempt[t] \in Nat
      /\ attempt \in [Task -> 0..MaxAttempts]
  BY TaskFacts, Sizes DEF Inv, Exec
<1>1. x \notin EndedTries
  BY <1>0 DEF EndedTries
<1>2. ASSUME EndedTries \subseteq EndedTries', x \in EndedTries'
      PROVE  Cardinality(EndedTries) + 1 <= Cardinality(EndedTries')
  <2>1. /\ IsFiniteSet(EndedTries \cup {x})
        /\ Cardinality(EndedTries \cup {x}) = Cardinality(EndedTries) + 1
    BY <1>1, DoneFinite, FS_AddElement
  <2>2. EndedTries \cup {x} \in SUBSET EndedTries'
    BY <1>2
  <2> QED BY <2>1, <2>2, DoneFinite, FS_Subset
<1>3. CASE Body!End(t, FALSE)
  <2>1. /\ Exec' 
        /\ active' = active \ {t} /\ finished' = finished \cup {t}
        /\ UNCHANGED <<pending, main, attempt>> /\ failed' = failed \cup {t}
        /\ pc' = [pc EXCEPT ![t] = "none"]
    BY <1>0, <1>3, EndFacts DEF Inv
  <2>2. Done' = Done /\ Scheduled' = Scheduled
    BY <1>0, <2>1 DEF Done, Scheduled
  <2>3. x \in EndedTries' /\ EndedTries \subseteq EndedTries'
    BY <1>0, <2>1 DEF EndedTries
  <2> QED BY <1>0, <1>2, <2>1, <2>2, <2>3 DEF Erred, Moves, Inv, Exec
<1>4. CASE Body!Warn(t) /\ ~Body!End(t, FALSE)
  <2>1. /\ Exec' /\ UNCHANGED <<pending, active, finished, main, failed>>
        /\ attempt' = [attempt EXCEPT ![t] = @ + 1]
        /\ pc' = [pc EXCEPT ![t] = "entry"]
    BY <1>0, <1>4, WarnFacts DEF Inv
  <2>2. Done' = Done /\ Scheduled' = Scheduled
    BY <2>1 DEF Done, Scheduled
  <2>3. EndedTries \subseteq EndedTries'
    <3>1. \A u \in PartTask : attempt[u] <= attempt'[u]
      BY <1>0, <2>1, TaskFacts, Sizes DEF Inv, Exec
    <3> QED BY <2>1, <3>1, TriesGrow DEF Inv
  <2>4. x \in EndedTries'
    <3>1. attempt'[t] = attempt[t] + 1
      BY <1>0, <2>1
    <3> QED BY <1>0, <3>1 DEF EndedTries
  <2> QED BY <1>0, <1>2, <2>1, <2>2, <2>3, <2>4 DEF Erred, Moves, Inv, Exec
<1> QED BY <1>3, <1>4

\* A part leaves the blocks, the pumps and the temporary files alone.
LEMMA PartFrame ==
  ASSUME Inv, NEW t \in PartTask, Moves(t), object = "new" => object' = "new"
  PROVE  Kinds' /\ Blocks' /\ Files' /\ Handing'
<1>1. /\ t \in Task /\ t.kind = "part" /\ t \notin BlockTask /\ t \notin PumpTask
      /\ t # Uploader /\ t # Compressor /\ t \notin Holders
      /\ \A b \in 1..NumBlocks : Block(b) # t
  BY TaskFacts DEF Holders
<1>2. \A u \in Task : u # t =>
         /\ pc'[u] = pc[u]
         /\ u \in Live' <=> u \in Live
         /\ u \in finished' <=> u \in finished
         /\ u \in failed' <=> u \in failed
  BY DEF Moves, Live
<1>3. Kinds'
  BY <1>1, <1>2, TaskFacts DEF Inv, Kinds, Moves
<1>4. Recorded' = Recorded
  BY <1>1, <1>2, TaskFacts DEF Recorded
<1>5. Compress => (Compressing' <=> Compressing)
  BY <1>1, <1>2, TaskFacts DEF Compressing
<1>6. \A u : Handed(u)' <=> Handed(u)
  BY DEF Handed, Moves
<1>7. Blocks'
  <2> SUFFICES ASSUME Compress PROVE Blocks'
    BY DEF Blocks
  <2>1. BlockTask \cap Scheduled' # {} => Compressing'
    BY <1>5 DEF Inv, Blocks, Moves
  <2>2. Compressing' => num_pending_' = NumBlocks - Cardinality(Recorded')
    BY <1>4, <1>5 DEF Inv, Blocks, Moves
  <2>3. (\E u \in BlockTask : pc'[u] = "spawning") \/ PumpTask \cap Scheduled' # {}
           => Recorded' = 1..NumBlocks
    BY <1>1, <1>2, <1>4, TaskFacts DEF Inv, Blocks, Moves
  <2>4. Recorded' = 1..NumBlocks =>
         \E u \in BlockTask : \/ pc'[u] \in {"pending", "spawning"}
                              \/ u \in finished' /\ Handed(u)'
    BY <1>1, <1>2, <1>4, <1>6, TaskFacts DEF Inv, Blocks
  <2> QED BY <2>1, <2>2, <2>3, <2>4 DEF Blocks
<1>8. Files'
  <2>1. Live' \cap Holders = Live \cap Holders
    <3>1. \A u \in Live \cup Live' : u \in Task
      BY DEF Live, Inv, Exec, Moves
    <3> QED BY <1>1, <1>2, <3>1
  <2>2. \A b \in 1..NumBlocks : Compress => (Block(b) \in failed' <=> Block(b) \in failed)
    BY <1>1, <1>2, TaskFacts
  <2>3. scratch' = scratch /\ Holders' = Holders
    BY DEF Moves, Holders
  <2> QED BY <1>4, <2>1, <2>2, <2>3 DEF Inv, Files
<1>9. Handing'
  BY <1>1, <1>2, <1>6, TaskFacts DEF Inv, Handing
<1> QED BY <1>3, <1>7, <1>8, <1>9

\* What was counted stays counted.
LEMMA SameCount ==
  ASSUME Inv, NEW t \in PartTask, Moves(t), Done' = Done, UNCHANGED <<num_completed_, etags_>>,
         object = "new" => object' = "new", unheeded \subseteq unheeded'
  PROVE  Counting'
<1>1. StartedOnce' = StartedOnce
  BY DEF StartedOnce, Moves
<1> QED BY <1>1 DEF Inv, Counting, Moves

LEMMA SameOrphans ==
  ASSUME Inv, NEW t \in PartTask, Moves(t), open' \ {upload_id_'} \subseteq open \ {upload_id_}
  PROVE  OrphansComeFromRetries'
<1>1. IsFiniteSet(1..initiated)
  BY FS_Interval DEF Inv, Types
<1>2. open \ {upload_id_} \in SUBSET (1..initiated)
  BY DEF Inv, Types
<1>3. IsFiniteSet(open \ {upload_id_})
  BY <1>1, <1>2, FS_Subset
<1>4. /\ Cardinality(open' \ {upload_id_'}) <= Cardinality(open \ {upload_id_})
      /\ IsFiniteSet(open' \ {upload_id_'})
  BY <1>3, FS_Subset
<1>5. Cardinality(EndedTries) <= Cardinality(EndedTries')
  BY DoneFinite, FS_Subset DEF Moves
<1> QED BY <1>3, <1>4, <1>5, DoneFinite, FS_CardinalityType DEF Inv, OrphansComeFromRetries

LEMMA InitiateStep == ASSUME Inv, NEW t \in PartTask, Initiate(t) PROVE Inv'
<1>1. /\ pc[t] = "entry" /\ t \in Task
      /\ UNCHANGED <<num_pending_, scratch, num_completed_, etags_, stored, object, unheeded>>
  BY TaskFacts DEF Initiate, store
<1>2. /\ \A u \in PartTask : u \in Task
      /\ is_multipart' = is_multipart
      /\ initiated \in Nat /\ initiated + 1 \in Nat /\ initiated + 1 # 0
      /\ upload_id_ \in Nat /\ upload_id_ <= initiated /\ open \subseteq 1..initiated
      /\ 1..initiated \subseteq 1..(initiated + 1) /\ initiated + 1 \in 1..(initiated + 1)
      /\ initiated + 1 \notin open /\ 0 \notin open
  BY TaskFacts DEF Inv, Types, is_multipart
<1>3. CASE /\ ~is_multipart \/ upload_id_ # 0
           /\ Body!Goto(t, "putting") /\ UNCHANGED <<upload_id_, store>>
  <2>1. Went(t, "putting") /\ Moves(t) /\ Done' = Done /\ pc' = [pc EXCEPT ![t] = "putting"]
    BY <1>1, <1>3, PartGoes DEF Went
  <2>2. Kinds' /\ Blocks' /\ Files' /\ Handing' /\ Counting' /\ OrphansComeFromRetries'
    BY <1>1, <1>3, <2>1, PartFrame, SameCount, SameOrphans DEF store
  <2>3. Types'
    BY <1>1, <1>3, <2>1 DEF Inv, Types, store, Moves
  <2>4. Asked'
    BY <1>1, <1>2, <1>3, <2>1 DEF Inv, Asked, store, Moves, Exec
  <2> QED BY <2>1, <2>2, <2>3, <2>4 DEF Inv, Moves
<1>4. CASE /\ is_multipart /\ upload_id_ = 0
           /\ initiated' = initiated + 1 /\ open' = open \cup {initiated'}
           /\ upload_id_' = initiated' /\ Body!Goto(t, "putting")
  <2>1. Went(t, "putting") /\ Moves(t) /\ Done' = Done /\ pc' = [pc EXCEPT ![t] = "putting"]
    BY <1>1, <1>4, PartGoes DEF Went
  <2>2. Kinds' /\ Blocks' /\ Files' /\ Handing' /\ Counting' /\ OrphansComeFromRetries'
    BY <1>1, <1>2, <1>4, <2>1, PartFrame, SameCount, SameOrphans
  <2>3. Types'
    BY <1>1, <1>2, <1>4, <2>1 DEF Inv, Types, Moves
  <2>4. Asked'
    BY <1>1, <1>2, <1>4, <2>1 DEF Inv, Asked, Moves, Exec
  <2> QED BY <2>1, <2>2, <2>3, <2>4 DEF Inv, Moves
<1>5. CASE /\ is_multipart /\ upload_id_ = 0
           /\ \/ initiated' = initiated + 1 /\ open' = open \cup {initiated'}
              \/ UNCHANGED <<initiated, open>>
           /\ UNCHANGED upload_id_
           /\ Body!Warn(t) \/ Body!End(t, FALSE)
  <2>1. /\ Erred(t) /\ Moves(t) /\ Done' = Done /\ pc'[t] \in {"none", "entry"}
        /\ Cardinality(EndedTries) + 1 <= Cardinality(EndedTries')
    BY <1>1, <1>5, PartErrs DEF Erred
  <2>2. Kinds' /\ Blocks' /\ Files' /\ Handing' /\ Counting'
    BY <1>1, <1>5, <2>1, PartFrame, SameCount
  <2>3. OrphansComeFromRetries'
    <3>1. IsFiniteSet(1..initiated)
      BY <1>2, FS_Interval
    <3>2. IsFiniteSet(open) /\ Cardinality(open) \in Nat
      BY <1>2, <3>1, FS_Subset, FS_CardinalityType
    <3>3. open \ {upload_id_} = open /\ open' \ {upload_id_'} = open'
      BY <1>2, <1>5
    <3>4. Cardinality(open') <= Cardinality(open) + 1 /\ Cardinality(open') \in Nat
      <4>1. CASE open' = open
        BY <3>2, <4>1
      <4>2. CASE open' = open \cup {initiated'}
        <5>1. Cardinality(open \cup {initiated'})
                = IF initiated' \in open THEN Cardinality(open) ELSE Cardinality(open) + 1
          BY <3>2, FS_AddElement
        <5> QED BY <3>2, <4>2, <5>1
      <4> QED BY <1>5, <4>1, <4>2
    <3> QED BY <2>1, <3>2, <3>3, <3>4, DoneFinite DEF Inv, OrphansComeFromRetries
  <2>4. Types'
    <3>1. initiated' \in Nat /\ initiated <= initiated' /\ open' \subseteq 1..initiated'
      <4>1. CASE initiated' = initiated + 1 /\ open' = open \cup {initiated'}
        BY <1>2, <4>1
      <4>2. CASE UNCHANGED <<initiated, open>>
        BY <1>2, <4>2
      <4> QED BY <1>5, <4>1, <4>2
    <3> QED BY <1>1, <1>2, <1>5, <2>1, <3>1 DEF Inv, Types, Moves
  <2>5. Asked'
    BY <1>1, <1>2, <1>5, <2>1 DEF Inv, Asked, Moves
  <2> QED BY <2>1, <2>2, <2>3, <2>4, <2>5 DEF Inv, Moves
<1> QED BY <1>3, <1>4, <1>5 DEF Initiate

LEMMA PutStep == ASSUME Inv, NEW t \in PartTask, Put(t) PROVE Inv'
<1>1. /\ pc[t] = "putting" /\ t \in Task /\ t.num \in Parts
      /\ UNCHANGED <<num_pending_, scratch, num_completed_, etags_, upload_id_, initiated, open>>
      /\ stored \subseteq stored' /\ stored' \subseteq stored \cup {t.num}
      /\ object' \in {object, "new"}
      /\ unheeded \subseteq unheeded' /\ unheeded' \subseteq unheeded \cup {t.num}
  <2>1. \/ Receive(t.num) \/ Unheeded(t.num) \/ UNCHANGED store
    BY DEF Put
  <2>2. /\ UNCHANGED <<initiated, open>>
        /\ stored \subseteq stored' /\ stored' \subseteq stored \cup {t.num}
        /\ object' \in {object, "new"}
        /\ unheeded \subseteq unheeded' /\ unheeded' \subseteq unheeded \cup {t.num}
    BY <2>1 DEF Receive, Unheeded, store
  <2> QED BY <2>2, TaskFacts DEF Put, content
<1>2. \A u \in PartTask : u \in Task
  BY TaskFacts
<1>3. Moves(t) => Types'
  BY <1>1 DEF Inv, Types, Moves
<1>4. CASE Receive(t.num) /\ Body!Goto(t, "counting")
  <2>1. Went(t, "counting") /\ Moves(t) /\ Done' = Done /\ pc' = [pc EXCEPT ![t] = "counting"]
    BY <1>1, <1>4, PartGoes DEF Went
  <2>2. Kinds' /\ Blocks' /\ Files' /\ Handing' /\ Counting' /\ OrphansComeFromRetries'
    BY <1>1, <2>1, PartFrame, SameCount, SameOrphans
  <2>3. IF is_multipart THEN t.num \in stored' ELSE object' = "new"
    BY <1>4 DEF Receive
  <2>4. Asked'
    BY <1>1, <1>2, <2>1, <2>3 DEF Inv, Asked, Moves, Exec, is_multipart
  <2> QED BY <1>3, <2>1, <2>2, <2>4 DEF Inv, Moves
<1>5. CASE Body!Warn(t) \/ Body!End(t, FALSE)
  <2>1. Erred(t) /\ Moves(t) /\ Done' = Done /\ pc'[t] \in {"none", "entry"}
    BY <1>1, <1>5, PartErrs DEF Erred
  <2>2. Kinds' /\ Blocks' /\ Files' /\ Handing' /\ Counting' /\ OrphansComeFromRetries'
    BY <1>1, <2>1, PartFrame, SameCount, SameOrphans
  <2>3. Asked'
    BY <1>1, <1>2, <2>1 DEF Inv, Asked, Moves, is_multipart
  <2> QED BY <1>3, <2>1, <2>2, <2>3 DEF Inv, Moves
<1>6. CASE Unheeded(t.num) /\ Body!Goto(t, "blank")
  <2>1. Went(t, "blank") /\ Moves(t) /\ Done' = Done /\ pc' = [pc EXCEPT ![t] = "blank"]
    BY <1>1, <1>6, PartGoes DEF Went
  <2>2. Kinds' /\ Blocks' /\ Files' /\ Handing' /\ Counting' /\ OrphansComeFromRetries'
    BY <1>1, <2>1, PartFrame, SameCount, SameOrphans
  <2>3. unheeded' # {}
    BY <1>6 DEF Unheeded
  <2>4. Asked'
    BY <1>1, <1>2, <2>1, <2>3 DEF Inv, Asked, Moves, Exec, is_multipart
  <2> QED BY <1>3, <2>1, <2>2, <2>4 DEF Inv, Moves
<1> QED BY <1>4, <1>5, <1>6 DEF Put

\* Different parts, as many as there are: if one block started the upload, they are all.
LEMMA AllParts ==
  ASSUME Inv, StartedOnce, NEW t \in PartTask, t \in active, t \notin Done,
         num_completed_ < NumParts, num_completed_ + 1 >= NumParts, unheeded = {}
  PROVE  etags_ \cup {t.num} = Parts
<1> DEFINE D == Done \cup {t}
           f == [u \in D |-> u.num]
<1>1. /\ num_completed_ = Cardinality(Done) /\ etags_ = {u.num : u \in Done}
      /\ num_completed_ \in Nat /\ NumParts \in Nat
  BY Sizes DEF Inv, Counting, Types
<1>2. IsFiniteSet(D) /\ Cardinality(D) = NumParts
  BY <1>1, DoneFinite, FS_AddElement
<1>3. \A u \in D : u \in PartTask \cap Scheduled
  BY DEF Done, Scheduled
<1>4. f \in Injection(D, Parts)
  <2>1. f \in [D -> Parts]
    BY <1>3, TaskFacts
  <2>2. ASSUME NEW u \in D, NEW v \in D, f[u] = f[v] PROVE u = v
    <3>1. u.gen = v.gen /\ u = Part(u.gen, u.num) /\ v = Part(v.gen, v.num)
      BY <1>3, TaskFacts DEF StartedOnce
    <3>2. u.num = v.num
      BY <2>2
    <3> QED BY <3>1, <3>2
  <2> QED BY <2>1, <2>2 DEF Injection, IsInjective
<1>5. f \in Surjection(D, Parts)
  <2> HIDE DEF f
  <2> QED BY <1>2, <1>4, PartsFinite, FS_Injection
<1>6. \A n \in Parts : \E u \in D : u.num = n
  BY <1>5 DEF Surjection
<1>7. t.num \in Parts /\ etags_ \subseteq Parts
  BY TaskFacts DEF Inv, Types
<1> QED BY <1>1, <1>6, <1>7

LEMMA CountStep == ASSUME Inv, NEW t \in PartTask, Count(t) PROVE Inv'
<1>1. /\ pc[t] \in {"counting", "blank"} /\ t \in Task /\ t.num \in Parts /\ t \in active
      /\ UNCHANGED <<num_pending_, scratch, upload_id_, initiated, stored>>
      /\ num_completed_' = num_completed_ + 1
      /\ etags_' = IF pc[t] = "blank" THEN etags_ \ {t.num} ELSE etags_ \cup {t.num}
      /\ open' \subseteq open /\ object' \in {object, "new"}
      /\ unheeded \subseteq unheeded' /\ unheeded' \subseteq unheeded \cup {t.num}
  <2>1. /\ pc[t] \in {"counting", "blank"} /\ UNCHANGED <<num_pending_, scratch, upload_id_>>
        /\ num_completed_' = num_completed_ + 1
        /\ etags_' = IF pc[t] = "blank" THEN etags_ \ {t.num} ELSE etags_ \cup {t.num}
    BY DEF Count
  <2>2. /\ UNCHANGED <<initiated, stored>>
        /\ open' \subseteq open /\ object' \in {object, "new"}
        /\ unheeded \subseteq unheeded' /\ unheeded' \subseteq unheeded \cup {t.num}
    BY DEF Count, complete_multipart, Unheeded, store
  <2>3. t \in Task /\ t.num \in Parts
    BY TaskFacts
  <2>4. t \in active
    BY <2>1, <2>3 DEF Inv, Exec
  <2> QED BY <2>1, <2>2, <2>3, <2>4
<1>2. /\ \A u \in PartTask : u \in Task
      /\ num_completed_ \in Nat /\ num_completed_ + 1 \in Nat /\ NumParts \in Nat
      /\ Cardinality(Done) \in Nat /\ Cardinality(Done') \in Nat
      /\ num_completed_ >= Cardinality(Done)
      /\ num_completed_ < NumParts =>
           /\ num_completed_ = Cardinality(Done)
           /\ unheeded = {} => etags_ = {u.num : u \in Done}
      /\ is_multipart' = is_multipart
  BY TaskFacts, Sizes, DoneFinite DEF Inv, Types, Counting, is_multipart
<1>3. /\ is_multipart => upload_id_ # 0
      /\ pc[t] = "counting" => IF is_multipart THEN t.num \in stored ELSE object = "new"
      /\ unheeded = {} => pc[t] = "counting" /\ etags_' = etags_ \cup {t.num}
      /\ ~is_multipart => object = "new" \/ unheeded # {}
  BY <1>1 DEF Inv, Asked
<1>4. t \notin Done
  BY <1>1 DEF Done, Inv, Exec
<1>5. Moves(t) => Types' /\ Kinds' /\ Blocks' /\ Files' /\ Handing' /\ OrphansComeFromRetries' /\ Exec'
  <2>1. Moves(t) => Types'
    BY <1>1, <1>2 DEF Inv, Types, Moves
  <2> QED BY <1>1, <2>1, PartFrame, SameOrphans DEF Moves
<1>6. ASSUME Moves(t), StartedOnce', num_completed_' >= NumParts, unheeded = {}
      PROVE  etags_' = Parts
  <2>1. StartedOnce
    BY <1>6 DEF StartedOnce, Moves
  <2>2. CASE num_completed_ < NumParts
    BY <1>1, <1>3, <1>4, <1>6, <2>1, <2>2, AllParts
  <2>3. CASE num_completed_ >= NumParts
    <3>1. etags_ = Parts
      BY <1>6, <2>1, <2>3 DEF Inv, Counting
    <3> QED BY <1>1, <1>3, <1>6, <3>1
  <2> QED BY <1>2, <2>2, <2>3
<1>7. ASSUME Moves(t), pc'[t] \in {"none", "entry"},
             Done' = Done \/ object' = "new" \/ is_multipart \/ unheeded' # {}
      PROVE  Asked'
  <2>1. is_multipart => etags_' \subseteq stored'
    BY <1>1, <1>3 DEF Inv, Asked
  <2> QED BY <1>1, <1>2, <1>7, <2>1 DEF Inv, Asked, Moves
<1>8. CASE /\ Body!End(t, TRUE)
           /\ num_completed_' # NumParts \/ object' = "new" \/ unheeded' # {}
  <2>1. Ended(t) /\ Moves(t) /\ Done' = Done \cup {t} /\ pc'[t] = "none" /\ failed' = failed
    BY <1>1, <1>8, PartEnds DEF Ended
  <2>2. Cardinality(Done') = Cardinality(Done) + 1
    BY <1>4, <2>1, DoneFinite, FS_AddElement
  <2>0. unheeded' = {} => unheeded = {}
    BY <1>1
  <2>3. num_completed_' < NumParts /\ unheeded' = {} => etags_' = {u.num : u \in Done'}
    BY <1>1, <1>2, <1>3, <2>0, <2>1
  <2>4. num_completed_' >= NumParts /\ unheeded' = {} =>
          \/ object' = "new" \/ failed' \cap PartTask # {} \/ num_completed_' > Cardinality(Done')
    <3>1. CASE num_completed_ >= NumParts
      BY <1>1, <1>2, <2>0, <2>1, <2>2, <3>1 DEF Inv, Counting
    <3>2. CASE num_completed_ < NumParts
      BY <1>1, <1>2, <1>8, <3>2
    <3> QED BY <1>2, <3>1, <3>2
  <2>5. Counting'
    BY <1>1, <1>2, <1>6, <2>0, <2>1, <2>2, <2>3, <2>4 DEF Counting
  <2>6. Asked'
    BY <1>1, <1>3, <1>7, <2>1
  <2> QED BY <1>5, <2>1, <2>5, <2>6 DEF Inv
<1>9. CASE (Body!Warn(t) \/ Body!End(t, FALSE)) /\ num_completed_' = NumParts
  <2>1. Erred(t) /\ Moves(t) /\ Done' = Done /\ pc'[t] \in {"none", "entry"}
    BY <1>1, <1>9, PartErrs DEF Erred
  <2>2. Counting'
    BY <1>1, <1>2, <1>6, <1>9, <2>1 DEF Counting
  <2> QED BY <1>5, <1>7, <2>1, <2>2 DEF Inv
<1>10. CASE Body!End(t, TRUE) /\ UNCHANGED store /\ upload_id_ = 0
  BY <1>1, <1>3, <1>8, <1>10 DEF store
<1>11. CASE Unheeded(t.num) /\ Body!End(t, TRUE)
  <2>1. unheeded' # {}
    BY <1>11 DEF Unheeded
  <2> QED BY <1>8, <1>11, <2>1
<1> QED BY <1>3, <1>8, <1>9, <1>10, <1>11 DEF Count, complete_multipart

-----------------------------------------------------------------------------
\* Nothing is recorded before the compressor is in its loop.
LEMMA NothingRecorded ==
  ASSUME Inv, Compress, ~Compressing
  PROVE  /\ BlockTask \cap Scheduled = {} /\ Recorded = {} /\ Cardinality(Recorded) = 0
         /\ PumpTask \cap Scheduled = {}
<1>1. BlockTask \cap Scheduled = {}
  BY DEF Inv, Blocks
<1>2. Recorded = {}
  BY <1>1, TaskFacts DEF Recorded, Scheduled, Inv, Exec
<1>3. 1..NumBlocks # {}
  BY Sizes
<1>4. PumpTask \cap Scheduled = {}
  BY <1>2, <1>3 DEF Inv, Blocks
<1> QED BY <1>1, <1>2, <1>4, FS_EmptySet

\* The last owner of the temporary files takes those that are recorded with it.
LEMMA EndFiles ==
  ASSUME Inv, NEW t \in active, NEW files, Recorded' = Recorded, pending' = pending,
         active' = active \ {t}, active \cap pending = {}, scratch' = Disowned(t, files),
         Live \cap Holders # {} => Recorded \subseteq files,
         Live \cap Holders = {} => Recorded \cap files = {},
         files \subseteq Recorded \cup {b \in 1..NumBlocks : Compress /\ Block(b) \in failed'}
  PROVE  Files' /\ scratch' \subseteq files
<1>1. Live' = Live \ {t} /\ t \in Live /\ Holders' = Holders
  BY DEF Live, Holders
<1>2. CASE t \in Holders /\ Live \cap Holders \subseteq {t}
  <2>1. scratch' = files \ Recorded /\ Live' \cap Holders = {}
    BY <1>1, <1>2 DEF Disowned, Live
  <2> QED BY <1>1, <2>1 DEF Files
<1>3. CASE ~(t \in Holders /\ Live \cap Holders \subseteq {t})
  <2>1. scratch' = files
    BY <1>3 DEF Disowned, Live
  <2>2. Live' \cap Holders = {} <=> Live \cap Holders = {}
    BY <1>1, <1>3
  <2> QED BY <1>1, <2>1, <2>2 DEF Files
<1> QED BY <1>2, <1>3

\* The end of a body that is no part: who is done has handed on its work.
LEMMA EndStep ==
  ASSUME Inv, NEW t \in Task, t \notin PartTask, NEW ok \in BOOLEAN, Body!End(t, ok),
         UNCHANGED <<num_pending_, content, store>>,
         NEW files, scratch' = Disowned(t, files), files \subseteq 1..NumBlocks,
         Live \cap Holders # {} => Recorded \subseteq files,
         Live \cap Holders = {} => Recorded \cap files = {},
         files \subseteq Recorded \cup {b \in 1..NumBlocks : Compress /\ Block(b) \in failed'},
         ok => \/ Handed(t)
               \/ t = Uploader /\ object = "new"
               \/ t \in BlockTask /\ pc[t] = "pending" /\ num_pending_ # 0,
         t \in BlockTask => IF ok THEN pc[t] \in {"pending", "spawning"} ELSE pc[t] = "entry",
         t = Compressor => IF ok THEN pc[t] = "spawning" ELSE pc[t] = "entry"
  PROVE  Inv'
<1>1. /\ Exec' /\ t \in active /\ t \notin finished /\ t \notin failed
      /\ active' = active \ {t} /\ finished' = finished \cup {t}
      /\ UNCHANGED <<pending, main, attempt>>
      /\ failed' = IF ok THEN failed ELSE failed \cup {t}
      /\ pc' = [pc EXCEPT ![t] = "none"] /\ pc \in [Task -> {"none", "entry", "pending", "spawning", "putting", "counting", "blank"}]
      /\ pc[t] # "none" /\ pending \cap active = {}
  BY EndFacts DEF Inv, Exec
<1>2. Scheduled' = Scheduled /\ Done' = Done
  BY <1>1 DEF Scheduled, Done, Inv, Exec
<1>3. \A u : Handed(u)' <=> Handed(u)
  BY <1>2 DEF Handed
<1>4. \A u \in Task : u # t => pc'[u] = pc[u]
  BY <1>1
<1>5. Recorded' = Recorded
  <2>1. ASSUME NEW b \in 1..NumBlocks, Compress PROVE b \in Recorded' <=> b \in Recorded
    <3>1. Block(b) \in BlockTask /\ Block(b) \in Task
      BY <2>1, TaskFacts
    <3>2. CASE Block(b) = t
      BY <1>1, <2>1, <3>1, <3>2 DEF Recorded
    <3>3. CASE Block(b) # t
      BY <1>1, <1>4, <2>1, <3>1, <3>3 DEF Recorded
    <3> QED BY <3>2, <3>3
  <2> QED BY <2>1 DEF Recorded
<1>6. Files' /\ scratch' \subseteq 1..NumBlocks
  <2>1. Files' /\ scratch' \subseteq files
    BY <1>1, <1>5, EndFiles
  <2> QED BY <2>1
<1>7. Kinds'
  BY <1>1, <1>4, TaskFacts DEF Inv, Kinds
<1>8. Types'
  BY <1>6 DEF Inv, Types, content, store
<1>9. Asked' /\ Counting' /\ OrphansComeFromRetries'
  <2>1. \A u \in PartTask : u # t /\ u \in Task /\ attempt[u] <= attempt[u] /\ pc'[u] = pc[u]
    BY <1>4, TaskFacts, Sizes DEF Inv, Exec
  <2> QED BY <1>1, <1>2, <2>1, Elsewhere
<1>10. Compress => (Compressing' <=> Compressing)
  BY <1>1, <1>4, TaskFacts DEF Compressing
<1>11. Blocks'
  <2> SUFFICES ASSUME Compress PROVE Blocks'
    BY DEF Blocks
  <2>1. /\ BlockTask \cap Scheduled' # {} => Compressing'
        /\ Compressing' => num_pending_' = NumBlocks - Cardinality(Recorded')
    BY <1>2, <1>5, <1>10 DEF Inv, Blocks
  <2>2. (\E u \in BlockTask : pc'[u] = "spawning") \/ PumpTask \cap Scheduled' # {}
           => Recorded' = 1..NumBlocks
    <3>1. \A u \in BlockTask : pc'[u] = "spawning" => pc[u] = "spawning"
      BY <1>1, <1>4, TaskFacts
    <3> QED BY <1>2, <1>5, <3>1 DEF Inv, Blocks
  <2>3. ASSUME Recorded' = 1..NumBlocks
        PROVE  \E u \in BlockTask : \/ pc'[u] \in {"pending", "spawning"}
                                    \/ u \in finished' /\ Handed(u)'
    <3>1. PICK u \in BlockTask : pc[u] \in {"pending", "spawning"} \/ (u \in finished /\ Handed(u))
      BY <1>5, <2>3 DEF Inv, Blocks
    <3>2. CASE u # t \/ u \in finished
      BY <1>1, <1>3, <1>4, <3>1, <3>2, TaskFacts
    <3>3. CASE u = t /\ u \notin finished
      <4>1. t \in BlockTask /\ pc[t] \in {"pending", "spawning"} /\ ok
        BY <3>1, <3>3
      <4>2. num_pending_ = 0
        <5>1. Compressing
          BY <1>1, <4>1 DEF Inv, Blocks, Scheduled
        <5>2. Cardinality(Recorded) = NumBlocks
          BY <1>5, <2>3, Finite DEF Recorded
        <5> QED BY <5>1, <5>2, Sizes DEF Inv, Blocks
      <4>3. Handed(t)
        BY <4>1, <4>2, TaskFacts
      <4> QED BY <1>1, <1>3, <4>1, <4>3
    <3> QED BY <3>2, <3>3
  <2> QED BY <2>1, <2>2, <2>3 DEF Blocks
<1>12. Handing'
  <2>1. ASSUME NEW u \in Task, u \in finished' \ failed', u \notin BlockTask
        PROVE  u \in finished \ failed \/ Handed(u) \/ (u = Uploader /\ object = "new")
    BY <1>1, <2>1
  <2>2. object' = object
    BY DEF store
  <2> QED BY <1>3, <2>1, <2>2, TaskFacts DEF Inv, Handing
<1> QED BY <1>1, <1>6, <1>7, <1>8, <1>9, <1>11, <1>12 DEF Inv

-----------------------------------------------------------------------------
LEMMA StartStep == ASSUME Inv, NEW t \in Task, Start(t) PROVE Inv'
<1>1. /\ Exec' /\ t \in pending /\ pc[t] = "none" /\ t \notin finished
      /\ pending' = pending \ {t} /\ active' = active \cup {t}
      /\ UNCHANGED <<finished, main, failed>>
      /\ pc' = [pc EXCEPT ![t] = "entry"]
      /\ pc \in [Task -> {"none", "entry", "pending", "spawning", "putting", "counting", "blank"}]
      /\ attempt[t] = 0 /\ attempt' = [attempt EXCEPT ![t] = 1]
      /\ attempt \in [Task -> 0..MaxAttempts]
      /\ UNCHANGED <<num_pending_, scratch, content, store>>
  BY EnterFacts DEF Start, Inv, Exec
<1>2. Live' = Live /\ Scheduled' = Scheduled /\ Done' = Done
  BY <1>1 DEF Live, Scheduled, Done
<1>3. \A u \in Task : u # t => pc'[u] = pc[u]
  BY <1>1
<1>4. \A u : Handed(u)' <=> Handed(u)
  BY <1>2 DEF Handed
<1>5. Recorded' = Recorded
  <2>1. \A b \in 1..NumBlocks : Compress => Block(b) \in Task
    BY TaskFacts
  <2> QED BY <1>1, <1>3, <2>1 DEF Recorded
<1>6. Compress => (Compressing' <=> Compressing)
  BY <1>1, <1>3, TaskFacts DEF Compressing
<1>7. Asked' /\ Counting' /\ OrphansComeFromRetries'
  <2>1. \A u \in PartTask : attempt[u] <= attempt'[u] /\ pc'[u] \in {pc[u], "entry"}
    BY <1>1, <1>3, TaskFacts, Sizes
  <2> QED BY <1>1, <1>2, <2>1, Elsewhere
<1>8. Kinds' /\ Types'
  <2>1. Kinds'
    BY <1>1, <1>3, TaskFacts DEF Inv, Kinds
  <2> QED BY <1>1, <2>1 DEF Inv, Types, content, store
<1>9. Files'
  <2>1. Holders' = Holders
    BY DEF Holders
  <2> QED BY <1>1, <1>2, <1>5, <2>1 DEF Inv, Files
<1>10. Blocks'
  <2>1. \A u \in BlockTask : /\ pc'[u] = "spawning" <=> pc[u] = "spawning"
                             /\ pc'[u] = "pending" <=> pc[u] = "pending"
    BY <1>1, <1>3, TaskFacts
  <2> QED BY <1>1, <1>2, <1>4, <1>5, <1>6, <2>1 DEF Inv, Blocks
<1>11. Handing'
  BY <1>1, <1>4 DEF Inv, Handing, store
<1> QED BY <1>1, <1>7, <1>8, <1>9, <1>10, <1>11 DEF Inv

LEMMA SkipStep == ASSUME Inv, SkipUpload PROVE Inv'
<1>1. /\ Body!End(Uploader, TRUE) /\ object = "new"
      /\ UNCHANGED <<num_pending_, content, store>>
      /\ scratch' = Disowned(Uploader, scratch)
  BY TaskFacts DEF SkipUpload, Disowned, Holders
<1>2. Uploader \in Task /\ Uploader \notin PartTask /\ Uploader \notin BlockTask /\ Uploader # Compressor
  BY TaskFacts
<1>3. Inv /\ failed' = failed
  BY <1>1 DEF Body!End
<1> QED BY <1>1, <1>2, <1>3, EndStep DEF Inv, Files, Types

\* The uploader starts over, or goes on to schedule its tasks.
LEMMA UploaderGoes ==
  ASSUME Inv, pc[Uploader] # "none", Exec', UNCHANGED <<pending, active, finished, main, failed>>,
         NEW w \in {"entry", "spawning"}, pc' = [pc EXCEPT ![Uploader] = w],
         \A t \in PartTask : attempt[t] <= attempt'[t],
         UNCHANGED <<num_pending_, scratch, content, store>>
  PROVE  Inv'
<1>1. /\ Live' = Live /\ Scheduled' = Scheduled /\ Done' = Done
      /\ pc \in [Task -> {"none", "entry", "pending", "spawning", "putting", "counting", "blank"}]
  BY DEF Live, Scheduled, Done, Inv, Exec
<1>2. \A u \in Task : u # Uploader => pc'[u] = pc[u]
  BY <1>1
<1>3. \A u : Handed(u)' <=> Handed(u)
  BY <1>1 DEF Handed
<1>4. Recorded' = Recorded
  BY <1>2, TaskFacts DEF Recorded
<1>5. Compress => (Compressing' <=> Compressing)
  BY <1>2, TaskFacts DEF Compressing
<1>6. Asked' /\ Counting' /\ OrphansComeFromRetries'
  <2>1. \A u \in PartTask : pc'[u] = pc[u]
    BY <1>2, TaskFacts
  <2> QED BY <1>1, <2>1, Elsewhere
<1>7. Kinds' /\ Types'
  <2>1. Kinds'
    BY <1>1, <1>2, TaskFacts DEF Inv, Kinds
  <2> QED BY <2>1 DEF Inv, Types, content, store
<1>8. Files'
  <2>1. Holders' = Holders
    BY DEF Holders
  <2> QED BY <1>1, <1>4, <2>1 DEF Inv, Files
<1>9. Blocks'
  BY <1>1, <1>2, <1>3, <1>4, <1>5, TaskFacts DEF Inv, Blocks
<1>10. Handing'
  BY <1>3 DEF Inv, Handing, store
<1> QED BY <1>6, <1>7, <1>8, <1>9, <1>10 DEF Inv

LEMMA UploaderStep == ASSUME Inv, BeginUpload \/ UploaderFails PROVE Inv'
<1>1. /\ pc[Uploader] = "entry" /\ UNCHANGED <<num_pending_, scratch, content, store>>
      /\ Uploader \in Task /\ Uploader \notin PartTask /\ Uploader \notin BlockTask
      /\ Uploader # Compressor
      /\ \A t \in PartTask : t \in Task /\ attempt[t] \in Nat
  <2>1. pc[Uploader] = "entry" /\ UNCHANGED <<num_pending_, scratch, content, store>>
    BY DEF BeginUpload, UploaderFails
  <2>2. \A t \in PartTask : t \in Task /\ attempt[t] \in Nat
    BY TaskFacts, Sizes DEF Inv, Exec
  <2>3. /\ Uploader \in Task /\ Uploader \notin PartTask /\ Uploader \notin BlockTask
        /\ Uploader # Compressor
    BY TaskFacts
  <2> QED BY <2>1, <2>2, <2>3
<1>2. CASE Body!Goto(Uploader, "spawning")
  BY <1>1, <1>2, GotoFacts, UploaderGoes DEF Inv
<1>3. CASE Body!End(Uploader, FALSE)
  <2>1. scratch' = Disowned(Uploader, scratch) /\ failed \subseteq failed'
    BY <1>1, <1>3, TaskFacts DEF Disowned, Holders, Body!End
  <2> QED BY <1>1, <1>3, <2>1, EndStep DEF Inv, Files, Types
<1>4. CASE Body!Warn(Uploader) /\ ~Body!End(Uploader, FALSE)
  <2>1. /\ Exec' /\ UNCHANGED <<pending, active, finished, main, failed>>
        /\ attempt' = [attempt EXCEPT ![Uploader] = @ + 1]
        /\ pc' = [pc EXCEPT ![Uploader] = "entry"]
    BY <1>1, <1>4, WarnFacts DEF Inv
  <2>2. \A t \in PartTask : attempt[t] <= attempt'[t]
    BY <1>1, <2>1 DEF Inv, Exec
  <2> QED BY <1>1, <2>1, <2>2, UploaderGoes
<1> QED BY <1>2, <1>3, <1>4 DEF BeginUpload, UploaderFails

LEMMA BeginCompressionStep == ASSUME Inv, BeginCompression PROVE Inv'
<1>1. /\ Compress /\ pc[Compressor] = "entry" /\ Compressor \in Task
      /\ UNCHANGED <<scratch, content, store>>
      /\ Compressor \notin PartTask /\ Compressor \notin BlockTask /\ Compressor \in Holders
      /\ Compressor # Uploader
  BY TaskFacts DEF BeginCompression, Holders
<1>2. ~Compressing /\ Compressor \in active /\ Compressor \in Live
  BY <1>1 DEF Compressing, Inv, Exec, Live
<1>3. /\ BlockTask \cap Scheduled = {} /\ Recorded = {} /\ Cardinality(Recorded) = 0
      /\ PumpTask \cap Scheduled = {}
  BY <1>1, <1>2, NothingRecorded
<1>4. CASE Body!End(Compressor, FALSE) /\ UNCHANGED num_pending_
  <2>1. scratch' = Disowned(Compressor, scratch) /\ failed \subseteq failed'
    BY <1>1, <1>3, <1>4 DEF Disowned, Body!End
  <2> QED BY <1>1, <1>3, <1>4, <2>1, EndStep DEF Inv, Files, Types
<1>5. CASE Body!Goto(Compressor, "spawning") /\ num_pending_' = NumBlocks
  <2>1. /\ Exec' /\ UNCHANGED <<pending, active, finished, main, failed, attempt>>
        /\ pc' = [pc EXCEPT ![Compressor] = "spawning"]
        /\ pc \in [Task -> {"none", "entry", "pending", "spawning", "putting", "counting", "blank"}]
    BY <1>1, <1>5, GotoFacts DEF Inv, Exec
  <2>2. \A u \in Task : u # Compressor => pc'[u] = pc[u]
    BY <2>1
  <2>3. Live' = Live /\ Scheduled' = Scheduled /\ Done' = Done
    BY <2>1 DEF Live, Scheduled, Done
  <2>4. Recorded' = Recorded
    BY <2>1, <2>2, TaskFacts DEF Recorded
  <2>5. Asked' /\ Counting' /\ OrphansComeFromRetries'
    <3>1. \A u \in PartTask : attempt[u] <= attempt'[u] /\ pc'[u] = pc[u]
      BY <2>1, <2>2, TaskFacts, Sizes DEF Inv, Exec
    <3> QED BY <1>1, <2>1, <2>3, <3>1, Elsewhere
  <2>6. Kinds' /\ Types'
    <3>1. Kinds'
      BY <1>1, <2>1, <2>2, TaskFacts DEF Inv, Kinds
    <3> QED BY <1>1, <1>5, <3>1, Sizes DEF Inv, Types, content, store
  <2>7. Files'
    <3>1. Holders' = Holders
      BY DEF Holders
    <3> QED BY <1>1, <2>1, <2>3, <2>4, <3>1 DEF Inv, Files
  <2>8. Blocks'
    <3>1. Compressing'
      BY <1>1, <2>1 DEF Compressing
    <3>2. num_pending_' = NumBlocks - Cardinality(Recorded')
      BY <1>3, <1>5, <2>4, Sizes
    <3>3. \A u \in BlockTask : pc'[u] # "spawning"
      BY <1>3, <2>2, TaskFacts DEF Inv, Exec, Scheduled
    <3>4. Recorded' # 1..NumBlocks
      BY <1>3, <2>4, Sizes
    <3> QED BY <1>3, <2>3, <3>1, <3>2, <3>3, <3>4 DEF Blocks
  <2>9. Handing'
    <3>1. \A u : Handed(u)' <=> Handed(u)
      BY <2>3 DEF Handed
    <3> QED BY <1>1, <2>1, <3>1 DEF Inv, Handing, store
  <2> QED BY <2>1, <2>5, <2>6, <2>7, <2>8, <2>9 DEF Inv
<1> QED BY <1>4, <1>5 DEF BeginCompression

\* A block that is under way has been scheduled by the compressor.
LEMMA BlockFacts ==
  ASSUME Inv, Compress, NEW b \in 1..NumBlocks, pc[Block(b)] # "none"
  PROVE  /\ Block(b) \in BlockTask /\ Block(b) \in Task /\ Block(b) \notin PartTask
         /\ Block(b) # Compressor /\ Block(b) # Uploader /\ Block(b) \in Holders
         /\ Block(b) \in active /\ Block(b) \in Live /\ Block(b) \notin finished
         /\ Compressing /\ num_pending_ = NumBlocks - Cardinality(Recorded)
         /\ Recorded \subseteq scratch
         /\ pc[Block(b)] = "entry" =>
              /\ b \notin Recorded /\ Recorded # 1..NumBlocks /\ PumpTask \cap Scheduled = {}
              /\ \A u \in BlockTask : pc[u] # "spawning"
<1> DEFINE t == Block(b)
<1>1. /\ t \in BlockTask /\ t \in Task /\ t \notin PartTask /\ t # Compressor /\ t # Uploader
      /\ t \in Holders
  BY TaskFacts DEF Holders
<1>2. t \in active /\ t \in Live /\ t \notin finished /\ t \in Scheduled
  BY <1>1 DEF Inv, Exec, Live, Scheduled
<1>3. Compressing /\ num_pending_ = NumBlocks - Cardinality(Recorded)
  BY <1>1, <1>2 DEF Inv, Blocks
<1>4. Recorded \subseteq scratch
  BY <1>1, <1>2 DEF Inv, Files
<1>5. ASSUME pc[t] = "entry"
      PROVE  /\ b \notin Recorded /\ Recorded # 1..NumBlocks /\ PumpTask \cap Scheduled = {}
             /\ \A u \in BlockTask : pc[u] # "spawning"
  <2>1. b \notin Recorded
    BY <1>2, <1>5 DEF Recorded
  <2>2. Recorded # 1..NumBlocks
    BY <2>1
  <2> QED BY <2>1, <2>2 DEF Inv, Blocks
<1> QED BY <1>1, <1>2, <1>3, <1>4, <1>5

\* A block records its file, or starts the upload.
LEMMA BlockGoes ==
  ASSUME Inv, Compress, NEW b \in 1..NumBlocks, NEW w \in {"pending", "spawning"},
         Body!Goto(Block(b), w), UNCHANGED <<content, store>>,
         \/ /\ w = "pending" /\ pc[Block(b)] = "entry"
            /\ scratch' = scratch \cup {b} /\ num_pending_' = num_pending_ - 1
         \/ /\ w = "spawning" /\ pc[Block(b)] = "pending" /\ num_pending_ = 0
            /\ UNCHANGED <<scratch, num_pending_>>
  PROVE  Inv'
<1> DEFINE t == Block(b)
<1>1. /\ t \in BlockTask /\ t \in Task /\ t \notin PartTask
      /\ t # Compressor /\ t # Uploader /\ t \in Holders
      /\ t \in active /\ t \in Live /\ t \notin finished
      /\ Compressing /\ num_pending_ = NumBlocks - Cardinality(Recorded)
      /\ Recorded \subseteq scratch /\ pc[t] # "none"
      /\ pc[t] = "entry" =>
           /\ b \notin Recorded /\ Recorded # 1..NumBlocks /\ PumpTask \cap Scheduled = {}
           /\ \A u \in BlockTask : pc[u] # "spawning"
      /\ \A c \in 1..NumBlocks : Block(c).num = c
  BY BlockFacts, TaskFacts
<1>2. /\ Exec' /\ UNCHANGED <<pending, active, finished, main, failed, attempt>>
      /\ pc' = [pc EXCEPT ![t] = w]
      /\ pc \in [Task -> {"none", "entry", "pending", "spawning", "putting", "counting", "blank"}]
  BY <1>1, GotoFacts DEF Inv, Exec
<1>3. \A u \in Task : u # t => pc'[u] = pc[u]
  BY <1>2
<1>4. pc'[t] = w
  BY <1>1, <1>2
<1>5. Live' = Live /\ Scheduled' = Scheduled /\ Done' = Done
  BY <1>2 DEF Live, Scheduled, Done
<1>6. Recorded' = Recorded \cup {b}
  <2>1. \A c \in 1..NumBlocks : c # b => Block(c) # t /\ Block(c) \in Task
    BY <1>1, TaskFacts
  <2> QED BY <1>2, <1>3, <1>4, <2>1 DEF Recorded
<1>7. Asked' /\ Counting' /\ OrphansComeFromRetries'
  <2>1. \A u \in PartTask : attempt[u] <= attempt'[u] /\ pc'[u] = pc[u]
    BY <1>1, <1>2, <1>3, TaskFacts, Sizes DEF Inv, Exec
  <2> QED BY <1>2, <1>5, <2>1, Elsewhere
<1>8. Kinds'
  BY <1>1, <1>3, <1>4, TaskFacts DEF Inv, Kinds
<1>9. Types'
  <2>1. num_pending_ \in Int /\ scratch \subseteq 1..NumBlocks
    BY DEF Inv, Types
  <2>2. scratch' = scratch \/ scratch' = scratch \cup {b}
    OBVIOUS
  <2>3. num_pending_' = num_pending_ \/ num_pending_' = num_pending_ - 1
    OBVIOUS
  <2>4. num_pending_' \in Int
    BY <2>1, <2>3
  <2>5. scratch' \subseteq 1..NumBlocks
    BY <2>1, <2>2
  <2> QED BY <2>4, <2>5 DEF Inv, Types, content, store
<1>10. Compressing'
  BY <1>1, <1>2, <1>3, TaskFacts DEF Compressing
<1>11. Recorded \in SUBSET (1..NumBlocks)
  BY DEF Recorded
<1>12. num_pending_' = NumBlocks - Cardinality(Recorded')
  <2>1. CASE w = "pending"
    <3>1. Cardinality(Recorded') = Cardinality(Recorded) + 1
      BY <1>1, <1>6, <1>11, <2>1, Finite, FS_AddElement
    <3> QED BY <1>1, <1>11, <2>1, <3>1, Finite, Sizes
  <2>2. CASE w = "spawning"
    <3>1. b \in Recorded
      BY <2>2 DEF Recorded
    <3> QED BY <1>1, <1>6, <2>2, <3>1
  <2> QED BY <2>1, <2>2
<1>13. w = "spawning" => Recorded' = 1..NumBlocks
  <2>1. w = "spawning" => Cardinality(Recorded) = NumBlocks
    BY <1>1, <1>11, Finite, Sizes
  <2>2. w = "spawning" => Recorded = 1..NumBlocks
    BY <1>11, <2>1, Finite
  <2> QED BY <1>6, <2>2
<1> HIDE DEF t
<1>14. Blocks'
  <2>1. (\E u \in BlockTask : pc'[u] = "spawning") \/ PumpTask \cap Scheduled' # {}
           => Recorded' = 1..NumBlocks
    <3>1. CASE w = "spawning"
      BY <1>13, <3>1
    <3>2. CASE w = "pending"
      <4>1. pc[t] = "entry"
        BY <3>2 DEF t
      <4> QED BY <1>1, <1>3, <1>4, <1>5, <3>2, <4>1, TaskFacts
    <3> QED BY <3>1, <3>2
  <2> QED BY <1>1, <1>4, <1>10, <1>12, <2>1 DEF Blocks
<1>15. Files'
  <2>1. Holders' = Holders /\ scratch' = scratch \cup {b}
    <3>1. CASE w = "pending"
      BY <3>1 DEF Holders
    <3>2. CASE w = "spawning"
      <4>1. b \in Recorded
        BY <3>2 DEF Recorded
      <4> QED BY <1>1, <3>2, <4>1 DEF Holders
    <3> QED BY <3>1, <3>2
  <2>2. Live' \cap Holders' # {}
    BY <1>1, <1>5, <2>1
  <2> QED BY <1>1, <1>2, <1>6, <2>1, <2>2 DEF Inv, Files
<1>16. Handing'
  <2>1. \A u : Handed(u)' <=> Handed(u)
    BY <1>5 DEF Handed
  <2> QED BY <1>2, <2>1 DEF Inv, Handing, store
<1> QED BY <1>2, <1>7, <1>8, <1>9, <1>14, <1>15, <1>16 DEF Inv

LEMMA BlockStep ==
  ASSUME Inv, NEW b \in 1..NumBlocks, CompressBlock(b) \/ on_complete(b)
  PROVE  Inv'
<1> DEFINE t == Block(b)
<1>1. Compress /\ pc[t] \in {"entry", "pending"} /\ UNCHANGED <<content, store>>
  BY DEF CompressBlock, on_complete
<1>2. /\ t \in BlockTask /\ t \in Task /\ t \notin PartTask /\ t # Compressor
      /\ t \in Holders /\ t \in Live /\ Recorded \subseteq scratch
  BY <1>1, BlockFacts
<1>3. ASSUME NEW ok \in BOOLEAN, Body!End(t, ok)
      PROVE  failed \subseteq failed' /\ (~ok => Block(b) \in failed')
  BY <1>3 DEF Body!End
<1>4. CASE /\ pc[t] = "entry" /\ Body!Goto(t, "pending")
           /\ scratch' = scratch \cup {b} /\ num_pending_' = num_pending_ - 1
  BY <1>1, <1>4, BlockGoes
<1>5. CASE /\ pc[t] = "entry" /\ Body!End(t, FALSE) /\ UNCHANGED num_pending_
           /\ \E files \in {scratch, scratch \cup {b}} : scratch' = Disowned(t, files)
  <2>1. PICK files \in {scratch, scratch \cup {b}} :
           /\ scratch' = Disowned(t, files) /\ Body!End(t, FALSE)
           /\ UNCHANGED num_pending_ /\ pc[t] = "entry"
    BY <1>5
  <2>2. failed \subseteq failed' /\ t \in failed'
    BY <1>3, <2>1
  <2>3. /\ files \subseteq 1..NumBlocks /\ Recorded \subseteq files
        /\ files \subseteq Recorded \cup {c \in 1..NumBlocks : Compress /\ Block(c) \in failed'}
    BY <1>1, <1>2, <2>2 DEF Inv, Types, Files
  <2> HIDE DEF t
  <2> QED BY <1>1, <1>2, <2>1, <2>3, EndStep
<1>6. CASE on_complete(b) /\ Body!Goto(t, "spawning") /\ num_pending_ = 0 /\ UNCHANGED scratch
  BY <1>1, <1>6, BlockGoes DEF on_complete
<1>7. CASE on_complete(b) /\ num_pending_ # 0 /\ Body!End(t, TRUE) /\ scratch' = Disowned(t, scratch)
  <2>1. pc[t] = "pending" /\ UNCHANGED num_pending_ /\ failed \subseteq failed'
    BY <1>3, <1>7 DEF on_complete
  <2>2. /\ scratch \subseteq 1..NumBlocks
        /\ scratch \subseteq Recorded \cup {c \in 1..NumBlocks : Compress /\ Block(c) \in failed'}
    BY <2>1 DEF Inv, Types, Files
  <2> HIDE DEF t
  <2> QED BY <1>1, <1>2, <1>7, <2>1, <2>2, EndStep
<1> QED BY <1>4, <1>5, <1>6, <1>7 DEF CompressBlock, on_complete

\* A body in its loop is that of a block, a pump, the compressor or the uploader.
LEMMA LoopFacts ==
  ASSUME Inv, NEW t \in Task, InLoop(t)
  PROVE  /\ t \in active /\ t \in Live /\ t \in Scheduled /\ t \notin PartTask
         /\ t \in PumpTask => pc[t] = "entry"
         /\ t \notin PumpTask => pc[t] = "spawning"
         /\ main = "joining"
<1>1. pc[t] # "none" /\ t \notin PartTask
  BY TaskFacts DEF InLoop, Inv, Kinds
<1>2. t \in active /\ t \in Live /\ t \in Scheduled /\ main = "joining"
  BY <1>1 DEF Inv, Exec, Live, Scheduled
<1> QED BY <1>1, <1>2 DEF InLoop, Inv, Kinds

LEMMA SpawnStep == ASSUME Inv, NEW t \in Task, Spawn(t) PROVE Inv'
<1>1. PICK u \in Task \ Scheduled : Parent[u] = t /\ Body!Spawn(u)
  BY DEF Spawn
<1>2. /\ t \in active /\ t \in Live /\ t \notin PartTask
      /\ t \in PumpTask => pc[t] = "entry"
      /\ t \notin PumpTask => pc[t] = "spawning"
      /\ UNCHANGED <<num_pending_, scratch, content, store>>
  BY LoopFacts DEF Spawn
<1>3. /\ Exec' /\ u \in Task /\ u \notin Scheduled
      /\ pending' = pending \cup {u} /\ UNCHANGED <<active, finished, main, failed, pc, attempt>>
  BY <1>1, <1>2, SpawnFacts DEF Inv
<1>4. Live' = Live \cup {u} /\ Scheduled' = Scheduled \cup {u} /\ Done' = Done /\ Holders' = Holders
  BY <1>3 DEF Live, Scheduled, Done, Holders
<1>5. \A x : Handed(x) => Handed(x)'
  BY <1>4 DEF Handed
<1>6. Recorded' = Recorded /\ (Compressing' <=> Compressing)
  BY <1>3 DEF Recorded, Compressing
<1>7. Asked' /\ Counting' /\ OrphansComeFromRetries'
  <2>1. \A x \in PartTask : attempt[x] <= attempt'[x] /\ pc'[x] = pc[x]
    BY <1>3, TaskFacts, Sizes DEF Inv, Exec
  <2> QED BY <1>2, <1>3, <1>4, <2>1, Elsewhere
<1>8. Kinds' /\ Types'
  BY <1>2, <1>3 DEF Inv, Kinds, Types, content, store
<1>9. u \in BlockTask => t = Compressor /\ Compressing
  BY <1>1, <1>2, Parents, TaskFacts DEF Compressing
<1>10. u \in PumpTask /\ Compress => t \in BlockTask /\ pc[t] = "spawning" /\ Recorded = 1..NumBlocks
  <2>1. ASSUME u \in PumpTask, Compress PROVE t \in BlockTask
    BY <1>1, <2>1, Parents, TaskFacts DEF Gen
  <2>2. ASSUME t \in BlockTask PROVE pc[t] = "spawning" /\ (Compress => Recorded = 1..NumBlocks)
    <3>1. pc[t] = "spawning"
      BY <1>2, <2>2, TaskFacts
    <3> QED BY <2>2, <3>1 DEF Inv, Blocks
  <2> QED BY <2>1, <2>2
<1>11. Blocks'
  BY <1>2, <1>3, <1>4, <1>5, <1>6, <1>9, <1>10 DEF Inv, Blocks
<1>12. Files'
  <2>1. ASSUME u \in Holders, Live \cap Holders = {} PROVE Recorded = {}
    <3>1. t \notin Holders
      BY <1>2, <2>1
    <3>2. CASE ~Compress
      BY <3>2 DEF Recorded
    <3>3. CASE Compress
      <4>1. u = Compressor
        BY <1>9, <1>10, <2>1, <3>1, <3>3 DEF Holders
      <4>2. ~Compressing
        BY <1>3, <3>3, <4>1, TaskFacts DEF Compressing, Scheduled, Inv, Exec
      <4> QED BY <3>3, <4>2, NothingRecorded
    <3> QED BY <3>2, <3>3
  <2>2. CASE u \in Holders /\ Live \cap Holders = {}
    BY <1>2, <1>3, <1>4, <1>6, <2>1, <2>2 DEF Inv, Files
  <2>3. CASE u \notin Holders \/ Live \cap Holders # {}
    BY <1>2, <1>3, <1>4, <1>6, <2>3 DEF Inv, Files
  <2> QED BY <2>2, <2>3
<1>13. Handing'
  BY <1>2, <1>3, <1>5 DEF Inv, Handing, store
<1> QED BY <1>3, <1>7, <1>8, <1>11, <1>12, <1>13 DEF Inv

LEMMA LoopEndStep == ASSUME Inv, NEW t \in Task, Spawned(t) \/ PumpFails(t) PROVE Inv'
<1>1. PICK ok \in BOOLEAN : /\ Body!End(t, ok) /\ InLoop(t)
                            /\ IF ok THEN Handed(t) ELSE t \in PumpTask
                            /\ scratch' = Disowned(t, scratch)
                            /\ UNCHANGED <<num_pending_, content, store>>
  BY DEF Spawned, PumpFails, Handed
<1>2. /\ t \notin PartTask
      /\ t \in BlockTask \/ t = Compressor => ok /\ pc[t] = "spawning"
  <2>1. t \in BlockTask \/ t = Compressor => t \notin PumpTask
    BY TaskFacts
  <2> QED BY <1>1, <2>1, LoopFacts
<1>3. failed \subseteq failed'
  BY <1>1 DEF Body!End
<1>4. /\ scratch \subseteq 1..NumBlocks
      /\ scratch \subseteq Recorded \cup {b \in 1..NumBlocks : Compress /\ Block(b) \in failed'}
      /\ Live \cap Holders # {} => Recorded \subseteq scratch
      /\ Live \cap Holders = {} => Recorded \cap scratch = {}
  BY <1>3 DEF Inv, Types, Files
<1> QED BY <1>1, <1>2, <1>4, EndStep

\* The command schedules the uploader, calls run() and comes back from it.
LEMMA MainStep ==
  ASSUME Inv, Exec', UNCHANGED <<active, finished, failed, attempt, pc, num_pending_, scratch,
                                 content, store>>,
         pending' = pending \/ pending' = pending \cup {Uploader}
  PROVE  Inv'
<1>1. /\ Done' = Done /\ Recorded' = Recorded /\ (Compressing' <=> Compressing)
      /\ Holders' = Holders
  BY DEF Done, Recorded, Compressing, Holders
<1>2. Scheduled \subseteq Scheduled' /\ Scheduled' \subseteq Scheduled \cup {Uploader}
  BY DEF Scheduled
<1>3. Live' \cap Holders = Live \cap Holders
  BY TaskFacts DEF Live, Holders
<1>4. \A x : Handed(x) => Handed(x)'
  BY <1>2 DEF Handed
<1>5. Asked' /\ Counting' /\ OrphansComeFromRetries'
  <2>1. \A x \in PartTask : attempt[x] <= attempt'[x] /\ pc'[x] = pc[x]
    BY TaskFacts, Sizes DEF Inv, Exec
  <2> QED BY <1>1, <1>2, <2>1, Elsewhere
<1>6. Kinds' /\ Types' /\ Files' /\ Handing'
  BY <1>1, <1>3, <1>4 DEF Inv, Kinds, Types, Files, Handing, content, store
<1>7. Blocks'
  <2>1. /\ BlockTask \cap Scheduled' = BlockTask \cap Scheduled
        /\ PumpTask \cap Scheduled' = PumpTask \cap Scheduled
    BY <1>2, TaskFacts
  <2> QED BY <1>1, <1>4, <2>1 DEF Inv, Blocks
<1> QED BY <1>5, <1>6, <1>7 DEF Inv

LEMMA InitStep == ASSUME Init PROVE Inv
<1> USE DEF Init, Body!InitBodies, Body!Init
<1>1. Live = {} /\ Scheduled = {} /\ Done = {} /\ Recorded = {}
  BY TaskFacts DEF Live, Scheduled, Done, Recorded
<1>2. Cardinality({}) = 0
  BY FS_EmptySet
<1>3. Exec /\ Kinds /\ Types
  BY Sizes, TaskFacts DEF Exec, Kinds, Types
<1>4. Asked
  BY <1>1, TaskFacts DEF Asked
<1>5. Counting
  BY <1>1, <1>2, Sizes DEF Counting
<1>6. OrphansComeFromRetries
  <2>1. open \ {upload_id_} = {} /\ Cardinality(EndedTries) \in Nat
    BY DoneFinite
  <2> QED BY <1>2, <2>1 DEF OrphansComeFromRetries
<1>7. Blocks
  <2>1. 1..NumBlocks # {}
    BY Sizes
  <2>2. \A t \in BlockTask : pc[t] # "spawning"
    BY TaskFacts
  <2>3. Recorded # 1..NumBlocks /\ BlockTask \cap Scheduled = {} /\ PumpTask \cap Scheduled = {}
    BY <1>1, <2>1
  <2>4. Compress => ~Compressing
    BY TaskFacts DEF Compressing
  <2> QED BY <2>2, <2>3, <2>4 DEF Blocks
<1>8. Files /\ Handing
  BY <1>1 DEF Files, Handing
<1> QED BY <1>3, <1>4, <1>5, <1>6, <1>7, <1>8 DEF Inv

LEMMA InvStep == ASSUME Inv, [Next]_vars PROVE Inv'
<1> USE DEF Next
<1>1. ASSUME NEW t \in Task, Step(t) PROVE Inv'
  <2>1. CASE Start(t)
    BY <2>1, StartStep
  <2>2. CASE Spawn(t)
    BY <2>2, SpawnStep
  <2>3. CASE Spawned(t) \/ PumpFails(t)
    BY <2>3, LoopEndStep
  <2>4. CASE Initiate(t)
    BY <2>4, InitiateStep DEF Initiate
  <2>5. CASE Put(t)
    BY <2>5, PutStep DEF Put
  <2>6. CASE Count(t)
    BY <2>6, CountStep DEF Count
  <2> QED BY <1>1, <2>1, <2>2, <2>3, <2>4, <2>5, <2>6 DEF Step
<1>2. CASE SkipUpload
  BY <1>2, SkipStep
<1>3. CASE BeginUpload \/ UploaderFails
  BY <1>3, UploaderStep
<1>4. CASE BeginCompression
  BY <1>4, BeginCompressionStep
<1>5. ASSUME NEW b \in 1..NumBlocks, CompressBlock(b) \/ on_complete(b) PROVE Inv'
  BY <1>5, BlockStep
<1>6. CASE Submit
  <2>1. Body!Spawn(Uploader) /\ UNCHANGED <<num_pending_, scratch, content, store>>
    BY <1>6 DEF Submit
  <2>2. /\ Exec' /\ pending' = pending \cup {Uploader}
        /\ UNCHANGED <<active, finished, main, failed, pc, attempt>>
    BY <2>1, SpawnFacts, TaskFacts DEF Inv
  <2> QED BY <2>1, <2>2, MainStep
<1>7. CASE run \/ Return
  <2>1. UNCHANGED <<pending, active, finished, failed, attempt, pc, num_pending_, scratch,
                    content, store>>
    BY <1>7 DEF run, Return, Body!Run, Body!Return
  <2>2. Exec'
    BY <1>7, <2>1 DEF Inv, Exec, run, Return, Body!Run, Body!Return
  <2> QED BY <2>1, <2>2, MainStep
<1>8. CASE UNCHANGED vars
  <2>1. UNCHANGED <<pending, active, finished, main, failed, attempt, pc, num_pending_, scratch,
                    content, store>>
    BY <1>8 DEF vars, pool
  <2>2. Exec'
    BY <2>1 DEF Inv, Exec
  <2> QED BY <2>1, <2>2, MainStep
<1> QED BY <1>1, <1>2, <1>3, <1>4, <1>5, <1>6, <1>7, <1>8

-----------------------------------------------------------------------------
\* Inv is an invariant of every upload, whatever the sizes and capabilities.
THEOREM Invariance == Spec => []Inv
<1>1. Init => Inv
  BY InitStep
<1>2. Inv /\ [Next]_vars => Inv'
  BY InvStep
<1> QED BY <1>1, <1>2, PTL DEF Spec

\* Every variable has its type: the tasks are of the five kinds, the try of a task
\* never passes MaxAttempts, the store knows the uploads it has begun.
THEOREM TypeCorrect == Spec => []TypeOK
<1>1. Inv => TypeOK
  BY DEF Inv, Exec, Types, TypeOK
<1> QED BY <1>1, Invariance, PTL

\* Every etag sent with complete_multipart is that of a part which the upload
\* named by upload_id_ has received (part_upload_task, upload_data).
THEOREM EtagsBelongToParts == Spec => []EtagsAreStored
<1>1. Inv => EtagsAreStored
  BY DEF Inv, Asked, EtagsAreStored
<1> QED BY <1>1, Invariance, PTL

\* lock_ lets one part begin the multipart upload: what is left open on the store
\* beside the upload in use are at most as many as tries that ended with an error.
THEOREM OrphansAreBounded == Spec => []OrphansComeFromRetries
<1>1. Inv => OrphansComeFromRetries
  BY DEF Inv
<1> QED BY <1>1, Invariance, PTL

\* start_upload runs after the last block was recorded under m_, and the
\* scattered_files object lives as long as a pump: no pump reads a missing file.
THEOREM PumpsFindTheirFiles == Spec => []FilesOutlivePumps
<1>1. ASSUME Inv PROVE FilesOutlivePumps
  <2>1. SUFFICES ASSUME Compress, Live \cap PumpTask # {} PROVE scratch = 1..NumBlocks
    BY DEF FilesOutlivePumps, Live
  <2>2. PumpTask \cap Scheduled # {} /\ Live \cap Holders # {}
    BY <2>1 DEF Live, Scheduled, Holders
  <2>3. Recorded = 1..NumBlocks
    BY <1>1, <2>1, <2>2 DEF Inv, Blocks
  <2>4. Recorded \subseteq scratch /\ scratch \subseteq 1..NumBlocks
    BY <1>1, <2>2 DEF Inv, Files, Types
  <2> QED BY <2>3, <2>4
<1> QED BY <1>1, Invariance, PTL

\* When run() is not under way no temporary file is left behind, except perhaps
\* that of a block which failed.
THEOREM TemporaryFilesAreRemoved == Spec => []ScratchCleaned
<1>1. ASSUME Inv PROVE ScratchCleaned
  <2>1. SUFFICES ASSUME main = "idle"
                 PROVE scratch \subseteq {b \in 1..NumBlocks : Block(b) \in failed}
    BY DEF ScratchCleaned
  <2>2. Live \cap Holders = {}
    BY <1>1, <2>1, TaskFacts DEF Inv, Exec, Live, Holders
  <2> QED BY <1>1, <2>2 DEF Inv, Files
<1> QED BY <1>1, Invariance, PTL

\* When as many parts are counted as there are, every one has been uploaded,
\* provided that one block started the upload and the store answered below 400 to
\* nothing it did not carry out.  (With two starters the same part
\* is counted twice; the model checker shows it.)
THEOREM CountsAllParts == Spec => [](StartedOnce => CompletedHasAllParts)
<1>1. Inv /\ StartedOnce => CompletedHasAllParts
  BY Sizes DEF Inv, Counting, Types, CompletedHasAllParts
<1> QED BY <1>1, Invariance, PTL

\* An upload that is not compressed has a single starter, file_uploader itself; of
\* the two provisos only that about the store is left.
THEOREM PlainCountsAllParts ==
  ASSUME ~Compress PROVE Spec => []CompletedHasAllParts
<1>1. StartedOnce
  BY TaskFacts DEF StartedOnce, Gen
<1>2. Inv => CompletedHasAllParts
  BY <1>1, Sizes DEF Inv, Counting, Types, CompletedHasAllParts
<1> QED BY <1>2, Invariance, PTL

\* When everything has ended well the work went all the way down: from the
\* uploader, over the blocks, to a pump and a part for each number.
LEMMA WorkIsDone ==
  ASSUME Inv, UploadOver, failed = {}, object # "new"
  PROVE  Cardinality(Done) >= NumParts
<1>1. Scheduled = finished /\ active = {} /\ Handed(Uploader)
  <2>1. active = {} /\ pending \subseteq {Uploader} /\ Uploader \in finished
        /\ pending \cap finished = {}
    BY DEF Inv, Exec, UploadOver
  <2>2. Handed(Uploader)
    BY <2>1 DEF Inv, Handing
  <2> QED BY <2>1, <2>2 DEF Scheduled
<1>2. \E g \in Gen : \A k \in 1..NumPumps : Pump(g, k) \in finished
  <2>1. CASE ~Compress
    <3>1. 0 \in Gen
      BY <2>1 DEF Gen
    <3>2. \A k \in 1..NumPumps : Pump(0, k) \in Task /\ Parent[Pump(0, k)] = Uploader
      BY <2>1, <3>1, Parents, TaskFacts
    <3> QED BY <1>1, <3>1, <3>2 DEF Handed
  <2>2. CASE Compress
    <3>1. Compressor \in finished /\ Handed(Compressor)
      BY <1>1, <2>2, Parents, TaskFacts DEF Handed, Inv, Handing
    <3>2. \A b \in 1..NumBlocks : Block(b) \in finished
      BY <1>1, <2>2, <3>1, Parents, TaskFacts DEF Handed
    <3>3. Recorded = 1..NumBlocks
      BY <2>2, <3>2 DEF Recorded
    <3>4. PICK t \in BlockTask : \/ pc[t] \in {"pending", "spawning"}
                                 \/ t \in finished /\ Handed(t)
      BY <2>2, <3>3 DEF Inv, Blocks
    <3>5. t \in Task /\ t.num \in Gen /\ t = Block(t.num)
      BY <2>2, <3>4, TaskFacts DEF Gen
    <3>6. Handed(t)
      BY <1>1, <3>4, <3>5 DEF Inv, Exec
    <3>7. \A k \in 1..NumPumps : Pump(t.num, k) \in Task /\ Parent[Pump(t.num, k)] = t
      BY <2>2, <3>5, Parents, TaskFacts
    <3>8. \A k \in 1..NumPumps : Pump(t.num, k) \in finished
      BY <1>1, <3>6, <3>7 DEF Handed
    <3> QED BY <3>5, <3>8
  <2> QED BY <2>1, <2>2
<1>3. PICK g \in Gen : \A k \in 1..NumPumps : Pump(g, k) \in finished
  BY <1>2
<1>4. ASSUME NEW n \in Parts PROVE Part(g, n) \in Done /\ Part(g, n).num = n
  <2> DEFINE t == Part(g, n)
  <2>1. t \in PartTask /\ t.num = n /\ t.gen = g
    BY DEF PartTask, Part
  <2>2. Parent[t] = Pump(g, PumpOf(n)) /\ Parent[t] \in PumpTask /\ t \in Task
    BY <2>1, Parents, TaskFacts
  <2>3. Parent[t] \in finished
    BY <1>3, <2>2, Sizes
  <2>4. t \in finished
    BY <1>1, <2>2, <2>3 DEF Inv, Handing, Handed
  <2> QED BY <2>1, <2>4 DEF Done
<1>5. Cardinality(Parts) <= Cardinality(Done)
  <2> DEFINE f == [n \in Parts |-> Part(g, n)]
  <2>1. f \in Injection(Parts, Done)
    <3>1. f \in [Parts -> Done]
      BY <1>4
    <3>2. \A m, n \in Parts : f[m] = f[n] => m = n
      BY <1>4
    <3> QED BY <3>1, <3>2 DEF Injection, IsInjective
  <2> QED BY <2>1, DoneFinite, FS_Injection
<1> QED BY <1>5, PartsFinite, DoneFinite, Sizes

\* "Check if the upload is completed": no file is lost silently unless a part was
\* counted again by a second try, or the store answered below 400 to a PUT or to
\* complete_multipart that it did not carry out (part_upload_task).
THEOREM LostOnlyByRecountOrAnswer == Spec => []UploadedWhenCountedOnce
<1>1. ASSUME Inv PROVE UploadedWhenCountedOnce
  <2>1. SUFFICES ASSUME UploadOver, failed = {}, unheeded = {},
                        num_completed_ <= NumParts, object # "new"
                 PROVE FALSE
    BY DEF UploadedWhenCountedOnce
  <2>2. Cardinality(Done) >= NumParts
    BY <1>1, <2>1, WorkIsDone
  <2>3. /\ num_completed_ >= Cardinality(Done)
        /\ num_completed_ >= NumParts => num_completed_ > Cardinality(Done)
        /\ num_completed_ \in Nat
    BY <1>1, <2>1 DEF Inv, Counting, Types
  <2> QED BY <2>1, <2>2, <2>3, DoneFinite, Sizes
<1> QED BY <1>1, Invariance, PTL

\* A retry never loses a file of one part: success means that the key holds the new
\* content, unless the PUT was answered below 400 and not carried out.  (With more parts the model checker finds the
\* retried completion that loses it.)
THEOREM OnePartIsUploaded ==
  ASSUME NumParts = 1 PROVE Spec => []SuccessMeansUploaded
<1>1. ASSUME Inv PROVE SuccessMeansUploaded
  <2>1. SUFFICES ASSUME UploadOver, failed = {}, unheeded = {}, object # "new" PROVE FALSE
    BY DEF SuccessMeansUploaded
  <2>2. Cardinality(Done) >= 1
    BY <1>1, <2>1, WorkIsDone
  <2>3. Done # {}
    BY <2>2, FS_EmptySet
  <2> QED BY <1>1, <2>1, <2>3 DEF Inv, Asked, is_multipart
<1> QED BY <1>1, Invariance, PTL
=============================================================================
