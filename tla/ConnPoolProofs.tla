--------------------------- MODULE ConnPoolProofs ---------------------------
(***************************************************************************)
(* Proofs about ConnPool: for any number of workers, buckets and handles   *)
(* the pool never shares, leaks or overuses a handle, and never lends a    *)
(* tainted one.                                                            *)
(***************************************************************************)
EXTENDS ConnPool, SequenceTheorems, FiniteSetTheorems, TLAPS

-----------------------------------------------------------------------------
\* What Append and AllButLast do to a sequence without repetitions.
LEMMA Appended ==
  ASSUME NEW S, NEW s \in Seq(S), NEW x \in S, IsInjective(s), x \notin Range(s)
  PROVE  /\ Append(s, x) \in Seq(S)
         /\ IsInjective(Append(s, x))
         /\ Range(Append(s, x)) = Range(s) \cup {x}
         /\ LastOf(Append(s, x)) = x
<1> DEFINE a == Append(s, x)
<1>1. /\ a \in Seq(S) /\ Len(a) = Len(s) + 1
      /\ \A i \in 1..Len(s) : a[i] = s[i]
      /\ a[Len(s) + 1] = x
  BY AppendProperties
<1>2. /\ Len(s) \in Nat /\ DOMAIN s = 1..Len(s) /\ DOMAIN a = 1..Len(a)
  BY <1>1, LenProperties
<1> HIDE DEF a
<1>3. Range(a) = Range(s) \cup {x}
  <2>1. \A i \in DOMAIN a : a[i] \in Range(s) \cup {x}
    BY <1>1, <1>2 DEF Range
  <2>2. \A y \in Range(s) \cup {x} : \E i \in DOMAIN a : a[i] = y
    BY <1>1, <1>2 DEF Range
  <2> QED BY <2>1, <2>2 DEF Range
<1>4. IsInjective(a)
  BY <1>1, <1>2 DEF IsInjective, Range
<1>5. LastOf(a) = x
  BY <1>1 DEF LastOf
<1> QED BY <1>1, <1>3, <1>4, <1>5 DEF a

LEMMA Shortened ==
  ASSUME NEW S, NEW s \in Seq(S), s # <<>>, IsInjective(s)
  PROVE  /\ LastOf(s) \in S
         /\ LastOf(s) \in Range(s)
         /\ AllButLast(s) \in Seq(S)
         /\ IsInjective(AllButLast(s))
         /\ Range(AllButLast(s)) = Range(s) \ {LastOf(s)}
<1> DEFINE b == AllButLast(s)
<1>1. /\ Len(s) \in Nat /\ Len(s) > 0 /\ DOMAIN s = 1..Len(s)
      /\ \A i \in 1..Len(s) : s[i] \in S
  BY LenProperties, EmptySeq, ElementOfSeq
<1>2. /\ b \in Seq(S) /\ Len(b) = Len(s) - 1
      /\ \A i \in 1..(Len(s) - 1) : b[i] = s[i]
  <2>1. \A i \in 1..(Len(s) - 1) : s[i] \in S
    BY <1>1
  <2>2. /\ b \in Seq(S)
        /\ Len(b) = IF 1 <= Len(s) - 1 THEN (Len(s) - 1) - 1 + 1 ELSE 0
        /\ \A i \in 1..((Len(s) - 1) - 1 + 1) : b[i] = s[1 + i - 1]
    BY <1>1, <2>1, SubSeqProperties DEF AllButLast
  <2> HIDE DEF b
  <2>3. Len(b) = Len(s) - 1
    <3>1. CASE Len(s) = 1
      <4>1. ~(1 <= Len(s) - 1)
        BY <3>1
      <4> QED BY <2>2, <3>1, <4>1
    <3>2. CASE Len(s) > 1
      <4>1. 1 <= Len(s) - 1 /\ (Len(s) - 1) - 1 + 1 = Len(s) - 1
        BY <1>1, <3>2
      <4> QED BY <2>2, <4>1
    <3>3. Len(s) = 1 \/ Len(s) > 1
      BY <1>1
    <3> QED BY <3>1, <3>2, <3>3
  <2>4. ASSUME NEW i \in 1..(Len(s) - 1) PROVE b[i] = s[i]
    <3>1. i \in 1..((Len(s) - 1) - 1 + 1) /\ 1 + i - 1 = i
      BY <1>1
    <3> QED BY <2>2, <3>1
  <2> QED BY <2>2, <2>3, <2>4
<1>3. DOMAIN b = 1..(Len(s) - 1)
  BY <1>2, LenProperties
<1> HIDE DEF b
<1>4. LastOf(s) = s[Len(s)]
  BY DEF LastOf
<1>5. Range(b) = Range(s) \ {LastOf(s)}
  <2>1. \A i \in DOMAIN b : b[i] \in Range(s) \ {LastOf(s)}
    BY <1>1, <1>2, <1>3, <1>4 DEF IsInjective, Range
  <2>2. \A y \in Range(s) \ {LastOf(s)} : \E i \in DOMAIN b : b[i] = y
    BY <1>1, <1>2, <1>3, <1>4 DEF Range
  <2> QED BY <2>1, <2>2 DEF Range
<1>6. IsInjective(b)
  BY <1>1, <1>2, <1>3 DEF IsInjective
<1>7. LastOf(s) \in S /\ LastOf(s) \in Range(s)
  BY <1>1, <1>4 DEF Range
<1> QED BY <1>2, <1>5, <1>6, <1>7 DEF b

\* The same for one of many stacks.
LEMMA PopOne ==
  ASSUME NEW S, NEW I, NEW f \in [I -> Seq(S)], NEW i \in I, f[i] # <<>>,
         \A j \in I : IsInjective(f[j])
  PROVE  LET g == [f EXCEPT ![i] = AllButLast(@)] IN
         /\ LastOf(f[i]) \in S
         /\ LastOf(f[i]) \in Range(f[i])
         /\ g \in [I -> Seq(S)]
         /\ \A j \in I : IsInjective(g[j])
         /\ Range(g[i]) = Range(f[i]) \ {LastOf(f[i])}
         /\ \A j \in I \ {i} : g[j] = f[j]
<1> DEFINE g == [f EXCEPT ![i] = AllButLast(@)]
<1>1. g[i] = AllButLast(f[i]) /\ \A j \in I \ {i} : g[j] = f[j]
  OBVIOUS
<1>2. /\ LastOf(f[i]) \in S /\ LastOf(f[i]) \in Range(f[i])
      /\ AllButLast(f[i]) \in Seq(S)
      /\ IsInjective(AllButLast(f[i]))
      /\ Range(AllButLast(f[i])) = Range(f[i]) \ {LastOf(f[i])}
  BY Shortened
<1> QED BY <1>1, <1>2

-----------------------------------------------------------------------------
\* A handle is taken off the stack of idle handles of a bucket.
LEMMA PopIdle ==
  ASSUME IInv, NEW k \in Key, curls_[k] # <<>>,
         curls_' = [curls_ EXCEPT ![k] = AllButLast(@)]
  PROVE  /\ LastOf(curls_[k]) \in Handle
         /\ LastOf(curls_[k]) \in live
         /\ \A th \in Thread : LastOf(curls_[k]) \notin HeldBy(th)
         /\ curls_' \in [Key -> Seq(Handle)]
         /\ \A j \in Key : IsInjective(curls_'[j])
         /\ \A j \in Key : Idle(j)' = Idle(j) \ {LastOf(curls_[k])}
<1> DEFINE h == LastOf(curls_[k])
<1>1. curls_ \in [Key -> Seq(Handle)] /\ \A j \in Key : IsInjective(curls_[j])
  BY DEF IInv, TypeOK, OnePlace
<1>2. /\ h \in Handle /\ h \in Range(curls_[k])
      /\ curls_' \in [Key -> Seq(Handle)]
      /\ \A j \in Key : IsInjective(curls_'[j])
      /\ Range(curls_'[k]) = Range(curls_[k]) \ {h}
      /\ \A j \in Key \ {k} : curls_'[j] = curls_[j]
  BY <1>1, PopOne
<1> HIDE DEF h
<1>3. /\ \A j \in Key \ {k} : h \notin Idle(j)
      /\ \A th \in Thread : h \notin HeldBy(th)
      /\ h \in live
  <2>1. h \in Idle(k)
    BY <1>2 DEF Idle
  <2> QED BY <1>2, <2>1 DEF IInv, OnePlace
<1>4. ASSUME NEW j \in Key PROVE Idle(j)' = Idle(j) \ {h}
  BY <1>2, <1>3 DEF Idle
<1> QED BY <1>2, <1>3, <1>4 DEF h

\* A handle nobody holds is lent to a thread.
LEMMA LendOne ==
  ASSUME IInv, NEW th \in Thread, NEW k \in Key, NEW h \in Handle,
         \A t \in Thread : h \notin HeldBy(t), Lend(th, k, h)
  PROVE  /\ held' \in [Thread -> Seq(Handle)]
         /\ borrowed_curls_' \in [Handle -> Key \cup {NoKey}]
         /\ \A t \in Thread : IsInjective(held'[t])
         /\ HeldBy(th)' = HeldBy(th) \cup {h}
         /\ \A t \in Thread \ {th} : HeldBy(t)' = HeldBy(t)
         /\ LastOf(held'[th]) = h
         /\ \A x \in Handle : borrowed_curls_'[x] # NoKey
                                 <=> \E t \in Thread : x \in HeldBy(t)'
<1>1. /\ held \in [Thread -> Seq(Handle)]
      /\ borrowed_curls_ \in [Handle -> Key \cup {NoKey}]
      /\ \A t \in Thread : IsInjective(held[t])
  BY DEF IInv, TypeOK, OnePlace
<1>2. h \notin Range(held[th])
  BY DEF HeldBy
<1>3. held' = [held EXCEPT ![th] = Append(@, h)]
  BY DEF Lend
<1>4. /\ held' \in [Thread -> Seq(Handle)]
      /\ \A t \in Thread : IsInjective(held'[t])
      /\ Range(held'[th]) = Range(held[th]) \cup {h}
      /\ \A t \in Thread \ {th} : held'[t] = held[t]
      /\ LastOf(held'[th]) = h
  <2>1. held'[th] = Append(held[th], h) /\ \A t \in Thread \ {th} : held'[t] = held[t]
    BY <1>1, <1>3
  <2>2. /\ Append(held[th], h) \in Seq(Handle)
        /\ IsInjective(Append(held[th], h))
        /\ Range(Append(held[th], h)) = Range(held[th]) \cup {h}
        /\ LastOf(Append(held[th], h)) = h
    BY <1>1, <1>2, Appended
  <2> QED BY <1>1, <1>3, <2>1, <2>2
<1>5. /\ HeldBy(th)' = HeldBy(th) \cup {h}
      /\ \A t \in Thread \ {th} : HeldBy(t)' = HeldBy(t)
  BY <1>4 DEF HeldBy
<1>6. /\ borrowed_curls_' \in [Handle -> Key \cup {NoKey}]
      /\ borrowed_curls_'[h] # NoKey
      /\ \A x \in Handle \ {h} : borrowed_curls_'[x] = borrowed_curls_[x]
  BY <1>1, PoolAssumption DEF Lend
<1>7. \A x \in Handle : borrowed_curls_[x] # NoKey <=> \E t \in Thread : x \in HeldBy(t)
  BY DEF IInv, Books
<1>8. \A x \in Handle : borrowed_curls_'[x] # NoKey <=> \E t \in Thread : x \in HeldBy(t)'
  BY <1>5, <1>6, <1>7
<1> QED BY <1>4, <1>5, <1>6, <1>8

-----------------------------------------------------------------------------
\* A handle goes to a thread, those of D leave the idle ones: each handle is
\* still in one place.
LEMMA LendPlaces ==
  ASSUME IInv, NEW th \in Thread, NEW h \in Handle, NEW D \in SUBSET Handle,
         \A d \in D : \E j \in Key : d \in Idle(j),
         h \notin live \ D,
         live' = (live \ D) \cup {h},
         \A j \in Key : IsInjective(curls_'[j]),
         \A j \in Key : Idle(j)' = Idle(j) \ D,
         \A t \in Thread : IsInjective(held'[t]),
         HeldBy(th)' = HeldBy(th) \cup {h},
         \A t \in Thread \ {th} : HeldBy(t)' = HeldBy(t)
  PROVE  OnePlace'
<1>1. /\ \A j1, j2 \in Key : j1 # j2 => Idle(j1) \cap Idle(j2) = {}
      /\ \A t1, t2 \in Thread : t1 # t2 => HeldBy(t1) \cap HeldBy(t2) = {}
      /\ \A j \in Key : \A t \in Thread : Idle(j) \cap HeldBy(t) = {}
      /\ \A x \in Handle : x \in live <=> (\E j \in Key : x \in Idle(j))
                                            \/ (\E t \in Thread : x \in HeldBy(t))
  BY DEF IInv, OnePlace
<1>2. ASSUME NEW t \in Thread PROVE h \notin HeldBy(t) /\ HeldBy(t) \cap D = {}
  <2>1. HeldBy(t) \cap D = {}
    BY <1>1
  <2> QED BY <1>1, <2>1
<1>3. ASSUME NEW j \in Key PROVE h \notin Idle(j)'
  BY <1>1
<1>4. \A j1, j2 \in Key : j1 # j2 => Idle(j1)' \cap Idle(j2)' = {}
  BY <1>1
<1>5. ASSUME NEW t1 \in Thread, NEW t2 \in Thread, t1 # t2
      PROVE  HeldBy(t1)' \cap HeldBy(t2)' = {}
  <2>1. HeldBy(t1) \cap HeldBy(t2) = {} /\ h \notin HeldBy(t1) /\ h \notin HeldBy(t2)
    BY <1>1, <1>2, <1>5
  <2>2. HeldBy(t1)' = HeldBy(t1) \/ HeldBy(t2)' = HeldBy(t2)
    BY <1>5
  <2>3. HeldBy(t1)' \subseteq HeldBy(t1) \cup {h} /\ HeldBy(t2)' \subseteq HeldBy(t2) \cup {h}
    OBVIOUS
  <2> QED BY <2>1, <2>2, <2>3
<1>6. ASSUME NEW j \in Key, NEW t \in Thread PROVE Idle(j)' \cap HeldBy(t)' = {}
  <2>1. Idle(j) \cap HeldBy(t) = {} /\ h \notin Idle(j)'
    BY <1>1, <1>3
  <2>2. HeldBy(t)' \subseteq HeldBy(t) \cup {h} /\ Idle(j)' \subseteq Idle(j)
    OBVIOUS
  <2> QED BY <2>1, <2>2
<1>7. ASSUME NEW x \in Handle
      PROVE  x \in live' <=> (\E j \in Key : x \in Idle(j)') \/ (\E t \in Thread : x \in HeldBy(t)')
  <2>1. CASE x = h
    BY <2>1
  <2>2. CASE x # h /\ x \in D
    <3>1. \A j \in Key : x \notin Idle(j)'
      BY <2>2
    <3>2. \A t \in Thread : x \notin HeldBy(t)'
      BY <1>2, <2>2
    <3> QED BY <2>2, <3>1, <3>2
  <2>3. CASE x # h /\ x \notin D
    <3>1. \A j \in Key : x \in Idle(j)' <=> x \in Idle(j)
      BY <2>3
    <3>2. \A t \in Thread : x \in HeldBy(t)' <=> x \in HeldBy(t)
      BY <2>3
    <3>3. x \in live' <=> x \in live
      BY <2>3
    <3> QED BY <1>1, <3>1, <3>2, <3>3
  <2> QED BY <2>1, <2>2, <2>3
<1> QED BY <1>4, <1>5, <1>6, <1>7 DEF OnePlace

LEMMA ReuseKeeps ==
  ASSUME IInv, NEW th \in Thread, NEW k \in Key, Reuse(th, k)
  PROVE  IInv'
<1> DEFINE h == LastOf(curls_[k])
<1>1. /\ h \in Handle /\ h \in live
      /\ \A t \in Thread : h \notin HeldBy(t)
      /\ curls_' \in [Key -> Seq(Handle)]
      /\ \A j \in Key : IsInjective(curls_'[j])
      /\ \A j \in Key : Idle(j)' = Idle(j) \ {h}
  BY PopIdle DEF Reuse
<1>2. h \in Idle(k)
  <2>1. curls_ \in [Key -> Seq(Handle)] /\ curls_[k] # <<>> /\ IsInjective(curls_[k])
    BY DEF IInv, TypeOK, OnePlace, Reuse
  <2> QED BY <2>1, Shortened DEF Idle
<1>3. Lend(th, k, h) /\ use_counts_[h] + 1 < MAX_CURL_REUSE_COUNT
  BY DEF Reuse
<1>4. /\ use_counts_' = [use_counts_ EXCEPT ![h] = use_counts_[h] + 1]
      /\ lent' = [lent EXCEPT ![h] = lent[h] + 1]
      /\ UNCHANGED <<live, error_bufs_, doing, raced, tainted>>
  BY DEF Reuse
<1> HIDE DEF h
<1>5. /\ held' \in [Thread -> Seq(Handle)]
      /\ borrowed_curls_' \in [Handle -> Key \cup {NoKey}]
      /\ \A t \in Thread : IsInjective(held'[t])
      /\ HeldBy(th)' = HeldBy(th) \cup {h}
      /\ \A t \in Thread \ {th} : HeldBy(t)' = HeldBy(t)
      /\ \A x \in Handle : borrowed_curls_'[x] # NoKey <=> \E t \in Thread : x \in HeldBy(t)'
  BY <1>1, <1>3, LendOne
<1>6. TypeOK'
  <2>1. use_counts_' \in [Handle -> 0..(MAX_CURL_REUSE_COUNT + 1)]
    BY <1>1, <1>3, <1>4, PoolAssumption DEF IInv, TypeOK
  <2>2. lent' \in [Handle -> Nat]
    BY <1>1, <1>4 DEF IInv, TypeOK
  <2> QED BY <1>1, <1>4, <1>5, <2>1, <2>2 DEF IInv, TypeOK
<1>7. OnePlace'
  <2> DEFINE D == {h}
  <2>1. D \in SUBSET Handle /\ h \notin live \ D /\ live' = (live \ D) \cup {h}
    BY <1>1, <1>4
  <2>2. /\ \A d \in D : \E j \in Key : d \in Idle(j)
        /\ \A j \in Key : Idle(j)' = Idle(j) \ D
    BY <1>1, <1>2
  <2> HIDE DEF D
  <2> QED BY <1>1, <1>5, <2>1, <2>2, LendPlaces
<1>8. Books'
  BY <1>1, <1>3, <1>4, <1>5, PoolAssumption DEF IInv, TypeOK, Books
<1>9. UseIsBounded'
  BY <1>1, <1>3, <1>4, PoolAssumption DEF IInv, TypeOK, Books, UseIsBounded
<1> QED BY <1>6, <1>7, <1>8, <1>9 DEF IInv

\* A new handle is made and lent; those of D, taken off their stacks, are freed.
LEMMA MakeKeeps ==
  ASSUME IInv, NEW th \in Thread, NEW k \in Key, NEW h \in Handle,
         NEW D \in SUBSET Handle,
         NEW counts \in [Handle -> 0..(MAX_CURL_REUSE_COUNT + 1)],
         \A d \in D : \E j \in Key : d \in Idle(j),
         \A x \in Handle \ D : counts[x] = use_counts_[x],
         Make(th, k, h, live \ D, error_bufs_ \ D, counts),
         curls_' \in [Key -> Seq(Handle)],
         \A j \in Key : IsInjective(curls_'[j]),
         \A j \in Key : Idle(j)' = Idle(j) \ D,
         tainted' = tainted \ D
  PROVE  IInv'
<1>1. /\ h \notin live \ D
      /\ live' = (live \ D) \cup {h}
      /\ error_bufs_' = (error_bufs_ \ D) \cup {h}
      /\ use_counts_' = [counts EXCEPT ![h] = 1]
      /\ Lend(th, k, h)
      /\ lent' = [x \in Handle |-> IF x = h THEN 1 ELSE IF x \in live \ D THEN lent[x] ELSE 0]
      /\ raced' = [t \in Thread |-> raced[t] \/ doing[t] = "asking"]
      /\ UNCHANGED doing
  BY DEF Make, Disturb
<1>2. \A t \in Thread : h \notin HeldBy(t)
  BY <1>1 DEF IInv, OnePlace
<1>3. /\ held' \in [Thread -> Seq(Handle)]
      /\ borrowed_curls_' \in [Handle -> Key \cup {NoKey}]
      /\ \A t \in Thread : IsInjective(held'[t])
      /\ HeldBy(th)' = HeldBy(th) \cup {h}
      /\ \A t \in Thread \ {th} : HeldBy(t)' = HeldBy(t)
      /\ \A x \in Handle : borrowed_curls_'[x] # NoKey <=> \E t \in Thread : x \in HeldBy(t)'
  BY <1>1, <1>2, LendOne
<1>4. TypeOK'
  <2>1. use_counts_' \in [Handle -> 0..(MAX_CURL_REUSE_COUNT + 1)]
    BY <1>1, PoolAssumption
  <2>2. lent' \in [Handle -> Nat]
    BY <1>1 DEF IInv, TypeOK
  <2>3. raced' \in [Thread -> BOOLEAN]
    BY <1>1 DEF IInv, TypeOK
  <2> QED BY <1>1, <1>3, <2>1, <2>2, <2>3 DEF IInv, TypeOK
<1>5. OnePlace'
  BY <1>1, <1>3, LendPlaces
<1>6. Books'
  <2>1. error_bufs_' = live'
    BY <1>1 DEF IInv, Books
  <2>2. ASSUME NEW x \in live' PROVE lent'[x] <= use_counts_'[x]
    BY <1>1, <2>2 DEF IInv, TypeOK, Books
  <2>3. ASSUME NEW x \in tainted' PROVE use_counts_'[x] > MAX_CURL_REUSE_COUNT
    BY <1>1, <2>3 DEF IInv, TypeOK, Books
  <2> QED BY <1>3, <2>1, <2>2, <2>3 DEF Books
<1>7. UseIsBounded'
  BY <1>1, PoolAssumption DEF IInv, TypeOK, UseIsBounded
<1> QED BY <1>4, <1>5, <1>6, <1>7 DEF IInv

LEMMA CreateKeeps ==
  ASSUME IInv, NEW th \in Thread, NEW k \in Key, Create(th, k)
  PROVE  IInv'
<1>1. PICK h \in Handle : Make(th, k, h, live, error_bufs_, use_counts_)
  BY DEF Create
<1> DEFINE D == {}
<1>2. Make(th, k, h, live \ D, error_bufs_ \ D, use_counts_)
  <2>1. live \ D = live /\ error_bufs_ \ D = error_bufs_
    OBVIOUS
  <2> QED BY <1>1, <2>1
<1>3. curls_' = curls_ /\ tainted' = tainted \ D
  BY DEF Create
<1>4. \A j \in Key : Idle(j)' = Idle(j) \ D
  BY <1>3 DEF Idle
<1>5. /\ D \in SUBSET Handle
      /\ \A d \in D : \E j \in Key : d \in Idle(j)
  OBVIOUS
<1>6. /\ use_counts_ \in [Handle -> 0..(MAX_CURL_REUSE_COUNT + 1)]
      /\ curls_' \in [Key -> Seq(Handle)]
      /\ \A j \in Key : IsInjective(curls_'[j])
  BY <1>3 DEF IInv, TypeOK, OnePlace
<1> HIDE DEF D
<1> QED BY <1>2, <1>3, <1>4, <1>5, <1>6, MakeKeeps

LEMMA RenewKeeps ==
  ASSUME IInv, NEW th \in Thread, NEW k \in Key, Renew(th, k)
  PROVE  IInv'
<1> DEFINE old == LastOf(curls_[k])
           D == {old}
           counts == [use_counts_ EXCEPT ![old] = 0]
<1>1. PICK h \in Handle : Make(th, k, h, live \ D, error_bufs_ \ D, counts)
  BY DEF Renew
<1>2. /\ curls_[k] # <<>> /\ curls_' = [curls_ EXCEPT ![k] = AllButLast(@)]
      /\ tainted' = tainted \ D
  BY DEF Renew
<1>3. /\ old \in Handle
      /\ curls_' \in [Key -> Seq(Handle)]
      /\ \A j \in Key : IsInjective(curls_'[j])
      /\ \A j \in Key : Idle(j)' = Idle(j) \ D
  BY <1>2, PopIdle
<1>4. \A d \in D : \E j \in Key : d \in Idle(j)
  <2>1. curls_ \in [Key -> Seq(Handle)] /\ IsInjective(curls_[k])
    BY DEF IInv, TypeOK, OnePlace
  <2> QED BY <1>2, <2>1, Shortened DEF Idle
<1>5. /\ counts \in [Handle -> 0..(MAX_CURL_REUSE_COUNT + 1)]
      /\ \A x \in Handle \ D : counts[x] = use_counts_[x]
  BY <1>3, PoolAssumption DEF IInv, TypeOK
<1>6. D \in SUBSET Handle
  BY <1>3
<1> HIDE DEF D, counts
<1> QED BY <1>1, <1>2, <1>3, <1>4, <1>5, <1>6, MakeKeeps

\* Steps that move no handle.
LEMMA Unmoved ==
  ASSUME OnePlace, UNCHANGED <<live, curls_, held>>
  PROVE  OnePlace'
BY DEF OnePlace, Idle, HeldBy

\* No handle is made: the one that was used up is gone, the others are where they
\* were.
LEMMA InitFailsKeeps ==
  ASSUME IInv, NEW th \in Thread, NEW k \in Key, InitFails(th, k)
  PROVE  IInv'
<1> DEFINE old == LastOf(curls_[k])
<1>1. /\ UNCHANGED <<borrowed_curls_, held>>
      /\ doing' \in [Thread -> {"working", "asking", "null", "unwinding"}]
      /\ \A t \in Thread : HeldBy(t)' = HeldBy(t)
  BY DEF InitFails, IInv, TypeOK, HeldBy
<1>2. CASE curls_[k] = <<>>
  <2>1. UNCHANGED <<live, curls_, error_bufs_, use_counts_, raced, lent, tainted>>
    BY <1>2 DEF InitFails
  <2>2. OnePlace'
    BY <1>1, <2>1, Unmoved DEF IInv
  <2>3. TypeOK'
    BY <1>1, <2>1 DEF IInv, TypeOK
  <2>4. Books' /\ UseIsBounded'
    BY <1>1, <2>1 DEF IInv, Books, UseIsBounded
  <2> QED BY <2>2, <2>3, <2>4 DEF IInv
<1>3. CASE curls_[k] # <<>>
  <2>1. /\ curls_' = [curls_ EXCEPT ![k] = AllButLast(@)]
        /\ live' = live \ {old} /\ error_bufs_' = error_bufs_ \ {old}
        /\ use_counts_' = [use_counts_ EXCEPT ![old] = 0]
        /\ lent' = [lent EXCEPT ![old] = 0]
        /\ tainted' = tainted \ {old}
        /\ raced' = [t \in Thread |-> raced[t] \/ doing[t] = "asking"]
    BY <1>3 DEF InitFails, Disturb
  <2>2. /\ old \in Handle
        /\ \A t \in Thread : old \notin HeldBy(t)
        /\ curls_' \in [Key -> Seq(Handle)]
        /\ \A j \in Key : IsInjective(curls_'[j])
        /\ \A j \in Key : Idle(j)' = Idle(j) \ {old}
    BY <1>3, <2>1, PopIdle
  <2> HIDE DEF old
  <2>3. use_counts_' \in [Handle -> 0..(MAX_CURL_REUSE_COUNT + 1)]
    BY <2>1, <2>2, PoolAssumption DEF IInv, TypeOK
  <2>4. lent' \in [Handle -> Nat]
    BY <2>1, <2>2 DEF IInv, TypeOK
  <2>5. raced' \in [Thread -> BOOLEAN]
    <3>1. \A t \in Thread : raced[t] \in BOOLEAN /\ (doing[t] = "asking") \in BOOLEAN
      BY DEF IInv, TypeOK
    <3> QED BY <2>1, <3>1
  <2>6. TypeOK'
    BY <1>1, <2>1, <2>2, <2>3, <2>4, <2>5 DEF IInv, TypeOK
  <2>7. OnePlace'
    BY <1>1, <2>1, <2>2 DEF IInv, OnePlace
  <2>8. Books'
    <3>1. \A h \in Handle \ {old} : use_counts_'[h] = use_counts_[h] /\ lent'[h] = lent[h]
      BY <2>1 DEF IInv, TypeOK
    <3>2. \A h \in live' : h \in Handle \ {old} /\ h \in live
      BY <2>1 DEF IInv, TypeOK
    <3>3. \A h \in tainted' : h \in Handle \ {old} /\ h \in tainted
      BY <2>1 DEF IInv, TypeOK
    <3> QED BY <1>1, <2>1, <3>1, <3>2, <3>3 DEF IInv, Books
  <2>9. UseIsBounded'
    BY <2>1 DEF IInv, TypeOK, UseIsBounded
  <2> QED BY <2>6, <2>7, <2>8, <2>9 DEF IInv
<1> QED BY <1>2, <1>3

LEMMA ReleaseKeeps ==
  ASSUME IInv, NEW th \in Thread, release_curl(th)
  PROVE  IInv'
<1> DEFINE h == LastOf(held[th])
<1>1. /\ held \in [Thread -> Seq(Handle)] /\ held[th] # <<>>
      /\ \A t \in Thread : IsInjective(held[t])
      /\ held' = [held EXCEPT ![th] = AllButLast(@)]
  BY DEF IInv, TypeOK, OnePlace, release_curl
<1>2. /\ h \in Handle /\ h \in Range(held[th])
      /\ held' \in [Thread -> Seq(Handle)]
      /\ \A t \in Thread : IsInjective(held'[t])
      /\ Range(held'[th]) = Range(held[th]) \ {h}
      /\ \A t \in Thread \ {th} : held'[t] = held[t]
  BY <1>1, PopOne
<1> HIDE DEF h
<1>3. h \in HeldBy(th)
  BY <1>2 DEF HeldBy
<1>4. /\ \A t \in Thread \ {th} : h \notin HeldBy(t)
      /\ \A j \in Key : h \notin Idle(j)
  BY <1>2, <1>3 DEF IInv, OnePlace
<1>5. ASSUME NEW t \in Thread PROVE HeldBy(t)' = HeldBy(t) \ {h}
  BY <1>2, <1>4 DEF HeldBy
<1>6. PICK k \in Key : k = borrowed_curls_[h]
  BY <1>2, <1>3 DEF IInv, TypeOK, Books
<1>7. /\ curls_' = [curls_ EXCEPT ![k] = Append(curls_[k], h)]
      /\ borrowed_curls_' = [borrowed_curls_ EXCEPT ![h] = NoKey]
      /\ doing' = [doing EXCEPT ![th] = IF Len(held[th]) = 1 THEN "working" ELSE @]
      /\ UNCHANGED <<live, error_bufs_, use_counts_, raced, lent, tainted>>
  BY <1>6 DEF release_curl, h
<1>8. /\ curls_' \in [Key -> Seq(Handle)]
      /\ \A j \in Key : IsInjective(curls_'[j])
      /\ Idle(k)' = Idle(k) \cup {h}
      /\ \A j \in Key \ {k} : Idle(j)' = Idle(j)
  <2>1. /\ curls_ \in [Key -> Seq(Handle)]
        /\ \A j \in Key : IsInjective(curls_[j])
        /\ h \notin Range(curls_[k])
    BY <1>4, <1>6 DEF IInv, TypeOK, OnePlace, Idle
  <2>2. /\ Append(curls_[k], h) \in Seq(Handle)
        /\ IsInjective(Append(curls_[k], h))
        /\ Range(Append(curls_[k], h)) = Range(curls_[k]) \cup {h}
    BY <1>2, <1>6, <2>1, Appended
  <2>3. curls_'[k] = Append(curls_[k], h) /\ \A j \in Key \ {k} : curls_'[j] = curls_[j]
    BY <1>6, <1>7, <2>1
  <2>4. curls_' \in [Key -> Seq(Handle)]
    BY <1>7, <2>1, <2>2
  <2> QED BY <2>1, <2>2, <2>3, <2>4 DEF Idle
<1>9. TypeOK'
  <2>1. borrowed_curls_' \in [Handle -> Key \cup {NoKey}]
    BY <1>2, <1>7 DEF IInv, TypeOK
  <2>2. doing' \in [Thread -> {"working", "asking", "null", "unwinding"}]
    BY <1>7 DEF IInv, TypeOK
  <2> QED BY <1>2, <1>7, <1>8, <2>1, <2>2 DEF IInv, TypeOK
<1>10. OnePlace'
  <2>1. ASSUME NEW j1 \in Key, NEW j2 \in Key, j1 # j2
        PROVE  Idle(j1)' \cap Idle(j2)' = {}
    <3>1. Idle(j1) \cap Idle(j2) = {} /\ h \notin Idle(j1) /\ h \notin Idle(j2)
      BY <1>4, <2>1 DEF IInv, OnePlace
    <3>2. Idle(j1)' = Idle(j1) \/ Idle(j2)' = Idle(j2)
      BY <1>8, <2>1
    <3>3. Idle(j1)' \subseteq Idle(j1) \cup {h} /\ Idle(j2)' \subseteq Idle(j2) \cup {h}
      BY <1>8
    <3> QED BY <3>1, <3>2, <3>3
  <2>2. \A t1, t2 \in Thread : t1 # t2 => HeldBy(t1)' \cap HeldBy(t2)' = {}
    BY <1>5 DEF IInv, OnePlace
  <2>3. \A j \in Key : \A t \in Thread : Idle(j)' \cap HeldBy(t)' = {}
    BY <1>5, <1>8 DEF IInv, OnePlace
  <2>4. ASSUME NEW x \in Handle
        PROVE  x \in live' <=> (\E j \in Key : x \in Idle(j)') \/ (\E t \in Thread : x \in HeldBy(t)')
    <3>1. x \in live <=> (\E j \in Key : x \in Idle(j)) \/ (\E t \in Thread : x \in HeldBy(t))
      BY DEF IInv, OnePlace
    <3>2. CASE x = h
      BY <1>3, <1>6, <1>7, <1>8, <3>1, <3>2
    <3>3. CASE x # h
      <4>1. \A j \in Key : x \in Idle(j)' <=> x \in Idle(j)
        BY <1>8, <3>3
      <4>2. \A t \in Thread : x \in HeldBy(t)' <=> x \in HeldBy(t)
        BY <1>5, <3>3
      <4> QED BY <1>7, <3>1, <4>1, <4>2
    <3> QED BY <3>2, <3>3
  <2> QED BY <1>2, <1>8, <2>1, <2>2, <2>3, <2>4 DEF OnePlace
<1>11. Books'
  <2>1. ASSUME NEW x \in Handle
        PROVE  borrowed_curls_'[x] # NoKey <=> \E t \in Thread : x \in HeldBy(t)'
    <3>1. borrowed_curls_[x] # NoKey <=> \E t \in Thread : x \in HeldBy(t)
      BY DEF IInv, Books
    <3>2. borrowed_curls_'[x] = IF x = h THEN NoKey ELSE borrowed_curls_[x]
      BY <1>2, <1>7 DEF IInv, TypeOK
    <3> QED BY <1>5, <3>1, <3>2
  <2> QED BY <1>7, <2>1 DEF IInv, Books
<1>12. UseIsBounded'
  BY <1>7 DEF IInv, UseIsBounded
<1> QED BY <1>9, <1>10, <1>11, <1>12 DEF IInv

LEMMA TaintKeeps ==
  ASSUME IInv, NEW th \in Thread, taint(th)
  PROVE  IInv'
<1> DEFINE h == LastOf(held[th])
<1>1. /\ held[th] # <<>>
      /\ use_counts_' = [use_counts_ EXCEPT ![h] = MAX_CURL_REUSE_COUNT + 1]
      /\ tainted' = tainted \cup {h}
      /\ doing' = [doing EXCEPT ![th] = "unwinding"]
      /\ UNCHANGED <<live, curls_, error_bufs_, borrowed_curls_, held, raced, lent>>
  BY DEF taint
<1>2. h \in Handle /\ h \in HeldBy(th)
  <2>1. held \in [Thread -> Seq(Handle)] /\ IsInjective(held[th])
    BY DEF IInv, TypeOK, OnePlace
  <2> QED BY <1>1, <2>1, Shortened DEF HeldBy
<1> HIDE DEF h
<1>3. h \in live
  BY <1>2 DEF IInv, OnePlace
<1>4. TypeOK'
  BY <1>1, <1>2, <1>3, PoolAssumption DEF IInv, TypeOK
<1>5. OnePlace'
  BY <1>1, Unmoved DEF IInv
<1>6. Books'
  <2>1. \A x \in Handle : borrowed_curls_'[x] # NoKey <=> \E t \in Thread : x \in HeldBy(t)'
    BY <1>1 DEF IInv, Books, HeldBy
  <2>2. ASSUME NEW x \in live PROVE lent[x] <= use_counts_'[x]
    <3>1. lent[x] <= use_counts_[x] /\ lent[x] < MAX_CURL_REUSE_COUNT /\ lent[x] \in Nat
      BY DEF IInv, TypeOK, Books, UseIsBounded
    <3>2. use_counts_'[x] = IF x = h THEN MAX_CURL_REUSE_COUNT + 1 ELSE use_counts_[x]
      BY <1>1, <1>2 DEF IInv, TypeOK
    <3> QED BY <3>1, <3>2, PoolAssumption
  <2>3. ASSUME NEW x \in tainted' PROVE use_counts_'[x] > MAX_CURL_REUSE_COUNT
    <3>1. use_counts_'[h] = MAX_CURL_REUSE_COUNT + 1
      BY <1>1, <1>2 DEF IInv, TypeOK
    <3>2. CASE x = h
      BY <3>1, <3>2, PoolAssumption
    <3>3. CASE x # h
      BY <1>1, <2>3, <3>3 DEF IInv, TypeOK, Books
    <3> QED BY <3>2, <3>3
  <2> QED BY <1>1, <2>1, <2>2, <2>3 DEF IInv, Books
<1>7. UseIsBounded'
  BY <1>1 DEF IInv, UseIsBounded
<1> QED BY <1>4, <1>5, <1>6, <1>7 DEF IInv

LEMMA AskKeeps ==
  ASSUME IInv, NEW th \in Thread, AskErrorBuffer(th) \/ err_buf_for(th)
  PROVE  IInv'
<1>1. UNCHANGED <<live, curls_, error_bufs_, borrowed_curls_, use_counts_, held,
                  lent, tainted>>
  BY DEF AskErrorBuffer, err_buf_for
<1>2. /\ doing' \in [Thread -> {"working", "asking", "null", "unwinding"}]
      /\ raced' \in [Thread -> BOOLEAN]
  BY DEF IInv, TypeOK, AskErrorBuffer, err_buf_for
<1>3. TypeOK'
  BY <1>1, <1>2 DEF IInv, TypeOK
<1>4. OnePlace'
  BY <1>1, Unmoved DEF IInv
<1>5. Books' /\ UseIsBounded'
  BY <1>1 DEF IInv, Books, UseIsBounded, HeldBy
<1> QED BY <1>3, <1>4, <1>5 DEF IInv

LEMMA ResetKeeps ==
  ASSUME IInv, reset
  PROVE  IInv'
<1>1. /\ \A th \in Thread : held[th] = <<>>
      /\ live' = {} /\ error_bufs_' = {} /\ tainted' = {}
      /\ curls_' = [k \in Key |-> <<>>]
      /\ lent' = [h \in Handle |-> 0]
      /\ UNCHANGED <<borrowed_curls_, use_counts_, held, doing, raced>>
  BY DEF reset
<1>2. /\ \A th \in Thread : HeldBy(th) = {} /\ HeldBy(th)' = {}
      /\ \A k \in Key : Idle(k)' = {}
  BY <1>1 DEF HeldBy, Idle, Range
<1>3. /\ \A k \in Key : IsInjective(curls_'[k])
      /\ \A th \in Thread : IsInjective(held'[th])
  BY <1>1 DEF IsInjective
<1>4. TypeOK'
  BY <1>1 DEF IInv, TypeOK
<1>5. OnePlace'
  BY <1>1, <1>2, <1>3 DEF OnePlace
<1>6. Books' /\ UseIsBounded'
  BY <1>1, <1>2 DEF IInv, Books, UseIsBounded
<1> QED BY <1>4, <1>5, <1>6 DEF IInv

-----------------------------------------------------------------------------
LEMMA InitIInv == Init => IInv
<1> SUFFICES ASSUME Init PROVE IInv
  OBVIOUS
<1>1. /\ live = {} /\ error_bufs_ = {} /\ tainted = {}
      /\ \A th \in Thread : HeldBy(th) = {} /\ IsInjective(held[th])
      /\ \A k \in Key : Idle(k) = {} /\ IsInjective(curls_[k])
  BY DEF Init, HeldBy, Idle, Range, IsInjective
<1>2. TypeOK
  BY PoolAssumption DEF Init, TypeOK
<1>3. OnePlace
  BY <1>1 DEF OnePlace
<1>4. Books /\ UseIsBounded
  BY <1>1 DEF Init, Books, UseIsBounded
<1> QED BY <1>2, <1>3, <1>4 DEF IInv

LEMMA NextIInv == IInv /\ [Next]_vars => IInv'
<1> SUFFICES ASSUME IInv, [Next]_vars PROVE IInv'
  OBVIOUS
<1>1. ASSUME NEW th \in Thread, NEW k \in Key, get_curl(th, k) PROVE IInv'
  BY <1>1, ReuseKeeps, CreateKeeps, RenewKeeps, InitFailsKeeps DEF get_curl
<1>2. ASSUME NEW th \in Thread, release_curl(th) PROVE IInv'
  BY <1>2, ReleaseKeeps
<1>3. ASSUME NEW th \in Thread, taint(th) PROVE IInv'
  BY <1>3, TaintKeeps
<1>4. ASSUME NEW th \in Thread, AskErrorBuffer(th) \/ err_buf_for(th) PROVE IInv'
  BY <1>4, AskKeeps
<1>5. CASE reset
  BY <1>5, ResetKeeps
<1>6. CASE UNCHANGED vars
  <2>1. OnePlace'
    BY <1>6, Unmoved DEF vars, IInv
  <2> QED BY <1>6, <2>1 DEF vars, IInv, TypeOK, Books, UseIsBounded, HeldBy
<1> QED BY <1>1, <1>2, <1>3, <1>4, <1>5, <1>6 DEF Next, Step

LEMMA Invariance == Spec => []IInv
BY InitIInv, NextIInv, PTL DEF Spec

\* Every variable of the pool keeps its type (context.h, class conn_context).
THEOREM TypeCorrect == Spec => []TypeOK
<1>1. IInv => TypeOK
  BY DEF IInv
<1> QED BY <1>1, Invariance, PTL

\* No two requests ever share a curl handle, and none is freed while a request
\* uses it or forgotten without being freed (get_curl, release_curl, reset).
THEOREM HandlesHaveOnePlace == Spec => []OnePlace
<1>1. IInv => OnePlace
  BY DEF IInv
<1> QED BY <1>1, Invariance, PTL

\* The four maps of conn_context agree with each other and with the handles the
\* threads hold: the assertions of get_curl, release_curl and reset never fail.
THEOREM BooksAgree == Spec => []Books
<1>1. IInv => Books
  BY DEF IInv
<1> QED BY <1>1, Invariance, PTL

\* No handle serves MAX_CURL_REUSE_COUNT requests, not even if a new one gets
\* the address of one that was freed.
THEOREM UseStaysBounded == Spec => []UseIsBounded
<1>1. IInv => UseIsBounded
  BY DEF IInv
<1> QED BY <1>1, Invariance, PTL

-----------------------------------------------------------------------------
\* What TaintedIsRetired says of one step: who gets a handle gets one that was
\* not tainted (taint, get_curl).
Retired ==
  \A th \in Thread : Len(held'[th]) > Len(held[th]) => LastOf(held'[th]) \notin tainted'

\* A thread is given a handle that is not tainted.
LEMMA LendsSound ==
  ASSUME IInv, NEW th \in Thread, NEW k \in Key, NEW h \in Handle,
         \A t \in Thread : h \notin HeldBy(t), Lend(th, k, h), h \notin tainted'
  PROVE  Retired
<1>1. LastOf(held'[th]) = h
  BY LendOne
<1>2. ASSUME NEW t \in Thread \ {th} PROVE held'[t] = held[t] /\ Len(held[t]) \in Nat
  BY LenProperties DEF Lend, IInv, TypeOK
<1> QED BY <1>1, <1>2 DEF Retired

LEMMA StaysPut ==
  ASSUME IInv, held' = held
  PROVE  Retired
<1>1. \A t \in Thread : Len(held[t]) \in Nat
  BY LenProperties DEF IInv, TypeOK
<1> QED BY <1>1 DEF Retired

LEMMA NextRetired == IInv /\ [Next]_vars => Retired
<1> SUFFICES ASSUME IInv, [Next]_vars PROVE Retired
  OBVIOUS
<1>1. ASSUME NEW th \in Thread, NEW k \in Key, Reuse(th, k) PROVE Retired
  <2> DEFINE h == LastOf(curls_[k])
  <2>1. /\ h \in Handle /\ \A t \in Thread : h \notin HeldBy(t)
    BY <1>1, PopIdle DEF Reuse
  <2>2. /\ Lend(th, k, h) /\ tainted' = tainted
        /\ use_counts_[h] + 1 < MAX_CURL_REUSE_COUNT
    BY <1>1 DEF Reuse
  <2> HIDE DEF h
  <2>3. h \notin tainted
    BY <2>1, <2>2, PoolAssumption DEF IInv, TypeOK, Books
  <2> QED BY <2>1, <2>2, <2>3, LendsSound
<1>2. ASSUME NEW th \in Thread, NEW k \in Key, Create(th, k) PROVE Retired
  <2>1. PICK h \in Handle : Make(th, k, h, live, error_bufs_, use_counts_)
    BY <1>2 DEF Create
  <2>2. h \notin live /\ Lend(th, k, h) /\ tainted' = tainted
    BY <1>2, <2>1 DEF Make, Create
  <2>3. h \notin tainted' /\ \A t \in Thread : h \notin HeldBy(t)
    BY <2>2 DEF IInv, TypeOK, OnePlace
  <2> QED BY <2>2, <2>3, LendsSound
<1>3. ASSUME NEW th \in Thread, NEW k \in Key, Renew(th, k) PROVE Retired
  <2> DEFINE old == LastOf(curls_[k])
  <2>1. PICK h \in Handle : Make(th, k, h, live \ {old}, error_bufs_ \ {old},
                                 [use_counts_ EXCEPT ![old] = 0])
    BY <1>3 DEF Renew
  <2>2. /\ h \notin live \ {old} /\ Lend(th, k, h)
        /\ tainted' = tainted \ {old}
        /\ curls_[k] # <<>> /\ curls_' = [curls_ EXCEPT ![k] = AllButLast(@)]
    BY <1>3, <2>1 DEF Make, Renew
  <2>3. \A t \in Thread : old \notin HeldBy(t)
    BY <2>2, PopIdle
  <2> HIDE DEF old
  <2>4. h \notin tainted' /\ \A t \in Thread : h \notin HeldBy(t)
    BY <2>2, <2>3 DEF IInv, TypeOK, OnePlace
  <2> QED BY <2>2, <2>4, LendsSound
<1>4. ASSUME NEW th \in Thread, release_curl(th) PROVE Retired
  <2>1. held \in [Thread -> Seq(Handle)] /\ held[th] # <<>>
    BY <1>4 DEF IInv, TypeOK, release_curl
  <2>2. held'[th] = AllButLast(held[th]) /\ \A t \in Thread \ {th} : held'[t] = held[t]
    BY <1>4, <2>1 DEF release_curl
  <2>3. Len(AllButLast(held[th])) <= Len(held[th])
    <3>1. Len(held[th]) \in Nat /\ \A i \in 1..Len(held[th]) : held[th][i] \in Handle
      BY <2>1, LenProperties, ElementOfSeq
    <3>2. \A i \in 1..(Len(held[th]) - 1) : held[th][i] \in Handle
      BY <3>1
    <3>3. Len(AllButLast(held[th]))
            = IF 1 <= Len(held[th]) - 1 THEN (Len(held[th]) - 1) - 1 + 1 ELSE 0
      BY <3>1, <3>2, SubSeqProperties DEF AllButLast
    <3> QED BY <3>1, <3>3
  <2>4. \A t \in Thread : Len(held[t]) \in Nat
    BY <2>1, LenProperties
  <2>5. held'[th] \in Seq(Handle) /\ Len(held'[th]) \in Nat
    <3>1. IsInjective(held[th])
      BY DEF IInv, OnePlace
    <3>2. AllButLast(held[th]) \in Seq(Handle)
      BY <2>1, <3>1, Shortened
    <3> QED BY <2>2, <3>2, LenProperties
  <2>6. ASSUME NEW t \in Thread PROVE ~(Len(held'[t]) > Len(held[t]))
    BY <2>2, <2>3, <2>4, <2>5
  <2> QED BY <2>6 DEF Retired
<1>5. ASSUME NEW th \in Thread, taint(th) \/ AskErrorBuffer(th) \/ err_buf_for(th)
      PROVE  Retired
  BY <1>5, StaysPut DEF taint, AskErrorBuffer, err_buf_for
<1>6. CASE reset \/ UNCHANGED vars
  BY <1>6, StaysPut DEF reset, vars
<1>7. ASSUME NEW th \in Thread, NEW k \in Key, InitFails(th, k) PROVE Retired
  BY <1>7, StaysPut DEF InitFails
<1> QED BY <1>1, <1>2, <1>3, <1>4, <1>5, <1>6, <1>7 DEF Next, Step, get_curl

\* A handle that taint was called for is not lent again, nor mistaken for a new one
\* at the same address (taint, get_curl).  It says nothing of a HEAD answered by an
\* error, which taints no handle (find_mtime_and_size).
THEOREM TaintedStaysRetired == Spec => TaintedIsRetired
<1>1. IInv /\ [Next]_vars => [Retired]_vars
  BY NextRetired
<1>2. Spec => [][Retired]_vars
  BY <1>1, Invariance, PTL DEF Spec
<1> QED BY <1>2 DEF TaintedIsRetired, Retired

-----------------------------------------------------------------------------
\* A request holds its handle and, while it checks a part, a second one.
HeldFits == \A th \in Thread : Len(held[th]) <= MaxHeld

BorrowedFor(k) == {h \in Handle : borrowed_curls_[h] = k}
PoolLimit == MaxHeld * Cardinality(Thread)

LEMMA NumbersAreNat ==
  ASSUME TypeOK, NEW k \in Key
  PROVE  /\ IsFiniteSet(BorrowedFor(k)) /\ Cardinality(BorrowedFor(k)) \in Nat
         /\ Len(curls_[k]) \in Nat /\ PoolLimit \in Nat
<1>1. BorrowedFor(k) \in SUBSET Handle
  BY DEF BorrowedFor
<1>2. IsFiniteSet(BorrowedFor(k))
  BY <1>1, FS_Subset, PoolAssumption
<1>3. Cardinality(BorrowedFor(k)) \in Nat
  BY <1>2, FS_CardinalityType
<1>4. Cardinality(Thread) \in Nat
  BY FS_CardinalityType, PoolAssumption
<1>5. PoolLimit \in Nat
  BY <1>4, PoolAssumption DEF PoolLimit
<1>6. Len(curls_[k]) \in Nat
  BY LenProperties DEF TypeOK
<1> QED BY <1>2, <1>3, <1>5, <1>6

\* Handles that are held are at places of their own in the hands of the threads.
LEMMA BorrowedFit ==
  ASSUME NEW hands \in [Thread -> Seq(Handle)], \A th \in Thread : Len(hands[th]) <= MaxHeld,
         NEW B, \A h \in B : \E th \in Thread : h \in Range(hands[th])
  PROVE  Cardinality(B) <= PoolLimit
<1> DEFINE Place == Thread \X (1..MaxHeld)
           Is(h, p) == p[2] \in 1..Len(hands[p[1]]) /\ hands[p[1]][p[2]] = h
           at == [h \in B |-> CHOOSE p \in Place : Is(h, p)]
<1>1. /\ IsFiniteSet(Place) /\ Cardinality(Place) = PoolLimit
  <2>1. IsFiniteSet(1..MaxHeld) /\ Cardinality(1..MaxHeld) = MaxHeld
    BY FS_Interval, PoolAssumption
  <2>2. IsFiniteSet(Place) /\ Cardinality(Place) = Cardinality(Thread) * MaxHeld
    BY <2>1, FS_Product, PoolAssumption
  <2>3. Cardinality(Thread) \in Nat
    BY FS_CardinalityType, PoolAssumption
  <2> QED BY <2>2, <2>3, PoolAssumption DEF PoolLimit
<1>2. ASSUME NEW h \in B
      PROVE  at[h] \in Place /\ hands[at[h][1]][at[h][2]] = h
  <2>1. PICK th \in Thread : h \in Range(hands[th])
    OBVIOUS
  <2>2. Len(hands[th]) \in Nat /\ DOMAIN hands[th] = 1..Len(hands[th])
    BY LenProperties
  <2>3. PICK i \in 1..Len(hands[th]) : hands[th][i] = h
    BY <2>1, <2>2 DEF Range
  <2>4. i \in 1..MaxHeld
    BY <2>2, <2>3, PoolAssumption
  <2>5. <<th, i>> \in Place /\ <<th, i>>[1] = th /\ <<th, i>>[2] = i
    BY <2>4
  <2>6. Is(h, <<th, i>>)
    BY <2>3, <2>5
  <2> HIDE DEF Is, Place
  <2>7. at[h] \in Place /\ Is(h, at[h])
    BY <2>5, <2>6
  <2> QED BY <2>7 DEF Is
<1>3. at \in Injection(B, Place)
  <2>1. at \in [B -> Place]
    BY <1>2
  <2> HIDE DEF at
  <2>2. \A g, h \in B : at[g] = at[h] => g = h
    BY <1>2
  <2> QED BY <2>1, <2>2 DEF Injection, IsInjective
<1> HIDE DEF at, Place
<1> QED BY <1>1, <1>3, FS_Injection

\* A handle is lent from the pool, which shrinks by one for its key.
LEMMA TakenFromPool ==
  ASSUME IInv, PoolIsBounded, NEW th \in Thread, NEW k \in Key, NEW h \in Handle,
         curls_[k] # <<>>, curls_' = [curls_ EXCEPT ![k] = AllButLast(@)],
         \A t \in Thread : h \notin HeldBy(t),
         borrowed_curls_' = [borrowed_curls_ EXCEPT ![h] = k]
  PROVE  PoolIsBounded'
<1>1. curls_ \in [Key -> Seq(Handle)] /\ borrowed_curls_ \in [Handle -> Key \cup {NoKey}]
  BY DEF IInv, TypeOK
<1>2. borrowed_curls_[h] = NoKey
  BY DEF IInv, Books
<1>3. Len(curls_[k]) \in Nat /\ Len(curls_[k]) > 0
  BY <1>1, EmptySeq, LenProperties
<1>4. Len(curls_'[k]) = Len(curls_[k]) - 1
  <2>1. \A i \in 1..(Len(curls_[k]) - 1) : curls_[k][i] \in Handle
    BY <1>1, <1>3, ElementOfSeq
  <2>2. Len(AllButLast(curls_[k]))
          = IF 1 <= Len(curls_[k]) - 1 THEN (Len(curls_[k]) - 1) - 1 + 1 ELSE 0
    BY <1>3, <2>1, SubSeqProperties DEF AllButLast
  <2> QED BY <1>1, <1>3, <2>2
<1>5. BorrowedFor(k)' = BorrowedFor(k) \cup {h} /\ h \notin BorrowedFor(k)
  BY <1>1, <1>2, PoolAssumption DEF BorrowedFor
<1>6. Cardinality(BorrowedFor(k)') = Cardinality(BorrowedFor(k)) + 1
  BY <1>5, NumbersAreNat, FS_AddElement DEF IInv
<1>7. \A j \in Key \ {k} : curls_'[j] = curls_[j] /\ BorrowedFor(j)' = BorrowedFor(j)
  BY <1>1, <1>2, PoolAssumption DEF BorrowedFor
<1>8. \A j \in Key : /\ Len(curls_[j]) \in Nat
                     /\ Cardinality(BorrowedFor(j)) \in Nat /\ PoolLimit \in Nat
  BY NumbersAreNat DEF IInv
<1>9. \A j \in Key : Len(curls_[j]) + Cardinality(BorrowedFor(j)) <= PoolLimit
  BY DEF PoolIsBounded, BorrowedFor, PoolLimit
<1>10. Len(curls_'[k]) + Cardinality(BorrowedFor(k)') <= PoolLimit
  BY <1>3, <1>4, <1>6, <1>8, <1>9
<1> QED BY <1>7, <1>9, <1>10 DEF PoolIsBounded, BorrowedFor, PoolLimit

\* A new handle is made when the pool has none for the key.
LEMMA MadeAnew ==
  ASSUME IInv, IInv', HeldFits', PoolIsBounded, NEW th \in Thread, NEW k \in Key,
         Create(th, k)
  PROVE  PoolIsBounded'
<1>1. PICK h \in Handle : Make(th, k, h, live, error_bufs_, use_counts_)
  BY DEF Create
<1>2. borrowed_curls_' = [borrowed_curls_ EXCEPT ![h] = k] /\ curls_' = curls_
  BY <1>1 DEF Make, Lend, Create
<1>3. h \notin live /\ \A t \in Thread : h \notin HeldBy(t)
  BY <1>1 DEF Make, IInv, OnePlace
<1>4. borrowed_curls_ \in [Handle -> Key \cup {NoKey}] /\ borrowed_curls_[h] = NoKey
  BY <1>3 DEF IInv, TypeOK, Books
<1>5. Len(curls_'[k]) = 0
  BY <1>2, EmptySeq DEF Create
<1>6. /\ Cardinality(BorrowedFor(k)') <= PoolLimit
      /\ IsFiniteSet(BorrowedFor(k)') /\ Cardinality(BorrowedFor(k)') \in Nat
  <2>1. held' \in [Thread -> Seq(Handle)] /\ \A t \in Thread : Len(held'[t]) <= MaxHeld
    BY DEF IInv, TypeOK, HeldFits
  <2>2. \A x \in BorrowedFor(k)' : \E t \in Thread : x \in Range(held'[t])
    BY PoolAssumption DEF IInv, Books, BorrowedFor, HeldBy
  <2>3. BorrowedFor(k)' \in SUBSET Handle
    BY DEF BorrowedFor
  <2> QED BY <2>1, <2>2, <2>3, BorrowedFit, FS_Subset, FS_CardinalityType, PoolAssumption
<1>7. ASSUME NEW j \in Key \ {k}
      PROVE  Len(curls_'[j]) = Len(curls_[j]) /\ BorrowedFor(j)' = BorrowedFor(j)
  BY <1>2, <1>4, PoolAssumption DEF BorrowedFor
<1>8. Len(curls_'[k]) + Cardinality(BorrowedFor(k)') <= PoolLimit
  BY <1>5, <1>6
<1>9. \A j \in Key \ {k} : Len(curls_'[j]) + Cardinality(BorrowedFor(j)') <= PoolLimit
  BY <1>7 DEF PoolIsBounded, BorrowedFor, PoolLimit
<1> QED BY <1>8, <1>9 DEF PoolIsBounded, BorrowedFor, PoolLimit

\* A handle that is given back changes from borrowed to idle.
LEMMA GivenBack ==
  ASSUME IInv, PoolIsBounded, NEW th \in Thread, release_curl(th)
  PROVE  PoolIsBounded'
<1> DEFINE h == LastOf(held[th])
<1>1. /\ curls_ \in [Key -> Seq(Handle)] /\ held \in [Thread -> Seq(Handle)]
      /\ borrowed_curls_ \in [Handle -> Key \cup {NoKey}]
      /\ held[th] # <<>> /\ \A t \in Thread : IsInjective(held[t])
      /\ curls_' = [curls_ EXCEPT ![borrowed_curls_[h]] = Append(@, h)]
      /\ borrowed_curls_' = [borrowed_curls_ EXCEPT ![h] = NoKey]
  BY DEF IInv, TypeOK, OnePlace, release_curl
<1>2. h \in Handle /\ h \in HeldBy(th)
  BY <1>1, Shortened DEF HeldBy
<1> HIDE DEF h
<1>3. borrowed_curls_[h] \in Key
  BY <1>1, <1>2 DEF IInv, Books
<1>4. PICK k \in Key : k = borrowed_curls_[h]
  BY <1>3
<1>5. Len(curls_'[k]) = Len(curls_[k]) + 1
  <2>1. curls_'[k] = Append(curls_[k], h)
    BY <1>1, <1>4
  <2> QED BY <1>1, <1>2, <2>1, AppendProperties
<1>6. BorrowedFor(k)' = BorrowedFor(k) \ {h} /\ h \in BorrowedFor(k)
  BY <1>1, <1>2, <1>3, <1>4, PoolAssumption DEF BorrowedFor
<1>7. Cardinality(BorrowedFor(k)') = Cardinality(BorrowedFor(k)) - 1
  BY <1>3, <1>6, NumbersAreNat, FS_RemoveElement DEF IInv
<1>8. ASSUME NEW j \in Key \ {k}
      PROVE  curls_'[j] = curls_[j] /\ BorrowedFor(j)' = BorrowedFor(j)
  BY <1>1, <1>2, <1>4, PoolAssumption DEF BorrowedFor
<1>9. /\ Len(curls_[k]) \in Nat /\ Cardinality(BorrowedFor(k)) \in Nat /\ PoolLimit \in Nat
  BY <1>3, NumbersAreNat DEF IInv
<1>10. \A j \in Key : Len(curls_[j]) + Cardinality(BorrowedFor(j)) <= PoolLimit
  BY DEF PoolIsBounded, BorrowedFor, PoolLimit
<1>11. Len(curls_'[k]) + Cardinality(BorrowedFor(k)') <= PoolLimit
  BY <1>3, <1>5, <1>7, <1>9, <1>10
<1> QED BY <1>8, <1>10, <1>11 DEF PoolIsBounded, BorrowedFor, PoolLimit

\* No handle is left.
LEMMA AllFreed ==
  ASSUME IInv, PoolIsBounded, reset
  PROVE  PoolIsBounded'
<1>1. ASSUME NEW k \in Key PROVE Len(curls_'[k]) = 0 /\ BorrowedFor(k)' = BorrowedFor(k)
  BY EmptySeq DEF reset, BorrowedFor
<1>2. ASSUME NEW k \in Key
      PROVE  /\ Len(curls_[k]) + Cardinality(BorrowedFor(k)) <= PoolLimit
             /\ Len(curls_[k]) \in Nat /\ Cardinality(BorrowedFor(k)) \in Nat /\ PoolLimit \in Nat
  BY NumbersAreNat DEF PoolIsBounded, BorrowedFor, PoolLimit, IInv
<1>3. ASSUME NEW k \in Key PROVE Len(curls_'[k]) + Cardinality(BorrowedFor(k)') <= PoolLimit
  BY <1>1, <1>2
<1> QED BY <1>3 DEF PoolIsBounded, BorrowedFor, PoolLimit

\* No request takes more handles than it may.
LEMMA HandsStaySmall ==
  ASSUME IInv, HeldFits, [Next]_vars
  PROVE  HeldFits'
<1>1. held \in [Thread -> Seq(Handle)] /\ \A t \in Thread : Len(held[t]) \in Nat
  BY LenProperties DEF IInv, TypeOK
<1>2. ASSUME NEW th \in Thread, NEW k \in Key, NEW h \in Handle, MayBorrow(th, k), Lend(th, k, h)
      PROVE  HeldFits'
  <2>1. Len(held'[th]) = Len(held[th]) + 1 /\ \A t \in Thread \ {th} : held'[t] = held[t]
    BY <1>1, <1>2, AppendProperties DEF Lend
  <2> QED BY <1>1, <1>2, <2>1, PoolAssumption DEF HeldFits, MayBorrow
<1>3. ASSUME NEW th \in Thread, NEW k \in Key, get_curl(th, k) PROVE HeldFits'
  <2>1. CASE Reuse(th, k)
    <3>1. LastOf(curls_[k]) \in Handle
      BY <2>1, PopIdle DEF Reuse
    <3> QED BY <1>2, <2>1, <3>1 DEF Reuse
  <2>2. CASE Create(th, k)
    BY <1>2, <2>2 DEF Create, Make
  <2>3. CASE Renew(th, k)
    BY <1>2, <2>3 DEF Renew, Make
  <2>4. CASE InitFails(th, k)
    BY <2>4 DEF InitFails, HeldFits
  <2> QED BY <1>3, <2>1, <2>2, <2>3, <2>4 DEF get_curl
<1>4. ASSUME NEW th \in Thread, release_curl(th) PROVE HeldFits'
  <2>1. held'[th] = AllButLast(held[th]) /\ \A t \in Thread \ {th} : held'[t] = held[t]
    BY <1>1, <1>4 DEF release_curl
  <2>2. \A i \in 1..(Len(held[th]) - 1) : held[th][i] \in Handle
    BY <1>1, ElementOfSeq
  <2>3. Len(AllButLast(held[th]))
          = IF 1 <= Len(held[th]) - 1 THEN (Len(held[th]) - 1) - 1 + 1 ELSE 0
    BY <1>1, <2>2, SubSeqProperties DEF AllButLast
  <2> QED BY <1>1, <2>1, <2>3, PoolAssumption DEF HeldFits
<1>5. ASSUME held' = held PROVE HeldFits'
  BY <1>5 DEF HeldFits
<1>6. ASSUME NEW th \in Thread, taint(th) \/ AskErrorBuffer(th) \/ err_buf_for(th)
      PROVE  HeldFits'
  BY <1>5, <1>6 DEF taint, AskErrorBuffer, err_buf_for
<1>7. CASE reset \/ UNCHANGED vars
  BY <1>5, <1>7 DEF reset, vars
<1> QED BY <1>3, <1>4, <1>6, <1>7 DEF Next, Step

LEMMA NextPoolIsBounded ==
  ASSUME IInv, IInv', HeldFits', PoolIsBounded, [Next]_vars
  PROVE  PoolIsBounded'
<1>1. ASSUME NEW th \in Thread, NEW k \in Key, Reuse(th, k) PROVE PoolIsBounded'
  <2> DEFINE h == LastOf(curls_[k])
  <2>1. /\ curls_[k] # <<>> /\ curls_' = [curls_ EXCEPT ![k] = AllButLast(@)]
        /\ borrowed_curls_' = [borrowed_curls_ EXCEPT ![h] = k]
    BY <1>1 DEF Reuse, Lend
  <2>2. h \in Handle /\ \A t \in Thread : h \notin HeldBy(t)
    BY <2>1, PopIdle
  <2> HIDE DEF h
  <2> QED BY <2>1, <2>2, TakenFromPool
<1>2. ASSUME NEW th \in Thread, NEW k \in Key, Renew(th, k) PROVE PoolIsBounded'
  <2> DEFINE old == LastOf(curls_[k])
  <2>1. PICK h \in Handle : Make(th, k, h, live \ {old}, error_bufs_ \ {old},
                                 [use_counts_ EXCEPT ![old] = 0])
    BY <1>2 DEF Renew
  <2>2. /\ h \notin live \ {old} /\ borrowed_curls_' = [borrowed_curls_ EXCEPT ![h] = k]
        /\ curls_[k] # <<>> /\ curls_' = [curls_ EXCEPT ![k] = AllButLast(@)]
    BY <1>2, <2>1 DEF Make, Renew, Lend
  <2>3. \A t \in Thread : old \notin HeldBy(t)
    BY <2>2, PopIdle
  <2> HIDE DEF old
  <2>4. \A t \in Thread : h \notin HeldBy(t)
    BY <2>2, <2>3 DEF IInv, OnePlace
  <2> QED BY <2>2, <2>4, TakenFromPool
<1>3. ASSUME NEW th \in Thread, NEW k \in Key, Create(th, k) PROVE PoolIsBounded'
  BY <1>3, MadeAnew
<1>4. ASSUME NEW th \in Thread, release_curl(th) PROVE PoolIsBounded'
  BY <1>4, GivenBack
<1>5. CASE reset
  BY <1>5, AllFreed
<1>6. ASSUME curls_' = curls_, borrowed_curls_' = borrowed_curls_ PROVE PoolIsBounded'
  BY <1>6 DEF PoolIsBounded
<1>7. ASSUME NEW th \in Thread, taint(th) \/ AskErrorBuffer(th) \/ err_buf_for(th)
      PROVE  PoolIsBounded'
  BY <1>6, <1>7 DEF taint, AskErrorBuffer, err_buf_for
<1>8. CASE UNCHANGED vars
  BY <1>6, <1>8 DEF vars
<1>9. ASSUME NEW th \in Thread, NEW k \in Key, InitFails(th, k) PROVE PoolIsBounded'
  <2>1. CASE curls_[k] = <<>>
    BY <1>6, <1>9, <2>1 DEF InitFails
  <2>2. CASE curls_[k] # <<>>
    <3>1. curls_' = [curls_ EXCEPT ![k] = AllButLast(@)] /\ UNCHANGED borrowed_curls_
      BY <1>9, <2>2 DEF InitFails
    <3>2. \A j \in Key : Len(curls_'[j]) \in Nat /\ Len(curls_[j]) \in Nat
                         /\ Len(curls_'[j]) <= Len(curls_[j])
      <4>1. curls_ \in [Key -> Seq(Handle)] /\ curls_' \in [Key -> Seq(Handle)]
        BY DEF IInv, TypeOK
      <4>2. Len(AllButLast(curls_[k])) <= Len(curls_[k])
        <5>1. /\ Len(curls_[k]) \in Nat
              /\ \A i \in 1..(Len(curls_[k]) - 1) : curls_[k][i] \in Handle
          BY <4>1, LenProperties, ElementOfSeq
        <5>2. Len(AllButLast(curls_[k]))
                = IF 1 <= Len(curls_[k]) - 1 THEN (Len(curls_[k]) - 1) - 1 + 1 ELSE 0
          BY <5>1, SubSeqProperties DEF AllButLast
        <5> QED BY <5>1, <5>2
      <4>3. \A j \in Key : curls_'[j] = IF j = k THEN AllButLast(curls_[k]) ELSE curls_[j]
        BY <3>1, <4>1
      <4>4. \A j \in Key : Len(curls_'[j]) \in Nat /\ Len(curls_[j]) \in Nat
        BY <4>1, LenProperties
      <4>5. \A j \in Key : Len(curls_'[j]) <= Len(curls_[j])
        BY <4>2, <4>3, <4>4
      <4> QED BY <4>4, <4>5
    <3>3. \A j \in Key : Cardinality(BorrowedFor(j)) \in Nat
      <4>1. \A j \in Key : IsFiniteSet(BorrowedFor(j))
        BY PoolAssumption, FS_Subset DEF BorrowedFor
      <4> QED BY <4>1, FS_CardinalityType
    <3>4. MaxHeld * Cardinality(Thread) \in Nat
      <4>1. Cardinality(Thread) \in Nat
        BY PoolAssumption, FS_CardinalityType
      <4> QED BY <4>1, PoolAssumption
    <3> HIDE DEF BorrowedFor
    <3> DEFINE Most == MaxHeld * Cardinality(Thread)
    <3> HIDE DEF Most
    <3>5. \A j \in Key : Len(curls_[j]) + Cardinality(BorrowedFor(j)) <= Most
      BY DEF PoolIsBounded, BorrowedFor, Most
    <3>6. \A j \in Key : BorrowedFor(j)' = BorrowedFor(j)
      BY <3>1 DEF BorrowedFor
    <3>7. \A j \in Key : Len(curls_'[j]) + Cardinality(BorrowedFor(j)') <= Most
      <4>1. Most \in Nat
        BY <3>4 DEF Most
      <4> QED BY <3>2, <3>3, <3>5, <3>6, <4>1
    <3> QED BY <3>7 DEF PoolIsBounded, BorrowedFor, Most
  <2> QED BY <2>1, <2>2
<1> QED BY <1>1, <1>2, <1>3, <1>4, <1>5, <1>7, <1>8, <1>9 DEF Next, Step, get_curl

\* Handles are made only when none is idle, so that per bucket there are never more
\* than all workers can hold at once (get_curl, upload_data with its check_part).
THEOREM PoolStaysBounded == Spec => []PoolIsBounded
<1>1. Init => PoolIsBounded /\ HeldFits
  <2> SUFFICES ASSUME Init PROVE PoolIsBounded /\ HeldFits
    OBVIOUS
  <2>1. HeldFits
    BY EmptySeq, PoolAssumption DEF Init, HeldFits
  <2>2. ASSUME NEW k \in Key
        PROVE  Len(curls_[k]) + Cardinality(BorrowedFor(k)) <= PoolLimit
    <3>1. Len(curls_[k]) = 0
      BY <2>2, EmptySeq DEF Init
    <3>2. BorrowedFor(k) = {}
      BY <2>2, PoolAssumption DEF Init, BorrowedFor
    <3>3. Cardinality(BorrowedFor(k)) = 0
      BY <3>2, FS_EmptySet
    <3>4. PoolLimit \in Nat
      BY <2>2, NumbersAreNat, InitIInv DEF IInv
    <3> QED BY <3>1, <3>3, <3>4
  <2> QED BY <2>1, <2>2 DEF PoolIsBounded, BorrowedFor, PoolLimit
<1>2. IInv /\ HeldFits /\ [Next]_vars => HeldFits'
  BY HandsStaySmall
<1>3. IInv /\ IInv' /\ HeldFits' /\ PoolIsBounded /\ [Next]_vars => PoolIsBounded'
  BY NextPoolIsBounded
<1> QED BY <1>1, <1>2, <1>3, Invariance, PTL DEF Spec
=============================================================================
