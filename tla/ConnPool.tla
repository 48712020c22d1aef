------------------------------ MODULE ConnPool ------------------------------
(***************************************************************************)
(* The pool of curl handles all workers share: class conn_context          *)
(* (es3/context.h, es3/context.cpp), and how s3_connection                 *)
(* (es3/connection.cpp) borrows, taints and returns handles.               *)
(*                                                                         *)
(* Everything under the mutex m_ is one action.  err_buf_for takes no lock *)
(* and is two actions, so the map it reads may change in between.          *)
(***************************************************************************)
EXTENDS Integers, Sequences, FiniteSets, Functions

CONSTANTS
  Thread,                \* the workers
  Key,                   \* zone and bucket of a request
  NoKey,
  Handle,                \* the addresses curl_easy_init may return
  MaxHeld,               \* handles a request holds at once: upload_data asks
                         \* for a second one to check the part (2 in the code)
  MAX_CURL_REUSE_COUNT   \* 4 in the code

ASSUME PoolAssumption ==
  /\ IsFiniteSet(Thread) /\ IsFiniteSet(Handle)
  /\ NoKey \notin Key
  /\ MaxHeld \in Nat \ {0}
  /\ MAX_CURL_REUSE_COUNT \in Nat \ {0, 1}

VARIABLES
  live,            \* handles that exist: from curl_easy_init to curl_easy_cleanup
  curls_,          \* the idle handles of each key, the last one first to go
  error_bufs_,     \* the handles with an error buffer
  borrowed_curls_, \* key a handle is borrowed for
  use_counts_,     \* 0: no entry
  held,            \* the handles a thread holds, in the order it got them
  doing,           \* what a thread is doing with the last of them
  raced,           \* error_bufs_ changed while the thread was in err_buf_for
  lent,            \* how often a handle that exists has been lent
  tainted          \* live handles taint() was called for

vars == <<live, curls_, error_bufs_, borrowed_curls_, use_counts_, held, doing,
          raced, lent, tainted>>

TypeOK ==
  /\ live \subseteq Handle
  /\ curls_ \in [Key -> Seq(Handle)]
  /\ error_bufs_ \subseteq Handle
  /\ borrowed_curls_ \in [Handle -> Key \cup {NoKey}]
  /\ use_counts_ \in [Handle -> 0..(MAX_CURL_REUSE_COUNT + 1)]
  /\ held \in [Thread -> Seq(Handle)]
  /\ doing \in [Thread -> {"working", "asking", "null", "unwinding"}]
  /\ raced \in [Thread -> BOOLEAN]
  /\ lent \in [Handle -> Nat]
  /\ tainted \subseteq live

Init ==
  /\ live = {} /\ error_bufs_ = {} /\ tainted = {}
  /\ curls_ = [k \in Key |-> <<>>]
  /\ borrowed_curls_ = [h \in Handle |-> NoKey]
  /\ use_counts_ = [h \in Handle |-> 0]
  /\ held = [th \in Thread |-> <<>>]
  /\ doing = [th \in Thread |-> "working"]
  /\ raced = [th \in Thread |-> FALSE]
  /\ lent = [h \in Handle |-> 0]

LastOf(s) == s[Len(s)]
AllButLast(s) == SubSeq(s, 1, Len(s) - 1)

\* The map of error buffers changes under the threads that read it unlocked.
Disturb == raced' = [th \in Thread |-> raced[th] \/ doing[th] = "asking"]

-----------------------------------------------------------------------------
\* Handle h goes to thread th, for a request to key k.
Lend(th, k, h) ==
  /\ borrowed_curls_' = [borrowed_curls_ EXCEPT ![h] = k]
  /\ held' = [held EXCEPT ![th] = Append(@, h)]

\* upload_data asks for the second handle (read_fully) for the same bucket.
MayBorrow(th, k) ==
  /\ doing[th] = "working"
  /\ Len(held[th]) < MaxHeld
  /\ held[th] # <<>> => borrowed_curls_[LastOf(held[th])] = k

\* Mutant: a handle is used again however often it has been.
Reuse_Endless(th, k) ==
  LET h == LastOf(curls_[k]) IN
  /\ MayBorrow(th, k)
  /\ curls_[k] # <<>>
  /\ curls_' = [curls_ EXCEPT ![k] = AllButLast(@)]
  /\ use_counts_' = [use_counts_ EXCEPT ![h] = @ + 1]
  /\ Lend(th, k, h)
  /\ lent' = [lent EXCEPT ![h] = @ + 1]
  /\ UNCHANGED <<live, error_bufs_, doing, raced, tainted>>

\* Mutant: the handle is not taken out of the pool.
Reuse_NotPopped(th, k) ==
  LET h == LastOf(curls_[k]) IN
  /\ MayBorrow(th, k)
  /\ curls_[k] # <<>>
  /\ use_counts_[h] + 1 < MAX_CURL_REUSE_COUNT
  /\ use_counts_' = [use_counts_ EXCEPT ![h] = @ + 1]
  /\ Lend(th, k, h)
  /\ lent' = [lent EXCEPT ![h] = @ + 1]
  /\ UNCHANGED <<curls_, live, error_bufs_, doing, raced, tainted>>

\* get_curl: the handle returned last is used once more.
Reuse(th, k) ==
  LET h == LastOf(curls_[k]) IN
  /\ MayBorrow(th, k)
  /\ curls_[k] # <<>>
  /\ curls_' = [curls_ EXCEPT ![k] = AllButLast(@)]
  /\ use_counts_[h] + 1 < MAX_CURL_REUSE_COUNT
  /\ use_counts_' = [use_counts_ EXCEPT ![h] = @ + 1]
  /\ Lend(th, k, h)
  /\ lent' = [lent EXCEPT ![h] = @ + 1]
  /\ UNCHANGED <<live, error_bufs_, doing, raced, tainted>>

\* A new handle, with h's error buffer and count; kept and bufs are the handles
\* and buffers there are without it.
Make(th, k, h, kept, bufs, counts) ==
  /\ h \notin kept
  /\ live' = kept \cup {h}
  /\ error_bufs_' = bufs \cup {h}
  /\ use_counts_' = [counts EXCEPT ![h] = 1]
  /\ Lend(th, k, h)
  /\ lent' = [x \in Handle |-> IF x = h THEN 1 ELSE IF x \in kept THEN lent[x] ELSE 0]
  /\ Disturb
  /\ UNCHANGED doing

\* Mutant: get_curl makes a new handle although one is idle.
Create_Always(th, k) ==
  /\ MayBorrow(th, k)
  /\ \E h \in Handle : Make(th, k, h, live, error_bufs_, use_counts_)
  /\ UNCHANGED <<curls_, tainted>>

\* get_curl: no handle is idle.
Create(th, k) ==
  /\ MayBorrow(th, k)
  /\ curls_[k] = <<>>
  /\ \E h \in Handle : Make(th, k, h, live, error_bufs_, use_counts_)
  /\ UNCHANGED <<curls_, tainted>>

\* Mutant: the error buffer of the old handle is left in the map.
Renew_KeepsBuffer(th, k) ==
  LET old == LastOf(curls_[k]) IN
  /\ MayBorrow(th, k)
  /\ curls_[k] # <<>>
  /\ curls_' = [curls_ EXCEPT ![k] = AllButLast(@)]
  /\ use_counts_[old] + 1 >= MAX_CURL_REUSE_COUNT
  /\ \E h \in Handle :
        Make(th, k, h, live \ {old}, error_bufs_, [use_counts_ EXCEPT ![old] = 0])
  /\ tainted' = tainted \ {old}

\* get_curl: the idle handle has been used often enough, or is tainted; it is
\* freed and a new one made, perhaps at the same address.
Renew(th, k) ==
  LET old == LastOf(curls_[k]) IN
  /\ MayBorrow(th, k)
  /\ curls_[k] # <<>>
  /\ curls_' = [curls_ EXCEPT ![k] = AllButLast(@)]
  /\ use_counts_[old] + 1 >= MAX_CURL_REUSE_COUNT
  /\ \E h \in Handle :
        Make(th, k, h, live \ {old}, error_bufs_ \ {old},
             [use_counts_ EXCEPT ![old] = 0])
  /\ tainted' = tainted \ {old}

\* get_curl: a new handle is needed and curl_easy_init returns none.  The idle one
\* that was used up is freed already; the exception gives back what the thread has.
InitFails(th, k) ==
  LET old == LastOf(curls_[k]) IN
  /\ MayBorrow(th, k)
  /\ \/ /\ curls_[k] = <<>>
        /\ UNCHANGED <<live, curls_, error_bufs_, use_counts_, raced, lent, tainted>>
     \/ /\ curls_[k] # <<>>
        /\ curls_' = [curls_ EXCEPT ![k] = AllButLast(@)]
        /\ use_counts_[old] + 1 >= MAX_CURL_REUSE_COUNT
        /\ live' = live \ {old} /\ error_bufs_' = error_bufs_ \ {old}
        /\ use_counts_' = [use_counts_ EXCEPT ![old] = 0]
        /\ lent' = [lent EXCEPT ![old] = 0]
        /\ tainted' = tainted \ {old}
        /\ Disturb
  /\ doing' = [doing EXCEPT ![th] = IF held[th] = <<>> THEN "working" ELSE "unwinding"]
  /\ UNCHANGED <<borrowed_curls_, held>>

get_curl(th, k) ==
  Reuse(th, k) \/ Create(th, k) \/ Renew(th, k) \/ InitFails(th, k)

\* release_curl: the pointer to the last handle goes out of scope.
release_curl(th) ==
  LET h == LastOf(held[th]) IN
  /\ held[th] # <<>>
  /\ doing[th] \in {"working", "unwinding"}
  /\ curls_' = [curls_ EXCEPT ![borrowed_curls_[h]] = Append(@, h)]
  /\ borrowed_curls_' = [borrowed_curls_ EXCEPT ![h] = NoKey]
  /\ held' = [held EXCEPT ![th] = AllButLast(@)]
  /\ doing' = [doing EXCEPT ![th] = IF Len(held[th]) = 1 THEN "working" ELSE @]
  /\ UNCHANGED <<live, error_bufs_, use_counts_, raced, lent, tainted>>

\* Mutant: taint leaves the count of the handle as it is.
taint_NotCounted(th) ==
  /\ doing[th] = "working" /\ held[th] # <<>>
  /\ tainted' = tainted \cup {LastOf(held[th])}
  /\ doing' = [doing EXCEPT ![th] = "unwinding"]
  /\ UNCHANGED <<live, curls_, error_bufs_, borrowed_curls_, use_counts_, held,
                 raced, lent>>

\* check_for_errors finds an HTTP error: the handle is tainted, and the exception
\* gives every handle back.  Not every request asks it: find_mtime_and_size reads
\* the status itself, so a HEAD answered by an error ends in release_curl alone.
taint(th) ==
  /\ doing[th] = "working" /\ held[th] # <<>>
  /\ use_counts_' = [use_counts_ EXCEPT ![LastOf(held[th])] = MAX_CURL_REUSE_COUNT + 1]
  /\ tainted' = tainted \cup {LastOf(held[th])}
  /\ doing' = [doing EXCEPT ![th] = "unwinding"]
  /\ UNCHANGED <<live, curls_, error_bufs_, borrowed_curls_, held, raced, lent>>

\* checked, curl reports an error: the error buffer is looked up without m_.
AskErrorBuffer(th) ==
  /\ doing[th] = "working" /\ held[th] # <<>>
  /\ doing' = [doing EXCEPT ![th] = "asking"]
  /\ raced' = [raced EXCEPT ![th] = FALSE]
  /\ UNCHANGED <<live, curls_, error_bufs_, borrowed_curls_, use_counts_, held,
                 lent, tainted>>

\* The look-up ends, undisturbed with the buffer of the handle and otherwise
\* with anything, a null pointer included.  The exception is thrown before the
\* call to taint is reached.
err_buf_for(th) ==
  /\ doing[th] = "asking"
  /\ \/ doing' = [doing EXCEPT ![th] = "unwinding"]
     \/ raced[th] /\ doing' = [doing EXCEPT ![th] = "null"]
  /\ raced' = [raced EXCEPT ![th] = FALSE]
  /\ UNCHANGED <<live, curls_, error_bufs_, borrowed_curls_, use_counts_, held,
                 lent, tainted>>

\* reset, called between two runs: every handle is freed, the counts stay.
reset ==
  /\ \A th \in Thread : held[th] = <<>>
  /\ live' = {} /\ error_bufs_' = {} /\ tainted' = {}
  /\ curls_' = [k \in Key |-> <<>>]
  /\ lent' = [h \in Handle |-> 0]
  /\ UNCHANGED <<borrowed_curls_, use_counts_, held, doing, raced>>

Step(th) ==
  \/ \E k \in Key : get_curl(th, k)
  \/ release_curl(th)
  \/ taint(th)
  \/ AskErrorBuffer(th) \/ err_buf_for(th)

Next == (\E th \in Thread : Step(th)) \/ reset

Spec == Init /\ [][Next]_vars

-----------------------------------------------------------------------------
Idle(k) == Range(curls_[k])
HeldBy(th) == Range(held[th])

\* Every handle that exists is in one place: idle under one key, once, or held
\* by one thread; so no two requests share a handle and none is freed in use.
OnePlace ==
  /\ \A k \in Key : IsInjective(curls_[k])
  /\ \A th \in Thread : IsInjective(held[th])
  /\ \A k1, k2 \in Key : k1 # k2 => Idle(k1) \cap Idle(k2) = {}
  /\ \A t1, t2 \in Thread : t1 # t2 => HeldBy(t1) \cap HeldBy(t2) = {}
  /\ \A k \in Key : \A th \in Thread : Idle(k) \cap HeldBy(th) = {}
  /\ \A h \in Handle :
        h \in live <=> (\E k \in Key : h \in Idle(k)) \/ (\E th \in Thread : h \in HeldBy(th))

\* The books agree with that: a handle is entered as borrowed exactly while a
\* thread holds it, and has an error buffer exactly while it exists (the
\* assertions of get_curl, release_curl and reset); its count is never behind
\* the times it has been lent and marks it as used up once it is tainted.
Books ==
  /\ \A h \in Handle : borrowed_curls_[h] # NoKey <=> \E th \in Thread : h \in HeldBy(th)
  /\ error_bufs_ = live
  /\ \A h \in live : lent[h] <= use_counts_[h]
  /\ \A h \in tainted : use_counts_[h] > MAX_CURL_REUSE_COUNT

\* A handle serves fewer than MAX_CURL_REUSE_COUNT requests before it is freed.
UseIsBounded == \A h \in live : lent[h] < MAX_CURL_REUSE_COUNT

\* The inductive invariant: none of the four is preserved without the others.
IInv == TypeOK /\ OnePlace /\ Books /\ UseIsBounded

\* A tainted handle is never lent again, and a new one at its address starts clean.
TaintedIsRetired ==
  [][\A th \in Thread : Len(held'[th]) > Len(held[th])
        => LastOf(held'[th]) \notin tainted']_vars

\* Handles are made only when none is idle: per key there are never more than
\* all workers can hold at once.
PoolIsBounded ==
  \A k \in Key :
    Len(curls_[k]) + Cardinality({h \in Handle : borrowed_curls_[h] = k})
      <= MaxHeld * Cardinality(Thread)

\* The assertion in checked, "assert(error_buffer)": the handle of a failed
\* request has an error buffer to read the message from.
ErrorBufferFound == \A th \in Thread : doing[th] # "null"
=============================================================================
