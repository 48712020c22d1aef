----------------------------- MODULE MCConnPool -----------------------------
(***************************************************************************)
(* Two workers that send requests to one or two buckets.  The threads, the *)
(* buckets and the addresses of the handles are interchangeable.           *)
(***************************************************************************)
EXTENDS ConnPool, TLC

PoolSymmetry == Permutations(Thread) \cup Permutations(Handle) \cup Permutations(Key)
=============================================================================
