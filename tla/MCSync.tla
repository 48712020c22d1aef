------------------------------- MODULE MCSync -------------------------------
(***************************************************************************)
(* Worlds for Sync: all pairs of small trees under a reliable store, and   *)
(* chosen ones where requests fail, others interfere, several roots or     *)
(* sources are merged, names have spaces, S3 passes over requests in       *)
(* silence, or keys are the names of directories too.                      *)
(***************************************************************************)
EXTENDS Sync

Paths == {<<1>>, <<1, 1>>, <<1, 1, 1>>, <<1, 2>>, <<2>>, <<2, 1>>}

TreesOn(S) == {t \in [files : SUBSET S, odd : SUBSET S, dirs : SUBSET S] : IsProper(t)}
Plain(files, dirs) == [files |-> files, odd |-> {}, dirs |-> dirs]

CONSTANTS One, Two

Quiet ==
  [verb |-> "du", delete_missing |-> FALSE, recursive |-> FALSE, roots |-> {One},
   keys |-> [r \in Root |-> {}], sources |-> {Empty}, target |-> Empty, spaced |-> {},
   rejected |-> [s \in {"local", "remote"} |-> {}], faults |-> 0, silent |-> 0, changes |-> 0]

Keys(one, two) == [r \in Root |-> IF r = One THEN one ELSE two]

\* Every pair of trees on S, with the patterns that reject one of them.
Pairs(S, Rejected) ==
  {[Quiet EXCEPT !.verb = "upload", !.delete_missing = d, !.keys = Keys(k, {}),
                 !.sources = {t}, !.rejected = [s \in {"local", "remote"} |-> x]] :
     d \in BOOLEAN, k \in SUBSET S, t \in TreesOn(S), x \in Rejected}
    \cup
  {[Quiet EXCEPT !.verb = "download", !.delete_missing = d, !.keys = Keys(k, {}),
                 !.target = t, !.rejected = [s \in {"local", "remote"} |-> x]] :
     d \in BOOLEAN, k \in SUBSET S, t \in TreesOn(S), x \in Rejected}

AllPairs ==
  Pairs({<<1>>, <<1, 1>>, <<2>>}, {{}, {<<1>>}, {<<1, 1>>}})
    \cup Pairs({<<1>>, <<1, 1>>, <<1, 1, 1>>}, {{}, {<<1, 1>>}})

\* rm, du and publish on every bucket of four keys.
Walks ==
  {[Quiet EXCEPT !.verb = v, !.recursive = c, !.keys = Keys(k, {}),
                 !.rejected = [s \in {"local", "remote"} |-> x]] :
     v \in {"rm", "du", "publish"}, c \in BOOLEAN,
     k \in SUBSET {<<1>>, <<1, 1>>, <<1, 1, 1>>, <<2>>}, x \in {{}, {<<1, 1>>}}}

\* Requests fail and others change a key, with one directory to list.
Unreliable ==
  {[Quiet EXCEPT !.verb = v, !.delete_missing = d, !.recursive = c,
                 !.keys = Keys({<<1, 1>>, <<2>>}, {}),
                 !.sources = {Plain({<<1, 1>>}, {<<1>>})},
                 !.target = Plain({<<1, 1>>, <<2, 1>>}, {<<1>>, <<2>>}),
                 !.faults = 2, !.changes = 1] :
     v \in Verb, d \in BOOLEAN, c \in BOOLEAN}

\* A listing of two pages, the first of which ends with a key or with a prefix,
\* while others change two keys.
Paged ==
  {[Quiet EXCEPT !.verb = v, !.recursive = TRUE,
                 !.keys = Keys({<<1, 1>>, <<2>>, <<2, 1>>}, {}), !.faults = 1, !.changes = 2] :
     v \in {"rm", "du", "publish"}}

\* Three runs of the listing, all with a failure.
Hard ==
  {[Quiet EXCEPT !.verb = v, !.delete_missing = d, !.recursive = TRUE,
                 !.keys = Keys({<<1, 1>>, <<2>>}, {}),
                 !.sources = {Plain({<<2>>}, {<<1>>})},
                 !.target = Plain({<<1, 1>>, <<1, 2>>}, {<<1>>}),
                 !.faults = 3] :
     v \in {"upload", "download", "rm"}, d \in BOOLEAN}

\* Two roots, with a common directory, the same file, or a file in the other's way.
Roots ==
  {[Quiet EXCEPT !.verb = v, !.delete_missing = d, !.recursive = TRUE,
                 !.roots = {One, Two}, !.keys = Keys({<<1, 1>>}, k),
                 !.target = Plain({<<2>>}, {}), !.faults = n] :
     v \in {"download", "rm", "publish"}, d \in BOOLEAN, n \in 0..1,
     k \in {{<<1, 2>>, <<2>>}, {<<1, 1>>}, {<<1>>}}}

\* Two local sources; names with spaces on both sides.
Sources ==
  {[Quiet EXCEPT !.verb = "upload", !.delete_missing = d,
                 !.keys = Keys({<<1, 1>>, <<1, 2>>, <<2, 1>>}, {}),
                 !.sources = {Plain({<<1, 1>>}, {<<1>>}), Plain(k, {<<1>>})},
                 !.spaced = x] :
     d \in BOOLEAN, k \in {{<<1, 1>>}, {<<1, 2>>}, {<<2>>, <<1, 2>>}}, x \in {{}, {<<1, 2>>}}}

Spaces ==
  {[Quiet EXCEPT !.verb = "download", !.delete_missing = d,
                 !.keys = Keys({<<1, 1, 1>>, <<1, 2>>, <<2>>}, {}),
                 !.target = t, !.spaced = x] :
     d \in BOOLEAN, x \in {{<<1>>}, {<<1, 1>>}, {<<2>>}},
     t \in {Plain({<<1>>, <<2>>}, {}), Plain({<<1, 2>>, <<2, 1>>}, {<<1>>, <<2>>})}}

\* Requests that S3 passes over in silence.
Silent ==
  {[Quiet EXCEPT !.verb = v, !.delete_missing = d, !.recursive = TRUE,
                 !.keys = Keys({<<1, 1>>, <<1, 2>>, <<2>>}, {}),
                 !.sources = {Plain({<<1, 1>>}, {<<1>>})},
                 !.target = Plain({<<1, 1>>, <<2, 1>>}, {<<1>>, <<2>>}),
                 !.faults = 1, !.silent = 2] :
     v \in Verb, d \in BOOLEAN}

\* Keys that are names of directories too, and transfers that fail.
Clashing ==
  {[Quiet EXCEPT !.verb = v, !.delete_missing = d,
                 !.keys = Keys({<<1>>, <<1, 1>>}, {}), !.sources = {t}, !.target = t,
                 !.faults = 1, !.silent = 1] :
     v \in {"upload", "download"}, d \in BOOLEAN,
     t \in {Plain({<<1, 1>>, <<1, 2>>}, {<<1>>}), Plain({<<1>>}, {})}}

\* A download with -D of a tree that is there already, and three failures.
PartialWorld ==
  {[Quiet EXCEPT !.verb = "download", !.delete_missing = TRUE,
                 !.keys = Keys({<<1, 1>>, <<2>>}, {}),
                 !.target = Plain({<<1, 1>>, <<2>>}, {<<1>>}), !.faults = 3]}

MCWorld ==
  UNION {AllPairs, Walks, Unreliable, Paged, Hard, Roots, Sources, Spaces, Silent, Clashing}
=============================================================================
