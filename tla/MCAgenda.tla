------------------------------ MODULE MCAgenda ------------------------------
(***************************************************************************)
(* Small instances of Agenda.  Transfer: an upload whose file is read by   *)
(* two pumps of two and one segments, each handing its segments to part    *)
(* uploads, next to a CPU bound task.  Listing: tasks without segments.    *)
(***************************************************************************)
EXTENDS Agenda, TLC

CONSTANTS uploader, pumpA, pumpB, part1, part2, part3, packer

OnePerClass == taskUnbound :> 1 @@ taskCPUBound :> 1 @@ taskIOBound :> 1
TwoUnbound == taskUnbound :> 2 @@ taskCPUBound :> 1 @@ taskIOBound :> 1

\* An uploader spawns the pumps, a pump the parts that carry its segments on.
\* A run may leave some of these tasks out.
TransferClass ==
  [t \in Task |-> CASE t = packer -> taskCPUBound
                    [] t \in {pumpA, pumpB} -> taskIOBound
                    [] OTHER -> taskUnbound]
TransferNeeds ==
  [t \in Task |-> CASE t = pumpA -> 2
                    [] t = pumpB -> 1
                    [] OTHER -> 0]
TransferParent ==
  [t \in Task |-> CASE t \in {pumpA, pumpB, packer} -> uploader
                    [] t \in {part1, part2} -> pumpA
                    [] t = part3 -> pumpB
                    [] OTHER -> NoTask]
TransferCarries ==
  [t \in Task |-> CASE t \in {part1, part3} -> 1
                    [] t = part2 -> 2
                    [] OTHER -> 0]

\* The same tree of tasks for a walk of directories: nobody needs segments.
NoSegments == [t \in Task |-> 0]

ThreadSymmetry == Permutations(Thread)
=============================================================================
