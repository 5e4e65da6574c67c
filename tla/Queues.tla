------------------------------- MODULE Queues -------------------------------
(***************************************************************************)
(* Queues that are searched and thinned out where they stand, as           *)
(* VecDeque::retain does: what stays keeps its order.                      *)
(***************************************************************************)
EXTENDS Naturals, Sequences

(* The elements of the queue that are wanted.  SelectSeq says the same of  *)
(* a test; of a set it can be reasoned about.                              *)
Kept(queue, wanted) ==
  LET kept[n \in 0..Len(queue)] ==
        IF n = 0 THEN <<>>
        ELSE IF queue[n] \in wanted THEN Append(kept[n - 1], queue[n])
        ELSE kept[n - 1]
  IN kept[Len(queue)]
=============================================================================
