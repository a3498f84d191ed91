---------------------------- MODULE BoundedQueue ----------------------------
(***************************************************************************)
(* What Brawler::ThreadSafeQueue promises its callers, with nothing of how *)
(* it is done: a FIFO queue that holds at most NumElements elements.       *)
(* Elements are named by the order in which they entered the queue.        *)
(***************************************************************************)
EXTENDS Naturals, Sequences

CONSTANT NumElements

VARIABLES queue,     \* the elements inserted and not yet claimed by a pop
          inserted   \* how many elements have entered the queue so far

Init == /\ queue = <<>>
        /\ inserted = 0

Insert == /\ Len(queue) < NumElements
          /\ queue' = Append(queue, inserted)
          /\ inserted' = inserted + 1

Remove == /\ queue # <<>>
          /\ queue' = Tail(queue)
          /\ UNCHANGED inserted

Next == Insert \/ Remove

Spec == Init /\ [][Next]_<<queue, inserted>>
=============================================================================
