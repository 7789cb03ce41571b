----------------------------- MODULE RetryQueue -----------------------------
(***************************************************************************)
(* What a retrying work queue of the cloud promises its users, whatever    *)
(* store it is kept in: an item that was submitted is in one place at a    *)
(* time, a consumer that fails may put it back at most MaxRetry times, and *)
(* an item that was settled (finished, dropped or lost with its consumer)  *)
(* never comes back.  The queue of BrainExecution and the list of events   *)
(* of TaskQueues are shown to implement it.                                *)
(***************************************************************************)
EXTENDS Naturals

CONSTANTS Items,     \* the identities of the items that may be submitted
          MaxRetry   \* how often one item may be put back

VARIABLES place,     \* where each item is: "unused", "queued", "held" or "settled"
          tries      \* how often each item was put back

qvars == <<place, tries>>

RQInit ==
  /\ place = [i \in Items |-> "unused"]
  /\ tries = [i \in Items |-> 0]

Submit(i) ==
  /\ place[i] = "unused"
  /\ place' = [place EXCEPT ![i] = "queued"]
  /\ UNCHANGED tries

Take(i) ==
  /\ place[i] = "queued"
  /\ place' = [place EXCEPT ![i] = "held"]
  /\ UNCHANGED tries

PutBack(i) ==
  /\ place[i] = "held"
  /\ tries[i] < MaxRetry
  /\ place' = [place EXCEPT ![i] = "queued"]
  /\ tries' = [tries EXCEPT ![i] = @ + 1]

Settle(i) ==
  /\ place[i] = "held"
  /\ place' = [place EXCEPT ![i] = "settled"]
  /\ UNCHANGED tries

RQNext == \E i \in Items : Submit(i) \/ Take(i) \/ PutBack(i) \/ Settle(i)

RQSpec == RQInit /\ [][RQNext]_qvars
=============================================================================
