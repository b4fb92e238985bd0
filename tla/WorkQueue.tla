------------------------------ MODULE WorkQueue ------------------------------
(***************************************************************************)
(* What a work queue with leases promises to its users, without saying how *)
(* it is stored: an item is queued once, is worked on by at most one       *)
(* session at a time, stays unfinished until the session that works on it  *)
(* finishes it, and, if that session goes away, is handed back to the      *)
(* queue.  The last part is what the comments of rediswq.py call the GC.   *)
(***************************************************************************)
CONSTANTS Items,      \* the values that may be queued
          Sessions    \* the sessions (worker processes) that may work

VARIABLES status,     \* status[i]: where item i stands
          holders     \* holders[i]: the sessions that work on i

vars == <<status, holders>>

Statuses == {"absent", "waiting", "claimed", "done"}

Init == /\ status = [i \in Items |-> "absent"]
        /\ holders = [i \in Items |-> {}]

\* A batch of new items is queued.
Add(B) == /\ \A i \in B : status[i] = "absent"
          /\ status' = [i \in Items |-> IF i \in B THEN "waiting" ELSE status[i]]
          /\ UNCHANGED holders

\* A session takes a waiting item.
Claim(s, i) == /\ status[i] = "waiting"
               /\ status' = [status EXCEPT ![i] = "claimed"]
               /\ holders' = [holders EXCEPT ![i] = {s}]

\* The session that works on the item finishes it.
Finish(s, i) == /\ status[i] = "claimed"
                /\ holders[i] = {s}
                /\ status' = [status EXCEPT ![i] = "done"]
                /\ holders' = [holders EXCEPT ![i] = {}]

\* The session that works on the item goes away.
Abandon(s, i) == /\ holders[i] = {s}
                 /\ holders' = [holders EXCEPT ![i] = {}]
                 /\ UNCHANGED status

\* An item nobody works on any more becomes available again.
Return(i) == /\ status[i] = "claimed"
             /\ holders[i] = {}
             /\ status' = [status EXCEPT ![i] = "waiting"]
             /\ UNCHANGED holders

Next == \/ \E B \in SUBSET Items : Add(B)
        \/ \E i \in Items : Return(i)
        \/ \E s \in Sessions, i \in Items :
              Claim(s, i) \/ Finish(s, i) \/ Abandon(s, i)

\* The safety half of the promise.
SafeSpec == Init /\ [][Next]_vars

\* An abandoned item is claimed by nobody, and not finished.
Abandoned(i) == status[i] = "claimed" /\ holders[i] = {}

\* The liveness half: an abandoned item does not stay abandoned.
ReturnsAbandoned == \A i \in Items : Abandoned(i) ~> ~Abandoned(i)

==============================================================================
