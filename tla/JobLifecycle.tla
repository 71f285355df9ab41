---------------------------- MODULE JobLifecycle ----------------------------
(***************************************************************************)
(* What the hub promises about one ESPHome compile job, whatever the queue *)
(* does inside: the life of its row in table esphome_jobs.  The states are *)
(* those of JobStatus (queue.go) plus "none" (the row does not exist yet)  *)
(* and "purged" (the 7-day sweep deleted it).                              *)
(***************************************************************************)
CONSTANT Jobs   \* job ids; an id is drawn at random once and never reused

VARIABLE status \* Jobs -> state of the row

Terminal == {"done", "failed", "cancelled"}

Statuses == {"none", "pending", "running", "purged"} \cup Terminal

Init == status = [j \in Jobs |-> "none"]

Move(j, s) == status' = [status EXCEPT ![j] = s]

Submit(j) == status[j] = "none" /\ Move(j, "pending")

\* One compile at a time: a job starts only when no other row is running.
Start(j) ==
    /\ status[j] = "pending"
    /\ \A k \in Jobs : status[k] # "running"
    /\ Move(j, "running")

Finish(j) ==
    /\ status[j] = "running"
    /\ \E s \in Terminal : Move(j, s)

Withdraw(j) == status[j] = "pending" /\ Move(j, "cancelled")

\* A hub restart settles every job that was under way, and nothing else.
Restart ==
    status' = [j \in Jobs |->
                  IF status[j] \in {"pending", "running"} THEN "failed" ELSE status[j]]

\* The sweep deletes rows of settled jobs only.
Purge ==
    \E S \in SUBSET {j \in Jobs : status[j] \in Terminal} :
        status' = [j \in Jobs |-> IF j \in S THEN "purged" ELSE status[j]]

Next ==
    \/ \E j \in Jobs : Submit(j) \/ Start(j) \/ Finish(j) \/ Withdraw(j)
    \/ Restart
    \/ Purge

Spec == Init /\ [][Next]_status
=============================================================================
