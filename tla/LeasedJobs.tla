----------------------------- MODULE LeasedJobs -----------------------------
(***************************************************************************)
(* What the durable queue promises to the rest of the system, without      *)
(* sessions, locks, clocks or crashes: a job is granted to one worker at a *)
(* time and at most MaxAttempts times, every report of a stage and every   *)
(* outcome comes from its current grant, and once it has an outcome it keeps*)
(* it.  JobQueue implements this specification, and IndexPipeline takes its*)
(* steps.  What no runner reports does not show here: the flush of an old  *)
(* copy of the row may still put an old stage back.                        *)
(***************************************************************************)
EXTENDS Integers

CONSTANTS Workers, NoWorker, MaxAttempts, NumJobs

Jobs == 1 .. NumJobs

VARIABLE item  \* item[j]: phase, holder, number of grants, grant of the last write

Item(phase, holder, grants, wrote) ==
    [phase |-> phase, holder |-> holder, grants |-> grants, wrote |-> wrote]

Fresh == Item("none", NoWorker, 0, 0)

Init == item = [j \in Jobs |-> Fresh]

\* The request that creates the job.
Submitted(i) == Item("waiting", NoWorker, i.grants, i.wrote)

Granted(i, w) == Item("held", w, i.grants + 1, i.wrote)

\* A grant taken back: the job waits again, or fails when no grant is left.
Revoked(i) ==
    Item(IF i.grants < MaxAttempts THEN "waiting" ELSE "failed", NoWorker, i.grants, i.wrote)

Written(i) == Item(i.phase, i.holder, i.grants, i.grants)

Ended(i, outcome) == Item(outcome, NoWorker, i.grants, i.grants)

Submit(j) == item[j].phase = "none" /\ item'[j] = Submitted(item[j])

Grant(j) ==
    /\ item[j].phase = "waiting"
    /\ item[j].grants < MaxAttempts
    /\ \E w \in Workers : item'[j] = Granted(item[j], w)

Revoke(j) == item[j].phase = "held" /\ item'[j] = Revoked(item[j])

\* One poll may take a job back and grant it anew.
Regrant(j) ==
    /\ item[j].phase = "held"
    /\ item[j].grants < MaxAttempts
    /\ \E w \in Workers : item'[j] = Granted(Revoked(item[j]), w)

Write(j) == item[j].phase = "held" /\ item'[j] = Written(item[j])

End(j) ==
    /\ item[j].phase = "held"
    /\ \E outcome \in {"succeeded", "failed"} : item'[j] = Ended(item[j], outcome)

Keep(j) == item'[j] = item[j]

\* A step of the queue may move several jobs: one poll takes back all that lapsed.
Next ==
    /\ item' = [j \in Jobs |-> item'[j]]
    /\ \A j \in Jobs :
        Submit(j) \/ Grant(j) \/ Revoke(j) \/ Regrant(j) \/ Write(j) \/ End(j) \/ Keep(j)

Spec == Init /\ [][Next]_item
=============================================================================
