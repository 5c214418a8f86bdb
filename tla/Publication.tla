----------------------------- MODULE Publication -----------------------------
(***************************************************************************)
(* What the change log, its workers, activate_version and the delete of a   *)
(* document together promise about one upload, with no job, lease, retry or *)
(* worker in sight: a version waits, and is then either published, which    *)
(* supersedes the version of the same document that search served until     *)
(* then in the same step, or rejected for good.  A document that is served  *)
(* stays served until it is deleted, which withdraws all its versions, and  *)
(* none of them, nor a new one, ever comes back.                            *)
(***************************************************************************)
CONSTANTS Versions, Documents, Nothing

VARIABLES
    stage,   \* where each version is in its life
    of,      \* the document of each version, Nothing while it is absent
    deleted  \* documents that were deleted

pubVars == <<stage, of, deleted>>

Stages == {"absent", "waiting", "published", "superseded", "rejected", "withdrawn"}

Init ==
    /\ stage = [v \in Versions |-> "absent"]
    /\ of = [v \in Versions |-> Nothing]
    /\ deleted = {}

Submit(v, d) ==
    /\ stage[v] = "absent"
    /\ d \notin deleted
    /\ stage' = [stage EXCEPT ![v] = "waiting"]
    /\ of' = [of EXCEPT ![v] = d]
    /\ UNCHANGED deleted

Publish(v) ==
    /\ stage[v] = "waiting"
    /\ stage' = [u \in Versions |->
                    IF u = v THEN "published"
                    ELSE IF of[u] = of[v] /\ stage[u] = "published" THEN "superseded"
                    ELSE stage[u]]
    /\ UNCHANGED <<of, deleted>>

Reject(v) ==
    /\ stage[v] = "waiting"
    /\ stage' = [stage EXCEPT ![v] = "rejected"]
    /\ UNCHANGED <<of, deleted>>

Settle(v) == Publish(v) \/ Reject(v)

Withdraw(d) ==
    /\ d \notin deleted
    /\ \E v \in Versions : of[v] = d
    /\ stage' = [v \in Versions |-> IF of[v] = d THEN "withdrawn" ELSE stage[v]]
    /\ deleted' = deleted \cup {d}
    /\ UNCHANGED of

Next ==
    \/ \E v \in Versions : Settle(v) \/ \E d \in Documents : Submit(v, d)
    \/ \E d \in Documents : Withdraw(d)

Spec == Init /\ [][Next]_pubVars
=============================================================================
