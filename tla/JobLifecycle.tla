---------------------------- MODULE JobLifecycle -----------------------------
(***************************************************************************)
(* What a client of the job manager may observe of the jobs: each one's    *)
(* status and the set of those whose done channel is closed.  A finished   *)
(* job keeps its status, except that a canceled one whose function panics  *)
(* fails; once done is closed nothing changes any more.                    *)
(***************************************************************************)
CONSTANT Jobs

VARIABLES st, done

vars == <<st, done>>

Init == st = [j \in Jobs |-> "none"] /\ done = {}

Move(j, from, to) ==
    st[j] \in from /\ j \notin done /\ st' = [st EXCEPT ![j] = to] /\ UNCHANGED done

Accept(j) == Move(j, {"none"}, "pending")
Begin(j) == Move(j, {"pending"}, "running")
Cancel(j) == Move(j, {"pending", "running"}, "canceled")
End(j) == \E to \in {"completed", "failed", "canceled"} : Move(j, {"running"}, to)
Panic(j) == Move(j, {"canceled"}, "failed")

Close(j) ==
    /\ st[j] \in {"completed", "failed", "canceled"}
    /\ j \notin done
    /\ done' = done \cup {j}
    /\ UNCHANGED st

Next ==
    \E j \in Jobs :
        Accept(j) \/ Begin(j) \/ Cancel(j) \/ End(j) \/ Panic(j) \/ Close(j)

Spec == Init /\ [][Next]_vars

=============================================================================
