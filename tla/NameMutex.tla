------------------------------ MODULE NameMutex ------------------------------
(***************************************************************************)
(* What InstanceLocks promises its users: a name has at most one owner, an *)
(* owner takes a free name only, and gives back what it took.              *)
(***************************************************************************)
CONSTANTS Callers, Names

VARIABLE owners  \* name -> the callers that hold it

Init == owners = [n \in Names |-> {}]

Take(p, n) == owners[n] = {} /\ owners' = [owners EXCEPT ![n] = {p}]

Give(p, n) == owners[n] = {p} /\ owners' = [owners EXCEPT ![n] = {}]

Next == \E p \in Callers, n \in Names : Take(p, n) \/ Give(p, n)

Spec == Init /\ [][Next]_owners

FairSpec == Spec /\ \A p \in Callers, n \in Names : WF_owners(Give(p, n))

=============================================================================
