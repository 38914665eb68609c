--------------------------- MODULE DependencyOrder ---------------------------
(***************************************************************************)
(* buildDependencyOrder in pkg/orchestration/stack.go: Kahn's algorithm    *)
(* over the instances of a manifest, one step per instance taken from its  *)
(* queue.  Names are numbers, which sort.Strings orders.                   *)
(***************************************************************************)
EXTENDS Integers, Sequences, FiniteSets, Functions

CONSTANTS
    Names,     \* names a manifest may use
    MaxInsts,  \* bound: instances in a manifest
    MaxDeps    \* bound: entries in one depends_on list

ASSUME NamesAreInts == Names \subseteq Int
ASSUME SizesAreNat == MaxInsts \in Nat /\ MaxDeps \in Nat

VARIABLES
    insts,   \* the manifest: a sequence of [name, deps], in file order
    pc,      \* "validate", "setup", "loop", "ok", or the error it returned
    queue, inDegree, result

vars == <<insts, pc, queue, inDegree, result>>

Lists(S, n) == UNION {[1..k -> S] : k \in 0..n}
Manifests == Lists([name : Names, deps : Lists(Names, MaxDeps)], MaxInsts)

\* byName and deps are maps: the last of two instances with one name stays.
Known == {insts[i].name : i \in 1..Len(insts)}
DepsOf(n) ==
    insts[CHOOSE i \in 1..Len(insts) :
             /\ insts[i].name = n
             /\ \A k \in (i + 1)..Len(insts) : insts[k].name # n].deps

\* sort.Strings: the list of S's names in their order.
Increasing(s) == \A i, k \in DOMAIN s : i < k => s[i] < s[k]
Sorted(S) == CHOOSE s \in [1..Cardinality(S) -> S] : Range(s) = S /\ Increasing(s)

Occurrences(n, m) == Cardinality({i \in 1..Len(DepsOf(n)) : DepsOf(n)[i] = m})

Init ==
    /\ insts \in Manifests
    /\ pc = "validate"
    /\ queue = <<>> /\ inDegree = <<>> /\ result = <<>>

Complete == \A n \in Known : Range(DepsOf(n)) \subseteq Known

\* References first, so that a missing service is not called a cycle.
Validate ==
    /\ pc = "validate"
    /\ pc' = IF Complete THEN "setup" ELSE "unknown"
    /\ UNCHANGED <<insts, queue, inDegree, result>>

\* Mutant of Degree: an instance waits for one of its dependencies.
MutDegree(n) == IF Len(DepsOf(n)) = 0 THEN 0 ELSE 1

\* An entry counts as often as the list has it.
Degree(n) == Len(DepsOf(n))

Setup ==
    /\ pc = "setup"
    /\ inDegree' = [n \in Known |-> Degree(n)]
    /\ queue' = Sorted({n \in Known : Degree(n) = 0})
    /\ pc' = "loop"
    /\ UNCHANGED <<insts, result>>

\* Taking m brings n's degree down by its occurrences; n is queued when the
\* degree passes zero.
Ready(n, m) == inDegree[n] \in 1..Occurrences(n, m)

Take ==
    /\ pc = "loop" /\ queue # <<>>
    /\ LET m == Head(queue) IN
       /\ result' = Append(result, m)
       /\ inDegree' = [n \in Known |-> inDegree[n] - Occurrences(n, m)]
       /\ queue' = Tail(queue) \o Sorted({n \in Known : Ready(n, m)})
    /\ UNCHANGED <<insts, pc>>

\* Mutant of Verdict: duplicates are looked for last.
MutVerdict ==
    CASE Len(result) # Len(insts) -> "circular"
      [] OTHER -> "ok"

\* Duplicates first: the maps made one of two instances with one name.
Verdict ==
    CASE Cardinality(Known) # Len(insts) -> "duplicate"
      [] Cardinality(Known) = Len(insts) /\ Len(result) # Len(insts) -> "circular"
      [] OTHER -> "ok"

Return ==
    /\ pc = "loop" /\ queue = <<>>
    /\ pc' = Verdict
    /\ UNCHANGED <<insts, queue, inDegree, result>>

Next == Validate \/ Setup \/ Take \/ Return

Spec == Init /\ [][Next]_vars

-----------------------------------------------------------------------------
Before(n, m) ==
    \E i, k \in 1..Len(result) : i < k /\ result[i] = n /\ result[k] = m

(* The order DeployStack follows has every instance of the manifest once,   *)
(* and each one after all it depends on, however its list repeats names.    *)
OrderIsTopological ==
    pc = "ok" =>
        /\ Len(result) = Len(insts) /\ Range(result) = Known
        /\ \A n \in Known : \A d \in Range(DepsOf(n)) : Before(d, n)

\* The reference: a nonempty set of instances each of which needs another of it.
Cyclic ==
    \E S \in (SUBSET Known) \ {{}} : \A n \in S : Range(DepsOf(n)) \cap S # {}

Repeated == \E i, k \in 1..Len(insts) : i # k /\ insts[i].name = insts[k].name

(* A manifest is refused exactly when it is at fault, and for the fault it  *)
(* has: an unknown service is never called a cycle, nor is a repeated name. *)
RefusedForItsFault ==
    /\ pc = "unknown" => ~Complete
    /\ pc = "duplicate" => Repeated
    /\ pc = "circular" => Cyclic /\ ~Repeated
    /\ pc = "ok" => ~Cyclic /\ ~Repeated

-----------------------------------------------------------------------------
(* The inductive invariant.  A degree counts the entries that have not been *)
(* taken, and what has no such entry is in the queue or taken, once.        *)
Pending(n) == {i \in 1..Len(DepsOf(n)) : DepsOf(n)[i] \notin Range(result)}

KahnInv ==
    /\ queue \in Seq(Known) /\ result \in Seq(Known)
    /\ inDegree \in [Known -> Nat]
    /\ IsInjective(queue) /\ IsInjective(result)
    /\ Range(queue) \cap Range(result) = {}
    /\ \A n \in Known : inDegree[n] = Cardinality(Pending(n))
    /\ \A n \in Known : inDegree[n] = 0 <=> n \in Range(queue) \cup Range(result)
    /\ \A n \in Range(result) : \A d \in Range(DepsOf(n)) : Before(d, n)

Verdicts == {"duplicate", "circular", "ok"}

OrderInv ==
    /\ insts \in Manifests
    /\ pc \in {"validate", "unknown", "setup", "loop"} \cup Verdicts
    /\ pc = "unknown" => ~Complete
    /\ pc \in {"validate", "setup"} => result = <<>>
    /\ pc \in {"setup", "loop"} \cup Verdicts => Complete
    /\ pc \in {"loop"} \cup Verdicts => KahnInv
    /\ pc \in Verdicts => queue = <<>> /\ pc = Verdict

=============================================================================
