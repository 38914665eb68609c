---------------------------- MODULE InstanceLocks ----------------------------
(***************************************************************************)
(* The per-instance lock of pkg/provider/locks.go.                         *)
(*                                                                         *)
(* Every provider operation (start, stop, delete, clone, rename, ...) runs *)
(* under InstanceLocks.Acquire or AcquireAll.  A name is guarded by an     *)
(* entry: a capacity-one channel and a count of the callers that hold or   *)
(* want it.  An entry nobody wants is deleted from the map, and the next   *)
(* caller makes a new one, so the same name is guarded by different        *)
(* entries at different times.  A caller keeps a pointer to the entry it   *)
(* found, across the moments in which other callers delete and create      *)
(* entries.                                                                *)
(*                                                                         *)
(* Entries are heap objects: a new one is any entry no caller and no map   *)
(* slot refers to, which is what the garbage collector guarantees.         *)
(* Instance names are natural numbers: sort.Strings only needs an order.   *)
(***************************************************************************)
EXTENDS Integers, FiniteSets

CONSTANTS
    Callers,    \* goroutines that run provider operations
    Names,      \* instance names, as numbers
    Entries,    \* the instanceLock objects
    Importers,  \* callers that run bhyve's ImportInstance with StartAfterImport
    NoEntry,    \* nil *instanceLock
    NoName      \* no Acquire call is in progress

ASSUME CallersFinite == IsFiniteSet(Callers)
ASSUME NamesAreNumbers == Names \subseteq Nat /\ NoName \notin Names
ASSUME NoEntryFresh == NoEntry \notin Entries
ASSUME ImportersAreCallers == Importers \subseteq Callers

VARIABLES
    locks,   \* l.locks: name -> entry, NoEntry when the map has no such key
    refs,    \* entry.refs
    ch,      \* tokens in entry.ch, a channel of capacity one
    pc,      \* where each caller is
    ctxDone, \* the caller's context has ended
    ctx,     \* names the caller's context records as held (heldLocks values)
    names,   \* the names the caller's operation locks
    todo,    \* of those, the ones Acquire has not been called for yet
    at,      \* the name of the Acquire or release call in progress
    entry,   \* the entry that call found in the map
    held     \* held[p][n]: the entry p's release function for n will free

vars == <<locks, refs, ch, pc, ctxDone, ctx, names, todo, at, entry, held>>

-----------------------------------------------------------------------------
(* "next": between the Acquire calls of AcquireAll; "check": before        *)
(* ctx.Err(); "select": at the select; "work": in the operation's body;    *)
(* "unlock": in releaseAll; "drop": about to call drop.                    *)
PCs == {"idle", "next", "check", "select", "work", "unlock", "drop"}

Holds(p, n) == held[p][n] # NoEntry
HeldNames(p) == {n \in Names : Holds(p, n)}

\* A call in progress that has counted itself in refs without holding.
Wants(p, n) == at[p] = n

Waiting(p, n) == Wants(p, n) /\ pc[p] \in {"check", "select"}

TypeOK ==
    /\ locks \in [Names -> Entries \cup {NoEntry}]
    /\ refs \in [Entries -> Nat]
    /\ ch \in [Entries -> 0..1]
    /\ pc \in [Callers -> PCs]
    /\ ctxDone \in [Callers -> BOOLEAN]
    /\ ctx \in [Callers -> SUBSET Names]
    /\ names \in [Callers -> SUBSET Names]
    /\ todo \in [Callers -> SUBSET Names]
    /\ at \in [Callers -> Names \cup {NoName}]
    /\ entry \in [Callers -> Entries \cup {NoEntry}]
    /\ held \in [Callers -> [Names -> Entries \cup {NoEntry}]]

Init ==
    /\ locks = [n \in Names |-> NoEntry]
    /\ refs = [e \in Entries |-> 0]
    /\ ch = [e \in Entries |-> 0]
    /\ pc = [p \in Callers |-> "idle"]
    /\ ctxDone = [p \in Callers |-> FALSE]
    /\ ctx = [p \in Callers |-> {}]
    /\ names = [p \in Callers |-> {}]
    /\ todo = [p \in Callers |-> {}]
    /\ at = [p \in Callers |-> NoName]
    /\ entry = [p \in Callers |-> NoEntry]
    /\ held = [p \in Callers |-> [n \in Names |-> NoEntry]]

-----------------------------------------------------------------------------
(* A provider method calls AcquireAll(ctx, S...); Acquire is the case of   *)
(* one name.  Duplicate and empty names are skipped, so S is a set.  The   *)
(* request's context may be over already.                                  *)
Begin(p, S, over) ==
    /\ pc[p] = "idle"
    /\ S # {}
    /\ p \in Importers => \A m, n \in S : m = n
    /\ pc' = [pc EXCEPT ![p] = "next"]
    /\ names' = [names EXCEPT ![p] = S]
    /\ todo' = [todo EXCEPT ![p] = S]
    /\ ctxDone' = [ctxDone EXCEPT ![p] = over]
    /\ ctx' = [ctx EXCEPT ![p] = {}]
    /\ UNCHANGED <<locks, refs, ch, at, entry, held>>

\* The client disconnects or the deadline passes.
ContextEnds(p) ==
    /\ pc[p] # "idle"
    /\ ~ctxDone[p]
    /\ ctxDone' = [ctxDone EXCEPT ![p] = TRUE]
    /\ UNCHANGED <<locks, refs, ch, pc, ctx, names, todo, at, entry, held>>

\* Mutant of NextNames: AcquireAll without sort.Strings.
MutUnsorted(p) == todo[p]

\* AcquireAll walks the sorted names: the next one is the least.
NextNames(p) == {n \in todo[p] : \A m \in todo[p] : n <= m}

\* A heap object nobody refers to.
Unreferenced(e) ==
    /\ \A n \in Names : locks[n] # e
    /\ \A p \in Callers : entry[p] # e /\ \A n \in Names : held[p][n] # e

\* Acquire finds the name in the context: a no-op.
AlreadyHeld(p, n) ==
    /\ pc[p] = "next"
    /\ n \in NextNames(p)
    /\ n \in ctx[p]
    /\ todo' = [todo EXCEPT ![p] = @ \ {n}]
    /\ UNCHANGED <<locks, refs, ch, pc, ctxDone, ctx, names, at, entry, held>>

\* Acquire's critical section when the map has an entry for the name.
Join(p, n) ==
    /\ pc[p] = "next"
    /\ n \in NextNames(p) \ ctx[p]
    /\ locks[n] # NoEntry
    /\ refs' = [refs EXCEPT ![locks[n]] = @ + 1]
    /\ entry' = [entry EXCEPT ![p] = locks[n]]
    /\ at' = [at EXCEPT ![p] = n]
    /\ pc' = [pc EXCEPT ![p] = "check"]
    /\ UNCHANGED <<locks, ch, ctxDone, ctx, names, todo, held>>

\* Acquire's critical section when it has to make the entry.
Create(p, n, e) ==
    /\ pc[p] = "next"
    /\ n \in NextNames(p) \ ctx[p]
    /\ locks[n] = NoEntry
    /\ Unreferenced(e)
    /\ locks' = [locks EXCEPT ![n] = e]
    /\ refs' = [refs EXCEPT ![e] = 1]
    /\ ch' = [ch EXCEPT ![e] = 0]
    /\ entry' = [entry EXCEPT ![p] = e]
    /\ at' = [at EXCEPT ![p] = n]
    /\ pc' = [pc EXCEPT ![p] = "check"]
    /\ UNCHANGED <<ctxDone, ctx, names, todo, held>>

\* ctx.Err() is nil: go on to the select.
CheckContext(p) ==
    /\ pc[p] = "check"
    /\ ~ctxDone[p]
    /\ pc' = [pc EXCEPT ![p] = "select"]
    /\ UNCHANGED <<locks, refs, ch, ctxDone, ctx, names, todo, at, entry, held>>

\* Mutant of GiveUp: the early return forgets drop.
MutGiveUpKeepsRef(p) ==
    /\ pc[p] \in {"check", "select"}
    /\ ctxDone[p]
    /\ todo' = [todo EXCEPT ![p] = {}]
    /\ at' = [at EXCEPT ![p] = NoName]
    /\ entry' = [entry EXCEPT ![p] = NoEntry]
    /\ pc' = [pc EXCEPT ![p] = "unlock"]
    /\ UNCHANGED <<locks, refs, ch, ctxDone, ctx, names, held>>

\* ctx.Err() at the check, or ctx.Done() at the select: give up this name.
GiveUp(p) ==
    /\ pc[p] \in {"check", "select"}
    /\ ctxDone[p]
    /\ todo' = [todo EXCEPT ![p] = {}]
    /\ pc' = [pc EXCEPT ![p] = "drop"]
    /\ UNCHANGED <<locks, refs, ch, ctxDone, ctx, names, at, entry, held>>

\* entry.ch <- struct{}{}: the lock is taken, and the context records it.
Send(p) ==
    /\ pc[p] = "select"
    /\ ch[entry[p]] = 0
    /\ ch' = [ch EXCEPT ![entry[p]] = 1]
    /\ held' = [held EXCEPT ![p][at[p]] = entry[p]]
    /\ ctx' = [ctx EXCEPT ![p] = @ \cup {at[p]}]
    /\ todo' = [todo EXCEPT ![p] = @ \ {at[p]}]
    /\ at' = [at EXCEPT ![p] = NoName]
    /\ entry' = [entry EXCEPT ![p] = NoEntry]
    /\ pc' = [pc EXCEPT ![p] = "next"]
    /\ UNCHANGED <<locks, refs, ctxDone, names>>

\* Every name is locked: the operation's body runs.  ImportInstance throws
\* the derived context away; the other callers pass it on.
EnterBody(p) ==
    /\ pc[p] = "next"
    /\ todo[p] = {}
    /\ pc' = [pc EXCEPT ![p] = "work"]
    /\ ctx' = [ctx EXCEPT ![p] = IF p \in Importers THEN {} ELSE @]
    /\ UNCHANGED <<locks, refs, ch, ctxDone, names, todo, at, entry, held>>

\* The body calls another locked method on one of its own instances:
\* restart calls stop and start, clone calls create, delete calls stop,
\* import calls start.
CallLockedMethod(p, n) ==
    /\ pc[p] = "work"
    /\ n \in names[p]
    /\ todo' = [todo EXCEPT ![p] = {n}]
    /\ pc' = [pc EXCEPT ![p] = "next"]
    /\ UNCHANGED <<locks, refs, ch, ctxDone, ctx, names, at, entry, held>>

\* The operation returns; its deferred release function starts.
LeaveBody(p) ==
    /\ pc[p] = "work"
    /\ pc' = [pc EXCEPT ![p] = "unlock"]
    /\ UNCHANGED <<locks, refs, ch, ctxDone, ctx, names, todo, at, entry, held>>

\* Mutant of Receive: release forgets to take the token back.
MutReleaseKeepsToken(p, n) ==
    /\ pc[p] = "unlock"
    /\ n \in HeldNames(p)
    /\ \A m \in HeldNames(p) : m <= n
    /\ entry' = [entry EXCEPT ![p] = held[p][n]]
    /\ at' = [at EXCEPT ![p] = n]
    /\ held' = [held EXCEPT ![p][n] = NoEntry]
    /\ pc' = [pc EXCEPT ![p] = "drop"]
    /\ UNCHANGED <<locks, refs, ch, ctxDone, ctx, names, todo>>

\* releaseAll runs the release functions in reverse order: <-entry.ch.
Receive(p, n) ==
    /\ pc[p] = "unlock"
    /\ n \in HeldNames(p)
    /\ \A m \in HeldNames(p) : m <= n
    /\ ch' = [ch EXCEPT ![held[p][n]] = 0]
    /\ entry' = [entry EXCEPT ![p] = held[p][n]]
    /\ at' = [at EXCEPT ![p] = n]
    /\ held' = [held EXCEPT ![p][n] = NoEntry]
    /\ pc' = [pc EXCEPT ![p] = "drop"]
    /\ UNCHANGED <<locks, refs, ctxDone, ctx, names, todo>>

\* Mutant of Drop: the map entry is deleted while callers still use it.
MutDropAlways(p) ==
    /\ pc[p] = "drop"
    /\ refs' = [refs EXCEPT ![entry[p]] = @ - 1]
    /\ locks' = [locks EXCEPT ![at[p]] = NoEntry]
    /\ at' = [at EXCEPT ![p] = NoName]
    /\ entry' = [entry EXCEPT ![p] = NoEntry]
    /\ pc' = [pc EXCEPT ![p] = "unlock"]
    /\ UNCHANGED <<ch, ctxDone, ctx, names, todo, held>>

\* drop: one reference less, and the map entry goes with the last one.
Drop(p) ==
    /\ pc[p] = "drop"
    /\ refs' = [refs EXCEPT ![entry[p]] = @ - 1]
    /\ locks' = IF refs[entry[p]] = 1
                THEN [locks EXCEPT ![at[p]] = NoEntry]
                ELSE locks
    /\ at' = [at EXCEPT ![p] = NoName]
    /\ entry' = [entry EXCEPT ![p] = NoEntry]
    /\ pc' = [pc EXCEPT ![p] = "unlock"]
    /\ UNCHANGED <<ch, ctxDone, ctx, names, todo, held>>

\* Nothing left to release: the method has returned.
Return(p) ==
    /\ pc[p] = "unlock"
    /\ HeldNames(p) = {}
    /\ pc' = [pc EXCEPT ![p] = "idle"]
    /\ names' = [names EXCEPT ![p] = {}]
    /\ ctx' = [ctx EXCEPT ![p] = {}]
    /\ ctxDone' = [ctxDone EXCEPT ![p] = FALSE]
    /\ UNCHANGED <<locks, refs, ch, todo, at, entry, held>>

Step(p) ==
    \/ \E n \in Names : AlreadyHeld(p, n) \/ Join(p, n) \/ Receive(p, n)
    \/ \E n \in Names, e \in Entries : Create(p, n, e)
    \/ CheckContext(p)
    \/ GiveUp(p)
    \/ EnterBody(p)
    \/ LeaveBody(p)
    \/ Drop(p)
    \/ Return(p)

Next ==
    \E p \in Callers :
        \/ \E S \in SUBSET Names, over \in BOOLEAN : Begin(p, S, over)
        \/ ContextEnds(p)
        \/ Send(p)
        \/ \E n \in Names : CallLockedMethod(p, n)
        \/ Step(p)

Spec == Init /\ [][Next]_vars

\* Goroutines run, and an operation makes finitely many nested calls and
\* ends.  Strong fairness on Send stands for the FIFO queue of senders a Go
\* channel keeps: a parked sender is served.
Fairness ==
    \A p \in Callers :
        WF_vars(Step(p)) /\ SF_vars(LeaveBody(p)) /\ SF_vars(Send(p))

FairSpec == Spec /\ Fairness

-----------------------------------------------------------------------------
(* Two operations never hold the same instance, even when the entry that   *)
(* guards it was deleted and made again in between (locks.go, Acquire and  *)
(* drop).                                                                  *)
MutualExclusion ==
    \A n \in Names, p, q \in Callers : Holds(p, n) /\ Holds(q, n) => p = q

(* The reference count of a name's entry is the number of callers that     *)
(* hold the name, wait for it or are about to drop it, and a name nobody   *)
(* uses has no entry: nothing accumulates (the instanceLock comment).      *)
Users(n) ==
    {u \in Callers \X {"holds", "wants"} :
        IF u[2] = "holds" THEN Holds(u[1], n) ELSE Wants(u[1], n)}

RefsCountUsers ==
    \A n \in Names :
        /\ locks[n] = NoEntry <=> Users(n) = {}
        /\ locks[n] # NoEntry => refs[locks[n]] = Cardinality(Users(n))

(* The inductive strengthening of the properties above.  A caller's call   *)
(* and release functions refer to the entry the map holds; entries are not *)
(* shared between names; a token is in the channel exactly while somebody  *)
(* holds the name.                                                         *)
CallsMatchPC ==
    \A p \in Callers :
        /\ at[p] \in Names <=> pc[p] \in {"check", "select", "drop"}
        /\ at[p] = NoName => entry[p] = NoEntry

PointersAreCurrent ==
    /\ \A p \in Callers, n \in Names :
          /\ Wants(p, n) => entry[p] = locks[n] /\ locks[n] # NoEntry
          /\ Holds(p, n) => held[p][n] = locks[n]
    /\ \A m, n \in Names : locks[m] = locks[n] /\ locks[n] # NoEntry => m = n

TokenMeansHeld ==
    \A n \in Names :
        locks[n] # NoEntry =>
            (ch[locks[n]] = 1 <=> \E p \in Callers : Holds(p, n))

LockInv ==
    /\ TypeOK
    /\ CallsMatchPC
    /\ PointersAreCurrent
    /\ TokenMeansHeld
    /\ MutualExclusion
    /\ RefsCountUsers

(* A caller that waits for a name outside a nested call holds only smaller *)
(* names: AcquireAll's sorting excludes a cycle of callers each waiting    *)
(* for what the next one holds.                                            *)
LockOrder ==
    \A p \in Callers \ Importers, n, m \in Names :
        Waiting(p, n) /\ Holds(p, m) => m < n

(* Its strengthening: until it unlocks, a caller's context records what it *)
(* holds, its names are those recorded and those to come, and what is to   *)
(* come is larger than what it holds.                                      *)
OrderInv ==
    \A p \in Callers \ Importers :
        /\ pc[p] = "idle" => HeldNames(p) = {}
        /\ pc[p] \in {"next", "check", "select", "work"} =>
              /\ HeldNames(p) = ctx[p]
              /\ names[p] = ctx[p] \cup todo[p]
              /\ \A m \in ctx[p], n \in todo[p] \ ctx[p] : m < n
        /\ pc[p] \in {"check", "select"} => at[p] \in NextNames(p) \ ctx[p]
        /\ pc[p] = "work" => todo[p] = {}

(* Every operation that asks for its instances gets them or gives up when  *)
(* its context ends: nobody waits forever, neither for a peer nor for      *)
(* itself (Acquire's comment: a method built out of other locked methods   *)
(* holds the instance "instead of deadlocking on itself").                 *)
AcquisitionEnds ==
    \A p \in Callers : pc[p] = "next" ~> pc[p] \in {"work", "unlock", "drop"}

-----------------------------------------------------------------------------
(* What the package promises: one owner per name, and every owner gives    *)
(* the name back.                                                          *)
Owner == [n \in Names |-> {p \in Callers : Holds(p, n)}]

Mutex == INSTANCE NameMutex WITH owners <- Owner

(* The reference-counted entries implement one mutex per name, fairness    *)
(* included (locks.go as a whole).                                         *)
ImplementsMutex == Mutex!FairSpec

=============================================================================
