------------------------ MODULE StackManagerProofs --------------------------
(***************************************************************************)
(* Proofs about StackManager for any manifest, any number of callers and   *)
(* any number of deployments and crashes.                                  *)
(***************************************************************************)
EXTENDS StackManager, SequenceTheorems, WellFoundedInduction, TLAPS

-----------------------------------------------------------------------------
(* Lists of instances. *)

(* A nonempty set of naturals has a least element. *)
LEMMA LeastOf ==
    ASSUME NEW T, T \subseteq Nat, T # {}
    PROVE  \E x \in T : \A y \in T : ~(y < x)
<1>1. PICK x \in T : \A y \in T : ~(<<y, x>> \in OpToRel(<, Nat))
  BY NatLessThanWellFounded, WFMin
<1> QED
  BY <1>1 DEF OpToRel

(* What Append, Tail and Front list. *)
LEMMA ListedAppend ==
    ASSUME NEW S, NEW s \in Seq(S), NEW e \in S
    PROVE  Append(s, e) \in Seq(S) /\ Listed(Append(s, e)) = Listed(s) \cup {e}
<1>1. /\ Len(s) \in Nat /\ Append(s, e) \in Seq(S) /\ Len(Append(s, e)) = Len(s) + 1
      /\ \A i \in 1..Len(s) : Append(s, e)[i] = s[i]
      /\ Append(s, e)[Len(s) + 1] = e
  BY AppendProperties, LenProperties
<1>2. 1..(Len(s) + 1) = 1..Len(s) \cup {Len(s) + 1}
  BY <1>1
<1> HIDE <1>2
<1> QED
  BY <1>1, <1>2 DEF Listed

LEMMA ListedTail ==
    ASSUME NEW S, NEW s \in Seq(S), s # <<>>
    PROVE  /\ Head(s) \in S /\ Tail(s) \in Seq(S) /\ Head(s) \in Listed(s)
           /\ Listed(s) = {Head(s)} \cup Listed(Tail(s))
<1>1. /\ Len(s) \in Nat /\ Len(s) > 0 /\ Head(s) = s[1] /\ Head(s) \in S
      /\ Tail(s) \in Seq(S) /\ Len(Tail(s)) = Len(s) - 1
      /\ \A i \in 1..(Len(s) - 1) : Tail(s)[i] = s[i + 1]
  BY HeadTailProperties, EmptySeq
<1>2. ASSUME NEW x \in Listed(Tail(s)) PROVE x \in Listed(s)
  <2>1. PICK i \in 1..(Len(s) - 1) : x = Tail(s)[i]
    BY <1>1 DEF Listed
  <2>2. i + 1 \in 1..Len(s) /\ x = s[i + 1]
    BY <1>1, <2>1
  <2> QED
    BY <2>2 DEF Listed
<1>3. ASSUME NEW x \in Listed(s), x # Head(s) PROVE x \in Listed(Tail(s))
  <2>1. PICK i \in 1..Len(s) : x = s[i]
    BY DEF Listed
  <2>2. i - 1 \in 1..(Len(s) - 1) /\ (i - 1) + 1 = i
    BY <1>1, <1>3, <2>1
  <2>3. x = Tail(s)[i - 1]
    BY <1>1, <2>1, <2>2
  <2> QED
    BY <1>1, <2>2, <2>3 DEF Listed
<1>4. Head(s) \in Listed(s)
  BY <1>1 DEF Listed
<1> QED
  BY <1>1, <1>2, <1>3, <1>4

LEMMA ListedFront ==
    ASSUME NEW S, NEW s \in Seq(S), s # <<>>
    PROVE  /\ s[Len(s)] \in S /\ Front(s) \in Seq(S)
           /\ Listed(s) = {s[Len(s)]} \cup Listed(Front(s))
<1>1. Len(s) \in Nat /\ Len(s) > 0 /\ \A i \in 1..Len(s) : s[i] \in S
  BY EmptySeq, LenProperties, ElementOfSeq
<1>2. /\ Front(s) \in Seq(S) /\ Len(Front(s)) = Len(s) - 1
      /\ \A i \in 1..(Len(s) - 1) : Front(s)[i] = s[i]
  <2> PICK m \in Nat : m = Len(s) - 1
    BY <1>1
  <2>1. \A i \in 1..m : i \in 1..Len(s)
    BY <1>1
  <2>2. /\ SubSeq(s, 1, m) \in Seq(S) /\ Len(SubSeq(s, 1, m)) = m
        /\ \A i \in 1..m : SubSeq(s, 1, m)[i] = s[i]
    BY <1>1, <2>1, SubSeqProperties
  <2> QED
    BY <2>2 DEF Front
<1>3. 1..Len(s) = 1..(Len(s) - 1) \cup {Len(s)}
  BY <1>1
<1> QED
  BY <1>1, <1>2, <1>3 DEF Listed

(* An empty list lists nothing; nothing else does. *)
LEMMA ListedEmpty ==
    /\ Listed(<<>>) = {}
    /\ \A S : <<>> \in Seq(S)
BY EmptySeq DEF Listed

LEMMA ListedIn ==
    ASSUME NEW S, NEW s \in Seq(S)
    PROVE  Listed(s) \subseteq S /\ (Listed(s) = {} => s = <<>>)
<1>1. Len(s) \in Nat /\ \A i \in 1..Len(s) : s[i] \in S
  BY LenProperties, ElementOfSeq
<1>2. s # <<>> => 1 \in 1..Len(s)
  BY <1>1, EmptySeq
<1> QED
  BY <1>1, <1>2 DEF Listed

(* The loop that keeps all elements but one is well defined (the first      *)
(* length at which it is not would have a predecessor) and does that.       *)
LEMMA ListedWithout ==
    ASSUME NEW S, NEW s \in Seq(S), NEW x
    PROVE  Without(s, x) \in Seq(S) /\ Listed(Without(s, x)) = Listed(s) \ {x}
<1> DEFINE Turn(f, k) == IF k = 0 THEN <<>>
                         ELSE IF s[k] = x THEN f[k - 1] ELSE Append(f[k - 1], s[k])
           Loop(f, n) == f = [k \in 0..n |-> Turn(f, k)]
           N == Len(s)
<1>1. N \in Nat /\ \A i \in 1..N : s[i] \in S
  BY LenProperties, ElementOfSeq
<1>2. Loop([k \in 0..0 |-> <<>>], 0)
  OBVIOUS
<1>3. ASSUME NEW n \in Nat, n # 0, NEW f, Loop(f, n - 1)
      PROVE  \E g : Loop(g, n)
  <2> DEFINE g == [k \in 0..n |-> IF k < n THEN f[k] ELSE Turn(f, n)]
  <2>1. ASSUME NEW k \in 0..n PROVE g[k] = Turn(g, k)
    <3>1. CASE k < n
      <4>1. k \in 0..(n - 1)
        BY <3>1
      <4>2. f[k] = Turn(f, k)
        BY <1>3, <4>1
      <4>3. k # 0 => k - 1 \in 0..n /\ k - 1 < n /\ g[k - 1] = f[k - 1]
        BY <3>1
      <4> QED
        BY <3>1, <4>2, <4>3
    <3>2. CASE k = n
      <4>1. n - 1 \in 0..n /\ g[n - 1] = f[n - 1]
        BY <1>3
      <4> QED
        BY <1>3, <3>2, <4>1
    <3> QED
      BY <3>1, <3>2
  <2>2. Loop(g, n)
    BY <2>1
  <2> QED
    BY <2>2
<1>4. \E f : Loop(f, N)
  <2> DEFINE Bad == {n \in Nat : ~ \E f : Loop(f, n)}
  <2> HIDE DEF Loop
  <2>1. ASSUME N \in Bad PROVE FALSE
    <3>1. PICK n \in Bad : \A m \in Bad : ~(m < n)
      BY <2>1, LeastOf
    <3>2. n \in Nat /\ n # 0
      BY <1>2, <3>1
    <3>3. n - 1 \in Nat /\ n - 1 < n
      BY <3>2
    <3>4. PICK f : Loop(f, n - 1)
      BY <3>1, <3>3
    <3> QED
      BY <1>3, <3>1, <3>2, <3>4
  <2> QED
    BY <1>1, <2>1
<1>5. PICK f : Loop(f, N) /\ Without(s, x) = f[N]
  BY <1>4 DEF Without
<1>6. \A k \in 0..N : f[k] = Turn(f, k)
  BY <1>5
<1> DEFINE Right(m) == f[m] \in Seq(S) /\ Listed(f[m]) = {s[j] : j \in 1..m} \ {x}
<1>7. Right(0)
  <2>1. f[0] = <<>> /\ 1..0 = {}
    BY <1>1, <1>6
  <2> QED
    BY <2>1, ListedEmpty
<1>8. ASSUME NEW m \in 1..N, Right(m - 1) PROVE Right(m)
  <2>1. m \in Nat /\ m # 0 /\ s[m] \in S /\ m \in 0..N
    BY <1>1
  <2>2. 1..m = 1..(m - 1) \cup {m}
    BY <2>1
  <2>3. {s[j] : j \in 1..m} = {s[j] : j \in 1..(m - 1)} \cup {s[m]}
    BY <2>2
  <2>4. CASE s[m] = x
    <3>1. f[m] = f[m - 1]
      BY <1>6, <2>1, <2>4
    <3> QED
      BY <1>8, <2>3, <2>4, <3>1
  <2>5. CASE s[m] # x
    <3>1. f[m] = Append(f[m - 1], s[m])
      BY <1>6, <2>1, <2>5
    <3>2. f[m] \in Seq(S) /\ Listed(f[m]) = Listed(f[m - 1]) \cup {s[m]}
      BY <1>8, <2>1, <3>1, ListedAppend
    <3> QED
      BY <1>8, <2>3, <2>5, <3>2
  <2> QED
    BY <2>4, <2>5
<1>9. Right(N)
  <2> DEFINE Wrong == {m \in 0..N : ~Right(m)}
  <2> HIDE DEF Right
  <2>1. ASSUME N \in Wrong PROVE FALSE
    <3>1. Wrong \subseteq Nat
      BY <1>1
    <3>2. PICK m \in Wrong : \A l \in Wrong : ~(l < m)
      BY <2>1, <3>1, LeastOf
    <3>3. m \in 1..N /\ m - 1 \in 0..N /\ m - 1 < m
      BY <1>1, <1>7, <3>2
    <3>4. Right(m - 1)
      BY <3>2, <3>3
    <3> QED
      BY <1>8, <3>2, <3>3, <3>4
  <2> QED
    BY <1>1, <2>1
<1> QED
  BY <1>5, <1>9 DEF Listed

-----------------------------------------------------------------------------
(* Moves of one caller. *)

LEMMA ObjectFacts ==
  /\ MaxDeploys + MaxCrashes \in Nat
  /\ Objects \subseteq Nat /\ 0 \notin Objects
  /\ \A n \in Nat : n # 0 /\ n <= MaxDeploys + MaxCrashes => n \in Objects
  /\ Mutexes \subseteq Int /\ 0 \notin Mutexes
BY BoundsAreNat DEF Objects, Mutexes

(* A caller between calls. *)
LEMMA IdleFits == Idle \in Operations /\ Fits(Idle)
<1>1. <<>> \in Seq(Insts)
  BY ListedEmpty
<1>2. Idle \in Operations
  BY <1>1 DEF Idle, Operations, PCs, Statuses
<1>3. Fits(Idle)
  BY DEF Idle, Fits, Building, Undoing, Reporting
<1> QED
  BY <1>2, <1>3

(* What each kind of move leaves of the caller's record; the other callers' *)
(* records stay.                                                            *)
LEMMA GoMoves ==
  ASSUME op \in [Callers -> Operations], NEW c \in Callers, NEW pc \in PCs, Go(c, pc)
  PROVE  /\ op'[c] \in Operations /\ op' = [op EXCEPT ![c] = op'[c]]
         /\ \A d \in Callers \ {c} : op'[d] = op[d]
         /\ op'[c].pc = pc /\ op'[c].kind = op[c].kind /\ op'[c].obj = op[c].obj
         /\ op'[c].todo = op[c].todo /\ op'[c].made = op[c].made /\ op'[c].bad = op[c].bad
         /\ op'[c].goal = op[c].goal /\ op'[c].ref = op[c].ref
BY DEF Go, Operations

LEMMA ReportMoves ==
  ASSUME op \in [Callers -> Operations], NEW c \in Callers, NEW goal \in Statuses, Report(c, goal)
  PROVE  /\ op'[c] \in Operations /\ op' = [op EXCEPT ![c] = op'[c]]
         /\ \A d \in Callers \ {c} : op'[d] = op[d]
         /\ op'[c].pc = "enter" /\ op'[c].kind = op[c].kind /\ op'[c].obj = op[c].obj
         /\ op'[c].todo = op[c].todo /\ op'[c].made = op[c].made /\ op'[c].bad = op[c].bad
         /\ op'[c].goal = goal /\ op'[c].ref = op[c].ref
<1>1. /\ op[c] \in Operations /\ op'[c] = [op[c] EXCEPT !.pc = "enter", !.goal = goal]
      /\ op' = [op EXCEPT ![c] = op'[c]] /\ \A d \in Callers \ {c} : op'[d] = op[d]
  BY DEF Report
<1>2. "enter" \in PCs
  BY DEF PCs
<1> QED
  BY <1>1, <1>2 DEF Operations

LEMMA FinishMoves ==
  ASSUME op \in [Callers -> Operations], NEW c \in Callers, Finish(c)
  PROVE  /\ op'[c] = Idle /\ op'[c] \in Operations /\ op' = [op EXCEPT ![c] = op'[c]]
         /\ \A d \in Callers \ {c} : op'[d] = op[d]
         /\ op'[c].pc = "idle" /\ op'[c].kind = "none" /\ op'[c].todo = <<>> /\ op'[c].made = <<>>
<1>1. op'[c] = Idle /\ op' = [op EXCEPT ![c] = op'[c]] /\ \A d \in Callers \ {c} : op'[d] = op[d]
  BY DEF Finish
<1> QED
  BY <1>1, IdleFits DEF Idle

LEMMA BackwardMoves ==
  ASSUME op \in [Callers -> Operations], NEW c \in Callers, op[c].todo # <<>>,
         NEW failed \in BOOLEAN, Backward(c, failed)
  PROVE  /\ op'[c] \in Operations /\ op' = [op EXCEPT ![c] = op'[c]]
         /\ \A d \in Callers \ {c} : op'[d] = op[d]
         /\ op'[c].pc = op[c].pc /\ op'[c].kind = op[c].kind /\ op'[c].obj = op[c].obj
         /\ op'[c].todo = Front(op[c].todo) /\ op'[c].made = op[c].made
         /\ op'[c].bad = (op[c].bad \/ failed)
         /\ op'[c].goal = op[c].goal /\ op'[c].ref = op[c].ref
<1>1. op[c] \in Operations /\ op[c].todo \in Seq(Insts) /\ op[c].bad \in BOOLEAN
  BY DEF Operations
<1>2. Front(op[c].todo) \in Seq(Insts)
  BY <1>1, ListedFront
<1>3. PICK f, b : f = Front(op[c].todo) /\ b = (op[c].bad \/ failed) /\ b \in BOOLEAN
  OBVIOUS
<1>4. op' = [op EXCEPT ![c].todo = f, ![c].bad = b]
  BY <1>3 DEF Backward
<1> HIDE <1>3
<1>5. f \in Seq(Insts) /\ b \in BOOLEAN
  BY <1>2, <1>3
<1>6. /\ op'[c] \in Operations /\ op' = [op EXCEPT ![c] = op'[c]]
      /\ \A d \in Callers \ {c} : op'[d] = op[d]
      /\ op'[c].pc = op[c].pc /\ op'[c].kind = op[c].kind /\ op'[c].obj = op[c].obj
      /\ op'[c].todo = f /\ op'[c].made = op[c].made /\ op'[c].bad = b
      /\ op'[c].goal = op[c].goal /\ op'[c].ref = op[c].ref
  BY <1>1, <1>4, <1>5 DEF Operations
<1> QED
  BY <1>3, <1>6

(* The move of DeployCreate, DeployNext, RollbackForgetRow and StartOne.    *)
Carry(c, pc, t, m) == op' = [op EXCEPT ![c].pc = pc, ![c].todo = t, ![c].made = m]

LEMMA ListMoves ==
  ASSUME op \in [Callers -> Operations], NEW c \in Callers, NEW pc \in PCs,
         NEW t \in Seq(Insts), NEW m \in Seq(Insts),
         Carry(c, pc, t, m)
  PROVE  /\ op'[c] \in Operations /\ op' = [op EXCEPT ![c] = op'[c]]
         /\ \A d \in Callers \ {c} : op'[d] = op[d]
         /\ op'[c].pc = pc /\ op'[c].kind = op[c].kind /\ op'[c].obj = op[c].obj
         /\ op'[c].todo = t /\ op'[c].made = m /\ op'[c].bad = op[c].bad
         /\ op'[c].goal = op[c].goal /\ op'[c].ref = op[c].ref
<1>1. /\ op[c] \in Operations /\ op'[c] = [op[c] EXCEPT !.pc = pc, !.todo = t, !.made = m]
      /\ op' = [op EXCEPT ![c] = op'[c]] /\ \A d \in Callers \ {c} : op'[d] = op[d]
  BY DEF Carry
<1> QED
  BY <1>1 DEF Operations

(* The move of StatusEnter and DestroyUnmap. *)
Hold(c, pc, r) == op' = [op EXCEPT ![c].pc = pc, ![c].ref = r]

LEMMA RefMoves ==
  ASSUME op \in [Callers -> Operations], NEW c \in Callers, NEW pc \in PCs,
         NEW r \in Mutexes \cup {0}, Hold(c, pc, r)
  PROVE  /\ op'[c] \in Operations /\ op' = [op EXCEPT ![c] = op'[c]]
         /\ \A d \in Callers \ {c} : op'[d] = op[d]
         /\ op'[c].pc = pc /\ op'[c].kind = op[c].kind /\ op'[c].obj = op[c].obj
         /\ op'[c].todo = op[c].todo /\ op'[c].made = op[c].made /\ op'[c].bad = op[c].bad
         /\ op'[c].goal = op[c].goal /\ op'[c].ref = r
BY DEF Hold, Operations

(* What updateStackStatus is called with. *)
LEMMA GoalFacts ==
  ASSUME NEW o \in Operations, Fits(o), o.pc \in Reporting
  PROVE  o.goal \in {"running", "failed", "degraded", "stopped"}
<1>1. o.kind \in {"deploy", "stop", "start", "destroy"} /\ o.goal \in Goals[o.kind]
  BY DEF Fits, Reporting
<1>2. CASE o.kind = "deploy"
  BY <1>1, <1>2 DEF Goals
<1>3. CASE o.kind = "stop"
  BY <1>1, <1>3 DEF Goals
<1>4. CASE o.kind = "start"
  BY <1>1, <1>4 DEF Goals
<1>5. CASE o.kind = "destroy"
  BY <1>1, <1>5 DEF Goals
<1> QED
  BY <1>1, <1>2, <1>3, <1>4, <1>5


-----------------------------------------------------------------------------
(* Whatever overlaps. *)

(* An operation's move keeps the operations well formed. *)
LEMMA OpMoves ==
  ASSUME StackInv, NEW c \in Callers, NEW p \in Operations, Fits(p), op' = [op EXCEPT ![c] = p]
  PROVE  op' \in [Callers -> Operations] /\ \A d \in Callers : Fits(op'[d])
<1>1. op \in [Callers -> Operations] /\ \A d \in Callers : Fits(op[d])
  BY DEF StackInv, TypeOK
<1>2. \A d \in Callers : op'[d] = IF d = c THEN p ELSE op[d]
  BY <1>1
<1> QED
  BY <1>1, <1>2

(* A move of a caller that is not driving the stack, or goes on driving it, *)
(* changes nothing about who drives it.                                     *)
LEMMA DrivenKept ==
  ASSUME StackInv, NEW c \in Callers, NEW p, op' = [op EXCEPT ![c] = p],
         op[c].kind = "deploy" /\ op[c].pc # "store" =>
            p.kind = "deploy" /\ p.obj = op[c].obj /\ p.pc # "store",
         UNCHANGED <<current, status, used, crashes>>
  PROVE  Driven' /\ Numbered'
<1>1. op \in [Callers -> Operations]
  BY DEF StackInv, TypeOK
<1>2. ASSUME NEW d \in Callers, op[d].kind = "deploy" /\ op[d].obj = current /\ op[d].pc # "store"
      PROVE  op'[d].kind = "deploy" /\ op'[d].obj = current /\ op'[d].pc # "store"
  BY <1>1, <1>2
<1> QED
  BY <1>2 DEF StackInv, Driven, Numbered


(* DeployStack creates an instance. *)
LEMMA DeployCreateKeeps ==
  ASSUME StackInv, NEW c \in Callers, DeployCreate(c)
  PROVE  StackInv'
<1> PICK o, p : o = op[c] /\ p = op'[c]
  OBVIOUS
<1>1. op \in [Callers -> Operations] /\ o \in Operations /\ Fits(o)
  BY DEF StackInv, TypeOK
<1>2. o.kind = "deploy" /\ o.pc = "next" /\ o.todo # <<>>
  BY <1>1 DEF DeployCreate, At
<1>3. o.todo # <<>> /\ First(c) = Head(o.todo) /\ First(c) \in Insts /\ Tail(o.todo) \in Seq(Insts)
      /\ o.todo \in Seq(Insts) /\ o.made \in Seq(Insts)
  BY <1>1, <1>2, ListedTail DEF First, Fits, Building, Operations
<1>4. \A q \in Seq(Insts) : Append(q, First(c)) \in Seq(Insts)
  BY <1>1, <1>2, <1>3, ListedAppend
<1>5. op' = [op EXCEPT ![c] = p] /\ p \in Operations /\ p.kind = o.kind /\ p.obj = o.obj
      /\ p.pc = "created"
      /\ p.todo = o.todo /\ p.made = Append(o.made, First(c))
  <2>1. PICK t, m : t = o.todo /\ m = Append(o.made, First(c))
    OBVIOUS
  <2>2. Carry(c, "created", t, m) /\ t \in Seq(Insts) /\ m \in Seq(Insts)
    BY <1>1, <1>2, <1>3, <1>4, <2>1 DEF DeployCreate, Carry, Operations
  <2> HIDE <2>1
  <2>3. op' = [op EXCEPT ![c] = p] /\ p \in Operations /\ p.kind = o.kind /\ p.obj = o.obj
        /\ p.pc = "created" /\ p.todo = t /\ p.made = m
    BY <1>1, <2>2, ListMoves DEF PCs
  <2> QED
    BY <2>1, <2>3
<1>6. Fits(p)
  BY <1>1, <1>2, <1>3, <1>4, <1>5 DEF Fits, Building, Undoing, Reporting, Goals
<1>7. op' \in [Callers -> Operations] /\ \A d \in Callers : Fits(op'[d])
  BY <1>5, <1>6, OpMoves
<1>8. TypeOK'
  BY <1>1, <1>2, <1>3, <1>4, <1>7, ObjectFacts DEF DeployCreate, StackInv, TypeOK, memVars,
     dbVars, watchVars, lockVars, ghosts
<1>9. Driven' /\ Numbered'
  <2>1. op' = [op EXCEPT ![c] = p]
    BY <1>5
  <2>2. op[c].kind = "deploy" /\ op[c].pc # "store" =>
           p.kind = "deploy" /\ p.obj = op[c].obj /\ p.pc # "store"
    BY <1>2, <1>5
  <2>3. UNCHANGED <<current, status, used, crashes>>
    BY DEF DeployCreate, memVars
  <2> QED
    BY <2>1, <2>2, <2>3, DrivenKept
<1> QED
  BY <1>7, <1>8, <1>9 DEF StackInv

(* It starts it. *)
LEMMA DeployStartKeeps ==
  ASSUME StackInv, NEW c \in Callers, DeployStart(c)
  PROVE  StackInv'
<1> PICK o, p : o = op[c] /\ p = op'[c]
  OBVIOUS
<1>1. op \in [Callers -> Operations] /\ o \in Operations /\ Fits(o)
  BY DEF StackInv, TypeOK
<1>2. o.kind = "deploy" /\ o.pc = "created"
  BY <1>1 DEF DeployStart, At
<1>3. o.todo # <<>> /\ First(c) = Head(o.todo) /\ First(c) \in Insts /\ Tail(o.todo) \in Seq(Insts)
      /\ o.todo \in Seq(Insts) /\ o.made \in Seq(Insts)
  BY <1>1, <1>2, ListedTail DEF First, Fits, Building, Operations
<1>4. op' = [op EXCEPT ![c] = p] /\ p \in Operations /\ p.kind = o.kind /\ p.obj = o.obj
      /\ p.pc = "started"
      /\ p.todo = o.todo /\ p.made = o.made
  BY <1>1, <1>2, <1>3, GoMoves DEF DeployStart, PCs
<1>5. Fits(p)
  BY <1>1, <1>2, <1>3, <1>4 DEF Fits, Building, Undoing, Reporting, Goals
<1>6. op' \in [Callers -> Operations] /\ \A d \in Callers : Fits(op'[d])
  BY <1>4, <1>5, OpMoves
<1>7. TypeOK'
  BY <1>1, <1>2, <1>3, <1>6, ObjectFacts DEF DeployStart, StackInv, TypeOK, memVars, dbVars,
     watchVars, lockVars, ghosts
<1>8. Driven' /\ Numbered'
  <2>1. op' = [op EXCEPT ![c] = p]
    BY <1>4
  <2>2. op[c].kind = "deploy" /\ op[c].pc # "store" =>
           p.kind = "deploy" /\ p.obj = op[c].obj /\ p.pc # "store"
    BY <1>2, <1>4
  <2>3. UNCHANGED <<current, status, used, crashes>>
    BY DEF DeployStart, memVars
  <2> QED
    BY <2>1, <2>2, <2>3, DrivenKept
<1> QED
  BY <1>6, <1>7, <1>8 DEF StackInv

(* It lists it. *)
LEMMA DeployListKeeps ==
  ASSUME StackInv, NEW c \in Callers, DeployList(c)
  PROVE  StackInv'
<1> PICK o, p : o = op[c] /\ p = op'[c]
  OBVIOUS
<1>1. op \in [Callers -> Operations] /\ o \in Operations /\ Fits(o)
  BY DEF StackInv, TypeOK
<1>2. o.kind = "deploy" /\ o.pc = "started"
  BY <1>1 DEF DeployList, At
<1>3. o.todo # <<>> /\ First(c) = Head(o.todo) /\ First(c) \in Insts /\ Tail(o.todo) \in Seq(Insts)
      /\ o.todo \in Seq(Insts) /\ o.made \in Seq(Insts)
  BY <1>1, <1>2, ListedTail DEF First, Fits, Building, Operations
<1>4. \A q \in Seq(Insts) : Append(q, First(c)) \in Seq(Insts)
  BY <1>1, <1>2, <1>3, ListedAppend
<1>5. op' = [op EXCEPT ![c] = p] /\ p \in Operations /\ p.kind = o.kind /\ p.obj = o.obj
      /\ p.pc = "listed"
      /\ p.todo = o.todo /\ p.made = o.made
  BY <1>1, <1>2, <1>3, <1>4, GoMoves DEF DeployList, PCs
<1>6. Fits(p)
  BY <1>1, <1>2, <1>3, <1>4, <1>5 DEF Fits, Building, Undoing, Reporting, Goals
<1>7. op' \in [Callers -> Operations] /\ \A d \in Callers : Fits(op'[d])
  BY <1>5, <1>6, OpMoves
<1>8. TypeOK'
  BY <1>1, <1>2, <1>3, <1>4, <1>7, ObjectFacts DEF DeployList, StackInv, TypeOK, dbVars,
     watchVars, lockVars, ghosts, Healths, Operations
<1>9. Driven' /\ Numbered'
  <2>1. op' = [op EXCEPT ![c] = p]
    BY <1>5
  <2>2. op[c].kind = "deploy" /\ op[c].pc # "store" =>
           p.kind = "deploy" /\ p.obj = op[c].obj /\ p.pc # "store"
    BY <1>2, <1>5
  <2>3. UNCHANGED <<current, status, used, crashes>>
    BY DEF DeployList
  <2> QED
    BY <2>1, <2>2, <2>3, DrivenKept
<1> QED
  BY <1>7, <1>8, <1>9 DEF StackInv

(* It records it. *)
LEMMA DeployRowKeeps ==
  ASSUME StackInv, NEW c \in Callers, DeployRow(c)
  PROVE  StackInv'
<1> PICK o, p : o = op[c] /\ p = op'[c]
  OBVIOUS
<1>1. op \in [Callers -> Operations] /\ o \in Operations /\ Fits(o)
  BY DEF StackInv, TypeOK
<1>2. o.kind = "deploy" /\ o.pc = "listed"
  BY <1>1 DEF DeployRow, At
<1>3. o.todo # <<>> /\ First(c) = Head(o.todo) /\ First(c) \in Insts /\ Tail(o.todo) \in Seq(Insts)
      /\ o.todo \in Seq(Insts) /\ o.made \in Seq(Insts)
  BY <1>1, <1>2, ListedTail DEF First, Fits, Building, Operations
<1>4. \A q \in Seq(Insts) : Append(q, First(c)) \in Seq(Insts)
  BY <1>1, <1>2, <1>3, ListedAppend
<1>5. op' = [op EXCEPT ![c] = p] /\ p \in Operations /\ p.kind = o.kind /\ p.obj = o.obj
      /\ p.pc = "rowed"
      /\ p.todo = o.todo /\ p.made = o.made
  BY <1>1, <1>2, <1>3, <1>4, GoMoves DEF DeployRow, PCs
<1>6. Fits(p)
  BY <1>1, <1>2, <1>3, <1>4, <1>5 DEF Fits, Building, Undoing, Reporting, Goals
<1>7. op' \in [Callers -> Operations] /\ \A d \in Callers : Fits(op'[d])
  BY <1>5, <1>6, OpMoves
<1>8. TypeOK'
  BY <1>1, <1>2, <1>3, <1>4, <1>7, ObjectFacts DEF DeployRow, StackInv, TypeOK, memVars,
     watchVars, lockVars, ghosts
<1>9. Driven' /\ Numbered'
  <2>1. op' = [op EXCEPT ![c] = p]
    BY <1>5
  <2>2. op[c].kind = "deploy" /\ op[c].pc # "store" =>
           p.kind = "deploy" /\ p.obj = op[c].obj /\ p.pc # "store"
    BY <1>2, <1>5
  <2>3. UNCHANGED <<current, status, used, crashes>>
    BY DEF DeployRow, memVars
  <2> QED
    BY <2>1, <2>2, <2>3, DrivenKept
<1> QED
  BY <1>7, <1>8, <1>9 DEF StackInv

(* It registers it. *)
LEMMA DeployRegisterKeeps ==
  ASSUME StackInv, NEW c \in Callers, DeployRegister(c)
  PROVE  StackInv'
<1> PICK o, p : o = op[c] /\ p = op'[c]
  OBVIOUS
<1>1. op \in [Callers -> Operations] /\ o \in Operations /\ Fits(o)
  BY DEF StackInv, TypeOK
<1>2. o.kind = "deploy" /\ o.pc = "rowed"
  BY <1>1 DEF DeployRegister, At
<1>3. o.todo # <<>> /\ First(c) = Head(o.todo) /\ First(c) \in Insts /\ Tail(o.todo) \in Seq(Insts)
      /\ o.todo \in Seq(Insts) /\ o.made \in Seq(Insts)
  BY <1>1, <1>2, ListedTail DEF First, Fits, Building, Operations
<1>4. op' = [op EXCEPT ![c] = p] /\ p \in Operations /\ p.kind = o.kind /\ p.obj = o.obj
      /\ p.pc = "wait"
      /\ p.todo = o.todo /\ p.made = o.made
  BY <1>1, <1>2, <1>3, GoMoves DEF DeployRegister, PCs
<1>5. Fits(p)
  BY <1>1, <1>2, <1>3, <1>4 DEF Fits, Building, Undoing, Reporting, Goals
<1>6. op' \in [Callers -> Operations] /\ \A d \in Callers : Fits(op'[d])
  BY <1>4, <1>5, OpMoves
<1>7. TypeOK'
  BY <1>1, <1>2, <1>3, <1>6, ObjectFacts DEF DeployRegister, StackInv, TypeOK, memVars, dbVars,
     lockVars, ghosts
<1>8. Driven' /\ Numbered'
  <2>1. op' = [op EXCEPT ![c] = p]
    BY <1>4
  <2>2. op[c].kind = "deploy" /\ op[c].pc # "store" =>
           p.kind = "deploy" /\ p.obj = op[c].obj /\ p.pc # "store"
    BY <1>2, <1>4
  <2>3. UNCHANGED <<current, status, used, crashes>>
    BY DEF DeployRegister, memVars
  <2> QED
    BY <2>1, <2>2, <2>3, DrivenKept
<1> QED
  BY <1>6, <1>7, <1>8 DEF StackInv

(* It goes on to the next. *)
LEMMA DeployNextKeeps ==
  ASSUME StackInv, NEW c \in Callers, DeployNext(c)
  PROVE  StackInv'
<1> PICK o, p : o = op[c] /\ p = op'[c]
  OBVIOUS
<1>1. op \in [Callers -> Operations] /\ o \in Operations /\ Fits(o)
  BY DEF StackInv, TypeOK
<1>2. o.kind = "deploy" /\ o.pc = "wait"
  BY <1>1 DEF DeployNext, At
<1>3. o.todo # <<>> /\ First(c) = Head(o.todo) /\ First(c) \in Insts /\ Tail(o.todo) \in Seq(Insts)
      /\ o.todo \in Seq(Insts) /\ o.made \in Seq(Insts)
  BY <1>1, <1>2, ListedTail DEF First, Fits, Building, Operations
<1>4. op' = [op EXCEPT ![c] = p] /\ p \in Operations /\ p.kind = o.kind /\ p.obj = o.obj
      /\ p.pc = "next"
      /\ p.todo = Tail(o.todo) /\ p.made = o.made
  <2>1. PICK t, m : t = Tail(o.todo) /\ m = o.made
    OBVIOUS
  <2>2. Carry(c, "next", t, m) /\ t \in Seq(Insts) /\ m \in Seq(Insts)
    BY <1>1, <1>2, <1>3, <2>1 DEF DeployNext, Carry, Operations
  <2> HIDE <2>1
  <2>3. op' = [op EXCEPT ![c] = p] /\ p \in Operations /\ p.kind = o.kind /\ p.obj = o.obj
        /\ p.pc = "next" /\ p.todo = t /\ p.made = m
    BY <1>1, <2>2, ListMoves DEF PCs
  <2> QED
    BY <2>1, <2>3
<1>5. Fits(p)
  BY <1>1, <1>2, <1>3, <1>4 DEF Fits, Building, Undoing, Reporting, Goals
<1>6. op' \in [Callers -> Operations] /\ \A d \in Callers : Fits(op'[d])
  BY <1>4, <1>5, OpMoves
<1>7. TypeOK'
  BY <1>1, <1>2, <1>3, <1>6, ObjectFacts DEF DeployNext, StackInv, TypeOK, memVars, dbVars,
     watchVars, lockVars, ghosts
<1>8. Driven' /\ Numbered'
  <2>1. op' = [op EXCEPT ![c] = p]
    BY <1>4
  <2>2. op[c].kind = "deploy" /\ op[c].pc # "store" =>
           p.kind = "deploy" /\ p.obj = op[c].obj /\ p.pc # "store"
    BY <1>2, <1>4
  <2>3. UNCHANGED <<current, status, used, crashes>>
    BY DEF DeployNext, memVars
  <2> QED
    BY <2>1, <2>2, <2>3, DrivenKept
<1> QED
  BY <1>6, <1>7, <1>8 DEF StackInv

(* It is through. *)
LEMMA DeployDoneKeeps ==
  ASSUME StackInv, NEW c \in Callers, DeployDone(c)
  PROVE  StackInv'
<1> PICK o, p : o = op[c] /\ p = op'[c]
  OBVIOUS
<1>1. op \in [Callers -> Operations] /\ o \in Operations /\ Fits(o)
  BY DEF StackInv, TypeOK
<1>2. o.kind = "deploy" /\ o.pc = "next"
  BY <1>1 DEF DeployDone, At
<1>3. op' = [op EXCEPT ![c] = p] /\ p \in Operations /\ p.kind = o.kind /\ p.obj = o.obj
      /\ p.pc = "enter"
      /\ p.goal = "running"
  BY <1>1, <1>2, ReportMoves DEF DeployDone, Statuses
<1>4. Fits(p)
  BY <1>1, <1>2, <1>3 DEF Fits, Building, Undoing, Reporting, Goals
<1>5. op' \in [Callers -> Operations] /\ \A d \in Callers : Fits(op'[d])
  BY <1>3, <1>4, OpMoves
<1>6. TypeOK'
  BY <1>1, <1>2, <1>5, ObjectFacts DEF DeployDone, StackInv, TypeOK, memVars, dbVars, watchVars,
     lockVars, ghosts
<1>7. Driven' /\ Numbered'
  <2>1. op' = [op EXCEPT ![c] = p]
    BY <1>3
  <2>2. op[c].kind = "deploy" /\ op[c].pc # "store" =>
           p.kind = "deploy" /\ p.obj = op[c].obj /\ p.pc # "store"
    BY <1>2, <1>3
  <2>3. UNCHANGED <<current, status, used, crashes>>
    BY DEF DeployDone, memVars
  <2> QED
    BY <2>1, <2>2, <2>3, DrivenKept
<1> QED
  BY <1>5, <1>6, <1>7 DEF StackInv

(* It fails. *)
LEMMA DeployFailKeeps ==
  ASSUME StackInv, NEW c \in Callers, DeployFail(c)
  PROVE  StackInv'
<1> PICK o, p : o = op[c] /\ p = op'[c]
  OBVIOUS
<1>1. op \in [Callers -> Operations] /\ o \in Operations /\ Fits(o)
  BY DEF StackInv, TypeOK
<1>2. o.kind = "deploy" /\ o.pc \in Building
  BY <1>1 DEF DeployFail, Building
<1>3. op' = [op EXCEPT ![c] = p] /\ p \in Operations /\ p.kind = o.kind /\ p.obj = o.obj
      /\ p.pc = "rollback"
      /\ p.todo = o.todo /\ p.made = o.made
  BY <1>1, <1>2, GoMoves DEF DeployFail, PCs
<1>4. Fits(p)
  BY <1>1, <1>2, <1>3 DEF Fits, Building, Undoing, Reporting, Goals
<1>5. op' \in [Callers -> Operations] /\ \A d \in Callers : Fits(op'[d])
  BY <1>3, <1>4, OpMoves
<1>6. TypeOK'
  BY <1>1, <1>2, <1>5, ObjectFacts DEF DeployFail, StackInv, TypeOK, memVars, dbVars, watchVars,
     lockVars, ghosts, Building
<1>7. Driven' /\ Numbered'
  <2>1. op' = [op EXCEPT ![c] = p]
    BY <1>3
  <2>2. op[c].kind = "deploy" /\ op[c].pc # "store" =>
           p.kind = "deploy" /\ p.obj = op[c].obj /\ p.pc # "store"
    BY <1>2, <1>3
  <2>3. UNCHANGED <<current, status, used, crashes>>
    BY DEF DeployFail, memVars
  <2> QED
    BY <2>1, <2>2, <2>3, DrivenKept
<1> QED
  BY <1>5, <1>6, <1>7 DEF StackInv

(* The rollback deletes an instance. *)
LEMMA RollbackDeleteKeeps ==
  ASSUME StackInv, NEW c \in Callers, RollbackDelete(c)
  PROVE  StackInv'
<1> PICK o, p : o = op[c] /\ p = op'[c]
  OBVIOUS
<1>1. op \in [Callers -> Operations] /\ o \in Operations /\ Fits(o)
  BY DEF StackInv, TypeOK
<1>2. o.kind = "deploy" /\ o.pc = "rollback" /\ o.made # <<>>
  BY <1>1 DEF RollbackDelete, At
<1>3. o.made # <<>> /\ Head(o.made) \in Insts /\ Tail(o.made) \in Seq(Insts)
      /\ o.todo \in Seq(Insts) /\ o.made \in Seq(Insts)
  BY <1>1, <1>2, ListedTail DEF Fits, Operations
<1>4. op' = [op EXCEPT ![c] = p] /\ p \in Operations /\ p.kind = o.kind /\ p.obj = o.obj
      /\ p.pc = "forget"
      /\ p.todo = o.todo /\ p.made = o.made
  BY <1>1, <1>2, <1>3, GoMoves DEF RollbackDelete, PCs
<1>5. Fits(p)
  BY <1>1, <1>2, <1>3, <1>4 DEF Fits, Building, Undoing, Reporting, Goals
<1>6. op' \in [Callers -> Operations] /\ \A d \in Callers : Fits(op'[d])
  BY <1>4, <1>5, OpMoves
<1>7. TypeOK'
  BY <1>1, <1>2, <1>3, <1>6, ObjectFacts DEF RollbackDelete, StackInv, TypeOK, memVars, dbVars,
     watchVars, lockVars, ghosts
<1>8. Driven' /\ Numbered'
  <2>1. op' = [op EXCEPT ![c] = p]
    BY <1>4
  <2>2. op[c].kind = "deploy" /\ op[c].pc # "store" =>
           p.kind = "deploy" /\ p.obj = op[c].obj /\ p.pc # "store"
    BY <1>2, <1>4
  <2>3. UNCHANGED <<current, status, used, crashes>>
    BY DEF RollbackDelete, memVars
  <2> QED
    BY <2>1, <2>2, <2>3, DrivenKept
<1> QED
  BY <1>6, <1>7, <1>8 DEF StackInv

(* It forgets it. *)
LEMMA RollbackForgetKeeps ==
  ASSUME StackInv, NEW c \in Callers, RollbackForget(c)
  PROVE  StackInv'
<1> PICK o, p : o = op[c] /\ p = op'[c]
  OBVIOUS
<1>1. op \in [Callers -> Operations] /\ o \in Operations /\ Fits(o)
  BY DEF StackInv, TypeOK
<1>2. o.kind = "deploy" /\ o.pc = "forget"
  BY <1>1 DEF RollbackForget, At
<1>3. o.made # <<>> /\ Head(o.made) \in Insts /\ Tail(o.made) \in Seq(Insts)
      /\ o.todo \in Seq(Insts) /\ o.made \in Seq(Insts)
  BY <1>1, <1>2, ListedTail DEF Fits, Operations
<1>4. \A q \in Seq(Insts), i \in Insts : Without(q, i) \in Seq(Insts)
  BY <1>1, <1>2, <1>3, ListedWithout
<1>5. op' = [op EXCEPT ![c] = p] /\ p \in Operations /\ p.kind = o.kind /\ p.obj = o.obj
      /\ p.pc = "forgetRow"
      /\ p.todo = o.todo /\ p.made = o.made
  BY <1>1, <1>2, <1>3, <1>4, GoMoves DEF RollbackForget, PCs
<1>6. Fits(p)
  BY <1>1, <1>2, <1>3, <1>4, <1>5 DEF Fits, Building, Undoing, Reporting, Goals
<1>7. op' \in [Callers -> Operations] /\ \A d \in Callers : Fits(op'[d])
  BY <1>5, <1>6, OpMoves
<1>8. TypeOK'
  BY <1>1, <1>2, <1>3, <1>4, <1>7, ObjectFacts DEF RollbackForget, StackInv, TypeOK, dbVars,
     lockVars, ghosts
<1>9. Driven' /\ Numbered'
  <2>1. op' = [op EXCEPT ![c] = p]
    BY <1>5
  <2>2. op[c].kind = "deploy" /\ op[c].pc # "store" =>
           p.kind = "deploy" /\ p.obj = op[c].obj /\ p.pc # "store"
    BY <1>2, <1>5
  <2>3. UNCHANGED <<current, status, used, crashes>>
    BY DEF RollbackForget
  <2> QED
    BY <2>1, <2>2, <2>3, DrivenKept
<1> QED
  BY <1>7, <1>8, <1>9 DEF StackInv

(* And deletes its row. *)
LEMMA RollbackForgetRowKeeps ==
  ASSUME StackInv, NEW c \in Callers, RollbackForgetRow(c)
  PROVE  StackInv'
<1> PICK o, p : o = op[c] /\ p = op'[c]
  OBVIOUS
<1>1. op \in [Callers -> Operations] /\ o \in Operations /\ Fits(o)
  BY DEF StackInv, TypeOK
<1>2. o.kind = "deploy" /\ o.pc = "forgetRow"
  BY <1>1 DEF RollbackForgetRow, At
<1>3. o.made # <<>> /\ Head(o.made) \in Insts /\ Tail(o.made) \in Seq(Insts)
      /\ o.todo \in Seq(Insts) /\ o.made \in Seq(Insts)
  BY <1>1, <1>2, ListedTail DEF Fits, Operations
<1>4. \A q \in Seq(Insts), i \in Insts : Without(q, i) \in Seq(Insts)
  BY <1>1, <1>2, <1>3, ListedWithout
<1>5. op' = [op EXCEPT ![c] = p] /\ p \in Operations /\ p.kind = o.kind /\ p.obj = o.obj
      /\ p.pc = "rollback"
      /\ p.todo = o.todo /\ p.made = Tail(o.made)
  <2>1. PICK t, m : t = o.todo /\ m = Tail(o.made)
    OBVIOUS
  <2>2. Carry(c, "rollback", t, m) /\ t \in Seq(Insts) /\ m \in Seq(Insts)
    BY <1>1, <1>2, <1>3, <1>4, <2>1 DEF RollbackForgetRow, Carry, Operations
  <2> HIDE <2>1
  <2>3. op' = [op EXCEPT ![c] = p] /\ p \in Operations /\ p.kind = o.kind /\ p.obj = o.obj
        /\ p.pc = "rollback" /\ p.todo = t /\ p.made = m
    BY <1>1, <2>2, ListMoves DEF PCs
  <2> QED
    BY <2>1, <2>3
<1>6. Fits(p)
  BY <1>1, <1>2, <1>3, <1>4, <1>5 DEF Fits, Building, Undoing, Reporting, Goals
<1>7. op' \in [Callers -> Operations] /\ \A d \in Callers : Fits(op'[d])
  BY <1>5, <1>6, OpMoves
<1>8. TypeOK'
  <2>1. instRows' = instRows \/ instRows' = Without(instRows, Head(o.made))
    BY <1>1, <1>2, <1>3, <1>4, <1>7 DEF RollbackForgetRow
  <2>2. instRows' \in Seq(Insts)
    BY <1>1, <1>2, <1>3, <1>4, <1>7, <2>1 DEF StackInv, TypeOK
  <2> QED
    BY <1>1, <1>2, <1>3, <1>4, <1>7, <2>2 DEF RollbackForgetRow, StackInv, TypeOK, memVars,
       watchVars, lockVars, ghosts
<1>9. Driven' /\ Numbered'
  <2>1. op' = [op EXCEPT ![c] = p]
    BY <1>5
  <2>2. op[c].kind = "deploy" /\ op[c].pc # "store" =>
           p.kind = "deploy" /\ p.obj = op[c].obj /\ p.pc # "store"
    BY <1>2, <1>5
  <2>3. UNCHANGED <<current, status, used, crashes>>
    BY DEF RollbackForgetRow, memVars
  <2> QED
    BY <2>1, <2>2, <2>3, DrivenKept
<1> QED
  BY <1>7, <1>8, <1>9 DEF StackInv

(* The rollback is through. *)
LEMMA RollbackDoneKeeps ==
  ASSUME StackInv, NEW c \in Callers, RollbackDone(c)
  PROVE  StackInv'
<1> PICK o, p : o = op[c] /\ p = op'[c]
  OBVIOUS
<1>1. op \in [Callers -> Operations] /\ o \in Operations /\ Fits(o)
  BY DEF StackInv, TypeOK
<1>2. o.kind = "deploy" /\ o.pc = "rollback"
  BY <1>1 DEF RollbackDone, At
<1>3. op' = [op EXCEPT ![c] = p] /\ p \in Operations /\ p.kind = o.kind /\ p.obj = o.obj
      /\ p.pc = "enter"
      /\ p.goal = "failed"
  BY <1>1, <1>2, ReportMoves DEF RollbackDone, Statuses
<1>4. Fits(p)
  BY <1>1, <1>2, <1>3 DEF Fits, Building, Undoing, Reporting, Goals
<1>5. op' \in [Callers -> Operations] /\ \A d \in Callers : Fits(op'[d])
  BY <1>3, <1>4, OpMoves
<1>6. TypeOK'
  BY <1>1, <1>2, <1>5, ObjectFacts DEF RollbackDone, StackInv, TypeOK, memVars, dbVars,
     watchVars, lockVars, ghosts
<1>7. Driven' /\ Numbered'
  <2>1. op' = [op EXCEPT ![c] = p]
    BY <1>3
  <2>2. op[c].kind = "deploy" /\ op[c].pc # "store" =>
           p.kind = "deploy" /\ p.obj = op[c].obj /\ p.pc # "store"
    BY <1>2, <1>3
  <2>3. UNCHANGED <<current, status, used, crashes>>
    BY DEF RollbackDone, memVars
  <2> QED
    BY <2>1, <2>2, <2>3, DrivenKept
<1> QED
  BY <1>5, <1>6, <1>7 DEF StackInv

(* StopStack stops an instance. *)
LEMMA StopOneKeeps ==
  ASSUME StackInv, NEW c \in Callers, StopOne(c)
  PROVE  StackInv'
<1> PICK o, p : o = op[c] /\ p = op'[c]
  OBVIOUS
<1>1. op \in [Callers -> Operations] /\ o \in Operations /\ Fits(o)
  BY DEF StackInv, TypeOK
<1>2. o.kind = "stop" /\ o.pc = "loop" /\ o.todo # <<>>
  BY <1>1 DEF StopOne, At
<1>3. o.todo # <<>> /\ Last(c) = o.todo[Len(o.todo)] /\ Last(c) \in Insts
  BY <1>1, <1>2, ListedFront DEF Last, Operations
<1>4. op' = [op EXCEPT ![c] = p] /\ p \in Operations /\ p.kind = o.kind /\ p.obj = o.obj
      /\ p.pc = "loop"
      /\ p.todo = Front(o.todo)
  <2>1. Backward(c, TRUE) \/ Backward(c, FALSE)
    BY DEF StopOne
  <2> QED
    BY <1>1, <1>2, <1>3, <2>1, BackwardMoves
<1>5. Fits(p)
  BY <1>1, <1>2, <1>3, <1>4 DEF Fits, Building, Undoing, Reporting, Goals
<1>6. op' \in [Callers -> Operations] /\ \A d \in Callers : Fits(op'[d])
  BY <1>4, <1>5, OpMoves
<1>7. TypeOK'
  BY <1>1, <1>2, <1>3, <1>6, ObjectFacts DEF StopOne, StackInv, TypeOK, memVars, dbVars,
     lockVars, ghosts
<1>8. Driven' /\ Numbered'
  <2>1. op' = [op EXCEPT ![c] = p]
    BY <1>4
  <2>2. op[c].kind = "deploy" /\ op[c].pc # "store" =>
           p.kind = "deploy" /\ p.obj = op[c].obj /\ p.pc # "store"
    BY <1>2, <1>4
  <2>3. UNCHANGED <<current, status, used, crashes>>
    BY DEF StopOne, memVars
  <2> QED
    BY <2>1, <2>2, <2>3, DrivenKept
<1> QED
  BY <1>6, <1>7, <1>8 DEF StackInv

(* StopStack is through. *)
LEMMA StopDoneKeeps ==
  ASSUME StackInv, NEW c \in Callers, StopDone(c)
  PROVE  StackInv'
<1> PICK o, p : o = op[c] /\ p = op'[c]
  OBVIOUS
<1>1. op \in [Callers -> Operations] /\ o \in Operations /\ Fits(o)
  BY DEF StackInv, TypeOK
<1>2. o.kind = "stop" /\ o.pc = "loop"
  BY <1>1 DEF StopDone, At
<1>3. op' = [op EXCEPT ![c] = p] /\ p \in Operations /\ p.kind = o.kind /\ p.obj = o.obj
      /\ p.pc = "enter" /\ p.goal \in {"degraded", "stopped"}
  <2>1. Report(c, "degraded") \/ Report(c, "stopped")
    BY DEF StopDone
  <2> QED
    BY <1>1, <1>2, <2>1, ReportMoves DEF Statuses
<1>4. Fits(p)
  BY <1>1, <1>2, <1>3 DEF Fits, Building, Undoing, Reporting, Goals
<1>5. op' \in [Callers -> Operations] /\ \A d \in Callers : Fits(op'[d])
  BY <1>3, <1>4, OpMoves
<1>6. TypeOK'
  BY <1>1, <1>2, <1>5, ObjectFacts DEF StopDone, StackInv, TypeOK, memVars, dbVars, watchVars,
     lockVars, ghosts
<1>7. Driven' /\ Numbered'
  <2>1. op' = [op EXCEPT ![c] = p]
    BY <1>3
  <2>2. op[c].kind = "deploy" /\ op[c].pc # "store" =>
           p.kind = "deploy" /\ p.obj = op[c].obj /\ p.pc # "store"
    BY <1>2, <1>3
  <2>3. UNCHANGED <<current, status, used, crashes>>
    BY DEF StopDone, memVars
  <2> QED
    BY <2>1, <2>2, <2>3, DrivenKept
<1> QED
  BY <1>5, <1>6, <1>7 DEF StackInv

(* StartStack starts an instance, and may end. *)
LEMMA StartOneKeeps ==
  ASSUME StackInv, NEW c \in Callers, StartOne(c)
  PROVE  StackInv'
<1> PICK o, p : o = op[c] /\ p = op'[c]
  OBVIOUS
<1>1. op \in [Callers -> Operations] /\ o \in Operations /\ Fits(o)
  BY DEF StackInv, TypeOK
<1>2. o.kind = "start" /\ o.pc = "loop" /\ o.todo # <<>>
  BY <1>1 DEF StartOne, At
<1>3. o.todo # <<>> /\ First(c) = Head(o.todo) /\ First(c) \in Insts /\ Tail(o.todo) \in Seq(Insts)
      /\ o.todo \in Seq(Insts) /\ o.made \in Seq(Insts)
  BY <1>1, <1>2, ListedTail DEF First, Fits, Building, Operations
<1>4. op' = [op EXCEPT ![c] = p] /\ p \in Operations /\ (p = Idle \/ (p.kind = "start"
      /\ p.pc = "loop"))
  <2>1. CASE Finish(c)
    BY <1>1, <1>2, <1>3, <2>1, FinishMoves
  <2>2. CASE op' = [op EXCEPT ![c].todo = Tail(@)]
    <3>1. Carry(c, "loop", Tail(o.todo), o.made)
      BY <1>1, <1>2, <1>3, <2>2 DEF Carry, Operations
    <3> QED
      BY <1>1, <1>2, <1>3, <3>1, ListMoves DEF PCs
  <2> QED
    BY <2>1, <2>2 DEF StartOne
<1>5. Fits(p)
  BY <1>1, <1>2, <1>3, <1>4, IdleFits DEF Fits, Building, Undoing, Reporting, Goals
<1>6. op' \in [Callers -> Operations] /\ \A d \in Callers : Fits(op'[d])
  BY <1>4, <1>5, OpMoves
<1>7. TypeOK'
  BY <1>1, <1>2, <1>3, <1>6, ObjectFacts DEF StartOne, StackInv, TypeOK, memVars, dbVars,
     lockVars, ghosts
<1>8. Driven' /\ Numbered'
  <2>1. op' = [op EXCEPT ![c] = p]
    BY <1>4
  <2>2. op[c].kind = "deploy" /\ op[c].pc # "store" =>
           p.kind = "deploy" /\ p.obj = op[c].obj /\ p.pc # "store"
    BY <1>2, <1>4
  <2>3. UNCHANGED <<current, status, used, crashes>>
    BY DEF StartOne, memVars
  <2> QED
    BY <2>1, <2>2, <2>3, DrivenKept
<1> QED
  BY <1>6, <1>7, <1>8 DEF StackInv

(* StartStack fails. *)
LEMMA StartFailKeeps ==
  ASSUME StackInv, NEW c \in Callers, StartFail(c)
  PROVE  StackInv'
<1> PICK o, p : o = op[c] /\ p = op'[c]
  OBVIOUS
<1>1. op \in [Callers -> Operations] /\ o \in Operations /\ Fits(o)
  BY DEF StackInv, TypeOK
<1>2. o.kind = "start" /\ o.pc = "loop"
  BY <1>1 DEF StartFail, At
<1>3. op' = [op EXCEPT ![c] = p] /\ p \in Operations /\ p.kind = o.kind /\ p.obj = o.obj
      /\ p.pc = "enter"
      /\ p.goal = "degraded"
  BY <1>1, <1>2, ReportMoves DEF StartFail, Statuses
<1>4. Fits(p)
  BY <1>1, <1>2, <1>3 DEF Fits, Building, Undoing, Reporting, Goals
<1>5. op' \in [Callers -> Operations] /\ \A d \in Callers : Fits(op'[d])
  BY <1>3, <1>4, OpMoves
<1>6. TypeOK'
  BY <1>1, <1>2, <1>5, ObjectFacts DEF StartFail, StackInv, TypeOK, memVars, dbVars, watchVars,
     lockVars, ghosts
<1>7. Driven' /\ Numbered'
  <2>1. op' = [op EXCEPT ![c] = p]
    BY <1>3
  <2>2. op[c].kind = "deploy" /\ op[c].pc # "store" =>
           p.kind = "deploy" /\ p.obj = op[c].obj /\ p.pc # "store"
    BY <1>2, <1>3
  <2>3. UNCHANGED <<current, status, used, crashes>>
    BY DEF StartFail, memVars
  <2> QED
    BY <2>1, <2>2, <2>3, DrivenKept
<1> QED
  BY <1>5, <1>6, <1>7 DEF StackInv

(* StartStack is through. *)
LEMMA StartDoneKeeps ==
  ASSUME StackInv, NEW c \in Callers, StartDone(c)
  PROVE  StackInv'
<1> PICK o, p : o = op[c] /\ p = op'[c]
  OBVIOUS
<1>1. op \in [Callers -> Operations] /\ o \in Operations /\ Fits(o)
  BY DEF StackInv, TypeOK
<1>2. o.kind = "start" /\ o.pc = "loop"
  BY <1>1 DEF StartDone, At
<1>3. op' = [op EXCEPT ![c] = p] /\ p \in Operations /\ p.kind = o.kind /\ p.obj = o.obj
      /\ p.pc = "enter"
      /\ p.goal = "running"
  BY <1>1, <1>2, ReportMoves DEF StartDone, Statuses
<1>4. Fits(p)
  BY <1>1, <1>2, <1>3 DEF Fits, Building, Undoing, Reporting, Goals
<1>5. op' \in [Callers -> Operations] /\ \A d \in Callers : Fits(op'[d])
  BY <1>3, <1>4, OpMoves
<1>6. TypeOK'
  BY <1>1, <1>2, <1>5, ObjectFacts DEF StartDone, StackInv, TypeOK, memVars, dbVars, watchVars,
     lockVars, ghosts
<1>7. Driven' /\ Numbered'
  <2>1. op' = [op EXCEPT ![c] = p]
    BY <1>3
  <2>2. op[c].kind = "deploy" /\ op[c].pc # "store" =>
           p.kind = "deploy" /\ p.obj = op[c].obj /\ p.pc # "store"
    BY <1>2, <1>3
  <2>3. UNCHANGED <<current, status, used, crashes>>
    BY DEF StartDone, memVars
  <2> QED
    BY <2>1, <2>2, <2>3, DrivenKept
<1> QED
  BY <1>5, <1>6, <1>7 DEF StackInv

(* DestroyStack deletes an instance. *)
LEMMA DestroyOneKeeps ==
  ASSUME StackInv, NEW c \in Callers, DestroyOne(c)
  PROVE  StackInv'
<1> PICK o, p : o = op[c] /\ p = op'[c]
  OBVIOUS
<1>1. op \in [Callers -> Operations] /\ o \in Operations /\ Fits(o)
  BY DEF StackInv, TypeOK
<1>2. o.kind = "destroy" /\ o.pc = "loop" /\ o.todo # <<>>
  BY <1>1 DEF DestroyOne, At
<1>3. o.todo # <<>> /\ Last(c) = o.todo[Len(o.todo)] /\ Last(c) \in Insts
  BY <1>1, <1>2, ListedFront DEF Last, Operations
<1>4. op' = [op EXCEPT ![c] = p] /\ p \in Operations /\ p.kind = o.kind /\ p.obj = o.obj
      /\ p.pc = "loop"
      /\ p.todo = Front(o.todo)
  <2>1. Backward(c, TRUE) \/ Backward(c, FALSE)
    BY DEF DestroyOne
  <2> QED
    BY <1>1, <1>2, <1>3, <2>1, BackwardMoves
<1>5. Fits(p)
  BY <1>1, <1>2, <1>3, <1>4 DEF Fits, Building, Undoing, Reporting, Goals
<1>6. op' \in [Callers -> Operations] /\ \A d \in Callers : Fits(op'[d])
  BY <1>4, <1>5, OpMoves
<1>7. TypeOK'
  BY <1>1, <1>2, <1>3, <1>6, ObjectFacts DEF DestroyOne, StackInv, TypeOK, memVars, dbVars,
     watchVars, lockVars, ghosts
<1>8. Driven' /\ Numbered'
  <2>1. op' = [op EXCEPT ![c] = p]
    BY <1>4
  <2>2. op[c].kind = "deploy" /\ op[c].pc # "store" =>
           p.kind = "deploy" /\ p.obj = op[c].obj /\ p.pc # "store"
    BY <1>2, <1>4
  <2>3. UNCHANGED <<current, status, used, crashes>>
    BY DEF DestroyOne, memVars
  <2> QED
    BY <2>1, <2>2, <2>3, DrivenKept
<1> QED
  BY <1>6, <1>7, <1>8 DEF StackInv

(* DestroyStack has been through all. *)
LEMMA DestroyDoneKeeps ==
  ASSUME StackInv, NEW c \in Callers, DestroyDone(c)
  PROVE  StackInv'
<1> PICK o, p : o = op[c] /\ p = op'[c]
  OBVIOUS
<1>1. op \in [Callers -> Operations] /\ o \in Operations /\ Fits(o)
  BY DEF StackInv, TypeOK
<1>2. o.kind = "destroy" /\ o.pc = "loop"
  BY <1>1 DEF DestroyDone, At
<1>3. op' = [op EXCEPT ![c] = p] /\ p \in Operations /\ p.kind = o.kind /\ p.obj = o.obj
      /\ (p.pc = "deleteRow" \/ (p.pc = "enter" /\ p.goal = "degraded"))
  <2>1. Report(c, "degraded") \/ Go(c, "deleteRow")
    BY DEF DestroyDone
  <2> QED
    BY <1>1, <1>2, <2>1, ReportMoves, GoMoves DEF Statuses, PCs
<1>4. Fits(p)
  BY <1>1, <1>2, <1>3 DEF Fits, Building, Undoing, Reporting, Goals
<1>5. op' \in [Callers -> Operations] /\ \A d \in Callers : Fits(op'[d])
  BY <1>3, <1>4, OpMoves
<1>6. TypeOK'
  BY <1>1, <1>2, <1>5, ObjectFacts DEF DestroyDone, StackInv, TypeOK, memVars, dbVars, watchVars,
     lockVars, ghosts
<1>7. Driven' /\ Numbered'
  <2>1. op' = [op EXCEPT ![c] = p]
    BY <1>3
  <2>2. op[c].kind = "deploy" /\ op[c].pc # "store" =>
           p.kind = "deploy" /\ p.obj = op[c].obj /\ p.pc # "store"
    BY <1>2, <1>3
  <2>3. UNCHANGED <<current, status, used, crashes>>
    BY DEF DestroyDone, memVars
  <2> QED
    BY <2>1, <2>2, <2>3, DrivenKept
<1> QED
  BY <1>5, <1>6, <1>7 DEF StackInv

(* It deletes the record. *)
LEMMA DestroyRowKeeps ==
  ASSUME StackInv, NEW c \in Callers, DestroyRow(c)
  PROVE  StackInv'
<1> PICK o, p : o = op[c] /\ p = op'[c]
  OBVIOUS
<1>1. op \in [Callers -> Operations] /\ o \in Operations /\ Fits(o)
  BY DEF StackInv, TypeOK
<1>2. o.kind = "destroy" /\ o.pc = "deleteRow"
  BY <1>1 DEF DestroyRow, At
<1>3. op' = [op EXCEPT ![c] = p] /\ p \in Operations /\ (p = Idle \/ (p.kind = "destroy"
      /\ p.pc = "unmap"))
  <2>1. Finish(c) \/ Go(c, "unmap")
    BY DEF DestroyRow
  <2> QED
    BY <1>1, <1>2, <2>1, FinishMoves, GoMoves DEF PCs
<1>4. Fits(p)
  BY <1>1, <1>2, <1>3, IdleFits DEF Fits, Building, Undoing, Reporting, Goals
<1>5. op' \in [Callers -> Operations] /\ \A d \in Callers : Fits(op'[d])
  BY <1>3, <1>4, OpMoves
<1>6. TypeOK'
  <2>1. row' \in Statuses /\ instRows' \in Seq(Insts)
    BY ListedEmpty DEF DestroyRow, StackInv, TypeOK, dbVars, Statuses
  <2> QED
    BY <1>1, <1>2, <1>5, <2>1 DEF DestroyRow, StackInv, TypeOK, memVars, dbVars, watchVars,
       lockVars, ghosts
<1>7. Driven' /\ Numbered'
  <2>1. op' = [op EXCEPT ![c] = p]
    BY <1>3
  <2>2. op[c].kind = "deploy" /\ op[c].pc # "store" =>
           p.kind = "deploy" /\ p.obj = op[c].obj /\ p.pc # "store"
    BY <1>2, <1>3
  <2>3. UNCHANGED <<current, status, used, crashes>>
    BY DEF DestroyRow, memVars
  <2> QED
    BY <2>1, <2>2, <2>3, DrivenKept
<1> QED
  BY <1>5, <1>6, <1>7 DEF StackInv

(* It takes the stack out of the map. *)
LEMMA DestroyUnmapKeeps ==
  ASSUME StackInv, NEW c \in Callers, DestroyUnmap(c)
  PROVE  StackInv'
<1> PICK o, p : o = op[c] /\ p = op'[c]
  OBVIOUS
<1>1. op \in [Callers -> Operations] /\ o \in Operations /\ Fits(o)
  BY DEF StackInv, TypeOK
<1>2. o.kind = "destroy" /\ o.pc = "unmap"
  BY <1>1 DEF DestroyUnmap, At
<1>3. op' = [op EXCEPT ![c] = p] /\ p \in Operations /\ p.kind = "destroy" /\ p.pc = "dropLock"
  <2>1. lockEntry \in Mutexes \cup {0} /\ Hold(c, "dropLock", lockEntry)
    BY DEF DestroyUnmap, Hold, StackInv, TypeOK
  <2> QED
    BY <1>1, <1>2, <2>1, RefMoves DEF PCs
<1>4. Fits(p)
  BY <1>1, <1>2, <1>3 DEF Fits, Building, Undoing, Reporting, Goals
<1>5. op' \in [Callers -> Operations] /\ \A d \in Callers : Fits(op'[d])
  BY <1>3, <1>4, OpMoves
<1>6. TypeOK'
  BY <1>1, <1>2, <1>5, ObjectFacts DEF DestroyUnmap, StackInv, TypeOK, dbVars, watchVars,
     lockVars, ghosts
<1>7. Driven' /\ Numbered'
  BY <1>6 DEF DestroyUnmap, Driven, Numbered, StackInv, TypeOK, Objects
<1> QED
  BY <1>5, <1>6, <1>7 DEF StackInv

(* It drops the status mutex. *)
LEMMA DestroyDropLockKeeps ==
  ASSUME StackInv, NEW c \in Callers, DestroyDropLock(c)
  PROVE  StackInv'
<1> PICK o, p : o = op[c] /\ p = op'[c]
  OBVIOUS
<1>1. op \in [Callers -> Operations] /\ o \in Operations /\ Fits(o)
  BY DEF StackInv, TypeOK
<1>2. o.kind = "destroy" /\ o.pc = "dropLock"
  BY <1>1 DEF DestroyDropLock, At
<1>3. op' = [op EXCEPT ![c] = p] /\ p \in Operations /\ p = Idle /\ p.kind = "none"
  BY <1>1, <1>2, FinishMoves DEF DestroyDropLock
<1>4. Fits(p)
  BY <1>1, <1>2, <1>3, IdleFits DEF Fits, Building, Undoing, Reporting, Goals
<1>5. op' \in [Callers -> Operations] /\ \A d \in Callers : Fits(op'[d])
  BY <1>3, <1>4, OpMoves
<1>6. TypeOK'
  BY <1>1, <1>2, <1>5, ObjectFacts DEF DestroyDropLock, StackInv, TypeOK, memVars, dbVars,
     watchVars, ghosts
<1>7. Driven' /\ Numbered'
  <2>1. op' = [op EXCEPT ![c] = p]
    BY <1>3
  <2>2. op[c].kind = "deploy" /\ op[c].pc # "store" =>
           p.kind = "deploy" /\ p.obj = op[c].obj /\ p.pc # "store"
    BY <1>2, <1>3
  <2>3. UNCHANGED <<current, status, used, crashes>>
    BY DEF DestroyDropLock, memVars
  <2> QED
    BY <2>1, <2>2, <2>3, DrivenKept
<1> QED
  BY <1>5, <1>6, <1>7 DEF StackInv

(* updateStackStatus looks up the mutex. *)
LEMMA StatusEnterKeeps ==
  ASSUME StackInv, NEW c \in Callers, StatusEnter(c)
  PROVE  StackInv'
<1> PICK o, p : o = op[c] /\ p = op'[c]
  OBVIOUS
<1>1. op \in [Callers -> Operations] /\ o \in Operations /\ Fits(o)
  BY DEF StackInv, TypeOK
<1>2. o.pc = "enter"
  BY <1>1 DEF StatusEnter
<1>3. op' = [op EXCEPT ![c] = p] /\ p \in Operations /\ p.kind = o.kind /\ p.obj = o.obj
      /\ p.pc = "apply" /\ p.goal = o.goal /\ p.todo = o.todo /\ p.made = o.made /\ p.ref # 0
  <2>1. PICK m \in Mutexes : Hold(c, "apply", m)
    BY DEF StatusEnter, Hold, StackInv, TypeOK
  <2> QED
    BY <1>1, <1>2, <2>1, RefMoves, ObjectFacts DEF PCs
<1>4. Fits(p)
  BY <1>1, <1>2, <1>3 DEF Fits, Building, Undoing, Reporting, Goals
<1>5. op' \in [Callers -> Operations] /\ \A d \in Callers : Fits(op'[d])
  BY <1>3, <1>4, OpMoves
<1>6. TypeOK'
  BY <1>1, <1>2, <1>5, ObjectFacts DEF StatusEnter, StackInv, TypeOK, memVars, dbVars, watchVars,
     ghosts
<1>7. Driven' /\ Numbered'
  <2>1. op' = [op EXCEPT ![c] = p]
    BY <1>3
  <2>2. op[c].kind = "deploy" /\ op[c].pc # "store" =>
           p.kind = "deploy" /\ p.obj = op[c].obj /\ p.pc # "store"
    BY <1>2, <1>3
  <2>3. UNCHANGED <<current, status, used, crashes>>
    BY DEF StatusEnter, memVars
  <2> QED
    BY <2>1, <2>2, <2>3, DrivenKept
<1> QED
  BY <1>5, <1>6, <1>7 DEF StackInv

(* It stores the status. *)
LEMMA StatusStoreKeeps ==
  ASSUME StackInv, NEW c \in Callers, StatusStore(c)
  PROVE  StackInv'
<1> PICK o, p : o = op[c] /\ p = op'[c]
  OBVIOUS
<1>1. op \in [Callers -> Operations] /\ o \in Operations /\ Fits(o)
  BY DEF StackInv, TypeOK
<1>2. o.pc = "store"
  BY <1>1 DEF StatusStore
<1>3. op' = [op EXCEPT ![c] = p] /\ p \in Operations /\ p = Idle /\ p.kind = "none"
  BY <1>1, <1>2, FinishMoves DEF StatusStore
<1>4. Fits(p)
  BY <1>1, <1>2, <1>3, IdleFits DEF Fits, Building, Undoing, Reporting, Goals
<1>5. op' \in [Callers -> Operations] /\ \A d \in Callers : Fits(op'[d])
  BY <1>3, <1>4, OpMoves
<1>6. TypeOK'
  BY <1>1, <1>2, <1>5, ObjectFacts DEF StatusStore, StackInv, TypeOK, memVars, watchVars,
     Operations
<1>7. Driven' /\ Numbered'
  <2>1. op' = [op EXCEPT ![c] = p]
    BY <1>3
  <2>2. op[c].kind = "deploy" /\ op[c].pc # "store" =>
           p.kind = "deploy" /\ p.obj = op[c].obj /\ p.pc # "store"
    BY <1>2, <1>3
  <2>3. UNCHANGED <<current, status, used, crashes>>
    BY DEF StatusStore, memVars
  <2> QED
    BY <2>1, <2>2, <2>3, DrivenKept
<1> QED
  BY <1>5, <1>6, <1>7 DEF StackInv

(* It writes the status in memory. *)
LEMMA StatusApplyKeeps ==
  ASSUME StackInv, NEW c \in Callers, StatusApply(c)
  PROVE  StackInv'
<1> PICK o, p : o = op[c] /\ p = op'[c]
  OBVIOUS
<1>1. op \in [Callers -> Operations] /\ o \in Operations /\ Fits(o)
  BY DEF StackInv, TypeOK
<1>2. o.pc = "apply"
  BY <1>1 DEF StatusApply
<1>3. o.ref \in Mutexes /\ o.goal \in Statuses /\ o.goal # "deploying"
  BY <1>1, <1>2, GoalFacts, ObjectFacts DEF Fits, Statuses, Operations, Reporting
<1>4. op' = [op EXCEPT ![c] = p] /\ p \in Operations /\ p.kind = o.kind /\ p.obj = o.obj
      /\ p.pc = "store" /\ p.goal = o.goal /\ p.ref = o.ref
  BY <1>1, <1>2, <1>3, GoMoves DEF StatusApply, PCs
<1>5. Fits(p)
  BY <1>1, <1>2, <1>3, <1>4 DEF Fits, Building, Undoing, Reporting, Goals
<1>6. op' \in [Callers -> Operations] /\ \A d \in Callers : Fits(op'[d])
  BY <1>4, <1>5, OpMoves
<1>7. TypeOK'
  BY <1>1, <1>2, <1>3, <1>6, ObjectFacts DEF StatusApply, StackInv, TypeOK, dbVars, watchVars,
     Operations
<1>8. Driven' /\ Numbered'
  BY <1>1, <1>2, <1>3, <1>7 DEF StatusApply, Driven, Numbered, StackInv, TypeOK
<1> QED
  BY <1>6, <1>7, <1>8 DEF StackInv

(* DeployStack makes the record, or gives up. *)
LEMMA DeployPersistKeeps ==
  ASSUME StackInv, NEW c \in Callers, DeployPersist(c)
  PROVE  StackInv'
<1> PICK o, p : o = op[c] /\ p = op'[c]
  OBVIOUS
<1>1. op \in [Callers -> Operations] /\ o \in Operations /\ Fits(o)
  BY DEF StackInv, TypeOK
<1>2. o.kind = "deploy" /\ o.pc = "persist"
  BY <1>1 DEF DeployPersist, At
<1>3. op' = [op EXCEPT ![c] = p] /\ p \in Operations /\ (p = Idle \/ (p.kind = "deploy" /\ p.obj = o.obj
      /\ p.pc = "next"))
  <2>1. Finish(c) \/ Go(c, "next")
    BY DEF DeployPersist
  <2> QED
    BY <1>1, <1>2, <2>1, FinishMoves, GoMoves DEF PCs
<1>4. Fits(p)
  BY <1>1, <1>2, <1>3, IdleFits DEF Fits, Building, Undoing, Reporting, Goals
<1>5. op' \in [Callers -> Operations] /\ \A d \in Callers : Fits(op'[d])
  BY <1>3, <1>4, OpMoves
<1>6. TypeOK'
  BY <1>1, <1>2, <1>5, ObjectFacts DEF DeployPersist, StackInv, TypeOK, watchVars, lockVars,
     Statuses
<1>7. Driven' /\ Numbered'
  <2>1. CASE Go(c, "next") /\ UNCHANGED current
    <3>1. p.kind = "deploy" /\ p.obj = o.obj /\ p.pc = "next"
      BY <1>1, <1>2, <2>1, GoMoves DEF PCs
    <3>2. UNCHANGED <<current, status, used, crashes>>
      BY <2>1 DEF DeployPersist
    <3> QED
      BY <1>3, <3>1, <3>2, DrivenKept
  <2>2. CASE current' = 0
    BY <2>2, <1>6 DEF DeployPersist, Driven, Numbered, StackInv, TypeOK, Objects
  <2> QED
    BY <2>1, <2>2 DEF DeployPersist
<1> QED
  BY <1>5, <1>6, <1>7 DEF StackInv

(* DeployStack claims the name. *)
LEMMA DeployClaimKeeps ==
  ASSUME StackInv, NEW c \in Callers, DeployClaim(c)
  PROVE  StackInv'
<1> PICK p : p = op'[c]
  OBVIOUS
<1>1. op \in [Callers -> Operations] /\ Order \in Seq(Insts) /\ <<>> \in Seq(Insts)
  BY OrderListsInsts, ListedEmpty DEF StackInv, TypeOK
<1>2. used + 1 \in Objects /\ used + 1 # 0 /\ used + 1 <= MaxDeploys + crashes
  <2>1. used \in Nat /\ crashes \in 0..MaxCrashes /\ used < MaxDeploys + crashes
    BY ObjectFacts, BoundsAreNat DEF DeployClaim, StackInv, TypeOK
  <2> QED
    BY <2>1, BoundsAreNat DEF Objects
<1>3. PICK n : n = used + 1
  OBVIOUS
<1>4. /\ op' = [op EXCEPT ![c] = p] /\ "deploy" \in Kinds
      /\ p = [Idle EXCEPT !.kind = "deploy", !.pc = "persist", !.obj = n, !.todo = Order]
  BY <1>1, <1>3 DEF DeployClaim
<1>5. n \in Objects /\ n # 0 /\ n <= MaxDeploys + crashes
  BY <1>2, <1>3
<1>6. used' = n /\ current' = n /\ status' = [status EXCEPT ![n] = "deploying"]
      /\ UNCHANGED <<list, health, dbVars, host, watchVars, lockVars, crashes, ghosts>>
  BY <1>3 DEF DeployClaim
<1> HIDE <1>3
<1>7. /\ op' = [op EXCEPT ![c] = p] /\ p \in Operations
      /\ p.kind = "deploy" /\ p.pc = "persist" /\ p.obj = n
  BY <1>1, <1>4, <1>5 DEF Idle, Operations, PCs, Statuses
<1>8. Fits(p)
  BY <1>5, <1>7 DEF Fits, Building, Undoing, Reporting
<1>9. op' \in [Callers -> Operations] /\ \A d \in Callers : Fits(op'[d])
  BY <1>7, <1>8, OpMoves
<1>10. TypeOK'
  BY <1>5, <1>6, <1>9 DEF StackInv, TypeOK, dbVars, watchVars, lockVars, ghosts, Statuses
<1>11. Driven' /\ Numbered'
  BY <1>1, <1>5, <1>6, <1>7, ObjectFacts DEF Driven, Numbered
<1> QED
  BY <1>9, <1>10, <1>11 DEF StackInv

(* A stop, start or destroy begins. *)
LEMMA BeginKeeps ==
  ASSUME StackInv, NEW c \in Callers, NEW kind \in Kinds, Begin(c, kind)
  PROVE  StackInv'
<1> PICK p : p = op'[c]
  OBVIOUS
<1>1. /\ op \in [Callers -> Operations] /\ <<>> \in Seq(Insts)
      /\ current \in Objects /\ list[current] \in Seq(Insts)
      /\ kind \in {"stop", "start", "destroy"} /\ op[c].kind = "none"
  BY ListedEmpty DEF StackInv, TypeOK, Begin, Fits
<1>2. /\ op' = [op EXCEPT ![c] = p]
      /\ p = [Idle EXCEPT !.kind = kind, !.pc = "loop", !.todo = list[current]]
  BY <1>1 DEF Begin
<1>3. /\ op' = [op EXCEPT ![c] = p] /\ p \in Operations
      /\ p.kind = kind /\ p.pc = "loop" /\ p.obj = 0
  BY <1>1, <1>2 DEF Idle, Operations, PCs, Statuses
<1>4. Fits(p)
  BY <1>1, <1>3 DEF Fits, Building, Undoing, Reporting
<1>5. op' \in [Callers -> Operations] /\ \A d \in Callers : Fits(op'[d])
  BY <1>3, <1>4, OpMoves
<1>6. TypeOK'
  BY <1>1, <1>5 DEF Begin, StackInv, TypeOK, dbVars, watchVars, lockVars, ghosts, Statuses
<1>7. Driven' /\ Numbered'
  <2>1. CASE kind = "destroy"
    BY <1>1, <2>1 DEF Begin, Driven, Numbered, StackInv, TypeOK
  <2>2. CASE kind # "destroy"
    <3>1. UNCHANGED <<current, status, used, crashes>>
      BY <2>2 DEF Begin
    <3> QED
      BY <1>1, <1>3, <3>1, DrivenKept
  <2> QED
    BY <2>1, <2>2
<1> QED
  BY <1>5, <1>6, <1>7 DEF StackInv

(* A health change never makes a stack "deploying". *)
LEMMA HealthStatusFacts ==
  ASSUME NEW old \in Statuses, NEW hs
  PROVE  HealthStatus(old, hs) \in Statuses /\ (HealthStatus(old, hs) = "deploying" => old = "deploying")
BY DEF HealthStatus, Statuses

(* onHealthChange. *)
LEMMA HealthChangeKeeps ==
  ASSUME StackInv, NEW i \in Insts, NEW h \in Healths, HealthChange(i, h)
  PROVE  StackInv'
<1>1. current \in Objects /\ status[current] \in Statuses
  BY DEF StackInv, TypeOK, HealthChange
<1>2. PICK s : s = HealthStatus(status[current], [k \in Listed(list[current]) |-> health'[k]])
  OBVIOUS
<1>3. s \in Statuses /\ (s = "deploying" => status[current] = "deploying")
  BY <1>1, <1>2, HealthStatusFacts
<1>4. status' = [status EXCEPT ![current] = s]
  BY <1>2 DEF HealthChange
<1> HIDE <1>2
<1>5. TypeOK'
  BY <1>1, <1>3, <1>4 DEF HealthChange, StackInv, TypeOK, dbVars, watchVars, lockVars, ghosts
<1>6. Driven' /\ Numbered'
  BY <1>1, <1>3, <1>4 DEF HealthChange, StackInv, TypeOK, Driven, Numbered
<1> QED
  BY <1>5, <1>6 DEF HealthChange, StackInv

(* A restart. *)
LEMMA CrashAndLoadKeeps ==
  ASSUME StackInv, CrashAndLoad
  PROVE  StackInv'
<1>1. op' \in [Callers -> Operations] /\ \A d \in Callers : Fits(op'[d])
  BY IdleFits DEF CrashAndLoad
<1>2. /\ used + 1 \in Objects /\ used + 1 <= MaxDeploys + (crashes + 1)
      /\ used \in Int /\ crashes + 1 \in 0..MaxCrashes /\ crashes + 1 > 0 /\ used >= 0
  BY ObjectFacts, BoundsAreNat DEF CrashAndLoad, StackInv, TypeOK, Numbered, Objects
<1>3. /\ crashes' = crashes + 1 /\ instRows \in Seq(Insts) /\ row \in Statuses
      /\ instRows' = instRows /\ row' = row /\ host' = host
  BY DEF CrashAndLoad, StackInv, TypeOK, dbVars
<1>4. /\ current' \in Objects \cup {0} /\ used' \in Objects \cup {0}
      /\ status' \in [Objects -> Statuses] /\ list' \in [Objects -> Seq(Insts)]
  BY <1>2, <1>3 DEF CrashAndLoad, StackInv, TypeOK
<1>5. strays' \subseteq Insts
  <2>1. ASSUME NEW c \in Callers PROVE InDeployment(c) \subseteq Insts
    <3>1. op[c].todo \in Seq(Insts)
      BY DEF StackInv, TypeOK, Operations
    <3> QED
      BY <3>1, ListedTail DEF InDeployment, First
  <2> QED
    BY <2>1 DEF CrashAndLoad, StackInv, TypeOK
<1>6. TypeOK'
  BY <1>1, <1>2, <1>3, <1>4, <1>5 DEF CrashAndLoad, StackInv, TypeOK, Healths
<1>7. Driven' /\ Numbered'
  BY <1>2, <1>3, ObjectFacts, BoundsAreNat DEF CrashAndLoad, StackInv, TypeOK, Driven, Numbered
<1> QED
  BY <1>1, <1>6, <1>7 DEF StackInv

(* LoadStacks has run. *)
LEMMA InitStackInv == Init => StackInv
<1> SUFFICES ASSUME Init PROVE StackInv
  OBVIOUS
<1>1. current \in Objects \cup {0} /\ current \in {0, 1} /\ row \in {"none", "running"}
  BY RestoredNeedsObject, BoundsAreNat DEF Init, Objects
<1>2. instRows \in Seq(Insts) /\ <<>> \in Seq(Insts)
  BY OrderListsInsts, ListedEmpty DEF Init
<1>3. op \in [Callers -> Operations] /\ \A c \in Callers : Fits(op[c])
  BY IdleFits DEF Init
<1>4. TypeOK
  <2>1. status \in [Objects -> Statuses] /\ list \in [Objects -> Seq(Insts)] /\ row \in Statuses
    BY <1>1, <1>2 DEF Init, Statuses
  <2>2. health \in [Insts -> Healths]
    BY DEF Init, Healths
  <2>3. host \in [Insts -> {"absent", "stopped", "running"}]
    <3>1. CASE Restored
      BY <3>1 DEF Init
    <3>2. CASE ~Restored
      BY <3>2 DEF Init
    <3> QED
      BY <3>1, <3>2
  <2>4. crashes \in 0..MaxCrashes /\ applied \in Statuses /\ unsaved \in BOOLEAN
    <3>1. crashes = 0 /\ applied = row /\ unsaved = FALSE
      BY DEF Init
    <3>2. 0 \in 0..MaxCrashes
      BY BoundsAreNat
    <3>3. unsaved \in BOOLEAN
      BY <3>1
    <3> QED
      BY <2>1, <3>1, <3>2, <3>3
  <2> QED
    BY <1>1, <1>2, <1>3, <2>1, <2>2, <2>3, <2>4 DEF Init, TypeOK
<1>5. Driven /\ Numbered
  BY <1>1, <1>4, RestoredNeedsObject, BoundsAreNat DEF Init, Driven, Numbered, TypeOK
<1> QED
  BY <1>3, <1>4, <1>5 DEF StackInv

(* Every step keeps StackInv. *)
LEMMA StepStackInv ==
  ASSUME StackInv, [Next]_vars
  PROVE  StackInv'
<1>1. CASE UNCHANGED vars
  <2>1. /\ UNCHANGED <<current, used, status, list, health, row, instRows, host, services, checks>>
        /\ UNCHANGED <<loops, lockEntry, lockHeld, op, crashes, applied, unsaved, strays>>
    BY <1>1 DEF vars, memVars, dbVars, watchVars, lockVars, ghosts
  <2>2. TypeOK'
    BY <2>1 DEF StackInv, TypeOK
  <2>3. Driven' /\ Numbered' /\ \A c \in Callers : Fits(op'[c])
    BY <2>1 DEF StackInv, Driven, Numbered
  <2> QED
    BY <2>2, <2>3 DEF StackInv
<1>2. ASSUME NEW c \in Callers, CallerStep(c) PROVE StackInv'
  BY <1>2, DeployPersistKeeps, DeployCreateKeeps, DeployStartKeeps, DeployListKeeps,
     DeployRowKeeps, DeployRegisterKeeps, DeployNextKeeps, DeployDoneKeeps, DeployFailKeeps,
     RollbackDeleteKeeps, RollbackForgetKeeps, RollbackForgetRowKeeps, RollbackDoneKeeps,
     StopOneKeeps, StopDoneKeeps, StartOneKeeps, StartFailKeeps, StartDoneKeeps, DestroyOneKeeps,
     DestroyDoneKeeps, DestroyRowKeeps, DestroyUnmapKeeps, DestroyDropLockKeeps,
     StatusEnterKeeps, StatusApplyKeeps, StatusStoreKeeps DEF CallerStep
<1> QED
  BY <1>1, <1>2, DeployClaimKeeps, BeginKeeps, HealthChangeKeeps, CrashAndLoadKeeps DEF Next

(* Type correctness, whatever callers, failures and crashes do. *)
THEOREM StackTypeCorrect == Spec => []TypeOK
<1>1. StackInv => TypeOK
  BY DEF StackInv
<1> QED
  BY <1>1, InitStackInv, StepStackInv, PTL DEF Spec

(* DeployingIsDriven, whatever overlaps: a stack of this process is         *)
(* "deploying" only while a DeployStack call on that very object has not    *)
(* stored its outcome; every early return goes through updateStackStatus.   *)
THEOREM StackDeployingIsDriven == Spec => []DeployingIsDriven
<1>1. StackInv => DeployingIsDriven
  BY DEF StackInv, Driven, DeployingIsDriven
<1> QED
  BY <1>1, InitStackInv, StepStackInv, PTL DEF Spec

-----------------------------------------------------------------------------
(* Stops, starts and destroys that overlap, on a stack that is on record. *)

LEMMA MineFacts ==
  ASSUME StackInv
  PROVE  Mine \subseteq Insts
<1>1. current # 0 => list[current] \in Seq(Insts)
  BY DEF StackInv, TypeOK
<1> QED
  BY <1>1, ListedIn DEF Mine

(* Moves outside updateStackStatus keep the record's invariant when they    *)
(* bring no instance back that was gone.                                    *)
LEMMA RecordKept ==
  ASSUME StackInv, RecordInv, NEW c \in Callers,
         \A d \in Callers \ {c} : op'[d] = op[d],
         UNCHANGED <<current, list, row, lockEntry, lockHeld, applied, unsaved>>,
         \A i \in Insts : host[i] = "absent" => host'[i] = "absent",
         op[c].pc # "store", op'[c].pc \notin {"apply", "store"},
         row # "none" /\ op'[c].kind = "destroy" =>
            /\ op'[c].pc = "loop" /\ ~op'[c].bad =>
                  \A i \in Mine : i \in Listed(op'[c].todo) \/ host'[i] = "absent"
            /\ op'[c].pc = "deleteRow" => \A i \in Mine : host'[i] = "absent"
            /\ op'[c].pc \notin {"unmap", "dropLock"}
  PROVE  RecordInv'
<1> SUFFICES ASSUME row # "none" PROVE RecordInv'
  BY DEF RecordInv
<1>1. current # 0 /\ OneStatusMutex /\ OneWriter /\ DestroysSee /\ StatusPersistedInOrder
  BY DEF RecordInv
<1>2. Mine' = Mine /\ Mine \subseteq Insts
  BY MineFacts DEF Mine
<1>3. OneStatusMutex'
  BY <1>1 DEF OneStatusMutex
<1>4. OneWriter'
  BY <1>1 DEF OneWriter
<1>5. DestroysSee'
  <2> SUFFICES ASSUME NEW d \in Callers, op'[d].kind = "destroy"
               PROVE  /\ op'[d].pc = "loop" /\ ~op'[d].bad =>
                            \A i \in Mine : i \in Listed(op'[d].todo) \/ host'[i] = "absent"
                      /\ op'[d].pc = "deleteRow" => \A i \in Mine : host'[i] = "absent"
                      /\ op'[d].pc \notin {"unmap", "dropLock"}
    BY <1>2 DEF DestroysSee
  <2>1. CASE d = c
    BY <2>1
  <2>2. CASE d # c
    BY <1>1, <1>2, <2>2 DEF DestroysSee
  <2> QED
    BY <2>1, <2>2
<1>6. StatusPersistedInOrder'
  BY <1>1 DEF StatusPersistedInOrder
<1> QED
  BY <1>1, <1>3, <1>4, <1>5, <1>6 DEF RecordInv

(* A destroy begins with all that is listed. *)
LEMMA BeginRecord ==
  ASSUME StackInv, RecordInv, NEW c \in Callers, NEW kind \in Kinds, Begin(c, kind)
  PROVE  RecordInv'
<1>1. op \in [Callers -> Operations] /\ current # 0 /\ op[c].pc = "idle"
  BY DEF StackInv, TypeOK, Begin
<1>2. /\ \A d \in Callers \ {c} : op'[d] = op[d]
      /\ op'[c] = [Idle EXCEPT !.kind = kind, !.pc = "loop", !.todo = list[current]]
  BY <1>1 DEF Begin
<1>3. op'[c].pc = "loop" /\ op'[c].todo = list[current]
  BY <1>2 DEF Idle
<1>4. Mine = Listed(op'[c].todo)
  BY <1>1, <1>3 DEF Mine
<1>5. UNCHANGED <<current, list, row, lockEntry, lockHeld, applied, unsaved, host>>
  BY DEF Begin, dbVars, lockVars, ghosts
<1> HIDE <1>2
<1>6. \A d \in Callers \ {c} : op'[d] = op[d]
  BY <1>2
<1> QED
  BY <1>1, <1>3, <1>4, <1>5, <1>6, RecordKept

(* StopStack brings nothing back. *)
LEMMA StopOneRecord ==
  ASSUME StackInv, RecordInv, NEW c \in Callers, StopOne(c)
  PROVE  RecordInv'
<1>1. op \in [Callers -> Operations] /\ op[c].kind = "stop" /\ op[c].pc = "loop" /\ op[c].todo # <<>>
  BY DEF StackInv, TypeOK, StopOne, At
<1>2. Backward(c, TRUE) \/ Backward(c, FALSE)
  BY DEF StopOne
<1>3. op'[c].pc = "loop" /\ op'[c].kind = "stop" /\ \A d \in Callers \ {c} : op'[d] = op[d]
  BY <1>1, <1>2, BackwardMoves
<1>4. UNCHANGED <<current, list, row, lockEntry, lockHeld, applied, unsaved>>
  BY DEF StopOne, memVars, dbVars, lockVars, ghosts
<1>5. \A i \in Insts : host[i] = "absent" => host'[i] = "absent"
  BY DEF StopOne, StackInv, TypeOK
<1> QED
  BY <1>1, <1>3, <1>4, <1>5, RecordKept

LEMMA StopDoneRecord ==
  ASSUME StackInv, RecordInv, NEW c \in Callers, StopDone(c)
  PROVE  RecordInv'
<1>1. op \in [Callers -> Operations] /\ op[c].kind = "stop" /\ op[c].pc = "loop"
  BY DEF StackInv, TypeOK, StopDone, At
<1>2. Report(c, "degraded") \/ Report(c, "stopped")
  BY DEF StopDone
<1>3. op'[c].pc = "enter" /\ op'[c].kind = "stop" /\ \A d \in Callers \ {c} : op'[d] = op[d]
  BY <1>1, <1>2, ReportMoves DEF Statuses
<1>4. UNCHANGED <<current, list, row, lockEntry, lockHeld, applied, unsaved, host>>
  BY DEF StopDone, memVars, dbVars, lockVars, ghosts
<1> QED
  BY <1>1, <1>3, <1>4, RecordKept

(* StartStack starts only what is there. *)
LEMMA StartOneRecord ==
  ASSUME StackInv, RecordInv, NEW c \in Callers, StartOne(c)
  PROVE  RecordInv'
<1>1. op \in [Callers -> Operations] /\ op[c].kind = "start" /\ op[c].pc = "loop" /\ op[c].todo # <<>>
      /\ op[c].todo \in Seq(Insts) /\ op[c].made \in Seq(Insts)
  BY DEF StackInv, TypeOK, StartOne, At, Operations
<1>2. op'[c].kind \in {"start", "none"} /\ op'[c].pc \in {"loop", "idle"}
      /\ \A d \in Callers \ {c} : op'[d] = op[d]
  <2>1. CASE Finish(c)
    BY <1>1, <2>1, FinishMoves
  <2>2. CASE op' = [op EXCEPT ![c].todo = Tail(@)]
    BY <1>1, <2>2 DEF Operations
  <2> QED
    BY <2>1, <2>2 DEF StartOne
<1>3. UNCHANGED <<current, list, row, lockEntry, lockHeld, applied, unsaved>>
  BY DEF StartOne, memVars, dbVars, lockVars, ghosts
<1>4. \A i \in Insts : host[i] = "absent" => host'[i] = "absent"
  BY DEF StartOne, StackInv, TypeOK
<1> QED
  BY <1>1, <1>2, <1>3, <1>4, RecordKept

LEMMA StartEndRecord ==
  ASSUME StackInv, RecordInv, NEW c \in Callers, StartFail(c) \/ StartDone(c)
  PROVE  RecordInv'
<1>1. op \in [Callers -> Operations] /\ op[c].kind = "start" /\ op[c].pc = "loop"
  BY DEF StackInv, TypeOK, StartFail, StartDone, At
<1>2. Report(c, "degraded") \/ Report(c, "running")
  BY DEF StartFail, StartDone
<1>3. op'[c].pc = "enter" /\ op'[c].kind = "start" /\ \A d \in Callers \ {c} : op'[d] = op[d]
  BY <1>1, <1>2, ReportMoves DEF Statuses
<1>4. UNCHANGED <<current, list, row, lockEntry, lockHeld, applied, unsaved, host>>
  BY DEF StartFail, StartDone, memVars, dbVars, lockVars, ghosts
<1> QED
  BY <1>1, <1>3, <1>4, RecordKept

(* A destroy that has had no failure so far has deleted what it has passed. *)
LEMMA DestroyOneRecord ==
  ASSUME StackInv, RecordInv, NEW c \in Callers, DestroyOne(c)
  PROVE  RecordInv'
<1>1. op \in [Callers -> Operations] /\ op[c].kind = "destroy" /\ op[c].pc = "loop" /\ op[c].todo # <<>>
      /\ op[c].todo \in Seq(Insts) /\ op[c].bad \in BOOLEAN
  BY DEF StackInv, TypeOK, DestroyOne, At, Operations
<1>2. Last(c) \in Insts /\ Listed(op[c].todo) = {Last(c)} \cup Listed(Front(op[c].todo))
  BY <1>1, ListedFront DEF Last
<1>3. UNCHANGED <<current, list, row, lockEntry, lockHeld, applied, unsaved>>
  BY DEF DestroyOne, memVars, dbVars, lockVars, ghosts
<1>4. \A i \in Insts : host[i] = "absent" => host'[i] = "absent"
  BY <1>2 DEF DestroyOne, StackInv, TypeOK
<1>5. Backward(c, TRUE) \/ (Backward(c, FALSE) /\ host'[Last(c)] = "absent")
  BY <1>2 DEF DestroyOne, StackInv, TypeOK
<1>6. CASE Backward(c, TRUE)
  <2>1. op'[c].pc = "loop" /\ op'[c].bad /\ \A d \in Callers \ {c} : op'[d] = op[d]
    BY <1>1, <1>6, BackwardMoves
  <2> QED
    BY <1>1, <1>3, <1>4, <2>1, RecordKept
<1>7. CASE Backward(c, FALSE) /\ host'[Last(c)] = "absent"
  <2>1. /\ op'[c].pc = "loop" /\ op'[c].todo = Front(op[c].todo) /\ op'[c].bad = op[c].bad
        /\ \A d \in Callers \ {c} : op'[d] = op[d]
    BY <1>1, <1>7, BackwardMoves
  <2>2. ASSUME row # "none", ~op[c].bad, NEW i \in Mine
        PROVE  i \in Listed(op'[c].todo) \/ host'[i] = "absent"
    <3>1. i \in Listed(op[c].todo) \/ host[i] = "absent"
      BY <1>1, <2>2 DEF RecordInv, DestroysSee
    <3>2. i \in Insts
      BY MineFacts
    <3> QED
      BY <1>2, <1>4, <1>7, <2>1, <3>1, <3>2
  <2>3. row # "none" /\ ~op'[c].bad => \A i \in Mine : i \in Listed(op'[c].todo) \/ host'[i] = "absent"
    BY <2>1, <2>2
  <2> QED
    BY <1>1, <1>3, <1>4, <2>1, <2>3, RecordKept
<1> QED
  BY <1>5, <1>6, <1>7

(* It goes on to delete the record only without a failure. *)
LEMMA DestroyDoneRecord ==
  ASSUME StackInv, RecordInv, NEW c \in Callers, DestroyDone(c)
  PROVE  RecordInv'
<1>1. op \in [Callers -> Operations] /\ op[c].kind = "destroy" /\ op[c].pc = "loop" /\ op[c].todo = <<>>
  BY DEF StackInv, TypeOK, DestroyDone, At
<1>2. UNCHANGED <<current, list, row, lockEntry, lockHeld, applied, unsaved, host>>
  BY DEF DestroyDone, memVars, dbVars, lockVars, ghosts
<1>3. CASE op[c].bad
  <2>1. op'[c].pc = "enter" /\ \A d \in Callers \ {c} : op'[d] = op[d]
    BY <1>1, <1>3, ReportMoves DEF DestroyDone, Statuses
  <2> QED
    BY <1>1, <1>2, <2>1, RecordKept
<1>4. CASE ~op[c].bad
  <2>1. op'[c].pc = "deleteRow" /\ \A d \in Callers \ {c} : op'[d] = op[d]
    BY <1>1, <1>4, GoMoves DEF DestroyDone, PCs
  <2>2. row # "none" => \A i \in Mine : host'[i] = "absent"
    BY <1>1, <1>2, <1>4, ListedEmpty DEF RecordInv, DestroysSee
  <2> QED
    BY <1>1, <1>2, <2>1, <2>2, RecordKept
<1> QED
  BY <1>3, <1>4

(* The steps after it are taken without a record. *)
LEMMA DestroyEndRecord ==
  ASSUME StackInv, RecordInv, NEW c \in Callers,
         DestroyRow(c) \/ DestroyUnmap(c) \/ DestroyDropLock(c)
  PROVE  RecordInv'
<1> SUFFICES ASSUME row' # "none" PROVE RecordInv'
  BY DEF RecordInv
<1>1. op \in [Callers -> Operations] /\ op[c].kind = "destroy"
      /\ op[c].pc \in {"deleteRow", "unmap", "dropLock"}
  BY DEF StackInv, TypeOK, DestroyRow, DestroyUnmap, DestroyDropLock, At
<1>2. row # "none"
  BY DEF DestroyRow, DestroyUnmap, DestroyDropLock, dbVars
<1>3. op[c].pc = "deleteRow"
  BY <1>1, <1>2 DEF RecordInv, DestroysSee
<1>4. Finish(c) /\ UNCHANGED <<current, list, row, lockEntry, lockHeld, applied, unsaved, host>>
  BY <1>3 DEF DestroyRow, DestroyUnmap, DestroyDropLock, At, memVars, dbVars, lockVars, ghosts
<1>5. op'[c].pc = "idle" /\ op'[c].kind = "none" /\ \A d \in Callers \ {c} : op'[d] = op[d]
  BY <1>1, <1>4, FinishMoves
<1> QED
  BY <1>3, <1>4, <1>5, RecordKept

(* Whoever is at the mutex already holds its entry, so a new one is made    *)
(* only when nobody is.                                                     *)
LEMMA StatusEnterRecord ==
  ASSUME StackInv, RecordInv, NEW c \in Callers, StatusEnter(c)
  PROVE  RecordInv'
<1> SUFFICES ASSUME row # "none" PROVE RecordInv'
  BY DEF RecordInv, StatusEnter, dbVars
<1>1. current # 0 /\ OneStatusMutex /\ OneWriter /\ DestroysSee /\ StatusPersistedInOrder
  BY DEF RecordInv
<1>2. op \in [Callers -> Operations] /\ op[c].pc = "enter"
  BY DEF StackInv, TypeOK, StatusEnter
<1>3. PICK m \in Mutexes : /\ Hold(c, "apply", m) /\ lockEntry' = m
                           /\ lockEntry # 0 => m = lockEntry
  BY DEF StatusEnter, Hold, StackInv, TypeOK
<1>4. /\ op'[c].pc = "apply" /\ op'[c].ref = m /\ op'[c].kind = op[c].kind
      /\ \A d \in Callers \ {c} : op'[d] = op[d]
  BY <1>2, <1>3, RefMoves DEF PCs
<1>5. UNCHANGED <<current, list, row, lockHeld, applied, unsaved, host>> /\ Mine' = Mine
  BY DEF StatusEnter, memVars, dbVars, ghosts, Mine
<1>6. OneStatusMutex'
  BY <1>1, <1>3, <1>4, ObjectFacts DEF OneStatusMutex
<1>7. OneWriter'
  BY <1>1, <1>2, <1>4, <1>5 DEF OneWriter
<1>8. DestroysSee'
  BY <1>1, <1>4, <1>5 DEF DestroysSee
<1>9. StatusPersistedInOrder'
  BY <1>1, <1>2, <1>4, <1>5 DEF StatusPersistedInOrder
<1> QED
  BY <1>1, <1>5, <1>6, <1>7, <1>8, <1>9 DEF RecordInv

(* The mutex is everybody's, so nobody else is storing. *)
LEMMA StatusApplyRecord ==
  ASSUME StackInv, RecordInv, NEW c \in Callers, StatusApply(c)
  PROVE  RecordInv'
<1> SUFFICES ASSUME row # "none" PROVE RecordInv'
  BY DEF RecordInv, StatusApply, dbVars
<1>1. current # 0 /\ OneStatusMutex /\ OneWriter /\ DestroysSee /\ StatusPersistedInOrder
  BY DEF RecordInv
<1>2. op \in [Callers -> Operations] /\ op[c].pc = "apply" /\ op[c].ref \notin lockHeld
  BY DEF StackInv, TypeOK, StatusApply
<1>3. /\ op'[c].pc = "store" /\ op'[c].ref = op[c].ref /\ op'[c].kind = op[c].kind
      /\ op'[c].goal = op[c].goal /\ \A d \in Callers \ {c} : op'[d] = op[d]
  BY <1>2, GoMoves DEF StatusApply, PCs
<1>4. /\ UNCHANGED <<current, list, row, lockEntry, host>> /\ Mine' = Mine
      /\ lockHeld' = lockHeld \cup {op[c].ref} /\ applied' = op[c].goal
  BY <1>1 DEF StatusApply, dbVars, Mine
<1>5. OneStatusMutex'
  BY <1>1, <1>2, <1>3, <1>4 DEF OneStatusMutex
<1>6. OneWriter'
  <2>1. \A d \in Callers : op[d].pc # "store"
    BY <1>1, <1>2 DEF OneStatusMutex, OneWriter
  <2> QED
    BY <1>3, <1>4, <2>1 DEF OneWriter
<1>7. DestroysSee'
  BY <1>1, <1>3, <1>4 DEF DestroysSee
<1>8. StatusPersistedInOrder'
  BY <1>3 DEF StatusPersistedInOrder
<1> QED
  BY <1>1, <1>4, <1>5, <1>6, <1>7, <1>8 DEF RecordInv

(* What is stored is the status written last. *)
LEMMA StatusStoreRecord ==
  ASSUME StackInv, RecordInv, NEW c \in Callers, StatusStore(c)
  PROVE  RecordInv'
<1>1. op \in [Callers -> Operations] /\ op[c].pc = "store" /\ op[c].goal \in Statuses
  BY DEF StackInv, TypeOK, StatusStore, Operations
<1>2. PICK ok \in DbOutcomes : /\ row' = IF ok /\ row # "none" THEN op[c].goal ELSE row
                               /\ unsaved' = ~ok
  BY DEF StatusStore
<1> SUFFICES ASSUME row # "none" PROVE RecordInv'
  BY <1>2 DEF RecordInv
<1>3. current # 0 /\ OneStatusMutex /\ OneWriter /\ DestroysSee
  BY DEF RecordInv
<1>4. op'[c].pc = "idle" /\ op'[c].kind = "none" /\ \A d \in Callers \ {c} : op'[d] = op[d]
  BY <1>1, FinishMoves DEF StatusStore
<1>5. UNCHANGED <<current, list, lockEntry, host, applied>> /\ Mine' = Mine
  BY DEF StatusStore, memVars, Mine
<1>6. OneStatusMutex'
  BY <1>3, <1>4, <1>5 DEF OneStatusMutex
<1>7. OneWriter'
  BY <1>1, <1>3, <1>4 DEF OneWriter
<1>8. DestroysSee'
  BY <1>3, <1>4, <1>5 DEF DestroysSee
<1>9. StatusPersistedInOrder'
  <2>1. ASSUME ~unsaved' PROVE row' = applied
    <3>1. ok = TRUE
      BY <1>2, <2>1, OutcomesAreBool
    <3> QED
      BY <1>1, <1>2, <1>3, <3>1 DEF OneWriter
  <2> QED
    BY <1>5, <2>1 DEF StatusPersistedInOrder
<1> QED
  BY <1>3, <1>5, <1>6, <1>7, <1>8, <1>9 DEF RecordInv

(* onHealthChange touches neither record nor mutex. *)
LEMMA OthersRecord ==
  ASSUME StackInv, RecordInv,
         (\E i \in Insts, h \in Healths : HealthChange(i, h)) \/ UNCHANGED vars
  PROVE  RecordInv'
<1>1. UNCHANGED <<current, list, row, lockEntry, lockHeld, applied, unsaved, op, host>> /\ Mine' = Mine
  BY DEF HealthChange, vars, memVars, dbVars, lockVars, ghosts, Mine
<1>2. OneStatusMutex => OneStatusMutex'
  BY <1>1 DEF OneStatusMutex
<1>3. OneWriter => OneWriter'
  BY <1>1 DEF OneWriter
<1>4. DestroysSee => DestroysSee'
  BY <1>1 DEF DestroysSee
<1>5. StatusPersistedInOrder => StatusPersistedInOrder'
  BY <1>1 DEF StatusPersistedInOrder
<1> QED
  BY <1>1, <1>2, <1>3, <1>4, <1>5 DEF RecordInv

(* After LoadStacks memory and row agree. *)
LEMMA CrashAndLoadRecord ==
  ASSUME StackInv, CrashAndLoad
  PROVE  RecordInv'
<1>1. \A c \in Callers : op'[c].pc = "idle" /\ op'[c].kind = "none"
  BY DEF CrashAndLoad, Idle
<1>2. row' # "none" => current' # 0 /\ row' = applied'
  BY ObjectFacts DEF CrashAndLoad, dbVars, StackInv, TypeOK
<1>3. OneStatusMutex' /\ OneWriter' /\ DestroysSee'
  BY <1>1 DEF OneStatusMutex, OneWriter, DestroysSee
<1> QED
  BY <1>2, <1>3 DEF RecordInv, StatusPersistedInOrder

(* So they do at the start. *)
LEMMA InitRecord == Init => RecordInv
<1> SUFFICES ASSUME Init PROVE RecordInv
  OBVIOUS
<1>1. \A c \in Callers : op[c].pc = "idle" /\ op[c].kind = "none"
  BY DEF Init, Idle
<1>2. row # "none" => current # 0 /\ row = applied
  BY DEF Init
<1>3. OneStatusMutex /\ OneWriter /\ DestroysSee
  BY <1>1 DEF OneStatusMutex, OneWriter, DestroysSee
<1> QED
  BY <1>2, <1>3 DEF RecordInv, StatusPersistedInOrder

(* Without deployments no caller is one. *)
LEMMA NoDeployments ==
  ASSUME StackInv, "deploy" \notin Kinds
  PROVE  \A c \in Callers : op[c].kind # "deploy"
BY DEF StackInv, TypeOK, Operations

(* Every step keeps RecordInv. *)
LEMMA StepRecord ==
  ASSUME StackInv, RecordInv, "deploy" \notin Kinds, [Next]_vars
  PROVE  RecordInv'
<1>1. ASSUME NEW c \in Callers, DeployClaim(c) PROVE FALSE
  BY <1>1 DEF DeployClaim
<1>2. ASSUME NEW c \in Callers, CallerStep(c) PROVE RecordInv'
  <2>1. op[c].kind # "deploy"
    BY NoDeployments
  <2>2. \/ StopOne(c) \/ StopDone(c) \/ StartOne(c) \/ StartFail(c) \/ StartDone(c)
        \/ DestroyOne(c) \/ DestroyDone(c) \/ DestroyRow(c) \/ DestroyUnmap(c)
        \/ DestroyDropLock(c) \/ StatusEnter(c) \/ StatusApply(c) \/ StatusStore(c)
    BY <1>2, <2>1 DEF CallerStep, DeployPersist, DeployCreate, DeployStart, DeployList,
       DeployRow, DeployRegister, DeployNext, DeployDone, DeployFail, RollbackDelete,
       RollbackForget, RollbackForgetRow, RollbackDone, At
  <2> QED
    BY <2>2, StopOneRecord, StopDoneRecord, StartOneRecord, StartEndRecord, DestroyOneRecord,
       DestroyDoneRecord, DestroyEndRecord, StatusEnterRecord, StatusApplyRecord,
       StatusStoreRecord
<1> QED
  BY <1>1, <1>2, BeginRecord, OthersRecord, CrashAndLoadRecord DEF Next

(* StatusPersistedInOrder for any number of stops, starts and destroys at   *)
(* once on a restored stack, with failing statements and crashes: whoever   *)
(* is at the status mutex has the entry every later caller finds, so one    *)
(* status at a time is on its way to the row.  A deployment is excluded:    *)
(* CreateStack inserts "deploying" outside updateStackStatus and its mutex, *)
(* after an overlapping stop may have written another status in memory.     *)
THEOREM StackStatusPersistedInOrder ==
  ASSUME "deploy" \notin Kinds
  PROVE  Spec => []StatusPersistedInOrder
<1>1. RecordInv => StatusPersistedInOrder
  BY DEF RecordInv, StatusPersistedInOrder
<1>2. Init => StackInv /\ RecordInv
  BY InitStackInv, InitRecord
<1>3. StackInv /\ RecordInv /\ [Next]_vars => StackInv' /\ RecordInv'
  BY StepStackInv, StepRecord
<1> QED
  BY <1>1, <1>2, <1>3, PTL DEF Spec

(* RecordOutlivesInstances under the same overlaps: DestroyStack deletes    *)
(* the record only when every instance it lists is gone, because a start    *)
(* cannot bring back an instance that is gone.                              *)
THEOREM StackRecordOutlivesInstances ==
  ASSUME "deploy" \notin Kinds
  PROVE  Spec => RecordOutlivesInstances
<1>1. Init => StackInv /\ RecordInv
  BY InitStackInv, InitRecord
<1>2. StackInv /\ RecordInv /\ [Next]_vars => StackInv' /\ RecordInv'
  BY StepStackInv, StepRecord
<1>3. StackInv /\ RecordInv /\ [Next]_vars =>
         [row # "none" /\ row' = "none" => \A i \in Mine : host[i] = "absent"]_vars
  <2> SUFFICES ASSUME StackInv, RecordInv, Next, row # "none", row' = "none"
               PROVE  \A i \in Mine : host[i] = "absent"
    OBVIOUS
  <2>1. ASSUME NEW c \in Callers, DestroyRow(c) PROVE \A i \in Mine : host[i] = "absent"
    BY <2>1 DEF DestroyRow, At, RecordInv, DestroysSee
  <2>2. ASSUME NEW c \in Callers, StatusStore(c) PROVE row' # "none"
    <3>1. op[c] \in Operations /\ Fits(op[c]) /\ op[c].pc = "store"
      BY <2>2 DEF StackInv, TypeOK, StatusStore
    <3>2. op[c].goal # "none"
      BY <3>1, GoalFacts DEF Reporting
    <3> QED
      BY <2>2, <3>2 DEF StatusStore
  <2>3. ASSUME NEW c \in Callers, CallerStep(c) PROVE DestroyRow(c) \/ StatusStore(c)
    BY <2>3 DEF CallerStep, DeployPersist, DeployCreate, DeployStart, DeployList, DeployRow,
       DeployRegister, DeployNext, DeployDone, DeployFail, RollbackDelete, RollbackForget,
       RollbackForgetRow, RollbackDone, StopOne, StopDone, StartOne, StartFail, StartDone,
       DestroyOne, DestroyDone, DestroyUnmap, DestroyDropLock, StatusEnter, StatusApply, dbVars
  <2>4. \E c \in Callers : CallerStep(c)
    BY DEF Next, DeployClaim, Begin, HealthChange, CrashAndLoad, dbVars
  <2> QED
    BY <2>1, <2>2, <2>3, <2>4
<1> QED
  BY <1>1, <1>2, <1>3, PTL DEF Spec, RecordOutlivesInstances

-----------------------------------------------------------------------------
(* Operations that do not overlap. *)

AtHand(o) ==
    IF o.kind = "deploy" /\ o.todo # <<>> /\ Head(o.todo) \in Listed(o.made)
    THEN {Head(o.todo)} ELSE {}

(* SerialInv when o is the only operation that may be under way. *)
Counted(o) ==
    \A i \in Insts :
        \/ host[i] = "absent" \/ i \in strays
        \/ i \in Mine /\ i \in Listed(instRows)
        \/ i \in AtHand(o)
Mapped(o) ==
    /\ row = "none" => instRows = <<>>
    /\ row # "none" => current # 0
    /\ row = "none" /\ current # 0 => o.pc \in {"persist", "unmap"}
    /\ \A k \in Objects : k > used => list[k] = <<>>
Known(o) ==
    /\ checks \subseteq services
    /\ \A i \in checks : host[i] = "running" => i \in loops
    /\ o.pc \notin Undoing => services \subseteq Mine
Does(o) ==
    /\ o.kind = "deploy" => DeployFits(o)
    /\ o.kind \in {"stop", "start", "destroy"} => LoopFits(o)

Alone(c) == \A d \in Callers \ {c} : op[d].kind = "none"

(* From SerialInv to the one operation and back. *)
LEMMA AloneUse ==
  ASSUME SerialInv, NEW c \in Callers, Alone(c)
  PROVE  Counted(op[c]) /\ Mapped(op[c]) /\ Known(op[c]) /\ Does(op[c])
<1>1. \A d \in Callers \ {c} : op[d].kind = "none" /\ op[d].pc = "idle"
  BY DEF Alone, SerialInv, StackInv, Fits
<1>2. \A d \in Callers : InDeployment(d) = AtHand(op[d])
  BY DEF InDeployment, AtHand, First
<1>3. \A d \in Callers \ {c} : AtHand(op[d]) = {}
  BY <1>1 DEF AtHand
<1>4. Counted(op[c])
  BY <1>2, <1>3 DEF SerialInv, Accounted, Counted
<1>5. Mapped(op[c])
  BY <1>1 DEF SerialInv, RowsMatch, Mapped
<1>6. Known(op[c])
  BY <1>1 DEF SerialInv, Watched, Known, Undoing
<1>7. Does(op[c])
  BY DEF SerialInv, Does
<1> QED
  BY <1>4, <1>5, <1>6, <1>7

LEMMA AloneGive ==
  ASSUME StackInv', NEW c \in Callers, NEW p, p = op'[c], Alone(c)',
         Counted(p)', Mapped(p)', Known(p)', Does(p)'
  PROVE  SerialInv'
<1>1. \A d \in Callers \ {c} : op'[d].kind = "none" /\ op'[d].pc = "idle"
  BY DEF Alone, StackInv, Fits
<1>2. Accounted'
  <2>1. p.kind = "deploy" /\ p.todo # <<>> /\ Head(p.todo) \in Listed(p.made) =>
           InDeployment(c)' = {Head(p.todo)}
    BY DEF InDeployment, First
  <2>2. \A i \in AtHand(p) : i \in InDeployment(c)'
    BY <2>1 DEF AtHand
  <2> QED
    BY <2>2 DEF Accounted, Counted
<1>3. RowsMatch'
  BY DEF RowsMatch, Mapped
<1>4. Watched'
  BY DEF Watched, Known
<1>5. \A d \in Callers : op'[d].kind = "deploy" => DeployFits(op[d])'
  BY <1>1 DEF Does, DeployFits
<1>6. \A d \in Callers : op'[d].kind \in {"stop", "start", "destroy"} => LoopFits(op[d])'
  BY <1>1 DEF Does, LoopFits
<1> QED
  BY <1>2, <1>3, <1>4, <1>5, <1>6 DEF SerialInv

(* A caller at work is alone before and after its step. *)
LEMMA AloneKept ==
  ASSUME StackInv, OneAtATime, NEW c \in Callers, op[c].pc # "idle",
         \A d \in Callers \ {c} : op'[d] = op[d]
  PROVE  Alone(c) /\ Alone(c)'
<1>1. Alone(c)
  BY DEF StackInv, Fits, OneAtATime, Alone
<1> QED
  BY <1>1 DEF Alone

(* DeployStack, instance by instance. *)
LEMMA DeployCreateSerial ==
  ASSUME SerialInv, OneAtATime, NEW c \in Callers, DeployCreate(c)
  PROVE  SerialInv'
<1> PICK o, p : o = op[c] /\ p = op'[c]
  OBVIOUS
<1>1. /\ StackInv /\ op \in [Callers -> Operations] /\ o \in Operations /\ Fits(o)
      /\ o.todo \in Seq(Insts) /\ o.made \in Seq(Insts) /\ services \subseteq Insts /\ checks \subseteq Insts
      /\ Mine \subseteq Insts
  BY CheckedAreInsts, MineFacts DEF SerialInv, StackInv, TypeOK, Operations
<1>2. o.kind = "deploy" /\ o.pc = "next" /\ o.todo # <<>>
  BY <1>1 DEF DeployCreate, At
<1>3. First(c) = Head(o.todo) /\ Head(o.todo) \in Insts /\ o.todo # <<>>
  BY <1>1, <1>2, ListedTail DEF First, Fits, Building
<1>4. Append(o.made, First(c)) \in Seq(Insts)
      /\ Listed(Append(o.made, First(c))) = Listed(o.made) \cup {First(c)}
  BY <1>1, <1>2, <1>3, ListedAppend
<1>5. /\ p.kind = o.kind /\ p.obj = o.obj /\ p.pc = "created"
      /\ p.todo = o.todo /\ p.made = Append(o.made, First(c))
      /\ \A d \in Callers \ {c} : op'[d] = op[d]
  <2>1. PICK t, m : t = o.todo /\ m = Append(o.made, First(c))
    OBVIOUS
  <2>2. Carry(c, "created", t, m) /\ t \in Seq(Insts) /\ m \in Seq(Insts)
    BY <1>1, <1>2, <1>3, <1>4, <2>1 DEF DeployCreate, Carry, Operations
  <2> HIDE <2>1
  <2>3. /\ p.kind = o.kind /\ p.obj = o.obj /\ p.pc = "created" /\ p.todo = t /\ p.made = m
        /\ \A d \in Callers \ {c} : op'[d] = op[d]
    BY <1>1, <2>2, ListMoves DEF PCs
  <2> QED
    BY <2>1, <2>3
<1>6. Alone(c) /\ Alone(c)'
  BY <1>1, <1>2, <1>5, AloneKept
<1>7. Counted(o) /\ Mapped(o) /\ Known(o) /\ Does(o)
  BY <1>6, AloneUse
<1>8. StackInv'
  BY <1>1, DeployCreateKeeps
<1>9. UNCHANGED <<current, used, list, row, instRows, services, checks, loops, strays>> /\ Mine' = Mine
  BY DEF DeployCreate, memVars, dbVars, watchVars, ghosts, Mine
<1>10. /\ host[First(c)] = "absent" /\ host'[First(c)] = "stopped"
       /\ \A i \in Insts \ {First(c)} : host'[i] = host[i]
  BY <1>1, <1>2, <1>3, <1>4, <1>5, <1>7, <1>9 DEF DeployCreate, StackInv, TypeOK
<1>11. Counted(p)'
  BY <1>1, <1>2, <1>3, <1>4, <1>5, <1>7, <1>9, <1>10 DEF Counted, AtHand
<1>12. Mapped(p)'
  BY <1>1, <1>2, <1>3, <1>4, <1>5, <1>7, <1>9, <1>10 DEF Mapped
<1>13. Known(p)'
  BY <1>1, <1>2, <1>3, <1>4, <1>5, <1>7, <1>9, <1>10 DEF Known, Undoing
<1>14. Does(p)'
  BY <1>1, <1>2, <1>3, <1>4, <1>5, <1>7, <1>9, <1>10 DEF Does, DeployFits, LoopFits, Building,
     Undoing, Reporting
<1> QED
  BY <1>8, <1>6, <1>11, <1>12, <1>13, <1>14, AloneGive

(* StartInstance. *)
LEMMA DeployStartSerial ==
  ASSUME SerialInv, OneAtATime, NEW c \in Callers, DeployStart(c)
  PROVE  SerialInv'
<1> PICK o, p : o = op[c] /\ p = op'[c]
  OBVIOUS
<1>1. /\ StackInv /\ op \in [Callers -> Operations] /\ o \in Operations /\ Fits(o)
      /\ o.todo \in Seq(Insts) /\ o.made \in Seq(Insts) /\ services \subseteq Insts /\ checks \subseteq Insts
      /\ Mine \subseteq Insts
  BY CheckedAreInsts, MineFacts DEF SerialInv, StackInv, TypeOK, Operations
<1>2. o.kind = "deploy" /\ o.pc = "created"
  BY <1>1 DEF DeployStart, At
<1>3. First(c) = Head(o.todo) /\ Head(o.todo) \in Insts /\ o.todo # <<>>
  BY <1>1, <1>2, ListedTail DEF First, Fits, Building
<1>4. /\ p.kind = o.kind /\ p.obj = o.obj /\ p.pc = "started"
      /\ p.todo = o.todo /\ p.made = o.made
      /\ \A d \in Callers \ {c} : op'[d] = op[d]
  BY <1>1, <1>2, <1>3, GoMoves DEF DeployStart, PCs
<1>5. Alone(c) /\ Alone(c)'
  BY <1>1, <1>2, <1>4, AloneKept
<1>6. Counted(o) /\ Mapped(o) /\ Known(o) /\ Does(o)
  BY <1>5, AloneUse
<1>7. StackInv'
  BY <1>1, DeployStartKeeps
<1>8. UNCHANGED <<current, used, list, row, instRows, services, checks, loops, strays>> /\ Mine' = Mine
  BY DEF DeployStart, memVars, dbVars, watchVars, ghosts, Mine
<1>9. /\ host'[First(c)] = "running"
      /\ \A i \in Insts \ {First(c)} : host'[i] = host[i]
  BY <1>1, <1>2, <1>3, <1>4, <1>6, <1>8 DEF DeployStart, StackInv, TypeOK
<1>10. Head(o.todo) \in Listed(o.made) /\ First(c) \notin services
  BY <1>1, <1>2, <1>3, <1>4, <1>6, <1>8, <1>9 DEF Does, DeployFits, Building
<1>11. Counted(p)'
  BY <1>1, <1>2, <1>3, <1>4, <1>6, <1>8, <1>9, <1>10 DEF Counted, AtHand
<1>12. Mapped(p)'
  BY <1>1, <1>2, <1>3, <1>4, <1>6, <1>8, <1>9, <1>10 DEF Mapped
<1>13. Known(p)'
  BY <1>1, <1>2, <1>3, <1>4, <1>6, <1>8, <1>9, <1>10 DEF Known, Undoing
<1>14. Does(p)'
  BY <1>1, <1>2, <1>3, <1>4, <1>6, <1>8, <1>9, <1>10 DEF Does, DeployFits, LoopFits, Building,
     Undoing, Reporting
<1> QED
  BY <1>7, <1>5, <1>11, <1>12, <1>13, <1>14, AloneGive

(* The instance is listed. *)
LEMMA DeployListSerial ==
  ASSUME SerialInv, OneAtATime, NEW c \in Callers, DeployList(c)
  PROVE  SerialInv'
<1> PICK o, p : o = op[c] /\ p = op'[c]
  OBVIOUS
<1>1. /\ StackInv /\ op \in [Callers -> Operations] /\ o \in Operations /\ Fits(o)
      /\ o.todo \in Seq(Insts) /\ o.made \in Seq(Insts) /\ services \subseteq Insts /\ checks \subseteq Insts
      /\ Mine \subseteq Insts
  BY CheckedAreInsts, MineFacts DEF SerialInv, StackInv, TypeOK, Operations
<1>2. o.kind = "deploy" /\ o.pc = "started"
  BY <1>1 DEF DeployList, At
<1>3. First(c) = Head(o.todo) /\ Head(o.todo) \in Insts /\ o.todo # <<>>
  BY <1>1, <1>2, ListedTail DEF First, Fits, Building
<1>4. /\ p.kind = o.kind /\ p.obj = o.obj /\ p.pc = "listed"
      /\ p.todo = o.todo /\ p.made = o.made
      /\ \A d \in Callers \ {c} : op'[d] = op[d]
  BY <1>1, <1>2, <1>3, GoMoves DEF DeployList, PCs
<1>5. Alone(c) /\ Alone(c)'
  BY <1>1, <1>2, <1>4, AloneKept
<1>6. Counted(o) /\ Mapped(o) /\ Known(o) /\ Does(o)
  BY <1>5, AloneUse
<1>7. StackInv'
  BY <1>1, DeployListKeeps
<1>8. UNCHANGED <<current, used, row, instRows, host, services, checks, loops, strays>>
  BY DEF DeployList, dbVars, watchVars, ghosts
<1>9. current = o.obj /\ current \in Objects /\ current <= used
  BY <1>1, <1>2, <1>3, <1>4, <1>6, <1>8 DEF Does, DeployFits, StackInv, TypeOK, Numbered, Fits
<1>10. list' = [list EXCEPT ![current] = Append(@, First(c))] /\ list[current] \in Seq(Insts)
       /\ list \in [Objects -> Seq(Insts)] /\ used \in Nat /\ Objects \subseteq Nat
  BY <1>1, <1>2, <1>3, <1>4, <1>6, <1>8, <1>9, ObjectFacts DEF DeployList, StackInv, TypeOK
<1>11. list'[current] = Append(list[current], First(c))
       /\ \A k \in Objects : k # current => list'[k] = list[k]
  BY <1>1, <1>2, <1>3, <1>4, <1>6, <1>8, <1>9, <1>10
<1>12. Mine' = Mine \cup {First(c)}
  <2>1. Listed(Append(list[current], First(c))) = Listed(list[current]) \cup {First(c)}
    BY <1>1, <1>2, <1>3, <1>4, <1>6, <1>8, <1>9, <1>10, <1>11, ListedAppend
  <2>2. current # 0
    BY <1>1, <1>2, <1>3, <1>4, <1>6, <1>8, <1>9, <1>10, <1>11, ObjectFacts
  <2> QED
    BY <1>1, <1>2, <1>3, <1>4, <1>6, <1>8, <1>9, <1>10, <1>11, <2>1, <2>2 DEF Mine
<1>13. Counted(p)'
  BY <1>1, <1>2, <1>3, <1>4, <1>6, <1>8, <1>9, <1>10, <1>11, <1>12 DEF Counted, AtHand
<1>14. Mapped(p)'
  BY <1>1, <1>2, <1>3, <1>4, <1>6, <1>8, <1>9, <1>10, <1>11, <1>12 DEF Mapped
<1>15. Known(p)'
  BY <1>1, <1>2, <1>3, <1>4, <1>6, <1>8, <1>9, <1>10, <1>11, <1>12 DEF Known, Undoing
<1>16. Does(p)'
  BY <1>1, <1>2, <1>3, <1>4, <1>6, <1>8, <1>9, <1>10, <1>11, <1>12 DEF Does, DeployFits,
     LoopFits, Building, Undoing, Reporting
<1> QED
  BY <1>7, <1>5, <1>13, <1>14, <1>15, <1>16, AloneGive

(* Its row: it is now found by a restart. *)
LEMMA DeployRowSerial ==
  ASSUME SerialInv, OneAtATime, NEW c \in Callers, DeployRow(c)
  PROVE  SerialInv'
<1> PICK o, p : o = op[c] /\ p = op'[c]
  OBVIOUS
<1>1. /\ StackInv /\ op \in [Callers -> Operations] /\ o \in Operations /\ Fits(o)
      /\ o.todo \in Seq(Insts) /\ o.made \in Seq(Insts) /\ services \subseteq Insts /\ checks \subseteq Insts
      /\ Mine \subseteq Insts
  BY CheckedAreInsts, MineFacts DEF SerialInv, StackInv, TypeOK, Operations
<1>2. o.kind = "deploy" /\ o.pc = "listed"
  BY <1>1 DEF DeployRow, At
<1>3. First(c) = Head(o.todo) /\ Head(o.todo) \in Insts /\ o.todo # <<>>
  BY <1>1, <1>2, ListedTail DEF First, Fits, Building
<1>4. /\ p.kind = o.kind /\ p.obj = o.obj /\ p.pc = "rowed"
      /\ p.todo = o.todo /\ p.made = o.made
      /\ \A d \in Callers \ {c} : op'[d] = op[d]
  BY <1>1, <1>2, <1>3, GoMoves DEF DeployRow, PCs
<1>5. Alone(c) /\ Alone(c)'
  BY <1>1, <1>2, <1>4, AloneKept
<1>6. Counted(o) /\ Mapped(o) /\ Known(o) /\ Does(o)
  BY <1>5, AloneUse
<1>7. StackInv'
  BY <1>1, DeployRowKeeps
<1>8. UNCHANGED <<current, used, list, row, host, services, checks, loops, strays>> /\ Mine' = Mine
  BY DEF DeployRow, memVars, watchVars, ghosts, Mine
<1>9. instRows' = Append(instRows, First(c)) /\ instRows \in Seq(Insts) /\ row # "none"
  BY <1>1, <1>2, <1>3, <1>4, <1>6, <1>8 DEF DeployRow, StackInv, TypeOK
<1>10. Listed(instRows') = Listed(instRows) \cup {First(c)}
  BY <1>1, <1>2, <1>3, <1>4, <1>6, <1>8, <1>9, ListedAppend
<1>11. Counted(p)'
  BY <1>1, <1>2, <1>3, <1>4, <1>6, <1>8, <1>9, <1>10 DEF Counted, AtHand
<1>12. Mapped(p)'
  BY <1>1, <1>2, <1>3, <1>4, <1>6, <1>8, <1>9, <1>10 DEF Mapped
<1>13. Known(p)'
  BY <1>1, <1>2, <1>3, <1>4, <1>6, <1>8, <1>9, <1>10 DEF Known, Undoing
<1>14. Does(p)'
  BY <1>1, <1>2, <1>3, <1>4, <1>6, <1>8, <1>9, <1>10 DEF Does, DeployFits, LoopFits, Building,
     Undoing, Reporting
<1> QED
  BY <1>7, <1>5, <1>11, <1>12, <1>13, <1>14, AloneGive

(* It is registered only once listed and recorded. *)
LEMMA DeployRegisterSerial ==
  ASSUME SerialInv, OneAtATime, NEW c \in Callers, DeployRegister(c)
  PROVE  SerialInv'
<1> PICK o, p : o = op[c] /\ p = op'[c]
  OBVIOUS
<1>1. /\ StackInv /\ op \in [Callers -> Operations] /\ o \in Operations /\ Fits(o)
      /\ o.todo \in Seq(Insts) /\ o.made \in Seq(Insts) /\ services \subseteq Insts /\ checks \subseteq Insts
      /\ Mine \subseteq Insts
  BY CheckedAreInsts, MineFacts DEF SerialInv, StackInv, TypeOK, Operations
<1>2. o.kind = "deploy" /\ o.pc = "rowed"
  BY <1>1 DEF DeployRegister, At
<1>3. First(c) = Head(o.todo) /\ Head(o.todo) \in Insts /\ o.todo # <<>>
  BY <1>1, <1>2, ListedTail DEF First, Fits, Building
<1>4. /\ p.kind = o.kind /\ p.obj = o.obj /\ p.pc = "wait"
      /\ p.todo = o.todo /\ p.made = o.made
      /\ \A d \in Callers \ {c} : op'[d] = op[d]
  BY <1>1, <1>2, <1>3, GoMoves DEF DeployRegister, PCs
<1>5. Alone(c) /\ Alone(c)'
  BY <1>1, <1>2, <1>4, AloneKept
<1>6. Counted(o) /\ Mapped(o) /\ Known(o) /\ Does(o)
  BY <1>5, AloneUse
<1>7. StackInv'
  BY <1>1, DeployRegisterKeeps
<1>8. UNCHANGED <<current, used, list, row, instRows, host, strays>> /\ Mine' = Mine
  BY DEF DeployRegister, memVars, dbVars, ghosts, Mine
<1>9. /\ services' = services \cup {First(c)} /\ checks' = checks \cup ({First(c)} \cap Checked)
      /\ loops' = loops \cup ({First(c)} \cap Checked)
  BY <1>1, <1>2, <1>3, <1>4, <1>6, <1>8 DEF DeployRegister
<1>10. First(c) \in Mine /\ First(c) \in Listed(instRows)
  BY <1>1, <1>2, <1>3, <1>4, <1>6, <1>8, <1>9 DEF Does, DeployFits, Building
<1>11. Counted(p)'
  BY <1>1, <1>2, <1>3, <1>4, <1>6, <1>8, <1>9, <1>10 DEF Counted, AtHand
<1>12. Mapped(p)'
  BY <1>1, <1>2, <1>3, <1>4, <1>6, <1>8, <1>9, <1>10 DEF Mapped
<1>13. Known(p)'
  BY <1>1, <1>2, <1>3, <1>4, <1>6, <1>8, <1>9, <1>10 DEF Known, Undoing
<1>14. Does(p)'
  BY <1>1, <1>2, <1>3, <1>4, <1>6, <1>8, <1>9, <1>10 DEF Does, DeployFits, LoopFits, Building,
     Undoing, Reporting
<1> QED
  BY <1>7, <1>5, <1>11, <1>12, <1>13, <1>14, AloneGive

(* It needs the deployment's hands no more. *)
LEMMA DeployNextSerial ==
  ASSUME SerialInv, OneAtATime, NEW c \in Callers, DeployNext(c)
  PROVE  SerialInv'
<1> PICK o, p : o = op[c] /\ p = op'[c]
  OBVIOUS
<1>1. /\ StackInv /\ op \in [Callers -> Operations] /\ o \in Operations /\ Fits(o)
      /\ o.todo \in Seq(Insts) /\ o.made \in Seq(Insts) /\ services \subseteq Insts /\ checks \subseteq Insts
      /\ Mine \subseteq Insts
  BY CheckedAreInsts, MineFacts DEF SerialInv, StackInv, TypeOK, Operations
<1>2. o.kind = "deploy" /\ o.pc = "wait"
  BY <1>1 DEF DeployNext, At
<1>3. First(c) = Head(o.todo) /\ Head(o.todo) \in Insts /\ o.todo # <<>>
  BY <1>1, <1>2, ListedTail DEF First, Fits, Building
<1>4. Listed(o.todo) = {First(c)} \cup Listed(Tail(o.todo)) /\ Tail(o.todo) \in Seq(Insts)
  BY <1>1, <1>2, <1>3, ListedTail
<1>5. /\ p.kind = o.kind /\ p.obj = o.obj /\ p.pc = "next"
      /\ p.todo = Tail(o.todo) /\ p.made = o.made
      /\ \A d \in Callers \ {c} : op'[d] = op[d]
  <2>1. PICK t, m : t = Tail(o.todo) /\ m = o.made
    OBVIOUS
  <2>2. Carry(c, "next", t, m) /\ t \in Seq(Insts) /\ m \in Seq(Insts)
    BY <1>1, <1>2, <1>3, <1>4, <2>1 DEF DeployNext, Carry, Operations
  <2> HIDE <2>1
  <2>3. /\ p.kind = o.kind /\ p.obj = o.obj /\ p.pc = "next" /\ p.todo = t /\ p.made = m
        /\ \A d \in Callers \ {c} : op'[d] = op[d]
    BY <1>1, <2>2, ListMoves DEF PCs
  <2> QED
    BY <2>1, <2>3
<1>6. Alone(c) /\ Alone(c)'
  BY <1>1, <1>2, <1>5, AloneKept
<1>7. Counted(o) /\ Mapped(o) /\ Known(o) /\ Does(o)
  BY <1>6, AloneUse
<1>8. StackInv'
  BY <1>1, DeployNextKeeps
<1>9. UNCHANGED <<current, used, list, row, instRows, host, services, checks, loops, strays>> /\ Mine' = Mine
  BY DEF DeployNext, memVars, dbVars, watchVars, ghosts, Mine
<1>10. First(c) \in Mine /\ First(c) \in Listed(instRows)
  BY <1>1, <1>2, <1>3, <1>4, <1>5, <1>7, <1>9 DEF Does, DeployFits, Building
<1>11. Counted(p)'
  BY <1>1, <1>2, <1>3, <1>4, <1>5, <1>7, <1>9, <1>10 DEF Counted, AtHand
<1>12. Mapped(p)'
  BY <1>1, <1>2, <1>3, <1>4, <1>5, <1>7, <1>9, <1>10 DEF Mapped
<1>13. Known(p)'
  BY <1>1, <1>2, <1>3, <1>4, <1>5, <1>7, <1>9, <1>10 DEF Known, Undoing
<1>14. Does(p)'
  BY <1>1, <1>2, <1>3, <1>4, <1>5, <1>7, <1>9, <1>10 DEF Does, DeployFits, LoopFits, Building,
     Undoing, Reporting
<1> QED
  BY <1>8, <1>6, <1>11, <1>12, <1>13, <1>14, AloneGive

(* All have been through. *)
LEMMA DeployDoneSerial ==
  ASSUME SerialInv, OneAtATime, NEW c \in Callers, DeployDone(c)
  PROVE  SerialInv'
<1> PICK o, p : o = op[c] /\ p = op'[c]
  OBVIOUS
<1>1. /\ StackInv /\ op \in [Callers -> Operations] /\ o \in Operations /\ Fits(o)
      /\ o.todo \in Seq(Insts) /\ o.made \in Seq(Insts) /\ services \subseteq Insts /\ checks \subseteq Insts
      /\ Mine \subseteq Insts
  BY CheckedAreInsts, MineFacts DEF SerialInv, StackInv, TypeOK, Operations
<1>2. o.kind = "deploy" /\ o.pc = "next" /\ o.todo = <<>>
  BY <1>1 DEF DeployDone, At
<1>3. /\ p.kind = o.kind /\ p.obj = o.obj /\ p.pc = "enter"
      /\ p.todo = o.todo /\ p.made = o.made /\ p.goal = "running"
      /\ \A d \in Callers \ {c} : op'[d] = op[d]
  BY <1>1, <1>2, ReportMoves DEF DeployDone, Statuses
<1>4. Alone(c) /\ Alone(c)'
  BY <1>1, <1>2, <1>3, AloneKept
<1>5. Counted(o) /\ Mapped(o) /\ Known(o) /\ Does(o)
  BY <1>4, AloneUse
<1>6. StackInv'
  BY <1>1, DeployDoneKeeps
<1>7. UNCHANGED <<current, used, list, row, instRows, host, services, checks, loops, strays>> /\ Mine' = Mine
  BY DEF DeployDone, memVars, dbVars, watchVars, ghosts, Mine
<1>8. Listed(o.todo) = {}
  BY <1>1, <1>2, <1>3, <1>5, <1>7, ListedEmpty
<1>9. Counted(p)'
  BY <1>1, <1>2, <1>3, <1>5, <1>7, <1>8 DEF Counted, AtHand
<1>10. Mapped(p)'
  BY <1>1, <1>2, <1>3, <1>5, <1>7, <1>8 DEF Mapped
<1>11. Known(p)'
  BY <1>1, <1>2, <1>3, <1>5, <1>7, <1>8 DEF Known, Undoing
<1>12. Does(p)'
  BY <1>1, <1>2, <1>3, <1>5, <1>7, <1>8 DEF Does, DeployFits, LoopFits, Building, Undoing,
     Reporting
<1> QED
  BY <1>6, <1>4, <1>9, <1>10, <1>11, <1>12, AloneGive

(* What is listed or registered is what the rollback will undo. *)
LEMMA DeployFailSerial ==
  ASSUME SerialInv, OneAtATime, NEW c \in Callers, DeployFail(c)
  PROVE  SerialInv'
<1> PICK o, p : o = op[c] /\ p = op'[c]
  OBVIOUS
<1>1. /\ StackInv /\ op \in [Callers -> Operations] /\ o \in Operations /\ Fits(o)
      /\ o.todo \in Seq(Insts) /\ o.made \in Seq(Insts) /\ services \subseteq Insts /\ checks \subseteq Insts
      /\ Mine \subseteq Insts
  BY CheckedAreInsts, MineFacts DEF SerialInv, StackInv, TypeOK, Operations
<1>2. o.kind = "deploy" /\ o.pc \in Building /\ o.pc \notin {"idle", "persist", "unmap"}
  BY <1>1 DEF DeployFail, Building
<1>3. /\ p.kind = o.kind /\ p.obj = o.obj /\ p.pc = "rollback"
      /\ p.todo = o.todo /\ p.made = o.made
      /\ \A d \in Callers \ {c} : op'[d] = op[d]
  BY <1>1, <1>2, GoMoves DEF DeployFail, PCs
<1>4. Alone(c) /\ Alone(c)'
  BY <1>1, <1>2, <1>3, AloneKept
<1>5. Counted(o) /\ Mapped(o) /\ Known(o) /\ Does(o)
  BY <1>4, AloneUse
<1>6. StackInv'
  BY <1>1, DeployFailKeeps
<1>7. UNCHANGED <<current, used, list, row, instRows, host, services, checks, loops, strays>> /\ Mine' = Mine
  BY DEF DeployFail, memVars, dbVars, watchVars, ghosts, Mine
<1>8. Counted(p)'
  BY <1>1, <1>2, <1>3, <1>5, <1>7 DEF Counted, AtHand
<1>9. Mapped(p)'
  BY <1>1, <1>2, <1>3, <1>5, <1>7 DEF Mapped
<1>10. Known(p)'
  BY <1>1, <1>2, <1>3, <1>5, <1>7 DEF Known, Undoing
<1>11. Does(p)'
  BY <1>1, <1>2, <1>3, <1>5, <1>7 DEF Does, DeployFits, LoopFits, Building, Undoing, Reporting
<1> QED
  BY <1>6, <1>4, <1>8, <1>9, <1>10, <1>11, AloneGive

(* rollbackCreatedInstances. *)
LEMMA RollbackDeleteSerial ==
  ASSUME SerialInv, OneAtATime, FALSE \notin DeleteOutcomes, NEW c \in Callers, RollbackDelete(c)
  PROVE  SerialInv'
<1> PICK o, p : o = op[c] /\ p = op'[c]
  OBVIOUS
<1>1. /\ StackInv /\ op \in [Callers -> Operations] /\ o \in Operations /\ Fits(o)
      /\ o.todo \in Seq(Insts) /\ o.made \in Seq(Insts) /\ services \subseteq Insts /\ checks \subseteq Insts
      /\ Mine \subseteq Insts
  BY CheckedAreInsts, MineFacts DEF SerialInv, StackInv, TypeOK, Operations
<1>2. o.kind = "deploy" /\ o.pc = "rollback" /\ o.made # <<>>
  BY <1>1 DEF RollbackDelete, At
<1>3. o.made # <<>> /\ Head(o.made) \in Insts /\ Listed(o.made) = {Head(o.made)} \cup Listed(Tail(o.made))
      /\ Tail(o.made) \in Seq(Insts)
  BY <1>1, <1>2, ListedTail DEF Fits
<1>4. /\ p.kind = o.kind /\ p.obj = o.obj /\ p.pc = "forget"
      /\ p.todo = o.todo /\ p.made = o.made
      /\ \A d \in Callers \ {c} : op'[d] = op[d]
  BY <1>1, <1>2, <1>3, GoMoves DEF RollbackDelete, PCs
<1>5. Alone(c) /\ Alone(c)'
  BY <1>1, <1>2, <1>4, AloneKept
<1>6. Counted(o) /\ Mapped(o) /\ Known(o) /\ Does(o)
  BY <1>5, AloneUse
<1>7. StackInv'
  BY <1>1, RollbackDeleteKeeps
<1>8. UNCHANGED <<current, used, list, row, instRows, services, checks, loops, strays>> /\ Mine' = Mine
  BY DEF RollbackDelete, memVars, dbVars, watchVars, ghosts, Mine
<1>9. host'[Head(o.made)] = "absent" /\ \A i \in Insts \ {Head(o.made)} : host'[i] = host[i]
  BY <1>1, <1>2, <1>3, <1>4, <1>6, <1>8 DEF RollbackDelete, StackInv, TypeOK
<1>10. Counted(p)'
  BY <1>1, <1>2, <1>3, <1>4, <1>6, <1>8, <1>9 DEF Counted, AtHand
<1>11. Mapped(p)'
  BY <1>1, <1>2, <1>3, <1>4, <1>6, <1>8, <1>9 DEF Mapped
<1>12. Known(p)'
  BY <1>1, <1>2, <1>3, <1>4, <1>6, <1>8, <1>9 DEF Known, Undoing
<1>13. Does(p)'
  BY <1>1, <1>2, <1>3, <1>4, <1>6, <1>8, <1>9 DEF Does, DeployFits, LoopFits, Building, Undoing,
     Reporting
<1> QED
  BY <1>7, <1>5, <1>10, <1>11, <1>12, <1>13, AloneGive

(* Only a deleted instance leaves the list and the registries. *)
LEMMA RollbackForgetSerial ==
  ASSUME SerialInv, OneAtATime, NEW c \in Callers, RollbackForget(c)
  PROVE  SerialInv'
<1> PICK o, p : o = op[c] /\ p = op'[c]
  OBVIOUS
<1>1. /\ StackInv /\ op \in [Callers -> Operations] /\ o \in Operations /\ Fits(o)
      /\ o.todo \in Seq(Insts) /\ o.made \in Seq(Insts) /\ services \subseteq Insts /\ checks \subseteq Insts
      /\ Mine \subseteq Insts
  BY CheckedAreInsts, MineFacts DEF SerialInv, StackInv, TypeOK, Operations
<1>2. o.kind = "deploy" /\ o.pc = "forget"
  BY <1>1 DEF RollbackForget, At
<1>3. o.made # <<>> /\ Head(o.made) \in Insts /\ Listed(o.made) = {Head(o.made)} \cup Listed(Tail(o.made))
      /\ Tail(o.made) \in Seq(Insts)
  BY <1>1, <1>2, ListedTail DEF Fits
<1>4. /\ p.kind = o.kind /\ p.obj = o.obj /\ p.pc = "forgetRow"
      /\ p.todo = o.todo /\ p.made = o.made
      /\ \A d \in Callers \ {c} : op'[d] = op[d]
  BY <1>1, <1>2, <1>3, GoMoves DEF RollbackForget, PCs
<1>5. Alone(c) /\ Alone(c)'
  BY <1>1, <1>2, <1>4, AloneKept
<1>6. Counted(o) /\ Mapped(o) /\ Known(o) /\ Does(o)
  BY <1>5, AloneUse
<1>7. StackInv'
  BY <1>1, RollbackForgetKeeps
<1>8. UNCHANGED <<current, used, row, instRows, host, strays>>
  BY DEF RollbackForget, dbVars, ghosts
<1>9. current = o.obj /\ current \in Objects /\ current <= used /\ host[Head(o.made)] = "absent"
  BY <1>1, <1>2, <1>3, <1>4, <1>6, <1>8 DEF Does, DeployFits, Undoing, StackInv, TypeOK,
     Numbered, Fits
<1>10. /\ list' = [list EXCEPT ![current] = Without(@, Head(o.made))] /\ list[current] \in Seq(Insts)
       /\ list \in [Objects -> Seq(Insts)] /\ used \in Nat /\ Objects \subseteq Nat
  BY <1>1, <1>2, <1>3, <1>4, <1>6, <1>8, <1>9, ObjectFacts DEF RollbackForget, StackInv, TypeOK
<1>11. /\ services' = services \ {Head(o.made)} /\ checks' = checks \ {Head(o.made)}
       /\ loops' = loops \ {Head(o.made)}
  BY <1>1, <1>2, <1>3, <1>4, <1>6, <1>8, <1>9, <1>10 DEF RollbackForget
<1>12. list'[current] = Without(list[current], Head(o.made))
       /\ \A k \in Objects : k # current => list'[k] = list[k]
  BY <1>1, <1>2, <1>3, <1>4, <1>6, <1>8, <1>9, <1>10, <1>11
<1>13. Mine' = Mine \ {Head(o.made)}
  <2>1. Listed(Without(list[current], Head(o.made))) = Listed(list[current]) \ {Head(o.made)}
    BY <1>1, <1>2, <1>3, <1>4, <1>6, <1>8, <1>9, <1>10, <1>11, <1>12, ListedWithout
  <2>2. current # 0
    BY <1>1, <1>2, <1>3, <1>4, <1>6, <1>8, <1>9, <1>10, <1>11, <1>12, ObjectFacts
  <2> QED
    BY <1>1, <1>2, <1>3, <1>4, <1>6, <1>8, <1>9, <1>10, <1>11, <1>12, <2>1, <2>2 DEF Mine
<1>14. Counted(p)'
  BY <1>1, <1>2, <1>3, <1>4, <1>6, <1>8, <1>9, <1>10, <1>11, <1>12, <1>13 DEF Counted, AtHand
<1>15. Mapped(p)'
  BY <1>1, <1>2, <1>3, <1>4, <1>6, <1>8, <1>9, <1>10, <1>11, <1>12, <1>13 DEF Mapped
<1>16. Known(p)'
  BY <1>1, <1>2, <1>3, <1>4, <1>6, <1>8, <1>9, <1>10, <1>11, <1>12, <1>13 DEF Known, Undoing
<1>17. Does(p)'
  BY <1>1, <1>2, <1>3, <1>4, <1>6, <1>8, <1>9, <1>10, <1>11, <1>12, <1>13 DEF Does, DeployFits,
     LoopFits, Building, Undoing, Reporting
<1> QED
  BY <1>7, <1>5, <1>14, <1>15, <1>16, <1>17, AloneGive

(* And its row, or the row stays. *)
LEMMA RollbackForgetRowSerial ==
  ASSUME SerialInv, OneAtATime, NEW c \in Callers, RollbackForgetRow(c)
  PROVE  SerialInv'
<1> PICK o, p : o = op[c] /\ p = op'[c]
  OBVIOUS
<1>1. /\ StackInv /\ op \in [Callers -> Operations] /\ o \in Operations /\ Fits(o)
      /\ o.todo \in Seq(Insts) /\ o.made \in Seq(Insts) /\ services \subseteq Insts /\ checks \subseteq Insts
      /\ Mine \subseteq Insts
  BY CheckedAreInsts, MineFacts DEF SerialInv, StackInv, TypeOK, Operations
<1>2. o.kind = "deploy" /\ o.pc = "forgetRow"
  BY <1>1 DEF RollbackForgetRow, At
<1>3. o.made # <<>> /\ Head(o.made) \in Insts /\ Listed(o.made) = {Head(o.made)} \cup Listed(Tail(o.made))
      /\ Tail(o.made) \in Seq(Insts)
  BY <1>1, <1>2, ListedTail DEF Fits
<1>4. /\ p.kind = o.kind /\ p.obj = o.obj /\ p.pc = "rollback"
      /\ p.todo = o.todo /\ p.made = Tail(o.made)
      /\ \A d \in Callers \ {c} : op'[d] = op[d]
  <2>1. PICK t, m : t = o.todo /\ m = Tail(o.made)
    OBVIOUS
  <2>2. Carry(c, "rollback", t, m) /\ t \in Seq(Insts) /\ m \in Seq(Insts)
    BY <1>1, <1>2, <1>3, <2>1 DEF RollbackForgetRow, Carry, Operations
  <2> HIDE <2>1
  <2>3. /\ p.kind = o.kind /\ p.obj = o.obj /\ p.pc = "rollback" /\ p.todo = t /\ p.made = m
        /\ \A d \in Callers \ {c} : op'[d] = op[d]
    BY <1>1, <2>2, ListMoves DEF PCs
  <2> QED
    BY <2>1, <2>3
<1>5. Alone(c) /\ Alone(c)'
  BY <1>1, <1>2, <1>4, AloneKept
<1>6. Counted(o) /\ Mapped(o) /\ Known(o) /\ Does(o)
  BY <1>5, AloneUse
<1>7. StackInv'
  BY <1>1, RollbackForgetRowKeeps
<1>8. UNCHANGED <<current, used, list, row, host, services, checks, loops, strays>> /\ Mine' = Mine
  BY DEF RollbackForgetRow, memVars, watchVars, ghosts, Mine
<1>9. host[Head(o.made)] = "absent" /\ row # "none" /\ instRows \in Seq(Insts)
  BY <1>1, <1>2, <1>3, <1>4, <1>6, <1>8 DEF Does, DeployFits, Undoing, StackInv, TypeOK
<1>10. instRows' = instRows \/ instRows' = Without(instRows, Head(o.made))
  BY <1>1, <1>2, <1>3, <1>4, <1>6, <1>8, <1>9 DEF RollbackForgetRow
<1>11. Listed(instRows) \ {Head(o.made)} \subseteq Listed(instRows')
  BY <1>1, <1>2, <1>3, <1>4, <1>6, <1>8, <1>9, <1>10, ListedWithout
<1>12. Counted(p)'
  BY <1>1, <1>2, <1>3, <1>4, <1>6, <1>8, <1>9, <1>10, <1>11 DEF Counted, AtHand
<1>13. Mapped(p)'
  BY <1>1, <1>2, <1>3, <1>4, <1>6, <1>8, <1>9, <1>10, <1>11 DEF Mapped
<1>14. Known(p)'
  BY <1>1, <1>2, <1>3, <1>4, <1>6, <1>8, <1>9, <1>10, <1>11 DEF Known, Undoing
<1>15. Does(p)'
  BY <1>1, <1>2, <1>3, <1>4, <1>6, <1>8, <1>9, <1>10, <1>11 DEF Does, DeployFits, LoopFits,
     Building, Undoing, Reporting
<1> QED
  BY <1>7, <1>5, <1>12, <1>13, <1>14, <1>15, AloneGive

(* Nothing is left. *)
LEMMA RollbackDoneSerial ==
  ASSUME SerialInv, OneAtATime, NEW c \in Callers, RollbackDone(c)
  PROVE  SerialInv'
<1> PICK o, p : o = op[c] /\ p = op'[c]
  OBVIOUS
<1>1. /\ StackInv /\ op \in [Callers -> Operations] /\ o \in Operations /\ Fits(o)
      /\ o.todo \in Seq(Insts) /\ o.made \in Seq(Insts) /\ services \subseteq Insts /\ checks \subseteq Insts
      /\ Mine \subseteq Insts
  BY CheckedAreInsts, MineFacts DEF SerialInv, StackInv, TypeOK, Operations
<1>2. o.kind = "deploy" /\ o.pc = "rollback" /\ o.made = <<>>
  BY <1>1 DEF RollbackDone, At
<1>3. /\ p.kind = o.kind /\ p.obj = o.obj /\ p.pc = "enter"
      /\ p.todo = o.todo /\ p.made = o.made /\ p.goal = "failed"
      /\ \A d \in Callers \ {c} : op'[d] = op[d]
  BY <1>1, <1>2, ReportMoves DEF RollbackDone, Statuses
<1>4. Alone(c) /\ Alone(c)'
  BY <1>1, <1>2, <1>3, AloneKept
<1>5. Counted(o) /\ Mapped(o) /\ Known(o) /\ Does(o)
  BY <1>4, AloneUse
<1>6. StackInv'
  BY <1>1, RollbackDoneKeeps
<1>7. UNCHANGED <<current, used, list, row, instRows, host, services, checks, loops, strays>> /\ Mine' = Mine
  BY DEF RollbackDone, memVars, dbVars, watchVars, ghosts, Mine
<1>8. Listed(o.made) = {}
  BY <1>1, <1>2, <1>3, <1>5, <1>7, ListedEmpty
<1>9. Mine = {} /\ services = {} /\ row # "none"
  BY <1>1, <1>2, <1>3, <1>5, <1>7, <1>8 DEF Does, DeployFits, Undoing
<1>10. Counted(p)'
  BY <1>1, <1>2, <1>3, <1>5, <1>7, <1>8, <1>9 DEF Counted, AtHand
<1>11. Mapped(p)'
  BY <1>1, <1>2, <1>3, <1>5, <1>7, <1>8, <1>9 DEF Mapped
<1>12. Known(p)'
  BY <1>1, <1>2, <1>3, <1>5, <1>7, <1>8, <1>9 DEF Known, Undoing
<1>13. Does(p)'
  BY <1>1, <1>2, <1>3, <1>5, <1>7, <1>8, <1>9 DEF Does, DeployFits, LoopFits, Building, Undoing,
     Reporting
<1> QED
  BY <1>6, <1>4, <1>10, <1>11, <1>12, <1>13, AloneGive

(* StopStack. *)
LEMMA StopOneSerial ==
  ASSUME SerialInv, OneAtATime, NEW c \in Callers, StopOne(c)
  PROVE  SerialInv'
<1> PICK o, p : o = op[c] /\ p = op'[c]
  OBVIOUS
<1>1. /\ StackInv /\ op \in [Callers -> Operations] /\ o \in Operations /\ Fits(o)
      /\ o.todo \in Seq(Insts) /\ o.made \in Seq(Insts) /\ services \subseteq Insts /\ checks \subseteq Insts
      /\ Mine \subseteq Insts
  BY CheckedAreInsts, MineFacts DEF SerialInv, StackInv, TypeOK, Operations
<1>2. o.kind = "stop" /\ o.pc = "loop" /\ o.todo # <<>>
  BY <1>1 DEF StopOne, At
<1>3. o.todo # <<>> /\ Last(c) \in Insts /\ Listed(o.todo) = {Last(c)} \cup Listed(Front(o.todo))
      /\ o.bad \in BOOLEAN
  BY <1>1, <1>2, ListedFront DEF Last, Operations
<1>4. /\ p.kind = o.kind /\ p.pc = "loop" /\ p.todo = Front(o.todo)
      /\ \A d \in Callers \ {c} : op'[d] = op[d]
  <2>1. Backward(c, TRUE) \/ Backward(c, FALSE)
    BY DEF StopOne
  <2> QED
    BY <1>1, <1>2, <1>3, <2>1, BackwardMoves
<1>5. Alone(c) /\ Alone(c)'
  BY <1>1, <1>2, <1>4, AloneKept
<1>6. Counted(o) /\ Mapped(o) /\ Known(o) /\ Does(o)
  BY <1>5, AloneUse
<1>7. StackInv'
  BY <1>1, StopOneKeeps
<1>8. UNCHANGED <<current, used, list, row, instRows, services, checks, strays>> /\ Mine' = Mine
  BY DEF StopOne, memVars, dbVars, ghosts, Mine
<1>9. \/ p.bad /\ host' = host /\ (loops \subseteq loops' \/ (Last(c) \notin services /\ loops' = loops \ {Last(c)}))
      \/ /\ p.bad = o.bad /\ host'[Last(c)] # "running" /\ (host[Last(c)] = "absent" => host'[Last(c)] = "absent")
         /\ \A i \in Insts \ {Last(c)} : host'[i] = host[i]
         /\ loops' = loops \ {Last(c)}
  <2>1. CASE Loaded(Last(c)) /\ loops' = loops \ {Last(c)} /\ Backward(c, TRUE) /\ UNCHANGED host
    <3>1. p.bad
      BY <1>1, <1>2, <1>3, <1>4, <1>6, <1>8, <2>1, BackwardMoves
    <3> QED
      BY <2>1, <3>1 DEF Loaded
  <2>2. CASE loops' = loops \cup ({Last(c)} \cap checks) /\ Backward(c, TRUE) /\ UNCHANGED host
    <3>1. p.bad
      BY <1>1, <1>2, <1>3, <1>4, <1>6, <1>8, <2>2, BackwardMoves
    <3> QED
      BY <2>2, <3>1
  <2>3. CASE /\ loops' = loops \ {Last(c)} /\ Backward(c, FALSE)
             /\ host' = [host EXCEPT ![Last(c)] = IF @ = "running" THEN "stopped" ELSE @]
    <3>1. p.bad = o.bad
      BY <1>1, <1>2, <1>3, <1>4, <1>6, <1>8, <2>3, BackwardMoves
    <3> QED
      BY <1>1, <1>2, <1>3, <1>4, <1>6, <1>8, <2>3, <3>1 DEF StackInv, TypeOK
  <2> QED
    BY <2>1, <2>2, <2>3 DEF StopOne
<1>10. Counted(p)'
  BY <1>1, <1>2, <1>3, <1>4, <1>6, <1>8, <1>9 DEF Counted, AtHand
<1>11. Mapped(p)'
  BY <1>1, <1>2, <1>3, <1>4, <1>6, <1>8, <1>9 DEF Mapped
<1>12. Known(p)'
  BY <1>1, <1>2, <1>3, <1>4, <1>6, <1>8, <1>9 DEF Known, Undoing
<1>13. Does(p)'
  BY <1>1, <1>2, <1>3, <1>4, <1>6, <1>8, <1>9 DEF Does, DeployFits, LoopFits, Building, Undoing,
     Reporting
<1> QED
  BY <1>7, <1>5, <1>10, <1>11, <1>12, <1>13, AloneGive

(* "stopped" needs a run without failure. *)
LEMMA StopDoneSerial ==
  ASSUME SerialInv, OneAtATime, NEW c \in Callers, StopDone(c)
  PROVE  SerialInv'
<1> PICK o, p : o = op[c] /\ p = op'[c]
  OBVIOUS
<1>1. /\ StackInv /\ op \in [Callers -> Operations] /\ o \in Operations /\ Fits(o)
      /\ o.todo \in Seq(Insts) /\ o.made \in Seq(Insts) /\ services \subseteq Insts /\ checks \subseteq Insts
      /\ Mine \subseteq Insts
  BY CheckedAreInsts, MineFacts DEF SerialInv, StackInv, TypeOK, Operations
<1>2. o.kind = "stop" /\ o.pc = "loop" /\ o.todo = <<>>
  BY <1>1 DEF StopDone, At
<1>3. /\ p.kind = o.kind /\ p.pc = "enter" /\ p.goal \in {"stopped", "degraded"} /\ (p.goal = "stopped" => ~o.bad)
      /\ \A d \in Callers \ {c} : op'[d] = op[d]
  <2>1. CASE o.bad /\ Report(c, "degraded")
    BY <1>1, <1>2, <2>1, ReportMoves DEF Statuses
  <2>2. CASE ~o.bad /\ Report(c, "stopped")
    BY <1>1, <1>2, <2>2, ReportMoves DEF Statuses
  <2> QED
    BY <2>1, <2>2 DEF StopDone
<1>4. Alone(c) /\ Alone(c)'
  BY <1>1, <1>2, <1>3, AloneKept
<1>5. Counted(o) /\ Mapped(o) /\ Known(o) /\ Does(o)
  BY <1>4, AloneUse
<1>6. StackInv'
  BY <1>1, StopDoneKeeps
<1>7. UNCHANGED <<current, used, list, row, instRows, host, services, checks, loops, strays>> /\ Mine' = Mine
  BY DEF StopDone, memVars, dbVars, watchVars, ghosts, Mine
<1>8. Listed(o.todo) = {}
  BY <1>1, <1>2, <1>3, <1>5, <1>7, ListedEmpty
<1>9. Counted(p)'
  BY <1>1, <1>2, <1>3, <1>5, <1>7, <1>8 DEF Counted, AtHand
<1>10. Mapped(p)'
  BY <1>1, <1>2, <1>3, <1>5, <1>7, <1>8 DEF Mapped
<1>11. Known(p)'
  BY <1>1, <1>2, <1>3, <1>5, <1>7, <1>8 DEF Known, Undoing
<1>12. Does(p)'
  BY <1>1, <1>2, <1>3, <1>5, <1>7, <1>8 DEF Does, DeployFits, LoopFits, Building, Undoing,
     Reporting
<1> QED
  BY <1>6, <1>4, <1>9, <1>10, <1>11, <1>12, AloneGive

(* StartStack. *)
LEMMA StartOneSerial ==
  ASSUME SerialInv, OneAtATime, NEW c \in Callers, StartOne(c)
  PROVE  SerialInv'
<1> PICK o, p : o = op[c] /\ p = op'[c]
  OBVIOUS
<1>1. /\ StackInv /\ op \in [Callers -> Operations] /\ o \in Operations /\ Fits(o)
      /\ o.todo \in Seq(Insts) /\ o.made \in Seq(Insts) /\ services \subseteq Insts /\ checks \subseteq Insts
      /\ Mine \subseteq Insts
  BY CheckedAreInsts, MineFacts DEF SerialInv, StackInv, TypeOK, Operations
<1>2. o.kind = "start" /\ o.pc = "loop" /\ o.todo # <<>>
  BY <1>1 DEF StartOne, At
<1>3. First(c) = Head(o.todo) /\ Head(o.todo) \in Insts /\ o.todo # <<>>
  BY <1>1, <1>2, ListedTail DEF First, Fits, Building
<1>4. Listed(o.todo) = {First(c)} \cup Listed(Tail(o.todo)) /\ Tail(o.todo) \in Seq(Insts)
  BY <1>1, <1>2, <1>3, ListedTail
<1>5. /\ \/ p.kind = "none" /\ p.pc = "idle"
         \/ p.kind = o.kind /\ p.pc = "loop" /\ p.todo = Tail(o.todo)
      /\ \A d \in Callers \ {c} : op'[d] = op[d]
  <2>1. CASE Finish(c)
    BY <1>1, <1>2, <1>3, <1>4, <2>1, FinishMoves
  <2>2. CASE op' = [op EXCEPT ![c].todo = Tail(@)]
    BY <1>1, <1>2, <1>3, <1>4, <2>2 DEF Operations
  <2> QED
    BY <2>1, <2>2 DEF StartOne
<1>6. Alone(c) /\ Alone(c)'
  BY <1>1, <1>2, <1>5, AloneKept
<1>7. Counted(o) /\ Mapped(o) /\ Known(o) /\ Does(o)
  BY <1>6, AloneUse
<1>8. StackInv'
  BY <1>1, StartOneKeeps
<1>9. UNCHANGED <<current, used, list, row, instRows, services, checks, strays>> /\ Mine' = Mine
  BY DEF StartOne, memVars, dbVars, ghosts, Mine
<1>10. /\ host[First(c)] # "absent" /\ host'[First(c)] = "running"
       /\ \A i \in Insts \ {First(c)} : host'[i] = host[i]
       /\ loops' = loops \cup ({First(c)} \cap checks)
  BY <1>1, <1>2, <1>3, <1>4, <1>5, <1>7, <1>9 DEF StartOne, StackInv, TypeOK
<1>11. Counted(p)'
  BY <1>1, <1>2, <1>3, <1>4, <1>5, <1>7, <1>9, <1>10 DEF Counted, AtHand
<1>12. Mapped(p)'
  BY <1>1, <1>2, <1>3, <1>4, <1>5, <1>7, <1>9, <1>10 DEF Mapped
<1>13. Known(p)'
  BY <1>1, <1>2, <1>7, <1>9, <1>10 DEF Known, Undoing
<1>14. Does(p)'
  BY <1>1, <1>2, <1>3, <1>4, <1>5, <1>7, <1>9, <1>10 DEF Does, DeployFits, LoopFits, Building,
     Undoing, Reporting
<1> QED
  BY <1>8, <1>6, <1>11, <1>12, <1>13, <1>14, AloneGive

(* It reports "degraded". *)
LEMMA StartFailSerial ==
  ASSUME SerialInv, OneAtATime, NEW c \in Callers, StartFail(c)
  PROVE  SerialInv'
<1> PICK o, p : o = op[c] /\ p = op'[c]
  OBVIOUS
<1>1. /\ StackInv /\ op \in [Callers -> Operations] /\ o \in Operations /\ Fits(o)
      /\ o.todo \in Seq(Insts) /\ o.made \in Seq(Insts) /\ services \subseteq Insts /\ checks \subseteq Insts
      /\ Mine \subseteq Insts
  BY CheckedAreInsts, MineFacts DEF SerialInv, StackInv, TypeOK, Operations
<1>2. o.kind = "start" /\ o.pc = "loop"
  BY <1>1 DEF StartFail, At
<1>3. /\ p.kind = o.kind /\ p.pc = "enter" /\ p.goal = "degraded"
      /\ \A d \in Callers \ {c} : op'[d] = op[d]
  BY <1>1, <1>2, ReportMoves DEF StartFail, Statuses
<1>4. Alone(c) /\ Alone(c)'
  BY <1>1, <1>2, <1>3, AloneKept
<1>5. Counted(o) /\ Mapped(o) /\ Known(o) /\ Does(o)
  BY <1>4, AloneUse
<1>6. StackInv'
  BY <1>1, StartFailKeeps
<1>7. UNCHANGED <<current, used, list, row, instRows, host, services, checks, loops, strays>> /\ Mine' = Mine
  BY DEF StartFail, memVars, dbVars, watchVars, ghosts, Mine
<1>8. Counted(p)'
  BY <1>1, <1>2, <1>3, <1>5, <1>7 DEF Counted, AtHand
<1>9. Mapped(p)'
  BY <1>1, <1>2, <1>3, <1>5, <1>7 DEF Mapped
<1>10. Known(p)'
  BY <1>1, <1>2, <1>3, <1>5, <1>7 DEF Known, Undoing
<1>11. Does(p)'
  BY <1>1, <1>2, <1>3, <1>5, <1>7 DEF Does, DeployFits, LoopFits, Building, Undoing, Reporting
<1> QED
  BY <1>6, <1>4, <1>8, <1>9, <1>10, <1>11, AloneGive

(* All have been through. *)
LEMMA StartDoneSerial ==
  ASSUME SerialInv, OneAtATime, NEW c \in Callers, StartDone(c)
  PROVE  SerialInv'
<1> PICK o, p : o = op[c] /\ p = op'[c]
  OBVIOUS
<1>1. /\ StackInv /\ op \in [Callers -> Operations] /\ o \in Operations /\ Fits(o)
      /\ o.todo \in Seq(Insts) /\ o.made \in Seq(Insts) /\ services \subseteq Insts /\ checks \subseteq Insts
      /\ Mine \subseteq Insts
  BY CheckedAreInsts, MineFacts DEF SerialInv, StackInv, TypeOK, Operations
<1>2. o.kind = "start" /\ o.pc = "loop" /\ o.todo = <<>>
  BY <1>1 DEF StartDone, At
<1>3. /\ p.kind = o.kind /\ p.pc = "enter" /\ p.goal = "running"
      /\ \A d \in Callers \ {c} : op'[d] = op[d]
  BY <1>1, <1>2, ReportMoves DEF StartDone, Statuses
<1>4. Alone(c) /\ Alone(c)'
  BY <1>1, <1>2, <1>3, AloneKept
<1>5. Counted(o) /\ Mapped(o) /\ Known(o) /\ Does(o)
  BY <1>4, AloneUse
<1>6. StackInv'
  BY <1>1, StartDoneKeeps
<1>7. UNCHANGED <<current, used, list, row, instRows, host, services, checks, loops, strays>> /\ Mine' = Mine
  BY DEF StartDone, memVars, dbVars, watchVars, ghosts, Mine
<1>8. Listed(o.todo) = {}
  BY <1>1, <1>2, <1>3, <1>5, <1>7, ListedEmpty
<1>9. Counted(p)'
  BY <1>1, <1>2, <1>3, <1>5, <1>7, <1>8 DEF Counted, AtHand
<1>10. Mapped(p)'
  BY <1>1, <1>2, <1>3, <1>5, <1>7, <1>8 DEF Mapped
<1>11. Known(p)'
  BY <1>1, <1>2, <1>3, <1>5, <1>7, <1>8 DEF Known, Undoing
<1>12. Does(p)'
  BY <1>1, <1>2, <1>3, <1>5, <1>7, <1>8 DEF Does, DeployFits, LoopFits, Building, Undoing,
     Reporting
<1> QED
  BY <1>6, <1>4, <1>9, <1>10, <1>11, <1>12, AloneGive

(* DestroyStack. *)
LEMMA DestroyOneSerial ==
  ASSUME SerialInv, OneAtATime, FALSE \notin DeleteOutcomes, NEW c \in Callers, DestroyOne(c)
  PROVE  SerialInv'
<1> PICK o, p : o = op[c] /\ p = op'[c]
  OBVIOUS
<1>1. /\ StackInv /\ op \in [Callers -> Operations] /\ o \in Operations /\ Fits(o)
      /\ o.todo \in Seq(Insts) /\ o.made \in Seq(Insts) /\ services \subseteq Insts /\ checks \subseteq Insts
      /\ Mine \subseteq Insts
  BY CheckedAreInsts, MineFacts DEF SerialInv, StackInv, TypeOK, Operations
<1>2. o.kind = "destroy" /\ o.pc = "loop" /\ o.todo # <<>>
  BY <1>1 DEF DestroyOne, At
<1>3. o.todo # <<>> /\ Last(c) \in Insts /\ Listed(o.todo) = {Last(c)} \cup Listed(Front(o.todo))
      /\ o.bad \in BOOLEAN
  BY <1>1, <1>2, ListedFront DEF Last, Operations
<1>4. /\ p.kind = o.kind /\ p.pc = "loop" /\ p.todo = Front(o.todo)
      /\ \A d \in Callers \ {c} : op'[d] = op[d]
  <2>1. Backward(c, TRUE) \/ Backward(c, FALSE)
    BY DEF DestroyOne
  <2> QED
    BY <1>1, <1>2, <1>3, <2>1, BackwardMoves
<1>5. Alone(c) /\ Alone(c)'
  BY <1>1, <1>2, <1>4, AloneKept
<1>6. Counted(o) /\ Mapped(o) /\ Known(o) /\ Does(o)
  BY <1>5, AloneUse
<1>7. StackInv'
  BY <1>1, DestroyOneKeeps
<1>8. UNCHANGED <<current, used, list, row, instRows, strays>> /\ Mine' = Mine
  BY DEF DestroyOne, memVars, dbVars, watchVars, ghosts, Mine
<1>9. \/ p.bad /\ UNCHANGED <<host, services, checks, loops>>
      \/ /\ p.bad = o.bad /\ host'[Last(c)] = "absent" /\ \A i \in Insts \ {Last(c)} : host'[i] = host[i]
         /\ services' = services \ {Last(c)} /\ checks' = checks \ {Last(c)} /\ loops' = loops \ {Last(c)}
  <2>1. CASE Backward(c, TRUE) /\ UNCHANGED <<host, watchVars>>
    <3>1. p.bad
      BY <1>1, <1>2, <1>3, <1>4, <1>6, <1>8, <2>1, BackwardMoves
    <3> QED
      BY <2>1, <3>1 DEF watchVars
  <2>2. CASE /\ Backward(c, FALSE) /\ host' = [host EXCEPT ![Last(c)] = "absent"]
             /\ services' = services \ {Last(c)} /\ checks' = checks \ {Last(c)} /\ loops' = loops \ {Last(c)}
    <3>1. p.bad = o.bad
      BY <1>1, <1>2, <1>3, <1>4, <1>6, <1>8, <2>2, BackwardMoves
    <3> QED
      BY <1>1, <1>2, <1>3, <1>4, <1>6, <1>8, <2>2, <3>1 DEF StackInv, TypeOK
  <2> QED
    BY <2>1, <2>2 DEF DestroyOne
<1>10. Counted(p)'
  BY <1>1, <1>2, <1>3, <1>4, <1>6, <1>8, <1>9 DEF Counted, AtHand
<1>11. Mapped(p)'
  BY <1>1, <1>2, <1>3, <1>4, <1>6, <1>8, <1>9 DEF Mapped
<1>12. Known(p)'
  BY <1>1, <1>2, <1>3, <1>4, <1>6, <1>8, <1>9 DEF Known, Undoing
<1>13. Does(p)'
  BY <1>1, <1>2, <1>3, <1>4, <1>6, <1>8, <1>9 DEF Does, DeployFits, LoopFits, Building, Undoing,
     Reporting
<1> QED
  BY <1>7, <1>5, <1>10, <1>11, <1>12, <1>13, AloneGive

(* It goes on only without a failure. *)
LEMMA DestroyDoneSerial ==
  ASSUME SerialInv, OneAtATime, NEW c \in Callers, DestroyDone(c)
  PROVE  SerialInv'
<1> PICK o, p : o = op[c] /\ p = op'[c]
  OBVIOUS
<1>1. /\ StackInv /\ op \in [Callers -> Operations] /\ o \in Operations /\ Fits(o)
      /\ o.todo \in Seq(Insts) /\ o.made \in Seq(Insts) /\ services \subseteq Insts /\ checks \subseteq Insts
      /\ Mine \subseteq Insts
  BY CheckedAreInsts, MineFacts DEF SerialInv, StackInv, TypeOK, Operations
<1>2. o.kind = "destroy" /\ o.pc = "loop" /\ o.todo = <<>>
  BY <1>1 DEF DestroyDone, At
<1>3. /\ p.kind = o.kind /\ p.pc \in {"enter", "deleteRow"} /\ (p.pc = "deleteRow" => ~o.bad)
      /\ \A d \in Callers \ {c} : op'[d] = op[d]
  <2>1. CASE o.bad /\ Report(c, "degraded")
    BY <1>1, <1>2, <2>1, ReportMoves DEF Statuses
  <2>2. CASE ~o.bad /\ Go(c, "deleteRow")
    BY <1>1, <1>2, <2>2, GoMoves DEF PCs
  <2> QED
    BY <2>1, <2>2 DEF DestroyDone
<1>4. Alone(c) /\ Alone(c)'
  BY <1>1, <1>2, <1>3, AloneKept
<1>5. Counted(o) /\ Mapped(o) /\ Known(o) /\ Does(o)
  BY <1>4, AloneUse
<1>6. StackInv'
  BY <1>1, DestroyDoneKeeps
<1>7. UNCHANGED <<current, used, list, row, instRows, host, services, checks, loops, strays>> /\ Mine' = Mine
  BY DEF DestroyDone, memVars, dbVars, watchVars, ghosts, Mine
<1>8. Listed(o.todo) = {}
  BY <1>1, <1>2, <1>3, <1>5, <1>7, ListedEmpty
<1>9. Counted(p)'
  BY <1>1, <1>2, <1>3, <1>5, <1>7, <1>8 DEF Counted, AtHand
<1>10. Mapped(p)'
  BY <1>1, <1>2, <1>3, <1>5, <1>7, <1>8 DEF Mapped
<1>11. Known(p)'
  BY <1>1, <1>2, <1>3, <1>5, <1>7, <1>8 DEF Known, Undoing
<1>12. Does(p)'
  BY <1>1, <1>2, <1>3, <1>5, <1>7, <1>8 DEF Does, DeployFits, LoopFits, Building, Undoing,
     Reporting
<1> QED
  BY <1>6, <1>4, <1>9, <1>10, <1>11, <1>12, AloneGive

(* The record goes when the instances are gone. *)
LEMMA DestroyRowSerial ==
  ASSUME SerialInv, OneAtATime, NEW c \in Callers, DestroyRow(c)
  PROVE  SerialInv'
<1> PICK o, p : o = op[c] /\ p = op'[c]
  OBVIOUS
<1>1. /\ StackInv /\ op \in [Callers -> Operations] /\ o \in Operations /\ Fits(o)
      /\ o.todo \in Seq(Insts) /\ o.made \in Seq(Insts) /\ services \subseteq Insts /\ checks \subseteq Insts
      /\ Mine \subseteq Insts
  BY CheckedAreInsts, MineFacts DEF SerialInv, StackInv, TypeOK, Operations
<1>2. o.kind = "destroy" /\ o.pc = "deleteRow"
  BY <1>1 DEF DestroyRow, At
<1>3. /\ \/ p.kind = "none" /\ p.pc = "idle" /\ UNCHANGED <<row, instRows>>
         \/ p.kind = o.kind /\ p.pc = "unmap" /\ row' = "none" /\ instRows' = <<>>
      /\ \A d \in Callers \ {c} : op'[d] = op[d]
  <2>1. CASE Finish(c) /\ UNCHANGED dbVars
    BY <1>1, <1>2, <2>1, FinishMoves DEF dbVars
  <2>2. CASE Go(c, "unmap") /\ row' = "none" /\ instRows' = <<>>
    BY <1>1, <1>2, <2>2, GoMoves DEF PCs
  <2> QED
    BY <2>1, <2>2 DEF DestroyRow
<1>4. Alone(c) /\ Alone(c)'
  BY <1>1, <1>2, <1>3, AloneKept
<1>5. Counted(o) /\ Mapped(o) /\ Known(o) /\ Does(o)
  BY <1>4, AloneUse
<1>6. StackInv'
  BY <1>1, DestroyRowKeeps
<1>7. UNCHANGED <<current, used, list, host, services, checks, loops, strays>> /\ Mine' = Mine
  BY DEF DestroyRow, memVars, dbVars, watchVars, ghosts, Mine
<1>8. row # "none" /\ services = {} /\ \A i \in Mine : host[i] = "absent"
  BY <1>1, <1>2, <1>3, <1>5, <1>7 DEF Does, LoopFits
<1>9. Counted(p)'
  BY <1>1, <1>2, <1>3, <1>5, <1>7, <1>8 DEF Counted, AtHand
<1>10. Mapped(p)'
  BY <1>1, <1>2, <1>3, <1>5, <1>7, <1>8 DEF Mapped
<1>11. Known(p)'
  BY <1>1, <1>2, <1>3, <1>5, <1>7, <1>8 DEF Known, Undoing
<1>12. Does(p)'
  BY <1>1, <1>2, <1>3, <1>5, <1>7, <1>8 DEF Does, DeployFits, LoopFits, Building, Undoing,
     Reporting
<1> QED
  BY <1>6, <1>4, <1>9, <1>10, <1>11, <1>12, AloneGive

(* The map follows the record. *)
LEMMA DestroyUnmapSerial ==
  ASSUME SerialInv, OneAtATime, NEW c \in Callers, DestroyUnmap(c)
  PROVE  SerialInv'
<1> PICK o, p : o = op[c] /\ p = op'[c]
  OBVIOUS
<1>1. /\ StackInv /\ op \in [Callers -> Operations] /\ o \in Operations /\ Fits(o)
      /\ o.todo \in Seq(Insts) /\ o.made \in Seq(Insts) /\ services \subseteq Insts /\ checks \subseteq Insts
      /\ Mine \subseteq Insts
  BY CheckedAreInsts, MineFacts DEF SerialInv, StackInv, TypeOK, Operations
<1>2. o.kind = "destroy" /\ o.pc = "unmap"
  BY <1>1 DEF DestroyUnmap, At
<1>3. /\ p.kind = o.kind /\ p.pc = "dropLock"
      /\ \A d \in Callers \ {c} : op'[d] = op[d]
  <2>1. lockEntry \in Mutexes \cup {0} /\ Hold(c, "dropLock", lockEntry)
    BY <1>1 DEF DestroyUnmap, Hold, StackInv, TypeOK
  <2> QED
    BY <1>1, <1>2, <2>1, RefMoves DEF PCs
<1>4. Alone(c) /\ Alone(c)'
  BY <1>1, <1>2, <1>3, AloneKept
<1>5. Counted(o) /\ Mapped(o) /\ Known(o) /\ Does(o)
  BY <1>4, AloneUse
<1>6. StackInv'
  BY <1>1, DestroyUnmapKeeps
<1>7. UNCHANGED <<used, list, row, instRows, host, services, checks, loops, strays>>
  BY DEF DestroyUnmap, dbVars, watchVars, ghosts
<1>8. current' = 0 /\ Mine' = {}
  BY <1>1, <1>2, <1>3, <1>5, <1>7 DEF DestroyUnmap, Mine
<1>9. row = "none" /\ services = {} /\ \A i \in Mine : host[i] = "absent"
  BY <1>1, <1>2, <1>3, <1>5, <1>7, <1>8 DEF Does, LoopFits
<1>10. Counted(p)'
  BY <1>1, <1>2, <1>3, <1>5, <1>7, <1>8, <1>9 DEF Counted, AtHand
<1>11. Mapped(p)'
  BY <1>1, <1>2, <1>3, <1>5, <1>7, <1>8, <1>9 DEF Mapped
<1>12. Known(p)'
  BY <1>1, <1>2, <1>3, <1>5, <1>7, <1>8, <1>9 DEF Known, Undoing
<1>13. Does(p)'
  BY <1>1, <1>2, <1>3, <1>5, <1>7, <1>8, <1>9 DEF Does, DeployFits, LoopFits, Building, Undoing,
     Reporting
<1> QED
  BY <1>6, <1>4, <1>10, <1>11, <1>12, <1>13, AloneGive

(* The name is free. *)
LEMMA DestroyDropLockSerial ==
  ASSUME SerialInv, OneAtATime, NEW c \in Callers, DestroyDropLock(c)
  PROVE  SerialInv'
<1> PICK o, p : o = op[c] /\ p = op'[c]
  OBVIOUS
<1>1. /\ StackInv /\ op \in [Callers -> Operations] /\ o \in Operations /\ Fits(o)
      /\ o.todo \in Seq(Insts) /\ o.made \in Seq(Insts) /\ services \subseteq Insts /\ checks \subseteq Insts
      /\ Mine \subseteq Insts
  BY CheckedAreInsts, MineFacts DEF SerialInv, StackInv, TypeOK, Operations
<1>2. o.kind = "destroy" /\ o.pc = "dropLock"
  BY <1>1 DEF DestroyDropLock, At
<1>3. /\ p.kind = "none" /\ p.pc = "idle"
      /\ \A d \in Callers \ {c} : op'[d] = op[d]
  BY <1>1, <1>2, FinishMoves DEF DestroyDropLock
<1>4. Alone(c) /\ Alone(c)'
  BY <1>1, <1>2, <1>3, AloneKept
<1>5. Counted(o) /\ Mapped(o) /\ Known(o) /\ Does(o)
  BY <1>4, AloneUse
<1>6. StackInv'
  BY <1>1, DestroyDropLockKeeps
<1>7. UNCHANGED <<current, used, list, row, instRows, host, services, checks, loops, strays>> /\ Mine' = Mine
  BY DEF DestroyDropLock, memVars, dbVars, watchVars, ghosts, Mine
<1>8. current = 0
  BY <1>1, <1>2, <1>3, <1>5, <1>7 DEF Does, LoopFits
<1>9. Counted(p)'
  BY <1>1, <1>2, <1>3, <1>5, <1>7, <1>8 DEF Counted, AtHand
<1>10. Mapped(p)'
  BY <1>1, <1>2, <1>3, <1>5, <1>7, <1>8 DEF Mapped
<1>11. Known(p)'
  BY <1>1, <1>2, <1>3, <1>5, <1>7, <1>8 DEF Known, Undoing
<1>12. Does(p)'
  BY <1>1, <1>2, <1>3, <1>5, <1>7, <1>8 DEF Does, DeployFits, LoopFits, Building, Undoing,
     Reporting
<1> QED
  BY <1>6, <1>4, <1>9, <1>10, <1>11, <1>12, AloneGive

(* updateStackStatus. *)
LEMMA StatusEnterSerial ==
  ASSUME SerialInv, OneAtATime, NEW c \in Callers, StatusEnter(c)
  PROVE  SerialInv'
<1> PICK o, p : o = op[c] /\ p = op'[c]
  OBVIOUS
<1>1. /\ StackInv /\ op \in [Callers -> Operations] /\ o \in Operations /\ Fits(o)
      /\ o.todo \in Seq(Insts) /\ o.made \in Seq(Insts) /\ services \subseteq Insts /\ checks \subseteq Insts
      /\ Mine \subseteq Insts
  BY CheckedAreInsts, MineFacts DEF SerialInv, StackInv, TypeOK, Operations
<1>2. o.pc = "enter"
  BY <1>1 DEF StatusEnter
<1>3. /\ p.kind = o.kind /\ p.obj = o.obj /\ p.pc = "apply" /\ p.goal = o.goal
      /\ p.todo = o.todo /\ p.made = o.made
      /\ \A d \in Callers \ {c} : op'[d] = op[d]
  <2>1. PICK m \in Mutexes : Hold(c, "apply", m)
    BY <1>1 DEF StatusEnter, Hold, StackInv, TypeOK
  <2> QED
    BY <1>1, <1>2, <2>1, RefMoves DEF PCs
<1>4. Alone(c) /\ Alone(c)'
  BY <1>1, <1>2, <1>3, AloneKept
<1>5. Counted(o) /\ Mapped(o) /\ Known(o) /\ Does(o)
  BY <1>4, AloneUse
<1>6. StackInv'
  BY <1>1, StatusEnterKeeps
<1>7. UNCHANGED <<current, used, list, row, instRows, host, services, checks, loops, strays>> /\ Mine' = Mine
  BY DEF StatusEnter, memVars, dbVars, watchVars, ghosts, Mine
<1>8. Counted(p)'
  BY <1>1, <1>2, <1>3, <1>5, <1>7 DEF Counted, AtHand
<1>9. Mapped(p)'
  BY <1>1, <1>2, <1>3, <1>5, <1>7 DEF Mapped
<1>10. Known(p)'
  BY <1>1, <1>2, <1>3, <1>5, <1>7 DEF Known, Undoing
<1>11. Does(p)'
  BY <1>1, <1>2, <1>3, <1>5, <1>7 DEF Does, DeployFits, LoopFits, Building, Undoing, Reporting
<1> QED
  BY <1>6, <1>4, <1>8, <1>9, <1>10, <1>11, AloneGive

(* It changes no instance. *)
LEMMA StatusApplySerial ==
  ASSUME SerialInv, OneAtATime, NEW c \in Callers, StatusApply(c)
  PROVE  SerialInv'
<1> PICK o, p : o = op[c] /\ p = op'[c]
  OBVIOUS
<1>1. /\ StackInv /\ op \in [Callers -> Operations] /\ o \in Operations /\ Fits(o)
      /\ o.todo \in Seq(Insts) /\ o.made \in Seq(Insts) /\ services \subseteq Insts /\ checks \subseteq Insts
      /\ Mine \subseteq Insts
  BY CheckedAreInsts, MineFacts DEF SerialInv, StackInv, TypeOK, Operations
<1>2. o.pc = "apply"
  BY <1>1 DEF StatusApply
<1>3. /\ p.kind = o.kind /\ p.obj = o.obj /\ p.pc = "store" /\ p.goal = o.goal
      /\ p.todo = o.todo /\ p.made = o.made
      /\ \A d \in Callers \ {c} : op'[d] = op[d]
  BY <1>1, <1>2, GoMoves DEF StatusApply, PCs
<1>4. Alone(c) /\ Alone(c)'
  BY <1>1, <1>2, <1>3, AloneKept
<1>5. Counted(o) /\ Mapped(o) /\ Known(o) /\ Does(o)
  BY <1>4, AloneUse
<1>6. StackInv'
  BY <1>1, StatusApplyKeeps
<1>7. UNCHANGED <<current, used, list, row, instRows, host, services, checks, loops, strays>> /\ Mine' = Mine
  BY DEF StatusApply, dbVars, watchVars, Mine
<1>8. Counted(p)'
  BY <1>1, <1>2, <1>3, <1>5, <1>7 DEF Counted, AtHand
<1>9. Mapped(p)'
  BY <1>1, <1>2, <1>3, <1>5, <1>7 DEF Mapped
<1>10. Known(p)'
  BY <1>1, <1>2, <1>3, <1>5, <1>7 DEF Known, Undoing
<1>11. Does(p)'
  BY <1>1, <1>2, <1>3, <1>5, <1>7 DEF Does, DeployFits, LoopFits, Building, Undoing, Reporting
<1> QED
  BY <1>6, <1>4, <1>8, <1>9, <1>10, <1>11, AloneGive

(* The operation ends. *)
LEMMA StatusStoreSerial ==
  ASSUME SerialInv, OneAtATime, NEW c \in Callers, StatusStore(c)
  PROVE  SerialInv'
<1> PICK o, p : o = op[c] /\ p = op'[c]
  OBVIOUS
<1>1. /\ StackInv /\ op \in [Callers -> Operations] /\ o \in Operations /\ Fits(o)
      /\ o.todo \in Seq(Insts) /\ o.made \in Seq(Insts) /\ services \subseteq Insts /\ checks \subseteq Insts
      /\ Mine \subseteq Insts
  BY CheckedAreInsts, MineFacts DEF SerialInv, StackInv, TypeOK, Operations
<1>2. o.pc = "store"
  BY <1>1 DEF StatusStore
<1>3. /\ p.kind = "none" /\ p.pc = "idle"
      /\ \A d \in Callers \ {c} : op'[d] = op[d]
  BY <1>1, <1>2, FinishMoves DEF StatusStore
<1>4. Alone(c) /\ Alone(c)'
  BY <1>1, <1>2, <1>3, AloneKept
<1>5. Counted(o) /\ Mapped(o) /\ Known(o) /\ Does(o)
  BY <1>4, AloneUse
<1>6. StackInv'
  BY <1>1, StatusStoreKeeps
<1>7. UNCHANGED <<current, used, list, instRows, host, services, checks, loops, strays>> /\ Mine' = Mine
  BY DEF StatusStore, memVars, watchVars, Mine
<1>8. o.kind \in {"deploy", "stop", "start", "destroy"} /\ row # "none"
  BY <1>1, <1>2, <1>3, <1>5, <1>7 DEF Does, DeployFits, LoopFits, Fits, Reporting
<1>9. o.goal # "none"
  BY <1>1, <1>2, <1>3, <1>5, <1>7, <1>8, GoalFacts DEF Reporting
<1>10. row' # "none"
  BY <1>1, <1>2, <1>3, <1>5, <1>7, <1>8, <1>9 DEF StatusStore
<1>11. Counted(p)'
  <2>1. o.todo = <<>> \/ o.made = <<>> \/ o.kind # "deploy"
    BY <1>1, <1>2, <1>3, <1>5, <1>7, <1>8, <1>9, <1>10, GoalFacts DEF Does, DeployFits,
       Reporting, Fits, Goals
  <2>2. AtHand(o) = {}
    BY <2>1, ListedEmpty DEF AtHand
  <2> QED
    BY <1>1, <1>2, <1>3, <1>5, <1>7, <1>8, <1>9, <1>10, <2>2 DEF Counted, AtHand
<1>12. Mapped(p)'
  BY <1>1, <1>2, <1>3, <1>5, <1>7, <1>8, <1>9, <1>10 DEF Mapped
<1>13. Known(p)'
  BY <1>1, <1>2, <1>3, <1>5, <1>7, <1>8, <1>9, <1>10 DEF Known, Undoing
<1>14. Does(p)'
  BY <1>1, <1>2, <1>3, <1>5, <1>7, <1>8, <1>9, <1>10 DEF Does, DeployFits, LoopFits, Building,
     Undoing, Reporting
<1> QED
  BY <1>6, <1>4, <1>11, <1>12, <1>13, <1>14, AloneGive

(* DeployStack claims a free name: there is nothing of an earlier stack. *)
LEMMA DeployClaimSerial ==
  ASSUME SerialInv, OneAtATime', NEW c \in Callers, DeployClaim(c)
  PROVE  SerialInv'
<1> PICK o, p : o = op[c] /\ p = op'[c]
  OBVIOUS
<1>1. /\ StackInv /\ op \in [Callers -> Operations] /\ o \in Operations /\ Fits(o)
      /\ used \in Nat /\ used + 1 \in Objects /\ list \in [Objects -> Seq(Insts)]
  <2>1. StackInv /\ op \in [Callers -> Operations] /\ list \in [Objects -> Seq(Insts)]
    BY DEF SerialInv, StackInv, TypeOK
  <2>2. used \in Nat /\ crashes \in 0..MaxCrashes /\ used < MaxDeploys + crashes
    BY ObjectFacts, BoundsAreNat DEF DeployClaim, SerialInv, StackInv, TypeOK
  <2>3. used + 1 \in Objects
    BY <2>2, BoundsAreNat DEF Objects
  <2> QED
    BY <2>1, <2>2, <2>3 DEF StackInv
<1>2. o.pc = "idle" /\ o.kind = "none" /\ current = 0
  BY <1>1 DEF DeployClaim, Fits
<1>3. /\ p = [Idle EXCEPT !.kind = "deploy", !.pc = "persist", !.obj = used + 1, !.todo = Order]
      /\ \A d \in Callers \ {c} : op'[d] = op[d]
  BY <1>1 DEF DeployClaim
<1>4. /\ p.kind = "deploy" /\ p.pc = "persist" /\ p.obj = used + 1 /\ p.todo = Order /\ p.made = <<>>
      /\ \A d \in Callers \ {c} : op'[d] = op[d]
  BY <1>3 DEF Idle
<1>5. Alone(c) /\ Alone(c)'
  <2>1. \A d \in Callers \ {c} : op'[d].pc = "idle"
    BY <1>4 DEF OneAtATime
  <2> QED
    BY <1>1, <1>4, <2>1 DEF Alone, StackInv, Fits
<1>6. Counted(o) /\ Mapped(o) /\ Known(o)
  BY <1>5, AloneUse
<1>7. StackInv'
  BY <1>1, DeployClaimKeeps
<1>8. /\ used' = used + 1 /\ current' = used + 1
      /\ UNCHANGED <<list, row, instRows, host, services, checks, loops, strays>>
  BY DEF DeployClaim, dbVars, watchVars, ghosts
<1>9. Mine = {} /\ row = "none" /\ instRows = <<>> /\ services = {} /\ list[used + 1] = <<>>
  BY <1>1, <1>2, <1>6 DEF Mine, Mapped, Known, Undoing
<1>10. Mine' = {} /\ Listed(instRows) = {} /\ Listed(p.made) = {}
  BY <1>1, <1>4, <1>8, <1>9, ListedEmpty DEF Mine
<1>11. Counted(p)'
  BY <1>2, <1>6, <1>8, <1>9, <1>10 DEF Counted, AtHand
<1>12. Mapped(p)'
  BY <1>1, <1>4, <1>6, <1>8, <1>9, ObjectFacts DEF Mapped
<1>13. Known(p)'
  BY <1>6, <1>8, <1>9, <1>10 DEF Known
<1>14. Does(p)'
  BY <1>4, <1>8, <1>9, <1>10 DEF Does, DeployFits, Building, Undoing, Reporting
<1> QED
  BY <1>5, <1>7, <1>11, <1>12, <1>13, <1>14, AloneGive

(* CreateStack, or the claim is given up. *)
LEMMA DeployPersistSerial ==
  ASSUME SerialInv, OneAtATime, NEW c \in Callers, DeployPersist(c)
  PROVE  SerialInv'
<1> PICK o, p : o = op[c] /\ p = op'[c]
  OBVIOUS
<1>1. StackInv /\ op \in [Callers -> Operations] /\ o \in Operations /\ Fits(o)
  BY DEF SerialInv, StackInv, TypeOK
<1>2. o.kind = "deploy" /\ o.pc = "persist"
  BY DEF DeployPersist, At
<1>3. /\ \/ p.kind = "none" /\ p.pc = "idle" /\ current' = 0 /\ row' = row
         \/ /\ p.kind = o.kind /\ p.obj = o.obj /\ p.pc = "next" /\ p.todo = o.todo /\ p.made = o.made
            /\ row' = "deploying" /\ current' = current
      /\ \A d \in Callers \ {c} : op'[d] = op[d]
  <2>1. CASE Finish(c) /\ current' = 0 /\ row' = row
    BY <1>1, <2>1, FinishMoves
  <2>2. CASE Go(c, "next") /\ row' = "deploying" /\ current' = current
    BY <1>1, <2>2, GoMoves DEF PCs
  <2> QED
    BY <2>1, <2>2 DEF DeployPersist
<1>4. Alone(c) /\ Alone(c)'
  BY <1>1, <1>2, <1>3, AloneKept
<1>5. Counted(o) /\ Mapped(o) /\ Known(o) /\ Does(o)
  BY <1>4, AloneUse
<1>6. StackInv'
  BY <1>1, DeployPersistKeeps
<1>7. UNCHANGED <<used, list, instRows, host, services, checks, loops, strays>>
  BY DEF DeployPersist, watchVars
<1>8. /\ current = o.obj /\ Mine = {} /\ o.made = <<>> /\ o.todo = Order /\ row = "none"
      /\ services = {} /\ instRows = <<>> /\ o.obj # 0
  BY <1>1, <1>2, <1>5 DEF Does, DeployFits, Known, Mapped, Undoing, Fits
<1>9. Mine' = {} /\ Listed(o.made) = {} /\ Listed(o.todo) = Insts /\ Listed(instRows) = {}
  BY <1>3, <1>7, <1>8, OrderListsInsts, ListedEmpty DEF Mine
<1>10. Counted(p)'
  BY <1>3, <1>5, <1>7, <1>8, <1>9 DEF Counted, AtHand
<1>11. Mapped(p)'
  BY <1>3, <1>5, <1>7, <1>8 DEF Mapped
<1>12. Known(p)'
  BY <1>5, <1>7, <1>8, <1>9 DEF Known
<1>13. Does(p)'
  BY <1>2, <1>3, <1>7, <1>8, <1>9 DEF Does, DeployFits, Building, Undoing, Reporting
<1> QED
  BY <1>4, <1>6, <1>10, <1>11, <1>12, <1>13, AloneGive

(* Between operations the map's stack is the one on record, and the         *)
(* registries know only its instances.                                      *)
LEMMA BeginSerial ==
  ASSUME SerialInv, OneAtATime', NEW c \in Callers, NEW kind \in Kinds, Begin(c, kind)
  PROVE  SerialInv'
<1> PICK o, p : o = op[c] /\ p = op'[c]
  OBVIOUS
<1>1. StackInv /\ op \in [Callers -> Operations] /\ o \in Operations /\ Fits(o)
  BY DEF SerialInv, StackInv, TypeOK
<1>2. /\ o.pc = "idle" /\ o.kind = "none" /\ current # 0 /\ kind \in {"stop", "start", "destroy"}
  BY <1>1 DEF Begin, Fits
<1>3. /\ p = [Idle EXCEPT !.kind = kind, !.pc = "loop", !.todo = list[current]]
      /\ \A d \in Callers \ {c} : op'[d] = op[d]
  BY <1>1 DEF Begin
<1>4. /\ p.kind = kind /\ p.pc = "loop" /\ p.todo = list[current]
      /\ \A d \in Callers \ {c} : op'[d] = op[d]
  BY <1>3 DEF Idle
<1>5. Alone(c) /\ Alone(c)'
  <2>1. \A d \in Callers \ {c} : op'[d].pc = "idle"
    BY <1>4 DEF OneAtATime
  <2> QED
    BY <1>1, <1>4, <2>1 DEF Alone, StackInv, Fits
<1>6. Counted(o) /\ Mapped(o) /\ Known(o)
  BY <1>5, AloneUse
<1>7. StackInv'
  BY <1>1, BeginKeeps
<1>8. UNCHANGED <<current, used, list, row, instRows, host, services, checks, loops, strays>> /\ Mine' = Mine
  BY DEF Begin, dbVars, watchVars, ghosts, Mine
<1>9. row # "none" /\ Mine = Listed(p.todo) /\ services \subseteq Mine
  BY <1>2, <1>4, <1>6 DEF Mine, Mapped, Known, Undoing
<1>10. Counted(p)'
  BY <1>2, <1>6, <1>8 DEF Counted, AtHand
<1>11. Mapped(p)'
  BY <1>6, <1>8, <1>9 DEF Mapped
<1>12. Known(p)'
  BY <1>6, <1>8, <1>9 DEF Known
<1>13. Does(p)'
  BY <1>2, <1>4, <1>8, <1>9 DEF Does, LoopFits, Reporting
<1> QED
  BY <1>5, <1>7, <1>10, <1>11, <1>12, <1>13, AloneGive

(* onHealthChange changes no instance. *)
LEMMA OthersSerial ==
  ASSUME SerialInv, (\E i \in Insts, h \in Healths : HealthChange(i, h)) \/ UNCHANGED vars, StackInv'
  PROVE  SerialInv'
<1>1. /\ UNCHANGED <<current, used, list, row, instRows, host, services, checks, loops, strays, op>>
      /\ Mine' = Mine
  BY DEF HealthChange, vars, memVars, dbVars, watchVars, ghosts, Mine
<1>2. \A c \in Callers : InDeployment(c)' = InDeployment(c)
  BY <1>1 DEF InDeployment, First
<1>3. Accounted' /\ RowsMatch' /\ Watched'
  BY <1>1, <1>2 DEF SerialInv, Accounted, RowsMatch, Watched
<1>4. \A c \in Callers : op'[c].kind = "deploy" => DeployFits(op[c])'
  BY <1>1 DEF SerialInv, DeployFits
<1>5. \A c \in Callers : op'[c].kind \in {"stop", "start", "destroy"} => LoopFits(op[c])'
  BY <1>1 DEF SerialInv, LoopFits
<1> QED
  BY <1>3, <1>4, <1>5 DEF SerialInv

(* LoadStacks: the stack is what its rows say. *)
LEMMA CrashAndLoadSerial ==
  ASSUME SerialInv, CrashAndLoad
  PROVE  SerialInv'
<1>1. StackInv'
  BY CrashAndLoadKeeps DEF SerialInv
<1>2. \A c \in Callers : op'[c].pc = "idle" /\ op'[c].kind = "none"
  BY DEF CrashAndLoad, Idle
<1>3. /\ services' = {} /\ checks' = {} /\ UNCHANGED <<row, instRows, host>>
      /\ strays' = strays \cup ((UNION {InDeployment(c) : c \in Callers}) \ Listed(instRows))
  BY DEF CrashAndLoad, dbVars
<1>4. /\ row = "none" => Listed(instRows) = {}
      /\ Mine' = Listed(instRows)
  <2>1. row = "none" => Listed(instRows) = {}
    BY ListedEmpty DEF SerialInv, RowsMatch
  <2>2. CASE row = "none"
    BY <2>1, <2>2 DEF CrashAndLoad, Mine
  <2>3. CASE row # "none"
    <3>1. used + 1 \in Objects /\ used + 1 # 0 /\ list \in [Objects -> Seq(Insts)]
      <4>1. used \in Nat /\ crashes \in 0..MaxCrashes /\ crashes < MaxCrashes /\ used <= MaxDeploys + crashes
        BY ObjectFacts, BoundsAreNat DEF CrashAndLoad, SerialInv, StackInv, TypeOK, Numbered
      <4>2. list \in [Objects -> Seq(Insts)]
        BY DEF SerialInv, StackInv, TypeOK
      <4> QED
        BY <4>1, <4>2, BoundsAreNat DEF Objects
    <3>2. current' = used + 1 /\ list' = [list EXCEPT ![used + 1] = instRows]
      BY <2>3 DEF CrashAndLoad
    <3>3. current' # 0 /\ list'[current'] = instRows
      BY <3>1, <3>2
    <3> QED
      BY <2>3, <3>3 DEF Mine
  <2> QED
    BY <2>1, <2>2, <2>3
<1>5. Accounted'
  <2>1. ASSUME NEW i \in Insts
        PROVE  host'[i] = "absent" \/ i \in strays' \/ (i \in Mine' /\ i \in Listed(instRows'))
    <3>1. \/ host[i] = "absent" \/ i \in strays \/ i \in Listed(instRows)
          \/ \E c \in Callers : i \in InDeployment(c)
      BY DEF SerialInv, Accounted
    <3>2. (\E c \in Callers : i \in InDeployment(c)) => i \in UNION {InDeployment(c) : c \in Callers}
      OBVIOUS
    <3>3. (\E c \in Callers : i \in InDeployment(c)) => i \in strays' \/ i \in Listed(instRows)
      BY <1>3, <3>2
    <3> QED
      BY <1>3, <1>4, <3>1, <3>3
  <2> QED
    BY <2>1 DEF Accounted
<1>6. RowsMatch'
  <2>1. used \in Nat /\ Objects \subseteq Nat
    BY ObjectFacts DEF SerialInv, StackInv, TypeOK
  <2>2. CASE row = "none"
    BY <1>3, <2>2 DEF CrashAndLoad, SerialInv, RowsMatch
  <2>3. CASE row # "none"
    <3>1. current' = used + 1 /\ used' = used + 1 /\ list' = [list EXCEPT ![used + 1] = instRows]
      BY <2>3 DEF CrashAndLoad
    <3>2. \A k \in Objects : k > used + 1 => list'[k] = <<>>
      BY <2>1, <3>1 DEF SerialInv, StackInv, TypeOK, RowsMatch
    <3>3. \A k \in Objects : k > used' => list'[k] = <<>>
      BY <3>1, <3>2
    <3>4. row' # "none" /\ current' # 0
      BY <1>3, <2>1, <2>3, <3>1
    <3> QED
      BY <3>3, <3>4 DEF RowsMatch
  <2> QED
    BY <2>2, <2>3
<1>7. Watched'
  BY <1>3 DEF Watched
<1> QED
  BY <1>1, <1>2, <1>5, <1>6, <1>7 DEF SerialInv

(* LoadStacks has run. *)
LEMMA InitSerial == Init => SerialInv
<1> SUFFICES ASSUME Init PROVE SerialInv
  OBVIOUS
<1>1. StackInv
  BY InitStackInv
<1>2. \A c \in Callers : op[c].pc = "idle" /\ op[c].kind = "none"
  BY DEF Init, Idle
<1>3. CASE Restored
  <2>1. current = 1 /\ 1 \in Objects /\ used = 1 /\ row = "running" /\ instRows = Order
        /\ list = [k \in Objects |-> IF k = 1 THEN Order ELSE <<>>]
    BY <1>3, RestoredNeedsObject, BoundsAreNat DEF Init, Objects
  <2>2. Mine = Insts /\ Listed(instRows) = Insts
    BY <2>1, OrderListsInsts DEF Mine
  <2>3. Accounted
    BY <2>2 DEF Accounted
  <2>4. RowsMatch
    BY <2>1, ObjectFacts DEF RowsMatch
  <2>5. Watched
    BY DEF Init, Watched
  <2> QED
    BY <1>1, <1>2, <2>3, <2>4, <2>5 DEF SerialInv
<1>4. CASE ~Restored
  <2>1. /\ current = 0 /\ row = "none" /\ instRows = <<>>
        /\ list = [k \in Objects |-> IF k = current THEN instRows ELSE <<>>]
        /\ host = [i \in Insts |-> "absent"]
    BY <1>4 DEF Init
  <2>2. Accounted
    BY <2>1 DEF Accounted
  <2>3. RowsMatch
    BY <2>1 DEF RowsMatch
  <2>4. Watched
    BY DEF Init, Watched
  <2> QED
    BY <1>1, <1>2, <2>2, <2>3, <2>4 DEF SerialInv
<1> QED
  BY <1>3, <1>4

(* Every step keeps SerialInv. *)
LEMMA StepSerial ==
  ASSUME SerialInv, OneAtATime, OneAtATime', FALSE \notin DeleteOutcomes, [Next]_vars
  PROVE  SerialInv'
<1>1. StackInv'
  BY StepStackInv DEF SerialInv
<1>2. ASSUME NEW c \in Callers, CallerStep(c) PROVE SerialInv'
  BY <1>2, DeployPersistSerial, DeployCreateSerial, DeployStartSerial, DeployListSerial,
     DeployRowSerial, DeployRegisterSerial, DeployNextSerial, DeployDoneSerial, DeployFailSerial,
     RollbackDeleteSerial, RollbackForgetSerial, RollbackForgetRowSerial, RollbackDoneSerial,
     StopOneSerial, StopDoneSerial, StartOneSerial, StartFailSerial, StartDoneSerial,
     DestroyOneSerial, DestroyDoneSerial, DestroyRowSerial, DestroyUnmapSerial,
     DestroyDropLockSerial, StatusEnterSerial, StatusApplySerial, StatusStoreSerial DEF CallerStep
<1> QED
  BY <1>1, <1>2, DeployClaimSerial, BeginSerial, OthersSerial, CrashAndLoadSerial DEF Next

(* The inductive invariant of calls that do not overlap. *)
LEMMA SerialInvHolds ==
  ASSUME FALSE \notin DeleteOutcomes
  PROVE  Spec /\ []OneAtATime => []SerialInv
<1>1. Init => SerialInv
  BY InitSerial
<1>2. SerialInv /\ OneAtATime /\ OneAtATime' /\ [Next]_vars => SerialInv'
  BY StepSerial
<1> QED
  BY <1>1, <1>2, PTL DEF Spec

(* NoOrphans for calls that do not overlap and deletions that succeed:      *)
(* through failures at any point of a deployment, failing statements and    *)
(* crashes, every instance stays listed, in a deployment's hands, or one    *)
(* of the strays a crash left.                                              *)
THEOREM StackNoOrphans ==
  ASSUME FALSE \notin DeleteOutcomes
  PROVE  Spec /\ []OneAtATime => []NoOrphans
<1>1. SerialInv => NoOrphans
  BY DEF SerialInv, Accounted, NoOrphans, InDeployment, First
<1> QED
  BY <1>1, SerialInvHolds, PTL

(* RestartFindsAll, likewise: LoadStacks at any moment finds them again.    *)
THEOREM StackRestartFindsAll ==
  ASSUME FALSE \notin DeleteOutcomes
  PROVE  Spec /\ []OneAtATime => []RestartFindsAll
<1>1. SerialInv => RestartFindsAll
  BY DEF SerialInv, Accounted, RestartFindsAll, InDeployment, First
<1> QED
  BY <1>1, SerialInvHolds, PTL

(* RegistriesFollowStack, likewise: what the service registry and the       *)
(* health checker know is what the stack lists once no call is under way.   *)
THEOREM StackRegistriesFollowStack ==
  ASSUME FALSE \notin DeleteOutcomes
  PROVE  Spec /\ []OneAtATime => []RegistriesFollowStack
<1>1. SerialInv => RegistriesFollowStack
  BY DEF SerialInv, Watched, RegistriesFollowStack, Quiet, Undoing
<1> QED
  BY <1>1, SerialInvHolds, PTL

(* ReportsTrue, likewise: "running", "stopped" and "failed" are so at the   *)
(* moment updateStackStatus writes them.                                    *)
THEOREM StackReportsTrue ==
  ASSUME FALSE \notin DeleteOutcomes
  PROVE  Spec /\ []OneAtATime => ReportsTrue
<1>1. ASSUME SerialInv, OneAtATime, NEW c \in Callers, op[c].pc = "apply" PROVE Truthful(c)
  <2> PICK o : o = op[c]
    OBVIOUS
  <2>1. o \in Operations /\ Fits(o) /\ o.pc = "apply" /\ Mine \subseteq Insts /\ instRows \in Seq(Insts)
    BY <1>1, MineFacts DEF SerialInv, StackInv, TypeOK
  <2>2. /\ o.kind \in {"deploy", "stop", "start", "destroy"}
        /\ o.goal = "running" => o.kind \in {"deploy", "start"}
        /\ o.goal = "stopped" => o.kind = "stop"
        /\ o.goal = "failed" => o.kind = "deploy"
    <3>1. o.kind \in {"deploy", "stop", "start", "destroy"} /\ o.goal \in Goals[o.kind]
      BY <2>1 DEF Fits, Reporting
    <3>2. CASE o.kind = "deploy"
      BY <3>1, <3>2 DEF Goals
    <3>3. CASE o.kind = "stop"
      BY <3>1, <3>3 DEF Goals
    <3>4. CASE o.kind = "start"
      BY <3>1, <3>4 DEF Goals
    <3>5. CASE o.kind = "destroy"
      BY <3>1, <3>5 DEF Goals
    <3> QED
      BY <3>1, <3>2, <3>3, <3>4, <3>5
  <2>3. /\ o.kind = "deploy" => DeployFits(o)
        /\ o.kind \in {"stop", "start", "destroy"} => LoopFits(o)
    BY <1>1 DEF SerialInv
  <2>4. CASE o.goal = "running"
    <3>1. CASE o.kind = "deploy"
      <4>1. \A i \in Insts : host[i] = "running" /\ i \in Mine /\ i \in Listed(instRows)
        BY <2>1, <2>3, <2>4, <3>1 DEF DeployFits, Reporting
      <4>2. Mine = Insts /\ Listed(instRows) = Insts
        BY <2>1, <4>1, ListedIn
      <4> QED
        BY <2>4, <4>1, <4>2 DEF Truthful
    <3>2. CASE o.kind = "start"
      BY <2>1, <2>3, <2>4, <3>2 DEF LoopFits, Reporting, Truthful
    <3> QED
      BY <2>2, <2>4, <3>1, <3>2
  <2>5. CASE o.goal = "stopped"
    BY <2>1, <2>2, <2>3, <2>5 DEF LoopFits, Reporting, Truthful
  <2>6. CASE o.goal = "failed"
    <3>1. Mine = {} /\ o.made = <<>>
      BY <2>1, <2>2, <2>3, <2>6 DEF DeployFits, Reporting
    <3>2. Alone(c)
      BY <1>1 DEF SerialInv, StackInv, Fits, OneAtATime, Alone
    <3>3. Counted(o) /\ AtHand(o) = {}
      BY <1>1, <3>1, <3>2, AloneUse, ListedEmpty DEF AtHand
    <3> QED
      BY <2>6, <3>1, <3>3 DEF Counted, Truthful
  <2>7. CASE o.goal \notin {"running", "stopped", "failed"}
    BY <2>7 DEF Truthful
  <2> QED
    BY <2>4, <2>5, <2>6, <2>7
<1>2. SerialInv /\ OneAtATime =>
         [\A c \in Callers : op[c].pc = "apply" /\ op'[c].pc = "store" => Truthful(c)]_vars
  BY <1>1
<1> QED
  BY <1>2, SerialInvHolds, PTL DEF ReportsTrue
=============================================================================
