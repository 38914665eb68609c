----------------------------- MODULE Procedures -----------------------------
(***************************************************************************)
(* The form in which the modules of the providers and of the API server    *)
(* write down what a function of the code does to the host, step by step.  *)
(*                                                                         *)
(* A procedure is a sequence of steps.  Each step is a command, a call or  *)
(* a check that the code makes; r is the set of resources it is about (a   *)
(* file, a dataset, a process, an interface, a row, ...).  Steps only jump *)
(* forward:                                                                *)
(*   to    how far a step that skips others jumps; 0 returns success       *)
(*   lax   how far the code goes on after the step failed; 0 returns the   *)
(*         error                                                           *)
(*   undo  what the error path removes, as well as it can, before that     *)
(*   redo  what it puts back, if it was there when the operation began     *)
(* HostOperations gives the steps their meaning.                           *)
(***************************************************************************)
EXTENDS Naturals, SequencesExt

Step(op, r) ==
  [op |-> op, r |-> r, to |-> 1, lax |-> 0, undo |-> {}, redo |-> {}]

\* A command that creates r, which was not there, or fails.
Make(r) == <<Step("make", r)>>
\* The same for what may be there already: the code checks or overwrites.
Ensure(r) == <<Step("ensure", r)>>
\* A command that removes r, if it is there, or fails.
Drop(r) == <<Step("drop", r)>>
\* A command, a query or a check of its input that may fail; what names it.
Try(what) == <<Step("try", {})>>
\* A query for r: when it fails, the code takes r for gone and jumps n steps.
Ask(r, n) == <<[Step("try", r) EXCEPT !.lax = n]>>
\* The code looks for r in the wrong place, and takes it for gone.
Overlook(r) == <<[Step("fail", r) EXCEPT !.lax = 1]>>
\* A wait for r to disappear, or for a timeout.
Await(r) == <<Step("await", r)>>
\* What the code keeps in memory, or cannot fail to do.
Note(r) == <<Step("note", r)>>
Forget(r) == <<Step("forget", r)>>
\* Removal whose errors are ignored or logged, one resource at a time.
Clean(r) == <<Step("clean", r)>>
\* The code returns an error, or success.
Fail == <<Step("fail", {})>>
Return == <<[Step("jump", {}) EXCEPT !.to = 0]>>
Nothing == <<>>

\* p runs if c holds: a resource that is there or an option of the instance.
When(c, p) == <<[Step("when", {c}) EXCEPT !.to = Len(p) + 1]>> \o p
Unless(c, p) == <<[Step("unless", {c}) EXCEPT !.to = Len(p) + 1]>> \o p
\* p runs or not, for a reason the model leaves out.
Maybe(p) == <<[Step("maybe", {}) EXCEPT !.to = Len(p) + 1]>> \o p
Skip(n) == <<[Step("jump", {}) EXCEPT !.to = n + 1]>>
IfElse(c, p, q) == When(c, p \o Skip(Len(q))) \o q
Either(p, q) == Maybe(p \o Skip(Len(q))) \o q

Need(c) == Unless(c, Fail)
Refuse(c) == When(c, Fail)

\* The error of a step of p does not end the caller: it goes on behind p.
Logged(p) ==
  [i \in 1..Len(p) |->
     IF p[i].lax = 0 THEN [p[i] EXCEPT !.lax = Len(p) - i + 1] ELSE p[i]]
\* When p fails, u is removed before the error is returned.
OnError(u, p) ==
  [i \in 1..Len(p) |->
     IF p[i].lax = 0 THEN [p[i] EXCEPT !.undo = @ \cup u] ELSE p[i]]
\* When p fails, u is put back before the error is returned.
Restoring(u, p) ==
  [i \in 1..Len(p) |->
     IF p[i].lax = 0 THEN [p[i] EXCEPT !.redo = @ \cup u] ELSE p[i]]
\* A call: a return of p goes on behind p.
Call(p) ==
  [i \in 1..Len(p) |->
     IF p[i].op = "jump" /\ p[i].to = 0
       THEN [p[i] EXCEPT !.to = Len(p) - i + 1] ELSE p[i]]
\* A deferred removal of u, on every way out of p.
Finally(u, p) == OnError(u, Call(p)) \o Clean(u)
\* The error of a step of p is returned once q has run.
Deferred(p, q) ==
  [i \in 1..Len(p) |->
     IF p[i].lax = 0 THEN [p[i] EXCEPT !.lax = Len(p) - i + Len(q) + 2] ELSE p[i]]
    \o q \o Skip(Len(q) + 1) \o q \o Fail
\* When p fails, q runs before the error is returned.
Rescued(p, q) ==
  [i \in 1..Len(p) |->
     IF p[i].lax = 0 THEN [p[i] EXCEPT !.lax = Len(p) - i + 2] ELSE p[i]]
    \o Skip(Len(q) + 1) \o q \o Fail
\* The procedures of a sequence one after the other, and one of them.
All(ps) == FoldLeft(LAMBDA p, q : p \o Call(q), <<>>, ps)
OneOf(ps) == FoldLeft(LAMBDA p, q : Either(q, p), Head(ps), Tail(ps))
\* p for another instance, whose resources have the names f gives them.
For(f, p) ==
  LET Name(r) == IF r \in DOMAIN f THEN f[r] ELSE r
      Names(R) == {Name(r) : r \in R}
  IN [i \in 1..Len(p) |->
        [p[i] EXCEPT !.r = Names(@), !.undo = Names(@), !.redo = Names(@)]]

-----------------------------------------------------------------------------
(***************************************************************************)
(* The same procedure with fewer steps.  Commands in a row that change     *)
(* nothing and whose failure has the same consequence become one; commands *)
(* that change nothing and whose failure changes nothing are jumped over.  *)
(***************************************************************************)
Merged(p) ==
  LET Plain(i) == p[i].op = "try" /\ p[i].r = {}
      Idle(i) == Plain(i) /\ p[i].undo = {} /\ p[i].redo = {}
      \* a logged try that skips no work, and a choice whether to try
      NoOp(i) == \/ /\ Plain(i) /\ p[i].lax # 0
                    /\ \A j \in i .. i + p[i].lax - 1 : Idle(j)
                 \/ /\ p[i].op = "maybe"
                    /\ \A j \in i + 1 .. i + p[i].to - 1 : Plain(j)
      noOps == {i \in 1 .. Len(p) : NoOp(i)}
      tries == {i \in 1 .. Len(p) : Plain(i)} \ noOps
      Alike(i, j) == /\ p[i].undo = p[j].undo /\ p[i].redo = p[j].redo
                     /\ IF p[i].lax = 0 THEN p[j].lax = 0
                        ELSE p[j].lax # 0 /\ i + p[i].lax = j + p[j].lax
      \* the first step behind the tries at and after i that are like it
      Past(i) == CHOOSE j \in i + 1 .. Len(p) + 1 :
                   /\ \A k \in i + 1 .. j - 1 : k \in noOps \/ (k \in tries /\ Alike(i, k))
                   /\ j <= Len(p) => ~(j \in noOps \/ (j \in tries /\ Alike(i, j)))
  IN [i \in 1 .. Len(p) |->
        IF i \in noOps THEN [Step("jump", {}) EXCEPT !.to = IF p[i].op = "maybe" THEN 1 ELSE p[i].lax]
        ELSE IF i \in tries THEN [p[i] EXCEPT !.to = Past(i) - i] ELSE p[i]] \o <<>>

\* The operations of a system so shortened.  (The empty function makes TLC compute it once.)
Shortened(ops) == [op \in DOMAIN ops |-> Merged(ops[op])] @@ <<>>
=============================================================================
