------------------------- MODULE ProcedureOutlines --------------------------
(***************************************************************************)
(* Proof outlines for the procedures of HostOperations.                    *)
(*                                                                         *)
(* An outline gives every step of a procedure a set of facts, one of which *)
(* holds whenever the procedure has come to that step.  A fact says of     *)
(* each resource by itself what may be true of it: that it was there when  *)
(* the operation began (old), is there now (now), could not be removed     *)
(* (odd), could not be made or put back (lost).                            *)
(*                                                                         *)
(* Laws are what holds between operations and inside them: when all of     *)
(* l.if is there, some of l.then is.  The laws at rest (rest) hold while   *)
(* no operation is under way.  What an operation does is followed with and *)
(* without each of the resources in cases.                                 *)
(*                                                                         *)
(* Outlined(s) is the condition on text alone under which the operations   *)
(* of the system s keep their promises: the facts follow from each other   *)
(* step by step, along every success, failure and exit of the guest, every *)
(* step keeps the laws, and the facts at the ends give the promises.       *)
(***************************************************************************)
EXTENDS HostOperations

CONSTANTS Outline,  \* system -> options -> operation -> step -> facts
          Laws      \* system -> options -> [all, laws, rest, cases]

\* What is true of the resource r, with the resources h, the residue x, in the call c.
Standing(r, h, x, c) ==
  (IF r \in c.before THEN {"old"} ELSE {}) \cup (IF r \in h THEN {"now"} ELSE {}) \cup
  (IF r \in x THEN {"odd"} ELSE {}) \cup (IF r \in c.missing THEN {"lost"} ELSE {})

Fact(res, faults, due) == [res |-> res, faults |-> faults, due |-> due]

Holds(L, f, h, x, c) ==
  /\ \A r \in L.all : <<r, Standing(r, h, x, c)>> \in f.res
  /\ f.faults = c.faults
  /\ f.due = c.due

Obeys(laws, h) == \A l \in laws : l.if \subseteq h => l.then \cap h # {}
Lawful(L, h) == h \subseteq L.all /\ Obeys(L.laws, h)
Rested(L) == [all |-> L.all, laws |-> L.laws \cup L.rest]

MayBe(f, r) == \E v \in f.res : v[1] = r /\ "now" \in v[2]
MayNotBe(f, r) == \E v \in f.res : v[1] = r /\ "now" \notin v[2]
Possible(L, f) == L.all \subseteq {v[1] : v \in f.res}

-----------------------------------------------------------------------------
(* What follows from a fact f. *)

\* By the laws.
Urges(f, l, r) ==
  /\ \A a \in l.if \ {r} : ~MayNotBe(f, a)
  /\ \A a \in l.then \ {r} : ~MayBe(f, a)
Sharp(L, f) ==
  Fact({v \in f.res : \A l \in L.laws :
          v[1] \in (IF "now" \in v[2] THEN l.if ELSE l.then) => ~Urges(f, l, v[1])},
       f.faults, f.due)

\* When the resources R are seen to be there, or not to be there.
SeenThere(L, f, R) ==
  Sharp(L, Fact({v \in f.res : v[1] \in R => "now" \in v[2]}, f.faults, f.due))
SeenGone(L, f, R) ==
  Sharp(L, Fact({v \in f.res : v[1] \in R => "now" \notin v[2]}, f.faults, f.due))

\* When they have been made, removed, or removed but for some.
Others(f, R) == {v \in f.res : v[1] \notin R}
These(f, R) == {v \in f.res : v[1] \in R}
Made(f, R) ==
  Fact(Others(f, R) \cup {<<v[1], v[2] \cup {"now"}>> : v \in These(f, R)}, f.faults, f.due)
Removed(f, R) ==
  Fact(Others(f, R) \cup {<<v[1], v[2] \ {"now", "odd"}>> : v \in These(f, R)},
       f.faults, f.due)
Cleaned(f, R) ==
  Fact(Removed(f, R).res \cup
         {<<v[1], v[2] \cup {"odd"}>> : v \in {w \in These(f, R) : "now" \in w[2]}},
       f.faults + 1, f.due)

\* When the guest has gone.
Exited(L, f, guest) ==
  Fact(Others(f, guest) \cup {<<r, {"lost"}>> : r \in guest \cap L.all}, f.faults, FALSE)

Faulted(f) == Fact(f.res, f.faults + 1, f.due)

\* When the step s has failed: what becomes of the resource r, of which q was true, when
\* the error path cannot remove left nor put back lost.  made and removed is the work
\* that an error which is only logged leaves undone.
AfterError(s, r, q, left, lost, made, removed) ==
  LET there == \/ "now" \in q /\ r \notin s.undo
               \/ r \in left
               \/ "old" \in q /\ r \in s.redo \ lost
      odd == "odd" \in q \/ r \in left \cup removed
  IN (q \cap {"old", "lost"}) \cup (IF there THEN {"now"} ELSE {}) \cup
     (IF there /\ odd THEN {"odd"} ELSE {}) \cup
     (IF r \in made \cup lost THEN {"lost"} ELSE {})
Broken(f, s, made, removed) ==
  LET spare == f.faults < MaxFaults
      Kept(v) == {{}} \cup (IF spare /\ "now" \in v[2] THEN {s.undo \cap {v[1]}} ELSE {})
      NotBack(v) == {{}} \cup (IF spare /\ "old" \in v[2] THEN {s.redo \cap {v[1]}} ELSE {})
  IN Fact(UNION {{<<v[1], AfterError(s, v[1], v[2], left, lost, made, removed)>> :
                    left \in Kept(v), lost \in NotBack(v)} : v \in f.res},
          f.faults, f.due)

-----------------------------------------------------------------------------
(* Where the step k of p leads from a fact f, with the options o: the steps it may be
   followed by, each with the fact behind it and the resources it may have made (on) and
   removed (off).  L are the laws of the system. *)

Edge(n, f, on, off) == [at |-> n, fact |-> f, on |-> on, off |-> off]

Flow(L, p, o, k, f) ==
  LET s == p[k]
      To(n, g) == Edge(k + n, g, {}, {})
      c == s.r \ o
  IN CASE s.op = "jump" -> {Edge(IF s.to = 0 THEN 0 ELSE k + s.to, f, {}, {})}
       [] s.op = "when" ->
            {To(1, SeenThere(L, f, c))} \cup {To(s.to, SeenGone(L, f, {r})) : r \in c}
       [] s.op = "unless" ->
            {To(s.to, SeenThere(L, f, c))} \cup {To(1, SeenGone(L, f, {r})) : r \in c}
       [] s.op = "maybe" -> {To(1, f), To(s.to, f)}
       [] s.op = "make" -> {Edge(k + s.to, Made(SeenGone(L, f, s.r), s.r), s.r, {})}
       [] s.op \in {"ensure", "note"} -> {Edge(k + s.to, Made(f, s.r), s.r, {})}
       [] s.op \in {"drop", "forget"} -> {Edge(k + s.to, Removed(f, s.r), {}, s.r)}
       [] s.op = "clean" ->
            {Edge(k + 1, Removed(f, s.r), {}, s.r)} \cup
            (IF f.faults < MaxFaults THEN {Edge(k + 1, Cleaned(f, s.r), {}, s.r)} ELSE {})
       [] s.op = "try" -> {To(s.to, f)}
       [] s.op = "await" -> {To(s.to, SeenGone(L, f, s.r))}
       [] OTHER -> {}

\* The facts with which the step is refused or fails.
Errors(L, p, k, f) ==
  LET s == p[k]
      fault == IF f.faults < MaxFaults THEN {Faulted(f)} ELSE {}
  IN CASE s.op = "fail" -> {f}
       [] s.op = "make" ->
            {SeenThere(L, f, {r}) : r \in s.r} \cup {SeenGone(L, g, s.r) : g \in fault}
       [] s.op = "await" -> UNION {{SeenThere(L, g, {r}) : r \in s.r} : g \in fault}
       [] s.op \in {"ensure", "drop", "try"} -> fault
       [] OTHER -> {}
Fall(L, p, k, f) ==
  LET s == p[k]
      made == IF s.lax = 0 THEN {} ELSE Left(p, k, {"make", "ensure", "note"})
      removed == IF s.lax = 0 THEN {} ELSE Left(p, k, {"drop", "clean", "forget", "try", "fail"})
  IN {Edge(k + s.lax, Broken(g, s, made, removed), s.redo, s.undo) : g \in Errors(L, p, k, f)}

-----------------------------------------------------------------------------
(* The conditions. *)

KnownOf(X, op) == {k[2] : k \in {x \in X.known : x[1] = op}}

\* The fact f says that the law l is obeyed.
Assures(f, l) == (\E a \in l.if : ~MayBe(f, a)) \/ (\E a \in l.then : ~MayNotBe(f, a))

\* What the fact at the end of an operation gives.
GivesSuccess(X, L, op, f) ==
  /\ \A l \in L.rest : Assures(f, l)
  /\ Of(X.gives, op) \ KnownOf(X, op) \subseteq L.all
  /\ \A v \in f.res : v[1] \notin KnownOf(X, op) =>
       /\ v[1] \in Of(X.gives, op) => v[2] \cap {"now", "lost"} # {}
       /\ v[1] \in Of(X.takes, op) /\ "now" \in v[2] => "odd" \in v[2]
GivesFailure(X, L, op, f) ==
  /\ \A l \in L.rest : Assures(f, l)
  /\ op \in X.additive =>
       \A v \in f.res : v[1] \notin KnownOf(X, op) \cup X.shared =>
         /\ "now" \in v[2] => v[2] \cap {"old", "odd"} # {}
         /\ "old" \in v[2] => v[2] \cap {"now", "lost"} # {}
  /\ f.due /\ f.faults = 0 => <<op, "stuck">> \in X.known

\* A step to the fact e.fact keeps the laws.
KeepsLaws(L, e) ==
  \A l \in L.laws : l.if \cap e.on # {} \/ l.then \cap e.off # {} => Assures(e.fact, l)

\* The outline F of the operation has at step n a fact that follows from f.
Within(f, g) ==
  f.faults = g.faults /\ f.due = g.due /\ f.res \subseteq g.res
Continues(X, L, F, op, n, f) ==
  IF n \in DOMAIN F THEN \E g \in F[n] : Within(f, g) ELSE GivesSuccess(X, L, op, f)
Leads(X, L, F, op, e) ==
  Possible(L, e.fact) =>
    /\ KeepsLaws(L, e)
    /\ LET f == Sharp(L, e.fact) IN Possible(L, f) => Continues(X, L, F, op, e.at, f)

\* What may be known when an operation begins.
AtBegin(X, L, op, due) ==
  Fact({<<r, {}>> : r \in L.all} \cup
         {<<r, {"now"} \cup (IF op \in X.additive THEN {"old"} ELSE {})>> : r \in L.all},
       0, due)
Starts(X, L, op) ==
  LET R == Rested(L)
      InCase(there, f) == SeenGone(R, SeenThere(R, f, there), L.cases \ there)
      due == SeenThere(R, AtBegin(X, L, op, TRUE), X.certain[op])
  IN UNION {{InCase(there, AtBegin(X, L, op, FALSE))} \cup
              (IF op \in DOMAIN X.certain THEN {InCase(there, due)} ELSE {}) :
            there \in SUBSET L.cases}
Begins(X, L, F, op) == \A f \in Starts(X, L, op) : Leads(X, L, F, op, Edge(1, f, {}, {}))

\* The step k of p, from any of its facts.
StepFollows(X, L, p, F, o, op, k) ==
  \A f \in F[k] :
    /\ \A e \in Flow(L, p, o, k, f) : Leads(X, L, F, op, e)
    /\ \A e \in Fall(L, p, k, f) :
         IF p[k].lax # 0 THEN Leads(X, L, F, op, e)
         ELSE Possible(L, e.fact) => KeepsLaws(L, e) /\ GivesFailure(X, L, op, e.fact)
    /\ (\E r \in X.guest \cap L.all : MayBe(f, r)) =>
         Leads(X, L, F, op, Edge(k, Exited(L, f, X.guest), {}, {}))

\* The steps of p only go forward, and are about the resources of the system.
WellFormed(L, p, o) ==
  /\ Len(p) \in Nat
  /\ \A k \in 1 .. Len(p) : LET s == p[k] IN
    /\ s.to \in Nat /\ s.lax \in Nat
    /\ s.op # "jump" => s.to > 0
    /\ s.op = "clean" => s.to = 1
    /\ s.r \ o \subseteq L.all /\ s.undo \cup s.redo \subseteq L.all
    /\ s.op \notin {"when", "unless"} => s.r \subseteq L.all

\* What goes away by itself keeps the laws, and the guest does not outlive the record.
LawsStand(X, L) ==
  /\ \A l \in L.laws \cup L.rest : l.if \cup l.then \subseteq L.all /\ l.if \cap l.then = {}
  /\ \A h \in X.starts : Lawful(Rested(L), h)
  /\ \A gone \in {X.guest, X.memory, X.memory \cup X.volatile}, l \in L.laws \cup L.rest :
       l.then \cap gone # {} => l.if \cap gone # {}
  /\ \A l \in L.rest : l.if \cap X.memory # {}
  /\ \/ \E r \in X.guest : <<"delete", r>> \in X.known
     \/ \A r \in X.guest \cap L.all, k \in X.record :
          \E l \in L.laws : l.if \subseteq {r} /\ l.then \subseteq {k}

\* F is an outline of the procedures ps of the system X, with the options o.
SoundOutline(X, L, ps, F, o) ==
  /\ LawsStand(X, L)
  /\ \A op \in DOMAIN ps :
       /\ WellFormed(L, ps[op], o)
       /\ DOMAIN F[op] = 1 .. Len(ps[op])
       /\ Begins(X, L, F[op], op)
       /\ \A k \in 1 .. Len(ps[op]) : StepFollows(X, L, ps[op], F[op], o, op, k)
Outlined(s) ==
  \A o \in Systems[s].options :
    SoundOutline(Systems[s], Laws[s][o], Programs[s], Outline[s][o], o)
=============================================================================
