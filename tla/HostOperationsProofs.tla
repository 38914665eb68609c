------------------------ MODULE HostOperationsProofs ------------------------
(***************************************************************************)
(* Proofs about HostOperations for any systems and procedures: the         *)
(* operations of every system whose outline holds keep their promises.     *)
(* Outlined is a condition on the text of the procedures, and the run      *)
(* evaluates it for each of the systems the providers make up.             *)
(***************************************************************************)
EXTENDS ProcedureOutlines, WellFoundedInduction, TLAPS

-----------------------------------------------------------------------------
(* What is true of one resource. *)

(* The members of a standing, one by one. *)
LEMMA StandingMembers ==
    ASSUME NEW r, NEW h, NEW x, NEW c, NEW t
    PROVE  t \in Standing(r, h, x, c) <=>
             \/ t = "old" /\ r \in c.before
             \/ t = "now" /\ r \in h
             \/ t = "odd" /\ r \in x
             \/ t = "lost" /\ r \in c.missing
  BY DEF Standing

(* A standing depends on the resource only through the four memberships. *)
LEMMA StandingSame ==
    ASSUME NEW r, NEW h, NEW x, NEW c, NEW h2, NEW x2, NEW c2,
           r \in h2 <=> r \in h, r \in x2 <=> r \in x,
           r \in c2.before <=> r \in c.before, r \in c2.missing <=> r \in c.missing
    PROVE  Standing(r, h2, x2, c2) = Standing(r, h, x, c)
  BY DEF Standing

(* A standing is the set that has just those members. *)
LEMMA StandingIs ==
    ASSUME NEW r, NEW h, NEW x, NEW c, NEW q,
           \A t \in q : t \in {"old", "now", "odd", "lost"},
           "old" \in q <=> r \in c.before, "now" \in q <=> r \in h,
           "odd" \in q <=> r \in x, "lost" \in q <=> r \in c.missing
    PROVE  q = Standing(r, h, x, c)
<1>1. ASSUME NEW t PROVE t \in q <=> t \in Standing(r, h, x, c)
  BY StandingMembers
<1> QED
  BY <1>1

-----------------------------------------------------------------------------
(* What follows from a fact that holds. *)

(* The laws are about resources of the system. *)
LawsKnown(L) ==
  \A l \in L.laws : l.if \cup l.then \subseteq L.all /\ l.if \cap l.then = {}

LEMMA HoldsMay ==
    ASSUME NEW L, NEW f, NEW h, NEW x, NEW c, Holds(L, f, h, x, c), NEW r \in L.all
    PROVE  (r \in h => MayBe(f, r)) /\ (r \notin h => MayNotBe(f, r))
<1> DEFINE v == <<r, Standing(r, h, x, c)>>
<1>1. v \in f.res
  BY DEF Holds
<1>2. v[1] = r /\ ("now" \in v[2] <=> r \in h)
  BY StandingMembers
<1> HIDE DEF v
<1> QED
  BY <1>1, <1>2 DEF MayBe, MayNotBe

LEMMA HoldsPossible ==
    ASSUME NEW L, NEW f, NEW h, NEW x, NEW c, Holds(L, f, h, x, c)
    PROVE  Possible(L, f)
<1> SUFFICES ASSUME NEW r \in L.all PROVE \E v \in f.res : v[1] = r
  BY DEF Possible
<1>1. <<r, Standing(r, h, x, c)>> \in f.res
  BY DEF Holds
<1> QED
  BY <1>1

LEMMA HoldsWithin ==
    ASSUME NEW L, NEW f, NEW g, NEW h, NEW x, NEW c, Holds(L, f, h, x, c), Within(f, g)
    PROVE  Holds(L, g, h, x, c)
  BY DEF Holds, Within

(* The laws sharpen a fact, and it goes on to hold. *)
LEMMA SharpHolds ==
    ASSUME NEW L, NEW f, NEW h, NEW x, NEW c, LawsKnown(L), Lawful(L, h), Holds(L, f, h, x, c)
    PROVE  Holds(L, Sharp(L, f), h, x, c)
<1>1. ASSUME NEW r \in L.all PROVE <<r, Standing(r, h, x, c)>> \in Sharp(L, f).res
  <2> DEFINE v == <<r, Standing(r, h, x, c)>>
  <2>1. v \in f.res
    BY DEF Holds
  <2>2. v[1] = r /\ ("now" \in v[2] <=> r \in h)
    BY StandingMembers
  <2> HIDE DEF v
  <2>3. ASSUME NEW l \in L.laws, v[1] \in (IF "now" \in v[2] THEN l.if ELSE l.then),
               Urges(f, l, r)
        PROVE  FALSE
    <3>1. /\ l.if \cup l.then \subseteq L.all /\ l.if \cap l.then = {}
          /\ l.if \subseteq h => l.then \cap h # {}
      BY DEF LawsKnown, Lawful, Obeys
    <3>2. \A a \in l.if \ {r} : a \in h
      BY <2>3, <3>1, HoldsMay DEF Urges
    <3>3. \A a \in l.then \ {r} : a \notin h
      BY <2>3, <3>1, HoldsMay DEF Urges
    <3>4. CASE r \in h
      <4>1. r \in l.if
        BY <2>2, <2>3, <3>4
      <4> QED
        BY <3>1, <3>2, <3>3, <3>4, <4>1
    <3>5. CASE r \notin h
      <4>1. r \in l.then
        BY <2>2, <2>3, <3>5
      <4> QED
        BY <3>1, <3>2, <3>3, <3>5, <4>1
    <3> QED
      BY <3>4, <3>5
  <2>4. v \in Sharp(L, f).res
    BY <2>1, <2>2, <2>3 DEF Sharp, Fact
  <2> QED
    BY <2>4 DEF v
<1>2. Sharp(L, f).faults = f.faults /\ Sharp(L, f).due = f.due
  BY DEF Sharp, Fact
<1> QED
  BY <1>1, <1>2 DEF Holds

LEMMA SeenThereHolds ==
    ASSUME NEW L, NEW f, NEW h, NEW x, NEW c, LawsKnown(L), Lawful(L, h), Holds(L, f, h, x, c),
           NEW R, R \subseteq h
    PROVE  Holds(L, SeenThere(L, f, R), h, x, c)
<1> DEFINE g == Fact({v \in f.res : v[1] \in R => "now" \in v[2]}, f.faults, f.due)
<1>1. ASSUME NEW r \in L.all PROVE <<r, Standing(r, h, x, c)>> \in g.res
  <2> DEFINE v == <<r, Standing(r, h, x, c)>>
  <2>1. v \in f.res /\ v[1] = r /\ ("now" \in v[2] <=> r \in h)
    BY StandingMembers DEF Holds
  <2> HIDE DEF v
  <2>2. v \in g.res
    BY <2>1 DEF Fact
  <2> QED
    BY <2>2 DEF v
<1>2. Holds(L, g, h, x, c)
  BY <1>1 DEF Holds, Fact
<1> HIDE DEF g
<1>3. Holds(L, Sharp(L, g), h, x, c)
  BY <1>2, SharpHolds
<1> QED
  BY <1>3 DEF g, SeenThere

LEMMA SeenGoneHolds ==
    ASSUME NEW L, NEW f, NEW h, NEW x, NEW c, LawsKnown(L), Lawful(L, h), Holds(L, f, h, x, c),
           NEW R, R \cap h = {}
    PROVE  Holds(L, SeenGone(L, f, R), h, x, c)
<1> DEFINE g == Fact({v \in f.res : v[1] \in R => "now" \notin v[2]}, f.faults, f.due)
<1>1. ASSUME NEW r \in L.all PROVE <<r, Standing(r, h, x, c)>> \in g.res
  <2> DEFINE v == <<r, Standing(r, h, x, c)>>
  <2>1. v \in f.res /\ v[1] = r /\ ("now" \in v[2] <=> r \in h)
    BY StandingMembers DEF Holds
  <2> HIDE DEF v
  <2>2. v \in g.res
    BY <2>1 DEF Fact
  <2> QED
    BY <2>2 DEF v
<1>2. Holds(L, g, h, x, c)
  BY <1>1 DEF Holds, Fact
<1> HIDE DEF g
<1>3. Holds(L, Sharp(L, g), h, x, c)
  BY <1>2, SharpHolds
<1> QED
  BY <1>3 DEF g, SeenGone

LEMMA FaultedHolds ==
    ASSUME NEW L, NEW f, NEW h, NEW x, NEW c, NEW c2, Holds(L, f, h, x, c),
           c2.before = c.before, c2.missing = c.missing, c2.due = c.due,
           c2.faults = c.faults + 1
    PROVE  Holds(L, Faulted(f), h, x, c2)
<1>1. ASSUME NEW r PROVE Standing(r, h, x, c2) = Standing(r, h, x, c)
  BY DEF Standing
<1> QED
  BY <1>1 DEF Holds, Faulted, Fact

LEMMA MadeHolds ==
    ASSUME NEW L, NEW f, NEW h, NEW x, NEW c, Holds(L, f, h, x, c), NEW R, x \subseteq h
    PROVE  Holds(L, Made(f, R), h \cup R, x \cap (h \cup R), c)
<1>1. ASSUME NEW r \in L.all
      PROVE <<r, Standing(r, h \cup R, x \cap (h \cup R), c)>> \in Made(f, R).res
  <2> DEFINE v == <<r, Standing(r, h, x, c)>>
  <2>1. v \in f.res
    BY DEF Holds
  <2>2. CASE r \notin R
    <3>1. Standing(r, h \cup R, x \cap (h \cup R), c) = Standing(r, h, x, c)
      BY <2>2, StandingSame
    <3>2. v[1] = r
      OBVIOUS
    <3>3. v \in Others(f, R)
      BY <2>1, <2>2, <3>2 DEF Others
    <3> QED
      BY <3>1, <3>3 DEF Made, Fact
  <2>3. CASE r \in R
    <3>1. Standing(r, h, x, c) \cup {"now"} = Standing(r, h \cup R, x \cap (h \cup R), c)
      <4> DEFINE q == Standing(r, h, x, c) \cup {"now"}
      <4>1. /\ \A t \in q : t \in {"old", "now", "odd", "lost"}
            /\ "old" \in q <=> r \in c.before
            /\ "now" \in q <=> r \in h \cup R
            /\ "odd" \in q <=> r \in x \cap (h \cup R)
            /\ "lost" \in q <=> r \in c.missing
        BY <2>3, StandingMembers
      <4> HIDE DEF q
      <4>2. q = Standing(r, h \cup R, x \cap (h \cup R), c)
        BY <4>1, StandingIs
      <4> QED
        BY <4>2 DEF q
    <3>2. v[1] = r /\ v[2] = Standing(r, h, x, c)
      OBVIOUS
    <3>3. v \in These(f, R)
      BY <2>1, <2>3, <3>2 DEF These
    <3> HIDE DEF v
    <3>4. <<v[1], v[2] \cup {"now"}>> \in Made(f, R).res
      BY <3>3 DEF Made, Fact
    <3> QED
      BY <3>1, <3>2, <3>4
  <2> QED
    BY <2>2, <2>3
<1> QED
  BY <1>1 DEF Holds, Made, Fact

LEMMA RemovedHolds ==
    ASSUME NEW L, NEW f, NEW h, NEW x, NEW c, Holds(L, f, h, x, c), NEW R, x \subseteq h
    PROVE  Holds(L, Removed(f, R), h \ R, x \cap (h \ R), c)
<1>1. ASSUME NEW r \in L.all
      PROVE <<r, Standing(r, h \ R, x \cap (h \ R), c)>> \in Removed(f, R).res
  <2> DEFINE v == <<r, Standing(r, h, x, c)>>
  <2>1. v \in f.res
    BY DEF Holds
  <2>2. CASE r \notin R
    <3>1. Standing(r, h \ R, x \cap (h \ R), c) = Standing(r, h, x, c)
      BY <2>2, StandingSame
    <3>2. v[1] = r
      OBVIOUS
    <3>3. v \in Others(f, R)
      BY <2>1, <2>2, <3>2 DEF Others
    <3> QED
      BY <3>1, <3>3 DEF Removed, Fact
  <2>3. CASE r \in R
    <3>1. Standing(r, h, x, c) \ {"now", "odd"} = Standing(r, h \ R, x \cap (h \ R), c)
      <4> DEFINE q == Standing(r, h, x, c) \ {"now", "odd"}
      <4>1. /\ \A t \in q : t \in {"old", "now", "odd", "lost"}
            /\ "old" \in q <=> r \in c.before
            /\ "now" \in q <=> r \in h \ R
            /\ "odd" \in q <=> r \in x \cap (h \ R)
            /\ "lost" \in q <=> r \in c.missing
        BY <2>3, StandingMembers
      <4> HIDE DEF q
      <4>2. q = Standing(r, h \ R, x \cap (h \ R), c)
        BY <4>1, StandingIs
      <4> QED
        BY <4>2 DEF q
    <3>2. v[1] = r /\ v[2] = Standing(r, h, x, c)
      OBVIOUS
    <3>3. v \in These(f, R)
      BY <2>1, <2>3, <3>2 DEF These
    <3> HIDE DEF v
    <3>4. <<v[1], v[2] \ {"now", "odd"}>> \in Removed(f, R).res
      BY <3>3 DEF Removed, Fact
    <3> QED
      BY <3>1, <3>2, <3>4
  <2> QED
    BY <2>2, <2>3
<1> QED
  BY <1>1 DEF Holds, Removed, Fact

LEMMA CleanedHolds ==
    ASSUME NEW L, NEW f, NEW h, NEW x, NEW c, NEW c2, Holds(L, f, h, x, c), NEW R, x \subseteq h,
           NEW left, left \subseteq R \cap h,
           c2.before = c.before, c2.missing = c.missing, c2.due = c.due,
           c2.faults = c.faults + 1
    PROVE  Holds(L, Cleaned(f, R), (h \ R) \cup left,
                 (x \cap ((h \ R) \cup left)) \cup left, c2)
<1> DEFINE h2 == (h \ R) \cup left
           x2 == (x \cap h2) \cup left
<1>1. ASSUME NEW r \in L.all
      PROVE <<r, Standing(r, h2, x2, c2)>> \in Cleaned(f, R).res
  <2>1. CASE r \notin left
    <3>1. <<r, Standing(r, h \ R, x \cap (h \ R), c)>> \in Removed(f, R).res
      BY RemovedHolds DEF Holds
    <3>2. Standing(r, h2, x2, c2) = Standing(r, h \ R, x \cap (h \ R), c)
      BY <2>1, StandingSame
    <3> QED
      BY <3>1, <3>2 DEF Cleaned, Fact
  <2>2. CASE r \in left
    <3> DEFINE v == <<r, Standing(r, h, x, c)>>
    <3>1. v \in f.res /\ v[1] = r /\ "now" \in v[2] /\ v[2] = Standing(r, h, x, c)
      BY <2>2, StandingMembers DEF Holds
    <3>2. Standing(r, h, x, c) \cup {"odd"} = Standing(r, h2, x2, c2)
      <4> DEFINE q == Standing(r, h, x, c) \cup {"odd"}
      <4>1. /\ \A t \in q : t \in {"old", "now", "odd", "lost"}
            /\ "old" \in q <=> r \in c2.before
            /\ "now" \in q <=> r \in h2
            /\ "odd" \in q <=> r \in x2
            /\ "lost" \in q <=> r \in c2.missing
        BY <2>2, StandingMembers
      <4> HIDE DEF q, h2, x2
      <4>2. q = Standing(r, h2, x2, c2)
        BY <4>1, StandingIs
      <4> QED
        BY <4>2 DEF q
    <3> HIDE DEF v, h2, x2
    <3>3. v \in {w \in These(f, R) : "now" \in w[2]}
      BY <2>2, <3>1 DEF These
    <3>4. <<v[1], v[2] \cup {"odd"}>> \in Cleaned(f, R).res
      BY <3>3 DEF Cleaned, Fact
    <3> QED
      BY <3>1, <3>2, <3>4
  <2> QED
    BY <2>1, <2>2
<1> HIDE DEF h2, x2
<1>2. Holds(L, Cleaned(f, R), h2, x2, c2)
  BY <1>1 DEF Holds, Cleaned, Fact
<1> QED
  BY <1>2 DEF h2, x2

LEMMA ExitedHolds ==
    ASSUME NEW L, NEW f, NEW h, NEW x, NEW c, NEW c2, Holds(L, f, h, x, c), NEW guest,
           c2.before = c.before \ guest, c2.missing = c.missing \cup guest, c2.due = FALSE,
           c2.faults = c.faults
    PROVE  Holds(L, Exited(L, f, guest), h \ guest, x \ guest, c2)
<1>1. ASSUME NEW r \in L.all
      PROVE <<r, Standing(r, h \ guest, x \ guest, c2)>> \in Exited(L, f, guest).res
  <2>1. CASE r \notin guest
    <3>1. Standing(r, h \ guest, x \ guest, c2) = Standing(r, h, x, c)
      BY <2>1, StandingSame
    <3> DEFINE v == <<r, Standing(r, h, x, c)>>
    <3>2. v \in f.res /\ v[1] = r
      BY DEF Holds
    <3>3. v \in Others(f, guest)
      BY <2>1, <3>2 DEF Others
    <3> QED
      BY <3>1, <3>3 DEF Exited, Fact
  <2>2. CASE r \in guest
    <3>1. {"lost"} = Standing(r, h \ guest, x \ guest, c2)
      BY <2>2 DEF Standing
    <3> QED
      BY <2>2, <3>1 DEF Exited, Fact
  <2> QED
    BY <2>1, <2>2
<1> QED
  BY <1>1 DEF Holds, Exited, Fact

(* The error path of the step s: left could not be removed, lost could not be put back. *)
ErrorPath(s, h, x, c, left, lost, made, removed, h2, x2, c2) ==
  /\ left \subseteq s.undo \cap h /\ lost \subseteq s.redo \cap c.before
  /\ left \cup lost # {} => c.faults < MaxFaults
  /\ h2 = (h \ s.undo) \cup left \cup ((s.redo \cap c.before) \ lost)
  /\ x2 = (x \cup left \cup removed) \cap h2
  /\ c2.before = c.before /\ c2.missing = c.missing \cup made \cup lost
  /\ c2.due = c.due /\ c2.faults = c.faults

LEMMA BrokenHolds ==
    ASSUME NEW L, NEW f, NEW h, NEW x, NEW c, NEW c2, Holds(L, f, h, x, c),
           NEW s, NEW left, NEW lost, NEW made, NEW removed, NEW h2, NEW x2,
           ErrorPath(s, h, x, c, left, lost, made, removed, h2, x2, c2)
    PROVE  Holds(L, Broken(f, s, made, removed), h2, x2, c2)
<1>1. /\ left \subseteq s.undo \cap h /\ lost \subseteq s.redo \cap c.before
      /\ left \cup lost # {} => c.faults < MaxFaults
      /\ h2 = (h \ s.undo) \cup left \cup ((s.redo \cap c.before) \ lost)
      /\ x2 = (x \cup left \cup removed) \cap h2
      /\ c2.before = c.before /\ c2.missing = c.missing \cup made \cup lost
      /\ c2.due = c.due /\ c2.faults = c.faults
  BY DEF ErrorPath
<1>2. ASSUME NEW r \in L.all
      PROVE  <<r, Standing(r, h2, x2, c2)>> \in Broken(f, s, made, removed).res
  <2> DEFINE v == <<r, Standing(r, h, x, c)>>
             lr == left \cap {r}
             tr == lost \cap {r}
             Kept(w) == {{}} \cup (IF f.faults < MaxFaults /\ "now" \in w[2] THEN {s.undo \cap {w[1]}} ELSE {})
             NotBack(w) == {{}} \cup (IF f.faults < MaxFaults /\ "old" \in w[2] THEN {s.redo \cap {w[1]}} ELSE {})
             q == AfterError(s, r, Standing(r, h, x, c), lr, tr, made, removed)
  <2>1. v \in f.res /\ v[1] = r /\ v[2] = Standing(r, h, x, c)
    BY DEF Holds
  <2>2. ("now" \in v[2] <=> r \in h) /\ ("old" \in v[2] <=> r \in c.before)
    BY <2>1, StandingMembers
  <2>3. f.faults = c.faults
    BY DEF Holds
  <2> HIDE DEF v
  <2>4. lr \in Kept(v)
    <3>1. CASE r \in left
      <4>1. lr = s.undo \cap {v[1]}
        BY <1>1, <2>1, <3>1
      <4> HIDE DEF lr
      <4> QED
        BY <1>1, <2>2, <2>3, <3>1, <4>1
    <3>2. CASE r \notin left
      BY <3>2
    <3> QED
      BY <3>1, <3>2
  <2>5. tr \in NotBack(v)
    <3>1. CASE r \in lost
      <4>1. tr = s.redo \cap {v[1]}
        BY <1>1, <2>1, <3>1
      <4> HIDE DEF tr
      <4> QED
        BY <1>1, <2>2, <2>3, <3>1, <4>1
    <3>2. CASE r \notin lost
      BY <3>2
    <3> QED
      BY <3>1, <3>2
  <2>6. q = Standing(r, h2, x2, c2)
    <3>1. /\ "old" \in Standing(r, h, x, c) <=> r \in c.before
          /\ "now" \in Standing(r, h, x, c) <=> r \in h
          /\ "odd" \in Standing(r, h, x, c) <=> r \in x
          /\ "lost" \in Standing(r, h, x, c) <=> r \in c.missing
      BY StandingMembers
    <3>2. (r \in lr <=> r \in left) /\ (r \in tr <=> r \in lost)
      OBVIOUS
    <3> HIDE DEF lr, tr
    <3>3. \A t \in q : t \in {"old", "now", "odd", "lost"}
      BY DEF AfterError
    <3>4. "old" \in q <=> r \in c2.before
      BY <1>1, <3>1 DEF AfterError
    <3>5. "now" \in q <=> r \in h2
      BY <1>1, <3>1, <3>2 DEF AfterError
    <3>6. "odd" \in q <=> r \in x2
      BY <1>1, <3>1, <3>2 DEF AfterError
    <3>7. "lost" \in q <=> r \in c2.missing
      BY <1>1, <3>1, <3>2 DEF AfterError
    <3> HIDE DEF q
    <3> QED
      BY <3>3, <3>4, <3>5, <3>6, <3>7, StandingIs
  <2> HIDE DEF Kept, NotBack, lr, tr
  <2>7. <<v[1], AfterError(s, v[1], v[2], lr, tr, made, removed)>> \in Broken(f, s, made, removed).res
    BY <2>1, <2>4, <2>5 DEF Broken, Fact, Kept, NotBack
  <2> QED
    BY <2>1, <2>6, <2>7
<1>3. /\ Broken(f, s, made, removed).faults = f.faults
      /\ Broken(f, s, made, removed).due = f.due
  BY DEF Broken, Fact
<1> QED
  BY <1>1, <1>2, <1>3 DEF Holds

-----------------------------------------------------------------------------
(* The laws. *)

(* A step that keeps the laws leads to resources that obey them. *)
LEMMA LawsKept ==
    ASSUME NEW L, NEW e, NEW h, NEW h2, NEW x2, NEW c2, LawsKnown(L), Lawful(L, h),
           KeepsLaws(L, e), Holds(L, e.fact, h2, x2, c2), h2 \subseteq L.all,
           h2 \subseteq h \cup e.on, h \ e.off \subseteq h2
    PROVE  Lawful(L, h2)
<1>1. ASSUME NEW r \in L.all
      PROVE  (r \in h2 => MayBe(e.fact, r)) /\ (r \notin h2 => MayNotBe(e.fact, r))
  BY HoldsMay
<1>2. ASSUME NEW l \in L.laws, l.if \subseteq h2, l.then \cap h2 = {} PROVE FALSE
  <2>1. l.if \cup l.then \subseteq L.all
    BY DEF LawsKnown
  <2>2. ~Assures(e.fact, l)
    BY <1>1, <1>2, <2>1 DEF Assures
  <2>3. l.if \cap e.on = {} /\ l.then \cap e.off = {}
    BY <2>2 DEF KeepsLaws
  <2>4. l.if \subseteq h
    BY <1>2, <2>3
  <2>5. PICK a \in l.then : a \in h
    BY <2>4 DEF Lawful, Obeys
  <2> QED
    BY <1>2, <2>3, <2>5
<1> QED
  BY <1>2 DEF Lawful, Obeys

(* What a fact assures is so. *)
LEMMA AssuredHolds ==
    ASSUME NEW L, NEW laws, NEW f, NEW h, NEW x, NEW c, Holds(L, f, h, x, c),
           \A l \in laws : l.if \cup l.then \subseteq L.all, \A l \in laws : Assures(f, l)
    PROVE  Obeys(laws, h)
<1> SUFFICES ASSUME NEW l \in laws, l.if \subseteq h PROVE l.then \cap h # {}
  BY DEF Obeys
<1>1. l.if \cup l.then \subseteq L.all /\ Assures(f, l)
  OBVIOUS
<1>2. \A a \in l.if : MayBe(f, a)
  BY <1>1, HoldsMay
<1>3. PICK a \in l.then : ~MayNotBe(f, a)
  BY <1>1, <1>2 DEF Assures
<1>4. a \in h
  BY <1>1, <1>3, HoldsMay
<1> QED
  BY <1>4

(* What goes away by itself leaves resources that obey the laws. *)
LEMMA LawsAfterLoss ==
    ASSUME NEW laws, NEW h, NEW gone, Obeys(laws, h),
           \A l \in laws : l.then \cap gone # {} => l.if \cap gone # {}
    PROVE  Obeys(laws, h \ gone)
<1> SUFFICES ASSUME NEW l \in laws, l.if \subseteq h \ gone PROVE l.then \cap (h \ gone) # {}
  BY DEF Obeys
<1>1. l.then \cap h # {} /\ l.then \cap gone = {}
  BY DEF Obeys
<1> QED
  BY <1>1

-----------------------------------------------------------------------------
(* Where an operation is. *)

(* The operation op has come to step n, which is behind the last step when it succeeds. *)
Reached(X, L, F, op, n, h, x, c) ==
  IF n \in DOMAIN F
    THEN \E f \in F[n] : Holds(L, f, h, x, c)
    ELSE \E f : Holds(L, f, h, x, c) /\ GivesSuccess(X, L, op, f)

(* An edge of the outline leads to the step it names. *)
LEMMA LeadsReaches ==
    ASSUME NEW X, NEW L, NEW F, NEW op, NEW e, NEW h, NEW x, NEW c, LawsKnown(L),
           Lawful(L, h), Leads(X, L, F, op, e), Holds(L, e.fact, h, x, c)
    PROVE  Reached(X, L, F, op, e.at, h, x, c)
<1> DEFINE f == Sharp(L, e.fact)
<1>1. Possible(L, e.fact)
  BY HoldsPossible
<1>2. Holds(L, f, h, x, c)
  BY SharpHolds
<1>3. Possible(L, f)
  BY <1>2, HoldsPossible
<1>4. Continues(X, L, F, op, e.at, f)
  BY <1>1, <1>3 DEF Leads
<1> HIDE DEF f
<1>5. CASE e.at \in DOMAIN F
  <2>1. PICK g \in F[e.at] : Within(f, g)
    BY <1>4, <1>5 DEF Continues
  <2>2. Holds(L, g, h, x, c)
    BY <1>2, <2>1, HoldsWithin
  <2> QED
    BY <1>5, <2>1, <2>2 DEF Reached
<1>6. CASE e.at \notin DOMAIN F
  BY <1>2, <1>4, <1>6 DEF Continues, Reached
<1> QED
  BY <1>5, <1>6

(* The same for a step that may have made e.on and removed e.off. *)
LEMMA LeadsOn ==
    ASSUME NEW X, NEW L, NEW F, NEW op, NEW e, NEW h, NEW h2, NEW x2, NEW c2, LawsKnown(L),
           Lawful(L, h), Leads(X, L, F, op, e), Holds(L, e.fact, h2, x2, c2),
           h2 \subseteq L.all, h2 \subseteq h \cup e.on, h \ e.off \subseteq h2
    PROVE  Lawful(L, h2) /\ Reached(X, L, F, op, e.at, h2, x2, c2)
<1>1. KeepsLaws(L, e)
  BY HoldsPossible DEF Leads
<1>2. Lawful(L, h2)
  BY <1>1, LawsKept
<1> QED
  BY <1>2, LeadsReaches

-----------------------------------------------------------------------------
(* The steps on which nothing is done. *)

(* The steps of p only go forward. *)
Forward(p) ==
  /\ Len(p) \in Nat
  /\ \A k \in 1 .. Len(p) : p[k].to \in Nat /\ (p[k].op # "jump" => p[k].to > 0)

(* What Ahead is at step k, if it is g behind it. *)
AheadAt(p, now, g, k) ==
  IF k > Len(p) THEN 0
  ELSE LET s == p[k] IN
    CASE s.op = "jump" -> IF s.to = 0 THEN 0 ELSE g[k + s.to]
      [] s.op \in {"when", "unless"} /\ s.r \cap S.guest = {} ->
           g[k + (IF Taken(s, now) THEN 1 ELSE s.to)]
      [] s.op = "clean" /\ s.r \cap now = {} -> g[k + 1]
      [] OTHER -> k

(* A nonempty set of naturals has a least element. *)
LEMMA LeastOf ==
    ASSUME NEW T, T \subseteq Nat, T # {}
    PROVE  \E x \in T : \A y \in T : ~(y < x)
<1>1. PICK x \in T : \A y \in T : ~(<<y, x>> \in OpToRel(<, Nat))
  BY NatLessThanWellFounded, WFMin
<1> QED
  BY <1>1 DEF OpToRel

LEMMA AheadAtSame ==
    ASSUME NEW p, NEW now, NEW g, NEW g2, Forward(p), NEW k \in Nat \ {0},
           \A j \in Nat \ {0} : j > k => g2[j] = g[j]
    PROVE  AheadAt(p, now, g2, k) = AheadAt(p, now, g, k)
<1>1. CASE k > Len(p)
  BY <1>1 DEF AheadAt
<1>2. CASE ~(k > Len(p))
  <2>1. k \in 1 .. Len(p)
    BY <1>2 DEF Forward
  <2> DEFINE s == p[k]
  <2>2. s.to \in Nat /\ (s.op # "jump" => s.to > 0)
    BY <2>1 DEF Forward
  <2> HIDE DEF s
  <2>3. g2[k + 1] = g[k + 1] /\ (s.to > 0 => g2[k + s.to] = g[k + s.to])
    BY <2>2
  <2>4. CASE s.op = "jump"
    BY <1>2, <2>2, <2>3, <2>4 DEF AheadAt, s
  <2>5. CASE s.op # "jump"
    BY <1>2, <2>2, <2>3, <2>5 DEF AheadAt, s
  <2> QED
    BY <2>4, <2>5
<1> QED
  BY <1>1, <1>2

(* Ahead is what its recursive definition says: a recursion that only looks forward, and
   only as far as the last step, has a solution. *)
LEMMA AheadIs ==
    ASSUME NEW p, NEW now, Forward(p)
    PROVE  \A k \in Nat \ {0} : Ahead(p, now)[k] = AheadAt(p, now, Ahead(p, now), k)
<1> DEFINE Solves(g, m) ==
             \A k \in Nat \ {0} : k > m => g[k] = AheadAt(p, now, g, k)
           T == {m \in Nat : \E g : Solves(g, m)}
<1>1. Len(p) \in T
  <2> DEFINE g == [k \in Nat \ {0} |-> 0]
  <2>1. \A k \in Nat \ {0} : g[k] = 0
    OBVIOUS
  <2> HIDE DEF g
  <2>2. Solves(g, Len(p))
    BY <2>1 DEF AheadAt, Forward
  <2> QED
    BY <2>2 DEF Forward
<1>2. PICK m \in T : \A y \in T : ~(y < m)
  BY <1>1, LeastOf
<1>3. m = 0
  <2> SUFFICES ASSUME m # 0 PROVE FALSE
    OBVIOUS
  <2>1. m \in Nat \ {0}
    BY <1>2
  <2>2. PICK g : Solves(g, m)
    BY <1>2
  <2> DEFINE g2 == [k \in Nat \ {0} |-> IF k = m THEN AheadAt(p, now, g, m) ELSE g[k]]
  <2>3. /\ g2[m] = AheadAt(p, now, g, m)
        /\ \A k \in Nat \ {0} : k > m => g2[k] = g[k]
    BY <2>1
  <2> HIDE DEF g2
  <2>4. ASSUME NEW k \in Nat \ {0}, k > m - 1 PROVE g2[k] = AheadAt(p, now, g2, k)
    <3>1. \A j \in Nat \ {0} : j > k => g2[j] = g[j]
      BY <2>1, <2>3, <2>4
    <3>2. AheadAt(p, now, g2, k) = AheadAt(p, now, g, k)
      BY <3>1, AheadAtSame
    <3>3. CASE k = m
      BY <2>3, <3>2, <3>3
    <3>4. CASE k # m
      <4>1. k > m
        BY <2>1, <2>4, <3>4
      <4> QED
        BY <2>2, <2>3, <3>2, <4>1
    <3> QED
      BY <3>3, <3>4
  <2>5. m - 1 \in T
    BY <2>1, <2>4
  <2> QED
    BY <1>2, <2>1, <2>5
<1>4. PICK g : Solves(g, 0)
  BY <1>2, <1>3
<1> DEFINE a == [k \in Nat \ {0} |-> g[k]]
<1>5. a = [k \in Nat \ {0} |-> AheadAt(p, now, a, k)]
  <2>1. ASSUME NEW k \in Nat \ {0} PROVE a[k] = AheadAt(p, now, a, k)
    <3>1. AheadAt(p, now, a, k) = AheadAt(p, now, g, k)
      BY AheadAtSame
    <3>2. g[k] = AheadAt(p, now, g, k)
      BY <1>4
    <3> QED
      BY <3>1, <3>2
  <2> QED
    BY <2>1
<1> HIDE DEF a
<1>6. Ahead(p, now) = [k \in Nat \ {0} |-> AheadAt(p, now, Ahead(p, now), k)]
  BY <1>5 DEF Ahead, AheadAt
<1> HIDE DEF Solves, T
<1> QED
  BY <1>6

-----------------------------------------------------------------------------
(* The steps that only decide where to go on. *)

(* F is an outline of the procedure p. *)
IsOutline(X, L, p, F, o, op) ==
  /\ LawsKnown(L)
  /\ WellFormed(L, p, o)
  /\ DOMAIN F = 1 .. Len(p)
  /\ \A k \in 1 .. Len(p) : StepFollows(X, L, p, F, o, op, k)

LEMMA OutlineForward ==
    ASSUME NEW X, NEW L, NEW p, NEW F, NEW o, NEW op, IsOutline(X, L, p, F, o, op)
    PROVE  Forward(p)
  BY DEF IsOutline, WellFormed, Forward

(* A success of the step k that an edge of the outline describes. *)
LEMMA FlowOn ==
    ASSUME NEW X, NEW L, NEW p, NEW F, NEW o, NEW op, IsOutline(X, L, p, F, o, op),
           NEW h, NEW k \in 1 .. Len(p), NEW f \in F[k], Lawful(L, h),
           NEW e \in Flow(L, p, o, k, f),
           NEW h2, NEW x2, NEW c2, Holds(L, e.fact, h2, x2, c2),
           h2 \subseteq L.all, h2 \subseteq h \cup e.on, h \ e.off \subseteq h2
    PROVE  Lawful(L, h2) /\ Reached(X, L, F, op, e.at, h2, x2, c2)
<1>1. LawsKnown(L) /\ Leads(X, L, F, op, e)
  BY DEF IsOutline, StepFollows
<1> QED
  BY <1>1, LeadsOn

LEMMA JumpReaches ==
    ASSUME NEW X, NEW L, NEW p, NEW F, NEW o, NEW op, IsOutline(X, L, p, F, o, op),
           NEW h, NEW x, NEW c, NEW k \in 1 .. Len(p), Lawful(L, h),
           Reached(X, L, F, op, k, h, x, c), p[k].op = "jump"
    PROVE  Reached(X, L, F, op, IF p[k].to = 0 THEN 0 ELSE k + p[k].to, h, x, c)
<1> DEFINE n == IF p[k].to = 0 THEN 0 ELSE k + p[k].to
<1>1. PICK f \in F[k] : Holds(L, f, h, x, c)
  BY DEF IsOutline, Reached
<1> DEFINE e == Edge(n, f, {}, {})
<1>2. e \in Flow(L, p, o, k, f)
  BY DEF Flow
<1>3. e.at = n /\ e.fact = f /\ e.on = {} /\ e.off = {}
  BY DEF Edge
<1> HIDE DEF e, n
<1>4. h \subseteq L.all
  BY DEF Lawful
<1>5. Reached(X, L, F, op, e.at, h, x, c)
  BY <1>1, <1>2, <1>3, <1>4, FlowOn
<1> QED
  BY <1>3, <1>5 DEF n

(* When a condition is evaluated. *)
LEMMA ConditionReaches ==
    ASSUME NEW X, NEW L, NEW p, NEW F, NEW op, IsOutline(X, L, p, F, opts, op),
           NEW h, NEW x, NEW c, NEW k \in 1 .. Len(p), Lawful(L, h),
           Reached(X, L, F, op, k, h, x, c), p[k].op \in {"when", "unless"}
    PROVE  Reached(X, L, F, op, k + (IF Taken(p[k], h) THEN 1 ELSE p[k].to), h, x, c)
<1> DEFINE s == p[k]
           C == s.r \ opts
           n == k + (IF Taken(s, h) THEN 1 ELSE s.to)
           met == s.r \subseteq h \cup opts
<1>1. PICK f \in F[k] : Holds(L, f, h, x, c)
  BY DEF IsOutline, Reached
<1>2. LawsKnown(L) /\ h \subseteq L.all
  BY DEF Lawful, IsOutline
<1>3. CASE met
  <2> DEFINE g == SeenThere(L, f, C)
             e == Edge(n, g, {}, {})
  <2>1. Holds(L, g, h, x, c)
    BY <1>1, <1>2, <1>3, SeenThereHolds
  <2>4. e \in Flow(L, p, opts, k, f)
    <3>1. CASE s.op = "when"
      <4>1. n = k + 1
        BY <1>3, <3>1 DEF Taken
      <4> QED
        BY <3>1, <4>1 DEF Flow
    <3>2. CASE s.op = "unless"
      <4>1. n = k + s.to
        BY <1>3, <3>2 DEF Taken
      <4> QED
        BY <3>2, <4>1 DEF Flow
    <3> QED
      BY <3>1, <3>2
  <2>5. e.at = n /\ e.fact = g /\ e.on = {} /\ e.off = {}
    BY DEF Edge
  <2> HIDE DEF e, n, g
  <2>6. Reached(X, L, F, op, e.at, h, x, c)
    BY <1>1, <1>2, <2>1, <2>4, <2>5, FlowOn
  <2> QED
    BY <2>5, <2>6 DEF n
<1>4. CASE ~met
  <2>1. PICK r \in C : r \notin h
    BY <1>4
  <2> DEFINE g == SeenGone(L, f, {r})
             e == Edge(n, g, {}, {})
  <2>2. Holds(L, g, h, x, c)
    BY <1>1, <1>2, <2>1, SeenGoneHolds
  <2>5. e \in Flow(L, p, opts, k, f)
    <3>1. CASE s.op = "when"
      <4>1. n = k + s.to
        BY <1>4, <3>1 DEF Taken
      <4> QED
        BY <2>1, <3>1, <4>1 DEF Flow
    <3>2. CASE s.op = "unless"
      <4>1. n = k + 1
        BY <1>4, <3>2 DEF Taken
      <4> QED
        BY <2>1, <3>2, <4>1 DEF Flow
    <3> QED
      BY <3>1, <3>2
  <2>6. e.at = n /\ e.fact = g /\ e.on = {} /\ e.off = {}
    BY DEF Edge
  <2> HIDE DEF e, n, g
  <2>7. Reached(X, L, F, op, e.at, h, x, c)
    BY <1>1, <1>2, <2>2, <2>5, <2>6, FlowOn
  <2> QED
    BY <2>6, <2>7 DEF n
<1> QED
  BY <1>3, <1>4

(* When a step removes R, of which nothing, or all that is there, can be removed. *)
LEMMA RemovalReaches ==
    ASSUME NEW X, NEW L, NEW p, NEW F, NEW o, NEW op, IsOutline(X, L, p, F, o, op),
           NEW h, NEW x, NEW c, NEW k \in 1 .. Len(p), Lawful(L, h), x \subseteq h,
           Reached(X, L, F, op, k, h, x, c), p[k].op \in {"drop", "forget", "clean"}
    PROVE  /\ Lawful(L, h \ p[k].r)
           /\ Reached(X, L, F, op, k + p[k].to, h \ p[k].r, x \cap (h \ p[k].r), c)
<1> DEFINE s == p[k]
           R == p[k].r
           n == k + s.to
<1>1. PICK f \in F[k] : Holds(L, f, h, x, c)
  BY DEF IsOutline, Reached
<1> DEFINE g == Removed(f, R)
           e == Edge(n, g, {}, R)
<1>2. h \subseteq L.all
  BY DEF Lawful
<1>3. Holds(L, g, h \ R, x \cap (h \ R), c)
  BY <1>1, RemovedHolds
<1>4. e \in Flow(L, p, o, k, f)
  <2>1. CASE s.op \in {"drop", "forget"}
    BY <2>1 DEF Flow
  <2>2. CASE s.op = "clean"
    <3>1. n = k + 1
      BY <2>2 DEF IsOutline, WellFormed
    <3> QED
      BY <2>2, <3>1 DEF Flow
  <2> QED
    BY <2>1, <2>2
<1>5. e.at = n /\ e.fact = g /\ e.on = {} /\ e.off = R
  BY DEF Edge
<1> HIDE DEF e, n, g, R
<1>6. Lawful(L, h \ R) /\ Reached(X, L, F, op, e.at, h \ R, x \cap (h \ R), c)
  BY <1>1, <1>2, <1>3, <1>4, <1>5, FlowOn
<1> QED
  BY <1>5, <1>6 DEF n, R

(* Ahead follows the outline over the steps on which nothing is done. *)
LEMMA Arrives ==
    ASSUME NEW L, NEW p, NEW F, NEW op, IsOutline(S, L, p, F, opts, op),
           NEW h, NEW x, NEW c, Lawful(L, h), x \subseteq h,
           NEW n \in Nat \ {0}, Reached(S, L, F, op, n, h, x, c)
    PROVE  /\ NextStep(p, n, h) \in 0 .. Len(p)
           /\ Reached(S, L, F, op, NextStep(p, n, h), h, x, c)
<1> DEFINE a == Ahead(p, h)
           Good(k) == Reached(S, L, F, op, k, h, x, c) =>
                        a[k] \in 0 .. Len(p) /\ Reached(S, L, F, op, a[k], h, x, c)
           \* the steps from which it does not, counted from the end
           T == {m \in Nat : m <= Len(p) /\ ~Good(Len(p) + 1 - m)}
<1>1. Forward(p) /\ DOMAIN F = 1 .. Len(p) /\ Len(p) \in Nat
  BY OutlineForward DEF IsOutline, Forward
<1>2. \A k \in Nat \ {0} : a[k] = AheadAt(p, h, a, k)
  BY <1>1, AheadIs
<1> HIDE DEF a
<1>3. ASSUME NEW k \in Nat \ {0}, k > Len(p) PROVE Good(k)
  <2>1. a[k] = 0
    BY <1>2, <1>3 DEF AheadAt
  <2>2. k \notin DOMAIN F /\ 0 \notin DOMAIN F
    BY <1>1, <1>3
  <2> QED
    BY <1>1, <2>1, <2>2 DEF Reached
<1>4. ASSUME NEW k \in 1 .. Len(p), \A j \in Nat \ {0} : j > k => Good(j) PROVE Good(k)
  <2> SUFFICES ASSUME Reached(S, L, F, op, k, h, x, c)
               PROVE  a[k] \in 0 .. Len(p) /\ Reached(S, L, F, op, a[k], h, x, c)
    OBVIOUS
  <2> DEFINE s == p[k]
  <2>1. k \in Nat \ {0} /\ ~(k > Len(p)) /\ s.to \in Nat /\ (s.op # "jump" => s.to > 0)
    BY <1>1 DEF Forward
  <2>2. a[k] = AheadAt(p, h, a, k)
    BY <1>2, <2>1
  <2>3. ASSUME NEW j \in Nat, j = 0 \/ j > k, Reached(S, L, F, op, j, h, x, c),
               a[k] = IF j = 0 THEN 0 ELSE a[j]
        PROVE  a[k] \in 0 .. Len(p) /\ Reached(S, L, F, op, a[k], h, x, c)
    BY <1>1, <1>4, <2>1, <2>3
  <2>4. CASE s.op = "jump"
    <3> DEFINE j == IF s.to = 0 THEN 0 ELSE k + s.to
    <3>1. Reached(S, L, F, op, j, h, x, c)
      BY <2>4, JumpReaches
    <3>2. j \in Nat /\ (j = 0 \/ j > k)
      BY <2>1
    <3>3. a[k] = IF j = 0 THEN 0 ELSE a[j]
      BY <2>1, <2>2, <2>4 DEF AheadAt
    <3> HIDE DEF j
    <3> QED
      BY <2>3, <3>1, <3>2, <3>3
  <2>5. CASE s.op \in {"when", "unless"} /\ s.r \cap S.guest = {}
    <3> DEFINE j == k + (IF Taken(s, h) THEN 1 ELSE s.to)
    <3>1. Reached(S, L, F, op, j, h, x, c)
      BY <2>5, ConditionReaches
    <3>2. j \in Nat /\ j > k
      BY <2>1, <2>5
    <3>3. a[k] = a[j]
      BY <2>1, <2>2, <2>5 DEF AheadAt
    <3> HIDE DEF j
    <3>4. j # 0
      BY <2>1, <3>2
    <3> QED
      BY <2>3, <3>1, <3>2, <3>3, <3>4
  <2>6. CASE s.op = "clean" /\ s.r \cap h = {}
    <3> DEFINE j == k + 1
    <3>1. s.to = 1
      BY <2>6 DEF IsOutline, WellFormed
    <3>2. h \ s.r = h /\ x \cap (h \ s.r) = x
      BY <2>6
    <3>3. Reached(S, L, F, op, k + s.to, h \ s.r, x \cap (h \ s.r), c)
      BY <2>6, RemovalReaches
    <3>4. Reached(S, L, F, op, j, h, x, c)
      BY <3>1, <3>2, <3>3
    <3>5. j \in Nat /\ j > k /\ j # 0
      BY <2>1
    <3>6. a[k] = a[j]
      BY <2>1, <2>2, <2>6 DEF AheadAt
    <3> HIDE DEF j
    <3> QED
      BY <2>3, <3>4, <3>5, <3>6
  <2>7. CASE /\ s.op # "jump"
             /\ ~(s.op \in {"when", "unless"} /\ s.r \cap S.guest = {})
             /\ ~(s.op = "clean" /\ s.r \cap h = {})
    <3>1. a[k] = k
      BY <2>1, <2>2, <2>7 DEF AheadAt
    <3> QED
      BY <1>1, <3>1
  <2> QED
    BY <2>4, <2>5, <2>6, <2>7
<1> HIDE DEF Good
<1>5. T = {}
  <2> SUFFICES ASSUME T # {} PROVE FALSE
    OBVIOUS
  <2>1. PICK m \in T : \A y \in T : ~(y < m)
    BY LeastOf
  <2> DEFINE k == Len(p) + 1 - m
  <2>2. m \in Nat /\ k \in Nat \ {0} /\ ~Good(k)
    BY <1>1, <2>1
  <2>3. k \in 1 .. Len(p)
    BY <1>1, <1>3, <2>1, <2>2
  <2>4. ASSUME NEW j \in Nat \ {0}, j > k PROVE Good(j)
    <3>1. CASE j > Len(p)
      BY <1>3, <3>1
    <3>2. CASE ~(j > Len(p))
      <4> DEFINE y == Len(p) + 1 - j
      <4>1. y \in Nat /\ y <= Len(p) /\ y < m /\ Len(p) + 1 - y = j
        BY <1>1, <2>1, <2>2, <2>4, <3>2
      <4> HIDE DEF y
      <4>2. y \notin T
        BY <2>1, <4>1
      <4>3. Good(Len(p) + 1 - y)
        BY <4>1, <4>2
      <4> QED
        BY <4>1, <4>3
    <3> QED
      BY <3>1, <3>2
  <2> HIDE DEF k
  <2> QED
    BY <1>4, <2>2, <2>3, <2>4
<1>6. Good(n)
  <2>1. CASE n > Len(p)
    BY <1>3, <2>1
  <2>2. CASE ~(n > Len(p))
    <3> DEFINE y == Len(p) + 1 - n
    <3>1. y \in Nat /\ y <= Len(p) /\ Len(p) + 1 - y = n
      BY <1>1, <2>2
    <3> HIDE DEF y
    <3>2. Good(Len(p) + 1 - y)
      BY <1>5, <3>1
    <3> QED
      BY <3>1, <3>2
  <2> QED
    BY <2>1, <2>2
<1> QED
  BY <1>6 DEF Good, NextStep, a

-----------------------------------------------------------------------------
(* The invariant. *)

IsCall(c) ==
  c = [op |-> c.op, pc |-> c.pc, before |-> c.before, due |-> c.due, faults |-> c.faults,
       missing |-> c.missing]

(* An operation of the system under way, whatever step it is at. *)
MidCall(c) ==
  /\ IsCall(c)
  /\ c.op \in DOMAIN Programs[sys]
  /\ c.before \subseteq Laws[sys][opts].all
  /\ c.faults \in 0 .. MaxFaults

(* It is at a step of its procedure, where a fact of the outline holds. *)
OnOutline(c) ==
  /\ MidCall(c)
  /\ c.pc \in 1 .. Len(Programs[sys][c.op])
  /\ Reached(S, Laws[sys][opts], Outline[sys][opts][c.op], c.op, c.pc, has, residue, c)

(* What is promised of the call under way and of the one that has ended. *)
CallsKept ==
  /\ ~Idle => OnOutline(call)
  /\ Idle => call = NoCall /\ Obeys(Laws[sys][opts].rest, has)
  /\ done # None => Idle /\ done.ok \in BOOLEAN
  /\ FailureChangesNothing /\ SuccessIsTrue /\ NeverStuck

Inv ==
  /\ sys \in DOMAIN Systems
  /\ opts \in S.options
  /\ Outlined(sys) =>
       /\ Lawful(Laws[sys][opts], has)
       /\ residue \subseteq has
       /\ CallsKept

LEMMA SystemOutlined ==
    ASSUME Outlined(sys), opts \in S.options, NEW op \in DOMAIN Programs[sys]
    PROVE  /\ IsOutline(S, Laws[sys][opts], Programs[sys][op], Outline[sys][opts][op], opts, op)
           /\ Begins(S, Laws[sys][opts], Outline[sys][opts][op], op)
<1> DEFINE L == Laws[sys][opts]
<1>1. LawsStand(S, L)
  BY DEF Outlined, SoundOutline, S
<1>2. LawsKnown(L)
  BY <1>1 DEF LawsStand, LawsKnown
<1>3. LET p == Programs[sys][op]
          F == Outline[sys][opts][op]
      IN /\ WellFormed(L, p, opts)
         /\ DOMAIN F = 1 .. Len(p)
         /\ Begins(S, L, F, op)
         /\ \A k \in 1 .. Len(p) : StepFollows(S, L, p, F, opts, op, k)
  BY DEF Outlined, SoundOutline, S
<1> QED
  BY <1>2, <1>3 DEF IsOutline

LEMMA LawsOfSystem ==
    ASSUME Outlined(sys), opts \in S.options
    PROVE  LawsStand(S, Laws[sys][opts]) /\ LawsKnown(Laws[sys][opts])
<1>1. LawsStand(S, Laws[sys][opts])
  BY DEF Outlined, SoundOutline, S
<1> QED
  BY <1>1 DEF LawsStand, LawsKnown

LEMMA HoldsSame ==
    ASSUME NEW L, NEW f, NEW h, NEW x, NEW c, NEW c2, Holds(L, f, h, x, c),
           c2.before = c.before, c2.missing = c.missing, c2.due = c.due, c2.faults = c.faults
    PROVE  Holds(L, f, h, x, c2)
<1>1. ASSUME NEW r PROVE Standing(r, h, x, c2) = Standing(r, h, x, c)
  BY DEF Standing
<1> QED
  BY <1>1 DEF Holds

(* An operation that comes to its end has done what it is for. *)
LEMMA SuccessKept ==
    ASSUME NEW X, NEW L, NEW op, NEW f, NEW h, NEW x, NEW c, Holds(L, f, h, x, c),
           GivesSuccess(X, L, op, f), h \subseteq L.all
    PROVE  /\ Of(X.gives, op) \ (h \cup c.missing) \subseteq KnownOf(X, op)
           /\ (Of(X.takes, op) \cap h) \ x \subseteq KnownOf(X, op)
<1>1. ASSUME NEW r \in L.all, r \notin KnownOf(X, op)
      PROVE  /\ r \in Of(X.gives, op) => r \in h \/ r \in c.missing
             /\ r \in Of(X.takes, op) /\ r \in h => r \in x
  <2> DEFINE v == <<r, Standing(r, h, x, c)>>
  <2>1. v \in f.res /\ v[1] = r
    BY DEF Holds
  <2>2. /\ "now" \in v[2] <=> r \in h
        /\ "odd" \in v[2] <=> r \in x
        /\ "lost" \in v[2] <=> r \in c.missing
    BY StandingMembers
  <2> HIDE DEF v
  <2>3. /\ v[1] \in Of(X.gives, op) => v[2] \cap {"now", "lost"} # {}
        /\ v[1] \in Of(X.takes, op) /\ "now" \in v[2] => "odd" \in v[2]
    BY <1>1, <2>1 DEF GivesSuccess
  <2> QED
    BY <2>1, <2>2, <2>3
<1>2. Of(X.gives, op) \ KnownOf(X, op) \subseteq L.all
  BY DEF GivesSuccess
<1> QED
  BY <1>1, <1>2

(* An operation that fails has changed nothing. *)
LEMMA FailureKept ==
    ASSUME NEW X, NEW L, NEW op, NEW f, NEW h, NEW x, NEW c, Holds(L, f, h, x, c),
           GivesFailure(X, L, op, f), h \subseteq L.all, c.before \subseteq L.all, op \in X.additive
    PROVE  /\ h \ (c.before \cup x \cup X.shared) \subseteq KnownOf(X, op)
           /\ c.before \ h \subseteq KnownOf(X, op) \cup c.missing \cup X.shared
<1>1. ASSUME NEW r \in L.all, r \notin KnownOf(X, op) \cup X.shared
      PROVE  /\ r \in h => r \in c.before \/ r \in x
             /\ r \in c.before => r \in h \/ r \in c.missing
  <2> DEFINE v == <<r, Standing(r, h, x, c)>>
  <2>1. v \in f.res /\ v[1] = r
    BY DEF Holds
  <2>2. /\ "old" \in v[2] <=> r \in c.before
        /\ "now" \in v[2] <=> r \in h
        /\ "odd" \in v[2] <=> r \in x
        /\ "lost" \in v[2] <=> r \in c.missing
    BY StandingMembers
  <2> HIDE DEF v
  <2>3. /\ "now" \in v[2] => v[2] \cap {"old", "odd"} # {}
        /\ "old" \in v[2] => v[2] \cap {"now", "lost"} # {}
    BY <1>1, <2>1 DEF GivesFailure
  <2> QED
    BY <2>2, <2>3
<1> QED
  BY <1>1

-----------------------------------------------------------------------------
(* How an operation ends or goes on. *)

LEMMA EndSucceeds ==
    ASSUME Outlined(sys), opts \in S.options, sys' = sys, opts' = opts, NEW c, NEW f,
           End(c, TRUE),
           Lawful(Laws[sys][opts], has'), Holds(Laws[sys][opts], f, has', residue', c),
           GivesSuccess(S, Laws[sys][opts], c.op, f)
    PROVE  CallsKept'
<1>1. /\ call' = NoCall /\ done'.op = c.op /\ done'.ok = TRUE /\ done'.missing = c.missing
  BY DEF End
<1>2. has' \subseteq Laws[sys][opts].all
  BY DEF Lawful
<1>3. /\ Of(S.gives, c.op) \ (has' \cup c.missing) \subseteq KnownOf(S, c.op)
      /\ (Of(S.takes, c.op) \cap has') \ residue' \subseteq KnownOf(S, c.op)
  BY <1>2, SuccessKept
<1>4. S' = S
  BY DEF S
<1>5. Known' = KnownOf(S, c.op)
  BY <1>1, <1>4 DEF Known, KnownOf
<1>6. SuccessIsTrue'
  BY <1>1, <1>3, <1>4, <1>5 DEF SuccessIsTrue
<1>7. ~Ended(FALSE)'
  BY <1>1 DEF Ended
<1>8. Obeys(Laws[sys][opts].rest, has')
  <2>1. \A l \in Laws[sys][opts].rest : l.if \cup l.then \subseteq Laws[sys][opts].all
    BY LawsOfSystem DEF LawsStand
  <2>2. \A l \in Laws[sys][opts].rest : Assures(f, l)
    BY DEF GivesSuccess
  <2> QED
    BY <2>1, <2>2, AssuredHolds
<1>9. Idle'
  BY <1>1 DEF Idle, NoCall
<1>10. (done # None => Idle /\ done.ok \in BOOLEAN)'
  BY <1>1, <1>9
<1> QED
  BY <1>1, <1>6, <1>7, <1>8, <1>9, <1>10
     DEF CallsKept, FailureChangesNothing, NeverStuck, NoCall

LEMMA EndFails ==
    ASSUME Outlined(sys), opts \in S.options, sys' = sys, opts' = opts, NEW c, NEW f,
           End(c, FALSE), c.before \subseteq Laws[sys][opts].all,
           Lawful(Laws[sys][opts], has'), Holds(Laws[sys][opts], f, has', residue', c),
           GivesFailure(S, Laws[sys][opts], c.op, f)
    PROVE  CallsKept'
<1>1. /\ call' = NoCall /\ done'.op = c.op /\ done'.ok = FALSE /\ done'.missing = c.missing
      /\ done'.before = c.before /\ done'.stuck = (c.due /\ c.faults = 0)
  BY DEF End
<1>2. has' \subseteq Laws[sys][opts].all
  BY DEF Lawful
<1>3. c.op \in S.additive =>
        /\ has' \ (c.before \cup residue' \cup S.shared) \subseteq KnownOf(S, c.op)
        /\ c.before \ has' \subseteq KnownOf(S, c.op) \cup c.missing \cup S.shared
  BY <1>2, FailureKept
<1>4. S' = S
  BY DEF S
<1>5. Known' = KnownOf(S, c.op)
  BY <1>1, <1>4 DEF Known, KnownOf
<1>6. FailureChangesNothing'
  BY <1>1, <1>3, <1>4, <1>5 DEF FailureChangesNothing
<1>7. ~Ended(TRUE)'
  BY <1>1 DEF Ended
<1>8. f.due = c.due /\ f.faults = c.faults
  BY DEF Holds
<1>9. c.due /\ c.faults = 0 => <<c.op, "stuck">> \in S.known
  BY <1>8 DEF GivesFailure
<1>10. NeverStuck'
  BY <1>1, <1>4, <1>9 DEF NeverStuck
<1>11. Obeys(Laws[sys][opts].rest, has')
  <2>1. \A l \in Laws[sys][opts].rest : l.if \cup l.then \subseteq Laws[sys][opts].all
    BY LawsOfSystem DEF LawsStand
  <2>2. \A l \in Laws[sys][opts].rest : Assures(f, l)
    BY DEF GivesFailure
  <2> QED
    BY <2>1, <2>2, AssuredHolds
<1>12. Idle'
  BY <1>1 DEF Idle, NoCall
<1>13. (done # None => Idle /\ done.ok \in BOOLEAN)'
  BY <1>1, <1>12
<1> QED
  BY <1>1, <1>6, <1>7, <1>10, <1>11, <1>12, <1>13 DEF CallsKept, SuccessIsTrue, NoCall

(* An operation that has reached step n goes on from there. *)
LEMMA GoesOn ==
    ASSUME Outlined(sys), opts \in S.options, sys' = sys, opts' = opts,
           NEW c, MidCall(c), NEW n \in Nat \ {0},
           Lawful(Laws[sys][opts], has'), residue' \subseteq has',
           Reached(S, Laws[sys][opts], Outline[sys][opts][c.op], c.op, n, has', residue', c),
           Continue(Programs[sys][c.op], c, n)
    PROVE  CallsKept'
<1> DEFINE p == Programs[sys][c.op]
           F == Outline[sys][opts][c.op]
<1> PICK k : k = NextStep(p, n, has')
  OBVIOUS
<1>1. IsOutline(S, Laws[sys][opts], p, F, opts, c.op) /\ c.op \in DOMAIN Programs[sys]
  BY SystemOutlined DEF MidCall
<1>2. k \in 0 .. Len(p) /\ Reached(S, Laws[sys][opts], F, c.op, k, has', residue', c)
  BY <1>1, Arrives
<1>3. DOMAIN F = 1 .. Len(p) /\ Len(p) \in Nat
  BY <1>1 DEF IsOutline, WellFormed
<1>4. IF k = 0 THEN End(c, TRUE) ELSE call' = [c EXCEPT !.pc = k] /\ done' = None
  BY DEF Continue
<1>5. CASE k = 0
  <2>1. PICK f : Holds(Laws[sys][opts], f, has', residue', c) /\ GivesSuccess(S, Laws[sys][opts], c.op, f)
    BY <1>2, <1>3, <1>5 DEF Reached
  <2> QED
    BY <1>4, <1>5, <2>1, EndSucceeds
<1>6. CASE k # 0
  <2> PICK c2 : c2 = [c EXCEPT !.pc = k]
    OBVIOUS
  <2>1. call' = c2 /\ done' = None
    BY <1>4, <1>6
  <2>2. k \in 1 .. Len(p) /\ k \in DOMAIN F
    BY <1>2, <1>3, <1>6
  <2>3. /\ IsCall(c2) /\ c2.op = c.op /\ c2.pc = k /\ c2.before = c.before
        /\ c2.due = c.due /\ c2.faults = c.faults /\ c2.missing = c.missing
    BY DEF MidCall, IsCall
  <2>4. PICK f \in F[k] : Holds(Laws[sys][opts], f, has', residue', c)
    BY <1>2, <2>2 DEF Reached
  <2>5. Holds(Laws[sys][opts], f, has', residue', c2)
    BY <2>3, <2>4, HoldsSame
  <2>6. Reached(S, Laws[sys][opts], F, c.op, k, has', residue', c2)
    BY <2>2, <2>4, <2>5 DEF Reached
  <2>7. S' = S
    BY DEF S
  <2>8. MidCall(c2)'
    BY <2>1, <2>3 DEF MidCall, IsCall
  <2>9. OnOutline(call)'
    BY <2>1, <2>2, <2>3, <2>6, <2>7, <2>8 DEF OnOutline
  <2>10. ~Idle'
    BY <1>6, <2>1, <2>3 DEF Idle
  <2> QED
    BY <2>1, <2>9, <2>10
       DEF CallsKept, FailureChangesNothing, SuccessIsTrue, NeverStuck, Ended
<1> QED
  BY <1>5, <1>6

-----------------------------------------------------------------------------
(* The actions of an operation. *)

LEMMA BeginKnows ==
    ASSUME NEW X, NEW L, NEW op, NEW h, NEW c, NEW due,
           c.before = (IF op \in X.additive THEN h ELSE {}), c.missing = {}, c.faults = 0,
           c.due = due
    PROVE  Holds(L, AtBegin(X, L, op, due), h, {}, c)
<1>1. ASSUME NEW r \in L.all
      PROVE  <<r, Standing(r, h, {}, c)>> \in AtBegin(X, L, op, due).res
  <2>1. CASE r \in h
    <3> DEFINE q == {"now"} \cup (IF op \in X.additive THEN {"old"} ELSE {})
    <3>1. Standing(r, h, {}, c) = q
      BY <2>1 DEF Standing
    <3> HIDE DEF q
    <3>2. <<r, q>> \in AtBegin(X, L, op, due).res
      BY DEF AtBegin, Fact, q
    <3> QED
      BY <3>1, <3>2
  <2>2. CASE r \notin h
    <3>1. Standing(r, h, {}, c) = {}
      BY <2>2 DEF Standing
    <3> QED
      BY <3>1 DEF AtBegin, Fact
  <2> QED
    BY <2>1, <2>2
<1>2. AtBegin(X, L, op, due).faults = 0 /\ AtBegin(X, L, op, due).due = due
  BY DEF AtBegin, Fact
<1> QED
  BY <1>1, <1>2 DEF Holds

(* A fact that holds, in the case that is given: R are the laws at rest. *)
LEMMA CaseHolds ==
    ASSUME NEW L, NEW f, NEW h, NEW c, LawsKnown(Rested(L)), Lawful(Rested(L), h),
           Holds(L, f, h, {}, c), NEW there, there \subseteq h, NEW away, away \cap h = {}
    PROVE  Holds(L, SeenGone(Rested(L), SeenThere(Rested(L), f, there), away), h, {}, c)
<1> DEFINE R == Rested(L)
           g == SeenThere(R, f, there)
<1>1. R.all = L.all
  BY DEF Rested
<1> HIDE DEF R
<1>2. Holds(R, f, h, {}, c)
  BY <1>1 DEF Holds
<1>3. Holds(R, g, h, {}, c)
  BY <1>2, SeenThereHolds DEF R
<1> HIDE DEF g
<1>4. Holds(R, SeenGone(R, g, away), h, {}, c)
  BY <1>3, SeenGoneHolds DEF R
<1>5. Holds(L, SeenGone(R, g, away), h, {}, c)
  BY <1>1, <1>4 DEF Holds
<1> QED
  BY <1>5 DEF R, g

(* The starts of an operation are the ones in every case, with and without its being due. *)
LEMMA StartsOfCase ==
    ASSUME NEW X, NEW L, NEW op, NEW there \in SUBSET L.cases, NEW f,
           \/ f = AtBegin(X, L, op, FALSE)
           \/ /\ op \in DOMAIN X.certain
              /\ f = SeenThere(Rested(L), AtBegin(X, L, op, TRUE), X.certain[op])
    PROVE  SeenGone(Rested(L), SeenThere(Rested(L), f, there), L.cases \ there)
             \in Starts(X, L, op)
<1> DEFINE InCase(t, g) == SeenGone(Rested(L), SeenThere(Rested(L), g, t), L.cases \ t)
           due == SeenThere(Rested(L), AtBegin(X, L, op, TRUE), X.certain[op])
           Both(t) == {InCase(t, AtBegin(X, L, op, FALSE))} \cup
                       (IF op \in DOMAIN X.certain THEN {InCase(t, due)} ELSE {})
<1>1. Starts(X, L, op) = UNION {Both(t) : t \in SUBSET L.cases}
  BY DEF Starts
<1>2. InCase(there, f) \in Both(there)
  OBVIOUS
<1> HIDE DEF Both
<1>3. InCase(there, f) \in UNION {Both(t) : t \in SUBSET L.cases}
  BY <1>2
<1> QED
  BY <1>1, <1>3

LEMMA BeginKeeps ==
    ASSUME Inv, Outlined(sys), NEW op \in DOMAIN Programs[sys],
           Begin(Programs[sys][op], op)
    PROVE  Lawful(Laws[sys][opts], has') /\ residue' \subseteq has' /\ CallsKept'
<1> DEFINE p == Programs[sys][op]
           F == Outline[sys][opts][op]
           L == Laws[sys][opts]
<1>1. /\ sys' = sys /\ opts' = opts /\ has' = has /\ residue' = {}
      /\ opts \in S.options /\ Lawful(L, has) /\ Obeys(L.rest, has)
  BY DEF Begin, Inv, CallsKept
<1>2. PICK c : c = [op |-> op, pc |-> 1, faults |-> 0, missing |-> {},
                   before |-> IF op \in S.additive THEN has ELSE {},
                   due |-> op \in DOMAIN S.certain /\ S.certain[op] \subseteq has]
  OBVIOUS
<1>3. Continue(p, c, 1)
  BY <1>2 DEF Begin
<1>4. /\ c.op = op /\ c.before = (IF op \in S.additive THEN has ELSE {}) /\ c.missing = {}
      /\ c.faults = 0 /\ c.due = (op \in DOMAIN S.certain /\ S.certain[op] \subseteq has)
      /\ IsCall(c)
  BY <1>2 DEF IsCall
<1>5. MidCall(c)
  BY <1>1, <1>4, FaultsAssumption DEF MidCall, Lawful
<1>6. Begins(S, L, F, op) /\ LawsStand(S, L) /\ LawsKnown(L)
  BY <1>1, SystemOutlined, LawsOfSystem
<1> DEFINE R == Rested(L)
           there == L.cases \cap has
           InCase(f) == SeenGone(R, SeenThere(R, f, there), L.cases \ there)
<1>7. LawsKnown(R) /\ Lawful(R, has)
  BY <1>1, <1>6 DEF LawsKnown, LawsStand, Lawful, Obeys, Rested
<1>8. there \in SUBSET L.cases /\ there \subseteq has /\ (L.cases \ there) \cap has = {}
  OBVIOUS
<1>9. PICK g \in Starts(S, L, op) : Holds(L, g, has, {}, c)
  <2>1. ASSUME NEW f, Holds(L, f, has, {}, c) PROVE Holds(L, InCase(f), has, {}, c)
    <3> HIDE DEF L, there
    <3> QED
      BY <1>7, <1>8, <2>1, CaseHolds
  <2>2. CASE op \in DOMAIN S.certain /\ S.certain[op] \subseteq has
    <3> DEFINE f == SeenThere(R, AtBegin(S, L, op, TRUE), S.certain[op])
    <3>1. c.due = TRUE
      BY <1>4, <2>2
    <3>2. Holds(L, AtBegin(S, L, op, TRUE), has, {}, c)
      BY <1>4, <3>1, BeginKnows
    <3>3. R.all = L.all
      BY DEF Rested
    <3>4. Holds(R, AtBegin(S, L, op, TRUE), has, {}, c)
      BY <3>2, <3>3 DEF Holds
    <3>5. Holds(R, f, has, {}, c)
      <4> HIDE DEF R
      <4> QED
        BY <1>7, <2>2, <3>4, SeenThereHolds
    <3>6. Holds(L, f, has, {}, c)
      BY <3>3, <3>5 DEF Holds
    <3>7. InCase(f) \in Starts(S, L, op)
      <4> HIDE DEF L, there
      <4> QED
        BY <1>8, <2>2, StartsOfCase DEF R
    <3> QED
      BY <2>1, <3>6, <3>7
  <2>3. CASE ~(op \in DOMAIN S.certain /\ S.certain[op] \subseteq has)
    <3> DEFINE f == AtBegin(S, L, op, FALSE)
    <3>1. c.due = FALSE
      BY <1>4, <2>3
    <3>2. Holds(L, f, has, {}, c)
      BY <1>4, <3>1, BeginKnows
    <3>3. InCase(f) \in Starts(S, L, op)
      <4> HIDE DEF L, there
      <4> QED
        BY <1>8, StartsOfCase DEF R
    <3> QED
      BY <2>1, <3>2, <3>3
  <2> QED
    BY <2>2, <2>3
<1>10. Reached(S, L, F, op, 1, has, {}, c)
  <2> DEFINE e == Edge(1, g, {}, {})
  <2>1. Leads(S, L, F, op, e)
    BY <1>6, <1>9 DEF Begins
  <2>2. e.at = 1 /\ e.fact = g
    BY DEF Edge
  <2> HIDE DEF e
  <2>3. Reached(S, L, F, op, e.at, has, {}, c)
    BY <1>1, <1>6, <1>9, <2>1, <2>2, LeadsReaches
  <2> QED
    BY <2>2, <2>3
<1>11. CallsKept'
  BY <1>1, <1>3, <1>4, <1>5, <1>10, GoesOn
<1> QED
  BY <1>1, <1>11

(* What is known when a step of an operation is taken. *)
LEMMA UnderWay ==
    ASSUME Inv, Outlined(sys), ~Idle
    PROVE  /\ opts \in S.options /\ Lawful(Laws[sys][opts], has) /\ residue \subseteq has
           /\ MidCall(call) /\ LawsKnown(Laws[sys][opts])
           /\ IsOutline(S, Laws[sys][opts], Programs[sys][call.op], Outline[sys][opts][call.op],
                        opts, call.op)
           /\ call.pc \in 1 .. Len(Programs[sys][call.op])
           /\ Reached(S, Laws[sys][opts], Outline[sys][opts][call.op], call.op, call.pc, has, residue, call)
<1>1. OnOutline(call)
  BY DEF Inv, CallsKept, Idle
<1>2. opts \in S.options /\ call.op \in DOMAIN Programs[sys]
  BY <1>1 DEF Inv, OnOutline, MidCall
<1> QED
  BY <1>1, <1>2, SystemOutlined, LawsOfSystem DEF OnOutline, Inv

LEMMA SucceedKeeps ==
    ASSUME Inv, Outlined(sys), ~Idle, Succeed(Programs[sys][call.op])
    PROVE  Lawful(Laws[sys][opts], has') /\ residue' \subseteq has' /\ CallsKept'
<1> DEFINE p == Programs[sys][call.op]
           F == Outline[sys][opts][call.op]
           L == Laws[sys][opts]
           k == call.pc
           s == p[k]
           n == k + s.to
<1>1. /\ opts \in S.options /\ Lawful(L, has) /\ residue \subseteq has
      /\ MidCall(call) /\ LawsKnown(L) /\ IsOutline(S, L, p, F, opts, call.op)
      /\ k \in 1 .. Len(p)
      /\ Reached(S, L, F, call.op, k, has, residue, call)
  BY UnderWay
<1>2. /\ sys' = sys /\ opts' = opts /\ residue' = residue \cap has' /\ Continue(p, call, n)
      /\ \/ s.op = "make" /\ s.r \cap has = {} /\ has' = has \cup s.r
         \/ s.op \in {"ensure", "note"} /\ has' = has \cup s.r
         \/ s.op \in {"drop", "forget", "clean"} /\ has' = has \ s.r
         \/ s.op = "try" /\ has' = has
         \/ s.op = "await" /\ s.r \cap has = {} /\ has' = has
  BY DEF Succeed
<1>3. PICK f \in F[k] : Holds(L, f, has, residue, call)
  BY <1>1 DEF IsOutline, Reached
<1>4. /\ Len(p) \in Nat /\ s.to \in Nat /\ (s.op # "jump" => s.to > 0) /\ has \subseteq L.all
      /\ (s.op \notin {"when", "unless"} => s.r \subseteq L.all)
  BY <1>1 DEF IsOutline, WellFormed, Lawful
<1>5. n \in Nat \ {0}
  BY <1>1, <1>4
<1>6. Lawful(L, has') /\ Reached(S, L, F, call.op, n, has', residue', call)
  <2>1. ASSUME NEW g, NEW on, Edge(n, g, on, {}) \in Flow(L, p, opts, k, f),
               Holds(L, g, has', residue', call), has' \subseteq L.all, has' = has \cup on
        PROVE  Lawful(L, has') /\ Reached(S, L, F, call.op, n, has', residue', call)
    <3> DEFINE e == Edge(n, g, on, {})
    <3>1. e.at = n /\ e.fact = g /\ e.on = on /\ e.off = {} /\ e \in Flow(L, p, opts, k, f)
      BY <2>1 DEF Edge
    <3>2. has' \subseteq has \cup e.on /\ has \ e.off \subseteq has'
      BY <2>1, <3>1
    <3> HIDE DEF e, n, L, F, p, k
    <3>3. Lawful(L, has') /\ Reached(S, L, F, call.op, e.at, has', residue', call)
      BY <1>1, <1>3, <2>1, <3>1, <3>2, FlowOn
    <3> QED
      BY <3>1, <3>3
  <2>2. CASE s.op = "make" /\ s.r \cap has = {} /\ has' = has \cup s.r
    <3> DEFINE g == SeenGone(L, f, s.r)
    <3>1. Holds(L, g, has, residue, call)
      BY <1>1, <1>3, <2>2, SeenGoneHolds
    <3>2. Holds(L, Made(g, s.r), has \cup s.r, residue \cap (has \cup s.r), call)
      BY <1>1, <3>1, MadeHolds
    <3>3. Edge(n, Made(g, s.r), s.r, {}) \in Flow(L, p, opts, k, f)
      BY <2>2 DEF Flow
    <3> QED
      BY <1>2, <1>4, <2>1, <2>2, <3>2, <3>3
  <2>3. CASE s.op \in {"ensure", "note"} /\ has' = has \cup s.r
    <3>1. Holds(L, Made(f, s.r), has \cup s.r, residue \cap (has \cup s.r), call)
      BY <1>1, <1>3, MadeHolds
    <3>2. Edge(n, Made(f, s.r), s.r, {}) \in Flow(L, p, opts, k, f)
      BY <2>3 DEF Flow
    <3> QED
      BY <1>2, <1>4, <2>1, <2>3, <3>1, <3>2
  <2>4. CASE s.op \in {"drop", "forget", "clean"} /\ has' = has \ s.r
    BY <1>1, <1>2, <2>4, RemovalReaches
  <2>5. CASE s.op = "try" /\ has' = has
    <3>1. residue' = residue /\ Holds(L, f, has', residue', call)
      BY <1>1, <1>2, <1>3, <2>5
    <3>2. Edge(n, f, {}, {}) \in Flow(L, p, opts, k, f)
      BY <2>5 DEF Flow
    <3> QED
      BY <1>4, <2>1, <2>5, <3>1, <3>2
  <2>6. CASE s.op = "await" /\ s.r \cap has = {} /\ has' = has
    <3>1. residue' = residue
      BY <1>1, <1>2, <2>6
    <3>2. Holds(L, SeenGone(L, f, s.r), has', residue', call)
      BY <1>1, <1>3, <2>6, <3>1, SeenGoneHolds
    <3>3. Edge(n, SeenGone(L, f, s.r), {}, {}) \in Flow(L, p, opts, k, f)
      BY <2>6 DEF Flow
    <3> QED
      BY <1>4, <2>1, <2>6, <3>2, <3>3
  <2> QED
    BY <1>2, <2>2, <2>3, <2>4, <2>5, <2>6
<1>7. residue' \subseteq has'
  BY <1>2
<1> HIDE DEF n
<1>8. CallsKept'
  BY <1>1, <1>2, <1>5, <1>6, <1>7, GoesOn
<1> QED
  BY <1>6, <1>7, <1>8

LEMMA BranchKeeps ==
    ASSUME Inv, Outlined(sys), ~Idle, Branch(Programs[sys][call.op])
    PROVE  Lawful(Laws[sys][opts], has') /\ residue' \subseteq has' /\ CallsKept'
<1> DEFINE p == Programs[sys][call.op]
           F == Outline[sys][opts][call.op]
           L == Laws[sys][opts]
           k == call.pc
           s == p[k]
<1>1. /\ opts \in S.options /\ Lawful(L, has) /\ residue \subseteq has
      /\ MidCall(call) /\ LawsKnown(L) /\ IsOutline(S, L, p, F, opts, call.op)
      /\ k \in 1 .. Len(p)
      /\ Reached(S, L, F, call.op, k, has, residue, call)
  BY UnderWay
<1>2. sys' = sys /\ opts' = opts /\ has' = has /\ residue' = residue
  BY DEF Branch
<1>3. Len(p) \in Nat /\ s.to \in Nat /\ (s.op # "jump" => s.to > 0) /\ has \subseteq L.all
  BY <1>1 DEF IsOutline, WellFormed, Lawful
<1>4. PICK n \in Nat \ {0} : /\ Continue(p, call, n)
                            /\ Reached(S, L, F, call.op, n, has, residue, call)
  <2>1. CASE s.op \in {"when", "unless"} /\ Continue(p, call, k + IF Taken(s, has) THEN 1 ELSE s.to)
    <3> DEFINE m == k + (IF Taken(s, has) THEN 1 ELSE s.to)
    <3>1. Reached(S, L, F, call.op, m, has, residue, call)
      BY <1>1, <2>1, ConditionReaches
    <3>2. m \in Nat \ {0}
      BY <1>1, <1>3
    <3>3. Continue(p, call, m)
      BY <2>1
    <3> HIDE DEF m
    <3> QED
      BY <3>1, <3>2, <3>3
  <2>2. CASE s.op = "maybe" /\ \E j \in {1, s.to} : Continue(p, call, k + j)
    <3>1. PICK j \in {1, s.to} : Continue(p, call, k + j)
      BY <2>2
    <3>2. PICK f \in F[k] : Holds(L, f, has, residue, call)
      BY <1>1 DEF IsOutline, Reached
    <3> DEFINE m == k + j
               e == Edge(m, f, {}, {})
    <3>3. e \in Flow(L, p, opts, k, f)
      BY <2>2 DEF Flow
    <3>4. e.at = m /\ e.fact = f /\ e.on = {} /\ e.off = {}
      BY DEF Edge
    <3>5. m \in Nat \ {0}
      BY <1>1, <1>3
    <3> HIDE DEF e, m
    <3>6. Reached(S, L, F, call.op, e.at, has, residue, call)
      BY <1>1, <1>3, <3>2, <3>3, <3>4, FlowOn
    <3> QED
      BY <3>1, <3>4, <3>5, <3>6 DEF m
  <2> QED
    BY <2>1, <2>2 DEF Branch
<1>5. CallsKept'
  BY <1>1, <1>2, <1>4, GoesOn
<1> QED
  BY <1>1, <1>2, <1>5

(* The outline knows of every way in which a step is refused or fails. *)
LEMMA ErrorKnown ==
    ASSUME NEW L, NEW p, NEW k, NEW f, NEW h, NEW x, NEW c, NEW c2,
           LawsKnown(L), Lawful(L, h), Holds(L, f, h, x, c), c.faults \in Nat,
           p[k].op \in {"make", "ensure", "drop", "try", "await", "fail"},
           p[k].op = "await" => p[k].r \cap h # {},
           c2.before = c.before, c2.missing = c.missing, c2.due = c.due,
           c2.faults = (IF p[k].op = "fail" \/ (p[k].op = "make" /\ p[k].r \cap h # {})
                          THEN c.faults ELSE c.faults + 1),
           c2.faults <= MaxFaults
    PROVE  \E g \in Errors(L, p, k, f) : Holds(L, g, h, x, c2)
<1> DEFINE s == p[k]
           refused == s.op = "fail" \/ (s.op = "make" /\ s.r \cap h # {})
<1>1. CASE refused
  <2>1. Holds(L, f, h, x, c2)
    BY <1>1, HoldsSame
  <2>2. CASE s.op = "fail"
    <3>1. f \in Errors(L, p, k, f)
      BY <2>2 DEF Errors
    <3> QED
      BY <2>1, <3>1
  <2>3. CASE s.op = "make" /\ s.r \cap h # {}
    <3>1. PICK r \in s.r : r \in h
      BY <2>3
    <3>2. Holds(L, SeenThere(L, f, {r}), h, x, c2)
      BY <2>1, <3>1, SeenThereHolds
    <3>3. {SeenThere(L, f, {q}) : q \in s.r} \subseteq Errors(L, p, k, f)
      BY <2>3 DEF Errors
    <3>4. SeenThere(L, f, {r}) \in Errors(L, p, k, f)
      BY <3>1, <3>3
    <3> QED
      BY <3>2, <3>4
  <2> QED
    BY <1>1, <2>2, <2>3
<1>2. CASE ~refused
  <2> DEFINE g == Faulted(f)
  <2>1. c2.faults = c.faults + 1
    BY <1>2
  <2>2. Holds(L, g, h, x, c2)
    BY <2>1, FaultedHolds
  <2>3. f.faults < MaxFaults
    BY <2>1, FaultsAssumption DEF Holds
  <2> HIDE DEF g
  <2>4. CASE s.op = "make"
    <3>1. s.r \cap h = {}
      BY <1>2, <2>4
    <3>2. Holds(L, SeenGone(L, g, s.r), h, x, c2)
      BY <2>2, <3>1, SeenGoneHolds
    <3>3. SeenGone(L, g, s.r) \in Errors(L, p, k, f)
      BY <2>3, <2>4 DEF Errors, g
    <3> QED
      BY <3>2, <3>3
  <2>5. CASE s.op = "await"
    <3>1. PICK r \in s.r : r \in h
      BY <2>5
    <3>2. Holds(L, SeenThere(L, g, {r}), h, x, c2)
      BY <2>2, <3>1, SeenThereHolds
    <3>3. {SeenThere(L, g, {q}) : q \in s.r} \subseteq Errors(L, p, k, f)
      BY <2>3, <2>5 DEF Errors, g
    <3>4. SeenThere(L, g, {r}) \in Errors(L, p, k, f)
      BY <3>1, <3>3
    <3> QED
      BY <3>2, <3>4
  <2>6. CASE s.op \in {"ensure", "drop", "try"}
    <3>1. g \in Errors(L, p, k, f)
      BY <2>3, <2>6 DEF Errors, g
    <3> QED
      BY <2>2, <3>1
  <2> QED
    BY <1>2, <2>4, <2>5, <2>6
<1> QED
  BY <1>1, <1>2

LEMMA FailureKeeps ==
    ASSUME Inv, Outlined(sys), ~Idle, Failure(Programs[sys][call.op])
    PROVE  Lawful(Laws[sys][opts], has') /\ residue' \subseteq has' /\ CallsKept'
<1> DEFINE p == Programs[sys][call.op]
           F == Outline[sys][opts][call.op]
           L == Laws[sys][opts]
           k == call.pc
           s == p[k]
           n == k + s.lax
           refused == s.op = "fail" \/ (s.op = "make" /\ s.r \cap has # {})
           made == IF s.lax = 0 THEN {} ELSE Left(p, k, {"make", "ensure", "note"})
           removed == IF s.lax = 0 THEN {} ELSE Left(p, k, {"drop", "clean", "forget", "try", "fail"})
<1>1. /\ opts \in S.options /\ Lawful(L, has) /\ residue \subseteq has
      /\ MidCall(call) /\ LawsKnown(L) /\ IsOutline(S, L, p, F, opts, call.op)
      /\ k \in 1 .. Len(p)
      /\ Reached(S, L, F, call.op, k, has, residue, call)
  BY UnderWay
<1>2. PICK c : c = [call EXCEPT !.faults = IF refused THEN @ ELSE @ + 1,
                              !.missing = IF s.lax = 0 THEN @
                                          ELSE @ \cup Left(p, k, {"make", "ensure", "note"})]
  OBVIOUS
<1>3. /\ s.op \in {"make", "ensure", "drop", "try", "await", "fail"}
      /\ s.op = "await" => s.r \cap has # {}
      /\ c.faults <= MaxFaults
      /\ sys' = sys /\ opts' = opts
  BY <1>2 DEF Failure
<1>4. PICK left \in OneLess(s.undo \cap has), lost \in OneLess(s.redo \cap call.before) :
        /\ left \cup lost # {} => c.faults < MaxFaults
        /\ has' = (has \ s.undo) \cup left \cup ((s.redo \cap call.before) \ lost)
        /\ residue' = (residue \cup left \cup
                         (IF s.lax = 0 THEN {} ELSE Left(p, k, {"drop", "clean", "forget", "try", "fail"})))
                       \cap has'
        /\ LET d == [c EXCEPT !.missing = @ \cup lost] IN
           IF s.lax = 0 THEN End(d, FALSE) ELSE Continue(p, d, n)
  BY <1>2 DEF Failure
<1>5. PICK d : d = [c EXCEPT !.missing = @ \cup lost]
  OBVIOUS
<1>6. /\ c.op = call.op /\ c.before = call.before /\ c.due = call.due
      /\ c.faults = (IF refused THEN call.faults ELSE call.faults + 1)
      /\ c.missing = call.missing \cup made /\ IsCall(c)
  <2>1. IsCall(call)
    BY <1>1 DEF MidCall
  <2> HIDE DEF refused
  <2> QED
    BY <1>2, <2>1 DEF IsCall
<1>7. /\ d.op = c.op /\ d.before = c.before /\ d.due = c.due /\ d.faults = c.faults
      /\ d.missing = c.missing \cup lost /\ IsCall(d)
  BY <1>5, <1>6 DEF IsCall
<1>8. PICK b : b = [call EXCEPT !.faults = c.faults]
  OBVIOUS
<1>9. /\ b.before = call.before /\ b.missing = call.missing /\ b.due = call.due
      /\ b.faults = c.faults
  BY <1>8, <1>1 DEF MidCall, IsCall
<1>10. PICK f \in F[k] : Holds(L, f, has, residue, call)
  BY <1>1 DEF IsOutline, Reached
<1>11. call.faults \in Nat
  <2>1. call.faults \in 0 .. MaxFaults
    BY <1>1 DEF MidCall
  <2> QED
    BY <2>1, FaultsAssumption
<1>12. PICK g \in Errors(L, p, k, f) : Holds(L, g, has, residue, b)
  BY <1>1, <1>3, <1>6, <1>9, <1>10, <1>11, ErrorKnown
<1> DEFINE br == Broken(g, s, made, removed)
           e == Edge(n, br, s.redo, s.undo)
<1>13. Holds(L, br, has', residue', d)
  <2>1. left \subseteq s.undo \cap has /\ lost \subseteq s.redo \cap b.before
    BY <1>4, <1>9 DEF OneLess
  <2>2. d.missing = b.missing \cup made \cup lost
    BY <1>6, <1>7, <1>9
  <2>3. residue' = (residue \cup left \cup removed) \cap has'
    BY <1>4
  <2>4. has' = (has \ s.undo) \cup left \cup ((s.redo \cap b.before) \ lost)
    BY <1>4, <1>9
  <2>5. left \cup lost # {} => b.faults < MaxFaults
    BY <1>4, <1>9
  <2>6. d.before = b.before /\ d.due = b.due /\ d.faults = b.faults
    BY <1>6, <1>7, <1>9
  <2> HIDE DEF made, removed, s, L
  <2>7. Holds(L, g, has, residue, b)
    BY <1>12
  <2>8. ErrorPath(s, has, residue, b, left, lost, made, removed, has', residue', d)
    BY <2>1, <2>2, <2>3, <2>4, <2>5, <2>6 DEF ErrorPath
  <2> QED
    BY <2>7, <2>8, BrokenHolds
<1>14. e \in Fall(L, p, k, f)
  BY <1>12 DEF Fall
<1>15. e.at = n /\ e.fact = br /\ e.on = s.redo /\ e.off = s.undo
  BY DEF Edge
<1>16. /\ s.undo \cup s.redo \subseteq L.all /\ s.lax \in Nat /\ Len(p) \in Nat
       /\ has \subseteq L.all
  BY <1>1 DEF IsOutline, WellFormed, Lawful
<1>17. n \in Nat \ {0}
  <2>1. k \in Nat \ {0}
    BY <1>1
  <2> HIDE DEF s, k
  <2> QED
    BY <1>16, <2>1
<1>18. has' \subseteq L.all /\ has' \subseteq has \cup s.redo /\ has \ s.undo \subseteq has'
  BY <1>4, <1>16 DEF OneLess
<1>19. residue' \subseteq has'
  BY <1>4
<1>20. MidCall(d)
  <2>1. d.op = call.op /\ d.before = call.before
    BY <1>6, <1>7
  <2>2. d.faults \in Nat /\ d.faults <= MaxFaults
    <3> HIDE DEF refused
    <3>1. d.faults <= MaxFaults
      BY <1>3, <1>7
    <3>2. d.faults = call.faults \/ d.faults = call.faults + 1
      BY <1>6, <1>7
    <3> QED
      BY <1>11, <3>1, <3>2
  <2>3. d.faults \in 0 .. MaxFaults
    BY <2>2, FaultsAssumption
  <2> QED
    BY <1>1, <1>7, <2>1, <2>3 DEF MidCall
<1>21. StepFollows(S, L, p, F, opts, call.op, k)
  BY <1>1 DEF IsOutline
<1> HIDE DEF e, br, n, made, removed, refused
<1>22. CASE s.lax = 0
  <2>1. KeepsLaws(L, e) /\ GivesFailure(S, L, call.op, br)
    <3>1. Possible(L, e.fact)
      BY <1>13, <1>15, HoldsPossible
    <3> QED
      BY <1>14, <1>15, <1>21, <1>22, <3>1 DEF StepFollows
  <2>2. Lawful(L, has')
    BY <1>1, <1>13, <1>15, <1>18, <2>1, LawsKept
  <2>3. End(d, FALSE)
    BY <1>5, <1>4, <1>22
  <2>4. CallsKept'
    <3>1. d.op = call.op /\ d.before \subseteq L.all
      BY <1>6, <1>7, <1>20 DEF MidCall
    <3>2. sys' = sys /\ opts' = opts /\ opts \in S.options
      BY <1>1, <1>3
    <3>3. GivesFailure(S, L, d.op, br)
      BY <2>1, <3>1
    <3> QED
      BY <1>13, <2>2, <2>3, <3>1, <3>2, <3>3, EndFails
  <2> QED
    BY <1>19, <2>2, <2>4
<1>23. CASE s.lax # 0
  <2>1. Leads(S, L, F, call.op, e)
    BY <1>14, <1>21, <1>23 DEF StepFollows
  <2> HIDE DEF L, F
  <2>2. Lawful(L, has') /\ Reached(S, L, F, call.op, e.at, has', residue', d)
    <3>1. Holds(L, e.fact, has', residue', d)
      BY <1>13, <1>15
    <3>2. has' \subseteq has \cup e.on /\ has \ e.off \subseteq has'
      BY <1>15, <1>18
    <3> QED
      BY <1>1, <1>18, <2>1, <3>1, <3>2, LeadsOn
  <2>3. Continue(p, d, n)
    BY <1>5, <1>4, <1>23
  <2>4. CallsKept'
    <3>1. /\ d.op = call.op /\ Lawful(L, has')
          /\ Reached(S, L, F, call.op, n, has', residue', d)
      BY <1>6, <1>7, <1>15, <2>2
    <3> QED
      BY <1>1, <1>3, <1>19, <1>20, <1>17, <2>3, <3>1, GoesOn DEF L, F
  <2> QED
    BY <1>19, <2>2, <2>4 DEF L
<1> QED
  BY <1>22, <1>23

LEMMA CleanFailsKeeps ==
    ASSUME Inv, Outlined(sys), ~Idle, CleanFails(Programs[sys][call.op])
    PROVE  Lawful(Laws[sys][opts], has') /\ residue' \subseteq has' /\ CallsKept'
<1> DEFINE p == Programs[sys][call.op]
           F == Outline[sys][opts][call.op]
           L == Laws[sys][opts]
           k == call.pc
           s == p[k]
           n == k + 1
<1>1. /\ opts \in S.options /\ Lawful(L, has) /\ residue \subseteq has
      /\ MidCall(call) /\ LawsKnown(L) /\ IsOutline(S, L, p, F, opts, call.op)
      /\ k \in 1 .. Len(p)
      /\ Reached(S, L, F, call.op, k, has, residue, call)
  BY UnderWay
<1>2. PICK c : c = [call EXCEPT !.faults = @ + 1]
  OBVIOUS
<1>3. /\ s.op = "clean" /\ call.faults < MaxFaults /\ Continue(p, c, n)
      /\ sys' = sys /\ opts' = opts
  BY <1>2 DEF CleanFails
<1>4. PICK left \in OneLess(s.r \cap has) : /\ has' = (has \ s.r) \cup left
                                           /\ residue' = (residue \cap has') \cup left
  BY DEF CleanFails
<1>5. left \subseteq s.r \cap has
  BY <1>4 DEF OneLess
<1>6. /\ c.op = call.op /\ c.before = call.before /\ c.due = call.due
      /\ c.faults = call.faults + 1 /\ c.missing = call.missing /\ IsCall(c)
  BY <1>1, <1>2 DEF MidCall, IsCall
<1>7. call.faults \in Nat /\ c.faults \in 0 .. MaxFaults
  <2>1. call.faults \in 0 .. MaxFaults
    BY <1>1 DEF MidCall
  <2> QED
    BY <1>3, <1>6, <2>1, FaultsAssumption
<1>8. MidCall(c)
  BY <1>1, <1>6, <1>7 DEF MidCall
<1>9. PICK f \in F[k] : Holds(L, f, has, residue, call)
  BY <1>1 DEF IsOutline, Reached
<1> DEFINE e == Edge(n, Cleaned(f, s.r), {}, s.r)
<1>10. e.at = n /\ e.fact = Cleaned(f, s.r) /\ e.on = {} /\ e.off = s.r
  BY DEF Edge
<1>11. e \in Flow(L, p, opts, k, f)
  <2>1. f.faults < MaxFaults
    BY <1>3, <1>9 DEF Holds
  <2> QED
    BY <1>3, <2>1 DEF Flow
<1>12. Holds(L, Cleaned(f, s.r), has', residue', c)
  <2> HIDE DEF L, s
  <2>1. Holds(L, Cleaned(f, s.r), (has \ s.r) \cup left,
              (residue \cap ((has \ s.r) \cup left)) \cup left, c)
    BY <1>1, <1>5, <1>6, <1>9, CleanedHolds
  <2> QED
    BY <1>4, <2>1
<1>13. has' \subseteq has /\ has \ s.r \subseteq has' /\ residue' \subseteq has'
  BY <1>4, <1>5
<1>14. has' \subseteq L.all /\ n \in Nat \ {0}
  <2>1. has \subseteq L.all
    BY <1>1 DEF Lawful
  <2>2. Len(p) \in Nat /\ k \in 1 .. Len(p)
    BY <1>1 DEF IsOutline, WellFormed
  <2> HIDE DEF L, p, k
  <2> QED
    BY <1>13, <2>1, <2>2
<1> HIDE DEF e, n
<1>15. Lawful(L, has') /\ Reached(S, L, F, call.op, e.at, has', residue', c)
  <2>1. Holds(L, e.fact, has', residue', c)
    BY <1>10, <1>12
  <2>2. has' \subseteq has \cup e.on /\ has \ e.off \subseteq has'
    BY <1>10, <1>13
  <2> HIDE DEF L, F, p, k
  <2> QED
    BY <1>1, <1>9, <1>11, <1>14, <2>1, <2>2, FlowOn
<1>16. CallsKept'
  <2>1. Reached(S, L, F, c.op, n, has', residue', c) /\ Continue(Programs[sys][c.op], c, n)
    BY <1>3, <1>6, <1>10, <1>15
  <2> QED
    BY <1>1, <1>3, <1>6, <1>8, <1>13, <1>14, <1>15, <2>1, GoesOn
<1> QED
  BY <1>13, <1>15, <1>16

-----------------------------------------------------------------------------
(* What happens around an operation. *)

(* When nothing is under way and nothing has just ended, nothing is promised. *)
LEMMA NothingPromised ==
    ASSUME call' = NoCall, done' = None, (Obeys(Laws[sys][opts].rest, has))'
    PROVE  CallsKept'
<1>1. Idle'
  BY DEF Idle, NoCall
<1> QED
  BY <1>1 DEF CallsKept, FailureChangesNothing, SuccessIsTrue, NeverStuck, Ended, NoCall

LEMMA GuestExitsKeeps ==
    ASSUME Inv, Outlined(sys), GuestExits
    PROVE  Lawful(Laws[sys][opts], has') /\ residue' \subseteq has' /\ CallsKept'
<1> DEFINE L == Laws[sys][opts]
<1>1. /\ sys' = sys /\ opts' = opts /\ done' = None
      /\ has' = has \ S.guest /\ residue' = residue \ S.guest /\ S.guest \cap has # {}
  BY DEF GuestExits, Lose
<1>2. Lawful(L, has) /\ residue \subseteq has /\ opts \in S.options
  BY DEF Inv
<1>3. Lawful(L, has')
  <2>1. Obeys(L.laws, has \ S.guest)
    BY <1>2, LawsOfSystem, LawsAfterLoss DEF LawsStand, Lawful
  <2> QED
    BY <1>1, <1>2, <2>1 DEF Lawful
<1>4. residue' \subseteq has'
  BY <1>1, <1>2
<1>5. CASE Idle
  <2>1. call' = NoCall
    BY <1>5 DEF GuestExits
  <2>2. Obeys(L.rest, has)
    BY <1>5 DEF Inv, CallsKept
  <2>3. Obeys(L.rest, has \ S.guest)
    BY <1>2, <2>2, LawsOfSystem, LawsAfterLoss DEF LawsStand
  <2> QED
    BY <1>1, <1>3, <1>4, <2>1, <2>3, NothingPromised
<1>6. CASE ~Idle
  <2> DEFINE p == Programs[sys][call.op]
             F == Outline[sys][opts][call.op]
             k == call.pc
  <2>1. /\ MidCall(call) /\ LawsKnown(L) /\ IsOutline(S, L, p, F, opts, call.op)
        /\ k \in 1 .. Len(p)
        /\ Reached(S, L, F, call.op, k, has, residue, call)
    BY <1>6, UnderWay
  <2>2. PICK c : c = [call EXCEPT !.before = @ \ S.guest, !.missing = @ \cup S.guest,
                                  !.due = FALSE]
    OBVIOUS
  <2>3. call' = c
    BY <1>6, <2>2 DEF GuestExits
  <2>4. /\ c.op = call.op /\ c.pc = k /\ c.before = call.before \ S.guest /\ c.due = FALSE
        /\ c.faults = call.faults /\ c.missing = call.missing \cup S.guest /\ IsCall(c)
    BY <2>1, <2>2 DEF MidCall, IsCall
  <2>5. PICK f \in F[k] : Holds(L, f, has, residue, call)
    BY <2>1 DEF IsOutline, Reached
  <2> DEFINE e == Edge(k, Exited(L, f, S.guest), {}, {})
  <2>6. e.at = k /\ e.fact = Exited(L, f, S.guest)
    BY DEF Edge
  <2>7. Leads(S, L, F, call.op, e)
    <3>1. PICK r \in S.guest : r \in has
      BY <1>1
    <3>2. r \in L.all
      BY <1>2, <3>1 DEF Lawful
    <3>3. MayBe(f, r)
      BY <2>5, <3>1, <3>2, HoldsMay
    <3>4. StepFollows(S, L, p, F, opts, call.op, k)
      BY <2>1 DEF IsOutline
    <3> HIDE DEF L, F, p, k
    <3> QED
      BY <2>5, <3>1, <3>2, <3>3, <3>4 DEF StepFollows
  <2> HIDE DEF e
  <2>8. Holds(L, e.fact, has', residue', c)
    <3> HIDE DEF L
    <3>1. Holds(L, Exited(L, f, S.guest), has \ S.guest, residue \ S.guest, c)
      BY <2>4, <2>5, ExitedHolds
    <3> QED
      BY <1>1, <2>6, <3>1
  <2>9. Reached(S, L, F, call.op, k, has', residue', c)
    BY <1>3, <2>1, <2>6, <2>7, <2>8, LeadsReaches
  <2>10. S' = S
    BY <1>1 DEF S
  <2>11. MidCall(c)'
    <3>1. c.before \subseteq L.all /\ c.op \in DOMAIN Programs[sys] /\ c.faults \in 0 .. MaxFaults
      BY <2>1, <2>4 DEF MidCall
    <3> QED
      BY <1>1, <2>3, <2>4, <3>1 DEF MidCall, IsCall
  <2>12. OnOutline(call)'
    BY <1>1, <2>1, <2>3, <2>4, <2>9, <2>10, <2>11 DEF OnOutline
  <2>13. ~Idle'
    BY <1>6, <2>3, <2>4 DEF Idle
  <2>14. CallsKept'
    BY <1>1, <2>12, <2>13 DEF CallsKept, FailureChangesNothing, SuccessIsTrue, NeverStuck, Ended
  <2> QED
    BY <1>3, <1>4, <2>14
<1> QED
  BY <1>5, <1>6

LEMMA CrashKeeps ==
    ASSUME Inv, Outlined(sys), Crash \/ Reboot
    PROVE  Lawful(Laws[sys][opts], has') /\ residue' \subseteq has' /\ CallsKept'
<1> DEFINE L == Laws[sys][opts]
<1>1. PICK gone \in {S.memory, S.memory \cup S.volatile} :
        /\ has' = has \ gone /\ residue' = residue \ gone /\ call' = NoCall /\ done' = None
        /\ sys' = sys /\ opts' = opts
  BY DEF Crash, Reboot, Lose
<1>2. Lawful(L, has) /\ residue \subseteq has /\ opts \in S.options
  BY DEF Inv
<1>3. LawsStand(S, L)
  BY <1>2, LawsOfSystem
<1>4. Lawful(L, has')
  <2>1. \A l \in L.laws : l.then \cap gone # {} => l.if \cap gone # {}
    BY <1>1, <1>3 DEF LawsStand
  <2>2. Obeys(L.laws, has \ gone)
    BY <1>2, <2>1, LawsAfterLoss DEF Lawful
  <2> QED
    BY <1>1, <1>2, <2>2 DEF Lawful
\* what the laws at rest begin with is gone
<1>5. Obeys(L.rest, has')
  <2>1. \A l \in L.rest : l.if \cap S.memory # {}
    BY <1>3 DEF LawsStand
  <2> QED
    BY <1>1, <2>1 DEF Obeys
<1> QED
  BY <1>1, <1>2, <1>4, <1>5, NothingPromised

-----------------------------------------------------------------------------
(* Every behaviour keeps the invariant. *)

LEMMA InitInv == Init => Inv
<1> SUFFICES ASSUME Init PROVE Inv
  OBVIOUS
<1>1. /\ sys \in DOMAIN Systems /\ opts \in S.options /\ has \in S.starts
      /\ residue = {} /\ call = NoCall /\ done = None
  BY DEF Init
<1>2. Idle
  BY <1>1 DEF Idle, NoCall
<1>3. ASSUME Outlined(sys)
      PROVE  Lawful(Laws[sys][opts], has) /\ Obeys(Laws[sys][opts].rest, has)
  <2>1. Lawful(Rested(Laws[sys][opts]), has)
    BY <1>1, <1>3, LawsOfSystem DEF LawsStand
  <2> QED
    BY <2>1 DEF Lawful, Obeys, Rested
<1>4. FailureChangesNothing /\ SuccessIsTrue /\ NeverStuck
  BY <1>1 DEF FailureChangesNothing, SuccessIsTrue, NeverStuck, Ended
<1> QED
  BY <1>1, <1>2, <1>3, <1>4 DEF Inv, CallsKept

LEMMA NextSystem ==
    ASSUME Next
    PROVE  sys' = sys /\ opts' = opts
  BY DEF Next, Begin, Succeed, Branch, Failure, CleanFails, GuestExits, Crash, Reboot

LEMMA NextKeeps ==
    ASSUME Inv, Outlined(sys), Next
    PROVE  Lawful(Laws[sys][opts], has') /\ residue' \subseteq has' /\ CallsKept'
<1>1. CASE \E op \in DOMAIN Programs[sys] : Begin(Programs[sys][op], op)
  BY <1>1, BeginKeeps
<1>2. CASE ~Idle /\ Succeed(Programs[sys][call.op])
  BY <1>2, SucceedKeeps
<1>3. CASE ~Idle /\ Branch(Programs[sys][call.op])
  BY <1>3, BranchKeeps
<1>4. CASE ~Idle /\ Failure(Programs[sys][call.op])
  BY <1>4, FailureKeeps
<1>5. CASE ~Idle /\ CleanFails(Programs[sys][call.op])
  BY <1>5, CleanFailsKeeps
<1>6. CASE GuestExits
  BY <1>6, GuestExitsKeeps
<1>7. CASE Crash \/ Reboot
  BY <1>7, CrashKeeps
<1> QED
  BY <1>1, <1>2, <1>3, <1>4, <1>5, <1>6, <1>7 DEF Next

LEMMA StepInv == Inv /\ [Next]_vars => Inv'
<1> SUFFICES ASSUME Inv, [Next]_vars PROVE Inv'
  OBVIOUS
<1>1. CASE Next
  <2>1. sys' = sys /\ opts' = opts
    BY <1>1, NextSystem
  <2>2. S' = S
    BY <2>1 DEF S
  <2>3. sys \in DOMAIN Systems /\ opts \in S.options
    BY DEF Inv
  <2>4. ASSUME Outlined(sys)
        PROVE  Lawful(Laws[sys][opts], has') /\ residue' \subseteq has' /\ CallsKept'
    BY <1>1, <2>4, NextKeeps
  <2> QED
    BY <2>1, <2>2, <2>3, <2>4 DEF Inv
<1>2. CASE UNCHANGED vars
  <2>1. /\ sys' = sys /\ opts' = opts /\ has' = has /\ residue' = residue
        /\ call' = call /\ done' = done
    BY <1>2 DEF vars
  <2>2. S' = S /\ Known' = Known
    BY <2>1 DEF S, Known
  <2>3. CallsKept' = CallsKept
    BY <2>1, <2>2 DEF CallsKept, OnOutline, MidCall, IsCall, FailureChangesNothing,
                      SuccessIsTrue, NeverStuck, Ended, Idle, NoCall
  <2> QED
    BY <2>1, <2>2, <2>3 DEF Inv
<1> QED
  BY <1>1, <1>2

LEMMA InvAlways == Spec => []Inv
  BY InitInv, StepInv, PTL DEF Spec

(* The laws hold at all times, inside operations, after crashes and reboots, and the laws
   at rest whenever no operation is under way. *)
THEOREM LawsAlwaysHold ==
    Spec => [](Outlined(sys) => /\ Lawful(Laws[sys][opts], has)
                                /\ Idle => Obeys(Laws[sys][opts].rest, has))
<1>1. Inv => (Outlined(sys) => /\ Lawful(Laws[sys][opts], has)
                               /\ Idle => Obeys(Laws[sys][opts].rest, has))
  BY DEF Inv, CallsKept
<1> QED
  BY <1>1, InvAlways, PTL

(* The state of an operation is always of its type: the procedures only go forward to
   steps they have, and the faults stay within the bound. *)
THEOREM OperationsTyped == Spec => [](Outlined(sys) => TypeOK)
<1>1. Inv => (Outlined(sys) => TypeOK)
  <2> SUFFICES ASSUME Inv, Outlined(sys) PROVE TypeOK
    OBVIOUS
  <2>1. ASSUME ~Idle PROVE call.pc \in Nat /\ call.faults \in 0 .. MaxFaults
    <3>1. call.pc \in 1 .. Len(Programs[sys][call.op]) /\ MidCall(call)
      BY <2>1, UnderWay
    <3>2. IsOutline(S, Laws[sys][opts], Programs[sys][call.op], Outline[sys][opts][call.op],
                    opts, call.op)
      BY <2>1, UnderWay
    <3>3. Len(Programs[sys][call.op]) \in Nat
      BY <3>2 DEF IsOutline, WellFormed
    <3> QED
      BY <3>1, <3>3 DEF MidCall
  <2>2. ASSUME Idle PROVE call.pc \in Nat /\ call.faults \in 0 .. MaxFaults
    <3>1. call = NoCall
      BY <2>2 DEF Inv, CallsKept
    <3> QED
      BY <3>1, FaultsAssumption DEF NoCall
  <2> QED
    BY <2>1, <2>2 DEF Inv, CallsKept, TypeOK
<1> QED
  BY <1>1, InvAlways, PTL

(* An additive operation that fails has changed nothing but what its cleanup could not
   remove or the exceptions name, wherever in its procedure the error came. *)
THEOREM FailuresChangeNothing == Spec => [](Outlined(sys) => FailureChangesNothing)
<1>1. Inv => (Outlined(sys) => FailureChangesNothing)
  BY DEF Inv, CallsKept
<1> QED
  BY <1>1, InvAlways, PTL

(* An operation that reports success has made and removed what it is for, but for what
   it logged and what it did not see: a bhyve guest that a failed query of the process
   table or a stale PID hid from it. *)
THEOREM SuccessesAreTrue == Spec => [](Outlined(sys) => SuccessIsTrue)
<1>1. Inv => (Outlined(sys) => SuccessIsTrue)
  BY DEF Inv, CallsKept
<1> QED
  BY <1>1, InvAlways, PTL

(* Whatever failures, crashes and reboots left behind, an operation that has to be
   possible fails only when something fails. *)
THEOREM OperationsNeverStuck == Spec => [](Outlined(sys) => NeverStuck)
<1>1. Inv => (Outlined(sys) => NeverStuck)
  BY DEF Inv, CallsKept
<1> QED
  BY <1>1, InvAlways, PTL

(* A running guest has its record, from the claim of its name to its deletion. *)
THEOREM GuestsAreKnown == Spec => [](Outlined(sys) => GuestIsKnown)
<1>1. Inv => (Outlined(sys) => GuestIsKnown)
  <2> SUFFICES ASSUME Inv, Outlined(sys), S.guest \cap has # {},
                      ~\E r \in S.guest : <<"delete", r>> \in S.known
               PROVE  S.record \subseteq has
    BY DEF GuestIsKnown
  <2> DEFINE L == Laws[sys][opts]
  <2>1. Lawful(L, has)
    BY DEF Inv
  <2>2. PICK r \in S.guest : r \in has
    OBVIOUS
  <2>3. r \in L.all
    BY <2>1, <2>2 DEF Lawful
  <2>4. \A k \in S.record : \E l \in L.laws : l.if \subseteq {r} /\ l.then \subseteq {k}
    <3>1. opts \in S.options
      BY DEF Inv
    <3>2. LawsStand(S, L)
      BY <3>1, LawsOfSystem
    <3>3. \A q \in S.guest \cap L.all, k \in S.record :
            \E l \in L.laws : l.if \subseteq {q} /\ l.then \subseteq {k}
      BY <3>2, Zenon DEF LawsStand
    <3> QED
      BY <2>2, <2>3, <3>3
  <2>5. ASSUME NEW k \in S.record PROVE k \in has
    <3>1. PICK l \in L.laws : l.if \subseteq {r} /\ l.then \subseteq {k}
      BY <2>4
    <3>2. l.then \cap has # {}
      BY <2>1, <2>2, <3>1 DEF Lawful, Obeys
    <3> QED
      BY <3>1, <3>2
  <2> QED
    BY <2>5
<1> QED
  BY <1>1, InvAlways, PTL
=============================================================================
