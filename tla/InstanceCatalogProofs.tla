----------------------- MODULE InstanceCatalogProofs ------------------------
(***************************************************************************)
(* Proofs about InstanceCatalog for any names, clients, operations and     *)
(* numbers of instances and of failures.                                   *)
(***************************************************************************)
EXTENDS InstanceCatalog, TLAPS

-----------------------------------------------------------------------------
(* What a step has to show. *)

\* The step leaves everything about the name as it was, and forgets no excuse.
KeptAt(n) ==
  /\ host'[n] = host[n] /\ row'[n] = row[n] /\ rules'[n] = rules[n]
  /\ \A w \in Whys : Excuses(n, w) => Excuses(n, w)'

\* The step is one of the request of c: it moves that request or ends it, and touches
\* nothing at the names of others.
Moves(c) ==
  /\ req' = [req EXCEPT ![c] = req'[c]]
  /\ req'[c] # None => req'[c].name = req[c].name /\ req'[c].new = req[c].new
  /\ \A n \in Names : n \notin {req[c].name, req[c].new} => KeptAt(n)

(* A name a step does not touch stays settled.                              *)
LEMMA SettledKept ==
  ASSUME NEW n \in Names, Settled(n), KeptAt(n)
  PROVE  Settled(n)'
BY DEF Settled, Agree, Tells, RulesFitRecord, NothingToInherit, KeptAt, Excuses, Whys

(* A request whose names a step does not touch is where it was.             *)
LEMMA InFlightKept ==
  ASSUME NEW c \in Clients, req'[c] = req[c], InFlight(req[c]),
         KeptAt(req[c].name), KeptAt(req[c].new),
         req[c].name \in Names, req[c].new \in Names
  PROVE  InFlight(req[c])'
<1> DEFINE q == req[c]
<1> USE DEF KeptAt, Excuses, Whys, RulesFitRecord, NothingToInherit, Tells
<1>1. Making(q) => WhileMaking(q)'
  BY SettledKept DEF InFlight, WhileMaking
<1>2. Moving(q) => WhileMoving(q)'
  BY DEF InFlight, WhileMoving
<1>3. Removing(q) => WhileRemoving(q)'
  BY DEF InFlight, WhileRemoving
<1>4. Changing(q) => WhileChanging(q)'
  BY DEF InFlight, WhileChanging
<1>5. Switching(q) => WhileSwitching(q)'
  BY DEF InFlight, WhileSwitching
<1>6. Elsewhere(q) => Elsewhere(q)'
  BY SettledKept DEF Elsewhere
<1> QED
  BY <1>1, <1>2, <1>3, <1>4, <1>5, <1>6 DEF InFlight, Making, Moving, Removing, Changing,
     Switching

(* A step of one request preserves the invariant if it leaves its own names *)
(* as the place it reaches requires.                                        *)
LEMMA RequestStep ==
  ASSUME CatalogInv, Apart, TypeOK', GensFit', NEW c \in Clients, Moves(c),
         NEW q, q = req[c], q # None, NEW r, r = req'[c],
         r # None => InFlight(r)',
         r = None => Settled(q.name)' /\ Settled(q.new)'
  PROVE  CatalogInv'
<1>1. req \in [Clients -> Requests \cup {None}]
  BY DEF CatalogInv, TypeOK
<1>2. \A d \in Clients : d # c => req'[d] = req[d]
  BY <1>1 DEF Moves
<1>3. ASSUME NEW d \in Clients, req'[d] # None PROVE InFlight(req[d])'
  <2>1. CASE d = c
    <3>1. InFlight(r)' /\ r = req'[d]
      BY <1>3, <2>1
    <3> QED
      BY <3>1
  <2>2. CASE d # c
    <3>1. req[d] = req'[d] /\ req[d] # None /\ req[d] \in Requests
      BY <1>1, <1>2, <1>3, <2>2
    <3>2. About(c) \cap About(d) = {}
      BY <2>2 DEF Apart
    <3>3. KeptAt(req[d].name) /\ KeptAt(req[d].new)
      BY <3>1, <3>2 DEF About, Moves, Requests
    <3>4. InFlight(req[d])
      BY <3>1 DEF CatalogInv
    <3> QED
      BY <3>1, <3>3, <3>4, InFlightKept DEF Requests
  <2> QED
    BY <2>1, <2>2
<1>4. ASSUME NEW n \in Names, ~Busy(n)' PROVE Settled(n)'
  <2>1. CASE n \in About(c)
    <3>1. r = None /\ n \in {q.name, q.new}
      BY <1>4, <2>1 DEF Busy, About, Moves
    <3> QED
      BY <3>1
  <2>2. CASE n \notin About(c)
    <3>1. \A d \in Clients : n \notin About(d)
      BY <1>2, <1>4, <2>2 DEF Busy, About
    <3>2. Settled(n)
      BY <3>1 DEF Busy, CatalogInv
    <3>3. KeptAt(n)
      BY <2>2 DEF About, Moves
    <3> QED
      BY <3>2, <3>3, SettledKept
  <2> QED
    BY <2>1, <2>2
<1> QED
  BY <1>3, <1>4 DEF CatalogInv

(* Where a request stands after it has moved, and when it has ended. *)
LEMMA Going ==
  ASSUME TypeOK, NEW c \in Clients, NEW q, q = req[c], q # None, NEW r, r = req'[c],
         NEW pc \in Places, Go(c, pc) \/ GoOn(c, pc)
  PROVE  /\ r \in Requests /\ r # None /\ r.pc = pc
         /\ r.op = q.op /\ r.name = q.name /\ r.new = q.new /\ r.seen = q.seen /\ r.made = q.made
         /\ req' \in [Clients -> Requests \cup {None}] /\ req' = [req EXCEPT ![c] = r]
<1>1. q \in Requests
  BY DEF TypeOK
<1>2. PICK f \in 0 .. MaxFaults : req' = [req EXCEPT ![c] = [q EXCEPT !.pc = pc, !.faults = f]]
  <2>1. CASE Go(c, pc)
    <3>1. req' = [req EXCEPT ![c] = [q EXCEPT !.pc = pc, !.faults = q.faults]]
      BY <1>1, <2>1 DEF TypeOK, Go, Requests
    <3> QED
      BY <1>1, <3>1 DEF Requests
  <2>2. CASE GoOn(c, pc)
    <3>1. req' = [req EXCEPT ![c] = [q EXCEPT !.pc = pc, !.faults = q.faults + 1]] /\ q.faults < MaxFaults
      BY <1>1, <2>2 DEF TypeOK, GoOn, Requests
    <3>2. q.faults + 1 \in 0 .. MaxFaults
      BY <1>1, <3>1, CatalogAssumption DEF Requests
    <3> QED
      BY <3>1, <3>2
  <2> QED
    BY <2>1, <2>2
<1>3. r = [q EXCEPT !.pc = pc, !.faults = f] /\ r \in Requests
  BY <1>1, <1>2 DEF TypeOK, Requests
<1> QED
  BY <1>1, <1>2, <1>3, NoneIsFresh DEF TypeOK, Requests

LEMMA Returning ==
  ASSUME TypeOK, NEW c \in Clients, Return(c) \/ GiveUp(c)
  PROVE  /\ req' \in [Clients -> Requests \cup {None}] /\ req' = [req EXCEPT ![c] = None]
         /\ req'[c] = None
BY DEF TypeOK, Return, GiveUp


-----------------------------------------------------------------------------
(* One lemma per step of a request: looking up. *)

(* A clone or a rename looks the new name up. *)
LEMMA CheckNewNameStep ==
  ASSUME CatalogInv, Apart, NEW c \in Clients, CheckNewName(c)
  PROVE  CatalogInv'
<1> PICK q, r : q = req[c] /\ r = req'[c]
  OBVIOUS
<1>1. q \in Requests /\ q # None /\ InFlight(q) /\ q.op \in {"clone", "rename"} /\ q.pc = "name"
  BY DEF CheckNewName, At, CatalogInv, TypeOK
<1>2. q.name \in Names /\ q.new \in Names /\ Elsewhere(q)
  BY <1>1 DEF InFlight, Making, Moving, Removing, Changing, Switching, Requests
<1>3. TypeOK'
  BY <1>1, <1>2 DEF CheckNewName, CatalogInv, TypeOK, Go, GiveUp, Return, Requests, Places, Whys,
     Instances
<1>4. GensFit'
  BY <1>1, <1>2 DEF CheckNewName, GensFit, CatalogInv, TypeOK, Go, GiveUp, Return, Requests,
     Instances
<1>5. Moves(c)
  BY <1>1, <1>2 DEF CheckNewName, CatalogInv, TypeOK, Go, GiveUp, Return, Requests, Moves,
     KeptAt, Excuses, Whys
<1>6. CASE Return(c) \/ GiveUp(c)
  <2>1. UNCHANGED <<host, row, rules, excused>> /\ r = None
    BY <1>1, <1>6, Returning DEF CheckNewName, CatalogInv
  <2>2. Settled(q.name)'
    BY <1>1, <1>2, <1>6, <2>1 DEF Elsewhere, Settled, Agree, Tells, RulesFitRecord, NothingToInherit,
       Excuses
  <2>3. Settled(q.new)'
    BY <1>1, <1>2, <1>6, <2>1 DEF Elsewhere, Settled, Agree, Tells, RulesFitRecord, NothingToInherit,
       Excuses
  <2> QED
    BY <1>1, <1>3, <1>4, <1>5, <2>1, <2>2, <2>3, RequestStep
<1>7. CASE row[q.new] = None /\ Go(c, "provider")
  <2>1. /\ r.op = q.op /\ r.name = q.name /\ r.new = q.new /\ r.pc = "provider" /\ r # None
        /\ r.seen = q.seen /\ r.made = q.made /\ UNCHANGED <<host, row, rules, excused>>
    BY <1>1, <1>7, Going DEF CheckNewName, CatalogInv, Places
  <2>2. Elsewhere(r)'
    BY <1>1, <1>2, <1>7, <2>1 DEF Elsewhere, Settled, Agree, Tells, RulesFitRecord, NothingToInherit,
       Excuses
  <2>3. InFlight(r)'
    BY <1>1, <1>2, <1>7, <2>1, <2>2 DEF InFlight, Making, Moving, Removing, Changing, Switching
  <2> QED
    BY <1>1, <1>3, <1>4, <1>5, <2>1, <2>3, RequestStep
<1> QED
  BY <1>1, <1>6, <1>7 DEF CheckNewName

(* A creation looks its name up. *)
LEMMA CheckNameStep ==
  ASSUME CatalogInv, Apart, NEW c \in Clients, CheckName(c)
  PROVE  CatalogInv'
<1> PICK q, r : q = req[c] /\ r = req'[c]
  OBVIOUS
<1>1. q \in Requests /\ q # None /\ InFlight(q) /\ q.op = "create" /\ q.pc = "name"
  BY DEF CheckName, At, CatalogInv, TypeOK
<1>2. q.name \in Names /\ q.new \in Names /\ Elsewhere(q)
  BY <1>1 DEF InFlight, Making, Moving, Removing, Changing, Switching, Requests
<1>3. TypeOK'
  BY <1>1, <1>2 DEF CheckName, CatalogInv, TypeOK, Go, GoOn, Requests, Places, Whys, Instances
<1>4. GensFit'
  BY <1>1, <1>2 DEF CheckName, GensFit, CatalogInv, TypeOK, Go, GoOn, Requests, Instances
<1>5. Moves(c)
  BY <1>1, <1>2 DEF CheckName, CatalogInv, TypeOK, Go, GoOn, Requests, Moves, KeptAt, Excuses,
     Whys
<1>6. CASE Go(c, "ask")
  <2>1. /\ r.op = q.op /\ r.name = q.name /\ r.new = q.new /\ r.pc = "ask" /\ r # None
        /\ r.seen = q.seen /\ r.made = q.made /\ UNCHANGED <<host, row, rules, excused>>
    BY <1>1, <1>6, Going DEF CheckName, CatalogInv, Places
  <2>2. Elsewhere(r)'
    BY <1>1, <1>2, <1>6, <2>1 DEF Elsewhere, Settled, Agree, Tells, RulesFitRecord, NothingToInherit,
       Excuses
  <2>3. InFlight(r)'
    BY <1>1, <1>2, <1>6, <2>1, <2>2 DEF InFlight, Making, Moving, Removing, Changing, Switching
  <2> QED
    BY <1>1, <1>3, <1>4, <1>5, <2>1, <2>3, RequestStep
<1>7. CASE Go(c, "provider") \/ GoOn(c, "provider")
  <2>1. /\ r.op = q.op /\ r.name = q.name /\ r.new = q.new /\ r.pc = "provider" /\ r # None
        /\ r.seen = q.seen /\ r.made = q.made /\ UNCHANGED <<host, row, rules, excused>>
    BY <1>1, <1>7, Going DEF CheckName, CatalogInv, Places
  <2>2. Elsewhere(r)'
    BY <1>1, <1>2, <1>7, <2>1 DEF Elsewhere, Settled, Agree, Tells, RulesFitRecord, NothingToInherit,
       Excuses
  <2>3. InFlight(r)'
    BY <1>1, <1>2, <1>7, <2>1, <2>2 DEF InFlight, Making, Moving, Removing, Changing, Switching
  <2> QED
    BY <1>1, <1>3, <1>4, <1>5, <2>1, <2>3, RequestStep
<1> QED
  BY <1>1, <1>6, <1>7 DEF CheckName

(* The provider does not know the recorded instance. *)
LEMMA AskRefusesStep ==
  ASSUME CatalogInv, Apart, NEW c \in Clients, AskRefuses(c)
  PROVE  CatalogInv'
<1> PICK q, r : q = req[c] /\ r = req'[c]
  OBVIOUS
<1>1. q \in Requests /\ q # None /\ InFlight(q) /\ q.op = "create" /\ q.pc = "ask"
  BY DEF AskRefuses, At, CatalogInv, TypeOK
<1>2. q.name \in Names /\ q.new \in Names /\ Elsewhere(q)
  BY <1>1 DEF InFlight, Making, Moving, Removing, Changing, Switching, Requests
<1>3. TypeOK'
  BY <1>1, <1>2 DEF AskRefuses, CatalogInv, TypeOK, Return, Requests, Places, Whys, Instances
<1>4. GensFit'
  BY <1>1, <1>2 DEF AskRefuses, GensFit, CatalogInv, TypeOK, Return, Requests, Instances
<1>5. Moves(c)
  BY <1>1, <1>2 DEF AskRefuses, CatalogInv, TypeOK, Return, Requests, Moves, KeptAt, Excuses, Whys
<1>6. CASE Return(c)
  <2>1. UNCHANGED <<host, row, rules, excused>> /\ r = None
    BY <1>1, <1>6, Returning DEF AskRefuses, CatalogInv
  <2>2. Settled(q.name)'
    BY <1>1, <1>2, <1>6, <2>1 DEF Elsewhere, Settled, Agree, Tells, RulesFitRecord, NothingToInherit,
       Excuses
  <2>3. Settled(q.new)'
    BY <1>1, <1>2, <1>6, <2>1 DEF Elsewhere, Settled, Agree, Tells, RulesFitRecord, NothingToInherit,
       Excuses
  <2> QED
    BY <1>1, <1>3, <1>4, <1>5, <2>1, <2>2, <2>3, RequestStep
<1> QED
  BY <1>1, <1>6 DEF AskRefuses

(* The provider cannot tell about the recorded instance. *)
LEMMA AskUnknownStep ==
  ASSUME CatalogInv, Apart, NEW c \in Clients, AskUnknown(c)
  PROVE  CatalogInv'
<1> PICK q, r : q = req[c] /\ r = req'[c]
  OBVIOUS
<1>1. q \in Requests /\ q # None /\ InFlight(q) /\ q.op = "create" /\ q.pc = "ask"
  BY DEF AskUnknown, At, CatalogInv, TypeOK
<1>2. q.name \in Names /\ q.new \in Names /\ Elsewhere(q) /\ q.name = q.new
  BY <1>1 DEF InFlight, Making, Moving, Removing, Changing, Switching, Requests
<1>3. TypeOK'
  BY <1>1, <1>2 DEF AskUnknown, CatalogInv, TypeOK, Go, Requests, Places, Whys, Excuse, Instances
<1>4. GensFit'
  BY <1>1, <1>2 DEF AskUnknown, GensFit, CatalogInv, TypeOK, Go, Requests, Excuse, Instances
<1>5. Moves(c)
  BY <1>1, <1>2 DEF AskUnknown, CatalogInv, TypeOK, Go, Requests, Moves, KeptAt, Excuse, Excuses,
     Whys
<1>6. CASE host[q.new] # None /\ Go(c, "ghostRow") /\ Excuse(q.new, "orphan")
  <2>1. /\ r.op = q.op /\ r.name = q.name /\ r.new = q.new /\ r.pc = "ghostRow" /\ r # None
        /\ r.seen = q.seen /\ r.made = q.made /\ UNCHANGED <<host, row, rules>>
    BY <1>1, <1>6, Going DEF AskUnknown, CatalogInv, Places, Excuse
  <2>2. (\A n \in Names, w \in Whys : Excuses(n, w) => Excuses(n, w)') /\ Excuses(q.new, "orphan")'
    BY <1>1, <1>2, <1>6, <2>1 DEF CatalogInv, TypeOK, Excuses, Excuse, Instances, Requests,
       GensFit, Whys
  <2>3. Elsewhere(r)'
    BY <1>1, <1>2, <1>6, <2>1, <2>2 DEF Elsewhere, Settled, Agree, Tells, RulesFitRecord,
       NothingToInherit, Excuses, Whys
  <2>4. InFlight(r)'
    BY <1>1, <1>2, <1>6, <2>1, <2>3 DEF InFlight, Making, Moving, Removing, Changing, Switching
  <2> QED
    BY <1>1, <1>3, <1>4, <1>5, <2>1, <2>4, RequestStep
<1> QED
  BY <1>1, <1>6 DEF AskUnknown

(* The record of such an instance goes. *)
LEMMA GhostRowStep ==
  ASSUME CatalogInv, Apart, NEW c \in Clients, GhostRow(c)
  PROVE  CatalogInv'
<1> PICK q, r : q = req[c] /\ r = req'[c]
  OBVIOUS
<1>1. q \in Requests /\ q # None /\ InFlight(q) /\ q.op = "create" /\ q.pc = "ghostRow"
  BY DEF GhostRow, At, CatalogInv, TypeOK
<1>2. q.name \in Names /\ q.new \in Names /\ Elsewhere(q) /\ q.name = q.new
  BY <1>1 DEF InFlight, Making, Moving, Removing, Changing, Switching, Requests
<1>3. TypeOK'
  BY <1>1, <1>2 DEF GhostRow, CatalogInv, TypeOK, Go, GoOn, Requests, Places, Whys, Instances
<1>4. GensFit'
  BY <1>1, <1>2 DEF GhostRow, GensFit, CatalogInv, TypeOK, Go, GoOn, Requests, Instances
<1>5. Moves(c)
  BY <1>1, <1>2 DEF GhostRow, CatalogInv, TypeOK, Go, GoOn, Requests, Moves, KeptAt, Excuses, Whys
<1>6. CASE row' = [row EXCEPT ![q.new] = None] /\ Go(c, "ghostRules")
  <2>1. /\ r.op = q.op /\ r.name = q.name /\ r.new = q.new /\ r.pc = "ghostRules" /\ r # None
        /\ r.seen = q.seen /\ r.made = q.made /\ UNCHANGED <<host, rules, excused>>
    BY <1>1, <1>6, Going DEF GhostRow, CatalogInv, Places
  <2>2. row'[q.new] = None
    BY <1>1, <1>2, <1>6, <2>1 DEF CatalogInv, TypeOK, Instances, Requests, GensFit, Whys
  <2>3. Elsewhere(r)'
    BY <1>1, <1>2, <1>6, <2>1, <2>2 DEF Elsewhere, Settled, Agree, Tells, RulesFitRecord,
       NothingToInherit, Excuses
  <2>4. InFlight(r)'
    BY <1>1, <1>2, <1>6, <2>1, <2>3 DEF InFlight, Making, Moving, Removing, Changing, Switching
  <2> QED
    BY <1>1, <1>3, <1>4, <1>5, <2>1, <2>4, RequestStep
<1>7. CASE row' = row /\ GoOn(c, "ghostRules")
  <2>1. /\ r.op = q.op /\ r.name = q.name /\ r.new = q.new /\ r.pc = "ghostRules" /\ r # None
        /\ r.seen = q.seen /\ r.made = q.made /\ UNCHANGED <<host, row, rules, excused>>
    BY <1>1, <1>7, Going DEF GhostRow, CatalogInv, Places
  <2>2. Elsewhere(r)'
    BY <1>1, <1>2, <1>7, <2>1 DEF Elsewhere, Settled, Agree, Tells, RulesFitRecord, NothingToInherit,
       Excuses
  <2>3. InFlight(r)'
    BY <1>1, <1>2, <1>7, <2>1, <2>2 DEF InFlight, Making, Moving, Removing, Changing, Switching
  <2> QED
    BY <1>1, <1>3, <1>4, <1>5, <2>1, <2>3, RequestStep
<1> QED
  BY <1>1, <1>6, <1>7 DEF GhostRow

(* And so do its rules, if they can be removed. *)
LEMMA GhostRulesStep ==
  ASSUME CatalogInv, Apart, NEW c \in Clients, GhostRules(c)
  PROVE  CatalogInv'
<1> PICK q, r : q = req[c] /\ r = req'[c]
  OBVIOUS
<1>1. q \in Requests /\ q # None /\ InFlight(q) /\ q.op = "create" /\ q.pc = "ghostRules"
  BY DEF GhostRules, At, CatalogInv, TypeOK
<1>2. q.name \in Names /\ q.new \in Names /\ Elsewhere(q) /\ q.name = q.new
  BY <1>1 DEF InFlight, Making, Moving, Removing, Changing, Switching, Requests
<1>3. TypeOK'
  BY <1>1, <1>2 DEF GhostRules, CatalogInv, TypeOK, Go, GoOn, Requests, Places, Whys, Excuse,
     Instances
<1>4. GensFit'
  BY <1>1, <1>2 DEF GhostRules, GensFit, CatalogInv, TypeOK, Go, GoOn, Requests, Excuse, Instances
<1>5. Moves(c)
  BY <1>1, <1>2 DEF GhostRules, CatalogInv, TypeOK, Go, GoOn, Requests, Moves, KeptAt, Excuse,
     Excuses, Whys
<1>6. CASE rules' = [rules EXCEPT ![q.new] = None] /\ Go(c, "provider") /\ UNCHANGED excused
  <2>1. /\ r.op = q.op /\ r.name = q.name /\ r.new = q.new /\ r.pc = "provider" /\ r # None
        /\ r.seen = q.seen /\ r.made = q.made /\ UNCHANGED <<host, row>>
    BY <1>1, <1>6, Going DEF GhostRules, CatalogInv, Places, Excuse
  <2>2. rules'[q.new] = None
    BY <1>1, <1>2, <1>6, <2>1 DEF CatalogInv, TypeOK, Instances, Requests, GensFit, Whys
  <2>3. Elsewhere(r)'
    BY <1>1, <1>2, <1>6, <2>1, <2>2 DEF Elsewhere, Settled, Agree, Tells, RulesFitRecord,
       NothingToInherit, Excuses
  <2>4. InFlight(r)'
    BY <1>1, <1>2, <1>6, <2>1, <2>3 DEF InFlight, Making, Moving, Removing, Changing, Switching
  <2> QED
    BY <1>1, <1>3, <1>4, <1>5, <2>1, <2>4, RequestStep
<1>7. CASE UNCHANGED rules /\ GoOn(c, "provider") /\ Excuse(q.new, "rules")
  <2>1. /\ r.op = q.op /\ r.name = q.name /\ r.new = q.new /\ r.pc = "provider" /\ r # None
        /\ r.seen = q.seen /\ r.made = q.made /\ UNCHANGED <<host, row>>
    BY <1>1, <1>7, Going DEF GhostRules, CatalogInv, Places, Excuse
  <2>2. \A n \in Names, w \in Whys : Excuses(n, w) => Excuses(n, w)'
    BY <1>1, <1>2, <1>7, <2>1 DEF CatalogInv, TypeOK, Excuses, Excuse, Instances, Requests,
       GensFit, Whys
  <2>3. Elsewhere(r)'
    BY <1>1, <1>2, <1>7, <2>1, <2>2 DEF Elsewhere, Settled, Agree, Tells, RulesFitRecord,
       NothingToInherit, Excuses, Whys
  <2>4. InFlight(r)'
    BY <1>1, <1>2, <1>7, <2>1, <2>3 DEF InFlight, Making, Moving, Removing, Changing, Switching
  <2> QED
    BY <1>1, <1>3, <1>4, <1>5, <2>1, <2>4, RequestStep
<1> QED
  BY <1>1, <1>6, <1>7 DEF GhostRules

(* The provider refuses or fails. *)
LEMMA ProviderFailsStep ==
  ASSUME CatalogInv, Apart, NEW c \in Clients, ProviderFails(c)
  PROVE  CatalogInv'
<1> PICK q, r : q = req[c] /\ r = req'[c]
  OBVIOUS
<1>1. q \in Requests /\ q # None /\ InFlight(q) /\ q.pc = "provider"
  BY DEF ProviderFails, At, CatalogInv, TypeOK
<1>2. q.name \in Names /\ q.new \in Names /\ Elsewhere(q)
  BY <1>1 DEF InFlight, Making, Moving, Removing, Changing, Switching, Requests
<1>3. TypeOK'
  BY <1>1, <1>2 DEF ProviderFails, CatalogInv, TypeOK, GiveUp, Return, Requests, Places, Whys,
     Instances
<1>4. GensFit'
  BY <1>1, <1>2 DEF ProviderFails, GensFit, CatalogInv, TypeOK, GiveUp, Return, Requests,
     Instances
<1>5. Moves(c)
  BY <1>1, <1>2 DEF ProviderFails, CatalogInv, TypeOK, GiveUp, Return, Requests, Moves, KeptAt,
     Excuses, Whys
<1>6. CASE Return(c) \/ GiveUp(c)
  <2>1. UNCHANGED <<host, row, rules, excused>> /\ r = None
    BY <1>1, <1>6, Returning DEF ProviderFails, CatalogInv
  <2>2. Settled(q.name)'
    BY <1>1, <1>2, <1>6, <2>1 DEF Elsewhere, Settled, Agree, Tells, RulesFitRecord, NothingToInherit,
       Excuses
  <2>3. Settled(q.new)'
    BY <1>1, <1>2, <1>6, <2>1 DEF Elsewhere, Settled, Agree, Tells, RulesFitRecord, NothingToInherit,
       Excuses
  <2> QED
    BY <1>1, <1>3, <1>4, <1>5, <2>1, <2>2, <2>3, RequestStep
<1> QED
  BY <1>1, <1>6 DEF ProviderFails

-----------------------------------------------------------------------------
(* Looking the instance up. *)

(* The lookup finds a record, or the request ends. *)
LEMMA LookupStep ==
  ASSUME CatalogInv, Apart, NEW c \in Clients, Lookup(c)
  PROVE  CatalogInv'
<1> PICK q, r : q = req[c] /\ r = req'[c]
  OBVIOUS
<1>1. q \in Requests /\ q # None /\ InFlight(q) /\ q.pc = "lookup"
  BY DEF Lookup, At, CatalogInv, TypeOK
<1>2. q.name \in Names /\ q.new \in Names /\ Elsewhere(q)
  BY <1>1 DEF InFlight, Making, Moving, Removing, Changing, Switching, Requests
<1>3. UNCHANGED <<host, row, rules, gens, excused>>
  BY DEF Lookup
<1>4. CASE Return(c) \/ GiveUp(c)
  <2>1. TypeOK' /\ GensFit' /\ Moves(c) /\ r = None
    BY <1>3, <1>4, Returning DEF CatalogInv, TypeOK, GensFit, Moves, KeptAt, Excuses
  <2>2. Settled(q.name)' /\ Settled(q.new)'
    BY <1>2, <1>3 DEF Elsewhere, Settled, Agree, Tells, RulesFitRecord, NothingToInherit, Excuses
  <2> QED
    BY <1>1, <2>1, <2>2, RequestStep
<1>5. CASE /\ row[q.name] # None
           /\ req' = [req EXCEPT ![c].seen = IF q.op = "update" THEN row[q.name].spec ELSE None,
                                 ![c].pc = IF q.op \in {"clone", "rename"} THEN "name" ELSE "provider"]
  <2>1. row[q.name].spec \in {0, 1}
    BY <1>2, <1>5 DEF CatalogInv, TypeOK, Instances
  <2>2. PICK s \in {0, 1, None}, pc \in {"name", "provider"} :
             /\ s = IF q.op = "update" THEN row[q.name].spec ELSE None
             /\ pc = IF q.op \in {"clone", "rename"} THEN "name" ELSE "provider"
    BY <2>1
  <2>3. r = [q EXCEPT !.seen = s, !.pc = pc] /\ req' = [req EXCEPT ![c] = r]
    BY <1>1, <1>5, <2>2 DEF CatalogInv, TypeOK, Requests
  <2>4. r \in Requests /\ r.name = q.name /\ r.new = q.new /\ r.op = q.op /\ r.pc = pc /\ r.seen = s
    BY <1>1, <2>3 DEF Requests, Places
  <2>5. r # None
    BY <2>4, NoneIsFresh
  <2>6. TypeOK' /\ GensFit' /\ Moves(c)
    BY <1>3, <2>3, <2>4 DEF CatalogInv, TypeOK, GensFit, Moves, KeptAt, Excuses
  <2>7. Elsewhere(r)'
    <3>1. /\ r.op = "update" => r.seen = row'[r.name].spec
          /\ r.pc = "provider" => r.op \notin {"clone", "rename"}
          /\ r.pc \in {"name", "provider"} /\ row'[r.name] # None
      BY <1>3, <1>5, <2>2, <2>4
    <3> QED
      BY <1>2, <1>3, <2>4, <3>1 DEF Elsewhere, Settled, Agree, Tells, RulesFitRecord, NothingToInherit,
         Excuses
  <2>8. InFlight(r)'
    BY <1>1, <2>2, <2>4, <2>7 DEF InFlight, Making, Moving, Removing, Changing, Switching
  <2> QED
    BY <1>1, <2>5, <2>6, <2>8, RequestStep
<1> QED
  BY <1>4, <1>5 DEF Lookup

-----------------------------------------------------------------------------
(* The providers' part. *)

(* A provider makes an instance at a name that has none: its generation is  *)
(* new, whatever an old record of the name says.                            *)
LEMMA ProviderMakesStep ==
  ASSUME CatalogInv, Apart, NEW c \in Clients, NEW op \in {"create", "clone", "import"},
         NEW states \in SUBSET {"stopped", "running"}, op # "import" => states = {"stopped"},
         NEW next \in {"row", "info"}, ProviderMakes(c, op, states, next)
  PROVE  CatalogInv'
<1> PICK q, r : q = req[c] /\ r = req'[c]
  OBVIOUS
<1>1. q \in Requests /\ q # None /\ InFlight(q) /\ q.op = op /\ q.pc = "provider"
  BY DEF ProviderMakes, At, CatalogInv, TypeOK
<1>2. q.name \in Names /\ q.new \in Names /\ Elsewhere(q)
  BY <1>1 DEF InFlight, Making, Moving, Removing, Changing, Switching, Requests
<1>3. PICK state \in states :
        host' = [host EXCEPT ![q.new] = [gen |-> gens + 1, state |-> state, spec |-> 0]]
  BY DEF ProviderMakes, NewInstance
<1>4. /\ gens \in Nat /\ gens + 1 \in Gens /\ gens' = gens + 1 /\ gens' \in 0 .. MaxGen
      /\ UNCHANGED <<row, rules, excused>> /\ host[q.new] = None
  BY <1>1, CatalogAssumption DEF ProviderMakes, NewInstance, Refused, CatalogInv, TypeOK, Gens
<1>5. [gen |-> gens + 1, state |-> state, spec |-> 0] \in Instances
  BY <1>3, <1>4 DEF Instances, States
<1>6. /\ r = [q EXCEPT !.pc = next, !.made = gens + 1] /\ req' = [req EXCEPT ![c] = r]
      /\ r \in Requests
  BY <1>1, <1>4 DEF ProviderMakes, CatalogInv, TypeOK, Requests, Places
<1>7. r # None /\ r.op = op /\ r.pc = next /\ r.name = q.name /\ r.new = q.new /\ r.made = gens + 1
  BY <1>1, <1>6, NoneIsFresh DEF Requests
<1>8. TypeOK'
  BY <1>2, <1>3, <1>4, <1>5, <1>6 DEF CatalogInv, TypeOK
<1>9. GensFit'
  <2> SUFFICES ASSUME NEW n \in Names
               PROVE  /\ host'[n] # None => host'[n].gen <= gens'
                      /\ row'[n] # None => row'[n].gen <= gens'
    BY DEF GensFit
  <2>1. host[n] # None => host[n].gen \in Nat /\ host[n].gen <= gens
    BY DEF CatalogInv, TypeOK, Instances, Gens, GensFit
  <2>2. row[n] # None => row[n].gen \in Nat /\ row[n].gen <= gens
    BY DEF CatalogInv, TypeOK, Instances, Gens, GensFit
  <2>3. host'[n] = IF n = q.new THEN [gen |-> gens + 1, state |-> state, spec |-> 0] ELSE host[n]
    BY <1>3 DEF CatalogInv, TypeOK
  <2> QED
    BY <1>4, <2>1, <2>2, <2>3
<1>10. Moves(c)
  BY <1>2, <1>3, <1>4, <1>6, <1>7 DEF Moves, KeptAt, Excuses, CatalogInv, TypeOK
<1>11. host'[q.new] = [gen |-> gens + 1, state |-> state, spec |-> 0]
  BY <1>2, <1>3 DEF CatalogInv, TypeOK
<1>12. row[q.new] # None => row[q.new].gen # gens + 1 /\ Excuses(q.new, "ghost")
  BY <1>2, <1>4 DEF Elsewhere, Settled, Agree, Tells, CatalogInv, TypeOK, Instances, Gens, GensFit
<1>13. q.name # q.new => Settled(q.name)'
  <2>1. q.name # q.new => host'[q.name] = host[q.name]
    BY <1>2, <1>3 DEF CatalogInv, TypeOK
  <2> QED
    BY <1>2, <1>4, <2>1 DEF Elsewhere, Settled, Agree, Tells, RulesFitRecord, NothingToInherit, Excuses
<1>14. WhileMaking(r)'
  <2>1. host'[r.new] # None
    BY <1>5, <1>7, <1>11, NoneIsFresh
  <2>2. r.op # "import" => host'[r.new].state = "stopped"
    BY <1>3, <1>7, <1>11
  <2>3. RulesFitRecord(r.new)' /\ NothingToInherit(r.new)'
    BY <1>2, <1>4, <1>7 DEF Elsewhere, Settled, RulesFitRecord, NothingToInherit, Excuses
  <2>4. row'[r.new] # None => row'[r.new].gen # r.made /\ Excuses(r.new, "ghost")'
    BY <1>4, <1>7, <1>12 DEF Excuses
  <2> QED
    BY <1>7, <1>11, <1>13, <2>1, <2>2, <2>3, <2>4 DEF WhileMaking
<1>15. InFlight(r)'
  BY <1>1, <1>7, <1>14 DEF InFlight, Making, Moving, Removing, Changing, Switching
<1> QED
  BY <1>1, <1>7, <1>8, <1>9, <1>10, <1>15, RequestStep

(* The provider deletes the instance, if there is one. *)
LEMMA ProviderDeletesStep ==
  ASSUME CatalogInv, Apart, NEW c \in Clients, ProviderDeletes(c)
  PROVE  CatalogInv'
<1> PICK q, r : q = req[c] /\ r = req'[c]
  OBVIOUS
<1>1. q \in Requests /\ q # None /\ InFlight(q) /\ q.op = "delete" /\ q.pc = "provider"
  BY DEF ProviderDeletes, At, CatalogInv, TypeOK
<1>2. q.name \in Names /\ q.new \in Names /\ Elsewhere(q) /\ q.name = q.new
  BY <1>1 DEF InFlight, Making, Moving, Removing, Changing, Switching, Requests
<1>3. TypeOK'
  BY <1>1, <1>2 DEF ProviderDeletes, CatalogInv, TypeOK, Go, Requests, Places, Whys, Instances
<1>4. GensFit'
  BY <1>1, <1>2 DEF ProviderDeletes, GensFit, CatalogInv, TypeOK, Go, Requests, Instances
<1>5. Moves(c)
  BY <1>1, <1>2 DEF ProviderDeletes, CatalogInv, TypeOK, Go, Requests, Moves, KeptAt, Excuses,
     Whys
<1>6. CASE host' = [host EXCEPT ![q.name] = None] /\ Go(c, "rules")
  <2>1. /\ r.op = q.op /\ r.name = q.name /\ r.new = q.new /\ r.pc = "rules" /\ r # None
        /\ r.seen = q.seen /\ r.made = q.made /\ UNCHANGED <<row, rules, excused>>
    BY <1>1, <1>6, Going DEF ProviderDeletes, CatalogInv, Places
  <2>2. host'[q.name] = None
    BY <1>1, <1>2, <1>6, <2>1 DEF CatalogInv, TypeOK, Instances, Requests, GensFit, Whys
  <2>3. WhileRemoving(r)'
    BY <1>1, <1>2, <1>6, <2>1, <2>2 DEF WhileRemoving, Elsewhere, Settled, Agree, Tells, RulesFitRecord,
       NothingToInherit, Excuses
  <2>4. InFlight(r)'
    BY <1>1, <1>2, <1>6, <2>1, <2>3 DEF InFlight, Making, Moving, Removing, Changing, Switching
  <2> QED
    BY <1>1, <1>3, <1>4, <1>5, <2>1, <2>4, RequestStep
<1> QED
  BY <1>1, <1>6 DEF ProviderDeletes

(* The provider renames; the record follows later. *)
LEMMA ProviderRenamesStep ==
  ASSUME CatalogInv, Apart, NEW c \in Clients, ProviderRenames(c)
  PROVE  CatalogInv'
<1> PICK q, r : q = req[c] /\ r = req'[c]
  OBVIOUS
<1>1. q \in Requests /\ q # None /\ InFlight(q) /\ q.op = "rename" /\ q.pc = "provider"
  BY DEF ProviderRenames, At, CatalogInv, TypeOK
<1>2. q.name \in Names /\ q.new \in Names /\ Elsewhere(q) /\ q.name # q.new
  BY <1>1 DEF InFlight, Making, Moving, Removing, Changing, Switching, Requests
<1>3. TypeOK'
  BY <1>1, <1>2 DEF ProviderRenames, CatalogInv, TypeOK, Go, Requests, Places, Whys, Instances
<1>4. GensFit'
  BY <1>1, <1>2 DEF ProviderRenames, GensFit, CatalogInv, TypeOK, Go, Requests, Instances
<1>5. Moves(c)
  BY <1>1, <1>2 DEF ProviderRenames, CatalogInv, TypeOK, Go, Requests, Moves, KeptAt, Excuses,
     Whys
<1>6. CASE /\ host' = [host EXCEPT ![q.new] = host[q.name], ![q.name] = None] /\ Go(c, "row")
           /\ ~Refused(q)
  <2>1. /\ r.op = q.op /\ r.name = q.name /\ r.new = q.new /\ r.pc = "row" /\ r # None
        /\ r.seen = q.seen /\ r.made = q.made /\ UNCHANGED <<row, rules, excused>>
    BY <1>1, <1>6, Going DEF ProviderRenames, CatalogInv, Places
  <2>2. host'[q.new] = host[q.name] /\ host'[q.name] = None
    BY <1>1, <1>2, <1>6, <2>1 DEF CatalogInv, TypeOK, Instances, Requests, GensFit, Whys
  <2>3. host[q.name] # None /\ host[q.new] = None /\ host[q.name].state # "running"
    BY <1>1, <1>2, <1>6, <2>1, <2>2 DEF CatalogInv, TypeOK, Instances, Requests, GensFit, Whys,
       Refused
  <2>4. WhileMoving(r)'
    <3>1. row[q.name] # None /\ row[q.new] = None
      BY <1>1, <1>2 DEF Elsewhere
    <3>2. IF row[q.name].gen = host[q.name].gen
          THEN Tells(row[q.name], host[q.name], q.name) ELSE Excuses(q.name, "orphan")
      BY <1>2, <2>3, <3>1 DEF Elsewhere, Settled, Agree
    <3>3. RulesFitRecord(q.name)' /\ NothingToInherit(q.new)'
      BY <1>2, <2>1, <2>3 DEF Elsewhere, Settled, RulesFitRecord, NothingToInherit, Excuses
    <3>4. IF row'[q.name].gen = host'[q.new].gen
          THEN Tells(row[q.name], host[q.new], q.name)' ELSE Excuses(q.name, "orphan")'
      BY <2>1, <2>2, <3>2 DEF Tells, Excuses
    <3> QED
      BY <2>1, <2>2, <2>3, <3>1, <3>3, <3>4 DEF WhileMoving
  <2>5. InFlight(r)'
    BY <1>1, <1>2, <1>6, <2>1, <2>4 DEF InFlight, Making, Moving, Removing, Changing, Switching
  <2> QED
    BY <1>1, <1>3, <1>4, <1>5, <2>1, <2>5, RequestStep
<1> QED
  BY <1>1, <1>6 DEF ProviderRenames

(* The provider starts, stops or restarts the instance. *)
LEMMA ProviderRunsStep ==
  ASSUME CatalogInv, Apart, NEW c \in Clients, NEW op \in {"start", "stop", "restart"},
         NEW state \in {"stopped", "running"}, (op = "stop") = (state = "stopped"),
         ProviderRuns(c, op, state)
  PROVE  CatalogInv'
<1> PICK q, r : q = req[c] /\ r = req'[c]
  OBVIOUS
<1>1. q \in Requests /\ q # None /\ InFlight(q) /\ q.op = op /\ q.pc = "provider"
  BY DEF ProviderRuns, At, CatalogInv, TypeOK
<1>2. q.name \in Names /\ q.new \in Names /\ Elsewhere(q) /\ q.name = q.new
  BY <1>1 DEF InFlight, Making, Moving, Removing, Changing, Switching, Requests
<1>3. TypeOK'
  BY <1>1, <1>2 DEF ProviderRuns, Amend, CatalogInv, TypeOK, Go, Requests, Places, Whys, Instances,
     States, Refused
<1>4. GensFit'
  BY <1>1, <1>2 DEF ProviderRuns, Amend, GensFit, CatalogInv, TypeOK, Go, Requests, Instances, States,
     Refused
<1>5. Moves(c)
  BY <1>1, <1>2 DEF ProviderRuns, Amend, CatalogInv, TypeOK, Go, Requests, Moves, KeptAt, Excuses, Whys,
     Refused
<1>6. CASE /\ host' = [host EXCEPT ![q.name].state = state] /\ Go(c, "state") /\ ~Refused(q)
  <2>1. /\ r.op = q.op /\ r.name = q.name /\ r.new = q.new /\ r.pc = "state" /\ r # None
        /\ UNCHANGED <<row, rules>> /\ excused' = excused \ {<<q.name, "state">>}
    BY <1>1, <1>6, Going DEF ProviderRuns, Amend, CatalogInv, Places
  <2>2. host[q.name] # None /\ host[q.name] \in Instances
    BY <1>1, <1>2, <1>6, <2>1 DEF CatalogInv, TypeOK, Instances, Requests, GensFit, Whys, Refused
  <2>3. /\ host'[q.name] \in Instances /\ host'[q.name].gen = host[q.name].gen
        /\ host'[q.name].spec = host[q.name].spec /\ host'[q.name].state = state
    BY <1>1, <1>2, <1>6, <2>1, <2>2 DEF CatalogInv, TypeOK, Instances, Requests, GensFit, Whys,
       States
  <2>4. /\ host'[q.name].state = IF r.op = "stop" THEN "stopped" ELSE "running"
        /\ row[q.name] # None
    BY <1>1, <1>2, <1>6, <2>1, <2>2, <2>3 DEF CatalogInv, TypeOK, Excuses, Instances, Requests,
       GensFit, Whys, Elsewhere
  <2>5. host'[q.name] # None
    BY <1>1, <1>2, <1>6, <2>1, <2>2, <2>3, <2>4, NoneIsFresh DEF CatalogInv, TypeOK, Instances,
       Requests, GensFit, Whys
  <2>6. WhileSwitching(r)'
    BY <1>1, <1>2, <1>6, <2>1, <2>2, <2>3, <2>4, <2>5 DEF WhileSwitching, Elsewhere, Settled,
       Agree, Tells, RulesFitRecord, NothingToInherit, Excuses, Instances
  <2>7. InFlight(r)'
    BY <1>1, <1>2, <1>6, <2>1, <2>6 DEF InFlight, Making, Moving, Removing, Changing, Switching
  <2> QED
    BY <1>1, <1>3, <1>4, <1>5, <2>1, <2>7, RequestStep
<1> QED
  BY <1>1, <1>6 DEF ProviderRuns

(* The provider takes over the changed resources. *)
LEMMA ProviderAppliesStep ==
  ASSUME CatalogInv, Apart, NEW c \in Clients, ProviderApplies(c)
  PROVE  CatalogInv'
<1> PICK q, r : q = req[c] /\ r = req'[c]
  OBVIOUS
<1>1. q \in Requests /\ q # None /\ InFlight(q) /\ q.op = "update" /\ q.pc = "provider"
  BY DEF ProviderApplies, At, CatalogInv, TypeOK
<1>2. q.name \in Names /\ q.new \in Names /\ Elsewhere(q) /\ q.name = q.new
  BY <1>1 DEF InFlight, Making, Moving, Removing, Changing, Switching, Requests
<1>3. TypeOK'
  BY <1>1, <1>2 DEF ProviderApplies, Amend, CatalogInv, TypeOK, Go, Requests, Places, Whys, Instances,
     Elsewhere, Refused
<1>4. GensFit'
  BY <1>1, <1>2 DEF ProviderApplies, Amend, GensFit, CatalogInv, TypeOK, Go, Requests, Instances,
     Elsewhere, Refused
<1>5. Moves(c)
  BY <1>1, <1>2 DEF ProviderApplies, Amend, CatalogInv, TypeOK, Go, Requests, Moves, KeptAt, Excuses,
     Whys, Elsewhere, Refused
<1>6. CASE /\ host' = [host EXCEPT ![q.name].spec = 1 - q.seen] /\ Go(c, "spec") /\ ~Refused(q)
  <2>1. /\ r.op = q.op /\ r.name = q.name /\ r.new = q.new /\ r.pc = "spec" /\ r # None
        /\ r.seen = q.seen /\ UNCHANGED <<row, rules>> /\ excused' = excused \ {<<q.name, "spec">>}
    BY <1>1, <1>6, Going DEF ProviderApplies, Amend, CatalogInv, Places
  <2>2. host[q.name] # None /\ host[q.name] \in Instances
    BY <1>1, <1>2, <1>6, <2>1 DEF CatalogInv, TypeOK, Instances, Requests, GensFit, Whys, Refused
  <2>3. /\ host'[q.name] \in Instances /\ host'[q.name].gen = host[q.name].gen
        /\ host'[q.name].state = host[q.name].state /\ host'[q.name].spec = 1 - q.seen
    BY <1>1, <1>2, <1>6, <2>1, <2>2 DEF CatalogInv, TypeOK, Excuses, Instances, Requests,
       GensFit, Whys, Elsewhere
  <2>4. row[q.name] \in Instances /\ q.seen = row[q.name].spec
    BY <1>1, <1>2, <1>6, <2>1, <2>2, <2>3 DEF CatalogInv, TypeOK, Excuses, Instances, Requests,
       GensFit, Whys, Elsewhere
  <2>5. q.seen # None
    BY <1>1, <1>2, <1>6, <2>1, <2>2, <2>3, <2>4, CatalogAssumption DEF CatalogInv, TypeOK,
       Instances, Requests, GensFit, Whys
  <2>6. host'[q.name] # None
    BY <1>1, <1>2, <1>6, <2>1, <2>2, <2>3, <2>4, <2>5, NoneIsFresh DEF CatalogInv, TypeOK,
       Instances, Requests, GensFit, Whys
  <2>7. WhileChanging(r)'
    BY <1>1, <1>2, <1>6, <2>1, <2>2, <2>3, <2>4, <2>5, <2>6 DEF WhileChanging, Elsewhere,
       Settled, Agree, Tells, RulesFitRecord, NothingToInherit, Excuses, Instances
  <2>8. InFlight(r)'
    BY <1>1, <1>2, <1>6, <2>1, <2>7 DEF InFlight, Making, Moving, Removing, Changing, Switching
  <2> QED
    BY <1>1, <1>3, <1>4, <1>5, <2>1, <2>8, RequestStep
<1> QED
  BY <1>1, <1>6 DEF ProviderApplies

-----------------------------------------------------------------------------
(* Calls of the providers that fail half way. *)

(* What a failed call made stays, without a record of its own. *)
LEMMA MakesHalfwayStep ==
  ASSUME CatalogInv, Apart, NEW c \in Clients, MakesHalfway(c)
  PROVE  CatalogInv'
<1> PICK q : q = req[c]
  OBVIOUS
<1> DEFINE new == [gen |-> gens + 1, state |-> "stopped", spec |-> 0]
<1>1. /\ q \in Requests /\ q # None /\ InFlight(q) /\ q.pc = "provider"
      /\ q.op \in {"create", "clone", "import"}
  BY DEF MakesHalfway, FailsHalfway, At, CatalogInv, TypeOK
<1>2. q.name \in Names /\ q.new \in Names /\ Elsewhere(q)
  BY <1>1 DEF InFlight, Making, Moving, Removing, Changing, Switching, Requests
<1>3. /\ req' = [req EXCEPT ![c] = None] /\ req'[c] = None /\ UNCHANGED <<row, rules>>
      /\ req' \in [Clients -> Requests \cup {None}]
      /\ excused' = excused \cup {<<q.new, "orphan">>}
  BY Returning DEF MakesHalfway, FailsHalfway, Excuse, CatalogInv
<1>4. /\ gens \in Nat /\ gens + 1 \in Gens /\ gens' = gens + 1 /\ gens' \in 0 .. MaxGen
      /\ host[q.new] = None /\ host' = [host EXCEPT ![q.new] = new]
  BY <1>1, CatalogAssumption DEF MakesHalfway, FailsHalfway, NewInstance, Refused, CatalogInv,
     TypeOK, Gens
<1>5. new \in Instances /\ new.gen = gens + 1
  BY <1>4 DEF Instances, States
<1>6. new # None
  BY <1>5, NoneIsFresh
<1> HIDE DEF new
<1>7. TypeOK'
  BY <1>2, <1>3, <1>4, <1>5 DEF CatalogInv, TypeOK, Whys
<1>8. \A n \in Names : host'[n] = IF n = q.new THEN new ELSE host[n]
  BY <1>4 DEF CatalogInv, TypeOK
<1>9. GensFit'
  <2> SUFFICES ASSUME NEW n \in Names
               PROVE  /\ host'[n] # None => host'[n].gen <= gens'
                      /\ row'[n] # None => row'[n].gen <= gens'
    BY DEF GensFit
  <2>1. host[n] # None => host[n].gen \in Nat /\ host[n].gen <= gens
    BY DEF CatalogInv, TypeOK, Instances, Gens, GensFit
  <2>2. row[n] # None => row[n].gen \in Nat /\ row[n].gen <= gens
    BY DEF CatalogInv, TypeOK, Instances, Gens, GensFit
  <2> QED
    BY <1>3, <1>4, <1>5, <1>8, <2>1, <2>2
<1>10. Moves(c)
  BY <1>2, <1>3, <1>8 DEF Moves, KeptAt, Excuses
\* An old record of the name is of another generation.
<1>11. Settled(q.new)'
  <2>1. row[q.new] # None => row[q.new].gen # gens + 1
    BY <1>2, <1>4 DEF CatalogInv, TypeOK, Instances, Gens, GensFit
  <2>2. Excuses(q.new, "orphan")' /\ (Excuses(q.new, "rules") => Excuses(q.new, "rules")')
    BY <1>3 DEF Excuses
  <2> QED
    BY <1>2, <1>3, <1>5, <1>6, <1>8, <2>1, <2>2 DEF Elsewhere, Settled, Agree, RulesFitRecord
<1>12. Settled(q.name)'
  <2>1. q.name # q.new => KeptAt(q.name)
    BY <1>2, <1>3, <1>8 DEF KeptAt, Excuses
  <2> QED
    BY <1>2, <1>11, <2>1, SettledKept DEF Elsewhere
<1> QED
  BY <1>1, <1>3, <1>7, <1>9, <1>10, <1>11, <1>12, RequestStep

(* What a failed call stopped or started is excused. *)
LEMMA SwitchesHalfwayStep ==
  ASSUME CatalogInv, Apart, NEW c \in Clients, SwitchesHalfway(c)
  PROVE  CatalogInv'
<1> PICK q : q = req[c]
  OBVIOUS
<1>1. /\ q \in Requests /\ q # None /\ InFlight(q) /\ q.pc = "provider"
      /\ q.op \in {"start", "stop", "restart", "delete"}
  BY DEF SwitchesHalfway, FailsHalfway, At, CatalogInv, TypeOK
<1>2. q.name \in Names /\ q.new = q.name /\ Elsewhere(q)
  BY <1>1 DEF InFlight, Making, Moving, Removing, Changing, Switching, Requests
<1>3. /\ req' = [req EXCEPT ![c] = None] /\ req'[c] = None /\ UNCHANGED <<row, rules, gens>>
      /\ req' \in [Clients -> Requests \cup {None}]
      /\ excused' = excused \cup {<<q.name, "state">>}
  BY Returning DEF SwitchesHalfway, FailsHalfway, Excuse, CatalogInv
<1>4. PICK state \in {"running", "stopped"} : host' = [host EXCEPT ![q.name].state = state]
  BY DEF SwitchesHalfway
<1>5. host[q.name] # None /\ host[q.name] \in Instances
  BY <1>2 DEF SwitchesHalfway, CatalogInv, TypeOK
<1>6. /\ host' = [host EXCEPT ![q.name] = host'[q.name]] /\ host'[q.name] \in Instances
      /\ host'[q.name].gen = host[q.name].gen /\ host'[q.name].spec = host[q.name].spec
  BY <1>2, <1>4, <1>5 DEF CatalogInv, TypeOK, Instances, States
<1>7. host'[q.name] # None
  BY <1>6, NoneIsFresh
<1>8. TypeOK' /\ GensFit'
  BY <1>2, <1>3, <1>5, <1>6, <1>7 DEF CatalogInv, TypeOK, GensFit, Whys
<1>9. Moves(c)
  BY <1>2, <1>3, <1>6 DEF Moves, KeptAt, Excuses, CatalogInv, TypeOK
<1>10. Settled(q.name)'
  <2>1. Excuses(q.name, "state")' /\ \A w \in Whys : Excuses(q.name, w) => Excuses(q.name, w)'
    BY <1>3 DEF Excuses
  <2> QED
    BY <1>2, <1>3, <1>5, <1>6, <1>7, <2>1 DEF Elsewhere, Settled, Agree, Tells, RulesFitRecord,
       NothingToInherit, Whys
<1> QED
  BY <1>1, <1>2, <1>3, <1>8, <1>9, <1>10, RequestStep

(* A failed deletion that got as far as the instance leaves its record. *)
LEMMA DeletesHalfwayStep ==
  ASSUME CatalogInv, Apart, NEW c \in Clients, DeletesHalfway(c)
  PROVE  CatalogInv'
<1> PICK q : q = req[c]
  OBVIOUS
<1>1. q \in Requests /\ q # None /\ InFlight(q) /\ q.pc = "provider" /\ q.op = "delete"
  BY DEF DeletesHalfway, FailsHalfway, At, CatalogInv, TypeOK
<1>2. q.name \in Names /\ q.new = q.name /\ Elsewhere(q) /\ row[q.name] # None
  BY <1>1 DEF InFlight, Making, Moving, Removing, Changing, Switching, Requests, Elsewhere
<1>3. /\ req' = [req EXCEPT ![c] = None] /\ req'[c] = None /\ UNCHANGED <<row, rules, gens>>
      /\ req' \in [Clients -> Requests \cup {None}]
      /\ excused' = excused \cup {<<q.name, "ghost">>}
      /\ host' = [host EXCEPT ![q.name] = None]
  BY Returning DEF DeletesHalfway, FailsHalfway, Excuse, CatalogInv
<1>4. TypeOK' /\ GensFit' /\ host'[q.name] = None
  BY <1>2, <1>3 DEF CatalogInv, TypeOK, GensFit, Whys
<1>5. Moves(c)
  BY <1>2, <1>3 DEF Moves, KeptAt, Excuses, CatalogInv, TypeOK
<1>6. Settled(q.name)'
  <2>1. Excuses(q.name, "ghost")' /\ (Excuses(q.name, "rules") => Excuses(q.name, "rules")')
    BY <1>3 DEF Excuses
  <2> QED
    BY <1>2, <1>3, <1>4, <2>1 DEF Elsewhere, Settled, Agree, RulesFitRecord, NothingToInherit
<1> QED
  BY <1>1, <1>2, <1>3, <1>4, <1>5, <1>6, RequestStep

(* A failed rename that got as far as the instance leaves the record under  *)
(* the old name.                                                            *)
LEMMA RenamesHalfwayStep ==
  ASSUME CatalogInv, Apart, NEW c \in Clients, RenamesHalfway(c)
  PROVE  CatalogInv'
<1> PICK q : q = req[c]
  OBVIOUS
<1>1. q \in Requests /\ q # None /\ InFlight(q) /\ q.pc = "provider" /\ q.op = "rename" /\ ~Refused(q)
  BY DEF RenamesHalfway, FailsHalfway, At, CatalogInv, TypeOK
<1>2. /\ q.name \in Names /\ q.new \in Names /\ q.new # q.name /\ Elsewhere(q)
      /\ row[q.name] # None /\ row[q.new] = None
  BY <1>1 DEF InFlight, Making, Moving, Removing, Changing, Switching, Requests, Elsewhere
<1>3. /\ req' = [req EXCEPT ![c] = None] /\ req'[c] = None /\ UNCHANGED <<row, rules, gens>>
      /\ req' \in [Clients -> Requests \cup {None}]
      /\ excused' = excused \cup {<<q.new, "orphan">>, <<q.name, "ghost">>}
      /\ host' = [host EXCEPT ![q.new] = host[q.name], ![q.name] = None]
  BY Returning DEF RenamesHalfway, FailsHalfway, CatalogInv
<1>4. host[q.name] # None /\ host'[q.new] = host[q.name] /\ host'[q.name] = None
  BY <1>1, <1>2, <1>3 DEF Refused, CatalogInv, TypeOK
<1>5. TypeOK' /\ GensFit'
  BY <1>2, <1>3, <1>4 DEF CatalogInv, TypeOK, GensFit, Whys
<1>6. Moves(c)
  BY <1>2, <1>3 DEF Moves, KeptAt, Excuses, CatalogInv, TypeOK
<1>7. Settled(q.name)' /\ Settled(q.new)'
  <2>1. /\ Excuses(q.new, "orphan")' /\ Excuses(q.name, "ghost")'
        /\ Excuses(q.name, "rules") => Excuses(q.name, "rules")'
    BY <1>3 DEF Excuses
  <2> QED
    BY <1>2, <1>3, <1>4, <2>1 DEF Elsewhere, Settled, Agree, RulesFitRecord, NothingToInherit
<1> QED
  BY <1>1, <1>3, <1>5, <1>6, <1>7, RequestStep

(* What a failed reconfiguration took over is excused. *)
LEMMA AppliesHalfwayStep ==
  ASSUME CatalogInv, Apart, NEW c \in Clients, AppliesHalfway(c)
  PROVE  CatalogInv'
<1> PICK q : q = req[c]
  OBVIOUS
<1>1. q \in Requests /\ q # None /\ InFlight(q) /\ q.pc = "provider" /\ q.op = "update" /\ ~Refused(q)
  BY DEF AppliesHalfway, FailsHalfway, At, CatalogInv, TypeOK
<1>2. /\ q.name \in Names /\ q.new = q.name /\ Elsewhere(q)
      /\ row[q.name] # None /\ q.seen = row[q.name].spec
  BY <1>1 DEF InFlight, Making, Moving, Removing, Changing, Switching, Requests, Elsewhere
<1>3. /\ req' = [req EXCEPT ![c] = None] /\ req'[c] = None /\ UNCHANGED <<row, rules, gens>>
      /\ req' \in [Clients -> Requests \cup {None}]
      /\ excused' = excused \cup {<<q.name, "spec">>}
      /\ host' = [host EXCEPT ![q.name].spec = 1 - q.seen]
  BY Returning DEF AppliesHalfway, FailsHalfway, Excuse, CatalogInv
<1>4. host[q.name] # None /\ host[q.name] \in Instances
  BY <1>1, <1>2 DEF Refused, CatalogInv, TypeOK
<1>5. q.seen \in 0..1 /\ 1 - q.seen \in 0..1
  BY <1>2 DEF CatalogInv, TypeOK, Instances
<1>6. /\ host' = [host EXCEPT ![q.name] = host'[q.name]] /\ host'[q.name] \in Instances
      /\ host'[q.name].gen = host[q.name].gen /\ host'[q.name].state = host[q.name].state
  BY <1>2, <1>3, <1>4, <1>5 DEF CatalogInv, TypeOK, Instances
<1>7. host'[q.name] # None
  BY <1>6, NoneIsFresh
<1>8. TypeOK' /\ GensFit'
  BY <1>2, <1>3, <1>4, <1>6, <1>7 DEF CatalogInv, TypeOK, GensFit, Whys
<1>9. Moves(c)
  BY <1>2, <1>3, <1>6 DEF Moves, KeptAt, Excuses, CatalogInv, TypeOK
<1>10. Settled(q.name)'
  <2>1. Excuses(q.name, "spec")' /\ \A w \in Whys : Excuses(q.name, w) => Excuses(q.name, w)'
    BY <1>3 DEF Excuses
  <2> QED
    BY <1>2, <1>3, <1>4, <1>6, <1>7, <2>1 DEF Elsewhere, Settled, Agree, Tells, RulesFitRecord,
       NothingToInherit, Whys
<1> QED
  BY <1>1, <1>2, <1>3, <1>8, <1>9, <1>10, RequestStep

-----------------------------------------------------------------------------
(* What the handlers write down. *)

(* The import asks for the description of what it made. *)
LEMMA ImportInfoStep ==
  ASSUME CatalogInv, Apart, NEW c \in Clients, ImportInfo(c)
  PROVE  CatalogInv'
<1> PICK q, r : q = req[c] /\ r = req'[c]
  OBVIOUS
<1>1. q \in Requests /\ q # None /\ InFlight(q) /\ q.op = "import" /\ q.pc = "info"
  BY DEF ImportInfo, At, CatalogInv, TypeOK
<1>2. q.name \in Names /\ q.new \in Names /\ WhileMaking(q) /\ q.name = q.new
  BY <1>1 DEF InFlight, Making, Moving, Removing, Changing, Switching, Requests
<1>3. TypeOK'
  BY <1>1, <1>2 DEF ImportInfo, CatalogInv, TypeOK, Go, GiveUp, Return, Requests, Places, Whys,
     Excuse, Instances
<1>4. GensFit'
  BY <1>1, <1>2 DEF ImportInfo, GensFit, CatalogInv, TypeOK, Go, GiveUp, Return, Requests,
     Excuse, Instances
<1>5. Moves(c)
  BY <1>1, <1>2 DEF ImportInfo, CatalogInv, TypeOK, Go, GiveUp, Return, Requests, Moves, KeptAt,
     Excuse, Excuses, Whys
<1>6. CASE Go(c, "row") /\ UNCHANGED excused
  <2>1. /\ r.op = q.op /\ r.name = q.name /\ r.new = q.new /\ r.pc = "row" /\ r # None
        /\ r.seen = q.seen /\ r.made = q.made /\ UNCHANGED <<host, row, rules>>
    BY <1>1, <1>6, Going DEF ImportInfo, CatalogInv, Places, Excuse
  <2>2. WhileMaking(r)'
    BY <1>1, <1>2, <1>6, <2>1 DEF WhileMaking, Settled, Agree, Tells, RulesFitRecord, NothingToInherit,
       Excuses
  <2>3. InFlight(r)'
    BY <1>1, <1>2, <1>6, <2>1, <2>2 DEF InFlight, Making, Moving, Removing, Changing, Switching
  <2> QED
    BY <1>1, <1>3, <1>4, <1>5, <2>1, <2>3, RequestStep
<1>7. CASE GiveUp(c) /\ Excuse(q.new, "orphan")
  <2>1. UNCHANGED <<host, row, rules>> /\ r = None
    BY <1>1, <1>7, Returning DEF ImportInfo, CatalogInv, Excuse
  <2>2. (\A n \in Names, w \in Whys : Excuses(n, w) => Excuses(n, w)') /\ Excuses(q.new, "orphan")'
    BY <1>1, <1>2, <1>7, <2>1 DEF CatalogInv, TypeOK, Excuses, Excuse, Instances, Requests,
       GensFit, Whys
  <2>3. Settled(q.name)'
    BY <1>1, <1>2, <1>7, <2>1, <2>2 DEF WhileMaking, Settled, Agree, Tells, RulesFitRecord,
       NothingToInherit, Excuses, Whys
  <2>4. Settled(q.new)'
    BY <1>1, <1>2, <1>7, <2>1, <2>2 DEF WhileMaking, Settled, Agree, Tells, RulesFitRecord,
       NothingToInherit, Excuses, Whys
  <2> QED
    BY <1>1, <1>3, <1>4, <1>5, <2>1, <2>3, <2>4, RequestStep
<1> QED
  BY <1>1, <1>6, <1>7 DEF ImportInfo

(* What was made is recorded, or is to be discarded. *)
LEMMA InsertRowStep ==
  ASSUME CatalogInv, Apart, NEW c \in Clients, NEW op \in {"create", "clone", "import"},
         NEW state \in States, state = host[req[c].new].state,
         InsertRow(c, op, state)
  PROVE  CatalogInv'
<1> PICK q, r : q = req[c] /\ r = req'[c]
  OBVIOUS
<1>1. q \in Requests /\ q # None /\ InFlight(q) /\ q.op = op /\ q.pc = "row"
  BY DEF InsertRow, At, CatalogInv, TypeOK
<1>2. q.name \in Names /\ q.new \in Names /\ WhileMaking(q)
  BY <1>1 DEF InFlight, Making, Moving, Removing, Changing, Switching, Requests
<1>3. TypeOK'
  BY <1>1, <1>2 DEF InsertRow, CatalogInv, TypeOK, Go, GoOn, Return, Requests, Places, Whys,
     Instances, WhileMaking
<1>4. GensFit'
  BY <1>1, <1>2 DEF InsertRow, GensFit, CatalogInv, TypeOK, Go, GoOn, Return, Requests,
     Instances, WhileMaking
<1>5. Moves(c)
  BY <1>1, <1>2 DEF InsertRow, CatalogInv, TypeOK, Go, GoOn, Return, Requests, Moves, KeptAt,
     Excuses, Whys, WhileMaking
<1>6. CASE /\ row[q.new] = None /\ Return(c)
           /\ row' = [row EXCEPT ![q.new] = [gen |-> q.made, spec |-> 0, state |-> state]]
  <2>1. UNCHANGED <<host, rules, excused>> /\ r = None
    BY <1>1, <1>6, Returning DEF InsertRow, CatalogInv
  <2>2. host[q.new] # None /\ host[q.new].gen = q.made /\ host[q.new].spec = 0
    BY <1>1, <1>2, <1>6, <2>1 DEF CatalogInv, TypeOK, Excuses, Instances, Requests, GensFit,
       Whys, WhileMaking
  <2>3. row'[q.new] = host[q.new]
    BY <1>1, <1>2, <1>6, <2>1, <2>2 DEF CatalogInv, TypeOK, Instances, Requests, GensFit, Whys
  <2>4. q.name # q.new => row'[q.name] = row[q.name]
    BY <1>1, <1>2, <1>6, <2>1, <2>2, <2>3 DEF CatalogInv, TypeOK, Instances, Requests, GensFit,
       Whys
  <2>5. Settled(q.name)'
    BY <1>1, <1>2, <1>6, <2>1, <2>2, <2>3, <2>4 DEF WhileMaking, Settled, Agree, Tells, RulesFitRecord,
       NothingToInherit, Excuses
  <2>6. Settled(q.new)'
    BY <1>1, <1>2, <1>6, <2>1, <2>2, <2>3, <2>4 DEF WhileMaking, Settled, Agree, Tells, RulesFitRecord,
       NothingToInherit, Excuses
  <2> QED
    BY <1>1, <1>3, <1>4, <1>5, <2>1, <2>5, <2>6, RequestStep
<1>7. CASE (Go(c, "discard") \/ GoOn(c, "discard")) /\ UNCHANGED row
  <2>1. /\ r.op = q.op /\ r.name = q.name /\ r.new = q.new /\ r.pc = "discard" /\ r # None
        /\ r.seen = q.seen /\ r.made = q.made /\ UNCHANGED <<host, row, rules, excused>>
    BY <1>1, <1>7, Going DEF InsertRow, CatalogInv, Places
  <2>2. WhileMaking(r)'
    BY <1>1, <1>2, <1>7, <2>1 DEF WhileMaking, Settled, Agree, Tells, RulesFitRecord, NothingToInherit,
       Excuses
  <2>3. InFlight(r)'
    BY <1>1, <1>2, <1>7, <2>1, <2>2 DEF InFlight, Making, Moving, Removing, Changing, Switching
  <2> QED
    BY <1>1, <1>3, <1>4, <1>5, <2>1, <2>3, RequestStep
<1> QED
  BY <1>1, <1>6, <1>7 DEF InsertRow

(* What could not be recorded is deleted. *)
LEMMA DiscardStep ==
  ASSUME CatalogInv, Apart, NEW c \in Clients, Discard(c)
  PROVE  CatalogInv'
<1> PICK q, r : q = req[c] /\ r = req'[c]
  OBVIOUS
<1>1. q \in Requests /\ q # None /\ InFlight(q) /\ q.op \in {"create", "clone", "import"} /\ q.pc = "discard"
  BY DEF Discard, At, CatalogInv, TypeOK
<1>2. q.name \in Names /\ q.new \in Names /\ WhileMaking(q)
  BY <1>1 DEF InFlight, Making, Moving, Removing, Changing, Switching, Requests
<1>3. TypeOK'
  BY <1>1, <1>2 DEF Discard, CatalogInv, TypeOK, GiveUp, Return, Requests, Places, Whys, Excuse,
     Instances
<1>4. GensFit'
  BY <1>1, <1>2 DEF Discard, GensFit, CatalogInv, TypeOK, GiveUp, Return, Requests, Excuse,
     Instances
<1>5. Moves(c)
  BY <1>1, <1>2 DEF Discard, CatalogInv, TypeOK, GiveUp, Return, Requests, Moves, KeptAt, Excuse,
     Excuses, Whys
<1>6. CASE host' = [host EXCEPT ![q.new] = None] /\ Return(c) /\ UNCHANGED excused
  <2>1. UNCHANGED <<row, rules>> /\ r = None
    BY <1>1, <1>6, Returning DEF Discard, CatalogInv, Excuse
  <2>2. host'[q.new] = None /\ (q.name # q.new => host'[q.name] = host[q.name])
    BY <1>1, <1>2, <1>6, <2>1 DEF CatalogInv, TypeOK, Instances, Requests, GensFit, Whys
  <2>3. Settled(q.name)'
    BY <1>1, <1>2, <1>6, <2>1, <2>2 DEF WhileMaking, Settled, Agree, Tells, RulesFitRecord,
       NothingToInherit, Excuses
  <2>4. Settled(q.new)'
    BY <1>1, <1>2, <1>6, <2>1, <2>2 DEF WhileMaking, Settled, Agree, Tells, RulesFitRecord,
       NothingToInherit, Excuses
  <2> QED
    BY <1>1, <1>3, <1>4, <1>5, <2>1, <2>3, <2>4, RequestStep
<1>7. CASE host' = host /\ GiveUp(c) /\ Excuse(q.new, "orphan")
  <2>1. UNCHANGED <<row, rules>> /\ r = None
    BY <1>1, <1>7, Returning DEF Discard, CatalogInv, Excuse
  <2>2. (\A n \in Names, w \in Whys : Excuses(n, w) => Excuses(n, w)') /\ Excuses(q.new, "orphan")'
    BY <1>1, <1>2, <1>7, <2>1 DEF CatalogInv, TypeOK, Excuses, Excuse, Instances, Requests,
       GensFit, Whys
  <2>3. Settled(q.name)'
    BY <1>1, <1>2, <1>7, <2>1, <2>2 DEF WhileMaking, Settled, Agree, Tells, RulesFitRecord,
       NothingToInherit, Excuses, Whys
  <2>4. Settled(q.new)'
    BY <1>1, <1>2, <1>7, <2>1, <2>2 DEF WhileMaking, Settled, Agree, Tells, RulesFitRecord,
       NothingToInherit, Excuses, Whys
  <2> QED
    BY <1>1, <1>3, <1>4, <1>5, <2>1, <2>3, <2>4, RequestStep
<1> QED
  BY <1>1, <1>6, <1>7 DEF Discard

(* The rules of a deleted instance go. *)
LEMMA DeleteRulesStep ==
  ASSUME CatalogInv, Apart, NEW c \in Clients, DeleteRules(c)
  PROVE  CatalogInv'
<1> PICK q, r : q = req[c] /\ r = req'[c]
  OBVIOUS
<1>1. q \in Requests /\ q # None /\ InFlight(q) /\ q.op = "delete" /\ q.pc = "rules"
  BY DEF DeleteRules, At, CatalogInv, TypeOK
<1>2. q.name \in Names /\ q.new \in Names /\ WhileRemoving(q) /\ q.name = q.new
  BY <1>1 DEF InFlight, Making, Moving, Removing, Changing, Switching, Requests
<1>3. TypeOK'
  BY <1>1, <1>2 DEF DeleteRules, CatalogInv, TypeOK, Go, GoOn, Requests, Places, Whys, Excuse,
     Instances
<1>4. GensFit'
  BY <1>1, <1>2 DEF DeleteRules, GensFit, CatalogInv, TypeOK, Go, GoOn, Requests, Excuse,
     Instances
<1>5. Moves(c)
  BY <1>1, <1>2 DEF DeleteRules, CatalogInv, TypeOK, Go, GoOn, Requests, Moves, KeptAt, Excuse,
     Excuses, Whys
<1>6. CASE rules' = [rules EXCEPT ![q.name] = None] /\ Go(c, "row") /\ UNCHANGED excused
  <2>1. /\ r.op = q.op /\ r.name = q.name /\ r.new = q.new /\ r.pc = "row" /\ r # None
        /\ r.seen = q.seen /\ r.made = q.made /\ UNCHANGED <<host, row>>
    BY <1>1, <1>6, Going DEF DeleteRules, CatalogInv, Places, Excuse
  <2>2. rules'[q.name] = None
    BY <1>1, <1>2, <1>6, <2>1 DEF CatalogInv, TypeOK, Instances, Requests, GensFit, Whys
  <2>3. WhileRemoving(r)'
    BY <1>1, <1>2, <1>6, <2>1, <2>2 DEF WhileRemoving, RulesFitRecord, Excuses
  <2>4. InFlight(r)'
    BY <1>1, <1>2, <1>6, <2>1, <2>3 DEF InFlight, Making, Moving, Removing, Changing, Switching
  <2> QED
    BY <1>1, <1>3, <1>4, <1>5, <2>1, <2>4, RequestStep
<1>7. CASE UNCHANGED rules /\ GoOn(c, "row") /\ Excuse(q.name, "rules")
  <2>1. /\ r.op = q.op /\ r.name = q.name /\ r.new = q.new /\ r.pc = "row" /\ r # None
        /\ r.seen = q.seen /\ r.made = q.made /\ UNCHANGED <<host, row>>
    BY <1>1, <1>7, Going DEF DeleteRules, CatalogInv, Places, Excuse
  <2>2. (\A n \in Names, w \in Whys : Excuses(n, w) => Excuses(n, w)') /\ Excuses(q.name, "rules")'
    BY <1>1, <1>2, <1>7, <2>1 DEF CatalogInv, TypeOK, Excuses, Excuse, Instances, Requests,
       GensFit, Whys
  <2>3. WhileRemoving(r)'
    BY <1>1, <1>2, <1>7, <2>1, <2>2 DEF WhileRemoving, RulesFitRecord, Excuses, Whys
  <2>4. InFlight(r)'
    BY <1>1, <1>2, <1>7, <2>1, <2>3 DEF InFlight, Making, Moving, Removing, Changing, Switching
  <2> QED
    BY <1>1, <1>3, <1>4, <1>5, <2>1, <2>4, RequestStep
<1> QED
  BY <1>1, <1>6, <1>7 DEF DeleteRules

(* And then its record. *)
LEMMA DeleteRowStep ==
  ASSUME CatalogInv, Apart, NEW c \in Clients, DeleteRow(c)
  PROVE  CatalogInv'
<1> PICK q, r : q = req[c] /\ r = req'[c]
  OBVIOUS
<1>1. q \in Requests /\ q # None /\ InFlight(q) /\ q.op = "delete" /\ q.pc = "row"
  BY DEF DeleteRow, At, CatalogInv, TypeOK
<1>2. q.name \in Names /\ q.new \in Names /\ WhileRemoving(q) /\ q.name = q.new
  BY <1>1 DEF InFlight, Making, Moving, Removing, Changing, Switching, Requests
<1>3. TypeOK'
  BY <1>1, <1>2 DEF DeleteRow, CatalogInv, TypeOK, GiveUp, Return, Requests, Places, Whys,
     Excuse, Instances
<1>4. GensFit'
  BY <1>1, <1>2 DEF DeleteRow, GensFit, CatalogInv, TypeOK, GiveUp, Return, Requests, Excuse,
     Instances
<1>5. Moves(c)
  BY <1>1, <1>2 DEF DeleteRow, CatalogInv, TypeOK, GiveUp, Return, Requests, Moves, KeptAt,
     Excuse, Excuses, Whys
<1>6. CASE row' = [row EXCEPT ![q.name] = None] /\ Return(c) /\ UNCHANGED excused
  <2>1. UNCHANGED <<host, rules>> /\ r = None
    BY <1>1, <1>6, Returning DEF DeleteRow, CatalogInv, Excuse
  <2>2. row'[q.name] = None
    BY <1>1, <1>2, <1>6, <2>1 DEF CatalogInv, TypeOK, Instances, Requests, GensFit, Whys
  <2>3. Settled(q.name)'
    BY <1>1, <1>2, <1>6, <2>1, <2>2 DEF WhileRemoving, Settled, Agree, Tells, RulesFitRecord,
       NothingToInherit, Excuses
  <2>4. Settled(q.new)'
    BY <1>1, <1>2, <1>6, <2>1, <2>2 DEF WhileRemoving, Settled, Agree, Tells, RulesFitRecord,
       NothingToInherit, Excuses
  <2> QED
    BY <1>1, <1>3, <1>4, <1>5, <2>1, <2>3, <2>4, RequestStep
<1>7. CASE UNCHANGED row /\ GiveUp(c) /\ Excuse(q.name, "ghost")
  <2>1. UNCHANGED <<host, rules>> /\ r = None
    BY <1>1, <1>7, Returning DEF DeleteRow, CatalogInv, Excuse
  <2>2. (\A n \in Names, w \in Whys : Excuses(n, w) => Excuses(n, w)') /\ Excuses(q.name, "ghost")'
    BY <1>1, <1>2, <1>7, <2>1 DEF CatalogInv, TypeOK, Excuses, Excuse, Instances, Requests,
       GensFit, Whys
  <2>3. Settled(q.name)'
    BY <1>1, <1>2, <1>7, <2>1, <2>2 DEF WhileRemoving, Settled, Agree, Tells, RulesFitRecord,
       NothingToInherit, Excuses, Whys
  <2>4. Settled(q.new)'
    BY <1>1, <1>2, <1>7, <2>1, <2>2 DEF WhileRemoving, Settled, Agree, Tells, RulesFitRecord,
       NothingToInherit, Excuses, Whys
  <2> QED
    BY <1>1, <1>3, <1>4, <1>5, <2>1, <2>3, <2>4, RequestStep
<1> QED
  BY <1>1, <1>6, <1>7 DEF DeleteRow

(* The rename is recorded, with what is excused about the instance. *)
LEMMA RenameRowStep ==
  ASSUME CatalogInv, Apart, NEW c \in Clients, RenameRow(c)
  PROVE  CatalogInv'
<1> PICK q, r : q = req[c] /\ r = req'[c]
  OBVIOUS
<1>1. q \in Requests /\ q # None /\ InFlight(q) /\ q.op = "rename" /\ q.pc = "row"
  BY DEF RenameRow, At, CatalogInv, TypeOK
<1>2. q.name \in Names /\ q.new \in Names /\ WhileMoving(q) /\ q.name # q.new
  BY <1>1 DEF InFlight, Moving, Requests
<1>3. TypeOK'
  BY <1>1, <1>2 DEF RenameRow, At, CatalogInv, TypeOK, Go, GoOn, Return, Requests, Places, Whys
<1>4. GensFit'
  BY <1>1, <1>2 DEF RenameRow, GensFit, CatalogInv, TypeOK
<1>5. Moves(c)
  BY <1>1, <1>2 DEF RenameRow, CatalogInv, TypeOK, Go, GoOn, Return, Moves, KeptAt, Excuses,
     Whys, Requests
<1>6. CASE /\ row[q.name] # None /\ row[q.new] = None
           /\ row' = [row EXCEPT ![q.new] = row[q.name], ![q.name] = None]
           /\ Return(c)
           /\ excused' = excused \cup {<<q.name, "rules">>}
                \cup {<<q.new, why>> : why \in {w \in Whys : Excuses(q.name, w)}}
  <2>1. UNCHANGED <<host, rules>> /\ r = None
    BY <1>6, Returning DEF RenameRow, CatalogInv
  <2>2. Excuses(q.name, "rules")' /\ \A w \in Whys : Excuses(q.name, w) \/ Excuses(q.new, w) => Excuses(q.new, w)'
    BY <1>6 DEF Excuses, Whys
  <2>3. row'[q.new] = row[q.name] /\ row'[q.name] = None
    BY <1>2, <1>6 DEF CatalogInv, TypeOK
  <2>4. Settled(q.name)'
    BY <1>2, <2>1, <2>2, <2>3 DEF WhileMoving, Settled, Agree, Tells, RulesFitRecord, NothingToInherit,
       Whys
  <2>5. Settled(q.new)'
    BY <1>2, <2>1, <2>2, <2>3 DEF WhileMoving, Settled, Agree, Tells, RulesFitRecord, NothingToInherit,
       Whys
  <2> QED
    BY <1>1, <1>3, <1>4, <1>5, <2>1, <2>4, <2>5, RequestStep
<1>7. CASE (Go(c, "rollback") \/ GoOn(c, "rollback")) /\ UNCHANGED <<row, excused>>
  <2>1. /\ r.op = q.op /\ r.name = q.name /\ r.new = q.new /\ r.pc = "rollback" /\ r # None
        /\ UNCHANGED <<host, rules>>
    BY <1>1, <1>7, Going DEF RenameRow, CatalogInv, Places
  <2>2. WhileMoving(r)'
    BY <1>2, <1>7, <2>1 DEF WhileMoving, Tells, Excuses, RulesFitRecord, NothingToInherit
  <2>3. InFlight(r)'
    BY <1>1, <1>2, <2>1, <2>2 DEF InFlight, Making, Moving, Removing, Changing, Switching
  <2> QED
    BY <1>1, <1>3, <1>4, <1>5, <2>1, <2>3, RequestStep
<1> QED
  BY <1>6, <1>7 DEF RenameRow

(* Or it is undone at the provider. *)
LEMMA RenameBackStep ==
  ASSUME CatalogInv, Apart, NEW c \in Clients, RenameBack(c)
  PROVE  CatalogInv'
<1> PICK q, r : q = req[c] /\ r = req'[c]
  OBVIOUS
<1>1. q \in Requests /\ q # None /\ InFlight(q) /\ q.op = "rename" /\ q.pc = "rollback"
  BY DEF RenameBack, At, CatalogInv, TypeOK
<1>2. q.name \in Names /\ q.new \in Names /\ WhileMoving(q) /\ q.name # q.new
  BY <1>1 DEF InFlight, Making, Moving, Removing, Changing, Switching, Requests
<1>3. TypeOK'
  BY <1>1, <1>2 DEF RenameBack, CatalogInv, TypeOK, GiveUp, Return, Requests, Places, Whys,
     Instances
<1>4. GensFit'
  BY <1>1, <1>2 DEF RenameBack, GensFit, CatalogInv, TypeOK, GiveUp, Return, Requests, Instances
<1>5. Moves(c)
  BY <1>1, <1>2 DEF RenameBack, CatalogInv, TypeOK, GiveUp, Return, Requests, Moves, KeptAt,
     Excuses, Whys
<1>6. CASE /\ host' = [host EXCEPT ![q.name] = host[q.new], ![q.new] = None]
           /\ Return(c) /\ UNCHANGED excused
  <2>1. UNCHANGED <<row, rules>> /\ r = None
    BY <1>1, <1>6, Returning DEF RenameBack, CatalogInv
  <2>2. host'[q.name] = host[q.new] /\ host'[q.new] = None
    BY <1>1, <1>2, <1>6, <2>1 DEF CatalogInv, TypeOK, Instances, Requests, GensFit, Whys
  <2>3. Settled(q.name)'
    BY <1>1, <1>2, <1>6, <2>1, <2>2 DEF WhileMoving, Settled, Agree, Tells, RulesFitRecord,
       NothingToInherit, Excuses
  <2>4. Settled(q.new)'
    BY <1>1, <1>2, <1>6, <2>1, <2>2 DEF WhileMoving, Settled, Agree, Tells, RulesFitRecord,
       NothingToInherit, Excuses
  <2> QED
    BY <1>1, <1>3, <1>4, <1>5, <2>1, <2>3, <2>4, RequestStep
<1>7. CASE host[q.new] = None \/ host[q.name] # None
  BY <1>2, <1>7 DEF WhileMoving
<1>8. CASE /\ GiveUp(c) /\ UNCHANGED host
           /\ excused' = excused \cup {<<q.new, "orphan">>, <<q.name, "ghost">>}
  <2>1. UNCHANGED <<row, rules>> /\ r = None
    BY <1>1, <1>8, Returning DEF RenameBack, CatalogInv
  <2>2. /\ \A n \in Names, w \in Whys : Excuses(n, w) => Excuses(n, w)'
        /\ Excuses(q.new, "orphan")' /\ Excuses(q.name, "ghost")'
    BY <1>1, <1>2, <1>8, <2>1 DEF CatalogInv, TypeOK, Excuses, Instances, Requests, GensFit, Whys
  <2>3. Settled(q.name)'
    BY <1>1, <1>2, <1>8, <2>1, <2>2 DEF WhileMoving, Settled, Agree, Tells, RulesFitRecord,
       NothingToInherit, Excuses, Whys
  <2>4. Settled(q.new)'
    BY <1>1, <1>2, <1>8, <2>1, <2>2 DEF WhileMoving, Settled, Agree, Tells, RulesFitRecord,
       NothingToInherit, Excuses, Whys
  <2> QED
    BY <1>1, <1>3, <1>4, <1>5, <2>1, <2>3, <2>4, RequestStep
<1> QED
  BY <1>1, <1>6, <1>7, <1>8 DEF RenameBack

(* The new state is recorded. *)
LEMMA WriteStateStep ==
  ASSUME CatalogInv, Apart, NEW c \in Clients, NEW op \in {"start", "stop", "restart"},
         NEW state \in {"stopped", "running"}, state = IF op = "stop" THEN "stopped" ELSE "running",
         WriteState(c, op, state)
  PROVE  CatalogInv'
<1> PICK q, r : q = req[c] /\ r = req'[c]
  OBVIOUS
<1>1. q \in Requests /\ q # None /\ InFlight(q) /\ q.op = op /\ q.pc = "state"
  BY DEF WriteState, At, CatalogInv, TypeOK
<1>2. q.name \in Names /\ q.new \in Names /\ WhileSwitching(q) /\ q.name = q.new
  BY <1>1 DEF InFlight, Making, Moving, Removing, Changing, Switching, Requests
<1>3. TypeOK'
  BY <1>1, <1>2 DEF WriteState, CatalogInv, TypeOK, Go, GoOn, GiveUp, Return, Requests, Places,
     Whys, Excuse, Instances, States
<1>4. GensFit'
  BY <1>1, <1>2 DEF WriteState, GensFit, CatalogInv, TypeOK, Go, GoOn, GiveUp, Return, Requests,
     Excuse, Instances, States
<1>5. Moves(c)
  BY <1>1, <1>2 DEF WriteState, CatalogInv, TypeOK, Go, GoOn, GiveUp, Return, Requests, Moves,
     KeptAt, Excuse, Excuses, Whys
<1>6. CASE /\ row' = [row EXCEPT ![q.name].state = state] /\ UNCHANGED excused
           /\ op # "start" /\ Return(c)
  <2>1. UNCHANGED <<host, rules>> /\ r = None
    BY <1>1, <1>6, Returning DEF WriteState, CatalogInv, Excuse
  <2>2. row[q.name] # None /\ host[q.name] # None
    BY <1>1, <1>2, <1>6, <2>1 DEF CatalogInv, TypeOK, Excuses, Instances, Requests, GensFit,
       Whys, WhileSwitching
  <2>3. row[q.name] \in Instances /\ host[q.name] \in Instances
    BY <1>1, <1>2, <1>6, <2>1, <2>2 DEF CatalogInv, TypeOK, Instances, Requests, GensFit, Whys
  <2>4. /\ row'[q.name].gen = row[q.name].gen /\ row'[q.name].spec = row[q.name].spec
        /\ row'[q.name].state = state /\ row'[q.name] \in Instances
    BY <1>1, <1>2, <1>6, <2>1, <2>2, <2>3 DEF CatalogInv, TypeOK, Instances, Requests, GensFit,
       Whys, States
  <2>5. row'[q.name].gen = host[q.name].gen => Tells(row[q.name], host[q.name], q.name)'
    BY <1>1, <1>2, <1>6, <2>1, <2>2, <2>3, <2>4 DEF CatalogInv, TypeOK, Excuses, Instances,
       Requests, GensFit, Whys, WhileSwitching, Tells
  <2>6. row'[q.name] # None
    BY <1>1, <1>2, <1>6, <2>1, <2>2, <2>3, <2>4, <2>5, NoneIsFresh DEF CatalogInv, TypeOK,
       Excuses, Instances, Requests, GensFit, Whys
  <2>7. Settled(q.name)'
    BY <1>1, <1>2, <1>6, <2>1, <2>2, <2>3, <2>4, <2>5, <2>6 DEF WhileSwitching, Settled, Agree, Tells,
       RulesFitRecord, NothingToInherit, Excuses, Instances
  <2>8. Settled(q.new)'
    BY <1>1, <1>2, <1>6, <2>1, <2>2, <2>3, <2>4, <2>5, <2>6 DEF WhileSwitching, Settled, Agree, Tells,
       RulesFitRecord, NothingToInherit, Excuses, Instances
  <2> QED
    BY <1>1, <1>3, <1>4, <1>5, <2>1, <2>7, <2>8, RequestStep
<1>7. CASE /\ row' = [row EXCEPT ![q.name].state = state] /\ UNCHANGED excused
           /\ op = "start" /\ Go(c, "spec")
  <2>1. /\ r.op = q.op /\ r.name = q.name /\ r.new = q.new /\ r.pc = "spec" /\ r # None
        /\ r.seen = q.seen /\ r.made = q.made /\ UNCHANGED <<host, rules>>
    BY <1>1, <1>7, Going DEF WriteState, CatalogInv, Places, Excuse
  <2>2. row[q.name] # None /\ host[q.name] # None
    BY <1>1, <1>2, <1>7, <2>1 DEF CatalogInv, TypeOK, Excuses, Instances, Requests, GensFit,
       Whys, WhileSwitching
  <2>3. row[q.name] \in Instances /\ host[q.name] \in Instances
    BY <1>1, <1>2, <1>7, <2>1, <2>2 DEF CatalogInv, TypeOK, Instances, Requests, GensFit, Whys
  <2>4. /\ row'[q.name].gen = row[q.name].gen /\ row'[q.name].spec = row[q.name].spec
        /\ row'[q.name].state = state /\ row'[q.name] \in Instances
    BY <1>1, <1>2, <1>7, <2>1, <2>2, <2>3 DEF CatalogInv, TypeOK, Instances, Requests, GensFit,
       Whys, States
  <2>5. row'[q.name].gen = host[q.name].gen => Tells(row[q.name], host[q.name], q.name)'
    BY <1>1, <1>2, <1>7, <2>1, <2>2, <2>3, <2>4 DEF CatalogInv, TypeOK, Excuses, Instances,
       Requests, GensFit, Whys, WhileSwitching, Tells
  <2>6. row'[q.name] # None
    BY <1>1, <1>2, <1>7, <2>1, <2>2, <2>3, <2>4, <2>5, NoneIsFresh DEF CatalogInv, TypeOK,
       Excuses, Instances, Requests, GensFit, Whys
  <2>7. Elsewhere(r)'
    BY <1>1, <1>2, <1>7, <2>1, <2>2, <2>3, <2>4, <2>5, <2>6 DEF Elsewhere, WhileSwitching,
       Settled, Agree, Tells, RulesFitRecord, NothingToInherit, Excuses, Instances
  <2>8. InFlight(r)'
    BY <1>1, <1>2, <1>7, <2>1, <2>7 DEF InFlight, Making, Moving, Removing, Changing, Switching
  <2> QED
    BY <1>1, <1>3, <1>4, <1>5, <2>1, <2>8, RequestStep
<1>8. CASE row[q.name] = None
  BY <1>2, <1>8 DEF WhileSwitching
<1>9. CASE GiveUp(c) /\ UNCHANGED row /\ Excuse(q.name, "state")
  <2>1. UNCHANGED <<host, rules>> /\ r = None
    BY <1>1, <1>9, Returning DEF WriteState, CatalogInv, Excuse
  <2>2. (\A n \in Names, w \in Whys : Excuses(n, w) => Excuses(n, w)') /\ Excuses(q.name, "state")'
    BY <1>1, <1>2, <1>9, <2>1 DEF CatalogInv, TypeOK, Excuses, Excuse, Instances, Requests,
       GensFit, Whys
  <2>3. Settled(q.name)'
    BY <1>1, <1>2, <1>9, <2>1, <2>2 DEF WhileSwitching, Settled, Agree, Tells, RulesFitRecord,
       NothingToInherit, Excuses, Whys
  <2>4. Settled(q.new)'
    BY <1>1, <1>2, <1>9, <2>1, <2>2 DEF WhileSwitching, Settled, Agree, Tells, RulesFitRecord,
       NothingToInherit, Excuses, Whys
  <2> QED
    BY <1>1, <1>3, <1>4, <1>5, <2>1, <2>3, <2>4, RequestStep
<1>10. CASE GoOn(c, "spec") /\ op = "start" /\ UNCHANGED row /\ Excuse(q.name, "state")
  <2>1. /\ r.op = q.op /\ r.name = q.name /\ r.new = q.new /\ r.pc = "spec" /\ r # None
        /\ r.seen = q.seen /\ r.made = q.made /\ UNCHANGED <<host, rules>>
    BY <1>1, <1>10, Going DEF WriteState, CatalogInv, Places, Excuse
  <2>2. (\A n \in Names, w \in Whys : Excuses(n, w) => Excuses(n, w)') /\ Excuses(q.name, "state")'
    BY <1>1, <1>2, <1>10, <2>1 DEF CatalogInv, TypeOK, Excuses, Excuse, Instances, Requests,
       GensFit, Whys
  <2>3. Elsewhere(r)'
    BY <1>1, <1>2, <1>10, <2>1, <2>2 DEF Elsewhere, WhileSwitching, Settled, Agree, Tells,
       RulesFitRecord, NothingToInherit, Excuses, Whys
  <2>4. InFlight(r)'
    BY <1>1, <1>2, <1>10, <2>1, <2>3 DEF InFlight, Making, Moving, Removing, Changing, Switching
  <2> QED
    BY <1>1, <1>3, <1>4, <1>5, <2>1, <2>4, RequestStep
<1> QED
  BY <1>1, <1>6, <1>7, <1>8, <1>9, <1>10 DEF WriteState

(* After a start the record takes over the resources. *)
LEMMA SyncSpecStep ==
  ASSUME CatalogInv, Apart, NEW c \in Clients, SyncSpec(c)
  PROVE  CatalogInv'
<1> PICK q, r : q = req[c] /\ r = req'[c]
  OBVIOUS
<1>1. q \in Requests /\ q # None /\ InFlight(q) /\ q.op = "start" /\ q.pc = "spec"
  BY DEF SyncSpec, At, CatalogInv, TypeOK
<1>2. q.name \in Names /\ q.new \in Names /\ Elsewhere(q) /\ q.name = q.new
  BY <1>1 DEF InFlight, Making, Moving, Removing, Changing, Switching, Requests
<1>3. TypeOK'
  BY <1>1, <1>2 DEF SyncSpec, Amend, CatalogInv, TypeOK, GiveUp, Return, Requests, Places, Whys,
     Instances
<1>4. GensFit'
  BY <1>1, <1>2 DEF SyncSpec, Amend, GensFit, CatalogInv, TypeOK, GiveUp, Return, Requests, Instances
<1>5. Moves(c)
  BY <1>1, <1>2 DEF SyncSpec, Amend, CatalogInv, TypeOK, GiveUp, Return, Requests, Moves, KeptAt,
     Excuses, Whys
<1>6. CASE /\ row[q.name] # None /\ host[q.name] # None /\ Return(c)
           /\ row' = [row EXCEPT ![q.name].spec = host[q.name].spec] /\ Amend(q.name, "spec")
  <2>1. UNCHANGED <<host, rules>> /\ r = None /\ excused' = excused \ {<<q.name, "spec">>}
    BY <1>1, <1>6, Returning DEF SyncSpec, Amend, CatalogInv
  <2>2. row[q.name] \in Instances /\ host[q.name] \in Instances
    BY <1>1, <1>2, <1>6, <2>1 DEF CatalogInv, TypeOK, Instances, Requests, GensFit, Whys
  <2>3. /\ row'[q.name].gen = row[q.name].gen /\ row'[q.name].spec = host[q.name].spec
        /\ row'[q.name].state = row[q.name].state /\ row'[q.name] \in Instances
    BY <1>1, <1>2, <1>6, <2>1, <2>2 DEF CatalogInv, TypeOK, Instances, Requests, GensFit, Whys
  <2>4. row'[q.name].gen = host[q.name].gen => Tells(row[q.name], host[q.name], q.name)'
    BY <1>1, <1>2, <1>6, <2>1, <2>2, <2>3 DEF CatalogInv, TypeOK, Excuses, Instances, Requests,
       GensFit, Whys, Elsewhere, Settled, Agree, Tells
  <2>5. row'[q.name] # None
    BY <1>1, <1>2, <1>6, <2>1, <2>2, <2>3, <2>4, NoneIsFresh DEF CatalogInv, TypeOK, Excuses,
       Instances, Requests, GensFit, Whys
  <2>6. Settled(q.name)'
    BY <1>1, <1>2, <1>6, <2>1, <2>2, <2>3, <2>4, <2>5 DEF Elsewhere, Settled, Agree, Tells,
       RulesFitRecord, NothingToInherit, Excuses, Instances
  <2>7. Settled(q.new)'
    BY <1>1, <1>2, <1>6, <2>1, <2>2, <2>3, <2>4, <2>5 DEF Elsewhere, Settled, Agree, Tells,
       RulesFitRecord, NothingToInherit, Excuses, Instances
  <2> QED
    BY <1>1, <1>3, <1>4, <1>5, <2>1, <2>6, <2>7, RequestStep
<1>7. CASE UNCHANGED <<row, excused>> /\ (Return(c) \/ GiveUp(c))
  <2>1. UNCHANGED <<host, row, rules, excused>> /\ r = None
    BY <1>1, <1>7, Returning DEF SyncSpec, CatalogInv
  <2>2. Settled(q.name)'
    BY <1>1, <1>2, <1>7, <2>1 DEF Elsewhere, Settled, Agree, Tells, RulesFitRecord, NothingToInherit,
       Excuses
  <2>3. Settled(q.new)'
    BY <1>1, <1>2, <1>7, <2>1 DEF Elsewhere, Settled, Agree, Tells, RulesFitRecord, NothingToInherit,
       Excuses
  <2> QED
    BY <1>1, <1>3, <1>4, <1>5, <2>1, <2>2, <2>3, RequestStep
<1> QED
  BY <1>1, <1>6, <1>7 DEF SyncSpec

(* The changed resources are recorded. *)
LEMMA WriteSpecStep ==
  ASSUME CatalogInv, Apart, NEW c \in Clients, WriteSpec(c)
  PROVE  CatalogInv'
<1> PICK q, r : q = req[c] /\ r = req'[c]
  OBVIOUS
<1>1. q \in Requests /\ q # None /\ InFlight(q) /\ q.op = "update" /\ q.pc = "spec"
  BY DEF WriteSpec, At, CatalogInv, TypeOK
<1>2. q.name \in Names /\ q.new \in Names /\ WhileChanging(q) /\ q.name = q.new
  BY <1>1 DEF InFlight, Making, Moving, Removing, Changing, Switching, Requests
<1>3. TypeOK'
  BY <1>1, <1>2 DEF WriteSpec, CatalogInv, TypeOK, GiveUp, Return, Requests, Places, Whys,
     Excuse, Instances, WhileChanging
<1>4. GensFit'
  BY <1>1, <1>2 DEF WriteSpec, GensFit, CatalogInv, TypeOK, GiveUp, Return, Requests, Excuse,
     Instances, WhileChanging
<1>5. Moves(c)
  BY <1>1, <1>2 DEF WriteSpec, CatalogInv, TypeOK, GiveUp, Return, Requests, Moves, KeptAt,
     Excuse, Excuses, Whys, WhileChanging
<1>6. CASE /\ row[q.name] # None /\ Return(c) /\ UNCHANGED excused
           /\ row' = [row EXCEPT ![q.name].spec = 1 - q.seen]
  <2>1. UNCHANGED <<host, rules>> /\ r = None
    BY <1>1, <1>6, Returning DEF WriteSpec, CatalogInv, Excuse
  <2>2. host[q.name] # None /\ q.seen # None /\ host[q.name].spec = 1 - q.seen
    BY <1>1, <1>2, <1>6, <2>1 DEF CatalogInv, TypeOK, Excuses, Instances, Requests, GensFit,
       Whys, WhileChanging
  <2>3. row[q.name] \in Instances /\ host[q.name] \in Instances
    BY <1>1, <1>2, <1>6, <2>1, <2>2 DEF CatalogInv, TypeOK, Instances, Requests, GensFit, Whys
  <2>4. /\ row'[q.name].gen = row[q.name].gen /\ row'[q.name].spec = 1 - q.seen
        /\ row'[q.name].state = row[q.name].state /\ row'[q.name] \in Instances
    BY <1>1, <1>2, <1>6, <2>1, <2>2, <2>3 DEF CatalogInv, TypeOK, Instances, Requests, GensFit,
       Whys
  <2>5. row'[q.name].gen = host[q.name].gen => Tells(row[q.name], host[q.name], q.name)'
    BY <1>1, <1>2, <1>6, <2>1, <2>2, <2>3, <2>4 DEF CatalogInv, TypeOK, Excuses, Instances,
       Requests, GensFit, Whys, WhileChanging, Settled, Agree, Tells
  <2>6. row'[q.name] # None
    BY <1>1, <1>2, <1>6, <2>1, <2>2, <2>3, <2>4, <2>5, NoneIsFresh DEF CatalogInv, TypeOK,
       Excuses, Instances, Requests, GensFit, Whys
  <2>7. Settled(q.name)'
    BY <1>1, <1>2, <1>6, <2>1, <2>2, <2>3, <2>4, <2>5, <2>6 DEF WhileChanging, Settled, Agree, Tells,
       RulesFitRecord, NothingToInherit, Excuses, Instances
  <2>8. Settled(q.new)'
    BY <1>1, <1>2, <1>6, <2>1, <2>2, <2>3, <2>4, <2>5, <2>6 DEF WhileChanging, Settled, Agree, Tells,
       RulesFitRecord, NothingToInherit, Excuses, Instances
  <2> QED
    BY <1>1, <1>3, <1>4, <1>5, <2>1, <2>7, <2>8, RequestStep
<1>7. CASE row[q.name] = None
  BY <1>2, <1>7 DEF WhileChanging
<1>8. CASE GiveUp(c) /\ UNCHANGED row /\ Excuse(q.name, "spec")
  <2>1. UNCHANGED <<host, rules>> /\ r = None
    BY <1>1, <1>8, Returning DEF WriteSpec, CatalogInv, Excuse
  <2>2. (\A n \in Names, w \in Whys : Excuses(n, w) => Excuses(n, w)') /\ Excuses(q.name, "spec")'
    BY <1>1, <1>2, <1>8, <2>1 DEF CatalogInv, TypeOK, Excuses, Excuse, Instances, Requests,
       GensFit, Whys
  <2>3. Settled(q.name)'
    BY <1>1, <1>2, <1>8, <2>1, <2>2 DEF WhileChanging, Settled, Agree, Tells, RulesFitRecord,
       NothingToInherit, Excuses, Whys
  <2>4. Settled(q.new)'
    BY <1>1, <1>2, <1>8, <2>1, <2>2 DEF WhileChanging, Settled, Agree, Tells, RulesFitRecord,
       NothingToInherit, Excuses, Whys
  <2> QED
    BY <1>1, <1>3, <1>4, <1>5, <2>1, <2>3, <2>4, RequestStep
<1> QED
  BY <1>1, <1>6, <1>7, <1>8 DEF WriteSpec

(* A port is forwarded to the recorded instance. *)
LEMMA ExposeStep ==
  ASSUME CatalogInv, Apart, NEW c \in Clients, Expose(c)
  PROVE  CatalogInv'
<1> PICK q, r : q = req[c] /\ r = req'[c]
  OBVIOUS
<1>1. q \in Requests /\ q # None /\ InFlight(q) /\ q.op = "expose" /\ q.pc = "provider"
  BY DEF Expose, At, CatalogInv, TypeOK
<1>2. q.name \in Names /\ q.new \in Names /\ Elsewhere(q) /\ q.name = q.new
  BY <1>1 DEF InFlight, Making, Moving, Removing, Changing, Switching, Requests
<1>3. TypeOK'
  BY <1>1, <1>2 DEF Expose, CatalogInv, TypeOK, Return, Requests, Places, Whys, Instances, Refused
<1>4. GensFit'
  BY <1>1, <1>2 DEF Expose, GensFit, CatalogInv, TypeOK, Return, Requests, Instances, Refused
<1>5. Moves(c)
  BY <1>1, <1>2 DEF Expose, CatalogInv, TypeOK, Return, Requests, Moves, KeptAt, Excuses, Whys,
     Refused
<1>6. CASE /\ rules' = [rules EXCEPT ![q.name] = row[q.name].gen] /\ Return(c) /\ ~Refused(q)
  <2>1. UNCHANGED <<host, row, excused>> /\ r = None
    BY <1>1, <1>6, Returning DEF Expose, CatalogInv
  <2>2. rules'[q.name] = row[q.name].gen /\ row[q.name] # None
    BY <1>1, <1>2, <1>6, <2>1 DEF CatalogInv, TypeOK, Instances, Requests, GensFit, Whys, Refused
  <2>3. Settled(q.name)'
    BY <1>1, <1>2, <1>6, <2>1, <2>2 DEF Elsewhere, Settled, Agree, Tells, RulesFitRecord,
       NothingToInherit, Excuses
  <2>4. Settled(q.new)'
    BY <1>1, <1>2, <1>6, <2>1, <2>2 DEF Elsewhere, Settled, Agree, Tells, RulesFitRecord,
       NothingToInherit, Excuses
  <2> QED
    BY <1>1, <1>3, <1>4, <1>5, <2>1, <2>3, <2>4, RequestStep
<1> QED
  BY <1>1, <1>6 DEF Expose

(* A port is forwarded to an address. *)
LEMMA ExposeAddressStep ==
  ASSUME CatalogInv, Apart, NEW c \in Clients, ExposeAddress(c)
  PROVE  CatalogInv'
<1> PICK q, r : q = req[c] /\ r = req'[c]
  OBVIOUS
<1>1. q \in Requests /\ q # None /\ InFlight(q) /\ q.op = "expose" /\ q.pc = "lookup"
  BY DEF ExposeAddress, At, CatalogInv, TypeOK
<1>2. q.name \in Names /\ q.new \in Names /\ Elsewhere(q) /\ q.name = q.new
  BY <1>1 DEF InFlight, Making, Moving, Removing, Changing, Switching, Requests
<1>3. TypeOK'
  BY <1>1, <1>2 DEF ExposeAddress, CatalogInv, TypeOK, Return, Requests, Places, Whys, Instances
<1>4. GensFit'
  BY <1>1, <1>2 DEF ExposeAddress, GensFit, CatalogInv, TypeOK, Return, Requests, Instances
<1>5. Moves(c)
  BY <1>1, <1>2 DEF ExposeAddress, CatalogInv, TypeOK, Return, Requests, Moves, KeptAt, Excuses,
     Whys
<1>6. CASE rules' = [rules EXCEPT ![q.name] = 0] /\ Return(c)
  <2>1. UNCHANGED <<host, row, excused>> /\ r = None
    BY <1>1, <1>6, Returning DEF ExposeAddress, CatalogInv
  <2>2. rules'[q.name] = 0
    BY <1>1, <1>2, <1>6, <2>1 DEF CatalogInv, TypeOK, Instances, Requests, GensFit, Whys
  <2>3. Settled(q.name)'
    BY <1>1, <1>2, <1>6, <2>1, <2>2 DEF Elsewhere, Settled, Agree, Tells, RulesFitRecord,
       NothingToInherit, Excuses
  <2>4. Settled(q.new)'
    BY <1>1, <1>2, <1>6, <2>1, <2>2 DEF Elsewhere, Settled, Agree, Tells, RulesFitRecord,
       NothingToInherit, Excuses
  <2> QED
    BY <1>1, <1>3, <1>4, <1>5, <2>1, <2>3, <2>4, RequestStep
<1> QED
  BY <1>1, <1>6 DEF ExposeAddress

(* A forwarding goes. *)
LEMMA UnexposeStep ==
  ASSUME CatalogInv, Apart, NEW c \in Clients, Unexpose(c)
  PROVE  CatalogInv'
<1> PICK q, r : q = req[c] /\ r = req'[c]
  OBVIOUS
<1>1. q \in Requests /\ q # None /\ InFlight(q) /\ q.op = "unexpose" /\ q.pc = "provider"
  BY DEF Unexpose, At, CatalogInv, TypeOK
<1>2. q.name \in Names /\ q.new \in Names /\ Elsewhere(q) /\ q.name = q.new
  BY <1>1 DEF InFlight, Making, Moving, Removing, Changing, Switching, Requests
<1>3. TypeOK'
  BY <1>1, <1>2 DEF Unexpose, CatalogInv, TypeOK, Return, Requests, Places, Whys, Instances
<1>4. GensFit'
  BY <1>1, <1>2 DEF Unexpose, GensFit, CatalogInv, TypeOK, Return, Requests, Instances
<1>5. Moves(c)
  BY <1>1, <1>2 DEF Unexpose, CatalogInv, TypeOK, Return, Requests, Moves, KeptAt, Excuses, Whys
<1>6. CASE rules' = [rules EXCEPT ![q.name] = None] /\ Return(c)
  <2>1. UNCHANGED <<host, row, excused>> /\ r = None
    BY <1>1, <1>6, Returning DEF Unexpose, CatalogInv
  <2>2. rules'[q.name] = None
    BY <1>1, <1>2, <1>6, <2>1 DEF CatalogInv, TypeOK, Instances, Requests, GensFit, Whys
  <2>3. Settled(q.name)'
    BY <1>1, <1>2, <1>6, <2>1, <2>2 DEF Elsewhere, Settled, Agree, Tells, RulesFitRecord,
       NothingToInherit, Excuses
  <2>4. Settled(q.new)'
    BY <1>1, <1>2, <1>6, <2>1, <2>2 DEF Elsewhere, Settled, Agree, Tells, RulesFitRecord,
       NothingToInherit, Excuses
  <2> QED
    BY <1>1, <1>3, <1>4, <1>5, <2>1, <2>3, <2>4, RequestStep
<1> QED
  BY <1>1, <1>6 DEF Unexpose

-----------------------------------------------------------------------------
(* What happens around the handlers. *)

(* A guest that exits is excused, wherever a request about it stands. *)
LEMMA GuestExitsStep ==
  ASSUME CatalogInv, NEW g \in Names, GuestExits(g)
  PROVE  CatalogInv'
<1>1. host[g] # None /\ host[g] \in Instances /\ host[g].state = "running"
  BY DEF GuestExits, CatalogInv, TypeOK
<1>2. /\ host'[g] \in Instances /\ host'[g].gen = host[g].gen /\ host'[g].spec = host[g].spec
      /\ host'[g].state = "stopped" /\ host' = [host EXCEPT ![g] = host'[g]]
  BY <1>1 DEF GuestExits, CatalogInv, TypeOK, Instances, States
<1>3. host'[g] # None
  BY <1>2, NoneIsFresh
<1>4. UNCHANGED <<row, rules, req, gens>> /\ Excuses(g, "state")' /\ excused \subseteq excused'
      /\ excused' \subseteq Names \X Whys
  BY DEF GuestExits, Excuse, Excuses, CatalogInv, TypeOK, Whys
<1>5. \A n \in Names : n # g => KeptAt(n)
  BY <1>2, <1>4 DEF KeptAt, Excuses, CatalogInv, TypeOK
<1>6. TypeOK'
  BY <1>2, <1>4 DEF CatalogInv, TypeOK
<1>7. GensFit'
  BY <1>1, <1>2, <1>4 DEF CatalogInv, GensFit, TypeOK
<1>8. Settled(g) => Settled(g)'
  BY <1>1, <1>2, <1>3, <1>4 DEF Settled, Agree, Tells, RulesFitRecord, NothingToInherit, Excuses
<1>9. ASSUME NEW n \in Names, Settled(n) PROVE Settled(n)'
  BY <1>5, <1>8, <1>9, SettledKept
<1>10. ASSUME NEW c \in Clients, req'[c] # None PROVE InFlight(req[c])'
  <2> PICK q : q = req[c] /\ q = req'[c]
    BY <1>4
  <2>1. q \in Requests /\ q # None /\ InFlight(q) /\ q.name \in Names /\ q.new \in Names
    BY <1>10 DEF CatalogInv, TypeOK, Requests
  <2>2. CASE g \notin {q.name, q.new}
    BY <1>4, <1>5, <2>1, <2>2, InFlightKept
  <2>3. CASE g \in {q.name, q.new}
    <3>1. \A n \in {q.name, q.new} : n # g => host'[n] = host[n]
      BY <1>5, <2>1 DEF KeptAt
    <3>2. Making(q) => WhileMaking(q)'
      BY <1>1, <1>2, <1>3, <1>4, <1>9, <2>1, <2>3, <3>1 DEF InFlight, WhileMaking,
         RulesFitRecord, NothingToInherit, Excuses
    <3>3. Moving(q) => WhileMoving(q)'
      BY <1>1, <2>1, <2>3 DEF InFlight, WhileMoving
    <3>4. Removing(q) => WhileRemoving(q)'
      <4>1. ASSUME Removing(q) PROVE q.name = q.new
        BY <2>1, <4>1 DEF InFlight, Removing
      <4> QED
        BY <1>1, <2>1, <2>3, <4>1 DEF InFlight, WhileRemoving
    <3>5. Changing(q) => WhileChanging(q)'
      <4>1. ASSUME Changing(q) PROVE q.name = q.new
        BY <2>1, <4>1 DEF InFlight, Changing
      <4> QED
        BY <1>1, <1>2, <1>3, <1>4, <2>1, <2>3, <4>1 DEF InFlight, WhileChanging, RulesFitRecord,
           Excuses
    <3>6. Switching(q) => WhileSwitching(q)'
      <4>1. ASSUME Switching(q) PROVE q.name = q.new
        BY <2>1, <4>1 DEF InFlight, Switching
      <4> QED
        BY <1>1, <1>2, <1>3, <1>4, <2>1, <2>3, <4>1 DEF InFlight, WhileSwitching, RulesFitRecord,
           Excuses
    <3>7. Elsewhere(q) => Elsewhere(q)'
      BY <1>1, <1>2, <1>3, <1>4, <1>9, <2>1, <2>3, <3>1 DEF Elsewhere, Excuses
    <3>8. InFlight(q)'
      BY <2>1, <3>2, <3>3, <3>4, <3>5, <3>6, <3>7 DEF InFlight
    <3> QED
      BY <1>10, <3>8
  <2> QED
    BY <2>2, <2>3
<1>11. ASSUME NEW n \in Names, ~Busy(n)' PROVE Settled(n)'
  <2>1. ~Busy(n)
    BY <1>4, <1>11 DEF Busy, About
  <2> QED
    BY <1>9, <2>1 DEF CatalogInv
<1> QED
  BY <1>6, <1>7, <1>10, <1>11 DEF CatalogInv

(* A request begins about names that no other request is about; what has    *)
(* been excused and no longer matters is forgotten at names that are free.  *)
LEMMA BeginStep ==
  ASSUME CatalogInv, Apart', NEW c \in Clients, NEW op \in Operations,
         NEW a \in Names, NEW b \in Names, Begin(c, op, a, b)
  PROVE  CatalogInv'
<1> PICK r : r = req'[c]
  OBVIOUS
<1>1. /\ r = [op |-> op, name |-> a, new |-> b, pc |-> FirstStep(op), seen |-> None, made |-> None, faults |-> 0]
      /\ req' = [req EXCEPT ![c] = r] /\ req[c] = None
  BY DEF Begin, CatalogInv, TypeOK
<1>2. FirstStep(op) \in Places /\ (FirstStep(op) = "provider" => op \in {"import", "unexpose"})
      /\ FirstStep(op) \in {"name", "provider", "lookup"} /\ (FirstStep(op) = "name" => op = "create")
  BY DEF FirstStep, Places
<1>3. r \in Requests /\ r # None
  BY <1>1, <1>2, CatalogAssumption, NoneIsFresh DEF Requests
<1>4. /\ UNCHANGED <<host, row, rules, gens>>
      /\ excused' = {e \in excused : Busy(e[1]) \/ Matters(e[1], e[2])}
  BY DEF Begin
<1>5. TypeOK'
  BY <1>1, <1>3, <1>4 DEF CatalogInv, TypeOK
<1>6. GensFit'
  BY <1>4 DEF CatalogInv, GensFit
<1>7. ASSUME NEW n \in Names, NEW w \in Whys, Excuses(n, w), Busy(n) \/ Matters(n, w) PROVE Excuses(n, w)'
  BY <1>4, <1>7 DEF Excuses
<1>8. ASSUME NEW n \in Names, Busy(n) PROVE KeptAt(n)
  BY <1>4, <1>7, <1>8 DEF KeptAt
<1>9. ASSUME NEW n \in Names, Settled(n) PROVE Settled(n)'
  <2>1. /\ host[n] # None /\ row[n] = None => Excuses(n, "orphan")'
        /\ row[n] # None /\ host[n] = None => Excuses(n, "ghost")'
    BY <1>7, <1>9 DEF Settled, Agree, Tells, Matters, Whys
  <2>2. row[n] # None /\ host[n] # None =>
           IF row[n].gen = host[n].gen THEN Tells(row[n], host[n], n)' ELSE Excuses(n, "orphan")'
    <3> SUFFICES ASSUME row[n] # None, host[n] # None
                 PROVE  IF row[n].gen = host[n].gen THEN Tells(row[n], host[n], n)' ELSE Excuses(n, "orphan")'
      OBVIOUS
    <3>1. CASE row[n].gen # host[n].gen
      BY <1>7, <1>9, <3>1 DEF Settled, Agree, Matters, Whys
    <3>2. CASE row[n].gen = host[n].gen
      <4>1. Tells(row[n], host[n], n)
        BY <1>9, <3>2 DEF Settled, Agree
      <4>2. row[n].state = host[n].state \/ ~Excuses(n, "state") \/ Excuses(n, "state")'
        BY <1>7 DEF Matters, Whys
      <4>3. row[n].spec = host[n].spec \/ ~Excuses(n, "spec") \/ Excuses(n, "spec")'
        BY <1>7 DEF Matters, Whys
      <4> QED
        BY <1>4, <3>2, <4>1, <4>2, <4>3 DEF Tells
    <3> QED
      BY <3>1, <3>2
  <2>3. RulesFitRecord(n)'
    BY <1>4, <1>7, <1>9 DEF Settled, RulesFitRecord, Matters, Whys
  <2>4. NothingToInherit(n) => NothingToInherit(n)'
    BY <1>4, <1>7, <1>9 DEF NothingToInherit, Matters, Whys
  <2> QED
    BY <1>4, <1>9, <2>1, <2>2, <2>3, <2>4 DEF Settled, Agree, Tells
<1>10. ~Busy(a) /\ ~Busy(b)
  <2>1. ASSUME NEW d \in Clients, d # c PROVE About(d)' = About(d)
    BY <1>1, <2>1 DEF About, CatalogInv, TypeOK
  <2>2. About(c)' = {a, b} /\ About(c) = {}
    BY <1>1, <1>3 DEF About
  <2>3. ASSUME NEW d \in Clients PROVE a \notin About(d) /\ b \notin About(d)
    BY <2>1, <2>2, <2>3 DEF Apart
  <2> QED
    BY <2>3 DEF Busy
<1>11. InFlight(r)'
  <2>1. Settled(a)' /\ Settled(b)'
    BY <1>9, <1>10 DEF CatalogInv
  <2>2. r.op = op /\ r.name = a /\ r.new = b /\ r.pc = FirstStep(op)
    BY <1>1
  <2>3. Elsewhere(r)'
    BY <1>2, <2>1, <2>2 DEF Elsewhere
  <2>4. (op \in {"clone", "rename"}) = (b # a)
    BY DEF Begin
  <2> QED
    BY <1>2, <2>2, <2>3, <2>4 DEF InFlight, Making, Moving, Removing, Changing, Switching
<1>12. ASSUME NEW d \in Clients, req'[d] # None PROVE InFlight(req[d])'
  <2>1. CASE d = c
    BY <1>11, <2>1
  <2>2. CASE d # c
    <3>1. req'[d] = req[d] /\ req[d] # None /\ req[d] \in Requests /\ InFlight(req[d])
      BY <1>1, <1>12, <2>2 DEF CatalogInv, TypeOK
    <3>2. req[d].name \in Names /\ req[d].new \in Names /\ Busy(req[d].name) /\ Busy(req[d].new)
      BY <3>1 DEF Requests, Busy, About
    <3> QED
      BY <1>8, <3>1, <3>2, InFlightKept
  <2> QED
    BY <2>1, <2>2
<1>13. ASSUME NEW n \in Names, ~Busy(n)' PROVE Settled(n)'
  <2>1. ASSUME NEW d \in Clients PROVE n \notin About(d)
    BY <1>1, <1>13 DEF Busy, About, CatalogInv, TypeOK
  <2> QED
    BY <1>9, <2>1 DEF Busy, CatalogInv
<1> QED
  BY <1>5, <1>6, <1>12, <1>13 DEF CatalogInv

(* The daemon dies: what its requests were in the middle of is excused, and *)
(* the synchronisation brings the states of the records it reaches up to    *)
(* date.                                                                    *)
LEMMA RestartStep ==
  ASSUME CatalogInv, NEW skipped \in SUBSET Names, NEW silent \in SUBSET Names, Restart(skipped, silent)
  PROVE  CatalogInv'
<1>1. /\ req' = [c \in Clients |-> None] /\ UNCHANGED <<host, rules, gens>>
      /\ excused' = (excused \ ((Names \ skipped) \X {"state"})) \cup CutOff \cup (skipped \X {"state"})
      /\ row' = [n \in Names |->
                   IF n \in Recorded \ skipped THEN [row[n] EXCEPT !.state = Reported(n, n \notin silent)]
                   ELSE row[n]]
  BY DEF Restart
<1>2. ASSUME NEW n \in Names, row[n] # None
      PROVE  /\ row'[n] \in Instances /\ row'[n].gen = row[n].gen /\ row'[n].spec = row[n].spec
             /\ row'[n] # None
             /\ host[n] # None => row'[n].state \in {host[n].state, "unknown"} \/ Excuses(n, "state")'
  <2>1. row[n] \in Instances
    BY <1>2 DEF CatalogInv, TypeOK
  <2>2. CASE n \in skipped
    <3>1. row'[n] = row[n] /\ Excuses(n, "state")'
      BY <1>1, <2>2 DEF Excuses
    <3> QED
      BY <1>2, <2>1, <3>1
  <2>3. CASE n \notin skipped
    <3> DEFINE s == Reported(n, n \notin silent)
    <3>1. s \in States /\ (host[n] # None => s \in {host[n].state, "unknown"})
      BY DEF Reported, CatalogInv, TypeOK, Instances, States
    <3>2. row'[n] = [row[n] EXCEPT !.state = s]
      BY <1>1, <1>2, <2>3 DEF Recorded
    <3> HIDE DEF s
    <3>3. row'[n] \in Instances /\ row'[n].gen = row[n].gen /\ row'[n].spec = row[n].spec
          /\ row'[n].state = s
      BY <2>1, <3>1, <3>2 DEF Instances
    <3> QED
      BY <3>1, <3>3, NoneIsFresh
  <2> QED
    BY <2>2, <2>3
<1>3. \A n \in Names : row[n] = None => row'[n] = None
  BY <1>1 DEF Recorded
<1>4. ASSUME NEW c \in Clients, req[c] # None
      PROVE  /\ Making(req[c]) => <<req[c].new, "orphan">> \in CutOff
             /\ Moving(req[c]) => <<req[c].new, "orphan">> \in CutOff /\ <<req[c].name, "ghost">> \in CutOff
             /\ Removing(req[c]) => <<req[c].name, "ghost">> \in CutOff
             /\ Changing(req[c]) => <<req[c].name, "spec">> \in CutOff
  <2>1. CutOffOf(req[c]) \subseteq CutOff
    BY DEF CutOff
  <2>2. /\ Making(req[c]) => <<req[c].new, "orphan">> \in CutOffOf(req[c])
        /\ Moving(req[c]) => {<<req[c].new, "orphan">>, <<req[c].name, "ghost">>} \subseteq CutOffOf(req[c])
        /\ Removing(req[c]) => <<req[c].name, "ghost">> \in CutOffOf(req[c])
        /\ Changing(req[c]) => <<req[c].name, "spec">> \in CutOffOf(req[c])
    BY <1>4 DEF CutOffOf, Making, Moving, Removing, Changing
  <2> QED
    BY <2>1, <2>2
<1>5. CutOff \subseteq Names \X Whys
  <2>1. ASSUME NEW c \in Clients PROVE CutOffOf(req[c]) \subseteq Names \X Whys
    <3>1. req[c] = None \/ (req[c].name \in Names /\ req[c].new \in Names)
      BY DEF CatalogInv, TypeOK, Requests
    <3> QED
      BY <3>1 DEF CutOffOf, Whys, Making, Moving, Removing, Changing
  <2> QED
    BY <2>1 DEF CutOff
<1>6. TypeOK'
  <2>1. row' \in [Names -> Instances \cup {None}]
    BY <1>1, <1>2, <1>3
  <2>2. excused' \subseteq Names \X Whys
    BY <1>1, <1>5 DEF CatalogInv, TypeOK, Whys
  <2> QED
    BY <1>1, <2>1, <2>2 DEF CatalogInv, TypeOK
<1>7. GensFit'
  BY <1>1, <1>2, <1>3 DEF CatalogInv, GensFit
<1>8. ASSUME NEW n \in Names
      PROVE  /\ \A w \in Whys \ {"state"} : Excuses(n, w) => Excuses(n, w)'
             /\ RulesFitRecord(n) => RulesFitRecord(n)'
             /\ NothingToInherit(n) => NothingToInherit(n)'
  <2>1. \A w \in Whys \ {"state"} : Excuses(n, w) => Excuses(n, w)'
    BY <1>1 DEF Excuses
  <2> QED
    BY <1>1, <1>2, <1>3, <2>1 DEF RulesFitRecord, NothingToInherit, Whys
\* A record tells the state now, if it could be read and written.
<1>9. ASSUME NEW n \in Names, row[n] # None, host[n] # None,
             row[n].spec = host[n].spec \/ Excuses(n, "spec")'
      PROVE  Tells(row[n], host[n], n)'
  BY <1>1, <1>2, <1>9 DEF Tells
<1>10. ASSUME NEW n \in Names, Settled(n) PROVE Settled(n)'
  <2>1. Agree(n)'
    <3>1. row[n] # None /\ host[n] # None /\ row[n].gen = host[n].gen => Tells(row[n], host[n], n)'
      BY <1>8, <1>9, <1>10 DEF Settled, Agree, Tells, Whys
    <3> QED
      BY <1>1, <1>2, <1>3, <1>8, <1>10, <3>1 DEF Settled, Agree, Whys
  <2> QED
    BY <1>1, <1>8, <1>10, <2>1 DEF Settled
<1>11. ASSUME NEW n \in Names PROVE Settled(n)'
  <2>1. CASE ~Busy(n)
    BY <1>10, <2>1 DEF CatalogInv
  <2>2. CASE Busy(n)
    <3> PICK c \in Clients : n \in About(c)
      BY <2>2 DEF Busy
    <3> PICK q : q = req[c]
      OBVIOUS
    <3>1. q # None /\ InFlight(q) /\ n \in {q.name, q.new} /\ q \in Requests
      BY DEF About, CatalogInv, TypeOK
    <3>2. q.name \in Names /\ q.new \in Names
      BY <3>1 DEF Requests
    <3>3. CASE Making(q)
      <4>1. WhileMaking(q) /\ Excuses(q.new, "orphan")'
        BY <1>1, <1>4, <3>1, <3>3 DEF InFlight, Excuses
      <4>2. n # q.new => Settled(n)
        BY <3>1, <4>1 DEF WhileMaking
      <4>3. n = q.new => Settled(n)'
        BY <1>1, <1>2, <1>3, <1>8, <3>1, <4>1 DEF WhileMaking, Settled, Agree, Tells
      <4> QED
        BY <1>10, <4>2, <4>3
    <3>4. CASE Moving(q)
      <4>1. WhileMoving(q) /\ Excuses(q.new, "orphan")' /\ Excuses(q.name, "ghost")'
        BY <1>1, <1>4, <3>1, <3>4 DEF InFlight, Excuses
      <4>2. n = q.new => Settled(n)'
        BY <1>1, <1>2, <1>3, <1>8, <3>1, <4>1 DEF WhileMoving, Settled, Agree, Tells, RulesFitRecord
      <4>3. n = q.name => Settled(n)'
        BY <1>1, <1>2, <1>3, <1>8, <3>1, <4>1 DEF WhileMoving, Settled, Agree, Tells, NothingToInherit
      <4> QED
        BY <3>1, <4>2, <4>3
    <3>5. CASE Removing(q)
      <4>1. WhileRemoving(q) /\ Excuses(q.name, "ghost")' /\ n = q.name
        BY <1>1, <1>4, <3>1, <3>5 DEF InFlight, Excuses, Removing
      <4> QED
        BY <1>1, <1>2, <1>3, <1>8, <4>1 DEF WhileRemoving, Settled, Agree, Tells, NothingToInherit
    <3>6. CASE Changing(q)
      <4>1. WhileChanging(q) /\ Excuses(q.name, "spec")' /\ n = q.name
        BY <1>1, <1>4, <3>1, <3>6 DEF InFlight, Excuses, Changing
      <4>2. row[n] # None /\ host[n] # None /\ row'[n] # None /\ row'[n].gen = row[n].gen /\ host'[n] = host[n]
        BY <1>1, <1>2, <4>1 DEF WhileChanging
      <4>3. row[n].gen # host[n].gen => Excuses(n, "orphan")'
        BY <1>8, <4>1 DEF WhileChanging, Whys
      <4>4. RulesFitRecord(n)'
        BY <1>8, <4>1 DEF WhileChanging
      <4>5. Tells(row[n], host[n], n)'
        BY <1>9, <4>1, <4>2
      <4> QED
        BY <4>2, <4>3, <4>4, <4>5 DEF Settled, Agree, NothingToInherit
    <3>7. CASE Switching(q)
      <4>1. WhileSwitching(q) /\ n = q.name
        BY <3>1, <3>7 DEF InFlight, Switching
      <4>2. row[n].gen = host[n].gen => Tells(row[n], host[n], n)'
        BY <1>8, <1>9, <4>1 DEF WhileSwitching, Whys
      <4>3. row[n] # None /\ host[n] # None /\ row'[n] # None /\ row'[n].gen = row[n].gen /\ host'[n] = host[n]
        BY <1>1, <1>2, <4>1 DEF WhileSwitching
      <4>4. row[n].gen # host[n].gen => Excuses(n, "orphan")'
        BY <1>8, <4>1 DEF WhileSwitching, Whys
      <4>5. RulesFitRecord(n)'
        BY <1>8, <4>1 DEF WhileSwitching
      <4> QED
        BY <4>2, <4>3, <4>4, <4>5 DEF Settled, Agree, NothingToInherit
    <3>8. CASE Elsewhere(q)
      BY <1>10, <3>1, <3>8 DEF Elsewhere
    <3> QED
      BY <3>1, <3>3, <3>4, <3>5, <3>6, <3>7, <3>8 DEF InFlight
  <2> QED
    BY <2>1, <2>2
<1> QED
  BY <1>1, <1>6, <1>7, <1>11 DEF CatalogInv

-----------------------------------------------------------------------------
(* The invariant, and what follows from it. *)

LEMMA CatalogInvInit == Init => CatalogInv
<1> SUFFICES ASSUME Init PROVE CatalogInv
  OBVIOUS
<1>1. TypeOK
  BY CatalogAssumption DEF Init, TypeOK
<1>2. \A n \in Names : Settled(n)
  BY DEF Init, Settled, Agree, Tells, RulesFitRecord, NothingToInherit
<1> QED
  BY <1>1, <1>2 DEF Init, CatalogInv, GensFit

(* A step taken while the requests keep apart, to a state where they do.    *)
LEMMA CatalogInvStep ==
  ASSUME CatalogInv, Apart, Apart', [Next]_vars
  PROVE  CatalogInv'
<1>1. CASE UNCHANGED vars
  <2>1. \A n \in Names : KeptAt(n)
    BY <1>1 DEF vars, KeptAt, Excuses
  <2>2. TypeOK' /\ GensFit'
    BY <1>1 DEF vars, CatalogInv, TypeOK, GensFit
  <2>3. ASSUME NEW n \in Names, ~Busy(n)' PROVE Settled(n)'
    <3>1. ~Busy(n)
      BY <1>1, <2>3 DEF vars, Busy, About
    <3> QED
      BY <2>1, <3>1, SettledKept DEF CatalogInv
  <2>4. ASSUME NEW c \in Clients, req'[c] # None PROVE InFlight(req[c])'
    <3>1. req'[c] = req[c] /\ InFlight(req[c]) /\ req[c].name \in Names /\ req[c].new \in Names
      BY <1>1, <2>4 DEF vars, CatalogInv, TypeOK, Requests
    <3> QED
      BY <2>1, <3>1, InFlightKept
  <2> QED
    BY <2>2, <2>3, <2>4 DEF CatalogInv
<1>2. ASSUME NEW c \in Clients, NEW op \in Operations, NEW n \in Names, NEW new \in Names, Begin(c, op, n, new)
      PROVE  CatalogInv'
  BY <1>2, BeginStep
<1>3. ASSUME NEW c \in Clients,
             Lookup(c) \/ CheckName(c) \/ CheckNewName(c) \/ AskRefuses(c) \/ AskUnknown(c)
             \/ GhostRow(c) \/ GhostRules(c) \/ ProviderFails(c)
      PROVE  CatalogInv'
  BY <1>3, LookupStep, CheckNameStep, CheckNewNameStep, AskRefusesStep, AskUnknownStep,
     GhostRowStep, GhostRulesStep, ProviderFailsStep
<1>4. ASSUME NEW c \in Clients,
             ProviderCreates(c) \/ ProviderClones(c) \/ ProviderClonesSnapshot(c) \/ ProviderImports(c)
      PROVE  CatalogInv'
  <2>1. CASE ProviderImports(c)
    <3>1. ProviderMakes(c, "import", {"stopped", "running"}, "info")
      BY <2>1 DEF ProviderImports
    <3> QED
      BY <3>1, ProviderMakesStep
  <2>2. CASE ProviderCreates(c)
    <3>1. ProviderMakes(c, "create", {"stopped"}, "row")
      BY <2>2 DEF ProviderCreates
    <3> QED
      BY <3>1, ProviderMakesStep
  <2>3. CASE ProviderClones(c) \/ ProviderClonesSnapshot(c)
    <3>1. ProviderMakes(c, "clone", {"stopped"}, "row")
      BY <2>3 DEF ProviderClones, ProviderClonesSnapshot
    <3> QED
      BY <3>1, ProviderMakesStep
  <2> QED
    BY <1>4, <2>1, <2>2, <2>3
<1>5. ASSUME NEW c \in Clients, ProviderStarts(c) \/ ProviderStops(c) \/ ProviderRestarts(c)
      PROVE  CatalogInv'
  <2>1. PICK op \in {"start", "stop", "restart"}, state \in {"stopped", "running"} :
          ProviderRuns(c, op, state) /\ (op = "stop") = (state = "stopped")
    BY <1>5 DEF ProviderStarts, ProviderStops, ProviderRestarts
  <2> QED
    BY <2>1, ProviderRunsStep
<1>6. ASSUME NEW c \in Clients, ProviderDeletes(c) \/ ProviderRenames(c) \/ ProviderApplies(c)
      PROVE  CatalogInv'
  BY <1>6, ProviderDeletesStep, ProviderRenamesStep, ProviderAppliesStep
<1>7. ASSUME NEW c \in Clients, RecordCreated(c) \/ RecordClone(c) \/ RecordImport(c)
      PROVE  CatalogInv'
  <2>1. PICK op \in {"create", "clone", "import"}, state \in {"stopped", host[req[c].new].state} :
          /\ InsertRow(c, op, state)
          /\ state = host[req[c].new].state \/ (op # "import" /\ state = "stopped") \/ host[req[c].new] = None
    BY <1>7 DEF RecordCreated, RecordClone, RecordImport
  <2>2. req[c] # None /\ req[c] \in Requests /\ InFlight(req[c]) /\ req[c].op = op /\ req[c].pc = "row"
    BY <2>1 DEF InsertRow, At, CatalogInv, TypeOK
  <2>3. WhileMaking(req[c]) /\ req[c].new \in Names
    BY <2>1, <2>2 DEF InFlight, Making, Requests
  <2>4. state = host[req[c].new].state /\ state \in States
    BY <2>1, <2>2, <2>3 DEF WhileMaking, CatalogInv, TypeOK, Instances
  <2> QED
    BY <2>1, <2>4, InsertRowStep
<1>8. ASSUME NEW c \in Clients,
             ImportInfo(c) \/ Discard(c) \/ DeleteRules(c) \/ DeleteRow(c) \/ RenameRow(c) \/ RenameBack(c)
      PROVE  CatalogInv'
  BY <1>8, ImportInfoStep, DiscardStep, DeleteRulesStep, DeleteRowStep, RenameRowStep,
     RenameBackStep
<1>9. ASSUME NEW c \in Clients, RecordStart(c) \/ RecordStop(c) \/ RecordRestart(c)
      PROVE  CatalogInv'
  <2>1. PICK op \in {"start", "stop", "restart"}, state \in {"stopped", "running"} :
          WriteState(c, op, state) /\ state = IF op = "stop" THEN "stopped" ELSE "running"
    BY <1>9 DEF RecordStart, RecordStop, RecordRestart
  <2> QED
    BY <2>1, WriteStateStep
<1>10. ASSUME NEW c \in Clients,
              SyncSpec(c) \/ WriteSpec(c) \/ Expose(c) \/ ExposeAddress(c) \/ Unexpose(c)
       PROVE  CatalogInv'
  BY <1>10, SyncSpecStep, WriteSpecStep, ExposeStep, ExposeAddressStep, UnexposeStep
<1>11. ASSUME NEW n \in Names, GuestExits(n) PROVE CatalogInv'
  BY <1>11, GuestExitsStep
<1>12. ASSUME NEW skipped \in SUBSET Recorded, NEW silent \in SUBSET (Recorded \ skipped),
              Restart(skipped, silent)
       PROVE  CatalogInv'
  <2>1. skipped \in SUBSET Names /\ silent \in SUBSET Names
    BY DEF Recorded
  <2> QED
    BY <1>12, <2>1, RestartStep
<1>13. ASSUME NEW c \in Clients,
              MakesHalfway(c) \/ SwitchesHalfway(c) \/ DeletesHalfway(c) \/ RenamesHalfway(c)
              \/ AppliesHalfway(c)
       PROVE  CatalogInv'
  BY <1>13, MakesHalfwayStep, SwitchesHalfwayStep, DeletesHalfwayStep, RenamesHalfwayStep,
     AppliesHalfwayStep
<1> QED
  BY <1>1, <1>2, <1>3, <1>4, <1>5, <1>6, <1>7, <1>8, <1>9, <1>10, <1>11, <1>12, <1>13 DEF Next

LEMMA CatalogInvariance == Spec /\ []Apart => []CatalogInv
<1>1. CatalogInv /\ Apart /\ Apart' /\ [Next]_vars => CatalogInv'
  BY CatalogInvStep
<1> QED
  BY <1>1, CatalogInvInit, PTL DEF Spec

(* The handlers keep host, records, rules and requests well formed.         *)
THEOREM CatalogTypeCorrect == Spec /\ []Apart => []TypeOK
<1>1. CatalogInv => TypeOK
  BY DEF CatalogInv
<1> QED
  BY <1>1, CatalogInvariance, PTL

(* As long as no two requests are about one name at a time, no instance is  *)
(* left without a record by a handler whose writes fail, unless a failed    *)
(* call of the provider left it half made (an import whose start fails),    *)
(* the undo failed as well, an import could not describe it, or the daemon  *)
(* died before the record was written.                                      *)
THEOREM CatalogNoOrphans == Spec /\ []Apart => []NoOrphans
<1>1. CatalogInv => NoOrphans
  BY DEF CatalogInv, NoOrphans, Settled, Agree, Tells
<1> QED
  BY <1>1, CatalogInvariance, PTL

(* Under the same condition a record names the instance it was made for and *)
(* tells its state, or that it is unknown, and its resources.  A state is   *)
(* wrong at most from a failed call, a failed write, an exit of the guest   *)
(* or a synchronisation that skipped the record until the next start, stop  *)
(* or restart that succeeds, or a synchronisation that reaches the record.  *)
THEOREM CatalogRecordsTrue == Spec /\ []Apart => []RecordIsTrue
<1>1. CatalogInv => RecordIsTrue
  BY DEF CatalogInv, RecordIsTrue, Settled, Agree, Tells
<1> QED
  BY <1>1, CatalogInvariance, PTL

(* And a new instance inherits no port forwardings from an earlier one of   *)
(* its name.                                                                *)
THEOREM CatalogNoInheritedRules == Spec /\ []Apart => []NoInheritedRules
<1>1. CatalogInv => NoInheritedRules
  BY DEF CatalogInv, NoInheritedRules, Settled, RulesFitRecord
<1> QED
  BY <1>1, CatalogInvariance, PTL
=============================================================================
