--------------------------- MODULE InstanceCatalog ---------------------------
(***************************************************************************)
(* The instance handlers of the API server (internal/api) between the      *)
(* providers, which own the instances, and the datastore, which owns their *)
(* records.  A handler is a sequence of calls, each of which may fail, and *)
(* nothing is held across them: requests of several clients interleave     *)
(* between any two calls, and the daemon may die there.                    *)
(*                                                                         *)
(* A provider identifies an instance by its name and so does the datastore *)
(* (handle.ID is the name for every provider here), so a name is all that  *)
(* ties a record to an instance.  gen tells apart the instances that have  *)
(* had a name; the code cannot see it.                                     *)
(***************************************************************************)
EXTENDS Naturals, FiniteSets

CONSTANTS Names, Clients,
          Operations,  \* the operations the clients ask for
          MaxGen,      \* how many instances are ever made
          MaxFaults,   \* how many calls of one request fail
          None

ASSUME CatalogAssumption ==
  /\ MaxGen \in Nat \ {0} /\ MaxFaults \in Nat
  /\ Operations \subseteq {"create", "clone", "import", "delete", "start", "restart",
                           "stop", "rename", "update", "expose", "unexpose"}
  /\ None \notin Names \cup Nat

VARIABLES host,     \* name -> the provider's instance [gen, state, spec], or None
          row,      \* name -> the record, the same fields, or None
          rules,    \* name -> the instance whose ports the firewall forwards, 0 for an
                    \* address that no instance vouches for, or None
          req,      \* client -> its request under way, or None
          gens,     \* how many instances have been made
          excused   \* <<name, why>>: what happened to a name that the code does not repair

vars == <<host, row, rules, req, gens, excused>>

Gens == 1 .. MaxGen
States == {"running", "stopped", "unknown"}
Instances == [gen : Gens, state : States, spec : 0..1]
Whys == {"orphan", "ghost", "state", "spec", "rules"}
Places == {"lookup", "name", "ask", "ghostRow", "ghostRules", "provider", "info", "row",
           "discard", "rollback", "rules", "state", "spec"}

Requests ==
  [op : Operations, name : Names, new : Names, pc : Places, seen : {0, 1, None},
   made : Gens \cup {None}, faults : 0 .. MaxFaults]

ASSUME NoneIsFresh == None \notin Instances \cup Requests

TypeOK ==
  /\ host \in [Names -> Instances \cup {None}]
  /\ row \in [Names -> Instances \cup {None}]
  /\ rules \in [Names -> Gens \cup {0, None}]
  /\ gens \in 0 .. MaxGen
  /\ excused \subseteq Names \X Whys
  /\ req \in [Clients -> Requests \cup {None}]

Init ==
  /\ host = [n \in Names |-> None]
  /\ row = [n \in Names |-> None]
  /\ rules = [n \in Names |-> None]
  /\ req = [c \in Clients |-> None]
  /\ gens = 0
  /\ excused = {}

-----------------------------------------------------------------------------
(* Requests. *)

About(c) == IF req[c] = None THEN {} ELSE {req[c].name, req[c].new}
Busy(n) == \E c \in Clients : n \in About(c)
At(c, pc, ops) == req[c] # None /\ req[c].pc = pc /\ req[c].op \in ops

Go(c, pc) == req' = [req EXCEPT ![c].pc = pc]
Return(c) == req' = [req EXCEPT ![c] = None]
\* The request goes on at pc although a call failed.
GoOn(c, pc) ==
  /\ req[c].faults < MaxFaults
  /\ req' = [req EXCEPT ![c].pc = pc, ![c].faults = @ + 1]
\* A call failed, and the handler answers with an error.
GiveUp(c) == req[c].faults < MaxFaults /\ Return(c)

Excuse(n, why) == excused' = excused \cup {<<n, why>>}
\* What a record says is set right, whatever happened before.
Amend(n, why) == excused' = excused \ {<<n, why>>}
Excuses(n, why) == <<n, why>> \in excused

FirstStep(op) ==
  CASE op = "create" -> "name" [] op \in {"import", "unexpose"} -> "provider" [] OTHER -> "lookup"

\* Once host, records and rules agree again, what happened is of no consequence any more,
\* unless a request about the name is under way.
Matters(n, why) ==
  CASE why = "orphan" -> host[n] # None /\ (row[n] = None \/ row[n].gen # host[n].gen)
    [] why = "ghost" -> row[n] # None /\ host[n] = None
    [] why = "state" -> row[n] # None /\ host[n] # None /\ row[n].state # host[n].state
    [] why = "spec" -> row[n] # None /\ host[n] # None /\ row[n].spec # host[n].spec
    [] why = "rules" -> rules[n] \notin {None, 0} /\ (row[n] = None \/ rules[n] # row[n].gen)

Begin(c, op, n, new) ==
  /\ req[c] = None
  /\ op \in {"create", "clone", "import"} => gens < MaxGen
  /\ (op \in {"clone", "rename"}) = (new # n)
  /\ req' = [req EXCEPT ![c] = [op |-> op, name |-> n, new |-> new, pc |-> FirstStep(op),
                                seen |-> None, made |-> None, faults |-> 0]]
  /\ excused' = {e \in excused : Busy(e[1]) \/ Matters(e[1], e[2])}
  /\ UNCHANGED <<host, row, rules, gens>>

\* lookupInstance: what the datastore cannot answer is answered "not found".
Lookup(c) ==
  /\ At(c, "lookup", Operations)
  /\ LET q == req[c] IN
     \/ row[q.name] = None /\ Return(c)
     \/ GiveUp(c)
     \/ /\ row[q.name] # None
        /\ req' = [req EXCEPT ![c].seen = IF q.op = "update" THEN row[q.name].spec ELSE None,
                              ![c].pc = IF q.op \in {"clone", "rename"} THEN "name" ELSE "provider"]
  /\ UNCHANGED <<host, row, rules, gens, excused>>

\* Is the new name recorded?  A clone and a rename are refused if it is, and if the
\* datastore cannot tell; a creation then goes on, and asks the provider about a record.
CheckNewName(c) ==
  /\ At(c, "name", {"clone", "rename"})
  /\ LET q == req[c] IN
     \/ row[q.new] # None /\ Return(c)
     \/ GiveUp(c)
     \/ row[q.new] = None /\ Go(c, "provider")
  /\ UNCHANGED <<host, row, rules, gens, excused>>
CheckName(c) ==
  /\ At(c, "name", {"create"})
  /\ LET q == req[c] IN
     \/ row[q.new] # None /\ Go(c, "ask")
     \/ row[q.new] = None /\ Go(c, "provider")
     \/ GoOn(c, "provider")
  /\ UNCHANGED <<host, row, rules, gens, excused>>

\* The creation asks the provider for the state of the recorded instance.  Every provider
\* answers with an error for an instance it does not have, and the request is refused.
AskRefuses(c) ==
  /\ At(c, "ask", {"create"})
  /\ Return(c)
  /\ UNCHANGED <<host, row, rules, gens, excused>>
\* Unknown without an error is what a provider answers for one it has and cannot tell
\* about (a container in a transient status): its record goes.
AskUnknown(c) ==
  /\ At(c, "ask", {"create"})
  /\ host[req[c].new] # None
  /\ Go(c, "ghostRow")
  /\ Excuse(req[c].new, "orphan")
  /\ UNCHANGED <<host, row, rules, gens>>
GhostRow(c) ==
  /\ At(c, "ghostRow", {"create"})
  /\ \/ row' = [row EXCEPT ![req[c].new] = None] /\ Go(c, "ghostRules")
     \/ row' = row /\ GoOn(c, "ghostRules")
  /\ UNCHANGED <<host, rules, gens, excused>>
GhostRules(c) ==
  /\ At(c, "ghostRules", {"create"})
  /\ \/ rules' = [rules EXCEPT ![req[c].new] = None] /\ Go(c, "provider") /\ UNCHANGED excused
     \/ UNCHANGED rules /\ GoOn(c, "provider") /\ Excuse(req[c].new, "rules")
  /\ UNCHANGED <<host, row, gens>>

-----------------------------------------------------------------------------
(* The providers' part: one call, which succeeds, fails without a trace or fails half way.
   What it is made of, and what is left of it then, is the subject of HostOperations. *)

Refused(q) ==
  CASE q.op \in {"create", "import"} -> host[q.new] # None
    [] q.op = "clone" -> host[q.name] = None \/ host[q.new] # None
    [] q.op = "rename" -> host[q.name] = None \/ host[q.new] # None \/ host[q.name].state = "running"
    [] q.op = "delete" -> FALSE
    [] q.op = "expose" -> row[q.name] = None
    [] q.op = "unexpose" -> rules[q.name] = None
    [] OTHER -> host[q.name] = None

ProviderFails(c) ==
  /\ At(c, "provider", Operations)
  /\ IF Refused(req[c]) THEN Return(c) ELSE GiveUp(c)
  /\ UNCHANGED <<host, row, rules, gens, excused>>

\* CreateInstance, CloneInstance, CloneFromSnapshot and ImportInstance, which may start it.
NewInstance(n, states) ==
  /\ gens < MaxGen
  /\ gens' = gens + 1
  /\ \E state \in states :
       host' = [host EXCEPT ![n] = [gen |-> gens + 1, state |-> state, spec |-> 0]]
ProviderMakes(c, op, states, next) ==
  /\ At(c, "provider", {op})
  /\ ~Refused(req[c])
  /\ NewInstance(req[c].new, states)
  /\ req' = [req EXCEPT ![c].pc = next, ![c].made = gens + 1]
  /\ UNCHANGED <<row, rules, excused>>
ProviderCreates(c) == ProviderMakes(c, "create", {"stopped"}, "row")
ProviderClones(c) == ProviderMakes(c, "clone", {"stopped"}, "row")
ProviderClonesSnapshot(c) == ProviderMakes(c, "clone", {"stopped"}, "row")
ProviderImports(c) == ProviderMakes(c, "import", {"stopped", "running"}, "info")

ProviderDeletesKeepingRules(c) ==
  /\ At(c, "provider", {"delete"})
  /\ host' = [host EXCEPT ![req[c].name] = None]
  /\ Go(c, "row")
  /\ UNCHANGED <<row, rules, gens, excused>>

ProviderDeletes(c) ==
  /\ At(c, "provider", {"delete"})
  /\ host' = [host EXCEPT ![req[c].name] = None]
  /\ Go(c, "rules")
  /\ UNCHANGED <<row, rules, gens, excused>>

ProviderRenames(c) ==
  /\ At(c, "provider", {"rename"})
  /\ ~Refused(req[c])
  /\ host' = [host EXCEPT ![req[c].new] = host[req[c].name], ![req[c].name] = None]
  /\ Go(c, "row")
  /\ UNCHANGED <<row, rules, gens, excused>>

ProviderRuns(c, op, state) ==
  /\ At(c, "provider", {op})
  /\ ~Refused(req[c])
  /\ host' = [host EXCEPT ![req[c].name].state = state]
  /\ Go(c, "state")
  /\ Amend(req[c].name, "state")
  /\ UNCHANGED <<row, rules, gens>>
ProviderStarts(c) == ProviderRuns(c, "start", "running")
ProviderStops(c) == ProviderRuns(c, "stop", "stopped")
ProviderRestarts(c) == ProviderRuns(c, "restart", "running")

\* Reconfigure applies the recorded spec with the request's changes.
ProviderApplies(c) ==
  /\ At(c, "provider", {"update"})
  /\ ~Refused(req[c])
  /\ host' = [host EXCEPT ![req[c].name].spec = 1 - req[c].seen]
  /\ Go(c, "spec")
  /\ Amend(req[c].name, "spec")
  /\ UNCHANGED <<row, rules, gens>>

\* The handler answers with an error, records nothing and undoes nothing.
FailsHalfway(c, ops) ==
  /\ At(c, "provider", ops)
  /\ ~Refused(req[c])
  /\ GiveUp(c)
  /\ UNCHANGED <<row, rules>>
\* The start after an import failed, or the undo of a creation did: the instance stays.
MakesHalfway(c) ==
  /\ FailsHalfway(c, {"create", "clone", "import"})
  /\ NewInstance(req[c].new, {"stopped"})
  /\ Excuse(req[c].new, "orphan")
\* A restart that stops and does not start, a stop that kills and then fails.
SwitchesHalfway(c) ==
  /\ FailsHalfway(c, {"start", "stop", "restart", "delete"})
  /\ host[req[c].name] # None
  /\ \E state \in {"running", "stopped"} : host' = [host EXCEPT ![req[c].name].state = state]
  /\ Excuse(req[c].name, "state")
  /\ UNCHANGED gens
DeletesHalfway(c) ==
  /\ FailsHalfway(c, {"delete"})
  /\ host' = [host EXCEPT ![req[c].name] = None]
  /\ Excuse(req[c].name, "ghost")
  /\ UNCHANGED gens
RenamesHalfway(c) ==
  /\ FailsHalfway(c, {"rename"})
  /\ host' = [host EXCEPT ![req[c].new] = host[req[c].name], ![req[c].name] = None]
  /\ excused' = excused \cup {<<req[c].new, "orphan">>, <<req[c].name, "ghost">>}
  /\ UNCHANGED gens
AppliesHalfway(c) ==
  /\ FailsHalfway(c, {"update"})
  /\ host' = [host EXCEPT ![req[c].name].spec = 1 - req[c].seen]
  /\ Excuse(req[c].name, "spec")
  /\ UNCHANGED gens

-----------------------------------------------------------------------------
(* What the handlers write down. *)

\* handleImport asks for the imported instance's description before it records it;
\* without an answer it returns and leaves the instance.
ImportInfo(c) ==
  /\ At(c, "info", {"import"})
  /\ \/ Go(c, "row") /\ UNCHANGED excused
     \/ GiveUp(c) /\ Excuse(req[c].new, "orphan")
  /\ UNCHANGED <<host, row, rules, gens>>

InsertRowWithoutDiscard(c, op, state) ==
  /\ At(c, "row", {op})
  /\ LET q == req[c] IN
     \/ /\ row[q.new] = None
        /\ row' = [row EXCEPT ![q.new] = [gen |-> q.made, spec |-> 0, state |-> state]]
        /\ Return(c)
     \/ GiveUp(c) /\ UNCHANGED row
  /\ UNCHANGED <<host, rules, gens, excused>>

\* A name is recorded once; what cannot be recorded is discarded.
InsertRow(c, op, state) ==
  /\ At(c, "row", {op})
  /\ LET q == req[c] IN
     \/ /\ row[q.new] = None
        /\ row' = [row EXCEPT ![q.new] = [gen |-> q.made, spec |-> 0, state |-> state]]
        /\ Return(c)
     \/ row[q.new] # None /\ Go(c, "discard") /\ UNCHANGED row
     \/ GoOn(c, "discard") /\ UNCHANGED row
  /\ UNCHANGED <<host, rules, gens, excused>>
\* A record is as the handler that makes it says: stopped, and for an import as the
\* provider said.
RecordCreated(c) == InsertRow(c, "create", "stopped")
RecordClone(c) == InsertRow(c, "clone", "stopped")
RecordImport(c) ==
  /\ req[c] # None
  /\ InsertRow(c, "import", IF host[req[c].new] = None THEN "stopped" ELSE host[req[c].new].state)

\* discardCreatedInstance: what could not be recorded is deleted, by its name.
Discard(c) ==
  /\ At(c, "discard", {"create", "clone", "import"})
  /\ \/ host' = [host EXCEPT ![req[c].new] = None] /\ Return(c) /\ UNCHANGED excused
     \/ host' = host /\ GiveUp(c) /\ Excuse(req[c].new, "orphan")
  /\ UNCHANGED <<row, rules, gens>>

\* The rules of a deleted instance go before its record does.
DeleteRules(c) ==
  /\ At(c, "rules", {"delete"})
  /\ \/ rules' = [rules EXCEPT ![req[c].name] = None] /\ Go(c, "row") /\ UNCHANGED excused
     \/ UNCHANGED rules /\ GoOn(c, "row") /\ Excuse(req[c].name, "rules")
  /\ UNCHANGED <<host, row, gens>>
DeleteRow(c) ==
  /\ At(c, "row", {"delete"})
  /\ \/ row' = [row EXCEPT ![req[c].name] = None] /\ Return(c) /\ UNCHANGED excused
     \/ UNCHANGED row /\ GiveUp(c) /\ Excuse(req[c].name, "ghost")
  /\ UNCHANGED <<host, rules, gens>>

\* The rename is recorded in one transaction, or undone at the provider.
\* The firewall keeps the rules under the old name.
RenameRow(c) ==
  /\ At(c, "row", {"rename"})
  /\ LET q == req[c] IN
     \/ /\ row[q.name] # None /\ row[q.new] = None
        /\ row' = [row EXCEPT ![q.new] = row[q.name], ![q.name] = None]
        /\ Return(c)
        /\ excused' = excused \cup {<<q.name, "rules">>}
             \cup {<<q.new, why>> : why \in {w \in Whys : Excuses(q.name, w)}}
     \/ /\ row[q.name] = None \/ row[q.new] # None
        /\ Go(c, "rollback")
        /\ UNCHANGED <<row, excused>>
     \/ GoOn(c, "rollback") /\ UNCHANGED <<row, excused>>
  /\ UNCHANGED <<host, rules, gens>>
RenameBack(c) ==
  /\ At(c, "rollback", {"rename"})
  /\ LET q == req[c] IN
     \/ /\ host[q.new] # None /\ host[q.name] = None
        /\ host' = [host EXCEPT ![q.name] = host[q.new], ![q.new] = None]
        /\ Return(c)
        /\ UNCHANGED excused
     \/ (host[q.new] = None \/ host[q.name] # None) /\ Return(c) /\ UNCHANGED <<host, excused>>
     \/ /\ GiveUp(c)
        /\ excused' = excused \cup {<<q.new, "orphan">>, <<q.name, "ghost">>}
        /\ UNCHANGED host
  /\ UNCHANGED <<row, rules, gens>>

\* The new state is recorded; a failure is logged.
WriteState(c, op, state) ==
  /\ At(c, "state", {op})
  /\ LET q == req[c]
         Proceed == IF op = "start" THEN Go(c, "spec") ELSE Return(c) IN
     \/ /\ row[q.name] # None
        /\ row' = [row EXCEPT ![q.name].state = state]
        /\ Proceed
        /\ UNCHANGED excused
     \/ row[q.name] = None /\ Proceed /\ UNCHANGED <<row, excused>>
     \/ /\ IF op = "start" THEN GoOn(c, "spec") ELSE GiveUp(c)
        /\ Excuse(q.name, "state")
        /\ UNCHANGED row
  /\ UNCHANGED <<host, rules, gens>>
RecordStart(c) == WriteState(c, "start", "running")
RecordStop(c) == WriteState(c, "stop", "stopped")
RestartUnrecorded(c) ==
  At(c, "state", {"restart"}) /\ Return(c) /\ UNCHANGED <<host, row, rules, gens, excused>>
RecordRestart(c) == WriteState(c, "restart", "running")

\* After a start the record also takes over what the provider reports, if it can be had
\* and written.
SyncSpec(c) ==
  /\ At(c, "spec", {"start"})
  /\ LET n == req[c].name IN
     \/ /\ row[n] # None /\ host[n] # None
        /\ row' = [row EXCEPT ![n].spec = host[n].spec]
        /\ Return(c)
        /\ Amend(n, "spec")
     \/ (row[n] = None \/ host[n] = None) /\ Return(c) /\ UNCHANGED <<row, excused>>
     \/ GiveUp(c) /\ UNCHANGED <<row, excused>>
  /\ UNCHANGED <<host, rules, gens>>
WriteSpec(c) ==
  /\ At(c, "spec", {"update"})
  /\ LET q == req[c] IN
     \/ /\ row[q.name] # None
        /\ row' = [row EXCEPT ![q.name].spec = 1 - q.seen]
        /\ Return(c)
        /\ UNCHANGED excused
     \/ row[q.name] = None /\ Return(c) /\ UNCHANGED <<row, excused>>
     \/ GiveUp(c) /\ Excuse(q.name, "spec") /\ UNCHANGED row
  /\ UNCHANGED <<host, rules, gens>>

\* handleExposePort for an address that the record of the instance gives.
Expose(c) ==
  /\ At(c, "provider", {"expose"})
  /\ ~Refused(req[c])
  /\ rules' = [rules EXCEPT ![req[c].name] = row[req[c].name].gen]
  /\ Return(c)
  /\ UNCHANGED <<host, row, gens, excused>>

\* An address the caller gives is forwarded to without a look at the instance.
ExposeAddress(c) ==
  /\ At(c, "lookup", {"expose"})
  /\ rules' = [rules EXCEPT ![req[c].name] = 0]
  /\ Return(c)
  /\ UNCHANGED <<host, row, gens, excused>>
\* handleUnexposePort looks for the rule, not for the instance.
Unexpose(c) ==
  /\ At(c, "provider", {"unexpose"})
  /\ ~Refused(req[c])
  /\ rules' = [rules EXCEPT ![req[c].name] = None]
  /\ Return(c)
  /\ UNCHANGED <<host, row, gens, excused>>

-----------------------------------------------------------------------------
(* What happens around the handlers. *)

GuestExits(n) ==
  /\ host[n] # None /\ host[n].state = "running"
  /\ host' = [host EXCEPT ![n].state = "stopped"]
  /\ Excuse(n, "state")
  /\ UNCHANGED <<row, rules, req, gens>>

\* GetInstanceState: an error is read as unknown.
Reported(n, answers) == IF host[n] # None /\ answers THEN host[n].state ELSE "unknown"

\* The places between a provider's call and the record of it.
Making(q) == q.pc \in {"info", "row", "discard"} /\ q.op \in {"create", "clone", "import"}
Moving(q) == q.pc \in {"row", "rollback"} /\ q.op = "rename"
Removing(q) == q.pc \in {"rules", "row"} /\ q.op = "delete"
Changing(q) == q.pc = "spec" /\ q.op = "update"

\* What the death of the daemon cuts off there.
CutOffOf(q) ==
  CASE q = None -> {}
    [] q # None /\ Making(q) -> {<<q.new, "orphan">>}
    [] q # None /\ Moving(q) -> {<<q.new, "orphan">>, <<q.name, "ghost">>}
    [] q # None /\ Removing(q) -> {<<q.name, "ghost">>}
    [] q # None /\ Changing(q) -> {<<q.name, "spec">>}
    [] OTHER -> {}
CutOff == UNION {CutOffOf(req[c]) : c \in Clients}

Recorded == {n \in Names : row[n] # None}

\* The daemon dies and starts again.  SyncInstanceStates corrects the records before the
\* listener opens.  It skips those it cannot list, whose provider is missing or that it
\* cannot write; what a provider cannot report (it is silent) is recorded as unknown.
Restart(skipped, silent) ==
  /\ req' = [c \in Clients |-> None]
  /\ row' = [n \in Names |->
               IF n \in Recorded \ skipped THEN [row[n] EXCEPT !.state = Reported(n, n \notin silent)]
               ELSE row[n]]
  /\ excused' = (excused \ ((Names \ skipped) \X {"state"})) \cup CutOff \cup (skipped \X {"state"})
  /\ UNCHANGED <<host, rules, gens>>

Next ==
  \/ \E c \in Clients, op \in Operations, n, new \in Names : Begin(c, op, n, new)
  \/ \E c \in Clients :
       \/ Lookup(c) \/ CheckName(c) \/ CheckNewName(c)
       \/ AskRefuses(c) \/ AskUnknown(c) \/ GhostRow(c) \/ GhostRules(c)
       \/ ProviderFails(c) \/ ProviderCreates(c) \/ ProviderClones(c) \/ ProviderClonesSnapshot(c)
       \/ ProviderImports(c)
       \/ ProviderStarts(c) \/ ProviderStops(c) \/ ProviderRestarts(c)
       \/ ProviderDeletes(c) \/ ProviderRenames(c) \/ ProviderApplies(c)
       \/ MakesHalfway(c) \/ SwitchesHalfway(c) \/ DeletesHalfway(c) \/ RenamesHalfway(c)
       \/ AppliesHalfway(c)
       \/ RecordCreated(c) \/ RecordClone(c) \/ ImportInfo(c) \/ RecordImport(c) \/ Discard(c)
       \/ DeleteRules(c) \/ DeleteRow(c) \/ RenameRow(c) \/ RenameBack(c)
       \/ RecordStart(c) \/ RecordStop(c) \/ RecordRestart(c) \/ SyncSpec(c) \/ WriteSpec(c)
       \/ Expose(c) \/ ExposeAddress(c) \/ Unexpose(c)
  \/ \E n \in Names : GuestExits(n)
  \/ \E skipped \in SUBSET Recorded : \E silent \in SUBSET (Recorded \ skipped) : Restart(skipped, silent)

Spec == Init /\ [][Next]_vars

-----------------------------------------------------------------------------
(* Properties. *)

\* An instance without a record is one no request reaches ("does not appear in a listing,
\* cannot be stopped, and holds its name").  Whatever call of a handler fails, none is left,
\* unless a provider's own call left it half done, the undo failed as well, the daemon died
\* between the two writes, an import could not describe it, or a provider could not tell
\* its state.
NoOrphans ==
  \A n \in Names : ~Busy(n) /\ host[n] # None /\ row[n] = None => Excuses(n, "orphan")

\* What a record says of an instance: its state, or that it is unknown, and its resources.
Tells(r, h, n) ==
  /\ r.state \in {h.state, "unknown"} \/ Excuses(n, "state")
  /\ r.spec = h.spec \/ Excuses(n, "spec")

\* A record without an instance is left only by a delete or a rename that failed half way,
\* could not remove it or was cut off.  Any other record names the instance it was made for
\* and tells its state and resources.  The state may be wrong only from a failed call, a
\* failed write or an exit of the guest until the next successful start, stop or restart,
\* or until a startup synchronisation reaches the record; the resources only until the
\* next successful update, or start that reads them back.
RecordIsTrue ==
  \A n \in Names : ~Busy(n) /\ row[n] # None =>
    IF host[n] = None THEN Excuses(n, "ghost")
    ELSE ~Excuses(n, "orphan") => row[n].gen = host[n].gen /\ Tells(row[n], host[n], n)

\* A new instance does not inherit the port forwardings of an earlier one of its name,
\* but for those to an address a caller gave and those a rename or a failed removal left.
NoInheritedRules ==
  \A n \in Names : ~Busy(n) /\ row[n] # None /\ rules[n] # None =>
    rules[n] \in {row[n].gen, 0} \/ Excuses(n, "rules")

-----------------------------------------------------------------------------
(* The inductive invariant behind the three, for requests that keep apart. *)

\* No two requests under way are about the same name.  No code sees to it, and section 4
\* of the README says what comes of it: the theorems speak of the times it is so.
Apart == \A c, d \in Clients : c # d => About(c) \cap About(d) = {}

\* What a provider has and what is recorded, at a name no handler is in the middle of.
Agree(n) ==
  /\ host[n] # None /\ row[n] = None => Excuses(n, "orphan")
  /\ row[n] # None /\ host[n] = None => Excuses(n, "ghost")
  /\ row[n] # None /\ host[n] # None =>
       IF row[n].gen = host[n].gen THEN Tells(row[n], host[n], n) ELSE Excuses(n, "orphan")

\* Rules at a name that has a record, and at one that has none: unless they are excused
\* an instance is there that keeps the name from being taken.
RulesFitRecord(n) ==
  row[n] # None /\ rules[n] # None => rules[n] \in {row[n].gen, 0} \/ Excuses(n, "rules")
NothingToInherit(n) == row[n] = None => rules[n] \in {None, 0} \/ Excuses(n, "rules")

Settled(n) ==
  /\ Agree(n)
  /\ RulesFitRecord(n)
  /\ NothingToInherit(n) \/ host[n] # None

Switching(q) == q.pc = "state" /\ q.op \in {"start", "stop", "restart"}

\* What holds at the names of a request at each of its places.
WhileMaking(q) ==
  /\ host[q.new] # None /\ host[q.new].gen = q.made /\ host[q.new].spec = 0
  /\ q.op # "import" => host[q.new].state = "stopped"
  /\ row[q.new] # None => row[q.new].gen # q.made /\ Excuses(q.new, "ghost")
  /\ RulesFitRecord(q.new) /\ NothingToInherit(q.new)
  /\ q.name # q.new => Settled(q.name)
WhileMoving(q) ==
  /\ host[q.name] = None /\ host[q.new] # None /\ host[q.new].state # "running"
  /\ row[q.name] # None /\ row[q.new] = None
  /\ IF row[q.name].gen = host[q.new].gen
     THEN Tells(row[q.name], host[q.new], q.name) ELSE Excuses(q.name, "orphan")
  /\ RulesFitRecord(q.name) /\ NothingToInherit(q.new)
WhileRemoving(q) ==
  /\ host[q.name] = None /\ row[q.name] # None
  /\ RulesFitRecord(q.name)
  /\ q.pc = "row" => rules[q.name] = None \/ Excuses(q.name, "rules")
WhileChanging(q) ==
  /\ host[q.name] # None /\ row[q.name] # None /\ q.seen # None
  /\ host[q.name].spec = 1 - q.seen
  /\ IF row[q.name].gen = host[q.name].gen
     THEN row[q.name].state \in {host[q.name].state, "unknown"} \/ Excuses(q.name, "state")
     ELSE Excuses(q.name, "orphan")
  /\ RulesFitRecord(q.name)
WhileSwitching(q) ==
  /\ host[q.name] # None /\ row[q.name] # None
  /\ IF row[q.name].gen = host[q.name].gen
     THEN /\ row[q.name].spec = host[q.name].spec \/ Excuses(q.name, "spec")
          /\ \/ host[q.name].state = IF q.op = "stop" THEN "stopped" ELSE "running"
             \/ Excuses(q.name, "state")
     ELSE Excuses(q.name, "orphan")
  /\ RulesFitRecord(q.name)
Elsewhere(q) ==
  /\ Settled(q.name) /\ Settled(q.new)
  /\ q.pc \in {"name", "provider"} /\ q.op \notin {"create", "import", "unexpose"} => row[q.name] # None
  /\ q.pc = "provider" /\ q.op \in {"clone", "rename"} => row[q.new] = None
  /\ q.pc = "provider" /\ q.op = "update" => q.seen = row[q.name].spec
  /\ q.pc \in {"ghostRow", "ghostRules"} => host[q.new] # None /\ Excuses(q.new, "orphan")

InFlight(q) ==
  /\ (q.op \in {"clone", "rename"}) = (q.new # q.name)
  /\ Making(q) => WhileMaking(q)
  /\ Moving(q) => WhileMoving(q)
  /\ Removing(q) => WhileRemoving(q)
  /\ Changing(q) => WhileChanging(q)
  /\ Switching(q) => WhileSwitching(q)
  /\ Making(q) \/ Moving(q) \/ Removing(q) \/ Changing(q) \/ Switching(q) \/ Elsewhere(q)

GensFit ==
  \A n \in Names : /\ host[n] # None => host[n].gen <= gens
                   /\ row[n] # None => row[n].gen <= gens

CatalogInv ==
  /\ TypeOK
  /\ GensFit
  /\ \A n \in Names : ~Busy(n) => Settled(n)
  /\ \A c \in Clients : req[c] # None => InFlight(req[c])
=============================================================================
