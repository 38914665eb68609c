--------------------------- MODULE FirewallManager ---------------------------
(***************************************************************************)
(* The firewall manager (pkg/firewall/manager.go) for the rules of one     *)
(* instance, over a backend whose operations are parameters here.          *)
(*                                                                         *)
(* Resources: the manager is initialized (up); the instance's rule file    *)
(* (file) with its port mapping (saved) and its NAT rule (savedNat).  The  *)
(* backend's rules are in force (rdrL, natL, passL) until the host reboots.*)
(***************************************************************************)
EXTENDS Procedures

loadRuleSet(missing) == IfElse("file", Try("read, decode"), missing)
saveRuleSet(r) == Try("marshal") \o Ensure(r)
persistMapping == loadRuleSet(Nothing) \o saveRuleSet({"file", "saved"})
persistNATRule == loadRuleSet(Nothing) \o saveRuleSet({"file", "savedNat"})

\* The backend's rule first; it goes again when it cannot be recorded.
ExposePort(add, remove) ==
  Need("up") \o Try("valid mapping") \o Call(add) \o Rescued(persistMapping, Call(remove))
SetupNAT(add, remove) ==
  Need("up") \o Try("valid rule") \o Call(add) \o Rescued(persistNATRule, Call(remove))

UnexposePort(remove) ==
  Need("up") \o loadRuleSet(Fail) \o Need("saved") \o Call(remove) \o
  Try("marshal") \o Drop({"saved"})
RemoveNAT(remove) ==
  Need("up") \o loadRuleSet(Return) \o When("savedNat", Call(remove)) \o
  Try("marshal") \o Drop({"savedNat"})
RemoveAllRules(removeAll) ==
  Need("up") \o Call(removeAll) \o Drop({"file", "saved", "savedNat"})
ListExposedPortsReadOnly == Need("up") \o loadRuleSet(Return)
GetRuleSet == Need("up") \o loadRuleSet(Return)

\* What the rule files say is put in force again; an instance whose rules cannot be
\* applied is logged and skipped.
restoreRules(apply) == Try("read the directory") \o When("file", Logged(loadRuleSet(Nothing) \o Call(apply)))
Initialize(init, apply) ==
  Forget({"up"}) \o Try("mkdir") \o Call(init) \o restoreRules(apply) \o Note({"up"})

\* The same for every backend: what was there goes, the rules of the file come.
ApplyRules(removeAll, addNAT, addMapping) ==
  Call(removeAll) \o When("savedNat", Call(addNAT)) \o When("saved", Call(addMapping))

-----------------------------------------------------------------------------
(* The Linux backends add a rule a second time when they are asked twice: rdrL2 and natL2
   say that there are two of them (the model has no third), and removal takes one. *)
AddAgain(r, again) == Refuse(again) \o IfElse(r, Ensure({again}), Ensure({r}))
RemoveOne(r, again) == IfElse(again, Drop({again}), Drop({r}))

LinuxOps(init, addMapping, removeMapping, addNAT, removeNAT, removeAll, cleanup, query) ==
  [initialize |-> Initialize(init, ApplyRules(removeAll, addNAT, addMapping)),
   expose |-> ExposePort(addMapping, removeMapping), unexpose |-> UnexposePort(removeMapping),
   nat |-> SetupNAT(addNAT, removeNAT), unnat |-> RemoveNAT(removeNAT),
   removeAll |-> RemoveAllRules(removeAll), cleanup |-> cleanup,
   query |-> OneOf(<<query, ListExposedPortsReadOnly, GetRuleSet>>)]

Rules ==
  [options |-> {{}}, starts |-> {{}}, guest |-> {}, memory |-> {"up"},
   volatile |-> {"rdrL", "rdrL2", "natL", "natL2"}, shared |-> {}, record |-> {},
   gives |-> [initialize |-> {"up"}, expose |-> {"rdrL", "saved"}, nat |-> {"natL", "savedNat"}],
   takes |-> [unexpose |-> {"rdrL", "rdrL2", "saved"}, unnat |-> {"natL", "natL2", "savedNat"},
              removeAll |-> {"rdrL", "rdrL2", "natL", "natL2", "saved", "savedNat", "file"}],
   additive |-> {"expose", "nat"},
   certain |-> [initialize |-> {}, removeAll |-> {"up"}, unexpose |-> {"up", "saved"}, unnat |-> {"up"}],
   known |-> {}]
=============================================================================
