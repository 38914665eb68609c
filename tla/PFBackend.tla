------------------------------ MODULE PFBackend ------------------------------
(***************************************************************************)
(* The PF backend and the localhost proxies (pkg/firewall/pf.go,           *)
(* proxy.go).  The rules are text in three files (rdr, nat, and for the    *)
(* filter pass, passOut and extra, which the providers add), which every   *)
(* change loads into the kernel as a whole (rdrL, natL, passL, extraL).    *)
(* proxy is the listener for connections from the host itself.             *)
(***************************************************************************)
EXTENDS FirewallManager

Loaded(text, r) == IfElse(text, Note(r), Forget(r))
readRuleFile == Try("read a file that is there")
atomicWriteFile(r) == Try("create, write, chmod, sync, close") \o r
reloadRulesNoLock ==
  readRuleFile \o atomicWriteFile(Try("rename combined.rules")) \o
  Try("pfctl -f") \o
  Loaded("rdr", {"rdrL"}) \o Loaded("nat", {"natL"}) \o Loaded("passOut", {"passL"}) \o
  Loaded("extra", {"extraL"})

checkRuleText == Try("one line each")
\* A rule that is in the file is not added again.
appendRule(r) == Unless(r, checkRuleText \o Ensure({r}))
appendRules == Unless("rdr", checkRuleText \o Ensure({"rdr"}))
removeRule(r) == readRuleFile \o atomicWriteFile(Drop({r}))
removeInstanceRules(R) == readRuleFile \o atomicWriteFile(Drop(R))

\* A proxy for TCP, if the port can be had.
Start == Maybe(Ensure({"proxy"}))
Stop == Forget({"proxy"})
StopAll == Forget({"proxy"})
getDefaultInterface == Try("route get default, interface")
generateRdrRules == getDefaultInterface \o Try("valid interface")
generateNatRule == Try("valid interface")

\* The port may be taken by another rule.  The instance's own rule is not added again:
\* the call returns without loading the rules or starting the proxy.
hostPortInUse(own) == Logged(readRuleFile) \o When("rdr", own) \o Maybe(Fail)
AddPortMapping ==
  Try("valid mapping") \o hostPortInUse(Return) \o Logged(Start) \o
  OnError({"proxy"}, generateRdrRules \o appendRules \o reloadRulesNoLock)
RemovePortMapping == Stop \o removeRule("rdr") \o reloadRulesNoLock

AddNATRule ==
  Try("valid rule") \o generateNatRule \o appendRule("nat") \o
  OnError({"nat"}, appendRule("pass")) \o
  OnError({"nat", "pass"}, appendRule("passOut")) \o
  reloadRulesNoLock
RemoveNATRule ==
  removeRule("nat") \o Logged(removeRule("pass")) \o Logged(removeRule("passOut")) \o
  reloadRulesNoLock
AddFilterRule == Need("up") \o appendRule("extra") \o reloadRulesNoLock
AddRawNATRule == Need("up") \o appendRule("extra") \o reloadRulesNoLock

\* Only the proxies of rules in the file are found.
findInstancePortMappings(p) == Logged(readRuleFile) \o When("rdr", p)
RemoveAll ==
  findInstancePortMappings(Stop) \o
  removeInstanceRules({"nat"}) \o removeInstanceRules({"rdr"}) \o
  removeInstanceRules({"pass", "passOut", "extra"}) \o reloadRulesNoLock
ApplyRuleSet == ApplyRules(RemoveAll, AddNATRule, AddPortMapping)
ListRules == Need("up") \o readRuleFile

checkAnchorNoLock == Try("pfctl -s info, -sn, -sr: enabled, declared")
InitializeFiles ==
  Try("mkdir, create the files") \o Logged(checkAnchorNoLock) \o Logged(reloadRulesNoLock)
Cleanup == StopAll

-----------------------------------------------------------------------------
PFOps ==
  [initialize |-> Initialize(InitializeFiles, ApplyRuleSet),
   expose |-> ExposePort(AddPortMapping, RemovePortMapping),
   unexpose |-> UnexposePort(RemovePortMapping),
   nat |-> SetupNAT(AddNATRule, RemoveNATRule), unnat |-> RemoveNAT(RemoveNATRule),
   filter |-> Either(AddFilterRule, AddRawNATRule),
   removeAll |-> RemoveAllRules(RemoveAll), shutdown |-> Cleanup,
   query |-> OneOf(<<ListRules, ListExposedPortsReadOnly, GetRuleSet>>)]
PF ==
  [Rules EXCEPT
     !.memory = {"up", "proxy"}, !.volatile = {"rdrL", "natL", "passL", "extraL"},
     !.gives = [initialize |-> {"up"}, expose |-> {"rdr", "rdrL", "saved"},
                nat |-> {"nat", "natL", "pass", "passL", "savedNat"}, filter |-> {"extra", "extraL"}],
     !.takes = [unexpose |-> {"rdr", "rdrL", "saved", "proxy"},
                unnat |-> {"nat", "natL", "pass", "passOut", "savedNat"},
                removeAll |-> {"rdr", "rdrL", "nat", "natL", "pass", "passOut", "passL", "extra", "extraL",
                               "proxy", "saved", "savedNat", "file"}],
     !.additive = {"expose", "nat", "filter"},
     !.known =
       \* text that could not be loaded stays, and is taken for a rule that is in force
       {"filter"} \X {"extra"} \cup {"expose"} \X {"rdr", "rdrL"} \cup {"nat"} \X {"nat", "pass", "passOut"}
       \* a reload puts in force whatever text there is
         \cup {"expose", "nat", "filter"} \X {"rdrL", "natL", "passL", "extraL"}
       \* a repeated call that cannot be recorded takes down what the first one made
         \cup {"expose"} \X {"proxy"}
       \* rules that were not recorded are not found
         \cup {"unnat"} \X {"nat", "natL", "pass", "passOut"}]
=============================================================================
