--------------------------- MODULE IPTablesBackend ---------------------------
(* The iptables backend (pkg/firewall/iptables.go): the rules are in the kernel only,
   each added and deleted by a command of its own, which fails if there is none. *)
EXTENDS FirewallManager

ensureJump == Logged(Try("iptables -C")) \o Try("iptables -A")
InitializeChains == Logged(Try("iptables -N")) \o ensureJump
AddPortMapping == Try("valid mapping") \o AddAgain("rdrL", "rdrL2")
RemovePortMapping == Need("rdrL") \o RemoveOne("rdrL", "rdrL2")
AddNATRule == Try("valid rule") \o AddAgain("natL", "natL2")
RemoveNATRule == Need("natL") \o RemoveOne("natL", "natL2")
\* From the last to the first, by their numbers.
removeInstanceRulesFromChain(r, again) == Try("iptables -L") \o Drop({again}) \o Drop({r})
RemoveAll ==
  removeInstanceRulesFromChain("rdrL", "rdrL2") \o removeInstanceRulesFromChain("natL", "natL2")
ListRules == Need("up") \o Try("iptables -L")
Cleanup == Logged(Drop({"rdrL", "rdrL2"})) \o Logged(Drop({"natL", "natL2"}))

IPTOps ==
  LinuxOps(InitializeChains, AddPortMapping, RemovePortMapping, AddNATRule, RemoveNATRule,
           RemoveAll, Cleanup, ListRules)
IPT ==
  [Rules EXCEPT !.known = {"unexpose"} \X {"rdrL", "stuck"} \cup {"unnat"} \X {"natL", "natL2", "stuck"}]
=============================================================================
