--------------------------- MODULE NFTablesBackend ---------------------------
(* The nftables backend (pkg/firewall/nftables.go): the rules are in the kernel only,
   each added and deleted by a command of its own. *)
EXTENDS FirewallManager

AddPortMapping == Try("valid mapping") \o Try("IPv4") \o AddAgain("rdrL", "rdrL2")
AddNATRule == Try("valid rule") \o AddAgain("natL", "natL2")
removeRuleByComment(r, again) == Try("nft -a list chain") \o When(r, RemoveOne(r, again))
RemovePortMapping == removeRuleByComment("rdrL", "rdrL2")
RemoveNATRule == removeRuleByComment("natL", "natL2")
\* A chain that cannot be listed is taken to have no rules; of the others every rule is
\* tried before the errors are returned.
removeInstanceRulesFromChain(r, again) ==
  LET one == RemoveOne(r, again)
      delete == IfElse(again, Deferred(one, one), When(r, one))
  IN <<[Step("try", {}) EXCEPT !.lax = Len(delete) + 1]>> \o delete
RemoveAll ==
  removeInstanceRulesFromChain("rdrL", "rdrL2") \o removeInstanceRulesFromChain("natL", "natL2")
ListRules == Need("up") \o Try("nft list chain")
InitializeChains == Try("nft add table, add chain")
Cleanup == Logged(Drop({"rdrL", "rdrL2", "natL", "natL2"}))

NFTOps ==
  LinuxOps(InitializeChains, AddPortMapping, RemovePortMapping, AddNATRule, RemoveNATRule,
           RemoveAll, Cleanup, ListRules)
NFT == [Rules EXCEPT !.known = {"unexpose"} \X {"rdrL"} \cup {"unnat"} \X {"natL", "natL2"}]
=============================================================================
