----------------------------- MODULE JailNetwork -----------------------------
(***************************************************************************)
(* Interfaces that are given to a running jail (vnet.go, multinic.go): the *)
(* epair of EnableVNET (vnet) and that of AddNetworkInterface (nic), each  *)
(* with its entry in the jail's file.  At most one of each kind: a bound.  *)
(***************************************************************************)
EXTENDS JailProvider

jailHasVNET == Try("jls vnet") \o Need("networks")
recordVnetEpair == loadJailConfig \o saveJailConfig({"vnet_recorded"})
EnableVNET ==
  Try("valid addresses") \o refuseAddressInUse \o GetInstanceState \o Need("jail") \o
  Make({"vnet"}) \o
  OnError({"vnet"},
    Maybe(Try("addm")) \o Try("up") \o Try("vnet") \o Maybe(Try("inet") \o Try("up")) \o
    Maybe(Try("inet6")) \o Maybe(Try("route add default"))) \o
  Logged(recordVnetEpair)
\* A jail whose interfaces cannot be listed has none, and the file forgets the epairs
\* even when one of them could not be destroyed.
DisableVNET ==
  Try("valid name") \o Unless("jail", Return) \o Maybe(Return) \o
  Deferred(Drop({"vnet"}),
    When("config", When("vnet_recorded", Clean({"vnet"})) \o Logged(Drop({"vnet_recorded"}))))
GetVNETStatus == Try("valid name") \o Need("jail") \o Try("jls") \o Logged(Try("ifconfig"))

validateNetworkInterface == Try("valid bridge, name, MAC, VLAN, MTU, addresses and routes")
startDHCPClient == Logged(Try("jexec dhclient"))
recordNetworkInterface == loadJailConfig \o saveJailConfig({"nic_recorded"})
forgetNetworkInterface == loadJailConfig \o Drop({"nic_recorded"})

AttachInterface ==
  Logged(Try("MAC, MTU")) \o Maybe(EnsureBridge \o attachInterfaceToBridge) \o
  Try("up") \o Try("vnet") \o Logged(Try("name")) \o Either(Try("inet"), startDHCPClient)
ConfigureInterface ==
  Logged(Try("inet6")) \o Logged(Try("up")) \o Logged(Try("routes")) \o Logged(Try("gateways")) \o
  Logged(Try("description"))
AddNetworkInterface ==
  Try("valid name") \o GetInstanceState \o Need("jail") \o jailHasVNET \o
  validateNetworkInterface \o Maybe(refuseAddressInUse) \o Make({"nic"}) \o
  OnError({"nic"}, AttachInterface) \o ConfigureInterface \o Logged(recordNetworkInterface)
\* An interface that was given a name of its own is moved out, its epair stays.
RemoveNetworkInterface ==
  Try("valid names") \o GetInstanceState \o When("jail", Logged(Try("-vnet"))) \o
  Maybe(Logged(forgetNetworkInterface) \o Return) \o
  Drop({"nic"}) \o Logged(forgetNetworkInterface)
\* Only the last step takes back what the others added.
ConfigureMultiNIC ==
  Try("valid hostname") \o AddNetworkInterface \o
  For([nic |-> "nic2", nic_recorded |-> "nic2_recorded"], AddNetworkInterface) \o
  OnError({"nic", "nic_recorded", "nic2", "nic2_recorded"}, Maybe(Try("hostname")))
ListNetworkInterfaces ==
  Try("valid name") \o GetInstanceState \o Need("jail") \o Try("ifconfig -l") \o
  Logged(Try("ifconfig")) \o Logged(loadJailConfig)
GetDefaultRoute == Try("valid name") \o Logged(Try("route get default"))
\* The old route goes first and nothing brings it back.
SetDefaultRoute ==
  Try("valid name, gateway of the family") \o Need("jail") \o Clean({"route"}) \o Ensure({"route"})

InterfacesOps ==
  [enable |-> EnableVNET, disable |-> DisableVNET, add |-> AddNetworkInterface,
   remove |-> RemoveNetworkInterface, several |-> ConfigureMultiNIC,
   route |-> SetDefaultRoute, stop |-> StopInstance,
   query |-> OneOf(<<GetVNETStatus, ListNetworkInterfaces, GetDefaultRoute>>)]
Interfaces ==
  [options |-> SUBSET {"networks"},
   starts |-> {{"dataset", "config", "jail"}},
   guest |-> {"jail"}, memory |-> {},
   volatile |-> {"jail", "bridge", "vnet", "nic", "nic2", "route"},
   shared |-> {"bridge"}, record |-> {"config"},
   gives |-> [enable |-> {"vnet"}, add |-> {"nic"}, several |-> {"nic", "nic2"},
              route |-> {"route"}],
   takes |-> [disable |-> {"vnet", "vnet_recorded"}, remove |-> {"nic", "nic_recorded"}],
   additive |-> {"enable", "add", "several", "route", "query"},
   certain |-> [disable |-> {}, stop |-> {}],
   known |-> {<<"disable", "vnet">>, <<"disable", "vnet_recorded">>, <<"remove", "nic">>,
              <<"route", "route">>, <<"several", "nic">>, <<"several", "nic_recorded">>}]
=============================================================================
