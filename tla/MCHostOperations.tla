-------------------------- MODULE MCHostOperations --------------------------
(* The systems whose operations HostOperations runs. *)
EXTENDS FiniteSets, ProcedureOutlines

Jail == INSTANCE JailProvider
JailSt == INSTANCE JailStorage
JailNet == INSTANCE JailNetwork
JailSv == INSTANCE JailServices
Bhyve == INSTANCE BhyveProvider
BhyveSt == INSTANCE BhyveStorage
Qemu == INSTANCE QemuProvider
Podman == INSTANCE PodmanProvider
Pf == INSTANCE PFBackend
Nft == INSTANCE NFTablesBackend
Ipt == INSTANCE IPTablesBackend

ProgramsOf ==
  [jail |-> Shortened(Jail!LifeOps),
   jailCopies |-> Shortened(JailSt!CopiesOps),
   jailRename |-> Shortened(JailSt!RenamingOps),
   jailTransfer |-> Shortened(JailSt!TransferOps),
   jailVolumes |-> Shortened(JailSt!VolumesOps),
   jailDisks |-> Shortened(JailSt!DisksOps),
   jailNics |-> Shortened(JailNet!InterfacesOps),
   jailInside |-> Shortened(JailSv!InsideOps),
   bhyve |-> Shortened(Bhyve!LifeOps), bhyvePower |-> Shortened(Bhyve!PowerOps),
   bhyveCopies |-> Shortened(BhyveSt!CopiesOps), bhyveRename |-> Shortened(BhyveSt!RenamingOps),
   bhyveTransfer |-> Shortened(BhyveSt!TransferOps), bhyveDisks |-> Shortened(BhyveSt!DisksOps),
   bhyveDevices |-> Shortened(BhyveSt!DevicesOps),
   qemu |-> Shortened(Qemu!LifeOps),
   qemuDevices |-> Shortened(Qemu!DevicesOps),
   qemuPorts |-> Shortened(Qemu!PortsOps),
   qemuCopies |-> Shortened(Qemu!CopiesOps),
   qemuRenaming |-> Shortened(Qemu!RenamingOps),
   podman |-> Shortened(Podman!LifeOps),
   podmanCopies |-> Shortened(Podman!CopiesOps),
   podmanTransfer |-> Shortened(Podman!TransferOps),
   fwPF |-> Shortened(Pf!PFOps),
   fwNFT |-> Shortened(Nft!NFTOps),
   fwIPT |-> Shortened(Ipt!IPTOps)]

SystemsOf ==
  [jail |-> Jail!Life, jailCopies |-> JailSt!Copies, jailRename |-> JailSt!Renaming,
   jailTransfer |-> JailSt!Transfer, jailVolumes |-> JailSt!Volumes, jailDisks |-> JailSt!Disks,
   jailNics |-> JailNet!Interfaces, jailInside |-> JailSv!Inside,
   bhyve |-> Bhyve!Life, bhyvePower |-> Bhyve!Power,
   bhyveCopies |-> BhyveSt!Copies, bhyveRename |-> BhyveSt!Renaming,
   bhyveTransfer |-> BhyveSt!Transfer, bhyveDisks |-> BhyveSt!Disks,
   bhyveDevices |-> BhyveSt!Devices,
   qemu |-> Qemu!Life,
   qemuDevices |-> Qemu!Devices,
   qemuPorts |-> Qemu!Ports,
   qemuCopies |-> Qemu!Copies,
   qemuRenaming |-> Qemu!Renaming,
   podman |-> Podman!Life,
   podmanCopies |-> Podman!Copies,
   podmanTransfer |-> Podman!Transfer,
   fwPF |-> Pf!PF,
   fwNFT |-> Nft!NFT,
   fwIPT |-> Ipt!IPT]

-----------------------------------------------------------------------------
(* The laws of the systems, and the outlines. *)

\* What implies what.
ImpliesOf ==
  [jail |-> {<<"jail", "config">>, <<"jail", "dataset">>},
   jailTransfer |-> {<<"jail", "config">>},
   bhyve |-> {"state", "said", "paused", "stale", "bhyve"} \X {"config"},
   bhyveCopies |-> {"state_c", "said_c", "stale_c"} \X {"config_c"},
   bhyvePower |-> {<<"paused", "said">>},
   bhyveTransfer |-> {<<"bhyve_c", "state_c">>, <<"stale_c", "config_c">>},
   qemuCopies |-> {<<"qemu", "pid">>},
   qemuRenaming |-> {<<"qemu", "config">>, <<"qemu", "pid">>},
   podman |-> {<<"ctr", "image">>, <<"paused", "ctr">>, <<"policy", "ctr">>, <<"run", "ctr">>},
   podmanCopies |-> {<<"run", "ctr">>},
   fwPF |-> {"saved", "savedNat"} \X {"file"},
   fwNFT |-> {<<"rdrL2", "rdrL">>, <<"saved", "file">>, <<"savedNat", "file">>},
   fwIPT |-> {<<"savedNat", "file">>}]
\* What is never made because the options it takes are not given.
Absent(s, o) ==
  CASE s \in {"jailTransfer", "jailInside"} -> {"fstab", "mounts", "recorded"}
    [] s = "bhyveTransfer" -> {"swtpm_c"}
    [] s = "bhyve" /\ "tpm" \notin o -> {"swtpm"}
    [] s = "bhyveCopies" -> {"nat_c", "nat6_c", "vlanif_c", "swtpm_c"}
    [] s = "qemu" -> {"hostfwd"}
    [] OTHER -> {}

Law(R, some) == [if |-> R, then |-> some]
LawsFor(X, ops, s, o) ==
  LET steps == UNION {Range(ops[op]) : op \in DOMAIN ops}
      Work(kinds) == UNION {t.r : t \in {u \in steps : u.op \in kinds}}
      start == UNION X.starts
      all == start \cup UNION {t.r \cup t.undo \cup t.redo : t \in steps}
      made == Work({"make", "ensure", "note"}) \cup UNION {t.redo : t \in steps}
      removed == Work({"drop", "clean", "forget"}) \cup UNION {t.undo : t \in steps}
      never == {r \in all : r \in Absent(s, o) \/ r \notin start \cup made}
      always == {r \in start \ (removed \cup X.guest \cup X.memory \cup X.volatile) :
                   \A h \in X.starts : r \in h}
  IN [all |-> all,
      laws |-> {Law({r}, {}) : r \in never} \cup {Law({}, {r}) : r \in always} \cup
               {Law({i[1]}, {i[2]}) : i \in Of(ImpliesOf, s)} \cup
               (IF s = "jailNics" THEN {Law({"jail", "nic2_recorded"}, {"nic2"})} ELSE {}),
      rest |-> IF s = "fwPF" THEN {Law({"proxy"}, {"rdr"})} ELSE {},
      cases |-> Of([jailNics |-> {"nic2"}, fwPF |-> {"proxy"}], s)]
LawsOf ==
  LET programs == ProgramsOf
      systems == SystemsOf
  IN [s \in DOMAIN systems |->
        [o \in systems[s].options |-> LawsFor(systems[s], programs[s], s, o)] @@ <<>>] @@ <<>>

\* A, which TLC computes here and once.
Listed(A) == LET B == {x \in A : TRUE} IN IF Cardinality(B) = 0 THEN {} ELSE B

\* Facts that agree on what later steps look at become one.
View(looked, f) ==
  <<f.faults, f.due, {<<v[1], "now" \in v[2]>> : v \in {w \in f.res : w[1] \in looked}}>>
Joined(looked, facts) ==
  LET seen == {<<View(looked, f), f>> : f \in facts}
  IN {Fact(Listed(UNION {s[2].res : s \in {t \in seen : t[1] = w}}), w[1], w[2]) :
        w \in {s[1] : s \in seen}}

\* The facts of each step, computed forward from the first: F are the facts so far.
Filled(X, L, p, o, k, F) ==
  LET asks == {i \in k .. Len(p) : p[i].op \in {"when", "unless", "make", "await"}}
      looked == L.cases \cup (UNION {p[i].r : i \in asks} \cap L.all)
      \* the guest may exit before the step is taken
      come == F[k] \cup {Sharp(L, Exited(L, f, X.guest)) :
                         f \in {g \in F[k] : \E r \in X.guest \cap L.all : MayBe(g, r)}}
      here == Joined(looked, {f \in come : Possible(L, f)})
      edges == UNION {Flow(L, p, o, k, f) : f \in here} \cup
               (IF p[k].lax = 0 THEN {} ELSE UNION {Fall(L, p, k, f) : f \in here})
      next == {<<e.at, Sharp(L, e.fact)>> : e \in edges}
  IN SubSeq(F, 1, k - 1) \o <<Listed(here)>> \o
     [i \in 1 .. Len(p) - k |->
        Listed(F[k + i] \cup {n[2] : n \in {m \in next : m[1] = k + i /\ Possible(L, m[2])}})]
OutlineFor(X, L, p, o, op) ==
  LET first == [k \in 1 .. Len(p) |-> IF k = 1 THEN {Sharp(L, f) : f \in Starts(X, L, op)} ELSE {}]
      Fill(k, F) == Filled(X, L, p, o, k, F)
      \* two steps at a time, which spares TLC's stack
      filled[k \in 0 .. Len(p)] ==
        CASE k = 0 -> first
          [] k = 1 -> Fill(1, first)
          [] OTHER -> LET F == filled[k - 2] IN IF F = <<>> THEN F ELSE Fill(k, Fill(k - 1, F))
  IN filled[Len(p)]
OutlineOf ==
  LET programs == ProgramsOf
      systems == SystemsOf
      laws == LawsOf
  IN [s \in DOMAIN systems |->
        [o \in systems[s].options |->
           [op \in DOMAIN programs[s] |->
              OutlineFor(systems[s], laws[s][o], programs[s][op], o, op)] @@ <<>>] @@ <<>>] @@ <<>>

\* TLC evaluates these once, and what a constant is replaced by every time.
MCPrograms == ProgramsOf
MCSystems == SystemsOf
MCLaws == LawsOf
MCOutline == OutlineOf

OutlinedSystems == {s \in DOMAIN Systems : Outlined(s)}

\* Every procedure of the system has an outline that holds: from every step, whether it
\* succeeds, is refused or fails, and whether the error is returned or only logged, and
\* with the guest exiting at any step, the facts lead to what the operation promises.
OutlineHolds == sys \in OutlinedSystems
=============================================================================
