---------------------------- MODULE JailServices ----------------------------
(***************************************************************************)
(* What is done inside a running jail (pkg/provider/jail): commands,       *)
(* consoles, tmux sessions, packages and rc services, and what is read     *)
(* from it.  Only InstallPackages starts a jail, and stops it again.       *)
(***************************************************************************)
EXTENDS JailProvider

Running == Try("valid name") \o Try("jls") \o Need("jail")

(* Commands and consoles. *)

shellQuote == Try("no control characters")
buildJexecArgs == Try("valid user, directory and arguments") \o shellQuote
applyExecEnv == Try("valid environment")
\* The exit code of the command is a result, not an error.
ExecCommand == Running \o Try("valid options") \o buildJexecArgs \o applyExecEnv \o Try("jexec, within the timeout")
ExecCommandStream == ExecCommand
ExecInteractive == Running \o Try("valid options") \o buildJexecArgs \o applyExecEnv \o Try("jexec")
ExecConsole == Try("valid name") \o ExecInteractive
GetConsole == Running \o Try("find jexec, pipes") \o Make({"console"})
GetConsoleInfo == Try("valid name") \o Try("jls")
\* It waits five seconds for the shell, then kills it.
CloseConsole == Forget({"console"})

(* tmux: sessions live in the jail. *)

validateTmuxSessionName == Try("valid session name")
TmuxHasSupport == Running \o ExecCommand
TmuxInstall == Running \o ExecCommand \o Ensure({"tmux"})
TmuxListSessions == Running \o ExecCommand
TmuxNewSession == Running \o validateTmuxSessionName \o ExecCommand \o Need("tmux") \o Make({"session"})
\* Somebody else may have created the session in between: that is fine.
CreateUnlessThere == Unless("session", TmuxNewSession)
TmuxAttachSession ==
  Running \o validateTmuxSessionName \o TmuxListSessions \o CreateUnlessThere \o Try("jexec tmux attach")
TmuxKillSession ==
  Running \o validateTmuxSessionName \o ExecCommand \o Need("session") \o Drop({"session"})
TmuxSendKeys == Running \o validateTmuxSessionName \o ExecCommand \o Need("session")
TmuxCapturePane == TmuxSendKeys
TmuxGetOrCreateSession ==
  Try("valid name") \o validateTmuxSessionName \o TmuxHasSupport \o Need("tmux") \o
  TmuxListSessions \o CreateUnlessThere
TmuxExecInSession == Try("valid name") \o TmuxGetOrCreateSession \o TmuxSendKeys
TmuxExecCommandStream == TmuxExecInSession \o Logged(TmuxCapturePane)
GetTmuxInfo == Try("valid name") \o Try("jls") \o
  When("jail", TmuxHasSupport \o When("tmux", Logged(TmuxListSessions)))

(* Packages. *)

bootstrapPkg == Try("pkg bootstrap")
installPackage == Try("pkg install")
\* A jail that had to be started is stopped again, whatever the installation did.
InstallPackages ==
  Try("valid names") \o GetInstanceState \o
  IfElse("jail", bootstrapPkg \o installPackage \o Ensure({"packages"}),
    Call(StartInstance) \o
    Deferred(bootstrapPkg \o installPackage \o Ensure({"packages"}), Logged(Call(StopInstance))))
ListPackages == Try("valid name") \o GetInstanceState \o Need("jail") \o Try("pkg query")
RemovePackage == Try("valid names") \o GetInstanceState \o Need("jail") \o Drop({"packages"})

(* rc services. *)

ensureJailRunning == Try("jls") \o Need("jail")
serviceAction == Try("valid service") \o ensureJailRunning \o Try("service")
EnableService == Try("valid service") \o ensureJailRunning \o Ensure({"enabled"})
DisableService == Try("valid service") \o ensureJailRunning \o Drop({"enabled"})
StartService == serviceAction \o Ensure({"service"})
StopService == serviceAction \o Drop({"service"})
GetServiceStatus == Try("valid service") \o ensureJailRunning \o Logged(Try("service status"))
ListServices == ensureJailRunning \o Logged(Try("ls rc.d"))
SetServiceConfig == Try("valid variable") \o ensureJailRunning \o Try("sysrc")
GetServiceConfig == Try("valid variable") \o ensureJailRunning \o Try("sysrc -n")
\* The first failure ends it: a service may be left enabled and not started, or
\* stopped and enabled.
EnableAndStartService == EnableService \o StartService
StopAndDisableService == Try("valid names") \o When("service", StopService) \o DisableService

(* What is read from a jail. *)

collectRCTLMetrics == Try("sysctl") \o Try("rctl -u")
collectProcessMetrics == Try("jexec ps")
collectStorageMetrics == Logged(Try("zfs get"))
collectNetworkMetrics == Logged(Try("jexec netstat"))
getJailUptime == Logged(Try("jls created"))
GetJailMetrics ==
  Try("jls") \o
  IfElse("jail", Logged(collectRCTLMetrics) \o Logged(collectProcessMetrics) \o
                 collectStorageMetrics \o collectNetworkMetrics \o getJailUptime,
         collectStorageMetrics)
ListInstances == Try("read the state directory") \o Logged(loadJailConfig)
GetAllMetrics == ListInstances \o Logged(GetJailMetrics)
GetInstanceMetrics == GetInstanceState \o When("jail", Logged(Try("rctl -u, zfs, netstat")))
CheckInstanceHealth ==
  GetInstanceState \o When("jail", Logged(Try("network, processes, disk and memory")))

InsideOps ==
  [console |-> GetConsole, hangup |-> CloseConsole,
   exec |-> OneOf(<<ExecCommand, ExecCommandStream, ExecInteractive, ExecConsole>>),
   tmux |-> OneOf(<<TmuxInstall, TmuxAttachSession, TmuxExecInSession, TmuxExecCommandStream>>),
   kill |-> TmuxKillSession,
   install |-> InstallPackages, uninstall |-> RemovePackage,
   enable |-> EnableAndStartService, disable |-> StopAndDisableService,
   query |-> OneOf(<<GetConsoleInfo, GetTmuxInfo, ListPackages, GetServiceStatus, ListServices,
                     SetServiceConfig, GetServiceConfig, GetAllMetrics, GetInstanceMetrics,
                     CheckInstanceHealth>>),
   stop |-> StopInstance, hook |-> CreateHookScript, unhook |-> DeleteHookScript,
   reconfigure |-> OneOf(<<Reconfigure, DownloadBaseSystem>>),
   limit |-> OneOf(<<RemoveResourceLimits, GetResourceLimits>>)]
Inside ==
  [options |-> {{}},
   starts |-> {{"dataset", "config", "jail"}},
   guest |-> {"jail", "console", "session", "service"}, memory |-> {"console"},
   volatile |-> {"jail", "console", "session", "service"}, shared |-> {},
   record |-> {"config"},
   gives |-> [console |-> {"console"}, install |-> {"packages"},
              enable |-> {"enabled", "service"}],
   takes |-> [kill |-> {"session"}, hangup |-> {"console"}, uninstall |-> {"packages"}, disable |-> {"enabled", "service"}],
   additive |-> {"console", "exec", "enable", "install", "query"},
   certain |-> [stop |-> {}],
   known |-> {<<"enable", "enabled">>, <<"install", "limits">>}]
=============================================================================
