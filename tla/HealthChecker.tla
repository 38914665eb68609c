---------------------------- MODULE HealthChecker ----------------------------
(***************************************************************************)
(* pkg/orchestration/health.go: registered health checks, one goroutine    *)
(* per check loop, and the ordered, bounded delivery of status changes to  *)
(* the listeners.                                                          *)
(*                                                                         *)
(* hc.mu guards the maps and is not held while a check command runs;       *)
(* notifyMu guards the queue and is not held while a callback runs.  The   *)
(* listener is StackManager.onHealthChange, which keeps the new status of  *)
(* a change and has no use for the old one.                                *)
(***************************************************************************)
EXTENDS Integers, Sequences, FiniteSets

CONSTANTS
    Insts,
    Retries,     \* consecutive failures that make an instance unhealthy
    MaxPending,  \* maxPendingNotifications
    MaxLoops     \* bound: loops ever started

ASSUME InstsExist == Insts # {} /\ "none" \notin Insts
ASSUME RetriesPositive == Retries \in Nat \ {0}
ASSUME MaxPendingPositive == MaxPending \in Nat \ {0}
ASSUME MaxLoopsNat == MaxLoops \in Nat

VARIABLES
    configs,    \* hc.configs: "none", or whether the config names a command
    results,    \* status in hc.results, "none" when there is no entry
    failCounts, \* consecutive failures, counted up to Retries
    stopChan,   \* hc.stopChans: a loop's channel, 0 when there is no entry
    started,    \* loops started so far
    lpc, linst, \* each loop's place and instance
    lconfig,    \* the config each loop was started with
    closes,     \* how often each loop's channel has been closed
    notifyQueue, notifyBusy,
    drain,      \* the drainer: "none", "take" or "deliver"
    hand,       \* the notification it delivers
    view        \* ghost: what the listener was last told

mapVars == <<configs, results, failCounts, stopChan>>
loopVars == <<started, lpc, linst, lconfig, closes>>
noteVars == <<notifyQueue, notifyBusy, drain, hand>>
vars == <<mapVars, loopVars, noteVars, view>>

Loops == 1..MaxLoops
Configs == {"none", "empty", "command"}
Registered == {i \in Insts : configs[i] # "none"}
Statuses == {"none", "starting", "unknown", "healthy", "unhealthy"}
Changes == [inst : Insts, to : Statuses]
NoChange == [inst |-> "none", to |-> "none"]

TypeOK ==
    /\ configs \in [Insts -> Configs]
    /\ results \in [Insts -> Statuses]
    /\ failCounts \in [Insts -> 0..Retries]
    /\ stopChan \in [Insts -> Loops \cup {0}]
    /\ started \in 0..MaxLoops
    /\ lpc \in [Loops -> {"unused", "delay", "init", "select", "exec", "exited"}]
    /\ linst \in [Loops -> Insts] /\ lconfig \in [Loops -> Configs]
    /\ closes \in [Loops -> 0..1]
    /\ notifyQueue \in Seq(Changes) /\ Len(notifyQueue) <= MaxPending
    /\ notifyBusy \in BOOLEAN
    /\ drain \in {"none", "take", "deliver"}
    /\ hand \in Changes \cup {NoChange}
    /\ view \in [Insts -> Statuses]

Init ==
    /\ configs = [i \in Insts |-> "none"]
    /\ results = [i \in Insts |-> "none"]
    /\ failCounts = [i \in Insts |-> 0]
    /\ stopChan = [i \in Insts |-> 0]
    /\ started = 0
    /\ lpc = [l \in Loops |-> "unused"]
    /\ linst = [l \in Loops |-> CHOOSE i \in Insts : TRUE]
    /\ lconfig = [l \in Loops |-> "none"]
    /\ closes = [l \in Loops |-> 0]
    /\ notifyQueue = <<>> /\ notifyBusy = FALSE
    /\ drain = "none" /\ hand = NoChange
    /\ view = [i \in Insts |-> "none"]

-----------------------------------------------------------------------------
Close(l) == closes' = IF l = 0 THEN closes ELSE [closes EXCEPT ![l] = @ + 1]

\* RegisterInstance: a running loop is stopped, the entry starts afresh.
RegisterInstance(i, c) ==
    /\ Close(stopChan[i])
    /\ stopChan' = [stopChan EXCEPT ![i] = 0]
    /\ configs' = [configs EXCEPT ![i] = c]
    /\ results' = [results EXCEPT ![i] = "starting"]
    /\ failCounts' = [failCounts EXCEPT ![i] = 0]
    /\ UNCHANGED <<started, lpc, linst, lconfig, noteVars, view>>

UnregisterInstance(i) ==
    /\ Close(stopChan[i])
    /\ stopChan' = [stopChan EXCEPT ![i] = 0]
    /\ configs' = [configs EXCEPT ![i] = "none"]
    /\ results' = [results EXCEPT ![i] = "none"]
    /\ failCounts' = [failCounts EXCEPT ![i] = 0]
    /\ UNCHANGED <<started, lpc, linst, lconfig, noteVars, view>>

\* Mutant of StartChecking: the loop it replaces is not told to stop.
MutStartLeaks(i) ==
    /\ i \in Registered /\ started < MaxLoops
    /\ started' = started + 1
    /\ stopChan' = [stopChan EXCEPT ![i] = started + 1]
    /\ lpc' = [lpc EXCEPT ![started + 1] = "delay"]
    /\ linst' = [linst EXCEPT ![started + 1] = i]
    /\ lconfig' = [lconfig EXCEPT ![started + 1] = configs[i]]
    /\ UNCHANGED <<configs, results, failCounts, closes, noteVars, view>>

\* StartChecking: a registered instance gets a loop of its own, in place of
\* the one it may have.
StartChecking(i) ==
    /\ i \in Registered /\ started < MaxLoops
    /\ Close(stopChan[i])
    /\ started' = started + 1
    /\ stopChan' = [stopChan EXCEPT ![i] = started + 1]
    /\ lpc' = [lpc EXCEPT ![started + 1] = "delay"]
    /\ linst' = [linst EXCEPT ![started + 1] = i]
    /\ lconfig' = [lconfig EXCEPT ![started + 1] = configs[i]]
    /\ UNCHANGED <<configs, results, failCounts, noteVars, view>>

StopChecking(i) ==
    /\ stopChan[i] # 0
    /\ Close(stopChan[i])
    /\ stopChan' = [stopChan EXCEPT ![i] = 0]
    /\ UNCHANGED <<configs, results, failCounts, started, lpc, linst, lconfig, noteVars, view>>

-----------------------------------------------------------------------------
\* Mutant of Enqueue: a full queue drops the change that is new.
MutEnqueue(q, change) == IF Len(q) >= MaxPending THEN q ELSE Append(q, change)

\* A full queue loses its oldest entry.
Enqueue(q, change) ==
    Append(IF Len(q) >= MaxPending THEN Tail(q) ELSE q, change)

\* notify, inside the caller's section of hc.mu: the change is queued and a
\* drainer started unless one is busy.
Notify(i, from, to) ==
    IF from = to THEN UNCHANGED noteVars
    ELSE /\ notifyQueue' = Enqueue(notifyQueue, [inst |-> i, to |-> to])
         /\ notifyBusy' = TRUE
         /\ drain' = IF notifyBusy THEN drain ELSE "take"
         /\ UNCHANGED hand

\* checkLoop: the start period is over ...
StartPeriod(l) ==
    /\ lpc[l] = "delay"
    /\ lpc' = [lpc EXCEPT ![l] = "init"]
    /\ UNCHANGED <<mapVars, started, linst, lconfig, closes, noteVars, view>>

\* ... updateStatus, whatever has become of the instance meanwhile ...
Begin(l) ==
    /\ lpc[l] = "init"
    /\ results' = [results EXCEPT ![linst[l]] = "unknown"]
    /\ Notify(linst[l], results[linst[l]], "unknown")
    /\ lpc' = [lpc EXCEPT ![l] = "select"]
    /\ UNCHANGED <<configs, failCounts, stopChan, started, linst, lconfig, closes, view>>

\* ... a tick: the command runs, outside the lock ...
Tick(l) ==
    /\ lpc[l] = "select" /\ lconfig[l] = "command"
    /\ lpc' = [lpc EXCEPT ![l] = "exec"]
    /\ UNCHANGED <<mapVars, started, linst, lconfig, closes, noteVars, view>>

\* ... or there is none to run, which is recorded as unknown ...
TickWithoutCommand(l) ==
    /\ lpc[l] = "select" /\ lconfig[l] = "empty"
    /\ results' = [results EXCEPT ![linst[l]] = "unknown"]
    /\ Notify(linst[l], results[linst[l]], "unknown")
    /\ UNCHANGED <<configs, failCounts, stopChan, loopVars, view>>

\* The status runCheck records after a failure.
AfterFailure(i) ==
    CASE failCounts[i] + 1 >= Retries -> "unhealthy"
      [] failCounts[i] + 1 < Retries /\ results[i] = "none" -> "unknown"
      [] OTHER -> results[i]

AtMost(n, max) == IF n > max THEN max ELSE n

\* ... and runCheck records what it answered ...
Record(l, passes) ==
    LET i == linst[l]
        new == IF passes THEN "healthy" ELSE AfterFailure(i)
    IN
    /\ lpc[l] = "exec"
    /\ failCounts' = [failCounts EXCEPT ![i] = IF passes THEN 0 ELSE AtMost(@ + 1, Retries)]
    /\ results' = [results EXCEPT ![i] = new]
    /\ Notify(i, results[i], new)
    /\ lpc' = [lpc EXCEPT ![l] = "select"]
    /\ UNCHANGED <<configs, stopChan, started, linst, lconfig, closes, view>>

\* ... until a select takes the closed channel.
Leave(l) ==
    /\ lpc[l] \in {"delay", "select"}
    /\ closes[l] > 0
    /\ lpc' = [lpc EXCEPT ![l] = "exited"]
    /\ UNCHANGED <<mapVars, started, linst, lconfig, closes, noteVars, view>>

-----------------------------------------------------------------------------
(* drainNotifications: the oldest change is taken, or the drainer ends ... *)
TakeChange ==
    /\ drain = "take" /\ notifyQueue # <<>>
    /\ hand' = Head(notifyQueue) /\ notifyQueue' = Tail(notifyQueue)
    /\ drain' = "deliver"
    /\ UNCHANGED <<mapVars, loopVars, notifyBusy, view>>

\* Mutant of EndDrain: the drainer is gone and still counts as busy.
MutEndDrain ==
    /\ drain = "take" /\ notifyQueue = <<>>
    /\ drain' = "none"
    /\ UNCHANGED <<mapVars, loopVars, notifyQueue, notifyBusy, hand, view>>

EndDrain ==
    /\ drain = "take" /\ notifyQueue = <<>>
    /\ drain' = "none" /\ notifyBusy' = FALSE
    /\ UNCHANGED <<mapVars, loopVars, notifyQueue, hand, view>>

\* ... and handed to the callbacks outside every lock.
Deliver ==
    /\ drain = "deliver"
    /\ view' = [view EXCEPT ![hand.inst] = hand.to]
    /\ hand' = NoChange /\ drain' = "take"
    /\ UNCHANGED <<mapVars, loopVars, notifyQueue, notifyBusy>>

-----------------------------------------------------------------------------
LoopStep(l) ==
    \/ StartPeriod(l) \/ Begin(l) \/ Tick(l) \/ TickWithoutCommand(l) \/ Leave(l)
    \/ \E passes \in BOOLEAN : Record(l, passes)

DrainStep == TakeChange \/ EndDrain \/ Deliver

Next ==
    \/ \E i \in Insts : \/ \E c \in {"empty", "command"} : RegisterInstance(i, c)
                        \/ UnregisterInstance(i)
                        \/ StartChecking(i) \/ StopChecking(i)
    \/ \E l \in Loops : LoopStep(l)
    \/ DrainStep

Spec == Init /\ [][Next]_vars

\* Goroutines run and commands have a timeout; a select with two ready cases
\* picks at random, so it does not pass over a closed channel forever.
FairSpec ==
    /\ Spec
    /\ \A l \in Loops : WF_vars(LoopStep(l)) /\ SF_vars(Leave(l))
    /\ WF_vars(DrainStep)

-----------------------------------------------------------------------------
(* A loop runs on exactly while its stop channel is in the map: one that is *)
(* replaced or removed has been told to stop, so none is leaked, and a      *)
(* channel in the map is open, so that none is closed twice.                *)
NoLoopLeaks ==
    \A l \in Loops :
        lpc[l] # "unused" => (closes[l] = 0 <=> stopChan[linst[l]] = l)

(* There is one drainer while a change is queued, and none is forgotten:    *)
(* notifyBusy is what keeps a second one from reordering deliveries.        *)
QueueIsDrained == (notifyQueue # <<>> => drain # "none") /\ (notifyBusy <=> drain # "none")

(* The inductive strengthening of the two: loops are used in the order they *)
(* are started, a channel in the map is that of a started loop of the       *)
(* instance it is filed under, and the drainer has a change while it        *)
(* delivers.                                                                *)
LoopsInOrder == \A l \in Loops : lpc[l] = "unused" <=> l > started

ChannelsAreOfLoops ==
    /\ \A i \in Insts : stopChan[i] # 0 => stopChan[i] <= started /\ linst[stopChan[i]] = i
    /\ \A l \in Loops : lpc[l] = "unused" => closes[l] = 0

DrainerHasChange == drain = "deliver" => hand # NoChange

HealthInv ==
    /\ TypeOK
    /\ LoopsInOrder
    /\ ChannelsAreOfLoops
    /\ DrainerHasChange
    /\ NoLoopLeaks
    /\ QueueIsDrained

(* When everything queued has been delivered, the listener has the status   *)
(* the checker has, however the changes raced: losing the newest would      *)
(* leave it believing a status the instance no longer has (the comment in   *)
(* notify).  A registration is not announced, only what follows it.         *)
ListenersCatchUp ==
    drain = "none" =>
        \A i \in Registered : results[i] \in {"starting", view[i]}

(* It holds as long as no change of another instance is dropped: with one   *)
(* instance, or while the queue has room.  Its inductive form follows the   *)
(* newest change of an instance from the queue through the drainer's hand   *)
(* to the listener.                                                         *)
NothingDropped == Len(notifyQueue) < MaxPending \/ \A i, k \in Insts : i = k

QueuedFor(i) == {k \in 1..Len(notifyQueue) : notifyQueue[k].inst = i}
InHand(i) == drain = "deliver" /\ hand.inst = i

NewestIs(i, s) ==
    \/ \E k \in QueuedFor(i) : notifyQueue[k].to = s /\ \A m \in QueuedFor(i) : m <= k
    \/ QueuedFor(i) = {} /\ InHand(i) /\ hand.to = s
    \/ QueuedFor(i) = {} /\ ~InHand(i) /\ view[i] = s

NewsIsTrue ==
    /\ \A i \in Insts : results[i] \in {"none", "starting"} \/ NewestIs(i, results[i])
    /\ \A i \in Registered : results[i] # "none"

(* A change of status reaches the listener, or a newer one does. *)
ChangesArrive ==
    \A i \in Insts : results[i] = "unhealthy" ~> (view[i] = "unhealthy" \/ results[i] # "unhealthy")

=============================================================================
