------------------------- MODULE HealthCheckerProofs -------------------------
(***************************************************************************)
(* Proofs about HealthChecker for any set of instances, any number of      *)
(* loops, any retry count and any queue limit.                             *)
(***************************************************************************)
EXTENDS HealthChecker, TLAPS

(* A full queue makes room before the change is appended. *)
LEMMA EnqueueFacts ==
    ASSUME NEW q \in Seq(Changes), Len(q) <= MaxPending, NEW x \in Changes
    PROVE  /\ Enqueue(q, x) \in Seq(Changes)
           /\ Len(Enqueue(q, x)) <= MaxPending
           /\ Enqueue(q, x) # <<>>
<1>1. CASE Len(q) >= MaxPending
  <2>1. q # <<>> /\ Len(q) \in Nat
    BY <1>1, MaxPendingPositive
  <2>2. Tail(q) \in Seq(Changes) /\ Len(Tail(q)) = Len(q) - 1
    BY <2>1
  <2> QED
    BY <1>1, <2>1, <2>2, MaxPendingPositive DEF Enqueue
<1>2. CASE ~(Len(q) >= MaxPending)
  <2>1. Enqueue(q, x) = Append(q, x)
    BY <1>2 DEF Enqueue
  <2> QED
    BY <1>2, <2>1, MaxPendingPositive
<1> QED
  BY <1>1, <1>2

(* notify keeps the queue's types, leaves a drainer wherever there is a     *)
(* change, and starts no second one.                                        *)
LEMMA NotifyFacts ==
    ASSUME TypeOK, QueueIsDrained, DrainerHasChange,
           NEW i \in Insts, NEW from \in Statuses, NEW to \in Statuses,
           Notify(i, from, to)
    PROVE  /\ notifyQueue' \in Seq(Changes) /\ Len(notifyQueue') <= MaxPending
           /\ notifyBusy' \in BOOLEAN
           /\ drain' \in {"none", "take", "deliver"}
           /\ hand' \in Changes \cup {NoChange}
           /\ QueueIsDrained' /\ DrainerHasChange'
<1>1. CASE from = to
  BY <1>1 DEF Notify, TypeOK, noteVars, QueueIsDrained, DrainerHasChange
<1>2. CASE from # to
  <2> DEFINE x == [inst |-> i, to |-> to]
  <2>1. x \in Changes
    BY DEF Changes
  <2>2. notifyQueue \in Seq(Changes) /\ Len(notifyQueue) <= MaxPending
    BY DEF TypeOK
  <2>3. /\ notifyQueue' = Enqueue(notifyQueue, x) /\ notifyBusy' = TRUE
        /\ drain' = IF notifyBusy THEN drain ELSE "take"
        /\ hand' = hand
    BY <1>2 DEF Notify
  <2>4. notifyQueue' \in Seq(Changes) /\ Len(notifyQueue') <= MaxPending
    BY <2>1, <2>2, <2>3, EnqueueFacts
  <2> HIDE DEF x
  <2>5. drain' \in {"take", "deliver"} /\ (drain' = "deliver" => drain = "deliver")
    BY <2>3 DEF TypeOK, QueueIsDrained
  <2>6. QueueIsDrained' /\ DrainerHasChange'
    BY <2>3, <2>5 DEF QueueIsDrained, DrainerHasChange
  <2> QED
    BY <2>3, <2>4, <2>5, <2>6 DEF TypeOK
<1> QED
  BY <1>1, <1>2

(* Closing the channel the map has closes an open one: NoLoopLeaks is what  *)
(* keeps the second close, which would panic, from happening.               *)
LEMMA CloseFacts ==
    ASSUME HealthInv, NEW i \in Insts, Close(stopChan[i])
    PROVE  /\ closes' \in [Loops -> 0..1]
           /\ stopChan[i] \in Loops => lpc[stopChan[i]] # "unused"
           /\ \A l \in Loops :
                 closes'[l] = IF l = stopChan[i] THEN 1 ELSE closes[l]
<1> USE DEF HealthInv, TypeOK
<1>1. stopChan[i] \in Loops \cup {0} /\ 0 \notin Loops /\ started \in Nat /\ Loops \subseteq Nat
  BY MaxLoopsNat DEF Loops
<1>2. CASE stopChan[i] = 0
  BY <1>1, <1>2 DEF Close
<1>3. CASE stopChan[i] \in Loops
  <2>1. stopChan[i] <= started /\ linst[stopChan[i]] = i
    BY <1>1, <1>3 DEF ChannelsAreOfLoops
  <2>2. lpc[stopChan[i]] # "unused"
    <3>0. stopChan[i] \in Nat
      BY <1>1, <1>3
    <3>1. ~(stopChan[i] > started)
      BY <1>1, <2>1, <3>0
    <3>2. lpc[stopChan[i]] = "unused" <=> stopChan[i] > started
      BY <1>3 DEF LoopsInOrder
    <3> QED
      BY <3>1, <3>2
  <2>3. closes[stopChan[i]] = 0
    BY <1>3, <2>1, <2>2 DEF NoLoopLeaks
  <2> QED
    BY <1>1, <1>3, <2>2, <2>3 DEF Close
<1> QED
  BY <1>1, <1>2, <1>3

(* The checker starts without instances, loops or changes. *)
LEMMA InitHealthInv == Init => HealthInv
<1> SUFFICES ASSUME Init PROVE HealthInv
  OBVIOUS
<1>1. (CHOOSE i \in Insts : TRUE) \in Insts
  BY InstsExist
<1>2. 0 \in 0..Retries /\ 0 \in 0..MaxLoops /\ \A l \in Loops : l > 0
  BY RetriesPositive, MaxLoopsNat DEF Loops
<1>3. notifyQueue \in Seq(Changes) /\ Len(notifyQueue) <= MaxPending
  BY MaxPendingPositive DEF Init
<1>4. TypeOK
  <2>1. configs \in [Insts -> Configs] /\ lconfig \in [Loops -> Configs]
    BY DEF Init, Configs
  <2>2. results \in [Insts -> Statuses] /\ view \in [Insts -> Statuses]
    BY DEF Init, Statuses
  <2>3. failCounts \in [Insts -> 0..Retries] /\ closes \in [Loops -> 0..1]
    BY <1>2 DEF Init
  <2>4. stopChan \in [Insts -> Loops \cup {0}] /\ started \in 0..MaxLoops
    BY <1>2 DEF Init
  <2>5. linst \in [Loops -> Insts]
    BY <1>1 DEF Init
  <2>6. lpc \in [Loops -> {"unused", "delay", "init", "select", "exec", "exited"}]
    BY DEF Init
  <2>7. notifyBusy \in BOOLEAN /\ drain \in {"none", "take", "deliver"}
    BY DEF Init
  <2>8. hand \in Changes \cup {NoChange}
    BY DEF Init
  <2> QED
    BY <1>3, <2>1, <2>2, <2>3, <2>4, <2>5, <2>6, <2>7, <2>8 DEF TypeOK
<1>5. LoopsInOrder /\ ChannelsAreOfLoops /\ NoLoopLeaks
  BY <1>2 DEF Init, LoopsInOrder, ChannelsAreOfLoops, NoLoopLeaks
<1>6. QueueIsDrained /\ DrainerHasChange
  BY DEF Init, QueueIsDrained, DrainerHasChange
<1> QED
  BY <1>4, <1>5, <1>6 DEF HealthInv

(* A step of a loop leaves the map of channels and the closes alone and     *)
(* keeps started loops started: the loop invariants carry over.             *)
LEMMA LoopFrame ==
    ASSUME HealthInv, NEW l \in Loops, NEW pc, pc # "unused", lpc[l] # "unused",
           lpc' = [lpc EXCEPT ![l] = pc],
           UNCHANGED <<stopChan, started, linst, closes>>
    PROVE  LoopsInOrder' /\ ChannelsAreOfLoops' /\ NoLoopLeaks'
  BY DEF HealthInv, TypeOK, LoopsInOrder, ChannelsAreOfLoops, NoLoopLeaks

(* RegisterInstance, UnregisterInstance and StopChecking close the channel  *)
(* of the instance and remove it from the map.                              *)
LEMMA StopFrame ==
    ASSUME HealthInv, NEW i \in Insts, Close(stopChan[i]),
           stopChan' = [stopChan EXCEPT ![i] = 0],
           UNCHANGED <<started, lpc, linst>>
    PROVE  LoopsInOrder' /\ ChannelsAreOfLoops' /\ NoLoopLeaks'
<1> USE DEF HealthInv, TypeOK
<1>1. /\ closes' \in [Loops -> 0..1]
      /\ stopChan[i] \in Loops => lpc[stopChan[i]] # "unused"
      /\ \A l \in Loops : closes'[l] = IF l = stopChan[i] THEN 1 ELSE closes[l]
  BY CloseFacts
<1>2. 0 \notin Loops
  BY MaxLoopsNat DEF Loops
<1>3. LoopsInOrder' /\ ChannelsAreOfLoops'
  BY <1>1 DEF LoopsInOrder, ChannelsAreOfLoops
<1>4. NoLoopLeaks'
  BY <1>1, <1>2 DEF NoLoopLeaks, ChannelsAreOfLoops
<1> QED
  BY <1>3, <1>4

(* Every step preserves the invariant. *)
LEMMA HealthInvStep == HealthInv /\ [Next]_vars => HealthInv'
<1> SUFFICES ASSUME HealthInv, [Next]_vars PROVE HealthInv'
  OBVIOUS
<1> USE DEF HealthInv
<1>a. 0 \in 0..Retries /\ Retries \in Nat
  BY RetriesPositive
<1>0. CASE UNCHANGED vars
  BY <1>0 DEF vars, mapVars, loopVars, noteVars, TypeOK, LoopsInOrder, ChannelsAreOfLoops,
              DrainerHasChange, NoLoopLeaks, QueueIsDrained
<1>1. ASSUME NEW i \in Insts, NEW c \in {"empty", "command"}, RegisterInstance(i, c)
      PROVE  HealthInv'
  <2>1. LoopsInOrder' /\ ChannelsAreOfLoops' /\ NoLoopLeaks'
    BY <1>1, StopFrame DEF RegisterInstance
  <2>2. closes' \in [Loops -> 0..1]
    BY <1>1, CloseFacts DEF RegisterInstance
  <2>3. TypeOK'
    BY <1>1, <1>a, <2>2 DEF RegisterInstance, noteVars, TypeOK, Configs, Statuses
  <2>4. QueueIsDrained' /\ DrainerHasChange'
    BY <1>1 DEF RegisterInstance, noteVars, QueueIsDrained, DrainerHasChange
  <2> QED
    BY <2>1, <2>3, <2>4
<1>2. ASSUME NEW i \in Insts, UnregisterInstance(i) PROVE HealthInv'
  <2>1. LoopsInOrder' /\ ChannelsAreOfLoops' /\ NoLoopLeaks'
    BY <1>2, StopFrame DEF UnregisterInstance
  <2>2. closes' \in [Loops -> 0..1]
    BY <1>2, CloseFacts DEF UnregisterInstance
  <2>3. TypeOK'
    BY <1>2, <1>a, <2>2 DEF UnregisterInstance, noteVars, TypeOK, Configs, Statuses
  <2>4. QueueIsDrained' /\ DrainerHasChange'
    BY <1>2 DEF UnregisterInstance, noteVars, QueueIsDrained, DrainerHasChange
  <2> QED
    BY <2>1, <2>3, <2>4
<1>3. ASSUME NEW i \in Insts, StartChecking(i) PROVE HealthInv'
  <2> USE DEF StartChecking, TypeOK
  <2> DEFINE n == started + 1
  <2>1. n \in Loops /\ started \in Nat /\ Loops \subseteq Nat /\ 0 \notin Loops
    BY <1>3, MaxLoopsNat DEF Loops
  <2>2. /\ closes' \in [Loops -> 0..1]
        /\ stopChan[i] \in Loops => lpc[stopChan[i]] # "unused"
        /\ \A l \in Loops : closes'[l] = IF l = stopChan[i] THEN 1 ELSE closes[l]
    BY <1>3, CloseFacts
  <2>3. lpc[n] = "unused" /\ closes[n] = 0 /\ \A k \in Insts : stopChan[k] # n
    BY <2>1 DEF LoopsInOrder, ChannelsAreOfLoops
  <2>4. TypeOK'
    <3>1. started' \in 0..MaxLoops /\ started' = n
      BY <1>3, <2>1, MaxLoopsNat DEF Loops
    <3>2. stopChan' \in [Insts -> Loops \cup {0}] /\ linst' \in [Loops -> Insts]
      BY <1>3, <2>1
    <3>3. /\ lpc' \in [Loops -> {"unused", "delay", "init", "select", "exec", "exited"}]
          /\ lconfig' \in [Loops -> Configs]
      BY <1>3, <2>1
    <3> QED
      BY <1>3, <2>2, <3>1, <3>2, <3>3 DEF noteVars
  <2>5. LoopsInOrder'
    BY <1>3, <2>1 DEF LoopsInOrder
  <2>6. \A k \in Insts : stopChan[k] # 0 => stopChan[k] \in Loops /\ stopChan[k] # n
    BY <2>3
  <2>7. ChannelsAreOfLoops'
    <3>1. ASSUME NEW k \in Insts, stopChan'[k] # 0
          PROVE  stopChan'[k] <= started' /\ linst'[stopChan'[k]] = k
      <4>1. started' = n /\ linst' = [linst EXCEPT ![n] = i]
            /\ stopChan' = [stopChan EXCEPT ![i] = n]
        BY <1>3
      <4>2. CASE k = i
        <5>1. stopChan'[k] = n
          BY <4>1, <4>2
        <5>2. linst'[n] = i
          BY <2>1, <4>1
        <5> QED
          BY <2>1, <4>1, <4>2, <5>1, <5>2
      <4>3. CASE k # i
        <5>1. stopChan'[k] = stopChan[k] /\ stopChan[k] # 0
          BY <3>1, <4>1, <4>3
        <5>2. stopChan[k] \in Loops /\ stopChan[k] # n
          BY <2>6, <5>1
        <5>3. stopChan[k] <= started /\ linst[stopChan[k]] = k
          BY <5>1 DEF ChannelsAreOfLoops
        <5>4. stopChan[k] \in Nat
          BY <2>1, <5>2
        <5>5. linst'[stopChan[k]] = k
          BY <4>1, <5>2, <5>3
        <5> QED
          BY <2>1, <4>1, <5>1, <5>3, <5>4, <5>5
      <4> QED
        BY <4>2, <4>3
    <3>2. ASSUME NEW l \in Loops, lpc'[l] = "unused" PROVE closes'[l] = 0
      <4>1. lpc[l] = "unused"
        BY <1>3, <2>1, <3>2
      <4> QED
        BY <2>2, <4>1 DEF ChannelsAreOfLoops
    <3> QED
      BY <3>1, <3>2 DEF ChannelsAreOfLoops
  <2>8. NoLoopLeaks'
    <3> SUFFICES ASSUME NEW l \in Loops, lpc'[l] # "unused"
                 PROVE  closes'[l] = 0 <=> stopChan'[linst'[l]] = l
      BY DEF NoLoopLeaks
    <3>1. CASE l = n
      <4>1. closes'[l] = 0 /\ linst'[l] = i /\ stopChan'[i] = l
        BY <1>3, <2>1, <2>2, <2>3, <3>1
      <4> QED
        BY <4>1
    <3>2. CASE l # n
      <4>1. lpc[l] # "unused" /\ linst'[l] = linst[l] /\ linst[l] \in Insts
        BY <1>3, <2>1, <3>2
      <4>2. closes[l] = 0 <=> stopChan[linst[l]] = l
        BY <4>1 DEF NoLoopLeaks
      <4>3. CASE linst[l] = i
        <5>1. stopChan'[linst'[l]] = n
          BY <1>3, <4>1, <4>3
        <5>2. closes'[l] # 0
          BY <2>2, <4>2, <4>3
        <5> QED
          BY <3>2, <5>1, <5>2
      <4>4. CASE linst[l] # i
        <5>1. stopChan'[linst'[l]] = stopChan[linst[l]]
          BY <1>3, <4>1, <4>4
        <5>2. l # stopChan[i]
          BY <2>1, <4>4 DEF ChannelsAreOfLoops
        <5> QED
          BY <2>2, <4>2, <5>1, <5>2
      <4> QED
        BY <4>3, <4>4
    <3> QED
      BY <3>1, <3>2
  <2>9. QueueIsDrained' /\ DrainerHasChange'
    BY <1>3 DEF noteVars, QueueIsDrained, DrainerHasChange
  <2> QED
    BY <2>4, <2>5, <2>7, <2>8, <2>9
<1>4. ASSUME NEW i \in Insts, StopChecking(i) PROVE HealthInv'
  <2>1. LoopsInOrder' /\ ChannelsAreOfLoops' /\ NoLoopLeaks'
    BY <1>4, StopFrame DEF StopChecking
  <2>2. closes' \in [Loops -> 0..1]
    BY <1>4, CloseFacts DEF StopChecking
  <2>3. TypeOK'
    BY <1>4, <2>2 DEF StopChecking, noteVars, TypeOK
  <2>4. QueueIsDrained' /\ DrainerHasChange'
    BY <1>4 DEF StopChecking, noteVars, QueueIsDrained, DrainerHasChange
  <2> QED
    BY <2>1, <2>3, <2>4
<1>5. ASSUME NEW l \in Loops, StartPeriod(l) \/ Tick(l) \/ Leave(l) PROVE HealthInv'
  <2> USE <1>5 DEF StartPeriod, Tick, Leave
  <2>1. LoopsInOrder' /\ ChannelsAreOfLoops' /\ NoLoopLeaks'
    BY LoopFrame DEF mapVars
  <2>2. TypeOK'
    BY DEF mapVars, noteVars, TypeOK
  <2>3. QueueIsDrained' /\ DrainerHasChange'
    BY DEF noteVars, QueueIsDrained, DrainerHasChange
  <2> QED
    BY <2>1, <2>2, <2>3
<1>6. ASSUME NEW l \in Loops, Begin(l) PROVE HealthInv'
  <2> USE <1>6 DEF Begin
  <2>1. LoopsInOrder' /\ ChannelsAreOfLoops' /\ NoLoopLeaks'
    BY LoopFrame
  <2>2. linst[l] \in Insts /\ results[linst[l]] \in Statuses /\ "unknown" \in Statuses
    BY DEF TypeOK, Statuses
  <2>3. /\ notifyQueue' \in Seq(Changes) /\ Len(notifyQueue') <= MaxPending
        /\ notifyBusy' \in BOOLEAN /\ drain' \in {"none", "take", "deliver"}
        /\ hand' \in Changes \cup {NoChange}
        /\ QueueIsDrained' /\ DrainerHasChange'
    BY <2>2, NotifyFacts
  <2>4. TypeOK'
    BY <2>2, <2>3 DEF TypeOK
  <2> QED
    BY <2>1, <2>3, <2>4
<1>7. ASSUME NEW l \in Loops, TickWithoutCommand(l) PROVE HealthInv'
  <2> USE <1>7 DEF TickWithoutCommand
  <2>1. LoopsInOrder' /\ ChannelsAreOfLoops' /\ NoLoopLeaks'
    BY DEF loopVars, LoopsInOrder, ChannelsAreOfLoops, NoLoopLeaks
  <2>2. linst[l] \in Insts /\ results[linst[l]] \in Statuses /\ "unknown" \in Statuses
    BY DEF TypeOK, Statuses
  <2>3. /\ notifyQueue' \in Seq(Changes) /\ Len(notifyQueue') <= MaxPending
        /\ notifyBusy' \in BOOLEAN /\ drain' \in {"none", "take", "deliver"}
        /\ hand' \in Changes \cup {NoChange}
        /\ QueueIsDrained' /\ DrainerHasChange'
    BY <2>2, NotifyFacts
  <2>4. TypeOK'
    BY <2>2, <2>3 DEF loopVars, TypeOK
  <2> QED
    BY <2>1, <2>3, <2>4
<1>8. ASSUME NEW l \in Loops, NEW passes \in BOOLEAN, Record(l, passes) PROVE HealthInv'
  <2> DEFINE i == linst[l]
             new == IF passes THEN "healthy" ELSE AfterFailure(i)
  <2>1. lpc[l] = "exec" /\ lpc' = [lpc EXCEPT ![l] = "select"]
    BY <1>8 DEF Record
  <2>2. LoopsInOrder' /\ ChannelsAreOfLoops' /\ NoLoopLeaks'
    BY <1>8, <2>1, LoopFrame DEF Record
  <2>3. i \in Insts /\ results[i] \in Statuses /\ failCounts[i] \in 0..Retries
    BY DEF TypeOK
  <2>4. new \in Statuses
    BY <2>3, <1>a DEF AfterFailure, Statuses
  <2>5. AtMost(failCounts[i] + 1, Retries) \in 0..Retries
    BY <2>3, <1>a DEF AtMost
  <2>6. /\ results' = [results EXCEPT ![i] = new] /\ Notify(i, results[i], new)
        /\ failCounts' = [failCounts EXCEPT
                            ![i] = IF passes THEN 0 ELSE AtMost(failCounts[i] + 1, Retries)]
        /\ UNCHANGED <<configs, stopChan, started, linst, lconfig, closes, view>>
    BY <1>8 DEF Record
  <2> HIDE DEF new
  <2>7. /\ notifyQueue' \in Seq(Changes) /\ Len(notifyQueue') <= MaxPending
        /\ notifyBusy' \in BOOLEAN /\ drain' \in {"none", "take", "deliver"}
        /\ hand' \in Changes \cup {NoChange}
        /\ QueueIsDrained' /\ DrainerHasChange'
    BY <2>3, <2>4, <2>6, NotifyFacts
  <2>8. results' \in [Insts -> Statuses] /\ failCounts' \in [Insts -> 0..Retries]
    BY <1>a, <2>3, <2>4, <2>5, <2>6 DEF TypeOK
  <2>9. TypeOK'
    BY <2>1, <2>6, <2>7, <2>8 DEF TypeOK
  <2> QED
    BY <2>2, <2>7, <2>9
<1>9. ASSUME TakeChange PROVE HealthInv'
  <2> USE <1>9 DEF TakeChange
  <2>1. /\ Head(notifyQueue) \in Changes /\ Tail(notifyQueue) \in Seq(Changes)
        /\ Len(Tail(notifyQueue)) <= MaxPending
    BY MaxPendingPositive DEF TypeOK
  <2>2. Head(notifyQueue) # NoChange
    BY <2>1, InstsExist DEF Changes, NoChange
  <2>3. TypeOK'
    BY <2>1 DEF mapVars, loopVars, TypeOK
  <2>4. LoopsInOrder' /\ ChannelsAreOfLoops' /\ NoLoopLeaks'
    BY DEF mapVars, loopVars, LoopsInOrder, ChannelsAreOfLoops, NoLoopLeaks
  <2>5. QueueIsDrained' /\ DrainerHasChange'
    BY <2>2 DEF QueueIsDrained, DrainerHasChange
  <2> QED
    BY <2>3, <2>4, <2>5
<1>10. ASSUME EndDrain PROVE HealthInv'
  BY <1>10 DEF EndDrain, mapVars, loopVars, TypeOK, LoopsInOrder, ChannelsAreOfLoops,
               NoLoopLeaks, QueueIsDrained, DrainerHasChange
<1>11. ASSUME Deliver PROVE HealthInv'
  <2> USE <1>11 DEF Deliver
  <2>1. hand.inst \in Insts /\ hand.to \in Statuses
    BY DEF TypeOK, DrainerHasChange, Changes
  <2>2. TypeOK'
    BY <2>1 DEF mapVars, loopVars, TypeOK
  <2>3. LoopsInOrder' /\ ChannelsAreOfLoops' /\ NoLoopLeaks'
    BY DEF mapVars, loopVars, LoopsInOrder, ChannelsAreOfLoops, NoLoopLeaks
  <2>4. QueueIsDrained' /\ DrainerHasChange'
    BY DEF QueueIsDrained, DrainerHasChange
  <2> QED
    BY <2>2, <2>3, <2>4
<1> QED
  BY <1>0, <1>1, <1>2, <1>3, <1>4, <1>5, <1>6, <1>7, <1>8, <1>9, <1>10, <1>11
     DEF Next, LoopStep, DrainStep

LEMMA HealthInvHolds == Spec => []HealthInv
  BY InitHealthInv, HealthInvStep, PTL DEF Spec

(* The checker's state stays well typed whatever instances are registered   *)
(* and checked: the queue of changes respects maxPendingNotifications and   *)
(* no stop channel is closed twice.                                         *)
THEOREM HealthTypeCorrect == Spec => []TypeOK
<1>1. HealthInv => TypeOK
  BY DEF HealthInv
<1> QED
  BY <1>1, HealthInvHolds, PTL

(* RegisterInstance, UnregisterInstance, StartChecking and StopChecking, in *)
(* any order and on any instances, leak no check loop.                      *)
THEOREM HealthLoopsNeverLeak == Spec => []NoLoopLeaks
<1>1. HealthInv => NoLoopLeaks
  BY DEF HealthInv
<1> QED
  BY <1>1, HealthInvHolds, PTL

(* A queued change always has its one drainer (notify and                   *)
(* drainNotifications).                                                     *)
THEOREM HealthQueueDrained == Spec => []QueueIsDrained
<1>1. HealthInv => QueueIsDrained
  BY DEF HealthInv
<1> QED
  BY <1>1, HealthInvHolds, PTL

(* notify puts the new status behind every older one of its instance, and   *)
(* costs no other instance a change unless one is dropped.                  *)
LEMMA NotifyNews ==
    ASSUME HealthInv, NothingDropped, NewsIsTrue, NEW i \in Insts,
           NEW to \in Statuses \ {"none"}, Notify(i, results[i], to),
           results' = [results EXCEPT ![i] = to], UNCHANGED <<configs, view>>
    PROVE  NewsIsTrue'
<1> USE DEF HealthInv
<1>0. results \in [Insts -> Statuses] /\ notifyQueue \in Seq(Changes)
  BY DEF TypeOK
<1>1. \A k \in Registered' : results'[k] # "none"
  BY <1>0 DEF NewsIsTrue, Registered
<1>2. CASE results[i] = to
  <2>1. results' = results /\ UNCHANGED <<notifyQueue, drain, hand>>
    BY <1>0, <1>2 DEF Notify, noteVars
  <2> QED
    BY <1>1, <2>1 DEF NewsIsTrue, NewestIs, QueuedFor, InHand
<1>3. CASE results[i] # to
  <2> DEFINE x == [inst |-> i, to |-> to]
  <2>1. x \in Changes /\ x.inst = i /\ x.to = to
    BY DEF Changes
  <2>2. notifyQueue' = Enqueue(notifyQueue, x) /\ UNCHANGED hand
    BY <1>3 DEF Notify
  <2>3. drain' = "deliver" <=> drain = "deliver"
    BY <1>3 DEF Notify, TypeOK, QueueIsDrained
  <2> HIDE DEF x
  <2>4. CASE Len(notifyQueue) < MaxPending
    <3>1. /\ Len(notifyQueue') = Len(notifyQueue) + 1 /\ Len(notifyQueue) \in Nat
          /\ notifyQueue'[Len(notifyQueue) + 1] = x
          /\ \A k \in 1..Len(notifyQueue) : notifyQueue'[k] = notifyQueue[k]
      BY <1>0, <2>1, <2>2, <2>4, MaxPendingPositive DEF Enqueue
    <3>2. NewestIs(i, results[i])'
      <4>1. Len(notifyQueue) + 1 \in QueuedFor(i)'
        BY <2>1, <3>1 DEF QueuedFor
      <4>2. \A m \in QueuedFor(i)' : m <= Len(notifyQueue) + 1
        BY <3>1 DEF QueuedFor
      <4>3. notifyQueue'[Len(notifyQueue) + 1].to = results'[i]
        BY <1>0, <2>1, <3>1
      <4> QED
        BY <4>1, <4>2, <4>3 DEF NewestIs
    <3>3. ASSUME NEW k \in Insts, k # i
          PROVE  results'[k] \in {"none", "starting"} \/ NewestIs(k, results[k])'
      <4>1. results'[k] = results[k]
        BY <1>0, <3>3
      <4>2. QueuedFor(k)' = QueuedFor(k)
        BY <2>1, <3>1, <3>3 DEF QueuedFor
      <4>3. \A m \in QueuedFor(k) : notifyQueue'[m] = notifyQueue[m]
        BY <3>1 DEF QueuedFor
      <4>4. results[k] \in {"none", "starting"} \/ NewestIs(k, results[k])
        BY DEF NewsIsTrue
      <4> QED
        BY <2>2, <2>3, <4>1, <4>2, <4>3, <4>4 DEF NewestIs, InHand
    <3> QED
      BY <1>1, <3>2, <3>3 DEF NewsIsTrue
  <2>5. CASE ~(Len(notifyQueue) < MaxPending)
    <3>1. \A k \in Insts : k = i
      BY <2>5 DEF NothingDropped
    <3>2. Len(notifyQueue) \in Nat /\ Len(notifyQueue) >= MaxPending /\ notifyQueue # <<>>
      BY <1>0, <2>5, MaxPendingPositive
    <3>3. Tail(notifyQueue) \in Seq(Changes) /\ Len(Tail(notifyQueue)) = Len(notifyQueue) - 1
      BY <1>0, <3>2
    <3>4. /\ Len(notifyQueue') = Len(notifyQueue)
          /\ notifyQueue'[Len(notifyQueue)] = x
      BY <2>1, <2>2, <3>2, <3>3 DEF Enqueue
    <3>5. Len(notifyQueue) \in QueuedFor(i)'
      BY <2>1, <3>2, <3>4, MaxPendingPositive DEF QueuedFor
    <3>6. \A m \in QueuedFor(i)' : m <= Len(notifyQueue)
      BY <3>2, <3>4 DEF QueuedFor
    <3>7. notifyQueue'[Len(notifyQueue)].to = results'[i]
      BY <1>0, <2>1, <3>4
    <3> QED
      BY <1>1, <3>1, <3>5, <3>6, <3>7 DEF NewsIsTrue, NewestIs
  <2> QED
    BY <2>4, <2>5
<1> QED
  BY <1>2, <1>3

(* The newest change of every instance stays in the queue, in the drainer's *)
(* hand or with the listener, and is the status the checker has.            *)
LEMMA NewsStep ==
    HealthInv /\ NothingDropped /\ NewsIsTrue /\ [Next]_vars => NewsIsTrue'
<1> SUFFICES ASSUME HealthInv, NothingDropped, NewsIsTrue, [Next]_vars
             PROVE  NewsIsTrue'
  OBVIOUS
<1>t. TypeOK /\ notifyQueue \in Seq(Changes)
  BY DEF HealthInv, TypeOK
<1>l. \A l \in Loops : linst[l] \in Insts
  BY <1>t DEF TypeOK
<1>0. CASE UNCHANGED <<results, configs, notifyQueue, drain, hand, view>>
  BY <1>0 DEF NewsIsTrue, NewestIs, QueuedFor, InHand, Registered
<1>1. ASSUME NEW i \in Insts, NEW c \in {"empty", "command"},
             RegisterInstance(i, c) \/ UnregisterInstance(i)
      PROVE  NewsIsTrue'
  <2>1. UNCHANGED <<notifyQueue, drain, hand, view>>
    BY <1>1 DEF RegisterInstance, UnregisterInstance, noteVars
  <2>2. \A k \in Insts : \/ results'[k] = results[k] /\ configs'[k] = configs[k]
                         \/ results'[k] = "starting"
                         \/ results'[k] = "none" /\ configs'[k] = "none"
    BY <1>1, <1>t DEF RegisterInstance, UnregisterInstance, TypeOK
  <2>3. \A k \in Insts : NewestIs(k, results[k]) /\ results'[k] = results[k]
                            => NewestIs(k, results[k])'
    BY <2>1 DEF NewestIs, QueuedFor, InHand
  <2> QED
    BY <2>2, <2>3 DEF NewsIsTrue, Registered
<1>2. ASSUME NEW l \in Loops, Begin(l) \/ TickWithoutCommand(l) PROVE NewsIsTrue'
  <2>1. "unknown" \in Statuses \ {"none"}
    BY DEF Statuses
  <2>2. /\ results' = [results EXCEPT ![linst[l]] = "unknown"]
        /\ Notify(linst[l], results[linst[l]], "unknown")
        /\ UNCHANGED <<configs, view>>
    BY <1>2 DEF Begin, TickWithoutCommand
  <2> QED
    BY <1>l, <2>1, <2>2, NotifyNews
<1>3. ASSUME NEW l \in Loops, NEW passes \in BOOLEAN, Record(l, passes) PROVE NewsIsTrue'
  <2> DEFINE new == IF passes THEN "healthy" ELSE AfterFailure(linst[l])
  <2>1. new \in Statuses \ {"none"}
    <3>1. /\ failCounts[linst[l]] + 1 >= Retries \/ failCounts[linst[l]] + 1 < Retries
          /\ results[linst[l]] \in Statuses
      BY <1>l, <1>t, RetriesPositive DEF TypeOK
    <3>2. AfterFailure(linst[l]) \in Statuses \ {"none"}
      BY <3>1 DEF AfterFailure, Statuses
    <3> QED
      BY <3>2 DEF Statuses
  <2>2. /\ results' = [results EXCEPT ![linst[l]] = new]
        /\ Notify(linst[l], results[linst[l]], new)
        /\ UNCHANGED <<configs, view>>
    BY <1>3 DEF Record
  <2> HIDE DEF new
  <2> QED
    BY <1>l, <2>1, <2>2, NotifyNews
<1>4. ASSUME TakeChange PROVE NewsIsTrue'
  <2>1. /\ drain = "take" /\ notifyQueue # <<>> /\ drain' = "deliver"
        /\ hand' = notifyQueue[1]
        /\ UNCHANGED <<results, configs, view>>
    BY <1>4, <1>t DEF TakeChange, mapVars
  <2>2. /\ Len(notifyQueue) \in Nat /\ Len(notifyQueue) >= 1
        /\ Len(notifyQueue') = Len(notifyQueue) - 1
        /\ \A k \in 1..Len(notifyQueue') : notifyQueue'[k] = notifyQueue[k + 1]
    BY <1>4, <1>t DEF TakeChange
  <2>3. ASSUME NEW i \in Insts, NewestIs(i, results[i]) PROVE NewestIs(i, results[i])'
    <3>1. CASE QueuedFor(i) = {}
      <4>1. QueuedFor(i)' = {}
        BY <2>2, <3>1 DEF QueuedFor
      <4>2. ~InHand(i) /\ view[i] = results[i]
        BY <2>1, <2>3, <3>1 DEF NewestIs, InHand
      <4>3. ~InHand(i)'
        BY <2>1, <2>2, <3>1 DEF InHand, QueuedFor
      <4> QED
        BY <2>1, <4>1, <4>2, <4>3 DEF NewestIs
    <3>2. CASE QueuedFor(i) # {}
      <4>1. PICK k \in QueuedFor(i) : /\ notifyQueue[k].to = results[i]
                                      /\ \A m \in QueuedFor(i) : m <= k
        BY <2>3, <3>2 DEF NewestIs
      <4>2. CASE k = 1
        <5>1. QueuedFor(i)' = {}
          BY <2>2, <4>1, <4>2 DEF QueuedFor
        <5>2. InHand(i)' /\ hand'.to = results'[i]
          BY <2>1, <4>1, <4>2 DEF InHand, QueuedFor
        <5> QED
          BY <5>1, <5>2 DEF NewestIs
      <4>3. CASE k # 1
        <5>1. k \in 2..Len(notifyQueue)
          BY <2>2, <4>3 DEF QueuedFor
        <5>2. k - 1 \in QueuedFor(i)' /\ notifyQueue'[k - 1].to = results'[i]
          BY <2>1, <2>2, <4>1, <5>1 DEF QueuedFor
        <5>3. \A m \in QueuedFor(i)' : m + 1 \in QueuedFor(i)
          BY <2>2 DEF QueuedFor
        <5>4. \A m \in QueuedFor(i)' : m <= k - 1
          BY <2>2, <4>1, <5>1, <5>3 DEF QueuedFor
        <5> QED
          BY <5>2, <5>4 DEF NewestIs
      <4> QED
        BY <4>2, <4>3
    <3> QED
      BY <3>1, <3>2
  <2> QED
    BY <2>1, <2>3 DEF NewsIsTrue, Registered
<1>5. ASSUME Deliver PROVE NewsIsTrue'
  <2>1. /\ drain = "deliver" /\ drain' = "take"
        /\ UNCHANGED <<results, configs, notifyQueue>>
        /\ \A i \in Insts : view'[i] = IF hand.inst = i THEN hand.to ELSE view[i]
    BY <1>5, <1>t DEF Deliver, mapVars, TypeOK
  <2>2. ASSUME NEW i \in Insts, NewestIs(i, results[i]) PROVE NewestIs(i, results[i])'
    BY <2>1, <2>2 DEF NewestIs, QueuedFor, InHand
  <2> QED
    BY <2>1, <2>2 DEF NewsIsTrue, Registered
<1>6. ASSUME EndDrain PROVE NewsIsTrue'
  <2>1. /\ drain = "take" /\ drain' = "none"
        /\ UNCHANGED <<results, configs, notifyQueue, hand, view>>
    BY <1>6 DEF EndDrain, mapVars
  <2> QED
    BY <2>1 DEF NewsIsTrue, NewestIs, QueuedFor, InHand, Registered
<1>7. ASSUME NEW l \in Loops, StartPeriod(l) \/ Tick(l) \/ Leave(l) PROVE NewsIsTrue'
  BY <1>0, <1>7 DEF StartPeriod, Tick, Leave, mapVars, noteVars
<1>8. ASSUME NEW i \in Insts, StartChecking(i) \/ StopChecking(i) PROVE NewsIsTrue'
  BY <1>0, <1>8 DEF StartChecking, StopChecking, noteVars
<1>9. CASE UNCHANGED vars
  BY <1>0, <1>9 DEF vars, mapVars, noteVars
<1> QED
  BY <1>1, <1>2, <1>3, <1>4, <1>5, <1>6, <1>7, <1>8, <1>9 DEF Next, LoopStep, DrainStep

(* While no other instance's change is dropped (one instance, or room in    *)
(* the queue), the listener ends up with the status the checker has,        *)
(* however checks, registrations and deliveries race.  The hypothesis is    *)
(* needed: a full queue drops the oldest change, which may be the only one  *)
(* of another instance.                                                     *)
THEOREM HealthListenersCatchUp == Spec /\ []NothingDropped => []ListenersCatchUp
<1>1. Init => NewsIsTrue
  BY DEF Init, NewsIsTrue, Registered
<1>2. HealthInv /\ NewsIsTrue => ListenersCatchUp
  <2> SUFFICES ASSUME HealthInv, NewsIsTrue, drain = "none", NEW i \in Registered
               PROVE  results[i] \in {"starting", view[i]}
    BY DEF ListenersCatchUp
  <2>1. notifyQueue = <<>>
    BY DEF HealthInv, QueueIsDrained
  <2>2. QueuedFor(i) = {} /\ ~InHand(i)
    BY <2>1 DEF QueuedFor, InHand
  <2> QED
    BY <2>2 DEF NewsIsTrue, NewestIs, Registered
<1> QED
  BY <1>1, <1>2, NewsStep, HealthInvHolds, PTL DEF Spec

=============================================================================
