------------------------ MODULE BackupManagerProofs -------------------------
(***************************************************************************)
(* Proofs about BackupManager for any number of callers and backups, any   *)
(* retention policies, failing commands and statements, and crashes.       *)
(***************************************************************************)
EXTENDS BackupManager, FiniteSetTheorems, TLAPS

-----------------------------------------------------------------------------
(* A nonempty set of naturals has a least element. *)
LEMMA LeastElement ==
    ASSUME NEW T, T \subseteq Nat, T # {}
    PROVE  \E x \in T : \A y \in T : x <= y
<1>1. IsWellFoundedOn(OpToRel(<, Nat), Nat)
  BY NatLessThanWellFounded
<1>2. PICK x \in T : \A y \in T : ~ (<<y, x>> \in OpToRel(<, Nat))
  BY <1>1, WFMin
<1>3. \A y \in T : ~ (y < x)
  BY <1>2 DEF OpToRel
<1> QED
  BY <1>3

(* A nonempty set of backups has a newest one. *)
LEMMA MaxFacts ==
    ASSUME NEW S, S \subseteq Ids, S # {}
    PROVE  Max(S) \in S /\ \A y \in S : y <= Max(S)
<1> DEFINE T == {MaxBackups - s : s \in S}
<1>1. T \subseteq Nat /\ T # {}
  <2>1. ASSUME NEW s \in S PROVE MaxBackups - s \in Nat
    <3>1. s \in Ids
      OBVIOUS
    <3> QED
      BY <3>1, BackupBounds DEF Ids
  <2> QED
    BY <2>1
<1>2. PICK x \in T : \A y \in T : x <= y
  BY <1>1, LeastElement
<1>3. PICK m \in S : x = MaxBackups - m
  OBVIOUS
<1>4. \A y \in S : m >= y
  <2> TAKE y \in S
  <2>1. MaxBackups - y \in T
    OBVIOUS
  <2> QED
    <3>1. x <= MaxBackups - y
      BY <1>2, <2>1
    <3>2. m \in Ids /\ y \in Ids
      OBVIOUS
    <3> HIDE DEF T
    <3> QED
      BY <1>3, <3>1, <3>2, BackupBounds DEF Ids
<1>5. \E z \in S : \A y \in S : z >= y
  BY <1>4
<1>6. Max(S) \in S /\ \A y \in S : Max(S) >= y
  BY <1>5 DEF Max
<1> QED
  BY <1>6, BackupBounds DEF Ids

-----------------------------------------------------------------------------
(* What the steps do, field by field. *)
OthersStay(c) == \A d \in Callers \ {c} : op'[d] = op[d]
Keeps(c) ==
    /\ OthersStay(c) /\ op'[c].id = op[c].id
    /\ op'[c].policy = op[c].policy /\ op'[c].todo = op[c].todo

LEMMA GoFacts ==
    ASSUME TypeOK, NEW c \in Callers, NEW pc \in PCs, Go(c, pc)
    PROVE  op' \in [Callers -> Operations] /\ op'[c].pc = pc /\ Keeps(c)
  BY DEF TypeOK, Go, Operations, Keeps, OthersStay

LEMMA FinishFacts ==
    ASSUME TypeOK, NEW c \in Callers, Finish(c)
    PROVE  op' \in [Callers -> Operations] /\ op'[c] = Idle /\ OthersStay(c)
  BY DEF TypeOK, Finish, Idle, PCs, Operations, OthersStay

LEMMA BusyFacts ==
    ASSUME OwnershipInv, NEW c \in Callers, ~At(c, "idle")
    PROVE  Id(c) \in Ids /\ Second(c) = Id(c)
  BY BackupBounds DEF OwnershipInv, DistinctSeconds, TypeOK, OpsFit, OpFits, Ids, Second

LEMMA TakeSnapshotDoes ==
    ASSUME OwnershipInv, NEW c \in Callers, TakeSnapshot(c)
    PROVE  /\ op[c].pc = "hook"
           /\ op' \in [Callers -> Operations]
           /\ Keeps(c) /\ op'[c].pc \in {"append", "open", "base"}
           /\ snaps' = snaps \cup {Id(c)}
           /\ UNCHANGED <<clock, sec, config, configured, unread, backups, rows, files,
                          crashes, dirty, strays, partials>>
           /\ obj' \in [Ids -> BackupInfos] /\ \A n \in Ids \ {Id(c)} : obj'[n] = obj[n]
           /\ obj'[Id(c)].type = obj[Id(c)].type /\ obj'[Id(c)].base = obj[Id(c)].base
           /\ obj'[Id(c)].located = obj[Id(c)].located
           /\ obj[Id(c)].type = "snapshot" => op'[c].pc = "append"
           /\ obj[Id(c)].type # "snapshot" => obj' = obj
           /\ op'[c].pc = "open" => obj[Id(c)].type = "full"
<1>1. Id(c) \in Ids /\ Second(c) = Id(c)
  BY BusyFacts DEF TakeSnapshot, At
<1>2. CASE obj[Id(c)].type = "snapshot"
  <2>1. Go(c, "append") /\ obj' = [obj EXCEPT ![Id(c)].status = "completed"]
    BY <1>2 DEF TakeSnapshot
  <2>2. obj' \in [Ids -> BackupInfos]
    BY <1>1, <2>1 DEF OwnershipInv, TypeOK, BackupInfos
  <2> QED
    BY <1>1, <1>2, <2>1, <2>2, GoFacts DEF TakeSnapshot, OwnershipInv, TypeOK, At, PCs, ghosts, settings,
       BackupInfos
<1>3. CASE obj[Id(c)].type # "snapshot"
  <2>1. \E pc \in {"open", "base"} : Go(c, pc) /\ (pc = "open" => obj[Id(c)].type = "full")
    BY <1>3 DEF TakeSnapshot
  <2> QED
    BY <1>1, <1>3, <2>1, GoFacts DEF TakeSnapshot, OwnershipInv, TypeOK, At, PCs, ghosts, settings
<1> QED
  BY <1>2, <1>3

LEMMA SnapshotFailsDoes ==
    ASSUME OwnershipInv, NEW c \in Callers, SnapshotFails(c)
    PROVE  /\ op[c].pc = "hook"
           /\ op' \in [Callers -> Operations]
           /\ Keeps(c) /\ op'[c].pc = "append"
           /\ UNCHANGED <<clock, sec, config, configured, unread, backups, rows, snaps, files,
                          crashes, dirty, strays, partials>>
           /\ obj' \in [Ids -> BackupInfos] /\ \A n \in Ids \ {Id(c)} : obj'[n] = obj[n]
           /\ obj'[Id(c)].type = obj[Id(c)].type /\ obj'[Id(c)].base = obj[Id(c)].base
           /\ obj'[Id(c)].located = obj[Id(c)].located /\ obj'[Id(c)].status = "failed"
<1>1. Id(c) \in Ids /\ Second(c) = Id(c)
  BY BusyFacts DEF SnapshotFails, At
<1>2. obj' \in [Ids -> BackupInfos]
  BY <1>1 DEF SnapshotFails, OwnershipInv, TypeOK, BackupInfos
<1> QED
  BY <1>1, <1>2, GoFacts DEF SnapshotFails, OwnershipInv, TypeOK, At, PCs, ghosts, settings, BackupInfos,
     hostVars

LEMMA ChooseBaseDoes ==
    ASSUME OwnershipInv, NEW c \in Callers, ChooseBase(c)
    PROVE  /\ op[c].pc = "base"
           /\ op' \in [Callers -> Operations]
           /\ Keeps(c) /\ op'[c].pc = "open"
           /\ UNCHANGED <<clock, sec, config, configured, unread, backups, rows, snaps, files,
                          crashes, dirty, strays, partials>>
           /\ obj' \in [Ids -> BackupInfos] /\ \A n \in Ids \ {Id(c)} : obj'[n] = obj[n]
           /\ obj'[Id(c)].located = obj[Id(c)].located /\ obj'[Id(c)].status = obj[Id(c)].status
           /\ obj'[Id(c)].type # "none" \/ obj[Id(c)].type = "none"
           /\ obj'[Id(c)].base \in Chainable \cup {0}
           /\ obj'[Id(c)].base = 0 => obj'[Id(c)].type = "full"
<1>1. Id(c) \in Ids /\ Second(c) = Id(c)
  BY BusyFacts DEF ChooseBase, At
<1>2a. Chainable \subseteq Ids
  BY DEF Chainable, OwnershipInv, TypeOK
<1>2b. Chainable # {} => Max(Chainable) \in Chainable
  <2> SUFFICES ASSUME Chainable # {} PROVE Max(Chainable) \in Chainable
    OBVIOUS
  <2> HIDE DEF Chainable
  <2> QED
    BY <1>2a, MaxFacts
<1>2. PreviousSnapshot \in Chainable \cup {0} /\ Chainable \subseteq Ids
  <2> HIDE DEF Chainable
  <2>1. \A n \in Chainable : sec[n] = n
    BY <1>2a DEF OwnershipInv, DistinctSeconds
  <2> QED
    BY <1>2a, <1>2b, <2>1 DEF PreviousSnapshot
<1>3. PreviousSnapshot \in Ids \cup {0}
  BY <1>2
<1> HIDE DEF PreviousSnapshot, Chainable
<1> DEFINE t == IF PreviousSnapshot = 0 THEN "full" ELSE obj[Id(c)].type
           new == [obj[Id(c)] EXCEPT !.base = PreviousSnapshot, !.type = t]
<1>4. obj' = [obj EXCEPT ![Id(c)] = new]
  BY <1>1 DEF ChooseBase, OwnershipInv, TypeOK
<1>5. /\ new \in BackupInfos /\ new.base = PreviousSnapshot
      /\ new.type = IF PreviousSnapshot = 0 THEN "full" ELSE obj[Id(c)].type
      /\ new.located = obj[Id(c)].located /\ new.status = obj[Id(c)].status
  <2>1. obj[Id(c)] \in BackupInfos
    BY <1>1 DEF OwnershipInv, TypeOK
  <2>2. t \in Types \cup {"none"}
    BY <2>1 DEF BackupInfos, Types
  <2> HIDE DEF t
  <2>3. new \in BackupInfos /\ new.base = PreviousSnapshot /\ new.type = t
    BY <1>3, <2>1, <2>2 DEF BackupInfos
  <2>4. new.located = obj[Id(c)].located /\ new.status = obj[Id(c)].status
    BY <2>1 DEF BackupInfos
  <2> QED
    BY <2>3, <2>4 DEF t
<1> HIDE DEF new
<1>6. op' \in [Callers -> Operations] /\ Keeps(c) /\ op'[c].pc = "open" /\ op[c].pc = "base"
  BY GoFacts DEF ChooseBase, OwnershipInv, PCs, At
<1>7. UNCHANGED <<clock, sec, config, configured, unread, backups, rows, snaps, files, crashes,
                  dirty, strays, partials>>
  BY DEF ChooseBase, hostVars, ghosts, settings
<1>8. /\ obj' \in [Ids -> BackupInfos] /\ obj'[Id(c)] = new
      /\ \A n \in Ids \ {Id(c)} : obj'[n] = obj[n]
  BY <1>1, <1>4, <1>5 DEF OwnershipInv, TypeOK
<1>9. obj'[Id(c)].base = 0 => obj'[Id(c)].type = "full"
  BY <1>5, <1>8
<1>10. obj'[Id(c)].type # "none" \/ obj[Id(c)].type = "none"
  BY <1>5, <1>8
<1>11. obj'[Id(c)].base \in Chainable \cup {0}
  BY <1>2, <1>5, <1>8
<1>12. obj'[Id(c)].located = obj[Id(c)].located /\ obj'[Id(c)].status = obj[Id(c)].status
  BY <1>5, <1>8
<1> QED
  BY <1>6, <1>7, <1>8, <1>9, <1>10, <1>11, <1>12

LEMMA OpenStreamDoes ==
    ASSUME OwnershipInv, NEW c \in Callers, OpenStream(c)
    PROVE  /\ op[c].pc = "open"
           /\ op' \in [Callers -> Operations]
           /\ Keeps(c) /\ op'[c].pc = "send"
           /\ files' = files \cup {Id(c)}
           /\ UNCHANGED <<clock, sec, config, configured, unread, obj, backups, rows, snaps,
                          crashes, dirty, strays, partials>>
<1>1. Id(c) \in Ids /\ Second(c) = Id(c)
  BY BusyFacts DEF OpenStream, At
<1> QED
  BY <1>1, GoFacts DEF OpenStream, OwnershipInv, TypeOK, At, PCs, ghosts, settings, memVars

LEMMA SendStreamDoes ==
    ASSUME OwnershipInv, NEW c \in Callers, SendStream(c)
    PROVE  /\ op[c].pc = "send"
           /\ op' \in [Callers -> Operations]
           /\ Keeps(c) /\ op'[c].pc = "append"
           /\ Id(c) \in snaps /\ obj[Id(c)].base \in snaps \cup {0}
           /\ UNCHANGED <<clock, sec, config, configured, unread, backups, rows, snaps, files,
                          crashes, dirty, strays, partials>>
           /\ obj' \in [Ids -> BackupInfos] /\ \A n \in Ids \ {Id(c)} : obj'[n] = obj[n]
           /\ obj'[Id(c)].type = obj[Id(c)].type /\ obj'[Id(c)].base = obj[Id(c)].base
           /\ obj'[Id(c)].located /\ obj'[Id(c)].status = "completed"
<1>1. Id(c) \in Ids /\ Second(c) = Id(c)
  BY BusyFacts DEF SendStream, At
<1>2. obj[Id(c)] \in BackupInfos
  BY <1>1 DEF OwnershipInv, TypeOK
<1> DEFINE new == [obj[Id(c)] EXCEPT !.located = TRUE, !.status = "completed"]
<1>3. obj' = [obj EXCEPT ![Id(c)] = new]
  BY <1>1 DEF SendStream, OwnershipInv, TypeOK
<1>4. /\ new \in BackupInfos
      /\ new.type = obj[Id(c)].type /\ new.base = obj[Id(c)].base
      /\ new.located /\ new.status = "completed"
  BY <1>2 DEF BackupInfos
<1> HIDE DEF new
<1>5. /\ obj' \in [Ids -> BackupInfos] /\ obj'[Id(c)] = new
      /\ \A n \in Ids \ {Id(c)} : obj'[n] = obj[n]
  BY <1>1, <1>3, <1>4 DEF OwnershipInv, TypeOK
<1>6. op' \in [Callers -> Operations] /\ Keeps(c) /\ op'[c].pc = "append"
  BY GoFacts DEF SendStream, OwnershipInv, PCs
<1> QED
  BY <1>1, <1>4, <1>5, <1>6 DEF SendStream, At, hostVars, ghosts, settings

LEMMA StreamFailsDoes ==
    ASSUME OwnershipInv, NEW c \in Callers, StreamFails(c)
    PROVE  /\ op[c].pc \in {"open", "send"}
           /\ op' \in [Callers -> Operations]
           /\ Keeps(c) /\ op'[c].pc = "unsnap"
           /\ \/ Id(c) \notin files' /\ partials' = partials
              \/ Id(c) \in files /\ op[c].pc = "send" /\ partials' = partials \cup {Id(c)}
           /\ \A n \in Ids \ {Id(c)} : n \in files' <=> n \in files
           /\ files' \subseteq files
           /\ UNCHANGED <<clock, sec, config, configured, unread, backups, rows, snaps,
                          crashes, dirty, strays>>
           /\ obj' \in [Ids -> BackupInfos] /\ \A n \in Ids \ {Id(c)} : obj'[n] = obj[n]
           /\ obj'[Id(c)].type = obj[Id(c)].type /\ obj'[Id(c)].base = obj[Id(c)].base
           /\ obj'[Id(c)].located = obj[Id(c)].located /\ obj'[Id(c)].status = "failed"
<1>1. Id(c) \in Ids /\ Second(c) = Id(c)
  BY BusyFacts DEF StreamFails, At
<1>2. obj' \in [Ids -> BackupInfos]
  BY <1>1 DEF StreamFails, OwnershipInv, TypeOK, BackupInfos
<1>3. /\ \/ Id(c) \notin files' /\ partials' = partials
         \/ Id(c) \in files /\ op[c].pc = "send" /\ partials' = partials \cup {Id(c)}
      /\ \A n \in Ids \ {Id(c)} : n \in files' <=> n \in files
      /\ files' \subseteq files
  <2>1. CASE At(c, "open") /\ UNCHANGED <<files, partials>>
    BY <1>1, <2>1 DEF StreamFails, OwnershipInv, OpsFit, OpFits, FilesFit, Creating, At
  <2>2. CASE At(c, "send") /\ files' = files \ {Second(c)} /\ UNCHANGED partials
    BY <1>1, <2>2
  <2>3. CASE At(c, "send") /\ partials' = partials \cup {Second(c)} /\ UNCHANGED files
    BY <1>1, <2>3 DEF OwnershipInv, OpsFit, OpFits, At
  <2> QED
    BY <2>1, <2>2, <2>3 DEF StreamFails
<1>4. op' \in [Callers -> Operations] /\ Keeps(c) /\ op'[c].pc = "unsnap"
  BY GoFacts DEF StreamFails, OwnershipInv, PCs
<1> QED
  BY <1>1, <1>2, <1>3, <1>4 DEF StreamFails, OwnershipInv, TypeOK, settings, BackupInfos

LEMMA CleanSnapshotDoes ==
    ASSUME OwnershipInv, NEW c \in Callers, CleanSnapshot(c)
    PROVE  /\ op[c].pc = "unsnap"
           /\ op' \in [Callers -> Operations]
           /\ Keeps(c) /\ op'[c].pc = "append"
           /\ snaps' \subseteq snaps /\ snaps \subseteq snaps' \cup {Id(c)}
           /\ UNCHANGED <<clock, sec, config, configured, unread, obj, backups, rows, files,
                          crashes, dirty, strays, partials>>
<1>1. Id(c) \in Ids /\ Second(c) = Id(c)
  BY BusyFacts DEF CleanSnapshot, At
<1> QED
  BY <1>1, GoFacts DEF CleanSnapshot, OwnershipInv, TypeOK, At, PCs, ghosts, settings, memVars

LEMMA AddBackupDoes ==
    ASSUME OwnershipInv, NEW c \in Callers, AddBackup(c)
    PROVE  /\ op[c].pc = "append"
           /\ op' \in [Callers -> Operations]
           /\ Keeps(c) /\ op'[c].pc = "save"
           /\ backups' = backups \cup {Id(c)}
           /\ UNCHANGED <<clock, sec, config, configured, unread, obj, rows, snaps, files,
                          crashes, dirty, strays, partials>>
<1>1. Id(c) \in Ids /\ Second(c) = Id(c)
  BY BusyFacts DEF AddBackup, At
<1> QED
  BY <1>1, GoFacts DEF AddBackup, OwnershipInv, TypeOK, At, PCs, ghosts, settings, hostVars

LEMMA PersistBackupDoes ==
    ASSUME OwnershipInv, NEW c \in Callers, PersistBackup(c)
    PROVE  /\ op[c].pc = "save" /\ OthersStay(c)
           /\ op' \in [Callers -> Operations]
           /\ \/ Keeps(c) /\ op'[c].pc = "retain" /\ obj[Id(c)].status = "completed" /\ ~KeepsAll(op[c].policy)
              \/ op'[c] = Idle
           /\ UNCHANGED <<clock, sec, config, configured, unread, obj, backups, snaps, files,
                          crashes, strays, partials>>
           /\ rows' \in [Ids -> BackupInfos] /\ \A n \in Ids \ {Id(c)} : rows'[n] = rows[n]
           /\ \/ rows'[Id(c)] = obj[Id(c)] /\ dirty' = dirty \ {Id(c)}
              \/ rows'[Id(c)] = rows[Id(c)] /\ dirty' = dirty \cup {Id(c)}
<1>1. Id(c) \in Ids /\ Second(c) = Id(c)
  BY BusyFacts DEF PersistBackup, At
<1>2. /\ rows' \in [Ids -> BackupInfos] /\ \A n \in Ids \ {Id(c)} : rows'[n] = rows[n]
      /\ \/ rows'[Id(c)] = obj[Id(c)] /\ dirty' = dirty \ {Id(c)}
         \/ rows'[Id(c)] = rows[Id(c)] /\ dirty' = dirty \cup {Id(c)}
  <2>1. CASE rows' = [rows EXCEPT ![Id(c)] = obj[Id(c)]] /\ dirty' = dirty \ {Id(c)}
    BY <1>1, <2>1 DEF OwnershipInv, TypeOK
  <2>2. CASE rows' = rows /\ dirty' = dirty \cup {Id(c)}
    BY <1>1, <2>2 DEF OwnershipInv, TypeOK
  <2> QED
    BY <1>1, <2>1, <2>2 DEF PersistBackup
<1>3. \/ Go(c, "retain") /\ obj[Id(c)].status = "completed" /\ ~KeepsAll(op[c].policy)
      \/ Finish(c)
  BY DEF PersistBackup, AfterSave
<1>4. /\ op' \in [Callers -> Operations] /\ OthersStay(c)
      /\ \/ Keeps(c) /\ op'[c].pc = "retain" /\ obj[Id(c)].status = "completed" /\ ~KeepsAll(op[c].policy)
         \/ op'[c] = Idle
  <2>1. CASE Finish(c)
    BY <2>1, FinishFacts DEF OwnershipInv
  <2>2. CASE Go(c, "retain") /\ obj[Id(c)].status = "completed" /\ ~KeepsAll(op[c].policy)
    <3> HIDE DEF KeepsAll
    <3>1. op' \in [Callers -> Operations] /\ op'[c].pc = "retain" /\ Keeps(c)
      BY <2>2, GoFacts DEF OwnershipInv, PCs
    <3> QED
      BY <2>2, <3>1 DEF Keeps
  <2> QED
    BY <1>3, <2>1, <2>2
<1> QED
  BY <1>2, <1>4 DEF PersistBackup, At, memVars, hostVars, settings

LEMMA RetainDoes ==
    ASSUME OwnershipInv, NEW c \in Callers, Retain(c)
    PROVE  /\ op[c].pc = "retain" /\ OthersStay(c)
           /\ op' \in [Callers -> Operations]
           /\ op'[c].pc = "prune" /\ op'[c].id = op[c].id /\ op'[c].policy = op[c].policy
           /\ op'[c].todo = {n \in backups : clock - n >= op[c].policy.minAge} \ Kept(op[c].policy)
           /\ UNCHANGED <<clock, sec, config, configured, unread, obj, backups, rows, snaps,
                          files, crashes, dirty, strays, partials>>
<1> DEFINE todo == {n \in backups : clock - n >= op[c].policy.minAge} \ Kept(op[c].policy)
<1>1. todo \in SUBSET Ids
  BY DEF OwnershipInv, TypeOK
<1>2. op' = [op EXCEPT ![c].pc = "prune", ![c].todo = todo]
  BY DEF Retain
<1> HIDE DEF todo
<1>3. op' \in [Callers -> Operations] /\ OthersStay(c)
      /\ op'[c].pc = "prune" /\ op'[c].id = op[c].id /\ op'[c].policy = op[c].policy
      /\ op'[c].todo = todo
  BY <1>1, <1>2 DEF OwnershipInv, TypeOK, Operations, OthersStay, PCs
<1> QED
  BY <1>3 DEF Retain, At, memVars, hostVars, ghosts, settings, todo

LEMMA ClaimDoes ==
    ASSUME OwnershipInv, NEW c \in Callers, NEW n, n \in Ids, Claim(c, n)
    PROVE  /\ n \in backups /\ ~IsBase(n) /\ OthersStay(c)
           /\ op' \in [Callers -> Operations]
           /\ op'[c].pc = "destroy" /\ op'[c].id = n /\ op'[c].policy = op[c].policy
           /\ op'[c].todo = op[c].todo \ {n}
           /\ backups' = backups \ {n}
           /\ UNCHANGED <<clock, sec, config, configured, unread, obj, rows, snaps, files,
                          crashes, dirty, strays, partials>>
<1>0. PICK k \in backups :
         /\ sec[k] = sec[n] /\ ~IsBase(k)
         /\ backups' = backups \ {k}
         /\ op' = [op EXCEPT ![c].pc = "destroy", ![c].id = k, ![c].todo = @ \ {n}]
  BY DEF Claim
<1>0a. k = n
  BY <1>0 DEF OwnershipInv, TypeOK, DistinctSeconds
<1>1. op[c].todo \ {n} \in SUBSET Ids /\ op[c] \in Operations
  BY DEF OwnershipInv, TypeOK, Operations
<1> DEFINE new == [op[c] EXCEPT !.pc = "destroy", !.id = n, !.todo = @ \ {n}]
<1>2. op' = [op EXCEPT ![c] = new]
  BY <1>0, <1>0a DEF OwnershipInv, TypeOK
<1>3. /\ new \in Operations /\ new.pc = "destroy" /\ new.id = n
      /\ new.policy = op[c].policy /\ new.todo = op[c].todo \ {n}
  BY <1>1 DEF Operations, PCs
<1> HIDE DEF new
<1>4. /\ op' \in [Callers -> Operations] /\ OthersStay(c) /\ op'[c] = new
  BY <1>2, <1>3 DEF OwnershipInv, TypeOK, OthersStay
<1> QED
  BY <1>0, <1>0a, <1>3, <1>4 DEF Claim, hostVars, ghosts, settings

LEMMA PruneClaimDoes ==
    ASSUME OwnershipInv, NEW c \in Callers, PruneClaim(c)
    PROVE  /\ op[c].pc = "prune" /\ \E n \in op[c].todo \cap Ids : Claim(c, n)
<1>1. op[c].todo \subseteq Ids
  BY DEF OwnershipInv, TypeOK, Operations
<1> QED
  BY <1>1, MaxFacts DEF PruneClaim, At, Claim

LEMMA PruneSkipDoes ==
    ASSUME OwnershipInv, NEW c \in Callers, PruneSkip(c)
    PROVE  /\ op[c].pc = "prune" /\ OthersStay(c)
           /\ op' \in [Callers -> Operations]
           /\ op'[c].pc = "prune" /\ op'[c].id = op[c].id /\ op'[c].policy = op[c].policy
           /\ \E n \in op[c].todo : (n \notin backups \/ IsBase(n)) /\ op'[c].todo = op[c].todo \ {n}
           /\ UNCHANGED <<clock, sec, config, configured, unread, obj, backups, rows, snaps,
                          files, crashes, dirty, strays, partials>>
<1>1. op[c].todo \subseteq Ids /\ op[c].todo # {}
  BY DEF OwnershipInv, TypeOK, Operations, PruneSkip
<1>2. PICK n \in op[c].todo : /\ (\A k \in backups : sec[k] # sec[n]) \/ IsBase(n)
                             /\ op' = [op EXCEPT ![c].todo = @ \ {n}]
  BY <1>1, MaxFacts DEF PruneSkip
<1>3. op[c].todo \ {n} \in SUBSET Ids
  BY <1>1
<1>4. op' \in [Callers -> Operations] /\ OthersStay(c)
      /\ op'[c].pc = op[c].pc /\ op'[c].id = op[c].id /\ op'[c].policy = op[c].policy
      /\ op'[c].todo = op[c].todo \ {n}
  BY <1>2, <1>3 DEF OwnershipInv, TypeOK, Operations, OthersStay
<1> QED
  BY <1>2, <1>4 DEF PruneSkip, At, memVars, hostVars, ghosts, settings

LEMMA PruneDoneDoes ==
    ASSUME OwnershipInv, NEW c \in Callers, PruneDone(c)
    PROVE  /\ op[c].pc = "prune" /\ OthersStay(c) /\ op'[c] = Idle
           /\ op' \in [Callers -> Operations]
           /\ UNCHANGED <<clock, sec, config, configured, unread, obj, backups, rows, snaps,
                          files, crashes, dirty, strays, partials>>
  BY FinishFacts DEF PruneDone, OwnershipInv, At, memVars, hostVars, ghosts, settings

LEMMA DestroySnapshotDoes ==
    ASSUME OwnershipInv, NEW c \in Callers, DestroySnapshot(c)
    PROVE  /\ op[c].pc = "destroy" /\ Keeps(c)
           /\ op' \in [Callers -> Operations]
           /\ \/ op'[c].pc = "remove" /\ snaps' = snaps \ {Id(c)}
              \/ op'[c].pc = "putBack" /\ snaps' = snaps
           /\ UNCHANGED <<clock, sec, config, configured, unread, obj, backups, rows, files,
                          crashes, dirty, strays, partials>>
<1>1. Second(c) = Id(c)
  BY BusyFacts DEF DestroySnapshot, At
<1> QED
  BY <1>1, GoFacts DEF DestroySnapshot, OwnershipInv, PCs, At, memVars, ghosts, settings

LEMMA RemoveFileDoes ==
    ASSUME OwnershipInv, NEW c \in Callers, RemoveFile(c)
    PROVE  /\ op[c].pc = "remove" /\ Keeps(c)
           /\ op' \in [Callers -> Operations]
           /\ \/ op'[c].pc = "deleteRow" /\ files' = IF obj[Id(c)].located THEN files \ {Id(c)} ELSE files
              \/ op'[c].pc = "putBack" /\ files' = files
           /\ UNCHANGED <<clock, sec, config, configured, unread, obj, backups, rows, snaps,
                          crashes, dirty, strays, partials>>
<1>1. Second(c) = Id(c)
  BY BusyFacts DEF RemoveFile, At
<1> QED
  BY <1>1, GoFacts DEF RemoveFile, OwnershipInv, PCs, At, memVars, ghosts, settings

LEMMA PutBackDoes ==
    ASSUME OwnershipInv, NEW c \in Callers, PutBack(c)
    PROVE  /\ op[c].pc = "putBack" /\ OthersStay(c)
           /\ op' \in [Callers -> Operations]
           /\ \/ op'[c] = Idle /\ op[c].policy = NoPolicy
              \/ Keeps(c) /\ op'[c].pc = "prune" /\ op[c].policy # NoPolicy
           /\ backups' = backups \cup {Id(c)}
           /\ UNCHANGED <<clock, sec, config, configured, unread, obj, rows, snaps, files,
                          crashes, dirty, strays, partials>>
<1>1. /\ op' \in [Callers -> Operations] /\ OthersStay(c)
      /\ \/ op'[c] = Idle /\ op[c].policy = NoPolicy
         \/ Keeps(c) /\ op'[c].pc = "prune" /\ op[c].policy # NoPolicy
  <2>1. CASE op[c].policy = NoPolicy
    BY <2>1, FinishFacts DEF PutBack, Return, OwnershipInv
  <2>2. CASE op[c].policy # NoPolicy
    <3>1. op' \in [Callers -> Operations] /\ op'[c].pc = "prune" /\ Keeps(c)
      BY <2>2, GoFacts DEF PutBack, Return, OwnershipInv, PCs
    <3> QED
      BY <2>2, <3>1 DEF Keeps
  <2> QED
    BY <2>1, <2>2
<1> QED
  BY <1>1 DEF PutBack, At, hostVars, ghosts, settings

LEMMA DeleteBackupRecordDoes ==
    ASSUME OwnershipInv, NEW c \in Callers, DeleteBackupRecord(c)
    PROVE  /\ op[c].pc = "deleteRow" /\ OthersStay(c)
           /\ op' \in [Callers -> Operations]
           /\ \/ op'[c] = Idle /\ op[c].policy = NoPolicy
              \/ Keeps(c) /\ op'[c].pc = "prune" /\ op[c].policy # NoPolicy
           /\ UNCHANGED <<clock, sec, config, configured, unread, obj, backups, snaps, files,
                          crashes, strays, partials>>
           /\ rows' \in [Ids -> BackupInfos] /\ \A n \in Ids \ {Id(c)} : rows'[n] = rows[n]
           /\ \/ rows'[Id(c)] = NoBackup /\ dirty' = dirty \ {Id(c)}
              \/ rows'[Id(c)] = rows[Id(c)] /\ dirty' = dirty \cup {Id(c)}
<1>1. /\ op' \in [Callers -> Operations] /\ OthersStay(c)
      /\ \/ op'[c] = Idle /\ op[c].policy = NoPolicy
         \/ Keeps(c) /\ op'[c].pc = "prune" /\ op[c].policy # NoPolicy
  <2>1. CASE op[c].policy = NoPolicy
    BY <2>1, FinishFacts DEF DeleteBackupRecord, Return, OwnershipInv
  <2>2. CASE op[c].policy # NoPolicy
    <3>1. op' \in [Callers -> Operations] /\ op'[c].pc = "prune" /\ Keeps(c)
      BY <2>2, GoFacts DEF DeleteBackupRecord, Return, OwnershipInv, PCs
    <3> QED
      BY <2>2, <3>1 DEF Keeps
  <2> QED
    BY <2>1, <2>2
<1>2. Id(c) \in Ids /\ Second(c) = Id(c)
  BY BusyFacts DEF DeleteBackupRecord, At
<1>3. NoBackup \in BackupInfos
  BY DEF NoBackup, BackupInfos, Types
<1>4. /\ rows' \in [Ids -> BackupInfos] /\ \A n \in Ids \ {Id(c)} : rows'[n] = rows[n]
      /\ \/ rows'[Id(c)] = NoBackup /\ dirty' = dirty \ {Id(c)}
         \/ rows'[Id(c)] = rows[Id(c)] /\ dirty' = dirty \cup {Id(c)}
  <2>1. CASE rows' = [rows EXCEPT ![Id(c)] = NoBackup] /\ dirty' = dirty \ {Id(c)}
    BY <1>2, <1>3, <2>1 DEF OwnershipInv, TypeOK
  <2>2. CASE rows' = rows /\ dirty' = dirty \cup {Id(c)}
    BY <1>2, <2>2 DEF OwnershipInv, TypeOK
  <2> QED
    BY <1>2, <2>1, <2>2 DEF DeleteBackupRecord
<1> QED
  BY <1>1, <1>4 DEF DeleteBackupRecord, At, memVars, hostVars, settings

LEMMA MarkVerifiedDoes ==
    ASSUME OwnershipInv, NEW c \in Callers, MarkVerified(c)
    PROVE  /\ op[c].pc = "mark" /\ Keeps(c) /\ op'[c].pc = "save"
           /\ op' \in [Callers -> Operations]
           /\ UNCHANGED <<clock, sec, config, configured, unread, backups, rows, snaps, files,
                          crashes, dirty, strays, partials>>
           /\ obj' \in [Ids -> BackupInfos] /\ \A n \in Ids \ {Id(c)} : obj'[n] = obj[n]
           /\ obj'[Id(c)].type = obj[Id(c)].type /\ obj'[Id(c)].base = obj[Id(c)].base
           /\ obj'[Id(c)].located = obj[Id(c)].located /\ obj'[Id(c)].status = obj[Id(c)].status
<1>1. Id(c) \in Ids /\ Second(c) = Id(c)
  BY BusyFacts DEF MarkVerified, At
<1>2. obj[Id(c)] \in BackupInfos
  BY <1>1 DEF OwnershipInv, TypeOK
<1> DEFINE new == [obj[Id(c)] EXCEPT !.verified = TRUE]
<1>3. obj' = [obj EXCEPT ![Id(c)] = new]
  BY <1>1 DEF MarkVerified, OwnershipInv, TypeOK
<1>4. /\ new \in BackupInfos
      /\ new.type = obj[Id(c)].type /\ new.base = obj[Id(c)].base
      /\ new.located = obj[Id(c)].located /\ new.status = obj[Id(c)].status
  BY <1>2 DEF BackupInfos
<1> HIDE DEF new
<1>5. /\ obj' \in [Ids -> BackupInfos] /\ obj'[Id(c)] = new
      /\ \A n \in Ids \ {Id(c)} : obj'[n] = obj[n]
  BY <1>1, <1>3, <1>4 DEF OwnershipInv, TypeOK
<1>6. op' \in [Callers -> Operations] /\ Keeps(c) /\ op'[c].pc = "save"
  BY GoFacts DEF MarkVerified, OwnershipInv, PCs
<1> QED
  BY <1>4, <1>5, <1>6 DEF MarkVerified, At, hostVars, ghosts, settings

LEMMA BeginCreateDoes ==
    ASSUME OwnershipInv, NEW c \in Callers, NEW type \in Types, BeginCreate(c, type),
           DistinctSeconds'
    PROVE  /\ op[c].pc = "idle" /\ OthersStay(c) /\ clock \in Nat
           /\ op' \in [Callers -> Operations]
           /\ clock' = clock + 1 /\ clock' \in Ids
           /\ op'[c].pc = "hook" /\ op'[c].id = clock' /\ op'[c].todo = {}
           /\ UNCHANGED <<sec, config, configured, unread, backups, rows, snaps, files,
                          crashes, dirty, strays, partials>>
           /\ obj' \in [Ids -> BackupInfos] /\ \A n \in Ids \ {clock'} : obj'[n] = obj[n]
           /\ obj'[clock'].type = type /\ obj'[clock'].base = 0
           /\ ~obj'[clock'].located /\ obj'[clock'].status = "running"
<1>1. clock \in Nat /\ clock' = clock + 1 /\ clock' \in Ids
  BY BackupBounds DEF BeginCreate, OwnershipInv, TypeOK, Ids
<1>2. /\ [NoBackup EXCEPT !.type = type] \in BackupInfos
      /\ [NoBackup EXCEPT !.type = type].type = type
      /\ [NoBackup EXCEPT !.type = type].base = 0
      /\ ~[NoBackup EXCEPT !.type = type].located
      /\ [NoBackup EXCEPT !.type = type].status = "running"
  BY DEF NoBackup, BackupInfos
<1>3. obj' = [obj EXCEPT ![clock'] = [NoBackup EXCEPT !.type = type]]
  BY <1>1 DEF BeginCreate
<1>4. /\ obj' \in [Ids -> BackupInfos] /\ \A n \in Ids \ {clock'} : obj'[n] = obj[n]
      /\ obj'[clock'] = [NoBackup EXCEPT !.type = type]
  BY <1>1, <1>2, <1>3 DEF OwnershipInv, TypeOK
<1> DEFINE new == [Idle EXCEPT !.pc = "hook", !.id = clock + 1, !.policy = Config]
<1>5. new \in Operations /\ new.pc = "hook" /\ new.id = clock' /\ new.todo = {}
  BY <1>1 DEF Idle, Operations, PCs, OwnershipInv, TypeOK, Config, NoPolicy
<1>6. op' = [op EXCEPT ![c] = new]
  BY DEF BeginCreate
<1> HIDE DEF new
<1>7. /\ op' \in [Callers -> Operations] /\ OthersStay(c)
      /\ op'[c].pc = "hook" /\ op'[c].id = clock' /\ op'[c].todo = {}
  BY <1>5, <1>6 DEF OwnershipInv, TypeOK, OthersStay
<1> QED
  BY <1>1, <1>2, <1>4, <1>7 DEF BeginCreate, At, hostVars, ghosts, OwnershipInv, DistinctSeconds

LEMMA VerifyBackupDoes ==
    ASSUME OwnershipInv, NEW c \in Callers, NEW n \in backups, VerifyBackup(c, n)
    PROVE  /\ op[c].pc = "idle" /\ OthersStay(c)
           /\ op' \in [Callers -> Operations]
           /\ op'[c].pc = "mark" /\ op'[c].id = n /\ op'[c].policy = NoPolicy /\ op'[c].todo = {}
           /\ UNCHANGED <<clock, sec, config, configured, unread, obj, backups, rows, snaps,
                          files, crashes, dirty, strays, partials>>
<1> DEFINE new == [Idle EXCEPT !.pc = "mark", !.id = n]
<1>1. /\ new \in Operations /\ new.pc = "mark" /\ new.id = n
      /\ new.policy = NoPolicy /\ new.todo = {}
  BY DEF Idle, Operations, PCs, OwnershipInv, TypeOK
<1>2. op' = [op EXCEPT ![c] = new]
  BY DEF VerifyBackup
<1> HIDE DEF new
<1>3. /\ op' \in [Callers -> Operations] /\ OthersStay(c)
      /\ op'[c].pc = "mark" /\ op'[c].id = n /\ op'[c].policy = NoPolicy /\ op'[c].todo = {}
  BY <1>1, <1>2 DEF OwnershipInv, TypeOK, OthersStay
<1> QED
  BY <1>3 DEF VerifyBackup, At, memVars, hostVars, ghosts, settings

LEMMA RestoreDoes ==
    ASSUME OwnershipInv, NEW c \in Callers, NEW n \in backups, Rollback(c, n) \/ Receive(c, n)
    PROVE  /\ snaps' \subseteq snaps \cup {n} /\ (n \in snaps \/ n \in files)
           /\ snaps' \subseteq Ids
           /\ UNCHANGED <<clock, sec, config, configured, unread, obj, backups, rows, files,
                          op, crashes, dirty, strays, partials>>
<1>1. n \in Ids /\ sec[n] = n
  BY DEF OwnershipInv, TypeOK, DistinctSeconds
<1> QED
  BY <1>1 DEF Rollback, Receive, OwnershipInv, TypeOK, memVars, ghosts, settings

-----------------------------------------------------------------------------
(* Every step keeps the ownership invariant. *)
(* A caller that does not step keeps its part of the invariant, when the   *)
(* step leaves alone the backup it creates or deletes.                     *)
LEMMA BystanderFits ==
    ASSUME OwnershipInv, NEW c \in Callers, NEW d \in Callers, d # c, OthersStay(c),
           UNCHANGED <<strays, unread>>, clock' \in Nat, clock' >= clock,
           \A n \in Ids : obj[n].type # "none" => obj'[n].type # "none",
           Creating(d) => /\ HasRow(Id(d))' = HasRow(Id(d)) /\ op'[c].id # Id(d)
                          /\ obj'[Id(d)].located = obj[Id(d)].located,
           Creating(d) \/ Deleting(d) =>
              /\ Id(d) \in backups' => Id(d) \in backups
              /\ Id(d) \in snaps' => Id(d) \in snaps
              /\ Id(d) \in files' <=> Id(d) \in files
              /\ Id(d) \in partials' <=> Id(d) \in partials
              /\ ~Owns(c, Id(d))'
    PROVE  OpFits(d)'
<1>1. op'[d] = op[d] /\ OpFits(d)
  BY DEF OthersStay, OwnershipInv, OpsFit
<1>2. clock \in Nat /\ 1..clock \subseteq Ids
  BY BackupBounds DEF OwnershipInv, TypeOK, Ids
<1>3. /\ At(d, "idle")' => op'[d] = Idle
      /\ ~At(d, "idle")' => /\ Id(d)' \in 1..clock' /\ Id(d)' \notin strays' \cup unread'
                             /\ obj'[Id(d)'].type # "none"
      /\ op'[d].todo \subseteq 1..clock'
  BY <1>1, <1>2 DEF OpFits, At, Id
<1>4. \A e \in Callers \ {c, d} : op'[e] = op[e]
  BY DEF OthersStay
<1>5. Creating(d)' => ~HasRow(Id(d))' /\ \A e \in Callers \ {d} : Id(e)' # Id(d)'
  BY <1>1, <1>4 DEF OpFits, Creating, Id, HasRow
<1>6. Creating(d)' \/ Deleting(d)' =>
         Id(d)' \notin backups' /\ \A e \in Callers \ {d} : ~Owns(e, Id(d))'
  BY <1>1, <1>4 DEF OpFits, Creating, Deleting, Owns, Id
<1>7. Creating(d)' /\ ~At(d, "append")' => ~obj'[Id(d)'].located
  BY <1>1 DEF OpFits, Creating, At, Id
<1>8. /\ At(d, "send")' => Id(d)' \in files'
      /\ op'[d].pc \in {"remove", "deleteRow"} => Id(d)' \notin snaps'
      /\ At(d, "deleteRow")' => Id(d)' \notin files' \ partials'
      /\ op'[d].pc \in {"hook", "base", "open", "send"} => Id(d)' \notin partials'
  BY <1>1 DEF OpFits, Creating, Deleting, At, Id
<1> QED
  BY <1>3, <1>5, <1>6, <1>7, <1>8 DEF OpFits

(* Who creates or deletes a backup is alone with it. *)
LEMMA Apart ==
    ASSUME OwnershipInv, NEW c \in Callers, NEW d \in Callers, d # c
    PROVE  /\ Creating(d) => Id(c) # Id(d)
           /\ Creating(d) \/ Deleting(d) =>
                 Id(d) \in Ids /\ Id(d) # 0 /\ Id(d) \notin backups /\ ~Owns(c, Id(d))
<1>1. OpFits(d) /\ 1..clock \subseteq Ids /\ 0 \notin Ids
  BY BackupBounds DEF OwnershipInv, OpsFit, TypeOK, Ids
<1>2. Creating(d) \/ Deleting(d) => ~At(d, "idle")
  BY DEF Creating, Deleting, At
<1> QED
  BY <1>1, <1>2 DEF OpFits

LEMMA TakeSnapshotOwns ==
    ASSUME OwnershipInv, NEW c \in Callers, TakeSnapshot(c)
    PROVE  OwnershipInv'
<1>1. /\ op[c].pc = "hook"
      /\ op' \in [Callers -> Operations]
      /\ Keeps(c) /\ op'[c].pc \in {"append", "open", "base"}
      /\ snaps' = snaps \cup {Id(c)}
      /\ UNCHANGED <<clock, sec, config, configured, unread, backups, rows, files, crashes,
                     dirty, strays, partials>>
      /\ obj' \in [Ids -> BackupInfos] /\ \A n \in Ids \ {Id(c)} : obj'[n] = obj[n]
      /\ obj'[Id(c)].type = obj[Id(c)].type /\ obj'[Id(c)].base = obj[Id(c)].base
      /\ obj'[Id(c)].located = obj[Id(c)].located
      /\ obj[Id(c)].type = "snapshot" => op'[c].pc = "append"
      /\ obj[Id(c)].type # "snapshot" => obj' = obj
      /\ op'[c].pc = "open" => obj[Id(c)].type = "full"
  BY TakeSnapshotDoes
<1>2. Id(c) \in Ids
  BY <1>1, BusyFacts DEF At
<1>3. TypeOK' /\ DistinctSeconds'
  BY <1>1, <1>2 DEF OwnershipInv, TypeOK, DistinctSeconds, Ids
<1>4. OpsFit'
  <2> SUFFICES ASSUME NEW d \in Callers PROVE OpFits(d)'
    BY DEF OpsFit
  <2>1. OpFits(c) /\ OpFits(d)
    BY DEF OwnershipInv, OpsFit
  <2>2. CASE d = c
    <3>1. /\ At(c, "idle")' => op'[c] = Idle
          /\ ~At(c, "idle")' => /\ Id(c)' \in 1..clock' /\ Id(c)' \notin strays' \cup unread'
                                 /\ obj'[Id(c)'].type # "none"
          /\ op'[c].todo \subseteq 1..clock'
      BY <1>1, <1>2, <2>1, BackupBounds DEF OwnershipInv, TypeOK, OpFits, At, Id, Keeps, Idle, Ids
    <3>2. Creating(c)' => ~HasRow(Id(c))' /\ \A e \in Callers \ {c} : Id(e)' # Id(c)'
      BY <1>1, <1>2, <2>1 DEF OpFits, Creating, Id, HasRow, Keeps, OthersStay, Idle
    <3>3. Creating(c)' \/ Deleting(c)' =>
             Id(c)' \notin backups' /\ \A e \in Callers \ {c} : ~Owns(e, Id(c))'
      BY <1>1, <1>2, <2>1 DEF OpFits, Creating, Deleting, Owns, Id, Keeps, OthersStay, Idle
    <3>4. Creating(c)' /\ ~At(c, "append")' => ~obj'[Id(c)'].located
      BY <1>1, <1>2, <2>1 DEF OpFits, Creating, At, Id, Keeps, Idle
    <3>5. /\ At(c, "send")' => Id(c)' \in files'
          /\ op'[c].pc \in {"hook", "base", "open", "send"} => Id(c)' \notin partials'
          /\ op'[c].pc \in {"remove", "deleteRow"} => Id(c)' \notin snaps'
          /\ At(c, "deleteRow")' => Id(c)' \notin files' \ partials'
      BY <1>1, <1>2, <2>1 DEF OpFits, At, Id, Keeps, Idle
    <3> QED
      BY <2>2, <3>1, <3>2, <3>3, <3>4, <3>5 DEF OpFits
  <2>3. CASE d # c
    <3>1. Creating(d) => /\ HasRow(Id(d))' = HasRow(Id(d)) /\ op'[c].id # Id(d)
                         /\ obj'[Id(d)].located = obj[Id(d)].located
      BY <1>1, <1>2, <2>3, Apart DEF Id, HasRow, Keeps, OthersStay, Idle
    <3>2. Creating(d) \/ Deleting(d) =>
             /\ Id(d) \in backups' => Id(d) \in backups
             /\ Id(d) \in snaps' => Id(d) \in snaps
             /\ Id(d) \in files' <=> Id(d) \in files
             /\ Id(d) \in partials' <=> Id(d) \in partials
             /\ ~Owns(c, Id(d))'
      BY <1>1, <1>2, <2>1, <2>3, BackupBounds DEF OwnershipInv, TypeOK, OpFits, Creating,
         Deleting, Owns, At, Id, HasRow, Keeps, OthersStay, Idle, Ids
    <3>4. \A n \in Ids : obj[n].type # "none" => obj'[n].type # "none"
      BY <1>1, <1>2 DEF Types
    <3>3. UNCHANGED <<strays, unread>> /\ clock' \in Nat /\ clock' >= clock /\ OthersStay(c)
      BY <1>1, BackupBounds DEF OwnershipInv, TypeOK, Ids, Keeps
    <3> QED
      BY <2>3, <3>1, <3>2, <3>3, <3>4, BystanderFits
  <2> QED
    BY <2>2, <2>3
<1>5. RecordsFit'
  <2>1. OpFits(c) /\ RecordsFit
    BY DEF OwnershipInv, OpsFit
  <2>2. \A n \in (backups \cup snaps \cup files \cup strays \cup partials)' : n <= clock'
    BY <1>1, <1>2, <2>1, BackupBounds DEF OwnershipInv, TypeOK, OpFits, RecordsFit, At, Id, Ids
  <2>3. ASSUME NEW n \in Ids, HasRow(n)'
        PROVE  /\ n <= clock'
               /\ rows'[n].type = obj'[n].type /\ rows'[n].status = obj'[n].status
               /\ rows'[n].base = obj'[n].base /\ rows'[n].located = obj'[n].located
    <3>1. CASE n = Id(c)
      BY <1>1, <1>2, <2>1, <2>3, <3>1, BackupBounds DEF OwnershipInv, TypeOK, OpFits,
         RecordsFit, Creating, Deleting, Owns, At, Id, HasRow, Keeps, OthersStay, Ids, NoBackup
    <3>2. CASE n # Id(c)
      BY <1>1, <1>2, <2>1, <2>3, <3>2, BackupBounds DEF OwnershipInv, TypeOK, RecordsFit,
         HasRow, Ids
    <3> QED
      BY <3>1, <3>2
  <2>4. \A n \in strays' : n \notin backups' /\ ~HasRow(n)' /\ obj'[n] = NoBackup
    BY <1>1, <1>2, <2>1, BackupBounds DEF OwnershipInv, TypeOK, OpFits, RecordsFit, At, Id,
       HasRow, Ids
  <2>5. \A n \in backups' : obj'[n].type # "none"
    BY <1>1, <1>2, <2>1 DEF OwnershipInv, TypeOK, OpFits, RecordsFit, At, Types
  <2>6. \A n \in Ids : HasRow(n)' \/ rows'[n] = NoBackup
    BY <1>1, <1>2, <2>1 DEF OpFits, RecordsFit, HasRow, At
  <2>7. \A n \in unread' : n \notin backups' /\ HasRow(n)'
    BY <1>1, <1>2, <2>1 DEF OwnershipInv, TypeOK, OpFits, RecordsFit, HasRow, At, Id
  <2> QED
    BY <2>2, <2>3, <2>4, <2>5, <2>6, <2>7 DEF RecordsFit
<1>6. FilesFit'
  BY <1>1, <1>2 DEF OwnershipInv, TypeOK, OpsFit, OpFits, FilesFit, Creating, Deleting, Owns,
     At, Id, HasRow, Keeps, OthersStay
<1>7. OwnedByWhom'
  BY <1>1, <1>2 DEF OwnershipInv, TypeOK, OpsFit, OpFits, OwnedByWhom, Creating, Deleting, Owns,
     At, Id, HasRow, Keeps, OthersStay, Ids
<1> QED
  BY <1>3, <1>4, <1>5, <1>6, <1>7 DEF OwnershipInv

LEMMA SnapshotFailsOwns ==
    ASSUME OwnershipInv, NEW c \in Callers, SnapshotFails(c)
    PROVE  OwnershipInv'
<1>1. /\ op[c].pc = "hook"
      /\ op' \in [Callers -> Operations]
      /\ Keeps(c) /\ op'[c].pc = "append"
      /\ UNCHANGED <<clock, sec, config, configured, unread, backups, rows, snaps, files,
                     crashes, dirty, strays, partials>>
      /\ obj' \in [Ids -> BackupInfos] /\ \A n \in Ids \ {Id(c)} : obj'[n] = obj[n]
      /\ obj'[Id(c)].type = obj[Id(c)].type /\ obj'[Id(c)].base = obj[Id(c)].base
      /\ obj'[Id(c)].located = obj[Id(c)].located /\ obj'[Id(c)].status = "failed"
  BY SnapshotFailsDoes
<1>2. Id(c) \in Ids
  BY <1>1, BusyFacts DEF At
<1>3. TypeOK' /\ DistinctSeconds'
  BY <1>1, <1>2 DEF OwnershipInv, TypeOK, DistinctSeconds, Ids
<1>4. OpsFit'
  <2> SUFFICES ASSUME NEW d \in Callers PROVE OpFits(d)'
    BY DEF OpsFit
  <2>1. OpFits(c) /\ OpFits(d)
    BY DEF OwnershipInv, OpsFit
  <2>2. CASE d = c
    <3>1. /\ At(c, "idle")' => op'[c] = Idle
          /\ ~At(c, "idle")' => /\ Id(c)' \in 1..clock' /\ Id(c)' \notin strays' \cup unread'
                                 /\ obj'[Id(c)'].type # "none"
          /\ op'[c].todo \subseteq 1..clock'
      BY <1>1, <1>2, <2>1 DEF OpFits, At, Id, Keeps
    <3>2. Creating(c)' => ~HasRow(Id(c))' /\ \A e \in Callers \ {c} : Id(e)' # Id(c)'
      BY <1>1, <1>2, <2>1 DEF OpFits, Creating, Id, HasRow, Keeps, OthersStay
    <3>3. Creating(c)' \/ Deleting(c)' =>
             Id(c)' \notin backups' /\ \A e \in Callers \ {c} : ~Owns(e, Id(c))'
      BY <1>1, <1>2, <2>1 DEF OpFits, Creating, Deleting, Owns, Id, Keeps, OthersStay
    <3>4. Creating(c)' /\ ~At(c, "append")' => ~obj'[Id(c)'].located
      BY <1>1, <1>2, <2>1 DEF OpFits, Creating, At, Id, Keeps
    <3>5. /\ At(c, "send")' => Id(c)' \in files'
          /\ op'[c].pc \in {"hook", "base", "open", "send"} => Id(c)' \notin partials'
          /\ op'[c].pc \in {"remove", "deleteRow"} => Id(c)' \notin snaps'
          /\ At(c, "deleteRow")' => Id(c)' \notin files' \ partials'
      BY <1>1, <1>2, <2>1 DEF OpFits, At, Id, Keeps
    <3> QED
      BY <2>2, <3>1, <3>2, <3>3, <3>4, <3>5 DEF OpFits
  <2>3. CASE d # c
    <3>1. Creating(d) => /\ HasRow(Id(d))' = HasRow(Id(d)) /\ op'[c].id # Id(d)
                         /\ obj'[Id(d)].located = obj[Id(d)].located
      BY <1>1, <1>2, <2>3, Apart DEF Id, HasRow, Keeps, OthersStay, Idle
    <3>2. Creating(d) \/ Deleting(d) =>
             /\ Id(d) \in backups' => Id(d) \in backups
             /\ Id(d) \in snaps' => Id(d) \in snaps
             /\ Id(d) \in files' <=> Id(d) \in files
             /\ Id(d) \in partials' <=> Id(d) \in partials
             /\ ~Owns(c, Id(d))'
      BY <1>1, <1>2, <2>1, <2>3, BackupBounds DEF OwnershipInv, TypeOK, OpFits, Creating,
         Deleting, Owns, At, Id, HasRow, Keeps, OthersStay, Idle, Ids
    <3>4. \A n \in Ids : obj[n].type # "none" => obj'[n].type # "none"
      BY <1>1, <1>2 DEF Types
    <3>3. UNCHANGED <<strays, unread>> /\ clock' \in Nat /\ clock' >= clock /\ OthersStay(c)
      BY <1>1, BackupBounds DEF OwnershipInv, TypeOK, Ids, Keeps
    <3> QED
      BY <2>3, <3>1, <3>2, <3>3, <3>4, BystanderFits
  <2> QED
    BY <2>2, <2>3
<1>5. RecordsFit'
  <2>1. OpFits(c) /\ RecordsFit
    BY DEF OwnershipInv, OpsFit
  <2>2. \A n \in (backups \cup snaps \cup files \cup strays \cup partials)' : n <= clock'
    BY <1>1, <1>2, <2>1, BackupBounds DEF OwnershipInv, TypeOK, OpFits, RecordsFit, At, Id, Ids
  <2>3. ASSUME NEW n \in Ids, HasRow(n)'
        PROVE  /\ n <= clock'
               /\ rows'[n].type = obj'[n].type /\ rows'[n].status = obj'[n].status
               /\ rows'[n].base = obj'[n].base /\ rows'[n].located = obj'[n].located
    <3>1. CASE n = Id(c)
      BY <1>1, <1>2, <2>1, <2>3, <3>1, BackupBounds DEF OwnershipInv, TypeOK, OpFits,
         RecordsFit, Creating, Deleting, Owns, At, Id, HasRow, Keeps, OthersStay, Ids, NoBackup
    <3>2. CASE n # Id(c)
      BY <1>1, <1>2, <2>1, <2>3, <3>2, BackupBounds DEF OwnershipInv, TypeOK, RecordsFit,
         HasRow, Ids
    <3> QED
      BY <3>1, <3>2
  <2>4. \A n \in strays' : n \notin backups' /\ ~HasRow(n)' /\ obj'[n] = NoBackup
    BY <1>1, <1>2, <2>1, BackupBounds DEF OwnershipInv, TypeOK, OpFits, RecordsFit, At, Id,
       HasRow, Ids
  <2>5. \A n \in backups' : obj'[n].type # "none"
    BY <1>1, <1>2, <2>1 DEF OwnershipInv, TypeOK, OpFits, RecordsFit, At, Types
  <2>6. \A n \in Ids : HasRow(n)' \/ rows'[n] = NoBackup
    BY <1>1, <1>2, <2>1 DEF OpFits, RecordsFit, HasRow, At
  <2>7. \A n \in unread' : n \notin backups' /\ HasRow(n)'
    BY <1>1, <1>2, <2>1 DEF OwnershipInv, TypeOK, OpFits, RecordsFit, HasRow, At, Id
  <2> QED
    BY <2>2, <2>3, <2>4, <2>5, <2>6, <2>7 DEF RecordsFit
<1>6. FilesFit'
  BY <1>1, <1>2 DEF OwnershipInv, TypeOK, OpsFit, OpFits, FilesFit, Creating, Deleting, Owns,
     At, Id, HasRow, Keeps, OthersStay
<1>7. OwnedByWhom'
  BY <1>1, <1>2 DEF OwnershipInv, TypeOK, OpsFit, OpFits, OwnedByWhom, Creating, Deleting, Owns,
     At, Id, HasRow, Keeps, OthersStay, Ids
<1> QED
  BY <1>3, <1>4, <1>5, <1>6, <1>7 DEF OwnershipInv

LEMMA ChooseBaseOwns ==
    ASSUME OwnershipInv, NEW c \in Callers, ChooseBase(c)
    PROVE  OwnershipInv'
<1>1. /\ op[c].pc = "base"
      /\ op' \in [Callers -> Operations]
      /\ Keeps(c) /\ op'[c].pc = "open"
      /\ UNCHANGED <<clock, sec, config, configured, unread, backups, rows, snaps, files,
                     crashes, dirty, strays, partials>>
      /\ obj' \in [Ids -> BackupInfos] /\ \A n \in Ids \ {Id(c)} : obj'[n] = obj[n]
      /\ obj'[Id(c)].located = obj[Id(c)].located /\ obj'[Id(c)].status = obj[Id(c)].status
      /\ obj'[Id(c)].type # "none" \/ obj[Id(c)].type = "none"
      /\ obj'[Id(c)].base \in Chainable \cup {0}
      /\ obj'[Id(c)].base = 0 => obj'[Id(c)].type = "full"
  BY ChooseBaseDoes
<1>2. Id(c) \in Ids
  BY <1>1, BusyFacts DEF At
<1>3. TypeOK' /\ DistinctSeconds'
  BY <1>1, <1>2 DEF OwnershipInv, TypeOK, DistinctSeconds, Ids
<1>4. OpsFit'
  <2> SUFFICES ASSUME NEW d \in Callers PROVE OpFits(d)'
    BY DEF OpsFit
  <2>1. OpFits(c) /\ OpFits(d)
    BY DEF OwnershipInv, OpsFit
  <2>2. CASE d = c
    <3>1. /\ At(c, "idle")' => op'[c] = Idle
          /\ ~At(c, "idle")' => /\ Id(c)' \in 1..clock' /\ Id(c)' \notin strays' \cup unread'
                                 /\ obj'[Id(c)'].type # "none"
          /\ op'[c].todo \subseteq 1..clock'
      BY <1>1, <1>2, <2>1 DEF OpFits, At, Id, Keeps
    <3>2. Creating(c)' => ~HasRow(Id(c))' /\ \A e \in Callers \ {c} : Id(e)' # Id(c)'
      BY <1>1, <1>2, <2>1 DEF OpFits, Creating, Id, HasRow, Keeps, OthersStay
    <3>3. Creating(c)' \/ Deleting(c)' =>
             Id(c)' \notin backups' /\ \A e \in Callers \ {c} : ~Owns(e, Id(c))'
      BY <1>1, <1>2, <2>1 DEF OpFits, Creating, Deleting, Owns, Id, Keeps, OthersStay
    <3>4. Creating(c)' /\ ~At(c, "append")' => ~obj'[Id(c)'].located
      BY <1>1, <1>2, <2>1 DEF OpFits, Creating, At, Id, Keeps
    <3>5. /\ At(c, "send")' => Id(c)' \in files'
          /\ op'[c].pc \in {"hook", "base", "open", "send"} => Id(c)' \notin partials'
          /\ op'[c].pc \in {"remove", "deleteRow"} => Id(c)' \notin snaps'
          /\ At(c, "deleteRow")' => Id(c)' \notin files' \ partials'
      BY <1>1, <1>2, <2>1 DEF OpFits, At, Id, Keeps
    <3> QED
      BY <2>2, <3>1, <3>2, <3>3, <3>4, <3>5 DEF OpFits
  <2>3. CASE d # c
    <3>1. Creating(d) => /\ HasRow(Id(d))' = HasRow(Id(d)) /\ op'[c].id # Id(d)
                         /\ obj'[Id(d)].located = obj[Id(d)].located
      BY <1>1, <1>2, <2>3, Apart DEF Id, HasRow, Keeps, OthersStay, Idle
    <3>2. Creating(d) \/ Deleting(d) =>
             /\ Id(d) \in backups' => Id(d) \in backups
             /\ Id(d) \in snaps' => Id(d) \in snaps
             /\ Id(d) \in files' <=> Id(d) \in files
             /\ Id(d) \in partials' <=> Id(d) \in partials
             /\ ~Owns(c, Id(d))'
      BY <1>1, <1>2, <2>1, <2>3, BackupBounds DEF OwnershipInv, TypeOK, OpFits, Creating,
         Deleting, Owns, At, Id, HasRow, Keeps, OthersStay, Idle, Ids
    <3>4. \A n \in Ids : obj[n].type # "none" => obj'[n].type # "none"
      BY <1>1, <1>2 DEF Types
    <3>3. UNCHANGED <<strays, unread>> /\ clock' \in Nat /\ clock' >= clock /\ OthersStay(c)
      BY <1>1, BackupBounds DEF OwnershipInv, TypeOK, Ids, Keeps
    <3> QED
      BY <2>3, <3>1, <3>2, <3>3, <3>4, BystanderFits
  <2> QED
    BY <2>2, <2>3
<1>5. RecordsFit'
  <2>1. OpFits(c) /\ RecordsFit
    BY DEF OwnershipInv, OpsFit
  <2>2. \A n \in (backups \cup snaps \cup files \cup strays \cup partials)' : n <= clock'
    BY <1>1, <1>2, <2>1, BackupBounds DEF OwnershipInv, TypeOK, OpFits, RecordsFit, At, Id, Ids
  <2>3. ASSUME NEW n \in Ids, HasRow(n)'
        PROVE  /\ n <= clock'
               /\ rows'[n].type = obj'[n].type /\ rows'[n].status = obj'[n].status
               /\ rows'[n].base = obj'[n].base /\ rows'[n].located = obj'[n].located
    <3>1. CASE n = Id(c)
      BY <1>1, <1>2, <2>1, <2>3, <3>1, BackupBounds DEF OwnershipInv, TypeOK, OpFits,
         RecordsFit, Creating, Deleting, Owns, At, Id, HasRow, Keeps, OthersStay, Ids, NoBackup
    <3>2. CASE n # Id(c)
      BY <1>1, <1>2, <2>1, <2>3, <3>2, BackupBounds DEF OwnershipInv, TypeOK, RecordsFit,
         HasRow, Ids
    <3> QED
      BY <3>1, <3>2
  <2>4. \A n \in strays' : n \notin backups' /\ ~HasRow(n)' /\ obj'[n] = NoBackup
    BY <1>1, <1>2, <2>1, BackupBounds DEF OwnershipInv, TypeOK, OpFits, RecordsFit, At, Id,
       HasRow, Ids
  <2>5. \A n \in backups' : obj'[n].type # "none"
    BY <1>1, <1>2, <2>1 DEF OwnershipInv, TypeOK, OpFits, RecordsFit, At, Types
  <2>6. \A n \in Ids : HasRow(n)' \/ rows'[n] = NoBackup
    BY <1>1, <1>2, <2>1 DEF OpFits, RecordsFit, HasRow, At
  <2>7. \A n \in unread' : n \notin backups' /\ HasRow(n)'
    BY <1>1, <1>2, <2>1 DEF OwnershipInv, TypeOK, OpFits, RecordsFit, HasRow, At, Id
  <2> QED
    BY <2>2, <2>3, <2>4, <2>5, <2>6, <2>7 DEF RecordsFit
<1>6. FilesFit'
  BY <1>1, <1>2 DEF OwnershipInv, TypeOK, OpsFit, OpFits, FilesFit, Creating, Deleting, Owns,
     At, Id, HasRow, Keeps, OthersStay
<1>7. OwnedByWhom'
  <2>1. \A d \in Callers, n \in Ids : Owns(d, n) => Owns(d, n)'
    BY <1>1 DEF Owns, Creating, Deleting, Id, Keeps, OthersStay
  <2> QED
    BY <1>1, <2>1 DEF OwnershipInv, OwnedByWhom, TypeOK
<1> QED
  BY <1>3, <1>4, <1>5, <1>6, <1>7 DEF OwnershipInv

LEMMA OpenStreamOwns ==
    ASSUME OwnershipInv, NEW c \in Callers, OpenStream(c)
    PROVE  OwnershipInv'
<1>1. /\ op[c].pc = "open"
      /\ op' \in [Callers -> Operations]
      /\ Keeps(c) /\ op'[c].pc = "send"
      /\ files' = files \cup {Id(c)}
      /\ UNCHANGED <<clock, sec, config, configured, unread, obj, backups, rows, snaps,
                     crashes, dirty, strays, partials>>
  BY OpenStreamDoes
<1>2. Id(c) \in Ids
  BY <1>1, BusyFacts DEF At
<1>3. TypeOK' /\ DistinctSeconds'
  BY <1>1, <1>2 DEF OwnershipInv, TypeOK, DistinctSeconds, Ids
<1>4. OpsFit'
  <2> SUFFICES ASSUME NEW d \in Callers PROVE OpFits(d)'
    BY DEF OpsFit
  <2>1. OpFits(c) /\ OpFits(d)
    BY DEF OwnershipInv, OpsFit
  <2>2. CASE d = c
    <3>1. /\ At(c, "idle")' => op'[c] = Idle
          /\ ~At(c, "idle")' => /\ Id(c)' \in 1..clock' /\ Id(c)' \notin strays' \cup unread'
                                 /\ obj'[Id(c)'].type # "none"
          /\ op'[c].todo \subseteq 1..clock'
      BY <1>1, <1>2, <2>1 DEF OpFits, At, Id, Keeps
    <3>2. Creating(c)' => ~HasRow(Id(c))' /\ \A e \in Callers \ {c} : Id(e)' # Id(c)'
      BY <1>1, <1>2, <2>1 DEF OpFits, Creating, Id, HasRow, Keeps, OthersStay
    <3>3. Creating(c)' \/ Deleting(c)' =>
             Id(c)' \notin backups' /\ \A e \in Callers \ {c} : ~Owns(e, Id(c))'
      BY <1>1, <1>2, <2>1 DEF OpFits, Creating, Deleting, Owns, Id, Keeps, OthersStay
    <3>4. Creating(c)' /\ ~At(c, "append")' => ~obj'[Id(c)'].located
      BY <1>1, <1>2, <2>1 DEF OpFits, Creating, At, Id, Keeps
    <3>5. /\ At(c, "send")' => Id(c)' \in files'
          /\ op'[c].pc \in {"hook", "base", "open", "send"} => Id(c)' \notin partials'
          /\ op'[c].pc \in {"remove", "deleteRow"} => Id(c)' \notin snaps'
          /\ At(c, "deleteRow")' => Id(c)' \notin files' \ partials'
      BY <1>1, <1>2, <2>1 DEF OpFits, At, Id, Keeps
    <3> QED
      BY <2>2, <3>1, <3>2, <3>3, <3>4, <3>5 DEF OpFits
  <2>3. CASE d # c
    <3>1. Creating(d) => /\ HasRow(Id(d))' = HasRow(Id(d)) /\ op'[c].id # Id(d)
                         /\ obj'[Id(d)].located = obj[Id(d)].located
      BY <1>1, <1>2, <2>3, Apart DEF Id, HasRow, Keeps, OthersStay, Idle
    <3>2. Creating(d) \/ Deleting(d) =>
             /\ Id(d) \in backups' => Id(d) \in backups
             /\ Id(d) \in snaps' => Id(d) \in snaps
             /\ Id(d) \in files' <=> Id(d) \in files
             /\ Id(d) \in partials' <=> Id(d) \in partials
             /\ ~Owns(c, Id(d))'
      BY <1>1, <1>2, <2>1, <2>3, BackupBounds DEF OwnershipInv, TypeOK, OpFits, Creating,
         Deleting, Owns, At, Id, HasRow, Keeps, OthersStay, Idle, Ids
    <3>4. \A n \in Ids : obj[n].type # "none" => obj'[n].type # "none"
      BY <1>1, <1>2 DEF Types
    <3>3. UNCHANGED <<strays, unread>> /\ clock' \in Nat /\ clock' >= clock /\ OthersStay(c)
      BY <1>1, BackupBounds DEF OwnershipInv, TypeOK, Ids, Keeps
    <3> QED
      BY <2>3, <3>1, <3>2, <3>3, <3>4, BystanderFits
  <2> QED
    BY <2>2, <2>3
<1>5. RecordsFit'
  BY <1>1, <1>2, BackupBounds DEF OwnershipInv, TypeOK, OpsFit, OpFits, RecordsFit, Creating,
     Deleting, Owns, At, Id, HasRow, Keeps, OthersStay, Ids
<1>6. FilesFit'
  BY <1>1, <1>2 DEF OwnershipInv, TypeOK, OpsFit, OpFits, FilesFit, Creating, Deleting, Owns,
     At, Id, HasRow, Keeps, OthersStay
<1>7. OwnedByWhom'
  BY <1>1, <1>2 DEF OwnershipInv, TypeOK, OpsFit, OpFits, OwnedByWhom, Creating, Deleting, Owns,
     At, Id, HasRow, Keeps, OthersStay, Ids
<1> QED
  BY <1>3, <1>4, <1>5, <1>6, <1>7 DEF OwnershipInv

LEMMA SendStreamOwns ==
    ASSUME OwnershipInv, NEW c \in Callers, SendStream(c)
    PROVE  OwnershipInv'
<1>1. /\ op[c].pc = "send"
      /\ op' \in [Callers -> Operations]
      /\ Keeps(c) /\ op'[c].pc = "append"
      /\ Id(c) \in snaps /\ obj[Id(c)].base \in snaps \cup {0}
      /\ UNCHANGED <<clock, sec, config, configured, unread, backups, rows, snaps, files,
                     crashes, dirty, strays, partials>>
      /\ obj' \in [Ids -> BackupInfos] /\ \A n \in Ids \ {Id(c)} : obj'[n] = obj[n]
      /\ obj'[Id(c)].type = obj[Id(c)].type /\ obj'[Id(c)].base = obj[Id(c)].base
      /\ obj'[Id(c)].located /\ obj'[Id(c)].status = "completed"
  BY SendStreamDoes
<1>2. Id(c) \in Ids
  BY <1>1, BusyFacts DEF At
<1>3. TypeOK' /\ DistinctSeconds'
  BY <1>1, <1>2 DEF OwnershipInv, TypeOK, DistinctSeconds, Ids
<1>4. OpsFit'
  <2> SUFFICES ASSUME NEW d \in Callers PROVE OpFits(d)'
    BY DEF OpsFit
  <2>1. OpFits(c) /\ OpFits(d)
    BY DEF OwnershipInv, OpsFit
  <2>2. CASE d = c
    <3>1. /\ At(c, "idle")' => op'[c] = Idle
          /\ ~At(c, "idle")' => /\ Id(c)' \in 1..clock' /\ Id(c)' \notin strays' \cup unread'
                                 /\ obj'[Id(c)'].type # "none"
          /\ op'[c].todo \subseteq 1..clock'
      BY <1>1, <1>2, <2>1, BackupBounds DEF OwnershipInv, TypeOK, OpFits, At, Id, Keeps, Idle, Ids
    <3>2. Creating(c)' => ~HasRow(Id(c))' /\ \A e \in Callers \ {c} : Id(e)' # Id(c)'
      BY <1>1, <1>2, <2>1 DEF OpFits, Creating, Id, HasRow, Keeps, OthersStay, Idle
    <3>3. Creating(c)' \/ Deleting(c)' =>
             Id(c)' \notin backups' /\ \A e \in Callers \ {c} : ~Owns(e, Id(c))'
      BY <1>1, <1>2, <2>1 DEF OpFits, Creating, Deleting, Owns, Id, Keeps, OthersStay, Idle
    <3>4. Creating(c)' /\ ~At(c, "append")' => ~obj'[Id(c)'].located
      BY <1>1, <1>2, <2>1 DEF OpFits, Creating, At, Id, Keeps, Idle
    <3>5. /\ At(c, "send")' => Id(c)' \in files'
          /\ op'[c].pc \in {"hook", "base", "open", "send"} => Id(c)' \notin partials'
          /\ op'[c].pc \in {"remove", "deleteRow"} => Id(c)' \notin snaps'
          /\ At(c, "deleteRow")' => Id(c)' \notin files' \ partials'
      BY <1>1, <1>2, <2>1 DEF OpFits, At, Id, Keeps, Idle
    <3> QED
      BY <2>2, <3>1, <3>2, <3>3, <3>4, <3>5 DEF OpFits
  <2>3. CASE d # c
    <3>1. Creating(d) => /\ HasRow(Id(d))' = HasRow(Id(d)) /\ op'[c].id # Id(d)
                         /\ obj'[Id(d)].located = obj[Id(d)].located
      BY <1>1, <1>2, <2>3, Apart DEF Id, HasRow, Keeps, OthersStay, Idle
    <3>2. Creating(d) \/ Deleting(d) =>
             /\ Id(d) \in backups' => Id(d) \in backups
             /\ Id(d) \in snaps' => Id(d) \in snaps
             /\ Id(d) \in files' <=> Id(d) \in files
             /\ Id(d) \in partials' <=> Id(d) \in partials
             /\ ~Owns(c, Id(d))'
      BY <1>1, <1>2, <2>1, <2>3, BackupBounds DEF OwnershipInv, TypeOK, OpFits, Creating,
         Deleting, Owns, At, Id, HasRow, Keeps, OthersStay, Idle, Ids
    <3>4. \A n \in Ids : obj[n].type # "none" => obj'[n].type # "none"
      BY <1>1, <1>2 DEF Types
    <3>3. UNCHANGED <<strays, unread>> /\ clock' \in Nat /\ clock' >= clock /\ OthersStay(c)
      BY <1>1, BackupBounds DEF OwnershipInv, TypeOK, Ids, Keeps
    <3> QED
      BY <2>3, <3>1, <3>2, <3>3, <3>4, BystanderFits
  <2> QED
    BY <2>2, <2>3
<1>5. RecordsFit'
  <2>1. OpFits(c) /\ RecordsFit
    BY DEF OwnershipInv, OpsFit
  <2>2. \A n \in (backups \cup snaps \cup files \cup strays \cup partials)' : n <= clock'
    BY <1>1, <1>2, <2>1, BackupBounds DEF OwnershipInv, TypeOK, OpFits, RecordsFit, At, Id, Ids
  <2>3. ASSUME NEW n \in Ids, HasRow(n)'
        PROVE  /\ n <= clock'
               /\ rows'[n].type = obj'[n].type /\ rows'[n].status = obj'[n].status
               /\ rows'[n].base = obj'[n].base /\ rows'[n].located = obj'[n].located
    <3>1. CASE n = Id(c)
      BY <1>1, <1>2, <2>1, <2>3, <3>1, BackupBounds DEF OwnershipInv, TypeOK, OpFits,
         RecordsFit, Creating, Deleting, Owns, At, Id, HasRow, Keeps, OthersStay, Ids, NoBackup
    <3>2. CASE n # Id(c)
      BY <1>1, <1>2, <2>1, <2>3, <3>2, BackupBounds DEF OwnershipInv, TypeOK, RecordsFit,
         HasRow, Ids
    <3> QED
      BY <3>1, <3>2
  <2>4. \A n \in strays' : n \notin backups' /\ ~HasRow(n)' /\ obj'[n] = NoBackup
    BY <1>1, <1>2, <2>1, BackupBounds DEF OwnershipInv, TypeOK, OpFits, RecordsFit, At, Id,
       HasRow, Ids
  <2>5. \A n \in backups' : obj'[n].type # "none"
    BY <1>1, <1>2, <2>1 DEF OwnershipInv, TypeOK, OpFits, RecordsFit, At, Types
  <2>6. \A n \in Ids : HasRow(n)' \/ rows'[n] = NoBackup
    BY <1>1, <1>2, <2>1 DEF OpFits, RecordsFit, HasRow, At
  <2>7. \A n \in unread' : n \notin backups' /\ HasRow(n)'
    BY <1>1, <1>2, <2>1 DEF OwnershipInv, TypeOK, OpFits, RecordsFit, HasRow, At, Id
  <2> QED
    BY <2>2, <2>3, <2>4, <2>5, <2>6, <2>7 DEF RecordsFit
<1>6. FilesFit'
  BY <1>1, <1>2 DEF OwnershipInv, TypeOK, OpsFit, OpFits, FilesFit, Creating, Deleting, Owns,
     At, Id, HasRow, Keeps, OthersStay
<1>7. OwnedByWhom'
  BY <1>1, <1>2 DEF OwnershipInv, TypeOK, OpsFit, OpFits, OwnedByWhom, Creating, Deleting, Owns,
     At, Id, HasRow, Keeps, OthersStay, Ids
<1> QED
  BY <1>3, <1>4, <1>5, <1>6, <1>7 DEF OwnershipInv

LEMMA StreamFailsOwns ==
    ASSUME OwnershipInv, NEW c \in Callers, StreamFails(c)
    PROVE  OwnershipInv'
<1>1. /\ op[c].pc \in {"open", "send"}
      /\ op' \in [Callers -> Operations]
      /\ Keeps(c) /\ op'[c].pc = "unsnap"
      /\ \/ Id(c) \notin files' /\ partials' = partials
         \/ Id(c) \in files /\ op[c].pc = "send" /\ partials' = partials \cup {Id(c)}
      /\ \A n \in Ids \ {Id(c)} : n \in files' <=> n \in files
      /\ files' \subseteq files
      /\ UNCHANGED <<clock, sec, config, configured, unread, backups, rows, snaps, crashes,
                     dirty, strays>>
      /\ obj' \in [Ids -> BackupInfos] /\ \A n \in Ids \ {Id(c)} : obj'[n] = obj[n]
      /\ obj'[Id(c)].type = obj[Id(c)].type /\ obj'[Id(c)].base = obj[Id(c)].base
      /\ obj'[Id(c)].located = obj[Id(c)].located /\ obj'[Id(c)].status = "failed"
  BY StreamFailsDoes
<1>2. Id(c) \in Ids
  BY <1>1, BusyFacts DEF At
<1>3. TypeOK' /\ DistinctSeconds'
  BY <1>1, <1>2 DEF OwnershipInv, TypeOK, DistinctSeconds, Ids
<1>4. OpsFit'
  <2> SUFFICES ASSUME NEW d \in Callers PROVE OpFits(d)'
    BY DEF OpsFit
  <2>1. OpFits(c) /\ OpFits(d)
    BY DEF OwnershipInv, OpsFit
  <2>2. CASE d = c
    <3>1. /\ At(c, "idle")' => op'[c] = Idle
          /\ ~At(c, "idle")' => /\ Id(c)' \in 1..clock' /\ Id(c)' \notin strays' \cup unread'
                                 /\ obj'[Id(c)'].type # "none"
          /\ op'[c].todo \subseteq 1..clock'
      BY <1>1, <1>2, <2>1, BackupBounds DEF OwnershipInv, TypeOK, OpFits, At, Id, Keeps, Idle, Ids
    <3>2. Creating(c)' => ~HasRow(Id(c))' /\ \A e \in Callers \ {c} : Id(e)' # Id(c)'
      BY <1>1, <1>2, <2>1 DEF OpFits, Creating, Id, HasRow, Keeps, OthersStay, Idle
    <3>3. Creating(c)' \/ Deleting(c)' =>
             Id(c)' \notin backups' /\ \A e \in Callers \ {c} : ~Owns(e, Id(c))'
      BY <1>1, <1>2, <2>1 DEF OpFits, Creating, Deleting, Owns, Id, Keeps, OthersStay, Idle
    <3>4. Creating(c)' /\ ~At(c, "append")' => ~obj'[Id(c)'].located
      BY <1>1, <1>2, <2>1 DEF OpFits, Creating, At, Id, Keeps, Idle
    <3>5. /\ At(c, "send")' => Id(c)' \in files'
          /\ op'[c].pc \in {"hook", "base", "open", "send"} => Id(c)' \notin partials'
          /\ op'[c].pc \in {"remove", "deleteRow"} => Id(c)' \notin snaps'
          /\ At(c, "deleteRow")' => Id(c)' \notin files' \ partials'
      BY <1>1, <1>2, <2>1 DEF OpFits, At, Id, Keeps, Idle
    <3> QED
      BY <2>2, <3>1, <3>2, <3>3, <3>4, <3>5 DEF OpFits
  <2>3. CASE d # c
    <3>1. Creating(d) => /\ HasRow(Id(d))' = HasRow(Id(d)) /\ op'[c].id # Id(d)
                         /\ obj'[Id(d)].located = obj[Id(d)].located
      BY <1>1, <1>2, <2>3, Apart DEF Id, HasRow, Keeps, OthersStay, Idle
    <3>2. Creating(d) \/ Deleting(d) =>
             /\ Id(d) \in backups' => Id(d) \in backups
             /\ Id(d) \in snaps' => Id(d) \in snaps
             /\ Id(d) \in files' <=> Id(d) \in files
             /\ Id(d) \in partials' <=> Id(d) \in partials
             /\ ~Owns(c, Id(d))'
      BY <1>1, <1>2, <2>3, Apart DEF Owns, Creating, Deleting, Id, Keeps, OthersStay, Idle
    <3>4. \A n \in Ids : obj[n].type # "none" => obj'[n].type # "none"
      BY <1>1, <1>2 DEF Types
    <3>3. UNCHANGED <<strays, unread>> /\ clock' \in Nat /\ clock' >= clock /\ OthersStay(c)
      BY <1>1, BackupBounds DEF OwnershipInv, TypeOK, Ids, Keeps
    <3> QED
      BY <2>3, <3>1, <3>2, <3>3, <3>4, BystanderFits
  <2> QED
    BY <2>2, <2>3
<1>5. RecordsFit'
  <2>1. OpFits(c) /\ RecordsFit
    BY DEF OwnershipInv, OpsFit
  <2>2. \A n \in (backups \cup snaps \cup files \cup strays \cup partials)' : n <= clock'
    BY <1>1, <1>2, <2>1, BackupBounds DEF OwnershipInv, TypeOK, OpFits, RecordsFit, At, Id, Ids
  <2>3. ASSUME NEW n \in Ids, HasRow(n)'
        PROVE  /\ n <= clock'
               /\ rows'[n].type = obj'[n].type /\ rows'[n].status = obj'[n].status
               /\ rows'[n].base = obj'[n].base /\ rows'[n].located = obj'[n].located
    <3>1. CASE n = Id(c)
      BY <1>1, <1>2, <2>1, <2>3, <3>1, BackupBounds DEF OwnershipInv, TypeOK, OpFits,
         RecordsFit, Creating, Deleting, Owns, At, Id, HasRow, Keeps, OthersStay, Ids, NoBackup
    <3>2. CASE n # Id(c)
      BY <1>1, <1>2, <2>1, <2>3, <3>2, BackupBounds DEF OwnershipInv, TypeOK, RecordsFit,
         HasRow, Ids
    <3> QED
      BY <3>1, <3>2
  <2>4. \A n \in strays' : n \notin backups' /\ ~HasRow(n)' /\ obj'[n] = NoBackup
    BY <1>1, <1>2, <2>1, BackupBounds DEF OwnershipInv, TypeOK, OpFits, RecordsFit, At, Id,
       HasRow, Ids
  <2>5. \A n \in backups' : obj'[n].type # "none"
    BY <1>1, <1>2, <2>1 DEF OwnershipInv, TypeOK, OpFits, RecordsFit, At, Types
  <2>6. \A n \in Ids : HasRow(n)' \/ rows'[n] = NoBackup
    BY <1>1, <1>2, <2>1 DEF OpFits, RecordsFit, HasRow, At
  <2>7. \A n \in unread' : n \notin backups' /\ HasRow(n)'
    BY <1>1, <1>2, <2>1 DEF OwnershipInv, TypeOK, OpFits, RecordsFit, HasRow, At, Id
  <2> QED
    BY <2>2, <2>3, <2>4, <2>5, <2>6, <2>7 DEF RecordsFit
<1>6. FilesFit'
  BY <1>1, <1>2 DEF OwnershipInv, TypeOK, OpsFit, OpFits, FilesFit, Creating, Deleting, Owns,
     At, Id, HasRow, Keeps, OthersStay
<1>7. OwnedByWhom'
  BY <1>1, <1>2 DEF OwnershipInv, TypeOK, OpsFit, OpFits, OwnedByWhom, Creating, Deleting, Owns,
     At, Id, HasRow, Keeps, OthersStay, Ids
<1> QED
  BY <1>3, <1>4, <1>5, <1>6, <1>7 DEF OwnershipInv

LEMMA CleanSnapshotOwns ==
    ASSUME OwnershipInv, NEW c \in Callers, CleanSnapshot(c)
    PROVE  OwnershipInv'
<1>1. /\ op[c].pc = "unsnap"
      /\ op' \in [Callers -> Operations]
      /\ Keeps(c) /\ op'[c].pc = "append"
      /\ snaps' \subseteq snaps /\ snaps \subseteq snaps' \cup {Id(c)}
      /\ UNCHANGED <<clock, sec, config, configured, unread, obj, backups, rows, files,
                     crashes, dirty, strays, partials>>
  BY CleanSnapshotDoes
<1>2. Id(c) \in Ids
  BY <1>1, BusyFacts DEF At
<1>3. TypeOK' /\ DistinctSeconds'
  BY <1>1, <1>2 DEF OwnershipInv, TypeOK, DistinctSeconds, Ids
<1>4. OpsFit'
  <2> SUFFICES ASSUME NEW d \in Callers PROVE OpFits(d)'
    BY DEF OpsFit
  <2>1. OpFits(c) /\ OpFits(d)
    BY DEF OwnershipInv, OpsFit
  <2>2. CASE d = c
    <3>1. /\ At(c, "idle")' => op'[c] = Idle
          /\ ~At(c, "idle")' => /\ Id(c)' \in 1..clock' /\ Id(c)' \notin strays' \cup unread'
                                 /\ obj'[Id(c)'].type # "none"
          /\ op'[c].todo \subseteq 1..clock'
      BY <1>1, <1>2, <2>1 DEF OpFits, At, Id, Keeps
    <3>2. Creating(c)' => ~HasRow(Id(c))' /\ \A e \in Callers \ {c} : Id(e)' # Id(c)'
      BY <1>1, <1>2, <2>1 DEF OpFits, Creating, Id, HasRow, Keeps, OthersStay
    <3>3. Creating(c)' \/ Deleting(c)' =>
             Id(c)' \notin backups' /\ \A e \in Callers \ {c} : ~Owns(e, Id(c))'
      BY <1>1, <1>2, <2>1 DEF OpFits, Creating, Deleting, Owns, Id, Keeps, OthersStay
    <3>4. Creating(c)' /\ ~At(c, "append")' => ~obj'[Id(c)'].located
      BY <1>1, <1>2, <2>1 DEF OpFits, Creating, At, Id, Keeps
    <3>5. /\ At(c, "send")' => Id(c)' \in files'
          /\ op'[c].pc \in {"hook", "base", "open", "send"} => Id(c)' \notin partials'
          /\ op'[c].pc \in {"remove", "deleteRow"} => Id(c)' \notin snaps'
          /\ At(c, "deleteRow")' => Id(c)' \notin files' \ partials'
      BY <1>1, <1>2, <2>1 DEF OpFits, At, Id, Keeps
    <3> QED
      BY <2>2, <3>1, <3>2, <3>3, <3>4, <3>5 DEF OpFits
  <2>3. CASE d # c
    <3>1. Creating(d) => /\ HasRow(Id(d))' = HasRow(Id(d)) /\ op'[c].id # Id(d)
                         /\ obj'[Id(d)].located = obj[Id(d)].located
      BY <1>1, <1>2, <2>3, Apart DEF Id, HasRow, Keeps, OthersStay, Idle
    <3>2. Creating(d) \/ Deleting(d) =>
             /\ Id(d) \in backups' => Id(d) \in backups
             /\ Id(d) \in snaps' => Id(d) \in snaps
             /\ Id(d) \in files' <=> Id(d) \in files
             /\ Id(d) \in partials' <=> Id(d) \in partials
             /\ ~Owns(c, Id(d))'
      BY <1>1, <1>2, <2>1, <2>3, BackupBounds DEF OwnershipInv, TypeOK, OpFits, Creating,
         Deleting, Owns, At, Id, HasRow, Keeps, OthersStay, Idle, Ids
    <3>4. \A n \in Ids : obj[n].type # "none" => obj'[n].type # "none"
      BY <1>1, <1>2 DEF Types
    <3>3. UNCHANGED <<strays, unread>> /\ clock' \in Nat /\ clock' >= clock /\ OthersStay(c)
      BY <1>1, BackupBounds DEF OwnershipInv, TypeOK, Ids, Keeps
    <3> QED
      BY <2>3, <3>1, <3>2, <3>3, <3>4, BystanderFits
  <2> QED
    BY <2>2, <2>3
<1>5. RecordsFit'
  BY <1>1, <1>2, BackupBounds DEF OwnershipInv, TypeOK, OpsFit, OpFits, RecordsFit, Creating,
     Deleting, Owns, At, Id, HasRow, Keeps, OthersStay, Ids
<1>6. FilesFit'
  BY <1>1, <1>2 DEF OwnershipInv, TypeOK, OpsFit, OpFits, FilesFit, Creating, Deleting, Owns,
     At, Id, HasRow, Keeps, OthersStay
<1>7. OwnedByWhom'
  BY <1>1, <1>2 DEF OwnershipInv, TypeOK, OpsFit, OpFits, OwnedByWhom, Creating, Deleting, Owns,
     At, Id, HasRow, Keeps, OthersStay, Ids
<1> QED
  BY <1>3, <1>4, <1>5, <1>6, <1>7 DEF OwnershipInv

LEMMA AddBackupOwns ==
    ASSUME OwnershipInv, NEW c \in Callers, AddBackup(c)
    PROVE  OwnershipInv'
<1>1. /\ op[c].pc = "append"
      /\ op' \in [Callers -> Operations]
      /\ Keeps(c) /\ op'[c].pc = "save"
      /\ backups' = backups \cup {Id(c)}
      /\ UNCHANGED <<clock, sec, config, configured, unread, obj, rows, snaps, files, crashes,
                     dirty, strays, partials>>
  BY AddBackupDoes
<1>2. Id(c) \in Ids
  BY <1>1, BusyFacts DEF At
<1>3. TypeOK' /\ DistinctSeconds'
  BY <1>1, <1>2 DEF OwnershipInv, TypeOK, DistinctSeconds, Ids
<1>4. OpsFit'
  <2> SUFFICES ASSUME NEW d \in Callers PROVE OpFits(d)'
    BY DEF OpsFit
  <2>1. OpFits(c) /\ OpFits(d)
    BY DEF OwnershipInv, OpsFit
  <2>2. CASE d = c
    BY <1>1, <1>2, <2>1, <2>2, BackupBounds DEF OwnershipInv, TypeOK, OpFits, Creating,
       Deleting, Owns, At, Id, HasRow, Keeps, OthersStay, Idle, Ids
  <2>3. CASE d # c
    <3>1. Creating(d) => /\ HasRow(Id(d))' = HasRow(Id(d)) /\ op'[c].id # Id(d)
                         /\ obj'[Id(d)].located = obj[Id(d)].located
      BY <1>1, <1>2, <2>3, Apart DEF Id, HasRow, Keeps, OthersStay, Idle
    <3>2. Creating(d) \/ Deleting(d) =>
             /\ Id(d) \in backups' => Id(d) \in backups
             /\ Id(d) \in snaps' => Id(d) \in snaps
             /\ Id(d) \in files' <=> Id(d) \in files
             /\ Id(d) \in partials' <=> Id(d) \in partials
             /\ ~Owns(c, Id(d))'
      BY <1>1, <1>2, <2>1, <2>3, BackupBounds DEF OwnershipInv, TypeOK, OpFits, Creating,
         Deleting, Owns, At, Id, HasRow, Keeps, OthersStay, Idle, Ids
    <3>4. \A n \in Ids : obj[n].type # "none" => obj'[n].type # "none"
      BY <1>1, <1>2 DEF Types
    <3>3. UNCHANGED <<strays, unread>> /\ clock' \in Nat /\ clock' >= clock /\ OthersStay(c)
      BY <1>1, BackupBounds DEF OwnershipInv, TypeOK, Ids, Keeps
    <3> QED
      BY <2>3, <3>1, <3>2, <3>3, <3>4, BystanderFits
  <2> QED
    BY <2>2, <2>3
<1>5. RecordsFit'
  BY <1>1, <1>2, BackupBounds DEF OwnershipInv, TypeOK, OpsFit, OpFits, RecordsFit, Creating,
     Deleting, Owns, At, Id, HasRow, Keeps, OthersStay, Ids
<1>6. FilesFit'
  BY <1>1, <1>2 DEF OwnershipInv, TypeOK, OpsFit, OpFits, FilesFit, Creating, Deleting, Owns,
     At, Id, HasRow, Keeps, OthersStay
<1>7. OwnedByWhom'
  BY <1>1, <1>2 DEF OwnershipInv, TypeOK, OpsFit, OpFits, OwnedByWhom, Creating, Deleting, Owns,
     At, Id, HasRow, Keeps, OthersStay, Ids
<1> QED
  BY <1>3, <1>4, <1>5, <1>6, <1>7 DEF OwnershipInv

LEMMA PersistBackupOwns ==
    ASSUME OwnershipInv, NEW c \in Callers, PersistBackup(c)
    PROVE  OwnershipInv'
<1>1. /\ op[c].pc = "save" /\ OthersStay(c)
      /\ op' \in [Callers -> Operations]
      /\ \/ Keeps(c) /\ op'[c].pc = "retain" /\ obj[Id(c)].status = "completed" /\ ~KeepsAll(op[c].policy)
         \/ op'[c] = Idle
      /\ UNCHANGED <<clock, sec, config, configured, unread, obj, backups, snaps, files,
                     crashes, strays, partials>>
      /\ rows' \in [Ids -> BackupInfos] /\ \A n \in Ids \ {Id(c)} : rows'[n] = rows[n]
      /\ \/ rows'[Id(c)] = obj[Id(c)] /\ dirty' = dirty \ {Id(c)}
         \/ rows'[Id(c)] = rows[Id(c)] /\ dirty' = dirty \cup {Id(c)}
  BY PersistBackupDoes
<1>2. Id(c) \in Ids
  BY <1>1, BusyFacts DEF At
<1>3. TypeOK' /\ DistinctSeconds'
  BY <1>1, <1>2 DEF OwnershipInv, TypeOK, DistinctSeconds, Ids
<1>4. OpsFit'
  <2> SUFFICES ASSUME NEW d \in Callers PROVE OpFits(d)'
    BY DEF OpsFit
  <2>1. OpFits(c) /\ OpFits(d)
    BY DEF OwnershipInv, OpsFit
  <2>2. CASE d = c
    <3>1. /\ At(c, "idle")' => op'[c] = Idle
          /\ ~At(c, "idle")' => /\ Id(c)' \in 1..clock' /\ Id(c)' \notin strays' \cup unread'
                                 /\ obj'[Id(c)'].type # "none"
          /\ op'[c].todo \subseteq 1..clock'
      <4>1. CASE op'[c] = Idle
        BY <4>1 DEF At, Id, Idle
      <4>2. CASE Keeps(c)
        BY <1>1, <2>1, <4>2 DEF OpFits, At, Id, Keeps
      <4> QED
        BY <1>1, <4>1, <4>2
    <3>2. Creating(c)' => ~HasRow(Id(c))' /\ \A e \in Callers \ {c} : Id(e)' # Id(c)'
      BY <1>1, <1>2, <2>1 DEF OpFits, Creating, Id, HasRow, Keeps, OthersStay, Idle
    <3>3. Creating(c)' \/ Deleting(c)' =>
             Id(c)' \notin backups' /\ \A e \in Callers \ {c} : ~Owns(e, Id(c))'
      BY <1>1, <1>2, <2>1 DEF OpFits, Creating, Deleting, Owns, Id, Keeps, OthersStay, Idle
    <3>4. Creating(c)' /\ ~At(c, "append")' => ~obj'[Id(c)'].located
      BY <1>1, <1>2, <2>1 DEF OpFits, Creating, At, Id, Keeps, Idle
    <3>5. /\ At(c, "send")' => Id(c)' \in files'
          /\ op'[c].pc \in {"hook", "base", "open", "send"} => Id(c)' \notin partials'
          /\ op'[c].pc \in {"remove", "deleteRow"} => Id(c)' \notin snaps'
          /\ At(c, "deleteRow")' => Id(c)' \notin files' \ partials'
      BY <1>1, <1>2, <2>1 DEF OpFits, At, Id, Keeps, Idle
    <3> QED
      BY <2>2, <3>1, <3>2, <3>3, <3>4, <3>5 DEF OpFits
  <2>3. CASE d # c
    <3>1. Creating(d) => /\ HasRow(Id(d))' = HasRow(Id(d)) /\ op'[c].id # Id(d)
                         /\ obj'[Id(d)].located = obj[Id(d)].located
      BY <1>1, <1>2, <2>3, Apart DEF Id, HasRow, Keeps, OthersStay, Idle
    <3>2. Creating(d) \/ Deleting(d) =>
             /\ Id(d) \in backups' => Id(d) \in backups
             /\ Id(d) \in snaps' => Id(d) \in snaps
             /\ Id(d) \in files' <=> Id(d) \in files
             /\ Id(d) \in partials' <=> Id(d) \in partials
             /\ ~Owns(c, Id(d))'
      BY <1>1, <1>2, <2>3, Apart DEF Owns, Creating, Deleting, Id, Keeps, OthersStay, Idle
    <3>4. \A n \in Ids : obj[n].type # "none" => obj'[n].type # "none"
      BY <1>1, <1>2 DEF Types
    <3>3. UNCHANGED <<strays, unread>> /\ clock' \in Nat /\ clock' >= clock /\ OthersStay(c)
      BY <1>1, BackupBounds DEF OwnershipInv, TypeOK, Ids, Keeps
    <3> QED
      BY <2>3, <3>1, <3>2, <3>3, <3>4, BystanderFits
  <2> QED
    BY <2>2, <2>3
<1>5. RecordsFit'
  <2>1. OpFits(c) /\ RecordsFit
    BY DEF OwnershipInv, OpsFit
  <2>2. \A n \in (backups \cup snaps \cup files \cup strays \cup partials)' : n <= clock'
    BY <1>1, <1>2, <2>1, BackupBounds DEF OwnershipInv, TypeOK, OpFits, RecordsFit, At, Id, Ids
  <2>3. ASSUME NEW n \in Ids, HasRow(n)'
        PROVE  /\ n <= clock'
               /\ rows'[n].type = obj'[n].type /\ rows'[n].status = obj'[n].status
               /\ rows'[n].base = obj'[n].base /\ rows'[n].located = obj'[n].located
    <3>1. CASE n = Id(c)
      <4>1. n <= clock' /\ n \in Ids
        BY <1>1, <1>2, <2>1, <3>1 DEF OpFits, At
      <4>2. CASE rows'[Id(c)] = obj[Id(c)]
        BY <1>1, <2>3, <3>1, <4>1, <4>2 DEF HasRow, NoBackup
      <4>3. CASE rows'[Id(c)] = rows[Id(c)]
        BY <1>1, <2>1, <2>3, <3>1, <4>1, <4>3 DEF RecordsFit, HasRow
      <4> QED
        BY <1>1, <4>2, <4>3
    <3>2. CASE n # Id(c)
      BY <1>1, <1>2, <2>1, <2>3, <3>2, BackupBounds DEF OwnershipInv, TypeOK, RecordsFit,
         HasRow, Ids
    <3> QED
      BY <3>1, <3>2
  <2>4. \A n \in strays' : n \notin backups' /\ ~HasRow(n)' /\ obj'[n] = NoBackup
    <3>1. Id(c) \notin strays
      BY <1>1, <2>1 DEF OpFits, At
    <3> QED
      BY <1>1, <2>1, <3>1 DEF OwnershipInv, TypeOK, RecordsFit, HasRow
  <2>5. \A n \in backups' : obj'[n].type # "none"
    BY <1>1, <1>2, <2>1 DEF OwnershipInv, TypeOK, OpFits, RecordsFit, At, Types
  <2>6. \A n \in Ids : HasRow(n)' \/ rows'[n] = NoBackup
    BY <1>1, <1>2, <2>1 DEF OpFits, RecordsFit, HasRow, At
  <2>7. \A n \in unread' : n \notin backups' /\ HasRow(n)'
    BY <1>1, <1>2, <2>1 DEF OwnershipInv, TypeOK, OpFits, RecordsFit, HasRow, At, Id
  <2> QED
    BY <2>2, <2>3, <2>4, <2>5, <2>6, <2>7 DEF RecordsFit
<1>6. FilesFit'
  BY <1>1, <1>2 DEF OwnershipInv, TypeOK, OpsFit, OpFits, FilesFit, Creating, Deleting, Owns,
     At, Id, HasRow, Keeps, OthersStay
<1>7. OwnedByWhom'
  BY <1>1, <1>2 DEF OwnershipInv, TypeOK, OpsFit, OpFits, OwnedByWhom, Creating, Deleting, Owns,
     At, Id, HasRow, Keeps, OthersStay, Ids
<1> QED
  BY <1>3, <1>4, <1>5, <1>6, <1>7 DEF OwnershipInv

LEMMA RetainOwns ==
    ASSUME OwnershipInv, NEW c \in Callers, Retain(c)
    PROVE  OwnershipInv'
<1>1. /\ op[c].pc = "retain" /\ OthersStay(c)
      /\ op' \in [Callers -> Operations]
      /\ op'[c].pc = "prune" /\ op'[c].id = op[c].id /\ op'[c].policy = op[c].policy
      /\ op'[c].todo = {n \in backups : clock - n >= op[c].policy.minAge} \ Kept(op[c].policy)
      /\ UNCHANGED <<clock, sec, config, configured, unread, obj, backups, rows, snaps, files,
                     crashes, dirty, strays, partials>>
  BY RetainDoes
<1>2. Id(c) \in Ids
  BY <1>1, BusyFacts DEF At
<1>3. TypeOK' /\ DistinctSeconds'
  BY <1>1, <1>2 DEF OwnershipInv, TypeOK, DistinctSeconds, Ids
<1>4. OpsFit'
  <2> SUFFICES ASSUME NEW d \in Callers PROVE OpFits(d)'
    BY DEF OpsFit
  <2>1. OpFits(c) /\ OpFits(d)
    BY DEF OwnershipInv, OpsFit
  <2>1a. op'[c].todo \subseteq 1..clock
    <3>1. backups \subseteq 1..clock
      BY BackupBounds DEF OwnershipInv, TypeOK, RecordsFit, Ids
    <3>2. op'[c].todo \subseteq backups
      BY <1>1
    <3> QED
      BY <3>1, <3>2
  <2>2. CASE d = c
    BY <1>1, <1>2, <2>1, <2>1a, <2>2, BackupBounds DEF OwnershipInv, TypeOK, OpFits, Creating,
       Deleting, Owns, At, Id, HasRow, Keeps, OthersStay, Idle, Ids
  <2>3. CASE d # c
    <3>1. Creating(d) => /\ HasRow(Id(d))' = HasRow(Id(d)) /\ op'[c].id # Id(d)
                         /\ obj'[Id(d)].located = obj[Id(d)].located
      BY <1>1, <1>2, <2>3, Apart DEF Id, HasRow, Keeps, OthersStay, Idle
    <3>2. Creating(d) \/ Deleting(d) =>
             /\ Id(d) \in backups' => Id(d) \in backups
             /\ Id(d) \in snaps' => Id(d) \in snaps
             /\ Id(d) \in files' <=> Id(d) \in files
             /\ Id(d) \in partials' <=> Id(d) \in partials
             /\ ~Owns(c, Id(d))'
      BY <1>1, <1>2, <2>1, <2>3, BackupBounds DEF OwnershipInv, TypeOK, OpFits, Creating,
         Deleting, Owns, At, Id, HasRow, Keeps, OthersStay, Idle, Ids
    <3>4. \A n \in Ids : obj[n].type # "none" => obj'[n].type # "none"
      BY <1>1, <1>2 DEF Types
    <3>3. UNCHANGED <<strays, unread>> /\ clock' \in Nat /\ clock' >= clock /\ OthersStay(c)
      BY <1>1, BackupBounds DEF OwnershipInv, TypeOK, Ids, Keeps
    <3> QED
      BY <2>3, <3>1, <3>2, <3>3, <3>4, BystanderFits
  <2> QED
    BY <2>2, <2>3
<1>5. RecordsFit'
  BY <1>1, <1>2, BackupBounds DEF OwnershipInv, TypeOK, OpsFit, OpFits, RecordsFit, Creating,
     Deleting, Owns, At, Id, HasRow, Keeps, OthersStay, Ids
<1>6. FilesFit'
  BY <1>1, <1>2 DEF OwnershipInv, TypeOK, OpsFit, OpFits, FilesFit, Creating, Deleting, Owns,
     At, Id, HasRow, Keeps, OthersStay
<1>7. OwnedByWhom'
  <2>1. \A n \in (snaps \cup files)' : n \in snaps \cup files
    BY <1>1
  <2>2. ASSUME NEW n, NEW d \in Callers, Owns(d, n) PROVE Owns(d, n)'
    BY <1>1, <2>2 DEF Owns, Creating, Deleting, Id, Keeps, OthersStay, Idle
  <2> QED
    BY <1>1, <2>1, <2>2 DEF OwnershipInv, OwnedByWhom
<1> QED
  BY <1>3, <1>4, <1>5, <1>6, <1>7 DEF OwnershipInv

LEMMA PruneSkipOwns ==
    ASSUME OwnershipInv, NEW c \in Callers, PruneSkip(c)
    PROVE  OwnershipInv'
<1>1. /\ op[c].pc = "prune" /\ OthersStay(c)
      /\ op' \in [Callers -> Operations]
      /\ op'[c].pc = "prune" /\ op'[c].id = op[c].id /\ op'[c].policy = op[c].policy
      /\ \E n \in op[c].todo : (n \notin backups \/ IsBase(n)) /\ op'[c].todo = op[c].todo \ {n}
      /\ UNCHANGED <<clock, sec, config, configured, unread, obj, backups, rows, snaps, files,
                     crashes, dirty, strays, partials>>
  BY PruneSkipDoes
<1>2. Id(c) \in Ids
  BY <1>1, BusyFacts DEF At
<1>3. TypeOK' /\ DistinctSeconds'
  BY <1>1, <1>2 DEF OwnershipInv, TypeOK, DistinctSeconds, Ids
<1>4. OpsFit'
  <2> SUFFICES ASSUME NEW d \in Callers PROVE OpFits(d)'
    BY DEF OpsFit
  <2>1. OpFits(c) /\ OpFits(d)
    BY DEF OwnershipInv, OpsFit
  <2>2. CASE d = c
    BY <1>1, <1>2, <2>1, <2>2, BackupBounds DEF OwnershipInv, TypeOK, OpFits, Creating,
       Deleting, Owns, At, Id, HasRow, Keeps, OthersStay, Idle, Ids
  <2>3. CASE d # c
    <3>1. Creating(d) => /\ HasRow(Id(d))' = HasRow(Id(d)) /\ op'[c].id # Id(d)
                         /\ obj'[Id(d)].located = obj[Id(d)].located
      BY <1>1, <1>2, <2>3, Apart DEF Id, HasRow, Keeps, OthersStay, Idle
    <3>2. Creating(d) \/ Deleting(d) =>
             /\ Id(d) \in backups' => Id(d) \in backups
             /\ Id(d) \in snaps' => Id(d) \in snaps
             /\ Id(d) \in files' <=> Id(d) \in files
             /\ Id(d) \in partials' <=> Id(d) \in partials
             /\ ~Owns(c, Id(d))'
      BY <1>1, <1>2, <2>1, <2>3, BackupBounds DEF OwnershipInv, TypeOK, OpFits, Creating,
         Deleting, Owns, At, Id, HasRow, Keeps, OthersStay, Idle, Ids
    <3>4. \A n \in Ids : obj[n].type # "none" => obj'[n].type # "none"
      BY <1>1, <1>2 DEF Types
    <3>3. UNCHANGED <<strays, unread>> /\ clock' \in Nat /\ clock' >= clock /\ OthersStay(c)
      BY <1>1, BackupBounds DEF OwnershipInv, TypeOK, Ids, Keeps
    <3> QED
      BY <2>3, <3>1, <3>2, <3>3, <3>4, BystanderFits
  <2> QED
    BY <2>2, <2>3
<1>5. RecordsFit'
  BY <1>1, <1>2, BackupBounds DEF OwnershipInv, TypeOK, OpsFit, OpFits, RecordsFit, Creating,
     Deleting, Owns, At, Id, HasRow, Keeps, OthersStay, Ids
<1>6. FilesFit'
  BY <1>1, <1>2 DEF OwnershipInv, TypeOK, OpsFit, OpFits, FilesFit, Creating, Deleting, Owns,
     At, Id, HasRow, Keeps, OthersStay
<1>7. OwnedByWhom'
  <2>1. \A n \in (snaps \cup files)' : n \in snaps \cup files
    BY <1>1
  <2>2. ASSUME NEW n, NEW d \in Callers, Owns(d, n) PROVE Owns(d, n)'
    BY <1>1, <2>2 DEF Owns, Creating, Deleting, Id, Keeps, OthersStay, Idle
  <2> QED
    BY <1>1, <2>1, <2>2 DEF OwnershipInv, OwnedByWhom
<1> QED
  BY <1>3, <1>4, <1>5, <1>6, <1>7 DEF OwnershipInv

LEMMA PruneDoneOwns ==
    ASSUME OwnershipInv, NEW c \in Callers, PruneDone(c)
    PROVE  OwnershipInv'
<1>1. /\ op[c].pc = "prune" /\ OthersStay(c) /\ op'[c] = Idle
      /\ op' \in [Callers -> Operations]
      /\ UNCHANGED <<clock, sec, config, configured, unread, obj, backups, rows, snaps, files,
                     crashes, dirty, strays, partials>>
  BY PruneDoneDoes
<1>2. Id(c) \in Ids
  BY <1>1, BusyFacts DEF At
<1>3. TypeOK' /\ DistinctSeconds'
  BY <1>1, <1>2 DEF OwnershipInv, TypeOK, DistinctSeconds, Ids
<1>4. OpsFit'
  <2> SUFFICES ASSUME NEW d \in Callers PROVE OpFits(d)'
    BY DEF OpsFit
  <2>1. OpFits(c) /\ OpFits(d)
    BY DEF OwnershipInv, OpsFit
  <2>2. CASE d = c
    BY <1>1, <1>2, <2>1, <2>2, BackupBounds DEF OwnershipInv, TypeOK, OpFits, Creating,
       Deleting, Owns, At, Id, HasRow, Keeps, OthersStay, Idle, Ids
  <2>3. CASE d # c
    <3>1. Creating(d) => /\ HasRow(Id(d))' = HasRow(Id(d)) /\ op'[c].id # Id(d)
                         /\ obj'[Id(d)].located = obj[Id(d)].located
      BY <1>1, <1>2, <2>3, Apart DEF Id, HasRow, Keeps, OthersStay, Idle
    <3>2. Creating(d) \/ Deleting(d) =>
             /\ Id(d) \in backups' => Id(d) \in backups
             /\ Id(d) \in snaps' => Id(d) \in snaps
             /\ Id(d) \in files' <=> Id(d) \in files
             /\ Id(d) \in partials' <=> Id(d) \in partials
             /\ ~Owns(c, Id(d))'
      BY <1>1, <1>2, <2>1, <2>3, BackupBounds DEF OwnershipInv, TypeOK, OpFits, Creating,
         Deleting, Owns, At, Id, HasRow, Keeps, OthersStay, Idle, Ids
    <3>4. \A n \in Ids : obj[n].type # "none" => obj'[n].type # "none"
      BY <1>1, <1>2 DEF Types
    <3>3. UNCHANGED <<strays, unread>> /\ clock' \in Nat /\ clock' >= clock /\ OthersStay(c)
      BY <1>1, BackupBounds DEF OwnershipInv, TypeOK, Ids, Keeps
    <3> QED
      BY <2>3, <3>1, <3>2, <3>3, <3>4, BystanderFits
  <2> QED
    BY <2>2, <2>3
<1>5. RecordsFit'
  BY <1>1, <1>2, BackupBounds DEF OwnershipInv, TypeOK, OpsFit, OpFits, RecordsFit, Creating,
     Deleting, Owns, At, Id, HasRow, Keeps, OthersStay, Ids
<1>6. FilesFit'
  BY <1>1, <1>2 DEF OwnershipInv, TypeOK, OpsFit, OpFits, FilesFit, Creating, Deleting, Owns,
     At, Id, HasRow, Keeps, OthersStay
<1>7. OwnedByWhom'
  <2>1. \A n \in (snaps \cup files)' : n \in snaps \cup files
    BY <1>1
  <2>2. ASSUME NEW n, NEW d \in Callers, Owns(d, n) PROVE Owns(d, n)'
    BY <1>1, <2>2 DEF Owns, Creating, Deleting, Id, Keeps, OthersStay, Idle
  <2> QED
    BY <1>1, <2>1, <2>2 DEF OwnershipInv, OwnedByWhom
<1> QED
  BY <1>3, <1>4, <1>5, <1>6, <1>7 DEF OwnershipInv

LEMMA DestroySnapshotOwns ==
    ASSUME OwnershipInv, NEW c \in Callers, DestroySnapshot(c)
    PROVE  OwnershipInv'
<1>1. /\ op[c].pc = "destroy" /\ Keeps(c)
      /\ op' \in [Callers -> Operations]
      /\ \/ op'[c].pc = "remove" /\ snaps' = snaps \ {Id(c)}
         \/ op'[c].pc = "putBack" /\ snaps' = snaps
      /\ UNCHANGED <<clock, sec, config, configured, unread, obj, backups, rows, files,
                     crashes, dirty, strays, partials>>
  BY DestroySnapshotDoes
<1>2. Id(c) \in Ids
  BY <1>1, BusyFacts DEF At
<1>3. TypeOK' /\ DistinctSeconds'
  BY <1>1, <1>2 DEF OwnershipInv, TypeOK, DistinctSeconds, Ids
<1>4. OpsFit'
  <2> SUFFICES ASSUME NEW d \in Callers PROVE OpFits(d)'
    BY DEF OpsFit
  <2>1. OpFits(c) /\ OpFits(d)
    BY DEF OwnershipInv, OpsFit
  <2>2. CASE d = c
    BY <1>1, <1>2, <2>1, <2>2, BackupBounds DEF OwnershipInv, TypeOK, OpFits, Creating,
       Deleting, Owns, At, Id, HasRow, Keeps, OthersStay, Idle, Ids
  <2>3. CASE d # c
    <3>1. Creating(d) => /\ HasRow(Id(d))' = HasRow(Id(d)) /\ op'[c].id # Id(d)
                         /\ obj'[Id(d)].located = obj[Id(d)].located
      BY <1>1, <1>2, <2>3, Apart DEF Id, HasRow, Keeps, OthersStay, Idle
    <3>2. Creating(d) \/ Deleting(d) =>
             /\ Id(d) \in backups' => Id(d) \in backups
             /\ Id(d) \in snaps' => Id(d) \in snaps
             /\ Id(d) \in files' <=> Id(d) \in files
             /\ Id(d) \in partials' <=> Id(d) \in partials
             /\ ~Owns(c, Id(d))'
      BY <1>1, <1>2, <2>1, <2>3, BackupBounds DEF OwnershipInv, TypeOK, OpFits, Creating,
         Deleting, Owns, At, Id, HasRow, Keeps, OthersStay, Idle, Ids
    <3>4. \A n \in Ids : obj[n].type # "none" => obj'[n].type # "none"
      BY <1>1, <1>2 DEF Types
    <3>3. UNCHANGED <<strays, unread>> /\ clock' \in Nat /\ clock' >= clock /\ OthersStay(c)
      BY <1>1, BackupBounds DEF OwnershipInv, TypeOK, Ids, Keeps
    <3> QED
      BY <2>3, <3>1, <3>2, <3>3, <3>4, BystanderFits
  <2> QED
    BY <2>2, <2>3
<1>5. RecordsFit'
  BY <1>1, <1>2, BackupBounds DEF OwnershipInv, TypeOK, OpsFit, OpFits, RecordsFit, Creating,
     Deleting, Owns, At, Id, HasRow, Keeps, OthersStay, Ids
<1>6. FilesFit'
  BY <1>1, <1>2 DEF OwnershipInv, TypeOK, OpsFit, OpFits, FilesFit, Creating, Deleting, Owns,
     At, Id, HasRow, Keeps, OthersStay
<1>7. OwnedByWhom'
  <2>1. \A n \in (snaps \cup files)' : n \in snaps \cup files
    BY <1>1
  <2>2. ASSUME NEW n, NEW d \in Callers, Owns(d, n) PROVE Owns(d, n)'
    BY <1>1, <2>2 DEF Owns, Creating, Deleting, Id, Keeps, OthersStay, Idle
  <2> QED
    BY <1>1, <2>1, <2>2 DEF OwnershipInv, OwnedByWhom
<1> QED
  BY <1>3, <1>4, <1>5, <1>6, <1>7 DEF OwnershipInv

LEMMA RemoveFileOwns ==
    ASSUME OwnershipInv, NEW c \in Callers, RemoveFile(c)
    PROVE  OwnershipInv'
<1>1. /\ op[c].pc = "remove" /\ Keeps(c)
      /\ op' \in [Callers -> Operations]
      /\ \/ op'[c].pc = "deleteRow" /\ files' = IF obj[Id(c)].located THEN files \ {Id(c)} ELSE files
         \/ op'[c].pc = "putBack" /\ files' = files
      /\ UNCHANGED <<clock, sec, config, configured, unread, obj, backups, rows, snaps,
                     crashes, dirty, strays, partials>>
  BY RemoveFileDoes
<1>2. Id(c) \in Ids
  BY <1>1, BusyFacts DEF At
<1>3. TypeOK' /\ DistinctSeconds'
  BY <1>1, <1>2 DEF OwnershipInv, TypeOK, DistinctSeconds, Ids
<1>4. OpsFit'
  <2> SUFFICES ASSUME NEW d \in Callers PROVE OpFits(d)'
    BY DEF OpsFit
  <2>0. ~obj[Id(c)].located => Id(c) \notin files \ partials
    <3>1. \A e \in Callers : ~(Id(e) = Id(c) /\ At(e, "send"))
      BY <1>1, Apart DEF Owns, Creating, Deleting, At
    <3>2. Id(c) \notin strays
      BY <1>1 DEF OwnershipInv, OpsFit, OpFits, At
    <3> QED
      BY <3>1, <3>2 DEF OwnershipInv, FilesFit
  <2>1. OpFits(c) /\ OpFits(d)
    BY DEF OwnershipInv, OpsFit
  <2>2. CASE d = c
    <3>1. /\ At(c, "idle")' => op'[c] = Idle
          /\ ~At(c, "idle")' => /\ Id(c)' \in 1..clock' /\ Id(c)' \notin strays' \cup unread'
                                 /\ obj'[Id(c)'].type # "none"
          /\ op'[c].todo \subseteq 1..clock'
      BY <1>1, <1>2, <2>0, <2>1, BackupBounds DEF OwnershipInv, TypeOK, OpFits, At, Id, Keeps, Idle, Ids
    <3>2. Creating(c)' => ~HasRow(Id(c))' /\ \A e \in Callers \ {c} : Id(e)' # Id(c)'
      BY <1>1, <1>2, <2>0, <2>1 DEF OpFits, Creating, Id, HasRow, Keeps, OthersStay, Idle
    <3>3. Creating(c)' \/ Deleting(c)' =>
             Id(c)' \notin backups' /\ \A e \in Callers \ {c} : ~Owns(e, Id(c))'
      BY <1>1, <1>2, <2>0, <2>1 DEF OpFits, Creating, Deleting, Owns, Id, Keeps, OthersStay, Idle
    <3>4. Creating(c)' /\ ~At(c, "append")' => ~obj'[Id(c)'].located
      BY <1>1, <1>2, <2>0, <2>1 DEF OpFits, Creating, At, Id, Keeps, Idle
    <3>5. /\ At(c, "send")' => Id(c)' \in files'
          /\ op'[c].pc \in {"hook", "base", "open", "send"} => Id(c)' \notin partials'
          /\ op'[c].pc \in {"remove", "deleteRow"} => Id(c)' \notin snaps'
          /\ At(c, "deleteRow")' => Id(c)' \notin files' \ partials'
      BY <1>1, <1>2, <2>0, <2>1 DEF OpFits, At, Id, Keeps, Idle
    <3> QED
      BY <2>2, <3>1, <3>2, <3>3, <3>4, <3>5 DEF OpFits
  <2>3. CASE d # c
    <3>1. Creating(d) => /\ HasRow(Id(d))' = HasRow(Id(d)) /\ op'[c].id # Id(d)
                         /\ obj'[Id(d)].located = obj[Id(d)].located
      BY <1>1, <1>2, <2>3, Apart DEF Id, HasRow, Keeps, OthersStay, Idle
    <3>2. Creating(d) \/ Deleting(d) =>
             /\ Id(d) \in backups' => Id(d) \in backups
             /\ Id(d) \in snaps' => Id(d) \in snaps
             /\ Id(d) \in files' <=> Id(d) \in files
             /\ Id(d) \in partials' <=> Id(d) \in partials
             /\ ~Owns(c, Id(d))'
      BY <1>1, <1>2, <2>1, <2>3, BackupBounds DEF OwnershipInv, TypeOK, OpFits, Creating,
         Deleting, Owns, At, Id, HasRow, Keeps, OthersStay, Idle, Ids
    <3>4. \A n \in Ids : obj[n].type # "none" => obj'[n].type # "none"
      BY <1>1, <1>2 DEF Types
    <3>3. UNCHANGED <<strays, unread>> /\ clock' \in Nat /\ clock' >= clock /\ OthersStay(c)
      BY <1>1, BackupBounds DEF OwnershipInv, TypeOK, Ids, Keeps
    <3> QED
      BY <2>3, <3>1, <3>2, <3>3, <3>4, BystanderFits
  <2> QED
    BY <2>2, <2>3
<1>5. RecordsFit'
  BY <1>1, <1>2, BackupBounds DEF OwnershipInv, TypeOK, OpsFit, OpFits, RecordsFit, Creating,
     Deleting, Owns, At, Id, HasRow, Keeps, OthersStay, Ids
<1>6. FilesFit'
  BY <1>1, <1>2 DEF OwnershipInv, TypeOK, OpsFit, OpFits, FilesFit, Creating, Deleting, Owns,
     At, Id, HasRow, Keeps, OthersStay
<1>7. OwnedByWhom'
  BY <1>1, <1>2 DEF OwnershipInv, TypeOK, OpsFit, OpFits, OwnedByWhom, Creating, Deleting, Owns,
     At, Id, HasRow, Keeps, OthersStay, Ids
<1> QED
  BY <1>3, <1>4, <1>5, <1>6, <1>7 DEF OwnershipInv

LEMMA PutBackOwns ==
    ASSUME OwnershipInv, NEW c \in Callers, PutBack(c)
    PROVE  OwnershipInv'
<1>1. /\ op[c].pc = "putBack" /\ OthersStay(c)
      /\ op' \in [Callers -> Operations]
      /\ \/ op'[c] = Idle /\ op[c].policy = NoPolicy
         \/ Keeps(c) /\ op'[c].pc = "prune" /\ op[c].policy # NoPolicy
      /\ backups' = backups \cup {Id(c)}
      /\ UNCHANGED <<clock, sec, config, configured, unread, obj, rows, snaps, files, crashes,
                     dirty, strays, partials>>
  BY PutBackDoes
<1>2. Id(c) \in Ids
  BY <1>1, BusyFacts DEF At
<1>3. TypeOK' /\ DistinctSeconds'
  BY <1>1, <1>2 DEF OwnershipInv, TypeOK, DistinctSeconds, Ids
<1>4. OpsFit'
  <2> SUFFICES ASSUME NEW d \in Callers PROVE OpFits(d)'
    BY DEF OpsFit
  <2>1. OpFits(c) /\ OpFits(d)
    BY DEF OwnershipInv, OpsFit
  <2>2. CASE d = c
    <3>1. /\ At(c, "idle")' => op'[c] = Idle
          /\ ~At(c, "idle")' => /\ Id(c)' \in 1..clock' /\ Id(c)' \notin strays' \cup unread'
                                 /\ obj'[Id(c)'].type # "none"
          /\ op'[c].todo \subseteq 1..clock'
      <4>1. CASE op'[c] = Idle
        BY <4>1 DEF At, Id, Idle
      <4>2. CASE Keeps(c)
        BY <1>1, <2>1, <4>2 DEF OpFits, At, Id, Keeps
      <4> QED
        BY <1>1, <4>1, <4>2
    <3>2. Creating(c)' => ~HasRow(Id(c))' /\ \A e \in Callers \ {c} : Id(e)' # Id(c)'
      BY <1>1, <1>2, <2>1 DEF OpFits, Creating, Id, HasRow, Keeps, OthersStay, Idle
    <3>3. Creating(c)' \/ Deleting(c)' =>
             Id(c)' \notin backups' /\ \A e \in Callers \ {c} : ~Owns(e, Id(c))'
      BY <1>1, <1>2, <2>1 DEF OpFits, Creating, Deleting, Owns, Id, Keeps, OthersStay, Idle
    <3>4. Creating(c)' /\ ~At(c, "append")' => ~obj'[Id(c)'].located
      BY <1>1, <1>2, <2>1 DEF OpFits, Creating, At, Id, Keeps, Idle
    <3>5. /\ At(c, "send")' => Id(c)' \in files'
          /\ op'[c].pc \in {"hook", "base", "open", "send"} => Id(c)' \notin partials'
          /\ op'[c].pc \in {"remove", "deleteRow"} => Id(c)' \notin snaps'
          /\ At(c, "deleteRow")' => Id(c)' \notin files' \ partials'
      BY <1>1, <1>2, <2>1 DEF OpFits, At, Id, Keeps, Idle
    <3> QED
      BY <2>2, <3>1, <3>2, <3>3, <3>4, <3>5 DEF OpFits
  <2>3. CASE d # c
    <3>1. Creating(d) => /\ HasRow(Id(d))' = HasRow(Id(d)) /\ op'[c].id # Id(d)
                         /\ obj'[Id(d)].located = obj[Id(d)].located
      BY <1>1, <1>2, <2>3, Apart DEF Id, HasRow, Keeps, OthersStay, Idle
    <3>2. Creating(d) \/ Deleting(d) =>
             /\ Id(d) \in backups' => Id(d) \in backups
             /\ Id(d) \in snaps' => Id(d) \in snaps
             /\ Id(d) \in files' <=> Id(d) \in files
             /\ Id(d) \in partials' <=> Id(d) \in partials
             /\ ~Owns(c, Id(d))'
      BY <1>1, <1>2, <2>3, Apart DEF Owns, Creating, Deleting, Id, Keeps, OthersStay, Idle
    <3>4. \A n \in Ids : obj[n].type # "none" => obj'[n].type # "none"
      BY <1>1, <1>2 DEF Types
    <3>3. UNCHANGED <<strays, unread>> /\ clock' \in Nat /\ clock' >= clock /\ OthersStay(c)
      BY <1>1, BackupBounds DEF OwnershipInv, TypeOK, Ids, Keeps
    <3> QED
      BY <2>3, <3>1, <3>2, <3>3, <3>4, BystanderFits
  <2> QED
    BY <2>2, <2>3
<1>5. RecordsFit'
  <2>1. RecordsFit
    BY DEF OwnershipInv
  <2>2. /\ Id(c) <= clock /\ Id(c) \notin strays \cup unread /\ obj[Id(c)].type # "none"
    BY <1>1 DEF OwnershipInv, OpsFit, OpFits, At
  <2>3. \A n \in Ids : HasRow(n)' <=> HasRow(n)
    BY <1>1 DEF HasRow
  <2>4. \A n \in (backups \cup snaps \cup files \cup strays \cup partials)' : n <= clock'
    BY <1>1, <2>1, <2>2 DEF RecordsFit
  <2>5. \A n \in Ids : HasRow(n)' =>
           /\ n <= clock'
           /\ rows'[n].type = obj'[n].type /\ rows'[n].status = obj'[n].status
           /\ rows'[n].base = obj'[n].base /\ rows'[n].located = obj'[n].located
    BY <1>1, <2>1, <2>3 DEF RecordsFit
  <2>6. /\ \A n \in backups' : obj'[n].type # "none"
        /\ \A n \in Ids : HasRow(n)' \/ rows'[n] = NoBackup
    BY <1>1, <2>1, <2>2, <2>3 DEF RecordsFit
  <2>7. /\ \A n \in strays' : n \notin backups' /\ ~HasRow(n)' /\ obj'[n] = NoBackup
        /\ \A n \in unread' : n \notin backups' /\ HasRow(n)'
    BY <1>1, <2>1, <2>2 DEF RecordsFit, HasRow
  <2> QED
    BY <2>4, <2>5, <2>6, <2>7 DEF RecordsFit
<1>6. FilesFit'
  BY <1>1, <1>2 DEF OwnershipInv, TypeOK, OpsFit, OpFits, FilesFit, Creating, Deleting, Owns,
     At, Id, HasRow, Keeps, OthersStay
<1>7. OwnedByWhom'
  <2>1. \A d \in Callers, n \in Ids : Owns(d, n) => Owns(d, n)' \/ n = Id(c)
    BY <1>1 DEF Owns, Creating, Deleting, Id, OthersStay
  <2> QED
    BY <1>1, <2>1 DEF OwnershipInv, OwnedByWhom, TypeOK
<1> QED
  BY <1>3, <1>4, <1>5, <1>6, <1>7 DEF OwnershipInv

LEMMA DeleteBackupRecordOwns ==
    ASSUME OwnershipInv, NEW c \in Callers, DeleteBackupRecord(c)
    PROVE  OwnershipInv'
<1>1. /\ op[c].pc = "deleteRow" /\ OthersStay(c)
      /\ op' \in [Callers -> Operations]
      /\ \/ op'[c] = Idle /\ op[c].policy = NoPolicy
         \/ Keeps(c) /\ op'[c].pc = "prune" /\ op[c].policy # NoPolicy
      /\ UNCHANGED <<clock, sec, config, configured, unread, obj, backups, snaps, files,
                     crashes, strays, partials>>
      /\ rows' \in [Ids -> BackupInfos] /\ \A n \in Ids \ {Id(c)} : rows'[n] = rows[n]
      /\ \/ rows'[Id(c)] = NoBackup /\ dirty' = dirty \ {Id(c)}
         \/ rows'[Id(c)] = rows[Id(c)] /\ dirty' = dirty \cup {Id(c)}
  BY DeleteBackupRecordDoes
<1>2. Id(c) \in Ids
  BY <1>1, BusyFacts DEF At
<1>3. TypeOK' /\ DistinctSeconds'
  BY <1>1, <1>2 DEF OwnershipInv, TypeOK, DistinctSeconds, Ids
<1>4. OpsFit'
  <2> SUFFICES ASSUME NEW d \in Callers PROVE OpFits(d)'
    BY DEF OpsFit
  <2>1. OpFits(c) /\ OpFits(d)
    BY DEF OwnershipInv, OpsFit
  <2>2. CASE d = c
    <3>1. /\ At(c, "idle")' => op'[c] = Idle
          /\ ~At(c, "idle")' => /\ Id(c)' \in 1..clock' /\ Id(c)' \notin strays' \cup unread'
                                 /\ obj'[Id(c)'].type # "none"
          /\ op'[c].todo \subseteq 1..clock'
      <4>1. CASE op'[c] = Idle
        BY <4>1 DEF At, Id, Idle
      <4>2. CASE Keeps(c)
        BY <1>1, <2>1, <4>2 DEF OpFits, At, Id, Keeps
      <4> QED
        BY <1>1, <4>1, <4>2
    <3>2. Creating(c)' => ~HasRow(Id(c))' /\ \A e \in Callers \ {c} : Id(e)' # Id(c)'
      BY <1>1, <1>2, <2>1 DEF OpFits, Creating, Id, HasRow, Keeps, OthersStay, Idle
    <3>3. Creating(c)' \/ Deleting(c)' =>
             Id(c)' \notin backups' /\ \A e \in Callers \ {c} : ~Owns(e, Id(c))'
      BY <1>1, <1>2, <2>1 DEF OpFits, Creating, Deleting, Owns, Id, Keeps, OthersStay, Idle
    <3>4. Creating(c)' /\ ~At(c, "append")' => ~obj'[Id(c)'].located
      BY <1>1, <1>2, <2>1 DEF OpFits, Creating, At, Id, Keeps, Idle
    <3>5. /\ At(c, "send")' => Id(c)' \in files'
          /\ op'[c].pc \in {"hook", "base", "open", "send"} => Id(c)' \notin partials'
          /\ op'[c].pc \in {"remove", "deleteRow"} => Id(c)' \notin snaps'
          /\ At(c, "deleteRow")' => Id(c)' \notin files' \ partials'
      BY <1>1, <1>2, <2>1 DEF OpFits, At, Id, Keeps, Idle
    <3> QED
      BY <2>2, <3>1, <3>2, <3>3, <3>4, <3>5 DEF OpFits
  <2>3. CASE d # c
    <3>1. Creating(d) => /\ HasRow(Id(d))' = HasRow(Id(d)) /\ op'[c].id # Id(d)
                         /\ obj'[Id(d)].located = obj[Id(d)].located
      BY <1>1, <1>2, <2>3, Apart DEF Id, HasRow, Keeps, OthersStay, Idle
    <3>2. Creating(d) \/ Deleting(d) =>
             /\ Id(d) \in backups' => Id(d) \in backups
             /\ Id(d) \in snaps' => Id(d) \in snaps
             /\ Id(d) \in files' <=> Id(d) \in files
             /\ Id(d) \in partials' <=> Id(d) \in partials
             /\ ~Owns(c, Id(d))'
      BY <1>1, <1>2, <2>3, Apart DEF Owns, Creating, Deleting, Id, Keeps, OthersStay, Idle
    <3>4. \A n \in Ids : obj[n].type # "none" => obj'[n].type # "none"
      BY <1>1, <1>2 DEF Types
    <3>3. UNCHANGED <<strays, unread>> /\ clock' \in Nat /\ clock' >= clock /\ OthersStay(c)
      BY <1>1, BackupBounds DEF OwnershipInv, TypeOK, Ids, Keeps
    <3> QED
      BY <2>3, <3>1, <3>2, <3>3, <3>4, BystanderFits
  <2> QED
    BY <2>2, <2>3
<1>5. RecordsFit'
  <2>1. OpFits(c) /\ RecordsFit
    BY DEF OwnershipInv, OpsFit
  <2>2. \A n \in (backups \cup snaps \cup files \cup strays \cup partials)' : n <= clock'
    BY <1>1, <1>2, <2>1, BackupBounds DEF OwnershipInv, TypeOK, OpFits, RecordsFit, At, Id, Ids
  <2>3. ASSUME NEW n \in Ids, HasRow(n)'
        PROVE  /\ n <= clock'
               /\ rows'[n].type = obj'[n].type /\ rows'[n].status = obj'[n].status
               /\ rows'[n].base = obj'[n].base /\ rows'[n].located = obj'[n].located
    <3>1. CASE n = Id(c)
      <4>1. n <= clock' /\ n \in Ids
        BY <1>1, <1>2, <2>1, <3>1 DEF OpFits, At
      <4>2. CASE rows'[Id(c)] = NoBackup
        BY <1>1, <2>3, <3>1, <4>1, <4>2 DEF HasRow, NoBackup
      <4>3. CASE rows'[Id(c)] = rows[Id(c)]
        BY <1>1, <2>1, <2>3, <3>1, <4>1, <4>3 DEF RecordsFit, HasRow
      <4> QED
        BY <1>1, <4>2, <4>3
    <3>2. CASE n # Id(c)
      BY <1>1, <1>2, <2>1, <2>3, <3>2, BackupBounds DEF OwnershipInv, TypeOK, RecordsFit,
         HasRow, Ids
    <3> QED
      BY <3>1, <3>2
  <2>4. \A n \in strays' : n \notin backups' /\ ~HasRow(n)' /\ obj'[n] = NoBackup
    <3>1. Id(c) \notin strays
      BY <1>1, <2>1 DEF OpFits, At
    <3> QED
      BY <1>1, <2>1, <3>1 DEF OwnershipInv, TypeOK, RecordsFit, HasRow
  <2>5. \A n \in backups' : obj'[n].type # "none"
    BY <1>1, <1>2, <2>1 DEF OwnershipInv, TypeOK, OpFits, RecordsFit, At, Types
  <2>6. \A n \in Ids : HasRow(n)' \/ rows'[n] = NoBackup
    BY <1>1, <1>2, <2>1 DEF OpFits, RecordsFit, HasRow, At
  <2>7. \A n \in unread' : n \notin backups' /\ HasRow(n)'
    BY <1>1, <1>2, <2>1 DEF OwnershipInv, TypeOK, OpFits, RecordsFit, HasRow, At, Id
  <2> QED
    BY <2>2, <2>3, <2>4, <2>5, <2>6, <2>7 DEF RecordsFit
<1>6. FilesFit'
  BY <1>1, <1>2 DEF OwnershipInv, TypeOK, OpsFit, OpFits, FilesFit, Creating, Deleting, Owns,
     At, Id, HasRow, Keeps, OthersStay
<1>7. OwnedByWhom'
  BY <1>1, <1>2 DEF OwnershipInv, TypeOK, OpsFit, OpFits, OwnedByWhom, Creating, Deleting, Owns,
     At, Id, HasRow, Keeps, OthersStay, Ids
<1> QED
  BY <1>3, <1>4, <1>5, <1>6, <1>7 DEF OwnershipInv

LEMMA MarkVerifiedOwns ==
    ASSUME OwnershipInv, NEW c \in Callers, MarkVerified(c)
    PROVE  OwnershipInv'
<1>1. /\ op[c].pc = "mark" /\ Keeps(c) /\ op'[c].pc = "save"
      /\ op' \in [Callers -> Operations]
      /\ UNCHANGED <<clock, sec, config, configured, unread, backups, rows, snaps, files,
                     crashes, dirty, strays, partials>>
      /\ obj' \in [Ids -> BackupInfos] /\ \A n \in Ids \ {Id(c)} : obj'[n] = obj[n]
      /\ obj'[Id(c)].type = obj[Id(c)].type /\ obj'[Id(c)].base = obj[Id(c)].base
      /\ obj'[Id(c)].located = obj[Id(c)].located /\ obj'[Id(c)].status = obj[Id(c)].status
  BY MarkVerifiedDoes
<1>2. Id(c) \in Ids
  BY <1>1, BusyFacts DEF At
<1>3. TypeOK' /\ DistinctSeconds'
  BY <1>1, <1>2 DEF OwnershipInv, TypeOK, DistinctSeconds, Ids
<1>4. OpsFit'
  <2> SUFFICES ASSUME NEW d \in Callers PROVE OpFits(d)'
    BY DEF OpsFit
  <2>1. OpFits(c) /\ OpFits(d)
    BY DEF OwnershipInv, OpsFit
  <2>2. CASE d = c
    BY <1>1, <1>2, <2>1, <2>2, BackupBounds DEF OwnershipInv, TypeOK, OpFits, Creating,
       Deleting, Owns, At, Id, HasRow, Keeps, OthersStay, Idle, Ids
  <2>3. CASE d # c
    <3>1. Creating(d) => /\ HasRow(Id(d))' = HasRow(Id(d)) /\ op'[c].id # Id(d)
                         /\ obj'[Id(d)].located = obj[Id(d)].located
      BY <1>1, <1>2, <2>3, Apart DEF Id, HasRow, Keeps, OthersStay, Idle
    <3>2. Creating(d) \/ Deleting(d) =>
             /\ Id(d) \in backups' => Id(d) \in backups
             /\ Id(d) \in snaps' => Id(d) \in snaps
             /\ Id(d) \in files' <=> Id(d) \in files
             /\ Id(d) \in partials' <=> Id(d) \in partials
             /\ ~Owns(c, Id(d))'
      BY <1>1, <1>2, <2>1, <2>3, BackupBounds DEF OwnershipInv, TypeOK, OpFits, Creating,
         Deleting, Owns, At, Id, HasRow, Keeps, OthersStay, Idle, Ids
    <3>4. \A n \in Ids : obj[n].type # "none" => obj'[n].type # "none"
      BY <1>1, <1>2 DEF Types
    <3>3. UNCHANGED <<strays, unread>> /\ clock' \in Nat /\ clock' >= clock /\ OthersStay(c)
      BY <1>1, BackupBounds DEF OwnershipInv, TypeOK, Ids, Keeps
    <3> QED
      BY <2>3, <3>1, <3>2, <3>3, <3>4, BystanderFits
  <2> QED
    BY <2>2, <2>3
<1>5. RecordsFit'
  <2>1. OpFits(c) /\ RecordsFit
    BY DEF OwnershipInv, OpsFit
  <2>2. \A n \in (backups \cup snaps \cup files \cup strays \cup partials)' : n <= clock'
    BY <1>1, <1>2, <2>1, BackupBounds DEF OwnershipInv, TypeOK, OpFits, RecordsFit, At, Id, Ids
  <2>3. ASSUME NEW n \in Ids, HasRow(n)'
        PROVE  /\ n <= clock'
               /\ rows'[n].type = obj'[n].type /\ rows'[n].status = obj'[n].status
               /\ rows'[n].base = obj'[n].base /\ rows'[n].located = obj'[n].located
    <3>1. CASE n = Id(c)
      BY <1>1, <1>2, <2>1, <2>3, <3>1, BackupBounds DEF OwnershipInv, TypeOK, OpFits,
         RecordsFit, Creating, Deleting, Owns, At, Id, HasRow, Keeps, OthersStay, Ids, NoBackup
    <3>2. CASE n # Id(c)
      BY <1>1, <1>2, <2>1, <2>3, <3>2, BackupBounds DEF OwnershipInv, TypeOK, RecordsFit,
         HasRow, Ids
    <3> QED
      BY <3>1, <3>2
  <2>4. \A n \in strays' : n \notin backups' /\ ~HasRow(n)' /\ obj'[n] = NoBackup
    BY <1>1, <1>2, <2>1, BackupBounds DEF OwnershipInv, TypeOK, OpFits, RecordsFit, At, Id,
       HasRow, Ids
  <2>5. \A n \in backups' : obj'[n].type # "none"
    BY <1>1, <1>2, <2>1 DEF OwnershipInv, TypeOK, OpFits, RecordsFit, At, Types
  <2>6. \A n \in Ids : HasRow(n)' \/ rows'[n] = NoBackup
    BY <1>1, <1>2, <2>1 DEF OpFits, RecordsFit, HasRow, At
  <2>7. \A n \in unread' : n \notin backups' /\ HasRow(n)'
    BY <1>1, <1>2, <2>1 DEF OwnershipInv, TypeOK, OpFits, RecordsFit, HasRow, At, Id
  <2> QED
    BY <2>2, <2>3, <2>4, <2>5, <2>6, <2>7 DEF RecordsFit
<1>6. FilesFit'
  <2>1. \A n \in Ids : obj'[n].located = obj[n].located
    BY <1>1, <1>2
  <2>2. \A d \in Callers, n \in Ids : Id(d) = n /\ At(d, "send") => (Id(d) = n /\ At(d, "send"))'
    BY <1>1 DEF At, Id, Keeps, OthersStay
  <2> QED
    BY <1>1, <2>1, <2>2 DEF OwnershipInv, TypeOK, FilesFit
<1>7. OwnedByWhom'
  BY <1>1, <1>2 DEF OwnershipInv, TypeOK, OpsFit, OpFits, OwnedByWhom, Creating, Deleting, Owns,
     At, Id, HasRow, Keeps, OthersStay, Ids
<1> QED
  BY <1>3, <1>4, <1>5, <1>6, <1>7 DEF OwnershipInv

LEMMA ClaimOwns ==
    ASSUME OwnershipInv, NEW c \in Callers, NEW n \in Ids, Claim(c, n), op[c].pc \in {"idle", "prune"}
    PROVE  OwnershipInv'
<1>1. /\ n \in backups /\ ~IsBase(n) /\ OthersStay(c)
      /\ op' \in [Callers -> Operations]
      /\ op'[c].pc = "destroy" /\ op'[c].id = n /\ op'[c].policy = op[c].policy
      /\ op'[c].todo = op[c].todo \ {n}
      /\ backups' = backups \ {n}
      /\ UNCHANGED <<clock, sec, config, configured, unread, obj, rows, snaps, files, crashes,
                     dirty, strays, partials>>
  BY ClaimDoes
<1>2. n \in Ids
  BY DEF OwnershipInv, TypeOK
<1>3. TypeOK' /\ DistinctSeconds'
  BY <1>1, <1>2 DEF OwnershipInv, TypeOK, DistinctSeconds, Ids
<1>4. OpsFit'
  <2> SUFFICES ASSUME NEW d \in Callers PROVE OpFits(d)'
    BY DEF OpsFit
  <2>1. OpFits(c) /\ OpFits(d)
    BY DEF OwnershipInv, OpsFit
  <2>2. CASE d = c
    <3>1. /\ At(c, "idle")' => op'[c] = Idle
          /\ ~At(c, "idle")' => /\ Id(c)' \in 1..clock' /\ Id(c)' \notin strays' \cup unread'
                                 /\ obj'[Id(c)'].type # "none"
          /\ op'[c].todo \subseteq 1..clock'
      <4>1. n \in 1..clock /\ n \notin strays \cup unread /\ obj[n].type # "none"
        BY <1>1, <1>2, BackupBounds DEF OwnershipInv, RecordsFit, TypeOK, Ids
      <4>2. op[c].todo \subseteq 1..clock
        BY <2>1 DEF OpFits
      <4> QED
        BY <1>1, <4>1, <4>2 DEF At, Id
    <3>2. Creating(c)' => ~HasRow(Id(c))' /\ \A e \in Callers \ {c} : Id(e)' # Id(c)'
      BY <1>1, <1>2, <2>1 DEF OpFits, Creating, Id, HasRow, Keeps, OthersStay, Idle
    <3>3. Creating(c)' \/ Deleting(c)' =>
             Id(c)' \notin backups' /\ \A e \in Callers \ {c} : ~Owns(e, Id(c))'
      <4>1. ASSUME NEW e \in Callers \ {c} PROVE ~Owns(e, n)
        BY <1>1, <4>1, Apart DEF Owns
      <4> QED
        BY <1>1, <4>1 DEF Owns, Creating, Deleting, Id, OthersStay
    <3>4. Creating(c)' /\ ~At(c, "append")' => ~obj'[Id(c)'].located
      BY <1>1, <1>2, <2>1 DEF OpFits, Creating, At, Id, Keeps, Idle
    <3>5. /\ At(c, "send")' => Id(c)' \in files'
          /\ op'[c].pc \in {"hook", "base", "open", "send"} => Id(c)' \notin partials'
          /\ op'[c].pc \in {"remove", "deleteRow"} => Id(c)' \notin snaps'
          /\ At(c, "deleteRow")' => Id(c)' \notin files' \ partials'
      BY <1>1, <1>2, <2>1 DEF OpFits, At, Id, Keeps, Idle
    <3> QED
      BY <2>2, <3>1, <3>2, <3>3, <3>4, <3>5 DEF OpFits
  <2>3. CASE d # c
    <3>1. Creating(d) => /\ HasRow(Id(d))' = HasRow(Id(d)) /\ op'[c].id # Id(d)
                         /\ obj'[Id(d)].located = obj[Id(d)].located
      BY <1>1, <1>2, <2>3, Apart DEF Id, HasRow, Keeps, OthersStay, Idle
    <3>2. Creating(d) \/ Deleting(d) =>
             /\ Id(d) \in backups' => Id(d) \in backups
             /\ Id(d) \in snaps' => Id(d) \in snaps
             /\ Id(d) \in files' <=> Id(d) \in files
             /\ Id(d) \in partials' <=> Id(d) \in partials
             /\ ~Owns(c, Id(d))'
      BY <1>1, <1>2, <2>1, <2>3, BackupBounds DEF OwnershipInv, TypeOK, OpFits, OpsFit,
         RecordsFit, Creating, Deleting, Owns, At, Id, HasRow, Keeps, OthersStay, Idle, Ids
    <3>4. \A k \in Ids : obj[k].type # "none" => obj'[k].type # "none"
      BY <1>1, <1>2 DEF Types
    <3>3. UNCHANGED <<strays, unread>> /\ clock' \in Nat /\ clock' >= clock /\ OthersStay(c)
      BY <1>1, BackupBounds DEF OwnershipInv, TypeOK, Ids, Keeps
    <3> QED
      BY <2>3, <3>1, <3>2, <3>3, <3>4, BystanderFits
  <2> QED
    BY <2>2, <2>3
<1>5. RecordsFit'
  BY <1>1, <1>2, BackupBounds DEF OwnershipInv, TypeOK, OpsFit, OpFits, RecordsFit, Creating,
     Deleting, Owns, At, Id, HasRow, Keeps, OthersStay, Ids
<1>6. FilesFit'
  BY <1>1, <1>2 DEF OwnershipInv, TypeOK, OpsFit, OpFits, FilesFit, Creating, Deleting, Owns,
     At, Id, HasRow, Keeps, OthersStay
<1>7. OwnedByWhom'
  <2>1. \A d \in Callers, k \in Ids : Owns(d, k) => Owns(d, k)'
    BY <1>1 DEF Owns, Creating, Deleting, Id, OthersStay
  <2>2. Owns(c, n)'
    BY <1>1 DEF Owns, Deleting, Id
  <2> QED
    BY <1>1, <2>1, <2>2 DEF OwnershipInv, OwnedByWhom, TypeOK
<1> QED
  BY <1>3, <1>4, <1>5, <1>6, <1>7 DEF OwnershipInv

LEMMA BeginCreateOwns ==
    ASSUME OwnershipInv, NEW c \in Callers, NEW type \in Types, BeginCreate(c, type),
           DistinctSeconds'
    PROVE  OwnershipInv'
<1>1. /\ op[c].pc = "idle" /\ OthersStay(c) /\ clock \in Nat
      /\ op' \in [Callers -> Operations]
      /\ clock' = clock + 1 /\ clock' \in Ids
      /\ op'[c].pc = "hook" /\ op'[c].id = clock' /\ op'[c].todo = {}
      /\ UNCHANGED <<sec, config, configured, unread, backups, rows, snaps, files, crashes,
                     dirty, strays, partials>>
      /\ obj' \in [Ids -> BackupInfos] /\ \A n \in Ids \ {clock'} : obj'[n] = obj[n]
      /\ obj'[clock'].type = type /\ obj'[clock'].base = 0
      /\ ~obj'[clock'].located /\ obj'[clock'].status = "running"
  BY BeginCreateDoes
<1>2. clock \in Nat
  BY <1>1
<1>3. TypeOK' /\ DistinctSeconds'
  BY <1>1, <1>2 DEF OwnershipInv, TypeOK, DistinctSeconds, Ids
<1>4. OpsFit'
  <2> SUFFICES ASSUME NEW d \in Callers PROVE OpFits(d)'
    BY DEF OpsFit
  <2>1. OpFits(c) /\ OpFits(d)
    BY DEF OwnershipInv, OpsFit
  <2>1a. clock' \notin backups \cup strays \cup unread \cup partials /\ ~HasRow(clock')
    BY <1>1 DEF OwnershipInv, RecordsFit, TypeOK
  <2>1b. \A e \in Callers \ {c} : op'[e] = op[e] /\ op[e].id # clock'
    <3> TAKE e \in Callers \ {c}
    <3>1. OpFits(e)
      BY DEF OwnershipInv, OpsFit
    <3> QED
      BY <1>1, <3>1 DEF OthersStay, OpFits, At, Id, Idle
  <2>2. CASE d = c
    <3>1. /\ At(c, "idle")' => op'[c] = Idle
          /\ ~At(c, "idle")' => /\ Id(c)' \in 1..clock' /\ Id(c)' \notin strays' \cup unread'
                                 /\ obj'[Id(c)'].type # "none"
          /\ op'[c].todo \subseteq 1..clock'
      <4>1. clock' \in 1..clock' /\ clock' \notin strays' \cup unread'
        BY <1>1, <2>1a
      <4>2. obj'[clock'].type # "none"
        BY <1>1 DEF Types
      <4> QED
        BY <1>1, <4>1, <4>2 DEF At, Id
    <3>2. Creating(c)' => ~HasRow(Id(c))' /\ \A e \in Callers \ {c} : Id(e)' # Id(c)'
      BY <1>1, <2>1, <2>1a, <2>1b DEF OpFits, Creating, Id, HasRow, Keeps, OthersStay, Idle
    <3>3. Creating(c)' \/ Deleting(c)' =>
             Id(c)' \notin backups' /\ \A e \in Callers \ {c} : ~Owns(e, Id(c))'
      BY <1>1, <2>1, <2>1a, <2>1b DEF OpFits, Creating, Deleting, Owns, Id, Keeps, OthersStay, Idle, RecordsFit, OpsFit
    <3>4. Creating(c)' /\ ~At(c, "append")' => ~obj'[Id(c)'].located
      BY <1>1, <2>1, <2>1a, <2>1b DEF OpFits, Creating, At, Id, Keeps, Idle
    <3>5. /\ At(c, "send")' => Id(c)' \in files'
          /\ op'[c].pc \in {"hook", "base", "open", "send"} => Id(c)' \notin partials'
          /\ op'[c].pc \in {"remove", "deleteRow"} => Id(c)' \notin snaps'
          /\ At(c, "deleteRow")' => Id(c)' \notin files' \ partials'
      BY <1>1, <2>1, <2>1a, <2>1b DEF OpFits, At, Id, Keeps, Idle
    <3> QED
      BY <2>2, <3>1, <3>2, <3>3, <3>4, <3>5 DEF OpFits
  <2>3. CASE d # c
    <3>1. Creating(d) => /\ HasRow(Id(d))' = HasRow(Id(d)) /\ op'[c].id # Id(d)
                         /\ obj'[Id(d)].located = obj[Id(d)].located
      BY <1>1, <2>1b, <2>3, Apart DEF Id, HasRow, Keeps, Idle
    <3>2. Creating(d) \/ Deleting(d) =>
             /\ Id(d) \in backups' => Id(d) \in backups
             /\ Id(d) \in snaps' => Id(d) \in snaps
             /\ Id(d) \in files' <=> Id(d) \in files
             /\ Id(d) \in partials' <=> Id(d) \in partials
             /\ ~Owns(c, Id(d))'
      BY <1>1, <1>2, <2>1, <2>3, BackupBounds DEF OwnershipInv, TypeOK, OpFits, OpsFit,
         RecordsFit, Creating, Deleting, Owns, At, Id, HasRow, Keeps, OthersStay, Idle, Ids
    <3>4. \A n \in Ids : obj[n].type # "none" => obj'[n].type # "none"
      BY <1>1, <1>2 DEF Types
    <3>3. UNCHANGED <<strays, unread>> /\ clock' \in Nat /\ clock' >= clock /\ OthersStay(c)
      BY <1>1, BackupBounds DEF OwnershipInv, TypeOK, Ids, Keeps
    <3> QED
      BY <2>3, <3>1, <3>2, <3>3, <3>4, BystanderFits
  <2> QED
    BY <2>2, <2>3
<1>5. RecordsFit'
  <2>1. OpFits(c) /\ RecordsFit
    BY DEF OwnershipInv, OpsFit
  <2>2. \A n \in (backups \cup snaps \cup files \cup strays \cup partials)' : n <= clock'
    BY <1>1, <1>2, <2>1, BackupBounds DEF OwnershipInv, TypeOK, OpFits, RecordsFit, At, Id, Ids
  <2>3. ASSUME NEW n \in Ids, HasRow(n)'
        PROVE  /\ n <= clock'
               /\ rows'[n].type = obj'[n].type /\ rows'[n].status = obj'[n].status
               /\ rows'[n].base = obj'[n].base /\ rows'[n].located = obj'[n].located
    <3>1. CASE n = clock'
      BY <1>1, <1>2, <2>1, <2>3, <3>1, BackupBounds DEF OwnershipInv, TypeOK, OpFits,
         RecordsFit, Creating, Deleting, Owns, At, Id, HasRow, Keeps, OthersStay, Ids, NoBackup
    <3>2. CASE n # clock'
      <4>1. rows'[n] = rows[n] /\ obj'[n] = obj[n] /\ HasRow(n)
        BY <1>1, <2>3, <3>2 DEF HasRow
      <4>2. n <= clock
        BY <2>1, <4>1 DEF RecordsFit
      <4>3. n <= clock'
        BY <1>1, <4>2 DEF Ids
      <4> QED
        BY <2>1, <4>1, <4>3 DEF RecordsFit
    <3> QED
      BY <3>1, <3>2
  <2>3a. \A n \in strays : n \in Ids /\ n <= clock
    BY DEF OwnershipInv, TypeOK, RecordsFit
  <2>3b. \A n \in strays : n \in Ids \ {clock'}
    BY <1>1, <2>3a DEF Ids
  <2>4. \A n \in strays' : n \notin backups' /\ ~HasRow(n)' /\ obj'[n] = NoBackup
    BY <1>1, <1>2, <2>1, <2>3b, BackupBounds DEF OwnershipInv, TypeOK, OpFits, RecordsFit, At,
       Id, HasRow, Ids
  <2>5. \A n \in backups' : obj'[n].type # "none"
    BY <1>1, <1>2, <2>1 DEF OwnershipInv, TypeOK, OpFits, RecordsFit, At, Types
  <2>6. \A n \in Ids : HasRow(n)' \/ rows'[n] = NoBackup
    BY <1>1, <1>2, <2>1 DEF OpFits, RecordsFit, HasRow, At
  <2>7. \A n \in unread' : n \notin backups' /\ HasRow(n)'
    BY <1>1, <1>2, <2>1 DEF OwnershipInv, TypeOK, OpFits, RecordsFit, HasRow, At, Id
  <2> QED
    BY <2>2, <2>3, <2>4, <2>5, <2>6, <2>7 DEF RecordsFit
<1>6. FilesFit'
  <2>0. \A n \in files : n \in Ids /\ n <= clock
    BY DEF OwnershipInv, TypeOK, RecordsFit
  <2>1. \A n \in files : n # clock' /\ obj'[n] = obj[n]
    BY <1>1, <2>0 DEF Ids
  <2>2. \A d \in Callers : At(d, "send") => op'[d] = op[d]
    BY <1>1 DEF OthersStay, At
  <2> QED
    BY <1>1, <2>1, <2>2 DEF OwnershipInv, FilesFit, At, Id
<1>7. OwnedByWhom'
  BY <1>1, <1>2 DEF OwnershipInv, TypeOK, OpsFit, OpFits, OwnedByWhom, Creating, Deleting, Owns,
     At, Id, HasRow, Keeps, OthersStay, Ids
<1> QED
  BY <1>3, <1>4, <1>5, <1>6, <1>7 DEF OwnershipInv

LEMMA VerifyBackupOwns ==
    ASSUME OwnershipInv, NEW c \in Callers, NEW n \in backups, VerifyBackup(c, n)
    PROVE  OwnershipInv'
<1>1. /\ op[c].pc = "idle" /\ OthersStay(c)
      /\ op' \in [Callers -> Operations]
      /\ op'[c].pc = "mark" /\ op'[c].id = n /\ op'[c].policy = NoPolicy /\ op'[c].todo = {}
      /\ UNCHANGED <<clock, sec, config, configured, unread, obj, backups, rows, snaps, files,
                     crashes, dirty, strays, partials>>
  BY VerifyBackupDoes
<1>2. n \in Ids
  BY DEF OwnershipInv, TypeOK
<1>3. TypeOK' /\ DistinctSeconds'
  BY <1>1, <1>2 DEF OwnershipInv, TypeOK, DistinctSeconds, Ids
<1>4. OpsFit'
  <2> SUFFICES ASSUME NEW d \in Callers PROVE OpFits(d)'
    BY DEF OpsFit
  <2>1. OpFits(c) /\ OpFits(d)
    BY DEF OwnershipInv, OpsFit
  <2>2. CASE d = c
    <3>1. /\ At(c, "idle")' => op'[c] = Idle
          /\ ~At(c, "idle")' => /\ Id(c)' \in 1..clock' /\ Id(c)' \notin strays' \cup unread'
                                 /\ obj'[Id(c)'].type # "none"
          /\ op'[c].todo \subseteq 1..clock'
      BY <1>1, <1>2, <2>1, BackupBounds DEF OwnershipInv, TypeOK, OpFits, At, Id, Keeps, Idle, Ids, RecordsFit
    <3>2. Creating(c)' => ~HasRow(Id(c))' /\ \A e \in Callers \ {c} : Id(e)' # Id(c)'
      BY <1>1, <1>2, <2>1 DEF OpFits, Creating, Id, HasRow, Keeps, OthersStay, Idle
    <3>3. Creating(c)' \/ Deleting(c)' =>
             Id(c)' \notin backups' /\ \A e \in Callers \ {c} : ~Owns(e, Id(c))'
      BY <1>1, <1>2, <2>1 DEF OpFits, Creating, Deleting, Owns, Id, Keeps, OthersStay, Idle, RecordsFit, OpsFit
    <3>4. Creating(c)' /\ ~At(c, "append")' => ~obj'[Id(c)'].located
      BY <1>1, <1>2, <2>1 DEF OpFits, Creating, At, Id, Keeps, Idle
    <3>5. /\ At(c, "send")' => Id(c)' \in files'
          /\ op'[c].pc \in {"hook", "base", "open", "send"} => Id(c)' \notin partials'
          /\ op'[c].pc \in {"remove", "deleteRow"} => Id(c)' \notin snaps'
          /\ At(c, "deleteRow")' => Id(c)' \notin files' \ partials'
      BY <1>1, <1>2, <2>1 DEF OpFits, At, Id, Keeps, Idle
    <3> QED
      BY <2>2, <3>1, <3>2, <3>3, <3>4, <3>5 DEF OpFits
  <2>3. CASE d # c
    <3>1. Creating(d) => /\ HasRow(Id(d))' = HasRow(Id(d)) /\ op'[c].id # Id(d)
                         /\ obj'[Id(d)].located = obj[Id(d)].located
      BY <1>1, <1>2, <2>3, Apart DEF Id, HasRow, Keeps, OthersStay, Idle
    <3>2. Creating(d) \/ Deleting(d) =>
             /\ Id(d) \in backups' => Id(d) \in backups
             /\ Id(d) \in snaps' => Id(d) \in snaps
             /\ Id(d) \in files' <=> Id(d) \in files
             /\ Id(d) \in partials' <=> Id(d) \in partials
             /\ ~Owns(c, Id(d))'
      BY <1>1, <1>2, <2>1, <2>3, BackupBounds DEF OwnershipInv, TypeOK, OpFits, Creating,
         Deleting, Owns, At, Id, HasRow, Keeps, OthersStay, Idle, Ids
    <3>4. \A k \in Ids : obj[k].type # "none" => obj'[k].type # "none"
      BY <1>1, <1>2 DEF Types
    <3>3. UNCHANGED <<strays, unread>> /\ clock' \in Nat /\ clock' >= clock /\ OthersStay(c)
      BY <1>1, BackupBounds DEF OwnershipInv, TypeOK, Ids, Keeps
    <3> QED
      BY <2>3, <3>1, <3>2, <3>3, <3>4, BystanderFits
  <2> QED
    BY <2>2, <2>3
<1>5. RecordsFit'
  BY <1>1, <1>2, BackupBounds DEF OwnershipInv, TypeOK, OpsFit, OpFits, RecordsFit, Creating,
     Deleting, Owns, At, Id, HasRow, Keeps, OthersStay, Ids
<1>6. FilesFit'
  BY <1>1, <1>2 DEF OwnershipInv, TypeOK, OpsFit, OpFits, FilesFit, Creating, Deleting, Owns,
     At, Id, HasRow, Keeps, OthersStay
<1>7. OwnedByWhom'
  BY <1>1, <1>2 DEF OwnershipInv, TypeOK, OpsFit, OpFits, OwnedByWhom, Creating, Deleting, Owns,
     At, Id, HasRow, Keeps, OthersStay, Ids
<1> QED
  BY <1>3, <1>4, <1>5, <1>6, <1>7 DEF OwnershipInv

LEMMA RestoreOwns ==
    ASSUME OwnershipInv, NEW c \in Callers, NEW n \in backups, Rollback(c, n) \/ Receive(c, n)
    PROVE  OwnershipInv'
<1>1. /\ snaps' \subseteq snaps \cup {n} /\ (n \in snaps \/ n \in files)
      /\ snaps' \subseteq Ids
      /\ UNCHANGED <<clock, sec, config, configured, unread, obj, backups, rows, files, op,
                     crashes, dirty, strays, partials>>
  BY RestoreDoes
<1>2. n \in Ids
  BY DEF OwnershipInv, TypeOK
<1>3. TypeOK' /\ DistinctSeconds'
  BY <1>1, <1>2 DEF OwnershipInv, TypeOK, DistinctSeconds, Ids
<1>4. OpsFit'
  BY <1>1, <1>2, BackupBounds DEF OwnershipInv, TypeOK, OpsFit, OpFits, Creating, Deleting,
     Owns, At, Id, HasRow, Ids
<1>5. RecordsFit'
  <2>1. RecordsFit
    BY DEF OwnershipInv
  <2>2. \A k \in Ids : HasRow(k)' <=> HasRow(k)
    BY <1>1 DEF HasRow
  <2>3. \A k \in (backups \cup snaps \cup files \cup strays \cup partials)' : k <= clock'
    BY <1>1, <2>1 DEF RecordsFit
  <2> QED
    BY <1>1, <2>1, <2>2, <2>3 DEF RecordsFit, HasRow
<1>6. FilesFit'
  BY <1>1, <1>2 DEF OwnershipInv, TypeOK, OpsFit, OpFits, FilesFit, Creating, Deleting, Owns,
     At, Id, HasRow
<1>7. OwnedByWhom'
  <2>1. \A d \in Callers, k \in Ids : Owns(d, k)' <=> Owns(d, k)
    BY <1>1 DEF Owns, Creating, Deleting, Id
  <2> QED
    BY <1>1, <2>1 DEF OwnershipInv, OwnedByWhom, TypeOK
<1> QED
  BY <1>3, <1>4, <1>5, <1>6, <1>7 DEF OwnershipInv

LEMMA CrashOwns ==
    ASSUME OwnershipInv, NEW readsInstances \in BOOLEAN, NEW readsRecords \in BOOLEAN,
           Crash(readsInstances, readsRecords)
    PROVE  OwnershipInv'
<1>1. /\ crashes < MaxCrashes /\ crashes' = crashes + 1
      /\ \/ backups' = {n \in Ids : HasRow(n)} /\ unread' = {}
         \/ backups' = {} /\ unread' = {n \in Ids : HasRow(n)}
      /\ obj' = rows /\ configured' \in BOOLEAN
      /\ op' = [c \in Callers |-> Idle]
      /\ strays' = {n \in Ids : (n \in snaps \/ n \in files) /\ ~HasRow(n)}
      /\ dirty' = {} /\ UNCHANGED <<clock, sec, config, rows, snaps, files, partials>>
  BY DEF Crash, hostVars
<1>2. Idle \in Operations
  BY DEF Idle, Operations, PCs
<1>3. TypeOK' /\ DistinctSeconds'
  BY <1>1, <1>2, BackupBounds DEF OwnershipInv, TypeOK, DistinctSeconds
<1>4. \A c \in Callers : op'[c] = Idle
  BY <1>1
<1>5. OpsFit'
  BY <1>4 DEF OpsFit, OpFits, Idle, At, Creating, Deleting
<1>6. RecordsFit'
  <2>1. \A n \in (backups \cup snaps \cup files \cup strays \cup partials)' : n <= clock'
    BY <1>1 DEF OwnershipInv, RecordsFit
  <2>2. \A n \in Ids : HasRow(n)' => n <= clock'
    BY <1>1 DEF OwnershipInv, RecordsFit, HasRow
  <2>3. \A n \in backups' : obj'[n].type # "none"
    BY <1>1 DEF HasRow
  <2>4. \A n \in Ids : HasRow(n)' \/ rows'[n] = NoBackup
    BY <1>1 DEF OwnershipInv, RecordsFit, HasRow
  <2>5. \A n \in strays' : n \notin backups' /\ ~HasRow(n)' /\ obj'[n] = NoBackup
    BY <1>1 DEF OwnershipInv, RecordsFit, HasRow
  <2>6. \A n \in unread' : n \notin backups' /\ HasRow(n)'
    BY <1>1 DEF HasRow
  <2> QED
    BY <1>1, <2>1, <2>2, <2>3, <2>4, <2>5, <2>6 DEF RecordsFit
<1>7. FilesFit'
  <2> SUFFICES ASSUME NEW n \in files PROVE obj'[n].located \/ n \in strays' \cup partials'
    BY <1>1 DEF FilesFit
  <2>1. CASE HasRow(n)
    <3>1. n \in Ids /\ rows[n].located = obj[n].located /\ n \notin strays
      BY <2>1 DEF OwnershipInv, TypeOK, RecordsFit
    <3>2. \A c \in Callers : ~(Id(c) = n /\ At(c, "send"))
      BY <2>1 DEF OwnershipInv, OpsFit, OpFits, Creating, At
    <3> QED
      BY <1>1, <3>1, <3>2 DEF OwnershipInv, FilesFit
  <2>2. CASE ~HasRow(n)
    BY <1>1, <2>2 DEF OwnershipInv, TypeOK
  <2> QED
    BY <2>1, <2>2
<1>8. OwnedByWhom'
  <2> SUFFICES ASSUME NEW n \in snaps \cup files PROVE n \in backups' \cup strays' \cup unread'
    BY <1>1 DEF OwnedByWhom
  <2> QED
    BY <1>1 DEF OwnershipInv, TypeOK
<1> QED
  BY <1>3, <1>5, <1>6, <1>7, <1>8 DEF OwnershipInv

(* No interleaving of callers, failure or crash breaks ownership. *)
LEMMA OwnershipStep == OwnershipInv /\ DistinctSeconds' /\ [Next]_vars => OwnershipInv'
<1> SUFFICES ASSUME OwnershipInv, DistinctSeconds', [Next]_vars PROVE OwnershipInv'
  OBVIOUS
<1>1. ASSUME NEW c \in Callers, CallerStep(c) PROVE OwnershipInv'
  <2>1. CASE PruneClaim(c)
    <3>1. PICK n \in op[c].todo \cap Ids : Claim(c, n) /\ op[c].pc = "prune"
      BY <2>1, PruneClaimDoes
    <3> QED
      BY <3>1, ClaimOwns
  <2> QED
    BY <1>1, <2>1, TakeSnapshotOwns, SnapshotFailsOwns, ChooseBaseOwns, OpenStreamOwns,
       SendStreamOwns, StreamFailsOwns, CleanSnapshotOwns, AddBackupOwns, PersistBackupOwns,
          RetainOwns, PruneSkipOwns, PruneDoneOwns, DestroySnapshotOwns, RemoveFileOwns,
          PutBackOwns, DeleteBackupRecordOwns, MarkVerifiedOwns DEF CallerStep
<1>2. ASSUME NEW c \in Callers, NEW type \in Types, BeginCreate(c, type) PROVE OwnershipInv'
  BY <1>2, BeginCreateOwns
<1>3. ASSUME NEW c \in Callers, NEW n \in backups, DeleteBackup(c, n) PROVE OwnershipInv'
  <2>1. n \in Ids /\ Claim(c, n) /\ op[c].pc = "idle"
    BY <1>3 DEF OwnershipInv, TypeOK, DeleteBackup, At
  <2> QED
    BY <2>1, ClaimOwns
<1>4. ASSUME NEW c \in Callers, NEW n \in backups,
             VerifyBackup(c, n) \/ Rollback(c, n) \/ Receive(c, n)
      PROVE  OwnershipInv'
  BY <1>4, VerifyBackupOwns, RestoreOwns
<1>5. ASSUME UNCHANGED vars PROVE OwnershipInv'
  BY <1>5 DEF vars, memVars, hostVars, ghosts, settings, OwnershipInv, TypeOK, OpsFit, OpFits, RecordsFit,
       FilesFit, OwnedByWhom, Creating, Deleting, Owns, At, Id, HasRow
<1>6. ASSUME NEW i \in DbOutcomes, NEW j \in DbOutcomes, Crash(i, j) PROVE OwnershipInv'
  BY <1>6, StatementsSucceedOrFail, CrashOwns
<1> QED
  BY <1>1, <1>2, <1>3, <1>4, <1>5, <1>6 DEF Next

(* The ownership of every snapshot and file, for any number of callers whose *)
(* creations fall into different seconds.                                    *)
LEMMA OwnershipHolds == Spec /\ []DistinctSeconds => []OwnershipInv
<1>1. Init => OwnershipInv
  <2> SUFFICES ASSUME Init PROVE OwnershipInv
    OBVIOUS
  <2>1. NoBackup \in BackupInfos /\ Idle \in Operations
    BY DEF NoBackup, BackupInfos, Types, Idle, Operations, PCs
  <2>2. TypeOK
    BY <2>1, BackupBounds DEF Init, TypeOK, Ids
  <2>3. \A n \in Ids : ~HasRow(n) /\ rows[n] = NoBackup
    BY DEF Init, HasRow, NoBackup
  <2>4. \A c \in Callers : op[c] = Idle
    BY DEF Init
  <2>5. OpsFit
    BY <2>4 DEF OpsFit, OpFits, Idle, At, Creating, Deleting
  <2> QED
    BY <2>2, <2>3, <2>5 DEF Init, OwnershipInv, DistinctSeconds, RecordsFit, FilesFit, OwnedByWhom
<1>2. OwnershipInv /\ DistinctSeconds' /\ [Next]_vars => OwnershipInv'
  BY OwnershipStep
<1> QED
  BY <1>1, <1>2, PTL DEF Spec

-----------------------------------------------------------------------------
(* The types, whatever seconds creations fall into: who is busy has a backup. *)
Busy == \A c \in Callers : At(c, "idle") \/ Id(c) \in Ids

LEMMA BusyStays ==
    ASSUME TypeOK, Busy, NEW c \in Callers, OthersStay(c),
           op'[c].pc = "idle" \/ op'[c].id \in Ids
    PROVE  Busy'
  BY DEF Busy, At, Id, OthersStay

LEMMA BusyFinishes ==
    ASSUME TypeOK, Busy, NEW c \in Callers, Finish(c)
    PROVE  op' \in [Callers -> Operations] /\ Busy'
<1>1. op' \in [Callers -> Operations] /\ op'[c] = Idle /\ OthersStay(c)
  BY FinishFacts
<1>2. op'[c].pc = "idle"
  BY <1>1 DEF Idle
<1> QED
  BY <1>1, <1>2, BusyStays

LEMMA BusyGoesOn ==
    ASSUME TypeOK, Busy, NEW c \in Callers, NEW pc \in PCs, Go(c, pc), ~At(c, "idle")
    PROVE  op' \in [Callers -> Operations] /\ Busy'
<1>1. op' \in [Callers -> Operations] /\ Keeps(c)
  BY GoFacts
<1>2. op'[c].id \in Ids /\ OthersStay(c)
  BY <1>1 DEF Busy, Id, Keeps
<1> QED
  BY <1>1, <1>2, BusyStays

LEMMA ClaimType ==
    ASSUME TypeOK, Busy, NEW c \in Callers, NEW n \in Ids, Claim(c, n)
    PROVE  TypeOK' /\ Busy'
<1>1. PICK k \in backups :
         /\ backups' = backups \ {k}
         /\ op' = [op EXCEPT ![c].pc = "destroy", ![c].id = k, ![c].todo = @ \ {n}]
  BY DEF Claim
<1>2. k \in Ids
  BY DEF TypeOK
<1>3. op' \in [Callers -> Operations] /\ OthersStay(c) /\ op'[c].id = k
  <2>1. op[c].todo \ {n} \in SUBSET Ids
    BY DEF TypeOK, Operations
  <2> QED
    <3> DEFINE new == [op[c] EXCEPT !.pc = "destroy", !.id = k, !.todo = @ \ {n}]
    <3>1. op[c] \in Operations
      BY DEF TypeOK
    <3>2. new \in Operations /\ new.id = k
      BY <1>2, <2>1, <3>1 DEF Operations, PCs
    <3>3. op' = [op EXCEPT ![c] = new]
      BY <1>1 DEF TypeOK
    <3> HIDE DEF new
    <3> QED
      BY <3>2, <3>3 DEF TypeOK, OthersStay
<1>4. Busy'
  BY <1>2, <1>3, BusyStays
<1>5. TypeOK'
  BY <1>1, <1>3 DEF Claim, TypeOK, settings, hostVars, ghosts
<1> QED
  BY <1>4, <1>5

LEMMA CallerStepType ==
    ASSUME TypeOK, Busy, NEW c \in Callers, CallerStep(c)
    PROVE  TypeOK' /\ Busy'
<1> USE DEF settings, memVars, hostVars, ghosts
<1>0. ~At(c, "idle")
  BY DEF CallerStep, At, TakeSnapshot, SnapshotFails, ChooseBase, OpenStream, SendStream,
     StreamFails, CleanSnapshot, AddBackup, PersistBackup, Retain, PruneClaim, PruneSkip,
     PruneDone, DestroySnapshot, RemoveFile, PutBack, DeleteBackupRecord, MarkVerified
<1>1. Id(c) \in Ids /\ Second(c) \in Ids
  BY <1>0 DEF Busy, Second, TypeOK
<1>2. CASE TakeSnapshot(c)
  <2>1. obj' \in [Ids -> BackupInfos]
    <3>1. CASE obj' = [obj EXCEPT ![Id(c)].status = "completed"]
      BY <1>1, <3>1 DEF TypeOK, BackupInfos
    <3> QED
      BY <1>2, <3>1 DEF TakeSnapshot, TypeOK
  <2>2. \E pc \in PCs : Go(c, pc)
    BY <1>2 DEF TakeSnapshot, PCs
  <2> QED
    BY <1>0, <1>1, <1>2, <2>1, <2>2, BusyGoesOn DEF TakeSnapshot, TypeOK
<1>3. CASE SnapshotFails(c) \/ StreamFails(c)
  <2>1. obj' \in [Ids -> BackupInfos]
    <3>1. obj' = [obj EXCEPT ![Id(c)].status = "failed"]
      BY <1>3 DEF SnapshotFails, StreamFails
    <3> QED
      BY <1>1, <3>1 DEF TypeOK, BackupInfos
  <2>2. files' \subseteq Ids /\ partials' \subseteq Ids
    BY <1>1, <1>3 DEF SnapshotFails, StreamFails, TypeOK
  <2>3. \E pc \in PCs : Go(c, pc)
    BY <1>3 DEF SnapshotFails, StreamFails, PCs
  <2> QED
    BY <1>0, <1>3, <2>1, <2>2, <2>3, BusyGoesOn DEF SnapshotFails, StreamFails, TypeOK
<1>4. CASE ChooseBase(c)
  <2>1. PreviousSnapshot \in Ids \cup {0}
    <3>1. Chainable \subseteq Ids
      BY DEF Chainable, TypeOK
    <3>2. CASE Chainable # {}
      BY <3>1, <3>2, MaxFacts DEF PreviousSnapshot, TypeOK
    <3> QED
      BY <3>2 DEF PreviousSnapshot
  <2>2. obj' \in [Ids -> BackupInfos]
    <3>1. /\ obj[Id(c)] \in BackupInfos /\ "full" \in Types
          /\ obj' = [obj EXCEPT ![Id(c)].base = PreviousSnapshot,
                                ![Id(c)].type = IF PreviousSnapshot = 0 THEN "full" ELSE @]
      BY <1>1, <1>4 DEF ChooseBase, TypeOK, Types
    <3> QED
      BY <1>1, <2>1, <3>1 DEF TypeOK, BackupInfos
  <2> QED
    BY <1>0, <1>4, <2>2, BusyGoesOn DEF ChooseBase, TypeOK, PCs
<1>5. CASE OpenStream(c) \/ CleanSnapshot(c) \/ AddBackup(c) \/ DestroySnapshot(c) \/ RemoveFile(c)
  <2>1. snaps' \subseteq Ids /\ files' \subseteq Ids /\ backups' \subseteq Ids
    BY <1>1, <1>5 DEF OpenStream, CleanSnapshot, AddBackup, DestroySnapshot, RemoveFile, TypeOK
  <2>2. \E pc \in PCs : Go(c, pc)
    BY <1>5 DEF OpenStream, CleanSnapshot, AddBackup, DestroySnapshot, RemoveFile, PCs
  <2> QED
    BY <1>0, <1>5, <2>1, <2>2, BusyGoesOn
       DEF OpenStream, CleanSnapshot, AddBackup, DestroySnapshot, RemoveFile, TypeOK
<1>6. CASE SendStream(c) \/ MarkVerified(c)
  <2>1. obj' \in [Ids -> BackupInfos]
    <3>1. CASE SendStream(c)
      <4>1. [obj[Id(c)] EXCEPT !.located = TRUE, !.status = "completed"] \in BackupInfos
        <5>1. obj[Id(c)] \in BackupInfos
          BY <1>1 DEF TypeOK
        <5> QED
          BY <5>1 DEF BackupInfos
      <4>2. obj' = [obj EXCEPT ![Id(c)] =
                      [obj[Id(c)] EXCEPT !.located = TRUE, !.status = "completed"]]
        BY <1>1, <3>1 DEF SendStream, TypeOK
      <4> QED
        BY <1>1, <4>1, <4>2 DEF TypeOK
    <3>2. CASE MarkVerified(c)
      <4>1. [obj[Id(c)] EXCEPT !.verified = TRUE] \in BackupInfos
        <5>1. obj[Id(c)] \in BackupInfos
          BY <1>1 DEF TypeOK
        <5> QED
          BY <5>1 DEF BackupInfos
      <4>2. obj' = [obj EXCEPT ![Id(c)] = [obj[Id(c)] EXCEPT !.verified = TRUE]]
        BY <1>1, <3>2 DEF MarkVerified, TypeOK
      <4> QED
        BY <1>1, <4>1, <4>2 DEF TypeOK
    <3> QED
      BY <1>6, <3>1, <3>2
  <2>2. \E pc \in PCs : Go(c, pc)
    BY <1>6 DEF SendStream, MarkVerified, PCs
  <2> QED
    BY <1>0, <1>6, <2>1, <2>2, BusyGoesOn DEF SendStream, MarkVerified, TypeOK
<1>7. CASE PersistBackup(c) \/ DeleteBackupRecord(c)
  <2>1. rows' \in [Ids -> BackupInfos] /\ dirty' \subseteq Ids
    <3>1. NoBackup \in BackupInfos /\ obj[Id(c)] \in BackupInfos
      BY <1>1 DEF TypeOK, NoBackup, BackupInfos
    <3>2. \/ rows' = rows
          \/ \E x \in BackupInfos : rows' = [rows EXCEPT ![Second(c)] = x]
      BY <1>7, <3>1 DEF PersistBackup, DeleteBackupRecord
    <3>3. dirty' \subseteq Ids
      BY <1>1, <1>7 DEF PersistBackup, DeleteBackupRecord, TypeOK
    <3> QED
      BY <1>1, <3>2, <3>3 DEF TypeOK
  <2>2. Finish(c) \/ \E pc \in PCs : Go(c, pc)
    BY <1>7 DEF PersistBackup, AfterSave, DeleteBackupRecord, Return, PCs
  <2>3. op' \in [Callers -> Operations] /\ Busy'
    BY <1>0, <2>2, BusyGoesOn, BusyFinishes
  <2> QED
    BY <1>7, <2>1, <2>3 DEF PersistBackup, DeleteBackupRecord, TypeOK
<1>8. CASE PutBack(c) \/ PruneDone(c)
  <2>1. backups' \subseteq Ids
    BY <1>1, <1>8 DEF PutBack, PruneDone, TypeOK
  <2>2. Finish(c) \/ \E pc \in PCs : Go(c, pc)
    BY <1>8 DEF PutBack, Return, PruneDone, PCs
  <2>3. op' \in [Callers -> Operations] /\ Busy'
    BY <1>0, <2>2, BusyGoesOn, BusyFinishes
  <2> QED
    BY <1>8, <2>1, <2>3 DEF PutBack, PruneDone, TypeOK
<1>9. CASE Retain(c) \/ PruneSkip(c)
  <2>1. PICK todo \in SUBSET Ids :
           op' = [op EXCEPT ![c].pc = "prune", ![c].todo = todo]
    <3>1. CASE Retain(c)
      BY <3>1 DEF Retain, TypeOK
    <3>2. CASE PruneSkip(c)
      <4>1. op[c].pc = "prune" /\ op[c].todo \in SUBSET Ids
        BY <3>2 DEF PruneSkip, At, TypeOK, Operations
      <4>2. op' = [op EXCEPT ![c].todo = op[c].todo \ {Max(op[c].todo)}]
        BY <3>2 DEF PruneSkip
      <4>3. op' = [op EXCEPT ![c].pc = "prune", ![c].todo = op[c].todo \ {Max(op[c].todo)}]
        BY <4>1, <4>2 DEF TypeOK, Operations
      <4> QED
        BY <4>1, <4>3
    <3> QED
      BY <1>9, <3>1, <3>2
  <2>2. op' \in [Callers -> Operations] /\ OthersStay(c) /\ op'[c].id = op[c].id
    <3>1. op[c] \in Operations /\ "prune" \in PCs
      BY DEF TypeOK, PCs
    <3>2. [op[c] EXCEPT !.pc = "prune", !.todo = todo] \in Operations
      BY <3>1 DEF Operations
    <3>3. op' = [op EXCEPT ![c] = [op[c] EXCEPT !.pc = "prune", !.todo = todo]]
      BY <2>1 DEF TypeOK
    <3> QED
      BY <3>1, <3>2, <3>3 DEF TypeOK, Operations, OthersStay
  <2>3. Busy'
    BY <1>1, <2>2, BusyStays DEF Id
  <2> QED
    BY <1>9, <2>2, <2>3 DEF Retain, PruneSkip, TypeOK
<1>10. CASE PruneClaim(c)
  <2>1. op[c].todo \subseteq Ids /\ op[c].todo # {} /\ Claim(c, Max(op[c].todo))
    BY <1>10 DEF PruneClaim, TypeOK, Operations
  <2> QED
    BY <2>1, MaxFacts, ClaimType
<1> QED
  BY <1>2, <1>3, <1>4, <1>5, <1>6, <1>7, <1>8, <1>9, <1>10 DEF CallerStep

LEMMA BeginCreateType ==
    ASSUME TypeOK, Busy, NEW c \in Callers, NEW type \in Types, BeginCreate(c, type)
    PROVE  TypeOK' /\ Busy'
<1>1. clock' = clock + 1 /\ clock' \in Ids /\ (clock > 0 => clock \in Ids)
  BY BackupBounds DEF BeginCreate, TypeOK, Ids
<1>2. sec' \in [Ids -> Ids]
  BY <1>1 DEF BeginCreate, TypeOK
<1>3. obj' \in [Ids -> BackupInfos]
  <2>1. [NoBackup EXCEPT !.type = type] \in BackupInfos
    BY DEF NoBackup, BackupInfos
  <2> QED
    BY <1>1, <2>1 DEF BeginCreate, TypeOK
<1> DEFINE new == [Idle EXCEPT !.pc = "hook", !.id = clock + 1, !.policy = Config]
<1>4. new \in Operations /\ new.id = clock'
  BY <1>1 DEF Idle, Operations, PCs, TypeOK, Config, NoPolicy
<1>5. op' = [op EXCEPT ![c] = new]
  BY DEF BeginCreate
<1> HIDE DEF new
<1>6. op' \in [Callers -> Operations] /\ OthersStay(c) /\ op'[c].id \in Ids
  BY <1>1, <1>4, <1>5 DEF TypeOK, OthersStay
<1>7. Busy'
  BY <1>6, BusyStays
<1> QED
  BY <1>1, <1>2, <1>3, <1>6, <1>7 DEF BeginCreate, TypeOK, hostVars, ghosts

(* Every variable keeps its type: the list, the rows, the host's snapshots   *)
(* and files and the callers' operations of the backup manager.              *)
THEOREM BackupTypeCorrect == Spec => []TypeOK
<1>1. Init => TypeOK /\ Busy
  <2> SUFFICES ASSUME Init PROVE TypeOK /\ Busy
    OBVIOUS
  <2>1. NoBackup \in BackupInfos /\ Idle \in Operations /\ Idle.pc = "idle"
    BY DEF NoBackup, BackupInfos, Types, Idle, Operations, PCs
  <2>2. TypeOK
    BY <2>1, BackupBounds DEF Init, TypeOK, Ids
  <2> QED
    BY <2>1, <2>2 DEF Init, Busy, At
<1>2. TypeOK /\ Busy /\ [Next]_vars => TypeOK' /\ Busy'
  <2> SUFFICES ASSUME TypeOK, Busy, [Next]_vars PROVE TypeOK' /\ Busy'
    OBVIOUS
  <2>1. ASSUME NEW c \in Callers, NEW n \in backups, DeleteBackup(c, n) PROVE TypeOK' /\ Busy'
    BY <2>1, ClaimType DEF DeleteBackup, TypeOK
  <2>2. ASSUME NEW c \in Callers, NEW n \in backups, VerifyBackup(c, n) PROVE TypeOK' /\ Busy'
    <3> DEFINE new == [Idle EXCEPT !.pc = "mark", !.id = n]
    <3>1. new \in Operations /\ new.id = n /\ n \in Ids
      BY DEF Idle, Operations, PCs, TypeOK
    <3>2. op' = [op EXCEPT ![c] = new]
      BY <2>2 DEF VerifyBackup
    <3> HIDE DEF new
    <3>3. op' \in [Callers -> Operations] /\ OthersStay(c) /\ op'[c].id \in Ids
      BY <3>1, <3>2 DEF TypeOK, OthersStay
    <3>4. Busy'
      BY <3>3, BusyStays
    <3> QED
      BY <2>2, <3>3, <3>4 DEF VerifyBackup, TypeOK, settings, memVars, hostVars, ghosts
  <2>3. ASSUME NEW c \in Callers, NEW n \in backups, Rollback(c, n) \/ Receive(c, n)
        PROVE  TypeOK' /\ Busy'
    <3>1. snaps' \subseteq Ids
      BY <2>3 DEF Rollback, Receive, TypeOK
    <3> QED
      BY <2>3, <3>1 DEF Rollback, Receive, TypeOK, Busy, At, Id, settings, memVars, ghosts
  <2>4. ASSUME NEW i \in DbOutcomes, NEW j \in DbOutcomes, Crash(i, j) PROVE TypeOK' /\ Busy'
    <3>1. Idle \in Operations /\ Idle.pc = "idle" /\ i \in BOOLEAN
      BY StatementsSucceedOrFail DEF Idle, Operations, PCs
    <3>2. crashes' \in 0..MaxCrashes
      BY <2>4, BackupBounds DEF Crash, TypeOK
    <3>3. backups' \subseteq Ids /\ unread' \subseteq Ids /\ strays' \subseteq Ids
      BY <2>4 DEF Crash
    <3>4. op' \in [Callers -> Operations] /\ Busy'
      BY <2>4, <3>1 DEF Crash, Busy, At
    <3> QED
      BY <2>4, <3>1, <3>2, <3>3, <3>4 DEF Crash, TypeOK, hostVars
  <2>5. CASE UNCHANGED vars
    BY <2>5 DEF vars, settings, memVars, hostVars, ghosts, TypeOK, Busy, At, Id
  <2> QED
    BY <2>1, <2>2, <2>3, <2>4, <2>5, CallerStepType, BeginCreateType DEF Next
<1> QED
  BY <1>1, <1>2, PTL DEF Spec

-----------------------------------------------------------------------------
(* No snapshot and no stream file is left without a listed record or an      *)
(* operation under way to remove it, whatever creations, deletions,          *)
(* retention runs, verifications and restores overlap, but for what a crash  *)
(* leaves, a partial file os.Remove failed on and the records a start could  *)
(* not read.  The IDs are seconds: creations fall into different ones.       *)
THEOREM BackupDataOwned == Spec /\ []DistinctSeconds => []DataIsOwned
<1>1. OwnershipInv => DataIsOwned
  BY DEF OwnershipInv, OwnedByWhom, FilesFit, DataIsOwned, Owns, Creating, At
<1> QED
  BY <1>1, OwnershipHolds, PTL

-----------------------------------------------------------------------------
(* Operations that do not overlap. *)
LEMMA Alone ==
    ASSUME OwnershipInv, OwnershipInv', OneAtATime, OneAtATime', NEW c \in Callers, OthersStay(c),
           op[c].pc # "idle" \/ op'[c].pc # "idle"
    PROVE  \A d \in Callers \ {c} : op[d] = Idle /\ op'[d] = Idle
<1> SUFFICES ASSUME NEW d \in Callers \ {c} PROVE op[d] = Idle /\ op'[d] = Idle
  OBVIOUS
<1>1. op'[d] = op[d]
  BY DEF OthersStay
<1>2. op[d].pc = "idle"
  BY <1>1 DEF OneAtATime, At
<1>3. OpFits(d)
  BY DEF OwnershipInv, OpsFit
<1> QED
  BY <1>1, <1>2, <1>3 DEF OpFits, At

(* What the invariant says of the only caller at work ... *)
LEMMA SerialFacts ==
    ASSUME SerialInv, NEW c \in Callers, \A d \in Callers \ {c} : op[d] = Idle
    PROVE  /\ \A n \in Ids : BaseFits(n)
           /\ \A n \in unread : UnreadFits(n)
           /\ StreamFits(c) /\ ChainInv /\ RowFits(c) /\ RetentionFits(c)
           /\ \A n \in Ids \ dirty : AtRest(n) \/ WorksOn(c, n)
<1>1. \A n, d : d \in Callers \ {c} => ~WorksOn(d, n)
  BY DEF WorksOn, Idle
<1> QED
  BY <1>1 DEF SerialInv, BasesFit, RowsInv, RetentionInv

LEMMA IdleFits ==
    ASSUME NEW d \in Callers, op'[d] = Idle
    PROVE  StreamFits(d)' /\ RowFits(d)' /\ RetentionFits(d)'
<1>1. op'[d].pc = "idle"
  BY DEF Idle
<1> QED
  BY <1>1 DEF StreamFits, RowFits, RetentionFits, Creating, Deleting, Pruning, At

(* ... is all there is to show of it after its step. *)
LEMMA SerialParts ==
    ASSUME NEW c \in Callers, \A d \in Callers \ {c} : op'[d] = Idle,
           \A n \in Ids : BaseFits(n)', \A n \in unread' : UnreadFits(n)',
           StreamFits(c)', ChainInv',
           \A n \in Ids \ dirty' : AtRest(n)' \/ WorksOn(c, n)',
           RowFits(c)', RetentionFits(c)'
    PROVE  SerialInv'
<1>1. \A d \in Callers : StreamFits(d)' /\ RowFits(d)' /\ RetentionFits(d)'
  BY IdleFits
<1> QED
  BY <1>1 DEF SerialInv, BasesFit, RowsInv, RetentionInv

(* The records the last start could not read stay clear of the list. *)
LEMMA UnreadStaysFit ==
    ASSUME OwnershipInv, NEW c \in Callers, \A d \in Callers \ {c} : op'[d] = Idle,
           unread' = unread, \A n \in unread : UnreadFits(n),
           \A n \in unread : obj'[n].base = obj[n].base,
           \A k \in backups' \ backups, n \in unread : obj[n].base # k,
           Deleting(c)' => Id(c)' \in backups \/ (Deleting(c) /\ Id(c)' = Id(c))
    PROVE  \A n \in unread' : UnreadFits(n)'
<1> SUFFICES ASSUME NEW n \in unread PROVE UnreadFits(n)'
  OBVIOUS
<1>1. n \in Ids /\ obj'[n].base = obj[n].base /\ UnreadFits(n)
  BY DEF OwnershipInv, TypeOK
<1>2. obj'[n].base \notin backups'
  BY <1>1 DEF UnreadFits
<1>3. ASSUME NEW d \in Callers, Deleting(d)' PROVE Id(d)' # obj'[n].base
  <2>1. d = c
    BY <1>3 DEF Deleting, Idle
  <2> QED
    BY <1>1, <1>3, <2>1 DEF UnreadFits
<1> QED
  BY <1>2, <1>3 DEF UnreadFits

(* Sets of backups are finite, and a larger one has no fewer elements. *)
LEMMA CountMono ==
    ASSUME NEW T, T \subseteq Ids, NEW S, S \subseteq T
    PROVE  /\ Cardinality(S) \in Nat /\ Cardinality(T) \in Nat
           /\ Cardinality(S) <= Cardinality(T)
<1>1. IsFiniteSet(Ids)
  BY BackupBounds, FS_Interval DEF Ids
<1>2. IsFiniteSet(T)
  BY <1>1, FS_Subset
<1> QED
  BY <1>2, FS_Subset, FS_CardinalityType

(* Of a set with p elements after n, p of the newest come after n. *)
LEMMA NewestCount ==
    ASSUME NEW S, S \subseteq Ids, NEW p \in Nat, NEW n \in Ids,
           Cardinality({x \in S : x > n}) >= p
    PROVE  Cardinality({k \in Newest(S, p) : k > n}) >= p
<1> DEFINE T == {x \in S : x > n}
           R == {k \in Newest(S, p) : k > n}
<1>1. R \subseteq T /\ T \subseteq Ids
  BY DEF Newest
<1>2. CASE R = T
  BY <1>2
<1>3. CASE R # T
  <2>1. PICK m \in T \ R : \A y \in T \ R : y <= m
    <3>1. T \ R # {} /\ T \ R \subseteq Ids
      BY <1>1, <1>3
    <3> HIDE DEF T, R
    <3>2. Max(T \ R) \in T \ R /\ \A y \in T \ R : y <= Max(T \ R)
      BY <3>1, MaxFacts
    <3> QED
      BY <3>2
  <2>2. m \in S /\ m > n /\ m \notin Newest(S, p) /\ m \in Ids
    OBVIOUS
  <2>3. ~(Cardinality({x \in S : x > m}) < p)
    BY <2>2 DEF Newest
  <2>4. {x \in S : x > m} \subseteq R
    <3> SUFFICES ASSUME NEW x \in S, x > m PROVE x \in R
      OBVIOUS
    <3>1. x \in Ids /\ x > n
      BY <2>2 DEF Ids
    <3>2. x \in T
      BY <3>1
    <3>3. ~(x <= m)
      BY <2>2, <3>1 DEF Ids
    <3> QED
      BY <2>1, <3>2, <3>3
  <2>5. R \subseteq Ids
    BY <1>1
  <2> HIDE DEF T, R
  <2>6. /\ Cardinality({x \in S : x > m}) \in Nat /\ Cardinality(R) \in Nat
        /\ Cardinality({x \in S : x > m}) <= Cardinality(R)
    BY <2>4, <2>5, CountMono
  <2>7. Cardinality(R) >= p
    BY <2>3, <2>6
  <2> QED
    BY <2>7 DEF R
<1> QED
  BY <1>2, <1>3

(* A policy with a rule keeps the newest backup. *)
LEMMA NewestIsKept ==
    ASSUME NEW p \in Policies, ~KeepsAll(p), clock \in backups, backups \subseteq Ids,
           \A n \in backups : n <= clock
    PROVE  clock \in Kept(p)
<1>1. p.last \in Nat /\ p.buckets \in Nat
  BY PoliciesAreRetention
<1>2. ASSUME NEW S, S \subseteq backups PROVE {x \in S : x > clock} = {}
  <2>1. \A x \in S : x \in Ids /\ clock \in Ids /\ x <= clock
    BY <1>2
  <2>2. \A x \in S : ~(x > clock)
    BY <2>1 DEF Ids
  <2> QED
    BY <2>2
<1>3. Cardinality({}) = 0
  BY FS_EmptySet
<1>4. CASE p.last > 0
  <2>1. Cardinality({x \in backups : x > clock}) < p.last
    BY <1>1, <1>2, <1>3, <1>4
  <2> QED
    BY <2>1 DEF Kept, Keep, Newest
<1>5. CASE p.buckets > 0
  <2>1. clock \in BucketHeads(backups) /\ BucketHeads(backups) \subseteq backups
    BY DEF BucketHeads
  <2>2. Cardinality({x \in BucketHeads(backups) : x > clock}) < p.buckets
    BY <1>1, <1>2, <1>3, <1>5, <2>1
  <2> QED
    BY <2>1, <2>2 DEF Kept, Keep, Newest
<1> QED
  BY <1>1, <1>4, <1>5 DEF KeepsAll

LEMMA TakeSnapshotSerial ==
    ASSUME OwnershipInv, OwnershipInv', SerialInv, OneAtATime, OneAtATime', NEW c \in Callers,
           TakeSnapshot(c)
    PROVE  SerialInv'
<1>1. /\ op[c].pc = "hook"
      /\ op' \in [Callers -> Operations]
      /\ Keeps(c) /\ op'[c].pc \in {"append", "open", "base"}
      /\ snaps' = snaps \cup {Id(c)}
      /\ UNCHANGED <<clock, sec, config, configured, unread, backups, rows, files, crashes,
                     dirty, strays, partials>>
      /\ obj' \in [Ids -> BackupInfos] /\ \A n \in Ids \ {Id(c)} : obj'[n] = obj[n]
      /\ obj'[Id(c)].type = obj[Id(c)].type /\ obj'[Id(c)].base = obj[Id(c)].base
      /\ obj'[Id(c)].located = obj[Id(c)].located
      /\ obj[Id(c)].type = "snapshot" => op'[c].pc = "append"
      /\ obj[Id(c)].type # "snapshot" => obj' = obj
      /\ op'[c].pc = "open" => obj[Id(c)].type = "full"
  BY TakeSnapshotDoes
<1>2. Id(c) \in Ids /\ OpFits(c) /\ OpFits(c)'
  BY <1>1, BusyFacts DEF At, OwnershipInv, OpsFit
<1>3. \A d \in Callers \ {c} : op[d] = Idle /\ op'[d] = Idle
  BY <1>1, Alone DEF Keeps
<1>4. /\ \A n \in Ids : BaseFits(n)
      /\ \A n \in unread : UnreadFits(n)
      /\ StreamFits(c) /\ ChainInv /\ RowFits(c) /\ RetentionFits(c)
      /\ \A n \in Ids \ dirty : AtRest(n) \/ WorksOn(c, n)
  BY <1>3, SerialFacts
<1>5. \A n \in Ids : BaseFits(n)'
  BY <1>1, <1>2, <1>4, BackupBounds DEF OwnershipInv, TypeOK, RecordsFit, Ids, BaseFits, OpFits,
     Creating, Deleting, At, Id, HasRow, Keeps
<1>6. StreamFits(c)'
  <2>1. CASE op'[c].pc = "append"
    BY <1>1, <1>2, <1>4, <2>1 DEF StreamFits, Creating, Id, Keeps
  <2>2. CASE op'[c].pc \in {"open", "base"}
    <3>1. obj' = obj
      BY <1>1, <2>2
    <3> QED
      BY <1>1, <1>2, <1>4, <2>2, <3>1 DEF StreamFits, Creating, Id, Keeps
  <2> QED
    BY <1>1, <2>1, <2>2
<1>7. ChainInv'
  <2>1. CASE obj' = obj
    BY <1>1, <1>4, <2>1 DEF ChainInv
  <2>2. CASE obj[Id(c)].type = "snapshot"
    BY <1>1, <1>4, <2>2 DEF ChainInv, OwnershipInv, TypeOK
  <2> QED
    BY <1>1, <2>1, <2>2
<1>8. \A n \in Ids \ dirty' : AtRest(n)' \/ WorksOn(c, n)'
  BY <1>1, <1>2, <1>4 DEF OwnershipInv, TypeOK, RecordsFit, Ids, AtRest, WorksOn, RowFits,
     OpFits, Creating, Deleting, At, Id, HasRow, Keeps
<1>9. RowFits(c)'
  BY <1>1, <1>2, <1>4 DEF OwnershipInv, TypeOK, RecordsFit, Ids, RowFits, OpFits, Creating,
     Deleting, At, Id, HasRow, Keeps
<1>10. RetentionFits(c)'
  BY <1>1, <1>2, <1>4 DEF OwnershipInv, TypeOK, RecordsFit, Ids, RetentionFits, Pruning, OpFits,
     Creating, Deleting, At, Id, HasRow, Keeps, Idle
<1>11. \A n \in unread' : UnreadFits(n)'
  <2>1. unread' = unread /\ \A m \in unread : obj'[m].base = obj[m].base
    BY <1>1, <1>2 DEF OwnershipInv, TypeOK, OpFits, At
  <2>2. \A j \in backups' \ backups, m \in unread : obj[m].base # j
    BY <1>1
  <2>3. Deleting(c)' => Id(c)' \in backups \/ (Deleting(c) /\ Id(c)' = Id(c))
    BY <1>1 DEF Deleting, Id, Keeps, Idle
  <2> QED
    BY <1>3, <1>4, <2>1, <2>2, <2>3, UnreadStaysFit
<1> QED
  BY <1>3, <1>5, <1>6, <1>7, <1>8, <1>9, <1>10, <1>11, SerialParts

LEMMA SnapshotFailsSerial ==
    ASSUME OwnershipInv, OwnershipInv', SerialInv, OneAtATime, OneAtATime', NEW c \in Callers,
           SnapshotFails(c)
    PROVE  SerialInv'
<1>1. /\ op[c].pc = "hook"
      /\ op' \in [Callers -> Operations]
      /\ Keeps(c) /\ op'[c].pc = "append"
      /\ UNCHANGED <<clock, sec, config, configured, unread, backups, rows, snaps, files,
                     crashes, dirty, strays, partials>>
      /\ obj' \in [Ids -> BackupInfos] /\ \A n \in Ids \ {Id(c)} : obj'[n] = obj[n]
      /\ obj'[Id(c)].type = obj[Id(c)].type /\ obj'[Id(c)].base = obj[Id(c)].base
      /\ obj'[Id(c)].located = obj[Id(c)].located /\ obj'[Id(c)].status = "failed"
  BY SnapshotFailsDoes
<1>2. Id(c) \in Ids /\ OpFits(c) /\ OpFits(c)'
  BY <1>1, BusyFacts DEF At, OwnershipInv, OpsFit
<1>3. \A d \in Callers \ {c} : op[d] = Idle /\ op'[d] = Idle
  BY <1>1, Alone DEF Keeps
<1>4. /\ \A n \in Ids : BaseFits(n)
      /\ \A n \in unread : UnreadFits(n)
      /\ StreamFits(c) /\ ChainInv /\ RowFits(c) /\ RetentionFits(c)
      /\ \A n \in Ids \ dirty : AtRest(n) \/ WorksOn(c, n)
  BY <1>3, SerialFacts
<1>5. \A n \in Ids : BaseFits(n)'
  <2> SUFFICES ASSUME NEW n \in Ids PROVE BaseFits(n)'
    OBVIOUS
  <2>1. clock \in Nat /\ BaseFits(n)
    BY <1>4, BackupBounds DEF OwnershipInv, TypeOK, Ids
  <2>2. CASE n = Id(c)
    BY <1>1, <1>2, <2>1, <2>2 DEF OwnershipInv, TypeOK, RecordsFit, BaseFits, OpFits, Creating,
       At, Id
  <2>3. CASE n # Id(c)
    BY <1>1, <1>2, <2>1, <2>3 DEF BaseFits, Ids
  <2> QED
    BY <2>2, <2>3
<1>6. StreamFits(c)'
  BY <1>1, <1>2, <1>4, BackupBounds DEF OwnershipInv, TypeOK, RecordsFit, Ids, StreamFits,
     IsBase, OpFits, Creating, Deleting, At, Id, HasRow, Keeps
<1>7. ChainInv'
  BY <1>1, <1>2, <1>4 DEF OwnershipInv, TypeOK, RecordsFit, Ids, ChainInv, OpFits, Creating,
     Deleting, At, Id, HasRow, Keeps
<1>8. \A n \in Ids \ dirty' : AtRest(n)' \/ WorksOn(c, n)'
  BY <1>1, <1>2, <1>4 DEF OwnershipInv, TypeOK, RecordsFit, Ids, AtRest, WorksOn, RowFits,
     OpFits, Creating, Deleting, At, Id, HasRow, Keeps
<1>9. RowFits(c)'
  BY <1>1, <1>2, <1>4 DEF OwnershipInv, TypeOK, RecordsFit, Ids, RowFits, OpFits, Creating,
     Deleting, At, Id, HasRow, Keeps
<1>10. RetentionFits(c)'
  BY <1>1, <1>2, <1>4 DEF OwnershipInv, TypeOK, RecordsFit, Ids, RetentionFits, Pruning, OpFits,
     Creating, Deleting, At, Id, HasRow, Keeps, Idle
<1>11. \A n \in unread' : UnreadFits(n)'
  <2>1. unread' = unread /\ \A m \in unread : obj'[m].base = obj[m].base
    BY <1>1, <1>2 DEF OwnershipInv, TypeOK, OpFits, At
  <2>2. \A j \in backups' \ backups, m \in unread : obj[m].base # j
    BY <1>1
  <2>3. Deleting(c)' => Id(c)' \in backups \/ (Deleting(c) /\ Id(c)' = Id(c))
    BY <1>1 DEF Deleting, Id, Keeps, Idle
  <2> QED
    BY <1>3, <1>4, <2>1, <2>2, <2>3, UnreadStaysFit
<1> QED
  BY <1>3, <1>5, <1>6, <1>7, <1>8, <1>9, <1>10, <1>11, SerialParts

LEMMA ChooseBaseSerial ==
    ASSUME OwnershipInv, OwnershipInv', SerialInv, OneAtATime, OneAtATime', NEW c \in Callers,
           ChooseBase(c)
    PROVE  SerialInv'
<1>1. /\ op[c].pc = "base"
      /\ op' \in [Callers -> Operations]
      /\ Keeps(c) /\ op'[c].pc = "open"
      /\ UNCHANGED <<clock, sec, config, configured, unread, backups, rows, snaps, files,
                     crashes, dirty, strays, partials>>
      /\ obj' \in [Ids -> BackupInfos] /\ \A n \in Ids \ {Id(c)} : obj'[n] = obj[n]
      /\ obj'[Id(c)].located = obj[Id(c)].located /\ obj'[Id(c)].status = obj[Id(c)].status
      /\ obj'[Id(c)].type # "none" \/ obj[Id(c)].type = "none"
      /\ obj'[Id(c)].base \in Chainable \cup {0}
      /\ obj'[Id(c)].base = 0 => obj'[Id(c)].type = "full"
  BY ChooseBaseDoes
<1>2. Id(c) \in Ids /\ OpFits(c) /\ OpFits(c)'
  BY <1>1, BusyFacts DEF At, OwnershipInv, OpsFit
<1>3. \A d \in Callers \ {c} : op[d] = Idle /\ op'[d] = Idle
  BY <1>1, Alone DEF Keeps
<1>4. /\ \A n \in Ids : BaseFits(n)
      /\ \A n \in unread : UnreadFits(n)
      /\ StreamFits(c) /\ ChainInv /\ RowFits(c) /\ RetentionFits(c)
      /\ \A n \in Ids \ dirty : AtRest(n) \/ WorksOn(c, n)
  BY <1>3, SerialFacts
<1>4a. /\ obj'[Id(c)].base <= clock /\ obj'[Id(c)].base # Id(c)
       /\ obj'[Id(c)].base # 0 => obj'[Id(c)].base \in backups /\ obj[obj'[Id(c)].base].located
  <2>1. clock \in Nat /\ Id(c) > 0
    <3>1. clock \in Nat
      BY BackupBounds DEF OwnershipInv, TypeOK, Ids
    <3> QED
      BY <1>2, <3>1, BackupBounds DEF Ids
  <2>2. Id(c) \notin backups
    BY <1>1, <1>2 DEF OpFits, Creating
  <2>3. CASE obj'[Id(c)].base = 0
    BY <2>1, <2>3
  <2>4. CASE obj'[Id(c)].base \in Chainable
    BY <2>2, <2>4 DEF Chainable, OwnershipInv, RecordsFit
  <2> QED
    BY <1>1, <2>3, <2>4
<1>5. \A n \in Ids : BaseFits(n)'
  <2> SUFFICES ASSUME NEW n \in Ids PROVE BaseFits(n)'
    OBVIOUS
  <2>1. clock \in Nat /\ BaseFits(n)
    BY <1>4, BackupBounds DEF OwnershipInv, TypeOK, Ids
  <2>2. CASE n = Id(c)
    <3>1. obj'[n].base <= clock /\ obj'[n].base # n
      BY <1>2, <1>4a, <2>1, <2>2 DEF Ids
    <3> QED
      BY <1>1, <2>1, <2>2, <3>1 DEF BaseFits
  <2>3. CASE n # Id(c)
    BY <1>1, <1>2, <2>1, <2>3 DEF BaseFits
  <2> QED
    BY <2>2, <2>3
<1>6. StreamFits(c)'
  <2>1. Creating(c) /\ Creating(c)' /\ op[c].pc = "base"
    BY <1>1 DEF Creating
  <2>2. \A n \in Ids : obj'[n].base # Id(c)'
    BY <1>1, <1>2, <1>4, <1>4a, <2>1 DEF StreamFits, Id, Keeps, Ids
  <2>3. obj'[Id(c)].status = "running"
    BY <1>1, <1>4 DEF StreamFits
  <2>4. obj'[Id(c)].type = "incremental" => obj'[Id(c)].base # 0
    BY <1>1
  <2>5. obj'[Id(c)].base # 0 => obj'[obj'[Id(c)].base].located
    BY <1>1, <1>4a DEF OwnershipInv, TypeOK
  <2> QED
    BY <1>1, <2>2, <2>3, <2>4, <2>5 DEF StreamFits, Id, Keeps
<1>7. ChainInv'
  BY <1>1, <1>4 DEF ChainInv, StreamFits, OwnershipInv, TypeOK
<1>8. \A n \in Ids \ dirty' : AtRest(n)' \/ WorksOn(c, n)'
  BY <1>1, <1>2, <1>4 DEF OwnershipInv, TypeOK, RecordsFit, Ids, AtRest, WorksOn, RowFits,
     OpFits, Creating, Deleting, At, Id, HasRow, Keeps
<1>9. RowFits(c)'
  BY <1>1, <1>2, <1>4 DEF OwnershipInv, TypeOK, RecordsFit, Ids, RowFits, OpFits, Creating,
     Deleting, At, Id, HasRow, Keeps
<1>10. RetentionFits(c)'
  BY <1>1, <1>2, <1>4 DEF OwnershipInv, TypeOK, RecordsFit, Ids, RetentionFits, Pruning, OpFits,
     Creating, Deleting, At, Id, HasRow, Keeps, Idle
<1>11. \A n \in unread' : UnreadFits(n)'
  <2>1. unread' = unread /\ \A m \in unread : obj'[m].base = obj[m].base
    BY <1>1, <1>2 DEF OwnershipInv, TypeOK, OpFits, At
  <2>2. \A j \in backups' \ backups, m \in unread : obj[m].base # j
    BY <1>1
  <2>3. Deleting(c)' => Id(c)' \in backups \/ (Deleting(c) /\ Id(c)' = Id(c))
    BY <1>1 DEF Deleting, Id, Keeps, Idle
  <2> QED
    BY <1>3, <1>4, <2>1, <2>2, <2>3, UnreadStaysFit
<1> QED
  BY <1>3, <1>5, <1>6, <1>7, <1>8, <1>9, <1>10, <1>11, SerialParts

LEMMA OpenStreamSerial ==
    ASSUME OwnershipInv, OwnershipInv', SerialInv, OneAtATime, OneAtATime', NEW c \in Callers,
           OpenStream(c)
    PROVE  SerialInv'
<1>1. /\ op[c].pc = "open"
      /\ op' \in [Callers -> Operations]
      /\ Keeps(c) /\ op'[c].pc = "send"
      /\ files' = files \cup {Id(c)}
      /\ UNCHANGED <<clock, sec, config, configured, unread, obj, backups, rows, snaps,
                     crashes, dirty, strays, partials>>
  BY OpenStreamDoes
<1>2. Id(c) \in Ids /\ OpFits(c) /\ OpFits(c)'
  BY <1>1, BusyFacts DEF At, OwnershipInv, OpsFit
<1>3. \A d \in Callers \ {c} : op[d] = Idle /\ op'[d] = Idle
  BY <1>1, Alone DEF Keeps
<1>4. /\ \A n \in Ids : BaseFits(n)
      /\ \A n \in unread : UnreadFits(n)
      /\ StreamFits(c) /\ ChainInv /\ RowFits(c) /\ RetentionFits(c)
      /\ \A n \in Ids \ dirty : AtRest(n) \/ WorksOn(c, n)
  BY <1>3, SerialFacts
<1>5. \A n \in Ids : BaseFits(n)'
  BY <1>1, <1>2, <1>4, BackupBounds DEF OwnershipInv, TypeOK, RecordsFit, Ids, BaseFits, OpFits,
     Creating, Deleting, At, Id, HasRow, Keeps
<1>6. StreamFits(c)'
  BY <1>1, <1>2, <1>4, BackupBounds DEF OwnershipInv, TypeOK, RecordsFit, Ids, StreamFits,
     IsBase, OpFits, Creating, Deleting, At, Id, HasRow, Keeps
<1>7. ChainInv'
  BY <1>1, <1>4 DEF ChainInv, StreamFits
<1>8. \A n \in Ids \ dirty' : AtRest(n)' \/ WorksOn(c, n)'
  BY <1>1, <1>2, <1>4 DEF OwnershipInv, TypeOK, RecordsFit, Ids, AtRest, WorksOn, RowFits,
     OpFits, Creating, Deleting, At, Id, HasRow, Keeps
<1>9. RowFits(c)'
  BY <1>1, <1>2, <1>4 DEF OwnershipInv, TypeOK, RecordsFit, Ids, RowFits, OpFits, Creating,
     Deleting, At, Id, HasRow, Keeps
<1>10. RetentionFits(c)'
  BY <1>1, <1>2, <1>4 DEF OwnershipInv, TypeOK, RecordsFit, Ids, RetentionFits, Pruning, OpFits,
     Creating, Deleting, At, Id, HasRow, Keeps, Idle
<1>11. \A n \in unread' : UnreadFits(n)'
  <2>1. unread' = unread /\ \A m \in unread : obj'[m].base = obj[m].base
    BY <1>1, <1>2 DEF OwnershipInv, TypeOK, OpFits, At
  <2>2. \A j \in backups' \ backups, m \in unread : obj[m].base # j
    BY <1>1
  <2>3. Deleting(c)' => Id(c)' \in backups \/ (Deleting(c) /\ Id(c)' = Id(c))
    BY <1>1 DEF Deleting, Id, Keeps, Idle
  <2> QED
    BY <1>3, <1>4, <2>1, <2>2, <2>3, UnreadStaysFit
<1> QED
  BY <1>3, <1>5, <1>6, <1>7, <1>8, <1>9, <1>10, <1>11, SerialParts

LEMMA SendStreamSerial ==
    ASSUME OwnershipInv, OwnershipInv', SerialInv, OneAtATime, OneAtATime', NEW c \in Callers,
           SendStream(c)
    PROVE  SerialInv'
<1>1. /\ op[c].pc = "send"
      /\ op' \in [Callers -> Operations]
      /\ Keeps(c) /\ op'[c].pc = "append"
      /\ Id(c) \in snaps /\ obj[Id(c)].base \in snaps \cup {0}
      /\ UNCHANGED <<clock, sec, config, configured, unread, backups, rows, snaps, files,
                     crashes, dirty, strays, partials>>
      /\ obj' \in [Ids -> BackupInfos] /\ \A n \in Ids \ {Id(c)} : obj'[n] = obj[n]
      /\ obj'[Id(c)].type = obj[Id(c)].type /\ obj'[Id(c)].base = obj[Id(c)].base
      /\ obj'[Id(c)].located /\ obj'[Id(c)].status = "completed"
  BY SendStreamDoes
<1>2. Id(c) \in Ids /\ OpFits(c) /\ OpFits(c)'
  BY <1>1, BusyFacts DEF At, OwnershipInv, OpsFit
<1>3. \A d \in Callers \ {c} : op[d] = Idle /\ op'[d] = Idle
  BY <1>1, Alone DEF Keeps
<1>4. /\ \A n \in Ids : BaseFits(n)
      /\ \A n \in unread : UnreadFits(n)
      /\ StreamFits(c) /\ ChainInv /\ RowFits(c) /\ RetentionFits(c)
      /\ \A n \in Ids \ dirty : AtRest(n) \/ WorksOn(c, n)
  BY <1>3, SerialFacts
<1>5. \A n \in Ids : BaseFits(n)'
  <2> SUFFICES ASSUME NEW n \in Ids PROVE BaseFits(n)'
    OBVIOUS
  <2>1. BaseFits(n)
    BY <1>4
  <2>2. CASE n = Id(c)
    <3>1. n \in files /\ n \notin partials
      BY <1>1, <1>2, <2>2 DEF OpFits, At
    <3> QED
      BY <1>1, <2>1, <2>2, <3>1 DEF BaseFits
  <2>3. CASE n # Id(c)
    BY <1>1, <1>2, <2>1, <2>3 DEF BaseFits
  <2> QED
    BY <2>2, <2>3
<1>6. StreamFits(c)'
  BY <1>1, <1>2, <1>4, BackupBounds DEF OwnershipInv, TypeOK, RecordsFit, Ids, StreamFits,
     IsBase, OpFits, Creating, Deleting, At, Id, HasRow, Keeps
<1>7. ChainInv'
  <2> SUFFICES ASSUME NEW n \in files, obj'[n].type = "incremental",
                      obj'[n].status = "completed"
               PROVE  obj'[n].base \in files
    BY <1>1 DEF ChainInv
  <2>1. CASE n = Id(c)
    <3>1. obj[n].base \in snaps /\ obj[obj[n].base].located
      BY <1>1, <1>4, <2>1 DEF StreamFits
    <3>2. obj[n].base \in Ids
      BY <3>1 DEF OwnershipInv, TypeOK
    <3> QED
      BY <1>1, <1>4, <2>1, <3>1, <3>2 DEF BaseFits
  <2>2. CASE n # Id(c)
    BY <1>1, <1>4, <2>2 DEF ChainInv, OwnershipInv, TypeOK
  <2> QED
    BY <2>1, <2>2
<1>8. \A n \in Ids \ dirty' : AtRest(n)' \/ WorksOn(c, n)'
  BY <1>1, <1>2, <1>4 DEF OwnershipInv, TypeOK, RecordsFit, Ids, AtRest, WorksOn, RowFits,
     OpFits, Creating, Deleting, At, Id, HasRow, Keeps
<1>9. RowFits(c)'
  BY <1>1, <1>2, <1>4 DEF OwnershipInv, TypeOK, RecordsFit, Ids, RowFits, OpFits, Creating,
     Deleting, At, Id, HasRow, Keeps
<1>10. RetentionFits(c)'
  BY <1>1, <1>2, <1>4 DEF OwnershipInv, TypeOK, RecordsFit, Ids, RetentionFits, Pruning, OpFits,
     Creating, Deleting, At, Id, HasRow, Keeps, Idle
<1>11. \A n \in unread' : UnreadFits(n)'
  <2>1. unread' = unread /\ \A m \in unread : obj'[m].base = obj[m].base
    BY <1>1, <1>2 DEF OwnershipInv, TypeOK, OpFits, At
  <2>2. \A j \in backups' \ backups, m \in unread : obj[m].base # j
    BY <1>1
  <2>3. Deleting(c)' => Id(c)' \in backups \/ (Deleting(c) /\ Id(c)' = Id(c))
    BY <1>1 DEF Deleting, Id, Keeps, Idle
  <2> QED
    BY <1>3, <1>4, <2>1, <2>2, <2>3, UnreadStaysFit
<1> QED
  BY <1>3, <1>5, <1>6, <1>7, <1>8, <1>9, <1>10, <1>11, SerialParts

LEMMA StreamFailsSerial ==
    ASSUME OwnershipInv, OwnershipInv', SerialInv, OneAtATime, OneAtATime', NEW c \in Callers,
           StreamFails(c)
    PROVE  SerialInv'
<1>1. /\ op[c].pc \in {"open", "send"}
      /\ op' \in [Callers -> Operations]
      /\ Keeps(c) /\ op'[c].pc = "unsnap"
      /\ \/ Id(c) \notin files' /\ partials' = partials
         \/ Id(c) \in files /\ op[c].pc = "send" /\ partials' = partials \cup {Id(c)}
      /\ \A n \in Ids \ {Id(c)} : n \in files' <=> n \in files
      /\ files' \subseteq files
      /\ UNCHANGED <<clock, sec, config, configured, unread, backups, rows, snaps, crashes,
                     dirty, strays>>
      /\ obj' \in [Ids -> BackupInfos] /\ \A n \in Ids \ {Id(c)} : obj'[n] = obj[n]
      /\ obj'[Id(c)].type = obj[Id(c)].type /\ obj'[Id(c)].base = obj[Id(c)].base
      /\ obj'[Id(c)].located = obj[Id(c)].located /\ obj'[Id(c)].status = "failed"
  BY StreamFailsDoes
<1>2. Id(c) \in Ids /\ OpFits(c) /\ OpFits(c)'
  BY <1>1, BusyFacts DEF At, OwnershipInv, OpsFit
<1>3. \A d \in Callers \ {c} : op[d] = Idle /\ op'[d] = Idle
  BY <1>1, Alone DEF Keeps
<1>4. /\ \A n \in Ids : BaseFits(n)
      /\ \A n \in unread : UnreadFits(n)
      /\ StreamFits(c) /\ ChainInv /\ RowFits(c) /\ RetentionFits(c)
      /\ \A n \in Ids \ dirty : AtRest(n) \/ WorksOn(c, n)
  BY <1>3, SerialFacts
<1>5. \A n \in Ids : BaseFits(n)'
  <2> SUFFICES ASSUME NEW n \in Ids PROVE BaseFits(n)'
    OBVIOUS
  <2>1. BaseFits(n)
    BY <1>4
  <2>2. CASE n = Id(c)
    <3>1. ~obj[n].located
      BY <1>1, <1>2, <2>2 DEF OpFits, Creating, At
    <3> QED
      BY <1>1, <2>1, <2>2, <3>1 DEF BaseFits
  <2>3. CASE n # Id(c)
    BY <1>1, <2>1, <2>3 DEF BaseFits
  <2> QED
    BY <2>2, <2>3
<1>6. StreamFits(c)'
  <2>1. \A n \in Ids : obj'[n].base = obj[n].base
    BY <1>1, <1>2
  <2>2. \A n \in Ids : obj[n].base # Id(c)
    BY <1>1, <1>4 DEF StreamFits, Creating
  <2> QED
    BY <1>1, <2>1, <2>2 DEF StreamFits, Creating, Id, Keeps
<1>7. ChainInv'
  <2> SUFFICES ASSUME NEW n \in files', obj'[n].type = "incremental",
                      obj'[n].status = "completed"
               PROVE  obj'[n].base \in files'
    BY DEF ChainInv
  <2>1. n \in Ids /\ n \in files /\ obj'[n] = obj[n]
    BY <1>1 DEF OwnershipInv, TypeOK
  <2>2. obj[n].base # Id(c)
    BY <1>1, <1>4, <2>1 DEF StreamFits, Creating
  <2>3. obj[n].base \in files /\ obj[n].base \in Ids
    BY <1>4, <2>1 DEF ChainInv, OwnershipInv, TypeOK
  <2> QED
    BY <1>1, <2>1, <2>2, <2>3
<1>8. \A n \in Ids \ dirty' : AtRest(n)' \/ WorksOn(c, n)'
  BY <1>1, <1>2, <1>4 DEF OwnershipInv, TypeOK, RecordsFit, Ids, AtRest, WorksOn, RowFits,
     OpFits, Creating, Deleting, At, Id, HasRow, Keeps
<1>9. RowFits(c)'
  BY <1>1, <1>2, <1>4 DEF OwnershipInv, TypeOK, RecordsFit, Ids, RowFits, OpFits, Creating,
     Deleting, At, Id, HasRow, Keeps
<1>10. RetentionFits(c)'
  BY <1>1, <1>2, <1>4 DEF OwnershipInv, TypeOK, RecordsFit, Ids, RetentionFits, Pruning, OpFits,
     Creating, Deleting, At, Id, HasRow, Keeps, Idle
<1>11. \A n \in unread' : UnreadFits(n)'
  <2>1. unread' = unread /\ \A m \in unread : obj'[m].base = obj[m].base
    BY <1>1, <1>2 DEF OwnershipInv, TypeOK, OpFits, At
  <2>2. \A j \in backups' \ backups, m \in unread : obj[m].base # j
    BY <1>1
  <2>3. Deleting(c)' => Id(c)' \in backups \/ (Deleting(c) /\ Id(c)' = Id(c))
    BY <1>1 DEF Deleting, Id, Keeps, Idle
  <2> QED
    BY <1>3, <1>4, <2>1, <2>2, <2>3, UnreadStaysFit
<1> QED
  BY <1>3, <1>5, <1>6, <1>7, <1>8, <1>9, <1>10, <1>11, SerialParts

LEMMA CleanSnapshotSerial ==
    ASSUME OwnershipInv, OwnershipInv', SerialInv, OneAtATime, OneAtATime', NEW c \in Callers,
           CleanSnapshot(c)
    PROVE  SerialInv'
<1>1. /\ op[c].pc = "unsnap"
      /\ op' \in [Callers -> Operations]
      /\ Keeps(c) /\ op'[c].pc = "append"
      /\ snaps' \subseteq snaps /\ snaps \subseteq snaps' \cup {Id(c)}
      /\ UNCHANGED <<clock, sec, config, configured, unread, obj, backups, rows, files,
                     crashes, dirty, strays, partials>>
  BY CleanSnapshotDoes
<1>2. Id(c) \in Ids /\ OpFits(c) /\ OpFits(c)'
  BY <1>1, BusyFacts DEF At, OwnershipInv, OpsFit
<1>3. \A d \in Callers \ {c} : op[d] = Idle /\ op'[d] = Idle
  BY <1>1, Alone DEF Keeps
<1>4. /\ \A n \in Ids : BaseFits(n)
      /\ \A n \in unread : UnreadFits(n)
      /\ StreamFits(c) /\ ChainInv /\ RowFits(c) /\ RetentionFits(c)
      /\ \A n \in Ids \ dirty : AtRest(n) \/ WorksOn(c, n)
  BY <1>3, SerialFacts
<1>5. \A n \in Ids : BaseFits(n)'
  BY <1>1, <1>2, <1>4, BackupBounds DEF OwnershipInv, TypeOK, RecordsFit, Ids, BaseFits, OpFits,
     Creating, Deleting, At, Id, HasRow, Keeps
<1>6. StreamFits(c)'
  BY <1>1, <1>2, <1>4, BackupBounds DEF OwnershipInv, TypeOK, RecordsFit, Ids, StreamFits,
     IsBase, OpFits, Creating, Deleting, At, Id, HasRow, Keeps
<1>7. ChainInv'
  BY <1>1, <1>2, <1>4 DEF OwnershipInv, TypeOK, RecordsFit, Ids, ChainInv, OpFits, Creating,
     Deleting, At, Id, HasRow, Keeps
<1>8. \A n \in Ids \ dirty' : AtRest(n)' \/ WorksOn(c, n)'
  BY <1>1, <1>2, <1>4 DEF OwnershipInv, TypeOK, RecordsFit, Ids, AtRest, WorksOn, RowFits,
     OpFits, Creating, Deleting, At, Id, HasRow, Keeps
<1>9. RowFits(c)'
  BY <1>1, <1>2, <1>4 DEF OwnershipInv, TypeOK, RecordsFit, Ids, RowFits, OpFits, Creating,
     Deleting, At, Id, HasRow, Keeps
<1>10. RetentionFits(c)'
  BY <1>1, <1>2, <1>4 DEF OwnershipInv, TypeOK, RecordsFit, Ids, RetentionFits, Pruning, OpFits,
     Creating, Deleting, At, Id, HasRow, Keeps, Idle
<1>11. \A n \in unread' : UnreadFits(n)'
  <2>1. unread' = unread /\ \A m \in unread : obj'[m].base = obj[m].base
    BY <1>1, <1>2 DEF OwnershipInv, TypeOK, OpFits, At
  <2>2. \A j \in backups' \ backups, m \in unread : obj[m].base # j
    BY <1>1
  <2>3. Deleting(c)' => Id(c)' \in backups \/ (Deleting(c) /\ Id(c)' = Id(c))
    BY <1>1 DEF Deleting, Id, Keeps, Idle
  <2> QED
    BY <1>3, <1>4, <2>1, <2>2, <2>3, UnreadStaysFit
<1> QED
  BY <1>3, <1>5, <1>6, <1>7, <1>8, <1>9, <1>10, <1>11, SerialParts

LEMMA AddBackupSerial ==
    ASSUME OwnershipInv, OwnershipInv', SerialInv, OneAtATime, OneAtATime', NEW c \in Callers,
           AddBackup(c)
    PROVE  SerialInv'
<1>1. /\ op[c].pc = "append"
      /\ op' \in [Callers -> Operations]
      /\ Keeps(c) /\ op'[c].pc = "save"
      /\ backups' = backups \cup {Id(c)}
      /\ UNCHANGED <<clock, sec, config, configured, unread, obj, rows, snaps, files, crashes,
                     dirty, strays, partials>>
  BY AddBackupDoes
<1>2. Id(c) \in Ids /\ OpFits(c) /\ OpFits(c)'
  BY <1>1, BusyFacts DEF At, OwnershipInv, OpsFit
<1>3. \A d \in Callers \ {c} : op[d] = Idle /\ op'[d] = Idle
  BY <1>1, Alone DEF Keeps
<1>4. /\ \A n \in Ids : BaseFits(n)
      /\ \A n \in unread : UnreadFits(n)
      /\ StreamFits(c) /\ ChainInv /\ RowFits(c) /\ RetentionFits(c)
      /\ \A n \in Ids \ dirty : AtRest(n) \/ WorksOn(c, n)
  BY <1>3, SerialFacts
<1>5. \A n \in Ids : BaseFits(n)'
  BY <1>1, <1>2, <1>4, BackupBounds DEF OwnershipInv, TypeOK, RecordsFit, Ids, BaseFits, OpFits,
     Creating, Deleting, At, Id, HasRow, Keeps
<1>6. StreamFits(c)'
  BY <1>1, <1>2, <1>4, BackupBounds DEF OwnershipInv, TypeOK, RecordsFit, Ids, StreamFits,
     IsBase, OpFits, Creating, Deleting, At, Id, HasRow, Keeps
<1>7. ChainInv'
  BY <1>1, <1>2, <1>4 DEF OwnershipInv, TypeOK, RecordsFit, Ids, ChainInv, OpFits, Creating,
     Deleting, At, Id, HasRow, Keeps
<1>8. \A n \in Ids \ dirty' : AtRest(n)' \/ WorksOn(c, n)'
  BY <1>1, <1>2, <1>4 DEF OwnershipInv, TypeOK, RecordsFit, Ids, AtRest, WorksOn, RowFits,
     OpFits, Creating, Deleting, At, Id, HasRow, Keeps
<1>9. RowFits(c)'
  BY <1>1, <1>2, <1>4 DEF OwnershipInv, TypeOK, RecordsFit, Ids, RowFits, OpFits, Creating,
     Deleting, At, Id, HasRow, Keeps
<1>10. RetentionFits(c)'
  BY <1>1, <1>2, <1>4 DEF OwnershipInv, TypeOK, RecordsFit, Ids, RetentionFits, Pruning, OpFits,
     Creating, Deleting, At, Id, HasRow, Keeps, Idle
<1>11. \A n \in unread' : UnreadFits(n)'
  <2>1. unread' = unread /\ \A m \in unread : obj'[m].base = obj[m].base
    BY <1>1, <1>2 DEF OwnershipInv, TypeOK, OpFits, At
  <2>2. \A j \in backups' \ backups, m \in unread : obj[m].base # j
    BY <1>1, <1>4 DEF StreamFits, Creating, OwnershipInv, TypeOK
  <2>3. Deleting(c)' => Id(c)' \in backups \/ (Deleting(c) /\ Id(c)' = Id(c))
    BY <1>1 DEF Deleting, Id, Keeps, Idle
  <2> QED
    BY <1>3, <1>4, <2>1, <2>2, <2>3, UnreadStaysFit
<1> QED
  BY <1>3, <1>5, <1>6, <1>7, <1>8, <1>9, <1>10, <1>11, SerialParts

LEMMA PersistBackupSerial ==
    ASSUME OwnershipInv, OwnershipInv', SerialInv, OneAtATime, OneAtATime', NEW c \in Callers,
           PersistBackup(c)
    PROVE  SerialInv'
<1>1. /\ op[c].pc = "save" /\ OthersStay(c)
      /\ op' \in [Callers -> Operations]
      /\ \/ Keeps(c) /\ op'[c].pc = "retain" /\ obj[Id(c)].status = "completed" /\ ~KeepsAll(op[c].policy)
         \/ op'[c] = Idle
      /\ UNCHANGED <<clock, sec, config, configured, unread, obj, backups, snaps, files,
                     crashes, strays, partials>>
      /\ rows' \in [Ids -> BackupInfos] /\ \A n \in Ids \ {Id(c)} : rows'[n] = rows[n]
      /\ \/ rows'[Id(c)] = obj[Id(c)] /\ dirty' = dirty \ {Id(c)}
         \/ rows'[Id(c)] = rows[Id(c)] /\ dirty' = dirty \cup {Id(c)}
  BY PersistBackupDoes
<1>2. Id(c) \in Ids /\ OpFits(c) /\ OpFits(c)'
  BY <1>1, BusyFacts DEF At, OwnershipInv, OpsFit
<1>3. \A d \in Callers \ {c} : op[d] = Idle /\ op'[d] = Idle
  BY <1>1, Alone DEF Keeps
<1>4. /\ \A n \in Ids : BaseFits(n)
      /\ \A n \in unread : UnreadFits(n)
      /\ StreamFits(c) /\ ChainInv /\ RowFits(c) /\ RetentionFits(c)
      /\ \A n \in Ids \ dirty : AtRest(n) \/ WorksOn(c, n)
  BY <1>3, SerialFacts
<1>5. \A n \in Ids : BaseFits(n)'
  BY <1>1, <1>2, <1>4, BackupBounds DEF OwnershipInv, TypeOK, RecordsFit, Ids, BaseFits, OpFits,
     Creating, Deleting, At, Id, HasRow, Keeps
<1>6. StreamFits(c)'
  <2>1. CASE op'[c] = Idle
    BY <2>1, IdleFits
  <2>2. CASE op'[c].pc = "retain"
    BY <2>2 DEF StreamFits, Creating
  <2> QED
    BY <1>1, <2>1, <2>2
<1>7. ChainInv'
  BY <1>1, <1>2, <1>4 DEF OwnershipInv, TypeOK, RecordsFit, Ids, ChainInv, OpFits, Creating,
     Deleting, At, Id, HasRow, Keeps
<1>8. \A n \in Ids \ dirty' : AtRest(n)' \/ WorksOn(c, n)'
  BY <1>1, <1>2, <1>4 DEF OwnershipInv, TypeOK, RecordsFit, Ids, AtRest, WorksOn, RowFits,
     OpFits, Creating, Deleting, At, Id, HasRow, Keeps
<1>9. RowFits(c)'
  <2>1. CASE op'[c] = Idle
    BY <2>1, IdleFits
  <2>2. CASE op'[c].pc = "retain"
    BY <2>2 DEF RowFits
  <2> QED
    BY <1>1, <2>1, <2>2
<1>10. RetentionFits(c)'
  <2>1. CASE op'[c] = Idle
    BY <2>1, IdleFits
  <2>2. CASE op'[c].pc = "retain"
    <3>1. /\ Keeps(c) /\ obj[Id(c)].status = "completed" /\ ~KeepsAll(op[c].policy)
          /\ clock' = clock /\ backups' = backups /\ obj' = obj
      BY <1>1, <2>2 DEF Idle
    <3>2. op[c].policy # NoPolicy
      BY <3>1 DEF KeepsAll, NoPolicy
    <3>3. Id(c) = clock /\ Id(c) \in backups
      BY <1>1, <1>4, <3>2 DEF RetentionFits, RowFits, At
    <3>4. op'[c].policy = op[c].policy /\ op'[c].id = clock
      BY <3>1, <3>3 DEF Keeps, Id
    <3> HIDE DEF KeepsAll
    <3>5. KeepsAll(op[c].policy)' = KeepsAll(op[c].policy)
      BY <3>4 DEF KeepsAll
    <3> QED
      BY <2>2, <3>1, <3>2, <3>3, <3>4, <3>5 DEF RetentionFits, Creating, Deleting, Pruning, At, Id
  <2> QED
    BY <1>1, <2>1, <2>2
<1>11. \A n \in unread' : UnreadFits(n)'
  <2>1. unread' = unread /\ \A m \in unread : obj'[m].base = obj[m].base
    BY <1>1, <1>2 DEF OwnershipInv, TypeOK, OpFits, At
  <2>2. \A j \in backups' \ backups, m \in unread : obj[m].base # j
    BY <1>1
  <2>3. Deleting(c)' => Id(c)' \in backups \/ (Deleting(c) /\ Id(c)' = Id(c))
    BY <1>1 DEF Deleting, Id, Keeps, Idle
  <2> QED
    BY <1>3, <1>4, <2>1, <2>2, <2>3, UnreadStaysFit
<1> QED
  BY <1>3, <1>5, <1>6, <1>7, <1>8, <1>9, <1>10, <1>11, SerialParts

LEMMA RetainSerial ==
    ASSUME OwnershipInv, OwnershipInv', SerialInv, OneAtATime, OneAtATime', NEW c \in Callers,
           Retain(c)
    PROVE  SerialInv'
<1>1. /\ op[c].pc = "retain" /\ OthersStay(c)
      /\ op' \in [Callers -> Operations]
      /\ op'[c].pc = "prune" /\ op'[c].id = op[c].id /\ op'[c].policy = op[c].policy
      /\ op'[c].todo = {n \in backups : clock - n >= op[c].policy.minAge} \ Kept(op[c].policy)
      /\ UNCHANGED <<clock, sec, config, configured, unread, obj, backups, rows, snaps, files,
                     crashes, dirty, strays, partials>>
  BY RetainDoes
<1>2. Id(c) \in Ids /\ OpFits(c) /\ OpFits(c)'
  BY <1>1, BusyFacts DEF At, OwnershipInv, OpsFit
<1>3. \A d \in Callers \ {c} : op[d] = Idle /\ op'[d] = Idle
  BY <1>1, Alone DEF Keeps
<1>4. /\ \A n \in Ids : BaseFits(n)
      /\ \A n \in unread : UnreadFits(n)
      /\ StreamFits(c) /\ ChainInv /\ RowFits(c) /\ RetentionFits(c)
      /\ \A n \in Ids \ dirty : AtRest(n) \/ WorksOn(c, n)
  BY <1>3, SerialFacts
<1>5. \A n \in Ids : BaseFits(n)'
  BY <1>1, <1>2, <1>4, BackupBounds DEF OwnershipInv, TypeOK, RecordsFit, Ids, BaseFits, OpFits,
     Creating, Deleting, At, Id, HasRow, Keeps
<1>6. StreamFits(c)'
  BY <1>1, <1>2, <1>4, BackupBounds DEF OwnershipInv, TypeOK, RecordsFit, Ids, StreamFits,
     IsBase, OpFits, Creating, Deleting, At, Id, HasRow, Keeps
<1>7. ChainInv'
  BY <1>1, <1>2, <1>4 DEF OwnershipInv, TypeOK, RecordsFit, Ids, ChainInv, OpFits, Creating,
     Deleting, At, Id, HasRow, Keeps
<1>8. \A n \in Ids \ dirty' : AtRest(n)' \/ WorksOn(c, n)'
  BY <1>1, <1>2, <1>4 DEF OwnershipInv, TypeOK, RecordsFit, Ids, AtRest, WorksOn, RowFits,
     OpFits, Creating, Deleting, At, Id, HasRow, Keeps
<1>9. RowFits(c)'
  BY <1>1, <1>2, <1>4 DEF OwnershipInv, TypeOK, RecordsFit, Ids, RowFits, OpFits, Creating,
     Deleting, At, Id, HasRow, Keeps
<1>10. RetentionFits(c)'
  <2> DEFINE p == op[c].policy
             todo == op'[c].todo
  <2>1. /\ Id(c) = clock /\ clock \in backups /\ obj[clock].status = "completed"
        /\ p # NoPolicy /\ ~KeepsAll(p)
    BY <1>1, <1>4 DEF RetentionFits, At
  <2>2. p \in Policies /\ p.last \in Nat
    BY <2>1, PoliciesAreRetention DEF OwnershipInv, TypeOK, Operations
  <2>3. backups \subseteq Ids /\ \A n \in backups : n <= clock
    BY DEF OwnershipInv, TypeOK, RecordsFit
  <2>4. clock \notin todo
    <3>1. clock \in Kept(p)
      BY <2>1, <2>2, <2>3, NewestIsKept
    <3> QED
      BY <1>1, <3>1
  <2>5. ASSUME NEW n \in todo PROVE Cardinality({k \in backups \ todo : k > n}) >= p.last
    <3>1. n \in backups /\ n \in Ids /\ n \notin Newest(backups, p.last)
      BY <1>1, <2>3 DEF Kept, Keep
    <3>2. Cardinality({x \in backups : x > n}) \in Nat
      BY <2>3, CountMono
    <3>3. Cardinality({x \in backups : x > n}) >= p.last
      BY <2>2, <3>1, <3>2 DEF Newest
    <3>4. Cardinality({k \in Newest(backups, p.last) : k > n}) >= p.last
      BY <2>2, <2>3, <3>1, <3>3, NewestCount
    <3>5. Newest(backups, p.last) \subseteq backups \ todo
      BY <1>1 DEF Kept, Keep, Newest
    <3>6. /\ {k \in Newest(backups, p.last) : k > n} \subseteq {k \in backups \ todo : k > n}
          /\ {k \in backups \ todo : k > n} \subseteq Ids
      BY <2>3, <3>5
    <3> QED
      BY <2>2, <3>4, <3>6, CountMono
  <2> HIDE DEF p, todo
  <2>6. op'[c].policy = p /\ op'[c].todo = todo
    BY <1>1 DEF p, todo
  <2> QED
    BY <1>1, <2>1, <2>4, <2>5, <2>6 DEF RetentionFits, Creating, Deleting, Pruning, At, Id
<1>11. \A n \in unread' : UnreadFits(n)'
  <2>1. unread' = unread /\ \A m \in unread : obj'[m].base = obj[m].base
    BY <1>1, <1>2 DEF OwnershipInv, TypeOK, OpFits, At
  <2>2. \A j \in backups' \ backups, m \in unread : obj[m].base # j
    BY <1>1
  <2>3. Deleting(c)' => Id(c)' \in backups \/ (Deleting(c) /\ Id(c)' = Id(c))
    BY <1>1 DEF Deleting, Id, Keeps, Idle
  <2> QED
    BY <1>3, <1>4, <2>1, <2>2, <2>3, UnreadStaysFit
<1> QED
  BY <1>3, <1>5, <1>6, <1>7, <1>8, <1>9, <1>10, <1>11, SerialParts

LEMMA PruneSkipSerial ==
    ASSUME OwnershipInv, OwnershipInv', SerialInv, OneAtATime, OneAtATime', NEW c \in Callers,
           PruneSkip(c)
    PROVE  SerialInv'
<1>1. /\ op[c].pc = "prune" /\ OthersStay(c)
      /\ op' \in [Callers -> Operations]
      /\ op'[c].pc = "prune" /\ op'[c].id = op[c].id /\ op'[c].policy = op[c].policy
      /\ \E n \in op[c].todo : (n \notin backups \/ IsBase(n)) /\ op'[c].todo = op[c].todo \ {n}
      /\ UNCHANGED <<clock, sec, config, configured, unread, obj, backups, rows, snaps, files,
                     crashes, dirty, strays, partials>>
  BY PruneSkipDoes
<1>2. Id(c) \in Ids /\ OpFits(c) /\ OpFits(c)'
  BY <1>1, BusyFacts DEF At, OwnershipInv, OpsFit
<1>3. \A d \in Callers \ {c} : op[d] = Idle /\ op'[d] = Idle
  BY <1>1, Alone DEF Keeps
<1>4. /\ \A n \in Ids : BaseFits(n)
      /\ \A n \in unread : UnreadFits(n)
      /\ StreamFits(c) /\ ChainInv /\ RowFits(c) /\ RetentionFits(c)
      /\ \A n \in Ids \ dirty : AtRest(n) \/ WorksOn(c, n)
  BY <1>3, SerialFacts
<1>5. \A n \in Ids : BaseFits(n)'
  BY <1>1, <1>2, <1>4, BackupBounds DEF OwnershipInv, TypeOK, RecordsFit, Ids, BaseFits, OpFits,
     Creating, Deleting, At, Id, HasRow, Keeps
<1>6. StreamFits(c)'
  BY <1>1, <1>2, <1>4, BackupBounds DEF OwnershipInv, TypeOK, RecordsFit, Ids, StreamFits,
     IsBase, OpFits, Creating, Deleting, At, Id, HasRow, Keeps
<1>7. ChainInv'
  BY <1>1, <1>2, <1>4 DEF OwnershipInv, TypeOK, RecordsFit, Ids, ChainInv, OpFits, Creating,
     Deleting, At, Id, HasRow, Keeps
<1>8. \A n \in Ids \ dirty' : AtRest(n)' \/ WorksOn(c, n)'
  BY <1>1, <1>2, <1>4 DEF OwnershipInv, TypeOK, RecordsFit, Ids, AtRest, WorksOn, RowFits,
     OpFits, Creating, Deleting, At, Id, HasRow, Keeps
<1>9. RowFits(c)'
  BY <1>1, <1>2, <1>4 DEF OwnershipInv, TypeOK, RecordsFit, Ids, RowFits, OpFits, Creating,
     Deleting, At, Id, HasRow, Keeps
<1>10. RetentionFits(c)'
  <2>1. PICK m \in op[c].todo : op'[c].todo = op[c].todo \ {m}
    BY <1>1
  <2>2. /\ clock \in backups /\ obj[clock].status = "completed" /\ op[c].policy # NoPolicy
        /\ clock \notin op[c].todo
    BY <1>1, <1>4 DEF RetentionFits, Pruning, At
  <2>3. op[c].policy.last \in Nat
    BY <2>2, PoliciesAreRetention DEF OwnershipInv, TypeOK, Operations
  <2>4. ASSUME NEW n \in op'[c].todo
        PROVE  Cardinality({k \in backups \ op'[c].todo : k > n}) >= op[c].policy.last
    <3>1. Cardinality({k \in backups \ op[c].todo : k > n}) >= op[c].policy.last
      BY <1>1, <1>4, <2>1 DEF RetentionFits, Pruning, At
    <3>2. /\ {k \in backups \ op[c].todo : k > n} \subseteq {k \in backups \ op'[c].todo : k > n}
          /\ {k \in backups \ op'[c].todo : k > n} \subseteq Ids
      BY <2>1 DEF OwnershipInv, TypeOK
    <3> QED
      BY <2>3, <3>1, <3>2, CountMono
  <2> QED
    BY <1>1, <2>1, <2>2, <2>4 DEF RetentionFits, Creating, Deleting, Pruning, At, Id
<1>11. \A n \in unread' : UnreadFits(n)'
  <2>1. unread' = unread /\ \A m \in unread : obj'[m].base = obj[m].base
    BY <1>1, <1>2 DEF OwnershipInv, TypeOK, OpFits, At
  <2>2. \A j \in backups' \ backups, m \in unread : obj[m].base # j
    BY <1>1
  <2>3. Deleting(c)' => Id(c)' \in backups \/ (Deleting(c) /\ Id(c)' = Id(c))
    BY <1>1 DEF Deleting, Id, Keeps, Idle
  <2> QED
    BY <1>3, <1>4, <2>1, <2>2, <2>3, UnreadStaysFit
<1> QED
  BY <1>3, <1>5, <1>6, <1>7, <1>8, <1>9, <1>10, <1>11, SerialParts

LEMMA PruneDoneSerial ==
    ASSUME OwnershipInv, OwnershipInv', SerialInv, OneAtATime, OneAtATime', NEW c \in Callers,
           PruneDone(c)
    PROVE  SerialInv'
<1>1. /\ op[c].pc = "prune" /\ OthersStay(c) /\ op'[c] = Idle
      /\ op' \in [Callers -> Operations]
      /\ UNCHANGED <<clock, sec, config, configured, unread, obj, backups, rows, snaps, files,
                     crashes, dirty, strays, partials>>
  BY PruneDoneDoes
<1>2. Id(c) \in Ids /\ OpFits(c) /\ OpFits(c)'
  BY <1>1, BusyFacts DEF At, OwnershipInv, OpsFit
<1>3. \A d \in Callers \ {c} : op[d] = Idle /\ op'[d] = Idle
  BY <1>1, Alone DEF Keeps
<1>4. /\ \A n \in Ids : BaseFits(n)
      /\ \A n \in unread : UnreadFits(n)
      /\ StreamFits(c) /\ ChainInv /\ RowFits(c) /\ RetentionFits(c)
      /\ \A n \in Ids \ dirty : AtRest(n) \/ WorksOn(c, n)
  BY <1>3, SerialFacts
<1>5. \A n \in Ids : BaseFits(n)'
  BY <1>1, <1>2, <1>4, BackupBounds DEF OwnershipInv, TypeOK, RecordsFit, Ids, BaseFits, OpFits,
     Creating, Deleting, At, Id, HasRow, Keeps
<1>6. StreamFits(c)'
  BY <1>1, IdleFits
<1>7. ChainInv'
  BY <1>1, <1>2, <1>4 DEF OwnershipInv, TypeOK, RecordsFit, Ids, ChainInv, OpFits, Creating,
     Deleting, At, Id, HasRow, Keeps
<1>8. \A n \in Ids \ dirty' : AtRest(n)' \/ WorksOn(c, n)'
  BY <1>1, <1>2, <1>4 DEF OwnershipInv, TypeOK, RecordsFit, Ids, AtRest, WorksOn, RowFits,
     OpFits, Creating, Deleting, At, Id, HasRow, Keeps
<1>9. RowFits(c)'
  BY <1>1, IdleFits
<1>10. RetentionFits(c)'
  BY <1>1, IdleFits
<1>11. \A n \in unread' : UnreadFits(n)'
  <2>1. unread' = unread /\ \A m \in unread : obj'[m].base = obj[m].base
    BY <1>1, <1>2 DEF OwnershipInv, TypeOK, OpFits, At
  <2>2. \A j \in backups' \ backups, m \in unread : obj[m].base # j
    BY <1>1
  <2>3. Deleting(c)' => Id(c)' \in backups \/ (Deleting(c) /\ Id(c)' = Id(c))
    BY <1>1 DEF Deleting, Id, Keeps, Idle
  <2> QED
    BY <1>3, <1>4, <2>1, <2>2, <2>3, UnreadStaysFit
<1> QED
  BY <1>3, <1>5, <1>6, <1>7, <1>8, <1>9, <1>10, <1>11, SerialParts

LEMMA DestroySnapshotSerial ==
    ASSUME OwnershipInv, OwnershipInv', SerialInv, OneAtATime, OneAtATime', NEW c \in Callers,
           DestroySnapshot(c)
    PROVE  SerialInv'
<1>1. /\ op[c].pc = "destroy" /\ Keeps(c)
      /\ op' \in [Callers -> Operations]
      /\ \/ op'[c].pc = "remove" /\ snaps' = snaps \ {Id(c)}
         \/ op'[c].pc = "putBack" /\ snaps' = snaps
      /\ UNCHANGED <<clock, sec, config, configured, unread, obj, backups, rows, files,
                     crashes, dirty, strays, partials>>
  BY DestroySnapshotDoes
<1>2. Id(c) \in Ids /\ OpFits(c) /\ OpFits(c)'
  BY <1>1, BusyFacts DEF At, OwnershipInv, OpsFit
<1>3. \A d \in Callers \ {c} : op[d] = Idle /\ op'[d] = Idle
  BY <1>1, Alone DEF Keeps
<1>4. /\ \A n \in Ids : BaseFits(n)
      /\ \A n \in unread : UnreadFits(n)
      /\ StreamFits(c) /\ ChainInv /\ RowFits(c) /\ RetentionFits(c)
      /\ \A n \in Ids \ dirty : AtRest(n) \/ WorksOn(c, n)
  BY <1>3, SerialFacts
<1>5. \A n \in Ids : BaseFits(n)'
  BY <1>1, <1>4 DEF BaseFits
<1>6. StreamFits(c)'
  <2>1. ~IsBase(Id(c))'
    BY <1>1, <1>4 DEF StreamFits, IsBase, Id, Keeps
  <2> QED
    BY <1>1, <2>1 DEF StreamFits, Creating
<1>7. ChainInv'
  BY <1>1, <1>2, <1>4 DEF OwnershipInv, TypeOK, RecordsFit, Ids, ChainInv, OpFits, Creating,
     Deleting, At, Id, HasRow, Keeps
<1>8. \A n \in Ids \ dirty' : AtRest(n)' \/ WorksOn(c, n)'
  BY <1>1, <1>2, <1>4 DEF OwnershipInv, TypeOK, RecordsFit, Ids, AtRest, WorksOn, RowFits,
     OpFits, Creating, Deleting, At, Id, HasRow, Keeps
<1>9. RowFits(c)'
  BY <1>1, <1>2, <1>4 DEF OwnershipInv, TypeOK, RecordsFit, Ids, RowFits, OpFits, Creating,
     Deleting, At, Id, HasRow, Keeps
<1>10. RetentionFits(c)'
  BY <1>1, <1>2, <1>4 DEF OwnershipInv, TypeOK, RecordsFit, Ids, RetentionFits, Pruning, OpFits,
     Creating, Deleting, At, Id, HasRow, Keeps, Idle
<1>11. \A n \in unread' : UnreadFits(n)'
  <2>1. unread' = unread /\ \A m \in unread : obj'[m].base = obj[m].base
    BY <1>1, <1>2 DEF OwnershipInv, TypeOK, OpFits, At
  <2>2. \A j \in backups' \ backups, m \in unread : obj[m].base # j
    BY <1>1
  <2>3. Deleting(c)' => Id(c)' \in backups \/ (Deleting(c) /\ Id(c)' = Id(c))
    BY <1>1 DEF Deleting, Id, Keeps, Idle
  <2> QED
    BY <1>3, <1>4, <2>1, <2>2, <2>3, UnreadStaysFit
<1> QED
  BY <1>3, <1>5, <1>6, <1>7, <1>8, <1>9, <1>10, <1>11, SerialParts

LEMMA RemoveFileSerial ==
    ASSUME OwnershipInv, OwnershipInv', SerialInv, OneAtATime, OneAtATime', NEW c \in Callers,
           RemoveFile(c)
    PROVE  SerialInv'
<1>1. /\ op[c].pc = "remove" /\ Keeps(c)
      /\ op' \in [Callers -> Operations]
      /\ \/ op'[c].pc = "deleteRow" /\ files' = IF obj[Id(c)].located THEN files \ {Id(c)} ELSE files
         \/ op'[c].pc = "putBack" /\ files' = files
      /\ UNCHANGED <<clock, sec, config, configured, unread, obj, backups, rows, snaps,
                     crashes, dirty, strays, partials>>
  BY RemoveFileDoes
<1>2. Id(c) \in Ids /\ OpFits(c) /\ OpFits(c)'
  BY <1>1, BusyFacts DEF At, OwnershipInv, OpsFit
<1>3. \A d \in Callers \ {c} : op[d] = Idle /\ op'[d] = Idle
  BY <1>1, Alone DEF Keeps
<1>4. /\ \A n \in Ids : BaseFits(n)
      /\ \A n \in unread : UnreadFits(n)
      /\ StreamFits(c) /\ ChainInv /\ RowFits(c) /\ RetentionFits(c)
      /\ \A n \in Ids \ dirty : AtRest(n) \/ WorksOn(c, n)
  BY <1>3, SerialFacts
<1>5. \A n \in Ids : BaseFits(n)'
  BY <1>1, <1>2, <1>4, BackupBounds DEF OwnershipInv, TypeOK, RecordsFit, Ids, BaseFits, OpFits,
     Creating, Deleting, At, Id, HasRow, Keeps
<1>6. StreamFits(c)'
  BY <1>1, <1>2, <1>4, BackupBounds DEF OwnershipInv, TypeOK, RecordsFit, Ids, StreamFits,
     IsBase, OpFits, Creating, Deleting, At, Id, HasRow, Keeps
<1>7. ChainInv'
  <2>1. CASE op'[c].pc = "putBack"
    BY <1>1, <1>4, <2>1 DEF ChainInv
  <2>2. CASE op'[c].pc = "deleteRow"
    <3> SUFFICES ASSUME NEW n \in files, n \in files', obj[n].type = "incremental",
                        obj[n].status = "completed"
                 PROVE  obj[n].base \in files'
      BY <1>1, <2>2 DEF ChainInv
    <3>1. obj[n].base \in files /\ n \in Ids /\ n \notin partials
      BY <1>4 DEF ChainInv, BaseFits, OwnershipInv, TypeOK
    <3>2. n # Id(c)
      BY <1>1, <1>2, <2>2, <3>1 DEF OpFits, At, Id, Keeps
    <3>3. n \notin strays
      BY DEF OwnershipInv, RecordsFit, NoBackup
    <3>4. \A d \in Callers : ~Owns(d, n)
      BY <1>3, <3>2 DEF Owns, Idle, Creating, Deleting
    <3>5. n \in backups \cup unread
      BY <3>1, <3>3, <3>4 DEF OwnershipInv, OwnedByWhom
    <3>6. obj[n].base # Id(c)
      <4>1. CASE n \in backups
        BY <1>1, <1>2, <1>4, <3>1, <3>2, <4>1
           DEF StreamFits, IsBase, OwnershipInv, DistinctSeconds
      <4>2. CASE n \in unread
        BY <1>1, <1>4, <4>2 DEF UnreadFits, Deleting
      <4> QED
        BY <3>5, <4>1, <4>2
    <3> QED
      BY <1>1, <2>2, <3>1, <3>6
  <2> QED
    BY <1>1, <2>1, <2>2
<1>8. \A n \in Ids \ dirty' : AtRest(n)' \/ WorksOn(c, n)'
  BY <1>1, <1>2, <1>4 DEF OwnershipInv, TypeOK, RecordsFit, Ids, AtRest, WorksOn, RowFits,
     OpFits, Creating, Deleting, At, Id, HasRow, Keeps
<1>9. RowFits(c)'
  BY <1>1, <1>2, <1>4 DEF OwnershipInv, TypeOK, RecordsFit, Ids, RowFits, OpFits, Creating,
     Deleting, At, Id, HasRow, Keeps
<1>10. RetentionFits(c)'
  BY <1>1, <1>2, <1>4 DEF OwnershipInv, TypeOK, RecordsFit, Ids, RetentionFits, Pruning, OpFits,
     Creating, Deleting, At, Id, HasRow, Keeps, Idle
<1>11. \A n \in unread' : UnreadFits(n)'
  <2>1. unread' = unread /\ \A m \in unread : obj'[m].base = obj[m].base
    BY <1>1, <1>2 DEF OwnershipInv, TypeOK, OpFits, At
  <2>2. \A j \in backups' \ backups, m \in unread : obj[m].base # j
    BY <1>1
  <2>3. Deleting(c)' => Id(c)' \in backups \/ (Deleting(c) /\ Id(c)' = Id(c))
    BY <1>1 DEF Deleting, Id, Keeps, Idle
  <2> QED
    BY <1>3, <1>4, <2>1, <2>2, <2>3, UnreadStaysFit
<1> QED
  BY <1>3, <1>5, <1>6, <1>7, <1>8, <1>9, <1>10, <1>11, SerialParts

LEMMA PutBackSerial ==
    ASSUME OwnershipInv, OwnershipInv', SerialInv, OneAtATime, OneAtATime', NEW c \in Callers,
           PutBack(c)
    PROVE  SerialInv'
<1>1. /\ op[c].pc = "putBack" /\ OthersStay(c)
      /\ op' \in [Callers -> Operations]
      /\ \/ op'[c] = Idle /\ op[c].policy = NoPolicy
         \/ Keeps(c) /\ op'[c].pc = "prune" /\ op[c].policy # NoPolicy
      /\ backups' = backups \cup {Id(c)}
      /\ UNCHANGED <<clock, sec, config, configured, unread, obj, rows, snaps, files, crashes,
                     dirty, strays, partials>>
  BY PutBackDoes
<1>2. Id(c) \in Ids /\ OpFits(c) /\ OpFits(c)'
  BY <1>1, BusyFacts DEF At, OwnershipInv, OpsFit
<1>3. \A d \in Callers \ {c} : op[d] = Idle /\ op'[d] = Idle
  BY <1>1, Alone DEF Keeps
<1>4. /\ \A n \in Ids : BaseFits(n)
      /\ \A n \in unread : UnreadFits(n)
      /\ StreamFits(c) /\ ChainInv /\ RowFits(c) /\ RetentionFits(c)
      /\ \A n \in Ids \ dirty : AtRest(n) \/ WorksOn(c, n)
  BY <1>3, SerialFacts
<1>5. \A n \in Ids : BaseFits(n)'
  BY <1>1, <1>2, <1>4, BackupBounds DEF OwnershipInv, TypeOK, RecordsFit, Ids, BaseFits, OpFits,
     Creating, Deleting, At, Id, HasRow, Keeps
<1>6. StreamFits(c)'
  <2>1. CASE op'[c] = Idle
    BY <2>1, IdleFits
  <2>2. CASE op'[c].pc = "prune"
    BY <2>2 DEF StreamFits, Creating
  <2> QED
    BY <1>1, <2>1, <2>2
<1>7. ChainInv'
  BY <1>1, <1>2, <1>4 DEF OwnershipInv, TypeOK, RecordsFit, Ids, ChainInv, OpFits, Creating,
     Deleting, At, Id, HasRow, Keeps
<1>8. \A n \in Ids \ dirty' : AtRest(n)' \/ WorksOn(c, n)'
  BY <1>1, <1>2, <1>4 DEF OwnershipInv, TypeOK, RecordsFit, Ids, AtRest, WorksOn, RowFits,
     OpFits, Creating, Deleting, At, Id, HasRow, Keeps
<1>9. RowFits(c)'
  <2>1. CASE op'[c] = Idle
    BY <2>1, IdleFits
  <2>2. CASE op'[c].pc = "prune"
    BY <2>2 DEF RowFits
  <2> QED
    BY <1>1, <2>1, <2>2
<1>10. RetentionFits(c)'
  <2>1. CASE op'[c] = Idle
    BY <2>1, IdleFits
  <2>2. CASE op'[c].pc = "prune"
    <3>1. Keeps(c) /\ op[c].policy # NoPolicy
      BY <1>1, <2>2 DEF Idle
    <3>2. /\ clock \in backups /\ obj[clock].status = "completed"
          /\ clock \notin op[c].todo
          /\ \A n \in op[c].todo :
                Cardinality({k \in backups \ op[c].todo : k > n}) >= op[c].policy.last
      BY <1>1, <1>4, <3>1 DEF RetentionFits, Pruning, Deleting
    <3>3. op[c].policy.last \in Nat
      BY <3>1, PoliciesAreRetention DEF OwnershipInv, TypeOK, Operations
    <3>4. ASSUME NEW n \in op[c].todo
          PROVE  Cardinality({k \in backups' \ op[c].todo : k > n}) >= op[c].policy.last
      <4>1. Cardinality({k \in backups \ op[c].todo : k > n}) >= op[c].policy.last
        BY <3>2
      <4>2. /\ {k \in backups \ op[c].todo : k > n} \subseteq {k \in backups' \ op[c].todo : k > n}
            /\ {k \in backups' \ op[c].todo : k > n} \subseteq Ids
        BY <1>1, <1>2 DEF OwnershipInv, TypeOK
      <4> QED
        BY <3>3, <4>1, <4>2, CountMono
    <3>5. op'[c].policy = op[c].policy /\ op'[c].todo = op[c].todo
      BY <3>1 DEF Keeps
    <3> QED
      BY <1>1, <2>2, <3>1, <3>2, <3>4, <3>5 DEF RetentionFits, Creating, Deleting, Pruning, At, Id
  <2> QED
    BY <1>1, <2>1, <2>2
<1>11. \A n \in unread' : UnreadFits(n)'
  <2>1. unread' = unread /\ \A m \in unread : obj'[m].base = obj[m].base
    BY <1>1, <1>2 DEF OwnershipInv, TypeOK, OpFits, At
  <2>2. \A j \in backups' \ backups, m \in unread : obj[m].base # j
    BY <1>1, <1>4 DEF UnreadFits, Deleting
  <2>3. Deleting(c)' => Id(c)' \in backups \/ (Deleting(c) /\ Id(c)' = Id(c))
    BY <1>1 DEF Deleting, Id, Keeps, Idle
  <2> QED
    BY <1>3, <1>4, <2>1, <2>2, <2>3, UnreadStaysFit
<1> QED
  BY <1>3, <1>5, <1>6, <1>7, <1>8, <1>9, <1>10, <1>11, SerialParts

LEMMA DeleteBackupRecordSerial ==
    ASSUME OwnershipInv, OwnershipInv', SerialInv, OneAtATime, OneAtATime', NEW c \in Callers,
           DeleteBackupRecord(c)
    PROVE  SerialInv'
<1>1. /\ op[c].pc = "deleteRow" /\ OthersStay(c)
      /\ op' \in [Callers -> Operations]
      /\ \/ op'[c] = Idle /\ op[c].policy = NoPolicy
         \/ Keeps(c) /\ op'[c].pc = "prune" /\ op[c].policy # NoPolicy
      /\ UNCHANGED <<clock, sec, config, configured, unread, obj, backups, snaps, files,
                     crashes, strays, partials>>
      /\ rows' \in [Ids -> BackupInfos] /\ \A n \in Ids \ {Id(c)} : rows'[n] = rows[n]
      /\ \/ rows'[Id(c)] = NoBackup /\ dirty' = dirty \ {Id(c)}
         \/ rows'[Id(c)] = rows[Id(c)] /\ dirty' = dirty \cup {Id(c)}
  BY DeleteBackupRecordDoes
<1>2. Id(c) \in Ids /\ OpFits(c) /\ OpFits(c)'
  BY <1>1, BusyFacts DEF At, OwnershipInv, OpsFit
<1>3. \A d \in Callers \ {c} : op[d] = Idle /\ op'[d] = Idle
  BY <1>1, Alone DEF Keeps
<1>4. /\ \A n \in Ids : BaseFits(n)
      /\ \A n \in unread : UnreadFits(n)
      /\ StreamFits(c) /\ ChainInv /\ RowFits(c) /\ RetentionFits(c)
      /\ \A n \in Ids \ dirty : AtRest(n) \/ WorksOn(c, n)
  BY <1>3, SerialFacts
<1>5. \A n \in Ids : BaseFits(n)'
  BY <1>1, <1>2, <1>4, BackupBounds DEF OwnershipInv, TypeOK, RecordsFit, Ids, BaseFits, OpFits,
     Creating, Deleting, At, Id, HasRow, Keeps
<1>6. StreamFits(c)'
  <2>1. CASE op'[c] = Idle
    BY <2>1, IdleFits
  <2>2. CASE op'[c].pc = "prune"
    BY <2>2 DEF StreamFits, Creating
  <2> QED
    BY <1>1, <2>1, <2>2
<1>7. ChainInv'
  BY <1>1, <1>2, <1>4 DEF OwnershipInv, TypeOK, RecordsFit, Ids, ChainInv, OpFits, Creating,
     Deleting, At, Id, HasRow, Keeps
<1>8. \A n \in Ids \ dirty' : AtRest(n)' \/ WorksOn(c, n)'
  <2> SUFFICES ASSUME NEW n \in Ids \ dirty' PROVE AtRest(n)' \/ WorksOn(c, n)'
    OBVIOUS
  <2>1. CASE n = Id(c)
    <3>1. rows'[n] = NoBackup /\ n \notin backups' \cup unread'
      BY <1>1, <1>2, <2>1 DEF OpFits, Deleting, At
    <3> QED
      BY <3>1 DEF AtRest, HasRow, NoBackup
  <2>2. CASE n # Id(c)
    BY <1>1, <1>4, <2>2 DEF AtRest, HasRow, WorksOn
  <2> QED
    BY <2>1, <2>2
<1>9. RowFits(c)'
  <2>1. CASE op'[c] = Idle
    BY <2>1, IdleFits
  <2>2. CASE op'[c].pc = "prune"
    BY <2>2 DEF RowFits
  <2> QED
    BY <1>1, <2>1, <2>2
<1>10. RetentionFits(c)'
  <2>1. CASE op'[c] = Idle
    BY <2>1, IdleFits
  <2>2. CASE op'[c].pc = "prune"
    <3>1. Keeps(c) /\ op[c].policy # NoPolicy
      BY <1>1, <2>2 DEF Idle
    <3>2. op'[c].policy = op[c].policy /\ op'[c].todo = op[c].todo
      BY <3>1 DEF Keeps
    <3> QED
      BY <1>1, <1>4, <2>2, <3>1, <3>2 DEF RetentionFits, Creating, Deleting, Pruning, At, Id
  <2> QED
    BY <1>1, <2>1, <2>2
<1>11. \A n \in unread' : UnreadFits(n)'
  <2>1. unread' = unread /\ \A m \in unread : obj'[m].base = obj[m].base
    BY <1>1, <1>2 DEF OwnershipInv, TypeOK, OpFits, At
  <2>2. \A j \in backups' \ backups, m \in unread : obj[m].base # j
    BY <1>1
  <2>3. Deleting(c)' => Id(c)' \in backups \/ (Deleting(c) /\ Id(c)' = Id(c))
    BY <1>1 DEF Deleting, Id, Keeps, Idle
  <2> QED
    BY <1>3, <1>4, <2>1, <2>2, <2>3, UnreadStaysFit
<1> QED
  BY <1>3, <1>5, <1>6, <1>7, <1>8, <1>9, <1>10, <1>11, SerialParts

LEMMA MarkVerifiedSerial ==
    ASSUME OwnershipInv, OwnershipInv', SerialInv, OneAtATime, OneAtATime', NEW c \in Callers,
           MarkVerified(c)
    PROVE  SerialInv'
<1>1. /\ op[c].pc = "mark" /\ Keeps(c) /\ op'[c].pc = "save"
      /\ op' \in [Callers -> Operations]
      /\ UNCHANGED <<clock, sec, config, configured, unread, backups, rows, snaps, files,
                     crashes, dirty, strays, partials>>
      /\ obj' \in [Ids -> BackupInfos] /\ \A n \in Ids \ {Id(c)} : obj'[n] = obj[n]
      /\ obj'[Id(c)].type = obj[Id(c)].type /\ obj'[Id(c)].base = obj[Id(c)].base
      /\ obj'[Id(c)].located = obj[Id(c)].located /\ obj'[Id(c)].status = obj[Id(c)].status
  BY MarkVerifiedDoes
<1>2. Id(c) \in Ids /\ OpFits(c) /\ OpFits(c)'
  BY <1>1, BusyFacts DEF At, OwnershipInv, OpsFit
<1>3. \A d \in Callers \ {c} : op[d] = Idle /\ op'[d] = Idle
  BY <1>1, Alone DEF Keeps
<1>4. /\ \A n \in Ids : BaseFits(n)
      /\ \A n \in unread : UnreadFits(n)
      /\ StreamFits(c) /\ ChainInv /\ RowFits(c) /\ RetentionFits(c)
      /\ \A n \in Ids \ dirty : AtRest(n) \/ WorksOn(c, n)
  BY <1>3, SerialFacts
<1>5. \A n \in Ids : BaseFits(n)'
  <2> SUFFICES ASSUME NEW n \in Ids PROVE BaseFits(n)'
    OBVIOUS
  <2>1. clock \in Nat /\ BaseFits(n)
    BY <1>4, BackupBounds DEF OwnershipInv, TypeOK, Ids
  <2>2. CASE n = Id(c)
    BY <1>1, <1>2, <2>1, <2>2 DEF OwnershipInv, TypeOK, RecordsFit, BaseFits, OpFits, Creating,
       At, Id
  <2>3. CASE n # Id(c)
    BY <1>1, <1>2, <2>1, <2>3 DEF BaseFits, Ids
  <2> QED
    BY <2>2, <2>3
<1>6. StreamFits(c)'
  BY <1>1, <1>2, <1>4, BackupBounds DEF OwnershipInv, TypeOK, RecordsFit, Ids, StreamFits,
     IsBase, OpFits, Creating, Deleting, At, Id, HasRow, Keeps
<1>7. ChainInv'
  BY <1>1, <1>2, <1>4 DEF OwnershipInv, TypeOK, RecordsFit, Ids, ChainInv, OpFits, Creating,
     Deleting, At, Id, HasRow, Keeps
<1>8. \A n \in Ids \ dirty' : AtRest(n)' \/ WorksOn(c, n)'
  BY <1>1, <1>2, <1>4 DEF OwnershipInv, TypeOK, RecordsFit, Ids, AtRest, WorksOn, RowFits,
     OpFits, Creating, Deleting, At, Id, HasRow, Keeps
<1>9. RowFits(c)'
  BY <1>1, <1>2, <1>4 DEF OwnershipInv, TypeOK, RecordsFit, Ids, RowFits, OpFits, Creating,
     Deleting, At, Id, HasRow, Keeps
<1>10. RetentionFits(c)'
  BY <1>1, <1>2, <1>4 DEF OwnershipInv, TypeOK, RecordsFit, Ids, RetentionFits, Pruning, OpFits,
     Creating, Deleting, At, Id, HasRow, Keeps, Idle
<1>11. \A n \in unread' : UnreadFits(n)'
  <2>1. unread' = unread /\ \A m \in unread : obj'[m].base = obj[m].base
    BY <1>1, <1>2 DEF OwnershipInv, TypeOK, OpFits, At
  <2>2. \A j \in backups' \ backups, m \in unread : obj[m].base # j
    BY <1>1
  <2>3. Deleting(c)' => Id(c)' \in backups \/ (Deleting(c) /\ Id(c)' = Id(c))
    BY <1>1 DEF Deleting, Id, Keeps, Idle
  <2> QED
    BY <1>3, <1>4, <2>1, <2>2, <2>3, UnreadStaysFit
<1> QED
  BY <1>3, <1>5, <1>6, <1>7, <1>8, <1>9, <1>10, <1>11, SerialParts

LEMMA ClaimSerial ==
    ASSUME OwnershipInv, OwnershipInv', SerialInv, OneAtATime, OneAtATime', NEW c \in Callers,
           NEW n \in Ids, Claim(c, n),
           op[c].pc = "idle" \/ (op[c].pc = "prune" /\ n \in op[c].todo)
    PROVE  SerialInv'
<1>1. /\ n \in backups /\ ~IsBase(n) /\ OthersStay(c)
      /\ op' \in [Callers -> Operations]
      /\ op'[c].pc = "destroy" /\ op'[c].id = n /\ op'[c].policy = op[c].policy
      /\ op'[c].todo = op[c].todo \ {n}
      /\ backups' = backups \ {n}
      /\ UNCHANGED <<clock, sec, config, configured, unread, obj, rows, snaps, files, crashes,
                     dirty, strays, partials>>
  BY ClaimDoes
<1>2. n \in Ids /\ OpFits(c) /\ OpFits(c)'
  BY DEF OwnershipInv, OpsFit, TypeOK
<1>3. \A d \in Callers \ {c} : op[d] = Idle /\ op'[d] = Idle
  BY <1>1, Alone DEF Keeps
<1>4. /\ \A k \in Ids : BaseFits(k)
      /\ \A k \in unread : UnreadFits(k)
      /\ StreamFits(c) /\ ChainInv /\ RowFits(c) /\ RetentionFits(c)
      /\ \A k \in Ids \ dirty : AtRest(k) \/ WorksOn(c, k)
  BY <1>3, SerialFacts
<1>5. \A k \in Ids : BaseFits(k)'
  BY <1>1, <1>2, <1>4, BackupBounds DEF OwnershipInv, TypeOK, RecordsFit, Ids, BaseFits, OpFits,
     Creating, Deleting, At, Id, HasRow, Keeps
<1>6. StreamFits(c)'
  BY <1>1, <1>2, <1>4, BackupBounds DEF OwnershipInv, TypeOK, RecordsFit, Ids, StreamFits,
     IsBase, OpFits, Creating, Deleting, At, Id, HasRow, Keeps
<1>7. ChainInv'
  BY <1>1, <1>2, <1>4 DEF OwnershipInv, TypeOK, RecordsFit, Ids, ChainInv, OpFits, Creating,
     Deleting, At, Id, HasRow, Keeps
<1>8. \A k \in Ids \ dirty' : AtRest(k)' \/ WorksOn(c, k)'
  BY <1>1, <1>2, <1>4 DEF OwnershipInv, TypeOK, RecordsFit, Ids, AtRest, WorksOn, RowFits,
     OpFits, Creating, Deleting, At, Id, HasRow, Keeps
<1>9. RowFits(c)'
  <2>1. n \notin dirty => AtRest(n)
    BY <1>1, <1>2, <1>4 DEF WorksOn
  <2> QED
    BY <1>1, <2>1 DEF RowFits, AtRest, Id, HasRow
<1>10. RetentionFits(c)'
  <2>1. CASE op[c].policy = NoPolicy
    BY <1>1, <2>1 DEF RetentionFits, Creating, Deleting, Pruning, At, Id
  <2>2. CASE op[c].policy # NoPolicy
    <3>1. op[c].pc = "prune" /\ n \in op[c].todo
      BY <1>2, <2>2 DEF OpFits, At, Idle
    <3>2. /\ clock \in backups /\ obj[clock].status = "completed" /\ clock \notin op[c].todo
          /\ \A m \in op[c].todo :
                Cardinality({k \in backups \ op[c].todo : k > m}) >= op[c].policy.last
      BY <1>4, <3>1 DEF RetentionFits, Pruning, At
    <3>3. backups' \ op'[c].todo = backups \ op[c].todo
      BY <1>1, <3>1
    <3>4. /\ clock' \in backups' /\ obj'[clock'].status = "completed"
          /\ clock' \notin op'[c].todo /\ op'[c].policy = op[c].policy
      BY <1>1, <3>1, <3>2
    <3>5. \A m \in op'[c].todo :
             Cardinality({k \in backups' \ op'[c].todo : k > m}) >= op'[c].policy.last
      BY <1>1, <3>2, <3>3, <3>4
    <3> QED
      BY <1>1, <2>2, <3>4, <3>5 DEF RetentionFits, Creating, Deleting, Pruning, At
  <2> QED
    BY <2>1, <2>2
<1>11. \A k \in unread' : UnreadFits(k)'
  <2>1. unread' = unread /\ \A m \in unread : obj'[m].base = obj[m].base
    BY <1>1, <1>2 DEF OwnershipInv, TypeOK, OpFits, At
  <2>2. \A j \in backups' \ backups, m \in unread : obj[m].base # j
    BY <1>1
  <2>3. Deleting(c)' => Id(c)' \in backups \/ (Deleting(c) /\ Id(c)' = Id(c))
    BY <1>1 DEF Deleting, Id, Keeps, Idle
  <2> QED
    BY <1>3, <1>4, <2>1, <2>2, <2>3, UnreadStaysFit
<1> QED
  BY <1>3, <1>5, <1>6, <1>7, <1>8, <1>9, <1>10, <1>11, SerialParts

LEMMA BeginCreateSerial ==
    ASSUME OwnershipInv, OwnershipInv', SerialInv, OneAtATime, OneAtATime', NEW c \in Callers,
           NEW type \in Types, BeginCreate(c, type)
    PROVE  SerialInv'
<1>1. /\ op[c].pc = "idle" /\ OthersStay(c) /\ clock \in Nat
      /\ op' \in [Callers -> Operations]
      /\ clock' = clock + 1 /\ clock' \in Ids
      /\ op'[c].pc = "hook" /\ op'[c].id = clock' /\ op'[c].todo = {}
      /\ UNCHANGED <<sec, config, configured, unread, backups, rows, snaps, files, crashes,
                     dirty, strays, partials>>
      /\ obj' \in [Ids -> BackupInfos] /\ \A n \in Ids \ {clock'} : obj'[n] = obj[n]
      /\ obj'[clock'].type = type /\ obj'[clock'].base = 0
      /\ ~obj'[clock'].located /\ obj'[clock'].status = "running"
  BY BeginCreateDoes DEF OwnershipInv
<1>2. OpFits(c) /\ OpFits(c)'
  BY DEF OwnershipInv, OpsFit
<1>3. \A d \in Callers \ {c} : op[d] = Idle /\ op'[d] = Idle
  BY <1>1, Alone DEF Keeps
<1>4. /\ \A n \in Ids : BaseFits(n)
      /\ \A n \in unread : UnreadFits(n)
      /\ StreamFits(c) /\ ChainInv /\ RowFits(c) /\ RetentionFits(c)
      /\ \A n \in Ids \ dirty : AtRest(n) \/ WorksOn(c, n)
  BY <1>3, SerialFacts
<1>5. \A n \in Ids : BaseFits(n)'
  <2> SUFFICES ASSUME NEW n \in Ids PROVE BaseFits(n)'
    OBVIOUS
  <2>1. BaseFits(n) /\ clock' >= clock /\ clock' > 0
    <3>1. clock \in Nat /\ clock' = clock + 1
      BY <1>1
    <3> QED
      BY <1>4, <3>1
  <2>2. CASE n = clock'
    BY <1>1, <2>1, <2>2 DEF BaseFits
  <2>3. CASE n # clock'
    <3>1. obj'[n].base = obj[n].base /\ obj[n].base \in Nat
      BY <1>1, <2>3 DEF OwnershipInv, TypeOK, BackupInfos, Ids
    <3> QED
      BY <1>1, <2>1, <2>3, <3>1 DEF BaseFits
  <2> QED
    BY <2>2, <2>3
<1>6. StreamFits(c)'
  <2>1. \A n \in Ids : obj'[n].base # clock'
    <3> TAKE n \in Ids
    <3>1. CASE n = clock'
      BY <1>1, <3>1
    <3>2. CASE n # clock'
      <4>1. obj'[n].base <= clock /\ obj'[n].base \in Nat
        BY <1>1, <1>4, <3>2 DEF BaseFits, OwnershipInv, TypeOK, BackupInfos, Ids
      <4> QED
        BY <1>1, <4>1
    <3> QED
      BY <3>1, <3>2
  <2> QED
    BY <1>1, <2>1 DEF StreamFits, Creating, Id
<1>7. ChainInv'
  <2>1. \A n \in files : n \in Ids /\ n <= clock
    BY DEF OwnershipInv, TypeOK, RecordsFit
  <2>2. \A n \in files : obj'[n] = obj[n]
    BY <1>1, <2>1 DEF Ids
  <2> QED
    BY <1>1, <1>4, <2>2 DEF ChainInv
<1>8. \A n \in Ids \ dirty' : AtRest(n)' \/ WorksOn(c, n)'
  BY <1>1, <1>2, <1>4 DEF OwnershipInv, TypeOK, RecordsFit, Ids, AtRest, WorksOn, RowFits,
     OpFits, Creating, Deleting, At, Id, HasRow, Keeps
<1>9. RowFits(c)'
  BY <1>1, <1>2, <1>4 DEF OwnershipInv, TypeOK, RecordsFit, Ids, RowFits, OpFits, Creating,
     Deleting, At, Id, HasRow, Keeps
<1>10. RetentionFits(c)'
  BY <1>1, <1>2, <1>4 DEF OwnershipInv, TypeOK, RecordsFit, Ids, RetentionFits, Pruning, OpFits,
     Creating, Deleting, At, Id, HasRow, Keeps, Idle
<1>11. \A n \in unread' : UnreadFits(n)'
  <2>1. unread' = unread /\ \A m \in unread : obj'[m].base = obj[m].base
    BY <1>1 DEF OwnershipInv, RecordsFit, TypeOK, Ids
  <2>2. \A j \in backups' \ backups, m \in unread : obj[m].base # j
    BY <1>1
  <2>3. Deleting(c)' => Id(c)' \in backups \/ (Deleting(c) /\ Id(c)' = Id(c))
    BY <1>1 DEF Deleting, Id, Keeps, Idle
  <2> QED
    BY <1>3, <1>4, <2>1, <2>2, <2>3, UnreadStaysFit
<1> QED
  BY <1>3, <1>5, <1>6, <1>7, <1>8, <1>9, <1>10, <1>11, SerialParts

LEMMA VerifyBackupSerial ==
    ASSUME OwnershipInv, OwnershipInv', SerialInv, OneAtATime, OneAtATime', NEW c \in Callers,
           NEW n \in backups, VerifyBackup(c, n)
    PROVE  SerialInv'
<1>1. /\ op[c].pc = "idle" /\ OthersStay(c)
      /\ op' \in [Callers -> Operations]
      /\ op'[c].pc = "mark" /\ op'[c].id = n /\ op'[c].policy = NoPolicy /\ op'[c].todo = {}
      /\ UNCHANGED <<clock, sec, config, configured, unread, obj, backups, rows, snaps, files,
                     crashes, dirty, strays, partials>>
  BY VerifyBackupDoes
<1>2. n \in Ids /\ OpFits(c) /\ OpFits(c)'
  BY DEF OwnershipInv, OpsFit, TypeOK
<1>3. \A d \in Callers \ {c} : op[d] = Idle /\ op'[d] = Idle
  BY <1>1, Alone DEF Keeps
<1>4. /\ \A k \in Ids : BaseFits(k)
      /\ \A k \in unread : UnreadFits(k)
      /\ StreamFits(c) /\ ChainInv /\ RowFits(c) /\ RetentionFits(c)
      /\ \A k \in Ids \ dirty : AtRest(k) \/ WorksOn(c, k)
  BY <1>3, SerialFacts
<1>5. \A k \in Ids : BaseFits(k)'
  BY <1>1, <1>2, <1>4, BackupBounds DEF OwnershipInv, TypeOK, RecordsFit, Ids, BaseFits, OpFits,
     Creating, Deleting, At, Id, HasRow, Keeps
<1>6. StreamFits(c)'
  BY <1>1, <1>2, <1>4, BackupBounds DEF OwnershipInv, TypeOK, RecordsFit, Ids, StreamFits,
     IsBase, OpFits, Creating, Deleting, At, Id, HasRow, Keeps
<1>7. ChainInv'
  BY <1>1, <1>2, <1>4 DEF OwnershipInv, TypeOK, RecordsFit, Ids, ChainInv, OpFits, Creating,
     Deleting, At, Id, HasRow, Keeps
<1>8. \A k \in Ids \ dirty' : AtRest(k)' \/ WorksOn(c, k)'
  BY <1>1, <1>2, <1>4 DEF OwnershipInv, TypeOK, RecordsFit, Ids, AtRest, WorksOn, RowFits,
     OpFits, Creating, Deleting, At, Id, HasRow, Keeps
<1>9. RowFits(c)'
  BY <1>1, <1>2, <1>4 DEF OwnershipInv, TypeOK, RecordsFit, Ids, RowFits, OpFits, Creating,
     Deleting, At, Id, HasRow, Keeps
<1>10. RetentionFits(c)'
  BY <1>1, <1>2, <1>4 DEF OwnershipInv, TypeOK, RecordsFit, Ids, RetentionFits, Pruning, OpFits,
     Creating, Deleting, At, Id, HasRow, Keeps, Idle
<1>11. \A k \in unread' : UnreadFits(k)'
  <2>1. unread' = unread /\ \A m \in unread : obj'[m].base = obj[m].base
    BY <1>1, <1>2 DEF OwnershipInv, TypeOK, OpFits, At
  <2>2. \A j \in backups' \ backups, m \in unread : obj[m].base # j
    BY <1>1
  <2>3. Deleting(c)' => Id(c)' \in backups \/ (Deleting(c) /\ Id(c)' = Id(c))
    BY <1>1 DEF Deleting, Id, Keeps, Idle
  <2> QED
    BY <1>3, <1>4, <2>1, <2>2, <2>3, UnreadStaysFit
<1> QED
  BY <1>3, <1>5, <1>6, <1>7, <1>8, <1>9, <1>10, <1>11, SerialParts

LEMMA RestoreSerial ==
    ASSUME OwnershipInv, SerialInv, NEW c \in Callers, NEW n \in backups,
           Rollback(c, n) \/ Receive(c, n)
    PROVE  SerialInv'
<1>1. /\ snaps' \subseteq snaps \cup {n} /\ (n \in snaps \/ n \in files)
      /\ UNCHANGED <<clock, sec, config, configured, unread, obj, backups, rows, files, op,
                     crashes, dirty, strays, partials>>
  BY RestoreDoes
<1>2. \A k \in snaps' : k \in snaps \/ k \in files
  BY <1>1
<1>3. (\A k \in Ids : BaseFits(k)') /\ (\A k \in unread' : UnreadFits(k)')
  BY <1>1, <1>2 DEF SerialInv, BasesFit, BaseFits, UnreadFits, Deleting, Id
<1>4. \A d \in Callers : StreamFits(d)'
  BY <1>1 DEF SerialInv, BasesFit, StreamFits, Creating, Id, IsBase
<1>5. ChainInv' /\ RowsInv'
  BY <1>1 DEF SerialInv, ChainInv, RowsInv, RowFits, AtRest, WorksOn, HasRow, Id
<1>6. RetentionInv'
  <2> SUFFICES ASSUME NEW d \in Callers PROVE RetentionFits(d)'
    BY DEF RetentionInv
  <2>1. RetentionFits(d)
    BY DEF SerialInv, RetentionInv
  <2> QED
    BY <1>1, <2>1 DEF RetentionFits, Creating, Deleting, Pruning, At, Id, KeepsAll
<1> QED
  BY <1>3, <1>4, <1>5, <1>6 DEF SerialInv, BasesFit

LEMMA CrashSerial ==
    ASSUME OwnershipInv, SerialInv, NEW readsInstances \in BOOLEAN, NEW readsRecords \in BOOLEAN,
           Crash(readsInstances, readsRecords)
    PROVE  SerialInv'
<1>1. /\ \/ backups' = {n \in Ids : HasRow(n)} /\ unread' = {}
         \/ backups' = {} /\ unread' = {n \in Ids : HasRow(n)}
      /\ obj' = rows /\ op' = [c \in Callers |-> Idle]
      /\ dirty' = {} /\ UNCHANGED <<clock, sec, rows, snaps, files, partials>>
  BY DEF Crash, hostVars
<1>2. ASSUME NEW n \in Ids PROVE BaseFits(n)'
  <2>1. BaseFits(n) /\ clock \in Nat /\ n > 0
    BY BackupBounds DEF SerialInv, BasesFit, OwnershipInv, TypeOK, Ids
  <2>2. CASE HasRow(n)
    BY <1>1, <2>1, <2>2 DEF BaseFits, OwnershipInv, RecordsFit
  <2>3. CASE rows[n] = NoBackup
    BY <1>1, <2>1, <2>3 DEF BaseFits, NoBackup
  <2> QED
    BY <2>2, <2>3 DEF OwnershipInv, RecordsFit
<1>2a. \A n \in unread' : UnreadFits(n)'
  BY <1>1 DEF UnreadFits, Deleting, Idle
<1>3. ChainInv'
  BY <1>1 DEF SerialInv, ChainInv, OwnershipInv, TypeOK, RecordsFit, HasRow
<1>4. \A n \in Ids : AtRest(n)'
  BY <1>1 DEF AtRest, HasRow
<1>5. \A c \in Callers : StreamFits(c)' /\ RowFits(c)' /\ RetentionFits(c)'
  BY <1>1, IdleFits
<1> QED
  BY <1>2, <1>2a, <1>3, <1>4, <1>5 DEF SerialInv, BasesFit, RowsInv, RetentionInv

LEMMA SerialStep ==
    ASSUME OwnershipInv, SerialInv, OneAtATime, OneAtATime', DistinctSeconds', [Next]_vars
    PROVE  SerialInv'
<1>0. OwnershipInv'
  BY OwnershipStep
<1>1. ASSUME NEW c \in Callers, CallerStep(c) PROVE SerialInv'
  <2>1. CASE PruneClaim(c)
    <3>1. PICK n \in op[c].todo \cap Ids : Claim(c, n) /\ op[c].pc = "prune"
      BY <2>1, PruneClaimDoes
    <3> QED
      BY <1>0, <3>1, ClaimSerial
  <2> QED
    BY <1>0, <1>1, <2>1, TakeSnapshotSerial, SnapshotFailsSerial, ChooseBaseSerial,
       OpenStreamSerial, SendStreamSerial, StreamFailsSerial, CleanSnapshotSerial,
       AddBackupSerial, PersistBackupSerial, RetainSerial, PruneSkipSerial, PruneDoneSerial,
       DestroySnapshotSerial, RemoveFileSerial, PutBackSerial, DeleteBackupRecordSerial,
       MarkVerifiedSerial DEF CallerStep
<1>2. ASSUME NEW c \in Callers, NEW type \in Types, BeginCreate(c, type) PROVE SerialInv'
  BY <1>0, <1>2, BeginCreateSerial
<1>3. ASSUME NEW c \in Callers, NEW n \in backups, DeleteBackup(c, n) PROVE SerialInv'
  <2>1. n \in Ids /\ Claim(c, n) /\ op[c].pc = "idle"
    BY <1>3 DEF OwnershipInv, TypeOK, DeleteBackup, At
  <2> QED
    BY <1>0, <2>1, ClaimSerial
<1>4. ASSUME NEW c \in Callers, NEW n \in backups,
             VerifyBackup(c, n) \/ Rollback(c, n) \/ Receive(c, n)
      PROVE  SerialInv'
  BY <1>0, <1>4, VerifyBackupSerial, RestoreSerial
<1>5. ASSUME UNCHANGED vars PROVE SerialInv'
  <2>1. UNCHANGED <<clock, sec, unread, obj, backups, rows, snaps, files, op, dirty, partials>>
    BY <1>5 DEF vars, settings, memVars, hostVars, ghosts
  <2>2. BasesFit' /\ ChainInv' /\ RowsInv'
    BY <2>1 DEF SerialInv, BasesFit, BaseFits, UnreadFits, Deleting, StreamFits, Creating, Id, IsBase, ChainInv,
         RowsInv, RowFits, AtRest, WorksOn, HasRow
  <2>3. RetentionInv'
    BY <2>1 DEF SerialInv, RetentionInv, RetentionFits, Creating, Deleting, Pruning, At, Id,
       KeepsAll
  <2> QED
    BY <2>2, <2>3 DEF SerialInv
<1>6. ASSUME NEW i \in DbOutcomes, NEW j \in DbOutcomes, Crash(i, j) PROVE SerialInv'
  BY <1>6, StatementsSucceedOrFail, CrashSerial
<1> QED
  BY <1>1, <1>2, <1>3, <1>4, <1>5, <1>6 DEF Next

LEMMA SerialHolds == Spec /\ []DistinctSeconds /\ []OneAtATime => []SerialInv
<1>1. Init => SerialInv
  <2> SUFFICES ASSUME Init PROVE SerialInv
    OBVIOUS
  <2>1. \A c \in Callers : op[c].pc = "idle"
    BY DEF Init, Idle
  <2>2. \A n \in Ids : obj[n] = NoBackup /\ rows[n] = NoBackup /\ n > 0
    BY DEF Init, Ids
  <2>3. \A n \in Ids : BaseFits(n) /\ AtRest(n)
    BY <2>2 DEF Init, BaseFits, AtRest, HasRow, NoBackup
  <2>4. \A c \in Callers : StreamFits(c) /\ RowFits(c) /\ RetentionFits(c)
    BY <2>1 DEF StreamFits, RowFits, RetentionFits, Creating, Deleting, Pruning, At
  <2> QED
    BY <2>3, <2>4 DEF Init, SerialInv, BasesFit, ChainInv, RowsInv, RetentionInv
<1>2. OwnershipInv /\ SerialInv /\ OneAtATime /\ OneAtATime' /\ DistinctSeconds' /\ [Next]_vars
        => SerialInv'
  BY SerialStep
<1> QED
  BY <1>1, <1>2, OwnershipHolds, PTL DEF Spec

(* While operations do not overlap and creations fall into different         *)
(* seconds, a listed incremental whose stream is stored can be restored: the *)
(* stream it was sent against is stored too, whichever deletion, retention   *)
(* run or statement failed, wherever the daemon crashed and whatever its     *)
(* successor could not read.                                                 *)
THEOREM BackupChainsRestorable ==
    Spec /\ []DistinctSeconds /\ []OneAtATime => []ChainsRestorable
<1>1. OwnershipInv /\ SerialInv => ChainsRestorable
  BY DEF SerialInv, ChainInv, ChainsRestorable, OwnershipInv, TypeOK, DistinctSeconds
<1> QED
  BY <1>1, OwnershipHolds, SerialHolds, PTL

(* Between operations that do not overlap, of creations in different         *)
(* seconds, the rows are the listed records and those the last start could   *)
(* not read, so a restart that reads them all changes nothing else, but for  *)
(* the rows a failed statement left.                                         *)
THEOREM BackupRestartChangesNothing ==
    Spec /\ []DistinctSeconds /\ []OneAtATime => []RestartChangesNothing
<1>1. SerialInv => RestartChangesNothing
  <2> SUFFICES ASSUME SerialInv, \A c \in Callers : At(c, "idle"), NEW n \in Ids \ dirty
               PROVE  AtRest(n)
    BY DEF RestartChangesNothing, AtRest
  <2> QED
    BY DEF SerialInv, RowsInv, WorksOn, At
<1> QED
  BY <1>1, SerialHolds, PTL

(* A claim of a retention run that no other operation overlaps spares the    *)
(* newest KeepLast records and leaves a newer completed backup.              *)
LEMMA PruneSparesNewest ==
    ASSUME OwnershipInv, SerialInv, [Next]_vars,
           NEW n \in backups, NEW c \in Callers,
           At(c, "prune"), op'[c].pc = "destroy", n \notin backups'
    PROVE  /\ Cardinality({k \in backups : k > n}) >= op[c].policy.last
           /\ \E k \in backups' : k > n /\ obj[k].status = "completed"
<1>1. PICK m \in op[c].todo \cap Ids : Claim(c, m)
  <2>1. (\A i, j \in DbOutcomes : ~Crash(i, j)) /\ ~UNCHANGED vars
    BY DEF Crash, Idle, vars, memVars
  <2>1a. backups' # backups
    OBVIOUS
  <2>1b. ASSUME NEW d \in Callers, CallerStep(d) PROVE PruneClaim(d) \/ backups \subseteq backups'
    BY <2>1b DEF CallerStep, TakeSnapshot, SnapshotFails, ChooseBase, OpenStream, SendStream,
       StreamFails, CleanSnapshot, AddBackup, PersistBackup, Retain, PruneSkip, PruneDone,
       DestroySnapshot, RemoveFile, PutBack, DeleteBackupRecord, MarkVerified, memVars
  <2>1c. ASSUME NEW d \in Callers, NEW k, VerifyBackup(d, k) \/ Rollback(d, k) \/ Receive(d, k)
         PROVE  backups' = backups
    BY <2>1c DEF VerifyBackup, Rollback, Receive, memVars
  <2>1d. ASSUME NEW d \in Callers, NEW type, BeginCreate(d, type) PROVE backups' = backups
    BY <2>1d DEF BeginCreate
  <2>2. PICK d \in Callers : PruneClaim(d) \/ \E k \in backups : DeleteBackup(d, k)
    BY <2>1, <2>1a, <2>1b, <2>1c, <2>1d DEF Next
  <2>3. ASSUME NEW k \in Ids, Claim(d, k) PROVE d = c
    BY <2>3, ClaimDoes DEF OthersStay, At
  <2>4. CASE PruneClaim(d)
    BY <2>3, <2>4, PruneClaimDoes
  <2>5. CASE \E k \in backups : DeleteBackup(d, k)
    BY <2>3, <2>5 DEF DeleteBackup, At, OwnershipInv, TypeOK
  <2> QED
    BY <2>2, <2>4, <2>5
<1>2. n = m /\ n \in op[c].todo /\ n \in Ids /\ backups' = backups \ {n}
  BY <1>1, ClaimDoes
<1>3. /\ clock \in backups /\ obj[clock].status = "completed" /\ op[c].policy # NoPolicy
      /\ clock \notin op[c].todo
      /\ Cardinality({k \in backups \ op[c].todo : k > n}) >= op[c].policy.last
  BY <1>2 DEF SerialInv, RetentionInv, RetentionFits, Pruning
<1>4. op[c].policy.last \in Nat
  BY <1>3, PoliciesAreRetention DEF OwnershipInv, TypeOK, Operations
<1>5. /\ {k \in backups \ op[c].todo : k > n} \subseteq {k \in backups : k > n}
      /\ {k \in backups : k > n} \subseteq Ids
  BY DEF OwnershipInv, TypeOK
<1>6. Cardinality({k \in backups : k > n}) >= op[c].policy.last
  BY <1>3, <1>4, <1>5, CountMono
<1>7. clock > n /\ clock \in backups'
  <2>1. n <= clock /\ clock \in Ids
    BY <1>3 DEF OwnershipInv, TypeOK, RecordsFit
  <2> QED
    BY <1>2, <1>3, <2>1 DEF Ids
<1> QED
  BY <1>3, <1>6, <1>7

(* applyRetention never removes the last good backup nor one of the newest   *)
(* KeepLast, while operations do not overlap and creations fall into         *)
(* different seconds.                                                        *)
THEOREM BackupRetentionSparesNewest ==
    Spec /\ []DistinctSeconds /\ []OneAtATime => RetentionSparesNewest
<1>1. OwnershipInv /\ SerialInv /\ [Next]_vars
        => [\A n \in backups, c \in Callers :
              (At(c, "prune") /\ op'[c].pc = "destroy" /\ n \notin backups')
                => /\ Cardinality({k \in backups : k > n}) >= op[c].policy.last
                   /\ \E k \in backups' : k > n /\ obj[k].status = "completed"]_vars
  BY PruneSparesNewest
<1> QED
  BY <1>1, OwnershipHolds, SerialHolds, PTL DEF Spec, RetentionSparesNewest

=============================================================================
