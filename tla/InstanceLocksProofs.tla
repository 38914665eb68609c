------------------------- MODULE InstanceLocksProofs -------------------------
(***************************************************************************)
(* Proofs about InstanceLocks for any set of names and any finite set of   *)
(* callers.                                                                *)
(***************************************************************************)
EXTENDS InstanceLocks, FiniteSetTheorems, TLAPS

-----------------------------------------------------------------------------
(* The users of a name form a finite set. *)
LEMMA UsersFinite ==
    ASSUME NEW n
    PROVE  IsFiniteSet(Users(n)) /\ Cardinality(Users(n)) \in Nat
<1>1. IsFiniteSet({"holds", "wants"})
  <2>1. {"holds", "wants"} = {"holds"} \cup {"wants"}
    OBVIOUS
  <2>2. IsFiniteSet({"holds"})
    BY FS_Singleton
  <2>3. IsFiniteSet({"holds"} \cup {"wants"})
    BY <2>2, FS_AddElement
  <2> QED
    BY <2>1, <2>3
<1>2. IsFiniteSet(Callers \X {"holds", "wants"})
  BY <1>1, CallersFinite, FS_Product
<1>3. Users(n) \in SUBSET (Callers \X {"holds", "wants"})
  BY DEF Users
<1> QED
  BY <1>2, <1>3, FS_Subset, FS_CardinalityType

(* The initial state satisfies the invariant. *)
LEMMA InitLockInv == Init => LockInv
<1> SUFFICES ASSUME Init PROVE LockInv
  OBVIOUS
<1> USE DEF Init
<1>1. TypeOK
  BY DEF TypeOK, PCs
<1>2. CallsMatchPC
  BY NamesAreNumbers DEF CallsMatchPC
<1>3. PointersAreCurrent
  BY NamesAreNumbers DEF PointersAreCurrent, Wants, Holds
<1>4. TokenMeansHeld
  BY DEF TokenMeansHeld
<1>5. MutualExclusion
  BY DEF MutualExclusion, Holds
<1>6. RefsCountUsers
  BY NamesAreNumbers DEF RefsCountUsers, Users, Holds, Wants
<1> QED
  BY <1>1, <1>2, <1>3, <1>4, <1>5, <1>6 DEF LockInv

(* Every step keeps the types. *)
LEMMA TypeStep == TypeOK /\ CallsMatchPC /\ PointersAreCurrent /\ RefsCountUsers /\ [Next]_vars => TypeOK'
<1> SUFFICES ASSUME TypeOK, CallsMatchPC, PointersAreCurrent, RefsCountUsers, [Next]_vars
             PROVE  TypeOK'
  OBVIOUS
<1> USE DEF TypeOK, PCs
<1>0. CASE UNCHANGED vars
  BY <1>0 DEF vars
<1>1. ASSUME NEW p \in Callers, NEW S \in SUBSET Names, NEW over \in BOOLEAN, Begin(p, S, over)
      PROVE  TypeOK'
  BY <1>1 DEF Begin
<1>2. ASSUME NEW p \in Callers, ContextEnds(p) PROVE TypeOK'
  BY <1>2 DEF ContextEnds
<1>3. ASSUME NEW p \in Callers, Send(p) PROVE TypeOK'
  <2>1. at[p] \in Names /\ entry[p] \in Entries
    BY <1>3 DEF Send, CallsMatchPC, PointersAreCurrent, Wants
  <2>2. ch' \in [Entries -> 0..1]
    BY <1>3, <2>1 DEF Send
  <2>3. held' \in [Callers -> [Names -> Entries \cup {NoEntry}]]
    <3>1. [held[p] EXCEPT ![at[p]] = entry[p]] \in [Names -> Entries \cup {NoEntry}]
      BY <2>1
    <3> QED
      BY <1>3, <3>1 DEF Send
  <2>4. ctx' \in [Callers -> SUBSET Names] /\ todo' \in [Callers -> SUBSET Names]
    BY <1>3, <2>1 DEF Send
  <2> QED
    BY <1>3, <2>2, <2>3, <2>4 DEF Send
<1>4. ASSUME NEW p \in Callers, NEW n \in Names, CallLockedMethod(p, n) PROVE TypeOK'
  BY <1>4 DEF CallLockedMethod
<1>5. ASSUME NEW p \in Callers, NEW n \in Names, AlreadyHeld(p, n) PROVE TypeOK'
  BY <1>5 DEF AlreadyHeld
<1>6. ASSUME NEW p \in Callers, NEW n \in Names, Join(p, n) PROVE TypeOK'
  BY <1>6 DEF Join
<1>7. ASSUME NEW p \in Callers, NEW n \in Names, Receive(p, n) PROVE TypeOK'
  <2>1. [held[p] EXCEPT ![n] = NoEntry] \in [Names -> Entries \cup {NoEntry}]
    OBVIOUS
  <2>2. held' \in [Callers -> [Names -> Entries \cup {NoEntry}]]
    BY <1>7, <2>1 DEF Receive
  <2>3. held[p][n] \in Entries
    BY <1>7 DEF Receive, HeldNames, Holds
  <2> QED
    BY <1>7, <2>2, <2>3 DEF Receive
<1>8. ASSUME NEW p \in Callers, NEW n \in Names, NEW e \in Entries, Create(p, n, e)
      PROVE  TypeOK'
  BY <1>8 DEF Create
<1>9. ASSUME NEW p \in Callers, CheckContext(p) PROVE TypeOK'
  BY <1>9 DEF CheckContext
<1>10. ASSUME NEW p \in Callers, GiveUp(p) PROVE TypeOK'
  BY <1>10 DEF GiveUp
<1>11. ASSUME NEW p \in Callers, EnterBody(p) PROVE TypeOK'
  BY <1>11 DEF EnterBody
<1>12. ASSUME NEW p \in Callers, LeaveBody(p) PROVE TypeOK'
  BY <1>12 DEF LeaveBody
<1>13. ASSUME NEW p \in Callers, Drop(p) PROVE TypeOK'
  <2>1. at[p] \in Names /\ entry[p] = locks[at[p]] /\ entry[p] \in Entries
    BY <1>13 DEF Drop, CallsMatchPC, PointersAreCurrent, Wants
  <2>2. <<p, "wants">> \in Users(at[p])
    BY DEF Users, Wants
  <2>3. refs[entry[p]] = Cardinality(Users(at[p])) /\ Users(at[p]) # {}
    BY <2>1, <2>2, NoEntryFresh DEF RefsCountUsers
  <2>4. refs[entry[p]] # 0
    BY <2>3, UsersFinite, FS_EmptySet
  <2>5. refs[entry[p]] - 1 \in Nat
    BY <2>1, <2>4
  <2> QED
    BY <1>13, <2>1, <2>5 DEF Drop
<1>14. ASSUME NEW p \in Callers, Return(p) PROVE TypeOK'
  BY <1>14 DEF Return
<1> QED
  BY <1>0, <1>1, <1>2, <1>3, <1>4, <1>5, <1>6, <1>7, <1>8, <1>9, <1>10, <1>11,
     <1>12, <1>13, <1>14 DEF Next, Step

(* A step that touches neither the map nor the entries nor a pointer to    *)
(* them, and that leaves no call half-way, preserves the invariant.        *)
LEMMA LockInvFrame ==
    ASSUME LockInv, TypeOK', CallsMatchPC',
           UNCHANGED <<locks, refs, ch, at, entry, held>>
    PROVE  LockInv'
<1>1. \A n : Users(n)' = Users(n)
  BY DEF Users, Holds, Wants
<1>2. PointersAreCurrent' /\ TokenMeansHeld' /\ MutualExclusion'
  BY DEF LockInv, PointersAreCurrent, TokenMeansHeld, MutualExclusion, Holds, Wants
<1>3. RefsCountUsers'
  BY <1>1 DEF LockInv, RefsCountUsers
<1> QED
  BY <1>2, <1>3 DEF LockInv

(* Steps outside the lock's own critical sections. *)
LEMMA LockInvQuiet ==
    ASSUME LockInv, TypeOK', NEW p \in Callers,
           \/ \E S \in SUBSET Names, over \in BOOLEAN : Begin(p, S, over)
           \/ ContextEnds(p)
           \/ \E n \in Names : CallLockedMethod(p, n) \/ AlreadyHeld(p, n)
           \/ CheckContext(p) \/ GiveUp(p) \/ EnterBody(p) \/ LeaveBody(p) \/ Return(p)
    PROVE  LockInv'
<1>1. UNCHANGED <<locks, refs, ch, at, entry, held>>
  BY DEF Begin, ContextEnds, CallLockedMethod, AlreadyHeld, CheckContext, GiveUp,
         EnterBody, LeaveBody, Return
<1>2. CallsMatchPC'
  BY <1>1 DEF LockInv, TypeOK, CallsMatchPC, Begin, ContextEnds, CallLockedMethod,
              AlreadyHeld, CheckContext, GiveUp, EnterBody, LeaveBody, Return
<1> QED
  BY <1>1, <1>2, LockInvFrame

(* Acquire finds an entry: one user more for that name. *)
LEMMA LockInvJoin ==
    ASSUME LockInv, TypeOK', NEW p \in Callers, NEW n \in Names, Join(p, n)
    PROVE  LockInv'
<1> USE DEF LockInv
<1>0. /\ at[p] = NoName /\ n # NoName /\ locks[n] \in Entries
      /\ at' = [at EXCEPT ![p] = n] /\ locks' = locks /\ held' = held /\ ch' = ch
      /\ entry' = [entry EXCEPT ![p] = locks[n]]
  BY NamesAreNumbers DEF Join, CallsMatchPC, TypeOK
<1>1. CallsMatchPC'
  BY <1>0, NamesAreNumbers DEF Join, CallsMatchPC, TypeOK
<1>2. PointersAreCurrent'
  BY <1>0 DEF PointersAreCurrent, Wants, Holds, TypeOK, Join
<1>3. TokenMeansHeld' /\ MutualExclusion'
  BY <1>0 DEF TokenMeansHeld, MutualExclusion, Holds
<1>4. RefsCountUsers'
  <2>1. Users(n)' = Users(n) \cup {<<p, "wants">>} /\ <<p, "wants">> \notin Users(n)
    BY <1>0 DEF Users, Holds, Wants, TypeOK
  <2>2. \A m \in Names \ {n} : Users(m)' = Users(m)
    BY <1>0, NamesAreNumbers DEF Users, Holds, Wants, TypeOK
  <2>3. Cardinality(Users(n)') = Cardinality(Users(n)) + 1 /\ Users(n)' # {}
    BY <2>1, UsersFinite, FS_AddElement
  <2>4. \A m \in Names \ {n} : locks[m] # NoEntry => refs'[locks[m]] = refs[locks[m]]
    BY <1>0 DEF Join, PointersAreCurrent, TypeOK
  <2>5. refs'[locks[n]] = refs[locks[n]] + 1
    BY <1>0 DEF Join, TypeOK
  <2>6. ASSUME NEW m \in Names
        PROVE  /\ locks'[m] = NoEntry <=> Users(m)' = {}
               /\ locks'[m] # NoEntry => refs'[locks'[m]] = Cardinality(Users(m)')
    <3>1. CASE m = n
      BY <1>0, <2>3, <2>5, <3>1 DEF RefsCountUsers, Join
    <3>2. CASE m # n
      BY <1>0, <2>2, <2>4, <3>2 DEF RefsCountUsers
    <3> QED
      BY <3>1, <3>2
  <2> QED
    BY <2>6 DEF RefsCountUsers
<1> QED
  BY <1>1, <1>2, <1>3, <1>4

(* Acquire makes the entry: the caller is the name's only user. *)
LEMMA LockInvCreate ==
    ASSUME LockInv, TypeOK', NEW p \in Callers, NEW n \in Names, NEW e \in Entries,
           Create(p, n, e)
    PROVE  LockInv'
<1> USE DEF LockInv
<1>0. /\ at[p] = NoName /\ n # NoName /\ locks[n] = NoEntry /\ e # NoEntry
      /\ at' = [at EXCEPT ![p] = n] /\ locks' = [locks EXCEPT ![n] = e] /\ held' = held
      /\ entry' = [entry EXCEPT ![p] = e] /\ ch' = [ch EXCEPT ![e] = 0]
      /\ refs' = [refs EXCEPT ![e] = 1]
  BY NamesAreNumbers, NoEntryFresh DEF Create, CallsMatchPC, TypeOK
<1>u. Users(n) = {} /\ \A m \in Names : locks[m] # e
  BY <1>0 DEF RefsCountUsers, Create, Unreferenced
<1>f. \A q \in Callers : ~Holds(q, n) /\ ~Wants(q, n)
  <2>1. \A q \in Callers : Holds(q, n) => <<q, "holds">> \in Users(n)
    BY DEF Users
  <2>2. \A q \in Callers : Wants(q, n) => <<q, "wants">> \in Users(n)
    BY DEF Users
  <2> QED
    BY <1>u, <2>1, <2>2
<1>1. CallsMatchPC'
  BY <1>0, NamesAreNumbers DEF Create, CallsMatchPC, TypeOK
<1>2. PointersAreCurrent'
  BY <1>0, <1>u, <1>f DEF PointersAreCurrent, Wants, Holds, TypeOK
<1>3. TokenMeansHeld'
  BY <1>0, <1>u, <1>f DEF TokenMeansHeld, Holds, TypeOK
<1>4. MutualExclusion'
  BY <1>0 DEF MutualExclusion, Holds
<1>5. RefsCountUsers'
  <2>1. Users(n)' = {<<p, "wants">>}
    BY <1>0, <1>f DEF Users, Holds, Wants, TypeOK
  <2>2. \A m \in Names \ {n} : Users(m)' = Users(m)
    BY <1>0, NamesAreNumbers DEF Users, Holds, Wants, TypeOK
  <2>3. Cardinality(Users(n)') = 1 /\ Users(n)' # {}
    BY <2>1, FS_Singleton
  <2>4. \A m \in Names \ {n} :
           locks'[m] = locks[m] /\ (locks[m] # NoEntry => refs'[locks[m]] = refs[locks[m]])
    BY <1>0, <1>u DEF TypeOK
  <2>5. locks'[n] = e /\ refs'[e] = 1
    BY <1>0 DEF TypeOK
  <2> QED
    BY <1>0, <2>2, <2>3, <2>4, <2>5 DEF RefsCountUsers
<1> QED
  BY <1>1, <1>2, <1>3, <1>4, <1>5

(* A waiting caller takes the token: it stays a user of the name. *)
LEMMA LockInvSend ==
    ASSUME LockInv, TypeOK', NEW p \in Callers, Send(p)
    PROVE  LockInv'
<1>n. PICK n \in Names : n = at[p]
  BY DEF LockInv, CallsMatchPC, Send
<1> USE DEF LockInv
<1>0. /\ n # NoName /\ entry[p] = locks[n] /\ locks[n] \in Entries
      /\ locks[n] # NoEntry /\ ch[locks[n]] = 0
      /\ at' = [at EXCEPT ![p] = NoName] /\ locks' = locks /\ refs' = refs
      /\ entry' = [entry EXCEPT ![p] = NoEntry] /\ ch' = [ch EXCEPT ![locks[n]] = 1]
  <2>1. n # NoName
    BY NamesAreNumbers
  <2>2. entry[p] = locks[n] /\ locks[n] # NoEntry /\ locks[n] \in Entries
    BY <1>n DEF PointersAreCurrent, Wants, TypeOK
  <2> QED
    BY <2>1, <2>2 DEF Send
<1>h. \A q \in Callers, m \in Names :
         held'[q][m] = IF q = p /\ m = n THEN locks[n] ELSE held[q][m]
  BY <1>0, <1>n DEF Send, TypeOK
<1>f. \A q \in Callers : ~Holds(q, n)
  BY <1>0 DEF TokenMeansHeld

<1>1. CallsMatchPC'
  BY <1>0, NamesAreNumbers DEF Send, CallsMatchPC, TypeOK
<1>2. PointersAreCurrent'
  BY <1>0, <1>h, NamesAreNumbers DEF PointersAreCurrent, Wants, Holds, TypeOK
<1>3. TokenMeansHeld'
  <2> SUFFICES ASSUME NEW m \in Names, locks[m] # NoEntry
               PROVE  ch'[locks[m]] = 1 <=> \E q \in Callers : held'[q][m] # NoEntry
    BY <1>0 DEF TokenMeansHeld, Holds
  <2>1. CASE m = n
    BY <1>0, <1>h, <2>1 DEF TypeOK
  <2>2. CASE m # n
    <3>1. ch'[locks[m]] = ch[locks[m]]
      BY <1>0, <2>2 DEF PointersAreCurrent, TypeOK
    <3> QED
      BY <1>h, <2>2, <3>1 DEF TokenMeansHeld, Holds
  <2> QED
    BY <2>1, <2>2
<1>4. MutualExclusion'
  BY <1>h, <1>f DEF MutualExclusion, Holds
<1>5. RefsCountUsers'
  <2>1. /\ Users(n)' = (Users(n) \ {<<p, "wants">>}) \cup {<<p, "holds">>}
        /\ <<p, "wants">> \in Users(n) /\ <<p, "holds">> \notin Users(n)
    <3>1. <<p, "wants">> \in Users(n) /\ <<p, "holds">> \notin Users(n)
      BY <1>f, <1>n DEF Users, Wants
    <3>2. ~Wants(p, n)' /\ Holds(p, n)'
      BY <1>0, <1>h DEF Wants, Holds, TypeOK
    <3>3. \A q \in Callers \ {p} : (Wants(q, n)' <=> Wants(q, n)) /\ (Holds(q, n)' <=> Holds(q, n))
      BY <1>0, <1>h DEF Wants, Holds, TypeOK
    <3>4. ASSUME NEW u \in Callers \X {"holds", "wants"}
          PROVE  u \in Users(n)' <=> u \in (Users(n) \ {<<p, "wants">>}) \cup {<<p, "holds">>}
      BY <3>1, <3>2, <3>3, <1>f DEF Users, Holds, Wants
    <3> QED
      BY <3>1, <3>4 DEF Users
  <2>2. \A m \in Names \ {n} : Users(m)' = Users(m)
    BY <1>0, <1>h, <1>n, NamesAreNumbers DEF Users, Holds, Wants, TypeOK
  <2>3. Cardinality(Users(n)') = Cardinality(Users(n)) /\ Users(n)' # {}
    <3>1. /\ IsFiniteSet(Users(n) \ {<<p, "wants">>})
          /\ Cardinality(Users(n) \ {<<p, "wants">>}) = Cardinality(Users(n)) - 1
      BY <2>1, UsersFinite, FS_RemoveElement
    <3>2. Cardinality(Users(n)') = Cardinality(Users(n) \ {<<p, "wants">>}) + 1
      BY <2>1, <3>1, FS_AddElement
    <3> QED
      BY <2>1, <3>1, <3>2, UsersFinite
  <2>4. ASSUME NEW m \in Names
        PROVE  /\ locks'[m] = NoEntry <=> Users(m)' = {}
               /\ locks'[m] # NoEntry => refs'[locks'[m]] = Cardinality(Users(m)')
    <3>1. CASE m = n
      BY <1>0, <2>3, <3>1 DEF RefsCountUsers
    <3>2. CASE m # n
      BY <1>0, <2>2, <3>2 DEF RefsCountUsers
    <3> QED
      BY <3>1, <3>2
  <2> QED
    BY <2>4 DEF RefsCountUsers
<1> QED
  BY <1>1, <1>2, <1>3, <1>4, <1>5

(* release takes the token back: the caller stays a user until it drops. *)
LEMMA LockInvReceive ==
    ASSUME LockInv, TypeOK', NEW p \in Callers, NEW n \in Names, Receive(p, n)
    PROVE  LockInv'
<1> USE DEF LockInv
<1>0. /\ at[p] = NoName /\ n # NoName /\ held[p][n] = locks[n] /\ locks[n] \in Entries
      /\ locks[n] # NoEntry
      /\ at' = [at EXCEPT ![p] = n] /\ locks' = locks /\ refs' = refs
      /\ entry' = [entry EXCEPT ![p] = locks[n]] /\ ch' = [ch EXCEPT ![locks[n]] = 0]
  <2>1. n # NoName /\ at[p] = NoName
    BY NamesAreNumbers DEF Receive, CallsMatchPC, TypeOK
  <2>2. held[p][n] = locks[n] /\ locks[n] # NoEntry /\ locks[n] \in Entries
    BY DEF Receive, HeldNames, Holds, PointersAreCurrent, TypeOK
  <2> QED
    BY <2>1, <2>2 DEF Receive
<1>h. \A q \in Callers, m \in Names :
         held'[q][m] = IF q = p /\ m = n THEN NoEntry ELSE held[q][m]
  BY <1>0 DEF Receive, TypeOK
<1>f. \A q \in Callers \ {p} : ~Holds(q, n)
  BY <1>0 DEF MutualExclusion, Holds
<1>1. CallsMatchPC'
  BY <1>0, NamesAreNumbers DEF Receive, CallsMatchPC, TypeOK
<1>2. PointersAreCurrent'
  BY <1>0, <1>h, NamesAreNumbers DEF PointersAreCurrent, Wants, Holds, TypeOK
<1>3. TokenMeansHeld'
  <2> SUFFICES ASSUME NEW m \in Names, locks[m] # NoEntry
               PROVE  ch'[locks[m]] = 1 <=> \E q \in Callers : held'[q][m] # NoEntry
    BY <1>0 DEF TokenMeansHeld, Holds
  <2>1. CASE m = n
    <3>1. ch'[locks[m]] = 0
      BY <1>0, <2>1 DEF TypeOK
    <3> QED
      BY <3>1, <1>h, <1>f, <2>1 DEF Holds
  <2>2. CASE m # n
    <3>1. ch'[locks[m]] = ch[locks[m]]
      BY <1>0, <2>2 DEF PointersAreCurrent, TypeOK
    <3> QED
      BY <1>h, <2>2, <3>1 DEF TokenMeansHeld, Holds
  <2> QED
    BY <2>1, <2>2
<1>4. MutualExclusion'
  BY <1>h, <1>f DEF MutualExclusion, Holds
<1>5. RefsCountUsers'
  <2>1. /\ Users(n)' = (Users(n) \ {<<p, "holds">>}) \cup {<<p, "wants">>}
        /\ <<p, "holds">> \in Users(n) /\ <<p, "wants">> \notin Users(n)
    <3>1. <<p, "holds">> \in Users(n) /\ <<p, "wants">> \notin Users(n)
      BY <1>0 DEF Users, Wants, Holds
    <3>2. Wants(p, n)' /\ ~Holds(p, n)'
      BY <1>0, <1>h DEF Wants, Holds, TypeOK
    <3>3. \A q \in Callers \ {p} : (Wants(q, n)' <=> Wants(q, n)) /\ (Holds(q, n)' <=> Holds(q, n))
      BY <1>0, <1>h DEF Wants, Holds, TypeOK
    <3>4. ASSUME NEW u \in Callers \X {"holds", "wants"}
          PROVE  u \in Users(n)' <=> u \in (Users(n) \ {<<p, "holds">>}) \cup {<<p, "wants">>}
      BY <3>1, <3>2, <3>3 DEF Users, Holds, Wants
    <3> QED
      BY <3>1, <3>4 DEF Users
  <2>2. \A m \in Names \ {n} : Users(m)' = Users(m)
    BY <1>0, <1>h, NamesAreNumbers DEF Users, Holds, Wants, TypeOK
  <2>3. Cardinality(Users(n)') = Cardinality(Users(n)) /\ Users(n)' # {}
    <3>1. /\ IsFiniteSet(Users(n) \ {<<p, "holds">>})
          /\ Cardinality(Users(n) \ {<<p, "holds">>}) = Cardinality(Users(n)) - 1
      BY <2>1, UsersFinite, FS_RemoveElement
    <3>2. Cardinality(Users(n)') = Cardinality(Users(n) \ {<<p, "holds">>}) + 1
      BY <2>1, <3>1, FS_AddElement
    <3> QED
      BY <2>1, <3>1, <3>2, UsersFinite
  <2>4. ASSUME NEW m \in Names
        PROVE  /\ locks'[m] = NoEntry <=> Users(m)' = {}
               /\ locks'[m] # NoEntry => refs'[locks'[m]] = Cardinality(Users(m)')
    <3>1. CASE m = n
      BY <1>0, <2>3, <3>1 DEF RefsCountUsers
    <3>2. CASE m # n
      BY <1>0, <2>2, <3>2 DEF RefsCountUsers
    <3> QED
      BY <3>1, <3>2
  <2> QED
    BY <2>4 DEF RefsCountUsers
<1> QED
  BY <1>1, <1>2, <1>3, <1>4, <1>5

(* drop: one user less.  With refs = 1 the caller is the last user, so the *)
(* entry it deletes from the map is one nobody else refers to.             *)
LEMMA LockInvDrop ==
    ASSUME LockInv, TypeOK', NEW p \in Callers, Drop(p)
    PROVE  LockInv'
<1> USE DEF LockInv
<1>n. PICK n \in Names : n = at[p]
  BY DEF CallsMatchPC, Drop
<1>0. /\ n # NoName /\ entry[p] = locks[n] /\ locks[n] \in Entries /\ locks[n] # NoEntry
      /\ at' = [at EXCEPT ![p] = NoName] /\ entry' = [entry EXCEPT ![p] = NoEntry]
      /\ refs' = [refs EXCEPT ![locks[n]] = @ - 1] /\ ch' = ch /\ held' = held
      /\ locks' = IF refs[locks[n]] = 1 THEN [locks EXCEPT ![n] = NoEntry] ELSE locks
  <2>1. n # NoName
    BY NamesAreNumbers
  <2>2. entry[p] = locks[n] /\ locks[n] # NoEntry /\ locks[n] \in Entries
    BY <1>n DEF PointersAreCurrent, Wants, TypeOK
  <2> QED
    BY <2>1, <2>2, <1>n DEF Drop
<1>u. /\ Users(n)' = Users(n) \ {<<p, "wants">>} /\ <<p, "wants">> \in Users(n)
      /\ \A m \in Names \ {n} : Users(m)' = Users(m)
  <2>1. <<p, "wants">> \in Users(n)
    BY <1>n DEF Users, Wants
  <2>2. ASSUME NEW u \in Callers \X {"holds", "wants"}
        PROVE  u \in Users(n)' <=> u \in Users(n) \ {<<p, "wants">>}
    BY <1>0, <1>n DEF Users, Holds, Wants, TypeOK
  <2>3. Users(n)' = Users(n) \ {<<p, "wants">>}
    BY <2>2 DEF Users
  <2>4. \A m \in Names \ {n} : Users(m)' = Users(m)
    BY <1>0, <1>n, NamesAreNumbers DEF Users, Holds, Wants, TypeOK
  <2> QED
    BY <2>1, <2>3, <2>4
<1>c. Cardinality(Users(n)') = refs[locks[n]] - 1 /\ IsFiniteSet(Users(n)')
  <2>1. /\ Cardinality(Users(n) \ {<<p, "wants">>}) = Cardinality(Users(n)) - 1
        /\ IsFiniteSet(Users(n) \ {<<p, "wants">>})
    BY <1>u, UsersFinite, FS_RemoveElement
  <2>2. refs[locks[n]] = Cardinality(Users(n))
    BY <1>0 DEF RefsCountUsers
  <2> QED
    BY <1>u, <2>1, <2>2
<1>e. refs[locks[n]] = 1 <=> Users(n)' = {}
  <2>1. Cardinality(Users(n)') = 0 <=> Users(n)' = {}
    BY <1>c, FS_EmptySet
  <2>2. refs[locks[n]] \in Nat
    BY <1>0 DEF TypeOK
  <2> QED
    BY <1>c, <2>1, <2>2
<1>l. /\ locks'[n] = NoEntry <=> Users(n)' = {}
      /\ locks'[n] # NoEntry => locks'[n] = locks[n]
      /\ \A m \in Names \ {n} : locks'[m] = locks[m]
  BY <1>0, <1>e DEF TypeOK
<1>g. \A q \in Callers : Users(n)' = {} => ~Holds(q, n)' /\ ~Wants(q, n)'
  <2>1. \A q \in Callers : Holds(q, n)' => <<q, "holds">> \in Users(n)'
    BY DEF Users
  <2>2. \A q \in Callers : Wants(q, n)' => <<q, "wants">> \in Users(n)'
    BY DEF Users
  <2> QED
    BY <2>1, <2>2
<1>1. CallsMatchPC'
  BY <1>0, NamesAreNumbers DEF Drop, CallsMatchPC, TypeOK
<1>2. PointersAreCurrent'
  <2>1. ASSUME NEW q \in Callers, NEW m \in Names
        PROVE  /\ Wants(q, m)' => entry'[q] = locks'[m] /\ locks'[m] # NoEntry
               /\ Holds(q, m)' => held'[q][m] = locks'[m]
    <3>1. CASE m = n
      <4>1. CASE locks'[n] = NoEntry
        BY <1>g, <1>l, <3>1, <4>1
      <4>2. CASE locks'[n] # NoEntry
        BY <1>0, <1>l, <3>1, <4>2 DEF PointersAreCurrent, Wants, Holds, TypeOK
      <4> QED
        BY <4>1, <4>2
    <3>2. CASE m # n
      BY <1>0, <1>l, <3>2, NamesAreNumbers DEF PointersAreCurrent, Wants, Holds, TypeOK
    <3> QED
      BY <3>1, <3>2
  <2>2. \A m, k \in Names : locks'[m] = locks'[k] /\ locks'[k] # NoEntry => m = k
    BY <1>l DEF PointersAreCurrent
  <2> QED
    BY <2>1, <2>2 DEF PointersAreCurrent
<1>3. TokenMeansHeld'
  BY <1>0, <1>l DEF TokenMeansHeld, Holds
<1>4. MutualExclusion'
  BY <1>0 DEF MutualExclusion, Holds
<1>5. RefsCountUsers'
  <2>1. ASSUME NEW m \in Names
        PROVE  /\ locks'[m] = NoEntry <=> Users(m)' = {}
               /\ locks'[m] # NoEntry => refs'[locks'[m]] = Cardinality(Users(m)')
    <3>1. CASE m = n
      <4>1. refs'[locks[n]] = refs[locks[n]] - 1
        BY <1>0 DEF TypeOK
      <4> QED
        BY <1>l, <1>c, <3>1, <4>1
    <3>2. CASE m # n
      <4>1. locks[m] # NoEntry => refs'[locks[m]] = refs[locks[m]]
        BY <1>0, <3>2 DEF PointersAreCurrent, TypeOK
      <4> QED
        BY <1>l, <1>u, <3>2, <4>1 DEF RefsCountUsers
    <3> QED
      BY <3>1, <3>2
  <2> QED
    BY <2>1 DEF RefsCountUsers
<1> QED
  BY <1>1, <1>2, <1>3, <1>4, <1>5

(* Every step preserves the invariant. *)
LEMMA LockInvStep == LockInv /\ [Next]_vars => LockInv'
<1> SUFFICES ASSUME LockInv, [Next]_vars PROVE LockInv'
  OBVIOUS
<1>t. TypeOK'
  BY TypeStep DEF LockInv
<1>0. CASE UNCHANGED vars
  <2>1. UNCHANGED <<locks, refs, ch, at, entry, held>> /\ pc' = pc
    BY <1>0 DEF vars
  <2>2. CallsMatchPC'
    BY <2>1 DEF LockInv, CallsMatchPC
  <2> QED
    BY <1>t, <2>1, <2>2, LockInvFrame
<1>1. ASSUME NEW p \in Callers, NEW S \in SUBSET Names, NEW over \in BOOLEAN, Begin(p, S, over)
      PROVE  LockInv'
  BY <1>1, <1>t, LockInvQuiet
<1>2. ASSUME NEW p \in Callers, ContextEnds(p) PROVE LockInv'
  BY <1>2, <1>t, LockInvQuiet
<1>3. ASSUME NEW p \in Callers, Send(p) PROVE LockInv'
  BY <1>3, <1>t, LockInvSend
<1>4. ASSUME NEW p \in Callers, NEW n \in Names, CallLockedMethod(p, n) \/ AlreadyHeld(p, n)
      PROVE  LockInv'
  BY <1>4, <1>t, LockInvQuiet
<1>5. ASSUME NEW p \in Callers, NEW n \in Names, Join(p, n) PROVE LockInv'
  BY <1>5, <1>t, LockInvJoin
<1>6. ASSUME NEW p \in Callers, NEW n \in Names, Receive(p, n) PROVE LockInv'
  BY <1>6, <1>t, LockInvReceive
<1>7. ASSUME NEW p \in Callers, NEW n \in Names, NEW e \in Entries, Create(p, n, e)
      PROVE  LockInv'
  BY <1>7, <1>t, LockInvCreate
<1>8. ASSUME NEW p \in Callers,
             CheckContext(p) \/ GiveUp(p) \/ EnterBody(p) \/ LeaveBody(p) \/ Return(p)
      PROVE  LockInv'
  BY <1>8, <1>t, LockInvQuiet
<1>9. ASSUME NEW p \in Callers, Drop(p) PROVE LockInv'
  BY <1>9, <1>t, LockInvDrop
<1> QED
  BY <1>0, <1>1, <1>2, <1>3, <1>4, <1>5, <1>6, <1>7, <1>8, <1>9 DEF Next, Step

(* The invariant holds in every reachable state. *)
LEMMA LockInvHolds == Spec => []LockInv
  BY InitLockInv, LockInvStep, PTL DEF Spec

(* Type correctness of InstanceLocks for all constants. *)
THEOREM LocksTypeCorrect == Spec => []TypeOK
<1>1. LockInv => TypeOK
  BY DEF LockInv
<1> QED
  BY LockInvHolds, <1>1, PTL

(* Two callers never hold the same instance, whatever the number of        *)
(* callers and names and however often entries are deleted and made anew.  *)
THEOREM LocksExclude == Spec => []MutualExclusion
<1>1. LockInv => MutualExclusion
  BY DEF LockInv
<1> QED
  BY LockInvHolds, <1>1, PTL

(* An entry's count is the number of its users, and an unused name has no  *)
(* entry: the map does not grow with the instances the daemon has seen.    *)
THEOREM LocksCountUsers == Spec => []RefsCountUsers
<1>1. LockInv => RefsCountUsers
  BY DEF LockInv
<1> QED
  BY LockInvHolds, <1>1, PTL

-----------------------------------------------------------------------------
(* The lock order. *)
LEMMA InitOrderInv == Init => OrderInv
  BY DEF Init, OrderInv, HeldNames, Holds

(* Every step preserves the order invariant: AcquireAll adds the least of  *)
(* the names to come, and a nested call names only what is already held.   *)
LEMMA OrderInvStep == LockInv /\ OrderInv /\ [Next]_vars => OrderInv'
<1> SUFFICES ASSUME LockInv, OrderInv, [Next]_vars,
                    NEW q \in Callers \ Importers
             PROVE  /\ pc'[q] = "idle" => HeldNames(q)' = {}
                    /\ pc'[q] \in {"next", "check", "select", "work"} =>
                          /\ HeldNames(q)' = ctx'[q]
                          /\ names'[q] = ctx'[q] \cup todo'[q]
                          /\ \A m \in ctx'[q], n \in todo'[q] \ ctx'[q] : m < n
                    /\ pc'[q] \in {"check", "select"} => at'[q] \in NextNames(q)' \ ctx'[q]
                    /\ pc'[q] = "work" => todo'[q] = {}
  BY DEF OrderInv
<1> DEFINE Goal == /\ pc'[q] = "idle" => HeldNames(q)' = {}
                   /\ pc'[q] \in {"next", "check", "select", "work"} =>
                         /\ HeldNames(q)' = ctx'[q]
                         /\ names'[q] = ctx'[q] \cup todo'[q]
                         /\ \A m \in ctx'[q], n \in todo'[q] \ ctx'[q] : m < n
                   /\ pc'[q] \in {"check", "select"} => at'[q] \in NextNames(q)' \ ctx'[q]
                   /\ pc'[q] = "work" => todo'[q] = {}
<1>t. TypeOK
  BY DEF LockInv
<1> USE DEF OrderInv, HeldNames, Holds, NextNames, TypeOK
<1>0. ASSUME UNCHANGED vars PROVE Goal
  BY <1>0, <1>t DEF vars
<1>1. ASSUME NEW p \in Callers, NEW S \in SUBSET Names, NEW over \in BOOLEAN, Begin(p, S, over)
      PROVE  Goal
  BY <1>1, <1>t DEF Begin
<1>2. ASSUME NEW p \in Callers, ContextEnds(p) PROVE Goal
  BY <1>2, <1>t DEF ContextEnds
<1>3. ASSUME NEW p \in Callers, Send(p) PROVE Goal
  <2>1. CASE q # p
    BY <1>3, <1>t, <2>1 DEF Send
  <2>2. CASE q = p
    <3>1. PICK n \in Names : n = at[p]
      BY <1>3 DEF LockInv, CallsMatchPC, Send
    <3>2. entry[p] # NoEntry
      BY <3>1 DEF LockInv, PointersAreCurrent, Wants
    <3>3. /\ pc'[q] = "next" /\ ctx'[q] = ctx[q] \cup {n} /\ todo'[q] = todo[q] \ {n}
          /\ names'[q] = names[q] /\ \A m \in Names : held'[q][m] = IF m = n THEN entry[p] ELSE held[q][m]
      BY <1>3, <1>t, <2>2, <3>1 DEF Send
    <3>4. /\ HeldNames(q) = ctx[q] /\ names[q] = ctx[q] \cup todo[q]
          /\ n \in NextNames(q) \ ctx[q]
          /\ \A m \in ctx[q], k \in todo[q] \ ctx[q] : m < k
      BY <1>3, <2>2, <3>1 DEF Send
    <3>5. HeldNames(q)' = ctx'[q]
      BY <3>2, <3>3, <3>4
    <3>6. \A m \in ctx'[q], k \in todo'[q] \ ctx'[q] : m < k
      <4> SUFFICES ASSUME NEW m \in ctx[q] \cup {n}, NEW k \in todo[q] \ ctx[q], k # n
                   PROVE  m < k
        BY <3>3
      <4>1. CASE m \in ctx[q]
        BY <3>4, <4>1
      <4>2. CASE m = n
        <5>1. n <= k /\ n \in Nat /\ k \in Nat
          BY <3>4, <1>t, NamesAreNumbers
        <5> QED
          BY <4>2, <5>1
      <4> QED
        BY <4>1, <4>2
    <3> QED
      BY <3>3, <3>4, <3>5, <3>6
  <2> QED
    BY <2>1, <2>2
<1>4. ASSUME NEW p \in Callers, NEW n \in Names, CallLockedMethod(p, n) PROVE Goal
  BY <1>4, <1>t DEF CallLockedMethod
<1>5. ASSUME NEW p \in Callers, NEW n \in Names, AlreadyHeld(p, n) PROVE Goal
  BY <1>5, <1>t DEF AlreadyHeld
<1>6. ASSUME NEW p \in Callers, NEW n \in Names, Join(p, n) PROVE Goal
  BY <1>6, <1>t DEF Join
<1>7. ASSUME NEW p \in Callers, NEW n \in Names, Receive(p, n) PROVE Goal
  BY <1>7, <1>t DEF Receive
<1>8. ASSUME NEW p \in Callers, NEW n \in Names, NEW e \in Entries, Create(p, n, e)
      PROVE  Goal
  BY <1>8, <1>t DEF Create
<1>9. ASSUME NEW p \in Callers, CheckContext(p) PROVE Goal
  BY <1>9, <1>t DEF CheckContext
<1>10. ASSUME NEW p \in Callers, GiveUp(p) PROVE Goal
  BY <1>10, <1>t DEF GiveUp
<1>11. ASSUME NEW p \in Callers, EnterBody(p) PROVE Goal
  BY <1>11, <1>t DEF EnterBody
<1>12. ASSUME NEW p \in Callers, LeaveBody(p) PROVE Goal
  BY <1>12, <1>t DEF LeaveBody
<1>13. ASSUME NEW p \in Callers, Drop(p) PROVE Goal
  BY <1>13, <1>t DEF Drop
<1>14. ASSUME NEW p \in Callers, Return(p) PROVE Goal
  BY <1>14, <1>t DEF Return
<1> HIDE DEF Goal, OrderInv, HeldNames, Holds, NextNames, TypeOK
<1>15. Goal
  BY <1>0, <1>1, <1>2, <1>3, <1>4, <1>5, <1>6, <1>7, <1>8, <1>9, <1>10, <1>11,
     <1>12, <1>13, <1>14 DEF Next, Step
<1> QED
  BY <1>15 DEF Goal

(* Every caller but bhyve's importer holds only names smaller than the one *)
(* it waits for, so no cycle of waiting callers can form.                  *)
THEOREM LocksOrdered == Spec => []LockOrder
<1>1. LockInv /\ OrderInv => LockOrder
  BY DEF LockInv, CallsMatchPC, OrderInv, LockOrder, Waiting, Wants, HeldNames, NextNames, Holds
<1>2. Spec => []OrderInv
  BY InitOrderInv, OrderInvStep, LockInvHolds, PTL DEF Spec
<1> QED
  BY LockInvHolds, <1>1, <1>2, PTL

-----------------------------------------------------------------------------
(* Every step of the lock is a step of the abstract mutex or leaves it     *)
(* alone: the safety part of ImplementsMutex.                              *)
LEMMA MutexStep == LockInv /\ [Next]_vars => [Mutex!Next]_Owner
<1> SUFFICES ASSUME LockInv, [Next]_vars
             PROVE  Mutex!Next \/ Owner' = Owner
  OBVIOUS
<1>t. TypeOK
  BY DEF LockInv
<1>0. ASSUME held' = held PROVE Owner' = Owner
  BY <1>0 DEF Owner, Holds
<1>1. ASSUME NEW p \in Callers, Send(p) PROVE Mutex!Next
  <2>1. PICK n \in Names : n = at[p]
    BY <1>1 DEF LockInv, CallsMatchPC, Send
  <2>2. entry[p] = locks[n] /\ locks[n] # NoEntry /\ ch[locks[n]] = 0
    BY <1>1, <2>1 DEF LockInv, PointersAreCurrent, Wants, Send
  <2>3. \A r \in Callers : ~Holds(r, n)
    BY <2>2 DEF LockInv, TokenMeansHeld
  <2>4. \A r \in Callers, m \in Names :
          held'[r][m] = IF r = p /\ m = n THEN entry[p] ELSE held[r][m]
    BY <1>1, <1>t, <2>1 DEF Send, TypeOK
  <2>5. Owner[n] = {}
    BY <2>3 DEF Owner
  <2>6. Owner' = [Owner EXCEPT ![n] = {p}]
    <3>1. \A m \in Names :
            {r \in Callers : Holds(r, m)'} =
              IF m = n THEN {p} ELSE {r \in Callers : Holds(r, m)}
      BY <2>2, <2>3, <2>4 DEF Holds
    <3> QED
      BY <3>1 DEF Owner
  <2> QED
    BY <2>5, <2>6 DEF Mutex!Next, Mutex!Take
<1>2. ASSUME NEW p \in Callers, NEW n \in Names, Receive(p, n) PROVE Mutex!Next
  <2>1. Holds(p, n) /\ \A r \in Callers : Holds(r, n) => r = p
    BY <1>2 DEF LockInv, MutualExclusion, Receive, HeldNames
  <2>2. \A r \in Callers, m \in Names :
          held'[r][m] = IF r = p /\ m = n THEN NoEntry ELSE held[r][m]
    BY <1>2, <1>t DEF Receive, TypeOK
  <2>3. Owner[n] = {p}
    BY <2>1 DEF Owner
  <2>4. Owner' = [Owner EXCEPT ![n] = {}]
    BY <2>1, <2>2 DEF Owner, Holds
  <2> QED
    BY <2>3, <2>4 DEF Mutex!Next, Mutex!Give
<1>3. CASE held' = held
  BY <1>3, <1>0
<1>4. CASE \E p \in Callers : Send(p) \/ \E n \in Names : Receive(p, n)
  BY <1>4, <1>1, <1>2
<1> QED
  BY <1>3, <1>4 DEF Next, Step, vars, Begin, ContextEnds, CallLockedMethod, AlreadyHeld,
     Join, Create, CheckContext, GiveUp, EnterBody, LeaveBody, Drop, Return

(* locks.go implements one mutex per name: the safety part of the          *)
(* refinement, for all constants.                                          *)
THEOREM LocksImplementMutex == Spec => Mutex!Spec
<1>1. Init => Mutex!Init
  BY DEF Init, Mutex!Init, Owner, Holds
<1> QED
  BY <1>1, MutexStep, LockInvHolds, PTL DEF Spec, Mutex!Spec

=============================================================================
