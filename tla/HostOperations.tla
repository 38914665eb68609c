--------------------------- MODULE HostOperations ---------------------------
(***************************************************************************)
(* Runs the procedures of a system, one operation on an instance at a time,*)
(* while commands fail, cleanup fails, the guest exits by itself, the      *)
(* daemon dies and the host reboots.  The bhyve provider and the lifecycle *)
(* of a jail hold the instance's lock so long; for QEMU, Podman and the    *)
(* other operations of a jail this leaves their overlap out.               *)
(*                                                                         *)
(* Programs gives every system its operations (name -> procedure), and     *)
(* Systems what is expected of them:                                       *)
(*   options   the sets of options an instance may have been created with  *)
(*   starts    the sets of resources it can start from                     *)
(*   guest     what goes away when the guest exits by itself               *)
(*   memory    what the daemon's death loses, volatile what a reboot loses *)
(*   shared    what many instances share and nobody has to remove          *)
(*   record    what makes an instance known                                *)
(*   gives, takes   what an operation that succeeds has made, has removed  *)
(*   additive  the operations that change nothing when they fail           *)
(*   certain   the operations that succeed unless something fails          *)
(*   known     <<operation, resource>>: the exceptions README.md explains  *)
(***************************************************************************)
EXTENDS Procedures

CONSTANTS Systems, Programs, MaxFaults, None

ASSUME FaultsAssumption == MaxFaults \in Nat

VARIABLES sys,      \* the system of this behaviour
          opts,     \* the options of the instance
          has,      \* the resources that exist
          residue,  \* what the last operation failed to remove or to see, and went on
          call,     \* the operation under way: [op, pc, before, due, faults, missing]
          done      \* the outcome of the last one, until something else happens

vars == <<sys, opts, has, residue, call, done>>

S == Systems[sys]
NoCall == [op |-> None, pc |-> 0, before |-> {}, due |-> FALSE, faults |-> 0, missing |-> {}]
Idle == call.pc = 0

TypeOK ==
  /\ sys \in DOMAIN Systems
  /\ opts \in S.options
  /\ residue \subseteq has
  /\ call.pc \in Nat /\ call.faults \in 0..MaxFaults
  /\ done # None => Idle /\ done.ok \in BOOLEAN

Init ==
  /\ sys \in DOMAIN Systems
  /\ opts \in S.options
  /\ has \in S.starts
  /\ residue = {}
  /\ call = NoCall
  /\ done = None

-----------------------------------------------------------------------------
(* The steps of an operation.  p is the procedure of the operation under way. *)

End(c, ok) ==
  /\ call' = NoCall
  /\ done' = [op |-> c.op, ok |-> ok, before |-> c.before, missing |-> c.missing,
              stuck |-> ~ok /\ c.due /\ c.faults = 0]

Taken(s, now) == (s.r \subseteq now \cup opts) = (s.op = "when")

\* The next step at or behind each step that does something, with the resources now:
\* conditions the guest does not decide are evaluated on the way.  0 is the end.
Ahead(p, now) ==
  LET from[k \in Nat \ {0}] ==
        IF k > Len(p) THEN 0
        ELSE LET s == p[k] IN
          CASE s.op = "jump" -> IF s.to = 0 THEN 0 ELSE from[k + s.to]
            [] s.op \in {"when", "unless"} /\ s.r \cap S.guest = {} ->
                 from[k + (IF Taken(s, now) THEN 1 ELSE s.to)]
            [] s.op = "clean" /\ s.r \cap now = {} -> from[k + 1]
            [] OTHER -> k
  IN from
NextStep(p, n, now) == Ahead(p, now)[n]

\* The operation c goes on at step n, or returns success behind its last.
Continue(p, c, n) ==
  LET k == NextStep(p, n, has') IN
  IF k = 0 THEN End(c, TRUE) ELSE call' = [c EXCEPT !.pc = k] /\ done' = None

\* before is kept for the operations a property compares with it; due says that
\* the operation has to be possible here.
Begin(p, op) ==
  /\ Idle
  /\ residue' = {}
  /\ UNCHANGED <<sys, opts, has>>
  /\ Continue(p, [op |-> op, pc |-> 1, faults |-> 0, missing |-> {},
               before |-> IF op \in S.additive THEN has ELSE {},
               due |-> op \in DOMAIN S.certain /\ S.certain[op] \subseteq has], 1)

\* What the failure of step k leaves undone when it is only logged, or unseen: its own
\* work and that of the steps it jumps over.
Left(p, k, ops) ==
  UNION {p[i].r : i \in {j \in {k} \cup (k + 1 .. k + p[k].lax - 1) : p[j].op \in ops}}

\* A step that succeeds.
Succeed(p) ==
  /\ LET s == p[call.pc] IN
     /\ \/ s.op = "make" /\ s.r \cap has = {} /\ has' = has \cup s.r
        \/ s.op \in {"ensure", "note"} /\ has' = has \cup s.r
        \/ s.op \in {"drop", "forget", "clean"} /\ has' = has \ s.r
        \/ s.op = "try" /\ has' = has
        \/ s.op = "await" /\ s.r \cap has = {} /\ has' = has
     /\ residue' = residue \cap has'
     /\ Continue(p, call, call.pc + s.to)
  /\ UNCHANGED <<sys, opts>>

\* A step that only decides where to go on.
Branch(p) ==
  /\ UNCHANGED <<sys, opts, has, residue>>
  /\ LET s == p[call.pc] IN
     \/ s.op \in {"when", "unless"} /\ Continue(p, call, call.pc + IF Taken(s, has) THEN 1 ELSE s.to)
     \/ s.op = "maybe" /\ \E n \in {1, s.to} : Continue(p, call, call.pc + n)

\* Cleanup that goes well, or fails for one resource.
OneLess(R) == {{}} \cup {{r} : r \in R}

\* A step that fails: something went wrong, or the step is refused.  The error path
\* removes s.undo, which may fail too; the error is returned, or logged and the
\* operation goes on.
Failure(p) ==
  /\ LET s == p[call.pc]
         refused == s.op = "fail" \/ (s.op = "make" /\ s.r \cap has # {})
         c == [call EXCEPT !.faults = IF refused THEN @ ELSE @ + 1,
                           !.missing = IF s.lax = 0 THEN @
                                       ELSE @ \cup Left(p, call.pc, {"make", "ensure", "note"})] IN
     /\ s.op \in {"make", "ensure", "drop", "try", "await", "fail"}
     /\ s.op = "await" => s.r \cap has # {}
     /\ c.faults <= MaxFaults
     /\ \E left \in OneLess(s.undo \cap has), lost \in OneLess(s.redo \cap call.before) :
          /\ left \cup lost # {} => c.faults < MaxFaults
          /\ has' = (has \ s.undo) \cup left \cup ((s.redo \cap call.before) \ lost)
          /\ residue' = (residue \cup left \cup
                           (IF s.lax = 0 THEN {} ELSE Left(p, call.pc, {"drop", "clean", "forget", "try", "fail"})))
                         \cap has'
          /\ LET d == [c EXCEPT !.missing = @ \cup lost] IN
             IF s.lax = 0 THEN End(d, FALSE) ELSE Continue(p, d, call.pc + s.lax)
  /\ UNCHANGED <<sys, opts>>

\* Removal that only logs its errors and leaves something.
CleanFails(p) ==
  LET s == p[call.pc] IN
  /\ s.op = "clean"
  /\ call.faults < MaxFaults
  /\ \E left \in OneLess(s.r \cap has) \ {{}} :
       /\ has' = (has \ s.r) \cup left
       /\ residue' = (residue \cap has') \cup left
  /\ Continue(p, [call EXCEPT !.faults = @ + 1], call.pc + 1)
  /\ UNCHANGED <<sys, opts>>

-----------------------------------------------------------------------------
(* What happens around it. *)

Lose(r) ==
  /\ has' = has \ r
  /\ residue' = residue \ r

\* The guest stops without being told to.
GuestExits ==
  /\ S.guest \cap has # {}
  /\ Lose(S.guest)
  /\ call' = IF Idle THEN NoCall
             ELSE [call EXCEPT !.before = @ \ S.guest, !.missing = @ \cup S.guest, !.due = FALSE]
  /\ done' = None
  /\ UNCHANGED <<sys, opts>>

\* The daemon dies, between or inside operations, and is started again.
Crash ==
  /\ ~Idle \/ S.memory \cap has # {}
  /\ Lose(S.memory)
  /\ call' = NoCall
  /\ done' = None
  /\ UNCHANGED <<sys, opts>>

Reboot ==
  /\ ~Idle \/ (S.memory \cup S.volatile) \cap has # {}
  /\ Lose(S.memory \cup S.volatile)
  /\ call' = NoCall
  /\ done' = None
  /\ UNCHANGED <<sys, opts>>

Next ==
  \/ \E program \in {Programs[sys]} :
       \/ \E op \in DOMAIN program : Begin(program[op], op)
       \/ /\ ~Idle
          /\ \E p \in {program[call.op]} : Succeed(p) \/ Branch(p) \/ Failure(p) \/ CleanFails(p)
  \/ GuestExits
  \/ Crash
  \/ Reboot

Spec == Init /\ [][Next]_vars

-----------------------------------------------------------------------------
(* What the operations promise. *)

Ended(ok) == done # None /\ done.ok = ok
Of(f, op) == IF op \in DOMAIN f THEN f[op] ELSE {}
Known == {k[2] : k \in {x \in S.known : x[1] = done.op}}

\* An operation that creates or changes something and fails leaves the host as it
\* found it, but for what its cleanup could not remove: nothing it made stays behind
\* and nothing that was there before is taken down with it.
FailureChangesNothing ==
  Ended(FALSE) /\ done.op \in S.additive =>
    /\ has \ (done.before \cup residue \cup S.shared) \subseteq Known
    /\ done.before \ has \subseteq Known \cup done.missing \cup S.shared

\* An operation that reports success has made what it is for and removed what it is
\* for, but for what it logged, and for a bhyve guest that it took for stopped because
\* a query of the process table failed or vm.state recorded another process.
SuccessIsTrue ==
  Ended(TRUE) =>
    /\ Of(S.gives, done.op) \ (has \cup done.missing) \subseteq Known
    /\ (Of(S.takes, done.op) \cap has) \ residue \subseteq Known

\* In whatever state failures, crashes and reboots left the host, an operation that
\* has to be possible is: it does not refuse, it only fails when something fails.
NeverStuck == Ended(FALSE) => ~done.stuck \/ <<done.op, "stuck">> \in S.known

\* A running guest is always known: its record outlives it, unless it is one that
\* deletion is known to overlook.
GuestIsKnown ==
  S.guest \cap has # {} =>
    S.record \subseteq has \/ \E r \in S.guest : <<"delete", r>> \in S.known
=============================================================================
