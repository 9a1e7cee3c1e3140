------------------------ MODULE NetworkPolicyProbeProofs ------------------------
(* Proofs about NetworkPolicyProbe, for any set of runs and any bounds.    *)
EXTENDS NetworkPolicyProbe, TLAPS

Tasks == [op : {"create", "probe", "await", "verify", "delete"}, role : Roles,
          expect : {"none", "Succeeded", "Failed"}]

LEMMA ScriptLength == Len(Script) = 27
  BY DEF Script, Make, Probe, Await, Control, Remove

LEMMA ScriptType == Script \in Seq(Tasks)
  BY DEF Script, Make, Probe, Await, Control, Remove, Tasks, Roles, Policies, Clients

LEMMA ScriptRemoves ==
    ASSUME NEW i \in 1..Len(Script), Script[i].op = "delete"
    PROVE  \E j \in 1..(i - 1) :
               Script[j].op = "create" /\ Script[j].role = Script[i].role
<1>1. i \in 1..27
  BY ScriptLength
<1>2. i = 22 \/ i = 23
  BY <1>1 DEF Script, Make, Probe, Await, Control, Remove
<1>3. /\ Script[10].op = "create" /\ Script[10].role = Script[22].role
      /\ Script[16].op = "create" /\ Script[16].role = Script[23].role
  BY DEF Script, Make, Remove
<1>4. QED
  BY <1>2, <1>3

---------------------------------------------------------------------------
(* How the ways to go on treat the state of an invocation.                 *)

IInv == TypeOK /\ Custody

LEMMA IdleIsHeld == ASSUME NEW r \in Runs PROVE Idle \in Invocation /\ Held(r, Idle)
  BY ScriptLength DEF Idle, Invocation, Held, Modes, Stages, NoObject, AtTask

(* One invocation moves to a state it may hold: all of them stay held.     *)
LEMMA MoveKeepsCustody ==
    ASSUME IInv, NEW r \in Runs, NEW w \in Invocation, Held(r, w),
           inv' = [inv EXCEPT ![r] = w]
    PROVE  inv' \in [Runs -> Invocation] /\ Custody'
  BY DEF IInv, TypeOK, Custody, Held

LEMMA EndIsHeld ==
    ASSUME IInv, NEW r \in Runs, NEW result \in Outcomes, End(r, result)
    PROVE  inv' \in [Runs -> Invocation] /\ outcome' \in [Runs -> Outcomes] /\ Custody'
<1>1. inv' \in [Runs -> Invocation] /\ Custody'
  BY IdleIsHeld, MoveKeepsCustody DEF End
<1>2. QED
  BY <1>1 DEF End, IInv, TypeOK

LEMMA FailIsHeld ==
    ASSUME IInv, NEW r \in Runs, inv[r].stage # "idle", Fail(r)
    PROVE  inv' \in [Runs -> Invocation] /\ outcome' \in [Runs -> Outcomes] /\ Custody'
<1>1. CASE inv[r].cleaning
  BY <1>1, EndIsHeld DEF Fail, Outcomes
<1>2. CASE ~inv[r].cleaning
  <2> DEFINE w == [inv[r] EXCEPT !.stage = "discover", !.cleaning = TRUE]
  <2>1. inv[r] \in Invocation /\ Held(r, inv[r])
    BY DEF IInv, TypeOK, Custody
  <2>2. w \in Invocation /\ Held(r, w)
    BY <2>1 DEF Invocation, Held, Stages
  <2>3. inv' = [inv EXCEPT ![r] = w] /\ outcome' = outcome
    BY <1>2 DEF Fail, IInv, TypeOK, Invocation
  <2>4. QED
    BY <2>2, <2>3, MoveKeepsCustody DEF IInv, TypeOK
<1>3. QED
  BY <1>1, <1>2 DEF IInv, TypeOK, Invocation

LEMMA AdvanceIsHeld ==
    ASSUME IInv, NEW r \in Runs, Advance(r),
           inv[r].stage \notin {"idle", "register"},
           ~inv[r].cleaning => \E op \in {"probe", "await", "verify", "delete"} :
                                   AtTask(inv[r], op)
    PROVE  inv' \in [Runs -> Invocation] /\ outcome' \in [Runs -> Outcomes] /\ Custody'
<1> DEFINE w == [inv[r] EXCEPT
                    !.stage = IF inv[r].cleaning THEN "delete" ELSE "block",
                    !.step = IF inv[r].cleaning THEN @ ELSE @ + 1,
                    !.target = NoObject]
<1>1. inv[r] \in Invocation /\ Held(r, inv[r])
  BY DEF IInv, TypeOK, Custody
<1>2. w \in Invocation
  <2>1. ~inv[r].cleaning => inv[r].step + 1 \in 1..(Len(Script) + 1)
    BY ScriptLength DEF AtTask
  <2>2. (IF inv[r].cleaning THEN inv[r].step ELSE inv[r].step + 1) \in 1..(Len(Script) + 1)
    BY <1>1, <2>1 DEF Invocation
  <2>3. (IF inv[r].cleaning THEN "delete" ELSE "block") \in Stages
    BY DEF Stages
  <2>4. QED
    BY <1>1, <2>2, <2>3 DEF Invocation
<1>3. Held(r, w)
  BY <1>1, ScriptLength DEF Invocation, Held, AtTask
<1>4. inv' = [inv EXCEPT ![r] = w] /\ outcome' = outcome
  BY DEF Advance
<1>5. QED
  BY <1>2, <1>3, <1>4, MoveKeepsCustody DEF IInv, TypeOK

---------------------------------------------------------------------------
(* The inductive invariant.                                                *)

LEMMA OwnIsObject ==
    ASSUME NEW r \in Runs, NEW i \in 1..Len(Script)
    PROVE  Own(r, Script[i].role) \in Object
<1>1. Script[i] \in Tasks
  BY ScriptType
<1>2. QED
  BY <1>1 DEF Own, Object, Tasks

LEMMA InitInv == ASSUME Init PROVE IInv
<1>1. ProbeAssumption
  BY ProbeAssumption
<1>2. TypeOK
  BY <1>1, IdleIsHeld DEF Init, TypeOK, NoLedger, Dataflow, Outcomes, ProbeAssumption
<1>3. Custody
  BY IdleIsHeld DEF Init, Custody
<1>4. QED
  BY <1>2, <1>3 DEF IInv

(* The deletion steps move only the invocation and, at most, the cluster.  *)
LEMMA ReadTargetInv == ASSUME IInv, NEW r \in Runs, ReadTarget(r) PROVE IInv'
<1>1. inv[r] \in Invocation /\ Held(r, inv[r]) /\ inv[r].stage = "read"
  BY DEF IInv, TypeOK, Custody, ReadTarget
<1>2. ~inv[r].cleaning => AtTask(inv[r], "delete")
  BY <1>1 DEF Held
<1>3. Fail(r) \/ Advance(r) \/
      /\ inv[r].mode # "check"
      /\ inv' = [inv EXCEPT ![r].stage = "call"]
      /\ UNCHANGED outcome
  BY DEF ReadTarget
<1>4. inv' \in [Runs -> Invocation] /\ outcome' \in [Runs -> Outcomes] /\ Custody'
  <2>1. CASE Fail(r)
    BY <2>1, <1>1, FailIsHeld
  <2>2. CASE Advance(r)
    BY <2>2, <1>1, <1>2, AdvanceIsHeld
  <2>3. CASE /\ inv[r].mode # "check"
             /\ inv' = [inv EXCEPT ![r].stage = "call"]
             /\ UNCHANGED outcome
    <3> DEFINE w == [inv[r] EXCEPT !.stage = "call"]
    <3>1. w \in Invocation /\ Held(r, w)
      BY <1>1, <2>3 DEF Invocation, Held, Stages, AtTask
    <3>2. QED
      BY <2>3, <3>1, MoveKeepsCustody DEF IInv, TypeOK
  <2>4. QED
    BY <1>3, <2>1, <2>2, <2>3
<1>5. QED
  BY <1>4 DEF IInv, TypeOK, ReadTarget, cluster, environment

LEMMA CallDeleteInv == ASSUME IInv, NEW r \in Runs, CallDelete(r) PROVE IInv'
<1>1. inv[r] \in Invocation /\ Held(r, inv[r]) /\ inv[r].stage = "call"
  BY DEF IInv, TypeOK, Custody, CallDelete
<1>2. ~inv[r].cleaning => AtTask(inv[r], "delete")
  BY <1>1 DEF Held
<1>3. inv' \in [Runs -> Invocation] /\ outcome' \in [Runs -> Outcomes] /\ Custody'
  <2>1. CASE Fail(r)
    BY <2>1, <1>1, FailIsHeld
  <2>2. CASE Advance(r)
    BY <2>2, <1>1, <1>2, AdvanceIsHeld
  <2>3. QED
    BY <2>1, <2>2 DEF CallDelete
<1>4. QED
  BY <1>3 DEF IInv, TypeOK, CallDelete, environment

LEMMA DiscoverInv == ASSUME IInv, NEW r \in Runs, Discover(r) PROVE IInv'
<1> DEFINE found == Residue(r)
           w == [inv[r] EXCEPT !.stage = "delete", !.discovered = found,
                               !.pending = found, !.target = NoObject]
<1>1. inv[r] \in Invocation /\ Held(r, inv[r]) /\ inv[r].stage = "discover"
  BY DEF IInv, TypeOK, Custody, Discover
<1>2. found \in SUBSET Object /\ \A o \in found : o.run = r
  BY DEF Residue, IInv, TypeOK
<1>3. CASE /\ inv[r].mode = "run" \/ inv[r].supplied = found
           /\ inv' = [inv EXCEPT ![r].stage = "delete", ![r].discovered = found,
                                 ![r].pending = found, ![r].target = NoObject]
           /\ UNCHANGED <<ledger, outcome>>
  <2>1. w \in Invocation
    BY <1>1, <1>2 DEF Invocation, Stages
  <2>2. Held(r, w)
    BY <1>1, <1>2, <1>3 DEF Invocation, Held, AtTask
  <2>3. inv' = [inv EXCEPT ![r] = w]
    BY <1>3 DEF IInv, TypeOK
  <2>4. inv' \in [Runs -> Invocation] /\ Custody'
    BY <2>1, <2>2, <2>3, MoveKeepsCustody
  <2>5. QED
    BY <1>3, <2>4 DEF IInv, TypeOK, Discover, cluster, environment
<1>4. CASE /\ inv[r].mode = "apply" /\ inv[r].supplied # found
           /\ End(r, "dirty")
           /\ UNCHANGED ledger
  BY <1>4, EndIsHeld DEF IInv, TypeOK, Discover, cluster, environment, Outcomes
<1>5. CASE /\ inv[r].mode = "check" /\ inv[r].supplied # found
           /\ ledger' = Ledger(r, found)
           /\ End(r, "rebuilt")
  <2>1. ledger' \in [run : Runs \cup {"none"}, objects : SUBSET Object]
    BY <1>2, <1>5 DEF Ledger
  <2>2. QED
    BY <1>5, <2>1, EndIsHeld DEF IInv, TypeOK, Discover, cluster, environment, Outcomes
<1>6. QED
  BY <1>3, <1>4, <1>5 DEF Discover

LEMMA NextTargetInv == ASSUME IInv, NEW r \in Runs, NextTarget(r) PROVE IInv'
<1>1. inv[r] \in Invocation /\ Held(r, inv[r]) /\ inv[r].stage = "delete"
  BY DEF IInv, TypeOK, Custody, NextTarget
<1>2. PICK o \in inv[r].pending :
        inv' = [inv EXCEPT ![r].stage = "read", ![r].target = o, ![r].pending = @ \ {o}]
  BY DEF NextTarget
<1> DEFINE w == [inv[r] EXCEPT !.stage = "read", !.target = o, !.pending = @ \ {o}]
<1>3. w \in Invocation /\ Held(r, w)
  BY <1>1 DEF Invocation, Held, Stages
<1>4. inv' = [inv EXCEPT ![r] = w]
  BY <1>2 DEF IInv, TypeOK
<1>5. inv' \in [Runs -> Invocation] /\ Custody'
  BY <1>3, <1>4, MoveKeepsCustody
<1>6. QED
  BY <1>5 DEF IInv, TypeOK, NextTarget, cluster, environment

LEMMA AllTargetsDoneInv == ASSUME IInv, NEW r \in Runs, AllTargetsDone(r) PROVE IInv'
<1>1. inv[r] \in Invocation /\ Held(r, inv[r]) /\ inv[r].stage = "delete"
  BY DEF IInv, TypeOK, Custody, AllTargetsDone
<1> DEFINE w == [inv[r] EXCEPT !.stage = "residue"]
<1>2. w \in Invocation /\ Held(r, w)
  BY <1>1 DEF Invocation, Held, Stages
<1>3. inv' \in [Runs -> Invocation] /\ outcome' \in [Runs -> Outcomes] /\ Custody'
  <2>1. CASE inv[r].mode = "check"
    BY <2>1, EndIsHeld DEF AllTargetsDone, Outcomes
  <2>2. CASE inv[r].mode # "check"
    BY <2>2, <1>2, MoveKeepsCustody DEF AllTargetsDone, IInv, TypeOK
  <2>3. QED
    BY <2>1, <2>2
<1>4. QED
  BY <1>3 DEF IInv, TypeOK, AllTargetsDone, cluster, environment

LEMMA VerifyResidueInv == ASSUME IInv, NEW r \in Runs, VerifyResidue(r) PROVE IInv'
<1>1. inv[r] \in Invocation /\ Held(r, inv[r]) /\ inv[r].stage = "residue"
  BY DEF IInv, TypeOK, Custody, VerifyResidue
<1> DEFINE w == [inv[r] EXCEPT !.stage = "unlink"]
<1>2. w \in Invocation /\ Held(r, w)
  BY <1>1 DEF Invocation, Held, Stages
<1>3. inv' \in [Runs -> Invocation] /\ outcome' \in [Runs -> Outcomes] /\ Custody'
  <2>1. CASE Residue(r) = {}
    BY <2>1, <1>2, MoveKeepsCustody DEF VerifyResidue, IInv, TypeOK
  <2>2. CASE Residue(r) # {}
    BY <2>2, <1>1, FailIsHeld DEF VerifyResidue
  <2>3. QED
    BY <2>1, <2>2
<1>4. QED
  BY <1>3 DEF IInv, TypeOK, VerifyResidue, environment

LEMMA UnlinkLedgerInv == ASSUME IInv, NEW r \in Runs, UnlinkLedger(r) PROVE IInv'
<1>1. Verdict(r) \in Outcomes
  BY DEF Verdict, Outcomes
<1>2. QED
  BY <1>1, EndIsHeld DEF IInv, TypeOK, UnlinkLedger, NoLedger, cluster, environment

(* The tasks of the block.                                                 *)
LEMMA CreateInv == ASSUME IInv, NEW r \in Runs, Create(r) PROVE IInv'
<1> DEFINE o == Own(r, Task(r).role)
           w == [inv[r] EXCEPT !.stage = "register", !.target = o]
<1>1. /\ inv[r] \in Invocation /\ Held(r, inv[r])
      /\ inv[r].stage = "block" /\ AtTask(inv[r], "create")
  BY DEF IInv, TypeOK, Custody, Create, At
<1>2. o \in Object
  BY <1>1, OwnIsObject DEF AtTask, Task
<1>3. w \in Invocation
  BY <1>1, <1>2 DEF Invocation, Stages
<1>4. Held(r, w)
  BY <1>1 DEF Invocation, Held, AtTask, Task
<1>5. inv' \in [Runs -> Invocation] /\ Custody'
  BY <1>3, <1>4, MoveKeepsCustody DEF Create
<1>6. /\ live' \subseteq Object /\ labelled' \subseteq live'
      /\ net' \in [Runs -> Dataflow]
  BY <1>2 DEF Create, IInv, TypeOK, Dataflow
<1>7. QED
  BY <1>5, <1>6 DEF IInv, TypeOK, Create

LEMMA RegisterInv == ASSUME IInv, NEW r \in Runs, Register(r) PROVE IInv'
<1> DEFINE owned == inv[r].owned \cup {inv[r].target}
           w == [inv[r] EXCEPT !.owned = owned, !.stage = "block",
                               !.step = @ + 1, !.target = NoObject]
<1>1. inv[r] \in Invocation /\ Held(r, inv[r]) /\ inv[r].stage = "register"
  BY DEF IInv, TypeOK, Custody, Register
<1>2. AtTask(inv[r], "create") /\ inv[r].target = Own(r, Script[inv[r].step].role)
  BY <1>1 DEF Held
<1>3. inv[r].target \in Object /\ inv[r].target.run = r
  BY <1>2, OwnIsObject DEF AtTask, Own
<1>4. inv[r].step + 1 \in 1..(Len(Script) + 1)
  BY <1>2, ScriptLength DEF AtTask
<1>5. w \in Invocation
  BY <1>1, <1>3, <1>4 DEF Invocation, Stages
<1>6. Held(r, w)
  <2>1. \A i \in 1..(w.step - 1) : Script[i].op = "create" =>
            Own(r, Script[i].role) \in w.owned
    <3>1. w.step - 1 = inv[r].step /\ w.owned = owned
      BY <1>1, ScriptLength DEF Invocation
    <3>2. QED
      BY <1>1, <1>2, <3>1, ScriptLength DEF Held, AtTask, Invocation
  <2>2. QED
    BY <1>1, <1>3, <2>1 DEF Held, Invocation
<1>7. inv' = [inv EXCEPT ![r] = w]
  BY DEF Register, IInv, TypeOK
<1>8. inv' \in [Runs -> Invocation] /\ Custody'
  BY <1>5, <1>6, <1>7, MoveKeepsCustody
<1>9. ledger' \in [run : Runs \cup {"none"}, objects : SUBSET Object]
  BY <1>1, <1>3 DEF Register, Ledger, Invocation
<1>10. QED
  BY <1>8, <1>9 DEF IInv, TypeOK, Register, cluster, environment

LEMMA TaskInv ==
    ASSUME IInv, NEW r \in Runs, AwaitServer(r) \/ Observe(r) \/ VerifyServer(r)
    PROVE  IInv'
<1>1. PICK op \in {"await", "probe", "verify"} : At(r, op)
  BY DEF AwaitServer, Observe, VerifyServer
<1>2. Fail(r) \/ Advance(r)
  BY DEF AwaitServer, Observe, VerifyServer
<1>3. inv' \in [Runs -> Invocation] /\ outcome' \in [Runs -> Outcomes] /\ Custody'
  BY <1>1, <1>2, FailIsHeld, AdvanceIsHeld DEF At
<1>4. UNCHANGED <<cluster, ledger, environment>>
  BY DEF AwaitServer, Observe, VerifyServer
<1>5. QED
  BY <1>3, <1>4 DEF IInv, TypeOK, cluster, environment

LEMMA RemovePolicyInv == ASSUME IInv, NEW r \in Runs, RemovePolicy(r) PROVE IInv'
<1> DEFINE o == Own(r, Task(r).role)
           w == [inv[r] EXCEPT !.stage = "read", !.target = o]
<1>1. /\ inv[r] \in Invocation /\ Held(r, inv[r])
      /\ inv[r].stage = "block" /\ AtTask(inv[r], "delete")
  BY DEF IInv, TypeOK, Custody, RemovePolicy, At
<1>2. o \in Object
  BY <1>1, OwnIsObject DEF AtTask, Task
<1>3. ~inv[r].cleaning
  BY <1>1 DEF Held
<1>4. o \in inv[r].owned
  BY <1>1, <1>3, ScriptRemoves DEF Held, AtTask, Task
<1>5. w \in Invocation
  BY <1>1, <1>2 DEF Invocation, Stages
<1>6. Held(r, w)
  BY <1>1, <1>3, <1>4 DEF Invocation, Held, AtTask
<1>7. inv' \in [Runs -> Invocation] /\ Custody'
  BY <1>5, <1>6, MoveKeepsCustody DEF RemovePolicy
<1>8. QED
  BY <1>7 DEF IInv, TypeOK, RemovePolicy, cluster, environment

LEMMA FinishBlockInv == ASSUME IInv, NEW r \in Runs, FinishBlock(r) PROVE IInv'
<1> DEFINE w == [inv[r] EXCEPT !.stage = "discover", !.cleaning = TRUE, !.passed = TRUE]
<1>1. inv[r] \in Invocation /\ Held(r, inv[r]) /\ inv[r].stage = "block"
  BY DEF IInv, TypeOK, Custody, FinishBlock
<1>2. w \in Invocation /\ Held(r, w)
  BY <1>1 DEF Invocation, Held, Stages
<1>3. inv' \in [Runs -> Invocation] /\ Custody'
  BY <1>2, MoveKeepsCustody DEF FinishBlock
<1>4. QED
  BY <1>3 DEF IInv, TypeOK, FinishBlock, cluster, environment

(* Invocations begin.                                                      *)
LEMMA StartRunInv == ASSUME IInv, NEW r \in Runs, StartRun(r) PROVE IInv'
<1> DEFINE w == [Idle EXCEPT !.mode = "run", !.stage = "block"]
<1>1. w \in Invocation /\ Held(r, w)
  BY IdleIsHeld, ScriptLength DEF Idle, Invocation, Held, Modes, Stages, AtTask
<1>2. inv' \in [Runs -> Invocation] /\ Custody'
  BY <1>1, MoveKeepsCustody DEF StartRun
<1>3. outcome' \in [Runs -> Outcomes]
  BY DEF StartRun, IInv, TypeOK, Outcomes
<1>4. QED
  BY <1>2, <1>3 DEF IInv, TypeOK, StartRun, cluster, environment

LEMMA BeginInv ==
    ASSUME IInv, NEW r \in Runs, NEW mode \in {"check", "apply"},
           NEW objs \in SUBSET Object, Begin(r, mode, objs)
    PROVE  IInv'
<1> DEFINE w == [Idle EXCEPT !.mode = mode, !.stage = "discover",
                             !.supplied = objs, !.cleaning = TRUE]
<1>1. w \in Invocation
  BY IdleIsHeld DEF Idle, Invocation, Modes, Stages
<1>2. Held(r, w)
  BY IdleIsHeld DEF Idle, Held, AtTask
<1>3. inv' \in [Runs -> Invocation] /\ Custody'
  BY <1>1, <1>2, MoveKeepsCustody DEF Begin
<1>4. outcome' \in [Runs -> Outcomes]
  BY DEF Begin, IInv, TypeOK, Outcomes
<1>5. QED
  BY <1>3, <1>4 DEF IInv, TypeOK, Begin, cluster, environment

LEMMA OperatorInv == ASSUME IInv, NEW r \in Runs, Operator(r) PROVE IInv'
<1>1. ledger.objects \in SUBSET Object
  BY DEF IInv, TypeOK
<1>2. QED
  BY <1>1, StartRunInv, BeginInv
     DEF Operator, RecoveryCheck, LedgerCheck, ApplyCleanup

(* Invocations fail.                                                       *)
LEMMA FailureInv == ASSUME IInv, NEW r \in Runs, Failure(r) PROVE IInv'
<1>1. CASE CreateLate(r)
  <2>1. inv[r].stage # "idle" /\ Fail(r)
    BY <1>1 DEF CreateLate, At
  <2>2. inflight' \subseteq Object
    BY <1>1, OwnIsObject DEF CreateLate, At, AtTask, Task, IInv, TypeOK
  <2>3. spent' \in [crash : 0..MaxCrash, error : 0..MaxError, meddle : 0..MaxMeddle]
    BY <1>1, ProbeAssumption DEF CreateLate, IInv, TypeOK, ProbeAssumption
  <2>4. QED
    BY <1>1, <2>1, <2>2, <2>3, FailIsHeld DEF CreateLate, IInv, TypeOK
<1>2. CASE TaskError(r)
  <2>1. spent' \in [crash : 0..MaxCrash, error : 0..MaxError, meddle : 0..MaxMeddle]
    BY <1>2, ProbeAssumption DEF TaskError, IInv, TypeOK, ProbeAssumption
  <2>2. QED
    BY <1>2, <2>1, FailIsHeld DEF TaskError, IInv, TypeOK, cluster
<1>3. CASE Crash(r)
  <2>1. spent' \in [crash : 0..MaxCrash, error : 0..MaxError, meddle : 0..MaxMeddle]
    BY <1>3, ProbeAssumption DEF Crash, IInv, TypeOK, ProbeAssumption
  <2>2. QED
    BY <1>3, <2>1, EndIsHeld DEF Crash, IInv, TypeOK, cluster, Outcomes
<1>4. QED
  BY <1>1, <1>2, <1>3 DEF Failure

(* The cluster moves on without the controller.                            *)
LEMMA DataplaneInv == ASSUME IInv, NEW r \in Runs, Dataplane(r) PROVE IInv'
<1>1. UNCHANGED <<cluster, ledger, inv, outcome, cni, spent>>
  BY DEF Dataplane, ClientTerminates, SyncDataplane, ServerStarts, ServerRestarts, ServerFlaps
<1>2. net' \in [Runs -> Dataflow]
  <2>1. net \in [Runs -> Dataflow] /\ net[r] \in Dataflow
    BY DEF IInv, TypeOK
  <2>2. CASE ClientTerminates(r)
    <3>1. PICK reply \in {"connected", "refused", "evicted"} :
            net' = [net EXCEPT ![r].reply = reply]
      BY <2>2 DEF ClientTerminates
    <3>2. QED
      BY <2>1, <3>1 DEF Dataflow
  <2>3. CASE SyncDataplane(r)
    <3>1. PICK wanted \in SUBSET Policies : net' = [net EXCEPT ![r].enforced = wanted]
      BY <2>3 DEF SyncDataplane
    <3>2. QED
      BY <2>1, <3>1 DEF Dataflow
  <2>4. CASE ServerStarts(r)
    BY <2>1, <2>4 DEF ServerStarts, Dataflow
  <2>5. CASE ServerRestarts(r)
    BY <2>1, <2>5 DEF ServerRestarts, Dataflow
  <2>6. CASE ServerFlaps(r)
    BY <2>1, <2>6 DEF ServerFlaps, Dataflow
  <2>7. QED
    BY <2>2, <2>3, <2>4, <2>5, <2>6 DEF Dataplane
<1>3. QED
  BY <1>1, <1>2 DEF IInv, TypeOK, Custody, cluster

LEMMA LandInv == ASSUME IInv, NEW o \in inflight, Land(o) PROVE IInv'
  BY DEF IInv, TypeOK, Custody, Land, environment

LEMMA ForeignInv == ASSUME IInv, Foreign PROVE IInv'
<1>1. PICK o \in live : ForeignDelete(o) \/ ForeignReplace(o) \/ ForeignUnlabel(o)
  BY DEF Foreign
<1>2. o \in Object /\ [o EXCEPT !.uid = 2] \in Object
  BY DEF IInv, TypeOK, Object
<1>3. live' \subseteq Object /\ labelled' \subseteq live'
  BY <1>1, <1>2 DEF ForeignDelete, ForeignReplace, ForeignUnlabel, IInv, TypeOK
<1>4. Meddle
  BY <1>1 DEF ForeignDelete, ForeignReplace, ForeignUnlabel
<1>5. spent' \in [crash : 0..MaxCrash, error : 0..MaxError, meddle : 0..MaxMeddle]
  BY <1>4, ProbeAssumption DEF Meddle, IInv, TypeOK, ProbeAssumption
<1>6. QED
  BY <1>3, <1>4, <1>5 DEF Meddle, IInv, TypeOK, Custody

LEMMA NextInv == ASSUME IInv, [Next]_vars PROVE IInv'
<1>1. ASSUME NEW r \in Runs, Controller(r) PROVE IInv'
  BY <1>1, CreateInv, RegisterInv, TaskInv, RemovePolicyInv, FinishBlockInv,
     ReadTargetInv, CallDeleteInv, DiscoverInv, NextTargetInv, AllTargetsDoneInv,
     VerifyResidueInv, UnlinkLedgerInv
     DEF Controller
<1>2. CASE UNCHANGED vars
  BY <1>2 DEF IInv, TypeOK, Custody, vars
<1>3. QED
  BY <1>1, <1>2, OperatorInv, FailureInv, DataplaneInv, LandInv, ForeignInv DEF Next

---------------------------------------------------------------------------
(* Theorems.                                                               *)

(* Every reachable state has the declared types, and labels only on live   *)
(* objects, for every set of runs and every budget of faults.              *)
THEOREM TypeCorrect == Spec => []TypeOK
<1>1. IInv => TypeOK
  BY DEF IInv
<1>2. QED
  BY <1>1, InitInv, NextInv, PTL DEF Spec

(* Every invocation holds only identities of its own run, and a deletion   *)
(* target is always one that it created or discovered.                     *)
THEOREM CustodyHolds == Spec => []Custody
<1>1. IInv => Custody
  BY DEF IInv
<1>2. QED
  BY <1>1, InitInv, NextInv, PTL DEF Spec

(* The only step that deletes for r is its deletion call, and the object   *)
(* that goes away is exactly the target, UID included.                     *)
LEMMA OnlyTheTarget ==
    ASSUME IInv, [Next]_vars, NEW r \in Runs, NEW o \in live, Deletes(r, o)
    PROVE  CallDelete(r) /\ o = inv[r].target
<1>1. CallDelete(r)
  <2>1. live' # live /\ inv'[r] # inv[r] /\ inv[r].stage = "call"
    BY DEF Deletes
  <2>2. PICK q \in Runs : CallDelete(q) \/ Create(q)
    <3>1. live' # live /\ inv' # inv
      BY <2>1
    <3>2. ~ (\E o2 \in inflight : Land(o2)) /\ ~ Foreign
      BY <3>1 DEF Land, Foreign, ForeignDelete, ForeignReplace, ForeignUnlabel, Meddle
    <3>3. ASSUME NEW q \in Runs, Operator(q) \/ Failure(q) \/ Dataplane(q) PROVE live' = live
      BY <3>3 DEF Operator, StartRun, RecoveryCheck, LedgerCheck, ApplyCleanup, Begin,
         Failure, CreateLate, TaskError, Crash, cluster,
         Dataplane, ClientTerminates, SyncDataplane, ServerStarts, ServerRestarts, ServerFlaps
    <3>4. PICK q \in Runs : Controller(q)
      BY <3>1, <3>2, <3>3 DEF Next, vars
    <3>5. CallDelete(q) \/ Create(q)
      BY <3>1, <3>4 DEF Controller, cluster, Register, AwaitServer, Observe, VerifyServer,
         RemovePolicy, FinishBlock, ReadTarget, Discover, NextTarget, AllTargetsDone,
         VerifyResidue, UnlinkLedger
    <3>6. QED
      BY <3>5
  <2>3. CallDelete(q)
    BY <2>2 DEF Create, Deletes
  <2>4. q = r
    BY <2>1, <2>3 DEF CallDelete, Fail, Advance, End, IInv, TypeOK
  <2>5. QED
    BY <2>3, <2>4
<1>2. o \in Named(inv[r].target) /\ o.uid = inv[r].target.uid
  BY <1>1 DEF CallDelete, Deletes
<1>3. inv[r].target \in Object
  <2>1. inv[r] \in Invocation /\ Held(r, inv[r]) /\ inv[r].stage = "call"
    BY DEF IInv, TypeOK, Custody, Deletes
  <2>2. QED
    BY <2>1 DEF Held, Invocation
<1>4. QED
  BY <1>1, <1>2, <1>3 DEF Named, SameName, IInv, TypeOK, Object

LEMMA TargetIsHeld ==
    ASSUME IInv, [Next]_vars, NEW r \in Runs, NEW o \in live, Deletes(r, o)
    PROVE  /\ o \in inv[r].owned \cup inv[r].discovered
           /\ o.run = r
           /\ inv[r].mode # "check"
           /\ inv[r].mode = "apply" => o \in inv[r].supplied
<1>1. inv[r] \in Invocation /\ Held(r, inv[r]) /\ inv[r].stage = "call"
  BY DEF IInv, TypeOK, Custody, Deletes
<1>2. o = inv[r].target
  BY OnlyTheTarget
<1>3. QED
  BY <1>1, <1>2 DEF Held, Invocation

(* No deletion ever removes an object that a foreign writer put under a    *)
(* name the probe generated, whatever the interleaving.                    *)
THEOREM ExactIdentityHolds == Spec => ExactIdentity
<1>1. IInv /\ [Next]_vars =>
        [\A r \in Runs : \A o \in live :
           Deletes(r, o) => o \in inv[r].owned \cup inv[r].discovered]_vars
  BY TargetIsHeld
<1>2. QED
  BY <1>1, InitInv, NextInv, PTL DEF Spec, ExactIdentity

(* A standalone cleanup deletes only what the reviewed ledger lists, and a *)
(* check deletes nothing.                                                  *)
THEOREM ReviewedOnlyHolds == Spec => ReviewedOnly
<1>1. IInv /\ [Next]_vars =>
        [\A r \in Runs : \A o \in live :
           Deletes(r, o) => /\ inv[r].mode # "check"
                            /\ inv[r].mode = "apply" => o \in inv[r].supplied]_vars
  BY TargetIsHeld
<1>2. QED
  BY <1>1, InitInv, NextInv, PTL DEF Spec, ReviewedOnly

(* However many runs overlap, none deletes another's objects.              *)
THEOREM OwnRunOnlyHolds == Spec => OwnRunOnly
<1>1. IInv /\ [Next]_vars =>
        [\A r \in Runs : \A o \in live : Deletes(r, o) => o.run = r]_vars
  BY TargetIsHeld
<1>2. QED
  BY <1>1, InitInv, NextInv, PTL DEF Spec, OwnRunOnly

---------------------------------------------------------------------------
(* Verified cleanup.  An invocation past its residue query, or ended after *)
(* one, has nothing of its run left that could still show up: not among    *)
(* the labelled objects, not among the creations under way.                *)
Verified(r) == outcome[r] \in {"accepted", "rejected", "cleaned"} \/ inv[r].stage = "unlink"
Settled ==
    \A r \in Runs :
        /\ inv[r].stage # "idle" => outcome[r] = "running"
        /\ Verified(r) => \A role \in Roles : Own(r, role) \notin labelled \cup inflight

(* Moves that leave objects alone and do not pass the residue query.       *)
LEMMA QuietMove ==
    ASSUME IInv, Settled, NEW r \in Runs,
           labelled' \cup inflight' \subseteq labelled \cup inflight,
           inv' \in [Runs -> Invocation], outcome' \in [Runs -> Outcomes],
           \A q \in Runs \ {r} : inv'[q] = inv[q] /\ outcome'[q] = outcome[q],
           inv'[r].stage # "idle" => outcome'[r] = "running",
           Verified(r)' => Verified(r)
    PROVE  Settled'
<1> SUFFICES ASSUME NEW q \in Runs
             PROVE  /\ inv'[q].stage # "idle" => outcome'[q] = "running"
                    /\ Verified(q)' => \A role \in Roles :
                                          Own(q, role) \notin labelled' \cup inflight'
  BY DEF Settled, Own
<1>1. CASE q = r
  BY <1>1 DEF Settled
<1>2. CASE q # r
  BY <1>2 DEF Settled, Verified
<1>3. QED
  BY <1>1, <1>2

LEMMA FailIsQuiet ==
    ASSUME IInv, Settled, NEW r \in Runs, inv[r].stage # "idle", Fail(r)
    PROVE  /\ \A q \in Runs \ {r} : inv'[q] = inv[q] /\ outcome'[q] = outcome[q]
           /\ inv'[r].stage # "idle" => outcome'[r] = "running"
           /\ ~Verified(r)'
<1>1. outcome[r] = "running" /\ inv[r] \in Invocation
  BY DEF Settled, IInv, TypeOK
<1>2. CASE inv[r].cleaning
  BY <1>1, <1>2 DEF Fail, End, Idle, IInv, TypeOK, Verified
<1>3. CASE ~inv[r].cleaning
  BY <1>1, <1>3 DEF Fail, IInv, TypeOK, Invocation, Verified
<1>4. QED
  BY <1>2, <1>3

LEMMA AdvanceIsQuiet ==
    ASSUME IInv, Settled, NEW r \in Runs, inv[r].stage # "idle", Advance(r)
    PROVE  /\ \A q \in Runs \ {r} : inv'[q] = inv[q] /\ outcome'[q] = outcome[q]
           /\ inv'[r].stage # "idle" => outcome'[r] = "running"
           /\ ~Verified(r)'
<1>1. outcome[r] = "running" /\ inv[r] \in Invocation
  BY DEF Settled, IInv, TypeOK
<1>2. QED
  BY <1>1 DEF Advance, IInv, TypeOK, Invocation, Verified

LEMMA ControllerSettled ==
    ASSUME IInv, IInv', Settled, NEW r \in Runs, Controller(r)
    PROVE  Settled'
<1>1. /\ inv' \in [Runs -> Invocation] /\ outcome' \in [Runs -> Outcomes]
      /\ inv \in [Runs -> Invocation] /\ outcome \in [Runs -> Outcomes]
      /\ inv[r] \in Invocation
  BY DEF IInv, TypeOK
<1>2. inv[r].stage # "idle" /\ outcome[r] = "running"
  <2>1. inv[r].stage # "idle"
    BY DEF Controller, Create, Register, AwaitServer, Observe, VerifyServer, RemovePolicy,
       FinishBlock, ReadTarget, CallDelete, Discover, NextTarget, AllTargetsDone,
       VerifyResidue, UnlinkLedger, At
  <2>2. QED
    BY <2>1 DEF Settled
<1>3. CASE Create(r)
  <2>1. /\ inv' = [inv EXCEPT ![r].stage = "register", ![r].target = Own(r, Task(r).role)]
        /\ outcome' = outcome /\ inflight' = inflight
        /\ labelled' = labelled \cup {Own(r, Task(r).role)}
    BY <1>3 DEF Create
  <2>2. ~Verified(r)'
    BY <1>1, <1>2, <2>1 DEF Verified, Invocation
  <2>3. \A q \in Runs \ {r} : \A role \in Roles :
            Own(q, role) \in labelled' => Own(q, role) \in labelled
    BY <2>1 DEF Own
  <2>4. \A q \in Runs \ {r} : inv'[q] = inv[q] /\ outcome'[q] = outcome[q]
    BY <1>1, <2>1
  <2>5. QED
    BY <1>2, <2>1, <2>2, <2>3, <2>4 DEF Settled, Verified, Own
<1>4. CASE Register(r) \/ RemovePolicy(r) \/ FinishBlock(r) \/ NextTarget(r)
  <2>1. /\ labelled' = labelled /\ inflight' = inflight /\ outcome' = outcome
        /\ \A q \in Runs \ {r} : inv'[q] = inv[q]
        /\ inv'[r].stage # "unlink"
    <3>1. CASE Register(r)
      BY <1>1, <3>1 DEF Register, cluster, Invocation
    <3>2. CASE RemovePolicy(r)
      BY <1>1, <3>2 DEF RemovePolicy, cluster, Invocation
    <3>3. CASE FinishBlock(r)
      BY <1>1, <3>3 DEF FinishBlock, cluster, Invocation
    <3>4. CASE NextTarget(r)
      BY <1>1, <3>4 DEF NextTarget, cluster, Invocation
    <3>5. QED
      BY <1>4, <3>1, <3>2, <3>3, <3>4
  <2>2. QED
    BY <1>1, <1>2, <2>1, QuietMove DEF Verified
<1>5. CASE AwaitServer(r) \/ Observe(r) \/ VerifyServer(r) \/ CallDelete(r)
  <2>1. Fail(r) \/ Advance(r)
    BY <1>5 DEF AwaitServer, Observe, VerifyServer, CallDelete
  <2>2. labelled' \cup inflight' \subseteq labelled \cup inflight
    BY <1>5 DEF AwaitServer, Observe, VerifyServer, CallDelete, cluster
  <2>3. QED
    BY <1>1, <1>2, <2>1, <2>2, FailIsQuiet, AdvanceIsQuiet, QuietMove
<1>6. CASE ReadTarget(r)
  <2>1. labelled' = labelled /\ inflight' = inflight
    BY <1>6 DEF ReadTarget, cluster
  <2>2. CASE Fail(r) \/ Advance(r)
    BY <1>1, <1>2, <2>1, <2>2, FailIsQuiet, AdvanceIsQuiet, QuietMove
  <2>3. CASE inv' = [inv EXCEPT ![r].stage = "call"] /\ UNCHANGED outcome
    <3>1. /\ \A q \in Runs \ {r} : inv'[q] = inv[q] /\ outcome'[q] = outcome[q]
          /\ inv'[r].stage = "call" /\ outcome'[r] = "running"
      BY <1>1, <1>2, <2>3 DEF Invocation
    <3>2. QED
      BY <1>1, <2>1, <3>1, QuietMove DEF Verified
  <2>4. QED
    BY <1>6, <2>2, <2>3 DEF ReadTarget
<1>7. CASE Discover(r)
  <2>1. /\ labelled' = labelled /\ inflight' = inflight
        /\ \A q \in Runs \ {r} : inv'[q] = inv[q] /\ outcome'[q] = outcome[q]
        /\ \/ inv'[r].stage = "delete" /\ outcome'[r] = "running"
           \/ inv'[r].stage = "idle" /\ outcome'[r] \in {"dirty", "rebuilt"}
    BY <1>1, <1>2, <1>7 DEF Discover, End, Idle, cluster, Invocation
  <2>2. QED
    BY <1>1, <2>1, QuietMove DEF Verified
<1>8. CASE AllTargetsDone(r)
  <2>1. /\ labelled' = labelled /\ inflight' = inflight
        /\ \A q \in Runs \ {r} : inv'[q] = inv[q] /\ outcome'[q] = outcome[q]
        /\ \/ inv'[r].stage = "residue" /\ outcome'[r] = "running"
           \/ inv'[r].stage = "idle" /\ outcome'[r] = "validated"
    BY <1>1, <1>2, <1>8 DEF AllTargetsDone, End, Idle, cluster, Invocation
  <2>2. QED
    BY <1>1, <2>1, QuietMove DEF Verified
<1>9. CASE VerifyResidue(r)
  <2>1. labelled' = labelled /\ inflight' = {o \in inflight : o.run # r}
    BY <1>9 DEF VerifyResidue
  <2>2. CASE Residue(r) # {}
    <3>1. Fail(r)
      BY <1>9, <2>2 DEF VerifyResidue
    <3>2. QED
      BY <1>1, <1>2, <2>1, <3>1, FailIsQuiet, QuietMove
  <2>3. CASE Residue(r) = {}
    <3>1. \A role \in Roles : Own(r, role) \notin labelled' \cup inflight'
      BY <2>1, <2>3 DEF Residue, Own
    <3>2. /\ inv' = [inv EXCEPT ![r].stage = "unlink"]
          /\ outcome' = outcome
      BY <1>9, <2>3 DEF VerifyResidue
    <3>3. \A q \in Runs \ {r} : inv'[q] = inv[q]
      BY <1>1, <3>2
    <3>4. QED
      BY <1>1, <1>2, <2>1, <3>1, <3>2, <3>3 DEF Settled, Verified, Own
  <2>4. QED
    BY <2>2, <2>3
<1>10. CASE UnlinkLedger(r)
  <2>1. /\ labelled' = labelled /\ inflight' = inflight
        /\ \A q \in Runs \ {r} : inv'[q] = inv[q] /\ outcome'[q] = outcome[q]
        /\ inv'[r].stage = "idle" /\ inv[r].stage = "unlink"
    BY <1>1, <1>10 DEF UnlinkLedger, End, Idle, cluster
  <2>2. QED
    BY <1>1, <2>1, QuietMove DEF Verified
<1>11. QED
  BY <1>3, <1>4, <1>5, <1>6, <1>7, <1>8, <1>9, <1>10 DEF Controller

LEMMA OperatorSettled ==
    ASSUME IInv, IInv', Settled, NEW r \in Runs, Operator(r)
    PROVE  Settled'
<1>1. /\ inv' \in [Runs -> Invocation] /\ outcome' \in [Runs -> Outcomes]
      /\ inv \in [Runs -> Invocation] /\ outcome \in [Runs -> Outcomes]
  BY DEF IInv, TypeOK
<1>2. /\ labelled' = labelled /\ inflight' = inflight
      /\ \A q \in Runs \ {r} : inv'[q] = inv[q] /\ outcome'[q] = outcome[q]
      /\ outcome'[r] = "running" /\ inv'[r].stage # "unlink"
  <2>1. CASE StartRun(r)
    BY <1>1, <2>1 DEF StartRun, Idle, cluster
  <2>2. ASSUME NEW mode \in {"check", "apply"}, NEW objs, Begin(r, mode, objs)
        PROVE  /\ labelled' = labelled /\ inflight' = inflight
               /\ \A q \in Runs \ {r} : inv'[q] = inv[q] /\ outcome'[q] = outcome[q]
               /\ outcome'[r] = "running" /\ inv'[r].stage # "unlink"
    BY <1>1, <2>2 DEF Begin, Idle, cluster
  <2>3. QED
    BY <2>1, <2>2 DEF Operator, RecoveryCheck, LedgerCheck, ApplyCleanup
<1>3. QED
  BY <1>1, <1>2, QuietMove DEF Verified

LEMMA FailureSettled ==
    ASSUME IInv, IInv', Settled, NEW r \in Runs, Failure(r)
    PROVE  Settled'
<1>1. /\ inv' \in [Runs -> Invocation] /\ outcome' \in [Runs -> Outcomes]
      /\ inv \in [Runs -> Invocation] /\ outcome \in [Runs -> Outcomes]
  BY DEF IInv, TypeOK
<1>2. CASE CreateLate(r)
  <2>1. /\ inv[r].stage # "idle" /\ Fail(r) /\ labelled' = labelled
        /\ inflight' = inflight \cup {Own(r, Task(r).role)}
    BY <1>2 DEF CreateLate, At
  <2>2. \A q \in Runs \ {r} : \A role \in Roles :
            Own(q, role) \in inflight' => Own(q, role) \in inflight
    BY <2>1 DEF Own
  <2>3. QED
    BY <2>1, <2>2, FailIsQuiet DEF Settled, Verified, Own
<1>3. CASE TaskError(r)
  <2>1. inv[r].stage # "idle" /\ Fail(r) /\ labelled' = labelled /\ inflight' = inflight
    BY <1>3 DEF TaskError, cluster
  <2>2. QED
    BY <1>1, <2>1, FailIsQuiet, QuietMove
<1>4. CASE Crash(r)
  <2>1. /\ labelled' = labelled /\ inflight' = inflight
        /\ \A q \in Runs \ {r} : inv'[q] = inv[q] /\ outcome'[q] = outcome[q]
        /\ inv'[r].stage = "idle" /\ outcome'[r] = "crashed"
    BY <1>1, <1>4 DEF Crash, End, Idle, cluster
  <2>2. QED
    BY <1>1, <2>1, QuietMove DEF Verified
<1>5. QED
  BY <1>2, <1>3, <1>4 DEF Failure

(* A request that lands was under way, and what a foreign writer makes is  *)
(* not what a run created.                                                 *)
LEMMA ClusterSettled ==
    ASSUME IInv, Settled,
           \/ \E r \in Runs : Dataplane(r)
           \/ \E o \in inflight : Land(o)
           \/ Foreign
    PROVE  Settled'
<1>1. inv' = inv /\ outcome' = outcome
  BY DEF Dataplane, ClientTerminates, SyncDataplane, ServerStarts, ServerRestarts, ServerFlaps,
     Land, Foreign, ForeignDelete, ForeignReplace, ForeignUnlabel, Meddle
<1>2. \A r \in Runs : \A role \in Roles :
        Own(r, role) \in labelled' \cup inflight' => Own(r, role) \in labelled \cup inflight
  <2>1. CASE \E r \in Runs : Dataplane(r)
    BY <2>1 DEF Dataplane, ClientTerminates, SyncDataplane, ServerStarts, ServerRestarts,
       ServerFlaps, cluster
  <2>2. CASE \E o \in inflight : Land(o)
    BY <2>2 DEF Land
  <2>3. CASE Foreign
    <3>1. PICK o \in live : ForeignDelete(o) \/ ForeignReplace(o) \/ ForeignUnlabel(o)
      BY <2>3 DEF Foreign
    <3>2. o \in Object
      BY DEF IInv, TypeOK
    <3>3. \A r \in Runs : \A role \in Roles : Own(r, role) # [o EXCEPT !.uid = 2]
      BY <3>2 DEF Own, Object
    <3>4. QED
      BY <3>1, <3>3 DEF ForeignDelete, ForeignReplace, ForeignUnlabel, Meddle
  <2>4. QED
    BY <2>1, <2>2, <2>3
<1>3. QED
  BY <1>1, <1>2 DEF Settled, Verified

(* A run that reports success, a run that reports failure and a cleanup    *)
(* that reports success have all left nothing of the run behind.           *)
THEOREM VerifiedCleanupHolds == Spec => []VerifiedCleanup
<1>1. Init => Settled
  BY DEF Init, Settled, Verified, Idle
<1>2. IInv /\ IInv' /\ Settled /\ [Next]_vars => Settled'
  <2>1. CASE UNCHANGED vars
    BY <2>1 DEF Settled, Verified, vars
  <2>2. QED
    BY <2>1, ControllerSettled, OperatorSettled, FailureSettled, ClusterSettled DEF Next
<1>3. Settled => VerifiedCleanup
  BY DEF Settled, Verified, VerifiedCleanup
<1>4. QED
  BY <1>1, <1>2, <1>3, InitInv, NextInv, PTL DEF Spec

=============================================================================
