--------------------------- MODULE ProbeLedgerProofs ---------------------------
(***************************************************************************)
(* More proofs about NetworkPolicyProbe: that an accepted run is evidence  *)
(* of enforcement (EvidenceSound), for any set of runs and any bounds; and *)
(* what the ledger file keeps (LedgerKept, AtMostOneUnlisted), for any     *)
(* bounds and as long as one run ID is in use.                             *)
(***************************************************************************)
EXTENDS NetworkPolicyProbeProofs

(* Where the tasks of the script are.                                      *)
Creations == {1, 2, 4, 5, 6, 8, 10, 11, 13, 16, 17, 19, 24, 26}
LEMMA ScriptPlaces ==
    ASSUME NEW i \in 1 .. Len(Script)
    PROVE  /\ i \in 1 .. 27
           /\ Script[i].op = "create" <=> i \in Creations
           /\ Script[i].op = "await" <=> i = 3
           /\ Script[i].op = "verify" <=> i \in {15, 21}
           /\ Script[i].op = "delete" <=> i \in {22, 23}
           /\ Script[i].op = "probe" <=> i \in {7, 9, 12, 14, 18, 20, 25, 27}
           /\ i = 12 => Script[i].expect = "Failed"
           /\ i > 5 /\ Script[i].op = "create" =>
                 Script[i].role \notin {"server", "service", "endpoints"}
<1>1. i \in 1 .. 27
  BY ScriptLength
<1>2. QED
  BY <1>1 DEF Script, Make, Probe, Await, Control, Remove, Creations

LEMMA InitSettled == ASSUME Init PROVE Settled
  BY DEF Init, Settled, Verified, Idle

LEMMA NextSettled == ASSUME IInv, IInv', Settled, [Next]_vars PROVE Settled'
<1>1. CASE UNCHANGED vars
  BY <1>1 DEF Settled, Verified, vars
<1>2. QED
  BY <1>1, ControllerSettled, OperatorSettled, FailureSettled, ClusterSettled DEF Next

---------------------------------------------------------------------------
(* What a step leaves alone.                                               *)

(* Of an invocation that does not act: its state, its dataplane, and no    *)
(* creation of its run is under way that was not before.                   *)
Untouched(r) ==
    /\ inv'[r] = inv[r] /\ outcome'[r] = outcome[r] /\ net'[r] = net[r]
    /\ \A o \in inflight' : o.run = r => o \in inflight
    /\ \A role \in Roles : Own(r, role) \in live' => Own(r, role) \in live \cup inflight

Acts(r) == Controller(r) \/ Operator(r) \/ Failure(r) \/ Dataplane(r)

LEMMA CniStays == ASSUME [Next]_vars PROVE cni' = cni
<1>1. ASSUME NEW r \in Runs, Controller(r) PROVE cni' = cni
  BY <1>1 DEF Controller, Create, Register, AwaitServer, Observe, VerifyServer,
     RemovePolicy, FinishBlock, ReadTarget, CallDelete, Discover, NextTarget,
     AllTargetsDone, VerifyResidue, UnlinkLedger, environment
<1>2. ASSUME NEW r \in Runs, Operator(r) \/ Failure(r) \/ Dataplane(r) PROVE cni' = cni
  BY <1>2 DEF Operator, StartRun, RecoveryCheck, LedgerCheck, ApplyCleanup, Begin,
     Failure, CreateLate, TaskError, Crash, Dataplane, ClientTerminates, SyncDataplane,
     ServerStarts, ServerRestarts, ServerFlaps, environment
<1>3. CASE (\E o \in inflight : Land(o)) \/ Foreign \/ UNCHANGED vars
  BY <1>3 DEF Land, Foreign, ForeignDelete, ForeignReplace, ForeignUnlabel, Meddle,
     environment, vars
<1>4. QED
  BY <1>1, <1>2, <1>3 DEF Next

LEMMA WorldLeaves ==
    ASSUME IInv, NEW r \in Runs,
           (\E o \in inflight : Land(o)) \/ Foreign \/ UNCHANGED vars
    PROVE  Untouched(r)
<1>1. CASE \E o \in inflight : Land(o)
  BY <1>1 DEF Land, Untouched, environment
<1>2. CASE Foreign
  <2>1. PICK o \in live : ForeignDelete(o) \/ ForeignReplace(o) \/ ForeignUnlabel(o)
    BY <1>2 DEF Foreign
  <2>2. o \in Object
    BY DEF IInv, TypeOK
  <2>3. \A role \in Roles : Own(r, role) # [o EXCEPT !.uid = 2]
    BY <2>2 DEF Own, Object
  <2>4. QED
    BY <2>1, <2>3 DEF ForeignDelete, ForeignReplace, ForeignUnlabel, Meddle, Untouched
<1>3. CASE UNCHANGED vars
  BY <1>3 DEF vars, Untouched
<1>4. QED
  BY <1>1, <1>2, <1>3

LEMMA FailElsewhere ==
    ASSUME IInv, NEW q \in Runs, NEW r \in Runs \ {q}, Fail(q) \/ Advance(q)
    PROVE  inv'[r] = inv[r] /\ outcome'[r] = outcome[r]
  BY DEF IInv, TypeOK, Fail, End, Advance

LEMMA OthersLeave ==
    ASSUME IInv, NEW q \in Runs, NEW r \in Runs \ {q}, Acts(q)
    PROVE  Untouched(r)
<1>0. /\ inv \in [Runs -> Invocation] /\ outcome \in [Runs -> Outcomes]
      /\ net \in [Runs -> Dataflow]
      /\ \A role : Own(q, role).run = q
      /\ \A role, other : Own(q, role) # Own(r, other)
  BY DEF IInv, TypeOK, Own
<1>1. CASE Create(q)
  BY <1>0, <1>1 DEF Create, Untouched
<1>2. CASE CreateLate(q)
  <2>1. inv'[r] = inv[r] /\ outcome'[r] = outcome[r]
    BY <1>2, FailElsewhere DEF CreateLate
  <2>2. QED
    BY <1>0, <1>2, <2>1 DEF CreateLate, Untouched
<1>3. CASE AwaitServer(q) \/ Observe(q) \/ VerifyServer(q) \/ TaskError(q)
  <2>1. inv'[r] = inv[r] /\ outcome'[r] = outcome[r]
    BY <1>3, FailElsewhere DEF AwaitServer, Observe, VerifyServer, TaskError
  <2>2. QED
    BY <1>3, <2>1 DEF AwaitServer, Observe, VerifyServer, TaskError, Untouched, cluster,
       environment
<1>4. CASE ReadTarget(q) \/ CallDelete(q) \/ VerifyResidue(q)
  <2>1. inv'[r] = inv[r] /\ outcome'[r] = outcome[r]
    BY <1>0, <1>4, FailElsewhere DEF ReadTarget, CallDelete, VerifyResidue
  <2>2. QED
    BY <1>4, <2>1 DEF ReadTarget, CallDelete, VerifyResidue, Untouched, cluster,
       environment
<1>5. CASE \/ Register(q) \/ RemovePolicy(q) \/ FinishBlock(q) \/ NextTarget(q)
  BY <1>0, <1>5 DEF Register, RemovePolicy, FinishBlock, NextTarget, Untouched, cluster,
     environment
<1>6. CASE \/ Discover(q) \/ AllTargetsDone(q) \/ UnlinkLedger(q) \/ Crash(q)
  BY <1>0, <1>6 DEF Discover, AllTargetsDone, UnlinkLedger, Crash, End, Untouched, cluster,
     environment
<1>7. CASE Operator(q)
  BY <1>0, <1>7 DEF Operator, StartRun, RecoveryCheck, LedgerCheck, ApplyCleanup, Begin,
     Untouched, cluster, environment
<1>8. CASE Dataplane(q)
  BY <1>0, <1>8 DEF Dataplane, ClientTerminates, SyncDataplane, ServerStarts,
     ServerRestarts, ServerFlaps, Untouched, cluster
<1>9. QED
  BY <1>1, <1>2, <1>3, <1>4, <1>5, <1>6, <1>7, <1>8 DEF Acts, Controller, Failure

---------------------------------------------------------------------------
(* Evidence.                                                               *)

(* What makes clients fail whatever the policies are, and is seen by every *)
(* later control of the server.                                            *)
Broken(r) ==
    \/ net[r].server \in {"down", "restarted"}
    \/ \E role \in {"server", "service", "endpoints"} : Own(r, role) \notin live

(* A run under a CNI that ignores policies: the first denied client fails  *)
(* only if something is broken, and then the control finds it.             *)
Misled(r) ==
    /\ inv[r].step = 11 /\ inv[r].stage = "register" => net[r].reply = "none"
    /\ inv[r].step = 12 /\ net[r].reply = "refused" => Broken(r)
    /\ inv[r].step > 12 => Broken(r) /\ inv[r].step <= 15

None(r) == \A o \in inflight : o.run # r
Probing(r) ==
    /\ net[r].server # "unready"
    /\ outcome[r] = "new" => None(r)
    /\ InBlock(r) => None(r) /\ (inv[r].step > 3 => net[r].server # "starting")
    /\ cni = "ignoring" =>
          /\ net[r].enforced = {}
          /\ ~inv[r].passed /\ outcome[r] # "accepted"
          /\ InBlock(r) => Misled(r)

LEMMA UntouchedProbing ==
    ASSUME NEW r \in Runs, Probing(r), Untouched(r), cni' = cni
    PROVE  Probing(r)'
<1>1. None(r) => None(r)'
  BY DEF None, Untouched
<1>2. ASSUME InBlock(r), Broken(r) PROVE Broken(r)'
  <2>1. \A role \in Roles : Own(r, role) \in live' => Own(r, role) \in live
    BY <1>2 DEF Untouched, Probing, None, Own
  <2>2. {"server", "service", "endpoints"} \subseteq Roles
    BY DEF Roles
  <2>3. QED
    BY <1>2, <2>1, <2>2 DEF Broken, Untouched
<1>3. InBlock(r)' = InBlock(r)
  BY DEF InBlock, Untouched
<1>4. InBlock(r) /\ Misled(r) => Misled(r)'
  BY <1>2 DEF Misled, Untouched
<1>5. QED
  BY <1>1, <1>3, <1>4 DEF Probing, Untouched

(* A run that is not in its block any more has nothing to keep but this.   *)
LEMMA LeavesBlock ==
    ASSUME NEW r \in Runs, Probing(r), cni' = cni, net'[r] = net[r],
           ~InBlock(r)', outcome'[r] # "new",
           cni = "ignoring" => ~inv'[r].passed /\ outcome'[r] # "accepted"
    PROVE  Probing(r)'
  BY DEF Probing

LEMMA FailLeaves ==
    ASSUME IInv, Settled, NEW r \in Runs, inv[r].stage # "idle", Fail(r),
           Probing(r), cni' = cni, net'[r] = net[r]
    PROVE  Probing(r)'
<1>1. outcome[r] = "running" /\ inv[r] \in Invocation
  BY DEF Settled, IInv, TypeOK
<1>2. /\ ~InBlock(r)' /\ outcome'[r] # "new"
      /\ cni = "ignoring" => ~inv'[r].passed /\ outcome'[r] # "accepted"
  BY <1>1 DEF Fail, End, Idle, IInv, TypeOK, Invocation, InBlock, Probing
<1>3. QED
  BY <1>2, LeavesBlock

(* The task of the block after this one.                                   *)
LEMMA AdvanceProbing ==
    ASSUME IInv, Settled, NEW r \in Runs, Advance(r), inv[r].stage # "idle",
           Probing(r), cni' = cni, net' = net, live' \subseteq live, inflight' = inflight,
           inv[r].cleaning \/ AtTask(inv[r], "await") \/ AtTask(inv[r], "probe")
             \/ AtTask(inv[r], "verify") \/ AtTask(inv[r], "delete"),
           AtTask(inv[r], "await") /\ InBlock(r) => net[r].server # "starting",
           AtTask(inv[r], "probe") /\ InBlock(r) /\ inv[r].step = 12 =>
              net[r].reply = "refused",
           AtTask(inv[r], "verify") /\ InBlock(r) => ~Broken(r)
    PROVE  Probing(r)'
<1>1. outcome[r] = "running" /\ inv[r] \in Invocation /\ Held(r, inv[r])
  BY DEF Settled, IInv, TypeOK, Custody
<1>2. /\ outcome' = outcome
      /\ inv'[r] = [inv[r] EXCEPT !.stage = IF inv[r].cleaning THEN "delete" ELSE "block",
                                  !.step = IF inv[r].cleaning THEN @ ELSE @ + 1,
                                  !.target = NoObject]
  BY DEF Advance, IInv, TypeOK
<1>3. CASE ~InBlock(r)
  BY <1>1, <1>2, <1>3, LeavesBlock DEF InBlock, Invocation, Probing
<1>4. CASE InBlock(r)
  <2>1. /\ inv'[r].step = inv[r].step + 1 /\ inv'[r].stage = "block"
        /\ inv'[r].passed = inv[r].passed /\ InBlock(r)'
    BY <1>1, <1>2, <1>4 DEF InBlock, Invocation
  <2>2. inv[r].step \in 1 .. Len(Script) /\ inv[r].step \in {3, 7, 9, 12, 14, 15, 18, 20, 21,
                                                             22, 23, 25, 27}
    BY <1>4, ScriptPlaces DEF InBlock, AtTask
  <2>3. Broken(r) => Broken(r)'
    BY DEF Broken
  <2>4. inv[r].step = 3 => AtTask(inv[r], "await")
    BY <2>2, ScriptPlaces DEF AtTask
  <2>5. None(r)' /\ net'[r].server # "unready" /\ net'[r].server # "starting"
    BY <1>4, <2>2, <2>4 DEF Probing, None
  <2>6. ASSUME cni = "ignoring" PROVE Misled(r)'
    <3>1. Misled(r)
      BY <1>4, <2>6 DEF Probing
    <3>2. CASE inv[r].step = 12
      <4>1. AtTask(inv[r], "probe")
        BY <2>2, <3>2, ScriptPlaces DEF AtTask
      <4>2. Broken(r)
        BY <1>4, <3>1, <3>2, <4>1 DEF Misled
      <4>3. QED
        BY <2>1, <2>3, <3>2, <4>2 DEF Misled
    <3>3. CASE inv[r].step = 15
      <4>1. AtTask(inv[r], "verify")
        BY <2>2, <3>3, ScriptPlaces DEF AtTask
      <4>2. QED
        BY <1>4, <3>1, <3>3, <4>1 DEF Misled
    <3>4. CASE inv[r].step \notin {12, 15}
      BY <2>1, <2>2, <2>3, <3>1, <3>4 DEF Misled
    <3>5. QED
      BY <3>2, <3>3, <3>4
  <2>7. QED
    BY <1>1, <1>2, <2>1, <2>5, <2>6 DEF Probing
<1>5. QED
  BY <1>3, <1>4

LEMMA TaskProbing ==
    ASSUME IInv, Settled, NEW r \in Runs, Probing(r), cni' = cni,
           AwaitServer(r) \/ Observe(r) \/ VerifyServer(r)
    PROVE  Probing(r)'
<1>1. /\ net' = net /\ live' = live /\ inflight' = inflight /\ inv[r].stage = "block"
  BY DEF AwaitServer, Observe, VerifyServer, At, cluster, environment
<1>2. CASE Fail(r)
  BY <1>1, <1>2, FailLeaves
<1>3. CASE ~Fail(r)
  <2>1. Advance(r)
    BY <1>3 DEF AwaitServer, Observe, VerifyServer
  <2>2. AtTask(inv[r], "await") \/ AtTask(inv[r], "probe") \/ AtTask(inv[r], "verify")
    BY DEF AwaitServer, Observe, VerifyServer, At
  <2>3. AtTask(inv[r], "await") => net[r].server # "starting"
    BY <1>3 DEF AwaitServer, Observe, VerifyServer, At, AtTask, ServerUp
  <2>4. AtTask(inv[r], "probe") /\ inv[r].step = 12 => net[r].reply = "refused"
    BY <1>3, ScriptPlaces
    DEF AwaitServer, Observe, VerifyServer, At, AtTask, Task, Evidence
  <2>5. AtTask(inv[r], "verify") => ~Broken(r)
    BY <1>3 DEF AwaitServer, Observe, VerifyServer, At, AtTask, ControlHolds, Broken
  <2>6. QED
    BY <1>1, <2>1, <2>2, <2>3, <2>4, <2>5, AdvanceProbing
<1>4. QED
  BY <1>2, <1>3

LEMMA CreateProbing ==
    ASSUME IInv, Settled, NEW r \in Runs, Probing(r), cni' = cni,
           Create(r) \/ Register(r)
    PROVE  Probing(r)'
<1>1. /\ outcome[r] = "running" /\ inv[r] \in Invocation /\ Held(r, inv[r])
      /\ inv \in [Runs -> Invocation] /\ net \in [Runs -> Dataflow] /\ net[r] \in Dataflow
  BY DEF Settled, IInv, TypeOK, Custody, Create, Register, At
<1>2. /\ InBlock(r) /\ AtTask(inv[r], "create")
  BY <1>1 DEF Create, Register, At, Held, InBlock
<1>3. inv[r].step \in Creations /\ inv[r].step \in 1 .. Len(Script)
  BY <1>2, ScriptPlaces DEF AtTask
<1>4. None(r)'
  BY <1>2 DEF Create, Register, cluster, Probing, None
<1>5. CASE Create(r)
  <2>1. /\ inv'[r].step = inv[r].step /\ inv'[r].stage = "register"
        /\ inv'[r].passed = inv[r].passed /\ InBlock(r)' /\ outcome' = outcome
        /\ net'[r].server = net[r].server /\ net'[r].enforced = net[r].enforced
        /\ net'[r].reply = "none"
    BY <1>1, <1>2, <1>5 DEF Create, InBlock, Invocation, Dataflow
  <2>2. inv[r].step > 12 /\ Broken(r) => Broken(r)'
    <3>1. SUFFICES ASSUME inv[r].step > 12, Broken(r) PROVE Broken(r)'
      OBVIOUS
    <3>2. Task(r).role \notin {"server", "service", "endpoints"}
      BY <1>2, <1>3, <3>1, ScriptPlaces DEF AtTask, Task
    <3>3. live' = live \cup {Own(r, Task(r).role)}
      BY <1>5 DEF Create
    <3>4. QED
      BY <2>1, <3>1, <3>2, <3>3 DEF Broken, Own
  <2>3. Misled(r) => Misled(r)'
    BY <1>3, <2>1, <2>2 DEF Misled, Creations
  <2>4. QED
    BY <1>2, <1>4, <2>1, <2>3 DEF Probing
<1>6. CASE Register(r)
  <2>1. /\ inv'[r].step = inv[r].step + 1 /\ inv'[r].stage = "block"
        /\ inv'[r].passed = inv[r].passed /\ InBlock(r)' /\ outcome' = outcome
        /\ net' = net /\ live' = live /\ inv[r].stage = "register"
    BY <1>1, <1>2, <1>6 DEF Register, InBlock, Invocation, cluster, environment
  <2>2. Misled(r) => Misled(r)'
    BY <1>3, <2>1 DEF Misled, Creations, Broken
  <2>3. inv[r].step + 1 > 3 => inv[r].step > 3
    BY <1>3 DEF Creations
  <2>4. QED
    BY <1>2, <1>4, <2>1, <2>2, <2>3 DEF Probing
<1>7. QED
  BY <1>5, <1>6

LEMMA DeletionProbing ==
    ASSUME IInv, Settled, NEW r \in Runs, Probing(r), cni' = cni,
           RemovePolicy(r) \/ ReadTarget(r) \/ CallDelete(r)
    PROVE  Probing(r)'
<1>1. /\ inv[r].stage # "idle" /\ inv[r] \in Invocation /\ Held(r, inv[r])
      /\ inv \in [Runs -> Invocation]
  BY DEF IInv, TypeOK, Custody, RemovePolicy, ReadTarget, CallDelete, At
<1>2. net' = net /\ live' \subseteq live /\ inflight' = inflight
  BY DEF RemovePolicy, ReadTarget, CallDelete, cluster, environment
<1>3. inv[r].cleaning \/ AtTask(inv[r], "delete")
  BY <1>1 DEF RemovePolicy, ReadTarget, CallDelete, At, Held
<1>4. CASE Fail(r)
  BY <1>1, <1>2, <1>4, FailLeaves
<1>5. CASE Advance(r)
  <2>1. ~inv[r].cleaning => inv[r].step \in {22, 23}
    BY <1>3, ScriptPlaces DEF AtTask
  <2>2. ~inv[r].cleaning => ~AtTask(inv[r], "await") /\ ~AtTask(inv[r], "verify")
                            /\ ~AtTask(inv[r], "probe")
    BY <1>3 DEF AtTask
  <2>3. QED
    BY <1>1, <1>2, <1>3, <1>5, <2>2, AdvanceProbing DEF InBlock
<1>6. CASE ~Fail(r) /\ ~Advance(r)
  <2>1. /\ inv'[r].step = inv[r].step /\ inv'[r].stage \in {"read", "call"}
        /\ inv'[r].passed = inv[r].passed /\ InBlock(r)' = InBlock(r) /\ outcome' = outcome
    BY <1>1, <1>6 DEF RemovePolicy, ReadTarget, CallDelete, InBlock, Invocation
  <2>2. Broken(r) => Broken(r)'
    BY <1>2 DEF Broken
  <2>3. Misled(r) => Misled(r)'
    BY <1>2, <2>1, <2>2 DEF Misled
  <2>4. QED
    BY <1>2, <2>1, <2>3 DEF Probing, None
<1>7. QED
  BY <1>4, <1>5, <1>6

LEMMA CleanupProbing ==
    ASSUME IInv, Settled, NEW r \in Runs, Probing(r), cni' = cni,
           \/ FinishBlock(r) \/ Discover(r) \/ NextTarget(r) \/ AllTargetsDone(r)
           \/ VerifyResidue(r) \/ UnlinkLedger(r)
    PROVE  Probing(r)'
<1>1. /\ outcome[r] = "running" /\ inv[r] \in Invocation /\ Held(r, inv[r])
      /\ inv \in [Runs -> Invocation] /\ outcome \in [Runs -> Outcomes]
      /\ inv[r].stage # "idle"
  BY DEF Settled, IInv, TypeOK, Custody, FinishBlock, Discover, NextTarget, AllTargetsDone,
         VerifyResidue, UnlinkLedger
<1>2. net' = net
  BY DEF FinishBlock, Discover, NextTarget, AllTargetsDone, VerifyResidue, UnlinkLedger,
         environment
<1>3. CASE Fail(r)
  BY <1>1, <1>2, <1>3, FailLeaves
<1>4. ASSUME NEW result \in Outcomes \ {"new", "accepted"}, End(r, result)
      PROVE  Probing(r)'
  <2>1. inv'[r] = Idle /\ outcome'[r] = result
    BY <1>1, <1>4 DEF End
  <2>2. QED
    BY <1>2, <1>4, <2>1, LeavesBlock DEF Idle, InBlock
<1>5. CASE FinishBlock(r)
  <2>1. InBlock(r) /\ inv[r].step = 28
    BY <1>1, <1>5, ScriptLength DEF FinishBlock, Held, InBlock
  <2>2. cni # "ignoring"
    BY <2>1 DEF Probing, Misled
  <2>3. ~InBlock(r)' /\ outcome' = outcome
    BY <1>1, <1>5 DEF FinishBlock, InBlock, Invocation
  <2>4. QED
    BY <1>1, <1>2, <2>2, <2>3, LeavesBlock
<1>6. CASE /\ Discover(r) \/ NextTarget(r) \/ AllTargetsDone(r) \/ VerifyResidue(r)
           /\ outcome' = outcome /\ ~Fail(r)
  <2>1. inv[r].cleaning
    BY <1>1, <1>6 DEF Discover, NextTarget, AllTargetsDone, VerifyResidue, Held
  <2>2. inv'[r].cleaning /\ inv'[r].passed = inv[r].passed
    <3>1. CASE Discover(r)
      BY <1>1, <1>6, <2>1, <3>1 DEF Discover, End, Invocation
    <3>2. CASE NextTarget(r)
      <4>1. PICK o \in inv[r].pending :
              inv' = [inv EXCEPT ![r].stage = "read", ![r].target = o,
                                 ![r].pending = @ \ {o}]
        BY <3>2 DEF NextTarget
      <4>2. QED
        BY <1>1, <2>1, <4>1 DEF Invocation
    <3>3. CASE AllTargetsDone(r)
      BY <1>1, <1>6, <2>1, <3>3 DEF AllTargetsDone, End, Invocation
    <3>4. CASE VerifyResidue(r)
      BY <1>1, <1>6, <2>1, <3>4 DEF VerifyResidue, Invocation
    <3>5. QED
      BY <1>6, <3>1, <3>2, <3>3, <3>4
  <2>3. QED
    BY <1>1, <1>2, <1>6, <2>2, LeavesBlock DEF InBlock, Probing
<1>7. CASE UnlinkLedger(r)
  <2>1. inv'[r] = Idle /\ outcome'[r] = Verdict(r)
    BY <1>1, <1>7 DEF UnlinkLedger, End
  <2>2. cni = "ignoring" => outcome'[r] # "accepted"
    BY <2>1 DEF Verdict, Probing
  <2>3. outcome'[r] # "new"
    BY <2>1 DEF Verdict
  <2>4. QED
    BY <1>2, <2>1, <2>2, <2>3, LeavesBlock DEF Idle, InBlock
<1>8. CASE outcome' # outcome /\ (Discover(r) \/ AllTargetsDone(r)) /\ ~Fail(r)
  BY <1>4, <1>8 DEF Discover, AllTargetsDone, Outcomes
<1>9. QED
  BY <1>3, <1>5, <1>6, <1>7, <1>8 DEF NextTarget, VerifyResidue

LEMMA StartProbing ==
    ASSUME IInv, Settled, NEW r \in Runs, Probing(r), cni' = cni, Operator(r)
    PROVE  Probing(r)'
<1>1. inv \in [Runs -> Invocation] /\ outcome \in [Runs -> Outcomes]
  BY DEF IInv, TypeOK
<1>2. CASE StartRun(r)
  <2>1. /\ inv'[r].step = 1 /\ ~inv'[r].passed /\ outcome'[r] = "running"
        /\ net' = net /\ inflight' = inflight
    BY <1>1, <1>2 DEF StartRun, Idle, cluster, environment
  <2>2. None(r)'
    BY <1>2, <2>1 DEF StartRun, Probing, None
  <2>3. Misled(r)'
    BY <2>1 DEF Misled
  <2>4. QED
    BY <2>1, <2>2, <2>3 DEF Probing
<1>3. ASSUME NEW mode \in {"check", "apply"}, NEW objs, Begin(r, mode, objs)
      PROVE  Probing(r)'
  <2>1. /\ ~InBlock(r)' /\ ~inv'[r].passed /\ outcome'[r] = "running" /\ net' = net
    BY <1>1, <1>3 DEF Begin, Idle, InBlock, environment
  <2>2. QED
    BY <2>1, LeavesBlock
<1>4. QED
  BY <1>2, <1>3 DEF Operator, RecoveryCheck, LedgerCheck, ApplyCleanup

LEMMA FailureProbing ==
    ASSUME IInv, Settled, NEW r \in Runs, Probing(r), cni' = cni, Failure(r)
    PROVE  Probing(r)'
<1>1. CASE Fail(r)
  <2>1. inv[r].stage # "idle" /\ net' = net
    BY DEF Failure, CreateLate, TaskError, Crash, At
  <2>2. QED
    BY <1>1, <2>1, FailLeaves
<1>2. CASE Crash(r)
  <2>1. inv'[r] = Idle /\ outcome'[r] = "crashed" /\ net' = net
    BY <1>2 DEF Crash, End, IInv, TypeOK
  <2>2. QED
    BY <2>1, LeavesBlock DEF Idle, InBlock
<1>3. QED
  BY <1>1, <1>2 DEF Failure, CreateLate, TaskError

LEMMA DataplaneProbing ==
    ASSUME IInv, Settled, NEW r \in Runs, Probing(r), cni' = cni, Dataplane(r),
           "flap" \notin ServerFaults
    PROVE  Probing(r)'
<1>1. /\ net \in [Runs -> Dataflow] /\ net[r] \in Dataflow
      /\ UNCHANGED <<inv, outcome, live, inflight>>
  BY DEF IInv, TypeOK, Dataplane, ClientTerminates, SyncDataplane, ServerStarts,
         ServerRestarts, ServerFlaps, cluster
<1>2. /\ None(r)' = None(r) /\ InBlock(r)' = InBlock(r)
  BY <1>1 DEF None, InBlock
<1>3. CASE ClientTerminates(r)
  <2>1. PICK reply \in {IF Reaches(r, Task(r).role) THEN "connected" ELSE "refused", "evicted"} :
          net' = [net EXCEPT ![r].reply = reply]
    BY <1>3 DEF ClientTerminates
  <2>2. /\ net'[r].server = net[r].server /\ net'[r].enforced = net[r].enforced
        /\ net'[r].reply = reply
    BY <1>1, <2>1 DEF Dataflow
  <2>3. /\ inv[r].stage = "block" /\ AtTask(inv[r], "probe") /\ Held(r, inv[r])
    BY <1>3 DEF ClientTerminates, At, IInv, Custody
  <2>4. ASSUME cni = "ignoring", InBlock(r) PROVE Misled(r)'
    <3>1. ASSUME inv[r].step = 12, reply = "refused" PROVE Broken(r)
      <4>1. ~Reaches(r, Task(r).role)
        BY <2>1, <3>1
      <4>2. net[r].enforced = {} /\ net[r].server \notin {"starting", "unready"}
        BY <2>4, <3>1 DEF Probing
      <4>3. QED
        BY <1>1, <4>1, <4>2 DEF Reaches, ServerUp, Broken, Dataflow
    <3>2. Broken(r) => Broken(r)'
      BY <1>1, <2>2 DEF Broken
    <3>3. QED
      BY <1>1, <2>2, <2>3, <2>4, <3>1, <3>2 DEF Probing, Misled
  <2>5. QED
    BY <1>1, <1>2, <2>2, <2>4 DEF Probing
<1>4. CASE SyncDataplane(r)
  <2>1. PICK wanted : net' = [net EXCEPT ![r].enforced = wanted]
    BY <1>4 DEF SyncDataplane
  <2>2. net'[r].server = net[r].server /\ cni # "ignoring"
    BY <1>1, <1>4, <2>1 DEF SyncDataplane, Dataflow
  <2>3. QED
    BY <1>1, <1>2, <2>2 DEF Probing
<1>5. CASE ServerStarts(r) \/ ServerRestarts(r)
  <2>1. /\ net'[r].enforced = net[r].enforced /\ net'[r].reply = net[r].reply
        /\ net'[r].server \in {"ready", "restarted", "down"}
        /\ net[r].server \in {"down", "restarted"} => net'[r].server # "ready"
    BY <1>1, <1>5 DEF ServerStarts, ServerRestarts, ServerUp, Dataflow, Probing
  <2>2. Broken(r) => Broken(r)'
    BY <1>1, <2>1 DEF Broken
  <2>3. Misled(r) => Misled(r)'
    BY <1>1, <2>1, <2>2 DEF Misled
  <2>4. QED
    BY <1>1, <1>2, <2>1, <2>3 DEF Probing
<1>6. QED
  BY <1>3, <1>4, <1>5 DEF Dataplane, ServerFlaps

EvInv == IInv /\ Settled /\ \A r \in Runs : Probing(r)

(* Unless the server can stop answering without a restart, which no control*)
(* of it can tell, an accepted run is evidence that the CNI enforces       *)
(* policies: for any runs that overlap in any way, whoever else restarts,  *)
(* removes or replaces what, and however late requests take effect.        *)
THEOREM EvidenceSoundHolds ==
    ASSUME "flap" \notin ServerFaults PROVE Spec => []EvidenceSound
<1>1. Init => EvInv
  <2>1. SUFFICES ASSUME Init PROVE EvInv
    OBVIOUS
  <2>2. \A r \in Runs : Probing(r)
    BY <2>1 DEF Init, Idle, Probing, None, InBlock
  <2>3. QED
    BY <2>1, <2>2, InitInv, InitSettled DEF EvInv
<1>2. EvInv /\ [Next]_vars => EvInv'
  <2>1. SUFFICES ASSUME EvInv, [Next]_vars PROVE EvInv'
    OBVIOUS
  <2>2. IInv' /\ Settled'
    BY <2>1, NextInv, NextSettled DEF EvInv
  <2>3. ASSUME NEW r \in Runs PROVE Probing(r)'
    <3>1. cni' = cni /\ IInv /\ Settled /\ Probing(r)
      BY <2>1, CniStays DEF EvInv
    <3>2. CASE Acts(r)
      BY <3>1, <3>2, TaskProbing, CreateProbing, DeletionProbing, CleanupProbing,
         StartProbing, FailureProbing, DataplaneProbing DEF Acts, Controller
    <3>3. CASE ~Acts(r)
      <4>1. Untouched(r)
        BY <2>1, <3>1, <3>3, WorldLeaves, OthersLeave DEF Next, Acts
      <4>2. QED
        BY <3>1, <4>1, UntouchedProbing
    <3>4. QED
      BY <3>2, <3>3
  <2>4. QED
    BY <2>2, <2>3 DEF EvInv
<1>3. EvInv => EvidenceSound
  <2>1. SUFFICES ASSUME EvInv, NEW r \in Runs, outcome[r] = "accepted"
                 PROVE  cni = "enforcing"
    BY DEF EvidenceSound
  <2>2. cni \in {"enforcing", "ignoring"}
    BY <2>1, ProbeAssumption DEF EvInv, IInv, TypeOK, ProbeAssumption
  <2>3. QED
    BY <2>1, <2>2 DEF EvInv, Probing
<1>4. QED
  BY <1>1, <1>2, <1>3, PTL DEF Spec

---------------------------------------------------------------------------
(* The ledger of one run ID.                                               *)

(* One run ID is in use: with two of them a recovery check of the one      *)
(* overwrites the ledger of the other, and neither property holds.         *)
Solo == \A q, r \in Runs : q = r

(* What exists, or is about to, of the run's creations and is not listed.  *)
Unlisted == {o \in labelled \cup inflight : o.uid = 1 /\ o \notin ledger.objects}

Absent(r, role) ==
    \A o \in live \cup inflight \cup ledger.objects : o.run = r => o.role # role

(* Positions of the creations that are still to come.                      *)
Coming(v) == {i \in Creations : i >= v.step /\ (v.stage = "register" => i # v.step)}

(* Until the first invocation there is nothing.                            *)
Blank == \A r \in Runs : outcome[r] = "new" =>
    live = {} /\ inflight = {} /\ ledger.objects = {} /\ inv[r].stage = "idle"

(* While the script runs the file is what is in memory, nothing is under   *)
(* way, only what is being registered is not listed, and names that are    *)
(* still to be created are not in use.                                     *)
Listing(r) == InBlock(r) =>
    /\ inflight = {} /\ ledger.objects = inv[r].owned
    /\ \A o \in inv[r].owned : o.uid = 1
    /\ Unlisted \subseteq (IF inv[r].stage = "register" THEN {inv[r].target} ELSE {})
    /\ \A i \in Coming(inv[r]) : Absent(r, Script[i].role)

(* A name is created once: a replacement means that the original is gone.  *)
Twins == \A o \in live \cup ledger.objects :
    o.uid = 2 => [o EXCEPT !.uid = 1] \notin live \cup inflight
Pending == \A o \in inflight : o.uid = 1 /\ o \notin live \cup ledger.objects

Single == \A a, b \in Unlisted : a = b

(* When the file is about to be removed nothing is left for it to list.    *)
Clean == \A r \in Runs : inv[r].stage = "unlink" =>
    inflight = {} /\ ledger.objects \cap labelled = {} /\ \A o \in labelled : o.uid # 1

LInv == /\ IInv /\ Settled
        /\ Blank /\ Twins /\ Pending /\ Single /\ Clean /\ \A r \in Runs : Listing(r)

LEMMA CreationsDistinct ==
    ASSUME NEW i \in Creations, NEW j \in Creations, Script[i].role = Script[j].role
    PROVE  i = j
<1>1. /\ Script[1].role = "content" /\ Script[2].role = "server"
      /\ Script[4].role = "service" /\ Script[5].role = "endpoints"
      /\ Script[6].role = "baseline-allowed" /\ Script[8].role = "baseline-denied"
      /\ Script[10].role = "deny" /\ Script[11].role = "deny-allowed"
      /\ Script[13].role = "deny-denied" /\ Script[16].role = "allow"
      /\ Script[17].role = "selective-allowed" /\ Script[19].role = "selective-denied"
      /\ Script[24].role = "rollback-allowed" /\ Script[26].role = "rollback-denied"
  BY DEF Script, Make
<1>2. QED
  BY <1>1 DEF Creations

(* A step in which objects only go away and the file stays, if no          *)
(* invocation creates anything or passes its residue query.                *)
Calm(r) ==
    /\ outcome'[r] = "new" => outcome[r] = "new" /\ inv'[r].stage = "idle"
    /\ InBlock(r)' => \/ inv'[r] = inv[r]
                      \/ /\ InBlock(r) /\ inv'[r].owned = inv[r].owned
                         /\ inv[r].stage # "register" /\ inv'[r].stage # "register"
                         /\ inv'[r].step >= inv[r].step
    /\ inv'[r].stage = "unlink" =>
          inv[r].stage = "unlink" \/ (inflight' = {} /\ labelled' = {})

Shrinks == /\ live' \subseteq live /\ labelled' \subseteq labelled
           /\ inflight' \subseteq inflight /\ ledger' = ledger

LEMMA ShrinkListing ==
    ASSUME LInv, IInv', Settled', Shrinks, \A r \in Runs : Calm(r)
    PROVE  LInv'
<1>1. Unlisted' \subseteq Unlisted
  BY DEF Shrinks, Unlisted
<1>2. \A r, role : Absent(r, role) => Absent(r, role)'
  BY DEF Shrinks, Absent
<1>3. Blank' /\ Clean'
  BY DEF LInv, Blank, Clean, Shrinks, Calm
<1>4. Twins' /\ Pending'
  BY DEF LInv, Twins, Pending, Shrinks
<1>5. Single'
  BY <1>1 DEF LInv, Single
<1>6. ASSUME NEW r \in Runs, InBlock(r)' PROVE Listing(r)'
  <2>1. Listing(r) /\ Calm(r) /\ inv[r] \in Invocation /\ inv'[r] \in Invocation
    BY DEF LInv, IInv, TypeOK
  <2>2. /\ InBlock(r) /\ inv'[r].owned = inv[r].owned
        /\ \A i \in Coming(inv'[r]) : i \in Coming(inv[r])
        /\ \/ inv'[r] = inv[r]
           \/ inv[r].stage # "register" /\ inv'[r].stage # "register"
    <3>1. CASE inv'[r] = inv[r]
      BY <1>6, <3>1 DEF InBlock
    <3>2. CASE inv'[r] # inv[r]
      BY <1>6, <2>1, <3>2 DEF Calm, Coming, Creations, Invocation
    <3>3. QED
      BY <3>1, <3>2
  <2>3. Unlisted' \subseteq (IF inv'[r].stage = "register" THEN {inv'[r].target} ELSE {})
    BY <1>1, <2>1, <2>2 DEF Listing
  <2>4. \A i \in Coming(inv'[r]) : Absent(r, Script[i].role)'
    BY <1>2, <2>1, <2>2 DEF Listing
  <2>5. QED
    BY <2>1, <2>2, <2>3, <2>4 DEF Listing, Shrinks
<1>7. QED
  BY <1>3, <1>4, <1>5, <1>6 DEF LInv, Listing

LEMMA FailIsCalm ==
    ASSUME LInv, NEW r \in Runs, inv[r].stage # "idle", Fail(r)
    PROVE  Calm(r) /\ ~InBlock(r)' /\ outcome'[r] # "new" /\ inv'[r].stage # "unlink"
<1>1. inv[r] \in Invocation /\ inv \in [Runs -> Invocation]
      /\ outcome[r] = "running" /\ outcome \in [Runs -> Outcomes]
  BY DEF LInv, IInv, TypeOK, Settled
<1>2. CASE inv[r].cleaning
  BY <1>1, <1>2 DEF Fail, End, Idle, InBlock, Calm
<1>3. CASE ~inv[r].cleaning
  BY <1>1, <1>3 DEF Fail, Invocation, InBlock, Calm
<1>4. QED
  BY <1>2, <1>3

LEMMA AdvanceIsCalm ==
    ASSUME LInv, NEW r \in Runs, inv[r].stage \notin {"idle", "register"}, Advance(r)
    PROVE  Calm(r)
<1>1. inv[r] \in Invocation /\ inv \in [Runs -> Invocation] /\ outcome[r] = "running"
  BY DEF LInv, IInv, TypeOK, Settled
<1>2. /\ inv'[r].step >= inv[r].step /\ inv'[r].owned = inv[r].owned
      /\ inv'[r].mode = inv[r].mode /\ inv'[r].cleaning = inv[r].cleaning
      /\ inv'[r].stage \in {"delete", "block"} /\ outcome' = outcome
  BY <1>1 DEF Advance, Invocation
<1>3. QED
  BY <1>1, <1>2 DEF Calm, InBlock

LEMMA EndIsCalm ==
    ASSUME LInv, NEW r \in Runs, NEW result, result # "new", End(r, result)
    PROVE  Calm(r)
  BY DEF LInv, IInv, TypeOK, End, Idle, InBlock, Calm

(* Every task that neither creates an object nor writes the file.          *)
LEMMA CalmSteps ==
    ASSUME Solo, LInv, IInv', Settled', NEW r \in Runs,
           \/ AwaitServer(r) \/ Observe(r) \/ VerifyServer(r) \/ RemovePolicy(r)
           \/ FinishBlock(r) \/ ReadTarget(r) \/ CallDelete(r) \/ NextTarget(r)
           \/ AllTargetsDone(r) \/ VerifyResidue(r)
    PROVE  LInv'
<1>1. /\ inv[r] \in Invocation /\ Held(r, inv[r]) /\ inv \in [Runs -> Invocation]
      /\ inv[r].stage \notin {"idle", "register"} /\ outcome[r] = "running"
  BY DEF LInv, IInv, TypeOK, Custody, Settled, AwaitServer, Observe, VerifyServer,
     RemovePolicy, FinishBlock, ReadTarget, CallDelete, NextTarget, AllTargetsDone,
     VerifyResidue, At
<1>2. Fail(r) \/ Advance(r) => Calm(r)
  BY <1>1, FailIsCalm, AdvanceIsCalm
<1>3. /\ Shrinks
      /\ VerifyResidue(r) => inflight' = {o \in inflight : o.run # r}
  BY DEF Shrinks, AwaitServer, Observe, VerifyServer, RemovePolicy, FinishBlock,
     ReadTarget, CallDelete, NextTarget, AllTargetsDone, VerifyResidue, cluster
<1>4. Calm(r)
  <2>1. CASE AwaitServer(r) \/ Observe(r) \/ VerifyServer(r)
    BY <1>2, <2>1 DEF AwaitServer, Observe, VerifyServer
  <2>2. CASE RemovePolicy(r)
    BY <1>1, <2>2 DEF RemovePolicy, Calm, InBlock, Invocation
  <2>3. CASE FinishBlock(r)
    BY <1>1, <2>3 DEF FinishBlock, Calm, InBlock, Invocation
  <2>4. CASE ReadTarget(r)
    <3>1. CASE inv' = [inv EXCEPT ![r].stage = "call"] /\ outcome' = outcome
      BY <1>1, <3>1 DEF Calm, InBlock, Invocation
    <3>2. QED
      BY <1>2, <2>4, <3>1 DEF ReadTarget
  <2>5. CASE CallDelete(r)
    BY <1>2, <2>5 DEF CallDelete
  <2>6. CASE NextTarget(r)
    <3>1. PICK o \in inv[r].pending :
            inv' = [inv EXCEPT ![r].stage = "read", ![r].target = o,
                               ![r].pending = @ \ {o}]
      BY <2>6 DEF NextTarget
    <3>2. inv[r].cleaning /\ inv'[r].cleaning /\ inv'[r].stage = "read" /\ outcome' = outcome
      BY <1>1, <2>6, <3>1 DEF NextTarget, Held, Invocation
    <3>3. QED
      BY <1>1, <3>2 DEF Calm, InBlock
  <2>7. CASE AllTargetsDone(r)
    <3>1. CASE inv' = [inv EXCEPT ![r].stage = "residue"] /\ outcome' = outcome
      BY <1>1, <3>1 DEF Calm, InBlock, Invocation
    <3>2. QED
      BY <2>7, <3>1, EndIsCalm DEF AllTargetsDone
  <2>8. CASE VerifyResidue(r)
    <3>1. CASE /\ inv' = [inv EXCEPT ![r].stage = "unlink"] /\ outcome' = outcome
               /\ Residue(r) = {}
      <4>1. inv'[r].cleaning /\ inv[r].cleaning
        BY <1>1, <2>8, <3>1 DEF VerifyResidue, Held, Invocation
      <4>2. \A o \in labelled \cup inflight : o.run = r
        BY DEF Solo, LInv, IInv, TypeOK, Object
      <4>3. labelled' = {} /\ inflight' = {}
        BY <1>3, <2>8, <3>1, <4>2 DEF Residue, VerifyResidue
      <4>4. QED
        BY <1>1, <3>1, <4>1, <4>3 DEF Calm, InBlock
    <3>2. QED
      BY <1>2, <2>8, <3>1 DEF VerifyResidue
  <2>9. QED
    BY <2>1, <2>2, <2>3, <2>4, <2>5, <2>6, <2>7, <2>8
<1>5. \A q \in Runs : Calm(q)
  BY <1>4 DEF Solo
<1>6. QED
  BY <1>3, <1>5, ShrinkListing

LEMMA StartListing ==
    ASSUME Solo, LInv, IInv', Settled', NEW r \in Runs, StartRun(r)
    PROVE  LInv'
<1>1. /\ live = {} /\ inflight = {} /\ ledger.objects = {} /\ labelled = {}
      /\ inv \in [Runs -> Invocation] /\ outcome \in [Runs -> Outcomes]
  BY DEF LInv, Blank, StartRun, IInv, TypeOK
<1>2. /\ inv'[r].owned = {} /\ inv'[r].stage = "block" /\ outcome'[r] = "running"
      /\ cluster' = cluster /\ ledger' = ledger
  BY <1>1 DEF StartRun, Idle
<1>3. Blank' /\ Twins' /\ Pending' /\ Single' /\ Clean'
  BY <1>1, <1>2 DEF Solo, Blank, Twins, Pending, Single, Clean, Unlisted, cluster
<1>4. Listing(r)'
  BY <1>1, <1>2 DEF Listing, Unlisted, Absent, cluster
<1>5. QED
  BY <1>3, <1>4 DEF Solo, LInv

LEMMA OperatorListing ==
    ASSUME Solo, LInv, IInv', Settled', NEW r \in Runs, Operator(r)
    PROVE  LInv'
<1>1. CASE StartRun(r)
  BY <1>1, StartListing
<1>2. CASE ~StartRun(r)
  <2>1. PICK mode \in {"check", "apply"}, objs \in SUBSET Object : Begin(r, mode, objs)
    BY <1>2 DEF LInv, IInv, TypeOK, Operator, RecoveryCheck, LedgerCheck, ApplyCleanup
  <2>2. /\ inv'[r].cleaning /\ inv'[r].stage = "discover" /\ outcome'[r] = "running"
        /\ Shrinks
    BY <2>1 DEF Begin, Idle, LInv, IInv, TypeOK, Shrinks, cluster
  <2>3. \A q \in Runs : Calm(q)
    BY <2>2 DEF Solo, Calm, InBlock
  <2>4. QED
    BY <2>2, <2>3, ShrinkListing
<1>3. QED
  BY <1>1, <1>2

(* The name a creation is about to take is not in use, and neither are     *)
(* those of the creations after it.                                        *)
LEMMA CreationIsFresh ==
    ASSUME LInv, NEW r \in Runs, At(r, "create")
    PROVE  /\ InBlock(r) /\ inv[r].step \in Creations /\ Task(r) = Script[inv[r].step]
           /\ inflight = {} /\ Unlisted = {} /\ Absent(r, Task(r).role)
           /\ \A i \in Creations : i > inv[r].step =>
                 Absent(r, Script[i].role) /\ Script[i].role # Task(r).role
<1>1. inv[r] \in Invocation /\ Held(r, inv[r]) /\ inv[r].stage = "block"
      /\ inv[r].step \in 1 .. Len(Script) /\ Script[inv[r].step].op = "create"
  BY DEF LInv, IInv, TypeOK, Custody, At, AtTask
<1>2. InBlock(r) /\ inv[r].step \in Creations
  <2>1. inv[r].step \in Creations
    BY <1>1, ScriptPlaces
  <2>2. ~inv[r].cleaning /\ inv[r].mode = "run"
    BY <1>1 DEF Held
  <2>3. QED
    BY <2>1, <2>2 DEF InBlock
<1>3. \A i \in Creations : i >= inv[r].step => i \in Coming(inv[r])
  BY <1>1 DEF Coming
<1>4. \A i \in Creations : i >= inv[r].step => Absent(r, Script[i].role)
  BY <1>2, <1>3 DEF LInv, Listing
<1>5. \A i \in Creations : i > inv[r].step => Script[i].role # Script[inv[r].step].role
  <2>1. inv[r].step \in Creations
    BY <1>2
  <2>2. \A i \in Creations : i > inv[r].step => i # inv[r].step
    BY <2>1 DEF Creations
  <2>3. QED
    BY <2>1, <2>2, CreationsDistinct
<1>6. inflight = {} /\ Unlisted = {}
  BY <1>1, <1>2 DEF LInv, Listing
<1>7. inv[r].step >= inv[r].step
  BY <1>2 DEF Creations
<1>8. QED
  BY <1>2, <1>4, <1>5, <1>6, <1>7 DEF Task, Creations

LEMMA CreateListing ==
    ASSUME Solo, LInv, IInv', Settled', NEW r \in Runs, Create(r)
    PROVE  LInv'
<1> DEFINE o == Own(r, Task(r).role)
<1>1. At(r, "create")
  BY DEF Create
<1>2. inv[r] \in Invocation /\ outcome[r] = "running" /\ inv[r].stage = "block"
      /\ inv \in [Runs -> Invocation]
  BY <1>1 DEF LInv, IInv, TypeOK, Settled, At
<1>3. /\ live' = live \cup {o} /\ labelled' = labelled \cup {o}
      /\ inflight' = {} /\ ledger' = ledger /\ outcome' = outcome
  BY <1>1, CreationIsFresh DEF Create
<1>4. /\ inv'[r].stage = "register" /\ inv'[r].target = o /\ inv'[r].step = inv[r].step
      /\ inv'[r].owned = inv[r].owned
  BY <1>2 DEF Create, Invocation
<1>5. /\ o.run = r /\ o.role = Task(r).role /\ o.uid = 1
  BY DEF Own
<1>6. o \in Object /\ \A x \in live \cup ledger.objects : x \in Object
  BY <1>1, <1>3 DEF LInv, IInv, TypeOK
<1>7. \A x \in live \cup ledger.objects : x.role # o.role
  BY <1>1, <1>5, <1>6, CreationIsFresh DEF Absent, Solo, Object
<1>8. Twins'
  <2>1. SUFFICES ASSUME NEW x \in live' \cup ledger'.objects, x.uid = 2
                 PROVE  [x EXCEPT !.uid = 1] \notin live' \cup inflight'
    BY DEF Twins
  <2>2. x \in live \cup ledger.objects /\ x \in Object
    BY <1>3, <1>5, <1>6, <2>1
  <2>3. [x EXCEPT !.uid = 1] \notin live /\ [x EXCEPT !.uid = 1].role = x.role
    BY <2>1, <2>2 DEF LInv, Twins, Object
  <2>4. QED
    BY <1>3, <1>7, <2>2, <2>3
<1>9. Pending' /\ Blank' /\ Clean'
  BY <1>2, <1>3, <1>4 DEF Solo, Pending, Blank, Clean
<1>10. Unlisted' \subseteq {o}
  BY <1>1, <1>3, CreationIsFresh DEF Unlisted
<1>11. Single'
  BY <1>10 DEF Single
<1>12. \A i \in Coming(inv'[r]) : Absent(r, Script[i].role)'
  <2>1. \A i \in Coming(inv'[r]) : i \in Creations /\ i > inv[r].step
    BY <1>2, <1>4 DEF Coming, Creations, Invocation
  <2>2. QED
    BY <1>1, <1>3, <1>5, <2>1, CreationIsFresh DEF Absent
<1>13. Listing(r)'
  <2>1. ledger.objects = inv[r].owned /\ \A x \in inv[r].owned : x.uid = 1
    BY <1>1, CreationIsFresh DEF LInv, Listing
  <2>2. QED
    BY <1>3, <1>4, <1>10, <1>12, <2>1 DEF Listing
<1>14. QED
  BY <1>8, <1>9, <1>11, <1>13 DEF Solo, LInv

LEMMA CreateLateListing ==
    ASSUME Solo, LInv, IInv', Settled', NEW r \in Runs, CreateLate(r)
    PROVE  LInv'
<1> DEFINE o == Own(r, Task(r).role)
<1>1. At(r, "create") /\ Fail(r) /\ inv[r].stage # "idle"
  BY DEF CreateLate, At
<1>2. /\ live' = live /\ labelled' = labelled /\ ledger' = ledger
      /\ inflight' = {o}
  BY <1>1, CreationIsFresh DEF CreateLate
<1>3. o.run = r /\ o.role = Task(r).role /\ o.uid = 1
  BY DEF Own
<1>4. \A x \in live \cup ledger.objects : x.role # o.role /\ x \in Object
  <2>1. \A x \in live \cup ledger.objects : x \in Object
    BY DEF LInv, IInv, TypeOK
  <2>2. QED
    BY <1>1, <1>3, <2>1, CreationIsFresh DEF Absent, Solo, Object
<1>5. Pending'
  BY <1>2, <1>3, <1>4 DEF Pending
<1>6. Twins'
  <2>1. SUFFICES ASSUME NEW x \in live \cup ledger.objects, x.uid = 2
                 PROVE  [x EXCEPT !.uid = 1] \notin live \cup {o}
    BY <1>2 DEF Twins
  <2>2. [x EXCEPT !.uid = 1] \notin live /\ [x EXCEPT !.uid = 1].role = x.role
    BY <1>4, <2>1 DEF LInv, Twins, Object
  <2>3. QED
    BY <1>4, <2>2
<1>7. Unlisted' \subseteq {o}
  BY <1>1, <1>2, CreationIsFresh DEF Unlisted
<1>8. Single'
  BY <1>7 DEF Single
<1>9. /\ ~InBlock(r)' /\ outcome'[r] # "new" /\ inv'[r].stage # "unlink"
  BY <1>1, FailIsCalm
<1>10. QED
  BY <1>5, <1>6, <1>8, <1>9 DEF Solo, LInv, Blank, Clean, Listing

LEMMA RegisterListing ==
    ASSUME Solo, LInv, IInv', Settled', NEW r \in Runs, Register(r)
    PROVE  LInv'
<1>1. /\ inv[r] \in Invocation /\ Held(r, inv[r]) /\ inv[r].stage = "register"
      /\ inv \in [Runs -> Invocation] /\ outcome[r] = "running" /\ outcome' = outcome
      /\ cluster' = cluster
  BY DEF LInv, IInv, TypeOK, Custody, Settled, Register
<1>2. /\ InBlock(r) /\ inv[r].target = Own(r, Script[inv[r].step].role)
      /\ inv[r].step \in Creations
  <2>1. inv[r].step \in 1 .. Len(Script) /\ Script[inv[r].step].op = "create"
    BY <1>1 DEF Held, AtTask
  <2>2. inv[r].step \in Creations
    BY <2>1, ScriptPlaces
  <2>3. QED
    BY <1>1, <2>2 DEF Held, InBlock
<1>3. /\ inv'[r].owned = inv[r].owned \cup {inv[r].target} /\ inv'[r].stage = "block"
      /\ inv'[r].step = inv[r].step + 1 /\ inv'[r].target = NoObject
      /\ ledger'.objects = inv[r].owned \cup {inv[r].target}
  BY <1>1 DEF Register, Ledger, Invocation
<1>4. /\ inflight = {} /\ ledger.objects = inv[r].owned
      /\ \A x \in inv[r].owned : x.uid = 1
      /\ Unlisted \subseteq {inv[r].target} /\ inv[r].target.uid = 1
  BY <1>1, <1>2 DEF LInv, Listing, Own
<1>5. Unlisted' = {}
  BY <1>1, <1>3, <1>4 DEF Unlisted, cluster
<1>6. \A i \in Coming(inv'[r]) : i \in Coming(inv[r]) /\ i \in Creations /\ i # inv[r].step
  BY <1>1, <1>3 DEF Coming, Creations, Invocation
<1>7. \A i \in Coming(inv'[r]) : Absent(r, Script[i].role)'
  <2>1. SUFFICES ASSUME NEW i \in Coming(inv'[r]) PROVE Absent(r, Script[i].role)'
    OBVIOUS
  <2>2. Absent(r, Script[i].role)
    BY <1>2, <1>6 DEF LInv, Listing
  <2>3. inv[r].target.role # Script[i].role
    BY <1>2, <1>6, CreationsDistinct DEF Own
  <2>4. QED
    BY <1>1, <1>3, <1>4, <2>2, <2>3 DEF Absent, cluster
<1>8. Listing(r)'
  BY <1>1, <1>3, <1>4, <1>5, <1>7 DEF Listing, cluster
<1>9. Twins' /\ Pending'
  BY <1>1, <1>3, <1>4 DEF LInv, Twins, Pending, cluster
<1>10. Blank' /\ Clean' /\ Single'
  BY <1>1, <1>3, <1>5 DEF Solo, Blank, Clean, Single
<1>11. QED
  BY <1>8, <1>9, <1>10 DEF Solo, LInv

LEMMA DiscoverListing ==
    ASSUME Solo, LInv, IInv', Settled', NEW r \in Runs, Discover(r)
    PROVE  LInv'
<1>1. /\ inv[r] \in Invocation /\ Held(r, inv[r]) /\ inv[r].stage = "discover"
      /\ inv \in [Runs -> Invocation] /\ outcome \in [Runs -> Outcomes]
      /\ outcome[r] = "running" /\ cluster' = cluster /\ inv[r].cleaning
  BY DEF LInv, IInv, TypeOK, Custody, Settled, Discover, Held
<1>2. CASE ledger' = ledger
  <2>1. Calm(r)
    <3>1. CASE outcome' = outcome /\ inv'[r].cleaning /\ inv'[r].stage = "delete"
      BY <1>1, <3>1 DEF Calm, InBlock
    <3>2. CASE End(r, "dirty") \/ End(r, "rebuilt")
      BY <3>2, EndIsCalm
    <3>3. QED
      BY <1>1, <3>1, <3>2 DEF Discover, Invocation
  <2>2. QED
    BY <1>1, <1>2, <2>1, ShrinkListing DEF Solo, Shrinks, cluster
<1>3. CASE ledger' # ledger
  <2>1. ledger' = Ledger(r, Residue(r)) /\ End(r, "rebuilt")
    BY <1>3 DEF Discover
  <2>2. ledger'.objects = labelled
    BY <2>1 DEF Ledger, Residue, Solo, LInv, IInv, TypeOK, Object
  <2>3. inv'[r] = Idle /\ outcome'[r] = "rebuilt"
    BY <1>1, <2>1 DEF End
  <2>4. Blank' /\ Clean' /\ Listing(r)'
    BY <2>3 DEF Solo, Blank, Clean, Listing, InBlock, Idle
  <2>5. labelled \subseteq live
    BY DEF LInv, IInv, TypeOK
  <2>6. Twins' /\ Pending'
    BY <1>1, <2>2, <2>5 DEF LInv, Twins, Pending, cluster
  <2>7. Unlisted' \subseteq Unlisted
    BY <1>1, <2>2 DEF LInv, Unlisted, Pending, cluster
  <2>8. QED
    BY <2>4, <2>6, <2>7 DEF Solo, LInv, Single
<1>4. QED
  BY <1>2, <1>3

LEMMA UnlinkListing ==
    ASSUME Solo, LInv, IInv', Settled', NEW r \in Runs, UnlinkLedger(r)
    PROVE  LInv'
<1>1. /\ ledger'.objects = {} /\ cluster' = cluster
      /\ inv'[r] = Idle /\ outcome'[r] = Verdict(r)
  BY DEF UnlinkLedger, NoLedger, End, LInv, IInv, TypeOK
<1>2. Verdict(r) # "new"
  BY DEF Verdict
<1>3. inflight = {} /\ \A o \in labelled : o.uid # 1
  BY DEF LInv, Clean, UnlinkLedger
<1>4. Unlisted' = {}
  BY <1>1, <1>3 DEF Unlisted, cluster
<1>5. Blank' /\ Clean' /\ Listing(r)' /\ Single'
  BY <1>1, <1>2, <1>4 DEF Solo, Blank, Clean, Listing, InBlock, Idle, Single
<1>6. Twins' /\ Pending'
  BY <1>1 DEF LInv, Twins, Pending, cluster
<1>7. QED
  BY <1>5, <1>6 DEF Solo, LInv

LEMMA FailureListing ==
    ASSUME Solo, LInv, IInv', Settled', NEW r \in Runs, Failure(r)
    PROVE  LInv'
<1>1. CASE CreateLate(r)
  BY <1>1, CreateLateListing
<1>2. CASE TaskError(r) \/ Crash(r)
  <2>1. Calm(r)
    BY <1>2, FailIsCalm, EndIsCalm DEF TaskError, Crash
  <2>2. Shrinks
    BY <1>2 DEF TaskError, Crash, Shrinks, cluster
  <2>3. QED
    BY <2>1, <2>2, ShrinkListing DEF Solo
<1>3. QED
  BY <1>1, <1>2 DEF Failure

LEMMA StillIsCalm ==
    ASSUME LInv, IInv', Settled', Shrinks, inv' = inv, outcome' = outcome
    PROVE  LInv'
<1>1. ASSUME NEW r \in Runs PROVE Calm(r)
  <2>1. inv'[r] = inv[r] /\ outcome'[r] = outcome[r]
    OBVIOUS
  <2>2. outcome[r] = "new" => inv[r].stage = "idle"
    BY DEF LInv, Blank
  <2>3. InBlock(r)' => inv'[r] = inv[r]
    BY <2>1
  <2>4. QED
    BY <2>1, <2>2, <2>3 DEF Calm
<1>2. QED
  BY <1>1, ShrinkListing

LEMMA LandListing ==
    ASSUME Solo, LInv, IInv', Settled', NEW o \in inflight, Land(o)
    PROVE  LInv'
<1>1. /\ live' = live \cup {o} /\ labelled' = labelled \cup {o}
      /\ inflight' = inflight \ {o} /\ ledger' = ledger /\ inv' = inv /\ outcome' = outcome
  BY DEF Land, environment
<1>2. o.uid = 1 /\ o \notin live \cup ledger.objects
  BY DEF LInv, Pending
<1>3. \A r \in Runs : ~InBlock(r) /\ outcome[r] # "new" /\ inv[r].stage # "unlink"
  BY DEF LInv, Listing, Blank, Clean
<1>4. Blank' /\ Clean' /\ \A r \in Runs : Listing(r)'
  BY <1>1, <1>3 DEF Blank, Clean, Listing, InBlock
<1>5. Unlisted' = Unlisted
  BY <1>1, <1>2 DEF Unlisted
<1>6. Twins' /\ Pending'
  BY <1>1, <1>2 DEF LInv, Twins, Pending
<1>7. QED
  BY <1>4, <1>5, <1>6 DEF LInv, Single

LEMMA ForeignListing ==
    ASSUME Solo, LInv, IInv', Settled', Foreign
    PROVE  LInv'
<1>1. PICK o \in live : ForeignDelete(o) \/ ForeignReplace(o) \/ ForeignUnlabel(o)
  BY DEF Foreign
<1>2. inv' = inv /\ outcome' = outcome /\ ledger' = ledger /\ inflight' = inflight
  BY <1>1 DEF ForeignDelete, ForeignReplace, ForeignUnlabel, Meddle
<1>3. CASE ForeignDelete(o) \/ ForeignUnlabel(o)
  BY <1>2, <1>3, StillIsCalm DEF Shrinks, ForeignDelete, ForeignUnlabel
<1>4. CASE ForeignReplace(o)
  <2> DEFINE n == [o EXCEPT !.uid = 2]
  <2>1. /\ o \in Object /\ n \in Object /\ n.uid = 2 /\ [n EXCEPT !.uid = 1] = o
        /\ n.run = o.run /\ n.role = o.role /\ o.uid = 1
    BY <1>4 DEF LInv, IInv, TypeOK, Object, ForeignReplace
  <2>2. /\ live' = (live \ {o}) \cup {n} /\ labelled' \subseteq labelled \cup {n}
    BY <1>4 DEF ForeignReplace
  <2> HIDE DEF n
  <2>3. n \notin ledger.objects /\ o \notin inflight /\ n \notin inflight
    BY <2>1 DEF LInv, Twins, Pending
  <2>4. Unlisted' \subseteq Unlisted
    BY <1>2, <2>1, <2>2 DEF Unlisted
  <2>5. \A x \in live : x \in Object
    BY DEF LInv, IInv, TypeOK
  <2>6. Pending'
    BY <1>2, <2>1, <2>2, <2>3 DEF LInv, Pending
  <2>7. Twins'
    <3>1. SUFFICES ASSUME NEW x \in live' \cup ledger.objects, x.uid = 2
                   PROVE  [x EXCEPT !.uid = 1] \notin live' \cup inflight
      BY <1>2 DEF Twins
    <3>2. CASE x = n
      BY <1>2, <2>1, <2>2, <2>3, <3>2
    <3>3. CASE x # n
      <4>1. [x EXCEPT !.uid = 1] \notin live \cup inflight /\ x \in Object
        BY <2>2, <3>1, <3>3 DEF LInv, Twins, IInv, TypeOK
      <4>2. [x EXCEPT !.uid = 1] # n
        BY <2>1, <4>1 DEF Object
      <4>3. QED
        BY <2>2, <4>1, <4>2
    <3>4. QED
      BY <3>2, <3>3
  <2>8. Blank' /\ Clean' /\ Single'
    BY <1>2, <2>1, <2>2, <2>3, <2>4 DEF LInv, Blank, Clean, Single
  <2>9. ASSUME NEW r \in Runs, InBlock(r)' PROVE Listing(r)'
    <3>1. InBlock(r) /\ Listing(r)
      BY <1>2, <2>9 DEF LInv, InBlock
    <3>2. \A i \in Coming(inv[r]) : Absent(r, Script[i].role)'
      BY <1>2, <2>1, <2>2, <3>1 DEF Listing, Absent
    <3>3. QED
      BY <1>2, <2>4, <3>1, <3>2 DEF Listing
  <2>10. QED
    BY <2>6, <2>7, <2>8, <2>9 DEF LInv, Listing
<1>5. QED
  BY <1>1, <1>3, <1>4

LEMMA NextListing ==
    ASSUME Solo, LInv, IInv', Settled', [Next]_vars
    PROVE  LInv'
<1>1. ASSUME NEW r \in Runs, Controller(r) PROVE LInv'
  BY <1>1, CalmSteps, CreateListing, RegisterListing, DiscoverListing, UnlinkListing
     DEF Controller
<1>2. ASSUME NEW r \in Runs, Operator(r) \/ Failure(r) PROVE LInv'
  BY <1>2, OperatorListing, FailureListing
<1>3. CASE (\E r \in Runs : Dataplane(r)) \/ UNCHANGED vars
  <2>1. Shrinks /\ inv' = inv /\ outcome' = outcome
    BY <1>3 DEF Dataplane, ClientTerminates, SyncDataplane, ServerStarts, ServerRestarts,
       ServerFlaps, Shrinks, cluster, vars
  <2>2. QED
    BY <2>1, StillIsCalm
<1>4. QED
  BY <1>1, <1>2, <1>3, LandListing, ForeignListing DEF Next

LEMMA InitListing == ASSUME Init PROVE LInv
<1>1. IInv /\ Settled
  BY InitInv, InitSettled
<1>2. Blank /\ Twins /\ Pending /\ Single /\ Clean
  BY DEF Init, NoLedger, Idle, Blank, Twins, Pending, Unlisted, Single, Clean
<1>3. \A r \in Runs : Listing(r)
  BY DEF Init, Idle, Listing, InBlock
<1>4. QED
  BY <1>1, <1>2, <1>3 DEF LInv

LEMMA ListingAlways == ASSUME Solo PROVE Spec => []LInv
<1>1. Init => LInv
  BY InitListing
<1>2. LInv /\ [Next]_vars => LInv'
  BY NextInv, NextSettled, NextListing DEF LInv
<1>3. QED
  BY <1>1, <1>2, PTL DEF Spec

(* However the only run ID in use is interrupted, whatever is deleted,     *)
(* replaced or relabelled meanwhile and however late a creation takes      *)
(* effect, at most one object the run created is missing from the file.    *)
THEOREM AtMostOneUnlistedHolds ==
    ASSUME \A q, r \in Runs : q = r PROVE Spec => []AtMostOneUnlisted
<1>1. LInv => AtMostOneUnlisted
  BY DEF LInv, Single, Unlisted, AtMostOneUnlisted, Residue
<1>2. QED
  BY <1>1, ListingAlways, PTL DEF Solo

(* Of the only run ID in use, no step forgets an object that the file      *)
(* lists and that still exists: not the rewriting after each creation, not *)
(* the rebuilding by a recovery check, not the removal at the end.         *)
THEOREM LedgerKeptHolds ==
    ASSUME \A q, r \in Runs : q = r PROVE Spec => LedgerKept
<1>1. LInv /\ LInv' /\ [Next]_vars =>
        [ledger.objects \cap labelled' \subseteq ledger'.objects]_vars
  <2>1. SUFFICES ASSUME LInv, LInv', [Next]_vars, ledger' # ledger
                 PROVE  ledger.objects \cap labelled' \subseteq ledger'.objects
    BY DEF vars
  <2>2. PICK r \in Runs : Register(r) \/ Discover(r) \/ UnlinkLedger(r)
    <3>1. ASSUME NEW r \in Runs, Controller(r)
          PROVE  Register(r) \/ Discover(r) \/ UnlinkLedger(r)
      BY <2>1, <3>1 DEF Controller, Create, AwaitServer, Observe, VerifyServer,
         RemovePolicy, FinishBlock, ReadTarget, CallDelete, NextTarget, AllTargetsDone,
         VerifyResidue
    <3>2. ASSUME NEW r \in Runs, Operator(r) \/ Failure(r) \/ Dataplane(r) PROVE FALSE
      BY <2>1, <3>2 DEF Operator, StartRun, RecoveryCheck, LedgerCheck, ApplyCleanup,
         Begin, Failure, CreateLate, TaskError, Crash, Dataplane, ClientTerminates,
         SyncDataplane, ServerStarts, ServerRestarts, ServerFlaps
    <3>3. ~(\E o \in inflight : Land(o)) /\ ~Foreign
      BY <2>1 DEF Land, Foreign, ForeignDelete, ForeignReplace, ForeignUnlabel, Meddle
    <3>4. QED
      BY <2>1, <3>1, <3>2, <3>3 DEF Next, vars
  <2>3. labelled' = labelled /\ inv[r] \in Invocation /\ Held(r, inv[r])
    BY <2>1, <2>2 DEF Register, Discover, UnlinkLedger, cluster, LInv, IInv, TypeOK, Custody
  <2>4. CASE Register(r)
    <3>1. InBlock(r)
      BY <2>3, <2>4 DEF Register, Held, InBlock
    <3>2. ledger.objects = inv[r].owned
      BY <2>1, <3>1 DEF LInv, Listing
    <3>3. QED
      BY <2>4, <3>2 DEF Register, Ledger
  <2>5. CASE Discover(r)
    <3>1. ledger' = Ledger(r, Residue(r))
      BY <2>1, <2>5 DEF Discover
    <3>2. ledger'.objects = labelled
      BY <2>1, <3>1 DEF Ledger, Residue, LInv, IInv, TypeOK, Object
    <3>3. QED
      BY <2>3, <3>2
  <2>6. CASE UnlinkLedger(r)
    BY <2>1, <2>3, <2>6 DEF LInv, Clean, UnlinkLedger
  <2>7. QED
    BY <2>2, <2>4, <2>5, <2>6
<1>2. QED
  BY <1>1, ListingAlways, PTL DEF Solo, Spec, LedgerKept

=============================================================================
