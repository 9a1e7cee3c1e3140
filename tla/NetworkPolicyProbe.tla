--------------------------- MODULE NetworkPolicyProbe ---------------------------
(***************************************************************************)
(* The temporary NetworkPolicy probe of                                    *)
(* ansible/roles/network_policy_probe: a run creates labelled objects one  *)
(* by one, writes each identity to a private ledger, probes connectivity,  *)
(* and deletes exactly what it created; an operator recovers an            *)
(* interrupted run with `cleanup --check' and `cleanup'.                   *)
(*                                                                         *)
(* One member of Runs is one run ID.  Every invocation for that ID (the    *)
(* run itself, a recovery check, an apply) is a sequence of tasks, and     *)
(* each task is a step that others interleave with: the API server, the    *)
(* dataplane, a foreign writer in the namespace, other invocations.        *)
(***************************************************************************)
EXTENDS Naturals, Sequences, FiniteSets

CONSTANTS
    Runs,          \* run IDs the operator uses, each at most once for a run
    Overlap,       \* may two invocations be in progress at the same time?
    Cni,           \* what the CNI may turn out to do with policies
    ServerFaults,  \* faults the probe server may show: "restart", "flap"
    MaxCrash,      \* bound: hard stops of the controller
    MaxError,      \* bound: API or file errors that fail a task
    MaxMeddle      \* bound: acts of the foreign writer

ASSUME ProbeAssumption ==
    /\ Overlap \in BOOLEAN
    /\ Cni \subseteq {"enforcing", "ignoring"}
    /\ ServerFaults \subseteq {"restart", "flap"}
    /\ MaxCrash \in Nat /\ MaxError \in Nat /\ MaxMeddle \in Nat

---------------------------------------------------------------------------
(* The objects of a run.  A name is generated by the API server, so a role *)
(* of a run stands for it; uid 1 is the object the run created, uid 2 an   *)
(* object a foreign writer put in its place under the same name.           *)

Policies == {"deny", "allow"}
Clients == {"baseline-allowed", "baseline-denied", "deny-allowed", "deny-denied",
            "selective-allowed", "selective-denied",
            "rollback-allowed", "rollback-denied"}
Roles == {"content", "server", "service", "endpoints"} \cup Policies \cup Clients

Object == [run : Runs, role : Roles, uid : {1, 2}]
Own(r, role) == [run |-> r, role |-> role, uid |-> 1]
SameName(o, p) == o.run = p.run /\ o.role = p.role

(* Deletion goes through the discovered list in reverse: kinds in the      *)
(* reverse of the allowlist, and the generated names of a kind, which the  *)
(* API server lists in order, in reverse too.                              *)
DeletionOrder ==
    << "content",
       "server", "selective-denied", "selective-allowed",
       "rollback-denied", "rollback-allowed", "deny-denied", "deny-allowed",
       "baseline-denied", "baseline-allowed",
       "service", "deny", "allow", "endpoints" >>
DeletionRank ==
    [role \in Roles |-> CHOOSE i \in 1..Len(DeletionOrder) : DeletionOrder[i] = role]

(* The tasks of run.yml, in order.                                         *)
Make(role)          == [op |-> "create", role |-> role, expect |-> "none"]
Probe(role, expect) == [op |-> "probe",  role |-> role, expect |-> expect]
Await               == [op |-> "await",  role |-> "server", expect |-> "none"]
Control             == [op |-> "verify", role |-> "server", expect |-> "none"]
Remove(role)        == [op |-> "delete", role |-> role, expect |-> "none"]

Script ==
    << Make("content"), Make("server"), Await, Make("service"), Make("endpoints"),
       Make("baseline-allowed"),  Probe("baseline-allowed", "Succeeded"),
       Make("baseline-denied"),   Probe("baseline-denied", "Succeeded"),
       Make("deny"),
       Make("deny-allowed"),      Probe("deny-allowed", "Failed"),
       Make("deny-denied"),       Probe("deny-denied", "Failed"),
       Control,
       Make("allow"),
       Make("selective-allowed"), Probe("selective-allowed", "Succeeded"),
       Make("selective-denied"),  Probe("selective-denied", "Failed"),
       Control,
       Remove("deny"), Remove("allow"),
       Make("rollback-allowed"),  Probe("rollback-allowed", "Succeeded"),
       Make("rollback-denied"),   Probe("rollback-denied", "Succeeded") >>

AllowedRole == {"baseline-allowed", "deny-allowed", "selective-allowed", "rollback-allowed"}

---------------------------------------------------------------------------
VARIABLES
    live,      \* objects in the namespace
    labelled,  \* those that carry both ownership labels
    inflight,  \* creations the controller gave up on and the API server still holds
    ledger,    \* the private ledger file: [run, objects], or NoLedger
    inv,       \* per run ID, the invocation in progress
    outcome,   \* per run ID, how its last invocation ended
    net,       \* per run ID, the dataplane: server, enforced policies, client reply
    cni,       \* what the CNI does with policies
    spent      \* what is used up of the three bounds

vars == <<live, labelled, inflight, ledger, inv, outcome, net, cni, spent>>
cluster == <<live, labelled, inflight>>
environment == <<net, cni, spent>>

NoLedger == [run |-> "none", objects |-> {}]
Ledger(r, objs) == [run |-> r, objects |-> objs]

NoObject == [run |-> "none", role |-> "none", uid |-> 0]

Stages == {"idle", "block", "register", "read", "call",
           "discover", "delete", "residue", "unlink"}
Modes == {"none", "run", "check", "apply"}
Outcomes == {"new", "running", "crashed", "dirty", "rejected", "accepted",
             "rebuilt", "validated", "cleaned"}

Idle == [mode |-> "none", stage |-> "idle", step |-> 1, owned |-> {}, passed |-> FALSE,
         supplied |-> {}, discovered |-> {}, pending |-> {}, target |-> NoObject,
         cleaning |-> FALSE]

Init ==
    /\ live = {} /\ labelled = {} /\ inflight = {}
    /\ ledger = NoLedger
    /\ inv = [r \in Runs |-> Idle]
    /\ outcome = [r \in Runs |-> "new"]
    /\ net = [r \in Runs |-> [server |-> "starting", enforced |-> {}, reply |-> "none"]]
    /\ cni \in Cni
    /\ spent = [crash |-> 0, error |-> 0, meddle |-> 0]

Residue(r) == {o \in labelled : o.run = r}
Named(o) == {p \in live : SameName(o, p)}
Free(r) == inv[r].stage = "idle" /\ (Overlap \/ \A q \in Runs : inv[q].stage = "idle")

---------------------------------------------------------------------------
(* How an invocation goes on.                                              *)

(* End of the play: the controller's variables are gone.                   *)
End(r, result) ==
    /\ inv' = [inv EXCEPT ![r] = Idle]
    /\ outcome' = [outcome EXCEPT ![r] = result]

(* A failed task: inside the block it is rescued and cleanup follows, in   *)
(* cleanup it ends the play and the ledger stays.                          *)
Fail(r) ==
    IF inv[r].cleaning
      THEN End(r, "dirty")
      ELSE /\ inv' = [inv EXCEPT ![r].stage = "discover", ![r].cleaning = TRUE]
           /\ UNCHANGED outcome

(* Mutant of Advance: deletions of the cleanup count as tasks too.         *)
AdvanceAlways(r) ==
    /\ inv' = [inv EXCEPT ![r].stage = IF inv[r].cleaning THEN "delete" ELSE "block",
                          ![r].step  = @ + 1, ![r].target = NoObject]
    /\ UNCHANGED outcome

(* The task succeeded: the next task of the block, or the next deletion.   *)
Advance(r) ==
    /\ inv' = [inv EXCEPT ![r].stage = IF inv[r].cleaning THEN "delete" ELSE "block",
                          ![r].step  = IF inv[r].cleaning THEN @ ELSE @ + 1,
                          ![r].target = NoObject]
    /\ UNCHANGED outcome

AtTask(v, op) == v.step \in 1..Len(Script) /\ Script[v.step].op = op
At(r, op) == inv[r].stage = "block" /\ AtTask(inv[r], op)
Task(r) == Script[inv[r].step]

---------------------------------------------------------------------------
(* run                                                                     *)

(* preflight.yml for `run': no ledger file, and no object of this run ID.  *)
StartRun(r) ==
    /\ Free(r) /\ outcome[r] = "new"
    /\ ledger = NoLedger
    /\ Residue(r) = {}
    /\ inv' = [inv EXCEPT ![r] = [Idle EXCEPT !.mode = "run", !.stage = "block"]]
    /\ outcome' = [outcome EXCEPT ![r] = "running"]
    /\ UNCHANGED <<cluster, ledger, environment>>

(* The API server creates the object and the controller learns its UID.    *)
Create(r) ==
    /\ At(r, "create")
    /\ LET o == Own(r, Task(r).role) IN
        /\ live' = live \cup {o}
        /\ labelled' = labelled \cup {o}
        /\ inv' = [inv EXCEPT ![r].stage = "register", ![r].target = o]
        /\ net' = [net EXCEPT ![r].reply = "none"]
    /\ UNCHANGED <<inflight, ledger, outcome, cni, spent>>

(* The controller gets an error while the request is still on its way.     *)
CreateLate(r) ==
    /\ At(r, "create")
    /\ spent.error < MaxError
    /\ spent' = [spent EXCEPT !.error = @ + 1]
    /\ inflight' = inflight \cup {Own(r, Task(r).role)}
    /\ Fail(r)
    /\ UNCHANGED <<live, labelled, ledger, net, cni>>

Land(o) ==
    /\ o \in inflight
    /\ inflight' = inflight \ {o}
    /\ live' = live \cup {o}
    /\ labelled' = labelled \cup {o}
    /\ UNCHANGED <<ledger, inv, outcome, environment>>

(* Mutants of Register: the new identity alone is written; nothing is.     *)
RegisterLatestOnly(r) ==
    /\ inv[r].stage = "register"
    /\ ledger' = Ledger(r, {inv[r].target})
    /\ inv' = [inv EXCEPT ![r].owned = @ \cup {inv[r].target}, ![r].stage = "block",
                          ![r].step = @ + 1, ![r].target = NoObject]
    /\ UNCHANGED <<cluster, outcome, environment>>
RegisterInMemory(r) ==
    /\ inv[r].stage = "register"
    /\ inv' = [inv EXCEPT ![r].owned = @ \cup {inv[r].target}, ![r].stage = "block",
                          ![r].step = @ + 1, ![r].target = NoObject]
    /\ UNCHANGED <<cluster, ledger, outcome, environment>>

(* register_object.yml: extend the in-memory list and rewrite the ledger.  *)
Register(r) ==
    /\ inv[r].stage = "register"
    /\ LET owned == inv[r].owned \cup {inv[r].target} IN
        /\ ledger' = Ledger(r, owned)
        /\ inv' = [inv EXCEPT ![r].owned = owned, ![r].stage = "block",
                              ![r].step = @ + 1, ![r].target = NoObject]
    /\ UNCHANGED <<cluster, outcome, environment>>

ServerUp(r) == net[r].server \in {"ready", "restarted"}

AwaitServer(r) ==
    /\ At(r, "await")
    /\ IF ServerUp(r) /\ Own(r, "server") \in live THEN Advance(r) ELSE Fail(r)
    /\ UNCHANGED <<cluster, ledger, environment>>

(* probe_pod.yml after registration: the client's terminal state is the    *)
(* expected one, for the expected reason; anything else fails the task.    *)
Evidence(expect) == IF expect = "Succeeded" THEN "connected" ELSE "refused"
Observe(r) ==
    /\ At(r, "probe")
    /\ net[r].reply # "none"
    /\ IF /\ net[r].reply = Evidence(Task(r).expect)
          /\ Own(r, Task(r).role) \in live
         THEN Advance(r) ELSE Fail(r)
    /\ UNCHANGED <<cluster, ledger, environment>>

(* Mutant of ControlHolds: Ready is enough, the restart count is not read. *)
ControlReadyOnly(r) ==
    /\ ServerUp(r)
    /\ \A role \in {"server", "service", "endpoints"} : Own(r, role) \in live

(* verify_server.yml: server, Service and EndpointSlice are the created    *)
(* ones, the server is Ready and has never restarted.                      *)
ControlHolds(r) ==
    /\ net[r].server = "ready"
    /\ \A role \in {"server", "service", "endpoints"} : Own(r, role) \in live
VerifyServer(r) ==
    /\ At(r, "verify")
    /\ IF ControlHolds(r) THEN Advance(r) ELSE Fail(r)
    /\ UNCHANGED <<cluster, ledger, environment>>

RemovePolicy(r) ==
    /\ At(r, "delete")
    /\ inv' = [inv EXCEPT ![r].stage = "read", ![r].target = Own(r, Task(r).role)]
    /\ UNCHANGED <<cluster, ledger, outcome, environment>>

FinishBlock(r) ==
    /\ inv[r].stage = "block"
    /\ inv[r].step = Len(Script) + 1
    /\ inv' = [inv EXCEPT ![r].stage = "discover", ![r].cleaning = TRUE, ![r].passed = TRUE]
    /\ UNCHANGED <<cluster, ledger, outcome, environment>>

---------------------------------------------------------------------------
(* delete_object.yml: read by name, compare UID and labels, delete with    *)
(* the UID as a precondition.  In check mode nothing is deleted.           *)

Exact(o, p) == p.uid = o.uid /\ p \in labelled

(* Mutant of ReadTarget: check mode does not stop before the call.         *)
ReadTargetAnyMode(r) ==
    /\ inv[r].stage = "read"
    /\ LET found == Named(inv[r].target) IN
         CASE found = {} -> Advance(r)
           [] \E p \in found : ~Exact(inv[r].target, p) -> Fail(r)
           [] OTHER -> /\ inv' = [inv EXCEPT ![r].stage = "call"]
                       /\ UNCHANGED outcome
    /\ UNCHANGED <<cluster, ledger, environment>>

ReadTarget(r) ==
    /\ inv[r].stage = "read"
    /\ LET found == Named(inv[r].target) IN
         CASE found = {} -> Advance(r)
           [] \E p \in found : ~Exact(inv[r].target, p) -> Fail(r)
           [] inv[r].mode = "check" -> Advance(r)
           [] OTHER -> /\ inv' = [inv EXCEPT ![r].stage = "call"]
                       /\ UNCHANGED outcome
    /\ UNCHANGED <<cluster, ledger, environment>>

(* Mutant of CallDelete: no UID precondition on the deletion.              *)
CallDeleteByName(r) ==
    /\ inv[r].stage = "call"
    /\ live' = live \ Named(inv[r].target)
    /\ labelled' = labelled \ Named(inv[r].target)
    /\ Advance(r)
    /\ UNCHANGED <<inflight, ledger, environment>>

CallDelete(r) ==
    /\ inv[r].stage = "call"
    /\ LET found == Named(inv[r].target)
           hit == {p \in found : p.uid = inv[r].target.uid}
       IN  /\ live' = live \ hit
           /\ labelled' = labelled \ hit
           /\ IF found = hit THEN Advance(r) ELSE Fail(r)
    /\ UNCHANGED <<inflight, ledger, environment>>

---------------------------------------------------------------------------
(* cleanup.yml and validate_cleanup.yml                                    *)

(* Mutants of Discover: any mode takes what it discovers; a check that     *)
(* finds a mismatch does not rebuild the ledger.                           *)
DiscoverUnreviewed(r) ==
    /\ inv[r].stage = "discover"
    /\ inv' = [inv EXCEPT ![r].stage = "delete", ![r].discovered = Residue(r),
                          ![r].pending = Residue(r), ![r].target = NoObject]
    /\ UNCHANGED <<cluster, ledger, outcome, environment>>
DiscoverNoRebuild(r) ==
    /\ inv[r].stage = "discover"
    /\ LET found == Residue(r) IN
        \/ /\ inv[r].mode = "run" \/ inv[r].supplied = found
           /\ inv' = [inv EXCEPT ![r].stage = "delete", ![r].discovered = found,
                                 ![r].pending = found, ![r].target = NoObject]
           /\ UNCHANGED outcome
        \/ /\ inv[r].mode # "run" /\ inv[r].supplied # found
           /\ End(r, "dirty")
    /\ UNCHANGED <<cluster, ledger, environment>>

(* The run's own cleanup takes what it discovers; an apply refuses unless  *)
(* that is the reviewed ledger; a check rebuilds the ledger and stops.     *)
Discover(r) ==
    /\ inv[r].stage = "discover"
    /\ LET found == Residue(r) IN
        \/ /\ inv[r].mode = "run" \/ inv[r].supplied = found
           /\ inv' = [inv EXCEPT ![r].stage = "delete", ![r].discovered = found,
                                 ![r].pending = found, ![r].target = NoObject]
           /\ UNCHANGED <<ledger, outcome>>
        \/ /\ inv[r].mode = "apply" /\ inv[r].supplied # found
           /\ End(r, "dirty")
           /\ UNCHANGED ledger
        \/ /\ inv[r].mode = "check" /\ inv[r].supplied # found
           /\ ledger' = Ledger(r, found)
           /\ End(r, "rebuilt")
    /\ UNCHANGED <<cluster, environment>>

NextTarget(r) ==
    /\ inv[r].stage = "delete"
    /\ \E o \in inv[r].pending :
        /\ \A p \in inv[r].pending : DeletionRank[o.role] <= DeletionRank[p.role]
        /\ inv' = [inv EXCEPT ![r].stage = "read", ![r].target = o, ![r].pending = @ \ {o}]
    /\ UNCHANGED <<cluster, ledger, outcome, environment>>

AllTargetsDone(r) ==
    /\ inv[r].stage = "delete"
    /\ inv[r].pending = {}
    /\ IF inv[r].mode = "check"
         THEN End(r, "validated")
         ELSE /\ inv' = [inv EXCEPT ![r].stage = "residue"]
              /\ UNCHANGED outcome
    /\ UNCHANGED <<cluster, ledger, environment>>

(* Mutant of VerifyResidue: the deletions having succeeded is enough.      *)
VerifyResidueSkipped(r) ==
    /\ inv[r].stage = "residue"
    /\ inv' = [inv EXCEPT ![r].stage = "unlink"]
    /\ UNCHANGED <<cluster, ledger, outcome, environment>>

(* Assumed of the API server: a request given up on earlier has landed by  *)
(* the time this query is answered, or never will.                         *)
VerifyResidue(r) ==
    /\ inv[r].stage = "residue"
    /\ IF Residue(r) = {}
         THEN /\ inv' = [inv EXCEPT ![r].stage = "unlink"]
              /\ UNCHANGED outcome
         ELSE Fail(r)
    /\ inflight' = {o \in inflight : o.run # r}
    /\ UNCHANGED <<live, labelled, ledger, environment>>

Verdict(r) == IF inv[r].mode = "apply" THEN "cleaned"
              ELSE IF inv[r].passed THEN "accepted" ELSE "rejected"

UnlinkLedger(r) ==
    /\ inv[r].stage = "unlink"
    /\ ledger' = NoLedger
    /\ End(r, Verdict(r))
    /\ UNCHANGED <<cluster, environment>>

---------------------------------------------------------------------------
(* Recovery by the operator, as ansible/README.md describes it.            *)

Begin(r, mode, objs) ==
    /\ inv' = [inv EXCEPT ![r] = [Idle EXCEPT !.mode = mode, !.stage = "discover",
                                              !.supplied = objs, !.cleaning = TRUE]]
    /\ outcome' = [outcome EXCEPT ![r] = "running"]
    /\ UNCHANGED <<cluster, ledger, environment>>

(* cleanup --check with the original run ID and no ledger.                 *)
RecoveryCheck(r) == Free(r) /\ outcome[r] # "new" /\ Begin(r, "check", {})

(* cleanup --check with the ledger file.                                   *)
LedgerCheck(r) == /\ Free(r) /\ outcome[r] # "new" /\ ledger.run = r
                  /\ Begin(r, "check", ledger.objects)

(* cleanup with the ledger file; an empty list is refused.                 *)
ApplyAdmitted(r) == ledger.run = r /\ ledger.objects # {}
ApplyCleanup(r) == /\ Free(r) /\ outcome[r] # "new" /\ ApplyAdmitted(r)
                   /\ Begin(r, "apply", ledger.objects)

---------------------------------------------------------------------------
(* What may go wrong with an invocation.                                   *)

TaskError(r) ==
    /\ inv[r].stage # "idle"
    /\ spent.error < MaxError
    /\ spent' = [spent EXCEPT !.error = @ + 1]
    /\ Fail(r)
    /\ UNCHANGED <<cluster, ledger, net, cni>>

(* A hard stop, or an unreachable host: neither rescue nor always runs.    *)
Crash(r) ==
    /\ inv[r].stage # "idle"
    /\ spent.crash < MaxCrash
    /\ spent' = [spent EXCEPT !.crash = @ + 1]
    /\ End(r, "crashed")
    /\ UNCHANGED <<cluster, ledger, net, cni>>

---------------------------------------------------------------------------
(* The cluster.                                                            *)

InBlock(r) == inv[r].mode = "run" /\ ~inv[r].cleaning

(* May a client of the run talk to its server?                             *)
Reaches(r, role) ==
    /\ ServerUp(r)
    /\ \A s \in {"server", "service", "endpoints"} : Own(r, s) \in live
    /\ \/ net[r].enforced = {}
       \/ "allow" \in net[r].enforced /\ role \in AllowedRole

(* The client Pod terminates; it may also be evicted or hit its deadline.  *)
ClientTerminates(r) ==
    /\ At(r, "probe")
    /\ net[r].reply = "none"
    /\ \E reply \in {IF Reaches(r, Task(r).role) THEN "connected" ELSE "refused", "evicted"} :
         net' = [net EXCEPT ![r].reply = reply]
    /\ UNCHANGED <<cluster, ledger, inv, outcome, cni, spent>>

(* The CNI catches up with the policies that exist.                        *)
SyncDataplane(r) ==
    LET wanted == {p \in Policies : \E o \in live : o.run = r /\ o.role = p} IN
    /\ cni = "enforcing" /\ InBlock(r)
    /\ net[r].enforced # wanted
    /\ net' = [net EXCEPT ![r].enforced = wanted]
    /\ UNCHANGED <<cluster, ledger, inv, outcome, cni, spent>>

ServerStarts(r) ==
    /\ InBlock(r) /\ Own(r, "server") \in live
    /\ net[r].server \in {"starting", "unready", "down"}
    /\ net' = [net EXCEPT ![r].server = IF @ = "down" THEN "restarted" ELSE "ready"]
    /\ UNCHANGED <<cluster, ledger, inv, outcome, cni, spent>>

ServerRestarts(r) ==
    /\ InBlock(r) /\ "restart" \in ServerFaults
    /\ ServerUp(r)
    /\ net' = [net EXCEPT ![r].server = "down"]
    /\ UNCHANGED <<cluster, ledger, inv, outcome, cni, spent>>

(* The server stops answering for a while without a restart.               *)
ServerFlaps(r) ==
    /\ InBlock(r) /\ "flap" \in ServerFaults
    /\ net[r].server = "ready"
    /\ net' = [net EXCEPT ![r].server = "unready"]
    /\ UNCHANGED <<cluster, ledger, inv, outcome, cni, spent>>

(* A foreign writer deletes, replaces or relabels a generated name.        *)
Meddle ==
    /\ spent.meddle < MaxMeddle
    /\ spent' = [spent EXCEPT !.meddle = @ + 1]
    /\ UNCHANGED <<inflight, ledger, inv, outcome, net, cni>>

ForeignDelete(o) ==
    /\ Meddle
    /\ live' = live \ {o} /\ labelled' = labelled \ {o}

ForeignReplace(o) ==
    /\ Meddle
    /\ o.uid = 1
    /\ live' = (live \ {o}) \cup {[o EXCEPT !.uid = 2]}
    /\ \/ labelled' = labelled \ {o}
       \/ labelled' = (labelled \ {o}) \cup {[o EXCEPT !.uid = 2]}

ForeignUnlabel(o) ==
    /\ Meddle
    /\ o \in labelled
    /\ labelled' = labelled \ {o} /\ UNCHANGED live

---------------------------------------------------------------------------
Controller(r) ==
    \/ Create(r) \/ Register(r) \/ AwaitServer(r) \/ Observe(r)
    \/ VerifyServer(r) \/ RemovePolicy(r) \/ FinishBlock(r)
    \/ ReadTarget(r) \/ CallDelete(r)
    \/ Discover(r) \/ NextTarget(r) \/ AllTargetsDone(r)
    \/ VerifyResidue(r) \/ UnlinkLedger(r)

Operator(r) == StartRun(r) \/ RecoveryCheck(r) \/ LedgerCheck(r) \/ ApplyCleanup(r)

Failure(r) == CreateLate(r) \/ TaskError(r) \/ Crash(r)

Dataplane(r) ==
    \/ ClientTerminates(r) \/ SyncDataplane(r)
    \/ ServerStarts(r) \/ ServerRestarts(r) \/ ServerFlaps(r)

Foreign == \E o \in live : ForeignDelete(o) \/ ForeignReplace(o) \/ ForeignUnlabel(o)

Next ==
    \/ \E r \in Runs : Controller(r) \/ Operator(r) \/ Failure(r) \/ Dataplane(r)
    \/ \E o \in inflight : Land(o)
    \/ Foreign

(* The controller and the kubelet do not stop; the operator keeps using    *)
(* the recovery commands, which others may disable in between.             *)
Fairness ==
    \A r \in Runs :
        /\ WF_vars(Controller(r)) /\ WF_vars(ClientTerminates(r))
        /\ SF_vars(RecoveryCheck(r)) /\ SF_vars(LedgerCheck(r)) /\ SF_vars(ApplyCleanup(r))

Spec == Init /\ [][Next]_vars
FairSpec == Spec /\ Fairness

---------------------------------------------------------------------------
(* Properties.                                                             *)

Invocation ==
    [mode : Modes, stage : Stages, step : 1..(Len(Script) + 1),
     owned : SUBSET Object, passed : BOOLEAN, supplied : SUBSET Object,
     discovered : SUBSET Object, pending : SUBSET Object,
     target : Object \cup {NoObject}, cleaning : BOOLEAN]

Dataflow ==
    [server : {"starting", "ready", "unready", "down", "restarted"},
     enforced : SUBSET Policies,
     reply : {"none", "connected", "refused", "evicted"}]

(* Types of the state, and labels are on live objects only.                *)
TypeOK ==
    /\ live \subseteq Object /\ labelled \subseteq live /\ inflight \subseteq Object
    /\ ledger \in [run : Runs \cup {"none"}, objects : SUBSET Object]
    /\ inv \in [Runs -> Invocation]
    /\ outcome \in [Runs -> Outcomes]
    /\ net \in [Runs -> Dataflow]
    /\ cni \in Cni
    /\ spent \in [crash : 0..MaxCrash, error : 0..MaxError, meddle : 0..MaxMeddle]

(* What an invocation holds: a run has registered everything its finished  *)
(* tasks created, a deletion target is one of the identities the           *)
(* invocation created or discovered, and what an apply discovered is what  *)
(* the operator reviewed.  A check never gets as far as a deletion call.   *)
Held(r, v) ==
    /\ \A o \in v.owned \cup v.discovered : o.run = r
    /\ v.pending \subseteq v.discovered
    /\ v.mode = "apply" => v.discovered \subseteq v.supplied
    /\ v.stage # "idle" => v.mode # "none"
    /\ v.stage # "idle" /\ v.mode # "run" => v.cleaning
    /\ v.stage \in {"block", "register"} => ~v.cleaning
    /\ v.stage \in {"discover", "delete", "residue", "unlink"} => v.cleaning
    /\ ~v.cleaning => \A i \in 1..(v.step - 1) : Script[i].op = "create" =>
                           Own(r, Script[i].role) \in v.owned
    /\ v.stage = "register" => /\ AtTask(v, "create")
                               /\ v.target = Own(r, Script[v.step].role)
    /\ v.stage \in {"read", "call"} =>
         IF v.cleaning THEN v.target \in v.discovered
                       ELSE v.target \in v.owned /\ AtTask(v, "delete")
    /\ v.stage = "call" => v.mode # "check"
Custody == \A r \in Runs : Held(r, inv[r])

(* The step is the deletion call of r's invocation and o goes away in it.  *)
Deletes(r, o) == /\ inv[r].stage = "call" /\ inv'[r] # inv[r]
                 /\ o \in live /\ o \notin live'

(* A deletion removes only an object whose exact identity the invocation   *)
(* itself created or discovered with both labels: never what a foreign     *)
(* writer put under the same name meanwhile (delete_object.yml).           *)
ExactIdentity ==
    [][\A r \in Runs : \A o \in live :
         Deletes(r, o) => o \in inv[r].owned \cup inv[r].discovered]_vars

(* A standalone cleanup deletes only identities of the ledger the operator *)
(* reviewed, and a check deletes nothing (cleanup.yml, validate_cleanup).  *)
ReviewedOnly ==
    [][\A r \in Runs : \A o \in live :
         Deletes(r, o) => /\ inv[r].mode # "check"
                          /\ inv[r].mode = "apply" => o \in inv[r].supplied]_vars

(* Invocations for different run IDs never delete each other's objects,    *)
(* however they overlap (discover_owned.yml).                              *)
OwnRunOnly ==
    [][\A r \in Runs : \A o \in live : Deletes(r, o) => o.run = r]_vars

(* An invocation that reports a verified cleanup has left nothing that the *)
(* run created and that still carries its labels, not even an object whose *)
(* creation the controller believed to have failed.                        *)
VerifiedCleanup ==
    \A r \in Runs : outcome[r] \in {"accepted", "rejected", "cleaned"} =>
        \A role \in Roles : Own(r, role) \notin labelled

(* An accepted run is evidence of enforcement: no CNI that ignores         *)
(* policies passes, whatever restarts or replacements of the server and of *)
(* its endpoints happen to make clients fail (verify_server.yml).          *)
EvidenceSound ==
    \A r \in Runs : outcome[r] = "accepted" => cni = "enforcing"

(* What the ledger lists and still exists stays listed: the file is        *)
(* rewritten or removed only when nothing it records would be forgotten.   *)
LedgerKept ==
    [][ledger.objects \cap labelled' \subseteq ledger'.objects]_vars

(* The ledger file is removed only when nothing it lists is left.          *)
LedgerRemovedOnlyClean ==
    [][ledger # NoLedger /\ ledger' = NoLedger => ledger.objects \cap labelled = {}]_vars

(* A hard stop at any point leaves at most one object of the run outside   *)
(* the ledger: the one created or given up on last.                        *)
AtMostOneUnlisted ==
    \A r \in Runs : \A a, b \in Residue(r) :
        (a.uid = 1 /\ b.uid = 1 /\ a \notin ledger.objects /\ b \notin ledger.objects)
            => a = b

(* Once an invocation was interrupted or its cleanup failed, an operator   *)
(* who follows the recovery procedure gets rid of all labelled residue.    *)
ResidueResolved ==
    \A r \in Runs : outcome[r] \in {"crashed", "dirty"} ~> Residue(r) = {}

(* A ledger that blocks further runs is eventually resolved by the         *)
(* recovery procedure.                                                     *)
LedgerResolved == ledger # NoLedger ~> ledger = NoLedger

=============================================================================
