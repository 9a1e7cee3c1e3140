-------------------------- MODULE DatabaseProvisioning --------------------------
(***************************************************************************)
(* Logical provisioning of a shared database engine: a play creates a      *)
(* NetworkPolicy and a helper Pod, both named after its one-run token, the *)
(* Pod's script creates the empty databases and their owners, the play     *)
(* waits for its marker and always removes both by their UIDs.             *)
(*                                                                         *)
(* The play and the Pod are two processes: the script runs on when the     *)
(* play stops, and somebody else may change either object at any moment.   *)
(* Not modelled: check mode, the prerequisites that only read (Secrets,    *)
(* engine Pod, Namespace), the shape of the definitions the plugin admits. *)
(***************************************************************************)
EXTENDS Naturals, Sequences, FiniteSets

CONSTANTS
    N,           \* databases in the frozen map, provisioned in order 1 .. N
    MayStray,    \* scopes whose owner may have a right in another's database
    MaxPlays,    \* bound: plays started
    MaxMishaps   \* bound: faults, changes by others, new secrets and uses

ASSUME ProvisioningAssumption ==
    /\ N \in Nat \ {0} /\ MaxPlays \in Nat \ {0} /\ MaxMishaps \in Nat
    /\ MayStray \subseteq 1 .. N

Plays == 1 .. MaxPlays
Scopes == 1 .. N
Kinds == {"policy", "pod"}
Engines == {"postgresql", "mongodb"}

(* How far a scope is: nothing, its role, its database still open to       *)
(* PUBLIC, closed to PUBLIC, its schema granted, and in use: it has data   *)
(* and no script takes it for an empty reservation any more.               *)
Stages == {"missing", "role", "database", "connected", "ready", "used"}
HasDatabase == Stages \ {"missing", "role"}
Established == {"connected", "ready", "used"}

VARIABLES
    engine,     \* the engine this lane provisions
    scope,      \* stage, password, creator; stray: the owner may enter
                \* another scope's database, by a grant made elsewhere
    secret,     \* version of the password in each scope's Secret
    object,     \* the helper NetworkPolicy and Pod of each play
    helper,     \* the script in each play's Pod
    play,       \* the plays
    late,       \* creations that failed for the play and may still take effect
    history,    \* together: two scripts have run at once; excused: why they may
    mishaps

cluster == <<engine, scope, secret>>
vars == <<engine, scope, secret, object, helper, play, late, history, mishaps>>

---------------------------------------------------------------------------
(* The role's tasks. The block ends at "poll"; what follows always runs    *)
(* when the block was entered.                                             *)
Step(do, kind) == [do |-> do, kind |-> kind]
Tasks == << Step("stale", "pod"), Step("stale", "policy"), Step("check", "pod"),
            Step("create", "policy"), Step("bind", "policy"), Step("create", "pod"),
            Step("poll", "pod"),
            Step("find", "pod"), Step("delete", "pod"), Step("wait", "pod"),
            Step("find", "policy"), Step("delete", "policy"), Step("wait", "policy"),
            Step("residue", "pod"), Step("residue", "policy") >>
Block == 4 .. 7
Always == 8

(* token: the wrapper's file is there. What a play has registered and what *)
(* a script holds are gone with them; outcome, marker and history stay.    *)
NoPlay == [outcome |-> "none", pc |-> 1, token |-> FALSE, uid |-> [k \in Kinds |-> 0],
           failed |-> FALSE, changed |-> FALSE, began |-> [s \in Scopes |-> 0]]
NoObject == [there |-> FALSE, uid |-> 0, labelled |-> FALSE, ending |-> FALSE,
             foreign |-> FALSE, early |-> FALSE]
NoHelper == [run |-> "none", at |-> "survey", i |-> 1, saw |-> "READY", missing |-> 0,
             wrote |-> {}, mounted |-> [s \in Scopes |-> 0]]

Init ==
    /\ engine \in Engines
    /\ \E stage \in [Scopes -> IF engine = "mongodb" THEN {"missing", "ready"}
                               ELSE {"missing", "role", "ready"}] :
       \E stray \in SUBSET {s \in MayStray : stage[s] # "missing"} :
         scope = [s \in Scopes |-> [stage |-> stage[s], password |-> 0, by |-> 0,
                                   stray |-> s \in stray]]
    /\ secret = [s \in Scopes |-> 0]
    /\ object = [p \in Plays |-> [k \in Kinds |-> NoObject]]
    /\ helper = [p \in Plays |-> NoHelper]
    /\ play = [p \in Plays |-> NoPlay]
    /\ late = {}
    /\ history = [together |-> FALSE, excused |-> FALSE]
    /\ mishaps = 0

Mishap == mishaps < MaxMishaps /\ mishaps' = mishaps + 1

---------------------------------------------------------------------------
(* The scripts' classification of a scope. On MongoDB, where one           *)
(* createUser makes a scope of nothing, a user must have the one role; on  *)
(* PostgreSQL nobody asks what else a role may connect to.                 *)
Drifted(s) ==
    \/ scope[s].stage \in {"database", "used"}
    \/ scope[s].stray /\ engine = "mongodb"

StateOf(s) ==
    IF Drifted(s) THEN "DRIFT"
    ELSE CASE scope[s].stage = "missing" -> "MISSING"
           [] scope[s].stage = "role" -> "ROLE_ONLY"
           [] OTHER -> "READY"

(* A mounted credential is the Secret's value when the Pod was made or a   *)
(* later one: the kubelet refreshes the mount in its own time.             *)
Mounted(p, s) == helper[p].mounted[s] .. secret[s]

---------------------------------------------------------------------------
(* The play. A failed task inside the block goes to the cleanup, one       *)
(* outside it ends the play.                                               *)
Running(p) == play[p].outcome = "running"
At(p, do, k) == Running(p) /\ Tasks[play[p].pc] = Step(do, k)

Ended(p, outcome) ==
    play' = [play EXCEPT ![p] = [NoPlay EXCEPT !.outcome = outcome]]
Done(p) ==
    play' = [play EXCEPT ![p] = [NoPlay EXCEPT !.outcome = "done",
                                    !.changed = play[p].changed, !.began = play[p].began]]
Fails(p) ==
    IF play[p].pc \in Block
    THEN play' = [play EXCEPT ![p].pc = Always, ![p].failed = TRUE]
    ELSE Ended(p, IF play[p].pc < Always THEN "refused" ELSE "failed")
(* Mutant of Skips: one task too many.                                     *)
SkipsOn(p, n) == play' = [play EXCEPT ![p].pc = @ + n]

Skips(p, n) ==
    IF play[p].pc + n > Len(Tasks)
    THEN IF play[p].failed THEN Ended(p, "failed") ELSE Done(p)
    ELSE play' = [play EXCEPT ![p].pc = @ + n]
Continues(p) == Skips(p, 1)

(* A task of the lane's guarded plugins, which read the token file again   *)
(* at every call.                                                          *)
Admitted(p) == play[p].token

StartPlay(p) ==
    /\ play[p].outcome = "none"
    /\ \A q \in 1 .. p - 1 : play[q].outcome # "none"
    /\ play' = [play EXCEPT ![p].outcome = "running", ![p].token = TRUE, ![p].began = secret]
    /\ IF \E q \in Plays : Running(q)
       THEN Mishap /\ history' = [history EXCEPT !.excused = TRUE]
       ELSE UNCHANGED <<mishaps, history>>
    /\ UNCHANGED <<cluster, object, helper, late>>

(* Mutant of Labelled: only what is over counts as stale.                  *)
LabelledIdle(k) ==
    {q \in Plays : object[q][k].there /\ object[q][k].labelled /\ helper[q].run # "running"}

(* The object of any run that carries the lane's and the engine's labels.  *)
Labelled(k) == {q \in Plays : object[q][k].there /\ object[q][k].labelled}

Stale(p, k) ==
    /\ At(p, "stale", k)
    /\ IF Labelled(k) = {} THEN Continues(p) ELSE Ended(p, "refused")
    /\ UNCHANGED <<cluster, object, helper, late, history, mishaps>>

(* The read-only script in the engine's Pod refuses a drifted scope.       *)
Check(p) ==
    /\ At(p, "check", "pod")
    /\ IF Admitted(p) /\ \A s \in Scopes : StateOf(s) # "DRIFT"
       THEN Continues(p) ELSE Ended(p, "refused")
    /\ UNCHANGED <<cluster, object, helper, late, history, mishaps>>

(* The object of play p appears; a Pod's script starts.                    *)
Appears(p, k) ==
    /\ object' = [object EXCEPT ![p][k] =
          [there |-> TRUE, uid |-> @.uid + 1, labelled |-> TRUE, ending |-> FALSE,
           foreign |-> FALSE, early |-> FALSE]]
    /\ helper' = IF k = "pod"
                 THEN [helper EXCEPT ![p].run = "running", ![p].mounted = secret]
                 ELSE helper

Joined(p, k) == k = "pod" /\ \E q \in Plays \ {p} : helper[q].run = "running"

Create(p, k) ==
    /\ At(p, "create", k)
    /\ IF Admitted(p)
       THEN /\ Appears(p, k)
            /\ Continues(p)
            /\ history' = [history EXCEPT !.together = @ \/ Joined(p, k)]
       ELSE Fails(p) /\ UNCHANGED <<object, helper, history>>
    /\ UNCHANGED <<cluster, late, mishaps>>

(* A creation the play counts as failed reaches the API server after all.  *)
Land(p, k) ==
    /\ <<p, k>> \in late
    /\ late' = late \ {<<p, k>>}
    /\ Appears(p, k)
    /\ history' = [together |-> history.together \/ Joined(p, k), excused |-> TRUE]
    /\ UNCHANGED <<cluster, play, mishaps>>

BindPolicy(p) ==
    /\ At(p, "bind", "policy")
    /\ IF object[p]["policy"].there
       THEN play' = [play EXCEPT ![p].uid["policy"] = object[p]["policy"].uid, ![p].pc = @ + 1]
       ELSE Fails(p)
    /\ UNCHANGED <<cluster, object, helper, late, history, mishaps>>

(* The Pod is terminal: bind its UID, then require phase and marker. What  *)
(* somebody else put in its place is terminal when it likes, and has none  *)
(* of the approved markers.                                                *)
Poll(p) ==
    /\ At(p, "poll", "pod")
    /\ object[p]["pod"].there
    /\ object[p]["pod"].foreign \/ helper[p].run \in {"succeeded", "failed"}
    /\ IF ~object[p]["pod"].foreign /\ helper[p].run = "succeeded"
       THEN play' = [play EXCEPT ![p].uid["pod"] = object[p]["pod"].uid,
                        ![p].changed = helper[p].missing > 0, ![p].pc = @ + 1]
       ELSE play' = [play EXCEPT ![p].uid["pod"] = object[p]["pod"].uid,
                        ![p].failed = TRUE, ![p].pc = Always]
    /\ UNCHANGED <<cluster, object, helper, late, history, mishaps>>

(* Sixty looks were not enough: the script is slow, or the Pod is gone.    *)
GiveUp(p) ==
    /\ At(p, "poll", "pod")
    /\ ~object[p]["pod"].there \/ object[p]["pod"].foreign \/ helper[p].run = "running"
    /\ Fails(p)
    /\ UNCHANGED <<cluster, object, helper, late, history, mishaps>>

(* Mutant of Find: an object that is not exactly the play's is passed over. *)
FindOrSkip(p, k) ==
    /\ At(p, "find", k)
    /\ LET o == object[p][k] IN
         IF o.there /\ o.labelled /\ play[p].uid[k] \in {0, o.uid}
         THEN play' = [play EXCEPT ![p].uid[k] = o.uid, ![p].pc = @ + 1]
         ELSE Skips(p, 3)
    /\ UNCHANGED <<cluster, object, helper, late, history, mishaps>>

(* Cleanup, for the Pod and then for the policy: read the object by name,  *)
(* require its labels and, when bound, its UID, bind an unbound UID ...    *)
Find(p, k) ==
    /\ At(p, "find", k)
    /\ LET o == object[p][k] IN
         CASE ~o.there -> Skips(p, 3)
           [] o.there /\ o.labelled /\ play[p].uid[k] \in {0, o.uid} ->
                play' = [play EXCEPT ![p].uid[k] = o.uid, ![p].pc = @ + 1]
           [] OTHER -> Fails(p)
    /\ UNCHANGED <<cluster, object, helper, late, history, mishaps>>

(* Mutant of Hits: the deletion has a name and no precondition.            *)
HitsByName(p, k) == TRUE

(* ... delete with that UID as the API server's precondition ...           *)
Hits(p, k) == object[p][k].uid = play[p].uid[k]

Delete(p, k) ==
    /\ At(p, "delete", k)
    /\ LET o == object[p][k] IN
         CASE Admitted(p) /\ ~o.there ->
                Continues(p) /\ UNCHANGED object
           [] Admitted(p) /\ o.there /\ Hits(p, k) ->
                Continues(p) /\ object' = [object EXCEPT ![p][k].ending = TRUE]
           [] OTHER -> Fails(p) /\ UNCHANGED object
    /\ UNCHANGED <<cluster, helper, late, history, mishaps>>

(* ... and wait until it is gone.                                          *)
Wait(p, k) ==
    /\ At(p, "wait", k)
    /\ ~object[p][k].there
    /\ Continues(p)
    /\ UNCHANGED <<cluster, object, helper, late, history, mishaps>>

Residue(p, k) ==
    /\ At(p, "residue", k)
    /\ IF Labelled(k) = {} THEN Continues(p) ELSE Fails(p)
    /\ UNCHANGED <<cluster, object, helper, late, history, mishaps>>

(* A task fails: the API server or the host does not answer, a wait is     *)
(* over too soon. A creation may be under way.                             *)
Underway(p) == {<<p, k>> : k \in {k \in Kinds : At(p, "create", k)}}

TaskFails(p) ==
    /\ Running(p)
    /\ Mishap
    /\ Fails(p)
    /\ late' \in {late, late \cup Underway(p)}
    /\ UNCHANGED <<cluster, object, helper, history>>

(* The play is killed; its wrapper's token may outlive it.                 *)
HardStop(p) ==
    /\ Running(p)
    /\ Ended(p, "crashed")
    /\ late' \in {late, late \cup Underway(p)}
    /\ UNCHANGED <<cluster, object, helper, history, mishaps>>

TokenGone(p) ==
    /\ Running(p) /\ play[p].token
    /\ Mishap
    /\ play' = [play EXCEPT ![p].token = FALSE]
    /\ UNCHANGED <<cluster, object, helper, late, history>>

---------------------------------------------------------------------------
(* The script in the Pod.                                                  *)
Script(p, at) == helper[p].run = "running" /\ helper[p].at = at
Goes(p, h) == helper' = [helper EXCEPT ![p] = h]
Exits(p, run) == Goes(p, [NoHelper EXCEPT !.run = run])
Succeeds(p, h) ==
    Goes(p, [NoHelper EXCEPT !.run = "succeeded", !.missing = h.missing, !.wrote = h.wrote])
Outside == <<engine, secret, object, play, late, history, mishaps>>

(* The next scope, or the next loop.                                       *)
NextScope(p, h, loop, after) ==
    IF h.i < N THEN Goes(p, [h EXCEPT !.at = loop, !.i = @ + 1])
    ELSE IF after = "exit" THEN Succeeds(p, h)
    ELSE Goes(p, [h EXCEPT !.at = after, !.i = 1])

Lacking == {"MISSING", "ROLE_ONLY"}

(* Mutant of Survey: a scope that has its role is not counted.             *)
SurveyMissing(p) ==
    /\ Script(p, "survey")
    /\ LET state == StateOf(helper[p].i)
           h == [helper[p] EXCEPT !.missing = IF state = "MISSING" THEN @ + 1 ELSE @]
       IN IF state = "DRIFT" THEN Exits(p, "failed")
          ELSE NextScope(p, h, "survey", IF h.missing = 0 THEN "login" ELSE "look")
    /\ UNCHANGED <<scope, Outside>>

(* First loop: no scope may drift; how many are to be made.                *)
Survey(p) ==
    /\ Script(p, "survey")
    /\ LET state == StateOf(helper[p].i)
           h == [helper[p] EXCEPT !.missing = IF state \in Lacking THEN @ + 1 ELSE @]
       IN IF state = "DRIFT" THEN Exits(p, "failed")
          ELSE NextScope(p, h, "survey", IF h.missing = 0 THEN "login" ELSE "look")
    /\ UNCHANGED <<scope, Outside>>

(* Mutant of Look: every scope is gone over, one that is there as well.    *)
LookAtAll(p) ==
    /\ Script(p, "look")
    /\ Goes(p, [helper[p] EXCEPT !.at = "principal",
          !.saw = IF StateOf(helper[p].i) = "MISSING" THEN "MISSING" ELSE "ROLE_ONLY"])
    /\ UNCHANGED <<scope, Outside>>

(* Second loop: read the scope again and leave it alone when it is there.  *)
Look(p) ==
    /\ Script(p, "look")
    /\ LET state == StateOf(helper[p].i) IN
         IF state \in Lacking
         THEN Goes(p, [helper[p] EXCEPT !.at = "principal", !.saw = state])
         ELSE NextScope(p, helper[p], "look", "verify")
    /\ UNCHANGED <<scope, Outside>>

(* CREATE ROLE, ALTER ROLE ... PASSWORD or createUser with the mounted     *)
(* password. A statement that finds the database otherwise than it was     *)
(* read ends the script.                                                   *)
Principal(p) ==
    /\ Script(p, "principal")
    /\ LET s == helper[p].i
           now == scope[s].stage
           into == IF engine = "mongodb" THEN "ready" ELSE "role"
           writes == [helper[p] EXCEPT !.wrote = @ \cup {s},
                         !.at = IF engine = "mongodb" THEN "login" ELSE "database"]
       IN \E v \in Mounted(p, s) :
            CASE helper[p].saw = "MISSING" /\ now = "missing" ->
                   /\ scope' = [scope EXCEPT ![s].stage = into, ![s].password = v]
                   /\ Goes(p, writes)
              [] helper[p].saw = "ROLE_ONLY" ->
                   /\ scope' = [scope EXCEPT ![s].password = v]
                   /\ Goes(p, writes)
              [] OTHER -> Exits(p, "failed") /\ UNCHANGED scope
    /\ UNCHANGED Outside

(* Mutant of CreateDatabase: a database that is there will do.             *)
CreateDatabaseOrTake(p) ==
    /\ Script(p, "database")
    /\ LET s == helper[p].i IN
         scope' = IF scope[s].stage = "role"
                  THEN [scope EXCEPT ![s].stage = "database", ![s].by = p] ELSE scope
    /\ Goes(p, [helper[p] EXCEPT !.at = "connect"])
    /\ UNCHANGED Outside

CreateDatabase(p) ==
    /\ Script(p, "database")
    /\ LET s == helper[p].i IN
         IF scope[s].stage = "role"
         THEN /\ scope' = [scope EXCEPT ![s].stage = "database", ![s].by = p]
              /\ Goes(p, [helper[p] EXCEPT !.at = "connect"])
         ELSE Exits(p, "failed") /\ UNCHANGED scope
    /\ UNCHANGED Outside

(* REVOKE CONNECT, TEMPORARY FROM PUBLIC and GRANT CONNECT to the owner.   *)
Connect(p) ==
    /\ Script(p, "connect")
    /\ LET s == helper[p].i IN
         scope' = [scope EXCEPT ![s].stage = IF @ = "database" THEN "connected" ELSE @]
    /\ Goes(p, [helper[p] EXCEPT !.at = "schema"])
    /\ UNCHANGED Outside

(* The grants of the public schema.                                        *)
Schema(p) ==
    /\ Script(p, "schema")
    /\ LET s == helper[p].i IN
         scope' = [scope EXCEPT ![s].stage = IF @ = "connected" THEN "ready" ELSE @]
    /\ NextScope(p, helper[p], "look", "verify")
    /\ UNCHANGED Outside

(* Last loop: every scope must read READY ...                              *)
Verify(p) ==
    /\ Script(p, "verify")
    /\ IF StateOf(helper[p].i) = "READY" THEN Goes(p, [helper[p] EXCEPT !.at = "login"])
       ELSE Exits(p, "failed")
    /\ UNCHANGED <<scope, Outside>>

(* ... and let its owner in with the mounted password. The loop that finds *)
(* every scope READY at once does only this. MongoDB has a login in its    *)
(* second loop too, right after createUser. PostgreSQL's                   *)
(* negative_authorization goes to the other databases with a password file *)
(* whose one line is for the own database: it is turned away there for     *)
(* want of a password whatever the grants are, and so always satisfied.    *)
(* Mutant of LogsIn: any password does.                                    *)
LogsInAnyhow(p, s) == TRUE

LogsIn(p, s) == \E v \in Mounted(p, s) : v = scope[s].password
ShutOut(p, s) == \E v \in Mounted(p, s) : v # scope[s].password

AfterLogin(p) ==
    LET h == helper[p] IN
      CASE h.missing = 0 -> NextScope(p, h, "login", "exit")
        [] h.missing > 0 /\ h.saw # "READY" /\ engine = "mongodb" ->
             NextScope(p, [h EXCEPT !.saw = "READY"], "look", "verify")
        [] OTHER -> NextScope(p, h, "verify", "exit")

Login(p) ==
    /\ Script(p, "login")
    /\ LET s == helper[p].i IN
         \/ LogsIn(p, s) /\ AfterLogin(p)
         \/ ShutOut(p, s) /\ Exits(p, "failed")
    /\ UNCHANGED <<scope, Outside>>

(* A statement fails on its own, or the Pod is evicted.                    *)
HelperFails(p) ==
    /\ helper[p].run = "running"
    /\ Mishap
    /\ Exits(p, "failed")
    /\ UNCHANGED <<cluster, object, play, late, history>>

HelperStep(p) ==
    \/ Survey(p) \/ Look(p) \/ Principal(p) \/ CreateDatabase(p) \/ Connect(p)
    \/ Schema(p) \/ Verify(p) \/ Login(p) \/ HelperFails(p)

---------------------------------------------------------------------------
(* The cluster. A deleted Pod's script goes on until the kubelet has       *)
(* killed it, then the object goes.                                        *)
Killed(p, k) ==
    helper' = IF k = "pod" /\ helper[p].run = "running"
              THEN [helper EXCEPT ![p] = [NoHelper EXCEPT !.run = "killed"]] ELSE helper

Gone(p, k) ==
    /\ object[p][k].there /\ object[p][k].ending
    /\ object' = [object EXCEPT ![p][k] = [NoObject EXCEPT !.uid = object[p][k].uid]]
    /\ Killed(p, k)
    /\ UNCHANGED <<cluster, play, late, history, mishaps>>

(* Somebody else removes an object, puts another of the same name in its   *)
(* place, or takes its labels away.                                        *)
Remove(p, k) ==
    /\ object[p][k].there /\ ~object[p][k].ending
    /\ Mishap
    /\ object' = [object EXCEPT ![p][k] = [NoObject EXCEPT !.uid = object[p][k].uid]]
    /\ Killed(p, k)
    /\ UNCHANGED <<cluster, play, late, history>>

Replace(p, k) ==
    /\ object[p][k].there /\ ~object[p][k].ending
    /\ Mishap
    /\ \E labelled \in BOOLEAN :
         object' = [object EXCEPT ![p][k] =
            [there |-> TRUE, uid |-> @.uid + 1, labelled |-> labelled, ending |-> FALSE,
             foreign |-> TRUE, early |-> play[p].uid[k] = 0]]
    /\ Killed(p, k)
    /\ UNCHANGED <<cluster, play, late, history>>

Relabel(p, k) ==
    /\ object[p][k].there /\ object[p][k].labelled
    /\ Mishap
    /\ object' = [object EXCEPT ![p][k].labelled = FALSE]
    /\ history' = [history EXCEPT !.excused = TRUE]
    /\ UNCHANGED <<cluster, helper, play, late>>

(* Infisical writes a new password into a Secret.                          *)
NewSecret(s) ==
    /\ Mishap
    /\ secret' = [secret EXCEPT ![s] = @ + 1]
    /\ UNCHANGED <<engine, scope, object, helper, play, late, history>>

(* An application stores its data in a scope that is open to its owner.    *)
Use(s) ==
    /\ scope[s].stage \in {"connected", "ready"}
    /\ Mishap
    /\ scope' = [scope EXCEPT ![s].stage = "used"]
    /\ UNCHANGED <<engine, secret, object, helper, play, late, history>>

PlayStep(p) ==
    \/ StartPlay(p) \/ Check(p) \/ BindPolicy(p) \/ Poll(p) \/ GiveUp(p)
    \/ TaskFails(p) \/ HardStop(p) \/ TokenGone(p)
    \/ \E k \in Kinds : \/ Stale(p, k) \/ Create(p, k) \/ Find(p, k)
                        \/ Delete(p, k) \/ Wait(p, k) \/ Residue(p, k)

Others(p) ==
    \E k \in Kinds : Land(p, k) \/ Gone(p, k) \/ Remove(p, k) \/ Replace(p, k) \/ Relabel(p, k)

Next ==
    \/ \E p \in Plays : PlayStep(p) \/ HelperStep(p) \/ Others(p)
    \/ \E s \in Scopes : NewSecret(s) \/ Use(s)

Spec == Init /\ [][Next]_vars

---------------------------------------------------------------------------
PlayType ==
    [outcome : {"none", "running", "done", "refused", "failed", "crashed"},
     pc : 1 .. 15, token : BOOLEAN, uid : [Kinds -> Nat], failed : BOOLEAN,
     changed : BOOLEAN, began : [Scopes -> Nat]]
ObjectType ==
    [there : BOOLEAN, uid : Nat, labelled : BOOLEAN, ending : BOOLEAN,
     foreign : BOOLEAN, early : BOOLEAN]
HelperType ==
    [run : {"none", "running", "succeeded", "failed", "killed"},
     at : {"survey", "look", "principal", "database", "connect", "schema", "verify", "login"},
     i : Scopes, saw : {"READY"} \cup Lacking, missing : Nat, wrote : SUBSET Scopes,
     mounted : [Scopes -> Nat]]

(* The variables keep their types.                                         *)
TypeOK ==
    /\ engine \in Engines
    /\ scope \in [Scopes -> [stage : Stages, password : Nat, by : Plays \cup {0},
                         stray : BOOLEAN]]
    /\ secret \in [Scopes -> Nat]
    /\ object \in [Plays -> [Kinds -> ObjectType]]
    /\ helper \in [Plays -> HelperType]
    /\ play \in [Plays -> PlayType]
    /\ late \subseteq Plays \X Kinds
    /\ history \in [together : BOOLEAN, excused : BOOLEAN]
    /\ mishaps \in 0 .. MaxMishaps

(* Two helper scripts work on the engine at once only if two plays were    *)
(* started over each other, a creation took effect after the play had      *)
(* given it up, or somebody took the labels by which a stale helper is     *)
(* found. Hard stops, failed cleanups and slow scripts are no reason.      *)
OneHelper == history.together => history.excused

(* The cleanup never deletes what somebody put in the place of an object   *)
(* whose UID the play had bound; before that it cannot tell.               *)
ReplacementKept ==
    [][\A p \in Plays, k \in Kinds :
         object'[p][k].ending /\ ~object[p][k].ending
            => ~object[p][k].foreign \/ object[p][k].early]_vars

(* A play that ends well leaves neither of its objects behind.             *)
ResidueFree ==
    \A p \in Plays : play[p].outcome = "done" =>
        \A k \in Kinds : ~object[p][k].there

(* The password of a complete scope is never changed, not even when its    *)
(* Secret was: "It never performs an implicit credential rotation of a     *)
(* complete scope" (the runbook). Two scripts at once are the exception.   *)
NoImplicitRotation ==
    [][\A s \in Scopes :
         scope[s].stage \in HasDatabase /\ scope'[s].password # scope[s].password
            => history.together]_vars

(* A database is closed to PUBLIC and opened to its owner only by the      *)
(* script that created it; one left half done waits for a reviewed         *)
(* decision, and no later play takes it up.                                *)
HalfDoneWaits ==
    [][\A s \in Scopes :
         scope[s].stage \in {"database", "connected"} /\ scope'[s].stage # scope[s].stage
            => \/ \E p \in Plays : /\ p = scope[s].by
                                  /\ helper[p].run = "running" /\ helper[p].i = s
                                  /\ helper'[p] # helper[p]
               \/ scope[s].stage = "connected" /\ scope'[s].stage = "used"]_vars

(* CHANGED:n counts the scopes this script provisioned, READY means none,  *)
(* and the play reports a change exactly when there was one.               *)
CountHonest ==
    \A p \in Plays : helper[p].run = "succeeded" /\ ~history.together =>
        /\ Cardinality(helper[p].wrote) = helper[p].missing
        /\ play[p].outcome = "done" => play[p].changed = (helper[p].wrote # {})

(* After a play that ended well every scope is there, closed to the        *)
(* others, and opens with a password its Secret has had since the play     *)
(* began.                                                                  *)
DoneIsEstablished ==
    \A p \in Plays : play[p].outcome = "done" /\ ~history.together =>
        \A s \in Scopes : /\ scope[s].stage \in Established
                          /\ scope[s].password \in play[p].began[s] .. secret[s]

(* After a play that ended well no owner may enter another scope's         *)
(* database: what "cross-database ... negatives" of the fixed scripts      *)
(* (KIF-DBP-03 in testcases.md) would show.                                *)
NegativesProved ==
    \A p \in Plays : play[p].outcome = "done" /\ ~history.together =>
        \A s \in Scopes : ~scope[s].stray
=============================================================================
