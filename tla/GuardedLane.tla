------------------------------ MODULE GuardedLane ------------------------------
(***************************************************************************)
(* A lane at work: an Ansible play of a role whose only mutations go       *)
(* through its guarded action plugin (module LaneContracts has the tables),*)
(* on a cluster and a checkout that other people and controllers change    *)
(* between any two of its steps.                                           *)
(*                                                                         *)
(* A play may also be a call of the plugin from a task of somebody's own,  *)
(* a play with skipped tasks, or one with the role's internal variables    *)
(* set from outside. It may be stopped anywhere and started again.         *)
(***************************************************************************)
EXTENDS Naturals, Sequences, FiniteSets

CONSTANTS
    Lanes,            \* the lanes, records as in LaneContracts
    MaxPlays,         \* bound: plays started
    MaxMishaps        \* bound: changes of the cluster by somebody else, edits in
                      \* the checkout, failed calls of the API server and plays
                      \* started by hand, together

Elements(seq) == {seq[i] : i \in DOMAIN seq}
Own(l) == Elements(l.own)
Objects(l) == Own(l) \cup Elements(l.watched)

(* Tasks that only compare what was read, and stop the play on a mismatch. *)
Writing == {"apply", "applyWhen", "create", "swap"}
Reading == {"read", "inventory", "look", "waitPresent", "waitExact"}
Owners == {"acceptLabels", "acceptExact", "acceptRevision", "acceptOurs", "acceptOldOrNew"}

(* A lane that does not take objects from others looks at each before it   *)
(* writes it and refuses it when it is not the lane's.                     *)
Claims(l, o) == \E i \in DOMAIN l.script : /\ l.script[i].do \in Owners
                                           /\ o \in Elements(l.script[i].on)
LookedAt(l, o, i) ==
    \E r, a \in 1 .. i - 1 :
       /\ r < a
       /\ l.script[r].do = "read" /\ o \in Elements(l.script[r].on)
       /\ l.script[a].do \in Owners /\ o \in Elements(l.script[a].on)
Sealed(l) == {"selection", "source"} \subseteq l.plugin.guards

(* One of these tasks deals with o before task i, and none of the looks    *)
(* listed comes to o between the two.                                      *)
Keeping == {"read", "waitPresent", "waitExact"}
Handles(l, i, tasks, o) == l.script[i].do \in tasks /\ o \in Elements(l.script[i].on)
Shown(l, o, i, tasks, looks) ==
    \E a \in 1 .. i - 1 : /\ Handles(l, a, tasks, o)
                         /\ \A t \in a + 1 .. i - 1 : ~Handles(l, t, looks, o)

(* What stands in the script before rbac is written, object by object.     *)
Staged(l) == "target" \in Objects(l)
AcceptedBy(l, o, i, tasks) == Shown(l, o, i, tasks, Keeping)
GrantPrepared(l, o, i) ==
    CASE o = "policy" -> Shown(l, o, i, {"waitPresent", "waitExact", "inEffect"}, Reading)
      [] o = "binding" -> Shown(l, o, i, {"waitExact", "inEffect"}, Reading)
      [] o = "alternate" -> Shown(l, o, i, {"none"}, Reading)
      [] o = "target" -> /\ AcceptedBy(l, o, i, {"acceptExact"})
                         /\ Shown(l, o, i, {"sameVersion"}, Reading)
      [] o = "credential" -> /\ AcceptedBy(l, o, i, {"acceptOurs"})
                             /\ Shown(l, o, i, {"read"}, Keeping \cup {"inventory"})
                             /\ Shown(l, o, i, {"sameInventory"}, Reading)
      [] OTHER -> \/ Shown(l, o, i, {"sameVersion", "sameIdentity"}, Reading)
                  \/ Shown(l, o, i, {"read"}, Reading)
CreatePrepared(l, o, i) ==
    /\ Shown(l, o, i, {"sameSpec"}, Reading)
    /\ "credential" \in Objects(l)
    /\ AcceptedBy(l, "credential", i, {"acceptOurs"})
    /\ Shown(l, "credential", i, {"sameVersion"}, Reading)

(* An object that a play that ends well has put right: it is applied or    *)
(* swapped as it was read, by a plugin that has its own idea of the content*)
(* or after the manifests were hashed; or looked at last and found exact.  *)
Repairs(l, a, o) ==
    /\ \/ Handles(l, a, {"apply"}, o)
       \/ Handles(l, a, {"swap"}, o) /\ Shown(l, o, a, {"read"}, Writing)
    /\ l.plugin.closure = "files" => \E h \in 1 .. a - 1 : l.script[h].do = "hash"
Completed(l, o) ==
    LET end == Len(l.script) + 1 IN
    \/ \E a \in DOMAIN l.script : Repairs(l, a, o)
    \/ Shown(l, o, end, {"verifyExact"}, Reading) /\ Shown(l, o, end, {"look"}, Writing)

(* What a refusal of task i over o goes by: nothing that the lane has      *)
(* written since it was looked at, and nothing it may find otherwise.      *)
Answerable(l, o, i) ==
    LET do == l.script[i].do
        kept == Shown(l, o, i, Keeping, Writing)
        last == Shown(l, o, i, Reading, Writing) IN
    CASE do \in {"acceptLabels", "acceptRevision"} -> kept /\ o \in Own(l)
      [] do = "acceptExact" -> kept /\ o \in Own(l) \cup {"target"}
      [] do = "acceptOurs" -> kept /\ o = "credential"
      [] do = "acceptOldOrNew" -> kept /\ o = "corefile" /\ o \in Own(l)
      [] do = "none" -> last /\ o = "alternate"
      [] do \in {"sameVersion", "sameIdentity"} -> kept /\ last
      [] do = "sameInventory" -> Shown(l, o, i, {"inventory"}, Writing) /\ last /\ o # "target"
      [] do = "sameSpec" -> kept /\ last /\ o \in Own(l)
      [] do = "inEffect" -> /\ kept /\ last /\ o \in Own(l) /\ l.plugin.closure # "files"
                            /\ \E a \in 1 .. i - 1 : Handles(l, a, {"apply"}, o)
      [] OTHER -> TRUE

(* Nothing is written before the target was read and accepted.             *)
TargetFirst(l, i) ==
    l.script[i].do \in Writing =>
       /\ AcceptedBy(l, "target", i, {"acceptExact"})
       /\ Shown(l, "target", i, Keeping, Writing)

ASSUME LaneAssumption ==
    /\ MaxPlays \in Nat /\ MaxMishaps \in Nat
    /\ \A l \in Lanes :
         /\ l.script \in Seq([do : STRING, on : Seq(Objects(l))])
         /\ l.plugin.guards \subseteq
              {"selection", "source", "attestation", "binding", "arguments"}
         /\ l.plugin.closure \in {"hash", "files", "values", "patch"}
         /\ "arguments" \in l.plugin.guards
         /\ "target" \notin Own(l)
         /\ l.plugin.closure \in {"values", "patch"} =>
              /\ "source" \in l.plugin.guards
              /\ \A i \in DOMAIN l.script : l.script[i].do # "load"
         /\ \A i \in DOMAIN l.script :
              /\ l.script[i].do \in Reading \cup Writing => l.script[i].on # <<>>
              /\ l.script[i].do \in Writing => Elements(l.script[i].on) \subseteq Own(l)
         /\ \A i \in DOMAIN l.script : \A o \in Elements(l.script[i].on) :
              l.script[i].do \in Writing /\ Claims(l, o) => LookedAt(l, o, i)

(* What the properties that a script alone decides need of it.             *)
ASSUME ScriptAssumption ==
    \A l \in Lanes :
       /\ Staged(l) => Sealed(l) /\ Own(l) # {}
       /\ {"alternate", "credential"} \cap Own(l) = {}
       /\ \A i \in DOMAIN l.script :
             /\ \A o \in Elements(l.script[i].on) : Answerable(l, o, i)
             /\ Staged(l) => TargetFirst(l, i)
             /\ Staged(l) /\ Handles(l, i, Writing, "rbac") =>
                   \A o \in Objects(l) \ {"rbac"} : GrantPrepared(l, o, i)
             /\ l.script[i].do = "create" =>
                   Sealed(l) /\ \A o \in Elements(l.script[i].on) : CreatePrepared(l, o, i)
       /\ \A o \in Own(l) : Completed(l, o)

---------------------------------------------------------------------------
(* Objects. "ours" has every field that the reviewed manifest sets as it   *)
(* sets it; "drifted" and "edited" carry the labels of the lane and differ *)
(* in such a field, the latter by an edited manifest. A mutation merges:   *)
(* what no manifest sets stays as it is, and is no part of a shape. uid and*)
(* rev are metadata.uid and metadata.resourceVersion; an absent object     *)
(* keeps the last ones.                                                    *)
Shapes == {"absent", "ours", "drifted", "edited", "foreign"}
Live == [shape : Shapes, uid : Nat, rev : Nat]
There(x) == x.shape # "absent"
Unread == [shape |-> "absent", uid |-> 0, rev |-> 0]

Becomes(x, shape) ==
    IF x.shape = shape THEN x
    ELSE [shape |-> shape, uid |-> IF There(x) THEN x.uid ELSE x.uid + 1, rev |-> x.rev + 1]

SameIdentity(x, y) == There(x) = There(y) /\ (There(x) => x.uid = y.uid)

SameVersion(x, y) == SameIdentity(x, y) /\ (There(x) => x.rev = y.rev)

---------------------------------------------------------------------------
VARIABLES
    lane,      \* the lane this behaviour is about
    cluster,   \* its objects
    files,     \* its manifests in the checkout
    attested,  \* whether the wrapper's token file is there
    play,      \* the play that runs, or the last one
    spent      \* what is used up of the bounds

vars == <<lane, cluster, files, attested, play, spent>>

Own0(l) == [o \in Objects(l) |-> Unread]

(* kind: the role, or a task of somebody's own. item: place in the loop.   *)
(* seen, first, again: what the role holds of its looks at the objects.    *)
(* failed: an item of this loop failed. skipped: a task was left out.      *)
(* old: objects that were another's when the play began and still are;     *)
(* touched: objects somebody else has changed since the play began;        *)
(* revised: objects whose manifest was edited since. These three are       *)
(* history: no step depends on them.                                       *)
NoPlay(l) ==
    [kind |-> "role", skipping |-> FALSE, injected |-> FALSE, skipped |-> FALSE,
     pc |-> 1, item |-> 1, loaded |-> [o \in Objects(l) |-> "none"],
     seen |-> Own0(l), first |-> Own0(l), again |-> Own0(l),
     bound |-> FALSE, failed |-> FALSE, old |-> {}, touched |-> {}, revised |-> {},
     outcome |-> "none"]

Outcomes == {"none", "running", "done", "refused", "foreign", "raced", "failed", "crashed"}

(* Nothing is there yet, or all of it, from this or an earlier revision of *)
(* the manifests. The Corefile and the credential are always there.        *)
Initially(o, shape) ==
    CASE o = "alternate" -> Unread
      [] o = "credential" -> [shape |-> "ours", uid |-> 1, rev |-> 1]
      [] o = "corefile" /\ shape = "absent" -> [shape |-> "drifted", uid |-> 1, rev |-> 1]
      [] OTHER -> [shape |-> shape, uid |-> 1, rev |-> 1]

Init ==
    /\ lane \in Lanes
    /\ \E shape \in {"absent", "ours", "drifted"} :
         cluster = [o \in Objects(lane) |-> Initially(o, shape)]
    /\ files = [o \in Own(lane) |-> "reviewed"]
    /\ attested = FALSE
    /\ play = NoPlay(lane)
    /\ spent = [plays |-> 0, interference |-> 0, edits |-> 0, faults |-> 0, byHand |-> 0]

Mishaps == spent.interference + spent.edits + spent.faults + spent.byHand
Running == play.outcome = "running"
Task == lane.script[play.pc]
InTask == Running /\ play.kind = "role" /\ play.pc \in DOMAIN lane.script
At(do) == InTask /\ Task.do = do
Item == Task.on[play.item]

Moved(p) == [p EXCEPT !.pc = @ + 1, !.item = 1, !.failed = FALSE,
                      !.outcome = IF p.pc = Len(lane.script) THEN "done" ELSE @]
(* Mutant of Looped: the last item of a loop decides about the task.       *)
LoopedOn(p) == IF p.item < Len(Task.on) THEN [p EXCEPT !.item = @ + 1, !.failed = FALSE]
               ELSE IF p.failed THEN [p EXCEPT !.outcome = "failed"] ELSE Moved(p)

(* The next item of the loop, or the next task; an item that failed does   *)
(* not keep the later ones from being tried, it fails the task at its end. *)
Looped(p) ==
    IF p.item < Len(Task.on) THEN [p EXCEPT !.item = @ + 1]
    ELSE IF p.failed THEN [p EXCEPT !.outcome = "failed"]
    ELSE Moved(p)
Stopped(p, outcome) == [p EXCEPT !.outcome = outcome]

Pass(condition, otherwise) ==
    /\ play' = IF condition THEN Moved(play) ELSE Stopped(play, otherwise)
    /\ UNCHANGED <<lane, cluster, files, attested, spent>>

---------------------------------------------------------------------------
(* Starting and ending.                                                    *)

(* The wrapper writes the token file, starts the role, passes no options.  *)
StartWrapped ==
    /\ ~Running /\ spent.plays < MaxPlays
    /\ play' = [NoPlay(lane) EXCEPT !.outcome = "running",
                   !.old = {o \in Objects(lane) : cluster[o].shape = "foreign"}]
    /\ attested' = TRUE
    /\ spent' = [spent EXCEPT !.plays = @ + 1]
    /\ UNCHANGED <<lane, cluster, files>>

(* A play by hand, with whatever token file is there.                      *)
StartByHand ==
    /\ ~Running /\ spent.plays < MaxPlays /\ Mishaps < MaxMishaps
    /\ \E kind \in {"role", "task"}, skipping, injected \in BOOLEAN :
         play' = [NoPlay(lane) EXCEPT !.outcome = "running", !.kind = kind,
                     !.skipping = skipping, !.injected = injected,
                     !.bound = injected,
                     !.loaded = [o \in Objects(lane) |-> IF injected THEN "edited" ELSE "none"],
                     !.old = {o \in Objects(lane) : cluster[o].shape = "foreign"}]
    /\ attested' \in BOOLEAN
    /\ spent' = [spent EXCEPT !.plays = @ + 1, !.byHand = @ + 1]
    /\ UNCHANGED <<lane, cluster, files>>

Crash ==
    /\ Running
    /\ play' = Stopped(NoPlay(lane), "crashed") /\ attested' = FALSE
    /\ UNCHANGED <<lane, cluster, files, spent>>

(* The wrapper is stopped and removes its token file; the play goes on.    *)
WrapperEnds ==
    /\ Running /\ attested
    /\ attested' = FALSE
    /\ UNCHANGED <<lane, cluster, files, play, spent>>

(* One task is left out, whichever it is.                                  *)
Skip ==
    /\ InTask /\ play.skipping /\ ~play.skipped
    /\ play' = [Moved(play) EXCEPT !.skipped = TRUE]
    /\ UNCHANGED <<lane, cluster, files, attested, spent>>

---------------------------------------------------------------------------
(* The gates before the cluster is looked at.                              *)

Reject == At("reject") /\ Pass(~play.injected, "refused")

Attest == At("attest") /\ Pass(attested, "refused")

Hash == At("hash") /\ Pass(\A o \in Own(lane) : files[o] = "reviewed", "refused")

(* Mutant of Load: the manifests alone are kept.                           *)
LoadOwn ==
    /\ At("load")
    /\ play' = [Moved(play) EXCEPT !.loaded = files]
    /\ UNCHANGED <<lane, cluster, files, attested, spent>>

(* A variable set from outside is not replaced by what the role reads.     *)
Load ==
    /\ At("load")
    /\ play' = IF play.injected THEN Moved(play)
               ELSE [Moved(play) EXCEPT
                       !.loaded = [o \in Objects(lane) |->
                                     IF o \in Own(lane) THEN files[o] ELSE "none"]]
    /\ UNCHANGED <<lane, cluster, files, attested, spent>>

Content == At("content") /\ Pass(\A o \in Own(lane) : play.loaded[o] = "reviewed", "refused")

(* A contract about a few fields of what was loaded: an edit may meet it.  *)
Contract ==
    /\ At("contract")
    /\ \E met \in BOOLEAN :
         Pass(met \/ \A o \in Own(lane) : play.loaded[o] = "reviewed", "refused")

---------------------------------------------------------------------------
(* Looking at the objects, one call of the API server each.                *)

Read ==
    /\ At("read")
    /\ play' = Looped([play EXCEPT !.seen[Item] = cluster[Item], !.again[Item] = cluster[Item]])
    /\ UNCHANGED <<lane, cluster, files, attested, spent>>

Inventory ==
    /\ At("inventory")
    /\ play' = Looped([play EXCEPT !.first[Item] = cluster[Item], !.again[Item] = cluster[Item]])
    /\ UNCHANGED <<lane, cluster, files, attested, spent>>

Look ==
    /\ At("look")
    /\ play' = Looped([play EXCEPT !.again[Item] = cluster[Item]])
    /\ UNCHANGED <<lane, cluster, files, attested, spent>>

(* Polled until it is as wanted, for so long; what was found then is what  *)
(* later looks are compared with.                                          *)
Wait(do, Wanted(_)) ==
    /\ At(do)
    /\ \/ /\ Wanted(cluster[Item])
          /\ play' = Looped([play EXCEPT !.seen[Item] = cluster[Item],
                                         !.again[Item] = cluster[Item]])
       \/ /\ ~Wanted(cluster[Item])
          /\ play' = Stopped(play, "failed")
    /\ UNCHANGED <<lane, cluster, files, attested, spent>>
WaitPresent == Wait("waitPresent", There)
WaitExact == LET Exact(x) == x.shape = "ours" IN Wait("waitExact", Exact)

---------------------------------------------------------------------------
(* What is found must be the lane's own, or nothing.                       *)

Seen(shapes) == \A o \in Elements(Task.on) : play.seen[o].shape \in shapes
Labelled == {"ours", "drifted", "edited"}

(* Mutant of AcceptLabels: whatever is there is taken over.                *)
AcceptLabelsNot == At("acceptLabels") /\ Pass(TRUE, "foreign")

AcceptLabels == At("acceptLabels") /\ Pass(Seen({"absent"} \cup Labelled), "foreign")

(* Mutant of AcceptExact: an object that is there already is refused.      *)
AcceptAbsent == At("acceptExact") /\ Pass(Seen({"absent"}), "foreign")

AcceptExact == At("acceptExact") /\ Pass(Seen({"absent", "ours"}), "foreign")
AcceptOurs == At("acceptOurs") /\ Pass(Seen({"ours"}), "foreign")

(* An earlier revision that the role knows is accepted, other drift is not.*)
AcceptRevision ==
    /\ At("acceptRevision")
    /\ \E known \in BOOLEAN :
         Pass(Seen(IF known THEN {"absent", "ours", "drifted"} ELSE {"absent", "ours"}),
              "foreign")

(* Together with gates over other components, which may refuse as well.    *)
AcceptThere ==
    /\ At("acceptThere")
    /\ \E open \in BOOLEAN : Pass(open /\ Seen(Shapes \ {"absent"}), "refused")
AcceptOldOrNew == At("acceptOldOrNew") /\ Pass(Seen({"drifted", "ours"}), "foreign")
AcceptAllOrNone ==
    /\ At("acceptAllOrNone")
    /\ Pass(Seen({"absent"}) \/ Seen(Shapes \ {"absent"}), "foreign")

(* The count of the sources that are there already must be 0 or 1.         *)
AtMostOne ==
    /\ At("atMostOne")
    /\ Pass(Cardinality({o \in Elements(Task.on) : There(play.seen[o])}) <= 1, "foreign")

---------------------------------------------------------------------------
(* A later look compared with an earlier one.                              *)

Compare(do, Same(_)) == At(do) /\ Pass(\A o \in Elements(Task.on) : Same(o), "raced")

None == Compare("none", LAMBDA o : ~There(play.again[o]))

CompareVersion == Compare("sameVersion", LAMBDA o : SameVersion(play.seen[o], play.again[o]))
CompareIdentity == Compare("sameIdentity", LAMBDA o : SameIdentity(play.seen[o], play.again[o]))
(* Mutant of CompareInventory: an update that keeps the uid goes unnoticed.*)
CompareInventoryUid ==
    Compare("sameInventory", LAMBDA o : SameIdentity(play.first[o], play.again[o]))

CompareInventory ==
    Compare("sameInventory", LAMBDA o : SameVersion(play.first[o], play.again[o]))

(* Mutant of CompareSpec: what was not there is not compared.              *)
CompareSpecFound ==
    Compare("sameSpec", LAMBDA o : There(play.seen[o]) =>
                                      /\ SameIdentity(play.seen[o], play.again[o])
                                      /\ play.again[o].shape \in {"absent", "ours"})

CompareSpec ==
    Compare("sameSpec", LAMBDA o : /\ SameIdentity(play.seen[o], play.again[o])
                                   /\ play.again[o].shape \in {"absent", "ours"})
InEffect ==
    Compare("inEffect", LAMBDA o : /\ play.again[o].shape = "ours"
                                   /\ play.again[o].uid = play.seen[o].uid)

VerifyExact ==
    /\ At("verifyExact")
    /\ Pass(\A o \in Elements(Task.on) : play.again[o].shape = "ours", "failed")
VerifyLabels ==
    /\ At("verifyLabels")
    /\ Pass(\A o \in Elements(Task.on) : play.again[o].shape \in Labelled, "failed")

(* Any object may have the few fields that are compared, or another value. *)
VerifyPart ==
    /\ At("verifyPart")
    /\ \E same \in BOOLEAN :
         Pass(same /\ \A o \in Elements(Task.on) : There(play.again[o]), "failed")

(* The facts of the preflight are set for the plugin to find.              *)
Bind ==
    /\ At("bind")
    /\ play' = [Moved(play) EXCEPT !.bound = TRUE]
    /\ UNCHANGED <<lane, cluster, files, attested, spent>>

---------------------------------------------------------------------------
(* The plugin: what it demands of a call before it hands it on.            *)

(* Mutant of Meets: the token in the environment is enough.                *)
MeetsByToken(guard, exact) ==
    CASE guard = "selection" -> ~play.skipping
      [] guard = "source" -> play.kind = "role"
      [] guard = "binding" -> play.bound
      [] OTHER -> exact

Meets(guard, exact) ==
    CASE guard = "selection" -> ~play.skipping
      [] guard = "source" -> play.kind = "role"
      [] guard = "attestation" -> attested
      [] guard = "binding" -> play.bound
      [] guard = "arguments" -> exact

(* Mutant of InClosure: any definition of a known object is in it.         *)
InClosureByName(o, content) == lane.plugin.closure = "files" => content = files[o]

InClosure(o, content) ==
    /\ lane.plugin.closure = "hash" => content = "reviewed"
    /\ lane.plugin.closure = "files" => content = files[o]

Permits(o, content, exact) ==
    /\ \A guard \in lane.plugin.guards : Meets(guard, exact)
    /\ InClosure(o, content)

(* What the role hands over; values and patches come from no manifest.     *)
FromFiles == \E i \in DOMAIN lane.script : lane.script[i].do = "load"
Definition(o) == IF FromFiles THEN play.loaded[o] ELSE "reviewed"
Written(content) == IF content = "edited" THEN "edited" ELSE "ours"

(* One item of a loop: permitted and written, refused, or lost to a fault. *)
Put(o) ==
    \/ /\ Permits(o, Definition(o), TRUE)
       /\ cluster' = [cluster EXCEPT ![o] = Becomes(@, Written(Definition(o)))]
       /\ play' = Looped(play)
       /\ UNCHANGED spent
    \/ /\ ~Permits(o, Definition(o), TRUE)
       /\ play' = Looped([play EXCEPT !.failed = TRUE])
       /\ UNCHANGED <<cluster, spent>>
    \/ /\ Mishaps < MaxMishaps
       /\ play' = Looped([play EXCEPT !.failed = TRUE])
       /\ spent' = [spent EXCEPT !.faults = @ + 1]
       /\ UNCHANGED cluster

PassOver == play' = Looped(play) /\ UNCHANGED <<cluster, spent>>

Apply == At("apply") /\ Put(Item) /\ UNCHANGED <<lane, files, attested>>

(* Skipped where the condition of the item fails.                          *)
ApplyWhen ==
    /\ At("applyWhen")
    /\ IF attested /\ play.bound /\ Definition(Item) = "reviewed" THEN Put(Item) ELSE PassOver
    /\ UNCHANGED <<lane, files, attested>>

(* Only where the first look at the object found nothing.                  *)
Create ==
    /\ At("create")
    /\ IF There(play.seen[Item]) THEN PassOver ELSE Put(Item)
    /\ UNCHANGED <<lane, files, attested>>

(* A patch that tests the content that was read before it replaces it.     *)
Swap ==
    /\ At("swap")
    /\ IF play.seen[Item].shape = "ours" THEN PassOver
       ELSE IF cluster[Item].shape = play.seen[Item].shape THEN Put(Item)
       ELSE play' = Looped([play EXCEPT !.failed = TRUE]) /\ UNCHANGED <<cluster, spent>>
    /\ UNCHANGED <<lane, files, attested>>

(* A task of somebody's own calls the plugin, with state: absent perhaps.  *)
CallByHand ==
    /\ Running /\ play.kind = "task"
    /\ \E o \in Own(lane), content \in {"reviewed", "edited"}, exact \in BOOLEAN :
         \/ /\ Permits(o, content, exact)
            /\ cluster' = [cluster EXCEPT
                              ![o] = Becomes(@, IF exact THEN Written(content) ELSE "absent")]
            /\ play' = Stopped(play, "done")
         \/ /\ ~Permits(o, content, exact)
            /\ play' = Stopped(play, "refused")
            /\ UNCHANGED cluster
    /\ UNCHANGED <<lane, files, attested, spent>>

---------------------------------------------------------------------------
(* Everybody else.                                                         *)

(* An object is created, changed, deleted, or deleted and created again as *)
(* it was.                                                                 *)
Interfere ==
    /\ Mishaps < MaxMishaps
    /\ \E o \in Objects(lane), shape \in Shapes \ {"edited"}, replaced \in BOOLEAN :
         /\ There(cluster[o]) \/ shape # "absent"
         /\ replaced => There(cluster[o]) /\ shape = cluster[o].shape
         /\ cluster' = [cluster EXCEPT
               ![o] = [shape |-> shape, rev |-> @.rev + 1,
                       uid |-> IF replaced \/ ~There(@) THEN @.uid + 1 ELSE @.uid]]
         /\ play' = [play EXCEPT !.old = @ \ {o}, !.touched = @ \cup {o}]
    /\ spent' = [spent EXCEPT !.interference = @ + 1]
    /\ UNCHANGED <<lane, files, attested>>

(* The operator writes a target once its rights and its sources are there. *)
Materialize ==
    /\ "target" \in Objects(lane) /\ ~There(cluster["target"])
    /\ \A o \in Own(lane) \ {"policy", "binding"} : cluster[o].shape = "ours"
    /\ cluster' = [cluster EXCEPT !["target"] = Becomes(@, "ours")]
    /\ UNCHANGED <<lane, files, attested, play, spent>>

EditFile ==
    /\ Mishaps < MaxMishaps
    /\ \E o \in Own(lane) :
         /\ files' = [files EXCEPT ![o] = IF @ = "edited" THEN "reviewed" ELSE "edited"]
         /\ play' = [play EXCEPT !.revised = @ \cup {o}]
    /\ spent' = [spent EXCEPT !.edits = @ + 1]
    /\ UNCHANGED <<lane, cluster, attested>>

---------------------------------------------------------------------------
Gate == Reject \/ Attest \/ Hash \/ Load \/ Content \/ Contract \/ Bind
Observe == Read \/ Inventory \/ Look \/ WaitPresent \/ WaitExact
Accept == \/ AcceptLabels \/ AcceptExact \/ AcceptRevision \/ AcceptOurs
          \/ AcceptThere \/ AcceptOldOrNew \/ AcceptAllOrNone \/ AtMostOne
Recheck == \/ None \/ CompareVersion \/ CompareIdentity \/ CompareInventory
           \/ CompareSpec \/ InEffect \/ VerifyExact \/ VerifyLabels \/ VerifyPart
Mutate == Apply \/ ApplyWhen \/ Create \/ Swap

Next ==
    \/ StartWrapped \/ StartByHand \/ Crash \/ WrapperEnds \/ Skip
    \/ Gate \/ Observe \/ Accept \/ Recheck \/ Mutate \/ CallByHand
    \/ Interfere \/ Materialize \/ EditFile

Spec == Init /\ [][Next]_vars

---------------------------------------------------------------------------
(* Properties.                                                             *)

Plays == [kind : {"role", "task"}, skipping : BOOLEAN, injected : BOOLEAN,
          skipped : BOOLEAN, pc : Nat, item : Nat,
          loaded : [Objects(lane) -> {"none", "reviewed", "edited"}],
          seen : [Objects(lane) -> Live], first : [Objects(lane) -> Live],
          again : [Objects(lane) -> Live], bound : BOOLEAN, failed : BOOLEAN,
          old : SUBSET Objects(lane), touched : SUBSET Objects(lane),
          revised : SUBSET Own(lane), outcome : Outcomes]

(* Every variable has its type.                                            *)
TypeOK ==
    /\ lane \in Lanes
    /\ cluster \in [Objects(lane) -> Live]
    /\ files \in [Own(lane) -> {"reviewed", "edited"}]
    /\ attested \in BOOLEAN
    /\ play \in Plays
    /\ spent \in [plays : Nat, interference : Nat, edits : Nat, faults : Nat,
               byHand : Nat]

(* A step of the play that changes an object of the lane.                  *)
PlayWrites(o) ==
    /\ o \in Own(lane)
    /\ cluster'[o] # cluster[o]
    /\ spent'.interference = spent.interference

(* Where the plugin asks for the role's own task file and an unselected    *)
(* play, nothing is written by a play that left a task out, by a task of   *)
(* somebody's own, or, where the token is asked for too, after the wrapper *)
(* has gone: a later item of a loop that is running is refused then.       *)
NothingBypassed ==
    [][\A o \in Objects(lane) : PlayWrites(o) /\ Sealed(lane) =>
         /\ play.kind = "role" /\ ~play.skipped
         /\ "attestation" \in lane.plugin.guards => attested]_vars

(* Whatever was edited in the checkout while the play ran, was injected as *)
(* a variable or is passed by hand, what a call leaves is the reviewed     *)
(* object, there and exact. A lane that compares with the repository as it *)
(* is at the time of the call lets an edit through.                        *)
OnlyReviewed ==
    [][\A o \in Objects(lane) : PlayWrites(o) =>
         \/ cluster'[o].shape = "ours"
         \/ lane.plugin.closure = "files" /\ cluster'[o].shape = "edited"]_vars

(* An object that was another's when the play began, and that nobody has   *)
(* changed since, is never overwritten by a lane that claims the object.   *)
ForeignKept ==
    [][\A o \in Objects(lane) :
         PlayWrites(o) /\ o \in play.old => ~(Claims(lane, o) /\ Sealed(lane))]_vars

(* A writer gets its rights only over what the role saw to be in order: of *)
(* the objects that are still as it last saw them, the policy is there and *)
(* its binding exact, no other producer of the target is there, the target *)
(* is the one that was accepted and so is the credential, if it is there.  *)
AsAccepted(o) == /\ cluster[o].shape \in {"absent", "ours"}
                 /\ SameVersion(cluster[o], play.seen[o])
InOrder(o) ==
    CASE o = "policy" -> There(cluster[o])
      [] o = "binding" -> cluster[o].shape = "ours"
      [] o = "alternate" -> ~There(cluster[o])
      [] o = "target" -> AsAccepted(o)
      [] o = "credential" -> There(cluster[o]) => AsAccepted(o)
      [] OTHER -> SameIdentity(cluster[o], play.seen[o])
GrantInOrder ==
    [][PlayWrites("rbac") /\ Staged(lane) =>
         \A o \in Objects(lane) \ {"rbac"} : cluster[o] = play.again[o] => InOrder(o)]_vars

(* A source that is only ever created is not written over one that the     *)
(* last look at it found there, nor without the credential that was        *)
(* accepted, where that is still as it was last seen.                      *)
CreatedOnce ==
    [][\A o \in Objects(lane) : PlayWrites(o) /\ At("create") =>
         /\ cluster[o] = play.again[o] => ~There(cluster[o])
         /\ cluster["credential"] = play.again["credential"] =>
               There(cluster["credential"]) /\ AsAccepted("credential")]_vars

(* A play that ends well with every task run, and nobody else at work on   *)
(* the objects, leaves every field that a reviewed manifest sets as it is  *)
(* set there, whatever it found, whatever an earlier play left half done   *)
(* and whichever item of a loop failed. A lane that compares a definition  *)
(* with the repository as it is at the time of the call (the sync          *)
(* transition) may instead leave what the manifest said, but only of an    *)
(* object whose manifest was edited while that very play ran.              *)
LetThrough(o) == /\ lane.plugin.closure = "files" /\ o \in play.revised
                 /\ cluster[o].shape = "edited"
DoneIsComplete ==
    (/\ play.outcome = "done" /\ play.kind = "role" /\ ~play.skipped
     /\ play.touched = {})
    => \A o \in Own(lane) : cluster[o].shape = "ours" \/ LetThrough(o)

(* A play is not turned away by what an earlier play of the lane left, or  *)
(* by what it has written itself: an object that is not the lane's own, or *)
(* that somebody changed, is behind every refusal.                         *)
Provoked ==
    \/ play.skipped \/ spent.interference > 0
    \/ \E o \in Own(lane) : cluster[o].shape \notin {"absent", "ours"}
OwnStateAccepted ==
    /\ play.outcome = "foreign" => Provoked
    /\ play.outcome = "raced" =>
         \/ Provoked
         \/ "target" \in Objects(lane) /\ (cluster["target"] # play.seen["target"])

(* The same, but for a lane that wants all its objects or none of them and *)
(* one that counts its sources.                                            *)
Tasks == {lane.script[i] : i \in DOMAIN lane.script}
NoFalseAlarm ==
    \/ OwnStateAccepted
    \/ \E t \in Tasks : \/ t.do = "acceptAllOrNone"
                        \/ t.do = "atMostOne" /\ Len(t.on) > 1

=============================================================================
