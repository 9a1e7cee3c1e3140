----------------------- MODULE ProvisioningOutcomeProofs -----------------------
(***************************************************************************)
(* More proofs about DatabaseProvisioning, for every number of scopes and  *)
(* plays and any number of mishaps: that two helper scripts work at once   *)
(* only for a reason (OneHelper), that a good end leaves nothing behind    *)
(* (ResidueFree), that no complete scope gets another password             *)
(* (NoImplicitRotation), and that a play's report and its success mean     *)
(* what they say (CountHonest, DoneIsEstablished).                         *)
(***************************************************************************)
EXTENDS DatabaseProvisioningProofs, FiniteSetTheorems

---------------------------------------------------------------------------
(* What a step may do to a play, field by field.                           *)
Alike(p) == play'[p].outcome = play[p].outcome /\ play'[p].began = play[p].began

Advances(p, n) ==
    /\ Alike(p)
    /\ play[p].pc + n <= 15 /\ play'[p].pc = play[p].pc + n
    /\ play'[p].failed = play[p].failed /\ play'[p].changed = play[p].changed
ToCleanup(p) == Alike(p) /\ play[p].pc \in Block /\ play'[p].pc = 8 /\ play'[p].failed
Stops(p) ==
    /\ play'[p].outcome \in {"refused", "failed", "crashed"}
    /\ \A s \in Scopes : play'[p].began[s] = 0
Finishes(p, n) ==
    /\ play[p].pc + n > 15 /\ ~play[p].failed
    /\ play'[p].outcome = "done"
    /\ play'[p].began = play[p].began /\ play'[p].changed = play[p].changed

Elsewhere(p) == \A q \in Plays \ {p} : play'[q] = play[q]

LEMMA EndedTo ==
  ASSUME TypeOK, NEW p \in Plays, NEW outcome \in {"refused", "failed", "crashed"},
         Ended(p, outcome)
  PROVE  Elsewhere(p) /\ Stops(p) /\ play'[p].outcome = outcome
<1> DEFINE x == [NoPlay EXCEPT !.outcome = outcome]
<1>1. x.outcome = outcome /\ \A s \in Scopes : x.began[s] = 0
  BY DEF NoPlay
<1>2. play' = [play EXCEPT ![p] = x]
  BY DEF Ended
<1> HIDE DEF x
<1> QED
  BY <1>1, <1>2 DEF Elsewhere, Stops, TypeOK

(* Where a failed task takes the play: to the cleanup, or to its end.      *)
LEMMA FailsTo ==
  ASSUME TypeOK, NEW p \in Plays, Fails(p)
  PROVE  /\ Elsewhere(p)
         /\ ToCleanup(p) \/ Stops(p)
         /\ play[p].pc \notin Block => Stops(p)
         /\ play[p].pc \in Block => ToCleanup(p)
         /\ play[p].pc >= Always => play'[p].outcome = "failed"
<1>1. play[p] \in PlayType
  BY DEF TypeOK
<1>2. CASE play[p].pc \in Block
  <2> DEFINE x == [play[p] EXCEPT !.pc = 8, !.failed = TRUE]
  <2>1. x.outcome = play[p].outcome /\ x.began = play[p].began /\ x.pc = 8 /\ x.failed
    BY <1>1 DEF PlayType
  <2>2. play' = [play EXCEPT ![p] = x]
    BY <1>2 DEF Fails, Always
  <2> HIDE DEF x
  <2>3. Elsewhere(p) /\ ToCleanup(p)
    BY <1>2, <2>1, <2>2 DEF Elsewhere, ToCleanup, Alike, TypeOK
  <2> QED
    BY <1>2, <2>3 DEF Block, Always
<1>3. CASE play[p].pc \notin Block
  <2>1. Ended(p, IF play[p].pc < Always THEN "refused" ELSE "failed")
    BY <1>3 DEF Fails
  <2>2. play[p].pc \in 1 .. 15
    BY <1>1 DEF PlayType
  <2> QED
    BY <1>3, <2>1, <2>2, EndedTo DEF Always
<1> QED
  BY <1>2, <1>3

LEMMA SkipsTo ==
  ASSUME TypeOK, NEW p \in Plays, NEW n \in {1, 3}, Skips(p, n)
  PROVE  /\ Elsewhere(p)
         /\ \/ Advances(p, n)
            \/ play[p].failed /\ Stops(p) /\ play'[p].outcome = "failed"
            \/ Finishes(p, n)
         /\ play[p].pc + n <= 15 => Advances(p, n)
<1>1. play[p] \in PlayType /\ play[p].pc \in 1 .. 15
  BY DEF TypeOK, PlayType
<1>2. CASE play[p].pc + n > 15 /\ play[p].failed
  <2>1. Ended(p, "failed")
    BY <1>2, TasksAre DEF Skips
  <2> QED
    BY <1>1, <1>2, <2>1, EndedTo
<1>3. CASE play[p].pc + n > 15 /\ ~play[p].failed
  <2> DEFINE x == [NoPlay EXCEPT !.outcome = "done", !.changed = play[p].changed,
                                 !.began = play[p].began]
  <2>1. x.outcome = "done" /\ x.changed = play[p].changed /\ x.began = play[p].began
    BY DEF NoPlay
  <2>2. play' = [play EXCEPT ![p] = x]
    BY <1>3, TasksAre DEF Skips, Done
  <2> HIDE DEF x
  <2> QED
    BY <1>1, <1>3, <2>1, <2>2 DEF Elsewhere, Finishes, TypeOK
<1>4. CASE ~(play[p].pc + n > 15)
  <2> DEFINE x == [play[p] EXCEPT !.pc = play[p].pc + n]
  <2>1. /\ x.outcome = play[p].outcome /\ x.began = play[p].began /\ x.pc = play[p].pc + n
        /\ x.failed = play[p].failed /\ x.changed = play[p].changed
    BY <1>1 DEF PlayType
  <2>2. play' = [play EXCEPT ![p] = x]
    BY <1>4, TasksAre DEF Skips
  <2> HIDE DEF x
  <2> QED
    BY <1>1, <1>4, <2>1, <2>2 DEF Elsewhere, Advances, Alike, TypeOK
<1> QED
  BY <1>2, <1>3, <1>4

LEMMA ContinuesTo ==
  ASSUME TypeOK, NEW p \in Plays, Continues(p)
  PROVE  /\ Elsewhere(p)
         /\ \/ Advances(p, 1)
            \/ play[p].failed /\ Stops(p) /\ play'[p].outcome = "failed"
            \/ Finishes(p, 1)
         /\ play[p].pc + 1 <= 15 => Advances(p, 1)
  BY SkipsTo DEF Continues

LEMMA BindsTo ==
  ASSUME TypeOK, NEW p \in Plays, NEW k \in Kinds, NEW u, play[p].pc < 15,
         play' = [play EXCEPT ![p].uid[k] = u, ![p].pc = @ + 1]
  PROVE  Elsewhere(p) /\ Advances(p, 1)
<1>1. play[p] \in PlayType /\ play[p].pc \in 1 .. 15
  BY DEF TypeOK, PlayType
<1> DEFINE x == [play[p] EXCEPT !.uid = [@ EXCEPT ![k] = u], !.pc = play[p].pc + 1]
<1>2. /\ x.outcome = play[p].outcome /\ x.began = play[p].began /\ x.pc = play[p].pc + 1
      /\ x.failed = play[p].failed /\ x.changed = play[p].changed
  BY <1>1 DEF PlayType
<1>3. play' = [play EXCEPT ![p] = x]
  BY <1>1 DEF TypeOK, PlayType
<1> HIDE DEF x
<1> QED
  BY <1>1, <1>2, <1>3 DEF Elsewhere, Advances, Alike, TypeOK

---------------------------------------------------------------------------
(* What a step may do to the objects and to the scripts.                   *)
ObjectElsewhere(p, k) ==
    \A q \in Plays, l \in Kinds : q # p \/ l # k => object'[q][l] = object[q][l]
HelperElsewhere(p) == \A q \in Plays \ {p} : helper'[q] = helper[q]

LEMMA AppearsTo ==
  ASSUME TypeOK, NEW p \in Plays, NEW k \in Kinds, Appears(p, k)
  PROVE  /\ ObjectElsewhere(p, k)
         /\ object'[p][k].there /\ object'[p][k].labelled
         /\ k # "pod" => helper' = helper
         /\ k = "pod" =>
              /\ HelperElsewhere(p)
              /\ helper'[p] = [helper[p] EXCEPT !.run = "running", !.mounted = secret]
<1> DEFINE o == [there |-> TRUE, uid |-> object[p][k].uid + 1, labelled |-> TRUE,
                 ending |-> FALSE, foreign |-> FALSE, early |-> FALSE]
<1>1. object' = [object EXCEPT ![p][k] = o]
  BY DEF Appears
<1>2. o.there /\ o.labelled
  OBVIOUS
<1> HIDE DEF o
<1>3. ObjectElsewhere(p, k) /\ object'[p][k] = o
  BY <1>1 DEF ObjectElsewhere, TypeOK
<1> DEFINE x == [helper[p] EXCEPT !.run = "running", !.mounted = secret]
<1>4. k = "pod" => helper' = [helper EXCEPT ![p] = x]
  BY DEF Appears
<1> HIDE DEF x
<1>5. k = "pod" => HelperElsewhere(p) /\ helper'[p] = x
  BY <1>4 DEF HelperElsewhere, TypeOK
<1> QED
  BY <1>2, <1>3, <1>5 DEF Appears, x

LEMMA DeleteTo ==
  ASSUME TypeOK, NEW p \in Plays, NEW k \in Kinds, Delete(p, k)
  PROVE  \A q \in Plays, l \in Kinds : /\ object'[q][l].there = object[q][l].there
                                       /\ object'[q][l].labelled = object[q][l].labelled
<1> DEFINE o == [object[p][k] EXCEPT !.ending = TRUE]
<1>1. CASE object' = object
  BY <1>1
<1>2. CASE object' = [object EXCEPT ![p][k].ending = TRUE]
  <2>1. object' = [object EXCEPT ![p][k] = o] /\ object[p][k] \in ObjectType
    BY <1>2 DEF TypeOK
  <2>2. o.there = object[p][k].there /\ o.labelled = object[p][k].labelled
    BY <2>1 DEF ObjectType
  <2> HIDE DEF o
  <2>3. ObjectElsewhere(p, k) /\ object'[p][k] = o
    BY <2>1 DEF ObjectElsewhere, TypeOK
  <2> QED
    BY <2>2, <2>3 DEF ObjectElsewhere
<1> QED
  BY <1>1, <1>2 DEF Delete

LEMMA KilledTo ==
  ASSUME TypeOK, NEW p \in Plays, NEW k, Killed(p, k)
  PROVE  /\ k = "pod" => helper'[p].run # "running"
         /\ \A q \in Plays : \/ helper'[q] = helper[q]
                             \/ q = p /\ helper[p].run = "running" /\ helper'[p].run = "killed"
<1> DEFINE x == [NoHelper EXCEPT !.run = "killed"]
<1>1. x.run = "killed"
  BY DEF NoHelper
<1>2. \/ helper' = [helper EXCEPT ![p] = x] /\ helper[p].run = "running"
      \/ helper' = helper /\ ~(k = "pod" /\ helper[p].run = "running")
  BY DEF Killed
<1> HIDE DEF x
<1> QED
  BY <1>1, <1>2 DEF TypeOK

(* A script's step changes that script, its scope and nothing else.        *)
LEMMA HelperAlone ==
  ASSUME TypeOK, NEW p \in Plays, HelperStep(p)
  PROVE  /\ HelperElsewhere(p) /\ helper[p].run = "running"
         /\ UNCHANGED <<engine, secret, object, play, late, history>>
<1>1. helper[p].run = "running" /\ UNCHANGED <<engine, secret, object, play, late, history>>
  BY DEF HelperStep, Survey, Look, Principal, CreateDatabase, Connect, Schema, Verify, Login,
     HelperFails, Script, Outside, cluster
<1>2. \E h : Goes(p, h)
  BY DEF HelperStep, Survey, Look, Principal, CreateDatabase, Connect, Schema, Verify, Login,
     HelperFails, NextScope, AfterLogin, Exits, Succeeds
<1> QED
  BY <1>1, <1>2 DEF Goes, HelperElsewhere, TypeOK

(* Gone, removed, replaced or relabelled: one object and its script.       *)
LEMMA MeddledTo ==
  ASSUME TypeOK, NEW p \in Plays, NEW k \in Kinds,
         Gone(p, k) \/ Remove(p, k) \/ Replace(p, k) \/ Relabel(p, k)
  PROVE  /\ ObjectElsewhere(p, k) /\ object[p][k].there
         /\ \/ Killed(p, k) /\ history' = history
            \/ Relabel(p, k) /\ helper' = helper /\ history'.excused
         /\ history'.together = history.together
         /\ UNCHANGED <<engine, scope, secret, play, late>>
<1>1. object[p][k].there /\ UNCHANGED <<engine, scope, secret, play, late>>
  BY DEF Gone, Remove, Replace, Relabel, cluster
<1>2. /\ \/ Killed(p, k) /\ history' = history
         \/ Relabel(p, k) /\ helper' = helper /\ history'.excused
      /\ history'.together = history.together
  BY DEF Gone, Remove, Replace, Relabel, TypeOK
<1>3. \E o : object' = [object EXCEPT ![p][k] = o]
  <2>1. CASE Gone(p, k) \/ Remove(p, k)
    BY <2>1 DEF Gone, Remove
  <2>2. CASE Replace(p, k)
    BY <2>2 DEF Replace
  <2>3. CASE Relabel(p, k)
    <3>1. object' = [object EXCEPT ![p][k].labelled = FALSE]
      BY <2>3 DEF Relabel
    <3> QED
      BY <3>1
  <2> QED
    BY <2>1, <2>2, <2>3
<1>4. ObjectElsewhere(p, k)
  BY <1>3 DEF ObjectElsewhere, TypeOK
<1> QED
  BY <1>1, <1>2, <1>4

LEMMA StartTo ==
  ASSUME TypeOK, NEW p \in Plays, StartPlay(p)
  PROVE  /\ Elsewhere(p) /\ play[p].outcome = "none" /\ play'[p].outcome = "running"
         /\ play'[p].pc = play[p].pc /\ play'[p].failed = play[p].failed
         /\ play'[p].began = secret
         /\ UNCHANGED <<engine, scope, secret, object, helper, late>>
<1> DEFINE x == [play[p] EXCEPT !.outcome = "running", !.token = TRUE, !.began = secret]
<1>1. play[p] \in PlayType
  BY DEF TypeOK
<1>2. /\ x.outcome = "running" /\ x.pc = play[p].pc /\ x.failed = play[p].failed
      /\ x.began = secret
  BY <1>1 DEF PlayType
<1>3. play' = [play EXCEPT ![p] = x]
  BY DEF StartPlay
<1> HIDE DEF x
<1>4. Elsewhere(p) /\ play'[p] = x
  BY <1>3 DEF Elsewhere, TypeOK
<1>5. play[p].outcome = "none" /\ UNCHANGED <<engine, scope, secret, object, helper, late>>
  BY DEF StartPlay, cluster
<1> QED
  BY <1>2, <1>4, <1>5

LEMMA PollTo ==
  ASSUME TypeOK, NEW p \in Plays, Poll(p)
  PROVE  /\ Elsewhere(p) /\ Alike(p) /\ play[p].pc = 7 /\ play'[p].pc = 8
         /\ \/ /\ helper[p].run = "succeeded" /\ play'[p].failed = play[p].failed
               /\ play'[p].changed = (helper[p].missing > 0)
            \/ play'[p].failed
<1> DEFINE u == [play[p].uid EXCEPT !["pod"] = object[p]["pod"].uid]
           z == helper[p].missing > 0
           x == [play[p] EXCEPT !.uid = u, !.changed = z, !.pc = 8]
           y == [play[p] EXCEPT !.uid = u, !.failed = TRUE, !.pc = 8]
<1>1. play[p] \in PlayType /\ play[p].pc = 7 /\ play \in [Plays -> PlayType]
  BY UidType, AtPlace DEF Poll, Kinds, TypeOK
<1>2. /\ x.outcome = play[p].outcome /\ x.began = play[p].began /\ x.pc = 8
      /\ x.failed = play[p].failed /\ x.changed = z
      /\ y.outcome = play[p].outcome /\ y.began = play[p].began /\ y.pc = 8 /\ y.failed
  BY <1>1 DEF PlayType
<1>3. \/ helper[p].run = "succeeded" /\ play' = [play EXCEPT ![p] = x]
      \/ play' = [play EXCEPT ![p] = y]
  <2>1. CASE ~object[p]["pod"].foreign /\ helper[p].run = "succeeded"
    <3>1. play' = [play EXCEPT ![p].uid["pod"] = object[p]["pod"].uid,
                      ![p].changed = helper[p].missing > 0, ![p].pc = @ + 1]
      BY <2>1 DEF Poll
    <3>2. play' = [play EXCEPT ![p] =
                     [play[p] EXCEPT !.uid = u, !.changed = z, !.pc = play[p].pc + 1]]
      BY <3>1
    <3>3. play[p].pc + 1 = 8
      BY <1>1
    <3> QED
      BY <2>1, <3>2, <3>3
  <2>2. CASE ~(~object[p]["pod"].foreign /\ helper[p].run = "succeeded")
    <3>1. play' = [play EXCEPT ![p].uid["pod"] = object[p]["pod"].uid,
                      ![p].failed = TRUE, ![p].pc = Always]
      BY <2>2 DEF Poll
    <3> QED
      BY <3>1 DEF Always
  <2> QED
    BY <2>1, <2>2
<1> HIDE DEF x, y, u, z
<1> QED
  BY <1>1, <1>2, <1>3 DEF Elsewhere, Alike, z

LEMMA TokenTo ==
  ASSUME TypeOK, NEW p \in Plays, TokenGone(p)
  PROVE  /\ Elsewhere(p) /\ Alike(p) /\ play'[p].pc = play[p].pc
         /\ play'[p].failed = play[p].failed /\ play'[p].changed = play[p].changed
<1> DEFINE x == [play[p] EXCEPT !.token = FALSE]
<1>1. play[p] \in PlayType
  BY DEF TypeOK
<1>2. /\ x.outcome = play[p].outcome /\ x.began = play[p].began /\ x.pc = play[p].pc
      /\ x.failed = play[p].failed /\ x.changed = play[p].changed
  BY <1>1 DEF PlayType
<1>3. play' = [play EXCEPT ![p] = x]
  BY DEF TokenGone
<1> HIDE DEF x
<1> QED
  BY <1>2, <1>3 DEF Elsewhere, Alike, TypeOK

(* The tasks of a play that runs, but for its creations and deletions.     *)
Tasked(p) ==
    \/ Check(p) \/ BindPolicy(p) \/ Poll(p) \/ GiveUp(p)
    \/ TaskFails(p) \/ HardStop(p) \/ TokenGone(p)
    \/ \E k \in Kinds : Stale(p, k) \/ Find(p, k) \/ Wait(p, k) \/ Residue(p, k)

LEMMA TaskedAlone ==
  ASSUME TypeOK, NEW p \in Plays, Tasked(p)
  PROVE  Running(p) /\ UNCHANGED <<engine, scope, secret, object, helper, history>>
  BY DEF Tasked, Check, BindPolicy, Poll, GiveUp, TaskFails, HardStop, TokenGone, Stale, Find,
     Wait, Residue, At, cluster

(* Each takes its play a task or three further, to the cleanup, or to an   *)
(* end; only the last task ends it well.                                   *)
LEMMA TaskedTo ==
  ASSUME TypeOK, NEW p \in Plays, Tasked(p)
  PROVE  /\ Elsewhere(p)
         /\ \/ Alike(p) /\ play[p].pc <= play'[p].pc
            \/ Stops(p)
            \/ Residue(p, "policy") /\ Labelled("policy") = {} /\ Finishes(p, 1)
         /\ play'[p].outcome = "running" /\ play[p].pc = 1 /\ play'[p].pc # 1
              => Labelled("pod") = {}
<1>0. play[p].pc \in 1 .. 15 /\ play[p] \in PlayType /\ "policy" \in Kinds
  BY DEF TypeOK, PlayType, Kinds
<1>1. CASE Check(p)
  <2>1. play[p].pc = 3
    BY <1>0, <1>1, AtPlace DEF Check
  <2>2. Continues(p) \/ Ended(p, "refused")
    BY <1>1 DEF Check
  <2>3. Elsewhere(p) /\ (Advances(p, 1) \/ Stops(p))
    BY <2>1, <2>2, ContinuesTo, EndedTo
  <2> QED
    BY <1>0, <2>1, <2>3 DEF Advances
<1>2. CASE BindPolicy(p)
  <2>1. play[p].pc = 5
    BY <1>0, <1>2, AtPlace DEF BindPolicy
  <2>2. \/ Fails(p)
        \/ play' = [play EXCEPT ![p].uid["policy"] = object[p]["policy"].uid, ![p].pc = @ + 1]
    BY <1>2 DEF BindPolicy
  <2>3. Elsewhere(p) /\ (Advances(p, 1) \/ ToCleanup(p))
    <3>1. CASE Fails(p)
      BY <2>1, <3>1, FailsTo DEF Block
    <3>2. CASE play' = [play EXCEPT ![p].uid["policy"] = object[p]["policy"].uid, ![p].pc = @ + 1]
      <4>1. play[p].pc < 15
        BY <2>1
      <4> QED
        BY <1>0, <3>2, <4>1, BindsTo
    <3> QED
      BY <2>2, <3>1, <3>2
  <2> QED
    BY <1>0, <2>1, <2>3 DEF Advances, ToCleanup
<1>3. CASE Poll(p)
  BY <1>3, PollTo
<1>4. CASE GiveUp(p)
  <2>1. play[p].pc = 7 /\ Fails(p)
    BY <1>0, <1>4, AtPlace DEF GiveUp
  <2> QED
    BY <2>1, FailsTo DEF Block, ToCleanup
<1>5. CASE TaskFails(p)
  <2>1. Elsewhere(p) /\ (ToCleanup(p) \/ Stops(p))
    BY <1>5, FailsTo DEF TaskFails
  <2> QED
    BY <1>0, <2>1 DEF ToCleanup, Block, Stops
<1>6. CASE HardStop(p)
  BY <1>6, EndedTo DEF HardStop, Stops
<1>7. CASE TokenGone(p)
  BY <1>0, <1>7, TokenTo
<1>8. ASSUME NEW k \in Kinds, Stale(p, k)
      PROVE  /\ Elsewhere(p) /\ play[p].pc \in 1 .. 2
             /\ Advances(p, 1) \/ Stops(p)
             /\ play[p].pc = 1 => k = "pod"
             /\ Advances(p, 1) => Labelled(k) = {}
  <2>1. play[p].pc \in 1 .. 2 /\ (play[p].pc = 1 => k = "pod")
    BY <1>0, <1>8, AtPlace DEF Stale, Kinds
  <2>2. (Labelled(k) = {} /\ Continues(p)) \/ Ended(p, "refused")
    BY <1>8 DEF Stale
  <2>3. CASE Labelled(k) = {} /\ Continues(p)
    BY <2>1, <2>3, ContinuesTo
  <2>4. CASE Ended(p, "refused")
    <3>1. play'[p].outcome = "refused" /\ play[p].outcome = "running"
      BY <1>8, <2>4, EndedTo DEF Stale, At, Running
    <3> QED
      BY <2>1, <2>4, <3>1, EndedTo DEF Advances, Alike
  <2> QED
    BY <2>2, <2>3, <2>4
<1>9. ASSUME NEW k \in Kinds, Stale(p, k)
      PROVE  /\ Elsewhere(p) /\ ((Alike(p) /\ play[p].pc <= play'[p].pc) \/ Stops(p))
             /\ play'[p].outcome = "running" /\ play[p].pc = 1 /\ play'[p].pc # 1
                  => Labelled("pod") = {}
  BY <1>0, <1>8, <1>9 DEF Advances, Stops
<1>10. ASSUME NEW k \in Kinds, Find(p, k)
       PROVE  /\ Elsewhere(p) /\ ((Alike(p) /\ play[p].pc <= play'[p].pc) \/ Stops(p))
              /\ play[p].pc # 1
  <2>1. play[p].pc \in {8, 11}
    BY <1>0, <1>10, AtPlace DEF Find, Kinds
  <2>2. \/ Skips(p, 3) \/ Fails(p)
        \/ play' = [play EXCEPT ![p].uid[k] = object[p][k].uid, ![p].pc = @ + 1]
    BY <1>10 DEF Find
  <2>3. CASE Skips(p, 3)
    BY <1>0, <2>1, <2>3, SkipsTo DEF Advances
  <2>4. CASE Fails(p)
    BY <2>1, <2>4, FailsTo DEF Block
  <2>5. CASE play' = [play EXCEPT ![p].uid[k] = object[p][k].uid, ![p].pc = @ + 1]
    <3>1. play[p].pc < 15
      BY <2>1
    <3>2. Elsewhere(p) /\ Advances(p, 1)
      BY <2>5, <3>1, BindsTo
    <3> QED
      BY <1>0, <2>1, <3>2 DEF Advances
  <2> QED
    BY <2>1, <2>2, <2>3, <2>4, <2>5
<1>11. ASSUME NEW k \in Kinds, Wait(p, k)
       PROVE  Elsewhere(p) /\ Advances(p, 1) /\ play[p].pc # 1
  <2>1. play[p].pc \in {10, 13} /\ Continues(p)
    BY <1>0, <1>11, AtPlace DEF Wait, Kinds
  <2> QED
    BY <2>1, ContinuesTo
<1>12. ASSUME NEW k \in Kinds, Residue(p, k)
       PROVE  /\ Elsewhere(p) /\ play[p].pc # 1
              /\ \/ Advances(p, 1) \/ Stops(p)
                 \/ k = "policy" /\ Labelled("policy") = {} /\ Finishes(p, 1)
  <2>1. play[p].pc \in {14, 15} /\ (k = "pod" => play[p].pc = 14)
    BY <1>0, <1>12, AtPlace DEF Residue, Kinds
  <2>2. (Labelled(k) = {} /\ Continues(p)) \/ Fails(p)
    BY <1>12 DEF Residue
  <2>3. CASE Labelled(k) = {} /\ Continues(p)
    <3>1. k = "pod" => Advances(p, 1)
      BY <2>1, <2>3, ContinuesTo
    <3> QED
      BY <2>1, <2>3, <3>1, ContinuesTo DEF Kinds
  <2>4. CASE Fails(p)
    BY <2>1, <2>4, FailsTo DEF Block
  <2> QED
    BY <2>2, <2>3, <2>4
<1>13. \A k \in Kinds : Wait(p, k) \/ Residue(p, k) =>
          /\ Elsewhere(p) /\ play[p].pc # 1
          /\ \/ Alike(p) /\ play[p].pc <= play'[p].pc
             \/ Stops(p)
             \/ Residue(p, "policy") /\ Labelled("policy") = {} /\ Finishes(p, 1)
  BY <1>0, <1>11, <1>12 DEF Advances
<1> QED
  BY <1>1, <1>2, <1>3, <1>4, <1>5, <1>6, <1>7, <1>9, <1>10, <1>13 DEF Tasked

---------------------------------------------------------------------------
(* OneHelper. As long as nothing is excused one play runs at a time, every *)
(* running script has its labelled Pod for the next play to find, and from *)
(* the stale check to the creation no script runs.                         *)
Unstarted == \A p \in Plays : play[p].outcome = "none" => play[p].pc = 1
OnePlay == \A p, q \in Plays : Running(p) /\ Running(q) => p = q
PodFound == \A q \in Plays : helper[q].run = "running" => q \in Labelled("pod")
QuietFor(p) == Running(p) /\ play[p].pc \in 2 .. 6 => \A q \in Plays : helper[q].run # "running"
Orderly == ~history.together /\ OnePlay /\ PodFound /\ \A p \in Plays : QuietFor(p)
OneAtWork == Unstarted /\ (~history.excused => Orderly)

LEMMA InitOneAtWork == Init => OneAtWork
  BY DEF Init, OneAtWork, Unstarted, Orderly, OnePlay, PodFound, QuietFor, Running, NoPlay,
     NoHelper

(* A step by which no play comes closer to a creation and no script starts *)
(* or loses its Pod's labels.                                              *)
Calm ==
    /\ history' = history
    /\ \A p \in Plays :
         /\ play'[p].outcome = "running" =>
              /\ Running(p)
              /\ play'[p].pc \in 2 .. 6 => play[p].pc \in 2 .. 6
         /\ helper'[p].run = "running" =>
              /\ helper[p].run = "running"
              /\ p \in Labelled("pod") => p \in Labelled("pod")'

LEMMA CalmOrderly == ASSUME Orderly, Calm PROVE Orderly'
  BY DEF Orderly, Calm, OnePlay, PodFound, QuietFor, Running

LEMMA StepUnstarted ==
  ASSUME TypeOK, Unstarted, NEW p \in Plays, PlayStep(p)
  PROVE  Unstarted'
<1>1. Elsewhere(p) /\ play'[p].outcome # "none"
  <2>1. CASE StartPlay(p)
    BY <2>1, StartTo
  <2>2. CASE Tasked(p)
    BY <2>2, TaskedTo, TaskedAlone DEF Alike, Stops, Finishes, Running
  <2>3. CASE \E k \in Kinds : Create(p, k) \/ Delete(p, k)
    <3>1. (Continues(p) \/ Fails(p)) /\ Running(p)
      BY <2>3 DEF Create, Delete, At
    <3> QED
      BY <3>1, ContinuesTo, FailsTo
         DEF Advances, Stops, Finishes, ToCleanup, Alike, Running
  <2> QED
    BY <2>1, <2>2, <2>3 DEF PlayStep, Tasked
<1> QED
  BY <1>1 DEF Unstarted, Elsewhere

LEMMA PlayOrderly ==
  ASSUME TypeOK, Unstarted, ~history.excused => Orderly, ~history'.excused,
         NEW p \in Plays, PlayStep(p)
  PROVE  Orderly'
<1>0. play[p].pc \in 1 .. 15
  BY UidType DEF Kinds
<1>1. CASE StartPlay(p)
  <2>1. history' = history /\ ~\E q \in Plays : Running(q)
    BY <1>1 DEF StartPlay, TypeOK
  <2>2. play'[p].pc = 1 /\ Elsewhere(p) /\ UNCHANGED <<object, helper>>
    BY <1>1, StartTo DEF Unstarted
  <2>3. Orderly
    BY <2>1
  <2> QED
    BY <2>1, <2>2, <2>3 DEF Orderly, OnePlay, PodFound, QuietFor, Running, Elsewhere, Labelled
<1>2. CASE Tasked(p)
  <2>1. Running(p) /\ UNCHANGED <<object, helper, history>>
    BY <1>2, TaskedAlone
  <2>2. Orderly
    BY <2>1
  <2>3. CASE play'[p].outcome = "running" /\ play[p].pc = 1 /\ play'[p].pc # 1
    <3>1. Labelled("pod") = {} /\ Elsewhere(p)
      BY <1>2, <2>3, TaskedTo
    <3>2. \A q \in Plays : helper'[q].run # "running"
      BY <2>1, <2>2, <3>1 DEF Orderly, PodFound
    <3> QED
      BY <2>1, <2>2, <3>1, <3>2 DEF Orderly, OnePlay, PodFound, QuietFor, Running, Elsewhere
  <2>4. CASE ~(play'[p].outcome = "running" /\ play[p].pc = 1 /\ play'[p].pc # 1)
    <3>1. Elsewhere(p)
      BY <1>2, TaskedTo
    <3>2. play'[p].outcome = "running" =>
            Alike(p) /\ play[p].pc <= play'[p].pc
      BY <1>2, TaskedTo DEF Stops, Finishes
    <3>3. play'[p].outcome = "running" /\ play'[p].pc \in 2 .. 6 => play[p].pc \in 2 .. 6
      BY <1>0, <2>4, <3>2
    <3>4. Calm
      BY <2>1, <3>1, <3>3 DEF Calm, Elsewhere, Running, Labelled
    <3> QED
      BY <2>2, <3>4, CalmOrderly
  <2> QED
    BY <2>3, <2>4
<1>3. ASSUME NEW k \in Kinds, Delete(p, k)
      PROVE  Orderly'
  <2>1. Running(p) /\ UNCHANGED <<helper, history>> /\ (Continues(p) \/ Fails(p))
    BY <1>3 DEF Delete, At
  <2>2. play[p].pc \in {9, 12}
    BY <1>0, <1>3, AtPlace DEF Delete, Kinds
  <2>3. Elsewhere(p) /\ (play'[p].outcome = "running" => play'[p].pc > 6)
    BY <2>1, <2>2, ContinuesTo, FailsTo DEF Advances, Stops, Finishes, ToCleanup, Block
  <2>4. Labelled("pod") \subseteq Labelled("pod")'
    BY <1>3, DeleteTo DEF Labelled, Kinds
  <2>5. Calm
    BY <2>1, <2>3, <2>4 DEF Calm, Elsewhere, Running
  <2> QED
    BY <2>1, <2>5, CalmOrderly
<1>4. ASSUME NEW k \in Kinds, Create(p, k)
      PROVE  Orderly'
  <2>1. Running(p) /\ (k = "policy" => play[p].pc = 4) /\ (k = "pod" => play[p].pc = 6)
    BY <1>0, <1>4, AtPlace DEF Create, At
  <2>2. k \in {"policy", "pod"} /\ play[p].pc \in 4 .. 6
    BY <2>1 DEF Kinds
  <2>3. CASE Admitted(p)
    <3>1. /\ Appears(p, k) /\ Continues(p)
          /\ history' = [history EXCEPT !.together = @ \/ Joined(p, k)]
      BY <1>4, <2>3 DEF Create
    <3>2. ~history.excused
      BY <3>1 DEF TypeOK
    <3>3. \A q \in Plays : helper[q].run # "running"
      BY <2>1, <2>2, <3>2 DEF Orderly, QuietFor
    <3>4. ~Joined(p, k)
      BY <3>3 DEF Joined
    <3>5. ~history'.together
      BY <3>1, <3>2, <3>4 DEF Orderly, TypeOK
    <3>6. Elsewhere(p) /\ Advances(p, 1)
      BY <2>2, <3>1, ContinuesTo
    <3>7. OnePlay'
      BY <2>1, <3>2, <3>6 DEF Orderly, OnePlay, Elsewhere, Advances, Alike, Running
    <3>8. CASE k = "policy"
      <4>1. helper' = helper
        BY <3>1, <3>8, AppearsTo
      <4> QED
        BY <3>3, <3>5, <3>7, <4>1 DEF Orderly, PodFound, QuietFor
    <3>9. CASE k = "pod"
      <4>1. /\ object'[p]["pod"].there /\ object'[p]["pod"].labelled
            /\ HelperElsewhere(p)
        BY <3>1, <3>9, AppearsTo
      <4>2. PodFound'
        BY <3>3, <4>1 DEF PodFound, HelperElsewhere, Labelled
      <4>3. play'[p].pc = 7
        BY <2>1, <3>6, <3>9 DEF Advances
      <4>4. \A q \in Plays : play'[q].outcome = "running" => q = p
        BY <2>1, <3>6, <3>7 DEF OnePlay, Advances, Alike, Running
      <4>5. \A q \in Plays : QuietFor(q)'
        BY <4>3, <4>4 DEF QuietFor, Running
      <4> QED
        BY <3>5, <3>7, <4>2, <4>5 DEF Orderly
    <3> QED
      BY <2>2, <3>8, <3>9
  <2>4. CASE ~Admitted(p)
    <3>1. Fails(p) /\ UNCHANGED <<object, helper, history>>
      BY <1>4, <2>4 DEF Create
    <3>2. Elsewhere(p) /\ play'[p].pc = 8
      BY <2>2, <3>1, FailsTo DEF Block, ToCleanup
    <3>3. Calm
      BY <2>1, <3>1, <3>2 DEF Calm, Elsewhere, Running, Labelled
    <3> QED
      BY <3>1, <3>3, CalmOrderly
  <2> QED
    BY <2>3, <2>4
<1> QED
  BY <1>1, <1>2, <1>3, <1>4 DEF PlayStep, Tasked

LEMMA StepOneAtWork ==
  ASSUME TypeOK, OneAtWork, Next PROVE OneAtWork'
<1>1. ASSUME NEW p \in Plays, PlayStep(p)
      PROVE  OneAtWork'
  BY <1>1, StepUnstarted, PlayOrderly DEF OneAtWork
<1>2. ASSUME NEW p \in Plays, HelperStep(p)
      PROVE  OneAtWork'
  <2>1. HelperElsewhere(p) /\ helper[p].run = "running" /\ UNCHANGED <<object, play, history>>
    BY <1>2, HelperAlone
  <2>2. Calm
    BY <2>1 DEF Calm, HelperElsewhere, Running, Labelled
  <2> QED
    BY <2>1, <2>2, CalmOrderly DEF OneAtWork, Unstarted
<1>3. ASSUME NEW p \in Plays, NEW k \in Kinds, Land(p, k)
      PROVE  OneAtWork'
  BY <1>3 DEF OneAtWork, Land, Unstarted
<1>4. ASSUME NEW p \in Plays, NEW k \in Kinds,
             Gone(p, k) \/ Remove(p, k) \/ Replace(p, k) \/ Relabel(p, k)
      PROVE  OneAtWork'
  <2>1. play' = play /\ ObjectElsewhere(p, k)
    BY <1>4, MeddledTo
  <2>2. CASE Killed(p, k) /\ history' = history
    <3>1. \A q \in Plays : helper'[q].run = "running" =>
            helper[q].run = "running" /\ ~(q = p /\ k = "pod")
      BY <2>2, KilledTo
    <3>2. \A q \in Plays : helper'[q].run = "running" => object'[q]["pod"] = object[q]["pod"]
      BY <2>1, <3>1 DEF ObjectElsewhere, Kinds
    <3>3. Calm
      BY <2>1, <2>2, <3>1, <3>2 DEF Calm, Running, Labelled
    <3> QED
      BY <2>1, <2>2, <3>3, CalmOrderly DEF OneAtWork, Unstarted
  <2>3. CASE history'.excused
    BY <2>1, <2>3 DEF OneAtWork, Unstarted
  <2> QED
    BY <1>4, <2>2, <2>3, MeddledTo
<1>5. ASSUME NEW s \in Scopes, NewSecret(s) \/ Use(s)
      PROVE  OneAtWork'
  <2>1. UNCHANGED <<object, helper, play, history>>
    BY <1>5 DEF NewSecret, Use
  <2> QED
    BY <2>1 DEF OneAtWork, Unstarted, Orderly, OnePlay, PodFound, QuietFor, Running, Labelled
<1> QED
  BY <1>1, <1>2, <1>3, <1>4, <1>5 DEF Next, Others

(* Two helper scripts work on the engine at once only for one of three     *)
(* reasons: plays over each other, a late creation, labels taken away.     *)
THEOREM OneHelperHolds == Spec => []OneHelper
<1>1. TypeOK /\ OneAtWork /\ [Next]_vars => OneAtWork'
  BY StepOneAtWork DEF vars, OneAtWork, Unstarted, Orderly, OnePlay, PodFound, QuietFor,
     Running, Labelled
<1>2. OneAtWork => OneHelper
  BY DEF OneAtWork, Orderly, OneHelper
<1> QED
  BY <1>1, <1>2, InitOneAtWork, TypeCorrect, PTL DEF Spec

---------------------------------------------------------------------------
(* ResidueFree. Up to the poll a play is in its block; from the cleanup on *)
(* it keeps what it recorded, and it passes an object only when that is    *)
(* gone.                                                                   *)
Proceeds(p) ==
    /\ Alike(p) /\ play[p].pc <= play'[p].pc
    /\ play'[p].failed = play[p].failed /\ play'[p].changed = play[p].changed
    /\ play[p].pc < 11 /\ play'[p].pc >= 11 => ~object[p]["pod"].there
    /\ play[p].pc < 14 /\ play'[p].pc >= 14 => ~object[p]["policy"].there

LEMMA CleanupTo ==
  ASSUME TypeOK, NEW p \in Plays, Tasked(p) \/ \E k \in Kinds : Delete(p, k),
         play[p].pc >= 8
  PROVE  /\ Elsewhere(p)
         /\ \/ play'[p].outcome \in {"failed", "crashed"} /\ Stops(p)
            \/ Proceeds(p)
            \/ Finishes(p, 1) /\ play[p].pc = 15
<1>0. play[p].pc \in 8 .. 15
  BY UidType DEF Kinds
<1>1. ~Check(p) /\ ~BindPolicy(p) /\ ~Poll(p) /\ ~GiveUp(p) /\ ~\E k \in Kinds : Stale(p, k)
  BY <1>0, AtPlace DEF Check, BindPolicy, Poll, GiveUp, Stale, Kinds
<1>2. CASE Fails(p)
  <2>1. play[p].pc \notin Block
    BY <1>0 DEF Block
  <2> QED
    BY <1>0, <1>2, <2>1, FailsTo DEF Always
<1>3. CASE TaskFails(p)
  BY <1>2, <1>3 DEF TaskFails
<1>4. CASE HardStop(p)
  BY <1>4, EndedTo DEF HardStop
<1>5. CASE TokenGone(p)
  BY <1>0, <1>5, TokenTo DEF Proceeds
<1>6. ASSUME NEW k \in Kinds, Find(p, k), ~Fails(p)
      PROVE  Elsewhere(p) /\ Proceeds(p)
  <2>1. (k = "pod" => play[p].pc = 8) /\ (k = "policy" => play[p].pc = 11)
    BY <1>0, <1>6, AtPlace DEF Find
  <2>2. k \in {"policy", "pod"} /\ play[p].pc < 15 /\ play[p].pc + 3 <= 15
    BY <2>1 DEF Kinds
  <2>3. \/ ~object[p][k].there /\ Skips(p, 3)
        \/ play' = [play EXCEPT ![p].uid[k] = object[p][k].uid, ![p].pc = @ + 1]
    BY <1>6 DEF Find
  <2>4. CASE ~object[p][k].there /\ Skips(p, 3)
    <3>1. Elsewhere(p) /\ Advances(p, 3)
      BY <2>2, <2>4, SkipsTo
    <3> QED
      BY <2>1, <2>2, <2>4, <3>1 DEF Advances, Proceeds
  <2>5. CASE play' = [play EXCEPT ![p].uid[k] = object[p][k].uid, ![p].pc = @ + 1]
    <3>1. Elsewhere(p) /\ Advances(p, 1)
      BY <2>2, <2>5, BindsTo
    <3> QED
      BY <2>1, <2>2, <3>1 DEF Advances, Proceeds
  <2> QED
    BY <2>3, <2>4, <2>5
<1>7. ASSUME NEW k \in Kinds, Wait(p, k)
      PROVE  Elsewhere(p) /\ Proceeds(p)
  <2>1. (k = "pod" => play[p].pc = 10) /\ (k = "policy" => play[p].pc = 13)
    BY <1>0, <1>7, AtPlace DEF Wait
  <2>2. k \in {"policy", "pod"} /\ play[p].pc + 1 <= 15
    BY <2>1 DEF Kinds
  <2>3. Elsewhere(p) /\ Advances(p, 1) /\ ~object[p][k].there
    BY <1>7, <2>2, ContinuesTo DEF Wait
  <2> QED
    BY <2>1, <2>2, <2>3 DEF Advances, Proceeds
<1>8. ASSUME NEW k \in Kinds, Delete(p, k), ~Fails(p)
      PROVE  Elsewhere(p) /\ Proceeds(p)
  <2>1. play[p].pc \in {9, 12} /\ Continues(p)
    BY <1>0, <1>8, AtPlace DEF Delete, Kinds
  <2>2. Elsewhere(p) /\ Advances(p, 1)
    BY <2>1, ContinuesTo
  <2> QED
    BY <2>1, <2>2 DEF Advances, Proceeds
<1>9. ASSUME NEW k \in Kinds, Residue(p, k), ~Fails(p)
      PROVE  /\ Elsewhere(p)
             /\ \/ play'[p].outcome \in {"failed", "crashed"} /\ Stops(p)
                \/ Proceeds(p)
                \/ Finishes(p, 1) /\ play[p].pc = 15
  <2>1. play[p].pc \in {14, 15} /\ Continues(p)
    BY <1>0, <1>9, AtPlace DEF Residue, Kinds
  <2>2. CASE Advances(p, 1)
    BY <2>1, <2>2, ContinuesTo DEF Advances, Proceeds
  <2> QED
    BY <2>1, <2>2, ContinuesTo DEF Finishes
<1> QED
  BY <1>1, <1>2, <1>3, <1>4, <1>5, <1>6, <1>7, <1>8, <1>9 DEF Tasked

LEMMA BlockTo ==
  ASSUME TypeOK, NEW p \in Plays, Tasked(p) \/ \E k \in Kinds : Create(p, k),
         play[p].pc <= 7
  PROVE  /\ Elsewhere(p)
         /\ \/ Stops(p)
            \/ /\ Alike(p) /\ play[p].pc <= play'[p].pc /\ play'[p].pc <= 8
               /\ play'[p].pc = 8 =>
                    \/ play'[p].failed
                    \/ /\ helper[p].run = "succeeded"
                       /\ play'[p].changed = (helper[p].missing > 0)
<1>0. play[p].pc \in 1 .. 7
  BY UidType DEF Kinds
<1>1. CASE Poll(p)
  BY <1>0, <1>1, PollTo
<1>2. CASE Fails(p)
  <2>1. play[p].pc \in Block => play[p].pc <= 8
    BY <1>0
  <2> QED
    BY <1>2, <2>1, FailsTo DEF ToCleanup
<1>3. CASE TaskFails(p) \/ GiveUp(p)
  BY <1>2, <1>3 DEF TaskFails, GiveUp
<1>4. CASE HardStop(p)
  BY <1>4, EndedTo DEF HardStop
<1>5. CASE TokenGone(p)
  BY <1>0, <1>5, TokenTo
<1>6. ASSUME Continues(p), play[p].pc < 7
      PROVE  Elsewhere(p) /\ Alike(p) /\ play'[p].pc = play[p].pc + 1
  BY <1>0, <1>6, ContinuesTo DEF Advances
<1>7. CASE Check(p) \/ \E k \in Kinds : Stale(p, k) \/ Create(p, k)
  <2>1. play[p].pc < 7
    BY <1>0, <1>7, AtPlace DEF Check, Stale, Create, Kinds
  <2>2. Continues(p) \/ Ended(p, "refused") \/ Fails(p)
    BY <1>7 DEF Check, Stale, Create
  <2>3. CASE Continues(p)
    BY <1>0, <1>6, <2>1, <2>3
  <2> QED
    BY <1>2, <2>2, <2>3, EndedTo
<1>8. CASE BindPolicy(p) /\ ~Fails(p)
  <2>1. play[p].pc = 5 /\ "policy" \in Kinds
    BY <1>0, <1>8, AtPlace DEF BindPolicy, Kinds
  <2>2. play' = [play EXCEPT ![p].uid["policy"] = object[p]["policy"].uid, ![p].pc = @ + 1]
    BY <1>8 DEF BindPolicy
  <2>3. play[p].pc < 15
    BY <2>1
  <2>4. Elsewhere(p) /\ Advances(p, 1)
    BY <2>1, <2>2, <2>3, BindsTo
  <2> QED
    BY <2>1, <2>4 DEF Advances
<1>9. ~\E k \in Kinds : Find(p, k) \/ Wait(p, k) \/ Residue(p, k)
  BY <1>0, AtPlace DEF Find, Wait, Residue, Kinds
<1> QED
  BY <1>1, <1>2, <1>3, <1>4, <1>5, <1>7, <1>8, <1>9 DEF Tasked

(* A play has given up: it failed, or it will when its cleanup is over.    *)
GivenUp(p) ==
    \/ play[p].outcome \in {"failed", "crashed"}
    \/ Running(p) /\ play[p].failed /\ play[p].pc >= 8
Passed(p, pc) == Running(p) /\ ~play[p].failed /\ play[p].pc >= pc
ClearedOf(p) ==
    /\ \A k \in Kinds : <<p, k>> \in late => GivenUp(p)
    /\ Passed(p, 11) => ~object[p]["pod"].there
    /\ Passed(p, 14) => ~object[p]["policy"].there
    /\ play[p].outcome = "done" => \A k \in Kinds : ~object[p][k].there
Cleared == \A p \in Plays : ClearedOf(p)

LEMMA InitCleared == Init => Cleared
  BY DEF Init, Cleared, ClearedOf, Passed, Running, NoPlay, NoObject

LEMMA KeepsCleared ==
  ASSUME NEW q, ClearedOf(q), play'[q] = play[q],
         \A k \in Kinds : /\ object'[q][k].there => object[q][k].there
                          /\ <<q, k>> \in late' => <<q, k>> \in late
  PROVE  ClearedOf(q)'
  BY DEF ClearedOf, GivenUp, Passed, Running, Kinds

(* Only a creation under way becomes a late one.                           *)
LEMMA LateTo ==
  ASSUME TypeOK, NEW p \in Plays, PlayStep(p)
  PROVE  /\ late \subseteq late'
         /\ \A q \in Plays, k \in Kinds : <<q, k>> \in late' \ late =>
              /\ q = p /\ play[p].pc \in {4, 6}
              /\ play'[p].outcome = "crashed" \/ ToCleanup(p)
<1>0. play[p].pc \in 1 .. 15
  BY UidType DEF Kinds
<1>1. CASE TaskFails(p) \/ HardStop(p)
  <2>1. late' \in {late, late \cup Underway(p)}
    BY <1>1 DEF TaskFails, HardStop
  <2>2. \A q \in Plays, k \in Kinds :
           <<q, k>> \in Underway(p) => q = p /\ play[p].pc \in {4, 6}
    BY <1>0, AtPlace DEF Underway, Kinds
  <2>3. play[p].pc \in {4, 6} => play'[p].outcome = "crashed" \/ ToCleanup(p)
    BY <1>1, EndedTo, FailsTo DEF TaskFails, HardStop, Block
  <2> QED
    BY <2>1, <2>2, <2>3
<1>2. CASE late' = late
  BY <1>2
<1> QED
  BY <1>1, <1>2 DEF PlayStep, StartPlay, Check, BindPolicy, Poll, GiveUp, TokenGone, Stale,
     Create, Find, Delete, Wait, Residue

LEMMA PlayCleared ==
  ASSUME TypeOK, Unstarted, Cleared, NEW p \in Plays, PlayStep(p)
  PROVE  Cleared'
<1>0. play[p].pc \in 1 .. 15 /\ ClearedOf(p)
  BY UidType DEF Kinds, Cleared
<1>00. play'[p].pc \in 1 .. 15
  BY NextType DEF Next, TypeOK, PlayType
<1>1. /\ Elsewhere(p)
      /\ \A q \in Plays \ {p}, k \in Kinds : object'[q][k].there => object[q][k].there
  <2>1. CASE StartPlay(p)
    BY <2>1, StartTo
  <2>2. CASE Tasked(p)
    BY <2>2, TaskedTo, TaskedAlone
  <2>3. ASSUME NEW k \in Kinds, Delete(p, k)
        PROVE  /\ Elsewhere(p)
               /\ \A q \in Plays, l \in Kinds : object'[q][l].there => object[q][l].there
    <3>1. Continues(p) \/ Fails(p)
      BY <2>3 DEF Delete
    <3> QED
      BY <2>3, <3>1, ContinuesTo, FailsTo, DeleteTo
  <2>4. ASSUME NEW k \in Kinds, Create(p, k)
        PROVE  /\ Elsewhere(p)
               /\ \A q \in Plays \ {p}, l \in Kinds : object'[q][l].there => object[q][l].there
    <3>1. (Continues(p) \/ Fails(p)) /\ (Appears(p, k) \/ object' = object)
      BY <2>4 DEF Create
    <3>2. Elsewhere(p)
      BY <3>1, ContinuesTo, FailsTo
    <3>3. Appears(p, k) => ObjectElsewhere(p, k)
      BY AppearsTo
    <3> QED
      BY <3>1, <3>2, <3>3 DEF ObjectElsewhere
  <2> QED
    BY <2>1, <2>2, <2>3, <2>4 DEF PlayStep, Tasked
<1>2. \A q \in Plays \ {p} : ClearedOf(q)'
  BY <1>1, KeepsCleared, LateTo DEF Cleared, Elsewhere
<1>3. ASSUME StartPlay(p)
      PROVE  ClearedOf(p)'
  <2>1. /\ play[p].outcome = "none" /\ play'[p].outcome = "running" /\ play'[p].pc = 1
        /\ late' = late
    BY <1>3, StartTo DEF Unstarted
  <2>2. \A k \in Kinds : <<p, k>> \notin late
    BY <1>0, <2>1 DEF ClearedOf, GivenUp, Running
  <2>3. ~Passed(p, 11)' /\ ~Passed(p, 14)'
    BY <2>1 DEF Passed
  <2> QED
    BY <2>1, <2>2, <2>3 DEF ClearedOf
<1>4. ASSUME (Tasked(p) \/ \E k \in Kinds : Create(p, k)) /\ play[p].pc <= 7
      PROVE  ClearedOf(p)'
  <2>1. Running(p)
    BY <1>4, TaskedAlone DEF Create, At
  <2>2. \A k \in Kinds : <<p, k>> \notin late
    BY <1>0, <1>4, <2>1 DEF ClearedOf, GivenUp, Running
  <2>3. \A k \in Kinds : <<p, k>> \in late' => GivenUp(p)'
    BY <2>1, <2>2, LateTo DEF ToCleanup, Alike, GivenUp, Running
  <2>4. play'[p].outcome # "done" /\ ~Passed(p, 11)' /\ ~Passed(p, 14)'
    <3>1. CASE Stops(p)
      BY <3>1 DEF Stops, Passed, Running
    <3>2. CASE Alike(p) /\ play'[p].pc <= 8
      BY <1>00, <2>1, <3>2 DEF Alike, Passed, Running
    <3> QED
      BY <1>4, <3>1, <3>2, BlockTo
  <2> QED
    BY <2>3, <2>4 DEF ClearedOf
<1>5. ASSUME (Tasked(p) \/ \E k \in Kinds : Delete(p, k)) /\ play[p].pc >= 8
      PROVE  ClearedOf(p)'
  <2>1. Running(p) /\ \A k \in Kinds : object'[p][k].there = object[p][k].there
    BY <1>5, TaskedAlone, DeleteTo DEF Delete, At
  <2>2. \A k \in Kinds : <<p, k>> \in late' => GivenUp(p)
    BY <1>0, <1>5, LateTo DEF ClearedOf
  <2>3. CASE play'[p].outcome \in {"failed", "crashed"}
    BY <2>3 DEF ClearedOf, GivenUp, Passed, Running
  <2>4. CASE Proceeds(p)
    <3>1. GivenUp(p) => GivenUp(p)'
      BY <1>0, <1>00, <2>1, <2>4 DEF GivenUp, Proceeds, Alike, Running
    <3>2. play'[p].outcome = "running"
      BY <2>1, <2>4 DEF Proceeds, Alike, Running
    <3>3. Passed(p, 11)' => ~object[p]["pod"].there
      BY <1>0, <1>00, <2>1, <2>4 DEF Proceeds, Passed, ClearedOf
    <3>4. Passed(p, 14)' => ~object[p]["policy"].there
      BY <1>0, <1>00, <2>1, <2>4 DEF Proceeds, Passed, ClearedOf
    <3> QED
      BY <2>1, <2>2, <3>1, <3>2, <3>3, <3>4 DEF ClearedOf, Kinds
  <2>5. CASE Finishes(p, 1) /\ play[p].pc = 15
    <3>1. Passed(p, 11) /\ Passed(p, 14) /\ ~GivenUp(p)
      BY <2>1, <2>5 DEF Finishes, Passed, GivenUp, Running
    <3>2. play'[p].outcome = "done"
      BY <2>5 DEF Finishes
    <3>3. \A k \in Kinds : ~object'[p][k].there
      BY <1>0, <2>1, <3>1 DEF ClearedOf, Kinds
    <3>4. \A k \in Kinds : <<p, k>> \notin late'
      BY <2>2, <3>1
    <3>5. ~Running(p)'
      BY <3>2 DEF Running
    <3> QED
      BY <3>3, <3>4, <3>5 DEF ClearedOf, Passed
  <2> QED
    BY <1>5, <2>3, <2>4, <2>5, CleanupTo
<1>6. \A k \in Kinds : /\ Create(p, k) => play[p].pc <= 7
                       /\ Delete(p, k) => play[p].pc >= 8
  BY <1>0, AtPlace DEF Create, Delete, Kinds
<1>7. ClearedOf(p)'
  <2>1. play[p].pc <= 7 \/ play[p].pc >= 8
    BY <1>0
  <2> QED
    BY <1>3, <1>4, <1>5, <1>6, <2>1 DEF PlayStep, Tasked
<1> QED
  BY <1>2, <1>7 DEF Cleared

LEMMA StepCleared ==
  ASSUME TypeOK, Unstarted, Cleared, Next PROVE Cleared'
<1>1. ASSUME NEW p \in Plays, PlayStep(p)
      PROVE  Cleared'
  BY <1>1, PlayCleared
<1>2. ASSUME NEW p \in Plays, HelperStep(p)
      PROVE  Cleared'
  BY <1>2, HelperAlone, KeepsCleared DEF Cleared
<1>3. ASSUME NEW p \in Plays, NEW k \in Kinds, Land(p, k)
      PROVE  Cleared'
  <2>1. play' = play /\ late' = late \ {<<p, k>>} /\ ObjectElsewhere(p, k) /\ GivenUp(p)
    BY <1>3, AppearsTo DEF Land, Cleared, ClearedOf
  <2>2. \A q \in Plays \ {p} : ClearedOf(q)'
    BY <2>1, KeepsCleared DEF Cleared, ObjectElsewhere
  <2>3. GivenUp(p)' /\ ~Passed(p, 11)' /\ ~Passed(p, 14)' /\ play'[p].outcome # "done"
    BY <2>1 DEF GivenUp, Passed, Running
  <2> QED
    BY <2>2, <2>3 DEF Cleared, ClearedOf
<1>4. ASSUME NEW p \in Plays, NEW k \in Kinds,
             Gone(p, k) \/ Remove(p, k) \/ Replace(p, k) \/ Relabel(p, k)
      PROVE  Cleared'
  <2>1. /\ ObjectElsewhere(p, k) /\ object[p][k].there
        /\ UNCHANGED <<play, late>>
    BY <1>4, MeddledTo
  <2>2. \A q \in Plays, l \in Kinds : object'[q][l].there => object[q][l].there
    BY <2>1 DEF ObjectElsewhere
  <2> QED
    BY <2>1, <2>2, KeepsCleared DEF Cleared
<1>5. ASSUME NEW s \in Scopes, NewSecret(s) \/ Use(s)
      PROVE  Cleared'
  BY <1>5, KeepsCleared DEF NewSecret, Use, Cleared
<1> QED
  BY <1>1, <1>2, <1>3, <1>4, <1>5 DEF Next, Others

(* A play that ends well leaves neither of its objects behind.             *)
THEOREM ResidueFreeHolds == Spec => []ResidueFree
<1>1. TypeOK /\ (OneAtWork /\ Cleared) /\ [Next]_vars => (OneAtWork /\ Cleared)'
  <2> SUFFICES ASSUME TypeOK, OneAtWork, Cleared, [Next]_vars
               PROVE  (OneAtWork /\ Cleared)'
    OBVIOUS
  <2>1. CASE Next
    BY <2>1, StepOneAtWork, StepCleared DEF OneAtWork
  <2>2. CASE UNCHANGED vars
    BY <2>2, KeepsCleared DEF vars, Cleared, OneAtWork, Unstarted, Orderly, OnePlay, PodFound,
       QuietFor, Running, Labelled
  <2> QED
    BY <2>1, <2>2
<1>2. Cleared => ResidueFree
  BY DEF Cleared, ClearedOf, ResidueFree
<1> QED
  BY <1>1, <1>2, InitOneAtWork, InitCleared, TypeCorrect, PTL DEF Spec

---------------------------------------------------------------------------
(* The scripts. A scope lacks something, or it is open to its owner; what  *)
(* a script has counted and written fits what it has left to go over.      *)
Lack(s) == StateOf(s) \in Lacking
Open(s) == scope[s].stage \in Established
LackIn(S) == Cardinality({s \in S : Lack(s)})

(* The login in the second loop, which MongoDB has after createUser.       *)
InLoop(h) == h.at = "login" /\ h.missing > 0 /\ h.saw # "READY" /\ engine = "mongodb"
Making(h) == h.at \in {"look", "principal", "database", "connect", "schema"} \/ InLoop(h)
Checking(h) == h.at \in {"verify", "login"} /\ ~InLoop(h)
Ahead(h) == IF h.at \in {"look", "principal"} THEN h.i ELSE h.i + 1

Surveyed(h) ==
    /\ h.wrote = {} /\ h.missing = LackIn(1 .. h.i - 1)
    /\ \A s \in 1 .. h.i - 1 : Lack(s) \/ Open(s)
Counted(h) ==
    /\ h.missing > 0 /\ h.wrote \subseteq 1 .. Ahead(h) - 1
    /\ h.missing = Cardinality(h.wrote) + LackIn(Ahead(h) .. N)
Checked(h) ==
    /\ h.missing = Cardinality(h.wrote)
    /\ \A s \in 1 .. h.i - 1 : Open(s) /\ scope[s].password \in h.mounted[s] .. secret[s]
    /\ h.at = "verify" => h.missing > 0
    /\ h.at = "login" => Open(h.i) /\ (h.missing = 0 => \A s \in Scopes : Open(s))
Fits(h) ==
    /\ h.at = "survey" => Surveyed(h)
    /\ Making(h) => Counted(h)
    /\ h.at = "principal" => Lack(h.i) /\ h.saw = StateOf(h.i)
    /\ Checking(h) => Checked(h)
    /\ engine = "mongodb" /\ h.at \notin {"principal", "login"} => h.saw = "READY"

LEMMA FiniteScopes ==
  ASSUME NEW S, S \subseteq Scopes
  PROVE  IsFiniteSet(S) /\ Cardinality(S) \in Nat
<1>1. IsFiniteSet(Scopes)
  BY FS_Interval, ProvisioningAssumption DEF Scopes
<1> QED
  BY <1>1, FS_Subset, FS_CardinalityType

LEMMA LackInNat ==
  ASSUME NEW S, S \subseteq Scopes
  PROVE  LackIn(S) \in Nat /\ (LackIn(S) = 0 => \A s \in S : ~Lack(s))
<1> DEFINE T == {s \in S : Lack(s)}
<1>1. IsFiniteSet(T) /\ Cardinality(T) \in Nat
  BY FiniteScopes
<1>2. Cardinality(T) = 0 => T = {}
  BY <1>1, FS_EmptySet
<1> QED
  BY <1>1, <1>2 DEF LackIn

LEMMA LackInNone == ASSUME NEW S, S = {} PROVE LackIn(S) = 0
<1>1. {s \in S : Lack(s)} = {}
  OBVIOUS
<1> QED
  BY <1>1, FS_EmptySet DEF LackIn

LEMMA LackInMore ==
  ASSUME NEW S, NEW s \in Scopes, S \subseteq Scopes, s \notin S, NEW T, T = S \cup {s}
  PROVE  LackIn(T) = IF Lack(s) THEN LackIn(S) + 1 ELSE LackIn(S)
<1> DEFINE A == {t \in S : Lack(t)}
           B == {t \in T : Lack(t)}
<1>1. IsFiniteSet(A) /\ s \notin A
  BY FiniteScopes
<1>2. CASE Lack(s)
  <2>1. B = A \cup {s}
    BY <1>2
  <2>2. Cardinality(A \cup {s}) = Cardinality(A) + 1
    BY <1>1, FS_AddElement
  <2> QED
    BY <1>2, <2>1, <2>2 DEF LackIn
<1>3. CASE ~Lack(s)
  <2>1. B = A
    BY <1>3
  <2> QED
    BY <1>3, <2>1 DEF LackIn
<1> QED
  BY <1>2, <1>3

LEMMA LackInKept ==
  ASSUME NEW S, S \subseteq Scopes, \A s \in S : Lack(s)' <=> Lack(s)
  PROVE  LackIn(S)' = LackIn(S)
<1>1. {s \in S : Lack(s)'} = {s \in S : Lack(s)}
  OBVIOUS
<1>2. LackIn(S)' = Cardinality({s \in S : Lack(s)'})
  BY DEF LackIn
<1> QED
  BY <1>1, <1>2 DEF LackIn

(* One scope less to come, one more gone over.                             *)
LEMMA Ranges ==
  ASSUME NEW i \in Scopes
  PROVE  /\ 1 .. i - 1 \subseteq Scopes /\ i + 1 .. N \subseteq Scopes
         /\ i .. N \subseteq Scopes
         /\ i \notin 1 .. i - 1 /\ i \notin i + 1 .. N
         /\ 1 .. i = (1 .. i - 1) \cup {i}
         /\ i .. N = (i + 1 .. N) \cup {i}
         /\ i \in Nat /\ N \in Nat /\ i <= N /\ 1 <= i
  BY ProvisioningAssumption DEF Scopes

LEMMA LackAhead ==
  ASSUME NEW i \in Scopes
  PROVE  /\ LackIn(1 .. i) = IF Lack(i) THEN LackIn(1 .. i - 1) + 1 ELSE LackIn(1 .. i - 1)
         /\ LackIn(i .. N) = IF Lack(i) THEN LackIn(i + 1 .. N) + 1 ELSE LackIn(i + 1 .. N)
<1> DEFINE A == 1 .. i - 1
           B == i + 1 .. N
           AA == 1 .. i
           BB == i .. N
<1>1. A \subseteq Scopes /\ i \notin A /\ AA = A \cup {i}
  BY Ranges
<1>2. B \subseteq Scopes /\ i \notin B /\ BB = B \cup {i}
  BY Ranges
<1> HIDE DEF A, B, AA, BB
<1>3. LackIn(AA) = IF Lack(i) THEN LackIn(A) + 1 ELSE LackIn(A)
  BY <1>1, LackInMore
<1>4. LackIn(BB) = IF Lack(i) THEN LackIn(B) + 1 ELSE LackIn(B)
  BY <1>2, LackInMore
<1> QED
  BY <1>3, <1>4 DEF A, B, AA, BB

(* A scope is as it was for a script that does not work on it.             *)
Still(s) ==
    /\ Lack(s)' <=> Lack(s)
    /\ Lack(s) => StateOf(s)' = StateOf(s)
    /\ Open(s) => Open(s)' /\ scope'[s].password = scope[s].password

LEMMA FitsKept ==
  ASSUME TypeOK, TypeOK', NEW h \in HelperType, Fits(h), engine' = engine,
         \A s \in Scopes : secret[s] <= secret'[s] /\ Still(s)
  PROVE  Fits(h)'
<1>1. h.i \in Scopes
  BY DEF HelperType
<1>2. /\ 1 .. h.i - 1 \subseteq Scopes /\ h.i .. N \subseteq Scopes
      /\ h.i + 1 .. N \subseteq Scopes
  BY <1>1, Ranges
<1>3. /\ LackIn(1 .. h.i - 1)' = LackIn(1 .. h.i - 1)
      /\ LackIn(h.i .. N)' = LackIn(h.i .. N)
      /\ LackIn(h.i + 1 .. N)' = LackIn(h.i + 1 .. N)
  BY <1>2, LackInKept DEF Still
<1>4. /\ InLoop(h)' <=> InLoop(h)
      /\ Making(h)' <=> Making(h)
      /\ Checking(h)' <=> Checking(h)
  BY DEF InLoop, Making, Checking
<1>5. h.at = "survey" => Surveyed(h)'
  BY <1>2, <1>3 DEF Fits, Surveyed, Still
<1>6. Making(h)' => Counted(h)'
  <2>1. LackIn(Ahead(h) .. N)' = LackIn(Ahead(h) .. N)
    BY <1>3 DEF Ahead
  <2> QED
    BY <1>4, <2>1 DEF Fits, Counted
<1>7. h.at = "principal" => Lack(h.i)' /\ h.saw = StateOf(h.i)'
  BY <1>1 DEF Fits, Still
<1>8. Checking(h)' => Checked(h)'
  <2>1. ASSUME Checked(h), NEW s \in 1 .. h.i - 1
        PROVE  Open(s)' /\ scope'[s].password \in h.mounted[s] .. secret'[s]
    <3>1. s \in Scopes /\ Open(s) /\ scope[s].password \in h.mounted[s] .. secret[s]
      BY <1>2, <2>1 DEF Checked
    <3>2. h.mounted[s] \in Nat /\ secret[s] \in Nat /\ secret'[s] \in Nat
      BY <3>1 DEF TypeOK, HelperType
    <3> QED
      BY <3>1, <3>2 DEF Still
  <2> QED
    BY <1>1, <1>4, <2>1 DEF Fits, Checked, Still
<1> QED
  BY <1>4, <1>5, <1>6, <1>7, <1>8 DEF Fits

---------------------------------------------------------------------------
(* One step of a script whose record h fits: it fails, it ends with        *)
(* everything complete, or its next record fits.                           *)
Carried(g, h) ==
    /\ g.run = h.run /\ g.missing = h.missing /\ g.wrote = h.wrote
    /\ g.saw = h.saw /\ g.mounted = h.mounted
Complete(h) ==
    /\ h.missing = Cardinality(h.wrote)
    /\ \A s \in Scopes : Open(s) /\ scope[s].password \in h.mounted[s] .. secret[s]

LEMMA GoesTo ==
  ASSUME TypeOK, NEW p \in Plays, NEW h, Goes(p, h)
  PROVE  helper'[p] = h
  BY DEF Goes, TypeOK

LEMMA ExitsTo ==
  ASSUME TypeOK, NEW p \in Plays, Exits(p, "failed")
  PROVE  helper'[p].run = "failed"
<1> DEFINE x == [NoHelper EXCEPT !.run = "failed"]
<1>1. x.run = "failed"
  BY DEF NoHelper
<1> HIDE DEF x
<1>2. Goes(p, x)
  BY DEF Exits, x
<1> QED
  BY <1>1, <1>2, GoesTo

LEMMA NextScopeTo ==
  ASSUME TypeOK, NEW p \in Plays, NEW h \in HelperType, NEW loop, NEW after,
         NextScope(p, h, loop, after), NEW g, helper'[p] = g
  PROVE  \/ /\ h.i = N /\ after = "exit"
            /\ g.run = "succeeded" /\ g.missing = h.missing /\ g.wrote = h.wrote
         \/ Carried(g, h) /\ h.i < N /\ g.at = loop /\ g.i = h.i + 1
         \/ Carried(g, h) /\ h.i = N /\ after # "exit" /\ g.at = after /\ g.i = 1
<1>0. h.i \in Scopes /\ h.i <= N
  BY Ranges DEF HelperType
<1>1. CASE h.i < N
  <2> DEFINE x == [h EXCEPT !.at = loop, !.i = h.i + 1]
  <2>1. Carried(x, h) /\ x.at = loop /\ x.i = h.i + 1
    BY DEF HelperType, Carried
  <2>2. Goes(p, x)
    BY <1>1 DEF NextScope
  <2> HIDE DEF x
  <2> QED
    BY <1>1, <2>1, <2>2, GoesTo
<1>2. CASE ~(h.i < N) /\ after = "exit"
  <2> DEFINE x == [NoHelper EXCEPT !.run = "succeeded", !.missing = h.missing, !.wrote = h.wrote]
  <2>1. x.run = "succeeded" /\ x.missing = h.missing /\ x.wrote = h.wrote
    BY DEF NoHelper
  <2>2. Goes(p, x)
    BY <1>2 DEF NextScope, Succeeds
  <2>3. h.i = N
    BY <1>0, <1>2, ProvisioningAssumption DEF Scopes
  <2> HIDE DEF x
  <2> QED
    BY <1>2, <2>1, <2>2, <2>3, GoesTo
<1>3. CASE ~(h.i < N) /\ after # "exit"
  <2> DEFINE x == [h EXCEPT !.at = after, !.i = 1]
  <2>1. Carried(x, h) /\ x.at = after /\ x.i = 1
    BY DEF HelperType, Carried
  <2>2. Goes(p, x)
    BY <1>3 DEF NextScope
  <2>3. h.i = N
    BY <1>0, <1>3, ProvisioningAssumption DEF Scopes
  <2> HIDE DEF x
  <2> QED
    BY <1>3, <2>1, <2>2, <2>3, GoesTo
<1> QED
  BY <1>1, <1>2, <1>3

(* When its second loop is over a script has made all it counted.          *)
LEMMA LoopOver ==
  ASSUME NEW h \in HelperType, Counted(h), Ahead(h) = h.i => ~Lack(h.i),
         NEW g \in HelperType, Carried(g, h), engine = "mongodb" => g.saw = "READY",
         \/ h.i < N /\ g.at = "look" /\ g.i = h.i + 1
         \/ h.i = N /\ g.at = "verify" /\ g.i = 1
  PROVE  Fits(g)
<1>1. h.i \in Scopes /\ h.i \in Nat /\ N \in Nat
  BY Ranges DEF HelperType
<1>2. Ahead(h) \in {h.i, h.i + 1} /\ (Ahead(h) = h.i => LackIn(h.i .. N) = LackIn(h.i + 1 .. N))
  BY <1>1, LackAhead DEF Ahead
<1>3. h.missing = Cardinality(h.wrote) + LackIn(h.i + 1 .. N) /\ h.wrote \subseteq 1 .. h.i
  <2>1. Ahead(h) .. N = h.i .. N \/ Ahead(h) .. N = h.i + 1 .. N
    BY <1>2
  <2>2. 1 .. Ahead(h) - 1 \subseteq 1 .. h.i
    BY <1>1, <1>2
  <2> QED
    BY <1>2, <2>1, <2>2 DEF Counted
<1>4. CASE h.i < N /\ g.at = "look" /\ g.i = h.i + 1
  <2>1. Ahead(g) = h.i + 1 /\ Ahead(g) - 1 = h.i
    BY <1>1, <1>4 DEF Ahead
  <2>2. Counted(g)
    BY <1>3, <2>1 DEF Counted, Carried
  <2> QED
    BY <1>4, <2>2 DEF Fits, Carried, Checking
<1>5. CASE h.i = N /\ g.at = "verify" /\ g.i = 1
  <2>1. h.i + 1 .. N = {}
    BY <1>1, <1>5
  <2>2. LackIn(h.i + 1 .. N) = 0
    BY <2>1, LackInNone
  <2>3. Cardinality(h.wrote) \in Nat
    BY FiniteScopes DEF HelperType
  <2>4. g.missing = Cardinality(g.wrote) /\ g.missing > 0
    BY <1>3, <2>2, <2>3 DEF Carried, Counted
  <2>5. Checked(g)
    BY <1>5, <2>4 DEF Checked
  <2> QED
    BY <1>5, <2>5 DEF Fits, Making, InLoop, Carried
<1> QED
  BY <1>4, <1>5

LEMMA ReadyOpen ==
  ASSUME TypeOK, NEW s \in Scopes
  PROVE  /\ StateOf(s) = "READY" => Open(s)
         /\ Lack(s) => ~Open(s) /\ scope[s].stage \in {"missing", "role"}
         /\ StateOf(s) # "DRIFT" => Lack(s) \/ Open(s)
         /\ StateOf(s) = "ROLE_ONLY" => scope[s].stage = "role"
<1>1. scope[s].stage \in Stages
  BY ScopeFacts
<1> QED
  BY <1>1 DEF StateOf, Drifted, Stages, Open, Established, Lack, Lacking

LEMMA SurveyFits ==
  ASSUME TypeOK, NEW p \in Plays, NEW h \in HelperType, helper[p] = h, Fits(h), Survey(p),
         NEW g \in HelperType, helper'[p] = g
  PROVE  \/ g.run = "failed"
         \/ g.run = "running" /\ g.mounted = h.mounted /\ Fits(g)
<1> DEFINE i == h.i
           m == IF Lack(i) THEN h.missing + 1 ELSE h.missing
           x == [h EXCEPT !.missing = m]
           after == IF m = 0 THEN "login" ELSE "look"
<1>1. /\ h.run = "running" /\ h.at = "survey" /\ Surveyed(h)
      /\ i \in Scopes /\ i \in Nat /\ h.missing \in Nat
      /\ engine = "mongodb" => h.saw = "READY"
  BY Ranges DEF Survey, Script, Fits, HelperType
<1>2. CASE StateOf(i) = "DRIFT"
  BY <1>2, ExitsTo DEF Survey
<1>3. CASE StateOf(i) # "DRIFT"
  <2>1. x \in HelperType /\ x.missing = m
    BY <1>1 DEF HelperType
  <2>2. /\ x.run = "running" /\ x.wrote = h.wrote /\ x.saw = h.saw
        /\ x.mounted = h.mounted /\ x.i = i
    BY <1>1 DEF HelperType
  <2>3. NextScope(p, x, "survey", after)
    <3>1. x = [helper[p] EXCEPT !.missing = IF StateOf(helper[p].i) \in Lacking THEN @ + 1 ELSE @]
      BY DEF Lack
    <3> QED
      BY <1>3, <2>1, <3>1 DEF Survey
  <2> HIDE DEF x, after
  <2>4. \/ Carried(g, x) /\ i < N /\ g.at = "survey" /\ g.i = i + 1
        \/ Carried(g, x) /\ i = N /\ g.at = after /\ g.i = 1
    BY <2>1, <2>2, <2>3, NextScopeTo DEF after
  <2>5. /\ g.run = "running" /\ g.mounted = h.mounted /\ g.wrote = {} /\ g.missing = m
        /\ g.saw = h.saw
    BY <1>1, <2>1, <2>2, <2>4 DEF Carried, Surveyed
  <2>6. m = LackIn(1 .. i) /\ \A s \in 1 .. i : Lack(s) \/ Open(s)
    <3>1. m = LackIn(1 .. i)
      BY <1>1, LackAhead DEF Surveyed
    <3>2. Lack(i) \/ Open(i)
      BY <1>1, <1>3, ReadyOpen
    <3>3. 1 .. i = (1 .. i - 1) \cup {i}
      BY <1>1, Ranges
    <3> QED
      BY <1>1, <3>1, <3>2, <3>3 DEF Surveyed
  <2> HIDE DEF m
  <2>7. CASE i < N /\ g.at = "survey" /\ g.i = i + 1
    <3>1. g.i - 1 = i
      BY <1>1, <2>7
    <3>2. Surveyed(g)
      BY <2>5, <2>6, <3>1 DEF Surveyed
    <3> QED
      BY <1>1, <2>5, <2>7, <3>2 DEF Fits, Making, Checking, InLoop
  <2>8. CASE i = N /\ g.at = after /\ g.i = 1
    <3>1. 1 .. i = Scopes /\ 1 .. 0 = {} /\ 1 \in Scopes
      BY <1>1, <2>8 DEF Scopes
    <3>2. m = LackIn(Scopes) /\ \A s \in Scopes : Lack(s) \/ Open(s)
      BY <2>6, <3>1
    <3>3. m \in Nat /\ (m = 0 => \A s \in Scopes : Open(s))
      BY <3>2, LackInNat
    <3>4. Cardinality({}) = 0
      BY FS_EmptySet
    <3>5. CASE m = 0
      <4>1. g.at = "login"
        BY <2>8, <3>5 DEF after
      <4>2. Checked(g)
        BY <2>5, <2>8, <3>1, <3>3, <3>4, <3>5, <4>1 DEF Checked
      <4> QED
        BY <2>5, <3>5, <4>1, <4>2 DEF Fits, Making, InLoop
    <3>6. CASE m # 0
      <4>1. g.at = "look" /\ Ahead(g) = 1
        BY <2>8, <3>6 DEF after, Ahead
      <4>2. Counted(g)
        BY <2>5, <3>2, <3>3, <3>4, <3>6, <4>1 DEF Counted, Scopes
      <4> QED
        BY <1>1, <2>5, <4>1, <4>2 DEF Fits, Checking
    <3> QED
      BY <3>5, <3>6
  <2> QED
    BY <2>4, <2>5, <2>7, <2>8
<1> QED
  BY <1>2, <1>3

LEMMA LookFits ==
  ASSUME TypeOK, NEW p \in Plays, NEW h \in HelperType, helper[p] = h, Fits(h), Look(p),
         NEW g \in HelperType, helper'[p] = g
  PROVE  g.run = "running" /\ g.mounted = h.mounted /\ Fits(g)
<1>1. /\ h.run = "running" /\ h.at = "look" /\ Counted(h) /\ h.i \in Scopes
      /\ engine = "mongodb" => h.saw = "READY"
  BY DEF Look, Script, Fits, HelperType, Making
<1>2. CASE Lack(h.i)
  <2> DEFINE x == [h EXCEPT !.at = "principal", !.saw = StateOf(h.i)]
  <2>1. /\ x.run = h.run /\ x.at = "principal" /\ x.saw = StateOf(h.i) /\ x.i = h.i
        /\ x.missing = h.missing /\ x.wrote = h.wrote /\ x.mounted = h.mounted
    BY DEF HelperType
  <2>2. Goes(p, x)
    BY <1>2 DEF Look, Lack
  <2> HIDE DEF x
  <2>3. g = x
    BY <2>2, GoesTo
  <2>4. Ahead(g) = Ahead(h)
    BY <1>1, <2>1, <2>3 DEF Ahead
  <2>5. Counted(g)
    BY <1>1, <2>1, <2>3, <2>4 DEF Counted
  <2> QED
    BY <1>1, <1>2, <2>1, <2>3, <2>5 DEF Fits, Checking
<1>3. CASE ~Lack(h.i)
  <2>1. NextScope(p, h, "look", "verify")
    BY <1>3 DEF Look, Lack
  <2>2. /\ Carried(g, h)
        /\ \/ h.i < N /\ g.at = "look" /\ g.i = h.i + 1
           \/ h.i = N /\ g.at = "verify" /\ g.i = 1
    BY <2>1, NextScopeTo
  <2>3. Fits(g)
    BY <1>1, <1>3, <2>2, LoopOver DEF Carried
  <2> QED
    BY <1>1, <2>2, <2>3 DEF Carried
<1> QED
  BY <1>2, <1>3

LEMMA VerifyFits ==
  ASSUME TypeOK, NEW p \in Plays, NEW h \in HelperType, helper[p] = h, Fits(h), Verify(p),
         NEW g \in HelperType, helper'[p] = g
  PROVE  \/ g.run = "failed"
         \/ g.run = "running" /\ g.mounted = h.mounted /\ Fits(g)
<1>1. /\ h.run = "running" /\ h.at = "verify" /\ Checked(h) /\ h.i \in Scopes
      /\ engine = "mongodb" => h.saw = "READY"
  BY DEF Verify, Script, Fits, HelperType, Checking, InLoop
<1>2. CASE StateOf(h.i) = "READY"
  <2> DEFINE x == [h EXCEPT !.at = "login"]
  <2>1. /\ x.run = h.run /\ x.at = "login" /\ x.saw = h.saw /\ x.i = h.i
        /\ x.missing = h.missing /\ x.wrote = h.wrote /\ x.mounted = h.mounted
    BY DEF HelperType
  <2>2. Goes(p, x)
    BY <1>2 DEF Verify
  <2> HIDE DEF x
  <2>3. g = x
    BY <2>2, GoesTo
  <2>4. Open(h.i) /\ h.missing # 0
    BY <1>1, <1>2, ReadyOpen DEF Checked, HelperType
  <2>5. Checked(g)
    BY <1>1, <2>1, <2>3, <2>4 DEF Checked
  <2> QED
    BY <1>1, <2>1, <2>3, <2>5 DEF Fits, Making, InLoop
<1>3. CASE StateOf(h.i) # "READY"
  BY <1>3, ExitsTo DEF Verify
<1> QED
  BY <1>2, <1>3

LEMMA LoginFits ==
  ASSUME TypeOK, NEW p \in Plays, NEW h \in HelperType, helper[p] = h, Fits(h), Login(p),
         NEW g \in HelperType, helper'[p] = g
  PROVE  \/ g.run = "failed"
         \/ g.run = "succeeded" /\ g.missing = h.missing /\ g.wrote = h.wrote /\ Complete(h)
         \/ g.run = "running" /\ g.mounted = h.mounted /\ Fits(g)
<1>1. /\ h.run = "running" /\ h.at = "login" /\ h.i \in Scopes /\ h.missing \in Nat
      /\ h.i \in Nat /\ N \in Nat
  BY Ranges DEF Login, Script, HelperType
<1>2. CASE Exits(p, "failed")
  BY <1>2, ExitsTo
<1>3. CASE LogsIn(p, h.i) /\ AfterLogin(p) /\ InLoop(h)
  <2> DEFINE x == [h EXCEPT !.saw = "READY"]
  <2>1. /\ x \in HelperType /\ x.run = h.run /\ x.at = h.at /\ x.saw = "READY" /\ x.i = h.i
        /\ x.missing = h.missing /\ x.wrote = h.wrote /\ x.mounted = h.mounted
    BY DEF HelperType
  <2>2. NextScope(p, x, "look", "verify")
    BY <1>1, <1>3 DEF AfterLogin, InLoop
  <2> HIDE DEF x
  <2>3. /\ Carried(g, x)
        /\ \/ h.i < N /\ g.at = "look" /\ g.i = h.i + 1
           \/ h.i = N /\ g.at = "verify" /\ g.i = 1
    BY <2>1, <2>2, NextScopeTo
  <2>4. Ahead(h) = h.i + 1 /\ Ahead(x) = h.i + 1 /\ Counted(h)
    BY <1>1, <1>3, <2>1 DEF Ahead, Fits, Making
  <2>5. Counted(x)
    BY <2>1, <2>4 DEF Counted
  <2>6. Fits(g)
    BY <1>1, <2>1, <2>3, <2>4, <2>5, LoopOver DEF Carried
  <2> QED
    BY <1>1, <2>1, <2>3, <2>6 DEF Carried
<1>4. CASE LogsIn(p, h.i) /\ AfterLogin(p) /\ ~InLoop(h)
  <2>1. Checked(h)
    BY <1>1, <1>4 DEF Fits, Checking
  <2>2. \A s \in 1 .. h.i : Open(s) /\ scope[s].password \in h.mounted[s] .. secret[s]
    <3>1. scope[h.i].password \in h.mounted[h.i] .. secret[h.i]
      BY <1>4 DEF LogsIn, Mounted
    <3>2. 1 .. h.i = (1 .. h.i - 1) \cup {h.i}
      BY <1>1, Ranges
    <3> QED
      BY <1>1, <2>1, <3>1, <3>2 DEF Checked
  <2>3. \/ h.missing = 0 /\ NextScope(p, h, "login", "exit")
        \/ h.missing > 0 /\ NextScope(p, h, "verify", "exit")
    BY <1>1, <1>4 DEF AfterLogin, InLoop
  <2>4. CASE h.i = N /\ g.run = "succeeded" /\ g.missing = h.missing /\ g.wrote = h.wrote
    <3>1. 1 .. h.i = Scopes
      BY <2>4 DEF Scopes
    <3> QED
      BY <2>1, <2>2, <2>4, <3>1 DEF Complete, Checked
  <2>5. ASSUME Carried(g, h), h.i < N, g.i = h.i + 1
        PROVE  /\ g.run = "running" /\ g.mounted = h.mounted /\ g.missing = Cardinality(g.wrote)
               /\ g.missing = h.missing /\ g.saw = h.saw
               /\ \A s \in 1 .. g.i - 1 :
                     Open(s) /\ scope[s].password \in g.mounted[s] .. secret[s]
    <3>1. g.i - 1 = h.i
      BY <1>1, <2>5
    <3> QED
      BY <1>1, <2>1, <2>2, <2>5, <3>1 DEF Carried, Checked
  <2>6. CASE h.missing = 0 /\ Carried(g, h) /\ h.i < N /\ g.i = h.i + 1 /\ g.at = "login"
    <3>1. g.i \in Scopes
      BY DEF HelperType
    <3>2. Checked(g)
      BY <1>1, <2>1, <2>5, <2>6, <3>1 DEF Checked
    <3> QED
      BY <2>5, <2>6, <3>2 DEF Fits, Making, InLoop
  <2>7. CASE h.missing > 0 /\ Carried(g, h) /\ h.i < N /\ g.i = h.i + 1 /\ g.at = "verify"
    <3>1. Checked(g)
      BY <2>5, <2>7 DEF Checked
    <3>2. engine = "mongodb" => g.saw = "READY"
      BY <1>1, <1>4, <2>5, <2>7 DEF InLoop
    <3> QED
      BY <2>5, <2>7, <3>1, <3>2 DEF Fits, Making, InLoop
  <2> QED
    BY <2>3, <2>4, <2>6, <2>7, NextScopeTo
<1> QED
  BY <1>2, <1>3, <1>4 DEF Login

(* What a script writes: only the scope it is at, and never one that is    *)
(* open, if it saw the scope right before it made the principal.           *)
LEMMA WritesTo ==
  ASSUME TypeOK, NEW p \in Plays, NEW i \in Scopes, helper[p].i = i,
         Principal(p) \/ CreateDatabase(p) \/ Connect(p) \/ Schema(p)
  PROVE  /\ \A s \in Scopes \ {i} : scope'[s] = scope[s]
         /\ ~Principal(p) => scope'[i].password = scope[i].password
         /\ CreateDatabase(p) /\ ~Exits(p, "failed") => scope[i].stage = "role"
         /\ CreateDatabase(p) /\ scope[i].stage # "role" => scope' = scope
         /\ Connect(p) => \/ scope'[i].stage = scope[i].stage
                          \/ scope[i].stage = "database" /\ scope'[i].stage = "connected"
         /\ Schema(p) => \/ scope'[i].stage = scope[i].stage
                         \/ scope[i].stage = "connected" /\ scope'[i].stage = "ready"
         /\ ~Principal(p) => scope'[i].stray = scope[i].stray
<1>0. scope[i] \in [stage : Stages, password : Nat, by : Plays \cup {0}, stray : BOOLEAN]
      /\ scope \in ScopesType
  BY ScopeFacts DEF TypeOK, ScopesType
<1>1. CASE Principal(p)
  <2>1. \/ \E v, st : scope' = [scope EXCEPT ![i].stage = st, ![i].password = v]
        \/ \E v : scope' = [scope EXCEPT ![i].password = v]
        \/ scope' = scope
    BY <1>1 DEF Principal
  <2>2. \E x : scope' = [scope EXCEPT ![i] = x]
    <3>1. ASSUME NEW v, NEW st, scope' = [scope EXCEPT ![i].stage = st, ![i].password = v]
          PROVE  \E x : scope' = [scope EXCEPT ![i] = x]
      <4>1. scope' = [scope EXCEPT ![i] = [scope[i] EXCEPT !.stage = st, !.password = v]]
        BY <1>0, <3>1 DEF ScopesType
      <4> QED
        BY <4>1
    <3>2. ASSUME NEW v, scope' = [scope EXCEPT ![i].password = v]
          PROVE  \E x : scope' = [scope EXCEPT ![i] = x]
      BY <3>2
    <3>3. scope = [scope EXCEPT ![i] = scope[i]]
      BY <1>0 DEF ScopesType
    <3> QED
      BY <2>1, <3>1, <3>2, <3>3
  <2>3. Script(p, "principal") /\ ~Connect(p) /\ ~Schema(p) /\ ~CreateDatabase(p)
    BY <1>1 DEF Principal, CreateDatabase, Connect, Schema, Script
  <2> QED
    BY <1>0, <1>1, <2>2, <2>3 DEF ScopesType
<1>2. CASE CreateDatabase(p)
  <2>1. ~Connect(p) /\ ~Schema(p)
    BY <1>2 DEF CreateDatabase, Connect, Schema, Script
  <2>2. CASE scope[i].stage = "role"
    <3> DEFINE x == [scope[i] EXCEPT !.stage = "database", !.by = p]
    <3>1. x.password = scope[i].password /\ x.stray = scope[i].stray
      BY <1>0
    <3>2. scope' = [scope EXCEPT ![i].stage = "database", ![i].by = p]
      BY <1>2, <2>2 DEF CreateDatabase
    <3>3. scope' = [scope EXCEPT ![i] = x]
      BY <1>0, <3>2 DEF ScopesType
    <3> HIDE DEF x
    <3> QED
      BY <1>0, <2>1, <2>2, <3>1, <3>3 DEF ScopesType
  <2>3. CASE scope[i].stage # "role"
    BY <1>2, <2>1, <2>3 DEF CreateDatabase
  <2> QED
    BY <2>2, <2>3
<1>3. CASE Connect(p)
  <2> DEFINE y == IF scope[i].stage = "database" THEN "connected" ELSE scope[i].stage
             x == [scope[i] EXCEPT !.stage = y]
  <2>1. x.password = scope[i].password /\ x.stray = scope[i].stray /\ x.stage = y
    BY <1>0
  <2>2. scope' = [scope EXCEPT ![i] = x] /\ ~CreateDatabase(p) /\ ~Schema(p)
    BY <1>3 DEF CreateDatabase, Connect, Schema, Script
  <2> HIDE DEF x
  <2> QED
    BY <1>0, <2>1, <2>2 DEF ScopesType
<1>4. CASE Schema(p)
  <2> DEFINE y == IF scope[i].stage = "connected" THEN "ready" ELSE scope[i].stage
             x == [scope[i] EXCEPT !.stage = y]
  <2>1. x.password = scope[i].password /\ x.stray = scope[i].stray /\ x.stage = y
    BY <1>0
  <2>2. scope' = [scope EXCEPT ![i] = x] /\ ~CreateDatabase(p) /\ ~Connect(p)
    BY <1>4 DEF CreateDatabase, Connect, Schema, Script
  <2> HIDE DEF x
  <2> QED
    BY <1>0, <2>1, <2>2 DEF ScopesType
<1> QED
  BY <1>1, <1>2, <1>3, <1>4

LEMMA SameStill ==
  ASSUME NEW s, scope'[s] = scope[s], engine' = engine
  PROVE  Still(s)
  BY DEF Still, Lack, Open, StateOf, Drifted

LEMMA OpenedStill ==
  ASSUME TypeOK, TypeOK', NEW s \in Scopes, engine' = engine,
         scope'[s].password = scope[s].password, scope'[s].stray = scope[s].stray,
         \/ scope'[s].stage = scope[s].stage
         \/ scope[s].stage = "database" /\ scope'[s].stage = "connected"
         \/ scope[s].stage = "connected" /\ scope'[s].stage = "ready"
         \/ scope[s].stage \in {"connected", "ready"} /\ scope'[s].stage = "used"
  PROVE  Still(s)
<1>1. CASE scope'[s].stage = scope[s].stage
  BY <1>1 DEF Still, Lack, Open, StateOf, Drifted
<1>2. CASE /\ scope[s].stage \in {"database", "connected", "ready"}
           /\ scope'[s].stage \in {"connected", "ready", "used"}
  <2>1. StateOf(s) \in {"DRIFT", "READY"} /\ StateOf(s)' \in {"DRIFT", "READY"}
    BY <1>2 DEF StateOf, Drifted
  <2>2. ~Lack(s) /\ ~Lack(s)'
    BY <2>1 DEF Lack, Lacking
  <2> QED
    BY <1>2, <2>2 DEF Still, Open, Established
<1> QED
  BY <1>1, <1>2

(* A principal or a database was made, and what is left is as it was.      *)
LEMMA MadeFits ==
  ASSUME TypeOK', NEW i \in Scopes, NEW g \in HelperType, engine' = engine,
         \A s \in Scopes \ {i} : scope'[s] = scope[s], g.i = i,
         g.at \in {"database", "connect"} \/ InLoop(g),
         g.missing > 0, g.wrote \subseteq 1 .. i,
         g.missing = Cardinality(g.wrote) + LackIn(i + 1 .. N),
         engine = "mongodb" /\ g.at # "login" => g.saw = "READY"
  PROVE  Fits(g)'
<1> DEFINE B == i + 1 .. N
<1>1. B \subseteq Scopes /\ i \notin B /\ i \in Nat
  BY Ranges
<1>2. \A s \in B : Lack(s)' <=> Lack(s)
  BY <1>1, SameStill DEF Still
<1>3. LackIn(B)' = LackIn(B)
  <2> HIDE DEF B
  <2> QED
    BY <1>1, <1>2, LackInKept
<1>4. Ahead(g) = i + 1 /\ Ahead(g) - 1 = i
  BY <1>1 DEF Ahead, InLoop
<1>5. Counted(g)'
  BY <1>3, <1>4 DEF Counted
<1>6. ~Checking(g)'
  BY DEF Checking, InLoop
<1>7. g.at \in {"database", "connect", "login"}
  BY DEF InLoop
<1> QED
  BY <1>5, <1>6, <1>7 DEF Fits

LEMMA PrincipalFits ==
  ASSUME TypeOK, TypeOK', NEW p \in Plays, NEW h \in HelperType, helper[p] = h, Fits(h),
         Principal(p), NEW g \in HelperType, helper'[p] = g
  PROVE  \/ g.run = "failed"
         \/ g.run = "running" /\ g.mounted = h.mounted /\ Fits(g)'
<1> DEFINE at == IF engine = "mongodb" THEN "login" ELSE "database"
           wrote == h.wrote \cup {h.i}
           x == [h EXCEPT !.wrote = wrote, !.at = at]
<1>1. /\ h.run = "running" /\ h.at = "principal" /\ Counted(h) /\ Lack(h.i)
      /\ h.saw \in Lacking /\ h.i \in Scopes /\ h.i \in Nat /\ engine' = engine
  BY Ranges DEF Principal, Script, Fits, Making, Lack, HelperType, Outside
<1>2. Exits(p, "failed") \/ Goes(p, x)
  BY DEF Principal
<1>3. CASE Goes(p, x)
  <2>1. /\ x.run = h.run /\ x.at = at /\ x.saw = h.saw /\ x.i = h.i
        /\ x.missing = h.missing /\ x.wrote = wrote /\ x.mounted = h.mounted
    BY DEF HelperType
  <2> HIDE DEF x
  <2>2. g = x
    BY <1>3, GoesTo
  <2>3. h.wrote \subseteq 1 .. h.i - 1 /\ h.missing = Cardinality(h.wrote) + LackIn(h.i .. N)
    BY <1>1 DEF Counted, Ahead
  <2>4. LackIn(h.i .. N) = LackIn(h.i + 1 .. N) + 1 /\ LackIn(h.i + 1 .. N) \in Nat
    BY <1>1, LackAhead, Ranges, LackInNat
  <2>5. Cardinality(wrote) = Cardinality(h.wrote) + 1 /\ Cardinality(h.wrote) \in Nat
    <3>1. h.i \notin h.wrote
      BY <1>1, <2>3
    <3>2. IsFiniteSet(h.wrote) /\ Cardinality(h.wrote) \in Nat
      BY FiniteScopes DEF HelperType
    <3> QED
      BY <3>1, <3>2, FS_AddElement
  <2>6. wrote \subseteq 1 .. h.i
    <3>1. 1 .. h.i = (1 .. h.i - 1) \cup {h.i}
      BY <1>1, Ranges
    <3> QED
      BY <2>3, <3>1
  <2> HIDE DEF wrote
  <2>7. g.missing = Cardinality(g.wrote) + LackIn(h.i + 1 .. N)
    BY <2>1, <2>2, <2>3, <2>4, <2>5
  <2>8. g.missing > 0 /\ g.wrote \subseteq 1 .. h.i /\ g.i = h.i
    BY <1>1, <2>1, <2>2, <2>6 DEF Counted
  <2>9. g.at \in {"database", "connect"} \/ InLoop(g)
    BY <1>1, <2>1, <2>2, <2>8 DEF InLoop, Lacking
  <2>10. engine = "mongodb" /\ g.at # "login" => g.saw = "READY"
    BY <2>1, <2>2
  <2>11. \A s \in Scopes \ {h.i} : scope'[s] = scope[s]
    BY <1>1, WritesTo
  <2>12. Fits(g)'
    BY <1>1, <2>7, <2>8, <2>9, <2>10, <2>11, MadeFits
  <2> QED
    BY <1>1, <2>1, <2>2, <2>12
<1>4. Exits(p, "failed") => g.run = "failed"
  BY ExitsTo
<1> HIDE DEF x
<1> QED
  BY <1>2, <1>3, <1>4

LEMMA DatabaseFits ==
  ASSUME TypeOK, TypeOK', NEW p \in Plays, NEW h \in HelperType, helper[p] = h, Fits(h),
         CreateDatabase(p), NEW g \in HelperType, helper'[p] = g
  PROVE  \/ g.run = "failed"
         \/ g.run = "running" /\ g.mounted = h.mounted /\ Fits(g)'
<1> DEFINE x == [h EXCEPT !.at = "connect"]
<1>1. /\ h.run = "running" /\ h.at = "database" /\ Counted(h)
      /\ h.i \in Scopes /\ h.i \in Nat /\ engine' = engine
      /\ engine = "mongodb" => h.saw = "READY"
  BY Ranges DEF CreateDatabase, Script, Fits, Making, HelperType, Outside
<1>2. Exits(p, "failed") \/ Goes(p, x)
  BY DEF CreateDatabase
<1>3. CASE Goes(p, x)
  <2>1. /\ x.run = h.run /\ x.at = "connect" /\ x.saw = h.saw /\ x.i = h.i
        /\ x.missing = h.missing /\ x.wrote = h.wrote /\ x.mounted = h.mounted
    BY DEF HelperType
  <2> HIDE DEF x
  <2>2. g = x
    BY <1>3, GoesTo
  <2>3. /\ h.missing > 0 /\ h.wrote \subseteq 1 .. h.i
        /\ h.missing = Cardinality(h.wrote) + LackIn(h.i + 1 .. N)
    <3>1. Ahead(h) = h.i + 1 /\ Ahead(h) - 1 = h.i
      BY <1>1 DEF Ahead
    <3> QED
      BY <1>1, <3>1 DEF Counted
  <2>4. \A s \in Scopes \ {h.i} : scope'[s] = scope[s]
    BY <1>1, WritesTo
  <2>5. Fits(g)'
    BY <1>1, <2>1, <2>2, <2>3, <2>4, MadeFits
  <2> QED
    BY <1>1, <2>1, <2>2, <2>5
<1>4. Exits(p, "failed") => g.run = "failed"
  BY ExitsTo
<1> HIDE DEF x
<1> QED
  BY <1>2, <1>3, <1>4

LEMMA GrantsFit ==
  ASSUME TypeOK, TypeOK', NEW p \in Plays, NEW h \in HelperType, helper[p] = h, Fits(h),
         Connect(p) \/ Schema(p), NEW g \in HelperType, helper'[p] = g
  PROVE  g.run = "running" /\ g.mounted = h.mounted /\ Fits(g)'
<1>1. /\ h.run = "running" /\ h.at \in {"connect", "schema"} /\ Counted(h)
      /\ h.i \in Scopes /\ h.i \in Nat
      /\ engine' = engine /\ secret' = secret
      /\ engine = "mongodb" => h.saw = "READY"
  BY Ranges DEF Connect, Schema, Script, Fits, Making, HelperType, Outside
<1>2. Ahead(h) = h.i + 1
  BY <1>1 DEF Ahead
<1>3. g.run = "running" /\ g.mounted = h.mounted /\ Fits(g)
  <2>1. CASE Connect(p)
    <3> DEFINE x == [h EXCEPT !.at = "schema"]
    <3>1. /\ x.run = h.run /\ x.at = "schema" /\ x.saw = h.saw /\ x.i = h.i
          /\ x.missing = h.missing /\ x.wrote = h.wrote /\ x.mounted = h.mounted
      BY DEF HelperType
    <3>2. Goes(p, x)
      BY <2>1 DEF Connect
    <3> HIDE DEF x
    <3>3. g = x
      BY <3>2, GoesTo
    <3>4. Ahead(g) = Ahead(h)
      BY <1>2, <3>1, <3>3 DEF Ahead
    <3>5. Counted(g)
      BY <1>1, <3>1, <3>3, <3>4 DEF Counted
    <3> QED
      BY <1>1, <3>1, <3>3, <3>5 DEF Fits, Checking
  <2>2. CASE Schema(p)
    <3>1. NextScope(p, h, "look", "verify")
      BY <2>2 DEF Schema
    <3>2. /\ Carried(g, h)
          /\ \/ h.i < N /\ g.at = "look" /\ g.i = h.i + 1
             \/ h.i = N /\ g.at = "verify" /\ g.i = 1
      BY <3>1, NextScopeTo
    <3>3. Ahead(h) # h.i
      BY <1>1, <1>2
    <3>4. Fits(g)
      BY <1>1, <3>2, <3>3, LoopOver DEF Carried
    <3> QED
      BY <1>1, <3>2, <3>4 DEF Carried
  <2> QED
    BY <2>1, <2>2
<1>4. \A s \in Scopes : Still(s)
  <2>1. Still(h.i)
    <3>1. /\ ~Principal(p)
          /\ Connect(p) \/ Schema(p)
      BY <1>1 DEF Principal, Script
    <3> QED
      BY <1>1, <3>1, WritesTo, OpenedStill
  <2> QED
    BY <1>1, <2>1, WritesTo, SameStill
<1>5. \A s \in Scopes : secret[s] <= secret'[s]
  BY <1>1 DEF TypeOK
<1> QED
  BY <1>1, <1>3, <1>4, <1>5, FitsKept

LEMMA ScriptTo ==
  ASSUME TypeOK, TypeOK', NEW p \in Plays, NEW h \in HelperType, helper[p] = h, Fits(h),
         HelperStep(p), NEW g \in HelperType, helper'[p] = g
  PROVE  /\ \/ g.run = "failed"
            \/ /\ g.run = "succeeded" /\ g.missing = h.missing /\ g.wrote = h.wrote
               /\ Complete(h) /\ scope' = scope
            \/ g.run = "running" /\ g.mounted = h.mounted /\ Fits(g)'
         /\ \A s \in Scopes : Open(s) => Open(s)' /\ scope'[s].password = scope[s].password
<1>0. engine' = engine /\ secret' = secret /\ h.run = "running" /\ h.i \in Scopes
  BY HelperAlone DEF HelperType
<1>1. CASE Survey(p) \/ Look(p) \/ Verify(p) \/ Login(p) \/ HelperFails(p)
  <2>1. scope' = scope
    BY <1>1 DEF Survey, Look, Verify, Login, HelperFails, cluster
  <2>2. \A s \in Scopes : secret[s] <= secret'[s] /\ Still(s)
    BY <1>0, <2>1, SameStill DEF TypeOK
  <2>3. Fits(g) => Fits(g)'
    BY <1>0, <2>2, FitsKept
  <2>4. HelperFails(p) => g.run = "failed"
    BY ExitsTo DEF HelperFails
  <2>5. \/ g.run = "failed"
        \/ g.run = "succeeded" /\ g.missing = h.missing /\ g.wrote = h.wrote /\ Complete(h)
        \/ g.run = "running" /\ g.mounted = h.mounted /\ Fits(g)
    BY <1>1, <2>4, SurveyFits, LookFits, VerifyFits, LoginFits
  <2>6. \A s \in Scopes : Open(s) => Open(s)' /\ scope'[s].password = scope[s].password
    BY <2>1 DEF Open
  <2> QED
    BY <2>1, <2>3, <2>5, <2>6
<1>2. CASE Principal(p) \/ CreateDatabase(p) \/ Connect(p) \/ Schema(p)
  <2>1. \/ g.run = "failed"
        \/ g.run = "running" /\ g.mounted = h.mounted /\ Fits(g)'
    BY <1>2, PrincipalFits, DatabaseFits, GrantsFit
  <2>2. ASSUME Open(h.i)
        PROVE  Open(h.i)' /\ scope'[h.i].password = scope[h.i].password
    <3>1. ~Principal(p)
      <4>1. Principal(p) => Lack(h.i)
        BY DEF Principal, Script, Fits
      <4> QED
        BY <1>0, <2>2, <4>1, ReadyOpen
    <3>2. scope[h.i].stage \in Established
      BY <2>2 DEF Open
    <3>3. /\ scope'[h.i].password = scope[h.i].password
          /\ \/ CreateDatabase(p) /\ scope' = scope
             \/ Connect(p) \/ Schema(p)
      BY <1>0, <1>2, <3>1, <3>2, WritesTo DEF Established
    <3>4. scope'[h.i].stage = scope[h.i].stage \/ scope'[h.i].stage \in {"connected", "ready"}
      BY <1>0, <1>2, <3>3, WritesTo
    <3> QED
      BY <3>2, <3>3, <3>4 DEF Open, Established
  <2>3. \A s \in Scopes \ {h.i} : scope'[s] = scope[s]
    BY <1>0, <1>2, WritesTo
  <2> QED
    BY <2>1, <2>2, <2>3 DEF Open
<1> QED
  BY <1>1, <1>2 DEF HelperStep

---------------------------------------------------------------------------
(* What holds of a play and its script while no two scripts run at once.   *)
(* The record of a running script is named by a bound variable: it is then *)
(* one value, whatever the step.                                           *)
Told(p) == play[p].outcome = "done" \/ Passed(p, 8)
Succeeded(p) ==
    /\ helper[p].missing = Cardinality(helper[p].wrote)
    /\ \A s \in Scopes : Open(s) /\ scope[s].password \in play[p].began[s] .. secret[s]
SoundOf(p) ==
    /\ helper[p].run = "none" => helper[p] = NoHelper
    /\ helper[p].run # "none" =>
         /\ <<p, "pod">> \notin late /\ play[p].outcome # "none"
         /\ Running(p) => play[p].pc >= 7
    /\ \A s \in Scopes : play[p].began[s] <= secret[s]
    /\ helper[p].run = "running" =>
         \A s \in Scopes : /\ play[p].began[s] <= helper[p].mounted[s]
                           /\ helper[p].mounted[s] <= secret[s]
    /\ \A h \in HelperType : helper[p] = h /\ h.run = "running" => Fits(h)
    /\ helper[p].run = "succeeded" => Succeeded(p)
    /\ Told(p) => helper[p].run = "succeeded" /\ play[p].changed = (helper[p].missing > 0)
Alone == \A p, q \in Plays : helper[p].run = "running" /\ helper[q].run = "running" => p = q
Sound == ~history.together => Alone /\ \A p \in Plays : SoundOf(p)

LEMMA InitSound == Init => Sound
<1> SUFFICES ASSUME Init PROVE Sound
  OBVIOUS
<1>1. \A p \in Plays : helper[p] = NoHelper /\ play[p] = NoPlay
  BY DEF Init
<1>2. NoHelper.run = "none" /\ NoPlay.outcome = "none" /\ \A s \in Scopes : NoPlay.began[s] = 0
  BY DEF NoHelper, NoPlay
<1>3. \A s \in Scopes : secret[s] = 0
  BY DEF Init
<1> QED
  BY <1>1, <1>2, <1>3 DEF Sound, Alone, SoundOf, Told, Passed, Running

LEMMA Numbers ==
  ASSUME TypeOK, NEW p \in Plays, NEW s \in Scopes
  PROVE  /\ play[p].began[s] \in Nat /\ helper[p].mounted[s] \in Nat /\ secret[s] \in Nat
         /\ scope[s].password \in Nat
<1>1. play[p] \in PlayType /\ helper[p] \in HelperType
  BY DEF TypeOK
<1> QED
  BY <1>1, ScopeFacts DEF TypeOK, PlayType, HelperType

(* A play that this step does not touch.                                   *)
LEMMA KeepsSound ==
  ASSUME TypeOK, TypeOK', NEW q \in Plays, SoundOf(q), engine' = engine,
         play'[q] = play[q], helper'[q] = helper[q],
         <<q, "pod">> \in late' => <<q, "pod">> \in late,
         \A s \in Scopes : /\ secret[s] <= secret'[s]
                           /\ helper[q].run = "running" => Still(s)
                           /\ Open(s) => Open(s)' /\ scope'[s].password = scope[s].password
  PROVE  SoundOf(q)'
<1>1. \A s \in Scopes : /\ play[q].began[s] \in Nat /\ helper[q].mounted[s] \in Nat
                        /\ secret[s] \in Nat /\ secret'[s] \in Nat /\ scope[s].password \in Nat
  BY Numbers DEF TypeOK
<1>2. \A s \in Scopes : play'[q].began[s] <= secret'[s]
  BY <1>1 DEF SoundOf
<1>3. helper'[q].run = "running" =>
         \A s \in Scopes : /\ play'[q].began[s] <= helper'[q].mounted[s]
                           /\ helper'[q].mounted[s] <= secret'[s]
  BY <1>1 DEF SoundOf
<1>4. ASSUME NEW h \in HelperType, helper'[q] = h, h.run = "running"
      PROVE  Fits(h)'
  <2>1. Fits(h) /\ \A s \in Scopes : secret[s] <= secret'[s] /\ Still(s)
    BY <1>4 DEF SoundOf
  <2> QED
    BY <2>1, FitsKept
<1>5. ASSUME helper'[q].run = "succeeded"
      PROVE  Succeeded(q)'
  <2>1. Succeeded(q)
    BY <1>5 DEF SoundOf
  <2>2. ASSUME NEW s \in Scopes
        PROVE  Open(s)' /\ scope'[s].password \in play'[q].began[s] .. secret'[s]
    BY <1>1, <2>1, <2>2 DEF Succeeded
  <2> QED
    BY <2>1, <2>2 DEF Succeeded
<1>6. Told(q)' => helper'[q].run = "succeeded" /\ play'[q].changed = (helper'[q].missing > 0)
  BY DEF SoundOf, Told, Passed, Running
<1>7. /\ helper'[q].run = "none" => helper'[q] = NoHelper
      /\ helper'[q].run # "none" =>
           /\ <<q, "pod">> \notin late' /\ play'[q].outcome # "none"
           /\ Running(q)' => play'[q].pc >= 7
  BY DEF SoundOf, Running
<1> QED
  BY <1>2, <1>3, <1>4, <1>5, <1>6, <1>7 DEF SoundOf

(* A play's step in one view: it starts, stops, goes on or finishes.       *)
PlayGoesOn(p) ==
    /\ Running(p) /\ Alike(p) /\ play[p].pc <= play'[p].pc
    /\ play'[p].pc >= 8 /\ ~play'[p].failed =>
         \/ play[p].pc >= 8 /\ ~play[p].failed /\ play'[p].changed = play[p].changed
         \/ helper[p].run = "succeeded" /\ play'[p].changed = (helper[p].missing > 0)

LEMMA PlayMoves ==
  ASSUME TypeOK, TypeOK', NEW p \in Plays, PlayStep(p)
  PROVE  /\ Elsewhere(p)
         /\ \/ StartPlay(p)
            \/ Running(p) /\ Stops(p)
            \/ PlayGoesOn(p)
            \/ Running(p) /\ Finishes(p, 1) /\ play[p].pc = 15
<1>0. play[p].pc \in 1 .. 15 /\ play'[p].pc \in 1 .. 15
  BY DEF TypeOK, PlayType
<1>1. CASE StartPlay(p)
  BY <1>1, StartTo
<1>2. CASE (Tasked(p) \/ \E k \in Kinds : Create(p, k)) /\ play[p].pc <= 7
  <2>1. Running(p)
    BY <1>2, TaskedAlone DEF Create, At
  <2>2. CASE Stops(p)
    BY <1>2, <2>1, <2>2, BlockTo
  <2>3. CASE ~Stops(p)
    <3>1. /\ Elsewhere(p) /\ Alike(p) /\ play[p].pc <= play'[p].pc /\ play'[p].pc <= 8
          /\ play'[p].pc = 8 =>
               \/ play'[p].failed
               \/ helper[p].run = "succeeded" /\ play'[p].changed = (helper[p].missing > 0)
      BY <1>2, <2>3, BlockTo
    <3>2. play'[p].pc >= 8 => play'[p].pc = 8
      BY <1>0, <3>1
    <3> QED
      BY <2>1, <3>1, <3>2 DEF PlayGoesOn
  <2> QED
    BY <2>2, <2>3
<1>3. CASE (Tasked(p) \/ \E k \in Kinds : Delete(p, k)) /\ play[p].pc >= 8
  <2>1. Running(p)
    BY <1>3, TaskedAlone DEF Delete, At
  <2>2. CASE Proceeds(p)
    BY <1>3, <2>1, <2>2, CleanupTo DEF Proceeds, PlayGoesOn
  <2> QED
    BY <1>3, <2>1, <2>2, CleanupTo
<1>4. \A k \in Kinds : /\ Create(p, k) => play[p].pc <= 7
                       /\ Delete(p, k) => play[p].pc >= 8
  BY <1>0, AtPlace DEF Create, Delete, Kinds
<1>5. play[p].pc <= 7 \/ play[p].pc >= 8
  BY <1>0
<1> QED
  BY <1>1, <1>2, <1>3, <1>4, <1>5 DEF PlayStep, Tasked

(* A play's step that starts no script leaves the scripts alone.           *)
LEMMA PlayAside ==
  ASSUME TypeOK, NEW p \in Plays, PlayStep(p)
  PROVE  /\ UNCHANGED <<engine, scope, secret>>
         /\ ~Create(p, "pod") => helper' = helper /\ history'.together = history.together
<1>1. CASE StartPlay(p)
  <2>1. history' = history \/ history' = [history EXCEPT !.excused = TRUE]
    BY <1>1 DEF StartPlay
  <2> QED
    BY <1>1, <2>1, StartTo DEF TypeOK
<1>2. CASE Tasked(p)
  BY <1>2, TaskedAlone
<1>3. CASE \E k \in Kinds : Delete(p, k)
  BY <1>3 DEF Delete, cluster
<1>4. ASSUME NEW k \in Kinds, Create(p, k)
      PROVE  /\ UNCHANGED <<engine, scope, secret>>
             /\ k # "pod" => helper' = helper /\ history'.together = history.together
  <2>1. UNCHANGED <<engine, scope, secret>>
    BY <1>4 DEF Create, cluster
  <2>2. CASE Admitted(p) /\ k # "pod"
    <3>1. Appears(p, k) /\ history' = [history EXCEPT !.together = @ \/ Joined(p, k)]
      BY <1>4, <2>2 DEF Create
    <3>2. ~Joined(p, k)
      BY <2>2 DEF Joined
    <3> QED
      BY <2>1, <2>2, <3>1, <3>2 DEF Appears, TypeOK
  <2>3. CASE ~Admitted(p)
    BY <1>4, <2>1, <2>3 DEF Create
  <2> QED
    BY <2>1, <2>2, <2>3
<1> QED
  BY <1>1, <1>2, <1>3, <1>4 DEF PlayStep, Tasked

LEMMA PlaySound ==
  ASSUME TypeOK, TypeOK', Unstarted, NEW p \in Plays, PlayStep(p), helper' = helper, SoundOf(p)
  PROVE  SoundOf(p)'
<1>0. /\ UNCHANGED <<engine, scope, secret>>
      /\ play[p].pc \in 1 .. 15 /\ play'[p].pc \in 1 .. 15
  BY PlayAside DEF TypeOK, PlayType
<1>1. \A s \in Scopes : /\ play[p].began[s] \in Nat /\ play'[p].began[s] \in Nat
                        /\ helper[p].mounted[s] \in Nat /\ secret[s] \in Nat
                        /\ scope[s].password \in Nat
  BY Numbers DEF TypeOK, PlayType
<1>2. helper[p].run # "none" => ~StartPlay(p)
  BY StartTo DEF SoundOf
<1>3. /\ \A s \in Scopes : play'[p].began[s] <= secret'[s]
      /\ helper[p].run # "none" => \A s \in Scopes : play'[p].began[s] <= play[p].began[s]
  <2>1. CASE StartPlay(p)
    <3>1. play'[p].began = secret
      BY <2>1, StartTo
    <3> QED
      BY <1>0, <1>1, <1>2, <2>1, <3>1
  <2>2. CASE Stops(p)
    BY <1>0, <1>1, <2>2 DEF Stops
  <2>3. CASE play'[p].began = play[p].began
    BY <1>0, <1>1, <2>3 DEF SoundOf
  <2> QED
    BY <2>1, <2>2, <2>3, PlayMoves DEF PlayGoesOn, Alike, Finishes
<1>4. helper[p].run # "none" =>
         /\ <<p, "pod">> \notin late' /\ play'[p].outcome # "none"
         /\ Running(p)' => play'[p].pc >= 7
  <2> SUFFICES ASSUME helper[p].run # "none"
               PROVE  /\ <<p, "pod">> \notin late' /\ play'[p].outcome # "none"
                      /\ Running(p)' => play'[p].pc >= 7
    OBVIOUS
  <2>1. <<p, "pod">> \notin late /\ (Running(p) => play[p].pc >= 7)
    BY DEF SoundOf
  <2>2. Running(p) /\ play[p].pc \notin {4, 6}
    BY <1>0, <1>2, <2>1, PlayMoves DEF PlayGoesOn
  <2>3. <<p, "pod">> \notin late'
    BY <2>1, <2>2, LateTo DEF Kinds
  <2>4. CASE Stops(p) \/ Finishes(p, 1)
    BY <2>3, <2>4 DEF Stops, Finishes, Running
  <2>5. CASE PlayGoesOn(p)
    BY <1>0, <2>1, <2>3, <2>5 DEF PlayGoesOn, Alike, Running
  <2> QED
    BY <1>2, <2>4, <2>5, PlayMoves
<1>5. helper[p].run = "succeeded" => Succeeded(p)'
  <2> SUFFICES ASSUME helper[p].run = "succeeded"
               PROVE  Succeeded(p)'
    OBVIOUS
  <2>1. Succeeded(p)
    BY DEF SoundOf
  <2>2. ASSUME NEW s \in Scopes
        PROVE  Open(s)' /\ scope'[s].password \in play'[p].began[s] .. secret'[s]
    BY <1>0, <1>1, <1>3, <2>1, <2>2 DEF Succeeded, Open
  <2> QED
    BY <2>1, <2>2 DEF Succeeded
<1>6. Told(p)' => helper[p].run = "succeeded" /\ play'[p].changed = (helper[p].missing > 0)
  <2>1. Told(p) => helper[p].run = "succeeded" /\ play[p].changed = (helper[p].missing > 0)
    BY DEF SoundOf
  <2>2. CASE StartPlay(p)
    <3>1. play'[p].outcome = "running" /\ play'[p].pc = 1
      BY <2>2, StartTo DEF Unstarted
    <3> QED
      BY <3>1 DEF Told, Passed
  <2>3. CASE Stops(p)
    BY <2>3 DEF Stops, Told, Passed, Running
  <2>4. CASE PlayGoesOn(p)
    <3> SUFFICES ASSUME Told(p)'
                 PROVE  helper[p].run = "succeeded" /\ play'[p].changed = (helper[p].missing > 0)
      OBVIOUS
    <3>1. play'[p].pc >= 8 /\ ~play'[p].failed
      BY <2>4 DEF Told, Passed, PlayGoesOn, Alike, Running
    <3> QED
      BY <2>1, <2>4, <3>1 DEF PlayGoesOn, Told, Passed
  <2>5. CASE Running(p) /\ Finishes(p, 1) /\ play[p].pc = 15
    <3>1. Told(p) /\ play'[p].changed = play[p].changed
      BY <2>5 DEF Finishes, Told, Passed
    <3> QED
      BY <2>1, <3>1
  <2> QED
    BY <2>2, <2>3, <2>4, <2>5, PlayMoves
<1>7. ASSUME NEW h \in HelperType, helper'[p] = h, h.run = "running"
      PROVE  Fits(h)'
  <2>1. Fits(h) /\ \A s \in Scopes : secret[s] <= secret'[s] /\ Still(s)
    BY <1>0, <1>1, <1>7, SameStill DEF SoundOf
  <2> QED
    BY <1>0, <2>1, FitsKept
<1>8. helper'[p].run = "running" =>
         \A s \in Scopes : /\ play'[p].began[s] <= helper'[p].mounted[s]
                           /\ helper'[p].mounted[s] <= secret'[s]
  BY <1>0, <1>1, <1>3 DEF SoundOf
<1> QED
  BY <1>3, <1>4, <1>5, <1>6, <1>7, <1>8 DEF SoundOf

LEMMA StartsSound ==
  ASSUME TypeOK, TypeOK', NEW p \in Plays, SoundOf(p), Appears(p, "pod"),
         helper[p].run = "none", UNCHANGED <<engine, scope, secret>>,
         <<p, "pod">> \notin late', play'[p].outcome # "none",
         Running(p)' => play'[p].pc >= 7, ~Told(p)', play'[p].began = play[p].began
  PROVE  SoundOf(p)'
<1>1. helper[p] = NoHelper /\ "pod" \in Kinds
  BY DEF SoundOf, Kinds
<1>2. helper'[p] = [NoHelper EXCEPT !.run = "running", !.mounted = secret]
  BY <1>1, AppearsTo
<1>3. /\ helper'[p].run = "running" /\ helper'[p].at = "survey" /\ helper'[p].i = 1
      /\ helper'[p].saw = "READY" /\ helper'[p].missing = 0 /\ helper'[p].wrote = {}
      /\ helper'[p].mounted = secret
  BY <1>2 DEF NoHelper
<1>4. ASSUME NEW h \in HelperType, helper'[p] = h
      PROVE  Fits(h)'
  <2>1. h.at = "survey" /\ h.i = 1 /\ h.saw = "READY" /\ h.missing = 0 /\ h.wrote = {}
    BY <1>3, <1>4
  <2>2. 1 .. h.i - 1 = {}
    BY <2>1
  <2>3. LackIn(1 .. h.i - 1) = 0
    BY <2>2, LackInNone
  <2>4. Surveyed(h)
    BY <2>1, <2>2, <2>3 DEF Surveyed
  <2>5. Fits(h)
    BY <2>1, <2>4 DEF Fits, Making, Checking, InLoop
  <2>6. \A s \in Scopes : secret[s] <= secret'[s] /\ Still(s)
    BY SameStill DEF TypeOK
  <2> QED
    BY <2>5, <2>6, FitsKept
<1>5. \A s \in Scopes : /\ play'[p].began[s] <= secret'[s]
                        /\ play'[p].began[s] <= helper'[p].mounted[s]
                        /\ helper'[p].mounted[s] <= secret'[s]
  BY <1>3, Numbers DEF SoundOf
<1> QED
  BY <1>3, <1>4, <1>5 DEF SoundOf

LEMMA AloneAfter ==
  ASSUME NEW p \in Plays, Alone, HelperElsewhere(p),
         helper'[p].run = "running" =>
           helper[p].run = "running" \/ \A q \in Plays \ {p} : helper[q].run # "running"
  PROVE  Alone'
  BY DEF Alone, HelperElsewhere

LEMMA KilledSound ==
  ASSUME TypeOK, TypeOK', NEW q \in Plays, SoundOf(q), UNCHANGED <<engine, scope, secret, play, late>>,
         helper[q].run = "running", helper'[q].run = "killed"
  PROVE  SoundOf(q)'
  BY DEF SoundOf, Running, Told, Passed

LEMMA HelperSound ==
  ASSUME TypeOK, TypeOK', NEW p \in Plays, SoundOf(p), HelperStep(p)
  PROVE  SoundOf(p)'
<1>0. /\ helper[p].run = "running" /\ UNCHANGED <<engine, secret, play, late>>
      /\ helper[p] \in HelperType /\ helper'[p] \in HelperType
  BY HelperAlone DEF TypeOK
<1>1. /\ \/ helper'[p].run = "failed"
         \/ /\ helper'[p].run = "succeeded" /\ helper'[p].missing = helper[p].missing
            /\ helper'[p].wrote = helper[p].wrote /\ Complete(helper[p]) /\ scope' = scope
         \/ /\ helper'[p].run = "running" /\ helper'[p].mounted = helper[p].mounted
            /\ \A h \in HelperType : helper'[p] = h => Fits(h)'
  <2>1. PICK h \in HelperType : helper[p] = h
    BY <1>0
  <2>2. PICK g \in HelperType : helper'[p] = g
    BY <1>0
  <2>3. Fits(h)
    BY <1>0, <2>1 DEF SoundOf
  <2>4. \/ g.run = "failed"
        \/ /\ g.run = "succeeded" /\ g.missing = h.missing /\ g.wrote = h.wrote
           /\ Complete(h) /\ scope' = scope
        \/ g.run = "running" /\ g.mounted = h.mounted /\ Fits(g)'
    BY <2>1, <2>2, <2>3, ScriptTo
  <2>5. Complete(h) => Complete(helper[p])
    BY <2>1
  <2> QED
    BY <2>1, <2>2, <2>4, <2>5
<1>2. ~Told(p) /\ ~Told(p)'
  BY <1>0 DEF SoundOf, Told, Passed, Running
<1>3. /\ <<p, "pod">> \notin late' /\ play'[p].outcome # "none"
      /\ Running(p)' => play'[p].pc >= 7
      /\ \A s \in Scopes : /\ play'[p].began[s] <= secret'[s]
                           /\ play'[p].began[s] <= helper[p].mounted[s]
                           /\ helper[p].mounted[s] <= secret'[s]
  BY <1>0 DEF SoundOf, Running
<1>4. CASE helper'[p].run = "failed"
  BY <1>2, <1>3, <1>4 DEF SoundOf
<1>5. CASE /\ helper'[p].run = "succeeded" /\ helper'[p].missing = helper[p].missing
           /\ helper'[p].wrote = helper[p].wrote /\ Complete(helper[p]) /\ scope' = scope
  <2>1. ASSUME NEW s \in Scopes
        PROVE  Open(s)' /\ scope'[s].password \in play'[p].began[s] .. secret'[s]
    <3>1. Open(s) /\ scope[s].password \in helper[p].mounted[s] .. secret[s]
      BY <1>5 DEF Complete
    <3> QED
      BY <1>0, <1>3, <1>5, <3>1, Numbers DEF Open
  <2>2. Succeeded(p)'
    BY <1>5, <2>1 DEF Succeeded, Complete
  <2> QED
    BY <1>2, <1>3, <1>5, <2>2 DEF SoundOf
<1>6. CASE /\ helper'[p].run = "running" /\ helper'[p].mounted = helper[p].mounted
           /\ \A h \in HelperType : helper'[p] = h => Fits(h)'
  BY <1>2, <1>3, <1>6 DEF SoundOf
<1> QED
  BY <1>1, <1>4, <1>5, <1>6

LEMMA StepSound ==
  ASSUME TypeOK, TypeOK', Unstarted, Cleared, Sound, Next, ~history'.together
  PROVE  Alone' /\ \A p \in Plays : SoundOf(p)'
<1>0. history.together \in BOOLEAN /\ "pod" \in Kinds
  BY DEF TypeOK, Kinds
<1>1. ASSUME NEW p \in Plays, PlayStep(p), ~Create(p, "pod") \/ ~Admitted(p)
      PROVE  Alone' /\ \A q \in Plays : SoundOf(q)'
  <2>1. UNCHANGED <<engine, scope, secret, helper>> /\ ~history.together /\ Elsewhere(p)
    <3>1. Create(p, "pod") /\ ~Admitted(p) => helper' = helper /\ history' = history
      BY DEF Create
    <3> QED
      BY <1>1, <3>1, PlayAside, PlayMoves
  <2>2. Alone /\ \A q \in Plays : SoundOf(q)
    BY <2>1 DEF Sound
  <2>3. SoundOf(p)'
    BY <1>1, <2>1, <2>2, PlaySound
  <2>4. ASSUME NEW q \in Plays \ {p}
        PROVE  SoundOf(q)'
    <3>1. <<q, "pod">> \in late' => <<q, "pod">> \in late
      BY <1>0, <1>1, LateTo
    <3>2. \A s \in Scopes : /\ secret[s] <= secret'[s] /\ Still(s)
                            /\ Open(s) => Open(s)' /\ scope'[s].password = scope[s].password
      BY <2>1, SameStill DEF TypeOK, Open
    <3> QED
      BY <2>1, <2>2, <3>1, <3>2, KeepsSound DEF Elsewhere
  <2> QED
    BY <2>1, <2>2, <2>3, <2>4 DEF Alone
<1>2. ASSUME NEW p \in Plays, Appears(p, "pod"), SoundOf(p)', \A q \in Plays \ {p} : play'[q] = play[q],
             \A q \in Plays : <<q, "pod">> \in late' => <<q, "pod">> \in late,
             UNCHANGED <<engine, scope, secret>>, ~history.together, ~Joined(p, "pod")
      PROVE  Alone' /\ \A q \in Plays : SoundOf(q)'
  <2>1. HelperElsewhere(p) /\ \A q \in Plays \ {p} : helper[q].run # "running"
    BY <1>0, <1>2, AppearsTo DEF Joined
  <2>2. Alone /\ \A q \in Plays : SoundOf(q)
    BY <1>2 DEF Sound
  <2>3. \A s \in Scopes : /\ secret[s] <= secret'[s] /\ Still(s)
                          /\ Open(s) => Open(s)' /\ scope'[s].password = scope[s].password
    BY <1>2, SameStill DEF TypeOK, Open
  <2>4. \A q \in Plays \ {p} : SoundOf(q)'
    BY <1>2, <2>1, <2>2, <2>3, KeepsSound DEF HelperElsewhere
  <2> QED
    BY <1>2, <2>1, <2>2, <2>4, AloneAfter
<1>3. ASSUME NEW p \in Plays, Create(p, "pod"), Admitted(p)
      PROVE  Alone' /\ \A q \in Plays : SoundOf(q)'
  <2>1. /\ Appears(p, "pod") /\ Continues(p) /\ Running(p)
        /\ history' = [history EXCEPT !.together = @ \/ Joined(p, "pod")]
        /\ UNCHANGED <<engine, scope, secret, late>>
    BY <1>3 DEF Create, At, cluster
  <2>2. play[p].pc = 6
    BY <1>0, <1>3, UidType, AtPlace DEF Create
  <2>3. Joined(p, "pod") \in BOOLEAN
    BY DEF Joined
  <2>4. ~history.together /\ ~Joined(p, "pod")
    BY <2>1, <2>3 DEF TypeOK
  <2>5. SoundOf(p) /\ helper[p].run = "none"
    <3>1. SoundOf(p)
      BY <2>4 DEF Sound
    <3> QED
      BY <2>1, <2>2, <3>1 DEF SoundOf
  <2>6. <<p, "pod">> \notin late
    BY <1>0, <2>1, <2>2 DEF Cleared, ClearedOf, GivenUp, Running
  <2>7. Elsewhere(p) /\ Advances(p, 1)
    BY <2>1, <2>2, ContinuesTo
  <2>8. play'[p].outcome = "running" /\ play'[p].pc = 7 /\ play'[p].began = play[p].began
    BY <2>1, <2>2, <2>7 DEF Advances, Alike, Running
  <2>9. ~Told(p)'
    BY <2>8 DEF Told, Passed
  <2>10. SoundOf(p)'
    BY <2>1, <2>5, <2>6, <2>8, <2>9, StartsSound
  <2> QED
    BY <1>2, <2>1, <2>4, <2>7, <2>10 DEF Elsewhere
<1>4. ASSUME NEW p \in Plays, HelperStep(p)
      PROVE  Alone' /\ \A q \in Plays : SoundOf(q)'
  <2>1. /\ HelperElsewhere(p) /\ helper[p].run = "running"
        /\ UNCHANGED <<engine, secret, object, play, late, history>>
    BY <1>4, HelperAlone
  <2>2. Alone /\ \A q \in Plays : SoundOf(q)
    BY <2>1 DEF Sound
  <2>3. SoundOf(p)'
    BY <1>4, <2>2, HelperSound
  <2>4. \A s \in Scopes : Open(s) => Open(s)' /\ scope'[s].password = scope[s].password
    <3>1. PICK h \in HelperType : helper[p] = h
      BY DEF TypeOK
    <3>2. PICK g \in HelperType : helper'[p] = g
      BY DEF TypeOK
    <3>3. Fits(h)
      BY <2>1, <2>2, <3>1 DEF SoundOf
    <3> QED
      BY <1>4, <3>1, <3>2, <3>3, ScriptTo
  <2>5. \A q \in Plays \ {p} : helper[q].run # "running"
    BY <2>1, <2>2 DEF Alone
  <2>6. \A s \in Scopes : secret[s] <= secret'[s]
    BY <2>1 DEF TypeOK
  <2>7. \A q \in Plays \ {p} : SoundOf(q)'
    BY <2>1, <2>2, <2>4, <2>5, <2>6, KeepsSound DEF HelperElsewhere
  <2>8. Alone'
    BY <2>1, <2>2, AloneAfter
  <2> QED
    BY <2>3, <2>7, <2>8
<1>5. ASSUME NEW p \in Plays, NEW k \in Kinds, Land(p, k)
      PROVE  Alone' /\ \A q \in Plays : SoundOf(q)'
  <2>1. /\ <<p, k>> \in late /\ late' = late \ {<<p, k>>} /\ Appears(p, k)
        /\ history' = [together |-> history.together \/ Joined(p, k), excused |-> TRUE]
        /\ UNCHANGED <<engine, scope, secret, play>>
    BY <1>5 DEF Land, cluster
  <2>2. ~history.together /\ ~Joined(p, k)
    BY <2>1
  <2>3. Alone /\ \A q \in Plays : SoundOf(q)
    BY <2>2 DEF Sound
  <2>4. CASE k = "pod"
    <3>1. helper[p].run = "none" /\ GivenUp(p)
      BY <2>1, <2>3, <2>4 DEF SoundOf, Cleared, ClearedOf
    <3>2. /\ play'[p].outcome # "none" /\ (Running(p)' => play'[p].pc >= 7)
          /\ ~Told(p)' /\ play'[p].began = play[p].began /\ <<p, "pod">> \notin late'
      BY <1>0, <2>1, <2>4, <3>1, UidType DEF GivenUp, Running, Told, Passed
    <3>3. SoundOf(p)'
      BY <2>1, <2>3, <2>4, <3>1, <3>2, StartsSound
    <3> QED
      BY <1>2, <2>1, <2>2, <2>4, <3>3
  <2>5. CASE k # "pod"
    <3>1. helper' = helper
      BY <2>1, <2>5 DEF Appears
    <3>2. \A s \in Scopes : /\ secret[s] <= secret'[s] /\ Still(s)
                            /\ Open(s) => Open(s)' /\ scope'[s].password = scope[s].password
      BY <2>1, SameStill DEF TypeOK, Open
    <3>3. \A q \in Plays : SoundOf(q)'
      BY <2>1, <2>3, <3>1, <3>2, KeepsSound
    <3> QED
      BY <2>3, <3>1, <3>3 DEF Alone
  <2> QED
    BY <2>4, <2>5
<1>6. ASSUME NEW p \in Plays, NEW k \in Kinds,
             Gone(p, k) \/ Remove(p, k) \/ Replace(p, k) \/ Relabel(p, k)
      PROVE  Alone' /\ \A q \in Plays : SoundOf(q)'
  <2>1. /\ history'.together = history.together
        /\ UNCHANGED <<engine, scope, secret, play, late>>
        /\ Killed(p, k) \/ helper' = helper
    BY <1>6, MeddledTo
  <2>2. Alone /\ \A q \in Plays : SoundOf(q)
    BY <2>1 DEF Sound
  <2>3. \A q \in Plays : \/ helper'[q] = helper[q]
                         \/ helper[q].run = "running" /\ helper'[q].run = "killed"
    BY <2>1, KilledTo
  <2>4. \A s \in Scopes : /\ secret[s] <= secret'[s] /\ Still(s)
                          /\ Open(s) => Open(s)' /\ scope'[s].password = scope[s].password
    BY <2>1, SameStill DEF TypeOK, Open
  <2>5. ASSUME NEW q \in Plays
        PROVE  SoundOf(q)'
    <3>1. CASE helper'[q] = helper[q]
      BY <2>1, <2>2, <2>4, <3>1, KeepsSound
    <3>2. CASE helper[q].run = "running" /\ helper'[q].run = "killed"
      BY <2>1, <2>2, <3>2, KilledSound
    <3> QED
      BY <2>3, <3>1, <3>2
  <2> QED
    BY <2>2, <2>3, <2>5 DEF Alone
<1>7. ASSUME NEW t \in Scopes, NewSecret(t) \/ Use(t)
      PROVE  Alone' /\ \A q \in Plays : SoundOf(q)'
  <2>1. UNCHANGED <<engine, object, helper, play, late, history>>
    BY <1>7 DEF NewSecret, Use
  <2>2. Alone /\ \A q \in Plays : SoundOf(q)
    BY <2>1 DEF Sound
  <2>3. \A s \in Scopes : /\ secret[s] <= secret'[s] /\ Still(s)
                          /\ Open(s) => Open(s)' /\ scope'[s].password = scope[s].password
    <3>1. CASE NewSecret(t)
      <4>1. scope' = scope /\ secret' = [secret EXCEPT ![t] = @ + 1]
        BY <3>1 DEF NewSecret
      <4> QED
        BY <2>1, <4>1, SameStill DEF TypeOK, Open
    <3>2. CASE Use(t)
      <4> DEFINE x == [scope[t] EXCEPT !.stage = "used"]
      <4>1. scope[t] \in [stage : Stages, password : Nat, by : Plays \cup {0}, stray : BOOLEAN]
        BY ScopeFacts
      <4>2. x.password = scope[t].password /\ x.stray = scope[t].stray /\ x.stage = "used"
        BY <4>1
      <4>3. /\ scope[t].stage \in {"connected", "ready"} /\ scope' = [scope EXCEPT ![t] = x]
            /\ secret' = secret
        BY <3>2 DEF Use
      <4> HIDE DEF x
      <4>4. /\ scope'[t] = x /\ \A s \in Scopes \ {t} : scope'[s] = scope[s]
        BY <4>3 DEF TypeOK
      <4>5. Still(t)
        BY <2>1, <4>2, <4>3, <4>4, OpenedStill
      <4>6. \A s \in Scopes : Still(s)
        BY <2>1, <4>4, <4>5, SameStill
      <4>7. \A s \in Scopes : Open(s) => Open(s)' /\ scope'[s].password = scope[s].password
        BY <4>6 DEF Still
      <4> QED
        BY <4>3, <4>6, <4>7 DEF TypeOK
    <3> QED
      BY <1>7, <3>1, <3>2
  <2>4. \A q \in Plays : SoundOf(q)'
    BY <2>1, <2>2, <2>3, KeepsSound
  <2> QED
    BY <2>1, <2>2, <2>4 DEF Alone
<1> QED
  BY <1>1, <1>3, <1>4, <1>5, <1>6, <1>7 DEF Next, Others, PlayStep

(* All of it together is inductive.                                        *)
Kept == OneAtWork /\ Cleared /\ Sound

LEMMA StepKept ==
  ASSUME TypeOK, TypeOK', Kept, [Next]_vars PROVE Kept'
<1>1. CASE Next
  <2>1. OneAtWork' /\ Cleared'
    BY <1>1, StepOneAtWork, StepCleared DEF Kept, OneAtWork
  <2>2. Sound'
    BY <1>1, StepSound DEF Kept, OneAtWork, Sound
  <2> QED
    BY <2>1, <2>2 DEF Kept
<1>2. CASE UNCHANGED vars
  <2>1. OneAtWork'
    BY <1>2 DEF vars, Kept, OneAtWork, Unstarted, Orderly, OnePlay, PodFound, QuietFor,
       Running, Labelled
  <2>2. Cleared'
    BY <1>2, KeepsCleared DEF vars, Kept, Cleared
  <2>3. \A s \in Scopes : /\ secret[s] <= secret'[s] /\ Still(s)
                          /\ Open(s) => Open(s)' /\ scope'[s].password = scope[s].password
    BY <1>2, SameStill DEF vars, TypeOK, Open
  <2>4. (\A p \in Plays : SoundOf(p)) => \A p \in Plays : SoundOf(p)'
    BY <1>2, <2>3, KeepsSound DEF vars
  <2>5. Sound'
    BY <1>2, <2>4 DEF vars, Kept, Sound, Alone
  <2> QED
    BY <2>1, <2>2, <2>5 DEF Kept
<1> QED
  BY <1>1, <1>2

LEMMA KeptHolds == Spec => []Kept
<1>1. Init => Kept
  BY InitOneAtWork, InitCleared, InitSound DEF Kept
<1>2. TypeOK /\ TypeOK' /\ Kept /\ [Next]_vars => Kept'
  BY StepKept
<1> QED
  BY <1>1, <1>2, TypeCorrect, PTL DEF Spec

(* The password of a complete scope is never changed while no two scripts  *)
(* have run at once: a script makes a principal only right after it saw    *)
(* the scope lack one, and nobody else could have made it in between.      *)
THEOREM NoImplicitRotationHolds == Spec => NoImplicitRotation
<1> DEFINE Rotates(s) == scope[s].stage \in HasDatabase /\ scope'[s].password # scope[s].password
<1>1. ASSUME TypeOK, TypeOK', Kept, Next, NEW s \in Scopes, Rotates(s)
      PROVE  history.together
  <2>1. \A t \in Scopes : (NewSecret(t) \/ Use(t)) => scope'[s].password = scope[s].password
    <3>1. ASSUME NEW t \in Scopes, Use(t)
          PROVE  scope'[s].password = scope[s].password
      <4> DEFINE x == [scope[t] EXCEPT !.stage = "used"]
      <4>1. scope[t] \in [stage : Stages, password : Nat, by : Plays \cup {0}, stray : BOOLEAN]
        BY <1>1, ScopeFacts
      <4>2. x.password = scope[t].password
        BY <4>1
      <4>3. scope' = [scope EXCEPT ![t] = x]
        BY <3>1 DEF Use
      <4> HIDE DEF x
      <4> QED
        BY <1>1, <4>2, <4>3 DEF TypeOK
    <3> QED
      BY <3>1 DEF NewSecret
  <2>2. \A p \in Plays : (PlayStep(p) \/ Others(p)) => scope' = scope
    BY <1>1, PlayAside, MeddledTo DEF Others, Land, cluster
  <2>3. PICK p \in Plays : HelperStep(p) /\ scope' # scope
    BY <1>1, <2>1, <2>2 DEF Next
  <2>4. PICK i \in Scopes : helper[p].i = i
    BY <1>1, HelperPlaces
  <2>5. Principal(p) \/ CreateDatabase(p) \/ Connect(p) \/ Schema(p)
    BY <2>3 DEF HelperStep, Survey, Look, Verify, Login, HelperFails, cluster
  <2>6. Principal(p) /\ s = i
    BY <1>1, <2>4, <2>5, WritesTo
  <2>7. CASE ~history.together
    <3>1. SoundOf(p) /\ helper[p] \in HelperType /\ Script(p, "principal")
      BY <1>1, <2>6, <2>7 DEF Kept, Sound, Principal, TypeOK
    <3>2. Fits(helper[p])
      BY <3>1 DEF SoundOf, Script
    <3>3. Lack(helper[p].i)
      BY <3>1, <3>2 DEF Fits, Script
    <3>4. scope[s].stage \in {"missing", "role"}
      BY <1>1, <2>4, <2>6, <3>3, ReadyOpen
    <3> QED
      BY <1>1, <3>4 DEF HasDatabase
  <2> QED
    BY <2>7
<1>2. TypeOK /\ TypeOK' /\ Kept /\ [Next]_vars
        => [\A s \in Scopes : Rotates(s) => history.together]_vars
  BY <1>1
<1> HIDE DEF Rotates
<1>3. Spec => [][\A s \in Scopes : Rotates(s) => history.together]_vars
  BY <1>2, KeptHolds, TypeCorrect, PTL DEF Spec
<1> QED
  BY <1>3 DEF Rotates, NoImplicitRotation

(* CHANGED:n counts the scopes a script made, and the play reports a       *)
(* change exactly when there was one.                                      *)
THEOREM CountHonestHolds == Spec => []CountHonest
<1>1. TypeOK /\ Kept => CountHonest
  <2> SUFFICES ASSUME TypeOK, Kept, NEW p \in Plays, helper[p].run = "succeeded",
                      ~history.together
               PROVE  /\ Cardinality(helper[p].wrote) = helper[p].missing
                      /\ play[p].outcome = "done" => play[p].changed = (helper[p].wrote # {})
    BY DEF CountHonest
  <2>1. SoundOf(p) /\ Succeeded(p)
    BY DEF Kept, Sound, SoundOf
  <2>2. helper[p].missing = Cardinality(helper[p].wrote)
    BY <2>1 DEF Succeeded
  <2>3. play[p].outcome = "done" => play[p].changed = (helper[p].missing > 0)
    BY <2>1 DEF SoundOf, Told
  <2>4. IsFiniteSet(helper[p].wrote) /\ Cardinality(helper[p].wrote) \in Nat
    BY HelperPlaces, FiniteScopes DEF HelperType
  <2>5. Cardinality(helper[p].wrote) = 0 <=> helper[p].wrote = {}
    BY <2>4, FS_EmptySet
  <2>6. (helper[p].missing > 0) <=> (helper[p].wrote # {})
    BY <2>2, <2>4, <2>5
  <2> QED
    BY <2>2, <2>3, <2>6
<1> QED
  BY <1>1, KeptHolds, TypeCorrect, PTL

(* After a play that ended well every scope is there, closed to the        *)
(* others, and opens with a password its Secret has had since the play     *)
(* began.                                                                  *)
THEOREM DoneIsEstablishedHolds == Spec => []DoneIsEstablished
<1>1. Kept => DoneIsEstablished
  <2> SUFFICES ASSUME Kept, NEW p \in Plays, play[p].outcome = "done", ~history.together
               PROVE  \A s \in Scopes : /\ scope[s].stage \in Established
                                        /\ scope[s].password \in play[p].began[s] .. secret[s]
    BY DEF DoneIsEstablished
  <2>1. SoundOf(p)
    BY DEF Kept, Sound
  <2>2. helper[p].run = "succeeded"
    BY <2>1 DEF SoundOf, Told
  <2>3. Succeeded(p)
    BY <2>1, <2>2 DEF SoundOf
  <2> QED
    BY <2>3 DEF Succeeded, Open
<1> QED
  BY <1>1, KeptHolds, PTL

=============================================================================
