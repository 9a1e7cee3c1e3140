----------------------- MODULE DatabaseProvisioningProofs -----------------------
(***************************************************************************)
(* Proofs about DatabaseProvisioning, for every number of scopes and of    *)
(* plays and for any number of mishaps: the types, that a half-made scope  *)
(* waits (HalfDoneWaits), from the invariant Held about the scripts, and   *)
(* that a replaced helper object is kept (ReplacementKept), from Bound     *)
(* about the UIDs the plays hold.                                          *)
(***************************************************************************)
EXTENDS DatabaseProvisioning, TLAPS

(* Where in the list of tasks each task is.                                *)
LEMMA TasksAre ==
    /\ Len(Tasks) = 15
    /\ Tasks[1] = Step("stale", "pod") /\ Tasks[2] = Step("stale", "policy")
    /\ Tasks[3] = Step("check", "pod") /\ Tasks[4] = Step("create", "policy")
    /\ Tasks[5] = Step("bind", "policy") /\ Tasks[6] = Step("create", "pod")
    /\ Tasks[7] = Step("poll", "pod")
    /\ Tasks[8] = Step("find", "pod") /\ Tasks[9] = Step("delete", "pod")
    /\ Tasks[10] = Step("wait", "pod")
    /\ Tasks[11] = Step("find", "policy") /\ Tasks[12] = Step("delete", "policy")
    /\ Tasks[13] = Step("wait", "policy")
    /\ Tasks[14] = Step("residue", "pod") /\ Tasks[15] = Step("residue", "policy")
  BY DEF Tasks

LEMMA AtPlace ==
  ASSUME NEW p, play[p].pc \in 1 .. 15
  PROVE  /\ At(p, "stale", "pod") => play[p].pc = 1
         /\ At(p, "stale", "policy") => play[p].pc = 2
         /\ At(p, "check", "pod") => play[p].pc = 3
         /\ At(p, "create", "policy") => play[p].pc = 4
         /\ At(p, "bind", "policy") => play[p].pc = 5
         /\ At(p, "create", "pod") => play[p].pc = 6
         /\ At(p, "poll", "pod") => play[p].pc = 7
         /\ At(p, "find", "pod") => play[p].pc = 8
         /\ At(p, "delete", "pod") => play[p].pc = 9
         /\ At(p, "wait", "pod") => play[p].pc = 10
         /\ At(p, "find", "policy") => play[p].pc = 11
         /\ At(p, "delete", "policy") => play[p].pc = 12
         /\ At(p, "wait", "policy") => play[p].pc = 13
         /\ At(p, "residue", "pod") => play[p].pc = 14
         /\ At(p, "residue", "policy") => play[p].pc = 15
<1>1. play[p].pc \in {1, 2, 3, 4, 5, 6, 7, 8, 9, 10, 11, 12, 13, 14, 15}
  OBVIOUS
<1> DEFINE n == play[p].pc
<1>2. \A do, k, do2, k2 : Step(do, k) = Step(do2, k2) => do = do2 /\ k = k2
  BY DEF Step
<1>3. ASSUME NEW do, NEW k, At(p, do, k)
      PROVE  Tasks[n] = Step(do, k)
  BY <1>3 DEF At
<1>4. \A do, k : At(p, do, k) => Tasks[n] = Step(do, k)
  BY <1>3
<1> HIDE DEF n
<1>5. n \in {1, 2, 3, 4, 5, 6, 7, 8, 9, 10, 11, 12, 13, 14, 15}
  BY <1>1 DEF n
<1>6. /\ At(p, "stale", "pod") => n = 1
      /\ At(p, "stale", "policy") => n = 2
      /\ At(p, "check", "pod") => n = 3
      /\ At(p, "create", "policy") => n = 4
      /\ At(p, "bind", "policy") => n = 5
  BY <1>2, <1>4, <1>5, TasksAre, SMTT(60)
<1>7. /\ At(p, "create", "pod") => n = 6
      /\ At(p, "poll", "pod") => n = 7
      /\ At(p, "find", "pod") => n = 8
      /\ At(p, "delete", "pod") => n = 9
      /\ At(p, "wait", "pod") => n = 10
  BY <1>2, <1>4, <1>5, TasksAre, SMTT(60)
<1>8. /\ At(p, "find", "policy") => n = 11
      /\ At(p, "delete", "policy") => n = 12
      /\ At(p, "wait", "policy") => n = 13
      /\ At(p, "residue", "pod") => n = 14
      /\ At(p, "residue", "policy") => n = 15
  BY <1>2, <1>4, <1>5, TasksAre, SMTT(60)
<1> QED
  BY <1>6, <1>7, <1>8 DEF n

---------------------------------------------------------------------------
(* The types.                                                              *)
LEMMA NoTypes ==
    NoPlay \in PlayType /\ NoObject \in ObjectType /\ NoHelper \in HelperType
  BY ProvisioningAssumption DEF NoPlay, NoObject, NoHelper, PlayType, ObjectType,
     HelperType, Scopes, Kinds, Lacking

LEMMA InitType == Init => TypeOK
<1> SUFFICES ASSUME Init PROVE TypeOK
  OBVIOUS
<1>1. scope \in [Scopes -> [stage : Stages, password : Nat, by : Plays \cup {0}, stray : BOOLEAN]]
  <2>1. PICK stage \in [Scopes -> IF engine = "mongodb" THEN {"missing", "ready"}
                                  ELSE {"missing", "role", "ready"}] :
          \E stray \in SUBSET {s \in MayStray : stage[s] # "missing"} :
             scope = [s \in Scopes |-> [stage |-> stage[s], password |-> 0, by |-> 0,
                                        stray |-> s \in stray]]
    BY DEF Init
  <2>2. PICK stray \in SUBSET {s \in MayStray : stage[s] # "missing"} :
             scope = [s \in Scopes |-> [stage |-> stage[s], password |-> 0, by |-> 0,
                                        stray |-> s \in stray]]
    BY <2>1
  <2>3. \A s \in Scopes : stage[s] \in Stages
    BY DEF Stages
  <2>4. \A s \in Scopes : (s \in stray) \in BOOLEAN
    OBVIOUS
  <2> QED
    BY <2>2, <2>3, <2>4
<1>2. object \in [Plays -> [Kinds -> ObjectType]] /\ helper \in [Plays -> HelperType]
      /\ play \in [Plays -> PlayType]
  BY NoTypes DEF Init
<1>3. engine \in Engines /\ secret \in [Scopes -> Nat] /\ late = {} /\ mishaps = 0
      /\ history \in [together : BOOLEAN, excused : BOOLEAN]
  BY DEF Init
<1>4. mishaps \in 0 .. MaxMishaps
  BY <1>3, ProvisioningAssumption
<1> QED
  BY <1>1, <1>2, <1>3, <1>4 DEF TypeOK

LEMMA EndedType ==
  ASSUME TypeOK, NEW p \in Plays,
         NEW outcome \in {"done", "refused", "failed", "crashed"}, Ended(p, outcome)
  PROVE  play' \in [Plays -> PlayType]
  BY NoTypes DEF TypeOK, Ended, PlayType

LEMMA DoneType ==
  ASSUME TypeOK, NEW p \in Plays, Done(p)
  PROVE  play' \in [Plays -> PlayType]
<1>1. play[p] \in PlayType
  BY DEF TypeOK
<1>2. [NoPlay EXCEPT !.outcome = "done", !.changed = play[p].changed,
                     !.began = play[p].began] \in PlayType
  BY <1>1, NoTypes DEF PlayType
<1> QED
  BY <1>2 DEF TypeOK, Done

LEMMA FailsType ==
  ASSUME TypeOK, NEW p \in Plays, Fails(p)
  PROVE  play' \in [Plays -> PlayType]
<1>1. play[p] \in PlayType
  BY DEF TypeOK
<1>2. CASE play[p].pc \in Block
  <2> DEFINE x1 == [play[p] EXCEPT !.pc = 8]
             x2 == [x1 EXCEPT !.failed = TRUE]
  <2>1. x1 \in PlayType
    BY <1>1 DEF PlayType
  <2>2. play' = [play EXCEPT ![p] = x2]
    BY <1>2 DEF Fails, Always
  <2> HIDE DEF x1
  <2>3. x2 \in PlayType
    BY <2>1 DEF PlayType
  <2> HIDE DEF x2
  <2> QED
    BY <2>2, <2>3 DEF TypeOK
<1>3. CASE play[p].pc \notin Block
  BY <1>3, EndedType DEF Fails
<1> QED
  BY <1>2, <1>3

LEMMA SkipsType ==
  ASSUME TypeOK, NEW p \in Plays, NEW n \in {1, 3}, Skips(p, n)
  PROVE  play' \in [Plays -> PlayType]
<1>1. play[p] \in PlayType
  BY DEF TypeOK
<1>2. CASE play[p].pc + n > 15
  BY <1>2, TasksAre, EndedType, DoneType DEF Skips
<1>3. CASE ~(play[p].pc + n > 15)
  <2> DEFINE x == [play[p] EXCEPT !.pc = play[p].pc + n]
  <2>1. x \in PlayType
    BY <1>1, <1>3 DEF PlayType
  <2>2. play' = [play EXCEPT ![p] = x]
    BY <1>3, TasksAre DEF Skips
  <2> HIDE DEF x
  <2> QED
    BY <2>1, <2>2 DEF TypeOK
<1> QED
  BY <1>2, <1>3

LEMMA ContinuesType ==
  ASSUME TypeOK, NEW p \in Plays, Continues(p)
  PROVE  play' \in [Plays -> PlayType]
  BY SkipsType DEF Continues

LEMMA AppearsType ==
  ASSUME TypeOK, NEW p \in Plays, NEW k \in Kinds, Appears(p, k)
  PROVE  /\ object' \in [Plays -> [Kinds -> ObjectType]]
         /\ helper' \in [Plays -> HelperType]
<1>1. object[p][k] \in ObjectType /\ object[p][k].uid + 1 \in Nat
  BY DEF TypeOK, ObjectType
<1> DEFINE o == [there |-> TRUE, uid |-> object[p][k].uid + 1, labelled |-> TRUE,
                 ending |-> FALSE, foreign |-> FALSE, early |-> FALSE]
<1>3. o \in ObjectType
  BY <1>1 DEF ObjectType
<1>4. object' = [object EXCEPT ![p][k] = o]
  BY DEF Appears
<1> HIDE DEF o
<1>5. object' \in [Plays -> [Kinds -> ObjectType]]
  BY <1>3, <1>4 DEF TypeOK
<1> DEFINE h1 == [helper[p] EXCEPT !.run = "running"]
           h2 == [h1 EXCEPT !.mounted = secret]
<1>6. helper[p] \in HelperType /\ secret \in [Scopes -> Nat]
  BY DEF TypeOK
<1>7. h1 \in HelperType
  BY <1>6 DEF HelperType
<1>8. helper' = IF k = "pod" THEN [helper EXCEPT ![p] = h2] ELSE helper
  BY DEF Appears
<1> HIDE DEF h1
<1>9. h2 \in HelperType
  BY <1>6, <1>7 DEF HelperType
<1> HIDE DEF h2
<1>10. helper' \in [Plays -> HelperType]
  BY <1>8, <1>9 DEF TypeOK
<1> QED
  BY <1>5, <1>10

LEMMA HistoryType ==
  ASSUME TypeOK, NEW p, NEW k, history' = [history EXCEPT !.together = @ \/ Joined(p, k)]
  PROVE  history' \in [together : BOOLEAN, excused : BOOLEAN]
<1>1. Joined(p, k) \in BOOLEAN
  BY DEF Joined
<1>2. (history.together \/ Joined(p, k)) \in BOOLEAN
  OBVIOUS
<1> QED
  BY <1>2 DEF TypeOK

LEMMA MishapType == ASSUME TypeOK, Mishap PROVE mishaps' \in 0 .. MaxMishaps
  BY ProvisioningAssumption DEF TypeOK, Mishap

LEMMA UidType ==
  ASSUME TypeOK, NEW p \in Plays, NEW k \in Kinds
  PROVE  object[p][k].uid \in Nat /\ play[p].uid \in [Kinds -> Nat] /\ play[p].pc \in 1 .. 15
<1>1. object[p][k] \in ObjectType /\ play[p] \in PlayType
  BY DEF TypeOK
<1> QED
  BY <1>1 DEF ObjectType, PlayType

(* A play that binds a UID goes to the next task.                          *)
LEMMA BindsType ==
  ASSUME TypeOK, NEW p \in Plays, NEW k \in Kinds, play[p].pc < 15,
         play' = [play EXCEPT ![p].uid[k] = object[p][k].uid, ![p].pc = @ + 1]
  PROVE  play' \in [Plays -> PlayType]
<1>1. play[p] \in PlayType /\ object[p][k].uid \in Nat
  BY UidType DEF TypeOK
<1> DEFINE x1 == [play[p] EXCEPT !.uid[k] = object[p][k].uid]
           x2 == [x1 EXCEPT !.pc = @ + 1]
<1>2. x1 \in PlayType /\ x1.pc < 15
  BY <1>1 DEF PlayType
<1>3. play' = [play EXCEPT ![p] = x2]
  OBVIOUS
<1> HIDE DEF x1
<1>4. x2 \in PlayType
  BY <1>2 DEF PlayType
<1> HIDE DEF x2
<1> QED
  BY <1>3, <1>4 DEF TypeOK

LEMMA StartPlayType ==
  ASSUME TypeOK, NEW p \in Plays, StartPlay(p) PROVE TypeOK'
<1> DEFINE x1 == [play[p] EXCEPT !.outcome = "running"]
           x2 == [x1 EXCEPT !.token = TRUE]
           x3 == [x2 EXCEPT !.began = secret]
<1>1. play[p] \in PlayType /\ secret \in [Scopes -> Nat]
  BY DEF TypeOK
<1>2. play' = [play EXCEPT ![p] = x3]
  BY DEF StartPlay
<1>3. x1 \in PlayType
  BY <1>1 DEF PlayType
<1> HIDE DEF x1
<1>4. x2 \in PlayType
  BY <1>3 DEF PlayType
<1> HIDE DEF x2
<1>5. x3 \in PlayType
  BY <1>1, <1>4 DEF PlayType
<1> HIDE DEF x3
<1>6. play' \in [Plays -> PlayType]
  BY <1>2, <1>5 DEF TypeOK
<1>7. mishaps' \in 0 .. MaxMishaps
  BY MishapType DEF StartPlay, TypeOK
<1>8. history' \in [together : BOOLEAN, excused : BOOLEAN]
  BY DEF StartPlay, TypeOK
<1> QED
  BY <1>6, <1>7, <1>8 DEF StartPlay, TypeOK, cluster

(* The tasks of a play keep the types.                                     *)
LEMMA PlayTasksType ==
  ASSUME TypeOK, NEW p \in Plays,
         \/ Check(p) \/ BindPolicy(p) \/ Poll(p) \/ GiveUp(p) \/ HardStop(p)
         \/ \E k \in Kinds : Stale(p, k) \/ Find(p, k) \/ Wait(p, k) \/ Residue(p, k)
  PROVE  TypeOK'
<1>1. play' \in [Plays -> PlayType] /\ late' \subseteq Plays \X Kinds
  <2>1. CASE Check(p)
    BY <2>1, ContinuesType, EndedType DEF Check, TypeOK
  <2>2. CASE BindPolicy(p)
    <3>1. play[p].pc = 5 /\ "policy" \in Kinds
      BY <2>2, UidType, AtPlace DEF BindPolicy, Kinds
    <3>2. CASE object[p]["policy"].there
      <4>1. play' = [play EXCEPT ![p].uid["policy"] = object[p]["policy"].uid, ![p].pc = @ + 1]
        BY <2>2, <3>2 DEF BindPolicy
      <4>2. late' \subseteq Plays \X Kinds
        BY <2>2 DEF BindPolicy, TypeOK
      <4>3. play[p].pc < 15
        BY <3>1
      <4>4. play' \in [Plays -> PlayType]
        BY <3>1, <4>1, <4>3, BindsType
      <4> QED
        BY <4>2, <4>4
    <3>3. CASE ~object[p]["policy"].there
      BY <2>2, <3>3, FailsType DEF BindPolicy, TypeOK
    <3> QED
      BY <3>2, <3>3
  <2>3. CASE Poll(p)
    <3>1. play[p].pc = 7 /\ "pod" \in Kinds
      BY <2>3, UidType, AtPlace DEF Poll, Kinds
    <3>2. play[p] \in PlayType /\ object[p]["pod"].uid \in Nat
      BY <3>1, UidType DEF TypeOK
    <3> DEFINE x1 == [play[p] EXCEPT !.uid["pod"] = object[p]["pod"].uid]
               x2 == [x1 EXCEPT !.changed = helper[p].missing > 0]
               x3 == [x2 EXCEPT !.pc = @ + 1]
               y2 == [x1 EXCEPT !.failed = TRUE]
               y3 == [y2 EXCEPT !.pc = Always]
    <3>3. play' = [play EXCEPT ![p] = x3] \/ play' = [play EXCEPT ![p] = y3]
      <4>1. CASE ~object[p]["pod"].foreign /\ helper[p].run = "succeeded"
        <5>1. play' = [play EXCEPT ![p].uid["pod"] = object[p]["pod"].uid,
                          ![p].changed = helper[p].missing > 0, ![p].pc = @ + 1]
          BY <2>3, <4>1 DEF Poll
        <5> QED
          BY <5>1
      <4>2. CASE ~(~object[p]["pod"].foreign /\ helper[p].run = "succeeded")
        <5>1. play' = [play EXCEPT ![p].uid["pod"] = object[p]["pod"].uid,
                          ![p].failed = TRUE, ![p].pc = Always]
          BY <2>3, <4>2 DEF Poll
        <5> QED
          BY <5>1
      <4> QED
        BY <4>1, <4>2
    <3>4. x1 \in PlayType /\ x1.pc = 7
      BY <3>1, <3>2 DEF PlayType
    <3>5. (helper[p].missing > 0) \in BOOLEAN
      OBVIOUS
    <3> HIDE DEF x1
    <3>6. x2 \in PlayType /\ x2.pc = 7
      BY <3>4, <3>5 DEF PlayType
    <3>7. y2 \in PlayType
      BY <3>4 DEF PlayType
    <3> HIDE DEF x2, y2
    <3>8. x3 \in PlayType
      BY <3>6 DEF PlayType
    <3>9. y3 \in PlayType
      BY <3>7 DEF PlayType, Always
    <3> HIDE DEF x3, y3
    <3>10. play' \in [Plays -> PlayType]
      BY <3>3, <3>8, <3>9 DEF TypeOK
    <3> QED
      BY <2>3, <3>10 DEF Poll, TypeOK
  <2>4. CASE GiveUp(p)
    BY <2>4, FailsType DEF GiveUp, TypeOK
  <2>5. CASE HardStop(p)
    <3>1. Underway(p) \subseteq Plays \X Kinds
      BY DEF Underway
    <3> QED
      BY <2>5, <3>1, EndedType DEF HardStop, TypeOK
  <2>6. ASSUME NEW k \in Kinds, Stale(p, k) \/ Wait(p, k) \/ Residue(p, k)
        PROVE  play' \in [Plays -> PlayType] /\ late' \subseteq Plays \X Kinds
    BY <2>6, ContinuesType, EndedType, FailsType DEF Stale, Wait, Residue, TypeOK
  <2>7. ASSUME NEW k \in Kinds, Find(p, k)
        PROVE  play' \in [Plays -> PlayType] /\ late' \subseteq Plays \X Kinds
    <3>1. play[p].pc < 15
      BY <2>7, UidType, AtPlace DEF Find, Kinds
    <3>2. Skips(p, 3) \/ Fails(p)
          \/ play' = [play EXCEPT ![p].uid[k] = object[p][k].uid, ![p].pc = @ + 1]
      BY <2>7 DEF Find
    <3>3. late' \subseteq Plays \X Kinds
      BY <2>7 DEF Find, TypeOK
    <3>4. CASE Skips(p, 3)
      BY <3>3, <3>4, SkipsType
    <3>5. CASE Fails(p)
      BY <3>3, <3>5, FailsType
    <3>6. CASE play' = [play EXCEPT ![p].uid[k] = object[p][k].uid, ![p].pc = @ + 1]
      BY <3>1, <3>3, <3>6, BindsType
    <3> QED
      BY <3>2, <3>4, <3>5, <3>6
  <2> QED
    BY <2>1, <2>2, <2>3, <2>4, <2>5, <2>6, <2>7
<1>2. UNCHANGED <<cluster, object, helper, history, mishaps>>
  BY DEF Check, BindPolicy, Poll, GiveUp, HardStop, Stale, Find, Wait, Residue
<1> QED
  BY <1>1, <1>2 DEF TypeOK, cluster

LEMMA ObjectsType ==
  ASSUME TypeOK, NEW p \in Plays, NEW k \in Kinds, NEW o \in ObjectType,
         object' = [object EXCEPT ![p][k] = o]
  PROVE  object' \in [Plays -> [Kinds -> ObjectType]]
<1>1. object \in [Plays -> [Kinds -> ObjectType]]
  BY DEF TypeOK
<1>2. [object[p] EXCEPT ![k] = o] \in [Kinds -> ObjectType]
  BY <1>1
<1> QED
  BY <1>1, <1>2

(* So do those that write something.                                       *)
LEMMA PlayWritesType ==
  ASSUME TypeOK, NEW p \in Plays,
         \/ TaskFails(p) \/ TokenGone(p)
         \/ \E k \in Kinds : Create(p, k) \/ Delete(p, k)
  PROVE  TypeOK'
<1>1. CASE TaskFails(p)
  <2>1. late' \subseteq Plays \X Kinds
    BY <1>1 DEF TaskFails, Underway, TypeOK
  <2>2. play' \in [Plays -> PlayType] /\ mishaps' \in 0 .. MaxMishaps
    BY <1>1, FailsType, MishapType DEF TaskFails
  <2> QED
    BY <1>1, <2>1, <2>2 DEF TaskFails, TypeOK, cluster
<1>2. CASE TokenGone(p)
  <2> DEFINE x == [play[p] EXCEPT !.token = FALSE]
  <2>0. play[p] \in PlayType
    BY DEF TypeOK
  <2>1. x \in PlayType
    BY <2>0 DEF PlayType
  <2>3. play' = [play EXCEPT ![p] = x]
    BY <1>2 DEF TokenGone
  <2> HIDE DEF x
  <2>2. play' \in [Plays -> PlayType] /\ mishaps' \in 0 .. MaxMishaps
    BY <1>2, <2>1, <2>3, MishapType DEF TokenGone, TypeOK
  <2> QED
    BY <1>2, <2>2 DEF TokenGone, TypeOK, cluster
<1>3. ASSUME NEW k \in Kinds, Create(p, k)
      PROVE  TypeOK'
  <2>1. CASE Admitted(p)
    <3>1. Appears(p, k) /\ Continues(p)
          /\ history' = [history EXCEPT !.together = @ \/ Joined(p, k)]
      BY <1>3, <2>1 DEF Create
    <3>2. /\ object' \in [Plays -> [Kinds -> ObjectType]] /\ helper' \in [Plays -> HelperType]
          /\ play' \in [Plays -> PlayType]
          /\ history' \in [together : BOOLEAN, excused : BOOLEAN]
      BY <3>1, AppearsType, ContinuesType, HistoryType
    <3> QED
      BY <1>3, <3>2 DEF Create, TypeOK, cluster
  <2>2. CASE ~Admitted(p)
    BY <1>3, <2>2, FailsType DEF Create, TypeOK, cluster
  <2> QED
    BY <2>1, <2>2
<1>4. ASSUME NEW k \in Kinds, Delete(p, k)
      PROVE  TypeOK'
  <2> DEFINE o == [object[p][k] EXCEPT !.ending = TRUE]
  <2>1. object' = [object EXCEPT ![p][k] = o] \/ object' = object
    <3>1. object' = [object EXCEPT ![p][k].ending = TRUE] \/ object' = object
      BY <1>4 DEF Delete
    <3> QED
      BY <3>1
  <2>0. object[p][k] \in ObjectType
    BY DEF TypeOK
  <2>2. o \in ObjectType
    BY <2>0 DEF ObjectType
  <2> HIDE DEF o
  <2>3. object' \in [Plays -> [Kinds -> ObjectType]]
    <3>1. object \in [Plays -> [Kinds -> ObjectType]]
      BY DEF TypeOK
    <3> QED
      BY <2>1, <2>2, <3>1, ObjectsType
  <2>4. Continues(p) \/ Fails(p)
    BY <1>4 DEF Delete
  <2>5. play' \in [Plays -> PlayType]
    BY <2>4, ContinuesType, FailsType
  <2> QED
    BY <1>4, <2>3, <2>5 DEF Delete, TypeOK, cluster
<1> QED
  BY <1>1, <1>2, <1>3, <1>4

LEMMA GoesType ==
  ASSUME TypeOK, NEW p \in Plays, NEW h \in HelperType, Goes(p, h)
  PROVE  helper' \in [Plays -> HelperType]
  BY DEF TypeOK, Goes

LEMMA ExitsType ==
  ASSUME TypeOK, NEW p \in Plays, Exits(p, "failed")
  PROVE  helper' \in [Plays -> HelperType]
<1>1. [NoHelper EXCEPT !.run = "failed"] \in HelperType
  BY NoTypes DEF HelperType
<1> QED
  BY <1>1, GoesType DEF Exits

Loops == {"survey", "look", "verify", "login", "exit"}

LEMMA NextScopeType ==
  ASSUME TypeOK, NEW p \in Plays, NEW h \in HelperType,
         NEW loop \in Loops \ {"exit"}, NEW after \in Loops, NextScope(p, h, loop, after)
  PROVE  helper' \in [Plays -> HelperType]
<1>1. h.i \in Scopes /\ N \in Nat
  BY ProvisioningAssumption DEF HelperType
<1>2. CASE h.i < N
  <2> DEFINE x1 == [h EXCEPT !.at = loop]
             x2 == [x1 EXCEPT !.i = @ + 1]
  <2>1. x1 \in HelperType /\ x1.i = h.i
    BY DEF HelperType, Loops
  <2>2. Goes(p, x2)
    BY <1>2 DEF NextScope
  <2> HIDE DEF x1
  <2>3. x1.i + 1 \in Scopes
    BY <1>1, <1>2, <2>1 DEF Scopes
  <2>4. x2 \in HelperType
    BY <2>1, <2>3 DEF HelperType
  <2> HIDE DEF x2
  <2> QED
    BY <2>2, <2>4, GoesType
<1>3. CASE ~(h.i < N) /\ after = "exit"
  <2> DEFINE x1 == [NoHelper EXCEPT !.run = "succeeded"]
             x2 == [x1 EXCEPT !.missing = h.missing]
             x3 == [x2 EXCEPT !.wrote = h.wrote]
  <2>1. Goes(p, x3)
    BY <1>3 DEF NextScope, Succeeds
  <2>2. x1 \in HelperType
    BY NoTypes DEF HelperType
  <2> HIDE DEF x1
  <2>3. x2 \in HelperType
    BY <2>2 DEF HelperType
  <2> HIDE DEF x2
  <2>4. x3 \in HelperType
    BY <2>3 DEF HelperType
  <2> HIDE DEF x3
  <2> QED
    BY <2>1, <2>4, GoesType
<1>4. CASE ~(h.i < N) /\ after # "exit"
  <2> DEFINE x1 == [h EXCEPT !.at = after]
             x2 == [x1 EXCEPT !.i = 1]
  <2>1. x1 \in HelperType
    BY <1>4 DEF HelperType, Loops
  <2>2. Goes(p, x2)
    BY <1>4 DEF NextScope
  <2> HIDE DEF x1
  <2>3. 1 \in Scopes
    BY ProvisioningAssumption DEF Scopes
  <2>4. x2 \in HelperType
    BY <2>1, <2>3 DEF HelperType
  <2> HIDE DEF x2
  <2> QED
    BY <2>2, <2>4, GoesType
<1> QED
  BY <1>2, <1>3, <1>4

(* What the script sees of a scope, and what it may write to it.           *)
LEMMA ScopeFacts ==
  ASSUME TypeOK, NEW s \in Scopes
  PROVE  /\ scope[s] \in [stage : Stages, password : Nat, by : Plays \cup {0}, stray : BOOLEAN]
         /\ StateOf(s) \in {"DRIFT", "MISSING", "ROLE_ONLY", "READY"}
<1>1. scope[s] \in [stage : Stages, password : Nat, by : Plays \cup {0}, stray : BOOLEAN]
  BY DEF TypeOK
<1> QED
  BY <1>1 DEF StateOf, Drifted

ScopesType == [Scopes -> [stage : Stages, password : Nat, by : Plays \cup {0}, stray : BOOLEAN]]

LEMMA ScopesAre ==
  ASSUME TypeOK, NEW s \in Scopes, NEW stage \in Stages, NEW v \in Nat, NEW q \in Plays \cup {0}
  PROVE  /\ [scope EXCEPT ![s].stage = stage] \in ScopesType
         /\ [scope EXCEPT ![s].stage = stage, ![s].password = v] \in ScopesType
         /\ [scope EXCEPT ![s].stage = stage, ![s].by = q] \in ScopesType
         /\ [scope EXCEPT ![s].password = v] \in ScopesType
<1> DEFINE R == [stage : Stages, password : Nat, by : Plays \cup {0}, stray : BOOLEAN]
           a == [scope[s] EXCEPT !.stage = stage]
           b == [a EXCEPT !.password = v]
           c == [a EXCEPT !.by = q]
           d == [scope[s] EXCEPT !.password = v]
<1>1. scope[s] \in R /\ scope \in [Scopes -> R]
  BY DEF TypeOK
<1>2. a \in R /\ d \in R
  BY <1>1
<1>3. /\ [scope EXCEPT ![s].stage = stage] = [scope EXCEPT ![s] = a]
      /\ [scope EXCEPT ![s].stage = stage, ![s].password = v] = [scope EXCEPT ![s] = b]
      /\ [scope EXCEPT ![s].stage = stage, ![s].by = q] = [scope EXCEPT ![s] = c]
      /\ [scope EXCEPT ![s].password = v] = [scope EXCEPT ![s] = d]
  BY <1>1
<1> HIDE DEF a, d
<1>4. b \in R /\ c \in R
  BY <1>2
<1> HIDE DEF b, c
<1> QED
  BY <1>1, <1>2, <1>3, <1>4 DEF ScopesType

LEMMA HelperPlaces ==
  ASSUME TypeOK, NEW p \in Plays
  PROVE  /\ helper[p] \in HelperType
         /\ helper[p].i \in Scopes
         /\ \A s \in Scopes : Mounted(p, s) \subseteq Nat
<1>1. helper[p] \in HelperType /\ secret \in [Scopes -> Nat]
  BY DEF TypeOK
<1> QED
  BY <1>1 DEF HelperType, Mounted

LEMMA SurveyType ==
  ASSUME TypeOK, NEW p \in Plays, Survey(p) PROVE helper' \in [Plays -> HelperType]
<1> DEFINE state == StateOf(helper[p].i)
           h == [helper[p] EXCEPT !.missing = IF state \in Lacking THEN @ + 1 ELSE @]
<1>1. Exits(p, "failed") \/ NextScope(p, h, "survey", IF h.missing = 0 THEN "login" ELSE "look")
  BY DEF Survey
<1>2. helper[p].missing + 1 \in Nat
  BY HelperPlaces DEF HelperType
<1>3. h \in HelperType
  BY <1>2, HelperPlaces DEF HelperType
<1> HIDE DEF h
<1>4. (IF h.missing = 0 THEN "login" ELSE "look") \in Loops
  BY DEF Loops
<1>5. CASE Exits(p, "failed")
  BY <1>5, ExitsType
<1>6. CASE NextScope(p, h, "survey", IF h.missing = 0 THEN "login" ELSE "look")
  BY <1>3, <1>4, <1>6, NextScopeType DEF Loops
<1> QED
  BY <1>1, <1>5, <1>6

LEMMA LookType ==
  ASSUME TypeOK, NEW p \in Plays, Look(p) PROVE helper' \in [Plays -> HelperType]
<1> DEFINE state == StateOf(helper[p].i)
           x == [helper[p] EXCEPT !.at = "principal", !.saw = state]
<1>1. CASE state \in Lacking
  <2>1. x \in HelperType
    BY <1>1, HelperPlaces DEF HelperType
  <2>2. Goes(p, x)
    BY <1>1 DEF Look
  <2> HIDE DEF x
  <2> QED
    BY <2>1, <2>2, GoesType
<1>2. CASE state \notin Lacking
  <2>1. NextScope(p, helper[p], "look", "verify")
    BY <1>2 DEF Look
  <2> QED
    BY <2>1, HelperPlaces, NextScopeType DEF Loops
<1> QED
  BY <1>1, <1>2

(* The tasks of a script that write to its scope.                          *)
LEMMA WritesType ==
  ASSUME TypeOK, NEW p \in Plays, Principal(p) \/ CreateDatabase(p) \/ Connect(p) \/ Schema(p)
  PROVE  helper' \in [Plays -> HelperType] /\ scope' \in ScopesType
<1> DEFINE s == helper[p].i
           now == scope[s].stage
<1>1. helper[p] \in HelperType /\ s \in Scopes /\ now \in Stages /\ scope \in ScopesType
  BY HelperPlaces, ScopeFacts DEF TypeOK, ScopesType
<1>2. CASE Principal(p)
  <2> DEFINE into == IF engine = "mongodb" THEN "ready" ELSE "role"
             next == IF engine = "mongodb" THEN "login" ELSE "database"
             x1 == [helper[p] EXCEPT !.wrote = @ \cup {s}]
             x2 == [x1 EXCEPT !.at = next]
  <2>1. PICK v \in Mounted(p, s) :
          \/ scope' = [scope EXCEPT ![s].stage = into, ![s].password = v] /\ Goes(p, x2)
          \/ scope' = [scope EXCEPT ![s].password = v] /\ Goes(p, x2)
          \/ Exits(p, "failed") /\ UNCHANGED scope
    BY <1>2 DEF Principal
  <2>2. v \in Nat /\ into \in Stages /\ next \in {"login", "database"}
    BY <1>1, HelperPlaces DEF Stages
  <2>3. x1 \in HelperType
    BY <1>1 DEF HelperType
  <2> HIDE DEF x1, next, into
  <2>4. x2 \in HelperType
    BY <2>2, <2>3 DEF HelperType
  <2> HIDE DEF x2, s
  <2>5. helper' \in [Plays -> HelperType]
    BY <2>1, <2>4, GoesType, ExitsType
  <2>6. 0 \in Plays \cup {0}
    OBVIOUS
  <2>7. /\ [scope EXCEPT ![s].stage = into, ![s].password = v] \in ScopesType
        /\ [scope EXCEPT ![s].password = v] \in ScopesType
    BY <1>1, <2>2, <2>6, ScopesAre
  <2>8. scope' \in ScopesType
    BY <1>1, <2>1, <2>7
  <2> QED
    BY <2>5, <2>8
<1>3. CASE CreateDatabase(p)
  <2> DEFINE x == [helper[p] EXCEPT !.at = "connect"]
  <2>1. \/ scope' = [scope EXCEPT ![s].stage = "database", ![s].by = p] /\ Goes(p, x)
        \/ Exits(p, "failed") /\ UNCHANGED scope
    BY <1>3 DEF CreateDatabase
  <2>2. x \in HelperType
    BY <1>1 DEF HelperType
  <2>3. "database" \in Stages /\ p \in Plays \cup {0} /\ 0 \in Nat
    BY DEF Stages
  <2> HIDE DEF x, s
  <2>4. helper' \in [Plays -> HelperType]
    BY <2>1, <2>2, GoesType, ExitsType
  <2>5. [scope EXCEPT ![s].stage = "database", ![s].by = p] \in ScopesType
    BY <1>1, <2>3, ScopesAre
  <2>6. scope' \in ScopesType
    BY <1>1, <2>1, <2>5
  <2> QED
    BY <2>4, <2>6
<1>4. CASE Connect(p)
  <2> DEFINE x == [helper[p] EXCEPT !.at = "schema"]
             into == IF now = "database" THEN "connected" ELSE now
  <2>1. scope' = [scope EXCEPT ![s].stage = into] /\ Goes(p, x)
    BY <1>4 DEF Connect
  <2>2. x \in HelperType
    BY <1>1 DEF HelperType
  <2>3. into \in Stages /\ 0 \in Plays \cup {0} /\ 0 \in Nat
    BY <1>1 DEF Stages
  <2> HIDE DEF x, s, into
  <2> QED
    BY <1>1, <2>1, <2>2, <2>3, GoesType, ScopesAre
<1>5. CASE Schema(p)
  <2> DEFINE into == IF now = "connected" THEN "ready" ELSE now
  <2>1. scope' = [scope EXCEPT ![s].stage = into] /\ NextScope(p, helper[p], "look", "verify")
    BY <1>5 DEF Schema
  <2>2. into \in Stages /\ 0 \in Plays \cup {0} /\ 0 \in Nat
    BY <1>1 DEF Stages
  <2>3. helper' \in [Plays -> HelperType]
    BY <1>1, <2>1, NextScopeType DEF Loops
  <2> HIDE DEF s, into
  <2> QED
    BY <1>1, <2>1, <2>2, <2>3, ScopesAre
<1> QED
  BY <1>2, <1>3, <1>4, <1>5

LEMMA LoginType ==
  ASSUME TypeOK, NEW p \in Plays, Verify(p) \/ Login(p)
  PROVE  helper' \in [Plays -> HelperType]
<1> DEFINE x == [helper[p] EXCEPT !.at = "login"]
           y == [helper[p] EXCEPT !.saw = "READY"]
<1>1. helper[p] \in HelperType
  BY HelperPlaces
<1>2. x \in HelperType /\ y \in HelperType
  BY <1>1 DEF HelperType
<1>3. \/ Goes(p, x) \/ Exits(p, "failed")
      \/ NextScope(p, helper[p], "login", "exit") \/ NextScope(p, y, "look", "verify")
      \/ NextScope(p, helper[p], "verify", "exit")
  <2>1. CASE Verify(p)
    BY <2>1 DEF Verify
  <2>2. CASE Login(p)
    BY <2>2 DEF Login, AfterLogin
  <2> QED
    BY <2>1, <2>2
<1> HIDE DEF x, y
<1>4. CASE Goes(p, x) \/ Exits(p, "failed")
  BY <1>2, <1>4, GoesType, ExitsType
<1>5. CASE \/ NextScope(p, helper[p], "login", "exit") \/ NextScope(p, y, "look", "verify")
           \/ NextScope(p, helper[p], "verify", "exit")
  BY <1>1, <1>2, <1>5, NextScopeType DEF Loops
<1> QED
  BY <1>3, <1>4, <1>5

LEMMA HelperStepType ==
  ASSUME TypeOK, NEW p \in Plays, HelperStep(p) PROVE TypeOK'
<1>1. CASE Survey(p) \/ Look(p) \/ Verify(p) \/ Login(p)
  <2>1. helper' \in [Plays -> HelperType]
    BY <1>1, SurveyType, LookType, LoginType
  <2>2. UNCHANGED <<engine, scope, secret, object, play, late, history, mishaps>>
    BY <1>1 DEF Survey, Look, Verify, Login, Outside
  <2> QED
    BY <2>1, <2>2 DEF TypeOK
<1>2. CASE Principal(p) \/ CreateDatabase(p) \/ Connect(p) \/ Schema(p)
  <2>1. helper' \in [Plays -> HelperType] /\ scope' \in ScopesType
    BY <1>2, WritesType
  <2>2. UNCHANGED <<engine, secret, object, play, late, history, mishaps>>
    BY <1>2 DEF Principal, CreateDatabase, Connect, Schema, Outside
  <2> QED
    BY <2>1, <2>2 DEF TypeOK, ScopesType
<1>3. CASE HelperFails(p)
  <2>1. helper' \in [Plays -> HelperType] /\ mishaps' \in 0 .. MaxMishaps
    BY <1>3, ExitsType, MishapType DEF HelperFails
  <2> QED
    BY <1>3, <2>1 DEF HelperFails, TypeOK, cluster
<1> QED
  BY <1>1, <1>2, <1>3 DEF HelperStep

---------------------------------------------------------------------------
LEMMA KilledType ==
  ASSUME TypeOK, NEW p \in Plays, NEW k, Killed(p, k)
  PROVE  helper' \in [Plays -> HelperType]
<1> DEFINE x == [NoHelper EXCEPT !.run = "killed"]
<1>1. x \in HelperType
  BY NoTypes DEF HelperType
<1>2. helper' = [helper EXCEPT ![p] = x] \/ helper' = helper
  BY DEF Killed
<1> HIDE DEF x
<1> QED
  BY <1>1, <1>2 DEF TypeOK

LEMMA OthersType ==
  ASSUME TypeOK, NEW p \in Plays, Others(p) PROVE TypeOK'
<1> SUFFICES ASSUME NEW k \in Kinds,
                    Land(p, k) \/ Gone(p, k) \/ Remove(p, k) \/ Replace(p, k) \/ Relabel(p, k)
             PROVE  TypeOK'
  BY DEF Others
<1>1. object[p][k] \in ObjectType /\ object[p][k].uid \in Nat /\ play[p] \in PlayType
  BY UidType DEF TypeOK
<1>2. CASE Land(p, k)
  <2>1. object' \in [Plays -> [Kinds -> ObjectType]] /\ helper' \in [Plays -> HelperType]
    BY <1>2, AppearsType DEF Land
  <2>2. history' \in [together : BOOLEAN, excused : BOOLEAN]
    <3>1. (history.together \/ Joined(p, k)) \in BOOLEAN
      OBVIOUS
    <3> QED
      BY <1>2, <3>1 DEF Land
  <2>3. late' \subseteq Plays \X Kinds
    BY <1>2 DEF Land, TypeOK
  <2> QED
    BY <1>2, <2>1, <2>2, <2>3 DEF Land, TypeOK, cluster
<1>3. CASE Gone(p, k) \/ Remove(p, k)
  <2> DEFINE o == [NoObject EXCEPT !.uid = object[p][k].uid]
  <2>1. o \in ObjectType
    BY <1>1, NoTypes DEF ObjectType
  <2>2. object' = [object EXCEPT ![p][k] = o] /\ Killed(p, k)
    BY <1>3 DEF Gone, Remove
  <2> HIDE DEF o
  <2>3. object' \in [Plays -> [Kinds -> ObjectType]] /\ helper' \in [Plays -> HelperType]
    BY <2>1, <2>2, ObjectsType, KilledType
  <2>4. mishaps' \in 0 .. MaxMishaps
    BY <1>3, MishapType DEF Gone, Remove, TypeOK
  <2> QED
    BY <1>3, <2>3, <2>4 DEF Gone, Remove, TypeOK, cluster
<1>4. CASE Replace(p, k)
  <2>1. PICK labelled \in BOOLEAN :
          object' = [object EXCEPT ![p][k] =
            [there |-> TRUE, uid |-> @.uid + 1, labelled |-> labelled, ending |-> FALSE,
             foreign |-> TRUE, early |-> play[p].uid[k] = 0]]
    BY <1>4 DEF Replace
  <2> DEFINE o == [there |-> TRUE, uid |-> object[p][k].uid + 1, labelled |-> labelled,
                   ending |-> FALSE, foreign |-> TRUE, early |-> play[p].uid[k] = 0]
  <2>2. object' = [object EXCEPT ![p][k] = o]
    BY <2>1
  <2>3. (play[p].uid[k] = 0) \in BOOLEAN
    OBVIOUS
  <2>4. o \in ObjectType
    BY <1>1, <2>3 DEF ObjectType
  <2> HIDE DEF o
  <2>5. object' \in [Plays -> [Kinds -> ObjectType]] /\ helper' \in [Plays -> HelperType]
    BY <1>4, <2>2, <2>4, ObjectsType, KilledType DEF Replace
  <2>6. mishaps' \in 0 .. MaxMishaps
    BY <1>4, MishapType DEF Replace
  <2> QED
    BY <1>4, <2>5, <2>6 DEF Replace, TypeOK, cluster
<1>5. CASE Relabel(p, k)
  <2> DEFINE o == [object[p][k] EXCEPT !.labelled = FALSE]
  <2>1. o \in ObjectType
    BY <1>1 DEF ObjectType
  <2>2. object' = [object EXCEPT ![p][k] = o]
    <3>1. object' = [object EXCEPT ![p][k].labelled = FALSE]
      BY <1>5 DEF Relabel
    <3> QED
      BY <3>1
  <2> HIDE DEF o
  <2>3. object' \in [Plays -> [Kinds -> ObjectType]]
    BY <2>1, <2>2, ObjectsType
  <2>4. mishaps' \in 0 .. MaxMishaps /\ history' \in [together : BOOLEAN, excused : BOOLEAN]
    BY <1>5, MishapType DEF Relabel, TypeOK
  <2> QED
    BY <1>5, <2>3, <2>4 DEF Relabel, TypeOK, cluster
<1> QED
  BY <1>2, <1>3, <1>4, <1>5

LEMMA DatabaseType ==
  ASSUME TypeOK, NEW s \in Scopes, NewSecret(s) \/ Use(s) PROVE TypeOK'
<1>1. CASE NewSecret(s)
  <2>1. secret' \in [Scopes -> Nat] /\ mishaps' \in 0 .. MaxMishaps
    BY <1>1, MishapType DEF NewSecret, TypeOK
  <2> QED
    BY <1>1, <2>1 DEF NewSecret, TypeOK
<1>2. CASE Use(s)
  <2>1. "used" \in Stages /\ 0 \in Nat /\ 0 \in Plays \cup {0}
    BY DEF Stages
  <2>2. scope' \in ScopesType /\ mishaps' \in 0 .. MaxMishaps
    BY <1>2, <2>1, MishapType, ScopesAre DEF Use
  <2> QED
    BY <1>2, <2>2 DEF Use, TypeOK, ScopesType
<1> QED
  BY <1>1, <1>2

LEMMA NextType == TypeOK /\ [Next]_vars => TypeOK'
<1> SUFFICES ASSUME TypeOK, [Next]_vars PROVE TypeOK'
  OBVIOUS
<1>1. ASSUME NEW p \in Plays, PlayStep(p) PROVE TypeOK'
  BY <1>1, StartPlayType, PlayTasksType, PlayWritesType DEF PlayStep
<1>2. ASSUME NEW p \in Plays, HelperStep(p) \/ Others(p) PROVE TypeOK'
  BY <1>2, HelperStepType, OthersType
<1>3. ASSUME NEW s \in Scopes, NewSecret(s) \/ Use(s) PROVE TypeOK'
  BY <1>3, DatabaseType
<1>4. CASE UNCHANGED vars
  BY <1>4 DEF vars, TypeOK
<1> QED
  BY <1>1, <1>2, <1>3, <1>4 DEF Next

(* The variables keep their types.                                         *)
THEOREM TypeCorrect == Spec => []TypeOK
  BY InitType, NextType, PTL DEF Spec

---------------------------------------------------------------------------
(* A half-made scope waits: between its database and its schema a script   *)
(* works on a scope it has created itself.                                 *)
Midway == {"connect", "schema"}

Held ==
    \A p \in Plays :
        /\ helper[p].run # "running" => helper[p].at = "survey"
        /\ helper[p].run = "running" /\ helper[p].at \in Midway =>
             /\ scope[helper[p].i].by = p
             /\ scope[helper[p].i].stage \in HasDatabase

(* A database, once there, stays, and so does the name of who made it.     *)
Steady ==
    \A s \in Scopes : scope[s].stage \in HasDatabase =>
        scope'[s].stage \in HasDatabase /\ scope'[s].by = scope[s].by

(* The script of p does not come to be between database and schema.        *)
Rests(p) ==
    \/ helper' = helper
    \/ \E h \in HelperType : /\ Goes(p, h) /\ h.at \notin Midway
                             /\ h.run # "running" => h.at = "survey"

LEMMA InitHeld == Init => Held
  BY DEF Init, Held, NoHelper

LEMMA ExitsRests ==
  ASSUME NEW p \in Plays, Exits(p, "failed")
  PROVE  Rests(p)
<1> DEFINE x == [NoHelper EXCEPT !.run = "failed"]
<1>1. x \in HelperType /\ x.at = "survey"
  BY NoTypes DEF NoHelper, HelperType
<1>2. Goes(p, x)
  BY DEF Exits
<1> HIDE DEF x
<1> QED
  BY <1>1, <1>2 DEF Rests, Midway

LEMMA KilledRests ==
  ASSUME NEW p \in Plays, NEW k, Killed(p, k)
  PROVE  Rests(p)
<1> DEFINE x == [NoHelper EXCEPT !.run = "killed"]
<1>1. x \in HelperType /\ x.at = "survey"
  BY NoTypes DEF NoHelper, HelperType
<1>2. helper' = helper \/ Goes(p, x)
  BY DEF Killed, Goes
<1> HIDE DEF x
<1> QED
  BY <1>1, <1>2 DEF Rests, Midway

LEMMA NextScopeRests ==
  ASSUME NEW p \in Plays, NEW h \in HelperType, h.run = "running",
         NEW loop \in Loops \ {"exit"}, NEW after \in Loops, NextScope(p, h, loop, after)
  PROVE  Rests(p)
<1>1. h.i \in Scopes /\ N \in Nat /\ 1 \in Scopes
  BY ProvisioningAssumption DEF HelperType, Scopes
<1>2. CASE h.i < N
  <2> DEFINE x1 == [h EXCEPT !.at = loop]
             x2 == [x1 EXCEPT !.i = @ + 1]
  <2>1. x1 \in HelperType /\ x1.i = h.i /\ x1.at = loop /\ x1.run = "running"
    BY DEF HelperType, Loops
  <2>2. Goes(p, x2)
    BY <1>2 DEF NextScope
  <2> HIDE DEF x1
  <2>3. x1.i + 1 \in Scopes
    BY <1>1, <1>2, <2>1 DEF Scopes
  <2>4. x2 \in HelperType /\ x2.at = loop /\ x2.run = "running"
    BY <2>1, <2>3 DEF HelperType
  <2> HIDE DEF x2
  <2> QED
    BY <2>2, <2>4 DEF Rests, Loops, Midway
<1>3. CASE ~(h.i < N) /\ after = "exit"
  <2> DEFINE x1 == [NoHelper EXCEPT !.run = "succeeded"]
             x2 == [x1 EXCEPT !.missing = h.missing]
             x3 == [x2 EXCEPT !.wrote = h.wrote]
  <2>1. Goes(p, x3)
    BY <1>3 DEF NextScope, Succeeds
  <2>2. x1 \in HelperType /\ x1.at = "survey"
    BY NoTypes DEF HelperType, NoHelper
  <2> HIDE DEF x1
  <2>3. x2 \in HelperType /\ x2.at = "survey"
    BY <2>2 DEF HelperType
  <2> HIDE DEF x2
  <2>4. x3 \in HelperType /\ x3.at = "survey"
    BY <2>3 DEF HelperType
  <2> HIDE DEF x3
  <2> QED
    BY <2>1, <2>4 DEF Rests, Midway
<1>4. CASE ~(h.i < N) /\ after # "exit"
  <2> DEFINE x1 == [h EXCEPT !.at = after]
             x2 == [x1 EXCEPT !.i = 1]
  <2>1. x1 \in HelperType /\ x1.at = after /\ x1.run = "running"
    BY <1>4 DEF HelperType, Loops
  <2>2. Goes(p, x2)
    BY <1>4 DEF NextScope
  <2> HIDE DEF x1
  <2>4. x2 \in HelperType /\ x2.at = after /\ x2.run = "running"
    BY <1>1, <2>1 DEF HelperType
  <2> HIDE DEF x2
  <2> QED
    BY <1>4, <2>2, <2>4 DEF Rests, Loops, Midway
<1> QED
  BY <1>2, <1>3, <1>4

(* The scripts' tasks, but those that go on to the next statement of a     *)
(* scope that is being made.                                               *)
LEMMA TasksRest ==
  ASSUME TypeOK, NEW p \in Plays,
         \/ Survey(p) \/ Look(p) \/ Principal(p) \/ Schema(p)
         \/ Verify(p) \/ Login(p) \/ HelperFails(p)
  PROVE  Rests(p)
<1>1. helper[p] \in HelperType
  BY HelperPlaces
<1>2. CASE Survey(p)
  <2> DEFINE state == StateOf(helper[p].i)
             h == [helper[p] EXCEPT !.missing = IF state \in Lacking THEN @ + 1 ELSE @]
             after == IF h.missing = 0 THEN "login" ELSE "look"
  <2>1. Exits(p, "failed") \/ NextScope(p, h, "survey", after)
    BY <1>2 DEF Survey
  <2>2. helper[p].missing + 1 \in Nat /\ helper[p].run = "running"
    BY <1>1, <1>2 DEF HelperType, Survey, Script
  <2>3. h \in HelperType /\ h.run = "running"
    BY <1>1, <2>2 DEF HelperType
  <2>4. after \in Loops
    BY DEF Loops
  <2> HIDE DEF h, after
  <2>5. CASE NextScope(p, h, "survey", after)
    BY <2>3, <2>4, <2>5, NextScopeRests DEF Loops
  <2> QED
    BY <2>1, <2>5, ExitsRests
<1>3. CASE Look(p)
  <2> DEFINE x == [helper[p] EXCEPT !.at = "principal", !.saw = StateOf(helper[p].i)]
  <2>1. CASE StateOf(helper[p].i) \in Lacking
    <3>1. x \in HelperType /\ x.at = "principal" /\ x.run = "running"
      BY <1>1, <1>3, <2>1 DEF HelperType, Look, Script
    <3>2. Goes(p, x)
      BY <1>3, <2>1 DEF Look
    <3> HIDE DEF x
    <3> QED
      BY <3>1, <3>2 DEF Rests, Midway
  <2>2. CASE StateOf(helper[p].i) \notin Lacking
    <3>1. NextScope(p, helper[p], "look", "verify") /\ helper[p].run = "running"
      BY <1>3, <2>2 DEF Look, Script
    <3> QED
      BY <1>1, <3>1, NextScopeRests DEF Loops
  <2> QED
    BY <2>1, <2>2
<1>4. CASE Principal(p)
  <2> DEFINE next == IF engine = "mongodb" THEN "login" ELSE "database"
             x1 == [helper[p] EXCEPT !.wrote = @ \cup {helper[p].i}]
             x2 == [x1 EXCEPT !.at = next]
  <2>1. Goes(p, x2) \/ Exits(p, "failed")
    BY <1>4 DEF Principal
  <2>2. helper[p].i \in Scopes /\ helper[p].run = "running" /\ next \in {"login", "database"}
    BY <1>1, <1>4 DEF HelperType, Principal, Script
  <2>3. x1 \in HelperType /\ x1.run = "running"
    BY <1>1, <2>2 DEF HelperType
  <2> HIDE DEF x1, next
  <2>4. x2 \in HelperType /\ x2.at = next /\ x2.run = "running"
    BY <2>2, <2>3 DEF HelperType
  <2> HIDE DEF x2
  <2>5. CASE Goes(p, x2)
    BY <2>2, <2>4, <2>5 DEF Rests, Midway
  <2> QED
    BY <2>1, <2>5, ExitsRests
<1>5. CASE Schema(p)
  <2>1. NextScope(p, helper[p], "look", "verify") /\ helper[p].run = "running"
    BY <1>5 DEF Schema, Script
  <2> QED
    BY <1>1, <2>1, NextScopeRests DEF Loops
<1>6. CASE Verify(p) \/ Login(p)
  <2> DEFINE x == [helper[p] EXCEPT !.at = "login"]
             y == [helper[p] EXCEPT !.saw = "READY"]
  <2>1. helper[p].run = "running"
    BY <1>6 DEF Verify, Login, Script
  <2>2. x \in HelperType /\ x.at = "login" /\ x.run = "running"
        /\ y \in HelperType /\ y.run = "running"
    BY <1>1, <2>1 DEF HelperType
  <2>3. \/ Goes(p, x) \/ Exits(p, "failed")
        \/ NextScope(p, helper[p], "login", "exit") \/ NextScope(p, y, "look", "verify")
        \/ NextScope(p, helper[p], "verify", "exit")
    <3>1. CASE Verify(p)
      BY <3>1 DEF Verify
    <3>2. CASE Login(p)
      BY <3>2 DEF Login, AfterLogin
    <3> QED
      BY <1>6, <3>1, <3>2
  <2> HIDE DEF x, y
  <2>4. CASE Goes(p, x)
    BY <2>2, <2>4 DEF Rests, Midway
  <2>5. CASE \/ NextScope(p, helper[p], "login", "exit") \/ NextScope(p, y, "look", "verify")
             \/ NextScope(p, helper[p], "verify", "exit")
    BY <1>1, <2>1, <2>2, <2>5, NextScopeRests DEF Loops
  <2> QED
    BY <2>3, <2>4, <2>5, ExitsRests
<1>7. CASE HelperFails(p)
  BY <1>7, ExitsRests DEF HelperFails
<1> QED
  BY <1>2, <1>3, <1>4, <1>5, <1>6, <1>7

LEMMA HeldRests ==
  ASSUME TypeOK, Held, Steady, NEW p \in Plays, Rests(p)
  PROVE  Held'
<1> SUFFICES ASSUME NEW q \in Plays
             PROVE  /\ helper'[q].run # "running" => helper'[q].at = "survey"
                    /\ helper'[q].run = "running" /\ helper'[q].at \in Midway =>
                         /\ scope'[helper'[q].i].by = q
                         /\ scope'[helper'[q].i].stage \in HasDatabase
  BY DEF Held
<1>1. helper[q] \in HelperType /\ helper[q].i \in Scopes
  BY HelperPlaces
<1>2. CASE helper'[q] = helper[q]
  BY <1>1, <1>2 DEF Held, Steady
<1>3. CASE helper'[q] # helper[q]
  <2>1. PICK h \in HelperType : /\ Goes(p, h) /\ h.at \notin Midway
                                /\ h.run # "running" => h.at = "survey"
    BY <1>3 DEF Rests
  <2>2. helper'[q] = h
    BY <1>3, <2>1 DEF Goes, TypeOK
  <2> QED
    BY <2>1, <2>2
<1> QED
  BY <1>2, <1>3

(* A script that goes on is between database and schema of a scope it has  *)
(* created.                                                                *)
LEMMA HeldGoes ==
  ASSUME TypeOK, Held, Steady, NEW p \in Plays, NEW at \in Midway, NEW i \in Scopes,
         helper[p].run = "running", helper[p].i = i,
         helper' = [helper EXCEPT ![p].at = at],
         scope'[i].by = p /\ scope'[i].stage \in HasDatabase
  PROVE  Held'
<1>1. ASSUME NEW q \in Plays, q # p
      PROVE  helper'[q] = helper[q]
  BY <1>1 DEF TypeOK
<1> DEFINE x == [helper[p] EXCEPT !.at = at]
<1>2. helper[p] \in HelperType
  BY HelperPlaces
<1>3. x.run = "running" /\ x.at = at /\ x.i = i
  BY <1>2 DEF HelperType
<1>4. helper'[p] = x
  BY DEF TypeOK
<1> HIDE DEF x
<1>5. ASSUME NEW q \in Plays
      PROVE  helper[q].i \in Scopes
  BY HelperPlaces
<1> SUFFICES ASSUME NEW q \in Plays
             PROVE  /\ helper'[q].run # "running" => helper'[q].at = "survey"
                    /\ helper'[q].run = "running" /\ helper'[q].at \in Midway =>
                         /\ scope'[helper'[q].i].by = q
                         /\ scope'[helper'[q].i].stage \in HasDatabase
  BY DEF Held
<1>6. CASE q = p
  BY <1>3, <1>4, <1>6
<1>7. CASE q # p
  <2>1. helper'[q] = helper[q] /\ helper[q].i \in Scopes
    BY <1>1, <1>5, <1>7
  <2> QED
    BY <2>1 DEF Held, Steady
<1> QED
  BY <1>6, <1>7

(* What a write does to the stage and the creator of each scope.           *)
StageBy(s, stage, q) ==
    /\ scope'[s].stage = stage /\ scope'[s].by = q
    /\ \A t \in Scopes \ {s} : scope'[t].stage = scope[t].stage /\ scope'[t].by = scope[t].by

LEMMA StageAfter ==
  ASSUME TypeOK, NEW s \in Scopes, NEW stage, NEW v, NEW q
  PROVE  /\ scope' = [scope EXCEPT ![s].stage = stage] => StageBy(s, stage, scope[s].by)
         /\ scope' = [scope EXCEPT ![s].stage = stage, ![s].password = v]
              => StageBy(s, stage, scope[s].by)
         /\ scope' = [scope EXCEPT ![s].stage = stage, ![s].by = q] => StageBy(s, stage, q)
         /\ scope' = [scope EXCEPT ![s].password = v] => StageBy(s, scope[s].stage, scope[s].by)
<1> DEFINE R == [stage : Stages, password : Nat, by : Plays \cup {0}, stray : BOOLEAN]
           a == [scope[s] EXCEPT !.stage = stage]
           b == [a EXCEPT !.password = v]
           c == [a EXCEPT !.by = q]
           d == [scope[s] EXCEPT !.password = v]
<1>1. scope[s] \in R /\ scope \in [Scopes -> R]
  BY DEF TypeOK
<1>2. /\ [scope EXCEPT ![s].stage = stage] = [scope EXCEPT ![s] = a]
      /\ [scope EXCEPT ![s].stage = stage, ![s].password = v] = [scope EXCEPT ![s] = b]
      /\ [scope EXCEPT ![s].stage = stage, ![s].by = q] = [scope EXCEPT ![s] = c]
      /\ [scope EXCEPT ![s].password = v] = [scope EXCEPT ![s] = d]
  BY <1>1
<1>3. /\ a.stage = stage /\ a.by = scope[s].by
      /\ b.stage = stage /\ b.by = scope[s].by
      /\ c.stage = stage /\ c.by = q
      /\ d.stage = scope[s].stage /\ d.by = scope[s].by
  BY <1>1
<1> HIDE DEF a, b, c, d
<1>4. ASSUME NEW x, scope' = [scope EXCEPT ![s] = x]
      PROVE  StageBy(s, x.stage, x.by)
  BY <1>1, <1>4 DEF StageBy
<1> QED
  BY <1>2, <1>3, <1>4

LEMMA ScriptWrites ==
  ASSUME TypeOK, Held, NEW p \in Plays,
         Principal(p) \/ CreateDatabase(p) \/ Connect(p) \/ Schema(p)
  PROVE  /\ Steady /\ Held'
         /\ \A s \in Scopes :
              scope[s].stage \in {"database", "connected"} /\ scope'[s].stage # scope[s].stage
                => /\ p = scope[s].by /\ helper[p].run = "running" /\ helper[p].i = s
                   /\ helper'[p] # helper[p]
<1> DEFINE i == helper[p].i
           now == scope[i].stage
<1>1. helper[p] \in HelperType /\ i \in Scopes /\ now \in Stages
  BY HelperPlaces, ScopeFacts
<1>2. CASE Principal(p)
  <2> DEFINE into == IF engine = "mongodb" THEN "ready" ELSE "role"
  <2>1. PICK v \in Mounted(p, i) :
          \/ now = "missing" /\ scope' = [scope EXCEPT ![i].stage = into, ![i].password = v]
          \/ scope' = [scope EXCEPT ![i].password = v]
          \/ scope' = scope
    BY <1>2 DEF Principal
  <2> HIDE DEF into
  <2>0. \/ now = "missing" /\ StageBy(i, into, scope[i].by)
        \/ StageBy(i, now, scope[i].by)
        \/ scope' = scope
    BY <1>1, <2>1, StageAfter
  <2>2. ASSUME NEW s \in Scopes, scope[s].stage \in HasDatabase
        PROVE  scope'[s].stage = scope[s].stage /\ scope'[s].by = scope[s].by
    <3>1. now = "missing" => s # i
      BY <2>2 DEF HasDatabase
    <3> QED
      BY <1>1, <2>0, <2>2, <3>1 DEF StageBy
  <2>3. Steady
    BY <2>2 DEF Steady
  <2>4. {"database", "connected"} \subseteq HasDatabase
    BY DEF HasDatabase, Stages
  <2> QED
    BY <1>2, <2>2, <2>3, <2>4, TasksRest, HeldRests
<1>3. CASE CreateDatabase(p)
  <2>1. CASE now = "role"
    <3>1. /\ scope' = [scope EXCEPT ![i].stage = "database", ![i].by = p]
          /\ Goes(p, [helper[p] EXCEPT !.at = "connect"]) /\ helper[p].run = "running"
      BY <1>3, <2>1 DEF CreateDatabase, Script
    <3>0. StageBy(i, "database", p)
      BY <1>1, <3>1, StageAfter
    <3>2. scope'[i].stage = "database" /\ scope'[i].by = p
      BY <3>0 DEF StageBy
    <3>3. \A s \in Scopes \ {i} :
            scope'[s].stage = scope[s].stage /\ scope'[s].by = scope[s].by
      BY <3>0 DEF StageBy
    <3>4. "role" \notin HasDatabase /\ "database" \in HasDatabase /\ "connect" \in Midway
      BY DEF HasDatabase, Stages, Midway
    <3>5. Steady
      BY <2>1, <3>3, <3>4 DEF Steady
    <3>6. helper' = [helper EXCEPT ![p].at = "connect"]
      BY <3>1 DEF Goes
    <3>7. Held'
      BY <1>1, <3>1, <3>2, <3>4, <3>5, <3>6, HeldGoes
    <3> QED
      BY <2>1, <3>3, <3>5, <3>7
  <2>2. CASE now # "role"
    <3>1. Exits(p, "failed") /\ scope' = scope
      BY <1>3, <2>2 DEF CreateDatabase
    <3>2. Steady
      BY <3>1 DEF Steady
    <3> QED
      BY <3>1, <3>2, ExitsRests, HeldRests
  <2> QED
    BY <2>1, <2>2
<1>4. CASE Connect(p)
  <2> DEFINE into == IF now = "database" THEN "connected" ELSE now
  <2>1. /\ scope' = [scope EXCEPT ![i].stage = into]
        /\ Goes(p, [helper[p] EXCEPT !.at = "schema"])
        /\ helper[p].run = "running" /\ helper[p].at = "connect"
    BY <1>4 DEF Connect, Script
  <2>2. scope[i].by = p /\ now \in HasDatabase
    BY <2>1 DEF Held, Midway
  <2>3. into \in HasDatabase
    BY <2>2 DEF HasDatabase, Stages
  <2> HIDE DEF into
  <2>0. StageBy(i, into, scope[i].by)
    BY <1>1, <2>1, StageAfter
  <2>4. scope'[i].stage = into /\ scope'[i].by = p
    BY <2>0, <2>2 DEF StageBy
  <2>5. \A s \in Scopes \ {i} : scope'[s].stage = scope[s].stage /\ scope'[s].by = scope[s].by
    BY <2>0 DEF StageBy
  <2>6. Steady
    BY <2>2, <2>3, <2>4, <2>5 DEF Steady
  <2>7. helper' = [helper EXCEPT ![p].at = "schema"]
    BY <2>1 DEF Goes
  <2>8. Held'
    BY <1>1, <2>1, <2>3, <2>4, <2>6, <2>7, HeldGoes DEF Midway
  <2>9. helper'[p] # helper[p]
    <3>1. helper'[p].at = "schema"
      BY <1>1, <2>1 DEF Goes, TypeOK, HelperType
    <3> QED
      BY <2>1, <3>1
  <2> QED
    BY <2>1, <2>2, <2>5, <2>6, <2>8, <2>9
<1>5. CASE Schema(p)
  <2> DEFINE into == IF now = "connected" THEN "ready" ELSE now
  <2>1. /\ scope' = [scope EXCEPT ![i].stage = into]
        /\ NextScope(p, helper[p], "look", "verify")
        /\ helper[p].run = "running" /\ helper[p].at = "schema"
    BY <1>5 DEF Schema, Script
  <2>2. scope[i].by = p /\ now \in HasDatabase
    BY <2>1 DEF Held, Midway
  <2>3. into \in HasDatabase
    BY <2>2 DEF HasDatabase, Stages
  <2> HIDE DEF into
  <2>0. StageBy(i, into, scope[i].by)
    BY <1>1, <2>1, StageAfter
  <2>4. scope'[i].stage = into /\ scope'[i].by = p
    BY <2>0, <2>2 DEF StageBy
  <2>5. \A s \in Scopes \ {i} : scope'[s].stage = scope[s].stage /\ scope'[s].by = scope[s].by
    BY <2>0 DEF StageBy
  <2>6. Steady
    BY <2>2, <2>3, <2>4, <2>5 DEF Steady
  <2>7. helper'[p] # helper[p]
    <3> DEFINE x1 == [helper[p] EXCEPT !.at = "look", !.i = @ + 1]
               x2 == [helper[p] EXCEPT !.at = "verify", !.i = 1]
    <3>1. Goes(p, x1) \/ Goes(p, x2)
      BY <2>1 DEF NextScope
    <3>2. x1.at = "look" /\ x2.at = "verify"
      BY <1>1 DEF HelperType
    <3> HIDE DEF x1, x2
    <3>3. helper'[p].at \in {"look", "verify"}
      BY <3>1, <3>2 DEF Goes, TypeOK
    <3> QED
      BY <2>1, <3>3
  <2> QED
    BY <1>5, <2>1, <2>2, <2>5, <2>6, <2>7, TasksRest, HeldRests
<1> QED
  BY <1>2, <1>3, <1>4, <1>5

LEMMA HeldAppears ==
  ASSUME TypeOK, Held, scope' = scope, NEW p \in Plays, NEW k, Appears(p, k)
  PROVE  Held'
<1> DEFINE x == [helper[p] EXCEPT !.run = "running", !.mounted = secret]
<1>1. x.run = "running" /\ x.at = helper[p].at /\ x.i = helper[p].i
  BY HelperPlaces DEF HelperType
<1>2. helper' = helper \/ helper' = [helper EXCEPT ![p] = x]
  <2>1. helper' = helper
        \/ helper' = [helper EXCEPT ![p].run = "running", ![p].mounted = secret]
    BY DEF Appears
  <2> QED
    BY <2>1
<1> HIDE DEF x
<1>3. helper[p].run # "running" => helper[p].at = "survey" /\ "survey" \notin Midway
  BY DEF Held, Midway
<1> QED
  BY <1>1, <1>2, <1>3 DEF Held, TypeOK

(* Every step that is not a script's write leaves the scopes alone, but    *)
(* for an application that starts to use one.                              *)
LEMMA StepHeld ==
  ASSUME TypeOK, Held, Next
  PROVE  /\ Held'
         /\ \A s \in Scopes :
              scope[s].stage \in {"database", "connected"} /\ scope'[s].stage # scope[s].stage
                => \/ \E p \in Plays : /\ p = scope[s].by
                                      /\ helper[p].run = "running" /\ helper[p].i = s
                                      /\ helper'[p] # helper[p]
                   \/ scope[s].stage = "connected" /\ scope'[s].stage = "used"
<1>1. ASSUME NEW p \in Plays, PlayStep(p)
      PROVE  Held' /\ scope' = scope
  <2>1. CASE \E k \in Kinds : Create(p, k)
    <3>1. PICK k \in Kinds : Create(p, k)
      BY <2>1
    <3>2. scope' = scope
      BY <3>1 DEF Create, cluster
    <3>3. CASE Appears(p, k)
      BY <3>2, <3>3, HeldAppears
    <3>4. CASE helper' = helper
      BY <3>2, <3>4 DEF Held
    <3> QED
      BY <3>1, <3>2, <3>3, <3>4 DEF Create
  <2>2. CASE ~\E k \in Kinds : Create(p, k)
    <3>1. helper' = helper /\ scope' = scope
      BY <1>1, <2>2 DEF PlayStep, StartPlay, Check, BindPolicy, Poll, GiveUp, TaskFails,
         HardStop, TokenGone, Stale, Find, Delete, Wait, Residue, cluster
    <3> QED
      BY <3>1 DEF Held
  <2> QED
    BY <2>1, <2>2
<1>2. ASSUME NEW p \in Plays, HelperStep(p)
      PROVE  /\ Held'
             /\ \A s \in Scopes :
                  scope[s].stage \in {"database", "connected"} /\ scope'[s].stage # scope[s].stage
                    => /\ p = scope[s].by /\ helper[p].run = "running" /\ helper[p].i = s
                       /\ helper'[p] # helper[p]
  <2>1. CASE Survey(p) \/ Look(p) \/ Verify(p) \/ Login(p) \/ HelperFails(p)
    <3>1. Rests(p)
      BY <2>1, TasksRest
    <3>2. scope' = scope
      BY <2>1 DEF Survey, Look, Verify, Login, HelperFails, cluster
    <3>3. Steady
      BY <3>2 DEF Steady
    <3> QED
      BY <3>1, <3>2, <3>3, HeldRests
  <2>2. CASE Principal(p) \/ CreateDatabase(p) \/ Connect(p) \/ Schema(p)
    BY <2>2, ScriptWrites
  <2> QED
    BY <1>2, <2>1, <2>2 DEF HelperStep
<1>3. ASSUME NEW p \in Plays, Others(p)
      PROVE  Held' /\ scope' = scope
  <2>1. PICK k \in Kinds :
          Land(p, k) \/ Gone(p, k) \/ Remove(p, k) \/ Replace(p, k) \/ Relabel(p, k)
    BY <1>3 DEF Others
  <2>2. scope' = scope
    BY <2>1 DEF Land, Gone, Remove, Replace, Relabel, cluster
  <2>3. Steady
    BY <2>2 DEF Steady
  <2>4. CASE Land(p, k)
    BY <2>2, <2>4, HeldAppears DEF Land
  <2>5. CASE Gone(p, k) \/ Remove(p, k) \/ Replace(p, k) \/ Relabel(p, k)
    <3>1. Killed(p, k) \/ helper' = helper
      BY <2>5 DEF Gone, Remove, Replace, Relabel
    <3>2. Rests(p)
      BY <3>1, KilledRests DEF Rests
    <3> QED
      BY <2>2, <2>3, <3>2, HeldRests
  <2> QED
    BY <2>1, <2>2, <2>4, <2>5
<1>4. ASSUME NEW t \in Scopes, NewSecret(t)
      PROVE  Held' /\ scope' = scope
  BY <1>4 DEF NewSecret, Held
<1>5. ASSUME NEW t \in Scopes, Use(t)
      PROVE  /\ Held'
             /\ \A s \in Scopes :
                  scope[s].stage \in {"database", "connected"} /\ scope'[s].stage # scope[s].stage
                    => scope[s].stage = "connected" /\ scope'[s].stage = "used"
  <2>1. scope' = [scope EXCEPT ![t].stage = "used"] /\ helper' = helper
        /\ scope[t].stage \in {"connected", "ready"}
    BY <1>5 DEF Use
  <2>2. StageBy(t, "used", scope[t].by)
    BY <2>1, StageAfter
  <2>3. Steady
    BY <2>1, <2>2 DEF Steady, StageBy, HasDatabase, Stages
  <2>4. 1 \in Plays
    BY ProvisioningAssumption DEF Plays
  <2>5. Held'
    BY <2>1, <2>3, <2>4, HeldRests DEF Rests
  <2> QED
    BY <2>1, <2>2, <2>5 DEF StageBy
<1> QED
  BY <1>1, <1>2, <1>3, <1>4, <1>5 DEF Next

(* What is between a scope's database and its last grant is done only by   *)
(* the script that created that database.                                  *)
THEOREM HalfDoneWaitsHolds == Spec => HalfDoneWaits
<1>1. TypeOK /\ Held /\ [Next]_vars => Held'
  BY StepHeld DEF vars, Held
<1>2. TypeOK /\ Held /\ [Next]_vars =>
        [\A s \in Scopes :
           scope[s].stage \in {"database", "connected"} /\ scope'[s].stage # scope[s].stage
             => \/ \E p \in Plays : /\ p = scope[s].by
                                   /\ helper[p].run = "running" /\ helper[p].i = s
                                   /\ helper'[p] # helper[p]
                \/ scope[s].stage = "connected" /\ scope'[s].stage = "used"]_vars
  BY StepHeld
<1> QED
  BY <1>1, <1>2, InitHeld, TypeCorrect, PTL DEF Spec, HalfDoneWaits

---------------------------------------------------------------------------
(* A replacement is kept: a play never holds the UID of an object that     *)
(* somebody put in the place of one it had bound.                          *)
BoundOf(p, k) ==
    LET o == object[p][k]
        mine == play[p].uid[k]
    IN /\ mine <= o.uid
       /\ play[p].outcome # "running" => mine = 0
       /\ k = "policy" /\ play[p].pc <= 5 => mine = 0
       /\ k = "pod" /\ play[p].pc <= 7 => mine = 0
       /\ o.foreign /\ ~o.early =>
            /\ play[p].outcome # "none"
            /\ play[p].outcome = "running" => 0 < mine /\ mine < o.uid

Bound == \A p \in Plays, k \in Kinds : BoundOf(p, k)

(* What a step may do to the objects without a thought for the plays.      *)
Older ==
    \A p \in Plays, k \in Kinds :
        /\ object[p][k].uid <= object'[p][k].uid
        /\ object'[p][k].foreign /\ ~object'[p][k].early
             => object[p][k].foreign /\ ~object[p][k].early

(* What it may do to a play: end it, or go on.                             *)
Closes(p) ==
    \E x \in PlayType : /\ play' = [play EXCEPT ![p] = x]
                        /\ x.outcome \notin {"none", "running"}
                        /\ \A k \in Kinds : x.uid[k] = 0
GoesOn(p) ==
    \E x \in PlayType : /\ play' = [play EXCEPT ![p] = x]
                        /\ x.outcome = play[p].outcome /\ x.uid = play[p].uid
                        /\ play[p].pc <= x.pc

LEMMA InitBound == Init => Bound
  BY DEF Init, Bound, BoundOf, NoPlay, NoObject, Kinds

LEMMA BoundKept ==
  ASSUME TypeOK, TypeOK', Bound, Older, NEW p \in Plays,
         Closes(p) \/ GoesOn(p) \/ play' = play
  PROVE  Bound'
<1> SUFFICES ASSUME NEW q \in Plays, NEW k \in Kinds
             PROVE  BoundOf(q, k)'
  BY DEF Bound
<1>1. /\ object[q][k].uid \in Nat /\ object'[q][k].uid \in Nat
      /\ play[q].uid[k] \in Nat /\ play[q].pc \in 1 .. 15 /\ play'[q].pc \in 1 .. 15
  <2>1. /\ object[q][k] \in ObjectType /\ object'[q][k] \in ObjectType
        /\ play[q] \in PlayType /\ play'[q] \in PlayType
    BY DEF TypeOK
  <2> QED
    BY <2>1 DEF ObjectType, PlayType
<1>2. BoundOf(q, k)
  BY DEF Bound
<1>3. CASE play'[q] = play[q]
  BY <1>1, <1>2, <1>3 DEF BoundOf, Older
<1>4. CASE play'[q] # play[q]
  <2>1. PICK x \in PlayType :
          /\ play'[q] = x
          /\ \/ x.outcome \notin {"none", "running"} /\ x.uid[k] = 0
             \/ x.outcome = play[q].outcome /\ x.uid = play[q].uid /\ play[q].pc <= x.pc
    BY <1>4 DEF Closes, GoesOn, TypeOK
  <2>2. CASE x.outcome \notin {"none", "running"} /\ x.uid[k] = 0
    BY <1>1, <2>1, <2>2 DEF BoundOf
  <2>3. CASE x.outcome = play[q].outcome /\ x.uid = play[q].uid /\ play[q].pc <= x.pc
    BY <1>1, <1>2, <2>1, <2>3 DEF BoundOf, Older
  <2> QED
    BY <2>1, <2>2, <2>3
<1> QED
  BY <1>3, <1>4

LEMMA EndedCloses ==
  ASSUME NEW p \in Plays, NEW outcome \in {"refused", "failed", "crashed"}, Ended(p, outcome)
  PROVE  Closes(p)
<1> DEFINE x == [NoPlay EXCEPT !.outcome = outcome]
<1>1. x \in PlayType /\ x.outcome = outcome /\ \A k \in Kinds : x.uid[k] = 0
  BY NoTypes DEF NoPlay, PlayType
<1>2. play' = [play EXCEPT ![p] = x]
  BY DEF Ended
<1> HIDE DEF x
<1> QED
  BY <1>1, <1>2 DEF Closes

LEMMA FailsMoves ==
  ASSUME TypeOK, NEW p \in Plays, Fails(p)
  PROVE  Closes(p) \/ GoesOn(p)
<1>1. play[p] \in PlayType
  BY DEF TypeOK
<1>2. CASE play[p].pc \in Block
  <2> DEFINE x1 == [play[p] EXCEPT !.pc = 8]
             x2 == [x1 EXCEPT !.failed = TRUE]
  <2>1. /\ x1 \in PlayType /\ x1.outcome = play[p].outcome /\ x1.uid = play[p].uid
        /\ x1.pc = 8
    BY <1>1 DEF PlayType
  <2>2. play' = [play EXCEPT ![p] = x2]
    BY <1>2 DEF Fails, Always
  <2> HIDE DEF x1
  <2>3. /\ x2 \in PlayType /\ x2.outcome = play[p].outcome /\ x2.uid = play[p].uid
        /\ x2.pc = 8
    BY <2>1 DEF PlayType
  <2> HIDE DEF x2
  <2>4. play[p].pc <= 8
    BY <1>2 DEF Block
  <2> QED
    BY <2>2, <2>3, <2>4 DEF GoesOn
<1>3. CASE play[p].pc \notin Block
  BY <1>3, EndedCloses DEF Fails
<1> QED
  BY <1>2, <1>3

LEMMA SkipsMoves ==
  ASSUME TypeOK, NEW p \in Plays, NEW n \in {1, 3}, Skips(p, n)
  PROVE  Closes(p) \/ GoesOn(p)
<1>1. play[p] \in PlayType /\ play[p].pc \in 1 .. 15
  BY UidType DEF TypeOK, Kinds
<1>2. CASE play[p].pc + n > 15 /\ play[p].failed
  BY <1>2, TasksAre, EndedCloses DEF Skips
<1>3. CASE play[p].pc + n > 15 /\ ~play[p].failed
  <2> DEFINE x == [NoPlay EXCEPT !.outcome = "done", !.changed = play[p].changed,
                                 !.began = play[p].began]
  <2>1. x \in PlayType /\ x.outcome = "done" /\ \A k \in Kinds : x.uid[k] = 0
    BY <1>1, NoTypes DEF NoPlay, PlayType
  <2>2. play' = [play EXCEPT ![p] = x]
    BY <1>3, TasksAre DEF Skips, Done
  <2> HIDE DEF x
  <2> QED
    BY <2>1, <2>2 DEF Closes
<1>4. CASE ~(play[p].pc + n > 15)
  <2> DEFINE x == [play[p] EXCEPT !.pc = play[p].pc + n]
  <2>1. /\ x \in PlayType /\ x.outcome = play[p].outcome /\ x.uid = play[p].uid
        /\ x.pc = play[p].pc + n
    BY <1>1, <1>4 DEF PlayType
  <2>2. play' = [play EXCEPT ![p] = x]
    BY <1>4, TasksAre DEF Skips
  <2> HIDE DEF x
  <2>3. play[p].pc <= x.pc
    BY <1>1, <2>1
  <2> QED
    BY <2>1, <2>2, <2>3 DEF GoesOn
<1> QED
  BY <1>2, <1>3, <1>4

LEMMA ContinuesMoves ==
  ASSUME TypeOK, NEW p \in Plays, Continues(p)
  PROVE  Closes(p) \/ GoesOn(p)
  BY SkipsMoves DEF Continues

(* A play that binds has nothing bound, or what it binds.                  *)
LEMMA BoundBinds ==
  ASSUME TypeOK, TypeOK', Bound, object' = object, NEW p \in Plays, NEW k \in Kinds,
         NEW x, play' = [play EXCEPT ![p] = x], play[p].outcome = "running",
         x.outcome = "running", x.uid = [play[p].uid EXCEPT ![k] = object[p][k].uid],
         play[p].uid[k] \in {0, object[p][k].uid},
         k = "policy" => x.pc > 5, k = "pod" => x.pc > 7, play[p].pc <= x.pc
  PROVE  Bound'
<1> SUFFICES ASSUME NEW q \in Plays, NEW l \in Kinds
             PROVE  BoundOf(q, l)'
  BY DEF Bound
<1>1. /\ object[q][l].uid \in Nat /\ play[q].uid \in [Kinds -> Nat]
      /\ play[q].pc \in 1 .. 15 /\ play'[q].pc \in 1 .. 15
  <2>1. object[q][l] \in ObjectType /\ play[q] \in PlayType /\ play'[q] \in PlayType
    BY DEF TypeOK
  <2> QED
    BY <2>1 DEF ObjectType, PlayType
<1>2. BoundOf(q, l)
  BY DEF Bound
<1>3. CASE q # p
  <2>1. play'[q] = play[q]
    BY <1>3 DEF TypeOK
  <2> QED
    BY <1>2, <2>1 DEF BoundOf
<1>4. CASE q = p
  <2>1. play'[p] = x
    BY DEF TypeOK
  <2>2. CASE l = k
    <3>1. x.uid[k] = object[p][k].uid
      BY <1>1, <1>4
    <3>2. ~(object[p][k].foreign /\ ~object[p][k].early)
      BY <1>1, <1>2, <1>4, <2>2 DEF BoundOf
    <3> QED
      BY <1>1, <1>4, <2>1, <2>2, <3>1, <3>2 DEF BoundOf
  <2>3. CASE l # k
    <3>1. x.uid[l] = play[p].uid[l]
      BY <1>1, <1>4, <2>3
    <3> QED
      BY <1>1, <1>2, <1>4, <2>1, <2>3, <3>1 DEF BoundOf
  <2> QED
    BY <2>2, <2>3
<1> QED
  BY <1>3, <1>4

LEMMA BindTasks ==
  ASSUME TypeOK, TypeOK', Bound, NEW p \in Plays,
         BindPolicy(p) \/ Poll(p) \/ \E k \in Kinds : Find(p, k)
  PROVE  Bound'
<1> DEFINE held == play[p].uid
<1>1. /\ play[p] \in PlayType /\ play[p].pc \in 1 .. 15 /\ "policy" \in Kinds /\ "pod" \in Kinds
      /\ held \in [Kinds -> Nat]
  BY UidType DEF TypeOK, Kinds
<1>2. object' = object /\ play[p].outcome = "running"
  BY DEF BindPolicy, Poll, Find, At, Running
<1>3. Older
  <2>1. \A q \in Plays, l \in Kinds : object[q][l].uid \in Nat
    BY UidType
  <2> QED
    BY <1>2, <2>1 DEF Older
<1> DEFINE x1(k) == [play[p] EXCEPT !.uid[k] = object[p][k].uid]
<1>4. ASSUME NEW k \in Kinds
      PROVE  /\ x1(k) \in PlayType /\ x1(k).outcome = "running" /\ x1(k).pc = play[p].pc
             /\ x1(k).uid = [held EXCEPT ![k] = object[p][k].uid]
  <2>1. object[p][k].uid \in Nat
    BY UidType
  <2> QED
    BY <1>1, <1>2, <2>1 DEF PlayType
<1>5. ASSUME NEW k \in Kinds, NEW x, play' = [play EXCEPT ![p] = x],
             x.outcome = "running", x.uid = [held EXCEPT ![k] = object[p][k].uid],
             held[k] \in {0, object[p][k].uid},
             k = "policy" => x.pc > 5, k = "pod" => x.pc > 7, play[p].pc <= x.pc
      PROVE  Bound'
  BY <1>2, <1>5, BoundBinds
<1>6. CASE BindPolicy(p)
  <2>1. play[p].pc = 5
    BY <1>1, <1>6, AtPlace DEF BindPolicy
  <2>2. held["policy"] = 0
    BY <1>1, <2>1 DEF Bound, BoundOf
  <2>3. CASE object[p]["policy"].there
    <3> DEFINE x == [x1("policy") EXCEPT !.pc = @ + 1]
    <3>1. play' = [play EXCEPT ![p] = x]
      <4>1. play' = [play EXCEPT ![p].uid["policy"] = object[p]["policy"].uid, ![p].pc = @ + 1]
        BY <1>6, <2>3 DEF BindPolicy
      <4> QED
        BY <4>1
    <3> HIDE DEF x1
    <3>2. /\ x.outcome = "running" /\ x.pc = 6
          /\ x.uid = [held EXCEPT !["policy"] = object[p]["policy"].uid]
      BY <1>1, <1>4, <2>1 DEF PlayType
    <3> HIDE DEF x
    <3>3. x.pc > 5 /\ play[p].pc <= x.pc /\ "policy" # "pod"
      BY <2>1, <3>2
    <3> HIDE DEF held
    <3> QED
      BY <1>1, <1>5, <2>2, <3>1, <3>2, <3>3
  <2>4. CASE ~object[p]["policy"].there
    BY <1>3, <1>6, <2>4, FailsMoves, BoundKept DEF BindPolicy
  <2> QED
    BY <2>3, <2>4
<1>7. CASE Poll(p)
  <2>1. play[p].pc = 7
    BY <1>1, <1>7, AtPlace DEF Poll
  <2>2. held["pod"] = 0
    BY <1>1, <2>1 DEF Bound, BoundOf
  <2> DEFINE z == helper[p].missing > 0
             x2 == [x1("pod") EXCEPT !.changed = z]
             x3 == [x2 EXCEPT !.pc = @ + 1]
             y2 == [x1("pod") EXCEPT !.failed = TRUE]
             y3 == [y2 EXCEPT !.pc = 8]
  <2>3. play' = [play EXCEPT ![p] = x3] \/ play' = [play EXCEPT ![p] = y3]
    <3>1. CASE ~object[p]["pod"].foreign /\ helper[p].run = "succeeded"
      <4>1. play' = [play EXCEPT ![p].uid["pod"] = object[p]["pod"].uid,
                          ![p].changed = helper[p].missing > 0, ![p].pc = @ + 1]
        BY <1>7, <3>1 DEF Poll
      <4> QED
        BY <4>1
    <3>2. CASE ~(~object[p]["pod"].foreign /\ helper[p].run = "succeeded")
      <4>1. play' = [play EXCEPT ![p].uid["pod"] = object[p]["pod"].uid,
                          ![p].failed = TRUE, ![p].pc = 8]
        BY <1>7, <3>2 DEF Poll, Always
      <4> QED
        BY <4>1
    <3> QED
      BY <3>1, <3>2
  <2> DEFINE u == [held EXCEPT !["pod"] = object[p]["pod"].uid]
  <2> HIDE DEF x1
  <2>4. x1("pod") \in PlayType /\ x1("pod").outcome = "running" /\ x1("pod").pc = 7
        /\ x1("pod").uid = u
    BY <1>1, <1>4, <2>1
  <2>5. z \in BOOLEAN
    OBVIOUS
  <2> HIDE DEF z, u
  <2>6. x2 \in PlayType /\ x2.outcome = "running" /\ x2.pc = 7 /\ x2.uid = u
    BY <2>4, <2>5 DEF PlayType
  <2>7. y2 \in PlayType /\ y2.outcome = "running" /\ y2.pc = 7 /\ y2.uid = u
    BY <2>4 DEF PlayType
  <2> HIDE DEF x2, y2
  <2>8. x3.outcome = "running" /\ x3.pc = 8 /\ x3.uid = u
    BY <2>6 DEF PlayType
  <2>9. y3.outcome = "running" /\ y3.pc = 8 /\ y3.uid = u
    BY <2>7 DEF PlayType
  <2> HIDE DEF x3, y3
  <2> HIDE DEF held
  <2>12. ASSUME NEW x, play' = [play EXCEPT ![p] = x], x.outcome = "running", x.uid = u, x.pc = 8
         PROVE  Bound'
    <3>1. x.pc > 5 /\ x.pc > 7 /\ play[p].pc <= x.pc
      BY <2>1, <2>12
    <3> QED
      BY <1>1, <1>5, <2>2, <2>12, <3>1 DEF u
  <2>10. CASE play' = [play EXCEPT ![p] = x3]
    BY <2>8, <2>10, <2>12
  <2>11. CASE play' = [play EXCEPT ![p] = y3]
    BY <2>9, <2>11, <2>12
  <2> QED
    BY <2>3, <2>10, <2>11
<1>8. ASSUME NEW k \in Kinds, Find(p, k)
      PROVE  Bound'
  <2> DEFINE x == [x1(k) EXCEPT !.pc = @ + 1]
  <2>1. \/ Skips(p, 3) \/ Fails(p)
        \/ /\ held[k] \in {0, object[p][k].uid}
           /\ play' = [play EXCEPT ![p].uid[k] = object[p][k].uid, ![p].pc = @ + 1]
    BY <1>8 DEF Find
  <2>2. play[p].pc \in {8, 11}
    BY <1>1, <1>8, AtPlace DEF Find, Kinds
  <2>3. CASE Skips(p, 3) \/ Fails(p)
    BY <1>3, <2>3, SkipsMoves, FailsMoves, BoundKept
  <2>4. CASE /\ held[k] \in {0, object[p][k].uid}
             /\ play' = [play EXCEPT ![p].uid[k] = object[p][k].uid, ![p].pc = @ + 1]
    <3>1. play' = [play EXCEPT ![p] = x]
      BY <2>4
    <3> HIDE DEF x1
    <3>2. /\ x.outcome = "running" /\ x.pc = play[p].pc + 1
          /\ x.uid = [held EXCEPT ![k] = object[p][k].uid]
      BY <1>1, <1>4 DEF PlayType
    <3> HIDE DEF x
    <3>3. x.pc > 5 /\ x.pc > 7 /\ play[p].pc <= x.pc
      BY <2>2, <3>2
    <3> QED
      BY <1>5, <2>4, <3>1, <3>2, <3>3
  <2> QED
    BY <2>1, <2>3, <2>4
<1> QED
  BY <1>6, <1>7, <1>8

LEMMA StartBound ==
  ASSUME TypeOK, Bound, NEW p \in Plays, StartPlay(p)
  PROVE  Bound'
<1> SUFFICES ASSUME NEW q \in Plays, NEW k \in Kinds
             PROVE  BoundOf(q, k)'
  BY DEF Bound
<1>1. object' = object /\ play[p].outcome = "none" /\ play[p] \in PlayType
  BY DEF StartPlay, TypeOK
<1>2. BoundOf(q, k)
  BY DEF Bound
<1>3. CASE q # p
  <2>1. play'[q] = play[q]
    BY <1>3 DEF StartPlay, TypeOK
  <2> QED
    BY <1>1, <1>2, <2>1 DEF BoundOf
<1>4. CASE q = p
  <2> DEFINE x == [play[p] EXCEPT !.outcome = "running", !.token = TRUE, !.began = secret]
  <2>1. x.uid = play[p].uid /\ x.outcome = "running"
    BY <1>1 DEF PlayType
  <2>2. play'[p] = x
    BY DEF StartPlay, TypeOK
  <2> HIDE DEF x
  <2> QED
    BY <1>1, <1>2, <1>4, <2>1, <2>2 DEF BoundOf
<1> QED
  BY <1>3, <1>4

(* What the API server does to an object that is not replaced.             *)
LEMMA OlderObjects ==
  ASSUME TypeOK, NEW p \in Plays, NEW k \in Kinds, NEW o,
         \/ object' = object
         \/ /\ object' = [object EXCEPT ![p][k] = o]
            /\ object[p][k].uid <= o.uid
            /\ o.foreign /\ ~o.early => object[p][k].foreign /\ ~object[p][k].early
  PROVE  Older
<1> SUFFICES ASSUME NEW q \in Plays, NEW l \in Kinds
             PROVE  /\ object[q][l].uid <= object'[q][l].uid
                    /\ object'[q][l].foreign /\ ~object'[q][l].early
                         => object[q][l].foreign /\ ~object[q][l].early
  BY DEF Older
<1>1. object[q][l].uid \in Nat
  BY UidType
<1>2. CASE object'[q][l] = object[q][l]
  BY <1>1, <1>2
<1>3. CASE object'[q][l] # object[q][l]
  <2>1. /\ object' = [object EXCEPT ![p][k] = o]
        /\ object[p][k].uid <= o.uid
        /\ o.foreign /\ ~o.early => object[p][k].foreign /\ ~object[p][k].early
    BY <1>3
  <2>2. q = p /\ l = k /\ object'[q][l] = o
    BY <1>3, <2>1 DEF TypeOK
  <2> QED
    BY <2>1, <2>2
<1> QED
  BY <1>2, <1>3

LEMMA AppearsOlder ==
  ASSUME TypeOK, NEW p \in Plays, NEW k \in Kinds, Appears(p, k)
  PROVE  Older
<1> DEFINE o == [there |-> TRUE, uid |-> object[p][k].uid + 1, labelled |-> TRUE,
                 ending |-> FALSE, foreign |-> FALSE, early |-> FALSE]
<1>1. object' = [object EXCEPT ![p][k] = o]
  BY DEF Appears
<1>2. object[p][k].uid <= o.uid /\ ~o.foreign
  BY UidType
<1> HIDE DEF o
<1> QED
  BY <1>1, <1>2, OlderObjects

LEMMA ReplaceBound ==
  ASSUME TypeOK, TypeOK', Bound, NEW p \in Plays, NEW k \in Kinds, Replace(p, k)
  PROVE  Bound'
<1> SUFFICES ASSUME NEW q \in Plays, NEW l \in Kinds
             PROVE  BoundOf(q, l)'
  BY DEF Bound
<1>1. PICK labelled \in BOOLEAN :
        object' = [object EXCEPT ![p][k] =
          [there |-> TRUE, uid |-> @.uid + 1, labelled |-> labelled, ending |-> FALSE,
           foreign |-> TRUE, early |-> play[p].uid[k] = 0]]
  BY DEF Replace
<1> DEFINE o == [there |-> TRUE, uid |-> object[p][k].uid + 1, labelled |-> labelled,
                 ending |-> FALSE, foreign |-> TRUE, early |-> play[p].uid[k] = 0]
<1>2. object' = [object EXCEPT ![p][k] = o] /\ play' = play
  BY <1>1 DEF Replace
<1>3. o.uid = object[p][k].uid + 1 /\ o.early = (play[p].uid[k] = 0)
  OBVIOUS
<1> HIDE DEF o
<1>4. BoundOf(q, l)
  BY DEF Bound
<1>5. /\ object[p][k].uid \in Nat /\ play[p].uid[k] \in Nat
  BY UidType
<1>6. CASE q = p /\ l = k
  <2>1. object'[q][l] = o
    BY <1>2, <1>6 DEF TypeOK
  <2> DEFINE mine == play[p].uid[k]
  <2>2. mine \in Nat /\ object[p][k].uid \in Nat /\ mine <= object[p][k].uid
    BY <1>4, <1>5, <1>6 DEF BoundOf
  <2>3. /\ play[p].outcome # "running" => mine = 0
        /\ k = "policy" /\ play[p].pc <= 5 => mine = 0
        /\ k = "pod" /\ play[p].pc <= 7 => mine = 0
    BY <1>4, <1>6 DEF BoundOf
  <2>4. ~o.early => mine # 0
    BY <1>3
  <2> HIDE DEF mine
  <2>5. mine <= o.uid /\ (~o.early => 0 < mine /\ mine < o.uid)
    BY <1>3, <2>2, <2>4
  <2>6. ~o.early => play[p].outcome # "none"
    BY <2>3, <2>4
  <2> QED
    BY <1>2, <1>6, <2>1, <2>3, <2>5, <2>6 DEF BoundOf, mine
<1>7. CASE ~(q = p /\ l = k)
  <2>1. object'[q][l] = object[q][l]
    BY <1>2, <1>7 DEF TypeOK
  <2> QED
    BY <1>2, <1>4, <2>1 DEF BoundOf
<1> QED
  BY <1>6, <1>7

LEMMA StepBound ==
  ASSUME TypeOK, TypeOK', Bound, Next PROVE Bound'
<1>0. ASSUME NEW p \in Plays
      PROVE  play[p] \in PlayType
  BY DEF TypeOK
<1>1. ASSUME NEW p \in Plays, PlayStep(p)
      PROVE  Bound'
  <2>1. CASE StartPlay(p)
    BY <2>1, StartBound
  <2>2. CASE BindPolicy(p) \/ Poll(p) \/ \E k \in Kinds : Find(p, k)
    BY <2>2, BindTasks
  <2>3. CASE Check(p) \/ GiveUp(p) \/ TaskFails(p) \/ HardStop(p)
             \/ \E k \in Kinds : Stale(p, k) \/ Wait(p, k) \/ Residue(p, k)
    <3>1. Closes(p) \/ GoesOn(p)
      BY <2>3, EndedCloses, FailsMoves, ContinuesMoves
         DEF Check, GiveUp, TaskFails, HardStop, Stale, Wait, Residue
    <3>2. object' = object /\ "pod" \in Kinds
      BY <2>3 DEF Check, GiveUp, TaskFails, HardStop, Stale, Wait, Residue, Kinds
    <3>3. Older
      BY <3>2, OlderObjects
    <3> QED
      BY <3>1, <3>3, BoundKept
  <2>4. CASE TokenGone(p)
    <3> DEFINE x == [play[p] EXCEPT !.token = FALSE]
    <3>1. /\ x \in PlayType /\ x.outcome = play[p].outcome /\ x.uid = play[p].uid
          /\ x.pc = play[p].pc /\ play[p].pc \in 1 .. 15
      BY <1>0 DEF PlayType
    <3>2. play' = [play EXCEPT ![p] = x] /\ object' = object /\ "pod" \in Kinds
      BY <2>4 DEF TokenGone, Kinds
    <3> HIDE DEF x
    <3>3. Older
      BY <3>2, OlderObjects
    <3>4. play[p].pc <= x.pc
      BY <3>1
    <3>5. GoesOn(p)
      BY <3>1, <3>2, <3>4 DEF GoesOn
    <3> QED
      BY <3>3, <3>5, BoundKept
  <2>5. ASSUME NEW k \in Kinds, Create(p, k)
        PROVE  Bound'
    <3>1. Closes(p) \/ GoesOn(p)
      BY <2>5, FailsMoves, ContinuesMoves DEF Create
    <3>2. Older
      BY <2>5, AppearsOlder, OlderObjects DEF Create
    <3> QED
      BY <3>1, <3>2, BoundKept
  <2>6. ASSUME NEW k \in Kinds, Delete(p, k)
        PROVE  Bound'
    <3> DEFINE o == [object[p][k] EXCEPT !.ending = TRUE]
    <3>1. Closes(p) \/ GoesOn(p)
      BY <2>6, FailsMoves, ContinuesMoves DEF Delete
    <3>2. object' = object \/ object' = [object EXCEPT ![p][k] = o]
      <4>1. object' = object \/ object' = [object EXCEPT ![p][k].ending = TRUE]
        BY <2>6 DEF Delete
      <4> QED
        BY <4>1
    <3>3. object[p][k] \in ObjectType
      BY DEF TypeOK
    <3>4. o.uid = object[p][k].uid /\ o.foreign = object[p][k].foreign
          /\ o.early = object[p][k].early /\ object[p][k].uid \in Nat
      BY <3>3 DEF ObjectType
    <3> HIDE DEF o
    <3>5. object[p][k].uid <= o.uid
      BY <3>4
    <3>6. Older
      BY <3>2, <3>4, <3>5, OlderObjects
    <3> QED
      BY <3>1, <3>6, BoundKept
  <2> QED
    BY <1>1, <2>1, <2>2, <2>3, <2>4, <2>5, <2>6 DEF PlayStep
<1>2. ASSUME NEW p \in Plays, HelperStep(p)
      PROVE  play' = play /\ object' = object
  BY <1>2 DEF HelperStep, Survey, Look, Principal, CreateDatabase, Connect, Schema, Verify,
     Login, HelperFails, Outside
<1>3. ASSUME NEW p \in Plays, NEW k \in Kinds,
             Land(p, k) \/ Gone(p, k) \/ Remove(p, k) \/ Relabel(p, k)
      PROVE  Older /\ play' = play
  <2>1. object[p][k] \in ObjectType
    BY DEF TypeOK
  <2>2. CASE Land(p, k)
    BY <2>2, AppearsOlder DEF Land
  <2>3. CASE Gone(p, k) \/ Remove(p, k)
    <3> DEFINE o == [NoObject EXCEPT !.uid = object[p][k].uid]
    <3>1. object' = [object EXCEPT ![p][k] = o] /\ play' = play
      BY <2>3 DEF Gone, Remove
    <3>2. o.uid = object[p][k].uid /\ ~o.foreign /\ object[p][k].uid \in Nat
      BY <2>1 DEF ObjectType, NoObject
    <3> HIDE DEF o
    <3>3. object[p][k].uid <= o.uid
      BY <3>2
    <3> QED
      BY <3>1, <3>2, <3>3, OlderObjects
  <2>4. CASE Relabel(p, k)
    <3> DEFINE o == [object[p][k] EXCEPT !.labelled = FALSE]
    <3>1. object' = [object EXCEPT ![p][k] = o] /\ play' = play
      <4>1. object' = [object EXCEPT ![p][k].labelled = FALSE] /\ play' = play
        BY <2>4 DEF Relabel
      <4> QED
        BY <4>1
    <3>2. o.uid = object[p][k].uid /\ o.foreign = object[p][k].foreign
          /\ o.early = object[p][k].early /\ object[p][k].uid \in Nat
      BY <2>1 DEF ObjectType
    <3> HIDE DEF o
    <3>3. object[p][k].uid <= o.uid
      BY <3>2
    <3> QED
      BY <3>1, <3>2, <3>3, OlderObjects
  <2> QED
    BY <1>3, <2>2, <2>3, <2>4
<1>4. ASSUME NEW s \in Scopes, NewSecret(s) \/ Use(s)
      PROVE  play' = play /\ object' = object
  BY <1>4 DEF NewSecret, Use
<1>5. ASSUME play' = play, Older
      PROVE  Bound'
  <2>1. 1 \in Plays
    BY ProvisioningAssumption DEF Plays
  <2> QED
    BY <1>5, <2>1, BoundKept
<1>6. ASSUME play' = play, object' = object
      PROVE  Bound'
  BY <1>6 DEF Bound, BoundOf
<1> QED
  BY <1>1, <1>2, <1>3, <1>4, <1>5, <1>6, ReplaceBound DEF Next, Others

(* Only a play's own deletion makes an object end.                         *)
LEMMA OnlyDelete ==
  ASSUME TypeOK, Next, NEW p \in Plays, NEW k \in Kinds,
         object'[p][k].ending, ~object[p][k].ending
  PROVE  Delete(p, k) /\ Hits(p, k)
<1>1. ASSUME NEW q \in Plays, NEW l \in Kinds, NEW o, ~o.ending,
             object' = [object EXCEPT ![q][l] = o]
      PROVE  FALSE
  BY <1>1 DEF TypeOK
<1>2. object' # object
  OBVIOUS
<1>3. ASSUME NEW q \in Plays, NEW l \in Kinds, Appears(q, l)
      PROVE  FALSE
  <2> DEFINE o == [there |-> TRUE, uid |-> object[q][l].uid + 1, labelled |-> TRUE,
                   ending |-> FALSE, foreign |-> FALSE, early |-> FALSE]
  <2>1. object' = [object EXCEPT ![q][l] = o] /\ ~o.ending
    BY <1>3 DEF Appears
  <2> HIDE DEF o
  <2> QED
    BY <1>1, <2>1
<1>4. ASSUME NEW q \in Plays, PlayStep(q)
      PROVE  \E l \in Kinds : Delete(q, l)
  BY <1>2, <1>3, <1>4 DEF PlayStep, StartPlay, Check, BindPolicy, Poll, GiveUp, TaskFails,
     HardStop, TokenGone, Stale, Find, Wait, Residue, Create
<1>5. ASSUME NEW q \in Plays, HelperStep(q)
      PROVE  FALSE
  BY <1>2, <1>5 DEF HelperStep, Survey, Look, Principal, CreateDatabase, Connect, Schema,
     Verify, Login, HelperFails, Outside
<1>6. ASSUME NEW q \in Plays, NEW l \in Kinds, Gone(q, l) \/ Remove(q, l)
      PROVE  FALSE
  <2> DEFINE o == [NoObject EXCEPT !.uid = object[q][l].uid]
  <2>1. object' = [object EXCEPT ![q][l] = o] /\ ~o.ending
    BY <1>6 DEF Gone, Remove, NoObject
  <2> HIDE DEF o
  <2> QED
    BY <1>1, <2>1
<1>7. ASSUME NEW q \in Plays, NEW l \in Kinds, Replace(q, l)
      PROVE  FALSE
  <2>1. PICK labelled \in BOOLEAN :
          object' = [object EXCEPT ![q][l] =
            [there |-> TRUE, uid |-> @.uid + 1, labelled |-> labelled, ending |-> FALSE,
             foreign |-> TRUE, early |-> play[q].uid[l] = 0]]
    BY <1>7 DEF Replace
  <2> DEFINE o == [there |-> TRUE, uid |-> object[q][l].uid + 1, labelled |-> labelled,
                   ending |-> FALSE, foreign |-> TRUE, early |-> play[q].uid[l] = 0]
  <2>2. object' = [object EXCEPT ![q][l] = o] /\ ~o.ending
    BY <2>1
  <2> HIDE DEF o
  <2> QED
    BY <1>1, <2>2
<1>8. ASSUME NEW q \in Plays, NEW l \in Kinds, Relabel(q, l)
      PROVE  FALSE
  <2> DEFINE o == [object[q][l] EXCEPT !.labelled = FALSE]
  <2>1. object' = [object EXCEPT ![q][l] = o]
    <3>1. object' = [object EXCEPT ![q][l].labelled = FALSE]
      BY <1>8 DEF Relabel
    <3> QED
      BY <3>1
  <2>2. o.ending = object[q][l].ending
    <3>1. object[q][l] \in ObjectType
      BY DEF TypeOK
    <3> QED
      BY <3>1 DEF ObjectType
  <2> HIDE DEF o
  <2> QED
    BY <2>1, <2>2 DEF TypeOK
<1>9. ASSUME NEW s \in Scopes, NewSecret(s) \/ Use(s)
      PROVE  FALSE
  BY <1>2, <1>9 DEF NewSecret, Use
<1>10. PICK q \in Plays, l \in Kinds : Delete(q, l)
  BY <1>3, <1>4, <1>5, <1>6, <1>7, <1>8, <1>9 DEF Next, Others, Land
<1>11. Hits(q, l) /\ object' = [object EXCEPT ![q][l].ending = TRUE]
  BY <1>2, <1>10 DEF Delete
<1>12. q = p /\ l = k
  BY <1>11 DEF TypeOK
<1> QED
  BY <1>10, <1>11, <1>12

(* A replacement of an object whose UID was bound is never deleted.        *)
THEOREM ReplacementKeptHolds == Spec => ReplacementKept
<1>1. TypeOK /\ TypeOK' /\ Bound /\ [Next]_vars => Bound'
  BY StepBound DEF vars, Bound, BoundOf
<1>2. TypeOK /\ Bound /\ [Next]_vars =>
        [\A p \in Plays, k \in Kinds :
           object'[p][k].ending /\ ~object[p][k].ending
              => ~object[p][k].foreign \/ object[p][k].early]_vars
  <2> SUFFICES ASSUME TypeOK, Bound, Next, NEW p \in Plays, NEW k \in Kinds,
                      object'[p][k].ending, ~object[p][k].ending
               PROVE  ~object[p][k].foreign \/ object[p][k].early
    OBVIOUS
  <2>1. Delete(p, k) /\ Hits(p, k)
    BY OnlyDelete
  <2>2. play[p].outcome = "running" /\ object[p][k].uid = play[p].uid[k]
    BY <2>1 DEF Delete, At, Running, Hits
  <2>3. object[p][k].uid \in Nat /\ BoundOf(p, k)
    BY UidType DEF Bound
  <2> QED
    BY <2>2, <2>3 DEF BoundOf
<1> QED
  BY <1>1, <1>2, InitBound, TypeCorrect, PTL DEF Spec, ReplacementKept
=============================================================================
