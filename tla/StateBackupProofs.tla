--------------------------- MODULE StateBackupProofs ---------------------------
(* Proofs about StateBackup, for any set of backups, any number of state   *)
(* versions, any clock, retention, stops and faults.                       *)
EXTENDS StateBackup, WellFoundedInduction, TLAPS

---------------------------------------------------------------------------
(* The newest element of a set of timestamps or versions.                  *)

LEMMA HasLeast ==
    ASSUME NEW T, T \subseteq Nat, T # {}
    PROVE  \E x \in T : \A y \in T : x <= y
<1>1. \E x \in T : \A y \in T : ~ (<<y, x>> \in OpToRel(<, Nat))
  BY NatLessThanWellFounded, WFMin, Zenon
<1>2. PICK x \in T : \A y \in T : ~ (<<y, x>> \in OpToRel(<, Nat))
  BY <1>1
<1>3. \A a, b \in Nat : a < b => <<a, b>> \in OpToRel(<, Nat)
  BY DEF OpToRel
<1>4. \A y \in T : x <= y
  <2> TAKE y \in T
  <2>1. x \in Nat /\ y \in Nat /\ ~ (y < x)
    BY <1>2, <1>3, Zenon
  <2> QED
    BY <2>1
<1> QED
  BY <1>4

LEMMA HasNewest ==
    ASSUME NEW n \in Nat, NEW S, S \subseteq 0..n, S # {}
    PROVE  \E s \in S : \A t \in S : t <= s
<1> DEFINE T == {n - s : s \in S}
<1>1. T \subseteq Nat
  <2> SUFFICES ASSUME NEW s \in S PROVE n - s \in Nat
    OBVIOUS
  <2>1. s \in 0..n
    OBVIOUS
  <2> QED
    BY <2>1
<1>2. T # {}
  <2>1. PICK s \in S : TRUE
    OBVIOUS
  <2>2. n - s \in T
    BY <2>1
  <2> QED
    BY <2>2
<1> HIDE DEF T
<1>3. PICK x \in T : \A y \in T : x <= y
  BY <1>1, <1>2, HasLeast
<1>4. PICK s \in S : x = n - s
  BY DEF T
<1>5. ASSUME NEW t \in S PROVE t <= s
  <2>1. n - t \in T
    BY DEF T
  <2>2. n - s <= n - t
    BY <1>3, <1>4, <2>1
  <2>3. s \in 0..n /\ t \in 0..n
    OBVIOUS
  <2> QED
    BY <2>2, <2>3
<1> QED
  BY <1>5

LEMMA NewestIsMax ==
    ASSUME NEW n \in Nat, NEW S, S \subseteq 0..n, S # {}
    PROVE  Newest(S) \in S /\ \A t \in S : t <= Newest(S)
  BY HasNewest DEF Newest

---------------------------------------------------------------------------
(* The inductive invariant.  A backup that holds a snapshot holds the lock,*)
(* and its snapshot is at least as recent as everything in the catalog;    *)
(* once it has its timestamp, nothing in the catalog is newer.             *)

JobRecord == [stage : Stages, before : Content, snapshot : Content, stamp : 0..MaxClock]

Stamped == Leaves \cup {"readback", "finish"}
Checked == Stamped \cup {"make"}
Copied == Checked \cup {"copying", "after", "scope"}
Waiting == {"idle", "lock"}

(* What a backup at the state w may rely on.                               *)
JobOK(w) ==
    /\ w.stage \in Copied =>
           /\ w.snapshot.version <= file.version
           /\ \A s \in Stamps, l \in Leaves : remote[s][l].version <= w.snapshot.version
    /\ w.stage \in Checked => InScope(w.snapshot)
    /\ w.stage \in Stamped =>
           /\ w.stamp \in Stamps /\ w.stamp <= clock
           /\ \A s \in Stamps, l \in Leaves : w.stamp < s => remote[s][l] = None
    /\ w.stage = "finish" => \A l \in Leaves : remote[w.stamp][l] = w.snapshot

JobsOK ==
    \A j \in Jobs : JobOK(job[j]) /\ (job[j].stage \notin Waiting => lock = j)

CatalogOK ==
    /\ \A s \in Stamps, l \in Leaves :
           /\ remote[s][l].version <= file.version
           /\ remote[s][l] # None => InScope(remote[s][l]) /\ s <= clock
    /\ \A s, t \in Stamps, l, m \in Leaves :
           s < t /\ remote[t][m] # None => remote[s][l].version <= remote[t][m].version

ReportedOK ==
    \A r \in reported : Complete(r.stamp) /\ remote[r.stamp]["archive"].version = r.version

IInv == TypeOK /\ JobsOK /\ CatalogOK /\ ReportedOK

(* Where a rehearsal stands, as long as all its reads are answered.        *)
Underway ==
    /\ rehearsal.stage \in {"consider", "fetch", "success"} =>
           IF rehearsal.newest = 0
             THEN rehearsal.promised = 0
             ELSE /\ Complete(rehearsal.newest)
                  /\ rehearsal.promised <= remote[rehearsal.newest]["archive"].version
    /\ rehearsal.stage = "consider" /\ rehearsal.newest # 0 =>
           rehearsal.newest \in rehearsal.candidates
    /\ rehearsal.stage \in {"fetch", "success"} => rehearsal.newest <= rehearsal.chosen
    /\ rehearsal.stage = "failed" => rehearsal.newest = 0

Chosen ==
    rehearsal.stage \in {"fetch", "success"} =>
        rehearsal.chosen \in Stamps /\ Complete(rehearsal.chosen)

RehearsalOK == Chosen /\ (~rehearsal.faulted => Underway)

---------------------------------------------------------------------------
(* Steps of a backup.                                                      *)

LEMMA NoneIsContent ==
    /\ None \in Content /\ None.version = 0
    /\ \A c : InScope(c) => c # None
  BY BackupAssumption DEF BackupAssumption, None, Content, InScope

LEMMA IdleIsFine == Idle \in JobRecord /\ JobOK(Idle) /\ Idle.stage = "idle"
  BY NoneIsContent, BackupAssumption
  DEF BackupAssumption, Idle, JobRecord, Stages, JobOK, Copied, Checked, Stamped, Leaves

LEMMA InitInv == ASSUME Init PROVE IInv /\ RehearsalOK
<1>1. TypeOK
  BY NoneIsContent, IdleIsFine, BackupAssumption
  DEF BackupAssumption, Init, TypeOK, Content, Stamps, NoRehearsal, JobRecord
<1>2. JobsOK
  BY IdleIsFine DEF Init, JobsOK, Waiting
<1>3. CatalogOK
  BY NoneIsContent DEF Init, CatalogOK
<1>4. ReportedOK /\ RehearsalOK
  BY DEF Init, ReportedOK, RehearsalOK, Chosen, Underway, NoRehearsal
<1>5. QED
  BY <1>1, <1>2, <1>3, <1>4 DEF IInv

(* One backup goes on, the catalog stays as it is.                         *)
LEMMA JobMoves ==
    ASSUME IInv, NEW j \in Jobs, NEW w \in JobRecord, JobOK(w),
           job' = [job EXCEPT ![j] = w],
           lock' = lock, w.stage \notin Waiting => lock = j,
           local' \in SUBSET Stamps,
           UNCHANGED <<file, clock, remote, reported, rehearsal, spent>>
    PROVE  IInv'
<1>1. TypeOK'
  BY DEF IInv, TypeOK, JobRecord
<1>2. JobsOK'
  <2> SUFFICES ASSUME NEW i \in Jobs
               PROVE  JobOK(job[i])' /\ (job'[i].stage \notin Waiting => lock' = i)
    BY DEF JobsOK
  <2>1. job'[i] = IF i = j THEN w ELSE job[i]
    BY DEF IInv, TypeOK
  <2>2. JobOK(job'[i]) /\ (job'[i].stage \notin Waiting => lock = i)
    BY <2>1 DEF IInv, JobsOK
  <2> QED
    BY <2>2 DEF JobOK
<1>3. CatalogOK' /\ ReportedOK'
  BY DEF IInv, CatalogOK, ReportedOK, Complete, Present
<1> QED
  BY <1>1, <1>2, <1>3 DEF IInv

(* A backup ends.                                                          *)
LEMMA ExitKeepsJobs ==
    ASSUME IInv, NEW j \in Jobs, Exit(j)
    PROVE  /\ job' \in [Jobs -> JobRecord] /\ lock' \in Jobs \cup {"free"}
           /\ \A i \in Jobs : job'[i].stage \notin Waiting =>
                  lock' = i /\ lock = i /\ i # j /\ job'[i] = job[i]
<1>1. job \in [Jobs -> JobRecord] /\ lock \in Jobs \cup {"free"}
  BY DEF IInv, TypeOK, JobRecord
<1>2. job' = [job EXCEPT ![j] = Idle]
  BY DEF Exit
<1>3. ASSUME NEW i \in Jobs, job'[i].stage \notin Waiting
      PROVE  lock' = i /\ lock = i /\ i # j /\ job'[i] = job[i]
  <2>1. i # j /\ job'[i] = job[i]
    BY <1>1, <1>2, <1>3, IdleIsFine DEF Waiting
  <2>2. lock = i
    BY <1>3, <2>1 DEF IInv, JobsOK
  <2> QED
    BY <2>1, <2>2 DEF Exit
<1> QED
  BY <1>1, <1>2, <1>3, IdleIsFine DEF Exit

LEMMA ExitInv ==
    ASSUME IInv, NEW j \in Jobs, Exit(j),
           local' \in SUBSET Stamps,
           spent' \in [crash : 0..MaxCrash, fault : 0..MaxFault],
           UNCHANGED <<file, clock, remote, reported, rehearsal>>
    PROVE  IInv'
<1>1. TypeOK'
  BY ExitKeepsJobs DEF IInv, TypeOK, JobRecord
<1>2. JobsOK'
  <2> SUFFICES ASSUME NEW i \in Jobs
               PROVE  JobOK(job[i])' /\ (job'[i].stage \notin Waiting => lock' = i)
    BY DEF JobsOK
  <2>1. job'[i] = IF i = j THEN Idle ELSE job[i]
    BY DEF Exit, IInv, TypeOK
  <2>2. JobOK(job'[i])
    BY <2>1, IdleIsFine DEF IInv, JobsOK
  <2> QED
    BY <2>2, ExitKeepsJobs DEF JobOK
<1>3. CatalogOK' /\ ReportedOK'
  BY DEF IInv, CatalogOK, ReportedOK, Complete, Present
<1> QED
  BY <1>1, <1>2, <1>3 DEF IInv

(* The steps up to the timestamp.                                          *)

LEMMA StartInv == ASSUME IInv, NEW j \in Jobs, Start(j) PROVE IInv'
<1> DEFINE w == [job[j] EXCEPT !.stage = "lock"]
<1>1. job[j] \in JobRecord /\ job' = [job EXCEPT ![j] = w]
  BY DEF IInv, TypeOK, JobRecord, Start, Goto
<1>2. w \in JobRecord /\ JobOK(w) /\ w.stage \in Waiting
  BY <1>1 DEF JobRecord, Stages, JobOK, Copied, Checked, Stamped, Leaves, Waiting
<1> QED
  BY <1>1, <1>2, JobMoves DEF Start, IInv, TypeOK

LEMMA TakeLockInv == ASSUME IInv, NEW j \in Jobs, TakeLock(j) PROVE IInv'
<1>1. CASE lock = "free"
  <2> DEFINE w == [job[j] EXCEPT !.stage = "before"]
  <2>1. job \in [Jobs -> JobRecord] /\ job' = [job EXCEPT ![j] = w] /\ lock' = j
    BY <1>1 DEF IInv, TypeOK, JobRecord, TakeLock, Goto
  <2>2. w \in JobRecord /\ JobOK(w)
    BY <2>1 DEF JobRecord, Stages, JobOK, Copied, Checked, Stamped, Leaves
  <2>3. \A i \in Jobs : job[i].stage \in Waiting
    BY <1>1, BackupAssumption DEF BackupAssumption, IInv, JobsOK
  <2>4. TypeOK'
    BY <2>1, <2>2 DEF IInv, TypeOK, TakeLock, JobRecord
  <2>5. JobsOK'
    <3> SUFFICES ASSUME NEW i \in Jobs
                 PROVE  JobOK(job[i])' /\ (job'[i].stage \notin Waiting => lock' = i)
      BY DEF JobsOK
    <3>1. job'[i] = IF i = j THEN w ELSE job[i]
      BY <2>1
    <3>2. JobOK(job'[i])
      BY <2>2, <3>1 DEF IInv, JobsOK
    <3> QED
      BY <2>1, <2>3, <3>1, <3>2 DEF JobOK, TakeLock
  <2>6. CatalogOK' /\ ReportedOK'
    BY DEF IInv, CatalogOK, ReportedOK, Complete, Present, TakeLock
  <2> QED
    BY <2>4, <2>5, <2>6 DEF IInv
<1>2. CASE lock # "free"
  BY <1>2, ExitInv DEF TakeLock, IInv, TypeOK
<1> QED
  BY <1>1, <1>2

LEMMA HashBeforeInv == ASSUME IInv, NEW j \in Jobs, HashBefore(j) PROVE IInv'
<1> DEFINE w == [job[j] EXCEPT !.before = file, !.stage = "copy"]
<1>1. job[j] \in JobRecord /\ job[j].stage = "before" /\ lock = j
  BY DEF IInv, TypeOK, JobRecord, JobsOK, HashBefore, At, Waiting
<1>2. job' = [job EXCEPT ![j] = w]
  BY DEF IInv, TypeOK, HashBefore
<1>3. w \in JobRecord /\ JobOK(w)
  BY <1>1 DEF IInv, TypeOK, JobRecord, Stages, JobOK, Copied, Checked, Stamped, Leaves
<1> QED
  BY <1>1, <1>2, <1>3, JobMoves DEF HashBefore, IInv, TypeOK

LEMMA CopyFirstHalfInv == ASSUME IInv, NEW j \in Jobs, CopyFirstHalf(j) PROVE IInv'
<1> DEFINE w == [job[j] EXCEPT !.snapshot = file, !.stage = "copying"]
<1>1. job[j] \in JobRecord /\ job[j].stage = "copy" /\ lock = j
  BY DEF IInv, TypeOK, JobRecord, JobsOK, CopyFirstHalf, At, Waiting
<1>2. job' = [job EXCEPT ![j] = w]
  BY DEF IInv, TypeOK, CopyFirstHalf
<1>3. w \in JobRecord
  BY <1>1 DEF IInv, TypeOK, JobRecord, Stages
<1>4. w.stage = "copying" /\ w.snapshot = file /\ file.version <= file.version
  BY <1>1 DEF JobRecord, IInv, TypeOK, Content
<1>5. JobOK(w)
  BY <1>4 DEF IInv, CatalogOK, JobOK, Checked, Stamped, Leaves
<1> QED
  BY <1>1, <1>2, <1>3, <1>5, JobMoves DEF CopyFirstHalf, IInv, TypeOK, Waiting

LEMMA CopySecondHalfInv == ASSUME IInv, NEW j \in Jobs, CopySecondHalf(j) PROVE IInv'
<1> DEFINE c == IF file = job[j].snapshot THEN job[j].snapshot
                ELSE [job[j].snapshot EXCEPT !.whole = FALSE]
           w == [job[j] EXCEPT !.snapshot = c, !.stage = "after"]
<1>1. job[j] \in JobRecord /\ job[j].stage = "copying" /\ lock = j /\ JobOK(job[j])
  BY DEF IInv, TypeOK, JobRecord, JobsOK, CopySecondHalf, At, Waiting
<1>2. job' = [job EXCEPT ![j] = w]
  BY DEF IInv, TypeOK, JobRecord, CopySecondHalf
<1>3. c \in Content /\ c.version = job[j].snapshot.version
  BY <1>1 DEF JobRecord, Content
<1> HIDE DEF c
<1>4. w \in JobRecord /\ w.stage = "after" /\ w.snapshot = c
  BY <1>1, <1>3 DEF JobRecord, Stages
<1>5. JobOK(w)
  BY <1>1, <1>3, <1>4 DEF JobOK, Copied, Checked, Stamped, Leaves
<1> QED
  BY <1>1, <1>2, <1>4, <1>5, JobMoves DEF CopySecondHalf, IInv, TypeOK

(* A snapshot that passes a check is only carried on.                      *)
LEMMA CarriedOn ==
    ASSUME IInv, NEW j \in Jobs, NEW stage \in {"scope", "make"},
           job[j].stage \in {"after", "scope"},
           stage = "make" => InScope(job[j].snapshot),
           Goto(j, stage),
           UNCHANGED <<file, lock, clock, local, remote, reported, rehearsal, spent>>
    PROVE  IInv'
<1> DEFINE w == [job[j] EXCEPT !.stage = stage]
<1>1. job[j] \in JobRecord /\ lock = j /\ JobOK(job[j])
  BY DEF IInv, TypeOK, JobRecord, JobsOK, Waiting
<1>2. job' = [job EXCEPT ![j] = w]
  BY DEF Goto
<1>3. w \in JobRecord /\ w.stage = stage /\ w.snapshot = job[j].snapshot
  BY <1>1 DEF JobRecord, Stages
<1>4. JobOK(w)
  BY <1>1, <1>3 DEF JobOK, Copied, Checked, Stamped, Leaves
<1> QED
  BY <1>1, <1>2, <1>3, <1>4, JobMoves DEF IInv, TypeOK

LEMMA HashAfterInv == ASSUME IInv, NEW j \in Jobs, HashAfter(j) PROVE IInv'
<1>1. CASE Exit(j)
  BY <1>1, ExitInv DEF HashAfter, IInv, TypeOK
<1>2. CASE Goto(j, "scope") /\ UNCHANGED lock
  BY <1>2, CarriedOn DEF HashAfter, At
<1> QED
  BY <1>1, <1>2 DEF HashAfter

LEMMA CheckScopeInv == ASSUME IInv, NEW j \in Jobs, CheckScope(j) PROVE IInv'
<1>1. CASE Exit(j)
  BY <1>1, ExitInv DEF CheckScope, IInv, TypeOK
<1>2. CASE InScope(job[j].snapshot) /\ Goto(j, "make") /\ UNCHANGED lock
  BY <1>2, CarriedOn DEF CheckScope, At
<1> QED
  BY <1>1, <1>2 DEF CheckScope

(* The timestamp is read after the snapshot, so nothing has a later one.   *)
LEMMA MakeRunInv == ASSUME IInv, NEW j \in Jobs, MakeRun(j) PROVE IInv'
<1>1. CASE Exit(j) /\ UNCHANGED local
  BY <1>1, ExitInv DEF MakeRun, IInv, TypeOK
<1>2. CASE local' = local \cup {clock} /\ UNCHANGED lock
           /\ job' = [job EXCEPT ![j].stamp = clock, ![j].stage = "archive"]
  <2> DEFINE w == [job[j] EXCEPT !.stamp = clock, !.stage = "archive"]
  <2>1. job[j] \in JobRecord /\ job[j].stage = "make" /\ lock = j /\ JobOK(job[j])
    BY DEF IInv, TypeOK, JobRecord, JobsOK, MakeRun, At, Waiting
  <2>2. job' = [job EXCEPT ![j] = w]
    BY <1>2 DEF IInv, TypeOK
  <2>3. clock \in 0..MaxClock /\ clock \in Stamps /\ clock <= clock
    BY BackupAssumption DEF BackupAssumption, IInv, TypeOK, Stamps
  <2>4. /\ w \in JobRecord /\ w.stage = "archive"
        /\ w.snapshot = job[j].snapshot /\ w.stamp = clock
    BY <2>1, <2>3 DEF JobRecord, Stages, Leaves
  <2>5. \A s \in Stamps, l \in Leaves : clock < s => remote[s][l] = None
    BY <2>3 DEF IInv, CatalogOK, Stamps
  <2>6. JobOK(w)
    BY <2>1, <2>3, <2>4, <2>5 DEF JobOK, Copied, Checked, Stamped, Leaves
  <2>7. local' \in SUBSET Stamps
    BY <1>2, <2>3 DEF IInv, TypeOK
  <2> QED
    BY <1>2, <2>1, <2>2, <2>4, <2>6, <2>7, JobMoves DEF MakeRun
<1> QED
  BY <1>1, <1>2 DEF MakeRun

---------------------------------------------------------------------------
(* Uploads.                                                                *)

(* What an upload leaves on the remote.                                    *)
LEMMA UploadEffect ==
    ASSUME IInv, NEW j \in Jobs, NEW leaf \in Leaves, At(j, leaf),
           Accepts(j, leaf), Uploads(j, leaf)
    PROVE  /\ job[j] \in JobRecord /\ JobOK(job[j]) /\ lock = j
           /\ job[j].stamp \in Stamps /\ InScope(job[j].snapshot)
           /\ remote' \in [Stamps -> [Leaves -> Content]]
           /\ \A s \in Stamps, l \in Leaves :
                  remote'[s][l] = IF s = job[j].stamp /\ l = leaf
                                    THEN job[j].snapshot ELSE remote[s][l]
           /\ \A s \in Stamps, l \in Leaves :
                  remote[s][l] # None => remote'[s][l] = remote[s][l]
<1>1. job[j] \in JobRecord /\ JobOK(job[j]) /\ lock = j
  BY DEF IInv, TypeOK, JobRecord, JobsOK, At, Waiting, Leaves
<1>2. job[j].stamp \in Stamps /\ InScope(job[j].snapshot)
  BY <1>1 DEF JobOK, Checked, Stamped, At
<1>3. remote \in [Stamps -> [Leaves -> Content]] /\ job[j].snapshot \in Content
  BY <1>1 DEF IInv, TypeOK, JobRecord
<1>4. remote' = [remote EXCEPT ![job[j].stamp] =
                    [remote[job[j].stamp] EXCEPT ![leaf] = job[j].snapshot]]
  BY <1>3 DEF Uploads
<1>5. remote' \in [Stamps -> [Leaves -> Content]]
  BY <1>2, <1>3, <1>4
<1>6. \A s \in Stamps, l \in Leaves :
          remote'[s][l] = IF s = job[j].stamp /\ l = leaf
                            THEN job[j].snapshot ELSE remote[s][l]
  BY <1>2, <1>3, <1>4
<1>7. \A s \in Stamps, l \in Leaves :
          remote[s][l] # None => remote'[s][l] = remote[s][l]
  BY <1>6 DEF Accepts
<1> QED
  BY <1>1, <1>2, <1>5, <1>6, <1>7

(* A complete run stays as it is.                                          *)
LEMMA StaysComplete ==
    ASSUME NEW t \in Stamps, Complete(t),
           \A s \in Stamps, l \in Leaves :
               remote[s][l] # None => remote'[s][l] = remote[s][l]
    PROVE  Complete(t)' /\ remote'[t]["archive"] = remote[t]["archive"]
<1>1. \A l \in Leaves : remote[t][l] # None
  BY DEF Complete, Present
<1>2. \A l \in Leaves : remote'[t][l] = remote[t][l]
  BY <1>1
<1>3. "archive" \in Leaves
  BY DEF Leaves
<1> QED
  BY <1>1, <1>2, <1>3 DEF Complete, Present

LEMMA UploadKeepsCatalog ==
    ASSUME IInv, NEW j \in Jobs, NEW leaf \in Leaves, At(j, leaf),
           Accepts(j, leaf), Uploads(j, leaf), UNCHANGED <<file, clock, reported>>
    PROVE  CatalogOK' /\ ReportedOK'
<1> DEFINE c == job[j].stamp
           v == job[j].snapshot
<1>1. /\ c \in Stamps /\ InScope(v) /\ v \in Content
      /\ \A s \in Stamps, l \in Leaves :
             remote'[s][l] = IF s = c /\ l = leaf THEN v ELSE remote[s][l]
  BY UploadEffect DEF JobRecord
<1>2. /\ v.version <= file.version /\ c <= clock
      /\ \A s \in Stamps, l \in Leaves : remote[s][l].version <= v.version
      /\ \A s \in Stamps, l \in Leaves : c < s => remote[s][l] = None
  BY UploadEffect DEF JobOK, Copied, Checked, Stamped, At
<1>3. remote \in [Stamps -> [Leaves -> Content]] /\ v.version <= v.version
  BY <1>1 DEF IInv, TypeOK, Content
<1> HIDE DEF c, v
<1>4. ASSUME NEW s \in Stamps, NEW l \in Leaves
      PROVE  /\ remote'[s][l].version <= file.version
             /\ remote'[s][l] # None => InScope(remote'[s][l]) /\ s <= clock
  BY <1>1, <1>2 DEF IInv, CatalogOK
<1>5. ASSUME NEW s \in Stamps, NEW t \in Stamps, NEW l \in Leaves, NEW m \in Leaves,
             s < t, remote'[t][m] # None
      PROVE  remote'[s][l].version <= remote'[t][m].version
  <2>1. CASE t = c
    <3>1. s # c /\ remote'[s][l] = remote[s][l]
      BY <1>1, <1>5, <2>1 DEF Stamps
    <3>2. CASE m = leaf
      BY <1>1, <1>2, <2>1, <3>1, <3>2
    <3>3. CASE m # leaf
      BY <1>1, <1>5, <3>1, <3>3 DEF IInv, CatalogOK
    <3> QED
      BY <3>2, <3>3
  <2>2. CASE t # c
    <3>1. remote'[t][m] = remote[t][m] /\ remote[t][m] # None
      BY <1>1, <1>5, <2>2
    <3>2. s # c
      BY <1>2, <1>5, <3>1
    <3> QED
      BY <1>1, <1>5, <3>1, <3>2 DEF IInv, CatalogOK
  <2> QED
    BY <2>1, <2>2
<1>6. CatalogOK'
  BY <1>4, <1>5 DEF CatalogOK
<1>7. ReportedOK'
  <2> SUFFICES ASSUME NEW r \in reported
               PROVE  Complete(r.stamp)' /\ remote'[r.stamp]["archive"].version = r.version
    BY DEF ReportedOK
  <2>1. r.stamp \in Stamps /\ Complete(r.stamp) /\ remote[r.stamp]["archive"].version = r.version
    BY DEF IInv, TypeOK, ReportedOK
  <2> QED
    BY <2>1, UploadEffect, StaysComplete
<1> QED
  BY <1>6, <1>7

LEMMA OthersWait ==
    ASSUME IInv, NEW j \in Jobs, lock = j, NEW i \in Jobs, i # j
    PROVE  job[i].stage \in Waiting
  BY DEF IInv, JobsOK

LEMMA WaitingIsFine ==
    ASSUME NEW i \in Jobs, job'[i].stage \in Waiting
    PROVE  JobOK(job[i])'
  BY DEF JobOK, Waiting, Copied, Checked, Stamped, Leaves

LEMMA UploadInv == ASSUME IInv, NEW j \in Jobs, NEW leaf \in Leaves, Upload(j, leaf) PROVE IInv'
<1>1. CASE Exit(j) /\ UNCHANGED remote
  BY <1>1, ExitInv DEF Upload, IInv, TypeOK
<1>2. CASE Accepts(j, leaf) /\ Uploads(j, leaf) /\ Goto(j, After(leaf)) /\ UNCHANGED lock
  <2> DEFINE v == job[j].snapshot
             c == job[j].stamp
  <2>1. At(j, leaf) /\ job \in [Jobs -> JobRecord]
    BY DEF Upload, IInv, TypeOK, JobRecord
  <2>2. /\ job[j] \in JobRecord /\ JobOK(job[j]) /\ lock = j /\ c \in Stamps
        /\ remote' \in [Stamps -> [Leaves -> Content]]
        /\ \A s \in Stamps, l \in Leaves :
               remote'[s][l] = IF s = c /\ l = leaf THEN v ELSE remote[s][l]
    BY <1>2, <2>1, UploadEffect
  <2>3. After(leaf) \in {"checksum", "manifest", "readback"}
    BY DEF After, Leaves
  <2>4. /\ job' \in [Jobs -> JobRecord]
        /\ job'[j].stage = After(leaf) /\ job'[j].stamp = c /\ job'[j].snapshot = v
        /\ \A i \in Jobs : i # j => job'[i] = job[i]
    BY <1>2, <2>1, <2>2, <2>3 DEF Goto, JobRecord, Stages, Leaves
  <2>5. TypeOK'
    BY <1>2, <2>2, <2>4 DEF Upload, IInv, TypeOK, JobRecord
  <2>6. JobOK(job[j])'
    <3>1. v.version <= file.version /\ c <= clock /\ InScope(v)
      BY <2>1, <2>2 DEF JobOK, Copied, Checked, Stamped, At
    <3>2. \A s \in Stamps, l \in Leaves :
              remote[s][l].version <= v.version /\ (c < s => remote[s][l] = None)
      BY <2>1, <2>2 DEF JobOK, Copied, Checked, Stamped, At
    <3>3. v.version <= v.version /\ ~(c < c)
      BY <2>2 DEF JobRecord, Content, Stamps
    <3> HIDE DEF v, c
    <3>4. \A s \in Stamps, l \in Leaves :
              remote'[s][l].version <= v.version /\ (c < s => remote'[s][l] = None)
      BY <2>2, <3>2, <3>3
    <3> QED
      BY <2>2, <2>3, <2>4, <3>1, <3>4 DEF JobOK, Upload, InScope
  <2>7. JobsOK'
    BY <1>2, <2>2, <2>4, <2>6, OthersWait, WaitingIsFine DEF JobsOK
  <2>8. CatalogOK' /\ ReportedOK'
    BY <1>2, <2>1, UploadKeepsCatalog DEF Upload
  <2> QED
    BY <2>5, <2>7, <2>8 DEF IInv
<1> QED
  BY <1>1, <1>2 DEF Upload

LEMMA UploadFailsInv ==
    ASSUME IInv, NEW j \in Jobs, NEW leaf \in Leaves, UploadFails(j, leaf) PROVE IInv'
<1>1. spent' \in [crash : 0..MaxCrash, fault : 0..MaxFault]
  BY BackupAssumption DEF BackupAssumption, UploadFails, IInv, TypeOK
<1>2. CASE UNCHANGED remote
  BY <1>1, <1>2, ExitInv DEF UploadFails, IInv, TypeOK
<1>3. CASE Accepts(j, leaf) /\ Uploads(j, leaf)
  <2>1. At(j, leaf) /\ Exit(j)
    BY DEF UploadFails
  <2>2. lock = j /\ remote' \in [Stamps -> [Leaves -> Content]]
    BY <1>3, <2>1, UploadEffect
  <2>3. job' \in [Jobs -> JobRecord] /\ lock' \in Jobs \cup {"free"}
        /\ \A i \in Jobs : job'[i].stage \in Waiting
    BY <2>1, <2>2, ExitKeepsJobs
  <2>4. TypeOK'
    BY <1>1, <2>2, <2>3 DEF UploadFails, IInv, TypeOK, JobRecord
  <2>5. JobsOK'
    BY <2>3, WaitingIsFine DEF JobsOK
  <2>6. CatalogOK' /\ ReportedOK'
    BY <1>3, <2>1, UploadKeepsCatalog DEF UploadFails
  <2> QED
    BY <2>4, <2>5, <2>6 DEF IInv
<1> QED
  BY <1>2, <1>3 DEF UploadFails

---------------------------------------------------------------------------
(* The end of a backup.                                                    *)

LEMMA ReadbackInv == ASSUME IInv, NEW j \in Jobs, Readback(j) PROVE IInv'
<1>1. CASE Exit(j)
  BY <1>1, ExitInv DEF Readback, IInv, TypeOK
<1>2. CASE /\ \A leaf \in Leaves : remote[job[j].stamp][leaf] = job[j].snapshot
           /\ Goto(j, "finish") /\ UNCHANGED lock
  <2> DEFINE w == [job[j] EXCEPT !.stage = "finish"]
  <2>1. job[j] \in JobRecord /\ job[j].stage = "readback" /\ lock = j /\ JobOK(job[j])
    BY DEF IInv, TypeOK, JobRecord, JobsOK, Readback, At, Waiting
  <2>2. job' = [job EXCEPT ![j] = w]
    BY <1>2 DEF Goto
  <2>3. /\ w \in JobRecord /\ w.stage = "finish"
        /\ w.snapshot = job[j].snapshot /\ w.stamp = job[j].stamp
    BY <2>1 DEF JobRecord, Stages
  <2>4. JobOK(w)
    BY <1>2, <2>1, <2>3 DEF JobOK, Copied, Checked, Stamped
  <2> QED
    BY <1>2, <2>1, <2>2, <2>3, <2>4, JobMoves DEF Readback, IInv, TypeOK
<1> QED
  BY <1>1, <1>2 DEF Readback

LEMMA StopInv == ASSUME IInv, NEW j \in Jobs, Crash(j) \/ ReadbackFails(j) PROVE IInv'
<1>1. spent' \in [crash : 0..MaxCrash, fault : 0..MaxFault]
  <2>1. spent \in [crash : 0..MaxCrash, fault : 0..MaxFault]
        /\ MaxCrash \in Nat /\ MaxFault \in Nat
    BY BackupAssumption DEF BackupAssumption, IInv, TypeOK
  <2>2. CASE spent.crash < MaxCrash /\ spent' = [spent EXCEPT !.crash = @ + 1]
    BY <2>1, <2>2
  <2>3. CASE spent.fault < MaxFault /\ spent' = [spent EXCEPT !.fault = @ + 1]
    BY <2>1, <2>3
  <2> QED
    BY <2>2, <2>3 DEF Crash, ReadbackFails
<1>2. /\ Exit(j) /\ local' = local
      /\ UNCHANGED <<file, clock, remote, reported, rehearsal>>
  BY DEF Crash, ReadbackFails
<1>3. local' \in SUBSET Stamps
  BY <1>2 DEF IInv, TypeOK
<1> QED
  BY <1>1, <1>2, <1>3, ExitInv

(* What is reported has been read back.                                    *)
LEMMA FinishInv == ASSUME IInv, NEW j \in Jobs, Finish(j) PROVE IInv'
<1> DEFINE v == job[j].snapshot
           c == job[j].stamp
<1>1. job[j] \in JobRecord /\ JobOK(job[j]) /\ job[j].stage = "finish"
  BY DEF IInv, TypeOK, JobRecord, JobsOK, Finish, At
<1>2. /\ c \in Stamps /\ v \in Content /\ InScope(v)
      /\ \A l \in Leaves : remote[c][l] = v
  BY <1>1 DEF JobOK, Checked, Stamped, JobRecord
<1>3. job' \in [Jobs -> JobRecord] /\ lock' \in Jobs \cup {"free"}
      /\ \A i \in Jobs : job'[i].stage \notin Waiting => lock' = i /\ job'[i] = job[i]
  BY ExitKeepsJobs DEF Finish
<1>4. reported' = reported \cup {[stamp |-> c, version |-> v.version]}
  BY DEF Finish
<1>5. TypeOK'
  BY <1>2, <1>3, <1>4 DEF Finish, IInv, TypeOK, JobRecord, Content
<1>6. JobsOK'
  <2> SUFFICES ASSUME NEW i \in Jobs
               PROVE  JobOK(job[i])' /\ (job'[i].stage \notin Waiting => lock' = i)
    BY DEF JobsOK
  <2>1. CASE job'[i].stage \in Waiting
    BY <2>1, WaitingIsFine
  <2>2. CASE job'[i].stage \notin Waiting
    <3>1. job'[i] = job[i] /\ lock' = i /\ JobOK(job[i])
      BY <1>3, <2>2 DEF IInv, JobsOK
    <3> QED
      BY <3>1 DEF JobOK, Finish
  <2> QED
    BY <2>1, <2>2
<1>7. CatalogOK'
  BY DEF Finish, IInv, CatalogOK
<1>8. Complete(c) /\ remote[c]["archive"] = v
  BY <1>2, NoneIsContent DEF Complete, Present, Leaves
<1>9. ReportedOK'
  <2> SUFFICES ASSUME NEW r \in reported'
               PROVE  Complete(r.stamp)' /\ remote'[r.stamp]["archive"].version = r.version
    BY DEF ReportedOK
  <2>1. Complete(r.stamp) /\ remote[r.stamp]["archive"].version = r.version
    <3>1. CASE r \in reported
      BY <3>1 DEF IInv, ReportedOK
    <3>2. CASE r = [stamp |-> c, version |-> v.version]
      BY <1>8, <3>2
    <3> QED
      BY <1>4, <3>1, <3>2
  <2> QED
    BY <2>1 DEF Complete, Present, Finish
<1> QED
  BY <1>5, <1>6, <1>7, <1>9 DEF IInv

---------------------------------------------------------------------------
(* Steps of the others.                                                    *)

LEMMA BackupInv == ASSUME IInv, NEW j \in Jobs, Backup(j) PROVE IInv'
<1>1. ASSUME NEW leaf \in Leaves, Upload(j, leaf) \/ UploadFails(j, leaf) PROVE IInv'
  BY <1>1, UploadInv, UploadFailsInv
<1> QED
  BY <1>1, StartInv, TakeLockInv, HashBeforeInv, CopyFirstHalfInv, CopySecondHalfInv,
     HashAfterInv, CheckScopeInv, MakeRunInv, ReadbackInv, StopInv, FinishInv
  DEF Backup

(* OpenTofu's versions only grow, and so does the clock.                   *)
LEMMA EnvironmentInv == ASSUME IInv, BeginWrite \/ EndWrite \/ Tick PROVE IInv'
<1>1. /\ file \in Content /\ clock \in 1..MaxClock /\ clock <= clock
      /\ MaxVersion \in Nat /\ MaxClock \in Nat /\ file.version <= file.version
  BY BackupAssumption DEF BackupAssumption, IInv, TypeOK, Stamps, Content
<1>2. UNCHANGED <<lock, local, remote, job, reported, rehearsal, spent>>
  BY DEF BeginWrite, EndWrite, Tick
<1>3. file' \in Content /\ file.version <= file'.version
  <2>1. CASE BeginWrite
    <3>1. file.version < MaxVersion
          /\ file' = [version |-> file.version + 1, whole |-> FALSE]
      BY <2>1 DEF BeginWrite
    <3> QED
      BY <1>1, <3>1 DEF Content
  <2>2. CASE EndWrite
    <3>1. file' = [file EXCEPT !.whole = TRUE]
      BY <2>2 DEF EndWrite
    <3> QED
      BY <1>1, <3>1 DEF Content
  <2>3. CASE Tick
    BY <1>1, <2>3 DEF Tick
  <2> QED
    BY <2>1, <2>2, <2>3
<1>4. clock' \in Stamps /\ clock <= clock'
  <2>1. clock' = clock \/ (clock < MaxClock /\ clock' = clock + 1)
    BY DEF BeginWrite, EndWrite, Tick
  <2> QED
    BY <1>1, <2>1 DEF Stamps
<1>5. /\ file.version \in Nat /\ file'.version \in Nat
      /\ clock \in Nat /\ clock' \in Nat /\ \A s \in Stamps : s \in Nat
      /\ \A s \in Stamps, l \in Leaves : remote[s][l].version \in Nat
  BY <1>1, <1>3, <1>4 DEF IInv, TypeOK, Content, Stamps
<1>6. TypeOK'
  BY <1>2, <1>3, <1>4 DEF IInv, TypeOK
<1>7. JobsOK'
  <2> SUFFICES ASSUME NEW i \in Jobs
               PROVE  JobOK(job[i])' /\ (job'[i].stage \notin Waiting => lock' = i)
    BY DEF JobsOK
  <2>1. /\ job[i] \in JobRecord /\ JobOK(job[i])
        /\ job[i].stage \notin Waiting => lock = i
    BY DEF IInv, TypeOK, JobRecord, JobsOK
  <2>2. job[i].snapshot.version \in Nat /\ job[i].stamp \in Nat
    BY <2>1 DEF JobRecord, Content
  <2> QED
    BY <1>2, <1>3, <1>4, <1>5, <2>1, <2>2 DEF JobOK, InScope
<1>8. CatalogOK'
  BY <1>2, <1>3, <1>4, <1>5 DEF IInv, CatalogOK, InScope
<1>9. ReportedOK'
  BY <1>2 DEF IInv, ReportedOK, Complete, Present
<1> QED
  BY <1>6, <1>7, <1>8, <1>9 DEF IInv

LEMMA ListedTypes ==
    ASSUME IInv
    PROVE  /\ Newest({s \in Stamps : Complete(s)}) \in 0..MaxClock
           /\ Newest({r.version : r \in reported}) \in 0..MaxVersion
<1>1. MaxClock \in Nat /\ MaxVersion \in Nat
  BY BackupAssumption DEF BackupAssumption
<1>2. {s \in Stamps : Complete(s)} \subseteq 0..MaxClock
  BY DEF Stamps
<1>3. {r.version : r \in reported} \subseteq 0..MaxVersion
  BY DEF IInv, TypeOK
<1>4. Newest({}) = 0
  BY DEF Newest
<1>5. Newest({s \in Stamps : Complete(s)}) \in 0..MaxClock
  BY <1>1, <1>2, <1>4, NewestIsMax
<1>6. Newest({r.version : r \in reported}) \in 0..MaxVersion
  BY <1>1, <1>3, <1>4, NewestIsMax
<1> QED
  BY <1>5, <1>6

(* A rehearsal reads only.                                                 *)
LEMMA RehearseInv == ASSUME IInv, Rehearse PROVE IInv'
<1>1. UNCHANGED <<file, lock, clock, local, remote, job, reported>>
  BY DEF Rehearse, StartRehearsal, ListCatalog, Consider, NoCandidate, SkipUnread,
         Fetch, RehearsalFails
<1>2. JobsOK' /\ CatalogOK' /\ ReportedOK'
  BY <1>1 DEF IInv, JobsOK, JobOK, CatalogOK, ReportedOK, Complete, Present, InScope
<1>3. TypeOK'
  <2> DEFINE Rec == [stage : {"idle", "list", "consider", "fetch", "success", "failed"},
                     candidates : SUBSET Stamps, chosen : 0..MaxClock,
                     newest : 0..MaxClock, promised : 0..MaxVersion, faulted : BOOLEAN]
             Spent == [crash : 0..MaxCrash, fault : 0..MaxFault]
  <2>1. rehearsal \in Rec /\ spent \in Spent
    BY DEF IInv, TypeOK
  <2>2. spent' \in Spent
    BY <2>1, BackupAssumption
    DEF BackupAssumption, Rehearse, StartRehearsal, ListCatalog, Consider, NoCandidate,
        SkipUnread, Fetch, RehearsalFails
  <2>3. rehearsal' \in Rec
    <3>1. CASE StartRehearsal
      <4>1. MaxClock \in Nat /\ MaxVersion \in Nat /\ {} \in SUBSET Stamps
        BY BackupAssumption DEF BackupAssumption
      <4>2. NoRehearsal \in Rec
        BY <4>1 DEF NoRehearsal
      <4>3. rehearsal' = [NoRehearsal EXCEPT !.stage = "list"]
        BY <3>1 DEF StartRehearsal
      <4> QED
        BY <4>2, <4>3
    <3>2. CASE ListCatalog
      <4> DEFINE C == {s \in Stamps : Present(s) # {}}
                 n == Newest({s \in Stamps : Complete(s)})
                 p == Newest({r.version : r \in reported})
      <4>1. C \in SUBSET Stamps /\ n \in 0..MaxClock /\ p \in 0..MaxVersion
        BY ListedTypes
      <4>2. rehearsal' = [rehearsal EXCEPT !.stage = "consider", !.candidates = C,
                                           !.newest = n, !.promised = p]
        BY <3>2 DEF ListCatalog
      <4> HIDE DEF C, n, p
      <4> QED
        BY <2>1, <4>1, <4>2
    <3>3. CASE Consider
      <4>1. rehearsal.candidates \subseteq 0..MaxClock /\ MaxClock \in Nat
        BY <2>1, BackupAssumption DEF BackupAssumption, Stamps
      <4>2. Newest(rehearsal.candidates) \in 0..MaxClock
        BY <3>3, <4>1, NewestIsMax DEF Consider
      <4> QED
        BY <2>1, <3>3, <4>2 DEF Consider
    <3>4. CASE NoCandidate \/ Fetch \/ SkipUnread \/ RehearsalFails
      <4>1. CASE NoCandidate \/ Fetch
        BY <2>1, <4>1 DEF NoCandidate, Fetch
      <4>2. CASE SkipUnread
        <5>1. rehearsal' = [rehearsal EXCEPT
                  !.candidates = rehearsal.candidates \ {Newest(rehearsal.candidates)},
                  !.faulted = TRUE]
          BY <4>2 DEF SkipUnread
        <5> QED
          BY <2>1, <5>1
      <4>3. CASE RehearsalFails
        BY <2>1, <4>3 DEF RehearsalFails
      <4> QED
        BY <3>4, <4>1, <4>2, <4>3
    <3> QED
      BY <3>1, <3>2, <3>3, <3>4 DEF Rehearse
  <2> QED
    BY <1>1, <2>2, <2>3 DEF IInv, TypeOK
<1> QED
  BY <1>2, <1>3 DEF IInv

---------------------------------------------------------------------------
(* What a rehearsal relies on.                                             *)

LEMMA NextInv == ASSUME IInv, [Next]_vars PROVE IInv'
<1>1. CASE UNCHANGED vars
  BY <1>1 DEF vars, IInv, TypeOK, JobsOK, JobOK, CatalogOK, ReportedOK, Complete,
              Present, InScope
<1>2. CASE Next
  BY <1>2, BackupInv, EnvironmentInv, RehearseInv DEF Next
<1> QED
  BY <1>1, <1>2

(* Leaves are never changed.                                               *)
LEMMA LeavesStay ==
    ASSUME IInv, [Next]_vars
    PROVE  \A s \in Stamps, l \in Leaves :
               remote[s][l] # None => remote'[s][l] = remote[s][l]
<1>1. CASE UNCHANGED remote
  BY <1>1
<1>2. ASSUME NEW j \in Jobs, NEW leaf \in Leaves, Upload(j, leaf) \/ UploadFails(j, leaf),
             remote' # remote
      PROVE  At(j, leaf) /\ Accepts(j, leaf) /\ Uploads(j, leaf)
  BY <1>2 DEF Upload, UploadFails
<1>3. ASSUME NEW j \in Jobs, NEW leaf \in Leaves, Upload(j, leaf) \/ UploadFails(j, leaf),
             remote' # remote
      PROVE  \A s \in Stamps, l \in Leaves :
                 remote[s][l] # None => remote'[s][l] = remote[s][l]
  BY <1>2, <1>3, UploadEffect
<1>4. ASSUME NEW j \in Jobs, Backup(j), remote' # remote
      PROVE  \E leaf \in Leaves : Upload(j, leaf) \/ UploadFails(j, leaf)
  BY <1>4 DEF Backup, Start, TakeLock, HashBefore, CopyFirstHalf, CopySecondHalf,
     HashAfter, CheckScope, MakeRun, Readback, ReadbackFails, Finish, Crash
<1>5. ASSUME remote' # remote PROVE \E j \in Jobs : Backup(j)
  BY <1>5 DEF vars, Next, Rehearse, StartRehearsal, ListCatalog, Consider, NoCandidate,
     SkipUnread, Fetch, RehearsalFails, BeginWrite, EndWrite, Tick
<1> QED
  BY <1>1, <1>3, <1>4, <1>5

(* The newest complete run is at least as recent as every report.          *)
LEMMA NewestIsRecent ==
    ASSUME IInv
    PROVE  LET n == Newest({s \in Stamps : Complete(s)})
               p == Newest({r.version : r \in reported})
           IN  IF n = 0 THEN p = 0
               ELSE n \in Stamps /\ Complete(n) /\ p <= remote[n]["archive"].version
<1> DEFINE C == {s \in Stamps : Complete(s)}
           V == {r.version : r \in reported}
           n == Newest(C)
           p == Newest(V)
<1> SUFFICES IF n = 0 THEN p = 0
             ELSE n \in Stamps /\ Complete(n) /\ p <= remote[n]["archive"].version
  OBVIOUS
<1>1. MaxClock \in Nat /\ MaxVersion \in Nat /\ C \subseteq 0..MaxClock /\ V \subseteq 0..MaxVersion
  BY BackupAssumption DEF BackupAssumption, IInv, TypeOK, Stamps
<1>2. C # {} => n \in C /\ \A t \in C : t <= n
  BY <1>1, NewestIsMax
<1>3. V # {} => p \in V
  BY <1>1, NewestIsMax
<1>4. C = {} => n = 0
  BY DEF Newest
<1>5. V = {} => p = 0
  BY DEF Newest
<1>6. n # 0 <=> C # {}
  BY <1>2, <1>4 DEF Stamps
<1>7. ASSUME NEW r \in reported PROVE r.stamp \in C /\ remote[r.stamp]["archive"].version = r.version
  BY DEF IInv, TypeOK, ReportedOK
<1>8. CASE V = {}
  <2>1. n # 0 => remote[n]["archive"].version \in Nat
    BY <1>2, <1>6 DEF IInv, TypeOK, Content, Leaves
  <2> HIDE DEF n, p
  <2>2. n # 0 => 0 <= remote[n]["archive"].version
    BY <2>1
  <2> QED
    BY <1>2, <1>5, <1>6, <1>8, <2>2
<1>9. CASE V # {}
  <2>1. PICK r \in reported : p = r.version
    BY <1>3, <1>9
  <2>2. r.stamp \in C /\ remote[r.stamp]["archive"].version = p
    BY <1>7, <2>1
  <2>3. n \in C /\ r.stamp <= n /\ n # 0
    BY <1>2, <1>6, <2>2
  <2>4. n \in Stamps /\ r.stamp \in Stamps /\ "archive" \in Leaves /\ Complete(n)
    BY <2>2, <2>3 DEF Leaves
  <2>5. /\ remote[n]["archive"] # None
        /\ remote[n]["archive"].version \in Nat
    <3>1. remote[n]["archive"] # None
      BY <2>4 DEF Complete, Present
    <3>2. remote[n]["archive"] \in Content
      BY <2>4 DEF IInv, TypeOK
    <3> QED
      BY <3>1, <3>2 DEF Content
  <2> HIDE DEF n, p, C, V
  <2>6. CASE r.stamp = n
    BY <2>2, <2>3, <2>4, <2>5, <2>6
  <2>7. CASE r.stamp < n
    BY <2>2, <2>3, <2>4, <2>5, <2>7 DEF IInv, CatalogOK
  <2>8. r.stamp = n \/ r.stamp < n
    BY <2>3, <2>4 DEF Stamps
  <2> QED
    BY <2>6, <2>7, <2>8
<1> QED
  BY <1>8, <1>9

(* A rehearsal whose reads are answered passes over incomplete runs only.  *)
LEMMA RehearsalInv == ASSUME IInv, RehearsalOK, [Next]_vars PROVE RehearsalOK'
<1> DEFINE n == rehearsal.newest
<1>1. \A t \in Stamps : Complete(t) =>
          Complete(t)' /\ remote'[t]["archive"] = remote[t]["archive"]
  BY LeavesStay, StaysComplete
<1>2. /\ n \in 0..MaxClock
      /\ n # 0 => n \in Stamps
      /\ rehearsal.candidates \subseteq 0..MaxClock /\ rehearsal.candidates \subseteq Stamps
      /\ MaxClock \in Nat
  BY BackupAssumption DEF BackupAssumption, IInv, TypeOK, Stamps
<1>3. CASE UNCHANGED rehearsal
  <2>1. rehearsal' = rehearsal
    BY <1>3
  <2>2. Chosen'
    BY <1>1, <2>1 DEF RehearsalOK, Chosen
  <2>3. ASSUME ~rehearsal.faulted PROVE Underway'
    <3>1. Underway
      BY <2>3 DEF RehearsalOK
    <3>2. rehearsal.stage \in {"consider", "fetch", "success"} /\ n # 0 =>
              /\ Complete(n)'
              /\ rehearsal.promised <= remote'[n]["archive"].version
      <4>1. SUFFICES ASSUME rehearsal.stage \in {"consider", "fetch", "success"}, n # 0
                     PROVE  /\ Complete(n)'
                            /\ rehearsal.promised <= remote'[n]["archive"].version
        BY <2>1
      <4>2. Complete(n) /\ rehearsal.promised <= remote[n]["archive"].version
        BY <3>1, <4>1 DEF Underway
      <4>3. PICK t \in Stamps : t = n
        BY <1>2, <4>1
      <4>4. Complete(t)' /\ remote'[t]["archive"] = remote[t]["archive"]
        BY <1>1, <4>2, <4>3
      <4>5. rehearsal'.newest = t
        BY <2>1, <4>3
      <4>6. Complete(n)'
        BY <4>4, <4>5 DEF Complete, Present
      <4> QED
        BY <4>2, <4>3, <4>4, <4>6
    <3> QED
      BY <2>1, <3>1, <3>2, Zenon DEF Underway
  <2> QED
    BY <2>1, <2>2, <2>3 DEF RehearsalOK
<1>4. CASE rehearsal' # rehearsal
  <2>1. Rehearse /\ UNCHANGED remote
    BY <1>4 DEF vars, Next, Rehearse, StartRehearsal, ListCatalog, Consider, NoCandidate,
       SkipUnread, Fetch, RehearsalFails, BeginWrite, EndWrite, Tick, Backup, Start,
       TakeLock, HashBefore, CopyFirstHalf, CopySecondHalf, HashAfter, CheckScope, MakeRun,
       Upload, UploadFails, Readback, ReadbackFails, Finish, Crash
  <2>2. \A t : Complete(t)' = Complete(t)
    BY <2>1 DEF Complete, Present
  <2>3. CASE StartRehearsal
    <3>1. rehearsal'.stage = "list"
      BY <2>3 DEF StartRehearsal, NoRehearsal
    <3> QED
      BY <3>1 DEF RehearsalOK, Chosen, Underway
  <2>4. CASE ListCatalog
    <3> DEFINE C == {s \in Stamps : Present(s) # {}}
               m == Newest({s \in Stamps : Complete(s)})
               p == Newest({r.version : r \in reported})
    <3>1. IF m = 0 THEN p = 0
          ELSE m \in Stamps /\ Complete(m) /\ p <= remote[m]["archive"].version
      BY NewestIsRecent
    <3>2. m # 0 => m \in C
      BY <3>1 DEF Complete, Leaves
    <3>3. /\ rehearsal'.stage = "consider" /\ rehearsal'.candidates = C
          /\ rehearsal'.newest = m /\ rehearsal'.promised = p
      <4>1. rehearsal' = [rehearsal EXCEPT !.stage = "consider", !.candidates = C,
                                           !.newest = m, !.promised = p]
        BY <2>4 DEF ListCatalog
      <4> HIDE DEF C, m, p
      <4> QED
        BY <4>1 DEF IInv, TypeOK
    <3> HIDE DEF C, m, p
    <3>4. Chosen'
      BY <3>3 DEF Chosen
    <3>5. Underway'
      BY <2>1, <2>2, <3>1, <3>2, <3>3 DEF Underway
    <3> QED
      BY <3>4, <3>5 DEF RehearsalOK
  <2>5. CASE Consider
    <3> DEFINE s == Newest(rehearsal.candidates)
    <3>1. s \in rehearsal.candidates /\ \A t \in rehearsal.candidates : t <= s
      BY <1>2, <2>5, NewestIsMax DEF Consider
    <3>2. rehearsal.stage = "consider"
      BY <2>5 DEF Consider
    <3>3. CASE Complete(s)
      <4>1. rehearsal' = [rehearsal EXCEPT !.chosen = s, !.stage = "fetch"]
        BY <2>5, <3>3 DEF Consider
      <4>2. Underway => n <= s
        BY <1>2, <3>1, <3>2 DEF Underway, Stamps
      <4> HIDE DEF s
      <4>3. /\ rehearsal'.stage = "fetch" /\ rehearsal'.chosen = s /\ rehearsal'.newest = n
            /\ rehearsal'.promised = rehearsal.promised
            /\ rehearsal'.faulted = rehearsal.faulted
        BY <4>1 DEF IInv, TypeOK
      <4>4. Chosen'
        BY <1>2, <2>2, <3>1, <3>3, <4>3 DEF Chosen
      <4>5. Underway => Underway'
        BY <2>1, <2>2, <3>2, <4>2, <4>3 DEF Underway
      <4> QED
        BY <4>3, <4>4, <4>5 DEF RehearsalOK
    <3>4. CASE ~Complete(s)
      <4>1. rehearsal' = [rehearsal EXCEPT !.candidates = @ \ {s}]
        BY <2>5, <3>4 DEF Consider
      <4> HIDE DEF s
      <4>2. /\ rehearsal'.stage = "consider" /\ rehearsal'.newest = n
            /\ rehearsal'.candidates = rehearsal.candidates \ {s}
            /\ rehearsal'.promised = rehearsal.promised
            /\ rehearsal'.faulted = rehearsal.faulted
        BY <3>2, <4>1 DEF IInv, TypeOK
      <4>3. Underway /\ n # 0 => n # s
        BY <3>2, <3>4 DEF Underway
      <4>4. Chosen'
        BY <4>2 DEF Chosen
      <4>5. Underway => Underway'
        BY <2>1, <2>2, <3>2, <4>2, <4>3 DEF Underway
      <4> QED
        BY <4>2, <4>4, <4>5 DEF RehearsalOK
    <3> QED
      BY <3>3, <3>4
  <2>6. CASE NoCandidate
    <3>1. /\ rehearsal'.stage = "failed" /\ rehearsal'.newest = n
          /\ rehearsal'.faulted = rehearsal.faulted
      BY <2>6 DEF NoCandidate, IInv, TypeOK
    <3>2. Underway => n = 0
      BY <2>6 DEF NoCandidate, Underway
    <3>3. Chosen' /\ (Underway => Underway')
      BY <3>1, <3>2 DEF Chosen, Underway
    <3> QED
      BY <3>1, <3>3 DEF RehearsalOK
  <2>7. CASE SkipUnread \/ RehearsalFails
    <3>1. rehearsal'.stage \in {"consider", "failed"} /\ rehearsal'.faulted = TRUE
      BY <2>7 DEF SkipUnread, RehearsalFails, IInv, TypeOK
    <3> QED
      BY <3>1 DEF RehearsalOK, Chosen
  <2>8. CASE Fetch
    <3> DEFINE c == rehearsal.chosen
    <3>1. /\ rehearsal.stage = "fetch" /\ c \in Stamps /\ Complete(c)
      BY <2>8 DEF Fetch, RehearsalOK, Chosen
    <3>2. InScope(remote[c]["archive"])
      BY <3>1 DEF Complete, Present, Leaves, IInv, CatalogOK
    <3>3. rehearsal' = [rehearsal EXCEPT !.stage = "success"]
      BY <2>8, <3>1, <3>2 DEF Fetch
    <3>4. /\ rehearsal'.stage = "success" /\ rehearsal'.chosen = c /\ rehearsal'.newest = n
          /\ rehearsal'.promised = rehearsal.promised
          /\ rehearsal'.faulted = rehearsal.faulted
      BY <3>3 DEF IInv, TypeOK
    <3>5. Chosen'
      BY <2>2, <3>1, <3>4 DEF Chosen
    <3>6. Underway => Underway'
      BY <2>1, <2>2, <3>1, <3>4 DEF Underway
    <3> QED
      BY <3>4, <3>5, <3>6 DEF RehearsalOK
  <2> QED
    BY <2>1, <2>3, <2>4, <2>5, <2>6, <2>7, <2>8 DEF Rehearse
<1> QED
  BY <1>3, <1>4

---------------------------------------------------------------------------
(* The theorems.                                                           *)

LEMMA Invariance == Spec => []IInv
  BY InitInv, NextInv, PTL DEF Spec

LEMMA RehearsalInvariance == Spec => []RehearsalOK
<1>1. IInv /\ RehearsalOK /\ [Next]_vars => RehearsalOK'
  BY RehearsalInv
<1>2. Init => RehearsalOK
  BY InitInv
<1> QED
  BY <1>1, <1>2, Invariance, PTL DEF Spec

(* Every variable keeps its type, whatever stops, fails or is rewritten.   *)
THEOREM TypeCorrect == Spec => []TypeOK
<1>1. IInv => TypeOK
  BY DEF IInv
<1> QED
  BY <1>1, Invariance, PTL

(* What the catalog shows as complete was a whole state in the expected    *)
(* scope: the three hashes and the manifest published last suffice against *)
(* OpenTofu's writes and against stops.                                    *)
THEOREM CompleteIsWholeHolds == Spec => []CompleteIsWhole
<1>1. IInv => CompleteIsWhole
  BY DEF IInv, CatalogOK, CompleteIsWhole, Complete, Present, Leaves
<1> QED
  BY <1>1, Invariance, PTL

(* The lock makes the order of names the order of states: the snapshot and *)
(* the timestamp are taken under it.                                       *)
THEOREM CatalogMonotoneHolds == Spec => []CatalogMonotone
<1>1. IInv => CatalogMonotone
  BY DEF IInv, CatalogOK, CatalogMonotone, Complete, Present, Leaves
<1> QED
  BY <1>1, Invariance, PTL

(* While all its reads are answered, directories left by interrupted or    *)
(* unfinished uploads do not make a rehearsal fail.                        *)
THEOREM InterruptedUploadHarmlessHolds == Spec => []InterruptedUploadHarmless
<1>1. RehearsalOK => InterruptedUploadHarmless
  BY DEF RehearsalOK, Underway, InterruptedUploadHarmless
<1> QED
  BY <1>1, RehearsalInvariance, PTL

(* A rehearsal that succeeds with all its reads answered restores a state  *)
(* as recent as any that a backup had reported when it listed the catalog. *)
THEOREM RestoresRecentHolds == Spec => []RestoresRecent
<1>1. IInv /\ RehearsalOK => RestoresRecent
  <2> SUFFICES ASSUME IInv, Chosen, Underway, rehearsal.stage = "success"
               PROVE  rehearsal.promised <= remote[rehearsal.chosen]["archive"].version
    BY DEF RestoresRecent, RehearsalOK
  <2> DEFINE c == rehearsal.chosen
             n == rehearsal.newest
             version(s) == remote[s]["archive"].version
  <2>1. c \in Stamps /\ Complete(c) /\ n <= c /\ n \in 0..MaxClock
    BY DEF Chosen, Underway, IInv, TypeOK
  <2>2. remote[c]["archive"] # None /\ "archive" \in Leaves
    BY <2>1 DEF Complete, Present, Leaves
  <2>3. version(c) \in Nat
    BY <2>1, <2>2 DEF IInv, TypeOK, Content
  <2>4. CASE n = 0
    BY <2>3, <2>4 DEF Underway
  <2>5. CASE n # 0
    <3>1. n \in Stamps /\ rehearsal.promised <= version(n)
      BY <2>1, <2>5 DEF Underway, Stamps
    <3>2. version(n) <= version(c)
      <4>1. CASE n = c
        BY <2>3, <4>1
      <4>2. CASE n # c
        <5>1. n < c
          BY <2>1, <3>1, <4>2 DEF Stamps
        <5> QED
          BY <2>1, <2>2, <3>1, <5>1 DEF IInv, CatalogOK
      <4> QED
        BY <4>1, <4>2
    <3>3. rehearsal.promised \in Nat /\ version(n) \in Nat
      BY <2>2, <3>1 DEF IInv, TypeOK, Content
    <3> QED
      BY <2>3, <3>1, <3>2, <3>3
  <2> QED
    BY <2>4, <2>5
<1> QED
  BY <1>1, Invariance, RehearsalInvariance, PTL

=============================================================================
