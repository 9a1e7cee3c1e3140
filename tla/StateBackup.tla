------------------------------ MODULE StateBackup ------------------------------
(***************************************************************************)
(* The encrypted off-site copies of the OpenTofu state github.tfstate: the *)
(* backup (ansible/files/backup/opentofu-github-state-backup), the catalog *)
(* of timestamped directories it leaves on the remote, and the rehearsal   *)
(* (restore-opentofu-github-state-rehearsal) that restores from it.        *)
(*                                                                         *)
(* OpenTofu writes the state in place at any time, backups may be started  *)
(* while another runs, and any of them may stop between two uploads.       *)
(***************************************************************************)
EXTENDS Naturals, FiniteSets

CONSTANTS
    Jobs,        \* backup invocations
    MaxVersion,  \* bound: state versions OpenTofu writes
    Exact,       \* versions with exactly the three expected addresses
    MaxClock,    \* bound: seconds of the clock the timestamps are read from
    Retain,      \* age at which a local run directory is removed
    MaxCrash,    \* bound: backups stopped hard
    MaxFault     \* bound: failed uploads and failed reads of the remote

ASSUME BackupAssumption ==
    /\ "free" \notin Jobs
    /\ Exact \subseteq 1..MaxVersion
    /\ MaxVersion \in Nat /\ MaxClock \in Nat \ {0} /\ Retain \in Nat
    /\ MaxCrash \in Nat /\ MaxFault \in Nat

Stamps == 1..MaxClock
Leaves == {"archive", "checksum", "manifest"}

(* What a file of the state may hold: a version, whole or half written.    *)
(* Version 0 stands for no state at all.                                   *)
Content == [version : 0..MaxVersion, whole : BOOLEAN]
None == [version |-> 0, whole |-> FALSE]

---------------------------------------------------------------------------
VARIABLES
    file,       \* github.tfstate
    lock,       \* who holds the lock file
    clock,      \* what date prints
    local,      \* timestamps that have a local run directory
    remote,     \* per timestamp and leaf, what the leaf was made from
    job,        \* per backup, where it is and what it has read
    reported,   \* successes reported: timestamp and version
    rehearsal,  \* the rehearsal in progress, or the last one
    spent       \* what is used up of the bounds

vars == <<file, lock, clock, local, remote, job, reported, rehearsal, spent>>

Stages == {"idle", "lock", "before", "copy", "copying", "after", "scope", "make"}
              \cup Leaves \cup {"readback", "finish"}

Idle == [stage |-> "idle", before |-> None, snapshot |-> None, stamp |-> 0]
NoRehearsal == [stage |-> "idle", candidates |-> {}, chosen |-> 0, newest |-> 0,
                promised |-> 0, faulted |-> FALSE]

Init ==
    /\ file = [version |-> 0, whole |-> TRUE]
    /\ lock = "free" /\ clock = 1 /\ local = {}
    /\ remote = [s \in Stamps |-> [l \in Leaves |-> None]]
    /\ job = [j \in Jobs |-> Idle]
    /\ reported = {} /\ rehearsal = NoRehearsal
    /\ spent = [crash |-> 0, fault |-> 0]

---------------------------------------------------------------------------
(* The backup.                                                             *)

At(j, stage) == job[j].stage = stage
Goto(j, stage) == job' = [job EXCEPT ![j].stage = stage]

(* Mutant of Exit: the lock file is removed on exit.                       *)
ExitRemovingLock(j) ==
    /\ job' = [job EXCEPT ![j] = Idle]
    /\ lock' = IF lock = j THEN "removed" ELSE lock

(* However an invocation ends, the kernel releases its lock.               *)
Exit(j) ==
    /\ job' = [job EXCEPT ![j] = Idle]
    /\ lock' = IF lock = j THEN "free" ELSE lock

Start(j) ==
    /\ At(j, "idle")
    /\ file.version > 0
    /\ Goto(j, "lock")
    /\ UNCHANGED <<file, lock, clock, local, remote, reported, rehearsal, spent>>

(* Mutant of TakeLock: the lock is taken whoever holds it.                 *)
TakeLockAnyway(j) ==
    /\ At(j, "lock")
    /\ lock' = j /\ Goto(j, "before")
    /\ UNCHANGED <<file, clock, local, remote, reported, rehearsal, spent>>

(* A held lock refuses the invocation.                                     *)
TakeLock(j) ==
    /\ At(j, "lock")
    /\ IF lock = "free" THEN lock' = j /\ Goto(j, "before") ELSE Exit(j)
    /\ UNCHANGED <<file, clock, local, remote, reported, rehearsal, spent>>

HashBefore(j) ==
    /\ At(j, "before")
    /\ job' = [job EXCEPT ![j].before = file, ![j].stage = "copy"]
    /\ UNCHANGED <<file, lock, clock, local, remote, reported, rehearsal, spent>>

(* The copy reads the file while it may change.                            *)
CopyFirstHalf(j) ==
    /\ At(j, "copy")
    /\ job' = [job EXCEPT ![j].snapshot = file, ![j].stage = "copying"]
    /\ UNCHANGED <<file, lock, clock, local, remote, reported, rehearsal, spent>>

CopySecondHalf(j) ==
    /\ At(j, "copying")
    /\ job' = [job EXCEPT ![j].snapshot = IF file = @ THEN @ ELSE [@ EXCEPT !.whole = FALSE],
                          ![j].stage = "after"]
    /\ UNCHANGED <<file, lock, clock, local, remote, reported, rehearsal, spent>>

HashAfter(j) ==
    /\ At(j, "after")
    /\ IF job[j].before = file /\ file = job[j].snapshot
         THEN Goto(j, "scope") /\ UNCHANGED lock
         ELSE Exit(j)
    /\ UNCHANGED <<file, clock, local, remote, reported, rehearsal, spent>>

(* tofu state list on the snapshot: a half-written one is no state.        *)
InScope(content) == content.whole /\ content.version \in Exact

(* Mutant of CheckScope: whatever the file held is archived.               *)
CheckNothing(j) ==
    /\ At(j, "scope")
    /\ Goto(j, "make")
    /\ UNCHANGED <<file, lock, clock, local, remote, reported, rehearsal, spent>>

CheckScope(j) ==
    /\ At(j, "scope")
    /\ IF InScope(job[j].snapshot) THEN Goto(j, "make") /\ UNCHANGED lock ELSE Exit(j)
    /\ UNCHANGED <<file, clock, local, remote, reported, rehearsal, spent>>

(* The timestamp is read and its directory made, with the three leaves.    *)
MakeRun(j) ==
    /\ At(j, "make")
    /\ IF clock \in local
         THEN Exit(j) /\ UNCHANGED local
         ELSE /\ local' = local \cup {clock}
              /\ job' = [job EXCEPT ![j].stamp = clock, ![j].stage = "archive"]
              /\ UNCHANGED lock
    /\ UNCHANGED <<file, clock, remote, reported, rehearsal, spent>>

After(leaf) == CASE leaf = "archive" -> "checksum"
                 [] leaf = "checksum" -> "manifest"
                 [] leaf = "manifest" -> "readback"

(* copyto --immutable: an existing leaf may only be the same.              *)
Uploads(j, leaf) == remote' = [remote EXCEPT ![job[j].stamp][leaf] = job[j].snapshot]
Accepts(j, leaf) == remote[job[j].stamp][leaf] \in {None, job[j].snapshot}

Upload(j, leaf) ==
    /\ At(j, leaf)
    /\ IF Accepts(j, leaf)
         THEN Uploads(j, leaf) /\ Goto(j, After(leaf)) /\ UNCHANGED lock
         ELSE Exit(j) /\ UNCHANGED remote
    /\ UNCHANGED <<file, clock, local, reported, rehearsal, spent>>

(* The upload fails, or its effect is there and its answer is not.         *)
UploadFails(j, leaf) ==
    /\ At(j, leaf)
    /\ spent.fault < MaxFault
    /\ spent' = [spent EXCEPT !.fault = @ + 1]
    /\ (Accepts(j, leaf) /\ Uploads(j, leaf)) \/ UNCHANGED remote
    /\ Exit(j)
    /\ UNCHANGED <<file, clock, local, reported, rehearsal>>

Readback(j) ==
    /\ At(j, "readback")
    /\ IF \A leaf \in Leaves : remote[job[j].stamp][leaf] = job[j].snapshot
         THEN Goto(j, "finish") /\ UNCHANGED lock
         ELSE Exit(j)
    /\ UNCHANGED <<file, clock, local, remote, reported, rehearsal, spent>>

ReadbackFails(j) ==
    /\ At(j, "readback")
    /\ spent.fault < MaxFault
    /\ spent' = [spent EXCEPT !.fault = @ + 1]
    /\ Exit(j)
    /\ UNCHANGED <<file, clock, local, remote, reported, rehearsal>>

(* Old local directories are removed, whatever became of their upload.     *)
Finish(j) ==
    /\ At(j, "finish")
    /\ local' = {s \in local : clock <= s + Retain}
    /\ reported' = reported \cup
                      {[stamp |-> job[j].stamp, version |-> job[j].snapshot.version]}
    /\ Exit(j)
    /\ UNCHANGED <<file, clock, remote, rehearsal, spent>>

Crash(j) ==
    /\ ~At(j, "idle")
    /\ spent.crash < MaxCrash
    /\ spent' = [spent EXCEPT !.crash = @ + 1]
    /\ Exit(j)
    /\ UNCHANGED <<file, clock, local, remote, reported, rehearsal>>

---------------------------------------------------------------------------
(* The rehearsal.                                                          *)

Newest(S) == IF S = {} THEN 0 ELSE CHOOSE s \in S : \A t \in S : t <= s

Present(s) == {leaf \in Leaves : remote[s][leaf] # None}
Complete(s) ==
    Present(s) = Leaves /\ \A leaf \in Leaves : remote[s][leaf] = remote[s]["archive"]

StartRehearsal ==
    /\ rehearsal.stage \in {"idle", "success", "failed"}
    /\ rehearsal' = [NoRehearsal EXCEPT !.stage = "list"]
    /\ UNCHANGED <<file, lock, clock, local, remote, job, reported, spent>>

(* The candidates are listed once.  newest and promised remember what was  *)
(* complete, and what backups had reported, at that moment.                *)
ListCatalog ==
    /\ rehearsal.stage = "list"
    /\ rehearsal' = [rehearsal EXCEPT
           !.stage = "consider",
           !.candidates = {s \in Stamps : Present(s) # {}},
           !.newest = Newest({s \in Stamps : Complete(s)}),
           !.promised = Newest({r.version : r \in reported})]
    /\ UNCHANGED <<file, lock, clock, local, remote, job, reported, spent>>

(* Mutants of Consider: the first candidate is taken as it is, as in the   *)
(* rehearsal of the foundation state; the candidates are not reversed.     *)
ConsiderNameOnly ==
    /\ rehearsal.stage = "consider" /\ rehearsal.candidates # {}
    /\ LET s == Newest(rehearsal.candidates) IN
         rehearsal' = [rehearsal EXCEPT !.chosen = s, !.stage = "fetch"]
    /\ UNCHANGED <<file, lock, clock, local, remote, job, reported, spent>>
ConsiderOldestFirst ==
    /\ rehearsal.stage = "consider" /\ rehearsal.candidates # {}
    /\ LET s == CHOOSE c \in rehearsal.candidates : \A t \in rehearsal.candidates : c <= t IN
         rehearsal' = IF Complete(s)
                        THEN [rehearsal EXCEPT !.chosen = s, !.stage = "fetch"]
                        ELSE [rehearsal EXCEPT !.candidates = @ \ {s}]
    /\ UNCHANGED <<file, lock, clock, local, remote, job, reported, spent>>

(* Newest first, the first one found complete and consistent is chosen.    *)
Consider ==
    /\ rehearsal.stage = "consider" /\ rehearsal.candidates # {}
    /\ LET s == Newest(rehearsal.candidates) IN
         rehearsal' = IF Complete(s)
                        THEN [rehearsal EXCEPT !.chosen = s, !.stage = "fetch"]
                        ELSE [rehearsal EXCEPT !.candidates = @ \ {s}]
    /\ UNCHANGED <<file, lock, clock, local, remote, job, reported, spent>>

NoCandidate ==
    /\ rehearsal.stage = "consider" /\ rehearsal.candidates = {}
    /\ rehearsal' = [rehearsal EXCEPT !.stage = "failed"]
    /\ UNCHANGED <<file, lock, clock, local, remote, job, reported, spent>>

(* A candidate that cannot be read is skipped like an incomplete one.      *)
SkipUnread ==
    /\ rehearsal.stage = "consider" /\ rehearsal.candidates # {}
    /\ spent.fault < MaxFault
    /\ spent' = [spent EXCEPT !.fault = @ + 1]
    /\ rehearsal' = [rehearsal EXCEPT !.candidates = @ \ {Newest(@)}, !.faulted = TRUE]
    /\ UNCHANGED <<file, lock, clock, local, remote, job, reported>>

(* The chosen leaves are fetched again, checked, decrypted and listed.     *)
Fetch ==
    /\ rehearsal.stage = "fetch"
    /\ LET s == rehearsal.chosen
           good == Complete(s) /\ InScope(remote[s]["archive"])
       IN  rehearsal' = [rehearsal EXCEPT !.stage = IF good THEN "success" ELSE "failed"]
    /\ UNCHANGED <<file, lock, clock, local, remote, job, reported, spent>>

(* Any other read that fails ends the rehearsal, an unread catalog as an   *)
(* empty one.                                                              *)
RehearsalFails ==
    /\ rehearsal.stage \in {"list", "consider", "fetch"}
    /\ spent.fault < MaxFault
    /\ spent' = [spent EXCEPT !.fault = @ + 1]
    /\ rehearsal' = [rehearsal EXCEPT !.stage = "failed", !.faulted = TRUE]
    /\ UNCHANGED <<file, lock, clock, local, remote, job, reported>>

---------------------------------------------------------------------------
(* OpenTofu and time.                                                      *)

BeginWrite ==
    /\ file.whole /\ file.version < MaxVersion
    /\ file' = [version |-> file.version + 1, whole |-> FALSE]
    /\ UNCHANGED <<lock, clock, local, remote, job, reported, rehearsal, spent>>

EndWrite ==
    /\ ~file.whole
    /\ file' = [file EXCEPT !.whole = TRUE]
    /\ UNCHANGED <<lock, clock, local, remote, job, reported, rehearsal, spent>>

Tick ==
    /\ clock < MaxClock
    /\ clock' = clock + 1
    /\ UNCHANGED <<file, lock, local, remote, job, reported, rehearsal, spent>>

Backup(j) ==
    \/ Start(j) \/ TakeLock(j) \/ HashBefore(j) \/ CopyFirstHalf(j) \/ CopySecondHalf(j)
    \/ HashAfter(j) \/ CheckScope(j) \/ MakeRun(j) \/ (\E leaf \in Leaves : Upload(j, leaf))
    \/ (\E leaf \in Leaves : UploadFails(j, leaf))
    \/ Readback(j) \/ ReadbackFails(j) \/ Finish(j) \/ Crash(j)

Rehearse ==
    \/ StartRehearsal \/ ListCatalog \/ Consider \/ NoCandidate \/ SkipUnread
    \/ Fetch \/ RehearsalFails

Next == (\E j \in Jobs : Backup(j)) \/ Rehearse \/ BeginWrite \/ EndWrite \/ Tick

Spec == Init /\ [][Next]_vars

---------------------------------------------------------------------------
(* Properties.                                                             *)

(* Types of the state.                                                     *)
TypeOK ==
    /\ file \in Content
    /\ lock \in Jobs \cup {"free"}
    /\ clock \in Stamps
    /\ local \subseteq Stamps
    /\ remote \in [Stamps -> [Leaves -> Content]]
    /\ job \in [Jobs -> [stage : Stages, before : Content, snapshot : Content,
                         stamp : 0..MaxClock]]
    /\ reported \subseteq [stamp : Stamps, version : 0..MaxVersion]
    /\ rehearsal \in
           [stage : {"idle", "list", "consider", "fetch", "success", "failed"},
            candidates : SUBSET Stamps, chosen : 0..MaxClock, newest : 0..MaxClock,
            promised : 0..MaxVersion, faulted : BOOLEAN]
    /\ spent \in [crash : 0..MaxCrash, fault : 0..MaxFault]

(* What the catalog shows as complete is a whole state with the expected   *)
(* addresses, although OpenTofu rewrites the file while it is copied and   *)
(* an upload may stop anywhere.                                            *)
CompleteIsWhole == \A s \in Stamps : Complete(s) => InScope(remote[s]["archive"])

(* A newer timestamp never holds an older state, although several backups  *)
(* are started at the same time: choosing by name is choosing by age.      *)
CatalogMonotone ==
    \A s, t \in Stamps : s < t /\ Complete(s) /\ Complete(t) =>
        remote[s]["archive"].version <= remote[t]["archive"].version

(* A rehearsal that no fault hits and that some complete run was there for *)
(* does not fail: interrupted uploads, also of runs still in progress, are *)
(* in nobody's way.                                                        *)
InterruptedUploadHarmless ==
    rehearsal.stage = "failed" /\ rehearsal.newest # 0 => rehearsal.faulted

(* A rehearsal that succeeds, all its reads answered, restores a state at  *)
(* least as recent as any backup had reported when it listed the catalog.  *)
RestoresRecent ==
    rehearsal.stage = "success" /\ ~rehearsal.faulted =>
        remote[rehearsal.chosen]["archive"].version >= rehearsal.promised

(* Restore selects the newest complete candidate.                          *)
NewestComplete == rehearsal.stage = "success" => rehearsal.chosen >= rehearsal.newest

=============================================================================
