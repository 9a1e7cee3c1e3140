------------------------------ MODULE ValueUpload ------------------------------
(***************************************************************************)
(* ansible/bin/upload-infisical-bootstrap-values: generate the bootstrap   *)
(* secrets once, keep them encrypted under recovery custody, and publish   *)
(* them to Infisical one component at a time, resumably.                   *)
(*                                                                         *)
(* The files it leaves behind are its only memory.  An invocation may stop *)
(* between any two of their writes; the next one decides from them and     *)
(* from the names of the remote keys whether it may go on.                 *)
(***************************************************************************)
EXTENDS Naturals, Sequences, FiniteSets

CONSTANTS
    Procs,       \* invocations that may be in progress
    Overlap,     \* may they be in progress at the same time?
    Bundles,     \* generated value bundles; a bundle names its artifact too
    Keys,        \* age identities
    Writers,     \* writer credentials the operator may install
    Vendor,      \* what a batch POST may do with existing keys
    MaxCrash,    \* bound: hard stops and signals
    MaxFault,    \* bound: failed or unanswered requests, unreadable Keychain
    MaxLoss,     \* bound: lost copies of the age identity
    MaxRotate,   \* bound: writer credential rotations
    MaxForeign   \* bound: writes by others to the remote paths

Marks == {"none", "empty", "alien", "extra"}

ASSUME UploadAssumption ==
    /\ Overlap \in BOOLEAN
    /\ \A x \in Bundles \cup Keys \cup Writers : x \notin Marks
    /\ Vendor \subseteq {"refuse", "overwrite"}
    /\ MaxCrash \in Nat /\ MaxFault \in Nat /\ MaxLoss \in Nat
    /\ MaxRotate \in Nat /\ MaxForeign \in Nat

Order == << "argocd", "postgresql", "mongodb" >>
Components == {"argocd", "postgresql", "mongodb"}

---------------------------------------------------------------------------
VARIABLES
    identity,   \* the age identity file
    keychain,   \* its copy in the login Keychain
    artifacts,  \* encrypted bundles in the recovery directory
    checksums,  \* their checksum files
    sealed,     \* per bundle, the identity it is encrypted to
    pending,    \* pending marker: [bundle, writer, whole]
    progress,   \* progress marker: [file, status]
    completed,  \* completed marker: the bundle it names
    remote,     \* per component, what the remote path holds
    flying,     \* POSTs without an answer that may still be carried out
    inv,        \* per invocation, where it is and what it holds in memory
    writer,     \* the writer credential on file
    vendor,     \* what a POST does with existing keys
    spent       \* what is used up of the bounds

custody == <<identity, keychain>>
bundlefiles == <<artifacts, checksums, sealed>>
markers == <<pending, progress, completed>>
server == <<remote, flying>>
environment == <<writer, vendor, spent>>
vars == <<identity, keychain, artifacts, checksums, sealed, pending, progress,
          completed, remote, flying, inv, writer, vendor, spent>>

NoPending == [bundle |-> "none", writer |-> "none", whole |-> FALSE]
Lines(s) == [c \in Components |-> s]
NoProgress == [file |-> FALSE, status |-> Lines("absent")]

Stages == {"idle", "keychain", "identity", "custody", "bind", "artifact", "checksum",
           "mark", "marked", "open", "line", "check", "status", "metadata", "post",
           "confirm", "record", "move", "complete", "remove"}
Results == {"none", "running", "crashed", "refused", "failed", "published"}

Idle(result) == [stage |-> "idle", result |-> result, seen |-> "none", key |-> "none",
                 writer |-> "none", bundle |-> "none", at |-> 1, status |-> "absent",
                 copy |-> Lines("absent")]

Init ==
    /\ identity = "none" /\ keychain = "none"
    /\ artifacts = {} /\ checksums = {}
    /\ sealed = [b \in Bundles |-> "none"]
    /\ pending = NoPending /\ progress = NoProgress /\ completed = "none"
    /\ remote = Lines("empty") /\ flying = {}
    /\ inv = [p \in Procs |-> Idle("none")]
    /\ writer \in Writers /\ vendor \in Vendor
    /\ spent = [crash |-> 0, fault |-> 0, loss |-> 0, rotate |-> 0, foreign |-> 0]

---------------------------------------------------------------------------
At(p, stage) == inv[p].stage = stage
Goto(p, stage) == inv' = [inv EXCEPT ![p].stage = stage]
End(p, result) == inv' = [inv EXCEPT ![p] = Idle(result)]
Current(p) == Order[inv[p].at]
(* Mutant of Proceed: the loop ends one component early.                   *)
ProceedShort(p) == inv' = [inv EXCEPT ![p].at = @ + 1,
                                      ![p].stage = IF inv[p].at = Len(Order) - 1
                                                     THEN "complete" ELSE "status"]
Proceed(p) == inv' = [inv EXCEPT ![p].at = @ + 1,
                                 ![p].stage = IF inv[p].at = Len(Order) THEN "complete"
                                                                        ELSE "status"]

(* A completed marker refuses; otherwise the writer credentials are copied *)
(* and fingerprinted once for the whole invocation.                        *)
Begin(p) ==
    /\ At(p, "idle")
    /\ Overlap \/ \A q \in Procs : At(q, "idle")
    /\ IF completed # "none"
         THEN End(p, "refused")
         ELSE inv' = [inv EXCEPT ![p] = [Idle("running") EXCEPT !.stage = "keychain",
                                                                !.writer = writer]]
    /\ UNCHANGED <<custody, bundlefiles, markers, server, environment>>

---------------------------------------------------------------------------
(* Custody of the age identity.                                            *)

(* Any failure to read the Keychain counts as "no copy there".             *)
ReadKeychain(p) ==
    /\ At(p, "keychain")
    /\ \/ /\ inv' = [inv EXCEPT ![p].seen = keychain, ![p].stage = "identity"]
          /\ UNCHANGED spent
       \/ /\ spent.fault < MaxFault
          /\ spent' = [spent EXCEPT !.fault = @ + 1]
          /\ inv' = [inv EXCEPT ![p].seen = "none", ![p].stage = "identity"]
    /\ UNCHANGED <<custody, bundlefiles, markers, server, writer, vendor>>

Known == {identity, keychain} \cup {sealed[b] : b \in Bundles}
              \cup {inv[p].key : p \in Procs} \cup {inv[p].seen : p \in Procs}

(* Without an identity file, the Keychain copy or a new key becomes it; a  *)
(* file that differs from the Keychain copy refuses.                       *)
HoldIdentity(p) ==
    /\ At(p, "identity")
    /\ LET seen == inv[p].seen IN
       \/ /\ identity = "none" /\ seen # "none"
          /\ identity' = seen
       \/ /\ identity = "none" /\ seen = "none"
          /\ \E k \in Keys \ Known : identity' = k
       \/ /\ identity # "none" /\ seen \in {"none", identity}
          /\ UNCHANGED identity
    /\ Goto(p, "custody")
    /\ UNCHANGED <<keychain, bundlefiles, markers, server, environment>>

RefuseIdentity(p) ==
    /\ At(p, "identity")
    /\ identity # "none" /\ inv[p].seen \notin {"none", identity}
    /\ End(p, "refused")
    /\ UNCHANGED <<custody, bundlefiles, markers, server, environment>>

(* Mutant of ShareIdentity: the Keychain item is updated if it exists.     *)
ShareByUpdate(p) ==
    /\ At(p, "custody")
    /\ IF identity = "none"
         THEN End(p, "refused") /\ UNCHANGED keychain
         ELSE /\ keychain' = IF inv[p].seen = "none" THEN identity ELSE keychain
              /\ inv' = [inv EXCEPT ![p].key = identity, ![p].stage = "bind"]
    /\ UNCHANGED <<identity, bundlefiles, markers, server, environment>>

(* The missing Keychain copy is added, which fails if there is one after   *)
(* all; then the recipient is derived from the file.                       *)
ShareIdentity(p) ==
    /\ At(p, "custody")
    /\ IF identity = "none" \/ (inv[p].seen = "none" /\ keychain # "none")
         THEN End(p, "refused") /\ UNCHANGED keychain
         ELSE /\ keychain' = IF inv[p].seen = "none" THEN identity ELSE keychain
              /\ inv' = [inv EXCEPT ![p].key = identity, ![p].stage = "bind"]
    /\ UNCHANGED <<identity, bundlefiles, markers, server, environment>>

---------------------------------------------------------------------------
(* Which bundle?                                                           *)

(* Mutant of Bound: the marker's writer fingerprints are not compared.     *)
BoundToAnyWriter(p) ==
    /\ pending.whole
    /\ pending.bundle \in artifacts \cap checksums
    /\ sealed[pending.bundle] = identity

(* With a pending marker: exactly its artifact, unchanged, decryptable,    *)
(* and bound to the same writers.                                          *)
Bound(p) ==
    /\ pending.whole
    /\ pending.bundle \in artifacts \cap checksums
    /\ pending.writer = inv[p].writer
    /\ sealed[pending.bundle] = identity
Resume(p) ==
    /\ At(p, "bind")
    /\ pending # NoPending
    /\ IF Bound(p)
         THEN inv' = [inv EXCEPT ![p].bundle = pending.bundle, ![p].stage = "check"]
         ELSE End(p, "refused")
    /\ UNCHANGED <<custody, bundlefiles, markers, server, environment>>

Orphans == artifacts \cup checksums

(* Without one: an artifact left behind refuses, else new values are made. *)
Generate(p) ==
    /\ At(p, "bind")
    /\ pending = NoPending
    /\ IF Orphans # {}
         THEN End(p, "refused")
         ELSE \E b \in Bundles \ {inv[q].bundle : q \in Procs} :
                inv' = [inv EXCEPT ![p].bundle = b, ![p].stage = "artifact"]
    /\ UNCHANGED <<custody, bundlefiles, markers, server, environment>>

SealArtifact(p) ==
    /\ At(p, "artifact")
    /\ artifacts' = artifacts \cup {inv[p].bundle}
    /\ sealed' = [sealed EXCEPT ![inv[p].bundle] = inv[p].key]
    /\ Goto(p, "checksum")
    /\ UNCHANGED <<custody, checksums, markers, server, environment>>

WriteChecksum(p) ==
    /\ At(p, "checksum")
    /\ checksums' = checksums \cup {inv[p].bundle}
    /\ Goto(p, "mark")
    /\ UNCHANGED <<custody, artifacts, sealed, markers, server, environment>>

(* Mutant of FinishPending: the writer fingerprints are left out.          *)
FinishUnbound(p) ==
    /\ At(p, "marked")
    /\ pending' = [bundle |-> inv[p].bundle, writer |-> "none", whole |-> TRUE]
    /\ Goto(p, "open")
    /\ UNCHANGED <<custody, bundlefiles, progress, completed, server, environment>>

(* The markers are written line by line into the final file.               *)
OpenPending(p) ==
    /\ At(p, "mark")
    /\ pending' = [bundle |-> inv[p].bundle, writer |-> inv[p].writer, whole |-> FALSE]
    /\ Goto(p, "marked")
    /\ UNCHANGED <<custody, bundlefiles, progress, completed, server, environment>>

FinishPending(p) ==
    /\ At(p, "marked")
    /\ pending' = [bundle |-> inv[p].bundle, writer |-> inv[p].writer, whole |-> TRUE]
    /\ Goto(p, "open")
    /\ UNCHANGED <<custody, bundlefiles, progress, completed, server, environment>>

OpenProgress(p) ==
    /\ At(p, "open")
    /\ progress' = [file |-> TRUE, status |-> Lines("absent")]
    /\ Goto(p, "line")
    /\ UNCHANGED <<custody, bundlefiles, pending, completed, server, environment>>

ProgressLine(p) ==
    /\ At(p, "line")
    /\ progress' = [file |-> TRUE,
                    status |-> [progress.status EXCEPT ![Current(p)] = "pending"]]
    /\ inv' = [inv EXCEPT ![p].at = IF @ = Len(Order) THEN 1 ELSE @ + 1,
                          ![p].stage = IF inv[p].at = Len(Order) THEN "check" ELSE "line"]
    /\ UNCHANGED <<custody, bundlefiles, pending, completed, server, environment>>

CheckProgress(p) ==
    /\ At(p, "check")
    /\ IF progress.file THEN Goto(p, "status") ELSE End(p, "refused")
    /\ UNCHANGED <<custody, bundlefiles, markers, server, environment>>

---------------------------------------------------------------------------
(* upload_component                                                        *)

(* Mutant of ReadStatus: a resumed invocation starts every component over. *)
ReadStatusAfresh(p) ==
    /\ At(p, "status")
    /\ inv' = [inv EXCEPT ![p].status = "pending", ![p].stage = "metadata"]
    /\ UNCHANGED <<custody, bundlefiles, markers, server, environment>>

ReadStatus(p) ==
    /\ At(p, "status")
    /\ IF progress.file
         THEN inv' = [inv EXCEPT ![p].status = progress.status[Current(p)],
                                 ![p].stage = "metadata"]
         ELSE End(p, "failed")
    /\ UNCHANGED <<custody, bundlefiles, markers, server, environment>>

(* The query names keys only: it cannot tell whose values they hold.       *)
ExactKeys(c) == remote[c] \notin {"empty", "extra"}
(* Mutant of Agrees: a populated path counts as an upload already made.    *)
AgreesIfPopulated(status, c) == (status = "pending" /\ remote[c] = "empty") \/ ExactKeys(c)
Agrees(status, c) == IF status = "pending" THEN remote[c] = "empty" ELSE ExactKeys(c)

Metadata(p) ==
    /\ At(p, "metadata")
    /\ LET status == inv[p].status IN
         CASE ~Agrees(status, Current(p)) -> End(p, "refused")
           [] Agrees(status, Current(p)) /\ status = "done" -> Proceed(p)
           [] Agrees(status, Current(p)) /\ status # "done" -> Goto(p, "post")
    /\ UNCHANGED <<custody, bundlefiles, markers, server, environment>>

(* What the server does with a batch of exactly the expected keys.         *)
Stored(c, b) == IF remote[c] = "empty" THEN b
                ELSE IF remote[c] = "extra" \/ vendor = "refuse" THEN remote[c]
                ELSE b
Admits(c) == remote[c] = "empty" \/ vendor = "overwrite"

Post(p) ==
    /\ At(p, "post")
    /\ remote' = [remote EXCEPT ![Current(p)] = Stored(Current(p), inv[p].bundle)]
    /\ IF Admits(Current(p)) THEN Goto(p, "confirm") ELSE End(p, "failed")
    /\ UNCHANGED <<custody, bundlefiles, markers, flying, environment>>

(* After a verified answer the key names are read once more.               *)
Confirm(p) ==
    /\ At(p, "confirm")
    /\ IF ExactKeys(Current(p)) THEN Goto(p, "record") ELSE End(p, "refused")
    /\ UNCHANGED <<custody, bundlefiles, markers, server, environment>>

(* Mutant of Record: every line is set, not the component's.               *)
RecordAll(p) ==
    /\ At(p, "record")
    /\ inv' = [inv EXCEPT ![p].copy = Lines("done"), ![p].stage = "move"]
    /\ UNCHANGED <<custody, bundlefiles, markers, server, environment>>

(* set_progress_done: rewrite into a copy, then move it over the file.     *)
Record(p) ==
    /\ At(p, "record")
    /\ IF progress.file
         THEN LET c == Current(p)
                  line == IF progress.status[c] = "absent" THEN "absent" ELSE "done"
              IN  inv' = [inv EXCEPT ![p].copy = [progress.status EXCEPT ![c] = line],
                                     ![p].stage = "move"]
         ELSE End(p, "failed")
    /\ UNCHANGED <<custody, bundlefiles, markers, server, environment>>

Move(p) ==
    /\ At(p, "move")
    /\ progress' = [file |-> TRUE, status |-> inv[p].copy]
    /\ Proceed(p)
    /\ UNCHANGED <<custody, bundlefiles, pending, completed, server, environment>>

Complete(p) ==
    /\ At(p, "complete")
    /\ completed' = inv[p].bundle
    /\ Goto(p, "remove")
    /\ UNCHANGED <<custody, bundlefiles, pending, progress, server, environment>>

RemoveMarkers(p) ==
    /\ At(p, "remove")
    /\ pending' = NoPending /\ progress' = NoProgress
    /\ End(p, "published")
    /\ UNCHANGED <<custody, bundlefiles, completed, server, environment>>

---------------------------------------------------------------------------
(* What may go wrong.                                                      *)

(* A request that has no effect and fails, or a response that does not     *)
(* have the expected form.                                                 *)
RequestFails(p) ==
    /\ inv[p].stage \in {"metadata", "post", "confirm"}
    /\ spent.fault < MaxFault
    /\ spent' = [spent EXCEPT !.fault = @ + 1]
    /\ End(p, "failed")
    /\ UNCHANGED <<custody, bundlefiles, markers, server, writer, vendor>>

(* The POST is sent and its answer never read: it may be carried out at    *)
(* once, later or not at all.                                              *)
Sent(p) == [component |-> Current(p), bundle |-> inv[p].bundle]
AnswerLost(p) ==
    /\ At(p, "post")
    /\ \/ /\ spent.fault < MaxFault
          /\ spent' = [spent EXCEPT !.fault = @ + 1]
          /\ End(p, "failed")
       \/ /\ spent.crash < MaxCrash
          /\ spent' = [spent EXCEPT !.crash = @ + 1]
          /\ End(p, "crashed")
    /\ flying' = flying \cup {Sent(p)}
    /\ UNCHANGED <<custody, bundlefiles, markers, remote, writer, vendor>>

Land(m) ==
    /\ m \in flying
    /\ flying' = flying \ {m}
    /\ \/ remote' = [remote EXCEPT ![m.component] = Stored(m.component, m.bundle)]
       \/ UNCHANGED remote
    /\ UNCHANGED <<custody, bundlefiles, markers, inv, environment>>

Crash(p) ==
    /\ ~At(p, "idle")
    /\ spent.crash < MaxCrash
    /\ spent' = [spent EXCEPT !.crash = @ + 1]
    /\ End(p, "crashed")
    /\ UNCHANGED <<custody, bundlefiles, markers, server, writer, vendor>>

LoseIdentity ==
    /\ spent.loss < MaxLoss
    /\ spent' = [spent EXCEPT !.loss = @ + 1]
    /\ \/ identity' = "none" /\ UNCHANGED keychain
       \/ keychain' = "none" /\ UNCHANGED identity
    /\ UNCHANGED <<bundlefiles, markers, server, inv, writer, vendor>>

RotateWriter ==
    /\ spent.rotate < MaxRotate
    /\ spent' = [spent EXCEPT !.rotate = @ + 1]
    /\ \E w \in Writers \ {writer} : writer' = w
    /\ UNCHANGED <<custody, bundlefiles, markers, server, inv, vendor>>

(* Somebody else writes under a path: the expected names or others too.    *)
ForeignWrite(c) ==
    /\ spent.foreign < MaxForeign
    /\ spent' = [spent EXCEPT !.foreign = @ + 1]
    /\ \E mark \in {"alien", "extra"} : remote' = [remote EXCEPT ![c] = mark]
    /\ UNCHANGED <<custody, bundlefiles, markers, flying, inv, writer, vendor>>

---------------------------------------------------------------------------
Script(p) ==
    \/ ReadKeychain(p) \/ HoldIdentity(p) \/ RefuseIdentity(p) \/ ShareIdentity(p)
    \/ Resume(p) \/ Generate(p) \/ SealArtifact(p) \/ WriteChecksum(p)
    \/ OpenPending(p) \/ FinishPending(p) \/ OpenProgress(p) \/ ProgressLine(p)
    \/ CheckProgress(p) \/ ReadStatus(p) \/ Metadata(p) \/ Post(p) \/ Confirm(p)
    \/ Record(p) \/ Move(p) \/ Complete(p) \/ RemoveMarkers(p)

Failure(p) == RequestFails(p) \/ AnswerLost(p) \/ Crash(p)

World ==
    \/ \E m \in flying : Land(m)
    \/ LoseIdentity \/ RotateWriter
    \/ \E c \in Components : ForeignWrite(c)

Next == (\E p \in Procs : Begin(p) \/ Script(p) \/ Failure(p)) \/ World

(* A started invocation does not stop by itself, and the operator starts   *)
(* another one as long as there is no completed marker.                    *)
Fairness == \A p \in Procs : WF_vars(Script(p)) /\ WF_vars(Begin(p))

Spec == Init /\ [][Next]_vars
FairSpec == Spec /\ Fairness

---------------------------------------------------------------------------
(* Properties.                                                             *)

Invocation ==
    [stage : Stages, result : Results, seen : Keys \cup {"none"}, key : Keys \cup {"none"},
     writer : Writers \cup {"none"}, bundle : Bundles \cup {"none"},
     at : 1..(Len(Order) + 1), status : {"absent", "pending", "done"},
     copy : [Components -> {"absent", "pending", "done"}]]

(* Types of the state; the marker naming a bundle names its writer too.    *)
TypeOK ==
    /\ identity \in Keys \cup {"none"} /\ keychain \in Keys \cup {"none"}
    /\ artifacts \subseteq Bundles /\ checksums \subseteq Bundles
    /\ sealed \in [Bundles -> Keys \cup {"none"}]
    /\ pending \in [bundle : Bundles, writer : Writers, whole : BOOLEAN] \cup {NoPending}
    /\ progress \in [file : BOOLEAN, status : [Components -> {"absent", "pending", "done"}]]
    /\ completed \in Bundles \cup {"none"}
    /\ remote \in [Components -> Bundles \cup {"empty", "alien", "extra"}]
    /\ flying \subseteq [component : Components, bundle : Bundles]
    /\ inv \in [Procs -> Invocation]
    /\ writer \in Writers /\ vendor \in Vendor
    /\ spent \in [crash : 0..MaxCrash, fault : 0..MaxFault, loss : 0..MaxLoss,
                  rotate : 0..MaxRotate, foreign : 0..MaxForeign]

(* The bundle the files commit to, from the moment the pending marker is   *)
(* whole.                                                                  *)
Committed == IF completed # "none" THEN completed
             ELSE IF pending.whole THEN pending.bundle ELSE "none"

(* The script implements the one-shot publication: whatever is interrupted,*)
(* unanswered or carried out late, and whether the server overwrites or    *)
(* refuses existing keys, no published component is ever given another     *)
(* bundle, and a completed marker appears only over a full publication.    *)
Publication == INSTANCE OneShotPublication
                 WITH bound <- Committed, published <- remote, done <- (completed # "none")
PublishesOnce == Publication!Spec

(* A value that reached the server can be recovered from the retained      *)
(* artifact with an age identity still in custody, although one copy of    *)
(* the identity was lost at any time and the Keychain could not be read.   *)
RecoverableValues ==
    \A c \in Components : remote[c] \in Bundles =>
        /\ remote[c] \in artifacts \cap checksums
        /\ sealed[remote[c]] # "none" /\ sealed[remote[c]] \in {identity, keychain}

(* A component recorded as done holds the values of the bound bundle, also *)
(* when the record was written by an earlier invocation.                   *)
ProgressHonest ==
    \A c \in Components :
        progress.status[c] = "done" => pending.whole /\ remote[c] = pending.bundle

(* Every upload is sent with the writer credential the pending marker is   *)
(* bound to, although the credential was rotated between invocations.      *)
Sends(p) == At(p, "post") /\ (remote' # remote \/ flying' # flying) /\ inv'[p] # inv[p]
SentByBoundWriter ==
    [][\A p \in Procs : Sends(p) => pending.whole /\ pending.writer = inv[p].writer]_vars

(* A path that is populated while its component is still recorded as       *)
(* pending and nothing runs is a state success is never declared from.     *)
Quiet == \A p \in Procs : At(p, "idle")
Ambiguous ==
    \E c \in Components : progress.status[c] = "pending" /\ remote[c] # "empty"
AmbiguousStops == [](Quiet /\ Ambiguous => [](completed = "none"))

(* Once a bundle is bound and all three progress lines are written, the    *)
(* operator who starts the script again either gets the publication        *)
(* completed or ends in that ambiguous state: nothing else is in the way.  *)
BoundResolves ==
    (pending.whole /\ \A c \in Components : progress.status[c] # "absent")
        ~> (completed # "none" \/ []Ambiguous)

=============================================================================
