# A verification project for cristexweb

TLA+ models of the control logic that cristexweb runs against its one-node k3s host: what is checked by TLC on small instances, what is proved by TLAPS for every value of the constants, and what is left out.

cristexweb is infrastructure as code. Nothing in it is a long-running server; its logic is in scripts, Ansible roles and action plugins that an operator starts, that change a cluster, a remote service or a few private files step by step, and that may be stopped between any two steps. The interesting question is always the same: what may the *next* invocation, or another party acting in between, meet, and is what it then does still safe?

## Inventory

### How the parts fit together

An operator starts a wrapper `src/ansible/bin/<lane>` with `check` or `apply`. The wrapper writes a short-lived attestation token and runs one playbook, which runs one role. The role reads everything it depends on (preflight), compares it with the reviewed contract, changes one object at a time through a guarded action plugin (`src/ansible/plugins/action/*_guarded*.py`), and verifies the result. Some lanes have no role (`upload-infisical-bootstrap-values`), some have no wrapper (`probe_k3s_network_policy.yml`). On the host, systemd timers start the backup scripts of `src/ansible/files/backup`. Components meet through the cluster's API objects, through private files (ledgers, markers, artifacts, attestations, evidence reports), through Infisical's remote paths and through the backup remote. There are no callbacks; the concurrency is between an invocation and everything else that writes to the same objects, and between two invocations.

### Components

| Component | State it keeps | Operations | What is hard | What makes it correct | Modelled |
|---|---|---|---|---|---|
| NetworkPolicy probe (`roles/network_policy_probe`) | labelled objects, private ledger file, in-memory list | plan, run, cleanup check, cleanup | hard stops between create and ledger, late creates, foreign writers, shared ledger path, dataplane lag | deletes only its own identities; leaves nothing behind; evidence means enforcement; recovery ends | `NetworkPolicyProbe` |
| Bootstrap value uploader (`bin/upload-infisical-bootstrap-values`) | identity copies, artifact, checksum, three markers, remote paths | one `apply`, resumable | stops between any two writes, lost or late answers, rotation of credentials | publishes one bundle once; recoverable; ambiguity stops | `ValueUpload`, `OneShotPublication` |
| Proxy secret zero (`bin/bootstrap-infisical-proxy-secrets`, `bin/transfer-infisical-proxy-recovery`, `roles/rclone_proxy_transfer`, `roles/infisical_proxy_secret_zero`) | artifact, pending/verified/completed markers, drive copy, Secrets | generate, transfer, apply | three lanes that hand over through markers and may be stopped in between | no Secret before its recovery copy is verified off host | in part: `GuardedLane` has the lane that applies the Secrets |
| OpenTofu state backups (`files/backup/opentofu-*`, `restore-opentofu-*`) | local archives, remote catalog, absence attestations | back up, attest absence, restore rehearsal, retention | partial upload, a catalog without manifest, concurrent timers | a catalog entry that can be restored is whole; names order states; rehearsals restore the recent one; absence and presence do not contradict | `StateBackup` (the github state; not the absence attestation, not the foundation lane) |
| Database backups (`files/backup/{mongodb,postgresql,rabbitmq}-*`) | local archive directory, remote directory | dump, encrypt, publish, read back, prune | stop in mid-publication, plaintext left, retention | success only after read-back; plaintext gone | no |
| Guarded closure lanes (`bin/bootstrap-mongodb`, `bin/bootstrap-postgresql`, ..., their roles and plugins) | cluster objects of a closed manifest set, attestation | check, apply | foreign objects and drift between prestate and apply, partial apply, retry | nothing is written past a guard; never adopts or overwrites foreign objects; retry converges | `GuardedLane`, `LaneContracts` |
| Secret materialization lanes (`roles/infisical_{database,argocd,cloudflared}_secrets_bootstrap`, `roles/infisical_cristexhub_{dev,prod}_runtime_bootstrap`, their plugins) | admission policy and binding, RBAC, custom resources of the operator | check, apply in stages | targets, producers and sources change between the first look and the grant | a writer gets its rights only over what was accepted; sources are created once | `GuardedLane`, `LaneContracts` |
| Database provisioning (`roles/shared_{mongodb,postgresql}_provisioning`, `files/database-provisioning`) | helper Pod and policy, database users | check, apply | helper interrupted, partial scopes, stale helper | only the own helper removed; one helper at a time; complete scopes untouched; a good end means every scope is there | `DatabaseProvisioning` |
| Universal Auth seed (`roles/infisical_universal_auth_seed`) | three Secrets, evidence files | apply | evidence expires, partial seeding | all or none adopted; no write without fresh evidence | in part: `GuardedLane` has the writes, not the evidence |
| Shared MongoDB policy closure (`plugins/action/shared_mongodb_networkpolicy_guarded_k8s.py`) | policy objects | check only | union of selectors | admitted set is the reviewed one | no |
| Keycloak identity source checks (`plugins/action/keycloak_dev_identity_transition_guarded.py`, `keycloak_dev_identity_guarded.py`) | none: four reviewed documents each | check only; apply is refused | none: no call is made | only the reviewed documents are accepted | no |
| rclone and OpenTofu installation (`plugins/action/rclone_install_guarded.py`, `roles/opentofu_install`) | versioned files, symlink | check, apply | stop between write and link | link never names an unverified file | no |
| k3s datastore preflight, read-only discovery, contract plugins | report file | read and classify | read consistency | none that several steps could violate | no: reads only |
| Reboot recovery, admin access, CoreDNS forwarding | host files, services | one guarded change each | reboot in the middle | rollback baseline exists before the change | in part: `GuardedLane` has the CoreDNS lane |
| Manifests, OpenTofu configuration, policies, specs, tests | none | none | none | none | no: data |

### Hazards

The list with its source lines is in `PROJECT.json` ("hazards"), each with the properties that would fail.

## Modules

| Module | What it is |
|---|---|
| `NetworkPolicyProbe` | the probe: run, recovery check, apply, API server, dataplane, foreign writer |
| `NetworkPolicyProbeProofs` | its theorems about identities and deletion |
| `ProbeLedgerProofs` | its theorems about the evidence and the ledger |
| `MCNetworkPolicyProbe` | its instances |
| `OneShotPublication` | what the uploader promises, as three atomic actions |
| `ValueUpload` | the uploader, file write by file write |
| `ValueUploadProofs` | its theorems |
| `MCValueUpload` | its instances |
| `StateBackup` | the backup of `github.tfstate`, its catalog and its rehearsal |
| `StateBackupProofs` | its theorems |
| `MCStateBackup` | its instances |
| `LaneContracts` | the repository's guarded lanes as tables: what each plugin demands, what each role does |
| `GuardedLane` | a lane at work: plays, cluster, checkout, token, everybody else |
| `GuardedLaneProofs` | its theorems on the plugins and on objects of others |
| `LaneEvidenceProofs` | its theorems on what a play knows when it grants, creates and ends |
| `MCGuardedLane` | `GuardedLane` on the tables of `LaneContracts` |
| `DatabaseProvisioning` | the play, its helper Pod's script, the scopes in the engine, the cluster |
| `DatabaseProvisioningProofs` | its theorems about what half-made scopes and replaced objects meet |
| `ProvisioningOutcomeProofs` | its theorems about what a play that ended well has done |

In each system module an operator with a name like `RegisterInMemory` that follows the comment "Mutant of" is a deliberately wrong variant of the definition below it. No specification uses it; the properties are known to fail when it takes the definition's place, and `PROJECT.json` pairs them.

## NetworkPolicyProbe

### State and actions

`live` and `labelled` are the namespace; `ledger` is the file `network-policy-probe.local.json`; `inv[r]` is the invocation in progress for run ID `r`, with the in-memory lists of the role (`owned`, `supplied`, `discovered`, `pending`, `target`) and the task it is at; `net[r]` is the data plane. `Script` is the block of `run.yml`, task by task; an include of `probe_pod.yml` is a creation, its registration and an observation. A failed task in the block goes to `rescue` and `always` (`Fail`), a failed task in cleanup ends the play.

`StartRun` is the preflight of `run`. `Create`, `Register`, `AwaitServer`, `Observe`, `VerifyServer`, `RemovePolicy`, `FinishBlock` are the tasks of the block; `ReadTarget` and `CallDelete` are `delete_object.yml`; `Discover`, `NextTarget`, `AllTargetsDone`, `VerifyResidue`, `UnlinkLedger` are `cleanup.yml` and `validate_cleanup.yml`; `RecoveryCheck`, `LedgerCheck`, `ApplyCleanup` are the three ways `ansible/README.md` tells the operator to recover. `plan` and `run --check` change nothing and have no action.

Each step is what happens between two points at which another party may act. Three things are coarser than the code: the preflight's reads are one step, the five list calls of a discovery are one step, and the wait after a deletion is part of `CallDelete`.

The environment: `Land` (a create the controller gave up on), `ClientTerminates`, `SyncDataplane` (a policy takes effect late, or its removal does), `ServerStarts`, `ServerRestarts`, `ServerFlaps`, and a foreign writer who deletes, replaces or relabels a generated name.

Assumptions: an API-generated name stands for its run and role; a foreign replacement has another UID; a run ID is used for one run (the preflight and the README require it to be unique); a recovery of an ID starts after the previous invocation for it ended; a create that was given up has been carried out by the time the zero-residue query is answered, or never is. The last one is what `VerifiedCleanup` rests on: no check at one instant can cover a request that arrives afterwards.

### Runs and bounds

| Run | Instance | Result |
|---|---|---|
| `probe_recovery` | one run ID, one hard stop, one task error, late creates, a wavering server; fair | `TypeOK`, `Custody`, `VerifiedCleanup`, `AtMostOneUnlisted`, `LedgerKept`, `ResidueResolved` hold |
| `probe_foreign` | one run ID, one foreign act, enforcing and ignoring CNI, restarts without bound | `ExactIdentity`, `ReviewedOnly`, `EvidenceSound` hold |
| `probe_stranded` | fair, one hard stop | `LedgerResolved` violated |
| `probe_shared` | two overlapping runs, one error | `LedgerRemovedOnlyClean` violated |

One hard stop and one error are enough for every pair of "interrupted here, then failed there"; an interrupted recovery is the hard stop falling into a check or an apply. The recovery commands are not bounded. That runs which overlap do not touch each other's objects (`OwnRunOnly`) is proved, for every set of run IDs, and has no run.

### What the violations show

*Stranded ledger.* After a hard stop between the last deletion and the ledger's removal, nothing is left to delete. The recovery check writes a ledger with an empty list, or validates one, and reports that the next gate is to remove `--check`; but `preflight.yml` refuses an apply with an empty list, and only an apply removes the file. Every later run is refused because of it. The way out is to delete the file by hand.

*Readiness*, which is sampled once after the denied phases, is not evidence: a server that was not Ready while the clients tried, and is again when it is looked at, passes; only restarts are remembered by the cluster. So `EvidenceSound` is stated for restarts and replacements only.

*Shared ledger.* The path is fixed and the removal does not look at whose ledger it is. Runs that overlap (both preflights before the first registration) remove each other's ledger. The labels still find the objects (`OwnRunOnly`, `ResidueResolved`), so this costs a recovery check, not an object. For the same reason a recovery check for one run ID overwrites the ledger another interrupted run left.

### Proofs

`NetworkPolicyProbeProofs` proves, for any set of run IDs, overlapping or not, any bounds and any faults: `TypeOK`, `Custody`, `ExactIdentity`, `ReviewedOnly`, `OwnRunOnly` and `VerifiedCleanup`. `Custody` is the heart: it says for one invocation what its lists and its target may contain at each stage. Each action either leaves an invocation's record alone or moves it along the stages (`MoveKeepsCustody`), and the action properties follow because the only step that removes objects is a `call` whose target is in the lists. `VerifiedCleanup` needs more: an invocation at `unlink` has just seen no residue, every creation that was given up belongs to the run's own invocation or has been settled, and a run ID whose last invocation ended cleanly creates nothing. That is the invariant `Settled`.

`ProbeLedgerProofs` proves the other three safety properties.

*`EvidenceSound`*, for any set of run IDs and any bounds, if the server cannot stop answering without a restart (`"flap" \notin ServerFaults`: the control reads readiness once and the restart count, so a flap that is over by then leaves no trace, and with it the property is false). The argument is the one the role's author must have had. Under a CNI that ignores policies a denied client is refused only if the server has gone down or one of server, Service and EndpointSlice is not the created one (`Broken`), and neither is ever undone: a restart count does not go back and a created identity does not return. The invariant follows a run through its script (`Misled`): past the first denied probe something is broken, and so it cannot get past the control at position 15. That a created identity does not return needs `Probing` to say that a run in its script has no creation under way.

*`AtMostOneUnlisted` and `LedgerKept`*, for any bounds and any foreign writer, with one run ID in use. With two the ledger of one may be overwritten by a recovery check of the other (see the hazards), and both are false. Neither property is inductive. `LInv` adds that while the script runs the file holds exactly what is in memory, that nothing is under way, and that no name still to be created is in use (`Listing`, with `CreationsDistinct`: no name is created twice); that a creation under way is not listed and not there yet (`Pending`); and that a replacement means the original is gone for good (`Twins`), without which a foreign writer could bring a listed object back between the residue query and the removal of the file (`Clean`). Most tasks only let objects go away: one lemma, `ShrinkListing`, deals with all of them.

The liveness properties `ResidueResolved` and `LedgerResolved` are model-checked only.

## ValueUpload

### State and actions

One variable per file the script leaves (`identity`, `keychain`, `artifacts`, `checksums`, `pending`, `progress`, `completed`), the remote paths, POSTs whose answer was never read, and per invocation what it holds in its shell variables and temporary directory. A bundle is a value of `Bundles`; its artifact is decryptable by the identity in `sealed`. A remote path is empty, holds a bundle's values, holds the expected names with somebody else's values (`alien`) or other names (`extra`): the script reads names only, so it cannot tell the second from the third.

There is one action per external effect or decision, in the script's order: `Begin`, the custody steps `ReadKeychain`, `HoldIdentity`, `RefuseIdentity`, `ShareIdentity`; `Resume` or `Generate`; the file writes `SealArtifact`, `WriteChecksum`, `OpenPending`, `FinishPending`, `OpenProgress`, `ProgressLine`; then `CheckProgress` and, per component, `ReadStatus`, `Metadata`, `Post`, `Confirm`, `Record`, `Move`; then `Complete` and `RemoveMarkers`. The markers are written in place, line by line, so a stop can leave a torn one; the progress rewrite is a copy and a rename. A signal runs the trap, which removes the temporary directory and lets the shell continue until it next needs it: that is a stop at a later step, and `Crash` covers it.

The environment: failed requests, an answer that is lost while the request is carried out now, later or never, an unreadable Keychain (which the script takes for an empty one), a lost copy of the identity, a rotated writer credential, foreign writes. The vendor's behaviour on a POST of existing keys is not fixed by the source (the runbook calls it a future contract), so both are modelled: refuse, or overwrite.

Coarser than the code: the three writer credentials are one (they are read together and compared together), generating the values is one choice, and the `rm` of the pending and the progress marker (line 761) is one step: the completed marker is there by then, and while it is every later start refuses.

### Runs and bounds

| Run | Instance | Result |
|---|---|---|
| `upload_oneshot` | two hard stops, one fault, both vendors; fair | `TypeOK`, `ProgressHonest`, `BoundResolves` hold; `PublishesOnce`: implements `OneShotPublication` |
| `upload_custody` | two keys; one hard stop, fault, loss, rotation and foreign write each; a vendor that overwrites, the one that can lose values | `RecoverableValues`, `SentByBoundWriter`, `AmbiguousStops` hold |

Two bundles are available, so that a second generation would be seen; two hard stops let a resumed invocation be interrupted too. `RecoverableValues` is about one lost copy: with both gone nothing can help.

Nothing excludes a second invocation: both look for artifacts before either writes one, both seal a bundle, the later pending marker wins, and components may end up published from different bundles under a completed marker that names one. The runs keep to one operator at a time (`Overlap = FALSE`), and what is proved says so.

A stop between the artifact and a whole pending marker, or before the progress marker, leaves a state every later invocation refuses. That is deliberate (the runbook asks for a reviewed decision), so `BoundResolves` starts when all markers are written.

### Proofs

`ValueUploadProofs` proves `TypeOK` for any instance; `SentByBoundWriter` when invocations do not overlap (`Overlap = FALSE`); and, when besides nobody else writes to the remote paths (`MaxForeign = 0`), `ProgressHonest` and that the script implements `OneShotPublication` (`PublishesOnce`), for any number of invocations, bundles, keys, writers, stops, faults, lost identities and rotations, and for a vendor that refuses or overwrites existing keys. The first condition is needed because nothing excludes a second invocation; the second is needed because the script cannot tell whose values a path holds.

The inductive invariant has three layers. `TInv` adds to `TypeOK` what an invocation holds at each stage. `MInv` adds that one invocation acts at a time and that the pending marker names the bundle and the writer of the one that publishes. `PInv` adds what the server holds: every path is empty or holds the bundle the files commit to (`Committed`), every POST still in flight carries it, and what the invocation has been through (`Reached`) is on the server. From `PInv` a POST, answered or landing late, either publishes the committed bundle on an empty path or changes nothing (`StoresCommitted`), which is the `Publish` step of the abstract specification or a stutter; `FinishPending` is `Bind` and `Complete` is `Declare`.

The two conditions are hypotheses of the theorems: nothing in the script establishes either.

`RecoverableValues` is proved for invocations that do not overlap and at most one lost copy of an identity (`MaxLoss <= 1`: with both copies gone nothing can be recovered). Its invariant `RInv` says of every key something is sealed with that it is in both places until a copy is lost and in one ever after (`Safe`, kept by every step: `SafeStep`); of an invocation, what it knows of the two copies at each stage of the custody checks (`Sighted`); and that artifact and checksum are there before anything names them (`Retained`, `Stocked`). The step that matters is the one that shares the identity with the Keychain: it adds a copy and never replaces one, so an identity generated while the Keychain could not be read is refused there with the old copy still in place, and nothing is sealed with a key before both copies exist.

`AmbiguousStops` is a temporal formula of the form "from then on", so an invariant is not enough: `AInv` (the progress lines and an invocation's place among them, `Lined`) is inductive, and under it `Stuck`, which says that a populated component is pending and that no invocation is past the look at its path, is never left by any step. It is proved for invocations that do not overlap, whoever else writes to the paths.

The liveness property `BoundResolves` is model-checked only.

## StateBackup

### State and actions

`file` is `github.tfstate`, `lock` the holder of the `flock`, `clock` what `date` prints, `local` the timestamps with a run directory under the archive root, `remote[s][l]` what leaf `l` of the directory `s` on the drive was made from, `job[j]` a backup, `rehearsal` the restore rehearsal. A state's content is its version and whether it is whole: encryption, checksum and manifest bind a leaf to the content it was made from, so two leaves agree exactly when they were made from the same content. `Exact` are the versions with exactly the three expected addresses. Three things are history and steer nothing: `reported`, and the rehearsal's `newest` and `promised`, what was complete and what had been reported when it listed the catalog.

The actions of a backup are the script's lines in order: `TakeLock` (refused when held), `HashBefore`, the copy in two halves (`CopyFirstHalf`, `CopySecondHalf`: what OpenTofu writes in between makes a mixture), `HashAfter`, `CheckScope`, `MakeRun`, one `Upload` per leaf with the manifest last, `Readback`, `Finish` with the local retention. However a backup ends (`Exit`), the kernel releases the lock. An upload may fail, or be done without an answer. The rehearsal lists the catalog once, considers the candidates newest first, and fetches the chosen one again.

The environment is OpenTofu, which writes the file in place (`BeginWrite`, `EndWrite`), and the clock, which does not run backwards. A signal runs the trap, which removes the snapshot and lets the shell continue: it stops at the next line that needs what was removed, which `Crash` covers, or goes on as if nothing had happened.

Coarser than the code: the run directory and its three local leaves are made in one step, the checks of one candidate are one step, and so is the second fetch of the chosen one. The remote directory is written by this script only, so extra leaves and nested directories, which the rehearsal skips, do not appear; nobody removes the state file.

### Runs and bounds

| Run | Instance | Result |
|---|---|---|
| `backup_catalog` | two backups repeated at will, three versions of which the first is out of scope, three timestamps, retention of one, one stop, one request that fails | `TypeOK`, `CompleteIsWhole`, `CatalogMonotone`, `InterruptedUploadHarmless`, `RestoresRecent` hold |
| `backup_stale` | one backup, one read of a candidate that fails | `NewestComplete` violated |

Two backups contend for the lock in every way. Three timestamps and versions give an incomplete directory above, below and between complete ones, and let retention and timestamp collisions happen. The symmetry is sound: no property names a backup and nothing is asked under fairness.

*The violation.* The runbook says restore selects the newest complete candidate. The loop treats a candidate whose listing or download fails as it treats an incomplete one and goes on: `restore_status=success` may be about an older state, and nothing in the report says that a newer one was passed over. `InterruptedUploadHarmless` and `RestoresRecent` are therefore about rehearsals whose reads were all answered (`~rehearsal.faulted`); a read that fails anywhere else ends the rehearsal.

### Proofs

`StateBackupProofs` proves all five properties of `backup_catalog` for any number of backups, versions and timestamps, any retention, stops and faults. The invariant `IInv` says what a backup may rely on while it holds the lock (`JobOK`): its snapshot is at least as recent as everything in the catalog, and once it has its timestamp nothing in the catalog is later. Every upload then keeps the catalog ordered (`CatalogOK`) and what was reported stays complete (`ReportedOK`). A rehearsal, which reads only, is carried by `RehearsalOK`: as long as its reads are answered, the newest complete run it listed stays a candidate until it, or a newer one that was completed meanwhile, is chosen. The strengthening is needed because `CatalogMonotone` alone says nothing about an upload in progress. That a set of timestamps has a newest element is proved from the well-foundedness of the naturals (`HasNewest`).

## The guarded lanes

### State and actions

`LaneContracts` holds one record per lane. `plugin` says which guards the lane's action plugin has (an unselected play, the role's own task file, the wrapper's token, the preflight's facts, the exact arguments) and what a definition is compared with: a table of hashes in the plugin, the checkout at the time of the call, its shape only, or the content the patch itself tests. `script` is the role: its tasks that read, refuse, mutate or verify, in their order. Manifests of one kind that a role treats alike are one object, in the order its loop applies them; lanes whose records are equal are checked once. So the 23 plugins and roles are 23 tables, and `GuardedLane` gives each kind of task one action.

`cluster` is the lane's objects (and the ones it only watches: targets, other producers of them, the credential) with a shape, a UID and a resource version; `files` the manifests in the checkout; `attested` the wrapper's token file; `play` the play that runs, with what it has loaded, seen, and bound. An object is "ours" if it has every field that its reviewed manifest sets, as it is set there. "drifted" carries the lane's labels and differs in such a field, "edited" is a drift that comes from an edited manifest, "foreign" has not the labels. What no manifest sets is no part of a shape: a merge leaves it, so no lane could promise anything of it. Roles that compare whole specs or label maps refuse some objects that are "ours" here, which only ends more plays; DEV Namespace compares the four labels its manifest sets.

`StartWrapped` is the wrapper; `StartByHand` is `ansible-playbook` with a task selection, with the role's internal variables set from outside, or a task file of somebody's own that calls the plugin (`CallByHand`); `Crash` stops a play, `WrapperEnds` removes the token while the play goes on. The other actions are kinds of tasks: the gates (`Reject`, `Attest`, `Hash`, `Load`, `Content`, `Contract`, `Bind`), the looks (`Read`, `Inventory`, `Look`, `Wait`), what a look must show (`AcceptLabels`, `AcceptExact`, `AcceptRevision` for a policy that may be of an earlier known revision, ..., and after the mutations `VerifyExact`, `VerifyLabels`, `VerifyPart`), later looks compared with earlier ones (`CompareVersion`, `CompareInventory`, `InEffect`, ...), and the mutations (`Apply`, `ApplyWhen`, `Create`, `Swap`), each of which asks the plugin (`Permits`) for each item of its loop. An item that fails does not keep the later ones from being tried; it fails the task at the end of the loop, as Ansible does.

The environment: somebody creates, changes, deletes or replaces an object (`Interfere`), the operator writes the target Secret (`Materialize`), an edit in the checkout (`EditFile`), an API call that fails.

Three tasks look at a few fields only, and the model lets them pass or refuse over any others: the contract and the post-state check of the DEV sync transition (`main.yml` 92-101 and 276-286: `prune`, `selfHeal`, `syncWindows`) and the post-state check of the DEV registration (122-137). The gates of the sync transition over other components (215-254) may refuse at any time.

Left out or coarser: check mode, which stops before the first mutation; other prerequisites of other components (nodes, Namespaces, storage, operator health) and the waits for readiness after the post-state check, which only read; the pairing of PersistentVolumeClaims with their volumes; a read that is skipped because its CRD is not there yet, which finds what there is, nothing. The Cloudflare secret role looks at the wrapper's environment variables only and leaves the token file to its plugin, so it has no `Attest`. A merge by the API server (`kubernetes.core.k8s` with `state: present`) is "becomes what the definition says".

### Runs and bounds

| Run | Instance | Result |
|---|---|---|
| `lanes` | every lane; two plays, hard stops and a vanished token at any point, one mishap (interference, an edit, a failed call or a play by hand) | `TypeOK`, `DoneIsComplete`, `NoFalseAlarm`, `NothingBypassed`, `OnlyReviewed`, `ForeignKept`, `GrantInOrder`, `CreatedOnce` hold |
| `lane_rerun` | the database Secret lane, two plays | `OwnStateAccepted` violated |

Two plays are what a retry needs: the first is stopped anywhere, the second meets what it left. One mishap between any two tasks is the race each recheck is there for; what several in one play can do is covered by the proofs. The behaviours end when the plays are used up, so a deadlock is no error.

`GrantInOrder` and `CreatedOnce` are about staged lanes: they say what must hold of every object that is still as the play last saw it when the writer's RBAC, or a source, is written. What changes between the last look and the write cannot be seen by any client; the admission policy is there for it. Of the credential `GrantInOrder` says only that it is the accepted one *if it is there*: if it is absent at the first inventory of the PROD runtime role (`main.yml:247`), there at the read that accepts it (`main.yml:549`), and gone again at the recheck, the comparison of the two inventories finds nothing amiss and the rights are granted without it; TLC shows this with three interferences. The recheck that follows the grant (`main.yml:941`) stops the play before a source is written, and that is `CreatedOnce`. `ForeignKept` is about plays of lanes that claim their objects and whose plugin refuses partial plays: a registration or a transition takes what is there.

`DoneIsComplete` has one exception, without which TLC refutes it on this instance. Between the task of the DEV sync transition that hashes its manifests (`main.yml` 74-85) and the one that loads them (86-91) a manifest may be edited; the plugin compares the definition with the checkout at the time of the call (`_source_hashes`, 28-39 and 61), so it passes, and the post-state check does not look at, say, `targetRevision`. The play ends well with an edited object. So the property says "as reviewed, unless the lane compares with the checkout and the manifest of that object was edited while this very play ran" (`LetThrough`; `play.revised` is a history of such edits that no step reads). An edit that was there when the play began, and any edit in the other 22 lanes, must not get through.

*The violation.* The database Secret lane owns two `InfisicalStaticSecret`s, and asks that the inventory of them count at most one: a completed lane, or one stopped after its second source, refuses its own objects for good. `NoFalseAlarm` is therefore about the lanes without such a count, and without the all-or-none rule of the Universal Auth seed, which is meant to stop a second play over half a seed.

### Proofs

`GuardedLaneProofs` proves `TypeOK`, `NothingBypassed`, `OnlyReviewed` and `ForeignKept` for *any* set of lanes that `LaneAssumption` admits, any number of plays and mishaps. The assumption is about the tables only, and TLC evaluates it on the repository's: a mutation is of an own object, and a lane that claims an object reads it and compares the reading before it writes it. `TInv` adds to the types that the place in a loop is one of the loop (`Placed`) and that only a play with a task selection leaves a task out (`Selected`). `ForeignKept` needs to carry a reading through the play: `KInv` says of each claimed object that was another's when the play began that it still is (`Standing`), that whatever task has read it holds that (`Known`), and that no comparison of that reading with the lane's own lies behind the play (`Unaccepted`). A mutation of that object would have one behind it, by the assumption.

`LaneEvidenceProofs` proves `GrantInOrder`, `CreatedOnce`, `DoneIsComplete` and `NoFalseAlarm`, for any number of plays, mishaps and interferences. They hold because of what the roles say, so they rest on a second assumption about the tables, `ScriptAssumption`: before `rbac` is written each object of a staged lane has been looked at and compared in the way its kind needs, and no later look at it has come between (`GrantPrepared`); the same before a source is created (`CreatePrepared`); every own object is applied, or swapped as read, in a lane whose plugin compares with the checkout only after the manifests were hashed, or else it is found exact by a last look (`Completed`, `Repairs`); and whatever may refuse a play goes by a look at the object that no write of the lane has made stale (`Answerable`), and nothing of a staged lane is written before its target was read and accepted (`TargetFirst`). That is static, a statement about the order of tasks, and TLC evaluates it on the repository's 23 tables. What it means for a running play is the invariant `EInv`. `Evident`: a task that is done with an object, and whose finding no later look has replaced, holds what it found. `Aged`: nothing read is newer than the cluster, and what is as new is equal to it, so "still as last seen" can be compared by version. `Current`: what was read of an object that nobody else touched and no task wrote since is what is there. `Fresh`: where no look has come after a read, the later look the play holds is that read. `Hashed`: a manifest behind the hash task is the reviewed one, or was edited in this play. `Righted`: a task that puts an object right has done so, or the loop it is in knows that an item failed (`play.failed`), or an edit was let through (`LetThrough`), which is the point of `DoneIsComplete`. At the end every task lies behind the play (`Ended`), so every own object has been put right, or was found exact by a look that is still true. Loops are handled item by item (`DoneAt`), since a play is between two items most of the time.

`NoFalseAlarm` adds what holds as long as nobody interferes (`FInv`). `Calm`: the watched objects are as they should be. `Untaken`: if the target is not the lane's, it was so from the start, and then no object of the lane has been written, so that all of them still are what the first revision left. `TargetKnown`: what was read of the target is there, or was nothing and the operator has written it. `Answered`: every refusal so far was over an object that is not the lane's own, or over a target that has a later version than the one that was read. A refusal goes by a reading that is still true (`Current`), so what it objects to is in the cluster (`AcceptAnswers`, `RecheckAnswers`); the other two rules, which count objects, are the exceptions the property names.

## DatabaseProvisioning

### State and actions

`scope[s]` is one database of the frozen map with its owner: how far it is made, which password it has, and which play's script created it; the two engines differ in the intermediate stages (MongoDB's `createUser` makes a scope in one statement) and in what they take for drift. `object[p]` is the helper NetworkPolicy and Pod named after play `p`, with the UIDs the API server gives; `helper[p]` the script in the Pod, which goes on whatever becomes of the play; `play[p]` the play with the UIDs it has bound.

The play's tasks are a list (`Tasks`): the stale checks, the read-only script in the engine's own Pod, creation and binding of the policy, creation of the Pod, polling; then the cleanup that always runs once the block was entered: find by name, labels and UID, delete with the UID as precondition, wait, for the Pod and then the policy; then the residue checks. A failing task in the block goes to the cleanup, one outside it ends the play: a Pod whose identity check fails keeps its policy from being cleaned up. The guarded plugin reads the token file again at every creation and deletion (`Admitted`), so a vanished token refuses the cleanup too.

The script is three loops: `Survey` counts the scopes that lack something and refuses drift, `Look` and the statements (`Principal`, `CreateDatabase`, `Connect`, `Schema`) make them, `Verify` and `Login` test each. A mounted password is the Secret's value when the Pod was made, or a later one: the kubelet refreshes it in its own time.

The environment: `Land` (a creation that failed for the play takes effect afterwards), `Gone` (a deleted object disappears; until then its script runs), objects removed, replaced or relabelled by somebody else, a new password in a Secret, an application that stores data, evictions and failing statements, hard stops.

Left out: check mode; prerequisites that only read; the shape of the definitions the plugin admits. The stale and residue reads differ only in which kubeconfig they name, which the model does not have. MongoDB's `runCommand` is taken to answer rather than to throw, as the script expects.

### Runs and bounds

| Run | Instance | Result |
|---|---|---|
| `provisioning` | both engines, two scopes, two plays, hard stops without bound, one mishap | `TypeOK`, `OneHelper`, `ResidueFree`, `CountHonest`, `DoneIsEstablished`, `ReplacementKept`, `NoImplicitRotation`, `HalfDoneWaits` hold |
| `provision_negatives` | one play, an owner that may enter another scope's database | `NegativesProved` violated |

Two scopes let one be complete while the other is made, and make the loops' ends differ from their middles; two plays let one meet what the other left, and run its script beside it. The mishap falls anywhere; hard stops and slow scripts cost none. Nothing is promised of two scripts at once (`history.together`): `OneHelper` says what must have happened for that.

A scope left between its database and its grants is worth knowing: at "database" it reads as drift and every later play refuses it; at "connected" it reads as ready, so no later script grants its schema, but its owner gets in.

*The violation.* The PostgreSQL script's negative check goes to each other database with a password file that has a line for the own one only, so it is refused for want of a password whatever the grants are. A play ends well while an owner may enter another scope's database.

### Proofs

`DatabaseProvisioningProofs` proves `TypeOK`, `HalfDoneWaits` and `ReplacementKept` for any number of scopes, plays and mishaps. `HalfDoneWaits` rests on `Held`: a script between database and schema works on a scope that has a database and that it created itself; every step keeps a database once there, with its creator (`Steady`), so no other script can come between. `ReplacementKept` rests on `Bound`: an ended or unstarted play holds no UID, a play holds none before it binds, and of an object that was replaced after binding it holds a smaller UID than the API server would compare with, which `Find` never binds again.

`ProvisioningOutcomeProofs` proves the other five properties of the run, for any number of scopes, plays, mishaps and hard stops, from an invariant of three parts (`Kept`). `OneAtWork` is about several plays: unless somebody is to blame (`history.excused`), at most one play runs, every running script's Pod carries the component's labels, and between the stale check and the creation no script runs; `OneHelper` is what it says of two scripts. `Cleared` is about one play's cleanup: past the wait for the end of an object it is gone, and a creation that may still land belongs to a play that gave up; it gives `ResidueFree`. `Sound` is about one script, as long as no two have worked together: a record of how far each of its three loops has come and what that means for each scope (made, given a password, logged in with), carried through every statement of both engines (`Fits`, `Succeeded`). `CountHonest`, `DoneIsEstablished` and `NoImplicitRotation` follow from it; that the number of scopes that lacked something is zero exactly when none did uses the library's facts about cardinality.

## Fairness

In the probe the controller and the kubelet do not stop (weak fairness of `Controller` and `ClientTerminates`: Ansible runs the next task, a Pod with an active deadline terminates), and the operator keeps using the recovery commands, which other steps disable and enable again (strong fairness of the three). Failures are never required. In the uploader a started script runs on and the operator starts it again while it is idle (weak fairness of both). Nothing is asked of the state backup, the lanes and the provisioning under fairness: systemd's timers and the operator may never start them, and a play that fails is not started again by anything in the code.

## Not modelled

Universal Auth seed, proxy secret zero and the host changes are modelled as far as they are guarded lanes: the evidence files with their expiry, the generation and transfer of the proxy values, the reboot and the admin access are not. The absence attestation and the foundation lane of the state backups repeat the upload and readback of the github state with another set of leaves. The database backups are shell scripts around dump and encryption tools with the same publication order. The two Keycloak identity plugins validate reviewed documents offline, in check mode only; they call nothing and keep no state. The shared MongoDB policy closure compares a closed set of policies with constants, in check mode only: nothing it reads is changed. Tool installation writes a verified file and then its link with module calls whose atomicity Ansible defines. Read-only discovery, the datastore preflight and the contract plugins keep no state but a report. Manifests and OpenTofu configuration are data.

What could be proved beyond this: nothing of the safety properties above; the liveness properties are out of the prover's reach.

## Limits

TLC covers the instances above. Liveness stays with TLC, as do properties stated over recursive data. Proofs are about the models; the correspondence with the code is by the line map in `PROJECT.json`.
