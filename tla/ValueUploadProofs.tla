--------------------------- MODULE ValueUploadProofs ---------------------------
(* Proofs about ValueUpload, for any set of invocations, bundles, keys and *)
(* writers and any bounds.                                                 *)
EXTENDS ValueUpload, TLAPS

Making == {"artifact", "checksum", "mark", "marked"}
Publishing == {"open", "line", "check", "status", "metadata", "post", "confirm",
               "record", "move", "complete", "remove"}
Looping == {"line", "status", "metadata", "post", "confirm", "record", "move"}
Uploading == Looping \ {"line"}

(* What an invocation holds in memory at each stage.                       *)
Placed(v) ==
    /\ v.stage # "idle" => v.writer \in Writers
    /\ v.stage \in Making \cup Publishing => v.bundle \in Bundles
    /\ v.stage \in Looping => v.at \in 1..3
    /\ v.stage \notin Looping \cup {"complete", "remove"} => v.at = 1

TInv == TypeOK /\ \A p \in Procs : Placed(inv[p])

(* One invocation at a time: the pending marker is the bundle and the      *)
(* writer of the one that publishes, and is not yet whole for one that     *)
(* still makes its artifact.                                               *)
Alone == \A p, q \in Procs : At(p, "idle") \/ At(q, "idle") \/ p = q
Marked(p) ==
    /\ inv[p].stage \in Making => ~pending.whole
    /\ inv[p].stage \in Publishing =>
          /\ pending.whole
          /\ pending.bundle = inv[p].bundle /\ pending.writer = inv[p].writer
MInv == TInv /\ Alone /\ \A p \in Procs : Marked(p)

(* What the server holds, as far as the files and the invocation tell.     *)
Reached(p) ==
    /\ inv[p].stage \notin {"idle", "remove"} => completed = "none"
    /\ inv[p].stage = "remove" => completed = inv[p].bundle
    /\ inv[p].stage \in Uploading =>
          \A i \in 1..3 : i < inv[p].at => remote[Order[i]] = inv[p].bundle
    /\ inv[p].stage \in {"record", "move"} => remote[Current(p)] = inv[p].bundle
    /\ inv[p].stage = "move" =>
          \A c \in Components : inv[p].copy[c] = "done" => remote[c] = inv[p].bundle
    /\ inv[p].stage = "complete" => \A c \in Components : remote[c] = inv[p].bundle
Faithful ==
    /\ completed # "none" => \A c \in Components : remote[c] = completed
    /\ \A c \in Components : remote[c] \in {"empty", Committed}
    /\ \A m \in flying : m.bundle = Committed
PInv == MInv /\ Faithful /\ ProgressHonest /\ \A p \in Procs : Reached(p)

---------------------------------------------------------------------------
(* Types.                                                                  *)

LEMMA OrderFacts ==
    /\ Len(Order) = 3
    /\ \A i \in 1..3 : Order[i] \in Components
    /\ \A c \in Components : \E i \in 1..3 : Order[i] = c
  BY DEF Order, Components

(* One invocation moves to a state it may hold: all of them stay placed.   *)
LEMMA MovePlaced ==
    ASSUME TInv, NEW p \in Procs, NEW v \in Invocation, Placed(v),
           inv' = [inv EXCEPT ![p] = v]
    PROVE  inv' \in [Procs -> Invocation] /\ \A q \in Procs : Placed(inv'[q])
  BY DEF TInv, TypeOK

LEMMA IdleTyped ==
    ASSUME NEW result \in Results
    PROVE  Idle(result) \in Invocation /\ Placed(Idle(result))
<1>1. Idle(result) \in Invocation
  BY OrderFacts DEF Idle, Invocation, Stages, Lines
<1>2. QED
  BY <1>1 DEF Idle, Placed, Making, Publishing, Looping

LEMMA EndPlaced ==
    ASSUME TInv, NEW p \in Procs, NEW result \in Results, End(p, result)
    PROVE  inv' \in [Procs -> Invocation] /\ \A q \in Procs : Placed(inv'[q])
  BY IdleTyped, MovePlaced DEF End

LEMMA GotoPlaced ==
    ASSUME TInv, NEW p \in Procs, NEW s \in Stages, Goto(p, s),
           Placed([inv[p] EXCEPT !.stage = s])
    PROVE  inv' \in [Procs -> Invocation] /\ \A q \in Procs : Placed(inv'[q])
<1> DEFINE v == [inv[p] EXCEPT !.stage = s]
<1>1. inv[p] \in Invocation
  BY DEF TInv, TypeOK
<1>2. v \in Invocation
  BY <1>1 DEF Invocation
<1>3. inv' = [inv EXCEPT ![p] = v]
  BY DEF Goto
<1>4. QED
  BY <1>2, <1>3, MovePlaced

LEMMA ProceedPlaced ==
    ASSUME TInv, NEW p \in Procs, inv[p].stage \in Uploading, Proceed(p)
    PROVE  inv' \in [Procs -> Invocation] /\ \A q \in Procs : Placed(inv'[q])
<1> DEFINE v == [inv[p] EXCEPT !.at = @ + 1,
                               !.stage = IF inv[p].at = 3 THEN "complete" ELSE "status"]
<1>1. inv[p] \in Invocation /\ Placed(inv[p])
  BY DEF TInv, TypeOK
<1>2. v \in Invocation
  <2>1. inv[p].at + 1 \in 1..(Len(Order) + 1)
    BY <1>1, OrderFacts DEF Placed, Looping, Uploading
  <2>2. (IF inv[p].at = 3 THEN "complete" ELSE "status") \in Stages
    BY DEF Stages
  <2>3. QED
    BY <1>1, <2>1, <2>2 DEF Invocation
<1>3. Placed(v)
  BY <1>1, OrderFacts DEF Invocation, Placed, Making, Publishing, Looping, Uploading
<1>4. inv' = [inv EXCEPT ![p] = v]
  BY OrderFacts DEF Proceed
<1>5. QED
  BY <1>2, <1>3, <1>4, MovePlaced

LEMMA InitTInv == ASSUME Init PROVE TInv
<1>1. TypeOK
  BY UploadAssumption, OrderFacts
  DEF Init, TypeOK, UploadAssumption, NoPending, NoProgress, Lines, Idle, Invocation,
      Stages, Results
<1>2. QED
  BY <1>1 DEF TInv, Init, Idle, Placed, Making, Publishing, Looping

LEMMA BeginTInv == ASSUME TInv, NEW p \in Procs, Begin(p) PROVE TInv'
<1>1. inv' \in [Procs -> Invocation] /\ \A q \in Procs : Placed(inv'[q])
  <2>1. CASE completed # "none"
    BY <2>1, EndPlaced DEF Begin, Results
  <2>2. CASE completed = "none"
    <3> DEFINE v == [Idle("running") EXCEPT !.stage = "keychain", !.writer = writer]
    <3>1. Idle("running") \in Invocation /\ writer \in Writers
      BY IdleTyped DEF TInv, TypeOK, Results
    <3>2. v \in Invocation
      BY <3>1 DEF Invocation, Stages
    <3>3. Placed(v)
      BY <3>1 DEF Idle, Placed, Making, Publishing, Looping
    <3>4. QED
      BY <2>2, <3>2, <3>3, MovePlaced DEF Begin
  <2>3. QED
    BY <2>1, <2>2
<1>2. QED
  BY <1>1 DEF TInv, TypeOK, Begin, custody, bundlefiles, markers, server, environment

LEMMA CustodyTInv ==
    ASSUME TInv, NEW p \in Procs,
           \/ ReadKeychain(p) \/ HoldIdentity(p) \/ RefuseIdentity(p) \/ ShareIdentity(p)
    PROVE  TInv'
<1>0. inv[p] \in Invocation /\ Placed(inv[p])
  BY DEF TInv, TypeOK
<1>1. CASE ReadKeychain(p)
  <2>1. PICK k \in Keys \cup {"none"} :
            inv' = [inv EXCEPT ![p].seen = k, ![p].stage = "identity"]
    BY <1>1 DEF ReadKeychain, TInv, TypeOK
  <2> DEFINE v == [inv[p] EXCEPT !.seen = k, !.stage = "identity"]
  <2>2. v \in Invocation /\ Placed(v)
    BY <1>0, <1>1 DEF ReadKeychain, At, Invocation, Stages, Placed, Making, Publishing,
                      Looping
  <2>3. inv' = [inv EXCEPT ![p] = v]
    BY <2>1
  <2>4. inv' \in [Procs -> Invocation] /\ \A q \in Procs : Placed(inv'[q])
    BY <2>2, <2>3, MovePlaced
  <2>5. spent' \in [crash : 0..MaxCrash, fault : 0..MaxFault, loss : 0..MaxLoss,
                    rotate : 0..MaxRotate, foreign : 0..MaxForeign]
    BY <1>1, UploadAssumption DEF ReadKeychain, TInv, TypeOK, UploadAssumption
  <2>6. QED
    BY <1>1, <2>4, <2>5 DEF ReadKeychain, TInv, TypeOK, custody, bundlefiles, markers,
                            server
<1>2. CASE HoldIdentity(p)
  <2>1. Placed([inv[p] EXCEPT !.stage = "custody"])
    BY <1>0, <1>2 DEF HoldIdentity, At, Invocation, Placed, Making, Publishing, Looping
  <2>2. inv' \in [Procs -> Invocation] /\ \A q \in Procs : Placed(inv'[q])
    BY <1>2, <2>1, GotoPlaced DEF HoldIdentity, Stages
  <2>3. identity' \in Keys \cup {"none"}
    BY <1>0, <1>2 DEF HoldIdentity, TInv, TypeOK, Invocation
  <2>4. QED
    BY <1>2, <2>2, <2>3 DEF HoldIdentity, TInv, TypeOK, bundlefiles, markers, server,
                            environment
<1>3. CASE RefuseIdentity(p)
  BY <1>3, EndPlaced DEF RefuseIdentity, Results, TInv, TypeOK, custody, bundlefiles,
                         markers, server, environment
<1>4. CASE ShareIdentity(p)
  <2>1. CASE identity = "none" \/ (inv[p].seen = "none" /\ keychain # "none")
    BY <1>4, <2>1, EndPlaced
    DEF ShareIdentity, Results, TInv, TypeOK, bundlefiles, markers, server, environment
  <2>2. CASE ~(identity = "none" \/ (inv[p].seen = "none" /\ keychain # "none"))
    <3> DEFINE v == [inv[p] EXCEPT !.key = identity, !.stage = "bind"]
    <3>1. v \in Invocation
      <4>1. identity \in Keys \cup {"none"} /\ "bind" \in Stages
        BY DEF TInv, TypeOK, Stages
      <4>2. QED
        BY <1>0, <4>1 DEF Invocation
    <3>2. Placed(v)
      BY <1>0, <1>4 DEF ShareIdentity, At, Invocation, Placed, Making, Publishing, Looping
    <3>3. inv' = [inv EXCEPT ![p] = v]
      BY <1>4, <2>2 DEF ShareIdentity
    <3>4. inv' \in [Procs -> Invocation] /\ \A q \in Procs : Placed(inv'[q])
      BY <3>1, <3>2, <3>3, MovePlaced
    <3>5. keychain' \in Keys \cup {"none"}
      BY <1>4, <2>2 DEF ShareIdentity, TInv, TypeOK
    <3>6. QED
      BY <1>4, <3>4, <3>5 DEF ShareIdentity, TInv, TypeOK, bundlefiles, markers, server,
                              environment
  <2>3. QED
    BY <2>1, <2>2
<1>5. QED
  BY <1>1, <1>2, <1>3, <1>4

LEMMA BindingTInv ==
    ASSUME TInv, NEW p \in Procs,
           \/ Resume(p) \/ Generate(p) \/ SealArtifact(p) \/ WriteChecksum(p)
    PROVE  TInv'
<1>0. inv[p] \in Invocation /\ Placed(inv[p])
  BY DEF TInv, TypeOK
<1>1. CASE Resume(p)
  <2>1. CASE Bound(p)
    <3> DEFINE v == [inv[p] EXCEPT !.bundle = pending.bundle, !.stage = "check"]
    <3>1. v \in Invocation /\ Placed(v)
      BY <1>0, <1>1, <2>1 DEF Resume, Bound, At, TInv, TypeOK, Invocation, Stages, Placed,
                              Making, Publishing, Looping
    <3>2. inv' = [inv EXCEPT ![p] = v]
      BY <1>1, <2>1 DEF Resume
    <3>3. inv' \in [Procs -> Invocation] /\ \A q \in Procs : Placed(inv'[q])
      BY <3>1, <3>2, MovePlaced
    <3>4. QED
      BY <1>1, <3>3 DEF Resume, TInv, TypeOK, custody, bundlefiles, markers, server,
                        environment
  <2>2. CASE ~Bound(p)
    BY <1>1, <2>2, EndPlaced DEF Resume, Results, TInv, TypeOK, custody, bundlefiles,
                                 markers, server, environment
  <2>3. QED
    BY <2>1, <2>2
<1>2. CASE Generate(p)
  <2>1. CASE Orphans # {}
    BY <1>2, <2>1, EndPlaced DEF Generate, Results, TInv, TypeOK, custody, bundlefiles,
                                 markers, server, environment
  <2>2. CASE Orphans = {}
    <3>1. PICK b \in Bundles :
              inv' = [inv EXCEPT ![p].bundle = b, ![p].stage = "artifact"]
      BY <1>2, <2>2 DEF Generate
    <3> DEFINE v == [inv[p] EXCEPT !.bundle = b, !.stage = "artifact"]
    <3>2. v \in Invocation /\ Placed(v)
      BY <1>0, <1>2 DEF Generate, At, Invocation, Stages, Placed, Making, Publishing,
                        Looping
    <3>3. inv' = [inv EXCEPT ![p] = v]
      BY <3>1
    <3>4. inv' \in [Procs -> Invocation] /\ \A q \in Procs : Placed(inv'[q])
      BY <3>2, <3>3, MovePlaced
    <3>5. QED
      BY <1>2, <3>4 DEF Generate, TInv, TypeOK, custody, bundlefiles, markers, server,
                        environment
  <2>3. QED
    BY <2>1, <2>2
<1>3. CASE SealArtifact(p)
  <2>1. Placed([inv[p] EXCEPT !.stage = "checksum"])
    BY <1>0, <1>3 DEF SealArtifact, At, Invocation, Placed, Making, Publishing, Looping
  <2>2. inv' \in [Procs -> Invocation] /\ \A q \in Procs : Placed(inv'[q])
    BY <1>3, <2>1, GotoPlaced DEF SealArtifact, Stages
  <2>3. inv[p].bundle \in Bundles /\ inv[p].key \in Keys \cup {"none"}
    BY <1>0, <1>3 DEF SealArtifact, At, Invocation, Placed, Making
  <2>4. QED
    BY <1>3, <2>2, <2>3 DEF SealArtifact, TInv, TypeOK, custody, markers, server,
                            environment
<1>4. CASE WriteChecksum(p)
  <2>1. Placed([inv[p] EXCEPT !.stage = "mark"])
    BY <1>0, <1>4 DEF WriteChecksum, At, Invocation, Placed, Making, Publishing, Looping
  <2>2. inv' \in [Procs -> Invocation] /\ \A q \in Procs : Placed(inv'[q])
    BY <1>4, <2>1, GotoPlaced DEF WriteChecksum, Stages
  <2>3. inv[p].bundle \in Bundles
    BY <1>0, <1>4 DEF WriteChecksum, At, Placed, Making
  <2>4. QED
    BY <1>4, <2>2, <2>3 DEF WriteChecksum, TInv, TypeOK, custody, markers, server,
                            environment
<1>5. QED
  BY <1>1, <1>2, <1>3, <1>4

LEMMA MarkingTInv ==
    ASSUME TInv, NEW p \in Procs,
           \/ OpenPending(p) \/ FinishPending(p) \/ OpenProgress(p) \/ ProgressLine(p)
           \/ CheckProgress(p)
    PROVE  TInv'
<1>0. inv[p] \in Invocation /\ Placed(inv[p])
  BY DEF TInv, TypeOK
<1>1. CASE OpenPending(p) \/ FinishPending(p)
  <2>1. inv' \in [Procs -> Invocation] /\ \A q \in Procs : Placed(inv'[q])
    <3>1. CASE OpenPending(p)
      <4>1. Placed([inv[p] EXCEPT !.stage = "marked"])
        BY <1>0, <3>1 DEF OpenPending, At, Invocation, Placed, Making, Publishing, Looping
      <4>2. QED
        BY <3>1, <4>1, GotoPlaced DEF OpenPending, Stages
    <3>2. CASE FinishPending(p)
      <4>1. Placed([inv[p] EXCEPT !.stage = "open"])
        BY <1>0, <3>2 DEF FinishPending, At, Invocation, Placed, Making, Publishing,
                          Looping
      <4>2. QED
        BY <3>2, <4>1, GotoPlaced DEF FinishPending, Stages
    <3>3. QED
      BY <1>1, <3>1, <3>2
  <2>2. inv[p].bundle \in Bundles /\ inv[p].writer \in Writers
    BY <1>0, <1>1 DEF OpenPending, FinishPending, At, Placed, Making
  <2>3. pending' \in [bundle : Bundles, writer : Writers, whole : BOOLEAN]
    <3>1. PICK whole \in BOOLEAN :
              pending' = [bundle |-> inv[p].bundle, writer |-> inv[p].writer,
                          whole |-> whole]
      BY <1>1 DEF OpenPending, FinishPending
    <3>2. QED
      BY <2>2, <3>1
  <2>4. QED
    BY <1>1, <2>1, <2>3 DEF OpenPending, FinishPending, TInv, TypeOK, custody,
                            bundlefiles, server, environment
<1>2. CASE OpenProgress(p)
  <2>1. Placed([inv[p] EXCEPT !.stage = "line"])
    BY <1>0, <1>2 DEF OpenProgress, At, Invocation, Placed, Making, Publishing, Looping
  <2>2. inv' \in [Procs -> Invocation] /\ \A q \in Procs : Placed(inv'[q])
    BY <1>2, <2>1, GotoPlaced DEF OpenProgress, Stages
  <2>3. QED
    BY <1>2, <2>2 DEF OpenProgress, Lines, TInv, TypeOK, custody, bundlefiles, server,
                      environment
<1>3. CASE ProgressLine(p)
  <2> DEFINE v == [inv[p] EXCEPT
                      !.at = IF @ = Len(Order) THEN 1 ELSE @ + 1,
                      !.stage = IF inv[p].at = Len(Order) THEN "check" ELSE "line"]
  <2>1. inv[p].at \in 1..3
    BY <1>0, <1>3 DEF ProgressLine, At, Placed, Looping
  <2>2. v \in Invocation
    <3>1. (IF inv[p].at = Len(Order) THEN 1 ELSE inv[p].at + 1) \in 1..(Len(Order) + 1)
      BY <2>1, OrderFacts
    <3>2. (IF inv[p].at = Len(Order) THEN "check" ELSE "line") \in Stages
      BY DEF Stages
    <3>3. QED
      BY <1>0, <3>1, <3>2 DEF Invocation
  <2>3. Placed(v)
    BY <1>0, <1>3, <2>1, OrderFacts DEF ProgressLine, At, Invocation, Placed, Making,
                                        Publishing, Looping
  <2>4. inv' = [inv EXCEPT ![p] = v]
    BY <1>3 DEF ProgressLine
  <2>5. inv' \in [Procs -> Invocation] /\ \A q \in Procs : Placed(inv'[q])
    BY <2>2, <2>3, <2>4, MovePlaced
  <2>6. progress' \in [file : BOOLEAN,
                       status : [Components -> {"absent", "pending", "done"}]]
    BY <1>3 DEF ProgressLine, TInv, TypeOK
  <2>7. QED
    BY <1>3, <2>5, <2>6 DEF ProgressLine, TInv, TypeOK, custody, bundlefiles, server,
                            environment
<1>4. CASE CheckProgress(p)
  <2>1. Placed([inv[p] EXCEPT !.stage = "status"])
    BY <1>0, <1>4 DEF CheckProgress, At, Invocation, Placed, Making, Publishing, Looping
  <2>2. inv' \in [Procs -> Invocation] /\ \A q \in Procs : Placed(inv'[q])
    BY <1>4, <2>1, GotoPlaced, EndPlaced DEF CheckProgress, Stages, Results
  <2>3. QED
    BY <1>4, <2>2 DEF CheckProgress, TInv, TypeOK, custody, bundlefiles, markers, server,
                      environment
<1>5. QED
  BY <1>1, <1>2, <1>3, <1>4

LEMMA QueryTInv ==
    ASSUME TInv, NEW p \in Procs, ReadStatus(p) \/ Metadata(p) \/ Confirm(p)
    PROVE  TInv'
<1>0. inv[p] \in Invocation /\ Placed(inv[p])
  BY DEF TInv, TypeOK
<1>1. inv' \in [Procs -> Invocation] /\ \A q \in Procs : Placed(inv'[q])
  <2>1. CASE ReadStatus(p) /\ progress.file
    <3>1. PICK status \in {"absent", "pending", "done"} :
              inv' = [inv EXCEPT ![p].status = status, ![p].stage = "metadata"]
      <4>1. Current(p) \in Components
        BY <1>0, <2>1, OrderFacts DEF ReadStatus, At, Placed, Looping, Current
      <4>2. QED
        BY <2>1, <4>1 DEF ReadStatus, TInv, TypeOK
    <3> DEFINE v == [inv[p] EXCEPT !.status = status, !.stage = "metadata"]
    <3>2. v \in Invocation
      BY <1>0 DEF Invocation, Stages
    <3>3. Placed(v)
      BY <1>0, <2>1 DEF ReadStatus, At, Invocation, Placed, Making, Publishing, Looping
    <3>4. inv' = [inv EXCEPT ![p] = v]
      BY <3>1
    <3>5. QED
      BY <3>2, <3>3, <3>4, MovePlaced
  <2>2. CASE ReadStatus(p) /\ ~progress.file
    BY <2>2, EndPlaced DEF ReadStatus, Results
  <2>3. CASE Metadata(p)
    <3>1. End(p, "refused") \/ Proceed(p) \/ Goto(p, "post")
      BY <2>3 DEF Metadata
    <3>2. Placed([inv[p] EXCEPT !.stage = "post"])
      BY <1>0, <2>3 DEF Metadata, At, Invocation, Placed, Making, Publishing, Looping
    <3>3. inv[p].stage \in Uploading
      BY <2>3 DEF Metadata, At, Uploading, Looping
    <3>4. QED
      BY <3>1, <3>2, <3>3, EndPlaced, ProceedPlaced, GotoPlaced DEF Results, Stages
  <2>4. CASE Confirm(p)
    <3>1. Placed([inv[p] EXCEPT !.stage = "record"])
      BY <1>0, <2>4 DEF Confirm, At, Invocation, Placed, Making, Publishing, Looping
    <3>2. QED
      BY <2>4, <3>1, EndPlaced, GotoPlaced DEF Confirm, Results, Stages
  <2>5. QED
    BY <2>1, <2>2, <2>3, <2>4
<1>2. QED
  BY <1>1 DEF ReadStatus, Metadata, Confirm, TInv, TypeOK, custody, bundlefiles, markers,
              server, environment

(* What the server may come to hold after a POST.                          *)
LEMMA StoredTyped ==
    ASSUME TInv, NEW c \in Components, NEW b \in Bundles
    PROVE  [remote EXCEPT ![c] = Stored(c, b)]
               \in [Components -> Bundles \cup {"empty", "alien", "extra"}]
  BY DEF TInv, TypeOK, Stored

LEMMA UploadTInv ==
    ASSUME TInv, NEW p \in Procs, Post(p) \/ Record(p) \/ Move(p)
    PROVE  TInv'
<1>0. inv[p] \in Invocation /\ Placed(inv[p]) /\ Current(p) \in Components
  <2>1. inv[p] \in Invocation /\ Placed(inv[p])
    BY DEF TInv, TypeOK
  <2>2. QED
    BY <2>1, OrderFacts DEF Post, Record, Move, At, Placed, Looping, Current
<1>1. CASE Post(p)
  <2>1. Placed([inv[p] EXCEPT !.stage = "confirm"])
    BY <1>0, <1>1 DEF Post, At, Invocation, Placed, Making, Publishing, Looping
  <2>2. inv' \in [Procs -> Invocation] /\ \A q \in Procs : Placed(inv'[q])
    BY <1>1, <2>1, EndPlaced, GotoPlaced DEF Post, Results, Stages
  <2>3. inv[p].bundle \in Bundles
    BY <1>0, <1>1 DEF Post, At, Placed, Publishing
  <2>4. remote' \in [Components -> Bundles \cup {"empty", "alien", "extra"}]
    BY <1>0, <1>1, <2>3, StoredTyped DEF Post
  <2>5. QED
    BY <1>1, <2>2, <2>4 DEF Post, TInv, TypeOK, custody, bundlefiles, markers, environment
<1>2. CASE Record(p)
  <2>1. CASE progress.file
    <3>1. PICK copy \in [Components -> {"absent", "pending", "done"}] :
              inv' = [inv EXCEPT ![p].copy = copy, ![p].stage = "move"]
      BY <1>0, <1>2, <2>1 DEF Record, TInv, TypeOK
    <3> DEFINE v == [inv[p] EXCEPT !.copy = copy, !.stage = "move"]
    <3>2. v \in Invocation
      BY <1>0 DEF Invocation, Stages
    <3>3. Placed(v)
      BY <1>0, <1>2 DEF Record, At, Invocation, Placed, Making, Publishing, Looping
    <3>4. inv' = [inv EXCEPT ![p] = v]
      BY <3>1
    <3>5. inv' \in [Procs -> Invocation] /\ \A q \in Procs : Placed(inv'[q])
      BY <3>2, <3>3, <3>4, MovePlaced
    <3>6. QED
      BY <1>2, <3>5 DEF Record, TInv, TypeOK, custody, bundlefiles, markers, server,
                        environment
  <2>2. CASE ~progress.file
    BY <1>2, <2>2, EndPlaced DEF Record, Results, TInv, TypeOK, custody, bundlefiles,
                                 markers, server, environment
  <2>3. QED
    BY <2>1, <2>2
<1>3. CASE Move(p)
  <2>1. inv' \in [Procs -> Invocation] /\ \A q \in Procs : Placed(inv'[q])
    BY <1>3, ProceedPlaced DEF Move, At, Uploading, Looping
  <2>2. inv[p].copy \in [Components -> {"absent", "pending", "done"}]
    BY <1>0 DEF Invocation
  <2>3. QED
    BY <1>3, <2>1, <2>2 DEF Move, TInv, TypeOK, custody, bundlefiles, server, environment
<1>4. QED
  BY <1>1, <1>2, <1>3

LEMMA CompletingTInv ==
    ASSUME TInv, NEW p \in Procs, Complete(p) \/ RemoveMarkers(p)
    PROVE  TInv'
<1>0. inv[p] \in Invocation /\ Placed(inv[p])
  BY DEF TInv, TypeOK
<1>1. CASE Complete(p)
  <2>1. Placed([inv[p] EXCEPT !.stage = "remove"])
    BY <1>0, <1>1 DEF Complete, At, Invocation, Placed, Making, Publishing, Looping
  <2>2. inv' \in [Procs -> Invocation] /\ \A q \in Procs : Placed(inv'[q])
    BY <1>1, <2>1, GotoPlaced DEF Complete, Stages
  <2>3. inv[p].bundle \in Bundles
    BY <1>0, <1>1 DEF Complete, At, Placed, Publishing
  <2>4. QED
    BY <1>1, <2>2, <2>3 DEF Complete, TInv, TypeOK, custody, bundlefiles, server,
                            environment
<1>2. CASE RemoveMarkers(p)
  <2>1. inv' \in [Procs -> Invocation] /\ \A q \in Procs : Placed(inv'[q])
    BY <1>2, EndPlaced DEF RemoveMarkers, Results
  <2>2. QED
    BY <1>2, <2>1 DEF RemoveMarkers, NoProgress, Lines, TInv, TypeOK, custody,
                      bundlefiles, server, environment
<1>3. QED
  BY <1>1, <1>2

LEMMA FailureTInv == ASSUME TInv, NEW p \in Procs, Failure(p) PROVE TInv'
<1>0. inv[p] \in Invocation /\ Placed(inv[p])
  BY DEF TInv, TypeOK
<1>1. End(p, "failed") \/ End(p, "crashed")
  BY DEF Failure, RequestFails, AnswerLost, Crash
<1>2. inv' \in [Procs -> Invocation] /\ \A q \in Procs : Placed(inv'[q])
  BY <1>1, EndPlaced DEF Results
<1>3. spent' \in [crash : 0..MaxCrash, fault : 0..MaxFault, loss : 0..MaxLoss,
                  rotate : 0..MaxRotate, foreign : 0..MaxForeign]
  BY UploadAssumption DEF Failure, RequestFails, AnswerLost, Crash, TInv, TypeOK,
                          UploadAssumption
<1>4. CASE RequestFails(p) \/ Crash(p)
  BY <1>2, <1>3, <1>4 DEF RequestFails, Crash, TInv, TypeOK, custody, bundlefiles,
                          markers, server
<1>5. CASE AnswerLost(p)
  <2>1. Sent(p) \in [component : Components, bundle : Bundles]
    BY <1>0, <1>5, OrderFacts DEF AnswerLost, Sent, Current, At, Placed, Looping,
                                  Publishing
  <2>2. QED
    BY <1>2, <1>3, <1>5, <2>1 DEF AnswerLost, TInv, TypeOK, custody, bundlefiles, markers
<1>6. QED
  BY <1>4, <1>5 DEF Failure

LEMMA WorldTInv == ASSUME TInv, World PROVE TInv'
<1>1. CASE \E m \in flying : Land(m)
  <2>1. PICK m \in flying : Land(m)
    BY <1>1
  <2>2. m.component \in Components /\ m.bundle \in Bundles
    BY DEF TInv, TypeOK
  <2>3. remote' \in [Components -> Bundles \cup {"empty", "alien", "extra"}]
    BY <2>1, <2>2, StoredTyped DEF Land, TInv, TypeOK
  <2>4. QED
    BY <2>1, <2>3 DEF Land, TInv, TypeOK, custody, bundlefiles, markers, environment
<1>2. CASE LoseIdentity \/ RotateWriter
  <2>1. spent' \in [crash : 0..MaxCrash, fault : 0..MaxFault, loss : 0..MaxLoss,
                    rotate : 0..MaxRotate, foreign : 0..MaxForeign]
    BY <1>2, UploadAssumption DEF LoseIdentity, RotateWriter, TInv, TypeOK,
                                  UploadAssumption
  <2>2. QED
    BY <1>2, <2>1 DEF LoseIdentity, RotateWriter, TInv, TypeOK, custody, bundlefiles,
                      markers, server
<1>3. CASE \E c \in Components : ForeignWrite(c)
  <2>1. spent' \in [crash : 0..MaxCrash, fault : 0..MaxFault, loss : 0..MaxLoss,
                    rotate : 0..MaxRotate, foreign : 0..MaxForeign]
    BY <1>3, UploadAssumption DEF ForeignWrite, TInv, TypeOK, UploadAssumption
  <2>2. remote' \in [Components -> Bundles \cup {"empty", "alien", "extra"}]
    BY <1>3 DEF ForeignWrite, TInv, TypeOK
  <2>3. QED
    BY <1>3, <2>1, <2>2 DEF ForeignWrite, TInv, TypeOK, custody, bundlefiles, markers
<1>4. QED
  BY <1>1, <1>2, <1>3 DEF World

LEMMA NextTInv == ASSUME TInv, [Next]_vars PROVE TInv'
<1>1. CASE \E p \in Procs : Begin(p) \/ Script(p) \/ Failure(p)
  BY <1>1, BeginTInv, CustodyTInv, BindingTInv, MarkingTInv, QueryTInv, UploadTInv,
     CompletingTInv, FailureTInv DEF Script
<1>2. CASE World
  BY <1>2, WorldTInv
<1>3. CASE UNCHANGED vars
  BY <1>3 DEF vars, TInv, TypeOK
<1>4. QED
  BY <1>1, <1>2, <1>3 DEF Next

(* Types are correct in every state; what TypeOK says of a marker or a     *)
(* request in flight rests on what an invocation holds at each stage.      *)
THEOREM TypeCorrect == Spec => []TypeOK
<1>1. TInv => TypeOK
  BY DEF TInv
<1>2. QED
  BY <1>1, InitTInv, NextTInv, PTL DEF Spec

---------------------------------------------------------------------------
(* One invocation at a time.                                               *)

Act(p) == Begin(p) \/ Script(p) \/ Failure(p)

(* Who acts, acts alone.                                                   *)
LEMMA Solo ==
    ASSUME MInv, Overlap = FALSE, NEW p \in Procs, Act(p)
    PROVE  \A q \in Procs \ {p} : At(q, "idle") /\ inv'[q] = inv[q]
<1>0. inv \in [Procs -> Invocation]
  BY DEF MInv, TInv, TypeOK
<1>1. \A q \in Procs \ {p} : At(q, "idle")
  <2>1. CASE Begin(p)
    BY <2>1 DEF Begin
  <2>2. CASE Script(p) \/ Failure(p)
    <3>1. ~At(p, "idle")
      BY <2>2 DEF Script, Failure, ReadKeychain, HoldIdentity, RefuseIdentity,
                  ShareIdentity, Resume, Generate, SealArtifact, WriteChecksum,
                  OpenPending, FinishPending, OpenProgress, ProgressLine, CheckProgress,
                  ReadStatus, Metadata, Post, Confirm, Record, Move, Complete,
                  RemoveMarkers, RequestFails, AnswerLost, Crash, At
    <3>2. QED
      BY <3>1 DEF MInv, Alone
  <2>3. QED
    BY <2>1, <2>2 DEF Act
<1>2. \A q \in Procs \ {p} : inv'[q] = inv[q]
  <2>1. CASE Begin(p)
    BY <1>0, <2>1 DEF Begin, End
  <2>2. CASE Failure(p)
    BY <1>0, <2>2 DEF Failure, RequestFails, AnswerLost, Crash, End
  <2>3. CASE \/ ReadKeychain(p) \/ HoldIdentity(p) \/ RefuseIdentity(p)
             \/ ShareIdentity(p) \/ Resume(p)
    BY <1>0, <2>3 DEF ReadKeychain, HoldIdentity, RefuseIdentity, ShareIdentity, Resume,
                      Goto, End
  <2>4. CASE \/ Generate(p) \/ SealArtifact(p) \/ WriteChecksum(p) \/ OpenPending(p)
             \/ FinishPending(p) \/ OpenProgress(p) \/ ProgressLine(p)
             \/ CheckProgress(p)
    BY <1>0, <2>4 DEF Generate, SealArtifact, WriteChecksum, OpenPending, FinishPending,
                      OpenProgress, ProgressLine, CheckProgress, Goto, End
  <2>5. CASE \/ ReadStatus(p) \/ Metadata(p) \/ Post(p) \/ Confirm(p)
    <3>1. CASE Metadata(p)
      <4>1. End(p, "refused") \/ Proceed(p) \/ Goto(p, "post")
        BY <3>1 DEF Metadata
      <4>2. QED
        BY <1>0, <4>1 DEF End, Proceed, Goto
    <3>2. QED
      BY <1>0, <2>5, <3>1 DEF ReadStatus, Post, Confirm, Goto, End
  <2>6. CASE Record(p) \/ Move(p) \/ Complete(p) \/ RemoveMarkers(p)
    BY <1>0, <2>6 DEF Record, Move, Complete, RemoveMarkers, Proceed, Goto, End
  <2>7. QED
    BY <2>1, <2>2, <2>3, <2>4, <2>5, <2>6 DEF Act, Script
<1>3. QED
  BY <1>1, <1>2

(* What the one that acts holds, and what it leaves of the pending marker. *)
LEMMA ActMarked ==
    ASSUME MInv, NEW p \in Procs, Act(p)
    PROVE  Marked(p)'
<1>0. inv \in [Procs -> Invocation] /\ inv[p] \in Invocation /\ Marked(p)
  BY DEF MInv, TInv, TypeOK
<1>1. CASE \E result \in Results : End(p, result)
  BY <1>0, <1>1 DEF End, Idle, Marked, Invocation, Making, Publishing
<1>2. CASE \/ Begin(p) \/ ReadKeychain(p) \/ HoldIdentity(p) \/ RefuseIdentity(p)
           \/ ShareIdentity(p)
  <2>1. inv'[p].stage \in {"idle", "keychain", "identity", "custody", "bind"}
    <3>1. CASE Begin(p)
      <4>1. Idle("running") \in Invocation
        BY IdleTyped DEF Results
      <4>2. CASE completed # "none"
        BY <1>0, <3>1, <4>2 DEF Begin, End, Idle
      <4>3. CASE completed = "none"
        <5> DEFINE v == [Idle("running") EXCEPT !.stage = "keychain", !.writer = writer]
        <5>1. v.stage = "keychain"
          BY <4>1 DEF Invocation
        <5>2. inv' = [inv EXCEPT ![p] = v]
          BY <3>1, <4>3 DEF Begin
        <5>3. inv'[p] = v
          BY <1>0, <5>2
        <5>4. QED
          BY <5>1, <5>3
      <4>4. QED
        BY <4>2, <4>3
    <3>2. CASE ReadKeychain(p) \/ HoldIdentity(p)
      BY <1>0, <3>2 DEF ReadKeychain, HoldIdentity, Goto, Invocation
    <3>3. CASE RefuseIdentity(p) \/ ShareIdentity(p)
      BY <1>0, <3>3 DEF RefuseIdentity, ShareIdentity, End, Idle, Invocation
    <3>4. QED
      BY <1>2, <3>1, <3>2, <3>3
  <2>2. QED
    BY <2>1 DEF Marked, Making, Publishing
<1>3. CASE Resume(p) /\ Bound(p)
  BY <1>0, <1>3 DEF Resume, Bound, markers, Marked, Invocation, Making, Publishing
<1>4. CASE Generate(p) /\ Orphans = {}
  <2>1. PICK b \in Bundles : inv' = [inv EXCEPT ![p].bundle = b, ![p].stage = "artifact"]
    BY <1>4 DEF Generate
  <2>2. inv'[p].stage = "artifact"
    BY <1>0, <2>1 DEF Invocation
  <2>3. ~pending'.whole
    BY <1>4 DEF Generate, NoPending, markers
  <2>4. QED
    BY <2>2, <2>3 DEF Marked, Publishing
<1>5. CASE SealArtifact(p) \/ WriteChecksum(p) \/ OpenPending(p)
  BY <1>0, <1>5 DEF SealArtifact, WriteChecksum, OpenPending, At, Goto, markers, Marked,
                    Invocation, Making, Publishing
<1>6. CASE FinishPending(p)
  BY <1>0, <1>6 DEF FinishPending, At, Goto, Marked, Invocation, Making, Publishing
<1>7. CASE OpenProgress(p) \/ ProgressLine(p) \/ (CheckProgress(p) /\ progress.file)
  BY <1>0, <1>7 DEF OpenProgress, ProgressLine, CheckProgress, At, Goto, markers, Marked,
                    Invocation, Making, Publishing
<1>8. CASE Metadata(p)
  <2>1. End(p, "refused") \/ Proceed(p) \/ Goto(p, "post")
    BY <1>8 DEF Metadata
  <2>2. QED
    BY <1>0, <1>8, <2>1 DEF Metadata, At, Proceed, Goto, End, Idle, markers, Marked,
                            Invocation, Making, Publishing
<1>9. CASE (ReadStatus(p) /\ progress.file) \/ (Record(p) /\ progress.file)
  BY <1>0, <1>9 DEF ReadStatus, Record, At, markers, Marked, Invocation, Making,
                    Publishing
<1>10. CASE Post(p) \/ Confirm(p)
  BY <1>0, <1>10 DEF Post, Confirm, At, Goto, End, Idle, markers, Marked, Invocation,
                     Making, Publishing
<1>11. CASE Move(p) \/ Complete(p)
  BY <1>0, <1>11 DEF Move, Complete, At, Goto, Proceed, Marked, Invocation, Making,
                     Publishing
<1>12. QED
  <2>1. CASE Failure(p)
    BY <2>1, <1>1 DEF Failure, RequestFails, AnswerLost, Crash, Results
  <2>2. CASE RemoveMarkers(p)
    BY <2>2, <1>1 DEF RemoveMarkers, Results
  <2>3. CASE Resume(p) /\ ~Bound(p)
    BY <2>3, <1>1 DEF Resume, Results
  <2>4. CASE Generate(p) /\ Orphans # {}
    BY <2>4, <1>1 DEF Generate, Results
  <2>5. CASE ~progress.file /\ (CheckProgress(p) \/ ReadStatus(p) \/ Record(p))
    BY <2>5, <1>1 DEF CheckProgress, ReadStatus, Record, Results
  <2>6. QED
    BY <1>2, <1>3, <1>4, <1>5, <1>6, <1>7, <1>8, <1>9, <1>10, <1>11,
       <2>1, <2>2, <2>3, <2>4, <2>5 DEF Act, Script

LEMMA NextMInv == ASSUME MInv, Overlap = FALSE, [Next]_vars PROVE MInv'
<1>0. TInv'
  BY NextTInv DEF MInv
<1>1. CASE World \/ UNCHANGED vars
  <2>1. UNCHANGED <<inv, pending>>
    BY <1>1 DEF World, Land, LoseIdentity, RotateWriter, ForeignWrite, vars, markers
  <2>2. QED
    BY <1>0, <2>1 DEF MInv, Alone, At, Marked
<1>2. CASE \E p \in Procs : Act(p)
  <2>1. PICK p \in Procs : Act(p)
    BY <1>2
  <2>2. \A q \in Procs \ {p} : At(q, "idle") /\ inv'[q] = inv[q]
    BY <2>1, Solo
  <2>3. \A q \in Procs : Marked(q)'
    BY <2>1, <2>2, ActMarked DEF At, Marked, Making, Publishing
  <2>4. Alone'
    BY <2>2 DEF Alone, At
  <2>5. QED
    BY <1>0, <2>3, <2>4 DEF MInv
<1>3. QED
  BY <1>1, <1>2 DEF Next, Act

LEMMA InitMInv == ASSUME Init PROVE MInv
  BY InitTInv DEF MInv, Init, Alone, At, Idle, Marked, Making, Publishing

(* When invocations do not overlap, every upload is sent with the writer   *)
(* credential the pending marker is bound to.                              *)
THEOREM SentByBoundWriterHolds ==
    ASSUME Overlap = FALSE PROVE Spec => SentByBoundWriter
<1>1. ASSUME MInv, NEW p \in Procs, Sends(p)
      PROVE  pending.whole /\ pending.writer = inv[p].writer
  BY <1>1 DEF MInv, Sends, At, Marked, Publishing
<1>2. MInv /\ [Next]_vars => MInv'
  BY NextMInv
<1>3. MInv => \A p \in Procs : Sends(p) => pending.whole /\ pending.writer = inv[p].writer
  BY <1>1
<1>4. QED
  BY <1>2, <1>3, InitMInv, PTL DEF Spec, SentByBoundWriter

---------------------------------------------------------------------------
(* What is published.                                                      *)

LEMMA MarksAreNoBundles ==
    \A b \in Bundles : b \notin {"none", "empty", "alien", "extra"}
  BY UploadAssumption DEF UploadAssumption, Marks

(* The invocation that publishes works on the bundle the files commit to.  *)
LEMMA Commitment ==
    ASSUME PInv, NEW p \in Procs, inv[p].stage \in Publishing
    PROVE  Committed = inv[p].bundle /\ Committed \in Bundles
<1>1. Placed(inv[p]) /\ Marked(p) /\ Reached(p)
  BY DEF PInv, MInv, TInv
<1>2. inv[p].bundle \in Bundles /\ inv[p].bundle # "none"
  BY <1>1, MarksAreNoBundles DEF Placed
<1>3. CASE inv[p].stage = "remove"
  BY <1>1, <1>2, <1>3 DEF Reached, Committed
<1>4. CASE inv[p].stage # "remove"
  BY <1>1, <1>2, <1>4 DEF Reached, Marked, Publishing, Committed
<1>5. QED
  BY <1>3, <1>4

(* A POST of that bundle publishes it or changes nothing, whichever way    *)
(* the server treats existing keys.                                        *)
LEMMA StoresCommitted ==
    ASSUME PInv, NEW c \in Components, Committed \in Bundles
    PROVE  Stored(c, Committed) = Committed
  BY MarksAreNoBundles DEF PInv, Faithful, Stored

LEMMA ServerStep ==
    ASSUME PInv, NEW c \in Components, Committed \in Bundles,
           remote' = [remote EXCEPT ![c] = Committed],
           UNCHANGED markers, flying' \subseteq flying
    PROVE  /\ Faithful' /\ ProgressHonest'
           /\ \A d \in Components : remote[d] = Committed => remote'[d] = Committed
<1>0. /\ remote \in [Components -> Bundles \cup {"empty", "alien", "extra"}]
      /\ Faithful /\ ProgressHonest /\ Committed' = Committed
      /\ UNCHANGED <<pending, progress, completed>>
  BY DEF PInv, MInv, TInv, TypeOK, markers, Committed
<1>1. \A d \in Components : remote[d] = Committed => remote'[d] = Committed
  BY <1>0
<1>2. Faithful'
  <2>1. \A d \in Components : remote'[d] \in {"empty", Committed'}
    BY <1>0 DEF Faithful
  <2>2. \A m \in flying' : m.bundle = Committed'
    BY <1>0 DEF Faithful
  <2>3. completed' # "none" => Committed = completed'
    BY <1>0 DEF Committed
  <2>4. completed' # "none" => \A d \in Components : remote'[d] = completed'
    BY <1>0, <1>1, <2>3 DEF Faithful
  <2>5. QED
    BY <2>1, <2>2, <2>4 DEF Faithful
<1>3. ProgressHonest'
  <2>1. ASSUME NEW d \in Components, progress'.status[d] = "done"
        PROVE  pending'.whole /\ remote'[d] = pending'.bundle
    <3>1. pending.whole /\ remote[d] = pending.bundle
      BY <1>0, <2>1 DEF ProgressHonest
    <3>2. pending.bundle \in Bundles
      BY <3>1 DEF PInv, MInv, TInv, TypeOK, NoPending
    <3>3. remote[d] = Committed
      BY <1>0, <3>1, <3>2, MarksAreNoBundles DEF Faithful
    <3>4. QED
      BY <1>0, <1>1, <3>1, <3>3
  <2>2. QED
    BY <2>1 DEF ProgressHonest
<1>4. QED
  BY <1>1, <1>2, <1>3

(* With the markers and the server as they are, nothing else matters.      *)
LEMMA QuietStep ==
    ASSUME PInv, UNCHANGED <<markers, server>>
    PROVE  Faithful' /\ ProgressHonest'
  BY DEF PInv, Faithful, ProgressHonest, Committed, markers, server

LEMMA EndReached ==
    ASSUME PInv, NEW p \in Procs, NEW result \in Results, End(p, result)
    PROVE  Reached(p)'
<1>1. inv'[p].stage = "idle"
  BY DEF PInv, MInv, TInv, TypeOK, End, Idle
<1>2. QED
  BY <1>1 DEF Reached, Uploading, Looping

LEMMA EarlyReached ==
    ASSUME NEW p \in Procs, completed' = "none",
           inv'[p].stage \notin Uploading \cup {"remove", "complete"}
    PROVE  Reached(p)'
  BY DEF Reached, Uploading, Looping

LEMMA ProceedReached ==
    ASSUME PInv, NEW p \in Procs, inv[p].stage \in {"metadata", "move"}, Proceed(p),
           UNCHANGED <<completed, remote>>, remote[Current(p)] = inv[p].bundle
    PROVE  Reached(p)'
<1>1. /\ inv \in [Procs -> Invocation] /\ inv[p] \in Invocation
      /\ Placed(inv[p]) /\ Reached(p)
  BY DEF PInv, MInv, TInv, TypeOK
<1>2. inv[p].at \in 1..3 /\ completed' = "none"
  BY <1>1 DEF Placed, Looping, Reached
<1>3. \A i \in 1..3 : i < inv[p].at + 1 => remote[Order[i]] = inv[p].bundle
  <2>1. ASSUME NEW i \in 1..3, i < inv[p].at + 1
        PROVE  remote[Order[i]] = inv[p].bundle
    <3>1. CASE i = inv[p].at
      BY <3>1 DEF Current
    <3>2. CASE i # inv[p].at
      BY <1>1, <1>2, <2>1, <3>2 DEF Reached, Uploading, Looping
    <3>3. QED
      BY <3>1, <3>2
  <2>2. QED
    BY <2>1
<1>4. /\ inv'[p].at = inv[p].at + 1 /\ inv'[p].bundle = inv[p].bundle
      /\ inv'[p].stage = IF inv[p].at = 3 THEN "complete" ELSE "status"
  BY <1>1, OrderFacts DEF Proceed, Invocation
<1>5. inv[p].at = 3 => \A c \in Components : remote[c] = inv[p].bundle
  <2>1. ASSUME inv[p].at = 3, NEW c \in Components PROVE remote[c] = inv[p].bundle
    <3>1. PICK i \in 1..3 : Order[i] = c
      BY OrderFacts
    <3>2. QED
      BY <1>3, <2>1, <3>1
  <2>2. QED
    BY <2>1
<1>6. CASE inv[p].at = 3
  BY <1>2, <1>4, <1>5, <1>6 DEF Reached, Uploading, Looping
<1>7. CASE inv[p].at # 3
  BY <1>2, <1>3, <1>4, <1>7 DEF Reached, Uploading, Looping
<1>8. QED
  BY <1>6, <1>7

LEMMA StartReached ==
    ASSUME PInv, NEW p \in Procs,
           \/ Begin(p) \/ ReadKeychain(p) \/ HoldIdentity(p) \/ RefuseIdentity(p)
           \/ ShareIdentity(p) \/ Resume(p) \/ Generate(p) \/ SealArtifact(p)
           \/ WriteChecksum(p) \/ OpenPending(p) \/ FinishPending(p) \/ OpenProgress(p)
           \/ ProgressLine(p)
    PROVE  Reached(p)'
<1>0. inv \in [Procs -> Invocation] /\ inv[p] \in Invocation /\ Reached(p)
  BY DEF PInv, MInv, TInv, TypeOK
<1>1. CASE \E result \in Results : End(p, result)
  BY <1>1, EndReached
<1>2. CASE Begin(p) /\ completed = "none"
  <2> DEFINE v == [Idle("running") EXCEPT !.stage = "keychain", !.writer = writer]
  <2>1. v.stage = "keychain"
    BY IdleTyped DEF Invocation, Results
  <2>2. inv' = [inv EXCEPT ![p] = v]
    BY <1>2 DEF Begin
  <2>3. inv'[p] = v
    BY <1>0, <2>2
  <2>4. completed' = "none"
    BY <1>2 DEF Begin, markers
  <2>5. QED
    BY <2>1, <2>3, <2>4, EarlyReached DEF Uploading, Looping
<1>3. CASE ReadKeychain(p) \/ HoldIdentity(p)
  <2>1. inv'[p].stage \in {"identity", "custody"}
    BY <1>0, <1>3 DEF ReadKeychain, HoldIdentity, Goto, Invocation
  <2>2. completed' = "none"
    BY <1>0, <1>3 DEF ReadKeychain, HoldIdentity, At, Reached, markers
  <2>3. QED
    BY <2>1, <2>2, EarlyReached DEF Uploading, Looping
<1>4. CASE ShareIdentity(p) \/ Resume(p)
  <2>1. CASE inv'[p].stage \in {"bind", "check"}
    <3>1. completed' = "none"
      BY <1>0, <1>4 DEF ShareIdentity, Resume, At, Reached, markers
    <3>2. QED
      BY <2>1, <3>1, EarlyReached DEF Uploading, Looping
  <2>2. CASE inv'[p].stage \notin {"bind", "check"}
    <3>1. End(p, "refused")
      BY <1>0, <1>4, <2>2 DEF ShareIdentity, Resume, Invocation
    <3>2. QED
      BY <1>1, <3>1 DEF Results
  <2>3. QED
    BY <2>1, <2>2
<1>5. CASE Generate(p) /\ Orphans = {}
  <2>1. PICK b \in Bundles : inv' = [inv EXCEPT ![p].bundle = b, ![p].stage = "artifact"]
    BY <1>5 DEF Generate
  <2>2. inv'[p].stage = "artifact"
    BY <1>0, <2>1 DEF Invocation
  <2>3. completed' = "none"
    BY <1>0, <1>5 DEF Generate, At, Reached, markers
  <2>4. QED
    BY <2>2, <2>3, EarlyReached DEF Uploading, Looping
<1>6. CASE \/ SealArtifact(p) \/ WriteChecksum(p) \/ OpenPending(p) \/ FinishPending(p)
           \/ OpenProgress(p) \/ ProgressLine(p)
  <2>1. inv'[p].stage \in {"checksum", "mark", "marked", "open", "line", "check"}
    BY <1>0, <1>6 DEF SealArtifact, WriteChecksum, OpenPending, FinishPending,
                      OpenProgress, ProgressLine, Goto, Invocation
  <2>2. completed' = "none"
    BY <1>0, <1>6 DEF SealArtifact, WriteChecksum, OpenPending, FinishPending,
                      OpenProgress, ProgressLine, At, Reached, markers
  <2>3. QED
    BY <2>1, <2>2, EarlyReached DEF Uploading, Looping
<1>7. QED
  <2>1. CASE Begin(p) /\ completed # "none"
    BY <2>1, <1>1 DEF Begin, Results
  <2>2. CASE RefuseIdentity(p) \/ (Generate(p) /\ Orphans # {})
    BY <2>2, <1>1 DEF RefuseIdentity, Generate, Results
  <2>3. QED
    BY <1>2, <1>3, <1>4, <1>5, <1>6, <2>1, <2>2

LEMMA LoopReached ==
    ASSUME PInv, NEW p \in Procs,
           \/ CheckProgress(p) \/ ReadStatus(p) \/ Metadata(p) \/ Confirm(p)
           \/ Record(p) \/ Move(p) \/ Complete(p) \/ RemoveMarkers(p)
    PROVE  Reached(p)'
<1>0. /\ inv \in [Procs -> Invocation] /\ inv[p] \in Invocation
      /\ Placed(inv[p]) /\ Marked(p) /\ Reached(p)
  BY DEF PInv, MInv, TInv, TypeOK
<1>1. CASE \E result \in Results : End(p, result)
  BY <1>1, EndReached
<1>2. CASE CheckProgress(p) /\ progress.file
  <2>1. inv'[p].stage = "status" /\ inv'[p].at = 1
    BY <1>0, <1>2 DEF CheckProgress, At, Goto, Invocation, Placed, Looping
  <2>2. completed' = "none"
    BY <1>0, <1>2 DEF CheckProgress, At, Reached, markers
  <2>3. QED
    BY <2>1, <2>2 DEF Reached
<1>3. CASE ReadStatus(p) /\ progress.file
  <2>1. /\ inv'[p].stage = "metadata" /\ inv'[p].at = inv[p].at
        /\ inv'[p].bundle = inv[p].bundle
    BY <1>0, <1>3 DEF ReadStatus, Invocation
  <2>2. UNCHANGED <<completed, remote>>
    BY <1>3 DEF ReadStatus, markers, server
  <2>3. QED
    BY <1>0, <1>3, <2>1, <2>2 DEF ReadStatus, At, Reached, Uploading, Looping
<1>4. CASE Metadata(p)
  <2>1. UNCHANGED <<completed, remote>>
    BY <1>4 DEF Metadata, markers, server
  <2>2. CASE End(p, "refused")
    BY <2>2, <1>1 DEF Results
  <2>3. CASE Goto(p, "post")
    <3>1. /\ inv'[p].stage = "post" /\ inv'[p].at = inv[p].at
          /\ inv'[p].bundle = inv[p].bundle
      BY <1>0, <2>3 DEF Goto, Invocation
    <3>2. QED
      BY <1>0, <1>4, <2>1, <3>1 DEF Metadata, At, Reached, Uploading, Looping
  <2>4. CASE ~End(p, "refused") /\ ~Goto(p, "post")
    <3>1. Proceed(p) /\ Agrees(inv[p].status, Current(p)) /\ inv[p].status = "done"
      BY <1>4, <2>4 DEF Metadata
    <3>2. Current(p) \in Components
      BY <1>0, <1>4, OrderFacts DEF Metadata, At, Placed, Looping, Current
    <3>3. remote[Current(p)] = Committed
      BY <3>1, <3>2 DEF Agrees, ExactKeys, PInv, Faithful
    <3>4. remote[Current(p)] = inv[p].bundle
      BY <1>4, <3>3, Commitment DEF Metadata, At, Publishing
    <3>5. QED
      BY <1>4, <2>1, <3>1, <3>4, ProceedReached DEF Metadata, At
  <2>5. QED
    BY <2>2, <2>3, <2>4
<1>5. CASE Confirm(p) /\ ExactKeys(Current(p))
  <2>1. /\ inv'[p].stage = "record" /\ inv'[p].at = inv[p].at
        /\ inv'[p].bundle = inv[p].bundle
    BY <1>0, <1>5 DEF Confirm, Goto, Invocation
  <2>2. UNCHANGED <<completed, remote>>
    BY <1>5 DEF Confirm, markers, server
  <2>3. Current(p) \in Components
    BY <1>0, <1>5, OrderFacts DEF Confirm, At, Placed, Looping, Current
  <2>4. remote[Current(p)] = inv[p].bundle
    BY <1>5, <2>3, Commitment DEF Confirm, At, ExactKeys, Publishing, PInv, Faithful
  <2>5. QED
    BY <1>0, <1>5, <2>1, <2>2, <2>4 DEF Confirm, At, Reached, Uploading, Looping, Current
<1>6. CASE Record(p) /\ progress.file
  <2>1. /\ inv'[p].stage = "move" /\ inv'[p].at = inv[p].at
        /\ inv'[p].bundle = inv[p].bundle
    BY <1>0, <1>6 DEF Record, Invocation
  <2>2. UNCHANGED <<completed, remote>>
    BY <1>6 DEF Record, markers, server
  <2>3. \A c \in Components : inv'[p].copy[c] = "done" =>
            progress.status[c] = "done" \/ c = Current(p)
    BY <1>0, <1>6 DEF Record, Invocation, PInv, MInv, TInv, TypeOK
  <2>4. \A c \in Components : inv'[p].copy[c] = "done" => remote[c] = inv[p].bundle
    BY <1>0, <1>6, <2>3 DEF Record, At, Marked, Publishing, Reached, PInv, ProgressHonest
  <2>5. QED
    BY <1>0, <1>6, <2>1, <2>2, <2>4 DEF Record, At, Reached, Uploading, Looping, Current
<1>7. CASE Move(p)
  <2>1. UNCHANGED <<completed, remote>>
    BY <1>7 DEF Move, server
  <2>2. remote[Current(p)] = inv[p].bundle
    BY <1>0, <1>7 DEF Move, At, Reached
  <2>3. QED
    BY <1>7, <2>1, <2>2, ProceedReached DEF Move, At
<1>8. CASE Complete(p)
  <2>1. inv'[p].stage = "remove" /\ inv'[p].bundle = inv[p].bundle
    BY <1>0, <1>8 DEF Complete, Goto, Invocation
  <2>2. completed' = inv[p].bundle
    BY <1>8 DEF Complete
  <2>3. QED
    BY <2>1, <2>2 DEF Reached, Uploading, Looping
<1>9. QED
  <2>1. CASE ~progress.file /\ (CheckProgress(p) \/ ReadStatus(p) \/ Record(p))
    BY <2>1, <1>1 DEF CheckProgress, ReadStatus, Record, Results
  <2>2. CASE (Confirm(p) /\ ~ExactKeys(Current(p))) \/ RemoveMarkers(p)
    BY <2>2, <1>1 DEF Confirm, RemoveMarkers, Results
  <2>3. QED
    BY <1>2, <1>3, <1>4, <1>5, <1>6, <1>7, <1>8, <2>1, <2>2

(* The POST itself.                                                        *)
LEMMA PostPInv ==
    ASSUME PInv, NEW p \in Procs, Post(p)
    PROVE  Faithful' /\ ProgressHonest' /\ Reached(p)'
<1>0. /\ inv \in [Procs -> Invocation] /\ inv[p] \in Invocation
      /\ Placed(inv[p]) /\ Reached(p)
  BY DEF PInv, MInv, TInv, TypeOK
<1>1. Committed = inv[p].bundle /\ Committed \in Bundles
  BY Commitment DEF Post, At, Publishing
<1>2. Current(p) \in Components
  BY <1>0, OrderFacts DEF Post, At, Placed, Looping, Current
<1>3. remote' = [remote EXCEPT ![Current(p)] = Committed]
  BY <1>1, <1>2, StoresCommitted DEF Post
<1>4. /\ Faithful' /\ ProgressHonest'
      /\ \A d \in Components : remote[d] = Committed => remote'[d] = Committed
  BY <1>1, <1>2, <1>3, ServerStep DEF Post
<1>5. Reached(p)'
  <2>1. CASE End(p, "failed")
    BY <2>1, EndReached DEF Results
  <2>2. CASE Goto(p, "confirm")
    <3>1. /\ inv'[p].stage = "confirm" /\ inv'[p].at = inv[p].at
          /\ inv'[p].bundle = inv[p].bundle
      BY <1>0, <2>2 DEF Goto, Invocation
    <3>2. completed' = "none"
      BY <1>0 DEF Post, At, Reached, markers
    <3>3. \A i \in 1..3 : i < inv[p].at => remote'[Order[i]] = Committed
      BY <1>0, <1>1, <1>4, OrderFacts DEF Post, At, Reached, Uploading, Looping
    <3>4. QED
      BY <1>1, <3>1, <3>2, <3>3 DEF Reached
  <2>3. QED
    BY <2>1, <2>2 DEF Post
<1>6. QED
  BY <1>4, <1>5

LEMMA FailurePInv ==
    ASSUME PInv, NEW p \in Procs, Failure(p)
    PROVE  Faithful' /\ ProgressHonest' /\ Reached(p)'
<1>1. Reached(p)'
  BY EndReached DEF Failure, RequestFails, AnswerLost, Crash, Results
<1>2. CASE RequestFails(p) \/ Crash(p)
  BY <1>1, <1>2, QuietStep DEF RequestFails, Crash
<1>3. CASE AnswerLost(p)
  <2>1. inv[p].bundle = Committed
    BY <1>3, Commitment DEF AnswerLost, At, Publishing
  <2>2. UNCHANGED <<pending, progress, completed, remote>>
    BY <1>3 DEF AnswerLost, markers
  <2>3. \A m \in flying' : m.bundle = Committed
    BY <1>3, <2>1 DEF AnswerLost, Sent, PInv, Faithful
  <2>4. QED
    BY <1>1, <2>2, <2>3 DEF PInv, Faithful, ProgressHonest, Committed
<1>4. QED
  BY <1>2, <1>3 DEF Failure

(* What the files commit to when a marker is written or removed.           *)
LEMMA MarkerCommits ==
    ASSUME PInv, NEW p \in Procs
    PROVE  /\ OpenPending(p) => Committed = "none" /\ Committed' = "none"
           /\ FinishPending(p) => Committed = "none" /\ Committed' = inv[p].bundle
           /\ OpenProgress(p) \/ ProgressLine(p) \/ Move(p) => Committed' = Committed
           /\ Complete(p) => Committed' = Committed /\ Committed' = completed'
           /\ RemoveMarkers(p) => Committed' = Committed
<1>0. Placed(inv[p]) /\ Marked(p) /\ Reached(p)
  BY DEF PInv, MInv, TInv
<1>1. OpenPending(p) => Committed = "none" /\ Committed' = "none"
  BY <1>0 DEF OpenPending, At, Marked, Making, Reached, Committed
<1>2. FinishPending(p) => Committed = "none" /\ Committed' = inv[p].bundle
  BY <1>0 DEF FinishPending, At, Marked, Making, Reached, Committed
<1>3. OpenProgress(p) \/ ProgressLine(p) \/ Move(p) => Committed' = Committed
  BY DEF OpenProgress, ProgressLine, Move, Committed
<1>4. ASSUME Complete(p) PROVE Committed' = Committed /\ Committed' = completed'
  <2>1. Committed = inv[p].bundle /\ inv[p].bundle # "none"
    BY <1>4, Commitment, MarksAreNoBundles DEF Complete, At, Publishing
  <2>2. completed' = inv[p].bundle
    BY <1>4 DEF Complete
  <2>3. QED
    BY <2>1, <2>2 DEF Committed
<1>5. ASSUME RemoveMarkers(p) PROVE Committed' = Committed
  <2>1. completed = inv[p].bundle /\ inv[p].bundle # "none"
    BY <1>0, <1>5, MarksAreNoBundles DEF RemoveMarkers, At, Reached, Placed, Publishing
  <2>2. QED
    BY <1>5, <2>1 DEF RemoveMarkers, Committed
<1>6. QED
  BY <1>1, <1>2, <1>3, <1>4, <1>5

LEMMA MarkerPInv ==
    ASSUME PInv, NEW p \in Procs,
           \/ OpenPending(p) \/ FinishPending(p) \/ OpenProgress(p) \/ ProgressLine(p)
           \/ Move(p) \/ Complete(p) \/ RemoveMarkers(p)
    PROVE  Faithful' /\ ProgressHonest'
<1>0. /\ TypeOK /\ inv[p] \in Invocation /\ Placed(inv[p])
      /\ Marked(p) /\ Reached(p) /\ Faithful /\ ProgressHonest
  BY DEF PInv, MInv, TInv, TypeOK
<1>1. UNCHANGED <<remote, flying>>
  BY DEF OpenPending, FinishPending, OpenProgress, ProgressLine, Move, Complete,
         RemoveMarkers, server
<1>2. CASE OpenPending(p)
  <2>1. ~pending.whole /\ completed' = completed /\ progress' = progress
    BY <1>0, <1>2 DEF OpenPending, At, Marked, Making
  <2>2. QED
    BY <1>0, <1>1, <1>2, <2>1, MarkerCommits DEF Faithful, ProgressHonest
<1>3. CASE FinishPending(p)
  <2>1. ~pending.whole /\ completed' = completed /\ progress' = progress
    BY <1>0, <1>3 DEF FinishPending, At, Marked, Making
  <2>2. Committed = "none" /\ completed = "none"
    BY <1>0, <1>3, MarkerCommits DEF FinishPending, At, Reached
  <2>3. flying = {} /\ \A c \in Components : remote[c] = "empty"
    BY <1>0, <2>2, MarksAreNoBundles DEF Faithful, TypeOK
  <2>4. QED
    BY <1>0, <1>1, <2>1, <2>2, <2>3 DEF Faithful, ProgressHonest
<1>4. CASE OpenProgress(p) \/ ProgressLine(p)
  <2>1. UNCHANGED <<pending, completed>>
    BY <1>4 DEF OpenProgress, ProgressLine
  <2>2. \A c \in Components : progress'.status[c] = "done" => progress.status[c] = "done"
    BY <1>0, <1>4 DEF OpenProgress, ProgressLine, Lines, TypeOK
  <2>3. QED
    BY <1>0, <1>1, <1>4, <2>1, <2>2, MarkerCommits DEF Faithful, ProgressHonest
<1>5. CASE Move(p)
  <2>1. UNCHANGED <<pending, completed>> /\ progress'.status = inv[p].copy
    BY <1>5 DEF Move
  <2>2. pending.whole /\ pending.bundle = inv[p].bundle
    BY <1>0, <1>5 DEF Move, At, Marked, Publishing
  <2>3. ProgressHonest'
    BY <1>0, <1>1, <1>5, <2>1, <2>2 DEF Move, At, Reached, ProgressHonest
  <2>4. QED
    BY <1>0, <1>1, <1>5, <2>1, <2>3, MarkerCommits DEF Faithful
<1>6. CASE Complete(p)
  <2>1. UNCHANGED <<pending, progress>> /\ completed' = inv[p].bundle
    BY <1>6 DEF Complete
  <2>2. \A c \in Components : remote[c] = inv[p].bundle
    BY <1>0, <1>6 DEF Complete, At, Reached
  <2>3. QED
    BY <1>0, <1>1, <1>6, <2>1, <2>2, MarkerCommits DEF Faithful, ProgressHonest
<1>7. CASE RemoveMarkers(p)
  <2>1. completed' = completed /\ progress' = NoProgress
    BY <1>7 DEF RemoveMarkers
  <2>2. QED
    BY <1>0, <1>1, <1>7, <2>1, MarkerCommits
    DEF Faithful, ProgressHonest, NoProgress, Lines
<1>8. QED
  BY <1>2, <1>3, <1>4, <1>5, <1>6, <1>7

LEMMA ActPInv ==
    ASSUME PInv, NEW p \in Procs, Act(p)
    PROVE  Faithful' /\ ProgressHonest' /\ Reached(p)'
<1>1. CASE UNCHANGED <<markers, server>> /\ ~Failure(p) /\ ~Post(p)
  BY <1>1, QuietStep, StartReached, LoopReached DEF Act, Script
<1>2. CASE \/ OpenPending(p) \/ FinishPending(p) \/ OpenProgress(p) \/ ProgressLine(p)
           \/ Move(p) \/ Complete(p) \/ RemoveMarkers(p)
  BY <1>2, MarkerPInv, StartReached, LoopReached
<1>3. CASE Post(p) \/ Failure(p)
  BY <1>3, PostPInv, FailurePInv
<1>4. \/ UNCHANGED <<markers, server>> \/ Post(p) \/ Failure(p)
      \/ OpenPending(p) \/ FinishPending(p) \/ OpenProgress(p) \/ ProgressLine(p)
      \/ Move(p) \/ Complete(p) \/ RemoveMarkers(p)
  BY DEF Act, Script, Begin, ReadKeychain, HoldIdentity, RefuseIdentity, ShareIdentity,
         Resume, Generate, SealArtifact, WriteChecksum, CheckProgress, ReadStatus,
         Metadata, Confirm, Record
<1>5. QED
  BY <1>1, <1>2, <1>3, <1>4

(* The environment, without writes by others to the remote paths.          *)
LEMMA WorldPInv ==
    ASSUME PInv, MaxForeign = 0, World
    PROVE  Faithful' /\ ProgressHonest' /\ \A p \in Procs : Reached(p)'
<1>1. CASE \E m \in flying : Land(m)
  <2>1. PICK m \in flying : Land(m)
    BY <1>1
  <2>2. m.component \in Components /\ m.bundle = Committed /\ Committed \in Bundles
    BY DEF PInv, MInv, TInv, TypeOK, Faithful
  <2>3. UNCHANGED markers /\ flying' \subseteq flying /\ UNCHANGED inv
    BY <2>1 DEF Land
  <2>4. CASE remote' = [remote EXCEPT ![m.component] = Stored(m.component, m.bundle)]
    <3>1. remote' = [remote EXCEPT ![m.component] = Committed]
      BY <2>2, <2>4, StoresCommitted
    <3>2. /\ Faithful' /\ ProgressHonest'
          /\ \A d \in Components : remote[d] = Committed => remote'[d] = Committed
      BY <2>2, <2>3, <3>1, ServerStep
    <3>3. ASSUME NEW p \in Procs PROVE Reached(p)'
      <4>1. Reached(p) /\ Placed(inv[p]) /\ completed' = completed
        BY <2>3 DEF PInv, MInv, TInv, markers
      <4>2. CASE inv[p].stage \in Publishing
        <5>1. Committed = inv[p].bundle
          BY <4>2, Commitment
        <5>2. inv[p].stage \in Uploading => Current(p) \in Components
          BY <4>1, OrderFacts DEF Placed, Uploading, Current
        <5>3. QED
          BY <2>3, <3>2, <4>1, <5>1, <5>2, OrderFacts
          DEF Reached, Uploading, Looping, Current
      <4>3. CASE inv[p].stage \notin Publishing
        BY <2>3, <4>1, <4>3 DEF Reached, Publishing, Uploading, Looping
      <4>4. QED
        BY <4>2, <4>3
    <3>4. QED
      BY <3>2, <3>3
  <2>5. CASE UNCHANGED remote
    BY <2>3, <2>5 DEF markers, PInv, Faithful, ProgressHonest, Reached, Committed, Current
  <2>6. QED
    BY <2>1, <2>4, <2>5 DEF Land
<1>2. CASE LoseIdentity \/ RotateWriter
  <2>1. UNCHANGED <<markers, server, inv>>
    BY <1>2 DEF LoseIdentity, RotateWriter
  <2>2. QED
    BY <2>1, QuietStep DEF PInv, Reached, Current, markers, server
<1>3. CASE \E c \in Components : ForeignWrite(c)
  BY <1>3, UploadAssumption DEF ForeignWrite, UploadAssumption, PInv, MInv, TInv, TypeOK
<1>4. QED
  BY <1>1, <1>2, <1>3 DEF World

LEMMA NextPInv ==
    ASSUME PInv, Overlap = FALSE, MaxForeign = 0, [Next]_vars PROVE PInv'
<1>0. MInv'
  BY NextMInv DEF PInv
<1>1. CASE \E p \in Procs : Act(p)
  <2>1. PICK p \in Procs : Act(p)
    BY <1>1
  <2>2. \A q \in Procs \ {p} : At(q, "idle") /\ inv'[q] = inv[q]
    BY <2>1, Solo DEF PInv
  <2>3. \A q \in Procs \ {p} : Reached(q)'
    BY <2>2 DEF At, Reached, Uploading, Looping
  <2>4. QED
    BY <1>0, <2>1, <2>3, ActPInv DEF PInv
<1>2. CASE World
  BY <1>0, <1>2, WorldPInv DEF PInv
<1>3. CASE UNCHANGED vars
  BY <1>0, <1>3, QuietStep DEF vars, PInv, Reached, Current, markers, server
<1>4. QED
  BY <1>1, <1>2, <1>3 DEF Next, Act

LEMMA InitPInv == ASSUME Init PROVE PInv
<1>1. MInv
  BY InitMInv
<1>2. Faithful /\ ProgressHonest
  BY DEF Init, Faithful, ProgressHonest, NoProgress, Lines
<1>3. \A p \in Procs : Reached(p)
  BY DEF Init, Idle, Reached, Uploading, Looping
<1>4. QED
  BY <1>1, <1>2, <1>3 DEF PInv

(* When invocations do not overlap and nobody else writes to the paths, a  *)
(* component recorded as done holds the values of the bound bundle.        *)
THEOREM ProgressHonestHolds ==
    ASSUME Overlap = FALSE, MaxForeign = 0 PROVE Spec => []ProgressHonest
<1>1. PInv /\ [Next]_vars => PInv'
  BY NextPInv
<1>2. PInv => ProgressHonest
  BY DEF PInv
<1>3. QED
  BY <1>1, <1>2, InitPInv, PTL DEF Spec

---------------------------------------------------------------------------
(* Refinement.                                                             *)

LEMMA InitPublication == ASSUME Init PROVE Publication!Init
  BY DEF Init, Publication!Init, Committed, NoPending, Lines

(* A POST, read or not, is a Publish step of the abstract specification or *)
(* none at all.                                                            *)
LEMMA StorePublishes ==
    ASSUME PInv, NEW c \in Components, Committed \in Bundles,
           remote' = [remote EXCEPT ![c] = Committed], UNCHANGED markers
    PROVE  Publication!Publish(c) \/ UNCHANGED <<Committed, remote, completed # "none">>
<1>1. Committed' = Committed /\ completed' = completed /\ Committed # "none"
  BY MarksAreNoBundles DEF markers, Committed
<1>2. CASE remote[c] = "empty"
  BY <1>1, <1>2 DEF Publication!Publish
<1>3. CASE remote[c] # "empty"
  <2>1. remote[c] = Committed
    BY <1>3 DEF PInv, Faithful
  <2>2. remote' = remote
    BY <2>1 DEF PInv, MInv, TInv, TypeOK
  <2>3. QED
    BY <1>1, <2>2
<1>4. QED
  BY <1>2, <1>3

LEMMA StepPublication ==
    ASSUME PInv, MaxForeign = 0, [Next]_vars
    PROVE  [Publication!Next]_<<Committed, remote, completed # "none">>
<1> DEFINE Same == UNCHANGED <<Committed, remote, completed # "none">>
<1>1. CASE UNCHANGED <<markers, remote>>
  BY <1>1 DEF markers, Committed
<1>2. ASSUME NEW p \in Procs, Post(p) PROVE Publication!Next \/ Same
  <2>1. Committed = inv[p].bundle /\ Committed \in Bundles
    BY <1>2, Commitment DEF Post, At, Publishing
  <2>2. Placed(inv[p])
    BY DEF PInv, MInv, TInv
  <2>3. Current(p) \in Components
    BY <1>2, <2>2, OrderFacts DEF Post, At, Placed, Looping, Current
  <2>4. remote' = [remote EXCEPT ![Current(p)] = Committed] /\ UNCHANGED markers
    BY <1>2, <2>1, <2>3, StoresCommitted DEF Post
  <2>5. QED
    BY <2>1, <2>3, <2>4, StorePublishes DEF Publication!Next
<1>3. ASSUME NEW m \in flying, Land(m) PROVE Publication!Next \/ Same
  <2>1. m.component \in Components /\ m.bundle = Committed /\ Committed \in Bundles
    BY DEF PInv, MInv, TInv, TypeOK, Faithful
  <2>2. CASE UNCHANGED remote
    BY <1>3, <2>2 DEF Land, markers, Committed
  <2>3. CASE remote' = [remote EXCEPT ![m.component] = Stored(m.component, m.bundle)]
    <3>1. remote' = [remote EXCEPT ![m.component] = Committed] /\ UNCHANGED markers
      BY <1>3, <2>1, <2>3, StoresCommitted DEF Land
    <3>2. QED
      BY <2>1, <3>1, StorePublishes DEF Publication!Next
  <2>4. QED
    BY <1>3, <2>2, <2>3 DEF Land
<1>4. ASSUME NEW p \in Procs, FinishPending(p) PROVE Publication!Next
  <2>1. Committed = "none" /\ Committed' = inv[p].bundle
    BY <1>4, MarkerCommits
  <2>2. inv[p].bundle \in Bundles
    BY <1>4 DEF FinishPending, At, PInv, MInv, TInv, Placed, Making
  <2>3. UNCHANGED <<remote, completed>>
    BY <1>4 DEF FinishPending, server
  <2>4. QED
    BY <2>1, <2>2, <2>3 DEF Publication!Next, Publication!Bind
<1>5. ASSUME NEW p \in Procs, Complete(p) PROVE Publication!Next
  <2>1. Committed' = Committed /\ Committed' = completed'
    BY <1>5, MarkerCommits
  <2>2. Committed = inv[p].bundle /\ Committed # "none"
    BY <1>5, Commitment, MarksAreNoBundles DEF Complete, At, Publishing
  <2>3. completed = "none" /\ \A c \in Components : remote[c] = inv[p].bundle
    BY <1>5 DEF Complete, At, PInv, Reached
  <2>4. UNCHANGED remote
    BY <1>5 DEF Complete, server
  <2>5. QED
    BY <2>1, <2>2, <2>3, <2>4 DEF Publication!Next, Publication!Declare
<1>6. ASSUME NEW p \in Procs,
             \/ OpenPending(p) \/ OpenProgress(p) \/ ProgressLine(p) \/ Move(p)
      PROVE  Same
  <2>1. Committed' = Committed
    BY <1>6, MarkerCommits
  <2>2. UNCHANGED <<remote, completed>>
    BY <1>6 DEF OpenPending, OpenProgress, ProgressLine, Move, server
  <2>3. QED
    BY <2>1, <2>2
<1>7. ASSUME NEW p \in Procs, RemoveMarkers(p) PROVE Same
  <2>1. Committed' = Committed
    BY <1>7, MarkerCommits
  <2>2. UNCHANGED <<remote, completed>>
    BY <1>7 DEF RemoveMarkers, server
  <2>3. QED
    BY <2>1, <2>2
<1>8. ASSUME NEW p \in Procs, Act(p)
      PROVE  \/ UNCHANGED <<markers, remote>> \/ Post(p) \/ FinishPending(p)
             \/ Complete(p) \/ OpenPending(p) \/ OpenProgress(p) \/ ProgressLine(p)
             \/ Move(p) \/ RemoveMarkers(p)
  BY <1>8 DEF Act, Script, Failure, Begin, ReadKeychain, HoldIdentity, RefuseIdentity,
              ShareIdentity, Resume, Generate, SealArtifact, WriteChecksum,
              CheckProgress, ReadStatus, Metadata, Confirm, Record, RequestFails,
              AnswerLost, Crash, server
<1>9. CASE World /\ ~\E m \in flying : Land(m)
  <2>1. ~\E c \in Components : ForeignWrite(c)
    BY UploadAssumption DEF ForeignWrite, UploadAssumption, PInv, MInv, TInv, TypeOK
  <2>2. QED
    BY <1>1, <1>9, <2>1 DEF World, LoseIdentity, RotateWriter, server
<1>10. CASE UNCHANGED vars
  BY <1>1, <1>10 DEF vars, markers
<1>11. QED
  BY <1>1, <1>2, <1>3, <1>4, <1>5, <1>6, <1>7, <1>8, <1>9, <1>10 DEF Next, Act, World

(* When invocations do not overlap and nobody else writes to the paths,    *)
(* the script implements the one-shot publication, for any number of       *)
(* interruptions, lost answers, lost identities and rotated credentials.   *)
THEOREM PublishesOnceHolds ==
    ASSUME Overlap = FALSE, MaxForeign = 0 PROVE Spec => PublishesOnce
<1>1. PInv /\ [Next]_vars => PInv'
  BY NextPInv
<1>2. PInv /\ [Next]_vars => [Publication!Next]_<<Committed, remote, completed # "none">>
  BY StepPublication
<1>3. Init => Publication!Init
  BY InitPublication
<1>4. QED
  BY <1>1, <1>2, <1>3, InitPInv, PTL DEF Spec, PublishesOnce, Publication!Spec

---------------------------------------------------------------------------
(* What can be recovered.                                                  *)

(* A key something is sealed with: in both places until a copy is lost, in *)
(* one of them ever after.                                                 *)
Safe(k) ==
    /\ k \in {identity, keychain}
    /\ spent.loss = 0 => identity = k /\ keychain = k
StaysSafe(k) ==
    /\ k \in {identity', keychain'}
    /\ spent'.loss = 0 => identity' = k /\ keychain' = k

(* What an invocation knows of the copies, and the key it derived.         *)
Sighted(p) ==
    LET seen == inv[p].seen IN
    /\ inv[p].stage \in {"identity", "custody"} /\ seen # "none" =>
          keychain \in {"none", seen} /\ (spent.loss = 0 => keychain = seen)
    /\ inv[p].stage = "custody" /\ seen # "none" =>
          identity \in {"none", seen} /\ (spent.loss = 0 => identity = seen)
    /\ inv[p].stage \in {"bind", "artifact"} => inv[p].key \in Keys
    /\ inv[p].key \in Keys => Safe(inv[p].key)

(* The files of a bundle are there before anything names it.               *)
Retained(p) ==
    /\ inv[p].stage = "checksum" => inv[p].bundle \in artifacts
    /\ inv[p].stage \in {"mark", "marked"} \cup Publishing =>
          inv[p].bundle \in artifacts \cap checksums
Sealed == \A b \in artifacts : sealed[b] \in Keys /\ Safe(sealed[b])
Stocked ==
    /\ \A c \in Components : remote[c] \in Bundles => remote[c] \in artifacts \cap checksums
    /\ \A m \in flying : m.bundle \in artifacts \cap checksums
RInv == MInv /\ Sealed /\ Stocked /\ \A p \in Procs : Sighted(p) /\ Retained(p)

LEMMA KeysAreNoMarks == "none" \notin Keys
  BY UploadAssumption DEF UploadAssumption, Marks

(* No step loses the last copy of such a key, if only one copy is ever     *)
(* lost.                                                                   *)
LEMMA SafeStep ==
    ASSUME TypeOK, MaxLoss <= 1, [Next]_vars, NEW k \in Keys, Safe(k)
    PROVE  StaysSafe(k)
<1>0. /\ k # "none" /\ spent.loss \in 0 .. MaxLoss /\ MaxLoss \in Nat
      /\ spent \in [crash : 0..MaxCrash, fault : 0..MaxFault, loss : 0..MaxLoss,
                    rotate : 0..MaxRotate, foreign : 0..MaxForeign]
  BY KeysAreNoMarks, UploadAssumption DEF TypeOK, UploadAssumption
<1>1. CASE LoseIdentity
  <2>1. spent.loss = 0 /\ spent'.loss = 1
    BY <1>0, <1>1 DEF LoseIdentity
  <2>2. QED
    BY <1>0, <1>1, <2>1 DEF LoseIdentity, Safe, StaysSafe
<1>2. ASSUME NEW p \in Procs, HoldIdentity(p) PROVE StaysSafe(k)
  BY <1>0, <1>2 DEF HoldIdentity, Safe, StaysSafe, environment
<1>3. ASSUME NEW p \in Procs, ShareIdentity(p) PROVE StaysSafe(k)
  BY <1>0, <1>3 DEF ShareIdentity, Safe, StaysSafe, environment
<1>4. CASE UNCHANGED custody /\ spent'.loss = spent.loss
  BY <1>4 DEF custody, Safe, StaysSafe
<1>5. ASSUME NEW p \in Procs, Begin(p) \/ Script(p),
             ~HoldIdentity(p), ~ShareIdentity(p)
      PROVE  UNCHANGED custody /\ spent'.loss = spent.loss
  <2>1. CASE ReadKeychain(p)
    BY <1>0, <2>1 DEF ReadKeychain
  <2>2. CASE ~ReadKeychain(p)
    BY <1>5, <2>2 DEF Script, Begin, RefuseIdentity, Resume, Generate, SealArtifact,
       WriteChecksum, OpenPending, FinishPending, OpenProgress, ProgressLine,
       CheckProgress, ReadStatus, Metadata, Post, Confirm, Record, Move, Complete,
       RemoveMarkers, environment
  <2>3. QED
    BY <2>1, <2>2
<1>6. ASSUME NEW p \in Procs, Failure(p)
      PROVE  UNCHANGED custody /\ spent'.loss = spent.loss
  BY <1>0, <1>6 DEF Failure, RequestFails, AnswerLost, Crash
<1>7. CASE World /\ ~LoseIdentity
  BY <1>0, <1>4, <1>7 DEF World, Land, RotateWriter, ForeignWrite, environment
<1>8. CASE UNCHANGED vars
  BY <1>4, <1>8 DEF vars, custody
<1>9. QED
  BY <1>1, <1>2, <1>3, <1>4, <1>5, <1>6, <1>7, <1>8 DEF Next

(* The three steps that look after the identity.                           *)
LEMMA CustodySighted ==
    ASSUME RInv, MaxLoss <= 1, [Next]_vars, NEW p \in Procs,
           ReadKeychain(p) \/ HoldIdentity(p) \/ ShareIdentity(p)
    PROVE  Sighted(p)'
<1>0. /\ inv \in [Procs -> Invocation] /\ inv[p] \in Invocation
      /\ identity \in Keys \cup {"none"} /\ keychain \in Keys \cup {"none"}
      /\ Sighted(p) /\ TypeOK
  BY DEF RInv, MInv, TInv, TypeOK
<1>1. inv[p].key \in Keys => StaysSafe(inv[p].key)
  BY <1>0, SafeStep DEF Sighted
<1>2. CASE ReadKeychain(p)
  <2>1. /\ inv'[p].stage = "identity" /\ inv'[p].key = inv[p].key
        /\ inv'[p].seen \in {keychain, "none"}
    BY <1>0, <1>2 DEF ReadKeychain, Invocation
  <2>2. keychain' = keychain
    BY <1>2 DEF ReadKeychain, custody
  <2>3. QED
    BY <1>1, <2>1, <2>2 DEF Sighted, Safe, StaysSafe
<1>3. CASE HoldIdentity(p)
  <2>1. /\ inv'[p].stage = "custody" /\ inv'[p].key = inv[p].key
        /\ inv'[p].seen = inv[p].seen
    BY <1>0, <1>3 DEF HoldIdentity, Goto, Invocation
  <2>2. keychain' = keychain /\ spent' = spent
    BY <1>3 DEF HoldIdentity, environment
  <2>3. inv[p].seen # "none" => identity' = inv[p].seen
    BY <1>3 DEF HoldIdentity
  <2>4. inv[p].stage = "identity"
    BY <1>3 DEF HoldIdentity, At
  <2>5. QED
    BY <1>0, <1>1, <2>1, <2>2, <2>3, <2>4 DEF Sighted, Safe, StaysSafe
<1>4. CASE ShareIdentity(p)
  <2>1. CASE End(p, "refused")
    <3>1. inv'[p].stage = "idle" /\ inv'[p].key = "none"
      BY <1>0, <2>1 DEF End, Idle
    <3>2. QED
      BY <3>1, KeysAreNoMarks DEF Sighted
  <2>2. CASE ~End(p, "refused")
    <3>1. /\ identity # "none" /\ (inv[p].seen = "none" => keychain = "none")
          /\ keychain' = (IF inv[p].seen = "none" THEN identity ELSE keychain)
          /\ inv' = [inv EXCEPT ![p].key = identity, ![p].stage = "bind"]
          /\ identity' = identity /\ spent' = spent /\ inv[p].stage = "custody"
      BY <1>4, <2>2 DEF ShareIdentity, At, environment
    <3>2. inv'[p].stage = "bind" /\ inv'[p].key = identity
      BY <1>0, <3>1 DEF Invocation
    <3>3. StaysSafe(identity)
      BY <1>0, <3>1 DEF Sighted, Safe, StaysSafe
    <3>4. QED
      BY <1>0, <3>1, <3>2, <3>3 DEF Sighted, Safe, StaysSafe
  <2>3. QED
    BY <2>1, <2>2
<1>5. QED
  BY <1>2, <1>3, <1>4

(* The steps of an invocation after that keep the key, or end it.          *)
LEMMA LaterSighted ==
    ASSUME RInv, MaxLoss <= 1, [Next]_vars, NEW p \in Procs, Act(p),
           ~ReadKeychain(p), ~HoldIdentity(p), ~ShareIdentity(p)
    PROVE  Sighted(p)'
<1>0. /\ inv \in [Procs -> Invocation] /\ inv[p] \in Invocation
      /\ Sighted(p) /\ TypeOK
  BY DEF RInv, MInv, TInv, TypeOK
<1>1. inv[p].key \in Keys => StaysSafe(inv[p].key)
  BY <1>0, SafeStep DEF Sighted
<1>2. ASSUME NEW result \in Results, End(p, result) PROVE Sighted(p)'
  <2>1. inv'[p].stage = "idle" /\ inv'[p].key = "none"
    BY <1>0, <1>2 DEF End, Idle
  <2>2. QED
    BY <2>1, KeysAreNoMarks DEF Sighted
<1>3. ASSUME inv'[p].key = inv[p].key,
             inv'[p].stage \notin {"identity", "custody", "bind"},
             inv'[p].stage = "artifact" => inv[p].stage = "bind"
      PROVE  Sighted(p)'
  BY <1>0, <1>1, <1>3 DEF Sighted, Safe, StaysSafe
<1>4. CASE Begin(p) /\ completed = "none"
  <2> DEFINE v == [Idle("running") EXCEPT !.stage = "keychain", !.writer = writer]
  <2>1. v.stage = "keychain" /\ v.key = "none"
    BY DEF Idle
  <2>2. inv' = [inv EXCEPT ![p] = v]
    BY <1>4 DEF Begin
  <2>3. inv'[p] = v
    BY <1>0, <2>2
  <2>4. QED
    BY <2>1, <2>3, KeysAreNoMarks DEF Sighted
<1>5. CASE (Resume(p) /\ Bound(p)) \/ SealArtifact(p) \/ WriteChecksum(p) \/ OpenPending(p)
           \/ FinishPending(p) \/ OpenProgress(p) \/ ProgressLine(p)
           \/ (CheckProgress(p) /\ progress.file) \/ (ReadStatus(p) /\ progress.file)
  <2>1. /\ inv'[p].key = inv[p].key
        /\ inv'[p].stage \notin {"identity", "custody", "bind", "artifact"}
    BY <1>0, <1>5 DEF Resume, SealArtifact, WriteChecksum, OpenPending, FinishPending,
       OpenProgress, ProgressLine, CheckProgress, ReadStatus, Goto, Invocation
  <2>2. QED
    BY <1>3, <2>1
<1>6. CASE Generate(p) /\ Orphans = {}
  <2>1. PICK b \in Bundles : inv' = [inv EXCEPT ![p].bundle = b, ![p].stage = "artifact"]
    BY <1>6 DEF Generate
  <2>2. inv'[p].key = inv[p].key /\ inv'[p].stage = "artifact" /\ inv[p].stage = "bind"
    BY <1>0, <1>6, <2>1 DEF Generate, At, Invocation
  <2>3. QED
    BY <1>3, <2>2
<1>7. CASE Proceed(p) \/ Goto(p, "post") \/ Goto(p, "confirm") \/ Goto(p, "record")
           \/ (Record(p) /\ progress.file) \/ Goto(p, "remove")
  <2>1. /\ inv'[p].key = inv[p].key
        /\ inv'[p].stage \notin {"identity", "custody", "bind", "artifact"}
    BY <1>0, <1>7 DEF Proceed, Goto, Record, Invocation
  <2>2. QED
    BY <1>3, <2>1
<1>8. QED
  <2>1. CASE Failure(p)
    BY <2>1, <1>2 DEF Failure, RequestFails, AnswerLost, Crash, Results
  <2>2. CASE Begin(p) \/ RefuseIdentity(p) \/ Resume(p) \/ Generate(p)
             \/ CheckProgress(p) \/ ReadStatus(p)
    BY <2>2, <1>2, <1>4, <1>5, <1>6
    DEF Begin, RefuseIdentity, Resume, Generate, CheckProgress, ReadStatus, Results
  <2>3. CASE Metadata(p) \/ Post(p) \/ Confirm(p) \/ Record(p) \/ Move(p) \/ Complete(p)
             \/ RemoveMarkers(p)
    BY <2>3, <1>2, <1>7
    DEF Metadata, Post, Confirm, Record, Move, Complete, RemoveMarkers, Results
  <2>4. QED
    BY <1>5, <2>1, <2>2, <2>3 DEF Act, Script

(* Files are only ever added, and the marker that names a bundle comes     *)
(* after them.                                                             *)
LEMMA ActRetained ==
    ASSUME RInv, NEW p \in Procs, Act(p)
    PROVE  /\ Retained(p)' /\ Stocked'
           /\ artifacts \subseteq artifacts' /\ checksums \subseteq checksums'
<1>0. /\ inv \in [Procs -> Invocation] /\ inv[p] \in Invocation
      /\ Retained(p) /\ Stocked /\ TypeOK /\ Placed(inv[p])
      /\ remote \in [Components -> Bundles \cup {"empty", "alien", "extra"}]
  BY DEF RInv, MInv, TInv, TypeOK
<1>1. artifacts \subseteq artifacts' /\ checksums \subseteq checksums'
  BY DEF Act, Script, Failure, Begin, ReadKeychain, HoldIdentity, RefuseIdentity,
     ShareIdentity, Resume, Generate, SealArtifact, WriteChecksum, OpenPending,
     FinishPending, OpenProgress, ProgressLine, CheckProgress, ReadStatus, Metadata, Post,
     Confirm, Record, Move, Complete, RemoveMarkers, RequestFails, AnswerLost, Crash,
     bundlefiles
<1>2. Stocked'
  <2>1. CASE UNCHANGED server
    BY <1>0, <1>1, <2>1 DEF Stocked, server
  <2>2. CASE Post(p)
    <3>1. inv[p].bundle \in artifacts \cap checksums /\ Current(p) \in Components
      BY <1>0, <2>2, OrderFacts
      DEF Post, At, Retained, Publishing, Placed, Looping, Current
    <3>2. Stored(Current(p), inv[p].bundle) \in {remote[Current(p)], inv[p].bundle}
      BY DEF Stored
    <3>3. QED
      BY <1>0, <1>1, <2>2, <3>1, <3>2 DEF Post, Stocked
  <2>3. CASE AnswerLost(p)
    <3>1. inv[p].bundle \in artifacts \cap checksums
      BY <1>0, <2>3 DEF AnswerLost, At, Retained, Publishing
    <3>2. QED
      BY <1>0, <1>1, <2>3, <3>1 DEF AnswerLost, Sent, Stocked
  <2>4. QED
    BY <2>1, <2>2, <2>3
    DEF Act, Script, Failure, Begin, ReadKeychain, HoldIdentity, RefuseIdentity,
     ShareIdentity, Resume, Generate, SealArtifact, WriteChecksum, OpenPending,
     FinishPending, OpenProgress, ProgressLine, CheckProgress, ReadStatus, Metadata,
     Confirm, Record, Move, Complete, RemoveMarkers, RequestFails, Crash
<1>3. Retained(p)'
  <2>1. ASSUME NEW result \in Results, End(p, result) PROVE Retained(p)'
    <3>1. inv'[p].stage = "idle"
      BY <1>0, <2>1 DEF End, Idle
    <3>2. QED
      BY <3>1 DEF Retained, Publishing
  <2>2. ASSUME inv[p].stage \in {"mark", "marked"} \cup Publishing,
               inv'[p].bundle = inv[p].bundle, inv'[p].stage # "checksum"
        PROVE  Retained(p)'
    BY <1>0, <1>1, <2>2 DEF Retained
  <2>3. ASSUME inv'[p].stage \in {"keychain", "identity", "custody", "bind", "artifact"}
        PROVE  Retained(p)'
    BY <2>3 DEF Retained, Publishing
  <2>4. CASE Begin(p) /\ completed = "none"
    <3> DEFINE v == [Idle("running") EXCEPT !.stage = "keychain", !.writer = writer]
    <3>1. v.stage = "keychain"
      BY DEF Idle
    <3>2. inv' = [inv EXCEPT ![p] = v]
      BY <2>4 DEF Begin
    <3>3. inv'[p] = v
      BY <1>0, <3>2
    <3>4. QED
      BY <2>3, <3>1, <3>3
  <2>5. CASE ReadKeychain(p) \/ HoldIdentity(p) \/ (ShareIdentity(p) /\ ~End(p, "refused"))
    <3>1. inv'[p].stage \in {"identity", "custody", "bind"}
      BY <1>0, <2>5 DEF ReadKeychain, HoldIdentity, ShareIdentity, Goto, Invocation
    <3>2. QED
      BY <2>3, <3>1
  <2>6. CASE Resume(p) /\ Bound(p)
    <3>1. inv'[p].bundle = pending.bundle /\ inv'[p].stage = "check"
      BY <1>0, <2>6 DEF Resume, Invocation
    <3>2. QED
      BY <1>1, <2>6, <3>1 DEF Bound, Retained
  <2>7. CASE Generate(p) /\ Orphans = {}
    <3>1. PICK b \in Bundles : inv' = [inv EXCEPT ![p].bundle = b, ![p].stage = "artifact"]
      BY <2>7 DEF Generate
    <3>2. inv'[p].stage = "artifact"
      BY <1>0, <3>1 DEF Invocation
    <3>3. QED
      BY <2>3, <3>2
  <2>8. CASE SealArtifact(p) \/ WriteChecksum(p)
    <3>1. /\ inv'[p].bundle = inv[p].bundle
          /\ SealArtifact(p) => inv'[p].stage = "checksum" /\ inv[p].bundle \in artifacts'
          /\ WriteChecksum(p) => /\ inv'[p].stage = "mark" /\ inv[p].stage = "checksum"
                                 /\ inv[p].bundle \in checksums'
      BY <1>0, <2>8 DEF SealArtifact, WriteChecksum, Goto, At, Invocation
    <3>2. QED
      BY <1>0, <1>1, <2>8, <3>1 DEF Retained, Publishing
  <2>9. CASE OpenPending(p) \/ FinishPending(p) \/ OpenProgress(p) \/ ProgressLine(p)
             \/ (CheckProgress(p) /\ progress.file) \/ (ReadStatus(p) /\ progress.file)
             \/ (Record(p) /\ progress.file) \/ Complete(p)
    <3>1. /\ inv[p].stage \in {"mark", "marked"} \cup Publishing
          /\ inv'[p].bundle = inv[p].bundle /\ inv'[p].stage # "checksum"
      BY <1>0, <2>9 DEF OpenPending, FinishPending, OpenProgress, ProgressLine,
         CheckProgress, ReadStatus, Record, Complete, Goto, At, Publishing, Invocation
    <3>2. QED
      BY <2>2, <3>1
  <2>10. CASE /\ Metadata(p) \/ Post(p) \/ Confirm(p) \/ Move(p)
              /\ \/ Proceed(p) \/ Goto(p, "post") \/ Goto(p, "confirm")
                 \/ Goto(p, "record")
    <3>1. inv[p].stage \in Publishing
      BY <2>10 DEF Metadata, Post, Confirm, Move, At, Publishing
    <3>2. inv'[p].bundle = inv[p].bundle /\ inv'[p].stage # "checksum"
      BY <1>0, <2>10 DEF Proceed, Goto, Invocation
    <3>3. QED
      BY <2>2, <3>1, <3>2
  <2>11. QED
    <3>1. CASE Failure(p)
      BY <3>1, <2>1 DEF Failure, RequestFails, AnswerLost, Crash, Results
    <3>2. CASE Begin(p) \/ RefuseIdentity(p) \/ Resume(p) \/ Generate(p)
               \/ ShareIdentity(p) \/ CheckProgress(p) \/ ReadStatus(p)
      BY <3>2, <2>1, <2>4, <2>5, <2>6, <2>7, <2>9
      DEF Begin, RefuseIdentity, Resume, Generate, CheckProgress, ReadStatus, Results
    <3>3. CASE Metadata(p) \/ Post(p) \/ Confirm(p) \/ Record(p) \/ Move(p) \/ Complete(p)
               \/ RemoveMarkers(p)
      BY <3>3, <2>1, <2>9, <2>10
      DEF Metadata, Post, Confirm, Record, Move, RemoveMarkers, Results
    <3>4. QED
      BY <2>5, <2>8, <2>9, <3>1, <3>2, <3>3 DEF Act, Script
<1>4. QED
  BY <1>1, <1>2, <1>3

LEMMA NextRInv ==
    ASSUME RInv, Overlap = FALSE, MaxLoss <= 1, [Next]_vars PROVE RInv'
<1>0. MInv' /\ TypeOK /\ TInv /\ MInv
  BY NextMInv DEF RInv, MInv, TInv
<1>1. CASE \E p \in Procs : Act(p)
  <2>1. PICK p \in Procs : Act(p)
    BY <1>1
  <2>2. \A q \in Procs \ {p} : At(q, "idle") /\ inv'[q] = inv[q]
    BY <1>0, <2>1, Solo
  <2>3. /\ Retained(p)' /\ Stocked'
        /\ artifacts \subseteq artifacts' /\ checksums \subseteq checksums'
    BY <2>1, ActRetained
  <2>4. Sighted(p)'
    BY <2>1, CustodySighted, LaterSighted
  <2>5. ASSUME NEW q \in Procs \ {p} PROVE Sighted(q)' /\ Retained(q)'
    <3>1. inv[q].key \in Keys => StaysSafe(inv[q].key)
      BY <1>0, SafeStep DEF RInv, Sighted
    <3>2. inv[q].stage = "idle" /\ inv'[q] = inv[q]
      BY <2>2 DEF At
    <3>3. QED
      BY <3>1, <3>2 DEF Sighted, Safe, StaysSafe, Retained, Publishing
  <2>6. Sealed'
    <3>1. CASE SealArtifact(p)
      <4>1. inv[p].key \in Keys /\ StaysSafe(inv[p].key)
        BY <1>0, <3>1, SafeStep DEF SealArtifact, At, RInv, Sighted
      <4>2. \A b \in artifacts : sealed[b] \in Keys /\ StaysSafe(sealed[b])
        BY <1>0, SafeStep DEF RInv, Sealed
      <4>3. inv[p].bundle \in Bundles
        BY <1>0, <3>1 DEF SealArtifact, At, TInv, Placed, Making
      <4>4. /\ artifacts' = artifacts \cup {inv[p].bundle}
            /\ sealed' = [sealed EXCEPT ![inv[p].bundle] = inv[p].key]
        BY <3>1 DEF SealArtifact
      <4>5. \A b \in artifacts' : (sealed'[b] = sealed[b] /\ b \in artifacts)
                                 \/ sealed'[b] = inv[p].key
        BY <1>0, <4>3, <4>4 DEF TypeOK
      <4>6. QED
        BY <4>1, <4>2, <4>5 DEF Sealed, Safe, StaysSafe
    <3>2. CASE ~SealArtifact(p)
      <4>1. UNCHANGED <<artifacts, sealed>>
        BY <2>1, <3>2 DEF Act, Script, Failure, Begin, ReadKeychain, HoldIdentity,
           RefuseIdentity, ShareIdentity, Resume, Generate, WriteChecksum, OpenPending,
           FinishPending, OpenProgress, ProgressLine, CheckProgress, ReadStatus, Metadata,
           Post, Confirm, Record, Move, Complete, RemoveMarkers, RequestFails, AnswerLost,
           Crash, bundlefiles
      <4>2. \A b \in artifacts : sealed[b] \in Keys /\ StaysSafe(sealed[b])
        BY <1>0, SafeStep DEF RInv, Sealed
      <4>3. QED
        BY <4>1, <4>2 DEF Sealed, Safe, StaysSafe
    <3>3. QED
      BY <3>1, <3>2
  <2>7. QED
    BY <1>0, <2>3, <2>4, <2>5, <2>6 DEF RInv
<1>2. CASE World \/ UNCHANGED vars
  <2>1. UNCHANGED <<inv, bundlefiles>>
    BY <1>2 DEF World, Land, LoseIdentity, RotateWriter, ForeignWrite, vars, bundlefiles
  <2>2. Stocked'
    <3>1. CASE \E m \in flying : Land(m)
      <4>1. PICK m \in flying : Land(m)
        BY <3>1
      <4>2. Stored(m.component, m.bundle) \in {remote[m.component], m.bundle}
        BY DEF Stored
      <4>3. /\ m.bundle \in artifacts \cap checksums /\ m.component \in Components
            /\ remote \in [Components -> Bundles \cup {"empty", "alien", "extra"}]
            /\ Stocked
        BY <1>0 DEF RInv, Stocked, TypeOK
      <4>4. QED
        BY <2>1, <4>1, <4>2, <4>3 DEF Land, Stocked, bundlefiles
    <3>2. CASE \E c \in Components : ForeignWrite(c)
      <4>1. PICK c \in Components : ForeignWrite(c)
        BY <3>2
      <4>2. PICK mark \in {"alien", "extra"} : remote' = [remote EXCEPT ![c] = mark]
        BY <4>1 DEF ForeignWrite
      <4>3. mark \notin Bundles
        BY MarksAreNoBundles
      <4>4. flying' = flying
        BY <4>1 DEF ForeignWrite
      <4>5. QED
        BY <1>0, <2>1, <4>2, <4>3, <4>4 DEF RInv, Stocked, bundlefiles, TypeOK
    <3>3. CASE UNCHANGED server
      BY <2>1, <3>3 DEF RInv, Stocked, server, bundlefiles
    <3>4. QED
      BY <1>2, <3>1, <3>2, <3>3 DEF World, LoseIdentity, RotateWriter, vars, server
  <2>3. Sealed'
    <3>1. \A b \in artifacts : sealed[b] \in Keys /\ StaysSafe(sealed[b])
      BY <1>0, SafeStep DEF RInv, Sealed
    <3>2. QED
      BY <2>1, <3>1 DEF Sealed, Safe, StaysSafe, bundlefiles
  <2>4. ASSUME NEW p \in Procs PROVE Sighted(p)' /\ Retained(p)'
    <3>1. inv[p].key \in Keys => StaysSafe(inv[p].key)
      BY <1>0, SafeStep DEF RInv, Sighted
    <3>2. /\ identity' \in {identity, "none"} /\ keychain' \in {keychain, "none"}
          /\ spent'.loss = 0 => /\ spent.loss = 0
                                /\ identity' = identity /\ keychain' = keychain
      <4>0. /\ spent.loss \in Nat
            /\ spent \in [crash : 0..MaxCrash, fault : 0..MaxFault, loss : 0..MaxLoss,
                          rotate : 0..MaxRotate, foreign : 0..MaxForeign]
        BY <1>0, UploadAssumption DEF TypeOK, UploadAssumption
      <4>1. CASE LoseIdentity
        BY <4>0, <4>1 DEF LoseIdentity
      <4>2. CASE ~LoseIdentity
        BY <1>2, <4>0, <4>2
        DEF World, Land, RotateWriter, ForeignWrite, environment, custody, vars
      <4>3. QED
        BY <4>1, <4>2
    <3>3. Retained(p)'
      BY <2>1 DEF RInv, Retained, bundlefiles
    <3>4. Sighted(p)'
      BY <2>1, <3>1, <3>2 DEF RInv, Sighted, Safe, StaysSafe
    <3>5. QED
      BY <3>3, <3>4
  <2>5. QED
    BY <1>0, <2>2, <2>3, <2>4 DEF RInv
<1>3. QED
  BY <1>1, <1>2 DEF Next, Act

(* When invocations do not overlap and at most one copy of the identity is *)
(* ever lost, every value on the server can be recovered: its artifact and *)
(* checksum are there, and the key it is sealed with is still in custody.  *)
THEOREM RecoverableValuesHolds ==
    ASSUME Overlap = FALSE, MaxLoss <= 1 PROVE Spec => []RecoverableValues
<1>1. Init => RInv
  <2>1. SUFFICES ASSUME Init PROVE RInv
    OBVIOUS
  <2>2. Sealed /\ Stocked
    BY <2>1, MarksAreNoBundles DEF Init, Sealed, Stocked, Lines
  <2>3. \A p \in Procs : Sighted(p) /\ Retained(p)
    BY <2>1, KeysAreNoMarks DEF Init, Idle, Sighted, Retained, Publishing
  <2>4. QED
    BY <2>1, <2>2, <2>3, InitMInv DEF RInv
<1>2. RInv /\ [Next]_vars => RInv'
  BY NextRInv
<1>3. RInv => RecoverableValues
  BY KeysAreNoMarks DEF RInv, Stocked, Sealed, Safe, RecoverableValues
<1>4. QED
  BY <1>1, <1>2, <1>3, PTL DEF Spec

---------------------------------------------------------------------------
(* An ambiguous component.                                                 *)

(* What the progress lines say while an invocation works its way through   *)
(* them, whoever else writes to the remote paths: the components it has    *)
(* passed are not pending any more.                                        *)
Lined(p) ==
    /\ inv[p].stage \notin {"idle", "remove"} => completed = "none"
    /\ inv[p].stage \in Uploading =>
          \A i \in 1..3 : i < inv[p].at => progress.status[Order[i]] # "pending"
    /\ inv[p].stage = "metadata" => inv[p].status = progress.status[Current(p)]
    /\ inv[p].stage = "move" =>
          /\ inv[p].copy[Current(p)] # "pending"
          /\ \A c \in Components \ {Current(p)} : inv[p].copy[c] = progress.status[c]
    /\ inv[p].stage \in {"complete", "remove"} =>
          \A c \in Components : progress.status[c] # "pending"
Lines3 ==
    /\ completed # "none" => \A c \in Components : progress.status[c] # "pending"
    /\ \A c \in Components : progress.status[c] # "absent" => pending.whole
AInv == MInv /\ Lines3 /\ \A p \in Procs : Lined(p)

(* A component that is populated and still pending: nobody is past the     *)
(* look at its path, and nobody writes the lines anew.                     *)
Stuck(c) ==
    /\ completed = "none" /\ progress.status[c] = "pending" /\ remote[c] # "empty"
    /\ \A p \in Procs :
          /\ inv[p].stage \notin {"open", "line"}
          /\ inv[p].stage \in {"post", "confirm", "record", "move"} => Current(p) # c

LEMMA IdleLined ==
    ASSUME TypeOK, NEW p \in Procs, NEW result \in Results, End(p, result)
    PROVE  Lined(p)'
<1>1. inv'[p].stage = "idle"
  BY DEF TypeOK, End, Idle
<1>2. QED
  BY <1>1 DEF Lined, Uploading, Looping

LEMMA EarlyLined ==
    ASSUME NEW p \in Procs, completed' = "none",
           inv'[p].stage \notin Uploading \cup {"remove", "complete"}
    PROVE  Lined(p)'
  BY DEF Lined, Uploading, Looping

(* The end of the loop's body, with the component's line not pending.      *)
LEMMA ProceedLined ==
    ASSUME AInv, NEW p \in Procs, inv[p].stage \in {"metadata", "move"}, Proceed(p),
           completed' = completed, progress'.status[Current(p)] # "pending",
           \A c \in Components \ {Current(p)} : progress'.status[c] = progress.status[c]
    PROVE  Lined(p)'
<1>1. /\ inv \in [Procs -> Invocation] /\ inv[p] \in Invocation
      /\ Placed(inv[p]) /\ Lined(p)
  BY DEF AInv, MInv, TInv, TypeOK
<1>2. inv[p].at \in 1..3 /\ completed' = "none"
  BY <1>1 DEF Placed, Looping, Lined
<1>3. \A i \in 1..3 : i < inv[p].at + 1 => progress'.status[Order[i]] # "pending"
  <2>1. ASSUME NEW i \in 1..3, i < inv[p].at + 1
        PROVE  progress'.status[Order[i]] # "pending"
    <3>1. CASE Order[i] = Current(p)
      BY <3>1
    <3>2. CASE Order[i] # Current(p)
      <4>1. i # inv[p].at
        BY <3>2 DEF Current
      <4>2. progress.status[Order[i]] # "pending"
        BY <1>1, <1>2, <2>1, <4>1 DEF Lined, Uploading, Looping
      <4>3. QED
        BY <3>2, <4>2, OrderFacts
    <3>3. QED
      BY <3>1, <3>2
  <2>2. QED
    BY <2>1
<1>4. /\ inv'[p].at = inv[p].at + 1
      /\ inv'[p].stage = IF inv[p].at = 3 THEN "complete" ELSE "status"
  BY <1>1, OrderFacts DEF Proceed, Invocation
<1>5. CASE inv[p].at = 3
  <2>1. ASSUME NEW c \in Components PROVE progress'.status[c] # "pending"
    <3>1. PICK i \in 1..3 : Order[i] = c
      BY OrderFacts
    <3>2. QED
      BY <1>3, <1>5, <3>1
  <2>2. QED
    BY <1>2, <1>4, <1>5, <2>1 DEF Lined, Uploading, Looping
<1>6. CASE inv[p].at # 3
  BY <1>2, <1>3, <1>4, <1>6 DEF Lined, Uploading, Looping
<1>7. QED
  BY <1>5, <1>6

LEMMA ActLined ==
    ASSUME AInv, NEW p \in Procs, Act(p)
    PROVE  Lined(p)'
<1>0. /\ inv \in [Procs -> Invocation] /\ inv[p] \in Invocation /\ TypeOK
      /\ Placed(inv[p]) /\ Lined(p) /\ Marked(p)
  BY DEF AInv, MInv, TInv, TypeOK
<1>1. ASSUME NEW result \in Results, End(p, result) PROVE Lined(p)'
  BY <1>0, <1>1, IdleLined
<1>2. CASE Begin(p) /\ completed = "none"
  <2> DEFINE v == [Idle("running") EXCEPT !.stage = "keychain", !.writer = writer]
  <2>1. v.stage = "keychain"
    BY DEF Idle
  <2>2. inv' = [inv EXCEPT ![p] = v]
    BY <1>2 DEF Begin
  <2>3. inv'[p] = v
    BY <1>0, <2>2
  <2>4. completed' = "none"
    BY <1>2 DEF Begin, markers
  <2>5. QED
    BY <2>1, <2>3, <2>4, EarlyLined DEF Uploading, Looping
<1>3. CASE ReadKeychain(p) \/ HoldIdentity(p) \/ (ShareIdentity(p) /\ ~End(p, "refused"))
  <2>1. inv'[p].stage \in {"identity", "custody", "bind"}
    BY <1>0, <1>3 DEF ReadKeychain, HoldIdentity, ShareIdentity, Goto, Invocation
  <2>2. completed' = "none"
    BY <1>0, <1>3 DEF ReadKeychain, HoldIdentity, ShareIdentity, At, Lined, markers
  <2>3. QED
    BY <2>1, <2>2, EarlyLined DEF Uploading, Looping
<1>4. CASE (Resume(p) /\ Bound(p)) \/ SealArtifact(p) \/ WriteChecksum(p) \/ OpenPending(p)
           \/ FinishPending(p) \/ OpenProgress(p) \/ ProgressLine(p)
  <2>1. inv'[p].stage \in {"checksum", "mark", "marked", "open", "line", "check"}
    BY <1>0, <1>4 DEF Resume, SealArtifact, WriteChecksum, OpenPending, FinishPending,
                      OpenProgress, ProgressLine, Goto, Invocation
  <2>2. completed' = "none"
    BY <1>0, <1>4 DEF Resume, SealArtifact, WriteChecksum, OpenPending, FinishPending,
                      OpenProgress, ProgressLine, At, Lined, markers
  <2>3. QED
    BY <2>1, <2>2, EarlyLined DEF Uploading, Looping
<1>5. CASE Generate(p) /\ Orphans = {}
  <2>1. PICK b \in Bundles : inv' = [inv EXCEPT ![p].bundle = b, ![p].stage = "artifact"]
    BY <1>5 DEF Generate
  <2>2. inv'[p].stage = "artifact"
    BY <1>0, <2>1 DEF Invocation
  <2>3. completed' = "none"
    BY <1>0, <1>5 DEF Generate, At, Lined, markers
  <2>4. QED
    BY <2>2, <2>3, EarlyLined DEF Uploading, Looping
<1>6. CASE CheckProgress(p) /\ progress.file
  <2>1. inv'[p].stage = "status" /\ inv'[p].at = 1
    BY <1>0, <1>6 DEF CheckProgress, At, Goto, Invocation, Placed, Looping
  <2>2. completed' = "none"
    BY <1>0, <1>6 DEF CheckProgress, At, Lined, markers
  <2>3. QED
    BY <2>1, <2>2 DEF Lined
<1>7. CASE ReadStatus(p) /\ progress.file
  <2>1. /\ inv'[p].stage = "metadata" /\ inv'[p].at = inv[p].at
        /\ inv'[p].status = progress.status[Current(p)]
    BY <1>0, <1>7 DEF ReadStatus, Invocation
  <2>2. UNCHANGED <<completed, progress>>
    BY <1>7 DEF ReadStatus, markers
  <2>3. QED
    BY <1>0, <1>7, <2>1, <2>2 DEF ReadStatus, At, Lined, Uploading, Looping, Current
<1>8. CASE /\ Metadata(p) \/ Post(p) \/ Confirm(p)
           /\ Goto(p, "post") \/ Goto(p, "confirm") \/ Goto(p, "record")
  <2>1. inv'[p].stage \in {"post", "confirm", "record"} /\ inv'[p].at = inv[p].at
    BY <1>0, <1>8 DEF Goto, Invocation
  <2>2. UNCHANGED <<completed, progress>> /\ inv[p].stage \in {"metadata", "post", "confirm"}
    BY <1>8 DEF Metadata, Post, Confirm, At, markers
  <2>3. QED
    BY <1>0, <2>1, <2>2 DEF Lined, Uploading, Looping
<1>9. CASE Metadata(p) /\ Proceed(p) /\ inv[p].status = "done"
  <2>1. UNCHANGED <<completed, progress>> /\ inv[p].stage = "metadata"
    BY <1>9 DEF Metadata, At, markers
  <2>2. progress.status[Current(p)] = "done"
    BY <1>0, <1>9, <2>1 DEF Lined
  <2>3. QED
    BY <1>9, <2>1, <2>2, ProceedLined
<1>10. CASE Record(p) /\ progress.file
  <2>1. Current(p) \in Components /\ inv[p].stage = "record"
    BY <1>0, <1>10, OrderFacts DEF Record, At, Placed, Looping, Current
  <2>2. /\ inv'[p].stage = "move" /\ inv'[p].at = inv[p].at
        /\ inv'[p].copy = [progress.status EXCEPT ![Current(p)] =
              IF progress.status[Current(p)] = "absent" THEN "absent" ELSE "done"]
    BY <1>0, <1>10 DEF Record, Invocation
  <2>3. UNCHANGED <<completed, progress>>
    BY <1>10 DEF Record, markers
  <2>4. progress.status \in [Components -> {"absent", "pending", "done"}]
    BY <1>0 DEF TypeOK
  <2>5. QED
    BY <1>0, <2>1, <2>2, <2>3, <2>4 DEF Lined, Uploading, Looping, Current
<1>11. CASE Move(p)
  <2>1. /\ Proceed(p) /\ completed' = completed /\ progress'.status = inv[p].copy
        /\ inv[p].stage = "move"
    BY <1>11 DEF Move, At
  <2>2. QED
    BY <1>0, <2>1, ProceedLined DEF Lined
<1>12. CASE Complete(p)
  <2>1. inv'[p].stage = "remove" /\ progress' = progress /\ inv[p].stage = "complete"
    BY <1>0, <1>12 DEF Complete, Goto, At, Invocation
  <2>2. QED
    BY <1>0, <2>1 DEF Lined, Uploading, Looping
<1>13. QED
  <2>1. CASE Failure(p)
    BY <2>1, <1>1 DEF Failure, RequestFails, AnswerLost, Crash, Results
  <2>2. CASE Begin(p) \/ RefuseIdentity(p) \/ Resume(p) \/ Generate(p)
             \/ ShareIdentity(p) \/ CheckProgress(p) \/ ReadStatus(p)
    BY <2>2, <1>1, <1>2, <1>3, <1>4, <1>5, <1>6, <1>7
    DEF Begin, RefuseIdentity, Resume, Generate, CheckProgress, ReadStatus, Results
  <2>3. CASE Metadata(p)
    BY <2>3, <1>1, <1>8, <1>9 DEF Metadata, Results
  <2>4. CASE Post(p) \/ Confirm(p) \/ Record(p) \/ RemoveMarkers(p)
    BY <2>4, <1>1, <1>8, <1>10 DEF Post, Confirm, Record, RemoveMarkers, Results
  <2>5. QED
    BY <1>3, <1>4, <1>11, <1>12, <2>1, <2>2, <2>3, <2>4 DEF Act, Script

(* Only these steps write markers or lines.                                *)
LEMMA WritesMarkers ==
    ASSUME NEW p \in Procs, Act(p)
    PROVE  \/ UNCHANGED markers
           \/ OpenPending(p) \/ FinishPending(p) \/ OpenProgress(p) \/ ProgressLine(p)
           \/ Move(p) \/ Complete(p) \/ RemoveMarkers(p)
  BY DEF Act, Script, Failure, Begin, ReadKeychain, HoldIdentity, RefuseIdentity,
         ShareIdentity, Resume, Generate, SealArtifact, WriteChecksum, CheckProgress,
         ReadStatus, Metadata, Post, Confirm, Record, RequestFails, AnswerLost, Crash

LEMMA ActLines ==
    ASSUME AInv, NEW p \in Procs, Act(p)
    PROVE  Lines3'
<1>0. /\ inv[p] \in Invocation /\ TypeOK /\ Placed(inv[p]) /\ Lined(p) /\ Marked(p) /\ Lines3
      /\ progress.status \in [Components -> {"absent", "pending", "done"}]
  BY DEF AInv, MInv, TInv, TypeOK
<1>1. CASE UNCHANGED markers
  BY <1>0, <1>1 DEF Lines3, markers
<1>2. CASE OpenPending(p) \/ FinishPending(p)
  <2>1. UNCHANGED <<completed, progress>> /\ ~pending.whole
    BY <1>0, <1>2 DEF OpenPending, FinishPending, At, Marked, Making
  <2>2. QED
    BY <1>0, <2>1 DEF Lines3
<1>3. CASE OpenProgress(p) \/ ProgressLine(p)
  <2>1. UNCHANGED <<completed, pending>> /\ pending.whole /\ completed = "none"
    BY <1>0, <1>3 DEF OpenProgress, ProgressLine, At, Marked, Publishing, Lined
  <2>2. QED
    BY <2>1 DEF Lines3
<1>4. CASE Move(p)
  <2>1. UNCHANGED <<completed, pending>> /\ pending.whole /\ completed = "none"
    BY <1>0, <1>4 DEF Move, At, Marked, Publishing, Lined
  <2>2. QED
    BY <2>1 DEF Lines3
<1>5. CASE Complete(p)
  <2>1. UNCHANGED <<progress, pending>> /\ inv[p].stage = "complete"
    BY <1>5 DEF Complete, At
  <2>2. QED
    BY <1>0, <2>1 DEF Lined, Lines3
<1>6. CASE RemoveMarkers(p)
  BY <1>6 DEF RemoveMarkers, NoProgress, Lines, Lines3
<1>7. QED
  BY <1>1, <1>2, <1>3, <1>4, <1>5, <1>6, WritesMarkers

LEMMA NextAInv == ASSUME AInv, Overlap = FALSE, [Next]_vars PROVE AInv'
<1>0. MInv'
  BY NextMInv DEF AInv
<1>1. CASE \E p \in Procs : Act(p)
  <2>1. PICK p \in Procs : Act(p)
    BY <1>1
  <2>2. \A q \in Procs \ {p} : At(q, "idle") /\ inv'[q] = inv[q]
    BY <2>1, Solo DEF AInv
  <2>3. \A q \in Procs \ {p} : Lined(q)'
    BY <2>2 DEF At, Lined, Uploading, Looping
  <2>4. QED
    BY <1>0, <2>1, <2>3, ActLined, ActLines DEF AInv
<1>2. CASE World \/ UNCHANGED vars
  <2>1. UNCHANGED <<inv, markers>>
    BY <1>2 DEF World, Land, LoseIdentity, RotateWriter, ForeignWrite, vars, markers
  <2>2. QED
    BY <1>0, <2>1 DEF AInv, Lines3, Lined, Current, markers
<1>3. QED
  BY <1>1, <1>2 DEF Next, Act

(* What is on the server does not go away.                                 *)
LEMMA StaysPopulated ==
    ASSUME TInv, [Next]_vars, NEW c \in Components, remote[c] # "empty"
    PROVE  remote'[c] # "empty"
<1>0. /\ remote \in [Components -> Bundles \cup {"empty", "alien", "extra"}] /\ TypeOK
      /\ \A d \in Components, b \in Bundles :
            Stored(d, b) = "empty" => remote[d] = "empty"
  BY MarksAreNoBundles DEF TInv, TypeOK, Stored
<1>1. ASSUME NEW p \in Procs, Post(p) PROVE remote'[c] # "empty"
  <2>1. inv[p].bundle \in Bundles
    BY <1>1 DEF Post, At, TInv, Placed, Publishing
  <2>2. Stored(c, inv[p].bundle) # "empty"
    BY <1>0, <2>1
  <2>3. QED
    BY <1>0, <1>1, <2>2 DEF Post
<1>2. ASSUME NEW m \in flying, Land(m) PROVE remote'[c] # "empty"
  <2>1. m.bundle \in Bundles
    BY <1>0 DEF TypeOK
  <2>2. Stored(c, m.bundle) # "empty"
    BY <1>0, <2>1
  <2>3. QED
    BY <1>0, <1>2, <2>2 DEF Land
<1>3. ASSUME NEW d \in Components, ForeignWrite(d) PROVE remote'[c] # "empty"
  BY <1>0, <1>3 DEF ForeignWrite
<1>4. CASE remote' = remote
  BY <1>4
<1>5. CASE World \/ UNCHANGED vars
  BY <1>2, <1>3, <1>4, <1>5 DEF World, LoseIdentity, RotateWriter, server, vars
<1>6. ASSUME NEW p \in Procs, Act(p), ~Post(p) PROVE remote' = remote
  BY <1>6 DEF Act, Script, Failure, Begin, ReadKeychain, HoldIdentity, RefuseIdentity,
     ShareIdentity, Resume, Generate, SealArtifact, WriteChecksum, OpenPending,
     FinishPending, OpenProgress, ProgressLine, CheckProgress, ReadStatus, Metadata,
     Confirm, Record, Move, Complete, RemoveMarkers, RequestFails, AnswerLost, Crash,
     server
<1>7. QED
  BY <1>1, <1>4, <1>5, <1>6 DEF Next, Act

LEMMA NextStuck ==
    ASSUME AInv, AInv', Overlap = FALSE, [Next]_vars, NEW c \in Components, Stuck(c)
    PROVE  Stuck(c)'
<1>0. TInv /\ TypeOK /\ MInv /\ remote'[c] # "empty" /\ pending.whole
  BY StaysPopulated DEF AInv, MInv, TInv, Stuck, Lines3
<1>1. CASE World \/ UNCHANGED vars
  <2>1. UNCHANGED <<inv, markers>>
    BY <1>1 DEF World, Land, LoseIdentity, RotateWriter, ForeignWrite, vars, markers
  <2>2. QED
    BY <1>0, <2>1 DEF Stuck, Current, markers
<1>2. ASSUME NEW p \in Procs, Act(p) PROVE Stuck(c)'
  <2>0. /\ inv \in [Procs -> Invocation] /\ inv[p] \in Invocation
        /\ Placed(inv[p]) /\ Lined(p) /\ Marked(p) /\ Lined(p)'
    BY <1>0 DEF AInv, MInv, TInv, TypeOK
  <2>1. /\ inv[p].stage \notin Making \cup {"open", "line", "complete", "remove"}
        /\ inv[p].stage \in {"post", "confirm", "record", "move"} => Current(p) # c
    BY <1>0, <2>0 DEF Stuck, Lined, Marked
  <2>2. UNCHANGED markers \/ Move(p)
    BY <1>2, <2>1, WritesMarkers
    DEF OpenPending, FinishPending, OpenProgress, ProgressLine, Complete, RemoveMarkers,
        At, Making
  <2>3. completed' = "none" /\ progress'.status[c] = "pending"
    <3>1. CASE UNCHANGED markers
      BY <3>1 DEF Stuck, markers
    <3>2. CASE Move(p)
      BY <2>0, <2>1, <3>2 DEF Move, At, Stuck, Lined
    <3>3. QED
      BY <2>2, <3>1, <3>2
  <2>4. /\ inv'[p].stage \notin {"open", "line"}
        /\ inv'[p].stage \in {"post", "confirm", "record", "move"} => Current(p)' # c
    <3>1. ASSUME NEW result \in Results, End(p, result) PROVE inv'[p].stage = "idle"
      BY <2>0, <3>1 DEF End, Idle
    <3>2. CASE /\ Begin(p) /\ completed = "none"
      <4> DEFINE v == [Idle("running") EXCEPT !.stage = "keychain", !.writer = writer]
      <4>1. v.stage = "keychain"
        BY DEF Idle
      <4>2. inv' = [inv EXCEPT ![p] = v]
        BY <3>2 DEF Begin
      <4>3. inv'[p] = v
        BY <2>0, <4>2
      <4>4. QED
        BY <4>1, <4>3
    <3>3. CASE ReadKeychain(p) \/ HoldIdentity(p)
               \/ (ShareIdentity(p) /\ ~End(p, "refused")) \/ (Resume(p) /\ Bound(p))
               \/ (CheckProgress(p) /\ progress.file) \/ (ReadStatus(p) /\ progress.file)
               \/ Proceed(p)
      <4>1. inv'[p].stage \in {"identity", "custody", "bind", "check", "status",
                               "metadata", "complete"}
        BY <2>0, <3>3 DEF ReadKeychain, HoldIdentity, ShareIdentity, Resume,
           CheckProgress, ReadStatus, Proceed, Goto, Invocation
      <4>2. QED
        BY <4>1
    <3>4. CASE Generate(p) /\ Orphans = {}
      <4>1. PICK b \in Bundles : inv' = [inv EXCEPT ![p].bundle = b, ![p].stage = "artifact"]
        BY <3>4 DEF Generate
      <4>2. inv'[p].stage = "artifact"
        BY <2>0, <4>1 DEF Invocation
      <4>3. QED
        BY <4>2
    <3>5. CASE Metadata(p) /\ Goto(p, "post") /\ Agrees(inv[p].status, Current(p))
               /\ inv[p].status # "done"
      <4>1. inv'[p].stage = "post" /\ inv'[p].at = inv[p].at
        BY <2>0, <3>5 DEF Goto, Invocation
      <4>2. inv[p].status = progress.status[Current(p)]
        BY <2>0, <3>5 DEF Metadata, At, Lined
      <4>3. Current(p) # c
        BY <3>5, <4>2 DEF Agrees, Stuck
      <4>4. QED
        BY <4>1, <4>3 DEF Current
    <3>6. CASE /\ Post(p) \/ Confirm(p) \/ Record(p)
               /\ \/ Goto(p, "confirm") \/ Goto(p, "record")
                  \/ progress.file /\ Record(p)
      <4>1. inv'[p].stage \in {"confirm", "record", "move"} /\ inv'[p].at = inv[p].at
        BY <2>0, <3>6 DEF Goto, Record, Invocation
      <4>2. inv[p].stage \in {"post", "confirm", "record"}
        BY <3>6 DEF Post, Confirm, Record, At
      <4>3. QED
        BY <2>1, <4>1, <4>2 DEF Current
    <3>7. CASE Failure(p)
      BY <3>1, <3>7 DEF Failure, RequestFails, AnswerLost, Crash, Results
    <3>8. CASE Begin(p) \/ RefuseIdentity(p) \/ Resume(p) \/ Generate(p)
               \/ ShareIdentity(p) \/ CheckProgress(p) \/ ReadStatus(p)
      BY <3>1, <3>2, <3>3, <3>4, <3>8
      DEF Begin, RefuseIdentity, Resume, Generate, CheckProgress, ReadStatus, Results
    <3>9. CASE Metadata(p)
      BY <3>1, <3>3, <3>5, <3>9 DEF Metadata, Results
    <3>10. CASE Post(p) \/ Confirm(p) \/ Record(p) \/ Move(p)
      BY <3>1, <3>3, <3>6, <3>10 DEF Post, Confirm, Record, Move, Results
    <3>11. CASE \/ SealArtifact(p) \/ WriteChecksum(p) \/ OpenPending(p) \/ FinishPending(p)
                \/ OpenProgress(p) \/ ProgressLine(p) \/ Complete(p) \/ RemoveMarkers(p)
      BY <2>1, <3>11 DEF SealArtifact, WriteChecksum, OpenPending, FinishPending,
         OpenProgress, ProgressLine, Complete, RemoveMarkers, At, Making
    <3>12. QED
      BY <1>2, <3>3, <3>7, <3>8, <3>9, <3>10, <3>11 DEF Act, Script
  <2>5. \A q \in Procs \ {p} : inv'[q] = inv[q]
    BY <1>0, <1>2, Solo
  <2>6. QED
    BY <1>0, <2>3, <2>4, <2>5 DEF Stuck, Current
<1>3. QED
  BY <1>1, <1>2 DEF Next, Act

(* When invocations do not overlap, success is never declared from a state *)
(* in which nothing runs and a pending component's path is populated: by a *)
(* request whose answer was lost, or by somebody else.                     *)
THEOREM AmbiguousStopsHolds ==
    ASSUME Overlap = FALSE PROVE Spec => AmbiguousStops
<1> DEFINE Doomed == \E c \in Components : Stuck(c)
<1>1. Init => AInv
  <2>1. SUFFICES ASSUME Init PROVE AInv
    OBVIOUS
  <2>2. Lines3 /\ \A p \in Procs : Lined(p)
    BY <2>1 DEF Init, NoProgress, Lines, Idle, Lines3, Lined, Uploading, Looping
  <2>3. QED
    BY <2>1, <2>2, InitMInv DEF AInv
<1>2. AInv /\ [Next]_vars => AInv'
  BY NextAInv
<1>3. AInv /\ Quiet /\ Ambiguous => Doomed
  BY DEF AInv, Lines3, Quiet, Ambiguous, At, Stuck
<1>4. AInv /\ AInv' /\ Doomed /\ [Next]_vars => Doomed'
  <2>1. SUFFICES ASSUME AInv, AInv', [Next]_vars, NEW c \in Components, Stuck(c)
                 PROVE  Doomed'
    OBVIOUS
  <2>2. Stuck(c)'
    BY <2>1, NextStuck
  <2>3. QED
    BY <2>2
<1>5. Doomed => completed = "none"
  BY DEF Stuck
<1> HIDE DEF Doomed
<1>6. QED
  BY <1>1, <1>2, <1>3, <1>4, <1>5, PTL DEF Spec, AmbiguousStops

=============================================================================
