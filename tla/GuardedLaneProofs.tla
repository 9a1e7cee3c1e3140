--------------------------- MODULE GuardedLaneProofs ---------------------------
(* Proofs about GuardedLane, for any set of lanes that LaneAssumption      *)
(* admits and any bounds.                                                  *)
EXTENDS GuardedLane, TLAPS

(* The place in a loop is one of the loop.                                 *)
Placed == InTask => play.item = 1 \/ play.item \in DOMAIN Task.on

(* A task can only be left out by a play with such an option.              *)
Selected == play.skipped => play.skipping

TInv == TypeOK /\ Placed /\ Selected

(* What a lane that claims an object knows of one that is another's: it is *)
(* still there, what the role has read of it says so, and no task that     *)
(* compares the reading with the lane's own is behind the play.            *)
Claimed == {o \in play.old : Claims(lane, o) /\ Sealed(lane)}
Whole == Running /\ play.kind = "role" /\ ~play.skipped
On(i) == Elements(lane.script[i].on)
ReadAt(r, o) ==
    /\ lane.script[r].do = "read"
    /\ \/ r < play.pc /\ o \in On(r)
       \/ r = play.pc /\ \E j \in DOMAIN lane.script[r].on :
                            j < play.item /\ lane.script[r].on[j] = o
Standing == \A o \in Claimed : cluster[o].shape = "foreign"
Known == Whole => \A o \in Claimed, r \in DOMAIN lane.script :
                     ReadAt(r, o) => play.seen[o].shape = "foreign"
Unaccepted ==
    Whole => \A o \in Claimed, r, a \in DOMAIN lane.script :
                /\ r < a /\ a < play.pc
                /\ lane.script[r].do = "read" /\ o \in On(r)
                => ~(lane.script[a].do \in Owners /\ o \in On(a))
KInv == TInv /\ Standing /\ Known /\ Unaccepted

---------------------------------------------------------------------------
(* The tables and the records.                                             *)

LEMMA InSequence ==
    ASSUME NEW S, NEW s \in Seq(S), NEW i \in DOMAIN s
    PROVE  s[i] \in S /\ s[i] \in Elements(s)
  BY DEF Elements

LEMMA TaskFacts ==
    ASSUME TypeOK, InTask
    PROVE  /\ play.pc \in DOMAIN lane.script
           /\ Task.do \in STRING /\ Task.on \in Seq(Objects(lane))
           /\ Task.do \in Reading \cup Writing => Task.on # <<>>
           /\ Task.do \in Writing => Elements(Task.on) \subseteq Own(lane)
<1>1. lane \in Lanes /\ play.pc \in DOMAIN lane.script
  BY DEF TypeOK, InTask
<1>2. lane.script \in Seq([do : STRING, on : Seq(Objects(lane))])
  BY <1>1, LaneAssumption
<1>3. lane.script[play.pc] \in [do : STRING, on : Seq(Objects(lane))]
  BY <1>1, <1>2, InSequence
<1>4. Task \in [do : STRING, on : Seq(Objects(lane))]
  BY <1>3 DEF Task
<1>5. /\ Task.do \in Reading \cup Writing => Task.on # <<>>
      /\ Task.do \in Writing => Elements(Task.on) \subseteq Own(lane)
  BY <1>1, LaneAssumption DEF Task
<1>6. QED
  BY <1>1, <1>4, <1>5

LEMMA OwnObjects == \A l : Own(l) \subseteq Objects(l)
  BY DEF Objects

LEMMA ItemFacts ==
    ASSUME TInv, InTask, Task.do \in Reading \cup Writing
    PROVE  /\ play.item \in DOMAIN Task.on
           /\ Item \in Objects(lane) /\ Item \in Elements(Task.on)
           /\ Task.do \in Writing => Item \in Own(lane)
<1>1. Task.on \in Seq(Objects(lane)) /\ Task.on # <<>>
  BY TaskFacts DEF TInv
<1>2. 1 \in DOMAIN Task.on
  BY <1>1
<1>3. play.item \in DOMAIN Task.on
  BY <1>2 DEF TInv, Placed
<1>4. Item \in Objects(lane) /\ Item \in Elements(Task.on)
  BY <1>1, <1>3, InSequence DEF Item
<1>5. QED
  BY <1>3, <1>4, TaskFacts DEF TInv

(* The play after a task, after an item and after a refusal.               *)
LEMMA MovedFacts ==
    ASSUME NEW p \in Plays
    PROVE  /\ Moved(p) \in Plays
           /\ Moved(p).pc = p.pc + 1 /\ Moved(p).item = 1
           /\ Moved(p).kind = p.kind /\ Moved(p).skipping = p.skipping
           /\ Moved(p).skipped = p.skipped /\ Moved(p).old = p.old
           /\ Moved(p).seen = p.seen
           /\ Moved(p).outcome \in {p.outcome, "done"}
<1> DEFINE after == IF p.pc = Len(lane.script) THEN "done" ELSE p.outcome
<1>1. Moved(p) = [p EXCEPT !.pc = @ + 1, !.item = 1, !.failed = FALSE, !.outcome = after]
  BY DEF Moved
<1>2. after \in Outcomes /\ after \in {p.outcome, "done"}
  BY DEF Plays, Outcomes
<1> HIDE DEF after
<1> DEFINE q == [p EXCEPT !.pc = @ + 1]
           r == [q EXCEPT !.item = 1]
           t == [r EXCEPT !.failed = FALSE]
<1>3. q \in Plays
  BY DEF Plays
<1>4. r \in Plays
  <2> HIDE DEF q
  <2> QED
    BY <1>3 DEF Plays
<1>5. t \in Plays
  <2> HIDE DEF r
  <2> QED
    BY <1>4 DEF Plays
<1>6. [t EXCEPT !.outcome = after] \in Plays
  <2> HIDE DEF t
  <2> QED
    BY <1>2, <1>5 DEF Plays
<1>7. Moved(p) = [t EXCEPT !.outcome = after]
  BY <1>1 DEF Plays
<1>8. QED
  BY <1>1, <1>2, <1>6, <1>7 DEF Plays

LEMMA StoppedFacts ==
    ASSUME NEW p \in Plays, NEW outcome \in Outcomes
    PROVE  /\ Stopped(p, outcome) \in Plays
           /\ Stopped(p, outcome) = [p EXCEPT !.outcome = outcome]
           /\ Stopped(p, outcome).outcome = outcome
           /\ Stopped(p, outcome).skipping = p.skipping
           /\ Stopped(p, outcome).skipped = p.skipped
           /\ Stopped(p, outcome).old = p.old
  BY DEF Stopped, Plays

LEMMA LoopedFacts ==
    ASSUME NEW p \in Plays, Task.on \in Seq(Objects(lane)), p.item = play.item
    PROVE  /\ Looped(p) \in Plays
           /\ Looped(p).kind = p.kind /\ Looped(p).skipping = p.skipping
           /\ Looped(p).skipped = p.skipped /\ Looped(p).old = p.old
           /\ Looped(p).seen = p.seen
           /\ Looped(p).outcome \in {p.outcome, "done", "failed"}
           /\ \/ /\ p.item < Len(Task.on)
                 /\ Looped(p).pc = p.pc /\ Looped(p).item = p.item + 1
              \/ /\ ~(p.item < Len(Task.on))
                 /\ \/ Looped(p).outcome = "failed"
                    \/ Looped(p).pc = p.pc + 1 /\ Looped(p).item = 1
<1>1. CASE p.item < Len(Task.on)
  <2>1. Looped(p) = [p EXCEPT !.item = @ + 1]
    BY <1>1 DEF Looped
  <2>2. QED
    BY <1>1, <2>1 DEF Plays
<1>2. CASE ~(p.item < Len(Task.on)) /\ p.failed
  <2>1. Looped(p) = [p EXCEPT !.outcome = "failed"]
    BY <1>2 DEF Looped
  <2>2. QED
    BY <1>2, <2>1 DEF Plays, Outcomes
<1>3. CASE ~(p.item < Len(Task.on)) /\ ~p.failed
  <2>1. Looped(p) = Moved(p)
    BY <1>3 DEF Looped
  <2>2. QED
    BY <1>3, <2>1, MovedFacts
<1>4. QED
  BY <1>1, <1>2, <1>3

---------------------------------------------------------------------------
(* The steps, by what they do to the play.                                 *)

Others == UNCHANGED <<lane, cluster, files, attested, spent>>

(* A task that reads nothing of the cluster and goes on or stops the play. *)
PassStep ==
    /\ InTask /\ Task.do \notin Reading \cup Writing /\ Others
    /\ \/ /\ play' = Moved(play)
          /\ Task.do \in Owners =>
                \A o \in Elements(Task.on) : play.seen[o].shape # "foreign"
       \/ \E outcome \in {"refused", "foreign", "raced", "failed"} :
             play' = Stopped(play, outcome)

LoadStep ==
    /\ InTask /\ Task.do \in {"load", "bind"} /\ Others
    /\ \/ play' = Moved(play)
       \/ play' = [Moved(play) EXCEPT !.bound = TRUE]
       \/ play' = [Moved(play) EXCEPT
                     !.loaded = [o \in Objects(lane) |->
                                   IF o \in Own(lane) THEN files[o] ELSE "none"]]

(* A look at one object: what is read of it now replaces what was.         *)
LookStep ==
    /\ InTask /\ Task.do \in Reading /\ Others
    /\ \/ /\ \E seen, first, again \in [Objects(lane) -> Live] :
                /\ play' = Looped([play EXCEPT !.seen = seen, !.first = first, !.again = again])
                /\ seen \in {play.seen, [play.seen EXCEPT ![Item] = cluster[Item]]}
                /\ Task.do = "read" => seen = [play.seen EXCEPT ![Item] = cluster[Item]]
       \/ play' = Stopped(play, "failed")

(* One call of the plugin out of the role.                                 *)
WriteStep ==
    /\ InTask /\ Task.do \in Writing
    /\ UNCHANGED <<lane, files, attested>>
    /\ spent'.interference = spent.interference
    /\ spent' \in [plays : Nat, interference : Nat, edits : Nat, faults : Nat, byHand : Nat]
    /\ play' = Looped(play) \/ play' = Looped([play EXCEPT !.failed = TRUE])
    /\ \/ cluster' = cluster
       \/ /\ Permits(Item, Definition(Item), TRUE)
          /\ cluster' = [cluster EXCEPT ![Item] = Becomes(@, Written(Definition(Item)))]

LEMMA GatePasses ==
    ASSUME TInv, Reject \/ Attest \/ Hash \/ Content \/ Contract
    PROVE  PassStep
<1>1. CASE Reject \/ Attest \/ Hash \/ Content
  BY <1>1 DEF Reject, Attest, Hash, Content, Pass, At, PassStep, Others, Reading, Writing, Owners
<1>2. CASE Contract
  BY <1>2 DEF Contract, Pass, At, PassStep, Others, Reading, Writing, Owners
<1>3. QED
  BY <1>1, <1>2

LEMMA AcceptPasses ==
    ASSUME TInv, Accept
    PROVE  PassStep
<1>1. CASE AcceptLabels
  BY <1>1 DEF AcceptLabels, Pass, At, PassStep, Others, Reading, Writing, Owners, Seen, Labelled
<1>2. CASE AcceptExact
  BY <1>2 DEF AcceptExact, Pass, At, PassStep, Others, Reading, Writing, Owners, Seen
<1>3. CASE AcceptOurs
  BY <1>3 DEF AcceptOurs, Pass, At, PassStep, Others, Reading, Writing, Owners, Seen
<1>4. CASE AcceptThere
  BY <1>4 DEF AcceptThere, Pass, At, PassStep, Others, Reading, Writing, Owners
<1>5. CASE AcceptOldOrNew
  BY <1>5 DEF AcceptOldOrNew, Pass, At, PassStep, Others, Reading, Writing, Owners, Seen
<1>6. CASE AcceptAllOrNone
  BY <1>6 DEF AcceptAllOrNone, Pass, At, PassStep, Others, Reading, Writing, Owners
<1>7. CASE AtMostOne
  BY <1>7 DEF AtMostOne, Pass, At, PassStep, Others, Reading, Writing, Owners
<1>8. CASE AcceptRevision
  BY <1>8 DEF AcceptRevision, Pass, At, PassStep, Others, Reading, Writing, Owners, Seen
<1>9. QED
  BY <1>1, <1>2, <1>3, <1>4, <1>5, <1>6, <1>7, <1>8 DEF Accept

LEMMA RecheckPasses ==
    ASSUME TInv, Recheck
    PROVE  PassStep
<1>1. CASE None
  BY <1>1 DEF None, Compare, Pass, At, PassStep, Others, Reading, Writing, Owners
<1>2. CASE CompareVersion
  BY <1>2 DEF CompareVersion, Compare, Pass, At, PassStep, Others, Reading, Writing, Owners
<1>3. CASE CompareIdentity
  BY <1>3 DEF CompareIdentity, Compare, Pass, At, PassStep, Others, Reading, Writing, Owners
<1>4. CASE CompareInventory
  BY <1>4 DEF CompareInventory, Compare, Pass, At, PassStep, Others, Reading, Writing, Owners
<1>5. CASE CompareSpec
  BY <1>5 DEF CompareSpec, Compare, Pass, At, PassStep, Others, Reading, Writing, Owners
<1>6. CASE InEffect
  BY <1>6 DEF InEffect, Compare, Pass, At, PassStep, Others, Reading, Writing, Owners
<1>7. CASE VerifyExact \/ VerifyLabels
  BY <1>7 DEF VerifyExact, VerifyLabels, Pass, At, PassStep, Others, Reading, Writing, Owners
<1>8. CASE VerifyPart
  BY <1>8 DEF VerifyPart, Pass, At, PassStep, Others, Reading, Writing, Owners
<1>9. QED
  BY <1>1, <1>2, <1>3, <1>4, <1>5, <1>6, <1>7, <1>8 DEF Recheck

LEMMA BindLoads ==
    ASSUME TInv, Load \/ Bind
    PROVE  LoadStep
  BY DEF Load, Bind, At, LoadStep, Others

LEMMA LookType ==
    ASSUME TInv, InTask, Task.do \in Reading,
           NEW looks \in [Objects(lane) -> Live]
    PROVE  [looks EXCEPT ![Item] = cluster[Item]] \in [Objects(lane) -> Live]
  BY ItemFacts DEF TInv, TypeOK

LEMMA PlayFields ==
    ASSUME TInv
    PROVE  /\ play.seen \in [Objects(lane) -> Live]
           /\ play.first \in [Objects(lane) -> Live]
           /\ play.again \in [Objects(lane) -> Live]
           /\ play.loaded \in [Objects(lane) -> {"none", "reviewed", "edited"}]
           /\ play.old \subseteq Objects(lane)
           /\ play = [play EXCEPT !.seen = play.seen]
           /\ play.pc \in Nat /\ play.item \in Nat
  BY DEF TInv, TypeOK, Plays

LEMMA ObserveLooks ==
    ASSUME TInv, Observe
    PROVE  LookStep
<1>1. CASE Read
  <2>1. InTask /\ Task.do = "read" /\ Others
    BY <1>1 DEF Read, At, Others
  <2> DEFINE seen == [play.seen EXCEPT ![Item] = cluster[Item]]
             again == [play.again EXCEPT ![Item] = cluster[Item]]
  <2>2. seen \in [Objects(lane) -> Live] /\ again \in [Objects(lane) -> Live]
    BY <2>1, LookType, PlayFields DEF Reading
  <2>3. play' = Looped([play EXCEPT !.seen = seen, !.first = play.first, !.again = again])
    BY <1>1 DEF Read, TInv, TypeOK, Plays
  <2> HIDE DEF seen, again
  <2>4. QED
    BY <2>1, <2>2, <2>3, PlayFields DEF LookStep, Reading, seen
<1>2. CASE Inventory
  <2>1. InTask /\ Task.do = "inventory" /\ Others
    BY <1>2 DEF Inventory, At, Others
  <2> DEFINE first == [play.first EXCEPT ![Item] = cluster[Item]]
             again == [play.again EXCEPT ![Item] = cluster[Item]]
  <2>2. first \in [Objects(lane) -> Live] /\ again \in [Objects(lane) -> Live]
    BY <2>1, LookType, PlayFields DEF Reading
  <2>3. play' = Looped([play EXCEPT !.seen = play.seen, !.first = first, !.again = again])
    BY <1>2 DEF Inventory, TInv, TypeOK, Plays
  <2> HIDE DEF first, again
  <2>4. QED
    BY <2>1, <2>2, <2>3, PlayFields DEF LookStep, Reading
<1>3. CASE Look
  <2>1. InTask /\ Task.do = "look" /\ Others
    BY <1>3 DEF Look, At, Others
  <2> DEFINE again == [play.again EXCEPT ![Item] = cluster[Item]]
  <2>2. again \in [Objects(lane) -> Live]
    BY <2>1, LookType, PlayFields DEF Reading
  <2>3. play' = Looped([play EXCEPT !.seen = play.seen, !.first = play.first, !.again = again])
    BY <1>3 DEF Look, TInv, TypeOK, Plays
  <2> HIDE DEF again
  <2>4. QED
    BY <2>1, <2>2, <2>3, PlayFields DEF LookStep, Reading
<1>4. ASSUME InTask, Task.do \in {"waitPresent", "waitExact"}, Others,
             \/ play' = Looped([play EXCEPT !.seen[Item] = cluster[Item],
                                            !.again[Item] = cluster[Item]])
             \/ play' = Stopped(play, "failed")
      PROVE  LookStep
  <2> DEFINE seen == [play.seen EXCEPT ![Item] = cluster[Item]]
             again == [play.again EXCEPT ![Item] = cluster[Item]]
  <2>1. seen \in [Objects(lane) -> Live] /\ again \in [Objects(lane) -> Live]
    BY <1>4, LookType, PlayFields DEF Reading
  <2>2. CASE play' = Stopped(play, "failed")
    BY <1>4, <2>2 DEF LookStep, Reading
  <2>3. CASE play' = Looped([play EXCEPT !.seen[Item] = cluster[Item],
                                         !.again[Item] = cluster[Item]])
    <3>1. play' = Looped([play EXCEPT !.seen = seen, !.first = play.first, !.again = again])
      BY <2>3 DEF TInv, TypeOK, Plays
    <3> HIDE DEF seen, again
    <3>2. QED
      BY <1>4, <2>1, <3>1, PlayFields DEF LookStep, Reading, seen
  <2>4. QED
    BY <1>4, <2>2, <2>3
<1>5. CASE WaitPresent
  BY <1>4, <1>5 DEF WaitPresent, Wait, At, Others
<1>6. CASE WaitExact
  BY <1>4, <1>6 DEF WaitExact, Wait, At, Others
<1>7. QED
  BY <1>1, <1>2, <1>3, <1>5, <1>6 DEF Observe

LEMMA PutWrites ==
    ASSUME TInv, InTask, Task.do \in Writing, UNCHANGED <<lane, files, attested>>,
           \/ Put(Item)
           \/ PassOver
           \/ /\ play' = Looped([play EXCEPT !.failed = TRUE])
              /\ UNCHANGED <<cluster, spent>>
    PROVE  WriteStep
<1> DEFINE Spent == [plays : Nat, interference : Nat, edits : Nat, faults : Nat,
                     byHand : Nat]
<1>1. spent \in Spent
  BY DEF TInv, TypeOK
<1>2. \/ spent' = spent
      \/ spent' = [spent EXCEPT !.faults = @ + 1]
  BY DEF Put, PassOver
<1>3. spent' \in Spent /\ spent'.interference = spent.interference
  BY <1>1, <1>2
<1>4. play' = Looped(play) \/ play' = Looped([play EXCEPT !.failed = TRUE])
  BY DEF Put, PassOver
<1>5. \/ cluster' = cluster
      \/ /\ Permits(Item, Definition(Item), TRUE)
         /\ cluster' = [cluster EXCEPT ![Item] = Becomes(@, Written(Definition(Item)))]
  BY DEF Put, PassOver
<1>6. QED
  BY <1>3, <1>4, <1>5 DEF WriteStep

LEMMA MutateWrites ==
    ASSUME TInv, Mutate
    PROVE  WriteStep
<1>1. CASE Apply
  BY <1>1, PutWrites DEF Apply, At, Writing
<1>2. CASE ApplyWhen
  BY <1>2, PutWrites DEF ApplyWhen, At, Writing
<1>3. CASE Create
  BY <1>3, PutWrites DEF Create, At, Writing
<1>4. CASE Swap
  BY <1>4, PutWrites DEF Swap, At, Writing
<1>5. QED
  BY <1>1, <1>2, <1>3, <1>4 DEF Mutate

---------------------------------------------------------------------------
(* Types.                                                                  *)

LEMMA DefinitionType ==
    ASSUME TInv, NEW o \in Own(lane)
    PROVE  Definition(o) \in {"none", "reviewed", "edited"}
  BY OwnObjects DEF Definition, TInv, TypeOK, Plays

LEMMA BecomesType ==
    ASSUME NEW x \in Live, NEW shape \in Shapes
    PROVE  Becomes(x, shape) \in Live /\ Becomes(x, shape).shape = shape
  BY DEF Becomes, Live

LEMMA WrittenType ==
    \A content : Written(content) \in {"ours", "edited"}
  BY DEF Written

LEMMA ClusterType ==
    ASSUME TInv, NEW o \in Objects(lane), NEW shape \in Shapes,
           cluster' = [cluster EXCEPT ![o] = Becomes(@, shape)]
    PROVE  /\ cluster' \in [Objects(lane) -> Live]
           /\ cluster'[o].shape = shape
           /\ \A x \in Objects(lane) \ {o} : cluster'[x] = cluster[x]
  BY BecomesType DEF TInv, TypeOK

LEMMA FreshType ==
    ASSUME NEW l \in Lanes
    PROVE  /\ Own0(l) \in [Objects(l) -> Live]
           /\ NoPlay(l).pc = 1 /\ NoPlay(l).item = 1
           /\ NoPlay(l).kind = "role" /\ NoPlay(l).skipped = FALSE
           /\ NoPlay(l).skipping = FALSE
           /\ NoPlay(l).old = {} /\ NoPlay(l).outcome = "none"
           /\ l = lane => NoPlay(l) \in Plays
<1>1. Own0(l) \in [Objects(l) -> Live]
  BY DEF Own0, Unread, Live, Shapes
<1>2. l = lane => NoPlay(l) \in Plays
  BY <1>1 DEF NoPlay, Plays, Outcomes
<1>3. QED
  BY <1>1, <1>2 DEF NoPlay

LEMMA InitTyped == Init => TInv
<1> SUFFICES ASSUME Init PROVE TInv
  OBVIOUS
<1>1. lane \in Lanes /\ files \in [Own(lane) -> {"reviewed", "edited"}] /\ attested \in BOOLEAN
  BY DEF Init
<1>2. play = NoPlay(lane) /\ play \in Plays
  BY <1>1, FreshType DEF Init
<1>3. \A o \in Objects(lane), shape \in {"absent", "ours", "drifted"} : Initially(o, shape) \in Live
  BY DEF Initially, Live, Unread, Shapes
<1>4. cluster \in [Objects(lane) -> Live]
  BY <1>3 DEF Init
<1>5. spent \in [plays : Nat, interference : Nat, edits : Nat, faults : Nat, byHand : Nat]
  BY DEF Init
<1>6. Placed /\ Selected
  BY <1>1, <1>2, FreshType DEF Placed, Selected, InTask, Running
<1>7. QED
  BY <1>1, <1>2, <1>4, <1>5, <1>6 DEF TInv, TypeOK

LEMMA PlayTyped ==
    ASSUME TInv, UNCHANGED lane, play' \in Plays,
           cluster' \in [Objects(lane) -> Live],
           files' \in [Own(lane) -> {"reviewed", "edited"}], attested' \in BOOLEAN,
           spent' \in [plays : Nat, interference : Nat, edits : Nat, faults : Nat,
                       byHand : Nat],
           Placed', Selected'
    PROVE  TInv'
  BY DEF TInv, TypeOK, Plays

LEMMA SameSelected ==
    ASSUME TInv, play'.skipped = play.skipped, play'.skipping = play.skipping
    PROVE  Selected'
  BY DEF TInv, Selected

LEMMA PassTyped ==
    ASSUME TInv, PassStep
    PROVE  TInv'
<1>1. play \in Plays /\ Others
  BY DEF TInv, TypeOK, PassStep
<1>2. CASE play' = Moved(play)
  <2>1. play' \in Plays /\ Placed' /\ Selected'
    BY <1>1, <1>2, MovedFacts, SameSelected DEF Placed
  <2>2. QED
    BY <1>1, <2>1, PlayTyped DEF Others, TInv, TypeOK
<1>3. ASSUME NEW outcome \in {"refused", "foreign", "raced", "failed"},
             play' = Stopped(play, outcome)
      PROVE  TInv'
  <2>1. outcome \in Outcomes /\ outcome # "running"
    BY DEF Outcomes
  <2>2. play' \in Plays /\ play'.outcome = outcome /\ Selected'
    BY <1>1, <1>3, <2>1, StoppedFacts, SameSelected
  <2>3. Placed'
    BY <2>1, <2>2 DEF Placed, InTask, Running
  <2>4. QED
    BY <1>1, <2>2, <2>3, PlayTyped DEF Others, TInv, TypeOK
<1>4. QED
  BY <1>2, <1>3 DEF PassStep

LEMMA LoadTyped ==
    ASSUME TInv, LoadStep
    PROVE  /\ TInv'
           /\ play'.pc = play.pc + 1 /\ play'.item = 1 /\ play'.seen = play.seen
           /\ play'.kind = play.kind /\ play'.skipped = play.skipped
           /\ play'.old = play.old /\ play'.outcome \in {play.outcome, "done"}
<1>1. play \in Plays /\ Others
  BY DEF TInv, TypeOK, LoadStep
<1> DEFINE q == Moved(play)
           held == [o \in Objects(lane) |-> IF o \in Own(lane) THEN files[o] ELSE "none"]
<1>2. /\ q \in Plays /\ q.pc = play.pc + 1 /\ q.item = 1 /\ q.seen = play.seen
      /\ q.kind = play.kind /\ q.skipped = play.skipped /\ q.skipping = play.skipping
      /\ q.old = play.old /\ q.outcome \in {play.outcome, "done"}
  BY <1>1, MovedFacts
<1>3. held \in [Objects(lane) -> {"none", "reviewed", "edited"}]
  BY DEF TInv, TypeOK
<1>4. \/ play' = q
      \/ play' = [q EXCEPT !.bound = TRUE]
      \/ play' = [q EXCEPT !.loaded = held]
  BY DEF LoadStep
<1> HIDE DEF q, held
<1>5. /\ play' \in Plays /\ play'.pc = q.pc /\ play'.item = q.item
      /\ play'.seen = q.seen /\ play'.kind = q.kind /\ play'.skipped = q.skipped
      /\ play'.skipping = q.skipping /\ play'.old = q.old /\ play'.outcome = q.outcome
  <2>1. CASE play' = q
    BY <1>2, <2>1
  <2>2. CASE play' = [q EXCEPT !.bound = TRUE]
    BY <1>2, <2>2 DEF Plays
  <2>3. CASE play' = [q EXCEPT !.loaded = held]
    BY <1>2, <1>3, <2>3 DEF Plays
  <2>4. QED
    BY <1>4, <2>1, <2>2, <2>3
<1>6. Placed' /\ Selected'
  BY <1>2, <1>5, SameSelected DEF Placed
<1>7. TInv'
  BY <1>1, <1>5, <1>6, PlayTyped DEF Others, TInv, TypeOK
<1>8. QED
  BY <1>2, <1>5, <1>7

LEMMA LoopPlaced ==
    ASSUME TInv, InTask, Task.do \in Reading \cup Writing, UNCHANGED lane,
           NEW p \in Plays, p.item = play.item, p.pc = play.pc,
           p.skipped = play.skipped, p.skipping = play.skipping,
           play' = Looped(p)
    PROVE  play' \in Plays /\ Placed' /\ Selected'
<1>1. Task.on \in Seq(Objects(lane)) /\ play.item \in DOMAIN Task.on
  BY TaskFacts, ItemFacts DEF TInv
<1>2. play' \in Plays /\ Selected'
  BY <1>1, LoopedFacts, SameSelected
<1>3. CASE p.item < Len(Task.on)
  <2>1. play'.pc = play.pc /\ play'.item = play.item + 1
    BY <1>1, <1>3, LoopedFacts
  <2>2. play'.item \in DOMAIN Task.on
    BY <1>1, <1>3, <2>1
  <2>3. QED
    BY <1>2, <2>1, <2>2 DEF Placed, Task
<1>4. CASE ~(p.item < Len(Task.on))
  <2>1. play'.outcome = "failed" \/ play'.item = 1
    BY <1>1, <1>4, LoopedFacts
  <2>2. QED
    BY <1>2, <2>1 DEF Placed, InTask, Running
<1>5. QED
  BY <1>3, <1>4

LEMMA LookTyped ==
    ASSUME TInv, LookStep
    PROVE  TInv'
<1>1. play \in Plays /\ Others /\ InTask /\ Task.do \in Reading
  BY DEF TInv, TypeOK, LookStep
<1>2. ASSUME NEW seen \in [Objects(lane) -> Live], NEW first \in [Objects(lane) -> Live],
             NEW again \in [Objects(lane) -> Live],
             play' = Looped([play EXCEPT !.seen = seen, !.first = first, !.again = again])
      PROVE  TInv'
  <2> DEFINE p == [play EXCEPT !.seen = seen, !.first = first, !.again = again]
  <2>1. /\ p \in Plays /\ p.item = play.item /\ p.pc = play.pc
        /\ p.skipped = play.skipped /\ p.skipping = play.skipping
    BY <1>1 DEF Plays
  <2>2. play' \in Plays /\ Placed' /\ Selected'
    <3> HIDE DEF p
    <3> QED
      BY <1>1, <1>2, <2>1, LoopPlaced DEF Others, p
  <2>3. QED
    BY <1>1, <2>2, PlayTyped DEF Others, TInv, TypeOK
<1>3. CASE play' = Stopped(play, "failed")
  <2>1. play' \in Plays /\ play'.outcome = "failed" /\ Selected'
    BY <1>1, <1>3, StoppedFacts, SameSelected DEF Outcomes
  <2>2. Placed'
    BY <2>1 DEF Placed, InTask, Running
  <2>3. QED
    BY <1>1, <2>1, <2>2, PlayTyped DEF Others, TInv, TypeOK
<1>4. QED
  BY <1>2, <1>3 DEF LookStep

LEMMA WriteTyped ==
    ASSUME TInv, WriteStep
    PROVE  TInv'
<1>1. play \in Plays /\ InTask /\ Task.do \in Writing /\ UNCHANGED <<lane, files, attested>>
  BY DEF TInv, TypeOK, WriteStep
<1> DEFINE p == [play EXCEPT !.failed = TRUE]
<1>2. /\ p \in Plays /\ p.item = play.item /\ p.pc = play.pc
      /\ p.skipped = play.skipped /\ p.skipping = play.skipping
  BY <1>1 DEF Plays
<1>3. play' = Looped(play) \/ play' = Looped(p)
  BY DEF WriteStep
<1> HIDE DEF p
<1>4. play' \in Plays /\ Placed' /\ Selected'
  BY <1>1, <1>2, <1>3, LoopPlaced
<1>5. Item \in Objects(lane)
  BY <1>1, ItemFacts
<1>6. cluster' \in [Objects(lane) -> Live]
  BY <1>5, ClusterType, WrittenType DEF WriteStep, Shapes, TInv, TypeOK
<1>7. QED
  BY <1>1, <1>4, <1>6, PlayTyped DEF WriteStep, TInv, TypeOK

(* What a play starts from.                                                *)
Foreign == {o \in Objects(lane) : cluster[o].shape = "foreign"}

LEMMA StartFacts ==
    ASSUME TInv, StartWrapped \/ StartByHand
    PROVE  /\ play' \in Plays /\ play'.item = 1 /\ play'.pc = 1
           /\ play'.skipped = FALSE /\ play'.old = Foreign
           /\ UNCHANGED <<lane, cluster, files>> /\ attested' \in BOOLEAN
<1>1. NoPlay(lane) \in Plays
  BY FreshType DEF TInv, TypeOK
<1>2. Foreign \subseteq Objects(lane)
  BY DEF Foreign
<1>3. CASE StartWrapped
  <2>1. play' = [NoPlay(lane) EXCEPT !.outcome = "running", !.old = Foreign]
    BY <1>3 DEF StartWrapped, Foreign
  <2>2. play' \in Plays
    BY <1>1, <1>2, <2>1 DEF Plays, Outcomes
  <2>3. QED
    BY <1>3, <2>1, <2>2 DEF StartWrapped, NoPlay
<1>4. CASE StartByHand
  <2>1. PICK kind \in {"role", "task"}, skipping \in BOOLEAN, injected \in BOOLEAN :
           play' = [NoPlay(lane) EXCEPT !.outcome = "running", !.kind = kind,
                     !.skipping = skipping, !.injected = injected,
                     !.bound = injected,
                     !.loaded = [o \in Objects(lane) |-> IF injected THEN "edited" ELSE "none"],
                     !.old = Foreign]
    BY <1>4 DEF StartByHand, Foreign
  <2> DEFINE held == [o \in Objects(lane) |-> IF injected THEN "edited" ELSE "none"]
  <2>2. play' = [kind |-> kind, skipping |-> skipping, injected |-> injected,
                 skipped |-> FALSE, pc |-> 1, item |-> 1, loaded |-> held,
                 seen |-> Own0(lane), first |-> Own0(lane), again |-> Own0(lane),
                 bound |-> injected, failed |-> FALSE, old |-> Foreign, touched |-> {},
                 revised |-> {}, outcome |-> "running"]
    BY <2>1 DEF NoPlay
  <2>3. held \in [Objects(lane) -> {"none", "reviewed", "edited"}]
    OBVIOUS
  <2>4. Own0(lane) \in [Objects(lane) -> Live]
    BY FreshType DEF TInv, TypeOK
  <2> HIDE DEF held
  <2>5. play' \in Plays
    BY <1>2, <2>2, <2>3, <2>4 DEF Plays, Outcomes
  <2>6. QED
    BY <1>4, <2>2, <2>5 DEF StartByHand
<1>5. QED
  BY <1>3, <1>4

LEMMA StartTyped ==
    ASSUME TInv, StartWrapped \/ StartByHand
    PROVE  TInv'
<1>1. Placed' /\ Selected'
  BY StartFacts DEF Placed, Selected
<1>2. spent' \in [plays : Nat, interference : Nat, edits : Nat, faults : Nat, byHand : Nat]
  <2>1. spent \in [plays : Nat, interference : Nat, edits : Nat, faults : Nat, byHand : Nat]
    BY DEF TInv, TypeOK
  <2> DEFINE once == [spent EXCEPT !.plays = @ + 1]
  <2>2. once \in [plays : Nat, interference : Nat, edits : Nat, faults : Nat, byHand : Nat]
    BY <2>1
  <2>3. spent' = once \/ spent' = [once EXCEPT !.byHand = @ + 1]
    BY <2>1 DEF StartWrapped, StartByHand
  <2> HIDE DEF once
  <2>4. QED
    BY <2>2, <2>3
<1>3. QED
  BY <1>1, <1>2, StartFacts, PlayTyped DEF TInv, TypeOK

LEMMA CrashTyped ==
    ASSUME TInv, Crash
    PROVE  TInv' /\ play'.old = {} /\ play'.outcome = "crashed" /\ UNCHANGED <<lane, cluster>>
<1> DEFINE q == NoPlay(lane)
<1>1. q \in Plays /\ q.old = {} /\ q.skipped = FALSE
  BY FreshType DEF TInv, TypeOK
<1>2. play' = Stopped(q, "crashed") /\ UNCHANGED <<lane, cluster, files, spent>> /\ attested' = FALSE
  BY DEF Crash
<1> HIDE DEF q
<1>3. /\ play' \in Plays /\ play'.old = {} /\ play'.outcome = "crashed"
      /\ play'.skipped = FALSE
  BY <1>1, <1>2, StoppedFacts DEF Outcomes
<1>4. Placed' /\ Selected'
  BY <1>3 DEF Placed, Selected, InTask, Running
<1>5. QED
  BY <1>2, <1>3, <1>4, PlayTyped DEF TInv, TypeOK

LEMMA SkipFacts ==
    ASSUME TInv, Skip
    PROVE  TInv' /\ play'.skipped = TRUE /\ play'.old = play.old /\ UNCHANGED <<lane, cluster>>
<1>1. play \in Plays
  BY DEF TInv, TypeOK
<1> DEFINE q == Moved(play)
<1>2. q \in Plays /\ q.skipping = play.skipping /\ q.old = play.old /\ q.item = 1
  BY <1>1, MovedFacts
<1>3. play' = [q EXCEPT !.skipped = TRUE] /\ play.skipping
  BY DEF Skip
<1> HIDE DEF q
<1>4. /\ play' \in Plays /\ play'.skipped = TRUE /\ play'.old = play.old
      /\ play'.skipping = play.skipping /\ play'.item = 1
  BY <1>2, <1>3 DEF Plays
<1>5. QED
  BY <1>3, <1>4, PlayTyped DEF Skip, Placed, Selected, TInv, TypeOK

LEMMA ByHandFacts ==
    ASSUME TInv, CallByHand
    PROVE  /\ TInv' /\ play'.old = play.old /\ play'.outcome # "running"
           /\ UNCHANGED <<lane, spent>>
<1>1. play \in Plays
  BY DEF TInv, TypeOK
<1>2. play' = Stopped(play, "done") \/ play' = Stopped(play, "refused")
  BY DEF CallByHand
<1>3. play' \in Plays /\ play'.outcome # "running" /\ play'.old = play.old /\ Selected'
  BY <1>1, <1>2, StoppedFacts, SameSelected DEF Outcomes
<1>4. cluster' \in [Objects(lane) -> Live]
  <2>1. \A o \in Own(lane), shape \in Shapes :
           [cluster EXCEPT ![o] = Becomes(@, shape)] \in [Objects(lane) -> Live]
    BY BecomesType, OwnObjects DEF TInv, TypeOK
  <2>2. \A content : \A exact \in BOOLEAN :
           (IF exact THEN Written(content) ELSE "absent") \in Shapes
    BY WrittenType DEF Shapes
  <2>3. QED
    BY <2>1, <2>2 DEF CallByHand, TInv, TypeOK
<1>5. QED
  BY <1>3, <1>4, PlayTyped DEF CallByHand, Placed, InTask, Running, TInv, TypeOK

LEMMA InterfereFacts ==
    ASSUME TInv, Interfere
    PROVE  /\ TInv' /\ UNCHANGED lane /\ spent'.interference = spent.interference + 1
           /\ \E o \in Objects(lane) :
                 /\ \A x \in Objects(lane) \ {o} : cluster'[x] = cluster[x]
                 /\ \E touched \in SUBSET Objects(lane) :
                       play' = [play EXCEPT !.old = @ \ {o}, !.touched = touched]
<1>1. PICK o \in Objects(lane), shape \in Shapes \ {"edited"}, replaced \in BOOLEAN :
         /\ cluster' = [cluster EXCEPT
               ![o] = [shape |-> shape, rev |-> @.rev + 1,
                       uid |-> IF replaced \/ ~There(@) THEN @.uid + 1 ELSE @.uid]]
         /\ play' = [play EXCEPT !.old = @ \ {o}, !.touched = @ \cup {o}]
  BY DEF Interfere
<1>2. play \in Plays /\ play.old \subseteq Objects(lane) /\ play.touched \subseteq Objects(lane)
  BY DEF TInv, TypeOK, Plays
<1> DEFINE touched == play.touched \cup {o}
<1>3. /\ play' = [play EXCEPT !.old = @ \ {o}, !.touched = touched]
      /\ touched \in SUBSET Objects(lane)
  BY <1>1, <1>2
<1> HIDE DEF touched
<1>4. /\ play' \in Plays /\ play'.skipped = play.skipped /\ play'.skipping = play.skipping
      /\ play'.pc = play.pc /\ play'.item = play.item
      /\ play'.outcome = play.outcome /\ play'.kind = play.kind
  BY <1>2, <1>3 DEF Plays
<1>5. cluster[o] \in Live
  BY DEF TInv, TypeOK
<1>6. [shape |-> shape, rev |-> cluster[o].rev + 1,
       uid |-> IF replaced \/ ~There(cluster[o]) THEN cluster[o].uid + 1 ELSE cluster[o].uid]
      \in Live
  BY <1>5 DEF Live
<1>7. /\ cluster' \in [Objects(lane) -> Live]
      /\ \A x \in Objects(lane) \ {o} : cluster'[x] = cluster[x]
  BY <1>1, <1>6 DEF TInv, TypeOK
<1>8. /\ spent' \in [plays : Nat, interference : Nat, edits : Nat, faults : Nat, byHand : Nat]
      /\ spent'.interference = spent.interference + 1
      /\ UNCHANGED <<lane, files, attested>>
  BY DEF Interfere, TInv, TypeOK
<1>9. Placed' /\ Selected'
  BY <1>4, <1>8, SameSelected DEF Placed, InTask, Running, Task, TInv
<1>10. TInv'
  BY <1>4, <1>7, <1>8, <1>9, PlayTyped DEF TInv, TypeOK
<1>11. QED
  BY <1>3, <1>7, <1>8, <1>10

LEMMA SamePlay ==
    ASSUME TInv, UNCHANGED <<lane, play>>
    PROVE  Placed' /\ Selected' /\ play' \in Plays
  BY DEF TInv, TypeOK, Placed, Selected, InTask, Running, Task, Plays

LEMMA MaterializeFacts ==
    ASSUME TInv, Materialize
    PROVE  /\ TInv' /\ UNCHANGED <<lane, play, spent>> /\ "target" \in Objects(lane)
           /\ cluster["target"].shape = "absent"
           /\ \A x \in Objects(lane) \ {"target"} : cluster'[x] = cluster[x]
<1>1. /\ "target" \in Objects(lane) /\ cluster["target"].shape = "absent"
      /\ cluster' = [cluster EXCEPT !["target"] = Becomes(@, "ours")]
      /\ UNCHANGED <<lane, files, attested, play, spent>>
  BY DEF Materialize, There
<1>2. /\ cluster' \in [Objects(lane) -> Live]
      /\ \A x \in Objects(lane) \ {"target"} : cluster'[x] = cluster[x]
  BY <1>1, ClusterType DEF Shapes
<1>3. QED
  BY <1>1, <1>2, PlayTyped, SamePlay DEF TInv, TypeOK

(* The play goes on where it is; at most the edits are recorded.           *)
Unmoved ==
    /\ play' \in Plays /\ play'.pc = play.pc /\ play'.item = play.item
    /\ play'.kind = play.kind /\ play'.skipping = play.skipping
    /\ play'.skipped = play.skipped /\ play'.failed = play.failed
    /\ play'.seen = play.seen /\ play'.first = play.first /\ play'.again = play.again
    /\ play'.old = play.old /\ play'.touched = play.touched
    /\ play'.outcome = play.outcome /\ play.revised \subseteq play'.revised
LEMMA SameUnmoved ==
    ASSUME TInv, UNCHANGED play
    PROVE  Unmoved
  BY DEF TInv, TypeOK, Unmoved

LEMMA EditUnmoved ==
    ASSUME TInv, EditFile
    PROVE  /\ Unmoved
           /\ files' \in [Own(lane) -> {"reviewed", "edited"}]
           /\ \A o \in Own(lane) : files'[o] = files[o] \/ o \in play'.revised
<1>1. PICK o \in Own(lane) :
         /\ files' = [files EXCEPT ![o] = IF @ = "edited" THEN "reviewed" ELSE "edited"]
         /\ play' = [play EXCEPT !.revised = @ \cup {o}]
  BY DEF EditFile
<1>2. play \in Plays /\ files \in [Own(lane) -> {"reviewed", "edited"}] /\ UNCHANGED lane
  BY DEF EditFile, TInv, TypeOK
<1> DEFINE revised == play.revised \cup {o}
<1>3. play' = [play EXCEPT !.revised = revised] /\ revised \in SUBSET Own(lane)
  BY <1>1, <1>2 DEF Plays
<1>4. play.revised \subseteq revised /\ o \in revised
  OBVIOUS
<1> HIDE DEF revised
<1>5. Unmoved /\ play'.revised = revised
  BY <1>2, <1>3, <1>4 DEF Unmoved, Plays
<1>6. QED
  BY <1>1, <1>2, <1>4, <1>5

LEMMA EditTyped ==
    ASSUME TInv, EditFile \/ WrapperEnds
    PROVE  TInv' /\ UNCHANGED <<lane, cluster>> /\ Unmoved
<1>1. CASE EditFile
  <2>1. files' \in [Own(lane) -> {"reviewed", "edited"}] /\ Unmoved
    BY <1>1, EditUnmoved
  <2>2. spent' \in [plays : Nat, interference : Nat, edits : Nat, faults : Nat, byHand : Nat]
    BY <1>1 DEF EditFile, TInv, TypeOK
  <2>3. UNCHANGED <<lane, cluster, attested>>
    BY <1>1 DEF EditFile
  <2>4. Placed' /\ Selected' /\ play' \in Plays
    BY <2>1, <2>3 DEF Unmoved, TInv, Placed, Selected, InTask, Running, Task
  <2>5. QED
    BY <2>1, <2>2, <2>3, <2>4, PlayTyped DEF TInv, TypeOK
<1>2. CASE WrapperEnds
  BY <1>2, PlayTyped, SamePlay, SameUnmoved DEF WrapperEnds, TInv, TypeOK
<1>3. QED
  BY <1>1, <1>2

(* Every step is of one of these kinds.                                    *)
LEMMA StepKinds ==
    ASSUME TInv, Next
    PROVE  \/ StartWrapped \/ StartByHand \/ Crash \/ Skip
           \/ PassStep \/ LoadStep \/ LookStep \/ WriteStep
           \/ CallByHand \/ Interfere \/ Materialize \/ EditFile \/ WrapperEnds
  BY GatePasses, AcceptPasses, RecheckPasses, BindLoads, ObserveLooks, MutateWrites
     DEF Next, Gate

LEMMA NextTyped == TInv /\ [Next]_vars => TInv'
<1> SUFFICES ASSUME TInv, [Next]_vars PROVE TInv'
  OBVIOUS
<1>1. CASE Next
  BY <1>1, StepKinds, StartTyped, CrashTyped, SkipFacts, PassTyped, LoadTyped, LookTyped,
     WriteTyped, ByHandFacts, InterfereFacts, MaterializeFacts, EditTyped
<1>2. CASE UNCHANGED vars
  BY <1>2, PlayTyped, SamePlay DEF vars, TInv, TypeOK
<1>3. QED
  BY <1>1, <1>2

(* Every reachable state is type correct, whatever the lane.               *)
THEOREM TypeCorrect == Spec => []TypeOK
<1>1. TInv => TypeOK
  BY DEF TInv
<1>2. QED
  BY <1>1, InitTyped, NextTyped, PTL DEF Spec

---------------------------------------------------------------------------
(* What a write goes through.                                              *)

LEMMA PermitFacts ==
    ASSUME TInv, NEW o, NEW content, NEW exact \in BOOLEAN, Permits(o, content, exact)
    PROVE  /\ exact
           /\ "selection" \in lane.plugin.guards => ~play.skipping
           /\ "source" \in lane.plugin.guards => play.kind = "role"
           /\ "attestation" \in lane.plugin.guards => attested
           /\ lane.plugin.closure = "hash" => content = "reviewed"
           /\ lane.plugin.closure = "files" => content = files[o]
<1>1. "arguments" \in lane.plugin.guards
  BY LaneAssumption DEF TInv, TypeOK
<1>2. QED
  BY <1>1 DEF Permits, Meets, InClosure

(* A change of an object of the lane by the play is one permitted call.    *)
LEMMA WriteOrigin ==
    ASSUME TInv, Next, NEW o \in Objects(lane), PlayWrites(o)
    PROVE  \/ /\ WriteStep /\ o = Item /\ Permits(o, Definition(o), TRUE)
              /\ cluster' = [cluster EXCEPT ![o] = Becomes(@, Written(Definition(o)))]
           \/ /\ CallByHand /\ play.kind = "task"
              /\ \E content \in {"reviewed", "edited"}, exact \in BOOLEAN :
                    /\ Permits(o, content, exact)
                    /\ cluster' = [cluster EXCEPT
                          ![o] = Becomes(@, IF exact THEN Written(content) ELSE "absent")]
<1>1. cluster \in [Objects(lane) -> Live] /\ lane \in Lanes
  BY DEF TInv, TypeOK
<1>2. cluster'[o] # cluster[o] /\ spent'.interference = spent.interference /\ o \in Own(lane)
  BY DEF PlayWrites
<1>3. CASE WriteStep
  BY <1>1, <1>2, <1>3 DEF WriteStep
<1>4. CASE CallByHand
  <2>1. play.kind = "task" /\ cluster' # cluster
    BY <1>2, <1>4 DEF CallByHand
  <2>2. PICK x \in Own(lane), content \in {"reviewed", "edited"}, exact \in BOOLEAN :
           /\ Permits(x, content, exact)
           /\ cluster' = [cluster EXCEPT
                 ![x] = Becomes(@, IF exact THEN Written(content) ELSE "absent")]
    BY <1>4, <2>1 DEF CallByHand
  <2>3. x = o
    BY <1>1, <1>2, <2>2
  <2>4. QED
    BY <1>4, <2>1, <2>2, <2>3
<1>5. CASE Materialize
  BY <1>1, <1>2, <1>5, MaterializeFacts, LaneAssumption
<1>6. CASE Interfere
  <2>1. spent.interference \in Nat
    BY DEF TInv, TypeOK
  <2>2. spent'.interference = spent.interference + 1
    BY <1>6, InterfereFacts
  <2>3. QED
    BY <1>2, <2>1, <2>2
<1>7. ~(StartWrapped \/ StartByHand \/ Crash \/ Skip \/ PassStep \/ LoadStep \/ LookStep
        \/ EditFile \/ WrapperEnds)
  BY <1>2 DEF StartWrapped, StartByHand, Crash, Skip, PassStep, LoadStep, LookStep, Others,
     EditFile, WrapperEnds
<1>8. QED
  BY <1>3, <1>4, <1>5, <1>6, <1>7, StepKinds

---------------------------------------------------------------------------
(* Objects of others.                                                      *)

LEMMA ScriptDomain ==
    ASSUME TInv
    PROVE  /\ lane.script \in Seq([do : STRING, on : Seq(Objects(lane))])
           /\ DOMAIN lane.script = 1 .. Len(lane.script) /\ Len(lane.script) \in Nat
           /\ \A i \in DOMAIN lane.script : lane.script[i].on \in Seq(Objects(lane))
<1>1. lane.script \in Seq([do : STRING, on : Seq(Objects(lane))])
  BY LaneAssumption DEF TInv, TypeOK
<1>2. DOMAIN lane.script = 1 .. Len(lane.script) /\ Len(lane.script) \in Nat
  BY <1>1
<1>3. ASSUME NEW i \in DOMAIN lane.script
      PROVE  lane.script[i].on \in Seq(Objects(lane))
  <2>1. lane.script[i] \in [do : STRING, on : Seq(Objects(lane))]
    BY <1>1, InSequence
  <2>2. QED
    BY <2>1
<1>4. QED
  BY <1>1, <1>2, <1>3

LEMMA SameClaimed ==
    ASSUME UNCHANGED lane, play'.old = play.old
    PROVE  Claimed' = Claimed
  BY DEF Claimed

LEMMA NoClaimedWrite ==
    ASSUME KInv, WriteStep, Permits(Item, Definition(Item), TRUE)
    PROVE  Item \notin Claimed
<1> SUFFICES ASSUME Item \in Claimed PROVE FALSE
  OBVIOUS
<1>1. TInv /\ InTask /\ Task.do \in Writing /\ lane \in Lanes
  BY DEF KInv, WriteStep, TInv, TypeOK
<1>2. Claims(lane, Item) /\ Sealed(lane)
  BY DEF Claimed
<1>3. play.kind = "role" /\ ~play.skipping
  BY <1>1, <1>2, PermitFacts DEF Sealed
<1>4. Whole
  BY <1>1, <1>3 DEF Whole, InTask, TInv, Selected
<1>5. play.pc \in DOMAIN lane.script /\ Item \in Elements(lane.script[play.pc].on)
      /\ lane.script[play.pc].do \in Writing
  BY <1>1, ItemFacts DEF InTask, Task
<1>6. LookedAt(lane, Item, play.pc)
  BY <1>1, <1>2, <1>5, LaneAssumption
<1>7. PICK r, a \in 1 .. play.pc - 1 :
         /\ r < a
         /\ lane.script[r].do = "read" /\ Item \in On(r)
         /\ lane.script[a].do \in Owners /\ Item \in On(a)
  BY <1>6 DEF LookedAt, On
<1>8. r \in DOMAIN lane.script /\ a \in DOMAIN lane.script /\ a < play.pc
  BY <1>1, <1>5, <1>7, ScriptDomain
<1>9. QED
  BY <1>4, <1>7, <1>8 DEF KInv, Unaccepted

(* The play goes on to the next task, with what it knew of what it read.   *)
LEMMA NextTaskKept ==
    ASSUME KInv, InTask, UNCHANGED <<lane, cluster>>, play'.old = play.old,
           play'.kind = play.kind, play'.skipped = play.skipped,
           play'.outcome = "running" => play.outcome = "running",
           play'.pc = play.pc + 1, play'.item = 1, play'.seen = play.seen,
           Task.do # "read",
           Task.do \in Owners =>
              \A o \in Elements(Task.on) : play.seen[o].shape # "foreign"
    PROVE  Standing' /\ Known' /\ Unaccepted'
<1>1. TInv /\ play.pc \in Nat /\ DOMAIN lane.script = 1 .. Len(lane.script)
      /\ Len(lane.script) \in Nat
  BY ScriptDomain, PlayFields DEF KInv
<1>2. Claimed' = Claimed /\ (Whole' => Whole)
  BY SameClaimed DEF Whole, Running
<1>3. Standing'
  BY <1>2 DEF KInv, Standing
<1>4. ASSUME NEW o, NEW r \in DOMAIN lane.script, ReadAt(r, o)'
      PROVE  ReadAt(r, o)
  <2>1. lane.script[r].do = "read"
    BY <1>4 DEF ReadAt
  <2>2. \A j \in DOMAIN lane.script[r].on : ~(j < 1)
    BY <1>1, ScriptDomain
  <2>3. r < play.pc + 1 /\ o \in On(r)
    BY <1>4, <2>2 DEF ReadAt, On
  <2>4. r # play.pc
    BY <2>1 DEF Task
  <2>5. QED
    BY <1>1, <2>1, <2>3, <2>4 DEF ReadAt
<1>5. Known'
  BY <1>2, <1>4 DEF KInv, Known
<1>6. ASSUME Whole, NEW o \in Claimed, NEW r \in DOMAIN lane.script,
             NEW a \in DOMAIN lane.script, r < a, a < play.pc + 1,
             lane.script[r].do = "read", o \in On(r),
             lane.script[a].do \in Owners, o \in On(a)
      PROVE  FALSE
  <2>1. CASE a < play.pc
    BY <1>6, <2>1 DEF KInv, Unaccepted
  <2>2. CASE a = play.pc
    <3>1. r < play.pc
      BY <1>6, <2>2
    <3>2. play.seen[o].shape = "foreign"
      BY <1>6, <3>1 DEF KInv, Known, ReadAt
    <3>3. Task.do \in Owners /\ o \in Elements(Task.on)
      BY <1>6, <2>2 DEF On, Task
    <3>4. QED
      BY <3>2, <3>3
  <2>3. QED
    BY <1>1, <1>6, <2>1, <2>2
<1>7. Unaccepted'
  <2> SUFFICES ASSUME Whole', NEW o \in Claimed', NEW r \in DOMAIN lane'.script,
                      NEW a \in DOMAIN lane'.script, r < a, a < play'.pc,
                      lane'.script[r].do = "read", o \in On(r)',
                      lane'.script[a].do \in Owners, o \in On(a)'
               PROVE  FALSE
    BY DEF Unaccepted
  <2> QED
    BY <1>2, <1>6 DEF On
<1>8. QED
  BY <1>3, <1>5, <1>7

(* The play goes on in a loop, or past its end: what it read of a claimed  *)
(* object, the item just done included, says that it is another's.         *)
LEMMA LoopKept ==
    ASSUME KInv, InTask, Task.do \in Reading \cup Writing, UNCHANGED lane,
           NEW p \in Plays, p.item = play.item, p.pc = play.pc, p.kind = play.kind,
           p.skipped = play.skipped, p.old = play.old, p.outcome = play.outcome,
           play' = Looped(p),
           \A o \in Claimed : cluster'[o] = cluster[o],
           \A o \in Claimed : p.seen[o] = play.seen[o] \/ p.seen[o] = cluster[o],
           Task.do = "read" /\ Item \in Claimed => p.seen[Item] = cluster[Item]
    PROVE  Standing' /\ Known' /\ Unaccepted'
<1>1. /\ TInv /\ play.pc \in Nat /\ play.item \in Nat
      /\ DOMAIN lane.script = 1 .. Len(lane.script) /\ Len(lane.script) \in Nat
  BY ScriptDomain, PlayFields DEF KInv
<1>2. Task.on \in Seq(Objects(lane)) /\ play.item \in DOMAIN Task.on
  BY <1>1, TaskFacts, ItemFacts DEF TInv
<1>3. /\ play'.old = play.old /\ play'.kind = play.kind /\ play'.skipped = play.skipped
      /\ play'.seen = p.seen /\ play'.outcome \in {play.outcome, "done", "failed"}
  BY <1>2, LoopedFacts
<1>4. Claimed' = Claimed /\ (Whole' => Whole)
  BY <1>3, SameClaimed DEF Whole, Running
<1>5. Standing'
  BY <1>4 DEF KInv, Standing
<1>6. \/ play'.item = play.item + 1 /\ play'.pc = play.pc
      \/ ~Whole'
      \/ ~(play.item < Len(Task.on)) /\ play'.pc = play.pc + 1 /\ play'.item = 1
  BY <1>2, LoopedFacts DEF Whole, Running
<1>7. ASSUME Whole', NEW o \in Claimed, NEW r \in DOMAIN lane.script, ReadAt(r, o)'
      PROVE  ReadAt(r, o) \/ (Task.do = "read" /\ Item = o)
  <2>1. lane.script[r].do = "read"
    BY <1>7 DEF ReadAt
  <2>2. ASSUME r = play.pc, NEW j \in DOMAIN Task.on, Task.on[j] = o,
               j < play.item + 1
        PROVE  ReadAt(r, o) \/ (Task.do = "read" /\ Item = o)
    <3>1. j \in Nat /\ Task.do = "read" /\ lane.script[r] = Task
      BY <1>2, <2>1, <2>2 DEF Task
    <3>2. CASE j < play.item
      BY <2>1, <2>2, <3>1, <3>2 DEF ReadAt
    <3>3. CASE j = play.item
      BY <2>2, <3>1, <3>3 DEF Item
    <3>4. QED
      BY <1>1, <2>2, <3>1, <3>2, <3>3
  <2>3. CASE play'.item = play.item + 1 /\ play'.pc = play.pc
    BY <1>7, <2>1, <2>2, <2>3 DEF ReadAt, On, Task
  <2>4. CASE ~(play.item < Len(Task.on)) /\ play'.pc = play.pc + 1 /\ play'.item = 1
    <3>1. \A j \in DOMAIN lane.script[r].on : ~(j < 1)
      BY <1>1, ScriptDomain
    <3>2. r < play.pc + 1 /\ o \in On(r)
      BY <1>7, <2>4, <3>1 DEF ReadAt, On
    <3>3. CASE r < play.pc
      BY <2>1, <3>2, <3>3 DEF ReadAt
    <3>4. CASE r = play.pc
      <4>1. PICK j \in DOMAIN Task.on : Task.on[j] = o
        BY <3>2, <3>4 DEF On, Elements, Task
      <4>2. j < play.item + 1
        BY <1>1, <1>2, <2>4, <4>1
      <4>3. QED
        BY <2>2, <3>4, <4>1, <4>2
    <3>5. QED
      BY <1>1, <3>2, <3>3, <3>4
  <2>5. QED
    BY <1>6, <1>7, <2>3, <2>4
<1>8. ASSUME Whole', NEW o \in Claimed, NEW r \in DOMAIN lane.script, ReadAt(r, o)'
      PROVE  play'.seen[o].shape = "foreign"
  <2>1. cluster[o].shape = "foreign"
    BY DEF KInv, Standing
  <2>2. CASE ReadAt(r, o)
    <3>1. play.seen[o].shape = "foreign"
      BY <1>4, <1>8, <2>2 DEF KInv, Known
    <3>2. QED
      BY <1>3, <2>1, <3>1
  <2>3. CASE Task.do = "read" /\ Item = o
    BY <1>3, <2>1, <2>3
  <2>4. QED
    BY <1>7, <1>8, <2>2, <2>3
<1>9. Known'
  BY <1>4, <1>8 DEF Known
<1>10. Task.do \notin Owners
  BY DEF Reading, Writing, Owners
<1>11. Unaccepted'
  <2> SUFFICES ASSUME Whole', NEW o \in Claimed', NEW r \in DOMAIN lane'.script,
                      NEW a \in DOMAIN lane'.script, r < a, a < play'.pc,
                      lane'.script[r].do = "read", o \in On(r)',
                      lane'.script[a].do \in Owners, o \in On(a)'
               PROVE  FALSE
    BY DEF Unaccepted
  <2>1. a # play.pc
    BY <1>10 DEF Task
  <2>2. a < play.pc
    BY <1>1, <1>6, <2>1
  <2>3. QED
    BY <1>4, <2>2 DEF KInv, Unaccepted, On
<1>12. QED
  BY <1>5, <1>9, <1>11

(* A play that is not a whole one of the role has nothing to keep but the  *)
(* objects themselves.                                                     *)
LEMMA EndKept ==
    ASSUME KInv, UNCHANGED lane, play'.old = play.old, ~Whole',
           \A o \in Claimed : cluster'[o] = cluster[o]
    PROVE  Standing' /\ Known' /\ Unaccepted'
<1>1. Claimed' = Claimed
  BY SameClaimed
<1>2. Standing'
  BY <1>1 DEF KInv, Standing
<1>3. QED
  BY <1>2 DEF Known, Unaccepted

LEMMA PassKept ==
    ASSUME KInv, PassStep
    PROVE  Standing' /\ Known' /\ Unaccepted'
<1>1. TInv /\ play \in Plays /\ InTask /\ Others /\ Task.do \notin Reading \cup Writing
  BY DEF KInv, TInv, TypeOK, PassStep
<1>2. CASE play' = Moved(play) /\ (Task.do \in Owners =>
                \A o \in Elements(Task.on) : play.seen[o].shape # "foreign")
  BY <1>1, <1>2, MovedFacts, NextTaskKept DEF Others, Reading
<1>3. CASE \E outcome \in {"refused", "foreign", "raced", "failed"} :
             play' = Stopped(play, outcome)
  <2>1. play'.old = play.old /\ play'.outcome # "running"
    BY <1>1, <1>3, StoppedFacts DEF Outcomes
  <2>2. QED
    BY <1>1, <2>1, EndKept DEF Others, Whole, Running
<1>4. QED
  BY <1>2, <1>3 DEF PassStep

LEMMA LoadKept ==
    ASSUME KInv, LoadStep
    PROVE  Standing' /\ Known' /\ Unaccepted'
<1>1. TInv /\ InTask /\ Others /\ Task.do \in {"load", "bind"}
  BY DEF KInv, LoadStep
<1>2. Task.do # "read" /\ Task.do \notin Owners
  BY <1>1 DEF Owners
<1>3. play'.outcome = "running" => play.outcome = "running"
  BY <1>1, LoadTyped
<1>4. QED
  BY <1>1, <1>2, <1>3, LoadTyped, NextTaskKept DEF Others

LEMMA LookKept ==
    ASSUME KInv, LookStep
    PROVE  Standing' /\ Known' /\ Unaccepted'
<1>1. TInv /\ play \in Plays /\ InTask /\ Others /\ Task.do \in Reading
  BY DEF KInv, TInv, TypeOK, LookStep
<1>2. ASSUME NEW seen \in [Objects(lane) -> Live], NEW first \in [Objects(lane) -> Live],
             NEW again \in [Objects(lane) -> Live],
             play' = Looped([play EXCEPT !.seen = seen, !.first = first, !.again = again]),
             seen \in {play.seen, [play.seen EXCEPT ![Item] = cluster[Item]]},
             Task.do = "read" => seen = [play.seen EXCEPT ![Item] = cluster[Item]]
      PROVE  Standing' /\ Known' /\ Unaccepted'
  <2> DEFINE p == [play EXCEPT !.seen = seen, !.first = first, !.again = again]
  <2>1. /\ p \in Plays /\ p.item = play.item /\ p.pc = play.pc /\ p.kind = play.kind
        /\ p.skipped = play.skipped /\ p.old = play.old /\ p.outcome = play.outcome
        /\ p.seen = seen
    BY <1>1 DEF Plays
  <2>2. Item \in Objects(lane) /\ play.seen \in [Objects(lane) -> Live]
    BY <1>1, ItemFacts, PlayFields
  <2>3. \A o \in Claimed : o \in Objects(lane)
    BY <1>1, PlayFields DEF Claimed
  <2>4. \A o \in Claimed : seen[o] = play.seen[o] \/ seen[o] = cluster[o]
    BY <1>2, <2>2, <2>3
  <2>5. Task.do = "read" => seen[Item] = cluster[Item]
    BY <1>2, <2>2
  <2>6. play' = Looped(p) /\ UNCHANGED <<lane, cluster>>
    BY <1>1, <1>2 DEF Others
  <2> HIDE DEF p
  <2>7. QED
    BY <1>1, <2>1, <2>4, <2>5, <2>6, LoopKept
<1>3. CASE play' = Stopped(play, "failed")
  <2>1. play'.old = play.old /\ play'.outcome # "running"
    BY <1>1, <1>3, StoppedFacts DEF Outcomes
  <2>2. QED
    BY <1>1, <2>1, EndKept DEF Others, Whole, Running
<1>4. QED
  BY <1>2, <1>3 DEF LookStep

LEMMA WriteKept ==
    ASSUME KInv, WriteStep
    PROVE  Standing' /\ Known' /\ Unaccepted'
<1>1. TInv /\ play \in Plays /\ InTask /\ Task.do \in Writing /\ UNCHANGED lane
  BY DEF KInv, TInv, TypeOK, WriteStep
<1> DEFINE p == [play EXCEPT !.failed = TRUE]
<1>2. /\ p \in Plays /\ p.item = play.item /\ p.pc = play.pc /\ p.kind = play.kind
      /\ p.skipped = play.skipped /\ p.old = play.old /\ p.outcome = play.outcome
      /\ p.seen = play.seen
  BY <1>1 DEF Plays
<1>3. play' = Looped(play) \/ play' = Looped(p)
  BY DEF WriteStep
<1> HIDE DEF p
<1>4. \A o \in Claimed : o \in Objects(lane)
  BY <1>1, PlayFields DEF Claimed
<1>5. \A o \in Claimed : cluster'[o] = cluster[o]
  BY <1>1, <1>4, NoClaimedWrite DEF WriteStep, TInv, TypeOK
<1>6. Task.do # "read"
  BY <1>1 DEF Writing
<1>7. QED
  BY <1>1, <1>2, <1>3, <1>5, <1>6, LoopKept

LEMMA StartKept ==
    ASSUME KInv, StartWrapped \/ StartByHand
    PROVE  Standing' /\ Known' /\ Unaccepted'
<1>1. /\ TInv /\ play'.pc = 1 /\ play'.item = 1 /\ UNCHANGED <<lane, cluster>>
      /\ play'.old = Foreign
  BY StartFacts DEF KInv
<1>2. Standing'
  BY <1>1 DEF Standing, Claimed, Foreign
<1>3. \A r \in DOMAIN lane.script : ~(r < 1) /\ \A j \in DOMAIN lane.script[r].on : ~(j < 1)
  BY <1>1, ScriptDomain
<1>4. \A o, r : r \in DOMAIN lane.script => ~ReadAt(r, o)'
  BY <1>1, <1>3 DEF ReadAt
<1>5. Known'
  BY <1>1, <1>4 DEF Known
<1>6. Unaccepted'
  BY <1>1, <1>3 DEF Unaccepted
<1>7. QED
  BY <1>2, <1>5, <1>6

LEMMA InterfereKept ==
    ASSUME KInv, Interfere
    PROVE  Standing' /\ Known' /\ Unaccepted'
<1>1. TInv /\ play \in Plays /\ play.old \subseteq Objects(lane) /\ UNCHANGED lane
  BY PlayFields, InterfereFacts DEF KInv, TInv, TypeOK
<1>2. PICK o \in Objects(lane), touched \in SUBSET Objects(lane) :
         /\ \A x \in Objects(lane) \ {o} : cluster'[x] = cluster[x]
         /\ play' = [play EXCEPT !.old = @ \ {o}, !.touched = touched]
  BY <1>1, InterfereFacts
<1>3. /\ play'.old = play.old \ {o} /\ play'.seen = play.seen
      /\ play'.pc = play.pc /\ play'.item = play.item /\ play'.kind = play.kind
      /\ play'.skipped = play.skipped /\ play'.outcome = play.outcome
  BY <1>1, <1>2 DEF Plays
<1>4. Claimed' \subseteq Claimed \ {o} /\ (Whole' => Whole)
  BY <1>1, <1>3 DEF Claimed, Whole, Running
<1>5. Claimed \subseteq Objects(lane)
  BY <1>1 DEF Claimed
<1>6. Standing'
  BY <1>2, <1>4, <1>5 DEF KInv, Standing
<1>7. Known'
  BY <1>1, <1>3, <1>4 DEF KInv, Known, ReadAt, On
<1>8. Unaccepted'
  BY <1>1, <1>3, <1>4 DEF KInv, Unaccepted, On
<1>9. QED
  BY <1>6, <1>7, <1>8

(* A step that leaves the play alone, and every object another had.        *)
LEMMA AsideKept ==
    ASSUME KInv, UNCHANGED lane, Unmoved,
           \A o \in Claimed : cluster'[o] = cluster[o]
    PROVE  Standing' /\ Known' /\ Unaccepted'
<1>1. Claimed' = Claimed /\ (Whole' => Whole)
  BY SameClaimed DEF Whole, Running, Unmoved
<1>2. Standing'
  BY <1>1 DEF KInv, Standing
<1>3. Known'
  BY <1>1 DEF KInv, Known, ReadAt, On, Unmoved
<1>4. Unaccepted'
  BY <1>1 DEF KInv, Unaccepted, On, Unmoved
<1>5. QED
  BY <1>2, <1>3, <1>4

LEMMA ByHandKept ==
    ASSUME KInv, CallByHand
    PROVE  Standing' /\ Known' /\ Unaccepted'
<1>1. /\ TInv /\ UNCHANGED lane /\ play'.old = play.old /\ ~Whole'
      /\ play.old \subseteq Objects(lane)
  BY ByHandFacts, PlayFields DEF KInv, Whole, Running
<1>2. \A o \in Claimed : cluster'[o] = cluster[o]
  <2> SUFFICES ASSUME NEW c \in Claimed PROVE cluster'[c] = cluster[c]
    OBVIOUS
  <2>1. "source" \in lane.plugin.guards
    BY DEF Claimed, Sealed
  <2>2. \A o, content : \A exact \in BOOLEAN : ~Permits(o, content, exact)
    BY <1>1, <2>1, PermitFacts DEF CallByHand
  <2>3. QED
    BY <2>2 DEF CallByHand
<1>3. QED
  BY <1>1, <1>2, EndKept

LEMMA CrashKept ==
    ASSUME KInv, Crash
    PROVE  Standing' /\ Known' /\ Unaccepted'
<1>1. play'.old = {} /\ UNCHANGED lane
  BY CrashTyped DEF KInv
<1>2. Claimed' = {}
  BY <1>1 DEF Claimed
<1>3. QED
  BY <1>2 DEF Standing, Known, Unaccepted

LEMMA NextKept == KInv /\ [Next]_vars => KInv'
<1> SUFFICES ASSUME KInv, [Next]_vars PROVE KInv'
  OBVIOUS
<1>1. TInv /\ TInv'
  BY NextTyped DEF KInv
<1>2. Standing' /\ Known' /\ Unaccepted'
  <2>1. CASE PassStep \/ LoadStep \/ LookStep \/ WriteStep
    BY <2>1, PassKept, LoadKept, LookKept, WriteKept
  <2>2. CASE StartWrapped \/ StartByHand \/ Interfere \/ CallByHand \/ Crash
    BY <2>2, StartKept, InterfereKept, ByHandKept, CrashKept
  <2>3. CASE Skip
    BY <1>1, <2>3, SkipFacts, EndKept DEF Whole
  <2>4. CASE Materialize
    <3>1. Claimed \subseteq Objects(lane)
      BY <1>1, PlayFields DEF Claimed
    <3>2. "target" \notin Claimed
      BY <1>1, <2>4, MaterializeFacts DEF KInv, Standing
    <3>3. QED
      BY <1>1, <2>4, <3>1, <3>2, MaterializeFacts, SameUnmoved, AsideKept
  <2>5. CASE EditFile \/ WrapperEnds
    BY <1>1, <2>5, EditTyped, AsideKept
  <2>6. CASE UNCHANGED vars
    BY <1>1, <2>6, SameUnmoved, AsideKept DEF vars
  <2>7. QED
    BY <1>1, <2>1, <2>2, <2>3, <2>4, <2>5, <2>6, StepKinds
<1>3. QED
  BY <1>1, <1>2 DEF KInv

LEMMA InitKept == Init => KInv
<1> SUFFICES ASSUME Init PROVE KInv
  OBVIOUS
<1>1. TInv /\ lane \in Lanes
  BY InitTyped DEF Init
<1>2. play.old = {}
  BY <1>1, FreshType DEF Init
<1>3. Claimed = {}
  BY <1>2 DEF Claimed
<1>4. QED
  BY <1>1, <1>3 DEF KInv, Standing, Known, Unaccepted

---------------------------------------------------------------------------
(* The properties.                                                         *)

LEMMA BypassNothing ==
    ASSUME TInv, [Next]_vars, NEW o \in Objects(lane), PlayWrites(o), Sealed(lane)
    PROVE  /\ play.kind = "role" /\ ~play.skipped
           /\ "attestation" \in lane.plugin.guards => attested
<1>1. Next
  BY DEF PlayWrites, vars
<1>2. "selection" \in lane.plugin.guards /\ "source" \in lane.plugin.guards
  BY DEF Sealed
<1>3. \E content : \E exact \in BOOLEAN : Permits(o, content, exact)
  <2>1. CASE WriteStep /\ Permits(o, Definition(o), TRUE)
    BY <2>1
  <2>2. CASE CallByHand /\ \E content \in {"reviewed", "edited"}, exact \in BOOLEAN :
                               Permits(o, content, exact)
    BY <2>2
  <2>3. QED
    BY <1>1, <2>1, <2>2, WriteOrigin
<1>4. QED
  BY <1>2, <1>3, PermitFacts DEF TInv, Selected

LEMMA WriteReviewed ==
    ASSUME TInv, [Next]_vars, NEW o \in Objects(lane), PlayWrites(o)
    PROVE  \/ cluster'[o].shape = "ours"
           \/ lane.plugin.closure = "files" /\ cluster'[o].shape = "edited"
<1>1. Next
  BY DEF PlayWrites, vars
<1>2. /\ lane.plugin.closure \in {"hash", "files", "values", "patch"}
      /\ lane \in Lanes
  BY LaneAssumption DEF TInv, TypeOK
<1>3. CASE /\ WriteStep /\ o = Item /\ Permits(o, Definition(o), TRUE)
           /\ cluster' = [cluster EXCEPT ![o] = Becomes(@, Written(Definition(o)))]
  <2>1. Written(Definition(o)) \in Shapes
    BY WrittenType DEF Shapes
  <2>2. cluster'[o].shape = Written(Definition(o))
    BY <1>3, <2>1, ClusterType
  <2>3. CASE lane.plugin.closure = "hash"
    <3>1. Definition(o) = "reviewed"
      BY <1>3, <2>3, PermitFacts
    <3>2. QED
      BY <2>2, <3>1 DEF Written
  <2>4. CASE lane.plugin.closure = "files"
    BY <2>2, <2>4 DEF Written
  <2>5. CASE lane.plugin.closure \in {"values", "patch"}
    <3>1. ~FromFiles
      BY <1>2, <2>5, LaneAssumption DEF FromFiles
    <3>2. QED
      BY <2>2, <3>1 DEF Written, Definition
  <2>6. QED
    BY <1>2, <2>3, <2>4, <2>5
<1>4. ASSUME play.kind = "task", NEW content, NEW exact \in BOOLEAN,
             Permits(o, content, exact),
             cluster' = [cluster EXCEPT
                           ![o] = Becomes(@, IF exact THEN Written(content) ELSE "absent")]
      PROVE  \/ cluster'[o].shape = "ours"
             \/ lane.plugin.closure = "files" /\ cluster'[o].shape = "edited"
  <2>1. exact /\ "source" \notin lane.plugin.guards
    BY <1>4, PermitFacts
  <2>2. Written(content) \in Shapes
    BY WrittenType DEF Shapes
  <2>3. cluster'[o].shape = Written(content)
    BY <1>4, <2>1, <2>2, ClusterType
  <2>4. CASE lane.plugin.closure = "hash"
    <3>1. content = "reviewed"
      BY <1>4, <2>4, PermitFacts
    <3>2. QED
      BY <2>3, <3>1 DEF Written
  <2>5. CASE lane.plugin.closure = "files"
    BY <2>3, <2>5 DEF Written
  <2>6. lane.plugin.closure \notin {"values", "patch"}
    BY <1>2, <2>1, LaneAssumption
  <2>7. QED
    BY <1>2, <2>4, <2>5, <2>6
<1>5. QED
  BY <1>1, <1>3, <1>4, WriteOrigin

LEMMA KeepForeign ==
    ASSUME KInv, [Next]_vars, NEW o \in Objects(lane), PlayWrites(o), o \in play.old
    PROVE  ~(Claims(lane, o) /\ Sealed(lane))
<1> SUFFICES ASSUME Claims(lane, o), Sealed(lane) PROVE FALSE
  OBVIOUS
<1>1. TInv /\ Next /\ o \in Claimed
  BY DEF PlayWrites, vars, KInv, Claimed
<1>2. play.kind = "role"
  BY <1>1, BypassNothing
<1>3. WriteStep /\ o = Item /\ Permits(o, Definition(o), TRUE)
  BY <1>1, <1>2, WriteOrigin
<1>4. QED
  BY <1>1, <1>3, NoClaimedWrite

(* A plugin that asks for the role's own task file and an unselected play  *)
(* lets no write pass by another way, or after the wrapper has gone.       *)
THEOREM NothingBypassedHolds == Spec => NothingBypassed
<1>1. TInv /\ [Next]_vars =>
        [\A o \in Objects(lane) : PlayWrites(o) /\ Sealed(lane) =>
           /\ play.kind = "role" /\ ~play.skipped
           /\ "attestation" \in lane.plugin.guards => attested]_vars
  BY BypassNothing
<1>2. QED
  BY <1>1, InitTyped, NextTyped, PTL DEF Spec, NothingBypassed

(* Whatever is edited, injected or passed by hand, what a call leaves is   *)
(* the reviewed object.                                                    *)
THEOREM OnlyReviewedHolds == Spec => OnlyReviewed
<1>1. TInv /\ [Next]_vars =>
        [\A o \in Objects(lane) : PlayWrites(o) =>
           \/ cluster'[o].shape = "ours"
           \/ lane.plugin.closure = "files" /\ cluster'[o].shape = "edited"]_vars
  BY WriteReviewed
<1>2. QED
  BY <1>1, InitTyped, NextTyped, PTL DEF Spec, OnlyReviewed

(* An object of another's is never overwritten by a lane that claims it.   *)
THEOREM ForeignKeptHolds == Spec => ForeignKept
<1>1. KInv /\ [Next]_vars =>
        [\A o \in Objects(lane) :
           PlayWrites(o) /\ o \in play.old => ~(Claims(lane, o) /\ Sealed(lane))]_vars
  BY KeepForeign
<1>2. QED
  BY <1>1, InitKept, NextKept, PTL DEF Spec, ForeignKept

=============================================================================
