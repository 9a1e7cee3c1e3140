-------------------------- MODULE LaneEvidenceProofs --------------------------
(* What a play of GuardedLane knows at a place of its script, and what the *)
(* properties that ScriptAssumption is for follow from, for any lanes that *)
(* the assumptions admit and any bounds.                                   *)
EXTENDS GuardedLaneProofs, FiniteSetTheorems

(* A play of the role that left nothing out and goes on or ended well.     *)
Sound == /\ play.outcome \in {"running", "done"}
         /\ play.kind = "role" /\ ~play.skipped

(* Task a is done with o: it is behind, or its loop is past o.             *)
DoneAt(a, o) ==
    \/ a < play.pc /\ o \in On(a)
    \/ /\ a = play.pc
       /\ \E j \in DOMAIN lane.script[a].on : j < play.item /\ lane.script[a].on[j] = o

(* What the play knows of o by a task that is done with it.                *)
Holds(do, o) ==
    /\ do = "read" => play.first[o].rev <= play.seen[o].rev
    /\ do = "acceptExact" => play.seen[o].shape \in {"absent", "ours"}
    /\ do = "acceptOurs" => play.seen[o].shape = "ours"
    /\ do = "none" => ~There(play.again[o])
    /\ do = "sameVersion" => SameVersion(play.seen[o], play.again[o])
    /\ do \in {"sameIdentity", "sameSpec"} => SameIdentity(play.seen[o], play.again[o])
    /\ do = "sameInventory" => SameVersion(play.first[o], play.again[o])
    /\ do = "waitPresent" => There(play.again[o])
    /\ do \in {"waitExact", "inEffect", "verifyExact"} => play.again[o].shape = "ours"

(* The later looks at o that take that back, and that none has been there. *)
Undoing(do) ==
    IF do \in {"acceptExact", "acceptOurs"} THEN Keeping
    ELSE IF do = "read" THEN Keeping \cup {"inventory"} ELSE Reading
Kept(a, o) ==
    \A t \in DOMAIN lane.script :
       a < t /\ t <= play.pc => ~Handles(lane, t, Undoing(lane.script[a].do), o)
Evident ==
    Sound => \A o \in Objects(lane), a \in DOMAIN lane.script :
                DoneAt(a, o) /\ Kept(a, o) => Holds(lane.script[a].do, o)

(* What was read is not newer than what is there, and is it when as new.   *)
(* The last look is the latest.                                            *)
Older(x, y) == x.rev <= y.rev /\ (x.rev = y.rev => x = y)
Born == \A o \in Objects(lane) : Older(Unread, cluster[o])
Aged == Sound => \A o \in Objects(lane) : /\ Older(play.seen[o], cluster[o])
                                          /\ Older(play.first[o], cluster[o])
                                          /\ Older(play.again[o], cluster[o])
                                          /\ play.seen[o].rev <= play.again[o].rev

(* What was read of an object nobody else has changed is what is there,    *)
(* until a task writes it; targets the operator may have written.          *)
Unwritten(r, o) ==
    \A t \in DOMAIN lane.script :
       r < t /\ Handles(lane, t, Writing, o) => ~DoneAt(t, o)
AsThere(do, o) ==
    /\ do \in Keeping => play.seen[o] = cluster[o]
    /\ do = "inventory" => play.first[o] = cluster[o]
    /\ do \in Reading => play.again[o] = cluster[o]
Current ==
    Sound => \A o \in Objects(lane) \ (play.touched \cup {"target"}),
                r \in DOMAIN lane.script :
                DoneAt(r, o) /\ Unwritten(r, o) => AsThere(lane.script[r].do, o)

(* What was read of an object is the last look, until it is looked at      *)
(* again.                                                                  *)
UnseenSince(r, o) ==
    \A t \in DOMAIN lane.script : r < t /\ t <= play.pc => ~Handles(lane, t, Reading, o)
Fresh ==
    Sound => \A o \in Objects(lane), r \in DOMAIN lane.script :
                lane.script[r].do = "read" /\ DoneAt(r, o) /\ UnseenSince(r, o) =>
                   play.again[o] = play.seen[o]

(* A manifest that was hashed is as it was then, but for an edit.          *)
Hashed ==
    Sound => \A h \in DOMAIN lane.script, o \in Own(lane) :
                lane.script[h].do = "hash" /\ h < play.pc =>
                   files[o] = "reviewed" \/ o \in play.revised

(* A task that puts an object right has done so, or failed to and knows it,*)
(* or was let through with an edit.                                        *)
Righted ==
    Sound => \A o \in Own(lane) \ play.touched, a \in DOMAIN lane.script :
                Repairs(lane, a, o) /\ DoneAt(a, o) =>
                   \/ a = play.pc /\ play.failed
                   \/ cluster[o].shape = "ours" \/ LetThrough(o)

(* A play that ended well is behind its last task.                         *)
Ended == Sound /\ play.outcome = "done" => play.pc = Len(lane.script) + 1

Evidence == Aged /\ Evident /\ Current /\ Fresh /\ Hashed /\ Righted
EInv == TInv /\ Born /\ Evidence /\ Ended

(* As long as nobody else has changed an object: what the role only        *)
(* watches is as it should be, but for a target that was not the lane's    *)
(* from the start, and then no object of the lane has been written; and    *)
(* what was read of the target is there, or the operator has written it.   *)
Alien(o) == cluster[o].shape \notin {"absent", "ours"}
Calm == /\ play.touched = {}
        /\ "credential" \in Objects(lane) => cluster["credential"].shape = "ours"
        /\ "alternate" \in Objects(lane) => ~There(cluster["alternate"])
        /\ "corefile" \in Objects(lane) => There(cluster["corefile"])
Untaken == Staged(lane) /\ Alien("target") => \A o \in Own(lane) : Alien(o)
TargetRead ==
    \E r \in DOMAIN lane.script : lane.script[r].do \in Keeping /\ DoneAt(r, "target")
TargetKnown ==
    Staged(lane) /\ Sound /\ TargetRead =>
       \/ cluster["target"] = play.seen["target"]
       \/ ~There(play.seen["target"]) /\ cluster["target"].shape = "ours"

(* A play that was refused then, over objects that are all the lane's own. *)
Counts == \E t \in Tasks : \/ t.do = "acceptAllOrNone"
                           \/ t.do = "atMostOne" /\ Len(t.on) > 1
Tidy == ~play.skipped /\ \A o \in Own(lane) : ~Alien(o)
Refused == play.outcome \in {"foreign", "raced"}
Answered ==
    /\ Refused => play.kind = "role"
    /\ Tidy => /\ play.outcome = "foreign" => Counts
               /\ play.outcome = "raced" =>
                     Staged(lane) /\ play.seen["target"].rev < cluster["target"].rev

FInv == EInv /\ (spent.interference = 0 => Calm /\ Untaken /\ TargetKnown /\ Answered)

---------------------------------------------------------------------------
(* The steps, by what they do to what the play knows.                      *)

Looks(p, q) == /\ p.seen = q.seen /\ p.first = q.first /\ p.again = q.again
               /\ p.touched = q.touched /\ p.revised = q.revised

LEMMA MovedLooks ==
    ASSUME NEW p \in Plays
    PROVE  Looks(Moved(p), p) /\ Moved(p).failed = FALSE
<1> DEFINE after == IF p.pc = Len(lane.script) THEN "done" ELSE p.outcome
<1>1. Moved(p) = [p EXCEPT !.pc = @ + 1, !.item = 1, !.failed = FALSE, !.outcome = after]
  BY DEF Moved
<1> HIDE DEF after
<1>2. QED
  BY <1>1 DEF Plays, Looks

LEMMA MovedEnds ==
    ASSUME NEW p \in Plays, Moved(p).outcome = "done"
    PROVE  p.outcome = "done" \/ p.pc = Len(lane.script)
<1> DEFINE after == IF p.pc = Len(lane.script) THEN "done" ELSE p.outcome
<1>1. Moved(p) = [p EXCEPT !.pc = @ + 1, !.item = 1, !.failed = FALSE, !.outcome = after]
  BY DEF Moved
<1>2. Moved(p).outcome = after
  <2> HIDE DEF after
  <2> QED
    BY <1>1 DEF Plays
<1>3. QED
  BY <1>2

LEMMA LoopedEnds ==
    ASSUME NEW p \in Plays, p.outcome = "running", Looped(p).outcome = "done"
    PROVE  p.pc = Len(lane.script) /\ Looped(p).pc = p.pc + 1
<1>1. CASE p.item < Len(Task.on)
  <2>1. Looped(p) = [p EXCEPT !.item = @ + 1]
    BY <1>1 DEF Looped
  <2>2. Looped(p).outcome = p.outcome
    BY <2>1 DEF Plays
  <2>3. QED
    BY <2>2
<1>2. CASE ~(p.item < Len(Task.on)) /\ p.failed
  <2>1. Looped(p) = [p EXCEPT !.outcome = "failed"]
    BY <1>2 DEF Looped
  <2>2. Looped(p).outcome = "failed"
    BY <2>1 DEF Plays
  <2>3. QED
    BY <2>2
<1>3. CASE ~(p.item < Len(Task.on)) /\ ~p.failed
  <2>1. Looped(p) = Moved(p)
    BY <1>3 DEF Looped
  <2>2. QED
    BY <2>1, MovedEnds, MovedFacts
<1>4. QED
  BY <1>1, <1>2, <1>3

LEMMA LoopedLooks ==
    ASSUME NEW p \in Plays, p.item = play.item
    PROVE  /\ Looks(Looped(p), p)
           /\ p.item < Len(Task.on) => Looped(p).failed = p.failed
           /\ ~(p.item < Len(Task.on)) /\ p.failed => Looped(p).outcome = "failed"
<1>1. CASE p.item < Len(Task.on)
  <2>1. Looped(p) = [p EXCEPT !.item = @ + 1]
    BY <1>1 DEF Looped
  <2>2. QED
    BY <1>1, <2>1 DEF Plays, Looks
<1>2. CASE ~(p.item < Len(Task.on)) /\ p.failed
  <2>1. Looped(p) = [p EXCEPT !.outcome = "failed"]
    BY <1>2 DEF Looped
  <2>2. QED
    BY <1>2, <2>1 DEF Plays, Looks
<1>3. CASE ~(p.item < Len(Task.on)) /\ ~p.failed
  <2>1. Looped(p) = Moved(p)
    BY <1>3 DEF Looped
  <2>2. QED
    BY <1>3, <2>1, MovedLooks
<1>4. QED
  BY <1>1, <1>2, <1>3

(* The play goes past a task that is no look and no mutation.              *)
GoesPast ==
    /\ InTask /\ Task.do \notin Reading \cup Writing /\ UNCHANGED <<lane, cluster, files>>
    /\ play'.pc = play.pc + 1 /\ play'.item = 1 /\ Looks(play', play)
    /\ Task.do = "hash" => \A o \in Own(lane) : files[o] = "reviewed"
    /\ play'.kind = play.kind /\ play'.skipped = play.skipped
    /\ play'.outcome = "done" => play.pc = Len(lane.script)
    /\ \A o \in Elements(Task.on) : Holds(Task.do, o)

(* A play that is about one item of a loop, but for the place.             *)
SameButLooks(p) ==
    /\ p \in Plays /\ p.pc = play.pc /\ p.item = play.item /\ p.kind = play.kind
    /\ p.skipped = play.skipped /\ p.outcome = play.outcome
    /\ p.touched = play.touched /\ p.revised = play.revised

LooksAt(p) ==
    /\ InTask /\ Task.do \in Reading /\ UNCHANGED <<lane, cluster, files>>
    /\ SameButLooks(p) /\ play' = Looped(p) /\ p.failed = play.failed
    /\ \A o \in Objects(lane) \ {Item} :
          /\ p.seen[o] = play.seen[o] /\ p.first[o] = play.first[o]
          /\ p.again[o] = play.again[o]
    /\ p.again[Item] = cluster[Item]
    /\ p.seen[Item] = IF Task.do \in Keeping THEN cluster[Item] ELSE play.seen[Item]
    /\ p.first[Item] = IF Task.do = "inventory" THEN cluster[Item] ELSE play.first[Item]
    /\ Task.do = "waitPresent" => There(cluster[Item])
    /\ Task.do = "waitExact" => cluster[Item].shape = "ours"

WritesAt(p) ==
    /\ InTask /\ Task.do \in Writing /\ UNCHANGED <<lane, files>>
    /\ SameButLooks(p) /\ play' = Looped(p)
    /\ p.seen = play.seen /\ p.first = play.first /\ p.again = play.again
    /\ play.failed => p.failed
    /\ \/ /\ Permits(Item, Definition(Item), TRUE)
          /\ cluster' = [cluster EXCEPT ![Item] = Becomes(@, Written(Definition(Item)))]
       \/ /\ cluster' = cluster
          /\ \/ p.failed \/ Task.do \in {"create", "applyWhen"}
             \/ Task.do = "swap" /\ play.seen[Item].shape = "ours"

(* The play stops short, leaves a task out or is not one of the role.      *)
LEMMA StoppedUnsound ==
    ASSUME TInv, NEW outcome \in Outcomes \ {"running", "done"}, play' = Stopped(play, outcome)
    PROVE  ~Sound'
  BY StoppedFacts DEF TInv, TypeOK, Sound

LEMMA PassPasses ==
    ASSUME TInv, NEW condition \in BOOLEAN, NEW otherwise \in Outcomes \ {"running", "done"},
           InTask, Task.do \notin Reading \cup Writing, Pass(condition, otherwise), Sound',
           condition => \A o \in Elements(Task.on) : Holds(Task.do, o),
           condition /\ Task.do = "hash" => \A o \in Own(lane) : files[o] = "reviewed"
    PROVE  GoesPast
<1>1. play' = Moved(play) /\ condition
  BY StoppedUnsound DEF Pass
<1>2. play \in Plays /\ UNCHANGED <<lane, cluster, files>>
  BY DEF TInv, TypeOK, Pass
<1>3. play'.outcome = "done" => play.pc = Len(lane.script)
  BY <1>1, <1>2, MovedEnds DEF InTask, Running
<1>4. QED
  BY <1>1, <1>2, <1>3, MovedFacts, MovedLooks DEF GoesPast

LEMMA GateGoes ==
    ASSUME TInv, Gate, Sound'
    PROVE  GoesPast
<1>1. CASE Reject \/ Attest \/ Content \/ Contract
  <2>1. InTask /\ Task.do \in {"reject", "attest", "content", "contract"}
    BY <1>1 DEF Reject, Attest, Content, Contract, At
  <2>2. \A o : Holds(Task.do, o)
    BY <2>1 DEF Holds
  <2>3. \E condition \in BOOLEAN : Pass(condition, "refused")
    <3>1. (~play.injected) \in BOOLEAN /\ attested \in BOOLEAN
      BY DEF TInv, TypeOK, Plays
    <3>2. QED
      BY <1>1, <3>1 DEF Reject, Attest, Content, Contract
  <2>4. QED
    BY <2>1, <2>2, <2>3, PassPasses DEF Reading, Writing, Outcomes
<1>4. CASE Hash
  <2> DEFINE condition == \A o \in Own(lane) : files[o] = "reviewed"
  <2>1. InTask /\ Task.do = "hash" /\ Pass(condition, "refused")
    BY <1>4 DEF Hash, At
  <2>2. \A o : Holds(Task.do, o)
    BY <2>1 DEF Holds
  <2>3. condition \in BOOLEAN
    OBVIOUS
  <2> HIDE DEF condition
  <2>4. condition => \A o \in Own(lane) : files[o] = "reviewed"
    BY DEF condition
  <2>5. QED
    BY <2>1, <2>2, <2>3, <2>4, PassPasses DEF Reading, Writing, Outcomes
<1>2. CASE Load \/ Bind
  <2> DEFINE q == Moved(play)
             held == [o \in Objects(lane) |-> IF o \in Own(lane) THEN files[o] ELSE "none"]
  <2>1. play \in Plays
    BY DEF TInv, TypeOK
  <2>2. /\ q \in Plays /\ q.pc = play.pc + 1 /\ q.item = 1 /\ Looks(q, play)
        /\ q.kind = play.kind /\ q.skipped = play.skipped
        /\ q.outcome = "done" => play.outcome = "done" \/ play.pc = Len(lane.script)
    BY <2>1, MovedFacts, MovedLooks, MovedEnds
  <2>3. /\ InTask /\ Task.do \in {"load", "bind"} /\ UNCHANGED <<lane, cluster, files>>
        /\ \/ play' = q
           \/ play' = [q EXCEPT !.bound = TRUE]
           \/ play' = [q EXCEPT !.loaded = held]
    BY <1>2 DEF Load, Bind, At
  <2> HIDE DEF q, held
  <2>4. /\ play'.pc = q.pc /\ play'.item = q.item /\ Looks(play', q)
        /\ play'.kind = q.kind /\ play'.skipped = q.skipped /\ play'.outcome = q.outcome
    BY <2>2, <2>3 DEF Plays, Looks
  <2>5. \A o : Holds(Task.do, o)
    BY <2>3 DEF Holds
  <2>6. QED
    BY <2>2, <2>3, <2>4, <2>5 DEF GoesPast, Reading, Writing, Looks, InTask, Running
<1>3. QED
  BY <1>1, <1>2, <1>4 DEF Gate

LEMMA AcceptGoes ==
    ASSUME TInv, Accept, Sound'
    PROVE  GoesPast
<1>1. CASE AcceptExact
  <2>1. Task.do = "acceptExact" /\ InTask /\ Pass(Seen({"absent", "ours"}), "foreign")
    BY <1>1 DEF AcceptExact, At
  <2>2. Seen({"absent", "ours"}) => \A o \in Elements(Task.on) : Holds(Task.do, o)
    BY <2>1 DEF Seen, Holds
  <2>3. Seen({"absent", "ours"}) \in BOOLEAN
    BY DEF Seen
  <2>4. QED
    BY <2>1, <2>2, <2>3, PassPasses DEF Reading, Writing, Outcomes
<1>2. CASE AcceptOurs
  <2>1. Task.do = "acceptOurs" /\ InTask /\ Pass(Seen({"ours"}), "foreign")
    BY <1>2 DEF AcceptOurs, At
  <2>2. Seen({"ours"}) => \A o \in Elements(Task.on) : Holds(Task.do, o)
    BY <2>1 DEF Seen, Holds
  <2>3. Seen({"ours"}) \in BOOLEAN
    BY DEF Seen
  <2>4. QED
    BY <2>1, <2>2, <2>3, PassPasses DEF Reading, Writing, Outcomes
<1>3. CASE \/ AcceptLabels \/ AcceptRevision \/ AcceptThere \/ AcceptOldOrNew
           \/ AcceptAllOrNone \/ AtMostOne
  <2>1. /\ InTask
        /\ Task.do \in {"acceptLabels", "acceptRevision", "acceptThere", "acceptOldOrNew",
                         "acceptAllOrNone", "atMostOne"}
    BY <1>3 DEF AcceptLabels, AcceptRevision, AcceptThere, AcceptOldOrNew, AcceptAllOrNone,
                AtMostOne, At
  <2>2. \E condition \in BOOLEAN : Pass(condition, "foreign") \/ Pass(condition, "refused")
    <3>1. \A shapes : Seen(shapes) \in BOOLEAN
      BY DEF Seen
    <3>2. (Cardinality({o \in Elements(Task.on) : There(play.seen[o])}) <= 1) \in BOOLEAN
      OBVIOUS
    <3>3. QED
      BY <1>3, <3>1, <3>2
         DEF AcceptLabels, AcceptRevision, AcceptThere, AcceptOldOrNew, AcceptAllOrNone,
             AtMostOne
  <2>3. \A o : Holds(Task.do, o)
    BY <2>1 DEF Holds
  <2>4. QED
    BY <2>1, <2>2, <2>3, PassPasses DEF Reading, Writing, Outcomes
<1>4. QED
  BY <1>1, <1>2, <1>3 DEF Accept

LEMMA RecheckGoes ==
    ASSUME TInv, Recheck, Sound'
    PROVE  GoesPast
<1>1. CASE None
  <2> DEFINE condition == \A o \in Elements(Task.on) :
                       ~There(play.again[o])
  <2>1. InTask /\ Task.do = "none" /\ Pass(condition, "raced")
    BY <1>1 DEF None, Compare, At
  <2>2. condition => \A o \in Elements(Task.on) : Holds(Task.do, o)
    BY <2>1 DEF Holds
  <2>3. condition \in BOOLEAN
    OBVIOUS
  <2> HIDE DEF condition
  <2>4. QED
    BY <2>1, <2>2, <2>3, PassPasses DEF Reading, Writing, Outcomes
<1>2. CASE CompareVersion
  <2> DEFINE condition == \A o \in Elements(Task.on) :
                       SameVersion(play.seen[o], play.again[o])
  <2>1. InTask /\ Task.do = "sameVersion" /\ Pass(condition, "raced")
    BY <1>2 DEF CompareVersion, Compare, At
  <2>2. condition => \A o \in Elements(Task.on) : Holds(Task.do, o)
    BY <2>1 DEF Holds
  <2>3. condition \in BOOLEAN
    OBVIOUS
  <2> HIDE DEF condition
  <2>4. QED
    BY <2>1, <2>2, <2>3, PassPasses DEF Reading, Writing, Outcomes
<1>3. CASE CompareIdentity
  <2> DEFINE condition == \A o \in Elements(Task.on) :
                       SameIdentity(play.seen[o], play.again[o])
  <2>1. InTask /\ Task.do = "sameIdentity" /\ Pass(condition, "raced")
    BY <1>3 DEF CompareIdentity, Compare, At
  <2>2. condition => \A o \in Elements(Task.on) : Holds(Task.do, o)
    BY <2>1 DEF Holds
  <2>3. condition \in BOOLEAN
    OBVIOUS
  <2> HIDE DEF condition
  <2>4. QED
    BY <2>1, <2>2, <2>3, PassPasses DEF Reading, Writing, Outcomes
<1>4. CASE CompareInventory
  <2> DEFINE condition == \A o \in Elements(Task.on) :
                       SameVersion(play.first[o], play.again[o])
  <2>1. InTask /\ Task.do = "sameInventory" /\ Pass(condition, "raced")
    BY <1>4 DEF CompareInventory, Compare, At
  <2>2. condition => \A o \in Elements(Task.on) : Holds(Task.do, o)
    BY <2>1 DEF Holds
  <2>3. condition \in BOOLEAN
    OBVIOUS
  <2> HIDE DEF condition
  <2>4. QED
    BY <2>1, <2>2, <2>3, PassPasses DEF Reading, Writing, Outcomes
<1>5. CASE CompareSpec
  <2> DEFINE condition == \A o \in Elements(Task.on) :
                       /\ SameIdentity(play.seen[o], play.again[o])
                       /\ play.again[o].shape \in {"absent", "ours"}
  <2>1. InTask /\ Task.do = "sameSpec" /\ Pass(condition, "raced")
    BY <1>5 DEF CompareSpec, Compare, At
  <2>2. condition => \A o \in Elements(Task.on) : Holds(Task.do, o)
    BY <2>1 DEF Holds
  <2>3. condition \in BOOLEAN
    OBVIOUS
  <2> HIDE DEF condition
  <2>4. QED
    BY <2>1, <2>2, <2>3, PassPasses DEF Reading, Writing, Outcomes
<1>6. CASE InEffect
  <2> DEFINE condition == \A o \in Elements(Task.on) :
                       /\ play.again[o].shape = "ours"
                       /\ play.again[o].uid = play.seen[o].uid
  <2>1. InTask /\ Task.do = "inEffect" /\ Pass(condition, "raced")
    BY <1>6 DEF InEffect, Compare, At
  <2>2. condition => \A o \in Elements(Task.on) : Holds(Task.do, o)
    BY <2>1 DEF Holds
  <2>3. condition \in BOOLEAN
    OBVIOUS
  <2> HIDE DEF condition
  <2>4. QED
    BY <2>1, <2>2, <2>3, PassPasses DEF Reading, Writing, Outcomes
<1>7. CASE VerifyExact
  <2> DEFINE condition == \A o \in Elements(Task.on) : play.again[o].shape = "ours"
  <2>1. InTask /\ Task.do = "verifyExact" /\ Pass(condition, "failed")
    BY <1>7 DEF VerifyExact, At
  <2>2. condition => \A o \in Elements(Task.on) : Holds(Task.do, o)
    BY <2>1 DEF Holds
  <2>3. condition \in BOOLEAN
    OBVIOUS
  <2> HIDE DEF condition
  <2>4. QED
    BY <2>1, <2>2, <2>3, PassPasses DEF Reading, Writing, Outcomes
<1>8. CASE VerifyLabels
  <2> DEFINE condition == \A o \in Elements(Task.on) : play.again[o].shape \in Labelled
  <2>1. InTask /\ Task.do = "verifyLabels" /\ Pass(condition, "failed")
    BY <1>8 DEF VerifyLabels, At
  <2>2. \A o : Holds(Task.do, o)
    BY <2>1 DEF Holds
  <2>3. condition \in BOOLEAN
    OBVIOUS
  <2> HIDE DEF condition
  <2>4. QED
    BY <2>1, <2>2, <2>3, PassPasses DEF Reading, Writing, Outcomes
<1>9. CASE VerifyPart
  <2>1. InTask /\ Task.do = "verifyPart" /\ \E condition \in BOOLEAN : Pass(condition, "failed")
    BY <1>9 DEF VerifyPart, At
  <2>2. \A o : Holds(Task.do, o)
    BY <2>1 DEF Holds
  <2>3. QED
    BY <2>1, <2>2, PassPasses DEF Reading, Writing, Outcomes
<1>10. QED
  BY <1>1, <1>2, <1>3, <1>4, <1>5, <1>6, <1>7, <1>8, <1>9 DEF Recheck

(* One look, one mutation.                                                 *)
LEMMA LookDone ==
    ASSUME TInv, InTask, Task.do \in Reading, UNCHANGED <<lane, cluster, files>>,
           NEW seen \in [Objects(lane) -> Live], NEW first \in [Objects(lane) -> Live],
           seen = IF Task.do \in Keeping THEN [play.seen EXCEPT ![Item] = cluster[Item]]
                  ELSE play.seen,
           first = IF Task.do = "inventory" THEN [play.first EXCEPT ![Item] = cluster[Item]]
                   ELSE play.first,
           NEW again, again = [play.again EXCEPT ![Item] = cluster[Item]],
           play' = Looped([play EXCEPT !.seen = seen, !.first = first, !.again = again]),
           Task.do = "waitPresent" => There(cluster[Item]),
           Task.do = "waitExact" => cluster[Item].shape = "ours"
    PROVE  \E p \in Plays : LooksAt(p)
<1> DEFINE p == [play EXCEPT !.seen = seen, !.first = first, !.again = again]
<1>1. /\ play \in Plays /\ Item \in Objects(lane)
      /\ again \in [Objects(lane) -> Live]
      /\ play.seen \in [Objects(lane) -> Live] /\ play.first \in [Objects(lane) -> Live]
      /\ play.again \in [Objects(lane) -> Live]
  BY ItemFacts, LookType, PlayFields DEF TInv, TypeOK
<1>2. SameButLooks(p) /\ p.failed = play.failed
  BY <1>1 DEF Plays, SameButLooks
<1>3. p.seen = seen /\ p.first = first /\ p.again = again
  BY <1>1 DEF Plays
<1> HIDE DEF p
<1>4. LooksAt(p)
  BY <1>1, <1>2, <1>3 DEF LooksAt, p
<1>5. QED
  BY <1>2, <1>4 DEF SameButLooks

LEMMA ObserveGoes ==
    ASSUME TInv, Observe, Sound'
    PROVE  \E p \in Plays : LooksAt(p)
<1> DEFINE Seeing == [play.seen EXCEPT ![Item] = cluster[Item]]
           Listing == [play.first EXCEPT ![Item] = cluster[Item]]
           Again == [play.again EXCEPT ![Item] = cluster[Item]]
<1>1. InTask /\ Task.do \in Reading /\ UNCHANGED <<lane, cluster, files>>
  BY DEF Observe, Read, Inventory, Look, WaitPresent, WaitExact, Wait, At, Reading
<1>2. /\ Seeing \in [Objects(lane) -> Live] /\ Listing \in [Objects(lane) -> Live]
      /\ play.seen \in [Objects(lane) -> Live] /\ play.first \in [Objects(lane) -> Live]
      /\ play \in Plays
  BY <1>1, LookType, PlayFields DEF TInv, TypeOK
<1>3. CASE Read
  <2>1. Task.do = "read"
    BY <1>3 DEF Read, At
  <2>2. play' = Looped([play EXCEPT !.seen = Seeing, !.first = play.first, !.again = Again])
    BY <1>2, <1>3 DEF Read, Plays
  <2> HIDE DEF Seeing, Listing, Again
  <2>3. QED
    BY <1>1, <1>2, <2>1, <2>2, LookDone DEF Keeping, Seeing, Again
<1>4. CASE Inventory
  <2>1. Task.do = "inventory"
    BY <1>4 DEF Inventory, At
  <2>2. play' = Looped([play EXCEPT !.seen = play.seen, !.first = Listing, !.again = Again])
    BY <1>2, <1>4 DEF Inventory, Plays
  <2> HIDE DEF Seeing, Listing, Again
  <2>3. QED
    BY <1>1, <1>2, <2>1, <2>2, LookDone DEF Keeping, Listing, Again
<1>5. CASE Look
  <2>1. Task.do = "look"
    BY <1>5 DEF Look, At
  <2>2. play' = Looped([play EXCEPT !.seen = play.seen, !.first = play.first, !.again = Again])
    BY <1>2, <1>5 DEF Look, Plays
  <2> HIDE DEF Seeing, Listing, Again
  <2>3. QED
    BY <1>1, <1>2, <2>1, <2>2, LookDone DEF Keeping, Again
<1>6. CASE WaitPresent \/ WaitExact
  <2>1. /\ Task.do \in {"waitPresent", "waitExact"}
        /\ play' # Stopped(play, "failed")
    BY <1>6, StoppedUnsound DEF WaitPresent, WaitExact, Wait, At, Outcomes
  <2>2. /\ Task.do = "waitPresent" => There(cluster[Item])
        /\ Task.do = "waitExact" => cluster[Item].shape = "ours"
        /\ play' = Looped([play EXCEPT !.seen[Item] = cluster[Item],
                                       !.again[Item] = cluster[Item]])
    BY <1>6, <2>1 DEF WaitPresent, WaitExact, Wait, At
  <2>3. play' = Looped([play EXCEPT !.seen = Seeing, !.first = play.first, !.again = Again])
    BY <1>2, <2>2 DEF Plays
  <2> HIDE DEF Seeing, Listing, Again
  <2>4. QED
    BY <1>1, <1>2, <2>1, <2>2, <2>3, LookDone DEF Keeping, Seeing, Again
<1>7. QED
  BY <1>3, <1>4, <1>5, <1>6 DEF Observe

LEMMA WriteDone ==
    ASSUME TInv, InTask, Task.do \in Writing, UNCHANGED <<lane, files>>,
           \/ Put(Item)
           \/ /\ PassOver
              /\ \/ Task.do \in {"create", "applyWhen"}
                 \/ Task.do = "swap" /\ play.seen[Item].shape = "ours"
           \/ /\ play' = Looped([play EXCEPT !.failed = TRUE])
              /\ UNCHANGED cluster
    PROVE  \E p \in Plays : WritesAt(p)
<1> DEFINE q == [play EXCEPT !.failed = TRUE]
<1>1. play \in Plays /\ SameButLooks(play)
  BY DEF TInv, TypeOK, SameButLooks
<1>2. /\ SameButLooks(q) /\ q.failed
      /\ q.seen = play.seen /\ q.first = play.first /\ q.again = play.again
  BY <1>1 DEF Plays, SameButLooks
<1> HIDE DEF q
<1>3. CASE play' = Looped(q) /\ cluster' = cluster
  <2>1. WritesAt(q)
    BY <1>2, <1>3 DEF WritesAt
  <2>2. QED
    BY <1>2, <2>1 DEF SameButLooks
<1>4. CASE /\ Permits(Item, Definition(Item), TRUE)
           /\ cluster' = [cluster EXCEPT ![Item] = Becomes(@, Written(Definition(Item)))]
           /\ play' = Looped(play)
  BY <1>1, <1>4 DEF WritesAt
<1>5. CASE /\ PassOver
           /\ \/ Task.do \in {"create", "applyWhen"}
              \/ Task.do = "swap" /\ play.seen[Item].shape = "ours"
  BY <1>1, <1>5 DEF WritesAt, PassOver
<1>6. QED
  BY <1>3, <1>4, <1>5 DEF Put, q

LEMMA MutateGoes ==
    ASSUME TInv, Mutate
    PROVE  \E p \in Plays : WritesAt(p)
<1>1. InTask /\ Task.do \in Writing /\ UNCHANGED <<lane, files>>
  BY DEF Mutate, Apply, ApplyWhen, Create, Swap, At, Writing
<1>2. CASE Apply
  BY <1>1, <1>2, WriteDone DEF Apply
<1>3. CASE ApplyWhen
  BY <1>1, <1>3, WriteDone DEF ApplyWhen, At
<1>4. CASE Create
  BY <1>1, <1>4, WriteDone DEF Create, At
<1>5. CASE Swap
  BY <1>1, <1>5, WriteDone DEF Swap, At
<1>6. QED
  BY <1>2, <1>3, <1>4, <1>5 DEF Mutate

(* A play begins: it knows nothing.                                        *)
Begins ==
    /\ UNCHANGED <<lane, cluster>> /\ play'.pc = 1 /\ play'.item = 1
    /\ play'.outcome = "running" /\ play'.touched = {}
    /\ play'.seen = Own0(lane) /\ play'.first = Own0(lane) /\ play'.again = Own0(lane)

(* Somebody else does something.                                           *)
StandsBy ==
    /\ UNCHANGED lane
    /\ play'.pc = play.pc /\ play'.item = play.item /\ play'.failed = play.failed
    /\ play'.kind = play.kind /\ play'.skipped = play.skipped
    /\ play'.outcome = play.outcome
    /\ play'.seen = play.seen /\ play'.first = play.first /\ play'.again = play.again
    /\ play.touched \subseteq play'.touched /\ play.revised \subseteq play'.revised
    /\ \A o \in Own(lane) : files'[o] = files[o] \/ o \in play'.revised
    /\ \A o \in Objects(lane) :
          /\ Older(cluster[o], cluster'[o])
          /\ o \notin play'.touched \cup {"target"} => cluster'[o] = cluster[o]

LEMMA StartBegins ==
    ASSUME TInv, StartWrapped \/ StartByHand
    PROVE  Begins
<1>1. CASE StartWrapped
  BY <1>1 DEF StartWrapped, NoPlay, Begins
<1>2. CASE StartByHand
  <2>1. PICK kind \in {"role", "task"}, skipping \in BOOLEAN, injected \in BOOLEAN :
           play' = [NoPlay(lane) EXCEPT !.outcome = "running", !.kind = kind,
                     !.skipping = skipping, !.injected = injected,
                     !.bound = injected,
                     !.loaded = [o \in Objects(lane) |-> IF injected THEN "edited" ELSE "none"],
                     !.old = Foreign]
    BY <1>2 DEF StartByHand, Foreign
  <2>2. UNCHANGED <<lane, cluster>>
    BY <1>2 DEF StartByHand
  <2>3. QED
    BY <2>1, <2>2 DEF NoPlay, Begins
<1>3. QED
  BY <1>1, <1>2

LEMMA BecomesOlder ==
    ASSUME NEW x \in Live, NEW shape \in Shapes
    PROVE  Older(x, Becomes(x, shape))
  BY DEF Older, Becomes, Live

LEMMA OlderRefl == ASSUME NEW x \in Live PROVE Older(x, x)
  BY DEF Older, Live

LEMMA OlderTrans ==
    ASSUME NEW x \in Live, NEW y \in Live, NEW z \in Live, Older(x, y), Older(y, z)
    PROVE  Older(x, z)
  BY DEF Older, Live

LEMMA InterfereBy ==
    ASSUME TInv, Interfere
    PROVE  StandsBy
<1>1. PICK o \in Objects(lane), shape \in Shapes \ {"edited"}, replaced \in BOOLEAN :
         /\ cluster' = [cluster EXCEPT
               ![o] = [shape |-> shape, rev |-> @.rev + 1,
                       uid |-> IF replaced \/ ~There(@) THEN @.uid + 1 ELSE @.uid]]
         /\ play' = [play EXCEPT !.old = @ \ {o}, !.touched = @ \cup {o}]
  BY DEF Interfere
<1>2. /\ play \in Plays /\ cluster \in [Objects(lane) -> Live] /\ UNCHANGED lane
      /\ play.touched \subseteq Objects(lane) /\ UNCHANGED files
  BY DEF TInv, TypeOK, Plays, Interfere
<1>3. /\ play'.pc = play.pc /\ play'.item = play.item /\ play'.failed = play.failed
      /\ play'.kind = play.kind /\ play'.skipped = play.skipped
      /\ play'.outcome = play.outcome
      /\ play'.seen = play.seen /\ play'.first = play.first /\ play'.again = play.again
      /\ play'.touched = play.touched \cup {o} /\ play'.revised = play.revised
  BY <1>1, <1>2 DEF Plays
<1>4. ASSUME NEW x \in Objects(lane)
      PROVE  /\ Older(cluster[x], cluster'[x])
             /\ x \notin play'.touched => cluster'[x] = cluster[x]
  <2>1. CASE x # o
    BY <1>1, <1>2, <2>1, OlderRefl
  <2>2. CASE x = o
    <3>1. cluster'[o].rev = cluster[o].rev + 1 /\ cluster[o] \in Live
      BY <1>1, <1>2
    <3>2. Older(cluster[o], cluster'[o])
      BY <3>1 DEF Older, Live
    <3>3. QED
      BY <1>3, <2>2, <3>2
  <2>3. QED
    BY <2>1, <2>2
<1>5. QED
  BY <1>2, <1>3, <1>4 DEF StandsBy

LEMMA AsideBy ==
    ASSUME TInv, Materialize \/ EditFile \/ WrapperEnds \/ UNCHANGED vars
    PROVE  StandsBy
<1>1. /\ UNCHANGED lane /\ Unmoved
      /\ \A o \in Own(lane) : files'[o] = files[o] \/ o \in play'.revised
  <2>1. CASE EditFile
    BY <2>1, EditUnmoved DEF EditFile
  <2>2. CASE Materialize \/ WrapperEnds \/ UNCHANGED vars
    BY <2>2, SameUnmoved DEF Materialize, WrapperEnds, vars
  <2>3. QED
    BY <2>1, <2>2
<1>2. cluster \in [Objects(lane) -> Live] /\ "target" \notin Own(lane)
  BY LaneAssumption DEF TInv, TypeOK
<1>3. \A o \in Objects(lane) : Older(cluster[o], cluster[o])
  BY <1>2, OlderRefl
<1>4. CASE Materialize
  <2>1. /\ "target" \in Objects(lane)
        /\ cluster' = [cluster EXCEPT !["target"] = Becomes(@, "ours")]
    BY <1>4 DEF Materialize
  <2>2. Older(cluster["target"], cluster'["target"])
    BY <1>2, <2>1, BecomesOlder DEF Shapes
  <2>3. \A o \in Objects(lane) \ {"target"} : cluster'[o] = cluster[o]
    BY <1>2, <2>1
  <2>4. QED
    BY <1>1, <1>2, <1>3, <2>2, <2>3 DEF StandsBy, Unmoved
<1>5. CASE EditFile \/ WrapperEnds \/ UNCHANGED vars
  <2>1. cluster' = cluster
    BY <1>5 DEF EditFile, WrapperEnds, vars
  <2>2. QED
    BY <1>1, <1>3, <2>1 DEF StandsBy, Unmoved
<1>6. QED
  BY <1>4, <1>5

(* Every step after which there is a sound play is of one of five kinds.   *)
LEMMA SoundSteps ==
    ASSUME TInv, [Next]_vars, Sound'
    PROVE  \/ Begins \/ GoesPast \/ StandsBy
           \/ \E p \in Plays : LooksAt(p) \/ WritesAt(p)
<1>1. ~Crash
  <2>1. Crash => play'.outcome = "crashed"
    BY CrashTyped
  <2>2. QED
    BY <2>1 DEF Sound
<1>2. ~Skip
  BY SkipFacts DEF Sound
<1>3. ~CallByHand
  <2>1. play \in Plays
    BY DEF TInv, TypeOK
  <2>2. ASSUME CallByHand PROVE play'.kind = "task"
    BY <2>1, <2>2 DEF CallByHand, Stopped, Plays
  <2>3. QED
    BY <2>2 DEF Sound
<1>4. CASE StartWrapped \/ StartByHand
  BY <1>4, StartBegins
<1>5. CASE Gate \/ Accept \/ Recheck
  BY <1>5, GateGoes, AcceptGoes, RecheckGoes
<1>6. CASE Observe \/ Mutate
  BY <1>6, ObserveGoes, MutateGoes
<1>7. CASE Interfere \/ Materialize \/ EditFile \/ WrapperEnds \/ UNCHANGED vars
  BY <1>7, InterfereBy, AsideBy
<1>8. QED
  BY <1>1, <1>2, <1>3, <1>4, <1>5, <1>6, <1>7 DEF Next

---------------------------------------------------------------------------
(* What the play is done with, step by step.                               *)

Adds(new) ==
    /\ play.pc <= play'.pc
    /\ \A o \in Objects(lane), a \in DOMAIN lane.script :
          DoneAt(a, o)' <=> DoneAt(a, o) \/ (a = play.pc /\ o \in new)

LEMMA PastAdds ==
    ASSUME TInv, GoesPast
    PROVE  Adds(Elements(Task.on))
<1>1. /\ DOMAIN lane.script = 1 .. Len(lane.script) /\ play.pc \in Nat /\ play.item \in Nat
      /\ \A i \in DOMAIN lane.script : lane.script[i].on \in Seq(Objects(lane))
      /\ play.pc \in DOMAIN lane.script
  BY ScriptDomain, PlayFields DEF GoesPast, InTask
<1>2. play'.pc = play.pc + 1 /\ play'.item = 1 /\ UNCHANGED lane
  BY DEF GoesPast
<1>3. ASSUME NEW o \in Objects(lane), NEW a \in DOMAIN lane.script
      PROVE  DoneAt(a, o)' <=> DoneAt(a, o) \/ (a = play.pc /\ o \in Elements(Task.on))
  <2>1. \A j \in DOMAIN lane.script[a].on : ~(j < 1)
    BY <1>1
  <2>2. DoneAt(a, o)' <=> a < play.pc + 1 /\ o \in On(a)
    BY <1>2, <2>1 DEF DoneAt, On
  <2>3. a = play.pc => On(a) = Elements(Task.on)
    BY DEF On, Task
  <2>4. a = play.pc /\ DoneAt(a, o) => o \in On(a)
    BY <1>1 DEF DoneAt, On, Elements
  <2>5. CASE a < play.pc
    BY <1>1, <2>2, <2>5 DEF DoneAt
  <2>6. CASE a = play.pc
    BY <1>1, <2>2, <2>3, <2>4, <2>6
  <2>7. CASE a > play.pc
    BY <1>1, <2>2, <2>7 DEF DoneAt
  <2>8. QED
    BY <1>1, <2>5, <2>6, <2>7
<1>4. QED
  BY <1>1, <1>2, <1>3 DEF Adds

LEMMA ItemAdds ==
    ASSUME TInv, InTask, Task.do \in Reading \cup Writing, UNCHANGED lane, Sound',
           NEW p \in Plays, SameButLooks(p), play' = Looped(p)
    PROVE  /\ Adds({Item}) /\ Looks(play', p)
           /\ play'.kind = play.kind /\ play'.skipped = play.skipped
           /\ p.failed => play'.failed /\ play'.pc = play.pc
           /\ play'.pc \in {play.pc, play.pc + 1}
<1>1. /\ DOMAIN lane.script = 1 .. Len(lane.script) /\ play.pc \in Nat /\ play.item \in Nat
      /\ \A i \in DOMAIN lane.script : lane.script[i].on \in Seq(Objects(lane))
      /\ play.pc \in DOMAIN lane.script
  BY ScriptDomain, PlayFields DEF InTask
<1>2. /\ Task.on \in Seq(Objects(lane)) /\ play.item \in DOMAIN Task.on
      /\ Item \in Elements(Task.on) /\ Task.on = lane.script[play.pc].on
  BY <1>1, TaskFacts, ItemFacts DEF TInv, Task
<1>3. /\ p.item = play.item /\ p.pc = play.pc /\ p.kind = play.kind
      /\ p.skipped = play.skipped
  BY DEF SameButLooks
<1>4. /\ play'.kind = play.kind /\ play'.skipped = play.skipped /\ Looks(play', p)
      /\ play'.outcome # "failed"
  BY <1>2, <1>3, LoopedFacts, LoopedLooks DEF Sound
<1>5. CASE play.item < Len(Task.on)
  <2>1. /\ play'.pc = play.pc /\ play'.item = play.item + 1
        /\ p.failed => play'.failed
    BY <1>2, <1>3, <1>5, LoopedFacts, LoopedLooks
  <2>2. ASSUME NEW o \in Objects(lane), NEW a \in DOMAIN lane.script
        PROVE  DoneAt(a, o)' <=> DoneAt(a, o) \/ (a = play.pc /\ o = Item)
    <3>1. CASE a # play.pc
      BY <1>1, <2>1, <3>1 DEF DoneAt, On
    <3>2. CASE a = play.pc
      <4>1. DoneAt(a, o)' <=> \E j \in DOMAIN Task.on :
                                 j < play.item + 1 /\ Task.on[j] = o
        BY <1>1, <1>2, <2>1, <3>2 DEF DoneAt
      <4>2. DoneAt(a, o) <=> \E j \in DOMAIN Task.on : j < play.item /\ Task.on[j] = o
        BY <1>1, <1>2, <3>2 DEF DoneAt
      <4>3. Item = Task.on[play.item]
        BY DEF Item
      <4>4. \A j \in DOMAIN Task.on : j < play.item + 1 <=> j < play.item \/ j = play.item
        BY <1>1, <1>2
      <4>5. QED
        BY <1>1, <1>2, <3>2, <4>1, <4>2, <4>3, <4>4
    <3>3. QED
      BY <3>1, <3>2
  <2>3. QED
    BY <1>1, <1>4, <2>1, <2>2 DEF Adds
<1>6. CASE ~(play.item < Len(Task.on))
  <2>1. ~p.failed /\ play'.pc = play.pc + 1 /\ play'.item = 1
    BY <1>2, <1>3, <1>4, <1>6, LoopedFacts, LoopedLooks
  <2>2. ASSUME NEW o \in Objects(lane), NEW a \in DOMAIN lane.script
        PROVE  DoneAt(a, o)' <=> DoneAt(a, o) \/ (a = play.pc /\ o = Item)
    <3>1. \A j \in DOMAIN lane.script[a].on : ~(j < 1)
      BY <1>1
    <3>2. DoneAt(a, o)' <=> a < play.pc + 1 /\ o \in On(a)
      BY <2>1, <3>1 DEF DoneAt, On
    <3>3. CASE a < play.pc
      BY <1>1, <3>2, <3>3 DEF DoneAt
    <3>4. CASE a > play.pc
      BY <1>1, <3>2, <3>4 DEF DoneAt
    <3>5. CASE a = play.pc
      <4>1. o \in On(a) <=> \E j \in DOMAIN Task.on : Task.on[j] = o
        BY <1>2, <3>5 DEF On, Elements
      <4>2. \A j \in DOMAIN Task.on : j < play.item \/ j = play.item
        BY <1>1, <1>2, <1>6
      <4>3. DoneAt(a, o) <=> \E j \in DOMAIN Task.on : j < play.item /\ Task.on[j] = o
        BY <1>1, <1>2, <3>5 DEF DoneAt
      <4>4. Item = Task.on[play.item]
        BY DEF Item
      <4>5. QED
        BY <1>1, <1>2, <3>2, <3>5, <4>1, <4>2, <4>3, <4>4
    <3>6. QED
      BY <1>1, <3>3, <3>4, <3>5
  <2>3. QED
    BY <1>1, <1>4, <2>1, <2>2 DEF Adds
<1>7. QED
  BY <1>5, <1>6

LEMMA DoneBehind ==
    ASSUME NEW a, NEW o, DoneAt(a, o)
    PROVE  a < play.pc \/ a = play.pc
  BY DEF DoneAt

LEMMA KeptBefore ==
    ASSUME TInv, UNCHANGED lane, play.pc <= play'.pc, play'.pc \in Nat,
           NEW a \in DOMAIN lane.script, NEW o, Kept(a, o)'
    PROVE  Kept(a, o)
<1>1. play.pc \in Nat /\ \A t \in DOMAIN lane.script : t \in Nat
  BY PlayFields, ScriptDomain
<1>2. \A t \in DOMAIN lane.script : t <= play.pc => t <= play'.pc
  BY <1>1
<1>3. QED
  BY <1>2 DEF Kept, Handles

LEMMA UnwrittenBefore ==
    ASSUME UNCHANGED lane, NEW o \in Objects(lane), NEW r \in DOMAIN lane.script, Unwritten(r, o)',
           \A a \in DOMAIN lane.script : DoneAt(a, o) => DoneAt(a, o)'
    PROVE  Unwritten(r, o)
  BY DEF Unwritten, Handles

LEMMA Undoings ==
    /\ \A do : Undoing(do) \subseteq Reading
    /\ \A do \in {"acceptExact", "acceptOurs"} : Undoing(do) = Keeping
    /\ Undoing("read") = Keeping \cup {"inventory"}
    /\ Keeping \cup {"inventory"} \subseteq Reading
    /\ Writing \cap Reading = {}
  BY DEF Undoing, Keeping, Reading, Writing

LEMMA OtherTask ==
    ASSUME NEW a \in DOMAIN lane.script, NEW tasks, NEW o, Handles(lane, a, tasks, o),
           a = play.pc
    PROVE  Task.do \in tasks
  BY DEF Handles, Task

LEMMA Going ==
    ASSUME TInv, TInv'
    PROVE  /\ play \in Plays /\ play'.pc \in Nat /\ play.pc \in Nat
           /\ Own(lane) \subseteq Objects(lane)
           /\ cluster \in [Objects(lane) -> Live]
           /\ \A a \in DOMAIN lane.script : a \in Nat
<1>1. play \in Plays /\ cluster \in [Objects(lane) -> Live] /\ play.pc \in Nat
  BY PlayFields DEF TInv, TypeOK
<1>2. play'.pc \in Nat
  BY DEF TInv, TypeOK, Plays
<1>3. \A a \in DOMAIN lane.script : a \in Nat
  BY ScriptDomain
<1>4. QED
  BY <1>1, <1>2, <1>3, OwnObjects

LEMMA HashBehind ==
    ASSUME TInv, Sound, Hashed, Task.do # "hash", UNCHANGED <<lane, files>>,
           play'.revised = play.revised, play'.pc \in {play.pc, play.pc + 1}
    PROVE  Hashed'
<1> SUFFICES ASSUME NEW h \in DOMAIN lane.script, NEW o \in Own(lane),
                    lane.script[h].do = "hash", h < play'.pc
             PROVE  files[o] = "reviewed" \/ o \in play.revised
  BY DEF Hashed
<1>1. h \in Nat /\ play.pc \in Nat
  BY ScriptDomain, PlayFields
<1>2. h # play.pc
  BY DEF Task
<1>3. h < play.pc
  BY <1>1, <1>2
<1>4. QED
  BY <1>3 DEF Hashed

LEMMA BeginsKept ==
    ASSUME EInv, TInv', Begins
    PROVE  Evidence'
<1>1. \A a \in DOMAIN lane.script : ~(a < 1) /\ \A j \in DOMAIN lane.script[a].on : ~(j < 1)
  BY ScriptDomain DEF EInv
<1>2. \A o, a : a \in DOMAIN lane.script => ~DoneAt(a, o)'
  BY <1>1 DEF DoneAt, Begins
<1>3. ASSUME NEW o \in Objects(lane)
      PROVE  /\ Older(play'.seen[o], cluster'[o]) /\ Older(play'.first[o], cluster'[o])
             /\ Older(play'.again[o], cluster'[o])
             /\ play'.seen[o].rev <= play'.again[o].rev
  <2>1. cluster'[o] \in Live /\ UNCHANGED lane
    BY <1>3 DEF Begins, TInv, TypeOK
  <2>2. play'.seen[o] = Unread /\ play'.first[o] = Unread /\ play'.again[o] = Unread
    BY <1>3 DEF Begins, Own0
  <2>3. /\ Older(play'.seen[o], cluster'[o]) /\ Older(play'.first[o], cluster'[o])
        /\ Older(play'.again[o], cluster'[o])
    BY <1>3, <2>2 DEF Begins, EInv, Born
  <2>4. QED
    BY <2>2, <2>3 DEF Unread
<1>4. Aged'
  BY <1>3 DEF Aged, Begins
<1>5. Evident' /\ Current' /\ Fresh' /\ Righted'
  BY <1>2, OwnObjects DEF Evident, Current, Fresh, Righted, Begins
<1>6. Hashed'
  BY <1>1 DEF Hashed, Begins
<1>7. QED
  BY <1>4, <1>5, <1>6 DEF Evidence

LEMMA PastKept ==
    ASSUME EInv, TInv', GoesPast, Sound'
    PROVE  Evidence'
<1>1. TInv /\ UNCHANGED <<lane, cluster>> /\ Adds(Elements(Task.on)) /\ Looks(play', play)
  BY PastAdds DEF EInv, GoesPast
<1>2. Sound
  BY DEF GoesPast, InTask, Running, Sound
<1>3. Aged'
  BY <1>1, <1>2 DEF EInv, Evidence, Aged, Looks
<1>4. play.pc <= play'.pc /\ play'.pc = play.pc + 1
  BY <1>1 DEF Adds, GoesPast
<1>5. ASSUME NEW o \in Objects(lane), NEW a \in DOMAIN lane.script, DoneAt(a, o)', Kept(a, o)'
      PROVE  Holds(lane.script[a].do, o)'
  <2>1. CASE DoneAt(a, o)
    <3>1. Holds(lane.script[a].do, o)
      BY <1>1, <1>2, <1>4, <1>5, <2>1, KeptBefore, Going DEF EInv, Evidence, Evident
    <3>2. QED
      BY <1>1, <3>1 DEF Holds, Looks
  <2>2. CASE a = play.pc /\ o \in Elements(Task.on)
    <3>1. Holds(Task.do, o) /\ Task.do = lane.script[a].do
      BY <2>2 DEF GoesPast, Task
    <3>2. QED
      BY <1>1, <3>1 DEF Holds, Looks
  <2>3. QED
    BY <1>1, <1>5, <2>1, <2>2 DEF Adds
<1>6. Evident'
  BY <1>1, <1>5 DEF Evident
<1>7. ASSUME NEW o \in Objects(lane) \ (play.touched \cup {"target"}),
             NEW r \in DOMAIN lane.script, DoneAt(r, o)', Unwritten(r, o)'
      PROVE  AsThere(lane.script[r].do, o)'
  <2>2. CASE DoneAt(r, o)
    <3>1. Unwritten(r, o)
      BY <1>1, <1>7, UnwrittenBefore DEF Adds
    <3>2. AsThere(lane.script[r].do, o)
      BY <1>2, <2>2, <3>1 DEF EInv, Evidence, Current
    <3>3. QED
      BY <1>1, <3>2 DEF AsThere, Looks
  <2>3. CASE r = play.pc
    <3>1. lane.script[r].do \notin Reading
      BY <2>3 DEF GoesPast, Task
    <3>2. QED
      BY <1>1, <3>1, Undoings DEF AsThere, Reading, Keeping
  <2>4. QED
    BY <1>1, <1>7, <2>2, <2>3 DEF Adds
<1>8. Current'
  BY <1>1, <1>7 DEF Current, Looks
<1>9. ASSUME NEW o \in Own(lane) \ play.touched, NEW a \in DOMAIN lane.script,
             Repairs(lane, a, o), DoneAt(a, o)'
      PROVE  cluster[o].shape = "ours" \/ LetThrough(o)
  <2>1. a # play.pc /\ o \in Objects(lane)
    BY <1>9, OtherTask, OwnObjects DEF Repairs, GoesPast, Writing
  <2>2. QED
    BY <1>1, <1>2, <1>9, <2>1 DEF EInv, Evidence, Righted, Adds
<1>10. Righted'
  BY <1>1, <1>9 DEF Righted, Looks, LetThrough
<1>11. Fresh'
  <2> SUFFICES ASSUME NEW o \in Objects(lane), NEW r \in DOMAIN lane.script,
                      lane.script[r].do = "read", DoneAt(r, o)', UnseenSince(r, o)'
               PROVE  play'.again[o] = play'.seen[o]
    BY <1>1 DEF Fresh
  <2>1. r # play.pc
    BY DEF GoesPast, Task, Reading
  <2>2. DoneAt(r, o) /\ UnseenSince(r, o)
    BY <1>1, <1>4, <2>1, Going DEF Adds, UnseenSince
  <2>3. QED
    BY <1>1, <1>2, <2>2 DEF EInv, Evidence, Fresh, Looks
<1>12. Hashed'
  <2> SUFFICES ASSUME NEW h \in DOMAIN lane.script, NEW o \in Own(lane),
                      lane.script[h].do = "hash", h < play'.pc
               PROVE  files'[o] = "reviewed" \/ o \in play'.revised
    BY <1>1 DEF Hashed
  <2>1. h < play.pc \/ h = play.pc
    BY <1>1, <1>4, Going DEF EInv
  <2>2. CASE h < play.pc
    BY <1>1, <1>2, <2>2 DEF EInv, Evidence, Hashed, Looks, GoesPast
  <2>3. CASE h = play.pc
    BY <2>3 DEF GoesPast, Task
  <2>4. QED
    BY <2>1, <2>2, <2>3
<1>13. QED
  BY <1>3, <1>6, <1>8, <1>10, <1>11, <1>12 DEF Evidence

LEMMA StandsKept ==
    ASSUME EInv, TInv', StandsBy, Sound'
    PROVE  Evidence'
<1>1. TInv /\ UNCHANGED lane /\ Own(lane) \subseteq Objects(lane)
  BY OwnObjects DEF EInv, StandsBy
<1>2. Sound
  BY DEF StandsBy, Sound
<1>3. \A a, o : DoneAt(a, o)' <=> DoneAt(a, o)
  BY <1>1 DEF DoneAt, StandsBy, On
<1>4. \A a, o : (Kept(a, o)' <=> Kept(a, o)) /\ (Unwritten(a, o)' <=> Unwritten(a, o))
                /\ (UnseenSince(a, o)' <=> UnseenSince(a, o))
  BY <1>1, <1>3 DEF Kept, Unwritten, UnseenSince, Handles, StandsBy
<1>5. ASSUME NEW o \in Objects(lane), NEW x \in Live, Older(x, cluster[o])
      PROVE  Older(x, cluster'[o])
  <2>1. cluster[o] \in Live /\ cluster'[o] \in Live
    BY <1>1, TInv' DEF TInv, TypeOK
  <2>2. QED
    BY <1>5, <2>1, OlderTrans DEF StandsBy
<1>6. Aged'
  <2>1. \A o \in Objects(lane) : /\ play.seen[o] \in Live /\ play.first[o] \in Live
                                 /\ play.again[o] \in Live
    BY <1>1, PlayFields
  <2>2. QED
    BY <1>1, <1>2, <1>5, <2>1 DEF EInv, Evidence, Aged, StandsBy
<1>7. \A do, o : Holds(do, o)' <=> Holds(do, o)
  BY DEF Holds, StandsBy
<1>8. Evident'
  BY <1>1, <1>2, <1>3, <1>4, <1>7 DEF EInv, Evidence, Evident
<1>9. Current'
  <2> SUFFICES ASSUME NEW o \in Objects(lane) \ (play'.touched \cup {"target"}),
                      NEW r \in DOMAIN lane.script, DoneAt(r, o), Unwritten(r, o)
               PROVE  AsThere(lane.script[r].do, o)'
    BY <1>1, <1>3, <1>4 DEF Current
  <2>1. AsThere(lane.script[r].do, o) /\ cluster'[o] = cluster[o]
    BY <1>2 DEF EInv, Evidence, Current, StandsBy
  <2>2. QED
    BY <1>1, <2>1 DEF AsThere, StandsBy
<1>10. Righted'
  <2>1. /\ lane \in Lanes /\ play.touched \subseteq play'.touched
        /\ Own(lane) \subseteq Objects(lane)
        /\ \A o \in Objects(lane) \ (play'.touched \cup {"target"}) :
              cluster'[o] = cluster[o]
    BY <1>1 DEF StandsBy, TInv, TypeOK, Objects
  <2>2. "target" \notin Own(lane)
    BY <2>1, LaneAssumption
  <2>3. \A o \in Own(lane) \ play'.touched : cluster'[o] = cluster[o] /\ o \notin play.touched
    BY <2>1, <2>2
  <2>4. QED
    BY <1>1, <1>2, <1>3, <2>1, <2>3 DEF EInv, Evidence, Righted, LetThrough, StandsBy
<1>11. Fresh' /\ Hashed'
  BY <1>1, <1>2, <1>3, <1>4 DEF EInv, Evidence, Fresh, Hashed, StandsBy
<1>12. QED
  BY <1>6, <1>8, <1>9, <1>10, <1>11 DEF Evidence

LEMMA LooksKept ==
    ASSUME EInv, TInv', Sound', NEW p \in Plays, LooksAt(p)
    PROVE  Evidence'
<1>1. /\ TInv /\ InTask /\ Task.do \in Reading /\ UNCHANGED <<lane, cluster>>
      /\ SameButLooks(p) /\ play' = Looped(p) /\ p.failed = play.failed
  BY DEF EInv, LooksAt
<1>2. /\ Adds({Item}) /\ Looks(play', p) /\ play'.skipped = play.skipped
      /\ play'.pc \in {play.pc, play.pc + 1}
  BY <1>1, ItemAdds
<1>3. Sound
  BY <1>1, <1>2 DEF InTask, Running, Sound
<1>4. /\ Item \in Objects(lane) /\ play.pc \in DOMAIN lane.script
      /\ Handles(lane, play.pc, {Task.do}, Item)
  BY <1>1, ItemFacts DEF InTask, Handles, Task
<1>5. /\ \A o \in Objects(lane) \ {Item} :
            /\ play'.seen[o] = play.seen[o] /\ play'.first[o] = play.first[o]
            /\ play'.again[o] = play.again[o]
      /\ play'.again[Item] = cluster[Item]
      /\ play'.seen[Item] = IF Task.do \in Keeping THEN cluster[Item] ELSE play.seen[Item]
      /\ play'.first[Item] = IF Task.do = "inventory" THEN cluster[Item] ELSE play.first[Item]
      /\ play'.touched = play.touched /\ play'.revised = play.revised
  BY <1>2 DEF LooksAt, Looks, SameButLooks
<1>6. /\ play.pc <= play'.pc /\ play'.pc \in Nat /\ play.pc \in Nat
      /\ \A a \in DOMAIN lane.script : a \in Nat
      /\ Own(lane) \subseteq Objects(lane) /\ cluster \in [Objects(lane) -> Live]
  BY <1>1, <1>2, Going DEF Adds
<1>7. Aged'
  <2>1. Older(cluster[Item], cluster[Item])
    BY <1>4, <1>6, OlderRefl
  <2>2. \A o \in Objects(lane) : play'.seen[o].rev <= play'.again[o].rev
    BY <1>3, <1>4, <1>5, <2>1 DEF EInv, Evidence, Aged, Older
  <2>3. QED
    BY <1>1, <1>3, <1>5, <2>1, <2>2 DEF EInv, Evidence, Aged
<1>8. ASSUME NEW o \in Objects(lane), NEW a \in DOMAIN lane.script, DoneAt(a, o)', Kept(a, o)'
      PROVE  Holds(lane.script[a].do, o)'
  <2> DEFINE do == lane.script[a].do
  <2>1. Kept(a, o)
    BY <1>1, <1>6, <1>8, KeptBefore
  <2>2. CASE o # Item
    <3>1. DoneAt(a, o)
      BY <1>2, <1>8, <2>2 DEF Adds
    <3>2. Holds(do, o)
      BY <1>3, <2>1, <3>1 DEF EInv, Evidence, Evident
    <3>3. QED
      BY <1>1, <1>5, <2>2, <3>2 DEF Holds
  <2>3. CASE o = Item /\ a = play.pc
    <3>1. do = Task.do
      BY <2>3 DEF Task
    <3>2. Older(play.first[Item], cluster[Item])
      BY <1>3, <1>4 DEF EInv, Evidence, Aged
    <3>3. Task.do = "read" => play'.first[Item].rev <= play'.seen[Item].rev
      BY <1>5, <3>2 DEF Keeping, Older
    <3>4. Task.do = "waitPresent" => There(play'.again[Item])
      BY <1>5 DEF LooksAt
    <3>5. Task.do = "waitExact" => play'.again[Item].shape = "ours"
      BY <1>5 DEF LooksAt
    <3>6. QED
      BY <1>1, <2>3, <3>1, <3>3, <3>4, <3>5 DEF Holds, Reading
  <2>4. CASE o = Item /\ a # play.pc
    <3>1. DoneAt(a, o)
      BY <1>2, <1>8, <2>4 DEF Adds
    <3>2. a < play.pc
      BY <2>4, <3>1, DoneBehind
    <3>3. Holds(do, o)
      BY <1>3, <2>1, <3>1 DEF EInv, Evidence, Evident
    <3>4. Task.do \notin Undoing(do)
      BY <1>4, <1>6, <2>1, <2>4, <3>2 DEF Kept, Handles
    <3>5. CASE do \in {"acceptExact", "acceptOurs"}
      <4>1. play'.seen[o] = play.seen[o]
        BY <1>5, <2>4, <3>4, <3>5 DEF Undoing
      <4>2. QED
        BY <1>1, <3>3, <3>5, <4>1 DEF Holds
    <3>6. CASE do = "read"
      <4>1. play'.seen[o] = play.seen[o] /\ play'.first[o] = play.first[o]
        BY <1>5, <2>4, <3>4, <3>6 DEF Undoing
      <4>2. QED
        BY <1>1, <3>3, <3>6, <4>1 DEF Holds
    <3>7. do \in {"acceptExact", "acceptOurs", "read"}
      BY <1>1, <3>4 DEF Undoing
    <3>8. QED
      BY <3>5, <3>6, <3>7
  <2>5. QED
    BY <2>2, <2>3, <2>4
<1>9. Evident'
  BY <1>1, <1>8 DEF Evident
<1>10. ASSUME NEW o \in Objects(lane) \ (play.touched \cup {"target"}),
              NEW r \in DOMAIN lane.script, DoneAt(r, o)', Unwritten(r, o)'
       PROVE  AsThere(lane.script[r].do, o)'
  <2>1. Unwritten(r, o)
    BY <1>1, <1>2, <1>10, UnwrittenBefore DEF Adds
  <2>2. DoneAt(r, o) => AsThere(lane.script[r].do, o)
    BY <1>3, <2>1 DEF EInv, Evidence, Current
  <2>3. CASE o # Item
    <3>1. AsThere(lane.script[r].do, o)
      BY <1>2, <1>10, <2>2, <2>3 DEF Adds
    <3>2. QED
      BY <1>1, <1>5, <2>3, <3>1 DEF AsThere
  <2>4. CASE o = Item /\ DoneAt(r, o)
    BY <1>1, <1>5, <2>2, <2>4 DEF AsThere
  <2>5. CASE o = Item /\ r = play.pc
    <3>1. lane.script[r].do = Task.do
      BY <2>5 DEF Task
    <3>2. QED
      BY <1>1, <1>5, <2>5, <3>1 DEF AsThere
  <2>6. QED
    BY <1>2, <1>10, <2>3, <2>4, <2>5 DEF Adds
<1>11. Current'
  BY <1>1, <1>5, <1>10 DEF Current
<1>12. ASSUME NEW o \in Own(lane) \ play.touched, NEW a \in DOMAIN lane.script,
              Repairs(lane, a, o), DoneAt(a, o)'
       PROVE  cluster[o].shape = "ours" \/ LetThrough(o)
  <2>1. a # play.pc /\ o \in Objects(lane)
    BY <1>1, <1>6, <1>12, OtherTask DEF Repairs, Reading
  <2>2. QED
    BY <1>2, <1>3, <1>12, <2>1 DEF EInv, Evidence, Righted, Adds
<1>13. Righted'
  BY <1>1, <1>5, <1>12 DEF Righted, LetThrough
<1>14. Fresh'
  <2> SUFFICES ASSUME NEW o \in Objects(lane), NEW r \in DOMAIN lane.script,
                      lane.script[r].do = "read", DoneAt(r, o)', UnseenSince(r, o)'
               PROVE  play'.again[o] = play'.seen[o]
    BY <1>1 DEF Fresh
  <2>1. UnseenSince(r, o)
    BY <1>1, <1>2, <1>6 DEF Adds, UnseenSince
  <2>2. CASE o = Item
    <3>1. CASE r = play.pc
      BY <1>5, <2>2, <3>1 DEF Keeping, Task
    <3>2. CASE r # play.pc
      <4>1. r < play.pc
        BY <1>2, <3>2, DoneBehind DEF Adds
      <4>2. Handles(lane, play.pc, Reading, o)
        BY <1>1, <2>2, ItemFacts DEF Handles, Task
      <4>3. play.pc <= play.pc
        BY <1>6
      <4>4. QED
        BY <1>4, <1>6, <2>1, <4>1, <4>2, <4>3 DEF UnseenSince
    <3>3. QED
      BY <3>1, <3>2
  <2>3. CASE o # Item
    BY <1>2, <1>3, <1>5, <2>1, <2>3 DEF EInv, Evidence, Fresh, Adds
  <2>4. QED
    BY <2>2, <2>3
<1>15. Hashed'
  <2>1. UNCHANGED files
    BY DEF LooksAt
  <2>2. Task.do # "hash"
    BY <1>1 DEF Reading
  <2>3. QED
    BY <1>1, <1>2, <1>3, <1>5, <2>1, <2>2, HashBehind DEF EInv, Evidence
<1>16. QED
  BY <1>7, <1>9, <1>11, <1>13, <1>14, <1>15 DEF Evidence

(* What a permitted call leaves: an edit only where the checkout decides,  *)
(* and has it.                                                             *)
LEMMA PermittedLeaves ==
    ASSUME TInv, NEW o \in Own(lane), Permits(o, Definition(o), TRUE)
    PROVE  \/ Written(Definition(o)) = "ours"
           \/ /\ lane.plugin.closure = "files" /\ files[o] = "edited"
              /\ Written(Definition(o)) = "edited"
<1>1. /\ lane.plugin.closure \in {"hash", "files", "values", "patch"}
      /\ lane \in Lanes
  BY LaneAssumption DEF TInv, TypeOK
<1>2. CASE lane.plugin.closure = "hash"
  <2>1. Definition(o) = "reviewed"
    BY <1>2, PermitFacts
  <2>2. QED
    BY <2>1 DEF Written
<1>3. CASE lane.plugin.closure \in {"values", "patch"}
  <2>1. ~FromFiles
    BY <1>1, <1>3, LaneAssumption DEF FromFiles
  <2>2. QED
    BY <2>1 DEF Written, Definition
<1>4. CASE lane.plugin.closure = "files"
  <2>1. Definition(o) = files[o]
    BY <1>4, PermitFacts
  <2>2. QED
    BY <1>4, <2>1 DEF Written
<1>5. QED
  BY <1>1, <1>2, <1>3, <1>4

LEMMA WritesKept ==
    ASSUME EInv, TInv', Sound', NEW p \in Plays, WritesAt(p)
    PROVE  Evidence'
<1>1. /\ TInv /\ InTask /\ Task.do \in Writing /\ UNCHANGED <<lane, files>>
      /\ SameButLooks(p) /\ play' = Looped(p)
  BY DEF EInv, WritesAt
<1>2. /\ Adds({Item}) /\ Looks(play', p) /\ play'.skipped = play.skipped
      /\ p.failed => play'.failed /\ play'.pc = play.pc
      /\ play'.pc \in {play.pc, play.pc + 1}
  BY <1>1, ItemAdds
<1>3. Sound
  BY <1>1, <1>2 DEF InTask, Running, Sound
<1>4. /\ Item \in Own(lane) /\ Item \in Objects(lane) /\ play.pc \in DOMAIN lane.script
      /\ Handles(lane, play.pc, Writing, Item)
  BY <1>1, ItemFacts DEF InTask, Handles, Task
<1>5. /\ play'.seen = play.seen /\ play'.first = play.first /\ play'.again = play.again
      /\ play'.touched = play.touched /\ play'.revised = play.revised
  BY <1>2 DEF WritesAt, Looks, SameButLooks
<1>6. /\ play.pc <= play'.pc /\ play'.pc \in Nat /\ play.pc \in Nat
      /\ \A a \in DOMAIN lane.script : a \in Nat
      /\ Own(lane) \subseteq Objects(lane) /\ cluster \in [Objects(lane) -> Live]
  BY <1>1, <1>2, Going DEF Adds
<1> DEFINE After == Becomes(cluster[Item], Written(Definition(Item)))
           Wrote == /\ Permits(Item, Definition(Item), TRUE)
                    /\ cluster' = [cluster EXCEPT ![Item] = After]
<1>7. \/ Wrote
      \/ /\ cluster' = cluster
         /\ \/ p.failed \/ Task.do \in {"create", "applyWhen"}
            \/ Task.do = "swap" /\ play.seen[Item].shape = "ours"
  BY DEF WritesAt
<1>8. /\ After \in Live /\ After.shape = Written(Definition(Item))
      /\ Older(cluster[Item], After)
  <2>1. cluster[Item] \in Live /\ Written(Definition(Item)) \in Shapes
    BY <1>4, <1>6, WrittenType DEF Shapes
  <2>2. QED
    BY <2>1, BecomesType, BecomesOlder
<1>9. \A o \in Objects(lane) :
         /\ Older(cluster[o], cluster'[o])
         /\ o # Item => cluster'[o] = cluster[o]
  BY <1>4, <1>6, <1>7, <1>8, OlderRefl
<1> HIDE DEF After
<1>10. Aged'
  <2>1. \A o \in Objects(lane) : /\ play.seen[o] \in Live /\ play.first[o] \in Live
                                 /\ play.again[o] \in Live /\ cluster[o] \in Live
                                 /\ cluster'[o] \in Live
    <3>1. cluster' \in [Objects(lane) -> Live]
      BY <1>1 DEF TInv, TypeOK
    <3>2. QED
      BY <1>1, <1>6, <3>1, PlayFields
  <2>2. ASSUME NEW o \in Objects(lane), NEW x \in Live, Older(x, cluster[o])
        PROVE  Older(x, cluster'[o])
    BY <1>9, <2>1, <2>2, OlderTrans
  <2>3. QED
    BY <1>1, <1>3, <1>5, <2>1, <2>2 DEF EInv, Evidence, Aged
<1>11. ASSUME NEW o \in Objects(lane), NEW a \in DOMAIN lane.script, DoneAt(a, o)', Kept(a, o)'
       PROVE  Holds(lane.script[a].do, o)'
  <2>1. CASE DoneAt(a, o)
    <3>1. Holds(lane.script[a].do, o)
      BY <1>1, <1>3, <1>6, <1>11, <2>1, KeptBefore DEF EInv, Evidence, Evident
    <3>2. QED
      BY <1>1, <1>5, <3>1 DEF Holds
  <2>2. CASE a = play.pc
    <3>1. lane.script[a].do \in Writing
      BY <1>1, <2>2 DEF Task
    <3>2. QED
      BY <1>1, <3>1 DEF Holds, Writing
  <2>3. QED
    BY <1>2, <1>11, <2>1, <2>2 DEF Adds
<1>12. Evident'
  BY <1>1, <1>11 DEF Evident
<1>13. \A a \in DOMAIN lane.script, o \in Objects(lane) :
          a = play.pc /\ o = Item => DoneAt(a, o)'
  BY <1>2, <1>4 DEF Adds
<1>14. ASSUME NEW o \in Objects(lane) \ (play.touched \cup {"target"}),
              NEW r \in DOMAIN lane.script, DoneAt(r, o)', Unwritten(r, o)'
       PROVE  AsThere(lane.script[r].do, o)'
  <2>1. Unwritten(r, o)
    BY <1>1, <1>2, <1>14, UnwrittenBefore DEF Adds
  <2>2. CASE r = play.pc
    <3>1. lane.script[r].do \notin Reading
      BY <1>1, <2>2, Undoings DEF Task
    <3>2. QED
      BY <1>1, <3>1, Undoings DEF AsThere, Reading, Keeping
  <2>3. CASE r # play.pc
    <3>1. DoneAt(r, o)
      BY <1>2, <1>14, <2>3 DEF Adds
    <3>2. r < play.pc
      BY <2>3, <3>1, DoneBehind
    <3>3. o # Item
      BY <1>1, <1>4, <1>13, <1>14, <3>2 DEF Unwritten, Handles
    <3>4. AsThere(lane.script[r].do, o) /\ cluster'[o] = cluster[o]
      BY <1>3, <1>9, <2>1, <3>1, <3>3 DEF EInv, Evidence, Current
    <3>5. QED
      BY <1>1, <1>5, <3>4 DEF AsThere
  <2>4. QED
    BY <2>2, <2>3
<1>15. Current'
  BY <1>1, <1>5, <1>14 DEF Current
<1>16. ASSUME NEW o \in Own(lane) \ play.touched, NEW a \in DOMAIN lane.script,
              Repairs(lane, a, o), DoneAt(a, o)'
       PROVE  (a = play'.pc /\ play'.failed) \/ cluster'[o].shape = "ours" \/ LetThrough(o)'
  <2>1. o \in Objects(lane)
    BY <1>6, <1>16
  <2>2. ASSUME Wrote, o = Item
        PROVE  cluster'[o].shape = "ours" \/ LetThrough(o)'
    <3>1. cluster'[o].shape = Written(Definition(o))
      BY <1>4, <1>6, <1>8, <2>2
    <3>2. CASE Written(Definition(o)) = "ours"
      BY <3>1, <3>2
    <3>3. CASE /\ lane.plugin.closure = "files" /\ files[o] = "edited"
               /\ Written(Definition(o)) = "edited"
      <4>1. PICK h \in 1 .. a - 1 : lane.script[h].do = "hash"
        BY <1>16, <3>3 DEF Repairs
      <4>2. a = play.pc \/ a < play.pc
        BY <1>2, <1>16, <2>1, DoneBehind DEF Adds
      <4>3. h \in DOMAIN lane.script /\ h < play.pc
        BY <1>1, <1>6, <4>1, <4>2, ScriptDomain
      <4>4. o \in play.revised
        BY <1>3, <3>3, <4>1, <4>3 DEF EInv, Evidence, Hashed
      <4>5. QED
        BY <1>1, <1>5, <3>1, <3>3, <4>4 DEF LetThrough
    <3>4. QED
      BY <1>1, <1>4, <2>2, <3>2, <3>3, PermittedLeaves
  <2>3. CASE DoneAt(a, o)
    <3>1. (a = play.pc /\ play.failed) \/ cluster[o].shape = "ours" \/ LetThrough(o)
      BY <1>3, <1>16, <2>3 DEF EInv, Evidence, Righted
    <3>2. CASE a = play.pc /\ play.failed
      BY <1>2, <3>2 DEF WritesAt
    <3>3. CASE cluster[o].shape = "ours" \/ LetThrough(o)
      <4>1. CASE Wrote /\ o = Item
        BY <2>2, <4>1
      <4>2. CASE cluster'[o] = cluster[o]
        BY <1>1, <1>5, <3>3, <4>2 DEF LetThrough
      <4>3. QED
        BY <1>7, <1>9, <2>1, <4>1, <4>2
    <3>4. QED
      BY <3>1, <3>2, <3>3
  <2>4. CASE ~DoneAt(a, o)
    <3>1. a = play.pc /\ o = Item
      BY <1>2, <1>16, <2>1, <2>4 DEF Adds
    <3>2. CASE Wrote
      BY <2>2, <3>1, <3>2
    <3>3. CASE cluster' = cluster /\ p.failed
      BY <1>2, <3>1, <3>3
    <3>4. CASE cluster' = cluster /\ Task.do = "swap" /\ play.seen[Item].shape = "ours"
      <4>1. Shown(lane, o, a, {"read"}, Writing)
        BY <1>16, <3>1, <3>4 DEF Repairs, Handles, Task
      <4>2. PICK r \in 1 .. a - 1 :
               /\ Handles(lane, r, {"read"}, o)
               /\ \A t \in r + 1 .. a - 1 : ~Handles(lane, t, Writing, o)
        BY <4>1 DEF Shown
      <4>3. r \in DOMAIN lane.script /\ r < play.pc /\ r \in Nat
        BY <1>1, <1>4, <3>1, <4>2, ScriptDomain
      <4>4. DoneAt(r, o)
        BY <4>2, <4>3 DEF DoneAt, Handles, On
      <4>5. Unwritten(r, o)
        <5> SUFFICES ASSUME NEW t \in DOMAIN lane.script, r < t,
                            Handles(lane, t, Writing, o), DoneAt(t, o)
                     PROVE  FALSE
          BY DEF Unwritten
        <5>1. t \in Nat /\ (t < play.pc \/ t = play.pc)
          BY <1>6, DoneBehind
        <5>2. CASE t < play.pc
          BY <1>6, <3>1, <4>2, <4>3, <5>1, <5>2
        <5>3. CASE t = play.pc
          BY <2>4, <3>1, <5>3
        <5>4. QED
          BY <5>1, <5>2, <5>3
      <4>6. play.seen[o] = cluster[o]
        <5>1. o # "target" /\ lane.script[r].do = "read"
          BY <1>1, <1>16, <4>2, LaneAssumption DEF TInv, TypeOK, Handles
        <5>2. AsThere(lane.script[r].do, o)
          BY <1>3, <1>16, <2>1, <4>3, <4>4, <4>5, <5>1 DEF EInv, Evidence, Current
        <5>3. QED
          BY <5>1, <5>2 DEF AsThere, Keeping
      <4>7. QED
        BY <3>1, <3>4, <4>6
    <3>5. Task.do \notin {"create", "applyWhen"}
      BY <1>16, <3>1 DEF Repairs, Handles, Task
    <3>6. QED
      BY <1>7, <3>2, <3>3, <3>4, <3>5
  <2>5. QED
    BY <2>3, <2>4
<1>17. Righted'
  BY <1>1, <1>5, <1>16 DEF Righted
<1>18. Fresh'
  <2> SUFFICES ASSUME NEW o \in Objects(lane), NEW r \in DOMAIN lane.script,
                      lane.script[r].do = "read", DoneAt(r, o)', UnseenSince(r, o)'
               PROVE  play'.again[o] = play'.seen[o]
    BY <1>1 DEF Fresh
  <2>1. r # play.pc
    BY <1>1 DEF Task, Writing
  <2>2. DoneAt(r, o) /\ UnseenSince(r, o)
    BY <1>1, <1>2, <1>6, <2>1 DEF Adds, UnseenSince
  <2>3. QED
    BY <1>3, <1>5, <2>2 DEF EInv, Evidence, Fresh
<1>19. Hashed'
  <2>1. Task.do # "hash"
    BY <1>1 DEF Writing
  <2>2. QED
    BY <1>1, <1>2, <1>3, <1>5, <2>1, HashBehind DEF EInv, Evidence
<1>20. QED
  BY <1>10, <1>12, <1>15, <1>17, <1>18, <1>19 DEF Evidence

LEMMA NextEnded ==
    ASSUME EInv, TInv', Sound',
           \/ Begins \/ GoesPast \/ StandsBy
           \/ \E p \in Plays : LooksAt(p) \/ WritesAt(p)
    PROVE  Ended'
<1>1. CASE Begins
  BY <1>1 DEF Begins, Ended
<1>2. CASE GoesPast
  BY <1>2 DEF GoesPast, Ended
<1>3. CASE StandsBy
  BY <1>3 DEF StandsBy, Ended, EInv, Sound
<1>4. ASSUME NEW p \in Plays, LooksAt(p) \/ WritesAt(p)
      PROVE  Ended'
  <2>1. /\ play' = Looped(p) /\ p.pc = play.pc /\ p.outcome = "running" /\ UNCHANGED lane
    BY <1>4 DEF LooksAt, WritesAt, SameButLooks, InTask, Running
  <2>2. QED
    BY <2>1, LoopedEnds DEF Ended
<1>5. QED
  BY <1>1, <1>2, <1>3, <1>4

(* Whatever happens, an object becomes no older.                           *)
LEMMA NothingYounger ==
    ASSUME TInv, TInv', [Next]_vars, NEW o \in Objects(lane)
    PROVE  Older(cluster[o], cluster'[o])
<1>1. /\ cluster \in [Objects(lane) -> Live] /\ cluster[o] \in Live
      /\ Older(cluster[o], cluster[o])
  BY OlderRefl DEF TInv, TypeOK
<1>2. CASE Interfere \/ Materialize \/ EditFile \/ WrapperEnds \/ UNCHANGED vars
  BY <1>2, InterfereBy, AsideBy DEF StandsBy
<1>3. CASE PassStep \/ LoadStep \/ LookStep \/ StartWrapped \/ StartByHand \/ Crash \/ Skip
  BY <1>1, <1>3 DEF PassStep, LoadStep, LookStep, Others, StartWrapped, StartByHand, Crash, Skip
<1>4. ASSUME NEW x, NEW shape \in Shapes, cluster' = [cluster EXCEPT ![x] = Becomes(@, shape)]
      PROVE  Older(cluster[o], cluster'[o])
  BY <1>1, <1>4, BecomesOlder
<1>5. CASE WriteStep
  <2>1. \A content : Written(content) \in Shapes
    BY WrittenType DEF Shapes
  <2>2. QED
    BY <1>1, <1>4, <1>5, <2>1 DEF WriteStep
<1>6. CASE CallByHand
  <2>1. \A content : \A exact \in BOOLEAN :
           (IF exact THEN Written(content) ELSE "absent") \in Shapes
    BY WrittenType DEF Shapes
  <2>2. QED
    BY <1>1, <1>4, <1>6, <2>1 DEF CallByHand
<1>7. QED
  BY <1>2, <1>3, <1>5, <1>6, StepKinds

LEMMA SameLane ==
    ASSUME TInv, [Next]_vars
    PROVE  UNCHANGED lane
<1>1. CASE UNCHANGED vars
  BY <1>1 DEF vars
<1>2. CASE Next
  BY <1>2, StepKinds
     DEF StartWrapped, StartByHand, Crash, Skip, PassStep, LoadStep, LookStep, WriteStep, Others,
         CallByHand, Interfere, Materialize, EditFile, WrapperEnds
<1>3. QED
  BY <1>1, <1>2

LEMMA NextBorn ==
    ASSUME TInv, TInv', Born, [Next]_vars
    PROVE  Born'
<1>1. UNCHANGED lane
  BY SameLane
<1>2. ASSUME NEW o \in Objects(lane)
      PROVE  Older(Unread, cluster'[o])
  <2>1. cluster[o] \in Live /\ cluster'[o] \in Live /\ Unread \in Live
    BY <1>1 DEF TInv, TypeOK, Unread, Live, Shapes
  <2>2. QED
    BY <2>1, NothingYounger, OlderTrans DEF Born
<1>3. QED
  BY <1>1, <1>2 DEF Born

LEMMA NextEvident == EInv /\ [Next]_vars => EInv'
<1> SUFFICES ASSUME EInv, [Next]_vars PROVE EInv'
  OBVIOUS
<1>1. TInv /\ TInv' /\ Born'
  BY NextTyped, NextBorn DEF EInv
<1>2. CASE ~Sound'
  BY <1>1, <1>2 DEF EInv, Evidence, Aged, Evident, Current, Fresh, Hashed, Righted, Ended
<1>3. CASE Sound'
  <2>1. CASE Begins \/ GoesPast \/ StandsBy
    BY <1>1, <1>3, <2>1, BeginsKept, PastKept, StandsKept, NextEnded DEF EInv
  <2>2. ASSUME NEW p \in Plays, LooksAt(p) \/ WritesAt(p)
        PROVE  EInv'
    BY <1>1, <1>3, <2>2, LooksKept, WritesKept, NextEnded DEF EInv
  <2>3. QED
    BY <1>1, <1>3, <2>1, <2>2, SoundSteps
<1>4. QED
  BY <1>2, <1>3

LEMMA InitEvident == Init => EInv
<1> SUFFICES ASSUME Init PROVE EInv
  OBVIOUS
<1>1. TInv /\ play = NoPlay(lane)
  BY InitTyped DEF Init
<1>2. ~Sound
  BY <1>1 DEF NoPlay, Sound
<1>3. Born
  <2>1. \A o, shape : Older(Unread, Initially(o, shape))
    BY DEF Older, Initially, Unread
  <2>2. QED
    BY <2>1 DEF Init, Born
<1>4. QED
  BY <1>1, <1>2, <1>3 DEF EInv, Evidence, Aged, Evident, Current, Fresh, Hashed, Righted, Ended

---------------------------------------------------------------------------
(* The properties.                                                         *)

LEMMA ShownHolds ==
    ASSUME EInv, Sound, NEW o \in Objects(lane), NEW i \in Nat, i = play.pc,
           NEW tasks, NEW looks, Shown(lane, o, i, tasks, looks),
           \A do \in tasks : Undoing(do) \subseteq looks,
           \A t \in DOMAIN lane.script : t = i => lane.script[t].do \notin looks,
           i <= Len(lane.script) + 1
    PROVE  \E do \in tasks : Holds(do, o)
<1>1. /\ DOMAIN lane.script = 1 .. Len(lane.script) /\ Len(lane.script) \in Nat
  BY ScriptDomain DEF EInv
<1>2. PICK a \in 1 .. i - 1 : /\ Handles(lane, a, tasks, o)
                              /\ \A t \in a + 1 .. i - 1 : ~Handles(lane, t, looks, o)
  BY DEF Shown
<1>3. a \in DOMAIN lane.script /\ a < play.pc /\ a \in Nat
  BY <1>1, <1>2
<1>4. DoneAt(a, o)
  BY <1>2, <1>3 DEF DoneAt, Handles, On
<1>5. Kept(a, o)
  <2> SUFFICES ASSUME NEW t \in DOMAIN lane.script, a < t, t <= play.pc,
                      Handles(lane, t, Undoing(lane.script[a].do), o)
               PROVE  FALSE
    BY DEF Kept
  <2>1. Handles(lane, t, looks, o)
    BY <1>2 DEF Handles
  <2>2. t # i
    BY <2>1 DEF Handles
  <2>3. t \in a + 1 .. i - 1
    BY <1>1, <1>3, <2>2
  <2>4. QED
    BY <1>2, <2>1, <2>3
<1>6. Holds(lane.script[a].do, o)
  BY <1>3, <1>4, <1>5 DEF EInv, Evidence, Evident
<1>7. QED
  BY <1>2, <1>6 DEF Handles

LEMMA ShownAtWrite ==
    ASSUME EInv, Sound, InTask, Task.do \in Writing, NEW o \in Objects(lane),
           NEW tasks, NEW looks, Shown(lane, o, play.pc, tasks, looks),
           \A do \in tasks : Undoing(do) \subseteq looks, looks \subseteq Reading
    PROVE  \E do \in tasks : Holds(do, o)
<1>1. /\ DOMAIN lane.script = 1 .. Len(lane.script) /\ Len(lane.script) \in Nat
      /\ play.pc \in DOMAIN lane.script /\ play.pc \in Nat
  BY ScriptDomain, PlayFields DEF EInv, InTask
<1> DEFINE i == play.pc
<1>2. \A t \in DOMAIN lane.script : t = i => lane.script[t].do \notin looks
  BY Undoings DEF Task
<1>3. i \in Nat /\ i <= Len(lane.script) + 1 /\ i = play.pc /\ Shown(lane, o, i, tasks, looks)
  BY <1>1
<1> HIDE DEF i
<1>4. QED
  BY <1>2, <1>3, ShownHolds

(* What was read and not looked at again is still the last look.           *)
LEMMA UnseenAtWrite ==
    ASSUME EInv, Sound, InTask, Task.do \in Writing, NEW o \in Objects(lane),
           Shown(lane, o, play.pc, {"read"}, Reading)
    PROVE  play.again[o] = play.seen[o]
<1>1. DOMAIN lane.script = 1 .. Len(lane.script) /\ play.pc \in DOMAIN lane.script
  BY ScriptDomain DEF EInv, InTask
<1>2. PICK r \in 1 .. play.pc - 1 :
         /\ Handles(lane, r, {"read"}, o)
         /\ \A t \in r + 1 .. play.pc - 1 : ~Handles(lane, t, Reading, o)
  BY DEF Shown
<1>3. r \in DOMAIN lane.script /\ r < play.pc
  BY <1>1, <1>2
<1>4. DoneAt(r, o) /\ lane.script[r].do = "read"
  BY <1>2, <1>3 DEF DoneAt, Handles, On
<1>5. UnseenSince(r, o)
  <2> SUFFICES ASSUME NEW t \in DOMAIN lane.script, r < t, t <= play.pc,
                      Handles(lane, t, Reading, o)
               PROVE  FALSE
    BY DEF UnseenSince
  <2>1. t # play.pc
    BY Undoings DEF Handles, Task
  <2>2. QED
    BY <1>1, <1>2, <1>3, <2>1
<1>6. QED
  BY <1>3, <1>4, <1>5 DEF EInv, Evidence, Fresh

LEMMA AsAcceptedBy ==
    ASSUME EInv, Sound, NEW o \in Objects(lane), play.seen[o].shape \in {"absent", "ours"},
           SameVersion(cluster[o], play.seen[o])
    PROVE  /\ AsAccepted(o)
           /\ There(play.seen[o]) => cluster[o] = play.seen[o]
<1>1. Older(play.seen[o], cluster[o])
  BY DEF EInv, Evidence, Aged
<1>2. QED
  BY <1>1 DEF Older, SameVersion, SameIdentity, There, AsAccepted

LEMMA SameVersionSym ==
    ASSUME NEW x, NEW y, SameVersion(x, y)
    PROVE  SameVersion(y, x)
  BY DEF SameVersion, SameIdentity, There

LEMMA GrantOrdered ==
    ASSUME EInv, [Next]_vars, PlayWrites("rbac"), Staged(lane),
           NEW o \in Objects(lane) \ {"rbac"}, cluster[o] = play.again[o]
    PROVE  InOrder(o)
<1>1. /\ TInv /\ Next /\ lane \in Lanes /\ "rbac" \in Own(lane) /\ "rbac" \in Objects(lane)
  BY OwnObjects DEF PlayWrites, vars, EInv, TInv, TypeOK
<1>2. Sealed(lane)
  BY <1>1, ScriptAssumption
<1>3. play.kind = "role" /\ ~play.skipped
  BY <1>1, <1>2, BypassNothing
<1>4. WriteStep /\ Item = "rbac"
  BY <1>1, <1>3, WriteOrigin
<1>5. InTask /\ Task.do \in Writing /\ Sound
  BY <1>3, <1>4 DEF WriteStep, InTask, Running, Sound
<1>6. play.pc \in DOMAIN lane.script /\ Handles(lane, play.pc, Writing, "rbac")
  BY <1>1, <1>4, <1>5, ItemFacts DEF InTask, Handles, Task
<1>7. GrantPrepared(lane, o, play.pc)
  BY <1>1, <1>6, ScriptAssumption
<1>8. o \in Objects(lane)
  OBVIOUS
<1>9. CASE o = "policy"
  <2>1. Shown(lane, o, play.pc, {"waitPresent", "waitExact", "inEffect"}, Reading)
    BY <1>7, <1>9 DEF GrantPrepared
  <2>2. \E do \in {"waitPresent", "waitExact", "inEffect"} : Holds(do, o)
    BY <1>5, <1>8, <2>1, ShownAtWrite, Undoings
  <2>3. There(play.again[o])
    BY <2>2 DEF Holds, There
  <2>4. QED
    BY <1>9, <2>3 DEF InOrder
<1>10. CASE o = "binding"
  <2>1. Shown(lane, o, play.pc, {"waitExact", "inEffect"}, Reading)
    BY <1>7, <1>10 DEF GrantPrepared
  <2>2. \E do \in {"waitExact", "inEffect"} : Holds(do, o)
    BY <1>5, <1>8, <2>1, ShownAtWrite, Undoings
  <2>3. play.again[o].shape = "ours"
    BY <2>2 DEF Holds
  <2>4. QED
    BY <1>10, <2>3 DEF InOrder
<1>11. CASE o = "alternate"
  <2>1. Shown(lane, o, play.pc, {"none"}, Reading)
    BY <1>7, <1>11 DEF GrantPrepared
  <2>2. \E do \in {"none"} : Holds(do, o)
    BY <1>5, <1>8, <2>1, ShownAtWrite, Undoings
  <2>3. ~There(play.again[o])
    BY <2>2 DEF Holds
  <2>4. QED
    BY <1>11, <2>3 DEF InOrder
<1>12. CASE o = "target"
  <2>1. /\ Shown(lane, o, play.pc, {"acceptExact"}, Keeping)
        /\ Shown(lane, o, play.pc, {"sameVersion"}, Reading)
    BY <1>7, <1>12 DEF GrantPrepared, AcceptedBy
  <2>2. \E do \in {"acceptExact"} : Holds(do, o)
    BY <1>5, <1>8, <2>1, ShownAtWrite, Undoings
  <2>3. \E do \in {"sameVersion"} : Holds(do, o)
    BY <1>5, <1>8, <2>1, ShownAtWrite, Undoings
  <2>4. play.seen[o].shape \in {"absent", "ours"} /\ SameVersion(play.seen[o], play.again[o])
    BY <2>2, <2>3 DEF Holds
  <2>5. AsAccepted(o)
    BY <1>5, <1>8, <2>4, SameVersionSym, AsAcceptedBy
  <2>6. QED
    BY <1>12, <2>5 DEF InOrder
<1>13. CASE o = "credential"
  <2> SUFFICES ASSUME There(cluster[o]) PROVE AsAccepted(o)
    BY <1>13 DEF InOrder
  <2>1. /\ Shown(lane, o, play.pc, {"acceptOurs"}, Keeping)
        /\ Shown(lane, o, play.pc, {"read"}, Keeping \cup {"inventory"})
        /\ Shown(lane, o, play.pc, {"sameInventory"}, Reading)
    BY <1>7, <1>13 DEF GrantPrepared, AcceptedBy
  <2>2. \E do \in {"acceptOurs"} : Holds(do, o)
    BY <1>5, <1>8, <2>1, ShownAtWrite, Undoings
  <2>3. \E do \in {"read"} : Holds(do, o)
    BY <1>5, <1>8, <2>1, ShownAtWrite, Undoings
  <2>4. \E do \in {"sameInventory"} : Holds(do, o)
    BY <1>5, <1>8, <2>1, ShownAtWrite, Undoings
  <2>5. /\ play.seen[o].shape = "ours" /\ play.first[o].rev <= play.seen[o].rev
        /\ SameVersion(play.first[o], cluster[o])
    BY <2>2, <2>3, <2>4 DEF Holds
  <2>6. Older(play.seen[o], cluster[o])
    BY <1>5, <1>8 DEF EInv, Evidence, Aged
  <2>7. play.first[o].rev = cluster[o].rev
    BY <2>5 DEF SameVersion, SameIdentity
  <2>8. /\ play.seen[o].rev \in Nat /\ cluster[o].rev \in Nat /\ There(play.seen[o])
    BY <1>1, <1>8, <2>5, PlayFields DEF There, Live, TInv, TypeOK
  <2>9. cluster[o] = play.seen[o]
    BY <2>5, <2>6, <2>7, <2>8 DEF Older
  <2>10. QED
    BY <2>5, <2>9 DEF AsAccepted, SameVersion, SameIdentity
<1>14. CASE o \notin {"policy", "binding", "alternate", "target", "credential"}
  <2>1. ASSUME Shown(lane, o, play.pc, {"sameVersion", "sameIdentity"}, Reading)
        PROVE  SameIdentity(play.seen[o], play.again[o])
    <3>1. \E do \in {"sameVersion", "sameIdentity"} : Holds(do, o)
      BY <1>5, <1>8, <2>1, ShownAtWrite, Undoings
    <3>2. QED
      BY <3>1 DEF Holds, SameVersion
  <2>2. ASSUME Shown(lane, o, play.pc, {"read"}, Reading)
        PROVE  SameIdentity(play.seen[o], play.again[o])
    <3>1. play.again[o] = play.seen[o]
      BY <1>5, <1>8, <2>2, UnseenAtWrite
    <3>2. QED
      BY <3>1 DEF SameIdentity
  <2>3. SameIdentity(play.seen[o], play.again[o])
    BY <1>7, <1>14, <2>1, <2>2 DEF GrantPrepared
  <2>4. SameIdentity(cluster[o], play.seen[o])
    BY <2>3 DEF SameIdentity, There
  <2>5. QED
    BY <1>14, <2>4 DEF InOrder
<1>15. QED
  BY <1>9, <1>10, <1>11, <1>12, <1>13, <1>14

LEMMA CreateOnly ==
    ASSUME TInv, Next, NEW o \in Objects(lane), PlayWrites(o), At("create")
    PROVE  Create
<1>1. /\ InTask /\ Task.do = "create" /\ play.kind = "role" /\ Running
      /\ cluster' # cluster /\ o \in Own(lane) /\ cluster'[o] # cluster[o]
      /\ spent'.interference = spent.interference
  BY DEF At, InTask, PlayWrites
<1>2. ~(StartWrapped \/ StartByHand \/ Crash \/ WrapperEnds \/ Skip \/ EditFile \/ CallByHand)
  BY <1>1 DEF StartWrapped, StartByHand, Crash, WrapperEnds, Skip, EditFile, CallByHand
<1>3. ASSUME Interfere PROVE FALSE
  <2>1. spent.interference \in Nat
    BY DEF TInv, TypeOK
  <2>2. spent'.interference = spent.interference + 1
    BY <1>3, InterfereFacts
  <2>3. QED
    BY <1>1, <2>1, <2>2
<1>4. ~Materialize
  <2>1. o # "target"
    BY <1>1, LaneAssumption DEF TInv, TypeOK
  <2>2. QED
    BY <1>1, <2>1, MaterializeFacts
<1>5. ~(Gate \/ Accept \/ Recheck \/ Observe)
  <2>1. ~(PassStep \/ LoadStep \/ LookStep)
    BY <1>1 DEF PassStep, LoadStep, LookStep, Others
  <2>2. QED
    BY <2>1, GatePasses, AcceptPasses, RecheckPasses, BindLoads, ObserveLooks DEF Gate
<1>6. Mutate
  BY <1>2, <1>3, <1>4, <1>5 DEF Next
<1>7. ~(Apply \/ ApplyWhen \/ Swap)
  BY <1>1 DEF Apply, ApplyWhen, Swap, At
<1>8. QED
  BY <1>6, <1>7 DEF Mutate

LEMMA CreateOnce ==
    ASSUME EInv, [Next]_vars, NEW o \in Objects(lane), PlayWrites(o), At("create")
    PROVE  /\ cluster[o] = play.again[o] => ~There(cluster[o])
           /\ cluster["credential"] = play.again["credential"] =>
                 There(cluster["credential"]) /\ AsAccepted("credential")
<1>1. TInv /\ Next /\ lane \in Lanes /\ InTask /\ Task.do = "create" /\ play.kind = "role"
  BY DEF PlayWrites, vars, EInv, TInv, TypeOK, At, InTask
<1>2. WriteStep /\ o = Item /\ Permits(o, Definition(o), TRUE)
  BY <1>1, WriteOrigin
<1>3. /\ play.pc \in DOMAIN lane.script /\ lane.script[play.pc].do = "create"
      /\ o \in Elements(lane.script[play.pc].on) /\ Task.do \in Writing
  BY <1>1, <1>2, ItemFacts DEF InTask, Task, Writing
<1>4. Sealed(lane) /\ CreatePrepared(lane, o, play.pc)
  BY <1>1, <1>3, ScriptAssumption
<1>5. Sound
  BY <1>1, <1>2, <1>4, PermitFacts DEF Sound, Sealed, InTask, Running, TInv, Selected
<1>6. ~There(play.seen[o])
  <2>1. Create
    BY <1>1, CreateOnly
  <2>2. cluster' # cluster
    BY DEF PlayWrites
  <2>3. QED
    BY <1>2, <2>1, <2>2 DEF Create, PassOver
<1>7. ~There(play.again[o])
  <2>1. Shown(lane, o, play.pc, {"sameSpec"}, Reading)
    BY <1>4 DEF CreatePrepared
  <2>2. \E do \in {"sameSpec"} : Holds(do, o)
    BY <1>1, <1>3, <1>5, <2>1, ShownAtWrite, Undoings
  <2>3. QED
    BY <1>6, <2>2 DEF Holds, SameIdentity
<1>8. ASSUME cluster["credential"] = play.again["credential"]
      PROVE  There(cluster["credential"]) /\ AsAccepted("credential")
  <2>1. /\ "credential" \in Objects(lane)
        /\ Shown(lane, "credential", play.pc, {"acceptOurs"}, Keeping)
        /\ Shown(lane, "credential", play.pc, {"sameVersion"}, Reading)
    BY <1>4 DEF CreatePrepared, AcceptedBy
  <2>2. \E do \in {"acceptOurs"} : Holds(do, "credential")
    BY <1>1, <1>3, <1>5, <2>1, ShownAtWrite, Undoings
  <2>3. \E do \in {"sameVersion"} : Holds(do, "credential")
    BY <1>1, <1>3, <1>5, <2>1, ShownAtWrite, Undoings
  <2>4. /\ play.seen["credential"].shape = "ours"
        /\ SameVersion(play.seen["credential"], cluster["credential"])
    BY <1>8, <2>2, <2>3 DEF Holds
  <2>5. AsAccepted("credential") /\ cluster["credential"] = play.seen["credential"]
    BY <1>5, <2>1, <2>4, SameVersionSym, AsAcceptedBy DEF There
  <2>6. QED
    BY <2>4, <2>5 DEF There
<1>9. QED
  BY <1>7, <1>8

LEMMA EndsComplete ==
    ASSUME EInv, play.outcome = "done", play.kind = "role", ~play.skipped,
           play.touched = {}, NEW o \in Own(lane)
    PROVE  cluster[o].shape = "ours" \/ LetThrough(o)
<1>1. /\ TInv /\ lane \in Lanes /\ Sound /\ o \in Objects(lane)
      /\ DOMAIN lane.script = 1 .. Len(lane.script) /\ Len(lane.script) \in Nat
      /\ play.pc = Len(lane.script) + 1
  BY ScriptDomain, OwnObjects DEF EInv, TInv, TypeOK, Sound, Ended
<1> DEFINE end == Len(lane.script) + 1
<1>2. Completed(lane, o)
  BY <1>1, ScriptAssumption
<1>3. ASSUME NEW a \in DOMAIN lane.script, Repairs(lane, a, o)
      PROVE  cluster[o].shape = "ours" \/ LetThrough(o)
  <2>1. a < play.pc /\ a # play.pc
    BY <1>1
  <2>2. DoneAt(a, o)
    BY <1>3, <2>1 DEF DoneAt, Repairs, Handles, On
  <2>3. QED
    BY <1>1, <1>3, <2>1, <2>2 DEF EInv, Evidence, Righted
<1>4. CASE /\ Shown(lane, o, end, {"verifyExact"}, Reading)
           /\ Shown(lane, o, end, {"look"}, Writing)
  <2>1. end \in Nat /\ end <= Len(lane.script) + 1 /\ end = play.pc
    BY <1>1
  <2>2. \A t \in DOMAIN lane.script : t = end => lane.script[t].do \notin Reading
    BY <1>1
  <2>3. PICK r \in 1 .. end - 1 : /\ Handles(lane, r, {"look"}, o)
                                  /\ \A t \in r + 1 .. end - 1 : ~Handles(lane, t, Writing, o)
    BY <1>4 DEF Shown
  <2>4. r \in DOMAIN lane.script /\ r < play.pc
    BY <1>1, <2>3
  <2>5. DoneAt(r, o) /\ lane.script[r].do = "look"
    BY <2>3, <2>4 DEF DoneAt, Handles, On
  <2>6. Unwritten(r, o)
    BY <1>1, <2>3 DEF Unwritten
  <2>7. play.again[o] = cluster[o]
    <3>1. o \in Objects(lane) \ (play.touched \cup {"target"})
      BY <1>1, LaneAssumption
    <3>2. AsThere(lane.script[r].do, o)
      BY <1>1, <2>4, <2>5, <2>6, <3>1 DEF EInv, Evidence, Current
    <3>3. QED
      BY <2>5, <3>2 DEF AsThere, Reading
  <2> HIDE DEF end
  <2>8. \E do \in {"verifyExact"} : Holds(do, o)
    BY <1>1, <1>4, <2>1, <2>2, ShownHolds, Undoings
  <2>9. QED
    BY <2>7, <2>8 DEF Holds
<1>5. QED
  BY <1>2, <1>3, <1>4 DEF Completed

(* A writer gets its rights only over what the role saw to be in order.    *)
THEOREM GrantInOrderHolds == Spec => GrantInOrder
<1>1. EInv /\ [Next]_vars =>
        [PlayWrites("rbac") /\ Staged(lane) =>
           \A o \in Objects(lane) \ {"rbac"} : cluster[o] = play.again[o] => InOrder(o)]_vars
  BY GrantOrdered
<1>2. QED
  BY <1>1, InitEvident, NextEvident, PTL DEF Spec, GrantInOrder

(* A source that is only ever created is not written over one that the     *)
(* last look found there, nor without the credential that was accepted.    *)
THEOREM CreatedOnceHolds == Spec => CreatedOnce
<1>1. EInv /\ [Next]_vars =>
        [\A o \in Objects(lane) : PlayWrites(o) /\ At("create") =>
           /\ cluster[o] = play.again[o] => ~There(cluster[o])
           /\ cluster["credential"] = play.again["credential"] =>
                 There(cluster["credential"]) /\ AsAccepted("credential")]_vars
  BY CreateOnce
<1>2. QED
  BY <1>1, InitEvident, NextEvident, PTL DEF Spec, CreatedOnce

(* A play that ends well with every task run, nobody else at work, leaves  *)
(* all of its objects as reviewed, but, in the lane that goes by the       *)
(* checkout, for one whose manifest was edited while it ran.               *)
THEOREM DoneIsCompleteHolds == Spec => []DoneIsComplete
<1>1. EInv => DoneIsComplete
  BY EndsComplete DEF DoneIsComplete
<1>2. QED
  BY <1>1, InitEvident, NextEvident, PTL DEF Spec

---------------------------------------------------------------------------
(* Refusals.                                                               *)

(* Others at work are counted, and the count does not go back.             *)
LEMMA InterferenceCounted ==
    ASSUME TInv, [Next]_vars
    PROVE  /\ spent.interference \in Nat
           /\ Interfere \/ spent'.interference = spent.interference
           /\ spent'.interference = 0 => spent.interference = 0 /\ ~Interfere
<1>1. /\ spent.interference \in Nat
      /\ spent \in [plays : Nat, interference : Nat, edits : Nat, faults : Nat, byHand : Nat]
  BY DEF TInv, TypeOK
<1>2. ASSUME StartWrapped \/ StartByHand \/ EditFile
      PROVE  spent'.interference = spent.interference
  BY <1>1, <1>2 DEF StartWrapped, StartByHand, EditFile
<1>3. WriteStep => spent'.interference = spent.interference
  BY DEF WriteStep
<1>4. ASSUME \/ Crash \/ Skip \/ PassStep \/ LoadStep \/ LookStep \/ CallByHand
             \/ Materialize \/ WrapperEnds \/ UNCHANGED vars
      PROVE  spent' = spent
  BY <1>4 DEF Crash, Skip, PassStep, LoadStep, LookStep, Others, CallByHand, Materialize,
     WrapperEnds, vars
<1>5. Interfere \/ spent'.interference = spent.interference
  BY <1>2, <1>3, <1>4, StepKinds
<1>6. Interfere => spent'.interference = spent.interference + 1
  BY InterfereFacts
<1>7. QED
  BY <1>1, <1>5, <1>6

(* An object that is changed otherwise is the lane's, changed by the play, *)
(* or the target the operator writes.                                      *)
LEMMA ChangedBy ==
    ASSUME TInv, [Next]_vars, ~Interfere, NEW o \in Objects(lane), cluster'[o] # cluster[o]
    PROVE  PlayWrites(o) \/ (Materialize /\ o = "target")
<1>1. /\ Next /\ spent'.interference = spent.interference
      /\ cluster \in [Objects(lane) -> Live]
  BY InterferenceCounted DEF vars, TInv, TypeOK
<1>2. CASE o \in Own(lane)
  BY <1>1, <1>2 DEF PlayWrites
<1>3. CASE o \notin Own(lane)
  <2>1. ~(StartWrapped \/ StartByHand \/ Crash \/ Skip \/ PassStep \/ LoadStep \/ LookStep
          \/ EditFile \/ WrapperEnds)
    BY DEF StartWrapped, StartByHand, Crash, Skip, PassStep, LoadStep, LookStep, Others,
       EditFile, WrapperEnds
  <2>2. ~WriteStep
    <3> SUFFICES ASSUME WriteStep PROVE FALSE
      OBVIOUS
    <3>1. Item \in Own(lane)
      BY ItemFacts DEF WriteStep
    <3>2. QED
      BY <1>1, <1>3, <3>1 DEF WriteStep
  <2>3. ~CallByHand
    BY <1>1, <1>3 DEF CallByHand
  <2>4. Materialize
    BY <1>1, <2>1, <2>2, <2>3, StepKinds
  <2>5. QED
    BY <1>1, <2>4, MaterializeFacts
<1>4. QED
  BY <1>2, <1>3

LEMMA TouchedKept ==
    ASSUME TInv, [Next]_vars, ~Interfere, play.touched = {}
    PROVE  play'.touched = {}
<1>1. play \in Plays
  BY DEF TInv, TypeOK
<1>2. CASE StartWrapped \/ StartByHand
  BY <1>2, StartBegins DEF Begins
<1>3. CASE Crash
  <2>1. NoPlay(lane) \in Plays
    BY FreshType DEF TInv, TypeOK
  <2>2. NoPlay(lane).touched = {}
    BY DEF NoPlay
  <2>3. play' = [NoPlay(lane) EXCEPT !.outcome = "crashed"]
    BY <1>3 DEF Crash, Stopped
  <2>4. QED
    BY <2>1, <2>2, <2>3 DEF Plays
<1>4. /\ Moved(play) \in Plays /\ Moved(play).touched = {}
      /\ \A outcome \in Outcomes : Stopped(play, outcome).touched = {}
  BY <1>1, MovedFacts, MovedLooks, StoppedFacts DEF Looks, Stopped, Plays
<1>5. CASE Skip
  <2> DEFINE q == Moved(play)
  <2>1. play' = [q EXCEPT !.skipped = TRUE] /\ q \in Plays /\ q.touched = {}
    BY <1>4, <1>5 DEF Skip
  <2> HIDE DEF q
  <2>2. QED
    BY <2>1 DEF Plays
<1>6. CASE PassStep
  BY <1>4, <1>6 DEF PassStep, Outcomes
<1>7. CASE LoadStep
  <2> DEFINE q == Moved(play)
             held == [o \in Objects(lane) |-> IF o \in Own(lane) THEN files[o] ELSE "none"]
  <2>1. /\ q \in Plays /\ q.touched = {}
        /\ \/ play' = q
           \/ play' = [q EXCEPT !.bound = TRUE]
           \/ play' = [q EXCEPT !.loaded = held]
    BY <1>4, <1>7 DEF LoadStep
  <2> HIDE DEF q, held
  <2>2. QED
    BY <2>1 DEF Plays
<1>8. ASSUME NEW p \in Plays, p.item = play.item, p.touched = {}, play' = Looped(p)
      PROVE  play'.touched = {}
  BY <1>8, LoopedLooks DEF Looks
<1>9. CASE LookStep
  <2>1. CASE play' = Stopped(play, "failed")
    BY <1>4, <2>1 DEF Outcomes
  <2>2. ASSUME NEW seen \in [Objects(lane) -> Live], NEW first \in [Objects(lane) -> Live],
               NEW again \in [Objects(lane) -> Live],
               play' = Looped([play EXCEPT !.seen = seen, !.first = first, !.again = again])
        PROVE  play'.touched = {}
    <3> DEFINE p == [play EXCEPT !.seen = seen, !.first = first, !.again = again]
    <3>1. p \in Plays /\ p.item = play.item /\ p.touched = {}
      BY <1>1 DEF Plays
    <3> HIDE DEF p
    <3>2. QED
      BY <1>8, <2>2, <3>1 DEF p
  <2>3. QED
    BY <1>9, <2>1, <2>2 DEF LookStep
<1>10. CASE WriteStep
  <2> DEFINE p == [play EXCEPT !.failed = TRUE]
  <2>1. p \in Plays /\ p.item = play.item /\ p.touched = {}
    BY <1>1 DEF Plays
  <2>2. play' = Looped(play) \/ play' = Looped(p)
    BY <1>10 DEF WriteStep
  <2> HIDE DEF p
  <2>3. QED
    BY <1>1, <1>8, <2>1, <2>2
<1>11. CASE CallByHand
  BY <1>4, <1>11 DEF CallByHand, Outcomes
<1>12. CASE UNCHANGED play
  BY <1>12
<1>13. CASE Materialize \/ EditFile \/ WrapperEnds \/ UNCHANGED vars
  BY <1>1, <1>12, <1>13, EditUnmoved DEF Unmoved, Materialize, WrapperEnds, vars
<1>14. QED
  BY <1>2, <1>3, <1>5, <1>6, <1>7, <1>9, <1>10, <1>11, <1>13, StepKinds

LEMMA NextCalm ==
    ASSUME TInv, [Next]_vars, ~Interfere, Calm
    PROVE  Calm'
<1>1. UNCHANGED lane /\ play'.touched = {} /\ "target" \notin {"credential", "alternate", "corefile"}
  BY SameLane, TouchedKept DEF Calm
<1>2. ASSUME NEW o \in {"credential", "alternate"}, o \in Objects(lane)
      PROVE  cluster'[o] = cluster[o]
  <2>1. o \notin Own(lane)
    BY <1>2, ScriptAssumption DEF TInv, TypeOK
  <2>2. QED
    BY <1>1, <1>2, <2>1, ChangedBy DEF PlayWrites
<1>3. ASSUME "corefile" \in Objects(lane)
      PROVE  There(cluster'["corefile"])
  <2>1. CASE cluster'["corefile"] = cluster["corefile"]
    BY <1>3, <2>1 DEF Calm
  <2>2. CASE cluster'["corefile"] # cluster["corefile"]
    <3>1. PlayWrites("corefile")
      BY <1>1, <1>3, <2>2, ChangedBy
    <3>2. QED
      BY <1>3, <3>1, WriteReviewed DEF There
  <2>3. QED
    BY <2>1, <2>2
<1>4. QED
  BY <1>1, <1>2, <1>3 DEF Calm

(* A task whose object was looked at since it was last written goes by     *)
(* what is there.                                                          *)
LEMMA ShownThere ==
    ASSUME EInv, Sound, InTask, Task.do \notin Writing,
           NEW o \in Objects(lane) \ (play.touched \cup {"target"}),
           NEW tasks, Shown(lane, o, play.pc, tasks, Writing)
    PROVE  \E do \in tasks : AsThere(do, o)
<1>1. /\ DOMAIN lane.script = 1 .. Len(lane.script) /\ Len(lane.script) \in Nat
      /\ play.pc \in DOMAIN lane.script /\ play.pc \in Nat
  BY ScriptDomain, PlayFields DEF EInv, InTask
<1>2. PICK r \in 1 .. play.pc - 1 :
         /\ Handles(lane, r, tasks, o)
         /\ \A t \in r + 1 .. play.pc - 1 : ~Handles(lane, t, Writing, o)
  BY DEF Shown
<1>3. r \in DOMAIN lane.script /\ r < play.pc /\ r \in Nat
  BY <1>1, <1>2
<1>4. DoneAt(r, o)
  BY <1>2, <1>3 DEF DoneAt, Handles, On
<1>5. Unwritten(r, o)
  <2> SUFFICES ASSUME NEW t \in DOMAIN lane.script, r < t, Handles(lane, t, Writing, o),
                      DoneAt(t, o)
               PROVE  FALSE
    BY DEF Unwritten
  <2>1. t < play.pc
    <3>1. t # play.pc
      BY DEF Handles, Task
    <3>2. QED
      BY <3>1, DoneBehind
  <2>2. t \in r + 1 .. play.pc - 1
    BY <1>1, <1>3, <2>1
  <2>3. QED
    BY <1>2, <2>2
<1>6. AsThere(lane.script[r].do, o)
  BY <1>3, <1>4, <1>5 DEF EInv, Evidence, Current
<1>7. QED
  BY <1>2, <1>6 DEF Handles

LEMMA KeptThere ==
    ASSUME EInv, Sound, InTask, Task.do \notin Writing,
           NEW o \in Objects(lane) \ (play.touched \cup {"target"}),
           Shown(lane, o, play.pc, Keeping, Writing)
    PROVE  play.seen[o] = cluster[o]
  BY ShownThere DEF AsThere

LEMMA LastThere ==
    ASSUME EInv, Sound, InTask, Task.do \notin Writing,
           NEW o \in Objects(lane) \ (play.touched \cup {"target"}),
           Shown(lane, o, play.pc, Reading, Writing)
    PROVE  play.again[o] = cluster[o]
  BY ShownThere DEF AsThere

(* What the tables say of the task at hand.                                *)
LEMMA TaskAnswers ==
    ASSUME TInv, InTask
    PROVE  /\ play.pc \in DOMAIN lane.script /\ Task.do = lane.script[play.pc].do
           /\ Elements(Task.on) \subseteq Objects(lane)
           /\ \A o \in Elements(Task.on) : Answerable(lane, o, play.pc)
           /\ Staged(lane) => Own(lane) # {} /\ TargetFirst(lane, play.pc)
           /\ "target" \notin Own(lane)
<1>1. lane \in Lanes /\ play.pc \in DOMAIN lane.script
  BY DEF TInv, TypeOK, InTask
<1>2. Task = lane.script[play.pc]
  BY DEF Task
<1>3. /\ \A o \in Elements(lane.script[play.pc].on) : Answerable(lane, o, play.pc)
      /\ Staged(lane) => Own(lane) # {} /\ TargetFirst(lane, play.pc)
  BY <1>1, ScriptAssumption
<1>4. "target" \notin Own(lane)
  BY <1>1, LaneAssumption
<1>5. Task.on \in Seq(Objects(lane))
  BY TaskFacts DEF TInv
<1>6. Elements(Task.on) \subseteq Objects(lane)
  BY <1>5 DEF Elements
<1>7. QED
  BY <1>1, <1>2, <1>3, <1>4, <1>6

(* What was read of the target before any write is there.                  *)
LEMMA TargetIsRead ==
    ASSUME TInv, InTask, Shown(lane, "target", play.pc, Keeping, Writing)
    PROVE  TargetRead
<1>1. /\ DOMAIN lane.script = 1 .. Len(lane.script) /\ Len(lane.script) \in Nat
      /\ play.pc \in DOMAIN lane.script /\ play.pc \in Nat
  BY ScriptDomain, PlayFields DEF InTask
<1>2. PICK r \in 1 .. play.pc - 1 : Handles(lane, r, Keeping, "target")
  BY DEF Shown
<1>3. r \in DOMAIN lane.script /\ r < play.pc
  BY <1>1, <1>2
<1>4. QED
  BY <1>2, <1>3 DEF TargetRead, DoneAt, Handles, On

LEMMA UntakenWrite ==
    ASSUME EInv, TargetKnown, [Next]_vars, Staged(lane), NEW o \in Objects(lane), PlayWrites(o)
    PROVE  ~Alien("target")
<1>1. TInv /\ Next /\ lane \in Lanes /\ "target" \in Objects(lane)
  BY DEF PlayWrites, vars, EInv, TInv, TypeOK, Staged
<1>2. play.kind = "role" /\ ~play.skipped
  BY <1>1, BypassNothing, ScriptAssumption
<1>3. InTask /\ Task.do \in Writing
  BY <1>1, <1>2, WriteOrigin DEF WriteStep
<1>4. Sound
  BY <1>2, <1>3 DEF Sound, InTask, Running
<1>5. /\ Shown(lane, "target", play.pc, {"acceptExact"}, Keeping)
      /\ Shown(lane, "target", play.pc, Keeping, Writing)
  BY <1>1, <1>3, TaskAnswers DEF TargetFirst, AcceptedBy
<1>6. \E do \in {"acceptExact"} : Holds(do, "target")
  BY <1>1, <1>3, <1>4, <1>5, ShownAtWrite, Undoings
<1>7. play.seen["target"].shape \in {"absent", "ours"}
  BY <1>6 DEF Holds
<1>8. TargetRead
  BY <1>1, <1>3, <1>5, TargetIsRead
<1>9. QED
  BY <1>4, <1>7, <1>8 DEF TargetKnown, Alien

LEMMA NextUntaken ==
    ASSUME EInv, [Next]_vars, ~Interfere, Untaken, TargetKnown
    PROVE  Untaken'
<1>1. TInv /\ UNCHANGED lane /\ Own(lane) \subseteq Objects(lane)
  BY SameLane, OwnObjects DEF EInv
<1> SUFFICES ASSUME Staged(lane), Alien("target")', NEW o \in Own(lane) PROVE Alien(o)'
  BY <1>1 DEF Untaken, Staged
<1>2. "target" \in Objects(lane) /\ "target" \notin Own(lane)
  BY <1>1, LaneAssumption DEF Staged, TInv, TypeOK
<1>3. cluster'["target"] = cluster["target"]
  <2> SUFFICES ASSUME cluster'["target"] # cluster["target"] PROVE FALSE
    OBVIOUS
  <2>1. Materialize
    BY <1>1, <1>2, ChangedBy DEF PlayWrites
  <2>2. cluster'["target"].shape = "ours"
    BY <1>1, <1>2, <2>1, ClusterType DEF Materialize, Shapes
  <2>3. QED
    BY <2>2 DEF Alien
<1>4. Alien("target") /\ Alien(o)
  BY <1>3 DEF Alien, Untaken
<1>5. cluster'[o] = cluster[o]
  BY <1>1, <1>2, <1>4, ChangedBy, UntakenWrite
<1>6. QED
  BY <1>4, <1>5 DEF Alien

LEMMA NextTargetKnown ==
    ASSUME EInv, [Next]_vars, ~Interfere, TargetKnown
    PROVE  TargetKnown'
<1>1. TInv /\ TInv' /\ UNCHANGED lane
  BY SameLane, NextTyped DEF EInv
<1> SUFFICES ASSUME Staged(lane), Sound', TargetRead'
             PROVE  \/ cluster'["target"] = play'.seen["target"]
                    \/ ~There(play'.seen["target"]) /\ cluster'["target"].shape = "ours"
  BY <1>1 DEF TargetKnown, Staged
<1>2. "target" \in Objects(lane) /\ "target" \notin Own(lane)
  BY <1>1, LaneAssumption DEF Staged, TInv, TypeOK
<1>3. ASSUME Sound, TargetRead, play'.seen = play.seen,
             \/ cluster'["target"] = cluster["target"]
             \/ ~There(cluster["target"]) /\ cluster'["target"].shape = "ours"
      PROVE  \/ cluster'["target"] = play'.seen["target"]
             \/ ~There(play'.seen["target"]) /\ cluster'["target"].shape = "ours"
  BY <1>3 DEF TargetKnown, There
<1>4. PICK r \in DOMAIN lane.script : lane.script[r].do \in Keeping /\ DoneAt(r, "target")'
  BY <1>1 DEF TargetRead
<1>5. ASSUME NEW new, Adds(new), Task.do \notin Keeping \/ "target" \notin new
      PROVE  TargetRead
  <2>1. DoneAt(r, "target") \/ (r = play.pc /\ "target" \in new)
    BY <1>2, <1>4, <1>5 DEF Adds
  <2>2. DoneAt(r, "target")
    BY <1>4, <1>5, <2>1 DEF Task
  <2>3. QED
    BY <1>4, <2>2 DEF TargetRead
<1>6. CASE Begins
  <2>1. ~(r < 1) /\ \A j \in DOMAIN lane.script[r].on : ~(j < 1)
    BY <1>1, ScriptDomain
  <2>2. QED
    BY <1>1, <1>4, <1>6, <2>1 DEF Begins, DoneAt
<1>7. CASE GoesPast
  <2>1. /\ Adds(Elements(Task.on)) /\ Sound /\ cluster' = cluster /\ play'.seen = play.seen
        /\ Task.do \notin Keeping
    BY <1>1, <1>7, PastAdds, Undoings DEF GoesPast, Looks, Sound, InTask, Running
  <2>2. QED
    BY <1>3, <1>5, <2>1
<1>8. ASSUME NEW p \in Plays, LooksAt(p) PROVE play'.seen["target"] = cluster'["target"]
                                                \/ (TargetRead /\ Sound /\ cluster' = cluster
                                                    /\ play'.seen["target"] = play.seen["target"])
  <2>1. /\ InTask /\ Task.do \in Reading /\ cluster' = cluster /\ SameButLooks(p)
        /\ play' = Looped(p)
    BY <1>8 DEF LooksAt
  <2>2. Adds({Item}) /\ Looks(play', p) /\ play'.skipped = play.skipped
    BY <1>1, <2>1, ItemAdds
  <2>3. Sound
    BY <2>1, <2>2 DEF InTask, Running, Sound
  <2>4. CASE Task.do \in Keeping /\ Item = "target"
    BY <1>8, <2>1, <2>2, <2>4 DEF LooksAt, Looks
  <2>5. CASE ~(Task.do \in Keeping /\ Item = "target")
    <3>1. TargetRead
      BY <1>5, <2>2, <2>5
    <3>2. p.seen["target"] = play.seen["target"]
      BY <1>2, <1>8, <2>5 DEF LooksAt
    <3>3. QED
      BY <2>1, <2>2, <2>3, <3>1, <3>2 DEF Looks
  <2>6. QED
    BY <2>4, <2>5
<1>9. ASSUME NEW p \in Plays, WritesAt(p) PROVE TargetRead /\ Sound /\ play'.seen = play.seen
                                                 /\ cluster'["target"] = cluster["target"]
  <2>1. /\ InTask /\ Task.do \in Writing /\ SameButLooks(p) /\ play' = Looped(p)
        /\ p.seen = play.seen /\ UNCHANGED lane
    BY <1>9 DEF WritesAt
  <2>2. Adds({Item}) /\ Looks(play', p) /\ play'.skipped = play.skipped
    BY <1>1, <2>1, ItemAdds
  <2>3. Sound
    BY <2>1, <2>2 DEF InTask, Running, Sound
  <2>4. Item # "target" /\ cluster \in [Objects(lane) -> Live]
    BY <1>1, <1>2, <2>1, ItemFacts DEF TInv, TypeOK
  <2>5. cluster'["target"] = cluster["target"]
    BY <1>2, <1>9, <2>4 DEF WritesAt
  <2>6. TargetRead
    BY <1>5, <2>2, <2>4
  <2>7. QED
    BY <2>1, <2>2, <2>3, <2>5, <2>6 DEF Looks
<1>10. CASE StandsBy
  <2>1. Sound /\ play'.seen = play.seen
    BY <1>10 DEF StandsBy, Sound
  <2>2. DoneAt(r, "target")
    BY <1>4, <1>10 DEF StandsBy, DoneAt, On
  <2>3. TargetRead
    BY <1>4, <2>2 DEF TargetRead
  <2>4. \/ cluster'["target"] = cluster["target"]
        \/ ~There(cluster["target"]) /\ cluster'["target"].shape = "ours"
    <3> SUFFICES ASSUME cluster'["target"] # cluster["target"]
                 PROVE  ~There(cluster["target"]) /\ cluster'["target"].shape = "ours"
      OBVIOUS
    <3>1. Materialize
      BY <1>1, <1>2, ChangedBy DEF PlayWrites
    <3>2. QED
      BY <1>1, <1>2, <3>1, ClusterType DEF Materialize, Shapes
  <2>5. QED
    BY <1>3, <2>1, <2>3, <2>4
<1>11. QED
  BY <1>1, <1>3, <1>6, <1>7, <1>8, <1>9, <1>10, SoundSteps DEF TargetKnown

(* A play is only refused by a task that accepts or compares.              *)
LEMMA RefusedBy ==
    ASSUME TInv, [Next]_vars, ~Interfere, play'.outcome \in {"foreign", "raced"}
    PROVE  \/ /\ play'.outcome = play.outcome /\ play'.kind = play.kind
              /\ play'.skipped = play.skipped /\ play'.seen = play.seen
              /\ \A o \in Own(lane) : cluster'[o] = cluster[o]
           \/ /\ Accept \/ Recheck
              /\ InTask /\ cluster' = cluster /\ play'.kind = play.kind
              /\ play'.skipped = play.skipped /\ play'.seen = play.seen
<1>1. play \in Plays
  BY DEF TInv, TypeOK
<1>2. ~(StartWrapped \/ StartByHand \/ Crash)
  BY StartBegins, CrashTyped DEF Begins
<1>3. Running => Moved(play).outcome \in {"running", "done"}
  BY <1>1, MovedFacts DEF Running
<1>4. \A outcome \in Outcomes : Stopped(play, outcome).outcome = outcome
  BY <1>1, StoppedFacts
<1>5. ~Skip
  <2> SUFFICES ASSUME Skip PROVE FALSE
    OBVIOUS
  <2> DEFINE q == Moved(play)
  <2>1. /\ play' = [q EXCEPT !.skipped = TRUE] /\ q \in Plays /\ q.outcome \in {"running", "done"}
    BY <1>1, <1>3, MovedFacts DEF Skip, InTask
  <2> HIDE DEF q
  <2>2. play'.outcome = q.outcome
    BY <2>1 DEF Plays
  <2>3. QED
    BY <2>1, <2>2
<1>6. ~Gate
  <2>1. ~(Reject \/ Attest \/ Hash \/ Content \/ Contract)
    BY <1>3, <1>4 DEF Reject, Attest, Hash, Content, Contract, At, Pass, InTask, Outcomes
  <2>2. ~(Load \/ Bind)
    <3> SUFFICES ASSUME Load \/ Bind PROVE FALSE
      OBVIOUS
    <3> DEFINE q == Moved(play)
               held == [o \in Objects(lane) |-> IF o \in Own(lane) THEN files[o] ELSE "none"]
    <3>1. /\ q \in Plays /\ q.outcome \in {"running", "done"}
          /\ \/ play' = q
             \/ play' = [q EXCEPT !.bound = TRUE]
             \/ play' = [q EXCEPT !.loaded = held]
      BY <1>1, <1>3, MovedFacts, BindLoads DEF LoadStep, InTask
    <3> HIDE DEF q, held
    <3>2. play'.outcome = q.outcome
      BY <3>1 DEF Plays
    <3>3. QED
      BY <3>1, <3>2
  <2>3. QED
    BY <2>1, <2>2 DEF Gate
<1>7. ASSUME InTask, NEW p \in Plays, p.item = play.item, p.outcome = play.outcome,
             play' = Looped(p)
      PROVE  FALSE
  <2>1. Task.on \in Seq(Objects(lane))
    BY <1>7, TaskFacts DEF TInv
  <2>2. QED
    BY <1>7, <2>1, LoopedFacts DEF InTask, Running
<1>8. ~Observe
  <2> SUFFICES ASSUME LookStep PROVE FALSE
    BY ObserveLooks
  <2>1. play' # Stopped(play, "failed")
    BY <1>4 DEF Outcomes
  <2>2. PICK seen \in [Objects(lane) -> Live], first \in [Objects(lane) -> Live],
             again \in [Objects(lane) -> Live] :
           play' = Looped([play EXCEPT !.seen = seen, !.first = first, !.again = again])
    BY <2>1 DEF LookStep
  <2> DEFINE p == [play EXCEPT !.seen = seen, !.first = first, !.again = again]
  <2>3. p \in Plays /\ p.item = play.item /\ p.outcome = play.outcome
    BY <1>1 DEF Plays
  <2> HIDE DEF p
  <2>4. QED
    BY <1>7, <2>2, <2>3 DEF LookStep, p
<1>9. ~Mutate
  <2> SUFFICES ASSUME WriteStep PROVE FALSE
    BY MutateWrites
  <2> DEFINE p == [play EXCEPT !.failed = TRUE]
  <2>1. p \in Plays /\ p.item = play.item /\ p.outcome = play.outcome
    BY <1>1 DEF Plays
  <2>2. play' = Looped(play) \/ play' = Looped(p)
    BY DEF WriteStep
  <2> HIDE DEF p
  <2>3. QED
    BY <1>1, <1>7, <2>1, <2>2 DEF WriteStep
<1>10. ~CallByHand
  BY <1>4 DEF CallByHand, Outcomes
<1>11. CASE Materialize \/ EditFile \/ WrapperEnds \/ UNCHANGED vars
  <2>1. /\ play'.outcome = play.outcome /\ play'.kind = play.kind
        /\ play'.skipped = play.skipped /\ play'.seen = play.seen
    BY <1>1, <1>11, SameUnmoved, EditUnmoved DEF Unmoved, Materialize, WrapperEnds, vars
  <2>2. "target" \notin Own(lane) /\ Own(lane) \subseteq Objects(lane)
    BY LaneAssumption, OwnObjects DEF TInv, TypeOK
  <2>3. \A o \in Own(lane) : cluster'[o] = cluster[o]
    BY <1>11, <2>2, MaterializeFacts DEF EditFile, WrapperEnds, vars
  <2>4. QED
    BY <2>1, <2>3
<1>12. CASE Accept \/ Recheck
  <2>1. PassStep
    BY <1>12, AcceptPasses, RecheckPasses
  <2>2. \/ play' = Moved(play)
        \/ \E outcome \in {"refused", "foreign", "raced", "failed"} :
              play' = [play EXCEPT !.outcome = outcome]
    BY <2>1 DEF PassStep, Stopped
  <2>3. play'.kind = play.kind /\ play'.skipped = play.skipped /\ play'.seen = play.seen
    BY <1>1, <2>2, MovedFacts DEF Plays
  <2>4. QED
    BY <1>12, <2>1, <2>3 DEF PassStep, Others
<1>13. QED
  BY <1>2, <1>5, <1>6, <1>8, <1>9, <1>10, <1>11, <1>12 DEF Next

LEMMA RefusedPass ==
    ASSUME TInv, InTask, NEW condition \in BOOLEAN, NEW otherwise \in Outcomes \ {"running", "done"},
           Pass(condition, otherwise), play'.outcome \in {"foreign", "raced"}
    PROVE  ~condition /\ play'.outcome = otherwise
<1>1. play \in Plays
  BY DEF TInv, TypeOK
<1>2. Moved(play).outcome \in {"running", "done"}
  BY <1>1, MovedFacts DEF InTask, Running
<1>3. Stopped(play, otherwise).outcome = otherwise
  BY <1>1, StoppedFacts
<1>4. QED
  BY <1>2, <1>3 DEF Pass

(* What an accepting task found otherwise is there, and another's.         *)
LEMMA AcceptAnswers ==
    ASSUME EInv, Calm, Untaken, TargetKnown, Sound, InTask, Accept,
           play'.outcome \in {"foreign", "raced"}, \A o \in Own(lane) : ~Alien(o)
    PROVE  play'.outcome = "foreign" /\ Counts
<1>1. /\ TInv /\ play.touched = {} /\ "target" \notin Own(lane)
      /\ Elements(Task.on) \subseteq Objects(lane)
      /\ \A o \in Elements(Task.on) : Answerable(lane, o, play.pc)
      /\ lane.script[play.pc].do = Task.do
  BY TaskAnswers DEF EInv, Calm
<1>2. \A shapes : Seen(shapes) \in BOOLEAN
  BY DEF Seen
<1>3. ASSUME NEW shapes, ~Seen(shapes)
      PROVE  \E o \in Elements(Task.on) : play.seen[o].shape \notin shapes
  BY <1>3 DEF Seen
<1>4. ASSUME NEW o \in Elements(Task.on), o # "target",
             Shown(lane, o, play.pc, Keeping, Writing), Task.do \notin Writing
      PROVE  play.seen[o] = cluster[o]
  BY <1>1, <1>4, KeptThere
<1>5. CASE AcceptLabels
  <2>1. Task.do = "acceptLabels" /\ Pass(Seen({"absent"} \cup Labelled), "foreign")
    BY <1>5 DEF AcceptLabels, At
  <2>2. ~Seen({"absent"} \cup Labelled)
    BY <1>1, <1>2, <2>1, RefusedPass DEF Outcomes
  <2>3. PICK o \in Elements(Task.on) : play.seen[o].shape \notin {"absent"} \cup Labelled
    BY <1>3, <2>2
  <2>4. o \in Own(lane) /\ Shown(lane, o, play.pc, Keeping, Writing)
    BY <1>1, <2>1 DEF Answerable
  <2>5. play.seen[o] = cluster[o]
    BY <1>1, <1>4, <2>1, <2>4 DEF Writing
  <2>6. QED
    BY <2>3, <2>4, <2>5 DEF Alien, Labelled
<1>6. CASE AcceptExact
  <2>1. Task.do = "acceptExact" /\ Pass(Seen({"absent", "ours"}), "foreign")
    BY <1>6 DEF AcceptExact, At
  <2>2. ~Seen({"absent", "ours"})
    BY <1>1, <1>2, <2>1, RefusedPass DEF Outcomes
  <2>3. PICK o \in Elements(Task.on) : play.seen[o].shape \notin {"absent", "ours"}
    BY <1>3, <2>2
  <2>4. o \in Own(lane) \cup {"target"} /\ Shown(lane, o, play.pc, Keeping, Writing)
    BY <1>1, <2>1 DEF Answerable
  <2>5. CASE o \in Own(lane)
    <3>1. play.seen[o] = cluster[o]
      BY <1>1, <1>4, <2>1, <2>4, <2>5 DEF Writing
    <3>2. QED
      BY <2>3, <2>5, <3>1 DEF Alien
  <2>6. CASE o = "target"
    <3>1. Staged(lane) /\ TargetRead
      BY <1>1, <2>4, <2>6, TargetIsRead DEF Staged
    <3>2. cluster["target"] = play.seen["target"]
      BY <2>3, <2>6, <3>1 DEF TargetKnown, There
    <3>3. Own(lane) # {} /\ \A x \in Own(lane) : Alien(x)
      BY <1>1, <2>3, <2>6, <3>1, <3>2, TaskAnswers DEF Untaken, Alien
    <3>4. QED
      BY <3>3
  <2>7. QED
    BY <2>4, <2>5, <2>6
<1>7. CASE AcceptOurs
  <2>1. Task.do = "acceptOurs" /\ Pass(Seen({"ours"}), "foreign")
    BY <1>7 DEF AcceptOurs, At
  <2>2. ~Seen({"ours"})
    BY <1>1, <1>2, <2>1, RefusedPass DEF Outcomes
  <2>3. PICK o \in Elements(Task.on) : play.seen[o].shape \notin {"ours"}
    BY <1>3, <2>2
  <2>4. o = "credential" /\ Shown(lane, o, play.pc, Keeping, Writing)
    BY <1>1, <2>1 DEF Answerable
  <2>5. play.seen[o] = cluster[o] /\ cluster[o].shape = "ours"
    BY <1>1, <1>4, <2>1, <2>4 DEF Writing, Calm
  <2>6. QED
    BY <2>3, <2>5
<1>8. ~AcceptThere
  <2> SUFFICES ASSUME AcceptThere PROVE FALSE
    OBVIOUS
  <2>1. PICK open \in BOOLEAN : Pass(open /\ Seen(Shapes \ {"absent"}), "refused")
    BY DEF AcceptThere
  <2>2. play'.outcome = "refused"
    BY <1>1, <1>2, <2>1, RefusedPass DEF Outcomes
  <2>3. QED
    BY <2>2
<1>9. CASE AcceptOldOrNew
  <2>1. Task.do = "acceptOldOrNew" /\ Pass(Seen({"drifted", "ours"}), "foreign")
    BY <1>9 DEF AcceptOldOrNew, At
  <2>2. ~Seen({"drifted", "ours"})
    BY <1>1, <1>2, <2>1, RefusedPass DEF Outcomes
  <2>3. PICK o \in Elements(Task.on) : play.seen[o].shape \notin {"drifted", "ours"}
    BY <1>3, <2>2
  <2>4. o = "corefile" /\ o \in Own(lane) /\ Shown(lane, o, play.pc, Keeping, Writing)
    BY <1>1, <2>1 DEF Answerable
  <2>5. play.seen[o] = cluster[o] /\ There(cluster[o])
    BY <1>1, <1>4, <2>1, <2>4 DEF Writing, Calm
  <2>6. QED
    BY <2>3, <2>4, <2>5 DEF Alien, There
<1>10. Task \in Tasks
  BY TaskAnswers, <1>1 DEF Task, Tasks
<1>11. CASE AcceptAllOrNone
  <2>1. /\ Task.do = "acceptAllOrNone"
        /\ Pass(Seen({"absent"}) \/ Seen(Shapes \ {"absent"}), "foreign")
    BY <1>11 DEF AcceptAllOrNone, At
  <2>2. play'.outcome = "foreign"
    BY <1>1, <1>2, <2>1, RefusedPass DEF Outcomes
  <2>3. QED
    BY <1>10, <2>1, <2>2 DEF Counts
<1>12. CASE AtMostOne
  <2> DEFINE found == {o \in Elements(Task.on) : There(play.seen[o])}
             few == Cardinality(found) <= 1
             n == Len(Task.on)
  <2>1. Task.do = "atMostOne" /\ Pass(few, "foreign") /\ few \in BOOLEAN
    BY <1>12 DEF AtMostOne, At
  <2>2. play'.outcome = "foreign" /\ ~few
    <3> HIDE DEF few
    <3> QED
      BY <1>1, <2>1, RefusedPass DEF Outcomes
  <2>3. Task.on \in Seq(Objects(lane))
    BY <1>1, TaskFacts DEF TInv
  <2>4. CASE n > 1
    BY <1>10, <2>1, <2>2, <2>4 DEF Counts
  <2>5. CASE n = 0 \/ n = 1
    <3>1. found \subseteq {Task.on[1]}
      BY <2>3, <2>5 DEF Elements
    <3>2. found = {} \/ found = {Task.on[1]}
      BY <3>1
    <3>3. Cardinality(found) \in {0, 1}
      <4> HIDE DEF found
      <4> QED
        BY <3>2, FS_EmptySet, FS_Singleton
    <3>4. QED
      BY <2>2, <3>3
  <2>6. n \in Nat
    BY <2>3
  <2> HIDE DEF found, few, n
  <2>7. n > 1 \/ n = 0 \/ n = 1
    BY <2>6
  <2>8. QED
    BY <2>4, <2>5, <2>7
<1>13. CASE AcceptRevision
  <2>1. PICK known \in BOOLEAN :
           Pass(Seen(IF known THEN {"absent", "ours", "drifted"} ELSE {"absent", "ours"}),
                "foreign")
    BY <1>13 DEF AcceptRevision
  <2> DEFINE shapes == IF known THEN {"absent", "ours", "drifted"} ELSE {"absent", "ours"}
  <2>2. Task.do = "acceptRevision" /\ Pass(Seen(shapes), "foreign") /\ {"absent", "ours"} \subseteq shapes
    BY <1>13, <2>1 DEF AcceptRevision, At
  <2> HIDE DEF shapes
  <2>3. ~Seen(shapes)
    BY <1>1, <1>2, <2>2, RefusedPass DEF Outcomes
  <2>4. PICK o \in Elements(Task.on) : play.seen[o].shape \notin shapes
    BY <1>3, <2>3
  <2>5. o \in Own(lane) /\ Shown(lane, o, play.pc, Keeping, Writing)
    BY <1>1, <2>2 DEF Answerable
  <2>6. play.seen[o] = cluster[o]
    BY <1>1, <1>4, <2>2, <2>5 DEF Writing
  <2>7. QED
    BY <2>2, <2>4, <2>5, <2>6 DEF Alien
<1>14. QED
  BY <1>5, <1>6, <1>7, <1>8, <1>9, <1>11, <1>12, <1>13 DEF Accept

(* What a comparing task found changed is another's, or is the target and  *)
(* the operator has written it since.                                      *)
LEMMA RecheckAnswers ==
    ASSUME EInv, Calm, Sound, InTask, Recheck,
           play'.outcome \in {"foreign", "raced"}, \A o \in Own(lane) : ~Alien(o)
    PROVE  /\ play'.outcome = "raced"
           /\ Staged(lane) /\ play.seen["target"].rev < cluster["target"].rev
<1>1. /\ TInv /\ play.touched = {} /\ "target" \notin Own(lane)
      /\ Elements(Task.on) \subseteq Objects(lane)
      /\ \A o \in Elements(Task.on) : Answerable(lane, o, play.pc)
      /\ lane.script[play.pc].do = Task.do
  BY TaskAnswers DEF EInv, Calm
<1>2. ~(VerifyExact \/ VerifyLabels \/ VerifyPart)
  <2> SUFFICES ASSUME NEW condition \in BOOLEAN, Pass(condition, "failed") PROVE FALSE
    BY DEF VerifyExact, VerifyLabels, VerifyPart
  <2>1. play'.outcome = "failed"
    BY <1>1, RefusedPass DEF Outcomes
  <2>2. QED
    BY <2>1
<1>3. Task.do \notin Writing
  <2>1. PassStep
    BY <1>1, RecheckPasses
  <2>2. QED
    BY <2>1 DEF PassStep
<1>4. ASSUME NEW o \in Elements(Task.on), o # "target"
      PROVE  /\ Shown(lane, o, play.pc, Keeping, Writing) => play.seen[o] = cluster[o]
             /\ Shown(lane, o, play.pc, Reading, Writing) => play.again[o] = cluster[o]
             /\ Shown(lane, o, play.pc, {"inventory"}, Writing) => play.first[o] = cluster[o]
  <2>1. o \in Objects(lane) \ (play.touched \cup {"target"})
    BY <1>1, <1>4
  <2>2. ASSUME Shown(lane, o, play.pc, {"inventory"}, Writing)
        PROVE  play.first[o] = cluster[o]
    <3>1. \E do \in {"inventory"} : AsThere(do, o)
      BY <1>3, <2>1, <2>2, ShownThere
    <3>2. QED
      BY <3>1 DEF AsThere
  <2>3. QED
    BY <1>3, <2>1, <2>2, KeptThere, LastThere
<1>5. CASE None
  <2> DEFINE condition == \A o \in Elements(Task.on) :
                       ~There(play.again[o])
  <2>1. Task.do = "none" /\ Pass(condition, "raced") /\ condition \in BOOLEAN
    BY <1>5 DEF None, Compare, At
  <2>2. ~condition /\ play'.outcome = "raced"
    <3> HIDE DEF condition
    <3> QED
      BY <1>1, <2>1, RefusedPass DEF Outcomes
  <2>3. PICK o \in Elements(Task.on) :
           ~(~There(play.again[o]))
    BY <2>2
  <2>4. o = "alternate" /\ Shown(lane, o, play.pc, Reading, Writing)
    BY <1>1, <2>1 DEF Answerable
  <2>5. o \in Objects(lane) /\ play.again[o] = cluster[o]
    BY <1>1, <1>4, <2>4
  <2>6. QED
    BY <2>3, <2>4, <2>5 DEF Calm
<1>6. ASSUME NEW o \in Elements(Task.on),
             Shown(lane, o, play.pc, Keeping, Writing), Shown(lane, o, play.pc, Reading, Writing),
             ~SameVersion(play.seen[o], play.again[o])
      PROVE  Staged(lane) /\ play.seen["target"].rev < cluster["target"].rev
  <2>1. o = "target"
    BY <1>4, <1>6 DEF SameVersion, SameIdentity
  <2>2. "target" \in Objects(lane)
    BY <1>1, <2>1
  <2>3. /\ Older(play.seen["target"], cluster["target"])
        /\ Older(play.again["target"], cluster["target"])
        /\ play.seen["target"].rev <= play.again["target"].rev
    BY <2>2 DEF EInv, Evidence, Aged
  <2>4. /\ play.seen["target"] \in Live /\ play.again["target"] \in Live
        /\ cluster["target"] \in Live
    BY <1>1, <2>2, PlayFields DEF TInv, TypeOK
  <2>5. play.seen["target"].rev # cluster["target"].rev
    <3> SUFFICES ASSUME play.seen["target"].rev = cluster["target"].rev PROVE FALSE
      OBVIOUS
    <3>1. play.again["target"].rev = cluster["target"].rev
      BY <2>3, <2>4 DEF Older, Live
    <3>2. play.seen["target"] = play.again["target"]
      BY <2>3, <3>1 DEF Older
    <3>3. QED
      BY <1>6, <2>1, <3>2 DEF SameVersion, SameIdentity
  <2>6. QED
    BY <2>2, <2>3, <2>4, <2>5 DEF Older, Staged, Live
<1>7. CASE CompareVersion
  <2> DEFINE condition == \A o \in Elements(Task.on) :
                       SameVersion(play.seen[o], play.again[o])
  <2>1. Task.do = "sameVersion" /\ Pass(condition, "raced") /\ condition \in BOOLEAN
    BY <1>7 DEF CompareVersion, Compare, At
  <2>2. ~condition /\ play'.outcome = "raced"
    <3> HIDE DEF condition
    <3> QED
      BY <1>1, <2>1, RefusedPass DEF Outcomes
  <2>3. PICK o \in Elements(Task.on) :
           ~(SameVersion(play.seen[o], play.again[o]))
    BY <2>2
  <2>4. Shown(lane, o, play.pc, Keeping, Writing) /\ Shown(lane, o, play.pc, Reading, Writing)
    BY <1>1, <2>1 DEF Answerable
  <2>5. QED
    BY <1>6, <2>2, <2>3, <2>4
<1>8. CASE CompareIdentity
  <2> DEFINE condition == \A o \in Elements(Task.on) :
                       SameIdentity(play.seen[o], play.again[o])
  <2>1. Task.do = "sameIdentity" /\ Pass(condition, "raced") /\ condition \in BOOLEAN
    BY <1>8 DEF CompareIdentity, Compare, At
  <2>2. ~condition /\ play'.outcome = "raced"
    <3> HIDE DEF condition
    <3> QED
      BY <1>1, <2>1, RefusedPass DEF Outcomes
  <2>3. PICK o \in Elements(Task.on) :
           ~(SameIdentity(play.seen[o], play.again[o]))
    BY <2>2
  <2>4. Shown(lane, o, play.pc, Keeping, Writing) /\ Shown(lane, o, play.pc, Reading, Writing)
    BY <1>1, <2>1 DEF Answerable
  <2>5. QED
    BY <1>6, <2>2, <2>3, <2>4 DEF SameVersion
<1>9. CASE CompareInventory
  <2> DEFINE condition == \A o \in Elements(Task.on) :
                       SameVersion(play.first[o], play.again[o])
  <2>1. Task.do = "sameInventory" /\ Pass(condition, "raced") /\ condition \in BOOLEAN
    BY <1>9 DEF CompareInventory, Compare, At
  <2>2. ~condition /\ play'.outcome = "raced"
    <3> HIDE DEF condition
    <3> QED
      BY <1>1, <2>1, RefusedPass DEF Outcomes
  <2>3. PICK o \in Elements(Task.on) :
           ~(SameVersion(play.first[o], play.again[o]))
    BY <2>2
  <2>4. /\ o # "target" /\ Shown(lane, o, play.pc, {"inventory"}, Writing)
        /\ Shown(lane, o, play.pc, Reading, Writing)
    BY <1>1, <2>1 DEF Answerable
  <2>5. play.first[o] = play.again[o]
    BY <1>4, <2>4
  <2>6. QED
    BY <2>3, <2>5 DEF SameVersion, SameIdentity
<1>10. CASE CompareSpec
  <2> DEFINE condition == \A o \in Elements(Task.on) :
                       /\ SameIdentity(play.seen[o], play.again[o])
                       /\ play.again[o].shape \in {"absent", "ours"}
  <2>1. Task.do = "sameSpec" /\ Pass(condition, "raced") /\ condition \in BOOLEAN
    BY <1>10 DEF CompareSpec, Compare, At
  <2>2. ~condition /\ play'.outcome = "raced"
    <3> HIDE DEF condition
    <3> QED
      BY <1>1, <2>1, RefusedPass DEF Outcomes
  <2>3. PICK o \in Elements(Task.on) :
           ~(/\ SameIdentity(play.seen[o], play.again[o])
             /\ play.again[o].shape \in {"absent", "ours"})
    BY <2>2
  <2>4. /\ o \in Own(lane) /\ Shown(lane, o, play.pc, Keeping, Writing)
        /\ Shown(lane, o, play.pc, Reading, Writing)
    BY <1>1, <2>1 DEF Answerable
  <2>5. play.seen[o] = cluster[o] /\ play.again[o] = cluster[o]
    BY <1>1, <1>4, <2>4
  <2>6. QED
    BY <2>3, <2>4, <2>5 DEF SameIdentity, Alien
<1>11. CASE InEffect
  <2> DEFINE condition == \A o \in Elements(Task.on) :
                       /\ play.again[o].shape = "ours"
                       /\ play.again[o].uid = play.seen[o].uid
  <2>1. Task.do = "inEffect" /\ Pass(condition, "raced") /\ condition \in BOOLEAN
    BY <1>11 DEF InEffect, Compare, At
  <2>2. ~condition /\ play'.outcome = "raced"
    <3> HIDE DEF condition
    <3> QED
      BY <1>1, <2>1, RefusedPass DEF Outcomes
  <2>3. PICK o \in Elements(Task.on) :
           ~(/\ play.again[o].shape = "ours"
             /\ play.again[o].uid = play.seen[o].uid)
    BY <2>2
  <2>4. /\ o \in Own(lane) /\ Shown(lane, o, play.pc, Keeping, Writing)
        /\ Shown(lane, o, play.pc, Reading, Writing)
        /\ lane.plugin.closure # "files"
        /\ \E a \in 1 .. play.pc - 1 : Handles(lane, a, {"apply"}, o)
    BY <1>1, <2>1 DEF Answerable
  <2>5. play.seen[o] = cluster[o] /\ play.again[o] = cluster[o]
    BY <1>1, <1>4, <2>4
  <2>6. PICK a \in 1 .. play.pc - 1 : Handles(lane, a, {"apply"}, o)
    BY <2>4
  <2>7. a \in DOMAIN lane.script /\ a < play.pc /\ a # play.pc
    BY <1>1, ScriptDomain, PlayFields, TaskAnswers
  <2>8. Repairs(lane, a, o) /\ DoneAt(a, o) /\ ~LetThrough(o)
    BY <2>4, <2>6, <2>7 DEF Repairs, LetThrough, DoneAt, Handles, On
  <2>9. cluster[o].shape = "ours"
    BY <1>1, <2>4, <2>7, <2>8 DEF EInv, Evidence, Righted
  <2>10. QED
    BY <2>3, <2>5, <2>9
<1>12. QED
  BY <1>2, <1>5, <1>7, <1>8, <1>9, <1>10, <1>11 DEF Recheck

LEMMA NextAnswered ==
    ASSUME EInv, [Next]_vars, ~Interfere, Calm, Untaken, TargetKnown, Answered
    PROVE  Answered'
<1>1. TInv /\ TInv' /\ UNCHANGED lane /\ Own(lane) \subseteq Objects(lane)
  BY SameLane, OwnObjects, NextTyped DEF EInv
<1> SUFFICES ASSUME Refused'
             PROVE  /\ play'.kind = "role"
                    /\ Tidy' =>
                          /\ play'.outcome = "foreign" => Counts
                          /\ play'.outcome = "raced" =>
                                /\ Staged(lane)
                                /\ play'.seen["target"].rev < cluster'["target"].rev
  BY <1>1 DEF Answered, Refused, Counts, Tasks, Staged
<1>2. play'.outcome \in {"foreign", "raced"}
  BY DEF Refused
<1>3. play'.kind = "role"
  BY <1>1, <1>2, RefusedBy DEF Answered, Refused, InTask
<1> SUFFICES ASSUME Tidy'
             PROVE  /\ play'.outcome = "foreign" => Counts
                    /\ play'.outcome = "raced" =>
                          Staged(lane) /\ play'.seen["target"].rev < cluster'["target"].rev
  BY <1>3
<1>4. CASE /\ play'.outcome = play.outcome /\ play'.kind = play.kind
           /\ play'.skipped = play.skipped /\ play'.seen = play.seen
           /\ \A o \in Own(lane) : cluster'[o] = cluster[o]
  <2>1. Tidy
    BY <1>1, <1>4 DEF Tidy, Alien
  <2>2. CASE play.outcome = "foreign"
    BY <1>4, <2>1, <2>2 DEF Answered
  <2>3. CASE play.outcome = "raced"
    <3>1. Staged(lane) /\ play.seen["target"].rev < cluster["target"].rev
      BY <2>1, <2>3 DEF Answered
    <3>2. /\ "target" \in Objects(lane) /\ play.seen["target"] \in Live
          /\ cluster["target"] \in Live /\ cluster'["target"] \in Live
      BY <1>1, <3>1, PlayFields DEF Staged, TInv, TypeOK
    <3>3. Older(cluster["target"], cluster'["target"])
      BY <1>1, <3>2, NothingYounger
    <3>4. QED
      BY <1>4, <2>3, <3>1, <3>2, <3>3 DEF Older, Live
  <2>4. QED
    BY <1>2, <1>4, <2>2, <2>3
<1>5. CASE /\ Accept \/ Recheck
           /\ InTask /\ cluster' = cluster /\ play'.kind = play.kind
           /\ play'.skipped = play.skipped /\ play'.seen = play.seen
  <2>1. Sound /\ \A o \in Own(lane) : ~Alien(o)
    BY <1>1, <1>5 DEF Sound, InTask, Running, Tidy, Alien
  <2>2. CASE Accept
    <3>1. play'.outcome = "foreign" /\ Counts
      BY <1>2, <1>5, <2>1, <2>2, AcceptAnswers
    <3>2. QED
      BY <3>1
  <2>3. CASE Recheck
    <3>1. /\ play'.outcome = "raced" /\ Staged(lane)
          /\ play.seen["target"].rev < cluster["target"].rev
      BY <1>2, <1>5, <2>1, <2>3, RecheckAnswers
    <3>2. QED
      BY <1>2, <1>5, <3>1
  <2>4. QED
    BY <1>2, <1>5, <2>2, <2>3
<1>6. QED
  BY <1>1, <1>2, <1>4, <1>5, RefusedBy

LEMMA NextAnswers == FInv /\ [Next]_vars => FInv'
<1> SUFFICES ASSUME FInv, [Next]_vars PROVE FInv'
  OBVIOUS
<1>1. EInv /\ EInv' /\ TInv
  BY NextEvident DEF FInv, EInv
<1>2. ASSUME spent'.interference = 0
      PROVE  Calm' /\ Untaken' /\ TargetKnown' /\ Answered'
  <2>1. ~Interfere /\ Calm /\ Untaken /\ TargetKnown /\ Answered
    BY <1>1, <1>2, InterferenceCounted DEF FInv
  <2>2. QED
    BY <1>1, <2>1, NextCalm, NextUntaken, NextTargetKnown, NextAnswered
<1>3. QED
  BY <1>1, <1>2 DEF FInv

LEMMA InitAnswers == Init => FInv
<1> SUFFICES ASSUME Init PROVE FInv
  OBVIOUS
<1>1. EInv /\ play = NoPlay(lane)
  BY InitEvident DEF Init
<1>2. ~Sound /\ play.outcome = "none" /\ play.touched = {}
  BY <1>1 DEF NoPlay, Sound
<1>3. PICK shape \in {"absent", "ours", "drifted"} :
         cluster = [o \in Objects(lane) |-> Initially(o, shape)]
  BY DEF Init
<1>4. Calm
  BY <1>2, <1>3 DEF Calm, Initially, There, Unread
<1>5. Untaken
  <2> SUFFICES ASSUME Staged(lane), Alien("target"), NEW o \in Own(lane) PROVE Alien(o)
    BY DEF Untaken
  <2>1. shape = "drifted"
    BY <1>3 DEF Staged, Alien, Initially
  <2>2. o \in Objects(lane) /\ o \notin {"alternate", "credential"}
    BY OwnObjects, ScriptAssumption DEF Init
  <2>3. QED
    BY <1>3, <2>1, <2>2 DEF Alien, Initially
<1>6. TargetKnown /\ Answered
  BY <1>2 DEF TargetKnown, Answered, Refused
<1>7. QED
  BY <1>1, <1>4, <1>5, <1>6 DEF FInv

LEMMA NoneFalse == FInv => NoFalseAlarm
<1> SUFFICES ASSUME FInv, ~Counts PROVE OwnStateAccepted
  BY DEF NoFalseAlarm, Counts
<1> SUFFICES ASSUME ~Provoked PROVE /\ play.outcome # "foreign"
                                    /\ play.outcome = "raced" =>
                                         /\ "target" \in Objects(lane)
                                         /\ cluster["target"] # play.seen["target"]
  BY DEF OwnStateAccepted
<1>1. TInv /\ spent.interference = 0 /\ Answered /\ ~play.skipped
      /\ \A o \in Own(lane) : ~Alien(o)
  BY DEF FInv, EInv, Provoked, Alien, TInv, TypeOK
<1>2. CASE play.outcome = "foreign"
  BY <1>1, <1>2 DEF Answered, Refused, Tidy
<1>3. CASE play.outcome = "raced"
  <2>1. Staged(lane) /\ play.seen["target"].rev < cluster["target"].rev
    BY <1>1, <1>3 DEF Answered, Refused, Tidy
  <2>2. "target" \in Objects(lane) /\ cluster["target"] \in Live
    BY <1>1, <2>1 DEF Staged, TInv, TypeOK
  <2>3. cluster["target"] # play.seen["target"]
    BY <2>1, <2>2 DEF Live
  <2>4. QED
    BY <1>3, <2>2, <2>3
<1>4. QED
  BY <1>2, <1>3

(* A play is not turned away by what an earlier play of the lane left, or  *)
(* by what it has written itself.                                          *)
THEOREM NoFalseAlarmHolds == Spec => []NoFalseAlarm
<1>1. FInv => NoFalseAlarm
  BY NoneFalse
<1>2. QED
  BY <1>1, InitAnswers, NextAnswers, PTL DEF Spec

=============================================================================
