--------------------------- MODULE ProducerProofs ---------------------------
(***************************************************************************)
(* Proofs about Producer, for any number of runners, records, changes and  *)
(* failures, for delta feeds and feeds of every change.                    *)
(***************************************************************************)
EXTENDS Producer, TLAPS

-----------------------------------------------------------------------------
(* Types *)

LEMMA InitTypeOK == Init => TypeOK
BY ProducerAssumption
   DEF Init, TypeOK, Idle, NoCheckpoint, Run, Checkpoint, Stages, Outcomes,
       SourceChange

(* Applying operations of the feed leaves the sink well typed.             *)
LEMMA ApplyType ==
  ASSUME TypeOK, NEW ops, ops \subseteq Nat, Apply(ops)
  PROVE  /\ accepted' = accepted \cup ops
         /\ accepted' \subseteq Nat
         /\ live' \in [Records -> Nat]
<1> DEFINE newOf(rec) == {p \in ops \ accepted : feed[p].record = rec}
           lastUpsert(rec) == {p \in newOf(rec) : feed[p].kind = "upsert"
                                 /\ \A q \in newOf(rec) : q <= p}
           version(rec) == IF newOf(rec) = {} THEN live[rec]
                           ELSE IF lastUpsert(rec) = {} THEN 0
                           ELSE CHOOSE p \in lastUpsert(rec) : TRUE
<1>1. live' = [rec \in Records |-> version(rec)]
  BY DEF Apply
<1>2. ASSUME NEW rec \in Records
      PROVE  version(rec) \in Nat
  <2>1. lastUpsert(rec) \subseteq Nat
    <3>1. lastUpsert(rec) \subseteq ops
      OBVIOUS
    <3> QED
      BY <3>1
  <2>2. lastUpsert(rec) # {} => (CHOOSE p \in lastUpsert(rec) : TRUE) \in lastUpsert(rec)
    OBVIOUS
  <2>3. live[rec] \in Nat
    BY DEF TypeOK
  <2> HIDE DEF newOf, lastUpsert
  <2> QED
    BY <2>1, <2>2, <2>3
<1> HIDE DEF version
<1>3. live' \in [Records -> Nat]
  BY <1>1, <1>2
<1> QED
  BY <1>3 DEF Apply, TypeOK
(* One call moves, the others stay as they are.                            *)
LEMMA UpdateRun ==
  ASSUME TypeOK, NEW r \in Runners, NEW call \in Run,
         call.attempt \in 1 .. MaxAttempts, Becomes(r, call)
  PROVE  /\ run' \in [Runners -> Run]
         /\ \A q \in Runners : run'[q].attempt \in 1 .. MaxAttempts
         /\ run'[r] = call
         /\ \A q \in Runners \ {r} : run'[q] = run[q]
BY DEF TypeOK, Becomes

LEMMA FinishedCall ==
  ASSUME NEW result \in Outcomes
  PROVE  /\ [Idle EXCEPT !.outcome = result] \in Run
         /\ [Idle EXCEPT !.outcome = result].attempt \in 1 .. MaxAttempts
<1>1. [Idle EXCEPT !.outcome = result] \in Run
  BY DEF Idle, NoCheckpoint, Run, Checkpoint, Stages
<1>2. [Idle EXCEPT !.outcome = result].attempt = 1
  BY DEF Idle
<1> QED
  BY <1>1, <1>2, ProducerAssumption

LEMMA FinishType ==
  ASSUME TypeOK, NEW r \in Runners, NEW result \in Outcomes, Finish(r, result)
  PROVE  /\ run' \in [Runners -> Run]
         /\ \A q \in Runners : run'[q].attempt \in 1 .. MaxAttempts
         /\ run'[r] = [Idle EXCEPT !.outcome = result]
         /\ \A q \in Runners \ {r} : run'[q] = run[q]
BY FinishedCall, UpdateRun DEF Finish

LEMMA NextAttemptType ==
  ASSUME TypeOK, NEW r \in Runners, NextAttempt(r)
  PROVE  /\ run' \in [Runners -> Run]
         /\ \A q \in Runners : run'[q].attempt \in 1 .. MaxAttempts
<1>1. CASE run[r].attempt < MaxAttempts
  <2>0. run[r] \in Run
    BY DEF TypeOK
  <2>1. [run[r] EXCEPT !.attempt = @ + 1] \in Run
    BY <2>0 DEF Run
  <2>2. [run[r] EXCEPT !.attempt = @ + 1].attempt = run[r].attempt + 1
    BY <2>0 DEF Run
  <2>3. run[r].attempt + 1 \in 1 .. MaxAttempts
    BY <1>1, <2>0, ProducerAssumption DEF TypeOK, Run
  <2> QED
    BY <1>1, <2>1, <2>2, <2>3, UpdateRun DEF NextAttempt
<1>2. CASE ~(run[r].attempt < MaxAttempts)
  BY <1>2, FinishType DEF NextAttempt, Outcomes
<1> QED
  BY <1>1, <1>2

LEMMA StepTypeOK ==
  ASSUME TypeOK, NEW r \in Runners, Step(r) \/ Disturbance(r)
  PROVE  TypeOK'
<1> DEFINE RunTyped == /\ run' \in [Runners -> Run]
                       /\ \A q \in Runners : run'[q].attempt \in 1 .. MaxAttempts
<1>0. run[r] \in Run /\ run[r].attempt \in 1 .. MaxAttempts /\ Len(feed) \in Nat
  BY DEF TypeOK
<1>a. Actionable(r) \subseteq Nat
  BY <1>0 DEF Actionable, Run
<1>b. 1 \in 1 .. MaxAttempts
  BY ProducerAssumption
<1>1. CASE Load(r)
  <2>1. [run[r] EXCEPT !.pc = "list", !.snap = checkpoint, !.outcome = "none"] \in Run
    BY <1>0 DEF TypeOK, Run, Stages, Outcomes
  <2>2. RunTyped
    BY <1>0, <1>1, <2>1, UpdateRun DEF Load, Run
  <2> QED
    BY <1>1, <2>2 DEF Load, TypeOK
<1>2. CASE List(r)
  <2>1. PICK n \in run[r].snap.cursor .. Len(feed) :
          Becomes(r, [run[r] EXCEPT !.pc = "plan",
                        !.page = Listed(feed, run[r].snap.cursor, n),
                        !.next = n, !.more = n < Len(feed), !.attempt = 1])
    BY <1>2 DEF List
  <2> DEFINE more == n < Len(feed)
             page == Listed(feed, run[r].snap.cursor, n)
             call == [run[r] EXCEPT !.pc = "plan", !.page = page,
                        !.next = n, !.more = more, !.attempt = 1]
  <2>2. run[r].snap.cursor \in Nat /\ n \in Nat
    BY <1>0, <2>1 DEF Run, Checkpoint
  <2>3. page \in SUBSET Nat /\ more \in BOOLEAN
    BY <2>2 DEF Listed
  <2> HIDE DEF page, more
  <2>4. call \in Run /\ call.attempt = 1
    BY <1>0, <2>2, <2>3 DEF Run, Stages
  <2>5. RunTyped
    BY <2>1, <2>4, <1>b, UpdateRun DEF page, more
  <2> QED
    BY <1>2, <2>5 DEF List, TypeOK
<1>3. CASE PlanDelete(r)
  <2>1. PICK p \in run[r].page :
          Becomes(r, [run[r] EXCEPT !.planned = @ \cup {p},
            !.noops = IF live[feed[p].record] = 0 THEN @ \cup {p} ELSE @])
    BY <1>3 DEF PlanDelete
  <2> DEFINE call == [run[r] EXCEPT !.planned = @ \cup {p},
               !.noops = IF live[feed[p].record] = 0 THEN @ \cup {p} ELSE @]
  <2>2. call \in Run /\ call.attempt = run[r].attempt
    BY <1>0 DEF Run
  <2>3. RunTyped
    BY <1>0, <2>1, <2>2, UpdateRun
  <2> QED
    BY <1>3, <2>3 DEF PlanDelete, TypeOK
<1>4. CASE PlanUpsert(r)
  <2>1. PICK p \in run[r].page :
          Becomes(r, [run[r] EXCEPT !.planned = @ \cup {p}, !.attempt = 1])
    BY <1>4 DEF PlanUpsert
  <2> DEFINE call == [run[r] EXCEPT !.planned = @ \cup {p}, !.attempt = 1]
  <2>2. call \in Run /\ call.attempt = 1
    BY <1>0 DEF Run
  <2>3. RunTyped
    BY <2>1, <2>2, <1>b, UpdateRun
  <2> QED
    BY <1>4, <2>3 DEF PlanUpsert, TypeOK
<1>5. CASE RejectRecord(r)
  BY <1>5, FinishType DEF RejectRecord, TypeOK, Outcomes
<1>6. CASE FinishPlanning(r)
  <2>1. CASE r \in DryRunners
    BY <1>6, <2>1, FinishType DEF FinishPlanning, TypeOK, Outcomes
  <2>2. CASE r \notin DryRunners
    <3>1. PICK stage \in {"commit", "publish"} :
            Becomes(r, [run[r] EXCEPT !.pc = stage, !.attempt = 1])
      BY <1>6, <2>2 DEF FinishPlanning
    <3> DEFINE call == [run[r] EXCEPT !.pc = stage, !.attempt = 1]
    <3>2. call \in Run /\ call.attempt = 1
      BY <1>0 DEF Run, Stages
    <3>3. RunTyped
      BY <3>1, <3>2, <1>b, UpdateRun
    <3> QED
      BY <1>6, <3>3 DEF FinishPlanning, TypeOK
  <2> QED
    BY <2>1, <2>2
<1>7. ASSUME run[r].pc = "publish", \E ids \in SUBSET Actionable(r) : Apply(ids)
      PROVE  accepted' \subseteq Nat /\ live' \in [Records -> Nat]
  BY <1>7, <1>a, ApplyType
<1>8. CASE Publish(r)
  <2> DEFINE call == [run[r] EXCEPT !.pc = "commit"]
  <2>1. call \in Run /\ call.attempt = run[r].attempt
    BY <1>0 DEF Run, Stages
  <2>2. RunTyped
    BY <1>0, <1>8, <2>1, UpdateRun DEF Publish
  <2> QED
    BY <1>8, <1>7, <2>2 DEF Publish, TypeOK
<1>9. CASE RejectReceipt(r)
  <2>1. RunTyped
    BY <1>9, FinishType DEF RejectReceipt, Outcomes
  <2> QED
    BY <1>9, <1>7, <2>1 DEF RejectReceipt, TypeOK, Fault
<1>10. CASE PublishUnacknowledged(r)
  <2>1. RunTyped
    BY <1>10, NextAttemptType DEF PublishUnacknowledged
  <2> QED
    BY <1>10, <1>7, <2>1 DEF PublishUnacknowledged, TypeOK, Fault
<1>11. CASE CallFails(r)
  <2>1. RunTyped
    BY <1>11, NextAttemptType DEF CallFails
  <2> QED
    BY <1>11, <2>1 DEF CallFails, TypeOK, Fault
<1>12. CASE Commit(r) \/ CommitUnreported(r)
  <2>1. Replacement(r) \in Checkpoint
    BY <1>0 DEF Replacement, Run, Checkpoint
  <2>2. run[r].noops \subseteq Nat
    BY <1>0 DEF Run
  <2>3. RunTyped
    BY <1>12, FinishType DEF Commit, CommitUnreported, Outcomes
  <2>4. checkpoint' \in Checkpoint /\ skipped' \subseteq Nat
    BY <1>12, <2>1, <2>2 DEF Commit, CommitUnreported, TypeOK
  <2>5. faults' \in Nat
    BY <1>12 DEF Commit, CommitUnreported, TypeOK, Fault
  <2>6. UNCHANGED <<feed, accepted, live>>
    BY <1>12 DEF Commit, CommitUnreported
  <2> QED
    BY <2>3, <2>4, <2>5, <2>6 DEF TypeOK
<1>13. CASE Conflict(r) \/ RejectBatch(r) \/ Abort(r)
  <2>1. RunTyped
    BY <1>13, FinishType DEF Conflict, RejectBatch, Abort, Outcomes
  <2>2. faults' \in Nat
    BY <1>13 DEF Conflict, RejectBatch, Abort, TypeOK, Fault
  <2>3. UNCHANGED <<feed, accepted, live, checkpoint, skipped>>
    BY <1>13 DEF Conflict, RejectBatch, Abort
  <2> QED
    BY <2>1, <2>2, <2>3 DEF TypeOK
<1> QED
  BY <1>1, <1>2, <1>3, <1>4, <1>5, <1>6, <1>8, <1>9, <1>10, <1>11, <1>12, <1>13
     DEF Step, Disturbance

LEMMA SourceTypeOK == ASSUME TypeOK, SourceChanges PROVE TypeOK'
BY DEF SourceChanges, TypeOK

LEMMA NextTypeOK == TypeOK /\ [Next]_vars => TypeOK'
BY SourceTypeOK, StepTypeOK DEF Next, Rest, vars, TypeOK

(* Every reachable state is well typed and no call of the source or of the *)
(* sink is attempted more often than the retry policy allows.              *)
THEOREM TypeCorrect == Spec => []TypeOK
<1>1. Init => TypeOK
  BY InitTypeOK
<1>2. TypeOK /\ [Next]_vars => TypeOK'
  BY NextTypeOK
<1> QED
  BY <1>1, <1>2, PTL DEF Spec

-----------------------------------------------------------------------------
(* The state of the calls *)

(* A longer feed still holds the old changes and supersedes as much.       *)
LEMMA FeedGrows ==
  ASSUME TypeOK, NEW c \in SourceChange, feed' = Append(feed, c),
         NEW p \in 1 .. Len(feed)
  PROVE  feed'[p] = feed[p] /\ (Superseded(feed, p) => Superseded(feed', p))
<1>1. /\ Len(feed') = Len(feed) + 1 /\ Len(feed) \in Nat
      /\ \A q \in 1 .. Len(feed) : feed'[q] = feed[q]
  BY DEF TypeOK
<1> QED
  BY <1>1 DEF Superseded, IsCurrent

(* A call that does not move is not disturbed by the others.               *)
LEMMA Bystander ==
  ASSUME NEW q \in Runners, run'[q] = run[q], feed' = feed,
         accepted \subseteq accepted',
         HoldsWholePage(q), PlansBeforeActing(q)
  PROVE  HoldsWholePage(q)' /\ PlansBeforeActing(q)'
BY DEF HoldsWholePage, PlansBeforeActing

(* A call that has ended holds nothing.                                    *)
LEMMA EndedCall ==
  ASSUME NEW r \in Runners, NEW result,
         run'[r] = [Idle EXCEPT !.outcome = result]
  PROVE  /\ HoldsWholePage(r)' /\ PlansBeforeActing(r)'
         /\ run'[r].pc = "idle"
<1>1. /\ run'[r].pc = "idle" /\ run'[r].page = {}
      /\ run'[r].planned = {} /\ run'[r].noops = {}
  BY DEF Idle
<1> QED
  BY <1>1 DEF HoldsWholePage, PlansBeforeActing

(* What a step of r owes to the other calls and to the stored checkpoint,  *)
(* when it does not write the checkpoint.                                  *)
LEMMA StepKeepsCallInvariant ==
  ASSUME TypeOK, CallInvariant, NEW r \in Runners,
         \A q \in Runners \ {r} : run'[q] = run[q],
         UNCHANGED <<feed, checkpoint>>, accepted \subseteq accepted',
         HoldsWholePage(r)', PlansBeforeActing(r)',
         run'[r].pc # "idle" =>
           \/ run'[r].snap = checkpoint
           \/ run[r].pc # "idle" /\ run'[r].snap = run[r].snap
  PROVE  CallInvariant'
<1>1. ASSUME NEW q \in Runners PROVE HoldsWholePage(q)' /\ PlansBeforeActing(q)'
  BY Bystander DEF CallInvariant
<1>2. GenerationIdentifies'
  BY DEF CallInvariant, GenerationIdentifies, TypeOK, Checkpoint
<1>3. (checkpoint.cursor <= Len(feed))'
  BY DEF CallInvariant
<1> QED
  BY <1>1, <1>2, <1>3 DEF CallInvariant

LEMMA EndKeepsCallInvariant ==
  ASSUME TypeOK, CallInvariant, NEW r \in Runners, NEW result \in Outcomes,
         Finish(r, result),
         UNCHANGED <<feed, checkpoint>>, accepted \subseteq accepted'
  PROVE  CallInvariant'
BY FinishType, EndedCall, StepKeepsCallInvariant

(* Another attempt changes nothing but the attempt.                        *)
LEMMA AttemptKeepsCallInvariant ==
  ASSUME TypeOK, CallInvariant, NEW r \in Runners, NextAttempt(r),
         UNCHANGED <<feed, checkpoint>>, accepted \subseteq accepted',
         run[r].pc # "idle"
  PROVE  CallInvariant'
<1>1. CASE run[r].attempt < MaxAttempts
  <2>1. run[r] \in Run
    BY DEF TypeOK
  <2>2. run'[r] = [run[r] EXCEPT !.attempt = @ + 1]
    BY <1>1 DEF NextAttempt, Becomes, TypeOK
  <2>3. \A q \in Runners \ {r} : run'[q] = run[q]
    BY <1>1 DEF NextAttempt, Becomes, TypeOK
  <2>4. /\ run'[r].pc = run[r].pc /\ run'[r].snap = run[r].snap
        /\ run'[r].page = run[r].page /\ run'[r].next = run[r].next
        /\ run'[r].more = run[r].more /\ run'[r].planned = run[r].planned
        /\ run'[r].noops = run[r].noops
    BY <2>1, <2>2 DEF Run
  <2>5. HoldsWholePage(r)' /\ PlansBeforeActing(r)'
    BY <2>4 DEF CallInvariant, HoldsWholePage, PlansBeforeActing
  <2> QED
    BY <2>3, <2>4, <2>5, StepKeepsCallInvariant
<1>2. CASE ~(run[r].attempt < MaxAttempts)
  BY <1>2, EndKeepsCallInvariant DEF NextAttempt, Outcomes
<1> QED
  BY <1>1, <1>2

LEMMA Moves ==
  ASSUME TypeOK, NEW r \in Runners, NEW call, Becomes(r, call)
  PROVE  run'[r] = call /\ \A q \in Runners \ {r} : run'[q] = run[q]
BY DEF Becomes, TypeOK

LEMMA InitCallInvariant == Init => CallInvariant
BY DEF Init, CallInvariant, GenerationIdentifies, HoldsWholePage,
       PlansBeforeActing, Idle, NoCheckpoint

LEMMA SourceKeepsCallInvariant ==
  ASSUME TypeOK, CallInvariant, SourceChanges
  PROVE  CallInvariant'
<1>1. PICK c \in SourceChange : feed' = Append(feed, c)
  BY DEF SourceChanges
<1>2. UNCHANGED <<accepted, checkpoint, run>>
  BY DEF SourceChanges
<1>3. Len(feed') = Len(feed) + 1 /\ Len(feed) \in Nat
  BY <1>1 DEF TypeOK
<1>4. ASSUME NEW q \in Runners PROVE HoldsWholePage(q)'
  <2>1. run[q] \in Run
    BY DEF TypeOK
  <2> QED
    BY <1>1, <1>2, <1>3, <2>1, FeedGrows
       DEF CallInvariant, HoldsWholePage, Run, Checkpoint
<1>5. ASSUME NEW q \in Runners PROVE PlansBeforeActing(q)'
  <2>1. \A p \in run[q].noops : p \in 1 .. Len(feed)
    <3>1. run[q] \in Run
      BY DEF TypeOK
    <3>2. run[q].noops \subseteq run[q].page
      BY DEF CallInvariant, PlansBeforeActing
    <3>3. run[q].pc \in {"idle", "list"} => run[q].page = {}
      BY DEF CallInvariant, PlansBeforeActing
    <3>4. run[q].pc \notin {"idle", "list"} =>
            /\ run[q].page \subseteq (run[q].snap.cursor + 1) .. run[q].next
            /\ run[q].next <= Len(feed)
      BY <3>1 DEF CallInvariant, HoldsWholePage, Run, Stages
    <3> QED
      BY <1>3, <3>1, <3>2, <3>3, <3>4 DEF Run, Checkpoint
  <2>2. \A p \in run[q].noops : feed'[p] = feed[p]
    BY <1>1, <2>1, FeedGrows
  <2> QED
    BY <1>2, <2>2 DEF CallInvariant, PlansBeforeActing
<1>6. GenerationIdentifies'
  BY <1>2 DEF CallInvariant, GenerationIdentifies
<1> QED
  BY <1>2, <1>3, <1>4, <1>5, <1>6 DEF CallInvariant, TypeOK, Checkpoint

LEMMA StepCallInvariant ==
  ASSUME TypeOK, CallInvariant, NEW r \in Runners, Step(r) \/ Disturbance(r)
  PROVE  CallInvariant'
<1>0. run[r] \in Run /\ Len(feed) \in Nat /\ checkpoint \in Checkpoint
  BY DEF TypeOK
<1>1. CASE Load(r)
  <2>1. Becomes(r, [run[r] EXCEPT !.pc = "list", !.snap = checkpoint,
                                  !.outcome = "none"])
    BY <1>1 DEF Load
  <2>2. /\ run'[r].pc = "list" /\ run'[r].snap = checkpoint
        /\ run'[r].page = run[r].page /\ run'[r].planned = run[r].planned
        /\ run'[r].noops = run[r].noops
    <3>1. run'[r] = [run[r] EXCEPT !.pc = "list", !.snap = checkpoint,
            !.outcome = "none"]
      BY <2>1, Moves
    <3> QED
      BY <1>0, <3>1 DEF Run
  <2>3. HoldsWholePage(r)' /\ PlansBeforeActing(r)'
    BY <1>1, <2>2 DEF Load, CallInvariant, HoldsWholePage, PlansBeforeActing
  <2> QED
    BY <1>1, <2>1, <2>2, <2>3, Moves, StepKeepsCallInvariant DEF Load
<1>2. CASE List(r)
  <2>1. PICK n \in run[r].snap.cursor .. Len(feed) :
          /\ CursorAdvances(run[r].snap.cursor, n, n < Len(feed))
          /\ Becomes(r, [run[r] EXCEPT !.pc = "plan",
                           !.page = Listed(feed, run[r].snap.cursor, n),
                           !.next = n, !.more = n < Len(feed), !.attempt = 1])
    BY <1>2 DEF List
  <2>2. /\ run'[r].pc = "plan" /\ run'[r].snap = run[r].snap
        /\ run'[r].page = Listed(feed, run[r].snap.cursor, n)
        /\ run'[r].next = n /\ run'[r].more = (n < Len(feed))
        /\ run'[r].planned = run[r].planned /\ run'[r].noops = run[r].noops
    <3>1. run'[r] = [run[r] EXCEPT !.pc = "plan",
            !.page = Listed(feed, run[r].snap.cursor, n),
            !.next = n, !.more = n < Len(feed), !.attempt = 1]
      BY <2>1, Moves
    <3> QED
      BY <1>0, <3>1 DEF Run
  <2>3. run[r].snap.cursor \in Nat /\ run[r].pc = "list"
    BY <1>0, <1>2 DEF Run, Checkpoint, List
  <2>4. run[r].planned = {} /\ run[r].noops = {}
    BY <2>3 DEF CallInvariant, PlansBeforeActing
  <2>5. HoldsWholePage(r)'
    <3>1. UNCHANGED feed /\ n \in Nat /\ run[r].snap.cursor <= n /\ n <= Len(feed)
      BY <1>0, <1>2, <2>1, <2>3 DEF List
    <3>2. n < Len(feed) => run[r].snap.cursor < n
      BY <2>1, <2>3, <3>1 DEF CursorAdvances
    <3>3. /\ run'[r].page \subseteq (run[r].snap.cursor + 1) .. n
          /\ \A p \in (run[r].snap.cursor + 1) .. n :
               p \in run'[r].page \/ Superseded(feed, p)
      BY <2>2 DEF Listed
    <3> QED
      BY <2>2, <3>1, <3>2, <3>3 DEF HoldsWholePage
  <2>6. PlansBeforeActing(r)'
    BY <2>2, <2>4 DEF PlansBeforeActing
  <2> QED
    BY <1>2, <2>1, <2>2, <2>3, <2>5, <2>6, Moves, StepKeepsCallInvariant DEF List
<1>3. CASE PlanDelete(r)
  <2>1. PICK p \in run[r].page :
          /\ IsNext(r, p) /\ feed[p].kind = "delete"
          /\ Becomes(r, [run[r] EXCEPT !.planned = @ \cup {p},
               !.noops = IF live[feed[p].record] = 0 THEN @ \cup {p} ELSE @])
    BY <1>3 DEF PlanDelete
  <2>2. /\ run'[r].pc = run[r].pc /\ run'[r].snap = run[r].snap
        /\ run'[r].page = run[r].page /\ run'[r].next = run[r].next
        /\ run'[r].more = run[r].more /\ run'[r].planned = run[r].planned \cup {p}
        /\ run'[r].noops \in {run[r].noops, run[r].noops \cup {p}}
    <3>1. run'[r] = [run[r] EXCEPT !.planned = @ \cup {p},
            !.noops = IF live[feed[p].record] = 0 THEN @ \cup {p} ELSE @]
      BY <2>1, Moves
    <3> QED
      BY <1>0, <3>1 DEF Run
  <2>3. run[r].pc = "plan"
    BY <2>1 DEF IsNext
  <2>4. HoldsWholePage(r)'
    BY <1>3, <2>2 DEF CallInvariant, HoldsWholePage, PlanDelete
  <2>5. PlansBeforeActing(r)'
    BY <1>3, <2>1, <2>2, <2>3 DEF CallInvariant, PlansBeforeActing, PlanDelete
  <2> QED
    BY <1>3, <2>1, <2>2, <2>3, <2>4, <2>5, Moves, StepKeepsCallInvariant
       DEF PlanDelete
<1>4. CASE PlanUpsert(r)
  <2>1. PICK p \in run[r].page :
          /\ IsNext(r, p)
          /\ Becomes(r, [run[r] EXCEPT !.planned = @ \cup {p}, !.attempt = 1])
    BY <1>4 DEF PlanUpsert
  <2>2. /\ run'[r].pc = run[r].pc /\ run'[r].snap = run[r].snap
        /\ run'[r].page = run[r].page /\ run'[r].next = run[r].next
        /\ run'[r].more = run[r].more /\ run'[r].planned = run[r].planned \cup {p}
        /\ run'[r].noops = run[r].noops
    <3>1. run'[r] = [run[r] EXCEPT !.planned = @ \cup {p}, !.attempt = 1]
      BY <2>1, Moves
    <3> QED
      BY <1>0, <3>1 DEF Run
  <2>3. run[r].pc = "plan"
    BY <2>1 DEF IsNext
  <2>4. HoldsWholePage(r)'
    BY <1>4, <2>2 DEF CallInvariant, HoldsWholePage, PlanUpsert
  <2>5. PlansBeforeActing(r)'
    BY <1>4, <2>1, <2>2, <2>3 DEF CallInvariant, PlansBeforeActing, PlanUpsert
  <2> QED
    BY <1>4, <2>1, <2>2, <2>3, <2>4, <2>5, Moves, StepKeepsCallInvariant
       DEF PlanUpsert
<1>5. CASE FinishPlanning(r)
  <2>1. CASE r \in DryRunners
    BY <1>5, <2>1, EndKeepsCallInvariant DEF FinishPlanning, Outcomes
  <2>2. CASE r \notin DryRunners
    <3>1. Becomes(r, [run[r] EXCEPT
                        !.pc = IF Actionable(r) = {} THEN "commit" ELSE "publish",
                        !.attempt = 1])
      BY <1>5, <2>2 DEF FinishPlanning
    <3>2. /\ run'[r].pc = (IF Actionable(r) = {} THEN "commit" ELSE "publish")
          /\ run'[r].snap = run[r].snap /\ run'[r].page = run[r].page
          /\ run'[r].next = run[r].next /\ run'[r].more = run[r].more
          /\ run'[r].planned = run[r].planned /\ run'[r].noops = run[r].noops
      <4>1. run'[r] = [run[r] EXCEPT
            !.pc = IF Actionable(r) = {} THEN "commit" ELSE "publish",
            !.attempt = 1]
        BY <3>1, Moves
      <4> QED
        BY <1>0, <4>1 DEF Run
    <3>3. HoldsWholePage(r)'
      BY <1>5, <3>2 DEF CallInvariant, HoldsWholePage, FinishPlanning
    <3>4. PlansBeforeActing(r)'
      BY <1>5, <2>2, <3>2
         DEF CallInvariant, PlansBeforeActing, FinishPlanning, Actionable
    <3> QED
      BY <1>5, <3>1, <3>2, <3>3, <3>4, Moves, StepKeepsCallInvariant
         DEF FinishPlanning
  <2> QED
    BY <2>1, <2>2
<1>6. CASE Publish(r)
  <2>1. Becomes(r, [run[r] EXCEPT !.pc = "commit"])
    BY <1>6 DEF Publish
  <2>2. accepted' = accepted \cup Actionable(r)
    BY <1>6 DEF Publish, ReceiptMatches, Apply
  <2>3. /\ run'[r].pc = "commit" /\ run'[r].snap = run[r].snap
        /\ run'[r].page = run[r].page /\ run'[r].next = run[r].next
        /\ run'[r].more = run[r].more /\ run'[r].planned = run[r].planned
        /\ run'[r].noops = run[r].noops
    <3>1. run'[r] = [run[r] EXCEPT !.pc = "commit"]
      BY <2>1, Moves
    <3> QED
      BY <1>0, <3>1 DEF Run
  <2>4. HoldsWholePage(r)'
    BY <1>6, <2>3 DEF CallInvariant, HoldsWholePage, Publish
  <2>5. PlansBeforeActing(r)'
    BY <1>6, <2>2, <2>3 DEF CallInvariant, PlansBeforeActing, Publish, Actionable
  <2> QED
    BY <1>6, <2>1, <2>2, <2>3, <2>4, <2>5, Moves, StepKeepsCallInvariant DEF Publish
<1>7. CASE RejectReceipt(r)
  BY <1>7, EndKeepsCallInvariant DEF RejectReceipt, Apply, Outcomes
<1>8. CASE PublishUnacknowledged(r)
  BY <1>8, AttemptKeepsCallInvariant DEF PublishUnacknowledged, Apply
<1>9. CASE CallFails(r)
  BY <1>9, AttemptKeepsCallInvariant DEF CallFails, Retried, IsNext
<1>10. CASE Commit(r) \/ CommitUnreported(r)
  <2>1. PICK result \in Outcomes : Finish(r, result)
    BY <1>10 DEF Commit, CommitUnreported, Outcomes
  <2>2. /\ run[r].pc = "commit" /\ checkpoint' = Replacement(r)
        /\ run[r].snap = checkpoint /\ UNCHANGED <<feed, accepted>>
    BY <1>10 DEF Commit, CommitUnreported, Unchanged
  <2>3. \A q \in Runners \ {r} : run'[q] = run[q]
    BY <2>1, FinishType
  <2>4. run'[r] = [Idle EXCEPT !.outcome = result]
    BY <2>1, FinishType
  <2>5. ASSUME NEW q \in Runners PROVE HoldsWholePage(q)' /\ PlansBeforeActing(q)'
    <3>1. CASE q = r
      BY <2>4, <3>1, EndedCall
    <3>2. CASE q # r
      BY <2>2, <2>3, <3>2, Bystander DEF CallInvariant
    <3> QED
      BY <3>1, <3>2
  <2>6. /\ checkpoint'.generation = checkpoint.generation + 1
        /\ checkpoint'.cursor = run[r].next
    BY <2>2 DEF Replacement
  <2>7. GenerationIdentifies'
    <3> SUFFICES ASSUME NEW q \in Runners, run'[q].pc # "idle"
                 PROVE  /\ run'[q].snap.generation <= checkpoint'.generation
                        /\ run'[q].snap.generation # checkpoint'.generation
      BY DEF GenerationIdentifies
    <3>1. q # r
      BY <2>4, EndedCall
    <3>2. run'[q] = run[q] /\ run[q] \in Run
      BY <3>1, <2>3 DEF TypeOK
    <3>3. run[q].snap.generation <= checkpoint.generation
      BY <3>2 DEF CallInvariant, GenerationIdentifies
    <3> QED
      BY <1>0, <2>6, <3>2, <3>3 DEF Run, Checkpoint
  <2>8. (checkpoint.cursor <= Len(feed))'
    BY <2>2, <2>6 DEF CallInvariant, HoldsWholePage
  <2> QED
    BY <2>5, <2>7, <2>8 DEF CallInvariant
<1>11. CASE Conflict(r) \/ RejectBatch(r) \/ Abort(r) \/ RejectRecord(r)
  BY <1>11, EndKeepsCallInvariant
     DEF Conflict, RejectBatch, Abort, RejectRecord, Outcomes
<1> QED
  BY <1>1, <1>2, <1>3, <1>4, <1>5, <1>6, <1>7, <1>8, <1>9, <1>10, <1>11
     DEF Step, Disturbance

(* TypeOK and CallInvariant together are inductive.                        *)
LEMMA NextCallInvariant == TypeOK /\ CallInvariant /\ [Next]_vars => CallInvariant'
<1> SUFFICES ASSUME TypeOK, CallInvariant, [Next]_vars PROVE CallInvariant'
  OBVIOUS
<1>1. CASE UNCHANGED vars
  BY <1>1 DEF vars, CallInvariant, GenerationIdentifies, HoldsWholePage,
              PlansBeforeActing
<1> QED
  BY <1>1, SourceKeepsCallInvariant, StepCallInvariant DEF Next, Rest

(* At any time every call holds the whole page it will commit, acts only   *)
(* on a completed plan, and started from a checkpoint its generation       *)
(* identifies.                                                             *)
THEOREM CallsAreSound == Spec => []CallInvariant
<1>1. Init => CallInvariant
  BY InitCallInvariant
<1>2. TypeOK /\ CallInvariant /\ [Next]_vars => CallInvariant'
  BY NextCallInvariant
<1> QED
  BY <1>1, <1>2, TypeCorrect, PTL DEF Spec

(* compare_and_set never mistakes an older checkpoint for the stored one.  *)
THEOREM GenerationsIdentify == Spec => []GenerationIdentifies
<1>1. CallInvariant => GenerationIdentifies
  BY DEF CallInvariant
<1> QED
  BY <1>1, CallsAreSound, PTL

-----------------------------------------------------------------------------
(* No change is skipped *)

(* What a committing call adds to the covered part of the feed is settled. *)
LEMMA CommitSettles ==
  ASSUME TypeOK, CallInvariant, NothingSkipped, NEW r \in Runners,
         Commit(r) \/ CommitUnreported(r)
  PROVE  NothingSkipped'
<1>1. /\ run[r].pc = "commit" /\ run[r].snap = checkpoint
      /\ checkpoint'.cursor = run[r].next
      /\ skipped' = skipped \cup run[r].noops
      /\ UNCHANGED <<feed, accepted>>
  BY DEF Commit, CommitUnreported, Unchanged, Replacement
<1>2. /\ run[r].page \subseteq accepted \cup run[r].noops
      /\ \A p \in (checkpoint.cursor + 1) .. run[r].next :
           p \in run[r].page \/ Superseded(feed, p)
  BY <1>1 DEF CallInvariant, HoldsWholePage, PlansBeforeActing
<1>3. checkpoint.cursor \in Nat /\ run[r].next \in Nat
  BY DEF TypeOK, Checkpoint, Run
<1> SUFFICES ASSUME NEW p \in 1 .. run[r].next
             PROVE  p \in accepted \cup skipped' \/ Superseded(feed, p)
  BY <1>1 DEF NothingSkipped, Settled, Superseded, IsCurrent
<1>4. CASE p <= checkpoint.cursor
  BY <1>1, <1>3, <1>4 DEF NothingSkipped, Settled
<1>5. CASE ~(p <= checkpoint.cursor)
  <2>1. p \in (checkpoint.cursor + 1) .. run[r].next
    BY <1>3, <1>5
  <2> QED
    BY <1>1, <1>2, <2>1
<1> QED
  BY <1>4, <1>5

(* Steps that leave the checkpoint alone only settle more.                 *)
LEMMA MoreIsSettled ==
  ASSUME NothingSkipped, UNCHANGED <<feed, checkpoint>>,
         accepted \subseteq accepted', skipped \subseteq skipped'
  PROVE  NothingSkipped'
BY DEF NothingSkipped, Settled, Superseded, IsCurrent

LEMMA StepNothingSkipped ==
  ASSUME TypeOK, CallInvariant, NothingSkipped, NEW r \in Runners,
         Step(r) \/ Disturbance(r)
  PROVE  NothingSkipped'
<1>1. CASE Commit(r) \/ CommitUnreported(r)
  BY <1>1, CommitSettles
<1>2. CASE ~(Commit(r) \/ CommitUnreported(r))
  <2>1. UNCHANGED <<feed, checkpoint, skipped>> /\ accepted \subseteq accepted'
    BY <1>2 DEF Step, Disturbance, Load, List, PlanDelete, PlanUpsert,
                RejectRecord, FinishPlanning, Publish, Conflict, RejectBatch,
                CallFails, PublishUnacknowledged, RejectReceipt, Abort, Apply
  <2> QED
    BY <2>1, MoreIsSettled
<1> QED
  BY <1>1, <1>2

LEMMA SourceNothingSkipped ==
  ASSUME TypeOK, CallInvariant, NothingSkipped, SourceChanges
  PROVE  NothingSkipped'
<1>1. PICK c \in SourceChange : feed' = Append(feed, c)
  BY DEF SourceChanges
<1>2. UNCHANGED <<accepted, checkpoint, skipped>>
  BY DEF SourceChanges
<1>3. \A p \in 1 .. checkpoint.cursor : p \in 1 .. Len(feed)
  BY DEF CallInvariant, TypeOK, Checkpoint
<1> QED
  BY <1>1, <1>2, <1>3, FeedGrows DEF NothingSkipped, Settled

(* The checkpoint never covers a change that the sink has not applied,     *)
(* whatever the number of runners, failures and crashes.                   *)
THEOREM NeverSkips == Spec => []NothingSkipped
<1>1. Init => NothingSkipped
  BY DEF Init, NoCheckpoint, NothingSkipped
<1>2. TypeOK /\ CallInvariant /\ NothingSkipped /\ [Next]_vars => NothingSkipped'
  <2> SUFFICES ASSUME TypeOK, CallInvariant, NothingSkipped, [Next]_vars
               PROVE  NothingSkipped'
    OBVIOUS
  <2>1. CASE UNCHANGED vars
    BY <2>1, MoreIsSettled DEF vars
  <2> QED
    BY <2>1, SourceNothingSkipped, StepNothingSkipped DEF Next, Rest
<1> QED
  BY <1>1, <1>2, TypeCorrect, CallsAreSound, PTL DEF Spec

-----------------------------------------------------------------------------
(* Action properties *)

(* Only Commit and CommitUnreported write the checkpoint, from a snapshot  *)
(* that is still the stored row.                                           *)
THEOREM CheckpointsFormAChain == Spec => CheckpointChain
<1> DEFINE Link ==
      /\ checkpoint' # checkpoint =>
           \E r \in Runners :
             /\ run[r].pc = "commit"
             /\ run[r].snap = checkpoint
             /\ checkpoint'.generation = checkpoint.generation + 1
             /\ checkpoint'.cursor = run[r].next
             /\ checkpoint'.cursor >= checkpoint.cursor
             /\ run[r].more => checkpoint'.cursor > checkpoint.cursor
      /\ \A r \in Runners :
           run[r].pc = "commit" /\ run'[r].pc = "idle" /\ run'[r].outcome = "advanced"
             => checkpoint' # checkpoint
<1>1. ASSUME TypeOK, CallInvariant, NEW r \in Runners, Commit(r) \/ CommitUnreported(r)
      PROVE  Link
  <2>1. /\ run[r].pc = "commit" /\ run[r].snap = checkpoint
        /\ checkpoint'.generation = checkpoint.generation + 1
        /\ checkpoint'.cursor = run[r].next
    BY <1>1 DEF Commit, CommitUnreported, Unchanged, Replacement
  <2>2. /\ checkpoint.cursor \in Nat /\ checkpoint.generation \in Nat
        /\ run[r].next \in Nat
    BY <1>1 DEF TypeOK, Checkpoint, Run
  <2>3. /\ checkpoint.cursor <= run[r].next
        /\ run[r].more => checkpoint.cursor < run[r].next
    BY <1>1, <2>1 DEF CallInvariant, HoldsWholePage
  <2>4. checkpoint' # checkpoint
    BY <2>1, <2>2
  <2> QED
    BY <2>1, <2>2, <2>3, <2>4
<1>2. ASSUME TypeOK, CallInvariant, NEW r \in Runners, Step(r) \/ Disturbance(r),
             ~(Commit(r) \/ CommitUnreported(r))
      PROVE  Link
  <2>1. UNCHANGED checkpoint
    BY <1>2 DEF Step, Disturbance, Load, List, PlanDelete, PlanUpsert,
                RejectRecord, FinishPlanning, Publish, Conflict, RejectBatch,
                CallFails, PublishUnacknowledged, RejectReceipt, Abort
  <2> SUFFICES ASSUME NEW q \in Runners, run[q].pc = "commit",
                      run'[q].pc = "idle", run'[q].outcome = "advanced"
               PROVE  FALSE
    BY <2>1
  <2>2. CASE q = r
    <3>1. Conflict(r) \/ Abort(r)
      BY <1>2, <2>2 DEF Step, Disturbance, Load, List, PlanDelete, PlanUpsert,
         RejectRecord, FinishPlanning, Publish, RejectBatch, CallFails, Retried,
         PublishUnacknowledged, RejectReceipt, IsNext
    <3>2. Finish(r, "conflict") \/ Finish(r, "failed")
      BY <3>1 DEF Conflict, Abort
    <3>3. run'[r].outcome \in {"conflict", "failed"}
      BY <1>2, <3>2, FinishType DEF Outcomes, Idle
    <3> QED
      BY <2>2, <3>3
  <2>3. CASE q # r
    <3>1. run'[q] = run[q]
      BY <1>2, <2>3 DEF Step, Disturbance, Load, List, PlanDelete, PlanUpsert,
         RejectRecord, FinishPlanning, Publish, Conflict, RejectBatch,
         CallFails, PublishUnacknowledged, RejectReceipt, Abort, NextAttempt,
         Finish, Becomes, TypeOK
    <3> QED
      BY <3>1
  <2> QED
    BY <2>2, <2>3
<1>3. ASSUME SourceChanges \/ UNCHANGED vars
      PROVE  Link
  BY <1>3 DEF SourceChanges, vars
<1>4. TypeOK /\ CallInvariant /\ [Next]_vars => [Link]_vars
  BY <1>1, <1>2, <1>3 DEF Next, Rest
<1> QED
  BY <1>4, TypeCorrect, CallsAreSound, PTL DEF Spec, CheckpointChain

(* Publishing and committing belong to calls that are not dry runs.        *)
THEOREM DryRunsHaveNoEffect == Spec => EffectsNeedRealRuns
<1> DEFINE Effect ==
      accepted' # accepted \/ live' # live \/ checkpoint' # checkpoint =>
        \E r \in Runners \ DryRunners :
          run[r].pc \in {"publish", "commit"} /\ run'[r] # run[r]
<1>1. ASSUME TypeOK, CallInvariant, NEW r \in Runners,
             Step(r) \/ Disturbance(r)
      PROVE  Effect
  <2>1. CASE run[r].pc \in {"publish", "commit"}
    <3>1. r \notin DryRunners
      BY <1>1, <2>1 DEF CallInvariant, PlansBeforeActing
    <3>2. CASE Publish(r)
      <4>1. run'[r] = [run[r] EXCEPT !.pc = "commit"] /\ run[r].pc = "publish"
        BY <1>1, <3>2, Moves DEF Publish
      <4>2. run'[r].pc = "commit"
        BY <1>1, <4>1 DEF TypeOK, Run
      <4> QED
        BY <3>1, <4>1, <4>2
    <3>3. CASE NextAttempt(r) /\ run[r].attempt < MaxAttempts
      <4>1. run'[r] = [run[r] EXCEPT !.attempt = @ + 1] /\ run[r] \in Run
        BY <1>1, <3>3, Moves DEF NextAttempt, TypeOK
      <4>2. run'[r].attempt # run[r].attempt
        BY <4>1 DEF Run
      <4> QED
        BY <2>1, <3>1, <4>2
    <3>4. ASSUME NEW result \in Outcomes, Finish(r, result)
          PROVE  Effect
      BY <1>1, <2>1, <3>1, <3>4, FinishType, EndedCall
    <3>5. CASE ~(NextAttempt(r) /\ run[r].attempt < MaxAttempts) /\ ~Publish(r)
      BY <1>1, <2>1, <3>4, <3>5
         DEF Step, Disturbance, Load, List, PlanDelete, PlanUpsert, IsNext,
             RejectRecord, FinishPlanning, Conflict, RejectBatch, CallFails,
             PublishUnacknowledged, RejectReceipt, Abort, Commit,
             CommitUnreported, NextAttempt, Outcomes
    <3> QED
      BY <3>2, <3>3, <3>5
  <2>2. CASE run[r].pc \notin {"publish", "commit"}
    BY <1>1, <2>2 DEF Step, Disturbance, Load, List, PlanDelete, PlanUpsert,
       RejectRecord, FinishPlanning, Publish, Conflict, RejectBatch,
       CallFails, PublishUnacknowledged, RejectReceipt, Abort, Commit, CommitUnreported
  <2> QED
    BY <2>1, <2>2
<1>2. ASSUME SourceChanges \/ UNCHANGED vars
      PROVE  Effect
  BY <1>2 DEF SourceChanges, vars
<1>3. TypeOK /\ CallInvariant /\ [Next]_vars => [Effect]_vars
  BY <1>1, <1>2 DEF Next, Rest
<1> QED
  BY <1>3, TypeCorrect, CallsAreSound, PTL DEF Spec, EffectsNeedRealRuns

-----------------------------------------------------------------------------
(* Refinement *)

(* What a call publishes are changes the feed has announced.               *)
LEMMA PublishesAnnounced ==
  ASSUME TypeOK, CallInvariant, NEW r \in Runners, run[r].pc = "publish"
  PROVE  Actionable(r) \subseteq 1 .. Len(feed)
<1>1. /\ run[r].page \subseteq (run[r].snap.cursor + 1) .. run[r].next
      /\ run[r].next <= Len(feed)
  BY DEF CallInvariant, HoldsWholePage
<1>2. run[r].snap.cursor \in Nat /\ run[r].next \in Nat /\ Len(feed) \in Nat
  BY DEF TypeOK, Run, Checkpoint
<1> QED
  BY <1>1, <1>2 DEF Actionable

LEMMA CommitAcknowledges ==
  ASSUME TypeOK, CallInvariant, NEW r \in Runners,
         Commit(r) \/ CommitUnreported(r)
  PROVE  Promise!Acknowledge
<1>1. /\ run[r].pc = "commit" /\ run[r].snap = checkpoint
      /\ checkpoint'.cursor = run[r].next
      /\ skipped' = skipped \cup run[r].noops
      /\ UNCHANGED <<feed, accepted>>
  BY DEF Commit, CommitUnreported, Unchanged, Replacement
<1>2. /\ run[r].page \subseteq accepted \cup run[r].noops
      /\ run[r].noops \subseteq run[r].page
      /\ run[r].page \subseteq (checkpoint.cursor + 1) .. run[r].next
      /\ \A p \in run[r].noops : feed[p].kind = "delete"
      /\ \A p \in (checkpoint.cursor + 1) .. run[r].next :
           p \in run[r].page \/ Superseded(feed, p)
      /\ checkpoint.cursor <= run[r].next
      /\ run[r].next <= Len(feed)
  BY <1>1 DEF CallInvariant, HoldsWholePage, PlansBeforeActing
<1>3. run[r].next \in checkpoint.cursor .. Len(feed)
  BY <1>2 DEF TypeOK, Checkpoint, Run
<1>4. run[r].noops \in SUBSET {p \in (checkpoint.cursor + 1) .. run[r].next :
                                 feed[p].kind = "delete"}
  BY <1>2
<1>5. Promise!Listed(feed, checkpoint.cursor, run[r].next)
        \subseteq accepted \cup run[r].noops
  BY <1>2 DEF Promise!Listed, Promise!Superseded, Promise!IsCurrent,
              Superseded, IsCurrent
<1> QED
  BY <1>1, <1>3, <1>4, <1>5 DEF Promise!Acknowledge

(* The engine, with its retries, replays, crashes and races, implements    *)
(* the at-least-once delivery that docs/adr/0004 promises.                 *)
THEOREM ImplementsPromise == Spec => DeliversAtLeastOnce
<1>1. Init => Promise!Init
  BY DEF Init, NoCheckpoint, Promise!Init
<1>2. ASSUME TypeOK, CallInvariant, NEW r \in Runners,
             Step(r) \/ Disturbance(r)
      PROVE  Promise!Next \/ UNCHANGED Promise!vars
  <2>1. CASE Commit(r) \/ CommitUnreported(r)
    BY <1>2, <2>1, CommitAcknowledges DEF Promise!Next
  <2>2. CASE Publish(r) \/ PublishUnacknowledged(r) \/ RejectReceipt(r)
    <3>1. PICK ids \in SUBSET Actionable(r) : accepted' = accepted \cup ids
      BY <2>2 DEF Publish, PublishUnacknowledged, RejectReceipt, Apply
    <3>2. run[r].pc = "publish"
      BY <2>2 DEF Publish, PublishUnacknowledged, RejectReceipt
    <3>3. ids \in SUBSET (1 .. Len(feed))
      BY <1>2, <3>1, <3>2, PublishesAnnounced
    <3>4. UNCHANGED <<feed, skipped, checkpoint>>
      BY <2>2 DEF Publish, PublishUnacknowledged, RejectReceipt
    <3>5. Promise!Deliver
      BY <3>1, <3>3, <3>4 DEF Promise!Deliver
    <3> QED
      BY <3>5 DEF Promise!Next
  <2>3. CASE ~(Commit(r) \/ CommitUnreported(r))
             /\ ~(Publish(r) \/ PublishUnacknowledged(r) \/ RejectReceipt(r))
    BY <1>2, <2>3 DEF Step, Disturbance, Load, List, PlanDelete, PlanUpsert,
       RejectRecord, FinishPlanning, Conflict, RejectBatch, CallFails, Abort,
       Promise!vars
  <2> QED
    BY <2>1, <2>2, <2>3
<1>3. SourceChanges => Promise!Next
  BY DEF SourceChanges, Promise!Next, Promise!Change, SourceChange, ChangeKind,
         Promise!SourceChange, Promise!ChangeKind
<1>4. UNCHANGED vars => UNCHANGED Promise!vars
  BY DEF vars, Promise!vars
<1>5. TypeOK /\ CallInvariant /\ [Next]_vars => [Promise!Next]_(Promise!vars)
  BY <1>2, <1>3, <1>4 DEF Next, Rest
<1> QED
  BY <1>1, <1>5, TypeCorrect, CallsAreSound, PTL
     DEF Spec, Promise!Spec, DeliversAtLeastOnce

-----------------------------------------------------------------------------
(* What the sink publishes                                                 *)
(*                                                                         *)
(* PublishedIsCurrent does not hold of every configuration: as the run     *)
(* producer_stale shows, two runners on a delta feed break it, and on a    *)
(* feed of every change a sink that applies a part of a page can.  Two     *)
(* cases remain, each with an invariant of its own.                        *)

EveryChangeAtomic == ~LatestOnly /\ AtomicSink

SoleRunner == LatestOnly /\ \A q, r \in Runners \ DryRunners : q = r

(* What a step of r does to its own call ...                               *)
Ends(r) ==
  /\ run'[r].pc = "idle"
  /\ run'[r].page = {} /\ run'[r].planned = {} /\ run'[r].noops = {}

Loads(r) ==
  /\ run[r].pc = "idle" /\ run'[r].pc = "list"
  /\ run'[r].snap = checkpoint
  /\ run'[r].page = {} /\ run'[r].planned = {} /\ run'[r].noops = {}

Lists(r) ==
  /\ run[r].pc = "list" /\ run'[r].pc = "plan"
  /\ run'[r].snap = run[r].snap
  /\ run'[r].next \in run[r].snap.cursor .. Len(feed)
  /\ run'[r].page = Listed(feed, run[r].snap.cursor, run'[r].next)
  /\ run'[r].planned = {} /\ run'[r].noops = {}

KeepsPage(r) ==
  /\ run[r].pc # "idle" /\ run'[r].pc # "idle"
  /\ run'[r].snap = run[r].snap
  /\ run'[r].page = run[r].page /\ run'[r].next = run[r].next

Plans(r, p) ==
  /\ KeepsPage(r)
  /\ IsNext(r, p)
  /\ run'[r].planned = run[r].planned \cup {p}
  /\ feed[p].kind = "upsert" => IsCurrent(feed, p)
  /\ run'[r].noops =
       IF feed[p].kind = "delete" /\ live[feed[p].record] = 0
       THEN run[r].noops \cup {p} ELSE run[r].noops

Goes(r) ==
  /\ KeepsPage(r)
  /\ run'[r].planned = run[r].planned /\ run'[r].noops = run[r].noops

CallStep(r) ==
  Ends(r) \/ Loads(r) \/ Lists(r) \/ (\E p \in run[r].page : Plans(r, p)) \/ Goes(r)

(* ... and to the sink and the checkpoint.                                 *)
SinkStep(r) ==
  \/ UNCHANGED <<accepted, live>>
  \/ /\ run[r].pc = "publish"
     /\ \E ids \in SUBSET Actionable(r) :
          Apply(ids) /\ (AtomicSink => ids = Actionable(r))

CheckpointStep(r) ==
  \/ UNCHANGED checkpoint
  \/ /\ run[r].pc = "commit" /\ Ends(r)
     /\ run[r].snap = checkpoint
     /\ checkpoint'.cursor = run[r].next

LEMMA FinishEnds ==
  ASSUME TypeOK, NEW r \in Runners, NEW result \in Outcomes, Finish(r, result)
  PROVE  Ends(r)
<1>1. run'[r] = [Idle EXCEPT !.outcome = result]
  BY FinishType
<1> QED
  BY <1>1 DEF Ends, Idle

LEMMA NextAttemptGoes ==
  ASSUME TypeOK, NEW r \in Runners, NextAttempt(r), run[r].pc # "idle"
  PROVE  Ends(r) \/ Goes(r)
<1>1. CASE run[r].attempt < MaxAttempts
  <2>1. run[r] \in Run /\ run'[r] = [run[r] EXCEPT !.attempt = @ + 1]
    BY <1>1 DEF NextAttempt, Becomes, TypeOK
  <2> QED
    BY <2>1 DEF Run, Goes, KeepsPage
<1>2. CASE ~(run[r].attempt < MaxAttempts)
  BY <1>2, FinishEnds DEF NextAttempt, Outcomes
<1> QED
  BY <1>1, <1>2

(* Every step is one of these.                                             *)
LEMMA EveryStep ==
  ASSUME TypeOK, CallInvariant, NEW r \in Runners, Step(r) \/ Disturbance(r)
  PROVE  /\ CallStep(r) /\ SinkStep(r) /\ CheckpointStep(r)
         /\ UNCHANGED feed
         /\ \A q \in Runners \ {r} : run'[q] = run[q]
<1>0. run[r] \in Run /\ run \in [Runners -> Run]
  BY DEF TypeOK
<1>1. UNCHANGED feed
  BY DEF Step, Disturbance, Load, List, PlanDelete, PlanUpsert, RejectRecord,
     FinishPlanning, Publish, Commit, Conflict, RejectBatch, CallFails,
     PublishUnacknowledged, RejectReceipt, CommitUnreported, Abort
<1>2. \A q \in Runners \ {r} : run'[q] = run[q]
  BY <1>0 DEF Step, Disturbance, Load, List, PlanDelete, PlanUpsert, RejectRecord,
     FinishPlanning, Publish, Commit, Conflict, RejectBatch, CallFails,
     PublishUnacknowledged, RejectReceipt, CommitUnreported, Abort, NextAttempt,
     Finish, Becomes
<1>3. SinkStep(r)
  <2>1. CASE Publish(r) \/ PublishUnacknowledged(r)
    <3>1. run[r].pc = "publish" /\ Apply(Actionable(r))
      BY <2>1 DEF Publish, ReceiptMatches, PublishUnacknowledged
    <3> QED
      BY <3>1 DEF SinkStep
  <2>2. CASE RejectReceipt(r)
    BY <2>2 DEF SinkStep, RejectReceipt
  <2>3. CASE ~(Publish(r) \/ PublishUnacknowledged(r) \/ RejectReceipt(r))
    BY <2>3 DEF SinkStep, Step, Disturbance, Load, List, PlanDelete, PlanUpsert,
       RejectRecord, FinishPlanning, Commit, Conflict, RejectBatch, CallFails,
       CommitUnreported, Abort
  <2> QED
    BY <2>1, <2>2, <2>3
<1>4. CheckpointStep(r)
  <2>1. CASE Commit(r) \/ CommitUnreported(r)
    <3>1. Ends(r)
      BY <2>1, FinishEnds DEF Commit, CommitUnreported, Outcomes
    <3> QED
      BY <2>1, <3>1
         DEF CheckpointStep, Commit, CommitUnreported, Unchanged, Replacement
  <2>2. CASE ~(Commit(r) \/ CommitUnreported(r))
    BY <2>2 DEF CheckpointStep, Step, Disturbance, Load, List, PlanDelete,
       PlanUpsert, RejectRecord, FinishPlanning, Publish, Conflict, RejectBatch,
       CallFails, PublishUnacknowledged, RejectReceipt, Abort
  <2> QED
    BY <2>1, <2>2
<1>5. CallStep(r)
  <2>1. CASE Load(r)
    <3>1. run'[r] = [run[r] EXCEPT !.pc = "list", !.snap = checkpoint, !.outcome = "none"]
      BY <1>0, <2>1 DEF Load, Becomes
    <3>2. run[r].page = {} /\ run[r].planned = {} /\ run[r].noops = {}
      BY <2>1 DEF Load, CallInvariant, PlansBeforeActing
    <3> QED
      BY <1>0, <2>1, <3>1, <3>2 DEF Load, Run, CallStep, Loads
  <2>2. CASE List(r)
    <3>1. PICK n \in run[r].snap.cursor .. Len(feed) :
            run'[r] = [run[r] EXCEPT !.pc = "plan",
                        !.page = Listed(feed, run[r].snap.cursor, n),
                        !.next = n, !.more = n < Len(feed), !.attempt = 1]
      BY <1>0, <2>2 DEF List, Becomes
    <3>2. run[r].planned = {} /\ run[r].noops = {}
      BY <2>2 DEF List, CallInvariant, PlansBeforeActing
    <3>3. /\ run'[r].pc = "plan" /\ run'[r].snap = run[r].snap /\ run'[r].next = n
          /\ run'[r].page = Listed(feed, run[r].snap.cursor, n)
          /\ run'[r].planned = {} /\ run'[r].noops = {}
      BY <1>0, <3>1, <3>2 DEF Run
    <3> QED
      BY <2>2, <3>3 DEF List, CallStep, Lists
  <2>3. CASE PlanDelete(r)
    <3>1. PICK p \in run[r].page :
            /\ IsNext(r, p) /\ feed[p].kind = "delete"
            /\ run'[r] = [run[r] EXCEPT !.planned = @ \cup {p},
                 !.noops = IF live[feed[p].record] = 0 THEN @ \cup {p} ELSE @]
      BY <1>0, <2>3 DEF PlanDelete, Becomes
    <3>2. KeepsPage(r)
      BY <1>0, <3>1 DEF Run, KeepsPage, IsNext
    <3>3. /\ run'[r].planned = run[r].planned \cup {p}
          /\ run'[r].noops = IF live[feed[p].record] = 0
                             THEN run[r].noops \cup {p} ELSE run[r].noops
      BY <1>0, <3>1 DEF Run
    <3>4. Plans(r, p)
      BY <3>1, <3>2, <3>3 DEF Plans
    <3> QED
      BY <3>4 DEF CallStep
  <2>4. CASE PlanUpsert(r)
    <3>1. PICK p \in run[r].page :
            /\ IsNext(r, p) /\ feed[p].kind = "upsert" /\ IsCurrent(feed, p)
            /\ run'[r] = [run[r] EXCEPT !.planned = @ \cup {p}, !.attempt = 1]
      BY <1>0, <2>4 DEF PlanUpsert, Becomes
    <3>2. KeepsPage(r)
      BY <1>0, <3>1 DEF Run, KeepsPage, IsNext
    <3>3. run'[r].planned = run[r].planned \cup {p} /\ run'[r].noops = run[r].noops
      BY <1>0, <3>1 DEF Run
    <3>4. Plans(r, p)
      BY <3>1, <3>2, <3>3 DEF Plans
    <3> QED
      BY <3>4 DEF CallStep
  <2>5. CASE FinishPlanning(r)
    <3>1. CASE r \in DryRunners
      BY <2>5, <3>1, FinishEnds DEF FinishPlanning, Outcomes, CallStep
    <3>2. CASE r \notin DryRunners
      <4>1. PICK stage \in {"commit", "publish"} :
              run'[r] = [run[r] EXCEPT !.pc = stage, !.attempt = 1]
        BY <1>0, <2>5, <3>2 DEF FinishPlanning, Becomes
      <4> QED
        BY <1>0, <2>5, <4>1 DEF FinishPlanning, Run, CallStep, Goes, KeepsPage
    <3> QED
      BY <3>1, <3>2
  <2>6. CASE Publish(r)
    <3>1. run'[r] = [run[r] EXCEPT !.pc = "commit"] /\ run[r].pc = "publish"
      BY <1>0, <2>6 DEF Publish, Becomes
    <3> QED
      BY <1>0, <3>1 DEF Run, CallStep, Goes, KeepsPage
  <2>7. CASE CallFails(r) \/ PublishUnacknowledged(r)
    <3>1. NextAttempt(r) /\ run[r].pc # "idle"
      BY <2>7 DEF CallFails, Retried, IsNext, PublishUnacknowledged
    <3> QED
      BY <3>1, NextAttemptGoes DEF CallStep
  <2>8. CASE \E result \in Outcomes : Finish(r, result)
    BY <2>8, FinishEnds DEF CallStep
  <2>9. CASE \/ RejectRecord(r) \/ Commit(r) \/ Conflict(r) \/ RejectBatch(r)
             \/ RejectReceipt(r) \/ CommitUnreported(r) \/ Abort(r)
    BY <2>8, <2>9 DEF RejectRecord, Commit, Conflict, RejectBatch, RejectReceipt,
       CommitUnreported, Abort, Outcomes
  <2> QED
    BY <2>1, <2>2, <2>3, <2>4, <2>5, <2>6, <2>7, <2>9 DEF Step, Disturbance
<1> QED
  BY <1>1, <1>2, <1>3, <1>4, <1>5

-----------------------------------------------------------------------------
(* A feed of every change and an atomic sink, with any number of runners   *)

(* A deletion is of a record that had an upsert since its last deletion.   *)
DeletesFollowUpserts ==
  \A p \in 1 .. Len(feed) : feed[p].kind = "delete" =>
    \E u \in 1 .. (p - 1) :
      /\ feed[u].record = feed[p].record
      /\ feed[u].kind = "upsert"
      /\ \A q \in (u + 1) .. (p - 1) : feed[q].record # feed[p].record

(* What the sink has applied is a prefix of the feed, and covers the       *)
(* checkpoint.                                                             *)
AcceptedIsPrefix ==
  /\ accepted \subseteq 1 .. Len(feed)
  /\ \A q \in accepted : 1 .. q \subseteq accepted
  /\ 1 .. checkpoint.cursor \subseteq accepted

(* The newest change the sink has applied to a record decides what it      *)
(* publishes of it.                                                        *)
LiveIsNewest ==
  \A rec \in Records :
    /\ live[rec] # 0 =>
         /\ live[rec] \in accepted
         /\ feed[live[rec]].record = rec
         /\ feed[live[rec]].kind = "upsert"
         /\ \A q \in accepted : feed[q].record = rec => q <= live[rec]
    /\ live[rec] = 0 =>
         \A p \in accepted : feed[p].record = rec /\ feed[p].kind = "upsert" =>
           \E q \in accepted : feed[q].record = rec /\ p < q

(* A call replays what is applied already up to its cursor, takes for a    *)
(* NOOP only what is applied too, and holds no upsert that its own page    *)
(* overtakes.                                                              *)
ReplaysSafely(r) ==
  /\ run[r].pc # "idle" => 1 .. run[r].snap.cursor \subseteq accepted
  /\ run[r].noops \subseteq accepted
  /\ \A p \in run[r].planned : feed[p].kind = "upsert" =>
       \A q \in (p + 1) .. run[r].next : feed[q].record # feed[p].record

ReplayInvariant ==
  /\ DeletesFollowUpserts
  /\ AcceptedIsPrefix
  /\ LiveIsNewest
  /\ \A r \in Runners : ReplaysSafely(r)

LEMMA InitReplay == Init => ReplayInvariant
BY DEF Init, ReplayInvariant, DeletesFollowUpserts, AcceptedIsPrefix,
       LiveIsNewest, ReplaysSafely, Idle, NoCheckpoint

LEMMA ChangeType ==
  ASSUME TypeOK, NEW p \in 1 .. Len(feed)
  PROVE  feed[p].record \in Records /\ feed[p].kind \in ChangeKind
<1>1. feed \in Seq(SourceChange)
  BY DEF TypeOK
<1>2. feed[p] \in SourceChange
  BY <1>1
<1> QED
  BY <1>2 DEF SourceChange

(* The positions a call works on.                                          *)
LEMMA PagePositions ==
  ASSUME TypeOK, CallInvariant, NEW r \in Runners
  PROVE  /\ run[r].planned \subseteq run[r].page
         /\ run[r].page \subseteq 1 .. Len(feed)
         /\ \A p \in run[r].page : run[r].snap.cursor < p /\ p <= run[r].next
         /\ run[r].page # {} => run[r].next <= Len(feed)
<1>1. run[r] \in Run /\ Len(feed) \in Nat
  BY DEF TypeOK
<1>2. CASE run[r].pc \in {"idle", "list"}
  BY <1>2 DEF CallInvariant, PlansBeforeActing
<1>3. CASE run[r].pc \in {"plan", "publish", "commit"}
  <2>1. /\ run[r].page \subseteq (run[r].snap.cursor + 1) .. run[r].next
        /\ run[r].next <= Len(feed) /\ run[r].planned \subseteq run[r].page
    BY <1>3 DEF CallInvariant, HoldsWholePage, PlansBeforeActing
  <2> QED
    BY <1>1, <2>1 DEF Run, Checkpoint
<1> QED
  BY <1>1, <1>2, <1>3 DEF Run, Stages

(* On a feed of every change, the page is everything in between.           *)
LEMMA PageIsInterval ==
  ASSUME TypeOK, CallInvariant, EveryChangeAtomic, NEW r \in Runners,
         run[r].pc \in {"plan", "publish", "commit"}
  PROVE  run[r].page = (run[r].snap.cursor + 1) .. run[r].next
BY DEF CallInvariant, HoldsWholePage, Superseded, EveryChangeAtomic

LEMMA SourceKeepsReplay ==
  ASSUME TypeOK, CallInvariant, ReplayInvariant, SourceChanges
  PROVE  ReplayInvariant'
<1>1. PICK c \in SourceChange :
        /\ c.kind = "delete" => SourceVersion(feed, c.record) # 0
        /\ feed' = Append(feed, c)
  BY DEF SourceChanges
<1>2. UNCHANGED <<accepted, live, checkpoint, run>>
  BY DEF SourceChanges
<1>3. /\ Len(feed') = Len(feed) + 1 /\ Len(feed) \in Nat
      /\ \A q \in 1 .. Len(feed) : feed'[q] = feed[q]
      /\ feed'[Len(feed) + 1] = c
  BY <1>1 DEF TypeOK
<1>4. DeletesFollowUpserts'
  <2> SUFFICES ASSUME NEW p \in 1 .. Len(feed'), feed'[p].kind = "delete"
               PROVE  \E u \in 1 .. (p - 1) :
                        /\ feed'[u].record = feed'[p].record
                        /\ feed'[u].kind = "upsert"
                        /\ \A q \in (u + 1) .. (p - 1) :
                             feed'[q].record # feed'[p].record
    BY DEF DeletesFollowUpserts
  <2>1. CASE p \in 1 .. Len(feed)
    <3>1. PICK u \in 1 .. (p - 1) :
            /\ feed[u].record = feed[p].record /\ feed[u].kind = "upsert"
            /\ \A q \in (u + 1) .. (p - 1) : feed[q].record # feed[p].record
      BY <1>3, <2>1 DEF ReplayInvariant, DeletesFollowUpserts
    <3> QED
      BY <1>3, <2>1, <3>1
  <2>2. CASE p = Len(feed) + 1
    <3>1. PICK u \in Present(feed) : feed[u].record = c.record
      BY <1>1, <1>3, <2>2 DEF SourceVersion
    <3>2. /\ u \in 1 .. Len(feed) /\ feed[u].kind = "upsert"
          /\ \A q \in (u + 1) .. Len(feed) : feed[q].record # c.record
      BY <3>1 DEF Present, IsCurrent
    <3> QED
      BY <1>3, <2>2, <3>1, <3>2
  <2> QED
    BY <1>3, <2>1, <2>2
<1>5. AcceptedIsPrefix' /\ \A p \in accepted : feed'[p] = feed[p]
  BY <1>2, <1>3 DEF ReplayInvariant, AcceptedIsPrefix
<1>6. LiveIsNewest'
  BY <1>2, <1>5 DEF ReplayInvariant, LiveIsNewest
<1>7. ASSUME NEW r \in Runners PROVE ReplaysSafely(r)'
  <2>1. \A p \in run[r].planned : p \in 1 .. Len(feed) /\ run[r].next <= Len(feed)
    BY PagePositions
  <2>2. \A p \in run[r].planned : \A q \in (p + 1) .. run[r].next :
          feed'[p] = feed[p] /\ feed'[q] = feed[q]
    <3>1. run[r].next \in Nat
      BY DEF TypeOK, Run
    <3> QED
      BY <1>3, <2>1, <3>1
  <2>3. \A p \in run[r].planned : feed'[p] = feed[p]
    BY <1>3, <2>1
  <2> QED
    BY <1>2, <2>2, <2>3 DEF ReplayInvariant, ReplaysSafely
<1> QED
  BY <1>4, <1>5, <1>6, <1>7 DEF ReplayInvariant

(* Publishing a page extends the prefix, or replays a part of it.          *)
LEMMA PublishExtendsPrefix ==
  ASSUME TypeOK, CallInvariant, ReplayInvariant, EveryChangeAtomic,
         NEW r \in Runners, run[r].pc = "publish", Apply(Actionable(r))
  PROVE  /\ accepted' = accepted \cup 1 .. run[r].next
         /\ accepted' \subseteq 1 .. Len(feed)
         /\ \A q \in accepted' : 1 .. q \subseteq accepted'
<1>0. run[r] \in Run /\ Len(feed) \in Nat
  BY DEF TypeOK
<1>1. run[r].page = (run[r].snap.cursor + 1) .. run[r].next
  BY PageIsInterval
<1>2. /\ 1 .. run[r].snap.cursor \subseteq accepted /\ run[r].noops \subseteq accepted
      /\ accepted \subseteq 1 .. Len(feed)
      /\ \A q \in accepted : 1 .. q \subseteq accepted
  BY DEF ReplayInvariant, ReplaysSafely, AcceptedIsPrefix
<1>3. run[r].snap.cursor <= run[r].next /\ run[r].next <= Len(feed)
  BY DEF CallInvariant, HoldsWholePage
<1>4. accepted' = accepted \cup run[r].page
  BY <1>2 DEF Apply, Actionable
<1>5. 1 .. run[r].next = 1 .. run[r].snap.cursor \cup run[r].page
  BY <1>0, <1>1, <1>3 DEF Run, Checkpoint
<1>6. accepted' = accepted \cup 1 .. run[r].next
  BY <1>2, <1>4, <1>5
<1>7. accepted' \subseteq 1 .. Len(feed)
  BY <1>0, <1>2, <1>3, <1>6 DEF Run
<1>8. ASSUME NEW q \in accepted' PROVE 1 .. q \subseteq accepted'
  <2>1. CASE q \in accepted
    BY <1>2, <1>6, <2>1
  <2>2. CASE q \in 1 .. run[r].next
    BY <1>0, <1>6, <2>2 DEF Run
  <2> QED
    BY <1>6, <2>1, <2>2
<1> QED
  BY <1>6, <1>7, <1>8

(* Everything new is newer than everything applied before.                 *)
LEMMA PublishKeepsNewest ==
  ASSUME TypeOK, CallInvariant, ReplayInvariant, EveryChangeAtomic,
         NEW r \in Runners, run[r].pc = "publish", Apply(Actionable(r)),
         UNCHANGED feed
  PROVE  LiveIsNewest'
<1> DEFINE new(rec) == {p \in Actionable(r) \ accepted : feed[p].record = rec}
           last(rec) == {p \in new(rec) : feed[p].kind = "upsert"
                           /\ \A q \in new(rec) : q <= p}
<1>0. Actionable(r) \subseteq 1 .. Len(feed) /\ Len(feed) \in Nat
  BY PagePositions DEF Actionable, TypeOK
<1>1. /\ accepted' = accepted \cup Actionable(r)
      /\ \A rec \in Records :
           live'[rec] = IF new(rec) = {} THEN live[rec]
                        ELSE IF last(rec) = {} THEN 0
                        ELSE CHOOSE p \in last(rec) : TRUE
  BY DEF Apply
<1>2. accepted \subseteq 1 .. Len(feed) /\ \A q \in accepted : 1 .. q \subseteq accepted
  BY DEF ReplayInvariant, AcceptedIsPrefix
<1>3. ASSUME NEW rec, NEW q \in new(rec), NEW p \in accepted
      PROVE  p < q
  <2>1. q \in 1 .. Len(feed) /\ q \notin accepted
    BY <1>0
  <2> QED
    BY <1>2, <2>1
<1>4. ASSUME NEW rec \in Records, NEW p \in accepted', feed[p].record = rec
      PROVE  p \in accepted \/ p \in new(rec)
  BY <1>1, <1>4
<1>5. ASSUME NEW rec PROVE new(rec) \subseteq accepted' /\ new(rec) \subseteq Nat
  BY <1>0, <1>1
<1>6. ASSUME NEW rec, NEW p \in new(rec) PROVE feed[p].record = rec
  OBVIOUS
<1>7. ASSUME NEW rec \in Records, live'[rec] # 0
      PROVE  /\ live'[rec] \in accepted'
             /\ feed[live'[rec]].record = rec
             /\ feed[live'[rec]].kind = "upsert"
             /\ \A q \in accepted' : feed[q].record = rec => q <= live'[rec]
  <2>1. CASE new(rec) = {}
    <3>1. live'[rec] = live[rec] /\ \A q \in accepted' : feed[q].record = rec => q \in accepted
      BY <1>1, <1>4, <2>1
    <3> QED
      BY <1>1, <1>7, <3>1 DEF ReplayInvariant, LiveIsNewest
  <2>2. CASE new(rec) # {}
    <3>1. live'[rec] \in last(rec)
      <4>1. last(rec) # {}
        BY <1>1, <1>7, <2>2
      <4>2. live'[rec] = CHOOSE p \in last(rec) : TRUE
        BY <1>1, <2>2, <4>1
      <4> QED
        BY <4>1, <4>2
    <3>2. /\ live'[rec] \in new(rec) /\ feed[live'[rec]].kind = "upsert"
          /\ \A q \in new(rec) : q <= live'[rec]
      BY <3>1
    <3>3. \A q \in accepted : q < live'[rec]
      BY <1>3, <3>2
    <3> HIDE DEF new, last
    <3>4. \A q \in accepted' : feed[q].record = rec => q <= live'[rec]
      <4> SUFFICES ASSUME NEW q \in accepted', feed[q].record = rec
                   PROVE  q <= live'[rec]
        OBVIOUS
      <4>1. CASE q \in accepted
        <5>1. q \in Nat /\ live'[rec] \in Nat /\ q < live'[rec]
          BY <1>2, <1>5, <3>2, <3>3, <4>1
        <5> QED
          BY <5>1
      <4>2. CASE q \in new(rec)
        BY <3>2, <4>2
      <4> QED
        BY <1>4, <4>1, <4>2
    <3> QED
      BY <1>5, <1>6, <3>2, <3>4
  <2> QED
    BY <2>1, <2>2
<1>8. ASSUME NEW rec \in Records, live'[rec] = 0, NEW p \in accepted',
             feed[p].record = rec, feed[p].kind = "upsert"
      PROVE  \E q \in accepted' : feed[q].record = rec /\ p < q
  <2>1. CASE new(rec) = {}
    <3>1. live[rec] = 0 /\ p \in accepted
      BY <1>1, <1>4, <1>8, <2>1
    <3> QED
      BY <1>1, <1>8, <3>1 DEF ReplayInvariant, LiveIsNewest
  <2>2. CASE new(rec) # {} /\ p \in accepted
    <3>1. PICK q \in new(rec) : TRUE
      BY <2>2
    <3>2. p < q /\ q \in accepted' /\ feed[q].record = rec
      BY <1>3, <1>5, <1>6, <2>2
    <3> QED
      BY <3>2
  <2>3. CASE p \in new(rec)
    <3>1. last(rec) = {}
      <4>1. SUFFICES ASSUME last(rec) # {} PROVE FALSE
        OBVIOUS
      <4>2. live'[rec] = CHOOSE m \in last(rec) : TRUE
        BY <1>1, <2>3, <4>1
      <4>3. live'[rec] \in last(rec)
        BY <4>1, <4>2
      <4>4. live'[rec] \in 1 .. Len(feed)
        BY <1>0, <4>3
      <4> QED
        BY <1>8, <4>4
    <3>2. PICK q \in new(rec) : ~(q <= p)
      BY <1>8, <2>3, <3>1
    <3>3. q \in Nat /\ p \in Nat /\ q \in accepted' /\ feed[q].record = rec
      BY <1>5, <1>6, <2>3
    <3> QED
      BY <3>2, <3>3
  <2> QED
    BY <1>4, <1>8, <2>1, <2>2, <2>3
<1> QED
  BY <1>7, <1>8 DEF LiveIsNewest

(* A deletion of a record the sink does not publish is a NOOP only when    *)
(* the sink has applied it before: the upsert it deletes is not in the     *)
(* page, so it was applied, and so was whatever removed it.                *)
LEMMA NoopsAreReplays ==
  ASSUME TypeOK, CallInvariant, ReplayInvariant, EveryChangeAtomic,
         NEW r \in Runners, NEW p \in run[r].page, IsNext(r, p),
         feed[p].kind = "delete", live[feed[p].record] = 0
  PROVE  p \in accepted
<1>0. p \in 1 .. Len(feed) /\ run[r] \in Run /\ Len(feed) \in Nat
  BY PagePositions DEF TypeOK
<1>1. /\ accepted \subseteq 1 .. Len(feed)
      /\ \A q \in accepted : 1 .. q \subseteq accepted
  BY DEF ReplayInvariant, AcceptedIsPrefix
<1>2. PICK u \in 1 .. (p - 1) :
        /\ feed[u].record = feed[p].record /\ feed[u].kind = "upsert"
        /\ \A q \in (u + 1) .. (p - 1) : feed[q].record # feed[p].record
  BY <1>0 DEF ReplayInvariant, DeletesFollowUpserts
<1>3. u \in 1 .. run[r].snap.cursor
  <2>1. /\ run[r].page = (run[r].snap.cursor + 1) .. run[r].next
        /\ p <= run[r].next
    BY PageIsInterval, PagePositions DEF IsNext
  <2>2. u \in Nat /\ p \in Nat /\ u < p /\ run[r].snap.cursor \in Nat
        /\ run[r].next \in Nat
    BY <1>0, <1>2 DEF Run, Checkpoint
  <2>3. u \notin run[r].page
    <3>1. SUFFICES ASSUME u \in run[r].page PROVE FALSE
      OBVIOUS
    <3>2. u \in run[r].planned
      BY <2>2, <3>1 DEF IsNext
    <3>3. \A q \in (u + 1) .. run[r].next : feed[q].record # feed[u].record
      BY <1>2, <3>2 DEF ReplayInvariant, ReplaysSafely
    <3>4. p \in (u + 1) .. run[r].next
      BY <2>1, <2>2
    <3> QED
      BY <1>2, <3>3, <3>4
  <2> QED
    BY <1>2, <2>1, <2>2, <2>3
<1>4. u \in accepted
  BY <1>3 DEF ReplayInvariant, ReplaysSafely, IsNext
<1>5. PICK q \in accepted : feed[q].record = feed[p].record /\ u < q
  <2> DEFINE rec == feed[p].record
  <2>1. rec \in Records
    BY <1>0, ChangeType
  <2>2. \A m \in accepted : feed[m].record = rec /\ feed[m].kind = "upsert" =>
          \E q \in accepted : feed[q].record = rec /\ m < q
    BY <2>1 DEF ReplayInvariant, LiveIsNewest
  <2> HIDE DEF rec
  <2>3. feed[u].record = rec /\ feed[u].kind = "upsert"
    BY <1>2 DEF rec
  <2>4. \E q \in accepted : feed[q].record = rec /\ u < q
    BY <1>4, <2>2, <2>3
  <2> QED
    BY <2>4 DEF rec
<1>6. q \in Nat /\ u \in Nat /\ p \in Nat
  BY <1>0, <1>1, <1>2, <1>5
<1>7. p <= q
  BY <1>2, <1>5, <1>6
<1> QED
  BY <1>0, <1>1, <1>5, <1>6, <1>7

LEMMA StepKeepsReplay ==
  ASSUME TypeOK, CallInvariant, ReplayInvariant, EveryChangeAtomic,
         NEW r \in Runners, Step(r) \/ Disturbance(r)
  PROVE  ReplayInvariant'
<1>0. /\ CallStep(r) /\ SinkStep(r) /\ CheckpointStep(r) /\ UNCHANGED feed
      /\ \A q \in Runners \ {r} : run'[q] = run[q]
  BY EveryStep
<1>1. \/ UNCHANGED <<accepted, live>>
      \/ run[r].pc = "publish" /\ Apply(Actionable(r))
  BY <1>0 DEF SinkStep, EveryChangeAtomic
<1>2. accepted \subseteq accepted'
  BY <1>1 DEF Apply
<1>3. DeletesFollowUpserts'
  BY <1>0 DEF ReplayInvariant, DeletesFollowUpserts
<1>4. LiveIsNewest'
  BY <1>0, <1>1, PublishKeepsNewest DEF ReplayInvariant, LiveIsNewest
<1>5. AcceptedIsPrefix'
  <2>1. /\ accepted' \subseteq 1 .. Len(feed')
        /\ \A q \in accepted' : 1 .. q \subseteq accepted'
    BY <1>0, <1>1, PublishExtendsPrefix DEF ReplayInvariant, AcceptedIsPrefix
  <2>2. CASE UNCHANGED checkpoint
    BY <1>2, <2>1, <2>2 DEF ReplayInvariant, AcceptedIsPrefix
  <2>3. CASE run[r].pc = "commit" /\ checkpoint'.cursor = run[r].next
    <3>1. run[r].page \subseteq accepted
      BY <2>3 DEF CallInvariant, PlansBeforeActing, ReplayInvariant, ReplaysSafely
    <3>2. run[r].page = (run[r].snap.cursor + 1) .. run[r].next
      BY <2>3, PageIsInterval
    <3>3. 1 .. run[r].snap.cursor \subseteq accepted
      BY <2>3 DEF ReplayInvariant, ReplaysSafely
    <3>4. run[r].snap.cursor \in Nat /\ run[r].next \in Nat
      BY DEF TypeOK, Run, Checkpoint
    <3>5. 1 .. run[r].next \subseteq accepted
      BY <3>1, <3>2, <3>3, <3>4
    <3> QED
      BY <1>2, <2>1, <2>3, <3>5 DEF AcceptedIsPrefix
  <2> QED
    BY <1>0, <2>2, <2>3 DEF CheckpointStep
<1>6. ASSUME NEW q \in Runners \ {r} PROVE ReplaysSafely(q)'
  BY <1>0, <1>2, <1>6 DEF ReplayInvariant, ReplaysSafely
<1>7. ReplaysSafely(r)'
  <2>1. CASE Ends(r)
    BY <2>1 DEF Ends, ReplaysSafely
  <2>2. CASE Loads(r)
    BY <1>2, <2>2 DEF Loads, ReplaysSafely, ReplayInvariant, AcceptedIsPrefix
  <2>3. CASE Lists(r)
    BY <1>2, <2>3 DEF Lists, ReplaysSafely, ReplayInvariant
  <2>4. CASE Goes(r)
    BY <1>0, <1>2, <2>4 DEF Goes, KeepsPage, ReplaysSafely, ReplayInvariant
  <2>5. ASSUME NEW p \in run[r].page, Plans(r, p)
        PROVE  ReplaysSafely(r)'
    <3>1. run'[r].noops \subseteq accepted
      BY <2>5, NoopsAreReplays DEF Plans, ReplayInvariant, ReplaysSafely
    <3>2. ASSUME feed[p].kind = "upsert", NEW q \in (p + 1) .. run[r].next
          PROVE  feed[q].record # feed[p].record
      <4>1. p \in Nat /\ run[r].next \in Nat /\ Len(feed) \in Nat
            /\ run[r].next <= Len(feed)
        BY PagePositions DEF TypeOK, Run
      <4>2. q \in (p + 1) .. Len(feed)
        BY <3>2, <4>1
      <4> QED
        BY <2>5, <3>2, <4>2 DEF Plans, IsCurrent
    <3> QED
      BY <1>0, <1>2, <2>5, <3>1, <3>2
         DEF Plans, KeepsPage, ReplayInvariant, ReplaysSafely
  <2> QED
    BY <1>0, <2>1, <2>2, <2>3, <2>4, <2>5 DEF CallStep
<1> QED
  BY <1>3, <1>4, <1>5, <1>6, <1>7 DEF ReplayInvariant

(* A record the source holds has one current upsert.                       *)
LEMMA VersionIsPresent ==
  ASSUME TypeOK, NEW rec \in Records
  PROVE  /\ SourceVersion(feed, rec) = 0 =>
              \A p \in Present(feed) : feed[p].record # rec
         /\ \A p \in Present(feed) :
              feed[p].record = rec => SourceVersion(feed, rec) = p
<1>0. Len(feed) \in Nat
  BY DEF TypeOK
<1>1. ASSUME NEW p \in Present(feed), NEW q \in Present(feed),
             feed[p].record = rec, feed[q].record = rec
      PROVE  p = q
  <2>1. p \in 1 .. Len(feed) /\ q \in 1 .. Len(feed)
    BY DEF Present
  <2>2. q \notin (p + 1) .. Len(feed) /\ p \notin (q + 1) .. Len(feed)
    BY <1>1 DEF Present, IsCurrent
  <2> QED
    BY <1>0, <2>1, <2>2
<1>2. ASSUME NEW p \in Present(feed), feed[p].record = rec
      PROVE  SourceVersion(feed, rec) = p
  <2> DEFINE chosen == CHOOSE q \in Present(feed) : feed[q].record = rec
  <2>1. chosen \in Present(feed) /\ feed[chosen].record = rec
    BY <1>2
  <2>2. SourceVersion(feed, rec) = chosen
    BY <1>2 DEF SourceVersion
  <2> HIDE DEF chosen
  <2> QED
    BY <1>1, <1>2, <2>1, <2>2
<1>3. \A p \in Present(feed) : p # 0
  BY DEF Present
<1> QED
  BY <1>2, <1>3

LEMMA ReplayIsCurrent ==
  ASSUME TypeOK, ReplayInvariant PROVE PublishedIsCurrent
<1> SUFFICES ASSUME checkpoint.cursor = Len(feed), NEW rec \in Records
             PROVE  live[rec] = SourceVersion(feed, rec)
  BY DEF PublishedIsCurrent
<1>1. accepted = 1 .. Len(feed) /\ Len(feed) \in Nat
  <2>1. accepted \subseteq 1 .. Len(feed) /\ 1 .. Len(feed) \subseteq accepted
    BY DEF ReplayInvariant, AcceptedIsPrefix
  <2>2. accepted = 1 .. Len(feed)
    BY <2>1, Zenon
  <2> QED
    BY <2>2 DEF TypeOK
<1>2. CASE live[rec] # 0
  <2>1. /\ live[rec] \in 1 .. Len(feed) /\ feed[live[rec]].record = rec
        /\ feed[live[rec]].kind = "upsert"
        /\ \A q \in 1 .. Len(feed) : feed[q].record = rec => q <= live[rec]
    BY <1>1, <1>2 DEF ReplayInvariant, LiveIsNewest
  <2>2. live[rec] \in Present(feed)
    BY <1>1, <2>1 DEF Present, IsCurrent
  <2> QED
    BY <2>1, <2>2, VersionIsPresent
<1>3. CASE live[rec] = 0
  <2>1. \A p \in 1 .. Len(feed) : feed[p].record = rec /\ feed[p].kind = "upsert" =>
          \E q \in 1 .. Len(feed) : feed[q].record = rec /\ p < q
    BY <1>1, <1>3 DEF ReplayInvariant, LiveIsNewest
  <2>2. ASSUME NEW p \in Present(feed), feed[p].record = rec PROVE FALSE
    <3>1. /\ p \in 1 .. Len(feed) /\ feed[p].kind = "upsert"
          /\ \A q \in (p + 1) .. Len(feed) : feed[q].record # rec
      BY <2>2 DEF Present, IsCurrent
    <3>2. PICK q \in 1 .. Len(feed) : feed[q].record = rec /\ p < q
      BY <2>1, <2>2, <3>1
    <3> QED
      BY <1>1, <3>1, <3>2
  <2>3. SourceVersion(feed, rec) = 0
    BY <2>2 DEF SourceVersion
  <2> QED
    BY <1>3, <2>3
<1> QED
  BY <1>2, <1>3

-----------------------------------------------------------------------------
(* A delta feed and a single runner that is not a dry run, with any sink   *)

Matches(p) ==
  live[feed[p].record] = IF feed[p].kind = "upsert" THEN p ELSE 0

HasChanges(rec) == \E p \in 1 .. Len(feed) : feed[p].record = rec

(* The latest change of a record, once applied or behind the checkpoint,   *)
(* is what the sink publishes of it.                                       *)
SettledIsLive ==
  \A p \in 1 .. Len(feed) :
    IsCurrent(feed, p) /\ (p \in accepted \/ p <= checkpoint.cursor) => Matches(p)

(* The runner has the checkpoint to itself, its page holds one change of a *)
(* record and none that is older than what the sink has of the record, and *)
(* what it found unpublished stays unpublished.                            *)
OwnsPage(r) ==
  run[r].pc # "idle" =>
    /\ run[r].snap = checkpoint
    /\ \A p \in run[r].page : \A q \in run[r].page \cup accepted :
         feed[q].record = feed[p].record => q <= p
    /\ \A p \in run[r].noops : live[feed[p].record] = 0

DeltaInvariant ==
  /\ accepted \subseteq 1 .. Len(feed)
  /\ \A rec \in Records :
       IF HasChanges(rec)
       THEN \E p \in 1 .. Len(feed) : feed[p].record = rec /\ IsCurrent(feed, p)
       ELSE live[rec] = 0
  /\ SettledIsLive
  /\ \A r \in Runners \ DryRunners : OwnsPage(r)

LEMMA InitDelta == Init => DeltaInvariant
BY DEF Init, DeltaInvariant, HasChanges, SettledIsLive, OwnsPage, Idle

LEMMA SourceKeepsDelta ==
  ASSUME TypeOK, CallInvariant, DeltaInvariant, SourceChanges
  PROVE  DeltaInvariant'
<1>1. PICK c \in SourceChange : feed' = Append(feed, c)
  BY DEF SourceChanges
<1>2. UNCHANGED <<accepted, live, checkpoint, run>>
  BY DEF SourceChanges
<1>3. /\ Len(feed') = Len(feed) + 1 /\ Len(feed) \in Nat
      /\ \A q \in 1 .. Len(feed) : feed'[q] = feed[q]
      /\ feed'[Len(feed) + 1] = c
  BY <1>1 DEF TypeOK
<1>4. accepted' \subseteq 1 .. Len(feed')
  BY <1>2, <1>3 DEF DeltaInvariant
<1>5. ASSUME NEW rec \in Records
      PROVE  IF HasChanges(rec)'
             THEN \E p \in 1 .. Len(feed') : feed'[p].record = rec /\ IsCurrent(feed', p)
             ELSE live'[rec] = 0
  <2>1. CASE c.record = rec
    <3>1. /\ Len(feed) + 1 \in 1 .. Len(feed')
          /\ feed'[Len(feed) + 1].record = rec /\ IsCurrent(feed', Len(feed) + 1)
      BY <1>3, <2>1 DEF IsCurrent
    <3> QED
      BY <3>1 DEF HasChanges
  <2>2. CASE c.record # rec /\ HasChanges(rec)
    <3>1. PICK p \in 1 .. Len(feed) : feed[p].record = rec /\ IsCurrent(feed, p)
      BY <2>2 DEF DeltaInvariant
    <3>2. /\ p \in 1 .. Len(feed') /\ feed'[p].record = rec /\ IsCurrent(feed', p)
      BY <1>3, <2>2, <3>1 DEF IsCurrent
    <3> QED
      BY <3>2 DEF HasChanges
  <2>3. CASE c.record # rec /\ ~HasChanges(rec)
    <3>1. live'[rec] = 0
      BY <1>2, <2>3 DEF DeltaInvariant
    <3>2. ~HasChanges(rec)'
      BY <1>3, <2>3 DEF HasChanges
    <3> QED
      BY <3>1, <3>2
  <2> QED
    BY <2>1, <2>2, <2>3
<1>6. SettledIsLive'
  <2> SUFFICES ASSUME NEW p \in 1 .. Len(feed'), IsCurrent(feed', p),
                      p \in accepted \/ p <= checkpoint.cursor
               PROVE  Matches(p)'
    BY <1>2 DEF SettledIsLive
  <2>1. p \in 1 .. Len(feed)
    BY <1>3 DEF DeltaInvariant, CallInvariant, TypeOK, Checkpoint
  <2>2. IsCurrent(feed, p) /\ feed'[p] = feed[p]
    BY <1>3, <2>1 DEF IsCurrent
  <2> QED
    BY <1>2, <2>1, <2>2 DEF DeltaInvariant, SettledIsLive, Matches
<1>7. ASSUME NEW r \in Runners \ DryRunners PROVE OwnsPage(r)'
  <2>1. \A p \in run[r].page \cup accepted : feed'[p] = feed[p]
    BY <1>3, PagePositions DEF DeltaInvariant
  <2>2. \A p \in run[r].noops : feed'[p] = feed[p]
    BY <2>1 DEF CallInvariant, PlansBeforeActing
  <2> QED
    BY <1>2, <2>1, <2>2 DEF DeltaInvariant, OwnsPage
<1> QED
  BY <1>4, <1>5, <1>6, <1>7 DEF DeltaInvariant

(* Whatever part of a page the sink applies, it publishes the changes of   *)
(* that part and nothing older.                                            *)
LEMMA PartOfPageIsLive ==
  ASSUME TypeOK, CallInvariant, DeltaInvariant, NEW r \in Runners \ DryRunners,
         run[r].pc = "publish", NEW ids \in SUBSET Actionable(r), Apply(ids),
         UNCHANGED <<feed, checkpoint>>
  PROVE  /\ accepted' \subseteq accepted \cup run[r].page
         /\ \A rec \in Records : ~HasChanges(rec) => live'[rec] = live[rec]
         /\ SettledIsLive'
         /\ \A p \in run[r].noops : live'[feed[p].record] = 0
<1> DEFINE new(rec) == {p \in ids \ accepted : feed[p].record = rec}
           last(rec) == {p \in new(rec) : feed[p].kind = "upsert"
                           /\ \A q \in new(rec) : q <= p}
<1>0. /\ run[r].page \subseteq 1 .. Len(feed) /\ Len(feed) \in Nat
      /\ ids \subseteq run[r].page /\ ids \cap run[r].noops = {}
      /\ accepted \subseteq 1 .. Len(feed)
  BY PagePositions DEF Actionable, TypeOK, DeltaInvariant
<1>1. /\ accepted' = accepted \cup ids
      /\ \A rec \in Records :
           live'[rec] = IF new(rec) = {} THEN live[rec]
                        ELSE IF last(rec) = {} THEN 0
                        ELSE CHOOSE p \in last(rec) : TRUE
  BY DEF Apply
<1>2. /\ run[r].snap = checkpoint
      /\ \A p \in run[r].page : \A q \in run[r].page \cup accepted :
           feed[q].record = feed[p].record => q <= p
      /\ \A p \in run[r].noops : live[feed[p].record] = 0
  BY DEF DeltaInvariant, OwnsPage
<1>3. ASSUME NEW rec, NEW m \in new(rec)
      PROVE  /\ m \in ids /\ m \notin accepted /\ m \in 1 .. Len(feed)
             /\ feed[m].record = rec /\ checkpoint.cursor < m
             /\ \A q \in new(rec) : q = m
  <2>1. m \in ids /\ m \notin accepted /\ feed[m].record = rec
    OBVIOUS
  <2>2. m \in run[r].page /\ checkpoint.cursor < m
    BY <1>0, <1>2, <2>1, PagePositions
  <2>3. ASSUME NEW q \in new(rec) PROVE q = m
    <3>1. q \in run[r].page /\ feed[q].record = rec
      BY <1>0
    <3>2. q <= m /\ m <= q /\ q \in Nat /\ m \in Nat
      BY <1>0, <1>2, <2>1, <2>2, <3>1
    <3> QED
      BY <3>2
  <2> QED
    BY <1>0, <2>1, <2>2, <2>3
<1>4. ASSUME NEW rec \in Records, ~HasChanges(rec) PROVE live'[rec] = live[rec]
  <2>1. new(rec) = {}
    BY <1>3, <1>4 DEF HasChanges
  <2> QED
    BY <1>1, <2>1
<1>5. ASSUME NEW p \in run[r].noops PROVE live'[feed[p].record] = 0
  <2>1. p \in run[r].page /\ p \in 1 .. Len(feed)
    BY <1>0 DEF CallInvariant, PlansBeforeActing
  <2>2. new(feed[p].record) = {}
    <3>1. SUFFICES ASSUME NEW m \in new(feed[p].record) PROVE FALSE
      OBVIOUS
    <3>2. m \in ids /\ m \in run[r].page /\ feed[m].record = feed[p].record
      BY <1>0, <1>3
    <3>3. m <= p /\ p <= m /\ m \in Nat /\ p \in Nat
      BY <1>0, <1>2, <2>1, <3>2
    <3>4. m = p
      BY <3>3
    <3> QED
      BY <1>0, <3>2, <3>4
  <2>3. feed[p].record \in Records
    BY <2>1, ChangeType
  <2> QED
    BY <1>1, <1>2, <2>2, <2>3
<1>6. ASSUME NEW p \in 1 .. Len(feed), IsCurrent(feed, p),
             p \in accepted' \/ p <= checkpoint.cursor
      PROVE  Matches(p)'
  <2> DEFINE rec == feed[p].record
  <2>0. rec \in Records /\ feed[p].kind \in ChangeKind
    BY ChangeType
  <2>1. \A m \in 1 .. Len(feed) : feed[m].record = rec => m <= p
    BY <1>0, <1>6 DEF IsCurrent
  <2>2. CASE new(rec) = {}
    <3>1. live'[rec] = live[rec]
      BY <1>1, <2>0, <2>2
    <3>2. p \in accepted \/ p <= checkpoint.cursor
      BY <1>1, <1>6, <2>2
    <3> QED
      BY <1>6, <3>1, <3>2 DEF DeltaInvariant, SettledIsLive, Matches
  <2>3. ASSUME NEW m \in new(rec) PROVE Matches(p)'
    <3>1. /\ m \in ids /\ m \notin accepted /\ m \in 1 .. Len(feed)
          /\ feed[m].record = rec /\ checkpoint.cursor < m /\ m <= p
          /\ \A q \in new(rec) : q = m
      BY <1>3, <2>1
    <3>2. p \notin accepted
      <4>1. SUFFICES ASSUME p \in accepted PROVE FALSE
        OBVIOUS
      <4>2. m \in run[r].page
        BY <1>0, <3>1
      <4>3. p <= m
        BY <1>2, <3>1, <4>1, <4>2
      <4>4. p = m
        BY <1>0, <3>1, <4>3
      <4> QED
        BY <3>1, <4>1, <4>4
    <3>3. ~(p <= checkpoint.cursor)
      <4>1. checkpoint.cursor \in Nat
        BY DEF TypeOK, Checkpoint
      <4> QED
        BY <1>0, <3>1, <4>1
    <3>4. p \in new(rec)
      BY <1>1, <1>6, <3>2, <3>3
    <3>5. p = m /\ new(rec) = {p}
      BY <3>1, <3>4
    <3>6. p \in Nat /\ p <= p
      BY <1>0
    <3>7. last(rec) = IF feed[p].kind = "upsert" THEN {p} ELSE {}
      BY <3>5, <3>6
    <3>8. live'[rec] = IF feed[p].kind = "upsert" THEN p ELSE 0
      <4> HIDE DEF new, last
      <4>1. live'[rec] = IF last(rec) = {} THEN 0 ELSE CHOOSE q \in last(rec) : TRUE
        BY <1>1, <2>0, <3>5
      <4> QED
        BY <3>7, <4>1
    <3> QED
      BY <3>8 DEF Matches
  <2> QED
    BY <2>2, <2>3
<1> QED
  BY <1>0, <1>1, <1>4, <1>5, <1>6 DEF SettledIsLive

LEMMA CommitIsLive ==
  ASSUME TypeOK, CallInvariant, DeltaInvariant, LatestOnly,
         NEW r \in Runners \ DryRunners, run[r].pc = "commit",
         checkpoint'.cursor = run[r].next, UNCHANGED <<feed, accepted, live>>
  PROVE  SettledIsLive'
<1> SUFFICES ASSUME NEW p \in 1 .. Len(feed), IsCurrent(feed, p),
                    p \in accepted \/ p <= run[r].next
             PROVE  Matches(p)
  BY DEF SettledIsLive, Matches
<1>1. CASE p \in accepted \/ p <= checkpoint.cursor
  BY <1>1 DEF DeltaInvariant, SettledIsLive
<1>2. CASE p \notin accepted /\ ~(p <= checkpoint.cursor)
  <2>1. checkpoint.cursor = run[r].snap.cursor
    BY DEF DeltaInvariant, OwnsPage
  <2>2. p \in (run[r].snap.cursor + 1) .. run[r].next
    <3>1. checkpoint.cursor \in Nat /\ run[r].next \in Nat /\ p \in Nat
      BY DEF TypeOK, Checkpoint, Run
    <3> QED
      BY <1>2, <2>1, <3>1
  <2>3. p \in run[r].page
    BY <2>2 DEF CallInvariant, HoldsWholePage, Superseded
  <2>4. p \in run[r].noops
    BY <1>2, <2>3 DEF CallInvariant, PlansBeforeActing
  <2>5. live[feed[p].record] = 0 /\ feed[p].kind = "delete"
    BY <2>4 DEF CallInvariant, PlansBeforeActing, DeltaInvariant, OwnsPage
  <2> QED
    BY <2>5 DEF Matches
<1> QED
  BY <1>1, <1>2

LEMMA StepKeepsDelta ==
  ASSUME TypeOK, CallInvariant, DeltaInvariant, SoleRunner,
         NEW r \in Runners, Step(r) \/ Disturbance(r)
  PROVE  DeltaInvariant'
<1>0. /\ CallStep(r) /\ SinkStep(r) /\ CheckpointStep(r) /\ UNCHANGED feed
      /\ \A q \in Runners \ {r} : run'[q] = run[q]
  BY EveryStep
<1>1. CASE r \in DryRunners
  <2>1. UNCHANGED <<feed, accepted, live, checkpoint>>
    BY <1>0, <1>1 DEF SinkStep, CheckpointStep, CallInvariant, PlansBeforeActing
  <2>2. \A q \in Runners \ DryRunners : run'[q] = run[q]
    BY <1>0, <1>1
  <2> QED
    BY <2>1, <2>2 DEF DeltaInvariant, HasChanges, SettledIsLive, Matches, OwnsPage
<1>2. CASE r \notin DryRunners
  <2>0. \A q \in Runners \ DryRunners : q = r
    BY <1>2 DEF SoleRunner
  <2>1. /\ accepted' \subseteq accepted \cup run[r].page
        /\ \A rec \in Records : ~HasChanges(rec) => live'[rec] = live[rec]
        /\ \A p \in run[r].noops :
             live[feed[p].record] = 0 => live'[feed[p].record] = 0
    <3>1. CASE UNCHANGED <<accepted, live>>
      BY <3>1
    <3>2. CASE run[r].pc = "publish"
      <4>1. UNCHANGED checkpoint
        BY <1>0, <3>2 DEF CheckpointStep
      <4> QED
        BY <1>0, <1>2, <3>1, <3>2, <4>1, PartOfPageIsLive DEF SinkStep
    <3> QED
      BY <1>0, <3>1, <3>2 DEF SinkStep
  <2>2. accepted' \subseteq 1 .. Len(feed')
    BY <1>0, <2>1, PagePositions DEF DeltaInvariant
  <2>3. ASSUME NEW rec \in Records
        PROVE  IF HasChanges(rec)'
               THEN \E p \in 1 .. Len(feed') :
                      feed'[p].record = rec /\ IsCurrent(feed', p)
               ELSE live'[rec] = 0
    BY <1>0, <2>1 DEF DeltaInvariant, HasChanges
  <2>4. SettledIsLive'
    <3>1. CASE UNCHANGED <<accepted, live, checkpoint>>
      BY <1>0, <3>1 DEF DeltaInvariant, SettledIsLive, Matches
    <3>2. CASE run[r].pc = "publish" /\ UNCHANGED checkpoint
      BY <1>0, <1>2, <3>1, <3>2, PartOfPageIsLive DEF SinkStep
    <3>3. CASE run[r].pc = "commit" /\ checkpoint'.cursor = run[r].next
      <4>1. UNCHANGED <<accepted, live>>
        BY <1>0, <3>3 DEF SinkStep
      <4> QED
        BY <1>0, <1>2, <3>3, <4>1, CommitIsLive DEF SoleRunner
    <3> QED
      BY <1>0, <3>1, <3>2, <3>3 DEF SinkStep, CheckpointStep
  <2>5. OwnsPage(r)'
    <3>0. OwnsPage(r) /\ accepted \subseteq 1 .. Len(feed) /\ Len(feed) \in Nat
      BY <1>2 DEF DeltaInvariant, TypeOK
    <3>1. CASE Ends(r)
      BY <3>1 DEF Ends, OwnsPage
    <3>2. CASE Loads(r)
      BY <1>0, <3>2 DEF Loads, OwnsPage, CheckpointStep
    <3>3. CASE Lists(r)
      <4>1. UNCHANGED <<accepted, checkpoint>>
        BY <1>0, <3>3 DEF Lists, SinkStep, CheckpointStep
      <4>2. ASSUME NEW p \in run'[r].page, NEW q \in run'[r].page \cup accepted,
                   feed[q].record = feed[p].record
            PROVE  q <= p
        <5>1. run'[r].next \in Nat /\ run[r].snap.cursor \in Nat
              /\ run'[r].next <= Len(feed)
          BY <3>0, <3>3 DEF Lists, TypeOK, Run, Checkpoint
        <5>2. /\ p \in (run[r].snap.cursor + 1) .. run'[r].next
              /\ IsCurrent(feed, p)
          BY <3>3 DEF Lists, Listed, Superseded, SoleRunner
        <5>3. q \in 1 .. Len(feed)
          <6>1. run'[r].page \subseteq (run[r].snap.cursor + 1) .. run'[r].next
            BY <3>3 DEF Lists, Listed
          <6>2. run'[r].page \subseteq 1 .. Len(feed)
            BY <3>0, <5>1, <6>1
          <6> QED
            BY <3>0, <6>2
        <5> QED
          BY <3>0, <4>2, <5>1, <5>2, <5>3 DEF IsCurrent
      <4> QED
        BY <1>0, <3>0, <3>3, <4>1, <4>2 DEF Lists, OwnsPage
    <3>4. CASE KeepsPage(r)
      <4>1. UNCHANGED checkpoint
        BY <1>0, <3>4 DEF KeepsPage, CheckpointStep, Ends
      <4>2. ASSUME NEW p \in run[r].page, NEW q \in run[r].page \cup accepted',
                   feed[q].record = feed[p].record
            PROVE  q <= p
        BY <2>1, <3>0, <3>4, <4>2 DEF KeepsPage, OwnsPage
      <4>3. ASSUME NEW p \in run'[r].noops
            PROVE  live'[feed[p].record] = 0
        <5>1. CASE p \in run[r].noops
          BY <2>1, <3>0, <3>4, <5>1 DEF KeepsPage, OwnsPage
        <5>2. CASE p \notin run[r].noops
          <6>a. ~Ends(r) /\ ~Loads(r)
            BY <3>4 DEF KeepsPage, Ends, Loads
          <6>b. ~Lists(r) /\ ~Goes(r)
            BY <4>3, <5>2 DEF Lists, Goes
          <6>0. PICK m \in run[r].page : Plans(r, m)
            BY <1>0, <6>a, <6>b DEF CallStep
          <6>1. live[feed[p].record] = 0 /\ run[r].pc = "plan"
            BY <4>3, <5>2, <6>0 DEF Plans, IsNext
          <6>2. UNCHANGED live
            BY <1>0, <6>1 DEF SinkStep
          <6> QED
            BY <6>1, <6>2
        <5> QED
          BY <5>1, <5>2
      <4> QED
        BY <1>0, <3>0, <3>4, <4>1, <4>2, <4>3 DEF KeepsPage, OwnsPage
    <3> QED
      BY <1>0, <3>1, <3>2, <3>3, <3>4 DEF CallStep, Plans, Goes
  <2> QED
    BY <2>0, <2>2, <2>3, <2>4, <2>5 DEF DeltaInvariant
<1> QED
  BY <1>1, <1>2

LEMMA DeltaIsCurrent ==
  ASSUME TypeOK, DeltaInvariant PROVE PublishedIsCurrent
<1> SUFFICES ASSUME checkpoint.cursor = Len(feed), NEW rec \in Records
             PROVE  live[rec] = SourceVersion(feed, rec)
  BY DEF PublishedIsCurrent
<1>0. Len(feed) \in Nat
  BY DEF TypeOK
<1>1. CASE ~HasChanges(rec)
  <2>1. live[rec] = 0
    BY <1>1 DEF DeltaInvariant
  <2>2. \A p \in Present(feed) : feed[p].record # rec
    BY <1>1 DEF HasChanges, Present
  <2>3. SourceVersion(feed, rec) = 0
    BY <2>2 DEF SourceVersion
  <2> QED
    BY <2>1, <2>3
<1>2. CASE HasChanges(rec)
  <2>1. PICK p \in 1 .. Len(feed) : feed[p].record = rec /\ IsCurrent(feed, p)
    BY <1>2 DEF DeltaInvariant
  <2>2. p <= checkpoint.cursor
    BY <1>0
  <2>3. live[rec] = IF feed[p].kind = "upsert" THEN p ELSE 0
    BY <2>1, <2>2 DEF DeltaInvariant, SettledIsLive, Matches
  <2>4. CASE feed[p].kind = "upsert"
    <3>1. p \in Present(feed)
      BY <2>1, <2>4 DEF Present
    <3> QED
      BY <2>1, <2>3, <2>4, <3>1, VersionIsPresent
  <2>5. CASE feed[p].kind # "upsert"
    <3>1. ASSUME NEW q \in Present(feed), feed[q].record = rec PROVE FALSE
      <4>1. q \in 1 .. Len(feed) /\ feed[q].kind = "upsert" /\ IsCurrent(feed, q)
        BY DEF Present
      <4>2. q \notin (p + 1) .. Len(feed) /\ p \notin (q + 1) .. Len(feed)
        BY <2>1, <3>1, <4>1 DEF IsCurrent
      <4>3. p = q
        BY <1>0, <4>1, <4>2
      <4> QED
        BY <2>5, <4>1, <4>3
    <3>2. SourceVersion(feed, rec) = 0
      BY <3>1 DEF SourceVersion
    <3> QED
      BY <2>3, <2>5, <3>2
  <2> QED
    BY <2>4, <2>5
<1> QED
  BY <1>1, <1>2

-----------------------------------------------------------------------------
(* On a feed of every change, an atomic sink publishes what the source     *)
(* holds whenever the checkpoint covers the feed, however many runners     *)
(* publish, replay, conflict and crash.                                    *)
THEOREM ReplaysAreHarmless ==
  EveryChangeAtomic => (Spec => []PublishedIsCurrent)
<1> SUFFICES ASSUME EveryChangeAtomic PROVE Spec => []PublishedIsCurrent
  OBVIOUS
<1>1. Init => ReplayInvariant
  BY InitReplay
<1>2. TypeOK /\ CallInvariant /\ ReplayInvariant /\ [Next]_vars => ReplayInvariant'
  <2> SUFFICES ASSUME TypeOK, CallInvariant, ReplayInvariant, [Next]_vars
               PROVE  ReplayInvariant'
    OBVIOUS
  <2>1. CASE UNCHANGED vars
    BY <2>1 DEF vars, ReplayInvariant, DeletesFollowUpserts, AcceptedIsPrefix,
                LiveIsNewest, ReplaysSafely
  <2> QED
    BY <2>1, SourceKeepsReplay, StepKeepsReplay DEF Next, Rest
<1>3. TypeOK /\ ReplayInvariant => PublishedIsCurrent
  BY ReplayIsCurrent
<1> QED
  BY <1>1, <1>2, <1>3, TypeCorrect, CallsAreSound, PTL DEF Spec

(* On a delta feed with a single runner beside the dry runs, the same holds *)
(* of any sink, also of one that applies and acknowledges parts of a page.  *)
THEOREM PartialPublicationsHeal ==
  SoleRunner => (Spec => []PublishedIsCurrent)
<1> SUFFICES ASSUME SoleRunner PROVE Spec => []PublishedIsCurrent
  OBVIOUS
<1>1. Init => DeltaInvariant
  BY InitDelta
<1>2. TypeOK /\ CallInvariant /\ DeltaInvariant /\ [Next]_vars => DeltaInvariant'
  <2> SUFFICES ASSUME TypeOK, CallInvariant, DeltaInvariant, [Next]_vars
               PROVE  DeltaInvariant'
    OBVIOUS
  <2>1. CASE UNCHANGED vars
    BY <2>1 DEF vars, DeltaInvariant, HasChanges, SettledIsLive, Matches, OwnsPage
  <2> QED
    BY <2>1, SourceKeepsDelta, StepKeepsDelta DEF Next, Rest
<1>3. TypeOK /\ DeltaInvariant => PublishedIsCurrent
  BY DeltaIsCurrent
<1> QED
  BY <1>1, <1>2, <1>3, TypeCorrect, CallsAreSound, PTL DEF Spec
=============================================================================
