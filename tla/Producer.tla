------------------------------ MODULE Producer ------------------------------
(***************************************************************************)
(* ProducerEngine.run_page and the checkpoint stores (producer.py), run by *)
(* several runners against one source, one publication sink and one        *)
(* checkpoint row.                                                         *)
(*                                                                         *)
(* Every await of run_page is a step, so that other runners, the source    *)
(* and crashes come in between: load, list_changes, one plan step per      *)
(* change (fetch_record included), publish, compare_and_set.               *)
(*                                                                         *)
(* Abstractions: an operation is the feed position it was planned from     *)
(* (ChangeFeed); content, paths and time stamps are left out; delays are   *)
(* left to module Retry.                                                   *)
(*                                                                         *)
(* Bounds, all named: MaxChanges source changes, MaxFaults failures,       *)
(* IdleGenerations commits of empty pages.                                 *)
(***************************************************************************)
EXTENDS ChangeFeed, FiniteSets

CONSTANTS
  Runners,          \* callers of run_page
  DryRunners,       \* those that call it with dry_run=True
  PageLimit,        \* the limit argument
  MaxAttempts,      \* RetryPolicy.max_attempts
  AtomicSink,       \* TRUE: publish is all or nothing, as its port demands
  MaxChanges,       \* bound: length of the feed
  MaxFaults,        \* bound: errors, crashes and lost acknowledgements
  IdleGenerations   \* bound: generation up to which pages may be empty

ASSUME ProducerAssumption ==
  /\ DryRunners \subseteq Runners
  /\ PageLimit \in Nat \ {0}
  /\ MaxAttempts \in Nat \ {0}
  /\ AtomicSink \in BOOLEAN
  /\ MaxChanges \in Nat
  /\ MaxFaults \in Nat
  /\ IdleGenerations \in Nat

VARIABLES
  feed,        \* the changes the source has made
  accepted,    \* operation ids the sink has applied (it keeps them all)
  live,        \* the version of each record the sink publishes, 0 for none
  checkpoint,  \* the stored checkpoint row
  run,         \* the locals of each runner's call of run_page, or its outcome
  skipped,     \* history: changes committed as NOOP
  faults       \* failures so far

vars == <<feed, accepted, live, checkpoint, run, skipped, faults>>

-----------------------------------------------------------------------------
(* The state of one call *)

Checkpoint == [cursor : Nat, generation : Nat]

(* No row yet: cursor None, and the first generation written will be 1.    *)
NoCheckpoint == [cursor |-> 0, generation |-> 0]

Stages == {"idle", "list", "plan", "publish", "commit"}

Outcomes == {"none", "advanced", "dry_run", "conflict", "failed"}

Run == [pc      : Stages,
        snap    : Checkpoint,    \* current, as loaded
        page    : SUBSET Nat,    \* batch.changes
        next    : Nat,           \* batch.next_cursor
        more    : BOOLEAN,       \* batch.has_more
        planned : SUBSET Nat,    \* changes whose operation is planned
        noops   : SUBSET Nat,    \* those planned as NOOP
        attempt : Nat,           \* attempt of the current retried call
        outcome : Outcomes]      \* how the last call ended

Idle == [pc |-> "idle", snap |-> NoCheckpoint, page |-> {}, next |-> 0,
         more |-> FALSE, planned |-> {}, noops |-> {}, attempt |-> 1,
         outcome |-> "none"]

(* Mutant: operations are collected from the upserts only.                 *)
ActionableUpsertsOnly(r) == {p \in run[r].page : feed[p].kind = "upsert"}

Actionable(r) == run[r].page \ run[r].noops

(* The change the loop over batch.changes is at, in page order.            *)
IsNext(r, p) ==
  /\ run[r].pc = "plan"
  /\ p \in run[r].page \ run[r].planned
  /\ \A q \in run[r].page \ run[r].planned : p <= q

Becomes(r, call) == run' = [run EXCEPT ![r] = call]

Finish(r, result) == Becomes(r, [Idle EXCEPT !.outcome = result])

Fault == faults < MaxFaults /\ faults' = faults + 1

-----------------------------------------------------------------------------
(* The source *)

Init ==
  /\ feed = <<>>
  /\ accepted = {}
  /\ live = [rec \in Records |-> 0]
  /\ checkpoint = NoCheckpoint
  /\ run = [r \in Runners |-> Idle]
  /\ skipped = {}
  /\ faults = 0

(* A record is created, modified or deleted at the source.                 *)
SourceChanges ==
  /\ Len(feed) < MaxChanges
  /\ \E c \in SourceChange :
       /\ c.kind = "delete" => SourceVersion(feed, c.record) # 0
       /\ feed' = Append(feed, c)
  /\ UNCHANGED <<accepted, live, checkpoint, run, skipped, faults>>

-----------------------------------------------------------------------------
(* run_page *)

(* load: read the checkpoint; it is only compared again at the very end.   *)
Load(r) ==
  /\ run[r].pc = "idle"
  /\ \/ checkpoint.cursor < Len(feed)
     \/ checkpoint.generation < IdleGenerations
  /\ Becomes(r, [run[r] EXCEPT !.pc = "list", !.snap = checkpoint,
                  !.outcome = "none"])
  /\ UNCHANGED <<feed, accepted, live, checkpoint, skipped, faults>>

(* Mutant: the cursor of a batch is taken as it comes.                     *)
CursorUnchecked(cursor, next, more) == TRUE

(* A non-final batch must advance its cursor.                              *)
CursorAdvances(cursor, next, more) == more => next # cursor

(* list_changes: the source cuts its listing at some position n.           *)
List(r) ==
  /\ run[r].pc = "list"
  /\ \E n \in run[r].snap.cursor .. Len(feed) :
       LET changes == Listed(feed, run[r].snap.cursor, n)
           more    == n < Len(feed)
       IN  /\ Cardinality(changes) <= PageLimit
           /\ CursorAdvances(run[r].snap.cursor, n, more)
           /\ Becomes(r, [run[r] EXCEPT !.pc = "plan", !.page = changes,
                  !.next = n, !.more = more,
                  !.attempt = 1])
  /\ UNCHANGED <<feed, accepted, live, checkpoint, skipped, faults>>

(* A faulty source answers with a non-final batch at the same cursor: the  *)
(* call ends in a ProducerContractError.                                   *)
RejectBatch(r) ==
  /\ run[r].pc = "list"
  /\ ~CursorAdvances(run[r].snap.cursor, run[r].snap.cursor,
                     run[r].snap.cursor < Len(feed))
  /\ Finish(r, "failed")
  /\ Fault
  /\ UNCHANGED <<feed, accepted, live, checkpoint, skipped>>

(* plan_delete: nothing is fetched; a record the sink does not publish     *)
(* gets a NOOP.                                                            *)
PlanDelete(r) ==
  /\ \E p \in run[r].page :
       /\ IsNext(r, p)
       /\ feed[p].kind = "delete"
       /\ Becomes(r, [run[r] EXCEPT
                  !.planned = @ \cup {p},
                  !.noops = IF live[feed[p].record] = 0 THEN @ \cup {p} ELSE @])
  /\ UNCHANGED <<feed, accepted, live, checkpoint, skipped, faults>>

(* fetch_record has no version argument: it answers with the version the   *)
(* source holds now, which matches the change only while it is current.    *)
PlanUpsert(r) ==
  /\ \E p \in run[r].page :
       /\ IsNext(r, p)
       /\ feed[p].kind = "upsert"
       /\ IsCurrent(feed, p)
       /\ Becomes(r, [run[r] EXCEPT !.planned = @ \cup {p}, !.attempt = 1])
  /\ UNCHANGED <<feed, accepted, live, checkpoint, skipped, faults>>

(* The record moved on, or is gone, since its change was listed.           *)
RejectRecord(r) ==
  /\ \E p \in run[r].page :
       IsNext(r, p) /\ feed[p].kind = "upsert" /\ ~IsCurrent(feed, p)
  /\ Finish(r, "failed")
  /\ UNCHANGED <<feed, accepted, live, checkpoint, skipped, faults>>

(* Mutant: the empty page is dealt with before the dry run is looked at.   *)
FinishPlanningLateDryRun(r) ==
  /\ run[r].pc = "plan"
  /\ run[r].planned = run[r].page
  /\ IF r \in DryRunners /\ Actionable(r) # {}
     THEN Finish(r, "dry_run")
     ELSE Becomes(r, [run[r] EXCEPT
                  !.pc = IF Actionable(r) = {} THEN "commit" ELSE "publish",
                  !.attempt = 1])
  /\ UNCHANGED <<feed, accepted, live, checkpoint, skipped, faults>>

(* Mutant: a page with nothing to publish returns early.                   *)
FinishPlanningNothingToDo(r) ==
  /\ run[r].pc = "plan"
  /\ run[r].planned = run[r].page
  /\ IF r \in DryRunners \/ Actionable(r) = {}
     THEN Finish(r, "dry_run")
     ELSE Becomes(r, [run[r] EXCEPT !.pc = "publish", !.attempt = 1])
  /\ UNCHANGED <<feed, accepted, live, checkpoint, skipped, faults>>

(* Every change has its operation: a dry run returns its report here, a    *)
(* page without actionable operations goes straight to the checkpoint.     *)
FinishPlanning(r) ==
  /\ run[r].pc = "plan"
  /\ run[r].planned = run[r].page
  /\ IF r \in DryRunners
     THEN Finish(r, "dry_run")
     ELSE Becomes(r, [run[r] EXCEPT
                  !.pc = IF Actionable(r) = {} THEN "commit" ELSE "publish",
                  !.attempt = 1])
  /\ UNCHANGED <<feed, accepted, live, checkpoint, skipped, faults>>

-----------------------------------------------------------------------------
(* publish *)

(* The sink applies, in order, the operations whose ids it has not seen:   *)
(* of a record's new operations the last one decides what is published.    *)
Apply(ops) ==
  LET newOf(rec) == {p \in ops \ accepted : feed[p].record = rec}
      LastUpsert(rec) == {p \in newOf(rec) : feed[p].kind = "upsert"
                                         /\ \A q \in newOf(rec) : q <= p}
  IN  /\ accepted' = accepted \cup ops
      /\ live' = [rec \in Records |->
            IF newOf(rec) = {} THEN live[rec]
            ELSE IF LastUpsert(rec) = {} THEN 0
            ELSE CHOOSE p \in LastUpsert(rec) : TRUE]

(* Mutant: the receipt may acknowledge fewer operations than were sent.    *)
ReceiptHasNoForeignIds(ids, ops) == ids \subseteq ops

(* The receipt must acknowledge exactly the planned operations.            *)
ReceiptMatches(ids, ops) == ids = ops

Publish(r) ==
  /\ run[r].pc = "publish"
  /\ \E ids \in SUBSET Actionable(r) :
       /\ ReceiptMatches(ids, Actionable(r))
       /\ Apply(ids)
  /\ Becomes(r, [run[r] EXCEPT !.pc = "commit"])
  /\ UNCHANGED <<feed, checkpoint, skipped, faults>>

(* A sink that is not atomic applies, and acknowledges, only a part.       *)
RejectReceipt(r) ==
  /\ ~AtomicSink
  /\ run[r].pc = "publish"
  /\ \E ids \in SUBSET Actionable(r) :
       /\ ~ReceiptMatches(ids, Actionable(r))
       /\ Apply(ids)
  /\ Finish(r, "failed")
  /\ Fault
  /\ UNCHANGED <<feed, checkpoint, skipped>>

-----------------------------------------------------------------------------
(* retry_async around list_changes, fetch_record and publish *)

Retried(r) ==
  \/ run[r].pc \in {"list", "publish"}
  \/ \E p \in run[r].page : IsNext(r, p) /\ feed[p].kind = "upsert"

(* A RetryableOperationError: another attempt, or raise on the last one.   *)
NextAttempt(r) ==
  IF run[r].attempt < MaxAttempts
  THEN Becomes(r, [run[r] EXCEPT !.attempt = @ + 1])
  ELSE Finish(r, "failed")

CallFails(r) ==
  /\ Retried(r)
  /\ NextAttempt(r)
  /\ Fault
  /\ UNCHANGED <<feed, accepted, live, checkpoint, skipped>>

(* The sink applied the operations but its answer was lost.                *)
PublishUnacknowledged(r) ==
  /\ run[r].pc = "publish"
  /\ Apply(Actionable(r))
  /\ NextAttempt(r)
  /\ Fault
  /\ UNCHANGED <<feed, checkpoint, skipped>>

-----------------------------------------------------------------------------
(* compare_and_set *)

(* Mutant: only the cursors are compared.                                  *)
UnchangedCursor(r) == checkpoint.cursor = run[r].snap.cursor

(* The stored checkpoint is still the one this call started from.          *)
Unchanged(r) == checkpoint = run[r].snap

(* Mutant: the cursor of the newest change instead of the page's.          *)
ReplacementNewestCursor(r) ==
  [cursor |-> Len(feed), generation |-> run[r].snap.generation + 1]

Replacement(r) ==
  [cursor |-> run[r].next, generation |-> run[r].snap.generation + 1]

Commit(r) ==
  /\ run[r].pc = "commit"
  /\ Unchanged(r)
  /\ checkpoint' = Replacement(r)
  /\ skipped' = skipped \cup run[r].noops
  /\ Finish(r, "advanced")
  /\ UNCHANGED <<feed, accepted, live, faults>>

(* The write is durable but the caller dies before it learns so.           *)
CommitUnreported(r) ==
  /\ run[r].pc = "commit"
  /\ Unchanged(r)
  /\ checkpoint' = Replacement(r)
  /\ skipped' = skipped \cup run[r].noops
  /\ Finish(r, "failed")
  /\ Fault
  /\ UNCHANGED <<feed, accepted, live>>

(* Another runner advanced the checkpoint: CheckpointConflict.             *)
Conflict(r) ==
  /\ run[r].pc = "commit"
  /\ ~Unchanged(r)
  /\ Finish(r, "conflict")
  /\ UNCHANGED <<feed, accepted, live, checkpoint, skipped, faults>>

(* A permanent error of any call, or a crash of the runner: its locals are *)
(* gone, what the sink and the store hold stays.                           *)
Abort(r) ==
  /\ run[r].pc # "idle"
  /\ Finish(r, "failed")
  /\ Fault
  /\ UNCHANGED <<feed, accepted, live, checkpoint, skipped>>

-----------------------------------------------------------------------------
(* The program's own steps, and the ones its environment inflicts on it.   *)
Step(r) ==
  \/ Load(r) \/ List(r) \/ PlanDelete(r) \/ PlanUpsert(r) \/ RejectRecord(r)
  \/ FinishPlanning(r) \/ Publish(r) \/ Commit(r) \/ Conflict(r)

Disturbance(r) ==
  \/ RejectBatch(r) \/ CallFails(r) \/ PublishUnacknowledged(r)
  \/ RejectReceipt(r) \/ CommitUnreported(r) \/ Abort(r)

(* Between two scheduled calls nothing happens.                            *)
Rest == (\A r \in Runners : run[r].pc = "idle") /\ UNCHANGED vars

Next ==
  \/ SourceChanges
  \/ \E r \in Runners : Step(r) \/ Disturbance(r)
  \/ Rest

Spec == Init /\ [][Next]_vars

(* run_page is called again and again, and a call that can go on does; the *)
(* source and the failures owe nothing.                                    *)
FairSpec == Spec /\ \A r \in Runners \ DryRunners : WF_vars(Step(r))

-----------------------------------------------------------------------------
(* Properties *)

(* Every variable has its type, and no call is attempted more often than   *)
(* RetryPolicy.max_attempts allows (producer.py retry_async).              *)
TypeOK ==
  /\ feed \in Seq(SourceChange)
  /\ accepted \subseteq Nat
  /\ live \in [Records -> Nat]
  /\ checkpoint \in Checkpoint
  /\ run \in [Runners -> Run]
  /\ \A r \in Runners : run[r].attempt \in 1 .. MaxAttempts
  /\ skipped \subseteq Nat
  /\ faults \in Nat

(* The sink has applied the change, or it was committed as a NOOP, or the  *)
(* feed replaced it by a later change of the same record.                  *)
Settled(p) == p \in accepted \cup skipped \/ Superseded(feed, p)

(* A committed checkpoint never covers a change that was not published:    *)
(* whatever fails, crashes or races between publish and compare_and_set,   *)
(* run_page cannot silently skip a source change.                          *)
NothingSkipped == \A p \in 1 .. checkpoint.cursor : Settled(p)

(* compare_and_set keeps one chain of checkpoints: each is written by a    *)
(* call that started from its predecessor, has the next generation, never  *)
(* moves the cursor back and, after a non-final page, moves it on; and a   *)
(* call reports checkpoint_advanced only for a checkpoint it wrote.        *)
CheckpointChain ==
  [][ /\ checkpoint' # checkpoint =>
           \E r \in Runners :
             /\ run[r].pc = "commit"
             /\ run[r].snap = checkpoint
             /\ checkpoint'.generation = checkpoint.generation + 1
             /\ checkpoint'.cursor = run[r].next
             /\ checkpoint'.cursor >= checkpoint.cursor
             /\ run[r].more => checkpoint'.cursor > checkpoint.cursor
      /\ \A r \in Runners :
           run[r].pc = "commit" /\ run'[r].pc = "idle" /\ run'[r].outcome = "advanced"
             => checkpoint' # checkpoint ]_vars

(* What a running call loaded is the stored checkpoint or an older one,    *)
(* and the generation tells which: compare_and_set cannot mistake a        *)
(* checkpoint that came back to the same cursor for an unchanged one.      *)
GenerationIdentifies ==
  \A r \in Runners : run[r].pc # "idle" =>
    /\ run[r].snap.generation <= checkpoint.generation
    /\ run[r].snap.generation = checkpoint.generation =>
         run[r].snap = checkpoint

(* Only a call that is not a dry run publishes or moves the checkpoint.    *)
EffectsNeedRealRuns ==
  [][ accepted' # accepted \/ live' # live \/ checkpoint' # checkpoint =>
        \E r \in Runners \ DryRunners :
          run[r].pc \in {"publish", "commit"} /\ run'[r] # run[r] ]_vars

(* What a call in progress can rely on, whoever else has moved meanwhile:  *)
(* the page it holds is everything listed between the cursor it loaded and *)
(* the one it will commit, every change of it is planned before anything   *)
(* is published, and everything is published, or a NOOP for a deletion,    *)
(* before it compares and sets.  It is the inductive strengthening of      *)
(* NothingSkipped, CheckpointChain and EffectsNeedRealRuns.                *)
HoldsWholePage(r) ==
  run[r].pc \in {"plan", "publish", "commit"} =>
    /\ run[r].snap.cursor <= run[r].next
    /\ run[r].next <= Len(feed)
    /\ run[r].more => run[r].snap.cursor < run[r].next
    /\ run[r].page \subseteq (run[r].snap.cursor + 1) .. run[r].next
    /\ \A p \in (run[r].snap.cursor + 1) .. run[r].next :
         p \in run[r].page \/ Superseded(feed, p)

PlansBeforeActing(r) ==
  /\ run[r].pc \in {"idle", "list"} => run[r].page = {}
  /\ run[r].noops \subseteq run[r].planned
  /\ run[r].planned \subseteq run[r].page
  /\ \A p \in run[r].noops : feed[p].kind = "delete"
  /\ run[r].pc \in {"publish", "commit"} =>
       run[r].planned = run[r].page /\ r \notin DryRunners
  /\ run[r].pc = "commit" => run[r].page \subseteq accepted \cup run[r].noops

CallInvariant ==
  /\ checkpoint.cursor <= Len(feed)
  /\ GenerationIdentifies
  /\ \A r \in Runners : HoldsWholePage(r) /\ PlansBeforeActing(r)

(* Once every call has ended and the checkpoint covers the feed, the sink  *)
(* publishes exactly the versions the source holds: retries, replays and   *)
(* partial publications leave nothing stale and nothing deleted behind.    *)
PublishedIsCurrent ==
  (\A r \in Runners : run[r].pc = "idle") /\ checkpoint.cursor = Len(feed) =>
    \A rec \in Records : live[rec] = SourceVersion(feed, rec)

(* A change of the source is eventually covered by the checkpoint, when    *)
(* failures do not go on for ever.                                         *)
CatchesUp ==
  \A n \in 1 .. MaxChanges : Len(feed) >= n ~> checkpoint.cursor >= n

(* On a feed that lists every change, an upsert at the cursor whose record *)
(* has changed since can no longer be fetched: every call for its page     *)
(* fails, until the source's feed drops it.                                *)
Overtaken ==
  \E p \in Listed(feed, checkpoint.cursor, Len(feed)) :
    feed[p].kind = "upsert" /\ ~IsCurrent(feed, p)

(* That is the only way to stay behind on such a feed: a change is covered *)
(* in the end unless an upsert after the checkpoint has been overtaken,    *)
(* however two runners conflict and replay.                                *)
CatchesUpUnlessOvertaken ==
  \A n \in 1 .. MaxChanges :
    Len(feed) >= n ~> checkpoint.cursor >= n \/ Overtaken

(* The engine implements the at-least-once promise of docs/adr/0004.       *)
Promise == INSTANCE DeliveryPromise WITH
  delivered <- accepted, waived <- skipped, cursor <- checkpoint.cursor

DeliversAtLeastOnce == Promise!Spec
=============================================================================
