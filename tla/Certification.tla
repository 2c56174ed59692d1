---------------------------- MODULE Certification ----------------------------
(***************************************************************************)
(* certify_connector (connector_conformance.py): one certification walk    *)
(* over the pages of a connector that may answer each call with anything.  *)
(*                                                                         *)
(* Abstractions: a finding is its code, the messages, fingerprints and     *)
(* counters of the report are left out; a fetched record is its identity   *)
(* and the set of its flaws, each of which is a finding of its own         *)
(* (classification, entitlements, resource, body, canonical form); of the  *)
(* replay of a call only its equality with the first answer counts.        *)
(***************************************************************************)
EXTENDS Naturals, Sequences

CONSTANTS
  Cursors,    \* opaque cursors; the cursor None is one of them
  Start,      \* starting_cursor
  Sources,    \* source systems
  Self,       \* the source system of the connector
  Ids,        \* record identifiers
  Versions,   \* opaque source versions
  Flaws,      \* findings of _check_record on a record's own fields
  Batches,    \* pages the connector may answer with
  Fetched,    \* records the connector may answer with
  PageSize,
  MaxPages

ChangeKind == {"upsert", "delete"}

SourceChange ==
  [source : Sources, id : Ids, version : Versions, kind : ChangeKind, at : Nat]

ChangeBatch == [changes : Seq(SourceChange), next : Cursors, more : BOOLEAN]

SourceRecord ==
  [source : Sources, id : Ids, version : Versions, flaws : SUBSET Flaws]

PageCodes ==
  {"SOURCE_CALL_FAILED", "NON_REPEATABLE_PAGE", "PAGE_LIMIT_EXCEEDED",
   "CURSOR_NOT_ADVANCED", "CURSOR_LOOP", "MAX_PAGES_REACHED"}

ChangeCodes ==
  {"DUPLICATE_EVENT", "EVENT_SOURCE_MISMATCH", "EVENT_ORDER_INVALID",
   "FETCH_FAILED", "RECORD_IDENTITY_MISMATCH", "NON_REPEATABLE_RECORD"}

ASSUME CertificationAssumption ==
  /\ Start \in Cursors
  /\ Self \in Sources
  /\ Batches \subseteq ChangeBatch
  /\ Fetched \subseteq SourceRecord
  /\ PageSize \in Nat \ {0}
  /\ MaxPages \in Nat \ {0}
  /\ Flaws \cap (PageCodes \cup ChangeCodes) = {}

VARIABLES
  stage,      \* "paging", "examining" a page, or "done"
  cursor,
  outputs,    \* seen_output_cursors
  events,     \* seen_events
  latest,     \* previous_changed_at, 0 before the first event
  at,         \* the change of the current page to examine next
  terminal,   \* terminal_cursor_reached
  findings,
  walked,     \* the pages so far, each with the cursor it was asked with
  fetched     \* history: the records answered for the upserts

vars == <<stage, cursor, outputs, events, latest, at, terminal, findings,
          walked, fetched>>

(* pages_checked is the length of the walk; the current page is its last.  *)
Page == walked[Len(walked)]

Event(change) == [source |-> change.source, id |-> change.id,
                  version |-> change.version, kind |-> change.kind]

Finding(code, holds) == IF holds THEN {code} ELSE {}

Init ==
  /\ stage = "paging"
  /\ cursor = Start
  /\ outputs = {}
  /\ events = {}
  /\ latest = 0
  /\ at = 1
  /\ terminal = FALSE
  /\ findings = {}
  /\ walked = <<>>
  /\ fetched = {}

(* list_changes, or its replay, raises.                                    *)
ListFails ==
  /\ stage = "paging"
  /\ findings' = findings \cup {"SOURCE_CALL_FAILED"}
  /\ stage' = "done"
  /\ UNCHANGED <<cursor, outputs, events, latest, at, terminal, walked, fetched>>

NotAdvanced(batch) == batch.more /\ batch.next = cursor

(* Mutant: only a return to the starting cursor is a loop.                 *)
LoopsToStart(batch) == batch.more /\ batch.next = Start

Loops(batch) == batch.more /\ batch.next \in outputs

(* A page and its replay.  A page that does not move on ends the walk      *)
(* before its changes are examined.                                        *)
ListPage(batch) ==
  /\ stage = "paging"
  /\ walked' = Append(walked, [from |-> cursor, batch |-> batch])
  /\ \E repeated \in BOOLEAN :
       findings' = findings
         \cup Finding("NON_REPEATABLE_PAGE", ~repeated)
         \cup Finding("PAGE_LIMIT_EXCEEDED", Len(batch.changes) > PageSize)
         \cup Finding("CURSOR_NOT_ADVANCED", NotAdvanced(batch))
         \cup Finding("CURSOR_LOOP", ~NotAdvanced(batch) /\ Loops(batch))
  /\ IF NotAdvanced(batch) \/ Loops(batch)
       THEN stage' = "done" /\ UNCHANGED outputs
       ELSE stage' = "examining" /\ outputs' = outputs \cup {batch.next}
  /\ at' = 1
  /\ UNCHANGED <<cursor, events, latest, terminal, fetched>>

Current == Page.batch.changes[at]

(* Mutant: events are remembered for the page they are on only.            *)
AlreadySeenOnPage(change) ==
  \E i \in 1 .. (at - 1) : Event(Page.batch.changes[i]) = Event(change)

AlreadySeen(change) == Event(change) \in events

EventFindings(change) ==
  Finding("DUPLICATE_EVENT", AlreadySeen(change))
    \cup Finding("EVENT_SOURCE_MISMATCH", change.source # Self)
    \cup Finding("EVENT_ORDER_INVALID", change.at < latest)

(* Mutant: the version of the record is not compared.                      *)
MatchesIdOnly(record, change) ==
  record.source = change.source /\ record.id = change.id

Matches(record, change) ==
  /\ record.source = change.source
  /\ record.id = change.id
  /\ record.version = change.version

(* _check_record: the first answer is examined, the second only compared.  *)
RecordFindings(record, replayed, change) ==
  Finding("RECORD_IDENTITY_MISMATCH", ~Matches(record, change))
    \cup Finding("NON_REPEATABLE_RECORD", record # replayed)
    \cup record.flaws

Examine(new) ==
  /\ stage = "examining"
  /\ at <= Len(Page.batch.changes)
  /\ findings' = findings \cup EventFindings(Current) \cup new
  /\ events' = events \cup {Event(Current)}
  /\ latest' = Current.at
  /\ at' = at + 1
  /\ UNCHANGED <<stage, cursor, outputs, terminal, walked>>

ExamineDelete ==
  /\ Examine({})
  /\ Current.kind = "delete"
  /\ UNCHANGED fetched

ExamineUpsert(record, replayed) ==
  /\ Examine(RecordFindings(record, replayed, Current))
  /\ Current.kind = "upsert"
  /\ fetched' = fetched \cup {[change |-> Current, record |-> record]}

FetchFails ==
  /\ Examine({"FETCH_FAILED"})
  /\ Current.kind = "upsert"
  /\ UNCHANGED fetched

PageExamined == stage = "examining" /\ at > Len(Page.batch.changes)

Terminates ==
  /\ PageExamined
  /\ ~Page.batch.more
  /\ terminal' = TRUE
  /\ stage' = "done"
  /\ UNCHANGED <<cursor, outputs, events, latest, at, findings, walked, fetched>>

PagesLeft == Len(walked) < MaxPages

Continues ==
  /\ PageExamined
  /\ Page.batch.more
  /\ PagesLeft
  /\ cursor' = Page.batch.next
  /\ stage' = "paging"
  /\ UNCHANGED <<outputs, events, latest, at, terminal, findings, walked, fetched>>

(* Mutant: the loop ends without its else clause.                          *)
RunsOutSilently ==
  /\ PageExamined
  /\ Page.batch.more
  /\ ~PagesLeft
  /\ cursor' = Page.batch.next
  /\ stage' = "done"
  /\ UNCHANGED <<outputs, events, latest, at, terminal, findings, walked, fetched>>

RunsOut ==
  /\ PageExamined
  /\ Page.batch.more
  /\ ~PagesLeft
  /\ findings' = findings \cup {"MAX_PAGES_REACHED"}
  /\ cursor' = Page.batch.next
  /\ stage' = "done"
  /\ UNCHANGED <<outputs, events, latest, at, terminal, walked, fetched>>

(* The report has been returned.                                           *)
Reported == stage = "done" /\ UNCHANGED vars

Next ==
  \/ ListFails
  \/ \E batch \in Batches : ListPage(batch)
  \/ ExamineDelete
  \/ \E record, replayed \in Fetched : ExamineUpsert(record, replayed)
  \/ FetchFails
  \/ Terminates
  \/ Continues
  \/ RunsOut
  \/ Reported

Spec == Init /\ [][Next]_vars

-----------------------------------------------------------------------------
(* Properties *)

IsConformant == stage = "done" /\ findings = {} /\ terminal

(* How many changes of a page have been examined.                          *)
ExaminedOn(p) ==
  IF p = Len(walked) THEN at - 1 ELSE Len(walked[p].batch.changes)

(* Every variable has its type, and the walk asks for at most max_pages    *)
(* pages.                                                                  *)
TypeOK ==
  /\ stage \in {"paging", "examining", "done"}
  /\ cursor \in Cursors
  /\ outputs \subseteq Cursors
  /\ events \subseteq [source : Sources, id : Ids, version : Versions, kind : ChangeKind]
  /\ latest \in Nat
  /\ at \in Nat \ {0}
  /\ terminal \in BOOLEAN
  /\ findings \subseteq PageCodes \cup ChangeCodes \cup Flaws
  /\ walked \in Seq([from : Cursors, batch : Batches])
  /\ fetched \subseteq [change : SourceChange, record : Fetched]
  /\ Len(walked) <= MaxPages

(* A conformant report stands for one unbroken walk from the starting      *)
(* cursor: each page was asked for with the cursor of the one before, all  *)
(* but the last have more to come, none came back to a cursor an earlier   *)
(* one gave, and none was larger than asked for.  The starting cursor is   *)
(* none of these (connector_conformance.py:86-87, 134-143): a walk may      *)
(* come back to it and be certified, but only if the connector gave it     *)
(* another page then; one that repeats itself is never certified in a      *)
(* loop.                                                                   *)
ConformantWalkIsComplete ==
  IsConformant =>
    /\ Len(walked) > 0
    /\ walked[1].from = Start
    /\ \A i \in 1 .. Len(walked) :
         /\ Len(walked[i].batch.changes) <= PageSize
         /\ walked[i].batch.more <=> i < Len(walked)
         /\ i < Len(walked) => walked[i + 1].from = walked[i].batch.next
         /\ i < Len(walked) =>
              \A j \in 1 .. (i - 1) : walked[j].batch.next # walked[i].batch.next
    /\ \A i, j \in 1 .. Len(walked) :
         i < j /\ walked[i].from = walked[j].from => walked[i].batch # walked[j].batch

(* No event of a conformant stream is repeated, on its own page or on any  *)
(* other, and every event is at or after all the ones before it.           *)
ConformantEventsAreDistinct ==
  IsConformant =>
    \A p, q \in 1 .. Len(walked) :
      \A i \in 1 .. ExaminedOn(p), j \in 1 .. ExaminedOn(q) :
        p < q \/ (p = q /\ i < j) =>
          LET earlier == walked[p].batch.changes[i]
              later   == walked[q].batch.changes[j]
          IN  Event(earlier) # Event(later) /\ earlier.at <= later.at

(* What ProducerEngine.run_page demands of a page before it publishes      *)
(* anything: an advancing cursor, its own source, no repeated operation,   *)
(* and for each upsert the record of exactly that version.                 *)
RunPageAccepts(from, batch, answers) ==
  /\ batch.more => batch.next # from
  /\ \A i \in DOMAIN batch.changes :
       LET change == batch.changes[i]
       IN  /\ change.source = Self
           /\ \A j \in 1 .. (i - 1) : Event(batch.changes[j]) # Event(change)
           /\ change.kind = "upsert" =>
                \E answer \in answers :
                  /\ answer.change = change
                  /\ answer.record.source = Self
                  /\ answer.record.id = change.id
                  /\ answer.record.version = change.version

(* A certified connector is one the producer can ingest: run_page raises   *)
(* no contract error on any page of the certified walk.                    *)
ConformantPagesAreIngestible ==
  IsConformant =>
    \A i \in 1 .. Len(walked) :
      RunPageAccepts(walked[i].from, walked[i].batch, fetched)

(* The walk asks for at most max_pages pages, and never stops short of a   *)
(* terminal page without saying why: a report without findings is          *)
(* conformant, and one that blames max_pages has used them all.            *)
EveryStopIsExplained ==
  /\ Len(walked) <= MaxPages
  /\ stage = "done" =>
       /\ ~terminal => findings # {}
       /\ "MAX_PAGES_REACHED" \in findings =>
            Len(walked) = MaxPages /\ walked[MaxPages].batch.more
=============================================================================
