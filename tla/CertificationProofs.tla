------------------------- MODULE CertificationProofs -------------------------
(* Theorems about Certification, for every connector, page size and bound. *)
EXTENDS Certification, TLAPS

(* Where the walk is: what its stage says of the pages walked so far.      *)
WalkInv ==
  /\ Len(walked) = 0 => stage # "examining" /\ cursor = Start
  /\ Len(walked) > 0 =>
       /\ walked[1].from = Start
       /\ stage = "examining" => at <= Len(Page.batch.changes) + 1
       /\ stage = "paging" => /\ Page.batch.more
                              /\ cursor = Page.batch.next
                              /\ at = Len(Page.batch.changes) + 1
  /\ stage = "paging" => Len(walked) < MaxPages
  /\ \A i \in 1 .. (Len(walked) - 1) :
       walked[i].batch.more /\ walked[i + 1].from = walked[i].batch.next
  /\ terminal =>
       /\ stage = "done"
       /\ Len(walked) > 0
       /\ ~Page.batch.more
       /\ at = Len(Page.batch.changes) + 1

(* What no finding means for the pages.                                    *)
PageIsClean(i) ==
  /\ Len(walked[i].batch.changes) <= PageSize
  /\ walked[i].batch.next \in outputs
  /\ walked[i].batch.more => walked[i].batch.next # walked[i].from
  /\ walked[i].batch.more =>
       \A j \in 1 .. (i - 1) : walked[j].batch.next # walked[i].batch.next

PagesInv == findings = {} => \A i \in 1 .. Len(walked) : PageIsClean(i)

(* What no finding means for the changes examined.                         *)
ChangeIsClean(change) ==
  /\ change.source = Self
  /\ Event(change) \in events
  /\ change.at <= latest
  /\ change.kind = "upsert" =>
       \E answer \in fetched :
         /\ answer.change = change
         /\ answer.record.source = Self
         /\ answer.record.id = change.id
         /\ answer.record.version = change.version

ChangesInv ==
  findings = {} =>
    \A p \in 1 .. Len(walked) : \A i \in 1 .. ExaminedOn(p) :
      ChangeIsClean(walked[p].batch.changes[i])

Follows(earlier, later) ==
  Event(earlier) # Event(later) /\ earlier.at <= later.at

OrderInv ==
  findings = {} =>
    \A p, q \in 1 .. Len(walked) :
      \A i \in 1 .. ExaminedOn(p), j \in 1 .. ExaminedOn(q) :
        p < q \/ (p = q /\ i < j) =>
          Follows(walked[p].batch.changes[i], walked[q].batch.changes[j])

StopInv ==
  /\ stage = "done" /\ ~terminal => findings # {}
  /\ "MAX_PAGES_REACHED" \in findings =>
       stage = "done" /\ Len(walked) = MaxPages /\ walked[MaxPages].batch.more

-----------------------------------------------------------------------------
LEMMA EmptyFinding ==
  ASSUME NEW code, NEW holds \in BOOLEAN
  PROVE  Finding(code, holds) = {} <=> ~holds
BY DEF Finding

LEMMA ElementOfSeq ==
  ASSUME NEW S, NEW s \in Seq(S), NEW i \in 1 .. Len(s)
  PROVE  s[i] \in S
OBVIOUS

(* The types inside a page.                                                *)
LEMMA PageTypes ==
  ASSUME TypeOK, NEW p \in 1 .. Len(walked)
  PROVE  /\ walked[p].batch \in Batches
         /\ walked[p].from \in Cursors
         /\ walked[p].batch.next \in Cursors
         /\ walked[p].batch.more \in BOOLEAN
         /\ walked[p].batch.changes \in Seq(SourceChange)
         /\ Len(walked[p].batch.changes) \in Nat
<1>1. walked[p] \in [from : Cursors, batch : Batches]
  BY ElementOfSeq DEF TypeOK
<1>2. walked[p].batch \in ChangeBatch
  BY <1>1, CertificationAssumption
<1> QED BY <1>1, <1>2 DEF ChangeBatch

(* Where Examine looks is a change of the current page.                    *)
LEMMA CurrentTypes ==
  ASSUME TypeOK, WalkInv, stage = "examining", at <= Len(Page.batch.changes)
  PROVE  /\ Len(walked) \in 1 .. MaxPages
         /\ Current \in SourceChange
<1>1. Len(walked) \in Nat /\ Len(walked) > 0 /\ Len(walked) <= MaxPages
  BY DEF TypeOK, WalkInv
<1>2. Page.batch.changes \in Seq(SourceChange)
  BY <1>1, PageTypes DEF Page
<1>3. at \in 1 .. Len(Page.batch.changes)
  BY <1>2 DEF TypeOK
<1> QED BY <1>1, <1>2, <1>3, CertificationAssumption DEF Current

-----------------------------------------------------------------------------
(* Every variable keeps its type and the walk its bound on pages.          *)
LEMMA TypeStep ==
  ASSUME TypeOK, WalkInv, [Next]_vars
  PROVE  TypeOK'
<1> USE CertificationAssumption
<1>1. CASE ListFails
  BY <1>1 DEF TypeOK, ListFails, PageCodes
<1>2. ASSUME NEW batch \in Batches, ListPage(batch) PROVE TypeOK'
  <2>1. batch.next \in Cursors
    BY DEF ChangeBatch
  <2>2. findings' \subseteq PageCodes \cup ChangeCodes \cup Flaws
    BY <1>2 DEF ListPage, Finding, PageCodes, TypeOK
  <2>3. walked' \in Seq([from : Cursors, batch : Batches])
    BY <1>2 DEF ListPage, TypeOK
  <2>4. Len(walked') <= MaxPages
    BY <1>2 DEF ListPage, TypeOK, WalkInv
  <2> QED BY <1>2, <2>1, <2>2, <2>3, <2>4 DEF ListPage, TypeOK
<1>3. ASSUME NEW new, new \subseteq PageCodes \cup ChangeCodes \cup Flaws, Examine(new),
             fetched' \subseteq [change : SourceChange, record : Fetched]
      PROVE  TypeOK'
  <2>1. Current \in SourceChange
    BY <1>3, CurrentTypes DEF Examine
  <2>2. Event(Current) \in [source : Sources, id : Ids, version : Versions, kind : ChangeKind]
    BY <2>1 DEF Event, SourceChange
  <2>3. EventFindings(Current) \subseteq ChangeCodes
    BY DEF EventFindings, Finding, ChangeCodes
  <2>4. Current.at \in Nat
    BY <2>1 DEF SourceChange
  <2> QED BY <1>3, <2>2, <2>3, <2>4 DEF Examine, TypeOK
<1>4. CASE ExamineDelete
  BY <1>4, <1>3 DEF ExamineDelete, TypeOK
<1>5. ASSUME NEW record \in Fetched, NEW replayed \in Fetched, ExamineUpsert(record, replayed)
      PROVE  TypeOK'
  <2>1. record.flaws \subseteq Flaws
    BY DEF SourceRecord
  <2>2. RecordFindings(record, replayed, Current) \subseteq PageCodes \cup ChangeCodes \cup Flaws
    BY <2>1 DEF RecordFindings, Finding, ChangeCodes
  <2>3. Current \in SourceChange
    BY <1>5, CurrentTypes DEF ExamineUpsert, Examine
  <2>4. fetched' \subseteq [change : SourceChange, record : Fetched]
    BY <1>5, <2>3 DEF ExamineUpsert, TypeOK
  <2> QED BY <1>5, <1>3, <2>2, <2>4 DEF ExamineUpsert
<1>6. CASE FetchFails
  BY <1>6, <1>3 DEF FetchFails, ChangeCodes, TypeOK
<1>7. CASE Terminates
  BY <1>7 DEF Terminates, TypeOK
<1>8. PageExamined => Page.batch.next \in Cursors
  BY PageTypes DEF PageExamined, Page, WalkInv, TypeOK
<1>9. CASE Continues
  BY <1>9, <1>8 DEF Continues, TypeOK
<1>10. CASE RunsOut
  BY <1>10, <1>8 DEF RunsOut, TypeOK, PageCodes
<1>11. CASE Reported
  BY <1>11 DEF Reported, vars, TypeOK
<1>12. CASE UNCHANGED vars
  BY <1>12 DEF vars, TypeOK
<1> QED BY <1>1, <1>2, <1>4, <1>5, <1>6, <1>7, <1>9, <1>10, <1>11, <1>12 DEF Next

-----------------------------------------------------------------------------
(* The page that is appended, and the ones before it.                      *)
LEMMA Appended ==
  ASSUME TypeOK, NEW batch \in Batches, ListPage(batch)
  PROVE  /\ Len(walked) \in Nat
         /\ Len(walked') = Len(walked) + 1
         /\ walked'[Len(walked) + 1] = [from |-> cursor, batch |-> batch]
         /\ \A i \in 1 .. Len(walked) : walked'[i] = walked[i]
<1>1. walked \in Seq([from : Cursors, batch : Batches])
  BY DEF TypeOK
<1>2. walked' = Append(walked, [from |-> cursor, batch |-> batch])
  BY DEF ListPage
<1> HIDE DEF TypeOK
<1> QED BY <1>1, <1>2

(* A page without findings moves on, to a cursor that is new.              *)
LEMMA CleanPage ==
  ASSUME TypeOK, NEW batch \in Batches, ListPage(batch), findings' = {}
  PROVE  /\ findings = {}
         /\ Len(batch.changes) <= PageSize
         /\ ~NotAdvanced(batch)
         /\ ~Loops(batch)
         /\ stage' = "examining"
         /\ outputs' = outputs \cup {batch.next}
<1>1. batch \in ChangeBatch
  BY CertificationAssumption
<1>2. batch.more \in BOOLEAN /\ Len(batch.changes) \in Nat
  BY <1>1 DEF ChangeBatch
<1>3. NotAdvanced(batch) \in BOOLEAN /\ Loops(batch) \in BOOLEAN
  BY <1>2 DEF NotAdvanced, Loops
<1>4. PICK repeated \in BOOLEAN :
       findings' = findings
         \cup Finding("NON_REPEATABLE_PAGE", ~repeated)
         \cup Finding("PAGE_LIMIT_EXCEEDED", Len(batch.changes) > PageSize)
         \cup Finding("CURSOR_NOT_ADVANCED", NotAdvanced(batch))
         \cup Finding("CURSOR_LOOP", ~NotAdvanced(batch) /\ Loops(batch))
  BY DEF ListPage
<1>5. /\ findings = {}
      /\ Finding("PAGE_LIMIT_EXCEEDED", Len(batch.changes) > PageSize) = {}
      /\ Finding("CURSOR_NOT_ADVANCED", NotAdvanced(batch)) = {}
      /\ Finding("CURSOR_LOOP", ~NotAdvanced(batch) /\ Loops(batch)) = {}
  BY <1>4
<1>6. ~NotAdvanced(batch) /\ ~Loops(batch)
  BY <1>3, <1>5 DEF Finding
<1>7. Len(batch.changes) <= PageSize
  BY <1>2, <1>5, CertificationAssumption DEF Finding
<1> QED BY <1>5, <1>6, <1>7 DEF ListPage

-----------------------------------------------------------------------------
(* The walk stays a chain of pages.                                        *)
LEMMA WalkStep ==
  ASSUME TypeOK, WalkInv, [Next]_vars
  PROVE  WalkInv'
<1>0. Len(walked) \in Nat
  BY DEF TypeOK
<1>1. CASE ListFails
  BY <1>1 DEF ListFails, WalkInv, Page
<1>2. ASSUME NEW batch \in Batches, ListPage(batch) PROVE WalkInv'
  <2> DEFINE n == Len(walked)
  <2>1. /\ n \in Nat
        /\ Len(walked') = n + 1
        /\ walked'[n + 1] = [from |-> cursor, batch |-> batch]
        /\ \A i \in 1 .. n : walked'[i] = walked[i]
    BY <1>2, Appended
  <2>2. /\ stage' # "paging" /\ at' = 1 /\ terminal' = terminal /\ stage = "paging"
    BY <1>2 DEF ListPage
  <2>3. Page' = [from |-> cursor, batch |-> batch]
    BY <2>1 DEF Page
  <2>4. Len(batch.changes) \in Nat
    BY CertificationAssumption DEF ChangeBatch
  <2>5. walked'[1].from = Start
    BY <2>1 DEF WalkInv
  <2>6. ASSUME NEW i \in 1 .. (Len(walked') - 1)
        PROVE  walked'[i].batch.more /\ walked'[i + 1].from = walked'[i].batch.next
    <3>1. CASE i < n
      BY <3>1, <2>1 DEF WalkInv
    <3>2. CASE i = n
      BY <3>2, <2>1, <2>2 DEF WalkInv, Page
    <3> QED BY <2>1, <3>1, <3>2
  <2>7. ~terminal'
    BY <2>2 DEF WalkInv
  <2> HIDE DEF n
  <2> QED BY <2>1, <2>2, <2>3, <2>4, <2>5, <2>6, <2>7 DEF WalkInv
<1>3. ASSUME NEW new, Examine(new) PROVE WalkInv'
  <2>1. Page' = Page
    BY <1>3 DEF Examine, Page
  <2>2. Len(Page.batch.changes) \in Nat
    BY <1>0, <1>3, PageTypes DEF Page, WalkInv, Examine
  <2>3. at' <= Len(Page.batch.changes) + 1
    BY <1>3, <2>2 DEF Examine, TypeOK
  <2> QED BY <1>3, <2>1, <2>3 DEF Examine, WalkInv
<1>4. CASE ExamineDelete
  BY <1>3, <1>4 DEF ExamineDelete
<1>5. ASSUME NEW record \in Fetched, NEW replayed \in Fetched, ExamineUpsert(record, replayed)
      PROVE  WalkInv'
  BY <1>3, <1>5 DEF ExamineUpsert
<1>6. CASE FetchFails
  BY <1>3, <1>6 DEF FetchFails
<1>7. ASSUME PageExamined
      PROVE  Len(walked) > 0 /\ at = Len(Page.batch.changes) + 1
  <2>1. Len(walked) > 0 /\ at <= Len(Page.batch.changes) + 1
    BY <1>0, <1>7 DEF PageExamined, WalkInv
  <2>2. Len(Page.batch.changes) \in Nat
    BY <1>0, <2>1, PageTypes DEF Page
  <2> QED BY <1>7, <2>1, <2>2 DEF PageExamined, TypeOK
<1>8. CASE Terminates
  BY <1>0, <1>7, <1>8 DEF Terminates, WalkInv, Page
<1>9. CASE Continues
  BY <1>0, <1>7, <1>9 DEF Continues, WalkInv, Page, PagesLeft
<1>10. CASE RunsOut
  BY <1>0, <1>7, <1>10 DEF RunsOut, WalkInv, Page, PageExamined
<1>11. CASE Reported
  BY <1>11 DEF Reported, vars, WalkInv, Page
<1>12. CASE UNCHANGED vars
  BY <1>12 DEF vars, WalkInv, Page
<1> QED BY <1>1, <1>2, <1>4, <1>5, <1>6, <1>8, <1>9, <1>10, <1>11, <1>12 DEF Next

(* Every stop short of the end is explained.                               *)
LEMMA StopStep ==
  ASSUME TypeOK, WalkInv, StopInv, [Next]_vars
  PROVE  StopInv'
<1> USE CertificationAssumption
<1>0. Len(walked) \in Nat
  BY DEF TypeOK
<1>1. CASE ListFails
  BY <1>1 DEF ListFails, StopInv
<1>2. ASSUME NEW batch \in Batches, ListPage(batch) PROVE StopInv'
  <2>1. findings' = {} => stage' = "examining"
    BY <1>2, CleanPage
  <2>2. "MAX_PAGES_REACHED" \notin findings
    BY <1>2 DEF ListPage, StopInv
  <2>3. "MAX_PAGES_REACHED" \notin findings'
    BY <1>2, <2>2 DEF ListPage, Finding
  <2> QED BY <2>1, <2>3 DEF StopInv
<1>3. ASSUME NEW new, "MAX_PAGES_REACHED" \notin new, Examine(new) PROVE StopInv'
  BY <1>3 DEF Examine, EventFindings, Finding, StopInv
<1>4. CASE ExamineDelete
  BY <1>3, <1>4 DEF ExamineDelete
<1>5. ASSUME NEW record \in Fetched, NEW replayed \in Fetched, ExamineUpsert(record, replayed)
      PROVE  StopInv'
  <2>1. record.flaws \subseteq Flaws
    BY DEF SourceRecord
  <2>2. "MAX_PAGES_REACHED" \notin RecordFindings(record, replayed, Current)
    BY <2>1 DEF RecordFindings, Finding, PageCodes
  <2> QED BY <1>3, <1>5, <2>2 DEF ExamineUpsert
<1>6. CASE FetchFails
  BY <1>3, <1>6 DEF FetchFails
<1>7. CASE Terminates
  BY <1>7 DEF Terminates, PageExamined, StopInv
<1>9. CASE Continues
  BY <1>9 DEF Continues, PageExamined, StopInv
<1>10. CASE RunsOut
  <2>1. Len(walked) = MaxPages
    BY <1>0, <1>10 DEF RunsOut, PagesLeft, TypeOK
  <2> QED BY <1>10, <2>1 DEF RunsOut, StopInv, Page
<1>11. CASE Reported
  BY <1>11 DEF Reported, vars, StopInv
<1>12. CASE UNCHANGED vars
  BY <1>12 DEF vars, StopInv
<1> QED BY <1>1, <1>2, <1>4, <1>5, <1>6, <1>7, <1>9, <1>10, <1>11, <1>12 DEF Next

-----------------------------------------------------------------------------
(* Steps other than ListPage and Examine leave the pages, and how much of  *)
(* them has been examined, as they are; they may add findings.             *)
LEMMA OtherSteps ==
  ASSUME [Next]_vars
  PROVE  \/ \E batch \in Batches : ListPage(batch)
         \/ \E record, replayed \in Fetched : ExamineUpsert(record, replayed)
         \/ ExamineDelete
         \/ FetchFails
         \/ /\ UNCHANGED <<outputs, events, latest, at, walked, fetched>>
            /\ findings' = {} => findings = {}
<1>1. CASE ListFails
  BY <1>1 DEF ListFails
<1>2. CASE Terminates \/ Continues \/ RunsOut
  BY <1>2 DEF Terminates, Continues, RunsOut
<1>3. CASE Reported \/ UNCHANGED vars
  BY <1>3 DEF Reported, vars
<1> QED BY <1>1, <1>2, <1>3 DEF Next

(* No page without findings repeats a cursor.                              *)
LEMMA PagesStep ==
  ASSUME TypeOK, WalkInv, PagesInv, [Next]_vars
  PROVE  PagesInv'
<1>1. ASSUME NEW batch \in Batches, ListPage(batch), findings' = {},
             NEW i \in 1 .. Len(walked')
      PROVE  PageIsClean(i)'
  <2> DEFINE n == Len(walked)
  <2>1. /\ n \in Nat
        /\ Len(walked') = n + 1
        /\ walked'[n + 1] = [from |-> cursor, batch |-> batch]
        /\ \A j \in 1 .. n : walked'[j] = walked[j]
    BY <1>1, Appended
  <2>2. /\ findings = {}
        /\ Len(batch.changes) <= PageSize
        /\ ~NotAdvanced(batch)
        /\ ~Loops(batch)
        /\ outputs' = outputs \cup {batch.next}
    BY <1>1, CleanPage
  <2>3. \A j \in 1 .. n : PageIsClean(j)
    BY <2>2 DEF PagesInv
  <2> HIDE DEF n
  <2>4. CASE i \in 1 .. n
    <3>1. \A j \in 1 .. (i - 1) : walked'[j] = walked[j]
      BY <2>1, <2>4
    <3>2. PageIsClean(i) /\ walked'[i] = walked[i]
      BY <2>1, <2>3, <2>4
    <3> QED BY <2>2, <3>1, <3>2 DEF PageIsClean
  <2>5. CASE i = n + 1
    <3>1. walked'[i].batch = batch /\ walked'[i].from = cursor
      BY <2>1, <2>5
    <3>2. \A j \in 1 .. (i - 1) : walked'[j].batch.next \in outputs
      BY <2>1, <2>3, <2>5 DEF PageIsClean
    <3> QED BY <2>2, <3>1, <3>2 DEF PageIsClean, NotAdvanced, Loops
  <2> QED BY <1>1, <2>1, <2>4, <2>5
<1>2. ASSUME NEW new, Examine(new) PROVE PagesInv'
  BY <1>2 DEF Examine, PagesInv, PageIsClean
<1>3. ASSUME UNCHANGED <<outputs, walked>>, findings' = {} => findings = {}
      PROVE  PagesInv'
  BY <1>3 DEF PagesInv, PageIsClean
<1>4. ASSUME NEW batch \in Batches, ListPage(batch) PROVE PagesInv'
  BY <1>1, <1>4 DEF PagesInv
<1> QED BY <1>2, <1>3, <1>4, OtherSteps DEF ExamineUpsert, ExamineDelete, FetchFails

-----------------------------------------------------------------------------
(* Listing a page examines nothing: what had been examined was everything  *)
(* on the pages before, and is so still.                                   *)
LEMMA ListingExamines ==
  ASSUME TypeOK, WalkInv, NEW batch \in Batches, ListPage(batch),
         NEW p \in 1 .. Len(walked'), NEW i \in 1 .. ExaminedOn(p)'
  PROVE  /\ p \in 1 .. Len(walked)
         /\ i \in 1 .. ExaminedOn(p)
         /\ walked'[p] = walked[p]
<1> DEFINE n == Len(walked)
<1>1. /\ n \in Nat
      /\ Len(walked') = n + 1
      /\ \A j \in 1 .. n : walked'[j] = walked[j]
  BY Appended
<1>2. at' = 1 /\ stage = "paging"
  BY DEF ListPage
<1>3. p # n + 1
  BY <1>1, <1>2 DEF ExaminedOn
<1>4. p \in 1 .. n /\ walked'[p] = walked[p]
  BY <1>1, <1>3
<1>5. ExaminedOn(p)' = Len(walked[p].batch.changes)
  BY <1>1, <1>4 DEF ExaminedOn
<1>6. Len(walked[p].batch.changes) \in Nat
  BY <1>4, PageTypes
<1>7. p = n => at = Len(walked[p].batch.changes) + 1
  BY <1>2, <1>4 DEF WalkInv, Page
<1>8. ExaminedOn(p) = Len(walked[p].batch.changes)
  BY <1>1, <1>4, <1>6, <1>7 DEF ExaminedOn
<1> QED BY <1>4, <1>5, <1>8

(* Examining one change examines it and no other.                          *)
LEMMA ExaminingExamines ==
  ASSUME TypeOK, WalkInv, NEW new, Examine(new),
         NEW p \in 1 .. Len(walked'), NEW i \in 1 .. ExaminedOn(p)'
  PROVE  /\ p \in 1 .. Len(walked)
         /\ walked'[p] = walked[p]
         /\ \/ i \in 1 .. ExaminedOn(p)
            \/ p = Len(walked) /\ i = at /\ walked[p].batch.changes[i] = Current
         /\ i \in Nat
<1>1. walked' = walked /\ at' = at + 1 /\ at \in Nat \ {0}
  BY DEF Examine, TypeOK
<1>2. Len(walked) \in Nat
  BY DEF TypeOK
<1>3. CASE p = Len(walked)
  BY <1>1, <1>2, <1>3 DEF ExaminedOn, Current, Page
<1>4. CASE p # Len(walked)
  BY <1>1, <1>2, <1>4 DEF ExaminedOn
<1> QED BY <1>3, <1>4

(* A change examined without a finding is new, its own source's and in     *)
(* order.                                                                  *)
LEMMA CleanChange ==
  ASSUME TypeOK, WalkInv, NEW new, Examine(new), findings' = {}
  PROVE  /\ findings = {}
         /\ new = {}
         /\ Current \in SourceChange
         /\ Event(Current) \notin events
         /\ Current.source = Self
         /\ latest <= Current.at
<1>1. Current \in SourceChange
  BY CurrentTypes DEF Examine
<1>2. findings = {} /\ new = {} /\ EventFindings(Current) = {}
  BY DEF Examine
<1>3. Current.at \in Nat /\ latest \in Nat
  BY <1>1 DEF SourceChange, TypeOK
<1>4. Event(Current) \notin events /\ Current.source = Self
  BY <1>2 DEF EventFindings, Finding, AlreadySeen
<1>5. ~(Current.at < latest)
  BY <1>2 DEF EventFindings, Finding
<1> QED BY <1>1, <1>2, <1>3, <1>4, <1>5

(* What is examined is clean, and remembered.                              *)
LEMMA ChangesStep ==
  ASSUME TypeOK, WalkInv, ChangesInv, [Next]_vars
  PROVE  ChangesInv'
<1>1. ASSUME NEW batch \in Batches, ListPage(batch), findings' = {},
             NEW p \in 1 .. Len(walked'), NEW i \in 1 .. ExaminedOn(p)'
      PROVE  ChangeIsClean(walked[p].batch.changes[i])' /\ walked'[p] = walked[p]
  <2>1. findings = {}
    BY <1>1, CleanPage
  <2>2. /\ p \in 1 .. Len(walked)
        /\ i \in 1 .. ExaminedOn(p)
        /\ walked'[p] = walked[p]
    BY <1>1, ListingExamines
  <2>3. ChangeIsClean(walked[p].batch.changes[i])
    BY <2>1, <2>2 DEF ChangesInv
  <2>4. UNCHANGED <<events, latest, fetched>>
    BY <1>1 DEF ListPage
  <2> QED BY <2>2, <2>3, <2>4 DEF ChangeIsClean
<1>2. ASSUME NEW new, Examine(new), findings' = {}, fetched \subseteq fetched',
             Current.kind = "upsert" =>
               \E answer \in fetched' :
                 answer.change = Current /\ Matches(answer.record, Current),
             NEW p \in 1 .. Len(walked'), NEW i \in 1 .. ExaminedOn(p)'
      PROVE  ChangeIsClean(walked[p].batch.changes[i])'
  <2>1. /\ findings = {}
        /\ Current \in SourceChange
        /\ Current.source = Self
        /\ latest <= Current.at
    BY <1>2, CleanChange
  <2>2. /\ p \in 1 .. Len(walked)
        /\ walked'[p] = walked[p]
        /\ \/ i \in 1 .. ExaminedOn(p)
           \/ walked[p].batch.changes[i] = Current
    BY <1>2, ExaminingExamines
  <2>3. events' = events \cup {Event(Current)} /\ latest' = Current.at
    BY <1>2 DEF Examine
  <2>4. CASE i \in 1 .. ExaminedOn(p)
    <3> DEFINE c == walked[p].batch.changes[i]
    <3>1. ChangeIsClean(c)
      BY <2>1, <2>2, <2>4 DEF ChangesInv
    <3>2. c \in SourceChange
      <4>1. walked[p].batch.changes \in Seq(SourceChange)
        BY <2>2, PageTypes
      <4>2. i \in 1 .. Len(walked[p].batch.changes)
        BY <1>2, <2>2, <2>4, <4>1 DEF ExaminedOn, Examine, Page, TypeOK
      <4> QED BY <4>1, <4>2, ElementOfSeq
    <3>3. c.at <= latest'
      BY <2>1, <2>3, <3>1, <3>2 DEF ChangeIsClean, SourceChange, TypeOK
    <3>4. walked'[p].batch.changes[i] = c
      BY <2>2
    <3> HIDE DEF c
    <3> QED BY <1>2, <2>3, <3>1, <3>3, <3>4 DEF ChangeIsClean
  <2>5. CASE walked[p].batch.changes[i] = Current
    <3>1. Current.at \in Nat
      BY <2>1 DEF SourceChange
    <3>2. walked'[p].batch.changes[i] = Current
      BY <2>2, <2>5
    <3> QED BY <1>2, <2>1, <2>3, <3>1, <3>2 DEF ChangeIsClean, Matches
  <2> QED BY <2>2, <2>4, <2>5
<1>3. ASSUME NEW batch \in Batches, ListPage(batch) PROVE ChangesInv'
  BY <1>1, <1>3 DEF ChangesInv
<1>4. ASSUME ExamineDelete PROVE ChangesInv'
  <2>1. Examine({}) /\ Current.kind # "upsert" /\ fetched' = fetched
    BY <1>4 DEF ExamineDelete
  <2> QED BY <1>2, <2>1 DEF ChangesInv
<1>5. ASSUME NEW record \in Fetched, NEW replayed \in Fetched, ExamineUpsert(record, replayed)
      PROVE  ChangesInv'
  <2> DEFINE new == RecordFindings(record, replayed, Current)
  <2>1. Examine(new) /\ fetched' = fetched \cup {[change |-> Current, record |-> record]}
    BY <1>5 DEF ExamineUpsert
  <2>2. findings' = {} => Matches(record, Current)
    <3>1. findings' = {} => new = {}
      BY <2>1 DEF Examine
    <3> QED BY <3>1 DEF RecordFindings, Finding
  <2>3. findings' = {} =>
          \E answer \in fetched' :
            answer.change = Current /\ Matches(answer.record, Current)
    <3> DEFINE answer == [change |-> Current, record |-> record]
    <3>1. answer \in fetched' /\ answer.change = Current /\ answer.record = record
      BY <2>1
    <3> HIDE DEF answer, new
    <3> QED BY <2>2, <3>1
  <2> HIDE DEF new
  <2> QED BY <1>2, <2>1, <2>3 DEF ChangesInv
<1>6. ASSUME FetchFails PROVE ChangesInv'
  <2>1. "FETCH_FAILED" \in findings'
    BY <1>6 DEF FetchFails, Examine
  <2> QED BY <2>1 DEF ChangesInv
<1>7. ASSUME UNCHANGED <<events, latest, at, walked, fetched>>, findings' = {} => findings = {}
      PROVE  ChangesInv'
  BY <1>7 DEF ChangesInv, ChangeIsClean, ExaminedOn
<1> QED BY <1>3, <1>4, <1>5, <1>6, <1>7, OtherSteps

(* Of two changes examined, the later follows the earlier.                 *)
LEMMA OrderStep ==
  ASSUME TypeOK, WalkInv, ChangesInv, OrderInv, [Next]_vars
  PROVE  OrderInv'
<1> DEFINE Earlier(p, i, q, j) == p < q \/ (p = q /\ i < j)
<1>1. ASSUME NEW batch \in Batches, ListPage(batch), findings' = {},
             NEW p \in 1 .. Len(walked'), NEW q \in 1 .. Len(walked'),
             NEW i \in 1 .. ExaminedOn(p)', NEW j \in 1 .. ExaminedOn(q)', Earlier(p, i, q, j)
      PROVE  Follows(walked'[p].batch.changes[i], walked'[q].batch.changes[j])
  <2>1. findings = {}
    BY <1>1, CleanPage
  <2>2. /\ p \in 1 .. Len(walked) /\ i \in 1 .. ExaminedOn(p) /\ walked'[p] = walked[p]
        /\ q \in 1 .. Len(walked) /\ j \in 1 .. ExaminedOn(q) /\ walked'[q] = walked[q]
    BY <1>1, ListingExamines
  <2> QED BY <1>1, <2>1, <2>2 DEF OrderInv
<1>2. ASSUME NEW new, Examine(new), findings' = {},
             NEW p \in 1 .. Len(walked'), NEW q \in 1 .. Len(walked'),
             NEW i \in 1 .. ExaminedOn(p)', NEW j \in 1 .. ExaminedOn(q)', Earlier(p, i, q, j)
      PROVE  Follows(walked'[p].batch.changes[i], walked'[q].batch.changes[j])
  <2>1. /\ findings = {}
        /\ Current \in SourceChange
        /\ Event(Current) \notin events
        /\ latest <= Current.at
    BY <1>2, CleanChange
  <2>2. /\ p \in 1 .. Len(walked) /\ i \in Nat /\ walked'[p] = walked[p]
        /\ i \in 1 .. ExaminedOn(p) \/ (p = Len(walked) /\ i = at)
        /\ q \in 1 .. Len(walked) /\ j \in Nat /\ walked'[q] = walked[q]
        /\ \/ j \in 1 .. ExaminedOn(q)
           \/ q = Len(walked) /\ j = at /\ walked[q].batch.changes[j] = Current
    BY <1>2, ExaminingExamines
  <2>3. at \in Nat /\ Len(walked) \in Nat
    BY DEF TypeOK
  <2>4. ExaminedOn(Len(walked)) = at - 1
    BY DEF ExaminedOn
  <2>5. i \in 1 .. ExaminedOn(p)
    <3>1. CASE q = Len(walked)
      <4>1. j <= at
        BY <2>2, <2>3, <2>4, <3>1
      <4> QED BY <1>2, <2>2, <2>3, <3>1, <4>1
    <3>2. CASE q # Len(walked)
      BY <1>2, <2>2, <2>3, <3>2
    <3> QED BY <3>1, <3>2
  <2>6. CASE j \in 1 .. ExaminedOn(q)
    BY <1>2, <2>1, <2>2, <2>5, <2>6 DEF OrderInv
  <2>7. CASE walked[q].batch.changes[j] = Current
    <3> DEFINE c == walked[p].batch.changes[i]
    <3>1. Event(c) \in events /\ c.at <= latest
      BY <2>1, <2>2, <2>5 DEF ChangesInv, ChangeIsClean
    <3>2. c \in SourceChange
      <4>1. walked[p].batch.changes \in Seq(SourceChange)
        BY <2>2, PageTypes
      <4>2. i \in 1 .. Len(walked[p].batch.changes)
        BY <1>2, <2>2, <2>5, <4>1 DEF ExaminedOn, Examine, Page, TypeOK
      <4> QED BY <4>1, <4>2, ElementOfSeq
    <3>3. c.at \in Nat /\ Current.at \in Nat /\ latest \in Nat
      BY <2>1, <3>2 DEF SourceChange, TypeOK
    <3>4. walked'[p].batch.changes[i] = c /\ walked'[q].batch.changes[j] = Current
      BY <2>2, <2>7
    <3> HIDE DEF c
    <3> QED BY <2>1, <3>1, <3>3, <3>4 DEF Follows
  <2> QED BY <2>2, <2>6, <2>7
<1> HIDE DEF Earlier
<1>3. ASSUME NEW batch \in Batches, ListPage(batch) PROVE OrderInv'
  BY <1>1, <1>3 DEF OrderInv, Earlier
<1>4. ASSUME NEW new, Examine(new) PROVE OrderInv'
  <2>1. SUFFICES
          ASSUME findings' = {},
                 NEW p \in 1 .. Len(walked'), NEW q \in 1 .. Len(walked'),
                 NEW i \in 1 .. ExaminedOn(p)', NEW j \in 1 .. ExaminedOn(q)',
                 p < q \/ (p = q /\ i < j)
          PROVE  Follows(walked'[p].batch.changes[i], walked'[q].batch.changes[j])
    BY DEF OrderInv, Follows, Event
  <2> QED BY <1>2, <1>4, <2>1 DEF Earlier
<1>5. ASSUME UNCHANGED <<at, walked>>, findings' = {} => findings = {}
      PROVE  OrderInv'
  <2>1. \A p \in 1 .. Len(walked) : ExaminedOn(p)' = ExaminedOn(p)
    BY <1>5 DEF ExaminedOn
  <2>2. SUFFICES
          ASSUME findings = {},
                 NEW p \in 1 .. Len(walked), NEW q \in 1 .. Len(walked),
                 NEW i \in 1 .. ExaminedOn(p), NEW j \in 1 .. ExaminedOn(q),
                 p < q \/ (p = q /\ i < j)
          PROVE  Follows(walked[p].batch.changes[i], walked[q].batch.changes[j])
    BY <1>5, <2>1 DEF OrderInv, Follows, Event
  <2> QED BY <2>2 DEF OrderInv
<1>6. ASSUME NEW record \in Fetched, NEW replayed \in Fetched, ExamineUpsert(record, replayed)
      PROVE  OrderInv'
  BY <1>4, <1>6 DEF ExamineUpsert
<1>7. CASE ExamineDelete
  BY <1>4, <1>7 DEF ExamineDelete
<1>8. CASE FetchFails
  BY <1>4, <1>8 DEF FetchFails
<1> HIDE DEF OrderInv
<1> QED BY <1>3, <1>5, <1>6, <1>7, <1>8, OtherSteps

-----------------------------------------------------------------------------
Inv == TypeOK /\ WalkInv /\ PagesInv /\ ChangesInv /\ OrderInv /\ StopInv

(* What every reachable state of a certification satisfies.                *)
THEOREM CertificationInvariant == Spec => []Inv
<1>1. Init => Inv
  <2> SUFFICES ASSUME Init PROVE Inv
    OBVIOUS
  <2> USE CertificationAssumption
  <2>1. walked = <<>> /\ Len(walked) = 0
    BY DEF Init
  <2>2. TypeOK
    <3>1. walked \in Seq([from : Cursors, batch : Batches])
      BY <2>1
    <3>2. Len(walked) <= MaxPages
      BY <2>1
    <3>3. /\ stage = "paging" /\ cursor = Start /\ outputs = {} /\ events = {}
          /\ latest = 0 /\ at = 1 /\ terminal = FALSE /\ findings = {} /\ fetched = {}
      BY DEF Init
    <3>4. latest \in Nat /\ at \in Nat \ {0}
      BY <3>3
    <3>5. /\ cursor \in Cursors /\ terminal \in BOOLEAN
          /\ stage \in {"paging", "examining", "done"}
      BY <3>3
    <3> QED BY <3>1, <3>2, <3>3, <3>4, <3>5, Zenon DEF TypeOK
  <2>3. WalkInv
    BY <2>1 DEF Init, WalkInv
  <2>4. PagesInv /\ ChangesInv /\ OrderInv
    BY <2>1 DEF PagesInv, ChangesInv, OrderInv
  <2>5. StopInv
    BY DEF Init, StopInv
  <2> QED BY <2>2, <2>3, <2>4, <2>5 DEF Inv
<1>2. Inv /\ [Next]_vars => Inv'
  BY TypeStep, WalkStep, PagesStep, ChangesStep, OrderStep, StopStep DEF Inv
<1> QED BY <1>1, <1>2, PTL DEF Spec

(* Every variable has its type and the walk asks for at most max_pages.    *)
THEOREM CertificationTypeCorrect == Spec => []TypeOK
BY CertificationInvariant, PTL DEF Inv

(* A conformant report stands for one unbroken walk to a terminal page.    *)
THEOREM ConformantWalks == Spec => []ConformantWalkIsComplete
<1>1. ASSUME Inv, IsConformant PROVE ConformantWalkIsComplete
  <2>1. /\ findings = {} /\ terminal
        /\ Len(walked) \in Nat
        /\ TypeOK /\ WalkInv /\ PagesInv
    BY <1>1 DEF IsConformant, Inv, TypeOK
  <2>2. Len(walked) > 0 /\ walked[1].from = Start
    BY <2>1 DEF WalkInv
  <2>3. ASSUME NEW i \in 1 .. Len(walked)
        PROVE  /\ Len(walked[i].batch.changes) <= PageSize
               /\ walked[i].batch.more <=> i < Len(walked)
               /\ i < Len(walked) => walked[i + 1].from = walked[i].batch.next
               /\ i < Len(walked) =>
                    \A j \in 1 .. (i - 1) : walked[j].batch.next # walked[i].batch.next
    <3>1. PageIsClean(i) /\ walked[i].batch.more \in BOOLEAN
      BY <2>1, PageTypes DEF PagesInv
    <3>2. i < Len(walked) =>
            walked[i].batch.more /\ walked[i + 1].from = walked[i].batch.next
      BY <2>1 DEF WalkInv
    <3>3. i = Len(walked) => ~walked[i].batch.more
      BY <2>1 DEF WalkInv, Page
    <3> QED BY <2>1, <3>1, <3>2, <3>3 DEF PageIsClean
  <2>4. ASSUME NEW i \in 1 .. Len(walked), NEW j \in 1 .. Len(walked), i < j
        PROVE  walked[i].batch # walked[j].batch
    <3>1. CASE j = Len(walked)
      BY <2>3, <2>4, <3>1
    <3>2. CASE j < Len(walked)
      <4>1. i \in 1 .. (j - 1)
        BY <2>1, <2>4
      <4> QED BY <2>3, <3>2, <4>1
    <3> QED BY <2>1, <3>1, <3>2
  <2> QED BY <2>2, <2>3, <2>4 DEF ConformantWalkIsComplete
<1>2. Inv => ConformantWalkIsComplete
  BY <1>1 DEF ConformantWalkIsComplete
<1> QED BY <1>2, CertificationInvariant, PTL

(* No event of a conformant stream is repeated or out of order.            *)
THEOREM ConformantEvents == Spec => []ConformantEventsAreDistinct
<1>1. Inv => ConformantEventsAreDistinct
  BY DEF Inv, IsConformant, OrderInv, Follows, ConformantEventsAreDistinct
<1> QED BY <1>1, CertificationInvariant, PTL

(* Every page of a certified walk is one that run_page accepts.            *)
THEOREM ConformantPages == Spec => []ConformantPagesAreIngestible
<1>1. ASSUME Inv, IsConformant, NEW p \in 1 .. Len(walked)
      PROVE  RunPageAccepts(walked[p].from, walked[p].batch, fetched)
  <2>1. /\ findings = {} /\ terminal /\ TypeOK /\ WalkInv /\ PagesInv
        /\ ChangesInv /\ OrderInv
        /\ Len(walked) \in Nat
    BY <1>1 DEF IsConformant, Inv, TypeOK
  <2>2. walked[p].batch.more => walked[p].batch.next # walked[p].from
    BY <2>1 DEF PagesInv, PageIsClean
  <2>3. walked[p].batch.changes \in Seq(SourceChange)
    BY <2>1, PageTypes
  <2>4. ExaminedOn(p) = Len(walked[p].batch.changes)
    BY <2>1, <2>3 DEF ExaminedOn, WalkInv, Page
  <2> DEFINE changes == walked[p].batch.changes
  <2>5. DOMAIN changes = 1 .. ExaminedOn(p) /\ ExaminedOn(p) \in Nat
    BY <2>3, <2>4
  <2>6. ASSUME NEW i \in DOMAIN changes
        PROVE  ChangeIsClean(changes[i])
    BY <2>1, <2>5 DEF ChangesInv
  <2>7. ASSUME NEW i \in DOMAIN changes, NEW j \in 1 .. (i - 1)
        PROVE  Event(changes[j]) # Event(changes[i])
    <3>1. i \in 1 .. ExaminedOn(p) /\ j \in 1 .. ExaminedOn(p) /\ j < i
      BY <2>5
    <3> QED BY <2>1, <3>1 DEF OrderInv, Follows
  <2> HIDE DEF changes
  <2>8. RunPageAccepts(walked[p].from, walked[p].batch, fetched)
        <=> /\ walked[p].batch.more => walked[p].batch.next # walked[p].from
            /\ \A i \in DOMAIN changes :
                 /\ changes[i].source = Self
                 /\ \A j \in 1 .. (i - 1) : Event(changes[j]) # Event(changes[i])
                 /\ changes[i].kind = "upsert" =>
                      \E answer \in fetched :
                        /\ answer.change = changes[i]
                        /\ answer.record.source = Self
                        /\ answer.record.id = changes[i].id
                        /\ answer.record.version = changes[i].version
    BY DEF RunPageAccepts, changes
  <2> QED BY <2>2, <2>6, <2>7, <2>8 DEF ChangeIsClean
<1>2. Inv => ConformantPagesAreIngestible
  BY <1>1 DEF ConformantPagesAreIngestible
<1> QED BY <1>2, CertificationInvariant, PTL

(* The walk never stops short of its end without saying why.               *)
THEOREM StopsAreExplained == Spec => []EveryStopIsExplained
<1>1. Inv => EveryStopIsExplained
  BY DEF Inv, TypeOK, StopInv, EveryStopIsExplained
<1> QED BY <1>1, CertificationInvariant, PTL
=============================================================================
