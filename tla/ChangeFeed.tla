----------------------------- MODULE ChangeFeed -----------------------------
(***************************************************************************)
(* The change feed of a KnowledgeSource, as the producer engine sees it.   *)
(* The source is outside src/; it is modelled from how run_page and        *)
(* certify_connector use it.                                               *)
(*                                                                         *)
(* A feed is the sequence of changes the source has ever made.  A position *)
(* in it stands for the change's version, so (record, version, kind), the  *)
(* identity an operation id digests, is the position itself.  A cursor is  *)
(* the last position a page has covered; 0 is the cursor None.             *)
(***************************************************************************)
EXTENDS Naturals, Sequences

CONSTANTS
  Records,     \* record identifiers of the source
  LatestOnly   \* TRUE: the feed lists only the latest change of a record
               \* (a delta feed); FALSE: it lists every intermediate change

ASSUME LatestOnlyAssumption == LatestOnly \in BOOLEAN

ChangeKind == {"upsert", "delete"}

SourceChange == [record : Records, kind : ChangeKind]

(* No later change of the same record: fetch_record answers with exactly   *)
(* this version.                                                           *)
IsCurrent(feed, p) ==
  \A q \in (p + 1) .. Len(feed) : feed[q].record # feed[p].record

Superseded(feed, p) == LatestOnly /\ ~IsCurrent(feed, p)

(* The changes the feed lists strictly after cursor c, up to position n.   *)
Listed(feed, c, n) == {p \in (c + 1) .. n : ~Superseded(feed, p)}

(* The positions that stand for a record the source holds right now.       *)
Present(feed) ==
  {p \in 1 .. Len(feed) : feed[p].kind = "upsert" /\ IsCurrent(feed, p)}

(* The version of a record the source holds, 0 when it holds none.         *)
SourceVersion(feed, rec) ==
  IF \E p \in Present(feed) : feed[p].record = rec
  THEN CHOOSE p \in Present(feed) : feed[p].record = rec
  ELSE 0
=============================================================================
