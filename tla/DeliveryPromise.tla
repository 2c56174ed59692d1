--------------------------- MODULE DeliveryPromise ---------------------------
(***************************************************************************)
(* What the producer promises of a source page, whatever runners, retries  *)
(* and crashes lie between (docs/adr/0004): at-least-once delivery.        *)
(*                                                                         *)
(* Changes appear; each may be delivered to the sink at any time, any      *)
(* number of times; and the acknowledged cursor moves over a change only   *)
(* once it has been delivered, waived as a deletion of nothing, or         *)
(* superseded by a later change of the same record.                        *)
(***************************************************************************)
EXTENDS ChangeFeed

VARIABLES feed, delivered, waived, cursor

vars == <<feed, delivered, waived, cursor>>

Init ==
  /\ feed = <<>>
  /\ delivered = {}
  /\ waived = {}
  /\ cursor = 0

Change ==
  /\ \E c \in SourceChange : feed' = Append(feed, c)
  /\ UNCHANGED <<delivered, waived, cursor>>

Deliver ==
  /\ \E ps \in SUBSET (1 .. Len(feed)) : delivered' = delivered \cup ps
  /\ UNCHANGED <<feed, waived, cursor>>

Acknowledge ==
  /\ \E n \in cursor .. Len(feed) :
       \E deletions \in SUBSET {p \in (cursor + 1) .. n : feed[p].kind = "delete"} :
         /\ Listed(feed, cursor, n) \subseteq delivered \cup deletions
         /\ cursor' = n
         /\ waived' = waived \cup deletions
  /\ UNCHANGED <<feed, delivered>>

Next == Change \/ Deliver \/ Acknowledge

Spec == Init /\ [][Next]_vars
=============================================================================
