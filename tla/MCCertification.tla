--------------------------- MODULE MCCertification ---------------------------
(* Pages of at most two changes: an upsert, a later deletion, an earlier   *)
(* upsert of another source; four pages to walk, the fewest in which a     *)
(* walk can return to a cursor it has left and still reach an end, and as  *)
(* many cursors, so that the walk can also run out of pages.               *)
EXTENDS Certification

CONSTANTS c0, c1, c2, c3, wiki, other, page

change(source, version, kind, time) ==
  [source |-> source, id |-> page, version |-> version, kind |-> kind, at |-> time]

created == change(wiki, 1, "upsert", 1)
deleted == change(wiki, 1, "delete", 2)
foreign == change(other, 1, "upsert", 1)

MCPages == {<<>>, <<created>>, <<deleted>>, <<created, deleted>>, <<created, foreign>>}

MCBatches ==
  [changes : MCPages, next : {c1, c2}, more : {TRUE}]
    \cup [changes : {<<>>}, next : {c0, c3}, more : {TRUE}]
    \cup [changes : {<<>>, <<deleted>>}, next : {c0}, more : {FALSE}]

record(version, flaws) ==
  [source |-> wiki, id |-> page, version |-> version, flaws |-> flaws]

MCFetched == {record(1, {}), record(2, {}), record(1, {"BODY_EMPTY"})}
=============================================================================
