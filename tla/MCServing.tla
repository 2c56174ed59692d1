----------------------------- MODULE MCServing -----------------------------
(* Three archives: one whose first concept links to a confidential one,    *)
(* one that changes a body and fails half way, one of a draft and a        *)
(* deprecated concept.                                                     *)
EXTENDS Serving, TLC

CONSTANTS ann, ops, main, broken, old, guide, plan, text, text2, secret, prod, next, d1, d2, e1, e2

concept(content, status, staleAfter, classification, acl, links) ==
  [content |-> content, indexable |-> TRUE, status |-> status,
   staleAfter |-> staleAfter, classification |-> classification, acl |-> acl,
   links |-> links]

MCContained ==
  [a \in Archives |->
     CASE a = main ->
            [p \in {guide, plan} |->
               IF p = guide THEN concept(text, "stable", 1, 1, "open", {guide, plan})
               ELSE concept(secret, "stable", 1, 2, "narrow", {guide})]
       [] a = broken ->
            [p \in {guide, plan} |->
               IF p = guide THEN concept(text2, "stable", 1, 1, "open", {})
               ELSE [concept(secret, "stable", 1, 2, "open", {}) EXCEPT
                       !.indexable = FALSE]]
       [] a = old ->
            [p \in {guide, plan} |->
               IF p = guide THEN concept(text2, "deprecated", 0, 1, "open", {plan})
               ELSE concept(secret, "draft", 1, 0, "open", {})]]

open == [subjects |-> {}, groups |-> {ops}, types |-> PrincipalTypes,
         actions |-> RetrievalActions]

MCPolicy == [ref \in {"open", "narrow"} |->
               IF ref = "open" THEN open
               ELSE [open EXCEPT !.actions = {"read", "search"}]]

principal(groups, clearance) ==
  [subject |-> ann, type |-> "human", groups |-> groups, clearance |-> clearance]

query(operation, groups, clearance, ref, uid, now, deprecated) ==
  [operation |-> operation, principal |-> principal(groups, clearance),
   ref |-> ref, uid |-> uid, matching |-> {text, secret}, limit |-> 1,
   now |-> now, deprecated |-> deprecated, stale |-> FALSE]

MCFetches(refs) ==
  {query("fetch", {ops}, 2, ref, uid, 1, FALSE) : ref \in refs, uid \in Paths}
  \cup {query("fetch", {}, 2, ref, guide, 1, FALSE) : ref \in refs}
  \cup {query("fetch", {ops}, 1, ref, guide, now, TRUE) : ref \in refs, now \in {0, 1}}

MCSearches(refs) ==
  {query("search", {ops}, clearance, ref, guide, 1, FALSE) :
     ref \in refs, clearance \in {1, 2}}

MCList == {query("list", {ops}, 1, prod, guide, 1, FALSE)}

MCQueries ==
  MCFetches(Digests \cup {prod}) \cup MCSearches(Digests \cup {prod}) \cup MCList

Symmetry == Permutations({d1, d2}) \cup Permutations({e1, e2})
=============================================================================
