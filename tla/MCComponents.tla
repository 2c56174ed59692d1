---------------------------- MODULE MCComponents ----------------------------
(* The small components that keep their state to themselves, checked side  *)
(* by side: in every behaviour one of them moves and the others rest.      *)
EXTENDS Retry, AuthorizationRequests, ReleaseFiles, LinkTargets, Evaluation, Authoring, TLC

CONSTANTS
  ann, ops, team, invoice, billing, stable, mixed, root, child, text, expectedUid, forbiddenUid

VARIABLE moving

Components == {"retry", "authorization", "files", "links", "evaluation", "authoring"}

-----------------------------------------------------------------------------
(* authorization: one ACL reference that the policy binds in different     *)
(* ways or not at all, a second that it may bind too                       *)
aclBinding(groups, types, actions) ==
  [subjects |-> {}, groups |-> groups, types |-> types, actions |-> actions]

wide == [subjects |-> {ann}, groups |-> {ops, team},
         types |-> PrincipalTypes, actions |-> RetrievalActions]

MCPolicies ==
  {[ref \in {} |-> wide]} \cup
  {[ref \in {"acl"} |-> b] :
     b \in {wide,
            aclBinding({ops}, PrincipalTypes, RetrievalActions),
            aclBinding({ops, team}, PrincipalTypes, {"search"}),
            aclBinding({team}, {"human"}, {"read", "search"})}} \cup
  {[ref \in {"other"} |-> wide]}

MCPrincipals ==
  [subject : {ann}, type : PrincipalTypes, groups : SUBSET {ops, team},
   clearance : {0, 2}]

MCResources ==
  [classification : {0, 1, 2}, acl : {"acl"}, action : {"read", "search"}]

(* files: two states of the bundle                                         *)
MCBundles == {stable, mixed}

MCConcepts ==
  [b \in MCBundles |-> {[status |-> "stable", staleAfter |-> 1, lacks |-> {}]}]

(* links: a name that may also be written with escapes, as may ".."        *)
MCDirectories == {<<>>, <<child>>, <<child, text>>}

MCEscapedText == [n \in {root, child, text, ".."} |-> text]

(* evaluation: an answer and a refusal, one of them reviewed               *)
answer ==
  [behavior |-> "answer", expected |-> {expectedUid}, forbidden |-> {forbiddenUid},
   reviewRequired |-> FALSE]

refusal ==
  [behavior |-> "refuse", expected |-> {}, forbidden |-> {forbiddenUid},
   reviewRequired |-> TRUE]

answerOfTwo ==
  [behavior |-> "answer", expected |-> {expectedUid, forbiddenUid}, forbidden |-> {},
   reviewRequired |-> FALSE]

MCBenchmarks ==
  {[id \in {1, 2} |-> IF id = 1 THEN answer ELSE refusal], [id \in {1} |-> answerOfTwo]}

-----------------------------------------------------------------------------

MCInit ==
  /\ moving \in Components
  /\ moving # "retry" =>
       policy = [maxAttempts |-> 1, initial |-> 0, multiplier |-> 1, maxDelay |-> 0]
  /\ RetryInit
  /\ moving # "authorization" =>
       asked = CHOOSE request \in RequestsInUse : TRUE
  /\ AskInit
  /\ moving # "files" => bundle = stable
  /\ FilesInit
  /\ moving # "links" =>
       link = [start |-> "relative", colon |-> FALSE, length |-> 0,
               escaped |-> FALSE, resolved |-> <<root>>, normalized |-> <<>>]
  /\ LinksInit
  /\ moving # "evaluation" => benchmark = [id \in {1} |-> answerOfTwo]
  /\ EvaluationInit
  /\ moving # "authoring" =>
       source = [record \in Records |-> [title |-> billing, refs |-> {}, version |-> 0]]
  /\ AuthoringInit

MCNext ==
  /\ UNCHANGED moving
  /\ \/ moving = "retry" /\ RetryNext
     \/ moving # "retry" /\ UNCHANGED retryVars
  /\ \/ moving = "authorization" /\ AskNext
     \/ moving # "authorization" /\ UNCHANGED askVars
  /\ \/ moving = "files" /\ FilesNext
     \/ moving # "files" /\ UNCHANGED filesVars
  /\ \/ moving = "links" /\ LinksNext
     \/ moving # "links" /\ UNCHANGED linksVars
  /\ \/ moving = "evaluation" /\ EvaluationNext
     \/ moving # "evaluation" /\ UNCHANGED evaluationVars
  /\ \/ moving = "authoring" /\ AuthoringNext
     \/ moving # "authoring" /\ UNCHANGED authoringVars

(* Builders and renderers are the same model values.                       *)
Symmetry ==
  {p @@ q : p \in Permutations(Renderers), q \in Permutations(EntitlementRefs)}

MCVars ==
  <<moving, retryVars, askVars, filesVars, linksVars, evaluationVars, authoringVars>>

MCSpec == MCInit /\ [][MCNext]_MCVars
=============================================================================
