--------------------------- MODULE Authorization ---------------------------
(***************************************************************************)
(* authorization.py: the reference policy decision point.  A policy maps   *)
(* ACL references to bindings; a principal asks for one action on one      *)
(* resource.  A classification is its rank, PUBLIC = 0 to RESTRICTED = 3.  *)
(* Digests, versions and the decision identifier carry no decision and are *)
(* left out.                                                               *)
(***************************************************************************)
EXTENDS Naturals

CONSTANTS Subjects, Groups, AclRefs

Classification == 0 .. 3

PrincipalTypes == {"human", "workload"}

RetrievalActions == {"discover", "search", "read", "follow_link"}

PrincipalContext ==
  [subject : Subjects, type : PrincipalTypes, groups : SUBSET Groups,
   clearance : Classification]

ResourceContext ==
  [classification : Classification, acl : AclRefs, action : RetrievalActions]

(* A binding names someone, some principal type and some action.           *)
AclBinding ==
  {b \in [subjects : SUBSET Subjects, groups : SUBSET Groups,
          types : SUBSET PrincipalTypes, actions : SUBSET RetrievalActions] :
     /\ b.subjects # {} \/ b.groups # {}
     /\ b.types # {}
     /\ b.actions # {}}

Policies == UNION {[refs -> AclBinding] : refs \in SUBSET AclRefs}

(* Exact matching of the subject, or of one group.                         *)
Entitled(binding, principal) ==
  \/ principal.subject \in binding.subjects
  \/ principal.groups \cap binding.groups # {}

Denial(reason, holds) == IF holds THEN {reason} ELSE {}

BindingDenials(binding, principal, resource) ==
  Denial("PRINCIPAL_TYPE_NOT_ALLOWED", principal.type \notin binding.types)
    \cup Denial("ACTION_NOT_ALLOWED", resource.action \notin binding.actions)
    \cup Denial("PRINCIPAL_NOT_ENTITLED", ~Entitled(binding, principal))

(* Mutant: an unknown ACL reference adds no reason to deny.                *)
DenialsOpen(policy, principal, resource) ==
  (IF resource.acl \in DOMAIN policy
     THEN BindingDenials(policy[resource.acl], principal, resource) ELSE {})
    \cup Denial("CLASSIFICATION_EXCEEDS_CLEARANCE",
                resource.classification > principal.clearance)

(* Mutant: the ceiling is met only by the very same classification.        *)
DenialsExactCeiling(policy, principal, resource) ==
  (IF resource.acl \in DOMAIN policy
     THEN BindingDenials(policy[resource.acl], principal, resource)
     ELSE {"ACL_NOT_FOUND"})
    \cup Denial("CLASSIFICATION_EXCEEDS_CLEARANCE",
                resource.classification # principal.clearance)

Denials(policy, principal, resource) ==
  (IF resource.acl \in DOMAIN policy
     THEN BindingDenials(policy[resource.acl], principal, resource)
     ELSE {"ACL_NOT_FOUND"})
    \cup Denial("CLASSIFICATION_EXCEEDS_CLEARANCE",
                resource.classification > principal.clearance)

Authorize(policy, principal, resource) ==
  LET reasons == Denials(policy, principal, resource)
  IN  [allowed |-> reasons = {},
       reasons |-> IF reasons = {} THEN {"ALLOW"} ELSE reasons]

Allowed(policy, principal, resource) ==
  Authorize(policy, principal, resource).allowed

-----------------------------------------------------------------------------
(* The answer the documentation describes, stated without reasons: who may *)
(* do what.                                                                *)
MayAccess(policy, principal, resource) ==
  /\ resource.acl \in DOMAIN policy
  /\ LET binding == policy[resource.acl]
     IN  /\ principal.type \in binding.types
         /\ resource.action \in binding.actions
         /\ \/ principal.subject \in binding.subjects
            \/ \E group \in principal.groups : group \in binding.groups
  /\ resource.classification <= principal.clearance
=============================================================================
