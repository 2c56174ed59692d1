----------------------- MODULE AuthorizationRequests -----------------------
(***************************************************************************)
(* A caller that sends the decision point one request after another, while *)
(* the policy, the groups and the clearances change between them as they   *)
(* do in an identity system.  The decision point keeps nothing, so what    *)
(* relates two of its answers relates any two requests.                    *)
(***************************************************************************)
EXTENDS Authorization

CONSTANTS
  PoliciesInUse,    \* policies, principals and resources that are tried
  PrincipalsInUse,
  ResourcesInUse

ASSUME RequestsAssumption ==
  /\ PoliciesInUse \subseteq Policies
  /\ PrincipalsInUse \subseteq PrincipalContext
  /\ ResourcesInUse \subseteq ResourceContext

VARIABLES asked, decision

askVars == <<asked, decision>>

RequestsInUse ==
  [policy : PoliciesInUse, principal : PrincipalsInUse, resource : ResourcesInUse]

AskInit ==
  /\ asked \in RequestsInUse
  /\ decision = Authorize(asked.policy, asked.principal, asked.resource)

Ask(request) ==
  /\ asked' = request
  /\ decision' = Authorize(request.policy, request.principal, request.resource)

AskNext == \E request \in RequestsInUse : Ask(request)

AskSpec == AskInit /\ [][AskNext]_askVars

-----------------------------------------------------------------------------
(* A decision allows exactly what the documentation says, and its reasons  *)
(* satisfy validate_reason_contract.                                       *)
DecisionsAreSound ==
  /\ decision.allowed <=> MayAccess(asked.policy, asked.principal, asked.resource)
  /\ decision.allowed => decision.reasons = {"ALLOW"}
  /\ ~decision.allowed => decision.reasons # {} /\ "ALLOW" \notin decision.reasons

(* The narrower request: fewer bindings, each with fewer principals,       *)
(* types or actions, fewer groups, a lower clearance, a higher             *)
(* classification.                                                         *)
NarrowerBinding(b, c) ==
  /\ b.subjects \subseteq c.subjects
  /\ b.groups \subseteq c.groups
  /\ b.types \subseteq c.types
  /\ b.actions \subseteq c.actions

NarrowerPolicy(p, q) ==
  /\ DOMAIN p \subseteq DOMAIN q
  /\ \A ref \in DOMAIN p : NarrowerBinding(p[ref], q[ref])

NarrowerPrincipal(p, q) ==
  /\ p.subject = q.subject
  /\ p.type = q.type
  /\ p.groups \subseteq q.groups
  /\ p.clearance <= q.clearance

Narrower(x, y) ==
  /\ NarrowerPolicy(x.policy, y.policy)
  /\ NarrowerPrincipal(x.principal, y.principal)
  /\ x.resource.acl = y.resource.acl
  /\ x.resource.action = y.resource.action
  /\ x.resource.classification >= y.resource.classification

(* Taking something away never opens access: revoking a binding, a group   *)
(* or a clearance, or raising a classification, never turns a denial into  *)
(* an allowance.                                                           *)
RevocationNeverGrants ==
  [][ Narrower(asked', asked) /\ decision'.allowed => decision.allowed ]_askVars
=============================================================================
