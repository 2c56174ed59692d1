-------------------------- MODULE ComponentProofs --------------------------
(* Proofs about the components that keep to themselves: the retry loop, for *)
(* every policy and every requested delay; the decision point, for every   *)
(* set of principals, bindings and resources.                              *)
EXTENDS Retry, AuthorizationRequests, LinkTargets, Evaluation, Authoring,
        SequenceTheorems, FiniteSetTheorems, TLAPS

-----------------------------------------------------------------------------
(* The retry loop *)

LEMMA SmallerLarger ==
  ASSUME NEW x \in Nat, NEW y \in Nat
  PROVE  /\ Smaller(x, y) \in Nat /\ Larger(x, y) \in Nat
         /\ Smaller(x, y) <= x /\ Smaller(x, y) <= y
         /\ Larger(x, y) >= x /\ Larger(x, y) >= y
BY DEF Smaller, Larger

LEMMA PolicyType ==
  ASSUME NEW p \in RetryPolicy
  PROVE  /\ p.maxAttempts \in Nat /\ p.initial \in Nat /\ p.multiplier \in Nat
         /\ p.maxDelay \in Nat /\ p.maxAttempts >= 1 /\ p.multiplier >= 1
BY RetryAssumption DEF RetryPolicy

LEMMA ProductType ==
  ASSUME NEW x \in Nat, NEW y \in Nat
  PROVE  x * y \in Nat /\ (y >= 1 => x * y >= x)
OBVIOUS

LEMMA SumsOrdered ==
  ASSUME NEW x \in Int, NEW y \in Int, NEW u \in Int, NEW v \in Int, x <= u, y <= v
  PROVE  x + y <= u + v
OBVIOUS

LEMMA NextTypeOK == TypeOK /\ [RetryNext]_retryVars => TypeOK'
<1> SUFFICES ASSUME TypeOK, [RetryNext]_retryVars PROVE TypeOK'
  OBVIOUS
<1> USE DEF TypeOK, Statuses
<1>0. policy.maxDelay \in Nat /\ policy.maxAttempts \in Nat /\ policy.multiplier \in Nat
  BY PolicyType
<1>1. CASE Answers
  BY <1>1 DEF Answers
<1>2. CASE GivesUp
  BY <1>2 DEF GivesUp
<1>3. CASE BacksOff
  <2>1. PICK request \in Requests : requested' = request /\ wait' = WaitFor(request)
    BY <1>3 DEF BacksOff
  <2>2. wait' \in Nat
    BY <1>0, <2>1, SmallerLarger, RetryAssumption DEF WaitFor
  <2>3. attempt < policy.maxAttempts
    BY <1>0, <1>3 DEF BacksOff, LastAttempt
  <2> QED
    BY <1>3, <2>1, <2>2, <2>3 DEF BacksOff
<1>4. CASE Wakes
  <2>1. NextDelay \in Nat
    BY <1>0, ProductType, SmallerLarger DEF NextDelay
  <2> QED
    BY <1>0, <1>4, <2>1 DEF Wakes
<1> QED
  BY <1>1, <1>2, <1>3, <1>4 DEF RetryNext, Ended, retryVars

(* retry_async stays within the attempts of its policy.                    *)
THEOREM RetryTypeCorrect == RetrySpec => []TypeOK
<1>1. RetryInit => TypeOK
  BY PolicyType DEF RetryInit, TypeOK, Statuses
<1> QED
  BY <1>1, NextTypeOK, PTL DEF RetrySpec

LEMMA NextSleepIsBounded == TypeOK /\ SleepIsBounded /\ [RetryNext]_retryVars => SleepIsBounded'
<1> SUFFICES ASSUME TypeOK, SleepIsBounded, [RetryNext]_retryVars PROVE SleepIsBounded'
  OBVIOUS
<1> DEFINE cap == policy.maxDelay
<1>0. cap \in Nat /\ attempt \in Nat /\ slept \in Nat /\ wait \in Nat /\ delay \in Nat
  BY PolicyType DEF TypeOK
<1>1. (attempt - 1) * cap + cap = attempt * cap /\ (attempt + 1) * cap = attempt * cap + cap
  BY <1>0
<1>2. attempt * cap \in Nat /\ (attempt + 1) - 1 = attempt
  BY <1>0
<1>6. attempt' <= policy'.maxAttempts
  <2>1. TypeOK'
    BY NextTypeOK
  <2>2. policy'.maxAttempts \in Nat
    BY <2>1, PolicyType DEF TypeOK
  <2> QED
    BY <2>1, <2>2 DEF TypeOK
<1>3. CASE Answers \/ GivesUp \/ UNCHANGED retryVars
  BY <1>3, <1>6 DEF Answers, GivesUp, retryVars, SleepIsBounded
<1>4. CASE BacksOff
  <2>1. PICK request \in Requests : wait' = WaitFor(request)
    BY <1>4 DEF BacksOff
  <2>2. wait' <= cap /\ wait' \in Nat
    BY <1>0, <2>1, SmallerLarger, RetryAssumption DEF WaitFor
  <2>3. slept <= (attempt - 1) * cap
    BY <1>4 DEF BacksOff, SleepIsBounded
  <2>4. slept + wait' <= attempt * cap
    <3>1. (attempt - 1) * cap \in Int
      BY <1>0
    <3>2. slept + wait' <= (attempt - 1) * cap + cap
      BY <1>0, <2>2, <2>3, <3>1, SumsOrdered
    <3> QED
      BY <1>1, <3>2
  <2> QED
    BY <1>4, <1>6, <2>2, <2>4 DEF BacksOff, SleepIsBounded
<1>5. CASE Wakes
  <2>1. slept + wait <= attempt * cap
    BY DEF SleepIsBounded
  <2> DEFINE b == attempt * cap
             c == (attempt + 1) * cap
  <2>2. c = b + cap /\ b \in Nat /\ c \in Nat
    BY <1>0, <1>1, <1>2
  <2>3. slept + wait <= b
    BY <2>1
  <2> HIDE DEF b, c
  <2>4. slept' <= b /\ slept' + 0 <= c
    BY <1>0, <1>5, <2>2, <2>3 DEF Wakes
  <2>5. /\ slept' <= (attempt' - 1) * cap
        /\ slept' + wait' <= attempt' * cap
    BY <1>2, <1>5, <2>4 DEF Wakes, b, c
  <2> QED
    BY <1>0, <1>5, <1>6, <2>5 DEF Wakes, SleepIsBounded
<1> QED
  BY <1>3, <1>4, <1>5 DEF RetryNext, Ended

(* A call is tried at most as often as the policy says, and n attempts     *)
(* sleep at most (n - 1) times the maximal delay, for every policy.        *)
THEOREM SleepStaysBounded == RetrySpec => []SleepIsBounded
<1>1. RetryInit => SleepIsBounded
  <2> SUFFICES ASSUME RetryInit PROVE SleepIsBounded
    OBVIOUS
  <2>1. policy.maxDelay \in Nat /\ policy.maxAttempts \in Nat /\ policy.maxAttempts >= 1
    BY PolicyType DEF RetryInit
  <2> QED
    BY <2>1 DEF RetryInit, SleepIsBounded
<1> QED
  BY <1>1, NextSleepIsBounded, RetryTypeCorrect, PTL DEF RetrySpec

(* The effective back-off never shrinks.                                   *)
THEOREM BackoffNeverShrinks == RetrySpec => BackoffGrows
<1>1. TypeOK /\ [RetryNext]_retryVars =>
        [Smaller(policy.maxDelay, delay') >= Smaller(policy.maxDelay, delay)]_retryVars
  <2> SUFFICES ASSUME TypeOK, RetryNext
               PROVE  Smaller(policy.maxDelay, delay') >= Smaller(policy.maxDelay, delay)
    OBVIOUS
  <2>0. policy.maxDelay \in Nat /\ delay \in Nat /\ policy.multiplier \in Nat
        /\ policy.multiplier >= 1
    BY PolicyType DEF TypeOK
  <2>1. CASE delay' = delay
    BY <2>0, <2>1 DEF Smaller
  <2>2. CASE Wakes
    <3> DEFINE product == delay * policy.multiplier
    <3>1. product \in Nat /\ product >= delay
      BY <2>0, ProductType
    <3> HIDE DEF product
    <3>2. delay' = Smaller(policy.maxDelay, product)
      BY <2>2 DEF Wakes, NextDelay, product
    <3> QED
      BY <2>0, <3>1, <3>2 DEF Smaller
  <2> QED
    BY <2>1, <2>2 DEF RetryNext, Answers, GivesUp, BacksOff, Ended, retryVars
<1> QED
  BY <1>1, RetryTypeCorrect, PTL DEF RetrySpec, BackoffGrows

-----------------------------------------------------------------------------
(* The decision point: what its operators compute, and what it answers.    *)

LEMMA EntitledMeans ==
  ASSUME NEW binding, NEW principal
  PROVE  Entitled(binding, principal) <=>
           \/ principal.subject \in binding.subjects
           \/ \E group \in principal.groups : group \in binding.groups
BY DEF Entitled

LEMMA NoBindingDenials ==
  ASSUME NEW binding, NEW principal, NEW resource
  PROVE  BindingDenials(binding, principal, resource) = {} <=>
           /\ principal.type \in binding.types
           /\ resource.action \in binding.actions
           /\ Entitled(binding, principal)
BY DEF BindingDenials, Denial

(* No reason to deny is found exactly when the documentation's rule holds. *)
LEMMA NoDenials ==
  ASSUME NEW acls, NEW principal, NEW resource,
         principal.clearance \in Nat, resource.classification \in Nat
  PROVE  Denials(acls, principal, resource) = {}
           <=> MayAccess(acls, principal, resource)
<1> DEFINE binding == acls[resource.acl]
           above == Denial("CLASSIFICATION_EXCEEDS_CLEARANCE",
                           resource.classification > principal.clearance)
<1>1. above = {} <=> resource.classification <= principal.clearance
  BY DEF Denial
<1>2. CASE resource.acl \in DOMAIN acls
  <2>1. Denials(acls, principal, resource)
          = BindingDenials(binding, principal, resource) \cup above
    BY <1>2 DEF Denials
  <2>2. Denials(acls, principal, resource) = {} <=>
          BindingDenials(binding, principal, resource) = {} /\ above = {}
    BY <2>1
  <2> HIDE DEF binding, above
  <2>3. BindingDenials(binding, principal, resource) = {} <=>
          /\ principal.type \in binding.types
          /\ resource.action \in binding.actions
          /\ \/ principal.subject \in binding.subjects
             \/ \E group \in principal.groups : group \in binding.groups
    BY NoBindingDenials, EntitledMeans
  <2> QED
    BY <1>1, <1>2, <2>2, <2>3 DEF MayAccess, binding
<1>3. CASE resource.acl \notin DOMAIN acls
  <2>1. "ACL_NOT_FOUND" \in Denials(acls, principal, resource)
    BY <1>3 DEF Denials
  <2> QED
    BY <1>3, <2>1 DEF MayAccess
<1> QED
  BY <1>2, <1>3

LEMMA AllowedMeansMayAccess ==
  ASSUME NEW acls, NEW principal, NEW resource,
         principal.clearance \in Nat, resource.classification \in Nat
  PROVE  Allowed(acls, principal, resource) <=> MayAccess(acls, principal, resource)
BY NoDenials DEF Allowed, Authorize

LEMMA AllowIsNoDenial ==
  ASSUME NEW acls, NEW principal, NEW resource
  PROVE  "ALLOW" \notin Denials(acls, principal, resource)
<1>1. ASSUME NEW binding
      PROVE  "ALLOW" \notin BindingDenials(binding, principal, resource)
  BY DEF BindingDenials, Denial
<1>2. "ALLOW" \notin Denial("CLASSIFICATION_EXCEEDS_CLEARANCE",
                           resource.classification > principal.clearance)
  BY DEF Denial
<1> QED
  BY <1>1, <1>2 DEF Denials

LEMMA RequestTypes ==
  ASSUME NEW r \in RequestsInUse
  PROVE  /\ r.principal.clearance \in Nat /\ r.resource.classification \in Nat
         /\ r.principal \in PrincipalContext /\ r.resource \in ResourceContext
<1>1. r.principal \in PrincipalContext /\ r.resource \in ResourceContext
  BY RequestsAssumption DEF RequestsInUse
<1>2. r.principal.clearance \in 0 .. 3 /\ r.resource.classification \in 0 .. 3
  BY <1>1 DEF PrincipalContext, ResourceContext, Classification
<1> QED
  BY <1>1, <1>2

Answered ==
  /\ asked \in RequestsInUse
  /\ decision = Authorize(asked.policy, asked.principal, asked.resource)

LEMMA AlwaysAnswered == AskSpec => []Answered
<1>1. AskInit => Answered
  BY DEF AskInit, Answered
<1>2. Answered /\ [AskNext]_askVars => Answered'
  BY DEF Answered, AskNext, Ask, askVars
<1> QED
  BY <1>1, <1>2, PTL DEF AskSpec

LEMMA AnswersMeanMayAccess ==
  Answered =>
    (decision.allowed <=> MayAccess(asked.policy, asked.principal, asked.resource))
BY AllowedMeansMayAccess, RequestTypes DEF Answered, Allowed

(* Every decision allows exactly what the documentation says and carries   *)
(* the reasons validate_reason_contract demands.                           *)
THEOREM DecisionsSound == AskSpec => []DecisionsAreSound
<1>1. Answered => DecisionsAreSound
  <2> SUFFICES ASSUME Answered PROVE DecisionsAreSound
    OBVIOUS
  <2> DEFINE reasons == Denials(asked.policy, asked.principal, asked.resource)
  <2>1. /\ decision.allowed = (reasons = {})
        /\ decision.reasons = IF reasons = {} THEN {"ALLOW"} ELSE reasons
    BY DEF Answered, Authorize
  <2>2. "ALLOW" \notin reasons
    BY AllowIsNoDenial
  <2> HIDE DEF reasons
  <2>3. decision.allowed <=> reasons = {}
    BY <2>1
  <2>4. CASE reasons = {}
    BY <2>1, <2>3, <2>4, AnswersMeanMayAccess DEF DecisionsAreSound
  <2>5. CASE reasons # {}
    <3>1. decision.reasons = reasons
      BY <2>1, <2>5
    <3> QED
      BY <2>2, <2>3, <2>5, <3>1, AnswersMeanMayAccess DEF DecisionsAreSound
  <2> QED
    BY <2>4, <2>5
<1> QED
  BY <1>1, AlwaysAnswered, PTL

LEMMA NarrowerMayAccess ==
  ASSUME NEW x \in RequestsInUse, NEW y \in RequestsInUse, Narrower(x, y),
         MayAccess(x.policy, x.principal, x.resource)
  PROVE  MayAccess(y.policy, y.principal, y.resource)
<1> DEFINE b == x.policy[x.resource.acl]
           c == y.policy[y.resource.acl]
<1>1. /\ x.resource.acl \in DOMAIN x.policy
      /\ y.resource.acl \in DOMAIN y.policy
      /\ NarrowerBinding(b, c)
  BY DEF Narrower, NarrowerPolicy, MayAccess
<1>2. y.resource.classification <= y.principal.clearance
  BY RequestTypes DEF Narrower, NarrowerPrincipal, MayAccess
<1>3. /\ x.principal.type \in b.types
      /\ x.resource.action \in b.actions
      /\ \/ x.principal.subject \in b.subjects
         \/ \E group \in x.principal.groups : group \in b.groups
  BY DEF MayAccess
<1>4. /\ x.principal.subject = y.principal.subject
      /\ x.principal.type = y.principal.type
      /\ x.resource.action = y.resource.action
      /\ x.principal.groups \subseteq y.principal.groups
  BY DEF Narrower, NarrowerPrincipal
<1>5. /\ b.subjects \subseteq c.subjects /\ b.groups \subseteq c.groups
      /\ b.types \subseteq c.types /\ b.actions \subseteq c.actions
  BY <1>1 DEF NarrowerBinding
<1> HIDE DEF b, c
<1>6. /\ y.principal.type \in c.types
      /\ y.resource.action \in c.actions
      /\ \/ y.principal.subject \in c.subjects
         \/ \E group \in y.principal.groups : group \in c.groups
  BY <1>3, <1>4, <1>5
<1> QED
  BY <1>1, <1>2, <1>6 DEF MayAccess, c

(* Taking something away never turns a denial into an allowance.           *)
THEOREM RevocationsNeverGrant == AskSpec => RevocationNeverGrants
<1>1. Answered /\ Answered' /\ [AskNext]_askVars =>
        [Narrower(asked', asked) /\ decision'.allowed => decision.allowed]_askVars
  <2> SUFFICES ASSUME Answered, Answered', Narrower(asked', asked), decision'.allowed
               PROVE  decision.allowed
    OBVIOUS
  <2>1. asked \in RequestsInUse /\ asked' \in RequestsInUse
    BY DEF Answered
  <2>2. MayAccess(asked'.policy, asked'.principal, asked'.resource)
    BY AllowedMeansMayAccess, RequestTypes, <2>1 DEF Answered, Allowed
  <2>3. MayAccess(asked.policy, asked.principal, asked.resource)
    BY NarrowerMayAccess, <2>1, <2>2
  <2> QED
    BY <2>3, AnswersMeanMayAccess
<1> QED
  BY <1>1, AlwaysAnswered, PTL DEF AskSpec, RevocationNeverGrants

-----------------------------------------------------------------------------
(* Rendering.  Every file and every content an invocation is about to      *)
(* write has the UID of its record, and the record has a mapping: mappings *)
(* are replaced, never removed.                                            *)

Render ==
  [pc : {"idle", "mapping", "compare", "write"}, option : {"none", "plain", "force", "check"},
   record : Records \cup {NoFile}, source : Source \cup {NoFile},
   path : Paths \cup {NoFile}, content : ConceptFile \cup {NoFile}, filling : BOOLEAN]

AuthoringTypeOK ==
  /\ source \in [Records -> Source]
  /\ mapping \in [Records -> Mapping \cup {NoMapping}]
  /\ concepts \in [Paths -> ConceptFile \cup {NoFile, TornFile}]
  /\ renderer \in [Renderers -> Render]

RenderHolds(r) ==
  /\ r.pc = "mapping" => /\ r.record \in Records /\ r.source \in Source
                         /\ mapping[r.record] # NoMapping
  /\ r.pc \in {"compare", "write"} => r.path \in Paths /\ r.content \in ConceptFile

HasOwnUid(file) == file.uid = file.record /\ mapping[file.record] # NoMapping

UidsAreAnchors ==
  /\ \A r \in Records : mapping[r] # NoMapping => mapping[r].uid = r
  /\ \A p \in Paths : concepts[p] \in ConceptFile => HasOwnUid(concepts[p])
  /\ \A w \in Renderers : renderer[w].content \in ConceptFile => HasOwnUid(renderer[w].content)

AuthoringInv ==
  /\ AuthoringTypeOK
  /\ \A w \in Renderers : RenderHolds(renderer[w])
  /\ UidsAreAnchors

LEMMA RenderedHolds ==
  ASSUME NEW r \in Records, NEW s \in Source, NEW m \in Mapping,
         NEW content \in Rendered(r, s, m)
  PROVE  /\ content \in ConceptFile
         /\ content.record = r /\ content.uid = m.uid
         /\ content.version = s.version /\ content.ref \in s.refs
<1>1. PICK ref \in SelectedAcl(s, m) :
        content = [record |-> r, version |-> s.version, uid |-> m.uid, ref |-> ref]
  BY DEF Rendered
<1>2. ref \in s.refs
  BY DEF SelectedAcl
<1>3. s.refs \subseteq EntitlementRefs /\ s.version \in 0 .. MaxVersion /\ m.uid \in Records
  BY DEF Source, Mapping
<1> QED
  BY <1>1, <1>2, <1>3 DEF ConceptFile

LEMMA AuthoringStarts == AuthoringInit => AuthoringInv
<1> SUFFICES ASSUME AuthoringInit PROVE AuthoringInv
  OBVIOUS
<1>1. NoRender \in Render /\ NoRender.pc = "idle" /\ NoRender.content = NoFile
  BY DEF NoRender, Render
<1>2. AuthoringTypeOK
  BY <1>1 DEF AuthoringInit, AuthoringTypeOK
<1>3. NoFile \notin ConceptFile
  BY AuthoringAssumption
<1> QED
  BY <1>1, <1>2, <1>3 DEF AuthoringInit, AuthoringInv, RenderHolds, UidsAreAnchors

FilesHold(files) ==
  /\ files \in [Paths -> ConceptFile \cup {NoFile, TornFile}]
  /\ \A p \in Paths : files[p] \in ConceptFile => HasOwnUid(files[p])

LEMMA FileReplaced ==
  ASSUME AuthoringInv, NEW p \in Paths, NEW file \in ConceptFile \cup {NoFile, TornFile},
         file \in ConceptFile => HasOwnUid(file)
  PROVE  FilesHold(concepts) /\ FilesHold([concepts EXCEPT ![p] = file])
<1> DEFINE files == [concepts EXCEPT ![p] = file]
<1>1. FilesHold(concepts)
  BY DEF AuthoringInv, AuthoringTypeOK, UidsAreAnchors, FilesHold
<1>2. /\ files \in [Paths -> ConceptFile \cup {NoFile, TornFile}]
      /\ \A q \in Paths : files[q] = IF q = p THEN file ELSE concepts[q]
  BY <1>1 DEF FilesHold
<1> QED
  BY <1>1, <1>2 DEF FilesHold

(* A step of an invocation changes its locals, and perhaps a file.         *)
LEMMA RendererMoves ==
  ASSUME AuthoringInv, NEW w \in Renderers, NEW r \in Render, Continues(w, r),
         UNCHANGED <<source, mapping>>, FilesHold(concepts'),
         RenderHolds(r), r.content \in ConceptFile => HasOwnUid(r.content)
  PROVE  AuthoringInv'
<1>1. renderer \in [Renderers -> Render] /\ renderer' = [renderer EXCEPT ![w] = r]
  BY DEF AuthoringInv, AuthoringTypeOK, Continues
<1>2. renderer' \in [Renderers -> Render]
      /\ \A v \in Renderers : renderer'[v] = IF v = w THEN r ELSE renderer[v]
  BY <1>1
<1>3. AuthoringTypeOK'
  BY <1>2 DEF AuthoringInv, AuthoringTypeOK, FilesHold
<1>4. (\A v \in Renderers : RenderHolds(renderer[v]))'
  BY <1>2 DEF AuthoringInv, RenderHolds
<1>5. UidsAreAnchors'
  BY <1>2 DEF AuthoringInv, UidsAreAnchors, HasOwnUid, FilesHold
<1> QED
  BY <1>3, <1>4, <1>5 DEF AuthoringInv

LEMMA RendererRests ==
  ASSUME AuthoringInv, NEW w \in Renderers, Continues(w, NoRender),
         UNCHANGED <<source, mapping>>, FilesHold(concepts')
  PROVE  AuthoringInv'
<1>1. NoRender \in Render /\ RenderHolds(NoRender) /\ NoRender.content \notin ConceptFile
  BY AuthoringAssumption DEF NoRender, Render, RenderHolds
<1> QED
  BY <1>1, RendererMoves

LEMMA RendererStep ==
  ASSUME AuthoringInv, NEW w \in Renderers,
         \/ \E r \in Records, option \in {"plain", "force", "check"} : LoadSource(w, r, option)
         \/ LoadMapping(w) \/ Compare(w) \/ Write(w) \/ CrashRender(w)
  PROVE  AuthoringInv'
<1> DEFINE now == renderer[w]
<1>0. now \in Render /\ RenderHolds(now) /\ FilesHold(concepts)
      /\ (now.content \in ConceptFile => HasOwnUid(now.content))
  BY DEF AuthoringInv, AuthoringTypeOK, UidsAreAnchors, FilesHold
<1>1. ASSUME NEW r \in Records, NEW option \in {"plain", "force", "check"},
             LoadSource(w, r, option)
      PROVE  AuthoringInv'
  <2> DEFINE next == [NoRender EXCEPT !.pc = "mapping", !.option = option,
                        !.record = r, !.source = source[r]]
  <2>1. NoRender \in Render /\ NoRender.content = NoFile
    BY DEF NoRender, Render
  <2>2. source[r] \in Source /\ mapping[r] # NoMapping
    BY <1>1 DEF LoadSource, AuthoringInv, AuthoringTypeOK
  <2>3. /\ next \in Render /\ next.pc = "mapping" /\ next.record = r
        /\ next.source = source[r] /\ next.content = NoFile
    BY <2>1, <2>2 DEF Render
  <2>5. RenderHolds(next) /\ next.content \notin ConceptFile
    BY <2>2, <2>3, AuthoringAssumption DEF RenderHolds
  <2>4. Continues(w, next) /\ UNCHANGED <<source, mapping, concepts>>
    BY <1>1 DEF LoadSource
  <2> QED
    BY <1>0, <2>3, <2>4, <2>5, RendererMoves
<1>2. CASE LoadMapping(w)
  <2> DEFINE r == now.record
             m == mapping[r]
  <2>1. UNCHANGED <<source, mapping, concepts>> /\ now.pc = "mapping"
    BY <1>2 DEF LoadMapping
  <2>2. r \in Records /\ now.source \in Source /\ m \in Mapping /\ m.uid = r /\ m.path \in Paths
    BY <1>0, <2>1 DEF RenderHolds, AuthoringInv, AuthoringTypeOK, UidsAreAnchors, Mapping
  <2>3. CASE Continues(w, NoRender)
    BY <1>0, <2>1, <2>3, RendererRests
  <2>4. ASSUME NEW content \in Rendered(r, now.source, m),
               Continues(w, [now EXCEPT !.pc = "compare", !.source = NoFile,
                               !.path = m.path, !.content = content])
        PROVE  AuthoringInv'
    <3> DEFINE next == [now EXCEPT !.pc = "compare", !.source = NoFile,
                          !.path = m.path, !.content = content]
    <3>1. /\ content \in ConceptFile /\ content.uid = r /\ content.record = r
          /\ mapping[r] # NoMapping
      BY <1>0, <2>1, <2>2, RenderedHolds DEF RenderHolds
    <3>2. next \in Render /\ next.pc = "compare" /\ next.path = m.path /\ next.content = content
      BY <1>0, <2>2, <3>1 DEF Render
    <3>3. RenderHolds(next) /\ HasOwnUid(next.content)
      BY <2>2, <3>1, <3>2 DEF RenderHolds, HasOwnUid
    <3> HIDE DEF next
    <3> QED
      BY <1>0, <2>1, <2>4, <3>2, <3>3, RendererMoves DEF next
  <2> QED
    BY <1>2, <2>3, <2>4 DEF LoadMapping
<1>3. CASE Compare(w)
  <2>1. UNCHANGED <<source, mapping, concepts>> /\ now.pc = "compare"
    BY <1>3 DEF Compare
  <2>2. CASE Continues(w, NoRender)
    BY <1>0, <2>1, <2>2, RendererRests
  <2>3. CASE Continues(w, [now EXCEPT !.pc = "write"])
    <3> DEFINE next == [now EXCEPT !.pc = "write"]
    <3>1. next \in Render /\ next.pc = "write" /\ next.path = now.path
          /\ next.content = now.content
      BY <1>0 DEF Render
    <3>2. RenderHolds(next) /\ (next.content \in ConceptFile => HasOwnUid(next.content))
      BY <1>0, <2>1, <3>1 DEF RenderHolds
    <3> QED
      BY <1>0, <2>1, <2>3, <3>1, <3>2, RendererMoves
  <2> QED
    BY <1>3, <2>2, <2>3 DEF Compare
<1>4. CASE Write(w)
  <2>1. UNCHANGED <<source, mapping>> /\ now.path \in Paths /\ now.content \in ConceptFile
        /\ now.pc = "write" /\ HasOwnUid(now.content)
    BY <1>0, <1>4 DEF Write, RenderHolds
  <2>2. CASE concepts' = concepts /\ Continues(w, NoRender)
    BY <1>0, <2>1, <2>2, RendererRests
  <2>3. CASE concepts' = [concepts EXCEPT ![now.path] = now.content] /\ Continues(w, NoRender)
    BY <2>1, <2>3, FileReplaced, RendererRests
  <2>4. CASE /\ concepts' = [concepts EXCEPT ![now.path] = TornFile]
             /\ Continues(w, [now EXCEPT !.filling = TRUE])
    <3> DEFINE next == [now EXCEPT !.filling = TRUE]
    <3>1. next \in Render /\ next.pc = "write" /\ next.path = now.path
          /\ next.content = now.content
      BY <1>0, <2>1 DEF Render
    <3>2. RenderHolds(next) /\ (next.content \in ConceptFile => HasOwnUid(next.content))
      BY <2>1, <3>1 DEF RenderHolds
    <3>3. FilesHold(concepts')
      BY <2>1, <2>4, FileReplaced, AuthoringAssumption
    <3> QED
      BY <2>1, <2>4, <3>1, <3>2, <3>3, RendererMoves
  <2> QED
    BY <1>4, <2>2, <2>3, <2>4 DEF Write
<1>5. CASE CrashRender(w)
  <2>1. UNCHANGED <<source, mapping, concepts>> /\ Continues(w, NoRender)
    BY <1>5 DEF CrashRender
  <2> QED
    BY <1>0, <2>1, RendererRests
<1> QED
  BY <1>1, <1>2, <1>3, <1>4, <1>5

LEMMA NextAuthoringInv == AuthoringInv /\ [AuthoringNext]_authoringVars => AuthoringInv'
<1> SUFFICES ASSUME AuthoringInv, [AuthoringNext]_authoringVars PROVE AuthoringInv'
  OBVIOUS
<1>1. CASE UNCHANGED authoringVars
  BY <1>1 DEF authoringVars, AuthoringInv, AuthoringTypeOK, RenderHolds, UidsAreAnchors,
     HasOwnUid
<1>2. ASSUME NEW r \in Records, EditSource(r) PROVE AuthoringInv'
  <2>1. source' \in [Records -> Source]
    BY <1>2 DEF EditSource, AuthoringInv, AuthoringTypeOK
  <2> QED
    BY <1>2, <2>1 DEF EditSource, AuthoringInv, AuthoringTypeOK, RenderHolds, UidsAreAnchors,
       HasOwnUid
<1>3. ASSUME NEW r \in Records, WriteMapping(r) PROVE AuthoringInv'
  <2>1. PICK path \in AllocatedPaths(r), ref \in EntitlementRefs \cup {NoRef} :
          mapping' = [mapping EXCEPT
            ![r] = [path |-> path, uid |-> ConceptUid(r, path), ref |-> ref]]
    BY <1>3 DEF WriteMapping
  <2> DEFINE new == [path |-> path, uid |-> ConceptUid(r, path), ref |-> ref]
  <2>2. source[r].title \in Titles
    BY DEF AuthoringInv, AuthoringTypeOK, Source
  <2>3. path \in Paths
    BY <2>2 DEF AllocatedPaths, ApprovedPaths, AuthoringInv, AuthoringTypeOK, Mapping, Paths
  <2>4. new \in Mapping /\ new.uid = r /\ new # NoMapping
    BY <2>3, AuthoringAssumption DEF ConceptUid, Mapping
  <2>5. /\ mapping' \in [Records -> Mapping \cup {NoMapping}]
        /\ \A q \in Records : mapping'[q] = IF q = r THEN new ELSE mapping[q]
    BY <2>1, <2>4 DEF AuthoringInv, AuthoringTypeOK
  <2> HIDE DEF new
  <2>6. UNCHANGED <<source, concepts, renderer>>
    BY <1>3 DEF WriteMapping
  <2>7. AuthoringTypeOK'
    BY <2>5, <2>6 DEF AuthoringInv, AuthoringTypeOK
  <2>8. ASSUME NEW q \in Records, mapping[q] # NoMapping PROVE mapping'[q] # NoMapping
    BY <2>4, <2>5, <2>8
  <2>9. (\A w \in Renderers : RenderHolds(renderer[w]))'
    BY <2>6, <2>8 DEF AuthoringInv, RenderHolds
  <2>10. \A file \in ConceptFile : file.record \in Records
    BY DEF ConceptFile
  <2>11. UidsAreAnchors'
    BY <2>4, <2>5, <2>6, <2>8, <2>10 DEF AuthoringInv, UidsAreAnchors, HasOwnUid
  <2> QED
    BY <2>6, <2>7, <2>9, <2>11 DEF AuthoringInv
<1>4. ASSUME NEW p \in Paths, RemoveFile(p) PROVE AuthoringInv'
  <2>1. FilesHold(concepts') /\ UNCHANGED <<source, mapping, renderer>>
    BY <1>4, FileReplaced, AuthoringAssumption DEF RemoveFile
  <2> QED
    BY <2>1 DEF AuthoringInv, AuthoringTypeOK, RenderHolds, UidsAreAnchors, HasOwnUid, FilesHold
<1> QED
  BY <1>1, <1>2, <1>3, <1>4, RendererStep DEF AuthoringNext

(* Every variable of the authoring commands keeps its type, whatever is    *)
(* edited, removed or interrupted.                                         *)
THEOREM RenderingTypeCorrect == AuthoringSpec => []AuthoringTypeOK
<1>1. AuthoringInv => AuthoringTypeOK
  BY DEF AuthoringInv
<1> QED
  BY <1>1, AuthoringStarts, NextAuthoringInv, PTL DEF AuthoringSpec

(* A bundle that validates and whose mappings all check is what the        *)
(* sources say now: since a UID is allocated for the anchor, a file that   *)
(* was left behind shares its UID with the one render --check has found.   *)
THEOREM CheckedIsCurrent == AuthoringSpec => []CheckedBundleIsCurrent
<1>1. AuthoringInv => CheckedBundleIsCurrent
  <2> SUFFICES ASSUME AuthoringInv, Validates, AllMatch, NEW p \in Present
               PROVE  /\ mapping[concepts[p].record] # NoMapping
                      /\ p = mapping[concepts[p].record].path
                      /\ concepts[p].version = source[concepts[p].record].version
                      /\ concepts[p].ref \in source[concepts[p].record].refs
    BY DEF CheckedBundleIsCurrent
  <2> DEFINE r == concepts[p].record
             m == mapping[r]
             q == m.path
  <2>1. p \in Paths /\ concepts[p] \in ConceptFile
    BY DEF Present, Validates, AuthoringInv, AuthoringTypeOK
  <2>2. r \in Records /\ concepts[p].uid = r /\ m # NoMapping
    BY <2>1 DEF AuthoringInv, UidsAreAnchors, HasOwnUid, ConceptFile
  <2>3. m \in Mapping /\ m.uid = r /\ q \in Paths /\ source[r] \in Source
    BY <2>2 DEF AuthoringInv, AuthoringTypeOK, UidsAreAnchors, Mapping
  <2>4. concepts[q] \in Rendered(r, source[r], m)
    BY <2>2 DEF AllMatch
  <2>5. /\ concepts[q] \in ConceptFile /\ concepts[q].uid = r
        /\ concepts[q].version = source[r].version /\ concepts[q].ref \in source[r].refs
    BY <2>2, <2>3, <2>4, RenderedHolds
  <2>6. q \in Present
    BY <2>3, <2>5, AuthoringAssumption DEF Present
  <2>7. p = q
    BY <2>2, <2>5, <2>6 DEF Validates
  <2> QED
    BY <2>2, <2>5, <2>7
<1> QED
  BY <1>1, AuthoringStarts, NextAuthoringInv, PTL DEF AuthoringSpec

-----------------------------------------------------------------------------
(* Links.  As long as a link without escapes has not left the bundle, the  *)
(* two walks are at the same place.                                        *)

LEMMA FrontOfPath ==
  ASSUME NEW S, NEW path \in Seq(S), path # <<>>
  PROVE  /\ Front(path) \in Seq(S) /\ Last(path) \in S
         /\ Front(path) # <<>> => Head(Front(path)) = Head(path)
BY DEF Front, Last

LEMMA AppendToPath ==
  ASSUME NEW S, NEW path \in Seq(S), NEW name \in S
  PROVE  /\ Append(path, name) \in Seq(S) /\ Append(path, name) # <<>>
         /\ path # <<>> => Head(Append(path, name)) = Head(path)
         /\ path = <<>> => Head(Append(path, name)) = name
OBVIOUS

(* Entering a name, and going up, below a first directory.                 *)
LEMMA BelowFirst ==
  ASSUME NEW first \in Names, NEW path \in Seq(Names), NEW name \in Names
  PROVE  /\ Append(<<first>> \o path, name) = <<first>> \o Append(path, name)
         /\ path # <<>> => Front(<<first>> \o path) = <<first>> \o Front(path)
<1> DEFINE long == <<first>> \o path
<1>1. /\ long \in Seq(Names) /\ Len(long) = Len(path) + 1
      /\ \A i \in 1 .. Len(long) : long[i] = IF i = 1 THEN first ELSE path[i - 1]
  OBVIOUS
<1>2. Append(long, name) = <<first>> \o Append(path, name)
  OBVIOUS
<1>3. ASSUME path # <<>> PROVE Front(long) = <<first>> \o Front(path)
  <2>1. /\ Front(path) \in Seq(Names) /\ Len(Front(path)) = Len(path) - 1
        /\ \A i \in 1 .. Len(path) - 1 : Front(path)[i] = path[i]
    <3>1. \A i \in 1 .. Len(path) - 1 : path[i] \in Names
      OBVIOUS
    <3> DEFINE k == Len(path) - 1
    <3>2. k \in Int /\ k >= 0 /\ \A i \in 1 .. k : i = 1 + i - 1
      BY <1>3
    <3> HIDE DEF k
    <3>3. /\ SubSeq(path, 1, k) \in Seq(Names)
          /\ Len(SubSeq(path, 1, k)) = IF 1 <= k THEN k - 1 + 1 ELSE 0
          /\ \A i \in 1 .. k - 1 + 1 : SubSeq(path, 1, k)[i] = path[1 + i - 1]
      BY <3>1, <3>2, SubSeqProperties DEF k
    <3>4. /\ SubSeq(path, 1, k) \in Seq(Names) /\ Len(SubSeq(path, 1, k)) = k
          /\ \A i \in 1 .. k : SubSeq(path, 1, k)[i] = path[i]
      BY <3>2, <3>3
    <3> QED
      BY <3>4 DEF Front, k
  <2>2. /\ Front(long) \in Seq(Names) /\ Len(Front(long)) = Len(path)
        /\ \A i \in 1 .. Len(path) : Front(long)[i] = long[i]
    <3>1. \A i \in 1 .. Len(path) : long[i] \in Names
      BY <1>1
    <3>2. Len(path) \in Nat /\ Len(path) >= 1 /\ Len(long) - 1 = Len(path)
      BY <1>1, <1>3
    <3> HIDE DEF long
    <3> QED
      BY <3>1, <3>2, SubSeqProperties DEF Front
  <2>3. /\ <<first>> \o Front(path) \in Seq(Names)
        /\ Len(<<first>> \o Front(path)) = Len(path)
        /\ \A i \in 1 .. Len(path) :
             (<<first>> \o Front(path))[i] = IF i = 1 THEN first ELSE path[i - 1]
    BY <2>1
  <2>4. \A i \in 1 .. Len(path) : Front(long)[i] = (<<first>> \o Front(path))[i]
    BY <1>1, <2>2, <2>3
  <2> HIDE DEF long
  <2> QED
    BY <2>2, <2>3, <2>4, SeqEqual
<1> QED
  BY <1>2, <1>3

Link ==
  [start : Starts, colon : BOOLEAN, length : Nat, escaped : BOOLEAN,
   resolved : Seq(Names), normalized : Seq(Names \cup {Up})]

LinkInv ==
  /\ link \in Link
  /\ ~Leaves(link) => link.normalized \in Seq(Names)
  /\ ~Leaves(link) /\ ~link.escaped => link.resolved = <<BundleName>> \o link.normalized
  /\ link.start # "relative" /\ link.length = 0 => link.normalized = <<>>

LEMMA LinksStart == LinksInit => LinkInv
<1> SUFFICES ASSUME LinksInit PROVE LinkInv
  OBVIOUS
<1>1. PICK directory \in Directories, start \in Starts, colon \in BOOLEAN :
        link = [start |-> start, colon |-> colon, length |-> 0, escaped |-> FALSE,
                resolved |-> <<BundleName>> \o (IF start = "relative" THEN directory ELSE <<>>),
                normalized |-> IF start = "relative" THEN directory ELSE <<>>]
  BY DEF LinksInit
<1> DEFINE base == IF start = "relative" THEN directory ELSE <<>>
<1>2. base \in Seq(Names) /\ base \in Seq(Names \cup {Up}) /\ (start # "relative" => base = <<>>)
  <2>1. directory \in Seq(Names) /\ directory \in Seq(Names \cup {Up})
    BY LinksAssumption
  <2> QED
    BY <2>1
<1>3. <<BundleName>> \o base \in Seq(Names)
  BY <1>2, ConcatProperties, LinksAssumption
<1> HIDE DEF base
<1>4. link = [start |-> start, colon |-> colon, length |-> 0, escaped |-> FALSE,
              resolved |-> <<BundleName>> \o base, normalized |-> base]
  BY <1>1 DEF base
<1> QED
  BY <1>2, <1>3, <1>4 DEF LinkInv, Link

LEMMA EnterRelativeStays ==
  ASSUME NEW path \in Seq(Names \cup {Up}), NEW name \in Names \cup {Up}
  PROVE  /\ EnterRelative(path, name) \in Seq(Names \cup {Up})
         /\ path # <<>> /\ Head(path) = Up =>
              EnterRelative(path, name) # <<>> /\ Head(EnterRelative(path, name)) = Up
<1>1. CASE name # Up \/ path = <<>> \/ Last(path) = Up
  BY <1>1, AppendToPath DEF EnterRelative
<1>2. CASE ~(name # Up \/ path = <<>> \/ Last(path) = Up)
  <2>1. EnterRelative(path, name) = Front(path)
    BY <1>2 DEF EnterRelative
  <2>2. Head(path) = Up => Front(path) # <<>>
    BY <1>2 DEF Front, Last
  <2> QED
    BY <1>2, <2>1, <2>2, FrontOfPath
<1> QED
  BY <1>1, <1>2

(* A relative walk among names stays among names unless it goes up from    *)
(* where it started; there the two walks do the same.                      *)
LEMMA EnterTogether ==
  ASSUME NEW path \in Seq(Names), NEW name \in Names \cup {Up},
         ~(name = Up /\ path = <<>>)
  PROVE  /\ EnterRelative(path, name) \in Seq(Names)
         /\ Enter(<<BundleName>> \o path, name) = <<BundleName>> \o EnterRelative(path, name)
<1>1. CASE name # Up
  <2>1. name \in Names
    BY <1>1
  <2> QED
    BY <1>1, <2>1, AppendToPath, BelowFirst, LinksAssumption DEF Enter, EnterRelative
<1>2. CASE name = Up
  <2>1. path # <<>> /\ Last(path) # Up
    BY <1>2, FrontOfPath, LinksAssumption
  <2>2. EnterRelative(path, name) = Front(path)
    BY <1>2, <2>1 DEF EnterRelative
  <2>3. Enter(<<BundleName>> \o path, name) = Front(<<BundleName>> \o path)
    BY <1>2 DEF Enter
  <2>4. BundleName \in Names
    BY LinksAssumption
  <2>5. /\ Front(path) \in Seq(Names)
        /\ Front(<<BundleName>> \o path) = <<BundleName>> \o Front(path)
    BY <2>1, <2>4, FrontOfPath, BelowFirst
  <2> QED
    BY <2>2, <2>3, <2>5
<1> QED
  BY <1>1, <1>2

LEMMA NextLinkInv == LinkInv /\ [LinksNext]_linksVars => LinkInv'
<1> SUFFICES ASSUME LinkInv, [LinksNext]_linksVars PROVE LinkInv'
  OBVIOUS
<1>1. CASE UNCHANGED linksVars
  BY <1>1 DEF linksVars, LinkInv, Leaves
<1>2. ASSUME NEW segment \in Segment, AddSegment(segment) PROVE LinkInv'
  <2> DEFINE at == link.normalized
             name == Text(segment)
             resolved == Enter(link.resolved, segment.name)
             normalized == EnterRelative(at, name)
  <2>1. /\ link \in Link /\ at \in Seq(Names \cup {Up}) /\ link.resolved \in Seq(Names)
        /\ segment.name \in Names \cup {Up} /\ segment.escaped \in BOOLEAN
    BY DEF LinkInv, Link, Segment
  <2>2. name \in Names \cup {Up} /\ (~segment.escaped => name = segment.name)
    BY <2>1, LinksAssumption DEF Text
  <2>3. resolved \in Seq(Names)
    BY <2>1, AppendToPath, FrontOfPath DEF Enter
  <2>4. normalized \in Seq(Names \cup {Up})
    BY <2>1, <2>2, EnterRelativeStays
  <2>5. /\ link'.normalized = normalized /\ link'.resolved = resolved
        /\ link'.length = link.length + 1 /\ link'.length # 0
        /\ link'.escaped = (link.escaped \/ segment.escaped)
        /\ link' \in Link
    <3> HIDE DEF name
    <3>1. link' = [link EXCEPT !.length = @ + 1, !.escaped = @ \/ segment.escaped,
                               !.resolved = resolved, !.normalized = normalized]
      BY <1>2 DEF AddSegment, name
    <3> DEFINE length == link.length + 1
               escaped == link.escaped \/ segment.escaped
    <3>2. length \in Nat /\ length # 0 /\ escaped \in BOOLEAN
      BY <2>1 DEF Link
    <3> HIDE DEF resolved, normalized, length, escaped
    <3>3. link' = [link EXCEPT !.length = length, !.escaped = escaped,
                               !.resolved = resolved, !.normalized = normalized]
      BY <3>1 DEF length, escaped
    <3>4. /\ link'.normalized = normalized /\ link'.resolved = resolved
          /\ link'.length = length /\ link'.escaped = escaped /\ link' \in Link
      BY <2>1, <2>3, <2>4, <3>2, <3>3 DEF Link
    <3> QED
      BY <3>2, <3>4 DEF length, escaped
  <2>6. CASE Leaves(link)
    <3>1. Leaves(link)'
      BY <2>1, <2>2, <2>5, <2>6, EnterRelativeStays DEF Leaves
    <3> QED
      BY <2>5, <3>1 DEF LinkInv
  <2>7. CASE ~Leaves(link) /\ name = Up /\ at = <<>>
    <3>1. normalized = <<Up>>
      BY <2>7 DEF EnterRelative
    <3>2. Leaves(link)'
      BY <2>5, <3>1 DEF Leaves
    <3> QED
      BY <2>5, <3>2 DEF LinkInv
  <2>8. CASE ~Leaves(link) /\ ~(name = Up /\ at = <<>>)
    <3>1. at \in Seq(Names) /\ (~link.escaped => link.resolved = <<BundleName>> \o at)
      BY <2>8 DEF LinkInv
    <3>2. /\ normalized \in Seq(Names)
          /\ Enter(<<BundleName>> \o at, name) = <<BundleName>> \o normalized
      BY <2>2, <2>8, <3>1, EnterTogether
    <3>3. ~link'.escaped => link'.resolved = <<BundleName>> \o link'.normalized
      BY <2>2, <2>5, <3>1, <3>2
    <3> QED
      BY <2>5, <3>2, <3>3 DEF LinkInv
  <2> QED
    BY <2>6, <2>7, <2>8
<1> QED
  BY <1>1, <1>2 DEF LinksNext

(* What the validator checked is where the service leads, for every bundle *)
(* name, every directory of a document and every link, of any length; and  *)
(* the four cases in which the service drops a valid link are all of them. *)
THEOREM LinksLeadRight == LinksSpec => []LinksLeadWhereValidated
<1>1. LinkInv => LinksLeadWhereValidated
  <2> SUFFICES ASSUME LinkInv PROVE LinksLeadWhereValidated
    OBVIOUS
  <2> DEFINE at == link.normalized
             target == InternalTarget(link)
  <2>1. /\ link \in Link /\ (~Leaves(link) => at \in Seq(Names))
        /\ ~Leaves(link) /\ ~link.escaped => link.resolved = <<BundleName>> \o at
        /\ link.start # "relative" /\ link.length = 0 => at = <<>>
    BY DEF LinkInv
  <2>2. ASSUME at \in Seq(Names)
        PROVE  /\ InBundle(<<BundleName>> \o at)
               /\ Tail(<<BundleName>> \o at) = at
    <3>1. /\ <<BundleName>> \o at \in Seq(Names) /\ <<BundleName>> \o at # <<>>
          /\ Head(<<BundleName>> \o at) = BundleName
      BY <2>2, LinksAssumption
    <3>2. Tail(<<BundleName>> \o at) = at
      BY <2>2, LinksAssumption
    <3> QED
      BY <3>1, <3>2 DEF InBundle
  <2>3. target # NoTarget =>
          /\ target = at /\ ~Leaves(link) /\ link.length # 0 /\ Checked(link)
    BY DEF InternalTarget, Dropped, Checked
  <2>4. target # NoTarget => target \in Seq(Names)
    BY <2>1, <2>3
  <2>5. ASSUME ~link.escaped, ~Leaves(link)
        PROVE  ValidatedTarget(link) = IF Checked(link) THEN at ELSE NoTarget
    BY <2>1, <2>2, <2>5 DEF ValidatedTarget
  <2>6. ~link.escaped /\ target # NoTarget => target = ValidatedTarget(link)
    BY <2>3, <2>5
  <2>7. ASSUME ~link.escaped, ~link.colon, ~Leaves(link), link.start # "slashes",
               ValidatedTarget(link) # <<>>
        PROVE  ValidatedTarget(link) = target
    <3>1. CASE Checked(link)
      <4>1. at # <<>> /\ link.length # 0 /\ ~Dropped(link)
        BY <2>1, <2>5, <2>7, <3>1 DEF Checked, Dropped
      <4> QED
        BY <2>5, <2>7, <3>1, <4>1 DEF InternalTarget
    <3>2. CASE ~Checked(link)
      <4>1. Dropped(link) \/ link.length = 0
        BY <3>2 DEF Checked, Dropped
      <4> QED
        BY <2>5, <2>7, <3>2, <4>1 DEF InternalTarget
    <3> QED
      BY <3>1, <3>2
  <2> HIDE DEF target
  <2> QED
    BY <2>4, <2>6, <2>7 DEF LinksLeadWhereValidated, target
<1> QED
  BY <1>1, LinksStart, NextLinkInv, PTL DEF LinksSpec

-----------------------------------------------------------------------------
(* Evaluation.  No rounding can make a share full that is not.             *)

LEMMA TimesIsMonotone ==
  ASSUME NEW x \in Int, NEW y \in Int, NEW n \in Nat \ {0}
  PROVE  /\ n * x <= n * y <=> x <= y
         /\ n * x < n * y <=> x < y
OBVIOUS

LEMMA ShareOfNumbers ==
  ASSUME NEW n \in Nat \ {0}, NEW part \in 0 .. n
  PROVE  /\ (Whole * part) \div n \in 0 .. Whole
         /\ (Whole * part) \div n = Whole <=> part = n
<1> DEFINE parts == Whole * part
           q == parts \div n
<1>0. Whole \in Nat \ {0}
  BY EvaluationAssumption
<1>1. parts \in Nat /\ parts <= Whole * n
  BY <1>0, TimesIsMonotone
<1>2. q \in Nat /\ n * q <= parts /\ parts < n * (q + 1)
  <2> HIDE DEF parts
  <2> QED
    BY <1>1
<1>3. Whole * n = n * Whole /\ Whole * n \in Nat
  BY <1>0
<1> HIDE DEF q
<1>4. q <= Whole
  BY <1>0, <1>1, <1>2, <1>3, TimesIsMonotone
<1>5. ASSUME part = n PROVE q >= Whole
  <2>1. n * Whole < n * (q + 1)
    BY <1>2, <1>3, <1>5
  <2>2. Whole < q + 1
    BY <1>0, <1>2, <2>1, TimesIsMonotone
  <2> QED
    BY <1>0, <1>2, <2>2
<1>6. ASSUME q = Whole PROVE n <= part
  <2>1. Whole * n <= Whole * part
    BY <1>2, <1>3, <1>6
  <2> QED
    BY <1>0, <2>1, TimesIsMonotone
<1> QED
  BY <1>0, <1>2, <1>4, <1>5, <1>6 DEF q

LEMMA SharesAreSound ==
  ASSUME NEW of, of # {}, IsFiniteSet(of), NEW part \in SUBSET of
  PROVE  /\ Share(part, of) \in 0 .. Whole
         /\ Share(part, of) = Whole <=> part = of
<1>1. Cardinality(of) \in Nat \ {0}
  BY FS_CardinalityType, FS_EmptySet
<1>2. /\ Cardinality(part) \in 0 .. Cardinality(of)
      /\ Cardinality(part) = Cardinality(of) <=> part = of
  BY <1>1, FS_Subset, FS_CardinalityType
<1> QED
  BY <1>1, <1>2, ShareOfNumbers DEF Share

LEMMA RatesAreSound ==
  ASSUME NEW holds \in BOOLEAN
  PROVE  Rate(holds) \in 0 .. Whole /\ (Rate(holds) = Whole <=> holds)
BY EvaluationAssumption DEF Rate

LEMMA RecallIsSound ==
  ASSUME NEW expected \in SUBSET ConceptUids, NEW found \in SUBSET ConceptUids
  PROVE  /\ Recall(expected, found) \in 0 .. Whole
         /\ Recall(expected, found) = Whole <=> expected \subseteq found
<1>1. IsFiniteSet(expected) /\ Whole \in Nat
  BY FS_Subset, EvaluationAssumption
<1>2. CASE expected = {}
  BY <1>1, <1>2 DEF Recall
<1>3. CASE expected # {}
  <2> DEFINE part == expected \cap found
  <2>1. part \in SUBSET expected /\ (part = expected <=> expected \subseteq found)
    OBVIOUS
  <2>2. Recall(expected, found) = Share(part, expected)
    BY <1>3 DEF Recall
  <2> HIDE DEF part
  <2> QED
    BY <1>1, <1>3, <2>1, <2>2, SharesAreSound
<1> QED
  BY <1>2, <1>3

LEMMA PrecisionIsSound ==
  ASSUME NEW expected \in SUBSET ConceptUids, NEW cited \in SUBSET ConceptUids
  PROVE  /\ Precision(expected, cited) \in 0 .. Whole
         /\ Precision(expected, cited) = Whole <=>
              cited \subseteq expected /\ (cited = {} => expected = {})
<1>1. IsFiniteSet(cited) /\ Whole \in Nat \ {0}
  BY FS_Subset, EvaluationAssumption
<1>2. CASE cited = {}
  BY <1>1, <1>2 DEF Precision
<1>3. CASE cited # {}
  <2> DEFINE part == expected \cap cited
  <2>1. part \in SUBSET cited /\ (part = cited <=> cited \subseteq expected)
    OBVIOUS
  <2>2. Precision(expected, cited) = Share(part, cited)
    BY <1>3 DEF Precision
  <2> HIDE DEF part
  <2> QED
    BY <1>1, <1>3, <2>1, <2>2, SharesAreSound
<1> QED
  BY <1>2, <1>3

(* A case has a full score in every metric exactly when its observation is *)
(* flawless.                                                               *)
LEMMA CaseScoresAreSound ==
  ASSUME NEW c \in BenchmarkCase, NEW o \in CaseObservation
  PROVE  /\ \A m \in Metrics : CaseScore(c, o)[m] \in 0 .. Whole
         /\ (\A m \in Metrics : CaseScore(c, o)[m] = Whole) <=> Flawless(c, o)
         /\ CaseScore(c, o)["entitlement"] = Whole <=> NothingForbidden(c, o)
<1>1. /\ c.expected \in SUBSET ConceptUids /\ c.forbidden \in SUBSET ConceptUids
      /\ c.expected \cap c.forbidden = {} /\ c.reviewRequired \in BOOLEAN
  BY DEF BenchmarkCase
<1>2. /\ o.cited \in SUBSET ConceptUids /\ o.retrieved \in SUBSET ConceptUids
      /\ o.refused \in BOOLEAN /\ o.inTime \in BOOLEAN /\ o.reviewed \in BOOLEAN
  BY DEF CaseObservation
<1> DEFINE s == CaseScore(c, o)
           answers == o.refused = (c.behavior = "refuse")
           reviewed == ~c.reviewRequired \/ o.reviewed
           clean == c.forbidden \cap (o.retrieved \cup o.cited) = {}
<1>3. answers \in BOOLEAN /\ reviewed \in BOOLEAN /\ clean \in BOOLEAN
  OBVIOUS
<1>4. /\ s["citationRecall"] = Recall(c.expected, o.cited)
      /\ s["citationPrecision"] = Precision(c.expected, o.cited)
      /\ s["retrievalRecall"] = Recall(c.expected, o.retrieved)
      /\ s["behavior"] = Rate(answers)
      /\ s["entitlement"] = Rate(clean)
      /\ s["latency"] = Rate(o.inTime)
      /\ s["humanReview"] = Rate(reviewed)
  BY DEF CaseScore
<1> HIDE DEF s, answers, reviewed, clean
<1>5. /\ s["citationRecall"] \in 0 .. Whole
      /\ s["citationRecall"] = Whole <=> c.expected \subseteq o.cited
      /\ s["retrievalRecall"] \in 0 .. Whole
      /\ s["retrievalRecall"] = Whole <=> c.expected \subseteq o.retrieved
      /\ s["citationPrecision"] \in 0 .. Whole
      /\ s["citationPrecision"] = Whole <=>
           o.cited \subseteq c.expected /\ (o.cited = {} => c.expected = {})
  BY <1>1, <1>2, <1>4, RecallIsSound, PrecisionIsSound
<1>6. /\ s["behavior"] \in 0 .. Whole /\ (s["behavior"] = Whole <=> answers)
      /\ s["entitlement"] \in 0 .. Whole /\ (s["entitlement"] = Whole <=> clean)
      /\ s["latency"] \in 0 .. Whole /\ (s["latency"] = Whole <=> o.inTime)
      /\ s["humanReview"] \in 0 .. Whole /\ (s["humanReview"] = Whole <=> reviewed)
  BY <1>2, <1>3, <1>4, RatesAreSound
<1>7. \A m \in Metrics : s[m] \in 0 .. Whole
  BY <1>5, <1>6 DEF Metrics
<1>8. (\A m \in Metrics : s[m] = Whole) <=>
        /\ o.cited = c.expected /\ c.expected \subseteq o.retrieved
        /\ answers /\ clean /\ o.inTime /\ reviewed
  BY <1>5, <1>6 DEF Metrics
<1>9. /\ o.cited = c.expected => (clean <=> o.retrieved \cap c.forbidden = {})
      /\ answers <=> (o.refused <=> c.behavior = "refuse")
      /\ reviewed <=> (c.reviewRequired => o.reviewed)
      /\ clean <=> NothingForbidden(c, o)
  BY <1>1, <1>2 DEF answers, clean, reviewed, NothingForbidden
<1>10. (\A m \in Metrics : s[m] = Whole) <=> Flawless(c, o)
  BY <1>8, <1>9 DEF Flawless
<1> QED
  BY <1>6, <1>7, <1>9, <1>10 DEF s

(* The scores so far: full in a metric exactly when every case is.         *)

ScoreOf(id) == CaseScore(benchmark[id], Observation(id))

ScoringTypeOK ==
  /\ DOMAIN benchmark \in SUBSET CaseIds
  /\ benchmark \in [DOMAIN benchmark -> BenchmarkCase]
  /\ run \in Seq(CaseObservation)
  /\ scoring \in {"before", "cases", "reported"}
  /\ scored \in SUBSET DOMAIN benchmark
  /\ totals \in [Metrics -> Nat]

TotalsAreSums ==
  \A m \in Metrics :
    /\ totals[m] <= Whole * Cardinality(scored)
    /\ totals[m] = Whole * Cardinality(scored) <=> \A id \in scored : ScoreOf(id)[m] = Whole

ScoringInv ==
  /\ ScoringTypeOK
  /\ scoring = "before" => scored = {}
  /\ scoring # "before" => Covers
  /\ scoring = "reported" => scored = DOMAIN benchmark
  /\ TotalsAreSums

LEMMA ObservationsOfCases ==
  ASSUME ScoringTypeOK, Covers
  PROVE  /\ \A i \in DOMAIN run : run[i].case \in DOMAIN benchmark
                                  /\ run[i] = Observation(run[i].case)
         /\ \A id \in DOMAIN benchmark :
              /\ Observation(id) \in CaseObservation
              /\ \E i \in DOMAIN run : run[i].case = id
<1>1. ASSUME NEW i \in DOMAIN run
      PROVE  /\ run[i].case \in DOMAIN benchmark /\ run[i] \in CaseObservation
             /\ run[i] = Observation(run[i].case)
  <2>1. run[i].case \in DOMAIN benchmark
    BY DEF Covers, ObservedCases
  <2>2. \A j \in DOMAIN run : run[j].case = run[i].case => j = i
    BY DEF Covers
  <2>3. (CHOOSE j \in DOMAIN run : run[j].case = run[i].case) = i
    BY <2>2
  <2>4. run[i] \in CaseObservation
    BY DEF ScoringTypeOK
  <2> QED
    BY <2>1, <2>3, <2>4 DEF Observation
<1>2. ASSUME NEW id \in DOMAIN benchmark
      PROVE  \E i \in DOMAIN run : run[i].case = id
  BY DEF Covers, ObservedCases
<1> QED
  BY <1>1, <1>2

LEMMA ScoringStarts == EvaluationInit => ScoringInv
<1> SUFFICES ASSUME EvaluationInit PROVE ScoringInv
  OBVIOUS
<1>1. PICK ids \in SUBSET CaseIds \ {{}} : benchmark \in [ids -> BenchmarkCase]
  BY EvaluationAssumption DEF EvaluationInit
<1>2. ScoringTypeOK
  BY <1>1 DEF EvaluationInit, ScoringTypeOK
<1>3. TotalsAreSums
  BY FS_EmptySet, EvaluationAssumption DEF EvaluationInit, TotalsAreSums
<1> QED
  BY <1>2, <1>3 DEF EvaluationInit, ScoringInv

(* One more case: a sum is full exactly when both of its parts are.        *)
LEMMA SumIsFull ==
  ASSUME NEW total \in Nat, NEW s \in 0 .. Whole, NEW n \in Nat, total <= Whole * n
  PROVE  /\ total + s \in Nat
         /\ total + s <= Whole * (n + 1)
         /\ total + s = Whole * (n + 1) <=> total = Whole * n /\ s = Whole
<1>1. Whole \in Nat /\ Whole * n \in Nat
  BY EvaluationAssumption
<1>2. Whole * (n + 1) = Whole * n + Whole
  BY <1>1
<1> QED
  BY <1>1, <1>2

LEMMA NextScoringInv == ScoringInv /\ [EvaluationNext]_evaluationVars => ScoringInv'
<1> SUFFICES ASSUME ScoringInv, [EvaluationNext]_evaluationVars PROVE ScoringInv'
  OBVIOUS
<1>1. CASE UNCHANGED evaluationVars
  BY <1>1 DEF evaluationVars, ScoringInv, ScoringTypeOK, TotalsAreSums, ScoreOf, Observation,
     Covers, ObservedCases
<1>2. ASSUME NEW observation \in CaseObservation, Observe(observation) PROVE ScoringInv'
  <2>1. /\ run' \in Seq(CaseObservation) /\ scoring = "before" /\ scored = {}
        /\ UNCHANGED <<benchmark, scoring, scored, totals>>
    BY <1>2 DEF Observe, ScoringInv, ScoringTypeOK
  <2> QED
    BY <2>1 DEF ScoringInv, ScoringTypeOK, TotalsAreSums
<1>3. CASE StartScoring
  BY <1>3 DEF StartScoring, ScoringInv, ScoringTypeOK, TotalsAreSums, ScoreOf, Observation,
     Covers, ObservedCases
<1>4. CASE Report
  BY <1>4 DEF Report, ScoringInv, ScoringTypeOK, TotalsAreSums, ScoreOf, Observation,
     Covers, ObservedCases
<1>5. ASSUME NEW id \in DOMAIN benchmark, Score(id) PROVE ScoringInv'
  <2>1. /\ scoring = "cases" /\ id \notin scored /\ scored' = scored \cup {id}
        /\ totals' = [m \in Metrics |-> totals[m] + ScoreOf(id)[m]]
        /\ UNCHANGED <<benchmark, run, scoring>>
    BY <1>5 DEF Score, ScoreOf
  <2>2. Observation(id) \in CaseObservation /\ benchmark[id] \in BenchmarkCase
    BY <2>1, ObservationsOfCases DEF ScoringInv, ScoringTypeOK
  <2>3. IsFiniteSet(scored)
    BY FS_Subset, EvaluationAssumption DEF ScoringInv, ScoringTypeOK
  <2>4. Cardinality(scored) \in Nat /\ Cardinality(scored') = Cardinality(scored) + 1
    BY <2>1, <2>3, FS_CardinalityType, FS_AddElement
  <2>5. ASSUME NEW m \in Metrics
        PROVE  /\ totals[m] + ScoreOf(id)[m] \in Nat
               /\ totals[m] + ScoreOf(id)[m] <= Whole * Cardinality(scored')
               /\ totals[m] + ScoreOf(id)[m] = Whole * Cardinality(scored') <=>
                    \A other \in scored' : ScoreOf(other)[m] = Whole
    <3>1. ScoreOf(id)[m] \in 0 .. Whole
      BY <2>2, CaseScoresAreSound DEF ScoreOf
    <3>2. /\ totals[m] \in Nat /\ totals[m] <= Whole * Cardinality(scored)
          /\ totals[m] = Whole * Cardinality(scored) <=>
               \A other \in scored : ScoreOf(other)[m] = Whole
      BY DEF ScoringInv, ScoringTypeOK, TotalsAreSums
    <3>3. /\ totals[m] + ScoreOf(id)[m] \in Nat
          /\ totals[m] + ScoreOf(id)[m] <= Whole * Cardinality(scored')
          /\ totals[m] + ScoreOf(id)[m] = Whole * Cardinality(scored') <=>
               totals[m] = Whole * Cardinality(scored) /\ ScoreOf(id)[m] = Whole
      BY <2>4, <3>1, <3>2, SumIsFull
    <3>4. (\A other \in scored' : ScoreOf(other)[m] = Whole) <=>
            (\A other \in scored : ScoreOf(other)[m] = Whole) /\ ScoreOf(id)[m] = Whole
      BY <2>1
    <3> QED
      BY <3>2, <3>3, <3>4
  <2>6. \A other : ScoreOf(other)' = ScoreOf(other)
    BY <2>1 DEF ScoreOf, Observation
  <2>7. ScoringTypeOK'
    BY <2>1, <2>5 DEF ScoringInv, ScoringTypeOK
  <2>8. \A m \in Metrics : totals'[m] = totals[m] + ScoreOf(id)[m]
    BY <2>1
  <2>9. TotalsAreSums'
    BY <2>5, <2>6, <2>8 DEF TotalsAreSums
  <2>10. Covers'
    BY <2>1 DEF ScoringInv, Covers, ObservedCases
  <2> QED
    BY <2>1, <2>7, <2>9, <2>10 DEF ScoringInv
<1> QED
  BY <1>1, <1>2, <1>3, <1>4, <1>5 DEF EvaluationNext

(* For every benchmark and every run: the means of a report are shares,    *)
(* and all of them are 1 only for a run without a flaw.                    *)
THEOREM FullReportsAreFlawless == EvaluationSpec => []FullReportMeansFlawlessRun
<1>1. ScoringInv => FullReportMeansFlawlessRun
  <2> SUFFICES ASSUME ScoringInv, scoring = "reported" PROVE FullReportMeansFlawlessRun
    BY DEF FullReportMeansFlawlessRun
  <2>1. ScoringTypeOK /\ Covers /\ scored = DOMAIN benchmark
    BY DEF ScoringInv
  <2>2. \A id \in DOMAIN benchmark :
          /\ (\A m \in Metrics : ScoreOf(id)[m] = Whole) <=>
               Flawless(benchmark[id], Observation(id))
          /\ ScoreOf(id)["entitlement"] = Whole <=>
               NothingForbidden(benchmark[id], Observation(id))
    BY <2>1, ObservationsOfCases, CaseScoresAreSound DEF ScoreOf, ScoringTypeOK
  <2>3. \A m \in Metrics :
          /\ totals[m] \in Nat /\ totals[m] <= Full
          /\ totals[m] = Full <=> \A id \in DOMAIN benchmark : ScoreOf(id)[m] = Whole
    BY <2>1 DEF ScoringInv, ScoringTypeOK, TotalsAreSums, Full
  <2>4. Full \in Nat /\ \A m \in Metrics : totals[m] \in 0 .. Full
    <3>1. IsFiniteSet(scored)
      BY FS_Subset, EvaluationAssumption DEF ScoringInv, ScoringTypeOK
    <3>2. Cardinality(DOMAIN benchmark) \in Nat
      BY <2>1, <3>1, FS_CardinalityType
    <3>3. Full \in Nat
      BY <3>2, EvaluationAssumption DEF Full
    <3> QED
      BY <2>3, <3>3
  <2>5. (\A m \in Metrics : totals[m] = Full) <=>
          \A id \in DOMAIN benchmark : Flawless(benchmark[id], Observation(id))
    BY <2>2, <2>3
  <2>6. totals["entitlement"] = Full <=>
          \A id \in DOMAIN benchmark : NothingForbidden(benchmark[id], Observation(id))
    BY <2>2, <2>3 DEF Metrics
  <2>7. /\ (\A id \in DOMAIN benchmark : Flawless(benchmark[id], Observation(id))) <=>
             \A i \in DOMAIN run : Flawless(benchmark[run[i].case], run[i])
        /\ (\A id \in DOMAIN benchmark : NothingForbidden(benchmark[id], Observation(id))) <=>
             \A i \in DOMAIN run : NothingForbidden(benchmark[run[i].case], run[i])
    BY <2>1, ObservationsOfCases
  <2> QED
    BY <2>4, <2>5, <2>6, <2>7 DEF FullReportMeansFlawlessRun
<1> QED
  BY <1>1, ScoringStarts, NextScoringInv, PTL DEF EvaluationSpec
=============================================================================
