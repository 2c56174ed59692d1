--------------------------- MODULE ServingProofs ---------------------------
(***************************************************************************)
(* Proofs about requests running against a catalog that changes between    *)
(* any two of their steps.  The catalog's own theorems carry over, because *)
(* a request's step leaves it alone.  What a request has established is    *)
(* stated per request (Sound), and survives the administrator's steps      *)
(* because releases, archives and withdrawals are kept (StepKeeps).        *)
(***************************************************************************)
EXTENDS Serving, CatalogProofs, FiniteSetTheorems

THEOREM ServingRunsTheCatalog == Spec => CatalogSpec
<1>1. Init => CatalogInit
  BY DEF Init
<1>2. [Next]_vars => [AdminStep]_catalogVars
  <2>1. ASSUME NEW t \in Threads, Proceed(t) PROVE UNCHANGED catalogVars
    BY <2>1 DEF Proceed, Resolve, RefuseWithdrawn, CheckFetch, ReadBody,
       CheckSearch, SearchBody, SearchEnds, NextRelease, Summarise, VisitChannel,
       ChannelsChanged, SummaryEnds, ListEnds, Answer, Becomes
  <2>2. ASSUME NEW t \in Threads, NEW q \in Queries, Begin(t, q)
        PROVE  UNCHANGED catalogVars
    BY <2>2 DEF Begin, Becomes
  <2>3. UNCHANGED vars => UNCHANGED catalogVars
    BY DEF vars, catalogVars
  <2> QED
    BY <2>1, <2>2, <2>3 DEF Next
<1> QED
  BY <1>1, <1>2, PTL DEF Spec, CatalogSpec

-----------------------------------------------------------------------------
(* What the entitlement checks of the code mean. *)

LEMMA QueryType ==
  ASSUME NEW q \in Queries
  PROVE  /\ q \in Query /\ q.operation \in Operations /\ q.now \in Nat
         /\ q.principal.clearance \in Nat /\ q.uid \in Paths
         /\ q.ref \in Digests \cup Channels /\ q.limit \in Nat
         /\ q.deprecated \in BOOLEAN /\ q.stale \in BOOLEAN
<1>1. q \in Query
  BY ServingAssumption
<1>2. q.principal \in PrincipalContext
  BY <1>1 DEF Query
<1>3. q.principal.clearance \in 0 .. 3
  BY <1>2 DEF PrincipalContext, Classification
<1> QED
  BY <1>1, <1>3 DEF Query

(* A decision without a reason to deny follows the documentation's rule.   *)
LEMMA AllowedMayAccess ==
  ASSUME NEW policy, NEW principal, NEW resource,
         principal.clearance \in Nat, resource.classification \in Nat,
         Allowed(policy, principal, resource)
  PROVE  MayAccess(policy, principal, resource)
<1>1. Denials(policy, principal, resource) = {}
  BY DEF Allowed, Authorize
<1>2. resource.acl \in DOMAIN policy
  BY <1>1 DEF Denials
<1> DEFINE binding == policy[resource.acl]
           above == Denial("CLASSIFICATION_EXCEEDS_CLEARANCE",
                           resource.classification > principal.clearance)
<1>3. BindingDenials(binding, principal, resource) = {} /\ above = {}
  BY <1>1, <1>2 DEF Denials
<1>4. resource.classification <= principal.clearance
  BY <1>3 DEF Denial
<1> HIDE DEF binding, above
<1>5. /\ principal.type \in binding.types
      /\ resource.action \in binding.actions
      /\ \/ principal.subject \in binding.subjects
         \/ \E group \in principal.groups : group \in binding.groups
  BY <1>3 DEF BindingDenials, Denial, Entitled
<1> QED
  BY <1>2, <1>4, <1>5 DEF MayAccess, binding

LEMMA ReachableIsSeen ==
  ASSUME NEW a \in Archives, NEW q \in Queries, NEW action,
         NEW p \in Reachable(a, q, action)
  PROVE  p \in DOMAIN Contained[a] /\ p \in Paths /\ MaySee(Contained[a][p], q, action)
<1> DEFINE concept == Contained[a][p]
           resource == [classification |-> concept.classification, acl |-> concept.acl,
                        action |-> action]
<1>1. p \in DOMAIN Contained[a] /\ Eligible(concept, q) /\ Permits(concept, q, action)
  BY DEF Reachable
<1>2. concept \in Concept /\ p \in Paths
  BY <1>1, CatalogAssumption
<1>3. concept.classification \in 0 .. 3 /\ concept.status \in Lifecycle
      /\ concept.staleAfter \in Nat
  BY <1>2 DEF Concept, Classification
<1>4. resource.classification \in Nat
  BY <1>3
<1>5. Allowed(Policy, q.principal, resource)
  BY <1>1 DEF Permits
<1>6. MayAccess(Policy, q.principal, resource)
  BY <1>4, <1>5, AllowedMayAccess, QueryType
<1>7. /\ concept.status \in {"stable"} \cup (IF q.deprecated THEN {"deprecated"} ELSE {})
      /\ ~q.stale => concept.staleAfter >= q.now
  <2> HIDE DEF concept
  <2> QED
    BY <1>1, <1>3, QueryType DEF Eligible, Lifecycle
<1> QED
  BY <1>1, <1>2, <1>6, <1>7 DEF MaySee

-----------------------------------------------------------------------------
(* The invariant of a request *)

Action(q) == IF q.operation = "fetch" THEN "read" ELSE "search"

Discoverable(d, q) == Reachable(records[d].archive, q, "discover") # {}

(* Nothing is read before the decision.                                    *)
Fresh(r) == r.read = {} /\ r.hits = {} /\ r.links = {}

(* What it has read, or is about to read, was decided.                     *)
Decided(r) ==
  /\ r.stage \in {"idle", "resolving", "checking", "reading"} => Fresh(r)
  /\ r.stage = "reading" => r.query.uid \in Reachable(r.archive, r.query, "read")
  /\ r.stage = "searching" => r.todo \subseteq Reachable(r.archive, r.query, "search")
  /\ r.read # {} => /\ r.archive \in Archives /\ r.query \in Queries
                    /\ r.read \subseteq Reachable(r.archive, r.query, Action(r.query))
  /\ r.hits \subseteq r.read
  /\ r.links # {} => /\ r.archive \in Archives /\ r.query \in Queries
                     /\ r.links \subseteq Reachable(r.archive, r.query, "follow_link")

(* What it answers; a listing works on no one archive.                     *)
Answered(r) ==
  /\ r.answer # "none" => r.stage = "done"
  /\ r.answer = "withdrawn" => r.digest \in Digests /\ Withdrawn(r.digest)
  /\ r.stage # "idle" /\ r.answer = "error" => r.query.operation = "list"
  /\ r.answer = "ok" /\ r.query.operation = "fetch" =>
       /\ r.archive \in Archives /\ r.query \in Queries
       /\ r.query.uid \in Reachable(r.archive, r.query, "read")
       /\ r.content = Contained[r.archive][r.query.uid].content
  /\ r.stage = "done" => r.answer # "none"
  /\ r.stage \in {"idle", "resolving", "listing", "counting", "summarising"} =>
       r.archive = None

(* What it uses was not withdrawn when it began.                           *)
NotGone(r) ==
  /\ \A d \in r.gone : Withdrawn(d)
  /\ r.stage \in {"reading", "searching", "counting", "summarising"} =>
       r.digest \notin r.gone
  /\ r.answer = "ok" /\ r.query.operation # "list" => r.digest \notin r.gone
  /\ r.stage \in {"counting", "summarising"} => Discoverable(r.digest, r.query)
  /\ \A s \in r.summaries :
       /\ s.digest \notin r.gone
       /\ Admitted(s.digest)
       /\ Discoverable(s.digest, r.query)
  /\ r.summaries # {} => r.query \in Queries

Sound(r) ==
  /\ r \in Request
  /\ Coherent(r)
  /\ Decided(r)
  /\ Answered(r)
  /\ NotGone(r)

Inv ==
  /\ CatalogInv
  /\ request \in [Threads -> Request]
  /\ \A t \in Threads : Sound(request[t])

LEMMA InitInv == Init => Inv
<1> SUFFICES ASSUME Init PROVE Inv
  OBVIOUS
<1>1. CatalogInv
  BY InitCatalogInv DEF Init
<1>2. NoRequest \in Request
  BY DEF NoRequest, Request, RequestStages, Answers, ReleaseState
<1>3. Coherent(NoRequest)
  BY DEF NoRequest, Coherent
<1>4. Decided(NoRequest)
  BY DEF NoRequest, Decided, Fresh
<1>5. Answered(NoRequest) /\ NotGone(NoRequest)
  BY DEF NoRequest, Answered, NotGone
<1> QED
  BY <1>1, <1>2, <1>3, <1>4, <1>5 DEF Init, Inv, Sound

-----------------------------------------------------------------------------
(* The administrator's steps *)

LEMMA AdminKeepsRequest ==
  ASSUME CatalogInv, AdminStep \/ UNCHANGED catalogVars, NEW r, Sound(r)
  PROVE  Sound(r)'
<1> USE DEF Sound
<1>1. \A d \in Digests : Admitted(d) => Kept(d)
  BY StepKeeps
<1>2. \A d \in Digests : Admitted(d) =>
        /\ Admitted(d)'
        /\ records'[d].archive = records[d].archive
        /\ Withdrawn(d) => Withdrawn(d)'
        /\ \A q : Discoverable(d, q)' <=> Discoverable(d, q)
  BY <1>1 DEF Kept, Discoverable
<1>3. \A d \in Digests : Withdrawn(d) => Withdrawn(d)'
  BY <1>2 DEF Withdrawn
<1>4. /\ r.gone \subseteq Digests /\ r.pending \subseteq Digests
      /\ r.digest \in Digests \cup {None}
      /\ r.summaries \subseteq Summary
  BY DEF Request
<1>5. \A s \in r.summaries : s.digest \in Digests
  BY <1>4 DEF Summary
<1>6. Coherent(r)'
  BY <1>2, <1>4 DEF Coherent
<1>7. Decided(r)'
  BY DEF Decided, Fresh
<1>8. Answered(r)'
  BY <1>3 DEF Answered
<1>9. NotGone(r)'
  <2>1. \A d \in r.gone : Withdrawn(d)'
    BY <1>3, <1>4 DEF NotGone
  <2>2. \A s \in r.summaries : Admitted(s.digest)' /\ Discoverable(s.digest, r.query)'
    BY <1>2, <1>5 DEF NotGone
  <2>3. r.stage \in {"counting", "summarising"} => Discoverable(r.digest, r.query)'
    BY <1>2 DEF NotGone, Coherent
  <2> QED
    BY <2>1, <2>2, <2>3 DEF NotGone
<1> QED
  BY <1>6, <1>7, <1>8, <1>9

-----------------------------------------------------------------------------
(* The steps of a request: each installs a new request record *)

LEMMA Install ==
  ASSUME Inv, NEW t \in Threads, NEW n, Becomes(t, n), Sound(n)
  PROVE  Inv'
<1>1. CatalogInv'
  BY NextCatalogInv DEF Inv, Becomes
<1>2. request' = [request EXCEPT ![t] = n] /\ n \in Request /\ UNCHANGED catalogVars
  BY DEF Becomes, Sound
<1>3. request' \in [Threads -> Request]
  BY <1>2 DEF Inv
<1>4. ASSUME NEW u \in Threads PROVE Sound(request[u])'
  <2>1. PICK r : r = request'[u] /\ Sound(r)
    BY <1>2 DEF Inv
  <2>2. UNCHANGED records /\ request[u]' = r
    BY <1>2, <2>1 DEF catalogVars
  <2>3. r \in Request /\ Coherent(r) /\ Decided(r) /\ Answered(r) /\ NotGone(r)
    BY <2>1 DEF Sound
  <2>4. Coherent(request[u])'
    BY <2>2, <2>3 DEF Coherent, Admitted
  <2>5. Decided(request[u])'
    BY <2>2, <2>3 DEF Decided, Fresh
  <2>6. Answered(request[u])'
    BY <2>2, <2>3 DEF Answered, Withdrawn, Admitted
  <2>7. NotGone(request[u])'
    BY <2>2, <2>3 DEF NotGone, Withdrawn, Admitted, Discoverable
  <2> QED
    BY <2>2, <2>3, <2>4, <2>5, <2>6, <2>7 DEF Sound
<1> QED
  BY <1>1, <1>3, <1>4 DEF Inv

LEMMA RequestFields ==
  ASSUME NEW r \in Request
  PROVE  /\ r.todo \subseteq Paths /\ r.read \subseteq Paths /\ r.hits \subseteq Paths
         /\ r.links \subseteq Paths /\ r.pending \subseteq Digests
         /\ r.visited \subseteq Channels /\ r.found \subseteq Channels
         /\ r.summaries \subseteq Summary /\ r.gone \subseteq Digests
         /\ r.digest \in Digests \cup {None} /\ r.archive \in Archives \cup {None}
         /\ r.query \in Queries \cup {None} /\ r.state \in ReleaseState
BY DEF Request

LEMMA SoundRequest ==
  ASSUME Inv, NEW t \in Threads
  PROVE  /\ request[t] \in Request /\ Coherent(request[t]) /\ Decided(request[t])
         /\ Answered(request[t]) /\ NotGone(request[t])
BY DEF Inv, Sound

(* A request that ends without content.                                    *)
LEMMA AnswerKeeps ==
  ASSUME Inv, NEW t \in Threads, NEW answer \in Answers \ {"none"}, Answer(t, answer),
         request[t].stage # "idle",
         answer = "withdrawn" =>
           request[t].digest \in Digests /\ Withdrawn(request[t].digest),
         answer \in {"ok", "error"} => request[t].query.operation = "list"
  PROVE  Inv'
<1> DEFINE r == request[t]
           n == [r EXCEPT !.stage = "done", !.answer = answer]
<1>1. r \in Request /\ Coherent(r) /\ Decided(r) /\ Answered(r) /\ NotGone(r)
  BY SoundRequest
<1>2. /\ n \in Request
      /\ n.stage = "done" /\ n.answer = answer
      /\ n.query = r.query /\ n.digest = r.digest /\ n.archive = r.archive
      /\ n.todo = r.todo /\ n.read = r.read /\ n.hits = r.hits /\ n.links = r.links
      /\ n.pending = r.pending /\ n.summaries = r.summaries /\ n.gone = r.gone
  BY <1>1 DEF Request, RequestStages
<1>3. Becomes(t, n)
  BY DEF Answer
<1> HIDE DEF n
<1>4. r.query \in Queries
  BY <1>1 DEF Coherent
<1>5. Coherent(n)
  BY <1>1, <1>2, <1>4 DEF Coherent
<1>6. Decided(n)
  BY <1>1, <1>2 DEF Decided
<1>7. Answered(n)
  BY <1>1, <1>2 DEF Answered
<1>8. NotGone(n)
  BY <1>1, <1>2, <1>4 DEF NotGone
<1> QED
  BY <1>2, <1>3, <1>5, <1>6, <1>7, <1>8, Install DEF Sound

LEMMA BeginKeeps ==
  ASSUME Inv, NEW t \in Threads, NEW q \in Queries, Begin(t, q)
  PROVE  Inv'
<1> DEFINE stage == IF q.operation = "list" THEN "listing" ELSE "resolving"
           pending == {d \in Digests : Admitted(d) /\ q.operation = "list"}
           gone == {d \in Digests : Withdrawn(d)}
           n == [NoRequest EXCEPT !.stage = stage, !.query = q,
                                  !.pending = pending, !.gone = gone]
<1>1. Becomes(t, n)
  BY DEF Begin
<1>2. stage \in {"listing", "resolving"} /\ (stage = "listing" <=> q.operation = "list")
  OBVIOUS
<1>3. /\ pending \subseteq Digests /\ \A d \in pending : Admitted(d)
      /\ gone \subseteq Digests /\ \A d \in gone : Withdrawn(d)
  OBVIOUS
<1> HIDE DEF stage, pending, gone
<1>4. /\ n \in Request
      /\ n.stage = stage /\ n.query = q /\ n.pending = pending /\ n.gone = gone
      /\ n.answer = "none" /\ n.archive = None /\ n.summaries = {}
      /\ n.read = {} /\ n.hits = {} /\ n.links = {}
  BY <1>2, <1>3 DEF NoRequest, Request, RequestStages, Answers, ReleaseState
<1> HIDE DEF n
<1>5. q.operation \in Operations
  BY QueryType
<1>6. Coherent(n)
  BY <1>2, <1>3, <1>4, <1>5 DEF Coherent, Operations
<1>7. Decided(n) /\ Answered(n) /\ NotGone(n)
  BY <1>2, <1>3, <1>4 DEF Decided, Fresh, Answered, NotGone
<1> QED
  BY <1>1, <1>4, <1>6, <1>7, Install DEF Sound

LEMMA ResolveKeeps ==
  ASSUME Inv, NEW t \in Threads, Resolve(t)
  PROVE  Inv'
<1> DEFINE r == request[t]
           d == Target(r.query)
           n == [r EXCEPT !.stage = "checking", !.digest = d, !.archive = records[d].archive]
<1>1. r \in Request /\ Coherent(r) /\ Decided(r) /\ Answered(r) /\ NotGone(r)
  BY SoundRequest
<1>2. r.stage = "resolving" /\ r.query \in Queries /\ r.answer = "none"
      /\ r.query.operation \in {"fetch", "search"}
  BY <1>1 DEF Resolve, Coherent, Answered, Request
<1>3. CASE d # None /\ Admitted(d)
  <2>1. d \in Digests
    BY <1>2, <1>3, QueryType DEF Target, Inv, CatalogInv, CatalogTypeOK
  <2>2. records[d].archive \in Archives
    BY <1>3, <2>1, RecordType DEF Inv, CatalogInv
  <2>3. Becomes(t, n)
    BY <1>3 DEF Resolve
  <2> DEFINE a == records[d].archive
  <2>4. a \in Archives /\ a = records[d].archive /\ n = [r EXCEPT !.stage = "checking", !.digest = d, !.archive = a]
    BY <2>2
  <2>5. Admitted(d)
    BY <1>3
  <2> HIDE DEF d, a
  <2>6. /\ n \in Request
        /\ n.stage = "checking" /\ n.answer = r.answer
        /\ n.query = r.query /\ n.digest = d /\ n.archive = a
        /\ n.todo = r.todo /\ n.read = r.read /\ n.hits = r.hits /\ n.links = r.links
        /\ n.pending = r.pending /\ n.summaries = r.summaries /\ n.gone = r.gone
    BY <1>1, <2>1, <2>4 DEF Request, RequestStages
  <2> HIDE DEF n
  <2>7. Coherent(n)
    BY <1>1, <1>2, <2>1, <2>4, <2>5, <2>6 DEF Coherent
  <2>8. Decided(n) /\ Answered(n) /\ NotGone(n)
    BY <1>1, <1>2, <2>6 DEF Decided, Fresh, Answered, NotGone
  <2> QED
    BY <2>3, <2>6, <2>7, <2>8, Install DEF Sound
<1>4. CASE ~(d # None /\ Admitted(d))
  <2>1. Answer(t, "not_found")
    BY <1>4 DEF Resolve
  <2> QED
    BY <1>2, <2>1, AnswerKeeps DEF Answers
<1> QED
  BY <1>3, <1>4

LEMMA RefuseWithdrawnKeeps ==
  ASSUME Inv, NEW t \in Threads, RefuseWithdrawn(t)
  PROVE  Inv'
<1>1. /\ request[t].stage = "checking" /\ Withdrawn(request[t].digest)
      /\ Answer(t, "withdrawn")
  BY DEF RefuseWithdrawn
<1>2. request[t].digest \in Digests
  BY <1>1, SoundRequest, CatalogAssumption DEF Coherent
<1> QED
  BY <1>1, <1>2, AnswerKeeps DEF Answers

(* The state is read after the request began: what it passes is not gone.  *)
LEMMA ServableIsNotGone ==
  ASSUME Inv, NEW t \in Threads, Servable(request[t])
  PROVE  /\ request[t].stage = "checking"
         /\ request[t].archive \in Archives
         /\ request[t].query \in Queries
         /\ request[t].digest \in Digests
         /\ request[t].digest \notin request[t].gone
         /\ Fresh(request[t])
         /\ request[t].answer = "none"
<1>1. request[t].stage = "checking" /\ ~Withdrawn(request[t].digest)
  BY DEF Servable
<1>2. request[t].digest \notin request[t].gone
  BY <1>1, SoundRequest DEF NotGone
<1>3. request[t].archive \in Archives /\ request[t].query \in Queries /\ request[t].digest \in Digests
  BY <1>1, SoundRequest, CatalogAssumption DEF Coherent
<1> QED
  BY <1>1, <1>2, <1>3, SoundRequest DEF Decided, Answered

LEMMA CheckFetchKeeps ==
  ASSUME Inv, NEW t \in Threads, CheckFetch(t)
  PROVE  Inv'
<1> DEFINE r == request[t]
           uid == r.query.uid
           concepts == Contained[r.archive]
           n == [r EXCEPT !.stage = "reading"]
<1>1. r \in Request /\ Coherent(r) /\ Decided(r) /\ Answered(r) /\ NotGone(r)
  BY SoundRequest
<1>2. /\ r.stage = "checking" /\ r.archive \in Archives /\ r.query \in Queries
      /\ r.digest \in Digests /\ r.digest \notin r.gone /\ Fresh(r) /\ r.answer = "none"
      /\ r.query.operation = "fetch"
  BY ServableIsNotGone DEF CheckFetch
<1>3. CASE Becomes(t, n) /\ uid \in Reachable(r.archive, r.query, "read")
  <2>1. /\ n \in Request
        /\ n.stage = "reading" /\ n.answer = r.answer
        /\ n.query = r.query /\ n.digest = r.digest /\ n.archive = r.archive
        /\ n.todo = r.todo /\ n.read = r.read /\ n.hits = r.hits /\ n.links = r.links
        /\ n.pending = r.pending /\ n.summaries = r.summaries /\ n.gone = r.gone
    BY <1>1 DEF Request, RequestStages
  <2> HIDE DEF n
  <2>2. Coherent(n)
    BY <1>1, <1>2, <2>1 DEF Coherent
  <2>3. Decided(n)
    BY <1>1, <1>2, <1>3, <2>1 DEF Decided, Fresh
  <2>4. Answered(n) /\ NotGone(n)
    BY <1>1, <1>2, <2>1 DEF Answered, NotGone
  <2> QED
    BY <1>3, <2>1, <2>2, <2>3, <2>4, Install DEF Sound
<1>4. CASE \E answer \in {"not_found", "filtered", "denied"} : Answer(t, answer)
  BY <1>2, <1>4, AnswerKeeps DEF Answers
<1>5. \/ Becomes(t, n) /\ uid \in Reachable(r.archive, r.query, "read")
      \/ \E answer \in {"not_found", "filtered", "denied"} : Answer(t, answer)
  <2>1. CASE uid \notin DOMAIN concepts
    BY <2>1 DEF CheckFetch
  <2>2. CASE uid \in DOMAIN concepts /\ ~Eligible(concepts[uid], r.query)
    BY <2>2 DEF CheckFetch
  <2>3. CASE /\ uid \in DOMAIN concepts /\ Eligible(concepts[uid], r.query)
             /\ ~Permits(concepts[uid], r.query, "read")
    BY <2>3 DEF CheckFetch
  <2>4. CASE /\ uid \in DOMAIN concepts /\ Eligible(concepts[uid], r.query)
             /\ Permits(concepts[uid], r.query, "read")
    BY <2>4 DEF CheckFetch, Reachable
  <2> QED
    BY <2>1, <2>2, <2>3, <2>4
<1> QED
  BY <1>3, <1>4, <1>5

LEMMA ReadBodyKeeps ==
  ASSUME Inv, NEW t \in Threads, ReadBody(t)
  PROVE  Inv'
<1> DEFINE r == request[t]
           uid == r.query.uid
           content == bodies[r.digest][uid]
           links == Contained[r.archive][uid].links \cap Reachable(r.archive, r.query, "follow_link")
           n == [r EXCEPT !.stage = "done", !.answer = "ok", !.read = {uid},
                          !.content = content, !.links = links]
<1>1. r \in Request /\ Coherent(r) /\ Decided(r) /\ Answered(r) /\ NotGone(r)
  BY SoundRequest
<1>2. /\ r.stage = "reading" /\ r.query \in Queries /\ r.query.operation = "fetch"
      /\ r.archive \in Archives /\ r.digest \in Digests
      /\ Admitted(r.digest) /\ r.archive = records[r.digest].archive
      /\ r.digest \notin r.gone /\ Fresh(r)
      /\ uid \in Reachable(r.archive, r.query, "read")
  BY <1>1, CatalogAssumption DEF ReadBody, Coherent, Decided, NotGone
<1>4. uid \in DOMAIN Contained[r.archive] /\ uid \in Paths
  BY <1>2, ReachableIsSeen
<1>5. content = Contained[r.archive][uid].content /\ content \in Contents
  BY <1>2, <1>4, ContainedType DEF Inv, CatalogInv, BodiesMatchAdmission
<1>3. Becomes(t, n)
  BY <1>5, CatalogAssumption DEF ReadBody
<1>6. links \subseteq Reachable(r.archive, r.query, "follow_link") /\ links \subseteq Paths
  BY <1>2, CatalogAssumption DEF Reachable
<1> HIDE DEF content, links
<1>7. /\ n \in Request
      /\ n.stage = "done" /\ n.answer = "ok" /\ n.content = content
      /\ n.query = r.query /\ n.digest = r.digest /\ n.archive = r.archive
      /\ n.todo = r.todo /\ n.read = {uid} /\ n.hits = r.hits /\ n.links = links
      /\ n.pending = r.pending /\ n.summaries = r.summaries /\ n.gone = r.gone
  BY <1>1, <1>4, <1>5, <1>6 DEF Request, RequestStages, Answers
<1> HIDE DEF n
<1>8. Coherent(n)
  BY <1>1, <1>2, <1>7 DEF Coherent
<1>9. Decided(n)
  BY <1>2, <1>6, <1>7 DEF Decided, Fresh, Action
<1>10. Answered(n)
  BY <1>2, <1>5, <1>7 DEF Answered
<1>11. NotGone(n)
  BY <1>1, <1>2, <1>7 DEF NotGone
<1> QED
  BY <1>3, <1>7, <1>8, <1>9, <1>10, <1>11, Install DEF Sound

LEMMA CheckSearchKeeps ==
  ASSUME Inv, NEW t \in Threads, CheckSearch(t)
  PROVE  Inv'
<1> DEFINE r == request[t]
           todo == Reachable(r.archive, r.query, "search")
           n == [r EXCEPT !.stage = "searching", !.todo = todo]
<1>1. r \in Request /\ Coherent(r) /\ Decided(r) /\ Answered(r) /\ NotGone(r)
  BY SoundRequest
<1>2. /\ r.stage = "checking" /\ r.archive \in Archives /\ r.query \in Queries
      /\ r.digest \in Digests /\ r.digest \notin r.gone /\ Fresh(r) /\ r.answer = "none"
      /\ r.query.operation = "search"
  BY ServableIsNotGone DEF CheckSearch
<1>3. Becomes(t, n)
  BY DEF CheckSearch
<1>4. todo \subseteq Paths /\ todo \subseteq Reachable(r.archive, r.query, "search")
  BY <1>2, CatalogAssumption DEF Reachable
<1> HIDE DEF todo
<1>5. /\ n \in Request
      /\ n.stage = "searching" /\ n.answer = r.answer
      /\ n.query = r.query /\ n.digest = r.digest /\ n.archive = r.archive
      /\ n.todo = todo /\ n.read = r.read /\ n.hits = r.hits /\ n.links = r.links
      /\ n.pending = r.pending /\ n.summaries = r.summaries /\ n.gone = r.gone
  BY <1>1, <1>4 DEF Request, RequestStages
<1> HIDE DEF n
<1>6. Coherent(n)
  BY <1>1, <1>2, <1>5 DEF Coherent
<1>7. Decided(n)
  BY <1>2, <1>4, <1>5 DEF Decided, Fresh
<1>8. Answered(n) /\ NotGone(n)
  BY <1>1, <1>2, <1>5 DEF Answered, NotGone
<1> QED
  BY <1>3, <1>5, <1>6, <1>7, <1>8, Install DEF Sound

LEMMA SearchBodyKeeps ==
  ASSUME Inv, NEW t \in Threads, NEW p \in Paths, SearchBody(t, p)
  PROVE  Inv'
<1> DEFINE r == request[t]
           content == bodies[r.digest][p]
           hits == IF content \in r.query.matching THEN r.hits \cup {p} ELSE r.hits
           n == [r EXCEPT !.todo = r.todo \ {p}, !.read = r.read \cup {p}, !.hits = hits]
<1>1. r \in Request /\ Coherent(r) /\ Decided(r) /\ Answered(r) /\ NotGone(r)
  BY SoundRequest
<1>2. /\ r.stage = "searching" /\ p \in r.todo /\ r.query \in Queries
      /\ r.archive \in Archives /\ r.query.operation = "search"
      /\ r.answer = "none" /\ r.digest \notin r.gone
  BY <1>1 DEF SearchBody, Coherent, Answered, NotGone
<1>3. CASE content = None
  <2>1. Answer(t, "not_found")
    BY <1>3 DEF SearchBody
  <2> QED
    BY <1>2, <2>1, AnswerKeeps DEF Answers
<1>4. CASE content # None
  <2>1. Becomes(t, n)
    BY <1>4 DEF SearchBody
  <2>2. hits \subseteq r.hits \cup {p}
    OBVIOUS
  <2> HIDE DEF content, hits
  <2>3. /\ n \in Request
        /\ n.stage = "searching" /\ n.answer = r.answer
        /\ n.query = r.query /\ n.digest = r.digest /\ n.archive = r.archive
        /\ n.todo = r.todo \ {p} /\ n.read = r.read \cup {p}
        /\ n.hits = hits /\ n.links = r.links
        /\ n.pending = r.pending /\ n.summaries = r.summaries /\ n.gone = r.gone
    <3>1. hits \subseteq Paths /\ r.read \cup {p} \subseteq Paths /\ r.todo \ {p} \subseteq Paths
      BY <1>1, <2>2, RequestFields
    <3> QED
      BY <1>1, <1>2, <3>1 DEF Request
  <2> HIDE DEF n
  <2>4. Coherent(n)
    BY <1>1, <1>2, <2>3 DEF Coherent
  <2>5. Decided(n)
    BY <1>1, <1>2, <2>2, <2>3 DEF Decided, Fresh, Action
  <2>6. Answered(n) /\ NotGone(n)
    BY <1>1, <1>2, <2>3 DEF Answered, NotGone
  <2> QED
    BY <2>1, <2>3, <2>4, <2>5, <2>6, Install DEF Sound
<1> QED
  BY <1>3, <1>4

LEMMA SearchEndsKeeps ==
  ASSUME Inv, NEW t \in Threads, SearchEnds(t)
  PROVE  Inv'
<1> DEFINE r == request[t]
<1>1. r \in Request /\ Coherent(r) /\ Decided(r) /\ Answered(r) /\ NotGone(r)
  BY SoundRequest
<1>2. /\ r.stage = "searching" /\ r.query \in Queries
      /\ r.archive \in Archives /\ r.query.operation = "search"
      /\ r.answer = "none" /\ r.digest \notin r.gone
  BY <1>1 DEF SearchEnds, Coherent, Answered, NotGone
<1>3. PICK hits \in SUBSET r.hits :
        /\ Cardinality(hits) <= r.query.limit
        /\ Becomes(t, [r EXCEPT !.stage = "done", !.answer = "ok", !.hits = hits])
  BY DEF SearchEnds
<1> DEFINE n == [r EXCEPT !.stage = "done", !.answer = "ok", !.hits = hits]
<1>4. /\ n \in Request
      /\ n.stage = "done" /\ n.answer = "ok"
      /\ n.query = r.query /\ n.digest = r.digest /\ n.archive = r.archive
      /\ n.todo = r.todo /\ n.read = r.read /\ n.hits = hits /\ n.links = r.links
      /\ n.pending = r.pending /\ n.summaries = r.summaries /\ n.gone = r.gone
  <2>1. hits \subseteq Paths
    BY <1>1, RequestFields
  <2> QED
    BY <1>1, <2>1 DEF Request, RequestStages, Answers
<1>5. Becomes(t, n)
  BY <1>3
<1> HIDE DEF n
<1>6. Coherent(n)
  BY <1>1, <1>2, <1>3, <1>4 DEF Coherent
<1>7. Decided(n)
  BY <1>1, <1>4 DEF Decided
<1>8. Answered(n) /\ NotGone(n)
  BY <1>1, <1>2, <1>4 DEF Answered, NotGone
<1> QED
  BY <1>4, <1>5, <1>6, <1>7, <1>8, Install DEF Sound

LEMMA NextReleaseKeeps ==
  ASSUME Inv, NEW t \in Threads, NEW d \in Digests, NextRelease(t, d)
  PROVE  Inv'
<1> DEFINE r == request[t]
           passes == ~Withdrawn(d) /\ Discoverable(d, r.query)
           stage == IF passes THEN "counting" ELSE "listing"
           n == [r EXCEPT !.pending = r.pending \ {d}, !.digest = d, !.stage = stage]
<1>1. r \in Request /\ Coherent(r) /\ Decided(r) /\ Answered(r) /\ NotGone(r)
  BY SoundRequest
<1>2. /\ r.stage = "listing" /\ d \in r.pending /\ r.query \in Queries
      /\ r.query.operation = "list" /\ r.answer = "none" /\ Admitted(d)
  BY <1>1 DEF NextRelease, Coherent, Answered
<1>3. Becomes(t, n)
  BY DEF NextRelease, Discoverable
<1>4. /\ stage \in {"counting", "listing"}
      /\ stage = "counting" => Discoverable(d, r.query) /\ d \notin r.gone
  BY <1>1 DEF NotGone
<1> HIDE DEF stage
<1>5. /\ n \in Request
      /\ n.stage = stage /\ n.answer = r.answer
      /\ n.query = r.query /\ n.digest = d /\ n.archive = r.archive
      /\ n.todo = r.todo /\ n.read = r.read /\ n.hits = r.hits /\ n.links = r.links
      /\ n.pending = r.pending \ {d} /\ n.summaries = r.summaries /\ n.gone = r.gone
  BY <1>1, <1>4 DEF Request, RequestStages
<1> HIDE DEF n
<1>6. r.archive = None
  BY <1>1, <1>2 DEF Answered
<1>7. Coherent(n)
  BY <1>1, <1>2, <1>4, <1>5, <1>6 DEF Coherent
<1>8. Decided(n)
  BY <1>1, <1>4, <1>5 DEF Decided
<1>9. Answered(n) /\ NotGone(n)
  BY <1>1, <1>2, <1>4, <1>5 DEF Answered, NotGone
<1> QED
  BY <1>3, <1>5, <1>7, <1>8, <1>9, Install DEF Sound

(* Steps of a summary: they touch neither the release nor its answer.      *)
LEMMA SummaryKeeps ==
  ASSUME Inv, NEW t \in Threads, NEW n \in Request, Becomes(t, n),
         request[t].stage \in {"counting", "summarising"},
         n.stage \in {"listing", "summarising"},
         n.answer = request[t].answer, n.query = request[t].query,
         n.digest = request[t].digest, n.archive = request[t].archive,
         n.read = request[t].read, n.hits = request[t].hits,
         n.links = request[t].links, n.pending = request[t].pending,
         n.gone = request[t].gone,
         \A s \in n.summaries : s \in request[t].summaries \/ s.digest = n.digest
  PROVE  Inv'
<1> DEFINE r == request[t]
<1>1. r \in Request /\ Coherent(r) /\ Decided(r) /\ Answered(r) /\ NotGone(r)
  BY SoundRequest
<1>2. /\ r.query \in Queries /\ r.query.operation = "list" /\ r.answer = "none"
      /\ r.digest \in Digests /\ Admitted(r.digest)
      /\ Discoverable(r.digest, r.query) /\ r.digest \notin r.gone
  BY <1>1 DEF Coherent, Answered, NotGone
<1>3. Coherent(n)
  BY <1>1, <1>2 DEF Coherent
<1>4. Decided(n)
  BY <1>1 DEF Decided
<1>5. Answered(n) /\ NotGone(n)
  BY <1>1, <1>2 DEF Answered, NotGone
<1> QED
  BY <1>3, <1>4, <1>5, Install DEF Sound

LEMMA SummariseKeeps ==
  ASSUME Inv, NEW t \in Threads, Summarise(t)
  PROVE  Inv'
<1> DEFINE r == request[t]
           state == records[r.digest].state
           size == Cardinality(PointedAt)
           n == [r EXCEPT !.stage = "summarising", !.state = state,
                          !.visited = {}, !.found = {}, !.size = size]
<1>1. r \in Request /\ Coherent(r) /\ r.stage = "counting"
  BY SoundRequest DEF Summarise
<1>2. state \in ReleaseState
  BY <1>1, RecordType DEF Coherent, Inv, CatalogInv
<1>3. size \in Nat
  <2>1. IsFiniteSet(PointedAt)
    BY CatalogAssumption, FS_Subset DEF PointedAt
  <2> QED
    BY <2>1, FS_CardinalityType
<1>4. Becomes(t, n)
  BY DEF Summarise
<1> HIDE DEF state, size
<1>5. /\ n \in Request
      /\ n.stage = "summarising" /\ n.answer = r.answer
      /\ n.query = r.query /\ n.digest = r.digest /\ n.archive = r.archive
      /\ n.read = r.read /\ n.hits = r.hits /\ n.links = r.links
      /\ n.pending = r.pending /\ n.summaries = r.summaries /\ n.gone = r.gone
  BY <1>1, <1>2, <1>3 DEF Request, RequestStages
<1> HIDE DEF n
<1> QED
  BY <1>1, <1>4, <1>5, SummaryKeeps

LEMMA VisitChannelKeeps ==
  ASSUME Inv, NEW t \in Threads, NEW c \in Channels, VisitChannel(t, c)
  PROVE  Inv'
<1> DEFINE r == request[t]
           found == IF channels[c] = r.digest THEN r.found \cup {c} ELSE r.found
           n == [r EXCEPT !.visited = r.visited \cup {c}, !.found = found]
<1>1. r \in Request /\ r.stage = "summarising"
  BY SoundRequest DEF VisitChannel
<1>2. found \subseteq Channels /\ r.visited \cup {c} \subseteq Channels
  BY <1>1, RequestFields
<1>3. Becomes(t, n)
  BY DEF VisitChannel
<1> HIDE DEF found
<1>4. /\ n \in Request
      /\ n.stage = "summarising" /\ n.answer = r.answer
      /\ n.query = r.query /\ n.digest = r.digest /\ n.archive = r.archive
      /\ n.read = r.read /\ n.hits = r.hits /\ n.links = r.links
      /\ n.pending = r.pending /\ n.summaries = r.summaries /\ n.gone = r.gone
  BY <1>1, <1>2 DEF Request
<1> HIDE DEF n
<1> QED
  BY <1>1, <1>3, <1>4, SummaryKeeps

LEMMA ChannelsChangedKeeps ==
  ASSUME Inv, NEW t \in Threads, ChannelsChanged(t)
  PROVE  Inv'
<1>1. request[t].stage = "summarising" /\ Answer(t, "error")
  BY DEF ChannelsChanged
<1>2. request[t].query.operation = "list"
  BY <1>1, SoundRequest DEF Coherent
<1> QED
  BY <1>1, <1>2, AnswerKeeps DEF Answers

LEMMA SummaryEndsKeeps ==
  ASSUME Inv, NEW t \in Threads, SummaryEnds(t)
  PROVE  Inv'
<1> DEFINE r == request[t]
           summary == [digest |-> r.digest, state |-> r.state, channels |-> r.found]
           n == [r EXCEPT !.stage = "listing", !.summaries = r.summaries \cup {summary}]
<1>1. r \in Request /\ Coherent(r) /\ r.stage = "summarising"
  BY SoundRequest DEF SummaryEnds
<1>2. summary \in Summary /\ summary.digest = r.digest
  BY <1>1, RequestFields DEF Coherent, Summary
<1>3. Becomes(t, n)
  BY DEF SummaryEnds
<1> HIDE DEF summary
<1>4. r.summaries \cup {summary} \subseteq Summary
  BY <1>1, <1>2, RequestFields
<1>5. /\ n \in Request
      /\ n.stage = "listing" /\ n.answer = r.answer
      /\ n.query = r.query /\ n.digest = r.digest /\ n.archive = r.archive
      /\ n.read = r.read /\ n.hits = r.hits /\ n.links = r.links
      /\ n.pending = r.pending /\ n.summaries = r.summaries \cup {summary} /\ n.gone = r.gone
  BY <1>1, <1>4 DEF Request, RequestStages
<1> HIDE DEF n
<1> QED
  BY <1>1, <1>2, <1>3, <1>5, SummaryKeeps

LEMMA ListEndsKeeps ==
  ASSUME Inv, NEW t \in Threads, ListEnds(t)
  PROVE  Inv'
<1>1. request[t].stage = "listing" /\ Answer(t, "ok")
  BY DEF ListEnds
<1>2. request[t].query.operation = "list"
  BY <1>1, SoundRequest DEF Coherent
<1> QED
  BY <1>1, <1>2, AnswerKeeps DEF Answers

LEMMA NextInv == Inv /\ [Next]_vars => Inv'
<1> SUFFICES ASSUME Inv, [Next]_vars PROVE Inv'
  OBVIOUS
<1>1. CASE (AdminStep \/ UNCHANGED catalogVars) /\ UNCHANGED request
  <2>1. CatalogInv'
    BY <1>1, NextCatalogInv DEF Inv
  <2>2. ASSUME NEW t \in Threads PROVE Sound(request[t])'
    <3>1. PICK r : r = request[t] /\ Sound(r)
      BY DEF Inv
    <3>2. Sound(r)'
      BY <1>1, <3>1, AdminKeepsRequest DEF Inv
    <3>3. request[t]' = r
      BY <1>1, <3>1
    <3> QED
      BY <3>2, <3>3 DEF Sound, Coherent, Decided, Fresh, Answered, NotGone
  <2> QED
    BY <1>1, <2>1, <2>2 DEF Inv
<1>2. ASSUME NEW t \in Threads, NEW q \in Queries, Begin(t, q) PROVE Inv'
  BY <1>2, BeginKeeps
<1>3. ASSUME NEW t \in Threads, Proceed(t) PROVE Inv'
  BY <1>3, ResolveKeeps, RefuseWithdrawnKeeps, CheckFetchKeeps, ReadBodyKeeps,
     CheckSearchKeeps, SearchBodyKeeps, SearchEndsKeeps,
     NextReleaseKeeps, SummariseKeeps, VisitChannelKeeps, ChannelsChangedKeeps,
     SummaryEndsKeeps, ListEndsKeeps DEF Proceed
<1>4. CASE UNCHANGED vars
  BY <1>1, <1>4 DEF vars, catalogVars
<1> QED
  BY <1>1, <1>2, <1>3, <1>4 DEF Next

LEMMA Invariance == Spec => []Inv
BY InitInv, NextInv, PTL DEF Spec

-----------------------------------------------------------------------------
(* Every variable of catalog and requests has its type, and requests are   *)
(* coherent with the release they work on.                                 *)
THEOREM ServingTypeCorrect == Spec => []TypeOK
<1>1. Inv => TypeOK
  BY DEF Inv, Sound, TypeOK, CatalogInv
<1> QED
  BY <1>1, Invariance, PTL

(* Authorization before retrieval, for every policy, principal and query.  *)
THEOREM ReadsAreEntitled == Spec => []OnlyEntitledIsRead
<1>1. Inv => OnlyEntitledIsRead
  <2> SUFFICES ASSUME Inv, NEW t \in Threads
               PROVE  LET r == request[t]
                      IN  /\ r.read # {} =>
                               Seen(r.archive, r.read, r.query,
                                    IF r.query.operation = "fetch" THEN "read" ELSE "search")
                          /\ r.hits \subseteq r.read
                          /\ r.links # {} => Seen(r.archive, r.links, r.query, "follow_link")
                          /\ \A s \in r.summaries :
                               \E p \in DOMAIN Contained[records[s.digest].archive] :
                                 MaySee(Contained[records[s.digest].archive][p], r.query, "discover")
    BY DEF OnlyEntitledIsRead
  <2> DEFINE r == request[t]
  <2>1. r \in Request /\ Decided(r) /\ NotGone(r)
    BY SoundRequest
  <2>2. r.read # {} => Seen(r.archive, r.read, r.query, Action(r.query))
    BY <2>1, ReachableIsSeen DEF Decided, Seen
  <2>3. r.links # {} => Seen(r.archive, r.links, r.query, "follow_link")
    BY <2>1, ReachableIsSeen DEF Decided, Seen
  <2>4. ASSUME NEW s \in r.summaries
        PROVE  \E p \in DOMAIN Contained[records[s.digest].archive] :
                 MaySee(Contained[records[s.digest].archive][p], r.query, "discover")
    <3>1. s.digest \in Digests
      BY <2>1, RequestFields DEF Summary
    <3>2. Admitted(s.digest) /\ r.query \in Queries /\ Discoverable(s.digest, r.query)
      BY <2>1 DEF NotGone
    <3>3. records[s.digest].archive \in Archives
      BY <3>1, <3>2, RecordType DEF Inv, CatalogInv
    <3>4. PICK p : p \in Reachable(records[s.digest].archive, r.query, "discover")
      BY <3>2 DEF Discoverable
    <3> QED
      BY <3>2, <3>3, <3>4, ReachableIsSeen
  <2> QED
    BY <2>1, <2>2, <2>3, <2>4 DEF Action, Decided
<1> QED
  BY <1>1, Invariance, PTL

(* A concept the principal may not see looks like one that does not exist. *)
THEOREM DeniedLooksMissing == Spec => []NothingRevealed
<1>1. Inv => NothingRevealed
  <2> SUFFICES ASSUME Inv, NEW t \in Threads,
                      request[t].stage = "done", request[t].archive # None,
                      request[t].query.operation = "fetch",
                      ~Seen(request[t].archive, {request[t].query.uid}, request[t].query, "read")
               PROVE  \/ PublicStatus(request[t].answer) = 404
                      \/ PublicStatus(request[t].answer) = 410 /\ Withdrawn(request[t].digest)
    BY DEF NothingRevealed
  <2> DEFINE r == request[t]
  <2>1. r \in Request /\ Answered(r)
    BY SoundRequest
  <2>2. r.answer # "ok"
    BY <2>1, ReachableIsSeen DEF Answered, Seen
  <2>3. r.answer \in {"not_found", "withdrawn", "filtered", "denied"}
    BY <2>1, <2>2 DEF Answered, Request, Answers
  <2> QED
    BY <2>1, <2>3 DEF Answered, PublicStatus
<1> QED
  BY <1>1, Invariance, PTL

(* Nothing of a withdrawn release is answered to a later request.          *)
THEOREM WithdrawalIsFinal == Spec => []LateRequestsDenied
<1>1. Inv => LateRequestsDenied
  BY SoundRequest DEF LateRequestsDenied, NotGone
<1> QED
  BY <1>1, Invariance, PTL

(* A fetch returns the content of the archive that was admitted.           *)
THEOREM FetchesAreAdmitted == Spec => []FetchedIsAdmitted
<1>1. Inv => FetchedIsAdmitted
  BY SoundRequest, CatalogAssumption DEF FetchedIsAdmitted, Answered, Coherent
<1> QED
  BY <1>1, Invariance, PTL

(* Pointers and evidence, in the composed system.                          *)
THEOREM ServingPointers == Spec => []PointersServeActive
BY ServingRunsTheCatalog, ChannelsServeActive

THEOREM ServingRetainsEvidence == Spec => EvidenceIsRetained
BY ServingRunsTheCatalog, EvidenceRetained
=============================================================================
