------------------------------ MODULE Serving ------------------------------
(***************************************************************************)
(* ServingService (serving.py) behind its API (api.py), over the release   *)
(* catalog and the policy decision point.  The API's handlers are plain    *)
(* functions, run by a thread pool: each request is a thread, and its      *)
(* reads of shared state - the channel, the release's state, every body,   *)
(* the channels of a summary - are steps between which the administrator   *)
(* may act.  What an admitted release says of its concepts is immutable,   *)
(* so a step that only consults it is part of the read before it.          *)
(*                                                                         *)
(* Decisions come from the reference policy, which never changes while it  *)
(* serves.  Scores and the order of hits are left out: a search answers    *)
(* with some hits, as many as its limit lets through.                      *)
(***************************************************************************)
EXTENDS ReleaseCatalog

CONSTANTS
  Threads,  \* request threads
  Queries,  \* requests that callers may send
  Policy    \* bindings of the decision point

Operations == {"fetch", "search", "list"}

Query ==
  [operation : Operations, principal : PrincipalContext,
   ref : Digests \cup Channels, uid : Paths, matching : SUBSET Contents,
   limit : Nat \ {0}, now : Nat, deprecated : BOOLEAN, stale : BOOLEAN]

ASSUME ServingAssumption ==
  /\ Queries \subseteq Query
  /\ Policy \in Policies

RequestStages ==
  {"idle", "resolving", "checking", "reading", "searching", "listing",
   "counting", "summarising", "done"}

Answers ==
  {"none", "ok", "not_found", "withdrawn", "filtered", "denied", "error"}

(* A summary of list_releases: the release, its state, its channels.       *)
Summary ==
  [digest : Digests, state : ReleaseState, channels : SUBSET Channels]

(* A request: its question, the release it works on, what it still has to  *)
(* look at, what it has read, and its answer.  gone is a history variable: *)
(* the releases that were withdrawn when the request began.                *)
Request ==
  [stage : RequestStages, query : Queries \cup {None},
   digest : Digests \cup {None}, archive : Archives \cup {None},
   todo : SUBSET Paths, read : SUBSET Paths, hits : SUBSET Paths,
   links : SUBSET Paths, content : Contents \cup {None},
   pending : SUBSET Digests, state : ReleaseState,
   visited : SUBSET Channels, found : SUBSET Channels, size : Nat,
   summaries : SUBSET Summary, answer : Answers, gone : SUBSET Digests]

VARIABLE request

vars == <<records, channels, bodies, admin, request>>

NoRequest ==
  [stage |-> "idle", query |-> None, digest |-> None, archive |-> None,
   todo |-> {}, read |-> {}, hits |-> {}, links |-> {}, content |-> None,
   pending |-> {}, state |-> "candidate", visited |-> {}, found |-> {},
   size |-> 0, summaries |-> {}, answer |-> "none", gone |-> {}]

Init == CatalogInit /\ request = [t \in Threads |-> NoRequest]

Becomes(t, r) ==
  /\ request' = [request EXCEPT ![t] = r]
  /\ UNCHANGED catalogVars

Answer(t, answer) ==
  Becomes(t, [request[t] EXCEPT !.stage = "done", !.answer = answer])

-----------------------------------------------------------------------------
(* Mutant: freshness is looked at only when deprecated concepts are not    *)
(* asked for.                                                              *)
EligibleOr(concept, query) ==
  /\ concept.status # "draft"
  /\ concept.status = "deprecated" => query.deprecated
  /\ query.stale \/ query.deprecated \/ query.now <= concept.staleAfter

Eligible(concept, query) ==
  /\ concept.status # "draft"
  /\ concept.status = "deprecated" => query.deprecated
  /\ query.stale \/ query.now <= concept.staleAfter

(* Mutant: whoever may read may follow.                                    *)
PermitsAsRead(concept, query, action) ==
  Allowed(Policy, query.principal,
          [classification |-> concept.classification, acl |-> concept.acl,
           action |-> IF action = "follow_link" THEN "read" ELSE action])

Permits(concept, query, action) ==
  Allowed(Policy, query.principal,
          [classification |-> concept.classification, acl |-> concept.acl,
           action |-> action])

(* The concepts of an archive that a query may reach by an action.         *)
Reachable(archive, query, action) ==
  {p \in DOMAIN Contained[archive] :
     /\ Eligible(Contained[archive][p], query)
     /\ Permits(Contained[archive][p], query, action)}

-----------------------------------------------------------------------------
(* A request begins.  Listing takes the keys of the catalog at once.       *)
Begin(t, query) ==
  /\ request[t].stage \in {"idle", "done"}
  /\ Becomes(t, [NoRequest EXCEPT
       !.stage = IF query.operation = "list" THEN "listing" ELSE "resolving",
       !.query = query,
       !.pending = {d \in Digests : Admitted(d) /\ query.operation = "list"},
       !.gone = {d \in Digests : Withdrawn(d)}])

Target(query) == IF query.ref \in Digests THEN query.ref ELSE channels[query.ref]

(* resolve: a digest stands for itself, a channel for what it points at.   *)
Resolve(t) ==
  LET d == Target(request[t].query)
  IN  /\ request[t].stage = "resolving"
      /\ IF d # None /\ Admitted(d)
           THEN Becomes(t, [request[t] EXCEPT !.stage = "checking", !.digest = d,
                                              !.archive = records[d].archive])
           ELSE Answer(t, "not_found")

RefuseWithdrawn(t) ==
  /\ request[t].stage = "checking"
  /\ Withdrawn(request[t].digest)
  /\ Answer(t, "withdrawn")

(* Mutant: only the releases that channels serve are checked.              *)
ServableByDigest(r) ==
  r.stage = "checking" /\ (Withdrawn(r.digest) => r.query.ref \in Digests)

Servable(r) == r.stage = "checking" /\ ~Withdrawn(r.digest)

(* The metadata of the concept, its lifecycle and the decision to read it, *)
(* in this order, before its body.                                         *)
CheckFetch(t) ==
  LET r == request[t]
      concepts == Contained[r.archive]
      uid == r.query.uid
  IN  /\ Servable(r)
      /\ r.query.operation = "fetch"
      /\ IF uid \notin DOMAIN concepts THEN Answer(t, "not_found")
         ELSE IF ~Eligible(concepts[uid], r.query) THEN Answer(t, "filtered")
         ELSE IF ~Permits(concepts[uid], r.query, "read") THEN Answer(t, "denied")
         ELSE Becomes(t, [r EXCEPT !.stage = "reading"])

(* The body is read, and each of its links that stays inside the release   *)
(* is decided on its own.                                                  *)
ReadBody(t) ==
  LET r == request[t]
      uid == r.query.uid
      content == bodies[r.digest][uid]
  IN  /\ r.stage = "reading"
      /\ IF content = None THEN Answer(t, "not_found")
         ELSE Becomes(t, [r EXCEPT
                !.stage = "done", !.answer = "ok", !.read = {uid}, !.content = content,
                !.links = Contained[r.archive][uid].links
                            \cap Reachable(r.archive, r.query, "follow_link")])

CheckSearch(t) ==
  LET r == request[t]
  IN  /\ Servable(r)
      /\ r.query.operation = "search"
      /\ Becomes(t, [r EXCEPT !.stage = "searching",
                              !.todo = Reachable(r.archive, r.query, "search")])

SearchBody(t, p) ==
  LET r == request[t]
      content == bodies[r.digest][p]
  IN  /\ r.stage = "searching"
      /\ p \in r.todo
      /\ IF content = None THEN Answer(t, "not_found")
         ELSE Becomes(t, [r EXCEPT
                !.todo = @ \ {p}, !.read = @ \cup {p},
                !.hits = IF content \in r.query.matching THEN @ \cup {p} ELSE @])

(* Mutant: the cut keeps one hit too many.                                 *)
SearchEndsOneMore(t) ==
  LET r == request[t]
  IN  /\ r.stage = "searching"
      /\ r.todo = {}
      /\ \E hits \in SUBSET r.hits :
           /\ Cardinality(hits) <= r.query.limit + 1
           /\ Becomes(t, [r EXCEPT !.stage = "done", !.answer = "ok", !.hits = hits])

(* The hits are sorted and cut at the limit.                               *)
SearchEnds(t) ==
  LET r == request[t]
  IN  /\ r.stage = "searching"
      /\ r.todo = {}
      /\ \E hits \in SUBSET r.hits :
           /\ Cardinality(hits) <= r.query.limit
           /\ hits # r.hits => Cardinality(hits) = r.query.limit
           /\ Becomes(t, [r EXCEPT !.stage = "done", !.answer = "ok", !.hits = hits])

-----------------------------------------------------------------------------
(* list_releases: one release after the other.                             *)
NextRelease(t, d) ==
  LET r == request[t]
      passes == ~Withdrawn(d)
                  /\ Reachable(records[d].archive, r.query, "discover") # {}
  IN  /\ r.stage = "listing"
      /\ d \in r.pending
      /\ Becomes(t, [r EXCEPT !.pending = @ \ {d}, !.digest = d,
                              !.stage = IF passes THEN "counting" ELSE "listing"])

(* The state is read again for the summary, and the channels are iterated  *)
(* over: Python raises when the dictionary has another size than it began  *)
(* with.                                                                   *)
Summarise(t) ==
  LET r == request[t]
  IN  /\ r.stage = "counting"
      /\ Becomes(t, [r EXCEPT !.stage = "summarising",
                              !.state = records[r.digest].state,
                              !.visited = {}, !.found = {},
                              !.size = Cardinality(PointedAt)])

VisitChannel(t, c) ==
  LET r == request[t]
  IN  /\ r.stage = "summarising"
      /\ c \in PointedAt \ r.visited
      /\ r.size = Cardinality(PointedAt)
      /\ Becomes(t, [r EXCEPT
           !.visited = @ \cup {c},
           !.found = IF channels[c] = r.digest THEN @ \cup {c} ELSE @])

ChannelsChanged(t) ==
  /\ request[t].stage = "summarising"
  /\ request[t].size # Cardinality(PointedAt)
  /\ Answer(t, "error")

SummaryEnds(t) ==
  LET r == request[t]
  IN  /\ r.stage = "summarising"
      /\ r.size = Cardinality(PointedAt)
      /\ PointedAt \subseteq r.visited
      /\ Becomes(t, [r EXCEPT !.stage = "listing",
           !.summaries = @ \cup
             {[digest |-> r.digest, state |-> r.state, channels |-> r.found]}])

ListEnds(t) ==
  /\ request[t].stage = "listing"
  /\ request[t].pending = {}
  /\ Answer(t, "ok")

Proceed(t) ==
  \/ Resolve(t)
  \/ RefuseWithdrawn(t)
  \/ CheckFetch(t)
  \/ ReadBody(t)
  \/ CheckSearch(t)
  \/ \E p \in Paths : SearchBody(t, p)
  \/ SearchEnds(t)
  \/ \E d \in Digests : NextRelease(t, d)
  \/ Summarise(t)
  \/ \E c \in Channels : VisitChannel(t, c)
  \/ ChannelsChanged(t)
  \/ SummaryEnds(t)
  \/ ListEnds(t)

Next ==
  \/ AdminStep /\ UNCHANGED request
  \/ \E t \in Threads, query \in Queries : Begin(t, query)
  \/ \E t \in Threads : Proceed(t)

Spec == Init /\ [][Next]_vars

-----------------------------------------------------------------------------
(* Properties *)

(* A request in progress knows its release and the archive admitted for    *)
(* it, works on the operation it was asked for, and never answers a search *)
(* with more hits than the limit.                                          *)
Coherent(r) ==
  /\ r.stage # "idle" => r.query \in Queries
  /\ r.archive # None => r.digest \in Digests /\ Admitted(r.digest)
                         /\ r.archive = records[r.digest].archive
  /\ r.stage \in {"checking", "reading", "searching"} => r.archive \in Archives
  /\ r.stage \in {"resolving", "checking"} => r.query.operation \in {"fetch", "search"}
  /\ r.stage = "reading" => r.query.operation = "fetch"
  /\ r.stage = "searching" => r.query.operation = "search"
  /\ r.stage \in {"listing", "counting", "summarising"} => r.query.operation = "list"
  /\ r.stage \in {"counting", "summarising"} =>
       r.digest \in Digests /\ Admitted(r.digest)
  /\ \A d \in r.pending : Admitted(d)
  /\ r.answer = "ok" /\ r.query.operation = "search" =>
       Cardinality(r.hits) <= r.query.limit

TypeOK ==
  /\ CatalogTypeOK
  /\ request \in [Threads -> Request]
  /\ \A t \in Threads : Coherent(request[t])

(* Who may see a concept, said without the operators of the service: not   *)
(* a draft, deprecated or stale only on request, and permitted by the      *)
(* policy for this very action.                                            *)
MaySee(concept, query, action) ==
  /\ concept.status \in {"stable"} \cup (IF query.deprecated THEN {"deprecated"} ELSE {})
  /\ ~query.stale => concept.staleAfter >= query.now
  /\ MayAccess(Policy, query.principal,
               [classification |-> concept.classification, acl |-> concept.acl,
                action |-> action])

Seen(archive, paths, query, action) ==
  \A p \in paths :
    p \in DOMAIN Contained[archive] /\ MaySee(Contained[archive][p], query, action)

(* _safe_http_error: the status a caller of the API sees.                  *)
PublicStatus(answer) ==
  CASE answer = "ok" -> 200
    [] answer = "withdrawn" -> 410
    [] answer \in {"not_found", "filtered", "denied"} -> 404
    [] OTHER -> 500

(* Authorization before retrieval: every body a request has read, hit or   *)
(* not, was one its principal may see by the action of the request; every  *)
(* link and every listed release was decided on its own; and a concept     *)
(* the principal may not see looks exactly like one that does not exist.   *)
OnlyEntitledIsRead ==
  \A t \in Threads :
    LET r == request[t]
    IN  /\ r.read # {} =>
             Seen(r.archive, r.read, r.query,
                  IF r.query.operation = "fetch" THEN "read" ELSE "search")
        /\ r.hits \subseteq r.read
        /\ r.links # {} => Seen(r.archive, r.links, r.query, "follow_link")
        /\ \A s \in r.summaries :
             \E p \in DOMAIN Contained[records[s.digest].archive] :
               MaySee(Contained[records[s.digest].archive][p], r.query, "discover")

NothingRevealed ==
  \A t \in Threads :
    LET r == request[t]
    IN  r.stage = "done" /\ r.archive # None /\ r.query.operation = "fetch"
        /\ ~Seen(r.archive, {r.query.uid}, r.query, "read")
          => \/ PublicStatus(r.answer) = 404
             \/ PublicStatus(r.answer) = 410 /\ Withdrawn(r.digest)

(* Withdrawal is final for later requests: one that began after a release  *)
(* was withdrawn never answers with anything of it, whatever promotions    *)
(* and rollbacks run meanwhile.                                            *)
LateRequestsDenied ==
  \A t \in Threads :
    LET r == request[t]
    IN  /\ r.answer = "ok" => r.digest \notin r.gone \/ r.query.operation = "list"
        /\ \A s \in r.summaries : s.digest \notin r.gone

(* What a fetch returns is the content the admitted archive holds, though  *)
(* bodies are registered before the admission that may still fail.         *)
FetchedIsAdmitted ==
  \A t \in Threads :
    LET r == request[t]
    IN  r.answer = "ok" /\ r.query.operation = "fetch" =>
          /\ Admitted(r.digest)
          /\ r.content = Contained[records[r.digest].archive][r.query.uid].content

(* What the listing is meant to skip: a withdrawn release.                 *)
ListsNoneWithdrawn ==
  \A t \in Threads : \A s \in request[t].summaries : s.state # "withdrawn"
=============================================================================
