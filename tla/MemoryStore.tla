----------------------------- MODULE MemoryStore -----------------------------
(***************************************************************************)
(* internal/store over one mem.db: Save with its dedupe gates, forced      *)
(* corrections, supersession and session-summary retention (save.go), the  *)
(* pool import that feeds rows through Save (share.go), scope flips, the   *)
(* expand signal (expand.go), manual pruning (prune.go) and the rescrub    *)
(* migration (migrate.go).                                                 *)
(*                                                                         *)
(* Writers are goroutines of any process that has the database open.  A    *)
(* save reads its clock first and then queues for SQLite's write lock, so  *)
(* a request and its transaction are two steps, and other writers may      *)
(* commit in between with a later clock.  The transaction itself, under    *)
(* BEGIN IMMEDIATE, is one step.                                           *)
(*                                                                         *)
(* A text is title, what and learned together; Fingerprint gives the       *)
(* fingerprint of a text in its task and kind, Scrub what redaction leaves *)
(* of it.  Tags are beside it: they are never redacted, a save with a      *)
(* secret in them is refused, and they count where a scene says which      *)
(* bodies, text and tags together, are near.                               *)
(***************************************************************************)
EXTENDS Integers, FiniteSets, Sequences

CONSTANTS
  Writers,        \* goroutines that save
  Tasks, Kinds,   \* task_type slugs and memory kinds
  Texts,          \* titles, whats and learneds
  TagLists,       \* lists of tags
  CleanTags,      \* the ones without a secret
  Prints,         \* fingerprints
  Fingerprint,    \* [Tasks \X Kinds \X Texts -> Prints]
  Scrub,          \* [Texts -> Texts], what redaction makes of a text
  Requests,       \* the save requests there are
  NoRequest,
  MaxSummaries,   \* manual summaries kept per task (maxSessionSummaries)
  MaxAuto,        \* auto summaries kept in all (maxAutoSummaries)
  Grace,          \* newest auto summaries never evicted by value (autoSummaryGrace)
  CandidateLimit, \* rows the BM25 query returns (bm25CandidateLimit)
  MaxTime,        \* bound: clock seconds
  MaxIds,         \* bound: rows ever inserted
  Scenes          \* what may happen, one set of inputs for each question

Scopes  == {"personal", "shared"}
Origins == {"manual", "auto"}
Summary == "session_summary"
NoId    == 0
Times   == 0..MaxTime
Ids     == 1..MaxIds

\* A row of memories; expanded is last_expanded_at, 0 while expand_count is 0.
Rows == [id : Ids, task : Tasks, kind : Kinds, origin : Origins, scope : Scopes,
         text : Texts, tags : TagLists, print : Prints, created : Times, updated : Times,
         authored : Times, expanded : Times]

\* A SaveRequest: scope "" is the omitted field; imported marks importLine's.
RequestType ==
  [task : Tasks, kind : Kinds, origin : Origins, scope : Scopes \cup {""},
   text : Texts, tags : TagLists, force : BOOLEAN, dry : BOOLEAN, supersede : BOOLEAN,
   authored : Nat, imported : BOOLEAN]

ASSUME StoreAssumption ==
  /\ Summary \in Kinds
  /\ CleanTags \subseteq TagLists
  /\ Fingerprint \in [Tasks \X Kinds \X Texts -> Prints]
  /\ Scrub \in [Texts -> Texts] /\ \A t \in Texts : Scrub[Scrub[t]] = Scrub[t]
  /\ Requests \subseteq RequestType
  \* what importLine sends, and nobody else: a lesson, its stamp and the pool's scope
  /\ \A q \in Requests :
       IF q.imported THEN ~q.force /\ ~q.supersede /\ q.scope = "shared" /\ q.origin = "manual"
       ELSE q.authored = 0
  /\ \A s \in Scenes :
       /\ s.requests \subseteq Requests           \* the save requests made
       /\ s.commands \subseteq {"share", "get", "prune", "migrate"}  \* the other commands run
       /\ s.corpora \subseteq SUBSET Rows         \* the rows earlier versions may have left
       \* bodies of Jaccard similarity 0.85 or more
       /\ s.near \subseteq (Texts \X TagLists) \X (Texts \X TagLists)
       /\ s.ids \in 0..MaxIds                    \* rows ever inserted
  /\ {MaxSummaries, MaxAuto, Grace, CandidateLimit, MaxTime, MaxIds} \subseteq Nat
  /\ Grace < MaxAuto /\ MaxTime > 0
  /\ NoRequest \notin Requests

VARIABLES
  scene,     \* the scene, fixed at the start
  rows,      \* the memories table
  clock,     \* the wall clock, in the seconds created_at is kept in
  nextId,    \* ULIDs are minted under the write lock, in increasing order
  pend,      \* per writer: the request it queues with, and how its last one ended
  baseline   \* meta.scrub_baseline_complete: "none", "skipped" or "done"

rest == <<rows, clock, nextId, pend, baseline>>
vars == <<scene, rest>>

Outcomes == {"new", "saved", "updated", "skipped", "rejected", "busy"}
Pending == [q : Requests \cup {NoRequest}, now : Times, target : Ids \cup {NoId}, out : Outcomes]
Ended(outcome) == [q |-> NoRequest, now |-> 0, target |-> NoId, out |-> outcome]
Waits(w) == pend[w].q # NoRequest
End(w, outcome) == pend' = [pend EXCEPT ![w] = Ended(outcome)]

-----------------------------------------------------------------------------
(* What the transaction reads.                                               *)

defaultScope == "personal"
ScopeOf(q) == IF q.scope = "" THEN defaultScope ELSE q.scope
Body(q) == Scrub[q.text]
PrintOf(q) == Fingerprint[<<q.task, q.kind, Body(q)>>]

\* Mutated form of findByFingerprint: only within the request's own task.
TwinsOfTask(q) == {r \in rows : r.print = PrintOf(q) /\ r.task = q.task /\ r.scope = ScopeOf(q)}

\* findByFingerprintConn: the row that holds the same fingerprint, in any task.
Twins(q) == {r \in rows : r.print = PrintOf(q)}

\* nearDuplicateConn: rows of the same task and kind, the supersedes target
\* excepted, whose body is near.  BM25 returns CandidateLimit of the peers; when
\* there are more, a near one may be missed.
Peers(q, target) == {r \in rows : r.task = q.task /\ r.kind = q.kind /\ r.id # target}
IsNear(q, r) == << <<Body(q), q.tags>>, <<r.text, r.tags>> >> \in scene.near
NearPeers(q, target) == {r \in Peers(q, target) : IsNear(q, r)}
MayMiss(q, target) == Cardinality(Peers(q, target)) > CandidateLimit

\* The rows a request may be matched with: layer 1 first, then layer 2.
Matches(q, target) == IF Twins(q) # {} THEN Twins(q) ELSE NearPeers(q, target)

-----------------------------------------------------------------------------
(* Retention.                                                                *)

\* ORDER BY created_at DESC, id DESC
Newer(r, s) == r.created > s.created \/ (r.created = s.created /\ r.id > s.id)
Newest(S, n) == {r \in S : Cardinality({s \in S : Newer(s, r)}) < n}

ManualSummaries(R, task) ==
  {r \in R : r.task = task /\ r.kind = Summary /\ r.origin = "manual" /\ r.scope = "personal"}
AutoSummaries(R) == {r \in R : r.kind = Summary /\ r.origin = "auto"}

\* Mutated forms of pruneSessionSummaries: without the scope fence, and with the
\* same-second tie left to the index order.
pruneUnfenced(R, task) ==
  LET all == {r \in R : r.task = task /\ r.kind = Summary /\ r.origin = "manual"}
  IN R \ (all \ Newest(all, MaxSummaries))
pruneOldestTie(R, task) ==
  LET m == ManualSummaries(R, task)
      Before(r, s) == r.created > s.created \/ (r.created = s.created /\ r.id < s.id)
  IN R \ {r \in m : Cardinality({s \in m : Before(s, r)}) >= MaxSummaries}

\* pruneSessionSummariesConn: the newest MaxSummaries personal manual ones stay.
pruneSessionSummaries(R, task) ==
  LET m == ManualSummaries(R, task) IN R \ (m \ Newest(m, MaxSummaries))

\* The rank of an auto summary, most significant first.
AutoRank(A, r) ==
  <<IF r \in Newest(A, Grace) THEN 1 ELSE 0, IF r.expanded > 0 THEN 1 ELSE 0,
    r.expanded, r.created, r.id>>
Outranks(a, b) == \E i \in 1..5 : a[i] > b[i] /\ \A k \in 1..(i - 1) : a[k] = b[k]

\* pruneAutoSummariesConn: the MaxAuto highest ranked ones stay.
pruneAutoSummaries(R) ==
  LET A == AutoSummaries(R)
  IN R \ {r \in A : Cardinality({s \in A : Outranks(AutoRank(A, s), AutoRank(A, r))}) >= MaxAuto}

Retain(R, q) ==
  IF q.kind # Summary THEN R
  ELSE IF q.origin = "auto" THEN pruneAutoSummaries(R)
  ELSE pruneSessionSummaries(R, q.task)

-----------------------------------------------------------------------------
(* Save.                                                                     *)

resolveAuthoredAt(authored, now) ==
  IF authored = 0 \/ authored > now THEN now ELSE authored

NewRow(q, now) ==
  [id |-> nextId, task |-> q.task, kind |-> q.kind, origin |-> q.origin,
   scope |-> ScopeOf(q), text |-> Body(q), tags |-> q.tags, print |-> PrintOf(q),
   created |-> now, updated |-> now,
   authored |-> resolveAuthoredAt(q.authored, now), expanded |-> 0]

\* Mutated form of Superseded: of any kind.
SupersededOfAnyKind(R, q, target) ==
  {r \in R : r.id = target /\ r.task = q.task /\ r.scope = ScopeOf(q)}

\* The DELETE of supersede, bound to the request's kind, task and scope.
Superseded(R, q, target) ==
  {r \in R : r.id = target /\ r.kind = q.kind /\ r.task = q.task /\ r.scope = ScopeOf(q)}

\* Mutated form of Corrected: not scrubbed.
CorrectedUnscrubbed(r, q, now) ==
  [r EXCEPT !.text = q.text, !.tags = q.tags, !.print = PrintOf(q), !.updated = now,
            !.scope = ScopeOf(q)]

\* forceUpdateConn: the text, tags, fingerprint and scope of the matched row.
Corrected(r, q, now) ==
  [r EXCEPT !.text = Body(q), !.tags = q.tags, !.print = PrintOf(q), !.updated = now,
            !.scope = ScopeOf(q),
            !.authored = IF q.authored > 0 THEN resolveAuthoredAt(q.authored, now) ELSE @]

\* endTxn: a dry run rolls back what it did.
Write(q, new) == rows' = IF q.dry THEN rows ELSE new

\* A save that has read its clock and waits for BEGIN IMMEDIATE.  One with a
\* secret in its tags is refused before: it does nothing.
Queue(w, q, target) ==
  /\ q.tags \in CleanTags
  /\ pend' = [pend EXCEPT ![w] = [q |-> q, now |-> clock, target |-> target, out |-> "new"]]

Request(w) ==
  /\ ~Waits(w)
  /\ \E q \in scene.requests, target \in {NoId} \cup {r.id : r \in rows} :
       ~q.imported /\ (target # NoId) = q.supersede /\ Queue(w, q, target)
  /\ UNCHANGED <<rows, clock, nextId, baseline>>

\* importLine: every line of a pool is a save of its own, in its own transaction.
ImportLine(w) ==
  /\ ~Waits(w)
  /\ \E q \in scene.requests : q.imported /\ Queue(w, q, NoId)
  /\ UNCHANGED <<rows, clock, nextId, baseline>>

\* busy_timeout expires, or the request's context is cancelled: rolled back.
GiveUp(w) ==
  /\ Waits(w)
  /\ End(w, "busy")
  /\ UNCHANGED <<rows, clock, nextId, baseline>>

Skip(w) ==
  /\ Waits(w)
  /\ LET q == pend[w].q IN ~q.force /\ Matches(q, pend[w].target) # {}
  /\ End(w, "skipped")
  /\ UNCHANGED <<rows, clock, nextId, baseline>>

\* hitDupe with force.  The table's CHECK(updated_at >= created_at) refuses a
\* correction whose clock was read before the matched row was created.
ForceUpdate(w) ==
  /\ Waits(w)
  /\ LET q == pend[w].q now == pend[w].now IN
       /\ q.force
       /\ \E r \in Matches(q, pend[w].target) :
            IF now >= r.created
            THEN Write(q, (rows \ {r}) \cup {Corrected(r, q, now)}) /\ End(w, "updated")
            ELSE UNCHANGED rows /\ End(w, "rejected")
  /\ UNCHANGED <<clock, nextId, baseline>>

Insert(w) ==
  /\ Waits(w) /\ nextId <= scene.ids
  /\ LET q == pend[w].q target == pend[w].target
         R == rows \cup {NewRow(q, pend[w].now)}
     IN /\ Twins(q) = {}
        /\ NearPeers(q, target) = {} \/ MayMiss(q, target)
        /\ Write(q, Retain(R \ Superseded(R, q, target), q))
        /\ nextId' = IF q.dry THEN nextId ELSE nextId + 1
  /\ End(w, "saved")
  /\ UNCHANGED <<clock, baseline>>

-----------------------------------------------------------------------------
(* The other writers of the table, one transaction each.                     *)

\* share and unshare.
SetScope ==
  /\ "share" \in scene.commands
  /\ \E r \in rows, s \in Scopes :
       s # r.scope /\ rows' = (rows \ {r}) \cup {[r EXCEPT !.scope = s]}
  /\ UNCHANGED <<clock, nextId, pend, baseline>>

\* Get's expand signal.
recordExpansion ==
  /\ "get" \in scene.commands
  /\ \E r \in rows : rows' = (rows \ {r}) \cup {[r EXCEPT !.expanded = clock]}
  /\ UNCHANGED <<clock, nextId, pend, baseline>>

\* pruneFilter: one id, or a set given by kind, task and age; a cutoff lies before
\* now, or is left out, and at least one filter is given.
Prune ==
  /\ "prune" \in scene.commands
  /\ \/ \E r \in rows : rows' = rows \ {r}
     \/ \E ks \in {{k} : k \in Kinds} \cup {Kinds}, ts \in {{t} : t \in Tasks} \cup {Tasks},
           cutoff \in (0..(clock - 1)) \cup {MaxTime + 1} :
          /\ <<ks, ts, cutoff>> # <<Kinds, Tasks, MaxTime + 1>>
          /\ rows' = {r \in rows : ~(r.kind \in ks /\ r.task \in ts /\ r.created < cutoff)}
  /\ UNCHANGED <<clock, nextId, pend, baseline>>

\* rewriteAllRows: scrub and re-fingerprint title, what and learned of every row;
\* its tags stay as they are.  The collect pass finds
\* two rows that end with one fingerprint; the UPDATEs then run one by one, and
\* the unique index refuses a fingerprint that a row not yet rewritten holds.
Rewritten(r) ==
  [r EXCEPT !.text = Scrub[r.text], !.print = Fingerprint[<<r.task, r.kind, Scrub[r.text]>>]]
Collides == \E r, s \in rows : r # s /\ Rewritten(r).print = Rewritten(s).print
UniqueAlongTheWay ==
  \A r, s \in rows : r.id < s.id => Rewritten(r).print # s.print

Rescrub ==
  /\ "migrate" \in scene.commands
  /\ ~Collides /\ UniqueAlongTheWay
  /\ rows' = {Rewritten(r) : r \in rows}
  /\ baseline' = "done"
  /\ UNCHANGED <<clock, nextId, pend>>

\* migrate --no-rescrub only opens the boot gate: "skipped" and "done" are the
\* same stored sentinel, told apart here to say which of the two set it.
NoRescrub ==
  /\ "migrate" \in scene.commands
  /\ baseline = "none" /\ baseline' = "skipped"
  /\ UNCHANGED <<rows, clock, nextId, pend>>

Tick == clock < MaxTime /\ clock' = clock + 1 /\ UNCHANGED <<rows, nextId, pend, baseline>>

-----------------------------------------------------------------------------
Dated(r) == r.authored <= r.created /\ r.created <= r.updated
Distinct(R) == \A r, s \in R : r.print = s.print \/ r.id = s.id => r = s

\* What the table's CHECK and unique index, the migrations (authored_at starts as
\* created_at) and the auto budget, as old as the origin column, left true of the
\* rows of an earlier version.
ASSUME CorporaAssumption ==
  \A s \in Scenes : \A old \in s.corpora :
    /\ IsFiniteSet(old) /\ {r.id : r \in old} = 1..Cardinality(old)
    /\ Distinct(old) /\ \A r \in old : Dated(r)
    /\ Cardinality(AutoSummaries(old)) <= MaxAuto

\* A fresh store, or the rows of an earlier version behind the boot gate.
Init ==
  /\ scene \in Scenes
  /\ rows \in {{}} \cup scene.corpora
  /\ baseline = IF rows = {} THEN "done" ELSE "none"
  /\ clock = 1
  /\ nextId = Cardinality(rows) + 1
  /\ pend = [w \in Writers |-> Ended("new")]

\* Every command but migrate waits for the boot gate.
Served == baseline # "none"

Next ==
  \/ Served /\ \E w \in Writers : Request(w) \/ ImportLine(w)
  \/ Served /\ \E w \in Writers : GiveUp(w) \/ Skip(w) \/ ForceUpdate(w) \/ Insert(w)
  \/ Served /\ (SetScope \/ recordExpansion \/ Prune)
  \/ Rescrub \/ NoRescrub \/ Tick

Spec == Init /\ [][Next /\ UNCHANGED scene]_vars

-----------------------------------------------------------------------------
Lost(r) == \A s \in rows' : s.id # r.id
Commits(w) == Waits(w) /\ pend'[w].out \in {"saved", "updated"}
Inserts(w) == Commits(w) /\ nextId' # nextId

\* Shape of the state.
TypeOK ==
  /\ rows \subseteq Rows
  /\ clock \in Times
  /\ nextId \in 1..(MaxIds + 1)
  /\ pend \in [Writers -> Pending]
  /\ baseline \in {"none", "skipped", "done"}

\* However saves, forced corrections and rescrubs interleave, no two rows share a
\* fingerprint or an id, so the unique index never refuses one of them
\* (save.go:270-275); and no lesson is dated after it entered the store, nor
\* corrected before (save.go:545-556, schema.go:46).
UniquePrints ==
  /\ TypeOK
  /\ \A r \in rows : Dated(r)
  /\ Distinct(rows)

\* Once the baseline is established by a rescrub, every title, what and learned is
\* redacted: no save, correction or import, not even one that queued before, puts
\* plaintext back, and a second rescrub finds nothing to redact (migrate.go:90-134,
\* save.go:766-773).  Nothing is said of tags: BaselineCoversTags fails.
BaselineMeansScrubbed == baseline = "done" => \A r \in rows : Scrub[r.text] = r.text

NewestKept ==
  \A w \in Writers : Inserts(w) =>
    \A r \in ManualSummaries(rows \cup {NewRow(pend[w].q, pend[w].now)}, pend[w].q.task) :
      Lost(r) => \/ r.id = pend[w].target
                 \/ Cardinality({s \in ManualSummaries(rows', r.task) : Newer(s, r)}) >= MaxSummaries
ExpandedKept ==
  \A w \in Writers : Inserts(w) =>
    \A r \in AutoSummaries(rows), s \in AutoSummaries(rows') :
      Lost(r) /\ r.id # pend[w].target /\ r.expanded > 0 /\ s.expanded = 0
        => s \in Newest(AutoSummaries(rows'), Grace)
WithinBudget == Cardinality(AutoSummaries(rows)) <= MaxAuto

\* Retention keeps the newest and the useful: a manual summary, the one just saved
\* included, is lost to a save only to MaxSummaries newer personal ones of its task
\* (save.go:482-494); the auto budget is a hard cap, whatever scope flips and
\* expansions do, and an auto summary somebody expanded is not evicted for it while
\* one nobody ever expanded stays, unless that one is in the grace window
\* (save.go:509-520).
RetentionKeepsTheBest == [][NewestKept /\ WithinBudget' /\ ExpandedKept]_vars

KnowledgeKept ==
  \A r \in rows : r.kind # Summary /\ Lost(r) /\ "prune" \notin scene.commands =>
    \E w \in Writers : /\ Inserts(w) /\ pend[w].target = r.id
                       /\ ScopeOf(pend[w].q) = r.scope
                       /\ pend[w].q.task = r.task /\ pend[w].q.kind = r.kind

\* "The system never deletes knowledge-kind memories on its own" (prune.go:11-13):
\* where nobody prunes by hand, one goes only when a save of the same task, kind
\* and scope names it as superseded.
KnowledgeOnlyLeavesOnRequest == [][KnowledgeKept]_vars

SharedOnRequest ==
  \A r \in rows, s \in rows' :
    r.id = s.id /\ r.scope = "personal" /\ s.scope = "shared" =>
      \/ SetScope
      \/ \E w \in Writers : Commits(w) /\ pend[w].q.force /\ pend[w].q.scope = "shared"
ImportsOnlyAdd ==
  \A w \in Writers : Commits(w) /\ pend[w].q.imported =>
    \A r \in rows :
      LET m == ManualSummaries(rows, r.task)
      IN r \in rows' \/ r \in m \ Newest(m, MaxSummaries)

\* "A memory never leaves the local store unless explicitly shared" (save.go:43-44):
\* a personal row becomes shared only by share or by a forced save that asks for it.
\* And what teammates share only adds to the local store: no local row is rewritten,
\* rescoped or deleted by an import, apart from summaries already beyond the cap
\* (save.go:482-494, share.go:133-150).
PoolAndStoreStayApart == [][SharedOnRequest /\ ImportsOnlyAdd]_vars

-----------------------------------------------------------------------------
(* Statements of the source that the code does not keep.                     *)

\* "force overwrites the matched row, otherwise the save is skipped" (save.go:221-222).
ForcedSaveOverwrites == \A w \in Writers : pend[w].out # "rejected"

\* "a mismatched/missing target is a benign no-op" (save.go:106-108): a save whose
\* supersedes target is not deleted passes the near-duplicate gate like any other.
MismatchedSupersedeIsNoOp ==
  [][\A w \in Writers : Inserts(w) =>
       \A r \in rows' : r.id = nextId =>
         \A s \in rows' \ {r} :
           ~(s.task = r.task /\ s.kind = r.kind /\ IsNear(r, s))]_vars

\* "migrate --rescrub # rewrite every row through the scrub pipeline"
\* (CHANGELOG.md:562): what a save would refuse or redact is gone from every row.
BaselineCoversTags ==
  baseline = "done" => \A r \in rows : Scrub[r.text] = r.text /\ r.tags \in CleanTags

\* "fingerprint is content-derived, not clock- or insert-order-derived"
\* (share.go:38-39): a row's fingerprint is the one of its own task, kind and body.
FingerprintIsOfContent ==
  \A r \in rows : r.print = Fingerprint[<<r.task, r.kind, r.text>>]

\* "omit scope to use the default ('shared')" (save.go:713).
OmittedScopeIsShared ==
  [][\A w \in Writers : Inserts(w) /\ pend[w].q.scope = "" =>
       \A r \in rows' : r.id = nextId => r.scope = "shared"]_vars
=============================================================================
