----------------------------- MODULE SharePool -----------------------------
(***************************************************************************)
(* The shared pool: the git transport of internal/share between the stores *)
(* of several teammates, and the share, pull and unshare commands of the   *)
(* TUI (internal/tui/model.go) that drive it.                               *)
(*                                                                         *)
(* A peer is one teammate: a store, a clone of the pool repository, and at  *)
(* most one transport operation under way.  The remote only ever takes     *)
(* fast-forwards; its history is the sequence of the contents of           *)
(* shared.jsonl.  A lesson is a number, in fingerprint order, the order of  *)
(* the lines of the file.                                                  *)
(***************************************************************************)
EXTENDS Integers, Sequences, FiniteSets

CONSTANTS
  Peers, Texts,
  Scenes       \* what may happen, one set of inputs and bounds for each question

ASSUME PoolAssumption ==
  /\ Texts \subseteq Nat /\ IsFiniteSet(Texts)
  /\ \A s \in Scenes :
       /\ s.near \subseteq Texts \X Texts       \* lessons the dedupe gates take for one,
       /\ \A t \in Texts : <<t, t>> \in s.near  \* each lesson for itself
       /\ s.writes \in [Peers -> SUBSET Texts]  \* what the agents of each peer may learn
       /\ s.refuses \in [Peers -> SUBSET Texts] \* lines the Save of a peer finds invalid
       /\ {s.reconciles, s.unshares, s.reshares} \subseteq BOOLEAN
          \* has git been told to merge divergent branches (by default it refuses),
          \* may users unshare and delete rows, may they select shared rows again
       /\ {s.versions, s.faults, s.crashes} \subseteq Nat
          \* bounds: contents the remote has had, failed network calls, processes
          \* killed in an operation
       /\ s.versions # 0

VARIABLES
  scene,   \* the scene, fixed at the start
  store,   \* per peer and lesson: its scope there, or "none"
  remote,  \* the contents shared.jsonl has had on the remote, oldest first
  clone,   \* per peer: the last version pulled, HEAD, whether it is ahead, the file,
           \* and whether a merge of it stands half done
  op,      \* per peer: the operation under way, its rows, those of them that were
           \* shared before, the lines left to import
  offered, \* the lessons ever saved as shared, or selected for sharing
  faults, crashes

rest == <<store, remote, clone, op, offered, faults, crashes>>
vars == <<scene, rest>>

Scopes == {"none", "personal", "shared"}
Steps == {"none", "pull", "import", "create", "export", "commit", "push", "failed"}
Clones == [base : 1..scene.versions, head : SUBSET Texts, ahead : BOOLEAN,
           work : SUBSET Texts, unmerged : BOOLEAN]
Ops == [kind : {"none", "share", "fetch"}, at : Steps,
        targets : SUBSET Texts, was : SUBSET Texts, todo : SUBSET Texts]

Idle == [kind |-> "none", at |-> "none", targets |-> {}, was |-> {}, todo |-> {}]
Pool == remote[Len(remote)]
Holds(p) == {t \in Texts : store[p][t] # "none"}
Shared(p) == {t \in Texts : store[p][t] = "shared"}
Known(p, t) == \E s \in Holds(p) : <<t, s>> \in scene.near
At(p, step) == op[p].at = step
Goto(p, step) == op' = [op EXCEPT ![p].at = step]

-----------------------------------------------------------------------------
(* The user and the agents of a peer.                                        *)

\* A save, as personal by default or as shared if the request says so; the dedupe
\* gates of Save skip what is known.
Learn(p) ==
  /\ \E t \in scene.writes[p], scope \in {"personal", "shared"} :
       /\ ~Known(p, t)
       /\ store' = [store EXCEPT ![p][t] = scope]
       /\ offered' = IF scope = "shared" THEN offered \cup {t} ELSE offered
  /\ UNCHANGED <<remote, clone, op, faults, crashes>>

Unshare(p) ==
  /\ scene.unshares
  /\ \E t \in Shared(p) : store' = [store EXCEPT ![p][t] = "personal"]
  /\ UNCHANGED <<remote, clone, op, offered, faults, crashes>>

Delete(p) ==
  /\ scene.unshares
  /\ \E t \in Holds(p) : store' = [store EXCEPT ![p][t] = "none"]
  /\ UNCHANGED <<remote, clone, op, offered, faults, crashes>>

\* shareCmd: flip the selected rows, then Push.
StartShare(p) ==
  /\ At(p, "none")
  /\ \E T \in SUBSET Holds(p) \ {{}} :
       /\ scene.reshares \/ T \cap Shared(p) = {}
       /\ store' = [store EXCEPT ![p] = [t \in Texts |-> IF t \in T THEN "shared" ELSE @[t]]]
       /\ offered' = offered \cup T
       /\ op' = [op EXCEPT ![p] = [kind |-> "share", at |-> "pull", targets |-> T,
                                   was |-> T \cap Shared(p), todo |-> {}]]
  /\ UNCHANGED <<remote, clone, faults, crashes>>

\* pullCmd, or the boot fetch of a server.
StartFetch(p) ==
  /\ At(p, "none")
  /\ op' = [op EXCEPT ![p] = [Idle EXCEPT !.kind = "fetch", !.at = "pull"]]
  /\ UNCHANGED <<store, remote, clone, offered, faults, crashes>>

-----------------------------------------------------------------------------
(* fetchInto: git pull, then the import.                                     *)

Behind(p) == clone[p].base < Len(remote)
Diverged(p) == clone[p].ahead /\ Behind(p)
Dirty(p) == clone[p].work # clone[p].head

\* git's three-way merge of the file, line by line.
Merged(base, ours, theirs) == (ours \cap theirs) \cup (ours \ base) \cup (theirs \ base)

\* Two sides conflict where they change neighbouring lines, with no line between
\* them that both keep.
Changed(base, side) == (base \ side) \cup (side \ base)
Conflict(base, ours, theirs) ==
  \E a \in Changed(base, ours), b \in Changed(base, theirs) :
    /\ a # b /\ (a \notin Changed(base, theirs) \/ b \notin Changed(base, ours))
    /\ \A c \in base \cap ours \cap theirs : ~(a < c /\ c < b) /\ ~(b < c /\ c < a)
MergeConflicts(p) ==
  Diverged(p) /\ Conflict(remote[clone[p].base], clone[p].head, Pool)

\* git refuses to touch a file with uncommitted changes that the pull would change,
\* to reconcile divergent branches it has no strategy for, and to go on before a
\* merge that stands half done.
PullRefused(p) ==
  \/ clone[p].unmerged
  \/ Dirty(p) /\ Behind(p) /\ Pool # clone[p].head
  \/ Diverged(p) /\ ~scene.reconciles

\* A pull that stops in the middle of a merge leaves both sides in the file.
Stopped(p) == [clone[p] EXCEPT !.unmerged = TRUE, !.work = @ \cup Pool]

Pulled(p) ==
  LET c == clone[p]
      h == IF Diverged(p) THEN Merged(remote[c.base], c.head, Pool)
           ELSE IF Behind(p) THEN Pool ELSE c.head
  IN [c EXCEPT !.base = Len(remote), !.head = h, !.work = IF Dirty(p) THEN @ ELSE h]

Pull(p) ==
  /\ At(p, "pull")
  /\ IF PullRefused(p) THEN Goto(p, "failed") /\ UNCHANGED clone
     ELSE IF MergeConflicts(p)
     THEN Goto(p, "failed") /\ clone' = [clone EXCEPT ![p] = Stopped(p)]
     ELSE /\ clone' = [clone EXCEPT ![p] = Pulled(p)]
          /\ op' = [op EXCEPT ![p].at = "import", ![p].todo = Pulled(p).work]
  /\ UNCHANGED <<store, remote, offered, faults, crashes>>

\* Mutated form of Imported: the default scope instead of shared.
ImportedPersonal(p, t) ==
  IF Known(p, t) \/ t \in scene.refuses[p] THEN store[p][t] ELSE "personal"

\* importLine saves a line as shared, but for one that is known or found invalid.
Imported(p, t) ==
  IF Known(p, t) \/ t \in scene.refuses[p] THEN store[p][t] ELSE "shared"

\* Mutated form of ImportLine: a line that is skipped ends the batch.
ImportLineOrStop(p) ==
  /\ At(p, "import")
  /\ \E t \in op[p].todo :
       /\ \A s \in op[p].todo : t <= s
       /\ store' = [store EXCEPT ![p][t] = Imported(p, t)]
       /\ op' = [op EXCEPT ![p].todo = IF Imported(p, t) = store[p][t] THEN {} ELSE @ \ {t}]
  /\ UNCHANGED <<remote, clone, offered, faults, crashes>>

ImportLine(p) ==
  /\ At(p, "import")
  /\ \E t \in op[p].todo :
       /\ \A s \in op[p].todo : t <= s
       /\ store' = [store EXCEPT ![p][t] = Imported(p, t)]
       /\ op' = [op EXCEPT ![p].todo = @ \ {t}]
  /\ UNCHANGED <<remote, clone, offered, faults, crashes>>

Done(p) == op' = [op EXCEPT ![p] = Idle]

EndImport(p) ==
  /\ At(p, "import") /\ op[p].todo = {}
  /\ IF op[p].kind = "fetch" THEN Done(p) ELSE Goto(p, "create")
  /\ UNCHANGED <<store, remote, clone, offered, faults, crashes>>

-----------------------------------------------------------------------------
(* The rest of Push.                                                         *)

\* os.Create truncates the file.
Create(p) ==
  /\ At(p, "create")
  /\ clone' = [clone EXCEPT ![p].work = {}]
  /\ Goto(p, "export")
  /\ UNCHANGED <<store, remote, offered, faults, crashes>>

\* Mutated form of Export: every row.
ExportAll(p) ==
  /\ At(p, "export")
  /\ clone' = [clone EXCEPT ![p].work = Holds(p)]
  /\ Goto(p, "commit")
  /\ UNCHANGED <<store, remote, offered, faults, crashes>>

Export(p) ==
  /\ At(p, "export")
  /\ clone' = [clone EXCEPT ![p].work = Shared(p)]
  /\ Goto(p, "commit")
  /\ UNCHANGED <<store, remote, offered, faults, crashes>>

\* git add and git commit; "nothing to commit" ends Push as a success.
NothingToCommit(p) ==
  /\ At(p, "commit") /\ ~Dirty(p)
  /\ Done(p)
  /\ UNCHANGED <<store, remote, clone, offered, faults, crashes>>

Commit(p) ==
  /\ At(p, "commit") /\ Dirty(p)
  /\ clone' = [clone EXCEPT ![p].head = clone[p].work, ![p].ahead = TRUE]
  /\ Goto(p, "push")
  /\ UNCHANGED <<store, remote, offered, faults, crashes>>

\* git push: a fast-forward of the remote, or a rejection.
Accepted(p) ==
  /\ ~Behind(p) /\ Len(remote) < scene.versions
  /\ remote' = Append(remote, clone[p].head)
  /\ clone' = [clone EXCEPT ![p].base = Len(remote) + 1, ![p].ahead = FALSE]

PushOk(p) ==
  /\ At(p, "push") /\ Accepted(p)
  /\ Done(p)
  /\ UNCHANGED <<store, offered, faults, crashes>>

\* Bound: a remote that has had its contents takes no other.
PushRejected(p) ==
  /\ At(p, "push") /\ (Behind(p) \/ Len(remote) = scene.versions)
  /\ Goto(p, "failed")
  /\ UNCHANGED <<store, remote, clone, offered, faults, crashes>>

\* The network fails before git pull or git push did anything, or after the
\* remote took the push.
Fault(p) ==
  /\ faults < scene.faults /\ faults' = faults + 1
  /\ \/ op[p].at \in {"pull", "push"} /\ UNCHANGED <<remote, clone>>
     \/ At(p, "push") /\ Accepted(p)
  /\ Goto(p, "failed")
  /\ UNCHANGED <<store, offered, crashes>>

\* shareCmd puts every selected row back to personal.
Revert(p) ==
  /\ At(p, "failed")
  /\ store' = [store EXCEPT ![p] = [t \in Texts |->
                 IF t \in op[p].targets /\ @[t] # "none" THEN "personal" ELSE @[t]]]
  /\ Done(p)
  /\ UNCHANGED <<remote, clone, offered, faults, crashes>>

Crash(p) ==
  /\ crashes < scene.crashes /\ crashes' = crashes + 1
  /\ ~At(p, "none") /\ Done(p)
  /\ UNCHANGED <<store, remote, clone, offered, faults>>

-----------------------------------------------------------------------------
Init ==
  /\ scene \in Scenes
  /\ store = [p \in Peers |-> [t \in Texts |-> "none"]]
  /\ remote = <<{}>>
  /\ clone = [p \in Peers |->
                [base |-> 1, head |-> {}, ahead |-> FALSE, work |-> {}, unmerged |-> FALSE]]
  /\ op = [p \in Peers |-> Idle]
  /\ offered = {} /\ faults = 0 /\ crashes = 0

Transport(p) ==
  \/ Pull(p) \/ ImportLine(p) \/ EndImport(p) \/ Create(p) \/ Export(p)
  \/ NothingToCommit(p) \/ Commit(p) \/ PushOk(p) \/ PushRejected(p) \/ Revert(p)

Next ==
  \E p \in Peers :
    \/ Learn(p) \/ Unshare(p) \/ Delete(p) \/ StartShare(p) \/ StartFetch(p)
    \/ Transport(p) \/ Fault(p) \/ Crash(p)

Spec == Init /\ [][Next /\ UNCHANGED scene]_vars

\* A transport operation runs to its end, and every peer fetches now and then: a
\* server fetches when it starts.
FairSpec == Spec /\ \A p \in Peers : WF_rest(Transport(p)) /\ SF_rest(StartFetch(p))

-----------------------------------------------------------------------------
\* Shape of the state; a peer at rest carries nothing over from its last operation.
TypeOK ==
  /\ store \in [Peers -> [Texts -> Scopes]]
  /\ remote \in Seq(SUBSET Texts) /\ Len(remote) \in 1..scene.versions
  /\ clone \in [Peers -> Clones]
  /\ op \in [Peers -> Ops]
  /\ \A p \in Peers : At(p, "none") => op[p] = Idle
  /\ offered \subseteq Texts
  /\ faults \in 0..scene.faults /\ crashes \in 0..scene.crashes

\* "A memory never leaves the local store unless explicitly shared" (save.go:43-44):
\* nothing is in the file, in a commit or on the remote that neither a save marked
\* as shared nor a user selected, through failed pushes, merges, reverts and crashes.
OnlyOfferedLeaves ==
  /\ TypeOK
  /\ Pool \subseteq offered
  /\ \A p \in Peers : clone[p].head \cup clone[p].work \subseteq offered

\* Where every lesson has one author and nobody withdraws one: not by hand, and not
\* by the revert of a share whose push the remote took before the network failed.
Additive ==
  /\ ~scene.unshares /\ ~scene.reshares /\ scene.faults = 0
  /\ \A t, u \in Texts : <<t, u>> \in scene.near => t = u
  /\ \A p \in Peers : scene.refuses[p] = {}
  /\ \A p, q \in Peers : scene.writes[p] \cap scene.writes[q] # {} => p = q

\* There, no push removes another's line from the pool, although each rewrites the
\* whole file: a push that raced another is rejected, and the retry merges first
\* (share.go:70-73).
NoLineLost == Additive /\ remote' # remote => Pool \subseteq Pool'
PoolOnlyGrows == [][NoLineLost]_vars

\* A clone git will not pull into any more, until its user repairs it by hand: its
\* own commit lost a race and git has not been told to merge it, or the merge stopped
\* at a conflict, or a kill left the file rewritten and not committed.
CutOff(p) == At(p, "none") /\ PullRefused(p)

\* Where users unshare and delete nothing, every peer whose clone is not cut off has
\* again and again all lessons of the pool but those it refuses, whatever is lost,
\* killed or skipped on the way: one bad line does not hold back the good ones
\* (store/share.go:101-104), and a failed call is not the last one
\* (server.go:203-207).
UpToDate(p) == \A t \in Pool : Known(p, t) \/ t \in scene.refuses[p] \/ CutOff(p)
PoolReachesEveryone == scene.unshares \/ \A p \in Peers : []<>UpToDate(p)

-----------------------------------------------------------------------------
(* Statements of the source that the code does not keep.                     *)

\* "It owns no history or merge logic (git does)" (share.go:2-4): a peer whose push
\* lost a race can pull again, and push on its next try.
RacesAreReconciled == \A p \in Peers : ~CutOff(p)

\* "we pull + import it first so the local shared set is a SUPERSET before the
\* full-file rewrite" (share.go:70-72), while nobody unshares.
FetchFirstIsSuperset ==
  \A p \in Peers : At(p, "create") => clone[p].work \subseteq Shared(p)

\* "otherwise the census would show rows as shared that never reached the pool"
\* (model.go:577-578): a share that reports success has published its rows.
ReportedMeansPublished ==
  [][\A p \in Peers : op[p].at \in {"commit", "push"} /\ op'[p].at = "none" =>
       op[p].targets \cap Shared(p) \subseteq Pool']_vars

\* "on any failure revert the flips" (model.go:577): a failed share leaves a
\* row that was shared before it as it was.
RevertRestores ==
  [][\A p \in Peers : At(p, "failed") /\ ~At(p, "failed")' =>
       op[p].was \cap Shared(p) \subseteq Shared(p)']_vars
=============================================================================
