---------------------------- MODULE GraphManager ----------------------------
(***************************************************************************)
(* internal/graph: Manager (graph.go) and the cross-process build lock     *)
(* (buildlock.go), for one repository.                                     *)
(*                                                                         *)
(* Callers are the goroutines that serve graph queries, WaitBuild and      *)
(* Index; jobs are the goroutines that run buildIndexLocked.  Several      *)
(* processes share the working tree, the graph file and .build.lock; each  *)
(* has its own Manager: repoLock, handle cache, stamp cache, builds map    *)
(* and failedStamps.  An action is one critical section, or one step on a  *)
(* shared file or channel, of one goroutine.                               *)
(*                                                                         *)
(* A context may die at any moment and is observed only where the code     *)
(* selects on it, so a caller's deadline is the freedom to take the        *)
(* ctx.Done branch there; a build's context is part of its job.            *)
(* lastBuildErrors and failedStamps are always written together            *)
(* (graph.go:343, 355, 373, 378): one variable, failed, stands for both.   *)
(***************************************************************************)
EXTENDS Naturals, FiniteSets

CONSTANTS
  Procs, Callers, Home,   \* processes, goroutines and where each one runs
  Handles,      \* connEntry identifiers
  Jobs,         \* build goroutine identifiers, a set of naturals
  Versions,     \* versions of the working tree, a set of naturals
  Broken,       \* the versions buildIndex rejects
  Foreign,      \* the stamp of a graph of another generation, or unreadable
  None, Absent,
  MaxIno,       \* bound: published graph files told apart
  Scenes        \* what may happen, one set of bounds and switches for each question

ASSUME ManagerAssumption ==
  /\ IsFiniteSet(Callers) /\ Home \in [Callers -> Procs]
  /\ Jobs \subseteq Nat /\ Handles \subseteq Nat
  /\ Versions \subseteq Nat /\ Broken \subseteq Versions
  /\ Foreign \notin Versions
  /\ None \notin Procs \cup Callers \cup Handles \cup Jobs \cup Versions
  /\ Callers \cap Jobs = {}
  /\ MaxIno \in Nat
  /\ \A s \in Scenes :
       /\ s.ops \in [Callers -> SUBSET {"query", "wait", "index"}] \* who makes which calls
       /\ s.starts \subseteq s.versions             \* the version the tree is at first ...
       /\ s.versions \subseteq Versions             \* ... and may get to
       /\ s.jobs \subseteq Jobs
       /\ {s.edits, s.crashes, s.faults} \subseteq Nat  \* how many of each
       /\ s.inos \in 0..MaxIno
       /\ {s.reverts, s.closes, s.hangs} \subseteq BOOLEAN
          \* may an edit bring back an earlier version, may Close run, do builds hang

\* A graph file: the stamp it is labelled with, the source it was built from,
\* and which published file it is.
Files == [stamp : Versions \cup {Foreign}, content : Versions, ino : 0..MaxIno]

ASSUME FilesAssumption == Absent \notin Files

VARIABLES
  scene,       \* the scene, fixed at the start
  source,      \* the version the working tree is at
  disk,        \* graph.db: a file or Absent
  conns, entry, held,   \* the handle cache, see GraphHandles
  lock,        \* repoLock of each process: the caller or abandoned build holding it
  stampCache,  \* the cached stamp of each process, or None
  builds,      \* Manager.builds[repo] of each process: a job or None
  failed,      \* Manager.failedStamps[repo] of each process: a stamp or None
  flock,       \* the job holding .build.lock
  caller,      \* the state of each caller
  job,         \* the state of each job
  life,        \* "up", "closing" or "closed": how far Manager.Close got
  edits, crashes, faults

H == INSTANCE GraphHandles WITH Users <- Callers, NoHandle <- None

handleVars == <<conns, entry, held>>
procVars == <<lock, stampCache, builds, failed, life>>
envVars == <<source, edits, crashes, faults>>
rest == <<source, disk, conns, entry, held, lock, stampCache, builds, failed,
          flock, caller, job, life, edits, crashes, faults>>
vars == <<scene, rest>>

-----------------------------------------------------------------------------
\* A caller: where it is, which call it serves, which part of the call it is in
\* ("ensure": ensureFresh before its decision, "built": after its own build,
\* "settle": freshnessNow), the stamp it compares with, the job it waits for, and
\* the least file a settled WaitBuild may report with the one it got.
CallerStates == [
  pc : {"idle", "queued", "stamp", "store", "index", "open", "meta", "foreign",
        "cold", "coldwait", "retire", "warm", "using", "look", "await"},
  op : {"query", "wait", "index", None}, mode : {"ensure", "built", "settle"},
  cur : Versions \cup {None}, stale : BOOLEAN,
  job : Jobs \cup {None}, least : 0..MaxIno, got : 0..MaxIno]

Idle == [pc |-> "idle", op |-> None, mode |-> "ensure", cur |-> None,
         stale |-> FALSE, job |-> None, least |-> 0, got |-> MaxIno]

\* A job: buildState, the goroutine behind it, and what buildIndex has so far.
\* done counts the times its done channel was closed; beaten marks a superseded
\* build whose successor has already published.
JobStates == [
  phase : {"gone", "flock", "load", "rename", "finish", "retire", "signal"},
  kind : {"cold", "async", "index"}, proc : Procs \cup {None},
  owner : Callers \cup {None}, stamp : Versions \cup {None},
  content : Versions \cup {None}, live : BOOLEAN, ok : BOOLEAN,
  out : 0..MaxIno, done : 0..2, beaten : BOOLEAN]

Gone == [phase |-> "gone", kind |-> "async", proc |-> None, owner |-> None,
         stamp |-> None, content |-> None, live |-> FALSE, ok |-> FALSE,
         out |-> 0, done |-> 0, beaten |-> FALSE]

NewJob(p, k, c, s) ==
  [Gone EXCEPT !.phase = "flock", !.kind = k, !.proc = p, !.owner = c,
               !.stamp = s, !.live = TRUE]

Alive(j) == job[j].phase # "gone"
Spare(j) == j \in scene.jobs /\ ~Alive(j) /\ \A c \in Callers : caller[c].job # j
Allocatable(j) == Spare(j) /\ \A k \in Jobs : Spare(k) => j <= k

\* The part of a process's state under buildsMu can be entered unless one of its
\* builds is between retiring the handle and closing done (graph.go:355-360).
buildsMuFree(p) == \A j \in Jobs : ~(job[j].proc = p /\ job[j].phase = "signal")

Goto(c, pc) == caller' = [caller EXCEPT ![c].pc = pc]
Return(c) == caller' = [caller EXCEPT ![c] = Idle]

\* A settled WaitBuild reads the state once more before it answers (freshnessNow).
Settle(c, least) ==
  caller' = [caller EXCEPT ![c] =
    [Idle EXCEPT !.pc = "stamp", !.op = "wait", !.mode = "settle", !.least = least]]

\* ensureFresh returns an error: so does the call, unless it is a WaitBuild whose
\* own timeout ran out (waitTimedOut).
CutShort(c) == Return(c) \/ (caller[c].op = "wait" /\ Settle(c, 0))

\* A call that fails: ensureFresh hands the lock back on each of its error paths,
\* Index by its defer, and freshnessNow holds none.
Fail(c) == IF caller[c].mode = "settle" THEN Return(c) ELSE CutShort(c)

releaseLock(p) == lock' = [lock EXCEPT ![p] = None]
Unlock(c) == IF lock[Home[c]] = c THEN releaseLock(Home[c]) ELSE UNCHANGED lock

-----------------------------------------------------------------------------
(* ensureFresh, WaitBuild and Index: the caller's side.                      *)

\* The call arrives and tries repoLock first (acquireLock's first select).
Call(c, op) ==
  /\ caller[c].pc = "idle" /\ life[Home[c]] = "up"
  /\ IF lock[Home[c]] = None
     THEN /\ lock' = [lock EXCEPT ![Home[c]] = c]
          /\ caller' = [caller EXCEPT ![c] = [Idle EXCEPT !.pc = "stamp", !.op = op]]
     ELSE /\ caller' = [caller EXCEPT ![c] = [Idle EXCEPT !.pc = "queued", !.op = op]]
          /\ UNCHANGED lock
  /\ UNCHANGED <<envVars, disk, handleVars, stampCache, builds, failed, life, flock, job>>

AcquireLock(c) ==
  /\ caller[c].pc = "queued" /\ lock[Home[c]] = None
  /\ lock' = [lock EXCEPT ![Home[c]] = c]
  /\ Goto(c, "stamp")
  /\ UNCHANGED <<envVars, disk, handleVars, stampCache, builds, failed, life, flock, job>>

\* Mutated form of GiveUpLock: a sync.Mutex, whose waiters no deadline reaches.
GiveUpLockNever(c) == caller[c].pc = "queued" /\ FALSE /\ UNCHANGED rest

GiveUpLock(c) ==
  /\ caller[c].pc = "queued"
  /\ CutShort(c)
  /\ UNCHANGED <<envVars, disk, handleVars, procVars, flock, job>>

\* cachedStamp: the cached value, or a walk of the tree whose result is cached in
\* a second critical section.
AfterStamp(c) == IF caller[c].op = "index" /\ caller[c].mode = "ensure" THEN "index" ELSE "open"

cachedStamp(c) ==
  /\ caller[c].pc = "stamp"
  /\ LET hit == stampCache[Home[c]] # None
         s   == IF hit THEN stampCache[Home[c]] ELSE source
     IN caller' = [caller EXCEPT ![c].cur = s, ![c].pc = IF hit THEN AfterStamp(c) ELSE "store"]
  /\ UNCHANGED <<envVars, disk, handleVars, procVars, flock, job>>

StoreStamp(c) ==
  /\ caller[c].pc = "store"
  /\ stampCache' = [stampCache EXCEPT ![Home[c]] = caller[c].cur]
  /\ Goto(c, AfterStamp(c))
  /\ UNCHANGED <<envVars, disk, handleVars, lock, builds, failed, life, flock, job>>

\* The walk of the tree fails.
StampFails(c) ==
  /\ caller[c].pc = "stamp" /\ stampCache[Home[c]] = None
  /\ faults < scene.faults
  /\ faults' = faults + 1
  /\ Fail(c) /\ Unlock(c)
  /\ UNCHANGED <<source, edits, crashes, disk, handleVars, stampCache, builds, failed, life, flock, job>>

\* open: no file means no graph; otherwise the handle, then its meta rows.
Open(c) ==
  /\ caller[c].pc = "open"
  /\ IF disk = Absent
     THEN /\ IF caller[c].mode = "ensure" THEN Goto(c, "cold") /\ UNCHANGED lock
             ELSE Return(c) /\ Unlock(c)
          /\ UNCHANGED handleVars
     ELSE H!Acquire(c) /\ Goto(c, "meta") /\ UNCHANGED lock
  /\ UNCHANGED <<envVars, disk, stampCache, builds, failed, life, flock, job>>

\* open fails on a graph that is there.  Before ensureFresh's decision that is no
\* graph at all; after the call's own build, and in freshnessNow, it is an error.
OpenFails(c) ==
  /\ caller[c].pc \in {"open", "meta"} /\ disk # Absent
  /\ faults < scene.faults
  /\ faults' = faults + 1
  /\ IF caller[c].pc = "meta" THEN H!release(c) ELSE UNCHANGED handleVars
  /\ IF caller[c].mode = "ensure" THEN Goto(c, "cold") /\ UNCHANGED lock
     ELSE Fail(c) /\ Unlock(c)
  /\ UNCHANGED <<source, edits, crashes, disk, stampCache, builds, failed, life, flock, job>>

\* The meta rows decide: serve, rebuild behind a stale answer, or treat the graph
\* as absent (another generation, or unreadable).  Index counts its rows with the
\* lock still held.
ReadMeta(c) ==
  /\ caller[c].pc = "meta"
  /\ \E f \in Files :
       /\ H!Read(c, f)
       /\ LET cl   == caller[c]
              same == f.stamp = cl.cur
              next == IF cl.mode # "ensure" \/ same THEN "using"
                      ELSE IF f.stamp = Foreign THEN "foreign" ELSE "warm"
          IN /\ caller' = [caller EXCEPT
                  ![c].pc = next,
                  ![c].cur = IF next = "using" THEN None ELSE @,
                  ![c].got = IF cl.mode = "settle" THEN f.ino ELSE @]
             /\ IF next = "using" /\ cl.op # "index" THEN Unlock(c) ELSE UNCHANGED lock
  /\ UNCHANGED <<envVars, disk, stampCache, builds, failed, life, flock, job>>

DropForeign(c) ==
  /\ caller[c].pc = "foreign"
  /\ H!release(c)
  /\ Goto(c, "cold")
  /\ UNCHANGED <<envVars, disk, procVars, flock, job>>

\* First build: refuse a source already known to fail, else build and wait.
ReportKnownFailure(c) ==
  /\ caller[c].pc = "cold" /\ buildsMuFree(Home[c])
  /\ failed[Home[c]] = caller[c].cur
  /\ releaseLock(Home[c])
  /\ CutShort(c)
  /\ UNCHANGED <<envVars, disk, handleVars, stampCache, builds, failed, life, flock, job>>

Launch(c, kind) ==
  \E j \in Jobs :
    /\ Allocatable(j)
    /\ job' = [job EXCEPT ![j] = NewJob(Home[c], kind, c, caller[c].cur)]
    /\ caller' = [caller EXCEPT ![c].pc = "coldwait", ![c].job = j]

ColdBuild(c) ==
  /\ caller[c].pc = "cold" /\ buildsMuFree(Home[c])
  /\ failed[Home[c]] # caller[c].cur
  /\ Launch(c, "cold")
  /\ UNCHANGED <<envVars, disk, handleVars, procVars, flock>>

Index(c) ==
  /\ caller[c].pc = "index"
  /\ Launch(c, "index")
  /\ UNCHANGED <<envVars, disk, handleVars, procVars, flock>>

\* Index builds on the caller's own context.
CancelIndex(c) ==
  /\ caller[c].pc = "coldwait" /\ caller[c].op = "index" /\ job[caller[c].job].live
  /\ job' = [job EXCEPT ![caller[c].job].live = FALSE]
  /\ UNCHANGED <<envVars, disk, handleVars, procVars, flock, caller>>

\* Mutated form of RecordOutcome: a failure is forgotten.
RecordOutcomeNever(p, stamp, ok) ==
  failed' = [failed EXCEPT ![p] = IF ok THEN None ELSE @]

\* finishColdBuild's bookkeeping under buildsMu, for a build of process p with
\* the given stamp and outcome.  Index records no failure.
RecordOutcome(p, stamp, ok) ==
  failed' = [failed EXCEPT ![p] = IF ok THEN None ELSE stamp]

\* The build the caller waited for is over.
finishColdBuild(c) ==
  LET j == caller[c].job p == Home[c] IN
  /\ caller[c].pc = "coldwait" /\ job[j].phase = "finish" /\ buildsMuFree(p)
  /\ job' = [job EXCEPT ![j] = Gone]
  /\ IF job[j].ok
     THEN /\ caller' = [caller EXCEPT ![c].pc = "retire", ![c].job = None]
          /\ RecordOutcome(p, job[j].stamp, TRUE)
          /\ UNCHANGED lock
     ELSE /\ CutShort(c)
          /\ releaseLock(p)
          /\ IF caller[c].op = "index" THEN UNCHANGED failed
             ELSE RecordOutcome(p, job[j].stamp, FALSE)
  /\ UNCHANGED <<envVars, disk, handleVars, stampCache, builds, life, flock>>

\* Mutated form of RetireHandle: the entry leaves the map without being retired.
RetireHandleLeaks(c) ==
  /\ caller[c].pc = "retire"
  /\ conns' = [conns EXCEPT ![Home[c]] = None]
  /\ caller' = [caller EXCEPT ![c].pc = "open", ![c].mode = "built"]
  /\ UNCHANGED <<envVars, disk, entry, held, procVars, flock, job>>

RetireHandle(c) ==
  /\ caller[c].pc = "retire"
  /\ H!closeConn(Home[c])
  /\ caller' = [caller EXCEPT ![c].pc = "open", ![c].mode = "built"]
  /\ UNCHANGED <<envVars, disk, procVars, flock, job>>

\* The caller goes away mid-build: the build outlives it and keeps repoLock.
Abandon(c) ==
  LET j == caller[c].job IN
  /\ caller[c].pc = "coldwait" /\ caller[c].op # "index"
  /\ lock' = [lock EXCEPT ![Home[c]] = j]
  /\ job' = [job EXCEPT ![j].owner = None]
  /\ CutShort(c)
  /\ UNCHANGED <<envVars, disk, handleVars, stampCache, builds, failed, life, flock>>

-----------------------------------------------------------------------------
(* Warm-serve: a graph exists but its stamp is not the tree's.               *)

ServeStale(c) ==
  caller' = [caller EXCEPT ![c].pc = "using", ![c].cur = None, ![c].stale = TRUE]

SameStampBuilding(c) ==
  builds[Home[c]] # None /\ job[builds[Home[c]]].stamp = caller[c].cur

\* Mutated forms of Superseded: without bs.cancel(), or without close(done).
SupersededUncancelled(p) ==
  IF builds[p] = None THEN job ELSE [job EXCEPT ![builds[p]].done = @ + 1]
SupersededSilently(p) ==
  IF builds[p] = None THEN job ELSE [job EXCEPT ![builds[p]].live = FALSE]

\* bs.cancel(), delete, close(done): the registered build targets dead source.
Superseded(p) ==
  IF builds[p] = None THEN job
  ELSE [job EXCEPT ![builds[p]].live = FALSE, ![builds[p]].done = @ + 1]

Attach(c) ==
  /\ caller[c].pc = "warm" /\ buildsMuFree(Home[c])
  /\ SameStampBuilding(c)
  /\ ServeStale(c) /\ releaseLock(Home[c])
  /\ UNCHANGED <<envVars, disk, handleVars, stampCache, builds, failed, life, flock, job>>

ServeKnownFailure(c) ==
  /\ caller[c].pc = "warm" /\ buildsMuFree(Home[c])
  /\ ~SameStampBuilding(c)
  /\ failed[Home[c]] = caller[c].cur
  /\ job' = Superseded(Home[c])
  /\ builds' = [builds EXCEPT ![Home[c]] = None]
  /\ ServeStale(c) /\ releaseLock(Home[c])
  /\ UNCHANGED <<envVars, disk, handleVars, stampCache, failed, life, flock>>

LaunchAsync(c) ==
  LET p == Home[c] IN
  /\ caller[c].pc = "warm" /\ buildsMuFree(p)
  /\ ~SameStampBuilding(c)
  /\ failed[p] # caller[c].cur
  /\ \E j \in Jobs :
       /\ Allocatable(j)
       /\ job' = [Superseded(p) EXCEPT ![j] = NewJob(p, "async", None, caller[c].cur)]
       /\ builds' = [builds EXCEPT ![p] = j]
  /\ ServeStale(c) /\ releaseLock(p)
  /\ UNCHANGED <<envVars, disk, handleVars, stampCache, failed, life, flock>>

-----------------------------------------------------------------------------
(* The end of a call, and WaitBuild's wait.                                  *)

\* The caller lets go of its handle.  A query is over; so is Index, whose deferred
\* releaseLock runs last, and a WaitBuild that found a fresh graph or has settled; a
\* stale one goes on to wait.
Release(c) ==
  /\ caller[c].pc = "using"
  /\ H!release(c)
  /\ IF caller[c].op = "wait" /\ caller[c].mode = "ensure" /\ caller[c].stale
     THEN Goto(c, "look") ELSE Return(c)
  /\ IF caller[c].op = "index" THEN releaseLock(Home[c]) ELSE UNCHANGED lock
  /\ UNCHANGED <<envVars, disk, stampCache, builds, failed, life, flock, job>>

\* Nothing in flight: report what is there.  Otherwise wait for the build.
LookForBuild(c) ==
  LET j == builds[Home[c]] IN
  /\ caller[c].pc = "look" /\ buildsMuFree(Home[c])
  /\ IF j = None THEN Settle(c, 0)
     ELSE caller' = [caller EXCEPT ![c].pc = "await", ![c].job = j]
  /\ UNCHANGED <<envVars, disk, handleVars, procVars, flock, job>>

\* The last one to let go of an ended build's channel leaves nothing behind.
Forget(c, j) ==
  job' = IF Alive(j) \/ \E d \in Callers \ {c} : caller[d].job = j
         THEN job ELSE [job EXCEPT ![j] = Gone]

Wake(c) ==
  LET j == caller[c].job IN
  /\ caller[c].pc = "await" /\ job[j].done > 0
  /\ Settle(c, IF Alive(j) THEN 0 ELSE job[j].out)
  /\ Forget(c, j)
  /\ UNCHANGED <<envVars, disk, handleVars, procVars, flock>>

TimeOut(c) ==
  /\ caller[c].pc = "await"
  /\ Settle(c, 0)
  /\ Forget(c, caller[c].job)
  /\ UNCHANGED <<envVars, disk, handleVars, procVars, flock>>

-----------------------------------------------------------------------------
(* buildIndexLocked: the build goroutine's side.                             *)

\* The build is over: its lock goes back.
Outcome(j, ok, out) ==
  /\ job' = [job EXCEPT ![j].phase = "finish", ![j].content = None, ![j].ok = ok, ![j].out = out]
  /\ flock' = IF flock = j THEN None ELSE flock

\* Mutated form of TryFlock: any graph on disk taken for the wanted one.
TryFlockAnyGraph(j) ==
  /\ job[j].phase = "flock" /\ flock = None
  /\ IF disk # Absent
     THEN Outcome(j, TRUE, disk.ino)
     ELSE /\ job' = [job EXCEPT ![j].phase = "load"]
          /\ flock' = j
  /\ UNCHANGED <<envVars, disk, handleVars, procVars, caller>>

\* acquireBuildLock tries before it looks at its context.  Under the lock,
\* stampOnDisk: somebody may have built exactly this meanwhile.  A dead context
\* reads no stamp.
TryFlock(j) ==
  /\ job[j].phase = "flock" /\ flock = None
  /\ IF job[j].live /\ disk # Absent /\ disk.stamp = job[j].stamp
     THEN Outcome(j, TRUE, disk.ino)
     ELSE /\ job' = [job EXCEPT ![j].phase = "load"]
          /\ flock' = j
  /\ UNCHANGED <<envVars, disk, handleVars, procVars, caller>>

GiveUpFlock(j) ==
  /\ job[j].phase = "flock" /\ flock # None /\ ~job[j].live
  /\ Outcome(j, FALSE, 0)
  /\ UNCHANGED <<envVars, disk, handleVars, procVars, caller>>

\* The lock file cannot be opened or locked: build without it.
LockUnavailable(j) ==
  /\ job[j].phase = "flock" /\ faults < scene.faults /\ job[j].live
  /\ faults' = faults + 1
  /\ job' = [job EXCEPT ![j].phase = "load"]
  /\ UNCHANGED <<source, edits, crashes, disk, handleVars, procVars, flock, caller>>

\* Mutated form of buildIndex: no last look at the context.
buildIndexUncancellable(j) ==
  /\ job[j].phase = "load"
  /\ IF source \in Broken
     THEN Outcome(j, FALSE, 0)
     ELSE /\ job' = [job EXCEPT ![j].phase = "rename", ![j].content = source]
          /\ UNCHANGED flock
  /\ UNCHANGED <<envVars, disk, handleVars, procVars, caller>>

\* buildIndex reads the tree as it is now, not as it was when stamped, and
\* writeGraphDB gives up on a context that died before its last check.
buildIndex(j) ==
  /\ job[j].phase = "load"
  /\ IF source \in Broken \/ ~job[j].live
     THEN Outcome(j, FALSE, 0)
     ELSE /\ job' = [job EXCEPT ![j].phase = "rename", ![j].content = source]
          /\ UNCHANGED flock
  /\ UNCHANGED <<envVars, disk, handleVars, procVars, caller>>

\* Any I/O error on the way to the rename.
BuildFault(j) ==
  /\ job[j].phase \in {"load", "rename"} /\ faults < scene.faults
  /\ faults' = faults + 1
  /\ Outcome(j, FALSE, 0)
  /\ UNCHANGED <<source, edits, crashes, disk, handleVars, procVars, caller>>

NextIno == IF disk = Absent THEN 0 ELSE IF disk.ino < scene.inos THEN disk.ino + 1 ELSE scene.inos

\* Mutated form of Published: labelled with the stamp of the tree as it is now.
PublishedLate(j) == [stamp |-> source, content |-> job[j].content, ino |-> NextIno]

\* The meta row stamp is the one the build was started for.
Published(j) == [stamp |-> job[j].stamp, content |-> job[j].content, ino |-> NextIno]

\* The graph is published; superseded builds of the same process whose successor
\* this is are beaten from here on.
Rename(j) ==
  LET p == job[j].proc IN
  /\ job[j].phase = "rename"
  /\ disk' = Published(j)
  /\ job' = [k \in Jobs |->
       IF k = j THEN [job[k] EXCEPT !.phase = "finish", !.content = None, !.ok = TRUE, !.out = NextIno]
       ELSE IF builds[p] = j /\ job[k].kind = "async" /\ job[k].proc = p /\ job[k].phase # "gone"
       THEN [job[k] EXCEPT !.beaten = TRUE] ELSE job[k]]
  /\ flock' = IF flock = j THEN None ELSE flock
  /\ UNCHANGED <<envVars, handleVars, procVars, caller>>

\* A finished build leaves its channel and outcome to whoever awaits it.
Ended(j, done, out) ==
  IF \E c \in Callers : caller[c].job = j THEN [Gone EXCEPT !.done = done, !.out = out] ELSE Gone

\* buildAsync's critical section: discard a superseded result, or record the
\* failure, or retire the handle and then close done.
Discard(j) ==
  LET p == job[j].proc IN
  /\ job[j].phase = "finish" /\ job[j].kind = "async" /\ buildsMuFree(p)
  /\ builds[p] # j
  /\ job' = [job EXCEPT ![j] = Ended(j, job[j].done, 0)]
  /\ UNCHANGED <<envVars, disk, handleVars, procVars, flock, caller>>

FailAsync(j) ==
  LET p == job[j].proc IN
  /\ job[j].phase = "finish" /\ job[j].kind = "async" /\ buildsMuFree(p)
  /\ builds[p] = j /\ ~job[j].ok
  /\ RecordOutcome(p, job[j].stamp, FALSE)
  /\ builds' = [builds EXCEPT ![p] = None]
  /\ job' = [job EXCEPT ![j] = Ended(j, job[j].done + 1, 0)]
  /\ UNCHANGED <<envVars, disk, handleVars, lock, stampCache, life, flock, caller>>

\* Mutated form of SucceedAsync: the old handle stays in the cache.
SucceedAsyncKeepsHandle(j) ==
  LET p == job[j].proc IN
  /\ job[j].phase = "finish" /\ job[j].kind = "async" /\ buildsMuFree(p)
  /\ builds[p] = j /\ job[j].ok
  /\ RecordOutcome(p, job[j].stamp, TRUE)
  /\ job' = [job EXCEPT ![j].phase = "signal"]
  /\ UNCHANGED <<envVars, disk, handleVars, lock, stampCache, builds, life, flock, caller>>

SucceedAsync(j) ==
  LET p == job[j].proc IN
  /\ job[j].phase = "finish" /\ job[j].kind = "async" /\ buildsMuFree(p)
  /\ builds[p] = j /\ job[j].ok
  /\ RecordOutcome(p, job[j].stamp, TRUE)
  /\ H!closeConn(p)
  /\ job' = [job EXCEPT ![j].phase = "signal"]
  /\ UNCHANGED <<envVars, disk, lock, stampCache, builds, life, flock, caller>>

Signal(j) ==
  /\ job[j].phase = "signal"
  /\ builds' = [builds EXCEPT ![job[j].proc] = None]
  /\ job' = [job EXCEPT ![j] = Ended(j, job[j].done + 1, job[j].out)]
  /\ UNCHANGED <<envVars, disk, handleVars, lock, stampCache, failed, life, flock, caller>>

\* Mutated form of RecordAbandoned: a failed build never hands repoLock back.
RecordAbandonedKeepsLock(j) ==
  LET p == job[j].proc IN
  /\ job[j].phase = "finish" /\ job[j].kind = "cold" /\ job[j].owner = None /\ buildsMuFree(p)
  /\ RecordOutcome(p, job[j].stamp, job[j].ok)
  /\ job' = [job EXCEPT ![j] = IF job[j].ok THEN [@ EXCEPT !.phase = "retire"] ELSE Gone]
  /\ UNCHANGED <<envVars, disk, handleVars, lock, stampCache, builds, life, flock, caller>>

\* An abandoned first build records its own outcome, then hands repoLock back.
RecordAbandoned(j) ==
  LET p == job[j].proc IN
  /\ job[j].phase = "finish" /\ job[j].kind = "cold" /\ job[j].owner = None /\ buildsMuFree(p)
  /\ RecordOutcome(p, job[j].stamp, job[j].ok)
  /\ IF job[j].ok
     THEN job' = [job EXCEPT ![j].phase = "retire"] /\ UNCHANGED lock
     ELSE job' = [job EXCEPT ![j] = Gone] /\ releaseLock(p)
  /\ UNCHANGED <<envVars, disk, handleVars, stampCache, builds, life, flock, caller>>

RetireAbandoned(j) ==
  /\ job[j].phase = "retire"
  /\ H!closeConn(job[j].proc)
  /\ releaseLock(job[j].proc)
  /\ job' = [job EXCEPT ![j] = Gone]
  /\ UNCHANGED <<envVars, disk, stampCache, builds, failed, life, flock, caller>>

-----------------------------------------------------------------------------
(* The world around: edits, the stamp cache's TTL, shutdown, crashes.        *)

Edit ==
  /\ edits < scene.edits
  /\ \E v \in scene.versions \ {source} : (scene.reverts \/ v > source) /\ source' = v
  /\ edits' = edits + 1
  /\ UNCHANGED <<crashes, faults, disk, handleVars, procVars, flock, caller, job>>

StampExpires(p) ==
  /\ stampCache[p] # None
  /\ stampCache' = [stampCache EXCEPT ![p] = None]
  /\ UNCHANGED <<envVars, disk, handleVars, lock, builds, failed, life, flock, caller, job>>

\* Manager.Close: retire the handles, then cancel the registered builds.
CloseHandles(p) ==
  /\ scene.closes /\ life[p] = "up"
  /\ life' = [life EXCEPT ![p] = "closing"]
  /\ H!closeConn(p)
  /\ UNCHANGED <<envVars, disk, lock, stampCache, builds, failed, flock, caller, job>>

CloseBuilds(p) ==
  /\ life[p] = "closing" /\ buildsMuFree(p)
  /\ life' = [life EXCEPT ![p] = "closed"]
  /\ job' = IF builds[p] = None THEN job ELSE [job EXCEPT ![builds[p]].live = FALSE]
  /\ builds' = [builds EXCEPT ![p] = None]
  /\ UNCHANGED <<envVars, disk, handleVars, lock, stampCache, failed, flock, caller>>

\* A process is killed and started again: its memory is gone, the kernel drops
\* its flock, the graph file stays.
Crash(p) ==
  /\ crashes < scene.crashes
  /\ crashes' = crashes + 1
  /\ H!exit(p)
  /\ lock' = [lock EXCEPT ![p] = None]
  /\ stampCache' = [stampCache EXCEPT ![p] = None]
  /\ builds' = [builds EXCEPT ![p] = None]
  /\ failed' = [failed EXCEPT ![p] = None]
  /\ life' = [life EXCEPT ![p] = "up"]
  /\ caller' = [c \in Callers |-> IF Home[c] = p THEN Idle ELSE caller[c]]
  /\ job' = [j \in Jobs |-> IF job[j].proc = p THEN Gone ELSE job[j]]
  /\ flock' = IF flock # None /\ job[flock].proc = p THEN None ELSE flock
  /\ UNCHANGED <<source, edits, faults, disk>>

-----------------------------------------------------------------------------
\* What earlier sessions may have left: nothing, a graph of a version the tree had,
\* or one this binary cannot read.
EarlierGraphs(v) ==
  LET own == {f \in Files : f.ino = 0 /\ f.content <= v /\ f.content \notin Broken
                            /\ f.stamp = f.content}
  IN own \cup {Absent} \cup {[f EXCEPT !.stamp = Foreign] : f \in own}

Init ==
  /\ scene \in Scenes
  /\ source \in scene.starts
  /\ disk \in EarlierGraphs(source)
  /\ conns = [p \in Procs |-> None]
  /\ entry = [h \in Handles |-> H!Garbage]
  /\ held = [c \in Callers |-> None]
  /\ lock = [p \in Procs |-> None]
  /\ stampCache = [p \in Procs |-> None]
  /\ builds = [p \in Procs |-> None]
  /\ failed = [p \in Procs |-> None]
  /\ flock = None
  /\ caller = [c \in Callers |-> Idle]
  /\ job = [j \in Jobs |-> Gone]
  /\ life = [p \in Procs |-> "up"]
  /\ edits = 0 /\ crashes = 0 /\ faults = 0

\* What a caller does on its own, once nothing it waits for is missing.
CallerStep(c) ==
  \/ AcquireLock(c) \/ cachedStamp(c) \/ StoreStamp(c) \/ Open(c) \/ ReadMeta(c)
  \/ DropForeign(c) \/ ReportKnownFailure(c) \/ ColdBuild(c) \/ Index(c)
  \/ finishColdBuild(c) \/ RetireHandle(c)
  \/ Attach(c) \/ ServeKnownFailure(c) \/ LaunchAsync(c)
  \/ Release(c) \/ LookForBuild(c) \/ Wake(c)

\* What a dead context lets it do.
Deadline(c) == GiveUpLock(c) \/ Abandon(c) \/ TimeOut(c)

\* What an error of the file system does to it.
CallFault(c) == StampFails(c) \/ OpenFails(c)

JobStep(j) ==
  \/ TryFlock(j) \/ GiveUpFlock(j) \/ buildIndex(j) \/ Rename(j)
  \/ Discard(j) \/ FailAsync(j) \/ SucceedAsync(j) \/ Signal(j)
  \/ RecordAbandoned(j) \/ RetireAbandoned(j)

Calls(c) == \E op \in scene.ops[c] : Call(c, op)

Next ==
  \/ \E c \in Callers : Calls(c) \/ CallerStep(c) \/ Deadline(c) \/ CancelIndex(c) \/ CallFault(c)
  \/ \E j \in Jobs : JobStep(j) \/ LockUnavailable(j) \/ BuildFault(j)
  \/ Edit
  \/ \E p \in Procs : StampExpires(p) \/ CloseHandles(p) \/ CloseBuilds(p) \/ Crash(p)

Spec == Init /\ [][Next /\ UNCHANGED scene]_vars

\* Goroutines run, WaitBuild's own timeout fires, and agents keep asking.
CallerRuns(c) == CallerStep(c) \/ Calls(c) \/ (caller[c].op = "wait" /\ Deadline(c))

\* Builds end, except in the scenes where they hang; the few lines of buildAsync
\* under buildsMu end in any.
JobRuns(j) == (scene.hangs => job[j].phase = "signal") /\ JobStep(j)

\* A parked channel sender is served in turn, hence strong fairness for repoLock.
\* The stamp cache's TTL runs out.
FairSpec ==
  /\ Spec
  /\ \A c \in Callers : WF_rest(CallerRuns(c)) /\ SF_rest(AcquireLock(c))
  /\ \A j \in Jobs : WF_rest(JobRuns(j))
  /\ \A p \in Procs : WF_rest(StampExpires(p))

-----------------------------------------------------------------------------
Registered(p, j) == builds[p] = j
Awaiting(c) == caller[c].pc = "await"

\* Shape of the state.  done counts how often a build's channel was closed.
TypeOK ==
  /\ source \in Versions
  /\ disk \in Files \cup {Absent}
  /\ H!TypeOK
  /\ lock \in [Procs -> Callers \cup Jobs \cup {None}]
  /\ stampCache \in [Procs -> Versions \cup {None}]
  /\ builds \in [Procs -> Jobs \cup {None}]
  /\ failed \in [Procs -> Versions \cup {None}]
  /\ flock \in Jobs \cup {None}
  /\ caller \in [Callers -> CallerStates]
  /\ job \in [Jobs -> JobStates]
  /\ life \in [Procs -> {"up", "closing", "closed"}]
  /\ edits \in 0..scene.edits /\ crashes \in 0..scene.crashes /\ faults \in 0..scene.faults

\* repoLock is never lost and never released twice: whoever the protocol says
\* holds it does, and it is held by nobody else.  An abandoned first build keeps
\* it until it lands (graph.go:421-438, 595-620), Index until its counts are read
\* (946), and an error hands it back on every path, so a process runs at most one
\* first build or forced Index of the repository at a time, abandoned ones included.
NeedsLock(c) ==
  /\ caller[c].mode \in {"ensure", "built"}
  /\ \/ caller[c].pc \in {"stamp", "store", "index", "open", "meta", "foreign", "cold",
                          "coldwait", "retire", "warm"}
     \/ caller[c].pc = "using" /\ caller[c].op = "index"
Abandoned(j) == job[j].kind = "cold" /\ job[j].owner = None /\ Alive(j)
LockFollowsOwner ==
  /\ \A c \in Callers : NeedsLock(c) <=> lock[Home[c]] = c
  /\ \A j \in Jobs, p \in Procs : lock[p] = j <=> Abandoned(j) /\ job[j].proc = p
  /\ \A j, k \in Jobs :
       /\ Alive(j) /\ Alive(k) /\ job[j].proc = job[k].proc
       /\ job[j].kind # "async" /\ job[k].kind # "async"
       => j = k

\* Exactly the registered build of a process is wanted: superseding one cancels
\* it, and a retired one is out of the map before its channel closes.  Whoever
\* retires a build, its channel is closed once: a second close panics
\* (graph.go:197-202).  The state has its shape besides.
RegisteredIsTheLiveBuild ==
  /\ TypeOK
  /\ \A j \in Jobs : job[j].done <= 1
  /\ \A p \in Procs : builds[p] # None =>
       /\ job[builds[p]].kind = "async" /\ job[builds[p]].proc = p
       /\ job[builds[p]].live /\ job[builds[p]].done = 0
  /\ \A j \in Jobs : Alive(j) /\ job[j].kind = "async" /\ job[j].live => builds[job[j].proc] = j

\* "closed exactly once, by whoever retires the state" (graph.go:199-202): a
\* WaitBuild waits on a build that is still registered or already closed its
\* channel, never on one that was dropped without a word.
NoStrandedWaiter ==
  \A c \in Callers : Awaiting(c) => Registered(Home[c], caller[c].job) \/ job[caller[c].job].done > 0

\* A superseded build that already passed its last context check may still rename,
\* but never over the graph of its successor (graph.go:810-814, 917-919): the
\* build lock, where it can be taken, makes the successor wait for it.
SupersededNeverOverwritesSuccessor ==
  faults = 0 => \A j \in Jobs : job[j].beaten /\ ~job[j].live => job[j].phase # "rename"

\* WaitBuild woken by a successful build reads that build's graph or a later one,
\* never the file it replaced (graph.go:350-354).
SettledSeesAwaitedBuild ==
  \A c \in Callers : caller[c].got >= caller[c].least

\* As long as edits never bring back an earlier version, a graph holds every edit
\* its stamp claims: the stamp is taken before the source is read (graph.go:564-607).
LabelNeverAheadOfContent ==
  disk # Absent /\ disk.stamp # Foreign => disk.content >= disk.stamp

\* "failedStamps records the stamp whose build failed.  While the working tree
\* still hashes to that stamp, rebuilding is pointless - it would fail
\* identically" (graph.go:266-270).
SuppressedSourceIsBroken ==
  \A p \in Procs : failed[p] = source => source \in Broken

\* The handle protocol, proved in GraphHandlesProofs, is what this module uses.
HandleProtocol == H!Spec

-----------------------------------------------------------------------------
\* WaitBuild returns although every build hangs (graph.go:699-702).
WaitBuildReturns ==
  \A c \in Callers : caller[c].op = "wait" ~> caller[c].pc = "idle"

\* When edits stop at a version that builds, the graph catches up with it and
\* nobody is served a stale answer any more (graph.go:544-553).
EventuallyFresh ==
  scene.hangs \/ <>[](source \in Broken
        \/ (disk # Absent /\ disk.stamp = source /\ \A c \in Callers : ~caller[c].stale))

\* When edits stop, building stops too, however often agents ask: a fresh graph is
\* not rebuilt, and a stamp that already failed is not relaunched (graph.go:551-553).
EventuallyQuiet == scene.hangs \/ <>[](\A j \in Jobs : ~Alive(j))
=============================================================================
