------------------------- MODULE GraphManagerProofs -------------------------
(***************************************************************************)
(* What GraphManager keeps for every set of processes, callers, builds,    *)
(* handles and versions of the tree, and every scene: first who owns and   *)
(* waits for builds, then what builds publish.                             *)
(***************************************************************************)
EXTENDS GraphManager, TLAPS

HP == INSTANCE GraphHandlesProofs WITH Users <- Callers, NoHandle <- None

-----------------------------------------------------------------------------
(* The shapes of callers and builds.                                       *)

\* Where a caller holds a stamp of the tree.
Stamped == {"store", "index", "open", "meta", "foreign", "cold", "coldwait", "retire", "warm"}

GoodCaller(a) ==
  /\ a \in CallerStates
  /\ a.pc \in {"coldwait", "await"} <=> a.job # None
  /\ a.pc \in Stamped => a.cur \in Versions
  /\ a.mode = "settle" => a.op = "wait" /\ a.pc \in {"stamp", "store", "open", "meta", "using"}
  /\ a.mode = "built" => a.pc \in {"open", "meta", "using"}
  /\ a.pc = "index" => a.op = "index"
  /\ a.pc \in {"open", "meta", "foreign", "cold", "warm", "using"} /\ a.mode = "ensure" => a.op # "index"
  /\ a.pc \in {"look", "await"} => a.op = "wait"

GoodJob(b) ==
  /\ b \in JobStates
  /\ b.phase = "gone" => b.kind = "async" /\ b.proc = None /\ b.live = FALSE /\ b.beaten = FALSE
  /\ b.phase # "gone" => b.proc \in Procs /\ b.stamp \in Versions
  /\ b.phase = "rename" => b.content \in Versions
  /\ b.kind = "async" => b.owner = None /\ b.phase # "retire"
  /\ b.kind = "index" => b.owner # None
  /\ b.kind # "async" => b.phase # "signal" /\ b.done = 0 /\ b.beaten = FALSE
  /\ b.phase = "retire" => b.owner = None

Core ==
  /\ TypeOK /\ scene \in Scenes
  /\ \A c \in Callers : GoodCaller(caller[c])
  /\ \A j \in Jobs : GoodJob(job[j])

-----------------------------------------------------------------------------
(* Who holds what.                                                         *)

\* A first build or Index belongs to the caller that waits for it until it is abandoned.
OwnersInv ==
  /\ \A c \in Callers : caller[c].pc = "coldwait" =>
       LET b == job[caller[c].job] IN
       /\ b.phase # "gone" /\ b.kind # "async" /\ b.owner = c /\ b.proc = Home[c]
       /\ b.kind = "index" <=> caller[c].op = "index"
  /\ \A j \in Jobs : job[j].owner # None =>
       caller[job[j].owner].pc = "coldwait" /\ caller[job[j].owner].job = j

BuildsInv ==
  /\ \A j \in Jobs : job[j].done <= 1
  /\ \A p \in Procs : builds[p] # None =>
       /\ job[builds[p]].kind = "async" /\ job[builds[p]].proc = p
       /\ job[builds[p]].live /\ job[builds[p]].done = 0
  /\ \A j \in Jobs : Alive(j) /\ job[j].kind = "async" /\ job[j].live => builds[job[j].proc] = j
  /\ \A j \in Jobs : job[j].phase = "signal" => builds[job[j].proc] = j

\* What every other invariant builds on.
Main == Core /\ OwnersInv /\ BuildsInv /\ HP!IInv

\* A caller, and an abandoned first build of process p, that must hold repoLock.
Needs(a) ==
  /\ a.mode \in {"ensure", "built"}
  /\ \/ a.pc \in {"stamp", "store", "index", "open", "meta", "foreign", "cold", "coldwait", "retire", "warm"}
     \/ a.pc = "using" /\ a.op = "index"
Claims(b, p) == b.kind = "cold" /\ b.owner = None /\ b.phase # "gone" /\ b.proc = p

HoldsInv ==
  /\ \A c \in Callers : Needs(caller[c]) <=> lock[Home[c]] = c
  /\ \A j \in Jobs, p \in Procs : lock[p] = j <=> Claims(job[j], p)

\* A build that succeeded left a file behind.
FileInv ==
  /\ \A c \in Callers : caller[c].pc = "retire" \/ caller[c].mode = "built" => disk # Absent
  /\ \A j \in Jobs : job[j].phase = "finish" /\ job[j].ok => disk # Absent

\* What a caller that awaits build j is entitled to.
Awaits(c, j) ==
  /\ job[j].phase # "gone" => job[j].kind = "async" /\ job[j].proc = Home[c]
  /\ ~scene.closes => builds[Home[c]] = j \/ job[j].done > 0

WaitersInv ==
  /\ \A p \in Procs : life[p] # "up" => scene.closes
  /\ \A c \in Callers : caller[c].pc = "await" => Awaits(c, caller[c].job)

-----------------------------------------------------------------------------
(* The assumptions of the handle protocol hold here.                       *)

LEMMA HandleAssumptions ==
  /\ HP!IsFiniteSet(Callers) /\ Home \in [Callers -> Procs]
  /\ Handles \subseteq Nat /\ None \notin Handles /\ Absent \notin Files
<1>1. IsFiniteSet(Callers) => HP!IsFiniteSet(Callers)
  BY DEF IsFiniteSet, HP!IsFiniteSet
<1> QED
  BY <1>1, ManagerAssumption, FilesAssumption

\* A step of the protocol, for any file at the path.
LEMMA HandleStep == HP!IInv /\ [HP!Next]_(HP!vars) => HP!IInv'
  BY HP!NextIInv, HandleAssumptions

LEMMA HandleTypes == HP!IInv => H!TypeOK
  BY DEF HP!IInv, HP!TypeOK, H!TypeOK, HP!Entries, H!Entries

\* The bounds of a scene.
LEMMA Bounds ==
  ASSUME scene \in Scenes
  PROVE  /\ scene.edits \in Nat /\ scene.crashes \in Nat /\ scene.faults \in Nat
         /\ scene.inos \in 0 .. MaxIno /\ MaxIno \in Nat
         /\ scene.versions \subseteq Versions /\ scene.starts \subseteq scene.versions
         /\ \A c \in Callers : scene.ops[c] \subseteq {"query", "wait", "index"}
<1>1. scene.ops \in [Callers -> SUBSET {"query", "wait", "index"}]
  BY ManagerAssumption
<1>2. \A c \in Callers : scene.ops[c] \in SUBSET {"query", "wait", "index"}
  BY <1>1
<1>3. {scene.edits, scene.crashes, scene.faults} \subseteq Nat
  BY ManagerAssumption
<1> QED
  BY <1>2, <1>3, ManagerAssumption

-----------------------------------------------------------------------------
(* Callers.                                                                *)

LEMMA IdleGood == GoodCaller(Idle)
BY ManagerAssumption DEF Idle, GoodCaller, CallerStates, Stamped

\* A WaitBuild that has settled.
Settled(least) == [Idle EXCEPT !.pc = "stamp", !.op = "wait", !.mode = "settle", !.least = least]

LEMMA SettledGood ==
  ASSUME NEW n \in 0 .. MaxIno
  PROVE  GoodCaller(Settled(n))
<1>1. Settled(n) \in CallerStates
  BY IdleGood DEF Settled, GoodCaller, CallerStates
<1>2. /\ Settled(n).pc = "stamp" /\ Settled(n).op = "wait" /\ Settled(n).mode = "settle"
      /\ Settled(n).job = None
  BY DEF Settled, Idle
<1> QED
  BY <1>1, <1>2 DEF GoodCaller, Stamped

\* What a caller that moves turns into.
Becomes(c) == \E a : GoodCaller(a) /\ caller' = [caller EXCEPT ![c] = a]

LEMMA CallerEnds ==
  ASSUME NEW c \in Callers, Core
  PROVE  /\ Return(c) => Becomes(c)
         /\ CutShort(c) => Becomes(c)
         /\ \A n \in 0 .. MaxIno : Settle(c, n) => Becomes(c)
<1>1. 0 \in 0 .. MaxIno
  BY ManagerAssumption
<1> QED
  BY <1>1, IdleGood, SettledGood DEF Return, CutShort, Settle, Settled, Becomes

LEMMA CallerGoes ==
  ASSUME NEW c \in Callers, Core, NEW pc, Goto(c, pc),
         GoodCaller([caller[c] EXCEPT !.pc = pc])
  PROVE  Becomes(c)
BY DEF Goto, Becomes

LEMMA ArrivalTypes ==
  ASSUME Core, NEW c \in Callers, Calls(c) \/ AcquireLock(c) \/ GiveUpLock(c)
  PROVE  Becomes(c)
<1>1. GoodCaller(caller[c])
  BY DEF Core
<1>2. ASSUME NEW op \in scene.ops[c], Call(c, op)
      PROVE  Becomes(c)
  <2>1. op \in {"query", "wait", "index"}
    BY Bounds DEF Core
  <2>2. ASSUME NEW pc \in {"stamp", "queued"}
        PROVE  GoodCaller([Idle EXCEPT !.pc = pc, !.op = op])
    <3> DEFINE a == [Idle EXCEPT !.pc = pc, !.op = op]
    <3>1. a \in CallerStates
      BY <2>1, IdleGood DEF GoodCaller, CallerStates
    <3>2. a.pc = pc /\ a.mode = "ensure" /\ a.job = None
      BY DEF Idle
    <3> HIDE DEF a
    <3>3. GoodCaller(a)
      BY <3>1, <3>2 DEF GoodCaller, Stamped
    <3> QED
      BY <3>3 DEF a
  <2>3. \E pc \in {"stamp", "queued"} : caller' = [caller EXCEPT ![c] = [Idle EXCEPT !.pc = pc, !.op = op]]
    BY <1>2 DEF Call
  <2> QED
    BY <2>2, <2>3 DEF Becomes
<1>3. CASE AcquireLock(c)
  <2>1. Goto(c, "stamp") /\ caller[c].pc = "queued"
    BY <1>3 DEF AcquireLock
  <2>2. GoodCaller([caller[c] EXCEPT !.pc = "stamp"])
    BY <1>1, <2>1 DEF GoodCaller, CallerStates, Stamped
  <2> QED
    BY <2>1, <2>2, CallerGoes
<1>4. CASE GiveUpLock(c)
  BY <1>4, CallerEnds DEF GiveUpLock
<1> QED
  BY <1>2, <1>3, <1>4 DEF Calls

LEMMA StampTypes ==
  ASSUME Core, NEW c \in Callers, cachedStamp(c) \/ StoreStamp(c) \/ StampFails(c)
  PROVE  Becomes(c)
<1> DEFINE cl == caller[c]
<1>1. GoodCaller(cl) /\ Home[c] \in Procs
  BY ManagerAssumption DEF Core
<1>2. /\ AfterStamp(c) \in {"index", "open"}
      /\ AfterStamp(c) = "index" <=> cl.op = "index" /\ cl.mode = "ensure"
  BY DEF AfterStamp
<1>3. CASE cachedStamp(c)
  <2>1. PICK s, pc : /\ caller' = [caller EXCEPT ![c] = [cl EXCEPT !.cur = s, !.pc = pc]]
                     /\ ((s = stampCache[Home[c]] /\ s # None) \/ s = source)
                     /\ pc \in {AfterStamp(c), "store"} /\ cl.pc = "stamp"
    <3> DEFINE hit == stampCache[Home[c]] # None
               st == IF hit THEN stampCache[Home[c]] ELSE source
               to == IF hit THEN AfterStamp(c) ELSE "store"
    <3>1. caller' = [caller EXCEPT ![c].cur = st, ![c].pc = to] /\ cl.pc = "stamp"
      BY <1>3 DEF cachedStamp
    <3>2. caller' = [caller EXCEPT ![c] = [cl EXCEPT !.cur = st, !.pc = to]]
      BY <3>1
    <3> QED
      BY <3>1, <3>2
  <2>2. s \in Versions
    BY <1>1, <2>1 DEF Core, TypeOK
  <2>3. GoodCaller([cl EXCEPT !.cur = s, !.pc = pc])
    BY <1>1, <1>2, <2>1, <2>2 DEF GoodCaller, CallerStates, Stamped
  <2> QED
    BY <2>1, <2>3 DEF Becomes
<1>4. CASE StoreStamp(c)
  <2>1. Goto(c, AfterStamp(c)) /\ cl.pc = "store"
    BY <1>4 DEF StoreStamp
  <2>2. GoodCaller([cl EXCEPT !.pc = AfterStamp(c)])
    BY <1>1, <1>2, <2>1 DEF GoodCaller, CallerStates, Stamped
  <2> QED
    BY <2>1, <2>2, CallerGoes
<1>5. CASE StampFails(c)
  BY <1>5, CallerEnds DEF StampFails, Fail
<1> QED
  BY <1>3, <1>4, <1>5

LEMMA ReadingTypes ==
  ASSUME Core, NEW c \in Callers,
         Open(c) \/ OpenFails(c) \/ ReadMeta(c) \/ DropForeign(c) \/ RetireHandle(c)
  PROVE  Becomes(c)
<1> DEFINE cl == caller[c]
<1>1. GoodCaller(cl) /\ Home[c] \in Procs
  BY ManagerAssumption DEF Core
<1>2. CASE Open(c)
  <2>1. cl.pc = "open"
    BY <1>2 DEF Open
  <2>2. cl.mode = "ensure" => GoodCaller([cl EXCEPT !.pc = "cold"])
    BY <1>1, <2>1 DEF GoodCaller, CallerStates, Stamped
  <2>3. GoodCaller([cl EXCEPT !.pc = "meta"])
    BY <1>1, <2>1 DEF GoodCaller, CallerStates, Stamped
  <2>4. \/ Goto(c, "cold") /\ cl.mode = "ensure"
        \/ Return(c)
        \/ Goto(c, "meta")
    BY <1>2 DEF Open
  <2> QED
    BY <2>2, <2>3, <2>4, CallerEnds, CallerGoes
<1>3. CASE ReadMeta(c)
  <2>0. PICK f \in Files : \E next, cur, got :
          /\ caller' = [caller EXCEPT ![c] = [cl EXCEPT !.pc = next, !.cur = cur, !.got = got]]
          /\ got \in {f.ino, cl.got} /\ cl.pc = "meta"
          /\ next \in {"using", "foreign", "warm"} /\ cur \in {None, cl.cur}
          /\ next # "using" => cl.mode = "ensure" /\ cur = cl.cur
    <3> DEFINE nx(f) == IF cl.mode # "ensure" \/ f.stamp = cl.cur THEN "using"
                        ELSE IF f.stamp = Foreign THEN "foreign" ELSE "warm"
               cu(f) == IF nx(f) = "using" THEN None ELSE cl.cur
               go(f) == IF cl.mode = "settle" THEN f.ino ELSE cl.got
    <3>1. cl.mode \in {"ensure", "built", "settle"}
      BY <1>1 DEF GoodCaller, CallerStates
    <3>0. PICK f \in Files :
            caller' = [caller EXCEPT ![c].pc = nx(f), ![c].cur = IF nx(f) = "using" THEN None ELSE @,
                                     ![c].got = IF cl.mode = "settle" THEN f.ino ELSE @]
      BY <1>3 DEF ReadMeta
    <3>2. caller' = [caller EXCEPT ![c] = [cl EXCEPT !.pc = nx(f), !.cur = cu(f), !.got = go(f)]]
      BY <3>0
    <3>3. /\ go(f) \in {f.ino, cl.got}
          /\ nx(f) \in {"using", "foreign", "warm"} /\ cu(f) \in {None, cl.cur}
          /\ nx(f) # "using" => cl.mode = "ensure" /\ cu(f) = cl.cur
      OBVIOUS
    <3>4. cl.pc = "meta"
      BY <1>3 DEF ReadMeta
    <3> HIDE DEF nx, cu, go
    <3> QED
      BY <3>2, <3>3, <3>4
  <2>1. PICK next, cur, got :
          /\ caller' = [caller EXCEPT ![c] = [cl EXCEPT !.pc = next, !.cur = cur, !.got = got]]
          /\ got \in {f.ino, cl.got} /\ cl.pc = "meta"
          /\ next \in {"using", "foreign", "warm"} /\ cur \in {None, cl.cur}
          /\ next # "using" => cl.mode = "ensure" /\ cur = cl.cur
    BY <2>0
  <2>2. f.ino \in 0 .. MaxIno
    BY DEF Files
  <2>3. [cl EXCEPT !.pc = next, !.cur = cur, !.got = got] \in CallerStates
    BY <1>1, <2>1, <2>2 DEF GoodCaller, CallerStates
  <2>4. GoodCaller([cl EXCEPT !.pc = next, !.cur = cur, !.got = got])
    BY <1>1, <2>1, <2>3 DEF GoodCaller, CallerStates, Stamped
  <2> QED
    BY <2>1, <2>4 DEF Becomes
<1>4. CASE DropForeign(c)
  <2>1. Goto(c, "cold") /\ cl.pc = "foreign"
    BY <1>4 DEF DropForeign
  <2>2. GoodCaller([cl EXCEPT !.pc = "cold"])
    BY <1>1, <2>1 DEF GoodCaller, CallerStates, Stamped
  <2> QED
    BY <2>1, <2>2, CallerGoes
<1>5. CASE RetireHandle(c)
  <2>1. caller' = [caller EXCEPT ![c] = [cl EXCEPT !.pc = "open", !.mode = "built"]] /\ cl.pc = "retire"
    BY <1>5 DEF RetireHandle
  <2>2. GoodCaller([cl EXCEPT !.pc = "open", !.mode = "built"])
    BY <1>1, <2>1 DEF GoodCaller, CallerStates, Stamped
  <2> QED
    BY <2>1, <2>2 DEF Becomes
<1>6. CASE OpenFails(c)
  <2>1. cl.pc \in {"open", "meta"}
    BY <1>6 DEF OpenFails
  <2>2. cl.mode = "ensure" => GoodCaller([cl EXCEPT !.pc = "cold"])
    BY <1>1, <2>1 DEF GoodCaller, CallerStates, Stamped
  <2>3. \/ Goto(c, "cold") /\ cl.mode = "ensure"
        \/ Fail(c)
    BY <1>6 DEF OpenFails
  <2> QED
    BY <2>2, <2>3, CallerEnds, CallerGoes DEF Fail
<1> QED
  BY <1>2, <1>3, <1>4, <1>5, <1>6

LEMMA BuildingTypes ==
  ASSUME Core, NEW c \in Callers,
         ReportKnownFailure(c) \/ ColdBuild(c) \/ Index(c) \/ finishColdBuild(c) \/ Abandon(c)
  PROVE  Becomes(c)
<1> DEFINE cl == caller[c]
<1>1. GoodCaller(cl)
  BY DEF Core
<1>2. CASE ReportKnownFailure(c)
  BY <1>2, CallerEnds DEF ReportKnownFailure
<1>3. CASE ColdBuild(c) \/ Index(c)
  <2>1. PICK j \in Jobs : caller' = [caller EXCEPT ![c] = [cl EXCEPT !.pc = "coldwait", !.job = j]]
    BY <1>3 DEF ColdBuild, Index, Launch
  <2>2. cl.pc \in {"cold", "index"}
    BY <1>3 DEF ColdBuild, Index
  <2>3. j # None
    BY ManagerAssumption
  <2>4. GoodCaller([cl EXCEPT !.pc = "coldwait", !.job = j])
    BY <1>1, <2>2, <2>3 DEF GoodCaller, CallerStates, Stamped
  <2> QED
    BY <2>1, <2>4 DEF Becomes
<1>4. CASE finishColdBuild(c)
  <2>1. cl.pc = "coldwait"
    BY <1>4 DEF finishColdBuild
  <2>2. \/ caller' = [caller EXCEPT ![c] = [cl EXCEPT !.pc = "retire", !.job = None]]
        \/ CutShort(c)
    BY <1>4 DEF finishColdBuild
  <2>3. GoodCaller([cl EXCEPT !.pc = "retire", !.job = None])
    BY <1>1, <2>1 DEF GoodCaller, CallerStates, Stamped
  <2> QED
    BY <2>2, <2>3, CallerEnds DEF Becomes
<1>5. CASE Abandon(c)
  BY <1>5, CallerEnds DEF Abandon
<1> QED
  BY <1>2, <1>3, <1>4, <1>5

LEMMA ServingTypes ==
  ASSUME Core, NEW c \in Callers, Attach(c) \/ ServeKnownFailure(c) \/ LaunchAsync(c) \/ Release(c)
  PROVE  Becomes(c)
<1> DEFINE cl == caller[c]
<1>1. GoodCaller(cl)
  BY DEF Core
<1>2. CASE Attach(c) \/ ServeKnownFailure(c) \/ LaunchAsync(c)
  <2>1. /\ caller' = [caller EXCEPT ![c] = [cl EXCEPT !.pc = "using", !.cur = None, !.stale = TRUE]]
        /\ cl.pc = "warm"
    BY <1>2 DEF Attach, ServeKnownFailure, LaunchAsync, ServeStale
  <2>2. GoodCaller([cl EXCEPT !.pc = "using", !.cur = None, !.stale = TRUE])
    BY <1>1, <2>1 DEF GoodCaller, CallerStates, Stamped
  <2> QED
    BY <2>1, <2>2 DEF Becomes
<1>3. CASE Release(c)
  <2>1. cl.pc = "using"
    BY <1>3 DEF Release
  <2>2. Return(c) \/ (Goto(c, "look") /\ cl.op = "wait" /\ cl.mode = "ensure")
    BY <1>3 DEF Release
  <2>3. cl.op = "wait" /\ cl.mode = "ensure" => GoodCaller([cl EXCEPT !.pc = "look"])
    BY <1>1, <2>1 DEF GoodCaller, CallerStates, Stamped
  <2> QED
    BY <2>2, <2>3, CallerEnds, CallerGoes
<1> QED
  BY <1>2, <1>3

LEMMA WaitingTypes ==
  ASSUME Core, NEW c \in Callers, LookForBuild(c) \/ Wake(c) \/ TimeOut(c)
  PROVE  Becomes(c)
<1> DEFINE cl == caller[c]
<1>1. GoodCaller(cl) /\ Home[c] \in Procs /\ 0 \in 0 .. MaxIno
  BY ManagerAssumption DEF Core
<1>2. CASE LookForBuild(c)
  <2> DEFINE j == builds[Home[c]]
  <2>1. cl.pc = "look"
    BY <1>2 DEF LookForBuild
  <2>2. Settle(c, 0) \/ (j # None /\ caller' = [caller EXCEPT ![c] = [cl EXCEPT !.pc = "await", !.job = j]])
    BY <1>2 DEF LookForBuild
  <2>3. j \in Jobs \cup {None}
    BY <1>1 DEF Core, TypeOK
  <2>4. j # None => GoodCaller([cl EXCEPT !.pc = "await", !.job = j])
    BY <1>1, <2>1, <2>3 DEF GoodCaller, CallerStates, Stamped
  <2> QED
    BY <1>1, <2>2, <2>4, CallerEnds DEF Becomes
<1>3. CASE Wake(c)
  <2>1. cl.job \in Jobs
    BY <1>1, <1>3 DEF Wake, GoodCaller, CallerStates
  <2>2. job[cl.job].out \in 0 .. MaxIno
    BY <2>1 DEF Core, GoodJob, JobStates
  <2> QED
    BY <1>1, <1>3, <2>2, CallerEnds DEF Wake
<1>4. CASE TimeOut(c)
  BY <1>1, <1>4, CallerEnds DEF TimeOut
<1> QED
  BY <1>2, <1>3, <1>4

\* A caller moves: one step of its own.
Moves(c) == Calls(c) \/ CallerStep(c) \/ Deadline(c) \/ CancelIndex(c) \/ CallFault(c)

\* What a job does: a step of its own.
Works(j) == JobStep(j) \/ LockUnavailable(j) \/ BuildFault(j)

\* What happens around them, short of a crash.
Environs == Edit \/ \E p \in Procs : StampExpires(p) \/ CloseHandles(p) \/ CloseBuilds(p)

LEMMA NextCases ==
  ASSUME Next
  PROVE  \/ \E c \in Callers : Moves(c)
         \/ \E j \in Jobs : Works(j)
         \/ Environs
         \/ \E p \in Procs : Crash(p)
BY DEF Next, Moves, Works, Environs

LEMMA MoverTypes ==
  ASSUME Core, NEW c \in Callers, Moves(c)
  PROVE  UNCHANGED caller \/ Becomes(c)
BY ArrivalTypes, StampTypes, ReadingTypes, BuildingTypes, ServingTypes, WaitingTypes
   DEF Moves, CallerStep, Deadline, CancelIndex, CallFault

LEMMA OthersKeepCallers ==
  /\ \A j \in Jobs : Works(j) => UNCHANGED caller
  /\ Environs => UNCHANGED caller
<1>1. \A j \in Jobs : JobStep(j) => UNCHANGED caller
  BY DEF JobStep, TryFlock, GiveUpFlock, buildIndex, Rename, Discard, FailAsync, SucceedAsync, Signal,
         RecordAbandoned, RetireAbandoned
<1>2. \A j \in Jobs : LockUnavailable(j) \/ BuildFault(j) => UNCHANGED caller
  BY DEF LockUnavailable, BuildFault
<1>3. Environs => UNCHANGED caller
  BY DEF Environs, Edit, StampExpires, CloseHandles, CloseBuilds
<1> QED
  BY <1>1, <1>2, <1>3 DEF Works

LEMMA CallerTypes ==
  ASSUME Core, Next
  PROVE  caller' \in [Callers -> CallerStates] /\ \A c \in Callers : GoodCaller(caller'[c])
<1>1. caller \in [Callers -> CallerStates] /\ \A c \in Callers : GoodCaller(caller[c])
  BY DEF Core, TypeOK
<1>2. ASSUME NEW c \in Callers, Becomes(c)
      PROVE  caller' \in [Callers -> CallerStates] /\ \A d \in Callers : GoodCaller(caller'[d])
  <2>1. PICK a : GoodCaller(a) /\ caller' = [caller EXCEPT ![c] = a]
    BY <1>2 DEF Becomes
  <2>2. a \in CallerStates
    BY <2>1 DEF GoodCaller
  <2> QED
    BY <1>1, <2>1, <2>2
<1>3. ASSUME NEW p \in Procs, Crash(p)
      PROVE  caller' \in [Callers -> CallerStates] /\ \A d \in Callers : GoodCaller(caller'[d])
  <2>1. caller' = [c \in Callers |-> IF Home[c] = p THEN Idle ELSE caller[c]]
    BY <1>3 DEF Crash
  <2>2. Idle \in CallerStates /\ GoodCaller(Idle)
    BY IdleGood DEF GoodCaller
  <2> QED
    BY <1>1, <2>1, <2>2
<1> QED
  BY <1>1, <1>2, <1>3, NextCases, MoverTypes, OthersKeepCallers

-----------------------------------------------------------------------------
(* Builds.                                                                 *)

LEMMA GoneGood == GoodJob(Gone)
BY ManagerAssumption DEF Gone, GoodJob, JobStates

LEMMA NewJobGood ==
  ASSUME NEW p \in Procs, NEW k \in {"cold", "async", "index"}, NEW c \in Callers \cup {None},
         NEW s \in Versions, k = "async" => c = None, k = "index" => c # None
  PROVE  GoodJob(NewJob(p, k, c, s))
<1> DEFINE b == NewJob(p, k, c, s)
<1>1. b \in JobStates
  BY GoneGood DEF NewJob, GoodJob, JobStates
<1>2. /\ b.phase = "flock" /\ b.kind = k /\ b.owner = c /\ b.proc = p /\ b.stamp = s
      /\ b.done = 0 /\ b.beaten = FALSE
  BY DEF NewJob, Gone
<1> HIDE DEF b
<1>3. GoodJob(b)
  BY <1>1, <1>2 DEF GoodJob
<1> QED
  BY <1>3 DEF b

LEMMA EndedGood ==
  ASSUME Core, NEW j \in Jobs, NEW d \in 0 .. 2, NEW o \in 0 .. MaxIno
  PROVE  GoodJob(Ended(j, d, o))
<1> DEFINE b == [Gone EXCEPT !.done = d, !.out = o]
<1>1. b \in JobStates
  BY GoneGood DEF GoodJob, JobStates
<1>2. /\ b.phase = "gone" /\ b.kind = "async" /\ b.owner = None /\ b.proc = None
      /\ b.live = FALSE /\ b.beaten = FALSE
  BY DEF Gone
<1> HIDE DEF b
<1>3. GoodJob(b)
  BY <1>1, <1>2 DEF GoodJob
<1> QED
  BY <1>3, GoneGood DEF b, Ended

\* A cancelled build.
LEMMA CancelledGood ==
  ASSUME NEW b, GoodJob(b)
  PROVE  GoodJob([b EXCEPT !.live = FALSE])
<1> DEFINE d == [b EXCEPT !.live = FALSE]
<1>1. b \in JobStates
  BY DEF GoodJob
<1>2. d \in JobStates
  BY <1>1 DEF JobStates
<1>3. /\ d.phase = b.phase /\ d.kind = b.kind /\ d.proc = b.proc /\ d.stamp = b.stamp
      /\ d.content = b.content /\ d.owner = b.owner /\ d.done = b.done /\ d.beaten = b.beaten
      /\ d.live = FALSE
  BY <1>1 DEF JobStates
<1> HIDE DEF d
<1>4. GoodJob(d)
  BY <1>2, <1>3 DEF GoodJob
<1> QED
  BY <1>4 DEF d

\* The file a build publishes.
LEMMA NextInoTypes ==
  ASSUME Core
  PROVE  NextIno \in 0 .. MaxIno
<1>1. scene.inos \in 0 .. MaxIno /\ MaxIno \in Nat
  BY Bounds DEF Core
<1>2. disk # Absent => disk.ino \in 0 .. MaxIno
  BY DEF Core, TypeOK, Files
<1> QED
  BY <1>1, <1>2 DEF NextIno

\* What never changes while a build goes on, and where it may not get.
Continues(a, b) ==
  /\ b.kind = a.kind /\ b.proc = a.proc /\ b.owner = a.owner /\ b.stamp = a.stamp
  /\ b.live = a.live /\ b.done = a.done
  /\ \A phase \in {"gone", "signal", "retire"} : b.phase = phase <=> a.phase = phase

Builds(j) ==
  TryFlock(j) \/ GiveUpFlock(j) \/ LockUnavailable(j) \/ buildIndex(j) \/ BuildFault(j) \/ Rename(j)

LEMMA OutcomeGood ==
  ASSUME Core, NEW j \in Jobs, NEW ok \in BOOLEAN, NEW out \in 0 .. MaxIno, Outcome(j, ok, out),
         job[j].phase \in {"flock", "load", "rename"}
  PROVE  \E b : GoodJob(b) /\ Continues(job[j], b) /\ job' = [job EXCEPT ![j] = b]
<1> DEFINE b == [job[j] EXCEPT !.phase = "finish", !.content = None, !.ok = ok, !.out = out]
<1>1. job' = [job EXCEPT ![j] = b]
  BY DEF Outcome
<1>2. GoodJob(job[j])
  BY DEF Core
<1>3. b \in JobStates
  BY <1>2 DEF GoodJob, JobStates
<1>4. GoodJob(b)
  BY <1>2, <1>3 DEF GoodJob, JobStates
<1>5. Continues(job[j], b)
  BY <1>2 DEF GoodJob, JobStates, Continues
<1> HIDE DEF b
<1> QED
  BY <1>1, <1>4, <1>5

LEMMA LoadGood ==
  ASSUME Core, NEW j \in Jobs, job[j].phase = "flock", job' = [job EXCEPT ![j].phase = "load"]
  PROVE  \E b : GoodJob(b) /\ Continues(job[j], b) /\ job' = [job EXCEPT ![j] = b]
<1> DEFINE b == [job[j] EXCEPT !.phase = "load"]
<1>1. job' = [job EXCEPT ![j] = b]
  OBVIOUS
<1>2. GoodJob(job[j])
  BY DEF Core
<1>3. b \in JobStates
  BY <1>2 DEF GoodJob, JobStates
<1>4. GoodJob(b)
  BY <1>2, <1>3 DEF GoodJob, JobStates
<1>5. Continues(job[j], b)
  BY <1>2 DEF GoodJob, JobStates, Continues
<1> HIDE DEF b
<1> QED
  BY <1>1, <1>4, <1>5

LEMMA BuildsEffect ==
  ASSUME Core, NEW j \in Jobs, Builds(j)
  PROVE  /\ job' \in [Jobs -> JobStates]
         /\ \A k \in Jobs : GoodJob(job'[k]) /\ Continues(job[k], job'[k])
         /\ UNCHANGED <<conns, entry, held, lock, stampCache, builds, failed, life, caller>>
<1>1. /\ job \in [Jobs -> JobStates] /\ \A k \in Jobs : GoodJob(job[k]) /\ Continues(job[k], job[k])
      /\ disk \in Files \cup {Absent} /\ 0 \in 0 .. MaxIno /\ source \in Versions
  BY ManagerAssumption DEF Core, TypeOK, Continues
<1>2. UNCHANGED <<conns, entry, held, lock, stampCache, builds, failed, life, caller>>
  BY DEF Builds, TryFlock, GiveUpFlock, LockUnavailable, buildIndex, BuildFault, Rename, handleVars, procVars
<1>3. ASSUME NEW b, GoodJob(b), Continues(job[j], b), job' = [job EXCEPT ![j] = b]
      PROVE  job' \in [Jobs -> JobStates] /\ \A k \in Jobs : GoodJob(job'[k]) /\ Continues(job[k], job'[k])
  BY <1>1, <1>3 DEF GoodJob
<1> DEFINE Good == \E b : GoodJob(b) /\ Continues(job[j], b) /\ job' = [job EXCEPT ![j] = b]
<1>4. CASE TryFlock(j)
  <2>1. CASE Outcome(j, TRUE, disk.ino) /\ disk # Absent
    <3>1. disk.ino \in 0 .. MaxIno
      BY <1>1, <2>1 DEF Files
    <3>2. job[j].phase = "flock"
      BY <1>4 DEF TryFlock
    <3> QED
      BY <1>2, <1>3, <2>1, <3>1, <3>2, OutcomeGood
  <2>2. CASE job' = [job EXCEPT ![j].phase = "load"]
    <3>1. job[j].phase = "flock"
      BY <1>4 DEF TryFlock
    <3> QED
      BY <1>2, <1>3, <2>2, <3>1, LoadGood
  <2> QED
    BY <1>4, <2>1, <2>2 DEF TryFlock
<1>5. CASE GiveUpFlock(j) \/ BuildFault(j)
  <2>1. Outcome(j, FALSE, 0) /\ job[j].phase \in {"flock", "load", "rename"}
    BY <1>5 DEF GiveUpFlock, BuildFault
  <2> QED
    BY <1>1, <1>2, <1>3, <2>1, OutcomeGood
<1>6. CASE LockUnavailable(j)
  BY <1>2, <1>3, <1>6, LoadGood DEF LockUnavailable
<1>7. CASE buildIndex(j)
  <2>1. CASE Outcome(j, FALSE, 0)
    <3>1. job[j].phase = "load"
      BY <1>7 DEF buildIndex
    <3> QED
      BY <1>1, <1>2, <1>3, <2>1, <3>1, OutcomeGood
  <2>2. CASE job' = [job EXCEPT ![j].phase = "rename", ![j].content = source]
    <3> DEFINE b == [job[j] EXCEPT !.phase = "rename", !.content = source]
    <3>1. job[j].phase = "load"
      BY <1>7 DEF buildIndex
    <3>2. job' = [job EXCEPT ![j] = b]
      BY <2>2
    <3>3. b \in JobStates
      <4>1. job[j] \in JobStates /\ source \in Versions
        BY <1>1
      <4> QED
        BY <4>1 DEF JobStates
    <3>4. GoodJob(b)
      BY <1>1, <3>1, <3>3 DEF GoodJob, JobStates
    <3>5. Continues(job[j], b)
      BY <1>1, <3>1 DEF JobStates, Continues
    <3> HIDE DEF b
    <3> QED
      BY <1>2, <1>3, <3>2, <3>4, <3>5
  <2> QED
    BY <1>7, <2>1, <2>2 DEF buildIndex
<1>8. CASE Rename(j)
  <2> DEFINE over == [job[j] EXCEPT !.phase = "finish", !.content = None, !.ok = TRUE, !.out = NextIno]
             Beats(k) == builds[job[j].proc] = j /\ job[k].kind = "async" /\ job[k].proc = job[j].proc
                         /\ job[k].phase # "gone"
  <2>1. job[j].phase = "rename"
    BY <1>8 DEF Rename
  <2>2. job' = [k \in Jobs |-> IF k = j THEN over
                 ELSE IF Beats(k) THEN [job[k] EXCEPT !.beaten = TRUE] ELSE job[k]]
    BY <1>8 DEF Rename
  <2>3. over \in JobStates
    <3>1. job[j] \in JobStates /\ NextIno \in 0 .. MaxIno
      BY <1>1, NextInoTypes
    <3> QED
      BY <3>1 DEF JobStates
  <2>4. GoodJob(over) /\ Continues(job[j], over)
    BY <1>1, <2>1, <2>3 DEF GoodJob, JobStates, Continues
  <2>5. ASSUME NEW k \in Jobs, Beats(k)
        PROVE  LET b == [job[k] EXCEPT !.beaten = TRUE] IN
               b \in JobStates /\ GoodJob(b) /\ Continues(job[k], b)
    <3> DEFINE b == [job[k] EXCEPT !.beaten = TRUE]
    <3>1. b \in JobStates
      <4>1. job[k] \in JobStates
        BY <1>1
      <4> QED
        BY <4>1 DEF JobStates
    <3>2. GoodJob(b)
      BY <1>1, <2>5, <3>1 DEF GoodJob, JobStates
    <3>3. Continues(job[k], b)
      BY <1>1 DEF JobStates, Continues
    <3> QED
      BY <3>1, <3>2, <3>3
  <2>6. ASSUME NEW k \in Jobs
        PROVE  job'[k] \in JobStates /\ GoodJob(job'[k]) /\ Continues(job[k], job'[k])
    <3>1. CASE k = j
      <4>1. job'[k] = over
        BY <2>2, <3>1
      <4> QED
        BY <2>3, <2>4, <3>1, <4>1
    <3>2. CASE k # j /\ Beats(k)
      <4>1. job'[k] = [job[k] EXCEPT !.beaten = TRUE]
        BY <2>2, <3>2
      <4> QED
        BY <2>5, <3>2, <4>1
    <3>3. CASE k # j /\ ~Beats(k)
      <4>1. job'[k] = job[k]
        BY <2>2, <3>3
      <4> QED
        BY <1>1, <4>1
    <3> QED
      BY <3>1, <3>2, <3>3
  <2>7. job' \in [Jobs -> JobStates]
    <3> HIDE DEF over, Beats
    <3> QED
      BY <2>2, <2>6
  <2> QED
    BY <1>2, <2>6, <2>7
<1> QED
  BY <1>4, <1>5, <1>6, <1>7, <1>8 DEF Builds

\* A superseded build is cancelled and its channel closed, the others go on.
LEMMA SupersededEffect ==
  ASSUME Core, BuildsInv, NEW p \in Procs
  PROVE  /\ Superseded(p) \in [Jobs -> JobStates]
         /\ \A k \in Jobs :
              /\ GoodJob(Superseded(p)[k])
              /\ k # builds[p] => Superseded(p)[k] = job[k]
              /\ k = builds[p] =>
                   Superseded(p)[k] = [job[k] EXCEPT !.live = FALSE, !.done = 1]
<1>1. job \in [Jobs -> JobStates] /\ \A k \in Jobs : GoodJob(job[k])
  BY DEF Core, TypeOK
<1>2. builds[p] \in Jobs \cup {None} /\ None \notin Jobs
  BY ManagerAssumption DEF Core, TypeOK
<1>3. CASE builds[p] = None
  BY <1>1, <1>2, <1>3 DEF Superseded
<1>4. CASE builds[p] # None
  <2> DEFINE b == [job[builds[p]] EXCEPT !.live = FALSE, !.done = 1]
  <2>1. /\ builds[p] \in Jobs /\ job[builds[p]].done = 0 /\ job[builds[p]].kind = "async"
        /\ job[builds[p]].live
    BY <1>2, <1>4 DEF BuildsInv
  <2>2. Superseded(p) = [job EXCEPT ![builds[p]] = b]
    <3>1. 0 + 1 = 1
      OBVIOUS
    <3>2. Superseded(p) = [job EXCEPT ![builds[p]].live = FALSE, ![builds[p]].done = @ + 1]
      BY <1>4 DEF Superseded
    <3> QED
      BY <1>1, <2>1, <3>1, <3>2
  <2>3. b \in JobStates
    <3>1. job[builds[p]] \in JobStates /\ 1 \in 0 .. 2
      BY <1>1, <2>1
    <3> QED
      BY <3>1 DEF JobStates
  <2>4. GoodJob(b)
    BY <1>1, <2>1, <2>3 DEF GoodJob, JobStates
  <2> HIDE DEF b
  <2>5. ASSUME NEW k \in Jobs
        PROVE  /\ k # builds[p] => Superseded(p)[k] = job[k]
               /\ k = builds[p] => Superseded(p)[k] = b
    BY <1>1, <2>1, <2>2
  <2>6. Superseded(p) \in [Jobs -> JobStates]
    BY <1>1, <2>2, <2>3
  <2> QED
    BY <1>1, <2>4, <2>5, <2>6 DEF b
<1> QED
  BY <1>3, <1>4

\* What launches, ends, cancels or forgets a build changes one entry, besides the
\* one it supersedes.
Replaces(j) == \E b : GoodJob(b) /\ job' = [job EXCEPT ![j] = b]

LEMMA ReplacedTypes ==
  ASSUME Core, NEW j \in Jobs, Replaces(j)
  PROVE  job' \in [Jobs -> JobStates] /\ \A k \in Jobs : GoodJob(job'[k])
BY DEF Core, TypeOK, Replaces, GoodJob

\* The build a caller waits for.
LEMMA Waited ==
  ASSUME Main, NEW c \in Callers
  PROVE  /\ Home[c] \in Procs
         /\ caller[c].pc \in {"coldwait", "await"} => caller[c].job \in Jobs
         /\ caller[c].pc = "coldwait" => job[caller[c].job].kind # "async"
         /\ caller[c].pc = "warm" => caller[c].cur \in Versions
         /\ caller[c].pc \in {"cold", "index"} => caller[c].cur \in Versions
<1>1. GoodCaller(caller[c])
  BY DEF Main, Core
<1>2. caller[c].pc \in Stamped => caller[c].cur \in Versions
  BY <1>1 DEF GoodCaller
<1> QED
  BY <1>1, <1>2, ManagerAssumption DEF GoodCaller, CallerStates, Main, OwnersInv, Stamped

LEMMA LaunchingTypes ==
  ASSUME Main, NEW c \in Callers, ColdBuild(c) \/ Index(c) \/ LaunchAsync(c) \/ ServeKnownFailure(c)
  PROVE  job' \in [Jobs -> JobStates] /\ \A k \in Jobs : GoodJob(job'[k])
<1>1. None \notin Callers /\ Home[c] \in Procs
  BY Waited, ManagerAssumption
<1>2. ASSUME NEW kind \in {"cold", "index"}, Launch(c, kind), caller[c].cur \in Versions
      PROVE  \E j \in Jobs : Replaces(j)
  <2>1. PICK j \in Jobs : job' = [job EXCEPT ![j] = NewJob(Home[c], kind, c, caller[c].cur)]
    BY <1>2 DEF Launch
  <2>2. GoodJob(NewJob(Home[c], kind, c, caller[c].cur))
    BY <1>1, <1>2, NewJobGood
  <2> QED
    BY <2>1, <2>2 DEF Replaces
<1>3. CASE ColdBuild(c) \/ Index(c)
  <2>1. caller[c].cur \in Versions
    BY <1>3, Waited DEF ColdBuild, Index
  <2> QED
    BY <1>2, <1>3, <2>1, ReplacedTypes DEF ColdBuild, Index, Main
<1>4. CASE ServeKnownFailure(c)
  BY <1>1, <1>4, SupersededEffect DEF ServeKnownFailure, Main
<1>5. CASE LaunchAsync(c)
  <2> DEFINE b == NewJob(Home[c], "async", None, caller[c].cur)
  <2>1. caller[c].pc = "warm"
    BY <1>5 DEF LaunchAsync
  <2>2. GoodJob(b)
    BY <1>1, <2>1, Waited, NewJobGood
  <2>3. PICK j \in Jobs : job' = [Superseded(Home[c]) EXCEPT ![j] = b]
    BY <1>5 DEF LaunchAsync
  <2>4. b \in JobStates
    BY <2>2 DEF GoodJob
  <2> HIDE DEF b
  <2> QED
    BY <1>1, <2>2, <2>3, <2>4, SupersededEffect DEF Main
<1> QED
  BY <1>3, <1>4, <1>5

LEMMA LettingGoTypes ==
  ASSUME Main, NEW c \in Callers,
         CancelIndex(c) \/ finishColdBuild(c) \/ Abandon(c) \/ Wake(c) \/ TimeOut(c)
  PROVE  job' \in [Jobs -> JobStates] /\ \A k \in Jobs : GoodJob(job'[k])
<1> DEFINE j == caller[c].job
<1>1. job \in [Jobs -> JobStates] /\ \A k \in Jobs : GoodJob(job[k])
  BY DEF Main, Core, TypeOK
<1>2. j \in Jobs
  BY Waited DEF CancelIndex, finishColdBuild, Abandon, Wake, TimeOut
<1>3. CASE CancelIndex(c)
  <2> DEFINE b == [job[j] EXCEPT !.live = FALSE]
  <2>1. job' = [job EXCEPT ![j] = b]
    BY <1>3 DEF CancelIndex
  <2>2. GoodJob(b)
    BY <1>1, <1>2, CancelledGood
  <2> HIDE DEF b
  <2> QED
    BY <1>2, <2>1, <2>2, ReplacedTypes DEF Replaces, Main
<1>4. CASE finishColdBuild(c)
  BY <1>2, <1>4, GoneGood, ReplacedTypes DEF finishColdBuild, Replaces, Main
<1>5. CASE Abandon(c)
  <2> DEFINE b == [job[j] EXCEPT !.owner = None]
  <2>1. job' = [job EXCEPT ![j] = b] /\ caller[c].pc = "coldwait" /\ caller[c].op # "index"
    BY <1>5 DEF Abandon
  <2>2. job[j].kind = "cold"
    BY <1>1, <1>2, <2>1 DEF Main, OwnersInv, GoodJob, JobStates
  <2>3. b \in JobStates
    BY <1>1, <1>2 DEF JobStates
  <2>4. GoodJob(b)
    BY <1>1, <1>2, <2>2, <2>3 DEF GoodJob, JobStates
  <2> HIDE DEF b
  <2> QED
    BY <1>2, <2>1, <2>4, ReplacedTypes DEF Replaces, Main
<1>6. CASE Wake(c) \/ TimeOut(c)
  <2>1. job' = job \/ job' = [job EXCEPT ![j] = Gone]
    BY <1>6 DEF Wake, TimeOut, Forget
  <2> QED
    BY <1>1, <1>2, <2>1, GoneGood, ReplacedTypes DEF Replaces, Main
<1> QED
  BY <1>3, <1>4, <1>5, <1>6

\* A build ends, or gets closer to it.
Ends(j) ==
  Discard(j) \/ FailAsync(j) \/ SucceedAsync(j) \/ Signal(j) \/ RecordAbandoned(j) \/ RetireAbandoned(j)

LEMMA EndingTypes ==
  ASSUME Main, NEW j \in Jobs, Ends(j)
  PROVE  Replaces(j)
<1>1. /\ job \in [Jobs -> JobStates] /\ GoodJob(job[j]) /\ job[j] \in JobStates
      /\ 0 \in 0 .. MaxIno /\ job[j].out \in 0 .. MaxIno /\ job[j].done \in 0 .. 2
  BY ManagerAssumption DEF Main, Core, TypeOK, GoodJob, JobStates
<1>2. None \notin Jobs
  BY ManagerAssumption
<1>3. CASE Discard(j)
  <2>1. job' = [job EXCEPT ![j] = Ended(j, job[j].done, 0)]
    BY <1>3 DEF Discard
  <2> QED
    BY <1>1, <2>1, EndedGood DEF Replaces, Main
<1>4. CASE FailAsync(j) \/ Signal(j)
  <2>1. job[j].proc \in Procs /\ builds[job[j].proc] = j
    BY <1>1, <1>4 DEF FailAsync, Signal, GoodJob, Main, BuildsInv
  <2>2. job[j].done + 1 \in 0 .. 2
    BY <1>2, <2>1 DEF Main, BuildsInv
  <2>3. \E o \in 0 .. MaxIno : job' = [job EXCEPT ![j] = Ended(j, job[j].done + 1, o)]
    BY <1>1, <1>4 DEF FailAsync, Signal
  <2> QED
    BY <2>2, <2>3, EndedGood DEF Replaces, Main
<1>5. CASE SucceedAsync(j)
  <2> DEFINE b == [job[j] EXCEPT !.phase = "signal"]
  <2>1. job' = [job EXCEPT ![j] = b] /\ job[j].phase = "finish" /\ job[j].kind = "async"
    BY <1>5 DEF SucceedAsync
  <2>2. b \in JobStates
    BY <1>1 DEF JobStates
  <2>3. GoodJob(b)
    BY <1>1, <2>1, <2>2 DEF GoodJob, JobStates
  <2> HIDE DEF b
  <2> QED
    BY <2>1, <2>3 DEF Replaces
<1>6. CASE RecordAbandoned(j)
  <2> DEFINE b == [job[j] EXCEPT !.phase = "retire"]
  <2>1. /\ job' = [job EXCEPT ![j] = b] \/ job' = [job EXCEPT ![j] = Gone]
        /\ job[j].phase = "finish" /\ job[j].kind = "cold" /\ job[j].owner = None
    BY <1>6 DEF RecordAbandoned
  <2>2. b \in JobStates
    BY <1>1 DEF JobStates
  <2>3. GoodJob(b)
    BY <1>1, <2>1, <2>2 DEF GoodJob, JobStates
  <2> HIDE DEF b
  <2> QED
    BY <2>1, <2>3, GoneGood DEF Replaces
<1>7. CASE RetireAbandoned(j)
  BY <1>7, GoneGood DEF RetireAbandoned, Replaces
<1> QED
  BY <1>3, <1>4, <1>5, <1>6, <1>7 DEF Ends

LEMMA WorkCases ==
  ASSUME NEW j \in Jobs, Works(j)
  PROVE  Builds(j) \/ Ends(j)
BY DEF Works, JobStep, Builds, Ends

\* The steps of a caller that leave the builds alone.
Quiet(c) ==
  \/ Calls(c) \/ AcquireLock(c) \/ GiveUpLock(c) \/ cachedStamp(c) \/ StoreStamp(c) \/ Open(c) \/ ReadMeta(c)
  \/ DropForeign(c) \/ ReportKnownFailure(c) \/ RetireHandle(c) \/ Attach(c) \/ Release(c) \/ LookForBuild(c)
  \/ StampFails(c) \/ OpenFails(c)

\* A call that meets an error of the file system.
LEMMA FaultForms ==
  ASSUME NEW c \in Callers, StampFails(c) \/ OpenFails(c)
  PROVE  /\ \/ Goto(c, "cold") /\ caller[c].pc # "stamp" /\ caller[c].mode = "ensure" /\ UNCHANGED lock
            \/ Return(c) /\ Unlock(c)
            \/ CutShort(c) /\ caller[c].mode # "settle" /\ Unlock(c)
         /\ caller[c].pc \in {"stamp", "open", "meta"}
         /\ UNCHANGED <<lock, job>> \/ lock' = [lock EXCEPT ![Home[c]] = None]
         /\ UNCHANGED stampCache /\ faults < scene.faults /\ faults' = faults + 1
<1>1. /\ \/ Goto(c, "cold") /\ caller[c].pc # "stamp" /\ caller[c].mode = "ensure" /\ UNCHANGED lock
         \/ Fail(c) /\ Unlock(c)
      /\ caller[c].pc \in {"stamp", "open", "meta"} /\ UNCHANGED <<job, stampCache>>
      /\ faults < scene.faults /\ faults' = faults + 1
  BY DEF StampFails, OpenFails
<1>2. Fail(c) => Return(c) \/ (CutShort(c) /\ caller[c].mode # "settle")
  BY DEF Fail
<1>3. Unlock(c) => UNCHANGED lock \/ lock' = [lock EXCEPT ![Home[c]] = None]
  BY DEF Unlock, releaseLock
<1> QED
  BY <1>1, <1>2, <1>3

LEMMA QuietEffect ==
  ASSUME NEW c \in Callers, Quiet(c)
  PROVE  UNCHANGED <<source, edits, crashes, disk, builds, failed, life, flock, job>>
<1>1. Calls(c) \/ AcquireLock(c) \/ GiveUpLock(c) \/ cachedStamp(c) \/ StoreStamp(c)
      => UNCHANGED <<source, edits, crashes, disk, builds, failed, life, flock, job>>
  BY DEF Calls, Call, AcquireLock, GiveUpLock, cachedStamp, StoreStamp, procVars, envVars
<1>2. Open(c) \/ ReadMeta(c) \/ DropForeign(c) \/ ReportKnownFailure(c) \/ RetireHandle(c)
      => UNCHANGED <<source, edits, crashes, disk, builds, failed, life, flock, job>>
  BY DEF Open, ReadMeta, DropForeign, ReportKnownFailure, RetireHandle, procVars, envVars
<1>3. Attach(c) \/ Release(c) \/ LookForBuild(c)
      => UNCHANGED <<source, edits, crashes, disk, builds, failed, life, flock, job>>
  BY DEF Attach, Release, LookForBuild, procVars, envVars
<1>4. StampFails(c) \/ OpenFails(c)
      => UNCHANGED <<source, edits, crashes, disk, builds, failed, life, flock, job>>
  BY DEF StampFails, OpenFails
<1> QED
  BY <1>1, <1>2, <1>3, <1>4 DEF Quiet

LEMMA QuietFaults ==
  ASSUME NEW c \in Callers, Quiet(c)
  PROVE  UNCHANGED faults \/ StampFails(c) \/ OpenFails(c)
<1>1. Calls(c) \/ AcquireLock(c) \/ GiveUpLock(c) \/ cachedStamp(c) \/ StoreStamp(c) => UNCHANGED faults
  BY DEF Calls, Call, AcquireLock, GiveUpLock, cachedStamp, StoreStamp, envVars
<1>2. Open(c) \/ ReadMeta(c) \/ DropForeign(c) \/ ReportKnownFailure(c) \/ RetireHandle(c) => UNCHANGED faults
  BY DEF Open, ReadMeta, DropForeign, ReportKnownFailure, RetireHandle, envVars
<1>3. Attach(c) \/ Release(c) \/ LookForBuild(c) => UNCHANGED faults
  BY DEF Attach, Release, LookForBuild, envVars
<1> QED
  BY <1>1, <1>2, <1>3 DEF Quiet

LEMMA MoverCases ==
  ASSUME NEW c \in Callers, Moves(c)
  PROVE  \/ Quiet(c)
         \/ ColdBuild(c) \/ Index(c) \/ LaunchAsync(c) \/ ServeKnownFailure(c)
         \/ CancelIndex(c) \/ finishColdBuild(c) \/ Abandon(c) \/ Wake(c) \/ TimeOut(c)
BY DEF Moves, CallerStep, Deadline, CallFault, Quiet

LEMMA JobTypes ==
  ASSUME Main, Next
  PROVE  job' \in [Jobs -> JobStates] /\ \A k \in Jobs : GoodJob(job'[k])
<1>1. job \in [Jobs -> JobStates] /\ \A k \in Jobs : GoodJob(job[k])
  BY DEF Main, Core, TypeOK
<1>2. ASSUME NEW c \in Callers, Moves(c)
      PROVE  job' \in [Jobs -> JobStates] /\ \A k \in Jobs : GoodJob(job'[k])
  BY <1>1, <1>2, MoverCases, QuietEffect, LaunchingTypes, LettingGoTypes
<1>3. ASSUME NEW j \in Jobs, Works(j)
      PROVE  job' \in [Jobs -> JobStates] /\ \A k \in Jobs : GoodJob(job'[k])
  BY <1>3, WorkCases, BuildsEffect, EndingTypes, ReplacedTypes DEF Main
<1>4. ASSUME NEW p \in Procs, CloseBuilds(p)
      PROVE  job' \in [Jobs -> JobStates] /\ \A k \in Jobs : GoodJob(job'[k])
  <2>1. CASE builds[p] = None
    BY <1>1, <1>4, <2>1 DEF CloseBuilds
  <2>2. CASE builds[p] # None
    <3> DEFINE b == [job[builds[p]] EXCEPT !.live = FALSE]
    <3>1. builds[p] \in Jobs
      BY <2>2 DEF Main, Core, TypeOK
    <3>2. job' = [job EXCEPT ![builds[p]] = b]
      BY <1>4, <2>2 DEF CloseBuilds
    <3>3. GoodJob(b)
      BY <1>1, <3>1, CancelledGood
    <3> HIDE DEF b
    <3> QED
      BY <3>1, <3>2, <3>3, ReplacedTypes DEF Replaces, Main
  <2> QED
    BY <2>1, <2>2
<1>5. ASSUME Edit \/ \E p \in Procs : StampExpires(p) \/ CloseHandles(p)
      PROVE  UNCHANGED job
  BY <1>5 DEF Edit, StampExpires, CloseHandles
<1>6. ASSUME NEW p \in Procs, Crash(p)
      PROVE  job' \in [Jobs -> JobStates] /\ \A k \in Jobs : GoodJob(job'[k])
  <2>1. job' = [j \in Jobs |-> IF job[j].proc = p THEN Gone ELSE job[j]]
    BY <1>6 DEF Crash
  <2> QED
    BY <1>1, <2>1, GoneGood DEF GoodJob
<1> QED
  BY <1>1, <1>2, <1>3, <1>4, <1>5, <1>6, NextCases DEF Environs

-----------------------------------------------------------------------------
(* The handles.                                                            *)

\* Every step is a step of the handle protocol, or none.
LEMMA ProtocolStep ==
  ASSUME Main, Next
  PROVE  [H!Next]_(H!vars)
<1>1. ASSUME NEW c \in Callers, Moves(c)
      PROVE  [H!Next]_(H!vars)
  <2>1. CASE Quiet(c)
    <3>1. UNCHANGED disk
      BY <2>1, QuietEffect
    <3>2. CASE Open(c)
      BY <3>1, <3>2 DEF Open, H!Open, H!Next, H!vars, handleVars
    <3>3. CASE ReadMeta(c)
      BY <3>1, <3>3 DEF ReadMeta, H!Query, H!Next
    <3>4. CASE DropForeign(c) \/ Release(c)
      BY <3>1, <3>4 DEF DropForeign, Release, H!Release, H!Next
    <3>5. CASE RetireHandle(c)
      BY <3>1, <3>5, Waited DEF RetireHandle, H!CloseConn, H!Next
    <3>6. CASE Calls(c) \/ AcquireLock(c) \/ GiveUpLock(c) \/ cachedStamp(c) \/ StoreStamp(c)
      BY <3>1, <3>6
         DEF Calls, Call, AcquireLock, GiveUpLock, cachedStamp, StoreStamp, handleVars, H!vars
    <3>7. CASE ReportKnownFailure(c) \/ Attach(c) \/ LookForBuild(c)
      BY <3>1, <3>7 DEF ReportKnownFailure, Attach, LookForBuild, handleVars, H!vars
    <3>8. CASE StampFails(c)
      BY <3>1, <3>8 DEF StampFails, handleVars, H!vars
    <3>9. CASE OpenFails(c)
      <4>1. H!release(c) \/ UNCHANGED handleVars
        BY <3>9 DEF OpenFails
      <4> QED
        BY <3>1, <4>1 DEF handleVars, H!vars, H!Release, H!Next
    <3> QED
      BY <2>1, <3>2, <3>3, <3>4, <3>5, <3>6, <3>7, <3>8, <3>9 DEF Quiet
  <2>2. CASE ColdBuild(c) \/ Index(c) \/ LaunchAsync(c) \/ ServeKnownFailure(c)
    BY <2>2 DEF ColdBuild, Index, LaunchAsync, ServeKnownFailure, handleVars, H!vars
  <2>3. CASE CancelIndex(c) \/ finishColdBuild(c) \/ Abandon(c) \/ Wake(c) \/ TimeOut(c)
    BY <2>3 DEF CancelIndex, finishColdBuild, Abandon, Wake, TimeOut, handleVars, H!vars
  <2> QED
    BY <1>1, <2>1, <2>2, <2>3, MoverCases
<1>2. ASSUME NEW j \in Jobs, Works(j)
      PROVE  [H!Next]_(H!vars)
  <2>1. GoodJob(job[j])
    BY DEF Main, Core
  <2>2. CASE Rename(j)
    <3>1. Published(j) \in Files
      <4>1. job[j].stamp \in Versions /\ job[j].content \in Versions
        BY <2>1, <2>2 DEF Rename, GoodJob
      <4> QED
        BY <4>1, NextInoTypes DEF Published, Files, Main
    <3> QED
      BY <2>2, <3>1 DEF Rename, handleVars, H!handleVars, H!Replace, H!Next
  <2>3. CASE TryFlock(j) \/ GiveUpFlock(j) \/ LockUnavailable(j) \/ buildIndex(j) \/ BuildFault(j)
    BY <2>3 DEF TryFlock, GiveUpFlock, LockUnavailable, buildIndex, BuildFault, handleVars, H!vars
  <2>4. CASE Discard(j) \/ FailAsync(j) \/ Signal(j) \/ RecordAbandoned(j)
    BY <2>4 DEF Discard, FailAsync, Signal, RecordAbandoned, handleVars, H!vars
  <2>5. CASE SucceedAsync(j) \/ RetireAbandoned(j)
    <3>1. job[j].proc \in Procs
      BY <2>1, <2>5 DEF SucceedAsync, RetireAbandoned, GoodJob
    <3> QED
      BY <2>5, <3>1 DEF SucceedAsync, RetireAbandoned, H!CloseConn, H!Next
  <2> QED
    BY <1>2, <2>2, <2>3, <2>4, <2>5, WorkCases DEF Builds, Ends
<1>3. CASE Environs
  <2>1. ASSUME NEW p \in Procs, CloseHandles(p)
        PROVE  H!Next
    BY <2>1 DEF CloseHandles, H!CloseConn, H!Next
  <2>2. ASSUME Edit \/ \E p \in Procs : StampExpires(p) \/ CloseBuilds(p)
        PROVE  UNCHANGED H!vars
    BY <2>2 DEF Edit, StampExpires, CloseBuilds, handleVars, H!vars
  <2> QED
    BY <1>3, <2>1, <2>2 DEF Environs
<1>4. ASSUME NEW p \in Procs, Crash(p)
      PROVE  [H!Next]_(H!vars)
  BY <1>4 DEF Crash, H!Exit, H!Next
<1> QED
  BY <1>1, <1>2, <1>3, <1>4, NextCases

\* The protocol is the one GraphHandlesProofs is about.
LEMMA SameProtocol == [H!Next]_(H!vars) => [HP!Next]_(HP!vars)
<1>1. /\ H!handleVars = HP!handleVars /\ H!vars = HP!vars
      /\ \A h \in Handles : H!Allocatable(h) <=> HP!Allocatable(h)
  BY DEF H!handleVars, HP!handleVars, H!vars, HP!vars, H!Allocatable, HP!Allocatable,
         H!Unreachable, HP!Unreachable
<1>2. H!Replace => HP!Replace
  BY DEF H!Replace, HP!Replace, H!handleVars, HP!handleVars
<1>3. \A u \in Callers : H!Open(u) => HP!Open(u)
  BY <1>1 DEF H!Open, HP!Open, H!Acquire, HP!Acquire, H!NewEntry, HP!NewEntry
<1>4. \A u \in Callers : H!Query(u) => HP!Query(u)
  BY DEF H!Query, HP!Query, H!Read, HP!Read, H!Readable, HP!Readable
<1>5. \A u \in Callers : H!Release(u) => HP!Release(u)
  BY DEF H!Release, HP!Release, H!release, HP!release, H!Dropped, HP!Dropped, H!maybeClose, HP!maybeClose
<1>6. \A p \in Procs : H!CloseConn(p) => HP!CloseConn(p)
  BY DEF H!CloseConn, HP!CloseConn, H!closeConn, HP!closeConn, H!retire, HP!retire,
         H!maybeClose, HP!maybeClose
<1>7. \A p \in Procs : H!Exit(p) => HP!Exit(p)
  BY DEF H!Exit, HP!Exit, H!exit, HP!exit, H!HandlesOf, HP!HandlesOf, H!Garbage, HP!Garbage
<1> QED
  BY <1>2, <1>3, <1>4, <1>5, <1>6, <1>7 DEF H!Next, HP!Next, H!vars, HP!vars

LEMMA HandlesStep ==
  ASSUME Main, Next
  PROVE  HP!IInv'
BY ProtocolStep, SameProtocol, HandleStep DEF Main

-----------------------------------------------------------------------------
(* The rest of the state.                                                  *)

LEMMA SourceTypes ==
  ASSUME Main, Next, UNCHANGED scene
  PROVE  /\ source' \in Versions
         /\ edits' \in 0 .. scene'.edits /\ crashes' \in 0 .. scene'.crashes /\ faults' \in 0 .. scene'.faults
<1>1. /\ source \in Versions /\ scene.versions \subseteq Versions
      /\ edits \in 0 .. scene.edits /\ crashes \in 0 .. scene.crashes /\ faults \in 0 .. scene.faults
      /\ scene.edits \in Nat /\ scene.crashes \in Nat /\ scene.faults \in Nat
  BY Bounds DEF Main, Core, TypeOK
<1>2. \/ UNCHANGED <<source, edits, crashes, faults>>
      \/ Edit
      \/ \E p \in Procs : Crash(p)
      \/ \E j \in Jobs : LockUnavailable(j) \/ BuildFault(j)
      \/ \E c \in Callers : StampFails(c) \/ OpenFails(c)
  <2>1. \A c \in Callers : Moves(c) => \/ UNCHANGED <<source, edits, crashes, faults>>
                                       \/ StampFails(c) \/ OpenFails(c)
    <3>1. \A c \in Callers : ColdBuild(c) \/ Index(c) \/ LaunchAsync(c) \/ ServeKnownFailure(c)
            => UNCHANGED <<source, edits, crashes, faults>>
      BY DEF ColdBuild, Index, LaunchAsync, ServeKnownFailure, envVars
    <3>2. \A c \in Callers : CancelIndex(c) \/ finishColdBuild(c) \/ Abandon(c) \/ Wake(c) \/ TimeOut(c)
            => UNCHANGED <<source, edits, crashes, faults>>
      BY DEF CancelIndex, finishColdBuild, Abandon, Wake, TimeOut, envVars
    <3>3. \A c \in Callers : Quiet(c) => UNCHANGED faults \/ StampFails(c) \/ OpenFails(c)
      BY QuietFaults
    <3> QED
      BY <3>1, <3>2, <3>3, MoverCases, QuietEffect
  <2>2. \A j \in Jobs : TryFlock(j) \/ GiveUpFlock(j) \/ buildIndex(j) \/ Rename(j)
          => UNCHANGED <<source, edits, crashes, faults>>
    BY DEF TryFlock, GiveUpFlock, buildIndex, Rename, envVars
  <2>3. \A j \in Jobs : Ends(j) => UNCHANGED <<source, edits, crashes, faults>>
    BY DEF Ends, Discard, FailAsync, SucceedAsync, Signal, RecordAbandoned, RetireAbandoned, envVars
  <2>4. \A p \in Procs : StampExpires(p) \/ CloseHandles(p) \/ CloseBuilds(p)
          => UNCHANGED <<source, edits, crashes, faults>>
    BY DEF StampExpires, CloseHandles, CloseBuilds, envVars
  <2> QED
    BY <2>1, <2>2, <2>3, <2>4, NextCases, WorkCases DEF Builds, Environs
<1>3. CASE UNCHANGED <<source, edits, crashes, faults>>
  BY <1>1, <1>3
<1>4. CASE Edit
  BY <1>1, <1>4 DEF Edit
<1>5. CASE \E p \in Procs : Crash(p)
  BY <1>1, <1>5 DEF Crash
<1>6. CASE \E j \in Jobs : LockUnavailable(j) \/ BuildFault(j)
  <2>1. UNCHANGED <<source, edits, crashes>> /\ faults < scene.faults /\ faults' = faults + 1
    BY <1>6 DEF LockUnavailable, BuildFault
  <2> QED
    BY <1>1, <2>1
<1>7. CASE \E c \in Callers : StampFails(c) \/ OpenFails(c)
  <2>1. UNCHANGED <<source, edits, crashes>> /\ faults < scene.faults /\ faults' = faults + 1
    BY <1>7, FaultForms, QuietEffect DEF Quiet
  <2> QED
    BY <1>1, <2>1
<1> QED
  BY <1>2, <1>3, <1>4, <1>5, <1>6, <1>7

\* The state of each process.
LEMMA ProcessTypes ==
  ASSUME Main, Next
  PROVE  /\ lock' \in [Procs -> Callers \cup Jobs \cup {None}]
         /\ stampCache' \in [Procs -> Versions \cup {None}]
         /\ builds' \in [Procs -> Jobs \cup {None}]
         /\ failed' \in [Procs -> Versions \cup {None}]
         /\ life' \in [Procs -> {"up", "closing", "closed"}]
<1> DEFINE Ok == /\ lock' \in [Procs -> Callers \cup Jobs \cup {None}]
                 /\ stampCache' \in [Procs -> Versions \cup {None}]
                 /\ builds' \in [Procs -> Jobs \cup {None}]
                 /\ failed' \in [Procs -> Versions \cup {None}]
                 /\ life' \in [Procs -> {"up", "closing", "closed"}]
<1>1. /\ lock \in [Procs -> Callers \cup Jobs \cup {None}]
      /\ stampCache \in [Procs -> Versions \cup {None}]
      /\ builds \in [Procs -> Jobs \cup {None}]
      /\ failed \in [Procs -> Versions \cup {None}]
      /\ life \in [Procs -> {"up", "closing", "closed"}]
  BY DEF Main, Core, TypeOK
<1>2. ASSUME NEW c \in Callers, Quiet(c)
      PROVE  Ok
  <2>1. UNCHANGED <<builds, failed, life>>
    BY <1>2, QuietEffect
  <2>2. Home[c] \in Procs
    BY Waited
  <2>3. CASE Calls(c) \/ AcquireLock(c)
    BY <1>1, <2>1, <2>3 DEF Calls, Call, AcquireLock
  <2>4. CASE GiveUpLock(c) \/ cachedStamp(c) \/ DropForeign(c) \/ RetireHandle(c) \/ LookForBuild(c)
    BY <1>1, <2>4 DEF GiveUpLock, cachedStamp, DropForeign, RetireHandle, LookForBuild, procVars
  <2>5. CASE StoreStamp(c)
    <3>1. caller[c].cur \in Versions
      BY <2>5 DEF StoreStamp, Main, Core, GoodCaller, Stamped
    <3> QED
      BY <1>1, <2>1, <2>5, <3>1 DEF StoreStamp
  <2>6. CASE ReadMeta(c) \/ Open(c) \/ Release(c)
    <3>1. UNCHANGED lock \/ lock' = [lock EXCEPT ![Home[c]] = None]
      BY <2>6 DEF ReadMeta, Open, Release, Unlock, releaseLock
    <3>2. UNCHANGED stampCache
      BY <2>6 DEF ReadMeta, Open, Release
    <3> QED
      BY <1>1, <2>1, <3>1, <3>2
  <2>7. CASE ReportKnownFailure(c) \/ Attach(c)
    BY <1>1, <2>1, <2>7 DEF ReportKnownFailure, Attach, releaseLock
  <2>8. CASE StampFails(c) \/ OpenFails(c)
    BY <1>1, <2>1, <2>8, FaultForms
  <2> QED
    BY <1>2, <2>3, <2>4, <2>5, <2>6, <2>7, <2>8 DEF Quiet
<1>3. ASSUME NEW c \in Callers, ColdBuild(c) \/ Index(c) \/ CancelIndex(c) \/ Wake(c) \/ TimeOut(c)
      PROVE  Ok
  BY <1>1, <1>3 DEF ColdBuild, Index, CancelIndex, Wake, TimeOut, procVars
<1>4. ASSUME NEW c \in Callers, ServeKnownFailure(c) \/ LaunchAsync(c)
      PROVE  Ok
  BY <1>1, <1>4 DEF ServeKnownFailure, LaunchAsync, releaseLock
<1>5. ASSUME NEW c \in Callers, finishColdBuild(c) \/ Abandon(c)
      PROVE  Ok
  <2>1. caller[c].job \in Jobs /\ Home[c] \in Procs /\ caller[c].pc = "coldwait"
    BY <1>5, Waited DEF finishColdBuild, Abandon
  <2>2. job[caller[c].job].stamp \in Versions
    BY <2>1 DEF Main, Core, OwnersInv, GoodJob
  <2>3. CASE finishColdBuild(c)
    <3>1. /\ UNCHANGED <<stampCache, builds, life>>
          /\ UNCHANGED lock \/ lock' = [lock EXCEPT ![Home[c]] = None]
          /\ \/ UNCHANGED failed
             \/ \E s \in {None, job[caller[c].job].stamp} : failed' = [failed EXCEPT ![Home[c]] = s]
      BY <2>3 DEF finishColdBuild, RecordOutcome, releaseLock
    <3> QED
      BY <1>1, <2>1, <2>2, <3>1
  <2>4. CASE Abandon(c)
    BY <1>1, <2>1, <2>4 DEF Abandon
  <2> QED
    BY <1>5, <2>3, <2>4
<1>6. ASSUME NEW j \in Jobs, Works(j)
      PROVE  Ok
  <2>1. Builds(j) => Ok
    BY <1>1, BuildsEffect DEF Main
  <2>2. job[j].phase # "gone" => job[j].proc \in Procs /\ job[j].stamp \in Versions
    BY DEF Main, Core, GoodJob
  <2>3. CASE Discard(j)
    BY <1>1, <2>3 DEF Discard, procVars
  <2>4. CASE FailAsync(j) \/ SucceedAsync(j) \/ RecordAbandoned(j)
    <3>1. /\ UNCHANGED <<stampCache, life>>
          /\ UNCHANGED lock \/ lock' = [lock EXCEPT ![job[j].proc] = None]
          /\ UNCHANGED builds \/ builds' = [builds EXCEPT ![job[j].proc] = None]
          /\ \E s \in {None, job[j].stamp} : failed' = [failed EXCEPT ![job[j].proc] = s]
      BY <2>4 DEF FailAsync, SucceedAsync, RecordAbandoned, RecordOutcome, releaseLock
    <3>2. job[j].phase # "gone"
      BY <2>4 DEF FailAsync, SucceedAsync, RecordAbandoned
    <3> QED
      BY <1>1, <2>2, <3>1, <3>2
  <2>5. CASE Signal(j) \/ RetireAbandoned(j)
    BY <1>1, <2>5 DEF Signal, RetireAbandoned, releaseLock
  <2> QED
    BY <1>6, <2>1, <2>3, <2>4, <2>5, WorkCases DEF Ends
<1>7. ASSUME Environs
      PROVE  Ok
  BY <1>1, <1>7 DEF Environs, Edit, StampExpires, CloseHandles, CloseBuilds, procVars
<1>8. ASSUME NEW p \in Procs, Crash(p)
      PROVE  Ok
  BY <1>1, <1>8 DEF Crash
<1> QED
  BY <1>2, <1>3, <1>4, <1>5, <1>6, <1>7, <1>8, NextCases, MoverCases

\* The graph file and the lock on building it.
LEMMA FileTypes ==
  ASSUME Main, Next
  PROVE  disk' \in Files \cup {Absent} /\ flock' \in Jobs \cup {None}
<1>1. disk \in Files \cup {Absent} /\ flock \in Jobs \cup {None}
  BY DEF Main, Core, TypeOK
<1>2. disk' \in Files \cup {Absent}
  BY HandlesStep DEF HP!IInv, HP!TypeOK
<1>3. ASSUME NEW c \in Callers, Moves(c)
      PROVE  UNCHANGED flock
  <2>1. ColdBuild(c) \/ Index(c) \/ LaunchAsync(c) \/ ServeKnownFailure(c) => UNCHANGED flock
    BY DEF ColdBuild, Index, LaunchAsync, ServeKnownFailure
  <2>2. CancelIndex(c) \/ finishColdBuild(c) \/ Abandon(c) \/ Wake(c) \/ TimeOut(c) => UNCHANGED flock
    BY DEF CancelIndex, finishColdBuild, Abandon, Wake, TimeOut
  <2> QED
    BY <1>3, <2>1, <2>2, MoverCases, QuietEffect
<1>4. ASSUME NEW j \in Jobs, Works(j)
      PROVE  flock' \in {flock, j, None}
  <2>1. Builds(j) => flock' \in {flock, j, None}
    BY DEF Builds, TryFlock, GiveUpFlock, LockUnavailable, buildIndex, BuildFault, Rename, Outcome
  <2>2. Ends(j) => flock' = flock
    BY DEF Ends, Discard, FailAsync, SucceedAsync, Signal, RecordAbandoned, RetireAbandoned
  <2> QED
    BY <1>4, <2>1, <2>2, WorkCases
<1>5. Environs => UNCHANGED flock
  BY DEF Environs, Edit, StampExpires, CloseHandles, CloseBuilds
<1>6. \A p \in Procs : Crash(p) => flock' \in {flock, None}
  BY DEF Crash
<1> QED
  BY <1>1, <1>2, <1>3, <1>4, <1>5, <1>6, NextCases

LEMMA CoreStep ==
  ASSUME Main, Next, UNCHANGED scene
  PROVE  Core'
<1>1. H!TypeOK'
  <2>1. HP!IInv'
    BY HandlesStep
  <2> QED
    BY <2>1, HandleTypes, PTL
<1>2. caller' \in [Callers -> CallerStates] /\ \A c \in Callers : GoodCaller(caller'[c])
  BY CallerTypes DEF Main
<1>3. job' \in [Jobs -> JobStates] /\ \A k \in Jobs : GoodJob(job'[k])
  BY JobTypes
<1>4. TypeOK'
  BY <1>1, <1>2, <1>3, SourceTypes, ProcessTypes, FileTypes DEF TypeOK
<1>5. scene' \in Scenes
  BY DEF Main, Core
<1> QED
  BY <1>2, <1>3, <1>4, <1>5 DEF Core, GoodCaller, GoodJob

-----------------------------------------------------------------------------
(* Builds and their owners.                                                *)

\* No caller and no process knows of a build that is free to be started.
LEMMA SpareFacts ==
  ASSUME Main, NEW j \in Jobs, Allocatable(j)
  PROVE  /\ job[j].phase = "gone" /\ job[j].owner = None
         /\ \A c \in Callers : caller[c].job # j
         /\ \A p \in Procs : builds[p] # j
<1>1. job[j].phase = "gone" /\ \A c \in Callers : caller[c].job # j
  BY DEF Allocatable, Spare, Alive
<1>2. GoodJob(job[j])
  BY DEF Main, Core
<1>3. job[j].kind = "async" /\ job[j].owner = None /\ job[j].live = FALSE
  BY <1>1, <1>2 DEF GoodJob
<1>4. ASSUME NEW p \in Procs, builds[p] = j
      PROVE  FALSE
  BY <1>3, <1>4, ManagerAssumption DEF Main, BuildsInv
<1> QED
  BY <1>1, <1>3, <1>4

\* Nobody's claim on a build changes: its owner, and what a caller knows of its own.
SameOwners ==
  /\ \A k \in Jobs : /\ job'[k].owner = job[k].owner
                     /\ job[k].phase # "gone" /\ job[k].kind # "async" =>
                          /\ job'[k].phase # "gone" /\ job'[k].kind = job[k].kind
                          /\ job'[k].proc = job[k].proc

\* No first build or Index changes hands.
LEMMA OwnersKept ==
  ASSUME Main, SameOwners,
         \A c \in Callers : \/ caller'[c] = caller[c]
                            \/ caller[c].pc # "coldwait" /\ caller'[c].pc # "coldwait"
  PROVE  OwnersInv'
<1>1. ASSUME NEW c \in Callers, caller'[c].pc = "coldwait"
      PROVE  LET b == job'[caller'[c].job] IN
             /\ b.phase # "gone" /\ b.kind # "async" /\ b.owner = c /\ b.proc = Home[c]
             /\ b.kind = "index" <=> caller'[c].op = "index"
  BY <1>1, Waited DEF Main, OwnersInv, SameOwners
<1>2. ASSUME NEW j \in Jobs, job'[j].owner # None
      PROVE  caller'[job'[j].owner].pc = "coldwait" /\ caller'[job'[j].owner].job = j
  <2>1. job'[j].owner = job[j].owner
    BY DEF SameOwners
  <2>2. job[j].owner \in Callers
    BY <1>2, <2>1 DEF Main, Core, GoodJob, JobStates
  <2> QED
    BY <1>2, <2>1, <2>2 DEF Main, OwnersInv
<1> QED
  BY <1>1, <1>2 DEF OwnersInv

\* Where a caller that moves gets to.
LEMMA MovesTo ==
  ASSUME Core, NEW c \in Callers, Becomes(c)
  PROVE  \A d \in Callers \ {c} : caller'[d] = caller[d]
BY DEF Becomes, Core, TypeOK

LEMMA QuietOwners ==
  ASSUME Main, NEW c \in Callers, Quiet(c)
  PROVE  OwnersInv'
<1>1. UNCHANGED job
  BY QuietEffect
<1>2. UNCHANGED caller \/ \A d \in Callers \ {c} : caller'[d] = caller[d]
  BY MoverTypes, MovesTo DEF Moves, CallerStep, Deadline, CallFault, Quiet, Main
<1>3. caller[c].pc # "coldwait"
  BY DEF Quiet, Calls, Call, AcquireLock, GiveUpLock, cachedStamp, StoreStamp, Open, ReadMeta,
         DropForeign, ReportKnownFailure, RetireHandle, Attach, Release, LookForBuild, StampFails, OpenFails
<1>4. caller'[c].pc # "coldwait"
  <2>1. caller[c] \in CallerStates /\ caller \in [Callers -> CallerStates]
    BY DEF Main, Core, TypeOK
  <2>2. Idle.pc = "idle" /\ \A n : Settled(n).pc = "stamp"
    BY DEF Idle, Settled
  <2>3. (Return(c) \/ CutShort(c) \/ \E n : Settle(c, n)) => caller'[c].pc # "coldwait"
    BY <2>1, <2>2 DEF Return, CutShort, Settle, Settled
  <2>4. \A pc : Goto(c, pc) => caller'[c].pc = pc
    BY <2>1 DEF Goto, CallerStates
  <2>5. Calls(c) => caller'[c].pc # "coldwait"
    BY <2>1 DEF Calls, Call, Idle
  <2>6. AcquireLock(c) \/ GiveUpLock(c) => caller'[c].pc # "coldwait"
    BY <2>3, <2>4 DEF AcquireLock, GiveUpLock
  <2>7. cachedStamp(c) \/ StoreStamp(c) => caller'[c].pc # "coldwait"
    BY <2>1, <2>4 DEF cachedStamp, StoreStamp, AfterStamp, CallerStates
  <2>8. Open(c) \/ DropForeign(c) \/ ReportKnownFailure(c) \/ Release(c) => caller'[c].pc # "coldwait"
    BY <2>3, <2>4 DEF Open, DropForeign, ReportKnownFailure, Release
  <2>9. ReadMeta(c) => caller'[c].pc # "coldwait"
    BY <2>1 DEF ReadMeta, CallerStates
  <2>10. RetireHandle(c) \/ Attach(c) \/ LookForBuild(c) => caller'[c].pc # "coldwait"
    BY <2>1, <2>3 DEF RetireHandle, Attach, ServeStale, LookForBuild, CallerStates
  <2>11. StampFails(c) \/ OpenFails(c) => caller'[c].pc # "coldwait"
    BY <2>3, <2>4, FaultForms
  <2> QED
    BY <2>5, <2>6, <2>7, <2>8, <2>9, <2>10, <2>11 DEF Quiet
<1>5. SameOwners
  BY <1>1 DEF SameOwners
<1> QED
  BY <1>2, <1>3, <1>4, <1>5, OwnersKept

\* A first build or Index starts.
LEMMA LaunchOwners ==
  ASSUME Main, NEW c \in Callers, NEW kind \in {"cold", "index"}, Launch(c, kind),
         caller[c].pc # "coldwait", kind = "index" <=> caller[c].op = "index"
  PROVE  OwnersInv'
<1>1. PICK j \in Jobs :
        /\ Allocatable(j)
        /\ job' = [job EXCEPT ![j] = NewJob(Home[c], kind, c, caller[c].cur)]
        /\ caller' = [caller EXCEPT ![c].pc = "coldwait", ![c].job = j]
  BY DEF Launch
<1>2. /\ job \in [Jobs -> JobStates] /\ caller \in [Callers -> CallerStates]
      /\ caller[c] \in CallerStates /\ c # None
  BY ManagerAssumption DEF Main, Core, TypeOK
<1>3. /\ caller'[c].pc = "coldwait" /\ caller'[c].job = j /\ caller'[c].op = caller[c].op
      /\ \A d \in Callers \ {c} : caller'[d] = caller[d]
  BY <1>1, <1>2 DEF CallerStates
<1> DEFINE b == NewJob(Home[c], kind, c, caller[c].cur)
<1>4. b.phase = "flock" /\ b.kind = kind /\ b.owner = c /\ b.proc = Home[c]
  BY DEF NewJob, Gone
<1>5. job'[j] = b /\ \A k \in Jobs \ {j} : job'[k] = job[k]
  BY <1>1, <1>2
<1> HIDE DEF b
<1>6. ASSUME NEW d \in Callers, caller'[d].pc = "coldwait"
      PROVE  LET a == job'[caller'[d].job] IN
             /\ a.phase # "gone" /\ a.kind # "async" /\ a.owner = d /\ a.proc = Home[d]
             /\ a.kind = "index" <=> caller'[d].op = "index"
  <2>1. CASE d = c
    BY <1>3, <1>4, <1>5, <2>1
  <2>2. CASE d # c
    <3>1. caller'[d] = caller[d] /\ caller[d].job \in Jobs /\ caller[d].job # j
      BY <1>1, <1>3, <1>6, <2>2, Waited, SpareFacts
    <3> QED
      BY <1>5, <1>6, <3>1 DEF Main, OwnersInv
  <2> QED
    BY <2>1, <2>2
<1>7. ASSUME NEW k \in Jobs, job'[k].owner # None
      PROVE  caller'[job'[k].owner].pc = "coldwait" /\ caller'[job'[k].owner].job = k
  <2>1. CASE k = j
    BY <1>3, <1>4, <1>5, <2>1
  <2>2. CASE k # j
    <3>1. job[k].owner \in Callers /\ job'[k] = job[k]
      BY <1>2, <1>5, <1>7, <2>2 DEF JobStates
    <3>2. job[k].owner # c
      BY <1>7, <3>1 DEF Main, OwnersInv
    <3> QED
      BY <1>3, <1>7, <3>1, <3>2 DEF Main, OwnersInv
  <2> QED
    BY <2>1, <2>2
<1> QED
  BY <1>6, <1>7 DEF OwnersInv

\* A caller lets go of its build, which is gone or nobody's from here on.
LEMMA LetGoOwners ==
  ASSUME Main, NEW c \in Callers, caller[c].pc = "coldwait", caller'[c].pc # "coldwait",
         \A d \in Callers \ {c} : caller'[d] = caller[d],
         job'[caller[c].job].owner = None,
         \A k \in Jobs \ {caller[c].job} : job'[k] = job[k]
  PROVE  OwnersInv'
<1>1. caller[c].job \in Jobs /\ job \in [Jobs -> JobStates]
  BY Waited DEF Main, Core, TypeOK
<1>2. ASSUME NEW d \in Callers, caller'[d].pc = "coldwait"
      PROVE  LET a == job'[caller'[d].job] IN
             /\ a.phase # "gone" /\ a.kind # "async" /\ a.owner = d /\ a.proc = Home[d]
             /\ a.kind = "index" <=> caller'[d].op = "index"
  <2>1. d # c /\ caller'[d] = caller[d] /\ caller[d].job \in Jobs
    BY <1>2, Waited
  <2>2. caller[d].job # caller[c].job
    BY <1>2, <2>1 DEF Main, OwnersInv
  <2> QED
    BY <1>2, <2>1, <2>2 DEF Main, OwnersInv
<1>3. ASSUME NEW k \in Jobs, job'[k].owner # None
      PROVE  caller'[job'[k].owner].pc = "coldwait" /\ caller'[job'[k].owner].job = k
  <2>1. k # caller[c].job /\ job'[k] = job[k] /\ job[k].owner \in Callers
    BY <1>1, <1>3 DEF JobStates
  <2>2. job[k].owner # c
    BY <1>3, <2>1 DEF Main, OwnersInv
  <2> QED
    BY <1>3, <2>1, <2>2 DEF Main, OwnersInv
<1> QED
  BY <1>2, <1>3 DEF OwnersInv

\* A call that is cut short or settles is not waiting for a first build.
LEMMA CutShortTo ==
  ASSUME Core, NEW c \in Callers
  PROVE  /\ CutShort(c) => caller'[c] = Idle \/ caller'[c] = Settled(0)
         /\ \A n : Settle(c, n) => caller'[c] = Settled(n)
         /\ Idle.pc = "idle" /\ Idle.mode = "ensure" /\ \A n : Settled(n).pc = "stamp" /\ Settled(n).mode = "settle"
<1>1. caller \in [Callers -> CallerStates]
  BY DEF Core, TypeOK
<1>2. Idle.pc = "idle" /\ Idle.mode = "ensure"
  BY DEF Idle
<1>3. \A n : Settled(n).pc = "stamp" /\ Settled(n).mode = "settle"
  BY DEF Settled, Idle
<1>4. \A n : Settle(c, n) => caller'[c] = Settled(n)
  BY <1>1 DEF Settle, Settled
<1>5. Return(c) => caller'[c] = Idle
  BY <1>1 DEF Return
<1> QED
  BY <1>2, <1>3, <1>4, <1>5 DEF CutShort

\* A call starts from nothing.
LEMMA CallsTo ==
  ASSUME Core, NEW c \in Callers, Calls(c)
  PROVE  \E op, pc : pc \in {"stamp", "queued"} /\ caller'[c] = [Idle EXCEPT !.pc = pc, !.op = op]
<1>1. caller \in [Callers -> CallerStates]
  BY DEF Core, TypeOK
<1>2. PICK op : Call(c, op)
  BY DEF Calls
<1>3. \/ caller' = [caller EXCEPT ![c] = [Idle EXCEPT !.pc = "stamp", !.op = op]]
      \/ caller' = [caller EXCEPT ![c] = [Idle EXCEPT !.pc = "queued", !.op = op]]
  BY <1>2 DEF Call
<1> QED
  BY <1>1, <1>3

LEMMA MoverOwners ==
  ASSUME Main, NEW c \in Callers, Moves(c)
  PROVE  OwnersInv'
<1>1. /\ job \in [Jobs -> JobStates] /\ caller \in [Callers -> CallerStates]
      /\ caller[c] \in CallerStates /\ GoodCaller(caller[c]) /\ Home[c] \in Procs
  BY Waited DEF Main, Core, TypeOK
<1>2. UNCHANGED caller \/ \A d \in Callers \ {c} : caller'[d] = caller[d]
  BY MoverTypes, MovesTo DEF Main
<1> DEFINE j == caller[c].job
<1>3. CASE ColdBuild(c)
  <2>1. Launch(c, "cold") /\ caller[c].pc = "cold"
    BY <1>3 DEF ColdBuild
  <2>2. caller[c].op # "index"
    BY <1>1, <2>1 DEF GoodCaller, CallerStates
  <2> QED
    BY <2>1, <2>2, LaunchOwners
<1>4. CASE Index(c)
  <2>1. Launch(c, "index") /\ caller[c].pc = "index"
    BY <1>4 DEF Index
  <2>2. caller[c].op = "index"
    BY <1>1, <2>1 DEF GoodCaller
  <2> QED
    BY <2>1, <2>2, LaunchOwners
<1>5. CASE ServeKnownFailure(c) \/ LaunchAsync(c)
  <2>1. caller[c].pc = "warm" /\ caller'[c].pc = "using"
    BY <1>1, <1>5 DEF ServeKnownFailure, LaunchAsync, ServeStale, CallerStates
  <2>2. ASSUME NEW k \in Jobs
        PROVE  LET b == Superseded(Home[c])[k] IN
               b.owner = job[k].owner /\ b.phase = job[k].phase /\ b.kind = job[k].kind /\ b.proc = job[k].proc
    <3>1. job[k] \in JobStates
      BY <1>1
    <3>2. CASE k = builds[Home[c]]
      <4>1. Superseded(Home[c])[k] = [job[k] EXCEPT !.live = FALSE, !.done = 1]
        BY <1>1, <3>2, SupersededEffect DEF Main
      <4> QED
        BY <3>1, <4>1 DEF JobStates
    <3>3. CASE k # builds[Home[c]]
      BY <1>1, <3>3, SupersededEffect DEF Main
    <3> QED
      BY <3>2, <3>3
  <2>3. CASE ServeKnownFailure(c)
    <3>1. job' = Superseded(Home[c])
      BY <2>3 DEF ServeKnownFailure
    <3>2. SameOwners
      BY <2>2, <3>1 DEF SameOwners
    <3> QED
      BY <1>2, <2>1, <3>2, OwnersKept
  <2>4. CASE LaunchAsync(c)
    <3> DEFINE b == NewJob(Home[c], "async", None, caller[c].cur)
    <3>1. PICK i \in Jobs : Allocatable(i) /\ job' = [Superseded(Home[c]) EXCEPT ![i] = b]
      BY <2>4 DEF LaunchAsync
    <3>2. b.owner = None
      BY DEF NewJob, Gone
    <3> HIDE DEF b
    <3>3. Superseded(Home[c]) \in [Jobs -> JobStates]
      BY <1>1, SupersededEffect DEF Main
    <3>4. SameOwners
      BY <2>2, <3>1, <3>2, <3>3, SpareFacts DEF SameOwners
    <3> QED
      BY <1>2, <2>1, <3>4, OwnersKept
  <2> QED
    BY <1>5, <2>3, <2>4
<1>6. CASE CancelIndex(c)
  <2>1. UNCHANGED caller /\ j \in Jobs /\ job' = [job EXCEPT ![j].live = FALSE]
    BY <1>6, Waited DEF CancelIndex
  <2>2. SameOwners
    BY <1>1, <2>1 DEF SameOwners, JobStates
  <2> QED
    BY <2>1, <2>2, OwnersKept
<1>7. CASE finishColdBuild(c) \/ Abandon(c)
  <2>1. caller[c].pc = "coldwait" /\ j \in Jobs
    BY <1>7, Waited DEF finishColdBuild, Abandon
  <2>2. caller'[c].pc # "coldwait"
    <3>1. CutShort(c) \/ caller' = [caller EXCEPT ![c].pc = "retire", ![c].job = None]
      BY <1>7 DEF finishColdBuild, Abandon
    <3> QED
      BY <1>1, <3>1, CutShortTo DEF Main, CallerStates
  <2>3. Gone.owner = None
    BY DEF Gone
  <2>4. job'[j].owner = None /\ \A k \in Jobs \ {j} : job'[k] = job[k]
    <3>1. job' = [job EXCEPT ![j] = Gone] \/ job' = [job EXCEPT ![j].owner = None]
      BY <1>7 DEF finishColdBuild, Abandon
    <3>2. job[j] \in JobStates
      BY <1>1, <2>1
    <3>3. job'[j] = Gone \/ job'[j] = [job[j] EXCEPT !.owner = None]
      BY <1>1, <2>1, <3>1
    <3>4. job'[j].owner = None
      BY <2>3, <3>2, <3>3 DEF JobStates
    <3>5. \A k \in Jobs \ {j} : job'[k] = job[k]
      BY <1>1, <2>1, <3>1
    <3> QED
      BY <3>4, <3>5
  <2> QED
    BY <1>2, <2>1, <2>2, <2>4, LetGoOwners
<1>8. CASE Wake(c) \/ TimeOut(c)
  <2>1. caller[c].pc = "await" /\ j \in Jobs /\ \E n : Settle(c, n)
    BY <1>8, Waited DEF Wake, TimeOut
  <2>2. caller'[c].pc # "coldwait"
    BY <2>1, CutShortTo DEF Main
  <2>3. UNCHANGED job \/ (~Alive(j) /\ job' = [job EXCEPT ![j] = Gone])
    BY <1>8 DEF Wake, TimeOut, Forget
  <2>4. ~Alive(j) => job[j].phase = "gone" /\ job[j].owner = None
    BY <2>1 DEF Alive, Main, Core, GoodJob
  <2>5. Gone.owner = None
    BY DEF Gone
  <2>6. SameOwners
    BY <1>1, <2>1, <2>3, <2>4, <2>5 DEF SameOwners
  <2> QED
    BY <1>2, <2>1, <2>2, <2>6, OwnersKept
<1> QED
  BY <1>3, <1>4, <1>5, <1>6, <1>7, <1>8, QuietOwners, MoverCases

\* What becomes of a build that ends, or gets closer to it.
LEMMA EndsEffect ==
  ASSUME Main, NEW j \in Jobs, Ends(j)
  PROVE  /\ \A k \in Jobs \ {j} : job'[k] = job[k]
         /\ \/ \E d, o : job'[j] = Ended(j, d, o)
            \/ job'[j] = Gone
            \/ job'[j] = [job[j] EXCEPT !.phase = "signal"]
            \/ job'[j] = [job[j] EXCEPT !.phase = "retire"]
<1>1. job \in [Jobs -> JobStates]
  BY DEF Main, Core, TypeOK
<1>2. CASE Discard(j) \/ FailAsync(j) \/ Signal(j)
  <2>1. PICK d, o : job' = [job EXCEPT ![j] = Ended(j, d, o)]
    BY <1>2 DEF Discard, FailAsync, Signal
  <2> QED
    BY <1>1, <2>1
<1>3. CASE SucceedAsync(j)
  BY <1>1, <1>3 DEF SucceedAsync
<1>4. CASE RecordAbandoned(j) \/ RetireAbandoned(j)
  <2>1. \/ job' = [job EXCEPT ![j] = Gone]
        \/ job' = [job EXCEPT ![j] = [job[j] EXCEPT !.phase = "retire"]]
    BY <1>4 DEF RecordAbandoned, RetireAbandoned
  <2> QED
    BY <1>1, <2>1
<1> QED
  BY <1>2, <1>3, <1>4 DEF Ends

LEMMA WorkOwners ==
  ASSUME Main, NEW j \in Jobs, Works(j)
  PROVE  OwnersInv'
<1>1. job \in [Jobs -> JobStates] /\ GoodJob(job[j]) /\ job[j] \in JobStates
  BY DEF Main, Core, TypeOK
<1>2. UNCHANGED caller
  BY OthersKeepCallers
<1>3. CASE Builds(j)
  <2>1. SameOwners
    BY <1>3, BuildsEffect DEF SameOwners, Continues, Main
  <2> QED
    BY <1>2, <2>1, OwnersKept
<1>4. CASE Ends(j)
  <2>1. job[j].owner = None /\ (job[j].kind = "async" \/ job[j].kind = "cold")
    BY <1>1, <1>4 DEF Ends, Discard, FailAsync, SucceedAsync, Signal, RecordAbandoned, RetireAbandoned,
                      GoodJob, JobStates
  <2>4. \A k \in Jobs \ {j} : job'[k] = job[k]
    BY <1>4, EndsEffect
  <2>5. job'[j].owner = None
    <3>1. \A d, o : Ended(j, d, o).owner = None
      BY DEF Ended, Gone
    <3>2. Gone.owner = None
      BY DEF Gone
    <3>3. [job[j] EXCEPT !.phase = "signal"].owner = None /\ [job[j] EXCEPT !.phase = "retire"].owner = None
      BY <1>1, <2>1 DEF JobStates
    <3>4. (\E d, o : job'[j] = Ended(j, d, o)) => job'[j].owner = None
      BY <3>1
    <3>5. job'[j] = [job[j] EXCEPT !.phase = "signal"] => job'[j].owner = None
      BY <3>3
    <3>6. job'[j] = [job[j] EXCEPT !.phase = "retire"] => job'[j].owner = None
      BY <3>3
    <3> QED
      BY <1>4, <3>2, <3>4, <3>5, <3>6, EndsEffect
  <2>6. ASSUME NEW c \in Callers, caller[c].pc = "coldwait"
        PROVE  caller[c].job # j
    BY <2>1, <2>6, ManagerAssumption DEF Main, OwnersInv
  <2>7. ASSUME NEW c \in Callers, caller'[c].pc = "coldwait"
        PROVE  LET b == job'[caller'[c].job] IN
               /\ b.phase # "gone" /\ b.kind # "async" /\ b.owner = c /\ b.proc = Home[c]
               /\ b.kind = "index" <=> caller'[c].op = "index"
    <3>1. caller'[c] = caller[c] /\ caller[c].job \in Jobs /\ job'[caller[c].job] = job[caller[c].job]
      BY <1>2, <2>4, <2>6, <2>7, Waited
    <3> QED
      BY <2>7, <3>1 DEF Main, OwnersInv
  <2>8. ASSUME NEW k \in Jobs, job'[k].owner # None
        PROVE  caller'[job'[k].owner].pc = "coldwait" /\ caller'[job'[k].owner].job = k
    BY <1>2, <2>4, <2>5, <2>8 DEF Main, OwnersInv
  <2> QED
    BY <2>7, <2>8 DEF OwnersInv
<1> QED
  BY <1>3, <1>4, WorkCases

LEMMA CloseBuildsEffect ==
  ASSUME Main, NEW p \in Procs, CloseBuilds(p)
  PROVE  \A k \in Jobs : /\ k = builds[p] => job'[k] = [job[k] EXCEPT !.live = FALSE]
                         /\ k # builds[p] => job'[k] = job[k]
<1>1. job \in [Jobs -> JobStates] /\ None \notin Jobs /\ builds[p] \in Jobs \cup {None}
  BY ManagerAssumption DEF Main, Core, TypeOK
<1> QED
  BY <1>1 DEF CloseBuilds

LEMMA EnvironOwners ==
  ASSUME Main, Environs
  PROVE  OwnersInv'
<1>1. UNCHANGED caller
  BY OthersKeepCallers
<1>2. SameOwners
  <2>1. ASSUME NEW p \in Procs, CloseBuilds(p)
        PROVE  SameOwners
    <3>1. ASSUME NEW k \in Jobs
          PROVE  /\ job'[k].owner = job[k].owner /\ job'[k].phase = job[k].phase
                 /\ job'[k].kind = job[k].kind /\ job'[k].proc = job[k].proc
      <4>1. job[k] \in JobStates
        BY DEF Main, Core, TypeOK
      <4>2. job'[k] = job[k] \/ job'[k] = [job[k] EXCEPT !.live = FALSE]
        BY <2>1, CloseBuildsEffect
      <4> QED
        BY <4>1, <4>2 DEF JobStates
    <3> QED
      BY <3>1 DEF SameOwners
  <2>2. ASSUME Edit \/ \E p \in Procs : StampExpires(p) \/ CloseHandles(p)
        PROVE  SameOwners
    <3>1. UNCHANGED job
      BY <2>2 DEF Edit, StampExpires, CloseHandles
    <3> QED
      BY <3>1 DEF SameOwners
  <2> QED
    BY <2>1, <2>2 DEF Environs
<1> QED
  BY <1>1, <1>2, OwnersKept

LEMMA CrashEffect ==
  ASSUME Main, NEW p \in Procs, Crash(p)
  PROVE  /\ \A c \in Callers : /\ Home[c] = p => caller'[c] = Idle
                               /\ Home[c] # p => caller'[c] = caller[c]
         /\ \A k \in Jobs : /\ job[k].proc = p => job'[k] = Gone
                            /\ job[k].proc # p => job'[k] = job[k]
BY DEF Crash

LEMMA CrashOwners ==
  ASSUME Main, NEW p \in Procs, Crash(p)
  PROVE  OwnersInv'
<1>1. Idle.pc = "idle" /\ Gone.owner = None
  BY DEF Idle, Gone
<1>2. ASSUME NEW c \in Callers, caller'[c].pc = "coldwait"
      PROVE  LET b == job'[caller'[c].job] IN
             /\ b.phase # "gone" /\ b.kind # "async" /\ b.owner = c /\ b.proc = Home[c]
             /\ b.kind = "index" <=> caller'[c].op = "index"
  <2>1. Home[c] # p /\ caller'[c] = caller[c]
    BY <1>1, <1>2, CrashEffect
  <2>2. caller[c].job \in Jobs /\ job[caller[c].job].proc = Home[c]
    BY <1>2, <2>1, Waited DEF Main, OwnersInv
  <2> QED
    BY <1>2, <2>1, <2>2, CrashEffect DEF Main, OwnersInv
<1>3. ASSUME NEW k \in Jobs, job'[k].owner # None
      PROVE  caller'[job'[k].owner].pc = "coldwait" /\ caller'[job'[k].owner].job = k
  <2>1. job[k].proc # p /\ job'[k] = job[k]
    BY <1>1, <1>3, CrashEffect
  <2>2. job[k].owner \in Callers
    BY <1>3, <2>1 DEF Main, Core, GoodJob, JobStates
  <2>3. Home[job[k].owner] = job[k].proc
    BY <1>3, <2>1, <2>2 DEF Main, OwnersInv
  <2> QED
    BY <1>3, <2>1, <2>2, <2>3, CrashEffect DEF Main, OwnersInv
<1> QED
  BY <1>2, <1>3 DEF OwnersInv

LEMMA OwnersStep ==
  ASSUME Main, Next
  PROVE  OwnersInv'
BY NextCases, MoverOwners, WorkOwners, EnvironOwners, CrashOwners

-----------------------------------------------------------------------------
(* The registered builds.                                                  *)

\* What the map of builds knows of each build.
BuildFacts(j, b) ==
  /\ b.done <= 1
  /\ b.phase # "gone" /\ b.kind = "async" /\ b.live => builds[b.proc] = j
  /\ b.phase = "signal" => builds[b.proc] = j

LEMMA BuildsInvForm ==
  BuildsInv <=> /\ \A j \in Jobs : BuildFacts(j, job[j])
                /\ \A p \in Procs : builds[p] # None =>
                     /\ job[builds[p]].kind = "async" /\ job[builds[p]].proc = p
                     /\ job[builds[p]].live /\ job[builds[p]].done = 0
BY DEF BuildsInv, BuildFacts, Alive

\* One unregistered build changes, and stays unregistered.
LEMMA EntryBuilds ==
  ASSUME Main, NEW j \in Jobs, UNCHANGED builds,
         \A k \in Jobs \ {j} : job'[k] = job[k],
         \A p \in Procs : builds[p] # j,
         job'[j].done <= 1, job'[j].phase # "signal",
         job'[j].phase = "gone" \/ job'[j].kind # "async" \/ job'[j].live = FALSE
  PROVE  BuildsInv'
<1>1. \A p \in Procs : builds[p] # None => builds[p] \in Jobs \ {j}
  BY DEF Main, Core, TypeOK
<1>2. \A p \in Procs : builds'[p] # None =>
        /\ job'[builds'[p]].kind = "async" /\ job'[builds'[p]].proc = p
        /\ job'[builds'[p]].live /\ job'[builds'[p]].done = 0
  BY <1>1 DEF Main, BuildsInv
<1>3. \A k \in Jobs :
        /\ job'[k].done <= 1
        /\ job'[k].phase # "gone" /\ job'[k].kind = "async" /\ job'[k].live => builds'[job'[k].proc] = k
        /\ job'[k].phase = "signal" => builds'[job'[k].proc] = k
  BY DEF Main, BuildsInv, Alive
<1> QED
  BY <1>2, <1>3 DEF BuildsInv, Alive

\* The registered build is alive.
LEMMA RegisteredAlive ==
  ASSUME Main, NEW p \in Procs, builds[p] # None
  PROVE  /\ builds[p] \in Jobs /\ job[builds[p]].phase # "gone" /\ job[builds[p]].kind = "async"
         /\ job[builds[p]].proc = p /\ job[builds[p]].done = 0 /\ job[builds[p]].live
<1>1. builds[p] \in Jobs
  BY DEF Main, Core, TypeOK
<1>2. GoodJob(job[builds[p]])
  BY <1>1 DEF Main, Core
<1>3. /\ job[builds[p]].kind = "async" /\ job[builds[p]].proc = p /\ job[builds[p]].done = 0
      /\ job[builds[p]].live
  BY DEF Main, BuildsInv
<1> QED
  BY <1>1, <1>2, <1>3 DEF GoodJob

LEMMA MoverBuilds ==
  ASSUME Main, NEW c \in Callers, Moves(c)
  PROVE  BuildsInv'
<1>1. job \in [Jobs -> JobStates] /\ Home[c] \in Procs
  BY Waited DEF Main, Core, TypeOK
<1> DEFINE j == caller[c].job
<1>2. CASE Quiet(c)
  BY <1>2, QuietEffect DEF Main, BuildsInv, Alive
<1>3. CASE ColdBuild(c) \/ Index(c)
  <2>1. PICK kind \in {"cold", "index"} : Launch(c, kind) /\ UNCHANGED builds
    BY <1>3 DEF ColdBuild, Index, procVars
  <2> DEFINE b == NewJob(Home[c], kind, c, caller[c].cur)
  <2>2. PICK i \in Jobs : Allocatable(i) /\ job' = [job EXCEPT ![i] = b]
    BY <2>1 DEF Launch
  <2>3. b.kind # "async" /\ b.done = 0 /\ b.phase = "flock"
    BY DEF NewJob, Gone
  <2> HIDE DEF b
  <2>4. job'[i] = b /\ \A k \in Jobs \ {i} : job'[k] = job[k]
    BY <1>1, <2>2
  <2>5. \A p \in Procs : builds[p] # i
    BY <2>2, SpareFacts
  <2>6. /\ job'[i].done <= 1 /\ job'[i].phase # "signal"
        /\ job'[i].phase = "gone" \/ job'[i].kind # "async" \/ job'[i].live = FALSE
    BY <2>3, <2>4
  <2> QED
    BY <2>1, <2>4, <2>5, <2>6, EntryBuilds
<1>4. CASE CancelIndex(c) \/ finishColdBuild(c) \/ Abandon(c)
  <2>1. /\ j \in Jobs /\ caller[c].pc = "coldwait" /\ job[j].kind # "async" /\ GoodJob(job[j])
    BY <1>4, Waited DEF CancelIndex, finishColdBuild, Abandon, Main, Core
  <2>2. UNCHANGED builds
    BY <1>4 DEF CancelIndex, finishColdBuild, Abandon, procVars
  <2>3. \A p \in Procs : builds[p] # j
    BY <2>1, RegisteredAlive, ManagerAssumption
  <2>4. job[j].done = 0 /\ job[j].phase # "signal" /\ job[j] \in JobStates
    BY <2>1 DEF GoodJob
  <2>5. Gone.done = 0 /\ Gone.phase = "gone"
    BY DEF Gone
  <2>6. /\ \A k \in Jobs \ {j} : job'[k] = job[k]
        /\ \/ job'[j] = [job[j] EXCEPT !.live = FALSE]
           \/ job'[j] = Gone
           \/ job'[j] = [job[j] EXCEPT !.owner = None]
    BY <1>1, <1>4, <2>1 DEF CancelIndex, finishColdBuild, Abandon
  <2>7. job'[j].done = 0 /\ job'[j].phase # "signal" /\ (job'[j].phase = "gone" \/ job'[j].kind # "async")
    BY <2>1, <2>4, <2>5, <2>6 DEF JobStates
  <2>8. /\ job'[j].done <= 1 /\ job'[j].phase # "signal"
        /\ job'[j].phase = "gone" \/ job'[j].kind # "async" \/ job'[j].live = FALSE
    BY <2>7
  <2> HIDE DEF j
  <2> QED
    BY <2>1, <2>2, <2>3, <2>6, <2>8, EntryBuilds
<1>5. CASE Wake(c) \/ TimeOut(c)
  <2>1. j \in Jobs /\ UNCHANGED builds
    BY <1>5, Waited DEF Wake, TimeOut, procVars
  <2>2. UNCHANGED job \/ (~Alive(j) /\ job' = [job EXCEPT ![j] = Gone])
    BY <1>5 DEF Wake, TimeOut, Forget
  <2>3. CASE UNCHANGED job
    BY <2>1, <2>3 DEF Main, BuildsInv, Alive
  <2>4. CASE ~Alive(j) /\ job' = [job EXCEPT ![j] = Gone]
    <3>1. \A p \in Procs : builds[p] # j
      BY <2>1, <2>4, RegisteredAlive, ManagerAssumption DEF Alive
    <3>2. Gone.done = 0 /\ Gone.phase = "gone"
      BY DEF Gone
    <3>3. job'[j] = Gone /\ \A k \in Jobs \ {j} : job'[k] = job[k]
      BY <1>1, <2>1, <2>4
    <3>4. /\ job'[j].done <= 1 /\ job'[j].phase # "signal"
          /\ job'[j].phase = "gone" \/ job'[j].kind # "async" \/ job'[j].live = FALSE
      BY <3>2, <3>3
    <3> HIDE DEF j
    <3> QED
      BY <2>1, <3>1, <3>3, <3>4, EntryBuilds
  <2> QED
    BY <2>2, <2>3, <2>4
<1>6. CASE ServeKnownFailure(c) \/ LaunchAsync(c)
  <2> DEFINE p == Home[c]
             S == Superseded(p)
             b == NewJob(p, "async", None, caller[c].cur)
  <2>1. /\ S \in [Jobs -> JobStates]
        /\ \A k \in Jobs : /\ k # builds[p] => S[k] = job[k]
                           /\ k = builds[p] => S[k] = [job[k] EXCEPT !.live = FALSE, !.done = 1]
    BY <1>1, SupersededEffect DEF Main
  <2>2. \A k \in Jobs : job[k].proc = p => job[k].phase # "signal"
    BY <1>6 DEF ServeKnownFailure, LaunchAsync, buildsMuFree
  <2>3. ASSUME NEW k \in Jobs
        PROVE  /\ S[k].done <= 1
               /\ S[k].phase = job[k].phase /\ S[k].proc = job[k].proc /\ S[k].kind = job[k].kind
               /\ S[k].phase # "gone" /\ S[k].kind = "async" /\ S[k].live =>
                    S[k].proc # p /\ builds[S[k].proc] = k
               /\ S[k].phase = "signal" => S[k].proc # p /\ builds[S[k].proc] = k
    <3>1. job[k] \in JobStates
      BY <1>1
    <3>2. CASE k = builds[p]
      <4>1. S[k] = [job[k] EXCEPT !.live = FALSE, !.done = 1]
        BY <2>1, <3>2
      <4>2. S[k].done = 1 /\ S[k].live = FALSE /\ S[k].phase = job[k].phase /\ S[k].proc = job[k].proc
            /\ S[k].kind = job[k].kind
        BY <3>1, <4>1 DEF JobStates
      <4>3. job[k].proc = p
        BY <1>1, <3>2, RegisteredAlive, ManagerAssumption
      <4> QED
        BY <2>2, <4>2, <4>3
    <3>3. CASE k # builds[p]
      <4>1. S[k] = job[k]
        BY <2>1, <3>3
      <4> QED
        BY <2>2, <3>3, <4>1 DEF Main, BuildsInv, Alive
    <3> QED
      BY <3>2, <3>3
  <2>4. ASSUME NEW q \in Procs, q # p, builds[q] # None
        PROVE  builds[q] \in Jobs /\ S[builds[q]] = job[builds[q]]
    <3>1. builds[q] \in Jobs /\ job[builds[q]].proc = q
      BY <2>4, RegisteredAlive
    <3>2. builds[q] # builds[p]
      BY <1>1, <2>4, <3>1, RegisteredAlive
    <3> QED
      BY <2>1, <3>1, <3>2
  <2> HIDE DEF S
  <2>5. builds \in [Procs -> Jobs \cup {None}] /\ None \notin Jobs
    BY ManagerAssumption DEF Main, Core, TypeOK
  <2>6. CASE ServeKnownFailure(c)
    <3>1. job' = S /\ builds' = [builds EXCEPT ![p] = None]
      BY <2>6 DEF ServeKnownFailure, S
    <3>2. \A k \in Jobs :
        /\ job'[k].done <= 1
        /\ job'[k].phase # "gone" /\ job'[k].kind = "async" /\ job'[k].live => builds'[job'[k].proc] = k
        /\ job'[k].phase = "signal" => builds'[job'[k].proc] = k
      BY <2>3, <2>5, <3>1
    <3>3. \A q \in Procs : builds'[q] # None =>
        /\ job'[builds'[q]].kind = "async" /\ job'[builds'[q]].proc = q
        /\ job'[builds'[q]].live /\ job'[builds'[q]].done = 0
      BY <2>4, <2>5, <3>1 DEF Main, BuildsInv
    <3> QED
      BY <3>2, <3>3 DEF BuildsInv, Alive
  <2>7. CASE LaunchAsync(c)
    <3>1. PICK i \in Jobs : Allocatable(i) /\ job' = [S EXCEPT ![i] = b] /\ builds' = [builds EXCEPT ![p] = i]
      BY <2>7 DEF LaunchAsync, S
    <3>2. b.done = 0 /\ b.kind = "async" /\ b.live = TRUE /\ b.proc = p /\ b.phase = "flock"
      BY DEF NewJob, Gone
    <3> HIDE DEF b
    <3>3. job'[i] = b /\ builds'[p] = i /\ i \in Jobs /\ i # None
      BY <1>1, <2>1, <2>5, <3>1
    <3>4. \A k \in Jobs \ {i} : job'[k] = S[k]
      BY <2>1, <3>1
    <3>5. \A q \in Procs \ {p} : builds'[q] = builds[q] /\ builds[q] # i
      BY <2>5, <3>1, SpareFacts
    <3>6. ASSUME NEW k \in Jobs
          PROVE  /\ job'[k].done <= 1
                 /\ job'[k].phase # "gone" /\ job'[k].kind = "async" /\ job'[k].live => builds'[job'[k].proc] = k
                 /\ job'[k].phase = "signal" => builds'[job'[k].proc] = k
      <4>1. CASE k = i
        BY <3>2, <3>3, <4>1
      <4>2. CASE k # i
        <5>1. job'[k] = S[k]
          BY <3>4, <4>2
        <5>2. S[k].phase # "gone" => S[k].proc \in Procs
          BY <2>3 DEF Main, Core, GoodJob
        <5>3. S[k].phase # "gone" /\ S[k].proc # p => builds'[S[k].proc] = builds[S[k].proc]
          BY <3>5, <5>2
        <5> QED
          BY <2>3, <5>1, <5>3
      <4> QED
        BY <4>1, <4>2
    <3>7. ASSUME NEW q \in Procs, builds'[q] # None
          PROVE  /\ job'[builds'[q]].kind = "async" /\ job'[builds'[q]].proc = q
                 /\ job'[builds'[q]].live /\ job'[builds'[q]].done = 0
      <4>1. CASE q = p
        BY <3>2, <3>3, <4>1
      <4>2. CASE q # p
        <5>1. builds'[q] = builds[q] /\ builds[q] # i /\ builds[q] \in Jobs /\ S[builds[q]] = job[builds[q]]
          BY <2>4, <3>5, <3>7, <4>2
        <5> QED
          BY <3>4, <3>7, <5>1 DEF Main, BuildsInv
      <4> QED
        BY <4>1, <4>2
    <3> QED
      BY <3>6, <3>7 DEF BuildsInv, Alive
  <2> QED
    BY <1>6, <2>6, <2>7
<1> QED
  BY <1>2, <1>3, <1>4, <1>5, <1>6, MoverCases

LEMMA WorkBuilds ==
  ASSUME Main, NEW j \in Jobs, Works(j)
  PROVE  BuildsInv'
<1>1. /\ job \in [Jobs -> JobStates] /\ GoodJob(job[j]) /\ job[j] \in JobStates
      /\ builds \in [Procs -> Jobs \cup {None}] /\ None \notin Jobs
  BY ManagerAssumption DEF Main, Core, TypeOK
<1> DEFINE p == job[j].proc
<1>2. CASE Builds(j)
  <2>1. UNCHANGED builds /\ \A k \in Jobs : Continues(job[k], job'[k])
    BY <1>2, BuildsEffect DEF Main
  <2>2. \A k \in Jobs :
          /\ job'[k].done <= 1
          /\ job'[k].phase # "gone" /\ job'[k].kind = "async" /\ job'[k].live => builds[job'[k].proc] = k
          /\ job'[k].phase = "signal" => builds[job'[k].proc] = k
    BY <2>1 DEF Continues, Main, BuildsInv, Alive
  <2>3. \A q \in Procs : builds[q] # None =>
          /\ job'[builds[q]].kind = "async" /\ job'[builds[q]].proc = q
          /\ job'[builds[q]].live /\ job'[builds[q]].done = 0
    BY <1>1, <2>1 DEF Continues, Main, BuildsInv
  <2> QED
    BY <2>1, <2>2, <2>3 DEF BuildsInv, Alive
<1>3. \A d, o : Ended(j, d, o).phase = "gone" /\ (Ended(j, d, o).done = d \/ Ended(j, d, o).done = 0)
  BY DEF Ended, Gone
<1>4. Gone.phase = "gone" /\ Gone.done = 0
  BY DEF Gone
<1>5. job[j].done <= 1
  BY DEF Main, BuildsInv
<1>6. CASE Discard(j)
  <2>1. /\ job' = [job EXCEPT ![j] = Ended(j, job[j].done, 0)] /\ UNCHANGED builds
        /\ builds[p] # j
    BY <1>6 DEF Discard, procVars
  <2>2. job'[j] = Ended(j, job[j].done, 0) /\ \A k \in Jobs \ {j} : job'[k] = job[k]
    BY <1>1, <2>1
  <2>3. \A q \in Procs : builds[q] # j
    BY <1>1, <2>1, RegisteredAlive
  <2>4. job'[j].done <= 1 /\ job'[j].phase = "gone" /\ job'[j].phase # "signal"
    BY <1>3, <1>5, <2>2
  <2> QED
    BY <2>1, <2>2, <2>3, <2>4, EntryBuilds
<1>7. CASE RecordAbandoned(j) \/ RetireAbandoned(j)
  <2>1. /\ job[j].kind # "async" /\ UNCHANGED builds
        /\ \/ job' = [job EXCEPT ![j] = Gone]
           \/ job' = [job EXCEPT ![j] = [job[j] EXCEPT !.phase = "retire"]]
    BY <1>1, <1>7 DEF RecordAbandoned, RetireAbandoned, GoodJob
  <2>2. \A q \in Procs : builds[q] # j
    BY <1>1, <2>1, RegisteredAlive
  <2>3. \A k \in Jobs \ {j} : job'[k] = job[k]
    BY <1>1, <2>1
  <2>4. /\ job'[j].done <= 1 /\ job'[j].phase # "signal"
        /\ job'[j].phase = "gone" \/ job'[j].kind # "async" \/ job'[j].live = FALSE
    <3>1. job'[j] = Gone \/ job'[j] = [job[j] EXCEPT !.phase = "retire"]
      BY <1>1, <2>1
    <3> QED
      BY <1>1, <1>4, <1>5, <2>1, <3>1 DEF JobStates
  <2> QED
    BY <2>1, <2>2, <2>3, <2>4, EntryBuilds
<1>8. CASE FailAsync(j) \/ Signal(j)
  <2>1. /\ builds[p] = j /\ p \in Procs /\ builds' = [builds EXCEPT ![p] = None]
    BY <1>1, <1>8 DEF FailAsync, Signal, GoodJob, Main, BuildsInv
  <2>2. job[j].done = 0
    BY <1>1, <2>1, RegisteredAlive
  <2>3. PICK o : job' = [job EXCEPT ![j] = Ended(j, job[j].done + 1, o)]
    BY <1>8 DEF FailAsync, Signal
  <2>4. job'[j] = Ended(j, job[j].done + 1, o) /\ \A k \in Jobs \ {j} : job'[k] = job[k]
    BY <1>1, <2>3
  <2>5. job'[j].done <= 1 /\ job'[j].phase = "gone"
    BY <1>3, <2>2, <2>4
  <2>6. \A k \in Jobs \ {j} : job[k].phase # "gone" /\ builds[job[k].proc] = k => builds'[job[k].proc] = k
    <3>1. \A k \in Jobs : job[k].phase # "gone" => job[k].proc \in Procs
      BY DEF Main, Core, GoodJob
    <3> QED
      BY <1>1, <2>1, <3>1
  <2>7. \A k \in Jobs :
          /\ job'[k].done <= 1
          /\ job'[k].phase # "gone" /\ job'[k].kind = "async" /\ job'[k].live => builds'[job'[k].proc] = k
          /\ job'[k].phase = "signal" => builds'[job'[k].proc] = k
    BY <2>4, <2>5, <2>6 DEF Main, BuildsInv, Alive
  <2>8. ASSUME NEW q \in Procs, builds'[q] # None
        PROVE  /\ job'[builds'[q]].kind = "async" /\ job'[builds'[q]].proc = q
               /\ job'[builds'[q]].live /\ job'[builds'[q]].done = 0
    <3>1. q # p /\ builds'[q] = builds[q]
      BY <1>1, <2>1, <2>8
    <3>2. builds[q] \in Jobs \ {j}
      BY <2>1, <2>8, <3>1, RegisteredAlive
    <3> QED
      BY <2>4, <2>8, <3>1, <3>2, RegisteredAlive
  <2> QED
    BY <2>7, <2>8 DEF BuildsInv, Alive
<1>9. CASE SucceedAsync(j)
  <2>1. /\ builds[p] = j /\ UNCHANGED builds /\ job' = [job EXCEPT ![j] = [job[j] EXCEPT !.phase = "signal"]]
        /\ job[j].phase = "finish"
    BY <1>9 DEF SucceedAsync
  <2>2. job'[j] = [job[j] EXCEPT !.phase = "signal"] /\ \A k \in Jobs \ {j} : job'[k] = job[k]
    BY <1>1, <2>1
  <2>3. /\ job'[j].phase = "signal" /\ job'[j].proc = p /\ job'[j].kind = job[j].kind
        /\ job'[j].live = job[j].live /\ job'[j].done = job[j].done
    BY <1>1, <2>2 DEF JobStates
  <2>4. \A k \in Jobs :
          /\ job'[k].done <= 1
          /\ job'[k].phase # "gone" /\ job'[k].kind = "async" /\ job'[k].live => builds'[job'[k].proc] = k
          /\ job'[k].phase = "signal" => builds'[job'[k].proc] = k
    BY <2>1, <2>2, <2>3 DEF Main, BuildsInv, Alive
  <2>5. \A q \in Procs : builds'[q] # None =>
          /\ job'[builds'[q]].kind = "async" /\ job'[builds'[q]].proc = q
          /\ job'[builds'[q]].live /\ job'[builds'[q]].done = 0
    BY <1>1, <2>1, <2>2, <2>3, RegisteredAlive
  <2> QED
    BY <2>4, <2>5 DEF BuildsInv, Alive
<1> QED
  BY <1>2, <1>6, <1>7, <1>8, <1>9, WorkCases DEF Ends

LEMMA EnvironBuilds ==
  ASSUME Main, Environs
  PROVE  BuildsInv'
<1>1. ASSUME Edit \/ \E p \in Procs : StampExpires(p) \/ CloseHandles(p)
      PROVE  BuildsInv'
  <2>1. UNCHANGED <<job, builds>>
    BY <1>1 DEF Edit, StampExpires, CloseHandles, procVars
  <2> QED
    BY <2>1 DEF Main, BuildsInv, Alive
<1>2. ASSUME NEW p \in Procs, CloseBuilds(p)
      PROVE  BuildsInv'
  <2>1. builds \in [Procs -> Jobs \cup {None}] /\ None \notin Jobs
    BY ManagerAssumption DEF Main, Core, TypeOK
  <2>2. builds' = [builds EXCEPT ![p] = None] /\ \A k \in Jobs : job[k].proc = p => job[k].phase # "signal"
    BY <1>2 DEF CloseBuilds, buildsMuFree
  <2>3. ASSUME NEW k \in Jobs
        PROVE  /\ job'[k].done = job[k].done /\ job'[k].kind = job[k].kind /\ job'[k].proc = job[k].proc
               /\ job'[k].phase = job[k].phase
               /\ k # builds[p] => job'[k].live = job[k].live
               /\ k = builds[p] => job'[k].live = FALSE
    <3>1. job[k] \in JobStates
      BY DEF Main, Core, TypeOK
    <3>2. CASE k = builds[p]
      <4>1. job'[k] = [job[k] EXCEPT !.live = FALSE]
        BY <1>2, <3>2, CloseBuildsEffect
      <4> QED
        BY <3>1, <3>2, <4>1 DEF JobStates
    <3>3. CASE k # builds[p]
      BY <1>2, <3>3, CloseBuildsEffect
    <3> QED
      BY <3>2, <3>3
  <2>4. ASSUME NEW k \in Jobs
        PROVE  /\ job'[k].done <= 1
               /\ job'[k].phase # "gone" /\ job'[k].kind = "async" /\ job'[k].live => builds'[job'[k].proc] = k
               /\ job'[k].phase = "signal" => builds'[job'[k].proc] = k
    <3>1. job[k].phase # "gone" => job[k].proc \in Procs
      BY DEF Main, Core, GoodJob
    <3>2. job[k].phase # "gone" /\ job[k].proc # p => builds'[job[k].proc] = builds[job[k].proc]
      BY <2>1, <2>2, <3>1
    <3>3. job[k].phase # "gone" /\ job[k].kind = "async" /\ k # builds[p] /\ job[k].proc = p => job[k].live # TRUE
      BY DEF Main, BuildsInv, Alive
    <3>4. job'[k].done <= 1
      BY <2>3 DEF Main, BuildsInv
    <3>5. job'[k].phase = "signal" => builds'[job'[k].proc] = k
      <4>1. job[k].phase = "signal" => builds[job[k].proc] = k
        BY DEF Main, BuildsInv
      <4>2. job[k].phase = "signal" => job[k].proc # p
        BY <2>2
      <4> QED
        BY <2>3, <3>2, <4>1, <4>2
    <3>6. job'[k].phase # "gone" /\ job'[k].kind = "async" /\ job'[k].live => builds'[job'[k].proc] = k
      <4>1. CASE k = builds[p]
        BY <2>3, <4>1
      <4>2. CASE k # builds[p]
        <5>1. job'[k].phase = job[k].phase /\ job'[k].kind = job[k].kind /\ job'[k].proc = job[k].proc
              /\ job'[k].live = job[k].live
          BY <2>3, <4>2
        <5>2. job[k].phase # "gone" /\ job[k].kind = "async" /\ job[k].live => builds[job[k].proc] = k
          BY DEF Main, BuildsInv, Alive
        <5> QED
          BY <3>2, <4>2, <5>1, <5>2
      <4> QED
        BY <4>1, <4>2
    <3> QED
      BY <3>4, <3>5, <3>6
  <2>5. ASSUME NEW q \in Procs, builds'[q] # None
        PROVE  /\ job'[builds'[q]].kind = "async" /\ job'[builds'[q]].proc = q
               /\ job'[builds'[q]].live /\ job'[builds'[q]].done = 0
    <3>1. q # p /\ builds'[q] = builds[q]
      BY <2>1, <2>2, <2>5
    <3>2. builds[q] \in Jobs /\ job[builds[q]].proc = q
      BY <2>5, <3>1, RegisteredAlive
    <3>3. builds[q] # builds[p]
      BY <2>1, <3>1, <3>2, RegisteredAlive
    <3>4. job[builds[q]].kind = "async" /\ job[builds[q]].live /\ job[builds[q]].done = 0
      BY <2>5, <3>1, RegisteredAlive
    <3>5. job'[builds[q]].live = job[builds[q]].live
      BY <2>3, <3>2, <3>3
    <3>6. /\ job'[builds[q]].kind = job[builds[q]].kind /\ job'[builds[q]].proc = job[builds[q]].proc
          /\ job'[builds[q]].done = job[builds[q]].done
      BY <2>3, <3>2
    <3> QED
      BY <3>1, <3>2, <3>4, <3>5, <3>6
  <2> QED
    BY <2>4, <2>5 DEF BuildsInv, Alive
<1> QED
  BY <1>1, <1>2 DEF Environs

LEMMA CrashBuilds ==
  ASSUME Main, NEW p \in Procs, Crash(p)
  PROVE  BuildsInv'
<1>1. builds \in [Procs -> Jobs \cup {None}] /\ None \notin Jobs
  BY ManagerAssumption DEF Main, Core, TypeOK
<1>2. builds' = [builds EXCEPT ![p] = None]
  BY DEF Crash
<1>3. Gone.phase = "gone" /\ Gone.done = 0
  BY DEF Gone
<1>4. ASSUME NEW k \in Jobs
      PROVE  /\ job'[k].done <= 1
             /\ job'[k].phase # "gone" /\ job'[k].kind = "async" /\ job'[k].live => builds'[job'[k].proc] = k
             /\ job'[k].phase = "signal" => builds'[job'[k].proc] = k
  <2>1. CASE job[k].proc = p
    BY <1>3, <2>1, CrashEffect
  <2>2. CASE job[k].proc # p
    <3>1. job'[k] = job[k]
      BY <2>2, CrashEffect
    <3>2. job[k].phase # "gone" => job[k].proc \in Procs
      BY DEF Main, Core, GoodJob
    <3>3. job[k].phase # "gone" => builds'[job[k].proc] = builds[job[k].proc]
      BY <1>1, <1>2, <2>2, <3>2
    <3> QED
      BY <3>1, <3>3 DEF Main, BuildsInv, Alive
  <2> QED
    BY <2>1, <2>2
<1>5. ASSUME NEW q \in Procs, builds'[q] # None
      PROVE  /\ job'[builds'[q]].kind = "async" /\ job'[builds'[q]].proc = q
             /\ job'[builds'[q]].live /\ job'[builds'[q]].done = 0
  <2>1. q # p /\ builds'[q] = builds[q]
    BY <1>1, <1>2, <1>5
  <2>2. builds[q] \in Jobs /\ job[builds[q]].proc = q
    BY <1>5, <2>1, RegisteredAlive
  <2> QED
    BY <1>5, <2>1, <2>2, CrashEffect, RegisteredAlive
<1> QED
  BY <1>4, <1>5 DEF BuildsInv, Alive

LEMMA BuildsStep ==
  ASSUME Main, Next
  PROVE  BuildsInv'
BY NextCases, MoverBuilds, WorkBuilds, EnvironBuilds, CrashBuilds

-----------------------------------------------------------------------------
LEMMA InitMain == Init => Main
<1> SUFFICES ASSUME Init
             PROVE  Main
  OBVIOUS
<1>1. /\ \A c \in Callers : caller[c] = Idle
      /\ \A j \in Jobs : job[j] = Gone
      /\ \A p \in Procs : builds[p] = None
  BY DEF Init
<1>2. Idle.pc = "idle" /\ Gone.phase = "gone" /\ Gone.owner = None /\ Gone.done = 0 /\ Gone.live = FALSE
  BY DEF Idle, Gone
<1>3. OwnersInv
  BY <1>1, <1>2 DEF OwnersInv
<1>4. BuildsInv
  BY <1>1, <1>2 DEF BuildsInv, Alive
<1>5. GoodCaller(Idle) /\ Idle \in CallerStates /\ GoodJob(Gone) /\ Gone \in JobStates
  BY IdleGood, GoneGood DEF GoodCaller, GoodJob
<1>6. source \in Versions /\ scene \in Scenes
  BY Bounds DEF Init
<1>7. disk \in Files \cup {Absent}
  <2>1. \A f \in Files : [f EXCEPT !.stamp = Foreign] \in Files
    BY DEF Files
  <2> QED
    BY <2>1 DEF Init, EarlierGraphs
<1>8. HP!IInv
  <2>1. HP!Init
    BY <1>7 DEF Init, HP!Init, H!Garbage, HP!Garbage
  <2> QED
    BY <2>1, HP!InitIInv, HandleAssumptions
<1>9. TypeOK
  <2>1. H!TypeOK
    BY <1>8, HandleTypes
  <2> QED
    BY <1>5, <1>6, <1>7, <2>1, Bounds DEF Init, TypeOK
<1> QED
  BY <1>1, <1>3, <1>4, <1>5, <1>6, <1>8, <1>9 DEF Main, Core

LEMMA StutterMain == Main /\ UNCHANGED vars => Main'
<1> SUFFICES ASSUME Main, UNCHANGED vars
             PROVE  Main'
  OBVIOUS
<1>1. HP!IInv'
  <2>1. UNCHANGED HP!vars
    BY DEF vars, rest, HP!vars
  <2> QED
    BY <2>1, HandleStep DEF Main
<1>2. H!TypeOK'
  BY <1>1, HandleTypes, PTL
<1>3. TypeOK'
  BY <1>2 DEF vars, rest, Main, Core, TypeOK
<1>4. Core'
  BY <1>3 DEF vars, rest, Main, Core, GoodCaller, GoodJob
<1>5. OwnersInv' /\ BuildsInv'
  BY DEF vars, rest, Main, OwnersInv, BuildsInv, Alive
<1> QED
  BY <1>1, <1>4, <1>5 DEF Main

LEMMA MainStep == Main /\ [Next /\ UNCHANGED scene]_vars => Main'
<1>1. Main /\ Next /\ UNCHANGED scene => Main'
  BY CoreStep, OwnersStep, BuildsStep, HandlesStep DEF Main
<1> QED
  BY <1>1, StutterMain

LEMMA MainHolds == Spec => []Main
  BY InitMain, MainStep, PTL DEF Spec

\* RegisteredIsTheLiveBuild: the registered build of a process is the one nobody
\* superseded, and no channel is closed twice (graph.go:197-202, 810-814).
THEOREM RegisteredHolds == Spec => []RegisteredIsTheLiveBuild
<1>1. Main => RegisteredIsTheLiveBuild
  BY DEF Main, Core, BuildsInv, RegisteredIsTheLiveBuild
<1> QED
  BY <1>1, MainHolds, PTL

\* The manager uses its handles as GraphHandles says: what is proved of the
\* protocol holds of the manager (graph.go:217-244).
THEOREM ProtocolHolds == Spec => HandleProtocol
<1>1. Init => H!Init
  <2>1. Init => disk \in Files \cup {Absent}
    BY InitMain DEF Main, Core, TypeOK
  <2> QED
    BY <2>1 DEF Init, H!Init, H!Garbage
<1>2. Main /\ [Next /\ UNCHANGED scene]_vars => [H!Next]_(H!vars)
  <2>1. UNCHANGED vars => UNCHANGED H!vars
    BY DEF vars, rest, H!vars
  <2> QED
    BY <2>1, ProtocolStep
<1> QED
  BY <1>1, <1>2, MainHolds, PTL DEF Spec, HandleProtocol, H!Spec

\* Whatever builds, crashes and shutdowns do, no query loses its handle while it
\* reads (graph.go:210-215).
THEOREM QueriesKeepTheirHandles == Spec => []H!NeverClosedWhileHeld
<1>1. Main => H!NeverClosedWhileHeld
  BY DEF Main, HP!IInv, HP!NeverClosedWhileHeld, H!NeverClosedWhileHeld
<1> QED
  BY <1>1, MainHolds, PTL

-----------------------------------------------------------------------------
(* The file a successful build leaves.                                     *)

LEMMA RenameFile ==
  ASSUME Main, NEW j \in Jobs, Rename(j)
  PROVE  disk' = Published(j) /\ Published(j) \in Files /\ disk' # Absent
<1>1. job[j].phase = "rename" /\ disk' = Published(j)
  BY DEF Rename
<1>2. job[j].stamp \in Versions /\ job[j].content \in Versions
  BY <1>1 DEF Main, Core, GoodJob
<1>3. Published(j) \in Files
  BY <1>2, NextInoTypes DEF Published, Files, Main
<1> QED
  BY <1>1, <1>3, FilesAssumption

\* Once there is a graph there is one, and only a rename replaces it.
LEMMA DiskMoves ==
  ASSUME Main, Next
  PROVE  UNCHANGED disk \/ \E j \in Jobs : Rename(j) /\ disk' = Published(j) /\ disk' # Absent
<1>1. ASSUME NEW c \in Callers, Moves(c)
      PROVE  UNCHANGED disk
  <2>1. ColdBuild(c) \/ Index(c) \/ LaunchAsync(c) \/ ServeKnownFailure(c) => UNCHANGED disk
    BY DEF ColdBuild, Index, LaunchAsync, ServeKnownFailure
  <2>2. CancelIndex(c) \/ finishColdBuild(c) \/ Abandon(c) \/ Wake(c) \/ TimeOut(c) => UNCHANGED disk
    BY DEF CancelIndex, finishColdBuild, Abandon, Wake, TimeOut
  <2> QED
    BY <1>1, <2>1, <2>2, MoverCases, QuietEffect
<1>2. ASSUME NEW j \in Jobs, Works(j)
      PROVE  UNCHANGED disk \/ (Rename(j) /\ disk' = Published(j) /\ disk' # Absent)
  <2>1. TryFlock(j) \/ GiveUpFlock(j) \/ LockUnavailable(j) \/ buildIndex(j) \/ BuildFault(j) => UNCHANGED disk
    BY DEF TryFlock, GiveUpFlock, LockUnavailable, buildIndex, BuildFault
  <2>2. Ends(j) => UNCHANGED disk
    BY DEF Ends, Discard, FailAsync, SucceedAsync, Signal, RecordAbandoned, RetireAbandoned
  <2> QED
    BY <1>2, <2>1, <2>2, RenameFile, WorkCases DEF Builds
<1>3. Environs => UNCHANGED disk
  BY DEF Environs, Edit, StampExpires, CloseHandles, CloseBuilds
<1>4. \A p \in Procs : Crash(p) => UNCHANGED disk
  BY DEF Crash
<1> QED
  BY <1>1, <1>2, <1>3, <1>4, NextCases

\* What a caller's pc and mode become.
LEMMA MoverFile ==
  ASSUME Main, FileInv, NEW c \in Callers, Moves(c), caller'[c].pc = "retire" \/ caller'[c].mode = "built"
  PROVE  disk # Absent
<1>1. /\ caller \in [Callers -> CallerStates] /\ caller[c] \in CallerStates
  BY DEF Main, Core, TypeOK
<1>2. CASE CutShort(c) \/ \E n : Settle(c, n)
  BY <1>2, CutShortTo DEF Main
<1>3. CASE caller'[c].pc # "retire" /\ caller'[c].mode = caller[c].mode
  BY <1>3 DEF FileInv
<1>4. CASE UNCHANGED caller
  BY <1>4 DEF FileInv
<1>5. ASSUME NEW pc, Goto(c, pc), pc # "retire"
      PROVE  caller'[c].pc # "retire" /\ caller'[c].mode = caller[c].mode
  BY <1>1, <1>5 DEF Goto, CallerStates
<1>6. AfterStamp(c) # "retire"
  BY DEF AfterStamp
<1>7. Return(c) => disk # Absent
  <2>1. Return(c) => caller'[c] = Idle
    BY <1>1 DEF Return
  <2> QED
    BY <2>1, CutShortTo DEF Main
<1>8. Calls(c) => disk # Absent
  <2>1. Calls(c) => caller'[c].pc \in {"stamp", "queued"} /\ caller'[c].mode = "ensure"
    BY CallsTo DEF Main, Idle
  <2> QED
    BY <2>1
<1>9. AcquireLock(c) \/ GiveUpLock(c) => disk # Absent
  <2>1. AcquireLock(c) => Goto(c, "stamp")
    BY DEF AcquireLock
  <2>2. GiveUpLock(c) => CutShort(c)
    BY DEF GiveUpLock
  <2> QED
    BY <1>2, <1>3, <1>5, <2>1, <2>2
<1>10. cachedStamp(c) => disk # Absent
  <2>1. cachedStamp(c) => caller'[c].pc # "retire" /\ caller'[c].mode = caller[c].mode
    BY <1>1, <1>6 DEF cachedStamp, CallerStates
  <2> QED
    BY <1>3, <2>1
<1>11. StoreStamp(c) \/ DropForeign(c) => disk # Absent
  BY <1>3, <1>5, <1>6 DEF StoreStamp, DropForeign
<1>12. Open(c) => disk # Absent
  BY <1>3, <1>5, <1>7 DEF Open
<1>13. ReadMeta(c) => disk # Absent
  <2>1. ReadMeta(c) => caller'[c].pc # "retire" /\ caller'[c].mode = caller[c].mode
    BY <1>1 DEF ReadMeta, CallerStates
  <2> QED
    BY <1>3, <2>1
<1>14. ReportKnownFailure(c) \/ Abandon(c) \/ Wake(c) \/ TimeOut(c) => disk # Absent
  BY <1>2 DEF ReportKnownFailure, Abandon, Wake, TimeOut
<1>15. RetireHandle(c) => disk # Absent
  BY DEF RetireHandle, FileInv
<1>16. Attach(c) \/ ServeKnownFailure(c) \/ LaunchAsync(c) => disk # Absent
  <2>1. ServeStale(c) => caller'[c].pc # "retire" /\ caller'[c].mode = caller[c].mode
    BY <1>1 DEF ServeStale, CallerStates
  <2> QED
    BY <1>3, <2>1 DEF Attach, ServeKnownFailure, LaunchAsync
<1>17. Release(c) => disk # Absent
  BY <1>3, <1>5, <1>7 DEF Release
<1>18. LookForBuild(c) => disk # Absent
  <2>1. LookForBuild(c) => Settle(c, 0) \/ (caller'[c].pc # "retire" /\ caller'[c].mode = caller[c].mode)
    BY <1>1 DEF LookForBuild, CallerStates
  <2> QED
    BY <1>2, <1>3, <2>1
<1>19. ColdBuild(c) \/ Index(c) => disk # Absent
  <2>1. \A k : Launch(c, k) => caller'[c].pc # "retire" /\ caller'[c].mode = caller[c].mode
    BY <1>1 DEF Launch, CallerStates
  <2> QED
    BY <1>3, <2>1 DEF ColdBuild, Index
<1>20. finishColdBuild(c) => disk # Absent
  <2>1. finishColdBuild(c) => CutShort(c) \/ (job[caller[c].job].ok /\ job[caller[c].job].phase = "finish" /\ caller[c].job \in Jobs)
    BY Waited DEF finishColdBuild
  <2> QED
    BY <1>2, <2>1 DEF FileInv
<1>21. StampFails(c) \/ OpenFails(c) => disk # Absent
  BY <1>2, <1>3, <1>5, <1>7, FaultForms
<1> QED
  BY <1>4, <1>8, <1>9, <1>10, <1>11, <1>12, <1>13, <1>14, <1>15, <1>16, <1>17, <1>18, <1>19, <1>20, <1>21, MoverCases
     DEF Quiet, CancelIndex

\* A build succeeds only with a file in place.
LEMMA WorkFile ==
  ASSUME Main, FileInv, NEW j \in Jobs, Builds(j), NEW k \in Jobs, job'[k].phase = "finish", job'[k].ok
  PROVE  disk' # Absent
<1>1. job \in [Jobs -> JobStates] /\ job[k] \in JobStates
  BY DEF Main, Core, TypeOK
<1>2. CASE Rename(j)
  BY <1>2, RenameFile
<1>3. CASE ~Rename(j)
  <2>1. UNCHANGED disk
    BY <1>3 DEF Builds, TryFlock, GiveUpFlock, LockUnavailable, buildIndex, BuildFault
  <2>2. CASE k # j
    <3>1. job'[k] = job[k]
      BY <1>1, <1>3, <2>2 DEF Builds, TryFlock, GiveUpFlock, LockUnavailable, buildIndex, BuildFault, Outcome
    <3> QED
      BY <2>1, <3>1 DEF FileInv
  <2>3. CASE k = j
    <3>1. \/ disk # Absent
          \/ job' = [job EXCEPT ![j].phase = "load"]
          \/ job' = [job EXCEPT ![j].phase = "rename", ![j].content = source]
          \/ Outcome(j, FALSE, 0)
      BY <1>3 DEF Builds, TryFlock, GiveUpFlock, LockUnavailable, buildIndex, BuildFault
    <3> QED
      BY <1>1, <2>1, <2>3, <3>1 DEF Outcome, JobStates
  <2> QED
    BY <2>2, <2>3
<1> QED
  BY <1>2, <1>3

\* Whatever else happens, no build turns into a finished one.
LEMMA NotFinishing ==
  ASSUME Main, Next, \A j \in Jobs : ~Builds(j), NEW k \in Jobs, job'[k].phase = "finish"
  PROVE  job[k].phase = "finish" /\ job'[k].ok = job[k].ok
<1>1. job \in [Jobs -> JobStates] /\ job[k] \in JobStates
  BY DEF Main, Core, TypeOK
<1>2. Gone.phase = "gone" /\ \A i, d, o : Ended(i, d, o).phase = "gone"
  BY DEF Gone, Ended
<1>3. ASSUME NEW c \in Callers, Moves(c)
      PROVE  job[k].phase = "finish" /\ job'[k].ok = job[k].ok
  <2>1. CASE Quiet(c)
    BY <2>1, QuietEffect
  <2>2. CASE ColdBuild(c) \/ Index(c)
    <3>1. \A p, kind, s : NewJob(p, kind, c, s).phase = "flock"
      BY DEF NewJob, Gone
    <3>2. PICK kind \in {"cold", "index"}, i \in Jobs :
            job' = [job EXCEPT ![i] = NewJob(Home[c], kind, c, caller[c].cur)]
      BY <2>2 DEF ColdBuild, Index, Launch
    <3> QED
      BY <1>1, <3>1, <3>2
  <2>3. CASE LaunchAsync(c) \/ ServeKnownFailure(c)
    <3> DEFINE S == Superseded(Home[c])
    <3>1. S \in [Jobs -> JobStates] /\ S[k].phase = job[k].phase /\ S[k].ok = job[k].ok
      <4>1. Home[c] \in Procs
        BY Waited
      <4>2. S[k] = job[k] \/ S[k] = [job[k] EXCEPT !.live = FALSE, !.done = 1]
        BY <4>1, SupersededEffect DEF Main
      <4>3. S \in [Jobs -> JobStates]
        BY <4>1, SupersededEffect DEF Main
      <4> QED
        BY <1>1, <4>2, <4>3 DEF JobStates
    <3>2. \A s : NewJob(Home[c], "async", None, s).phase = "flock"
      BY DEF NewJob, Gone
    <3>3. job' = S \/ \E i \in Jobs : job' = [S EXCEPT ![i] = NewJob(Home[c], "async", None, caller[c].cur)]
      BY <2>3 DEF LaunchAsync, ServeKnownFailure
    <3> HIDE DEF S
    <3> QED
      BY <3>1, <3>2, <3>3
  <2>4. CASE CancelIndex(c) \/ finishColdBuild(c) \/ Abandon(c) \/ Wake(c) \/ TimeOut(c)
    <3>1. \/ UNCHANGED job
          \/ \E i : \/ job' = [job EXCEPT ![i].live = FALSE]
                    \/ job' = [job EXCEPT ![i].owner = None]
                    \/ job' = [job EXCEPT ![i] = Gone]
      BY <2>4 DEF CancelIndex, finishColdBuild, Abandon, Wake, TimeOut, Forget
    <3> QED
      BY <1>1, <1>2, <3>1 DEF JobStates
  <2> QED
    BY <1>3, <2>1, <2>2, <2>3, <2>4, MoverCases
<1>4. ASSUME NEW j \in Jobs, Ends(j)
      PROVE  job[k].phase = "finish" /\ job'[k].ok = job[k].ok
  <2>1. CASE k # j
    BY <1>4, <2>1, EndsEffect
  <2>2. CASE k = j
    <3>1. [job[j] EXCEPT !.phase = "signal"].phase = "signal" /\ [job[j] EXCEPT !.phase = "retire"].phase = "retire"
      BY <1>1, <2>2 DEF JobStates
    <3>2. job'[j].phase # "finish"
      <4>1. (\E d, o : job'[j] = Ended(j, d, o)) => job'[j].phase = "gone"
        BY <1>2
      <4>2. job'[j] = [job[j] EXCEPT !.phase = "signal"] => job'[j].phase = "signal"
        BY <3>1
      <4>3. job'[j] = [job[j] EXCEPT !.phase = "retire"] => job'[j].phase = "retire"
        BY <3>1
      <4> QED
        BY <1>2, <1>4, <4>1, <4>2, <4>3, EndsEffect
    <3> QED
      BY <2>2, <3>2
  <2> QED
    BY <2>1, <2>2
<1>5. ASSUME Environs
      PROVE  job[k].phase = "finish" /\ job'[k].ok = job[k].ok
  <2>1. ASSUME NEW p \in Procs, CloseBuilds(p)
        PROVE  job[k].phase = "finish" /\ job'[k].ok = job[k].ok
    <3>1. job'[k] = job[k] \/ job'[k] = [job[k] EXCEPT !.live = FALSE]
      BY <2>1, CloseBuildsEffect
    <3> QED
      BY <1>1, <3>1 DEF JobStates
  <2>2. Edit \/ (\E p \in Procs : StampExpires(p) \/ CloseHandles(p)) => UNCHANGED job
    BY DEF Edit, StampExpires, CloseHandles
  <2> QED
    BY <1>5, <2>1, <2>2 DEF Environs
<1>6. ASSUME NEW p \in Procs, Crash(p)
      PROVE  job[k].phase = "finish" /\ job'[k].ok = job[k].ok
  BY <1>2, <1>6, CrashEffect
<1> QED
  BY <1>3, <1>4, <1>5, <1>6, NextCases, WorkCases

LEMMA FileStep ==
  ASSUME Main, FileInv, Next
  PROVE  FileInv'
<1>1. disk # Absent => disk' # Absent
  BY DiskMoves
<1>2. ASSUME NEW c \in Callers, caller'[c].pc = "retire" \/ caller'[c].mode = "built"
      PROVE  disk' # Absent
  <2>1. CASE caller'[c] = caller[c]
    BY <1>1, <1>2, <2>1 DEF FileInv
  <2>2. CASE Moves(c)
    BY <1>1, <1>2, <2>2, MoverFile
  <2>3. ASSUME NEW d \in Callers, Moves(d), d # c
        PROVE  caller'[c] = caller[c]
    BY <2>3, MoverTypes, MovesTo DEF Main
  <2>4. ASSUME NEW p \in Procs, Crash(p)
        PROVE  caller'[c] = caller[c]
    <3>1. Idle.pc = "idle" /\ Idle.mode = "ensure"
      BY DEF Idle
    <3> QED
      BY <1>2, <2>4, <3>1, CrashEffect
  <2> QED
    BY <2>1, <2>2, <2>3, <2>4, OthersKeepCallers, NextCases
<1>3. ASSUME NEW k \in Jobs, job'[k].phase = "finish", job'[k].ok
      PROVE  disk' # Absent
  <2>1. CASE \E j \in Jobs : Builds(j)
    BY <1>3, <2>1, WorkFile
  <2>2. CASE \A j \in Jobs : ~Builds(j)
    BY <1>1, <1>3, <2>2, NotFinishing DEF FileInv
  <2> QED
    BY <2>1, <2>2
<1> QED
  BY <1>2, <1>3 DEF FileInv

-----------------------------------------------------------------------------
(* Who holds repoLock.                                                     *)

SameClaims == \A k \in Jobs, p \in Procs : Claims(job'[k], p) <=> Claims(job[k], p)

LEMMA SameJobsClaims == (\A k \in Jobs : job'[k] = job[k]) => SameClaims
  BY DEF SameClaims

LEMMA MoverClaims ==
  ASSUME Main, NEW c \in Callers, Moves(c), ~Abandon(c)
  PROVE  SameClaims
<1>1. job \in [Jobs -> JobStates] /\ Home[c] \in Procs /\ None \notin Callers
  BY Waited, ManagerAssumption DEF Main, Core, TypeOK
<1> DEFINE j == caller[c].job
<1>2. CASE Quiet(c)
  BY <1>2, QuietEffect DEF SameClaims
<1>3. CASE ColdBuild(c) \/ Index(c)
  <2>1. PICK kind \in {"cold", "index"}, i \in Jobs :
          Allocatable(i) /\ job' = [job EXCEPT ![i] = NewJob(Home[c], kind, c, caller[c].cur)]
    BY <1>3 DEF ColdBuild, Index, Launch
  <2>2. \A p : ~Claims(NewJob(Home[c], kind, c, caller[c].cur), p) /\ ~Claims(job[i], p)
    BY <1>1, <2>1, SpareFacts DEF Claims, NewJob, Gone
  <2> QED
    BY <1>1, <2>1, <2>2 DEF SameClaims
<1>4. CASE LaunchAsync(c) \/ ServeKnownFailure(c)
  <2> DEFINE S == Superseded(Home[c])
  <2>1. S \in [Jobs -> JobStates]
    BY <1>1, SupersededEffect DEF Main
  <2>2. ASSUME NEW k \in Jobs, NEW p \in Procs
        PROVE  Claims(S[k], p) <=> Claims(job[k], p)
    <3>1. S[k] = job[k] \/ S[k] = [job[k] EXCEPT !.live = FALSE, !.done = 1]
      BY <1>1, SupersededEffect DEF Main
    <3> QED
      BY <1>1, <3>1 DEF Claims, JobStates
  <2> HIDE DEF S
  <2>3. CASE ServeKnownFailure(c)
    BY <2>2, <2>3 DEF ServeKnownFailure, S, SameClaims
  <2>4. CASE LaunchAsync(c)
    <3>1. PICK i \in Jobs : Allocatable(i) /\ job' = [S EXCEPT ![i] = NewJob(Home[c], "async", None, caller[c].cur)]
      BY <2>4 DEF LaunchAsync, S
    <3>2. \A p : ~Claims(NewJob(Home[c], "async", None, caller[c].cur), p) /\ ~Claims(job[i], p)
      BY <3>1, SpareFacts DEF Claims, NewJob, Gone
    <3> QED
      BY <2>1, <2>2, <3>1, <3>2 DEF SameClaims
  <2> QED
    BY <1>4, <2>3, <2>4
<1>5. CASE CancelIndex(c)
  <2>1. j \in Jobs /\ job' = [job EXCEPT ![j].live = FALSE]
    BY <1>5, Waited DEF CancelIndex
  <2> QED
    BY <1>1, <2>1 DEF SameClaims, Claims, JobStates
<1>6. CASE finishColdBuild(c)
  <2>1. j \in Jobs /\ job' = [job EXCEPT ![j] = Gone] /\ job[j].owner = c
    BY <1>6, Waited DEF finishColdBuild, Main, OwnersInv
  <2>2. \A p : ~Claims(Gone, p) /\ ~Claims(job[j], p)
    BY <1>1, <2>1 DEF Claims, Gone
  <2> QED
    BY <1>1, <2>1, <2>2 DEF SameClaims
<1>7. CASE Wake(c) \/ TimeOut(c)
  <2>1. j \in Jobs /\ (UNCHANGED job \/ (~Alive(j) /\ job' = [job EXCEPT ![j] = Gone]))
    BY <1>7, Waited DEF Wake, TimeOut, Forget
  <2>2. \A p : ~Claims(Gone, p)
    BY DEF Claims, Gone
  <2>3. ~Alive(j) => \A p : ~Claims(job[j], p)
    BY DEF Claims, Alive
  <2> QED
    BY <1>1, <2>1, <2>2, <2>3 DEF SameClaims
<1> QED
  BY <1>2, <1>3, <1>4, <1>5, <1>6, <1>7, MoverCases

\* An abandoned first build gives up its claim only as it hands repoLock back.
LEMMA WorkClaims ==
  ASSUME Main, NEW j \in Jobs, Works(j)
  PROVE  \/ UNCHANGED lock /\ SameClaims
         \/ /\ job[j].kind = "cold" /\ job[j].owner = None /\ job[j].phase # "gone"
            /\ lock' = [lock EXCEPT ![job[j].proc] = None]
            /\ job' = [job EXCEPT ![j] = Gone]
<1>1. job \in [Jobs -> JobStates] /\ GoodJob(job[j]) /\ job[j] \in JobStates
  BY DEF Main, Core, TypeOK
<1>2. CASE Builds(j)
  BY <1>2, BuildsEffect DEF SameClaims, Continues, Claims, Main
<1>3. CASE Discard(j) \/ FailAsync(j) \/ SucceedAsync(j) \/ Signal(j)
  <2>1. job[j].kind = "async" /\ UNCHANGED lock
    BY <1>1, <1>3 DEF Discard, FailAsync, SucceedAsync, Signal, GoodJob, procVars
  <2>2. job'[j].kind = "async"
    <3>1. \A d, o : Ended(j, d, o).kind = "async"
      BY DEF Ended, Gone
    <3>2. CASE Discard(j) \/ FailAsync(j) \/ Signal(j)
      <4>1. PICK d, o : job' = [job EXCEPT ![j] = Ended(j, d, o)]
        BY <3>2 DEF Discard, FailAsync, Signal
      <4> QED
        BY <1>1, <3>1, <4>1
    <3>3. CASE SucceedAsync(j)
      BY <1>1, <2>1, <3>3 DEF SucceedAsync, JobStates
    <3> QED
      BY <1>3, <3>2, <3>3
  <2>3. \A k \in Jobs \ {j} : job'[k] = job[k]
    BY <1>3, EndsEffect DEF Ends
  <2> QED
    BY <2>1, <2>2, <2>3 DEF SameClaims, Claims
<1>4. CASE RecordAbandoned(j)
  <2>1. job[j].kind = "cold" /\ job[j].owner = None /\ job[j].phase = "finish"
    BY <1>4 DEF RecordAbandoned
  <2>2. CASE job' = [job EXCEPT ![j].phase = "retire"] /\ UNCHANGED lock
    BY <1>1, <2>1, <2>2 DEF SameClaims, Claims, JobStates
  <2>3. CASE job' = [job EXCEPT ![j] = Gone] /\ releaseLock(job[j].proc)
    BY <2>1, <2>3 DEF releaseLock
  <2> QED
    BY <1>4, <2>2, <2>3 DEF RecordAbandoned
<1>5. CASE RetireAbandoned(j)
  <2>1. job[j].kind = "cold" /\ job[j].owner = None /\ job[j].phase = "retire"
    BY <1>1, <1>5 DEF RetireAbandoned, GoodJob, JobStates
  <2> QED
    BY <1>5, <2>1 DEF RetireAbandoned, releaseLock
<1> QED
  BY <1>2, <1>3, <1>4, <1>5, WorkCases DEF Ends

LEMMA EnvironClaims ==
  ASSUME Main, Environs
  PROVE  SameClaims /\ UNCHANGED lock
<1>1. UNCHANGED lock
  BY DEF Environs, Edit, StampExpires, CloseHandles, CloseBuilds, procVars
<1>2. ASSUME NEW p \in Procs, CloseBuilds(p)
      PROVE  SameClaims
  <2>1. ASSUME NEW k \in Jobs, NEW q \in Procs
        PROVE  Claims(job'[k], q) <=> Claims(job[k], q)
    <3>1. job[k] \in JobStates
      BY DEF Main, Core, TypeOK
    <3>2. job'[k] = job[k] \/ job'[k] = [job[k] EXCEPT !.live = FALSE]
      BY <1>2, CloseBuildsEffect
    <3> QED
      BY <3>1, <3>2 DEF Claims, JobStates
  <2> QED
    BY <2>1 DEF SameClaims
<1>3. Edit \/ (\E p \in Procs : StampExpires(p) \/ CloseHandles(p)) => UNCHANGED job
  BY DEF Edit, StampExpires, CloseHandles
<1> QED
  BY <1>1, <1>2, <1>3, SameJobsClaims DEF Environs

\* How a caller that moves changes repoLock.
Keeps(c) == UNCHANGED lock /\ (Needs(caller'[c]) <=> Needs(caller[c]))
Takes(c) == lock[Home[c]] = None /\ lock' = [lock EXCEPT ![Home[c]] = c] /\ Needs(caller'[c])
Drops(c) == /\ Needs(caller[c]) /\ ~Needs(caller'[c])
            /\ lock' = [lock EXCEPT ![Home[c]] = None]

LEMMA IdleNeeds == ~Needs(Idle) /\ \A n : ~Needs(Settled(n))
BY DEF Needs, Idle, Settled

LEMMA MoverLock ==
  ASSUME Main, FileInv, HoldsInv, NEW c \in Callers, Moves(c), ~Abandon(c)
  PROVE  Keeps(c) \/ Takes(c) \/ Drops(c)
<1>1. /\ caller \in [Callers -> CallerStates] /\ caller[c] \in CallerStates /\ GoodCaller(caller[c])
  BY DEF Main, Core, TypeOK
<1>2. CutShort(c) \/ (\E n : Settle(c, n)) => ~Needs(caller'[c])
  BY IdleNeeds, CutShortTo DEF Main
<1>3. Return(c) => ~Needs(caller'[c])
  BY <1>1, IdleNeeds DEF Return
<1>4. ASSUME NEW pc, Goto(c, pc)
      PROVE  caller'[c].pc = pc /\ caller'[c].mode = caller[c].mode /\ caller'[c].op = caller[c].op
  BY <1>1, <1>4 DEF Goto, CallerStates
<1>5. CASE Calls(c)
  <2>1. PICK op : Call(c, op)
    BY <1>5 DEF Calls
  <2>2. ~Needs(caller[c])
    BY <2>1 DEF Call, Needs
  <2>3. CASE lock[Home[c]] = None
    <3>1. /\ lock' = [lock EXCEPT ![Home[c]] = c]
          /\ caller' = [caller EXCEPT ![c] = [Idle EXCEPT !.pc = "stamp", !.op = op]]
      BY <2>1, <2>3 DEF Call
    <3>2. caller'[c].pc = "stamp" /\ caller'[c].mode = "ensure"
      BY <1>1, <3>1 DEF Idle
    <3> QED
      BY <2>3, <3>1, <3>2 DEF Takes, Needs
  <2>4. CASE lock[Home[c]] # None
    <3>1. UNCHANGED lock /\ caller'[c].pc = "queued"
      BY <1>1, <2>1, <2>4 DEF Call, Idle
    <3> QED
      BY <2>2, <3>1 DEF Keeps, Needs
  <2> QED
    BY <2>3, <2>4
<1>6. CASE AcquireLock(c)
  <2>1. /\ lock[Home[c]] = None /\ lock' = [lock EXCEPT ![Home[c]] = c]
        /\ caller[c].pc = "queued" /\ Goto(c, "stamp")
    BY <1>6 DEF AcquireLock
  <2>2. caller[c].mode = "ensure"
    BY <1>1, <2>1 DEF GoodCaller, CallerStates
  <2> QED
    BY <1>4, <2>1, <2>2 DEF Takes, Needs
<1>7. CASE GiveUpLock(c)
  <2>1. caller[c].pc = "queued" /\ CutShort(c) /\ UNCHANGED lock
    BY <1>7 DEF GiveUpLock, procVars
  <2> QED
    BY <1>2, <2>1 DEF Keeps, Needs
<1>8. CASE cachedStamp(c)
  <2>1. /\ caller'[c].pc \in {"index", "open", "store"} /\ caller'[c].mode = caller[c].mode
        /\ caller[c].pc = "stamp" /\ UNCHANGED lock
    BY <1>1, <1>8 DEF cachedStamp, AfterStamp, CallerStates, procVars
  <2> QED
    BY <2>1 DEF Keeps, Needs
<1>9. CASE StoreStamp(c)
  <2>1. /\ caller'[c].pc \in {"index", "open"} /\ caller'[c].mode = caller[c].mode
        /\ caller[c].pc = "store" /\ UNCHANGED lock
    BY <1>4, <1>9 DEF StoreStamp, AfterStamp
  <2> QED
    BY <2>1 DEF Keeps, Needs
<1>10. ASSUME ~Needs(caller'[c]), Unlock(c)
       PROVE  Keeps(c) \/ Drops(c)
  <2>1. CASE lock[Home[c]] = c
    <3>1. Needs(caller[c])
      BY <2>1 DEF HoldsInv
    <3> QED
      BY <1>10, <2>1, <3>1 DEF Unlock, releaseLock, Drops
  <2>2. CASE lock[Home[c]] # c
    <3>1. ~Needs(caller[c])
      BY <2>2 DEF HoldsInv
    <3> QED
      BY <1>10, <2>2, <3>1 DEF Unlock, Keeps
  <2> QED
    BY <2>1, <2>2
<1>11. CASE Open(c)
  <2>1. caller[c].pc = "open"
    BY <1>11 DEF Open
  <2>2. CASE UNCHANGED lock /\ (Goto(c, "cold") \/ Goto(c, "meta"))
    BY <1>4, <2>1, <2>2 DEF Keeps, Needs
  <2>3. CASE Return(c) /\ Unlock(c)
    BY <1>3, <1>10, <2>3
  <2> QED
    BY <1>11, <2>2, <2>3 DEF Open
<1>22. CASE StampFails(c) \/ OpenFails(c)
  <2>1. CASE Goto(c, "cold") /\ caller[c].pc # "stamp" /\ UNCHANGED lock
    <3>1. caller[c].pc \in {"open", "meta"}
      BY <1>22, <2>1, FaultForms
    <3> QED
      BY <1>4, <2>1, <3>1 DEF Keeps, Needs
  <2>2. CASE (Return(c) \/ CutShort(c)) /\ Unlock(c)
    BY <1>2, <1>3, <1>10, <2>2
  <2> QED
    BY <1>22, <2>1, <2>2, FaultForms
<1>23. CASE ReadMeta(c)
  <2>1. /\ caller[c].pc = "meta" /\ caller'[c].pc \in {"using", "foreign", "warm"}
        /\ caller'[c].mode = caller[c].mode /\ caller'[c].op = caller[c].op
        /\ caller'[c].pc # "using" => caller[c].mode = "ensure"
        /\ IF caller'[c].pc = "using" /\ caller[c].op # "index" THEN Unlock(c) ELSE UNCHANGED lock
    <3> DEFINE nx(f) == IF caller[c].mode # "ensure" \/ f.stamp = caller[c].cur THEN "using"
                        ELSE IF f.stamp = Foreign THEN "foreign" ELSE "warm"
    <3>1. PICK f \in Files :
            /\ caller' = [caller EXCEPT ![c].pc = nx(f), ![c].cur = IF nx(f) = "using" THEN None ELSE @,
                                        ![c].got = IF caller[c].mode = "settle" THEN f.ino ELSE @]
            /\ IF nx(f) = "using" /\ caller[c].op # "index" THEN Unlock(c) ELSE UNCHANGED lock
      BY <1>23 DEF ReadMeta
    <3>2. caller[c].pc = "meta"
      BY <1>23 DEF ReadMeta
    <3>3. nx(f) \in {"using", "foreign", "warm"} /\ (nx(f) # "using" => caller[c].mode = "ensure")
      OBVIOUS
    <3> HIDE DEF nx
    <3>4. caller'[c].pc = nx(f) /\ caller'[c].mode = caller[c].mode /\ caller'[c].op = caller[c].op
      BY <1>1, <3>1 DEF CallerStates
    <3> QED
      BY <3>1, <3>2, <3>3, <3>4
  <2>2. CASE caller'[c].pc # "using"
    BY <2>1, <2>2 DEF Keeps, Needs
  <2>3. CASE caller'[c].pc = "using" /\ caller[c].op # "index"
    <3>1. ~Needs(caller'[c])
      BY <2>1, <2>3 DEF Needs
    <3> QED
      BY <1>10, <2>1, <2>3, <3>1
  <2>4. CASE caller'[c].pc = "using" /\ caller[c].op = "index"
    BY <2>1, <2>4 DEF Keeps, Needs
  <2> QED
    BY <2>2, <2>3, <2>4
<1>12. CASE DropForeign(c)
  <2>1. caller[c].pc = "foreign" /\ Goto(c, "cold") /\ UNCHANGED lock
    BY <1>12 DEF DropForeign, procVars
  <2> QED
    BY <1>4, <2>1 DEF Keeps, Needs
<1>13. CASE ReportKnownFailure(c)
  <2>1. caller[c].pc = "cold" /\ CutShort(c) /\ lock' = [lock EXCEPT ![Home[c]] = None]
    BY <1>13 DEF ReportKnownFailure, releaseLock
  <2>2. caller[c].mode = "ensure"
    BY <1>1, <2>1 DEF GoodCaller, CallerStates
  <2> QED
    BY <1>2, <2>1, <2>2 DEF Drops, Needs
<1>14. CASE ColdBuild(c) \/ Index(c)
  <2>1. /\ caller[c].pc \in {"cold", "index"} /\ UNCHANGED lock
        /\ caller'[c].pc = "coldwait" /\ caller'[c].mode = caller[c].mode
    BY <1>1, <1>14 DEF ColdBuild, Index, Launch, procVars, CallerStates
  <2> QED
    BY <2>1 DEF Keeps, Needs
<1>15. CASE CancelIndex(c)
  BY <1>15 DEF CancelIndex, Keeps, procVars
<1>16. CASE finishColdBuild(c)
  <2>1. caller[c].pc = "coldwait"
    BY <1>16 DEF finishColdBuild
  <2>2. caller[c].mode = "ensure"
    BY <1>1, <2>1 DEF GoodCaller, CallerStates
  <2>3. CASE caller' = [caller EXCEPT ![c].pc = "retire", ![c].job = None] /\ UNCHANGED lock
    BY <1>1, <2>1, <2>3 DEF Keeps, Needs, CallerStates
  <2>4. CASE CutShort(c) /\ lock' = [lock EXCEPT ![Home[c]] = None]
    BY <1>2, <2>1, <2>2, <2>4 DEF Drops, Needs
  <2> QED
    BY <1>16, <2>3, <2>4 DEF finishColdBuild, releaseLock
<1>17. CASE RetireHandle(c)
  <2>1. /\ caller[c].pc = "retire" /\ UNCHANGED lock /\ caller'[c].pc = "open" /\ caller'[c].mode = "built"
    BY <1>1, <1>17 DEF RetireHandle, procVars
  <2>2. caller[c].mode = "ensure"
    BY <1>1, <2>1 DEF GoodCaller, CallerStates
  <2> QED
    BY <2>1, <2>2 DEF Keeps, Needs
<1>18. CASE Attach(c) \/ ServeKnownFailure(c) \/ LaunchAsync(c)
  <2>1. /\ caller[c].pc = "warm" /\ caller'[c].pc = "using"
        /\ lock' = [lock EXCEPT ![Home[c]] = None]
    BY <1>1, <1>18 DEF Attach, ServeKnownFailure, LaunchAsync, ServeStale, releaseLock, CallerStates
  <2>2. caller[c].mode = "ensure" /\ caller[c].op # "index" /\ caller'[c].op = caller[c].op
    BY <1>1, <1>18, <2>1 DEF GoodCaller, CallerStates, Attach, ServeKnownFailure, LaunchAsync, ServeStale
  <2> QED
    BY <2>1, <2>2 DEF Drops, Needs
<1>19. CASE Release(c)
  <2>1. /\ caller[c].pc = "using"
        /\ Return(c) \/ (Goto(c, "look") /\ caller[c].op = "wait")
        /\ IF caller[c].op = "index" THEN lock' = [lock EXCEPT ![Home[c]] = None] ELSE UNCHANGED lock
    BY <1>19 DEF Release, releaseLock
  <2>2. CASE caller[c].op = "index"
    <3>1. caller[c].mode = "built"
      BY <1>1, <2>1, <2>2 DEF GoodCaller, CallerStates
    <3> QED
      BY <1>3, <2>1, <2>2, <3>1 DEF Drops, Needs
  <2>3. CASE caller[c].op # "index"
    BY <1>3, <1>4, <2>1, <2>3 DEF Keeps, Needs
  <2> QED
    BY <2>2, <2>3
<1>20. CASE LookForBuild(c)
  <2>1. caller[c].pc = "look" /\ UNCHANGED lock /\ (Settle(c, 0) \/ caller'[c].pc = "await")
    BY <1>1, <1>20 DEF LookForBuild, procVars, CallerStates
  <2> QED
    BY <1>2, <2>1 DEF Keeps, Needs
<1>21. CASE Wake(c) \/ TimeOut(c)
  <2>1. caller[c].pc = "await" /\ UNCHANGED lock /\ \E n : Settle(c, n)
    BY <1>21 DEF Wake, TimeOut, procVars
  <2> QED
    BY <1>2, <2>1 DEF Keeps, Needs
<1> QED
  BY <1>5, <1>6, <1>7, <1>8, <1>9, <1>11, <1>12, <1>13, <1>14, <1>15, <1>16, <1>17, <1>18,
     <1>19, <1>20, <1>21, <1>22, <1>23, MoverCases DEF Quiet

LEMMA MoverHolds ==
  ASSUME Main, FileInv, HoldsInv, NEW c \in Callers, Moves(c)
  PROVE  HoldsInv'
<1>1. /\ lock \in [Procs -> Callers \cup Jobs \cup {None}] /\ Home \in [Callers -> Procs]
      /\ job \in [Jobs -> JobStates]
      /\ None \notin Callers \cup Jobs /\ Callers \cap Jobs = {}
  BY ManagerAssumption DEF Main, Core, TypeOK
<1>2. \A d \in Callers \ {c} : caller'[d] = caller[d]
  BY MoverTypes, MovesTo DEF Main
<1>3. CASE ~Abandon(c)
  <2>1. SameClaims
    BY <1>3, MoverClaims
  <2>2. CASE Keeps(c)
    BY <1>2, <2>1, <2>2 DEF Keeps, HoldsInv, SameClaims
  <2>3. CASE Takes(c)
    <3>1. lock'[Home[c]] = c /\ \A p \in Procs \ {Home[c]} : lock'[p] = lock[p]
      BY <1>1, <2>3 DEF Takes
    <3>2. \A d \in Callers : Needs(caller'[d]) <=> lock'[Home[d]] = d
      BY <1>1, <1>2, <2>3, <3>1 DEF Takes, HoldsInv
    <3>3. \A j \in Jobs, p \in Procs : lock'[p] = j <=> Claims(job'[j], p)
      BY <1>1, <2>1, <2>3, <3>1 DEF Takes, HoldsInv, SameClaims
    <3> QED
      BY <3>2, <3>3 DEF HoldsInv
  <2>4. CASE Drops(c)
    <3>1. /\ lock[Home[c]] = c
          /\ lock'[Home[c]] = None /\ \A p \in Procs \ {Home[c]} : lock'[p] = lock[p]
      BY <1>1, <2>4 DEF Drops, HoldsInv
    <3>2. \A d \in Callers : Needs(caller'[d]) <=> lock'[Home[d]] = d
      BY <1>1, <1>2, <2>4, <3>1 DEF Drops, HoldsInv
    <3>3. \A j \in Jobs, p \in Procs : lock'[p] = j <=> Claims(job'[j], p)
      BY <1>1, <2>1, <2>4, <3>1 DEF HoldsInv, SameClaims
    <3> QED
      BY <3>2, <3>3 DEF HoldsInv
  <2> QED
    BY <1>3, <2>2, <2>3, <2>4, MoverLock
<1>4. CASE Abandon(c)
  <2> DEFINE j == caller[c].job
  <2>1. /\ caller[c].pc = "coldwait" /\ caller[c].op # "index" /\ j \in Jobs
        /\ lock' = [lock EXCEPT ![Home[c]] = j]
        /\ job' = [job EXCEPT ![j].owner = None]
        /\ CutShort(c)
    BY <1>4, Waited DEF Abandon
  <2>2. GoodCaller(caller[c]) /\ GoodJob(job[j])
    BY <2>1 DEF Main, Core
  <2>3. Needs(caller[c]) /\ ~Needs(caller'[c])
    BY <2>1, <2>2, IdleNeeds, CutShortTo DEF Needs, GoodCaller, CallerStates, Main
  <2>4. /\ job[j].kind = "cold" /\ job[j].owner = c /\ job[j].phase # "gone" /\ job[j].proc = Home[c]
    BY <2>1, <2>2 DEF Main, OwnersInv, GoodJob, JobStates
  <2>5. job'[j] = [job[j] EXCEPT !.owner = None] /\ \A k \in Jobs \ {j} : job'[k] = job[k]
    BY <1>1, <2>1
  <2>6. \A p \in Procs : Claims(job'[j], p) <=> p = Home[c]
    BY <1>1, <2>1, <2>4, <2>5 DEF Claims, JobStates
  <2>7. lock[Home[c]] = c /\ lock'[Home[c]] = j /\ \A p \in Procs \ {Home[c]} : lock'[p] = lock[p]
    BY <1>1, <2>1, <2>3 DEF HoldsInv
  <2>8. \A p \in Procs : lock[p] # j
    BY <1>1, <2>1, <2>4 DEF HoldsInv, Claims
  <2> HIDE DEF j
  <2>9. \A d \in Callers : Needs(caller'[d]) <=> lock'[Home[d]] = d
    BY <1>1, <1>2, <2>1, <2>3, <2>7 DEF HoldsInv
  <2>10. \A k \in Jobs, p \in Procs : lock'[p] = k <=> Claims(job'[k], p)
    BY <1>1, <2>1, <2>5, <2>6, <2>7, <2>8 DEF HoldsInv
  <2> QED
    BY <2>9, <2>10 DEF HoldsInv
<1> QED
  BY <1>3, <1>4

LEMMA WorkHolds ==
  ASSUME Main, HoldsInv, NEW j \in Jobs, Works(j)
  PROVE  HoldsInv'
<1>1. /\ lock \in [Procs -> Callers \cup Jobs \cup {None}] /\ Home \in [Callers -> Procs]
      /\ None \notin Callers \cup Jobs /\ Callers \cap Jobs = {}
      /\ job \in [Jobs -> JobStates] /\ GoodJob(job[j])
  BY ManagerAssumption DEF Main, Core, TypeOK
<1>2. UNCHANGED caller
  BY OthersKeepCallers
<1>3. CASE UNCHANGED lock /\ SameClaims
  BY <1>2, <1>3 DEF HoldsInv, SameClaims
<1>4. CASE /\ job[j].kind = "cold" /\ job[j].owner = None /\ job[j].phase # "gone"
           /\ lock' = [lock EXCEPT ![job[j].proc] = None]
           /\ job' = [job EXCEPT ![j] = Gone]
  <2>1. job[j].proc \in Procs
    BY <1>1, <1>4 DEF GoodJob
  <2>2. lock[job[j].proc] = j
    BY <1>4, <2>1 DEF HoldsInv, Claims
  <2>3. /\ lock'[job[j].proc] = None /\ \A p \in Procs \ {job[j].proc} : lock'[p] = lock[p]
        /\ job'[j] = Gone /\ \A k \in Jobs \ {j} : job'[k] = job[k]
    BY <1>1, <1>4, <2>1
  <2>4. \A p \in Procs : ~Claims(Gone, p)
    BY DEF Claims, Gone
  <2>5. \A p \in Procs \ {job[j].proc} : lock[p] # j
    BY DEF HoldsInv, Claims
  <2>6. \A d \in Callers : Needs(caller'[d]) <=> lock'[Home[d]] = d
    BY <1>1, <1>2, <2>2, <2>3 DEF HoldsInv
  <2>7. \A k \in Jobs, p \in Procs : lock'[p] = k <=> Claims(job'[k], p)
    BY <1>1, <2>2, <2>3, <2>4, <2>5 DEF HoldsInv
  <2> QED
    BY <2>6, <2>7 DEF HoldsInv
<1> QED
  BY <1>3, <1>4, WorkClaims

LEMMA CrashHolds ==
  ASSUME Main, HoldsInv, NEW p \in Procs, Crash(p)
  PROVE  HoldsInv'
<1>1. /\ lock \in [Procs -> Callers \cup Jobs \cup {None}] /\ Home \in [Callers -> Procs]
      /\ None \notin Callers \cup Jobs
  BY ManagerAssumption DEF Main, Core, TypeOK
<1>2. lock'[p] = None /\ \A q \in Procs \ {p} : lock'[q] = lock[q]
  BY <1>1 DEF Crash
<1>3. \A c \in Callers : Needs(caller'[c]) <=> lock'[Home[c]] = c
  BY <1>1, <1>2, IdleNeeds, CrashEffect DEF HoldsInv
<1>4. \A q \in Procs : ~Claims(Gone, q)
  BY DEF Claims, Gone
<1>5. ASSUME NEW k \in Jobs, NEW q \in Procs
      PROVE  lock'[q] = k <=> Claims(job'[k], q)
  <2>1. CASE q = p
    <3>1. ~Claims(job'[k], p)
      BY <1>4, CrashEffect DEF Claims
    <3> QED
      BY <1>1, <1>2, <2>1, <3>1
  <2>2. CASE q # p
    <3>1. Claims(job'[k], q) <=> Claims(job[k], q)
      BY <1>4, <2>2, CrashEffect DEF Claims
    <3> QED
      BY <1>2, <2>2, <3>1 DEF HoldsInv
  <2> QED
    BY <2>1, <2>2
<1> QED
  BY <1>3, <1>5 DEF HoldsInv

LEMMA HoldsStep ==
  ASSUME Main, FileInv, HoldsInv, Next
  PROVE  HoldsInv'
<1>1. Environs => HoldsInv'
  BY OthersKeepCallers, EnvironClaims DEF HoldsInv, SameClaims
<1> QED
  BY <1>1, NextCases, MoverHolds, WorkHolds, CrashHolds

LEMMA LockHolds == Spec => [](FileInv /\ HoldsInv)
<1>1. Init => FileInv /\ HoldsInv
  <2> SUFFICES ASSUME Init
               PROVE  FileInv /\ HoldsInv
    OBVIOUS
  <2>1. /\ \A c \in Callers : caller[c] = Idle
        /\ \A j \in Jobs : job[j] = Gone
        /\ \A p \in Procs : lock[p] = None
    BY DEF Init
  <2>2. \A p \in Procs : ~Claims(Gone, p)
    BY DEF Claims, Gone
  <2>3. HoldsInv
    <3>1. None \notin Callers \cup Jobs /\ Home \in [Callers -> Procs]
      BY ManagerAssumption
    <3>2. \A c \in Callers : Needs(caller[c]) <=> lock[Home[c]] = c
      BY <2>1, <3>1, IdleNeeds
    <3>3. \A j \in Jobs, p \in Procs : lock[p] = j <=> Claims(job[j], p)
      BY <2>1, <2>2, <3>1
    <3> QED
      BY <3>2, <3>3 DEF HoldsInv
  <2>4. FileInv
    BY <2>1 DEF FileInv, Idle, Gone
  <2> QED
    BY <2>3, <2>4
<1>2. Main /\ FileInv /\ HoldsInv /\ [Next /\ UNCHANGED scene]_vars => (FileInv /\ HoldsInv)'
  <2>1. FileInv /\ HoldsInv /\ UNCHANGED vars => (FileInv /\ HoldsInv)'
    BY DEF FileInv, HoldsInv, vars, rest
  <2> QED
    BY <2>1, FileStep, HoldsStep
<1> QED
  BY <1>1, <1>2, MainHolds, PTL DEF Spec

\* LockFollowsOwner: repoLock is held by whoever the protocol says holds it and by
\* nobody else, and a process runs at most one first build or Index at a time,
\* abandoned ones included (graph.go:421-438, 595-620).
THEOREM LockFollows == Spec => []LockFollowsOwner
<1>1. Main /\ HoldsInv => LockFollowsOwner
  <2> SUFFICES ASSUME Main, HoldsInv
               PROVE  LockFollowsOwner
    OBVIOUS
  <2>1. \A c \in Callers : NeedsLock(c) <=> lock[Home[c]] = c
    BY DEF HoldsInv, Needs, NeedsLock
  <2>2. \A j \in Jobs, p \in Procs : lock[p] = j <=> Abandoned(j) /\ job[j].proc = p
    BY DEF HoldsInv, Claims, Abandoned, Alive
  <2>3. ASSUME NEW j \in Jobs, Alive(j), job[j].kind # "async"
        PROVE  /\ job[j].proc \in Procs
               /\ \/ job[j].owner = None /\ lock[job[j].proc] = j
                  \/ job[j].owner \in Callers /\ lock[job[j].proc] = job[j].owner
    <3>1. GoodJob(job[j])
      BY DEF Main, Core
    <3>2. job[j].proc \in Procs /\ job[j].owner \in Callers \cup {None}
      BY <2>3, <3>1 DEF Alive, GoodJob, JobStates
    <3>3. CASE job[j].owner = None
      <4>1. job[j].kind = "cold"
        BY <2>3, <3>1, <3>3 DEF GoodJob, JobStates
      <4> QED
        BY <2>3, <3>2, <3>3, <4>1 DEF HoldsInv, Claims, Alive
    <3>4. CASE job[j].owner \in Callers /\ job[j].owner # None
      <4> DEFINE c == job[j].owner
      <4>1. caller[c].pc = "coldwait" /\ caller[c].job = j /\ GoodCaller(caller[c])
        BY <3>4 DEF Main, Core, OwnersInv
      <4>2. Needs(caller[c])
        BY <4>1 DEF Needs, GoodCaller, CallerStates
      <4>3. job[j].proc = Home[c]
        BY <3>4, <4>1 DEF Main, OwnersInv
      <4> QED
        BY <3>2, <3>4, <4>2, <4>3 DEF HoldsInv
    <3> QED
      BY <3>2, <3>3, <3>4
  <2>4. ASSUME NEW j \in Jobs, NEW k \in Jobs, Alive(j), Alive(k), job[j].proc = job[k].proc,
               job[j].kind # "async", job[k].kind # "async"
        PROVE  j = k
    <3>1. Callers \cap Jobs = {} /\ None \notin Callers
      BY ManagerAssumption
    <3>2. CASE job[j].owner = None \/ job[k].owner = None
      BY <2>3, <2>4, <3>1, <3>2
    <3>3. CASE job[j].owner # None /\ job[k].owner # None
      <4>1. job[j].owner = job[k].owner
        BY <2>3, <2>4, <3>3
      <4>2. caller[job[j].owner].job = j /\ caller[job[k].owner].job = k
        BY <3>3 DEF Main, OwnersInv
      <4> QED
        BY <4>1, <4>2
    <3> QED
      BY <3>2, <3>3
  <2> QED
    BY <2>1, <2>2, <2>4 DEF LockFollowsOwner
<1> QED
  BY <1>1, MainHolds, LockHolds, PTL

-----------------------------------------------------------------------------
(* Who waits for a build.                                                  *)

\* A caller starts to wait only for the build that is registered.
LEMMA StartsWaiting ==
  ASSUME Main, NEW c \in Callers, Moves(c), caller'[c].pc = "await"
  PROVE  LookForBuild(c) /\ builds[Home[c]] # None /\ caller'[c].job = builds[Home[c]]
<1>1. /\ caller \in [Callers -> CallerStates] /\ caller[c] \in CallerStates
  BY DEF Main, Core, TypeOK
<1>2. CutShort(c) \/ (\E n : Settle(c, n)) => caller'[c].pc # "await"
  BY CutShortTo DEF Main
<1>3. Return(c) => caller'[c].pc # "await"
  <2>1. Return(c) => caller'[c] = Idle
    BY <1>1 DEF Return
  <2> QED
    BY <2>1, CutShortTo DEF Main
<1>4. ASSUME NEW pc, Goto(c, pc)
      PROVE  caller'[c].pc = pc
  BY <1>1, <1>4 DEF Goto, CallerStates
<1>5. Calls(c) \/ AcquireLock(c) \/ GiveUpLock(c) => caller'[c].pc # "await"
  <2>1. Calls(c) => caller'[c].pc \in {"stamp", "queued"}
    BY CallsTo DEF Main, Idle
  <2> QED
    BY <1>2, <1>4, <2>1 DEF AcquireLock, GiveUpLock
<1>6. cachedStamp(c) \/ StoreStamp(c) => caller'[c].pc # "await"
  <2>1. AfterStamp(c) # "await"
    BY DEF AfterStamp
  <2>2. cachedStamp(c) => caller'[c].pc \in {AfterStamp(c), "store"}
    BY <1>1 DEF cachedStamp, CallerStates
  <2> QED
    BY <1>4, <2>1, <2>2 DEF StoreStamp
<1>7. Open(c) \/ DropForeign(c) \/ ReportKnownFailure(c) \/ Release(c) => caller'[c].pc # "await"
  BY <1>2, <1>3, <1>4 DEF Open, DropForeign, ReportKnownFailure, Release
<1>8. ReadMeta(c) \/ RetireHandle(c) => caller'[c].pc # "await"
  <2>1. CASE ReadMeta(c)
    <3> DEFINE nx(f) == IF caller[c].mode # "ensure" \/ f.stamp = caller[c].cur THEN "using"
                        ELSE IF f.stamp = Foreign THEN "foreign" ELSE "warm"
               cu(f) == IF nx(f) = "using" THEN None ELSE caller[c].cur
               go(f) == IF caller[c].mode = "settle" THEN f.ino ELSE caller[c].got
    <3>1. PICK f \in Files :
            caller' = [caller EXCEPT ![c].pc = nx(f), ![c].cur = IF nx(f) = "using" THEN None ELSE @,
                                     ![c].got = IF caller[c].mode = "settle" THEN f.ino ELSE @]
      BY <2>1 DEF ReadMeta
    <3>2. caller' = [caller EXCEPT ![c] = [caller[c] EXCEPT !.pc = nx(f), !.cur = cu(f), !.got = go(f)]]
      BY <3>1
    <3>3. nx(f) \in {"using", "foreign", "warm"}
      OBVIOUS
    <3> HIDE DEF nx, cu, go
    <3>4. caller'[c].pc = nx(f)
      BY <1>1, <3>2 DEF CallerStates
    <3> QED
      BY <3>3, <3>4
  <2>2. CASE RetireHandle(c)
    BY <1>1, <2>2 DEF RetireHandle, CallerStates
  <2> QED
    BY <2>1, <2>2
<1>9. Attach(c) \/ ServeKnownFailure(c) \/ LaunchAsync(c) => caller'[c].pc # "await"
  BY <1>1 DEF Attach, ServeKnownFailure, LaunchAsync, ServeStale, CallerStates
<1>10. ColdBuild(c) \/ Index(c) => caller'[c].pc # "await"
  BY <1>1 DEF ColdBuild, Index, Launch, CallerStates
<1>11. CancelIndex(c) => caller'[c].pc # "await"
  BY DEF CancelIndex
<1>12. finishColdBuild(c) => caller'[c].pc # "await"
  <2>1. finishColdBuild(c) => CutShort(c) \/ caller' = [caller EXCEPT ![c].pc = "retire", ![c].job = None]
    BY DEF finishColdBuild
  <2> QED
    BY <1>1, <1>2, <2>1 DEF CallerStates
<1>13. Abandon(c) \/ Wake(c) \/ TimeOut(c) => caller'[c].pc # "await"
  BY <1>2 DEF Abandon, Wake, TimeOut
<1>17. StampFails(c) \/ OpenFails(c) => caller'[c].pc # "await"
  BY <1>2, <1>3, <1>4, FaultForms
<1>14. LookForBuild(c)
  BY <1>5, <1>6, <1>7, <1>8, <1>9, <1>10, <1>11, <1>12, <1>13, <1>17, MoverCases DEF Quiet
<1>15. ~Settle(c, 0)
  BY <1>2
<1>16. /\ builds[Home[c]] # None
       /\ caller' = [caller EXCEPT ![c].pc = "await", ![c].job = builds[Home[c]]]
  BY <1>14, <1>15 DEF LookForBuild
<1> QED
  BY <1>1, <1>14, <1>16 DEF CallerStates

\* What somebody waits for stays what it is, or has closed its channel.
LEMMA MoverAwaited ==
  ASSUME Main, UNCHANGED scene, NEW d \in Callers, Moves(d),
         NEW c \in Callers, c # d, caller[c].pc = "await", Awaits(c, caller[c].job)
  PROVE  Awaits(c, caller[c].job)'
<1> DEFINE j == caller[c].job
<1>1. /\ job \in [Jobs -> JobStates] /\ j \in Jobs /\ job[j] \in JobStates /\ None \notin Jobs
      /\ Home[c] \in Procs /\ Home[d] \in Procs
      /\ builds \in [Procs -> Jobs \cup {None}]
  BY Waited, ManagerAssumption DEF Main, Core, TypeOK
<1>2. caller'[c] = caller[c]
  BY MoverTypes, MovesTo DEF Main
<1>3. ASSUME UNCHANGED builds, job'[j] = job[j]
      PROVE  Awaits(c, caller[c].job)'
  BY <1>2, <1>3 DEF Awaits
<1>4. CASE Quiet(d)
  BY <1>3, <1>4, QuietEffect
<1>5. CASE ColdBuild(d) \/ Index(d)
  <2>1. PICK kind \in {"cold", "index"}, i \in Jobs :
          Allocatable(i) /\ job' = [job EXCEPT ![i] = NewJob(Home[d], kind, d, caller[d].cur)]
    BY <1>5 DEF ColdBuild, Index, Launch
  <2>2. i # j /\ UNCHANGED builds
    BY <1>5, <2>1, SpareFacts DEF ColdBuild, Index, procVars
  <2> QED
    BY <1>1, <1>3, <2>1, <2>2
<1>6. CASE LaunchAsync(d) \/ ServeKnownFailure(d)
  <2> DEFINE S == Superseded(Home[d])
  <2>1. /\ S \in [Jobs -> JobStates]
        /\ j # builds[Home[d]] => S[j] = job[j]
        /\ j = builds[Home[d]] => S[j] = [job[j] EXCEPT !.live = FALSE, !.done = 1]
    BY <1>1, SupersededEffect, ZenonT(20) DEF Main
  <2>2. job'[j] = S[j] /\ \A p \in Procs \ {Home[d]} : builds'[p] = builds[p]
    <3>1. CASE ServeKnownFailure(d)
      BY <1>1, <3>1 DEF ServeKnownFailure
    <3>2. CASE LaunchAsync(d)
      <4>1. PICK i \in Jobs : /\ Allocatable(i)
                              /\ job' = [S EXCEPT ![i] = NewJob(Home[d], "async", None, caller[d].cur)]
                              /\ builds' = [builds EXCEPT ![Home[d]] = i]
        BY <3>2 DEF LaunchAsync
      <4>2. i # j
        BY <4>1, SpareFacts
      <4> HIDE DEF S
      <4> QED
        BY <1>1, <2>1, <4>1, <4>2
    <3> QED
      BY <1>6, <3>1, <3>2
  <2>3. CASE j = builds[Home[d]]
    <3>1. job'[j] = [job[j] EXCEPT !.live = FALSE, !.done = 1]
      BY <2>1, <2>2, <2>3
    <3>2. job'[j].done = 1 /\ job'[j].kind = job[j].kind /\ job'[j].proc = job[j].proc /\ job'[j].phase = job[j].phase
      BY <1>1, <3>1 DEF JobStates
    <3>3. job'[j].done > 0
      BY <3>2
    <3> QED
      BY <1>2, <3>2, <3>3 DEF Awaits
  <2>4. CASE j # builds[Home[d]]
    <3>1. job'[j] = job[j] /\ (builds[Home[c]] = j => builds'[Home[c]] = j)
      BY <1>1, <2>1, <2>2, <2>4
    <3> QED
      BY <1>2, <3>1 DEF Awaits
  <2> QED
    BY <2>3, <2>4
<1>7. CASE CancelIndex(d) \/ finishColdBuild(d) \/ Abandon(d)
  <2> DEFINE i == caller[d].job
  <2>1. i \in Jobs /\ caller[d].pc = "coldwait" /\ UNCHANGED builds
    BY <1>7, Waited DEF CancelIndex, finishColdBuild, Abandon, procVars
  <2>2. job[i].kind # "async" /\ job[i].phase # "gone"
    BY <2>1 DEF Main, OwnersInv
  <2>3. i # j
    BY <2>2 DEF Awaits
  <2>4. job'[j] = job[j]
    BY <1>1, <1>7, <2>1, <2>3 DEF CancelIndex, finishColdBuild, Abandon
  <2> QED
    BY <1>3, <2>1, <2>4
<1>8. CASE Wake(d) \/ TimeOut(d)
  <2> DEFINE i == caller[d].job
  <2>1. Forget(d, i) /\ UNCHANGED builds
    BY <1>8 DEF Wake, TimeOut, procVars
  <2>2. job'[j] = job[j]
    BY <1>1, <2>1 DEF Forget
  <2> QED
    BY <1>3, <2>1, <2>2
<1> QED
  BY <1>4, <1>5, <1>6, <1>7, <1>8, MoverCases

LEMMA WorkAwaited ==
  ASSUME Main, UNCHANGED scene, NEW k \in Jobs, Works(k),
         NEW c \in Callers, caller[c].pc = "await", Awaits(c, caller[c].job)
  PROVE  Awaits(c, caller[c].job)'
<1> DEFINE j == caller[c].job
<1>1. /\ job \in [Jobs -> JobStates] /\ j \in Jobs /\ job[j] \in JobStates /\ None \notin Jobs
      /\ Home[c] \in Procs /\ builds \in [Procs -> Jobs \cup {None}] /\ GoodJob(job[k])
  BY Waited, ManagerAssumption DEF Main, Core, TypeOK
<1>2. caller'[c] = caller[c]
  BY OthersKeepCallers
<1>3. CASE Builds(k)
  <2>1. UNCHANGED builds /\ Continues(job[j], job'[j])
    BY <1>1, <1>3, BuildsEffect DEF Main
  <2> QED
    BY <1>2, <2>1 DEF Awaits, Continues
<1>4. CASE Ends(k) /\ k # j
  <2>1. job'[j] = job[j]
    BY <1>1, <1>4, EndsEffect
  <2>2. UNCHANGED builds \/ (builds[job[k].proc] = k /\ builds' = [builds EXCEPT ![job[k].proc] = None])
    BY <1>4 DEF Ends, Discard, FailAsync, SucceedAsync, Signal, RecordAbandoned, RetireAbandoned, procVars,
                Main, BuildsInv
  <2>3. builds[Home[c]] = j => builds'[Home[c]] = j
    BY <1>1, <1>4, <2>2
  <2> QED
    BY <1>2, <2>1, <2>3 DEF Awaits
<1>5. CASE Ends(k) /\ k = j
  <2>1. job[j].phase # "gone"
    BY <1>5 DEF Ends, Discard, FailAsync, SucceedAsync, Signal, RecordAbandoned, RetireAbandoned
  <2>2. job[j].kind = "async" /\ job[j].proc = Home[c]
    BY <2>1 DEF Awaits
  <2>3. ~RecordAbandoned(j) /\ ~RetireAbandoned(j)
    BY <1>1, <1>5, <2>2 DEF RecordAbandoned, RetireAbandoned, GoodJob
  <2>4. \E e \in Callers : caller[e].job = j
    OBVIOUS
  <2>5. ASSUME NEW d, NEW o
        PROVE  Ended(j, d, o).phase = "gone" /\ Ended(j, d, o).done = d
    <3>1. Ended(j, d, o) = [Gone EXCEPT !.done = d, !.out = o]
      BY <2>4 DEF Ended
    <3> QED
      BY <3>1 DEF Gone
  <2>6. CASE Discard(j)
    <3>1. job'[j] = Ended(j, job[j].done, 0)
      BY <1>1, <2>6 DEF Discard
    <3>2. UNCHANGED builds /\ builds[Home[c]] # j
      BY <2>2, <2>6 DEF Discard, procVars
    <3>3. job'[j].phase = "gone" /\ job'[j].done = job[j].done
      BY <2>5, <3>1
    <3> QED
      BY <1>2, <3>2, <3>3 DEF Awaits
  <2>7. CASE FailAsync(j) \/ Signal(j)
    <3>1. PICK o : job'[j] = Ended(j, job[j].done + 1, o)
      BY <1>1, <2>7 DEF FailAsync, Signal
    <3>2. job'[j].phase = "gone" /\ job'[j].done = job[j].done + 1
      BY <2>5, <3>1
    <3>3. job'[j].done > 0
      BY <1>1, <3>2 DEF JobStates
    <3> QED
      BY <1>2, <3>2, <3>3 DEF Awaits
  <2>8. CASE SucceedAsync(j)
    <3>1. UNCHANGED builds /\ job' = [job EXCEPT ![j].phase = "signal"]
      BY <2>8 DEF SucceedAsync
    <3>2. job'[j].kind = job[j].kind /\ job'[j].proc = job[j].proc /\ job'[j].done = job[j].done
      BY <1>1, <3>1 DEF JobStates
    <3> QED
      BY <1>2, <2>2, <3>1, <3>2 DEF Awaits
  <2> QED
    BY <1>5, <2>3, <2>6, <2>7, <2>8 DEF Ends
<1> QED
  BY <1>3, <1>4, <1>5, WorkCases

\* Close is under way only where it may run.
LEMMA LifeStep ==
  ASSUME Main, UNCHANGED scene, Next, \A p \in Procs : life[p] # "up" => scene.closes
  PROVE  \A p \in Procs : life'[p] # "up" => scene'.closes
<1>1. life \in [Procs -> {"up", "closing", "closed"}]
  BY DEF Main, Core, TypeOK
<1>2. ASSUME NEW c \in Callers, Moves(c)
      PROVE  UNCHANGED life
  <2>1. ColdBuild(c) \/ Index(c) \/ LaunchAsync(c) \/ ServeKnownFailure(c) => UNCHANGED life
    BY DEF ColdBuild, Index, LaunchAsync, ServeKnownFailure, procVars
  <2>2. CancelIndex(c) \/ finishColdBuild(c) \/ Abandon(c) \/ Wake(c) \/ TimeOut(c) => UNCHANGED life
    BY DEF CancelIndex, finishColdBuild, Abandon, Wake, TimeOut, procVars
  <2> QED
    BY <1>2, <2>1, <2>2, MoverCases, QuietEffect
<1>3. ASSUME NEW j \in Jobs, Works(j)
      PROVE  UNCHANGED life
  <2>1. Ends(j) => UNCHANGED life
    BY DEF Ends, Discard, FailAsync, SucceedAsync, Signal, RecordAbandoned, RetireAbandoned, procVars
  <2> QED
    BY <1>3, <2>1, BuildsEffect, WorkCases DEF Main
<1>4. Edit \/ (\E p \in Procs : StampExpires(p)) => UNCHANGED life
  BY DEF Edit, StampExpires, procVars
<1>5. ASSUME NEW p \in Procs, CloseHandles(p) \/ CloseBuilds(p)
      PROVE  scene.closes
  BY <1>5 DEF CloseHandles, CloseBuilds
<1>6. ASSUME NEW p \in Procs, Crash(p)
      PROVE  \A q \in Procs : life'[q] # "up" => life[q] # "up"
  BY <1>1, <1>6 DEF Crash
<1> QED
  BY <1>2, <1>3, <1>4, <1>5, <1>6, NextCases DEF Environs

LEMMA WaitersStep ==
  ASSUME Main, WaitersInv, Next, UNCHANGED scene
  PROVE  WaitersInv'
<1>1. \A p \in Procs : life'[p] # "up" => scene'.closes
  BY LifeStep DEF WaitersInv
<1>2. ASSUME NEW c \in Callers, caller'[c].pc = "await"
      PROVE  Awaits(c, caller[c].job)'
  <2>1. CASE Moves(c)
    <3>1. LookForBuild(c) /\ builds[Home[c]] # None /\ caller'[c].job = builds[Home[c]]
      BY <1>2, <2>1, StartsWaiting
    <3>2. UNCHANGED <<builds, job>>
      BY <3>1 DEF LookForBuild, procVars
    <3> QED
      BY <3>1, <3>2, Waited, RegisteredAlive DEF Awaits
  <2>2. ASSUME NEW d \in Callers, Moves(d), d # c
        PROVE  Awaits(c, caller[c].job)'
    <3>1. caller'[c] = caller[c]
      BY <2>2, MoverTypes, MovesTo DEF Main
    <3> QED
      BY <1>2, <2>2, <3>1, MoverAwaited DEF WaitersInv
  <2>3. ASSUME NEW j \in Jobs, Works(j)
        PROVE  Awaits(c, caller[c].job)'
    <3>1. caller'[c] = caller[c]
      BY <2>3, OthersKeepCallers
    <3> QED
      BY <1>2, <2>3, <3>1, WorkAwaited DEF WaitersInv
  <2>4. CASE Environs
    <3> DEFINE j == caller[c].job
    <3>1. caller'[c] = caller[c]
      BY <2>4, OthersKeepCallers
    <3>2. Awaits(c, j) /\ j \in Jobs /\ job[j] \in JobStates
      BY <1>2, <3>1, Waited DEF WaitersInv, Main, Core, TypeOK
    <3>3. ASSUME NEW p \in Procs, CloseBuilds(p)
          PROVE  Awaits(c, caller[c].job)'
      <4>1. job'[j] = job[j] \/ job'[j] = [job[j] EXCEPT !.live = FALSE]
        BY <3>2, <3>3, CloseBuildsEffect
      <4>2. job'[j].phase = job[j].phase /\ job'[j].kind = job[j].kind /\ job'[j].proc = job[j].proc
        BY <3>2, <4>1 DEF JobStates
      <4>3. scene.closes
        BY <3>3 DEF CloseBuilds, WaitersInv
      <4> QED
        BY <3>1, <3>2, <4>2, <4>3 DEF Awaits
    <3>4. ASSUME Edit \/ \E p \in Procs : StampExpires(p) \/ CloseHandles(p)
          PROVE  Awaits(c, caller[c].job)'
      <4>1. UNCHANGED <<job, builds>>
        BY <3>4 DEF Edit, StampExpires, CloseHandles, procVars
      <4> QED
        BY <3>1, <3>2, <4>1 DEF Awaits
    <3> QED
      BY <2>4, <3>3, <3>4 DEF Environs
  <2>5. ASSUME NEW p \in Procs, Crash(p)
        PROVE  Awaits(c, caller[c].job)'
    <3> DEFINE j == caller[c].job
    <3>1. Home[c] # p /\ caller'[c] = caller[c]
      <4>1. Idle.pc = "idle"
        BY DEF Idle
      <4> QED
        BY <1>2, <2>5, <4>1, CrashEffect
    <3>2. Awaits(c, j) /\ j \in Jobs /\ GoodJob(job[j]) /\ Home[c] \in Procs /\ None \notin Procs
      BY <1>2, <3>1, Waited, ManagerAssumption DEF WaitersInv, Main, Core
    <3>3. job[j].proc # p
      BY <3>1, <3>2 DEF Awaits, GoodJob
    <3>4. job'[j] = job[j]
      BY <2>5, <3>2, <3>3, CrashEffect
    <3>5. builds'[Home[c]] = builds[Home[c]]
      BY <2>5, <3>1, <3>2 DEF Crash, Main, Core, TypeOK
    <3> QED
      BY <3>1, <3>2, <3>4, <3>5 DEF Awaits
  <2> QED
    BY <2>1, <2>2, <2>3, <2>4, <2>5, NextCases
<1> QED
  BY <1>1, <1>2 DEF WaitersInv

LEMMA WaitersHold == Spec => []WaitersInv
<1>1. Init => WaitersInv
  BY DEF Init, WaitersInv, Idle
<1>2. Main /\ WaitersInv /\ [Next /\ UNCHANGED scene]_vars => WaitersInv'
  <2>1. WaitersInv /\ UNCHANGED vars => WaitersInv'
    BY DEF WaitersInv, Awaits, vars, rest
  <2> QED
    BY <2>1, WaitersStep
<1> QED
  BY <1>1, <1>2, MainHolds, PTL DEF Spec

\* Close is not called.
StaysOpen == ~scene.closes

\* NoStrandedWaiter, in a manager that is not closed: a WaitBuild waits on a build
\* that is registered or has closed its channel (graph.go:199-202).  Close drops
\* the registered builds without a word.
THEOREM NobodyIsStranded == Spec /\ StaysOpen => []NoStrandedWaiter
<1>1. WaitersInv /\ StaysOpen => NoStrandedWaiter
  BY DEF WaitersInv, Awaits, StaysOpen, NoStrandedWaiter, Awaiting, Registered
<1>2. StaysOpen /\ [Next /\ UNCHANGED scene]_vars => StaysOpen'
  BY DEF StaysOpen, vars
<1> QED
  BY <1>1, <1>2, WaitersHold, PTL DEF Spec

-----------------------------------------------------------------------------
(* Publishing: that a build nobody wants any more never replaces the graph *)
(* of the one that took its place, that a label claims no more than the    *)
(* graph holds, and that WaitBuild reads what it waited for.               *)

-----------------------------------------------------------------------------
(* What the steps do to builds, as far as publishing goes.                 *)

\* A build goes on, at most cancelled, disowned or with its channel closed.
Kept(a, b) ==
  /\ b.phase = a.phase /\ b.kind = a.kind /\ b.proc = a.proc /\ b.stamp = a.stamp
  /\ b.content = a.content /\ b.ok = a.ok /\ b.out = a.out /\ b.beaten = a.beaten
  /\ b.live => a.live

\* A build begins for stamp s, or is forgotten.
Begun(b, s) == b.phase = "flock" /\ b.beaten = FALSE /\ b.stamp = s
Anew(b, s) == b = Gone \/ Begun(b, s)

Watched(k, c) == \E d \in Callers \ {c} : caller[d].pc = "await" /\ caller[d].job = k

LEMMA KeptForms ==
  ASSUME NEW a \in JobStates
  PROVE  /\ Kept(a, a) /\ Kept(a, [a EXCEPT !.live = FALSE])
         /\ Kept(a, [a EXCEPT !.live = FALSE, !.done = 1])
         /\ Kept(a, [a EXCEPT !.owner = None])
BY DEF Kept, JobStates

LEMMA NewBegun ==
  \A p, kind, c, s : Begun(NewJob(p, kind, c, s), s)
BY DEF Begun, NewJob, Gone

\* A caller's step: it begins at most one build, for the stamp it holds, and takes
\* away none that another caller awaits.
LEMMA MoverJobs ==
  ASSUME Main, WaitersInv, NEW c \in Callers, Moves(c), NEW k \in Jobs
  PROVE  Kept(job[k], job'[k]) \/ (Anew(job'[k], caller[c].cur) /\ ~Watched(k, c))
<1>1. /\ job \in [Jobs -> JobStates] /\ job[k] \in JobStates /\ Home[c] \in Procs
  BY Waited DEF Main, Core, TypeOK
<1> DEFINE j == caller[c].job
<1>2. job'[k] = job[k] => Kept(job[k], job'[k])
  BY <1>1, KeptForms
<1>3. CASE Quiet(c)
  BY <1>2, <1>3, QuietEffect
<1>4. ASSUME NEW i \in Jobs, Allocatable(i), NEW b, Begun(b, caller[c].cur), k = i => job'[k] = b,
             k # i => Kept(job[k], job'[k])
      PROVE  Kept(job[k], job'[k]) \/ (Anew(job'[k], caller[c].cur) /\ ~Watched(k, c))
  <2>1. \A d \in Callers : caller[d].job # i
    BY <1>4, SpareFacts
  <2> QED
    BY <1>4, <2>1 DEF Anew, Watched
<1>5. CASE ColdBuild(c) \/ Index(c)
  <2>1. PICK kind \in {"cold", "index"}, i \in Jobs :
          Allocatable(i) /\ job' = [job EXCEPT ![i] = NewJob(Home[c], kind, c, caller[c].cur)]
    BY <1>5 DEF ColdBuild, Index, Launch
  <2> DEFINE b == NewJob(Home[c], kind, c, caller[c].cur)
  <2>2. Begun(b, caller[c].cur)
    BY NewBegun
  <2> HIDE DEF b
  <2>3. (k = i => job'[k] = b) /\ (k # i => job'[k] = job[k])
    BY <1>1, <2>1 DEF b
  <2>4. k # i => Kept(job[k], job'[k])
    BY <1>2, <2>3
  <2> QED
    BY <1>4, <2>1, <2>2, <2>3, <2>4
<1>6. CASE LaunchAsync(c) \/ ServeKnownFailure(c)
  <2> DEFINE S == Superseded(Home[c])
  <2>1. S \in [Jobs -> JobStates] /\ Kept(job[k], S[k])
    <3>1. S[k] = job[k] \/ S[k] = [job[k] EXCEPT !.live = FALSE, !.done = 1]
      BY <1>1, SupersededEffect DEF Main
    <3>2. S \in [Jobs -> JobStates]
      BY <1>1, SupersededEffect DEF Main
    <3> QED
      BY <1>1, <3>1, <3>2, KeptForms
  <2> HIDE DEF S
  <2>2. CASE ServeKnownFailure(c)
    BY <2>1, <2>2 DEF ServeKnownFailure, S
  <2>3. CASE LaunchAsync(c)
    <3> DEFINE b == NewJob(Home[c], "async", None, caller[c].cur)
    <3>1. PICK i \in Jobs : Allocatable(i) /\ job' = [S EXCEPT ![i] = b]
      BY <2>3 DEF LaunchAsync, S
    <3>2. Begun(b, caller[c].cur)
      BY NewBegun
    <3> HIDE DEF b
    <3>3. (k = i => job'[k] = b) /\ (k # i => job'[k] = S[k])
      BY <2>1, <3>1
    <3> QED
      BY <1>4, <2>1, <3>1, <3>2, <3>3
  <2> QED
    BY <1>6, <2>2, <2>3
<1>7. CASE CancelIndex(c) \/ Abandon(c)
  <2>1. job'[k] = job[k] \/ job'[k] = [job[k] EXCEPT !.live = FALSE] \/ job'[k] = [job[k] EXCEPT !.owner = None]
    BY <1>1, <1>7 DEF CancelIndex, Abandon
  <2> QED
    BY <1>1, <2>1, KeptForms
<1>8. CASE finishColdBuild(c)
  <2>1. j \in Jobs /\ job' = [job EXCEPT ![j] = Gone] /\ job[j].kind # "async" /\ job[j].phase # "gone"
    BY <1>8, Waited DEF finishColdBuild
  <2>2. ~Watched(j, c)
    BY <2>1 DEF Watched, WaitersInv, Awaits
  <2>3. k # j => job'[k] = job[k]
    BY <1>1, <2>1
  <2>4. k = j => job'[k] = Gone
    BY <1>1, <2>1
  <2> QED
    BY <1>2, <2>2, <2>3, <2>4 DEF Anew
<1>9. CASE Wake(c) \/ TimeOut(c)
  <2>1. Forget(c, j)
    BY <1>9 DEF Wake, TimeOut
  <2>2. job'[k] = job[k] \/ (job'[k] = Gone /\ k = j /\ \A d \in Callers \ {c} : caller[d].job # j)
    BY <1>1, <2>1 DEF Forget
  <2> QED
    BY <1>2, <2>2 DEF Anew, Watched
<1> QED
  BY <1>3, <1>5, <1>6, <1>7, <1>8, <1>9, MoverCases

\* Callers publish nothing.
LEMMA MoverKeeps ==
  ASSUME NEW c \in Callers, Moves(c)
  PROVE  UNCHANGED <<source, edits, crashes, disk, flock>>
<1>1. ColdBuild(c) \/ Index(c) \/ LaunchAsync(c) \/ ServeKnownFailure(c) => UNCHANGED <<source, edits, crashes, disk, flock>>
  BY DEF ColdBuild, Index, LaunchAsync, ServeKnownFailure, envVars
<1>2. CancelIndex(c) \/ finishColdBuild(c) \/ Abandon(c) \/ Wake(c) \/ TimeOut(c)
      => UNCHANGED <<source, edits, crashes, disk, flock>>
  BY DEF CancelIndex, finishColdBuild, Abandon, Wake, TimeOut, envVars
<1> QED
  BY <1>1, <1>2, MoverCases, QuietEffect

\* Nor do they take back an error.
LEMMA MoverFaults ==
  ASSUME faults \in Nat, NEW c \in Callers, Moves(c)
  PROVE  faults' = 0 => faults = 0
<1>1. ColdBuild(c) \/ Index(c) \/ LaunchAsync(c) \/ ServeKnownFailure(c) => UNCHANGED faults
  BY DEF ColdBuild, Index, LaunchAsync, ServeKnownFailure, envVars
<1>2. CancelIndex(c) \/ finishColdBuild(c) \/ Abandon(c) \/ Wake(c) \/ TimeOut(c) => UNCHANGED faults
  BY DEF CancelIndex, finishColdBuild, Abandon, Wake, TimeOut, envVars
<1>3. Quiet(c) => UNCHANGED faults \/ faults' = faults + 1
  BY QuietFaults, FaultForms
<1> QED
  BY <1>1, <1>2, <1>3, MoverCases

\* A build that ends publishes nothing either; an awaited one leaves its outcome.
LEMMA EnderKeeps ==
  ASSUME Main, NEW j \in Jobs, Ends(j)
  PROVE  /\ UNCHANGED <<envVars, disk, flock>>
         /\ \A k \in Jobs : /\ job'[k].phase \in {"flock", "load", "rename", "finish"} => job'[k] = job[k]
                            /\ job'[k].beaten => job[k].beaten
                            /\ job'[k].live => job[k].live
                            /\ job'[k].stamp \in {None, job[k].stamp}
<1>1. UNCHANGED <<envVars, disk, flock>>
  BY DEF Ends, Discard, FailAsync, SucceedAsync, Signal, RecordAbandoned, RetireAbandoned
<1>2. job \in [Jobs -> JobStates]
  BY DEF Main, Core, TypeOK
<1>3. \A k \in Jobs \ {j} : job'[k] = job[k]
  BY EndsEffect
<1>4. /\ job'[j].phase \notin {"flock", "load", "rename", "finish"}
      /\ job'[j].beaten => job[j].beaten
      /\ job'[j].live => job[j].live
      /\ job'[j].stamp \in {None, job[j].stamp}
  <2>1. ASSUME NEW d, NEW o
        PROVE  /\ Ended(j, d, o).phase = "gone" /\ Ended(j, d, o).beaten = FALSE
               /\ Ended(j, d, o).live = FALSE /\ Ended(j, d, o).stamp = None
    <3> DEFINE g == [Gone EXCEPT !.done = d, !.out = o]
    <3>1. g.phase = "gone" /\ g.beaten = FALSE /\ g.live = FALSE /\ g.stamp = None
      BY DEF Gone
    <3>2. Gone.phase = "gone" /\ Gone.beaten = FALSE /\ Gone.live = FALSE /\ Gone.stamp = None
      BY DEF Gone
    <3>3. Ended(j, d, o) = Gone \/ Ended(j, d, o) = g
      BY DEF Ended
    <3> HIDE DEF g
    <3> QED
      BY <3>1, <3>2, <3>3
  <2>2. Gone.phase = "gone" /\ Gone.beaten = FALSE /\ Gone.live = FALSE /\ Gone.stamp = None
    BY DEF Gone
  <2>3. CASE (\E d, o : job'[j] = Ended(j, d, o)) \/ job'[j] = Gone
    BY <2>1, <2>2, <2>3
  <2>4. CASE job'[j] = [job[j] EXCEPT !.phase = "signal"] \/ job'[j] = [job[j] EXCEPT !.phase = "retire"]
    BY <1>2, <2>4 DEF JobStates
  <2> QED
    BY <2>3, <2>4, EndsEffect
<1> QED
  BY <1>1, <1>3, <1>4

-----------------------------------------------------------------------------
(* Beaten builds.                                                          *)

\* Whoever loads or publishes holds .build.lock, unless it could not be taken; and
\* a superseded build whose successor has published is not on the way to publish.
BeatenInv ==
  /\ \A j \in Jobs : job[j].beaten => ~job[j].live /\ (faults = 0 => job[j].phase # "rename")
  /\ faults = 0 => \A j \in Jobs : job[j].phase \in {"load", "rename"} => flock = j

\* A step that lets builds go on, or begins or forgets some, keeps that.
LEMMA BeatenKept ==
  ASSUME Main, BeatenInv, UNCHANGED flock, faults' = 0 => faults = 0,
         \A k \in Jobs : /\ job'[k].phase \in {"load", "rename"} => job'[k].phase = job[k].phase
                         /\ job'[k].beaten => job[k].beaten /\ (job'[k].live => job[k].live)
  PROVE  BeatenInv'
BY DEF BeatenInv

\* Publishing beats the builds the registered one superseded, and no other publishes.
LEMMA RenameBeats ==
  ASSUME Main, BeatenInv, NEW j \in Jobs, Rename(j)
  PROVE  BeatenInv'
<1> DEFINE p == job[j].proc
<1>1. /\ job \in [Jobs -> JobStates] /\ job[j].phase = "rename" /\ None \notin Jobs
  BY ManagerAssumption DEF Main, Core, TypeOK, Rename
<1>2. ASSUME NEW k \in Jobs, k # j
      PROVE  /\ job'[k].phase = job[k].phase
             /\ job'[k].beaten => job'[k].live = FALSE
             /\ faults' = 0 => job'[k].phase \notin {"load", "rename"}
  <2>1. /\ job'[k] = job[k]
        \/ /\ job'[k] = [job[k] EXCEPT !.beaten = TRUE]
           /\ builds[p] = j /\ job[k].kind = "async" /\ job[k].proc = p /\ job[k].phase # "gone"
    BY <1>2 DEF Rename
  <2>2. job'[k].phase = job[k].phase /\ job'[k].live = job[k].live
    BY <1>1, <2>1 DEF JobStates
  <2>3. job[k].live \in BOOLEAN
    BY <1>1 DEF JobStates
  <2>4. job[k].beaten => ~job[k].live
    BY DEF BeatenInv
  <2>5. builds[p] = j /\ job[k].kind = "async" /\ job[k].proc = p /\ job[k].phase # "gone" => ~job[k].live
    BY <1>2 DEF Main, BuildsInv, Alive
  <2>6. faults' = faults
    BY DEF Rename, envVars
  <2>7. faults = 0 => job[k].phase \notin {"load", "rename"}
    BY <1>1, <1>2 DEF BeatenInv
  <2> QED
    BY <2>1, <2>2, <2>3, <2>4, <2>5, <2>6, <2>7
<1>3. job'[j].phase = "finish" /\ job'[j].beaten = job[j].beaten /\ job'[j].live = job[j].live
  <2>1. job'[j] = [job[j] EXCEPT !.phase = "finish", !.content = None, !.ok = TRUE, !.out = NextIno]
    BY DEF Rename
  <2> QED
    BY <1>1, <2>1 DEF JobStates
<1>4. job[j].beaten => ~job[j].live
  BY DEF BeatenInv
<1> QED
  BY <1>2, <1>3, <1>4 DEF BeatenInv

LEMMA BuildBeaten ==
  ASSUME Main, BeatenInv, NEW j \in Jobs, Builds(j)
  PROVE  BeatenInv'
<1>1. /\ job \in [Jobs -> JobStates] /\ job[j] \in JobStates /\ None \notin Jobs
      /\ faults \in Nat
  BY ManagerAssumption DEF Main, Core, TypeOK
<1>2. ASSUME NEW ok, NEW out, Outcome(j, ok, out)
      PROVE  /\ flock' = IF flock = j THEN None ELSE flock
             /\ \A k \in Jobs \ {j} : job'[k] = job[k]
             /\ job'[j].phase = "finish" /\ job'[j].beaten = job[j].beaten /\ job'[j].live = job[j].live
  BY <1>1, <1>2 DEF Outcome, JobStates
<1>3. ASSUME NEW ok, NEW out, Outcome(j, ok, out), faults' = 0 => faults = 0
      PROVE  BeatenInv'
  BY <1>1, <1>2, <1>3 DEF BeatenInv
<1>4. ASSUME job' = [job EXCEPT ![j].phase = "load"]
      PROVE  /\ \A k \in Jobs \ {j} : job'[k] = job[k]
             /\ job'[j].phase = "load" /\ job'[j].beaten = job[j].beaten /\ job'[j].live = job[j].live
  BY <1>1, <1>4 DEF JobStates
<1>5. CASE TryFlock(j)
  <2>1. flock = None /\ faults' = faults
    BY <1>5 DEF TryFlock, envVars
  <2>2. CASE \E ok, out : Outcome(j, ok, out)
    BY <1>3, <2>1, <2>2
  <2>3. CASE job' = [job EXCEPT ![j].phase = "load"] /\ flock' = j
    BY <1>1, <1>4, <2>1, <2>3 DEF BeatenInv
  <2> QED
    BY <1>5, <2>2, <2>3 DEF TryFlock
<1>6. CASE GiveUpFlock(j) \/ BuildFault(j)
  <2>1. faults' = faults \/ faults' = faults + 1
    BY <1>6 DEF GiveUpFlock, BuildFault, envVars
  <2>2. \E ok, out : Outcome(j, ok, out)
    BY <1>6 DEF GiveUpFlock, BuildFault
  <2> QED
    BY <1>1, <1>3, <2>1, <2>2
<1>7. CASE LockUnavailable(j)
  <2>1. faults' # 0 /\ job' = [job EXCEPT ![j].phase = "load"]
    BY <1>1, <1>7 DEF LockUnavailable
  <2> QED
    BY <1>4, <2>1 DEF BeatenInv
<1>8. CASE buildIndex(j)
  <2>1. faults' = faults /\ job[j].phase = "load"
    BY <1>8 DEF buildIndex, envVars
  <2>2. CASE \E ok, out : Outcome(j, ok, out)
    BY <1>3, <2>1, <2>2
  <2>3. CASE /\ job' = [job EXCEPT ![j].phase = "rename", ![j].content = source]
             /\ UNCHANGED flock /\ job[j].live
    <3>1. /\ \A k \in Jobs \ {j} : job'[k] = job[k]
          /\ job'[j].phase = "rename" /\ job'[j].beaten = job[j].beaten /\ job'[j].live = job[j].live
      BY <1>1, <2>3 DEF JobStates
    <3> QED
      BY <2>1, <2>3, <3>1 DEF BeatenInv
  <2> QED
    BY <1>8, <2>2, <2>3 DEF buildIndex
<1> QED
  BY <1>5, <1>6, <1>7, <1>8, RenameBeats DEF Builds

LEMMA BeatenStep ==
  ASSUME Main, WaitersInv, BeatenInv, Next, UNCHANGED scene
  PROVE  BeatenInv'
<1>1. job \in [Jobs -> JobStates] /\ faults \in Nat /\ None \notin Jobs
  BY ManagerAssumption DEF Main, Core, TypeOK
<1>2. Gone.phase = "gone" /\ Gone.beaten = FALSE
  BY DEF Gone
<1>3. ASSUME NEW c \in Callers, Moves(c)
      PROVE  BeatenInv'
  <2>1. ASSUME NEW k \in Jobs
        PROVE  /\ job'[k].phase \in {"load", "rename"} => job'[k].phase = job[k].phase
               /\ job'[k].beaten => job[k].beaten /\ (job'[k].live => job[k].live)
    BY <1>2, <1>3, MoverJobs DEF Kept, Anew, Begun
  <2>2. UNCHANGED flock /\ (faults' = 0 => faults = 0)
    BY <1>1, <1>3, MoverKeeps, MoverFaults
  <2> QED
    BY <2>1, <2>2, BeatenKept
<1>4. ASSUME NEW j \in Jobs, Ends(j)
      PROVE  BeatenInv'
  <2>1. UNCHANGED <<flock, faults>>
    BY <1>4, EnderKeeps DEF envVars
  <2>2. \A k \in Jobs : /\ job'[k].phase \in {"load", "rename"} => job'[k].phase = job[k].phase
                        /\ job'[k].beaten => job[k].beaten /\ (job'[k].live => job[k].live)
    BY <1>4, EnderKeeps
  <2> QED
    BY <2>1, <2>2, BeatenKept
<1>5. CASE Environs
  <2>1. UNCHANGED <<flock, faults>>
    BY <1>5 DEF Environs, Edit, StampExpires, CloseHandles, CloseBuilds, envVars
  <2>2. ASSUME NEW k \in Jobs
        PROVE  /\ job'[k].phase \in {"load", "rename"} => job'[k].phase = job[k].phase
               /\ job'[k].beaten => job[k].beaten /\ (job'[k].live => job[k].live)
    <3>1. job'[k] = job[k] \/ job'[k] = [job[k] EXCEPT !.live = FALSE]
      BY <1>5, CloseBuildsEffect DEF Environs, Edit, StampExpires, CloseHandles
    <3> QED
      BY <1>1, <3>1 DEF JobStates
  <2> QED
    BY <2>1, <2>2, BeatenKept
<1>6. ASSUME NEW p \in Procs, Crash(p)
      PROVE  BeatenInv'
  <2>1. faults' = faults /\ flock' = IF flock # None /\ job[flock].proc = p THEN None ELSE flock
    BY <1>6 DEF Crash
  <2>2. ASSUME NEW k \in Jobs
        PROVE  job'[k] = Gone \/ (job'[k] = job[k] /\ job[k].proc # p)
    BY <1>6, CrashEffect
  <2> QED
    BY <1>1, <1>2, <2>1, <2>2 DEF BeatenInv
<1> QED
  BY <1>3, <1>4, <1>5, <1>6, BuildBeaten, NextCases, WorkCases

\* SupersededNeverOverwritesSuccessor: as long as .build.lock could be taken, a
\* build that was superseded never renames its graph over its successor's, which
\* waited for the lock (graph.go:810-814, 917-919).
THEOREM SuccessorStands == Spec => []SupersededNeverOverwritesSuccessor
<1>1. Init => BeatenInv
  BY DEF Init, BeatenInv, Gone
<1>2. Main /\ WaitersInv /\ BeatenInv /\ [Next /\ UNCHANGED scene]_vars => BeatenInv'
  <2>1. BeatenInv /\ UNCHANGED vars => BeatenInv'
    BY DEF BeatenInv, vars, rest
  <2> QED
    BY <2>1, BeatenStep
<1>3. BeatenInv => SupersededNeverOverwritesSuccessor
  BY DEF BeatenInv, SupersededNeverOverwritesSuccessor
<1> QED
  BY <1>1, <1>2, <1>3, MainHolds, WaitersHold, PTL DEF Spec

-----------------------------------------------------------------------------
(* Labels.                                                                 *)

\* Edits only ever bring the tree to a version it did not have before.
NoReverts == ~scene.reverts

\* Every stamp in memory was true of the tree at some time, and a build read the
\* tree after the stamp it was launched for.
LabelsInv ==
  /\ \A p \in Procs : stampCache[p] # None => stampCache[p] <= source
  /\ \A c \in Callers : caller[c].cur # None => caller[c].cur <= source
  /\ \A j \in Jobs : job[j].stamp # None => job[j].stamp <= source
  /\ \A j \in Jobs : job[j].phase = "rename" => job[j].content >= job[j].stamp
  /\ LabelNeverAheadOfContent

\* The tree never goes back.
LEMMA SourceAdvances ==
  ASSUME Main, NoReverts, Next
  PROVE  source \in Nat /\ source' \in Nat /\ source' >= source
<1>1. source \in Versions /\ Versions \subseteq Nat
  BY ManagerAssumption DEF Main, Core, TypeOK
<1>2. CASE Edit
  <2>1. \E v \in scene.versions \ {source} : v > source /\ source' = v
    BY <1>2 DEF Edit, NoReverts
  <2> QED
    BY <1>1, <2>1, Bounds DEF Main, Core
<1>3. CASE UNCHANGED source
  BY <1>1, <1>3
<1>4. \A c \in Callers : Moves(c) => UNCHANGED source
  BY MoverKeeps DEF envVars
<1>5. \A j \in Jobs : Ends(j) => UNCHANGED source
  BY EnderKeeps DEF envVars
<1>6. \A j \in Jobs : Builds(j) => UNCHANGED source
  BY DEF Builds, TryFlock, GiveUpFlock, LockUnavailable, buildIndex, BuildFault, Rename, envVars
<1>7. \A p \in Procs : StampExpires(p) \/ CloseHandles(p) \/ CloseBuilds(p) \/ Crash(p) => UNCHANGED source
  BY DEF StampExpires, CloseHandles, CloseBuilds, Crash, envVars
<1> QED
  BY <1>2, <1>3, <1>4, <1>5, <1>6, <1>7, NextCases, WorkCases DEF Environs

\* A caller's stamp is its own, the cached one or the tree's.
LEMMA MoverCur ==
  ASSUME Main, NEW c \in Callers, Moves(c)
  PROVE  caller'[c].cur \in {None, caller[c].cur, stampCache[Home[c]], source}
<1>1. caller \in [Callers -> CallerStates] /\ caller[c] \in CallerStates
  BY DEF Main, Core, TypeOK
<1> DEFINE Same == caller'[c].cur \in {None, caller[c].cur}
<1>2. CutShort(c) \/ (\E n : Settle(c, n)) => Same
  <2>1. Idle.cur = None /\ \A n : Settled(n).cur = None
    BY DEF Idle, Settled
  <2> QED
    BY <2>1, CutShortTo DEF Main
<1>3. Return(c) => Same
  BY <1>1 DEF Return, Idle
<1>4. \A pc : Goto(c, pc) => Same
  BY <1>1 DEF Goto, CallerStates
<1>5. Calls(c) \/ AcquireLock(c) \/ GiveUpLock(c) => Same
  <2>1. Calls(c) => Same
    BY CallsTo DEF Main, Idle
  <2> QED
    BY <1>2, <1>4, <2>1 DEF AcquireLock, GiveUpLock
<1>6. cachedStamp(c) => caller'[c].cur \in {stampCache[Home[c]], source}
  BY <1>1 DEF cachedStamp, CallerStates
<1>7. StoreStamp(c) \/ Open(c) \/ DropForeign(c) \/ ReportKnownFailure(c) \/ Release(c) => Same
  BY <1>2, <1>3, <1>4 DEF StoreStamp, Open, DropForeign, ReportKnownFailure, Release
<1>8. ReadMeta(c) => Same
  <2> SUFFICES ASSUME ReadMeta(c)
               PROVE  Same
    OBVIOUS
  <2> DEFINE nx(f) == IF caller[c].mode # "ensure" \/ f.stamp = caller[c].cur THEN "using"
                      ELSE IF f.stamp = Foreign THEN "foreign" ELSE "warm"
             cu(f) == IF nx(f) = "using" THEN None ELSE caller[c].cur
             go(f) == IF caller[c].mode = "settle" THEN f.ino ELSE caller[c].got
  <2>1. PICK f \in Files :
          caller' = [caller EXCEPT ![c].pc = nx(f), ![c].cur = IF nx(f) = "using" THEN None ELSE @,
                                   ![c].got = IF caller[c].mode = "settle" THEN f.ino ELSE @]
    BY DEF ReadMeta
  <2>2. caller' = [caller EXCEPT ![c] = [caller[c] EXCEPT !.pc = nx(f), !.cur = cu(f), !.got = go(f)]]
    BY <2>1
  <2>3. cu(f) \in {None, caller[c].cur}
    OBVIOUS
  <2> HIDE DEF nx, cu, go
  <2>4. caller'[c].cur = cu(f)
    BY <1>1, <2>2 DEF CallerStates
  <2> QED
    BY <2>3, <2>4
<1>9. RetireHandle(c) => Same
  BY <1>1 DEF RetireHandle, CallerStates
<1>10. Attach(c) \/ ServeKnownFailure(c) \/ LaunchAsync(c) => Same
  BY <1>1 DEF Attach, ServeKnownFailure, LaunchAsync, ServeStale, CallerStates
<1>11. ColdBuild(c) \/ Index(c) => Same
  BY <1>1 DEF ColdBuild, Index, Launch, CallerStates
<1>12. finishColdBuild(c) \/ CancelIndex(c) => Same
  <2>1. finishColdBuild(c) => CutShort(c) \/ caller' = [caller EXCEPT ![c].pc = "retire", ![c].job = None]
    BY DEF finishColdBuild
  <2>2. caller' = [caller EXCEPT ![c].pc = "retire", ![c].job = None] => Same
    BY <1>1 DEF CallerStates
  <2>3. CancelIndex(c) => Same
    BY DEF CancelIndex
  <2> QED
    BY <1>2, <2>1, <2>2, <2>3
<1>13. LookForBuild(c) => Same
  <2>1. LookForBuild(c) => Settle(c, 0) \/ caller' = [caller EXCEPT ![c].pc = "await", ![c].job = builds[Home[c]]]
    BY DEF LookForBuild
  <2>2. caller' = [caller EXCEPT ![c].pc = "await", ![c].job = builds[Home[c]]] => Same
    BY <1>1 DEF CallerStates
  <2> QED
    BY <1>2, <2>1, <2>2
<1>14. Abandon(c) \/ Wake(c) \/ TimeOut(c) => Same
  BY <1>2 DEF Abandon, Wake, TimeOut
<1>15. StampFails(c) \/ OpenFails(c) => Same
  BY <1>2, <1>3, <1>4, FaultForms
<1> QED
  BY <1>5, <1>6, <1>7, <1>8, <1>9, <1>10, <1>11, <1>12, <1>13, <1>14, <1>15, MoverCases DEF Quiet

\* The stamp cache holds what a caller read, until it expires.
LEMMA CacheMoves ==
  ASSUME Main, Next
  PROVE  \A p \in Procs : \/ stampCache'[p] \in {None, stampCache[p]}
                          \/ \E c \in Callers : stampCache'[p] = caller[c].cur
<1>1. stampCache \in [Procs -> Versions \cup {None}]
  BY DEF Main, Core, TypeOK
<1>2. ASSUME NEW c \in Callers, Moves(c)
      PROVE  \A p \in Procs : stampCache'[p] \in {stampCache[p], caller[c].cur}
  <2>1. StoreStamp(c) => \A p \in Procs : stampCache'[p] \in {stampCache[p], caller[c].cur}
    BY <1>1 DEF StoreStamp
  <2>2. Calls(c) \/ AcquireLock(c) \/ GiveUpLock(c) \/ cachedStamp(c) \/ Open(c) \/ ReadMeta(c) \/ DropForeign(c)
        \/ ReportKnownFailure(c) \/ RetireHandle(c) \/ Attach(c) \/ Release(c) \/ LookForBuild(c)
        => UNCHANGED stampCache
    BY DEF Calls, Call, AcquireLock, GiveUpLock, cachedStamp, Open, ReadMeta, DropForeign,
           ReportKnownFailure, RetireHandle, Attach, Release, LookForBuild, procVars
  <2>3. ColdBuild(c) \/ Index(c) \/ LaunchAsync(c) \/ ServeKnownFailure(c) => UNCHANGED stampCache
    BY DEF ColdBuild, Index, LaunchAsync, ServeKnownFailure, procVars
  <2>4. CancelIndex(c) \/ finishColdBuild(c) \/ Abandon(c) \/ Wake(c) \/ TimeOut(c) => UNCHANGED stampCache
    BY DEF CancelIndex, finishColdBuild, Abandon, Wake, TimeOut, procVars
  <2>5. StampFails(c) \/ OpenFails(c) => UNCHANGED stampCache
    BY FaultForms
  <2> QED
    BY <1>2, <2>1, <2>2, <2>3, <2>4, <2>5, MoverCases DEF Quiet
<1>3. ASSUME NEW j \in Jobs, Works(j)
      PROVE  UNCHANGED stampCache
  <2>1. Ends(j) => UNCHANGED stampCache
    BY DEF Ends, Discard, FailAsync, SucceedAsync, Signal, RecordAbandoned, RetireAbandoned, procVars
  <2> QED
    BY <1>3, <2>1, BuildsEffect, WorkCases DEF Main
<1>4. ASSUME Environs \/ \E p \in Procs : Crash(p)
      PROVE  \A p \in Procs : stampCache'[p] \in {None, stampCache[p]}
  BY <1>1, <1>4 DEF Environs, Edit, StampExpires, CloseHandles, CloseBuilds, Crash, procVars
<1> QED
  BY <1>2, <1>3, <1>4, NextCases

\* What a build is about to publish is the tree as it was when the build read it.
LEMMA BuildReads ==
  ASSUME Main, NEW j \in Jobs, Builds(j), NEW k \in Jobs, job'[k].phase = "rename"
  PROVE  \/ job[k].phase = "rename" /\ job'[k].content = job[k].content
         \/ job'[k].content = source
<1>1. job \in [Jobs -> JobStates] /\ job[k] \in JobStates
  BY DEF Main, Core, TypeOK
<1>2. CASE job'[k] = job[k]
  BY <1>2
<1>3. ASSUME NEW ok, NEW out, Outcome(j, ok, out)
      PROVE  job'[k] = job[k]
  <2>1. k = j => job'[k].phase = "finish"
    BY <1>1, <1>3 DEF Outcome, JobStates
  <2> QED
    BY <1>1, <1>3, <2>1 DEF Outcome
<1>4. ASSUME job' = [job EXCEPT ![j].phase = "load"]
      PROVE  job'[k] = job[k]
  <2>1. k = j => job'[k].phase = "load"
    BY <1>1, <1>4 DEF JobStates
  <2> QED
    BY <1>1, <1>4, <2>1
<1>5. TryFlock(j) \/ GiveUpFlock(j) \/ LockUnavailable(j) \/ BuildFault(j) => job'[k] = job[k]
  BY <1>3, <1>4 DEF TryFlock, GiveUpFlock, LockUnavailable, BuildFault
<1>6. CASE buildIndex(j)
  <2>1. CASE job' = [job EXCEPT ![j].phase = "rename", ![j].content = source]
    <3>1. k = j => job'[k].content = source
      BY <1>1, <2>1 DEF JobStates
    <3>2. k # j => job'[k] = job[k]
      BY <1>1, <2>1
    <3> QED
      BY <1>2, <3>1, <3>2
  <2> QED
    BY <1>2, <1>3, <1>6, <2>1 DEF buildIndex
<1>7. CASE Rename(j)
  <2>1. \/ k = j /\ job'[k] = [job[k] EXCEPT !.phase = "finish", !.content = None, !.ok = TRUE, !.out = NextIno]
        \/ job'[k] = [job[k] EXCEPT !.beaten = TRUE]
        \/ job'[k] = job[k]
    BY <1>7 DEF Rename
  <2> QED
    BY <1>1, <2>1 DEF JobStates
<1> QED
  BY <1>2, <1>5, <1>6, <1>7 DEF Builds

\* Where a build's stamp comes from, and what it is about to publish.
LEMMA StampMoves ==
  ASSUME Main, WaitersInv, Next, NEW k \in Jobs
  PROVE  /\ \/ job'[k].stamp \in {None, job[k].stamp}
            \/ \E c \in Callers : job'[k].stamp = caller[c].cur
         /\ job'[k].phase = "rename" =>
              /\ job'[k].stamp = job[k].stamp
              /\ \/ job[k].phase = "rename" /\ job'[k].content = job[k].content
                 \/ job'[k].content = source
<1>1. job \in [Jobs -> JobStates] /\ job[k] \in JobStates
  BY DEF Main, Core, TypeOK
<1>2. Gone.stamp = None /\ Gone.phase = "gone"
  BY DEF Gone
<1>3. CASE \E c \in Callers : Moves(c)
  BY <1>2, <1>3, MoverJobs DEF Kept, Anew, Begun
<1>4. CASE \E j \in Jobs : Ends(j)
  BY <1>4, EnderKeeps
<1>5. CASE \E j \in Jobs : Builds(j)
  BY <1>5, BuildsEffect, BuildReads DEF Continues, Main
<1>6. CASE Environs
  <2>1. job'[k] = job[k] \/ job'[k] = [job[k] EXCEPT !.live = FALSE]
    BY <1>6, CloseBuildsEffect DEF Environs, Edit, StampExpires, CloseHandles
  <2> QED
    BY <1>1, <2>1 DEF JobStates
<1>7. CASE \E p \in Procs : Crash(p)
  BY <1>2, <1>7, CrashEffect
<1> QED
  BY <1>3, <1>4, <1>5, <1>6, <1>7, NextCases, WorkCases

LEMMA LabelsStep ==
  ASSUME Main, WaitersInv, LabelsInv, NoReverts, Next, UNCHANGED scene
  PROVE  LabelsInv'
<1>1. /\ source \in Nat /\ source' \in Nat /\ source' >= source
      /\ Versions \subseteq Nat /\ None \notin Versions
  BY SourceAdvances, ManagerAssumption
<1>2. /\ job \in [Jobs -> JobStates] /\ caller \in [Callers -> CallerStates]
      /\ stampCache \in [Procs -> Versions \cup {None}] /\ disk \in Files \cup {Absent}
  BY DEF Main, Core, TypeOK
<1>3. \A c \in Callers : caller[c].cur \in Versions \cup {None}
  BY <1>2 DEF CallerStates
<1>4. ASSUME NEW v \in Versions, v <= source
      PROVE  v <= source'
  BY <1>1, <1>4
<1>5. \A c \in Callers : caller[c].cur # None => caller[c].cur <= source'
  BY <1>3, <1>4 DEF LabelsInv
<1>6. \A p \in Procs : stampCache[p] # None => stampCache[p] <= source'
  BY <1>2, <1>4 DEF LabelsInv
<1>7. \A p \in Procs : stampCache'[p] # None => stampCache'[p] <= source'
  BY <1>5, <1>6, CacheMoves
<1>8. ASSUME NEW c \in Callers, caller'[c].cur # None
      PROVE  caller'[c].cur <= source'
  <2>1. caller'[c].cur \in {None, caller[c].cur, stampCache[Home[c]], source}
    <3>1. CASE Moves(c)
      BY <3>1, MoverCur
    <3>2. CASE \E d \in Callers \ {c} : Moves(d)
      BY <3>2, MoverTypes, MovesTo DEF Main
    <3>3. CASE \E p \in Procs : Crash(p)
      <4>1. Idle.cur = None
        BY DEF Idle
      <4> QED
        BY <3>3, <4>1, CrashEffect
    <3> QED
      BY <3>1, <3>2, <3>3, NextCases, OthersKeepCallers
  <2> QED
    BY <1>1, <1>5, <1>6, <1>8, <2>1, Waited
<1>9. ASSUME NEW k \in Jobs
      PROVE  /\ job'[k].stamp # None => job'[k].stamp <= source'
             /\ job'[k].phase = "rename" => job'[k].content >= job'[k].stamp
  <2>1. job[k].stamp \in Versions \cup {None}
    BY <1>2 DEF JobStates
  <2>2. job[k].stamp # None => job[k].stamp <= source /\ job[k].stamp <= source'
    BY <1>4, <2>1 DEF LabelsInv
  <2>3. job'[k].stamp # None => job'[k].stamp <= source'
    BY <1>5, <2>2, StampMoves
  <2>4. ASSUME job'[k].phase = "rename"
        PROVE  job'[k].content >= job'[k].stamp
    <3>1. job'[k].stamp \in Versions
      BY <2>4, JobTypes DEF GoodJob
    <3>2. job'[k].stamp = job[k].stamp
      BY <2>4, StampMoves
    <3>3. CASE job[k].phase = "rename" /\ job'[k].content = job[k].content
      BY <3>2, <3>3 DEF LabelsInv
    <3>4. CASE job'[k].content = source
      BY <1>1, <2>2, <3>1, <3>2, <3>4
    <3> QED
      BY <2>4, <3>3, <3>4, StampMoves
  <2> QED
    BY <2>3, <2>4
<1>10. LabelNeverAheadOfContent'
  <2>1. CASE UNCHANGED disk
    BY <2>1 DEF LabelsInv, LabelNeverAheadOfContent
  <2>2. ASSUME NEW j \in Jobs, Rename(j), disk' = Published(j)
        PROVE  LabelNeverAheadOfContent'
    <3>1. job[j].content >= job[j].stamp
      BY <2>2 DEF LabelsInv, Rename
    <3>2. disk'.content = job[j].content /\ disk'.stamp = job[j].stamp
      BY <2>2 DEF Published
    <3> QED
      BY <3>1, <3>2 DEF LabelNeverAheadOfContent
  <2> QED
    BY <2>1, <2>2, DiskMoves
<1> QED
  BY <1>7, <1>8, <1>9, <1>10 DEF LabelsInv

\* LabelNeverAheadOfContent: when no edit brings back an earlier tree, a published
\* graph holds every edit that its stamp row claims (graph.go:564-607).
THEOREM LabelsAreHonest == Spec /\ NoReverts => []LabelNeverAheadOfContent
<1>1. Init => LabelsInv
  <2> SUFFICES ASSUME Init
               PROVE  LabelsInv
    OBVIOUS
  <2>1. Idle.cur = None /\ Gone.stamp = None /\ Gone.phase = "gone"
    BY DEF Idle, Gone
  <2>2. disk # Absent /\ disk.stamp # Foreign => disk \in Files /\ disk.stamp = disk.content
    BY DEF Init, EarlierGraphs, Files
  <2>3. disk \in Files => disk.content \in Nat
    BY ManagerAssumption DEF Files
  <2>4. LabelNeverAheadOfContent
    BY <2>2, <2>3 DEF LabelNeverAheadOfContent
  <2> QED
    BY <2>1, <2>4 DEF Init, LabelsInv
<1>2. Main /\ WaitersInv /\ LabelsInv /\ NoReverts /\ [Next /\ UNCHANGED scene]_vars => LabelsInv'
  <2>1. LabelsInv /\ UNCHANGED vars => LabelsInv'
    BY DEF LabelsInv, LabelNeverAheadOfContent, vars, rest
  <2> QED
    BY <2>1, LabelsStep
<1>3. NoReverts /\ [Next /\ UNCHANGED scene]_vars => NoReverts'
  BY DEF NoReverts, vars
<1>4. LabelsInv => LabelNeverAheadOfContent
  BY DEF LabelsInv
<1> QED
  BY <1>1, <1>2, <1>3, <1>4, MainHolds, WaitersHold, PTL DEF Spec

-----------------------------------------------------------------------------
(* What a handle can read.                                                 *)

\* A handle's pool gains at most the file now at the path; the cache and the
\* callers hold what was there before or a handle that has read nothing yet.
Pools ==
  /\ \A h \in Handles : \A f \in entry'[h].pool : f \in entry[h].pool \/ (disk # Absent /\ f = disk)
  /\ \A p \in Procs : \/ conns'[p] \in {None, conns[p]}
                      \/ conns'[p] \in Handles /\ entry'[conns'[p]].pool = {}
  /\ \A c \in Callers : \/ held'[c] \in {None, held[c], conns[Home[c]]}
                        \/ held'[c] \in Handles /\ entry'[held'[c]].pool = {}

LEMMA PoolSteps ==
  ASSUME H!TypeOK, [H!Next]_(H!vars)
  PROVE  Pools
<1>1. /\ entry \in [Handles -> H!Entries] /\ conns \in [Procs -> Handles \cup {None}]
      /\ held \in [Callers -> Handles \cup {None}] /\ Home \in [Callers -> Procs]
  BY ManagerAssumption DEF H!TypeOK
<1>2. ASSUME UNCHANGED <<conns, entry, held>>
      PROVE  Pools
  BY <1>2 DEF Pools
<1>3. ASSUME NEW c \in Callers, H!Open(c)
      PROVE  Pools
  <2>1. CASE /\ conns[Home[c]] # None
             /\ entry' = [entry EXCEPT ![conns[Home[c]]].refs = @ + 1]
             /\ held' = [held EXCEPT ![c] = conns[Home[c]]] /\ UNCHANGED conns
    BY <1>1, <2>1 DEF Pools, H!Entries
  <2>2. ASSUME NEW h \in Handles, entry' = [entry EXCEPT ![h] = [H!NewEntry EXCEPT !.refs = 1]],
               held' = [held EXCEPT ![c] = h], conns' = [conns EXCEPT ![Home[c]] = h]
        PROVE  Pools
    <3>1. entry'[h].pool = {} /\ \A k \in Handles \ {h} : entry'[k] = entry[k]
      BY <1>1, <2>2 DEF H!NewEntry
    <3> QED
      BY <1>1, <2>2, <3>1 DEF Pools
  <2> QED
    BY <1>3, <2>1, <2>2 DEF H!Open, H!Acquire
<1>4. ASSUME NEW c \in Callers, H!Query(c)
      PROVE  Pools
  <2>1. PICK f \in Files : /\ held[c] # None /\ f \in H!Readable(held[c])
                           /\ entry' = [entry EXCEPT ![held[c]].pool = @ \cup {f}]
                           /\ UNCHANGED <<conns, held>>
    BY <1>4 DEF H!Query, H!Read
  <2>2. f \in entry[held[c]].pool \/ (disk # Absent /\ f = disk)
    BY <2>1 DEF H!Readable
  <2>3. \A h \in Handles : \/ entry'[h] = entry[h]
                           \/ h = held[c] /\ entry'[h].pool = entry[h].pool \cup {f}
    BY <1>1, <2>1 DEF H!Entries
  <2> QED
    BY <2>1, <2>2, <2>3 DEF Pools
<1>5. ASSUME NEW e \in H!Entries
      PROVE  /\ H!maybeClose([e EXCEPT !.refs = @ - 1]).pool \subseteq e.pool
             /\ H!retire(e).pool \subseteq e.pool
  BY DEF H!maybeClose, H!retire, H!Entries
<1>6. ASSUME NEW c \in Callers, H!Release(c)
      PROVE  Pools
  <2>1. /\ held[c] \in Handles /\ entry' = [entry EXCEPT ![held[c]] = H!Dropped(held[c])]
        /\ held' = [held EXCEPT ![c] = None] /\ UNCHANGED conns
    BY <1>1, <1>6 DEF H!Release, H!release
  <2>2. \A h \in Handles : entry'[h].pool \subseteq entry[h].pool
    BY <1>1, <1>5, <2>1 DEF H!Dropped
  <2> QED
    BY <1>1, <2>1, <2>2 DEF Pools
<1>7. ASSUME NEW p \in Procs, H!CloseConn(p)
      PROVE  Pools
  <2>1. \A h \in Handles : entry'[h].pool \subseteq entry[h].pool
    <3>1. CASE conns[p] = None
      BY <1>7, <3>1 DEF H!CloseConn, H!closeConn
    <3>2. CASE conns[p] # None
      <4>1. entry' = [entry EXCEPT ![conns[p]] = H!retire(entry[conns[p]])]
        BY <1>7, <3>2 DEF H!CloseConn, H!closeConn
      <4> QED
        BY <1>1, <1>5, <4>1
    <3> QED
      BY <3>1, <3>2
  <2>2. conns' = [conns EXCEPT ![p] = None] /\ UNCHANGED held
    BY <1>7 DEF H!CloseConn, H!closeConn
  <2> QED
    BY <1>1, <2>1, <2>2 DEF Pools
<1>8. ASSUME NEW p \in Procs, H!Exit(p)
      PROVE  Pools
  <2>1. \A h \in Handles : entry'[h].pool = {} \/ entry'[h] = entry[h]
    BY <1>8 DEF H!Exit, H!exit, H!Garbage
  <2>2. /\ conns' = [conns EXCEPT ![p] = None]
        /\ \A c \in Callers : held'[c] \in {None, held[c]}
    BY <1>8 DEF H!Exit, H!exit
  <2> QED
    BY <1>1, <2>1, <2>2 DEF Pools
<1>9. H!Replace => UNCHANGED <<conns, entry, held>>
  BY DEF H!Replace, H!handleVars
<1> QED
  BY <1>2, <1>3, <1>4, <1>6, <1>7, <1>8, <1>9 DEF H!Next, H!vars

\* Every file process p can read through its cached handle is at least the n-th.
CacheFrom(p, n) ==
  /\ disk # Absent \/ n = 0
  /\ disk # Absent => disk.ino >= n
  /\ conns[p] # None => \A f \in entry[conns[p]].pool : f.ino >= n

\* So is every file caller c can read through the handle it holds.
HeldFrom(c, n) == held[c] # None => \A f \in entry[held[c]].pool : f.ino >= n

InoBound == disk # Absent => disk.ino <= scene.inos

\* A published file never gives way to an earlier one.
LEMMA DiskGrows ==
  ASSUME Main, InoBound, Next, UNCHANGED scene
  PROVE  /\ InoBound'
         /\ disk # Absent => disk.ino \in Nat /\ disk' # Absent /\ disk'.ino \in Nat /\ disk'.ino >= disk.ino
<1>1. disk \in Files \cup {Absent} /\ scene.inos \in Nat
  BY Bounds DEF Main, Core, TypeOK
<1>2. disk # Absent => disk.ino \in Nat
  BY <1>1, ManagerAssumption DEF Files
<1>3. CASE UNCHANGED disk
  BY <1>2, <1>3 DEF InoBound
<1>4. ASSUME NEW j \in Jobs, disk' = Published(j), disk' # Absent
      PROVE  /\ InoBound'
             /\ disk # Absent => disk' # Absent /\ disk'.ino \in Nat /\ disk'.ino >= disk.ino
  <2>1. disk'.ino = NextIno
    BY <1>4 DEF Published
  <2>2. /\ NextIno \in Nat /\ NextIno <= scene.inos
        /\ disk # Absent => NextIno >= disk.ino
    BY <1>1, <1>2 DEF NextIno, InoBound
  <2> QED
    BY <1>4, <2>1, <2>2 DEF InoBound
<1> QED
  BY <1>2, <1>3, <1>4, DiskMoves

LEMMA PoolTypes ==
  ASSUME Main
  PROVE  /\ \A h \in Handles : \A f \in entry[h].pool : f.ino \in Nat
         /\ conns \in [Procs -> Handles \cup {None}] /\ held \in [Callers -> Handles \cup {None}]
         /\ Home \in [Callers -> Procs]
<1>1. H!TypeOK
  BY DEF Main, Core, TypeOK
<1>2. \A h \in Handles : entry[h].pool \subseteq Files
  BY <1>1 DEF H!TypeOK, H!Entries
<1>3. \A f \in Files : f.ino \in Nat
  BY ManagerAssumption DEF Files
<1> QED
  BY <1>1, <1>2, <1>3, ManagerAssumption DEF H!TypeOK

\* What can be read from there on only gets later.
LEMMA ReadsGrow ==
  ASSUME Main, InoBound, Next, UNCHANGED scene, NEW n \in Nat
  PROVE  /\ \A p \in Procs : CacheFrom(p, n) => CacheFrom(p, n)'
         /\ \A c \in Callers : CacheFrom(Home[c], n) /\ HeldFrom(c, n) => HeldFrom(c, n)'
<1>1. Pools
  BY ProtocolStep, PoolSteps DEF Main, Core, TypeOK
<1>2. /\ disk # Absent => disk.ino \in Nat /\ disk' # Absent /\ disk'.ino \in Nat /\ disk'.ino >= disk.ino
      /\ disk' # Absent => disk'.ino \in Nat
  <2>1. Main'
    BY MainStep
  <2>2. disk' # Absent => disk'.ino \in Nat
    BY <2>1, ManagerAssumption DEF Main, Core, TypeOK, Files
  <2> QED
    BY <2>2, DiskGrows
<1>3. ASSUME NEW h \in Handles, \A f \in entry[h].pool : f.ino >= n, disk # Absent => disk.ino >= n
      PROVE  \A f \in entry'[h].pool : f.ino >= n
  BY <1>1, <1>3 DEF Pools
<1>4. ASSUME NEW p \in Procs, CacheFrom(p, n)
      PROVE  CacheFrom(p, n)'
  <2>1. (disk' # Absent \/ n = 0) /\ (disk' # Absent => disk'.ino >= n)
    BY <1>2, <1>4 DEF CacheFrom
  <2>2. ASSUME conns'[p] # None
        PROVE  \A f \in entry'[conns'[p]].pool : f.ino >= n
    <3>1. CASE conns'[p] = conns[p]
      BY <1>3, <1>4, <2>2, <3>1, PoolTypes DEF CacheFrom
    <3>2. CASE entry'[conns'[p]].pool = {}
      BY <3>2
    <3> QED
      BY <1>1, <2>2, <3>1, <3>2 DEF Pools
  <2> QED
    BY <2>1, <2>2 DEF CacheFrom
<1>5. ASSUME NEW c \in Callers, CacheFrom(Home[c], n), HeldFrom(c, n)
      PROVE  HeldFrom(c, n)'
  <2>1. disk # Absent => disk.ino >= n
    BY <1>5 DEF CacheFrom
  <2>2. ASSUME held'[c] # None
        PROVE  \A f \in entry'[held'[c]].pool : f.ino >= n
    <3>1. CASE held'[c] = held[c]
      BY <1>3, <1>5, <2>1, <2>2, <3>1, PoolTypes DEF HeldFrom
    <3>2. CASE held'[c] = conns[Home[c]]
      BY <1>3, <1>5, <2>1, <2>2, <3>2, PoolTypes DEF CacheFrom
    <3>3. CASE entry'[held'[c]].pool = {}
      BY <3>3
    <3> QED
      BY <1>1, <2>2, <3>1, <3>2, <3>3 DEF Pools
  <2> QED
    BY <2>2 DEF HeldFrom
<1> QED
  BY <1>4, <1>5

\* Any file is at least the first.
AllFromZero == (\A p \in Procs : CacheFrom(p, 0)) /\ (\A c \in Callers : HeldFrom(c, 0))

LEMMA FromZero == Main => AllFromZero
<1> SUFFICES ASSUME Main
             PROVE  AllFromZero
  OBVIOUS
<1>1. disk # Absent => disk.ino >= 0
  BY ManagerAssumption DEF Main, Core, TypeOK, Files
<1>2. \A h \in Handles : \A f \in entry[h].pool : f.ino >= 0
  BY PoolTypes
<1>3. \A p \in Procs : conns[p] # None => conns[p] \in Handles
  BY PoolTypes
<1>4. \A c \in Callers : held[c] # None => held[c] \in Handles
  BY PoolTypes
<1> QED
  BY <1>1, <1>2, <1>3, <1>4 DEF AllFromZero, CacheFrom, HeldFrom

-----------------------------------------------------------------------------
(* WaitBuild settles.                                                      *)

\* A caller that is on its way to read a graph.
Seeks(a) == a.pc \in {"stamp", "store", "open", "meta"}

\* What a WaitBuild may still read is no earlier than what it waited for; what a
\* build publishes stays, or gives way to a later file; and by the time a build's
\* channel closes, the handle on the file it replaced is retired.
SettleInv ==
  /\ InoBound
  /\ \A c \in Callers :
       /\ caller[c].got >= caller[c].least
       /\ caller[c].least > 0 => caller[c].mode = "settle"
       /\ Seeks(caller[c]) => CacheFrom(Home[c], caller[c].least)
       /\ caller[c].pc = "meta" => HeldFrom(c, caller[c].least)
       /\ caller[c].pc = "await" /\ ~Alive(caller[c].job) => CacheFrom(Home[c], job[caller[c].job].out)
  /\ \A j \in Jobs :
       /\ job[j].phase = "finish" /\ job[j].ok => disk # Absent /\ disk.ino >= job[j].out
       /\ job[j].phase = "signal" => CacheFrom(job[j].proc, job[j].out)

\* Only the end of a wait sets a caller a target.
LEMMA MoverLeast ==
  ASSUME Main, NEW c \in Callers, Moves(c)
  PROVE  \/ caller'[c].least \in {0, caller[c].least}
         \/ /\ caller[c].pc = "await" /\ ~Alive(caller[c].job)
            /\ caller'[c] = Settled(job[caller[c].job].out)
<1>1. caller \in [Callers -> CallerStates] /\ caller[c] \in CallerStates
  BY DEF Main, Core, TypeOK
<1> DEFINE Same == caller'[c].least \in {0, caller[c].least}
<1>2. CutShort(c) \/ Settle(c, 0) => Same
  <2>1. Idle.least = 0 /\ Settled(0).least = 0
    BY DEF Idle, Settled
  <2> QED
    BY <2>1, CutShortTo DEF Main
<1>3. Return(c) => Same
  BY <1>1 DEF Return, Idle
<1>4. \A pc : Goto(c, pc) => Same
  BY <1>1 DEF Goto, CallerStates
<1>5. Calls(c) \/ AcquireLock(c) \/ GiveUpLock(c) => Same
  <2>1. Calls(c) => Same
    BY CallsTo DEF Main, Idle
  <2>2. AcquireLock(c) => Goto(c, "stamp")
    BY DEF AcquireLock
  <2>3. GiveUpLock(c) => CutShort(c)
    BY DEF GiveUpLock
  <2> QED
    BY <1>2, <1>4, <2>1, <2>2, <2>3
<1>6. cachedStamp(c) => Same
  BY <1>1 DEF cachedStamp, CallerStates
<1>7. StoreStamp(c) \/ Open(c) \/ DropForeign(c) \/ ReportKnownFailure(c) \/ Release(c) => Same
  BY <1>2, <1>3, <1>4 DEF StoreStamp, Open, DropForeign, ReportKnownFailure, Release
<1>8. ReadMeta(c) => Same
  <2> SUFFICES ASSUME ReadMeta(c)
               PROVE  Same
    OBVIOUS
  <2> DEFINE nx(f) == IF caller[c].mode # "ensure" \/ f.stamp = caller[c].cur THEN "using"
                      ELSE IF f.stamp = Foreign THEN "foreign" ELSE "warm"
             cu(f) == IF nx(f) = "using" THEN None ELSE caller[c].cur
             go(f) == IF caller[c].mode = "settle" THEN f.ino ELSE caller[c].got
  <2>1. PICK f \in Files :
          caller' = [caller EXCEPT ![c].pc = nx(f), ![c].cur = IF nx(f) = "using" THEN None ELSE @,
                                   ![c].got = IF caller[c].mode = "settle" THEN f.ino ELSE @]
    BY DEF ReadMeta
  <2>2. caller' = [caller EXCEPT ![c] = [caller[c] EXCEPT !.pc = nx(f), !.cur = cu(f), !.got = go(f)]]
    BY <2>1
  <2> HIDE DEF nx, cu, go
  <2> QED
    BY <1>1, <2>2 DEF CallerStates
<1>9. RetireHandle(c) => Same
  BY <1>1 DEF RetireHandle, CallerStates
<1>10. Attach(c) \/ ServeKnownFailure(c) \/ LaunchAsync(c) => Same
  BY <1>1 DEF Attach, ServeKnownFailure, LaunchAsync, ServeStale, CallerStates
<1>11. ColdBuild(c) \/ Index(c) => Same
  BY <1>1 DEF ColdBuild, Index, Launch, CallerStates
<1>12. finishColdBuild(c) \/ CancelIndex(c) => Same
  <2>1. finishColdBuild(c) => CutShort(c) \/ caller' = [caller EXCEPT ![c].pc = "retire", ![c].job = None]
    BY DEF finishColdBuild
  <2>2. caller' = [caller EXCEPT ![c].pc = "retire", ![c].job = None] => Same
    BY <1>1 DEF CallerStates
  <2>3. CancelIndex(c) => Same
    BY DEF CancelIndex
  <2> QED
    BY <1>2, <2>1, <2>2, <2>3
<1>13. LookForBuild(c) => Same
  <2>1. LookForBuild(c) => Settle(c, 0) \/ caller' = [caller EXCEPT ![c].pc = "await", ![c].job = builds[Home[c]]]
    BY DEF LookForBuild
  <2>2. caller' = [caller EXCEPT ![c].pc = "await", ![c].job = builds[Home[c]]] => Same
    BY <1>1 DEF CallerStates
  <2> QED
    BY <1>2, <2>1, <2>2
<1>14. Abandon(c) \/ TimeOut(c) => Same
  BY <1>2 DEF Abandon, TimeOut
<1>15. ASSUME Wake(c)
       PROVE  \/ Same
              \/ /\ caller[c].pc = "await" /\ ~Alive(caller[c].job)
                 /\ caller'[c] = Settled(job[caller[c].job].out)
  <2>1. caller[c].pc = "await" /\ Settle(c, IF Alive(caller[c].job) THEN 0 ELSE job[caller[c].job].out)
    BY <1>15 DEF Wake
  <2>2. CASE Alive(caller[c].job)
    BY <1>2, <2>1, <2>2
  <2>3. CASE ~Alive(caller[c].job)
    BY <2>1, <2>3, CutShortTo DEF Main
  <2> QED
    BY <2>2, <2>3
<1>16. StampFails(c) \/ OpenFails(c) => Same
  BY <1>2, <1>3, <1>4, FaultForms
<1> QED
  BY <1>5, <1>6, <1>7, <1>8, <1>9, <1>10, <1>11, <1>12, <1>13, <1>14, <1>15, <1>16, MoverCases DEF Quiet

\* The steps of a WaitBuild that has settled.
LEMMA SettledMoves ==
  ASSUME Main, NEW c \in Callers, Moves(c), caller[c].mode = "settle"
  PROVE  \/ cachedStamp(c) \/ StoreStamp(c) \/ Open(c) \/ ReadMeta(c) \/ Release(c)
         \/ StampFails(c) \/ OpenFails(c)
<1>1. caller[c].pc \in {"stamp", "store", "open", "meta", "using"}
  BY DEF Main, Core, GoodCaller
<1>2. ~Calls(c) /\ ~AcquireLock(c) /\ ~GiveUpLock(c) /\ ~DropForeign(c)
  BY <1>1 DEF Calls, Call, AcquireLock, GiveUpLock, DropForeign
<1>3. ~ReportKnownFailure(c) /\ ~RetireHandle(c) /\ ~Attach(c) /\ ~LookForBuild(c)
  BY <1>1 DEF ReportKnownFailure, RetireHandle, Attach, LookForBuild
<1>4. ~ColdBuild(c) /\ ~Index(c) /\ ~LaunchAsync(c) /\ ~ServeKnownFailure(c)
  BY <1>1 DEF ColdBuild, Index, LaunchAsync, ServeKnownFailure
<1>5. ~CancelIndex(c) /\ ~finishColdBuild(c) /\ ~Abandon(c) /\ ~Wake(c) /\ ~TimeOut(c)
  BY <1>1 DEF CancelIndex, finishColdBuild, Abandon, Wake, TimeOut
<1> QED
  BY <1>2, <1>3, <1>4, <1>5, MoverCases DEF Quiet

\* What a caller on its way to a graph is entitled to.
Aims(c) ==
  /\ caller[c].got >= caller[c].least
  /\ caller[c].least > 0 => caller[c].mode = "settle"
  /\ Seeks(caller[c]) => CacheFrom(Home[c], caller[c].least)
  /\ caller[c].pc = "meta" => HeldFrom(c, caller[c].least)

LEMMA AimsStay ==
  ASSUME Main, SettleInv, Next, UNCHANGED scene, NEW c \in Callers, caller'[c] = caller[c]
  PROVE  Aims(c)'
<1>1. caller[c].least \in Nat
  BY ManagerAssumption DEF Main, Core, TypeOK, CallerStates
<1>2. Seeks(caller[c]) => CacheFrom(Home[c], caller[c].least)'
  BY <1>1, ReadsGrow, Waited DEF SettleInv
<1>3. caller[c].pc = "meta" => HeldFrom(c, caller[c].least)'
  BY <1>1, ReadsGrow DEF SettleInv, Seeks
<1> QED
  BY <1>2, <1>3 DEF Aims, SettleInv

LEMMA AimsMove ==
  ASSUME Main, SettleInv, Next, UNCHANGED scene, NEW c \in Callers, Moves(c)
  PROVE  Aims(c)'
<1> DEFINE a == caller[c]
           b == caller'[c]
<1>1. /\ caller \in [Callers -> CallerStates] /\ a \in CallerStates /\ a.least \in Nat /\ a.got \in Nat
      /\ Home[c] \in Procs
  BY Waited, ManagerAssumption DEF Main, Core, TypeOK, CallerStates
<1>2. b.least \in Nat /\ b.got \in Nat
  BY CoreStep, ManagerAssumption DEF Main, Core, TypeOK, CallerStates
<1>3. CASE b.least = 0
  <2>1. CacheFrom(Home[c], 0)' /\ HeldFrom(c, 0)'
    <3>1. Main'
      BY MainStep
    <3>2. AllFromZero'
      BY <3>1, FromZero, PTL
    <3> QED
      BY <1>1, <3>2 DEF AllFromZero
  <2> QED
    BY <1>2, <1>3, <2>1 DEF Aims
<1>4. CASE a.pc = "await" /\ ~Alive(a.job) /\ b = Settled(job[a.job].out)
  <2>1. a.job \in Jobs
    BY <1>4, Waited
  <2>2. job[a.job].out \in 0 .. MaxIno
    BY <2>1 DEF Main, Core, TypeOK, JobStates
  <2>3. PICK n \in 0 .. MaxIno : n = job[a.job].out
    BY <2>2
  <2>4. n \in Nat /\ MaxIno >= n
    BY ManagerAssumption
  <2>5. CacheFrom(Home[c], n)
    BY <1>4, <2>3 DEF SettleInv
  <2>6. InoBound
    BY DEF SettleInv
  <2>7. CacheFrom(Home[c], n)'
    BY <1>1, <2>4, <2>5, <2>6, ReadsGrow
  <2>8. b.least = n /\ b.got = MaxIno /\ b.mode = "settle" /\ b.pc = "stamp"
    BY <1>4, <2>3 DEF Settled, Idle
  <2> QED
    BY <2>4, <2>7, <2>8 DEF Aims
<1>5. CASE b.least = a.least /\ b.least # 0
  <2>1. a.mode = "settle"
    BY <1>1, <1>5 DEF SettleInv
  <2>2. CASE Open(c)
    <3>1. CASE Return(c)
      BY <1>1, <1>5, <3>1 DEF Return, Idle
    <3>2. CASE H!Acquire(c) /\ Goto(c, "meta")
      <4>1. b.pc = "meta" /\ b.mode = a.mode /\ b.got = a.got
        BY <1>1, <3>2 DEF Goto, CallerStates
      <4>2. PICK n \in Nat : n = a.least
        BY <1>1
      <4>3. CacheFrom(Home[c], n) /\ HeldFrom(c, n)
        BY <2>2, <3>2, <4>2 DEF SettleInv, Seeks, Open, HeldFrom, H!Acquire
      <4>4. InoBound /\ a.got >= a.least
        BY DEF SettleInv
      <4>5. CacheFrom(Home[c], n)' /\ HeldFrom(c, n)'
        BY <1>1, <4>3, <4>4, ReadsGrow
      <4> QED
        BY <1>5, <2>1, <4>1, <4>2, <4>4, <4>5 DEF Aims
    <3> QED
      BY <2>1, <2>2, <3>1, <3>2 DEF Open
  <2>3. CASE ReadMeta(c)
    <3>1. a.pc = "meta"
      BY <2>3 DEF ReadMeta
    <3>2. PICK f \in Files :
            /\ H!Read(c, f)
            /\ caller' = [caller EXCEPT ![c].pc = "using", ![c].cur = None, ![c].got = f.ino]
      BY <2>1, <2>3 DEF ReadMeta
    <3>3. f.ino >= a.least
      <4>1. CacheFrom(Home[c], a.least) /\ HeldFrom(c, a.least)
        BY <3>1 DEF SettleInv, Seeks
      <4>2. held[c] # None /\ (f \in entry[held[c]].pool \/ (disk # Absent /\ f = disk))
        BY <3>2 DEF H!Read, H!Readable
      <4> QED
        BY <4>1, <4>2 DEF CacheFrom, HeldFrom
    <3>4. b.pc = "using" /\ b.mode = a.mode /\ b.got = f.ino
      BY <1>1, <3>2 DEF CallerStates
    <3> QED
      BY <1>5, <2>1, <3>3, <3>4 DEF Aims, Seeks
  <2>4. CASE cachedStamp(c) \/ StoreStamp(c)
    <3>1. Seeks(a)
      BY <2>4 DEF Seeks, cachedStamp, StoreStamp
    <3>2. AfterStamp(c) # "meta"
      BY DEF AfterStamp
    <3>3. CASE cachedStamp(c)
      <4>1. b.pc \in {AfterStamp(c), "store"} /\ b.mode = a.mode /\ b.got = a.got
        BY <1>1, <3>3 DEF cachedStamp, CallerStates
      <4> QED
        BY <1>1, <1>5, <2>1, <3>1, <3>2, <4>1, ReadsGrow DEF Aims, SettleInv
    <3>4. CASE StoreStamp(c)
      <4>1. Goto(c, AfterStamp(c))
        BY <3>4 DEF StoreStamp
      <4>2. b.pc = AfterStamp(c) /\ b.mode = a.mode /\ b.got = a.got
        BY <1>1, <4>1 DEF Goto, CallerStates
      <4> QED
        BY <1>1, <1>5, <2>1, <3>1, <3>2, <4>2, ReadsGrow DEF Aims, SettleInv
    <3> QED
      BY <2>4, <3>3, <3>4
  <2>5. CASE Release(c)
    <3>1. Return(c)
      BY <2>1, <2>5 DEF Release
    <3> QED
      BY <1>1, <1>5, <3>1 DEF Return, Idle
  <2>6. CASE StampFails(c) \/ OpenFails(c)
    <3>1. Return(c)
      BY <2>1, <2>6, FaultForms
    <3> QED
      BY <1>1, <1>5, <3>1 DEF Return, Idle
  <2> QED
    BY <2>1, <2>2, <2>3, <2>4, <2>5, <2>6, SettledMoves
<1> QED
  BY <1>3, <1>4, <1>5, MoverLeast

\* A build that succeeds has a file at the path, its own or one it found there.
LEMMA BuildOutcome ==
  ASSUME Main, SettleInv, Next, UNCHANGED scene, NEW j \in Jobs, Builds(j), NEW k \in Jobs
  PROVE  /\ job'[k].phase = "finish" /\ job'[k].ok => disk' # Absent /\ disk'.ino >= job'[k].out
         /\ job[k].phase \in {"gone", "signal"} => job'[k].out = job[k].out
<1>1. job \in [Jobs -> JobStates] /\ job[k] \in JobStates
  BY DEF Main, Core, TypeOK
<1>2. job[k].out \in Nat
  BY <1>1, ManagerAssumption DEF JobStates
<1>3. disk # Absent => disk.ino \in Nat /\ disk' # Absent /\ disk'.ino \in Nat /\ disk'.ino >= disk.ino
  BY DiskGrows DEF SettleInv
<1>4. ASSUME job'[k].phase = job[k].phase, job'[k].ok = job[k].ok, job'[k].out = job[k].out
      PROVE  /\ job'[k].phase = "finish" /\ job'[k].ok => disk' # Absent /\ disk'.ino >= job'[k].out
             /\ job[k].phase \in {"gone", "signal"} => job'[k].out = job[k].out
  BY <1>2, <1>3, <1>4 DEF SettleInv
<1>5. CASE k # j
  <2>1. CASE Rename(j)
    <3>1. job'[k] = job[k] \/ job'[k] = [job[k] EXCEPT !.beaten = TRUE]
      BY <1>5, <2>1 DEF Rename
    <3> QED
      BY <1>1, <1>4, <3>1 DEF JobStates
  <2>2. CASE TryFlock(j) \/ GiveUpFlock(j) \/ LockUnavailable(j) \/ buildIndex(j) \/ BuildFault(j)
    <3>1. job'[k] = job[k]
      BY <1>1, <1>5, <2>2 DEF TryFlock, GiveUpFlock, LockUnavailable, buildIndex, BuildFault, Outcome
    <3> QED
      BY <1>4, <3>1
  <2> QED
    BY <2>1, <2>2 DEF Builds
<1>6. CASE k = j
  <2>1. job[k].phase \in {"flock", "load", "rename"}
    BY <1>6 DEF Builds, TryFlock, GiveUpFlock, LockUnavailable, buildIndex, BuildFault, Rename
  <2>2. ASSUME NEW ok, NEW out, Outcome(j, ok, out)
        PROVE  job'[k].ok = ok /\ job'[k].out = out
    BY <1>1, <1>6, <2>2 DEF Outcome, JobStates
  <2>3. CASE Outcome(j, FALSE, 0)
    BY <2>1, <2>2, <2>3
  <2>4. CASE job' = [job EXCEPT ![j].phase = "load"]
    <3>1. job'[k].phase = "load"
      BY <1>1, <1>6, <2>4 DEF JobStates
    <3> QED
      BY <2>1, <3>1
  <2>5. CASE TryFlock(j)
    <3>1. CASE Outcome(j, TRUE, disk.ino) /\ disk # Absent
      <4>1. disk' = disk
        BY <2>5 DEF TryFlock
      <4> QED
        BY <1>3, <2>1, <2>2, <3>1, <4>1
    <3> QED
      BY <2>4, <2>5, <3>1 DEF TryFlock
  <2>6. CASE buildIndex(j)
    <3>1. CASE job' = [job EXCEPT ![j].phase = "rename", ![j].content = source]
      <4>1. job'[k].phase = "rename"
        BY <1>1, <1>6, <3>1 DEF JobStates
      <4> QED
        BY <2>1, <4>1
    <3> QED
      BY <2>3, <2>6, <3>1 DEF buildIndex
  <2>7. CASE Rename(j)
    <3>1. job'[k] = [job[k] EXCEPT !.phase = "finish", !.content = None, !.ok = TRUE, !.out = NextIno]
      BY <1>6, <2>7 DEF Rename
    <3>2. job'[k].out = NextIno
      BY <1>1, <3>1 DEF JobStates
    <3>3. disk' # Absent /\ disk'.ino = NextIno
      <4>1. disk' = Published(j) /\ disk' # Absent
        BY <2>7, RenameFile
      <4> QED
        BY <4>1 DEF Published
    <3>4. NextIno \in Nat
      BY NextInoTypes, ManagerAssumption DEF Main
    <3> QED
      BY <2>1, <3>2, <3>3, <3>4
  <2> QED
    BY <2>3, <2>4, <2>5, <2>6, <2>7 DEF Builds, GiveUpFlock, LockUnavailable, BuildFault
<1> QED
  BY <1>5, <1>6

\* A build closes its channel only after it retired the cached handle.
LEMMA SignalMoves ==
  ASSUME Main, WaitersInv, SettleInv, Next, UNCHANGED scene, NEW k \in Jobs, job'[k].phase = "signal"
  PROVE  \/ job[k].phase = "signal" /\ job'[k].proc = job[k].proc /\ job'[k].out = job[k].out
         \/ SucceedAsync(k)
<1>1. job \in [Jobs -> JobStates] /\ job[k] \in JobStates
  BY DEF Main, Core, TypeOK
<1>2. Gone.phase = "gone"
  BY DEF Gone
<1>3. CASE \E c \in Callers : Moves(c)
  BY <1>2, <1>3, MoverJobs DEF Kept, Anew, Begun
<1>4. CASE \E j \in Jobs : Builds(j)
  <2>1. PICK j \in Jobs : Builds(j)
    BY <1>4
  <2>2. Continues(job[k], job'[k])
    BY <2>1, BuildsEffect DEF Main
  <2>3. job[k].phase = "signal" /\ job'[k].proc = job[k].proc
    BY <2>2 DEF Continues
  <2> QED
    BY <2>1, <2>3, BuildOutcome
<1>5. ASSUME NEW j \in Jobs, Ends(j)
      PROVE  job'[k] = job[k] \/ SucceedAsync(k)
  <2>1. k # j => job'[k] = job[k]
    BY <1>5, EndsEffect
  <2>2. \A d, o : Ended(j, d, o).phase = "gone"
    BY DEF Ended, Gone
  <2>3. CASE k = j /\ ~SucceedAsync(j)
    <3>1. \/ \E d, o : job'[j] = Ended(j, d, o)
          \/ job'[j] = Gone
          \/ job'[j] = [job[j] EXCEPT !.phase = "retire"]
      <4>1. /\ Discard(j) => job'[j] = Ended(j, job[j].done, 0)
            /\ FailAsync(j) => job'[j] = Ended(j, job[j].done + 1, 0)
            /\ Signal(j) => job'[j] = Ended(j, job[j].done + 1, job[j].out)
        BY <1>1 DEF Discard, FailAsync, Signal
      <4>2. RecordAbandoned(j) => job'[j] = Gone \/ job'[j] = [job[j] EXCEPT !.phase = "retire"]
        BY <1>1 DEF RecordAbandoned
      <4>3. RetireAbandoned(j) => job'[j] = Gone
        BY <1>1 DEF RetireAbandoned
      <4> QED
        BY <1>5, <2>3, <4>1, <4>2, <4>3 DEF Ends
    <3> QED
      BY <1>1, <1>2, <2>2, <2>3, <3>1 DEF JobStates
  <2> QED
    BY <2>1, <2>3
<1>6. CASE Environs
  <2>1. job'[k] = job[k] \/ job'[k] = [job[k] EXCEPT !.live = FALSE]
    BY <1>6, CloseBuildsEffect DEF Environs, Edit, StampExpires, CloseHandles
  <2> QED
    BY <1>1, <2>1 DEF JobStates
<1>7. CASE \E p \in Procs : Crash(p)
  BY <1>2, <1>7, CrashEffect
<1> QED
  BY <1>3, <1>4, <1>5, <1>6, <1>7, NextCases, WorkCases

\* What an awaited build that is over leaves behind.
LEMMA OutcomeMoves ==
  ASSUME Main, WaitersInv, SettleInv, Next, UNCHANGED scene, NEW c \in Callers,
         caller[c].pc = "await", caller'[c] = caller[c], job'[caller[c].job].phase = "gone"
  PROVE  LET j == caller[c].job IN
         \/ job'[j].out = 0
         \/ /\ job'[j].out = job[j].out
            /\ job[j].phase = "gone" \/ (job[j].phase = "signal" /\ job[j].proc = Home[c])
<1> DEFINE j == caller[c].job
<1>1. /\ job \in [Jobs -> JobStates] /\ j \in Jobs /\ GoodJob(job[j]) /\ job[j] \in JobStates
      /\ None \notin Procs /\ Home[c] \in Procs
  BY Waited, ManagerAssumption DEF Main, Core, TypeOK
<1>2. job[j].phase # "gone" => job[j].kind = "async" /\ job[j].proc = Home[c]
  BY DEF WaitersInv, Awaits
<1>3. CASE job'[j].out = job[j].out /\ job[j].phase = "gone"
  BY <1>3
<1>4. ASSUME NEW d \in Callers, Moves(d)
      PROVE  job'[j].out = job[j].out /\ job[j].phase = "gone"
  <2>1. CASE d = c
    <3>1. LookForBuild(c)
      BY <1>4, <2>1, StartsWaiting
    <3> QED
      BY <3>1 DEF LookForBuild
  <2>2. CASE d # c
    <3>1. Watched(j, d)
      BY <2>2 DEF Watched
    <3>2. Kept(job[j], job'[j])
      BY <1>1, <1>4, <3>1, MoverJobs
    <3> QED
      BY <3>2 DEF Kept
  <2> QED
    BY <2>1, <2>2
<1>5. ASSUME NEW k \in Jobs, Builds(k)
      PROVE  job'[j].out = job[j].out /\ job[j].phase = "gone"
  <2>1. Continues(job[j], job'[j])
    BY <1>1, <1>5, BuildsEffect DEF Main
  <2>2. job[j].phase = "gone"
    BY <2>1 DEF Continues
  <2> QED
    BY <1>1, <1>5, <2>2, BuildOutcome
<1>6. ASSUME NEW k \in Jobs, Ends(k)
      PROVE  \/ job'[j].out = 0
             \/ /\ job'[j].out = job[j].out
                /\ job[j].phase = "gone" \/ (job[j].phase = "signal" /\ job[j].proc = Home[c])
  <2>1. CASE k # j
    <3>1. job'[j] = job[j]
      BY <1>1, <1>6, <2>1, EndsEffect
    <3> QED
      BY <3>1
  <2>2. CASE k = j
    <3>1. job[j].phase # "gone"
      BY <1>6, <2>2 DEF Ends, Discard, FailAsync, SucceedAsync, Signal, RecordAbandoned, RetireAbandoned
    <3>2. ~RecordAbandoned(j) /\ ~RetireAbandoned(j)
      BY <1>1, <1>2, <3>1 DEF RecordAbandoned, RetireAbandoned, GoodJob
    <3>3. ~SucceedAsync(j)
      <4>1. SucceedAsync(j) => job'[j].phase = "signal"
        BY <1>1 DEF SucceedAsync, JobStates
      <4> QED
        BY <4>1
    <3>4. \E e \in Callers : caller[e].job = j
      OBVIOUS
    <3>5. ASSUME NEW d, NEW o
          PROVE  Ended(j, d, o).out = o
      <4>1. Ended(j, d, o) = [Gone EXCEPT !.done = d, !.out = o]
        BY <3>4 DEF Ended
      <4> QED
        BY <4>1 DEF Gone
    <3>6. CASE Discard(j) \/ FailAsync(j)
      <4>1. job'[j] = Ended(j, job[j].done, 0) \/ job'[j] = Ended(j, job[j].done + 1, 0)
        BY <1>1, <3>6 DEF Discard, FailAsync
      <4> QED
        BY <3>5, <4>1
    <3>7. CASE Signal(j)
      <4>1. job'[j] = Ended(j, job[j].done + 1, job[j].out) /\ job[j].phase = "signal"
        BY <1>1, <3>7 DEF Signal
      <4> QED
        BY <1>2, <3>1, <3>5, <4>1
    <3> QED
      BY <1>6, <2>2, <3>2, <3>3, <3>6, <3>7 DEF Ends
  <2> QED
    BY <2>1, <2>2
<1>7. ASSUME Environs
      PROVE  job'[j].out = job[j].out /\ job[j].phase = "gone"
  <2>1. job'[j] = job[j] \/ job'[j] = [job[j] EXCEPT !.live = FALSE]
    BY <1>1, <1>7, CloseBuildsEffect DEF Environs, Edit, StampExpires, CloseHandles
  <2> QED
    BY <1>1, <2>1 DEF JobStates
<1>8. ASSUME NEW p \in Procs, Crash(p)
      PROVE  job'[j].out = job[j].out /\ job[j].phase = "gone"
  <2>1. Home[c] # p
    <3>1. Idle.pc = "idle"
      BY DEF Idle
    <3> QED
      BY <1>8, <3>1, CrashEffect
  <2>2. job[j].proc # p
    BY <1>1, <1>2, <2>1 DEF GoodJob
  <2>3. job'[j] = job[j]
    BY <1>1, <1>8, <2>2, CrashEffect
  <2> QED
    BY <2>3
<1> QED
  BY <1>4, <1>5, <1>6, <1>7, <1>8, NextCases, WorkCases

LEMMA SettleStep ==
  ASSUME Main, WaitersInv, SettleInv, Next, UNCHANGED scene
  PROVE  SettleInv'
<1>1. /\ job \in [Jobs -> JobStates] /\ Main' /\ InoBound /\ \A k \in Jobs : job[k].out \in Nat
      /\ \A k \in Jobs : GoodJob(job[k])
  BY MainStep, ManagerAssumption DEF Main, Core, TypeOK, SettleInv, JobStates
<1>2. InoBound'
  BY <1>1, DiskGrows
<1>3. AllFromZero'
  BY <1>1, FromZero, PTL
<1>4. \A c \in Callers : caller'[c] = caller[c] \/ Moves(c) \/ caller'[c] = Idle
  <2>1. \A d \in Callers : Moves(d) => \A c \in Callers \ {d} : caller'[c] = caller[c]
    BY MoverTypes, MovesTo DEF Main
  <2>2. \A p \in Procs : Crash(p) => \A c \in Callers : caller'[c] = caller[c] \/ caller'[c] = Idle
    BY CrashEffect
  <2> QED
    BY <2>1, <2>2, NextCases, OthersKeepCallers
<1>5. ASSUME NEW c \in Callers
      PROVE  Aims(c)'
  <2>1. CASE caller'[c] = Idle
    <3>1. Idle.least = 0 /\ Idle.got = MaxIno /\ MaxIno >= 0 /\ Idle.pc = "idle"
      BY ManagerAssumption DEF Idle
    <3> QED
      BY <2>1, <3>1 DEF Aims, Seeks
  <2> QED
    BY <1>4, <2>1, AimsStay, AimsMove
<1>6. ASSUME NEW c \in Callers, caller'[c].pc = "await", ~Alive(caller[c].job)'
      PROVE  CacheFrom(Home[c], job[caller[c].job].out)'
  <2>1. caller'[c] = caller[c]
    <3>1. CASE Moves(c)
      <4>1. LookForBuild(c) /\ builds[Home[c]] # None /\ caller'[c].job = builds[Home[c]]
        BY <1>6, <3>1, StartsWaiting
      <4>2. UNCHANGED job
        BY <4>1 DEF LookForBuild
      <4> QED
        BY <1>6, <4>1, <4>2, Waited, RegisteredAlive DEF Alive
    <3>2. Idle.pc # "await"
      BY DEF Idle
    <3> QED
      BY <1>4, <1>6, <3>1, <3>2
  <2> DEFINE j == caller[c].job
  <2>2. j \in Jobs /\ Home[c] \in Procs /\ job'[j].phase = "gone"
    BY <1>6, <2>1, Waited DEF Alive
  <2>3. CASE job'[j].out = 0
    BY <1>3, <2>1, <2>2, <2>3 DEF AllFromZero
  <2>4. CASE /\ job'[j].out = job[j].out
             /\ job[j].phase = "gone" \/ (job[j].phase = "signal" /\ job[j].proc = Home[c])
    <3>1. PICK n \in Nat : n = job[j].out
      BY <1>1, <2>2
    <3>2. CacheFrom(Home[c], n)
      BY <1>6, <2>1, <2>2, <2>4, <3>1 DEF SettleInv, Alive
    <3>3. CacheFrom(Home[c], n)'
      BY <1>1, <2>2, <3>2, ReadsGrow
    <3> QED
      BY <2>1, <2>4, <3>1, <3>3
  <2> QED
    BY <1>6, <2>1, <2>2, <2>3, <2>4, OutcomeMoves
<1>7. ASSUME NEW k \in Jobs, job'[k].phase = "finish", job'[k].ok
      PROVE  disk' # Absent /\ disk'.ino >= job'[k].out
  <2>1. CASE \E j \in Jobs : Builds(j)
    BY <1>7, <2>1, BuildOutcome
  <2>2. CASE job[k].phase = "finish" /\ job[k].ok /\ job'[k].out = job[k].out
    <3>1. disk # Absent /\ disk.ino >= job[k].out
      BY <2>2 DEF SettleInv
    <3> QED
      BY <1>1, <2>2, <3>1, DiskGrows
  <2>3. CASE \A j \in Jobs : ~Builds(j)
    <3>1. job'[k] = job[k] \/ Kept(job[k], job'[k])
      <4>1. CASE \E c \in Callers : Moves(c)
        <5>1. Gone.phase = "gone"
          BY DEF Gone
        <5> QED
          BY <1>7, <4>1, <5>1, MoverJobs DEF Anew, Begun
      <4>2. CASE \E j \in Jobs : Ends(j)
        BY <1>7, <4>2, EnderKeeps
      <4>3. CASE Environs
        <5>1. job'[k] = job[k] \/ job'[k] = [job[k] EXCEPT !.live = FALSE]
          BY <4>3, CloseBuildsEffect DEF Environs, Edit, StampExpires, CloseHandles
        <5> QED
          BY <1>1, <5>1, KeptForms
      <4>4. CASE \E p \in Procs : Crash(p)
        BY <1>7, <4>4, CrashEffect DEF Gone
      <4> QED
        BY <2>3, <4>1, <4>2, <4>3, <4>4, NextCases, WorkCases
    <3>2. job[k].phase = "finish" /\ job[k].ok /\ job'[k].out = job[k].out
      BY <1>7, <3>1 DEF Kept
    <3> QED
      BY <2>2, <3>2
  <2> QED
    BY <2>1, <2>3
<1>8. ASSUME NEW k \in Jobs, job'[k].phase = "signal"
      PROVE  CacheFrom(job[k].proc, job[k].out)'
  <2>1. CASE job[k].phase = "signal" /\ job'[k].proc = job[k].proc /\ job'[k].out = job[k].out
    <3>1. PICK n \in Nat : n = job[k].out
      BY <1>1
    <3>2. PICK p \in Procs : p = job[k].proc
      BY <1>1, <2>1 DEF GoodJob
    <3>3. CacheFrom(p, n)
      BY <2>1, <3>1, <3>2 DEF SettleInv
    <3>4. CacheFrom(p, n)'
      BY <1>1, <3>3, ReadsGrow
    <3> QED
      BY <2>1, <3>1, <3>2, <3>4
  <2>2. CASE SucceedAsync(k)
    <3>1. job[k].phase = "finish" /\ job[k].ok /\ disk' = disk
      BY <2>2 DEF SucceedAsync
    <3>2. disk # Absent /\ disk.ino >= job[k].out
      BY <3>1 DEF SettleInv
    <3>3. job'[k].proc = job[k].proc /\ job'[k].out = job[k].out
      BY <1>1, <2>2 DEF SucceedAsync, JobStates
    <3>4. conns'[job[k].proc] = None
      <4>1. job[k].proc \in Procs /\ conns' = [conns EXCEPT ![job[k].proc] = None]
        BY <1>1, <2>2, <3>1 DEF SucceedAsync, H!closeConn, GoodJob
      <4> QED
        BY <4>1, PoolTypes
    <3> QED
      BY <3>1, <3>2, <3>3, <3>4 DEF CacheFrom
  <2> QED
    BY <1>8, <2>1, <2>2, SignalMoves
<1> QED
  BY <1>2, <1>5, <1>6, <1>7, <1>8 DEF SettleInv, Aims

\* SettledSeesAwaitedBuild: a WaitBuild woken by a build that succeeded reads that
\* build's graph or a later one (graph.go:350-354).
THEOREM SettledSees == Spec => []SettledSeesAwaitedBuild
<1>1. Init => SettleInv
  <2> SUFFICES ASSUME Init
               PROVE  SettleInv
    OBVIOUS
  <2>1. /\ Idle.pc = "idle" /\ Idle.least = 0 /\ Idle.got = MaxIno /\ MaxIno >= 0
        /\ Gone.phase = "gone"
    BY ManagerAssumption DEF Idle, Gone
  <2>2. InoBound
    <3>1. disk # Absent => disk.ino = 0
      <4>1. \A f \in Files : [f EXCEPT !.stamp = Foreign].ino = f.ino
        BY DEF Files
      <4> QED
        BY <4>1 DEF Init, EarlierGraphs
    <3>2. scene.inos >= 0
      BY Bounds DEF Init
    <3> QED
      BY <3>1, <3>2 DEF InoBound
  <2>3. \A c \in Callers : caller[c] = Idle
    BY DEF Init
  <2>4. \A j \in Jobs : job[j] = Gone
    BY DEF Init
  <2> QED
    BY <2>1, <2>2, <2>3, <2>4 DEF SettleInv, Seeks
<1>2. Main /\ WaitersInv /\ SettleInv /\ [Next /\ UNCHANGED scene]_vars => SettleInv'
  <2>1. SettleInv /\ UNCHANGED vars => SettleInv'
    BY DEF SettleInv, InoBound, CacheFrom, HeldFrom, Seeks, Alive, vars, rest
  <2> QED
    BY <2>1, SettleStep
<1>3. SettleInv => SettledSeesAwaitedBuild
  BY DEF SettleInv, SettledSeesAwaitedBuild
<1> QED
  BY <1>1, <1>2, <1>3, MainHolds, WaitersHold, PTL DEF Spec
=============================================================================
