---------------------------- MODULE SchemaLadder ----------------------------
(***************************************************************************)
(* Opening mem.db: the fresh DDL or the migration ladder (internal/db), the *)
(* boot gate and the rescrub that opens it (cmd/droids-mem/main.go,         *)
(* internal/store/migrate.go).                                              *)
(*                                                                          *)
(* Every command of every process opens the file on its own, and nothing    *)
(* but SQLite orders them: each DDL statement of a fresh file commits by    *)
(* itself, each rung commits with its version bump, and a process may be    *)
(* killed or suspended between any two of these.                            *)
(*                                                                          *)
(* The shape of the file is a set of marks, one for each thing a rung adds. *)
(***************************************************************************)
EXTENDS Integers, FiniteSets

CONSTANTS
  Procs,       \* processes that may run a command against the file
  Scenes       \* what may happen, one set of inputs and bounds for each question

CurrentSchemaVersion == 10
Versions == 0..CurrentSchemaVersion
Fresh == CurrentSchemaVersion + 1

ASSUME LadderAssumption ==
  \A s \in Scenes :
    /\ s.procs \subseteq Procs                 \* the processes that do run one
    /\ s.starts \subseteq Versions \cup {Fresh}  \* the file at first; Fresh is no file at all
    /\ s.collisions \subseteq BOOLEAN          \* may two old rows rescrub to one fingerprint
    /\ s.operator \in BOOLEAN                  \* does somebody run migrate --no-rescrub
    /\ s.crashes \in Nat                       \* bound: kills

VARIABLES
  scene,     \* the scene, fixed at the start
  cols,      \* what the file holds: marks
  version,   \* PRAGMA user_version
  baseline,  \* meta.scrub_baseline_complete is '1'
  plain,     \* some row was never scrubbed
  shared,    \* some row was shared by share
  collides,  \* two rows would rescrub to one fingerprint
  pc,        \* per process: where its command stands
  seen,      \* per process: the version its ladder works from
  waived,    \* --no-rescrub was run
  crashes

file == <<cols, version, baseline, plain, shared>>
rest == <<cols, version, baseline, plain, shared, collides, pc, seen, waived, crashes>>
vars == <<scene, rest>>

Places == {"idle", "ddl", "others", "stamp", "read", "ladder", "gate", "rescrub",
           "serving", "failed"}
Marks == {"memories", "scope", "expand", "origin", "files", "lifecycle", "archive",
          "archived_lifecycle", "indexes", "porter", "authored"}

-----------------------------------------------------------------------------
(* The rungs.  ADD COLUMN fails when the column is there, DROP COLUMN when   *)
(* it is not; everything else is IF EXISTS or IF NOT EXISTS.                 *)

Adds(n) ==
  CASE n = 1 -> {"scope"} [] n = 2 -> {"expand"} [] n = 3 -> {"origin"}
    [] n = 6 -> {"lifecycle"} [] n = 9 -> {"authored"} [] OTHER -> {}
Ensures(n, S) ==
  CASE n = 4 -> {"files"}
    [] n = 6 -> IF "archive" \in S THEN {} ELSE {"archive", "archived_lifecycle"}
    [] n = 7 -> {"indexes"} [] n = 8 -> {"porter"} [] OTHER -> {}
Drops(n) == IF n = 10 THEN {"lifecycle", "archived_lifecycle"} ELSE {}

After(n, S) == (S \cup Adds(n) \cup Ensures(n, S)) \ Drops(n)

RungFails(n, S) == Adds(n) \cap S # {} \/ ~(Drops(n) \subseteq S)

\* What an uninterrupted ladder leaves at each version.
Shape[v \in Versions] == IF v = 0 THEN {"memories"} ELSE After(v, Shape[v - 1])

\* The statements of the fresh DDL: the memories table, and the rest.
ddlTable == {"memories", "scope", "expand", "origin", "authored"}
ddlRest == {"archive", "files", "indexes", "porter"}

-----------------------------------------------------------------------------
Go(p, from, to) == pc[p] = from /\ pc' = [pc EXCEPT ![p] = to]
Same == UNCHANGED <<collides, waived, crashes>>

\* Init: isFreshDB looks for the memories table.
Inspect(p) ==
  /\ Go(p, "idle", IF "memories" \in cols THEN "read" ELSE "ddl")
  /\ UNCHANGED <<file, seen>> /\ Same

CreateTable(p) ==
  /\ Go(p, "ddl", "others")
  /\ cols' = IF "memories" \in cols THEN cols ELSE cols \cup ddlTable
  /\ UNCHANGED <<version, baseline, plain, shared, seen>> /\ Same

CreateRest(p) ==
  /\ Go(p, "others", "stamp")
  /\ cols' = cols \cup ddlRest /\ baseline' = TRUE
  /\ UNCHANGED <<version, plain, shared, seen>> /\ Same

\* Mutated form of Stamp: the fresh file keeps user_version 0.
StampForgotten(p) == Go(p, "stamp", "gate") /\ UNCHANGED <<file, seen>> /\ Same

Stamp(p) ==
  /\ Go(p, "stamp", "gate")
  /\ version' = CurrentSchemaVersion
  /\ UNCHANGED <<cols, baseline, plain, shared, seen>> /\ Same

\* Migrate reads user_version once, outside any transaction.
ReadVersion(p) ==
  /\ Go(p, "read", "ladder")
  /\ seen' = [seen EXCEPT ![p] = version]
  /\ UNCHANGED file /\ Same

\* Mutated form of Rung: the bump is a statement of its own, and may be lost.
RungThenBump(p) ==
  LET n == seen[p] + 1 IN
  /\ pc[p] = "ladder" /\ seen[p] < CurrentSchemaVersion /\ ~RungFails(n, cols)
  /\ cols' = After(n, cols)
  /\ shared' = IF n = 5 THEN FALSE ELSE shared
  /\ \/ version' = n /\ seen' = [seen EXCEPT ![p] = n] /\ UNCHANGED pc
     \/ Go(p, "ladder", "failed") /\ UNCHANGED <<version, seen>>
  /\ UNCHANGED <<baseline, plain>> /\ Same

\* applyMigration: the rung's SQL and the bump, in one transaction.
Rung(p) ==
  LET n == seen[p] + 1 IN
  /\ pc[p] = "ladder" /\ seen[p] < CurrentSchemaVersion /\ ~RungFails(n, cols)
  /\ cols' = After(n, cols)
  /\ shared' = IF n = 5 THEN FALSE ELSE shared
  /\ version' = n
  /\ seen' = [seen EXCEPT ![p] = n]
  /\ UNCHANGED <<baseline, plain, pc>> /\ Same

RungError(p) ==
  /\ seen[p] < CurrentSchemaVersion /\ RungFails(seen[p] + 1, cols)
  /\ Go(p, "ladder", "failed")
  /\ UNCHANGED <<file, seen>> /\ Same

TopOfLadder(p) ==
  /\ seen[p] = CurrentSchemaVersion
  /\ Go(p, "ladder", "gate")
  /\ UNCHANGED <<file, seen>> /\ Same

-----------------------------------------------------------------------------
\* AssertBootReady, and the auto-rescrub of PersistentPreRunE when it refuses.
Ready == version = CurrentSchemaVersion /\ baseline

Gate(p) ==
  /\ Go(p, "gate", IF Ready THEN "serving" ELSE "rescrub")
  /\ UNCHANGED <<file, seen>> /\ Same

\* Mutated form of Rescrub: the sentinel is stamped although the rewrite failed.
RescrubStampsAnyway(p) ==
  /\ version = CurrentSchemaVersion
  /\ Go(p, "rescrub", "serving")
  /\ plain' = (collides /\ plain) /\ baseline' = TRUE
  /\ UNCHANGED <<cols, version, shared, seen>> /\ Same

Rescrub(p) ==
  /\ version = CurrentSchemaVersion /\ ~collides
  /\ Go(p, "rescrub", "serving")
  /\ plain' = FALSE /\ baseline' = TRUE
  /\ UNCHANGED <<cols, version, shared, seen>> /\ Same

\* The precondition of Migrate, or a fingerprint collision: fail closed.
RescrubFails(p) ==
  /\ version # CurrentSchemaVersion \/ collides
  /\ Go(p, "rescrub", "failed")
  /\ UNCHANGED <<file, seen>> /\ Same

\* migrate --no-rescrub bypasses the gate, not the ladder.
NoRescrub(p) ==
  /\ scene.operator /\ version = CurrentSchemaVersion
  /\ Go(p, "gate", "idle")
  /\ baseline' = TRUE /\ waived' = TRUE
  /\ UNCHANGED <<cols, version, plain, shared, collides, seen, crashes>>

\* A command that runs: it may share a row.
Share(p) ==
  /\ pc[p] = "serving" /\ shared' = TRUE
  /\ UNCHANGED <<cols, version, baseline, plain, pc, seen>> /\ Same

Exit(p) ==
  /\ pc[p] \in {"serving", "failed"} /\ Go(p, pc[p], "idle")
  /\ UNCHANGED <<file, seen>> /\ Same

\* Killed, or a statement ran into busy_timeout; SQLite rolls the open one back.
Crash(p) ==
  /\ crashes < scene.crashes /\ pc[p] \notin {"idle", "serving", "failed"}
  /\ Go(p, pc[p], "idle")
  /\ crashes' = crashes + 1
  /\ UNCHANGED <<file, seen, collides, waived>>

-----------------------------------------------------------------------------
\* No file, or one an earlier version left: rescrubbed, waived or neither.
Init ==
  /\ scene \in Scenes
  /\ \E v \in scene.starts :
       /\ version = IF v = Fresh THEN 0 ELSE v
       /\ cols = IF v = Fresh THEN {} ELSE Shape[v]
       /\ plain \in (IF v = Fresh THEN {FALSE} ELSE BOOLEAN)
       /\ baseline \in (IF v \in {0, Fresh} THEN {FALSE} ELSE BOOLEAN)
  /\ waived = (baseline /\ plain)
  /\ shared = FALSE
  /\ collides \in scene.collisions
  /\ pc = [p \in Procs |-> "idle"]
  /\ seen = [p \in Procs |-> 0]
  /\ crashes = 0

Step(p) ==
  \/ Inspect(p) \/ CreateTable(p) \/ CreateRest(p) \/ Stamp(p)
  \/ ReadVersion(p) \/ Rung(p) \/ RungError(p) \/ TopOfLadder(p)
  \/ Gate(p) \/ Rescrub(p) \/ RescrubFails(p) \/ Exit(p)

Next == \E p \in scene.procs : Step(p) \/ NoRescrub(p) \/ Share(p) \/ Crash(p)

Spec == Init /\ [][Next /\ UNCHANGED scene]_vars

\* Commands run to their end, and hooks and servers run further ones.
FairSpec == Spec /\ \A p \in Procs : WF_rest(p \in scene.procs /\ Step(p))

-----------------------------------------------------------------------------
\* Shape of the state.
TypeOK ==
  /\ cols \subseteq Marks /\ version \in Versions
  /\ {baseline, plain, shared, collides, waived} \subseteq BOOLEAN
  /\ pc \in [Procs -> Places] /\ seen \in [Procs -> Versions]
  /\ crashes \in 0..scene.crashes

\* A kill between any two steps of the ladder, or a race of two, leaves a file that
\* was there at first in the shape its version names, so the next open goes on from
\* there (migrations.go:256-258), and a command runs only on a file whose ladder is
\* at its top, also while others are opening it (bootgate.go:25-32).
VersionDescribesSchema ==
  /\ TypeOK
  /\ Fresh \notin scene.starts => cols = Shape[version]
  /\ \A p \in Procs : pc[p] = "serving" => version = CurrentSchemaVersion

\* The sentinel is on a file with unscrubbed rows only if an operator waived the
\* rescrub: no unattended path, and no race of two of them, opens the gate over
\* plaintext (main.go:94-98).
SentinelMeansScrubbed == baseline /\ plain => waived

\* However openings race and fail, every process gets to run its commands, unless
\* two rows collide, which only an operator can resolve.
EventuallyServes ==
  collides \/ scene.operator \/ \A p \in Procs : p \notin scene.procs \/ []<>(pc[p] = "serving")

-----------------------------------------------------------------------------
(* Statements of the source that the code does not keep.                     *)

\* "Migrate advances db's schema from its current user_version up to
\* CurrentSchemaVersion" (migrations.go:254-255): the stored version never goes back.
VersionNeverDecreases == [][version' >= version]_vars

\* "no historical 'shared' value was ever a deliberate share" (migrations.go:119-120):
\* opening the file never withdraws a share somebody made.
SharesSurvive == [][shared => shared']_vars

\* "Init is idempotent" (db.go:67): a file that Init began to set up opens.
EveryOpenSucceeds == \A p \in Procs : pc[p] # "failed"
=============================================================================
