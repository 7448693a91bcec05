------------------------- MODULE SchemaLadderProofs -------------------------
(***************************************************************************)
(* What SchemaLadder keeps for every set of processes and every scene: the *)
(* sentinel never stands over plaintext unwaived, and, where no ladder can *)
(* undo another's rungs, the version describes the file.                   *)
(***************************************************************************)
EXTENDS SchemaLadder, TLAPS

Started(p) == p \in scene.procs

\* A file with plaintext has its table, so nobody runs the fresh DDL over it: the DDL
\* is what would set the sentinel unconditionally.
PlaintextIsOld ==
  /\ plain => "memories" \in cols
  /\ \A p \in Procs : pc[p] \in {"ddl", "others", "stamp"} => ~plain

SentinelInv == TypeOK /\ SentinelMeansScrubbed /\ PlaintextIsOld

\* Two ladders cannot undo one another: there is one process only, or the file starts
\* where every rung left to run refuses a second run.
NoUndoing == scene.starts \subseteq (8..10) \cup {Fresh} \/ \E p \in Procs : scene.procs = {p}

\* A file that a fresh DDL made, or is making: version 0 or the current one, with a table
\* that the first rung refuses.
MadeFresh ==
  /\ version \in {0, CurrentSchemaVersion}
  /\ "memories" \in cols => "scope" \in cols
  /\ \A p \in Procs : /\ seen[p] \in {0, CurrentSchemaVersion}
                      /\ pc[p] \in {"read", "ladder"} => "memories" \in cols

\* A file that was there: nobody runs the DDL, and a ladder under way works from the
\* version the file has, or from one whose next rung the file refuses.
WasThere ==
  /\ cols = Shape[version]
  /\ \A p \in Procs : pc[p] \notin {"ddl", "others", "stamp"}
  /\ \/ /\ version \in 8..10
        /\ \A p \in Procs : pc[p] = "ladder" => seen[p] \in 8..version
     \/ /\ \E p \in Procs : scene.procs = {p}
        /\ \A p \in Procs : pc[p] = "ladder" => seen[p] = version

LadderInv ==
  /\ TypeOK
  /\ \A p \in Procs : ~Started(p) => pc[p] = "idle"
  /\ \A p \in Procs : pc[p] = "serving" => version = CurrentSchemaVersion
  /\ \/ MadeFresh /\ Fresh \in scene.starts
     \/ WasThere

-----------------------------------------------------------------------------
(* The shapes.                                                             *)

\* A rung is one of the ten.
LEMMA TenRungs ==
  \A v \in Versions : v = 0 \/ v = 1 \/ v = 2 \/ v = 3 \/ v = 4 \/ v = 5 \/ v = 6 \/ v = 7
                      \/ v = 8 \/ v = 9 \/ v = 10
BY DEF Versions, CurrentSchemaVersion

\* The shape of a version is what its rung leaves of the one before.
LEMMA ShapeUnfolds ==
  /\ Shape[0] = {"memories"}
  /\ \A v \in Versions \ {0} : Shape[v] = After(v, Shape[v - 1])
<1> DEFINE G(g) == [v \in Versions |-> IF v = 0 THEN {"memories"} ELSE After(v, g[v - 1])]
           s0 == {"memories"}
           s1 == After(1, s0)
           s2 == After(2, s1)
           s3 == After(3, s2)
           s4 == After(4, s3)
           s5 == After(5, s4)
           s6 == After(6, s5)
           s7 == After(7, s6)
           s8 == After(8, s7)
           s9 == After(9, s8)
           s10 == After(10, s9)
           h(v) == CASE v = 0 -> s0 [] v = 1 -> s1 [] v = 2 -> s2 [] v = 3 -> s3 [] v = 4 -> s4
                     [] v = 5 -> s5 [] v = 6 -> s6 [] v = 7 -> s7 [] v = 8 -> s8 [] v = 9 -> s9
                     [] v = 10 -> s10
           f == [v \in Versions |-> h(v)]
<1> HIDE DEF s1, s2, s3, s4, s5, s6, s7, s8, s9, s10
<1>1. \A v \in Versions \ {0} : f[v] = After(v, f[v - 1])
  <2>1. /\ f[0] = s0 /\ f[1] = s1 /\ f[2] = s2 /\ f[3] = s3 /\ f[4] = s4 /\ f[5] = s5
        /\ f[6] = s6 /\ f[7] = s7 /\ f[8] = s8 /\ f[9] = s9 /\ f[10] = s10
    BY DEF Versions, CurrentSchemaVersion
  <2> HIDE DEF f
  <2>2. /\ f[1] = After(1, f[1 - 1]) /\ f[2] = After(2, f[2 - 1]) /\ f[3] = After(3, f[3 - 1])
        /\ f[4] = After(4, f[4 - 1]) /\ f[5] = After(5, f[5 - 1]) /\ f[6] = After(6, f[6 - 1])
        /\ f[7] = After(7, f[7 - 1]) /\ f[8] = After(8, f[8 - 1]) /\ f[9] = After(9, f[9 - 1])
        /\ f[10] = After(10, f[10 - 1])
    <3>1. /\ 1 - 1 = 0 /\ 2 - 1 = 1 /\ 3 - 1 = 2 /\ 4 - 1 = 3 /\ 5 - 1 = 4 /\ 6 - 1 = 5
          /\ 7 - 1 = 6 /\ 8 - 1 = 7 /\ 9 - 1 = 8 /\ 10 - 1 = 9
      OBVIOUS
    <3> QED
      BY <2>1, <3>1, Zenon DEF s1, s2, s3, s4, s5, s6, s7, s8, s9, s10
  <2> QED
    BY <2>2, TenRungs
<1>2. f = G(f)
  <2>1. f[0] = {"memories"}
    BY DEF Versions, CurrentSchemaVersion
  <2> HIDE DEF h
  <2>2. f = [v \in Versions |-> f[v]]
    OBVIOUS
  <2> HIDE DEF f
  <2>3. \A v \in Versions : f[v] = IF v = 0 THEN {"memories"} ELSE After(v, f[v - 1])
    BY <1>1, <2>1
  <2> QED
    BY <2>2, <2>3, Zenon
<1> HIDE DEF f
<1>3. Shape = G(Shape)
  BY <1>2, Zenon DEF Shape
<1>4. 0 \in Versions
  BY DEF Versions, CurrentSchemaVersion
<1> QED
  BY <1>3, <1>4

\* Every shape is made of marks, with the table; the last two have the column the ninth
\* rung adds, and the last one lacks the one the tenth drops.
LEMMA ShapeFacts ==
  /\ \A v \in Versions : Shape[v] \subseteq Marks /\ "memories" \in Shape[v]
  /\ "authored" \in Shape[9] \cap Shape[10] /\ "lifecycle" \notin Shape[10]
<1>1. \A v \in Versions \ {0}, S \in SUBSET Marks :
        /\ After(v, S) \subseteq Marks
        /\ "memories" \in S => "memories" \in After(v, S)
  BY DEF After, Adds, Ensures, Drops, Marks
<1> DEFINE ok(v) == Shape[v] \subseteq Marks /\ "memories" \in Shape[v]
<1>2. \A v \in Versions \ {0} : ok(v - 1) => ok(v)
  BY <1>1, ShapeUnfolds
<1>3. ok(0)
  BY ShapeUnfolds DEF Marks
<1> HIDE DEF ok
<1>4. ok(1) /\ ok(2) /\ ok(3) /\ ok(4) /\ ok(5)
  BY <1>2, <1>3 DEF Versions, CurrentSchemaVersion
<1>5. ok(6) /\ ok(7) /\ ok(8) /\ ok(9) /\ ok(10)
  BY <1>2, <1>4 DEF Versions, CurrentSchemaVersion
<1>6. \A v \in Versions : ok(v)
  BY <1>3, <1>4, <1>5, TenRungs
<1>7. Shape[9] = After(9, Shape[8]) /\ Shape[10] = After(10, Shape[9])
  BY ShapeUnfolds DEF Versions, CurrentSchemaVersion
<1>8. "authored" \in Shape[9]
  BY <1>7 DEF After, Adds, Drops
<1>9. "authored" \in Shape[10] /\ "lifecycle" \notin Shape[10]
  BY <1>7, <1>8 DEF After, Drops
<1> QED
  BY <1>6, <1>8, <1>9 DEF ok

-----------------------------------------------------------------------------
(* Types.                                                                  *)

\* The steps of one process.
Steps(p) == Step(p) \/ NoRescrub(p) \/ Share(p) \/ Crash(p)

\* Every step keeps the types.
LEMMA TypeStep ==
  ASSUME TypeOK, scene \in Scenes, scene' = scene, NEW p \in Procs, Steps(p)
  PROVE  TypeOK'
<1> USE DEF TypeOK
<1>1. cols' \subseteq Marks /\ version' \in Versions /\ seen' \in [Procs -> Versions]
  <2>1. CASE Rung(p)
    <3>1. seen[p] + 1 \in Versions \ {0}
      BY <2>1 DEF Rung, Versions, CurrentSchemaVersion
    <3>2. After(seen[p] + 1, cols) \subseteq Marks
      BY <3>1 DEF After, Adds, Ensures, Drops, Marks
    <3> QED
      BY <2>1, <3>1, <3>2 DEF Rung
  <2>2. ddlTable \subseteq Marks /\ ddlRest \subseteq Marks /\ CurrentSchemaVersion \in Versions
    BY DEF ddlTable, ddlRest, Marks, Versions, CurrentSchemaVersion
  <2> QED
    BY <2>1, <2>2 DEF Steps, Step, Inspect, CreateTable, CreateRest, Stamp, ReadVersion, RungError,
       TopOfLadder, Gate, Rescrub, RescrubFails, NoRescrub, Share, Exit, Crash, file
<1>2. {baseline', plain', shared', collides', waived'} \subseteq BOOLEAN
  BY DEF Steps, Step, Inspect, CreateTable, CreateRest, Stamp, ReadVersion, Rung, RungError,
         TopOfLadder, Gate, Rescrub, RescrubFails, NoRescrub, Share, Exit, Crash, Same, file
<1>3. pc' \in [Procs -> Places]
  <2>1. \A b \in Places : pc' = [pc EXCEPT ![p] = b] => pc' \in [Procs -> Places]
    OBVIOUS
  <2>2. UNCHANGED pc \/ \E b \in Places : pc' = [pc EXCEPT ![p] = b]
    BY DEF Steps, Step, Inspect, CreateTable, CreateRest, Stamp, ReadVersion, Rung, RungError,
           TopOfLadder, Gate, Rescrub, RescrubFails, NoRescrub, Share, Exit, Crash, Go, Places
  <2> QED
    BY <2>1, <2>2
<1>4. crashes' \in 0..scene'.crashes
  <2>1. scene.crashes \in Nat
    BY LadderAssumption
  <2>2. crashes' = crashes \/ (crashes < scene.crashes /\ crashes' = crashes + 1)
    BY DEF Steps, Step, Inspect, CreateTable, CreateRest, Stamp, ReadVersion, Rung, RungError,
           TopOfLadder, Gate, Rescrub, RescrubFails, NoRescrub, Share, Exit, Crash, Same
  <2> QED
    BY <2>1, <2>2
<1> QED
  BY <1>1, <1>2, <1>3, <1>4

\* The file is created, or an earlier version left it.
LEMMA InitTypes ==
  ASSUME Init
  PROVE  TypeOK /\ scene \in Scenes
<1>1. scene \in Scenes /\ scene.starts \subseteq Versions \cup {Fresh} /\ scene.crashes \in Nat
      /\ scene.collisions \subseteq BOOLEAN
  BY LadderAssumption DEF Init
<1>2. PICK v \in scene.starts :
        /\ version = IF v = Fresh THEN 0 ELSE v
        /\ cols = IF v = Fresh THEN {} ELSE Shape[v]
        /\ plain \in (IF v = Fresh THEN {FALSE} ELSE BOOLEAN)
        /\ baseline \in (IF v \in {0, Fresh} THEN {FALSE} ELSE BOOLEAN)
  BY DEF Init
<1>3. cols \subseteq Marks /\ version \in Versions
  BY <1>1, <1>2, ShapeFacts DEF Versions, CurrentSchemaVersion
<1>4. {baseline, plain, shared, collides, waived} \subseteq BOOLEAN
  <2>1. baseline \in BOOLEAN /\ plain \in BOOLEAN
    BY <1>2
  <2> QED
    BY <1>1, <2>1 DEF Init
<1>5. pc \in [Procs -> Places] /\ seen \in [Procs -> Versions] /\ crashes \in 0..scene.crashes
  BY <1>1 DEF Init, Places, Versions, CurrentSchemaVersion
<1> QED
  BY <1>1, <1>3, <1>4, <1>5 DEF TypeOK

\* The types hold throughout.
THEOREM TypesHold == Spec => [](TypeOK /\ scene \in Scenes)
<1>1. Init => TypeOK /\ scene \in Scenes
  BY InitTypes
<1>2. TypeOK /\ scene \in Scenes /\ [Next /\ UNCHANGED scene]_vars => (TypeOK /\ scene \in Scenes)'
  <2>1. TypeOK /\ UNCHANGED vars => TypeOK'
    BY DEF TypeOK, vars, rest
  <2>2. TypeOK /\ scene \in Scenes /\ Next /\ UNCHANGED scene => TypeOK'
    BY TypeStep, LadderAssumption DEF Next, Steps
  <2> QED
    BY <2>1, <2>2 DEF vars
<1> QED
  BY <1>1, <1>2, PTL DEF Spec

-----------------------------------------------------------------------------
(* The sentinel.                                                           *)

\* The table of a file is never dropped again.
LEMMA TableStays ==
  ASSUME TypeOK, NEW p \in Procs, Steps(p), "memories" \in cols
  PROVE  "memories" \in cols'
BY DEF Steps, Step, Inspect, CreateTable, CreateRest, Stamp, ReadVersion, Rung, RungError,
       TopOfLadder, Gate, Rescrub, RescrubFails, NoRescrub, Share, Exit, Crash, file, ddlTable,
       ddlRest, After, Drops

\* Every step keeps the sentinel off plaintext.
LEMMA SentinelStep ==
  ASSUME SentinelInv, NEW p \in Procs, Steps(p), TypeOK'
  PROVE  SentinelInv'
<1>1. TypeOK /\ SentinelMeansScrubbed /\ PlaintextIsOld
  BY DEF SentinelInv
<1>2. plain' => plain
  BY <1>1 DEF TypeOK, Steps, Step, Inspect, CreateTable, CreateRest, Stamp, ReadVersion, Rung,
         RungError, TopOfLadder, Gate, Rescrub, RescrubFails, NoRescrub, Share, Exit, Crash, file
<1>3. waived => waived'
  BY DEF Steps, Step, Inspect, CreateTable, CreateRest, Stamp, ReadVersion, Rung,
         RungError, TopOfLadder, Gate, Rescrub, RescrubFails, NoRescrub, Share, Exit, Crash, Same
<1>4. SentinelMeansScrubbed'
  <2>1. CASE CreateRest(p)
    BY <1>1, <1>2, <2>1 DEF CreateRest, Go, PlaintextIsOld, SentinelMeansScrubbed
  <2>2. CASE Rescrub(p)
    BY <2>2 DEF Rescrub, SentinelMeansScrubbed
  <2>3. CASE NoRescrub(p)
    BY <2>3 DEF NoRescrub, SentinelMeansScrubbed
  <2>4. CASE UNCHANGED baseline
    BY <1>1, <1>2, <1>3, <2>4 DEF SentinelMeansScrubbed
  <2> QED
    BY <2>1, <2>2, <2>3, <2>4 DEF Steps, Step, Inspect, CreateTable, Stamp, ReadVersion, Rung,
         RungError, TopOfLadder, Gate, RescrubFails, Share, Exit, Crash, file
<1>5. PlaintextIsOld'
  <2>1. plain' => "memories" \in cols'
    BY <1>1, <1>2, TableStays DEF PlaintextIsOld
  <2>2. ASSUME NEW q \in Procs, pc'[q] \in {"ddl", "others", "stamp"} PROVE ~plain'
    <3>1. CASE pc[q] \in {"ddl", "others", "stamp"}
      BY <1>1, <1>2, <3>1 DEF PlaintextIsOld
    <3>2. CASE pc[q] \notin {"ddl", "others", "stamp"}
      <4>1. "memories" \notin cols
        BY <1>1, <2>2, <3>2
           DEF TypeOK, Steps, Step, Inspect, CreateTable, CreateRest, Stamp, ReadVersion, Rung,
               RungError, TopOfLadder, Gate, Rescrub, RescrubFails, NoRescrub, Share, Exit, Crash, Go
      <4> QED
        BY <1>1, <1>2, <4>1 DEF PlaintextIsOld
    <3> QED
      BY <3>1, <3>2
  <2> QED
    BY <2>1, <2>2 DEF PlaintextIsOld
<1> QED
  BY <1>4, <1>5 DEF SentinelInv

\* No path but an operator's waiver puts the sentinel over unscrubbed rows.
THEOREM SentinelHolds == Spec => []SentinelMeansScrubbed
<1>1. Spec => [](TypeOK /\ scene \in Scenes)
  BY TypesHold
<1>2. Init /\ TypeOK => SentinelInv
  <2> SUFFICES ASSUME Init, TypeOK PROVE SentinelMeansScrubbed /\ PlaintextIsOld
    BY DEF SentinelInv
  <2>1. scene.starts \subseteq Versions \cup {Fresh}
    BY LadderAssumption DEF Init
  <2>2. plain => "memories" \in cols
    BY <2>1, ShapeFacts DEF Init
  <2> QED
    BY <2>2 DEF Init, SentinelMeansScrubbed, PlaintextIsOld
<1>3. /\ SentinelInv /\ (TypeOK /\ scene \in Scenes) /\ (TypeOK /\ scene \in Scenes)'
      /\ [Next /\ UNCHANGED scene]_vars
      => SentinelInv'
  <2>1. SentinelInv /\ UNCHANGED vars => SentinelInv'
    BY DEF SentinelInv, TypeOK, SentinelMeansScrubbed, PlaintextIsOld, vars, rest
  <2>2. SentinelInv /\ scene \in Scenes /\ TypeOK' /\ Next => SentinelInv'
    BY SentinelStep, LadderAssumption DEF Next, Steps
  <2> QED
    BY <2>1, <2>2
<1>4. SentinelInv => SentinelMeansScrubbed
  BY DEF SentinelInv
<1> QED
  BY <1>1, <1>2, <1>3, <1>4, PTL DEF Spec

-----------------------------------------------------------------------------
(* The shape.                                                              *)

\* A rung of a ladder that works from an older version fails.
LEMMA StaleRungFails ==
  ASSUME TypeOK, cols = Shape[version], version \in 8..10, NEW s \in 8..version, s # version
  PROVE  RungFails(s + 1, cols)
<1>1. \/ s = 8 /\ version \in {9, 10}
      \/ s = 9 /\ version = 10
  OBVIOUS
<1>2. CASE s = 8 /\ version \in {9, 10}
  BY <1>2, ShapeFacts DEF RungFails, Adds
<1>3. CASE s = 9 /\ version = 10
  BY <1>3, ShapeFacts DEF RungFails, Drops
<1> QED
  BY <1>1, <1>2, <1>3

\* Every step of a file made fresh leaves it one.
LEMMA FreshStep ==
  ASSUME TypeOK, MadeFresh, NEW p \in Procs, Steps(p)
  PROVE  /\ MadeFresh'
         /\ version' = version \/ version' = CurrentSchemaVersion
<1>1. ~Rung(p)
  <2> SUFFICES ASSUME Rung(p) PROVE FALSE
    OBVIOUS
  <2>1. pc[p] = "ladder" /\ seen[p] < CurrentSchemaVersion /\ ~RungFails(seen[p] + 1, cols)
    BY DEF Rung
  <2>2. seen[p] = 0
    BY <2>1 DEF MadeFresh, CurrentSchemaVersion
  <2>3. Adds(1) = {"scope"} /\ "scope" \in cols
    BY <2>1 DEF Adds, MadeFresh
  <2> QED
    BY <2>1, <2>2, <2>3 DEF RungFails
<1>2. version' \in {version, CurrentSchemaVersion}
  BY <1>1 DEF Steps, Step, Inspect, CreateTable, CreateRest, Stamp, ReadVersion, RungError,
         TopOfLadder, Gate, Rescrub, RescrubFails, NoRescrub, Share, Exit, Crash, file
<1>3. "memories" \in cols' => "scope" \in cols'
  BY <1>1 DEF MadeFresh, Steps, Step, Inspect, CreateTable, CreateRest, Stamp, ReadVersion, RungError,
         TopOfLadder, Gate, Rescrub, RescrubFails, NoRescrub, Share, Exit, Crash, file, ddlTable,
         ddlRest
<1>4. \A q \in Procs : seen'[q] \in {0, CurrentSchemaVersion}
  BY <1>1 DEF TypeOK, MadeFresh, Steps, Step, Inspect, CreateTable, CreateRest, Stamp, ReadVersion,
         RungError, TopOfLadder, Gate, Rescrub, RescrubFails, NoRescrub, Share, Exit, Crash
<1>5. \A q \in Procs : pc'[q] \in {"read", "ladder"} =>
        "memories" \in cols \/ pc[q] \in {"read", "ladder"}
  BY DEF TypeOK, Steps, Step, Inspect, CreateTable, CreateRest, Stamp, ReadVersion,
         Rung, RungError, TopOfLadder, Gate, Rescrub, RescrubFails, NoRescrub, Share, Exit, Crash, Go
<1> QED
  BY <1>2, <1>3, <1>4, <1>5, TableStays DEF MadeFresh

\* Every step of a file that was there leaves it in the shape of its version.
LEMMA LadderStep ==
  ASSUME TypeOK, WasThere, NEW p \in Procs, Started(p), scene' = scene, Steps(p),
         \A q \in Procs : ~Started(q) => pc[q] = "idle"
  PROVE  /\ WasThere'
         /\ version' # version => seen[p] < CurrentSchemaVersion /\ pc[p] = "ladder"
         /\ version = CurrentSchemaVersion /\ version' # version => scene.procs = {p}
<1>1. /\ cols = Shape[version] /\ version \in Versions
      /\ \A q \in Procs : pc[q] \notin {"ddl", "others", "stamp"}
  BY DEF WasThere, TypeOK
<1>2. \A q \in Procs : pc'[q] \notin {"ddl", "others", "stamp"}
  BY <1>1, ShapeFacts
     DEF TypeOK, Steps, Step, Inspect, CreateTable, CreateRest, Stamp, ReadVersion,
         Rung, RungError, TopOfLadder, Gate, Rescrub, RescrubFails, NoRescrub, Share, Exit, Crash, Go
<1>3. CASE Rung(p)
  <2>1. /\ pc[p] = "ladder" /\ seen[p] < CurrentSchemaVersion /\ ~RungFails(seen[p] + 1, cols)
        /\ cols' = After(seen[p] + 1, cols) /\ version' = seen[p] + 1
        /\ seen' = [seen EXCEPT ![p] = seen[p] + 1] /\ pc' = pc
    BY <1>3 DEF Rung
  <2>2. seen[p] = version
    BY <1>1, <2>1, StaleRungFails DEF WasThere
  <2>3. version + 1 \in Versions \ {0} /\ (version + 1) - 1 = version
    BY <1>1, <2>1, <2>2 DEF Versions, CurrentSchemaVersion
  <2>4. cols' = Shape[version']
    BY <1>1, <2>1, <2>2, <2>3, ShapeUnfolds
  <2>5. CASE /\ version \in 8..10
             /\ \A q \in Procs : pc[q] = "ladder" => seen[q] \in 8..version
    <3>1. /\ version' \in 8..10
          /\ \A q \in Procs : pc'[q] = "ladder" => seen'[q] \in 8..version'
      BY <1>1, <2>1, <2>2, <2>5 DEF TypeOK, CurrentSchemaVersion
    <3>2. version # CurrentSchemaVersion
      BY <2>1, <2>2, <2>5
    <3> QED
      BY <1>2, <2>1, <2>2, <2>4, <3>1, <3>2 DEF WasThere
  <2>6. CASE /\ \E q \in Procs : scene.procs = {q}
             /\ \A q \in Procs : pc[q] = "ladder" => seen[q] = version
    <3>1. scene.procs = {p} /\ \A q \in Procs : pc[q] = "ladder" => q = p
      BY <2>6 DEF Started
    <3>2. \A q \in Procs : pc'[q] = "ladder" => seen'[q] = version'
      BY <2>1, <3>1 DEF TypeOK
    <3> QED
      BY <1>2, <2>1, <2>2, <2>4, <3>1, <3>2 DEF WasThere
  <2> QED
    BY <2>5, <2>6 DEF WasThere
<1>4. CASE ~Rung(p)
  <2>1. UNCHANGED <<cols, version>>
    BY <1>1, <1>4, <1>2
     DEF TypeOK, Steps, Step, Inspect, CreateTable, CreateRest, Stamp, ReadVersion,
         Rung, RungError, TopOfLadder, Gate, Rescrub, RescrubFails, NoRescrub, Share, Exit, Crash, Go,
         file
  <2>2. \A q \in Procs : pc'[q] = "ladder" =>
          \/ pc[q] = "ladder" /\ seen'[q] = seen[q]
          \/ q = p /\ seen'[q] = version
    BY <1>1, <1>4
     DEF TypeOK, Steps, Step, Inspect, CreateTable, CreateRest, Stamp, ReadVersion,
         RungError, TopOfLadder, Gate, Rescrub, RescrubFails, NoRescrub, Share, Exit, Crash, Go
  <2> QED
    BY <1>1, <1>2, <2>1, <2>2 DEF WasThere
<1> QED
  BY <1>3, <1>4

\* Every step keeps the file what it is, and the version under every command that runs.
LEMMA LadderInvStep ==
  ASSUME LadderInv, scene \in Scenes, scene' = scene, Next
  PROVE  LadderInv'
<1>1. PICK p \in Procs : Started(p) /\ Steps(p)
  BY LadderAssumption DEF Next, Steps, Started
<1>2. TypeOK /\ TypeOK'
  BY <1>1, TypeStep DEF LadderInv
<1>3. \A q \in Procs : Started(q)' = Started(q)
  BY DEF Started
<1>4. \A q \in Procs : ~Started(q) => pc'[q] = "idle"
  <2>1. \A q \in Procs \ {p} : pc'[q] = pc[q]
    BY <1>1, <1>2 DEF TypeOK, Steps, Step, Inspect, CreateTable, CreateRest, Stamp, ReadVersion, Rung,
         RungError, TopOfLadder, Gate, Rescrub, RescrubFails, NoRescrub, Share, Exit, Crash, Go
  <2> QED
    BY <1>1, <2>1 DEF LadderInv
<1>5. (MadeFresh' /\ Fresh \in scene'.starts) \/ WasThere'
  BY <1>1, <1>2, FreshStep, LadderStep DEF LadderInv
<1>6. ASSUME NEW q \in Procs, pc'[q] = "serving" PROVE version' = CurrentSchemaVersion
  <2>1. CASE pc[q] = "serving"
    <3>1. version = CurrentSchemaVersion
      BY <2>1 DEF LadderInv
    <3>2. version' = version
      <4>1. CASE MadeFresh
        BY <1>1, <1>2, <3>1, <4>1, FreshStep
      <4>2. CASE WasThere
        <5>1. version' # version => scene.procs = {p} /\ pc[p] = "ladder"
          BY <1>1, <1>2, <3>1, <4>2, LadderStep DEF LadderInv
        <5>2. scene.procs = {p} => q = p
          BY <2>1 DEF LadderInv, Started
        <5> QED
          BY <2>1, <5>1, <5>2
      <4> QED
        BY <4>1, <4>2 DEF LadderInv
    <3> QED
      BY <3>1, <3>2
  <2>2. CASE pc[q] # "serving"
    BY <1>1, <1>2, <1>6, <2>2
       DEF TypeOK, Steps, Step, Inspect, CreateTable, CreateRest, Stamp, ReadVersion, Rung,
           RungError, TopOfLadder, Gate, Ready, Rescrub, RescrubFails, NoRescrub, Share, Exit, Crash,
           Go, file
  <2> QED
    BY <2>1, <2>2
<1> QED
  BY <1>2, <1>3, <1>4, <1>5, <1>6 DEF LadderInv

\* Where no ladder can undo another's rungs, a file that was there has the shape its
\* version names, whoever races or is killed, and commands run at the current version.
THEOREM ShapeHolds == Spec => [](NoUndoing => VersionDescribesSchema)
<1>1. Spec => [](TypeOK /\ scene \in Scenes)
  BY TypesHold
<1>2. Init /\ TypeOK => (NoUndoing => LadderInv)
  <2> SUFFICES ASSUME Init, TypeOK, NoUndoing PROVE LadderInv
    OBVIOUS
  <2>1. scene.starts \subseteq Versions \cup {Fresh}
    BY LadderAssumption DEF Init
  <2>2. \A p \in Procs : pc[p] = "idle" /\ seen[p] = 0
    BY DEF Init
  <2>3. PICK v \in scene.starts : /\ version = IF v = Fresh THEN 0 ELSE v
                                  /\ cols = IF v = Fresh THEN {} ELSE Shape[v]
    BY DEF Init
  <2>4. CASE v = Fresh
    BY <2>2, <2>3, <2>4 DEF LadderInv, MadeFresh
  <2>5. CASE v # Fresh
    <3>1. version = v /\ cols = Shape[version] /\ v \in Versions
      BY <2>1, <2>3, <2>5
    <3>2. version \in 8..10 \/ \E p \in Procs : scene.procs = {p}
      BY <2>5, <3>1 DEF NoUndoing, Fresh
    <3> QED
      BY <2>2, <3>1, <3>2 DEF LadderInv, WasThere
  <2> QED
    BY <2>4, <2>5
<1>3. /\ (NoUndoing => LadderInv) /\ (TypeOK /\ scene \in Scenes) /\ [Next /\ UNCHANGED scene]_vars
      => (NoUndoing => LadderInv)'
  <2> SUFFICES ASSUME NoUndoing => LadderInv, scene \in Scenes, [Next /\ UNCHANGED scene]_vars,
                      NoUndoing'
               PROVE  LadderInv'
    OBVIOUS
  <2>1. scene' = scene
    BY DEF vars
  <2>2. LadderInv
    BY <2>1 DEF NoUndoing
  <2>3. CASE UNCHANGED vars
    BY <2>2, <2>3 DEF LadderInv, TypeOK, MadeFresh, WasThere, Started, vars, rest
  <2>4. CASE Next
    BY <2>1, <2>2, <2>4, LadderInvStep
  <2> QED
    BY <2>3, <2>4
<1>4. (NoUndoing => LadderInv) => (NoUndoing => VersionDescribesSchema)
  <2> SUFFICES ASSUME LadderInv PROVE VersionDescribesSchema
    OBVIOUS
  <2> QED
    BY DEF LadderInv, WasThere, VersionDescribesSchema
<1> QED
  BY <1>1, <1>2, <1>3, <1>4, PTL DEF Spec
=============================================================================
