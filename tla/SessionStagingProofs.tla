------------------------ MODULE SessionStagingProofs ------------------------
(***************************************************************************)
(* What SessionStaging keeps for every set of sessions, hooks and paths,   *)
(* every threshold and every scene: the unlocked tally never runs ahead of *)
(* the edits, and, where the hooks of a session take turns, staging        *)
(* silences the Stop gate and nothing earned is thrown away.               *)
(***************************************************************************)
EXTENDS SessionStaging, FiniteSetTheorems, TLAPS

-----------------------------------------------------------------------------
(* The hooks.                                                              *)

Clearing == {"flush", "record", "gate", "save", "rmstaged", "rmcount", "rmfiles"}

\* Where each hook may stand, and what it holds there.
WellFormed(h) ==
  /\ h.op = "none" => h = Free
  /\ h.op = "change" => h.of \in Sessions /\ h.pc \in {"readcount", "trunc", "write", "append"}
  /\ h.op = "stage" => /\ h.of \in Sessions /\ h.pc \in {"readcount", "trunc", "write"}
                       /\ h.sum \in Summary /\ h.n \in 0 .. scene.edits
  /\ h.op = "stop" => h.of \in Sessions /\ h.pc \in {"readcount", "readstaged", "block"}
  /\ h.op = "end" => h.of \in Sessions /\ h.pc \in {"openstore"} \cup Clearing
  /\ h.op = "recover" => \/ h.of = NoSession /\ h.pc \in {"list", "next"}
                         \/ h.of \in Sessions /\ h.pc \in Clearing
  /\ h.pc \in {"record", "gate", "save"} => h.sum \in Summary

Types ==
  /\ TypeOK
  /\ scene \in Scenes
  /\ stages \in [Sessions -> 0 .. scene.stages]
  /\ editsAtStage \in [Sessions -> 0 .. scene.edits]
  /\ \A q \in Hooks : WellFormed(hooks[q])

-----------------------------------------------------------------------------
(* The tally.                                                              *)

\* The edits of a session whose hook has yet to read the tally.
Untallied(s) == {q \in Hooks : hooks[q].of = s /\ hooks[q].op = "change" /\ hooks[q].pc = "readcount"}

\* The tally, and every tally a hook is about to write, leave room for those.
TallyIsBehind(s) ==
  /\ IsFiniteSet(Untallied(s))
  /\ Cardinality(Untallied(s)) <= edits[s]
  /\ count[s] \notin {Absent, Torn} => count[s] + Cardinality(Untallied(s)) <= edits[s]
  /\ \A q \in Hooks :
       hooks[q].of = s /\ hooks[q].op = "change" /\ hooks[q].pc \in {"trunc", "write"} =>
         hooks[q].n + Cardinality(Untallied(s)) <= edits[s]

EarnedInv ==
  /\ \A s \in Sessions : TallyIsBehind(s)
  /\ \A q \in Hooks : hooks[q].pc = "save" => edits[hooks[q].of] >= Threshold
  /\ \A m \in stored : edits[m[1]] >= Threshold

-----------------------------------------------------------------------------
(* Who works on the files of whom.                                         *)

\* What is being cleared, or may be, belongs to a session that is over.
ClearedAreOver ==
  /\ \A s \in Sessions : idle[s] => life[s] # "running"
  /\ \A q \in Hooks : hooks[q].op = "end" \/ hooks[q].pc \in Clearing => life[hooks[q].of] # "running"

Works(q, s) == hooks[q].of = s /\ hooks[q].op \in {"change", "stage", "stop"}

\* Where the hooks of a session take turns, one that works for it is alone on its files.
WorksAlone ==
  /\ \A s \in Sessions, q, r \in Hooks : Works(q, s) /\ hooks[r].of = s => r = q
  /\ \A s \in Sessions, q \in Hooks : idle[s] => ~Works(q, s)

InTime == ~scene.slow
InTurn == ~scene.slow /\ ~scene.parallel

-----------------------------------------------------------------------------
(* The Stop gate.                                                          *)

\* A tally of n counts no edit made before the summary on disk was staged twice.
Fresher(s, n) ==
  /\ staged[s] = Absent => n <= edits[s] - editsAtStage[s]
  /\ IsSummary(staged[s]) => n - staged[s].at <= edits[s] - editsAtStage[s]

\* What the hook of a session that works on its files knows.
Knows(q, s) ==
  LET h == hooks[q] IN
  /\ h.op = "change" /\ h.pc = "readcount" /\ count[s] # Torn => Fresher(s, Tally(s) + 1)
  /\ h.op = "change" /\ h.pc \in {"trunc", "write"} => Fresher(s, h.n)
  /\ h.op = "stage" /\ h.pc \in {"trunc", "write"} =>
       h.n = edits[s] /\ (count[s] # Torn => h.sum.at = Tally(s))
  /\ h.op = "stop" /\ h.pc = "readstaged" => Fresher(s, h.n)
  /\ h.op = "stop" /\ h.pc = "block" => edits[s] - editsAtStage[s] >= Threshold

GateIsOpen(s) ==
  /\ life[s] = "running" \/ \E q \in Hooks : Works(q, s)
  /\ count[s] # Torn
  => Fresher(s, Tally(s))

GateInv ==
  /\ \A s \in Sessions : GateIsOpen(s)
  /\ \A s \in Sessions, q \in Hooks : Works(q, s) => Knows(q, s)

-----------------------------------------------------------------------------
(* What is cleared.                                                        *)

\* A summary may go: it was declined, the gate refuses it, or it is stored.
Spent(s) ==
  \/ staged[s].declined
  \/ count[s] = Torn
  \/ ~PassesIntake(Tally(s))
  \/ <<s, staged[s].text>> \in stored

\* What a process that clears the files of s knows of them.
Clears(q, s) ==
  LET h == hooks[q] IN
  /\ h.pc \in {"record", "gate", "save"} => staged[s] \in {Absent, h.sum}
  /\ h.pc \in {"gate", "save"} => files[s] \subseteq h.paths
  /\ h.pc = "rmstaged" /\ IsSummary(staged[s]) => Spent(s)
  /\ h.pc \in {"rmcount", "rmfiles"} => staged[s] = Absent
  /\ h.saved => {s} \X files[s] \subseteq prov

ClearInv ==
  /\ \A q \in Hooks, s \in Sessions : hooks[q].of = s /\ hooks[q].pc \in Clearing => Clears(q, s)
  /\ \A q \in Hooks : hooks[q].saved => hooks[q].pc \in {"rmstaged", "rmcount", "rmfiles"}
  /\ faults \in Nat

-----------------------------------------------------------------------------
(* Types.                                                                  *)

\* What a process may do that is not a step of a hook under way.
Starts(q) ==
  \/ \E s \in Sessions :
       \/ \E p \in Paths : Edit(q, s, p) \/ Look(q, s, p)
       \/ \E declined, sid \in BOOLEAN : Stage(q, s, declined, sid)
       \/ Stop(q, s) \/ End(q, s)
  \/ SessionStart(q)

\* A step is one of a session, or one that changes one hook.
LEMMA NextCases ==
  ASSUME Types, Next
  PROVE  \/ \E s \in Sessions : Crash(s) \/ Age(s)
         \/ \E q \in Hooks : Starts(q) \/ Step(q) \/ Kill(q)
<1>1. scene.sessions \subseteq Sessions
  BY StagingAssumption DEF Types
<1> QED
  BY <1>1 DEF Next, Starts

\* The bounds of a scene.
LEMMA Bounds ==
  ASSUME scene \in Scenes
  PROVE  /\ scene.edits \in Nat /\ scene.stages \in Nat /\ Threshold \in Nat \ {0}
         /\ 1 .. scene.stages \subseteq Texts
BY StagingAssumption DEF Texts

\* The idle hook.
LEMMA FreeTypes ==
  ASSUME Types
  PROVE  Free \in HookStates /\ WellFormed(Free)
<1>1. scene.edits \in Nat
  BY Bounds DEF Types
<1> QED
  BY <1>1 DEF Free, HookStates, WellFormed, Ops, Places, Clearing

\* A hook that starts is well formed.
LEMMA StartTypes ==
  ASSUME Types, NEW q \in Hooks, Starts(q)
  PROVE  \E h \in HookStates : WellFormed(h) /\ hooks' = [hooks EXCEPT ![q] = h]
<1> USE DEF HookStates, WellFormed, Ops, Places
<1>1. scene.edits \in Nat /\ scene.stages \in Nat
  BY Bounds DEF Types
<1>2. Free \in HookStates
  BY FreeTypes
<1>3. ASSUME NEW s \in Sessions, NEW p \in Paths, Edit(q, s, p) \/ Look(q, s, p)
      PROVE  \E h \in HookStates : WellFormed(h) /\ hooks' = [hooks EXCEPT ![q] = h]
  <2> DEFINE h(pc) == [Free EXCEPT !.op = "change", !.of = s, !.pc = pc, !.paths = {p}]
  <2>1. \A pc \in {"readcount", "append"} : h(pc) \in HookStates /\ WellFormed(h(pc))
    <3> TAKE pc \in {"readcount", "append"}
    <3>1. h(pc) \in HookStates
      BY <1>2
    <3>2. h(pc).op = "change" /\ h(pc).of = s /\ h(pc).pc = pc
      BY DEF Free
    <3> HIDE DEF h
    <3> QED
      BY <3>1, <3>2
  <2>2. \E pc \in {"readcount", "append"} : hooks' = [hooks EXCEPT ![q] = h(pc)]
    <3>1. Edit(q, s, p) => hooks' = [hooks EXCEPT ![q] = h("readcount")]
                           \/ hooks' = [hooks EXCEPT ![q] = h("append")]
      BY DEF Edit
    <3>2. Look(q, s, p) => hooks' = [hooks EXCEPT ![q] = h("readcount")]
                           \/ hooks' = [hooks EXCEPT ![q] = h("append")]
      BY DEF Look
    <3> HIDE DEF h, HookStates
    <3> QED
      BY <1>3, <3>1, <3>2
  <2> HIDE DEF h, HookStates, WellFormed
  <2> QED
    BY <2>1, <2>2
<1>4. ASSUME NEW s \in Sessions, NEW declined \in BOOLEAN, NEW sid \in BOOLEAN,
             Stage(q, s, declined, sid)
      PROVE  \E h \in HookStates : WellFormed(h) /\ hooks' = [hooks EXCEPT ![q] = h]
  <2> DEFINE m == [text |-> stages[s] + 1, declined |-> declined, sid |-> sid, at |-> 0]
             h == [Free EXCEPT !.op = "stage", !.of = s, !.pc = "readcount", !.sum = m]
  <2>1. hooks' = [hooks EXCEPT ![q] = h] /\ stages[s] < scene.stages
    BY <1>4 DEF Stage
  <2>2. m \in Summary
    <3>1. stages[s] + 1 \in 1 .. scene.stages
      BY <1>1, <2>1 DEF Types
    <3>2. stages[s] + 1 \in Texts
      BY <3>1, Bounds DEF Types
    <3> QED
      BY <1>1, <3>2 DEF Summary, Summaries
  <2> HIDE DEF m
  <2>3. h \in HookStates
    BY <1>1, <1>2, <2>2 DEF Free
  <2>4. 0 \in 0 .. scene.edits
    BY <1>1
  <2>5. WellFormed(h)
    BY <2>2, <2>4 DEF Free, Clearing
  <2> QED
    BY <2>1, <2>3, <2>5
<1>5. ASSUME NEW s \in Sessions, Stop(q, s) \/ End(q, s)
      PROVE  \E h \in HookStates : WellFormed(h) /\ hooks' = [hooks EXCEPT ![q] = h]
  <2> DEFINE h(op, pc) == [Free EXCEPT !.op = op, !.of = s, !.pc = pc]
  <2>1. \/ hooks' = [hooks EXCEPT ![q] = h("stop", "readcount")]
        \/ hooks' = [hooks EXCEPT ![q] = h("end", "openstore")]
    BY <1>5 DEF Stop, End, Spawn
  <2>2. h("stop", "readcount") \in HookStates /\ WellFormed(h("stop", "readcount"))
    BY <1>2 DEF Free, Clearing
  <2>3. h("end", "openstore") \in HookStates /\ WellFormed(h("end", "openstore"))
    BY <1>2 DEF Free, Clearing
  <2> HIDE DEF h
  <2> QED
    BY <2>1, <2>2, <2>3
<1>6. CASE SessionStart(q)
  <2> DEFINE h == [Free EXCEPT !.op = "recover", !.pc = "list"]
  <2>1. h \in HookStates /\ WellFormed(h)
    BY <1>2 DEF Free, Clearing
  <2> QED
    BY <1>6, <2>1 DEF SessionStart
<1> QED
  BY <1>3, <1>4, <1>5, <1>6 DEF Starts

\* A hook under way stays well formed.
LEMMA StepTypes ==
  ASSUME Types, NEW q \in Hooks, Step(q)
  PROVE  \E h \in HookStates : WellFormed(h) /\ hooks' = [hooks EXCEPT ![q] = h]
<1> DEFINE c == hooks[q]
           Ok == \E h \in HookStates : WellFormed(h) /\ hooks' = [hooks EXCEPT ![q] = h]
<1>1. /\ c \in HookStates /\ WellFormed(c) /\ scene.edits \in Nat
      /\ hooks \in [Hooks -> HookStates]
  BY Bounds DEF Types, TypeOK
<1>2. Free \in HookStates /\ WellFormed(Free) /\ Free.op = "none" /\ Free.pc = "free"
  BY FreeTypes DEF Free
<1>3. Exits(q) => Ok
  BY <1>2 DEF Exits
<1>4. \A pc \in Places : [c EXCEPT !.pc = pc] \in HookStates
  BY <1>1 DEF HookStates
<1>5. \A pc \in Places :
        WellFormed([c EXCEPT !.pc = pc]) /\ hooks' = [hooks EXCEPT ![q].pc = pc] => Ok
  BY <1>4
<1>6. c.of \in Sessions => /\ count[c.of] \notin {Absent, Torn} => count[c.of] \in 0 .. scene.edits
                           /\ edits[c.of] \in 0 .. scene.edits
                           /\ staged[c.of] \in Summary \cup {Absent, Torn}
                           /\ files[c.of] \subseteq Paths
  BY DEF Types, TypeOK
<1>7. CASE ReadCount(q)
  <2>1. c.pc = "readcount" /\ c.op \in {"change", "stage", "stop"} /\ c.of \in Sessions
    BY <1>1, <1>7 DEF ReadCount, WellFormed, HookStates, Ops, Clearing, Free
  <2>2. count[c.of] # Torn => Tally(c.of) \in 0 .. scene.edits
    BY <1>1, <1>6, <2>1 DEF Tally
  <2>3. CASE c.op = "change" /\ count[c.of] = Torn
    <3>1. hooks' = [hooks EXCEPT ![q] = [c EXCEPT !.pc = "append"]]
      BY <1>7, <2>3 DEF ReadCount
    <3>2. WellFormed([c EXCEPT !.pc = "append"])
      BY <1>1, <2>1, <2>3 DEF WellFormed, HookStates, Clearing
    <3> QED
      BY <1>4, <3>1, <3>2 DEF Places
  <2>4. CASE c.op = "change" /\ count[c.of] # Torn
    <3> DEFINE h == [c EXCEPT !.pc = "trunc", !.n = Tally(c.of) + 1]
    <3>1. hooks' = [hooks EXCEPT ![q] = h]
      BY <1>7, <2>4 DEF ReadCount
    <3>2. Tally(c.of) + 1 \in 0 .. scene.edits + 1
      BY <1>1, <2>2, <2>4
    <3>3. h \in HookStates
      BY <1>1, <3>2 DEF HookStates, Places
    <3>4. WellFormed(h)
      BY <1>1, <2>1, <2>4 DEF HookStates, WellFormed, Clearing
    <3> QED
      BY <3>1, <3>3, <3>4
  <2>5. CASE c.op = "stage"
    <3> DEFINE a == IF count[c.of] = Torn THEN 0 ELSE Tally(c.of)
               m == [c.sum EXCEPT !.at = a]
               h == [c EXCEPT !.pc = "trunc", !.n = edits[c.of], !.sum = m]
    <3>1. c.sum \in Summary /\ a \in 0 .. scene.edits
      BY <1>1, <2>2, <2>5 DEF WellFormed
    <3>2. m \in Summary
      BY <3>1 DEF Summary, Summaries
    <3>3. hooks' = [hooks EXCEPT ![q] = h]
      BY <1>7, <2>5 DEF ReadCount
    <3>4. edits[c.of] \in 0 .. scene.edits + 1
      BY <1>1, <1>6, <2>1
    <3> HIDE DEF m
    <3>5. h \in HookStates
      BY <1>1, <3>2, <3>4 DEF HookStates, Places
    <3>6. WellFormed(h)
      BY <1>1, <1>6, <2>1, <2>5, <3>2 DEF HookStates, WellFormed, Clearing
    <3> QED
      BY <3>3, <3>5, <3>6
  <2>6. CASE c.op = "stop"
    <3> DEFINE h == [c EXCEPT !.pc = "readstaged", !.n = Tally(c.of)]
    <3>1. \/ hooks' = [hooks EXCEPT ![q] = Free]
          \/ hooks' = [hooks EXCEPT ![q] = h] /\ count[c.of] # Torn
      BY <1>7, <2>6 DEF ReadCount
    <3>2. count[c.of] # Torn => Tally(c.of) \in 0 .. scene.edits + 1
      BY <1>1, <2>2
    <3>3. count[c.of] # Torn => h \in HookStates
      BY <1>1, <3>2 DEF HookStates, Places
    <3>4. WellFormed(h)
      BY <1>1, <2>1, <2>6 DEF HookStates, WellFormed, Clearing
    <3> QED
      BY <1>2, <3>1, <3>3, <3>4
  <2> QED
    BY <2>1, <2>3, <2>4, <2>5, <2>6
<1>8. CASE TruncateCount(q) \/ WriteCount(q)
  BY <1>1, <1>5, <1>8 DEF TruncateCount, WriteCount, Moves, WellFormed, HookStates, Places
<1>9. CASE AppendFiles(q) \/ StageSummary(q) \/ EmitStopBlock(q) \/ RecoverDone(q)
  BY <1>3, <1>9 DEF AppendFiles, StageSummary, EmitStopBlock, RecoverDone
<1>10. CASE TruncateStaged(q)
  BY <1>1, <1>5, <1>10 DEF TruncateStaged, Moves, WellFormed, HookStates, Places
<1>11. CASE DecideStop(q)
  BY <1>1, <1>3, <1>5, <1>11 DEF DecideStop, Moves, WellFormed, HookStates, Places
<1>12. CASE OpenStore(q)
  BY <1>1, <1>2, <1>3, <1>5, <1>12 DEF OpenStore, Moves, WellFormed, HookStates, Places, Clearing
<1>13. CASE ListStaged(q)
  <2> DEFINE h == [c EXCEPT !.todo = {s \in Sessions : staged[s] # Absent}, !.pc = "next"]
  <2>1. c.pc = "list" /\ c.op = "recover" /\ c.of = NoSession
    BY <1>1, <1>13 DEF ListStaged, HookStates, WellFormed, Ops, Clearing, Free
  <2>2. h \in HookStates
    BY <1>1 DEF HookStates, Places
  <2>3. WellFormed(h)
    BY <1>1, <2>1 DEF HookStates, WellFormed, Clearing
  <2>4. hooks' = [hooks EXCEPT ![q] = h]
    BY <1>13 DEF ListStaged
  <2> QED
    BY <2>2, <2>3, <2>4
<1>14. CASE RecoverNext(q)
  <2>1. PICK s \in c.todo :
          hooks' = [hooks EXCEPT ![q] =
                     IF staged[s] # Absent /\ idle[s]
                     THEN [c EXCEPT !.todo = c.todo \ {s}, !.of = s, !.pc = "flush"]
                     ELSE [c EXCEPT !.todo = c.todo \ {s}]]
    BY <1>14 DEF RecoverNext
  <2>2. c.op = "recover" /\ c.of = NoSession /\ c.pc = "next" /\ s \in Sessions
    BY <1>1, <1>14 DEF RecoverNext, HookStates, WellFormed, Places, Ops, Clearing, Free
  <2> DEFINE h == [c EXCEPT !.todo = c.todo \ {s}, !.of = s, !.pc = "flush"]
             k == [c EXCEPT !.todo = c.todo \ {s}]
  <2>3. h \in HookStates /\ WellFormed(h)
    BY <1>1, <2>2 DEF HookStates, WellFormed, Places, Clearing
  <2>4. k \in HookStates /\ WellFormed(k)
    BY <1>1, <2>2 DEF HookStates, WellFormed, Places, Clearing
  <2>5. hooks' = [hooks EXCEPT ![q] = h] \/ hooks' = [hooks EXCEPT ![q] = k]
    BY <2>1
  <2> QED
    BY <2>3, <2>4, <2>5
<1>15. CASE FlushStaged(q)
  <2>1. c.pc = "flush" /\ c.of \in Sessions /\ c.op \in {"end", "recover"}
    BY <1>1, <1>15 DEF FlushStaged, HookStates, WellFormed, Places, Ops, Clearing, Free
  <2> DEFINE h == [c EXCEPT !.pc = "record", !.sum = staged[c.of]]
  <2>2. \/ hooks' = [hooks EXCEPT ![q] = [c EXCEPT !.pc = "rmstaged"]]
        \/ hooks' = [hooks EXCEPT ![q] = h] /\ staged[c.of] \notin {Absent, Torn}
    BY <1>15 DEF FlushStaged
  <2>3. WellFormed([c EXCEPT !.pc = "rmstaged"])
    BY <1>1, <2>1 DEF HookStates, WellFormed, Clearing
  <2>4. staged[c.of] \notin {Absent, Torn} => h \in HookStates /\ WellFormed(h)
    BY <1>1, <1>6, <2>1 DEF HookStates, WellFormed, Places, Clearing
  <2> QED
    BY <1>4, <2>2, <2>3, <2>4 DEF Places
<1>16. CASE FlushFiles(q)
  <2>1. c.pc = "record" /\ c.of \in Sessions /\ c.op \in {"end", "recover"} /\ c.sum \in Summary
    BY <1>1, <1>16 DEF FlushFiles, HookStates, WellFormed, Places, Ops, Clearing, Free
  <2> DEFINE h == [c EXCEPT !.pc = "gate", !.paths = files[c.of]]
  <2>2. h \in HookStates /\ WellFormed(h)
    BY <1>1, <1>6, <2>1 DEF HookStates, WellFormed, Places, Clearing
  <2>3. hooks' = [hooks EXCEPT ![q] = h]
    BY <1>16 DEF FlushFiles
  <2> QED
    BY <2>2, <2>3
<1>17. CASE FlushGate(q)
  <2>1. c.pc = "gate" /\ c.of \in Sessions /\ c.op \in {"end", "recover"} /\ c.sum \in Summary
    BY <1>1, <1>17 DEF FlushGate, HookStates, WellFormed, Places, Ops, Clearing, Free
  <2>2. \A pc \in {"save", "rmstaged"} : WellFormed([c EXCEPT !.pc = pc])
    BY <1>1, <2>1 DEF HookStates, WellFormed, Clearing
  <2> QED
    BY <1>5, <1>17, <2>2 DEF FlushGate, Moves, Places
<1>18. CASE FlushSave(q)
  <2>1. c.pc = "save" /\ c.of \in Sessions /\ c.op \in {"end", "recover"} /\ c.sum \in Summary
    BY <1>1, <1>18 DEF FlushSave, HookStates, WellFormed, Places, Ops, Clearing, Free
  <2> DEFINE h == [c EXCEPT !.pc = "rmstaged", !.saved = TRUE]
  <2>2. WellFormed([c EXCEPT !.pc = "rmstaged"])
    BY <1>1, <2>1 DEF HookStates, WellFormed, Clearing
  <2>3. h \in HookStates /\ WellFormed(h)
    BY <1>1, <2>1 DEF HookStates, WellFormed, Places, Clearing
  <2>4. hooks' = [hooks EXCEPT ![q] = h] \/ hooks' = [hooks EXCEPT ![q].pc = "rmstaged"]
    BY <1>18 DEF FlushSave, Moves
  <2> QED
    BY <1>5, <2>2, <2>3, <2>4 DEF Places
<1>19. CASE RemoveStaged(q) \/ RemoveCount(q)
  <2>1. c.pc \in {"rmstaged", "rmcount"} /\ c.of \in Sessions /\ c.op \in {"end", "recover"}
    BY <1>1, <1>19
       DEF RemoveStaged, RemoveCount, HookStates, WellFormed, Places, Ops, Clearing, Free
  <2>2. \A pc \in {"rmcount", "rmfiles"} : WellFormed([c EXCEPT !.pc = pc])
    BY <1>1, <2>1 DEF HookStates, WellFormed, Clearing
  <2> QED
    BY <1>5, <1>19, <2>2 DEF RemoveStaged, RemoveCount, Moves, Places
<1>20. CASE RemoveFiles(q)
  <2> DEFINE h == [Free EXCEPT !.op = "recover", !.pc = "next", !.todo = c.todo]
  <2>1. h \in HookStates
    BY <1>1, <1>2 DEF HookStates, Places, Ops
  <2>3. WellFormed(h)
    BY DEF WellFormed, Clearing, Free
  <2>2. hooks' = [hooks EXCEPT ![q] = Free] \/ hooks' = [hooks EXCEPT ![q] = h]
    BY <1>20 DEF RemoveFiles
  <2> QED
    BY <1>2, <2>1, <2>2, <2>3
<1> QED
  BY <1>7, <1>8, <1>9, <1>10, <1>11, <1>12, <1>13, <1>14, <1>15, <1>16, <1>17, <1>18, <1>19, <1>20
     DEF Step

\* The hooks after a step: one of them may have changed, and all are well formed.
LEMMA HookTypes ==
  ASSUME Types, scene' = scene, NEW q \in Hooks, Starts(q) \/ Step(q) \/ Kill(q)
  PROVE  /\ hooks' \in [Hooks -> HookStates']
         /\ \A r \in Hooks : WellFormed(hooks[r])'
         /\ \A r \in Hooks \ {q} : hooks'[r] = hooks[r]
<1>1. \E h \in HookStates : WellFormed(h) /\ hooks' = [hooks EXCEPT ![q] = h]
  BY StartTypes, StepTypes, FreeTypes DEF Kill, Exits
<1>2. HookStates' = HookStates /\ Summary' = Summary
  BY DEF HookStates, Summary, Summaries
<1>3. \A r \in Hooks : WellFormed(hooks[r])' <=> WellFormed(hooks'[r])
  BY <1>2 DEF WellFormed
<1>4. hooks \in [Hooks -> HookStates] /\ \A r \in Hooks : WellFormed(hooks[r])
  BY DEF Types, TypeOK
<1> QED
  BY <1>1, <1>2, <1>3, <1>4

\* The rest of the types.
LEMMA FileTypes ==
  ASSUME Types, EarnedInv, scene' = scene, NEW q \in Hooks, Starts(q) \/ Step(q) \/ Kill(q)
  PROVE  /\ staged' \in [Sessions -> Summary' \cup {Absent, Torn}]
         /\ count' \in [Sessions -> 0 .. scene'.edits \cup {Absent, Torn}]
         /\ files' \in [Sessions -> SUBSET Paths]
         /\ idle' \in [Sessions -> BOOLEAN]
<1> DEFINE c == hooks[q]
<1>1. /\ c \in HookStates /\ WellFormed(c) /\ Summary' = Summary
      /\ scene.edits \in Nat
  BY Bounds DEF Types, TypeOK, Summary
<1>2. /\ staged \in [Sessions -> Summary \cup {Absent, Torn}]
      /\ count \in [Sessions -> 0 .. scene.edits \cup {Absent, Torn}]
      /\ files \in [Sessions -> SUBSET Paths]
      /\ idle \in [Sessions -> BOOLEAN]
  BY DEF Types, TypeOK
<1>3. staged' \in [Sessions -> Summary \cup {Absent, Torn}]
  <2>1. \A s, v : v \in Summary \cup {Absent, Torn} /\ staged' = [staged EXCEPT ![s] = v]
          => staged' \in [Sessions -> Summary \cup {Absent, Torn}]
    BY <1>2
  <2>2. StageSummary(q) => c.sum \in Summary
    BY <1>1 DEF StageSummary, WellFormed
  <2>3. \/ UNCHANGED staged
        \/ \E s : staged' = [staged EXCEPT ![s] = Absent] \/ staged' = [staged EXCEPT ![s] = Torn]
        \/ StageSummary(q) /\ staged' = [staged EXCEPT ![c.of] = c.sum]
    BY DEF Starts, Edit, Look, Stage, Stop, End, SessionStart, Step, ReadCount, TruncateCount,
           WriteCount, AppendFiles, TruncateStaged, StageSummary, DecideStop, EmitStopBlock, OpenStore,
           ListStaged, RecoverNext, RecoverDone, FlushStaged, FlushFiles, FlushGate, FlushSave,
           RemoveStaged, RemoveCount, RemoveFiles, Kill, sentinels
  <2> QED
    BY <1>2, <2>1, <2>2, <2>3
<1>4. count' \in [Sessions -> 0 .. scene.edits \cup {Absent, Torn}]
  <2>1. \A s, v : v \in 0 .. scene.edits \cup {Absent, Torn} /\ count' = [count EXCEPT ![s] = v]
          => count' \in [Sessions -> 0 .. scene.edits \cup {Absent, Torn}]
    BY <1>2
  <2>2. WriteCount(q) => c.n \in 0 .. scene.edits
    <3>1. SUFFICES ASSUME WriteCount(q) PROVE c.n \in 0 .. scene.edits
      OBVIOUS
    <3>2. c.op = "change" /\ c.pc = "write" /\ c.of \in Sessions
      BY <1>1, <3>1 DEF WriteCount, WellFormed
    <3>3. /\ IsFiniteSet(Untallied(c.of))
          /\ c.n + Cardinality(Untallied(c.of)) <= edits[c.of]
      BY <3>2 DEF EarnedInv, TallyIsBehind
    <3>4. Cardinality(Untallied(c.of)) \in Nat
      BY <3>3, FS_CardinalityType
    <3>5. c.n \in Nat /\ edits[c.of] \in 0 .. scene.edits
      BY <1>1, <3>2 DEF HookStates, Types, TypeOK
    <3> QED
      BY <1>1, <3>3, <3>4, <3>5
  <2>3. \/ UNCHANGED count
        \/ \E s : count' = [count EXCEPT ![s] = Absent] \/ count' = [count EXCEPT ![s] = Torn]
        \/ WriteCount(q) /\ count' = [count EXCEPT ![c.of] = c.n]
    BY DEF Starts, Edit, Look, Stage, Stop, End, SessionStart, Step, ReadCount, TruncateCount,
           WriteCount, AppendFiles, TruncateStaged, StageSummary, DecideStop, EmitStopBlock, OpenStore,
           ListStaged, RecoverNext, RecoverDone, FlushStaged, FlushFiles, FlushGate, FlushSave,
           RemoveStaged, RemoveCount, RemoveFiles, Kill, sentinels
  <2> QED
    BY <1>2, <2>1, <2>2, <2>3
<1>5. files' \in [Sessions -> SUBSET Paths]
  <2>1. c.paths \subseteq Paths
    BY <1>1 DEF HookStates
  <2>2. \/ UNCHANGED files
        \/ \E s : files' = [files EXCEPT ![s] = {}]
        \/ files' = [files EXCEPT ![c.of] = @ \cup c.paths]
    BY DEF Starts, Edit, Look, Stage, Stop, End, SessionStart, Step, ReadCount, TruncateCount,
           WriteCount, AppendFiles, TruncateStaged, StageSummary, DecideStop, EmitStopBlock, OpenStore,
           ListStaged, RecoverNext, RecoverDone, FlushStaged, FlushFiles, FlushGate, FlushSave,
           RemoveStaged, RemoveCount, RemoveFiles, Kill, sentinels
  <2> QED
    BY <1>2, <2>1, <2>2
<1>6. idle' \in [Sessions -> BOOLEAN]
  <2>1. UNCHANGED idle \/ \E s : idle' = [idle EXCEPT ![s] = FALSE]
    BY DEF Starts, Edit, Look, Stage, Stop, End, SessionStart, Step, ReadCount, TruncateCount,
           WriteCount, AppendFiles, TruncateStaged, StageSummary, DecideStop, EmitStopBlock, OpenStore,
           ListStaged, RecoverNext, RecoverDone, FlushStaged, FlushFiles, FlushGate, FlushSave,
           RemoveStaged, RemoveCount, RemoveFiles, Kill, sentinels
  <2> QED
    BY <1>2, <2>1
<1> QED
  BY <1>1, <1>3, <1>4, <1>5, <1>6

\* The store and what the sessions did.
LEMMA HistoryTypes ==
  ASSUME Types, scene' = scene, NEW q \in Hooks, Starts(q) \/ Step(q) \/ Kill(q)
  PROVE  /\ life' \in [Sessions -> {"running", "ended", "crashed"}]
         /\ stored' \subseteq Sessions \X Texts /\ prov' \subseteq Sessions \X Paths
         /\ edits' \in [Sessions -> 0 .. scene'.edits]
         /\ stages' \in [Sessions -> 0 .. scene'.stages]
         /\ editsAtStage' \in [Sessions -> 0 .. scene'.edits]
<1> DEFINE c == hooks[q]
<1>1. /\ c \in HookStates /\ WellFormed(c) /\ scene.edits \in Nat /\ scene.stages \in Nat
  BY Bounds DEF Types, TypeOK
<1>2. life' \in [Sessions -> {"running", "ended", "crashed"}]
  <2>1. UNCHANGED life \/ \E s \in Sessions : life' = [life EXCEPT ![s] = "ended"]
    BY DEF Starts, Edit, Look, Stage, Stop, End, SessionStart, Step, ReadCount, TruncateCount,
           WriteCount, AppendFiles, TruncateStaged, StageSummary, DecideStop, EmitStopBlock, OpenStore,
           ListStaged, RecoverNext, RecoverDone, FlushStaged, FlushFiles, FlushGate, FlushSave,
           RemoveStaged, RemoveCount, RemoveFiles, Kill
  <2> QED
    BY <2>1 DEF Types, TypeOK
<1>3. stored' \subseteq Sessions \X Texts /\ prov' \subseteq Sessions \X Paths
  <2>1. FlushFiles(q) \/ FlushSave(q) => c.of \in Sessions /\ c.sum \in Summary
    BY <1>1 DEF FlushFiles, FlushSave, WellFormed, HookStates, Ops, Clearing, Free
  <2>2. /\ c.of \in Sessions => files[c.of] \subseteq Paths
        /\ c.paths \subseteq Paths
        /\ c.sum \in Summary => c.sum.text \in Texts
        /\ stored \subseteq Sessions \X Texts /\ prov \subseteq Sessions \X Paths
    BY <1>1 DEF Types, TypeOK, HookStates, Summary, Summaries
  <2>3. CASE FlushFiles(q)
    BY <2>1, <2>2, <2>3 DEF FlushFiles
  <2>4. CASE FlushSave(q)
    <3>1. \/ /\ stored' = stored \cup {<<c.of, c.sum.text>>}
             /\ prov' = prov \cup ({c.of} \X c.paths)
          \/ UNCHANGED <<stored, prov>>
      BY <2>4 DEF FlushSave, store
    <3>2. c.of \in Sessions /\ c.paths \subseteq Paths /\ c.sum.text \in Texts
      BY <2>1, <2>2, <2>4
    <3>3. <<c.of, c.sum.text>> \in Sessions \X Texts /\ {c.of} \X c.paths \subseteq Sessions \X Paths
      BY <3>2
    <3> QED
      BY <2>2, <3>1, <3>3
  <2>5. ~FlushFiles(q) /\ ~FlushSave(q) => UNCHANGED store
    BY DEF Starts, Edit, Look, Stage, Stop, End, SessionStart, Step, ReadCount, TruncateCount,
           WriteCount, AppendFiles, TruncateStaged, StageSummary, DecideStop, EmitStopBlock, OpenStore,
           ListStaged, RecoverNext, RecoverDone, FlushStaged, FlushGate,
           RemoveStaged, RemoveCount, RemoveFiles, Kill
  <2> QED
    BY <2>2, <2>3, <2>4, <2>5 DEF store
<1>4. edits' \in [Sessions -> 0 .. scene.edits]
  <2>1. UNCHANGED edits
        \/ \E s \in Sessions : edits[s] < scene.edits /\ edits' = [edits EXCEPT ![s] = @ + 1]
    BY DEF Starts, Edit, Look, Stage, Stop, End, SessionStart, Step, ReadCount, TruncateCount,
           WriteCount, AppendFiles, TruncateStaged, StageSummary, DecideStop, EmitStopBlock, OpenStore,
           ListStaged, RecoverNext, RecoverDone, FlushStaged, FlushFiles, FlushGate, FlushSave,
           RemoveStaged, RemoveCount, RemoveFiles, Kill, history
  <2> QED
    BY <1>1, <2>1 DEF Types, TypeOK
<1>5. stages' \in [Sessions -> 0 .. scene.stages]
  <2>1. UNCHANGED stages
        \/ \E s \in Sessions : stages[s] < scene.stages /\ stages' = [stages EXCEPT ![s] = @ + 1]
    BY DEF Starts, Edit, Look, Stage, Stop, End, SessionStart, Step, ReadCount, TruncateCount,
           WriteCount, AppendFiles, TruncateStaged, StageSummary, DecideStop, EmitStopBlock, OpenStore,
           ListStaged, RecoverNext, RecoverDone, FlushStaged, FlushFiles, FlushGate, FlushSave,
           RemoveStaged, RemoveCount, RemoveFiles, Kill, history
  <2> QED
    BY <1>1, <2>1 DEF Types
<1>6. editsAtStage' \in [Sessions -> 0 .. scene.edits]
  <2>1. StageSummary(q) => c.n \in 0 .. scene.edits
    BY <1>1 DEF StageSummary, WellFormed
  <2>2. StageSummary(q) => editsAtStage' = [editsAtStage EXCEPT ![c.of] = c.n]
    BY DEF StageSummary
  <2>3. ~StageSummary(q) => UNCHANGED editsAtStage
    BY DEF Starts, Edit, Look, Stage, Stop, End, SessionStart, Step, ReadCount, TruncateCount,
           WriteCount, AppendFiles, TruncateStaged, DecideStop, EmitStopBlock, OpenStore,
           ListStaged, RecoverNext, RecoverDone, FlushStaged, FlushFiles, FlushGate, FlushSave,
           RemoveStaged, RemoveCount, RemoveFiles, Kill, history
  <2> QED
    BY <2>1, <2>2, <2>3 DEF Types
<1> QED
  BY <1>2, <1>3, <1>4, <1>5, <1>6

\* Every step keeps the types.
LEMMA TypesStep ==
  ASSUME Types, EarnedInv, scene' = scene, Next
  PROVE  Types'
<1>1. CASE \E s \in Sessions : Crash(s) \/ Age(s)
  <2>1. /\ life' \in [Sessions -> {"running", "ended", "crashed"}]
        /\ idle' \in [Sessions -> BOOLEAN]
        /\ UNCHANGED <<staged, count, files, hooks, store, history>>
    BY <1>1 DEF Types, TypeOK, Crash, Age, sentinels
  <2>2. Summary' = Summary /\ HookStates' = HookStates
    BY DEF Summary, HookStates
  <2>3. \A r \in Hooks : WellFormed(hooks[r])' <=> WellFormed(hooks[r])
    BY <2>1, <2>2 DEF WellFormed
  <2> QED
    BY <2>1, <2>2, <2>3 DEF Types, TypeOK, store, history
<1>2. CASE \E q \in Hooks : Starts(q) \/ Step(q) \/ Kill(q)
  <2>1. PICK q \in Hooks : Starts(q) \/ Step(q) \/ Kill(q)
    BY <1>2
  <2>2. /\ hooks' \in [Hooks -> HookStates']
        /\ \A r \in Hooks : WellFormed(hooks[r])'
    BY <2>1, HookTypes
  <2>3. scene' \in Scenes
    BY DEF Types
  <2> QED
    BY <2>1, <2>2, <2>3, FileTypes, HistoryTypes DEF Types, TypeOK
<1> QED
  BY <1>1, <1>2, NextCases

-----------------------------------------------------------------------------
(* The tally is behind the edits.                                          *)

\* One element more or less.
LEMMA OneMore ==
  ASSUME NEW S, IsFiniteSet(S), NEW x
  PROVE  /\ IsFiniteSet(S \cup {x}) /\ IsFiniteSet(S \ {x})
         /\ Cardinality(S) \in Nat /\ Cardinality(S \ {x}) \in Nat /\ Cardinality(S \cup {x}) \in Nat
         /\ Cardinality(S \cup {x}) <= Cardinality(S) + 1
         /\ Cardinality(S \ {x}) <= Cardinality(S)
         /\ x \in S => Cardinality(S \ {x}) = Cardinality(S) - 1
BY FS_AddElement, FS_RemoveElement, FS_CardinalityType

\* A hook that has read the tally.
LEMMA AfterRead ==
  ASSUME Types, NEW q \in Hooks, ReadCount(q)
  PROVE  /\ hooks[q].of \in Sessions
         /\ \/ /\ hooks[q].op = "change" /\ hooks'[q].op = "change" /\ hooks'[q].of = hooks[q].of
               /\ \/ count[hooks[q].of] = Torn /\ hooks'[q].pc = "append"
                  \/ /\ count[hooks[q].of] # Torn /\ hooks'[q].pc = "trunc"
                     /\ hooks'[q].n = Tally(hooks[q].of) + 1
            \/ /\ hooks[q].op = "stage" /\ hooks'[q].op = "stage" /\ hooks'[q].of = hooks[q].of
               /\ hooks'[q].pc = "trunc" /\ hooks'[q].n = edits[hooks[q].of]
               /\ count[hooks[q].of] # Torn => hooks'[q].sum.at = Tally(hooks[q].of)
            \/ /\ hooks[q].op = "stop" /\ count[hooks[q].of] # Torn
               /\ hooks'[q].op = "stop" /\ hooks'[q].of = hooks[q].of
               /\ hooks'[q].pc = "readstaged" /\ hooks'[q].n = Tally(hooks[q].of)
            \/ hooks[q].op = "stop" /\ hooks'[q] = Free
<1> DEFINE c == hooks[q]
<1>1. c \in HookStates /\ WellFormed(c) /\ hooks \in [Hooks -> HookStates]
  BY DEF Types, TypeOK
<1>2. c.pc = "readcount" /\ c.of \in Sessions /\ c.op \in {"change", "stage", "stop"}
  BY <1>1 DEF ReadCount, WellFormed, HookStates, Ops, Clearing, Free
<1>3. CASE c.op = "change"
  BY <1>1, <1>2, <1>3 DEF ReadCount, HookStates
<1>4. CASE c.op = "stage"
  <2> DEFINE h == [c EXCEPT !.pc = "trunc", !.n = edits[c.of],
                            !.sum.at = IF count[c.of] = Torn THEN 0 ELSE Tally(c.of)]
  <2>1. hooks'[q] = h
    BY <1>1, <1>4 DEF ReadCount
  <2>2. c.sum \in Summary
    BY <1>1, <1>4 DEF WellFormed
  <2> QED
    BY <1>1, <1>2, <1>4, <2>1, <2>2 DEF HookStates, Summary, Summaries
<1>5. CASE c.op = "stop"
  BY <1>1, <1>2, <1>5 DEF ReadCount, HookStates
<1> QED
  BY <1>2, <1>3, <1>4, <1>5

\* A process that took .files off the disk is done, or back at the sweep.
LEMMA AfterRemove ==
  ASSUME Types, NEW q \in Hooks, RemoveFiles(q)
  PROVE  \/ hooks'[q].op = "none" /\ hooks'[q].pc = "free"
         \/ hooks'[q].op = "recover" /\ hooks'[q].pc = "next"
<1> DEFINE back == [Free EXCEPT !.op = "recover", !.pc = "next", !.todo = hooks[q].todo]
<1>1. q \in DOMAIN hooks
  BY DEF Types, TypeOK
<1>2. hooks'[q] = Free \/ hooks'[q] = back
  BY <1>1 DEF RemoveFiles
<1>3. Free.op = "none" /\ Free.pc = "free"
  BY DEF Free
<1>4. back.op = "recover" /\ back.pc = "next"
  BY DEF Free
<1> HIDE DEF back
<1> QED
  BY <1>2, <1>3, <1>4

\* A flush that read .staged drops it, or goes on to save it.
LEMMA AfterFlushStaged ==
  ASSUME Types, NEW q \in Hooks, FlushStaged(q)
  PROVE  hooks'[q].pc \in {"rmstaged", "record"}
<1> DEFINE dropped == [hooks[q] EXCEPT !.pc = "rmstaged"]
           kept == [hooks[q] EXCEPT !.pc = "record", !.sum = staged[hooks[q].of]]
<1>1. q \in DOMAIN hooks /\ hooks[q] \in HookStates
  BY DEF Types, TypeOK
<1>2. hooks'[q] = dropped \/ hooks'[q] = kept
  BY <1>1 DEF FlushStaged
<1>3. dropped.pc = "rmstaged" /\ kept.pc = "record"
  BY <1>1 DEF HookStates
<1> HIDE DEF dropped, kept
<1> QED
  BY <1>2, <1>3

\* A step of one process leaves the others where they are.
LEMMA OthersStay ==
  ASSUME Types, NEW q \in Hooks, Starts(q) \/ Step(q) \/ Kill(q), NEW r \in Hooks, r # q
  PROVE  hooks'[r] = hooks[r]
<1>1. hooks \in [Hooks -> HookStates]
  BY DEF Types, TypeOK
<1>2. Starts(q) \/ Step(q) => \E h \in HookStates : hooks' = [hooks EXCEPT ![q] = h]
  BY StartTypes, StepTypes
<1>3. Kill(q) => hooks' = [hooks EXCEPT ![q] = Free]
  BY DEF Kill, Exits
<1> QED
  BY <1>1, <1>2, <1>3

\* Only an edit counts.
LEMMA StepKeepsEdits ==
  ASSUME NEW q \in Hooks, Step(q) \/ Kill(q)
  PROVE  UNCHANGED <<edits, stages>>
BY DEF Step, ReadCount, TruncateCount, WriteCount, AppendFiles, TruncateStaged,
       StageSummary, DecideStop, EmitStopBlock, OpenStore, ListStaged, RecoverNext, RecoverDone,
       FlushStaged, FlushFiles, FlushGate, FlushSave, RemoveStaged, RemoveCount, RemoveFiles,
       Kill, history

\* A hook that reads the tally, or one gone, leaves one edit less to tally; nothing but
\* an edit adds one.
LEMMA UntalliedStep ==
  ASSUME Types, NEW q \in Hooks, Step(q) \/ Kill(q), NEW s \in Sessions
  PROVE  Untallied(s)' = Untallied(s) \/ Untallied(s)' = Untallied(s) \ {q}
<1>1. \A r \in Hooks \ {q} : hooks'[r] = hooks[r]
  BY OthersStay
<1>2. q \notin Untallied(s)'
  <2>1. hooks[q] \in HookStates /\ WellFormed(hooks[q]) /\ hooks \in [Hooks -> HookStates]
    BY DEF Types, TypeOK
  <2>2. ReadCount(q) => hooks'[q].pc # "readcount" \/ hooks'[q].op # "change"
    BY AfterRead DEF Free
  <2>3. RecoverNext(q) \/ RemoveFiles(q) \/ FlushStaged(q) => hooks'[q].pc # "readcount"
    <3>1. RecoverNext(q) => hooks'[q].pc # "readcount"
      BY <2>1 DEF RecoverNext, HookStates
    <3>2. RemoveFiles(q) => hooks'[q].pc # "readcount"
      BY AfterRemove
    <3>3. FlushStaged(q) => hooks'[q].pc # "readcount"
      BY AfterFlushStaged
    <3> QED
      BY <3>1, <3>2, <3>3
  <2>4. FlushFiles(q) \/ FlushSave(q) \/ ListStaged(q) => hooks'[q].pc # "readcount"
    BY <2>1 DEF FlushFiles, FlushSave, ListStaged, HookStates, Moves
  <2>5. Exits(q) => hooks'[q].pc # "readcount"
    BY <2>1 DEF Exits, Free
  <2>6. \A pc : Moves(q, pc) => hooks'[q].pc = pc
    BY <2>1 DEF Moves, HookStates
  <2>7. hooks'[q].pc # "readcount" \/ hooks'[q].op # "change"
    BY <2>2, <2>3, <2>4, <2>5, <2>6
       DEF Step, TruncateCount, WriteCount, AppendFiles, TruncateStaged, StageSummary, DecideStop,
           EmitStopBlock, OpenStore, RecoverDone, FlushGate, RemoveStaged, RemoveCount, Kill
  <2> QED
    BY <2>7 DEF Untallied
<1> QED
  BY <1>1, <1>2 DEF Untallied

\* A hook holds a tally to write that it just read, or that it held before.
LEMMA TallyHeld ==
  ASSUME Types, NEW q \in Hooks, Step(q) \/ Kill(q),
         hooks'[q].op = "change", hooks'[q].pc \in {"trunc", "write"}
  PROVE  \/ /\ q \in Untallied(hooks'[q].of) /\ count[hooks'[q].of] # Torn
            /\ hooks'[q].n = Tally(hooks'[q].of) + 1
            /\ UNCHANGED <<count, edits>>
         \/ /\ hooks[q].of = hooks'[q].of /\ hooks[q].op = "change"
            /\ hooks[q].pc \in {"trunc", "write"} /\ hooks'[q].n = hooks[q].n
<1> DEFINE c == hooks[q]
<1>1. c \in HookStates /\ WellFormed(c) /\ hooks \in [Hooks -> HookStates]
  BY DEF Types, TypeOK
<1>2. CASE ReadCount(q)
  <2>1. UNCHANGED <<count, edits>>
    BY <1>2 DEF ReadCount, sentinels, history
  <2>2. c.pc = "readcount"
    BY <1>2 DEF ReadCount
  <2>3. /\ hooks'[q].of = c.of /\ c.op = "change" /\ count[c.of] # Torn
        /\ hooks'[q].n = Tally(c.of) + 1
    BY <1>2, AfterRead DEF Free
  <2>4. q \in Untallied(c.of)
    BY <2>2, <2>3 DEF Untallied
  <2> QED
    BY <2>1, <2>3, <2>4
<1>3. CASE TruncateCount(q)
  BY <1>1, <1>3 DEF TruncateCount, Moves, HookStates
<1>4. CASE TruncateStaged(q)
  BY <1>1, <1>4 DEF TruncateStaged, Moves, HookStates
<1>5. ~Exits(q)
  BY <1>1 DEF Exits, Free
<1>6. \A pc : Moves(q, pc) => hooks'[q].pc = pc
  BY <1>1 DEF Moves, HookStates
<1>7. ~RecoverNext(q)
  <2>1. RecoverNext(q) => c.op = "recover" /\ c.pc = "next"
    BY <1>1 DEF RecoverNext, WellFormed, HookStates, Ops, Clearing, Free
  <2>2. RecoverNext(q) => hooks'[q].op = c.op
    BY <1>1 DEF RecoverNext, HookStates
  <2> QED
    BY <2>1, <2>2
<1>8. ~RemoveFiles(q)
  BY AfterRemove
<1>9. ~FlushStaged(q) /\ ~FlushFiles(q) /\ ~ListStaged(q) /\ ~FlushSave(q)
  <2>1. ~FlushStaged(q)
    BY AfterFlushStaged
  <2>2. ~FlushFiles(q) /\ ~ListStaged(q)
    <3>1. ~FlushFiles(q)
      BY <1>1 DEF FlushFiles, HookStates
    <3>2. ~ListStaged(q)
      BY <1>1 DEF ListStaged, HookStates
    <3> QED
      BY <3>1, <3>2
  <2>3. ~FlushSave(q)
    BY <1>1, <1>6 DEF FlushSave, HookStates
  <2> QED
    BY <2>1, <2>2, <2>3
<1> QED
  BY <1>2, <1>3, <1>4, <1>5, <1>6, <1>7, <1>8, <1>9
     DEF Step, WriteCount, AppendFiles, StageSummary, DecideStop, EmitStopBlock, OpenStore,
         RecoverDone, FlushGate, RemoveStaged, RemoveCount, Kill

\* A step of a hook keeps the tally behind.
LEMMA TallyStep ==
  ASSUME Types, EarnedInv, NEW q \in Hooks, Step(q) \/ Kill(q), NEW s \in Sessions
  PROVE  TallyIsBehind(s)'
<1> DEFINE U == Untallied(s)
           n == Cardinality(U)
           m == Cardinality(Untallied(s)')
<1>1. TallyIsBehind(s)
  BY DEF EarnedInv
<1>2. /\ IsFiniteSet(Untallied(s)') /\ n \in Nat /\ m \in Nat /\ m <= n
      /\ q \in U => m = n - 1
  <2>1. IsFiniteSet(U) /\ n \in Nat
    BY <1>1, FS_CardinalityType DEF TallyIsBehind
  <2>2. /\ IsFiniteSet(U \ {q}) /\ Cardinality(U \ {q}) \in Nat /\ Cardinality(U \ {q}) <= n
        /\ q \in U => Cardinality(U \ {q}) = n - 1
    BY <2>1, OneMore
  <2>3. q \in U => Untallied(s)' = U \ {q}
    <3>1. q \in U => q \notin Untallied(s)'
      <4>1. q \in U => hooks[q].op = "change" /\ hooks[q].pc = "readcount"
        BY DEF Untallied
      <4>2. ReadCount(q) => hooks'[q].pc # "readcount" \/ hooks'[q].op # "change"
        BY AfterRead DEF Free
      <4>3. Kill(q) => hooks'[q].pc # "readcount"
        BY DEF Kill, Exits, Free, Types, TypeOK
      <4>4. q \in U => ReadCount(q) \/ Kill(q)
        BY <4>1 DEF Step, TruncateCount, WriteCount, AppendFiles, TruncateStaged,
           StageSummary, DecideStop, EmitStopBlock, OpenStore, ListStaged, RecoverNext, RecoverDone,
           FlushStaged, FlushFiles, FlushGate, FlushSave, RemoveStaged, RemoveCount, RemoveFiles
      <4> QED
        BY <4>2, <4>3, <4>4 DEF Untallied
    <3> QED
      BY <3>1, UntalliedStep
  <2>4. Untallied(s)' = U \/ Untallied(s)' = U \ {q}
    BY UntalliedStep
  <2> HIDE DEF U
  <2> QED
    BY <2>1, <2>2, <2>3, <2>4
<1>3. edits'[s] = edits[s] /\ edits[s] \in Nat
  <2>1. scene.edits \in Nat /\ edits[s] \in 0 .. scene.edits
    BY Bounds DEF Types, TypeOK
  <2> QED
    BY <2>1, StepKeepsEdits
<1>4. count[s] \notin {Absent, Torn} => count[s] \in Nat /\ count[s] + n <= edits[s]
  BY <1>1, Bounds DEF Types, TypeOK, TallyIsBehind
<1>5. count'[s] \notin {Absent, Torn} => count'[s] \in Nat /\ count'[s] + m <= edits[s]
  <2>1. CASE WriteCount(q) /\ hooks[q].of = s
    <3>1. /\ hooks[q].op = "change" /\ hooks[q].pc = "write" /\ count'[s] = hooks[q].n
          /\ hooks[q].n \in Nat
      BY <2>1, Bounds DEF WriteCount, Types, TypeOK, HookStates
    <3>2. hooks[q].n + n <= edits[s]
      BY <1>1, <2>1, <3>1 DEF TallyIsBehind
    <3> QED
      BY <1>2, <1>3, <3>1, <3>2
  <2>2. ~(WriteCount(q) /\ hooks[q].of = s) => count'[s] \in {count[s], Absent, Torn}
    BY DEF Types, TypeOK, Step, ReadCount, TruncateCount, WriteCount, AppendFiles, TruncateStaged,
         StageSummary, DecideStop, EmitStopBlock, OpenStore, ListStaged, RecoverNext, RecoverDone,
         FlushStaged, FlushFiles, FlushGate, FlushSave, RemoveStaged, RemoveCount, RemoveFiles,
         Kill, sentinels
  <2> QED
    BY <1>2, <1>3, <1>4, <2>1, <2>2
<1>6. ASSUME NEW r \in Hooks, hooks'[r].of = s, hooks'[r].op = "change",
             hooks'[r].pc \in {"trunc", "write"}
      PROVE  hooks'[r].n + m <= edits[s]
  <2>1. CASE r # q
    <3>1. hooks'[r] = hooks[r] /\ hooks[r].n \in Nat
      <4>1. hooks[r] \in HookStates /\ scene.edits \in Nat
        BY Bounds DEF Types, TypeOK
      <4> QED
        BY <2>1, <4>1, OthersStay DEF HookStates
    <3>2. hooks[r].n + n <= edits[s]
      BY <1>1, <1>6, <3>1 DEF TallyIsBehind
    <3> QED
      BY <1>2, <1>3, <3>1, <3>2
  <2>2. CASE r = q /\ q \in U /\ count[s] # Torn /\ hooks'[q].n = Tally(s) + 1
    <3>1. Tally(s) \in Nat /\ Tally(s) + n <= edits[s]
      BY <1>1, <1>2, <1>3, <1>4, <2>2 DEF Tally, TallyIsBehind
    <3> QED
      BY <1>2, <1>3, <2>2, <3>1
  <2>3. CASE /\ r = q /\ hooks[q].of = s /\ hooks[q].op = "change"
             /\ hooks[q].pc \in {"trunc", "write"} /\ hooks'[q].n = hooks[q].n
    <3>1. hooks[q].n \in Nat /\ hooks[q].n + n <= edits[s]
      BY <1>1, <2>3, Bounds DEF TallyIsBehind, Types, TypeOK, HookStates
    <3> QED
      BY <1>2, <1>3, <2>3, <3>1
  <2> QED
    BY <1>6, <2>1, <2>2, <2>3, TallyHeld
<1> QED
  BY <1>1, <1>2, <1>3, <1>5, <1>6 DEF TallyIsBehind

\* Where a process may start, and for whom.
LEMMA StartsAt ==
  ASSUME Types, NEW q \in Hooks, Starts(q)
  PROVE  /\ hooks[q] = Free
         /\ hooks'[q].pc \in {"readcount", "append", "openstore", "list"}
         /\ \/ hooks'[q].of = NoSession /\ hooks'[q].op = "recover"
            \/ hooks'[q].of \in Sessions /\ hooks'[q].op \in {"change", "stage", "stop", "end"}
         /\ hooks'[q].pc = "openstore" <=> hooks'[q].op = "end"
         /\ ~hooks'[q].saved
<1>1. hooks \in [Hooks -> HookStates]
  BY DEF Types, TypeOK
<1>2. ASSUME NEW r \in Sessions, NEW p \in Paths, Edit(q, r, p) \/ Look(q, r, p)
      PROVE  /\ hooks[q] = Free /\ hooks'[q].pc \in {"readcount", "append"}
             /\ hooks'[q].of = r /\ hooks'[q].op = "change" /\ ~hooks'[q].saved
  BY <1>1, <1>2 DEF Edit, Look, Free
<1>3. ASSUME NEW r \in Sessions, NEW declined, NEW sid, Stage(q, r, declined, sid)
      PROVE  /\ hooks[q] = Free /\ hooks'[q].pc = "readcount"
             /\ hooks'[q].of = r /\ hooks'[q].op = "stage" /\ ~hooks'[q].saved
  BY <1>1, <1>3 DEF Stage, Free
<1>4. ASSUME NEW r \in Sessions, Stop(q, r)
      PROVE  /\ hooks[q] = Free /\ hooks'[q].pc = "readcount"
             /\ hooks'[q].of = r /\ hooks'[q].op = "stop" /\ ~hooks'[q].saved
  BY <1>1, <1>4 DEF Stop, Spawn, Free
<1>5. ASSUME NEW r \in Sessions, End(q, r)
      PROVE  /\ hooks[q] = Free /\ hooks'[q].pc = "openstore"
             /\ hooks'[q].of = r /\ hooks'[q].op = "end" /\ ~hooks'[q].saved
  BY <1>1, <1>5 DEF End, Spawn, Free
<1>6. CASE SessionStart(q)
  BY <1>1, <1>6 DEF SessionStart, Free
<1>7. CASE \E r \in Sessions, p \in Paths : Edit(q, r, p) \/ Look(q, r, p)
  BY <1>2, <1>7
<1>8. CASE \E r \in Sessions, declined, sid \in BOOLEAN : Stage(q, r, declined, sid)
  BY <1>3, <1>8
<1>9. CASE \E r \in Sessions : Stop(q, r) \/ End(q, r)
  BY <1>4, <1>5, <1>9
<1> QED
  BY <1>6, <1>7, <1>8, <1>9 DEF Starts

\* A hook that starts leaves the tallies behind: an edit is one more to tally, and one
\* more that was made.
LEMMA TallyStarts ==
  ASSUME Types, EarnedInv, NEW q \in Hooks, Starts(q), NEW s \in Sessions
  PROVE  TallyIsBehind(s)'
<1>1. TallyIsBehind(s) /\ hooks \in [Hooks -> HookStates] /\ edits \in [Sessions -> Nat]
  BY Bounds DEF EarnedInv, Types, TypeOK
<1>2. hooks[q] = Free /\ UNCHANGED count
  BY DEF Starts, Edit, Look, Stage, Stop, End, SessionStart, Spawn, sentinels
<1>3. q \notin Untallied(s)
  BY <1>2 DEF Untallied, Free
<1>4. \A r \in Hooks \ {q} : hooks'[r] = hooks[r]
  BY OthersStay
<1>5. CASE \E p \in Paths : Edit(q, s, p)
  <2>1. /\ hooks'[q].op = "change" /\ hooks'[q].of = s /\ hooks'[q].pc = "readcount"
        /\ edits'[s] = edits[s] + 1
    BY <1>1, <1>5 DEF Edit, Free
  <2>2. Untallied(s)' = Untallied(s) \cup {q}
    BY <1>4, <2>1 DEF Untallied
  <2>3. /\ IsFiniteSet(Untallied(s)') /\ Cardinality(Untallied(s)) \in Nat
        /\ Cardinality(Untallied(s)') = Cardinality(Untallied(s)) + 1
    BY <1>1, <1>3, <2>2, FS_AddElement, FS_CardinalityType DEF TallyIsBehind
  <2>4. count[s] \notin {Absent, Torn} => count[s] \in Nat
    BY Bounds DEF Types, TypeOK
  <2>5. \A r \in Hooks : hooks[r].n \in Nat
    BY Bounds DEF Types, TypeOK, HookStates
  <2>6. edits[s] \in Nat
    BY <1>1
  <2>7. Cardinality(Untallied(s)') <= edits'[s]
    BY <1>1, <2>1, <2>3, <2>6 DEF TallyIsBehind
  <2>8. count'[s] \notin {Absent, Torn} => count'[s] + Cardinality(Untallied(s)') <= edits'[s]
    BY <1>1, <1>2, <2>1, <2>3, <2>4, <2>6 DEF TallyIsBehind
  <2>9. ASSUME NEW r \in Hooks, hooks'[r].of = s, hooks'[r].op = "change",
               hooks'[r].pc \in {"trunc", "write"}
        PROVE  hooks'[r].n + Cardinality(Untallied(s)') <= edits'[s]
    <3>1. r # q
      BY <2>1, <2>9
    <3>2. hooks'[r] = hooks[r]
      BY <1>4, <3>1
    <3>3. hooks[r].n + Cardinality(Untallied(s)) <= edits[s]
      BY <1>1, <2>9, <3>2 DEF TallyIsBehind
    <3> QED
      BY <2>1, <2>3, <2>5, <2>6, <3>2, <3>3
  <2> QED
    BY <2>3, <2>7, <2>8, <2>9 DEF TallyIsBehind
<1>6. CASE ~\E p \in Paths : Edit(q, s, p)
  <2>1. /\ edits'[s] = edits[s]
        /\ hooks'[q].op = "change" => hooks'[q].of # s \/ hooks'[q].pc = "append"
    <3>1. ASSUME NEW r \in Sessions, NEW p \in Paths, Edit(q, r, p)
          PROVE  r # s /\ hooks'[q].of = r /\ edits' = [edits EXCEPT ![r] = @ + 1]
      BY <1>1, <1>6, <3>1 DEF Edit, Free
    <3>2. ASSUME NEW r \in Sessions, NEW p \in Paths, Look(q, r, p)
          PROVE  hooks'[q].pc = "append" /\ UNCHANGED edits
      BY <1>1, <3>2 DEF Look, Free, history
    <3>3. ASSUME NEW r \in Sessions, NEW declined, NEW sid, Stage(q, r, declined, sid)
          PROVE  hooks'[q].op = "stage" /\ UNCHANGED edits
      BY <1>1, <3>3 DEF Stage, Free
    <3>4. ASSUME NEW r \in Sessions, Stop(q, r) \/ End(q, r)
          PROVE  hooks'[q].op # "change" /\ UNCHANGED edits
      BY <1>1, <3>4 DEF Stop, End, Spawn, Free, history
    <3>5. SessionStart(q) => hooks'[q].op = "recover" /\ UNCHANGED edits
      BY <1>1 DEF SessionStart, Free, history
    <3> QED
      BY <1>1, <3>1, <3>2, <3>3, <3>4, <3>5 DEF Starts
  <2>2. Untallied(s)' = Untallied(s)
    BY <1>3, <1>4, <2>1 DEF Untallied
  <2>3. \A r \in Hooks : hooks'[r].of = s /\ hooks'[r].op = "change" /\ hooks'[r].pc # "append"
          => hooks'[r] = hooks[r]
    BY <1>4, <2>1
  <2> QED
    BY <1>1, <1>2, <2>1, <2>2, <2>3 DEF TallyIsBehind
<1> QED
  BY <1>5, <1>6

\* A flush saves only what passed the gate.
LEMMA SaveIsGated ==
  ASSUME Types, NEW q \in Hooks, Starts(q) \/ Step(q) \/ Kill(q), hooks'[q].pc = "save"
  PROVE  /\ hooks'[q].of = hooks[q].of /\ hooks[q].of \in Sessions /\ FlushGate(q)
         /\ count[hooks[q].of] # Torn /\ Tally(hooks[q].of) >= Threshold
<1> DEFINE c == hooks[q]
<1>1. c \in HookStates /\ WellFormed(c) /\ hooks \in [Hooks -> HookStates]
  BY DEF Types, TypeOK
<1>2. ~Starts(q)
  BY StartsAt
<1>3. \A pc : Moves(q, pc) => hooks'[q].pc = pc /\ hooks'[q].of = c.of
  BY <1>1 DEF Moves, HookStates
<1>4. ~Exits(q)
  BY <1>1 DEF Exits, Free
<1>5. ~ReadCount(q)
  BY AfterRead DEF Free
<1>6. ~RecoverNext(q)
  <2>1. RecoverNext(q) => hooks'[q].pc \in {"next", "flush"}
    BY <1>1 DEF RecoverNext, HookStates
  <2> QED
    BY <2>1
<1>7. ~RemoveFiles(q)
  BY AfterRemove
<1>8. ~FlushStaged(q)
  BY AfterFlushStaged
<1>9. ~FlushFiles(q) /\ ~ListStaged(q)
  <2>1. ~FlushFiles(q)
    BY <1>1 DEF FlushFiles, HookStates
  <2>2. ~ListStaged(q)
    BY <1>1 DEF ListStaged, HookStates
  <2> QED
    BY <2>1, <2>2
<1>10. ~FlushSave(q)
  BY <1>1, <1>3 DEF FlushSave, HookStates
<1>11. FlushGate(q)
  BY <1>2, <1>3, <1>4, <1>5, <1>6, <1>7, <1>8, <1>9, <1>10
     DEF Step, TruncateCount, WriteCount, AppendFiles, TruncateStaged, StageSummary, DecideStop,
         EmitStopBlock, OpenStore, RecoverDone, RemoveStaged, RemoveCount, Kill
<1>12. c.of \in Sessions
  BY <1>1, <1>11 DEF FlushGate, WellFormed, HookStates, Ops, Clearing, Free
<1> QED
  BY <1>3, <1>11, <1>12 DEF FlushGate, PassesIntake

\* Every step keeps the tally behind the edits and the store behind the gate.
LEMMA EarnedStep ==
  ASSUME Types, EarnedInv, scene' = scene, Next
  PROVE  EarnedInv'
<1>1. CASE \E s \in Sessions : Crash(s) \/ Age(s)
  <2>1. UNCHANGED <<count, hooks, edits, stored>>
    BY <1>1 DEF Crash, Age, sentinels, store, history
  <2> QED
    BY <2>1 DEF EarnedInv, TallyIsBehind, Untallied
<1>2. CASE \E q \in Hooks : Starts(q) \/ Step(q) \/ Kill(q)
  <2>1. PICK q \in Hooks : Starts(q) \/ Step(q) \/ Kill(q)
    BY <1>2
  <2>2. \A s \in Sessions : TallyIsBehind(s)'
    BY <2>1, TallyStarts, TallyStep
  <2>3. edits \in [Sessions -> Nat] /\ Threshold \in Nat
    BY Bounds DEF Types, TypeOK
  <2>4. \A s \in Sessions : edits'[s] \in Nat /\ edits'[s] >= edits[s]
    <3>1. Starts(q) =>
            UNCHANGED edits \/ \E s \in Sessions : edits' = [edits EXCEPT ![s] = @ + 1]
      BY DEF Starts, Edit, Look, Stage, Stop, End, SessionStart, history
    <3>2. Step(q) \/ Kill(q) => UNCHANGED edits
      BY StepKeepsEdits
    <3> QED
      BY <2>1, <2>3, <3>1, <3>2
  <2>5. ASSUME NEW r \in Hooks, hooks'[r].pc = "save" PROVE edits'[hooks'[r].of] >= Threshold
    <3>1. CASE r # q
      <4>1. hooks'[r] = hooks[r]
        BY <2>1, <3>1, OthersStay
      <4>2. hooks[r].of \in Sessions
        BY <2>5, <4>1 DEF Types, TypeOK, WellFormed, HookStates, Ops, Clearing, Free
      <4> QED
        BY <2>3, <2>4, <2>5, <4>1, <4>2 DEF EarnedInv
    <3>2. CASE r = q
      <4> DEFINE s == hooks[q].of
      <4>1. /\ hooks'[q].of = s /\ s \in Sessions /\ FlushGate(q)
            /\ count[s] # Torn /\ Tally(s) >= Threshold
        BY <2>1, <2>5, <3>2, SaveIsGated
      <4>2. TallyIsBehind(s)
        BY <4>1 DEF EarnedInv
      <4>3. Cardinality(Untallied(s)) \in Nat
        BY <4>2, FS_CardinalityType DEF TallyIsBehind
      <4>4. count[s] \in Nat \ {0}
        <5>1. count[s] # Absent
          BY <2>3, <4>1, Bounds DEF Tally, Types
        <5>2. count[s] \in 0 .. scene.edits /\ scene.edits \in Nat
          BY <4>1, <5>1, Bounds DEF Types, TypeOK
        <5> QED
          BY <2>3, <4>1, <5>1, <5>2, Bounds DEF Tally, Types
      <4>5. edits[s] >= Threshold
        <5>1. count[s] # Absent
          BY <2>3, <4>1, Bounds DEF Tally, Types
        <5>2. count[s] + Cardinality(Untallied(s)) <= edits[s] /\ Tally(s) = count[s]
          BY <4>1, <4>2, <5>1 DEF TallyIsBehind, Tally
        <5>3. edits[s] \in Nat
          BY <2>3, <4>1
        <5> QED
          BY <2>3, <4>1, <4>3, <4>4, <5>2, <5>3
      <4> QED
        BY <2>3, <2>4, <3>2, <4>1, <4>5
    <3> QED
      BY <3>1, <3>2
  <2>6. ASSUME NEW m \in stored' PROVE edits'[m[1]] >= Threshold
    <3>1. m \in stored \/ (hooks[q].pc = "save" /\ m[1] = hooks[q].of)
      <4>1. FlushSave(q) => hooks[q].pc = "save" /\
              (UNCHANGED stored \/ stored' = stored \cup {<<hooks[q].of, hooks[q].sum.text>>})
        BY DEF FlushSave, store
      <4>2. ~FlushSave(q) => UNCHANGED stored
        BY <2>1 DEF Starts, Edit, Look, Stage, Stop, End, SessionStart, Step, ReadCount, TruncateCount,
           WriteCount, AppendFiles, TruncateStaged, StageSummary, DecideStop, EmitStopBlock, OpenStore,
           ListStaged, RecoverNext, RecoverDone, FlushStaged, FlushFiles, FlushGate,
           RemoveStaged, RemoveCount, RemoveFiles, Kill, store
      <4> QED
        BY <2>6, <4>1, <4>2
    <3>2. hooks[q].pc = "save" => hooks[q].of \in Sessions
      BY DEF Types, TypeOK, WellFormed, HookStates, Ops, Clearing, Free
    <3>3. m \in stored => m[1] \in Sessions
      BY DEF Types, TypeOK
    <3> QED
      BY <2>3, <2>4, <3>1, <3>2, <3>3 DEF EarnedInv
  <2> QED
    BY <2>2, <2>5, <2>6 DEF EarnedInv
<1> QED
  BY <1>1, <1>2, NextCases

\* At the start nothing was edited, tallied or stored.
LEMMA EarnedInit ==
  ASSUME Init
  PROVE  Types /\ EarnedInv
<1>1. scene.edits \in Nat /\ scene.stages \in Nat
  BY Bounds DEF Init
<1>2. Types
  <2>1. Free \in HookStates /\ WellFormed(Free)
    BY <1>1 DEF Free, HookStates, WellFormed, Ops, Places, Clearing
  <2>2. 0 \in 0 .. scene.edits /\ 0 \in 0 .. scene.stages
    BY <1>1
  <2>3. hooks \in [Hooks -> HookStates] /\ \A q \in Hooks : WellFormed(hooks[q])
    BY <2>1 DEF Init
  <2> QED
    BY <2>2, <2>3 DEF Init, Types, TypeOK
<1>3. \A s \in Sessions : Untallied(s) = {}
  BY DEF Init, Untallied, Free
<1>4. \A q \in Hooks : hooks[q].pc = "free"
  BY DEF Init, Free
<1>5. \A s \in Sessions : TallyIsBehind(s)
  BY <1>3, <1>4, FS_EmptySet DEF Init, TallyIsBehind
<1>6. EarnedInv
  BY <1>4, <1>5 DEF Init, EarnedInv
<1> QED
  BY <1>2, <1>6

\* A stuttering step changes nothing.
LEMMA EarnedStutter ==
  ASSUME Types, EarnedInv, UNCHANGED vars
  PROVE  Types' /\ EarnedInv'
<1>1. Summary' = Summary /\ HookStates' = HookStates
  BY DEF vars, rest, sentinels, store, history, Summary, HookStates
<1>2. Types'
  BY <1>1 DEF vars, rest, sentinels, store, history, Types, TypeOK, WellFormed
<1>3. EarnedInv'
  BY DEF vars, rest, sentinels, store, history, EarnedInv, TallyIsBehind, Untallied
<1> QED
  BY <1>2, <1>3

\* Every hook is where its kind may be and every file holds what it may hold.
THEOREM TypesHold == Spec => [](Types /\ EarnedInv)
<1>1. Init => Types /\ EarnedInv
  BY EarnedInit
<1>2. Types /\ EarnedInv /\ [Next /\ UNCHANGED scene]_vars => (Types /\ EarnedInv)'
  BY TypesStep, EarnedStep, EarnedStutter
<1> QED
  BY <1>1, <1>2, PTL DEF Spec

\* A summary reaches the store only from a session of at least Threshold edits: no
\* overlap of unlocked hooks makes the tally run ahead of the edits.
THEOREM StoredHolds == Spec => []StoredIsEarned
<1>1. Types /\ EarnedInv => StoredIsEarned
  BY DEF Types, EarnedInv, StoredIsEarned
<1> QED
  BY <1>1, TypesHold, PTL

-----------------------------------------------------------------------------
(* A live session keeps its summary.                                       *)

\* Where a hook goes from here: out, on for its session, or, while it recovers, to the
\* next session of its list and back.
LEMMA HookMoves ==
  ASSUME Types, NEW q \in Hooks, Step(q) \/ Kill(q)
  PROVE  \/ hooks'[q] = Free
         \/ /\ hooks'[q].op = hooks[q].op /\ hooks'[q].of = hooks[q].of
            /\ hooks'[q].pc \in Clearing => hooks[q].pc \in Clearing \cup {"openstore"}
         \/ /\ RecoverNext(q) /\ hooks[q].of = NoSession /\ hooks'[q].op = "recover"
            /\ hooks'[q].pc = "flush" /\ hooks'[q].of \in Sessions /\ idle[hooks'[q].of]
            /\ hooks'[q].saved = hooks[q].saved
         \/ /\ RemoveFiles(q) /\ hooks'[q].op = "recover" /\ hooks'[q].of = NoSession
            /\ hooks'[q].pc = "next" /\ ~hooks'[q].saved
<1> DEFINE c == hooks[q]
           Same == /\ hooks'[q].op = c.op /\ hooks'[q].of = c.of
                   /\ hooks'[q].pc \in Clearing => c.pc \in Clearing \cup {"openstore"}
<1>1. c \in HookStates /\ WellFormed(c) /\ hooks \in [Hooks -> HookStates]
  BY DEF Types, TypeOK
<1>2. \A pc : Moves(q, pc) => hooks'[q].pc = pc /\ hooks'[q].op = c.op /\ hooks'[q].of = c.of
  BY <1>1 DEF Moves, HookStates
<1>3. Exits(q) => hooks'[q] = Free
  BY <1>1 DEF Exits
<1>4. CASE ReadCount(q)
  BY <1>4, AfterRead DEF Clearing
<1>5. CASE \/ TruncateCount(q) \/ WriteCount(q) \/ TruncateStaged(q)
  BY <1>2, <1>5 DEF TruncateCount, WriteCount, TruncateStaged, Clearing
<1>6. CASE \/ AppendFiles(q) \/ StageSummary(q) \/ EmitStopBlock(q) \/ RecoverDone(q) \/ Kill(q)
  BY <1>3, <1>6 DEF AppendFiles, StageSummary, EmitStopBlock, RecoverDone, Kill
<1>7. CASE DecideStop(q) \/ OpenStore(q)
  BY <1>2, <1>3, <1>7 DEF DecideStop, OpenStore, Clearing
<1>8. CASE ListStaged(q)
  BY <1>1, <1>8 DEF ListStaged, HookStates, Clearing
<1>9. CASE RecoverNext(q)
  <2>1. PICK s \in c.todo :
          hooks' = [hooks EXCEPT ![q] =
                     IF staged[s] # Absent /\ idle[s]
                     THEN [c EXCEPT !.todo = c.todo \ {s}, !.of = s, !.pc = "flush"]
                     ELSE [c EXCEPT !.todo = c.todo \ {s}]]
    BY <1>9 DEF RecoverNext
  <2>2. c.op = "recover" /\ c.of = NoSession /\ c.pc = "next" /\ s \in Sessions
    BY <1>1, <1>9 DEF RecoverNext, HookStates, WellFormed, Places, Ops, Clearing, Free
  <2>3. CASE staged[s] # Absent /\ idle[s]
    BY <1>1, <1>9, <2>1, <2>2, <2>3 DEF HookStates
  <2>4. CASE ~(staged[s] # Absent /\ idle[s])
    BY <1>1, <2>1, <2>2, <2>4 DEF HookStates, Clearing
  <2> QED
    BY <2>3, <2>4
<1>10. CASE FlushStaged(q)
  BY <1>1, <1>10 DEF FlushStaged, HookStates, Clearing
<1>11. CASE FlushFiles(q)
  BY <1>1, <1>11 DEF FlushFiles, HookStates, Clearing
<1>12. CASE FlushGate(q)
  BY <1>2, <1>12 DEF FlushGate, Clearing
<1>13. CASE FlushSave(q)
  BY <1>1, <1>2, <1>13 DEF FlushSave, HookStates, Clearing
<1>14. CASE RemoveStaged(q) \/ RemoveCount(q)
  BY <1>2, <1>14 DEF RemoveStaged, RemoveCount, Clearing
<1>15. CASE RemoveFiles(q)
  BY <1>1, <1>15 DEF RemoveFiles, Free
<1> QED
  BY <1>4, <1>5, <1>6, <1>7, <1>8, <1>9, <1>10, <1>11, <1>12, <1>13, <1>14, <1>15 DEF Step

\* A hook that starts touches no file; one under way leaves the sessions alone.
LEMMA StartsKeep ==
  ASSUME NEW q \in Hooks, Starts(q)
  PROVE  UNCHANGED <<staged, count, files, idle, stored, prov, editsAtStage>>
BY DEF Starts, Edit, Look, Stage, Stop, End, SessionStart, sentinels, store, history

LEMMA StepKeeps ==
  ASSUME NEW q \in Hooks, Step(q) \/ Kill(q)
  PROVE  /\ UNCHANGED life
         /\ UNCHANGED idle \/ \E r : idle' = [idle EXCEPT ![r] = FALSE]
         /\ UNCHANGED staged \/ RemoveStaged(q) \/ TruncateStaged(q) \/ StageSummary(q)
<1> USE DEF Step, ReadCount, TruncateCount, WriteCount, AppendFiles, TruncateStaged, StageSummary,
            DecideStop, EmitStopBlock, OpenStore, ListStaged, RecoverNext, RecoverDone, FlushStaged,
            FlushFiles, FlushGate, FlushSave, RemoveStaged, RemoveCount, RemoveFiles, Kill, sentinels
<1>1. UNCHANGED life
  OBVIOUS
<1>2. UNCHANGED idle \/ \E r : idle' = [idle EXCEPT ![r] = FALSE]
  OBVIOUS
<1>3. UNCHANGED staged \/ RemoveStaged(q) \/ TruncateStaged(q) \/ StageSummary(q)
  OBVIOUS
<1> QED
  BY <1>1, <1>2, <1>3

\* A session that is over stays over.
LEMMA OverIsOver ==
  ASSUME Types, Next, NEW s \in Sessions
  PROVE  life'[s] = "running" => life[s] = "running"
<1>1. \A r \in Sessions : Crash(r) => life' = [life EXCEPT ![r] = "crashed"]
  BY DEF Crash
<1>2. \A r \in Sessions : Age(r) => UNCHANGED life
  BY DEF Age
<1>3. \A q \in Hooks : Starts(q) =>
        UNCHANGED life \/ \E r \in Sessions : life' = [life EXCEPT ![r] = "ended"]
  <2> TAKE q \in Hooks
  <2>1. \A r, p : Edit(q, r, p) \/ Look(q, r, p) => UNCHANGED life
    BY DEF Edit, Look
  <2>2. \A r, d, i : Stage(q, r, d, i) => UNCHANGED life
    BY DEF Stage
  <2>3. \A r : Stop(q, r) => UNCHANGED life
    BY DEF Stop
  <2>4. \A r : End(q, r) => life' = [life EXCEPT ![r] = "ended"]
    BY DEF End
  <2>5. SessionStart(q) => UNCHANGED life
    BY DEF SessionStart
  <2> QED
    BY <2>1, <2>2, <2>3, <2>4, <2>5 DEF Starts
<1>4. \A q \in Hooks : Step(q) \/ Kill(q) => UNCHANGED life
  BY StepKeeps
<1>5. UNCHANGED life \/ \E r \in Sessions, end \in {"crashed", "ended"} : life' = [life EXCEPT ![r] = end]
  BY <1>1, <1>2, <1>3, <1>4, NextCases
<1>6. s \in DOMAIN life
  BY DEF Types, TypeOK
<1> QED
  BY <1>5, <1>6

\* Only a clearing process, or the writer of a new one, takes a summary off the disk.
LEMMA StagedStep ==
  ASSUME Types, Next, NEW s \in Sessions
  PROVE  \/ staged'[s] = staged[s]
         \/ \E q \in Hooks : /\ RemoveStaged(q) /\ hooks[q].of = s /\ hooks[q].pc = "rmstaged"
                             /\ staged'[s] = Absent
         \/ \E q \in Hooks : /\ TruncateStaged(q) \/ StageSummary(q)
                             /\ hooks[q].of = s /\ hooks[q].op = "stage" /\ staged'[s] # Absent
<1>1. staged \in [Sessions -> Summary \cup {Absent, Torn}]
  BY DEF Types, TypeOK
<1>2. ASSUME NEW q \in Hooks, RemoveStaged(q)
      PROVE  \/ staged'[s] = staged[s]
             \/ hooks[q].of = s /\ hooks[q].pc = "rmstaged" /\ staged'[s] = Absent
  BY <1>1, <1>2 DEF RemoveStaged
<1>3. ASSUME NEW q \in Hooks, TruncateStaged(q)
      PROVE  \/ staged'[s] = staged[s]
             \/ hooks[q].of = s /\ hooks[q].op = "stage" /\ staged'[s] # Absent
  BY <1>1, <1>3, FilesAssumption DEF TruncateStaged
<1>4. ASSUME NEW q \in Hooks, StageSummary(q)
      PROVE  \/ staged'[s] = staged[s]
             \/ hooks[q].of = s /\ hooks[q].op = "stage" /\ staged'[s] # Absent
  <2>1. hooks[q].op = "stage" /\ staged' = [staged EXCEPT ![hooks[q].of] = hooks[q].sum]
    BY <1>4 DEF StageSummary
  <2>2. hooks[q].sum \in Summary
    BY <2>1 DEF Types, WellFormed
  <2>3. Absent \notin Summary
    BY FilesAssumption DEF Types, Summary
  <2> QED
    BY <1>1, <2>1, <2>2, <2>3
<1>5. \/ UNCHANGED staged
      \/ \E q \in Hooks : RemoveStaged(q) \/ TruncateStaged(q) \/ StageSummary(q)
  <2>1. \A r \in Sessions : Crash(r) \/ Age(r) => UNCHANGED staged
    BY DEF Crash, Age, sentinels
  <2> QED
    BY <2>1, NextCases, StartsKeep, StepKeeps
<1> QED
  BY <1>2, <1>3, <1>4, <1>5

\* What is or may be cleared stays that of sessions that are over.
LEMMA OverStep ==
  ASSUME Types, InTime, ClearedAreOver, scene' = scene, Next
  PROVE  ClearedAreOver'
<1>1. ASSUME NEW s \in Sessions, idle'[s] PROVE life'[s] # "running"
  <2>1. idle[s] \/ (life[s] # "running" /\ life'[s] = life[s])
    <3>1. ASSUME NEW r \in Sessions, Age(r)
          PROVE  /\ life[r] # "running" /\ UNCHANGED life
                 /\ idle'[s] => idle[s] \/ r = s
      BY <3>1 DEF Age, InTime, Types, TypeOK
    <3>2. (\A r \in Sessions : ~Age(r)) =>
            UNCHANGED idle \/ \E r : idle' = [idle EXCEPT ![r] = FALSE]
      <4>1. \A r \in Sessions : Crash(r) => UNCHANGED idle
        BY DEF Crash, sentinels
      <4> QED
        BY <4>1, NextCases, StartsKeep, StepKeeps
    <3>3. (\A r \in Sessions : ~Age(r)) => idle[s]
      BY <1>1, <3>2 DEF Types, TypeOK
    <3> QED
      BY <1>1, <3>1, <3>3
  <2> QED
    BY <2>1, OverIsOver DEF ClearedAreOver
<1>2. ASSUME NEW r \in Hooks, hooks'[r].op = "end" \/ hooks'[r].pc \in Clearing
      PROVE  life'[hooks'[r].of] # "running"
  <2>1. ASSUME hooks'[r].of = hooks[r].of, hooks[r].op = "end" \/ hooks[r].pc \in Clearing
        PROVE  life'[hooks'[r].of] # "running"
    <3>1. hooks[r].of \in Sessions
      BY <2>1 DEF Types, TypeOK, WellFormed, HookStates, Ops, Clearing, Free
    <3> QED
      BY <2>1, <3>1, OverIsOver DEF ClearedAreOver
  <2>2. CASE \E s \in Sessions : Crash(s) \/ Age(s)
    <3>1. UNCHANGED hooks
      BY <2>2 DEF Crash, Age
    <3> QED
      BY <1>2, <2>1, <3>1
  <2>3. ASSUME NEW q \in Hooks, Starts(q) \/ Step(q) \/ Kill(q)
        PROVE  life'[hooks'[r].of] # "running"
    <3>1. CASE r # q
      BY <1>2, <2>1, <2>3, <3>1, OthersStay
    <3>2. CASE r = q /\ Starts(q)
      <4>1. PICK s \in Sessions : End(q, s)
        <5>1. hooks'[q].op = "end" /\ hooks'[q].pc = "openstore"
          BY <1>2, <3>2, StartsAt DEF Clearing
        <5>2. hooks \in [Hooks -> HookStates]
          BY DEF Types, TypeOK
        <5>3. \A s, p : ~Edit(q, s, p) /\ ~Look(q, s, p)
          <6> TAKE s, p
          <6>1. Edit(q, s, p) => hooks'[q].op = "change"
            BY <5>2 DEF Edit, Free
          <6>2. Look(q, s, p) => hooks'[q].op = "change"
            BY <5>2 DEF Look, Free
          <6> QED
            BY <5>1, <6>1, <6>2
        <5>4. \A s, d, i : ~Stage(q, s, d, i)
          <6> TAKE s, d, i
          <6> DEFINE m == [text |-> stages[s] + 1, declined |-> d, sid |-> i, at |-> 0]
          <6>1. Stage(q, s, d, i) => hooks' = [hooks EXCEPT ![q] =
                  [Free EXCEPT !.op = "stage", !.of = s, !.pc = "readcount", !.sum = m]]
            BY DEF Stage
          <6> HIDE DEF m
          <6>2. Stage(q, s, d, i) => hooks'[q].op = "stage"
            BY <5>2, <6>1 DEF Free
          <6> QED
            BY <5>1, <6>2
        <5>5. \A s : ~Stop(q, s)
          BY <5>1, <5>2 DEF Stop, Spawn, Free
        <5>6. ~SessionStart(q)
          BY <5>1, <5>2 DEF SessionStart, Free
        <5> QED
          BY <3>2, <5>3, <5>4, <5>5, <5>6 DEF Starts
      <4>2. hooks'[q].of = s /\ life' = [life EXCEPT ![s] = "ended"]
        BY <4>1 DEF End, Spawn, Free, Types, TypeOK
      <4> QED
        BY <3>2, <4>2 DEF Types, TypeOK
    <3>3. CASE r = q /\ (Step(q) \/ Kill(q))
      <4>1. CASE hooks'[q] = Free
        BY <1>2, <3>3, <4>1 DEF Free, Clearing
      <4>2. CASE /\ hooks'[q].op = hooks[q].op /\ hooks'[q].of = hooks[q].of
                 /\ hooks'[q].pc \in Clearing => hooks[q].pc \in Clearing \cup {"openstore"}
        <5>1. hooks[q].pc = "openstore" => hooks[q].op = "end"
          BY DEF Types, TypeOK, WellFormed, HookStates, Ops, Clearing, Free
        <5> QED
          BY <1>2, <2>1, <3>3, <4>2, <5>1
      <4>3. CASE hooks'[q].of \in Sessions /\ idle[hooks'[q].of]
        BY <3>3, <4>3, OverIsOver DEF ClearedAreOver
      <4>4. CASE hooks'[q].op = "recover" /\ hooks'[q].pc = "next"
        BY <1>2, <3>3, <4>4 DEF Clearing
      <4> QED
        BY <3>3, <4>1, <4>2, <4>3, <4>4, HookMoves
    <3> QED
      BY <2>3, <3>1, <3>2, <3>3
  <2> QED
    BY <2>2, <2>3, NextCases
<1> QED
  BY <1>1, <1>2 DEF ClearedAreOver

\* Where no session leaves its summary alone for as long as the cutoff, a clearing
\* process clears only after sessions that are over.
LEMMA OverHolds == Spec /\ InTime => [](InTime /\ ClearedAreOver)
<1>1. Init => ClearedAreOver
  BY DEF Init, ClearedAreOver, Free, Clearing
<1>2. InTime /\ ClearedAreOver /\ Types /\ [Next /\ UNCHANGED scene]_vars
      => (InTime /\ ClearedAreOver)'
  <2>1. CASE Next /\ UNCHANGED scene
    BY <2>1, OverStep DEF InTime
  <2>2. CASE UNCHANGED vars
    BY <2>2 DEF InTime, ClearedAreOver, vars, rest, sentinels
  <2> QED
    BY <2>1, <2>2
<1> QED
  BY <1>1, <1>2, TypesHold, PTL DEF Spec

\* A running session's summary is not taken by the recovery of another, nor by a flush.
THEOREM ShieldHolds == Spec /\ InTime => LiveSessionIsShielded
<1>1. Types /\ ClearedAreOver /\ [Next /\ UNCHANGED scene]_vars => [KeepsLive]_vars
  <2> SUFFICES ASSUME Types, ClearedAreOver, Next PROVE KeepsLive
    OBVIOUS
  <2> SUFFICES ASSUME NEW s \in Sessions, life[s] = "running", staged[s] # Absent
               PROVE  staged'[s] # Absent
    BY DEF KeepsLive
  <2>1. \A q \in Hooks : ~(hooks[q].of = s /\ hooks[q].pc = "rmstaged")
    BY DEF ClearedAreOver, Clearing
  <2> QED
    BY <2>1, StagedStep
<1> QED
  BY <1>1, TypesHold, OverHolds, PTL DEF Spec, LiveSessionIsShielded

-----------------------------------------------------------------------------
(* A stage silences the Stop gate.                                         *)

\* Where the hooks of a session take turns, one starts for a running session that has none.
LEMMA StartsAlone ==
  ASSUME Types, ~scene.parallel, NEW q \in Hooks, Starts(q), hooks'[q].of \in Sessions
  PROVE  ~Busy(hooks'[q].of) /\ life[hooks'[q].of] = "running"
<1>1. hooks \in [Hooks -> HookStates]
  BY DEF Types, TypeOK
<1>2. ASSUME NEW r \in Sessions, NEW p \in Paths, Edit(q, r, p) \/ Look(q, r, p)
      PROVE  hooks'[q].of = r /\ ~Busy(r) /\ life[r] = "running"
  BY <1>1, <1>2 DEF Edit, Look, Free
<1>3. ASSUME NEW r \in Sessions, NEW declined, NEW sid, Stage(q, r, declined, sid)
      PROVE  hooks'[q].of = r /\ ~Busy(r) /\ life[r] = "running"
  BY <1>1, <1>3 DEF Stage, Free
<1>4. ASSUME NEW r \in Sessions, Stop(q, r) \/ End(q, r)
      PROVE  hooks'[q].of = r /\ ~Busy(r) /\ life[r] = "running"
  BY <1>1, <1>4 DEF Stop, End, Spawn, Free
<1>5. ~SessionStart(q)
  BY <1>1, StagingAssumption DEF SessionStart, Free
<1>6. CASE \E r \in Sessions, p \in Paths : Edit(q, r, p) \/ Look(q, r, p)
  BY <1>2, <1>6
<1>7. CASE \E r \in Sessions, declined, sid \in BOOLEAN : Stage(q, r, declined, sid)
  BY <1>3, <1>7
<1>8. CASE \E r \in Sessions : Stop(q, r) \/ End(q, r)
  BY <1>4, <1>8
<1> QED
  BY <1>5, <1>6, <1>7, <1>8 DEF Starts

\* A hook that starts, one on its way and one that recovers: who works for whom next.
LEMMA WhoWorks ==
  ASSUME Types, NEW q \in Hooks, Step(q) \/ Kill(q), NEW s \in Sessions
  PROVE  /\ Works(q, s)' => Works(q, s)
         /\ hooks'[q].of = s => hooks[q].of = s \/ (RecoverNext(q) /\ idle[s] /\ hooks'[q].op = "recover")
<1>1. s # NoSession
  BY StagingAssumption
<1>2. CASE hooks'[q] = Free
  BY <1>1, <1>2 DEF Free, Works
<1>3. CASE hooks'[q].op = hooks[q].op /\ hooks'[q].of = hooks[q].of
  BY <1>3 DEF Works
<1>4. CASE RecoverNext(q) /\ hooks'[q].op = "recover" /\ idle[hooks'[q].of]
  BY <1>4 DEF Works
<1>5. CASE hooks'[q].of = NoSession
  BY <1>1, <1>5 DEF Works
<1> QED
  BY <1>2, <1>3, <1>4, <1>5, HookMoves

\* Hooks that take turns keep taking turns, and out of the way of recovery.
LEMMA AloneStep ==
  ASSUME Types, InTurn, ClearedAreOver, WorksAlone, Next
  PROVE  WorksAlone'
<1>1. CASE \E s \in Sessions : Crash(s) \/ Age(s)
  <2>1. UNCHANGED hooks
    BY <1>1 DEF Crash, Age
  <2>2. ASSUME NEW s \in Sessions, idle'[s] PROVE idle[s] \/ ~Busy(s)
    BY <1>1, <2>2 DEF Crash, Age, Types, TypeOK, sentinels
  <2> QED
    BY <2>1, <2>2 DEF WorksAlone, Works, Busy
<1>2. ASSUME NEW q0 \in Hooks, Starts(q0) PROVE WorksAlone'
  <2>1. UNCHANGED idle
    BY <1>2, StartsKeep
  <2>2. \A r \in Hooks \ {q0} : hooks'[r] = hooks[r]
    BY <1>2, OthersStay
  <2>3. hooks'[q0].of \in Sessions => ~Busy(hooks'[q0].of) /\ life[hooks'[q0].of] = "running"
    BY <1>2, StartsAlone DEF InTurn
  <2>4. ASSUME NEW s \in Sessions, NEW q \in Hooks, NEW r \in Hooks,
               Works(q, s)', hooks'[r].of = s
        PROVE  r = q
    BY <2>2, <2>3, <2>4 DEF WorksAlone, Works, Busy
  <2>5. ASSUME NEW s \in Sessions, NEW q \in Hooks, idle'[s], Works(q, s)' PROVE FALSE
    BY <2>1, <2>2, <2>3, <2>5 DEF WorksAlone, Works, ClearedAreOver
  <2> QED
    BY <2>4, <2>5 DEF WorksAlone
<1>3. ASSUME NEW q0 \in Hooks, Step(q0) \/ Kill(q0) PROVE WorksAlone'
  <2>1. \A s \in Sessions : idle'[s] => idle[s]
    BY <1>3, StepKeeps DEF Types, TypeOK
  <2>2. \A r \in Hooks \ {q0} : hooks'[r] = hooks[r]
    BY <1>3, OthersStay
  <2>3. \A s \in Sessions : Works(q0, s)' => Works(q0, s)
    BY <1>3, WhoWorks
  <2>4. \A s \in Sessions, q \in Hooks : Works(q, s)' => Works(q, s)
    BY <2>2, <2>3 DEF Works
  <2>5. ASSUME NEW s \in Sessions, NEW q \in Hooks, NEW r \in Hooks,
               Works(q, s)', hooks'[r].of = s
        PROVE  r = q
    <3>1. hooks[r].of = s \/ idle[s]
      BY <1>3, <2>2, <2>5, WhoWorks
    <3> QED
      BY <2>4, <2>5, <3>1 DEF WorksAlone
  <2> QED
    BY <2>1, <2>4, <2>5 DEF WorksAlone
<1> QED
  BY <1>1, <1>2, <1>3, NextCases

\* What the files and the history of a session hold.
LEMMA SessionTypes ==
  ASSUME Types, NEW s \in Sessions
  PROVE  /\ edits[s] \in Int /\ editsAtStage[s] \in Int
         /\ IsSummary(staged[s]) => staged[s].at \in Int
         /\ count[s] # Torn => Tally(s) \in Int
         /\ \A q \in Hooks : hooks[q].n \in Int
<1>1. scene.edits \in Nat
  BY Bounds DEF Types
<1>2. edits[s] \in Int /\ editsAtStage[s] \in Int
  BY <1>1 DEF Types, TypeOK
<1>3. IsSummary(staged[s]) => staged[s].at \in Int
  <2>1. staged[s] \in Summary \cup {Absent, Torn}
    BY DEF Types, TypeOK
  <2> QED
    BY <1>1, <2>1 DEF IsSummary, Summary, Summaries
<1>4. count[s] # Torn => Tally(s) \in Int
  BY <1>1 DEF Types, TypeOK, Tally
<1>5. \A q \in Hooks : hooks[q].n \in Int
  BY <1>1 DEF Types, TypeOK, HookStates
<1> QED
  BY <1>2, <1>3, <1>4, <1>5

\* Only an edit is a change to be tallied.
LEMMA EditCounts ==
  ASSUME Types, NEW q \in Hooks, Starts(q), hooks'[q].op = "change", hooks'[q].pc = "readcount"
  PROVE  edits'[hooks'[q].of] = edits[hooks'[q].of] + 1
<1>1. hooks \in [Hooks -> HookStates] /\ edits \in [Sessions -> 0 .. scene.edits]
  BY DEF Types, TypeOK
<1>2. ASSUME NEW r \in Sessions, NEW p \in Paths, Edit(q, r, p)
      PROVE  edits'[hooks'[q].of] = edits[hooks'[q].of] + 1
  BY <1>1, <1>2 DEF Edit, Free
<1>3. \A r, p : ~Look(q, r, p)
  BY <1>1 DEF Look, Free
<1>4. ASSUME NEW r, NEW d, NEW i, Stage(q, r, d, i) PROVE hooks'[q].op = "stage"
  BY <1>1, <1>4 DEF Stage, Free
<1>5. \A r : ~Stop(q, r) /\ ~End(q, r)
  BY <1>1 DEF Stop, End, Spawn, Free
<1>6. ~SessionStart(q)
  BY <1>1 DEF SessionStart, Free
<1> QED
  BY <1>2, <1>3, <1>4, <1>5, <1>6 DEF Starts

\* A hook touches the files of its own session only.
LEMMA ElsewhereStays ==
  ASSUME Types, NEW q \in Hooks, Step(q) \/ Kill(q), NEW s \in Sessions, hooks[q].of # s
  PROVE  UNCHANGED <<staged[s], count[s], files[s], editsAtStage[s]>>
<1>1. /\ staged \in [Sessions -> Summary \cup {Absent, Torn}]
      /\ count \in [Sessions -> 0 .. scene.edits \cup {Absent, Torn}]
      /\ files \in [Sessions -> SUBSET Paths]
      /\ editsAtStage \in [Sessions -> 0 .. scene.edits]
  BY DEF Types, TypeOK
<1>2. CASE ReadCount(q) \/ TruncateCount(q) \/ WriteCount(q) \/ AppendFiles(q) \/ TruncateStaged(q)
  BY <1>1, <1>2 DEF ReadCount, TruncateCount, WriteCount, AppendFiles, TruncateStaged, sentinels, history
<1>3. CASE StageSummary(q) \/ DecideStop(q) \/ EmitStopBlock(q) \/ OpenStore(q) \/ ListStaged(q)
  BY <1>1, <1>3 DEF StageSummary, DecideStop, EmitStopBlock, OpenStore, ListStaged, sentinels, history
<1>4. CASE RecoverNext(q) \/ RecoverDone(q) \/ FlushStaged(q) \/ FlushFiles(q) \/ FlushGate(q)
           \/ FlushSave(q)
  BY <1>4 DEF RecoverNext, RecoverDone, FlushStaged, FlushFiles, FlushGate, FlushSave, sentinels, history
<1>5. CASE RemoveStaged(q) \/ RemoveCount(q) \/ RemoveFiles(q) \/ Kill(q)
  BY <1>1, <1>5 DEF RemoveStaged, RemoveCount, RemoveFiles, Kill, sentinels, history
<1> QED
  BY <1>2, <1>3, <1>4, <1>5 DEF Step

\* What the one hook that works for a session does to what is known of it.
LEMMA WorkStep ==
  ASSUME Types, Types', GateInv, NEW s \in Sessions, NEW q \in Hooks, Works(q, s),
         Step(q) \/ Kill(q)
  PROVE  GateIsOpen(s)' /\ (Works(q, s)' => Knows(q, s)')
<1> DEFINE c == hooks[q]
<1>1. /\ c.of = s /\ c.op \in {"change", "stage", "stop"}
      /\ Knows(q, s) /\ (count[s] # Torn => Fresher(s, Tally(s)))
  BY DEF Works, GateInv, GateIsOpen
<1>2. /\ edits[s] \in Int /\ editsAtStage[s] \in Int
      /\ IsSummary(staged[s]) => staged[s].at \in Int
      /\ count[s] # Torn => Tally(s) \in Int
      /\ c.n \in Int
  BY SessionTypes
<1>3. /\ c \in HookStates /\ WellFormed(c) /\ hooks \in [Hooks -> HookStates]
      /\ staged \in [Sessions -> Summary \cup {Absent, Torn}]
      /\ count \in [Sessions -> 0 .. scene.edits \cup {Absent, Torn}]
      /\ editsAtStage \in [Sessions -> 0 .. scene.edits]
  BY DEF Types, TypeOK
<1>4. UNCHANGED edits
  BY StepKeepsEdits
<1>5. \A pc : Moves(q, pc) => /\ hooks'[q].pc = pc /\ hooks'[q].op = c.op /\ hooks'[q].of = s
                              /\ hooks'[q].n = c.n /\ hooks'[q].sum = c.sum
  BY <1>1, <1>3 DEF Moves, HookStates
<1>6. Exits(q) => ~Works(q, s)'
  BY <1>3 DEF Exits, Free, Works
<1> DEFINE Files == UNCHANGED <<staged, count, editsAtStage>>
<1>7. CASE ReadCount(q)
  <2>1. Files
    BY <1>7 DEF ReadCount, sentinels, history
  <2>2. GateIsOpen(s)'
    BY <1>1, <1>4, <2>1 DEF GateIsOpen, Fresher, Tally
  <2>3. ASSUME Works(q, s)' PROVE Knows(q, s)'
    <3>1. CASE c.op = "change"
      <4>1. Fresher(s, Tally(s) + 1) \/ count[s] = Torn
        BY <1>1, <1>7, <3>1 DEF Knows, ReadCount
      <4>2. /\ hooks'[q].op = "change"
            /\ hooks'[q].pc = "append" \/ (/\ hooks'[q].pc = "trunc" /\ count[s] # Torn
                                          /\ hooks'[q].n = Tally(s) + 1)
        BY <1>1, <1>7, <3>1, AfterRead
      <4> QED
        BY <1>4, <2>1, <4>1, <4>2 DEF Knows, Fresher
    <3>2. CASE c.op = "stage"
      <4>1. /\ hooks'[q].op = "stage" /\ hooks'[q].n = edits[s]
            /\ count[s] # Torn => hooks'[q].sum.at = Tally(s)
        BY <1>1, <1>7, <3>2, AfterRead
      <4> QED
        BY <1>4, <2>1, <4>1 DEF Knows, Tally
    <3>3. CASE c.op = "stop"
      <4>1. /\ hooks'[q].op = "stop" /\ hooks'[q].pc = "readstaged" /\ hooks'[q].n = Tally(s)
            /\ count[s] # Torn
        BY <1>1, <1>7, <2>3, <3>3, AfterRead DEF Works, Free
      <4> QED
        BY <1>1, <1>4, <2>1, <4>1 DEF Knows, Fresher
    <3> QED
      BY <1>1, <3>1, <3>2, <3>3
  <2> QED
    BY <2>2, <2>3
<1>8. CASE TruncateCount(q)
  <2>1. /\ c.op = "change" /\ c.pc = "trunc" /\ count'[s] = Torn
        /\ UNCHANGED <<staged, editsAtStage>> /\ Moves(q, "write")
    BY <1>1, <1>3, <1>8 DEF TruncateCount, history
  <2>2. Fresher(s, c.n)
    BY <1>1, <2>1 DEF Knows
  <2> QED
    BY <1>4, <1>5, <2>1, <2>2 DEF GateIsOpen, Knows, Fresher
<1>9. CASE WriteCount(q)
  <2>1. /\ c.op = "change" /\ c.pc = "write" /\ count'[s] = c.n
        /\ UNCHANGED <<staged, editsAtStage>> /\ Moves(q, "append")
    BY <1>1, <1>3, <1>9 DEF WriteCount, history
  <2>2. Fresher(s, c.n)
    BY <1>1, <2>1 DEF Knows
  <2>3. Tally(s)' = c.n
    <3>1. c.n \in Nat
      BY <1>3, Bounds DEF Types, HookStates
    <3> QED
      BY <2>1, <3>1, FilesAssumption DEF Tally
  <2> QED
    BY <1>4, <1>5, <2>1, <2>2, <2>3 DEF GateIsOpen, Knows, Fresher
<1>10. CASE AppendFiles(q) \/ EmitStopBlock(q) \/ Kill(q)
  <2>1. Files /\ Exits(q)
    BY <1>10 DEF AppendFiles, EmitStopBlock, Kill, sentinels, history
  <2> QED
    BY <1>1, <1>4, <1>6, <2>1 DEF GateIsOpen, Fresher, Tally
<1>11. CASE TruncateStaged(q)
  <2>1. /\ c.op = "stage" /\ c.pc = "trunc" /\ staged'[s] = Torn
        /\ UNCHANGED <<count, editsAtStage>> /\ Moves(q, "write")
    BY <1>1, <1>3, <1>11 DEF TruncateStaged, history
  <2>2. Torn # Absent
    BY FilesAssumption
  <2>3. c.n = edits[s] /\ (count[s] # Torn => c.sum.at = Tally(s))
    BY <1>1, <2>1 DEF Knows
  <2> QED
    BY <1>4, <1>5, <2>1, <2>2, <2>3 DEF GateIsOpen, Knows, Fresher, IsSummary, Tally
<1>12. CASE StageSummary(q)
  <2>1. /\ c.op = "stage" /\ c.pc = "write" /\ staged'[s] = c.sum /\ editsAtStage'[s] = c.n
        /\ UNCHANGED count /\ Exits(q)
    BY <1>1, <1>3, <1>12 DEF StageSummary
  <2>2. c.n = edits[s] /\ (count[s] # Torn => c.sum.at = Tally(s))
    BY <1>1, <2>1 DEF Knows
  <2>3. c.sum \in Summary
    BY <1>3, <2>1 DEF WellFormed
  <2>4. c.sum # Absent
    BY <2>3, FilesAssumption DEF Types, Summary
  <2>5. count[s] # Torn => Fresher(s, Tally(s))'
    BY <1>2, <1>4, <2>1, <2>2, <2>4 DEF Fresher, Tally
  <2> QED
    BY <1>6, <2>1, <2>5 DEF GateIsOpen
<1>13. CASE DecideStop(q)
  <2>1. /\ c.op = "stop" /\ c.pc = "readstaged" /\ Files
        /\ Exits(q) \/ (NeedsStage(c.n, staged[s]) /\ Moves(q, "block"))
    BY <1>1, <1>13 DEF DecideStop, sentinels, history
  <2>2. Fresher(s, c.n)
    BY <1>1, <2>1 DEF Knows
  <2>3. NeedsStage(c.n, staged[s]) => edits[s] - editsAtStage[s] >= Threshold
    <3>1. Threshold \in Int
      BY StagingAssumption
    <3> QED
      BY <1>2, <2>2, <3>1 DEF NeedsStage, Fresher, IsSummary
  <2>4. GateIsOpen(s)'
    BY <1>1, <1>4, <2>1 DEF GateIsOpen, Fresher, Tally
  <2>5. Works(q, s)' => Knows(q, s)'
    BY <1>4, <1>5, <1>6, <2>1, <2>3 DEF Knows
  <2> QED
    BY <2>4, <2>5
<1>14. c.pc \in {"readcount", "trunc", "write", "append", "readstaged", "block"}
  BY <1>1, <1>3 DEF WellFormed
<1>15. \/ ReadCount(q) \/ TruncateCount(q) \/ WriteCount(q) \/ AppendFiles(q) \/ EmitStopBlock(q)
       \/ Kill(q) \/ TruncateStaged(q) \/ StageSummary(q) \/ DecideStop(q)
  BY <1>14 DEF Step, OpenStore, ListStaged, RecoverNext, RecoverDone, FlushStaged, FlushFiles,
               FlushGate, FlushSave, RemoveStaged, RemoveCount, RemoveFiles
<1> QED
  BY <1>7, <1>8, <1>9, <1>10, <1>11, <1>12, <1>13, <1>15

\* What happens to another session's hooks leaves what is known of s.
LEMMA GateStep ==
  ASSUME Types, Types', InTurn, ClearedAreOver, WorksAlone, GateInv, Next, NEW s \in Sessions
  PROVE  GateIsOpen(s)' /\ \A q \in Hooks : Works(q, s)' => Knows(q, s)'
<1>1. GateIsOpen(s) /\ \A q \in Hooks : Works(q, s) => Knows(q, s)
  BY DEF GateInv
<1>2. life'[s] = "running" => life[s] = "running"
  BY OverIsOver
<1>3. ASSUME UNCHANGED <<staged[s], count[s], editsAtStage[s], edits[s]>>,
             \A q \in Hooks : Works(q, s)' => Works(q, s) /\ hooks'[q] = hooks[q]
      PROVE  GateIsOpen(s)' /\ \A q \in Hooks : Works(q, s)' => Knows(q, s)'
  <2>1. GateIsOpen(s)'
    BY <1>1, <1>2, <1>3 DEF GateIsOpen, Fresher, Tally
  <2>2. ASSUME NEW q \in Hooks, Works(q, s)' PROVE Knows(q, s)'
    <3>1. Knows(q, s) /\ hooks'[q] = hooks[q]
      BY <1>1, <1>3, <2>2
    <3> QED
      BY <1>3, <3>1 DEF Knows, Fresher, Tally
  <2> QED
    BY <2>1, <2>2
<1>4. CASE \E r \in Sessions : Crash(r) \/ Age(r)
  <2>1. UNCHANGED <<staged, count, editsAtStage, edits, hooks>>
    BY <1>4 DEF Crash, Age, sentinels, history
  <2> QED
    BY <1>3, <2>1 DEF Works
<1>5. ASSUME NEW q \in Hooks, Starts(q)
      PROVE  GateIsOpen(s)' /\ \A r \in Hooks : Works(r, s)' => Knows(r, s)'
  <2>1. UNCHANGED <<staged, count, editsAtStage>>
    BY <1>5, StartsKeep
  <2>2. \A r \in Hooks \ {q} : hooks'[r] = hooks[r]
    BY <1>5, OthersStay
  <2>3. \/ UNCHANGED edits
        \/ \E r \in Sessions, p \in Paths :
             Edit(q, r, p) /\ edits' = [edits EXCEPT ![r] = @ + 1] /\ hooks'[q].of = r
    <3>1. ASSUME NEW r \in Sessions, NEW p \in Paths, Edit(q, r, p)
          PROVE  edits' = [edits EXCEPT ![r] = @ + 1] /\ hooks'[q].of = r
      BY <3>1 DEF Edit, Free, Types, TypeOK
    <3>2. (\A r \in Sessions, p \in Paths : ~Edit(q, r, p)) => UNCHANGED edits
      BY <1>5 DEF Starts, Look, Stage, Stop, End, SessionStart, history
    <3> QED
      BY <3>1, <3>2
  <2>4. CASE hooks'[q].of # s
    <3>1. edits'[s] = edits[s]
      BY <2>3, <2>4 DEF Types, TypeOK
    <3>2. \A r \in Hooks : Works(r, s)' => Works(r, s) /\ hooks'[r] = hooks[r]
      BY <2>2, <2>4 DEF Works
    <3> QED
      BY <1>3, <2>1, <3>1, <3>2
  <2>5. CASE hooks'[q].of = s
    <3>1. ~Busy(s) /\ life[s] = "running"
      BY <1>5, <2>5, StartsAlone DEF InTurn
    <3>2. count[s] # Torn => Fresher(s, Tally(s))
      BY <1>1, <3>1 DEF GateIsOpen
    <3>3. \A r \in Hooks : Works(r, s)' => r = q
      BY <2>2, <3>1 DEF Works, Busy
    <3>4. /\ edits[s] \in Int /\ editsAtStage[s] \in Int
          /\ IsSummary(staged[s]) => staged[s].at \in Int
          /\ count[s] # Torn => Tally(s) \in Int
      BY SessionTypes
    <3>5. CASE edits'[s] = edits[s] + 1
      <4>1. count[s] # Torn => Fresher(s, Tally(s))' /\ Fresher(s, Tally(s) + 1)'
        BY <2>1, <3>2, <3>4, <3>5 DEF Fresher, Tally
      <4>2. GateIsOpen(s)'
        BY <2>1, <4>1 DEF GateIsOpen
      <4>3. Knows(q, s)'
        <5>1. hooks'[q].pc \in {"readcount", "append", "openstore", "list"}
          BY <1>5, StartsAt
        <5> QED
          BY <2>1, <4>1, <5>1 DEF Knows
      <4> QED
        BY <3>3, <4>2, <4>3
    <3>6. CASE edits'[s] = edits[s]
      <4>1. GateIsOpen(s)'
        BY <2>1, <3>2, <3>6 DEF GateIsOpen, Fresher, Tally
      <4>2. ASSUME Works(q, s)' PROVE Knows(q, s)'
        <5>1. hooks'[q].pc \in {"readcount", "append", "openstore", "list"}
          BY <1>5, StartsAt
        <5>2. ~(hooks'[q].op = "change" /\ hooks'[q].pc = "readcount")
          BY <1>5, <2>5, <3>4, <3>6, EditCounts
        <5> QED
          BY <5>1, <5>2 DEF Knows
      <4> QED
        BY <3>3, <4>1, <4>2
    <3> QED
      BY <2>3, <2>5, <3>5, <3>6 DEF Types, TypeOK
  <2> QED
    BY <2>4, <2>5
<1>6. ASSUME NEW q \in Hooks, Step(q) \/ Kill(q)
      PROVE  GateIsOpen(s)' /\ \A r \in Hooks : Works(r, s)' => Knows(r, s)'
  <2>1. \A r \in Hooks \ {q} : hooks'[r] = hooks[r]
    BY <1>6, OthersStay
  <2>2. UNCHANGED edits
    BY <1>6, StepKeepsEdits
  <2>3. CASE Works(q, s)
    <3>1. \A r \in Hooks : Works(r, s)' => r = q
      BY <2>1, <2>3 DEF WorksAlone, Works
    <3> QED
      BY <1>6, <2>3, <3>1, WorkStep
  <2>4. CASE hooks[q].of = s /\ ~Works(q, s)
    <3>1. life[s] # "running"
      <4>1. hooks[q] \in HookStates /\ WellFormed(hooks[q]) /\ s # NoSession
        BY StagingAssumption DEF Types, TypeOK
      <4>2. hooks[q].op \in {"end", "recover"}
        BY <2>4, <4>1 DEF Works, WellFormed, HookStates, Ops, Free
      <4>3. hooks[q].op = "end" \/ hooks[q].pc \in Clearing
        BY <2>4, <4>1, <4>2 DEF WellFormed
      <4> QED
        BY <2>4, <4>3 DEF ClearedAreOver
    <3>2. \A r \in Hooks : ~Works(r, s)
      BY <2>4 DEF WorksAlone
    <3>3. \A r \in Hooks : ~Works(r, s)'
      BY <1>6, <2>1, <3>2, WhoWorks DEF Works
    <3> QED
      BY <1>2, <3>1, <3>3 DEF GateIsOpen
  <2>5. CASE hooks[q].of # s
    <3>1. UNCHANGED <<staged[s], count[s], editsAtStage[s]>>
      BY <1>6, <2>5, ElsewhereStays
    <3>2. \A r \in Hooks : Works(r, s)' => Works(r, s) /\ r # q
      BY <1>6, <2>1, <2>5, WhoWorks DEF Works
    <3> QED
      BY <1>3, <2>1, <2>2, <3>1, <3>2
  <2> QED
    BY <2>3, <2>4, <2>5
<1> QED
  BY <1>4, <1>5, <1>6, NextCases

\* Where the hooks of a session take turns and no live summary ages past the cutoff, all
\* that is known of the files of a session holds.
LEMMA TurnHolds == Spec /\ InTurn => [](InTurn /\ WorksAlone /\ GateInv)
<1>1. Init => WorksAlone /\ GateInv
  <2>1. SUFFICES ASSUME Init PROVE WorksAlone /\ GateInv
    OBVIOUS
  <2>2. \A q \in Hooks, s \in Sessions : ~Works(q, s)
    BY <2>1 DEF Init, Free, Works
  <2>3. \A s \in Sessions : Fresher(s, Tally(s))
    BY <2>1 DEF Init, Fresher, Tally, IsSummary
  <2> QED
    BY <2>2, <2>3 DEF WorksAlone, GateInv, GateIsOpen
<1>2. InTurn /\ WorksAlone /\ GateInv /\ ClearedAreOver /\ Types /\ Types'
        /\ [Next /\ UNCHANGED scene]_vars => (InTurn /\ WorksAlone /\ GateInv)'
  <2>1. CASE InTurn /\ WorksAlone /\ GateInv /\ ClearedAreOver /\ Types /\ Types' /\ Next
              /\ UNCHANGED scene
    <3>1. GateInv'
      BY <2>1, GateStep DEF GateInv
    <3> QED
      BY <2>1, <3>1, AloneStep DEF InTurn
  <2>2. CASE UNCHANGED vars
    BY <2>2 DEF InTurn, WorksAlone, Works, GateInv, GateIsOpen, Knows, Fresher, Tally, vars, rest,
                sentinels, history
  <2> QED
    BY <2>1, <2>2
<1>3. InTurn => InTime
  BY DEF InTurn, InTime
<1> QED
  BY <1>1, <1>2, <1>3, TypesHold, OverHolds, PTL DEF Spec

\* A session whose hooks take turns is made to stage again only after Threshold further
\* edits (cmd_session.go:178-179).
THEOREM GateHolds == Spec /\ InTurn => []StageSilencesGate
<1>1. Types /\ GateInv => StageSilencesGate
  <2> SUFFICES ASSUME Types, GateInv, NEW q \in Hooks, hooks[q].pc = "block"
               PROVE  edits[hooks[q].of] - editsAtStage[hooks[q].of] >= Threshold
    BY DEF StageSilencesGate, BlocksOnlyWhenStale
  <2>1. hooks[q].op = "stop" /\ hooks[q].of \in Sessions
    BY DEF Types, TypeOK, WellFormed, HookStates, Ops, Clearing, Free
  <2> QED
    BY <2>1 DEF GateInv, Works, Knows
<1> QED
  BY <1>1, TypesHold, TurnHolds, PTL

-----------------------------------------------------------------------------
(* What is earned is kept.                                                 *)

InOrder == InTurn /\ scene.faults = 0

\* The files of a session that is being cleared: nothing new comes, and what is stored stays.
LEMMA ClearedStay ==
  ASSUME Types, WorksAlone, NEW s \in Sessions, NEW r \in Hooks,
         hooks[r].of = s, hooks[r].pc \in Clearing, NEW q \in Hooks, Step(q) \/ Kill(q)
  PROVE  /\ staged'[s] \in {staged[s], Absent} /\ count'[s] \in {count[s], Absent}
         /\ files'[s] \in {files[s], {}}
         /\ stored \subseteq stored' /\ prov \subseteq prov'
<1>1. ~Works(q, s)
  <2>1. ~Works(r, s)
    BY DEF Types, WellFormed, Works, Clearing
  <2> QED
    BY <2>1 DEF WorksAlone
<1>2. /\ staged \in [Sessions -> Summary \cup {Absent, Torn}]
      /\ count \in [Sessions -> 0 .. scene.edits \cup {Absent, Torn}]
      /\ files \in [Sessions -> SUBSET Paths]
      /\ hooks[q] \in HookStates /\ WellFormed(hooks[q])
  BY DEF Types, TypeOK
<1>3. stored \subseteq stored' /\ prov \subseteq prov'
  <2> USE DEF Step, ReadCount, TruncateCount, WriteCount, AppendFiles, TruncateStaged, StageSummary,
              DecideStop, EmitStopBlock, OpenStore, ListStaged, RecoverNext, RecoverDone, FlushStaged,
              FlushFiles, FlushGate, FlushSave, RemoveStaged, RemoveCount, RemoveFiles, Kill, store
  <2>1. stored \subseteq stored'
    OBVIOUS
  <2>2. prov \subseteq prov'
    OBVIOUS
  <2> QED
    BY <2>1, <2>2
<1>4. CASE hooks[q].of # s
  BY <1>3, <1>4, ElsewhereStays
<1>5. CASE hooks[q].of = s
  <2>1. hooks[q].op \notin {"change", "stage", "stop"} /\ hooks[q].pc # "append"
    <3>1. hooks[q].op \notin {"change", "stage", "stop"}
      BY <1>1, <1>5 DEF Works
    <3> QED
      BY <1>2, <3>1 DEF WellFormed, HookStates, Ops, Clearing, Free
  <2>2. CASE RemoveStaged(q) \/ RemoveCount(q) \/ RemoveFiles(q)
    BY <1>2, <1>3, <1>5, <2>2 DEF RemoveStaged, RemoveCount, RemoveFiles
  <2>3. CASE UNCHANGED sentinels
    BY <1>3, <2>3 DEF sentinels
  <2> QED
    BY <2>1, <2>2, <2>3
       DEF Step, ReadCount, TruncateCount, WriteCount, AppendFiles, TruncateStaged, StageSummary,
           DecideStop, EmitStopBlock, OpenStore, ListStaged, RecoverNext, RecoverDone, FlushStaged,
           FlushFiles, FlushGate, FlushSave, Kill
<1> QED
  BY <1>4, <1>5

\* A spent summary stays spent until it is gone.
LEMMA SpentStays ==
  ASSUME Types, NEW s \in Sessions, staged'[s] = staged[s], count'[s] \in {count[s], Absent},
         stored \subseteq stored', Spent(s)
  PROVE  Spent(s)'
<1>1. Threshold \in Nat \ {0}
  BY StagingAssumption
<1>2. count'[s] = Absent => ~PassesIntake(Tally(s))'
  BY <1>1 DEF PassesIntake, Tally
<1> QED
  BY <1>2 DEF Spent, PassesIntake, Tally

\* A clearing process finds what it knew when another one moves.
LEMMA ClearsStays ==
  ASSUME Types, WorksAlone, NEW s \in Sessions, NEW r \in Hooks,
         hooks[r].of = s, hooks[r].pc \in Clearing, Clears(r, s), hooks'[r] = hooks[r],
         NEW q \in Hooks, Step(q) \/ Kill(q)
  PROVE  Clears(r, s)'
<1>1. /\ staged'[s] \in {staged[s], Absent} /\ count'[s] \in {count[s], Absent}
      /\ files'[s] \in {files[s], {}}
      /\ stored \subseteq stored' /\ prov \subseteq prov'
  BY ClearedStay
<1>2. IsSummary(staged'[s]) => staged'[s] = staged[s]
  BY <1>1 DEF IsSummary
<1>3. Spent(s) /\ IsSummary(staged'[s]) => Spent(s)'
  BY <1>1, <1>2, SpentStays
<1> QED
  BY <1>1, <1>2, <1>3 DEF Clears

\* What a clearing process knows after a step of its own.
LEMMA ClearerStep ==
  ASSUME Types, InOrder, WorksAlone, ClearInv, NEW s \in Sessions, NEW q \in Hooks,
         Step(q) \/ Kill(q), hooks'[q].of = s, hooks'[q].pc \in Clearing
  PROVE  Clears(q, s)' /\ (hooks'[q].saved => hooks'[q].pc \in {"rmstaged", "rmcount", "rmfiles"})
<1> DEFINE c == hooks[q]
<1>1. c \in HookStates /\ WellFormed(c) /\ hooks \in [Hooks -> HookStates]
  BY DEF Types, TypeOK
<1>2. c.saved => c.pc \in {"rmstaged", "rmcount", "rmfiles"}
  BY DEF ClearInv
<1>3. c.of = s /\ c.pc \in Clearing => Clears(q, s)
  BY DEF ClearInv
<1>4. \A pc : Moves(q, pc) => hooks'[q] = [c EXCEPT !.pc = pc]
  BY <1>1 DEF Moves
<1>5. CASE hooks'[q].pc = "flush" /\ ~c.saved /\ hooks'[q].saved = c.saved
  BY <1>5 DEF Clears
<1>6. CASE RecoverNext(q)
  <2>1. c.pc = "next"
    BY <1>6 DEF RecoverNext
  <2>2. ~c.saved
    BY <1>2, <2>1
  <2>3. hooks'[q].saved = c.saved /\ hooks'[q].pc \in {"next", "flush"}
    BY <1>1, <1>6 DEF RecoverNext, HookStates
  <2>4. hooks'[q].pc = "flush"
    BY <2>3 DEF Clearing
  <2> QED
    BY <1>5, <2>2, <2>3, <2>4
<1>7. CASE ~RecoverNext(q)
  <2>1. /\ c.of = s /\ hooks'[q].op = c.op /\ c.pc \in Clearing \cup {"openstore"}
        /\ ~Exits(q) /\ ~RemoveFiles(q)
    <3>1. ~Exits(q)
      BY <1>1 DEF Exits, Free, Clearing
    <3>2. hooks'[q] # Free
      BY DEF Free, Clearing
    <3>3. hooks'[q].pc # "next"
      BY DEF Clearing
    <3>4. /\ hooks'[q].op = c.op /\ hooks'[q].of = c.of
          /\ hooks'[q].pc \in Clearing => c.pc \in Clearing \cup {"openstore"}
      BY <1>7, <3>2, <3>3, HookMoves
    <3>5. RemoveFiles(q) => hooks'[q].pc \in {"free", "next"}
      BY AfterRemove
    <3>6. ~RemoveFiles(q)
      BY <3>5 DEF Clearing
    <3> QED
      BY <3>1, <3>4, <3>6
  <2>2. CASE OpenStore(q)
    <3>1. c.pc = "openstore" /\ hooks'[q] = [c EXCEPT !.pc = "flush"]
      BY <1>4, <2>1, <2>2 DEF OpenStore
    <3>2. hooks'[q].pc = "flush" /\ hooks'[q].saved = c.saved /\ ~c.saved
      BY <1>1, <1>2, <3>1 DEF HookStates
    <3> QED
      BY <1>5, <3>2
  <2>3. CASE FlushStaged(q)
    <3>1. c.pc = "flush" /\ UNCHANGED <<staged, count, files, stored>>
      BY <2>3 DEF FlushStaged, sentinels, store
    <3>2. ~c.saved
      BY <1>2, <3>1
    <3>3. \/ /\ hooks'[q] = [c EXCEPT !.pc = "rmstaged"]
             /\ IsSummary(staged[s]) => staged[s].declined
          \/ hooks'[q] = [c EXCEPT !.pc = "record", !.sum = staged[s]]
      BY <1>1, <2>1, <2>3 DEF FlushStaged, IsSummary
    <3>4. \/ /\ hooks'[q].pc = "rmstaged" /\ ~hooks'[q].saved
             /\ IsSummary(staged[s]) => staged[s].declined
          \/ hooks'[q].pc = "record" /\ hooks'[q].sum = staged[s] /\ ~hooks'[q].saved
      BY <1>1, <3>2, <3>3 DEF HookStates
    <3> QED
      BY <3>1, <3>4 DEF Clears, Spent
  <2>4. CASE FlushFiles(q)
    <3>1. c.pc = "record" /\ UNCHANGED <<staged, count, files, stored>>
      BY <2>4 DEF FlushFiles, sentinels
    <3>2. ~c.saved /\ staged[s] \in {Absent, c.sum}
      BY <1>2, <1>3, <2>1, <3>1 DEF Clears, Clearing
    <3>3. /\ hooks'[q].pc = "gate" /\ hooks'[q].sum = c.sum /\ ~hooks'[q].saved
          /\ hooks'[q].paths = files[s]
      BY <1>1, <2>1, <2>4, <3>2 DEF FlushFiles, HookStates
    <3> QED
      BY <3>1, <3>2, <3>3 DEF Clears
  <2>5. CASE FlushGate(q)
    <3>1. c.pc = "gate" /\ UNCHANGED <<staged, count, files, stored>>
      BY <2>5 DEF FlushGate, sentinels, store
    <3>2. ~c.saved /\ staged[s] \in {Absent, c.sum} /\ files[s] \subseteq c.paths
      BY <1>2, <1>3, <2>1, <3>1 DEF Clears, Clearing
    <3>3. \/ hooks'[q] = [c EXCEPT !.pc = "save"]
          \/ /\ hooks'[q] = [c EXCEPT !.pc = "rmstaged"]
             /\ count[s] = Torn \/ ~PassesIntake(Tally(s))
      BY <1>4, <2>1, <2>5 DEF FlushGate
    <3>4. /\ hooks'[q].sum = c.sum /\ ~hooks'[q].saved /\ hooks'[q].paths = c.paths
          /\ \/ hooks'[q].pc = "save"
             \/ hooks'[q].pc = "rmstaged" /\ (count[s] = Torn \/ ~PassesIntake(Tally(s)))
      BY <1>1, <3>2, <3>3 DEF HookStates
    <3> QED
      BY <3>1, <3>2, <3>4 DEF Clears, Spent, PassesIntake, Tally
  <2>6. CASE FlushSave(q)
    <3>1. c.pc = "save" /\ UNCHANGED <<staged, count, files>>
      BY <2>6 DEF FlushSave, sentinels
    <3>2. staged[s] \in {Absent, c.sum} /\ files[s] \subseteq c.paths
      BY <1>3, <2>1, <3>1 DEF Clears, Clearing
    <3>3. ~(faults < scene.faults)
      BY DEF ClearInv, InOrder
    <3>4. /\ <<s, c.sum.text>> \in stored' /\ {s} \X c.paths \subseteq prov'
          /\ hooks' = [hooks EXCEPT ![q].pc = "rmstaged", ![q].saved = TRUE]
      BY <2>1, <2>6, <3>3 DEF FlushSave
    <3>5. hooks'[q].pc = "rmstaged" /\ hooks'[q].saved
      BY <1>1, <3>4 DEF HookStates
    <3>6. {s} \X files[s] \subseteq prov'
      BY <3>2, <3>4
    <3>7. IsSummary(staged[s]) => <<s, staged[s].text>> \in stored'
      BY <3>2, <3>4 DEF IsSummary
    <3> QED
      BY <3>1, <3>5, <3>6, <3>7 DEF Clears, Spent
  <2>7. CASE RemoveStaged(q)
    <3>1. c.pc = "rmstaged" /\ staged'[s] = Absent /\ UNCHANGED <<files, prov>>
      BY <2>1, <2>7 DEF RemoveStaged, Types, TypeOK, store
    <3>2. c.saved => {s} \X files[s] \subseteq prov
      BY <1>3, <2>1, <3>1 DEF Clears, Clearing
    <3>3. hooks'[q].pc = "rmcount" /\ hooks'[q].saved = c.saved
      <4>1. hooks'[q] = [c EXCEPT !.pc = "rmcount"]
        BY <1>4, <2>7 DEF RemoveStaged
      <4> QED
        BY <1>1, <4>1 DEF HookStates
    <3> QED
      BY <3>1, <3>2, <3>3 DEF Clears
  <2>8. CASE RemoveCount(q)
    <3>1. c.pc = "rmcount" /\ UNCHANGED <<staged, files, prov>>
      BY <2>8 DEF RemoveCount, store
    <3>2. staged[s] = Absent /\ (c.saved => {s} \X files[s] \subseteq prov)
      BY <1>3, <2>1, <3>1 DEF Clears, Clearing
    <3>3. hooks'[q].pc = "rmfiles" /\ hooks'[q].saved = c.saved
      <4>1. hooks'[q] = [c EXCEPT !.pc = "rmfiles"]
        BY <1>4, <2>8 DEF RemoveCount
      <4> QED
        BY <1>1, <4>1 DEF HookStates
    <3> QED
      BY <3>1, <3>2, <3>3 DEF Clears
  <2> QED
    BY <1>7, <2>1, <2>2, <2>3, <2>4, <2>5, <2>6, <2>7, <2>8
       DEF Step, ReadCount, TruncateCount, WriteCount, AppendFiles, TruncateStaged, StageSummary,
           DecideStop, EmitStopBlock, ListStaged, RecoverDone, Kill, Clearing
<1> QED
  BY <1>6, <1>7

\* A process saved a summary only where it goes on to clear the session.
LEMMA SavedStep ==
  ASSUME Types, ClearInv, NEW q \in Hooks, Step(q) \/ Kill(q), hooks'[q].saved
  PROVE  hooks'[q].pc \in {"rmstaged", "rmcount", "rmfiles"}
<1> DEFINE c == hooks[q]
<1>1. c \in HookStates /\ hooks \in [Hooks -> HookStates]
  BY DEF Types, TypeOK
<1>2. c.saved => c.pc \in {"rmstaged", "rmcount", "rmfiles"}
  BY DEF ClearInv
<1>3. \A pc : Moves(q, pc) => hooks'[q].pc = pc /\ hooks'[q].saved = c.saved
  BY <1>1 DEF Moves, HookStates
<1>4. ~Exits(q)
  BY <1>1 DEF Exits, Free
<1>5. ~RemoveFiles(q)
  <2>1. RemoveFiles(q) => \/ hooks'[q] = Free
                          \/ hooks'[q] = [Free EXCEPT !.op = "recover", !.pc = "next", !.todo = c.todo]
    BY <1>1 DEF RemoveFiles
  <2>2. hooks'[q] # Free
    BY DEF Free
  <2>3. hooks'[q] # [Free EXCEPT !.op = "recover", !.pc = "next", !.todo = c.todo]
    BY DEF Free
  <2> QED
    BY <2>1, <2>2, <2>3
<1>6. CASE c.saved
  <2>1. ~RemoveFiles(q)
    BY <1>5
  <2>2. CASE RemoveStaged(q) \/ RemoveCount(q)
    BY <1>3, <2>2 DEF RemoveStaged, RemoveCount
  <2>3. c.pc \in {"rmstaged", "rmcount", "rmfiles"}
    BY <1>2, <1>6
  <2>4. /\ ~ReadCount(q) /\ ~TruncateCount(q) /\ ~WriteCount(q) /\ ~AppendFiles(q)
        /\ ~TruncateStaged(q) /\ ~StageSummary(q) /\ ~DecideStop(q) /\ ~EmitStopBlock(q)
    BY <2>3 DEF ReadCount, TruncateCount, WriteCount, AppendFiles, TruncateStaged, StageSummary,
                DecideStop, EmitStopBlock
  <2>5. /\ ~OpenStore(q) /\ ~ListStaged(q) /\ ~RecoverNext(q) /\ ~RecoverDone(q)
        /\ ~FlushStaged(q) /\ ~FlushFiles(q) /\ ~FlushGate(q) /\ ~FlushSave(q)
    BY <2>3 DEF OpenStore, ListStaged, RecoverNext, RecoverDone, FlushStaged, FlushFiles,
                FlushGate, FlushSave
  <2> QED
    BY <1>4, <2>1, <2>2, <2>4, <2>5 DEF Step, Kill
<1>7. CASE ~c.saved
  <2>1. CASE FlushSave(q)
    <3>1. hooks' = [hooks EXCEPT ![q] = [c EXCEPT !.pc = "rmstaged", !.saved = TRUE]]
            \/ Moves(q, "rmstaged")
      BY <2>1 DEF FlushSave
    <3>2. [c EXCEPT !.pc = "rmstaged", !.saved = TRUE].pc = "rmstaged"
      BY <1>1 DEF HookStates
    <3> QED
      BY <1>1, <1>3, <3>1, <3>2
  <2>2. ~ReadCount(q)
    <3>1. SUFFICES ASSUME ReadCount(q) PROVE hooks'[q].saved = c.saved
      BY <1>7
    <3>2. CASE c.op = "change"
      <4>1. \/ hooks'[q] = [c EXCEPT !.pc = "append"]
            \/ hooks'[q] = [c EXCEPT !.pc = "trunc", !.n = Tally(c.of) + 1]
        BY <1>1, <3>1, <3>2 DEF ReadCount
      <4> QED
        BY <1>1, <4>1 DEF HookStates
    <3>3. CASE c.op = "stage"
      <4>1. hooks'[q] = [c EXCEPT !.pc = "trunc", !.n = edits[c.of],
                                  !.sum.at = IF count[c.of] = Torn THEN 0 ELSE Tally(c.of)]
        BY <1>1, <3>1, <3>3 DEF ReadCount
      <4> QED
        BY <1>1, <4>1 DEF HookStates
    <3>4. CASE c.op = "stop"
      <4>1. \/ hooks'[q] = Free
            \/ hooks'[q] = [c EXCEPT !.pc = "readstaged", !.n = Tally(c.of)]
        BY <1>1, <3>1, <3>4 DEF ReadCount
      <4>2. hooks'[q] # Free
        BY DEF Free
      <4> QED
        BY <1>1, <4>1, <4>2 DEF HookStates
    <3>5. c.op \in {"change", "stage", "stop"}
      BY <3>1, AfterRead
    <3> QED
      BY <3>2, <3>3, <3>4, <3>5
  <2>3. ~RecoverNext(q) /\ ~ListStaged(q)
    <3>1. ~RecoverNext(q)
      <4>1. RecoverNext(q) => \E s : \/ hooks'[q] = [c EXCEPT !.todo = c.todo \ {s}, !.of = s, !.pc = "flush"]
                                    \/ hooks'[q] = [c EXCEPT !.todo = c.todo \ {s}]
        BY <1>1 DEF RecoverNext
      <4> QED
        BY <1>1, <1>7, <4>1 DEF HookStates
    <3>2. ~ListStaged(q)
      BY <1>1, <1>7 DEF ListStaged, HookStates
    <3> QED
      BY <3>1, <3>2
  <2>4. ~FlushStaged(q) /\ ~FlushFiles(q)
    <3>1. ~FlushStaged(q)
      <4>1. FlushStaged(q) => \/ hooks'[q] = [c EXCEPT !.pc = "rmstaged"]
                              \/ hooks'[q] = [c EXCEPT !.pc = "record", !.sum = staged[c.of]]
        BY <1>1 DEF FlushStaged
      <4> QED
        BY <1>1, <1>7, <4>1 DEF HookStates
    <3>2. ~FlushFiles(q)
      BY <1>1, <1>7 DEF FlushFiles, HookStates
    <3> QED
      BY <3>1, <3>2
  <2>5. ~RemoveFiles(q)
    BY <1>5
  <2> QED
    BY <1>3, <1>4, <1>7, <2>1, <2>2, <2>3, <2>4, <2>5
       DEF Step, TruncateCount, WriteCount, AppendFiles, TruncateStaged, StageSummary,
           DecideStop, EmitStopBlock, OpenStore, RecoverDone, FlushGate, RemoveStaged, RemoveCount, Kill
<1> QED
  BY <1>6, <1>7

\* A clearing process throws away nothing that is not spent or recorded.
LEMMA ClearStep ==
  ASSUME Types, InOrder, WorksAlone, ClearInv, Next
  PROVE  ClearInv'
<1>1. CASE \E s \in Sessions : Crash(s) \/ Age(s)
  <2>1. UNCHANGED <<staged, count, files, hooks, stored, prov, faults>>
    BY <1>1 DEF Crash, Age, sentinels, store
  <2> QED
    BY <2>1 DEF ClearInv, Clears, Spent, PassesIntake, Tally
<1>2. ASSUME NEW q \in Hooks, Starts(q) PROVE ClearInv'
  <2>1. UNCHANGED <<staged, count, files, stored, prov, faults>>
    <3>1. UNCHANGED faults
      BY <1>2 DEF Starts, Edit, Look, Stage, Stop, End, SessionStart
    <3> QED
      BY <1>2, <3>1, StartsKeep
  <2>2. hooks'[q].pc \notin Clearing /\ ~hooks'[q].saved
    BY <1>2, StartsAt DEF Clearing
  <2>3. \A r \in Hooks \ {q} : hooks'[r] = hooks[r]
    BY <1>2, OthersStay
  <2>4. ASSUME NEW r \in Hooks, NEW s \in Sessions, hooks'[r].of = s, hooks'[r].pc \in Clearing
        PROVE  Clears(r, s)'
    <3>1. hooks'[r] = hooks[r] /\ Clears(r, s)
      BY <2>2, <2>3, <2>4 DEF ClearInv
    <3> QED
      BY <2>1, <3>1 DEF Clears, Spent, PassesIntake, Tally
  <2> QED
    BY <2>1, <2>2, <2>3, <2>4 DEF ClearInv
<1>3. ASSUME NEW q \in Hooks, Step(q) \/ Kill(q) PROVE ClearInv'
  <2>1. \A r \in Hooks \ {q} : hooks'[r] = hooks[r]
    BY <1>3, OthersStay
  <2>2. ASSUME NEW r \in Hooks, NEW s \in Sessions, hooks'[r].of = s, hooks'[r].pc \in Clearing
        PROVE  Clears(r, s)'
    <3>1. CASE r = q
      BY <1>3, <2>2, <3>1, ClearerStep
    <3>2. CASE r # q
      BY <1>3, <2>1, <2>2, <3>2, ClearsStays DEF ClearInv
    <3> QED
      BY <3>1, <3>2
  <2>3. hooks'[q].saved => hooks'[q].pc \in {"rmstaged", "rmcount", "rmfiles"}
    BY <1>3, SavedStep
  <2>4. faults' \in Nat
    <3>1. UNCHANGED faults \/ faults' = faults + 1
      BY <1>3 DEF Step, ReadCount, TruncateCount, WriteCount, AppendFiles, TruncateStaged,
           StageSummary, DecideStop, EmitStopBlock, OpenStore, ListStaged, RecoverNext, RecoverDone,
           FlushStaged, FlushFiles, FlushGate, FlushSave, RemoveStaged, RemoveCount, RemoveFiles, Kill
    <3> QED
      BY <3>1 DEF ClearInv
  <2> QED
    BY <2>1, <2>2, <2>3, <2>4 DEF ClearInv
<1> QED
  BY <1>1, <1>2, <1>3, NextCases

\* Where the hooks of a session take turns, no live summary ages past the cutoff and the
\* store works, a process that clears knows why it may.
LEMMA ClearHolds == Spec /\ InOrder => [](InOrder /\ ClearInv)
<1>1. Init => ClearInv
  BY DEF Init, ClearInv, Free, Clearing
<1>2. InOrder /\ ClearInv /\ WorksAlone /\ Types /\ [Next /\ UNCHANGED scene]_vars
      => (InOrder /\ ClearInv)'
  <2>1. CASE InOrder /\ ClearInv /\ WorksAlone /\ Types /\ Next /\ UNCHANGED scene
    BY <2>1, ClearStep DEF InOrder, InTurn
  <2>2. CASE UNCHANGED vars
    BY <2>2 DEF InOrder, InTurn, ClearInv, Clears, Spent, PassesIntake, Tally, vars, rest,
                sentinels, store
  <2> QED
    BY <2>1, <2>2
<1>3. InOrder => InTurn
  BY DEF InOrder
<1> QED
  BY <1>1, <1>2, <1>3, TypesHold, TurnHolds, PTL DEF Spec

\* There, a summary that passes the gate leaves the disk only for the store, and the
\* files of a saved session are recorded before they are thrown away.
THEOREM EarnedIsKept == Spec /\ InOrder => EarnedSummaryIsKept
<1>1. InOrder /\ ClearInv /\ Types /\ [Next /\ UNCHANGED scene]_vars
      => [~scene.parallel => KeepsEarned]_vars
  <2> SUFFICES ASSUME InOrder, ClearInv, Types, Next PROVE KeepsEarned
    OBVIOUS
  <2>1. ASSUME NEW s \in Sessions, IsSummary(staged[s]), staged'[s] = Absent PROVE Spent(s)
    <3>1. staged'[s] # staged[s]
      BY <2>1 DEF IsSummary
    <3>2. PICK q \in Hooks : hooks[q].of = s /\ hooks[q].pc = "rmstaged"
      BY <2>1, <3>1, StagedStep
    <3> QED
      BY <2>1, <3>2 DEF ClearInv, Clears, Clearing
  <2>2. ASSUME NEW q \in Hooks, hooks[q].pc = "rmfiles", hooks[q].saved
        PROVE  {hooks[q].of} \X files[hooks[q].of] \subseteq prov
    <3>1. hooks[q].of \in Sessions
      BY <2>2 DEF Types, TypeOK, WellFormed, HookStates, Ops, Clearing, Free
    <3> QED
      BY <2>2, <3>1 DEF ClearInv, Clears, Clearing
  <2> QED
    BY <2>1, <2>2 DEF KeepsEarned, Spent
<1> QED
  BY <1>1, TypesHold, ClearHolds, PTL DEF Spec, EarnedSummaryIsKept
=============================================================================
