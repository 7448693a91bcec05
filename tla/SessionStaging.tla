--------------------------- MODULE SessionStaging ---------------------------
(***************************************************************************)
(* How the auto-summary of a Claude Code session gets into the store:      *)
(* internal/state/session.go and the hook commands of cmd/droids-mem.      *)
(*                                                                         *)
(* A session leaves sentinel files in <state dir>/sessions: .staged holds  *)
(* the summary the model composed, .count the tally of file edits, .files  *)
(* the paths touched.  Every hook is a short process of its own; none of   *)
(* them takes a lock, and os.WriteFile truncates before it writes, so a    *)
(* reader may find a file empty (Torn).  At its end a session flushes the  *)
(* summary and removes the files; a session that crashed leaves them to    *)
(* the next SessionStart hook of any session, once .staged has not been    *)
(* written for RecoverIdleCutoff.                                          *)
(*                                                                         *)
(* Left out: .injected and the recall of userpromptsubmit (they touch only *)
(* that file), and the Stop hook with stop_hook_active set (it does        *)
(* nothing).  The store's answer to a second save of one summary is        *)
(* "duplicate, skipped", which a set of stored summaries models.           *)
(***************************************************************************)
EXTENDS Integers, FiniteSets

CONSTANTS
    Sessions,      \* Claude Code session ids
    Hooks,         \* slots for the hook processes that run at one time
    Paths,         \* files a tool may touch
    Absent, Torn,  \* a file that is not there, and one truncated but not written
    NoSession,
    Threshold,     \* IntakeThreshold
    Scenes         \* what may happen, one set of bounds and switches for each question

ASSUME StagingAssumption ==
    /\ NoSession \notin Sessions
    /\ Threshold \in Nat \ {0}
    /\ \A c \in Scenes :
         /\ c.sessions \subseteq Sessions  \* the sessions there are
         /\ {c.edits, c.stages, c.faults, c.kills} \subseteq Nat
            \* bounds: edits and summaries of a session, store failures, killed hooks
         /\ {c.parallel, c.slow} \subseteq BOOLEAN
            \* may hooks of one session overlap (parallel tool calls, subagents), may
            \* a running session let .staged age past the cutoff

VARIABLES
    scene,                 \* the scene, fixed at the start
    staged, count, files,  \* the sentinel files of each session
    idle,                  \* .staged was last written more than the cutoff ago
    life,                  \* the session itself: running, ended or crashed
    hooks,                 \* the hook processes
    stored, prov,          \* the store: auto summaries, file provenance
    edits, stages,         \* what the session did: edits, summaries staged
    editsAtStage,          \* edits when the last summary's CountAtStage was read
    faults, kills

sentinels == <<staged, count, files, idle>>
store     == <<stored, prov>>
history   == <<edits, stages, editsAtStage>>
rest      == <<sentinels, life, hooks, store, history, faults, kills>>
vars      == <<scene, rest>>

\* The summaries a session may stage, in order.
Texts == UNION {1 .. c.stages : c \in Scenes}

\* StagedSummary: text names the content; sid says that it carries a droids-mem
\* session id; at is CountAtStage.
Summaries(tallies) == [text : Texts, declined : BOOLEAN, sid : BOOLEAN, at : tallies]
Summary == Summaries(0 .. scene.edits)

\* A file that is not there, a torn one and one that holds something differ.
ASSUME FilesAssumption ==
    /\ Absent # Torn /\ Absent \notin Nat /\ Torn \notin Nat
    /\ \A c \in Scenes : {Absent, Torn} \cap Summaries(0 .. c.edits) = {}

Ops == {"none", "change", "stage", "stop", "end", "recover"}
Places == {"free", "readcount", "trunc", "write", "append", "readstaged", "block", "openstore",
           "list", "next", "flush", "record", "gate", "save", "rmstaged", "rmcount", "rmfiles"}

\* A hook process: the session whose files it is working on, its next step, and
\* what it read.  todo is the rest of recoverOrphans' list of ids.
HookStates ==
    [op : Ops, of : Sessions \cup {NoSession}, pc : Places, n : 0 .. scene.edits + 1,
     sum : Summary \cup {Absent, Torn}, paths : SUBSET Paths,
     todo : SUBSET Sessions, saved : BOOLEAN]

Free == [op |-> "none", of |-> NoSession, pc |-> "free", n |-> 0, sum |-> Absent,
         paths |-> {}, todo |-> {}, saved |-> FALSE]

Init ==
    /\ scene \in Scenes
    /\ staged = [s \in Sessions |-> Absent]
    /\ count = [s \in Sessions |-> Absent]
    /\ files = [s \in Sessions |-> {}]
    /\ idle = [s \in Sessions |-> FALSE]
    /\ life = [s \in Sessions |-> "running"]
    /\ hooks = [q \in Hooks |-> Free]
    /\ stored = {} /\ prov = {}
    /\ edits = [s \in Sessions |-> 0]
    /\ stages = [s \in Sessions |-> 0]
    /\ editsAtStage = [s \in Sessions |-> 0]
    /\ faults = 0 /\ kills = 0

-----------------------------------------------------------------------------
(* The files. *)

\* ChangeCount on a readable file: the tally, 0 when there is none.
Tally(s) == IF count[s] = Absent THEN 0 ELSE count[s]

\* Mutated form: every edit after a stage makes it stale.
NeedsStageEagerly(n, sum) ==
    n >= Threshold /\ sum # Torn /\ (sum # Absent => n > sum.at)

\* sessionNeedsStage, given the tally and the staged file it read: the checkpoint
\* fires when the summary is missing, or Threshold edits behind.
NeedsStage(n, sum) ==
    /\ n >= Threshold
    /\ sum # Torn
    /\ sum # Absent => n - sum.at >= Threshold

\* Mutated form: off by one.
PassesIntakeEarly(n) == n > Threshold - 2

\* The intake gate of flushSession.
PassesIntake(n) == n >= Threshold

-----------------------------------------------------------------------------
(* The sessions. *)

Busy(s) == \E q \in Hooks : hooks[q].of = s

\* The host starts a process for session s on a free slot.
Spawn(q, s, op, pc) ==
    /\ hooks[q] = Free
    /\ scene.parallel \/ ~Busy(s)
    /\ hooks' = [hooks EXCEPT ![q] = [Free EXCEPT !.op = op, !.of = s, !.pc = pc]]

\* PostToolUse after an edit of p (counted), or after a read of it (not counted).
Edit(q, s, p) ==
    /\ life[s] = "running" /\ edits[s] < scene.edits
    /\ hooks[q] = Free
    /\ scene.parallel \/ ~Busy(s)
    /\ hooks' = [hooks EXCEPT ![q] = [Free EXCEPT !.op = "change", !.of = s,
                                                  !.pc = "readcount", !.paths = {p}]]
    /\ edits' = [edits EXCEPT ![s] = @ + 1]
    /\ UNCHANGED <<sentinels, life, store, stages, editsAtStage, faults, kills>>

Look(q, s, p) ==
    /\ life[s] = "running" /\ p \notin files[s]
    /\ hooks[q] = Free
    /\ scene.parallel \/ ~Busy(s)
    /\ hooks' = [hooks EXCEPT ![q] = [Free EXCEPT !.op = "change", !.of = s,
                                                  !.pc = "append", !.paths = {p}]]
    /\ UNCHANGED <<sentinels, life, store, history, faults, kills>>

\* session stage and session decline.
Stage(q, s, declined, sid) ==
    /\ life[s] = "running" /\ stages[s] < scene.stages
    /\ \A r \in Hooks : ~(hooks[r].of = s /\ hooks[r].op = "stage")
    /\ hooks[q] = Free
    /\ scene.parallel \/ ~Busy(s)
    /\ stages' = [stages EXCEPT ![s] = @ + 1]
    /\ hooks' = [hooks EXCEPT ![q] =
                   [Free EXCEPT !.op = "stage", !.of = s, !.pc = "readcount",
                                !.sum = [text |-> stages[s] + 1, declined |-> declined,
                                         sid |-> sid, at |-> 0]]]
    /\ UNCHANGED <<sentinels, life, store, edits, editsAtStage, faults, kills>>

\* The Stop hook of a turn that is not already continuing from a block.
Stop(q, s) ==
    /\ life[s] = "running"
    /\ Spawn(q, s, "stop", "readcount")
    /\ UNCHANGED <<sentinels, life, store, history, faults, kills>>

\* SessionEnd.  The session's earlier hooks are over unless the host overlaps them.
End(q, s) ==
    /\ life[s] = "running"
    /\ Spawn(q, s, "end", "openstore")
    /\ life' = [life EXCEPT ![s] = "ended"]
    /\ UNCHANGED <<sentinels, store, history, faults, kills>>

\* The session dies without a SessionEnd.
Crash(s) ==
    /\ life[s] = "running"
    /\ life' = [life EXCEPT ![s] = "crashed"]
    /\ UNCHANGED <<sentinels, hooks, store, history, faults, kills>>

\* Some session starts: its SessionStart hook sweeps the orphans.
SessionStart(q) ==
    /\ hooks[q] = Free
    /\ hooks' = [hooks EXCEPT ![q] = [Free EXCEPT !.op = "recover", !.pc = "list"]]
    /\ UNCHANGED <<sentinels, life, store, history, faults, kills>>

\* RecoverIdleCutoff passes since .staged was written.
Age(s) ==
    /\ staged[s] # Absent /\ ~idle[s]
    /\ life[s] = "running" => scene.slow
    /\ ~Busy(s)
    /\ idle' = [idle EXCEPT ![s] = TRUE]
    /\ UNCHANGED <<staged, count, files, life, hooks, store, history, faults, kills>>

-----------------------------------------------------------------------------
(* Steps of the hooks. *)

Moves(q, pc) == hooks' = [hooks EXCEPT ![q].pc = pc]
Exits(q)     == hooks' = [hooks EXCEPT ![q] = Free]

\* ChangeCount, as the posttooluse, stage and stop hooks call it.  On a torn file
\* IncrementChange gives up, StageSummary keeps CountAtStage 0, Stop stays silent.
ReadCount(q) ==
    LET h == hooks[q]  s == h.of  torn == count[s] = Torn IN
    /\ h.pc = "readcount"
    /\ hooks' = [hooks EXCEPT ![q] =
         CASE h.op = "change" /\ torn  -> [h EXCEPT !.pc = "append"]
           [] h.op = "change" /\ ~torn -> [h EXCEPT !.pc = "trunc", !.n = Tally(s) + 1]
           [] h.op = "stage" -> [h EXCEPT !.pc = "trunc", !.n = edits[s],
                                          !.sum.at = IF torn THEN 0 ELSE Tally(s)]
           [] h.op = "stop"   /\ torn  -> Free
           [] h.op = "stop"   /\ ~torn ->
                IF Tally(s) >= Threshold
                THEN [h EXCEPT !.pc = "readstaged", !.n = Tally(s)]
                ELSE Free]
    /\ UNCHANGED <<sentinels, life, store, history, faults, kills>>

\* os.WriteFile of .count, in its two steps; then the path is appended to .files.
TruncateCount(q) ==
    /\ hooks[q].op = "change" /\ hooks[q].pc = "trunc"
    /\ count' = [count EXCEPT ![hooks[q].of] = Torn]
    /\ Moves(q, "write")
    /\ UNCHANGED <<staged, files, idle, life, store, history, faults, kills>>

WriteCount(q) ==
    /\ hooks[q].op = "change" /\ hooks[q].pc = "write"
    /\ count' = [count EXCEPT ![hooks[q].of] = hooks[q].n]
    /\ Moves(q, "append")
    /\ UNCHANGED <<staged, files, idle, life, store, history, faults, kills>>

AppendFiles(q) ==
    /\ hooks[q].pc = "append"
    /\ files' = [files EXCEPT ![hooks[q].of] = @ \cup hooks[q].paths]
    /\ Exits(q)
    /\ UNCHANGED <<staged, count, idle, life, store, history, faults, kills>>

\* os.WriteFile of .staged; either step sets its modification time.
TruncateStaged(q) ==
    LET s == hooks[q].of IN
    /\ hooks[q].op = "stage" /\ hooks[q].pc = "trunc"
    /\ staged' = [staged EXCEPT ![s] = Torn]
    /\ idle' = [idle EXCEPT ![s] = FALSE]
    /\ Moves(q, "write")
    /\ UNCHANGED <<count, files, life, store, history, faults, kills>>

StageSummary(q) ==
    LET s == hooks[q].of IN
    /\ hooks[q].op = "stage" /\ hooks[q].pc = "write"
    /\ staged' = [staged EXCEPT ![s] = hooks[q].sum]
    /\ idle' = [idle EXCEPT ![s] = FALSE]
    /\ editsAtStage' = [editsAtStage EXCEPT ![s] = hooks[q].n]
    /\ Exits(q)
    /\ UNCHANGED <<count, files, life, store, edits, stages, faults, kills>>

\* The rest of sessionNeedsStage; "block" is the moment before the decision is
\* printed.
DecideStop(q) ==
    LET h == hooks[q] IN
    /\ h.op = "stop" /\ h.pc = "readstaged"
    /\ IF NeedsStage(h.n, staged[h.of]) THEN Moves(q, "block") ELSE Exits(q)
    /\ UNCHANGED <<sentinels, life, store, history, faults, kills>>

EmitStopBlock(q) ==
    /\ hooks[q].pc = "block"
    /\ Exits(q)
    /\ UNCHANGED <<sentinels, life, store, history, faults, kills>>

-----------------------------------------------------------------------------
(* Flush and recovery. *)

\* a.store() at SessionEnd: a store that does not open leaves the files alone.
OpenStore(q) ==
    /\ hooks[q].pc = "openstore"
    /\ \/ /\ Moves(q, "flush")
          /\ UNCHANGED faults
       \/ /\ faults < scene.faults
          /\ faults' = faults + 1
          /\ Exits(q)
    /\ UNCHANGED <<sentinels, life, store, history, kills>>

\* Mutated form: summaries that do not parse are not listed.
ListParsed(q) ==
    /\ hooks[q].pc = "list"
    /\ hooks' = [hooks EXCEPT ![q].todo = {s \in Sessions : staged[s] \notin {Absent, Torn}},
                              ![q].pc = "next"]
    /\ UNCHANGED <<sentinels, life, store, history, faults, kills>>

\* recoverOrphans: the list of staged sessions, then one after the other those
\* that are idle.
ListStaged(q) ==
    /\ hooks[q].pc = "list"
    /\ hooks' = [hooks EXCEPT ![q].todo = {s \in Sessions : staged[s] # Absent},
                              ![q].pc = "next"]
    /\ UNCHANGED <<sentinels, life, store, history, faults, kills>>

\* Mutated forms: the idle check dropped, or the sweep done without a flush.
RecoverAnyNext(q) ==
    LET h == hooks[q] IN
    /\ h.pc = "next" /\ h.todo # {}
    /\ \E s \in h.todo :
         hooks' = [hooks EXCEPT ![q] = [h EXCEPT !.todo = h.todo \ {s}, !.of = s, !.pc = "flush"]]
    /\ UNCHANGED <<sentinels, life, store, history, faults, kills>>

SweepNext(q) ==
    LET h == hooks[q] IN
    /\ h.pc = "next" /\ h.todo # {}
    /\ \E s \in h.todo :
         hooks' = [hooks EXCEPT ![q] =
                     IF staged[s] # Absent /\ idle[s]
                     THEN [h EXCEPT !.todo = h.todo \ {s}, !.of = s, !.pc = "rmstaged"]
                     ELSE [h EXCEPT !.todo = h.todo \ {s}]]
    /\ UNCHANGED <<sentinels, life, store, history, faults, kills>>

RecoverNext(q) ==
    LET h == hooks[q] IN
    /\ h.pc = "next" /\ h.todo # {}
    /\ \E s \in h.todo :
         hooks' = [hooks EXCEPT ![q] =
                     IF staged[s] # Absent /\ idle[s]
                     THEN [h EXCEPT !.todo = h.todo \ {s}, !.of = s, !.pc = "flush"]
                     ELSE [h EXCEPT !.todo = h.todo \ {s}]]
    /\ UNCHANGED <<sentinels, life, store, history, faults, kills>>

RecoverDone(q) ==
    /\ hooks[q].pc = "next" /\ hooks[q].todo = {}
    /\ Exits(q)
    /\ UNCHANGED <<sentinels, life, store, history, faults, kills>>

\* flushSession reads .staged ...
FlushStaged(q) ==
    LET h == hooks[q]  sum == staged[h.of] IN
    /\ h.pc = "flush"
    /\ hooks' = [hooks EXCEPT ![q] =
                   IF sum \in {Absent, Torn} THEN [h EXCEPT !.pc = "rmstaged"]
                   ELSE IF sum.declined THEN [h EXCEPT !.pc = "rmstaged"]
                   ELSE [h EXCEPT !.pc = "record", !.sum = sum]]
    /\ UNCHANGED <<sentinels, life, store, history, faults, kills>>

\* ... and .files, recording them at once when the session id is known ...
FlushFiles(q) ==
    LET h == hooks[q] IN
    /\ h.pc = "record"
    /\ prov' = IF h.sum.sid THEN prov \cup ({h.of} \X files[h.of]) ELSE prov
    /\ hooks' = [hooks EXCEPT ![q].pc = "gate", ![q].paths = files[h.of]]
    /\ UNCHANGED <<sentinels, life, stored, history, faults, kills>>

\* Mutated form: the gate wants more than the threshold.
FlushGateStrict(q) ==
    LET h == hooks[q] IN
    /\ h.pc = "gate"
    /\ Moves(q, IF count[h.of] # Torn /\ Tally(h.of) > Threshold THEN "save" ELSE "rmstaged")
    /\ UNCHANGED <<sentinels, life, store, history, faults, kills>>

\* ... then .count ...
FlushGate(q) ==
    LET h == hooks[q] IN
    /\ h.pc = "gate"
    /\ Moves(q, IF count[h.of] # Torn /\ PassesIntake(Tally(h.of)) THEN "save" ELSE "rmstaged")
    /\ UNCHANGED <<sentinels, life, store, history, faults, kills>>

\* ... and saves.  Whatever the outcome, the callers clear the session next.
FlushSave(q) ==
    LET h == hooks[q] IN
    /\ h.pc = "save"
    /\ \/ /\ stored' = stored \cup {<<h.of, h.sum.text>>}
          /\ prov' = prov \cup ({h.of} \X h.paths)
          /\ hooks' = [hooks EXCEPT ![q].pc = "rmstaged", ![q].saved = TRUE]
          /\ UNCHANGED faults
       \/ /\ faults < scene.faults
          /\ faults' = faults + 1
          /\ Moves(q, "rmstaged")
          /\ UNCHANGED store
    /\ UNCHANGED <<sentinels, life, history, kills>>

\* ClearSession removes the files one by one.
RemoveStaged(q) ==
    /\ hooks[q].pc = "rmstaged"
    /\ staged' = [staged EXCEPT ![hooks[q].of] = Absent]
    /\ idle' = [idle EXCEPT ![hooks[q].of] = FALSE]
    /\ Moves(q, "rmcount")
    /\ UNCHANGED <<count, files, life, store, history, faults, kills>>

RemoveCount(q) ==
    /\ hooks[q].pc = "rmcount"
    /\ count' = [count EXCEPT ![hooks[q].of] = Absent]
    /\ Moves(q, "rmfiles")
    /\ UNCHANGED <<staged, files, idle, life, store, history, faults, kills>>

RemoveFiles(q) ==
    LET h == hooks[q] IN
    /\ h.pc = "rmfiles"
    /\ files' = [files EXCEPT ![h.of] = {}]
    /\ hooks' = [hooks EXCEPT ![q] =
                   IF h.op = "end" THEN Free
                   ELSE [Free EXCEPT !.op = "recover", !.pc = "next", !.todo = h.todo]]
    /\ UNCHANGED <<staged, count, idle, life, store, history, faults, kills>>

\* A hook process is killed (the host's hook timeout, a crash of the machine).
Kill(q) ==
    /\ hooks[q] # Free /\ kills < scene.kills
    /\ kills' = kills + 1
    /\ Exits(q)
    /\ UNCHANGED <<sentinels, life, store, history, faults>>

-----------------------------------------------------------------------------
Step(q) ==
    \/ ReadCount(q) \/ TruncateCount(q) \/ WriteCount(q) \/ AppendFiles(q)
    \/ TruncateStaged(q) \/ StageSummary(q)
    \/ DecideStop(q) \/ EmitStopBlock(q)
    \/ OpenStore(q) \/ ListStaged(q) \/ RecoverNext(q) \/ RecoverDone(q)
    \/ FlushStaged(q) \/ FlushFiles(q) \/ FlushGate(q) \/ FlushSave(q)
    \/ RemoveStaged(q) \/ RemoveCount(q) \/ RemoveFiles(q)

Next ==
    \/ \E q \in Hooks, s \in scene.sessions :
         \/ \E p \in Paths : Edit(q, s, p) \/ Look(q, s, p)
         \/ \E declined, sid \in BOOLEAN : Stage(q, s, declined, sid)
         \/ Stop(q, s) \/ End(q, s)
    \/ \E s \in scene.sessions : Crash(s) \/ Age(s)
    \/ \E q \in Hooks : SessionStart(q) \/ Step(q) \/ Kill(q)

Spec == Init /\ [][Next /\ UNCHANGED scene]_vars

\* A hook process runs to its end, time passes, and people keep starting sessions:
\* the first two are the operating system's, the last is what recovery counts on.
FairSpec ==
    /\ Spec
    /\ \A q \in Hooks : WF_rest(Step(q))
    /\ \A s \in Sessions : WF_rest(Age(s))
    /\ \A q \in Hooks : SF_rest(SessionStart(q))

-----------------------------------------------------------------------------
(* Properties. *)

\* Every value is one the files, the processes and the store can hold.
TypeOK ==
    /\ staged \in [Sessions -> Summary \cup {Absent, Torn}]
    /\ count \in [Sessions -> 0 .. scene.edits \cup {Absent, Torn}]
    /\ files \in [Sessions -> SUBSET Paths]
    /\ idle \in [Sessions -> BOOLEAN]
    /\ life \in [Sessions -> {"running", "ended", "crashed"}]
    /\ hooks \in [Hooks -> HookStates]
    /\ stored \subseteq Sessions \X (Texts)
    /\ prov \subseteq Sessions \X Paths
    /\ edits \in [Sessions -> 0 .. scene.edits]

IsSummary(v) == v \notin {Absent, Torn}

\* A summary reaches the store only from a session of at least Threshold edits:
\* no overlap of unlocked hooks makes the tally run ahead of the edits.
StoredIsEarned ==
    /\ TypeOK
    /\ \A m \in stored : edits[m[1]] >= Threshold

\* Where the hooks of a session run one after the other, a summary that passes the
\* gate leaves the disk only for the store, and a clearing process that saved it
\* recorded every file it throws away (hooks/README: "guaranteed, not best-effort").
KeepsEarned ==
    /\ \A s \in Sessions :
         IsSummary(staged[s]) /\ staged'[s] = Absent =>
           \/ staged[s].declined
           \/ count[s] = Torn
           \/ ~PassesIntake(Tally(s))
           \/ <<s, staged[s].text>> \in stored
    /\ \A q \in Hooks :
         LET h == hooks[q] IN
         h.pc = "rmfiles" /\ hooks'[q] # h /\ h.saved /\ kills' = kills =>
           {h.of} \X files[h.of] \subseteq prov

EarnedSummaryIsKept == [][~scene.parallel => KeepsEarned]_vars

\* "A stage goes stale only after a further IntakeThreshold of meaningful changes
\* lands on top of the tally captured at stage time" (cmd_session.go:178-179).
BlocksOnlyWhenStale ==
    \A q \in Hooks : hooks[q].pc = "block" =>
      LET s == hooks[q].of IN edits[s] - editsAtStage[s] >= Threshold

\* There, a session is made to stage again only after Threshold further edits.
StageSilencesGate == ~scene.parallel => BlocksOnlyWhenStale

\* A running session's summary is not taken by the recovery of another.
KeepsLive ==
    \A s \in Sessions :
      life[s] = "running" /\ staged[s] # Absent => staged'[s] # Absent

LiveSessionIsShielded == [][KeepsLive]_vars

\* What a crashed session staged is stored, if it passes the gate and the store works.
CrashedSummaryIsRecovered == scene.faults > 0 \/
    \A s \in Sessions : \A t \in Texts :
      (/\ life[s] = "crashed" /\ ~Busy(s)
       /\ IsSummary(staged[s])
       /\ staged[s].text = t /\ ~staged[s].declined
       /\ count[s] \notin {Absent, Torn} /\ PassesIntake(Tally(s)))
      ~> <<s, t>> \in stored

\* The staged file of a dead session goes in any case, corrupt or below the gate too
\* (session.go, StagedTTL).
StagedIsReaped ==
    \A s \in Sessions : (life[s] # "running" /\ staged[s] # Absent) ~> staged[s] = Absent

\* "the sessions dir never accumulates litter": every file of a dead session goes.
NoLitter ==
    \A s \in Sessions :
      life[s] # "running" ~> staged[s] = Absent /\ count[s] = Absent /\ files[s] = {}
=============================================================================
