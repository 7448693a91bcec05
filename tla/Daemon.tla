------------------------------- MODULE Daemon -------------------------------
(***************************************************************************)
(* The MCP daemon of one machine: ensure-server commands that find, check, *)
(* replace or spawn it, the serve processes with their listener, requests  *)
(* and boot fetch, the token file, the pid file, an upgrade that swaps the *)
(* binary under all of them, and an uninstall that stops or purges.        *)
(*                                                                         *)
(* An ensure-server command is started by hand or by graph ui, as often as *)
(* the user likes, or never again.  A command reads the world by probes    *)
(* (ping, verify) and acts later on what it read; that gap is the subject. *)
(* Process ids are recycled, also by programs that are not ours.           *)
(***************************************************************************)
EXTENDS Integers, FiniteSets

CONSTANTS
    Cmds,       \* ensure-server command lines
    Pids,       \* process ids, reused after an exit
    Scenes      \* starting situations, see MCDaemon

Nobody == 0     \* no process, and verifyServer's "no PID proven"
NoToken == 0
Legacy == 0     \* a build older than PID binding: no version, no PID proof
Dev == 99       \* every local build reports "dev"
Torn == -1      \* a download that is not what the checksum names
Tokens == 1 .. Cardinality(Cmds) + Cardinality(Pids) + 3

ASSUME PidsAssumption == Pids \subseteq Nat \ {Nobody} /\ IsFiniteSet(Pids)
ASSUME CmdsAssumption == IsFiniteSet(Cmds) /\ Cmds # {}

\* One listener at most, and a binary that is a published build.
ASSUME ScenesAssumption ==
    \A s \in Scenes :
        /\ s.daemon \in Pids \cup {Nobody} /\ s.squatter \in Pids \cup {Nobody}
        /\ s.squatter # Nobody => s.daemon = Nobody
        /\ s.token \in Tokens \cup {NoToken} /\ s.pidFile \in Pids \cup {Nobody}
        /\ s.running \in Int /\ s.exe \in Int \ {Torn} /\ s.release \in Int \ {Torn}
        /\ s.share \in BOOLEAN

VARIABLES
    scene,      \* the starting situation, fixed by Init
    proc,       \* the processes, by pid
    port,       \* pid of the listener, or Nobody
    tokenFile,  \* ~/.droids-mem/token
    pidFile,    \* ~/.droids-mem/mcp.pid
    exe,        \* the build the binary on disk is
    ens,        \* the ensure-server commands
    un,         \* the uninstall command
    up,         \* the upgrade command
    faults,     \* probes that may still fail although the server is up
    harmed      \* processes of other programs that received a SIGTERM

vars == <<scene, proc, port, tokenFile, pidFile, exe, ens, un, up, faults, harmed>>

NoProc == [st |-> "none", tok |-> NoToken, ver |-> Legacy, term |-> FALSE,
           fetch |-> FALSE, call |-> FALSE, cut |-> FALSE]
Serve(tok, ver) == [NoProc EXCEPT !.st = "boot", !.tok = tok, !.ver = ver]
Stranger == [NoProc EXCEPT !.st = "stranger"]
Alive(p) == proc[p].st \notin {"none", "stranger"}

IdleCmd == [pc |-> "idle", tok |-> NoToken, ver |-> Legacy, pid |-> Nobody]
Result(r) == [IdleCmd EXCEPT !.pc = r]
Final == {"idle", "ok", "stale", "not_ours", "failed"}

Init ==
    /\ scene \in Scenes
    /\ proc = [p \in Pids |->
                 IF p = scene.daemon
                 THEN [Serve(scene.token, scene.running) EXCEPT !.st = "serving"]
                 ELSE IF p = scene.squatter THEN Stranger ELSE NoProc]
    /\ port = IF scene.squatter # Nobody THEN scene.squatter ELSE scene.daemon
    /\ tokenFile = scene.token
    /\ pidFile = scene.pidFile
    /\ exe = scene.exe
    /\ ens = [c \in Cmds |-> IdleCmd]
    /\ un = [pc |-> "idle", pid |-> Nobody, tok |-> NoToken]
    /\ up = [pc |-> "idle", tmp |-> Legacy]
    /\ faults = scene.faults
    /\ harmed = {}

-----------------------------------------------------------------------------
(* Helpers.                                                                *)

\* The pids a command has seen proven and may still signal.  The kernel could
\* recycle such a pid within those microseconds; no code can rule that out,
\* and the model leaves it out.
Proven == {ens[c].pid : c \in {d \in Cmds : ens[d].pc = "stop"}}
          \cup (IF un.pc = "signal" THEN {un.pid} ELSE {})

\* A pid for a new process: one that is free; which one does not matter to
\* anything but the files and commands that still name it.
Free == {p \in Pids \ Proven : proc[p].st = "none"}
Fresh == CHOOSE p \in Free : TRUE

\* A token nobody holds: newToken draws 256 random bits.
NewToken == CHOOSE t \in Tokens :
              /\ t # tokenFile
              /\ \A c \in Cmds : ens[c].tok # t
              /\ un.tok # t
              /\ \A p \in Pids : proc[p].tok # t

Answers == port # Nobody

\* What verifyServer finds: a proof of the token, with the pid when the build
\* binds one.
Proves(tok) == Answers /\ Alive(port) /\ proc[port].tok = tok
ProvenPid == IF proc[port].ver = Legacy THEN Nobody ELSE port

\* decideStale, over a listener that proved the token.
DecideStale(want) ==
    IF proc[port].ver = want /\ want # Dev THEN "ok"
    ELSE IF ProvenPid = Nobody THEN "stale" ELSE "stop"

\* SIGTERM to whatever process has the pid now.
Sigterm(p) ==
    /\ proc' = [proc EXCEPT ![p].term = Alive(p)]
    /\ harmed' = IF proc[p].st = "stranger" THEN harmed \cup {p} ELSE harmed

-----------------------------------------------------------------------------
(* ensure-server.                                                          *)

Goto(c, pc) == ens' = [ens EXCEPT ![c].pc = pc]
OnlyEns == UNCHANGED <<scene, proc, port, tokenFile, pidFile, exe, un, up, faults, harmed>>

\* The command begins with LoadOrCreateToken: an empty or missing file sends
\* it to mint a token.
Start(c) ==
    /\ c \in scene.cmds /\ ens[c].pc \in Final
    /\ ens' = [ens EXCEPT ![c] = [pc |-> IF tokenFile # NoToken THEN "ping" ELSE "truncate",
                                  tok |-> IF tokenFile # NoToken THEN tokenFile ELSE NewToken,
                                  ver |-> exe, pid |-> Nobody]]
    /\ OnlyEns

\* os.WriteFile truncates and then writes, whatever is in the file by now.
TruncateToken(c) ==
    /\ ens[c].pc = "truncate"
    /\ tokenFile' = NoToken
    /\ Goto(c, "write")
    /\ UNCHANGED <<scene, proc, port, pidFile, exe, un, up, faults, harmed>>

WriteToken(c) ==
    /\ ens[c].pc = "write"
    /\ tokenFile' = ens[c].tok
    /\ Goto(c, "ping")
    /\ UNCHANGED <<scene, proc, port, pidFile, exe, un, up, faults, harmed>>

\* A probe that finds the listener and one that does not, or not in time.
Ping(c, from, yes) ==
    /\ ens[c].pc = from
    /\ Answers
    /\ Goto(c, yes)
    /\ OnlyEns
NoPing(c, from, no) ==
    /\ ens[c].pc = from
    /\ Answers => faults > 0
    /\ faults' = IF Answers THEN faults - 1 ELSE faults
    /\ Goto(c, no)
    /\ UNCHANGED <<scene, proc, port, tokenFile, pidFile, exe, un, up, harmed>>

FirstPing(c) == Ping(c, "ping", "verify") \/ NoPing(c, "ping", "spawn")

\* verifyServer and the switch on decideStale: the listener may have changed
\* since the ping.
Verify(c) ==
    /\ ens[c].pc = "verify"
    /\ LET next == IF Proves(ens[c].tok) THEN DecideStale(ens[c].ver) ELSE "not_ours"
       IN  ens' = [ens EXCEPT ![c] = IF next = "stop" THEN [@ EXCEPT !.pc = next, !.pid = ProvenPid]
                                                      ELSE Result(next)]
    /\ OnlyEns

\* stopStale: signal the proven process, then wait for the address, not for
\* the process.
StopStale(c) ==
    /\ ens[c].pc = "stop"
    /\ Sigterm(ens[c].pid)
    /\ ens' = [ens EXCEPT ![c].pc = "await", ![c].pid = Nobody]
    /\ UNCHANGED <<scene, port, tokenFile, pidFile, exe, un, up, faults>>
AwaitRelease(c) == NoPing(c, "await", "spawn")

\* spawnDetached: the child runs the binary now on disk, not the caller's
\* build, and gets the caller's token in its environment.
Spawn(c) ==
    /\ ens[c].pc = "spawn"
    /\ Free # {}
    /\ proc' = [proc EXCEPT ![Fresh] = Serve(ens[c].tok, exe)]
    /\ ens' = [ens EXCEPT ![c].pc = "pidfile", ![c].pid = Fresh]
    /\ UNCHANGED <<scene, port, tokenFile, pidFile, exe, un, up, faults, harmed>>

WritePidFile(c) ==
    /\ ens[c].pc = "pidfile"
    /\ pidFile' = ens[c].pid
    /\ ens' = [ens EXCEPT ![c].pc = "poll", ![c].pid = Nobody]
    /\ UNCHANGED <<scene, proc, port, tokenFile, exe, un, up, faults, harmed>>

PollHealthy(c) == Ping(c, "poll", "confirm")

\* The answer may come from another daemon than the child: any holder of the
\* token will do.
Confirm(c) ==
    /\ ens[c].pc = "confirm"
    /\ ens' = [ens EXCEPT ![c] = Result(IF Proves(ens[c].tok) THEN "ok" ELSE "not_ours")]
    /\ OnlyEns

\* A deadline of stopStale or of the health poll passes.
Deadline(c) ==
    /\ ens[c].pc \in {"await", "poll"}
    /\ ens' = [ens EXCEPT ![c] = Result("failed")]
    /\ OnlyEns

Ensure(c) ==
    \/ TruncateToken(c) \/ WriteToken(c) \/ FirstPing(c) \/ Verify(c)
    \/ StopStale(c) \/ AwaitRelease(c) \/ Spawn(c) \/ WritePidFile(c)
    \/ PollHealthy(c) \/ Confirm(c) \/ Deadline(c)

-----------------------------------------------------------------------------
(* serve.                                                                  *)

OnlyProc == UNCHANGED <<scene, tokenFile, pidFile, exe, ens, un, up, faults, harmed>>

\* Run: the listener and the boot fetch start together; a process that cannot
\* bind has started its fetch all the same.
Bind(p) ==
    /\ proc[p].st = "boot"
    /\ proc' = [proc EXCEPT ![p].st = IF Answers THEN "closing" ELSE "serving",
                            ![p].fetch = scene.share]
    /\ port' = IF Answers THEN port ELSE p
    /\ OnlyProc

\* A tool call that writes to the store.
BeginCall(p) ==
    /\ scene.calls
    /\ proc[p].st = "serving" /\ ~proc[p].call
    /\ proc' = [proc EXCEPT ![p].call = TRUE]
    /\ UNCHANGED port /\ OnlyProc
EndCall(p) ==
    /\ proc[p].call
    /\ proc' = [proc EXCEPT ![p].call = FALSE]
    /\ UNCHANGED port /\ OnlyProc

\* The fetch ends: imported, failed, timed out, or cancelled by the signal.
EndFetch(p) ==
    /\ proc[p].fetch
    /\ proc' = [proc EXCEPT ![p].fetch = FALSE]
    /\ UNCHANGED port /\ OnlyProc

\* The signal reaches Run: Shutdown closes the listener first.
ShutdownAfterDrain(p) ==
    /\ proc[p].st = "serving" /\ proc[p].term /\ ~proc[p].call
    /\ proc' = [proc EXCEPT ![p].st = "draining"]
    /\ port' = Nobody
    /\ OnlyProc
Shutdown(p) ==
    /\ proc[p].st = "serving" /\ proc[p].term
    /\ proc' = [proc EXCEPT ![p].st = "draining"]
    /\ port' = Nobody
    /\ OnlyProc

\* Shutdown returns once no request is left, or Close cuts the connections
\* when the grace is over; a handler may then still run.
Drained(p) ==
    /\ proc[p].st = "draining"
    /\ proc[p].call => scene.grace
    /\ proc' = [proc EXCEPT ![p].st = "closing", ![p].cut = proc[p].call]
    /\ UNCHANGED port /\ OnlyProc

\* Run returns after fetchWG.Wait; the caller closes the store and exits.
Exit(p) ==
    /\ proc[p].st = "closing"
    /\ ~proc[p].fetch
    /\ proc' = [proc EXCEPT ![p] = NoProc]
    /\ UNCHANGED port /\ OnlyProc

\* One program that is not ours gets a pid that the pid file still names.
Recycle(p) ==
    /\ scene.strangers /\ \A q \in Pids : proc[q].st # "stranger"
    /\ p = pidFile /\ p \in Free
    /\ proc' = [proc EXCEPT ![p] = Stranger]
    /\ UNCHANGED port /\ OnlyProc

Server(p) == Bind(p) \/ EndCall(p) \/ EndFetch(p) \/ Shutdown(p) \/ Drained(p) \/ Exit(p)

-----------------------------------------------------------------------------
(* uninstall --all and --purge, its last two steps.                        *)

OnlyUn == UNCHANGED <<scene, port, exe, ens, up, faults>>

\* The pid file and the token; a missing token is minted here too.
UninstallRead ==
    /\ scene.uninstall /\ un.pc = "idle"
    /\ un' = [pc |-> IF pidFile = Nobody THEN "not_running" ELSE "verify", pid |-> pidFile,
              tok |-> IF tokenFile # NoToken THEN tokenFile ELSE NewToken]
    /\ tokenFile' = IF pidFile = Nobody THEN tokenFile ELSE un'.tok
    /\ UNCHANGED <<proc, pidFile, harmed>> /\ OnlyUn

\* Only the listener that proves to be the recorded process is signalled; on
\* every refusal the pid file stays.
UninstallVerifyTokenOnly ==
    /\ un.pc = "verify"
    /\ un' = [un EXCEPT !.pc = IF Proves(un.tok) THEN "signal" ELSE "not_verified"]
    /\ UNCHANGED <<proc, tokenFile, pidFile, harmed>> /\ OnlyUn
UninstallVerify ==
    /\ un.pc = "verify"
    /\ un' = [un EXCEPT !.pc = IF Proves(un.tok) /\ ProvenPid = un.pid THEN "signal" ELSE "not_verified"]
    /\ UNCHANGED <<proc, tokenFile, pidFile, harmed>> /\ OnlyUn

\* The file is removed whether or not the process was still there, and
\* whatever it names by now.
UninstallSignal ==
    /\ un.pc = "signal"
    /\ Sigterm(un.pid)
    /\ un' = [un EXCEPT !.pc = IF Alive(un.pid) THEN "stopped" ELSE "not_running"]
    /\ pidFile' = Nobody
    /\ UNCHANGED tokenFile /\ OnlyUn

\* RemoveAll of the state directory, without waiting for anybody.
Purge ==
    /\ scene.purge
    /\ un.pc \in {"not_running", "not_verified", "stopped"}
    /\ un' = [un EXCEPT !.pc = "purged"]
    /\ tokenFile' = NoToken /\ pidFile' = Nobody
    /\ UNCHANGED <<proc, harmed>> /\ OnlyUn

Uninstall == UninstallRead \/ UninstallVerify \/ UninstallSignal \/ Purge

-----------------------------------------------------------------------------
(* upgrade.                                                                *)

OnlyUp == UNCHANGED <<scene, proc, port, tokenFile, pidFile, ens, un, faults, harmed>>

IsNewer(current, latest) == current # Dev /\ latest > current

\* The release is newer and has both assets; the checksum is fetched.
UpgradeCheck ==
    /\ up.pc = "idle" /\ IsNewer(exe, scene.release)
    /\ up' = [up EXCEPT !.pc = "download"]
    /\ UNCHANGED exe /\ OnlyUp

\* downloadToTemp: the whole asset, or another file of a legal size; an error
\* removes the temporary file.
UpgradeDownload ==
    /\ up.pc = "download"
    /\ \/ \E got \in {scene.release, Torn} : up' = [pc |-> "install", tmp |-> got]
       \/ up' = [up EXCEPT !.pc = "failed"]
    /\ UNCHANGED exe /\ OnlyUp

\* A mismatch leaves through os.Exit, past the deferred removal of the file.
UpgradeInstallUnchecked ==
    /\ up.pc = "install"
    /\ exe' = up.tmp /\ up' = [pc |-> "upgraded", tmp |-> Legacy]
    /\ OnlyUp
UpgradeInstall ==
    /\ up.pc = "install"
    /\ IF up.tmp = scene.release
       THEN exe' = up.tmp /\ up' = [pc |-> "upgraded", tmp |-> Legacy]
       ELSE up' = [up EXCEPT !.pc = "failed"] /\ UNCHANGED exe
    /\ OnlyUp

Upgrade == UpgradeCheck \/ UpgradeDownload \/ UpgradeInstall

-----------------------------------------------------------------------------
Next ==
    \/ \E c \in Cmds : Start(c) \/ Ensure(c)
    \/ \E p \in Pids : Server(p) \/ BeginCall(p) \/ Recycle(p)
    \/ Uninstall
    \/ Upgrade

\* A started command and every serve process make progress.  Nothing makes a user
\* start a command, a tool call end, an upgrade happen, or a stranger take a pid.
Fairness ==
    /\ \A c \in Cmds : WF_vars(Ensure(c))
    /\ \A p \in Pids : WF_vars(Bind(p)) /\ WF_vars(EndFetch(p)) /\ WF_vars(Shutdown(p))
                       /\ WF_vars(Drained(p)) /\ WF_vars(Exit(p))

Spec == Init /\ [][Next]_vars /\ Fairness

-----------------------------------------------------------------------------
(* Properties.                                                             *)

\* Types; besides, exactly the serving daemon, or a squatter, has the port, and
\* the executable is a whole published build whatever a download delivered.
\* (mcpserver/server.go Run, cmd_upgrade.go)
TypeOK ==
    /\ exe # Torn
    /\ proc \in [Pids -> [st : {"none", "stranger", "boot", "serving", "draining", "closing"},
                          tok : Tokens \cup {NoToken}, ver : Int,
                          term : BOOLEAN, fetch : BOOLEAN, call : BOOLEAN, cut : BOOLEAN]]
    /\ port \in Pids \cup {Nobody}
    /\ tokenFile \in Tokens \cup {NoToken} /\ pidFile \in Pids \cup {Nobody}
    /\ \A c \in Cmds : ens[c].pid \in Pids \cup {Nobody}
    /\ harmed \subseteq Pids
    /\ \A p \in Pids : proc[p].st = "serving" => port = p
    /\ port # Nobody => proc[port].st \in {"serving", "stranger"}

\* A signal of ensure-server or uninstall reaches only a serve process that
\* holds the sender's token, never another program that was given a recycled
\* pid; ensure-server signals only a daemon of another build than its own.  A
\* process closes its store only when no boot fetch and no tool call writes to
\* it, unless the shutdown grace ran out on that call.
\* (cmd_ensure_server.go stopStale, cmd_uninstall.go stopServerStatus,
\* mcpserver/server.go Run)
Entitled(p) ==
    \/ \E c \in Cmds : /\ ens[c].pc = "stop" /\ ens[c].pid = p /\ ens[c].tok = proc[p].tok
                       /\ proc[p].ver # ens[c].ver \/ ens[c].ver = Dev
    \/ un.pc = "signal" /\ un.pid = p /\ un.tok = proc[p].tok
OrderlyStep ==
    /\ harmed' = harmed
    /\ \A p \in Pids :
         /\ proc'[p].term /\ ~proc[p].term => Entitled(p)
         /\ Alive(p) /\ proc'[p].st = "none" => ~proc[p].fetch /\ (proc[p].call => proc[p].cut)
OrderlyEnds == [][OrderlyStep]_vars

\* A command that finds the build it has on disk ends in a daemon of that build
\* that holds the token, or tells its user that it failed: with a token in place,
\* only our own processes on the port and no build installed between two spawns,
\* whatever commands, slow probes, calls that never end and uninstalls it races.
\* And a process that is told to stop is gone in the end, whatever call it serves.
\* (cmd_ensure_server.go newEnsureServerCmd, stopStale; mcpserver/server.go Run)
Current ==
    /\ Answers /\ Alive(port)
    /\ proc[port].ver = exe /\ proc[port].tok = tokenFile
Active(c) == ens[c].pc \notin Final /\ ens[c].ver = exe
CommandsTakeEffect ==
    /\ scene.steady => \A c \in Cmds : Active(c) ~> (Current \/ ens[c].pc \in {"failed", "not_ours"})
    /\ \A p \in Pids : proc[p].term ~> ~Alive(p)

-----------------------------------------------------------------------------
(* Statements of the documentation that the code does not keep: see the    *)
(* README.                                                                 *)

\* "First-run is zero-config", "safe to call before every client request"
\* (cmd_ensure_server.go): with only our processes about, no ensure-server
\* fails the identity check.
FirstRunIsZeroConfig == \A c \in Cmds : ens[c].pc # "not_ours"

\* "guaranteeing no writer txn is killed mid-flight by the deferred Close"
\* (mcpserver/server.go Run).
NoWriterIsKilled == [][\A p \in Pids : Alive(p) /\ proc'[p].st = "none" => ~proc[p].call]_vars

\* "stop before any purge" (cmd_uninstall.go): nobody has the store open when
\* the state directory goes.
PurgeAfterStop == [][un.pc # "purged" /\ un'.pc = "purged" => \A p \in Pids : ~Alive(p)]_vars

\* The deferred removal of the temporary file (cmd_upgrade.go): a failed
\* upgrade leaves no file beside the binary.
FailedUpgradeLeavesNothing == up.pc = "failed" => up.tmp = Legacy

\* "stopServerStatus SIGTERMs the daemon recorded in mcp.pid"
\* (cmd_uninstall.go): when every command is done, the pid file names the
\* daemon that answers.
PidFileNamesDaemon ==
    (\A c \in Cmds : ens[c].pc = "ok") /\ Answers /\ un.pc = "idle" => pidFile = port
=============================================================================
