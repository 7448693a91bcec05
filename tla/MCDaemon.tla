------------------------------ MODULE MCDaemon ------------------------------
(* Starting situations of Daemon.                                          *)
EXTENDS Daemon

CONSTANTS c1, c2

MCCmds == {c1, c2}
MCPids == 1 .. 3

\* A machine with a token, the installed build 1 and a daemon of it.
Installed ==
    [cmds |-> MCCmds, daemon |-> 1, running |-> 1, squatter |-> Nobody, token |-> 1, pidFile |-> 1, exe |-> 1,
     release |-> 1, faults |-> 0, share |-> FALSE, calls |-> FALSE, grace |-> FALSE,
     strangers |-> FALSE, uninstall |-> FALSE, purge |-> FALSE, steady |-> TRUE]
\* An upgrade under a daemon whose tool call need never end.
Upgrading == [Installed EXCEPT !.release = 2, !.calls = TRUE, !.grace = TRUE]
\* Nothing runs; both commands spawn; a probe may time out.
Cold == [Installed EXCEPT !.daemon = Nobody, !.pidFile = Nobody, !.faults = 1, !.share = TRUE]
\* A daemon left from an earlier build, an uninstall, and a stale pid.
Stopping == [Installed EXCEPT !.running = 2, !.exe = 2, !.uninstall = TRUE, !.strangers = TRUE]
Recycled == [Stopping EXCEPT !.cmds = {c1}, !.daemon = Nobody]
\* One more program has the port.
Squatted == [Installed EXCEPT !.daemon = Nobody, !.squatter = 2, !.pidFile = 2, !.exe = 2,
                              !.uninstall = TRUE, !.steady = FALSE]
\* A daemon older than PID binding, and a local build.
OldDaemon == [Installed EXCEPT !.running = Legacy, !.steady = FALSE, !.uninstall = TRUE]
LocalBuild == [Installed EXCEPT !.cmds = {c1}, !.running = Dev, !.exe = Dev, !.steady = FALSE]
\* Clean machine.
FirstStart == [Cold EXCEPT !.token = NoToken, !.steady = FALSE, !.faults = 0, !.share = FALSE]
Purging == [Stopping EXCEPT !.purge = TRUE, !.steady = FALSE, !.strangers = FALSE]
FirstAlone == [FirstStart EXCEPT !.cmds = {c1}, !.steady = TRUE]
PurgeAlone == [Purging EXCEPT !.cmds = {c1}]

\* The upgrade with one command, and two commands that find it done.
UpgradeAlone == [Upgrading EXCEPT !.cmds = {c1}]
UpgradeDone == [Upgrading EXCEPT !.release = 1, !.exe = 2]
\* A cold start that an upgrade races.
ColdUpgrade == [Cold EXCEPT !.release = 2]

DaemonScenes ==
  {UpgradeAlone, UpgradeDone, Cold, Stopping, Recycled, Squatted, OldDaemon, LocalBuild, FirstAlone, PurgeAlone}
\* Where the statements at the end of Daemon fail.
FirstStartOnly == {FirstStart}
PurgingOnly == {Purging}
UpgradingOnly == {Upgrading}
ColdOnly == {Cold}
ColdUpgradeOnly == {ColdUpgrade}
=============================================================================
