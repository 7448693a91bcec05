----------------------------- MODULE MCMachine -----------------------------
(* What the program's commands leave on a machine: a daemon, of Daemon, and *)
(* the files of the agent hosts, of HostConfig.  The two have no state in   *)
(* common; a behaviour follows the one or the other.                        *)
EXTENDS MCDaemon, MCHostConfig

\* No command touches the daemon here.
Parked == [Installed EXCEPT !.cmds = {}, !.daemon = Nobody, !.steady = FALSE]

MachineScenes == DaemonScenes \cup {Parked}

MachineInit ==
  /\ Init
  /\ IF scene = Parked THEN HostInit ELSE InitFrom({Clean})
MachineNext ==
  \/ Next /\ UNCHANGED hostVars
  \/ /\ scene = Parked
     /\ HostNext /\ UNCHANGED vars
MachineSpec == MachineInit /\ [][MachineNext]_<<vars, hostVars>> /\ Fairness
=============================================================================
