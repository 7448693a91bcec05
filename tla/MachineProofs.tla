---------------------------- MODULE MachineProofs ----------------------------
(***************************************************************************)
(* What the program's commands keep on a machine, what its graphs hold and *)
(* what its graph queries answer there.                                    *)
(*   Daemon      for every set of commands and process ids, and every      *)
(*               starting situation: its types, and that nobody is         *)
(*               signalled or ended who should not be                      *)
(*   Listings    lists in order, and passes over a sequence                *)
(*   HostConfig  for all files that hold each block and the table of ours   *)
(*               at most once: that it stays so, what a command            *)
(*               leaves behind, and what it leaves alone                   *)
(*   GraphQuery  for all graphs of symbols and calls, and all questions:   *)
(*               what the answers about them say is true of the graph      *)
(*   IndexBuild  for all repositories and all their edits: a graph has the *)
(*               symbols it owes each of its units                         *)
(***************************************************************************)
EXTENDS Daemon, HostConfig, GraphQuery, IndexBuild,
        FiniteSetTheorems, FunctionTheorems, WellFoundedInduction, TLAPS

(***************************************************************************)
(* Daemon                                                                  *)
(***************************************************************************)

TokensIn == Tokens \cup {NoToken}
PidsIn == Pids \cup {Nobody}
Proc == [st : {"none", "stranger", "boot", "serving", "draining", "closing"},
         tok : TokensIn, ver : Int,
         term : BOOLEAN, fetch : BOOLEAN, call : BOOLEAN, cut : BOOLEAN]

Cmd == [pc : {"idle", "truncate", "write", "ping", "verify", "stop", "await", "spawn",
              "pidfile", "poll", "confirm", "ok", "stale", "not_ours", "failed"},
        tok : TokensIn, ver : Int, pid : PidsIn]

\* What TypeOK leaves out: the commands' own records.
CmdTypes ==
    /\ scene \in Scenes
    /\ exe \in Int
    /\ ens \in [Cmds -> Cmd]
    /\ un \in [pc : {"idle", "verify", "signal", "stopped", "not_running", "not_verified", "purged"},
               pid : PidsIn, tok : TokensIn]
    /\ up \in [pc : {"idle", "download", "install", "upgraded", "failed"}, tmp : Int]

\* A process whose proof a command has in its hands: it may have ended since,
\* but its pid is no other program's.
Target(p, tok) ==
    /\ p \in Pids
    /\ proc[p].st = "none" \/ (Alive(p) /\ proc[p].tok = tok)

StopIsProven ==
    \A c \in Cmds : ens[c].pc = "stop" =>
        /\ Target(ens[c].pid, ens[c].tok)
        /\ Alive(ens[c].pid) => proc[ens[c].pid].ver # ens[c].ver \/ ens[c].ver = Dev
SignalIsProven ==
    /\ un.pc = "verify" => un.pid # Nobody
    /\ un.pc = "signal" => Target(un.pid, un.tok)

\* A call that outlives the listener was cut off.
CallsAreOver ==
    \A p \in Pids : /\ proc[p].st = "boot" => ~proc[p].call
                    /\ proc[p].st = "closing" /\ proc[p].call => proc[p].cut

IInv == TypeOK /\ CmdTypes /\ StopIsProven /\ SignalIsProven /\ CallsAreOver

-----------------------------------------------------------------------------
(* New tokens and new pids exist.                                          *)

\* The image of a finite set is finite and no larger.
LEMMA ImageBound ==
  ASSUME NEW S, NEW f \in [S -> Nat], IsFiniteSet(S)
  PROVE  /\ IsFiniteSet({f[x] : x \in S})
         /\ Cardinality({f[x] : x \in S}) <= Cardinality(S)
<1> DEFINE T == {f[x] : x \in S}
<1>1. f \in Surjection(S, T)
  BY DEF Surjection
<1>2. QED
  BY <1>1, FS_Surjection

\* So is a union of two.
LEMMA UnionBound ==
  ASSUME NEW A, NEW B, IsFiniteSet(A), IsFiniteSet(B), NEW a \in Nat, NEW b \in Nat,
         Cardinality(A) <= a, Cardinality(B) <= b
  PROVE  IsFiniteSet(A \cup B) /\ Cardinality(A \cup B) <= a + b
<1>1. IsFiniteSet(A \cap B)
  BY FS_Intersection
<1>2. /\ Cardinality(A) \in Nat /\ Cardinality(B) \in Nat
      /\ Cardinality(A \cap B) \in Nat
  BY <1>1, FS_CardinalityType
<1>3. /\ IsFiniteSet(A \cup B)
      /\ Cardinality(A \cup B) = Cardinality(A) + Cardinality(B) - Cardinality(A \cap B)
  BY FS_Union
<1>4. QED
  BY <1>2, <1>3

\* There are more tokens than holders of one.
LEMMA NewTokenExists ==
  ASSUME TypeOK, CmdTypes
  PROVE  NewToken \in Tokens
<1> DEFINE nc == Cardinality(Cmds)
           np == Cardinality(Pids)
           ofCmds == {ens[c].tok : c \in Cmds}
           ofProcs == {proc[p].tok : p \in Pids}
           used == (ofCmds \cup ofProcs) \cup ({tokenFile} \cup {un.tok})
<1>1. nc \in Nat /\ np \in Nat
  BY CmdsAssumption, PidsAssumption, FS_CardinalityType
<1>2. IsFiniteSet(ofCmds) /\ Cardinality(ofCmds) <= nc
  <2> DEFINE f == [c \in Cmds |-> ens[c].tok]
  <2>1. f \in [Cmds -> Nat]
    BY <1>1 DEF CmdTypes, Cmd, TokensIn, Tokens, NoToken
  <2>2. {f[c] : c \in Cmds} = ofCmds
    OBVIOUS
  <2> HIDE DEF f
  <2>3. QED
    BY <2>1, <2>2, ImageBound, CmdsAssumption
<1>3. IsFiniteSet(ofProcs) /\ Cardinality(ofProcs) <= np
  <2> DEFINE f == [p \in Pids |-> proc[p].tok]
  <2>1. f \in [Pids -> Nat]
    BY <1>1 DEF TypeOK, Tokens, NoToken
  <2>2. {f[p] : p \in Pids} = ofProcs
    OBVIOUS
  <2> HIDE DEF f
  <2>3. QED
    BY <2>1, <2>2, ImageBound, PidsAssumption
<1>4. IsFiniteSet({tokenFile} \cup {un.tok}) /\ Cardinality({tokenFile} \cup {un.tok}) <= 2
  <2>1. \A x : IsFiniteSet({x}) /\ Cardinality({x}) = 1
    BY FS_Singleton
  <2> SUFFICES ASSUME 1 <= 1
               PROVE  IsFiniteSet({tokenFile} \cup {un.tok}) /\ Cardinality({tokenFile} \cup {un.tok}) <= 2
    OBVIOUS
  <2>2. \A x : IsFiniteSet({x}) /\ Cardinality({x}) <= 1
    BY <2>1, Zenon
  <2>3. IsFiniteSet({tokenFile}) /\ Cardinality({tokenFile}) <= 1
    BY <2>2, Zenon
  <2>4. IsFiniteSet({un.tok}) /\ Cardinality({un.tok}) <= 1
    BY <2>2, Zenon
  <2>5. /\ IsFiniteSet({tokenFile} \cup {un.tok})
        /\ Cardinality({tokenFile} \cup {un.tok}) <= 1 + 1
    BY <2>3, <2>4, UnionBound, 1 \in Nat, Zenon
  <2>6. QED
    BY <2>5
<1> HIDE DEF ofCmds, ofProcs, nc, np
<1>5. IsFiniteSet(used) /\ Cardinality(used) <= (nc + np) + 2
  <2>1. /\ IsFiniteSet(ofCmds \cup ofProcs)
        /\ Cardinality(ofCmds \cup ofProcs) <= nc + np
    BY <1>1, <1>2, <1>3, UnionBound
  <2>2. nc + np \in Nat /\ 2 \in Nat
    BY <1>1
  <2>3. QED
    BY <2>1, <2>2, <1>4, UnionBound DEF used
<1> HIDE DEF used
<1>6. IsFiniteSet(Tokens) /\ Cardinality(Tokens) = nc + np + 3
  <2>1. 1 \in Int /\ nc + np + 3 \in Nat
    BY <1>1
  <2>2. Tokens = 1 .. (nc + np + 3)
    BY DEF Tokens, nc, np
  <2>3. QED
    BY <2>1, <2>2, FS_Interval
<1>7. ~(Tokens \subseteq used)
  BY <1>1, <1>5, <1>6, FS_Subset, FS_CardinalityType
<1>8. PICK t \in Tokens : t \notin used
  BY <1>7
<1>9. /\ t # tokenFile /\ un.tok # t
      /\ \A c \in Cmds : ens[c].tok # t
      /\ \A p \in Pids : proc[p].tok # t
  BY <1>8 DEF used, ofCmds, ofProcs
<1>10. QED
  BY <1>8, <1>9, Zenon DEF NewToken

\* Spawn takes a pid that no process has and no command is about to signal.
LEMMA FreshIsFree ==
  ASSUME Free # {}
  PROVE  Fresh \in Pids /\ Fresh \notin Proven /\ proc[Fresh].st = "none"
BY DEF Fresh, Free
-----------------------------------------------------------------------------
(* The invariant.                                                          *)

LEMMA ProcTyped == TypeOK => proc \in [Pids -> Proc]
BY DEF TypeOK, Proc, TokensIn

\* The starting situations satisfy the invariant.
LEMMA InitIInv == Init => IInv
<1> SUFFICES ASSUME Init
             PROVE  IInv
  OBVIOUS
<1> USE PidsAssumption, ScenesAssumption DEF Nobody, NoToken, Legacy, Torn
<1>1. proc \in [Pids -> Proc]
  <2>1. NoProc \in Proc /\ Stranger \in Proc
    <3>1. NoProc \in Proc
      BY DEF Proc, NoProc, TokensIn
    <3>2. QED
      BY <3>1 DEF Proc, Stranger
  <2>2. [Serve(scene.token, scene.running) EXCEPT !.st = "serving"] \in Proc
    BY DEF Init, Proc, Serve, NoProc, TokensIn
  <2>3. QED
    BY <2>1, <2>2 DEF Init
<1>2. TypeOK
  BY <1>1 DEF Init, TypeOK, Proc, TokensIn, IdleCmd, Serve, Stranger, NoProc
<1>3. CmdTypes
  BY DEF Init, CmdTypes, Cmd, IdleCmd, TokensIn, PidsIn
<1>4. StopIsProven /\ SignalIsProven
  BY DEF Init, StopIsProven, SignalIsProven, IdleCmd
<1>5. CallsAreOver
  BY DEF Init, CallsAreOver, Serve, Stranger, NoProc
<1>6. QED
  BY <1>2, <1>3, <1>4, <1>5 DEF IInv

\* Every step of an ensure-server command keeps it.
LEMMA CommandIInv ==
  ASSUME NEW c \in Cmds, IInv, Start(c) \/ Ensure(c)
  PROVE  IInv'
<1> USE PidsAssumption, ScenesAssumption DEF IInv, Nobody, NoToken, Legacy, Torn
<1>1. CASE Start(c)
  <2>1. TypeOK'
    BY <1>1, NewTokenExists DEF Start, OnlyEns, TypeOK, CmdTypes, Cmd, PidsIn, TokensIn, Alive
  <2>2. CmdTypes'
    BY <1>1, NewTokenExists DEF Start, OnlyEns, CmdTypes, Cmd, TypeOK, PidsIn, TokensIn
  <2>3. StopIsProven'
    BY <1>1, NewTokenExists DEF Start, OnlyEns, StopIsProven, Target, Alive, CmdTypes, Cmd, TypeOK, Proven, PidsIn
  <2>4. SignalIsProven'
    BY <1>1, NewTokenExists DEF Start, OnlyEns, SignalIsProven, Target, Alive, CmdTypes, TypeOK, Proven, PidsIn
  <2>5. CallsAreOver'
    BY <1>1, NewTokenExists DEF Start, OnlyEns, CallsAreOver, TypeOK, StopIsProven, SignalIsProven, Target
  <2>6. QED
    BY <2>1, <2>2, <2>3, <2>4, <2>5 DEF IInv
<1>2. CASE TruncateToken(c)
  <2>1. TypeOK'
    BY <1>2 DEF TruncateToken, Goto, TypeOK, CmdTypes, Cmd, PidsIn, TokensIn, Alive
  <2>2. CmdTypes'
    BY <1>2 DEF TruncateToken, Goto, CmdTypes, Cmd, TypeOK, PidsIn, TokensIn
  <2>3. StopIsProven'
    BY <1>2 DEF TruncateToken, Goto, StopIsProven, Target, Alive, CmdTypes, Cmd, TypeOK, Proven, PidsIn
  <2>4. SignalIsProven'
    BY <1>2 DEF TruncateToken, Goto, SignalIsProven, Target, Alive, CmdTypes, TypeOK, Proven, PidsIn
  <2>5. CallsAreOver'
    BY <1>2 DEF TruncateToken, Goto, CallsAreOver, TypeOK, StopIsProven, SignalIsProven, Target
  <2>6. QED
    BY <2>1, <2>2, <2>3, <2>4, <2>5 DEF IInv
<1>3. CASE WriteToken(c)
  <2>1. TypeOK'
    BY <1>3 DEF WriteToken, Goto, TypeOK, CmdTypes, Cmd, PidsIn, TokensIn, Alive
  <2>2. CmdTypes'
    BY <1>3 DEF WriteToken, Goto, CmdTypes, Cmd, TypeOK, PidsIn, TokensIn
  <2>3. StopIsProven'
    BY <1>3 DEF WriteToken, Goto, StopIsProven, Target, Alive, CmdTypes, Cmd, TypeOK, Proven, PidsIn
  <2>4. SignalIsProven'
    BY <1>3 DEF WriteToken, Goto, SignalIsProven, Target, Alive, CmdTypes, TypeOK, Proven, PidsIn
  <2>5. CallsAreOver'
    BY <1>3 DEF WriteToken, Goto, CallsAreOver, TypeOK, StopIsProven, SignalIsProven, Target
  <2>6. QED
    BY <2>1, <2>2, <2>3, <2>4, <2>5 DEF IInv
<1>4. CASE FirstPing(c)
  <2>1. TypeOK'
    BY <1>4 DEF FirstPing, Ping, NoPing, Goto, OnlyEns, TypeOK, CmdTypes, Cmd, PidsIn, TokensIn, Alive
  <2>2. CmdTypes'
    <3>1. Goto(c, "verify") \/ Goto(c, "spawn")
      BY <1>4 DEF FirstPing, Ping, NoPing
    <3>2. ens' \in [Cmds -> Cmd]
      BY <3>1 DEF Goto, CmdTypes, Cmd
    <3>3. UNCHANGED <<scene, exe, un, up>>
      BY <1>4 DEF FirstPing, Ping, NoPing, OnlyEns
    <3> QED
      BY <3>2, <3>3 DEF CmdTypes
  <2>3. StopIsProven'
    <3>1. /\ proc' = proc
          /\ \A d \in Cmds : ens'[d].pc = "stop" => ens'[d] = ens[d]
      BY <1>4 DEF FirstPing, Ping, NoPing, Goto, OnlyEns, CmdTypes, Cmd
    <3>2. QED
      BY <3>1 DEF StopIsProven, Target, Alive
  <2>4. SignalIsProven'
    BY <1>4 DEF FirstPing, Ping, NoPing, Goto, OnlyEns, SignalIsProven, Target, Alive, CmdTypes, TypeOK, Proven, PidsIn
  <2>5. CallsAreOver'
    BY <1>4 DEF FirstPing, Ping, NoPing, Goto, OnlyEns, CallsAreOver, TypeOK, StopIsProven, SignalIsProven, Target
  <2>6. QED
    BY <2>1, <2>2, <2>3, <2>4, <2>5 DEF IInv
<1>5. CASE Verify(c)
  <2>1. TypeOK'
    BY <1>5 DEF Verify, Result, IdleCmd, OnlyEns, Proves, ProvenPid, Answers, DecideStale, TypeOK, CmdTypes, Cmd, PidsIn, TokensIn, Alive
  <2>2. CmdTypes'
    <3>1. ens[c] \in Cmd /\ ProvenPid \in PidsIn
      BY <1>5 DEF CmdTypes, ProvenPid, TypeOK, PidsIn
    <3>2. ens'[c] \in Cmd
      <4> DEFINE next == IF Proves(ens[c].tok) THEN DecideStale(ens[c].ver) ELSE "not_ours"
      <4>1. next \in {"ok", "stale", "stop", "not_ours"}
        BY DEF DecideStale
      <4>2. ens' = [ens EXCEPT ![c] = IF next = "stop" THEN [@ EXCEPT !.pc = next, !.pid = ProvenPid]
                                                       ELSE Result(next)]
        BY <1>5 DEF Verify
      <4> HIDE DEF next
      <4>3. [ens[c] EXCEPT !.pc = "stop", !.pid = ProvenPid] \in Cmd
        BY <3>1 DEF Cmd
      <4>4. next # "stop" => Result(next) \in Cmd
        BY <4>1 DEF Cmd, Result, IdleCmd, TokensIn, PidsIn
      <4>5. QED
        BY <4>2, <4>3, <4>4 DEF CmdTypes
    <3>3. ens' = [ens EXCEPT ![c] = ens'[c]]
      BY <1>5 DEF Verify, CmdTypes
    <3>4. QED
      BY <3>2, <3>3, <1>5 DEF CmdTypes, Verify, OnlyEns
  <2>3. StopIsProven'
    BY <1>5 DEF Verify, Result, IdleCmd, OnlyEns, Proves, ProvenPid, Answers, DecideStale, StopIsProven, Target, Alive, CmdTypes, Cmd, TypeOK, Proven, PidsIn
  <2>4. SignalIsProven'
    BY <1>5 DEF Verify, Result, IdleCmd, OnlyEns, Proves, ProvenPid, Answers, DecideStale, SignalIsProven, Target, Alive, CmdTypes, TypeOK, Proven, PidsIn
  <2>5. CallsAreOver'
    BY <1>5 DEF Verify, Result, IdleCmd, OnlyEns, Proves, ProvenPid, Answers, DecideStale, CallsAreOver, TypeOK, StopIsProven, SignalIsProven, Target
  <2>6. QED
    BY <2>1, <2>2, <2>3, <2>4, <2>5 DEF IInv
<1>6. CASE StopStale(c)
  <2>1. TypeOK'
    <3> DEFINE r == [proc[ens[c].pid] EXCEPT !.term = Alive(ens[c].pid)]
    <3>1. ens[c].pid \in Pids
      BY <1>6 DEF StopStale, Sigterm, StopIsProven, SignalIsProven, Target
    <3>2. r \in Proc
      <4>1. proc[ens[c].pid] \in Proc /\ Alive(ens[c].pid) \in BOOLEAN
        BY <3>1, ProcTyped DEF Alive
      <4>2. QED
        BY <4>1 DEF Proc
    <3>3. proc' = [proc EXCEPT ![ens[c].pid] = r]
      BY <1>6 DEF StopStale, Sigterm
    <3> HIDE DEF r
    <3>4. proc' \in [Pids -> Proc]
      BY <3>1, <3>2, <3>3, ProcTyped
    <3>5. QED
      <4>1. \A p \in Pids : proc'[p].st = proc[p].st
        BY <3>1, <3>3, ProcTyped DEF r, Proc
      <4>2. /\ \A d \in Cmds : ens'[d].pid \in Pids \cup {Nobody}
            /\ harmed' \subseteq Pids
        BY <1>6, <3>1 DEF StopStale, Sigterm, TypeOK, CmdTypes, Cmd
      <4>3. UNCHANGED <<exe, port, tokenFile, pidFile>>
        BY <1>6 DEF StopStale
      <4>4. QED
        BY <3>4, <4>1, <4>2, <4>3 DEF TypeOK, Proc, TokensIn
  <2>2. CmdTypes'
    <3> DEFINE r == [ens[c] EXCEPT !.pc = "await", !.pid = Nobody]
    <3>1. r \in Cmd
      <4>1. ens[c] \in Cmd
        BY DEF CmdTypes
      <4>2. QED
        BY <4>1 DEF Cmd, PidsIn
    <3>2. ens' = [ens EXCEPT ![c] = r]
      BY <1>6 DEF StopStale
    <3> HIDE DEF r
    <3>3. QED
      BY <3>1, <3>2, <1>6 DEF StopStale, Sigterm, CmdTypes
  <2>3. StopIsProven'
    BY <1>6 DEF StopStale, Sigterm, StopIsProven, Target, Alive, CmdTypes, Cmd, TypeOK, Proven, PidsIn
  <2>4. SignalIsProven'
    BY <1>6 DEF StopStale, Sigterm, SignalIsProven, Target, Alive, CmdTypes, TypeOK, Proven, PidsIn
  <2>5. CallsAreOver'
    BY <1>6 DEF StopStale, Sigterm, CallsAreOver, TypeOK, StopIsProven, SignalIsProven, Target
  <2>6. QED
    BY <2>1, <2>2, <2>3, <2>4, <2>5 DEF IInv
<1>7. CASE AwaitRelease(c)
  <2>1. TypeOK'
    BY <1>7 DEF AwaitRelease, NoPing, Goto, TypeOK, CmdTypes, Cmd, PidsIn, TokensIn, Alive
  <2>2. CmdTypes'
    BY <1>7 DEF AwaitRelease, NoPing, Goto, CmdTypes, Cmd, TypeOK, PidsIn, TokensIn
  <2>3. StopIsProven'
    BY <1>7 DEF AwaitRelease, NoPing, Goto, StopIsProven, Target, Alive, CmdTypes, Cmd, TypeOK, Proven, PidsIn
  <2>4. SignalIsProven'
    BY <1>7 DEF AwaitRelease, NoPing, Goto, SignalIsProven, Target, Alive, CmdTypes, TypeOK, Proven, PidsIn
  <2>5. CallsAreOver'
    <3>1. UNCHANGED proc
      BY <1>7 DEF AwaitRelease, NoPing
    <3>2. QED
      BY <3>1 DEF CallsAreOver
  <2>6. QED
    BY <2>1, <2>2, <2>3, <2>4, <2>5 DEF IInv
<1>8. CASE Spawn(c)
  <2>1. TypeOK'
    <3> DEFINE s == Serve(ens[c].tok, exe)
    <3>1. Fresh \in Pids /\ proc[Fresh].st = "none" /\ ens[c].tok \in TokensIn /\ exe \in Int
      BY <1>8, FreshIsFree DEF Spawn, CmdTypes, Cmd
    <3>2. s \in Proc /\ s.st = "boot"
      BY <3>1 DEF Serve, NoProc, Proc
    <3>3. proc' = [proc EXCEPT ![Fresh] = s]
      BY <1>8 DEF Spawn
    <3> HIDE DEF s
    <3>4. proc' \in [Pids -> Proc]
      BY <3>1, <3>2, <3>3, ProcTyped
    <3>5. \A p \in Pids : proc'[p].st = proc[p].st \/ (proc'[p].st = "boot" /\ proc[p].st = "none")
      BY <3>1, <3>2, <3>3, ProcTyped
    <3>6. \A d \in Cmds : ens'[d].pid \in Pids \cup {Nobody}
      BY <1>8, <3>1 DEF Spawn, CmdTypes, Cmd, PidsIn
    <3>7. UNCHANGED <<exe, port, tokenFile, pidFile, harmed>>
      BY <1>8 DEF Spawn
    <3> QED
      BY <3>4, <3>5, <3>6, <3>7 DEF TypeOK, Proc, TokensIn
  <2>2. CmdTypes'
    <3> DEFINE r == [ens[c] EXCEPT !.pc = "pidfile", !.pid = Fresh]
    <3>1. r \in Cmd
      <4>1. ens[c] \in Cmd
        BY DEF CmdTypes
      <4>2. Fresh \in Pids
        BY <1>8, FreshIsFree DEF Spawn
      <4>3. QED
        BY <4>1, <4>2 DEF Cmd, PidsIn
    <3>2. ens' = [ens EXCEPT ![c] = r]
      BY <1>8 DEF Spawn
    <3> HIDE DEF r
    <3>3. QED
      BY <3>1, <3>2, <1>8 DEF Spawn, Serve, NoProc, CmdTypes
  <2>3. StopIsProven'
    BY <1>8, FreshIsFree DEF Spawn, Serve, NoProc, StopIsProven, Target, Alive, CmdTypes, Cmd, TypeOK, Proven, PidsIn
  <2>4. SignalIsProven'
    BY <1>8, FreshIsFree DEF Spawn, Serve, NoProc, SignalIsProven, Target, Alive, CmdTypes, TypeOK, Proven, PidsIn
  <2>5. CallsAreOver'
    BY <1>8, FreshIsFree DEF Spawn, Serve, NoProc, CallsAreOver, TypeOK, StopIsProven, SignalIsProven, Target
  <2>6. QED
    BY <2>1, <2>2, <2>3, <2>4, <2>5 DEF IInv
<1>9. CASE WritePidFile(c)
  <2>1. TypeOK'
    BY <1>9 DEF WritePidFile, TypeOK, CmdTypes, Cmd, PidsIn, TokensIn, Alive
  <2>2. CmdTypes'
    <3> DEFINE r == [ens[c] EXCEPT !.pc = "poll", !.pid = Nobody]
    <3>1. r \in Cmd
      <4>1. ens[c] \in Cmd
        BY DEF CmdTypes
      <4>2. QED
        BY <4>1 DEF Cmd, PidsIn
    <3>2. ens' = [ens EXCEPT ![c] = r]
      BY <1>9 DEF WritePidFile
    <3> HIDE DEF r
    <3>3. QED
      BY <3>1, <3>2, <1>9 DEF WritePidFile, CmdTypes
  <2>3. StopIsProven'
    BY <1>9 DEF WritePidFile, StopIsProven, Target, Alive, CmdTypes, Cmd, TypeOK, Proven, PidsIn
  <2>4. SignalIsProven'
    BY <1>9 DEF WritePidFile, SignalIsProven, Target, Alive, CmdTypes, TypeOK, Proven, PidsIn
  <2>5. CallsAreOver'
    BY <1>9 DEF WritePidFile, CallsAreOver, TypeOK, StopIsProven, SignalIsProven, Target
  <2>6. QED
    BY <2>1, <2>2, <2>3, <2>4, <2>5 DEF IInv
<1>10. CASE PollHealthy(c)
  <2>1. TypeOK'
    BY <1>10 DEF PollHealthy, Ping, Goto, OnlyEns, TypeOK, CmdTypes, Cmd, PidsIn, TokensIn, Alive
  <2>2. CmdTypes'
    BY <1>10 DEF PollHealthy, Ping, Goto, OnlyEns, CmdTypes, Cmd, TypeOK, PidsIn, TokensIn
  <2>3. StopIsProven'
    BY <1>10 DEF PollHealthy, Ping, Goto, OnlyEns, StopIsProven, Target, Alive, CmdTypes, Cmd, TypeOK, Proven, PidsIn
  <2>4. SignalIsProven'
    BY <1>10 DEF PollHealthy, Ping, Goto, OnlyEns, SignalIsProven, Target, Alive, CmdTypes, TypeOK, Proven, PidsIn
  <2>5. CallsAreOver'
    BY <1>10 DEF PollHealthy, Ping, Goto, OnlyEns, CallsAreOver, TypeOK, StopIsProven, SignalIsProven, Target
  <2>6. QED
    BY <2>1, <2>2, <2>3, <2>4, <2>5 DEF IInv
<1>11. CASE Confirm(c)
  <2>1. TypeOK'
    BY <1>11 DEF Confirm, Result, IdleCmd, OnlyEns, TypeOK, CmdTypes, Cmd, PidsIn, TokensIn, Alive
  <2>2. CmdTypes'
    BY <1>11 DEF Confirm, Result, IdleCmd, OnlyEns, CmdTypes, Cmd, TypeOK, PidsIn, TokensIn
  <2>3. StopIsProven'
    BY <1>11 DEF Confirm, Result, IdleCmd, OnlyEns, StopIsProven, Target, Alive, CmdTypes, Cmd, TypeOK, Proven, PidsIn
  <2>4. SignalIsProven'
    BY <1>11 DEF Confirm, Result, IdleCmd, OnlyEns, SignalIsProven, Target, Alive, CmdTypes, TypeOK, Proven, PidsIn
  <2>5. CallsAreOver'
    BY <1>11 DEF Confirm, Result, IdleCmd, OnlyEns, CallsAreOver, TypeOK, StopIsProven, SignalIsProven, Target
  <2>6. QED
    BY <2>1, <2>2, <2>3, <2>4, <2>5 DEF IInv
<1>12. CASE Deadline(c)
  <2>1. TypeOK'
    BY <1>12 DEF Deadline, Result, IdleCmd, OnlyEns, TypeOK, CmdTypes, Cmd, PidsIn, TokensIn, Alive
  <2>2. CmdTypes'
    BY <1>12 DEF Deadline, Result, IdleCmd, OnlyEns, CmdTypes, Cmd, TypeOK, PidsIn, TokensIn
  <2>3. StopIsProven'
    BY <1>12 DEF Deadline, Result, IdleCmd, OnlyEns, StopIsProven, Target, Alive, CmdTypes, Cmd, TypeOK, Proven, PidsIn
  <2>4. SignalIsProven'
    BY <1>12 DEF Deadline, Result, IdleCmd, OnlyEns, SignalIsProven, Target, Alive, CmdTypes, TypeOK, Proven, PidsIn
  <2>5. CallsAreOver'
    BY <1>12 DEF Deadline, Result, IdleCmd, OnlyEns, CallsAreOver, TypeOK, StopIsProven, SignalIsProven, Target
  <2>6. QED
    BY <2>1, <2>2, <2>3, <2>4, <2>5 DEF IInv
<1>13. QED
  BY <1>1, <1>2, <1>3, <1>4, <1>5, <1>6, <1>7, <1>8, <1>9, <1>10, <1>11, <1>12 DEF Ensure

\* So does every step of a process.
LEMMA ProcessIInv ==
  ASSUME NEW p \in Pids, IInv, Server(p) \/ BeginCall(p) \/ Recycle(p)
  PROVE  IInv'
<1> USE PidsAssumption, ScenesAssumption DEF IInv, Nobody, NoToken, Legacy, Torn
<1>1. CASE Bind(p)
  <2>1. TypeOK'
    <3> DEFINE r == [proc[p] EXCEPT !.st = IF Answers THEN "closing" ELSE "serving", !.fetch = scene.share]
    <3>1. p \in Pids
      OBVIOUS
    <3>2. r \in Proc
      <4>1. proc[p] \in Proc /\ scene.share \in BOOLEAN
        BY ProcTyped DEF CmdTypes
      <4>2. QED
        BY <4>1 DEF Proc
    <3>3. proc' = [proc EXCEPT ![p] = r]
      BY <1>1 DEF Bind, OnlyProc
    <3> HIDE DEF r
    <3>4. proc' \in [Pids -> Proc]
      BY <3>1, <3>2, <3>3, ProcTyped
    <3>5. QED
      BY <3>1, <3>3, <3>4, <1>1 DEF r, Bind, Answers, OnlyProc, Proc, TypeOK, CmdTypes, Cmd, TokensIn, Alive, PidsIn
  <2>2. CmdTypes'
    BY <1>1 DEF Bind, Answers, OnlyProc, CmdTypes, Cmd, TypeOK, PidsIn, TokensIn
  <2>3. StopIsProven'
    BY <1>1 DEF Bind, Answers, OnlyProc, StopIsProven, Target, Alive, CmdTypes, Cmd, TypeOK, Proven, PidsIn
  <2>4. SignalIsProven'
    BY <1>1 DEF Bind, Answers, OnlyProc, SignalIsProven, Target, Alive, CmdTypes, TypeOK, Proven, PidsIn
  <2>5. CallsAreOver'
    BY <1>1 DEF Bind, Answers, OnlyProc, CallsAreOver, TypeOK, StopIsProven, SignalIsProven, Target
  <2>6. QED
    BY <2>1, <2>2, <2>3, <2>4, <2>5 DEF IInv
<1>2. CASE EndCall(p)
  <2>1. TypeOK'
    <3> DEFINE r == [proc[p] EXCEPT !.call = FALSE]
    <3>1. p \in Pids
      OBVIOUS
    <3>2. r \in Proc
      BY <3>1, ProcTyped DEF Proc, Alive
    <3>3. proc' = [proc EXCEPT ![p] = r]
      BY <1>2 DEF EndCall, OnlyProc
    <3> HIDE DEF r
    <3>4. proc' \in [Pids -> Proc]
      BY <3>1, <3>2, <3>3, ProcTyped
    <3>5. QED
      BY <3>1, <3>3, <3>4, <1>2 DEF r, EndCall, OnlyProc, Proc, TypeOK, CmdTypes, Cmd, TokensIn, Alive, PidsIn
  <2>2. CmdTypes'
    BY <1>2 DEF EndCall, OnlyProc, CmdTypes, Cmd, TypeOK, PidsIn, TokensIn
  <2>3. StopIsProven'
    BY <1>2 DEF EndCall, OnlyProc, StopIsProven, Target, Alive, CmdTypes, Cmd, TypeOK, Proven, PidsIn
  <2>4. SignalIsProven'
    BY <1>2 DEF EndCall, OnlyProc, SignalIsProven, Target, Alive, CmdTypes, TypeOK, Proven, PidsIn
  <2>5. CallsAreOver'
    BY <1>2 DEF EndCall, OnlyProc, CallsAreOver, TypeOK, StopIsProven, SignalIsProven, Target
  <2>6. QED
    BY <2>1, <2>2, <2>3, <2>4, <2>5 DEF IInv
<1>3. CASE EndFetch(p)
  <2>1. TypeOK'
    <3> DEFINE r == [proc[p] EXCEPT !.fetch = FALSE]
    <3>1. p \in Pids
      OBVIOUS
    <3>2. r \in Proc
      BY <3>1, ProcTyped DEF Proc, Alive
    <3>3. proc' = [proc EXCEPT ![p] = r]
      BY <1>3 DEF EndFetch, OnlyProc
    <3> HIDE DEF r
    <3>4. proc' \in [Pids -> Proc]
      BY <3>1, <3>2, <3>3, ProcTyped
    <3>5. QED
      BY <3>1, <3>3, <3>4, <1>3 DEF r, EndFetch, OnlyProc, Proc, TypeOK, CmdTypes, Cmd, TokensIn, Alive, PidsIn
  <2>2. CmdTypes'
    BY <1>3 DEF EndFetch, OnlyProc, CmdTypes, Cmd, TypeOK, PidsIn, TokensIn
  <2>3. StopIsProven'
    BY <1>3 DEF EndFetch, OnlyProc, StopIsProven, Target, Alive, CmdTypes, Cmd, TypeOK, Proven, PidsIn
  <2>4. SignalIsProven'
    BY <1>3 DEF EndFetch, OnlyProc, SignalIsProven, Target, Alive, CmdTypes, TypeOK, Proven, PidsIn
  <2>5. CallsAreOver'
    BY <1>3 DEF EndFetch, OnlyProc, CallsAreOver, TypeOK, StopIsProven, SignalIsProven, Target
  <2>6. QED
    BY <2>1, <2>2, <2>3, <2>4, <2>5 DEF IInv
<1>4. CASE Shutdown(p)
  <2>1. TypeOK'
    BY <1>4, SMTT(20) DEF Shutdown, OnlyProc, TypeOK, CmdTypes, Cmd, PidsIn, TokensIn, Alive
  <2>2. CmdTypes'
    BY <1>4 DEF Shutdown, OnlyProc, CmdTypes, Cmd, TypeOK, PidsIn, TokensIn
  <2>3. StopIsProven'
    BY <1>4 DEF Shutdown, OnlyProc, StopIsProven, Target, Alive, CmdTypes, Cmd, TypeOK, Proven, PidsIn
  <2>4. SignalIsProven'
    BY <1>4 DEF Shutdown, OnlyProc, SignalIsProven, Target, Alive, CmdTypes, TypeOK, Proven, PidsIn
  <2>5. CallsAreOver'
    BY <1>4 DEF Shutdown, OnlyProc, CallsAreOver, TypeOK, StopIsProven, SignalIsProven, Target
  <2>6. QED
    BY <2>1, <2>2, <2>3, <2>4, <2>5 DEF IInv
<1>5. CASE Drained(p)
  <2>1. TypeOK'
    <3> DEFINE r == [proc[p] EXCEPT !.st = "closing", !.cut = proc[p].call]
    <3>1. p \in Pids
      OBVIOUS
    <3>2. r \in Proc
      BY <3>1, ProcTyped DEF Proc, Alive
    <3>3. proc' = [proc EXCEPT ![p] = r]
      BY <1>5 DEF Drained, OnlyProc
    <3> HIDE DEF r
    <3>4. proc' \in [Pids -> Proc]
      BY <3>1, <3>2, <3>3, ProcTyped
    <3>5. QED
      BY <3>1, <3>3, <3>4, <1>5 DEF r, Drained, OnlyProc, Proc, TypeOK, CmdTypes, Cmd, TokensIn, Alive, PidsIn
  <2>2. CmdTypes'
    BY <1>5 DEF Drained, OnlyProc, CmdTypes, Cmd, TypeOK, PidsIn, TokensIn
  <2>3. StopIsProven'
    BY <1>5 DEF Drained, OnlyProc, StopIsProven, Target, Alive, CmdTypes, Cmd, TypeOK, Proven, PidsIn
  <2>4. SignalIsProven'
    BY <1>5 DEF Drained, OnlyProc, SignalIsProven, Target, Alive, CmdTypes, TypeOK, Proven, PidsIn
  <2>5. CallsAreOver'
    BY <1>5 DEF Drained, OnlyProc, CallsAreOver, TypeOK, StopIsProven, SignalIsProven, Target
  <2>6. QED
    BY <2>1, <2>2, <2>3, <2>4, <2>5 DEF IInv
<1>6. CASE Exit(p)
  <2>1. TypeOK'
    BY <1>6 DEF Exit, NoProc, OnlyProc, TypeOK, CmdTypes, Cmd, PidsIn, TokensIn, Alive
  <2>2. CmdTypes'
    BY <1>6 DEF Exit, NoProc, OnlyProc, CmdTypes, Cmd, TypeOK, PidsIn, TokensIn
  <2>3. StopIsProven'
    BY <1>6 DEF Exit, NoProc, OnlyProc, StopIsProven, Target, Alive, CmdTypes, Cmd, TypeOK, Proven, PidsIn
  <2>4. SignalIsProven'
    BY <1>6 DEF Exit, NoProc, OnlyProc, SignalIsProven, Target, Alive, CmdTypes, TypeOK, Proven, PidsIn
  <2>5. CallsAreOver'
    BY <1>6 DEF Exit, NoProc, OnlyProc, CallsAreOver, TypeOK, StopIsProven, SignalIsProven, Target
  <2>6. QED
    BY <2>1, <2>2, <2>3, <2>4, <2>5 DEF IInv
<1>7. CASE BeginCall(p)
  <2>1. TypeOK'
    <3> DEFINE r == [proc[p] EXCEPT !.call = TRUE]
    <3>1. p \in Pids
      OBVIOUS
    <3>2. r \in Proc
      BY <3>1, ProcTyped DEF Proc, Alive
    <3>3. proc' = [proc EXCEPT ![p] = r]
      BY <1>7 DEF BeginCall, OnlyProc
    <3> HIDE DEF r
    <3>4. proc' \in [Pids -> Proc]
      BY <3>1, <3>2, <3>3, ProcTyped
    <3>5. QED
      BY <3>1, <3>3, <3>4, <1>7 DEF r, BeginCall, OnlyProc, Proc, TypeOK, CmdTypes, Cmd, TokensIn, Alive, PidsIn
  <2>2. CmdTypes'
    BY <1>7 DEF BeginCall, OnlyProc, CmdTypes, Cmd, TypeOK, PidsIn, TokensIn
  <2>3. StopIsProven'
    BY <1>7 DEF BeginCall, OnlyProc, StopIsProven, Target, Alive, CmdTypes, Cmd, TypeOK, Proven, PidsIn
  <2>4. SignalIsProven'
    BY <1>7 DEF BeginCall, OnlyProc, SignalIsProven, Target, Alive, CmdTypes, TypeOK, Proven, PidsIn
  <2>5. CallsAreOver'
    BY <1>7 DEF BeginCall, OnlyProc, CallsAreOver, TypeOK, StopIsProven, SignalIsProven, Target
  <2>6. QED
    BY <2>1, <2>2, <2>3, <2>4, <2>5 DEF IInv
<1>8. CASE Recycle(p)
  <2>1. TypeOK'
    <3> DEFINE r == Stranger
    <3>1. p \in Pids
      OBVIOUS
    <3>2. r \in Proc
      <4>1. NoProc \in Proc
        BY DEF Proc, NoProc, TokensIn
      <4>2. QED
        BY <4>1 DEF Proc, Stranger
    <3>3. proc' = [proc EXCEPT ![p] = r]
      BY <1>8 DEF Recycle, OnlyProc
    <3> HIDE DEF r
    <3>4. proc' \in [Pids -> Proc]
      BY <3>1, <3>2, <3>3, ProcTyped
    <3>5. QED
      BY <3>1, <3>3, <3>4, <1>8 DEF r, Recycle, Stranger, NoProc, Free, Proven, OnlyProc, Proc, TypeOK, CmdTypes, Cmd, TokensIn, Alive, PidsIn
  <2>2. CmdTypes'
    BY <1>8 DEF Recycle, Stranger, NoProc, Free, Proven, OnlyProc, CmdTypes, Cmd, TypeOK, PidsIn, TokensIn
  <2>3. StopIsProven'
    BY <1>8 DEF Recycle, Stranger, NoProc, Free, Proven, OnlyProc, StopIsProven, Target, Alive, CmdTypes, Cmd, TypeOK, PidsIn
  <2>4. SignalIsProven'
    BY <1>8 DEF Recycle, Stranger, NoProc, Free, Proven, OnlyProc, SignalIsProven, Target, Alive, CmdTypes, TypeOK, PidsIn
  <2>5. CallsAreOver'
    BY <1>8 DEF Recycle, Stranger, NoProc, Free, Proven, OnlyProc, CallsAreOver, TypeOK, StopIsProven, SignalIsProven, Target
  <2>6. QED
    BY <2>1, <2>2, <2>3, <2>4, <2>5 DEF IInv
<1>9. QED
  BY <1>1, <1>2, <1>3, <1>4, <1>5, <1>6, <1>7, <1>8 DEF Server

\* So does every step of an uninstall or an upgrade.
LEMMA OtherIInv ==
  ASSUME IInv, Uninstall \/ Upgrade
  PROVE  IInv'
<1> USE PidsAssumption, ScenesAssumption DEF IInv, Nobody, NoToken, Legacy, Torn
<1>1. CASE UninstallRead
  <2>1. TypeOK'
    BY <1>1, NewTokenExists DEF UninstallRead, OnlyUn, TypeOK, CmdTypes, Cmd, PidsIn, TokensIn, Alive
  <2>2. CmdTypes'
    BY <1>1, NewTokenExists DEF UninstallRead, OnlyUn, CmdTypes, Cmd, TypeOK, PidsIn, TokensIn
  <2>3. StopIsProven'
    BY <1>1, NewTokenExists DEF UninstallRead, OnlyUn, StopIsProven, Target, Alive, CmdTypes, Cmd, TypeOK, Proven, PidsIn
  <2>4. SignalIsProven'
    BY <1>1, NewTokenExists DEF UninstallRead, OnlyUn, SignalIsProven, Target, Alive, CmdTypes, TypeOK, Proven, PidsIn
  <2>5. CallsAreOver'
    BY <1>1, NewTokenExists DEF UninstallRead, OnlyUn, CallsAreOver, TypeOK, StopIsProven, SignalIsProven, Target
  <2>6. QED
    BY <2>1, <2>2, <2>3, <2>4, <2>5 DEF IInv
<1>2. CASE UninstallVerify
  <2>1. TypeOK'
    BY <1>2 DEF UninstallVerify, OnlyUn, Proves, ProvenPid, Answers, TypeOK, CmdTypes, Cmd, PidsIn, TokensIn, Alive
  <2>2. CmdTypes'
    BY <1>2 DEF UninstallVerify, OnlyUn, Proves, ProvenPid, Answers, CmdTypes, Cmd, TypeOK, PidsIn, TokensIn
  <2>3. StopIsProven'
    BY <1>2 DEF UninstallVerify, OnlyUn, Proves, ProvenPid, Answers, StopIsProven, Target, Alive, CmdTypes, Cmd, TypeOK, Proven, PidsIn
  <2>4. SignalIsProven'
    BY <1>2 DEF UninstallVerify, OnlyUn, Proves, ProvenPid, Answers, SignalIsProven, Target, Alive, CmdTypes, TypeOK, Proven, PidsIn
  <2>5. CallsAreOver'
    BY <1>2 DEF UninstallVerify, OnlyUn, Proves, ProvenPid, Answers, CallsAreOver, TypeOK, StopIsProven, SignalIsProven, Target
  <2>6. QED
    BY <2>1, <2>2, <2>3, <2>4, <2>5 DEF IInv
<1>3. CASE UninstallSignal
  <2>1. TypeOK'
    <3> DEFINE r == [proc[un.pid] EXCEPT !.term = Alive(un.pid)]
    <3>1. un.pid \in Pids
      BY <1>3 DEF UninstallSignal, OnlyUn, Sigterm, StopIsProven, SignalIsProven, Target
    <3>2. r \in Proc
      <4>1. proc[un.pid] \in Proc /\ Alive(un.pid) \in BOOLEAN
        BY <3>1, ProcTyped DEF Alive
      <4>2. QED
        BY <4>1 DEF Proc
    <3>3. proc' = [proc EXCEPT ![un.pid] = r]
      BY <1>3 DEF UninstallSignal, OnlyUn, Sigterm
    <3> HIDE DEF r
    <3>4. proc' \in [Pids -> Proc]
      BY <3>1, <3>2, <3>3, ProcTyped
    <3>5. QED
      BY <3>1, <3>3, <3>4, <1>3 DEF r, UninstallSignal, OnlyUn, Sigterm, Proc, TypeOK, CmdTypes, Cmd, TokensIn, Alive, PidsIn
  <2>2. CmdTypes'
    BY <1>3 DEF UninstallSignal, OnlyUn, Sigterm, CmdTypes, Cmd, TypeOK, PidsIn, TokensIn
  <2>3. StopIsProven'
    BY <1>3 DEF UninstallSignal, OnlyUn, Sigterm, StopIsProven, Target, Alive, CmdTypes, Cmd, TypeOK, Proven, PidsIn
  <2>4. SignalIsProven'
    BY <1>3 DEF UninstallSignal, OnlyUn, Sigterm, SignalIsProven, Target, Alive, CmdTypes, TypeOK, Proven, PidsIn
  <2>5. CallsAreOver'
    BY <1>3 DEF UninstallSignal, OnlyUn, Sigterm, CallsAreOver, TypeOK, StopIsProven, SignalIsProven, Target
  <2>6. QED
    BY <2>1, <2>2, <2>3, <2>4, <2>5 DEF IInv
<1>4. CASE Purge
  <2>1. TypeOK'
    BY <1>4 DEF Purge, OnlyUn, TypeOK, CmdTypes, Cmd, PidsIn, TokensIn, Alive
  <2>2. CmdTypes'
    BY <1>4 DEF Purge, OnlyUn, CmdTypes, Cmd, TypeOK, PidsIn, TokensIn
  <2>3. StopIsProven'
    BY <1>4 DEF Purge, OnlyUn, StopIsProven, Target, Alive, CmdTypes, Cmd, TypeOK, Proven, PidsIn
  <2>4. SignalIsProven'
    BY <1>4 DEF Purge, OnlyUn, SignalIsProven, Target, Alive, CmdTypes, TypeOK, Proven, PidsIn
  <2>5. CallsAreOver'
    BY <1>4 DEF Purge, OnlyUn, CallsAreOver, TypeOK, StopIsProven, SignalIsProven, Target
  <2>6. QED
    BY <2>1, <2>2, <2>3, <2>4, <2>5 DEF IInv
<1>5. CASE UpgradeCheck
  <2>1. TypeOK'
    BY <1>5 DEF UpgradeCheck, OnlyUp, TypeOK, CmdTypes, Cmd, PidsIn, TokensIn, Alive
  <2>2. CmdTypes'
    BY <1>5 DEF UpgradeCheck, OnlyUp, CmdTypes, Cmd, TypeOK, PidsIn, TokensIn
  <2>3. StopIsProven'
    BY <1>5 DEF UpgradeCheck, OnlyUp, StopIsProven, Target, Alive, CmdTypes, Cmd, TypeOK, Proven, PidsIn
  <2>4. SignalIsProven'
    BY <1>5 DEF UpgradeCheck, OnlyUp, SignalIsProven, Target, Alive, CmdTypes, TypeOK, Proven, PidsIn
  <2>5. CallsAreOver'
    BY <1>5 DEF UpgradeCheck, OnlyUp, CallsAreOver, TypeOK, StopIsProven, SignalIsProven, Target
  <2>6. QED
    BY <2>1, <2>2, <2>3, <2>4, <2>5 DEF IInv
<1>6. CASE UpgradeDownload
  <2>1. TypeOK'
    BY <1>6 DEF UpgradeDownload, OnlyUp, TypeOK, CmdTypes, Cmd, PidsIn, TokensIn, Alive
  <2>2. CmdTypes'
    BY <1>6 DEF UpgradeDownload, OnlyUp, CmdTypes, Cmd, TypeOK, PidsIn, TokensIn
  <2>3. StopIsProven'
    BY <1>6 DEF UpgradeDownload, OnlyUp, StopIsProven, Target, Alive, CmdTypes, Cmd, TypeOK, Proven, PidsIn
  <2>4. SignalIsProven'
    BY <1>6 DEF UpgradeDownload, OnlyUp, SignalIsProven, Target, Alive, CmdTypes, TypeOK, Proven, PidsIn
  <2>5. CallsAreOver'
    BY <1>6 DEF UpgradeDownload, OnlyUp, CallsAreOver, TypeOK, StopIsProven, SignalIsProven, Target
  <2>6. QED
    BY <2>1, <2>2, <2>3, <2>4, <2>5 DEF IInv
<1>7. CASE UpgradeInstall
  <2>1. TypeOK'
    BY <1>7 DEF UpgradeInstall, OnlyUp, TypeOK, CmdTypes, Cmd, PidsIn, TokensIn, Alive
  <2>2. CmdTypes'
    BY <1>7 DEF UpgradeInstall, OnlyUp, CmdTypes, Cmd, TypeOK, PidsIn, TokensIn
  <2>3. StopIsProven'
    BY <1>7 DEF UpgradeInstall, OnlyUp, StopIsProven, Target, Alive, CmdTypes, Cmd, TypeOK, Proven, PidsIn
  <2>4. SignalIsProven'
    BY <1>7 DEF UpgradeInstall, OnlyUp, SignalIsProven, Target, Alive, CmdTypes, TypeOK, Proven, PidsIn
  <2>5. CallsAreOver'
    BY <1>7 DEF UpgradeInstall, OnlyUp, CallsAreOver, TypeOK, StopIsProven, SignalIsProven, Target
  <2>6. QED
    BY <2>1, <2>2, <2>3, <2>4, <2>5 DEF IInv
<1>8. QED
  BY <1>1, <1>2, <1>3, <1>4, <1>5, <1>6, <1>7 DEF Uninstall, Upgrade

\* Every step keeps the invariant.
LEMMA NextIInv == IInv /\ [Next]_vars => IInv'
<1> SUFFICES ASSUME IInv, [Next]_vars
             PROVE  IInv'
  OBVIOUS
<1>1. ASSUME NEW c \in Cmds, Start(c) \/ Ensure(c)
      PROVE  IInv'
  BY <1>1, CommandIInv
<1>2. ASSUME NEW p \in Pids, Server(p) \/ BeginCall(p) \/ Recycle(p)
      PROVE  IInv'
  BY <1>2, ProcessIInv
<1>3. CASE Uninstall \/ Upgrade
  BY <1>3, OtherIInv
<1>4. CASE UNCHANGED vars
  BY <1>4 DEF vars, IInv, TypeOK, CmdTypes, StopIsProven, SignalIsProven, CallsAreOver, Target, Alive
<1>5. QED
  BY <1>1, <1>2, <1>3, <1>4 DEF Next

\* IInv is inductive.
THEOREM DaemonInvariant == Spec => []IInv
BY InitIInv, NextIInv, PTL DEF Spec

-----------------------------------------------------------------------------
(* What the invariant is for.                                              *)

\* In every reachable state everything has its type, the one serving daemon
\* has the port, and the installed binary is a whole published build, however
\* often and in whatever order commands, downloads and processes act.
\* (mcpserver/server.go Run, cmd_upgrade.go)
THEOREM DaemonTypes == Spec => []TypeOK
<1>1. IInv => TypeOK
  BY DEF IInv
<1>2. QED
  BY <1>1, DaemonInvariant, PTL

\* A step that signals nobody and ends nobody is orderly.
LEMMA QuietStep ==
  ASSUME harmed' = harmed,
         \A p \in Pids : /\ proc'[p].term => proc[p].term
                         /\ Alive(p) => proc'[p].st # "none"
  PROVE  OrderlyStep
BY DEF OrderlyStep

\* The one the invariant calls a target is no other program, and what the
\* signal changes is the flag of that process.
LEMMA SignalIsEntitled ==
  ASSUME IInv, NEW q \in Pids, NEW t, Target(q, t), Alive(q) => Entitled(q), Sigterm(q)
  PROVE  OrderlyStep
<1>1. proc \in [Pids -> Proc]
  BY ProcTyped DEF IInv
<1>2. harmed' = harmed
  BY DEF Target, Alive, Sigterm
<1>3. /\ proc'[q].term = Alive(q) /\ proc'[q].st = proc[q].st
      /\ \A p \in Pids \ {q} : proc'[p] = proc[p]
  BY <1>1 DEF Sigterm, Proc
<1>4. ASSUME NEW p \in Pids, proc'[p].term, ~proc[p].term
      PROVE  Entitled(p)
  BY <1>3, <1>4
<1>5. ASSUME NEW p \in Pids, Alive(p)
      PROVE  proc'[p].st # "none"
  BY <1>3, <1>5 DEF Alive
<1>6. QED
  BY <1>2, <1>4, <1>5 DEF OrderlyStep

\* A command's steps signal only what the command proved.
LEMMA CommandIsOrderly ==
  ASSUME IInv, NEW c \in Cmds, Start(c) \/ Ensure(c)
  PROVE  OrderlyStep
<1>1. proc \in [Pids -> Proc]
  BY ProcTyped DEF IInv
<1>2. CASE StopStale(c)
  <2>1. Target(ens[c].pid, ens[c].tok) /\ ens[c].pc = "stop"
    BY <1>2 DEF StopStale, IInv, StopIsProven
  <2>2. ASSUME Alive(ens[c].pid)
        PROVE  Entitled(ens[c].pid)
    <3>1. ens[c].tok = proc[ens[c].pid].tok
      BY <2>1, <2>2 DEF Target, Alive
    <3>2. proc[ens[c].pid].ver # ens[c].ver \/ ens[c].ver = Dev
      BY <2>1, <2>2 DEF IInv, StopIsProven
    <3>3. QED
      BY <2>1, <3>1, <3>2 DEF Entitled
  <2>3. ens[c].pid \in Pids
    BY <2>1 DEF Target
  <2>4. QED
    BY <1>2, <2>1, <2>2, <2>3, SignalIsEntitled DEF StopStale
<1>3. CASE Spawn(c)
  <2>1. Fresh \in Pids /\ proc[Fresh].st = "none"
    BY <1>3, FreshIsFree DEF Spawn, Free
  <2>2. /\ proc' = [proc EXCEPT ![Fresh] = Serve(ens[c].tok, exe)]
        /\ harmed' = harmed
    BY <1>3 DEF Spawn
  <2>3. Serve(ens[c].tok, exe).term = FALSE
    BY DEF Serve, NoProc
  <2>4. \A p \in Pids \ {Fresh} : proc'[p] = proc[p]
    BY <1>1, <2>2
  <2>5. proc'[Fresh].term = FALSE
    BY <1>1, <2>1, <2>2, <2>3
  <2>6. QED
    BY <2>1, <2>2, <2>4, <2>5, QuietStep DEF Alive
<1>4. CASE ~StopStale(c) /\ ~Spawn(c)
  <2>1. proc' = proc /\ harmed' = harmed
    BY <1>4 DEF Start, Ensure, TruncateToken, WriteToken, FirstPing, Verify, AwaitRelease,
                WritePidFile, PollHealthy, Confirm, Deadline, Ping, NoPing, OnlyEns
  <2>2. QED
    BY <2>1, QuietStep DEF Alive
<1>5. QED
  BY <1>2, <1>3, <1>4

\* A process signals nobody, and ends by Exit alone.
LEMMA ProcessIsOrderly ==
  ASSUME IInv, NEW q \in Pids, Server(q) \/ BeginCall(q) \/ Recycle(q)
  PROVE  OrderlyStep
<1>1. proc \in [Pids -> Proc]
  BY ProcTyped DEF IInv
<1>2. CASE Exit(q)
  <2>1. /\ proc[q].st = "closing" /\ ~proc[q].fetch
        /\ proc' = [proc EXCEPT ![q] = NoProc] /\ harmed' = harmed
    BY <1>2 DEF Exit, OnlyProc
  <2>2. proc[q].call => proc[q].cut
    BY <2>1 DEF IInv, CallsAreOver
  <2>3. proc'[q] = NoProc /\ \A p \in Pids \ {q} : proc'[p] = proc[p]
    BY <1>1, <2>1
  <2>4. NoProc.term = FALSE
    BY DEF NoProc
  <2>5. ASSUME NEW p \in Pids
        PROVE  /\ proc'[p].term /\ ~proc[p].term => Entitled(p)
               /\ Alive(p) /\ proc'[p].st = "none"
                    => ~proc[p].fetch /\ (proc[p].call => proc[p].cut)
    <3>1. CASE p = q
      BY <2>1, <2>2, <2>3, <2>4, <3>1
    <3>2. CASE p # q
      BY <2>3, <3>2 DEF Alive
    <3>3. QED
      BY <3>1, <3>2
  <2>6. QED
    BY <2>1, <2>5 DEF OrderlyStep
<1>3. CASE Recycle(q)
  <2>1. /\ proc[q].st = "none"
        /\ proc' = [proc EXCEPT ![q] = Stranger] /\ harmed' = harmed
    BY <1>3 DEF Recycle, Free, OnlyProc
  <2>2. Stranger.term = FALSE
    BY DEF Stranger, NoProc
  <2>3. proc'[q] = Stranger /\ \A p \in Pids \ {q} : proc'[p] = proc[p]
    BY <1>1, <2>1
  <2>4. QED
    BY <2>1, <2>2, <2>3, QuietStep DEF Alive
<1>4. CASE Bind(q)
  BY <1>1, <1>4, QuietStep DEF Bind, OnlyProc, Proc, Alive
<1>5. CASE BeginCall(q) \/ EndCall(q) \/ EndFetch(q)
  BY <1>1, <1>5, QuietStep DEF BeginCall, EndCall, EndFetch, OnlyProc, Proc, Alive
<1>6. CASE Shutdown(q) \/ Drained(q)
  BY <1>1, <1>6, QuietStep DEF Shutdown, Drained, OnlyProc, Proc, Alive
<1>7. QED
  BY <1>2, <1>3, <1>4, <1>5, <1>6 DEF Server

\* An uninstall signals only what it proved, and an upgrade nobody.
LEMMA OtherIsOrderly ==
  ASSUME IInv, Uninstall \/ Upgrade
  PROVE  OrderlyStep
<1>1. CASE UninstallSignal
  <2>1. Target(un.pid, un.tok) /\ un.pc = "signal"
    BY <1>1 DEF UninstallSignal, IInv, SignalIsProven
  <2>2. un.pid \in Pids /\ (Alive(un.pid) => Entitled(un.pid))
    BY <2>1 DEF Target, Alive, Entitled
  <2>3. QED
    BY <1>1, <2>1, <2>2, SignalIsEntitled DEF UninstallSignal
<1>2. CASE UninstallRead \/ UninstallVerify \/ Purge \/ Upgrade
  <2>1. proc' = proc /\ harmed' = harmed
    BY <1>2 DEF UninstallRead, UninstallVerify, Purge, Upgrade, UpgradeCheck, UpgradeDownload,
                UpgradeInstall, OnlyUn, OnlyUp
  <2>2. QED
    BY <2>1, QuietStep DEF Alive
<1>3. QED
  BY <1>1, <1>2 DEF Uninstall

\* A signal of ensure-server or uninstall reaches only a process that proved
\* the sender's token, never another program with a recycled pid, and a process
\* ends with no boot fetch and no call in it but one that the shutdown grace
\* cut off. (cmd_ensure_server.go stopStale, cmd_uninstall.go
\* stopServerStatus, mcpserver/server.go Run)
THEOREM DaemonOrderly == Spec => OrderlyEnds
<1>1. IInv /\ [Next]_vars => [OrderlyStep]_vars
  <2> SUFFICES ASSUME IInv, Next
               PROVE  OrderlyStep
    OBVIOUS
  <2>1. ASSUME NEW c \in Cmds, Start(c) \/ Ensure(c)
        PROVE  OrderlyStep
    BY <2>1, CommandIsOrderly
  <2>2. ASSUME NEW p \in Pids, Server(p) \/ BeginCall(p) \/ Recycle(p)
        PROVE  OrderlyStep
    BY <2>2, ProcessIsOrderly
  <2>3. CASE Uninstall \/ Upgrade
    BY <2>3, OtherIsOrderly
  <2>4. QED
    BY <2>1, <2>2, <2>3 DEF Next
<1>2. QED
  BY <1>1, DaemonInvariant, PTL DEF Spec, OrderlyEnds

(***************************************************************************)
(* Listings                                                                *)
(***************************************************************************)

\* Listing, with the order as a set of pairs.
Preceding(S, Lt, x) == {y \in S : <<y, x>> \in Lt}
Listed(S, Lt) ==
  [k \in 1 .. Cardinality(S) |-> CHOOSE x \in S : Cardinality(Preceding(S, Lt, x)) = k - 1]
Less(S) == {p \in S \X S : p[1] < p[2]}

\* A strict total order.
Strict(S, Lt) ==
  /\ \A x \in S : <<x, x>> \notin Lt
  /\ \A x, y, z \in S : <<x, y>> \in Lt /\ <<y, z>> \in Lt => <<x, z>> \in Lt
  /\ \A x, y \in S : x = y \/ <<x, y>> \in Lt \/ <<y, x>> \in Lt

\* A list of all of S, each element once, in the order of Lt.
Enumerates(f, n, S, Lt) ==
  /\ n \in Nat /\ f \in [1 .. n -> S]
  /\ \A j, k \in 1 .. n : j < k => <<f[j], f[k]>> \in Lt
  /\ \A x \in S : \E k \in 1 .. n : f[k] = x

\* The same of numbers.
Climbs(f, n, S) ==
  /\ n \in Nat /\ f \in [1 .. n -> S]
  /\ \A j, k \in 1 .. n : j < k => f[j] < f[k]
  /\ \A x \in S : \E k \in 1 .. n : f[k] = x

\* The places of A one by one moved to those of B.
Moves(h, A, B) ==
  /\ h \in [A -> B]
  /\ \A j, k \in A : j < k => h[j] < h[k]
  /\ \A x \in B : \E k \in A : h[k] = x

Rank(S, Lt) == [x \in S |-> Cardinality(Preceding(S, Lt, x)) + 1]

LEMMA PrecedingIsFinite ==
  ASSUME NEW S, IsFiniteSet(S), NEW Lt, NEW x
  PROVE  /\ Preceding(S, Lt, x) \subseteq S /\ IsFiniteSet(Preceding(S, Lt, x))
         /\ Cardinality(Preceding(S, Lt, x)) \in Nat
BY FS_Subset, FS_CardinalityType DEF Preceding

LEMMA UpTo ==
  ASSUME NEW n \in Nat
  PROVE  IsFiniteSet(1 .. n) /\ Cardinality(1 .. n) = n
<1>1. 1 \in Int /\ n \in Int /\ (1 > n => n = 0)
  OBVIOUS
<1> QED
  BY <1>1, FS_Interval

\* What comes before has a smaller rank.
LEMMA RanksAscend ==
  ASSUME NEW S, IsFiniteSet(S), NEW Lt, Strict(S, Lt), NEW x \in S, NEW y \in S, <<x, y>> \in Lt
  PROVE  Cardinality(Preceding(S, Lt, x)) < Cardinality(Preceding(S, Lt, y))
<1>1. Preceding(S, Lt, x) \subseteq Preceding(S, Lt, y)
  BY DEF Strict, Preceding
<1>2. x \in Preceding(S, Lt, y) /\ x \notin Preceding(S, Lt, x)
  BY DEF Strict, Preceding
<1> QED
  BY <1>1, <1>2, PrecedingIsFinite, FS_Subset

\* Every rank is taken, by one element.
LEMMA RankIsBijection ==
  ASSUME NEW S, IsFiniteSet(S), NEW Lt, Strict(S, Lt)
  PROVE  Rank(S, Lt) \in Bijection(S, 1 .. Cardinality(S))
<1> DEFINE n == Cardinality(S)
           r == Rank(S, Lt)
<1>1. n \in Nat
  BY FS_CardinalityType
<1>2. \A x \in S : r[x] \in 1 .. n
  <2> TAKE x \in S
  <2>1. Preceding(S, Lt, x) \subseteq S /\ x \notin Preceding(S, Lt, x)
    BY DEF Preceding, Strict
  <2>2. Cardinality(Preceding(S, Lt, x)) < n
    BY <1>1, <2>1, FS_Subset, PrecedingIsFinite
  <2> QED
    BY <1>1, <2>2, PrecedingIsFinite DEF Rank
<1>3. \A x, y \in S : r[x] = r[y] => x = y
  <2> TAKE x \in S, y \in S
  <2>1. r[x] = Cardinality(Preceding(S, Lt, x)) + 1 /\ r[y] = Cardinality(Preceding(S, Lt, y)) + 1
    BY DEF Rank
  <2>2. <<x, y>> \in Lt \/ <<y, x>> \in Lt => r[x] # r[y]
    BY <2>1, RanksAscend, PrecedingIsFinite
  <2> QED
    BY <2>2 DEF Strict
<1>4. r \in [S -> 1 .. n]
  BY <1>2 DEF Rank
<1>5. r \in Injection(S, 1 .. n)
  <2> HIDE DEF r
  <2> QED
    BY <1>3, <1>4, Fun_IsInj
<1>6. IsFiniteSet(1 .. n) /\ Cardinality(1 .. n) = n
  BY <1>1, UpTo
<1>7. r \in Surjection(S, 1 .. n)
  <2> HIDE DEF r
  <2> QED
    BY <1>5, <1>6, FS_Injection
<1> QED
  BY <1>5, <1>7 DEF Bijection

LEMMA RanksAreTaken ==
  ASSUME NEW S, IsFiniteSet(S), NEW Lt, Strict(S, Lt)
  PROVE  /\ \A x \in S : Rank(S, Lt)[x] \in 1 .. Cardinality(S)
         /\ \A x, y \in S : Rank(S, Lt)[x] = Rank(S, Lt)[y] => x = y
         /\ \A k \in 1 .. Cardinality(S) : \E x \in S : Rank(S, Lt)[x] = k
<1>1. PICK r, T : r = Rank(S, Lt) /\ T = 1 .. Cardinality(S) /\ r \in Bijection(S, T)
  BY RankIsBijection
<1>2. /\ r \in [S -> T]
      /\ \A x, y \in S : r[x] = r[y] => x = y
      /\ \A k \in T : \E x \in S : r[x] = k
  <2>1. r \in Injection(S, T) /\ r \in Surjection(S, T)
    BY <1>1 DEF Bijection
  <2>2. r \in [S -> T] /\ \A x, y \in S : r[x] = r[y] => x = y
    BY <2>1 DEF Injection, IsInjective
  <2>3. \A k \in T : \E x \in S : r[x] = k
    BY <2>1 DEF Surjection
  <2> QED
    BY <2>2, <2>3
<1>3. \A x \in S : r[x] \in T
  BY <1>2
<1> QED
  BY <1>1, <1>2, <1>3

\* A listing names each element once, in ascending order.
LEMMA ListedIsSorted ==
  ASSUME NEW S, IsFiniteSet(S), NEW Lt, Strict(S, Lt)
  PROVE  /\ Cardinality(S) \in Nat
         /\ Listed(S, Lt) \in [1 .. Cardinality(S) -> S]
         /\ \A j, k \in 1 .. Cardinality(S) :
              j < k => <<Listed(S, Lt)[j], Listed(S, Lt)[k]>> \in Lt
         /\ \A x \in S : \E k \in 1 .. Cardinality(S) : Listed(S, Lt)[k] = x
         /\ \A k \in 1 .. Cardinality(S) :
              Cardinality(Preceding(S, Lt, Listed(S, Lt)[k])) = k - 1
<1> DEFINE n == Cardinality(S)
           L == Listed(S, Lt)
<1>1. n \in Nat
  BY FS_CardinalityType
<1>2. /\ \A x \in S : Rank(S, Lt)[x] \in 1 .. n
      /\ \A x, y \in S : Rank(S, Lt)[x] = Rank(S, Lt)[y] => x = y
      /\ \A k \in 1 .. n : \E x \in S : Rank(S, Lt)[x] = k
  BY RanksAreTaken
<1>3. \A x \in S : Rank(S, Lt)[x] = Cardinality(Preceding(S, Lt, x)) + 1
  BY DEF Rank
<1>4. \A k \in 1 .. n : \E x \in S : Cardinality(Preceding(S, Lt, x)) = k - 1
  <2> TAKE k \in 1 .. n
  <2>1. PICK x \in S : Rank(S, Lt)[x] = k
    BY <1>2
  <2> QED
    BY <2>1, <1>3, PrecedingIsFinite, <1>1
<1>5. DOMAIN L = 1 .. n /\ \A k \in 1 .. n : L[k] = CHOOSE x \in S : Cardinality(Preceding(S, Lt, x)) = k - 1
  BY DEF Listed
<1>6. \A k \in 1 .. n : L[k] \in S /\ Cardinality(Preceding(S, Lt, L[k])) = k - 1
  BY <1>4, <1>5
<1>7. L \in [1 .. n -> S]
  BY <1>6 DEF Listed
<1>8. ASSUME NEW j \in 1 .. n, NEW k \in 1 .. n, j < k
      PROVE  <<L[j], L[k]>> \in Lt
  <2>1. L[j] # L[k]
    BY <1>1, <1>6, <1>8
  <2>2. ~(<<L[k], L[j]>> \in Lt)
    BY <1>1, <1>6, <1>8, RanksAscend
  <2> QED
    BY <1>6, <2>1, <2>2 DEF Strict
<1>9. ASSUME NEW x \in S
      PROVE  \E k \in 1 .. n : L[k] = x
  <2> DEFINE k == Rank(S, Lt)[x]
  <2>1. k \in 1 .. n /\ Cardinality(Preceding(S, Lt, x)) = k - 1
    BY <1>1, <1>2, <1>3, PrecedingIsFinite
  <2>2. Rank(S, Lt)[L[k]] = Rank(S, Lt)[x]
    BY <1>3, <1>6, <2>1
  <2>3. L[k] = x
    BY <1>2, <1>6, <2>1, <2>2
  <2> QED
    BY <2>1, <2>3
<1> QED
  BY <1>1, <1>6, <1>7, <1>8, <1>9

\* There is no other list of that kind.
LEMMA ListedIsUnique ==
  ASSUME NEW S, IsFiniteSet(S), NEW Lt, Strict(S, Lt), NEW n, NEW f, Enumerates(f, n, S, Lt)
  PROVE  n = Cardinality(S) /\ f = Listed(S, Lt)
<1> USE DEF Enumerates
<1>1. ASSUME NEW j \in 1 .. n, NEW k \in 1 .. n, f[j] = f[k]
      PROVE  j = k
  <2>1. <<f[j], f[j]>> \notin Lt /\ <<f[k], f[k]>> \notin Lt
    BY DEF Strict
  <2>2. ~(j < k) /\ ~(k < j)
    BY <1>1, <2>1
  <2> QED
    BY <2>2
<1>2. f \in Bijection(1 .. n, S)
  BY <1>1, Fun_IsBij
<1>3. IsFiniteSet(1 .. n) /\ Cardinality(1 .. n) = n
  BY UpTo
<1>4. Cardinality(S) = n
  BY <1>2, <1>3, FS_Bijection DEF ExistsBijection
<1>5. ASSUME NEW k \in 1 .. n
      PROVE  Cardinality(Preceding(S, Lt, f[k])) = k - 1
  <2> DEFINE g == [j \in 1 .. k - 1 |-> f[j]]
             P == Preceding(S, Lt, f[k])
  <2>1. \A j \in 1 .. k - 1 : g[j] = f[j] /\ j \in 1 .. n
    OBVIOUS
  <2>2. \A j \in 1 .. k - 1 : f[j] \in P
    BY <2>1 DEF Preceding
  <2>3. \A x \in P : \E j \in 1 .. k - 1 : f[j] = x
    <3> TAKE x \in P
    <3>1. PICK j \in 1 .. n : f[j] = x
      BY DEF Preceding
    <3>2. <<f[j], f[k]>> \in Lt
      BY <3>1 DEF Preceding
    <3>3. ~(<<f[k], f[j]>> \in Lt) /\ f[j] # f[k]
      BY <3>2 DEF Strict
    <3>4. ~(k < j) /\ j # k
      BY <3>3
    <3> QED
      BY <3>1, <3>4
  <2>4. g \in [1 .. k - 1 -> P]
    BY <2>1, <2>2
  <2>5. g \in Bijection(1 .. k - 1, P)
    <3>1. \A a, b \in 1 .. k - 1 : g[a] = g[b] => a = b
      BY <1>1, <2>1
    <3>2. \A x \in P : \E j \in 1 .. k - 1 : g[j] = x
      BY <2>1, <2>3
    <3> HIDE DEF g, P
    <3> QED
      BY <2>4, <3>1, <3>2, Fun_IsBij
  <2>6. IsFiniteSet(1 .. k - 1) /\ Cardinality(1 .. k - 1) = k - 1
    <3>1. k - 1 \in Nat
      OBVIOUS
    <3> QED
      BY <3>1, UpTo
  <2>7. Cardinality(P) = Cardinality(1 .. k - 1)
    <3> HIDE DEF g, P
    <3>1. ExistsBijection(1 .. k - 1, P)
      BY <2>5 DEF ExistsBijection
    <3> QED
      BY <3>1, <2>6, FS_Bijection
  <2> QED
    BY <2>6, <2>7
<1>6. \A k \in 1 .. n : f[k] = Listed(S, Lt)[k]
  <2> TAKE k \in 1 .. n
  <2>1. /\ Listed(S, Lt)[k] \in S
        /\ Cardinality(Preceding(S, Lt, Listed(S, Lt)[k])) = k - 1
    <3>1. k \in 1 .. Cardinality(S) /\ Listed(S, Lt) \in [1 .. Cardinality(S) -> S]
      BY <1>4, ListedIsSorted
    <3>2. Cardinality(Preceding(S, Lt, Listed(S, Lt)[k])) = k - 1
      BY <3>1, ListedIsSorted
    <3> QED
      BY <3>1, <3>2
  <2>2. Rank(S, Lt)[f[k]] = Rank(S, Lt)[Listed(S, Lt)[k]]
    BY <1>5, <2>1 DEF Rank
  <2> QED
    BY <2>1, <2>2, RankIsBijection, Fun_BijectionProperties
<1>7. Listed(S, Lt) \in [1 .. n -> S]
  BY <1>4, ListedIsSorted
<1> QED
  BY <1>4, <1>6, <1>7

-----------------------------------------------------------------------------
(* Numbers in ascending order, and what a pass over a sequence picks.        *)

LEMMA LessIsStrict ==
  ASSUME NEW S \in SUBSET Nat
  PROVE  Strict(S, Less(S)) /\ \A x, y : <<x, y>> \in Less(S) <=> x \in S /\ y \in S /\ x < y
BY DEF Strict, Less

LEMMA AscendingIsListed ==
  ASSUME NEW S \in SUBSET Nat
  PROVE  Ascending(S) = Listed(S, Less(S))
<1>1. \A x \in S : {y \in S : y < x} = Preceding(S, Less(S), x)
  BY DEF Preceding, Less
<1>2. Ascending(S) = [k \in 1 .. Cardinality(S) |-> CHOOSE x \in S : Cardinality({y \in S : y < x}) = k - 1]
  BY DEF Ascending, Listing
<1>3. \A k : (CHOOSE x \in S : Cardinality({y \in S : y < x}) = k - 1)
             = CHOOSE x \in S : Cardinality(Preceding(S, Less(S), x)) = k - 1
  BY <1>1
<1> QED
  BY <1>2, <1>3 DEF Listed

LEMMA AscendingFacts ==
  ASSUME NEW S \in SUBSET Nat, IsFiniteSet(S)
  PROVE  Climbs(Ascending(S), Cardinality(S), S)
<1>1. Strict(S, Less(S))
  BY LessIsStrict
<1>2. /\ Cardinality(S) \in Nat
      /\ Ascending(S) \in [1 .. Cardinality(S) -> S]
      /\ \A j, k \in 1 .. Cardinality(S) :
           j < k => <<Ascending(S)[j], Ascending(S)[k]>> \in Less(S)
      /\ \A x \in S : \E k \in 1 .. Cardinality(S) : Ascending(S)[k] = x
  BY <1>1, ListedIsSorted, AscendingIsListed, SMTT(20)
<1>3. \A j, k \in 1 .. Cardinality(S) : j < k => Ascending(S)[j] < Ascending(S)[k]
  BY <1>2, LessIsStrict
<1> QED
  BY <1>2, <1>3 DEF Climbs

LEMMA AscendingIsUnique ==
  ASSUME NEW S \in SUBSET Nat, IsFiniteSet(S), NEW n, NEW f, Climbs(f, n, S)
  PROVE  n = Cardinality(S) /\ f = Ascending(S)
<1>1. Enumerates(f, n, S, Less(S))
  BY LessIsStrict DEF Enumerates, Climbs
<1> QED
  BY <1>1, LessIsStrict, ListedIsUnique, AscendingIsListed

\* What is picked: elements of the places, each once, in the order of the places.
LEMMA PickFacts ==
  ASSUME NEW X, NEW seq \in Seq(X), NEW S \in SUBSET DOMAIN seq
  PROVE  /\ IsFiniteSet(S) /\ S \in SUBSET Nat
         /\ Climbs(Ascending(S), Cardinality(S), S)
         /\ Pick(seq, S) \in Seq(X)
         /\ Len(Pick(seq, S)) = Cardinality(S) /\ DOMAIN Pick(seq, S) = 1 .. Cardinality(S)
         /\ \A k \in 1 .. Cardinality(S) : Ascending(S)[k] \in S /\ Pick(seq, S)[k] = seq[Ascending(S)[k]]
<1> DEFINE n == Cardinality(S)
           f == Ascending(S)
<1>1. S \in SUBSET Nat /\ IsFiniteSet(S)
  <2>1. DOMAIN seq = 1 .. Len(seq) /\ Len(seq) \in Nat
    OBVIOUS
  <2> QED
    BY <2>1, UpTo, FS_Subset
<1>2. Climbs(f, n, S)
  BY <1>1, AscendingFacts
<1>3. n \in Nat /\ f \in [1 .. n -> S]
  BY <1>2 DEF Climbs
<1>4. Pick(seq, S) = [k \in 1 .. n |-> seq[f[k]]]
  BY <1>3 DEF Pick
<1> HIDE DEF n, f
<1>5. \A k \in 1 .. n : f[k] \in S /\ Pick(seq, S)[k] = seq[f[k]]
  BY <1>3, <1>4
<1>6. \A k \in 1 .. n : seq[f[k]] \in X
  BY <1>5
<1>7. Pick(seq, S) \in Seq(X) /\ Len(Pick(seq, S)) = n /\ DOMAIN Pick(seq, S) = 1 .. n
  BY <1>3, <1>4, <1>6
<1> QED
  BY <1>1, <1>2, <1>5, <1>7 DEF n, f

\* Two passes that pick the same things in the same order.
LEMMA SamePick ==
  ASSUME NEW A \in SUBSET Nat, IsFiniteSet(A), NEW B \in SUBSET Nat, NEW h, Moves(h, A, B),
         NEW a, NEW b, \A k \in A : a[k] = b[h[k]]
  PROVE  Pick(a, A) = Pick(b, B)
<1> DEFINE n == Cardinality(A)
           f == Ascending(A)
           g == [k \in 1 .. n |-> h[f[k]]]
<1>1. /\ n \in Nat
      /\ f \in [1 .. n -> A]
      /\ \A j, k \in 1 .. n : j < k => f[j] < f[k]
      /\ \A x \in A : \E k \in 1 .. n : f[k] = x
  BY AscendingFacts DEF Climbs
<1>2. IsFiniteSet(B)
  <2>1. h \in Surjection(A, B)
    BY DEF Surjection, Moves
  <2> QED
    BY <2>1, FS_Surjection
<1> HIDE DEF n, f
<1>3. g \in [1 .. n -> B]
  BY <1>1 DEF Moves
<1>4. \A j, k \in 1 .. n : j < k => g[j] < g[k]
  BY <1>1 DEF Moves
<1>5. \A x \in B : \E k \in 1 .. n : g[k] = x
  <2> TAKE x \in B
  <2>1. PICK y \in A : h[y] = x
    BY DEF Moves
  <2>2. PICK k \in 1 .. n : f[k] = y
    BY <1>1
  <2> QED
    BY <2>1, <2>2
<1>6. n = Cardinality(B) /\ g = Ascending(B)
  <2> HIDE DEF g
  <2>1. Climbs(g, n, B)
    BY <1>1, <1>3, <1>4, <1>5 DEF Climbs
  <2> QED
    BY <1>2, <2>1, AscendingIsUnique
<1>7. DOMAIN f = 1 .. n /\ DOMAIN Ascending(B) = 1 .. n
  BY <1>1, <1>3, <1>6
<1>8. \A k \in 1 .. n : a[f[k]] = b[Ascending(B)[k]]
  <2>1. \A k \in 1 .. n : f[k] \in A /\ Ascending(B)[k] = h[f[k]]
    BY <1>1, <1>6
  <2> QED
    BY <2>1
<1> QED
  BY <1>7, <1>8 DEF Pick, f

\* The same places of two sequences that agree on them.
LEMMA PickSame ==
  ASSUME NEW S \in SUBSET Nat, IsFiniteSet(S), NEW a, NEW b, \A k \in S : a[k] = b[k]
  PROVE  Pick(a, S) = Pick(b, S)
<1>1. DOMAIN Ascending(S) = 1 .. Cardinality(S) /\ \A k \in 1 .. Cardinality(S) : Ascending(S)[k] \in S
  BY AscendingFacts DEF Climbs
<1> QED
  BY <1>1 DEF Pick

\* A pass that picks everything.
LEMMA PickAll ==
  ASSUME NEW X, NEW seq \in Seq(X)
  PROVE  Pick(seq, DOMAIN seq) = seq
<1> DEFINE S == 1 .. Len(seq)
           f == [k \in S |-> k]
<1>1. S \in SUBSET Nat /\ IsFiniteSet(S) /\ DOMAIN seq = S /\ Len(seq) \in Nat
  BY UpTo
<1>2. f \in [1 .. Len(seq) -> S] /\ \A k \in S : f[k] = k
  OBVIOUS
<1>3. Ascending(S) = f
  <2>1. Climbs(f, Len(seq), S)
    BY <1>1, <1>2 DEF Climbs
  <2> HIDE DEF f, S
  <2> QED
    BY <1>1, <2>1, AscendingIsUnique
<1>4. Pick(seq, S) = [k \in S |-> seq[f[k]]]
  BY <1>3 DEF Pick
<1> QED
  BY <1>1, <1>4

\* A pass over what a pass picked.
LEMMA PickOfPick ==
  ASSUME NEW X, NEW seq \in Seq(X), NEW S \in SUBSET DOMAIN seq, NEW T \in SUBSET S,
         NEW C, C = {k \in DOMAIN Pick(seq, S) : Ascending(S)[k] \in T}
  PROVE  Pick(Pick(seq, S), C) = Pick(seq, T)
<1> DEFINE n == Cardinality(S)
           f == Ascending(S)
           h == [k \in C |-> f[k]]
<1>1. /\ S \in SUBSET Nat
      /\ Climbs(f, n, S)
      /\ DOMAIN Pick(seq, S) = 1 .. n
      /\ \A k \in 1 .. n : f[k] \in S /\ Pick(seq, S)[k] = seq[f[k]]
  <2> HIDE DEF n, f
  <2> QED
    BY PickFacts DEF n, f
<1>2. C \in SUBSET Nat /\ C \subseteq 1 .. n /\ IsFiniteSet(C) /\ T \in SUBSET Nat
  BY <1>1, UpTo, FS_Subset DEF Climbs
<1> HIDE DEF n, f
<1>3. h \in [C -> T]
  BY DEF f
<1>4. \A j, k \in C : j < k => h[j] < h[k]
  BY <1>1, <1>2 DEF Climbs
<1>5. \A x \in T : \E k \in C : h[k] = x
  BY <1>1, <1>2 DEF f, Climbs
<1>6. \A k \in C : Pick(seq, S)[k] = seq[h[k]]
  BY <1>1, <1>2
<1> HIDE DEF h
<1>7. Moves(h, C, T)
  BY <1>3, <1>4, <1>5 DEF Moves
<1> QED
  BY <1>2, <1>6, <1>7, SamePick

(***************************************************************************)
(* HostConfig                                                              *)
(***************************************************************************)

LEMMA LeastIsThere ==
  ASSUME NEW S \in SUBSET Nat, S # {}
  PROVE  Least(S) \in S /\ \A j \in S : Least(S) <= j
<1>1. \E k \in S : \A j \in S : k <= j
  <2>1. IsWellFoundedOn(OpToRel(<, Nat), Nat)
    BY NatLessThanWellFounded
  <2>2. PICK k \in S : \A j \in S : <<j, k>> \notin OpToRel(<, Nat)
    BY <2>1, WFMin
  <2>3. \A j \in S : ~(j < k)
    BY <2>2 DEF OpToRel
  <2> QED
    BY <2>3
<1> QED
  BY <1>1 DEF Least

\* Of what a pass picked, what is in E: the same as of all it may pick.
LEMMA LeastOfOne ==
  ASSUME NEW i \in Nat
  PROVE  Least({i}) = i
<1>1. Least({i}) \in {i}
  BY LeastIsThere
<1> QED
  BY <1>1

LEMMA FilterOfPick ==
  ASSUME NEW X, NEW seq \in Seq(X), NEW S \in SUBSET DOMAIN seq, NEW E,
         NEW M, M = Pick(seq, S),
         NEW C, C = {k \in DOMAIN M : M[k] \in E},
         NEW T, T = {k \in S : seq[k] \in E}
  PROVE  Pick(M, C) = Pick(seq, T)
<1>1. C = {k \in DOMAIN Pick(seq, S) : Ascending(S)[k] \in T}
  BY PickFacts
<1>2. T \in SUBSET S
  OBVIOUS
<1> QED
  BY <1>1, <1>2, PickOfPick

\* The places of S that hold something of E.
Holding(seq, S, E) == {k \in S : seq[k] \in E}

LEMMA HeldOfPick ==
  ASSUME NEW X, NEW seq \in Seq(X), NEW S \in SUBSET DOMAIN seq, NEW E, NEW M, M = Pick(seq, S)
  PROVE  Pick(M, Holding(M, DOMAIN M, E)) = Pick(seq, Holding(seq, S, E))
<1> DEFINE C == Holding(M, DOMAIN M, E)
           T == Holding(seq, S, E)
<1>1. C = {k \in DOMAIN Pick(seq, S) : Ascending(S)[k] \in T}
  BY PickFacts, SMTT(20) DEF Holding
<1>2. T \in SUBSET S
  BY DEF Holding
<1> HIDE DEF C, T
<1>3. Pick(Pick(seq, S), C) = Pick(seq, T)
  BY <1>1, <1>2, PickOfPick
<1> QED
  BY <1>3 DEF C, T

\* What a pass for E keeps.
Held(s, E) == Pick(s, Holding(s, DOMAIN s, E))
Joins(u, s, t) == u = s \o t
HoldsNone(s, E) == \A i \in DOMAIN s : s[i] \notin E

\* What stands at the end and is not picked does not matter.
LEMMA HeldOfConcat ==
  ASSUME NEW X, NEW s \in Seq(X), NEW t \in Seq(X), NEW E, HoldsNone(t, E), NEW u, Joins(u, s, t)
  PROVE  Held(u, E) = Held(s, E)
<1> DEFINE T == Holding(s, DOMAIN s, E)
<1>1. /\ DOMAIN u = 1 .. Len(s) + Len(t) /\ DOMAIN s = 1 .. Len(s) /\ DOMAIN t = 1 .. Len(t)
      /\ Len(s) \in Nat /\ Len(t) \in Nat
      /\ \A k \in 1 .. Len(s) : u[k] = s[k]
      /\ \A k \in Len(s) + 1 .. Len(s) + Len(t) : u[k] = t[k - Len(s)] /\ k - Len(s) \in 1 .. Len(t)
  BY DEF Joins
<1>2. Holding(u, DOMAIN u, E) = T
  <2>1. ASSUME NEW k \in DOMAIN u, u[k] \in E
        PROVE  k \in DOMAIN s /\ s[k] \in E
    <3>1. k \in 1 .. Len(s) \/ k \in Len(s) + 1 .. Len(s) + Len(t)
      BY <1>1
    <3> QED
      BY <1>1, <2>1, <3>1 DEF HoldsNone
  <2>2. ASSUME NEW k \in DOMAIN s, s[k] \in E
        PROVE  k \in DOMAIN u /\ u[k] \in E
    BY <1>1, <2>2
  <2> QED
    BY <2>1, <2>2 DEF Holding
<1>3. T \in SUBSET Nat /\ IsFiniteSet(T) /\ \A k \in T : u[k] = s[k]
  BY <1>1, UpTo, FS_Subset DEF Holding
<1> HIDE DEF T
<1>4. Pick(u, T) = Pick(s, T)
  BY <1>3, PickSame
<1> QED
  BY <1>2, <1>4 DEF T, Held

\* What is the user's: what is not ours, of all there may be.
LEMMA OthersHeld ==
  ASSUME NEW X, NEW seq \in Seq(X), NEW ours
  PROVE  Others(seq, ours) = Pick(seq, Holding(seq, DOMAIN seq, X \ ours))
<1>1. {k \in DOMAIN seq : seq[k] \notin ours} = Holding(seq, DOMAIN seq, X \ ours)
  BY DEF Holding
<1> QED
  BY <1>1 DEF Others

\* Dropping what is ours leaves what is the user's.
LEMMA OthersOfPick ==
  ASSUME NEW X, NEW seq \in Seq(X), NEW ours, NEW S \in SUBSET DOMAIN seq,
         \A k \in DOMAIN seq \ S : seq[k] \in ours
  PROVE  Others(Pick(seq, S), ours) = Others(seq, ours)
<1> DEFINE M == Pick(seq, S)
           E == X \ ours
<1>1. M \in Seq(X)
  BY PickFacts
<1>2. Holding(seq, S, E) = Holding(seq, DOMAIN seq, E)
  BY DEF Holding
<1> HIDE DEF M
<1>3. Others(M, ours) = Pick(M, Holding(M, DOMAIN M, E))
  BY <1>1, OthersHeld
<1>4. Others(seq, ours) = Pick(seq, Holding(seq, DOMAIN seq, E))
  BY OthersHeld
<1>5. Pick(M, Holding(M, DOMAIN M, E)) = Pick(seq, Holding(seq, S, E))
  <2> HIDE DEF E
  <2> QED
    BY HeldOfPick DEF M
<1> QED
  BY <1>2, <1>3, <1>4, <1>5 DEF M

\* So does adding what is ours.
LEMMA OthersOfConcat ==
  ASSUME NEW X, NEW s \in Seq(X), NEW t \in Seq(X), NEW ours, \A k \in DOMAIN t : t[k] \in ours
  PROVE  Others(s \o t, ours) = Others(s, ours)
<1> DEFINE u == s \o t
           E == X \ ours
<1>1. u \in Seq(X) /\ HoldsNone(t, E) /\ Joins(u, s, t)
  BY DEF HoldsNone, Joins
<1> HIDE DEF u
<1>2. Others(u, ours) = Held(u, E) /\ Others(s, ours) = Held(s, E)
  BY <1>1, OthersHeld DEF Held
<1>3. Held(u, E) = Held(s, E)
  <2> HIDE DEF E
  <2> QED
    BY <1>1, HeldOfConcat
<1> QED
  BY <1>2, <1>3 DEF u

LEMMA PickNone ==
  ASSUME NEW seq
  PROVE  Pick(seq, {}) = <<>>
<1>1. Climbs(Ascending({}), 0, {})
  BY AscendingFacts, FS_EmptySet
<1>2. DOMAIN Ascending({}) = 1 .. 0
  BY <1>1 DEF Climbs
<1> QED
  BY <1>2 DEF Pick

LEMMA PickOne ==
  ASSUME NEW seq, NEW i \in Nat
  PROVE  Pick(seq, {i}) = <<seq[i]>>
<1>1. IsFiniteSet({i}) /\ Cardinality({i}) = 1
  BY FS_Singleton
<1>2. Climbs(Ascending({i}), 1, {i})
  BY <1>1, AscendingFacts
<1>3. DOMAIN Ascending({i}) = 1 .. 1 /\ Ascending({i})[1] = i
  BY <1>2 DEF Climbs
<1>4. Pick(seq, {i}) = [k \in 1 .. 1 |-> seq[Ascending({i})[k]]]
  BY <1>3 DEF Pick
<1>5. \A k \in 1 .. 1 : seq[Ascending({i})[k]] = seq[i]
  BY <1>3
<1> QED
  BY <1>4, <1>5

\* What is picked was there, and what was there and is picked is there.
Draws(M, seq, S) ==
  /\ \A k \in DOMAIN M : \E j \in S : M[k] = seq[j]
  /\ \A j \in S : \E k \in DOMAIN M : M[k] = seq[j]

LEMMA PickElements ==
  ASSUME NEW X, NEW seq \in Seq(X), NEW S \in SUBSET DOMAIN seq, NEW M, M = Pick(seq, S)
  PROVE  Draws(M, seq, S)
<1> DEFINE n == Cardinality(S)
           f == Ascending(S)
<1>1. /\ Climbs(f, n, S) /\ DOMAIN M = 1 .. n
      /\ \A k \in 1 .. n : f[k] \in S /\ M[k] = seq[f[k]]
  BY PickFacts
<1> HIDE DEF n, f
<1>2. \A j \in S : \E k \in 1 .. n : f[k] = j
  BY <1>1 DEF Climbs
<1> QED
  BY <1>1, <1>2 DEF Draws

-----------------------------------------------------------------------------
(* settings.json                                                             *)

Live(entries) == {k \in DOMAIN entries : EntryHasSessionHook(entries[k])}

\* An entry that is as it should be.
IsRight(entry, e, bin) == entry.matcher = ClaudeHookEvents[e] /\ HookEntryExists(entry, bin)

LEMMA NewEntry ==
  ASSUME NEW e \in DOMAIN ClaudeHookEvents, NEW bin \in Binary
  PROVE  /\ NewHookEntry(e, bin) \in Entry
         /\ EntryHasSessionHook(NewHookEntry(e, bin)) /\ IsRight(NewHookEntry(e, bin), e, bin)
<1>1. ClaudeHookEvents[e] \in {"", "edits"}
  <2>1. DOMAIN ClaudeHookEvents = {"PostToolUse", "Stop"}
    BY DEF ClaudeHookEvents
  <2>2. ClaudeHookEvents["PostToolUse"] = "edits" /\ ClaudeHookEvents["Stop"] = ""
    BY DEF ClaudeHookEvents
  <2> QED
    BY <2>1, <2>2
<1>2. {bin} \in SUBSET Hook /\ {bin} \cap SessionHook # {}
  BY HostAssumption
<1>3. NewHookEntry(e, bin) = [matcher |-> ClaudeHookEvents[e], cmds |-> {bin}]
  BY DEF NewHookEntry
<1>4. NewHookEntry(e, bin).matcher = ClaudeHookEvents[e] /\ NewHookEntry(e, bin).cmds = {bin}
  BY <1>3
<1>5. NewHookEntry(e, bin) \in Entry
  <2>1. PICK m, c : m = ClaudeHookEvents[e] /\ c = {bin}
    OBVIOUS
  <2>2. NewHookEntry(e, bin) = [matcher |-> m, cmds |-> c] /\ m \in {"", "edits"} /\ c \in SUBSET Hook
    BY <1>1, <1>2, <1>3, <2>1
  <2> QED
    <3>1. [matcher |-> m, cmds |-> c] \in [matcher : {"", "edits"}, cmds : SUBSET Hook]
      BY <2>2
    <3> QED
      BY <2>2, <3>1 DEF Entry
<1> QED
  BY <1>2, <1>4, <1>5 DEF EntryHasSessionHook, HookEntryExists, IsRight

IsMerge(M, entries, e, bin) ==
  /\ M \in Seq(Entry)
  /\ \E i \in DOMAIN M : Live(M) = {i} /\ IsRight(M[i], e, bin)
  /\ Pick(M, DOMAIN M \ Live(M)) = Pick(entries, DOMAIN entries \ Live(entries))

\* A merged event has one entry of ours, the right one, and merging it again or
\* dropping it from the rest makes no difference.
LEMMA Merged ==
  ASSUME NEW entries \in Seq(Entry), NEW e \in DOMAIN ClaudeHookEvents, NEW bin \in Binary,
         NEW M, M = MergeEvent(entries, e, bin)
  PROVE  IsMerge(M, entries, e, bin)
<1> DEFINE foreign == {k \in DOMAIN entries : ~ EntryHasSessionHook(entries[k])}
           current == {k \in DOMAIN entries \ foreign :
                         /\ entries[k].matcher = ClaudeHookEvents[e]
                         /\ HookEntryExists(entries[k], bin)}
           new == NewHookEntry(e, bin)
           kept == Pick(entries, foreign)
           E == {x \in Entry : ~ EntryHasSessionHook(x)}
<1>1. foreign = DOMAIN entries \ Live(entries) /\ foreign = {k \in DOMAIN entries : entries[k] \in E}
      /\ current \subseteq Live(entries)
  BY DEF Live
<1>2. /\ new \in Entry /\ EntryHasSessionHook(new) /\ IsRight(new, e, bin)
  BY NewEntry
<1>5. foreign \in SUBSET DOMAIN entries /\ current \in SUBSET DOMAIN entries /\ current \in SUBSET Nat
  OBVIOUS
<1>6. M = IF current = {} THEN Append(kept, new) ELSE Pick(entries, foreign \cup {Least(current)})
  BY DEF MergeEvent
<1>7. \A k \in current : IsRight(entries[k], e, bin)
  BY DEF IsRight
<1>8. \A k \in foreign : entries[k] \in E
  BY <1>1
<1>9. \A x \in Entry : x \in E <=> ~ EntryHasSessionHook(x)
  OBVIOUS
<1> HIDE DEF foreign, current, E
<1>3. CASE current = {}
  <2>1. M = Append(kept, new)
    BY <1>3, <1>6
  <2>2. kept \in Seq(Entry) /\ \A k \in DOMAIN kept : kept[k] \in E
    <3>1. kept \in Seq(Entry)
      BY <1>5, PickFacts
    <3>2. \A k \in DOMAIN kept : \E j \in foreign : kept[k] = entries[j]
      BY <1>5, PickElements DEF Draws
    <3> QED
      BY <1>8, <3>1, <3>2
  <2> DEFINE n == Len(kept)
  <2> HIDE DEF kept, new
  <2>3. /\ M \in Seq(Entry) /\ DOMAIN M = 1 .. n + 1 /\ n \in Nat /\ DOMAIN kept = 1 .. n
        /\ M[n + 1] = new /\ \A k \in 1 .. n : M[k] = kept[k]
    BY <1>2, <2>1, <2>2
  <2>4. Live(M) = {n + 1} /\ DOMAIN M \ Live(M) = 1 .. n
    <3>1. \A k \in 1 .. n : ~ EntryHasSessionHook(M[k])
      BY <1>9, <2>2, <2>3
    <3> QED
      BY <1>2, <2>3, <3>1 DEF Live
  <2>6. Pick(M, 1 .. n) = kept
    <3>1. 1 .. n \in SUBSET Nat /\ IsFiniteSet(1 .. n)
      BY <2>3, UpTo
    <3>2. Pick(M, 1 .. n) = Pick(kept, 1 .. n)
      BY <2>3, <3>1, PickSame
    <3>3. Pick(kept, DOMAIN kept) = kept
      BY <2>2, PickAll
    <3> QED
      BY <2>3, <3>2, <3>3
  <2>7. Pick(M, DOMAIN M \ Live(M)) = Pick(entries, DOMAIN entries \ Live(entries))
    BY <1>1, <2>4, <2>6 DEF kept
  <2>8. n + 1 \in DOMAIN M /\ Live(M) = {n + 1} /\ IsRight(M[n + 1], e, bin)
    BY <1>2, <2>3, <2>4
  <2> QED
    BY <2>3, <2>7, <2>8 DEF IsMerge
<1>4. CASE current # {}
  <2> DEFINE c == Least(current)
             S == foreign \cup {c}
  <2>1. c \in current
    BY <1>4, <1>5, LeastIsThere
  <2>2. M = Pick(entries, S)
    BY <1>4, <1>6
  <2>3. S \in SUBSET DOMAIN entries /\ c \in Live(entries) /\ c \notin foreign
    BY <1>1, <1>5, <2>1
  <2>4. IsRight(entries[c], e, bin) /\ EntryHasSessionHook(entries[c])
    BY <1>7, <2>1, <2>3 DEF Live
  <2> HIDE DEF c, new, S
  <2>5. /\ M \in Seq(Entry)
        /\ \A k \in DOMAIN M : Ascending(S)[k] \in S /\ M[k] = entries[Ascending(S)[k]]
        /\ \A j, k \in DOMAIN M : Ascending(S)[j] = Ascending(S)[k] => j = k
        /\ \A j \in S : \E k \in DOMAIN M : Ascending(S)[k] = j
    <3>1. Climbs(Ascending(S), Cardinality(S), S) /\ DOMAIN M = 1 .. Cardinality(S)
      BY <2>2, <2>3, PickFacts
    <3>2. \A j, k \in DOMAIN M : Ascending(S)[j] = Ascending(S)[k] => j = k
      <4>1. \A j, k \in DOMAIN M : j < k => Ascending(S)[j] < Ascending(S)[k]
        BY <3>1 DEF Climbs
      <4>2. \A j \in DOMAIN M : Ascending(S)[j] \in Nat /\ j \in Nat
        BY <2>3, <3>1 DEF Climbs
      <4> QED
        BY <4>1, <4>2
    <3>3. M \in Seq(Entry) /\ \A k \in DOMAIN M : Ascending(S)[k] \in S /\ M[k] = entries[Ascending(S)[k]]
      BY <2>2, <2>3, <3>1, PickFacts
    <3>4. \A j \in S : \E k \in DOMAIN M : Ascending(S)[k] = j
      BY <3>1 DEF Climbs
    <3> QED
      BY <3>2, <3>3, <3>4
  <2>6. PICK i \in DOMAIN M : Ascending(S)[i] = c
    BY <2>5 DEF S
  <2>7. Live(M) = {i} /\ IsRight(M[i], e, bin)
    <3>1. \A k \in DOMAIN M : k # i => ~ EntryHasSessionHook(M[k])
      <4>1. \A k \in DOMAIN M : k # i => Ascending(S)[k] \in foreign
        BY <2>5, <2>6 DEF S
      <4> QED
        BY <1>8, <1>9, <2>3, <2>5, <4>1
    <3> QED
      BY <2>4, <2>5, <2>6, <3>1 DEF Live
  <2>9. Pick(M, DOMAIN M \ Live(M)) = Pick(entries, foreign)
    <3>1. DOMAIN M \ Live(M) = Holding(M, DOMAIN M, E)
      BY <1>9, <2>5 DEF Live, Holding
    <3>2. foreign = Holding(entries, S, E)
      BY <1>5, <1>8, <1>9, <2>3, <2>4 DEF S, Holding
    <3>3. Pick(M, Holding(M, DOMAIN M, E)) = Pick(entries, Holding(entries, S, E))
      BY <2>2, <2>3, HeldOfPick
    <3> QED
      BY <3>1, <3>2, <3>3
  <2> QED
    BY <1>1, <2>5, <2>7, <2>9 DEF IsMerge
<1> QED
  BY <1>3, <1>4

LEMMA MergedTwice ==
  ASSUME NEW entries \in Seq(Entry), NEW e \in DOMAIN ClaudeHookEvents, NEW bin \in Binary,
         NEW M, M = MergeEvent(entries, e, bin)
  PROVE  MergeEvent(M, e, bin) = M
<1> DEFINE foreign == {k \in DOMAIN M : ~ EntryHasSessionHook(M[k])}
           current == {k \in DOMAIN M \ foreign :
                         /\ M[k].matcher = ClaudeHookEvents[e]
                         /\ HookEntryExists(M[k], bin)}
<1>1. PICK i \in DOMAIN M : M \in Seq(Entry) /\ Live(M) = {i} /\ IsRight(M[i], e, bin)
  <2>1. IsMerge(M, entries, e, bin)
    BY Merged
  <2> QED
    BY <2>1 DEF IsMerge
<1>2. foreign = DOMAIN M \ {i}
  BY <1>1 DEF Live
<1>3. current = {i}
  BY <1>1, <1>2 DEF IsRight
<1>4. MergeEvent(M, e, bin)
      = IF current = {} THEN Append(Pick(M, foreign), NewHookEntry(e, bin))
        ELSE Pick(M, foreign \cup {Least(current)})
  BY DEF MergeEvent
<1> HIDE DEF foreign, current
<1>5. i \in Nat /\ Least({i}) = i
  BY <1>1, LeastOfOne
<1>6. foreign \cup {Least(current)} = DOMAIN M
  BY <1>1, <1>2, <1>3, <1>5
<1> QED
  BY <1>1, <1>3, <1>4, <1>6, PickAll

IsDropped(D, entries) ==
  /\ D \in Seq(Entry) /\ Live(D) = {}
  /\ {k \in DOMAIN D : ~ EntryHasSessionHook(D[k])} = DOMAIN D
  /\ D = Pick(entries, DOMAIN entries \ Live(entries))

\* Dropping what is ours leaves the rest, and nothing to drop.
LEMMA Dropped ==
  ASSUME NEW entries \in Seq(Entry), NEW C, C = {k \in DOMAIN entries : ~ EntryHasSessionHook(entries[k])},
         NEW D, D = Pick(entries, C)
  PROVE  IsDropped(D, entries)
<1> DEFINE foreign == {k \in DOMAIN entries : ~ EntryHasSessionHook(entries[k])}
<1>1. foreign \in SUBSET DOMAIN entries /\ foreign = DOMAIN entries \ Live(entries)
      /\ \A k \in foreign : ~ EntryHasSessionHook(entries[k])
  BY DEF Live
<1>2. D = Pick(entries, foreign)
  OBVIOUS
<1> HIDE DEF foreign
<1>3. D \in Seq(Entry)
  BY <1>1, <1>2, PickFacts
<1>4. \A k \in DOMAIN D : \E j \in foreign : D[k] = entries[j]
  <2>1. Draws(D, entries, foreign)
    BY <1>1, <1>2, PickElements
  <2> QED
    BY <2>1 DEF Draws
<1>5. \A k \in DOMAIN D : ~ EntryHasSessionHook(D[k])
  BY <1>1, <1>4
<1> QED
  BY <1>1, <1>2, <1>3, <1>5 DEF Live, IsDropped

\* The entries of a list without the words "session hook", and those with them.
ForeignOf(entries) == Pick(entries, {k \in DOMAIN entries : ~ EntryHasSessionHook(entries[k])})
LiveOf(entries) == Pick(entries, {k \in DOMAIN entries : EntryHasSessionHook(entries[k])})

IsLive(entries, e, bin) == Len(LiveOf(entries)) = 1 /\ IsRight(LiveOf(entries)[1], e, bin)

LEMMA ForeignEntries ==
  ASSUME NEW entries
  PROVE  {k \in DOMAIN entries : ~ EntryHasSessionHook(entries[k])} = DOMAIN entries \ Live(entries)
BY DEF Live

LEMMA SettingsEntries ==
  ASSUME NEW s \in SettingsFile
  PROVE  /\ s = [file |-> s.file, hooks |-> s.hooks, odd |-> s.odd, entries |-> s.entries]
         /\ s.file \in {"absent", "json", "garbled"} /\ s.hooks \in {"absent", "object", "scalar"}
         /\ s.odd \in SUBSET Event /\ DOMAIN s.entries = Event
         /\ \A e \in Event : s.entries[e] \in Seq(Entry)
BY DEF SettingsFile

LEMMA MergedSettings ==
  ASSUME NEW s \in SettingsFile, NEW bin \in Binary, NEW m, m = MergeHooksInto(s, bin)
  PROVE  /\ m \in SettingsFile /\ MergeHooksInto(m, bin) = m
         /\ \A e \in Event : ForeignOf(m.entries[e]) = ForeignOf(s.entries[e])
         /\ \A e \in DOMAIN ClaudeHookEvents : IsLive(m.entries[e], e, bin)
<1>1. /\ m.file = "json" /\ m.hooks = "object" /\ m.odd = s.odd \ DOMAIN ClaudeHookEvents
      /\ m.entries = [e \in Event |-> IF e \in DOMAIN ClaudeHookEvents
                                      THEN MergeEvent(s.entries[e], e, bin) ELSE s.entries[e]]
      /\ m = [file |-> "json", hooks |-> "object", odd |-> m.odd, entries |-> m.entries]
  BY DEF MergeHooksInto
<1>2. ASSUME NEW e \in Event
      PROVE  /\ m.entries[e] \in Seq(Entry)
             /\ ForeignOf(m.entries[e]) = ForeignOf(s.entries[e])
  <2>1. s.entries[e] \in Seq(Entry)
    BY SettingsEntries
  <2>2. CASE e \in DOMAIN ClaudeHookEvents
    <3>1. m.entries[e] = MergeEvent(s.entries[e], e, bin)
      BY <1>1, <2>2
    <3>2. IsMerge(m.entries[e], s.entries[e], e, bin)
      BY <2>1, <2>2, <3>1, Merged
    <3>3. /\ m.entries[e] \in Seq(Entry)
          /\ Pick(m.entries[e], DOMAIN m.entries[e] \ Live(m.entries[e]))
             = Pick(s.entries[e], DOMAIN s.entries[e] \ Live(s.entries[e]))
      BY <3>2 DEF IsMerge
    <3> QED
      BY <3>3, ForeignEntries DEF ForeignOf
  <2>3. CASE e \notin DOMAIN ClaudeHookEvents
    <3>1. m.entries[e] = s.entries[e]
      BY <1>1, <2>3
    <3> QED
      BY <2>1, <3>1
  <2> QED
    BY <2>2, <2>3
<1>3. m \in SettingsFile
  <2>1. m.entries \in [Event -> Seq(Entry)]
    BY <1>1, <1>2
  <2>2. m.odd \in SUBSET Event
    BY <1>1, SettingsEntries
  <2> QED
    BY <1>1, <2>1, <2>2 DEF SettingsFile
<1>4. MergeHooksInto(m, bin) = m
  <2>1. ASSUME NEW e \in DOMAIN ClaudeHookEvents
        PROVE  MergeEvent(m.entries[e], e, bin) = m.entries[e]
    <3>1. e \in Event
      BY DEF Event
    <3>2. m.entries[e] = MergeEvent(s.entries[e], e, bin)
      BY <1>1, <3>1
    <3>3. s.entries[e] \in Seq(Entry)
      BY <3>1, SettingsEntries
    <3> QED
      BY <3>2, <3>3, MergedTwice
  <2>2. [e \in Event |-> IF e \in DOMAIN ClaudeHookEvents
                         THEN MergeEvent(m.entries[e], e, bin) ELSE m.entries[e]] = m.entries
    BY <1>1, <2>1
  <2>3. m.odd \ DOMAIN ClaudeHookEvents = m.odd
    BY <1>1
  <2> QED
    BY <1>1, <2>2, <2>3 DEF MergeHooksInto
<1>5. ASSUME NEW e \in DOMAIN ClaudeHookEvents
      PROVE  IsLive(m.entries[e], e, bin)
  <2>1. e \in Event
    BY DEF Event
  <2>2. m.entries[e] = MergeEvent(s.entries[e], e, bin)
    BY <1>1, <2>1
  <2>3. s.entries[e] \in Seq(Entry)
    BY <2>1, SettingsEntries
  <2>4. IsMerge(m.entries[e], s.entries[e], e, bin)
    BY <2>2, <2>3, Merged
  <2>5. PICK i \in DOMAIN m.entries[e] : Live(m.entries[e]) = {i} /\ IsRight(m.entries[e][i], e, bin)
    BY <2>4 DEF IsMerge
  <2>6. i \in Nat
    BY <1>2, <2>1
  <2>7. LiveOf(m.entries[e]) = Pick(m.entries[e], {i})
    BY <2>5 DEF LiveOf, Live
  <2>8. LiveOf(m.entries[e]) = <<m.entries[e][i]>>
    BY <2>5, <2>6, <2>7, PickOne
  <2>9. Len(LiveOf(m.entries[e])) = 1 /\ LiveOf(m.entries[e])[1] = m.entries[e][i]
    BY <2>8
  <2> QED
    BY <2>5, <2>9 DEF IsLive
<1> QED
  BY <1>2, <1>3, <1>4, <1>5

LEMMA CleanedSettings ==
  ASSUME NEW s \in SettingsFile, NEW r, r = RemoveHooksFrom(s)
  PROVE  /\ r \in SettingsFile /\ RemoveHooksFrom(r) = r
         /\ \A e \in Event : ForeignOf(r.entries[e]) = ForeignOf(s.entries[e])
         /\ \A e \in DOMAIN ClaudeHookEvents : LiveOf(r.entries[e]) = <<>>
<1> DEFINE keep(x) == [e \in Event |->
                         IF e \in DOMAIN ClaudeHookEvents
                         THEN Pick(x.entries[e], {k \in DOMAIN x.entries[e] : ~ EntryHasSessionHook(x.entries[e][k])})
                         ELSE x.entries[e]]
           kept == keep(s)
<1>1. ASSUME NEW e \in Event
      PROVE  /\ kept[e] \in Seq(Entry)
             /\ e \in DOMAIN ClaudeHookEvents =>
                  /\ Live(kept[e]) = {}
                  /\ {k \in DOMAIN kept[e] : ~ EntryHasSessionHook(kept[e][k])} = DOMAIN kept[e]
             /\ ForeignOf(kept[e]) = ForeignOf(s.entries[e])
  <2>1. s.entries[e] \in Seq(Entry)
    BY SettingsEntries
  <2>2. CASE e \in DOMAIN ClaudeHookEvents
    <3> DEFINE D == kept[e]
    <3> DEFINE C == {k \in DOMAIN s.entries[e] : ~ EntryHasSessionHook(s.entries[e][k])}
    <3>1. D = Pick(s.entries[e], C)
      BY <2>2
    <3>2. C = {k \in DOMAIN s.entries[e] : ~ EntryHasSessionHook(s.entries[e][k])}
      OBVIOUS
    <3> HIDE DEF C, D
    <3>3. /\ D \in Seq(Entry) /\ Live(D) = {}
          /\ {k \in DOMAIN D : ~ EntryHasSessionHook(D[k])} = DOMAIN D
          /\ D = Pick(s.entries[e], DOMAIN s.entries[e] \ Live(s.entries[e]))
      <4>1. IsDropped(D, s.entries[e])
        BY <2>1, <3>1, <3>2, Dropped
      <4> QED
        BY <4>1 DEF IsDropped
    <3>4. ForeignOf(D) = Pick(D, DOMAIN D) /\ Pick(D, DOMAIN D) = D
      BY <3>3, PickAll DEF ForeignOf
    <3>5. ForeignOf(s.entries[e]) = Pick(s.entries[e], DOMAIN s.entries[e] \ Live(s.entries[e]))
      BY ForeignEntries DEF ForeignOf
    <3> QED
      BY <3>3, <3>4, <3>5 DEF D
  <2>3. CASE e \notin DOMAIN ClaudeHookEvents
    <3>1. kept[e] = s.entries[e]
      BY <2>3
    <3> HIDE DEF kept
    <3> QED
      BY <2>1, <2>3, <3>1
  <2> QED
    BY <2>2, <2>3
<1>2. /\ s = [file |-> s.file, hooks |-> s.hooks, odd |-> s.odd, entries |-> s.entries]
      /\ s.file \in {"absent", "json", "garbled"} /\ s.hooks \in {"absent", "object", "scalar"}
      /\ s.odd \in SUBSET Event /\ DOMAIN s.entries = Event
  BY SettingsEntries
<1>3. r = IF kept = s.entries THEN s
          ELSE [s EXCEPT !.entries = kept,
                         !.hooks = IF s.odd = {} /\ \A e \in Event : kept[e] = <<>> THEN "absent" ELSE "object"]
  BY DEF RemoveHooksFrom
<1>4. /\ r.entries = kept /\ r.file = s.file /\ r.odd = s.odd /\ r.hooks \in {"absent", "object", "scalar"}
      /\ r = [file |-> r.file, hooks |-> r.hooks, odd |-> r.odd, entries |-> r.entries]
  <2> HIDE DEF kept
  <2> QED
    BY <1>2, <1>3
<1>5. r \in SettingsFile
  <2>1. kept \in [Event -> Seq(Entry)]
    BY <1>1
  <2> HIDE DEF kept
  <2> QED
    BY <1>2, <1>4, <2>1 DEF SettingsFile
<1>6. RemoveHooksFrom(r) = r
  <2>1. ASSUME NEW e \in DOMAIN ClaudeHookEvents
        PROVE  Pick(kept[e], {k \in DOMAIN kept[e] : ~ EntryHasSessionHook(kept[e][k])}) = kept[e]
    <3>1. e \in Event
      BY DEF Event
    <3> HIDE DEF kept
    <3> QED
      BY <1>1, <3>1, PickAll
  <2>2. keep(r) = r.entries
    <3>1. r.entries = kept /\ kept = [e \in Event |-> kept[e]]
      BY <1>4
    <3> HIDE DEF kept
    <3>2. \A e \in Event : (IF e \in DOMAIN ClaudeHookEvents
                              THEN Pick(r.entries[e], {k \in DOMAIN r.entries[e] : ~ EntryHasSessionHook(r.entries[e][k])})
                              ELSE r.entries[e]) = kept[e]
      BY <2>1, <3>1
    <3> QED
      BY <3>1, <3>2
  <2>3. RemoveHooksFrom(r)
        = IF keep(r) = r.entries THEN r
          ELSE [r EXCEPT !.entries = keep(r),
                         !.hooks = IF r.odd = {} /\ \A e \in Event : keep(r)[e] = <<>> THEN "absent" ELSE "object"]
    BY DEF RemoveHooksFrom
  <2> QED
    BY <2>2, <2>3
<1>7. ASSUME NEW e \in DOMAIN ClaudeHookEvents
      PROVE  LiveOf(kept[e]) = <<>>
  <2>1. e \in Event
    BY DEF Event
  <2> HIDE DEF kept
  <2>2. LiveOf(kept[e]) = Pick(kept[e], {})
    BY <1>1, <2>1 DEF LiveOf, Live
  <2> QED
    BY <2>2, PickNone
<1> HIDE DEF kept
<1> QED
  BY <1>1, <1>4, <1>5, <1>6, <1>7

-----------------------------------------------------------------------------
(* CLAUDE.md and AGENTS.md                                                   *)

OursInText == {"memory", "graph", "newline"}

\* A text t with a block put in, or left in.
IsWithBlock(r, t, block) ==
  /\ r \in Seq(Piece) /\ BlocksApart(r) /\ HasMarker(r, block)
  /\ \A b \in DOMAIN Reworded : HasMarker(t, b) => HasMarker(r, b)
  /\ Others(r, OursInText) = Others(t, OursInText)

LEMMA TheBlocks ==
  /\ DOMAIN Reworded = {"memory", "graph"}
  /\ \A b \in DOMAIN Reworded : b \in Piece /\ Reworded[b] \in Piece /\ Reworded[b] \notin DOMAIN Reworded
  /\ "newline" \in Piece /\ "newline" \notin DOMAIN Reworded
<1>1. DOMAIN Reworded = {"memory", "graph"}
  BY DEF Reworded
<1>2. Reworded["memory"] = "memory, reworded" /\ Reworded["graph"] = "graph, reworded"
  BY DEF Reworded
<1>3. "memory, reworded" \notin {"memory", "graph"} /\ "graph, reworded" \notin {"memory", "graph"}
      /\ "newline" \notin {"memory", "graph"}
  OBVIOUS
<1>4. /\ "memory" \in Piece /\ "graph" \in Piece /\ "newline" \in Piece
      /\ "memory, reworded" \in Piece /\ "graph, reworded" \in Piece
  BY DEF Piece
<1>5. ASSUME NEW b \in DOMAIN Reworded
      PROVE  b \in Piece /\ Reworded[b] \in Piece /\ Reworded[b] \notin DOMAIN Reworded
  <2>1. CASE b = "memory"
    BY <1>1, <1>2, <1>3, <1>4, <2>1, Zenon
  <2>2. CASE b = "graph"
    BY <1>1, <1>2, <1>3, <1>4, <2>2, Zenon
  <2> QED
    BY <1>1, <2>1, <2>2
<1> QED
  BY <1>1, <1>3, <1>4, <1>5, Zenon

LEMMA AppendedBlock ==
  ASSUME NEW t \in Seq(Piece), BlocksApart(t), NEW block \in DOMAIN Reworded, NEW r, r = AppendBlock(t, block)
  PROVE  IsWithBlock(r, t, block)
<1>1. CASE HasMarker(t, block)
  BY <1>1 DEF AppendBlock, IsWithBlock
<1>2. CASE ~ HasMarker(t, block) /\ t = <<>>
  <2>1. r = <<block>>
    BY <1>2 DEF AppendBlock
  <2>2. block \in Piece /\ block \in OursInText
    BY TheBlocks DEF OursInText
  <2>3. r \in Seq(Piece) /\ Len(r) = 1 /\ r[1] = block
    BY <2>1, <2>2
  <2>4. BlocksApart(r) /\ HasMarker(r, block)
    BY <2>3 DEF BlocksApart, HasMarker, Contains
  <2>5. \A b : ~ HasMarker(t, b)
    BY <1>2 DEF HasMarker, Contains
  <2>6. Others(r, OursInText) = Others(t, OursInText)
    <3>1. Others(r, OursInText) = Pick(r, {})
      <4>1. {k \in DOMAIN r : r[k] \notin OursInText} = {}
        BY <2>2, <2>3
      <4> QED
        BY <4>1 DEF Others
    <3>2. Others(t, OursInText) = Pick(t, {})
      BY <1>2 DEF Others
    <3> QED
      BY <3>1, <3>2, PickNone
  <2> QED
    BY <2>3, <2>4, <2>5, <2>6 DEF IsWithBlock
<1>3. CASE ~ HasMarker(t, block) /\ t # <<>>
  <2> DEFINE e == <<"newline", block>>
             n == Len(t)
  <2>1. r = t \o e
    BY <1>3 DEF AppendBlock
  <2>2. block \in Piece /\ "newline" \in Piece /\ block \in OursInText /\ "newline" \in OursInText
        /\ block # "newline"
    BY TheBlocks DEF OursInText
  <2>3. /\ n \in Nat /\ r \in Seq(Piece) /\ Len(r) = n + 2 /\ DOMAIN r = 1 .. n + 2 /\ DOMAIN t = 1 .. n
        /\ r[n + 1] = "newline" /\ r[n + 2] = block /\ \A k \in 1 .. n : r[k] = t[k]
    BY <2>1, <2>2
  <2>4. \A k \in 1 .. n : t[k] # block
    BY <1>3 DEF HasMarker, Contains
  <2> HIDE DEF n
  <2>5. BlocksApart(r)
    <3> SUFFICES ASSUME NEW j \in 1 .. n + 2, NEW k \in 1 .. n + 2, r[j] = r[k], r[j] \in DOMAIN Reworded
                 PROVE  j = k
      BY <2>3 DEF BlocksApart
    <3>1. j # n + 1 /\ k # n + 1
      BY <2>3, TheBlocks
    <3>2. CASE j \in 1 .. n /\ k \in 1 .. n
      BY <2>3, <3>2 DEF BlocksApart
    <3>3. CASE j = n + 2
      BY <2>3, <2>4, <3>1, <3>3
    <3>4. CASE k = n + 2
      BY <2>3, <2>4, <3>1, <3>4
    <3> QED
      BY <2>3, <3>1, <3>2, <3>3, <3>4
  <2>6. HasMarker(r, block) /\ \A b : HasMarker(t, b) => HasMarker(r, b)
    <3>1. \A x : (\E k \in 1 .. n : t[k] = x) => \E k \in 1 .. n + 2 : r[k] = x
      BY <2>3
    <3>2. \E k \in 1 .. n + 2 : r[k] = block
      BY <2>3
    <3>3. Len(t) = n
      BY DEF n
    <3> QED
      BY <2>3, <3>1, <3>2, <3>3 DEF HasMarker, Contains
  <2>7. Others(r, OursInText) = Others(t, OursInText)
    <3>1. e \in Seq(Piece) /\ \A k \in DOMAIN e : e[k] \in OursInText
      BY <2>2
    <3> HIDE DEF e
    <3> QED
      BY <2>1, <3>1, OthersOfConcat
  <2> QED
    BY <2>3, <2>5, <2>6, <2>7 DEF IsWithBlock
<1> QED
  BY <1>1, <1>2, <1>3

LEMMA AppendedTwice ==
  ASSUME NEW t, NEW block, HasMarker(t, block)
  PROVE  AppendBlock(t, block) = t
BY DEF AppendBlock

\* A text t without a block.
IsWithout(r, t, block) ==
  /\ r \in Seq(Piece) /\ BlocksApart(r) /\ ~ Contains(r, block)
  /\ \A x \in Piece : ~ Contains(t, x) => ~ Contains(r, x)
  /\ Others(r, OursInText) = Others(t, OursInText)

LEMMA WithoutBlock ==
  ASSUME NEW t \in Seq(Piece), BlocksApart(t), NEW block \in DOMAIN Reworded,
         NEW S \in SUBSET DOMAIN t, NEW r, r = Pick(t, S),
         \A k \in DOMAIN t \ S : t[k] \in OursInText,
         \A k \in S : t[k] # block
  PROVE  IsWithout(r, t, block)
<1> DEFINE n == Cardinality(S)
           f == Ascending(S)
<1>1. /\ r \in Seq(Piece) /\ DOMAIN r = 1 .. n /\ Len(r) = n /\ Climbs(f, n, S)
      /\ \A k \in 1 .. n : f[k] \in S /\ r[k] = t[f[k]]
  BY PickFacts
<1> HIDE DEF n, f
<1>2. BlocksApart(r)
  <2> SUFFICES ASSUME NEW j \in 1 .. n, NEW k \in 1 .. n, r[j] = r[k], r[j] \in DOMAIN Reworded
               PROVE  j = k
    BY <1>1 DEF BlocksApart
  <2>1. f[j] = f[k]
    BY <1>1 DEF BlocksApart
  <2>2. (j < k => f[j] < f[k]) /\ (k < j => f[k] < f[j])
    BY <1>1 DEF Climbs
  <2>3. f[j] \in Nat /\ f[k] \in Nat /\ j \in Nat /\ k \in Nat
    BY <1>1
  <2> QED
    BY <2>1, <2>2, <2>3
<1>3. \A x : (\E k \in 1 .. Len(r) : r[k] = x) => \E j \in S : t[j] = x
  BY <1>1
<1>4. ~ Contains(r, block) /\ \A x \in Piece : ~ Contains(t, x) => ~ Contains(r, x)
  <2>1. ~ Contains(r, block)
    BY <1>3 DEF Contains
  <2>2. S \subseteq 1 .. Len(t)
    OBVIOUS
  <2>3. ASSUME NEW x, Contains(r, x)
        PROVE  Contains(t, x)
    BY <1>3, <2>2, <2>3 DEF Contains
  <2> QED
    BY <2>1, <2>3
<1>5. Others(r, OursInText) = Others(t, OursInText)
  BY OthersOfPick
<1> QED
  BY <1>1, <1>2, <1>4, <1>5 DEF IsWithout

LEMMA RemovedBlock ==
  ASSUME NEW t \in Seq(Piece), BlocksApart(t), NEW block \in DOMAIN Reworded, NEW r, r = RemoveBlock(t, block)
  PROVE  IsWithout(r, t, block)
<1> DEFINE at == {k \in DOMAIN t : t[k] = block}
           spaced == {k \in at : k > 1 /\ t[k - 1] = "newline"}
<1>1. r = IF spaced # {} THEN Pick(t, DOMAIN t \ {Least(spaced) - 1, Least(spaced)})
          ELSE IF at # {} THEN Pick(t, DOMAIN t \ {Least(at)}) ELSE t
  BY DEF RemoveBlock
<1>2. block \in OursInText /\ "newline" \in OursInText
  BY TheBlocks DEF OursInText
<1>3. \A j, k \in at : j = k
  BY DEF BlocksApart
<1>4. at \in SUBSET Nat /\ spaced \in SUBSET Nat /\ spaced \subseteq at /\ at \subseteq DOMAIN t
      /\ \A k \in DOMAIN t : t[k] = block <=> k \in at
  OBVIOUS
<1>5. \A k \in spaced : k - 1 \in DOMAIN t /\ t[k - 1] = "newline" /\ t[k] = block
  OBVIOUS
<1>6. CASE spaced # {}
  <2> DEFINE c == Least(spaced)
             S == DOMAIN t \ {c - 1, c}
  <2> HIDE DEF at, spaced
  <2>1. c \in spaced /\ c \in at
    BY <1>4, <1>6, LeastIsThere
  <2> HIDE DEF c
  <2>2. r = Pick(t, S)
    BY <1>1, <1>6 DEF c
  <2>3. S \in SUBSET DOMAIN t /\ \A k \in DOMAIN t \ S : t[k] \in OursInText
    BY <1>2, <1>5, <2>1
  <2>4. \A k \in S : t[k] # block
    BY <1>3, <1>4, <2>1
  <2> HIDE DEF S
  <2> QED
    BY <2>2, <2>3, <2>4, WithoutBlock
<1>7. CASE spaced = {} /\ at # {}
  <2> DEFINE c == Least(at)
             S == DOMAIN t \ {c}
  <2> HIDE DEF at, spaced
  <2>1. c \in at
    BY <1>4, <1>7, LeastIsThere
  <2> HIDE DEF c
  <2>2. r = Pick(t, S)
    BY <1>1, <1>7 DEF c
  <2>3. S \in SUBSET DOMAIN t /\ \A k \in DOMAIN t \ S : t[k] \in OursInText
    BY <1>2, <1>4, <2>1
  <2>4. \A k \in S : t[k] # block
    BY <1>3, <1>4, <2>1
  <2> HIDE DEF S
  <2> QED
    BY <2>2, <2>3, <2>4, WithoutBlock
<1>8. CASE spaced = {} /\ at = {}
  <2>1. r = t
    BY <1>1, <1>8
  <2>2. \A k \in 1 .. Len(t) : t[k] # block
    BY <1>8
  <2> QED
    BY <2>1, <2>2 DEF IsWithout, Contains
<1> QED
  BY <1>6, <1>7, <1>8

LEMMA RemovedTwice ==
  ASSUME NEW t \in Seq(Piece), NEW block, ~ Contains(t, block)
  PROVE  RemoveBlock(t, block) = t
<1>1. {k \in DOMAIN t : t[k] = block} = {}
  BY DEF Contains
<1> QED
  BY <1>1 DEF RemoveBlock

LEMMA RemovedBlocks ==
  ASSUME NEW t \in Seq(Piece), BlocksApart(t), NEW r, r = RemoveBlocks(t)
  PROVE  /\ r \in Seq(Piece) /\ BlocksApart(r) /\ RemoveBlocks(r) = r
         /\ \A block \in DOMAIN Reworded : ~ Contains(r, block)
         /\ Others(r, OursInText) = Others(t, OursInText)
<1> DEFINE u == RemoveBlock(t, "memory")
<1>1. "memory" \in DOMAIN Reworded /\ "graph" \in DOMAIN Reworded /\ "memory" \in Piece
      /\ DOMAIN Reworded = {"memory", "graph"}
  BY TheBlocks
<1>2. IsWithout(u, t, "memory")
  BY <1>1, RemovedBlock
<1>3. r = RemoveBlock(u, "graph")
  BY DEF RemoveBlocks
<1> HIDE DEF u
<1>4. IsWithout(r, u, "graph")
  BY <1>1, <1>2, <1>3, RemovedBlock DEF IsWithout
<1>5. /\ r \in Seq(Piece) /\ BlocksApart(r) /\ ~ Contains(r, "graph") /\ ~ Contains(r, "memory")
      /\ Others(r, OursInText) = Others(t, OursInText)
  BY <1>1, <1>2, <1>4 DEF IsWithout
<1>6. RemoveBlocks(r) = r
  BY <1>5, RemovedTwice DEF RemoveBlocks
<1> QED
  BY <1>1, <1>5, <1>6

LEMMA RewordedText ==
  ASSUME NEW t \in Seq(Piece), BlocksApart(t), NEW block \in DOMAIN Reworded
  PROVE  Rewording(t, block) \in Seq(Piece) /\ BlocksApart(Rewording(t, block))
<1> DEFINE r == Rewording(t, block)
<1>1. DOMAIN r = DOMAIN t /\ \A k \in DOMAIN t : r[k] = IF t[k] = block THEN Reworded[block] ELSE t[k]
  BY DEF Rewording
<1>2. r \in Seq(Piece)
  <2>1. \A k \in 1 .. Len(t) : (IF t[k] = block THEN Reworded[block] ELSE t[k]) \in Piece
    BY TheBlocks
  <2>2. r = [k \in 1 .. Len(t) |-> IF t[k] = block THEN Reworded[block] ELSE t[k]] /\ Len(t) \in Nat
    BY DEF Rewording
  <2> HIDE DEF r
  <2> QED
    BY <2>1, <2>2
<1>3. \A k \in DOMAIN t : r[k] \in DOMAIN Reworded => r[k] = t[k]
  BY <1>1, TheBlocks
<1> HIDE DEF r
<1>4. BlocksApart(r)
  BY <1>1, <1>3 DEF BlocksApart
<1> QED
  BY <1>2, <1>4 DEF r

LEMMA WrittenText ==
  ASSUME NEW t \in Seq(Piece), BlocksApart(t)
  PROVE  Append(t, "rules") \in Seq(Piece) /\ BlocksApart(Append(t, "rules"))
<1> DEFINE r == Append(t, "rules")
           n == Len(t)
<1>1. "rules" \in Piece /\ "rules" \notin DOMAIN Reworded
  <2>1. "rules" \notin {"memory", "graph"}
    OBVIOUS
  <2>2. "rules" \in Piece
    BY Zenon DEF Piece
  <2> QED
    BY <2>1, <2>2, TheBlocks
<1>2. /\ n \in Nat /\ r \in Seq(Piece) /\ DOMAIN r = 1 .. n + 1 /\ DOMAIN t = 1 .. n
      /\ r[n + 1] = "rules" /\ \A k \in 1 .. n : r[k] = t[k]
  BY <1>1
<1> HIDE DEF r, n
<1>3. BlocksApart(r)
  BY <1>1, <1>2 DEF BlocksApart
<1> QED
  BY <1>2, <1>3 DEF r

-----------------------------------------------------------------------------
(* config.toml and opencode.json                                             *)

LEMMA Lines ==
  /\ "ours" \in Line /\ Binary \subseteq Line /\ IsHeader("ours")
  /\ \A b \in Binary : b # "ours" /\ b # "none" /\ ~ IsHeader(b)
<1>1. "ours" \in Line /\ Binary \subseteq Line
  BY DEF Line
<1>2. \A b \in Binary : b # "ours" /\ b # "none" /\ b # "sub" /\ b # "table"
  BY HostAssumption
<1> QED
  BY <1>1, <1>2 DEF IsHeader

\* The lines outside our table.
UsersLines(lines) == Pick(lines, {k \in DOMAIN lines : ~ InOurTable(lines, k)})

LEMMA NoTable ==
  ASSUME NEW lines \in Seq(Line), \A k \in DOMAIN lines : lines[k] # "ours"
  PROVE  UsersLines(lines) = lines
<1>1. {k \in DOMAIN lines : ~ InOurTable(lines, k)} = DOMAIN lines
  <2> SUFFICES ASSUME NEW k \in DOMAIN lines PROVE ~ InOurTable(lines, k)
    OBVIOUS
  <2>1. \A j \in 1 .. k : j \in DOMAIN lines
    OBVIOUS
  <2> QED
    BY <2>1 DEF InOurTable
<1> QED
  BY <1>1, PickAll DEF UsersLines

LEMMA InstalledCodex ==
  ASSUME NEW lines \in Seq(Line), OneTable(lines), NEW bin \in Binary, NEW r, r = InstallCodex(lines, bin)
  PROVE  /\ r \in Seq(Line) /\ OneTable(r) /\ \A b \in Binary : InstallCodex(r, b) = r
         /\ UsersLines(r) = UsersLines(lines)
<1>1. CASE Contains(lines, "ours") \/ Contains(lines, "mention")
  BY <1>1 DEF InstallCodex
<1>2. CASE ~ (Contains(lines, "ours") \/ Contains(lines, "mention"))
  <2> DEFINE e == <<"ours", bin>>
             n == Len(lines)
  <2>1. r = lines \o e
    BY <1>2 DEF InstallCodex
  <2>2. e \in Seq(Line)
    BY Lines
  <2>3. /\ n \in Nat /\ r \in Seq(Line) /\ Len(r) = n + 2 /\ DOMAIN r = 1 .. n + 2 /\ DOMAIN lines = 1 .. n
        /\ r[n + 1] = "ours" /\ r[n + 2] = bin /\ \A k \in 1 .. n : r[k] = lines[k]
    BY <2>1, <2>2
  <2>4. \A k \in 1 .. n : lines[k] # "ours"
    BY <1>2 DEF Contains
  <2> HIDE DEF e, n
  <2>6. \A j \in DOMAIN r : r[j] = "ours" <=> j = n + 1
    <3> TAKE j \in DOMAIN r
    <3>1. j \in 1 .. n \/ j = n + 1 \/ j = n + 2
      BY <2>3
    <3> QED
      BY <2>3, <2>4, <3>1, Lines
  <2>5. UsersLines(r) = UsersLines(lines)
    <3>1. \A k \in 1 .. n : ~ InOurTable(r, k)
      <4> SUFFICES ASSUME NEW k \in 1 .. n, NEW j \in 1 .. k PROVE r[j] # "ours"
        BY DEF InOurTable
      <4> QED
        BY <2>3, <2>4
    <3>2. InOurTable(r, n + 1)
      <4>1. n + 1 \in 1 .. n + 1 /\ \A i \in (n + 1) + 1 .. n + 1 : FALSE
        BY <2>3
      <4> QED
        BY <2>3, <4>1 DEF InOurTable
    <3>3. InOurTable(r, n + 2)
      <4>1. n + 1 \in 1 .. n + 2 /\ \A i \in (n + 1) + 1 .. n + 2 : i = n + 2
        BY <2>3
      <4> QED
        BY <2>3, <4>1, Lines DEF InOurTable
    <3>4. {k \in DOMAIN r : ~ InOurTable(r, k)} = 1 .. n
      <4>1. \A k \in DOMAIN r : k \in 1 .. n \/ k = n + 1 \/ k = n + 2
        BY <2>3
      <4>2. 1 .. n \subseteq DOMAIN r /\ n + 1 \notin 1 .. n /\ n + 2 \notin 1 .. n
        BY <2>3
      <4> QED
        BY <3>1, <3>2, <3>3, <4>1, <4>2
    <3>5. 1 .. n \in SUBSET Nat /\ IsFiniteSet(1 .. n)
      BY <2>3, UpTo
    <3>6. Pick(r, 1 .. n) = Pick(lines, 1 .. n)
      BY <2>3, <3>5, PickSame
    <3>7. Pick(lines, DOMAIN lines) = lines /\ UsersLines(lines) = lines
      BY <2>3, <2>4, PickAll, NoTable
    <3> QED
      BY <2>3, <3>4, <3>6, <3>7 DEF UsersLines
  <2>7. OneTable(r)
    BY <2>6 DEF OneTable
  <2>8. Contains(r, "ours")
    <3>1. n + 1 \in 1 .. Len(r)
      BY <2>3
    <3> QED
      BY <2>3, <3>1 DEF Contains
  <2> QED
    BY <2>3, <2>5, <2>7, <2>8 DEF InstallCodex
<1> QED
  BY <1>1, <1>2

LEMMA UninstalledCodex ==
  ASSUME NEW lines \in Seq(Line), OneTable(lines), NEW r, r = UninstallCodex(lines)
  PROVE  /\ r \in Seq(Line) /\ OneTable(r) /\ UninstallCodex(r) = r /\ ~ Contains(r, "ours")
         /\ UsersLines(r) = UsersLines(lines)
<1> DEFINE at == {k \in DOMAIN lines : lines[k] = "ours"}
           c == Least(at)
           S == {k \in DOMAIN lines : k < c \/ \E j \in c + 1 .. k : IsHeader(lines[j])}
<1>1. r = IF at = {} THEN lines ELSE Pick(lines, S)
  BY DEF UninstallCodex
<1>2. at \in SUBSET Nat /\ \A k \in DOMAIN lines : lines[k] = "ours" <=> k \in at
  OBVIOUS
<1>3. r \in Seq(Line) /\ (\A k \in DOMAIN r : r[k] # "ours") /\ UsersLines(r) = UsersLines(lines)
  <2>1. CASE at = {}
    BY <1>1, <1>2, <2>1
  <2>2. CASE at # {}
    <3> HIDE DEF at
    <3>1. c \in DOMAIN lines /\ lines[c] = "ours" /\ c \in Nat
      <4>1. c \in at
        BY <1>2, <2>2, LeastIsThere
      <4> QED
        BY <4>1 DEF at
    <3> HIDE DEF c
    <3>2. \A j \in DOMAIN lines : lines[j] = "ours" <=> j = c
      BY <3>1 DEF OneTable
    <3>3. \A k \in DOMAIN lines : InOurTable(lines, k) <=> k \notin S
      <4> TAKE k \in DOMAIN lines
      <4>1. \A j \in 1 .. k : j \in DOMAIN lines
        OBVIOUS
      <4>2. k \in Nat /\ (c \in 1 .. k <=> ~ (k < c))
        BY <3>1
      <4> QED
        BY <3>2, <4>1, <4>2 DEF InOurTable
    <3>4. S = {k \in DOMAIN lines : ~ InOurTable(lines, k)}
      BY <3>3
    <3>5. r = Pick(lines, S) /\ S \in SUBSET DOMAIN lines /\ c \notin S
      BY <1>1, <2>2, <3>1
    <3> HIDE DEF S
    <3>6. r \in Seq(Line) /\ Draws(r, lines, S)
      BY <3>5, PickFacts, PickElements
    <3>7. \A k \in DOMAIN r : r[k] # "ours"
      BY <3>2, <3>5, <3>6 DEF Draws
    <3>8. r = UsersLines(lines)
      BY <3>4, <3>5 DEF UsersLines
    <3> QED
      BY <3>6, <3>7, <3>8, NoTable
  <2> QED
    BY <2>1, <2>2
<1> HIDE DEF at, c, S
<1>4. ~ Contains(r, "ours") /\ OneTable(r)
  BY <1>3 DEF Contains, OneTable
<1>5. UninstallCodex(r) = r
  <2>1. {k \in DOMAIN r : r[k] = "ours"} = {}
    BY <1>3
  <2> QED
    BY <2>1 DEF UninstallCodex
<1> QED
  BY <1>3, <1>4, <1>5

\* What a user adds has no table of ours.
LEMMA AddedLines ==
  ASSUME NEW lines \in Seq(Line), OneTable(lines), NEW more \in UserLines
  PROVE  lines \o more \in Seq(Line) /\ OneTable(lines \o more)
<1> DEFINE r == lines \o more
           n == Len(lines)
<1>1. more \in Seq(Line) /\ \A k \in 1 .. Len(more) : more[k] # "ours"
  BY HostAssumption DEF Contains
<1>2. /\ n \in Nat /\ Len(more) \in Nat /\ r \in Seq(Line)
      /\ DOMAIN r = 1 .. n + Len(more) /\ DOMAIN lines = 1 .. n
      /\ \A k \in 1 .. n : r[k] = lines[k]
      /\ \A k \in n + 1 .. n + Len(more) : r[k] = more[k - n] /\ k - n \in 1 .. Len(more)
  BY <1>1
<1> HIDE DEF r, n
<1>3. \A k \in DOMAIN r : r[k] = "ours" => k \in DOMAIN lines /\ lines[k] = "ours"
  <2> TAKE k \in DOMAIN r
  <2>1. k \in 1 .. n \/ k \in n + 1 .. n + Len(more)
    BY <1>2
  <2> QED
    BY <1>1, <1>2, <2>1
<1>4. OneTable(r)
  BY <1>3 DEF OneTable
<1> QED
  BY <1>2, <1>4 DEF r

LEMMA InstalledOpencode ==
  ASSUME NEW config \in OpencodeFile, OpencodeApart(config), NEW bin \in Binary,
         NEW r, r = InstallOpencode(config, bin)
  PROVE  /\ r \in OpencodeFile /\ OpencodeApart(r) /\ \A b \in Binary : InstallOpencode(r, b) = r
         /\ CanInstallOpencode(r) <=> CanInstallOpencode(config)
         /\ r.others = config.others
         /\ (r.file = "garbled") <=> (config.file = "garbled")
         /\ (r.mcp = "scalar") <=> (config.mcp = "scalar")
<1>1. CASE ~ CanInstallOpencode(config) \/ config.ours # "none"
  BY <1>1 DEF InstallOpencode
<1>2. CASE CanInstallOpencode(config) /\ config.ours = "none"
  <2>1. r = [config EXCEPT !.file = "json", !.mcp = "object", !.ours = bin]
    BY <1>2 DEF InstallOpencode
  <2>2. r.file = "json" /\ r.mcp = "object" /\ r.ours = bin /\ r.others = config.others
    BY <2>1 DEF OpencodeFile
  <2>3. bin # "none"
    BY Lines
  <2>4. r \in OpencodeFile
    BY <2>1 DEF OpencodeFile
  <2>5. OpencodeApart(r) /\ \A b \in Binary : InstallOpencode(r, b) = r
    BY <2>2, <2>3 DEF OpencodeApart, InstallOpencode
  <2>6. CanInstallOpencode(r)
    BY <2>2 DEF CanInstallOpencode
  <2> QED
    BY <1>2, <2>2, <2>4, <2>5, <2>6 DEF CanInstallOpencode
<1> QED
  BY <1>1, <1>2

LEMMA UninstalledOpencode ==
  ASSUME NEW config \in OpencodeFile, OpencodeApart(config), NEW r, r = UninstallOpencode(config)
  PROVE  /\ r \in OpencodeFile /\ OpencodeApart(r) /\ UninstallOpencode(r) = r /\ r.ours = "none"
         /\ r.others = config.others
         /\ (r.file = "garbled") <=> (config.file = "garbled")
         /\ (r.mcp = "scalar") <=> (config.mcp = "scalar")
<1>1. CASE config.ours = "none"
  BY <1>1 DEF UninstallOpencode
<1>2. CASE config.ours # "none"
  <2>1. PICK mcp \in {"absent", "object"} : r = [config EXCEPT !.ours = "none", !.mcp = mcp]
    BY <1>2 DEF UninstallOpencode
  <2>2. r.file = config.file /\ r.mcp = mcp /\ r.ours = "none" /\ r.others = config.others
    BY <2>1 DEF OpencodeFile
  <2>3. r \in OpencodeFile
    BY <2>1 DEF OpencodeFile
  <2>4. config.mcp = "object"
    BY <1>2 DEF OpencodeApart
  <2> QED
    BY <2>2, <2>3, <2>4 DEF OpencodeApart, UninstallOpencode
<1> QED
  BY <1>1, <1>2

-----------------------------------------------------------------------------
(* The invariant: types, what is ours stands apart from what is the user's,  *)
(* and the last command has nothing left to do.                              *)

HostTypes ==
  /\ settings \in [Scope -> SettingsFile] /\ text \in [Scope -> Seq(Piece)]
  /\ agents \in Seq(Piece) /\ codex \in Seq(Line) /\ opencode \in OpencodeFile
  /\ registry \in {"none", "http"} \cup Binary
  /\ detected \in SUBSET Host /\ scopes \in SUBSET Scope /\ self \in Binary /\ edits \in Nat

StaysApart ==
  /\ \A s \in Scope : BlocksApart(text[s])
  /\ BlocksApart(agents) /\ OneTable(codex) /\ OpencodeApart(opencode)

InstallableHosts == {h \in detected : h = "codex" \/ CanInstallOpencode(opencode)}

InstallDone(s, all, cli) ==
  /\ MergeHooksInto(settings[s], self) = settings[s]
  /\ all => /\ RegisterClaudeMCP(self, cli) = registry
            /\ HasMarker(text[s], "memory") /\ (cli = "works" => HasMarker(text[s], "graph"))
            /\ "codex" \in InstallableHosts => InstallCodex(codex, self) = codex
            /\ "opencode" \in InstallableHosts => InstallOpencode(opencode, self) = opencode
            /\ s = "project" /\ InstallableHosts # {} => HasMarker(agents, "graph")

HostInstallDone(h, project) ==
  /\ h = "codex" => InstallCodex(codex, self) = codex
  /\ h = "opencode" => InstallOpencode(opencode, self) = opencode
  /\ project => HasMarker(agents, "graph")

UninstallDone(s, all, cli) ==
  /\ RemoveHooksFrom(settings[s]) = settings[s]
  /\ all => /\ UnregisterClaudeMCP(cli) = registry
            /\ RemoveBlocks(text[s]) = text[s]
            /\ UninstallCodex(codex) = codex
            /\ UninstallOpencode(opencode) = opencode
            /\ s = "project" => RemoveBlock(agents, "graph") = agents

HostUninstallDone(h, project) ==
  /\ h = "codex" => UninstallCodex(codex) = codex
  /\ h = "opencode" => UninstallOpencode(opencode) = opencode
  /\ project => RemoveBlock(agents, "graph") = agents

Settled ==
  /\ \A s \in Scope, all \in BOOLEAN, cli \in Cli :
       /\ last = [op |-> "install", scope |-> s, all |-> all, cli |-> cli] => InstallDone(s, all, cli)
       /\ last = [op |-> "uninstall", scope |-> s, all |-> all, cli |-> cli] => UninstallDone(s, all, cli)
  /\ \A h \in Host, project \in BOOLEAN :
       /\ last = [op |-> "install host", host |-> h, project |-> project] => HostInstallDone(h, project)
       /\ last = [op |-> "uninstall host", host |-> h, project |-> project] => HostUninstallDone(h, project)

HostInvariant == HostTypes /\ StaysApart /\ Settled /\ OutcomeHolds

\* What a command may not touch.
UsersKept ==
  /\ \A s \in Scope : \A e \in Event : ForeignOf(settings'[s].entries[e]) = ForeignOf(settings[s].entries[e])
  /\ \A s \in Scope : Others(text'[s], OursInText) = Others(text[s], OursInText)
  /\ Others(agents', OursInText) = Others(agents, OursInText)
  /\ UsersLines(codex') = UsersLines(codex)
  /\ opencode'.others = opencode.others
  /\ (opencode'.file = "garbled") <=> (opencode.file = "garbled")
  /\ (opencode'.mcp = "scalar") <=> (opencode.mcp = "scalar")

LEMMA ForeignIsKept ==
  ASSUME HostTypes, HostTypes', StaysApart, StaysApart', UsersKept
  PROVE  Foreign' = Foreign
<1>1. \A s \in Scope : \A e \in Event : ForeignOf(settings'[s].entries[e]) = ForeignOf(settings[s].entries[e])
  BY DEF UsersKept
<1>2. Foreign.hooks = Foreign'.hooks
  BY <1>1 DEF Foreign, ForeignOf
<1>3. /\ Foreign.text = Foreign'.text /\ Foreign.agents = Foreign'.agents
      /\ Foreign.codex = Foreign'.codex /\ Foreign.opencode = Foreign'.opencode
  BY DEF Foreign, UsersKept, OursInText, UsersLines
<1> QED
  BY <1>2, <1>3 DEF Foreign

LEMMA ScopesAreThere ==
  ASSUME HostTypes, StaysApart, NEW s \in Scope
  PROVE  /\ settings[s] \in SettingsFile
         /\ text[s] \in Seq(Piece) /\ BlocksApart(text[s])
BY DEF HostTypes, StaysApart

LEMMA InstallOutcome ==
  ASSUME HostTypes, StaysApart, NEW s \in Scope, NEW all \in BOOLEAN, NEW cli \in Cli,
         InstallClaude(s, all, cli)
  PROVE  HostInvariant' /\ UsersKept
<1> DEFINE m == MergeHooksInto(settings[s], self)
           t1 == AppendBlock(text[s], "memory")
           t2 == IF cli = "works" THEN AppendBlock(t1, "graph") ELSE t1
           hosts == InstallableHosts
<1>1. /\ self \in Binary /\ self' = self /\ detected' = detected /\ scopes' = scopes /\ edits' = edits
      /\ last' = [op |-> "install", scope |-> s, all |-> all, cli |-> cli]
  BY DEF InstallClaude, HostTypes
<1>2. settings' = [settings EXCEPT ![s] = m]
  BY DEF InstallClaude
<1>3. /\ m \in SettingsFile /\ MergeHooksInto(m, self) = m
      /\ \A e \in Event : ForeignOf(m.entries[e]) = ForeignOf(settings[s].entries[e])
      /\ \A e \in DOMAIN ClaudeHookEvents : IsLive(m.entries[e], e, self)
  BY <1>1, ScopesAreThere, MergedSettings
<1>4. /\ t2 \in Seq(Piece) /\ BlocksApart(t2) /\ HasMarker(t2, "memory") /\ (cli = "works" => HasMarker(t2, "graph"))
      /\ Others(t2, OursInText) = Others(text[s], OursInText)
  <2>1. "memory" \in DOMAIN Reworded /\ "graph" \in DOMAIN Reworded
    BY TheBlocks
  <2>2. IsWithBlock(t1, text[s], "memory")
    BY <2>1, ScopesAreThere, AppendedBlock
  <2> HIDE DEF t1
  <2>3. IsWithBlock(AppendBlock(t1, "graph"), t1, "graph")
    BY <2>1, <2>2, AppendedBlock DEF IsWithBlock
  <2> QED
    BY <2>1, <2>2, <2>3 DEF IsWithBlock
<1>5. IF ~ all THEN UNCHANGED <<text, agents, codex, opencode, registry>>
      ELSE /\ registry' = RegisterClaudeMCP(self, cli)
           /\ text' = [text EXCEPT ![s] = t2]
           /\ codex' = IF "codex" \in hosts THEN InstallCodex(codex, self) ELSE codex
           /\ opencode' = IF "opencode" \in hosts THEN InstallOpencode(opencode, self) ELSE opencode
           /\ agents' = IF s = "project" /\ hosts # {} THEN AppendBlock(agents, "graph") ELSE agents
  BY DEF InstallClaude, InstallableHosts
<1> HIDE DEF m, t1, t2, hosts
<1>6. settings' \in [Scope -> SettingsFile] /\ settings'[s] = m /\ \A r \in Scope : r # s => settings'[r] = settings[r]
  BY <1>2, <1>3 DEF HostTypes
<1>7. /\ text' \in [Scope -> Seq(Piece)]
      /\ all => text'[s] = t2
      /\ \A r \in Scope : ~ (all /\ r = s) => text'[r] = text[r]
  BY <1>4, <1>5 DEF HostTypes
<1>8. /\ codex' \in Seq(Line) /\ OneTable(codex') /\ UsersLines(codex') = UsersLines(codex)
      /\ all /\ "codex" \in hosts => InstallCodex(codex', self) = codex'
  BY <1>1, <1>5, InstalledCodex DEF HostTypes, StaysApart
<1>9. /\ opencode' \in OpencodeFile /\ OpencodeApart(opencode')
      /\ CanInstallOpencode(opencode') <=> CanInstallOpencode(opencode)
      /\ opencode'.others = opencode.others
      /\ (opencode'.file = "garbled") <=> (opencode.file = "garbled")
      /\ (opencode'.mcp = "scalar") <=> (opencode.mcp = "scalar")
      /\ all /\ "opencode" \in hosts => InstallOpencode(opencode', self) = opencode'
  BY <1>1, <1>5, InstalledOpencode DEF HostTypes, StaysApart
<1>10. InstallableHosts' = hosts
  BY <1>1, <1>9 DEF InstallableHosts, hosts
<1>11. /\ agents' \in Seq(Piece) /\ BlocksApart(agents') /\ Others(agents', OursInText) = Others(agents, OursInText)
       /\ all /\ s = "project" /\ hosts # {} => HasMarker(agents', "graph")
  <2>1. IsWithBlock(AppendBlock(agents, "graph"), agents, "graph")
    BY TheBlocks, AppendedBlock DEF HostTypes, StaysApart
  <2> QED
    BY <1>5, <2>1 DEF IsWithBlock, HostTypes, StaysApart
<1>12. /\ registry' \in {"none", "http"} \cup Binary
       /\ all => RegisterClaudeMCP(self, cli)' = registry'
  <2>1. cli \in {"missing", "works", "rejects"}
    BY DEF Cli
  <2> QED
    BY <1>1, <1>5, <2>1 DEF RegisterClaudeMCP, HostTypes
<1>13. HostTypes'
  BY <1>1, <1>6, <1>7, <1>8, <1>9, <1>11, <1>12 DEF HostTypes
<1>14. StaysApart'
  BY <1>3, <1>4, <1>6, <1>7, <1>8, <1>9, <1>11 DEF StaysApart
<1>15. InstallDone(s, all, cli)'
  BY <1>1, <1>3, <1>4, <1>6, <1>7, <1>8, <1>9, <1>10, <1>11, <1>12 DEF InstallDone
<1>16. Settled'
  BY <1>1, <1>15 DEF Settled
<1>17. OutcomeHolds'
  <2>1. last'.op = "install" /\ last'.scope = s /\ last'.all = all
    BY <1>1
  <2>2. ASSUME NEW e \in DOMAIN ClaudeHookEvents
        PROVE  /\ Len(LiveHooks(s, e)') = 1 /\ (LiveHooks(s, e)')[1].matcher = ClaudeHookEvents[e]
               /\ HookEntryExists((LiveHooks(s, e)')[1], self)
    <3>1. LiveHooks(s, e)' = LiveOf(m.entries[e])
      BY <1>6 DEF LiveHooks, LiveOf
    <3> QED
      BY <1>3, <3>1 DEF IsLive, IsRight
  <2>3. all => HasMarker(text'[s], "memory")
    BY <1>4, <1>7
  <2> QED
    BY <1>1, <2>1, <2>2, <2>3 DEF OutcomeHolds
<1>18. UsersKept
  BY <1>3, <1>4, <1>6, <1>7, <1>8, <1>9, <1>11 DEF UsersKept
<1> QED
  BY <1>13, <1>14, <1>16, <1>17, <1>18 DEF HostInvariant

LEMMA HostInstallOutcome ==
  ASSUME HostTypes, StaysApart, NEW h \in Host, NEW project \in BOOLEAN, InstallHost(h, project)
  PROVE  HostInvariant' /\ UsersKept
<1>1. /\ self \in Binary /\ self' = self /\ detected' = detected \cup {h} /\ scopes' = scopes /\ edits' = edits
      /\ last' = [op |-> "install host", host |-> h, project |-> project]
      /\ settings' = settings /\ text' = text /\ registry' = registry
  BY DEF InstallHost, HostTypes
<1>2. /\ codex' = IF h = "codex" THEN InstallCodex(codex, self) ELSE codex
      /\ opencode' = IF h = "opencode" THEN InstallOpencode(opencode, self) ELSE opencode
      /\ agents' = IF project THEN AppendBlock(agents, "graph") ELSE agents
  BY DEF InstallHost
<1>3. /\ codex' \in Seq(Line) /\ OneTable(codex') /\ UsersLines(codex') = UsersLines(codex)
      /\ h = "codex" => InstallCodex(codex', self) = codex'
  BY <1>1, <1>2, InstalledCodex DEF HostTypes, StaysApart
<1>4. /\ opencode' \in OpencodeFile /\ OpencodeApart(opencode')
      /\ opencode'.others = opencode.others
      /\ (opencode'.file = "garbled") <=> (opencode.file = "garbled")
      /\ (opencode'.mcp = "scalar") <=> (opencode.mcp = "scalar")
      /\ h = "opencode" => InstallOpencode(opencode', self) = opencode'
  <2>1. opencode \in OpencodeFile /\ OpencodeApart(opencode)
    BY DEF HostTypes, StaysApart
  <2>2. CASE h = "opencode"
    BY <1>1, <1>2, <2>1, <2>2, InstalledOpencode
  <2>3. CASE h # "opencode"
    BY <1>2, <2>1, <2>3
  <2> QED
    BY <2>2, <2>3
<1>5. /\ agents' \in Seq(Piece) /\ BlocksApart(agents') /\ Others(agents', OursInText) = Others(agents, OursInText)
      /\ project => HasMarker(agents', "graph")
  <2>1. IsWithBlock(AppendBlock(agents, "graph"), agents, "graph")
    BY TheBlocks, AppendedBlock DEF HostTypes, StaysApart
  <2> QED
    BY <1>2, <2>1 DEF IsWithBlock, HostTypes, StaysApart
<1>6. HostTypes'
  BY <1>1, <1>3, <1>4, <1>5 DEF HostTypes
<1>7. StaysApart'
  BY <1>1, <1>3, <1>4, <1>5 DEF StaysApart
<1>8. HostInstallDone(h, project)'
  BY <1>1, <1>3, <1>4, <1>5 DEF HostInstallDone
<1>9. Settled'
  BY <1>1, <1>8 DEF Settled
<1>10. OutcomeHolds'
  <2>1. last'.op = "install host"
    BY <1>1
  <2> QED
    BY <2>1 DEF OutcomeHolds
<1>11. UsersKept
  BY <1>1, <1>3, <1>4, <1>5 DEF UsersKept
<1> QED
  BY <1>6, <1>7, <1>9, <1>10, <1>11 DEF HostInvariant

LEMMA UninstallOutcome ==
  ASSUME HostTypes, StaysApart, NEW s \in Scope, NEW all \in BOOLEAN, NEW cli \in Cli,
         UninstallClaude(s, all, cli)
  PROVE  HostInvariant' /\ UsersKept
<1> DEFINE m == RemoveHooksFrom(settings[s])
           t == RemoveBlocks(text[s])
<1>1. /\ self \in Binary /\ self' = self /\ detected' = detected /\ scopes' = scopes /\ edits' = edits
      /\ last' = [op |-> "uninstall", scope |-> s, all |-> all, cli |-> cli]
  BY DEF UninstallClaude, HostTypes
<1>2. settings' = [settings EXCEPT ![s] = m]
  BY DEF UninstallClaude
<1>3. /\ m \in SettingsFile /\ RemoveHooksFrom(m) = m
      /\ \A e \in Event : ForeignOf(m.entries[e]) = ForeignOf(settings[s].entries[e])
      /\ \A e \in DOMAIN ClaudeHookEvents : LiveOf(m.entries[e]) = <<>>
  BY ScopesAreThere, CleanedSettings
<1>4. /\ t \in Seq(Piece) /\ BlocksApart(t) /\ RemoveBlocks(t) = t
      /\ \A block \in DOMAIN Reworded : ~ Contains(t, block)
      /\ Others(t, OursInText) = Others(text[s], OursInText)
  BY ScopesAreThere, RemovedBlocks
<1>5. IF ~ all THEN UNCHANGED <<text, agents, codex, opencode, registry>>
      ELSE /\ registry' = UnregisterClaudeMCP(cli)
           /\ text' = [text EXCEPT ![s] = t]
           /\ codex' = UninstallCodex(codex)
           /\ opencode' = UninstallOpencode(opencode)
           /\ agents' = IF s = "project" THEN RemoveBlock(agents, "graph") ELSE agents
  BY DEF UninstallClaude
<1> HIDE DEF m, t
<1>6. settings' \in [Scope -> SettingsFile] /\ settings'[s] = m /\ \A r \in Scope : r # s => settings'[r] = settings[r]
  BY <1>2, <1>3 DEF HostTypes
<1>7. /\ text' \in [Scope -> Seq(Piece)]
      /\ all => text'[s] = t
      /\ \A r \in Scope : ~ (all /\ r = s) => text'[r] = text[r]
  BY <1>4, <1>5 DEF HostTypes
<1>8. /\ codex' \in Seq(Line) /\ OneTable(codex') /\ UsersLines(codex') = UsersLines(codex)
      /\ all => UninstallCodex(codex') = codex' /\ ~ Contains(codex', "ours")
  BY <1>5, UninstalledCodex DEF HostTypes, StaysApart
<1>9. /\ opencode' \in OpencodeFile /\ OpencodeApart(opencode')
      /\ opencode'.others = opencode.others
      /\ (opencode'.file = "garbled") <=> (opencode.file = "garbled")
      /\ (opencode'.mcp = "scalar") <=> (opencode.mcp = "scalar")
      /\ all => UninstallOpencode(opencode') = opencode' /\ opencode'.ours = "none"
  BY <1>5, UninstalledOpencode DEF HostTypes, StaysApart
<1>10. /\ agents' \in Seq(Piece) /\ BlocksApart(agents') /\ Others(agents', OursInText) = Others(agents, OursInText)
       /\ all /\ s = "project" => RemoveBlock(agents', "graph") = agents' /\ ~ Contains(agents', "graph")
  <2>1. IsWithout(RemoveBlock(agents, "graph"), agents, "graph")
    BY TheBlocks, RemovedBlock DEF HostTypes, StaysApart
  <2>2. RemoveBlock(RemoveBlock(agents, "graph"), "graph") = RemoveBlock(agents, "graph")
    BY <2>1, RemovedTwice DEF IsWithout
  <2> QED
    BY <1>5, <2>1, <2>2 DEF IsWithout, HostTypes, StaysApart
<1>11. /\ registry' \in {"none", "http"} \cup Binary
       /\ all => UnregisterClaudeMCP(cli)' = registry' /\ (cli = "works" => registry' = "none")
  BY <1>5 DEF UnregisterClaudeMCP, HostTypes
<1>12. HostTypes'
  BY <1>1, <1>6, <1>7, <1>8, <1>9, <1>10, <1>11 DEF HostTypes
<1>13. StaysApart'
  BY <1>3, <1>4, <1>6, <1>7, <1>8, <1>9, <1>10 DEF StaysApart
<1>14. UninstallDone(s, all, cli)'
  BY <1>1, <1>3, <1>4, <1>6, <1>7, <1>8, <1>9, <1>10, <1>11 DEF UninstallDone
<1>15. Settled'
  BY <1>1, <1>14 DEF Settled
<1>16. OutcomeHolds'
  <2>1. last'.op = "uninstall" /\ last'.scope = s /\ last'.all = all /\ last'.cli = cli
    BY <1>1
  <2>2. \A e \in DOMAIN ClaudeHookEvents : LiveHooks(s, e)' = <<>>
    BY <1>3, <1>6 DEF LiveHooks, LiveOf
  <2>3. all => \A block \in DOMAIN Reworded : ~ Contains(text'[s], block)
    BY <1>4, <1>7
  <2> QED
    BY <1>8, <1>9, <1>10, <1>11, <2>1, <2>2, <2>3 DEF OutcomeHolds
<1>17. UsersKept
  BY <1>3, <1>4, <1>6, <1>7, <1>8, <1>9, <1>10 DEF UsersKept
<1> QED
  BY <1>12, <1>13, <1>15, <1>16, <1>17 DEF HostInvariant

LEMMA HostUninstallOutcome ==
  ASSUME HostTypes, StaysApart, NEW h \in Host, NEW project \in BOOLEAN, UninstallHost(h, project)
  PROVE  HostInvariant' /\ UsersKept
<1>1. /\ self \in Binary /\ self' = self /\ detected' = detected /\ scopes' = scopes /\ edits' = edits
      /\ last' = [op |-> "uninstall host", host |-> h, project |-> project]
      /\ settings' = settings /\ text' = text /\ registry' = registry
  BY DEF UninstallHost, HostTypes
<1>2. /\ codex' = IF h = "codex" THEN UninstallCodex(codex) ELSE codex
      /\ opencode' = IF h = "opencode" THEN UninstallOpencode(opencode) ELSE opencode
      /\ agents' = IF project THEN RemoveBlock(agents, "graph") ELSE agents
  BY DEF UninstallHost
<1>3. /\ codex' \in Seq(Line) /\ OneTable(codex') /\ UsersLines(codex') = UsersLines(codex)
      /\ h = "codex" => UninstallCodex(codex') = codex'
  BY <1>2, UninstalledCodex DEF HostTypes, StaysApart
<1>4. /\ opencode' \in OpencodeFile /\ OpencodeApart(opencode')
      /\ opencode'.others = opencode.others
      /\ (opencode'.file = "garbled") <=> (opencode.file = "garbled")
      /\ (opencode'.mcp = "scalar") <=> (opencode.mcp = "scalar")
      /\ h = "opencode" => UninstallOpencode(opencode') = opencode'
  BY <1>2, UninstalledOpencode DEF HostTypes, StaysApart
<1>5. /\ agents' \in Seq(Piece) /\ BlocksApart(agents') /\ Others(agents', OursInText) = Others(agents, OursInText)
      /\ project => RemoveBlock(agents', "graph") = agents'
  <2>1. IsWithout(RemoveBlock(agents, "graph"), agents, "graph")
    BY TheBlocks, RemovedBlock DEF HostTypes, StaysApart
  <2>2. RemoveBlock(RemoveBlock(agents, "graph"), "graph") = RemoveBlock(agents, "graph")
    BY <2>1, RemovedTwice DEF IsWithout
  <2> QED
    BY <1>2, <2>1, <2>2 DEF IsWithout, HostTypes, StaysApart
<1>6. HostTypes'
  BY <1>1, <1>3, <1>4, <1>5 DEF HostTypes
<1>7. StaysApart'
  BY <1>1, <1>3, <1>4, <1>5 DEF StaysApart
<1>8. HostUninstallDone(h, project)'
  BY <1>1, <1>3, <1>4, <1>5 DEF HostUninstallDone
<1>9. Settled'
  BY <1>1, <1>8 DEF Settled
<1>10. OutcomeHolds'
  <2>1. last'.op = "uninstall host"
    BY <1>1
  <2> QED
    BY <2>1 DEF OutcomeHolds
<1>11. UsersKept
  BY <1>1, <1>3, <1>4, <1>5 DEF UsersKept
<1> QED
  BY <1>6, <1>7, <1>9, <1>10, <1>11 DEF HostInvariant

LEMMA EmptySettings ==
  NoSettings \in SettingsFile /\ [NoSettings EXCEPT !.file = "garbled"] \in SettingsFile
<1>1. NoSettings.entries \in [Event -> Seq(Entry)]
  BY DEF NoSettings
<1>2. NoSettings = [file |-> "absent", hooks |-> "absent", odd |-> {}, entries |-> NoSettings.entries]
  BY DEF NoSettings
<1>3. [NoSettings EXCEPT !.file = "garbled"]
      = [file |-> "garbled", hooks |-> "absent", odd |-> {}, entries |-> NoSettings.entries]
  BY <1>2
<1> QED
  BY <1>1, <1>2, <1>3 DEF SettingsFile

\* No step but a command's leaves a command behind.
LEMMA QuietOutcome ==
  ASSUME last'.op \in {"none", "killed"}
  PROVE  OutcomeHolds'
BY DEF OutcomeHolds

LEMMA QuietSettled ==
  ASSUME NEW op \in {"none", "killed"}, last' = [op |-> op]
  PROVE  Settled' /\ OutcomeHolds'
<1>1. last'.op = op
  OBVIOUS
<1>2. last'.op \notin {"install", "uninstall", "install host", "uninstall host"}
  BY <1>1
<1>3. Settled'
  BY <1>2 DEF Settled
<1> QED
  BY <1>1, <1>3, QuietOutcome

LEMMA KilledOutcome ==
  ASSUME HostTypes, StaysApart, NEW s \in Scope, KilledInWrite(s)
  PROVE  HostInvariant'
<1>1. settings' = [settings EXCEPT ![s] = [NoSettings EXCEPT !.file = "garbled"]]
  BY DEF KilledInWrite
<1>2. settings' \in [Scope -> SettingsFile]
  BY <1>1, EmptySettings DEF HostTypes
<1>3. Settled' /\ OutcomeHolds'
  BY QuietSettled DEF KilledInWrite
<1>4. HostTypes' /\ StaysApart'
  BY <1>2 DEF KilledInWrite, HostTypes, StaysApart
<1> QED
  BY <1>3, <1>4 DEF HostInvariant

LEMMA AddedHook ==
  ASSUME NEW f \in SettingsFile, NEW e \in Event, NEW entry \in Entry,
         NEW g, g = [f EXCEPT !.hooks = "object", !.odd = @ \ {e}, !.entries[e] = Append(@, entry)]
  PROVE  g \in SettingsFile
<1>1. f = [file |-> f.file, hooks |-> f.hooks, odd |-> f.odd, entries |-> f.entries]
      /\ f.entries \in [Event -> Seq(Entry)] /\ f.file \in {"absent", "json", "garbled"} /\ f.odd \in SUBSET Event
  BY DEF SettingsFile
<1> DEFINE G == [f.entries EXCEPT ![e] = Append(@, entry)]
<1>2. G \in [Event -> Seq(Entry)]
  BY <1>1
<1>3. g = [file |-> f.file, hooks |-> "object", odd |-> f.odd \ {e}, entries |-> G]
  BY <1>1
<1> HIDE DEF G
<1> QED
  BY <1>1, <1>2, <1>3 DEF SettingsFile

LEMMA UserOutcome ==
  ASSUME HostTypes, StaysApart, UserEdits
  PROVE  HostInvariant'
<1>1. UserStep
  BY DEF UserEdits, Write, Reword, AddHook, AddLines, MoveBinary
<1>2. last' = [op |-> "none"] /\ edits' \in Nat
  BY <1>1 DEF UserStep, HostTypes
<1>3. Settled' /\ OutcomeHolds'
  BY <1>2, QuietSettled
<1>4. HostTypes' /\ StaysApart'
  <2>1. ASSUME NEW s \in scopes, Write(s)
        PROVE  HostTypes' /\ StaysApart'
    <3>1. s \in Scope /\ text' = [text EXCEPT ![s] = Append(text[s], "rules")]
      BY <2>1 DEF Write, HostTypes
    <3>2. text' \in [Scope -> Seq(Piece)] /\ \A r \in Scope : BlocksApart(text'[r])
      BY <3>1, ScopesAreThere, WrittenText DEF HostTypes, StaysApart
    <3> QED
      BY <1>2, <2>1, <3>2 DEF Write, HostTypes, StaysApart
  <2>2. ASSUME NEW s \in scopes, NEW block \in DOMAIN Reworded, Reword(s, block)
        PROVE  HostTypes' /\ StaysApart'
    <3>1. s \in Scope /\ text' = [text EXCEPT ![s] = Rewording(text[s], block)]
      BY <2>2 DEF Reword, HostTypes
    <3>2. text' \in [Scope -> Seq(Piece)] /\ \A r \in Scope : BlocksApart(text'[r])
      BY <3>1, ScopesAreThere, RewordedText DEF HostTypes, StaysApart
    <3> QED
      BY <1>2, <2>2, <3>2 DEF Reword, HostTypes, StaysApart
  <2>3. ASSUME NEW s \in scopes, NEW h \in UserHooks, AddHook(s, h.event, h.entry)
        PROVE  HostTypes' /\ StaysApart'
    <3>1. s \in Scope
          /\ settings' = [settings EXCEPT ![s].hooks = "object", ![s].odd = @ \ {h.event},
                                          ![s].entries[h.event] = Append(@, h.entry)]
      BY <2>3 DEF AddHook, HostTypes
    <3>2. h.event \in Event /\ h.entry \in Entry
      BY HostAssumption
    <3> DEFINE g == [settings[s] EXCEPT !.hooks = "object", !.odd = @ \ {h.event},
                                        !.entries[h.event] = Append(@, h.entry)]
    <3>3. settings' = [settings EXCEPT ![s] = g]
      BY <3>1 DEF HostTypes, SettingsFile
    <3>4. g \in SettingsFile
      BY <3>1, <3>2, ScopesAreThere, AddedHook
    <3> HIDE DEF g
    <3>5. settings' \in [Scope -> SettingsFile]
      BY <3>1, <3>3, <3>4 DEF HostTypes
    <3> QED
      BY <1>2, <2>3, <3>5 DEF AddHook, HostTypes, StaysApart
  <2>4. ASSUME NEW lines \in UserLines, AddLines(lines)
        PROVE  HostTypes' /\ StaysApart'
    <3>1. codex' \in Seq(Line) /\ OneTable(codex')
      BY <2>4, AddedLines DEF AddLines, HostTypes, StaysApart
    <3> QED
      BY <1>2, <2>4, <3>1 DEF AddLines, HostTypes, StaysApart
  <2>5. ASSUME NEW b \in Binary, MoveBinary(b)
        PROVE  HostTypes' /\ StaysApart'
    BY <1>2, <2>5 DEF MoveBinary, files, HostTypes, StaysApart
  <2> QED
    BY <2>1, <2>2, <2>3, <2>4, <2>5 DEF UserEdits
<1> QED
  BY <1>3, <1>4 DEF HostInvariant

LEMMA HostInitInvariant ==
  ASSUME \A m \in Machines : Apart(m), HostInit
  PROVE  HostInvariant
<1>1. PICK m \in Machines :
        /\ settings = [s \in Scope |-> IF s \in m.scopes THEN m.settings ELSE NoSettings]
        /\ text = [s \in Scope |-> IF s \in m.scopes THEN m.text ELSE <<>>]
        /\ agents = <<>> /\ codex = m.codex /\ opencode = m.opencode /\ registry = m.registry
        /\ detected = m.detected /\ scopes = m.scopes /\ self = m.self /\ last = [op |-> "none"] /\ edits = 0
  BY DEF HostInit, InitFrom
<1>2. /\ m.settings \in SettingsFile /\ m.text \in Seq(Piece) /\ m.codex \in Seq(Line)
      /\ m.opencode \in OpencodeFile /\ m.registry \in {"none", "http"} \cup Binary
      /\ m.detected \in SUBSET Host /\ m.scopes \in SUBSET Scope /\ m.self \in Binary
  BY HostAssumption DEF Machine
<1>3. BlocksApart(m.text) /\ OneTable(m.codex) /\ OpencodeApart(m.opencode)
  BY DEF Apart
<1>4. <<>> \in Seq(Piece) /\ BlocksApart(<<>>)
  BY DEF BlocksApart
<1>5. HostTypes
  BY <1>1, <1>2, <1>4, EmptySettings DEF HostTypes
<1>6. StaysApart
  BY <1>1, <1>3, <1>4, EmptySettings DEF StaysApart
<1>7. last.op = "none"
  BY <1>1
<1>8. Settled
  <2>1. \A s \in Scope, all \in BOOLEAN, cli \in Cli :
          /\ last # [op |-> "install", scope |-> s, all |-> all, cli |-> cli]
          /\ last # [op |-> "uninstall", scope |-> s, all |-> all, cli |-> cli]
    BY <1>7
  <2>2. \A h \in Host, project \in BOOLEAN :
          /\ last # [op |-> "install host", host |-> h, project |-> project]
          /\ last # [op |-> "uninstall host", host |-> h, project |-> project]
    <3>1. \A op, h, p : [op |-> op, host |-> h, project |-> p].op = op
      OBVIOUS
    <3>2. "install host" # "none" /\ "uninstall host" # "none"
      OBVIOUS
    <3> QED
      BY <1>7, <3>1, <3>2, Zenon
  <2> QED
    BY <2>1, <2>2 DEF Settled
<1>9. OutcomeHolds
  BY <1>7 DEF OutcomeHolds
<1> QED
  BY <1>5, <1>6, <1>8, <1>9 DEF HostInvariant

LEMMA CommandOutcome ==
  ASSUME HostTypes, StaysApart, Commands
  PROVE  HostInvariant' /\ UsersKept
<1>1. scopes \subseteq Scope /\ "missing" \in Cli
  BY DEF HostTypes, Cli
<1>2. ASSUME NEW s \in scopes, NEW cli \in Cli, NEW all \in BOOLEAN,
             InstallClaude(s, all, cli) \/ UninstallClaude(s, all, cli)
      PROVE  HostInvariant' /\ UsersKept
  BY <1>1, <1>2, InstallOutcome, UninstallOutcome
<1>3. ASSUME NEW h \in Host, NEW project \in BOOLEAN, InstallHost(h, project) \/ UninstallHost(h, project)
      PROVE  HostInvariant' /\ UsersKept
  BY <1>3, HostInstallOutcome, HostUninstallOutcome
<1> QED
  BY <1>1, <1>2, <1>3 DEF Commands

LEMMA HostNextInvariant ==
  ASSUME HostInvariant, [HostNext]_hostVars
  PROVE  HostInvariant'
<1> USE DEF HostInvariant
<1>1. CASE Commands
  BY <1>1, CommandOutcome
<1>2. CASE UserEdits
  BY <1>2, UserOutcome
<1>3. CASE \E s \in scopes : KilledInWrite(s)
  <2>1. scopes \subseteq Scope
    BY DEF HostTypes
  <2> QED
    BY <1>3, <2>1, KilledOutcome
<1>4. CASE UNCHANGED hostVars
  <2>1. HostTypes' /\ StaysApart'
    BY <1>4 DEF hostVars, files, HostTypes, StaysApart
  <2>2. OutcomeHolds'
    BY <1>4 DEF hostVars, files, OutcomeHolds, LiveHooks
  <2>3. Settled'
    <3>1. /\ settings' = settings /\ text' = text /\ agents' = agents /\ codex' = codex /\ opencode' = opencode
          /\ registry' = registry /\ detected' = detected /\ self' = self /\ last' = last
      BY <1>4 DEF hostVars, files
    <3>2. InstallableHosts' = InstallableHosts
      BY <3>1 DEF InstallableHosts
    <3>3. \A cli : /\ RegisterClaudeMCP(self, cli)' = RegisterClaudeMCP(self, cli)
                   /\ UnregisterClaudeMCP(cli)' = UnregisterClaudeMCP(cli)
      BY <3>1 DEF RegisterClaudeMCP, UnregisterClaudeMCP
    <3>4. \A s \in Scope, all \in BOOLEAN, cli \in Cli :
            /\ InstallDone(s, all, cli) => InstallDone(s, all, cli)'
            /\ UninstallDone(s, all, cli) => UninstallDone(s, all, cli)'
      BY <3>1, <3>2, <3>3 DEF InstallDone, UninstallDone
    <3>5. \A h \in Host, project \in BOOLEAN :
            /\ HostInstallDone(h, project) => HostInstallDone(h, project)'
            /\ HostUninstallDone(h, project) => HostUninstallDone(h, project)'
      BY <3>1 DEF HostInstallDone, HostUninstallDone
    <3> QED
      BY <3>1, <3>4, <3>5 DEF Settled
  <2> QED
    BY <2>1, <2>2, <2>3
<1> QED
  BY <1>1, <1>2, <1>3, <1>4 DEF HostNext

-----------------------------------------------------------------------------
(* A command given again.                                                    *)

LEMMA InstallAgain ==
  ASSUME HostTypes, Settled, NEW s \in Scope, NEW all \in BOOLEAN, NEW cli \in Cli,
         InstallClaude(s, all, cli), last' = last
  PROVE  UNCHANGED files
<1>1. InstallDone(s, all, cli)
  <2>1. last = [op |-> "install", scope |-> s, all |-> all, cli |-> cli]
    BY DEF InstallClaude
  <2> QED
    BY <2>1 DEF Settled
<1>2. settings' = settings
  BY <1>1 DEF InstallClaude, InstallDone, HostTypes
<1>3. CASE ~ all
  BY <1>2, <1>3 DEF InstallClaude, files
<1>4. CASE all
  <2>1. /\ registry' = RegisterClaudeMCP(self, cli)
        /\ text' = [text EXCEPT ![s] = IF cli = "works" THEN AppendBlock(AppendBlock(text[s], "memory"), "graph")
                                       ELSE AppendBlock(text[s], "memory")]
        /\ codex' = IF "codex" \in InstallableHosts THEN InstallCodex(codex, self) ELSE codex
        /\ opencode' = IF "opencode" \in InstallableHosts THEN InstallOpencode(opencode, self) ELSE opencode
        /\ agents' = IF s = "project" /\ InstallableHosts # {} THEN AppendBlock(agents, "graph") ELSE agents
    BY <1>4 DEF InstallClaude, InstallableHosts
  <2>2. AppendBlock(text[s], "memory") = text[s] /\ (cli = "works" => AppendBlock(text[s], "graph") = text[s])
    BY <1>1, <1>4, AppendedTwice DEF InstallDone
  <2>3. text' = text
    BY <2>1, <2>2 DEF HostTypes
  <2>4. agents' = agents
    BY <1>1, <1>4, <2>1, AppendedTwice DEF InstallDone
  <2>5. registry' = registry /\ codex' = codex /\ opencode' = opencode
    BY <1>1, <1>4, <2>1 DEF InstallDone
  <2> QED
    BY <1>2, <2>3, <2>4, <2>5 DEF files
<1> QED
  BY <1>3, <1>4

LEMMA UninstallAgain ==
  ASSUME HostTypes, Settled, NEW s \in Scope, NEW all \in BOOLEAN, NEW cli \in Cli,
         UninstallClaude(s, all, cli), last' = last
  PROVE  UNCHANGED files
<1>1. UninstallDone(s, all, cli)
  <2>1. last = [op |-> "uninstall", scope |-> s, all |-> all, cli |-> cli]
    BY DEF UninstallClaude
  <2> QED
    BY <2>1 DEF Settled
<1>2. settings' = settings
  BY <1>1 DEF UninstallClaude, UninstallDone, HostTypes
<1>3. CASE ~ all
  BY <1>2, <1>3 DEF UninstallClaude, files
<1>4. CASE all
  BY <1>1, <1>2, <1>4 DEF UninstallClaude, UninstallDone, HostTypes, files
<1> QED
  BY <1>3, <1>4

LEMMA HostInstallAgain ==
  ASSUME Settled, NEW h \in Host, NEW project \in BOOLEAN, InstallHost(h, project), last' = last
  PROVE  UNCHANGED files
<1>1. HostInstallDone(h, project)
  <2>1. last = [op |-> "install host", host |-> h, project |-> project]
    BY DEF InstallHost
  <2> QED
    BY <2>1 DEF Settled
<1> QED
  BY <1>1, AppendedTwice DEF InstallHost, HostInstallDone, files

LEMMA HostUninstallAgain ==
  ASSUME Settled, NEW h \in Host, NEW project \in BOOLEAN, UninstallHost(h, project), last' = last
  PROVE  UNCHANGED files
<1>1. HostUninstallDone(h, project)
  <2>1. last = [op |-> "uninstall host", host |-> h, project |-> project]
    BY DEF UninstallHost
  <2> QED
    BY <2>1 DEF Settled
<1> QED
  BY <1>1 DEF UninstallHost, HostUninstallDone, files

LEMMA CommandAgain ==
  ASSUME HostTypes, Settled, Commands, last' = last
  PROVE  UNCHANGED files
<1>1. scopes \subseteq Scope /\ "missing" \in Cli
  BY DEF HostTypes, Cli
<1>2. ASSUME NEW s \in scopes, NEW cli \in Cli, NEW all \in BOOLEAN,
             InstallClaude(s, all, cli) \/ UninstallClaude(s, all, cli)
      PROVE  UNCHANGED files
  BY <1>1, <1>2, InstallAgain, UninstallAgain
<1>3. ASSUME NEW h \in Host, NEW project \in BOOLEAN, InstallHost(h, project) \/ UninstallHost(h, project)
      PROVE  UNCHANGED files
  BY <1>3, HostInstallAgain, HostUninstallAgain
<1> QED
  BY <1>1, <1>2, <1>3 DEF Commands

-----------------------------------------------------------------------------

\* From every machine whose texts hold a block of ours at most once and whose
\* config.toml has one table of ours at most, that stays so, whatever commands, edits
\* and kills follow; every file is well formed, and the last command has nothing left
\* to do (cmd_install.go, cmd_uninstall.go).
THEOREM HostFilesStayApart ==
  ASSUME \A m \in Machines : Apart(m)
  PROVE  HostSpec => []HostInvariant
<1>1. HostInit => HostInvariant
  BY HostInitInvariant
<1>2. HostInvariant /\ [HostNext]_hostVars => HostInvariant'
  BY HostNextInvariant
<1> QED
  BY <1>1, <1>2, PTL DEF HostSpec

\* After an install one live hook per event, of this binary; after an uninstall
\* none; after a full one nothing of ours (cmd_install.go, cmd_uninstall.go).
THEOREM HostOutcome ==
  ASSUME \A m \in Machines : Apart(m)
  PROVE  HostSpec => []OutcomeHolds
<1>1. HostInvariant => OutcomeHolds
  BY DEF HostInvariant
<1> QED
  BY <1>1, HostFilesStayApart, PTL

\* No command touches an entry without the words "session hook", a text, a server of
\* the user or a line outside our table, and a command given twice changes nothing the
\* second time ("Idempotent and non-destructive", cmd_install.go).
THEOREM HostOnlyOursChanges ==
  ASSUME \A m \in Machines : Apart(m)
  PROVE  HostSpec => OnlyOursChanges
<1>1. ASSUME HostInvariant, HostInvariant', [HostNext]_hostVars
      PROVE  [last'.op \notin {"none", "killed"} =>
                /\ Foreign' = Foreign
                /\ last' = last => UNCHANGED files]_hostVars
  <2>1. CASE Commands
    BY <1>1, <2>1, CommandOutcome, CommandAgain, ForeignIsKept DEF HostInvariant
  <2>2. CASE UserEdits
    <3>1. last' = [op |-> "none"]
      BY <2>2 DEF UserEdits, UserStep, Write, Reword, AddHook, AddLines, MoveBinary
    <3>2. last'.op = "none"
      BY <3>1
    <3> QED
      BY <3>2
  <2>3. CASE \E s \in scopes : KilledInWrite(s)
    <3>1. last' = [op |-> "killed"]
      BY <2>3 DEF KilledInWrite
    <3>2. last'.op = "killed"
      BY <3>1
    <3> QED
      BY <3>2
  <2> QED
    BY <1>1, <2>1, <2>2, <2>3 DEF HostNext
<1> QED
  BY <1>1, HostFilesStayApart, PTL DEF HostSpec, OnlyOursChanges

(***************************************************************************)
(* GraphQuery                                                              *)
(***************************************************************************)

(* Walks level by level: the recursion is a CHOOSE, whose equation needs a   *)
(* function that satisfies it.                                               *)

\* The first n levels of the walk from x0.
IsWalk(h, n, x0, step) == h[0] = x0 /\ \A k \in 1 .. n : h[k] = step[<<k, h[k - 1]>>]

\* The walk that never ends, and the form in which a definition asks for it.
WalksOn(h, x0, step) == h[0] = x0 /\ \A k \in Nat : h[k + 1] = step[<<k + 1, h[k]>>]
Recurs(h, x0, step) == h = [k \in Nat |-> IF k = 0 THEN x0 ELSE step[<<k, h[k - 1]>>]]

LEMMA LeastNumber ==
  ASSUME NEW S \in SUBSET Nat, S # {}
  PROVE  \E m \in S : \A k \in S : m <= k
<1>1. PICK m \in S : \A k \in Nat : <<k, m>> \in OpToRel(<, Nat) => k \notin S
  BY NatLessThanWellFounded, WFMin
<1>2. \A k \in S : ~(k < m)
  BY <1>1 DEF OpToRel
<1> QED
  BY <1>2

\* Two walks of the same steps agree.
LEMMA WalksAgree ==
  ASSUME NEW x0, NEW step, NEW n \in Nat, NEW m \in Nat, m <= n,
         NEW g, IsWalk(g, n, x0, step), NEW h, IsWalk(h, m, x0, step)
  PROVE  g[m] = h[m]
<1> DEFINE Bad == {k \in 0 .. m : g[k] # h[k]}
<1> SUFFICES ASSUME Bad # {} PROVE FALSE
  OBVIOUS
<1>1. PICK k \in Bad : \A j \in Bad : k <= j
  <2>1. Bad \in SUBSET Nat
    OBVIOUS
  <2> QED
    BY <2>1, LeastNumber
<1>2. k # 0
  BY <1>1 DEF IsWalk
<1>3. k \in 1 .. m /\ k \in 1 .. n /\ k - 1 \in 0 .. m /\ ~(k <= k - 1)
  BY <1>2
<1>4. g[k - 1] = h[k - 1]
  BY <1>1, <1>3
<1> QED
  BY <1>1, <1>3, <1>4 DEF IsWalk

LEMMA FirstLevels ==
  ASSUME NEW X, NEW x0 \in X, NEW step \in [Nat \X X -> X], NEW n \in Nat
  PROVE  \E h \in [Nat -> X] : IsWalk(h, n, x0, step)
<1> DEFINE Bad == {m \in Nat : ~ \E h \in [Nat -> X] : IsWalk(h, m, x0, step)}
<1> SUFFICES ASSUME Bad # {} PROVE FALSE
  OBVIOUS
<1>1. PICK m \in Bad : \A j \in Bad : m <= j
  BY LeastNumber
<1>2. m # 0
  <2>1. [k \in Nat |-> x0] \in [Nat -> X] /\ IsWalk([k \in Nat |-> x0], 0, x0, step)
    BY DEF IsWalk
  <2> QED
    BY <2>1
<1>3. PICK h \in [Nat -> X] : IsWalk(h, m - 1, x0, step)
  BY <1>1, <1>2
<1> DEFINE g == [k \in Nat |-> IF k < m THEN h[k] ELSE step[<<m, h[m - 1]>>]]
<1>4. m - 1 \in Nat /\ h[m - 1] \in X /\ step[<<m, h[m - 1]>>] \in X
  BY <1>2
<1>5. g \in [Nat -> X]
  BY <1>4
<1>6. \A k \in 0 .. m - 1 : g[k] = h[k]
  OBVIOUS
<1>7. g[m] = step[<<m, h[m - 1]>>]
  OBVIOUS
<1>8. IsWalk(g, m, x0, step)
  <2> HIDE DEF g
  <2> SUFFICES ASSUME NEW k \in 1 .. m PROVE g[k] = step[<<k, g[k - 1]>>]
    BY <1>2, <1>3, <1>6 DEF IsWalk
  <2>1. g[k - 1] = h[k - 1]
    BY <1>6
  <2>2. CASE k = m
    BY <1>7, <2>1, <2>2
  <2>3. CASE k # m
    <3>1. k \in 1 .. m - 1 /\ k \in 0 .. m - 1
      BY <2>3
    <3> QED
      BY <1>3, <1>6, <2>1, <3>1 DEF IsWalk
  <2> QED
    BY <2>2, <2>3
<1> QED
  BY <1>5, <1>8

\* There is a walk without end.
LEMMA WalkExists ==
  ASSUME NEW X, NEW x0 \in X, NEW step \in [Nat \X X -> X]
  PROVE  \E h \in [Nat -> X] : WalksOn(h, x0, step)
<1> DEFINE w == [n \in Nat |-> CHOOSE h \in [Nat -> X] : IsWalk(h, n, x0, step)]
           h == [n \in Nat |-> w[n][n]]
<1>1. \A n \in Nat : w[n] \in [Nat -> X] /\ IsWalk(w[n], n, x0, step)
  <2> TAKE n \in Nat
  <2>1. \E g \in [Nat -> X] : IsWalk(g, n, x0, step)
    BY FirstLevels
  <2> QED
    BY <2>1
<1> HIDE DEF w
<1>2. h \in [Nat -> X]
  BY <1>1
<1>3. h[0] = x0
  BY <1>1 DEF IsWalk
<1>4. ASSUME NEW k \in Nat
      PROVE  h[k + 1] = step[<<k + 1, h[k]>>]
  <2>1. w[k + 1][k] = w[k][k]
    BY <1>1, WalksAgree
  <2>2. w[k + 1][k + 1] = step[<<k + 1, w[k + 1][(k + 1) - 1]>>]
    BY <1>1 DEF IsWalk
  <2>3. (k + 1) - 1 = k /\ k + 1 \in Nat
    OBVIOUS
  <2> QED
    BY <2>1, <2>2, <2>3
<1> QED
  BY <1>2, <1>3, <1>4 DEF WalksOn

LEMMA RecursionHolds ==
  ASSUME NEW X, NEW x0 \in X, NEW step \in [Nat \X X -> X]
  PROVE  \E h \in [Nat -> X] : Recurs(h, x0, step)
<1>0. PICK h \in [Nat -> X] : WalksOn(h, x0, step)
  BY WalkExists
<1>1. h[0] = x0 /\ \A k \in Nat : h[k + 1] = step[<<k + 1, h[k]>>]
  BY <1>0 DEF WalksOn
<1>2. \A k \in Nat : h[k] = IF k = 0 THEN x0 ELSE step[<<k, h[k - 1]>>]
  <2> TAKE k \in Nat
  <2>1. CASE k = 0
    BY <1>1, <2>1
  <2>2. CASE k # 0
    <3>1. k - 1 \in Nat /\ (k - 1) + 1 = k
      BY <2>2
    <3> QED
      BY <1>1, <2>2, <3>1
  <2> QED
    BY <2>1, <2>2
<1> QED
  BY <1>1, <1>2 DEF Recurs

-----------------------------------------------------------------------------
(* The symbols of a graph.                                                   *)

LEMMA GraphFacts ==
  ASSUME graph \in Graphs
  PROVE  /\ sym \in Seq(SymbolRow) /\ Len(sym) \in Nat /\ Id = 1 .. Len(sym) /\ Id \subseteq Nat
         /\ IsFiniteSet(Id) /\ Cardinality(Id) = Len(sym)
         /\ graph.edges \subseteq Id \X Id
<1>1. IsGraph(graph)
  BY QueryAssumption
<1>2. sym \in Seq(SymbolRow) /\ graph.edges \subseteq Id \X Id
  BY <1>1 DEF IsGraph, sym, Id
<1>3. Len(sym) \in Nat /\ Id = 1 .. Len(sym)
  BY <1>2 DEF Id
<1> QED
  BY <1>2, <1>3, UpTo

LEMMA Adjacent ==
  ASSUME NEW S, NEW dir
  PROVE  Next1(S, dir) \subseteq Id
BY DEF Next1

\* One level out of a ball, and the balls as they grow.
LEMMA BallUnfolds ==
  ASSUME NEW start \in Id, NEW dir, NEW noTests
  PROVE  /\ Ball(start, dir, noTests, 0) = {start}
         /\ \A d \in Nat : Ball(start, dir, noTests, d + 1) = Nearer(Ball(start, dir, noTests, d), dir, noTests)
<1> DEFINE X == SUBSET Id
           step == [p \in Nat \X X |-> Nearer(p[2], dir, noTests)]
           F(h) == [k \in Nat |-> IF k = 0 THEN {start} ELSE Nearer(h[k - 1], dir, noTests)]
           b == CHOOSE h : h = F(h)
<1>1. {start} \in X /\ step \in [Nat \X X -> X]
  BY Adjacent DEF Nearer
<1>2. PICK h \in [Nat -> X] : Recurs(h, {start}, step)
  <2> HIDE DEF X, step
  <2> QED
    BY <1>1, RecursionHolds
<1>3. ASSUME NEW k \in Nat, k # 0
      PROVE  step[<<k, h[k - 1]>>] = Nearer(h[k - 1], dir, noTests)
  <2>1. k - 1 \in Nat
    BY <1>3
  <2>2. h[k - 1] \in X
    BY <2>1
  <2> QED
    BY <2>2
<1>4. h = F(h)
  BY <1>2, <1>3 DEF Recurs
<1>5. b = F(b)
  <2> HIDE DEF F
  <2> QED
    BY <1>4
<1>6. \A d : Ball(start, dir, noTests, d) = b[d]
  BY DEF Ball
<1>7. b[0] = {start} /\ \A d \in Nat : b[d + 1] = Nearer(b[d], dir, noTests)
  <2> HIDE DEF b
  <2>1. b[0] = {start}
    BY <1>5
  <2>2. ASSUME NEW d \in Nat PROVE b[d + 1] = Nearer(b[d], dir, noTests)
    <3>1. d + 1 \in Nat /\ d + 1 # 0 /\ (d + 1) - 1 = d
      OBVIOUS
    <3> QED
      BY <1>5, <3>1
  <2> QED
    BY <2>1, <2>2
<1> HIDE DEF b
<1> QED
  BY <1>6, <1>7

LEMMA BallNext ==
  ASSUME NEW start \in Id, NEW dir, NEW noTests, NEW d \in Nat
  PROVE  Ball(start, dir, noTests, d + 1) = Nearer(Ball(start, dir, noTests, d), dir, noTests)
<1>1. /\ Ball(start, dir, noTests, 0) = {start}
      /\ \A k \in Nat : Ball(start, dir, noTests, k + 1) = Nearer(Ball(start, dir, noTests, k), dir, noTests)
  BY BallUnfolds
<1> QED
  BY <1>1

\* Reached in exactly d steps, in the words of the ball.
LEMMA BallsGrow ==
  ASSUME NEW start \in Id, NEW dir, NEW noTests
  PROVE  /\ \A d \in Nat : start \in Ball(start, dir, noTests, d) /\ Ball(start, dir, noTests, d) \subseteq Id
         /\ \A d \in Nat, e \in Nat : d <= e => Ball(start, dir, noTests, d) \subseteq Ball(start, dir, noTests, e)
<1> DEFINE B(d) == Ball(start, dir, noTests, d)
<1> HIDE DEF B
<1>1. B(0) = {start} /\ \A d \in Nat : B(d + 1) = Nearer(B(d), dir, noTests)
  BY BallUnfolds DEF B
<1>2. \A d \in Nat : B(d) \subseteq B(d + 1)
  BY <1>1 DEF Nearer
<1>3. ASSUME NEW d \in Nat PROVE start \in B(d) /\ B(d) \subseteq Id
  <2> DEFINE Bad == {k \in Nat : ~(start \in B(k) /\ B(k) \subseteq Id)}
  <2> SUFFICES ASSUME Bad # {} PROVE FALSE
    OBVIOUS
  <2>1. PICK k \in Bad : \A j \in Bad : k <= j
    BY LeastNumber
  <2>2. k # 0
    BY <1>1, <2>1
  <2>3. k - 1 \in Nat /\ (k - 1) + 1 = k /\ ~(k <= k - 1)
    BY <2>2
  <2>4. start \in B(k - 1) /\ B(k - 1) \subseteq Id
    BY <2>1, <2>3
  <2>5. B(k) = Nearer(B(k - 1), dir, noTests)
    BY <1>1, <2>3
  <2> QED
    BY <2>1, <2>4, <2>5, Adjacent DEF Nearer
<1>4. ASSUME NEW d \in Nat, NEW e \in Nat, d <= e PROVE B(d) \subseteq B(e)
  <2> DEFINE Bad == {k \in Nat : d <= k /\ ~(B(d) \subseteq B(k))}
  <2> SUFFICES ASSUME Bad # {} PROVE FALSE
    BY <1>4
  <2>1. PICK k \in Bad : \A j \in Bad : k <= j
    BY LeastNumber
  <2>2. k # d
    BY <2>1
  <2>3. k - 1 \in Nat /\ (k - 1) + 1 = k /\ ~(k <= k - 1) /\ d <= k - 1
    BY <2>1, <2>2
  <2>4. B(d) \subseteq B(k - 1)
    BY <2>1, <2>3
  <2>5. B(k - 1) \subseteq B(k)
    BY <1>2, <2>3
  <2> QED
    BY <2>1, <2>4, <2>5
<1> QED
  BY <1>3, <1>4 DEF B

LEMMA BallAndNext ==
  ASSUME NEW start \in Id, NEW dir, NEW noTests, NEW k \in Nat
  PROVE  /\ Ball(start, dir, noTests, k + 1) = Nearer(Ball(start, dir, noTests, k), dir, noTests)
         /\ start \in Ball(start, dir, noTests, k) /\ Ball(start, dir, noTests, k) \subseteq Id
<1>1. Ball(start, dir, noTests, k + 1) = Nearer(Ball(start, dir, noTests, k), dir, noTests)
  BY BallNext
<1>2. start \in Ball(start, dir, noTests, k) /\ Ball(start, dir, noTests, k) \subseteq Id
  BY BallsGrow
<1> QED
  BY <1>1, <1>2

\* A symbol is at one distance.
LEMMA DistanceIsOne ==
  ASSUME NEW start \in Id, NEW dir, NEW noTests, NEW i, NEW d \in Nat, NEW e \in Nat,
         Shortest(start, dir, noTests, i, d), Shortest(start, dir, noTests, i, e)
  PROVE  d = e
<1> DEFINE B(k) == Ball(start, dir, noTests, k)
<1> HIDE DEF B
<1>1. \A j, k \in Nat : j <= k => B(j) \subseteq B(k)
  BY BallsGrow DEF B
<1>2. i \in B(d) /\ i \in B(e) /\ (d = 0 \/ i \notin B(d - 1)) /\ (e = 0 \/ i \notin B(e - 1))
  BY DEF Shortest, B
<1>3. ~(d < e)
  <2> SUFFICES ASSUME d < e PROVE FALSE
    OBVIOUS
  <2>1. e - 1 \in Nat /\ d <= e - 1 /\ e # 0
    OBVIOUS
  <2> QED
    BY <1>1, <1>2, <2>1
<1>4. ~(e < d)
  <2> SUFFICES ASSUME e < d PROVE FALSE
    OBVIOUS
  <2>1. d - 1 \in Nat /\ e <= d - 1 /\ d # 0
    OBVIOUS
  <2> QED
    BY <1>1, <1>2, <2>1
<1> QED
  BY <1>3, <1>4

\* What a ball holds is at some distance, which is the first ball that holds it.
LEMMA BallHasDistance ==
  ASSUME NEW start \in Id, NEW dir, NEW noTests, NEW d \in Nat, NEW i \in Ball(start, dir, noTests, d)
  PROVE  \E e \in 0 .. d : Shortest(start, dir, noTests, i, e)
<1> DEFINE S == {k \in Nat : i \in Ball(start, dir, noTests, k)}
<1>0. \A k \in Nat : k # 0 => k - 1 \in Nat /\ ~(k <= k - 1)
  OBVIOUS
<1>1. PICK e \in S : \A k \in S : e <= k
  BY LeastNumber
<1>2. e \in 0 .. d
  BY <1>1
<1>3. e # 0 => i \notin Ball(start, dir, noTests, e - 1)
  <2> SUFFICES ASSUME e # 0 PROVE e - 1 \notin S
    BY <1>0
  <2>1. ~(e <= e - 1)
    BY <1>0
  <2> QED
    BY <1>1, <2>1
<1> QED
  BY <1>1, <1>2, <1>3 DEF Shortest

\* The symbol itself is at distance 0, and nothing else is.
LEMMA StartIsNearest ==
  ASSUME NEW start \in Id, NEW dir, NEW noTests, NEW i, NEW d \in Nat, Shortest(start, dir, noTests, i, d)
  PROVE  i = start <=> d = 0
<1>1. Ball(start, dir, noTests, 0) = {start} /\ \A k \in Nat : start \in Ball(start, dir, noTests, k)
  BY BallUnfolds, BallsGrow
<1>2. ASSUME d # 0 PROVE i # start
  <2>1. d - 1 \in Nat
    BY <1>2
  <2> QED
    BY <1>1, <1>2, <2>1 DEF Shortest
<1> QED
  BY <1>1, <1>2 DEF Shortest

\* F is what lies exactly d steps away.
Rim(F, start, dir, noTests, d) == F = {j \in Id : Shortest(start, dir, noTests, j, d)}

RimGrows(F, start, dir, noTests, d) ==
  {i \in Next1(F, dir) \ Ball(start, dir, noTests, d) : noTests => ~ sym[i].test}
    = {i \in Id : Shortest(start, dir, noTests, i, d + 1)}

\* What the next ball adds is adjacent to the rim of this one.
LEMMA RimIsEnough ==
  ASSUME NEW start \in Id, NEW dir, NEW noTests, NEW d \in Nat, NEW F, Rim(F, start, dir, noTests, d)
  PROVE  RimGrows(F, start, dir, noTests, d)
<1> DEFINE B(k) == Ball(start, dir, noTests, k)
<1> HIDE DEF B
<1>1. \A k \in Nat : B(k + 1) = Nearer(B(k), dir, noTests) /\ B(k) \subseteq Id
  BY BallAndNext DEF B
<1>2. \A i : Shortest(start, dir, noTests, i, d + 1) <=> i \in B(d + 1) /\ i \notin B(d)
  <2>1. d + 1 # 0 /\ (d + 1) - 1 = d
    OBVIOUS
  <2> QED
    BY <2>1 DEF Shortest, B
<1>3. F \subseteq B(d)
  BY DEF Rim, Shortest, B
<1>4. Next1(F, dir) \subseteq Next1(B(d), dir)
  BY <1>3 DEF Next1
<1>5. ASSUME NEW i \in Id, i \in B(d + 1), i \notin B(d)
      PROVE  i \in Next1(F, dir) /\ (noTests => ~ sym[i].test)
  <2>1. i \in Next1(B(d), dir) /\ (noTests => ~ sym[i].test)
    BY <1>1, <1>5 DEF Nearer
  <2>2. ASSUME NEW j \in B(d), j \notin F PROVE d # 0 /\ j \in B(d - 1)
    BY <1>1, <2>2 DEF Rim, Shortest, B
  <2>3. ASSUME NEW j \in B(d), j \notin F, i \in Next1({j}, dir) PROVE FALSE
    <3>1. d - 1 \in Nat /\ (d - 1) + 1 = d /\ j \in B(d - 1)
      BY <2>2, <2>3
    <3>2. i \in Next1(B(d - 1), dir)
      BY <2>3, <3>1 DEF Next1
    <3>3. B(d) = Nearer(B(d - 1), dir, noTests)
      BY <1>1, <3>1
    <3> QED
      BY <1>5, <2>1, <3>2, <3>3 DEF Nearer
  <2>4. PICK j \in B(d) : i \in Next1({j}, dir)
    BY <2>1 DEF Next1
  <2>5. j \in F
    BY <2>3, <2>4
  <2>6. i \in Next1(F, dir)
    BY <2>4, <2>5 DEF Next1
  <2> QED
    BY <2>1, <2>6
<1>6. ASSUME NEW i \in Next1(F, dir) \ B(d), noTests => ~ sym[i].test
      PROVE  i \in Id /\ i \in B(d + 1) /\ i \notin B(d)
  BY <1>1, <1>4, <1>6, Adjacent DEF Nearer
<1>7. B(d) = Ball(start, dir, noTests, d)
  BY DEF B
<1> QED
  BY <1>2, <1>5, <1>6, <1>7, Adjacent DEF RimGrows

\* A ball that adds nothing is the last to grow.
LEMMA NoRimNoGrowth ==
  ASSUME NEW start \in Id, NEW dir, NEW noTests, NEW d \in Nat,
         {j \in Id : Shortest(start, dir, noTests, j, d)} = {}
  PROVE  /\ Ball(start, dir, noTests, d + 1) = Ball(start, dir, noTests, d)
         /\ {j \in Id : Shortest(start, dir, noTests, j, d + 1)} = {}
<1> DEFINE B(k) == Ball(start, dir, noTests, k)
<1> HIDE DEF B
<1>1. \A k \in Nat : B(k + 1) = Nearer(B(k), dir, noTests) /\ B(k) \subseteq Id /\ start \in B(k)
  BY BallAndNext DEF B
<1>2. \A j \in Id : j \in B(d) => d # 0 /\ j \in B(d - 1)
  BY DEF Shortest, B
<1>3. d # 0
  BY <1>1, <1>2
<1>4. d - 1 \in Nat /\ (d - 1) + 1 = d
  BY <1>3
<1>5. B(d - 1) \subseteq B(d)
  BY <1>1, <1>4 DEF Nearer
<1>6. B(d) = B(d - 1)
  BY <1>1, <1>2, <1>5
<1>7. B(d + 1) = B(d)
  BY <1>1, <1>4, <1>6
<1>8. \A j : Shortest(start, dir, noTests, j, d + 1) => j \in B(d + 1) /\ j \notin B(d)
  <2>1. d + 1 # 0 /\ (d + 1) - 1 = d
    OBVIOUS
  <2> QED
    BY <2>1 DEF Shortest, B
<1> QED
  BY <1>7, <1>8 DEF B

-----------------------------------------------------------------------------
(* Rows: the order they come in, and the cap.                                *)

LEMMA LeastOfTwo ==
  ASSUME NEW a \in Int, NEW b \in Int
  PROVE  Min({a, b}) = IF a <= b THEN a ELSE b
<1>1. Min({a, b}) \in {a, b} /\ \A x \in {a, b} : Min({a, b}) <= x
  <2>1. \E y \in {a, b} : \A x \in {a, b} : y <= x
    OBVIOUS
  <2> QED
    BY <2>1 DEF Min
<1> QED
  BY <1>1

LEMMA GreatestOfTwo ==
  ASSUME NEW a \in Int, NEW b \in Int
  PROVE  Max({a, b}) = IF a <= b THEN b ELSE a
<1>1. Max({a, b}) \in {a, b} /\ \A x \in {a, b} : x <= Max({a, b})
  <2>1. \E y \in {a, b} : \A x \in {a, b} : y >= x
    OBVIOUS
  <2> QED
    BY <2>1 DEF Max
<1> QED
  BY <1>1

\* What a cap leaves of a list.
Leaves(fit, X, n, seq, cap) ==
  /\ n <= cap => fit = seq
  /\ cap < n => fit # seq
  /\ Len(fit) = (IF n <= cap THEN n ELSE cap) /\ fit \in Seq(X)
  /\ DOMAIN fit = 1 .. Len(fit) /\ \A k \in 1 .. Len(fit) : k \in 1 .. n /\ fit[k] = seq[k]

LEMMA CapFacts ==
  ASSUME NEW X, NEW n \in Nat, NEW seq \in [1 .. n -> X], NEW cap \in Nat, NEW fit, fit = Capped(seq, cap)
  PROVE  Leaves(fit, X, n, seq, cap)
<1>1. seq \in Seq(X) /\ Len(seq) = n
  OBVIOUS
<1>2. PICK m \in Nat : m = (IF n <= cap THEN n ELSE cap) /\ Min({cap, Len(seq)}) = m
  BY <1>1, LeastOfTwo
<1>3. fit = [k \in 1 .. m |-> seq[k]]
  BY <1>2 DEF Capped
<1>4. \A k \in 1 .. m : k \in 1 .. n
  BY <1>2
<1>5. fit \in Seq(X) /\ Len(fit) = m /\ DOMAIN fit = 1 .. m
  BY <1>3, <1>4
<1>6. n <= cap => fit = seq
  BY <1>2, <1>3
<1>7. cap < n => Len(fit) # Len(seq)
  BY <1>1, <1>2, <1>5
<1> QED
  BY <1>2, <1>3, <1>4, <1>5, <1>6, <1>7 DEF Leaves

\* Production code first: no test stands before what is none.
Rows(order, n, found) ==
  /\ n \in Nat /\ order \in [1 .. n -> found]
  /\ \A j, k \in 1 .. n : order[j] = order[k] => j = k
  /\ \A i \in found : \E k \in 1 .. n : order[k] = i
  /\ \A j, k \in 1 .. n : j < k /\ sym[order[j]].test => sym[order[k]].test

LEMMA RowsInOrder ==
  ASSUME graph \in Graphs, NEW start \in Id, NEW found \in SUBSET Id
  PROVE  Rows(Listing(found, LAMBDA i, j : Before(start, i, j)), Cardinality(found), found)
<1> DEFINE weight == [n \in Id |-> (IF sym[n].test THEN 2 ELSE 0) + (IF sym[n].pkg = sym[start].pkg THEN 0 ELSE 1)]
           Lt == {p \in Id \X Id : Before(start, p[1], p[2])}
           order == Listing(found, LAMBDA i, j : Before(start, i, j))
<1>1. IsFiniteSet(found) /\ Id \subseteq Nat
  BY GraphFacts, FS_Subset
<1>2. \A n \in Id : weight[n] \in Nat /\ (sym[n].test <=> weight[n] >= 2)
  OBVIOUS
<1>3. \A i, j \in Id : <<i, j>> \in Lt <=> weight[i] < weight[j] \/ (weight[i] = weight[j] /\ i < j)
  BY DEF Before
<1>4. \A x \in found : {y \in found : Before(start, y, x)} = Preceding(found, Lt, x)
  BY DEF Preceding
<1>5. order = Listed(found, Lt)
  <2>1. order = [k \in 1 .. Cardinality(found) |-> CHOOSE x \in found : Cardinality({y \in found : Before(start, y, x)}) = k - 1]
    BY DEF Listing
  <2>2. \A k : (CHOOSE x \in found : Cardinality({y \in found : Before(start, y, x)}) = k - 1)
               = CHOOSE x \in found : Cardinality(Preceding(found, Lt, x)) = k - 1
    BY <1>4
  <2> HIDE DEF Lt
  <2> QED
    BY <2>1, <2>2 DEF Listed
<1> HIDE DEF weight, Lt, order
<1>6. Strict(found, Lt)
  <2>1. \A x, y, z \in found : <<x, y>> \in Lt /\ <<y, z>> \in Lt => <<x, z>> \in Lt
    BY <1>1, <1>2, <1>3
  <2>2. \A x, y \in found : x = y \/ <<x, y>> \in Lt \/ <<y, x>> \in Lt
    <3> TAKE x \in found, y \in found
    <3>1. x \in Nat /\ y \in Nat /\ weight[x] \in Nat /\ weight[y] \in Nat /\ x \in Id /\ y \in Id
      BY <1>1, <1>2
    <3> QED
      BY <1>3, <3>1
  <2>3. \A x \in found : <<x, x>> \notin Lt
    BY <1>1, <1>2, <1>3
  <2> QED
    BY <2>1, <2>2, <2>3 DEF Strict
<1> DEFINE n == Cardinality(found)
<1> HIDE DEF n
<1>7. /\ n \in Nat /\ order \in [1 .. n -> found]
      /\ \A j, k \in 1 .. n : j < k => <<order[j], order[k]>> \in Lt
      /\ \A x \in found : \E k \in 1 .. n : order[k] = x
  <2>1. /\ Cardinality(found) \in Nat
        /\ Listed(found, Lt) \in [1 .. Cardinality(found) -> found]
        /\ \A j, k \in 1 .. Cardinality(found) :
             j < k => <<Listed(found, Lt)[j], Listed(found, Lt)[k]>> \in Lt
        /\ \A x \in found : \E k \in 1 .. Cardinality(found) : Listed(found, Lt)[k] = x
    BY <1>1, <1>6, ListedIsSorted
  <2> QED
    BY <2>1, <1>5, Zenon DEF n
<1>8. \A j, k \in 1 .. n : j < k => weight[order[j]] <= weight[order[k]] /\ order[j] # order[k]
  <2> SUFFICES ASSUME NEW j \in 1 .. n, NEW k \in 1 .. n, j < k
               PROVE  weight[order[j]] <= weight[order[k]] /\ order[j] # order[k]
    OBVIOUS
  <2>1. order[j] \in found /\ order[k] \in found /\ <<order[j], order[k]>> \in Lt
    BY <1>7
  <2>2. PICK x \in Id, y \in Id : x = order[j] /\ y = order[k] /\ <<x, y>> \in Lt
    BY <2>1
  <2>3. x \in Nat /\ y \in Nat /\ weight[x] \in Nat /\ weight[y] \in Nat
    BY <1>1, <1>2
  <2>4. weight[x] < weight[y] \/ (weight[x] = weight[y] /\ x < y)
    BY <1>3, <2>2
  <2> QED
    BY <2>2, <2>3, <2>4
<1>9. \A j, k \in 1 .. n : order[j] = order[k] => j = k
  BY <1>7, <1>8
<1>10. \A j, k \in 1 .. n : j < k /\ sym[order[j]].test => sym[order[k]].test
  <2> SUFFICES ASSUME NEW j \in 1 .. n, NEW k \in 1 .. n, j < k, sym[order[j]].test
               PROVE  sym[order[k]].test
    OBVIOUS
  <2>1. order[j] \in Id /\ order[k] \in Id
    BY <1>7
  <2>2. weight[order[j]] >= 2 /\ weight[order[j]] \in Nat /\ weight[order[k]] \in Nat
    BY <1>2, <2>1
  <2> QED
    BY <1>2, <1>8, <2>1, <2>2
<1> QED
  BY <1>7, <1>9, <1>10 DEF Rows, n, order

-----------------------------------------------------------------------------
(* Neighbours, level by level.                                               *)

Levels ==
  {st \in [rows : Seq([id : Id, depth : Nat]), seen : SUBSET Id, frontier : SUBSET Id, truncated : BOOLEAN] :
     Len(st.rows) <= MaxNeighbors}

Found(st, dir, noTests) == {i \in Next1(st.frontier, dir) \ st.seen : noTests => ~ sym[i].test}

\* What a level adds: m of the n symbols it found, in their order.
Adds(new, st, found, order, n, m, d) ==
  /\ Rows(order, n, found) /\ m = (IF n <= MaxNeighbors - Len(st.rows) THEN n ELSE MaxNeighbors - Len(st.rows))
  /\ new \in Levels
  /\ new.seen = st.seen \cup found /\ new.frontier = found /\ (new.truncated <=> m < n)
  /\ Len(new.rows) = Len(st.rows) + m
  /\ \A k \in 1 .. Len(st.rows) : new.rows[k] = st.rows[k]
  /\ \A k \in 1 .. m : new.rows[Len(st.rows) + k].id = order[k] /\ new.rows[Len(st.rows) + k].depth = d

LEMMA LimitsArePositive ==
  /\ MaxDepth \in Nat \ {0} /\ MaxPathDepth \in Nat \ {0} /\ MaxNeighbors \in Nat \ {0}
  /\ MaxMatches \in Nat \ {0} /\ MaxPkgSymbols \in Nat \ {0} /\ BlastCap \in Nat \ {0}
BY QueryAssumption

LEMMA LevelAdds ==
  ASSUME graph \in Graphs, NEW start \in Id, NEW dir, NEW noTests, NEW st \in Levels, NEW d \in Nat
  PROVE  \E order, n, m :
           Adds(NeighborLevel(st, start, dir, noTests, d), st, Found(st, dir, noTests), order, n, m, d)
<1> DEFINE found == Found(st, dir, noTests)
           order == Listing(found, LAMBDA i, j : Before(start, i, j))
           room == MaxNeighbors - Len(st.rows)
           fit == Capped(order, room)
           add == [k \in DOMAIN fit |-> [id |-> fit[k], depth |-> d]]
           n == Cardinality(found)
           new == NeighborLevel(st, start, dir, noTests, d)
<1>1. /\ st.rows \in Seq([id : Id, depth : Nat]) /\ Len(st.rows) \in Nat /\ Len(st.rows) <= MaxNeighbors
      /\ st.seen \subseteq Id /\ st.frontier \subseteq Id
  BY DEF Levels
<1>2. found \in SUBSET Id
  BY Adjacent DEF Found
<1>3. new = [rows |-> st.rows \o add, seen |-> st.seen \cup found, frontier |-> found, truncated |-> fit # order]
  BY DEF NeighborLevel, Found
<1>4. PICK m : m = (IF n <= room THEN n ELSE room)
  OBVIOUS
<1> HIDE DEF found
<1>5. Rows(order, n, found)
  BY <1>2, RowsInOrder
<1> HIDE DEF order, n, new, fit, add
<1>6. n \in Nat /\ order \in [1 .. n -> found]
  BY <1>5 DEF Rows
<1>7. room \in Nat
  BY <1>1, LimitsArePositive
<1> HIDE DEF room
<1>8. /\ Len(fit) = m /\ fit \in Seq(found) /\ DOMAIN fit = 1 .. m /\ m \in Nat
      /\ \A k \in 1 .. m : k \in 1 .. n /\ fit[k] = order[k]
      /\ (fit # order <=> m < n) /\ m <= room
  <2>1. Leaves(fit, found, n, order, room)
    BY <1>6, <1>7, CapFacts DEF fit
  <2> QED
    BY <1>4, <1>6, <1>7, <2>1 DEF Leaves
<1>9. \A k \in 1 .. m : fit[k] \in Id
  BY <1>2, <1>8
<1>10. add = [k \in 1 .. m |-> [id |-> fit[k], depth |-> d]]
  BY <1>8 DEF add
<1>11. add \in Seq([id : Id, depth : Nat]) /\ Len(add) = m
  BY <1>8, <1>9, <1>10
<1>12. \A k \in 1 .. m : add[k].id = order[k] /\ add[k].depth = d
  BY <1>8, <1>10
<1>13. /\ new.rows = st.rows \o add /\ new.rows \in Seq([id : Id, depth : Nat]) /\ Len(new.rows) = Len(st.rows) + m
       /\ \A k \in 1 .. Len(st.rows) : new.rows[k] = st.rows[k]
       /\ \A k \in 1 .. m : new.rows[Len(st.rows) + k] = add[k]
  <2>1. new.rows = st.rows \o add
    BY <1>3
  <2>2. st.rows \o add \in Seq([id : Id, depth : Nat]) /\ Len(st.rows \o add) = Len(st.rows) + m
    <3>1. \A E : \A p, q \in Seq(E) : p \o q \in Seq(E) /\ Len(p \o q) = Len(p) + Len(q)
      OBVIOUS
    <3> QED
      BY <1>1, <1>11, <3>1
  <2>3. \A k \in 1 .. Len(st.rows) : (st.rows \o add)[k] = st.rows[k]
    BY <1>1, <1>11
  <2>4. \A k \in 1 .. m : (st.rows \o add)[Len(st.rows) + k] = add[k]
    BY <1>1, <1>8, <1>11
  <2> QED
    BY <2>1, <2>2, <2>3, <2>4
<1>14. new.seen = st.seen \cup found /\ new.frontier = found /\ new.truncated = (fit # order)
  BY <1>3
<1>15. Len(new.rows) <= MaxNeighbors
  BY <1>1, <1>7, <1>8, <1>13, LimitsArePositive DEF room
<1>16. new \in Levels
  <2>1. DOMAIN new = {"rows", "seen", "frontier", "truncated"}
    BY <1>3
  <2>2. new \in [rows : Seq([id : Id, depth : Nat]), seen : SUBSET Id, frontier : SUBSET Id, truncated : BOOLEAN]
    BY <1>1, <1>2, <1>3, <1>13
  <2> QED
    BY <1>15, <2>2 DEF Levels
<1>17. \A k \in 1 .. m : /\ new.rows[Len(st.rows) + k].id = order[k]
                         /\ new.rows[Len(st.rows) + k].depth = d
  BY <1>12, <1>13
<1>18. Adds(new, st, found, order, n, m, d)
  <2>1. /\ Rows(order, n, found)
        /\ m = (IF n <= MaxNeighbors - Len(st.rows) THEN n ELSE MaxNeighbors - Len(st.rows))
        /\ new.seen = st.seen \cup found /\ new.frontier = found /\ (new.truncated <=> m < n)
    BY <1>4, <1>5, <1>8, <1>12, <1>14 DEF room
  <2> QED
    BY <1>13, <1>16, <1>17, <2>1 DEF Adds
<1> QED
  BY <1>18 DEF found, new

LEMMA LevelsUnfold ==
  ASSUME graph \in Graphs, NEW start \in Id, NEW dir, NEW noTests
  PROVE  /\ BfsNeighbors(start, dir, 0, noTests) = NoLevel(start)
         /\ \A d \in Nat : /\ BfsNeighbors(start, dir, d, noTests) \in Levels
                           /\ BfsNeighbors(start, dir, d + 1, noTests)
                                = NextLevel(BfsNeighbors(start, dir, d, noTests), start, dir, noTests, d + 1)
<1> DEFINE step == [p \in Nat \X Levels |-> NextLevel(p[2], start, dir, noTests, p[1])]
           F(h) == [d \in Nat |-> IF d = 0 THEN NoLevel(start) ELSE NextLevel(h[d - 1], start, dir, noTests, d)]
           b == CHOOSE h : h = F(h)
<1>1. NoLevel(start) \in Levels
  BY LimitsArePositive DEF NoLevel, Levels
<1>2. \A st \in Levels, d \in Nat : NextLevel(st, start, dir, noTests, d) \in Levels
  <2> TAKE st \in Levels, d \in Nat
  <2>1. NeighborLevel(st, start, dir, noTests, d) \in Levels
    BY LevelAdds DEF Adds
  <2> QED
    BY <2>1 DEF NextLevel
<1>3. step \in [Nat \X Levels -> Levels]
  BY <1>2
<1>4. PICK h \in [Nat -> Levels] : Recurs(h, NoLevel(start), step)
  <2> HIDE DEF step
  <2> QED
    BY <1>1, <1>3, RecursionHolds
<1>5. ASSUME NEW d \in Nat, d # 0
      PROVE  step[<<d, h[d - 1]>>] = NextLevel(h[d - 1], start, dir, noTests, d)
  <2>1. d - 1 \in Nat
    BY <1>5
  <2>2. h[d - 1] \in Levels
    BY <2>1
  <2> QED
    BY <2>2
<1>6. h = F(h)
  BY <1>4, <1>5 DEF Recurs
<1>7. b = F(b)
  <2> HIDE DEF F
  <2> QED
    BY <1>6
<1>8. \A d : BfsNeighbors(start, dir, d, noTests) = b[d]
  BY DEF BfsNeighbors
<1>9. b[0] = NoLevel(start) /\ \A d \in Nat : b[d + 1] = NextLevel(b[d], start, dir, noTests, d + 1)
  <2> HIDE DEF b
  <2>1. b[0] = NoLevel(start)
    BY <1>7
  <2>2. ASSUME NEW d \in Nat PROVE b[d + 1] = NextLevel(b[d], start, dir, noTests, d + 1)
    <3>1. d + 1 \in Nat /\ d + 1 # 0 /\ (d + 1) - 1 = d
      OBVIOUS
    <3> QED
      BY <1>7, <3>1
  <2> QED
    BY <2>1, <2>2
<1> HIDE DEF b
<1>10. ASSUME NEW d \in Nat PROVE b[d] \in Levels
  <2> DEFINE Bad == {k \in Nat : b[k] \notin Levels}
  <2> SUFFICES ASSUME Bad # {} PROVE FALSE
    OBVIOUS
  <2>1. PICK k \in Bad : \A j \in Bad : k <= j
    BY LeastNumber
  <2>2. k # 0
    BY <1>1, <1>9, <2>1
  <2>3. k - 1 \in Nat /\ (k - 1) + 1 = k /\ ~(k <= k - 1)
    BY <2>2
  <2>4. b[k - 1] \in Levels
    BY <2>1, <2>3
  <2>5. b[k] = NextLevel(b[k - 1], start, dir, noTests, k)
    BY <1>9, <2>3
  <2> QED
    BY <1>2, <2>1, <2>4, <2>5
<1> QED
  BY <1>8, <1>9, <1>10

\* The rows so far: their symbols, each at its distance, each once, no test before
\* what is none; and either all of the ball, or as many as fit and not all of it.
ShownRows(st) == {st.rows[k].id : k \in 1 .. Len(st.rows)}
RowsAreNear(st, start, dir, noTests, d) ==
  \A k \in 1 .. Len(st.rows) :
    st.rows[k].depth \in 1 .. d /\ Shortest(start, dir, noTests, st.rows[k].id, st.rows[k].depth)
RowsAreOnce(st) == \A j, k \in 1 .. Len(st.rows) : st.rows[j].id = st.rows[k].id => j = k
TestsAreLast(st, start, dir, noTests) ==
  \A k \in 1 .. Len(st.rows), i \in Id :
    sym[st.rows[k].id].test /\ i \notin ShownRows(st) /\ Shortest(start, dir, noTests, i, st.rows[k].depth) => sym[i].test
CutOff(st, start, dir, noTests, d) ==
  Len(st.rows) = MaxNeighbors /\ \E i \in Ball(start, dir, noTests, d) : i # start /\ i \notin ShownRows(st)
Complete(st, start, dir, noTests, d) ==
  /\ st.seen = Ball(start, dir, noTests, d) /\ Rim(st.frontier, start, dir, noTests, d)
  /\ \A i \in Ball(start, dir, noTests, d) : i # start => i \in ShownRows(st)
LevelIs(st, start, dir, noTests, d) ==
  /\ st \in Levels
  /\ RowsAreNear(st, start, dir, noTests, d) /\ RowsAreOnce(st) /\ TestsAreLast(st, start, dir, noTests)
  /\ IF st.truncated THEN CutOff(st, start, dir, noTests, d) ELSE Complete(st, start, dir, noTests, d)

LEMMA NoLevelIs ==
  ASSUME graph \in Graphs, NEW start \in Id, NEW dir, NEW noTests
  PROVE  LevelIs(NoLevel(start), start, dir, noTests, 0)
<1> DEFINE st == NoLevel(start)
<1>1. st \in Levels
  BY LevelsUnfold
<1>2. st.rows = <<>> /\ Len(st.rows) = 0 /\ st.seen = {start} /\ st.frontier = {start} /\ st.truncated = FALSE
  BY DEF NoLevel
<1> HIDE DEF st
<1>3. Ball(start, dir, noTests, 0) = {start}
  BY BallUnfolds
<1>4. Rim(st.frontier, start, dir, noTests, 0)
  BY <1>2, <1>3 DEF Rim, Shortest
<1>5. Complete(st, start, dir, noTests, 0)
  BY <1>2, <1>3, <1>4 DEF Complete
<1>6. 1 .. 0 = {}
  OBVIOUS
<1>7. RowsAreNear(st, start, dir, noTests, 0) /\ RowsAreOnce(st) /\ TestsAreLast(st, start, dir, noTests)
  BY <1>2, <1>6 DEF RowsAreNear, RowsAreOnce, TestsAreLast
<1> QED
  BY <1>1, <1>2, <1>5, <1>7 DEF LevelIs, st

\* The rows of a level: the old ones, and behind them those it added.
RowsAdded(new, st, order, m, d) ==
  \A k \in 1 .. Len(new.rows) :
    \/ k \in 1 .. Len(st.rows) /\ new.rows[k] = st.rows[k]
    \/ \E j \in 1 .. m : k = Len(st.rows) + j /\ new.rows[k].id = order[j] /\ new.rows[k].depth = d

\* A level that found the next ball's rim: what it shows.
LEMMA AddsShown ==
  ASSUME NEW st \in Levels, NEW new, NEW found, NEW order, NEW n, NEW m, NEW d,
         Adds(new, st, found, order, n, m, d)
  PROVE  /\ m \in Nat /\ n \in Nat /\ m <= n /\ Len(st.rows) \in Nat /\ Len(new.rows) = Len(st.rows) + m
         /\ RowsAdded(new, st, order, m, d)
         /\ ShownRows(new) = ShownRows(st) \cup {order[j] : j \in 1 .. m}
<1>1. /\ st.rows \in Seq([id : Id, depth : Nat]) /\ Len(st.rows) \in Nat /\ Len(st.rows) <= MaxNeighbors
  BY DEF Levels
<1>2. n \in Nat
  BY DEF Adds, Rows
<1>3. m \in Nat /\ m <= n
  BY <1>1, <1>2, LimitsArePositive DEF Adds
<1>4. /\ Len(new.rows) = Len(st.rows) + m
      /\ \A k \in 1 .. Len(st.rows) : new.rows[k] = st.rows[k]
      /\ \A k \in 1 .. m : new.rows[Len(st.rows) + k].id = order[k] /\ new.rows[Len(st.rows) + k].depth = d
  BY DEF Adds
<1>5. PICK a \in Nat : a = Len(st.rows)
  BY <1>1
<1>6. ASSUME NEW k \in 1 .. Len(new.rows)
      PROVE  \/ k \in 1 .. a /\ new.rows[k] = st.rows[k]
             \/ \E j \in 1 .. m : k = a + j /\ new.rows[k].id = order[j] /\ new.rows[k].depth = d
  <2>1. CASE k <= a
    BY <1>4, <1>5, <2>1
  <2>2. CASE a < k
    <3>1. k - a \in 1 .. m /\ k = a + (k - a)
      BY <1>3, <1>4, <1>5, <2>2
    <3> QED
      BY <1>4, <1>5, <3>1
  <2> QED
    BY <1>4, <1>5, <2>1, <2>2
<1>7. \A k \in 1 .. a : k \in 1 .. Len(new.rows)
  BY <1>3, <1>4, <1>5
<1>8. \A j \in 1 .. m : a + j \in 1 .. Len(new.rows)
  BY <1>3, <1>4, <1>5
<1>9. ShownRows(new) \subseteq ShownRows(st) \cup {order[j] : j \in 1 .. m}
  BY <1>5, <1>6 DEF ShownRows
<1>10. ShownRows(st) \subseteq ShownRows(new)
  BY <1>4, <1>5, <1>7 DEF ShownRows
<1>11. {order[j] : j \in 1 .. m} \subseteq ShownRows(new)
  <2> SUFFICES ASSUME NEW j \in 1 .. m PROVE order[j] \in ShownRows(new)
    OBVIOUS
  <2>2. new.rows[a + j].id = order[j]
    BY <1>4, <1>5
  <2> QED
    BY <1>8, <2>2 DEF ShownRows
<1>12. RowsAdded(new, st, order, m, d)
  BY <1>5, <1>6 DEF RowsAdded
<1> QED
  BY <1>1, <1>3, <1>2, <1>4, <1>9, <1>10, <1>11, <1>12

LEMMA LevelStep ==
  ASSUME graph \in Graphs, NEW start \in Id, NEW dir, NEW noTests, NEW d \in Nat,
         NEW st, LevelIs(st, start, dir, noTests, d), ~ st.truncated,
         NEW new, new = NeighborLevel(st, start, dir, noTests, d + 1)
  PROVE  LevelIs(new, start, dir, noTests, d + 1)
<1> DEFINE B(k) == Ball(start, dir, noTests, k)
           Sh(i, k) == Shortest(start, dir, noTests, i, k)
           found == {i \in Id : Shortest(start, dir, noTests, i, d + 1)}
<1>1. st \in Levels /\ Complete(st, start, dir, noTests, d)
  BY DEF LevelIs
<1>2. Found(st, dir, noTests) = found
  BY <1>1, RimIsEnough DEF Found, Complete, RimGrows
<1> HIDE DEF found
<1>3. PICK order, n, m : Adds(new, st, found, order, n, m, d + 1)
  <2>1. d + 1 \in Nat
    OBVIOUS
  <2> QED
    BY <1>1, <1>2, <2>1, LevelAdds
<1> DEFINE a == Len(st.rows)
<1>3a. /\ m \in Nat /\ n \in Nat /\ m <= n /\ a \in Nat /\ Len(new.rows) = a + m
       /\ RowsAdded(new, st, order, m, d + 1)
  BY <1>1, <1>3, AddsShown
<1>4. /\ m \in Nat /\ n \in Nat /\ m <= n /\ a \in Nat /\ Len(new.rows) = a + m
      /\ \A k \in 1 .. Len(new.rows) :
           \/ k \in 1 .. a /\ new.rows[k] = st.rows[k]
           \/ \E j \in 1 .. m : k = a + j /\ new.rows[k].id = order[j] /\ new.rows[k].depth = d + 1
  BY <1>3a DEF RowsAdded
<1>5. ShownRows(new) = ShownRows(st) \cup {order[j] : j \in 1 .. m}
  BY <1>1, <1>3, AddsShown
<1>6. /\ \A j \in 1 .. n : order[j] \in found
      /\ \A j, k \in 1 .. n : order[j] = order[k] => j = k
      /\ \A i \in found : \E k \in 1 .. n : order[k] = i
      /\ \A j, k \in 1 .. n : j < k /\ sym[order[j]].test => sym[order[k]].test
  BY <1>3 DEF Adds, Rows
<1>7. \A j \in 1 .. m : j \in 1 .. n
  BY <1>4
<1>8. /\ new \in Levels /\ new.seen = st.seen \cup found /\ new.frontier = found /\ (new.truncated <=> m < n)
      /\ m = IF n <= MaxNeighbors - a THEN n ELSE MaxNeighbors - a
  BY <1>3 DEF Adds
<1> HIDE DEF a
<1>9. /\ \A i : Sh(i, d + 1) <=> i \in B(d + 1) /\ i \notin B(d)
      /\ B(d) \subseteq B(d + 1) /\ B(d + 1) \subseteq Id /\ \A k \in Nat : start \in B(k)
  <2>1. d + 1 # 0 /\ (d + 1) - 1 = d /\ d + 1 \in Nat /\ d <= d + 1
    OBVIOUS
  <2>2. B(d) \subseteq B(d + 1) /\ B(d + 1) \subseteq Id /\ \A k \in Nat : start \in B(k)
    BY <2>1, BallsGrow
  <2>3. \A i : Sh(i, d + 1) <=> i \in B(d + 1) /\ i \notin B(d)
    BY <2>1 DEF Shortest
  <2> QED
    BY <2>2, <2>3
<1>10. \A i : i \in found <=> i \in B(d + 1) /\ i \notin B(d)
  BY <1>9 DEF found
<1>11. \A k \in 1 .. a : st.rows[k].depth \in 1 .. d /\ Sh(st.rows[k].id, st.rows[k].depth)
  BY DEF LevelIs, RowsAreNear, a
<1>12. \A k \in 1 .. a : st.rows[k].id \in B(d)
  <2> TAKE k \in 1 .. a
  <2>1. st.rows[k].depth \in Nat /\ st.rows[k].depth <= d /\ st.rows[k].id \in B(st.rows[k].depth)
    BY <1>11 DEF Shortest
  <2> QED
    BY <2>1, BallsGrow
<1>13. RowsAreNear(new, start, dir, noTests, d + 1)
  <2> SUFFICES ASSUME NEW k \in 1 .. Len(new.rows)
               PROVE  new.rows[k].depth \in 1 .. d + 1 /\ Sh(new.rows[k].id, new.rows[k].depth)
    BY DEF RowsAreNear
  <2>1. CASE k \in 1 .. a /\ new.rows[k] = st.rows[k]
    <3>1. st.rows[k].depth \in 1 .. d /\ Sh(st.rows[k].id, st.rows[k].depth)
      BY <1>11, <2>1
    <3>2. 1 .. d \subseteq 1 .. d + 1
      OBVIOUS
    <3> QED
      BY <2>1, <3>1, <3>2
  <2>2. CASE \E j \in 1 .. m : k = a + j /\ new.rows[k].id = order[j] /\ new.rows[k].depth = d + 1
    <3>1. PICK j \in 1 .. m : new.rows[k].id = order[j] /\ new.rows[k].depth = d + 1
      BY <2>2
    <3>2. Sh(order[j], d + 1)
      BY <1>6, <1>7 DEF found
    <3>3. d + 1 \in 1 .. d + 1
      OBVIOUS
    <3> QED
      BY <3>1, <3>2, <3>3
  <2> QED
    BY <1>4, <2>1, <2>2
<1>14. RowsAreOnce(new)
  <2> SUFFICES ASSUME NEW j \in 1 .. Len(new.rows), NEW k \in 1 .. Len(new.rows), new.rows[j].id = new.rows[k].id
               PROVE  j = k
    BY DEF RowsAreOnce
  <2> DEFINE Old(x) == x \in 1 .. a /\ new.rows[x] = st.rows[x]
             New(x) == \E y \in 1 .. m : x = a + y /\ new.rows[x].id = order[y] /\ new.rows[x].depth = d + 1
  <2>1. (Old(j) \/ New(j)) /\ (Old(k) \/ New(k))
    BY <1>4
  <2>2. CASE Old(j) /\ Old(k)
    BY <2>2 DEF LevelIs, RowsAreOnce, a
  <2>3. CASE New(j) /\ New(k)
    <3>1. PICK x \in 1 .. m : j = a + x /\ new.rows[j].id = order[x]
      BY <2>3
    <3>2. PICK y \in 1 .. m : k = a + y /\ new.rows[k].id = order[y]
      BY <2>3
    <3>3. x = y
      BY <1>6, <1>7, <3>1, <3>2
    <3> QED
      BY <3>1, <3>2, <3>3
  <2>4. \A x : Old(x) => new.rows[x].id \in B(d)
    BY <1>12
  <2>5. \A x : New(x) => new.rows[x].id \notin B(d)
    BY <1>6, <1>7, <1>10
  <2> QED
    BY <2>1, <2>2, <2>3, <2>4, <2>5
<1>15. \A i : i \in B(d) /\ i # start => i \in ShownRows(st)
  BY <1>1 DEF Complete
<1>16. TestsAreLast(new, start, dir, noTests)
  <2> SUFFICES ASSUME NEW k \in 1 .. Len(new.rows), NEW i \in Id, sym[new.rows[k].id].test, i \notin ShownRows(new),
                      Sh(i, new.rows[k].depth)
               PROVE  sym[i].test
    BY DEF TestsAreLast
  <2>1. i \notin ShownRows(st)
    BY <1>5
  <2>2. CASE k \in 1 .. a /\ new.rows[k] = st.rows[k]
    <3>1. PICK e \in 1 .. d : e = new.rows[k].depth
      BY <1>11, <2>2
    <3>2. e \in Nat /\ e <= d /\ e # 0
      BY <3>1
    <3>3. i \in B(e) /\ B(e) \subseteq B(d)
      BY <3>1, <3>2, BallsGrow DEF Shortest
    <3>4. i # start
      BY <3>1, <3>2, StartIsNearest
    <3> QED
      BY <1>15, <2>1, <3>3, <3>4
  <2>3. CASE \E j \in 1 .. m : k = a + j /\ new.rows[k].id = order[j] /\ new.rows[k].depth = d + 1
    <3>1. PICK j \in 1 .. m : new.rows[k].id = order[j] /\ new.rows[k].depth = d + 1
      BY <2>3
    <3>2. i \in found
      BY <3>1, <1>9, <1>10
    <3>3. PICK x \in 1 .. n : order[x] = i
      BY <1>6, <3>2
    <3>4. ~(x \in 1 .. m)
      BY <1>5, <3>3
    <3>5. j < x /\ j \in 1 .. n
      BY <1>4, <3>4
    <3> QED
      BY <1>6, <3>1, <3>3, <3>5
  <2> QED
    BY <1>4, <2>2, <2>3
<1>17. ASSUME m < n PROVE CutOff(new, start, dir, noTests, d + 1)
  <2>1. Len(new.rows) = MaxNeighbors
    <3>1. m = MaxNeighbors - a
      BY <1>8, <1>17, <1>4
    <3> QED
      BY <1>4, <3>1, LimitsArePositive
  <2>2. m + 1 \in 1 .. n /\ ~(m + 1 \in 1 .. m)
    BY <1>4, <1>17
  <2>3. order[m + 1] \in found
    BY <1>6, <2>2
  <2>4. order[m + 1] \notin ShownRows(st)
    <3> SUFFICES ASSUME order[m + 1] \in ShownRows(st) PROVE FALSE
      OBVIOUS
    <3>1. PICK k \in 1 .. a : order[m + 1] = st.rows[k].id
      BY DEF ShownRows, a
    <3> QED
      BY <1>10, <1>12, <2>3, <3>1
  <2>5. order[m + 1] \notin ShownRows(new)
    BY <1>5, <1>6, <1>7, <2>2, <2>4
  <2>6. order[m + 1] \in B(d + 1) /\ order[m + 1] # start
    BY <1>9, <1>10, <2>3
  <2> QED
    BY <2>1, <2>5, <2>6 DEF CutOff
<1>18. ASSUME ~(m < n) PROVE Complete(new, start, dir, noTests, d + 1)
  <2>1. m = n
    BY <1>4, <1>18
  <2>2. st.seen = B(d)
    BY <1>1 DEF Complete
  <2>3. new.seen = B(d + 1)
    BY <1>8, <1>9, <1>10, <2>2
  <2>4. Rim(new.frontier, start, dir, noTests, d + 1)
    BY <1>8 DEF Rim, found
  <2>5. \A i \in found : i \in ShownRows(new)
    BY <1>5, <1>6, <2>1
  <2>6. \A i \in B(d + 1) : i # start => i \in ShownRows(new)
    BY <1>5, <1>10, <1>15, <2>5
  <2> QED
    BY <2>3, <2>4, <2>6 DEF Complete
<1> QED
  BY <1>8, <1>13, <1>14, <1>16, <1>17, <1>18 DEF LevelIs

LEMMA LevelStays ==
  ASSUME graph \in Graphs, NEW start \in Id, NEW dir, NEW noTests, NEW d \in Nat,
         NEW st, LevelIs(st, start, dir, noTests, d), st.truncated \/ st.frontier = {}
  PROVE  LevelIs(st, start, dir, noTests, d + 1)
<1>0. 1 .. d \subseteq 1 .. d + 1 /\ d + 1 \in Nat /\ d <= d + 1
  OBVIOUS
<1>1. Ball(start, dir, noTests, d) \subseteq Ball(start, dir, noTests, d + 1)
  BY <1>0, BallsGrow
<1>2. RowsAreNear(st, start, dir, noTests, d + 1)
  BY <1>0 DEF LevelIs, RowsAreNear
<1>3. CASE st.truncated
  BY <1>1, <1>2, <1>3 DEF LevelIs, CutOff
<1>4. CASE ~ st.truncated
  <2>1. st.frontier = {} /\ Complete(st, start, dir, noTests, d)
    BY <1>4 DEF LevelIs
  <2>2. {j \in Id : Shortest(start, dir, noTests, j, d)} = {}
    BY <2>1 DEF Complete, Rim
  <2>3. Ball(start, dir, noTests, d + 1) = Ball(start, dir, noTests, d)
    BY <2>2, NoRimNoGrowth
  <2>4. {j \in Id : Shortest(start, dir, noTests, j, d + 1)} = {}
    BY <2>2, NoRimNoGrowth
  <2>5. Rim(st.frontier, start, dir, noTests, d + 1)
    BY <2>1, <2>4 DEF Rim
  <2>6. Complete(st, start, dir, noTests, d + 1)
    BY <2>1, <2>3, <2>5 DEF Complete
  <2> QED
    BY <1>2, <1>4, <2>6 DEF LevelIs
<1> QED
  BY <1>3, <1>4

LEMMA EveryLevelIs ==
  ASSUME graph \in Graphs, NEW start \in Id, NEW dir, NEW noTests, NEW d \in Nat
  PROVE  LevelIs(BfsNeighbors(start, dir, d, noTests), start, dir, noTests, d)
<1> DEFINE L(k) == BfsNeighbors(start, dir, k, noTests)
           Bad == {k \in Nat : ~ LevelIs(L(k), start, dir, noTests, k)}
<1> SUFFICES ASSUME Bad # {} PROVE FALSE
  OBVIOUS
<1>1. PICK k \in Bad : \A j \in Bad : k <= j
  BY LeastNumber
<1>2. k # 0
  BY <1>1, LevelsUnfold, NoLevelIs
<1>3. PICK j \in Nat : k = j + 1 /\ ~(k <= j)
  <2>1. k - 1 \in Nat /\ k = (k - 1) + 1 /\ ~(k <= k - 1)
    BY <1>2
  <2> QED
    BY <2>1
<1>4. LevelIs(L(j), start, dir, noTests, j)
  BY <1>1, <1>3
<1>5. L(k) = NextLevel(L(j), start, dir, noTests, j + 1)
  BY <1>3, LevelsUnfold
<1>6. CASE L(j).truncated \/ L(j).frontier = {}
  <2>1. L(k) = L(j)
    BY <1>5, <1>6 DEF NextLevel
  <2> QED
    BY <1>1, <1>3, <1>4, <1>6, <2>1, LevelStays
<1>7. CASE ~(L(j).truncated \/ L(j).frontier = {})
  <2>1. L(k) = NeighborLevel(L(j), start, dir, noTests, j + 1)
    BY <1>5, <1>7 DEF NextLevel
  <2>2. LevelIs(L(k), start, dir, noTests, j + 1)
    BY <1>4, <1>7, <2>1, LevelStep
  <2> QED
    BY <1>1, <1>3, <2>2
<1> QED
  BY <1>6, <1>7

\* The number of a list's symbols, when none comes twice.
LEMMA OnceEach ==
  ASSUME NEW rows, NEW n \in Nat, DOMAIN rows = 1 .. n,
         \A j, k \in DOMAIN rows : rows[j].id = rows[k].id => j = k,
         NEW S, S = {rows[k].id : k \in DOMAIN rows}
  PROVE  IsFiniteSet(S) /\ Cardinality(S) = n
<1> DEFINE g == [k \in 1 .. n |-> rows[k].id]
<1>1. g \in [1 .. n -> S] /\ \A k \in 1 .. n : g[k] = rows[k].id
  OBVIOUS
<1>2. \A x \in S : \E k \in 1 .. n : g[k] = x
  OBVIOUS
<1>3. \A j, k \in 1 .. n : g[j] = g[k] => j = k
  OBVIOUS
<1> HIDE DEF g
<1>4. g \in Bijection(1 .. n, S)
  BY <1>1, <1>2, <1>3, Fun_IsBij
<1>5. ExistsBijection(1 .. n, S)
  BY <1>4 DEF ExistsBijection
<1>6. IsFiniteSet(S) /\ Cardinality(S) = n
  <2>1. IsFiniteSet(1 .. n) /\ Cardinality(1 .. n) = n
    BY UpTo
  <2> QED
    BY <1>4, <1>5, <2>1, FS_Bijection, FS_Surjection DEF Bijection
<1> QED
  BY <1>6

LEMMA NeighborsHold ==
  ASSUME graph \in Graphs, NEW start \in Id, NEW dir, NEW noTests, NEW d \in Nat, NEW list,
         list = BfsNeighbors(start, dir, d, noTests)
  PROVE  /\ NeighborsAreTrue(list, start, dir, d, noTests)
         /\ list.truncated =>
              Cardinality(Ball(start, dir, noTests, d) \ {start}) > MaxNeighbors
<1> DEFINE B(k) == Ball(start, dir, noTests, k)
           shown == {list.rows[k].id : k \in DOMAIN list.rows}
           all == B(d) \ {start}
<1>1. LevelIs(list, start, dir, noTests, d)
  BY EveryLevelIs
<1>2. list \in Levels
  BY <1>1 DEF LevelIs
<1>3. list.rows \in Seq([id : Id, depth : Nat]) /\ Len(list.rows) \in Nat /\ DOMAIN list.rows = 1 .. Len(list.rows)
  BY <1>2 DEF Levels
<1>4. shown = ShownRows(list)
  BY <1>3 DEF ShownRows
<1> HIDE DEF shown
<1>5. /\ \A k \in DOMAIN list.rows : list.rows[k].depth \in 1 .. d /\ Shortest(start, dir, noTests, list.rows[k].id, list.rows[k].depth)
      /\ \A j, k \in DOMAIN list.rows : list.rows[j].id = list.rows[k].id => j = k
  BY <1>1, <1>3 DEF LevelIs, RowsAreNear, RowsAreOnce
<1>6. IsFiniteSet(shown) /\ Cardinality(shown) = Len(list.rows)
  <2>1. PICK n \in Nat : n = Len(list.rows)
    BY <1>3
  <2>2. PICK rows : rows = list.rows
    OBVIOUS
  <2>3. DOMAIN rows = 1 .. n /\ \A j, k \in DOMAIN rows : rows[j].id = rows[k].id => j = k
    BY <1>3, <1>5, <2>1, <2>2
  <2>4. shown = {rows[k].id : k \in DOMAIN rows}
    BY <2>2 DEF shown
  <2>5. IsFiniteSet(shown) /\ Cardinality(shown) = n
    BY <2>3, <2>4, OnceEach
  <2> QED
    BY <2>1, <2>5
<1>7. shown \subseteq all
  <2> SUFFICES ASSUME NEW x \in shown PROVE x \in all
    OBVIOUS
  <2>1. PICK k \in DOMAIN list.rows : x = list.rows[k].id
    BY DEF shown
  <2>2. PICK e \in 1 .. d : Shortest(start, dir, noTests, x, e)
    BY <1>5, <2>1
  <2>3. e \in Nat /\ e <= d /\ e # 0
    BY <2>2
  <2>4. x \in B(e) /\ B(e) \subseteq B(d)
    BY <2>2, <2>3, BallsGrow DEF Shortest
  <2>5. x # start
    BY <2>2, <2>3, StartIsNearest
  <2> QED
    BY <2>4, <2>5
<1>8. IF list.truncated THEN Len(list.rows) = MaxNeighbors /\ shown # all ELSE shown = all
  <2>1. CASE list.truncated
    <3>1. CutOff(list, start, dir, noTests, d)
      BY <1>1, <2>1 DEF LevelIs
    <3> QED
      BY <1>4, <2>1, <3>1 DEF CutOff
  <2>2. CASE ~ list.truncated
    <3>1. Complete(list, start, dir, noTests, d)
      BY <1>1, <2>2 DEF LevelIs
    <3> QED
      BY <1>4, <1>7, <2>2, <3>1 DEF Complete
  <2> QED
    BY <2>1, <2>2
<1>9. all \subseteq Id
  BY BallsGrow
<1>10. ASSUME NEW k \in DOMAIN list.rows, NEW i \in all \ shown,
              sym[list.rows[k].id].test, Shortest(start, dir, noTests, i, list.rows[k].depth)
       PROVE  sym[i].test
  BY <1>1, <1>3, <1>4, <1>9, <1>10 DEF LevelIs, TestsAreLast
<1>11. ASSUME list.truncated PROVE Cardinality(all) > MaxNeighbors
  <2>1. IsFiniteSet(all)
    BY <1>9, GraphFacts, FS_Subset
  <2>2. shown \subseteq all /\ shown # all /\ Cardinality(shown) = MaxNeighbors
    BY <1>6, <1>7, <1>8, <1>11
  <2> HIDE DEF all
  <2>3. Cardinality(all) \in Nat /\ Cardinality(shown) < Cardinality(all)
    BY <2>1, <2>2, FS_Subset, FS_CardinalityType
  <2> QED
    BY <2>2, <2>3, LimitsArePositive
<1>12. NeighborsAreTrue(list, start, dir, d, noTests)
  BY <1>5, <1>6, <1>7, <1>8, <1>10 DEF NeighborsAreTrue, shown
<1> QED
  BY <1>11, <1>12

-----------------------------------------------------------------------------
(* Totals, and the symbols that can reach one.                               *)

\* The callers that are no tests, counted as those that are left of all.
LEMMA DirectCount ==
  ASSUME graph \in Graphs, NEW id \in Id, NEW noTests \in BOOLEAN
  PROVE  /\ Cardinality({c \in Next1({id}, "up") : noTests => ~ sym[c].test})
              = CallerSplit(id).total - (IF noTests THEN CallerSplit(id).inTests ELSE 0)
         /\ CallerSplit(id).total \in Nat /\ CallerSplit(id).inTests \in Nat
<1> DEFINE callers == Next1({id}, "up")
           tests == {c \in callers : sym[c].test}
           direct == {c \in callers : noTests => ~ sym[c].test}
<1>1. IsFiniteSet(callers)
  BY Adjacent, GraphFacts, FS_Subset
<1>2. CallerSplit(id).total = Cardinality(callers) /\ CallerSplit(id).inTests = Cardinality(tests)
  BY DEF CallerSplit
<1>3. IF noTests THEN direct = callers \ tests ELSE direct = callers
  OBVIOUS
<1>4. tests \subseteq callers
  OBVIOUS
<1> HIDE DEF callers, tests, direct
<1>5. tests = callers \cap tests
  BY <1>4
<1>6. Cardinality(callers \ tests) = Cardinality(callers) - Cardinality(tests)
  BY <1>1, <1>5, FS_Difference
<1>7. Cardinality(callers) \in Nat /\ Cardinality(tests) \in Nat
  BY <1>1, <1>4, FS_Subset, FS_CardinalityType
<1>8. Cardinality(direct) = CallerSplit(id).total - (IF noTests THEN CallerSplit(id).inTests ELSE 0)
  <2>1. CASE noTests
    BY <1>2, <1>3, <1>6, <2>1
  <2>2. CASE ~ noTests
    BY <1>2, <1>3, <1>7, <2>2
  <2> QED
    BY <2>1, <2>2
<1> QED
  BY <1>2, <1>7, <1>8 DEF direct, callers

LEMMA CallersUnfold ==
  ASSUME NEW id
  PROVE  /\ CallersWithin(id, 0) = {}
         /\ \A k \in Nat : CallersWithin(id, k + 1) = MoreCallers(CallersWithin(id, k), id)
<1> DEFINE X == SUBSET Id
           step == [p \in Nat \X X |-> MoreCallers(p[2], id)]
           F(h) == [k \in Nat |-> IF k = 0 THEN {} ELSE MoreCallers(h[k - 1], id)]
           b == CHOOSE h : h = F(h)
<1>1. {} \in X /\ step \in [Nat \X X -> X]
  BY Adjacent DEF MoreCallers
<1>2. PICK h \in [Nat -> X] : Recurs(h, {}, step)
  <2> HIDE DEF X, step
  <2> QED
    BY <1>1, RecursionHolds
<1>3. ASSUME NEW k \in Nat, k # 0
      PROVE  step[<<k, h[k - 1]>>] = MoreCallers(h[k - 1], id)
  <2>1. k - 1 \in Nat
    BY <1>3
  <2>2. h[k - 1] \in X
    BY <2>1
  <2> QED
    BY <2>2
<1>4. h = F(h)
  BY <1>2, <1>3 DEF Recurs
<1>5. b = F(b)
  <2> HIDE DEF F
  <2> QED
    BY <1>4
<1>6. \A d : CallersWithin(id, d) = b[d]
  BY DEF CallersWithin
<1>7. b[0] = {} /\ \A d \in Nat : b[d + 1] = MoreCallers(b[d], id)
  <2> HIDE DEF b
  <2>1. b[0] = {}
    BY <1>5
  <2>2. ASSUME NEW d \in Nat PROVE b[d + 1] = MoreCallers(b[d], id)
    <3>1. d + 1 \in Nat /\ d + 1 # 0 /\ (d + 1) - 1 = d
      OBVIOUS
    <3> QED
      BY <1>5, <3>1
  <2> QED
    BY <2>1, <2>2
<1> HIDE DEF b
<1> QED
  BY <1>6, <1>7

\* A way out of a symbol begins with a call of its own.
LEMMA FirstCall ==
  ASSUME graph \in Graphs, NEW j \in Id, NEW k \in Nat, NEW x
  PROVE  x \in Ball(j, "down", FALSE, k + 1)
           <=> x = j \/ \E c \in Next1({j}, "down") : x \in Ball(c, "down", FALSE, k)
<1> DEFINE B(i, n) == Ball(i, "down", FALSE, n)
           Calls(i) == Next1({i}, "down")
           Good(n) == \A y : y \in B(j, n + 1) <=> y = j \/ \E c \in Calls(j) : y \in B(c, n)
           Bad == {n \in Nat : ~ Good(n)}
<1>1. \A i \in Id : Calls(i) \subseteq Id
  BY Adjacent
<1>2. \A i \in Id : B(i, 0) = {i}
  BY BallUnfolds
<1>3. \A i \in Id, n \in Nat : \A y : y \in B(i, n + 1) <=> y \in B(i, n) \/ \E z \in B(i, n) : y \in Calls(z)
  <2> TAKE i \in Id, n \in Nat
  <2> TAKE y
  <2>1. B(i, n + 1) = Nearer(B(i, n), "down", FALSE)
    BY BallNext
  <2>2. y \in Next1(B(i, n), "down") <=> \E z \in B(i, n) : y \in Calls(z)
    BY DEF Next1
  <2> QED
    BY <2>1, <2>2 DEF Nearer
<1> HIDE DEF B, Calls
<1>4. SUFFICES Bad = {}
  BY DEF B, Calls
<1> SUFFICES ASSUME Bad # {} PROVE FALSE
  BY <1>4
<1>5. PICK n \in Bad : \A m \in Bad : n <= m
  <2>1. Bad \in SUBSET Nat
    OBVIOUS
  <2> HIDE DEF Bad
  <2> QED
    BY <2>1, LeastNumber
<1>6. n \in Nat /\ ~ Good(n)
  BY <1>5
<1>7. n # 0
  <2>1. \A y : y \in B(j, 0 + 1) <=> y = j \/ y \in Calls(j)
    BY <1>2, <1>3
  <2>2. \A y : y \in Calls(j) <=> \E c \in Calls(j) : y \in B(c, 0)
    BY <1>1, <1>2
  <2>3. Good(0)
    BY <2>1, <2>2
  <2> QED
    BY <1>6, <2>3
<1>8. PICK m \in Nat : n = m + 1 /\ ~(n <= m)
  <2>1. n - 1 \in Nat /\ n = (n - 1) + 1 /\ ~(n <= n - 1)
    BY <1>6, <1>7
  <2> QED
    BY <2>1
<1>9. Good(m)
  BY <1>5, <1>8
<1>10. n + 1 \in Nat /\ \A y : y \in B(j, n + 1) <=> y \in B(j, n) \/ \E z \in B(j, n) : y \in Calls(z)
  BY <1>3, <1>6
<1>11. \A z : z \in B(j, n) <=> z = j \/ \E c \in Calls(j) : z \in B(c, m)
  BY <1>8, <1>9
<1>12. \A c \in Calls(j) : \A y : y \in B(c, n) <=> y \in B(c, m) \/ \E z \in B(c, m) : y \in Calls(z)
  BY <1>1, <1>3, <1>8
<1>13. \A c \in Calls(j) : c \in B(c, m)
  BY <1>1, BallsGrow DEF B
<1>14. ASSUME NEW y, y \in B(j, n + 1) PROVE y = j \/ \E c \in Calls(j) : y \in B(c, n)
  BY <1>10, <1>11, <1>12, <1>13, <1>14
<1>15. ASSUME NEW y, y = j \/ \E c \in Calls(j) : y \in B(c, n) PROVE y \in B(j, n + 1)
  BY <1>10, <1>11, <1>12, <1>15
<1>16. Good(n)
  BY <1>14, <1>15
<1> QED
  BY <1>6, <1>16

\* What is known after k rounds reaches the symbol in at most k calls.
LEMMA CallersReach ==
  ASSUME graph \in Graphs, NEW id \in Id, NEW k \in Nat
  PROVE  /\ CallersWithin(id, k) \subseteq Id
         /\ CallersWithin(id, k) \subseteq Next1(CallersWithin(id, k) \cup {id}, "up")
         /\ CallersWithin(id, k + 1) = Next1(CallersWithin(id, k) \cup {id}, "up")
         /\ \A j \in Id : id \in Ball(j, "down", FALSE, k) <=> j = id \/ j \in CallersWithin(id, k)
<1> DEFINE U(n) == CallersWithin(id, n)
           Up(S) == Next1(S \cup {id}, "up")
           Grows(n) == U(n) \subseteq Id /\ U(n) \subseteq Up(U(n))
           Good(n) == \A j \in Id : id \in Ball(j, "down", FALSE, n) <=> j = id \/ j \in U(n)
           Bad == {n \in Nat : ~(Grows(n) /\ Good(n))}
<1>1. U(0) = {} /\ \A n \in Nat : U(n + 1) = U(n) \cup Up(U(n))
  BY CallersUnfold DEF MoreCallers
<1>2. \A S, T : Up(S) \subseteq Id /\ (S \subseteq T => Up(S) \subseteq Up(T))
  BY DEF Next1
<1>3. \A S : \A j \in Id : j \in Up(S) <=> \E c \in Next1({j}, "down") : c = id \/ c \in S
  <2> TAKE S
  <2> TAKE j \in Id
  <2>1. graph.edges \subseteq Id \X Id
    BY GraphFacts
  <2>2. j \in Up(S) <=> \E c \in S \cup {id} : <<j, c>> \in graph.edges
    BY DEF Next1
  <2>3. \A c : c \in Next1({j}, "down") <=> <<j, c>> \in graph.edges
    BY <2>1 DEF Next1
  <2> QED
    BY <2>2, <2>3
<1> HIDE DEF U, Up
<1>4. Grows(0)
  BY <1>1
<1>5. Good(0)
  <2>1. \A j \in Id : Ball(j, "down", FALSE, 0) = {j}
    BY BallUnfolds
  <2> QED
    BY <1>1, <2>1
<1>6. \A n \in Nat : Grows(n) => Grows(n + 1) /\ U(n + 1) = Up(U(n))
  <2> SUFFICES ASSUME NEW n \in Nat, Grows(n) PROVE Grows(n + 1) /\ U(n + 1) = Up(U(n))
    OBVIOUS
  <2>1. U(n + 1) = Up(U(n))
    BY <1>1
  <2>2. U(n) \subseteq U(n + 1)
    BY <1>1
  <2> QED
    BY <1>2, <2>1, <2>2
<1>7. ASSUME NEW n \in Nat, Grows(n), Good(n) PROVE Good(n + 1)
  <2> SUFFICES ASSUME NEW j \in Id
               PROVE  id \in Ball(j, "down", FALSE, n + 1) <=> j = id \/ j \in U(n + 1)
    OBVIOUS
  <2>1. id \in Ball(j, "down", FALSE, n + 1) <=> id = j \/ \E c \in Next1({j}, "down") : id \in Ball(c, "down", FALSE, n)
    BY FirstCall
  <2>2. \A c \in Next1({j}, "down") : id \in Ball(c, "down", FALSE, n) <=> c = id \/ c \in U(n)
    BY <1>7, Adjacent
  <2>3. j \in U(n + 1) <=> \E c \in Next1({j}, "down") : c = id \/ c \in U(n)
    <3>1. U(n + 1) = Up(U(n))
      BY <1>6, <1>7
    <3>2. j \in Up(U(n)) <=> \E c \in Next1({j}, "down") : c = id \/ c \in U(n)
      BY <1>3
    <3> QED
      BY <3>1, <3>2
  <2> QED
    BY <2>1, <2>2, <2>3
<1>8. Bad = {}
  <2> SUFFICES ASSUME Bad # {} PROVE FALSE
    OBVIOUS
  <2>1. PICK n \in Bad : \A m \in Bad : n <= m
    <3>1. Bad \in SUBSET Nat
      OBVIOUS
    <3> HIDE DEF Bad
    <3> QED
      BY <3>1, LeastNumber
  <2>2. n \in Nat /\ ~(Grows(n) /\ Good(n))
    BY <2>1
  <2> HIDE DEF Grows, Good
  <2>3. n # 0
    BY <1>4, <1>5, <2>2
  <2>4. PICK m \in Nat : n = m + 1 /\ ~(n <= m)
    <3>1. n - 1 \in Nat /\ n = (n - 1) + 1 /\ ~(n <= n - 1)
      BY <2>2, <2>3
    <3> QED
      BY <3>1
  <2>5. Grows(m) /\ Good(m)
    BY <2>1, <2>4
  <2> QED
    BY <1>6, <1>7, <2>2, <2>4, <2>5
<1>9. Grows(k) /\ Good(k)
  BY <1>8
<1>10. U(k + 1) = Up(U(k))
  BY <1>6, <1>9
<1> QED
  BY <1>9, <1>10 DEF U, Up

\* As many rounds as there are symbols find them all.
LEMMA CallersSaturate ==
  ASSUME graph \in Graphs, NEW id \in Id
  PROVE  CallersWithin(id, Len(sym)) = Next1(CallersWithin(id, Len(sym)) \cup {id}, "up")
<1> DEFINE U(n) == CallersWithin(id, n)
           Up(S) == Next1(S \cup {id}, "up")
           Good(n) == U(n + 1) = U(n) \/ Cardinality(U(n + 1)) >= n + 1
           Bad == {n \in Nat : ~ Good(n)}
<1>1. /\ U(0) = {}
      /\ \A n \in Nat : U(n) \subseteq Id /\ U(n + 1) = Up(U(n)) /\ U(n) \subseteq U(n + 1)
  <2>1. U(0) = {}
    BY CallersUnfold
  <2>2. ASSUME NEW n \in Nat PROVE U(n) \subseteq Id /\ U(n + 1) = Up(U(n)) /\ U(n) \subseteq U(n + 1)
    <3>1. U(n) \subseteq Id
      BY CallersReach
    <3>2. U(n + 1) = Up(U(n))
      BY CallersReach
    <3>3. U(n) \subseteq Up(U(n))
      BY CallersReach
    <3> QED
      BY <3>1, <3>2, <3>3
  <2> QED
    BY <2>1, <2>2
<1>2. \A n \in Nat : IsFiniteSet(U(n)) /\ Cardinality(U(n)) \in Nat
  <2> TAKE n \in Nat
  <2>1. U(n) \subseteq Id /\ IsFiniteSet(Id)
    BY <1>1, GraphFacts
  <2> HIDE DEF U
  <2> QED
    BY <2>1, FS_Subset, FS_CardinalityType
<1> HIDE DEF U, Up
<1>3. \A n \in Nat : U(n + 1) # U(n) => Cardinality(U(n + 1)) > Cardinality(U(n))
  <2> SUFFICES ASSUME NEW n \in Nat, U(n + 1) # U(n) PROVE Cardinality(U(n + 1)) > Cardinality(U(n))
    OBVIOUS
  <2>1. n + 1 \in Nat /\ U(n) \subseteq U(n + 1)
    BY <1>1
  <2>2. IsFiniteSet(U(n + 1)) /\ Cardinality(U(n)) \in Nat /\ Cardinality(U(n + 1)) \in Nat
    BY <1>2, <2>1
  <2> QED
    BY <2>1, <2>2, FS_Subset
<1>4. Good(0)
  BY <1>2, <1>3
<1>5. ASSUME NEW n \in Nat, Good(n) PROVE Good(n + 1)
  <2>1. n + 1 \in Nat /\ n + 2 \in Nat /\ (n + 1) + 1 = n + 2
    OBVIOUS
  <2>2. CASE U(n + 1) = U(n)
    <3>1. U((n + 1) + 1) = Up(U(n + 1)) /\ U(n + 1) = Up(U(n))
      BY <1>1, <2>1
    <3> QED
      BY <2>2, <3>1
  <2>3. CASE Cardinality(U(n + 1)) >= n + 1 /\ U((n + 1) + 1) # U(n + 1)
    <3>1. Cardinality(U((n + 1) + 1)) > Cardinality(U(n + 1))
      BY <1>3, <2>1, <2>3
    <3>2. Cardinality(U((n + 1) + 1)) \in Nat /\ Cardinality(U(n + 1)) \in Nat
      BY <1>2, <2>1
    <3> QED
      BY <2>3, <3>1, <3>2
  <2> QED
    BY <1>5, <2>2, <2>3
<1>6. Bad = {}
  <2> SUFFICES ASSUME Bad # {} PROVE FALSE
    OBVIOUS
  <2>1. PICK n \in Bad : \A m \in Bad : n <= m
    <3>1. Bad \in SUBSET Nat
      OBVIOUS
    <3> HIDE DEF Bad
    <3> QED
      BY <3>1, LeastNumber
  <2>2. n \in Nat /\ ~ Good(n)
    BY <2>1
  <2> HIDE DEF Good
  <2>3. n # 0
    BY <1>4, <2>2
  <2>4. PICK m \in Nat : n = m + 1 /\ ~(n <= m)
    <3>1. n - 1 \in Nat /\ n = (n - 1) + 1 /\ ~(n <= n - 1)
      BY <2>2, <2>3
    <3> QED
      BY <3>1
  <2>5. Good(m)
    BY <2>1, <2>4
  <2> QED
    BY <1>5, <2>2, <2>4, <2>5
<1>7. PICK n \in Nat : n = Len(sym) /\ Cardinality(Id) = n /\ IsFiniteSet(Id)
  BY GraphFacts
<1>8. Good(n)
  BY <1>6
<1>9. Cardinality(U(n + 1)) <= n
  <2>1. n + 1 \in Nat
    OBVIOUS
  <2>2. U(n + 1) \subseteq Id
    BY <1>1, <2>1
  <2> QED
    BY <1>7, <2>2, FS_Subset
<1>10. U(n + 1) = U(n)
  <2>1. n + 1 \in Nat
    OBVIOUS
  <2>2. Cardinality(U(n + 1)) \in Nat
    BY <1>2, <2>1
  <2> QED
    BY <1>8, <1>9, <2>2
<1>11. U(n + 1) = Up(U(n))
  BY <1>1
<1> QED
  BY <1>7, <1>10, <1>11 DEF U, Up

\* The callers that are counted are the symbols that can reach the one asked about.
LEMMA TransitiveIsReach ==
  ASSUME graph \in Graphs, NEW id \in Id
  PROVE  TransitiveCallers(id)
           = Min({BlastCap, Cardinality({i \in Id : \E j \in Next1({i}, "down") : j = id \/ id \in Ball(j, "down", FALSE, Len(sym))})})
<1> DEFINE U == CallersWithin(id, Len(sym))
           reaching == {i \in Id : \E j \in Next1({i}, "down") : j = id \/ id \in Ball(j, "down", FALSE, Len(sym))}
<1>1. Len(sym) \in Nat /\ graph.edges \subseteq Id \X Id
  BY GraphFacts
<1>2. U \subseteq Id /\ \A j \in Id : id \in Ball(j, "down", FALSE, Len(sym)) <=> j = id \/ j \in U
  BY <1>1, CallersReach
<1>3. U = Next1(U \cup {id}, "up")
  BY CallersSaturate
<1> HIDE DEF U
<1>4. \A i \in Id : i \in Next1(U \cup {id}, "up") <=> \E j \in U \cup {id} : <<i, j>> \in graph.edges
  BY DEF Next1
<1>5. \A i, j \in Id : j \in Next1({i}, "down") <=> <<i, j>> \in graph.edges
  BY DEF Next1
<1>6. \A i \in Id : i \in U <=> \E j \in Next1({i}, "down") : j = id \/ id \in Ball(j, "down", FALSE, Len(sym))
  <2> TAKE i \in Id
  <2>1. \A j \in Next1({i}, "down") : j \in Id
    BY Adjacent
  <2>2. \A j \in U \cup {id} : j \in Id
    BY <1>2
  <2> QED
    BY <1>2, <1>3, <1>4, <1>5, <2>1, <2>2
<1>7. reaching = U
  BY <1>2, <1>6
<1> HIDE DEF reaching
<1>8. TransitiveCallers(id) = Min({BlastCap, Cardinality(U)})
  BY DEF TransitiveCallers, U
<1> QED
  BY <1>7, <1>8 DEF reaching

-----------------------------------------------------------------------------
(* Paths.                                                                    *)

Reach(start, d) == Ball(start, "down", FALSE, d)
At(start, i, d) == Shortest(start, "down", FALSE, i, d)

LEMMA ReachFacts ==
  ASSUME NEW start \in Id
  PROVE  /\ Reach(start, 0) = {start}
         /\ \A d \in Nat : start \in Reach(start, d) /\ Reach(start, d) \subseteq Id
         /\ \A d, e \in Nat : d <= e => Reach(start, d) \subseteq Reach(start, e)
<1>1. Reach(start, 0) = {start}
  BY BallUnfolds DEF Reach
<1>2. \A d \in Nat : start \in Reach(start, d) /\ Reach(start, d) \subseteq Id
  BY BallsGrow DEF Reach
<1>3. \A d, e \in Nat : d <= e => Reach(start, d) \subseteq Reach(start, e)
  BY BallsGrow DEF Reach
<1> QED
  BY <1>1, <1>2, <1>3

LEMMA AtFacts ==
  ASSUME NEW start \in Id
  PROVE  /\ \A i : \A d, e \in Nat : At(start, i, d) /\ At(start, i, e) => d = e
         /\ \A i : \A d \in Nat : At(start, i, d) => i \in Reach(start, d) /\ (i = start <=> d = 0)
         /\ \A d \in Nat : \A i \in Reach(start, d) : \E e \in 0 .. d : At(start, i, e)
         /\ At(start, start, 0)
<1>1. \A i : \A d, e \in Nat : At(start, i, d) /\ At(start, i, e) => d = e
  BY DistanceIsOne DEF At
<1>2. \A i : \A d \in Nat : At(start, i, d) => i \in Reach(start, d) /\ (i = start <=> d = 0)
  <2>1. \A i : \A d \in Nat : At(start, i, d) => (i = start <=> d = 0)
    BY StartIsNearest DEF At
  <2>2. \A i, d : At(start, i, d) => i \in Reach(start, d)
    BY DEF At, Reach, Shortest
  <2> QED
    BY <2>1, <2>2
<1>3. \A d \in Nat : \A i \in Reach(start, d) : \E e \in 0 .. d : At(start, i, e)
  BY BallHasDistance DEF At, Reach
<1>4. At(start, start, 0)
  BY ReachFacts DEF At, Reach, Shortest
<1> QED
  BY <1>1, <1>2, <1>3, <1>4

\* The next ball, from the rim of this one.
LEMMA NextReach ==
  ASSUME NEW start \in Id, NEW d \in Nat, NEW F, F = {j \in Id : At(start, j, d)},
         NEW more, more = Next1(F, "down") \ Reach(start, d)
  PROVE  /\ more = {i \in Id : At(start, i, d + 1)}
         /\ Reach(start, d + 1) = Reach(start, d) \cup more
<1>0. PICK noTests : noTests = FALSE
  OBVIOUS
<1>1. Rim(F, start, "down", noTests, d)
  BY <1>0 DEF Rim, At
<1>2. RimGrows(F, start, "down", noTests, d)
  BY <1>1, RimIsEnough
<1>3. more = {i \in Id : At(start, i, d + 1)}
  BY <1>0, <1>2 DEF Reach, At, RimGrows
<1>4. d + 1 \in Nat /\ d + 1 # 0 /\ (d + 1) - 1 = d /\ d <= d + 1
  OBVIOUS
<1>5. Reach(start, d) \subseteq Reach(start, d + 1) /\ Reach(start, d + 1) \subseteq Id
  BY <1>4, ReachFacts
<1>6. \A i : At(start, i, d + 1) <=> i \in Reach(start, d + 1) /\ i \notin Reach(start, d)
  BY <1>4 DEF At, Reach, Shortest
<1> QED
  BY <1>3, <1>5, <1>6

LEMMA LeastIsIn ==
  ASSUME NEW S \in SUBSET Nat, S # {}
  PROVE  Min(S) \in S /\ \A x \in S : Min(S) <= x
<1>1. \E m \in S : \A k \in S : m <= k
  BY LeastNumber
<1> QED
  BY <1>1 DEF Min

Searches ==
  {st \in [frontier : SUBSET Id, parent : UNION {[S -> Id] : S \in SUBSET Id}] : st.frontier \subseteq DOMAIN st.parent}

LEMMA SearchTypes ==
  /\ \A st \in Searches : /\ st.frontier \subseteq DOMAIN st.parent /\ DOMAIN st.parent \subseteq Id
                          /\ st.parent \in [DOMAIN st.parent -> Id]
  /\ \A F : \A D \in SUBSET Id : \A p \in [D -> Id] : F \subseteq D => [frontier |-> F, parent |-> p] \in Searches
<1>1. ASSUME NEW st \in Searches
      PROVE  /\ st.frontier \subseteq DOMAIN st.parent /\ DOMAIN st.parent \subseteq Id
             /\ st.parent \in [DOMAIN st.parent -> Id]
  <2>1. st.frontier \subseteq DOMAIN st.parent /\ st.parent \in UNION {[S -> Id] : S \in SUBSET Id}
    BY DEF Searches
  <2>2. PICK S \in SUBSET Id : st.parent \in [S -> Id]
    BY <2>1
  <2> QED
    BY <2>1, <2>2
<1>2. ASSUME NEW F, NEW D \in SUBSET Id, NEW p \in [D -> Id], F \subseteq D
      PROVE  [frontier |-> F, parent |-> p] \in Searches
  <2>1. p \in UNION {[S -> Id] : S \in SUBSET Id}
    OBVIOUS
  <2>2. F \in SUBSET Id /\ DOMAIN p = D
    BY <1>2
  <2> QED
    BY <1>2, <2>1, <2>2 DEF Searches
<1> QED
  BY <1>1, <1>2

\* What a level of the search adds: callees not met before, each with a caller on the rim.
Extends(new, st, next) ==
  /\ new \in Searches
  /\ new.frontier = next /\ DOMAIN new.parent = DOMAIN st.parent \cup next
  /\ \A t \in next : new.parent[t] \in st.frontier /\ <<new.parent[t], t>> \in graph.edges
  /\ \A t \in DOMAIN st.parent : new.parent[t] = st.parent[t]

LEMMA PathLevelExtends ==
  ASSUME graph \in Graphs, NEW st \in Searches
  PROVE  Extends(PathLevel(st), st, Next1(st.frontier, "down") \ DOMAIN st.parent)
<1> DEFINE D == DOMAIN st.parent
           next == Next1(st.frontier, "down") \ D
           callers(t) == {c \in st.frontier : <<c, t>> \in graph.edges}
           p == [t \in D \cup next |-> IF t \in next THEN Min(callers(t)) ELSE st.parent[t]]
<1>1. st.frontier \subseteq D /\ D \subseteq Id /\ st.parent \in [D -> Id] /\ Id \subseteq Nat
  BY SearchTypes, GraphFacts
<1>2. next \subseteq Id
  BY Adjacent
<1>3. ASSUME NEW t \in next PROVE Min(callers(t)) \in callers(t)
  <2>1. callers(t) # {}
    BY DEF Next1
  <2>2. callers(t) \in SUBSET Nat
    BY <1>1
  <2> HIDE DEF callers
  <2> QED
    BY <2>1, <2>2, LeastIsIn
<1>4. PathLevel(st) = [frontier |-> next, parent |-> p]
  BY DEF PathLevel
<1>5. \A t \in next : p[t] \in st.frontier /\ <<p[t], t>> \in graph.edges
  BY <1>3
<1>6. \A t \in D : p[t] = st.parent[t]
  OBVIOUS
<1>7. DOMAIN p = D \cup next
  OBVIOUS
<1> HIDE DEF p, next
<1>8. p \in [D \cup next -> Id]
  <2>1. \A t \in D \cup next : p[t] \in Id
    BY <1>1, <1>5, <1>6
  <2>2. p = [t \in D \cup next |-> p[t]]
    BY DEF p
  <2> QED
    BY <2>1, <2>2
<1>9. [frontier |-> next, parent |-> p] \in Searches
  <2>1. D \cup next \in SUBSET Id /\ next \subseteq D \cup next
    BY <1>1, <1>2
  <2> QED
    BY <1>8, <2>1, SearchTypes
<1>10. Extends(PathLevel(st), st, next)
  BY <1>4, <1>5, <1>6, <1>7, <1>9 DEF Extends
<1> QED
  BY <1>10 DEF next

LEMMA SearchUnfolds ==
  ASSUME graph \in Graphs, NEW start \in Id, NEW target
  PROVE  /\ CallSearch(start, target, 0) = NoSteps(start)
         /\ NoSteps(start) \in Searches
         /\ \A d \in Nat : CallSearch(start, target, d + 1) = SearchOn(CallSearch(start, target, d), target)
<1> DEFINE X == Searches
           step == [p \in Nat \X X |-> SearchOn(p[2], target)]
           F(h) == [k \in Nat |-> IF k = 0 THEN NoSteps(start) ELSE SearchOn(h[k - 1], target)]
           b == CHOOSE h : h = F(h)
<1>0. NoSteps(start) \in X
  <2>1. [t \in {start} |-> start] \in [{start} -> Id] /\ {start} \in SUBSET Id
    OBVIOUS
  <2> QED
    BY <2>1, SearchTypes DEF NoSteps
<1>1. step \in [Nat \X X -> X]
  <2>1. \A st \in X : SearchOn(st, target) \in X
    BY PathLevelExtends DEF SearchOn, Extends
  <2> HIDE DEF X
  <2> QED
    BY <2>1
<1>2. PICK h \in [Nat -> X] : Recurs(h, NoSteps(start), step)
  <2> HIDE DEF X, step
  <2> QED
    BY <1>0, <1>1, RecursionHolds
<1>3. ASSUME NEW k \in Nat, k # 0
      PROVE  step[<<k, h[k - 1]>>] = SearchOn(h[k - 1], target)
  <2>1. k - 1 \in Nat
    BY <1>3
  <2>2. h[k - 1] \in X
    BY <2>1
  <2> QED
    BY <2>2
<1>4. h = F(h)
  BY <1>2, <1>3 DEF Recurs
<1>5. b = F(b)
  <2> HIDE DEF F
  <2> QED
    BY <1>4
<1>6. \A d : CallSearch(start, target, d) = b[d]
  BY DEF CallSearch
<1>7. b[0] = NoSteps(start) /\ \A d \in Nat : b[d + 1] = SearchOn(b[d], target)
  <2> HIDE DEF b
  <2>1. b[0] = NoSteps(start)
    BY <1>5
  <2>2. ASSUME NEW d \in Nat PROVE b[d + 1] = SearchOn(b[d], target)
    <3>1. d + 1 \in Nat /\ d + 1 # 0 /\ (d + 1) - 1 = d
      OBVIOUS
    <3> QED
      BY <1>5, <3>1
  <2> QED
    BY <2>1, <2>2
<1> HIDE DEF b
<1> QED
  BY <1>0, <1>6, <1>7

\* All symbols at most n calls away are known, each with a caller one call nearer.
ParentsAreNearer(parent, start) ==
  \A t \in DOMAIN parent, m \in Nat :
    At(start, t, m + 1) => At(start, parent[t], m) /\ <<parent[t], t>> \in graph.edges
SearchedTo(st, start, n) ==
  /\ st \in Searches
  /\ DOMAIN st.parent = Reach(start, n) /\ st.frontier = {j \in Id : At(start, j, n)}
  /\ ParentsAreNearer(st.parent, start)
\* The search goes on to the target's distance and no further.
SearchIs(st, start, target, e) ==
  \E n \in 0 .. e : SearchedTo(st, start, n) /\ IF target \in DOMAIN st.parent THEN At(start, target, n) ELSE n = e

LEMMA SearchBegins ==
  ASSUME graph \in Graphs, NEW start \in Id, NEW target
  PROVE  SearchIs(NoSteps(start), start, target, 0)
<1> DEFINE st == NoSteps(start)
<1>1. st \in Searches
  BY SearchUnfolds
<1>2. DOMAIN st.parent = {start} /\ st.frontier = {start}
  BY DEF NoSteps
<1> HIDE DEF st
<1>3. st.frontier = {j \in Id : At(start, j, 0)}
  <2>1. \A j \in Id : At(start, j, 0) <=> j = start
    BY AtFacts
  <2> QED
    BY <1>2, <2>1
<1>4. \A m \in Nat : ~ At(start, start, m + 1)
  <2> TAKE m \in Nat
  <2>1. m + 1 \in Nat /\ m + 1 # 0
    OBVIOUS
  <2> QED
    BY <2>1, AtFacts
<1>5. ParentsAreNearer(st.parent, start)
  BY <1>2, <1>4 DEF ParentsAreNearer
<1>6. SearchedTo(st, start, 0)
  BY <1>1, <1>2, <1>3, <1>5, ReachFacts DEF SearchedTo
<1>7. target \in DOMAIN st.parent => At(start, target, 0)
  BY <1>2, AtFacts
<1>8. 0 \in 0 .. 0
  OBVIOUS
<1> QED
  BY <1>6, <1>7, <1>8 DEF SearchIs, st

LEMMA SearchGoesOn ==
  ASSUME graph \in Graphs, NEW start \in Id, NEW target, NEW e \in Nat, NEW st, SearchIs(st, start, target, e)
  PROVE  SearchIs(SearchOn(st, target), start, target, e + 1)
<1>1. PICK n \in 0 .. e : SearchedTo(st, start, n) /\ IF target \in DOMAIN st.parent THEN At(start, target, n) ELSE n = e
  BY DEF SearchIs
<1>2. CASE target \in DOMAIN st.parent
  <2>1. SearchOn(st, target) = st /\ n \in 0 .. e + 1
    BY <1>2 DEF SearchOn
  <2> QED
    BY <1>1, <1>2, <2>1 DEF SearchIs
<1>3. CASE target \notin DOMAIN st.parent
  <2> DEFINE next == Next1(st.frontier, "down") \ DOMAIN st.parent
  <2>1. n = e /\ SearchedTo(st, start, e)
    BY <1>1, <1>3
  <2>2. st \in Searches /\ DOMAIN st.parent = Reach(start, e) /\ st.frontier = {j \in Id : At(start, j, e)}
    BY <2>1 DEF SearchedTo
  <2>3. PICK new : new = PathLevel(st) /\ new = SearchOn(st, target)
    BY <1>3 DEF SearchOn
  <2>4. Extends(new, st, next)
    BY <2>2, <2>3, PathLevelExtends
  <2>5. next = Next1(st.frontier, "down") \ Reach(start, e)
    BY <2>2
  <2> HIDE DEF next
  <2>6. next = {i \in Id : At(start, i, e + 1)} /\ Reach(start, e + 1) = Reach(start, e) \cup next
    <3>1. PICK F : F = {j \in Id : At(start, j, e)}
      OBVIOUS
    <3>2. PICK more : more = Next1(F, "down") \ Reach(start, e)
      OBVIOUS
    <3>3. more = {i \in Id : At(start, i, e + 1)} /\ Reach(start, e + 1) = Reach(start, e) \cup more
      BY <3>1, <3>2, NextReach
    <3>4. next = more
      BY <2>2, <2>5, <3>1, <3>2
    <3> QED
      BY <3>3, <3>4
  <2>7. /\ new \in Searches
        /\ new.frontier = next /\ DOMAIN new.parent = DOMAIN st.parent \cup next
        /\ \A t \in next : new.parent[t] \in st.frontier /\ <<new.parent[t], t>> \in graph.edges
        /\ \A t \in DOMAIN st.parent : new.parent[t] = st.parent[t]
    BY <2>4 DEF Extends
  <2>8. ASSUME NEW t \in DOMAIN new.parent, NEW m \in Nat, At(start, t, m + 1)
        PROVE  At(start, new.parent[t], m) /\ <<new.parent[t], t>> \in graph.edges
    <3>1. CASE t \in next
      <4>1. At(start, t, e + 1)
        BY <2>6, <3>1
      <4>2. m + 1 \in Nat /\ e + 1 \in Nat
        OBVIOUS
      <4>3. m + 1 = e + 1
        BY <2>8, <4>1, <4>2, AtFacts
      <4>4. m = e
        BY <4>3
      <4>5. At(start, new.parent[t], e)
        BY <2>2, <2>7, <3>1
      <4> QED
        BY <2>7, <3>1, <4>4, <4>5
    <3>2. CASE t \in DOMAIN st.parent
      <4>1. ParentsAreNearer(st.parent, start)
        BY <2>1 DEF SearchedTo
      <4>2. At(start, st.parent[t], m) /\ <<st.parent[t], t>> \in graph.edges
        BY <2>8, <3>2, <4>1 DEF ParentsAreNearer
      <4> QED
        BY <2>7, <3>2, <4>2
    <3> QED
      BY <2>7, <3>1, <3>2
  <2>9. ParentsAreNearer(new.parent, start)
    BY <2>8 DEF ParentsAreNearer
  <2>10. SearchedTo(new, start, e + 1)
    BY <2>2, <2>6, <2>7, <2>9 DEF SearchedTo
  <2>11. target \in DOMAIN new.parent => At(start, target, e + 1)
    BY <1>3, <2>6, <2>7
  <2>12. e + 1 \in 0 .. e + 1
    OBVIOUS
  <2> QED
    BY <2>3, <2>10, <2>11, <2>12 DEF SearchIs
<1> QED
  BY <1>2, <1>3

LEMMA SearchHolds ==
  ASSUME graph \in Graphs, NEW start \in Id, NEW target, NEW e \in Nat
  PROVE  SearchIs(CallSearch(start, target, e), start, target, e)
<1> DEFINE Bad == {k \in Nat : ~ SearchIs(CallSearch(start, target, k), start, target, k)}
<1> SUFFICES ASSUME Bad # {} PROVE FALSE
  OBVIOUS
<1>1. PICK k \in Bad : \A j \in Bad : k <= j
  BY LeastNumber
<1>2. k # 0
  BY <1>1, SearchUnfolds, SearchBegins
<1>3. PICK j \in Nat : k = j + 1 /\ ~(k <= j)
  <2>1. k - 1 \in Nat /\ k = (k - 1) + 1 /\ ~(k <= k - 1)
    BY <1>2
  <2> QED
    BY <2>1
<1>4. SearchIs(CallSearch(start, target, j), start, target, j)
  BY <1>1, <1>3
<1>5. CallSearch(start, target, k) = SearchOn(CallSearch(start, target, j), target)
  BY <1>3, SearchUnfolds
<1> QED
  BY <1>1, <1>3, <1>4, <1>5, SearchGoesOn

\* Calls one after the other, the last to the target.
LinkedTo(s, target) ==
  /\ s \in Seq(Id) /\ Len(s) >= 1 /\ s[Len(s)] = target
  /\ \A i \in 1 .. Len(s) - 1 : <<s[i], s[i + 1]>> \in graph.edges
\* After k calls back from a target n calls away: as far back as that, or at the start.
ChainIs(s, start, target, n, k) ==
  /\ LinkedTo(s, target)
  /\ \E j \in Nat : j <= n /\ (j = k \/ (j <= k /\ j = n)) /\ Len(s) = j + 1 /\ At(start, s[1], n - j)

\* The tree of callers that is walked back.
CallerTree(p, start, n) == DOMAIN p = Reach(start, n) /\ p \in [DOMAIN p -> Id] /\ ParentsAreNearer(p, start)
Starts(p) == {s \in Seq(Id) : Len(s) >= 1 /\ s[1] \in DOMAIN p}

LEMMA CallerIsInTree ==
  ASSUME graph \in Graphs, NEW start \in Id, NEW n \in Nat, NEW p, CallerTree(p, start, n),
         NEW t \in DOMAIN p, t # start
  PROVE  p[t] \in DOMAIN p
<1>1. t \in Reach(start, n) /\ ParentsAreNearer(p, start) /\ DOMAIN p = Reach(start, n)
  BY DEF CallerTree
<1>2. PICK e \in 0 .. n : At(start, t, e)
  BY <1>1, AtFacts
<1>3. e \in Nat /\ e <= n /\ e # 0
  BY <1>2, AtFacts
<1>4. PICK m \in Nat : e = m + 1 /\ m <= n
  <2>1. e - 1 \in Nat /\ e = (e - 1) + 1 /\ e - 1 <= n
    BY <1>3
  <2> QED
    BY <2>1
<1>5. At(start, p[t], m)
  BY <1>1, <1>2, <1>4 DEF ParentsAreNearer
<1>6. p[t] \in Reach(start, m)
  BY <1>5, AtFacts
<1> QED
  BY <1>1, <1>4, <1>6, ReachFacts

LEMMA Prepended ==
  ASSUME NEW X, NEW x \in X, NEW s \in Seq(X)
  PROVE  /\ <<x>> \o s \in Seq(X) /\ Len(<<x>> \o s) = Len(s) + 1 /\ (<<x>> \o s)[1] = x
         /\ \A i \in 1 .. Len(s) : (<<x>> \o s)[i + 1] = s[i]
OBVIOUS

LEMMA ChainUnfolds ==
  ASSUME graph \in Graphs, NEW start \in Id, NEW n \in Nat, NEW p, CallerTree(p, start, n),
         NEW target \in DOMAIN p
  PROVE  /\ CallChain(start, target, p, 0) = <<target>>
         /\ \A d \in Nat : CallChain(start, target, p, d + 1) = Back(CallChain(start, target, p, d), start, p)
<1> DEFINE X == Starts(p)
           step == [q \in Nat \X X |-> Back(q[2], start, p)]
           F(h) == [k \in Nat |-> IF k = 0 THEN <<target>> ELSE Back(h[k - 1], start, p)]
           b == CHOOSE h : h = F(h)
<1>a. DOMAIN p \subseteq Id
  BY ReachFacts DEF CallerTree
<1>0. <<target>> \in X
  BY <1>a DEF Starts
<1>1. step \in [Nat \X X -> X]
  <2>1. ASSUME NEW s \in X PROVE Back(s, start, p) \in X
    <3>1. s \in Seq(Id) /\ Len(s) >= 1 /\ s[1] \in DOMAIN p /\ Head(s) = s[1]
      BY DEF Starts
    <3>2. CASE Head(s) = start
      BY <3>2 DEF Back
    <3>3. CASE Head(s) # start
      <4>1. Back(s, start, p) = <<p[Head(s)]>> \o s
        BY <3>3 DEF Back
      <4>2. p[Head(s)] \in DOMAIN p /\ p[Head(s)] \in Id
        BY <1>a, <3>1, <3>3, CallerIsInTree
      <4>3. PICK x \in Id : x = p[Head(s)]
        BY <4>2
      <4>4. PICK r : r = <<x>> \o s
        OBVIOUS
      <4>5. r \in Seq(Id) /\ Len(r) = Len(s) + 1 /\ r[1] = x
        BY <3>1, <4>4, Prepended
      <4>6. Len(r) >= 1
        BY <3>1, <4>5
      <4>7. r \in X
        BY <4>2, <4>3, <4>5, <4>6 DEF Starts
      <4> QED
        BY <4>1, <4>3, <4>4, <4>7
    <3> QED
      BY <3>2, <3>3
  <2> HIDE DEF X
  <2> QED
    BY <2>1
<1>2. PICK h \in [Nat -> X] : Recurs(h, <<target>>, step)
  <2> HIDE DEF X, step
  <2> QED
    BY <1>0, <1>1, RecursionHolds
<1>3. ASSUME NEW k \in Nat, k # 0
      PROVE  step[<<k, h[k - 1]>>] = Back(h[k - 1], start, p)
  <2>1. k - 1 \in Nat
    BY <1>3
  <2>2. h[k - 1] \in X
    BY <2>1
  <2> QED
    BY <2>2
<1>4. h = F(h)
  BY <1>2, <1>3 DEF Recurs
<1>5. b = F(b)
  <2> HIDE DEF F
  <2> QED
    BY <1>4
<1>6. \A d : CallChain(start, target, p, d) = b[d]
  BY DEF CallChain
<1>7. b[0] = <<target>> /\ \A d \in Nat : b[d + 1] = Back(b[d], start, p)
  <2> HIDE DEF b
  <2>1. b[0] = <<target>>
    BY <1>5
  <2>2. ASSUME NEW d \in Nat PROVE b[d + 1] = Back(b[d], start, p)
    <3>1. d + 1 \in Nat /\ d + 1 # 0 /\ (d + 1) - 1 = d
      OBVIOUS
    <3> QED
      BY <1>5, <3>1
  <2> QED
    BY <2>1, <2>2
<1> HIDE DEF b
<1> QED
  BY <1>6, <1>7

LEMMA ChainStep ==
  ASSUME graph \in Graphs, NEW start \in Id, NEW n \in Nat, NEW p, CallerTree(p, start, n), NEW target,
         NEW k \in Nat, NEW s, ChainIs(s, start, target, n, k)
  PROVE  ChainIs(Back(s, start, p), start, target, n, k + 1)
<1>1. /\ s \in Seq(Id) /\ Len(s) >= 1 /\ Len(s) \in Nat /\ s[Len(s)] = target
      /\ \A i \in 1 .. Len(s) - 1 : <<s[i], s[i + 1]>> \in graph.edges
      /\ Head(s) = s[1] /\ s[1] \in Id
  BY DEF ChainIs, LinkedTo
<1>2. PICK j \in Nat : j <= n /\ (j = k \/ (j <= k /\ j = n)) /\ Len(s) = j + 1 /\ At(start, s[1], n - j)
  BY DEF ChainIs
<1>3. n - j \in Nat
  BY <1>2
<1>4. s[1] = start <=> n - j = 0
  BY <1>2, <1>3, AtFacts
<1>5. CASE s[1] = start
  <2>1. Back(s, start, p) = s
    BY <1>1, <1>5 DEF Back
  <2>2. j <= k + 1 /\ j = n
    BY <1>2, <1>4, <1>5
  <2> QED
    BY <1>2, <2>1, <2>2 DEF ChainIs
<1>6. CASE s[1] # start
  <2>1. PICK m \in Nat : n - j = m + 1 /\ m = n - (j + 1)
    <3>1. n - j - 1 \in Nat /\ n - j = (n - j - 1) + 1 /\ n - j - 1 = n - (j + 1)
      BY <1>3, <1>4, <1>6
    <3> QED
      BY <3>1
  <2>2. j + 1 = k + 1 /\ j + 1 <= n /\ j + 1 \in Nat
    BY <1>2, <2>1
  <2>3. s[1] \in DOMAIN p /\ p \in [DOMAIN p -> Id] /\ ParentsAreNearer(p, start)
    <3>1. s[1] \in Reach(start, n - j)
      BY <1>2, <1>3, AtFacts
    <3>2. n - j <= n
      OBVIOUS
    <3>3. s[1] \in Reach(start, n)
      BY <1>3, <3>1, <3>2, ReachFacts
    <3> QED
      BY <3>3 DEF CallerTree
  <2>4. PICK x \in Id : x = p[s[1]]
    BY <2>3
  <2>5. At(start, s[1], m + 1)
    BY <1>2, <2>1
  <2>6. At(start, x, m) /\ <<x, s[1]>> \in graph.edges
    BY <2>3, <2>4, <2>5 DEF ParentsAreNearer
  <2>7. PICK r : r = <<x>> \o s
    OBVIOUS
  <2>8. Back(s, start, p) = r
    BY <1>1, <1>6, <2>4, <2>7 DEF Back
  <2>9. r \in Seq(Id) /\ Len(r) = Len(s) + 1 /\ r[1] = x /\ \A i \in 1 .. Len(s) : r[i + 1] = s[i]
    BY <1>1, <2>7, Prepended
  <2>10. r[Len(r)] = target
    <3>1. Len(s) \in 1 .. Len(s) /\ Len(r) = Len(s) + 1
      BY <1>1, <2>9
    <3> QED
      BY <1>1, <2>9, <3>1
  <2>11. ASSUME NEW i \in 1 .. Len(r) - 1 PROVE <<r[i], r[i + 1]>> \in graph.edges
    <3>1. i \in 1 .. Len(s)
      BY <1>1, <2>9
    <3>2. r[i + 1] = s[i]
      BY <2>9, <3>1
    <3>3. CASE i = 1
      BY <2>6, <2>9, <3>2, <3>3
    <3>4. CASE i # 1
      <4>1. PICK h \in 1 .. Len(s) - 1 : i = h + 1 /\ h \in 1 .. Len(s)
        <5>1. i - 1 \in 1 .. Len(s) - 1 /\ i = (i - 1) + 1 /\ i - 1 \in 1 .. Len(s)
          BY <1>1, <3>1, <3>4
        <5> QED
          BY <5>1
      <4>2. r[i] = s[h] /\ r[i + 1] = s[h + 1]
        BY <2>9, <3>2, <4>1
      <4> QED
        BY <1>1, <4>1, <4>2
    <3> QED
      BY <3>3, <3>4
  <2>12. LinkedTo(r, target)
    BY <1>1, <2>9, <2>10, <2>11 DEF LinkedTo
  <2>13. Len(r) = (j + 1) + 1 /\ At(start, r[1], n - (j + 1))
    BY <1>2, <2>1, <2>6, <2>9
  <2> QED
    BY <2>2, <2>8, <2>12, <2>13 DEF ChainIs
<1> QED
  BY <1>5, <1>6

LEMMA ChainHolds ==
  ASSUME graph \in Graphs, NEW start \in Id, NEW n \in Nat, NEW p, CallerTree(p, start, n),
         NEW target \in DOMAIN p, At(start, target, n), NEW k \in Nat
  PROVE  ChainIs(CallChain(start, target, p, k), start, target, n, k)
<1> DEFINE C(i) == CallChain(start, target, p, i)
           Bad == {i \in Nat : ~ ChainIs(C(i), start, target, n, i)}
<1> SUFFICES ASSUME Bad # {} PROVE FALSE
  OBVIOUS
<1>1. PICK i \in Bad : \A j \in Bad : i <= j
  BY LeastNumber
<1>2. i # 0
  <2>1. C(0) = <<target>>
    BY ChainUnfolds
  <2>2. target \in Id
    BY ReachFacts DEF CallerTree
  <2>3. LinkedTo(<<target>>, target)
    BY <2>2 DEF LinkedTo
  <2>4. Len(<<target>>) = 0 + 1 /\ <<target>>[1] = target /\ n - 0 = n /\ 0 <= n
    OBVIOUS
  <2>5. ChainIs(<<target>>, start, target, n, 0)
    BY <2>3, <2>4 DEF ChainIs
  <2> QED
    BY <1>1, <2>1, <2>5
<1>3. PICK j \in Nat : i = j + 1 /\ ~(i <= j)
  <2>1. i - 1 \in Nat /\ i = (i - 1) + 1 /\ ~(i <= i - 1)
    BY <1>2
  <2> QED
    BY <2>1
<1>4. ChainIs(C(j), start, target, n, j)
  BY <1>1, <1>3
<1>5. C(i) = Back(C(j), start, p)
  BY <1>3, ChainUnfolds
<1>6. ChainIs(C(i), start, target, n, j + 1)
  BY <1>4, <1>5, ChainStep
<1> QED
  BY <1>1, <1>3, <1>6

\* A path is a shortest chain of calls, and there is none only when none is short enough.
PathHolds(start, target, path) ==
  IF path = <<>> THEN target \notin Ball(start, "down", FALSE, MaxPathDepth)
  ELSE /\ path[1] = start /\ Last(path) = target
       /\ \A k \in 1 .. Len(path) - 1 : <<path[k], path[k + 1]>> \in graph.edges
       /\ Shortest(start, "down", FALSE, target, Len(path) - 1)

LEMMA CallPathHolds ==
  ASSUME graph \in Graphs, NEW start \in Id, NEW target, NEW path, path = CallPath(start, target)
  PROVE  PathHolds(start, target, path)
<1> DEFINE N == MaxPathDepth
           st == CallSearch(start, target, N)
           p == st.parent
<1>1. N \in Nat
  BY LimitsArePositive
<1>2. PICK n \in 0 .. N : SearchedTo(st, start, n) /\ IF target \in DOMAIN p THEN At(start, target, n) ELSE n = N
  BY <1>1, SearchHolds DEF SearchIs
<1>3. n \in Nat /\ n <= N
  BY <1>1, <1>2
<1>4. path = IF target \in DOMAIN p THEN CallChain(start, target, p, N) ELSE <<>>
  BY DEF CallPath
<1>5. CallerTree(p, start, n)
  <2>1. st \in Searches /\ DOMAIN p = Reach(start, n) /\ ParentsAreNearer(p, start)
    BY <1>2 DEF SearchedTo
  <2>2. p \in [DOMAIN p -> Id]
    BY <2>1, SearchTypes
  <2> QED
    BY <2>1, <2>2 DEF CallerTree
<1> HIDE DEF N, st, p
<1>6. CASE target \in DOMAIN p
  <2>1. ChainIs(path, start, target, n, N)
    BY <1>1, <1>2, <1>3, <1>4, <1>5, <1>6, ChainHolds
  <2>2. PICK j \in Nat : j <= n /\ (j = N \/ (j <= N /\ j = n)) /\ Len(path) = j + 1 /\ At(start, path[1], n - j)
    BY <2>1 DEF ChainIs
  <2>3. j = n /\ n - j = 0
    BY <1>1, <1>3, <2>2
  <2>4. path[1] = start
    BY <2>2, <2>3, AtFacts
  <2>5. LinkedTo(path, target)
    BY <2>1 DEF ChainIs
  <2>6. Last(path) = target /\ path # <<>>
    BY <2>2, <2>5 DEF LinkedTo, Last
  <2>7. Len(path) - 1 = n
    BY <1>3, <2>2, <2>3
  <2>8. Shortest(start, "down", FALSE, target, n)
    BY <1>2, <1>6 DEF At
  <2>9. \A k \in 1 .. Len(path) - 1 : <<path[k], path[k + 1]>> \in graph.edges
    BY <2>5 DEF LinkedTo
  <2> QED
    BY <2>4, <2>6, <2>7, <2>8, <2>9 DEF PathHolds
<1>7. CASE target \notin DOMAIN p
  <2>1. path = <<>> /\ n = N /\ DOMAIN p = Reach(start, n)
    BY <1>2, <1>4, <1>5, <1>7 DEF CallerTree
  <2> QED
    BY <1>7, <2>1 DEF Reach, N, PathHolds
<1> QED
  BY <1>6, <1>7

-----------------------------------------------------------------------------
(* Names and packages.                                                       *)

\* What a cap leaves of the symbols of a set.
LEMMA CappedSymbols ==
  ASSUME graph \in Graphs, NEW S \in SUBSET Id, NEW cap \in Nat, NEW rows, rows = Capped(Ascending(S), cap)
  PROVE  /\ Cardinality(S) \in Nat /\ Len(Ascending(S)) = Cardinality(S)
         /\ rows \in Seq(S) /\ Len(rows) \in Nat /\ DOMAIN rows = 1 .. Len(rows)
         /\ \A k \in 1 .. Len(rows) : rows[k] \in S
         /\ (cap > 0 /\ S # {} => Len(rows) >= 1)
         /\ (rows = Ascending(S) => Len(rows) = Cardinality(S))
<1> DEFINE n == Cardinality(S)
           seq == Ascending(S)
<1>1. S \in SUBSET Nat /\ IsFiniteSet(S)
  BY GraphFacts, FS_Subset
<1>2. n \in Nat /\ seq \in [1 .. n -> S] /\ \A x \in S : \E k \in 1 .. n : seq[k] = x
  BY <1>1, AscendingFacts DEF Climbs
<1> HIDE DEF n, seq
<1>3. Len(seq) = n
  BY <1>2
<1>4. rows = Capped(seq, cap)
  BY DEF seq
<1>5. /\ Len(rows) = (IF n <= cap THEN n ELSE cap) /\ rows \in Seq(S)
      /\ DOMAIN rows = 1 .. Len(rows) /\ \A k \in 1 .. Len(rows) : k \in 1 .. n /\ rows[k] = seq[k]
  <2>1. Leaves(rows, S, n, seq, cap)
    BY <1>2, <1>4, CapFacts
  <2> QED
    BY <2>1 DEF Leaves
<1>6. Len(rows) \in Nat /\ \A k \in 1 .. Len(rows) : rows[k] \in S
  BY <1>2, <1>5
<1>7. S # {} => n >= 1
  BY <1>2
<1>8. cap > 0 /\ S # {} => Len(rows) >= 1
  BY <1>2, <1>5, <1>7
<1>9. rows = seq => Len(rows) = n
  BY <1>3
<1> QED
  BY <1>2, <1>3, <1>5, <1>6, <1>8, <1>9 DEF n, seq

\* What a name stands for: symbols of the graph, the exactly named ones if there are any.
LEMMA FindSymbolHolds ==
  ASSUME graph \in Graphs, NEW name, NEW rows, rows = FindSymbol(name)
  PROVE  /\ rows \in Seq(Id) /\ Len(rows) \in Nat /\ DOMAIN rows = 1 .. Len(rows)
         /\ ExactFirst(name, {rows[k] : k \in DOMAIN rows})
         /\ \A k \in 1 .. Len(rows) : rows[k] \in Id /\ ExactFirst(name, {rows[k]})
<1> DEFINE exact == {i \in Id : sym[i].qname = name}
           rungs == NameRungs(name)
           hits == {k \in DOMAIN rungs : rungs[k] # {}}
<1>1. rungs[1] = exact /\ DOMAIN rungs = 1 .. 4 /\ \A k \in 1 .. 4 : rungs[k] \subseteq Id
  BY DEF NameRungs
<1>2. rows = IF hits = {} THEN <<>> ELSE Capped(Ascending(rungs[Min(hits)]), MaxMatches)
  BY DEF FindSymbol
<1> HIDE DEF exact, rungs
<1>3. CASE hits = {}
  <2>1. rows = <<>> /\ DOMAIN rows = {} /\ Len(rows) = 0
    BY <1>2, <1>3
  <2>2. exact = {}
    BY <1>1, <1>3
  <2>3. \A S : ExactFirst(name, S)
    BY <2>2 DEF ExactFirst, exact
  <2> QED
    BY <2>1, <2>3
<1>4. CASE hits # {}
  <2>1. hits \in SUBSET Nat
    BY <1>1
  <2>2. Min(hits) \in hits /\ \A x \in hits : Min(hits) <= x
    BY <1>4, <2>1, LeastIsIn
  <2>3. PICK m \in 1 .. 4 : m = Min(hits)
    BY <1>1, <2>2
  <2>4. PICK S \in SUBSET Id : S = rungs[m]
    BY <1>1
  <2>5. exact # {} => S = exact
    <3>1. exact # {} => 1 \in hits
      BY <1>1
    <3>2. exact # {} => m = 1
      BY <2>2, <2>3, <3>1
    <3> QED
      BY <1>1, <2>4, <3>2
  <2> HIDE DEF hits
  <2>6. rows = Capped(Ascending(S), MaxMatches)
    BY <1>2, <1>4, <2>3, <2>4
  <2>7. rows \in Seq(S) /\ Len(rows) \in Nat /\ DOMAIN rows = 1 .. Len(rows) /\ \A k \in 1 .. Len(rows) : rows[k] \in S
    BY <2>6, CappedSymbols, LimitsArePositive
  <2>8. \A T : T \subseteq S => ExactFirst(name, T)
    BY <2>5 DEF ExactFirst, exact
  <2>9. {rows[k] : k \in DOMAIN rows} \subseteq S /\ \A k \in 1 .. Len(rows) : {rows[k]} \subseteq S
    BY <2>7
  <2>10. rows \in Seq(Id)
    BY <2>7
  <2> QED
    BY <2>7, <2>8, <2>9, <2>10
<1> QED
  BY <1>3, <1>4

\* The package as three parts that add up.
LEMMA PackageHolds ==
  ASSUME graph \in Graphs, NEW pkg, NEW S \in SUBSET Id, NEW r, r = PackageAnswer(pkg, S),
         LET own == {i \in Id : sym[i].pkg = pkg} IN own = {} \/ own = S
  PROVE  PackageRowsAreTrue(r)
<1> DEFINE own == {i \in Id : sym[i].pkg = pkg}
           production == {i \in S : ~ sym[i].test}
           listed == {i \in production : sym[i].exported}
           rows == Capped(Ascending(listed), MaxPkgSymbols)
<1>1. /\ r.package = pkg /\ r.rows = rows
      /\ r.unexported = Cardinality(production \ listed) /\ r.tests = Cardinality(S \ production)
      /\ r.total = IF rows = Ascending(listed) THEN 0 ELSE Cardinality(listed)
  BY DEF PackageAnswer
<1>2. production \subseteq S /\ listed \subseteq production /\ listed \in SUBSET Id
  OBVIOUS
<1>3. own = {} \/ own = S
  OBVIOUS
<1>4. \A i \in listed : sym[i].exported /\ ~ sym[i].test /\ i \in S
  OBVIOUS
<1> HIDE DEF production, listed
<1>5. /\ Len(Ascending(listed)) = Cardinality(listed) /\ Cardinality(listed) \in Nat
      /\ DOMAIN rows = 1 .. Len(rows) /\ \A k \in 1 .. Len(rows) : rows[k] \in listed
  BY <1>2, CappedSymbols, LimitsArePositive
<1>6. rows = Ascending(listed) => Len(rows) = Cardinality(listed)
  BY <1>5
<1>7. rows # Ascending(listed) => Cardinality(listed) # 0
  <2>1. PICK n \in Nat : n = Cardinality(listed)
    BY <1>5
  <2>2. Ascending(listed) \in [1 .. n -> listed]
    <3>1. listed \in SUBSET Nat /\ IsFiniteSet(listed)
      BY <1>2, GraphFacts, FS_Subset
    <3> QED
      BY <2>1, <3>1, AscendingFacts DEF Climbs
  <2>3. PICK seq, fit : seq = Ascending(listed) /\ fit = rows /\ fit = Capped(seq, MaxPkgSymbols)
    OBVIOUS
  <2>4. seq \in [1 .. n -> listed] /\ MaxPkgSymbols \in Nat
    BY <2>2, <2>3, LimitsArePositive
  <2>5. n <= MaxPkgSymbols => fit = seq
    BY <2>3, <2>4, CapFacts DEF Leaves
  <2> QED
    BY <2>1, <2>3, <2>5, LimitsArePositive
<1> HIDE DEF rows
<1>8. Cardinality(listed) = IF r.total = 0 THEN Len(r.rows) ELSE r.total
  BY <1>1, <1>6, <1>7
<1>9. Cardinality(S) = Cardinality(listed) + Cardinality(production \ listed) + Cardinality(S \ production)
  <2>1. IsFiniteSet(S) /\ IsFiniteSet(production)
    BY <1>2, GraphFacts, FS_Subset
  <2>2. S \cap production = production /\ production \cap listed = listed
    BY <1>2
  <2>3. Cardinality(S \ production) = Cardinality(S) - Cardinality(production)
    <3>1. Cardinality(S \ production) = Cardinality(S) - Cardinality(S \cap production)
      BY <2>1, FS_Difference
    <3> QED
      BY <2>2, <3>1
  <2>4. Cardinality(production \ listed) = Cardinality(production) - Cardinality(listed)
    <3>1. Cardinality(production \ listed) = Cardinality(production) - Cardinality(production \cap listed)
      BY <2>1, FS_Difference
    <3> QED
      BY <2>2, <3>1
  <2>5. Cardinality(S) \in Nat /\ Cardinality(production) \in Nat
    BY <2>1, FS_CardinalityType
  <2> QED
    BY <1>5, <2>3, <2>4, <2>5
<1>10. \A k \in DOMAIN r.rows : sym[r.rows[k]].exported /\ ~ sym[r.rows[k]].test /\ r.rows[k] \in S
  BY <1>1, <1>4, <1>5
<1>11. {i \in Id : sym[i].pkg = r.package} = own
  BY <1>1
<1> HIDE DEF own
<1>12. own # {} => /\ \A k \in DOMAIN r.rows : r.rows[k] \in own
                   /\ Cardinality(own) = (IF r.total = 0 THEN Len(r.rows) ELSE r.total) + r.unexported + r.tests
  BY <1>1, <1>3, <1>8, <1>9, <1>10
<1> QED
  BY <1>10, <1>11, <1>12 DEF PackageRowsAreTrue

\* A package that is named in full stands for something.
LEMMA OwnPackageResolves ==
  ASSUME graph \in Graphs, NEW pkg, NEW i \in Id, sym[i].pkg = pkg
  PROVE  ResolvePackage(pkg) # {}
<1> DEFINE named(cand) == {p \in Packages : p = cand \/ EndsLike(p, <<"/">> \o cand) \/ EndsLike(p, <<".">> \o cand)}
           hits == IF named(pkg) # {} THEN named(pkg) ELSE named(Dotted(pkg))
<1>1. pkg \in named(pkg)
  BY DEF Packages
<1>2. ResolvePackage(pkg) = {p \in hits : \A q \in hits : Len(p) <= Len(q)}
  BY DEF ResolvePackage
<1>3. hits # {} /\ hits \subseteq Packages
  BY <1>1
<1> HIDE DEF named, hits
<1>4. \A p \in Packages : Len(p) \in Nat
  <2> SUFFICES ASSUME NEW j \in Id PROVE Len(sym[j].pkg) \in Nat
    BY DEF Packages
  <2>1. sym[j] \in SymbolRow
    BY GraphFacts
  <2>2. sym[j].pkg \in Seq(STRING)
    BY <2>1 DEF SymbolRow
  <2> QED
    BY <2>2
<1> DEFINE lengths == {Len(p) : p \in hits}
<1>5. lengths \in SUBSET Nat /\ lengths # {}
  BY <1>3, <1>4
<1>6. PICK m \in lengths : \A k \in lengths : m <= k
  <2> HIDE DEF lengths
  <2> QED
    BY <1>5, LeastNumber
<1>7. PICK p \in hits : Len(p) = m
  BY <1>6
<1>8. \A q \in hits : Len(p) <= Len(q)
  BY <1>6, <1>7
<1> QED
  BY <1>2, <1>7, <1>8

-----------------------------------------------------------------------------
(* The answers.                                                              *)

\* AnswerIsTrue, of a given answer.
TrueAnswer(a) ==
  /\ a.reply.kind = "symbol" => SymbolIsTrue(a.request, a.reply)
  /\ a.reply.kind = "matches" => ExactFirst(a.request.name, {a.reply.matches[k] : k \in DOMAIN a.reply.matches})
  /\ a.reply.kind \in {"path", "no path"} => PathIsTrue(a.request, a.reply)
  /\ a.reply.kind = "package" => PackageRowsAreTrue(a.reply)

LEMMA RefusalKind ==
  ASSUME NEW why
  PROVE  Refusal(why).kind = why
BY DEF Refusal

LEMMA RefusalHolds ==
  ASSUME NEW why, why # "symbol", why # "matches", why # "path", why # "no path", why # "package",
         NEW a, a.reply = Refusal(why)
  PROVE  TrueAnswer(a)
<1>1. a.reply.kind = why
  BY RefusalKind
<1> QED
  BY <1>1 DEF TrueAnswer

\* The neighbours of a symbol, with their totals.
LEMMA SymbolReplyHolds ==
  ASSUME graph \in Graphs, NEW req \in Requests, NEW id \in Id, ExactFirst(req.name, {id}),
         NEW r, r = NeighborAnswer(id, req)
  PROVE  r.kind = "symbol" /\ SymbolIsTrue(req, r)
<1> DEFINE depth == Min({Max({req.depth, 1}), MaxDepth})
           none == [rows |-> <<>>, truncated |-> FALSE]
           above == IF req.dir = "down" THEN none ELSE BfsNeighbors(id, "up", depth, req.noTests)
           below == IF req.dir = "up" THEN none ELSE BfsNeighbors(id, "down", depth, req.noTests)
           split == CallerSplit(id)
           direct == {c \in Next1({id}, "up") : req.noTests => ~ sym[c].test}
           reaching == {i \in Id : \E j \in Next1({i}, "down") : j = id \/ id \in Ball(j, "down", FALSE, Len(sym))}
<1>1. req.depth \in Int /\ req.noTests \in BOOLEAN
  BY QueryAssumption
<1>2. depth \in Nat
  <2>1. Max({req.depth, 1}) \in Nat
    BY <1>1, GreatestOfTwo
  <2> QED
    BY <2>1, LeastOfTwo, LimitsArePositive
<1>3. /\ r.kind = "symbol" /\ r.id = id /\ r.depth = depth /\ r.callers = above /\ r.callees = below
      /\ r.callersTotal = (IF above.truncated /\ depth = 1
                           THEN split.total - (IF req.noTests THEN split.inTests ELSE 0) ELSE 0)
      /\ r.calleesTotal = (IF below.truncated /\ depth = 1 THEN CalleeCount(id) ELSE 0)
      /\ r.transitive = (IF sym[id].kind \in {"func", "method"} THEN TransitiveCallers(id) ELSE 0)
  BY DEF NeighborAnswer
<1> HIDE DEF depth
<1>4. req.dir # "down" => NeighborsAreTrue(above, id, "up", depth, req.noTests)
  BY <1>2, NeighborsHold
<1>5. req.dir # "up" => NeighborsAreTrue(below, id, "down", depth, req.noTests)
  BY <1>2, NeighborsHold
<1>6. r.callersTotal # 0 => r.callersTotal = Cardinality(direct) /\ r.callersTotal > MaxNeighbors
  <2> SUFFICES ASSUME r.callersTotal # 0
               PROVE  r.callersTotal = Cardinality(direct) /\ r.callersTotal > MaxNeighbors
    OBVIOUS
  <2>1. above.truncated /\ depth = 1 /\ r.callersTotal = split.total - (IF req.noTests THEN split.inTests ELSE 0)
    BY <1>3
  <2>2. r.callersTotal = Cardinality(direct)
    BY <1>1, <2>1, DirectCount
  <2>3. req.dir # "down" /\ above = BfsNeighbors(id, "up", depth, req.noTests)
    BY <2>1
  <2>4. PICK all : all = Ball(id, "up", req.noTests, 1) \ {id} /\ Cardinality(all) > MaxNeighbors
    BY <1>2, <2>1, <2>3, NeighborsHold
  <2>5. Ball(id, "up", req.noTests, 1) = {id} \cup direct
    <3>1. Ball(id, "up", req.noTests, 0 + 1) = Nearer(Ball(id, "up", req.noTests, 0), "up", req.noTests)
      BY BallNext
    <3>2. Ball(id, "up", req.noTests, 0) = {id}
      BY BallUnfolds
    <3>3. 0 + 1 = 1
      OBVIOUS
    <3>4. Ball(id, "up", req.noTests, 1) = Nearer({id}, "up", req.noTests)
      BY <3>1, <3>2, <3>3
    <3> QED
      BY <3>4 DEF Nearer
  <2>6. IsFiniteSet(direct)
    BY Adjacent, GraphFacts, FS_Subset
  <2>7. all \subseteq direct
    BY <2>4, <2>5
  <2> HIDE DEF direct
  <2>8. Cardinality(all) <= Cardinality(direct) /\ Cardinality(all) \in Nat /\ Cardinality(direct) \in Nat
    BY <2>6, <2>7, FS_Subset, FS_CardinalityType
  <2> QED
    BY <2>2, <2>4, <2>8, LimitsArePositive
<1>7. r.calleesTotal # 0 /\ ~ req.noTests => r.calleesTotal = Cardinality(Next1({id}, "down"))
  BY <1>3 DEF CalleeCount
<1>8. sym[id].kind \in {"func", "method"} => r.transitive = Min({BlastCap, Cardinality(reaching)})
  BY <1>3, TransitiveIsReach
<1> HIDE DEF above, below, split, direct, reaching
<1>9. SymbolIsTrue(req, r)
  BY <1>3, <1>4, <1>5, <1>6, <1>7, <1>8 DEF SymbolIsTrue, direct, reaching
<1> QED
  BY <1>3, <1>9

LEMMA PathReplyHolds ==
  ASSUME graph \in Graphs, NEW req \in Requests, NEW id \in Id, id = FindSymbol(req.name)[1],
         NEW a, a = [request |-> req, reply |-> PathAnswer(id, req.to)]
  PROVE  TrueAnswer(a)
<1> DEFINE targets == FindSymbol(req.to)
           path == CallPath(id, targets[1])
<1>1. a.request = req /\ a.reply = PathAnswer(id, req.to)
  OBVIOUS
<1>2. CASE targets = <<>>
  <2>1. a.reply = Refusal("no target")
    BY <1>1, <1>2 DEF PathAnswer
  <2> QED
    BY <2>1, RefusalHolds
<1>3. CASE targets # <<>> /\ Len(targets) > 1
  <2>1. a.reply = Refusal("ambiguous target")
    BY <1>1, <1>3 DEF PathAnswer
  <2> QED
    BY <2>1, RefusalHolds
<1>4. CASE targets # <<>> /\ ~(Len(targets) > 1)
  <2>1. a.reply = IF path = <<>> THEN Refusal("no path") ELSE [kind |-> "path", path |-> path]
    BY <1>1, <1>4 DEF PathAnswer
  <2>2. PathHolds(id, targets[1], path)
    BY CallPathHolds
  <2> HIDE DEF targets, path
  <2>3. CASE path = <<>>
    <3>1. a.reply.kind = "no path"
      BY <2>1, <2>3, RefusalKind
    <3>2. PathIsTrue(req, a.reply)
      BY <2>2, <2>3, <3>1 DEF PathIsTrue, PathHolds, targets
    <3> QED
      BY <1>1, <3>1, <3>2 DEF TrueAnswer
  <2>4. CASE path # <<>>
    <3>1. a.reply.kind = "path" /\ a.reply.path = path
      BY <2>1, <2>4
    <3>2. PathIsTrue(req, a.reply)
      BY <2>2, <2>4, <3>1 DEF PathIsTrue, PathHolds, targets
    <3> QED
      BY <1>1, <3>1, <3>2 DEF TrueAnswer
  <2> QED
    BY <2>3, <2>4
<1> QED
  BY <1>2, <1>3, <1>4

LEMMA SymbolAnswerHolds ==
  ASSUME graph \in Graphs, NEW req \in Requests, NEW a, a = [request |-> req, reply |-> Symbol(req)]
  PROVE  TrueAnswer(a)
<1> DEFINE rows == FindSymbol(req.name)
<1>1. a.request = req /\ a.reply = Symbol(req)
  OBVIOUS
<1>2. /\ rows \in Seq(Id) /\ Len(rows) \in Nat /\ DOMAIN rows = 1 .. Len(rows)
      /\ ExactFirst(req.name, {rows[k] : k \in DOMAIN rows})
      /\ \A k \in 1 .. Len(rows) : rows[k] \in Id /\ ExactFirst(req.name, {rows[k]})
  BY FindSymbolHolds
<1>3. a.reply = IF rows = <<>> THEN Refusal("search")
                ELSE IF Len(rows) > 1 THEN [kind |-> "matches", matches |-> rows]
                ELSE IF req.dir \notin {"up", "down", "both"} THEN Refusal("invalid direction")
                ELSE IF req.to # <<>> THEN PathAnswer(rows[1], req.to)
                ELSE NeighborAnswer(rows[1], req)
  BY <1>1 DEF Symbol
<1> HIDE DEF rows
<1>4. CASE rows = <<>>
  BY <1>3, <1>4, RefusalHolds
<1>5. CASE rows # <<>> /\ Len(rows) > 1
  <2>1. a.reply.kind = "matches" /\ a.reply.matches = rows
    BY <1>3, <1>5
  <2> QED
    BY <1>1, <1>2, <2>1 DEF TrueAnswer
<1>6. CASE rows # <<>> /\ ~(Len(rows) > 1) /\ req.dir \notin {"up", "down", "both"}
  <2>1. a.reply = Refusal("invalid direction")
    BY <1>3, <1>6
  <2> QED
    BY <2>1, RefusalHolds
<1>7. CASE rows # <<>> /\ ~(Len(rows) > 1) /\ req.dir \in {"up", "down", "both"}
  <2>1. 1 \in 1 .. Len(rows)
    BY <1>2, <1>7
  <2>2. PICK id \in Id : id = rows[1] /\ ExactFirst(req.name, {id})
    BY <1>2, <2>1
  <2>3. CASE req.to # <<>>
    <3>1. a.reply = PathAnswer(id, req.to)
      BY <1>3, <1>7, <2>2, <2>3
    <3>2. a = [request |-> req, reply |-> PathAnswer(id, req.to)]
      BY <1>1, <3>1
    <3> QED
      BY <2>2, <3>2, PathReplyHolds DEF rows
  <2>4. CASE req.to = <<>>
    <3>1. a.reply = NeighborAnswer(id, req)
      BY <1>3, <1>7, <2>2, <2>4
    <3>2. a.reply.kind = "symbol" /\ SymbolIsTrue(req, a.reply)
      BY <2>2, <3>1, SymbolReplyHolds
    <3> QED
      BY <1>1, <3>2 DEF TrueAnswer
  <2> QED
    BY <2>3, <2>4
<1> QED
  BY <1>4, <1>5, <1>6, <1>7

LEMMA PackageReplyHolds ==
  ASSUME graph \in Graphs, NEW a, NEW pkg, NEW S \in SUBSET Id, a.reply = PackageAnswer(pkg, S),
         LET own == {i \in Id : sym[i].pkg = pkg} IN own = {} \/ own = S
  PROVE  TrueAnswer(a)
<1>1. a.reply.kind = "package"
  BY DEF PackageAnswer
<1>2. PackageRowsAreTrue(a.reply)
  BY PackageHolds
<1> QED
  BY <1>1, <1>2 DEF TrueAnswer

LEMMA PackageAnswerHolds ==
  ASSUME graph \in Graphs, NEW pkg, AskPackage(pkg)
  PROVE  TrueAnswer(answer')
<1> DEFINE resolved == ResolvePackage(pkg)
           below == PackageDirWhere(pkg)
<1> USE DEF AskPackage
<1>1. CASE resolved # {}
  <2>1. PICK p \in resolved :
          answer' = [request |-> [package |-> pkg], reply |-> PackageAnswer(p, {i \in Id : sym[i].pkg = p})]
    BY <1>1
  <2>2. PICK own, a : own = {i \in Id : sym[i].pkg = p} /\ a = answer'
    OBVIOUS
  <2>3. a.reply = PackageAnswer(p, own) /\ own \in SUBSET Id
    BY <2>1, <2>2
  <2>4. TrueAnswer(a)
    BY <2>2, <2>3, PackageReplyHolds
  <2> QED
    BY <2>2, <2>4
<1>2. CASE resolved = {} /\ below = {}
  <2>0. answer' = [request |-> [package |-> pkg], reply |-> Refusal("no package")]
    BY <1>2
  <2>1. PICK a : a = answer'
    OBVIOUS
  <2>3. a.reply = Refusal("no package")
    BY <2>0, <2>1
  <2>2. TrueAnswer(a)
    BY <2>3, RefusalHolds
  <2> QED
    BY <2>1, <2>2
<1>3. CASE resolved = {} /\ below # {}
  <2>0. answer' = [request |-> [package |-> pkg], reply |-> PackageAnswer(pkg, below)]
    BY <1>3
  <2>1. PICK a : a = answer'
    OBVIOUS
  <2>5. a.reply = PackageAnswer(pkg, below)
    BY <2>0, <2>1
  <2>2. below \in SUBSET Id
    BY DEF PackageDirWhere
  <2>3. {i \in Id : sym[i].pkg = pkg} = {}
    BY <1>3, OwnPackageResolves
  <2>4. TrueAnswer(a)
    BY <2>2, <2>3, <2>5, PackageReplyHolds
  <2> QED
    BY <2>1, <2>4
<1> QED
  BY <1>1, <1>2, <1>3

\* The graph does not change, and so neither does what is true of it.
LEMMA TruthStays ==
  ASSUME graph' = graph, NEW CONSTANT req, NEW CONSTANT r, NEW CONSTANT S
  PROVE  /\ SymbolIsTrue(req, r)' = SymbolIsTrue(req, r)
         /\ ExactFirst(req, S)' = ExactFirst(req, S)
         /\ PathIsTrue(req, r)' = PathIsTrue(req, r)
         /\ PackageRowsAreTrue(r)' = PackageRowsAreTrue(r)
<1>1. SymbolIsTrue(req, r)' = SymbolIsTrue(req, r)
  BY DEF Id, sym, SymbolIsTrue, Next1, Nearer, Ball, Shortest, NeighborsAreTrue, ExactFirst
<1>2. ExactFirst(req, S)' = ExactFirst(req, S)
  BY DEF Id, sym, ExactFirst
<1>3. PathIsTrue(req, r)' = PathIsTrue(req, r)
  BY DEF Id, sym, FindSymbol, NameRungs, PathIsTrue, Next1, Nearer, Ball, Shortest
<1>4. PackageRowsAreTrue(r)' = PackageRowsAreTrue(r)
  BY DEF Id, sym, PackageRowsAreTrue
<1> QED
  BY <1>1, <1>2, <1>3, <1>4

LEMMA AnswerStays ==
  ASSUME graph' = graph, TrueAnswer(answer')
  PROVE  AnswerIsTrue'
BY TruthStays DEF TrueAnswer, AnswerIsTrue

LEMMA QueryStep ==
  ASSUME graph \in Graphs, QueryNext
  PROVE  (graph \in Graphs)' /\ AnswerIsTrue'
<1>1. CASE answer = NoAnswer
  <2>1. ASSUME NEW req \in Requests, AskSymbol(req) PROVE (graph \in Graphs)' /\ AnswerIsTrue'
    <3>1. graph' = graph
      BY <2>1 DEF AskSymbol
    <3>2. PICK a : a = answer' /\ a = [request |-> req, reply |-> Symbol(req)]
      BY <2>1 DEF AskSymbol
    <3>3. TrueAnswer(a)
      BY <3>2, SymbolAnswerHolds
    <3> QED
      BY <3>1, <3>2, <3>3, AnswerStays
  <2>2. ASSUME NEW name \in PackageNames, AskPackage(name) PROVE (graph \in Graphs)' /\ AnswerIsTrue'
    <3>1. graph' = graph
      BY <2>2 DEF AskPackage
    <3>2. TrueAnswer(answer')
      BY <2>2, PackageAnswerHolds
    <3> QED
      BY <3>1, <3>2, AnswerStays
  <2> QED
    BY <1>1, <2>1, <2>2 DEF QueryNext
<1>2. CASE answer # NoAnswer
  <2>1. answer' = NoAnswer /\ graph' = graph
    BY <1>2 DEF QueryNext
  <2>2. AnswerIsTrue'
    BY <2>1 DEF AnswerIsTrue, NoAnswer
  <2> QED
    BY <2>1, <2>2
<1> QED
  BY <1>1, <1>2

\* Whatever graph.db holds, and whatever is asked of it, the answer says what it holds
\* (graph_symbol and graph_package, query.go).
THEOREM QueryAnswerIsTrue == QuerySpec => []AnswerIsTrue
<1> DEFINE Inv == graph \in Graphs /\ AnswerIsTrue
<1>1. QueryInit => Inv
  BY DEF QueryInit, AnswerIsTrue
<1>2. Inv /\ [QueryNext]_queryVars => Inv'
  <2> SUFFICES ASSUME Inv, [QueryNext]_queryVars PROVE Inv'
    OBVIOUS
  <2>1. CASE QueryNext
    BY <2>1, QueryStep
  <2>2. CASE UNCHANGED queryVars
    <3>1. graph' = graph /\ answer' = answer
      BY <2>2 DEF queryVars
    <3>2. CASE answer = NoAnswer
      BY <3>1, <3>2 DEF AnswerIsTrue, NoAnswer
    <3>3. CASE answer # NoAnswer
      <4>1. PICK a : a = answer' /\ TrueAnswer(a)
        BY <3>1, <3>3 DEF AnswerIsTrue, TrueAnswer
      <4> QED
        BY <3>1, <4>1, AnswerStays
    <3> QED
      BY <3>1, <3>2, <3>3
  <2> QED
    BY <2>1, <2>2
<1>3. Inv => AnswerIsTrue
  OBVIOUS
<1> QED
  BY <1>1, <1>2, <1>3, PTL DEF QuerySpec

(***************************************************************************)
(* IndexBuild                                                              *)
(***************************************************************************)

\* Of the numbers that fail the first.
LEMMA FirstBad ==
  ASSUME NEW n \in Nat, NEW S \in SUBSET (1 .. n), S # {}
  PROVE  \E k \in 1 .. n : k \in S /\ \A j \in 1 .. n : j < k => j \notin S
<1>1. S \in SUBSET Nat
  OBVIOUS
<1>2. PICK k \in S : \A j \in S : k <= j
  BY <1>1, LeastNumber
<1>3. k \in 1 .. n /\ \A j \in 1 .. n : j < k => j \notin S
  BY <1>2
<1> QED
  BY <1>2, <1>3

\* The rows of several files one after the other.
Strung(F, seqs) ==
  /\ F[1] = seqs[1]
  /\ \A k \in 1 .. Len(seqs) : k # 1 => F[k] = F[k - 1] \o seqs[k]

LEMMA FlattenUnfolds ==
  ASSUME NEW X, NEW seqs \in Seq(Seq(X)), Len(seqs) # 0
  PROVE  \E F \in [1 .. Len(seqs) -> Seq(X)] : Strung(F, seqs) /\ FlattenSeq(seqs) = F[Len(seqs)]
<1> DEFINE n == Len(seqs)
           step == [p \in Nat \X Seq(X) |-> IF p[1] \in 1 .. n THEN p[2] \o seqs[p[1]] ELSE p[2]]
           R(F) == [k \in 1 .. n |-> IF k = 1 THEN seqs[k] ELSE F[k - 1] \o seqs[k]]
           f == CHOOSE F : F = R(F)
<1>1. n \in Nat /\ n # 0 /\ \A k \in 1 .. n : seqs[k] \in Seq(X)
  OBVIOUS
<1>2. PICK h \in [Nat -> Seq(X)] : Recurs(h, <<>>, step)
  <2>1. step \in [Nat \X Seq(X) -> Seq(X)] /\ <<>> \in Seq(X)
    BY <1>1
  <2> HIDE DEF step
  <2> QED
    BY <2>1, RecursionHolds
<1>3. h[0] = <<>> /\ \A k \in 1 .. n : h[k] = h[k - 1] \o seqs[k]
  <2>1. ASSUME NEW k \in 1 .. n PROVE h[k] = h[k - 1] \o seqs[k]
    <3>1. k \in Nat /\ k # 0 /\ k - 1 \in Nat
      OBVIOUS
    <3>2. h[k - 1] \in Seq(X)
      BY <3>1
    <3>3. h[k] = step[<<k, h[k - 1]>>]
      BY <1>2, <3>1 DEF Recurs
    <3> QED
      BY <3>1, <3>2, <3>3
  <2> QED
    BY <1>2, <2>1 DEF Recurs
<1>4. PICK g : g = [k \in 1 .. n |-> h[k]]
  OBVIOUS
<1>5. g = R(g)
  <2>1. ASSUME NEW k \in 1 .. n
        PROVE  g[k] = IF k = 1 THEN seqs[k] ELSE g[k - 1] \o seqs[k]
    <3>1. CASE k = 1
      <4>0. 1 \in 1 .. n /\ 1 - 1 = 0
        BY <1>1
      <4>1. h[1] = h[0] \o seqs[1]
        BY <1>3, <4>0
      <4>2. h[1] = seqs[1]
        BY <1>1, <1>3, <4>0, <4>1
      <4> QED
        BY <1>1, <1>4, <3>1, <4>2
    <3>2. CASE k # 1
      <4>1. k - 1 \in 1 .. n
        BY <1>1, <3>2
      <4> QED
        BY <1>3, <1>4, <3>2, <4>1
    <3> QED
      BY <3>1, <3>2
  <2> QED
    BY <1>4, <2>1
<1>6. f = R(f)
  <2> HIDE DEF R
  <2> QED
    BY <1>5
<1>7. FlattenSeq(seqs) = f[n]
  BY DEF FlattenSeq
<1>8. Strung(f, seqs)
  <2> HIDE DEF f
  <2>1. \A k \in 1 .. n : f[k] = IF k = 1 THEN seqs[k] ELSE f[k - 1] \o seqs[k]
    BY <1>6
  <2>2. 1 \in 1 .. n
    BY <1>1
  <2> HIDE DEF R
  <2> QED
    BY <2>1, <2>2 DEF Strung
<1>9. \A k \in 1 .. n : f[k] \in Seq(X)
  <2> HIDE DEF f
  <2> DEFINE Bad == {k \in 1 .. n : f[k] \notin Seq(X)}
  <2> SUFFICES ASSUME Bad # {} PROVE FALSE
    OBVIOUS
  <2>1. PICK k \in 1 .. n : k \in Bad /\ \A j \in 1 .. n : j < k => j \notin Bad
    <3>1. Bad \in SUBSET (1 .. n)
      OBVIOUS
    <3> HIDE DEF Bad
    <3> QED
      BY <1>1, <3>1, FirstBad
  <2>2. f[k] \notin Seq(X)
    BY <2>1
  <2>3. k # 1
    BY <1>1, <1>8, <2>2 DEF Strung
  <2>4. k - 1 \in 1 .. n /\ k - 1 < k
    BY <2>3
  <2>5. f[k - 1] \in Seq(X)
    BY <2>1, <2>4
  <2>6. f[k] = f[k - 1] \o seqs[k] /\ seqs[k] \in Seq(X)
    BY <1>1, <1>8, <2>3 DEF Strung
  <2> QED
    BY <2>2, <2>5, <2>6
<1>10. f \in [1 .. n -> Seq(X)]
  <2> HIDE DEF f
  <2>1. DOMAIN f = 1 .. n /\ f = [k \in DOMAIN f |-> f[k]]
    BY <1>6
  <2> QED
    BY <1>9, <2>1
<1> HIDE DEF f
<1> QED
  BY <1>7, <1>8, <1>10

\* What stands at the beginning and is not picked does not matter.
LEMMA HeldOfTail ==
  ASSUME NEW X, NEW s \in Seq(X), NEW t \in Seq(X), NEW E, HoldsNone(s, E), NEW u, Joins(u, s, t)
  PROVE  Held(u, E) = Held(t, E)
<1> DEFINE A == Holding(t, DOMAIN t, E)
           B == Holding(u, DOMAIN u, E)
           h == [k \in A |-> Len(s) + k]
<1>1. /\ DOMAIN u = 1 .. Len(s) + Len(t) /\ DOMAIN s = 1 .. Len(s) /\ DOMAIN t = 1 .. Len(t)
      /\ Len(s) \in Nat /\ Len(t) \in Nat
      /\ \A k \in 1 .. Len(s) : u[k] = s[k]
      /\ \A k \in 1 .. Len(t) : u[Len(s) + k] = t[k] /\ Len(s) + k \in DOMAIN u
      /\ \A k \in Len(s) + 1 .. Len(s) + Len(t) : k - Len(s) \in 1 .. Len(t) /\ Len(s) + (k - Len(s)) = k
  BY DEF Joins
<1>2. A \in SUBSET Nat /\ A \subseteq 1 .. Len(t) /\ IsFiniteSet(A) /\ B \in SUBSET Nat
  BY <1>1, UpTo, FS_Subset DEF Holding
<1>3. \A k \in A : Len(s) + k \in B
  BY <1>1 DEF Holding
<1>4. \A x \in B : x - Len(s) \in A /\ Len(s) + (x - Len(s)) = x
  <2> TAKE x \in B
  <2>1. x \in DOMAIN u /\ u[x] \in E
    BY DEF Holding
  <2>2. x \in 1 .. Len(s) \/ x \in Len(s) + 1 .. Len(s) + Len(t)
    BY <1>1, <2>1
  <2>3. x \in Len(s) + 1 .. Len(s) + Len(t)
    BY <1>1, <2>1, <2>2 DEF HoldsNone
  <2>4. t[x - Len(s)] = u[x]
    BY <1>1, <2>3
  <2> QED
    BY <1>1, <2>1, <2>3, <2>4 DEF Holding
<1> HIDE DEF A, B
<1>5. Moves(h, A, B)
  <2>1. \A j, k \in A : j < k => Len(s) + j < Len(s) + k
    BY <1>1, <1>2
  <2> QED
    BY <1>3, <1>4, <2>1 DEF Moves
<1>6. \A k \in A : t[k] = u[h[k]]
  BY <1>1, <1>2
<1> HIDE DEF h
<1>7. Pick(t, A) = Pick(u, B)
  <2>1. PICK v : v = u
    OBVIOUS
  <2>2. \A k \in A : t[k] = v[h[k]]
    BY <1>6, <2>1
  <2>3. Pick(t, A) = Pick(v, B)
    BY <1>2, <1>5, <2>2, SamePick
  <2> QED
    BY <2>1, <2>3
<1> QED
  BY <1>7 DEF A, B, Held

\* What only one of them holds is in the whole as it is in that one.
HeldBy(s, part, E, before) == IF before THEN HoldsNone(s, E) ELSE Held(s, E) = Held(part, E)

LEMMA HeldOfFlat ==
  ASSUME NEW X, NEW seqs \in Seq(Seq(X)), NEW E, NEW j \in DOMAIN seqs,
         \A k \in DOMAIN seqs \ {j} : HoldsNone(seqs[k], E),
         NEW u, u = FlattenSeq(seqs)
  PROVE  Held(u, E) = Held(seqs[j], E)
<1> DEFINE n == Len(seqs)
<1>1. n \in Nat /\ n # 0 /\ DOMAIN seqs = 1 .. n /\ \A k \in 1 .. n : seqs[k] \in Seq(X)
  OBVIOUS
<1>2. PICK F \in [1 .. n -> Seq(X)] : Strung(F, seqs) /\ u = F[n]
  BY <1>1, FlattenUnfolds
<1> DEFINE Bad == {k \in 1 .. n : ~ HeldBy(F[k], seqs[j], E, k < j)}
<1>3. ASSUME Bad # {} PROVE FALSE
  <2>1. PICK k \in 1 .. n : k \in Bad /\ \A i \in 1 .. n : i < k => i \notin Bad
    <3>1. Bad \in SUBSET (1 .. n)
      OBVIOUS
    <3> HIDE DEF Bad
    <3> QED
      BY <1>1, <1>3, <3>1, FirstBad
  <2>2. ~ HeldBy(F[k], seqs[j], E, k < j) /\ j \in 1 .. n
    BY <1>1, <2>1
  <2>3. CASE k = 1
    <3>1. F[k] = seqs[k]
      BY <1>2, <2>3 DEF Strung
    <3>2. k < j => k \in DOMAIN seqs \ {j}
      BY <1>1
    <3>3. ~(k < j) => k = j
      BY <2>2, <2>3
    <3> QED
      BY <2>2, <3>1, <3>2, <3>3 DEF HeldBy
  <2>4. CASE k # 1
    <3>1. k - 1 \in 1 .. n /\ k - 1 < k
      BY <2>4
    <3>2. HeldBy(F[k - 1], seqs[j], E, k - 1 < j)
      BY <2>1, <3>1
    <3>3. PICK a, b, c : a = F[k - 1] /\ b = seqs[k] /\ c = F[k]
      OBVIOUS
    <3>4. a \in Seq(X) /\ b \in Seq(X) /\ Joins(c, a, b)
      BY <1>1, <1>2, <2>4, <3>1, <3>3 DEF Strung, Joins
    <3>5. CASE k < j
      <4>1. k - 1 < j /\ k \in DOMAIN seqs \ {j}
        BY <1>1, <2>2, <3>5
      <4>2. HoldsNone(a, E) /\ HoldsNone(b, E)
        BY <3>2, <3>3, <4>1 DEF HeldBy
      <4>3. HoldsNone(c, E)
        BY <3>4, <4>2 DEF HoldsNone, Joins
      <4> QED
        BY <2>2, <3>3, <3>5, <4>3 DEF HeldBy
    <3>6. CASE k = j
      <4>1. k - 1 < j /\ ~(k < j)
        BY <2>2, <3>6
      <4>2. HoldsNone(a, E)
        BY <3>2, <3>3, <4>1 DEF HeldBy
      <4>4. Held(c, E) = Held(b, E)
        BY <3>4, <4>2, HeldOfTail
      <4> QED
        BY <2>2, <3>3, <3>6, <4>1, <4>4 DEF HeldBy
    <3>7. CASE k > j
      <4>1. ~(k - 1 < j) /\ ~(k < j) /\ k \in DOMAIN seqs \ {j}
        BY <1>1, <2>2, <3>7
      <4>2. Held(a, E) = Held(seqs[j], E) /\ HoldsNone(b, E)
        BY <3>2, <3>3, <4>1 DEF HeldBy
      <4>4. Held(c, E) = Held(a, E)
        BY <3>4, <4>2, HeldOfConcat
      <4> QED
        BY <2>2, <3>3, <4>1, <4>2, <4>4 DEF HeldBy
    <3> QED
      BY <2>2, <3>5, <3>6, <3>7
  <2> QED
    BY <2>3, <2>4
<1>4. n \in 1 .. n /\ ~(n < j)
  BY <1>1
<1>5. HeldBy(F[n], seqs[j], E, n < j)
  BY <1>3, <1>4
<1> QED
  BY <1>2, <1>4, <1>5 DEF HeldBy

\* The elements of the whole are those of the parts.
Above(s, k, seqs) == \A i \in DOMAIN s : \E p \in 1 .. k : \E m \in DOMAIN seqs[p] : s[i] = seqs[p][m]
Below(s, k, seqs) == \A p \in 1 .. k : \A m \in DOMAIN seqs[p] : \E i \in DOMAIN s : s[i] = seqs[p][m]

Spreads(u, X, seqs) ==
  /\ u \in Seq(X)
  /\ \A i \in DOMAIN u : \E k \in DOMAIN seqs : \E m \in DOMAIN seqs[k] : u[i] = seqs[k][m]
  /\ \A k \in DOMAIN seqs : \A m \in DOMAIN seqs[k] : \E i \in DOMAIN u : u[i] = seqs[k][m]

LEMMA FlatElements ==
  ASSUME NEW X, NEW seqs \in Seq(Seq(X)), NEW u, u = FlattenSeq(seqs)
  PROVE  Spreads(u, X, seqs)
<1> DEFINE n == Len(seqs)
<1>1. n \in Nat /\ DOMAIN seqs = 1 .. n /\ \A k \in 1 .. n : seqs[k] \in Seq(X)
  OBVIOUS
<1>2. CASE n = 0
  <2>1. u = <<>>
    BY <1>2 DEF FlattenSeq
  <2> QED
    BY <1>1, <1>2, <2>1 DEF Spreads
<1>3. CASE n # 0
  <2>1. PICK F \in [1 .. n -> Seq(X)] : Strung(F, seqs) /\ u = F[n]
    BY <1>3, FlattenUnfolds
  <2> DEFINE Bad == {k \in 1 .. n : ~ (Above(F[k], k, seqs) /\ Below(F[k], k, seqs))}
  <2>2. ASSUME Bad # {} PROVE FALSE
    <3>1. PICK k \in 1 .. n : k \in Bad /\ \A i \in 1 .. n : i < k => i \notin Bad
      <4>1. Bad \in SUBSET (1 .. n)
        OBVIOUS
      <4> HIDE DEF Bad
      <4> QED
        BY <1>1, <2>2, <4>1, FirstBad
    <3>0. ~ (Above(F[k], k, seqs) /\ Below(F[k], k, seqs))
      BY <3>1
    <3>2. CASE k = 1
      <4>1. F[1] = seqs[1] /\ \A p \in 1 .. 1 : p = 1
        BY <2>1 DEF Strung
      <4> QED
        BY <3>0, <3>2, <4>1 DEF Above, Below
    <3>3. CASE k # 1
      <4>1. k - 1 \in 1 .. n /\ k - 1 < k
        BY <3>3
      <4>2. Above(F[k - 1], k - 1, seqs) /\ Below(F[k - 1], k - 1, seqs)
        BY <3>1, <4>1
      <4>3. PICK a, b, c : a = F[k - 1] /\ b = seqs[k] /\ c = F[k]
        OBVIOUS
      <4>4. a \in Seq(X) /\ b \in Seq(X) /\ c = a \o b
        BY <1>1, <2>1, <3>3, <4>1, <4>3 DEF Strung
      <4>5. /\ \A i \in DOMAIN c : (\E q \in DOMAIN a : c[i] = a[q]) \/ (\E q \in DOMAIN b : c[i] = b[q])
            /\ \A q \in DOMAIN a : \E i \in DOMAIN c : c[i] = a[q]
            /\ \A q \in DOMAIN b : \E i \in DOMAIN c : c[i] = b[q]
        <5>1. ASSUME NEW i \in DOMAIN c
              PROVE  (\E q \in DOMAIN a : c[i] = a[q]) \/ (\E q \in DOMAIN b : c[i] = b[q])
          <6>1. CASE i <= Len(a)
            <7>1. i \in DOMAIN a /\ c[i] = a[i]
              BY <4>4, <6>1
            <7> QED
              BY <7>1
          <6>2. CASE i > Len(a)
            <7>1. i - Len(a) \in DOMAIN b /\ c[i] = b[i - Len(a)]
              BY <4>4, <6>2
            <7> QED
              BY <7>1
          <6> QED
            BY <4>4, <6>1, <6>2
        <5>2. ASSUME NEW q \in DOMAIN a PROVE \E i \in DOMAIN c : c[i] = a[q]
          <6>1. q \in DOMAIN c /\ c[q] = a[q]
            BY <4>4
          <6> QED
            BY <6>1
        <5>3. ASSUME NEW q \in DOMAIN b PROVE \E i \in DOMAIN c : c[i] = b[q]
          <6>1. Len(a) + q \in DOMAIN c /\ c[Len(a) + q] = b[q]
            BY <4>4
          <6> QED
            BY <6>1
        <5> QED
          BY <5>1, <5>2, <5>3
      <4>6. \A p \in 1 .. k - 1 : p \in 1 .. k
        BY <4>1
      <4>7. \A p \in 1 .. k : p \in 1 .. k - 1 \/ p = k
        BY <4>1
      <4>8. Above(c, k, seqs)
        <5> SUFFICES ASSUME NEW i \in DOMAIN c
                     PROVE  \E p \in 1 .. k : \E m \in DOMAIN seqs[p] : c[i] = seqs[p][m]
          BY DEF Above
        <5>1. ASSUME NEW q \in DOMAIN a, c[i] = a[q]
              PROVE  \E p \in 1 .. k : \E m \in DOMAIN seqs[p] : c[i] = seqs[p][m]
          <6>1. PICK p \in 1 .. k - 1 : \E m \in DOMAIN seqs[p] : a[q] = seqs[p][m]
            BY <4>2, <4>3 DEF Above
          <6> QED
            BY <4>6, <5>1, <6>1
        <5>2. ASSUME NEW q \in DOMAIN b, c[i] = b[q]
              PROVE  \E p \in 1 .. k : \E m \in DOMAIN seqs[p] : c[i] = seqs[p][m]
          <6>1. k \in 1 .. k
            OBVIOUS
          <6> QED
            BY <4>3, <5>2, <6>1
        <5> QED
          BY <4>5, <5>1, <5>2
      <4>9. Below(c, k, seqs)
        <5> SUFFICES ASSUME NEW p \in 1 .. k, NEW m \in DOMAIN seqs[p]
                     PROVE  \E i \in DOMAIN c : c[i] = seqs[p][m]
          BY DEF Below
        <5>1. CASE p = k
          BY <4>3, <4>5, <5>1
        <5>2. CASE p \in 1 .. k - 1
          <6>1. PICK q \in DOMAIN a : a[q] = seqs[p][m]
            BY <4>2, <4>3, <5>2 DEF Below
          <6> QED
            BY <4>5, <6>1
        <5> QED
          BY <4>7, <5>1, <5>2
      <4> QED
        BY <3>0, <4>3, <4>8, <4>9
    <3> QED
      BY <3>2, <3>3
  <2>3. n \in 1 .. n /\ n \notin Bad
    BY <1>1, <1>3, <2>2
  <2>4. Above(u, n, seqs) /\ Below(u, n, seqs)
    BY <2>1, <2>3
  <2>5. u \in Seq(X)
    BY <2>1, <2>3
  <2>8. DOMAIN seqs = 1 .. n
    BY <1>1
  <2>6. \A i \in DOMAIN u : \E k \in DOMAIN seqs : \E m \in DOMAIN seqs[k] : u[i] = seqs[k][m]
    <3> TAKE i \in DOMAIN u
    <3>1. PICK p \in 1 .. n : \E m \in DOMAIN seqs[p] : u[i] = seqs[p][m]
      BY <2>4 DEF Above
    <3> QED
      BY <2>8, <3>1
  <2>7. \A k \in DOMAIN seqs : \A m \in DOMAIN seqs[k] : \E i \in DOMAIN u : u[i] = seqs[k][m]
    BY <1>1, <2>4 DEF Below
  <2> QED
    BY <2>5, <2>6, <2>7 DEF Spreads
<1> QED
  BY <1>2, <1>3

-----------------------------------------------------------------------------
(* Each element once.                                                        *)

Firsts(seq) == {k \in DOMAIN seq : \A j \in 1 .. k - 1 : seq[j] # seq[k]}

LEMMA DistinctIs ==
  ASSUME NEW seq
  PROVE  Distinct(seq) = Pick(seq, Firsts(seq))
BY DEF Distinct, Firsts

OnceEachOf(D, X, seq) ==
  /\ D \in Seq(X)
  /\ \A j, k \in DOMAIN D : D[j] = D[k] => j = k
  /\ \A x : (\E k \in DOMAIN D : D[k] = x) <=> (\E k \in DOMAIN seq : seq[k] = x)

\* A pass over different elements.
LEMMA PickedOnce ==
  ASSUME NEW X, NEW seq \in Seq(X), NEW S \in SUBSET DOMAIN seq, \A j, k \in S : seq[j] = seq[k] => j = k,
         NEW M, M = Pick(seq, S)
  PROVE  \A j, k \in DOMAIN M : M[j] = M[k] => j = k
<1> DEFINE n == Cardinality(S)
           f == Ascending(S)
<1>1. Climbs(f, n, S) /\ DOMAIN M = 1 .. n /\ \A k \in 1 .. n : f[k] \in S /\ M[k] = seq[f[k]]
  BY PickFacts
<1> HIDE DEF f, n
<1> SUFFICES ASSUME NEW j \in 1 .. n, NEW k \in 1 .. n, M[j] = M[k] PROVE j = k
  BY <1>1
<1>2. f[j] = f[k]
  BY <1>1
<1>3. \A x \in S : x \in Nat
  OBVIOUS
<1>4. j < k => f[j] < f[k]
  BY <1>1 DEF Climbs
<1>5. k < j => f[k] < f[j]
  BY <1>1 DEF Climbs
<1>6. f[j] \in Nat /\ j \in Nat /\ k \in Nat
  <2>1. f[j] \in S /\ n \in Nat
    BY <1>1 DEF Climbs
  <2> QED
    BY <1>3, <2>1
<1> QED
  BY <1>2, <1>4, <1>5, <1>6

LEMMA DistinctFacts ==
  ASSUME NEW X, NEW seq \in Seq(X)
  PROVE  OnceEachOf(Distinct(seq), X, seq)
<1>0. PICK D : D = Distinct(seq)
  OBVIOUS
<1> DEFINE S == Firsts(seq)
<1>1. S \in SUBSET DOMAIN seq /\ DOMAIN seq = 1 .. Len(seq) /\ Len(seq) \in Nat
  BY DEF Firsts
<1>2. D = Pick(seq, S)
  BY <1>0, DistinctIs
<1>3. \A j, k \in S : seq[j] = seq[k] => j = k
  <2> SUFFICES ASSUME NEW j \in S, NEW k \in S, seq[j] = seq[k] PROVE j = k
    OBVIOUS
  <2>1. j \in Nat /\ k \in Nat /\ j >= 1 /\ k >= 1
    BY <1>1
  <2>2. ~ (j < k)
    <3>1. j < k => j \in 1 .. k - 1
      BY <2>1
    <3> QED
      BY <3>1 DEF Firsts
  <2>3. ~ (k < j)
    <3>1. k < j => k \in 1 .. j - 1
      BY <2>1
    <3> QED
      BY <3>1 DEF Firsts
  <2> QED
    BY <2>1, <2>2, <2>3
<1>4. \A k \in DOMAIN seq : \E j \in S : seq[j] = seq[k]
  <2> SUFFICES ASSUME NEW k \in DOMAIN seq PROVE \E j \in S : seq[j] = seq[k]
    OBVIOUS
  <2> DEFINE P == {j \in 1 .. Len(seq) : seq[j] = seq[k]}
  <2>1. PICK j \in 1 .. Len(seq) : j \in P /\ \A i \in 1 .. Len(seq) : i < j => i \notin P
    <3>1. P \in SUBSET (1 .. Len(seq)) /\ k \in P
      BY <1>1
    <3> HIDE DEF P
    <3> QED
      BY <1>1, <3>1, FirstBad
  <2>2. \A i \in 1 .. j - 1 : i \in 1 .. Len(seq) /\ i < j
    BY <1>1
  <2> QED
    BY <1>1, <2>1, <2>2 DEF Firsts
<1> HIDE DEF S
<1>5. D \in Seq(X) /\ Draws(D, seq, S)
  BY <1>1, <1>2, PickFacts, PickElements
<1>6. \A j, k \in DOMAIN D : D[j] = D[k] => j = k
  BY <1>1, <1>2, <1>3, PickedOnce
<1>7. \A x : (\E k \in DOMAIN D : D[k] = x) <=> (\E k \in DOMAIN seq : seq[k] = x)
  BY <1>1, <1>4, <1>5 DEF Draws
<1> QED
  BY <1>0, <1>5, <1>6, <1>7 DEF OnceEachOf

LEMMA DistinctTwice ==
  ASSUME NEW X, NEW seq \in Seq(X), \A j, k \in DOMAIN seq : seq[j] = seq[k] => j = k
  PROVE  Distinct(seq) = seq
<1>1. Firsts(seq) = DOMAIN seq
  <2>1. ASSUME NEW k \in DOMAIN seq, NEW j \in 1 .. k - 1
        PROVE  seq[j] # seq[k]
    <3>1. j \in DOMAIN seq /\ j # k
      OBVIOUS
    <3> QED
      BY <3>1
  <2> QED
    BY <2>1 DEF Firsts
<1> QED
  BY <1>1, DistinctIs, PickAll

\* Its length is the number of elements.
LEMMA DistinctCounts ==
  ASSUME NEW X, NEW seq \in Seq(X)
  PROVE  Len(Distinct(seq)) = Cardinality(ToSet(seq))
<1>1. PICK D : D = Distinct(seq)
  OBVIOUS
<1>2. /\ D \in Seq(X)
      /\ \A j, k \in DOMAIN D : D[j] = D[k] => j = k
      /\ \A x : (\E k \in DOMAIN D : D[k] = x) <=> (\E k \in DOMAIN seq : seq[k] = x)
  <2>1. OnceEachOf(Distinct(seq), X, seq)
    BY DistinctFacts
  <2>2. OnceEachOf(D, X, seq)
    BY <1>1, <2>1
  <2> QED
    BY <2>2 DEF OnceEachOf
<1> DEFINE n == Len(D)
<1>3. DOMAIN D = 1 .. n /\ n \in Nat
  BY <1>2
<1>4. ToSet(seq) = {D[k] : k \in 1 .. n}
  <2>1. \A x : x \in ToSet(seq) <=> \E k \in DOMAIN seq : seq[k] = x
    BY DEF ToSet
  <2>2. \A x : x \in {D[k] : k \in 1 .. n} <=> \E k \in DOMAIN D : D[k] = x
    BY <1>3
  <2> QED
    BY <1>2, <2>1, <2>2
<1>5. D \in Injection(1 .. n, ToSet(seq)) /\ D \in Surjection(1 .. n, ToSet(seq))
  <2>1. D = [k \in 1 .. n |-> D[k]]
    BY <1>2
  <2>2. D \in [1 .. n -> ToSet(seq)]
    BY <1>4, <2>1
  <2>3. D \in Injection(1 .. n, ToSet(seq))
    BY <1>2, <1>3, <2>2, Fun_IsInj
  <2> QED
    BY <1>4, <2>2, <2>3 DEF Surjection
<1>6. IsFiniteSet(1 .. n) /\ Cardinality(1 .. n) = n
  BY <1>3, UpTo
<1> QED
  BY <1>1, <1>5, <1>6, FS_Surjection

\* What a pass keeps of the elements once each is what it keeps, each once.
LEMMA DistinctOfHeld ==
  ASSUME NEW X, NEW seq \in Seq(X), NEW E
  PROVE  Held(Distinct(seq), E) = Distinct(Held(seq, E))
<1> DEFINE D == Firsts(seq)
           H == Holding(seq, DOMAIN seq, E)
           T == Holding(seq, D, E)
           M == Pick(seq, H)
           n == Cardinality(H)
           f == Ascending(H)
           C == Firsts(M)
<1>1. D \in SUBSET DOMAIN seq /\ H \in SUBSET DOMAIN seq /\ T \in SUBSET H /\ T \in SUBSET D
  BY DEF Firsts, Holding
<1>2. Held(Distinct(seq), E) = Pick(seq, T)
  <2>1. PICK P : P = Pick(seq, D)
    OBVIOUS
  <2>2. Pick(P, Holding(P, DOMAIN P, E)) = Pick(seq, T)
    BY <1>1, <2>1, HeldOfPick
  <2>3. Distinct(seq) = P
    BY <2>1, DistinctIs
  <2> QED
    BY <2>2, <2>3 DEF Held
<1>3. /\ Climbs(f, n, H) /\ DOMAIN M = 1 .. n /\ n \in Nat
      /\ \A k \in 1 .. n : f[k] \in H /\ M[k] = seq[f[k]]
  BY <1>1, PickFacts DEF Climbs
<1>4. C = {k \in DOMAIN M : f[k] \in T}
  <2> HIDE DEF M, f, n
  <2>0. H \in SUBSET Nat /\ \A j \in H : j \in DOMAIN seq /\ seq[j] \in E
    BY <1>1 DEF Holding
  <2>1. ASSUME NEW k \in 1 .. n
        PROVE  (\A j \in 1 .. k - 1 : M[j] # M[k]) <=> (\A i \in 1 .. f[k] - 1 : seq[i] # seq[f[k]])
    <3>1. ASSUME NEW j \in 1 .. k - 1, M[j] = M[k]
          PROVE  \E i \in 1 .. f[k] - 1 : seq[i] = seq[f[k]]
      <4>1. j \in 1 .. n /\ j < k
        BY <1>3
      <4>2. f[j] < f[k] /\ f[j] \in H
        BY <1>3, <4>1 DEF Climbs
      <4>3. f[j] \in 1 .. f[k] - 1
        BY <1>1, <1>3, <4>2
      <4> QED
        BY <1>3, <3>1, <4>1, <4>3
    <3>2. ASSUME NEW i \in 1 .. f[k] - 1, seq[i] = seq[f[k]]
          PROVE  \E j \in 1 .. k - 1 : M[j] = M[k]
      <4>1. f[k] \in DOMAIN seq /\ seq[f[k]] \in E /\ f[k] \in Nat
        BY <1>3, <2>0
      <4>2. i \in DOMAIN seq /\ i < f[k] /\ i \in Nat
        BY <4>1
      <4>3. i \in H
        BY <3>2, <4>1, <4>2 DEF Holding
      <4>4. PICK j \in 1 .. n : f[j] = i
        BY <1>3, <4>3 DEF Climbs
      <4>5. ~ (k < j) /\ j # k
        <5>1. k < j => f[k] < f[j]
          BY <1>3 DEF Climbs
        <5> QED
          BY <4>1, <4>2, <4>4, <5>1
      <4>6. j \in 1 .. k - 1
        BY <1>3, <4>5
      <4> QED
        BY <1>3, <3>2, <4>4, <4>6
    <3> QED
      BY <3>1, <3>2
  <2>2. ASSUME NEW k \in 1 .. n
        PROVE  f[k] \in T <=> \A i \in 1 .. f[k] - 1 : seq[i] # seq[f[k]]
    <3>1. f[k] \in DOMAIN seq /\ seq[f[k]] \in E
      BY <1>3, <2>0
    <3> QED
      BY <3>1 DEF Holding, Firsts
  <2>3. C = {k \in 1 .. n : \A j \in 1 .. k - 1 : M[j] # M[k]}
    BY <1>3 DEF Firsts
  <2> HIDE DEF C, T
  <2> QED
    BY <1>3, <2>1, <2>2, <2>3
<1>5. Pick(M, C) = Pick(seq, T)
  <2> HIDE DEF C, T, H
  <2> QED
    BY <1>1, <1>4, PickOfPick
<1> QED
  BY <1>2, <1>5, DistinctIs DEF Held

-----------------------------------------------------------------------------
(* The rows of one file.                                                     *)

OfFile(X, f) == {x \in X : x.file = f}

LEMMA RowsAreHeld ==
  ASSUME NEW X, NEW rows \in Seq(X), NEW f
  PROVE  RowsIn(rows, f) = Held(rows, OfFile(X, f))
<1>1. {k \in DOMAIN rows : rows[k].file = f} = Holding(rows, DOMAIN rows, OfFile(X, f))
  BY DEF Holding, OfFile
<1> QED
  BY <1>1 DEF RowsIn, Held

\* A sequence is one of its own elements.
IsList(s) == s \in Seq(ToSet(s))

LEMMA ListFacts ==
  ASSUME NEW m \in Nat, NEW s, s = [k \in 1 .. m |-> s[k]]
  PROVE  IsList(s) /\ Len(s) = m /\ DOMAIN s = 1 .. m
<1>1. s \in [1 .. m -> ToSet(s)]
  BY DEF ToSet
<1> QED
  BY <1>1 DEF IsList

LEMMA ListOf ==
  ASSUME NEW X, NEW s \in Seq(X)
  PROVE  IsList(s) /\ Len(s) \in Nat /\ DOMAIN s = 1 .. Len(s)
<1>1. s = [k \in 1 .. Len(s) |-> s[k]] /\ Len(s) \in Nat
  OBVIOUS
<1> QED
  BY <1>1, ListFacts

\* Sequences of one set.
Together(seqs) == UNION {ToSet(seqs[k]) : k \in DOMAIN seqs}

LEMMA ListsTogether ==
  ASSUME NEW m \in Nat, NEW seqs, seqs = [k \in 1 .. m |-> seqs[k]], \A k \in 1 .. m : IsList(seqs[k])
  PROVE  seqs \in Seq(Seq(Together(seqs))) /\ DOMAIN seqs = 1 .. m
<1>1. \A k \in 1 .. m : ToSet(seqs[k]) \subseteq Together(seqs)
  BY DEF Together
<1>2. \A k \in 1 .. m : seqs[k] \in Seq(Together(seqs))
  BY <1>1 DEF IsList
<1> QED
  BY <1>2

-----------------------------------------------------------------------------
(* The mapper's rows.                                                        *)

IndexTypes ==
  /\ \A f \in DOMAIN mapper : IsSource(mapper[f])
  /\ DOMAIN go \subseteq ToSet(Load) /\ \A p \in DOMAIN go : IsPackage(go[p])
  /\ IsList(db.symbols)
  /\ \A f \in DOMAIN past : IF IsGo(f) THEN IsPackage(past[f].source) ELSE IsSource(past[f].source)

\* The symbols of one file, whether they were read or carried.
SymsOf(o, f) == IsList(o) /\ \A k \in DOMAIN o : o[k].file = f /\ o[k].from \in Nat

LEMMA OutlineFacts ==
  ASSUME NEW f, NEW s, IsSource(s)
  PROVE  SymsOf(OutlineOf(f, s), f) /\ DOMAIN OutlineOf(f, s) = 1 .. Len(s.defs) /\ Len(s.defs) \in Nat
<1>1. PICK o, d : o = OutlineOf(f, s) /\ d = s.defs
  OBVIOUS
<1>2. d \in Seq(Definition)
  BY <1>1 DEF IsSource
<1>3. DOMAIN o = DOMAIN d /\ \A k \in DOMAIN d : o[k].file = f /\ o[k].from = d[k].from
  BY <1>1 DEF OutlineOf
<1>4. o = [k \in DOMAIN d |-> o[k]]
  BY <1>1 DEF OutlineOf
<1>5. \A k \in DOMAIN d : d[k].from \in Nat
  <2>1. \A x \in Definition : x.from \in Nat
    BY DEF Definition
  <2>2. \A k \in DOMAIN d : d[k] \in Definition
    BY <1>2
  <2> HIDE DEF Definition
  <2> QED
    BY <2>1, <2>2
<1>6. DOMAIN d = 1 .. Len(d) /\ Len(d) \in Nat
  BY <1>2
<1>7. IsList(o)
  BY <1>4, <1>6, ListFacts
<1> QED
  BY <1>1, <1>3, <1>5, <1>6, <1>7 DEF SymsOf

\* What a symbol leaves in the table.
RowList(syms) == [k \in DOMAIN syms |-> Row(syms[k])]

LEMMA RowListFacts ==
  ASSUME NEW syms, IsList(syms)
  PROVE  /\ IsList(RowList(syms)) /\ DOMAIN RowList(syms) = DOMAIN syms
         /\ ToSet(RowList(syms)) = {Row(s) : s \in ToSet(syms)}
         /\ RowsOf(syms) = Distinct(RowList(syms))
<1>1. PICK R : R = RowList(syms)
  OBVIOUS
<1>2. DOMAIN R = DOMAIN syms /\ \A k \in DOMAIN syms : R[k] = Row(syms[k])
  BY <1>1 DEF RowList
<1>3. DOMAIN syms = 1 .. Len(syms) /\ Len(syms) \in Nat
  BY DEF IsList
<1>4. R = [k \in 1 .. Len(syms) |-> R[k]]
  BY <1>1, <1>3 DEF RowList
<1>5. IsList(R)
  BY <1>3, <1>4, ListFacts
<1>6. ToSet(R) = {Row(s) : s \in ToSet(syms)}
  BY <1>2 DEF ToSet
<1> QED
  BY <1>1, <1>2, <1>5, <1>6 DEF RowsOf, RowList

LEMMA RowsOfFacts ==
  ASSUME NEW syms, IsList(syms)
  PROVE  /\ IsList(RowsOf(syms)) /\ Len(RowsOf(syms)) = Cardinality({Row(s) : s \in ToSet(syms)})
         /\ \A k \in DOMAIN RowsOf(syms) : \E s \in ToSet(syms) : RowsOf(syms)[k] = Row(s)
         /\ \A k \in DOMAIN syms : \E i \in DOMAIN RowsOf(syms) : RowsOf(syms)[i] = Row(syms[k])
         /\ Distinct(RowsOf(syms)) = RowsOf(syms)
<1>1. PICK R, D : R = RowList(syms) /\ D = Distinct(R)
  OBVIOUS
<1>2. IsList(R) /\ DOMAIN R = DOMAIN syms /\ ToSet(R) = {Row(s) : s \in ToSet(syms)} /\ RowsOf(syms) = D
  BY <1>1, RowListFacts
<1>3. OnceEachOf(D, ToSet(R), R) /\ Len(D) = Cardinality(ToSet(R))
  BY <1>1, <1>2, DistinctFacts, DistinctCounts DEF IsList
<1>4. \A x : (\E k \in DOMAIN D : D[k] = x) <=> x \in ToSet(R)
  BY <1>3 DEF OnceEachOf, ToSet
<1>5. D \in Seq(ToSet(R)) /\ \A j, k \in DOMAIN D : D[j] = D[k] => j = k
  BY <1>3 DEF OnceEachOf
<1>6. IsList(D)
  BY <1>5, ListOf
<1>7. Distinct(D) = D
  BY <1>5, DistinctTwice
<1>8. \A k \in DOMAIN D : \E s \in ToSet(syms) : D[k] = Row(s)
  BY <1>2, <1>4
<1>9. \A k \in DOMAIN syms : \E i \in DOMAIN D : D[i] = Row(syms[k])
  BY <1>2, <1>4 DEF ToSet
<1> QED
  BY <1>2, <1>3, <1>6, <1>7, <1>8, <1>9

\* The rows of one file among those of several.
LEMMA RowsOfOneFile ==
  ASSUME NEW syms, IsList(syms), NEW f, NEW own, IsList(own), own = Held(syms, OfFile(ToSet(syms), f))
  PROVE  RowsIn(RowsOf(syms), f) = RowsOf(own)
<1> DEFINE X == ToSet(syms)
           H == Holding(syms, DOMAIN syms, OfFile(X, f))
<1>1. PICK R, Y : R = RowList(syms) /\ Y = ToSet(R)
  OBVIOUS
<1>2. R \in Seq(Y) /\ DOMAIN R = DOMAIN syms /\ RowsOf(syms) = Distinct(R)
  BY <1>1, RowListFacts DEF IsList
<1>3. \A k \in DOMAIN syms : R[k] = Row(syms[k]) /\ R[k].file = syms[k].file
  BY <1>1 DEF RowList, Row
<1>4. Holding(R, DOMAIN R, OfFile(Y, f)) = H
  BY <1>1, <1>2, <1>3 DEF Holding, OfFile, ToSet
<1>5. H \in SUBSET DOMAIN syms /\ syms \in Seq(X)
  BY DEF Holding, IsList
<1>6. own = Pick(syms, H)
  BY DEF Held
<1> HIDE DEF H, X
<1>7. Pick(R, H) = RowList(own)
  <2>1. PICK g, n : g = Ascending(H) /\ n = Cardinality(H)
    OBVIOUS
  <2>2. DOMAIN own = 1 .. n /\ \A k \in 1 .. n : g[k] \in H /\ own[k] = syms[g[k]]
    BY <1>5, <1>6, <2>1, PickFacts
  <2>3. DOMAIN g = 1 .. n
    BY <1>5, <2>1, PickFacts DEF Climbs
  <2>4. Pick(R, H) = [k \in 1 .. n |-> R[g[k]]]
    BY <2>1, <2>3 DEF Pick
  <2>5. \A k \in 1 .. n : R[g[k]] = Row(own[k])
    BY <1>3, <1>5, <2>2
  <2> QED
    BY <2>2, <2>4, <2>5 DEF RowList
<1>8. Held(R, OfFile(Y, f)) = RowList(own)
  BY <1>4, <1>7 DEF Held
<1>9. PICK D : D = Distinct(R)
  OBVIOUS
<1>10. OnceEachOf(D, Y, R)
  BY <1>2, <1>9, DistinctFacts
<1>11. D \in Seq(Y)
  BY <1>10 DEF OnceEachOf
<1>12. RowsIn(D, f) = Held(D, OfFile(Y, f))
  BY <1>11, RowsAreHeld
<1>13. Held(D, OfFile(Y, f)) = Distinct(Held(R, OfFile(Y, f)))
  BY <1>2, <1>9, DistinctOfHeld
<1> QED
  BY <1>2, <1>8, <1>9, <1>12, <1>13, RowListFacts

LEMMA RowOfRow ==
  ASSUME NEW s
  PROVE  Row(FromRow(Row(s))) = Row(s) /\ FromRow(Row(s)).file = s.file /\ FromRow(Row(s)).from = 0
BY DEF Row, FromRow

\* No row of a file the graph does not know.
LEMMA NoRows ==
  ASSUME NEW rows, IsList(rows), NEW f, \A i \in DOMAIN rows : rows[i].file # f
  PROVE  RowsIn(rows, f) = <<>>
<1> DEFINE S == {k \in DOMAIN rows : rows[k].file = f}
<1>1. S = {} /\ rows \in Seq(ToSet(rows))
  BY DEF IsList
<1>2. S \in SUBSET DOMAIN rows /\ Cardinality(S) = 0
  BY <1>1, FS_EmptySet
<1>3. Len(Pick(rows, S)) = 0 /\ Pick(rows, S) \in Seq(ToSet(rows))
  <2> HIDE DEF S
  <2> QED
    BY <1>1, <1>2, PickFacts
<1>4. PICK p : p = Pick(rows, S)
  OBVIOUS
<1>5. p = <<>>
  BY <1>3, <1>4
<1> QED
  BY <1>4, <1>5 DEF RowsIn

\* A file is carried exactly when it is lost.
LEMMA CarriedIsLost ==
  ASSUME IndexTypes, SymbolsAreTrue, NEW f \in DOMAIN mapper, ~ IsGo(f)
  PROVE  /\ Carried(f) <=> Lost(f)
         /\ Lost(f) => /\ f \in DOMAIN past /\ ~ IsGo(f) /\ IsSource(past[f].source)
                       /\ PrevRows(f) = RowsOf(OutlineOf(f, past[f].source))
<1>0. IsSource(mapper[f]) /\ IsList(db.symbols)
  BY DEF IndexTypes
<1>1. CASE f \in DOMAIN past
  <2>1. IsSource(past[f].source)
    BY <1>1 DEF IndexTypes
  <2>2. PrevRows(f) = RowsOf(OutlineOf(f, past[f].source))
    BY <1>1 DEF SymbolsAreTrue, SymbolsOf
  <2>3. IsList(OutlineOf(f, past[f].source))
    BY <2>1, OutlineFacts DEF SymsOf
  <2>4. PICK m, n : /\ m = Len(mapper[f].defs)
                    /\ n = Cardinality({Row(s) : s \in ToSet(OutlineOf(f, past[f].source))})
    OBVIOUS
  <2>5. Len(PrevRows(f)) = n
    BY <2>2, <2>3, <2>4, RowsOfFacts
  <2>6. n \in Nat
    <3>1. IsList(RowsOf(OutlineOf(f, past[f].source)))
      BY <2>3, RowsOfFacts
    <3> QED
      BY <2>2, <2>5, <3>1, ListOf DEF IsList
  <2>7. m \in Nat
    BY <1>0, <2>4, OutlineFacts
  <2>8. m * 2 < n <=> 2 * m < n
    BY <2>6, <2>7
  <2>9. Carried(f) <=> mapper[f].torn /\ m * 2 < n
    BY <2>4, <2>5 DEF Carried, MapperCarryTrigger
  <2>10. Lost(f) <=> mapper[f].torn /\ 2 * m < n
    BY <1>1, <2>4 DEF Lost
  <2> QED
    BY <1>1, <2>1, <2>2, <2>8, <2>9, <2>10
<1>2. CASE f \notin DOMAIN past
  <2>1. \A i \in DOMAIN db.symbols : db.symbols[i].file # f
    BY <1>2 DEF SymbolsAreTrue
  <2>2. PrevRows(f) = <<>>
    BY <1>0, <2>1, NoRows DEF PrevRows
  <2>3. Len(mapper[f].defs) \in Nat
    BY <1>0, OutlineFacts
  <2>4. ~ Carried(f)
    BY <2>2, <2>3 DEF Carried, MapperCarryTrigger
  <2> QED
    BY <1>2, <2>4 DEF Lost
<1> QED
  BY <1>1, <1>2

\* What the graph owes a file: what was read now, or was when it was last read.
SourceOf(f) == IF Lost(f) THEN past[f].source ELSE mapper[f]

LEMMA MapperSymsOfFacts ==
  ASSUME IndexTypes, SymbolsAreTrue, NEW f \in DOMAIN mapper, ~ IsGo(f)
  PROVE  SymsOf(MapperSymsOf(f), f) /\ RowsOf(MapperSymsOf(f)) = RowsOf(OutlineOf(f, SourceOf(f)))
<1>1. CASE ~ Lost(f)
  <2>1. MapperSymsOf(f) = OutlineOf(f, mapper[f]) /\ SourceOf(f) = mapper[f]
    BY <1>1, CarriedIsLost DEF MapperSymsOf, SourceOf
  <2> QED
    BY <2>1, OutlineFacts DEF IndexTypes
<1>2. CASE Lost(f)
  <2>1. PICK o, P : o = OutlineOf(f, past[f].source) /\ P = PrevRows(f)
    OBVIOUS
  <2>2. Carried(f) /\ IsSource(past[f].source) /\ P = RowsOf(o) /\ SourceOf(f) = past[f].source
    BY <1>2, <2>1, CarriedIsLost DEF SourceOf
  <2>3. IsList(o) /\ \A s \in ToSet(o) : s.file = f
    BY <2>1, <2>2, OutlineFacts DEF SymsOf, ToSet
  <2>4. IsList(P) /\ (\A k \in DOMAIN P : \E s \in ToSet(o) : P[k] = Row(s)) /\ Distinct(P) = P
    BY <2>2, <2>3, RowsOfFacts
  <2>5. PICK M : M = MapperSymsOf(f)
    OBVIOUS
  <2>6. M = [k \in DOMAIN P |-> FromRow(P[k])]
    BY <2>1, <2>2, <2>5 DEF MapperSymsOf
  <2>7. DOMAIN P = 1 .. Len(P) /\ Len(P) \in Nat
    BY <2>4 DEF IsList
  <2>8. IsList(M)
    <3>1. M = [k \in 1 .. Len(P) |-> M[k]]
      BY <2>6, <2>7
    <3> QED
      BY <2>7, <3>1, ListFacts
  <2>9. \A k \in DOMAIN P : Row(M[k]) = P[k] /\ M[k].file = f /\ M[k].from = 0
    <3> TAKE k \in DOMAIN P
    <3>1. PICK s \in ToSet(o) : P[k] = Row(s)
      BY <2>4
    <3>2. M[k] = FromRow(Row(s)) /\ s.file = f
      BY <2>3, <2>6, <3>1
    <3> QED
      BY <3>1, <3>2, RowOfRow
  <2>10. RowList(M) = P
    <3>1. RowList(M) = [k \in DOMAIN P |-> P[k]]
      BY <2>6, <2>9 DEF RowList
    <3>2. P \in Seq(ToSet(P))
      BY <2>4 DEF IsList
    <3> QED
      BY <3>1, <3>2
  <2>11. RowsOf(M) = P
    BY <2>4, <2>8, <2>10, RowListFacts
  <2>12. SymsOf(M, f)
    BY <2>6, <2>8, <2>9 DEF SymsOf
  <2> QED
    BY <2>1, <2>2, <2>5, <2>11, <2>12
<1> QED
  BY <1>1, <1>2

LEMMA MapperFilesFacts ==
  ASSUME IndexTypes
  PROVE  /\ IsList(MapperFiles)
         /\ \A j, k \in DOMAIN MapperFiles : MapperFiles[j] = MapperFiles[k] => j = k
         /\ \A k \in DOMAIN MapperFiles : MapperFiles[k] \in DOMAIN mapper /\ ~ IsGo(MapperFiles[k])
<1> DEFINE S == {k \in DOMAIN Walk : Walk[k] \in Read \ TestsSkipped}
<1>1. PICK M : M = MapperFiles
  OBVIOUS
<1>2. Walk \in Seq(Path) /\ S \in SUBSET DOMAIN Walk /\ M = Pick(Walk, S)
  BY <1>1, IndexAssumption DEF MapperFiles
<1>3. \A j, k \in S : Walk[j] = Walk[k] => j = k
  BY <1>2, IndexAssumption DEF IsInjective
<1>4. \A k \in S : Walk[k] \in DOMAIN mapper /\ ~ IsGo(Walk[k])
  BY IndexAssumption DEF Read, IsGo
<1> HIDE DEF S
<1>5. M \in Seq(Path) /\ Draws(M, Walk, S)
  BY <1>2, PickFacts, PickElements
<1>6. \A j, k \in DOMAIN M : M[j] = M[k] => j = k
  BY <1>2, <1>3, PickedOnce
<1>7. IsList(M)
  BY <1>5, ListOf
<1>8. \A k \in DOMAIN M : M[k] \in DOMAIN mapper /\ ~ IsGo(M[k])
  BY <1>4, <1>5 DEF Draws
<1> QED
  BY <1>1, <1>6, <1>7, <1>8

\* The rows of the mapper tier, each file's its own.
MapperRowsAre(syms, rows, listed) ==
  /\ IsList(syms) /\ IsList(rows)
  /\ \A k \in DOMAIN syms : syms[k].file \in listed /\ syms[k].from \in Nat
  /\ \A k \in DOMAIN syms : \E i \in DOMAIN rows : rows[i] = Row(syms[k])
  /\ \A k \in DOMAIN rows : rows[k].file \in listed
  /\ \A f \in listed : RowsIn(rows, f) = RowsOf(OutlineOf(f, SourceOf(f)))

LEMMA MapperRows ==
  ASSUME IndexTypes, SymbolsAreTrue
  PROVE  MapperRowsAre(MapperSyms, RowsOf(MapperSyms), ToSet(MapperFiles))
<1>1. PICK M, syms, listed : M = MapperFiles /\ syms = MapperSyms /\ listed = ToSet(MapperFiles)
  OBVIOUS
<1>2. /\ IsList(M) /\ \A j, k \in DOMAIN M : M[j] = M[k] => j = k
      /\ \A k \in DOMAIN M : M[k] \in DOMAIN mapper /\ ~ IsGo(M[k])
  BY <1>1, MapperFilesFacts
<1>3. PICK parts : parts = [k \in DOMAIN M |-> MapperSymsOf(M[k])]
  OBVIOUS
<1>4. DOMAIN M = 1 .. Len(M) /\ Len(M) \in Nat
  BY <1>2 DEF IsList
<1>5. \A k \in DOMAIN M : SymsOf(parts[k], M[k]) /\ RowsOf(parts[k]) = RowsOf(OutlineOf(M[k], SourceOf(M[k])))
  BY <1>2, <1>3, MapperSymsOfFacts
<1>6. parts = [k \in 1 .. Len(M) |-> parts[k]] /\ \A k \in 1 .. Len(M) : IsList(parts[k])
  BY <1>3, <1>4, <1>5 DEF SymsOf
<1>7. PICK X : X = Together(parts)
  OBVIOUS
<1>8. parts \in Seq(Seq(X)) /\ DOMAIN parts = 1 .. Len(M)
  BY <1>4, <1>6, <1>7, ListsTogether
<1>9. syms = FlattenSeq(parts)
  BY <1>1, <1>3 DEF MapperSyms
<1>0. Spreads(syms, X, parts)
  BY <1>8, <1>9, FlatElements
<1>10. /\ syms \in Seq(X)
       /\ \A i \in DOMAIN syms : \E k \in DOMAIN parts : \E m \in DOMAIN parts[k] : syms[i] = parts[k][m]
       /\ \A k \in DOMAIN parts : \A m \in DOMAIN parts[k] : \E i \in DOMAIN syms : syms[i] = parts[k][m]
  BY <1>0 DEF Spreads
<1>11. IsList(syms)
  BY <1>10, ListOf
<1>12. \A k \in DOMAIN syms : syms[k].file \in listed /\ syms[k].from \in Nat
  <2> TAKE i \in DOMAIN syms
  <2>1. PICK k \in DOMAIN parts : \E m \in DOMAIN parts[k] : syms[i] = parts[k][m]
    BY <1>10
  <2>2. k \in DOMAIN M /\ syms[i].file = M[k] /\ syms[i].from \in Nat
    BY <1>4, <1>5, <1>8, <2>1 DEF SymsOf
  <2> QED
    BY <1>1, <2>2 DEF ToSet
<1>13. PICK rows : rows = RowsOf(syms)
  OBVIOUS
<1>14. /\ IsList(rows) /\ \A k \in DOMAIN rows : \E s \in ToSet(syms) : rows[k] = Row(s)
       /\ \A k \in DOMAIN syms : \E i \in DOMAIN rows : rows[i] = Row(syms[k])
  BY <1>11, <1>13, RowsOfFacts
<1>15. \A k \in DOMAIN rows : rows[k].file \in listed
  <2> TAKE k \in DOMAIN rows
  <2>1. PICK s \in ToSet(syms) : rows[k] = Row(s)
    BY <1>14
  <2>2. s.file \in listed
    BY <1>12 DEF ToSet
  <2> QED
    BY <2>1, <2>2 DEF Row
<1>16. \A f \in listed : RowsIn(rows, f) = RowsOf(OutlineOf(f, SourceOf(f)))
  <2> TAKE f \in listed
  <2>1. PICK j \in DOMAIN M : f = M[j]
    BY <1>1 DEF ToSet
  <2>2. PICK E, own : E = OfFile(ToSet(syms), f) /\ own = parts[j]
    OBVIOUS
  <2>3. j \in DOMAIN parts /\ SymsOf(own, f) /\ RowsOf(own) = RowsOf(OutlineOf(f, SourceOf(f)))
    BY <1>4, <1>5, <1>8, <2>1, <2>2
  <2>4. \A k \in DOMAIN parts \ {j} : HoldsNone(parts[k], E)
    <3> TAKE k \in DOMAIN parts \ {j}
    <3>1. k \in DOMAIN M /\ M[k] # f
      BY <1>2, <1>4, <1>8, <2>1
    <3>2. \A i \in DOMAIN parts[k] : parts[k][i].file = M[k]
      BY <1>5, <3>1 DEF SymsOf
    <3> QED
      BY <2>2, <3>1, <3>2 DEF HoldsNone, OfFile
  <2>5. Held(syms, E) = Held(own, E)
    BY <1>8, <1>9, <2>2, <2>3, <2>4, HeldOfFlat
  <2>6. Holding(own, DOMAIN own, E) = DOMAIN own
    <3>1. \A m \in DOMAIN own : own[m] \in ToSet(syms) /\ own[m].file = f
      BY <1>10, <2>2, <2>3 DEF SymsOf, ToSet
    <3> QED
      BY <2>2, <3>1 DEF Holding, OfFile
  <2>7. IsList(own)
    BY <2>3 DEF SymsOf
  <2>8. Held(own, E) = own
    BY <2>6, <2>7, PickAll DEF Held, IsList
  <2>9. RowsIn(RowsOf(syms), f) = RowsOf(own)
    BY <1>11, <2>2, <2>5, <2>7, <2>8, RowsOfOneFile
  <2> QED
    BY <1>13, <2>3, <2>9
<1> QED
  BY <1>1, <1>11, <1>12, <1>13, <1>14, <1>15, <1>16 DEF MapperRowsAre

-----------------------------------------------------------------------------
(* The rows of the packages.                                                 *)

LEMMA GoFileFacts ==
  ASSUME NEW p \in Seq(STRING)
  PROVE  IsGo(GoFile(p)) /\ Front(GoFile(p)) = p
<1>1. PICK g : g = GoFile(p)
  OBVIOUS
<1> DEFINE X == STRING \cup {".go"}
<1>4. p \in Seq(X) /\ ".go" \in X
  OBVIOUS
<1> HIDE DEF X
<1>5. g = Append(p, ".go")
  BY <1>1, <1>4 DEF GoFile
<1>2. g \in Seq(X) /\ Len(g) = Len(p) + 1 /\ g[Len(g)] = ".go" /\ \A k \in 1 .. Len(p) : g[k] = p[k]
  BY <1>4, <1>5
<1>3. SubSeq(g, 1, Len(g) - 1) = p
  <2>1. Len(g) - 1 = Len(p)
    BY <1>2
  <2>2. SubSeq(g, 1, Len(p)) = [k \in 1 .. Len(p) |-> g[k]]
    BY <1>2
  <2>3. p = [k \in 1 .. Len(p) |-> p[k]]
    OBVIOUS
  <2> QED
    BY <1>2, <2>1, <2>2, <2>3
<1> QED
  BY <1>1, <1>2, <1>3 DEF IsGo, Last, Front

\* What a package declares, with its tests if it has any.
DeclaredIn(s) == s.defs \o (IF s.tests THEN s.testDefs ELSE <<>>)

LEMMA PackageRowFacts ==
  ASSUME NEW p, NEW s, IsPackage(s), NEW R, R = GoRowsOf(p, s)
  PROVE  /\ IsList(R) /\ DOMAIN R = DOMAIN DeclaredIn(s)
         /\ \A k \in DOMAIN R : /\ R[k].file = GoFile(p) /\ R[k].pkg = p /\ R[k].nth = k
                                /\ R[k].qname = GoName(p, DeclaredIn(s)[k].name)
<1>1. PICK d : d = DeclaredIn(s)
  OBVIOUS
<1>2. s.defs \in Seq(Declaration) /\ s.testDefs \in Seq(Declaration)
  BY DEF IsPackage
<1>3. d \in Seq(Declaration)
  <2> HIDE DEF Declaration
  <2> QED
    BY <1>1, <1>2 DEF DeclaredIn
<1>4. R = [k \in DOMAIN d |-> [qname |-> GoName(p, d[k].name), name |-> d[k].name, class |-> d[k].class,
                               pkg |-> p, file |-> GoFile(p), nth |-> k]]
  BY <1>1 DEF GoRowsOf, DeclaredIn
<1>5. DOMAIN d = 1 .. Len(d) /\ Len(d) \in Nat
  BY <1>3
<1>6. R = [k \in 1 .. Len(d) |-> R[k]]
  BY <1>4, <1>5
<1>7. IsList(R)
  BY <1>5, <1>6, ListFacts
<1>8. \A k \in DOMAIN R : /\ R[k].file = GoFile(p) /\ R[k].pkg = p /\ R[k].nth = k
                          /\ R[k].qname = GoName(p, d[k].name)
  BY <1>4
<1> QED
  BY <1>1, <1>4, <1>7, <1>8

\* The rows of the packages, each one's its own.
GoRowsAre(rows, pkgs) ==
  /\ IsList(rows)
  /\ \A k \in DOMAIN rows : \E p \in pkgs : rows[k].file = GoFile(p)
  /\ \A p \in pkgs : /\ RowsIn(rows, GoFile(p)) = GoRowsOf(p, go[p])
                     /\ \A m \in DOMAIN GoRowsOf(p, go[p]) : \E i \in DOMAIN rows : rows[i] = GoRowsOf(p, go[p])[m]

LEMMA GoRows ==
  ASSUME IndexTypes, NEW pkgs \in SUBSET DOMAIN go
  PROVE  GoRowsAre(GoSymbols(pkgs), pkgs)
<1> DEFINE S == {k \in DOMAIN Load : Load[k] \in pkgs}
<1>1. PICK M, rows : M = Pick(Load, S) /\ rows = GoSymbols(pkgs)
  OBVIOUS
<1>2. Load \in Seq(Seq(STRING)) /\ S \in SUBSET DOMAIN Load
  BY IndexAssumption
<1>3. \A j, k \in S : Load[j] = Load[k] => j = k
  BY <1>2, IndexAssumption DEF IsInjective
<1>4. (\A k \in S : Load[k] \in pkgs) /\ \A p \in pkgs : \E k \in S : Load[k] = p
  BY DEF IndexTypes, ToSet
<1>0. rows = FlattenSeq([k \in DOMAIN M |-> GoRowsOf(M[k], go[M[k]])])
  BY <1>1 DEF GoSymbols
<1> HIDE DEF S
<1>5. PICK parts : parts = [k \in DOMAIN M |-> GoRowsOf(M[k], go[M[k]])]
  BY Zenon
<1>6. rows = FlattenSeq(parts)
  BY <1>0, <1>5
<1>7. M \in Seq(Seq(STRING)) /\ Draws(M, Load, S)
  BY <1>1, <1>2, PickFacts, PickElements
<1>8. \A j, k \in DOMAIN M : M[j] = M[k] => j = k
  BY <1>1, <1>2, <1>3, PickedOnce
<1>9. DOMAIN M = 1 .. Len(M) /\ Len(M) \in Nat
  BY <1>7
<1>10. \A k \in DOMAIN M : M[k] \in pkgs /\ M[k] \in Seq(STRING) /\ IsPackage(go[M[k]])
  <2> TAKE k \in DOMAIN M
  <2>1. M[k] \in pkgs
    BY <1>4, <1>7 DEF Draws
  <2>2. M[k] \in Seq(STRING)
    BY <1>7
  <2> QED
    BY <2>1, <2>2 DEF IndexTypes
<1>11. \A p \in pkgs : \E k \in DOMAIN M : M[k] = p
  BY <1>4, <1>7 DEF Draws
<1>12. \A k \in DOMAIN M : IsList(parts[k]) /\ \A i \in DOMAIN parts[k] : parts[k][i].file = GoFile(M[k])
  BY <1>5, <1>10, PackageRowFacts
<1>13. \A j, k \in DOMAIN M : GoFile(M[j]) = GoFile(M[k]) => j = k
  BY <1>8, <1>10, GoFileFacts
<1>14. parts = [k \in 1 .. Len(M) |-> parts[k]] /\ \A k \in 1 .. Len(M) : IsList(parts[k])
  BY <1>5, <1>9, <1>12
<1>15. PICK X : X = Together(parts)
  OBVIOUS
<1>16. parts \in Seq(Seq(X)) /\ DOMAIN parts = 1 .. Len(M)
  BY <1>9, <1>14, <1>15, ListsTogether
<1>17. Spreads(rows, X, parts)
  BY <1>6, <1>16, FlatElements
<1>18. IsList(rows)
  BY <1>17, ListOf DEF Spreads
<1>19. \A i \in DOMAIN rows : \E p \in pkgs : rows[i].file = GoFile(p)
  <2> TAKE i \in DOMAIN rows
  <2>1. PICK k \in DOMAIN parts : \E m \in DOMAIN parts[k] : rows[i] = parts[k][m]
    BY <1>17 DEF Spreads
  <2>2. k \in DOMAIN M
    BY <1>9, <1>16
  <2>3. rows[i].file = GoFile(M[k])
    BY <1>12, <2>1, <2>2
  <2> QED
    BY <1>10, <2>2, <2>3
<1>20. ASSUME NEW p \in pkgs
       PROVE  /\ RowsIn(rows, GoFile(p)) = GoRowsOf(p, go[p])
              /\ \A m \in DOMAIN GoRowsOf(p, go[p]) : \E i \in DOMAIN rows : rows[i] = GoRowsOf(p, go[p])[m]
  <2>1. PICK j \in DOMAIN M : M[j] = p
    BY <1>11
  <2>2. PICK own, f : own = parts[j] /\ f = GoFile(p)
    OBVIOUS
  <2>3. own = GoRowsOf(p, go[p]) /\ j \in DOMAIN parts
    BY <1>5, <2>1, <2>2
  <2>4. PICK E : E = OfFile(X, f)
    OBVIOUS
  <2>5. \A k \in DOMAIN parts \ {j} : HoldsNone(parts[k], E)
    <3> TAKE k \in DOMAIN parts \ {j}
    <3>1. k \in DOMAIN M /\ GoFile(M[k]) # f
      BY <1>9, <1>13, <1>16, <2>1, <2>2
    <3> QED
      BY <1>12, <2>4, <3>1 DEF HoldsNone, OfFile
  <2>6. Held(rows, E) = Held(own, E)
    BY <1>6, <1>16, <2>2, <2>3, <2>5, HeldOfFlat
  <2>7. own \in Seq(X)
    <3>1. parts[j] \in Seq(X)
      BY <1>16, <2>3
    <3> QED
      BY <2>2, <3>1
  <2>8. Holding(own, DOMAIN own, E) = DOMAIN own
    <3>1. \A m \in DOMAIN own : own[m] \in X /\ own[m].file = f
      BY <1>12, <2>1, <2>2, <2>7
    <3> QED
      BY <2>4, <3>1 DEF Holding, OfFile
  <2>9. Held(own, E) = own
    BY <2>7, <2>8, PickAll DEF Held
  <2>10. RowsIn(rows, f) = Held(rows, E)
    BY <1>17, <2>4, RowsAreHeld DEF Spreads
  <2>11. \A m \in DOMAIN own : \E i \in DOMAIN rows : rows[i] = own[m]
    <3>1. \A m \in DOMAIN parts[j] : \E i \in DOMAIN rows : rows[i] = parts[j][m]
      BY <1>17, <2>3 DEF Spreads
    <3> QED
      BY <2>2, <3>1
  <2> QED
    BY <2>2, <2>3, <2>6, <2>9, <2>10, <2>11
<1> QED
  BY <1>1, <1>18, <1>19, <1>20 DEF GoRowsAre

-----------------------------------------------------------------------------
(* The rows of a new graph.                                                  *)

\* The packages a graph is of: none when most are broken or the tool cannot list them.
GraphPackages == IF MajorityBroken \/ ~ loads THEN {} ELSE DOMAIN go
GraphVariants == IF MajorityBroken THEN {} ELSE Variants

LEMMA VariantPackages ==
  {v[1] : v \in GraphVariants} = GraphPackages /\ GraphPackages \in SUBSET DOMAIN go
<1>1. CASE MajorityBroken
  BY <1>1 DEF GraphVariants, GraphPackages
<1>2. CASE ~ loads
  BY <1>2 DEF GraphVariants, GraphPackages, Variants
<1>3. CASE ~ MajorityBroken /\ loads
  <2>1. \A p \in DOMAIN go : <<p, "plain">> \in Variants
    BY <1>3 DEF Variants
  <2>2. \A v \in Variants : v[1] \in DOMAIN go
    BY <1>3 DEF Variants
  <2>3. \A p \in DOMAIN go : <<p, "plain">>[1] = p
    OBVIOUS
  <2>4. {v[1] : v \in Variants} = DOMAIN go
    <3> HIDE DEF Variants
    <3> QED
      BY <2>1, <2>2, <2>3
  <2> QED
    BY <1>3, <2>4 DEF GraphVariants, GraphPackages
<1> QED
  BY <1>1, <1>2, <1>3

GraphRowsAre(rows, listed) ==
  /\ IsList(rows)
  /\ \A k \in DOMAIN rows : rows[k].file \in {GoFile(p) : p \in GraphPackages} \cup listed
  /\ \A p \in GraphPackages :
       /\ RowsIn(rows, GoFile(p)) = GoRowsOf(p, go[p])
       /\ \A m \in DOMAIN GoRowsOf(p, go[p]) : \E i \in DOMAIN rows : rows[i] = GoRowsOf(p, go[p])[m]
  /\ \A f \in listed : RowsIn(rows, f) = RowsOf(OutlineOf(f, SourceOf(f)))
  /\ \A k \in DOMAIN MapperSyms : \E i \in DOMAIN rows : rows[i] = Row(MapperSyms[k])

LEMMA PackagesOf ==
  ASSUME IndexTypes, NEW p \in DOMAIN go
  PROVE  p \in Seq(STRING) /\ IsPackage(go[p])
<1>1. Load \in Seq(Seq(STRING))
  BY IndexAssumption
<1>2. PICK k \in DOMAIN Load : p = Load[k]
  BY DEF IndexTypes, ToSet
<1> QED
  BY <1>1, <1>2 DEF IndexTypes

Chained(rows, a, b) ==
  /\ IsList(rows)
  /\ \A k \in DOMAIN rows : (\E i \in DOMAIN a : rows[k] = a[i]) \/ (\E i \in DOMAIN b : rows[k] = b[i])
  /\ \A i \in DOMAIN a : i \in DOMAIN rows /\ rows[i] = a[i]
  /\ \A i \in DOMAIN b : \E k \in DOMAIN rows : rows[k] = b[i]
  /\ \A f : (\A i \in DOMAIN b : b[i].file # f) => RowsIn(rows, f) = RowsIn(a, f)
  /\ \A f : (\A i \in DOMAIN a : a[i].file # f) => RowsIn(rows, f) = RowsIn(b, f)

LEMMA RowsTogether ==
  ASSUME NEW a, NEW b, IsList(a), IsList(b), NEW rows, Joins(rows, a, b)
  PROVE  Chained(rows, a, b)
<1>1. PICK X : X = ToSet(a) \cup ToSet(b)
  OBVIOUS
<1>2. a \in Seq(X) /\ b \in Seq(X)
  BY <1>1 DEF IsList
<1>3. /\ rows \in Seq(X) /\ Len(rows) = Len(a) + Len(b) /\ Len(a) \in Nat /\ Len(b) \in Nat
      /\ \A i \in 1 .. Len(a) : rows[i] = a[i]
      /\ \A i \in 1 .. Len(b) : rows[Len(a) + i] = b[i]
  BY <1>2 DEF Joins
<1>4. DOMAIN a = 1 .. Len(a) /\ DOMAIN b = 1 .. Len(b) /\ DOMAIN rows = 1 .. Len(a) + Len(b)
  BY <1>2, <1>3
<1>5. IsList(rows)
  BY <1>3, ListOf
<1>6. \A k \in DOMAIN rows : (\E i \in DOMAIN a : rows[k] = a[i]) \/ (\E i \in DOMAIN b : rows[k] = b[i])
  <2> TAKE k \in DOMAIN rows
  <2>1. CASE k <= Len(a)
    <3>1. k \in DOMAIN a
      BY <1>3, <1>4, <2>1
    <3> QED
      BY <1>3, <1>4, <3>1
  <2>2. CASE k > Len(a)
    <3>1. k - Len(a) \in DOMAIN b /\ Len(a) + (k - Len(a)) = k
      BY <1>3, <1>4, <2>2
    <3>2. rows[Len(a) + (k - Len(a))] = b[k - Len(a)]
      BY <1>3, <1>4, <3>1
    <3> QED
      BY <3>1, <3>2
  <2> QED
    BY <1>3, <1>4, <2>1, <2>2
<1>7. \A i \in DOMAIN a : i \in DOMAIN rows /\ rows[i] = a[i]
  BY <1>3, <1>4
<1>8. \A i \in DOMAIN b : \E k \in DOMAIN rows : rows[k] = b[i]
  <2> TAKE i \in DOMAIN b
  <2>1. Len(a) + i \in DOMAIN rows /\ rows[Len(a) + i] = b[i]
    BY <1>3, <1>4
  <2> QED
    BY <2>1
<1>10. ASSUME NEW f
       PROVE  /\ RowsIn(rows, f) = Held(rows, OfFile(X, f))
              /\ RowsIn(a, f) = Held(a, OfFile(X, f)) /\ RowsIn(b, f) = Held(b, OfFile(X, f))
  BY <1>2, <1>3, RowsAreHeld
<1>11. ASSUME NEW f, \A i \in DOMAIN b : b[i].file # f PROVE RowsIn(rows, f) = RowsIn(a, f)
  <2>1. HoldsNone(b, OfFile(X, f))
    BY <1>11 DEF HoldsNone, OfFile
  <2>2. Held(rows, OfFile(X, f)) = Held(a, OfFile(X, f))
    BY <1>2, <2>1, HeldOfConcat
  <2> QED
    BY <1>10, <2>2
<1>12. ASSUME NEW f, \A i \in DOMAIN a : a[i].file # f PROVE RowsIn(rows, f) = RowsIn(b, f)
  <2>1. HoldsNone(a, OfFile(X, f))
    BY <1>12 DEF HoldsNone, OfFile
  <2>2. Held(rows, OfFile(X, f)) = Held(b, OfFile(X, f))
    BY <1>2, <2>1, HeldOfTail
  <2> QED
    BY <1>10, <2>2
<1> QED
  BY <1>5, <1>6, <1>7, <1>8, <1>11, <1>12 DEF Chained

LEMMA GraphRows ==
  ASSUME IndexTypes, SymbolsAreTrue
  PROVE  GraphRowsAre(Graph.symbols, ToSet(MapperFiles))
<1>1. PICK a, b, rows, listed :
        /\ a = GoSymbols(GraphPackages) /\ b = RowsOf(MapperSyms)
        /\ rows = Graph.symbols /\ listed = ToSet(MapperFiles)
  OBVIOUS
<1>2. rows = a \o b
  <2>1. Graph.symbols = GoSymbols({v[1] : v \in GraphVariants}) \o RowsOf(MapperSyms)
    BY DEF Graph, GraphVariants
  <2> QED
    BY <1>1, <2>1, VariantPackages
<1>3. GoRowsAre(a, GraphPackages)
  BY <1>1, VariantPackages, GoRows
<1>4. MapperRowsAre(MapperSyms, b, listed)
  BY <1>1, MapperRows
<1>5. IsList(a) /\ IsList(b)
  BY <1>3, <1>4 DEF GoRowsAre, MapperRowsAre
<1>0. Chained(rows, a, b)
  BY <1>2, <1>5, RowsTogether DEF Joins
<1>6. \A p \in GraphPackages : IsGo(GoFile(p))
  BY PackagesOf, VariantPackages, GoFileFacts
<1>7. \A f \in listed : ~ IsGo(f)
  BY <1>1, MapperFilesFacts DEF ToSet
<1>8. \A i \in DOMAIN a : \E p \in GraphPackages : a[i].file = GoFile(p)
  BY <1>3 DEF GoRowsAre
<1>9. \A i \in DOMAIN b : b[i].file \in listed
  BY <1>4 DEF MapperRowsAre
<1>10. IsList(rows)
  BY <1>0 DEF Chained
<1>11. \A k \in DOMAIN rows : rows[k].file \in {GoFile(p) : p \in GraphPackages} \cup listed
  <2> TAKE k \in DOMAIN rows
  <2>1. (\E i \in DOMAIN a : rows[k] = a[i]) \/ (\E i \in DOMAIN b : rows[k] = b[i])
    BY <1>0 DEF Chained
  <2> QED
    BY <1>8, <1>9, <2>1
<1>12. ASSUME NEW p \in GraphPackages
       PROVE  /\ RowsIn(rows, GoFile(p)) = GoRowsOf(p, go[p])
              /\ \A m \in DOMAIN GoRowsOf(p, go[p]) : \E i \in DOMAIN rows : rows[i] = GoRowsOf(p, go[p])[m]
  <2>1. \A i \in DOMAIN b : b[i].file # GoFile(p)
    BY <1>6, <1>7, <1>9
  <2>2. RowsIn(rows, GoFile(p)) = RowsIn(a, GoFile(p))
    BY <1>0, <2>1 DEF Chained
  <2>3. /\ RowsIn(a, GoFile(p)) = GoRowsOf(p, go[p])
        /\ \A m \in DOMAIN GoRowsOf(p, go[p]) : \E i \in DOMAIN a : a[i] = GoRowsOf(p, go[p])[m]
    BY <1>3 DEF GoRowsAre
  <2>4. \A i \in DOMAIN a : i \in DOMAIN rows /\ rows[i] = a[i]
    BY <1>0 DEF Chained
  <2> QED
    BY <2>2, <2>3, <2>4
<1>13. ASSUME NEW f \in listed PROVE RowsIn(rows, f) = RowsOf(OutlineOf(f, SourceOf(f)))
  <2>1. \A i \in DOMAIN a : a[i].file # f
    BY <1>6, <1>7, <1>8
  <2>2. RowsIn(rows, f) = RowsIn(b, f)
    BY <1>0, <2>1 DEF Chained
  <2> QED
    BY <1>4, <2>2 DEF MapperRowsAre
<1>14. \A k \in DOMAIN MapperSyms : \E i \in DOMAIN rows : rows[i] = Row(MapperSyms[k])
  <2> TAKE k \in DOMAIN MapperSyms
  <2>1. PICK j \in DOMAIN b : b[j] = Row(MapperSyms[k])
    BY <1>4 DEF MapperRowsAre
  <2>2. \E i \in DOMAIN rows : rows[i] = b[j]
    BY <1>0 DEF Chained
  <2> QED
    BY <2>1, <2>2
<1> QED
  BY <1>1, <1>10, <1>11, <1>12, <1>13, <1>14 DEF GraphRowsAre

GraphUnits == {GoFile(p) : p \in GraphPackages} \cup ToSet(MapperFiles)

\* What the account says of the units: their sources, and which were read.
Accounts(acc, carried) ==
  /\ DOMAIN acc = GraphUnits
  /\ \A p \in GraphPackages : /\ acc[GoFile(p)].source = go[p]
                              /\ ~ acc[GoFile(p)].fresh => p \in carried
  /\ \A f \in ToSet(MapperFiles) : /\ acc[f].source = SourceOf(f)
                                   /\ ~ acc[f].fresh => ModulePath(f) \in carried

LEMMA TheAccount ==
  ASSUME IndexTypes, SymbolsAreTrue, NEW g
  PROVE  Accounts(Account(g), Graph.carried)
<1>1. PICK acc, listed : acc = Account(g) /\ listed = ToSet(MapperFiles)
  OBVIOUS
<1>2. DOMAIN acc = GraphUnits
  <2>1. DOMAIN acc = (IF MajorityBroken \/ ~ loads THEN {} ELSE {GoFile(p) : p \in DOMAIN go}) \cup ToSet(MapperFiles)
    BY <1>1 DEF Account
  <2> QED
    BY <2>1 DEF GraphUnits, GraphPackages
<1>3. ASSUME NEW u \in GraphUnits
      PROVE  /\ IsGo(u) => /\ acc[u].source = go[Front(u)]
                           /\ acc[u].fresh <=> Front(u) \notin {v[1] : v \in Broken}
             /\ ~ IsGo(u) => /\ acc[u].source = SourceOf(u)
                             /\ acc[u].fresh <=> ~ Lost(u)
  <2>1. CASE IsGo(u)
    BY <1>1, <1>2, <2>1 DEF Account
  <2>2. CASE ~ IsGo(u) /\ Lost(u)
    BY <1>1, <1>2, <2>2 DEF Account, SourceOf
  <2>3. CASE ~ IsGo(u) /\ ~ Lost(u)
    BY <1>1, <1>2, <2>3 DEF Account, SourceOf
  <2> QED
    BY <2>1, <2>2, <2>3
<1>4. Graph.carried = (IF MajorityBroken THEN {} ELSE {v[1] : v \in Broken}) \cup MapperCarriedUnits
  BY DEF Graph
<1>5. ASSUME NEW p \in GraphPackages
      PROVE  acc[GoFile(p)].source = go[p] /\ (~ acc[GoFile(p)].fresh => p \in Graph.carried)
  <2>1. GoFile(p) \in GraphUnits /\ ~ MajorityBroken
    BY DEF GraphUnits, GraphPackages
  <2>2. IsGo(GoFile(p)) /\ Front(GoFile(p)) = p
    BY VariantPackages, PackagesOf, GoFileFacts
  <2> QED
    BY <1>3, <1>4, <2>1, <2>2
<1>6. ASSUME NEW f \in listed
      PROVE  acc[f].source = SourceOf(f) /\ (~ acc[f].fresh => ModulePath(f) \in Graph.carried)
  <2>1. f \in GraphUnits /\ f \in DOMAIN mapper /\ ~ IsGo(f)
    BY <1>1, MapperFilesFacts DEF GraphUnits, ToSet
  <2>2. Lost(f) => ModulePath(f) \in MapperCarriedUnits
    BY <1>1, <2>1, CarriedIsLost DEF MapperCarriedUnits
  <2> QED
    BY <1>3, <1>4, <2>1, <2>2
<1> QED
  BY <1>1, <1>2, <1>5, <1>6 DEF Accounts

-----------------------------------------------------------------------------
(* The edges of a new graph.                                                 *)

\* What the ladder finds is among the symbols.
LEMMA RungsAreSymbols ==
  ASSUME NEW ix, NEW c, NEW r, r = Rungs(ix, c)
  PROVE  DOMAIN r = 1 .. 8 /\ Len(r) = 8 /\ \A k \in 1 .. 8 : r[k] \subseteq DOMAIN ix.syms
<1>1. PICK cands : cands = ReceiverArity(ix, c)
  OBVIOUS
<1>2. cands \subseteq DOMAIN ix.syms
  BY <1>1 DEF ReceiverArity, Named
<1>3. PICK r1 : r1 = IF IsBare(c) THEN LocalShadows(ix, c) ELSE {}
  OBVIOUS
<1>4. PICK r2 : r2 = IF c.receiver \in {"this", "self"} THEN MembersOf(ix, cands, c.chain[1]) ELSE {}
  OBVIOUS
<1>5. PICK r3 : r3 = IF IsBare(c) /\ Imports(ix, c, c.name) THEN ImportedName(ix, c) ELSE {}
  OBVIOUS
<1>6. PICK r4 : r4 = IF ~ IsBare(c) /\ Imports(ix, c, c.receiver) THEN ImportedReceiver(ix, c, cands) ELSE {}
  OBVIOUS
<1>7. PICK r5 : r5 = IF ~ IsBare(c) /\ IsClass(ix, c.receiver) THEN MembersOf(ix, cands, c.receiver) ELSE {}
  OBVIOUS
<1>8. PICK r6, r7 : r6 = {i \in cands : ix.syms[i].file = c.file} /\ r7 = {i \in cands : ix.syms[i].pkg = c.pkg}
  OBVIOUS
<1>9. r = <<r1, r2, r3, r4, r5, r6, r7, cands>>
  BY <1>1, <1>3, <1>4, <1>5, <1>6, <1>7, <1>8 DEF Rungs
<1>10. r1 \subseteq DOMAIN ix.syms
  BY <1>3 DEF LocalShadows, Named
<1>11. r2 \subseteq DOMAIN ix.syms /\ r5 \subseteq DOMAIN ix.syms
  BY <1>2, <1>4, <1>7 DEF MembersOf
<1>12. r3 \subseteq DOMAIN ix.syms
  <2>1. \A f : FreeIn(ix, f) \subseteq DOMAIN ix.syms
    BY DEF FreeIn
  <2>2. \A f, n : FreeIn(ix, f) \cap Named(ix, n) \subseteq DOMAIN ix.syms
    BY <2>1
  <2>3. \E f, n : ImportedName(ix, c) = FreeIn(ix, f) \/ ImportedName(ix, c) = FreeIn(ix, f) \cap Named(ix, n)
    BY Zenon DEF ImportedName
  <2> QED
    BY <1>5, <2>1, <2>2, <2>3
<1>13. r4 \subseteq DOMAIN ix.syms
  BY <1>2, <1>6 DEF ImportedReceiver, FreeIn, Named
<1>14. r6 \subseteq DOMAIN ix.syms /\ r7 \subseteq DOMAIN ix.syms
  BY <1>2, <1>8
<1>15. \A k \in 1 .. 8 : k = 1 \/ k = 2 \/ k = 3 \/ k = 4 \/ k = 5 \/ k = 6 \/ k = 7 \/ k = 8
  OBVIOUS
<1> QED
  BY <1>2, <1>9, <1>10, <1>11, <1>12, <1>13, <1>14, <1>15

LEMMA HitsAreSymbols ==
  ASSUME NEW ix, NEW c
  PROVE  \A i \in Resolve(ix, c).hits : i \in DOMAIN ix.syms
<1>1. PICK r : r = Rungs(ix, c)
  OBVIOUS
<1>2. DOMAIN r = 1 .. 8 /\ Len(r) = 8 /\ \A k \in 1 .. 8 : r[k] \subseteq DOMAIN ix.syms
  BY <1>1, RungsAreSymbols
<1> DEFINE I == {k \in 1 .. Len(r) : r[k] # {}}
<1>3. PICK k : k = IF I # {} THEN Min(I) ELSE 0
  OBVIOUS
<1>4. k = 0 \/ k \in 1 .. 8
  <2>1. \A j \in I : j \in Nat /\ j \in 1 .. 8
    BY <1>2
  <2> HIDE DEF I
  <2>2. I \in SUBSET Nat
    BY <2>1
  <2>3. I # {} => Min(I) \in I
    BY <2>2, LeastIsIn
  <2> QED
    BY <1>3, <2>1, <2>3
<1>5. PICK hits : hits = IF k = 0 THEN {} ELSE r[k]
  OBVIOUS
<1>6. hits \subseteq DOMAIN ix.syms
  BY <1>2, <1>4, <1>5
<1>7. \A i \in Resolve(ix, c).hits : i \in hits
  BY <1>1, <1>3, <1>5 DEF Resolve, SelectInSeq
<1> QED
  BY <1>6, <1>7

LEMMA GreatestIsIn ==
  ASSUME NEW S \in SUBSET Nat, IsFiniteSet(S), S # {}
  PROVE  Max(S) \in S /\ \A x \in S : Max(S) >= x
<1> DEFINE n == Cardinality(S)
           f == Ascending(S)
<1>1. Climbs(f, n, S)
  BY AscendingFacts
<1> HIDE DEF n, f
<1>2. \A x \in S : x \in Nat
  OBVIOUS
<1>3. PICK x0 \in S : TRUE
  OBVIOUS
<1>4. n \in Nat /\ f \in [1 .. n -> S] /\ \E k \in 1 .. n : f[k] = x0
  BY <1>1 DEF Climbs
<1>5. n \in 1 .. n
  BY <1>4
<1>6. f[n] \in S
  BY <1>4, <1>5
<1>7. \A x \in S : f[n] >= x
  <2> TAKE x \in S
  <2>1. PICK k \in 1 .. n : f[k] = x
    BY <1>1 DEF Climbs
  <2>2. k < n => f[k] < f[n]
    BY <1>1, <1>5 DEF Climbs
  <2>3. k < n \/ k = n
    BY <1>4
  <2>4. x \in Nat /\ f[n] \in Nat
    BY <1>2, <1>6
  <2> QED
    BY <2>1, <2>2, <2>3, <2>4
<1> QED
  BY <1>6, <1>7 DEF Max

LEMMA DefsComeFirst ==
  ASSUME NEW s, IsPackage(s), NEW k \in DOMAIN s.defs
  PROVE  k \in DOMAIN DeclaredIn(s) /\ DeclaredIn(s)[k] = s.defs[k]
<1>1. PICK d1, d2 : d1 = s.defs /\ d2 = (IF s.tests THEN s.testDefs ELSE <<>>)
  OBVIOUS
<1>2. s.defs \in Seq(Declaration) /\ s.testDefs \in Seq(Declaration)
  BY DEF IsPackage
<1> HIDE DEF Declaration
<1>3. d1 \in Seq(Declaration) /\ d2 \in Seq(Declaration)
  BY <1>1, <1>2
<1>4. \A j \in DOMAIN d1 : j \in DOMAIN (d1 \o d2) /\ (d1 \o d2)[j] = d1[j]
  BY <1>3
<1> QED
  BY <1>1, <1>4 DEF DeclaredIn

\* Edges between rows there are.
Within(reports, rows) == \A r \in reports : r.pair[1] \in DOMAIN rows /\ r.pair[2] \in DOMAIN rows

LEMMA GoEdgesWithin ==
  ASSUME IndexTypes, SymbolsAreTrue, NEW rows, rows = Graph.symbols
  PROVE  Within(CallEdges(rows, GraphVariants), rows)
<1>0. GraphRowsAre(rows, ToSet(MapperFiles))
  BY GraphRows
<1> SUFFICES ASSUME NEW r \in CallEdges(rows, GraphVariants)
             PROVE  r.pair[1] \in DOMAIN rows /\ r.pair[2] \in DOMAIN rows
  BY DEF Within
<1>9. PICK v \in GraphVariants : \E c \in CallsOf(v) :
        r.pair = <<CHOOSE i \in DOMAIN rows : rows[i].pkg = v[1] /\ rows[i].file = GoFile(v[1]) /\ rows[i].nth = c.from,
                   CHOOSE i \in DOMAIN rows : rows[i].qname = GoName(c.pkg, c.name)>>
  BY DEF CallEdges
<1>1. PICK c \in CallsOf(v) :
        r.pair = <<CHOOSE i \in DOMAIN rows : rows[i].pkg = v[1] /\ rows[i].file = GoFile(v[1]) /\ rows[i].nth = c.from,
                   CHOOSE i \in DOMAIN rows : rows[i].qname = GoName(c.pkg, c.name)>>
  BY <1>9
<1>2. v \in Variants /\ v[1] \in GraphPackages /\ GraphPackages = DOMAIN go
  <2>1. v \in Variants /\ ~ MajorityBroken /\ loads
    BY DEF GraphVariants, Variants
  <2> QED
    BY <2>1, VariantPackages DEF GraphPackages
<1>3. PICK p, s, R : p = v[1] /\ s = go[v[1]] /\ R = GoRowsOf(v[1], go[v[1]])
  OBVIOUS
<1>4. p \in DOMAIN go /\ IsPackage(s)
  BY <1>2, <1>3, PackagesOf
<1>5. c.from \in DOMAIN DeclaredIn(s) /\ Declares(c.pkg, c.name)
  <2>1. v \notin Broken /\ v[2] # "main"
    BY DEF CallsOf
  <2>2. v[2] \in {"plain", "tests"} /\ (v[2] = "tests" => s.tests)
    BY <1>2, <1>3, <2>1 DEF Variants
  <2>3. ~ PlainBroken(p)
    BY <1>2, <1>3, <2>1, <2>2 DEF Broken, TestsBroken
  <2>4. c \in s.calls \/ (v[2] = "tests" /\ c \in s.testCalls)
    BY <1>3, <2>1 DEF CallsOf
  <2>5. \A k \in DOMAIN s.defs : k \in DOMAIN DeclaredIn(s)
    BY <1>4, DefsComeFirst
  <2>6. CASE c \in s.calls
    <3>1. c.from \in DOMAIN s.defs
      BY <1>4, <2>6 DEF IsPackage
    <3> QED
      BY <1>3, <2>3, <2>5, <2>6, <3>1 DEF PlainBroken, Missing
  <2>7. CASE v[2] = "tests" /\ c \in s.testCalls
    <3>1. ~ Missing(go[p].testCalls)
      BY <1>2, <1>3, <2>1, <2>7 DEF Broken, TestsBroken
    <3>2. c.from \in DOMAIN (s.defs \o s.testDefs)
      BY <1>4, <2>7 DEF IsPackage
    <3> QED
      BY <1>3, <2>2, <2>7, <3>1, <3>2 DEF Missing, DeclaredIn
  <2> QED
    BY <2>4, <2>6, <2>7
<1>6. \E i \in DOMAIN rows : rows[i].pkg = p /\ rows[i].file = GoFile(p) /\ rows[i].nth = c.from
  <2>1. c.from \in DOMAIN R /\ R[c.from].pkg = p /\ R[c.from].file = GoFile(p) /\ R[c.from].nth = c.from
    BY <1>3, <1>4, <1>5, PackageRowFacts
  <2>2. \E i \in DOMAIN rows : rows[i] = R[c.from]
    BY <1>0, <1>2, <1>3, <2>1 DEF GraphRowsAre
  <2> QED
    BY <2>1, <2>2
<1>7. \E i \in DOMAIN rows : rows[i].qname = GoName(c.pkg, c.name)
  <2>1. PICK q, d, T : q = c.pkg /\ d = go[c.pkg] /\ T = GoRowsOf(c.pkg, go[c.pkg])
    OBVIOUS
  <2>2. q \in DOMAIN go /\ \E k \in DOMAIN d.defs : d.defs[k].name = c.name
    BY <1>5, <2>1 DEF Declares, ToSet
  <2>3. IsPackage(d)
    BY <2>1, <2>2, PackagesOf
  <2>4. PICK k \in DOMAIN d.defs : d.defs[k].name = c.name
    BY <2>2
  <2>5. k \in DOMAIN DeclaredIn(d) /\ DeclaredIn(d)[k] = d.defs[k]
    BY <2>3, <2>4, DefsComeFirst
  <2>6. k \in DOMAIN T /\ T[k].qname = GoName(q, c.name)
    BY <2>1, <2>3, <2>4, <2>5, PackageRowFacts
  <2>7. \E i \in DOMAIN rows : rows[i] = T[k]
    BY <1>0, <1>2, <2>1, <2>2, <2>6 DEF GraphRowsAre
  <2> QED
    BY <2>1, <2>6, <2>7
<1> QED
  BY <1>1, <1>3, <1>6, <1>7

LEMMA CallerIsSymbol ==
  ASSUME NEW syms, IsList(syms), \A k \in DOMAIN syms : syms[k].from \in Nat,
         NEW f, NEW ref, Around(syms, f, ref) # {}
  PROVE  InnermostContainer(syms, f, ref) \in DOMAIN syms
<1>1. PICK A : A = Around(syms, f, ref)
  OBVIOUS
<1>2. A \in SUBSET DOMAIN syms /\ A # {}
  BY <1>1 DEF Around
<1>3. DOMAIN syms = 1 .. Len(syms) /\ Len(syms) \in Nat
  BY DEF IsList
<1>4. IsFiniteSet(A)
  BY <1>2, <1>3, UpTo, FS_Subset
<1>5. PICK g \in [A -> Nat] : \A i \in A : g[i] = syms[i].from
  <2>1. [i \in A |-> syms[i].from] \in [A -> Nat]
    BY <1>2
  <2> QED
    BY <2>1
<1> DEFINE T == {g[i] : i \in A}
<1>6. IsFiniteSet(T) /\ T \in SUBSET Nat /\ T # {}
  BY <1>2, <1>4, <1>5, ImageBound
<1>7. Max(T) \in T /\ \A x \in T : Max(T) >= x
  <2> HIDE DEF T
  <2> QED
    BY <1>6, GreatestIsIn
<1>8. PICK m \in A : g[m] = Max(T)
  BY <1>7
<1>9. \A j \in A : syms[j].from <= syms[m].from
  <2> TAKE j \in A
  <2>1. g[j] \in T /\ g[j] \in Nat /\ g[m] \in Nat
    BY <1>5
  <2>2. g[m] >= g[j]
    BY <1>7, <1>8, <2>1
  <2> QED
    BY <1>5, <2>1, <2>2
<1>10. InnermostContainer(syms, f, ref) \in A
  BY <1>1, <1>9 DEF InnermostContainer
<1> QED
  BY <1>2, <1>10

LEMMA MapperEdgesWithin ==
  ASSUME IndexTypes, SymbolsAreTrue, NEW rows, rows = Graph.symbols
  PROVE  Within(MapperEdges(rows, MapperSyms).reports, rows)
<1>1. PICK syms : syms = MapperSyms
  OBVIOUS
<1>2. IsList(syms) /\ \A k \in DOMAIN syms : syms[k].from \in Nat
  BY <1>1, MapperRows DEF MapperRowsAre
<1>3. \A k \in DOMAIN syms : \E i \in DOMAIN rows : rows[i] = Row(syms[k])
  BY <1>1, GraphRows DEF GraphRowsAre
<1> DEFINE id(i) == CHOOSE k \in DOMAIN rows : rows[k] = Row(syms[i])
           calls == ResolvedCalls(syms, mapper, ToSet(MapperFiles))
<1>4. \A k \in DOMAIN syms : id(k) \in DOMAIN rows
  BY <1>3
<1>5. \A c \in calls : c.site.caller \in DOMAIN syms /\ \A i \in c.found.hits : i \in DOMAIN syms
  <2> TAKE c \in calls
  <2>1. PICK ix : ix = LadderOver(syms, mapper, ToSet(MapperFiles))
    OBVIOUS
  <2>2. PICK f \in ToSet(MapperFiles) :
          \E x \in AttributeMapperCalls(syms, f, mapper[f].calls) : c = [site |-> x, found |-> Resolve(ix, x)]
    BY <2>1 DEF ResolvedCalls
  <2>3. PICK x \in AttributeMapperCalls(syms, f, mapper[f].calls) : c = [site |-> x, found |-> Resolve(ix, x)]
    BY <2>2
  <2>4. ix.syms = syms
    BY <2>1 DEF LadderOver
  <2>5. \A i \in c.found.hits : i \in DOMAIN syms
    BY <2>3, <2>4, HitsAreSymbols
  <2>6. PICK ref : Around(syms, f, ref) # {} /\ x.caller = InnermostContainer(syms, f, ref)
    BY DEF AttributeMapperCalls
  <2>7. x.caller \in DOMAIN syms
    BY <1>2, <2>6, CallerIsSymbol
  <2> QED
    BY <2>3, <2>5, <2>7
<1>6. \A r \in MapperEdges(rows, syms).reports :
        \E c \in calls : \E i \in c.found.hits : r.pair = <<id(c.site.caller), id(i)>>
  <2> DEFINE pairs == UNION {{<<id(c.site.caller), id(i)>> : i \in c.found.hits} : c \in calls}
  <2>1. \A p, s : [pair |-> p, dispatch |-> s, precision |-> "syntactic"].pair = p
    OBVIOUS
  <2>2. MapperEdges(rows, syms).reports
          = {[pair |-> p, dispatch |-> "", precision |-> "syntactic"] : p \in {q \in pairs : q[1] # q[2]}}
    BY DEF MapperEdges
  <2>3. \A p \in pairs : \E c \in calls : \E i \in c.found.hits : p = <<id(c.site.caller), id(i)>>
    <3> HIDE DEF id, calls
    <3> QED
      OBVIOUS
  <2> HIDE DEF pairs
  <2>4. PICK s : MapperEdges(rows, syms).reports
                   = {[pair |-> p, dispatch |-> s, precision |-> "syntactic"] : p \in {q \in pairs : q[1] # q[2]}}
    BY <2>2, Zenon
  <2>5. \A r \in MapperEdges(rows, syms).reports : r.pair \in pairs
    BY <2>1, <2>4
  <2> QED
    BY <2>3, <2>5
<1> HIDE DEF id, calls
<1>7. \A r \in MapperEdges(rows, syms).reports : r.pair[1] \in DOMAIN rows /\ r.pair[2] \in DOMAIN rows
  <2> TAKE r \in MapperEdges(rows, syms).reports
  <2>1. PICK c \in calls : \E i \in c.found.hits : r.pair = <<id(c.site.caller), id(i)>>
    BY <1>6
  <2>2. PICK i \in c.found.hits : r.pair = <<id(c.site.caller), id(i)>>
    BY <2>1
  <2>3. id(c.site.caller) \in DOMAIN rows /\ id(i) \in DOMAIN rows
    BY <1>4, <1>5
  <2> QED
    BY <2>2, <2>3
<1> QED
  BY <1>1, <1>7 DEF Within

LEMMA CarriedEdgesWithin ==
  ASSUME NEW rows, IsList(rows), NEW units
  PROVE  Within(CarriedEdges(rows, units), rows)
<1>1. DOMAIN rows = 1 .. Len(rows) /\ Len(rows) \in Nat
  BY DEF IsList
<1>2. ASSUME NEW q, Named1(rows, q) # {} PROVE ByQName(rows, q) \in DOMAIN rows
  <2>1. PICK S : S = Named1(rows, q)
    OBVIOUS
  <2>2. S \subseteq 1 .. Len(rows) /\ S # {}
    BY <1>1, <1>2, <2>1 DEF Named1
  <2>3. IsFiniteSet(S) /\ S \in SUBSET Nat
    <3>1. IsFiniteSet(1 .. Len(rows)) /\ S \in SUBSET (1 .. Len(rows))
      BY <1>1, <2>2, UpTo
    <3>2. \A x \in S : x \in Nat
      BY <2>2
    <3> QED
      BY <3>1, <3>2, FS_Subset
  <2>4. Max(S) \in S
    BY <2>2, <2>3, GreatestIsIn
  <2> QED
    BY <1>1, <2>1, <2>2, <2>4 DEF ByQName
<1>3. \A r \in CarriedEdges(rows, units) :
        \E p, q : Named1(rows, p) # {} /\ Named1(rows, q) # {} /\ r.pair = <<ByQName(rows, p), ByQName(rows, q)>>
  BY DEF CarriedEdges
<1>4. \A r \in CarriedEdges(rows, units) : r.pair[1] \in DOMAIN rows /\ r.pair[2] \in DOMAIN rows
  <2> TAKE r \in CarriedEdges(rows, units)
  <2>1. PICK p, q : Named1(rows, p) # {} /\ Named1(rows, q) # {} /\ r.pair = <<ByQName(rows, p), ByQName(rows, q)>>
    BY <1>3
  <2> QED
    BY <1>2, <2>1
<1> QED
  BY <1>4 DEF Within

LEMMA GraphEdges ==
  ASSUME IndexTypes, SymbolsAreTrue
  PROVE  \A e \in DOMAIN Graph.edges : {e[1], e[2]} \subseteq DOMAIN Graph.symbols
<1>1. PICK rows, brokenPkgs : rows = Graph.symbols /\ brokenPkgs = IF MajorityBroken THEN {} ELSE {v[1] : v \in Broken}
  OBVIOUS
<1> DEFINE reports == CallEdges(rows, GraphVariants) \cup MapperEdges(rows, MapperSyms).reports
                      \cup CarriedEdges(rows, brokenPkgs) \cup MapperCarriedEdges(rows)
<1>2. DOMAIN Graph.edges = {r.pair : r \in reports}
  BY <1>1 DEF Graph, GraphVariants, AddEdges
<1>3. IsList(rows)
  BY <1>1, GraphRows DEF GraphRowsAre
<1>4. Within(CallEdges(rows, GraphVariants), rows) /\ Within(MapperEdges(rows, MapperSyms).reports, rows)
  BY <1>1, GoEdgesWithin, MapperEdgesWithin
<1>5. Within(CarriedEdges(rows, brokenPkgs), rows) /\ Within(CarriedEdges(rows, MapperCarriedUnits), rows)
  BY <1>3, CarriedEdgesWithin
<1>6. Within(MapperCarriedEdges(rows), rows)
  BY <1>5 DEF Within, MapperCarriedEdges
<1>7. Within(reports, rows)
  BY <1>4, <1>5, <1>6 DEF Within
<1> HIDE DEF reports
<1> QED
  BY <1>1, <1>2, <1>7 DEF Within

-----------------------------------------------------------------------------
(* The invariant.                                                            *)

IndexInv == IndexTypes /\ SymbolsAreTrue

LEMMA IndexInitInv == IndexInit => IndexInv
<1> SUFFICES ASSUME IndexInit PROVE IndexInv
  OBVIOUS
<1>1. /\ DOMAIN mapper = {} /\ DOMAIN go = {} /\ DOMAIN past = {}
      /\ db.symbols = <<>> /\ db.edges = <<>>
  <2>1. DOMAIN mapper = {} /\ DOMAIN go = {} /\ DOMAIN past = {}
    BY DEF IndexInit
  <2>2. Unnamed.symbols = <<>> /\ Unnamed.edges = <<>>
    BY Zenon DEF Unnamed
  <2> QED
    BY <2>1, <2>2 DEF IndexInit
<1>2. DOMAIN db.symbols = {} /\ DOMAIN db.edges = {} /\ IsList(db.symbols)
  BY <1>1 DEF IsList, ToSet
<1> QED
  BY <1>1, <1>2 DEF IndexInv, IndexTypes, SymbolsAreTrue

\* Edits leave the graph and its account.
LEMMA SourcesChange ==
  ASSUME IndexInv, UNCHANGED <<db, past>>,
         \A f \in DOMAIN mapper' : IsSource(mapper'[f]),
         DOMAIN go' \subseteq ToSet(Load), \A p \in DOMAIN go' : IsPackage(go'[p])
  PROVE  IndexInv'
<1>1. SymbolsAreTrue'
  <2>1. SymbolsAreTrue /\ db' = db /\ past' = past
    BY DEF IndexInv
  <2> QED
    BY <2>1 DEF SymbolsAreTrue, PrevRows, SymbolsOf, RowsIn
<1>2. IndexTypes'
  BY DEF IndexInv, IndexTypes
<1> QED
  BY <1>1, <1>2 DEF IndexInv

LEMMA BuildInv ==
  ASSUME IndexInv, Build
  PROVE  IndexInv'
<1>1. IndexTypes /\ SymbolsAreTrue
  BY DEF IndexInv
<1>2. PICK g, acc, listed : g = Graph /\ acc = Account(db') /\ listed = ToSet(MapperFiles)
  OBVIOUS
<1>3. db' = g /\ past' = acc /\ UNCHANGED <<mapper, go, loads>>
  BY <1>2 DEF Build
<1>4. GraphRowsAre(g.symbols, listed)
  BY <1>1, <1>2, GraphRows
<1>5. /\ DOMAIN acc = {GoFile(p) : p \in GraphPackages} \cup listed
      /\ \A p \in GraphPackages : acc[GoFile(p)].source = go[p] /\ (~ acc[GoFile(p)].fresh => p \in g.carried)
      /\ \A f \in listed : acc[f].source = SourceOf(f) /\ (~ acc[f].fresh => ModulePath(f) \in g.carried)
  <2>1. Accounts(acc, g.carried)
    BY <1>1, <1>2, TheAccount
  <2> QED
    BY <1>2, <2>1 DEF Accounts, GraphUnits
<1>6. \A e \in DOMAIN g.edges : {e[1], e[2]} \subseteq DOMAIN g.symbols
  BY <1>1, <1>2, GraphEdges
<1>7. \A p \in GraphPackages : IsGo(GoFile(p)) /\ Front(GoFile(p)) = p /\ p \in DOMAIN go /\ IsPackage(go[p])
  BY <1>1, PackagesOf, VariantPackages, GoFileFacts
<1>8. \A f \in listed : f \in DOMAIN mapper /\ ~ IsGo(f) /\ IsSource(SourceOf(f))
  <2>1. \A f \in listed : f \in DOMAIN mapper /\ ~ IsGo(f)
    BY <1>1, <1>2, MapperFilesFacts DEF ToSet
  <2>2. \A f \in DOMAIN mapper : IsSource(mapper[f])
    BY <1>1 DEF IndexTypes
  <2> QED
    BY <1>1, <2>1, <2>2, CarriedIsLost DEF SourceOf
<1>9. IndexTypes'
  <2>1. \A f \in DOMAIN past' : IF IsGo(f) THEN IsPackage(past'[f].source) ELSE IsSource(past'[f].source)
    BY <1>3, <1>5, <1>7, <1>8
  <2>2. IsList(db'.symbols)
    BY <1>3, <1>4 DEF GraphRowsAre
  <2> QED
    BY <1>1, <1>3, <2>1, <2>2 DEF IndexTypes
<1>10. \A i \in DOMAIN db'.symbols : db'.symbols[i].file \in DOMAIN past'
  BY <1>3, <1>4, <1>5 DEF GraphRowsAre
<1>11. ASSUME NEW f \in DOMAIN past'
       PROVE  /\ RowsIn(db'.symbols, f) = SymbolsOf(f, past'[f].source)
              /\ ~ past'[f].fresh => Unit(f) \in db'.carried
  <2>1. CASE \E p \in GraphPackages : f = GoFile(p)
    <3>1. PICK p \in GraphPackages : f = GoFile(p)
      BY <2>1
    <3>2. RowsIn(g.symbols, f) = GoRowsOf(p, go[p]) /\ acc[f].source = go[p]
      BY <1>4, <1>5, <3>1 DEF GraphRowsAre
    <3> QED
      BY <1>3, <1>5, <1>7, <3>1, <3>2 DEF SymbolsOf, Unit
  <2>2. CASE f \in listed
    <3>1. RowsIn(g.symbols, f) = RowsOf(OutlineOf(f, SourceOf(f))) /\ acc[f].source = SourceOf(f)
      BY <1>4, <1>5, <2>2 DEF GraphRowsAre
    <3> QED
      BY <1>3, <1>5, <1>8, <2>2, <3>1 DEF SymbolsOf, Unit
  <2> QED
    BY <1>3, <1>5, <2>1, <2>2
<1>12. \A e \in DOMAIN db'.edges : {e[1], e[2]} \subseteq DOMAIN db'.symbols
  BY <1>3, <1>6
<1>13. SymbolsAreTrue'
  BY <1>10, <1>11, <1>12 DEF SymbolsAreTrue, PrevRows
<1> QED
  BY <1>9, <1>13 DEF IndexInv

LEMMA IndexNextInv == IndexInv /\ [IndexNext]_indexVars => IndexInv'
<1> SUFFICES ASSUME IndexInv, [IndexNext]_indexVars PROVE IndexInv'
  OBVIOUS
<1>1. /\ \A f \in DOMAIN mapper : IsSource(mapper[f])
      /\ DOMAIN go \subseteq ToSet(Load) /\ \A p \in DOMAIN go : IsPackage(go[p])
  BY DEF IndexInv, IndexTypes
<1>2. ASSUME NEW f \in DOMAIN Versions, NEW source \in Versions[f], EditFile(f, source) PROVE IndexInv'
  <2>1. IsSource(source)
    BY IndexAssumption
  <2>2. UNCHANGED <<go, db, past>> /\ mapper' = With(mapper, f, source)
    BY <1>2 DEF EditFile
  <2>3. \A k \in DOMAIN mapper' : IsSource(mapper'[k])
    BY <1>1, <2>1, <2>2 DEF With
  <2> QED
    BY <1>1, <2>2, <2>3, SourcesChange
<1>3. ASSUME NEW f \in DOMAIN Versions, RemoveFile(f) PROVE IndexInv'
  <2>1. UNCHANGED <<go, db, past>> /\ mapper' = Without(mapper, f)
    BY <1>3 DEF RemoveFile
  <2>2. \A k \in DOMAIN mapper' : IsSource(mapper'[k])
    BY <1>1, <2>1 DEF Without
  <2> QED
    BY <1>1, <2>1, <2>2, SourcesChange
<1>4. ASSUME NEW p \in DOMAIN PackageVersions, NEW source \in PackageVersions[p], EditPackage(p, source) PROVE IndexInv'
  <2>1. IsPackage(source) /\ p \in ToSet(Load)
    BY IndexAssumption
  <2>2. UNCHANGED <<mapper, db, past>> /\ go' = With(go, p, source)
    BY <1>4 DEF EditPackage
  <2>3. DOMAIN go' \subseteq ToSet(Load) /\ \A k \in DOMAIN go' : IsPackage(go'[k])
    BY <1>1, <2>1, <2>2 DEF With
  <2> QED
    BY <1>1, <2>2, <2>3, SourcesChange
<1>5. ASSUME NEW p \in DOMAIN PackageVersions, RemovePackage(p) PROVE IndexInv'
  <2>1. UNCHANGED <<mapper, db, past>> /\ go' = Without(go, p)
    BY <1>5 DEF RemovePackage
  <2>2. DOMAIN go' \subseteq ToSet(Load) /\ \A k \in DOMAIN go' : IsPackage(go'[k])
    BY <1>1, <2>1 DEF Without
  <2> QED
    BY <1>1, <2>1, <2>2, SourcesChange
<1>6. CASE ChangeGoTool
  <2>1. UNCHANGED <<mapper, go, db, past>>
    BY <1>6 DEF ChangeGoTool
  <2> QED
    BY <1>1, <2>1, SourcesChange
<1>7. CASE Build
  BY <1>7, BuildInv
<1>8. CASE UNCHANGED indexVars
  <2>1. UNCHANGED <<mapper, go, db, past>>
    BY <1>8 DEF indexVars
  <2> QED
    BY <1>1, <2>1, SourcesChange
<1> QED
  BY <1>2, <1>3, <1>4, <1>5, <1>6, <1>7, <1>8 DEF IndexNext

\* A graph has the symbols of every unit it knows, those of its source or, where it
\* says that it has not read the unit, those of the source it last read; and an
\* edge leads from a symbol of the graph to one (buildIndex of index.go, with
\* mapper_carry.go and carry.go).
THEOREM IndexSymbols == IndexSpec => []SymbolsAreTrue
<1>1. IndexSpec => []IndexInv
  BY IndexInitInv, IndexNextInv, PTL DEF IndexSpec
<1>2. IndexInv => SymbolsAreTrue
  BY DEF IndexInv
<1> QED
  BY <1>1, <1>2, PTL

===============================================================================
