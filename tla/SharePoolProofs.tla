-------------------------- MODULE SharePoolProofs --------------------------
(***************************************************************************)
(* What SharePool keeps for every set of teammates, lessons and scenes:    *)
(* only what was saved as shared or selected for sharing leaves a store,   *)
(* and, where nobody withdraws a lesson, no push loses one of another's.   *)
(***************************************************************************)
EXTENDS SharePool, TLAPS

\* Every line of the pool's history, and every line on its way into it or out of it,
\* was saved as shared or selected.
OfferedInv ==
  /\ OnlyOfferedLeaves
  /\ \A i \in 1..Len(remote) : remote[i] \subseteq offered
  /\ \A p \in Peers : op[p].todo \cup Shared(p) \subseteq offered

\* The lines the remote ever had.
Was == {t \in Texts : \E i \in 1..Len(remote) : t \in remote[i]}
Personal(p) == {t \in Texts : store[p][t] = "personal"}

\* Where lines are only added: a peer passes on its own lessons and what the pool had;
\* its own lessons that reached the pool are shared, and none of those it may take back
\* did; it built on the version it pulled last; and once it rewrites the file it has
\* every line of the pool's that its clone has.
Keeps(p) ==
  /\ clone[p].base <= Len(remote)
  /\ remote[clone[p].base] \subseteq clone[p].head
  /\ clone[p].head \cup clone[p].work \cup op[p].todo \cup Shared(p) \subseteq Was \cup scene.writes[p]
  /\ Personal(p) \subseteq scene.writes[p]
  /\ scene.writes[p] \cap Was \subseteq Shared(p)
  /\ op[p].targets \subseteq scene.writes[p] \ Was
  /\ (Dirty(p) /\ ~clone[p].unmerged) \/ op[p].at \in {"create", "export", "commit", "push"} =>
       clone[p].head \cap Was \subseteq Shared(p)
  /\ At(p, "import") => clone[p].head \cap Was \subseteq Shared(p) \cup op[p].todo
  /\ At(p, "commit") => /\ clone[p].work \subseteq Shared(p)
                        /\ clone[p].head \cap Was \subseteq clone[p].work
  /\ At(p, "push") => clone[p].head \subseteq Shared(p)

GrowthInv == Additive => \A p \in Peers : Keeps(p)

-----------------------------------------------------------------------------
(* Types.                                                                  *)

\* A merge invents no line.
LEMMA MergedOfBoth ==
  ASSUME NEW base, NEW ours, NEW theirs
  PROVE  Merged(base, ours, theirs) \subseteq ours \cup theirs
BY DEF Merged

\* A pull leaves a clone of the pool's lines and its own.
LEMMA PulledTypes ==
  ASSUME TypeOK, NEW p \in Peers
  PROVE  /\ Pulled(p) \in Clones
         /\ Pulled(p).head \subseteq clone[p].head \cup Pool
         /\ Pulled(p).work \subseteq clone[p].work \cup clone[p].head \cup Pool
         /\ Pulled(p).base = Len(remote)
<1>1. Pool \subseteq Texts /\ clone[p] \in Clones
  BY DEF TypeOK, Pool
<1>2. Merged(remote[clone[p].base], clone[p].head, Pool) \subseteq clone[p].head \cup Pool
  BY MergedOfBoth
<1>3. QED
  BY <1>1, <1>2 DEF Pulled, Clones, TypeOK

\* The steps of one peer.
Step(p) ==
  \/ Learn(p) \/ Unshare(p) \/ Delete(p) \/ StartShare(p) \/ StartFetch(p)
  \/ Transport(p) \/ Fault(p) \/ Crash(p)

\* Rows keep one scope each.
LEMMA StoreTypes ==
  ASSUME TypeOK, scene \in Scenes, NEW p \in Peers, Step(p)
  PROVE  store' \in [Peers -> [Texts -> Scopes]]
<1> USE DEF TypeOK, Scopes
<1>1. store[p] \in [Texts -> Scopes]
  OBVIOUS
<1>2. \A f \in [Texts -> Scopes] :
        store' = [store EXCEPT ![p] = f] => store' \in [Peers -> [Texts -> Scopes]]
  OBVIOUS
<1>3. \A t \in Texts, s \in Scopes :
        store' = [store EXCEPT ![p][t] = s] => store' \in [Peers -> [Texts -> Scopes]]
  BY <1>1
<1>4. CASE Learn(p) \/ Unshare(p) \/ Delete(p)
  <2>1. scene.writes[p] \subseteq Texts
    BY PoolAssumption
  <2>2. Learn(p) => \E t \in Texts, scope \in {"personal", "shared"} : store' = [store EXCEPT ![p][t] = scope]
    BY <2>1 DEF Learn
  <2>3. Unshare(p) => \E t \in Texts : store' = [store EXCEPT ![p][t] = "personal"]
    BY DEF Unshare, Shared
  <2>4. Delete(p) => \E t \in Texts : store' = [store EXCEPT ![p][t] = "none"]
    BY DEF Delete, Holds
  <2> QED
    BY <1>3, <1>4, <2>2, <2>3, <2>4
<1>5. CASE StartShare(p)
  <2>1. PICK T \in SUBSET Holds(p) :
          store' = [store EXCEPT ![p] = [t \in Texts |-> IF t \in T THEN "shared" ELSE @[t]]]
    BY <1>5 DEF StartShare
  <2> DEFINE f == [t \in Texts |-> IF t \in T THEN "shared" ELSE store[p][t]]
  <2>2. f \in [Texts -> Scopes] /\ store' = [store EXCEPT ![p] = f]
    BY <1>1, <2>1
  <2> QED
    BY <2>2, <1>2
<1>6. CASE ImportLine(p)
  BY <1>1, <1>3, <1>6 DEF ImportLine, Imported, Ops
<1>7. CASE Revert(p)
  <2> DEFINE f == [t \in Texts |-> IF t \in op[p].targets /\ store[p][t] # "none"
                                   THEN "personal" ELSE store[p][t]]
  <2>1. f \in [Texts -> Scopes] /\ store' = [store EXCEPT ![p] = f]
    BY <1>1, <1>7 DEF Revert
  <2> QED
    BY <2>1, <1>2
<1>8. UNCHANGED store => store' \in [Peers -> [Texts -> Scopes]]
  OBVIOUS
<1> QED
  BY <1>4, <1>5, <1>6, <1>7, <1>8
     DEF Step, Transport, StartFetch, Pull, EndImport, Create, Export, NothingToCommit, Commit,
         PushOk, PushRejected, Fault, Crash

\* The remote and the clones hold versions and lines there are.
LEMMA PoolTypes ==
  ASSUME TypeOK, scene \in Scenes, NEW p \in Peers, Step(p), scene' = scene
  PROVE  /\ remote' \in Seq(SUBSET Texts) /\ Len(remote') \in 1..scene'.versions
         /\ clone' \in [Peers -> Clones']
<1> USE DEF TypeOK, Clones
<1>1. Clones' = Clones /\ clone[p] \in Clones /\ scene.versions \in Nat
  BY PoolAssumption
<1>2. \A c \in Clones : clone' = [clone EXCEPT ![p] = c] => clone' \in [Peers -> Clones]
  OBVIOUS
<1>6. ASSUME Accepted(p)
      PROVE  /\ remote' \in Seq(SUBSET Texts) /\ Len(remote') \in 1..scene'.versions
             /\ clone' \in [Peers -> Clones']
  <2> DEFINE c == [clone[p] EXCEPT !.base = Len(remote) + 1, !.ahead = FALSE]
  <2>1. clone' = [clone EXCEPT ![p] = c]
    BY <1>6 DEF Accepted
  <2>2. remote' = Append(remote, clone[p].head) /\ Len(remote) < scene.versions
    BY <1>6 DEF Accepted
  <2>3. Len(remote) + 1 \in 1..scene.versions
    BY <1>1, <2>2
  <2>4. c \in Clones
    BY <1>1, <2>3
  <2> QED
    BY <1>1, <1>2, <2>1, <2>2, <2>3, <2>4
<1>3. Shared(p) \subseteq Texts /\ Pulled(p) \in Clones /\ Stopped(p) \in Clones
  <2>1. Pool \subseteq Texts
    BY DEF Pool
  <2> QED
    BY <1>1, <2>1, PulledTypes DEF Shared, Stopped
<1>4. \A w \in SUBSET Texts : [clone[p] EXCEPT !.work = w] \in Clones
  BY <1>1
<1>7. [clone[p] EXCEPT !.head = clone[p].work, !.ahead = TRUE] \in Clones
  BY <1>1
<1>8. \/ UNCHANGED clone
      \/ \E c \in {Pulled(p), Stopped(p), [clone[p] EXCEPT !.work = {}], [clone[p] EXCEPT !.work = Shared(p)],
                   [clone[p] EXCEPT !.head = clone[p].work, !.ahead = TRUE]} :
            clone' = [clone EXCEPT ![p] = c]
      \/ Accepted(p)
  BY DEF Step, Transport, Learn, Unshare, Delete, StartShare, StartFetch, Pull, ImportLine,
         EndImport, Create, Export, NothingToCommit, Commit, PushOk, PushRejected, Revert,
         Fault, Crash
<1>5. ~Accepted(p) => UNCHANGED remote
  BY DEF Step, Transport, Learn, Unshare, Delete, StartShare, StartFetch, Pull, ImportLine,
         EndImport, Create, Export, NothingToCommit, Commit, PushOk, PushRejected, Revert,
         Fault, Crash
<1> QED
  <2>1. CASE Accepted(p)
    BY <1>6, <2>1
  <2>2. CASE ~Accepted(p)
    <3>0. ASSUME NEW c \in Clones, clone' = [clone EXCEPT ![p] = c]
          PROVE  clone' \in [Peers -> Clones]
      BY <1>1, <3>0
    <3>1. clone' \in [Peers -> Clones]
      <4>1. CASE UNCHANGED clone
        BY <1>1, <4>1
      <4>2. {Pulled(p), Stopped(p), [clone[p] EXCEPT !.work = {}], [clone[p] EXCEPT !.work = Shared(p)],
             [clone[p] EXCEPT !.head = clone[p].work, !.ahead = TRUE]} \subseteq Clones
        BY <1>3, <1>4, <1>7
      <4> QED
        BY <1>8, <2>2, <3>0, <4>1, <4>2
    <3> QED
      BY <1>1, <1>5, <2>2, <3>1
  <2> QED
    BY <2>1, <2>2

\* An operation is at one of its steps and names lessons there are; a peer at rest
\* carries nothing.
LEMMA OpTypes ==
  ASSUME TypeOK, NEW p \in Peers, Step(p)
  PROVE  op' \in [Peers -> Ops] /\ \A q \in Peers : At(q, "none")' => op'[q] = Idle
<1> USE DEF TypeOK, At, Ops, Steps
<1>1. op[p] \in Ops /\ Idle \in Ops /\ Idle.at = "none"
  BY DEF Idle
<1>2. \A o \in Ops : op' = [op EXCEPT ![p] = o] /\ (o.at = "none" => o = Idle)
        => op' \in [Peers -> Ops] /\ \A q \in Peers : op'[q].at = "none" => op'[q] = Idle
  OBVIOUS
<1>3. \A s \in Steps \ {"none"} : Goto(p, s)
        => op' \in [Peers -> Ops] /\ \A q \in Peers : op'[q].at = "none" => op'[q] = Idle
  <2> TAKE s \in Steps \ {"none"}
  <2> DEFINE o == [op[p] EXCEPT !.at = s]
  <2>1. o \in Ops /\ o.at # "none"
    BY <1>1
  <2>2. Goto(p, s) => op' = [op EXCEPT ![p] = o]
    BY DEF Goto
  <2> QED
    BY <1>2, <2>1, <2>2
<1>4. Done(p) => op' \in [Peers -> Ops] /\ \A q \in Peers : op'[q].at = "none" => op'[q] = Idle
  BY <1>1, <1>2 DEF Done
<1>5. CASE StartShare(p)
  <2>1. PICK T \in SUBSET Holds(p) :
          op' = [op EXCEPT ![p] = [kind |-> "share", at |-> "pull", targets |-> T,
                                   was |-> T \cap Shared(p), todo |-> {}]]
    BY <1>5 DEF StartShare
  <2>2. T \subseteq Texts
    BY DEF Holds
  <2> QED
    BY <1>2, <2>1, <2>2
<1>6. CASE StartFetch(p)
  <2> DEFINE o == [Idle EXCEPT !.kind = "fetch", !.at = "pull"]
  <2>1. o \in Ops /\ o.at = "pull"
    BY DEF Idle
  <2>2. op' = [op EXCEPT ![p] = o]
    BY <1>6 DEF StartFetch
  <2> QED
    BY <1>2, <2>1, <2>2
<1>7. CASE Pull(p)
  <2>1. CASE PullRefused(p) \/ MergeConflicts(p)
    BY <1>3, <1>7, <2>1 DEF Pull
  <2>2. CASE ~PullRefused(p) /\ ~MergeConflicts(p)
    <3>1. Pulled(p).work \subseteq Texts
      BY PulledTypes DEF Clones
    <3> DEFINE o == [op[p] EXCEPT !.at = "import", !.todo = Pulled(p).work]
    <3>2. o \in Ops /\ o.at = "import"
      BY <1>1, <3>1
    <3>3. op' = [op EXCEPT ![p] = o]
      BY <1>7, <2>2 DEF Pull
    <3> QED
      BY <1>2, <3>2, <3>3
  <2> QED
    BY <2>1, <2>2
<1>8. CASE ImportLine(p)
  <2>1. PICK t \in op[p].todo : op' = [op EXCEPT ![p].todo = @ \ {t}]
    BY <1>8 DEF ImportLine
  <2> DEFINE o == [op[p] EXCEPT !.todo = @ \ {t}]
  <2>2. o \in Ops /\ o.at = "import" /\ op' = [op EXCEPT ![p] = o]
    BY <1>1, <1>8, <2>1 DEF ImportLine
  <2> QED
    BY <1>2, <2>2
<1>9. CASE UNCHANGED op
  BY <1>9
<1> QED
  BY <1>3, <1>4, <1>5, <1>6, <1>7, <1>8, <1>9
     DEF Step, Transport, Learn, Unshare, Delete, EndImport, Create, Export, NothingToCommit,
         Commit, PushOk, PushRejected, Revert, Fault, Crash

\* Every step keeps the types.
LEMMA TypeStep ==
  ASSUME TypeOK, scene \in Scenes, Next, scene' = scene
  PROVE  TypeOK'
<1>1. PICK p \in Peers : Step(p)
  BY DEF Next, Step
<1>2. offered' \subseteq Texts
  BY <1>1, PoolAssumption DEF TypeOK, Step, Transport, Learn, Unshare, Delete, StartShare, StartFetch, Pull,
              ImportLine, EndImport, Create, Export, NothingToCommit, Commit, PushOk,
              PushRejected, Revert, Fault, Crash, Holds
<1>3. /\ faults' \in 0..scene'.faults /\ crashes' \in 0..scene'.crashes
  <2>1. scene.faults \in Nat /\ scene.crashes \in Nat
    BY PoolAssumption
  <2> QED
    BY <1>1, <2>1 DEF TypeOK, Step, Transport, Learn, Unshare, Delete, StartShare, StartFetch,
              Pull, ImportLine, EndImport, Create, Export, NothingToCommit, Commit, PushOk,
              PushRejected, Revert, Fault, Crash
<1> QED
  BY <1>1, <1>2, <1>3, StoreTypes, PoolTypes, OpTypes DEF TypeOK

\* The types hold throughout.
THEOREM TypesHold == Spec => [](TypeOK /\ scene \in Scenes)
<1>1. Init => TypeOK /\ scene \in Scenes
  <2> SUFFICES ASSUME Init PROVE TypeOK /\ scene \in Scenes
    OBVIOUS
  <2>1. scene \in Scenes /\ scene.versions \in Nat \ {0} /\ scene.faults \in Nat /\ scene.crashes \in Nat
    BY PoolAssumption DEF Init
  <2>2. remote = <<{}>> /\ remote \in Seq(SUBSET Texts) /\ Len(remote) = 1
    BY DEF Init
  <2> QED
    BY <2>1, <2>2 DEF Init, TypeOK, Clones, Ops, Steps, Scopes, Idle, At
<1>2. TypeOK /\ scene \in Scenes /\ [Next /\ UNCHANGED scene]_vars => (TypeOK /\ scene \in Scenes)'
  <2>1. TypeOK /\ UNCHANGED vars => TypeOK'
    BY DEF TypeOK, vars, rest, Clones, At
  <2> QED
    BY <2>1, TypeStep DEF vars
<1> QED
  BY <1>1, <1>2, PTL DEF Spec

-----------------------------------------------------------------------------
(* What a step touches.                                                    *)

\* A step of one peer leaves the other stores, clones and operations alone.
LEMMA OthersUntouched ==
  ASSUME TypeOK, NEW p \in Peers, Step(p), NEW q \in Peers \ {p}
  PROVE  store'[q] = store[q] /\ clone'[q] = clone[q] /\ op'[q] = op[q]
<1>1. store'[q] = store[q]
  BY DEF TypeOK, Step, Transport, Learn, Unshare, Delete, StartShare, StartFetch, Pull, ImportLine,
         EndImport, Create, Export, NothingToCommit, Commit, PushOk, PushRejected, Revert,
         Fault, Crash
<1>2. clone'[q] = clone[q]
  BY DEF TypeOK, Step, Transport, Learn, Unshare, Delete, StartShare, StartFetch, Pull, ImportLine,
         EndImport, Create, Export, NothingToCommit, Commit, PushOk, PushRejected, Revert,
         Fault, Crash, Accepted
<1>3. op'[q] = op[q]
  BY DEF TypeOK, Step, Transport, Learn, Unshare, Delete, StartShare, StartFetch, Pull, ImportLine,
         EndImport, Create, Export, NothingToCommit, Commit, PushOk, PushRejected, Revert,
         Fault, Crash, Goto, Done
<1> QED
  BY <1>1, <1>2, <1>3

\* The remote's history only grows, by the commit of a push.
LEMMA HistoryGrows ==
  ASSUME TypeOK, NEW p \in Peers, Step(p)
  PROVE  \/ UNCHANGED remote
         \/ /\ At(p, "push") /\ Accepted(p)
            /\ remote' = Append(remote, clone[p].head)
BY DEF Step, Transport, Learn, Unshare, Delete, StartShare, StartFetch, Pull, ImportLine,
       EndImport, Create, Export, NothingToCommit, Commit, PushOk, PushRejected, Revert,
       Fault, Crash, Accepted

\* What a store shares after a step it shared before, was selected in it, or came with
\* the pull.
LEMMA SharedGrows ==
  ASSUME TypeOK, NEW p \in Peers, Step(p)
  PROVE  Shared(p)' \subseteq Shared(p) \cup op[p].todo \cup offered'
<1>1. CASE StartShare(p)
  BY <1>1 DEF StartShare, Shared, TypeOK
<1>2. CASE ImportLine(p)
  BY <1>2 DEF ImportLine, Shared, TypeOK, Imported
<1>3. CASE Revert(p)
  BY <1>3 DEF Revert, Shared, TypeOK
<1>4. CASE Learn(p)
  BY <1>4 DEF Learn, Shared, TypeOK
<1> QED
  BY <1>1, <1>2, <1>3, <1>4
     DEF Step, Transport, Unshare, Delete, StartFetch, Pull, EndImport, Create, Export,
         NothingToCommit, Commit, PushOk, PushRejected, Fault, Crash, Shared, TypeOK

-----------------------------------------------------------------------------
(* Nothing leaves a store that was not saved as shared or selected.        *)

\* Every step keeps the lines of the history and of the clones within the offered ones.
LEMMA OfferedStep ==
  ASSUME OfferedInv, scene \in Scenes, Next, scene' = scene
  PROVE  OfferedInv'
<1>1. PICK p \in Peers : Step(p)
  BY DEF Next, Step
<1>2. TypeOK /\ TypeOK'
  BY TypeStep DEF OfferedInv, OnlyOfferedLeaves
<1>3. offered \subseteq offered'
  BY <1>1 DEF Step, Transport, Learn, Unshare, Delete, StartShare, StartFetch, Pull, ImportLine,
              EndImport, Create, Export, NothingToCommit, Commit, PushOk, PushRejected, Revert,
              Fault, Crash
<1>4. \A i \in 1..Len(remote') : remote'[i] \subseteq offered'
  <2>1. CASE UNCHANGED remote
    BY <1>3, <2>1 DEF OfferedInv
  <2>2. CASE remote' = Append(remote, clone[p].head)
    <3>1. clone[p].head \subseteq offered'
      BY <1>1, <1>3 DEF OfferedInv, OnlyOfferedLeaves
    <3>2. remote \in Seq(SUBSET Texts) /\ Len(remote) \in Nat
      BY <1>2 DEF TypeOK
    <3>3. Len(remote') = Len(remote) + 1 /\ \A i \in 1..Len(remote) : remote'[i] = remote[i]
      BY <2>2, <3>2
    <3>4. remote'[Len(remote) + 1] = clone[p].head
      BY <2>2, <3>2
    <3>5. \A i \in 1..Len(remote) : remote'[i] \subseteq offered'
      BY <1>3, <3>3 DEF OfferedInv
    <3> QED
      BY <3>1, <3>2, <3>3, <3>4, <3>5
  <2> QED
    BY <1>1, <1>2, <2>1, <2>2, HistoryGrows
<1>5. Pool' \subseteq offered' /\ Pool \subseteq offered
  <2>1. Len(remote') \in 1..Len(remote') /\ Len(remote) \in 1..Len(remote)
    BY <1>2 DEF TypeOK
  <2> QED
    BY <1>4, <2>1 DEF Pool, OfferedInv, OnlyOfferedLeaves
<1>6. clone'[p].head \cup clone'[p].work \subseteq offered'
  <2>1. clone[p].head \cup clone[p].work \cup Shared(p) \subseteq offered
    BY <1>1 DEF OfferedInv, OnlyOfferedLeaves
  <2>2. Pulled(p).head \cup Pulled(p).work \subseteq offered
    BY <1>1, <1>2, <1>5, <2>1, PulledTypes
  <2>3. clone'[p].head \cup clone'[p].work
          \subseteq clone[p].head \cup clone[p].work \cup Shared(p) \cup Pulled(p).head \cup Pulled(p).work \cup Pool
    <3> DEFINE Given == {Pulled(p), Stopped(p), [clone[p] EXCEPT !.work = {}], [clone[p] EXCEPT !.work = Shared(p)],
                         [clone[p] EXCEPT !.head = clone[p].work, !.ahead = TRUE]}
    <3>1. clone \in [Peers -> Clones] /\ clone[p] \in Clones
      BY <1>1, <1>2 DEF TypeOK
    <3>2. UNCHANGED clone \/ (\E c \in Given : clone' = [clone EXCEPT ![p] = c]) \/ Accepted(p)
      BY <1>1 DEF Step, Transport, Learn, Unshare, Delete, StartShare, StartFetch, Pull,
                  ImportLine, EndImport, Create, Export, NothingToCommit, Commit, PushOk,
                  PushRejected, Revert, Fault, Crash
    <3>3. CASE UNCHANGED clone
      BY <3>3
    <3>4. ASSUME NEW c \in Given, clone' = [clone EXCEPT ![p] = c]
          PROVE  clone'[p].head \cup clone'[p].work
                   \subseteq clone[p].head \cup clone[p].work \cup Shared(p)
                               \cup Pulled(p).head \cup Pulled(p).work \cup Pool
      <4>1. clone'[p] = c
        BY <1>1, <3>1, <3>4
      <4>2. ASSUME NEW d \in SUBSET Texts, clone'[p] = [clone[p] EXCEPT !.work = d]
            PROVE  clone'[p].head = clone[p].head /\ clone'[p].work = d
        BY <3>1, <4>2 DEF Clones
      <4>3. CASE c = Stopped(p)
        BY <3>1, <4>1, <4>3 DEF Clones, Stopped
      <4>4. CASE c = Pulled(p)
        BY <4>1, <4>4
      <4>5. CASE c = [clone[p] EXCEPT !.work = {}]
        BY <4>1, <4>2, <4>5
      <4>6. CASE c = [clone[p] EXCEPT !.work = Shared(p)]
        <5>1. Shared(p) \in SUBSET Texts
          BY DEF Shared
        <5> QED
          BY <4>1, <4>2, <4>6, <5>1
      <4>7. CASE c = [clone[p] EXCEPT !.head = clone[p].work, !.ahead = TRUE]
        BY <3>1, <4>1, <4>7 DEF Clones
      <4> QED
        BY <3>4, <4>3, <4>4, <4>5, <4>6, <4>7
    <3>5. CASE Accepted(p)
      BY <1>1, <3>1, <3>5 DEF Accepted, Clones
    <3> HIDE DEF Given
    <3> QED
      BY <3>2, <3>3, <3>4, <3>5
  <2> QED
    BY <1>3, <1>5, <2>1, <2>2, <2>3
<1>7. op'[p].todo \subseteq offered'
  <2>1. Pulled(p).work \cup op[p].todo \subseteq offered
    BY <1>1, <1>2, <1>5, PulledTypes DEF OfferedInv, OnlyOfferedLeaves
  <2>2. op'[p].todo \subseteq op[p].todo \cup Pulled(p).work
    <3> USE <1>1, <1>2 DEF TypeOK, Ops
    <3>1. Done(p) \/ UNCHANGED op \/ (\E s \in Steps : Goto(p, s))
            => op'[p].todo \subseteq op[p].todo
      BY DEF Done, Goto, Idle
    <3>2. Pull(p) => op'[p].todo \subseteq op[p].todo \cup Pulled(p).work
      BY DEF Pull, Goto
    <3>3. ImportLine(p) => op'[p].todo \subseteq op[p].todo
      BY DEF ImportLine
    <3>4. StartShare(p) \/ StartFetch(p) => op'[p].todo = {}
      <4>1. StartShare(p) => op'[p].todo = {}
        BY DEF StartShare
      <4>2. StartFetch(p) => op'[p].todo = {}
        BY DEF StartFetch, Idle
      <4> QED
        BY <4>1, <4>2
    <3> QED
      BY <3>1, <3>2, <3>3, <3>4
         DEF Steps, Step, Transport, Learn, Unshare, Delete, EndImport, Create, Export,
             NothingToCommit, Commit, PushOk, PushRejected, Revert, Fault, Crash
  <2> QED
    BY <1>3, <2>1, <2>2
<1>8. Shared(p)' \subseteq offered'
  <2>1. Shared(p) \cup op[p].todo \subseteq offered
    BY <1>1 DEF OfferedInv
  <2> QED
    BY <1>1, <1>2, <1>3, <2>1, SharedGrows
<1>9. ASSUME NEW q \in Peers
      PROVE  /\ clone'[q].head \cup clone'[q].work \subseteq offered'
             /\ op'[q].todo \cup Shared(q)' \subseteq offered'
  <2>1. CASE q = p
    BY <1>6, <1>7, <1>8, <2>1
  <2>2. CASE q # p
    BY <1>1, <1>2, <1>3, <2>2, OthersUntouched DEF OfferedInv, OnlyOfferedLeaves, Shared
  <2> QED
    BY <2>1, <2>2
<1> QED
  BY <1>2, <1>4, <1>5, <1>9 DEF OfferedInv, OnlyOfferedLeaves

\* Nothing is in the file, in a commit or on the remote that no save marked as shared
\* and no user selected.
THEOREM NothingLeavesUnasked == Spec => []OnlyOfferedLeaves
<1>1. Spec => [](TypeOK /\ scene \in Scenes)
  BY TypesHold
<1>2. Init /\ TypeOK => OfferedInv
  BY DEF Init, OfferedInv, OnlyOfferedLeaves, Pool, Shared, Idle
<1>3. OfferedInv /\ scene \in Scenes /\ [Next /\ UNCHANGED scene]_vars => OfferedInv'
  <2>1. OfferedInv /\ UNCHANGED vars => OfferedInv'
    BY DEF OfferedInv, OnlyOfferedLeaves, TypeOK, Clones, At, Pool, Shared, vars, rest
  <2> QED
    BY <2>1, OfferedStep DEF vars
<1>4. OfferedInv => OnlyOfferedLeaves
  BY DEF OfferedInv
<1> QED
  BY <1>1, <1>2, <1>3, <1>4, PTL DEF Spec

-----------------------------------------------------------------------------
(* Where nobody withdraws a lesson, the pool only grows.                   *)

\* What the rules of the scene come to: a lesson is known by itself alone, rows are
\* neither unshared nor deleted, the network works.
LEMMA AdditiveRules ==
  ASSUME TypeOK, scene \in Scenes, Additive, NEW p \in Peers
  PROVE  /\ ~Unshare(p) /\ ~Delete(p) /\ ~Fault(p)
         /\ \A t \in Texts : Known(p, t) <=> t \in Holds(p)
         /\ StartShare(p) => op'[p].targets \subseteq Personal(p)
         /\ scene.writes[p] \subseteq Texts /\ scene.refuses[p] = {}
<1>1. ~Unshare(p) /\ ~Delete(p) /\ ~Fault(p)
  BY DEF Additive, Unshare, Delete, Fault, TypeOK
<1>2. scene.writes[p] \subseteq Texts
  BY PoolAssumption
<1>3. \A t \in Texts : <<t, t>> \in scene.near
  BY PoolAssumption
<1>4. \A t \in Texts : Known(p, t) <=> t \in Holds(p)
  BY <1>3 DEF Additive, Known, Holds
<1>5. StartShare(p) => op'[p].targets \subseteq Personal(p)
  BY DEF StartShare, Additive, Personal, Holds, Shared, TypeOK, Scopes
<1> QED
  BY <1>1, <1>2, <1>4, <1>5 DEF Additive

\* The lines the remote had stay; a push adds those of the commit.
LEMMA WasGrows ==
  ASSUME TypeOK, NEW p \in Peers, Step(p)
  PROVE  /\ Was \subseteq Was'
         /\ \A i \in 1..Len(remote) : remote'[i] = remote[i]
         /\ Len(remote) <= Len(remote')
         /\ UNCHANGED remote => Was' = Was
         /\ ~UNCHANGED remote => Was' = Was \cup clone[p].head
<1>1. UNCHANGED remote => Was' = Was
  BY DEF Was
<1>2. CASE UNCHANGED remote
  BY <1>1, <1>2 DEF TypeOK
<1>3. CASE At(p, "push") /\ Accepted(p) /\ remote' = Append(remote, clone[p].head)
  <2>1. /\ Len(remote') = Len(remote) + 1 /\ remote'[Len(remote) + 1] = clone[p].head
        /\ Len(remote) \in Nat /\ \A i \in 1..Len(remote) : remote'[i] = remote[i]
        /\ clone[p].head \subseteq Texts
    BY <1>3 DEF TypeOK, Clones
  <2>2. \A i \in 1..Len(remote') : i \in 1..Len(remote) \/ i = Len(remote) + 1
    BY <2>1
  <2>3. /\ Len(remote) + 1 \in 1..Len(remote')
        /\ \A i \in 1..Len(remote) : i \in 1..Len(remote')
    BY <2>1
  <2>4. Was' = Was \cup clone[p].head
    BY <2>1, <2>2, <2>3, Zenon DEF Was
  <2> QED
    BY <1>1, <2>1, <2>4
<1> QED
  BY <1>2, <1>3, HistoryGrows

\* A step of another peer breaks nothing of what a peer keeps.
LEMMA OthersKeep ==
  ASSUME TypeOK, scene \in Scenes, scene' = scene, Additive, GrowthInv,
         NEW p \in Peers, Step(p), NEW q \in Peers \ {p}
  PROVE  Keeps(q)'
<1>1. Keeps(p) /\ Keeps(q) /\ scene.writes[p] \cap scene.writes[q] = {}
  BY DEF GrowthInv, Additive
<1>2. store'[q] = store[q] /\ clone'[q] = clone[q] /\ op'[q] = op[q]
  BY OthersUntouched
<1>3. Was \subseteq Was' /\ Was' \cap scene.writes[q] = Was \cap scene.writes[q]
      /\ Was' \cap clone[q].head = Was \cap clone[q].head
  <2>1. clone[p].head \subseteq Was \cup scene.writes[p]
    BY <1>1 DEF Keeps
  <2>2. clone[q].head \subseteq Was \cup scene.writes[q]
    BY <1>1 DEF Keeps
  <2>3. Was' = Was \/ Was' = Was \cup clone[p].head
    BY WasGrows
  <2> QED
    BY <1>1, <2>1, <2>2, <2>3
<1>4. clone[q].base \in 1..Len(remote) /\ Len(remote) \in Nat /\ Len(remote') \in Nat
  BY <1>1, TypeStep DEF Keeps, TypeOK, Clones, Next, Step
<1>5. remote'[clone[q].base] = remote[clone[q].base] /\ clone[q].base <= Len(remote')
  BY <1>4, WasGrows
<1>6. Shared(q)' = Shared(q) /\ Personal(q)' = Personal(q) /\ Dirty(q)' = Dirty(q)
      /\ \A s : At(q, s)' = At(q, s)
  BY <1>2 DEF Shared, Personal, Dirty, At
<1> QED
  BY <1>1, <1>2, <1>3, <1>5, <1>6 DEF Keeps

\* Nor does a step of its own.
LEMMA OwnKeep ==
  ASSUME TypeOK, scene \in Scenes, scene' = scene, Additive, GrowthInv,
         NEW p \in Peers, Step(p)
  PROVE  Keeps(p)'
<1> DEFINE c == clone[p]
           W == scene.writes[p]
<1>1. Keeps(p)
  BY DEF GrowthInv
<1>2. /\ ~Unshare(p) /\ ~Delete(p) /\ ~Fault(p) /\ W \subseteq Texts
      /\ \A t \in Texts : Known(p, t) <=> t \in Holds(p)
      /\ scene.refuses[p] = {}
  BY AdditiveRules
<1>3. /\ c.base \in 1..Len(remote) /\ c.head \subseteq Texts /\ c.work \subseteq Texts
      /\ Len(remote) \in Nat /\ Len(remote) \in 1..Len(remote)
      /\ op[p].targets \subseteq Texts /\ op[p].todo \subseteq Texts
      /\ store[p] \in [Texts -> Scopes]
  BY <1>1 DEF Keeps, TypeOK, Clones, Ops
<1>4. /\ Was \subseteq Texts /\ Pool \subseteq Was
      /\ \A i \in 1..Len(remote) : remote[i] \subseteq Was
  BY <1>3 DEF Was, Pool, TypeOK
<1>5. UNCHANGED remote => Was' = Was
  BY WasGrows
<1>6. CASE Learn(p)
  BY <1>1, <1>2, <1>3, <1>5, <1>6 DEF Learn, Keeps, Shared, Personal, Holds, Dirty, At, TypeOK
<1>7. CASE StartShare(p)
  <2>1. PICK T \in SUBSET Holds(p) :
          /\ store' = [store EXCEPT ![p] = [t \in Texts |-> IF t \in T THEN "shared" ELSE @[t]]]
          /\ op' = [op EXCEPT ![p] = [kind |-> "share", at |-> "pull", targets |-> T,
                                      was |-> T \cap Shared(p), todo |-> {}]]
    BY <1>7 DEF StartShare
  <2>2. op'[p].targets = T /\ op'[p].at = "pull" /\ op'[p].todo = {} /\ T \subseteq Personal(p)
    BY <1>7, <2>1, AdditiveRules DEF TypeOK
  <2>3. UNCHANGED <<remote, clone>>
    BY <1>7 DEF StartShare
  <2>4. Shared(p)' = Shared(p) \cup T /\ Personal(p)' \subseteq Personal(p)
    BY <1>3, <2>1, <2>2 DEF Shared, Personal, Holds, TypeOK
  <2>5. Personal(p) \cap Was = {}
    BY <1>1, <1>3 DEF Keeps, Personal, Shared
  <2> QED
    BY <1>1, <1>5, <2>2, <2>3, <2>4, <2>5 DEF Keeps, Dirty, At
<1>8. CASE StartFetch(p)
  BY <1>1, <1>5, <1>8 DEF StartFetch, Keeps, Shared, Personal, Dirty, At, TypeOK, Idle
<1>9. CASE Pull(p)
  <2> DEFINE n == Pulled(p)
  <2>1. UNCHANGED <<store, remote>> /\ op[p].at = "pull"
    BY <1>9 DEF Pull, At
  <2>4. CASE ~PullRefused(p) /\ MergeConflicts(p)
    <3>1. clone'[p] = Stopped(p) /\ op'[p].at = "failed" /\ op'[p].todo = op[p].todo
          /\ op'[p].targets = op[p].targets
      BY <1>9, <2>4 DEF Pull, Goto, TypeOK, Ops
    <3>2. Stopped(p).base = c.base /\ Stopped(p).head = c.head /\ Stopped(p).unmerged
          /\ Stopped(p).work = c.work \cup Pool
      BY DEF Stopped, TypeOK, Clones
    <3> QED
      BY <1>1, <1>4, <1>5, <2>1, <3>1, <3>2 DEF Keeps, Shared, Personal, Dirty, At
  <2>2. CASE PullRefused(p)
    <3>1. UNCHANGED clone /\ op'[p].at = "failed" /\ op'[p].todo = op[p].todo
          /\ op'[p].targets = op[p].targets
      BY <1>9, <2>2 DEF Pull, Goto, TypeOK, Ops
    <3> QED
      BY <1>1, <1>5, <2>1, <3>1 DEF Keeps, Shared, Personal, Dirty, At
  <2>3. CASE ~PullRefused(p) /\ ~MergeConflicts(p)
    <3>1. clone'[p] = n /\ op'[p].at = "import" /\ op'[p].todo = n.work
          /\ op'[p].targets = op[p].targets
      BY <1>9, <2>3 DEF Pull, TypeOK, Ops
    <3>2. /\ n.base = Len(remote)
          /\ n.head \subseteq c.head \cup Pool /\ n.work \subseteq c.work \cup c.head \cup Pool
      BY PulledTypes
    <3>3. Pool \subseteq n.head
      <4>1. remote[c.base] \subseteq c.head
        BY <1>1 DEF Keeps
      <4>2. ~Behind(p) => c.base = Len(remote)
        BY <1>3 DEF Behind
      <4>3. n.head = IF Diverged(p) THEN Merged(remote[c.base], c.head, Pool)
                     ELSE IF Behind(p) THEN Pool ELSE c.head
        BY DEF Pulled, TypeOK, Clones
      <4> QED
        BY <4>1, <4>2, <4>3 DEF Merged, Pool
    <3>4. CASE Dirty(p)
      <4>1. c.head \cap Was \subseteq Shared(p)
        BY <1>1, <2>3, <3>4 DEF Keeps, PullRefused
      <4>2. Pool \subseteq c.head
        <5>1. Behind(p) => Pool = c.head
          BY <2>3, <3>4 DEF PullRefused
        <5>2. ~Behind(p) => Pool = remote[c.base]
          BY <1>3 DEF Behind, Pool
        <5> QED
          BY <1>1, <5>1, <5>2 DEF Keeps
      <4>3. n.head \cap Was \subseteq Shared(p)
        BY <3>2, <4>1, <4>2
      <4> QED
        BY <1>1, <1>3, <1>4, <1>5, <2>1, <3>1, <3>2, <3>3, <4>3
           DEF Keeps, Shared, Personal, Dirty, At, Pool
    <3>5. CASE ~Dirty(p)
      <4>1. n.work = n.head
        BY <3>5 DEF Pulled, TypeOK, Clones
      <4> QED
        BY <1>1, <1>3, <1>4, <1>5, <2>1, <3>1, <3>2, <3>3, <4>1
           DEF Keeps, Shared, Personal, Dirty, At, Pool
    <3> QED
      BY <3>4, <3>5
  <2> QED
    BY <2>2, <2>3, <2>4
<1>10. CASE ImportLine(p)
  <2>1. PICK t \in op[p].todo : /\ store' = [store EXCEPT ![p][t] = Imported(p, t)]
                                /\ op' = [op EXCEPT ![p].todo = @ \ {t}]
    BY <1>10 DEF ImportLine
  <2>2. op'[p].todo = op[p].todo \ {t} /\ op'[p].targets = op[p].targets /\ op'[p].at = "import"
        /\ UNCHANGED <<remote, clone>>
    BY <1>10, <2>1 DEF ImportLine, TypeOK, Ops, At
  <2>3. t \in Texts /\ op[p].at = "import"
    BY <1>3, <1>10 DEF ImportLine, At
  <2>4. CASE t \in Holds(p)
    <3>1. store' = store
      BY <1>2, <2>1, <2>3, <2>4 DEF Imported, TypeOK
    <3>2. t \in Shared(p) \/ t \in Personal(p)
      BY <1>3, <2>3, <2>4 DEF Holds, Shared, Personal, Scopes
    <3>3. t \in Was => t \in Shared(p)
      BY <1>1, <3>2 DEF Keeps
    <3> QED
      BY <1>1, <1>5, <2>2, <2>3, <3>1, <3>3 DEF Keeps, Shared, Personal, Dirty, At
  <2>5. CASE t \notin Holds(p)
    <3>1. Shared(p)' = Shared(p) \cup {t} /\ Personal(p)' = Personal(p)
      BY <1>2, <1>3, <2>1, <2>3, <2>5 DEF Imported, TypeOK, Holds, Shared, Personal
    <3> QED
      BY <1>1, <1>5, <2>2, <2>3, <3>1 DEF Keeps, Dirty, At
  <2> QED
    BY <2>4, <2>5
<1>11. CASE EndImport(p)
  <2>1. UNCHANGED <<store, remote, clone>> /\ op[p].todo = {} /\ op[p].at = "import"
    BY <1>11 DEF EndImport, At
  <2>2. \/ op'[p] = Idle
        \/ op'[p].at = "create" /\ op'[p].todo = {} /\ op'[p].targets = op[p].targets
    BY <1>11, <2>1 DEF EndImport, Done, Goto, TypeOK, Ops
  <2>3. clone[p].head \cap Was \subseteq Shared(p)
    BY <1>1, <2>1 DEF Keeps, At
  <2> QED
    BY <1>1, <1>5, <2>1, <2>2, <2>3 DEF Keeps, Shared, Personal, Dirty, At, Idle
<1>12. CASE Create(p)
  BY <1>1, <1>5, <1>12 DEF Create, Keeps, Shared, Personal, Dirty, At, TypeOK, Goto
<1>13. CASE Export(p)
  BY <1>1, <1>5, <1>13 DEF Export, Keeps, Shared, Personal, Dirty, At, TypeOK, Goto
<1>14. CASE NothingToCommit(p)
  BY <1>1, <1>5, <1>14 DEF NothingToCommit, Keeps, Shared, Personal, Dirty, At, TypeOK, Done, Idle
<1>15. CASE Commit(p)
  BY <1>1, <1>3, <1>4, <1>5, <1>15 DEF Commit, Keeps, Shared, Personal, Dirty, At, TypeOK, Goto
<1>16. CASE PushOk(p)
  <2>1. /\ op[p].at = "push" /\ op'[p] = Idle /\ store' = store
        /\ remote' = Append(remote, c.head)
        /\ clone'[p] = [c EXCEPT !.base = Len(remote) + 1, !.ahead = FALSE]
    BY <1>16 DEF PushOk, Accepted, Done, TypeOK, At
  <2>2. /\ clone'[p].base = Len(remote) + 1
        /\ clone'[p].head = c.head /\ clone'[p].work = c.work
    BY <2>1 DEF TypeOK, Clones
  <2>3. Len(remote') = Len(remote) + 1 /\ remote'[Len(remote) + 1] = c.head
    BY <1>3, <2>1 DEF TypeOK
  <2>4. Was' = Was \cup c.head
    BY <1>3, <2>3, WasGrows
  <2>5. c.head \subseteq Shared(p)
    BY <1>1, <2>1 DEF Keeps, At
  <2>6. Shared(p)' = Shared(p) /\ Personal(p)' = Personal(p)
    BY <2>1 DEF Shared, Personal
  <2> QED
    BY <1>1, <1>3, <2>1, <2>2, <2>3, <2>4, <2>5, <2>6 DEF Keeps, At, Idle
<1>17. CASE PushRejected(p)
  BY <1>1, <1>5, <1>17 DEF PushRejected, Keeps, Shared, Personal, Dirty, At, TypeOK, Goto
<1>18. CASE Revert(p)
  BY <1>1, <1>3, <1>5, <1>18 DEF Revert, Keeps, Shared, Personal, Dirty, At, TypeOK, Done, Idle
<1>19. CASE Crash(p)
  BY <1>1, <1>5, <1>19 DEF Crash, Keeps, Shared, Personal, Dirty, At, TypeOK, Done, Idle
<1> QED
  BY <1>2, <1>6, <1>7, <1>8, <1>9, <1>10, <1>11, <1>12, <1>13, <1>14, <1>15, <1>16, <1>17, <1>18,
     <1>19 DEF Step, Transport

\* Where lines are only added, every peer keeps the pool's.
LEMMA GrowthHolds == Spec => []GrowthInv
<1>1. Spec => [](TypeOK /\ scene \in Scenes)
  BY TypesHold
<1>2. Init /\ scene \in Scenes => GrowthInv
  <2> SUFFICES ASSUME Init, NEW p \in Peers PROVE Keeps(p)
    BY DEF GrowthInv
  <2>1. /\ remote = <<{}>> /\ Len(remote) = 1 /\ remote[1] = {}
        /\ clone[p] = [base |-> 1, head |-> {}, ahead |-> FALSE, work |-> {}, unmerged |-> FALSE]
        /\ op[p] = Idle /\ \A t \in Texts : store[p][t] = "none"
    BY DEF Init
  <2>2. Was = {} /\ Shared(p) = {} /\ Personal(p) = {}
    BY <2>1 DEF Was, Shared, Personal
  <2> QED
    BY <2>1, <2>2 DEF Keeps, Dirty, At, Idle
<1>3. /\ GrowthInv /\ TypeOK /\ scene \in Scenes /\ [Next /\ UNCHANGED scene]_vars
      => GrowthInv'
  <2> SUFFICES ASSUME GrowthInv, TypeOK, scene \in Scenes, [Next /\ UNCHANGED scene]_vars, Additive'
               PROVE  \A q \in Peers : Keeps(q)'
    BY DEF GrowthInv
  <2>1. CASE UNCHANGED vars
    BY <2>1 DEF GrowthInv, Keeps, Additive, Dirty, At, Was, Shared, Personal, vars, rest
  <2>2. CASE Next /\ UNCHANGED scene
    <3>1. Additive
      BY <2>2 DEF Additive
    <3>2. PICK p \in Peers : Step(p)
      BY <2>2 DEF Next, Step
    <3>3. Keeps(p)'
      BY <2>2, <3>1, <3>2, OwnKeep
    <3>4. \A q \in Peers \ {p} : Keeps(q)'
      BY <2>2, <3>1, <3>2, OthersKeep
    <3> QED
      BY <3>3, <3>4
  <2> QED
    BY <2>1, <2>2 DEF vars
<1> QED
  BY <1>1, <1>2, <1>3, PTL DEF Spec

\* No push removes a line from the pool, although each rewrites the whole file.
THEOREM PoolLosesNothing == Spec => PoolOnlyGrows
<1>1. Spec => [](TypeOK /\ scene \in Scenes) /\ []GrowthInv
  BY TypesHold, GrowthHolds
<1>2. TypeOK /\ GrowthInv /\ [Next /\ UNCHANGED scene]_vars => [NoLineLost]_vars
  <2> SUFFICES ASSUME TypeOK, GrowthInv, Next, Additive, remote' # remote
               PROVE  Pool \subseteq Pool'
    BY DEF NoLineLost
  <2>1. PICK p \in Peers : Step(p)
    BY DEF Next, Step
  <2>2. At(p, "push") /\ Accepted(p) /\ remote' = Append(remote, clone[p].head)
    BY <2>1, HistoryGrows
  <2>3. Keeps(p)
    BY DEF GrowthInv
  <2>4. clone[p].base = Len(remote)
    BY <2>2, <2>3 DEF Accepted, Behind, Keeps, TypeOK, Clones
  <2>5. Pool \subseteq clone[p].head
    BY <2>3, <2>4 DEF Keeps, Pool
  <2>6. Pool' = clone[p].head
    BY <2>2 DEF Pool, TypeOK, Clones
  <2> QED
    BY <2>5, <2>6
<1> QED
  BY <1>1, <1>2, PTL DEF Spec, PoolOnlyGrows
=============================================================================
