---------------------------- MODULE MCMemoryStore ----------------------------
(* Instances of MemoryStore: four texts, the second near the first and the   *)
(* fourth the first with a secret in it, over two tasks.  A fingerprint is a *)
(* bag of words, so one of task b equals one of task a.                      *)
EXTENDS MemoryStore, TLC

CONSTANTS w1, w2

MCTexts == {"t1", "t2", "t3", "raw1"}
MCScrub == [t \in MCTexts |-> IF t = "raw1" THEN "t1" ELSE t]
MCPrints == Tasks \X Kinds \X MCTexts
MCFingerprint ==
  [x \in MCPrints |-> IF x = <<"b", "user_rule", "t3">> THEN <<"a", "user_rule", "t1">> ELSE x]

Save(task, kind, scope, text) ==
  [task |-> task, kind |-> kind, origin |-> "manual", scope |-> scope, text |-> text, tags |-> "plain",
   force |-> FALSE, dry |-> FALSE, supersede |-> FALSE, authored |-> 0, imported |-> FALSE]
Force(q) == [q EXCEPT !.force = TRUE]
Supersede(q) == [q EXCEPT !.supersede = TRUE]
DryRun(q) == [q EXCEPT !.dry = TRUE]
Auto(q) == [q EXCEPT !.origin = "auto"]
Import(q, authored) == [q EXCEPT !.scope = "shared", !.authored = authored, !.imported = TRUE]

Rule(text) == Save("a", "user_rule", "", text)
Recap(text) == Save("a", Summary, "", text)

\* Two rows an earlier version left: one unscrubbed, one whose stored fingerprint
\* is of the old normalizer.  In the second corpus the first row's new fingerprint
\* is still held by the second one when the UPDATE runs.
OldRow(id, text, print) ==
  [id |-> id, task |-> "a", kind |-> "user_rule", origin |-> "manual",
   scope |-> "personal", text |-> text, tags |-> IF text = "t3" THEN "token" ELSE "plain",
   print |-> <<"a", "user_rule", print>>,
   created |-> 0, updated |-> 0, authored |-> 0, expanded |-> 0]
OldStores ==
  {{OldRow(1, "raw1", "raw1"), OldRow(2, "t3", "t3")},
   {OldRow(1, "raw1", "raw1"), OldRow(2, "t3", "t1")},
   {OldRow(1, "raw1", "raw1"), OldRow(2, "t1", "t1")}}

\* Tags make no difference to what is near here.
WithTags(pairs) ==
  { << <<p[1], x>>, <<p[2], y>> >> : p \in pairs, x \in TagLists, y \in TagLists }
NearItself == WithTags({<<t, t>> : t \in MCTexts})
NearPair == NearItself \cup WithTags({<<"t1", "t2">>, <<"t2", "t1">>})

\* Dedupe, forced corrections and the pool over knowledge rows.
Lessons ==
  [requests |-> {Rule("t1"), Force(Rule("t2")), Import(Rule("t3"), 9),
                 Force(Save("b", "user_rule", "shared", "t3"))},
   commands |-> {"share"}, corpora |-> {}, near |-> NearPair, ids |-> 3]

\* Supersession; a pattern may name a rule as what it supersedes.
Replacements ==
  [requests |-> {Rule("t1"), Rule("t3"), Supersede(Rule("t2")),
                 Supersede(Save("a", "task_pattern", "", "t2"))},
   commands |-> {"share"}, corpora |-> {}, near |-> NearPair, ids |-> 3]

\* Saves before and after a rescrub; an old row has a secret in its tags, and so
\* would a new one.
Tagged(q) == [q EXCEPT !.tags = "token"]
Rescrubs ==
  [requests |-> {Rule("t2"), Force(Rule("raw1")), DryRun(Rule("t3")), Tagged(Rule("t1"))},
   commands |-> {"prune", "migrate"}, corpora |-> OldStores, near |-> NearPair, ids |-> 3]

\* Retention of manual summaries next to imported ones.
Recaps ==
  [requests |-> {Recap("t1"), Recap("t2"), Recap("t3"), Import(Recap("t1"), 1), Import(Recap("t3"), 1)},
   commands |-> {"share"}, corpora |-> {}, near |-> NearItself, ids |-> 4]

\* The auto budget.
Autos ==
  [requests |-> {Auto(Recap("t1")), Auto(Recap("t2")), Auto(Recap("t3")), Auto(Save("b", Summary, "", "t1"))},
   commands |-> {"get"}, corpora |-> {}, near |-> NearItself, ids |-> 4]

SafetyScenes == {Lessons, Replacements, Rescrubs, Recaps, Autos}

\* One disagreement each, in this order: FingerprintIsOfContent,
\* ForcedSaveOverwrites, MismatchedSupersedeIsNoOp, OmittedScopeIsShared,
\* BaselineCoversTags.
Only(requests) == [Lessons EXCEPT !.requests = requests, !.commands = {}]
OtherTasksTwin == {Only({Rule("t1"), Force(Save("b", "user_rule", "", "t3"))})}
StaleForce == {Only({Rule("t1"), Force(Rule("t2"))})}
OtherScopesTarget == {Only({Rule("t1"), Supersede(Save("a", "user_rule", "shared", "t2"))})}
OmittedScope == {Only({Rule("t1")})}
OldTags == {[Rescrubs EXCEPT !.requests = {}]}

Disagreements == OtherTasksTwin \cup StaleForce \cup OtherScopesTarget \cup OmittedScope
MCRequests == UNION {s.requests : s \in SafetyScenes \cup Disagreements}

WriterSymmetry == Permutations(Writers)
=============================================================================
