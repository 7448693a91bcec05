---------------------------- MODULE MCHostConfig ----------------------------
(* The hosts' files as commands find them.                                 *)
EXTENDS HostConfig

MCBinary == {"old", "new"}
MCHook == MCBinary \cup {"lint", "alike"}
\* The user's own script may hold the words.
MCSessionHook == MCBinary \cup {"alike"}

Lint == [matcher |-> "", cmds |-> {"lint"}]
Ours(m, b) == [matcher |-> m, cmds |-> {b}]
Json(tool, stop) ==
  [file |-> "json", hooks |-> "object", odd |-> {},
   entries |-> [PostToolUse |-> tool, Stop |-> stop, Notification |-> <<>>]]

NoConfig == [file |-> "absent", mcp |-> "absent", ours |-> "none", others |-> {}]

\* Only codex is installed and nothing was ever configured.
Clean == [settings |-> NoSettings, text |-> <<>>, codex |-> <<>>, opencode |-> NoConfig,
          registry |-> "none", detected |-> {"codex"}, scopes |-> {"user"}, self |-> "new"]

\* An earlier release under another path: a stale hook among the user's, a
\* drifted matcher, a duplicate, a hook of the user in an entry of ours, another
\* that is named alike, and a registration of the daemon; a comment in our table.
Shared(m) == [matcher |-> m, cmds |-> {"lint", "new"}]
Alike == [matcher |-> "", cmds |-> {"alike"}]
Upgraded ==
  [Clean EXCEPT
     !.settings = Json(<<Lint, Ours("edits", "old"), Lint, Ours("", "new")>>, <<Alike, Shared(""), Ours("", "new")>>),
     !.text = <<"rules", "newline", "memory">>, !.registry = "http",
     !.codex = <<"table", "ours", "old", "comment", "table">>]

\* The user's own configuration, with a block reworded by hand.
UserMade ==
  [Clean EXCEPT
     !.settings = Json(<<>>, <<Lint>>), !.text = <<"rules", "newline", Reworded["memory"]>>,
     !.codex = <<"key", "table">>, !.detected = Host,
     !.opencode = [NoConfig EXCEPT !.file = "json", !.mcp = "object", !.others = {"search"}]]

\* Files that cannot be edited, or not without loss.
Garbled == [UserMade EXCEPT !.settings = [NoSettings EXCEPT !.file = "garbled"],
                         !.opencode = [NoConfig EXCEPT !.file = "garbled"]]
Odd == [UserMade EXCEPT !.settings = [NoSettings EXCEPT !.file = "json", !.hooks = "object", !.odd = {"Stop"}], !.text = <<"memory">>,
                     !.opencode = [NoConfig EXCEPT !.file = "json", !.mcp = "scalar"]]

\* The same in a project.
InProject(m) == [m EXCEPT !.scopes = {"project"}]

AllMachines == {Clean, Upgraded, UserMade, Garbled, Odd, InProject(UserMade)}

\* Where OnlyWiringGoes fails: a hook of the user in an entry of ours, or named
\* alike; a "hooks" key that is no object, an event that is no list.
Mixed == {[UserMade EXCEPT !.settings = Json(<<Shared("edits")>>, <<>>)]}
NamedAlike == {[UserMade EXCEPT !.settings = Json(<<>>, <<Alike>>)]}
Scalar == {[UserMade EXCEPT !.settings = [NoSettings EXCEPT !.file = "json", !.hooks = "scalar"]]}
OddEvent == {Odd}
\* Our table commented out.
CommentedOut == {[UserMade EXCEPT !.codex = <<"mention", "table">>]}
OnlyUpgraded == {Upgraded}
OnlyUsers == {UserMade}
\* A block of ours that the user has copied.
Copied == {[UserMade EXCEPT !.text = <<"memory", "rules", "memory">>]}

MCUserHooks == {[event |-> "Stop", entry |-> Lint]}
MCUserLines == {<<"comment", "table">>}
=============================================================================
