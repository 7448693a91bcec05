------------------------------ MODULE HostConfig ------------------------------
(***************************************************************************)
(* cmd_install.go and cmd_uninstall.go: the files of three agent hosts     *)
(* that droids-mem edits and the user owns.                                *)
(*   settings[s]  settings.json of a scope: a list of hook entries per     *)
(*                event; an entry runs a set of commands                   *)
(*   text[s]      CLAUDE.md of a scope: pieces of text in order; an absent *)
(*                file is an empty one                                     *)
(*   agents       AGENTS.md of the project                                 *)
(*   codex        config.toml: its lines, without blank ones               *)
(*   opencode     opencode.json: the servers under its "mcp" key           *)
(*   registry     what the claude CLI has registered under our name        *)
(* A command that runs a binary's session hook is named by that binary;    *)
(* other commands may hold the words "session hook" too.                    *)
(* A whole command of the program is one step.                             *)
(***************************************************************************)
EXTENDS Listings, SequencesExt

CONSTANTS
  Binary,      \* the paths this program may be installed under
  Hook,        \* the commands an entry of settings.json may run
  SessionHook, \* those that hold the words "session hook", the ones of Binary included
  Machines,    \* what the program may find when it is first run
  UserHooks,   \* the entries a user may add, each with its event
  UserLines,   \* what a user may add at the end of config.toml
  MaxEdits     \* edits of the user that one behaviour contains

VARIABLES settings, text, agents, codex, opencode, registry, detected,
          scopes,  \* the scopes this user installs into, fixed by Init
          self,    \* the path of the binary the user runs
          last,    \* the last command, "none" after an edit
          edits    \* the number of edits so far

files == <<settings, text, agents, codex, opencode, registry>>
hostVars == <<files, detected, scopes, self, last, edits>>

Scope == {"user", "project"}
Host == {"codex", "opencode"}

\* The events droids-mem hooks and their matchers; Stop stands for the four
\* events that have none.
ClaudeHookEvents == [PostToolUse |-> "edits", Stop |-> ""]

\* One event that is the user's alone.
Event == DOMAIN ClaudeHookEvents \cup {"Notification"}

\* What a settings file is before anybody wrote it; odd are the events whose value
\* is no list.
NoSettings == [file |-> "absent", hooks |-> "absent", odd |-> {}, entries |-> [e \in Event |-> <<>>]]

\* Of the places of a sequence the first.
Least(S) == CHOOSE k \in S : \A j \in S : k <= j

(***************************************************************************)
(* settings.json                                                           *)
(***************************************************************************)

EntryHasSessionHook(entry) == entry.cmds \cap SessionHook # {}

HookEntryExists(entry, bin) == bin \in entry.cmds

NewHookEntry(event, bin) == [matcher |-> ClaudeHookEvents[event], cmds |-> {bin}]

\* A merge that leaves what an earlier release registered.
MergeEventStacking(entries, event, bin) ==
  IF \E k \in DOMAIN entries : HookEntryExists(entries[k], bin) THEN entries
  ELSE Append(entries, NewHookEntry(event, bin))

\* The entries of one event after a merge: the foreign ones, the first of ours
\* that is current, and a new one at the end when none is.
MergeEvent(entries, event, bin) ==
  LET foreign == {k \in DOMAIN entries : ~ EntryHasSessionHook(entries[k])}
      current == {k \in DOMAIN entries \ foreign :
                     /\ entries[k].matcher = ClaudeHookEvents[event]
                     /\ HookEntryExists(entries[k], bin)}
  IN  IF current = {} THEN Append(Pick(entries, foreign), NewHookEntry(event, bin))
      ELSE Pick(entries, foreign \cup {Least(current)})

\* What is no object, or no list, is taken for an empty one and written over.
MergeHooksInto(s, bin) ==
  [file |-> "json", hooks |-> "object", odd |-> s.odd \ DOMAIN ClaudeHookEvents,
   entries |-> [e \in Event |-> IF e \in DOMAIN ClaudeHookEvents
                                THEN MergeEvent(s.entries[e], e, bin) ELSE s.entries[e]]]

\* A file that holds none of ours is not written again.
RemoveHooksFrom(s) ==
  LET kept == [e \in Event |->
                 IF e \in DOMAIN ClaudeHookEvents
                 THEN Pick(s.entries[e], {k \in DOMAIN s.entries[e] : ~ EntryHasSessionHook(s.entries[e][k])})
                 ELSE s.entries[e]]
  IN  IF kept = s.entries THEN s
      ELSE [s EXCEPT !.entries = kept,
                     !.hooks = IF s.odd = {} /\ \A e \in Event : kept[e] = <<>>
                               THEN "absent" ELSE "object"]

(***************************************************************************)
(* CLAUDE.md and AGENTS.md                                                 *)
(***************************************************************************)

\* A block the user (or an older release) worded differently.
Reworded == [memory |-> "memory, reworded", graph |-> "graph, reworded"]

Rewording(t, block) == [k \in DOMAIN t |-> IF t[k] = block THEN Reworded[block] ELSE t[k]]

HasMarker(t, block) == Contains(t, block) \/ Contains(t, Reworded[block])

AppendBlock(t, block) ==
  IF HasMarker(t, block) THEN t
  ELSE IF t = <<>> THEN <<block>> ELSE t \o <<"newline", block>>

\* The block with the newline the append put before it, or else the bare block;
\* a reworded one is left to the user.
RemoveBlock(t, block) ==
  LET at == {k \in DOMAIN t : t[k] = block}
      spaced == {k \in at : k > 1 /\ t[k - 1] = "newline"}
  IN  IF spaced # {} THEN Pick(t, DOMAIN t \ {Least(spaced) - 1, Least(spaced)})
      ELSE IF at # {} THEN Pick(t, DOMAIN t \ {Least(at)}) ELSE t

RemoveBlocks(t) == RemoveBlock(RemoveBlock(t, "memory"), "graph")

(***************************************************************************)
(* The other hosts                                                         *)
(***************************************************************************)

\* The marker is looked for anywhere in the text, in a comment too.
InstallCodex(lines, bin) ==
  IF Contains(lines, "ours") \/ Contains(lines, "mention") THEN lines
  ELSE lines \o <<"ours", bin>>

IsHeader(line) == line \in {"ours", "sub", "table"}

\* A scan that misses the next header.
UninstallCodexToEnd(lines) ==
  LET at == {k \in DOMAIN lines : lines[k] = "ours"}
  IN  IF at = {} THEN lines ELSE Pick(lines, {k \in DOMAIN lines : k < Least(at)})

\* All but our header and the lines before the next header.
UninstallCodex(lines) ==
  LET at == {k \in DOMAIN lines : lines[k] = "ours"}
  IN  IF at = {} THEN lines
      ELSE Pick(lines, {k \in DOMAIN lines :
                          k < Least(at) \/ \E j \in Least(at) + 1 .. k : IsHeader(lines[j])})

CanInstallOpencode(config) == config.file # "garbled" /\ config.mcp # "scalar"

InstallOpencode(config, bin) ==
  IF ~ CanInstallOpencode(config) \/ config.ours # "none" THEN config
  ELSE [config EXCEPT !.file = "json", !.mcp = "object", !.ours = bin]

UninstallOpencode(config) ==
  IF config.ours = "none" THEN config
  ELSE [config EXCEPT !.ours = "none", !.mcp = IF config.others = {} THEN "absent" ELSE "object"]

\* The CLI is missing, works, or refuses to add and to remove what it is told.
Cli == {"missing", "works", "rejects"}

\* Remove first, whatever is registered; then add.
RegisterClaudeMCP(bin, cli) ==
  CASE cli = "missing" -> registry
    [] cli = "works"   -> bin
    [] cli = "rejects" -> "none"

UnregisterClaudeMCP(cli) == IF cli = "works" THEN "none" ELSE registry

(***************************************************************************)
(* The commands                                                            *)
(***************************************************************************)

InitFrom(machines) ==
  \E m \in machines :
    /\ settings = [s \in Scope |-> IF s \in m.scopes THEN m.settings ELSE NoSettings]
    /\ text = [s \in Scope |-> IF s \in m.scopes THEN m.text ELSE <<>>]
    /\ agents = <<>>
    /\ codex = m.codex
    /\ opencode = m.opencode
    /\ registry = m.registry
    /\ detected = m.detected
    /\ scopes = m.scopes
    /\ self = m.self
    /\ last = [op |-> "none"]
    /\ edits = 0

\* droids-mem install [--all] [--project]. A settings file that cannot be
\* parsed ends the command; after that each step is taken on its own.
InstallClaude(s, all, cli) ==
  LET hosts == {h \in detected : h = "codex" \/ CanInstallOpencode(opencode)}
      withMemory == AppendBlock(text[s], "memory")
  IN  /\ settings[s].file # "garbled"
      /\ settings' = [settings EXCEPT ![s] = MergeHooksInto(@, self)]
      /\ IF ~ all THEN UNCHANGED <<text, agents, codex, opencode, registry>>
         ELSE /\ registry' = RegisterClaudeMCP(self, cli)
              /\ text' = [text EXCEPT ![s] = IF cli = "works" THEN AppendBlock(withMemory, "graph")
                                             ELSE withMemory]
              /\ codex' = IF "codex" \in hosts THEN InstallCodex(codex, self) ELSE codex
              /\ opencode' = IF "opencode" \in hosts THEN InstallOpencode(opencode, self) ELSE opencode
              /\ agents' = IF s = "project" /\ hosts # {} THEN AppendBlock(agents, "graph") ELSE agents
      /\ last' = [op |-> "install", scope |-> s, all |-> all, cli |-> cli]
      /\ UNCHANGED <<detected, scopes, self, edits>>

\* droids-mem install --host h [--project].
InstallHost(h, project) ==
  /\ h = "opencode" => CanInstallOpencode(opencode)
  /\ codex' = IF h = "codex" THEN InstallCodex(codex, self) ELSE codex
  /\ opencode' = IF h = "opencode" THEN InstallOpencode(opencode, self) ELSE opencode
  /\ detected' = detected \cup {h}
  /\ agents' = IF project THEN AppendBlock(agents, "graph") ELSE agents
  /\ last' = [op |-> "install host", host |-> h, project |-> project]
  /\ UNCHANGED <<settings, text, registry, scopes, self, edits>>

\* droids-mem uninstall [--all] [--project]; what --all does to the daemon and
\* the state directory is in module Daemon.
UninstallClaude(s, all, cli) ==
  /\ settings[s].file # "garbled"
  /\ settings' = [settings EXCEPT ![s] = RemoveHooksFrom(@)]
  /\ IF ~ all THEN UNCHANGED <<text, agents, codex, opencode, registry>>
     ELSE /\ registry' = UnregisterClaudeMCP(cli)
          /\ text' = [text EXCEPT ![s] = RemoveBlocks(@)]
          /\ codex' = UninstallCodex(codex)
          /\ opencode' = UninstallOpencode(opencode)
          /\ agents' = IF s = "project" THEN RemoveBlock(agents, "graph") ELSE agents
  /\ last' = [op |-> "uninstall", scope |-> s, all |-> all, cli |-> cli]
  /\ UNCHANGED <<detected, scopes, self, edits>>

\* droids-mem uninstall --host h [--project].
UninstallHost(h, project) ==
  /\ h = "opencode" => opencode.file # "garbled"
  /\ codex' = IF h = "codex" THEN UninstallCodex(codex) ELSE codex
  /\ opencode' = IF h = "opencode" THEN UninstallOpencode(opencode) ELSE opencode
  /\ agents' = IF project THEN RemoveBlock(agents, "graph") ELSE agents
  /\ last' = [op |-> "uninstall host", host |-> h, project |-> project]
  /\ UNCHANGED <<settings, text, registry, detected, scopes, self, edits>>

\* os.WriteFile truncates before it writes: a command killed there leaves an
\* empty settings file, which no longer parses.
KilledInWrite(s) ==
  /\ settings[s].file = "json"
  /\ settings' = [settings EXCEPT ![s] = [NoSettings EXCEPT !.file = "garbled"]]
  /\ last' = [op |-> "killed"]
  /\ UNCHANGED <<text, agents, codex, opencode, registry, detected, scopes, self, edits>>

(***************************************************************************)
(* The user                                                                *)
(***************************************************************************)

UserStep ==
  /\ edits < MaxEdits
  /\ edits' = edits + 1
  /\ last' = [op |-> "none"]

\* The program is reinstalled under another path.
MoveBinary(b) ==
  /\ UserStep
  /\ b # self
  /\ self' = b
  /\ UNCHANGED <<files, detected, scopes>>

AddHook(s, e, entry) ==
  /\ UserStep
  /\ settings[s].file = "json"
  /\ settings' = [settings EXCEPT ![s].hooks = "object", ![s].odd = @ \ {e},
                                      ![s].entries[e] = Append(@, entry)]
  /\ UNCHANGED <<text, agents, codex, opencode, registry, detected, scopes, self>>

Write(s) ==
  /\ UserStep
  /\ text' = [text EXCEPT ![s] = Append(@, "rules")]
  /\ UNCHANGED <<settings, agents, codex, opencode, registry, detected, scopes, self>>

Reword(s, block) ==
  /\ UserStep
  /\ Contains(text[s], block)
  /\ text' = [text EXCEPT ![s] = Rewording(@, block)]
  /\ UNCHANGED <<settings, agents, codex, opencode, registry, detected, scopes, self>>

AddLines(lines) ==
  /\ UserStep
  /\ "codex" \in detected
  /\ codex' = codex \o lines
  /\ UNCHANGED <<settings, text, agents, opencode, registry, detected, scopes, self>>

Commands ==
  \/ \E s \in scopes, cli \in Cli : InstallClaude(s, TRUE, cli) \/ UninstallClaude(s, TRUE, cli)
  \/ \E s \in scopes : InstallClaude(s, FALSE, "missing") \/ UninstallClaude(s, FALSE, "missing")
  \/ \E h \in Host, project \in BOOLEAN : InstallHost(h, project) \/ UninstallHost(h, project)

(***************************************************************************)
(* Machines                                                                *)
(***************************************************************************)

Entry == [matcher : {"", "edits"}, cmds : SUBSET Hook]
SettingsFile == [file : {"absent", "json", "garbled"}, hooks : {"absent", "object", "scalar"},
                 odd : SUBSET Event, entries : [Event -> Seq(Entry)]]
Piece == {"rules", "newline", "memory", "graph", "memory, reworded", "graph, reworded"}
Line == {"ours", "sub", "table", "key", "comment", "mention"} \cup Binary
OpencodeFile == [file : {"absent", "json", "garbled"}, mcp : {"absent", "object", "scalar"},
                 ours : {"none"} \cup Binary, others : SUBSET STRING]
Machine == [settings : SettingsFile, text : Seq(Piece), codex : Seq(Line), opencode : OpencodeFile,
            registry : {"none", "http"} \cup Binary, detected : SUBSET Host, scopes : SUBSET Scope,
            self : Binary]

\* What is ours is there once: a block, and our table; and a server of ours is in a
\* file that can hold one.
BlocksApart(t) ==
  \A j, k \in DOMAIN t : t[j] = t[k] /\ t[j] \in DOMAIN Reworded => j = k
OneTable(lines) == \A j, k \in DOMAIN lines : lines[j] = "ours" /\ lines[k] = "ours" => j = k
OpencodeApart(config) == config.ours # "none" => config.file = "json" /\ config.mcp = "object"

Apart(m) == BlocksApart(m.text) /\ OneTable(m.codex) /\ OpencodeApart(m.opencode)

ASSUME HostAssumption ==
  /\ Binary \subseteq SessionHook /\ SessionHook \subseteq Hook
  /\ Binary \cap {"none", "http", "ours", "sub", "table", "key", "comment", "mention"} = {}
  /\ Machines \subseteq Machine
  /\ UserHooks \subseteq [event : Event, entry : Entry]
  /\ UserLines \subseteq Seq(Line)
  /\ \A lines \in UserLines : ~ Contains(lines, "ours")

UserEdits ==
  \/ \E s \in scopes : Write(s)
  \/ \E s \in scopes, block \in DOMAIN Reworded : Reword(s, block)
  \/ \E s \in scopes, h \in UserHooks : AddHook(s, h.event, h.entry)
  \/ \E lines \in UserLines : AddLines(lines)
  \/ \E b \in Binary : MoveBinary(b)

HostInit == InitFrom(Machines)
HostNext == Commands \/ UserEdits \/ \E s \in scopes : KilledInWrite(s)
HostSpec == HostInit /\ [][HostNext]_hostVars

(***************************************************************************)
(* Properties                                                              *)
(***************************************************************************)

Others(seq, ours) == Pick(seq, {k \in DOMAIN seq : seq[k] \notin ours})

\* The lines of our table: from its header to the next.
InOurTable(lines, k) ==
  \E j \in 1 .. k : lines[j] = "ours" /\ \A i \in j + 1 .. k : ~ IsHeader(lines[i])

\* What in these files cannot be taken for ours.
Foreign ==
  [hooks    |-> [s \in Scope |-> [e \in Event |->
                   LET entries == settings[s].entries[e]
                   IN  Pick(entries, {k \in DOMAIN entries : ~ EntryHasSessionHook(entries[k])})]],
   text     |-> [s \in Scope |-> Others(text[s], {"memory", "graph", "newline"})],
   agents   |-> Others(agents, {"memory", "graph", "newline"}),
   codex    |-> Pick(codex, {k \in DOMAIN codex : ~ InOurTable(codex, k)}),
   opencode |-> <<opencode.others, opencode.file = "garbled", opencode.mcp = "scalar">>]

\* No command changes, drops or reorders an entry without the words "session hook",
\* a text between the blocks, a line outside our table or another server; and a
\* command given a second time leaves every file as the first left it ("Idempotent
\* and non-destructive", cmd_install.go).
OnlyOursChanges ==
  [][last'.op \notin {"none", "killed"} =>
       /\ Foreign' = Foreign
       /\ last' = last => UNCHANGED files]_hostVars

\* After an install each event of its scope has one live session hook, with the
\* event's matcher and for the binary that was installed: two would count every
\* edit of a session twice. After an uninstall none is left; and after a full one
\* nothing of ours is in any host's file but a block somebody reworded.
LiveHooks(s, e) ==
  LET entries == settings[s].entries[e]
  IN  Pick(entries, {k \in DOMAIN entries : EntryHasSessionHook(entries[k])})

OutcomeHolds ==
  /\ last.op = "install" =>
       \A e \in DOMAIN ClaudeHookEvents :
         LET live == LiveHooks(last.scope, e)
         IN  /\ Len(live) = 1 /\ live[1].matcher = ClaudeHookEvents[e]
             /\ HookEntryExists(live[1], self)
  /\ last.op = "install" /\ last.all => HasMarker(text[last.scope], "memory")
  /\ last.op = "uninstall" =>
       \A e \in DOMAIN ClaudeHookEvents : LiveHooks(last.scope, e) = <<>>
  /\ last.op = "uninstall" /\ last.all =>
       /\ \A block \in DOMAIN Reworded : ~ Contains(text[last.scope], block)
       /\ last.scope = "project" => ~ Contains(agents, "graph")
       /\ ~ Contains(codex, "ours")
       /\ opencode.ours = "none"
       /\ last.cli = "works" => registry = "none"

(***************************************************************************)
(* Statements of the source that the code does not keep                    *)
(***************************************************************************)

\* What in these files is not ours.
Users ==
  [hooks  |-> [s \in Scope |-> [e \in Event |->
                 LET entries == settings[s].entries[e]
                     own == Pick(entries, {k \in DOMAIN entries : entries[k].cmds \ Binary # {}})
                 IN  [k \in DOMAIN own |-> own[k].cmds \ Binary]]],
   values |-> [s \in Scope |-> <<settings[s].hooks = "scalar", settings[s].odd>>],
   codex  |-> Others(codex, {"ours"} \cup Binary)]

\* "it strips only the wiring droids-mem added, leaving each host's file as if
\* untouched" (cmd_uninstall.go:24-25), nor does an install touch more: a hook of the
\* user beside ours, or with the words in its name, stays, and so does a comment
\* between our table and the next.
OnlyWiringGoes == [][last'.op \notin {"none", "killed"} => Users' = Users]_hostVars

\* What the hosts run after an install is the binary that was installed.
HostsRunThisBinary ==
  /\ last.op = "install" /\ last.all =>
       /\ "codex" \in detected => \E k \in DOMAIN codex : codex[k] = self
       /\ "opencode" \in detected /\ CanInstallOpencode(opencode) => opencode.ours = self
  /\ last.op = "install host" =>
       IF last.host = "codex" THEN \E k \in DOMAIN codex : codex[k] = self
       ELSE opencode.ours = self

\* A failed registration leaves the registration there was.
RegistrationSurvives ==
  [][\A s \in Scope, all \in BOOLEAN :
        InstallClaude(s, all, "rejects") => registry' = registry]_hostVars

\* A command that is killed leaves the user's settings in the file.
SettingsSurviveAKill ==
  [][\A s \in Scope : KilledInWrite(s) => Foreign'.hooks = Foreign.hooks]_hostVars

===============================================================================
