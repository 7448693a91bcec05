------------------------------ MODULE IndexBuild ------------------------------
(***************************************************************************)
(* One repository's graph.db over a series of builds (index.go, carry.go,  *)
(* mapper_carry.go, mapper_scan.go): the source is edited, sometimes into  *)
(* a state that does not parse or type-check, and buildIndex makes a new   *)
(* graph out of what can be read and what the previous graph.db holds for  *)
(* the rest.  The two tiers are the Go packages, of which the compiler     *)
(* tells symbols and calls, and the files of the mapper, whose calls       *)
(* CallResolution resolves.  When and where a build runs is GraphManager.  *)
(***************************************************************************)
EXTENDS CallResolution, Listings

CONSTANTS
  Walk,             \* the mapper files a walk can meet, in its order
  Load,             \* the Go packages, in the order the loader gives them
  Aliases,          \* the path mapping of tsconfig.json
  Versions,         \* what each mapper file may be edited into
  PackageVersions   \* what each Go package may be edited into

VARIABLES
  mapper,     \* the mapper files there are: torn, big, defs, calls, imports
  go,         \* the Go packages there are: broken, tests, testsBroken, defs, calls, testDefs, testCalls
  loads,      \* whether the Go tool can list packages
  db,         \* graph.db
  past        \* history: what the graph owes each unit

indexVars == <<mapper, go, loads, db, past>>

(***************************************************************************)
(* Sources                                                                 *)
(***************************************************************************)

\* The last segment of a file's path is its extension.  A definition is a name, the
\* containers it is nested in and its span; a call has a span of its own.
Path == Seq(STRING) \ {<<>>}
Definition == [name : STRING, container : Seq(STRING), class : BOOLEAN, from : Nat, to : Nat]
IsSource(s) ==
  /\ {s.torn, s.big} \subseteq BOOLEAN
  /\ s.defs \in Seq(Definition)
  /\ s.calls \subseteq [name : STRING, receiver : STRING, from : Nat, to : Nat]

\* A Go call names the declaration of its package it stands in.
Declaration == [name : STRING, class : BOOLEAN]
IsPackage(s) ==
  /\ {s.broken, s.tests, s.testsBroken} \subseteq BOOLEAN
  /\ {s.defs, s.testDefs} \subseteq Seq(Declaration)
  /\ \A c \in s.calls : c.from \in DOMAIN s.defs
  /\ \A c \in s.testCalls : c.from \in DOMAIN (s.defs \o s.testDefs)

ASSUME IndexAssumption ==
  /\ Walk \in Seq(Path) /\ IsInjective(Walk)
  /\ \A k \in DOMAIN Walk : Last(Walk[k]) # ".go"
  /\ \A f \in DOMAIN Versions : \A s \in Versions[f] : IsSource(s)
  /\ Load \in Seq(Seq(STRING)) /\ IsInjective(Load)
  /\ DOMAIN PackageVersions \subseteq ToSet(Load)
  /\ \A p \in DOMAIN PackageVersions : \A s \in PackageVersions[p] : IsPackage(s)

Unnamed == [exists |-> FALSE, symbols |-> <<>>, edges |-> <<>>, carried |-> {},
            reason |-> "", fanoutCapped |-> 0, testsSkipped |-> 0]

(***************************************************************************)
(* The mapper tier                                                         *)
(***************************************************************************)

Read == {f \in DOMAIN mapper : ~ mapper[f].big}
TestsSkipped == {f \in Read : IsMapperTestFile(f)}
MapperFiles == Pick(Walk, {k \in DOMAIN Walk : Walk[k] \in Read \ TestsSkipped})

\* What the outline of a file gives.  Python binds a name of one scope once: its
\* repeats are further spans of the first.
OutlineOf(file, source) ==
  LET defs == source.defs
      same(j, k) == defs[j].name = defs[k].name /\ defs[j].container = defs[k].container
      nth(k) == IF IsPython(file) THEN Min({j \in DOMAIN defs : same(j, k)}) ELSE k
  IN  [k \in DOMAIN defs |->
         [qname |-> ModulePath(file) \o <<":">> \o Joined(Chain(defs[k]), "."),
          name |-> defs[k].name, container |-> defs[k].container, class |-> defs[nth(k)].class,
          pkg |-> ModulePath(file), file |-> file, nth |-> nth(k),
          from |-> defs[k].from, to |-> defs[k].to]]

Row(s) == [qname |-> s.qname, name |-> s.name, class |-> s.class, pkg |-> s.pkg, file |-> s.file, nth |-> s.nth]

\* Each element once, where it comes first.
Distinct(seq) == Pick(seq, {k \in DOMAIN seq : \A j \in 1 .. k - 1 : seq[j] # seq[k]})
RowsOf(syms) == Distinct([k \in DOMAIN syms |-> Row(syms[k])])

\* Rows of graph.db have lost where they stood in the text, and in what.
RowsIn(rows, file) == Pick(rows, {k \in DOMAIN rows : rows[k].file = file})
PrevRows(file) == RowsIn(db.symbols, file)
FromRow(row) ==
  [qname |-> row.qname, name |-> row.name, container |-> <<>>, class |-> row.class,
   pkg |-> row.pkg, file |-> row.file, nth |-> row.nth, from |-> 0, to |-> 0]

\* Few symbols are taken for a torn file.
MapperCarryTriggerAnyway(torn, fresh, prev) == fresh * 2 < prev

MapperCarryTrigger(torn, fresh, prev) == torn /\ fresh * 2 < prev
Carried(file) == MapperCarryTrigger(mapper[file].torn, Len(mapper[file].defs), Len(PrevRows(file)))
MapperSymsOf(file) ==
  IF Carried(file) THEN [k \in DOMAIN PrevRows(file) |-> FromRow(PrevRows(file)[k])]
  ELSE OutlineOf(file, mapper[file])

MapperSyms == FlattenSeq([k \in DOMAIN MapperFiles |-> MapperSymsOf(MapperFiles[k])])
MapperCarriedUnits == {ModulePath(f) : f \in {g \in ToSet(MapperFiles) : Carried(g)}}

LadderOver(syms, sources, known) ==
  [syms |-> syms,
   imports |-> [f \in known |-> ResolveBindings(f, sources[f].imports, known, Aliases)]]

\* The resolved calls of the files: the caller, and the hits of the ladder.
ResolvedCalls(syms, sources, known) ==
  LET ix == LadderOver(syms, sources, known)
  IN  UNION {{[site |-> c, found |-> Resolve(ix, c)] : c \in AttributeMapperCalls(syms, f, sources[f].calls)} : f \in known}

(***************************************************************************)
(* The Go tier                                                             *)
(***************************************************************************)

GoFile(pkg) == pkg \o <<".go">>
GoName(pkg, name) == pkg \o <<".", name>>

\* A package that calls what is not there does not type-check.
Declares(pkg, name) == pkg \in DOMAIN go /\ \E d \in ToSet(go[pkg].defs) : d.name = name
Missing(calls) == \E c \in calls : ~ Declares(c.pkg, c.name)
PlainBroken(pkg) == go[pkg].broken \/ Missing(go[pkg].calls)
TestsBroken(pkg) == PlainBroken(pkg) \/ go[pkg].testsBroken \/ Missing(go[pkg].testCalls)

\* The loader gives a tested package three times: alone, with its tests, and the
\* main package of the test binary.
Variants ==
  IF ~ loads THEN {}
  ELSE {v \in (DOMAIN go) \X {"plain", "tests", "main"} : v[2] = "plain" \/ go[v[1]].tests}
Broken == {v \in Variants : (v[2] = "plain" /\ PlainBroken(v[1])) \/ (v[2] = "tests" /\ TestsBroken(v[1]))}
MajorityBroken == Cardinality(Broken) * 2 > Cardinality(Variants)

\* dedupeVariants: one variant of a package, the one with the tests if it has any.
GoRowsOf(pkg, source) ==
  LET defs == source.defs \o (IF source.tests THEN source.testDefs ELSE <<>>)
  IN  [k \in DOMAIN defs |-> [qname |-> GoName(pkg, defs[k].name), name |-> defs[k].name, class |-> defs[k].class,
                              pkg |-> pkg, file |-> GoFile(pkg), nth |-> k]]
GoSymbols(pkgs) ==
  LET listed == Pick(Load, {k \in DOMAIN Load : Load[k] \in pkgs})
  IN  FlattenSeq([k \in DOMAIN listed |-> GoRowsOf(listed[k], go[listed[k]])])

\* A call from a literal counts for the function it stands in, a call of a literal
\* for none; the bodies of a broken variant are not seen.
CallsOf(variant) ==
  LET p == variant[1]
  IN  IF variant \in Broken \/ variant[2] = "main" THEN {}
      ELSE go[p].calls \cup (IF variant[2] = "tests" THEN go[p].testCalls ELSE {})

\* The first row of that name: only a caller can share its name, as init does.
CallEdges(rows, variants) ==
  LET caller(p, c) == CHOOSE i \in DOMAIN rows : rows[i].pkg = p /\ rows[i].file = GoFile(p) /\ rows[i].nth = c.from
      callee(c) == CHOOSE i \in DOMAIN rows : rows[i].qname = GoName(c.pkg, c.name)
      edge(p, c) == [pair |-> <<caller(p, c), callee(c)>>, precision |-> "resolved",
                     dispatch |-> IF c.invoke THEN "interface" ELSE "static"]
  IN  {e \in UNION {{edge(v[1], c) : c \in {x \in CallsOf(v) : ~ x.literal}} : v \in variants} :
         e.pair[1] # e.pair[2]}

(***************************************************************************)
(* The build                                                               *)
(***************************************************************************)

\* Of several reports of one edge the stronger claim is kept.
AddEdges(reports) ==
  LET said(pair) == {r \in reports : r.pair = pair}
      any(pair, what) == \E r \in said(pair) : what \in {r.dispatch, r.precision}
  IN  [pair \in {r.pair : r \in reports} |->
         [dispatch |-> IF any(pair, "static") THEN "static" ELSE IF any(pair, "interface") THEN "interface" ELSE "",
          precision |-> IF any(pair, "resolved") THEN "resolved" ELSE "syntactic"]]

Named1(rows, qname) == {i \in DOMAIN rows : rows[i].qname = qname}
ByQName(rows, qname) == Max(Named1(rows, qname))
Collided(rows, qname) == Cardinality(Named1(rows, qname)) > 1

MapperEdges(rows, syms) ==
  LET id(i) == CHOOSE k \in DOMAIN rows : rows[k] = Row(syms[i])
      calls == ResolvedCalls(syms, mapper, ToSet(MapperFiles))
      pairs == UNION {{<<id(c.site.caller), id(i)>> : i \in c.found.hits} : c \in calls}
  IN  [reports |-> {[pair |-> p, dispatch |-> "", precision |-> "syntactic"] : p \in {q \in pairs : q[1] # q[2]}},
       capped |-> Cardinality({c \in calls : c.found.capped})]

CarriedEdgesInto(rows, units) ==
  LET old(i) == db.symbols[i].qname
      kept == {e \in DOMAIN db.edges : /\ db.symbols[e[2]].pkg \in units
                                       /\ Named1(rows, old(e[1])) # {} /\ Named1(rows, old(e[2])) # {}}
  IN  {[pair |-> <<ByQName(rows, old(e[1])), ByQName(rows, old(e[2]))>>,
        dispatch |-> db.edges[e].dispatch, precision |-> db.edges[e].precision] : e \in kept}

\* The edges that leave these units in the previous graph, between the symbols
\* of the same names now.
CarriedEdges(rows, units) ==
  LET old(i) == db.symbols[i].qname
      kept == {e \in DOMAIN db.edges : /\ db.symbols[e[1]].pkg \in units
                                       /\ Named1(rows, old(e[1])) # {} /\ Named1(rows, old(e[2])) # {}}
  IN  {[pair |-> <<ByQName(rows, old(e[1])), ByQName(rows, old(e[2]))>>,
        dispatch |-> db.edges[e].dispatch, precision |-> db.edges[e].precision] : e \in kept}

\* The mapper drops an edge whose callee shares its name.
MapperCarriedEdges(rows) ==
  {r \in CarriedEdges(rows, MapperCarriedUnits) : ~ Collided(rows, rows[r.pair[2]].qname)}

BuildFails ==
  MapperSyms = <<>> /\ (Variants = {} \/ MajorityBroken)

Graph ==
  LET syms == MapperSyms
      variants == IF MajorityBroken THEN {} ELSE Variants
      brokenPkgs == IF MajorityBroken THEN {} ELSE {v[1] : v \in Broken}
      rows == GoSymbols({v[1] : v \in variants}) \o RowsOf(syms)
      mapped == MapperEdges(rows, syms)
  IN  [exists |-> TRUE, symbols |-> rows,
       edges |-> AddEdges(CallEdges(rows, variants) \cup mapped.reports
                          \cup CarriedEdges(rows, brokenPkgs) \cup MapperCarriedEdges(rows)),
       carried |-> brokenPkgs \cup MapperCarriedUnits,
       reason |-> IF MajorityBroken THEN "go_tier_suppressed_majority_broken"
                  ELSE IF rows = <<>> THEN "no_indexable_symbols" ELSE "",
       fanoutCapped |-> mapped.capped, testsSkipped |-> Cardinality(TestsSkipped)]

(***************************************************************************)
(* History                                                                 *)
(***************************************************************************)

IsGo(file) == Last(file) = ".go"
Unit(file) == IF IsGo(file) THEN Front(file) ELSE ModulePath(file)

\* The calls a graph shows from one file, by name.
NamesOf(rows, file) == {rows[i].qname : i \in {j \in DOMAIN rows : rows[j].file = file}}
OutPairs(g, file) ==
  {p \in {<<g.symbols[e[1]].qname, g.symbols[e[2]].qname>> : e \in DOMAIN g.edges} : p[1] \in NamesOf(g.symbols, file)}

\* The names two symbols share, in this graph or in one since the file was read.
SharedNames(g) == {q \in {g.symbols[i].qname : i \in DOMAIN g.symbols} : Collided(g.symbols, q)}
SharedSince(g, file, fresh) ==
  SharedNames(g) \cup (IF fresh \/ file \notin DOMAIN past THEN {} ELSE past[file].shared)

\* A file is lost when it does not parse and shows less than half of the names it
\* had; the calls of a broken package are lost with the bodies.
Lost(file) ==
  /\ mapper[file].torn /\ file \in DOMAIN past
  /\ 2 * Len(mapper[file].defs) < Cardinality({Row(s) : s \in ToSet(OutlineOf(file, past[file].source))})
Owed(file) == IF file \in DOMAIN past THEN past[file].owed ELSE {}
Still(g, pairs) == {p \in pairs : Named1(g.symbols, p[1]) # {} /\ Named1(g.symbols, p[2]) # {}}

Account(g) ==
  LET packages == IF MajorityBroken \/ ~ loads THEN {} ELSE {GoFile(p) : p \in DOMAIN go}
      units == packages \cup ToSet(MapperFiles)
      brokenPkgs == {v[1] : v \in Broken}
      alone(f, whole) == /\ \A u \in units : Unit(u) = Unit(f) => u = f
                         /\ whole \/ f \notin DOMAIN past \/ past[f].alone
      seen(p) == {<<GoRowsOf(p, go[p])[c.from].qname, GoName(c.pkg, c.name)>> :
                    c \in {x \in UNION {CallsOf(v) : v \in {w \in Variants : w[1] = p}} : ~ x.literal}}
      proper(pairs) == {q \in pairs : q[1] # q[2]}
      ofPackage(p) ==
        LET whole == p \notin brokenPkgs
        IN  [source |-> go[p], fresh |-> whole, alone |-> alone(GoFile(p), whole), shared |-> SharedSince(g, GoFile(p), whole),
             owed |-> proper(seen(p)) \cup (IF whole THEN {} ELSE Still(g, Owed(GoFile(p))))]
      ofFile(f) ==
        IF Lost(f) THEN [source |-> past[f].source, fresh |-> FALSE, alone |-> alone(f, FALSE),
                         shared |-> SharedSince(g, f, FALSE), owed |-> Still(g, past[f].owed)]
        ELSE [source |-> mapper[f], fresh |-> TRUE, alone |-> alone(f, TRUE),
              shared |-> SharedNames(g), owed |-> OutPairs(g, f)]
  IN  [u \in units |-> IF IsGo(u) THEN ofPackage(Front(u)) ELSE ofFile(u)]

(***************************************************************************)
(* Steps                                                                   *)
(***************************************************************************)

With(f, key, value) == [k \in DOMAIN f \cup {key} |-> IF k = key THEN value ELSE f[k]]
Without(f, key) == [k \in DOMAIN f \ {key} |-> f[k]]

EditFile(file, source) ==
  /\ mapper' = With(mapper, file, source)
  /\ UNCHANGED <<go, loads, db, past>>

RemoveFile(file) ==
  /\ file \in DOMAIN mapper
  /\ mapper' = Without(mapper, file)
  /\ UNCHANGED <<go, loads, db, past>>

EditPackage(pkg, source) ==
  /\ go' = With(go, pkg, source)
  /\ UNCHANGED <<mapper, loads, db, past>>

RemovePackage(pkg) ==
  /\ pkg \in DOMAIN go
  /\ go' = Without(go, pkg)
  /\ UNCHANGED <<mapper, loads, db, past>>

\* go.mod or the toolchain breaks, and is mended.
ChangeGoTool ==
  /\ loads' = ~ loads
  /\ UNCHANGED <<mapper, go, db, past>>

\* A build that fails leaves the graph there was.
Build ==
  /\ ~ BuildFails
  /\ db' = Graph
  /\ past' = Account(db')
  /\ UNCHANGED <<mapper, go, loads>>

IndexInit ==
  /\ mapper = [f \in {} |-> 0] /\ go = [p \in {} |-> 0] /\ loads = TRUE
  /\ db = Unnamed /\ past = [u \in {} |-> 0]
IndexNext ==
  \/ \E f \in DOMAIN Versions : \/ \E source \in Versions[f] : EditFile(f, source)
                                \/ RemoveFile(f)
  \/ \E p \in DOMAIN PackageVersions : \/ \E source \in PackageVersions[p] : EditPackage(p, source)
                                       \/ RemovePackage(p)
  \/ ChangeGoTool
  \/ Build
IndexSpec == IndexInit /\ [][IndexNext]_indexVars

(***************************************************************************)
(* Properties                                                              *)
(***************************************************************************)

\* The symbols and the calls, with the names they lead from and to, of a repository
\* where every lost file still is as it was last read.
Healed == {f \in DOMAIN past : ~ IsGo(f)}
HealedSources == [f \in Healed |-> past[f].source]
HealedSyms ==
  LET listed == Pick(Walk, {k \in DOMAIN Walk : Walk[k] \in Healed})
  IN  FlattenSeq([k \in DOMAIN listed |-> OutlineOf(listed[k], past[listed[k]].source)])
HealedImports == [f \in Healed |-> ResolveBindings(f, past[f].source.imports, Healed, Aliases)]

Heal ==
  LET syms == HealedSyms
      named(c) == {<<syms[c.site.caller].qname, syms[i].qname>> : i \in c.found.hits}
  IN  [syms |-> syms, imports |-> HealedImports,
       calls |-> {[site |-> c.site, pairs |-> named(c)] : c \in ResolvedCalls(syms, HealedSources, Healed)}]
CallsIn(healed, f) == {c \in healed.calls : c.site.file = f}
Here(healed, f, name) == {s \in ToSet(healed.syms) : s.file = f /\ s.name = name}

\* Nothing the call could mean is in a lost file.
Clear(healed, site) ==
  LET imports == healed.imports[site.file]
  IN  /\ \A s \in ToSet(healed.syms) : s.name = site.name => past[s.file].fresh
      /\ \A n \in {site.name, site.receiver} \cap DOMAIN imports : past[imports[n].target].fresh

\* A name two symbols share says nothing of either.
Own(f, pairs) == {p \in pairs : p[1] # p[2] /\ {p[1], p[2]} \cap past[f].shared = {}}
Shown(f) == Own(f, OutPairs(db, f))
Callees(c) == {p[2] : p \in c.pairs}
QNames(syms) == {s.qname : s \in syms}

\* A call of an imported name, which nothing around it is named too, is of what
\* the imported file has under that name, and of nothing else.
ImportBinds(healed, f, c) ==
  LET import == healed.imports[f][c.site.name]
      target == {s \in Here(healed, import.target, import.imported) : s.container = <<>>}
  IN  c.site.receiver = "" /\ c.site.name \in DOMAIN healed.imports[f]
        => Here(healed, f, c.site.name) # {} \/ target = {} \/ Callees(c) = QNames(target)

\* A graph says which of its units it has not read: a unit without that label shows
\* the symbols of its source, and one with it those it had when it was last read;
\* an edge leads from a symbol of the graph to one (index.go, mapper_carry.go).
SymbolsOf(f, source) ==
  IF IsGo(f) THEN GoRowsOf(Front(f), source) ELSE RowsOf(OutlineOf(f, source))

SymbolsAreTrue ==
  /\ \A i \in DOMAIN db.symbols : db.symbols[i].file \in DOMAIN past
  /\ \A f \in DOMAIN past : /\ PrevRows(f) = SymbolsOf(f, past[f].source)
                            /\ ~ past[f].fresh => Unit(f) \in db.carried
  /\ \A e \in DOMAIN db.edges : {e[1], e[2]} \subseteq DOMAIN db.symbols

\* A unit without that label shows the calls of its source, and one with it its
\* calls of then, less those whose callee has gone in between or shares its name
\* (carry.go, mapper_carry.go).  Of calls of then it holds when no other unit had
\* the name of this one.  Only a carried edge may lead from a symbol to itself.
FileCalls(healed, f) ==
  LET calls == CallsIn(healed, f)
      shown == Shown(f)
      clear == {c \in calls : Clear(healed, c.site)}
  IN  /\ ~ past[f].fresh /\ past[f].alone => shown = Own(f, past[f].owed)
      /\ \A c \in calls : ImportBinds(healed, f, c)
      /\ Unit(f) \notin db.carried =>
           /\ \A c \in clear : Own(f, c.pairs) \subseteq shown
           /\ clear = calls => shown = UNION {Own(f, c.pairs) : c \in calls}

PackageCalls(f) ==
  Unit(f) \notin db.carried \/ (~ past[f].fresh /\ past[f].alone) => Shown(f) = Own(f, past[f].owed)

CallsAreTrue ==
  db.exists =>
    LET healed == Heal
    IN  /\ \A f \in DOMAIN past : IF IsGo(f) THEN PackageCalls(f) ELSE FileCalls(healed, f)
        /\ \A e \in DOMAIN db.edges : e[1] = e[2] => db.symbols[e[1]].pkg \in db.carried

\* "Self-edges are dropped" (mapper_calls.go), and are where calls are resolved; of two
\* files that were one module the calls from one to the other lead to themselves once
\* the one is gone and the other torn (mapperCarriedEdges).
NoSelfEdges == \A e \in DOMAIN db.edges : e[1] # e[2]

\* "a clean caller's edge INTO a carried module is already freshly rediscoverable
\* this build (the ladder resolves by name against the full, carried-inclusive
\* symbol set...)" (mapper_carry.go).
InEdgesAreRediscovered ==
  db.exists =>
    LET healed == Heal
    IN  \A f \in Healed : Unit(f) \notin db.carried => \A c \in CallsIn(healed, f) : Own(f, c.pairs) \subseteq Shown(f)

\* "caller not in a carried module: already freshly rediscovered (or genuinely
\* gone)" (mapper_carry.go, and of a package in carry.go): what was read shows no
\* call it does not make.
ReadFilesShowTheirCalls ==
  db.exists =>
    LET healed == Heal
    IN  \A f \in Healed : past[f].fresh => Shown(f) \subseteq UNION {c.pairs : c \in CallsIn(healed, f)}

\* A rung that finds nothing is "a filter" that falls through (mapper_calls.go); a
\* function declared inside the caller is nearer than one of its name elsewhere.
LocalsComeFirst ==
  db.exists =>
    LET healed == Heal
    IN  \A f \in Healed : past[f].fresh =>
          \A c \in CallsIn(healed, f) :
            LET nested == {s \in Here(healed, f, c.site.name) : s.container = c.site.chain}
            IN  c.site.receiver = "" /\ nested # {} => Callees(c) = QNames(nested)

\* "this/self -> enclosing class member" (mapper_calls.go).
ThisStaysInItsClass ==
  db.exists =>
    LET healed == Heal
    IN  \A f \in Healed : past[f].fresh =>
          \A c \in CallsIn(healed, f) : c.site.receiver = "this" => Callees(c) \subseteq NamesOf(db.symbols, f)

===============================================================================
