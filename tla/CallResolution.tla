---------------------------- MODULE CallResolution ----------------------------
(***************************************************************************)
(* The mapper tier's call resolution (mapper_calls.go, mapper.go and the   *)
(* path mapping of tsconfig.go): which definition a call written in a      *)
(* TypeScript or Python file can mean, with no type information.           *)
(*                                                                         *)
(* A file is its path, a sequence of segments of which the last is the     *)
(* extension; a segment in TestWords stands for a name that the language's *)
(* test runner takes for a test.  A definition has a name, the chain of    *)
(* containers it is nested in, and a span of the text.                     *)
(***************************************************************************)
EXTENDS Naturals, FiniteSets, SequencesExt

CONSTANT FanoutCap      \* definitions a call is given at most, when only its name is known

(***************************************************************************)
(* Files                                                                   *)
(***************************************************************************)

TestDirs == {"test", "tests", "spec"}
TestWords == {".test", ".spec", "test_", "_test", "conftest"}

IsPython(file) == Last(file) = ".py"
Dirs(file) == SubSeq(file, 1, Len(file) - 2)

IsMapperTestFile(file) ==
  \/ ToSet(Dirs(file)) \cap (IF IsPython(file) THEN TestDirs ELSE TestDirs \cup {"__tests__"}) # {}
  \/ ToSet(file) \cap TestWords # {}

Joined(words, sep) ==
  [k \in 1 .. 2 * Len(words) - 1 |-> IF k % 2 = 1 THEN words[(k + 1) \div 2] ELSE sep]

\* a/b.py and a/b/__init__.py are one module; a/b.ts has the name of a package a/b.
\* (An __init__.py at the root takes the name of the repository; there is none here.)
ModulePath(file) ==
  LET stem == Front(file)
      named == IF IsPython(file) /\ Len(stem) > 1 /\ Last(stem) = "__init__" THEN Front(stem) ELSE stem
  IN  Joined(named, IF IsPython(file) THEN "." ELSE "/")

(***************************************************************************)
(* Module specifiers                                                       *)
(***************************************************************************)

SpecifierExtensions == <<".ts", ".tsx", ".js", ".jsx", ".mjs", ".cjs", ".cts", ".mts">>
NoFile == <<>>

FirstIn(seq, S) ==
  LET k == SelectInSeq(seq, LAMBDA x : x \in S) IN IF k = 0 THEN NoFile ELSE seq[k]

ProbeKnown(known, base) ==
  FirstIn(<<base>> \o [k \in DOMAIN SpecifierExtensions |-> Append(base, SpecifierExtensions[k])]
            \o [k \in DOMAIN SpecifierExtensions |-> base \o <<"index", SpecifierExtensions[k]>>],
          known \ {NoFile})

\* path.Join: what leaves the repository keeps its "..", and is no file of it.
Join(dir, spec) ==
  FoldLeft(LAMBDA path, seg : CASE seg = "." -> path
                                [] seg = ".." /\ path # <<>> /\ Last(path) # ".." -> Front(path)
                                [] OTHER -> Append(path, seg), dir, spec)

\* An alias has a head, a tail, and stands for what is between when it has a star;
\* its targets say "*" for that.  The exact alias wins, then the longest head.
Matches(alias, spec) ==
  IF alias.star
  THEN IsPrefix(alias.head, spec) /\ IsSuffix(alias.tail, spec)
       /\ Len(spec) >= Len(alias.head) + Len(alias.tail)
  ELSE alias.head = spec

MatchSpec(paths, spec) ==
  LET fits == {k \in DOMAIN paths : paths[k].targets # <<>> /\ Matches(paths[k], spec)}
      exact == {k \in fits : ~ paths[k].star}
      best(S) == {k \in S : \A j \in S : Len(paths[j].head) <= Len(paths[k].head)}
  IN  IF exact # {} THEN exact ELSE best(fits)

AliasFile(alias, spec, known) ==
  LET chosen == MatchSpec(alias.paths, spec)
      key == alias.paths[Min(chosen)]
      rest == SubSeq(spec, Len(key.head) + 1, Len(spec) - Len(key.tail))
      joined(target) == Join(alias.base, FlattenSeq([k \in DOMAIN target |-> IF target[k] = "*" THEN rest ELSE <<target[k]>>]))
      base(target) == IF joined(target) = <<>> THEN rest ELSE joined(target)
      probes == [k \in DOMAIN key.targets |-> ProbeKnown(known, base(key.targets[k]))]
  IN  IF chosen = {} THEN NoFile ELSE FirstIn(probes, known)

\* What starts with "./" or "../" is relative; "." or ".." alone is not.  A repository
\* with no path mapping has the usual one, "@/" for its root.
ResolveSpecifier(importer, spec, known, alias) ==
  LET relative == Len(spec) > 1 /\ spec[1] \in {".", ".."}
  IN  CASE relative -> ProbeKnown(known, Join(Dirs(importer), spec))
        [] ~ relative /\ alias.present -> AliasFile(alias, spec, known)
        [] ~ relative /\ ~ alias.present /\ spec[1] = "@" -> ProbeKnown(known, Tail(spec))
        [] OTHER -> NoFile

\* The names one file imports, with the file each comes from.
ResolveBindings(importer, bindings, known, alias) ==
  LET target(n) == ResolveSpecifier(importer, bindings[n].spec, known, alias)
  IN  [n \in {b \in DOMAIN bindings : target(b) # NoFile} |->
         [target |-> target(n), imported |-> bindings[n].imported,
          namespace |-> bindings[n].namespace, default |-> bindings[n].default]]

(***************************************************************************)
(* Callers                                                                 *)
(***************************************************************************)

Chain(s) == Append(s.container, s.name)

\* The definitions a call is written in; the innermost starts last.
Around(syms, file, ref) ==
  {i \in DOMAIN syms : syms[i].file = file /\ syms[i].from <= ref.from /\ ref.to <= syms[i].to}

InnermostContainer(syms, file, ref) ==
  CHOOSE i \in Around(syms, file, ref) : \A j \in Around(syms, file, ref) : syms[j].from <= syms[i].from

\* The calls of one file that some definition contains: the others are dropped.
AttributeMapperCalls(syms, file, refs) ==
  LET site(ref) == LET i == InnermostContainer(syms, file, ref)
                   IN  [caller |-> i, at |-> ref.from, name |-> ref.name, receiver |-> ref.receiver,
                        pkg |-> syms[i].pkg, file |-> file, chain |-> Chain(syms[i])]
  IN  {site(ref) : ref \in {r \in refs : Around(syms, file, r) # {}}}

(***************************************************************************)
(* The ladder                                                              *)
(***************************************************************************)

IsBare(c) == c.receiver = ""

\* What the ladder looks in: the definitions, and what each file imports.
Named(ix, name) == {i \in DOMAIN ix.syms : ix.syms[i].name = name}
IsClass(ix, name) == \E i \in Named(ix, name) : ix.syms[i].class
FreeIn(ix, file) == {i \in DOMAIN ix.syms : ix.syms[i].file = file /\ ix.syms[i].container = <<>>}
Imports(ix, c, name) == c.file \in DOMAIN ix.imports /\ name \in DOMAIN ix.imports[c.file]

\* A definition the caller itself is nested in hides an import of its name.
LocalShadows(ix, c) ==
  {i \in Named(ix, c.name) : /\ Imports(ix, c, c.name)
                             /\ ix.syms[i].file = c.file
                             /\ ix.syms[i].container # <<>>
                             /\ IsPrefix(ix.syms[i].container, c.chain)}

\* Only a member has a receiver: a rung that matches nothing is left out.
ReceiverArity(ix, c) ==
  LET fitting == {i \in Named(ix, c.name) : (ix.syms[i].container # <<>>) = ~ IsBare(c)}
  IN  IF fitting # {} THEN fitting ELSE Named(ix, c.name)

MembersOf(ix, cands, class) ==
  {i \in cands : ix.syms[i].container # <<>> /\ ix.syms[i].container[1] = class}

ImportedName(ix, c) ==
  LET import == ix.imports[c.file][c.name]
      name == IF import.imported # "" THEN import.imported ELSE c.name
      byName == FreeIn(ix, import.target) \cap Named(ix, name)
  IN  IF byName = {} /\ import.default THEN FreeIn(ix, import.target) ELSE byName

ImportedReceiver(ix, c, cands) ==
  LET import == ix.imports[c.file][c.receiver]
  IN  IF import.namespace THEN FreeIn(ix, import.target) \cap Named(ix, c.name)
      ELSE {i \in cands : /\ ix.syms[i].file = import.target
                          /\ ix.syms[i].container # <<>> /\ IsClass(ix, ix.syms[i].container[1])}

\* The rungs, the surest first; the last stands whatever it holds.
Rungs(ix, c) ==
  LET cands == ReceiverArity(ix, c)
  IN  <<IF IsBare(c) THEN LocalShadows(ix, c) ELSE {},
        IF c.receiver \in {"this", "self"} THEN MembersOf(ix, cands, c.chain[1]) ELSE {},
        IF IsBare(c) /\ Imports(ix, c, c.name) THEN ImportedName(ix, c) ELSE {},
        IF ~ IsBare(c) /\ Imports(ix, c, c.receiver) THEN ImportedReceiver(ix, c, cands) ELSE {},
        IF ~ IsBare(c) /\ IsClass(ix, c.receiver) THEN MembersOf(ix, cands, c.receiver) ELSE {},
        {i \in cands : ix.syms[i].file = c.file},
        {i \in cands : ix.syms[i].pkg = c.pkg},
        cands>>

\* All that the first rung with an answer holds; capped when it is the last.
Resolve(ix, c) ==
  LET rungs == Rungs(ix, c)
      k == SelectInSeq(rungs, LAMBDA hits : hits # {})
      hits == IF k = 0 THEN {} ELSE rungs[k]
      cap == IF k = Len(rungs) THEN {i \in hits : Cardinality({j \in hits : j < i}) < FanoutCap} ELSE hits
  IN  [hits |-> cap, capped |-> cap # hits]

===============================================================================
