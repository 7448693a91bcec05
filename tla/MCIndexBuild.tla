---------------------------- MODULE MCIndexBuild ----------------------------
(* Repositories for IndexBuild, and their sources one edit at a time.      *)
EXTENDS IndexBuild

VARIABLE scene

Def(name, container, class, from, to) ==
  [name |-> name, container |-> container, class |-> class, from |-> from, to |-> to]
Call(name, receiver, at) == [name |-> name, receiver |-> receiver, from |-> at, to |-> at]
Import(spec, imported) == [spec |-> spec, imported |-> imported, namespace |-> FALSE, default |-> FALSE]
None == [n \in {} |-> {}]
File(defs, calls, imports) == [torn |-> FALSE, big |-> FALSE, defs |-> defs, calls |-> calls, imports |-> imports]
Torn(source, n) == [source EXCEPT !.torn = TRUE, !.defs = SubSeq(@, 1, n)]

UiA == <<"ui", "a", ".ts">>
LibB == <<"lib", "b", ".ts">>
TestT == <<"tests", "t", ".ts">>
ModM == <<"m", ".py">>
InitM == <<"m", "__init__", ".py">>
UseU == <<"use", ".py">>
GTs == <<"g", ".ts">>
WJs == <<"w", ".js">>
WTs == <<"w", ".ts">>

MCWalk == <<GTs, LibB, InitM, ModM, TestT, UiA, UseU, WJs, WTs>>
MCAliases == [present |-> TRUE, base |-> <<>>,
              paths |-> <<[head |-> <<"@">>, tail |-> <<>>, star |-> TRUE, targets |-> <<<<"src", "*">>, <<"*">>>>]>>]

\* ui/a.ts: a widget that calls itself, the store it imports, and one nobody told it of.
A1 == File(<<Def("Widget", <<>>, TRUE, 1, 20), Def("render", <<"Widget">>, FALSE, 2, 9),
             Def("load", <<"Widget">>, FALSE, 10, 19), Def("boot", <<>>, FALSE, 21, 30),
             Def("save", <<"boot">>, FALSE, 25, 27)>>,
           {Call("save", "", 28), Call("load", "this", 3), Call("load", "Store", 4), Call("put", "", 22), Call("load", "it", 23), Call("boot", "", 40)},
           [put |-> Import(<<"@", "lib", "b">>, "save"), Store |-> Import(<<"..", "lib", "b">>, "Store")])
A2 == [A1 EXCEPT !.defs = SubSeq(@, 1, 2), !.calls = {Call("load", "Store", 4)}]
\* lib/b.ts: two classes with a load, and save, which goes in the next version.
B1 == File(<<Def("Store", <<>>, TRUE, 1, 9), Def("load", <<"Store">>, FALSE, 2, 8), Def("Widget", <<>>, TRUE, 10, 19),
             Def("load", <<"Widget">>, FALSE, 11, 18), Def("save", <<>>, FALSE, 20, 29)>>,
           {Call("load", "Widget", 3), Call("save", "", 12), Call("render", "x", 21)}, None)
B2 == [B1 EXCEPT !.defs = SubSeq(@, 1, 4)]
T1 == File(<<Def("load", <<>>, FALSE, 1, 9)>>, {}, None)

\* Two Python files that are one module, and their caller.
M1 == File(<<Def("run", <<>>, FALSE, 1, 9), Def("run", <<>>, FALSE, 10, 14), Def("help", <<>>, FALSE, 15, 19)>>,
           {Call("help", "", 11), Call("main", "", 16)}, None)
I1 == File(<<Def("run", <<>>, FALSE, 1, 9), Def("start", <<>>, FALSE, 10, 19)>>,
           {Call("help", "", 2), Call("run", "", 11), Call("main", "", 12)}, None)
I2 == [I1 EXCEPT !.defs = <<Def("start", <<>>, FALSE, 10, 19)>>, !.calls = {Call("main", "", 12)}]
U1 == File(<<Def("main", <<>>, FALSE, 1, 9)>>, {Call("run", "", 2), Call("help", "", 3)}, None)
U2 == File(<<>>, {}, None)

\* A TypeScript file with the name of a Go package.
G1 == File(<<Def("show", <<>>, FALSE, 1, 5), Def("hide", <<>>, FALSE, 6, 9), Def("lone", <<>>, FALSE, 10, 19)>>,
           {Call("hide", "", 2), Call("show", "", 11)}, None)

D(name) == [name |-> name, class |-> FALSE]
GoCall(from, pkg, name) == [from |-> from, pkg |-> pkg, name |-> name, invoke |-> FALSE, literal |-> FALSE]
Package(defs, calls) == [broken |-> FALSE, tests |-> FALSE, testsBroken |-> FALSE, defs |-> defs, calls |-> calls,
                         testDefs |-> <<>>, testCalls |-> {}]
P(name) == <<name>>
Pg == [Package(<<D("init"), D("init"), D("a"), D("b")>>, {GoCall(1, P("g"), "a"), GoCall(2, P("g"), "b"), GoCall(3, P("h"), "c")})
         EXCEPT !.tests = TRUE, !.testDefs = <<D("TestA")>>, !.testCalls = {GoCall(5, P("g"), "a")}]
Ph == Package(<<D("c"), D("d")>>, {GoCall(2, P("h"), "c"), [GoCall(1, P("h"), "d") EXCEPT !.invoke = TRUE],
                                   [GoCall(1, P("h"), "c") EXCEPT !.literal = TRUE]})
MCLoad == <<P("g"), P("h")>>

MCPackageVersions ==
  [p \in {P("g"), P("h")} |->
     IF p = P("g")
     THEN {Pg, [Pg EXCEPT !.broken = TRUE], [Pg EXCEPT !.testsBroken = TRUE, !.calls = {GoCall(3, P("g"), "b")}]}
     ELSE {Ph, [Ph EXCEPT !.defs = <<D("d"), D("e")>>, !.calls = {GoCall(1, P("h"), "e")}]}]

\* Two files with the name of one module, the first of which calls the other.
TwinTs == File(<<Def("load", <<>>, FALSE, 1, 9)>>, {Call("raw", "", 2)}, [raw |-> Import(<<".", "w", ".js">>, "load")])
TwinJs == File(<<Def("load", <<>>, FALSE, 1, 9)>>, {}, None)

MCVersions ==
  [f \in ToSet(MCWalk) |->
     CASE f = UiA -> {A1, A2, Torn(A1, 1), Torn(A1, 2)}
       [] f = LibB -> {B1, B2, Torn(B1, 1)}
       [] f = TestT -> {T1}
       [] f = ModM -> {M1, Torn(M1, 0), [M1 EXCEPT !.big = TRUE]}
       [] f = InitM -> {I1, I2, Torn(I1, 0)}
       [] f = UseU -> {U1, U2}
       [] f = GTs -> {G1, Torn(G1, 1)}
       [] f = WJs -> {TwinJs}
       [] f = WTs -> {TwinTs, Torn(TwinTs, 0)}]

Web == [files |-> {UiA, LibB, TestT}, packages |-> {}]
Python == [files |-> {ModM, InitM, UseU}, packages |-> {}]
Go == [files |-> {}, packages |-> {P("g"), P("h")}]
Mixed == [files |-> {GTs}, packages |-> {P("g"), P("h")}]
Twins == [files |-> {WJs, WTs}, packages |-> {}]
Scenes == {Web, Python, Go, Mixed, Twins}

MCInit == scene \in Scenes /\ IndexInit

\* Only what a scene is about is there.
OfScene ==
  /\ DOMAIN mapper' \subseteq scene.files /\ DOMAIN go' \subseteq scene.packages
  /\ scene.packages = {} => loads' = loads
MCSpec == MCInit /\ [][IndexNext /\ OfScene /\ UNCHANGED scene]_<<indexVars, scene>>
=============================================================================
