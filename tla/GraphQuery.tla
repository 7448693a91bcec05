------------------------------ MODULE GraphQuery ------------------------------
(***************************************************************************)
(* query.go: what graph_symbol and graph_package answer from one graph.db. *)
(* Symbols are numbered in the order of their qualified names, which is    *)
(* also the order of file and line here.  A name, a qualified name and a   *)
(* package are sequences of words and separators; LIKE compares them       *)
(* without regard to case, = does not.  Freshness is in GraphManager, the  *)
(* ranking of a free-text search is SQLite's.                              *)
(***************************************************************************)
EXTENDS Integers, Listings, SequencesExt

CONSTANTS
  MaxDepth,       \* levels of neighbours a query may ask for
  MaxPathDepth,   \* calls in the longest path that is looked for
  MaxNeighbors,   \* rows of one direction, all levels together
  MaxMatches,     \* rows of an ambiguous name
  MaxPkgSymbols,  \* rows of a package
  BlastCap,       \* transitive callers that are counted
  Lower,          \* the words that have upper case, and their lower case
  Graphs,         \* what a graph.db may hold
  Requests,       \* what graph_symbol may be asked
  PackageNames    \* what graph_package may be asked

VARIABLES
  graph,    \* the symbols, the edges, the interface dispatches, the implementations
  answer    \* the last answer

queryVars == <<graph, answer>>

sym == graph.symbols
Id == DOMAIN sym

SymbolRow == [qname : Seq(STRING), name : Seq(STRING), pkg : Seq(STRING), kind : STRING,
              tier : STRING, exported : BOOLEAN, test : BOOLEAN]
IsGraph(g) ==
  /\ g.symbols \in Seq(SymbolRow)
  /\ g.edges \cup g.virtual \cup g.implements \subseteq (DOMAIN g.symbols) \X (DOMAIN g.symbols)

ASSUME QueryAssumption ==
  /\ {MaxDepth, MaxPathDepth, MaxNeighbors, MaxMatches, MaxPkgSymbols, BlastCap} \subseteq Nat \ {0}
  /\ \A g \in Graphs : IsGraph(g)
  /\ Requests \subseteq [name : Seq(STRING) \ {<<>>}, dir : STRING, depth : Int, to : Seq(STRING), noTests : BOOLEAN]
  /\ PackageNames \subseteq Seq(STRING)

Capped(seq, cap) == [k \in 1 .. Min({cap, Len(seq)}) |-> seq[k]]

Fold(s) == [k \in DOMAIN s |-> IF s[k] \in DOMAIN Lower THEN Lower[s[k]] ELSE s[k]]
EndsLike(s, tail) == IsSuffix(Fold(tail), Fold(s))
StartsLike(s, head) == IsPrefix(Fold(head), Fold(s))
HasLike(s, part) ==
  \E k \in 1 .. Len(s) : /\ k + Len(part) <= Len(s) + 1
                          /\ SubSeq(Fold(s), k, k + Len(part) - 1) = Fold(part)

(***************************************************************************)
(* Names                                                                   *)
(***************************************************************************)

\* The four ways a name is looked up, the most literal first.
NameRungs(name) ==
  LET tail == IF Head(name) = "." THEN Tail(name) ELSE name
  IN  <<{i \in Id : sym[i].qname = name},
        {i \in Id : sym[i].name = name},
        {i \in Id : EndsLike(sym[i].qname, <<".">> \o tail)},
        {i \in Id : EndsLike(sym[i].qname, <<":">> \o tail)}>>

FindSymbol(name) ==
  LET rungs == NameRungs(name)
      hits == {k \in DOMAIN rungs : rungs[k] # {}}
  IN  IF hits = {} THEN <<>> ELSE Capped(Ascending(rungs[Min(hits)]), MaxMatches)

(***************************************************************************)
(* Neighbours                                                              *)
(***************************************************************************)

Next1(S, dir) ==
  IF dir = "up" THEN {i \in Id : \E j \in S : <<i, j>> \in graph.edges}
  ELSE {i \in Id : \E j \in S : <<j, i>> \in graph.edges}

\* Mutated form of Before: names alone decide.
BeforeByName(start, i, j) == i < j

\* Production code first, then the package of the symbol asked about.
Before(start, i, j) ==
  LET weight(n) == (IF sym[n].test THEN 2 ELSE 0) + (IF sym[n].pkg = sym[start].pkg THEN 0 ELSE 1)
  IN  weight(i) < weight(j) \/ (weight(i) = weight(j) /\ i < j)

\* One more level: all that fits under the cap, and whether that was all.
NeighborLevel(st, start, dir, noTests, depth) ==
  LET found == {i \in Next1(st.frontier, dir) \ st.seen : noTests => ~ sym[i].test}
      order == Listing(found, LAMBDA i, j : Before(start, i, j))
      fit == Capped(order, MaxNeighbors - Len(st.rows))
  IN  [rows |-> st.rows \o [k \in DOMAIN fit |-> [id |-> fit[k], depth |-> depth]],
       seen |-> st.seen \cup found, frontier |-> found, truncated |-> fit # order]

NoLevel(start) == [rows |-> <<>>, seen |-> {start}, frontier |-> {start}, truncated |-> FALSE]
NextLevel(st, start, dir, noTests, depth) ==
  IF st.truncated \/ st.frontier = {} THEN st ELSE NeighborLevel(st, start, dir, noTests, depth)

BfsNeighbors(start, dir, depth, noTests) ==
  LET level[d \in Nat] ==
        IF d = 0 THEN NoLevel(start) ELSE NextLevel(level[d - 1], start, dir, noTests, d)
  IN  level[depth]

CallerSplit(id) ==
  LET callers == Next1({id}, "up")
  IN  [total |-> Cardinality(callers),
       inTests |-> Cardinality({c \in callers : sym[c].test}),
       viaInterface |-> Cardinality({c \in callers : <<c, id>> \in graph.virtual})]

CalleeCount(id) == Cardinality(Next1({id}, "down"))

\* The recursive query UNIONs callers of callers until nothing is new.
MoreCallers(known, id) == known \cup Next1(known \cup {id}, "up")
CallersWithin(id, n) ==
  LET up[k \in Nat] == IF k = 0 THEN {} ELSE MoreCallers(up[k - 1], id)
  IN  up[n]
TransitiveCallers(id) == Min({BlastCap, Cardinality(CallersWithin(id, Len(sym)))})

(***************************************************************************)
(* Paths                                                                   *)
(***************************************************************************)

\* Rows come in the order of the edges' key, so the first caller wins.
PathLevel(st) ==
  LET next == Next1(st.frontier, "down") \ DOMAIN st.parent
      caller(t) == Min({c \in st.frontier : <<c, t>> \in graph.edges})
  IN  [frontier |-> next,
       parent |-> [t \in DOMAIN st.parent \cup next |->
                     IF t \in next THEN caller(t) ELSE st.parent[t]]]

NoSteps(start) == [frontier |-> {start}, parent |-> [t \in {start} |-> start]]
SearchOn(st, target) == IF target \in DOMAIN st.parent THEN st ELSE PathLevel(st)
Back(rest, start, parent) == IF Head(rest) = start THEN rest ELSE <<parent[Head(rest)]>> \o rest

CallSearch(start, target, n) ==
  LET level[d \in Nat] == IF d = 0 THEN NoSteps(start) ELSE SearchOn(level[d - 1], target)
  IN  level[n]
CallChain(start, target, parent, n) ==
  LET chain[k \in Nat] == IF k = 0 THEN <<target>> ELSE Back(chain[k - 1], start, parent)
  IN  chain[n]

\* The chain of calls from start to target, <<>> when none is short enough.
CallPath(start, target) ==
  LET parent == CallSearch(start, target, MaxPathDepth).parent
  IN  IF target \in DOMAIN parent THEN CallChain(start, target, parent, MaxPathDepth) ELSE <<>>

(***************************************************************************)
(* graph_symbol                                                            *)
(***************************************************************************)

Implementers(id) == {t \in Id : <<id, t>> \in graph.implements}
Satisfies(id) == {i \in Id : <<i, id>> \in graph.implements}

TypeHasMethods(id) ==
  \E m \in Id : sym[m].kind = "method" /\ StartsLike(sym[m].qname, sym[id].qname \o <<".">>)

\* Where a symbol that is no end of a call edge sends the question.
BlastHint(id) ==
  CASE sym[id].kind = "interface" -> "implementers"
    [] sym[id].kind = "type" -> IF TypeHasMethods(id) THEN "methods" ELSE "references"
    [] sym[id].kind \in {"const", "var"} -> "references"
    [] OTHER -> "none"

SymbolPrecision(id) == IF sym[id].tier = "go" THEN "resolved" ELSE "syntactic"

Refusal(why) == [kind |-> why]

PathAnswer(id, to) ==
  LET targets == FindSymbol(to)
      path == CallPath(id, targets[1])
  IN  IF targets = <<>> THEN Refusal("no target")
      ELSE IF Len(targets) > 1 THEN Refusal("ambiguous target")
      ELSE IF path = <<>> THEN Refusal("no path")
      ELSE [kind |-> "path", path |-> path]

NeighborAnswer(id, req) ==
  LET depth == Min({Max({req.depth, 1}), MaxDepth})
      none == [rows |-> <<>>, truncated |-> FALSE]
      up == IF req.dir = "down" THEN none ELSE BfsNeighbors(id, "up", depth, req.noTests)
      down == IF req.dir = "up" THEN none ELSE BfsNeighbors(id, "down", depth, req.noTests)
      split == CallerSplit(id)
  IN  [kind |-> "symbol", id |-> id, depth |-> depth, callers |-> up, callees |-> down,
       callersTotal |-> IF up.truncated /\ depth = 1
                        THEN split.total - (IF req.noTests THEN split.inTests ELSE 0) ELSE 0,
       calleesTotal |-> IF down.truncated /\ depth = 1 THEN CalleeCount(id) ELSE 0,
       dispatched |-> req.dir # "down" /\ split.viaInterface * 2 > split.total,
       transitive |-> IF sym[id].kind \in {"func", "method"} THEN TransitiveCallers(id) ELSE 0,
       implementers |-> IF sym[id].kind = "interface" THEN Capped(Ascending(Implementers(id)), MaxNeighbors) ELSE <<>>,
       implementersTotal |-> IF sym[id].kind = "interface" THEN Cardinality(Implementers(id)) ELSE 0,
       satisfies |-> IF sym[id].kind = "type" THEN Capped(Ascending(Satisfies(id)), MaxNeighbors) ELSE <<>>,
       redirect |-> BlastHint(id), precision |-> SymbolPrecision(id),
       carried |-> sym[id].pkg \in graph.carried,
       truncated |-> up.truncated \/ down.truncated
                     \/ (sym[id].kind = "interface" /\ Cardinality(Implementers(id)) > MaxNeighbors)
                     \/ (sym[id].kind = "type" /\ Cardinality(Satisfies(id)) > MaxNeighbors)]

Symbol(req) ==
  LET rows == FindSymbol(req.name)
  IN  IF rows = <<>> THEN Refusal("search")
      ELSE IF Len(rows) > 1 THEN [kind |-> "matches", matches |-> rows]
      ELSE IF req.dir \notin {"up", "down", "both"} THEN Refusal("invalid direction")
      ELSE IF req.to # <<>> THEN PathAnswer(rows[1], req.to)
      ELSE NeighborAnswer(rows[1], req)

(***************************************************************************)
(* graph_package                                                           *)
(***************************************************************************)

Packages == {sym[i].pkg : i \in Id}
Dotted(pkg) == ReplaceAll(pkg, "/", ".")

\* The shortest packages a name stands for: as typed, or else with dots.
ResolvePackage(pkg) ==
  LET named(cand) == {p \in Packages : p = cand \/ EndsLike(p, <<"/">> \o cand) \/ EndsLike(p, <<".">> \o cand)}
      hits == IF named(pkg) # {} THEN named(pkg) ELSE named(Dotted(pkg))
  IN  {p \in hits : \A q \in hits : Len(p) <= Len(q)}

\* The symbols below a directory.
PackageDirWhere(pkg) ==
  LET under(p, cand, sep) == \/ StartsLike(p, cand \o sep)
                             \/ EndsLike(p, sep \o cand)
                             \/ HasLike(p, sep \o cand \o sep)
  IN  {i \in Id : \E cand \in {pkg, Dotted(pkg)} :
                    sym[i].pkg = cand \/ \E sep \in {<<"/">>, <<".">>} : under(sym[i].pkg, cand, sep)}

PackageAnswer(pkg, S) ==
  LET production == {i \in S : ~ sym[i].test}
      listed == {i \in production : sym[i].exported}
      rows == Capped(Ascending(listed), MaxPkgSymbols)
  IN  [kind |-> "package", package |-> pkg, rows |-> rows,
       unexported |-> Cardinality(production \ listed),
       tests |-> Cardinality(S \ production),
       total |-> IF rows = Ascending(listed) THEN 0 ELSE Cardinality(listed),
       mapper |-> \A i \in S : sym[i].tier # "go"]

(***************************************************************************)
(* The queries                                                             *)
(***************************************************************************)

AskSymbol(req) ==
  /\ answer' = [request |-> req, reply |-> Symbol(req)]
  /\ UNCHANGED graph

\* SQLite picks any of the shortest packages.
AskPackage(pkg) ==
  /\ LET resolved == ResolvePackage(pkg)
         below == PackageDirWhere(pkg)
     IN  IF resolved # {}
         THEN \E p \in resolved :
                answer' = [request |-> [package |-> pkg],
                           reply |-> PackageAnswer(p, {i \in Id : sym[i].pkg = p})]
         ELSE answer' = [request |-> [package |-> pkg],
                         reply |-> IF below = {} THEN Refusal("no package") ELSE PackageAnswer(pkg, below)]
  /\ UNCHANGED graph

NoAnswer == [request |-> {}]
QueryInit == graph \in Graphs /\ answer = NoAnswer
\* The answers say nothing to each other: the next is asked as if it were the first.
QueryNext ==
  IF answer = NoAnswer
  THEN \/ \E req \in Requests : AskSymbol(req)
       \/ \E name \in PackageNames : AskPackage(name)
  ELSE answer' = NoAnswer /\ UNCHANGED graph
QuerySpec == QueryInit /\ [][QueryNext]_queryVars

(***************************************************************************)
(* Properties                                                              *)
(***************************************************************************)

\* The symbols at most d calls away, tests left out on request.
Nearer(near, dir, noTests) == near \cup {i \in Next1(near, dir) : noTests => ~ sym[i].test}
Ball(start, dir, noTests, d) ==
  LET ball[k \in Nat] == IF k = 0 THEN {start} ELSE Nearer(ball[k - 1], dir, noTests)
  IN  ball[d]

Shortest(start, dir, noTests, i, d) ==
  /\ i \in Ball(start, dir, noTests, d)
  /\ d = 0 \/ i \notin Ball(start, dir, noTests, d - 1)

\* A list of neighbours holds each symbol once, with its distance; it is complete
\* unless it says so; and what the cap cut off at a level is never production
\* code while a test of that level is shown (issue #49).
NeighborsAreTrue(list, id, dir, depth, noTests) ==
  LET rows == list.rows
      shown == {rows[k].id : k \in DOMAIN rows}
      all == Ball(id, dir, noTests, depth) \ {id}
  IN  /\ Cardinality(shown) = Len(rows)
      /\ \A k \in DOMAIN rows : rows[k].depth \in 1 .. depth /\ Shortest(id, dir, noTests, rows[k].id, rows[k].depth)
      /\ IF list.truncated THEN Len(rows) = MaxNeighbors /\ shown # all /\ shown \subseteq all
         ELSE shown = all
      /\ \A k \in DOMAIN rows, i \in all \ shown :
           sym[rows[k].id].test /\ Shortest(id, dir, noTests, i, rows[k].depth) => sym[i].test

\* Whatever is asked, the answer says what the graph holds: neighbours as above
\* with true totals, the number of symbols that can reach the one asked about, a
\* shortest chain of calls or none, the package as three parts that add up, and an
\* exactly named symbol before any looser match.
ExactFirst(name, S) ==
  LET exact == {i \in Id : sym[i].qname = name} IN exact # {} => S \subseteq exact

SymbolIsTrue(req, r) ==
  LET direct == {c \in Next1({r.id}, "up") : req.noTests => ~ sym[c].test}
      reaching == {i \in Id : \E j \in Next1({i}, "down") : j = r.id \/ r.id \in Ball(j, "down", FALSE, Len(sym))}
  IN  /\ ExactFirst(req.name, {r.id})
      /\ req.dir # "down" => NeighborsAreTrue(r.callers, r.id, "up", r.depth, req.noTests)
      /\ req.dir # "up" => NeighborsAreTrue(r.callees, r.id, "down", r.depth, req.noTests)
      /\ r.callersTotal # 0 => r.callersTotal = Cardinality(direct) /\ r.callersTotal > MaxNeighbors
      /\ r.calleesTotal # 0 /\ ~ req.noTests => r.calleesTotal = Cardinality(Next1({r.id}, "down"))
      /\ sym[r.id].kind \in {"func", "method"} => r.transitive = Min({BlastCap, Cardinality(reaching)})

PathIsTrue(req, r) ==
  LET start == FindSymbol(req.name)[1]
      target == FindSymbol(req.to)[1]
  IN  IF r.kind = "no path" THEN target \notin Ball(start, "down", FALSE, MaxPathDepth)
      ELSE /\ r.path[1] = start /\ Last(r.path) = target
           /\ \A k \in 1 .. Len(r.path) - 1 : <<r.path[k], r.path[k + 1]>> \in graph.edges
           /\ Shortest(start, "down", FALSE, target, Len(r.path) - 1)

PackageRowsAreTrue(r) ==
  LET own == {i \in Id : sym[i].pkg = r.package}
  IN  /\ \A k \in DOMAIN r.rows : sym[r.rows[k]].exported /\ ~ sym[r.rows[k]].test
      /\ own # {} =>
           /\ \A k \in DOMAIN r.rows : r.rows[k] \in own
           /\ Cardinality(own) = (IF r.total = 0 THEN Len(r.rows) ELSE r.total) + r.unexported + r.tests

AnswerIsTrue ==
  LET r == answer.reply
  IN  answer # NoAnswer =>
        /\ r.kind = "symbol" => SymbolIsTrue(answer.request, r)
        /\ r.kind = "matches" => ExactFirst(answer.request.name, {r.matches[k] : k \in DOMAIN r.matches})
        /\ r.kind \in {"path", "no path"} => PathIsTrue(answer.request, r)
        /\ r.kind = "package" => PackageRowsAreTrue(r)

\* A total of callees counts what the rows list, as the total of callers does:
\* "rows exclude tests; keep the total comparable" (query.go).
TotalsAreComparable ==
  answer # NoAnswer /\ answer.reply.kind = "symbol" /\ answer.reply.calleesTotal # 0 =>
    answer.reply.calleesTotal = Cardinality({c \in Next1({answer.reply.id}, "down") : answer.request.noTests => ~ sym[c].test})

\* A type is sent to its methods only when it has some.
MethodsAreItsOwn ==
  answer # NoAnswer /\ answer.reply.kind = "symbol" /\ answer.reply.redirect = "methods" =>
    \E m \in Id : sym[m].kind = "method" /\ IsPrefix(sym[answer.reply.id].qname, sym[m].qname)

===============================================================================
