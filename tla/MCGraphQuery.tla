---------------------------- MODULE MCGraphQuery ----------------------------
(* Graphs and queries for GraphQuery.                                      *)
EXTENDS GraphQuery

MCLower == [Save |-> "save", Store |-> "store"]

Sym(qname, name, pkg, kind, tier, exported, test) ==
  [qname |-> qname, name |-> name, pkg |-> pkg, kind |-> kind, tier |-> tier,
   exported |-> exported, test |-> test]
Func(p, n, test) == Sym(<<p, ".", n>>, <<n>>, <<p>>, "func", "go", FALSE, test)

\* Five functions in two packages, the first and the third tests; any three calls,
\* and any four of which two leave the function the requests name.
Functions5 == <<Func("p", "a", TRUE), Func("p", "b", FALSE), Func("p", "c", TRUE),
                Func("q", "d", FALSE), Func("q", "e", FALSE)>>
Calls == {e \in (1 .. 5) \X (1 .. 5) : e[1] # e[2]}
CallGraphs ==
  {[symbols |-> Functions5, edges |-> E, virtual |-> {e \in E : e[1] = 4}, implements |-> {}, carried |-> {<<"q">>}] :
     E \in UNION {kSubset(k, Calls) : k \in 0 .. 3}
           \cup {F \cup G : F \in kSubset(2, {e \in Calls : e[1] = 2}), G \in kSubset(2, {e \in Calls : e[1] # 2})}}

\* Both tiers, a type and an interface, and packages that end alike.
Types ==
  <<Sym(<<"in", "/", "store", ".", "Store">>, <<"Store">>, <<"in", "/", "store">>, "type", "go", TRUE, FALSE),
    Sym(<<"in", "/", "store", ".", "Store", ".", "Save">>, <<"Store", ".", "Save">>, <<"in", "/", "store">>, "method", "go", TRUE, FALSE),
    Sym(<<"in", "/", "store", ".", "Saver">>, <<"Saver">>, <<"in", "/", "store">>, "interface", "go", TRUE, FALSE),
    Sym(<<"in", "/", "store", ".", "probe">>, <<"probe">>, <<"in", "/", "store">>, "func", "go", FALSE, TRUE),
    Sym(<<"in", "/", "store", ".", "store">>, <<"store">>, <<"in", "/", "store">>, "type", "go", FALSE, FALSE),
    Sym(<<"store", ".", "store">>, <<"store">>, <<"store">>, "type", "go", FALSE, FALSE),
    Sym(<<"py", ".", "db", ":", "Store">>, <<"Store">>, <<"py", ".", "db">>, "type", "mapper", TRUE, FALSE),
    Sym(<<"py", ".", "db", ":", "Store", ".", "save">>, <<"save">>, <<"py", ".", "db">>, "method", "mapper", TRUE, FALSE),
    Sym(<<"web", "/", "ui", "/", "button", ":", "save">>, <<"save">>, <<"web", "/", "ui", "/", "button">>, "func", "mapper", FALSE, FALSE)>>
TypeGraphs ==
  {[symbols |-> Types, edges |-> {<<4, 2>>, <<9, 8>>}, virtual |-> {}, implements |-> I, carried |-> {}] :
     I \in SUBSET {<<3, 1>>, <<3, 6>>}}

Request(name, dir, depth, to, noTests) ==
  [name |-> name, dir |-> dir, depth |-> depth, to |-> to, noTests |-> noTests]

CallRequests ==
  {Request(Functions5[2].qname, dir, depth, <<>>, noTests) :
     dir \in {"up", "down"}, depth \in 0 .. 4, noTests \in BOOLEAN}
  \cup {Request(Functions5[2].qname, "both", 1, <<Functions5[k].name[1]>>, FALSE) : k \in {2, 5}}

TypeRequests ==
  {Request(name, "both", 1, <<>>, FALSE) :
     name \in {Types[k].qname : k \in DOMAIN Types}
              \cup {<<"Store">>, <<"Save">>, <<"store">>, <<".", "Save">>, <<"Store", ".", "save">>, <<"nothing">>}}
  \cup {Request(Types[9].qname, "sideways", 1, <<>>, FALSE), Request(Types[9].qname, "both", 1, <<"Store">>, FALSE),
        Request(Types[9].qname, "both", 1, <<"nothing">>, FALSE)}
MCPackageNames == {<<"store">>, <<"in", "/", "store">>, <<"py", "/", "db">>, <<"db">>, <<"ui">>, <<"web">>, <<"in">>, <<"none">>}

MCGraphs == CallGraphs \cup TypeGraphs
MCRequests == CallRequests \cup TypeRequests
=============================================================================
