----------------------------- MODULE MCServices -----------------------------
EXTENDS Services

\* Hosts, paths and services of the gateway, as their segments.
SomeHosts == {<<"10", "0", "0", "1">>, <<"dev", "micro", "mu">>, <<"dev", "m3o", "app">>,
              <<"box", "m3o", "app">>}
SomeHostname == <<"box", "m3o", "app">>
SomeAddresses == {<<"10", "0", "0", "1">>}
SomePaths == {<<"">>, <<"rpc">>, <<"service", "a">>, <<"a", "b">>, <<"v1", "a", "b">>}
SomeServices == {<<"go", "micro", "web", "a">>, <<"go", "micro", "web", "dev">>,
                 <<"dev", "web", "a">>, <<"go", "micro", "api", "v1", "a">>}

\* Spans of two nodes and two traces; a service named in a span; and services
\* whose names and versions run together alike.
SomeSpans == {"s1", "s2", "s3"}
SpanNodes == [s \in SomeSpans |-> IF s = "s1" THEN "n1" ELSE "n2"]
SpanTraces == [s \in SomeSpans |-> IF s = "s3" THEN "t2" ELSE "t1"]
SpanNames == [s \in SomeSpans |-> IF s = "s1" THEN {"a"} ELSE {}]
ListedServices ==
  {[name |-> <<"a">>, version |-> <<"b", "c">>], [name |-> <<"a", "b">>, version |-> <<"c">>],
   [name |-> <<"a">>, version |-> <<"c">>]}

\* The calls of the store are alike.
Symmetry == Permutations(StoreCallers)

\* Namespaces, names and versions of the runtime, some the beginning of others.
RunNamespaces == {<<>>, <<"go">>, <<"go", "b">>}
DefaultRun == <<"go">>
SomeRunNames == {<<"a">>, <<"a", "b">>}
SomeVersions == {<<>>, <<"1">>, <<"1", "2">>}
LatestVersion == <<"latest">>
=============================================================================
