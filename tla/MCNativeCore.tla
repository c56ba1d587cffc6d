---------------------------- MODULE MCNativeCore ----------------------------
(***************************************************************************)
(* Documents for NativeCore: one that always builds, one that builds for   *)
(* some selections only, and one without nodes.                            *)
(***************************************************************************)
EXTENDS NativeCore

Node(name, chain) == [name |-> name, chain |-> chain]

Group(name, type, all) == [name |-> name, type |-> type, now |-> "", all |-> all]

Rule(kind, hits, target) == [kind |-> kind, hits |-> hits, target |-> target]

MCDoc ==
  {[proxies |-> <<Node("a", "a"), Node("c", "c")>>,
    groups  |-> <<Group("auto", "url-test", <<"a", "c">>),
                  Group("main", "select", <<"auto", "DIRECT">>)>>,
    rules   |-> <<Rule("MASK", {"x"}, "auto"), Rule("MATCH", {"x", "y"}, "main")>>,
    mode    |-> "rule"],
   [proxies |-> <<Node("a", "a"), Node("b", "Failed")>>,
    groups  |-> <<Group("main", "fallback", <<"a", "b">>)>>,
    rules   |-> <<Rule("MASK", {"x"}, "main")>>,
    mode    |-> "rule"],
   [proxies |-> <<>>, groups |-> <<>>,
    rules   |-> <<Rule("MATCH", {"x", "y"}, "DIRECT")>>, mode |-> "global"]}

MCText ==
  {"DIRECT", "REJECT", "Failed", "", "a", "b", "c", "auto", "main"}

MCMetadata == {"note"}

MCPreferred == {"main"}

MCDest == {"x", "y"}

MCDelay == {-6, 1, 2}
=============================================================================
