--------------------------- MODULE MCConfigAdapter ---------------------------
(***************************************************************************)
(* Documents for ConfigAdapter: two nodes, one of which the adapter cannot *)
(* build, a subscription note among the nodes, and three groups that hold  *)
(* nodes, notes, built-in targets and each other, in circles too.          *)
(***************************************************************************)
EXTENDS ConfigAdapter

MCProxies == <<[name |-> "a", chain |-> "a"], [name |-> "b", chain |-> "Failed"],
               [name |-> "note", chain |-> "note"]>>

Group(name, type, now, all) == [name |-> name, type |-> type, now |-> now, all |-> all]

MCGroups ==
  {<<Group("auto", "url-test", "", auto), Group("back", "fallback", "", back),
     Group("main", "select", now, main)>> :
      auto \in {<<"b", "a">>, <<"note">>, <<"main", "b">>},
      back \in {<<"REJECT", "a">>, <<"b", "a">>, <<"auto", "main">>},
      main \in {<<"auto", "a">>, <<"note", "back", "auto">>, <<"back", "DIRECT">>},
      now  \in {"", "note"}}

Rule(kind, hits, target) == [kind |-> kind, hits |-> hits, target |-> target]

MCRules ==
  {<<Rule("MASK", {"x"}, "back"), Rule("MATCH", {"x", "y"}, "main")>>,
   <<Rule("RULE-SET", {"x"}, "back"), Rule("MASK", {"x"}, "auto")>>,
   <<Rule("KEYWORD", {"x"}, "gone"), Rule("MATCH", {"x", "y"}, "DIRECT")>>,
   <<Rule("MATCH", {"x", "y"}, "a"), Rule("MASK", {"y"}, "main")>>,
   <<>>}

\* Documents whose last rule is one that is left out of the plan, and that
\* have no MATCH.
MCDocOpen ==
  {[proxies |-> MCProxies, groups |-> <<Group("main", "select", "", <<"a", "DIRECT">>)>>,
    rules |-> <<Rule(first, {"x"}, "REJECT"), Rule(last, {"y"}, "REJECT")>>, mode |-> "rule"] :
     first \in {"MASK", "KEYWORD"}, last \in {"RULE-SET", "GEOSITE-REGEX"}}

MCDoc ==
  {[proxies |-> MCProxies, groups |-> g, rules |-> r, mode |-> m] :
     g \in MCGroups, r \in MCRules, m \in {"rule", "global"}} \cup MCDocOpen

MCText ==
  {"DIRECT", "REJECT", "Failed", "", "a", "b", "note", "auto", "back", "main", "gone"}

MCMetadata == {"note"}

MCPreferred == {"main"}

MCDest == {"x", "y"}

MCDelay == {-6, 1, 2}
-----------------------------------------------------------------------------
\* Parse overwrites all that is known, so one document per behaviour is enough.
MCNext == (config = Empty /\ \E doc \in Doc : Parse(doc)) \/ Edit

MCSpec == ConfigInit /\ [][MCNext]_configVars
=============================================================================
