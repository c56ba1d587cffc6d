--------------------------- MODULE MCConfigReader ---------------------------
(***************************************************************************)
(* Documents for ConfigReader: one node with two sets of options in any    *)
(* order, as a block or a flow item, or a few small items.                 *)
(***************************************************************************)
EXTENDS ConfigReader

K(key, val) == Line("key", 4, key, val, <<>>)
Open(key) == Line("open", 4, key, "", <<>>)
Sub(key, val) == Line("key", 6, key, val, <<>>)

\* The fields of the protocol.
MCBase ==
  [vless |-> <<K("uuid", "id")>>, trojan |-> <<K("password", "pw")>>,
   ss |-> <<K("cipher", "aes"), K("password", "pw")>>, hysteria2 |-> <<K("auth", "pw")>>,
   vmess |-> <<K("uuid", "id"), K("cipher", "auto")>>, anytls |-> <<K("password", "pw")>>]

MCOptions ==
  {<<K("tls", "true"), K("servername", "sni")>>,
   <<K("network", "ws"), Open("ws-opts"), Sub("path", "/ws"),
     Line("open", 6, "headers", "", <<>>), Line("key", 8, "Host", "cdn", <<>>)>>,
   <<K("network", "h2"), Open("h2-opts"), Line("open", 6, "host", "", <<>>),
     Line("item", 8, "", "h2.host", <<>>), Sub("path", "/h2")>>,
   <<K("network", "grpc"), Open("grpc-opts"), Sub("grpc-service-name", "svc")>>,
   <<K("security", "reality"), Open("reality-opts"), Sub("public-key", "pbk"), Sub("short-id", "sid")>>,
   <<K("plugin", "v2ray-plugin")>>, <<K("plugin", "shadow-tls")>>,
   <<Open("plugin-opts"), Sub("mode", "websocket"), Sub("host", "front"), Sub("tls", "true"),
     Sub("password", "secret"), Sub("path", "/v2")>>,
   <<Open("smux"), Sub("enabled", "true"), Sub("max-connections", "4")>>,
   <<Open("alpn"), Line("item", 6, "", "h2", <<>>)>>,
   <<K("security", "tls"), Open("tls-opts"), Sub("sni", "front.sni")>>,
   <<K("udp", "false"), K("skip-cert-verify", "true")>>}

\* Options that do not give a key twice, nor the name of the server.
MCPairs ==
  {<<>>} \cup {<<a>> : a \in MCOptions}
    \cup {<<a, b>> \in MCOptions \X MCOptions :
            \A i \in DOMAIN a, j \in DOMAIN b :
              /\ a[i].key = b[j].key => a[i].indent > 4
              /\ {a[i].key, b[j].key} # {"servername", "sni"}}

Start(style, name) ==
  IF style = "dash" THEN <<Line("dash", 2, "", "", <<>>), K("name", name)>>
  ELSE <<Line("name", 2, "", name, <<>>)>>

\* An item that begins with the first of its lines and names itself at the end.
MCHeadless(name, lines) ==
  LET l == lines[1]
  IN <<Line("first", 2, "", l.key \o ": " \o l.val, <<Entry("", l.key, l.val)>>)>>
       \o Tail(lines) \o <<K("name", name)>>

MCItem(style, name, lines) ==
  CASE style = "flow"  -> <<Line("flow", 2, "", "", Entries(Start("name", name) \o lines))>>
    [] style = "first" -> MCHeadless(name, lines)
    [] OTHER           -> Start(style, name) \o lines

MCNode(type, style, options, name) ==
  MCItem(style, name, <<K("type", type), K("server", "srv"), K("port", "443")>>
                      \o MCBase[type] \o FlattenSeq(options))

D(proxies, groups, rules, providers, rulesets, wellFormed) ==
  [proxies |-> proxies, groups |-> groups, rules |-> rules, providers |-> providers,
   rulesets |-> rulesets, wellFormed |-> wellFormed]

MCStyles == {"flow", "dash", "name", "first"}

\* YAML does not see how an item begins, and the lines of an item that begins as
\* another does are read alike: one option is enough for these.
MCNodeDocs ==
  {D(<<MCNode(type, style, options, "n")>>, <<>>, <<>>, <<>>, <<>>, ok) :
     type \in DOMAIN MCBase, style \in MCStyles,
     options \in {options \in MCPairs : Len(options) < 2}, ok \in BOOLEAN}
  \cup
  {D(<<MCNode(type, style, options, "n")>>, <<>>, <<>>, <<>>, <<>>, FALSE) :
     type \in DOMAIN MCBase, style \in {"flow", "name"}, options \in MCPairs}
  \cup
  {D(<<MCNode(type, "name", options, "n")>>, <<>>, <<>>, <<>>, <<>>, TRUE) :
     type \in DOMAIN MCBase, options \in MCPairs}

Small(style, name) == MCNode("ss", style, <<>>, name)

\* Members below a header, behind the key, or those of a provider.
MCGroup(style, name, listed, form, used) ==
  LET list(key, ns) == IF ns = <<>> THEN <<>>
                       ELSE IF form = "below"
                       THEN <<Open(key)>> \o [i \in DOMAIN ns |-> Line("item", 6, "", ns[i], <<>>)]
                       ELSE [i \in DOMAIN ns |-> K(key, ns[i])]
  IN MCItem(style, name, <<K("type", "select")>> \o list("proxies", listed) \o list("use", used)
                         \o <<K("interval", "300")>>)

MCItems(s1, s2, s3, listed, form, used, ok) ==
  D(<<Small(s1, "a"), Small(s2, "note"), Small(s3, "b")>>,
    <<MCGroup(s1, "main", listed, form, used), MCGroup(s2, "auto", <<"main", "b", "note">>, "below", <<>>)>>,
    <<>>, <<[name |-> "p", items |-> <<Small("name", "c"), Small(s3, "d")>>]>>, <<>>, ok)

MCListed == {<<>>, <<"a", "c", "gone">>, <<"b", "DIRECT">>}

\* Items of all kinds in any order, a note among them, and one more node from
\* a provider, which only YAML looks at.
MCItemDocs ==
  {MCItems(s1, s2, s3, listed, form, used, FALSE) :
     s1 \in MCStyles, s2 \in MCStyles, s3 \in MCStyles, listed \in MCListed,
     form \in {"below", "behind"}, used \in {<<>>, <<"p">>}}
  \cup
  {MCItems(s1, s2, "name", listed, form, used, TRUE) :
     s1 \in MCStyles, s2 \in MCStyles, listed \in MCListed,
     form \in {"below", "behind"}, used \in {<<>>, <<"p">>, <<"q", "p">>}}

Plain(mark, parts) == [mark |-> mark, parts |-> parts]

MCPayloads ==
  {<<Plain("", <<"x">>)>>, <<Plain("#", <<"x">>), Plain("full:", <<"y">>)>>,
   <<Plain("", <<"DOMAIN-KEYWORD", "x">>), Plain("", <<"SRC-PORT", "y", "z">>)>>,
   <<Plain("", <<"PROCESS-NAME", "x">>)>>, <<Plain("", <<"MATCH", "any">>)>>,
   <<Plain("", <<"GEOIP", "y">>), Plain("", <<"GEOSITE", "x">>)>>, <<>>}

MCRuleSets ==
  {s \in [name : {"s"}, behavior : {"domain", "classical", "ip-cidr"}, payload : MCPayloads] :
     s \in RuleSet}

\* For GEOIP, y is a country and x a list of masks; for GEOSITE, y has keywords
\* and x regular expressions only.
MCLines ==
  {<<"RULE-SET", "s", "a">>, <<"RULE-SET", "gone", "b">>, <<"DOMAIN", "x", "b">>, <<"MATCH", "DIRECT">>,
   <<"DOMAIN", "y">>, <<"IP-CIDR", "y", "b", "no-resolve">>,
   <<"GEOIP", "y", "a">>, <<"GEOIP", "x", "a">>, <<"GEOSITE", "y", "a">>, <<"GEOSITE", "x", "a">>}

MCRules(rules, rulesets, ok) ==
  D(<<Small("name", "a"), Small("flow", "b"), Small("name", "b")>>,
    <<MCGroup("name", "main", <<"a", "b">>, "below", <<>>)>>, rules, <<>>, rulesets, ok)

\* A rule set between two other lines; the line reader does not look at it.
MCRuleDocs ==
  {MCRules(<<l1, <<"RULE-SET", "s", "a">>, l3>>, <<s>>, TRUE) :
     l1 \in MCLines, l3 \in MCLines, s \in MCRuleSets}
  \cup
  {MCRules(<<l1, l2, l3>>, <<>>, ok) :
     l1 \in MCLines, l2 \in MCLines,
     l3 \in {<<"MATCH", "DIRECT">>, <<"DOMAIN", "x", "b">>, <<"GEOIP", "y", "a">>}, ok \in BOOLEAN}

MCDocument == MCNodeDocs \cup MCItemDocs \cup MCRuleDocs

MCText == STRING
MCMetadata == {"note"}
MCPreferred == {"main"}
MCDest == {"x", "y"}
MCLan == {"x"}
MCCountry == {"y"}
MCKeyworded == {"y"}
MCMasked == {"z"}
=============================================================================
