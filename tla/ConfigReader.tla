---------------------------- MODULE ConfigReader ----------------------------
(***************************************************************************)
(* How the native core reads a Clash document (parse_clash_config in       *)
(* lib.rs): first as YAML; if serde_yaml rejects it, or finds nothing in   *)
(* it, line by line with a reader of its own, which keeps the item and the *)
(* section it is in.                                                       *)
(*                                                                         *)
(* A document is a record of its sections:                                 *)
(*   proxies, groups  sequences of items, an item being the sequence of    *)
(*                    its lines                                            *)
(*   rules            sequence of rules, a rule being the sequence of its  *)
(*                    parts                                                *)
(*   providers        sequence of [name, items]: the inline proxies of     *)
(*                    proxy-providers                                      *)
(*   rulesets         sequence of [name, behavior, payload]: the inline    *)
(*                    rule-providers                                       *)
(*   wellFormed       whether serde_yaml accepts the text                  *)
(*                                                                         *)
(* A line is a record [kind, indent, key, val, entries]:                   *)
(*   top    the name of a section (key)                                    *)
(*   flow   a whole item, - { ... }, with its entries                      *)
(*   dash   the start of an item, - and nothing else                       *)
(*   name   the start of an item with its name, - name: val                *)
(*   first  the start of an item with another key, - val, val being the    *)
(*          text of the one entry in entries                               *)
(*   open   key: and nothing else, the lines below it are indented deeper  *)
(*   key    key: val                                                       *)
(*   item   - val, an element of a list                                    *)
(*   rule   - and the parts of a rule (val)                                *)
(* A list is one entry per element.  Comments and empty lines, which both  *)
(* readers skip, lists in flow nodes, and items whose first line opens a   *)
(* block are left out, and so is a rule for 0.0.0.0/0 that is no MATCH.    *)
(***************************************************************************)
EXTENDS GroupRouting, ClientChain

CONSTANTS
  Document,   \* the documents that are read
  Lan,        \* the payloads that GEOIP has masks for
  Country,    \* its payloads that are a country
  Keyworded,  \* the GEOSITE categories with keywords
  Masked      \* those with masks, but no keywords

VARIABLES
  doc,       \* the document
  todo,      \* the lines that the line reader has not read yet
  section,   \* the section it is in
  node,      \* current_proxy: the block item it is in, <<>> for none
  group,     \* current_group
  members,   \* reading_group_proxies
  nested,    \* proxy_nested_section, "" for none
  depth,     \* proxy_nested_indent
  out,       \* what has been read: [proxies, groups, rules]
  reader     \* "none" yet, "yaml", "lines", or "done": the lines are all read

vars == <<doc, todo, section, node, group, members, nested, depth, out, reader>>

NothingRead == [proxies |-> <<>>, groups |-> <<>>, rules |-> <<>>]

WithName(s) == Only(s, {r \in ToSet(s) : r.name # Blank})

-----------------------------------------------------------------------------
(* Rules, and the entries of rule sets *)

Rule3(type, payload, target) == [type |-> type, payload |-> payload, target |-> target]

\* parse_rule_line: a sequence of no or one rule.
ParseRule(parts) ==
  CASE Len(parts) >= 2 /\ parts[1] = "MATCH" -> <<Rule3("MATCH", Blank, parts[2])>>
    [] Len(parts) >= 3 /\ parts[1] # "MATCH" -> <<Rule3(parts[1], parts[2], parts[3])>>
    [] OTHER -> <<>>

ExpandedTypes == {"DOMAIN", "DOMAIN-SUFFIX", "DOMAIN-KEYWORD", "IP-CIDR", "IP-CIDR6", "DST-PORT",
                  "GEOIP", "GEOSITE"}

\* An entry of a rule set is a record [mark, parts]: what it begins with, and
\* the parts after it.
DomainType(mark) ==
  CASE mark = "full:" -> "DOMAIN" [] mark = "keyword:" -> "DOMAIN-KEYWORD" [] OTHER -> "DOMAIN-SUFFIX"

\* Mutant of EntryRule: an entry with a type of its own keeps the name of the
\* rule set as its target.
EntryRuleOwnTarget(entry, behavior, target) ==
  IF entry.mark = "#" \/ entry.parts = <<>> \/ target = Blank THEN <<>>
  ELSE IF Len(entry.parts) >= 2 /\ entry.parts[1] \in ExpandedTypes
       THEN <<Rule3(entry.parts[1], entry.parts[2], entry.parts[2])>>
  ELSE IF behavior = "domain" THEN <<Rule3(DomainType(entry.mark), entry.parts[1], target)>>
  ELSE ParseRule(entry.parts)

\* rule_from_provider_entry: a sequence of no or one rule.  The entries of
\* domain and ipcidr sets without a type have one part.
EntryRule(entry, behavior, target) ==
  IF entry.mark = "#" \/ entry.parts = <<>> \/ target = Blank THEN <<>>
  ELSE IF Len(entry.parts) >= 2 /\ entry.parts[1] \in ExpandedTypes
       THEN <<Rule3(entry.parts[1], entry.parts[2], target)>>
  ELSE IF behavior = "domain" THEN <<Rule3(DomainType(entry.mark), entry.parts[1], target)>>
  ELSE IF behavior \in {"ipcidr", "ip-cidr"}
       THEN <<Rule3(IF entry.mark = "v6" THEN "IP-CIDR6" ELSE "IP-CIDR", entry.parts[1], target)>>
  ELSE LET rule == ParseRule(entry.parts)
       IN IF rule = <<>> THEN <<>> ELSE <<[rule[1] EXCEPT !.target = target]>>

\* The rules that take the place of one rule of the document: a rule set that
\* is known and has entries is replaced by those that can be read.
Expanded(rule, rulesets) ==
  LET i == SelectInSeq(rulesets, LAMBDA s : s.name = rule.payload /\ s.payload # <<>>)
  IN IF rule.type # "RULE-SET" \/ i = 0 THEN <<rule>>
     ELSE FlattenSeq([k \in DOMAIN rulesets[i].payload |->
                        EntryRule(rulesets[i].payload[k], rulesets[i].behavior, rule.target)])

RulesFromYaml(d) ==
  LET rules == FlattenSeq([i \in DOMAIN d.rules |-> ParseRule(d.rules[i])])
  IN FlattenSeq([i \in DOMAIN rules |-> Expanded(rules[i], d.rulesets)])

-----------------------------------------------------------------------------
(* The structure that serde_yaml sees in the lines of an item *)

\* The open line that a line is indented under, 0 for none.
Above(item) ==
  [i \in DOMAIN item |->
     Max({0} \cup {j \in 1 .. i - 1 : /\ item[j].kind = "open" /\ item[j].indent < item[i].indent
                                      /\ \A k \in j + 1 .. i : item[k].indent > item[j].indent})]

\* The section that the lines below an open line are in.
SectionBelow(item, j) ==
  IF j = 0 THEN Blank
  ELSE IF item[j].key = "headers" /\ Above(item)[j] # 0 /\ item[Above(item)[j]].key = "ws-opts"
       THEN "ws-headers" ELSE item[j].key

\* The elements of a list are entries with the key of the list.
Entries(item) ==
  FlattenSeq([i \in DOMAIN item |->
    LET j == Above(item)[i]
    IN CASE item[i].kind = "name" -> <<Entry(Blank, "name", item[i].val)>>
         [] item[i].kind = "key"  -> <<Entry(SectionBelow(item, j), item[i].key, item[i].val)>>
         [] item[i].kind = "item" ->
              <<Entry(SectionBelow(item, Above(item)[j]), item[j].key, item[i].val)>>
         [] OTHER                 -> item[i].entries])

-----------------------------------------------------------------------------
(* The documents *)

IsFlow(item) == item[1].kind = "flow"

\* An item whose first line has a key, but not its name.
Headless(item) == item[1].kind = "first"

LineShape ==
  [kind : {"flow", "dash", "name", "first", "open", "key", "item"}, indent : Nat, key : Text,
   val : Text, entries : Seq([sec : Text, key : Text, val : Text])]

\* An item names itself once, on a line of its own level.  In a flow item no
\* key before that ends like the name does.
NamesItself(item) ==
  IF IsFlow(item)
  THEN LET es == item[1].entries
       IN \E i \in DOMAIN es :
            /\ es[i].sec = Blank /\ es[i].key = "name"
            /\ \A k \in DOMAIN es \ {i} : es[k].key # "name" /\ (k < i => <<es[k].key, "name">> \notin Suffixed)
  ELSE \E i \in DOMAIN item :
         /\ item[i].kind = "name" \/ (item[i].kind = "key" /\ item[i].key = "name" /\ Above(item)[i] = 0)
         /\ \A k \in DOMAIN item \ {i} : item[k].kind # "name" /\ item[k].key # "name"

\* One flow line, or the line that begins the item and those below it, which are
\* indented deeper; the elements of a list are below its key.
Item ==
  {item \in Seq(LineShape) :
     /\ item # <<>>
     /\ IF IsFlow(item) THEN Len(item) = 1
        ELSE /\ item[1].kind \in {"dash", "name", "first"}
             /\ IF Headless(item)
                THEN LET es == item[1].entries
                     IN Len(es) = 1 /\ es[1].sec = Blank /\ es[1].key # "name"
                ELSE item[1].entries = <<>>
             /\ \A i \in DOMAIN item \ {1} :
                  /\ item[i].kind \in {"key", "open", "item"} /\ item[i].entries = <<>>
                  /\ item[i].indent > item[1].indent
                  /\ item[i].kind = "item" => Above(item)[i] # 0
     /\ NamesItself(item)}

\* The lists of a group are those of its members.
GroupItem ==
  {item \in Item :
     \A i \in DOMAIN item :
       item[i].kind = "item" =>
         LET j == Above(item)[i] IN item[j].key \in {"proxies", "use"} /\ Above(item)[j] = 0}

\* The entries of domain and ipcidr sets without a type have one part.
RuleSet ==
  {s \in [name : Text, behavior : Text, payload : Seq([mark : Text, parts : Seq(Text)])] :
     s.behavior \in {"domain", "ipcidr", "ip-cidr"} =>
       \A k \in DOMAIN s.payload :
         LET parts == s.payload[k].parts IN Len(parts) > 1 => parts[1] \in ExpandedTypes}

\* Items that begin at the same indent.
Aligned(items) == \A i, j \in DOMAIN items : items[i][1].indent = items[j][1].indent

\* No two records have the same name: a YAML mapping has no key twice.
Unique(s) == \A i, j \in DOMAIN s : s[i].name = s[j].name => i = j

ASSUME DocumentAssumption ==
  \A d \in Document :
    /\ d \in [proxies : Seq(Item), groups : Seq(GroupItem), rules : Seq(Seq(Text \ {Blank})),
              providers : Seq([name : Text, items : Seq(Item)]), rulesets : Seq(RuleSet),
              wellFormed : BOOLEAN]
    /\ Aligned(d.proxies) /\ Unique(d.providers) /\ Unique(d.rulesets)

\* The strings hold those that the readers write themselves.  The empty string
\* is no target.
ASSUME TextAssumption ==
  /\ NoName = Blank /\ BuiltIn \subseteq Text \ {NoName}
  /\ {Blank, "MATCH", "select", "DOMAIN", "DOMAIN-SUFFIX", "DOMAIN-KEYWORD", "IP-CIDR", "IP-CIDR6"} \subseteq Text

-----------------------------------------------------------------------------
(* What YAML makes of them *)

NodeOf(item) == NodeFromYaml(Entries(item))

NodesOf(items) == WithName([i \in DOMAIN items |-> NodeOf(items[i])])

\* The elements of a list of the item itself.
Listed(entries, key) ==
  FlattenSeq([i \in DOMAIN entries |->
                IF entries[i].sec = Blank /\ entries[i].key = key THEN <<entries[i].val>> ELSE <<>>])

NamesIn(nodes) == [i \in DOMAIN nodes |-> nodes[i].name]

\* Mutant of AddAll: the names are appended as they are.
AddAllTwice(names, more) == names \o more

\* The names with those of more that are not among them yet.
AddAll(names, more) ==
  LET added[n \in 0 .. Len(more)] ==
        IF n = 0 THEN names
        ELSE LET before == added[n - 1]
             IN IF more[n] \in ToSet(before) THEN before ELSE Append(before, more[n])
  IN added[Len(more)]

\* The members that are listed, then those of the providers.  A provider that
\* is not known is taken for a member if there is no other so far.
AllMembers(listed, uses, known) ==
  LET all[n \in 0 .. Len(uses)] ==
        IF n = 0 THEN listed
        ELSE LET before == all[n - 1]
             IN IF uses[n] \in DOMAIN known THEN AddAll(before, known[uses[n]])
                ELSE IF before = <<>> THEN <<uses[n]>> ELSE before
  IN all[Len(uses)]

\* group_from_yaml
GroupFromYaml(entries, known) ==
  LET all == AllMembers(Listed(entries, "proxies"), Listed(entries, "use"), known)
      now == Written(entries, "now")
      type == Written(entries, "type")
  IN [name |-> Written(entries, "name"), type |-> IF type = Blank THEN "select" ELSE type,
      now |-> IF now = Blank /\ all # <<>> THEN Head(all) ELSE now, all |-> all]

\* parse_clash_config_yaml
Yaml(d) ==
  LET nodes(i) == NodesOf(d.providers[i].items)
      filled == {i \in DOMAIN d.providers : nodes(i) # <<>>}
      known == [n \in {d.providers[i].name : i \in filled} |->
                  NamesIn(nodes(CHOOSE i \in filled : d.providers[i].name = n))]
  IN Sanitize([proxies |-> NodesOf(d.proxies)
                             \o FlattenSeq([i \in DOMAIN d.providers |-> nodes(i)]),
               groups  |-> WithName([i \in DOMAIN d.groups |->
                                       GroupFromYaml(Entries(d.groups[i]), known)]),
               rules   |-> RulesFromYaml(d)])
-----------------------------------------------------------------------------
(* The text as lines *)

Line(kind, indent, key, val, entries) ==
  [kind |-> kind, indent |-> indent, key |-> key, val |-> val, entries |-> entries]

Top(key) == Line("top", 0, key, Blank, <<>>)

\* The lines of a document, but those of its rule sets.
TextLines(d) ==
  <<Top("proxies")>> \o FlattenSeq(d.proxies)
    \o <<Top("proxy-providers")>>
    \o FlattenSeq([i \in DOMAIN d.providers |-> FlattenSeq(d.providers[i].items)])
    \o <<Top("proxy-groups")>> \o FlattenSeq(d.groups)
    \o <<Top("rules")>>
    \o [i \in DOMAIN d.rules |-> Line("rule", 1, Blank, d.rules[i], <<>>)]

-----------------------------------------------------------------------------
(* The line reader *)

Current == Head(todo)

Reading(kinds, where) ==
  /\ reader = "lines" /\ todo # <<>>
  /\ Current.kind \in kinds /\ section = where
  /\ todo' = Tail(todo)
  /\ UNCHANGED <<doc, reader>>

\* A section begins: what is open is closed.  (Items on the same line, as in
\* proxies: [{...}], are left out.)
ReadTop ==
  /\ Reading({"top"}, section)
  /\ out' = [out EXCEPT !.proxies = @ \o WithName(node), !.groups = @ \o WithName(group)]
  /\ node' = <<>> /\ group' = <<>> /\ members' = FALSE /\ nested' = Blank
  /\ section' = IF Current.key \in {"proxies", "proxy-groups", "rules"} THEN Current.key ELSE Blank
  /\ UNCHANGED depth

\* A flow item is read at once.  A block item that is still open is dropped.
ReadFlowNode ==
  /\ Reading({"flow"}, "proxies")
  /\ out' = [out EXCEPT !.proxies = @ \o WithName(<<NodeFromFlow(Current.entries)>>)]
  /\ node' = <<>> /\ nested' = Blank
  /\ UNCHANGED <<section, group, members, depth>>

\* Mutant of ReadNewNode: the item before is lost when the name of the new one
\* is on its line.
ReadNewNodeLost ==
  /\ Reading({"dash", "name"}, "proxies")
  /\ out' = [out EXCEPT !.proxies = @ \o (IF Current.kind = "dash" THEN WithName(node) ELSE <<>>)]
  /\ node' = <<[EmptyNode EXCEPT !.name = IF Current.kind = "name" THEN Current.val ELSE Blank]>>
  /\ nested' = Blank
  /\ UNCHANGED <<section, group, members, depth>>

\* A block item begins, and the one before it is complete.
ReadNewNode ==
  /\ Reading({"dash", "name"}, "proxies")
  /\ out' = [out EXCEPT !.proxies = @ \o WithName(node)]
  /\ node' = <<[EmptyNode EXCEPT !.name = IF Current.kind = "name" THEN Current.val ELSE Blank]>>
  /\ nested' = Blank
  /\ UNCHANGED <<section, group, members, depth>>

\* Mutant of NestedAt: the line below a section is still in it.
NestedAtStays(line) == IF line.indent < depth THEN Blank ELSE nested

\* The section that a line of a block item is in: a line that is not indented
\* deeper than its header has left it.
NestedAt(line) == IF line.indent <= depth THEN Blank ELSE nested

Headers == {"plugin-opts", "ws-opts", "h2-opts", "http2-opts", "grpc-opts", "headers",
            "reality-opts", "tls-opts"}

\* A header opens a section; headers are read below ws-opts only.
ReadNodeHeader ==
  /\ Reading({"open"}, "proxies") /\ node # <<>> /\ Current.key \in Headers
  /\ IF Current.key = "headers" /\ NestedAt(Current) # "ws-opts"
     THEN nested' = NestedAt(Current) /\ UNCHANGED depth
     ELSE /\ nested' = IF Current.key = "headers" THEN "ws-headers" ELSE Current.key
          /\ depth' = Current.indent
  /\ UNCHANGED <<section, node, group, members, out>>

\* Any other key of a block item, with an empty value if it opens a block that
\* the reader does not know.  The elements of a list say nothing to it.  A dash
\* before a key is part of the key: the item that begins there is not seen, and
\* what follows goes to the one before it.
ReadNodeKey ==
  /\ Reading({"key", "open", "item", "first"}, "proxies") /\ node # <<>>
  /\ Current.kind = "open" => Current.key \notin Headers
  /\ nested' = NestedAt(Current)
  /\ node' = IF Current.kind = "item" THEN node
             ELSE IF Current.kind = "first" THEN <<AssignField(node[1], Unread, Current.val)>>
             ELSE IF nested' = Blank THEN <<AssignPlain(node[1], Current.key, Current.val)>>
             ELSE <<AssignNested(node[1], nested', Current.key, Current.val)>>
  /\ UNCHANGED <<section, group, members, depth, out>>

\* Lines that no section has a use for.
ReadStray ==
  /\ Reading({"flow", "dash", "name", "first", "key", "open", "item", "rule"}, section)
  /\ CASE section = "proxies"      -> Current.kind \in {"first", "key", "open", "item"} /\ node = <<>>
       [] section = "proxy-groups" -> Current.kind \in {"first", "key", "open", "item"} /\ group = <<>>
       [] section = "rules"        -> Current.kind # "rule"
       [] OTHER                    -> TRUE
  /\ UNCHANGED <<section, node, group, members, nested, depth, out>>

FlowGroup(entries) ==
  LET all == IF Listed(entries, "proxies") # <<>> THEN Listed(entries, "proxies")
             ELSE Listed(entries, "use")
  IN [name |-> FlowValue(entries, "name"), type |-> FlowValue(entries, "type"),
      now |-> IF all = <<>> THEN Blank ELSE Head(all), all |-> all]

BlockGroup(name) == [name |-> name, type |-> "select", now |-> Blank, all |-> <<>>]

\* A group begins, and the one before it is complete.
ReadNewGroup ==
  /\ Reading({"flow", "dash", "name"}, "proxy-groups")
  /\ out' = [out EXCEPT !.groups = @ \o WithName(group)]
  /\ group' = IF Current.kind = "flow" THEN WithName(<<FlowGroup(Current.entries)>>)
              ELSE <<BlockGroup(IF Current.kind = "name" THEN Current.val ELSE Blank)>>
  /\ members' = FALSE
  /\ UNCHANGED <<section, node, nested, depth>>

\* A line of a block group.  The first line of a group that does not begin with
\* its name is one, too, and a member if members are being read.
ReadGroupLine ==
  /\ Reading({"key", "open", "item", "first"}, "proxy-groups") /\ group # <<>>
  /\ LET g    == group[1]
         lists == Current.kind = "open" /\ Current.key \in {"proxies", "use"}
         named == Current.kind = "key" /\ Current.key \in {"name", "type"}
     IN /\ group' = IF named /\ Current.key = "name" THEN <<[g EXCEPT !.name = Current.val]>>
                    ELSE IF named THEN <<[g EXCEPT !.type = Current.val]>>
                    ELSE IF Current.kind \in {"item", "first"} /\ members
                    THEN <<[g EXCEPT !.all = Append(@, Current.val),
                                     !.now = IF @ = Blank THEN Current.val ELSE @]>>
                    ELSE group
        /\ members' = (lists \/ members)
  /\ UNCHANGED <<section, node, nested, depth, out>>

ReadRule ==
  /\ Reading({"rule"}, "rules")
  /\ out' = [out EXCEPT !.rules = @ \o ParseRule(Current.val)]
  /\ UNCHANGED <<section, node, group, members, nested, depth>>

-----------------------------------------------------------------------------
(* Both readers *)

\* The YAML reader gives a result at once, if there is anything in it.
ReadYaml ==
  /\ reader = "none" /\ doc.wellFormed /\ Yaml(doc) # NothingRead
  /\ out' = Yaml(doc)
  /\ reader' = "yaml" /\ todo' = <<>>
  /\ UNCHANGED <<doc, section, node, group, members, nested, depth>>

\* Otherwise the lines are read from the first one.
ReadLines ==
  /\ reader = "none" /\ (doc.wellFormed => Yaml(doc) = NothingRead)
  /\ reader' = "lines"
  /\ UNCHANGED <<doc, todo, section, node, group, members, nested, depth, out>>

\* The end of the text closes what is open, and the result is cleaned.
ReadEnd ==
  /\ reader = "lines" /\ todo = <<>>
  /\ out' = Sanitize([out EXCEPT !.proxies = @ \o WithName(node), !.groups = @ \o WithName(group)])
  /\ node' = <<>> /\ group' = <<>>
  /\ reader' = "done"
  /\ UNCHANGED <<doc, todo, section, members, nested, depth>>

Init ==
  /\ doc \in Document
  /\ todo = TextLines(doc)
  /\ section = Blank /\ nested = Blank /\ depth = 0 /\ members = FALSE
  /\ node = <<>> /\ group = <<>>
  /\ out = NothingRead
  /\ reader = "none"

Next ==
  \/ ReadYaml \/ ReadLines
  \/ ReadTop \/ ReadFlowNode \/ ReadNewNode \/ ReadNodeHeader \/ ReadNodeKey
  \/ ReadNewGroup \/ ReadGroupLine \/ ReadRule \/ ReadStray
  \/ ReadEnd

Spec == Init /\ [][Next]_vars
-----------------------------------------------------------------------------
Finished == reader \in {"yaml", "done"}

-----------------------------------------------------------------------------
(* What a document says, whoever reads it *)

ItemNames(items) == [i \in DOMAIN items |-> Written(Entries(items[i]), "name")]

Providers(d) == FlattenSeq([i \in DOMAIN d.providers |-> d.providers[i].items])

\* Items that begin with another key than their name where the line reader has
\* no item open that it could take them for; those in opens stay open.
Unseen(items, opens) ==
  {i \in DOMAIN items : Headless(items[i])
     /\ ~ \E j \in opens : j < i /\ ~ Headless(items[j]) /\ \A k \in j + 1 .. i : Headless(items[k])}

\* Block items that the line reader drops: a flow item follows, or one that
\* begins with another key than its name, which takes their place.
Overtaken(items) ==
  {i \in DOMAIN items : /\ ~ IsFlow(items[i]) /\ i + 1 \in DOMAIN items
                       /\ items[i + 1][1].kind \in {"flow", "first"}}

\* Nodes that the line reader does not hand over.
LostNodes(items) ==
  Overtaken(items) \cup Unseen(items, {i \in DOMAIN items : ~ IsFlow(items[i])})

\* The items that the reader in use hands over.
Kept ==
  IF reader = "yaml" THEN doc.proxies \o Providers(doc)
  ELSE FlattenSeq([i \in DOMAIN doc.proxies |->
                     IF i \in LostNodes(doc.proxies) THEN <<>> ELSE <<doc.proxies[i]>>])

\* Every node of the document arrives, in order: those of the providers last
\* and only through YAML, notes of the subscription left out, and of the lines
\* all but the block items that a flow item or one without a name on its first
\* line follows, and those of the latter kind that follow no block item.
NodesArrive ==
  Finished =>
    NamesIn(out.proxies)
      = Only(ItemNames(Kept), {n \in ToSet(ItemNames(Kept)) : n \notin Metadata \cup {Blank}})

ChainsOf(name, tlsClient) ==
  {Chain(out.proxies[i], tlsClient) : i \in {j \in DOMAIN out.proxies : out.proxies[j].name = name}}

\* Forms of an item that the line reader does not understand as YAML does:
\* another key than the name on its first line, options of a plugin before the
\* plugin is named, multiplexing in a section, and lists; in flow items udp and
\* the options of h2, gRPC, multiplexing and plugins.
Misread(item) ==
  LET es == Entries(item)
      at(key) == SelectInSeq(es, LAMBDA e : e.sec = Blank /\ e.key = key)
      early == {i \in DOMAIN es : es[i].sec = "plugin-opts" /\ i < at("plugin")}
      blockly == {i \in DOMAIN es : es[i].sec \in Muxes}
                   \cup {i \in DOMAIN es : \E j \in DOMAIN item : item[j].kind = "item"}
      flowly == {i \in DOMAIN es : es[i].sec \in {"h2-opts", "http2-opts", "grpc-opts"} \cup Muxes
                                       \cup {"plugin-opts"}}
                  \cup {i \in DOMAIN es : es[i].sec = Blank /\ es[i].key = "udp"}
  IN Headless(item) \/ (IF IsFlow(item) THEN flowly ELSE early \cup blockly) # {}

\* The lines give the same client chains as YAML would have given, unless an
\* item has one of these forms, whatever the order of the keys behind its first
\* line.
ReadersAgree ==
  reader = "done" =>
    \A i \in DOMAIN Kept : \A tlsClient \in {"chrome", "rustls"} :
      ~ Misread(Kept[i]) =>
        ChainsOf(ItemNames(Kept)[i], tlsClient) \subseteq {Chain(NodeOf(Kept[i]), tlsClient)}

\* Whether an item asks for an encrypted connection: with tls or security, by
\* its type, or with the option of its plugin.
Secured(es) ==
  /\ \/ \E i \in DOMAIN es : es[i].sec \in {Blank, "plugin-opts"} /\ es[i].key = "tls" /\ Truthy(es[i].val)
     \/ Written(es, "security") \in {"tls", "reality"}
     \/ Protocol(Written(es, "type")) \in {"trojan", "anytls", "naiveproxy"}
  /\ ~ Falsy(Written(es, "tls"))

\* No node that asks for an encrypted connection is given a chain without one,
\* whichever reader read it and however its keys were ordered, unless the line
\* reader found another key than the name on its first line.
NoDowngrade ==
  Finished =>
    \A i \in DOMAIN Kept : Secured(Entries(Kept[i])) /\ (reader = "yaml" \/ ~ Headless(Kept[i])) =>
      \A chain \in ChainsOf(ItemNames(Kept)[i], "chrome") \ {NoChain} :
        \E k \in DOMAIN chain : chain[k].kind \in {"tls", "reality"}

\* The settings of an item that its chain has a use for.
Wanted(es, e) ==
  LET protocol == Protocol(Written(es, "type"))
      network == Written(es, "network")
      plugin  == Written(es, "plugin")
      secured == Secured(es) \/ protocol \in {"hysteria2", "tuic"}
  IN CASE e.sec = Blank -> \/ e.key \in {"server", "port"} \/ PlainName(e.key) \in Takes(protocol)
                           \/ e.key \in {"sni", "servername", "alpn"} /\ secured
                                /\ (e.key = "alpn" => Written(es, "security") # "reality")
       [] e.sec \in {"ws-opts", "ws-headers"} -> network \in WsNetworks
       [] e.sec \in {"h2-opts", "http2-opts"} -> network \in H2Networks
       [] e.sec = "grpc-opts"    -> network = "grpc"
       [] e.sec = "reality-opts" -> Written(es, "security") = "reality"
       [] e.sec = "tls-opts"     -> TlsName(e.key) = "sni" /\ secured
       [] e.sec \in Muxes        -> /\ protocol \in {"vmess", "vless", "trojan"}
                                    /\ MuxName(e.key) \notin {Unread, "h2mux-enabled"}
       [] e.sec = "plugin-opts"  -> \/ plugin \in ShadowTlsNames /\ e.key \in {"password", "host"}
                                    \/ plugin \in V2rayNames /\ e.key \in {"path", "host"}
                                         /\ network \notin WsNetworks
       [] OTHER                  -> FALSE

Settings(chain) ==
  UNION {{chain[k].set[s] : s \in DOMAIN chain[k].set} : k \in DOMAIN chain}

\* Through YAML every setting that the document gives a node reaches its chain,
\* unless the adapter refuses the node.
SettingsArrive ==
  reader = "yaml" =>
    \A i \in DOMAIN Kept :
      LET es == Entries(Kept[i])
      IN \A chain \in ChainsOf(ItemNames(Kept)[i], "chrome") \ {NoChain} :
           \A k \in DOMAIN es : Wanted(es, es[k]) => es[k].val \in Settings(chain)

\* Groups that the line reader does not hand over under their names: those that
\* one follows that begins with another key than its name, and such groups where
\* none is open.
LostGroups(items) ==
  {i \in DOMAIN items : i + 1 \in DOMAIN items /\ Headless(items[i + 1])}
    \cup Unseen(items, {i \in DOMAIN items : IsFlow(items[i]) => ItemNames(items)[i] # Blank})

\* The groups that the reader in use hands over.
GroupsKept ==
  IF reader = "yaml" THEN DOMAIN doc.groups ELSE DOMAIN doc.groups \ LostGroups(doc.groups)

Known ==
  BuiltIn \cup NamesOf(out.proxies)
    \cup ({ItemNames(doc.groups)[i] : i \in GroupsKept} \ {Blank})

\* The nodes that the providers named by a group bring.
Provided(es) ==
  IF reader # "yaml" THEN {}
  ELSE UNION {ToSet(ItemNames(doc.providers[i].items)) :
                i \in {j \in DOMAIN doc.providers : doc.providers[j].name \in ToSet(Listed(es, "use"))}}

\* A group keeps the members it lists, in order, that the configuration knows,
\* and gets each node of its providers once, unless a provider is called like
\* something that is known.  The line reader does not see lists that are written
\* behind the key of a block item, and a group that begins with another key than
\* its name takes the place of the one before it and that one's members.
MembersArrive ==
  Finished =>
    \A i \in GroupsKept :
      LET es     == Entries(doc.groups[i])
          listed == Only(Listed(es, "proxies"), Known)
          extra  == (Provided(es) \cap Known) \ ToSet(listed)
          inline == \E l \in ToSet(doc.groups[i]) : l.kind = "key" /\ l.key = "proxies"
      IN /\ Written(es, "name") # Blank /\ (listed # <<>> \/ extra # {})
         /\ ToSet(Listed(es, "use")) \cap Known = {}
         /\ reader = "yaml" \/ (~ inline /\ ~ Headless(doc.groups[i]))
         =>
           \E g \in ToSet(out.groups) :
             /\ g.name = Written(es, "name")
             /\ IsPrefix(listed, g.all)
             /\ ToSet(g.all) = ToSet(listed) \cup extra
             /\ Len(g.all) = Len(listed) + Cardinality(extra)

-----------------------------------------------------------------------------
(* What the backend makes of it *)

\* The kind of a rule for GroupRouting.  A GEOIP rule is a list of masks or a
\* country, or nothing; a GEOSITE rule is what its category holds.
Kind(type, payload) ==
  CASE type \in {"DOMAIN", "DOMAIN-SUFFIX", "IP-CIDR", "IP-CIDR6"} -> "MASK"
    [] type = "DOMAIN-KEYWORD" -> "KEYWORD"
    [] type \in {"MATCH", "DST-PORT"} -> type
    [] type = "GEOIP" /\ payload \in Lan -> "MASK"
    [] type = "GEOIP" /\ payload \in Country \ Lan -> "COUNTRY"
    [] type = "GEOSITE" /\ payload \in Keyworded -> "KEYWORD"
    [] type = "GEOSITE" /\ payload \in Masked \ Keyworded -> "MASK"
    [] type = "GEOSITE" /\ payload \notin Keyworded \cup Masked -> "GEOSITE-REGEX"
    [] OTHER -> "RULE-SET"

\* The configuration that GroupRouting plans with.
Planned ==
  [proxies |-> [i \in DOMAIN out.proxies |->
                  LET p == out.proxies[i]
                  IN [name |-> p.name, chain |-> IF Chain(p, "chrome") = NoChain THEN Failed ELSE p.name]],
   groups  |-> out.groups,
   rules   |-> [i \in DOMAIN out.rules |->
                  LET r == out.rules[i]
                  IN [kind |-> Kind(r.type, r.payload), target |-> r.target,
                      hits |-> IF r.type = "MATCH" THEN Dest ELSE {r.payload} \cap Dest]]]

\* What a line of the document says about a destination: a rule set covers
\* what one of its entries names.
Names1(entry, behavior, dest) ==
  LET parts == entry.parts
      values == behavior \in {"domain", "ipcidr", "ip-cidr"}
  IN /\ entry.mark # "#"
     /\ \/ Len(parts) = 1 /\ values /\ parts[1] = dest
        \/ /\ Len(parts) > 1 /\ parts[1] \in ExpandedTypes
           /\ Kind(parts[1], parts[2]) \notin Silent /\ parts[2] = dest
        \/ Len(parts) > 1 /\ ~ values /\ parts[1] = "MATCH"

Covers(parts, dest) ==
  \/ Len(parts) > 1 /\ parts[1] = "MATCH"
  \/ Len(parts) > 2 /\ Kind(parts[1], parts[2]) \notin Silent /\ parts[2] = dest
  \/ /\ Len(parts) > 2 /\ parts[1] = "RULE-SET" /\ reader = "yaml"
     /\ \E s \in ToSet(doc.rulesets) :
          s.name = parts[2] /\ \E e \in ToSet(s.payload) : Names1(e, s.behavior, dest)

\* Where a line sends what it covers; what comes behind is an option of it.
TargetOf(parts) == IF parts[1] = "MATCH" THEN parts[2] ELSE parts[3]

\* The running backend sends a destination where the first line of the document
\* that covers it says, rule sets of the document included.
FirstLineDecides ==
  Finished =>
    LET plan == Plan(Planned, "rule")
    IN \A dest \in Dest :
         LET i == SelectInSeq(doc.rules, LAMBDA parts : Covers(parts, dest))
         IN plan # NoPlan /\ i # 0 =>
              Judge(plan, dest) = Resolve(TargetOf(doc.rules[i]), Planned.groups, Planned.proxies)
=============================================================================
