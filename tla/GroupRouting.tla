---------------------------- MODULE GroupRouting ----------------------------
(***************************************************************************)
(* What the native core makes of a Clash configuration (lib.rs): the       *)
(* cleaning of the parsed document, the selection of the proxy groups, and *)
(* the rule list of the generated shoes TUN configuration, as pure         *)
(* operators.                                                              *)
(*                                                                         *)
(* A configuration is a record [proxies, groups, rules]:                   *)
(*   proxies  sequence of [name, chain], chain being what                  *)
(*            build_shoes_client_chain makes of the node: the node itself, *)
(*            Direct for a node of type direct, Failed for an adapter      *)
(*            error (unsupported protocol, missing server or port)         *)
(*   groups   sequence of [name, type, now, all]                           *)
(*   rules    sequence of [kind, hits, target], hits being the             *)
(*            destinations that the payload stands for                     *)
(* A plan is the generated rule list: a sequence of [hits, out].           *)
(***************************************************************************)
EXTENDS Integers, SequencesExt

CONSTANTS
  Text,        \* the strings that occur in documents
  Direct,      \* the target DIRECT
  Reject,      \* the targets REJECT and REJECT-DROP
  Failed,      \* an adapter error
  NoName,      \* the empty string
  NoPlan,      \* the build ended in an error
  Metadata,    \* names that is_metadata_proxy_name recognises
  Preferred,   \* group names that selected_group prefers
  Dest         \* the destinations of the traffic

BuiltIn == {Direct, Reject}

NamesOf(s) == {s[i].name : i \in DOMAIN s}

\* The record of s with that name, the first one if there are several.
Named(s, name) == s[SelectInSeq(s, LAMBDA r : r.name = name)]

\* The elements of s that are in set, in their order (filter, retain).
Only(s, set) ==
  LET only[n \in 0 .. Len(s)] ==
        IF n = 0 THEN <<>>
        ELSE IF s[n] \in set THEN Append(only[n - 1], s[n]) ELSE only[n - 1]
  IN only[Len(s)]

-----------------------------------------------------------------------------
(* Cleaning the parsed document *)

\* A group keeps the members that are known, and a selection among them.
Cleaned(g, known) ==
  LET all == Only(g.all, known)
  IN [g EXCEPT !.all = all,
               !.now = IF g.now \in ToSet(all) \ Metadata THEN g.now
                       ELSE IF all = <<>> THEN NoName ELSE Head(all)]

\* Subscription notes that pose as nodes are dropped, then the members of the
\* groups that name nothing, then the groups left without members.  A group
\* that is dropped last may still be a member of another one.
Sanitize(doc) ==
  LET proxies == Only(doc.proxies, {p \in ToSet(doc.proxies) : p.name \notin Metadata})
      known   == BuiltIn \cup NamesOf(proxies) \cup NamesOf(doc.groups)
      groups  == [i \in DOMAIN doc.groups |-> Cleaned(doc.groups[i], known)]
  IN [doc EXCEPT !.proxies = proxies,
                 !.groups = Only(groups, {g \in ToSet(groups) : g.name # NoName /\ g.all # <<>>})]

-----------------------------------------------------------------------------
(* Selections *)

\* The member a group stands for.
Selected(g) ==
  IF g.now # NoName THEN g.now
  ELSE IF g.all # <<>> THEN Head(g.all) ELSE NoName

\* The index of the group that stands for the whole configuration, 0 for none.
SelectedGroup(groups) ==
  LET preferred == SelectInSeq(groups, LAMBDA g : g.name \in Preferred)
  IN IF preferred # 0 THEN preferred
     ELSE SelectInSeq(groups, LAMBDA g : Selected(g) # NoName)

\* selected_proxy: what the selected group stands for, if that is a node.  (A
\* group of a cleaned document always has a selection, so selected_proxy and
\* selected_group look at the same group.)
SelectedProxy(groups, proxies) ==
  LET i == SelectedGroup(groups)
      p == IF i = 0 THEN 0
           ELSE SelectInSeq(proxies, LAMBDA r : r.name = Selected(groups[i]))
  IN IF p = 0 THEN Failed ELSE proxies[p].chain

\* Mutant of BestMember: a failed probe counts as a delay.
BestMemberAnyDelay(g, delay) ==
  LET measured == {i \in DOMAIN g.all : g.all[i] \in DOMAIN delay}
      better(i, j) == \/ delay[g.all[i]] < delay[g.all[j]]
                      \/ delay[g.all[i]] = delay[g.all[j]] /\ i <= j
  IN IF measured = {} THEN NoName
     ELSE CASE g.type = "url-test" ->
                 g.all[CHOOSE i \in measured : \A j \in measured : better(i, j)]
            [] g.type = "fallback" ->
                 g.all[CHOOSE i \in measured : \A j \in measured : i <= j]
            [] OTHER -> NoName

\* The member a url-test or fallback group moves to, given the delays measured
\* so far: the fastest one, or the first one that answered.  Delays that are
\* not positive are error codes.
BestMember(g, delay) ==
  LET alive == {i \in DOMAIN g.all : g.all[i] \in DOMAIN delay /\ delay[g.all[i]] > 0}
      better(i, j) == \/ delay[g.all[i]] < delay[g.all[j]]
                      \/ delay[g.all[i]] = delay[g.all[j]] /\ i <= j
  IN IF alive = {} THEN NoName
     ELSE CASE g.type = "url-test" ->
                 g.all[CHOOSE i \in alive : \A j \in alive : better(i, j)]
            [] g.type = "fallback" ->
                 g.all[CHOOSE i \in alive : \A j \in alive : i <= j]
            [] OTHER -> NoName

\* update_auto_group_selection
AutoSelected(groups, delay) ==
  [i \in DOMAIN groups |->
     LET best == BestMember(groups[i], delay)
     IN IF best = NoName THEN groups[i] ELSE [groups[i] EXCEPT !.now = best]]

-----------------------------------------------------------------------------
(* From a rule target to an outbound *)

\* Mutant of MaxDepth: the limit forgets the group the rule names.
MaxDepthShort(groups) == Len(groups) - 1

MaxDepth(groups) == Len(groups) + 1

\* build_rule_client_chain: a proxy hides a group of the same name, a group
\* stands for its selection, and a target that names nothing falls back to the
\* selected proxy, but only when a rule names it directly.
Resolve(target, groups, proxies) ==
  LET limit == MaxDepth(groups)
      targets == BuiltIn \cup NamesOf(groups) \cup NamesOf(proxies) \cup {target, NoName}
                   \cup UNION {ToSet(groups[i].all) : i \in DOMAIN groups}
      chain[depth \in 0 .. limit + 1] ==
        [t \in targets |->
           IF depth > limit THEN Failed
           ELSE IF t \in BuiltIn THEN t
           ELSE IF t \in NamesOf(proxies) THEN Named(proxies, t).chain
           ELSE IF t \in NamesOf(groups) THEN chain[depth + 1][Selected(Named(groups, t))]
           ELSE IF depth = 0 THEN SelectedProxy(groups, proxies)
           ELSE Failed]
  IN chain[0][target]

-----------------------------------------------------------------------------
(* Rules *)

RuleKinds == {"MATCH", "MASK", "DST-PORT", "KEYWORD", "COUNTRY", "GEOSITE-REGEX", "RULE-SET"}

\* Kinds that put nothing into the plan: a kind the matcher does not know, and
\* a GEOSITE category that holds regular expressions only.
Silent == {"RULE-SET", "GEOSITE-REGEX"}

\* Kinds whose generated entry carries the text 0.0.0.0/0: MATCH by its mask,
\* DST-PORT by the mask with a port, and the keyword and country conditions
\* by the mask that accompanies them.
Wide == {"MATCH", "DST-PORT", "KEYWORD", "COUNTRY"}

\* effective_rules: the rules of the document, or one MATCH of the mode.
EffectiveRules(mode, groups, rules) ==
  LET i == SelectedGroup(groups)
      match(target) == <<[kind |-> "MATCH", hits |-> Dest, target |-> target]>>
  IN CASE mode = "rule" -> rules
       [] mode = "global" ->
            match(IF i # 0 THEN groups[i].name
                  ELSE IF groups # <<>> THEN Head(groups).name ELSE Direct)
       [] mode = "direct" -> match(Direct)

\* The rule that build_default_rule adds.
DefaultRule(groups, proxies) ==
  LET i == SelectedGroup(groups)
  IN [kind |-> "MATCH", hits |-> Dest,
      target |-> IF i # 0 THEN Selected(groups[i])
                 ELSE IF proxies # <<>> THEN Head(proxies).name ELSE NoName]

\* Mutant of WithDefault: the default rule comes first.
WithDefaultFirst(emitted, groups, proxies) ==
  IF \E i \in DOMAIN emitted : emitted[i].kind \in Wide THEN emitted
  ELSE <<DefaultRule(groups, proxies)>> \o emitted

\* A default rule is added unless the text generated so far contains 0.0.0.0/0.
WithDefault(emitted, groups, proxies) ==
  IF \E i \in DOMAIN emitted : emitted[i].kind \in Wide THEN emitted
  ELSE Append(emitted, DefaultRule(groups, proxies))

\* build_shoes_rules: every rule that is not silent, its target resolved; one
\* target that does not resolve spoils the plan.
Plan(config, mode) ==
  LET rules   == EffectiveRules(mode, config.groups, config.rules)
      emitted == Only(rules, {r \in ToSet(rules) : r.kind \notin Silent})
      entries == WithDefault(emitted, config.groups, config.proxies)
      plan    == [i \in DOMAIN entries |->
                    [hits |-> entries[i].hits,
                     out  |-> Resolve(entries[i].target, config.groups, config.proxies)]]
  IN IF \E i \in DOMAIN plan : plan[i].out = Failed THEN NoPlan ELSE plan

\* What the running backend does with a connection: the first entry decides,
\* and no entry means block (ClientProxySelector::judge).
Judge(plan, dest) ==
  LET i == SelectInSeq(plan, LAMBDA e : dest \in e.hits)
  IN IF i = 0 THEN Reject ELSE plan[i].out
=============================================================================
