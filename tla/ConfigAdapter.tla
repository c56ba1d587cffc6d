---------------------------- MODULE ConfigAdapter ----------------------------
(***************************************************************************)
(* The configuration that the native core keeps (the proxies, groups,      *)
(* rules, connection_mode and delay_by_proxy of CoreState in lib.rs) and   *)
(* what the calls of the C ABI do to it.  What those calls do to the       *)
(* backend is in NativeCore, which conjoins these actions with its own.    *)
(***************************************************************************)
EXTENDS GroupRouting

CONSTANTS
  Doc,     \* the parsed documents: [proxies, groups, rules, mode]
  Delay    \* results of a probe: positive delays, negative error codes

VARIABLES
  config,  \* [proxies, groups, rules]
  mode,    \* connection_mode
  delay    \* delay_by_proxy

configVars == <<config, mode, delay>>

Mode == {"rule", "global", "direct"}

\* What the parsers deliver: they keep no node and no group without a name.
Documents ==
  [proxies : Seq([name : Text \ {NoName}, chain : Text \cup {Failed}]),
   groups  : Seq([name : Text \ {NoName}, type : STRING, now : Text, all : Seq(Text)]),
   rules   : Seq([kind : RuleKinds, hits : SUBSET Dest, target : Text]),
   mode    : Mode]

\* The built-in targets are no subscription notes.
ASSUME DocAssumption ==
  /\ Doc \subseteq Documents
  /\ Delay \subseteq Int
  /\ NoName \in Text /\ BuiltIn \subseteq Text \ {NoName}
  /\ BuiltIn \cap Metadata = {}

NothingMeasured == [n \in {} |-> 0]

Measured(d, n, r) == [m \in DOMAIN d \cup {n} |-> IF m = n THEN r ELSE d[m]]

-----------------------------------------------------------------------------
\* A document replaces everything, the measured delays included.
Parse(doc) ==
  LET clean == Sanitize(doc)
  IN /\ config' = [proxies |-> clean.proxies, groups |-> clean.groups, rules |-> clean.rules]
     /\ mode' = doc.mode
     /\ delay' = NothingMeasured

\* The first group of that name, 0 for none.
GroupIndex(name) == SelectInSeq(config.groups, LAMBDA g : g.name = name)

\* Mutant of Selectable: any name is taken for a member.
SelectableAny(name, member) == GroupIndex(name) # 0

Selectable(name, member) ==
  /\ GroupIndex(name) # 0
  /\ member \in ToSet(config.groups[GroupIndex(name)].all)

\* select_proxy, for a group and a member of it.
Select(name, member) ==
  /\ Selectable(name, member)
  /\ config' = [config EXCEPT !.groups[GroupIndex(name)].now = member]
  /\ UNCHANGED <<mode, delay>>

\* set_mode
ChangeMode(m) ==
  /\ mode' = m
  /\ UNCHANGED <<config, delay>>

\* test_delay: the result is kept, error codes too, and the url-test and
\* fallback groups move.
Probe(name, result) ==
  /\ name \in NamesOf(config.proxies)
  /\ delay' = Measured(delay, name, result)
  /\ config' = [config EXCEPT !.groups = AutoSelected(config.groups, delay')]
  /\ UNCHANGED mode

-----------------------------------------------------------------------------
Empty == [proxies |-> <<>>, groups |-> <<>>, rules |-> <<>>]

ConfigInit ==
  /\ config = Empty
  /\ mode = "rule"
  /\ delay = NothingMeasured

Names == UNION {NamesOf(doc.proxies) \cup NamesOf(doc.groups)
                  \cup {doc.rules[i].target : i \in DOMAIN doc.rules} : doc \in Doc}

Targets == BuiltIn \cup Names

\* What happens to a document once it is parsed.
Edit ==
  \/ \E g \in Names, m \in Targets : Select(g, m)
  \/ \E m \in Mode : ChangeMode(m)
  \/ \E n \in Names, r \in Delay : Probe(n, r)

ConfigNext == (\E doc \in Doc : Parse(doc)) \/ Edit

ConfigSpec == ConfigInit /\ [][ConfigNext]_configVars
-----------------------------------------------------------------------------
GroupNames == UNION {NamesOf(doc.groups) : doc \in Doc}

\* Every group stands for one of its own members, whatever the document, the
\* user and the probes selected, and no subscription note is left to select,
\* unless a group is called like one.
SelectionsAreMembers ==
  \A i \in DOMAIN config.groups :
    LET g == config.groups[i]
    IN g.now \in ToSet(g.all) /\ ToSet(g.all) \cap Metadata \subseteq GroupNames

-----------------------------------------------------------------------------
(* A reference: groups as edges to their selections *)

IsGroup(t) == t \in NamesOf(config.groups) \ (BuiltIn \cup NamesOf(config.proxies))

Next1(t) == Selected(Named(config.groups, t))

\* Everything the selections lead to from t.
Reached(t) ==
  LET reach[n \in 0 .. Len(config.groups)] ==
        IF n = 0 THEN {t}
        ELSE reach[n - 1] \cup {Next1(u) : u \in {v \in reach[n - 1] : IsGroup(v)}}
  IN reach[Len(config.groups)]

\* Where the selections from t end: empty when they run in a circle.
Ends(t) == {u \in Reached(t) : ~ IsGroup(u)}

\* The outbound that a reader of the document expects for the target t.
Expected(t) ==
  IF Ends(t) = {} THEN Failed
  ELSE LET u == CHOOSE x \in Ends(t) : TRUE
       IN IF u \in BuiltIn THEN u
          ELSE IF u \in NamesOf(config.proxies) THEN Named(config.proxies, u).chain
          ELSE IF u = t THEN SelectedProxy(config.groups, config.proxies)
          ELSE Failed

\* The depth limit of the recursion never stops a chain of selections that
\* ends, and always stops one that does not.
TargetsResolve ==
  \A t \in Targets : Resolve(t, config.groups, config.proxies) = Expected(t)

\* The first rule of the document that has an effect and covers dest, 0 for none.
Deciding(dest) == SelectInSeq(config.rules, LAMBDA r : r.kind \notin Silent /\ dest \in r.hits)

Unmatched(dest) == Deciding(dest) = 0

\* A keyword, country or port rule may stand for the default.
DefaultTaken == mode = "rule" /\ \E i \in DOMAIN config.rules : config.rules[i].kind \in Wide

\* The group that the user sees as the selected one.
MainGroup == config.groups[SelectedGroup(config.groups)]

\* The outbound that the documentation promises for a destination.
Promised(dest) ==
  CASE mode = "direct" -> Direct
    [] mode = "global" -> Expected(MainGroup.name)
    [] mode = "rule" ->
         IF Unmatched(dest) THEN Expected(Selected(MainGroup))
         ELSE Expected(config.rules[Deciding(dest)].target)

\* The backend sends every destination where the mode and the first matching
\* rule say, and where the selection of the main group leads when no rule
\* matches, unless a keyword, country or port rule stands for the default.
PlanKeepsPromise ==
  LET plan == Plan(config, mode)
  IN plan # NoPlan /\ config.groups # <<>> =>
       \A dest \in Dest :
         \/ Judge(plan, dest) = Promised(dest)
         \/ Unmatched(dest) /\ DefaultTaken

\* After a probe a url-test group stands for a member that answered, none of
\* the others faster, and a fallback group for the first that answered; a
\* group none of whose members answered stays as it is.
AutoGroupsMove ==
  [][\A n \in Names, r \in Delay : Probe(n, r) =>
       \A i \in DOMAIN config.groups :
         LET g     == config.groups'[i]
             alive == {k \in DOMAIN g.all : g.all[k] \in DOMAIN delay' /\ delay'[g.all[k]] > 0}
         IN IF alive = {} \/ g.type \notin {"url-test", "fallback"} THEN g = config.groups[i]
            ELSE \E k \in alive :
                   /\ g.now = g.all[k]
                   /\ \A j \in alive : IF g.type = "fallback" THEN k <= j
                                        ELSE delay'[g.all[k]] <= delay'[g.all[j]]]_configVars
=============================================================================
