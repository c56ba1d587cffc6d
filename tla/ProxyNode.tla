------------------------------ MODULE ProxyNode ------------------------------
(***************************************************************************)
(* A node of a Clash document as the native core keeps it (ProxyNode in    *)
(* lib.rs), and how the two readers of a document fill it: from the value  *)
(* that serde_yaml makes of it, from the text of a flow item, or key by    *)
(* key from the lines of a block item.                                     *)
(*                                                                         *)
(* A node is a record [name, type, fields], fields being a function from   *)
(* the names of fields to their text; a field that is not there reads as   *)
(* the empty string.  The entry of a document is a record [sec, key, val]: *)
(* the key and value as written and the section (ws-opts, ...) they are    *)
(* nested in, "" for the node itself.  Upper and lower case are told apart *)
(* only where the code does (Host).                                        *)
(***************************************************************************)
EXTENDS Integers, SequencesExt

\* The empty string.
Blank == ""

Put(f, key, val) == [k \in DOMAIN f \cup {key} |-> IF k = key THEN val ELSE f[k]]

EmptyNode == [name |-> Blank, type |-> Blank, fields |-> [k \in {} |-> Blank]]

Field(p, key) == IF key \in DOMAIN p.fields THEN p.fields[key] ELSE Blank

\* proxy_field_any: the first of these fields that holds something.
FirstOf(p, keys) ==
  LET i == SelectInSeq(keys, LAMBDA k : Field(p, k) # Blank)
  IN IF i = 0 THEN Blank ELSE Field(p, keys[i])

AssignField(p, key, val) ==
  [name   |-> IF key = "name" THEN val ELSE p.name,
   type   |-> IF key = "type" THEN val ELSE p.type,
   fields |-> Put(p.fields, key, val)]

-----------------------------------------------------------------------------
(* The field that a written key fills *)

\* A field that nothing looks at: the code keeps it under the key with the
\* section as a prefix.
Unread == "unread"

PlainName(key) ==
  CASE key \in {"auth", "auth-str", "auth_str", "token"}            -> "password"
    [] key \in {"obfs-password", "obfs_password"}                   -> "obfs-password"
    [] key \in {"congestion-controller", "congestion_controller"}   -> "congestion-controller"
    [] key \in {"disable-sni", "disable_sni"}                       -> "disable-sni"
    [] OTHER                                                        -> key

ShadowTlsNames == {"shadow-tls", "shadowtls"}
V2rayNames == {"v2ray-plugin", "v2ray_plugin"}
ServerNames == {"server-name", "server_name", "sni", "servername"}

\* Mutant of PluginName: the host of any plugin is its WebSocket host.
PluginNameHost(plugin, key) ==
  CASE plugin \in ShadowTlsNames /\ key = "password" -> "shadow-tls-password"
    [] plugin \in V2rayNames /\ key = "path" -> "path"
    [] key \in {"host", "Host"} -> "ws-host"
    [] key = "mode" -> "plugin-mode"
    [] key = "tls"  -> "plugin-tls"
    [] OTHER -> Unread

\* What an option means depends on the plugin that the node has so far.
PluginName(plugin, key) ==
  CASE plugin \in ShadowTlsNames /\ key = "password" -> "shadow-tls-password"
    [] plugin \in ShadowTlsNames /\ key \in {"host", "sni", "servername"} -> "shadow-tls-sni"
    [] plugin \in V2rayNames /\ key = "path" -> "path"
    [] plugin \in V2rayNames /\ key \in {"host", "Host"} -> "ws-host"
    [] key = "mode" -> "plugin-mode"
    [] key = "tls"  -> "plugin-tls"
    [] OTHER -> Unread

WsName(key) ==
  CASE key = "path" -> "path" [] key \in {"host", "Host"} -> "ws-host" [] OTHER -> Unread

H2Name(key) ==
  CASE key = "path" -> "h2-path" [] key \in {"host", "Host"} -> "h2-host" [] OTHER -> Unread

GrpcName(key) ==
  CASE key \in {"serviceName", "service-name", "grpc-service-name", "service_name"} -> "grpc-service-name"
    [] key \in {"authority", "host", "Host"} -> "grpc-authority"
    [] OTHER -> Unread

RealityName(key) ==
  CASE key \in {"public-key", "public_key", "pbk"} -> "public-key"
    [] key \in {"short-id", "short_id", "sid"} -> "short-id"
    [] key \in ServerNames -> "sni"
    [] OTHER -> Unread

TlsName(key) ==
  CASE key \in ServerNames -> "sni"
    [] key \in {"client-fingerprint", "fingerprint"} -> "client-fingerprint"
    [] key = "server-fingerprint" -> "server-fingerprint"
    [] key \in {"alpn", "alpn-protocols", "alpn_protocols"} -> "alpn"
    [] OTHER -> Unread

MuxName(key) ==
  CASE key \in {"enabled", "enable"} -> "h2mux-enabled"
    [] key \in {"max-connections", "max_connections"} -> "h2mux-max-connections"
    [] key \in {"min-streams", "min_streams"} -> "h2mux-min-streams"
    [] key \in {"max-streams", "max_streams"} -> "h2mux-max-streams"
    [] key = "padding" -> "h2mux-padding"
    [] OTHER -> Unread

Muxes == {"h2mux", "mux", "smux"}

Entry(sec, key, val) == [sec |-> sec, key |-> key, val |-> val]

AssignPlain(p, key, val) == AssignField(p, PlainName(key), val)

AssignNested(p, sec, key, val) ==
  AssignField(p, CASE sec = "plugin-opts"                -> PluginName(Field(p, "plugin"), key)
                   [] sec \in {"ws-opts", "ws-headers"}  -> WsName(key)
                   [] sec \in {"h2-opts", "http2-opts"}  -> H2Name(key)
                   [] sec = "grpc-opts"                  -> GrpcName(key)
                   [] sec = "reality-opts"               -> RealityName(key)
                   [] sec = "tls-opts"                   -> TlsName(key)
                   [] sec \in Muxes                      -> MuxName(key),
              val)

Assign(p, e) ==
  IF e.sec = Blank THEN AssignPlain(p, e.key, e.val) ELSE AssignNested(p, e.sec, e.key, e.val)

\* The node after these entries, one after the other.
Filled(p, entries) ==
  LET filled[n \in 0 .. Len(entries)] ==
        IF n = 0 THEN p ELSE Assign(filled[n - 1], entries[n])
  IN filled[Len(entries)]

\* A direct key that has a value; Host is the host of a WebSocket.
Direct1(key, val) ==
  IF val = Blank THEN <<>> ELSE <<Entry(Blank, IF key = "Host" THEN "ws-host" ELSE key, val)>>

-----------------------------------------------------------------------------
(* From the value that serde_yaml reads *)

\* The order in which the keys of the node itself are looked up; of several
\* names of one field the last one stays.
DirectKeys ==
  <<"name", "type", "server", "port", "cipher", "password", "auth", "auth-str", "auth_str",
    "token", "username", "uuid", "sni", "servername", "tls", "network", "path", "host", "Host",
    "security", "skip-cert-verify", "fingerprint", "client-fingerprint", "alpn", "pbk",
    "public-key", "sid", "short-id", "server-name", "server_name", "flow", "udp", "mux", "h2mux",
    "smux", "h2mux-enabled", "h2mux-max-connections", "h2mux-min-streams", "h2mux-max-streams",
    "h2mux-padding", "h2-path", "h2-host", "grpc-service-name", "grpc-authority", "plugin",
    "shadow-tls-password", "shadowtls-password", "shadow-tls-sni", "shadowtls-sni", "obfs",
    "obfs-password", "obfs_password", "congestion-controller", "congestion_controller",
    "disable-sni", "disable_sni">>

\* The sections that are looked up then.
SectionOrder ==
  <<"plugin-opts", "ws-opts", "h2-opts", "http2-opts", "grpc-opts", "reality-opts", "tls-opts",
    "h2mux", "mux", "smux">>

\* The headers of a WebSocket are read with its options, and only the host.
InSection(e, sec) ==
  \/ e.sec = sec
  \/ sec = "ws-opts" /\ e.sec = "ws-headers" /\ WsName(e.key) = "ws-host"

\* The value of a key of the node itself, "" if there is none.  A YAML mapping
\* has no key twice.
Written(entries, key) ==
  LET i == SelectInSeq(entries, LAMBDA e : e.sec = Blank /\ e.key = key)
  IN IF i = 0 THEN Blank ELSE entries[i].val

\* The entries of a section, in their order.
Section(entries, sec) ==
  FlattenSeq([i \in DOMAIN entries |-> IF InSection(entries[i], sec) THEN <<entries[i]>> ELSE <<>>])

\* proxy_from_yaml; a node without a name is dropped by the callers.
NodeFromYaml(entries) ==
  Filled(EmptyNode,
         FlattenSeq([i \in DOMAIN DirectKeys |-> Direct1(DirectKeys[i], Written(entries, DirectKeys[i]))])
           \o FlattenSeq([i \in DOMAIN SectionOrder |-> Section(entries, SectionOrder[i])]))

-----------------------------------------------------------------------------
(* From the text of a flow item *)

\* Pairs of a written key and a key that it ends with: the text is searched
\* for the asked key and a colon, wherever they are.
Suffixed ==
  {<<"servername", "name">>, <<"server-name", "name">>, <<"server_name", "name">>,
   <<"username", "name">>, <<"service-name", "name">>, <<"service_name", "name">>,
   <<"grpc-service-name", "name">>, <<"grpc-opts.service-name", "name">>,
   <<"grpc-opts.grpc-service-name", "name">>, <<"obfs-password", "password">>,
   <<"obfs_password", "password">>, <<"shadow-tls-password", "password">>,
   <<"shadowtls-password", "password">>, <<"disable-sni", "sni">>, <<"disable_sni", "sni">>,
   <<"shadow-tls-sni", "sni">>, <<"shadowtls-sni", "sni">>, <<"client-fingerprint", "fingerprint">>,
   <<"server-fingerprint", "fingerprint">>, <<"ws-opts.path", "path">>, <<"h2-opts.path", "path">>,
   <<"plugin-opts.path", "path">>, <<"h2-opts.host", "host">>, <<"plugin-opts.host", "host">>,
   <<"h2-path", "path">>, <<"ws-path", "path">>, <<"h2-host", "host">>, <<"ws-host", "host">>,
   <<"ws-opts.headers.Host", "Host">>, <<"plugin-opts.tls", "tls">>, <<"plugin-tls", "tls">>,
   <<"reality-opts.public-key", "public-key">>, <<"reality-opts.short-id", "short-id">>}

\* flow_value: nested entries are part of the text like any other.
FlowValue(entries, key) ==
  LET i == SelectInSeq(entries, LAMBDA e : e.key = key \/ <<e.key, key>> \in Suffixed)
  IN IF i = 0 THEN Blank ELSE entries[i].val

\* The direct keys that a flow item is not asked for.
NotInFlow ==
  {"udp", "h2mux-enabled", "h2mux-max-connections", "h2mux-min-streams", "h2mux-max-streams",
   "h2mux-padding", "h2-path", "h2-host", "grpc-service-name", "grpc-authority"} \cup Muxes

\* Options that a flow item may also have with the section before a dot.  Of the
\* names of the gRPC service the first in the code wins, the last one here.
FlowDotted ==
  <<[key |-> "ws-opts.path", sec |-> "ws-opts", to |-> "path"],
    [key |-> "ws-opts.headers.Host", sec |-> "ws-headers", to |-> "Host"],
    [key |-> "h2-opts.path", sec |-> "h2-opts", to |-> "path"],
    [key |-> "h2-opts.host", sec |-> "h2-opts", to |-> "host"],
    [key |-> "grpc-opts.grpc-service-name", sec |-> "grpc-opts", to |-> "grpc-service-name"],
    [key |-> "grpc-opts.service-name", sec |-> "grpc-opts", to |-> "service-name"],
    [key |-> "grpc-opts.serviceName", sec |-> "grpc-opts", to |-> "serviceName"],
    [key |-> "reality-opts.public-key", sec |-> "reality-opts", to |-> "public-key"],
    [key |-> "reality-opts.short-id", sec |-> "reality-opts", to |-> "short-id"],
    [key |-> "plugin-opts.mode", sec |-> "plugin-opts", to |-> "mode"],
    [key |-> "plugin-opts.path", sec |-> "plugin-opts", to |-> "path"],
    [key |-> "plugin-opts.host", sec |-> "plugin-opts", to |-> "host"],
    [key |-> "plugin-opts.tls", sec |-> "plugin-opts", to |-> "tls"]>>

\* proxy_from_flow; a text without a name gives no node.
NodeFromFlow(entries) ==
  LET val(key) == FlowValue(entries, key)
      plain(key) == IF key \in NotInFlow THEN <<>> ELSE Direct1(key, val(key))
      dotted(o) == IF val(o.key) = Blank THEN <<>> ELSE <<Entry(o.sec, o.to, val(o.key))>>
      start == [EmptyNode EXCEPT !.name = val("name"), !.type = val("type")]
  IN IF start.name = Blank THEN EmptyNode
     ELSE Filled(start, FlattenSeq([i \in DOMAIN DirectKeys |-> plain(DirectKeys[i])])
                          \o FlattenSeq([i \in DOMAIN FlowDotted |-> dotted(FlowDotted[i])]))
=============================================================================
