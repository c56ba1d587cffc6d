----------------------------- MODULE ClientChain -----------------------------
(***************************************************************************)
(* The client chain that the native core generates for a node: the layers  *)
(* a connection goes through, outermost first, or no chain when the        *)
(* adapter refuses the node (build_shoes_client_chain in lib.rs).          *)
(*                                                                         *)
(* A layer is a record [kind, set], set being a function from the settings *)
(* it is given to their values.  The text it is written in, and the        *)
(* quoting, are left out; of a list of values the code takes the first.    *)
(***************************************************************************)
EXTENDS ProxyNode, FiniteSets

NoChain == <<>>

Truthy(v) == v \in {"true", "1", "yes"}
Falsy(v) == v \in {"false", "0", "no"}

\* A layer with those of the pairs <<setting, value>> whose value is not empty.
Layer(kind, pairs) ==
  LET given == {pr \in pairs : pr[2] # Blank}
  IN [kind |-> kind,
      set  |-> [s \in {pr[1] : pr \in given} |-> (CHOOSE pr \in given : pr[1] = s)[2]]]

-----------------------------------------------------------------------------
(* The protocol of the node *)

Protocol(type) ==
  CASE type \in {"hysteria2", "hy2", "hysteria"} -> "hysteria2"
    [] type \in {"tuic", "tuic-v5", "tuicv5"}    -> "tuic"
    [] type \in {"ss", "shadowsocks"}            -> "shadowsocks"
    [] type \in {"socks", "socks5"}              -> "socks"
    [] type \in {"http", "https"}                -> "http"
    [] type \in {"anytls", "any-tls"}            -> "anytls"
    [] type \in {"naive", "naiveproxy"}          -> "naiveproxy"
    [] type \in {"direct", "snell", "vmess", "vless", "trojan"} -> type
    [] OTHER                                     -> "unknown"

\* The fields that a protocol cannot do without.
Needs(protocol) ==
  CASE protocol \in {"hysteria2", "trojan", "anytls"} -> {"password"}
    [] protocol = "tuic"                              -> {"uuid", "password"}
    [] protocol \in {"shadowsocks", "snell"}          -> {"cipher", "password"}
    [] protocol \in {"vmess", "vless"}                -> {"uuid"}
    [] protocol = "naiveproxy"                        -> {"username", "password"}
    [] OTHER                                          -> {}

\* Those that it takes along if they are there.
Takes(protocol) ==
  CASE protocol \in {"socks", "http"} -> {"username", "password"}
    [] protocol = "vmess"             -> {"uuid", "cipher"}
    [] OTHER                          -> Needs(protocol)

\* What the clients of the backend cannot do.
Unsupported(p) ==
  \/ Protocol(p.type) = "unknown"
  \/ /\ Protocol(p.type) = "hysteria2"
     /\ Field(p, "obfs") # Blank \/ Field(p, "obfs-password") # Blank \/ Truthy(Field(p, "disable-sni"))
  \/ Protocol(p.type) = "tuic" /\ Field(p, "congestion-controller") \notin {Blank, "bbr"}

UdpProtocols == {"hysteria2", "shadowsocks", "snell", "vmess", "vless", "anytls"}

UdpEnabled(p) == IF Field(p, "udp") = Blank \/ Truthy(Field(p, "udp")) THEN "true" ELSE "false"

MuxEnabled(p) ==
  \/ \E key \in Muxes : Truthy(Field(p, key))
  \/ Truthy(FirstOf(p, <<"h2mux-enabled", "mux-enabled", "smux-enabled">>))

\* The multiplexing that vmess, vless and trojan nodes can have.
MuxSettings(p) ==
  IF Protocol(p.type) \in {"vmess", "vless", "trojan"} /\ MuxEnabled(p)
  THEN {<<"h2mux", "true">>}
         \cup {<<key, Field(p, key)>> : key \in {"h2mux-max-connections", "h2mux-min-streams",
                                                 "h2mux-max-streams"}}
         \cup {<<"padding", CASE Field(p, "h2mux-padding") = Blank -> Blank
                              [] Truthy(Field(p, "h2mux-padding")) -> "true"
                              [] OTHER -> "false">>}
  ELSE {}

BaseLayer(p) ==
  LET protocol == Protocol(p.type)
      default(key) == IF protocol = "vmess" /\ key = "cipher" /\ Field(p, key) = Blank
                      THEN "any" ELSE Field(p, key)
  IN Layer(protocol, {<<key, default(key)>> : key \in Takes(protocol)}
                       \cup (IF protocol \in UdpProtocols THEN {<<"udp_enabled", UdpEnabled(p)>>} ELSE {})
                       \cup MuxSettings(p))

-----------------------------------------------------------------------------
(* What is wrapped around it *)

WsLayer(p) ==
  Layer("ws", {<<"path", FirstOf(p, <<"path", "ws-path">>)>>,
               <<"host", FirstOf(p, <<"ws-host", "host">>)>>})

Http2Layer(p) ==
  LET path == FirstOf(p, <<"h2-path", "path">>)
  IN Layer("h2", {<<"path", IF path = Blank THEN "/" ELSE path>>,
                  <<"host", FirstOf(p, <<"h2-host", "host", "servername", "sni", "server">>)>>})

GrpcLayer(p) ==
  Layer("grpc", {<<"service_name", Field(p, "grpc-service-name")>>,
                 <<"authority", FirstOf(p, <<"grpc-authority", "host", "servername", "sni", "server">>)>>})

WsNetworks == {"ws", "websocket"}
H2Networks == {"h2", "http", "http2"}

Transport(p) ==
  LET network == Field(p, "network")
  IN CASE network \in WsNetworks -> <<WsLayer(p)>>
       [] network \in H2Networks -> <<Http2Layer(p)>>
       [] network = "grpc"       -> <<GrpcLayer(p)>>
       [] OTHER                  -> <<>>

\* A network that none of these stands for.
UnknownNetwork(p) ==
  Field(p, "network") \notin WsNetworks \cup H2Networks \cup {"grpc", "tcp", Blank}

ShadowTlsPassword(p) == FirstOf(p, <<"shadow-tls-password", "shadowtls-password", "password">>)

ShadowTlsLayer(p) ==
  Layer("shadowtls",
        {<<"password", ShadowTlsPassword(p)>>,
         <<"sni", FirstOf(p, <<"shadow-tls-sni", "shadowtls-sni", "sni", "servername", "host">>)>>})

\* The plugin of v2ray adds a WebSocket, unless the node has one.
Plugin(p) ==
  LET plugin == Field(p, "plugin")
  IN CASE plugin \in ShadowTlsNames -> <<ShadowTlsLayer(p)>>
       [] plugin \in V2rayNames /\ Field(p, "network") \notin WsNetworks -> <<WsLayer(p)>>
       [] OTHER -> <<>>

\* A plugin that the adapter does not know, or cannot set up.
UnknownPlugin(p) ==
  LET plugin == Field(p, "plugin")
  IN \/ plugin \notin ShadowTlsNames \cup V2rayNames \cup {Blank}
     \/ plugin \in ShadowTlsNames /\ ShadowTlsPassword(p) = Blank
     \/ plugin \in V2rayNames /\ Field(p, "plugin-mode") \notin WsNetworks \cup {Blank}

SniNames == <<"sni", "servername", "server-name", "server_name">>

\* Whether the certificate is verified, "" for the default of the client.  A
\* trojan node that shows another name than its server is not verified.
Verify(p, tlsClient) ==
  LET skip == Field(p, "skip-cert-verify")
      sni  == FirstOf(p, SniNames)
  IN CASE skip # Blank   -> IF Truthy(skip) THEN "false" ELSE "true"
       [] skip = Blank /\ tlsClient = "chrome" /\ p.type = "trojan"
            /\ Field(p, "server") # Blank /\ sni \notin {Blank, Field(p, "server")} -> "false"
       [] OTHER       -> Blank

TlsLayer(p, tlsClient) ==
  LET client == Field(p, "client-fingerprint")
      overH2 == Protocol(p.type) = "naiveproxy" \/ Field(p, "network") \in H2Networks \cup {"grpc"}
  IN Layer("tls",
       {<<"verify", Verify(p, tlsClient)>>,
        <<"server_fingerprints", Field(p, "server-fingerprint")>>,
        <<"client_fingerprint", IF client = Blank /\ tlsClient = "chrome" THEN "chrome" ELSE client>>,
        <<"alpn", IF Field(p, "alpn") = Blank /\ overH2 THEN "h2" ELSE Field(p, "alpn")>>,
        <<"sni", FirstOf(p, <<"sni", "servername", "host", "server">>)>>})

PublicKey(p) == FirstOf(p, <<"pbk", "public-key", "public_key">>)

\* The flow of a node is named by a word that says whether it holds "vision".
Vision(flow) == flow \in {"vision", "xtls-rprx-vision"}

RealityLayer(p) ==
  Layer("reality", {<<"public_key", PublicKey(p)>>,
                    <<"short_id", FirstOf(p, <<"sid", "short-id", "short_id">>)>>,
                    <<"sni", FirstOf(p, SniNames)>>,
                    <<"vision", IF Vision(Field(p, "flow")) THEN "true" ELSE Blank>>})

\* Mutant of AsksTls: an option of the plugin is not looked at.
AsksTlsNoPlugin(p) ==
  \/ Truthy(Field(p, "tls"))
  \/ Field(p, "security") = "tls"
  \/ p.type \in {"trojan", "anytls", "any-tls", "naive", "naiveproxy"}

AsksTls(p) ==
  \/ Truthy(Field(p, "tls"))
  \/ Truthy(Field(p, "plugin-tls"))
  \/ Field(p, "security") = "tls"
  \/ p.type \in {"trojan", "anytls", "any-tls", "naive", "naiveproxy"}

\* Reality first, TLS unless the node says that it has none.
Security(p, tlsClient) ==
  CASE Field(p, "security") = "reality"         -> <<RealityLayer(p)>>
    [] Field(p, "security") # "reality" /\ AsksTls(p) /\ ~ Falsy(Field(p, "tls"))
                                                -> <<TlsLayer(p, tlsClient)>>
    [] OTHER                                    -> <<>>

\* The settings of the QUIC connection below hysteria2 and tuic.
QuicLayer(p) ==
  LET skip == Field(p, "skip-cert-verify")
  IN Layer("quic", {<<"verify", CASE skip = Blank -> Blank [] Truthy(skip) -> "false" [] OTHER -> "true">>,
                    <<"sni", FirstOf(p, SniNames \o <<"host", "server">>)>>,
                    <<"alpn", Field(p, "alpn")>>})

Quic(p) == IF Protocol(p.type) \in {"hysteria2", "tuic"} THEN <<QuicLayer(p)>> ELSE <<>>

-----------------------------------------------------------------------------
\* Any of these makes the adapter refuse the node.
Refused(p) ==
  \/ Field(p, "server") = Blank \/ Field(p, "port") = Blank
  \/ \E key \in Needs(Protocol(p.type)) : Field(p, key) = Blank
  \/ Unsupported(p)
  \/ UnknownNetwork(p)
  \/ UnknownPlugin(p)
  \/ Field(p, "security") = "reality" /\ PublicKey(p) = Blank

\* build_shoes_client_chain: the server is where the outermost layer connects
\* to; a node of type direct needs nothing else.
Chain(p, tlsClient) ==
  IF p.type = "direct" THEN <<Layer("direct", {})>>
  ELSE IF Refused(p) THEN NoChain
  ELSE <<Layer("address", {<<"server", Field(p, "server")>>, <<"port", Field(p, "port")>>})>>
         \o Quic(p) \o Security(p, tlsClient) \o Plugin(p) \o Transport(p) \o <<BaseLayer(p)>>
=============================================================================
