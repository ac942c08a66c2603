------------------------------ MODULE Formats ------------------------------
(* What a node's client has to know, written four times over: the inbound of
   sing-box.json (inbound in internal/core/singbox/config.go), the share link (Link
   in internal/core/subscribe/generator.go), the Clash proxy (clashProxyForNode
   there), and the outbound that a chain entry makes of an exit's link
   (chainOutbound in config.go).  Nothing in the code ties them together.

   A text is a record of what it says; the two halves of a Reality key are one
   value. *)
EXTENDS Naturals

CONSTANTS Hosts, Ports, Uuids, Passwords, Keys

(* The empty string, and what a text does not say. *)
Unsaid == ""

Protocols == {"vless-reality", "shadowsocks", "trojan-tls", "hysteria2",
              "vless-ws-tls", "tuic", "clash"}

(* util.UUID, util.Token and the key pair give every node all of these. *)
Nodes == [protocol : Protocols, host : Hosts \cup {Unsaid}, port : Ports, uuid : Uuids,
          password : Passwords, key : Keys, sid : Keys]

Cipher == "chacha20-ietf-poly1305"
Front == "www.microsoft.com"
WsPath == "/easynode"

ValueOr(v, fallback) == IF v = Unsaid THEN fallback ELSE v
Host(n) == ValueOr(n.host, "127.0.0.1")

Plain == [kind |-> "none", name |-> Unsaid, key |-> Unsaid, sid |-> Unsaid]
Tls(name) == [kind |-> "tls", name |-> name, key |-> Unsaid, sid |-> Unsaid]
Reality(name, key, sid) == [kind |-> "reality", name |-> name, key |-> key, sid |-> sid]

(* What both ends of a connection agree on; path is that of a websocket. *)
Access(type, port, uuid, password, cipher, security, path) ==
  [type |-> type, port |-> port, uuid |-> uuid, password |-> password,
   cipher |-> cipher, security |-> security, path |-> path]

(* inbound: what sing-box accepts for n, with a certificate for domain. *)
Inbound(n, domain) ==
  CASE n.protocol = "shadowsocks" ->
         Access("shadowsocks", n.port, Unsaid, n.password, Cipher, Plain, Unsaid)
    [] n.protocol = "vless-reality" ->
         Access("vless", n.port, n.uuid, Unsaid, Unsaid, Reality(Front, n.key, n.sid), Unsaid)
    [] n.protocol = "trojan-tls" ->
         Access("trojan", n.port, Unsaid, n.password, Unsaid, Tls(domain), Unsaid)
    [] n.protocol = "hysteria2" ->
         Access("hysteria2", n.port, Unsaid, n.password, Unsaid, Tls(domain), Unsaid)
    [] n.protocol = "tuic" ->
         Access("tuic", n.port, n.uuid, n.password, Unsaid, Tls(domain), Unsaid)
    [] n.protocol = "vless-ws-tls" ->
         Access("vless", n.port, n.uuid, Unsaid, Unsaid, Tls(domain), WsPath)

(* A URL: scheme, the two parts of its user information, host, port, and those
   parameters of its query that anybody reads. *)
Url(scheme, user, secret, n) ==
  [scheme |-> scheme, user |-> user, secret |-> secret, host |-> Host(n), port |-> n.port,
   security |-> Unsaid, type |-> Unsaid, path |-> Unsaid, sni |-> Unsaid, pbk |-> Unsaid, sid |-> Unsaid]

Link(n) ==
  CASE n.protocol = "vless-reality" ->
         [Url("vless", n.uuid, Unsaid, n) EXCEPT !.security = "reality", !.type = "tcp",
                                               !.sni = Front, !.pbk = n.key, !.sid = n.sid]
    [] n.protocol = "shadowsocks" -> Url("ss", <<Cipher, n.password>>, Unsaid, n)
    [] n.protocol = "trojan-tls" ->
         [Url("trojan", n.password, Unsaid, n) EXCEPT !.security = "tls", !.type = "tcp",
                                                    !.sni = Host(n)]
    [] n.protocol = "hysteria2" -> [Url("hysteria2", n.password, Unsaid, n) EXCEPT !.sni = Host(n)]
    [] n.protocol = "vless-ws-tls" ->
         [Url("vless", n.uuid, Unsaid, n) EXCEPT !.security = "tls", !.type = "ws",
                                               !.path = WsPath, !.sni = Host(n)]
    [] n.protocol = "tuic" -> [Url("tuic", n.uuid, n.password, n) EXCEPT !.sni = Host(n)]
    [] n.protocol = "clash" -> Unsaid

(* Where a client connects to, and what it offers there. *)
Client(server, access) == [server |-> server, access |-> access]

VlessSecurity(u) ==
  CASE u.security = "reality" -> Reality(u.sni, u.pbk, u.sid)
    [] u.security = "tls" -> Tls(u.sni)
    [] u.security \notin {"reality", "tls"} -> Plain

(* chainOutbound; links of TUIC, and of nothing else, have none. *)
ChainOutbound(u) ==
  CASE u.scheme = "vless" ->
         Client(u.host, Access("vless", u.port, u.user, Unsaid, Unsaid, VlessSecurity(u),
                               IF u.type = "ws" THEN ValueOr(u.path, "/") ELSE Unsaid))
    [] u.scheme = "trojan" ->
         Client(u.host, Access("trojan", u.port, Unsaid, ValueOr(u.secret, u.user), Unsaid,
                               Tls(u.sni), Unsaid))
    [] u.scheme = "hysteria2" ->
         Client(u.host, Access("hysteria2", u.port, Unsaid, u.user, Unsaid, Tls(u.sni), Unsaid))
    [] u.scheme = "ss" ->
         Client(u.host, Access("shadowsocks", u.port, Unsaid, u.user[2], u.user[1], Plain, Unsaid))
    [] u.scheme = "tuic" -> Unsaid

ClashProxy(n) ==
  CASE n.protocol = "shadowsocks" ->
         Client(Host(n), Access("shadowsocks", n.port, Unsaid, n.password, Cipher, Plain, Unsaid))
    [] n.protocol = "vless-reality" ->
         Client(Host(n), Access("vless", n.port, n.uuid, Unsaid, Unsaid,
                               Reality(Front, n.key, n.sid), Unsaid))
    [] n.protocol = "trojan-tls" ->
         Client(Host(n), Access("trojan", n.port, Unsaid, n.password, Unsaid, Tls(Host(n)), Unsaid))
    [] n.protocol = "hysteria2" ->
         Client(Host(n), Access("hysteria2", n.port, Unsaid, n.password, Unsaid, Tls(Host(n)), Unsaid))
    [] n.protocol = "vless-ws-tls" ->
         Client(Host(n), Access("vless", n.port, n.uuid, Unsaid, Unsaid, Tls(Host(n)), WsPath))
    [] n.protocol = "tuic" ->
         Client(Host(n), Access("tuic", n.port, n.uuid, n.password, Unsaid, Tls(Host(n)), Unsaid))
    [] n.protocol = "clash" -> Unsaid

-----------------------------------------------------------------------------
(* The rest of the Clash file (clash_v2.go): groups of proxies, which rules and other
   groups refer to by name.  A proxy is named after its protocol. *)

BuiltIn == {"DIRECT", "REJECT"}
ProxyNames == Protocols \ {"clash"}

(* writeProxyGroups; a file without proxies has no groups and one rule, to DIRECT. *)
Groups(names) ==
  [GLOBAL |-> {"Proxy", "China", "DIRECT"},
   Proxy |-> {"Auto", "Fallback", "LoadBalance"} \cup names,
   Auto |-> names, Fallback |-> names, LoadBalance |-> names,
   Streaming |-> {"Proxy", "Auto"} \cup names,
   China |-> {"DIRECT", "Proxy"},
   AdBlock |-> {"REJECT", "DIRECT", "Proxy"}]

Providers ==
  {"reject", "icloud", "apple", "google", "proxy", "direct", "private", "gfw",
   "tld-not-cn", "telegramcidr", "cncidr", "lancidr"}

(* writeRuleSetRules: the sets named, and where they lead. *)
RuleSets ==
  {"private", "lancidr", "icloud", "apple"} \X {"DIRECT"}
  \cup {"google", "telegramcidr", "proxy", "gfw", "tld-not-cn"} \X {"Proxy"}
  \cup {"direct", "cncidr"} \X {"China"}
  \cup {<<"reject", "AdBlock">>}
OtherTargets == {"Streaming", "China", "GLOBAL"}

-----------------------------------------------------------------------------
(* What a client of n has to do, whoever tells it. *)
Reaching(n) == Client(Host(n), Inbound(n, Host(n)))

(* A chain entry that is given the link of an exit's node connects exactly to that
   node's inbound, if the exit's certificate is for the node's host; only a link of
   TUIC is lost on it, without an error. *)
ChainAgrees ==
  \A n \in Nodes : n.protocol # "clash" =>
    ChainOutbound(Link(n)) = IF n.protocol = "tuic" THEN Unsaid ELSE Reaching(n)

(* So does a Clash client, for every protocol. *)
ClashAgrees == \A n \in Nodes : n.protocol # "clash" => ClashProxy(n) = Reaching(n)

(* The levels the groups can be arranged in. *)
Height(g) ==
  CASE g = "GLOBAL" -> 3
    [] g \in {"Streaming", "China", "AdBlock"} -> 2
    [] g = "Proxy" -> 1
    [] g \in {"Auto", "Fallback", "LoadBalance"} -> 0

(* Whatever runs, a Clash client can load the file: each name a rule or a group uses
   is defined, no group is empty, and none contains itself through others. *)
ClashResolves ==
  \A names \in (SUBSET ProxyNames) \ {{}} :
    LET groups == Groups(names)
        known == names \cup DOMAIN groups \cup BuiltIn
    IN /\ \A g \in DOMAIN groups : groups[g] # {} /\ groups[g] \subseteq known
       /\ OtherTargets \cup {r[2] : r \in RuleSets} \subseteq known
       /\ {r[1] : r \in RuleSets} \subseteq Providers
       /\ \A g \in DOMAIN groups : \A h \in groups[g] \cap DOMAIN groups :
            Height(h) < Height(g)
=============================================================================
