------------------------------ MODULE MCPanel ------------------------------
(* Constants and bounds of the Panel runs. *)
EXTENDS Panel, TLC

CONSTANTS host, local

(* state.json as store.Open creates it: no setup, no nodes. *)
Fresh == [settings |-> [done |-> FALSE, direct |-> FALSE, domain |-> None, cert |-> None],
          list |-> <<>>]

(* The file of a server that was set up for a domain and runs both protocols
   of TwoProtocols. *)
InDomainMode == [done |-> TRUE, direct |-> FALSE, domain |-> host, cert |-> host]
ForDomain(proto) ==
  [proto |-> proto, status |-> "running", host |-> host,
   link |-> [host |-> host, keys |-> FALSE], keys |-> FALSE]
Established ==
  [settings |-> InDomainMode,
   list |-> <<ForDomain("shadowsocks"), ForDomain("trojan-tls")>>]

(* The file of an older version, which knew no detected host, no Reality keys
   and a "clash" node with no Shadowsocks node behind it. *)
Old(proto) ==
  [proto |-> proto, status |-> "running", host |-> local, link |-> None, keys |-> FALSE]
Legacy ==
  [settings |-> [done |-> TRUE, direct |-> TRUE, domain |-> None, cert |-> None],
   list |-> <<Old("vless-reality"), Old("clash"), Old("trojan-tls")>>]

OnlyFresh == {Fresh}
FreshOrEstablished == {Fresh, Established}
FreshOrLegacy == {Fresh, Legacy}

RealityAndTrojan == <<"vless-reality", "trojan-tls">>
TwoProtocols == <<"shadowsocks", "trojan-tls">>

(* What a node's data become in the four texts made of them. *)
Texts == INSTANCE Formats WITH
  Hosts <- {"203.0.113.7", "node.example"}, Ports <- {443, 8388},
  Uuids <- {"uuid1", "uuid2"}, Passwords <- {"word1", "word2"}, Keys <- {"key1", "key2"}
ASSUME TextsAgree == Texts!ChainAgrees /\ Texts!ClashAgrees /\ Texts!ClashResolves

(* What an array nobody refers to holds can never be read again: states that
   differ in it only are counted once. *)
View == <<[a \in Arrays |-> IF a \in FreeArrays THEN None ELSE <<heap[a], cap[a]>>],
          settings, nodes, disk, up, pc, view, vcert, pos, out,
          content, arg, inside, sole, svc, viewing, solo, drift, revived, events>>

(* Symmetry of things the model never tells apart; only safety is checked. *)
ArraySymmetry == Permutations(Arrays)
Symmetry == Permutations(Arrays) \cup Permutations(Handlers)
=============================================================================
