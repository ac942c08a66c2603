----------------------------- MODULE PureProofs -----------------------------
(* The claims of the pure modules: the purity report, for any countries, and what
   is said of a node, for every address, port and credential. *)
EXTENDS Purity, Formats, FiniteSetTheorems, TLAPS

-----------------------------------------------------------------------------
(* The purity report. *)

LEMMA VotesType ==
  ASSUME NEW sources \in Sources, NEW c
  PROVE  /\ Votes(sources, c) \in Nat
         /\ Votes(sources, c) > 0 => \E i \in DOMAIN sources : sources[i].country = c
<1> DEFINE at == {i \in DOMAIN sources : sources[i].country = c}
<1>1. PICK n \in 0..4 : sources \in [1..n -> GeoSource]
  BY DEF Sources
<1>2. IsFiniteSet(at)
  BY <1>1, FS_Interval, FS_Subset, at \subseteq 1..n
<1>3. Cardinality(at) \in Nat
  BY <1>2, FS_CardinalityType
<1>4. Cardinality(at) = 0 <=> at = {}
  BY <1>2, FS_EmptySet
<1> QED
  BY <1>3, <1>4 DEF Votes

LEMMA NamedAreCountries ==
  ASSUME NEW sources \in Sources
  PROVE  Named(sources) \subseteq Countries
BY DEF Sources, Named, GeoSource

(* The country applyBestGeo chooses. *)
LEMMA LocationFollowsVotes ==
  ASSUME NEW sources \in Sources, NEW l \in Locations(sources)
  PROVE  /\ \A c \in Countries :
              (/\ Votes(sources, c) > 1
               /\ \A d \in Countries \ {c} : Votes(sources, d) < Votes(sources, c))
                => l.country = c /\ l.spelled = Spelled(sources, c)
         /\ l.confidence = "match" =>
              /\ l.country \in Countries /\ Votes(sources, l.country) > 1
              /\ l.spelled = Spelled(sources, l.country)
<1>1. /\ Winners(sources) \subseteq Countries
      /\ \A d \in Winners(sources) : Votes(sources, d) > 1
      /\ \A d \in Winners(sources), c \in Named(sources) : Votes(sources, c) <= Votes(sources, d)
  BY NamedAreCountries DEF Winners, Best
<1>2. ASSUME NEW c \in Countries, Votes(sources, c) > 1,
             \A d \in Countries \ {c} : Votes(sources, d) < Votes(sources, c)
      PROVE  Winners(sources) = {c}
  <2>1. c \in Named(sources)
    <3>1. Votes(sources, c) > 0
      BY <1>2, VotesType
    <3> QED
      BY <3>1, VotesType, CountriesAssumption DEF Named
  <2>2. \A d \in Named(sources) : Votes(sources, d) <= Votes(sources, c)
    BY <1>2, NamedAreCountries, VotesType
  <2>3. c \in Winners(sources)
    BY <1>2, <2>1, <2>2 DEF Winners, Best
  <2>4. \A d \in Winners(sources) : d = c
    BY <1>1, <1>2, <2>1, VotesType
  <2> QED
    BY <2>3, <2>4
<1>3. CASE sources = <<>>
  <2>1. l.confidence = "none"
    BY <1>3 DEF Locations
  <2>2. \A c \in Countries : ~(Votes(sources, c) > 1)
    <3> SUFFICES ASSUME NEW c \in Countries, Votes(sources, c) > 1
                 PROVE  FALSE
      OBVIOUS
    <3>1. Votes(sources, c) > 0
      BY VotesType
    <3>2. DOMAIN sources = {}
      BY <1>3
    <3> QED
      BY <3>1, <3>2, VotesType
  <2> QED
    BY <2>1, <2>2
<1>4. CASE sources # <<>> /\ Winners(sources) # {}
  <2>1. PICK c \in Winners(sources) :
          l = [country |-> c, spelled |-> Spelled(sources, c), confidence |-> "match"]
    BY <1>4 DEF Locations
  <2>2. l.country = c /\ l.spelled = Spelled(sources, c)
    BY <2>1
  <2> QED
    BY <1>1, <1>2, <2>2
<1>5. CASE sources # <<>> /\ Winners(sources) = {}
  <2>1. l.confidence # "match"
    BY <1>5 DEF Locations
  <2> QED
    BY <1>2, <1>5, <2>1
<1> QED
  BY <1>3, <1>4, <1>5

(* Whatever order applyBestGeo ranges over its map in, the country most services
   name is shown, and only an agreement is called one, unless the service selected
   for the country gives no name with it. *)
THEOREM CountryFollowsVotes == GeoFollowsVotes
<1> SUFFICES ASSUME NEW sources \in Sources, NEW r \in CheckPurity(sources)
             PROVE  /\ \A c \in Countries :
                         (/\ Votes(sources, c) > 1
                          /\ \A d \in Countries \ {c} : Votes(sources, d) < Votes(sources, c))
                           => Shows(r, sources, c)
                    /\ r.confidence = "match" =>
                         \E c \in Countries : Votes(sources, c) > 1 /\ Shows(r, sources, c)
  BY DEF GeoFollowsVotes
<1>1. PICK l \in Locations(sources) :
        r = Unjudged(l) \/ \E rep \in Reputation, own \in Countries \cup {Unknown} :
                             r = Judged(l, rep, own)
  BY DEF CheckPurity
<1>2. r.confidence = l.confidence
  BY <1>1 DEF Unjudged, Judged
<1>3. r.country = l.country \/ (~l.spelled /\ "unreachable" \notin r.risks)
  <2>1. CASE r = Unjudged(l)
    BY <2>1 DEF Unjudged
  <2>2. CASE \E rep \in Reputation, own \in Countries \cup {Unknown} : r = Judged(l, rep, own)
    BY <2>2 DEF Judged, Unsure, Risk
  <2> QED
    BY <1>1, <2>1, <2>2
<1>4. \A c : l.country = c /\ l.spelled = Spelled(sources, c) => Shows(r, sources, c)
  BY <1>3 DEF Shows
<1> QED
  BY <1>2, <1>4, LocationFollowsVotes

(* Score, level, type, verdict and risks of a report agree, for every reputation. *)
THEOREM VerdictsAgree == VerdictIsConsistent
<1> SUFFICES ASSUME NEW sources \in Sources, NEW r \in CheckPurity(sources)
             PROVE  /\ r.risks \cap {"proxy", "hosting"} # {} => r.level # "clean"
                    /\ r.sensitive = "good" => r.level = "clean"
                    /\ r.level = "risky" => r.sensitive = "risky"
                    /\ r.level # "clean" => r.risks \ {"conflict"} # {}
                    /\ r.type = "residential" => r.risks \subseteq {"conflict"}
  BY DEF VerdictIsConsistent
<1>1. PICK l \in Locations(sources) :
        r = Unjudged(l) \/ \E rep \in Reputation, own \in Countries \cup {Unknown} :
                             r = Judged(l, rep, own)
  BY DEF CheckPurity
<1>2. CASE r = Unjudged(l)
  BY <1>2 DEF Unjudged, Unsure, Risk
<1>3. CASE \E rep \in Reputation, own \in Countries \cup {Unknown} : r = Judged(l, rep, own)
  <2> PICK rep \in Reputation, own \in Countries \cup {Unknown} : r = Judged(l, rep, own)
    BY <1>3
  <2> DEFINE score == Score(rep)
  <2>1. /\ rep.hosting \in BOOLEAN /\ rep.proxy \in BOOLEAN
        /\ rep.mobile \in BOOLEAN /\ rep.named \in BOOLEAN
    BY DEF Reputation
  <2>2. /\ score \in 0..100
        /\ rep.proxy \/ rep.hosting => score < 80
        /\ score < 80 => rep.proxy \/ rep.hosting
    BY <2>1 DEF Score, Clamp, If
  <2>3. /\ r.level = (IF score >= 80 THEN "clean" ELSE IF score >= 55 THEN "medium" ELSE "risky")
        /\ r.sensitive = (IF rep.proxy \/ score < 55 THEN "risky"
                          ELSE IF score < 80 THEN "limited" ELSE "good")
    BY DEF Judged, Level, Sensitive
  <2>4. r.risks = Risk("conflict", l.confidence = "conflict") \cup Risk("hosting", rep.hosting)
                  \cup Risk("proxy", rep.proxy) \cup Risk("named", rep.named)
    BY DEF Judged, Unsure
  <2>5. r.type = "residential" => ~rep.named /\ ~rep.hosting /\ ~rep.proxy
    BY <2>1 DEF Judged, IPType
  <2>6. "hosting" \in r.risks <=> rep.hosting
    BY <2>1, <2>4 DEF Risk
  <2>7. "proxy" \in r.risks <=> rep.proxy
    BY <2>1, <2>4 DEF Risk
  <2>8. r.type = "residential" => r.risks \subseteq {"conflict"}
    BY <2>4, <2>5 DEF Risk
  <2> HIDE DEF score
  <2> QED
    BY <2>2, <2>3, <2>6, <2>7, <2>8
<1> QED
  BY <1>1, <1>2, <1>3

-----------------------------------------------------------------------------
(* The outbound made of a link, and the Clash proxy, are the counterpart of the
   inbound. *)

(* The entry's outbound reaches the inbound of the node whose link it was given:
   inbound, Link and chainOutbound agree. *)
THEOREM ChainReachesExit == ChainAgrees
<1> SUFFICES ASSUME NEW n \in Nodes, n.protocol # "clash"
             PROVE  ChainOutbound(Link(n)) =
                      IF n.protocol = "tuic" THEN Unsaid ELSE Reaching(n)
  BY DEF ChainAgrees
<1> USE DEF Link, Url, ChainOutbound, Reaching, Inbound, Client, Access
<1>1. CASE n.protocol = "vless-reality"
  BY <1>1 DEF VlessSecurity, Front
<1>2. CASE n.protocol = "shadowsocks"
  BY <1>2
<1>3. CASE n.protocol = "trojan-tls"
  BY <1>3 DEF ValueOr
<1>4. CASE n.protocol = "hysteria2"
  BY <1>4
<1>5. CASE n.protocol = "vless-ws-tls"
  BY <1>5 DEF VlessSecurity, ValueOr, WsPath, Unsaid
<1>6. CASE n.protocol = "tuic"
  BY <1>6
<1> QED
  BY <1>1, <1>2, <1>3, <1>4, <1>5, <1>6 DEF Nodes, Protocols

(* So does the Clash proxy: inbound and clashProxyForNode agree. *)
THEOREM ClashReachesNode == ClashAgrees
<1> SUFFICES ASSUME NEW n \in Nodes, n.protocol # "clash"
             PROVE  ClashProxy(n) = Reaching(n)
  BY DEF ClashAgrees
<1>1. n.protocol \in {"vless-reality", "shadowsocks", "trojan-tls", "hysteria2",
                      "vless-ws-tls", "tuic"}
  BY DEF Nodes, Protocols
<1> QED
  BY <1>1 DEF ClashProxy, Reaching, Inbound

(* The names in a Clash file resolve: writeProxyGroups, writeRuleProviders and
   writeRuleSetRules agree. *)
THEOREM ClashFileLoads == ClashResolves
<1> SUFFICES ASSUME NEW names \in (SUBSET ProxyNames) \ {{}}
             PROVE  LET groups == Groups(names)
                        known == names \cup DOMAIN groups \cup BuiltIn
                    IN /\ \A g \in DOMAIN groups : groups[g] # {} /\ groups[g] \subseteq known
                       /\ OtherTargets \cup {r[2] : r \in RuleSets} \subseteq known
                       /\ {r[1] : r \in RuleSets} \subseteq Providers
                       /\ \A g \in DOMAIN groups : \A h \in groups[g] \cap DOMAIN groups :
                            Height(h) < Height(g)
  BY DEF ClashResolves
<1> DEFINE groups == Groups(names)
           known == names \cup DOMAIN groups \cup BuiltIn
<1>1. DOMAIN groups = {"GLOBAL", "Proxy", "Auto", "Fallback", "LoadBalance",
                       "Streaming", "China", "AdBlock"}
  BY DEF Groups
<1>2. \A g \in DOMAIN groups : groups[g] # {} /\ groups[g] \subseteq known
  BY DEF Groups, BuiltIn
<1>3. OtherTargets \cup {r[2] : r \in RuleSets} \subseteq known
  BY <1>1 DEF OtherTargets, RuleSets, BuiltIn
<1>4. {r[1] : r \in RuleSets} \subseteq Providers
  BY DEF RuleSets, Providers
<1>5. names \cap DOMAIN groups = {}
  BY <1>1 DEF ProxyNames, Protocols
<1>6. \A g \in DOMAIN groups : \A h \in groups[g] \cap DOMAIN groups : Height(h) < Height(g)
  BY <1>1, <1>5 DEF Groups, Height
<1> QED BY <1>2, <1>3, <1>4, <1>6
=============================================================================
