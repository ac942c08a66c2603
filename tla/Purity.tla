------------------------------- MODULE Purity -------------------------------
(* The purity report of the server's address: CheckPurity of
   internal/core/detector/purity.go, as the set of reports the code may produce
   for what the location services and the reputation service answer.  There can be
   several: Go ranges over a map of countries in any order. *)
EXTENDS Integers, Sequences, FiniteSets

CONSTANT Countries
Unknown == ""     \* a service that answers without a country

ASSUME CountriesAssumption == Unknown \notin Countries

(* What a location service answers: the country's code, and whether it gives the
   country's name beside it.  Three of the four give them in fields of their own. *)
GeoSource == [country : Countries \cup {Unknown}, spelled : BOOLEAN]

(* geoSources: the four services in their order, those that fail left out. *)
Sources == UNION {[1..n -> GeoSource] : n \in 0..4}

(* The answer of the reputation service; "named": the provider's name contains one
   of the words cloud, hosting, server, data and vps. *)
Reputation == [hosting : BOOLEAN, proxy : BOOLEAN, mobile : BOOLEAN, named : BOOLEAN]

-----------------------------------------------------------------------------
(* applyBestGeo. *)

Votes(sources, c) == Cardinality({i \in DOMAIN sources : sources[i].country = c})
Named(sources) == {sources[i].country : i \in DOMAIN sources} \ {Unknown}

(* Whichever of the best the range over the map meets first. *)
Best(sources) ==
  {c \in Named(sources) : \A d \in Named(sources) : Votes(sources, d) <= Votes(sources, c)}
Winners(sources) == {c \in Best(sources) : Votes(sources, c) > 1}

(* The first service with the code is selected, and its name goes with it. *)
Spelled(sources, c) ==
  \E i \in DOMAIN sources :
    /\ sources[i].country = c /\ sources[i].spelled
    /\ \A j \in 1..(i - 1) : sources[j].country # c

(* Country and confidence; without two that agree, the first service is believed. *)
Locations(sources) ==
  IF sources = <<>>
    THEN {[country |-> Unknown, spelled |-> FALSE, confidence |-> "none"]}
  ELSE IF Winners(sources) # {}
    THEN {[country |-> c, spelled |-> Spelled(sources, c), confidence |-> "match"]
            : c \in Winners(sources)}
  ELSE {[country |-> sources[1].country, spelled |-> sources[1].spelled,
         confidence |-> IF Len(sources) > 1 THEN "conflict" ELSE "single"]}

-----------------------------------------------------------------------------
(* The score, and what is concluded from it. *)

If(flag, n) == IF flag THEN n ELSE 0
Clamp(n) == IF n < 0 THEN 0 ELSE IF n > 100 THEN 100 ELSE n

Score(rep) ==
  Clamp(88 - If(rep.hosting, 18) - If(rep.proxy, 35) + If(rep.mobile, 4) - If(rep.named, 8))

Level(score) == IF score >= 80 THEN "clean" ELSE IF score >= 55 THEN "medium" ELSE "risky"

(* The later check wins. *)
IPType(rep) ==
  CASE rep.named -> "datacenter"
    [] ~rep.named /\ rep.mobile -> "mobile"
    [] ~rep.named /\ ~rep.mobile /\ rep.hosting -> "datacenter"
    [] ~rep.named /\ ~rep.mobile /\ ~rep.hosting ->
         IF rep.proxy THEN "unknown" ELSE "residential"

(* The verdict on AI, streaming and registration; browsing is always good. *)
Sensitive(score, proxy) ==
  IF proxy \/ score < 55 THEN "risky" ELSE IF score < 80 THEN "limited" ELSE "good"

Risk(name, flag) == IF flag THEN {name} ELSE {}
Unsure(location) == Risk("conflict", location.confidence = "conflict")

(* A report without the name of a country takes name and code of the reputation
   service. *)
Judged(location, rep, own) ==
  [country |-> IF location.spelled THEN location.country ELSE own,
   confidence |-> location.confidence,
   level |-> Level(Score(rep)),
   type |-> IPType(rep),
   sensitive |-> Sensitive(Score(rep), rep.proxy),
   risks |-> Unsure(location) \cup Risk("hosting", rep.hosting)
             \cup Risk("proxy", rep.proxy) \cup Risk("named", rep.named)]

(* The reputation service is unreachable or has no result: no use is judged. *)
Unjudged(location) ==
  [country |-> location.country, confidence |-> location.confidence,
   level |-> "unknown", type |-> "unknown", sensitive |-> "none",
   risks |-> Unsure(location) \cup {"unreachable"}]

CheckPurity(sources) ==
  UNION {{Unjudged(l)} \cup {Judged(l, rep, own) : rep \in Reputation, own \in Countries \cup {Unknown}}
         : l \in Locations(sources)}

-----------------------------------------------------------------------------
(* The country c is shown, or else the service it was taken from has no name for it
   and the reputation service has been asked, whose answer then takes its place. *)
Shows(r, sources, c) ==
  r.country = c \/ (~Spelled(sources, c) /\ "unreachable" \notin r.risks)

(* A country that at least two services name by its code, and more of them than any
   other, is the one that is shown, in whatever order the map is ranged over; and a
   country is called matched only if two services name it.  An agreement on a code
   whose first service gives no name with it is the exception the code makes. *)
GeoFollowsVotes ==
  \A sources \in Sources : \A r \in CheckPurity(sources) :
    /\ \A c \in Countries :
         (Votes(sources, c) > 1 /\ \A d \in Countries \ {c} : Votes(sources, d) < Votes(sources, c))
           => Shows(r, sources, c)
    /\ r.confidence = "match" =>
         \E c \in Countries : Votes(sources, c) > 1 /\ Shows(r, sources, c)

(* The parts of a report agree: an address flagged as a proxy or as hosting is never
   clean, whatever makes up for it; a good verdict on a sensitive use needs a clean
   level, and a risky level a risky verdict; a report that is not clean names a risk
   of the address, and one whose type is a guess at a home line names none. *)
VerdictIsConsistent ==
  \A sources \in Sources : \A r \in CheckPurity(sources) :
    /\ r.risks \cap {"proxy", "hosting"} # {} => r.level # "clean"
    /\ r.sensitive = "good" => r.level = "clean"
    /\ r.level = "risky" => r.sensitive = "risky"
    /\ r.level # "clean" => r.risks \ {"conflict"} # {}
    /\ r.type = "residential" => r.risks \subseteq {"conflict"}
=============================================================================
