------------------------------ MODULE Metrics ------------------------------
(* Traffic counters, the cache of measurements and the traffic history:
   internal/api/metrics.go over internal/core/traffic/iptables.go.

   Three kinds of goroutines share a cache under a read-write lock.  The refresh
   loop reads iptables' counters, chain after chain, and replaces the cache; the
   persist loop samples the cache every five minutes and appends what has passed
   since its last sample to the history in AppState; a GET of the state holds the
   read lock while it dials every chain client.  Bytes are counted in units. *)
EXTENDS Integers, SequencesExt

CONSTANTS
  Ports,        \* ports with a rule in both chains
  Viewers,      \* goroutines of GET /api/v1/state
  MaxHistory,   \* entries kept in all: 288 in the code
  MaxTicks,     \* bound: samples of the persist loop
  MaxEvents     \* bound: units of traffic, resets, failures and restarts

ASSUME NumbersAssumption ==
  MaxHistory \in Nat \ {0} /\ MaxTicks \in Nat /\ MaxEvents \in Nat
ASSUME PortsAssumption == IsFiniteSet(Ports) /\ Ports # {}

VARIABLES
  kernel,     \* [Chains -> [Ports -> Nat]]: what iptables shows
  gone,       \* history: what was counted before a reset, likewise
  refresh,    \* the refresh loop: its place and what it has read
  cache,      \* metricsCache.portBytes
  prev,       \* the last sample of the persist loop
  viewer,     \* [Viewers -> {"idle", "waiting", "reading"}]
  history,    \* AppState.TrafficHistory
  saved,      \* the same in state.json
  now,        \* samples taken so far
  made,       \* history: entries made and not lost with an unsaved state
  recorded,   \* history: [Ports -> Nat], the sum of all entries ever made
  torn,       \* history: a sample lacked a chain
  events      \* counter of the bound MaxEvents

counters == <<kernel, gone>>
store == <<history, saved, made, recorded>>
persist == <<prev, now, torn>>
vars == <<kernel, gone, refresh, cache, prev, viewer, history, saved, now, made,
          recorded, torn, events>>

Chains == {"IN", "OUT"}

(* The counters as they were read: whether both chains could be, and what those
   that were had forgotten by then (for the properties only).  Before the first
   one has been "taken" the panel does not listen. *)
Reading == [taken : BOOLEAN, bytes : [Ports -> Nat], gone : [Ports -> Nat], whole : BOOLEAN]
Zero == [p \in Ports |-> 0]
NoReading == [taken |-> FALSE, bytes |-> Zero, gone |-> Zero, whole |-> TRUE]

Entry == [port : Ports, bytes : Nat \ {0}, tick : Nat]

TypeOK ==
  /\ kernel \in [Chains -> [Ports -> Nat]] /\ gone \in [Chains -> [Ports -> Nat]]
  /\ refresh \in [place : {"idle", "half", "read", "pending"}, reading : Reading]
  /\ cache \in Reading /\ prev \in Reading
  /\ viewer \in [Viewers -> {"idle", "waiting", "reading"}]
  /\ history \in Seq(Entry) /\ saved \in Seq(Entry) /\ made \subseteq Entry
  /\ Len(history) <= MaxHistory /\ Len(saved) <= MaxHistory
  /\ now \in 0..MaxTicks
  /\ recorded \in [Ports -> Nat]
  /\ torn \in BOOLEAN
  /\ events \in 0..MaxEvents

Init ==
  /\ kernel = [c \in Chains |-> Zero] /\ gone = [c \in Chains |-> Zero]
  /\ refresh = [place |-> "idle", reading |-> NoReading]
  /\ cache = NoReading /\ prev = NoReading
  /\ viewer = [v \in Viewers |-> "idle"]
  /\ history = <<>> /\ saved = <<>> /\ made = {}
  /\ now = 0
  /\ recorded = Zero
  /\ torn = FALSE
  /\ events = 0

Happens == events < MaxEvents /\ events' = events + 1

-----------------------------------------------------------------------------
(* iptables. *)

(* Bytes pass through the ports of a set. *)
Traffic(c, busy) ==
  /\ Happens
  /\ kernel' = [kernel EXCEPT ![c] = [p \in Ports |-> @[p] + IF p \in busy THEN 1 ELSE 0]]
  /\ UNCHANGED <<gone, refresh, cache, viewer, store, persist>>

(* The counters are zeroed, or the rules inserted anew. *)
Reset ==
  /\ Happens
  /\ kernel' = [c \in Chains |-> Zero]
  /\ gone' = [c \in Chains |-> [p \in Ports |-> gone[c][p] + kernel[c][p]]]
  /\ UNCHANGED <<refresh, cache, viewer, store, persist>>

-----------------------------------------------------------------------------
(* The refresh loop; its first round comes before everything else. *)

(* A chain that cannot be listed is passed over and counts nothing. *)
Listed(sofar, c) ==
  [taken |-> TRUE, whole |-> sofar.whole,
   bytes |-> [p \in Ports |-> sofar.bytes[p] + kernel[c][p]],
   gone |-> [p \in Ports |-> sofar.gone[p] + gone[c][p]]]
Unlisted(sofar) == [sofar EXCEPT !.taken = TRUE, !.whole = FALSE]

Read(sofar, c, place) ==
  /\ \/ /\ refresh' = [place |-> place, reading |-> Listed(sofar, c)]
        /\ UNCHANGED events
     \/ /\ refresh' = [place |-> place, reading |-> Unlisted(sofar)]
        /\ Happens
  /\ UNCHANGED <<counters, cache, viewer, store, persist>>

ReadIn == refresh.place = "idle" /\ Read(NoReading, "IN", "half")
ReadOut == refresh.place = "half" /\ Read(refresh.reading, "OUT", "read")

(* The latency of the mainland and the status of the peers have been asked for; mu
   is requested, and keeps new readers out from now on. *)
RequestLock ==
  /\ refresh.place = "read"
  /\ refresh' = [refresh EXCEPT !.place = "pending"]
  /\ UNCHANGED <<counters, cache, viewer, store, persist, events>>

(* The last reader has left; those that wait get in when mu is unlocked. *)
StoreReading ==
  /\ refresh.place = "pending"
  /\ \A v \in Viewers : viewer[v] # "reading"
  /\ cache' = refresh.reading
  /\ refresh' = [place |-> "idle", reading |-> NoReading]
  /\ viewer' = [v \in Viewers |-> IF viewer[v] = "waiting" THEN "reading" ELSE viewer[v]]
  /\ UNCHANGED <<counters, store, persist, events>>

Readable == cache.taken /\ refresh.place # "pending"

-----------------------------------------------------------------------------
(* GET /api/v1/state: enrich has the cache for as long as it dials. *)

ViewerArrives(v) ==
  /\ viewer[v] = "idle"
  /\ cache.taken
  /\ viewer' = [viewer EXCEPT ![v] = IF Readable THEN "reading" ELSE "waiting"]
  /\ UNCHANGED <<counters, refresh, cache, store, persist, events>>

(* Slip: every figure is taken under a read lock of its own, inside the first. *)
AnswerLocksAgain(v) ==
  /\ viewer[v] = "reading"
  /\ Readable
  /\ viewer' = [viewer EXCEPT ![v] = "idle"]
  /\ UNCHANGED <<counters, refresh, cache, store, persist, events>>

Answer(v) ==
  /\ viewer[v] = "reading"
  /\ viewer' = [viewer EXCEPT ![v] = "idle"]
  /\ UNCHANGED <<counters, refresh, cache, store, persist, events>>

-----------------------------------------------------------------------------
(* The persist loop.  Its sample is a copy: the read lock is held for no longer. *)

Sample ==
  /\ now < MaxTicks /\ now' = now + 1
  /\ Readable
  /\ prev' = cache
  /\ torn' = (torn \/ ~cache.whole)

Delta(p) == cache.bytes[p] - prev.bytes[p]
NewEntries ==
  {[port |-> p, bytes |-> Delta(p), tick |-> now + 1] : p \in {q \in Ports : Delta(q) > 0}}

(* Slip: the oldest entries are kept. *)
OldestEntries(h) == IF Len(h) > MaxHistory THEN SubSeq(h, 1, MaxHistory) ELSE h

(* Slip: off by one. *)
OneEntryMore(h) ==
  IF Len(h) > MaxHistory + 1 THEN SubSeq(h, Len(h) - MaxHistory + 1, Len(h)) ELSE h

NewestEntries(h) ==
  IF Len(h) > MaxHistory THEN SubSeq(h, Len(h) - MaxHistory + 1, Len(h)) ELSE h

Appended ==
  \E entries \in SetToSeqs(NewEntries) : history' = NewestEntries(history \o entries)

Recorded == [p \in Ports |-> recorded[p] + IF Delta(p) > 0 THEN Delta(p) ELSE 0]

(* The first sample of a process is only compared with; so is one in which nothing
   has passed. *)
SampleOnly ==
  /\ Sample
  /\ ~prev.taken \/ NewEntries = {}
  /\ UNCHANGED <<counters, refresh, cache, viewer, store, events>>

(* Slip: the base of the next difference moves on only once the state is saved. *)
PersistKeepsBase ==
  /\ now < MaxTicks /\ now' = now + 1
  /\ Readable
  /\ prev.taken /\ NewEntries # {}
  /\ torn' = (torn \/ ~cache.whole)
  /\ Appended
  /\ made' = made \cup NewEntries
  /\ recorded' = Recorded
  /\ \/ saved' = history' /\ prev' = cache /\ UNCHANGED events
     \/ UNCHANGED <<saved, prev>> /\ Happens
  /\ UNCHANGED <<counters, refresh, cache, viewer>>

(* store.Update, the result of which is dropped. *)
Persist ==
  /\ Sample
  /\ prev.taken /\ NewEntries # {}
  /\ Appended
  /\ made' = made \cup NewEntries
  /\ recorded' = Recorded
  /\ \/ saved' = history' /\ UNCHANGED events
     \/ UNCHANGED saved /\ Happens
  /\ UNCHANGED <<counters, refresh, cache, viewer>>

(* Every other handler's Update writes the history too. *)
UpdateElsewhere ==
  /\ saved # history
  /\ saved' = history
  /\ UNCHANGED <<counters, refresh, cache, viewer, history, made, recorded, persist, events>>

-----------------------------------------------------------------------------
(* The panel ends and is started again; iptables goes on counting. *)
Restart ==
  /\ Happens
  /\ refresh' = [place |-> "idle", reading |-> NoReading]
  /\ cache' = NoReading /\ prev' = NoReading
  /\ viewer' = [v \in Viewers |-> "idle"]
  /\ history' = saved
  /\ made' = made \cap ToSet(saved)
  /\ UNCHANGED <<counters, saved, now, recorded, torn>>

Next ==
  \/ \E c \in Chains, busy \in (SUBSET Ports) \ {{}} : Traffic(c, busy)
  \/ Reset
  \/ ReadIn \/ ReadOut \/ RequestLock \/ StoreReading
  \/ \E v \in Viewers : ViewerArrives(v) \/ Answer(v)
  \/ SampleOnly \/ Persist
  \/ UpdateElsewhere
  \/ Restart

Spec == Init /\ [][Next]_vars

(* Dialing ends after 1.2 seconds a client, and a lock that is free is taken. *)
FairSpec == Spec /\ WF_vars(StoreReading) /\ \A v \in Viewers : WF_vars(Answer(v))

-----------------------------------------------------------------------------
Passed(p) == kernel["IN"][p] + kernel["OUT"][p] + gone["IN"][p] + gone["OUT"][p]

(* The history never shows more traffic than there was, across resets of the
   counters (also between the two chains), restarts and failed saves -- unless a
   sample lacked a chain, whose bytes the next one then counts as new. *)
HistoryNeverOvercounts == ~torn => \A p \in Ports : recorded[p] <= Passed(p)

(* With one limit for all ports, the history still covers the last
   MaxHistory \div |Ports| samples in full: no entry of theirs is dropped. *)
HistoryCoversWindow ==
  \A e \in made : e.tick > now - (MaxHistory \div Cardinality(Ports)) => e \in ToSet(history)

(* A GET of the state is answered, and the refresh gets the lock, although each
   waits for the other kind and new ones keep coming. *)
NobodyWaitsForever ==
  /\ \A v \in Viewers : viewer[v] # "idle" ~> viewer[v] = "idle"
  /\ refresh.place = "pending" ~> refresh.place = "idle"
=============================================================================
